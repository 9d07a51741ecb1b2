--------------------------- MODULE TextInputProofs ---------------------------
(***************************************************************************)
(* Proofs about TextInput, for every size of the buffer and of the field,  *)
(* every set of characters and every text.  What each loop leaves in the   *)
(* buffer is a lemma; the invariant and the refinement of Editor follow    *)
(* from those.                                                             *)
(***************************************************************************)
EXTENDS TextInput, SequenceTheorems, TLAPS

Buffers == [Index -> Byte]

(* The buffer b holds a string of n bytes.                                 *)
HoldsString(b, n) == b \in Buffers /\ n \in Index /\ IsLength(b, n)

-----------------------------------------------------------------------------
(* What the loops leave in the buffer                                      *)

(* A string has one length, and it is what strlen returns.                 *)
LEMMA StrlenIs ==
  ASSUME NEW b, NEW n, HoldsString(b, n)
  PROVE  strlen(b) = n
  <1>1. \A m \in Index : IsLength(b, m) => m = n
    BY SizeAssumption DEF HoldsString, IsLength, Index
  <1> QED BY <1>1 DEF HoldsString, strlen

(* gui_strncpy leaves the string it copies.                                *)
LEMMA CopyHolds ==
  ASSUME NEW s \in Seq(Chars), Len(s) < BufferSize, NEW b \in Buffers
  PROVE  /\ HoldsString(Copy(s, b), Len(s))
         /\ \A i \in 0..Len(s) - 1 : Copy(s, b)[i] = s[i + 1]
  <1>1. Len(s) \in Nat /\ Len(s) \in Index /\ \A i \in 1..Len(s) : s[i] \in Chars
    BY SizeAssumption DEF Index
  <1>2. \A i \in Index : Copy(s, b)[i] = IF i < Len(s) THEN s[i + 1]
                                        ELSE IF i = Len(s) THEN Nul ELSE b[i]
    BY DEF Copy
  <1>3. \A i \in 0..Len(s) - 1 : i \in Index /\ Copy(s, b)[i] = s[i + 1] /\ s[i + 1] \in Chars
    BY <1>1, <1>2, SizeAssumption DEF Index
  <1>4. Copy(s, b) \in Buffers
    <2>1. \A i \in Index : Copy(s, b)[i] \in Byte
      BY <1>1, <1>2, SizeAssumption DEF Index, Byte, Buffers
    <2> QED BY <2>1 DEF Copy, Buffers
  <1>5. Copy(s, b)[Len(s)] = Nul
    BY <1>1, <1>2
  <1> QED BY <1>1, <1>3, <1>4, <1>5, CharAssumption DEF HoldsString, IsLength

(* Erasing part of a string joins what is before it and what is after.     *)
LEMMA EraseRangeHolds ==
  ASSUME NEW b, NEW n, HoldsString(b, n),
         NEW from \in Nat, NEW upto \in Nat, from <= upto, upto <= n
  PROVE  /\ HoldsString(EraseRange(b, from, upto), n - (upto - from))
         /\ \A i \in 0..n - (upto - from) - 1 :
              EraseRange(b, from, upto)[i] = IF i < from THEN b[i] ELSE b[i + (upto - from)]
  <1> DEFINE gap == upto - from
             m == n - gap
             r == EraseRange(b, from, upto)
  <1>1. n \in Nat /\ gap \in Nat /\ m \in Nat /\ m \in Index /\ from <= m
    BY SizeAssumption DEF HoldsString, Index
  <1>2. r = [i \in Index |-> IF i = m THEN Nul ELSE IF i \in from..m - 1 THEN b[i + gap] ELSE b[i]]
    BY StrlenIs DEF EraseRange
  <1>3. \A i \in Index : i \in from..m - 1 => i + gap \in Index
    BY <1>1, SizeAssumption DEF Index, HoldsString
  <1> HIDE DEF r, gap, m
  <1>4. r \in Buffers
    BY <1>2, <1>3 DEF HoldsString, Buffers, Byte
  <1>5. \A i \in 0..m - 1 : i \in Index /\ r[i] = IF i < from THEN b[i] ELSE b[i + gap]
    BY <1>1, <1>2, SizeAssumption DEF Index, HoldsString
  <1>6. \A i \in 0..m - 1 : r[i] # Nul
    <2> TAKE i \in 0..m - 1
    <2>1. i \in 0..n - 1 /\ i + gap \in 0..n - 1
      BY <1>1 DEF m
    <2> QED BY <1>5, <2>1 DEF HoldsString, IsLength
  <1>7. r[m] = Nul
    BY <1>1, <1>2
  <1>8. HoldsString(r, m)
    BY <1>1, <1>4, <1>6, <1>7 DEF HoldsString, IsLength
  <1> QED BY <1>5, <1>8 DEF r, m, gap

(* Backspace and Delete take one character out.                            *)
LEMMA EraseOneHolds ==
  ASSUME NEW b, NEW n, HoldsString(b, n), NEW at \in Nat, at < n
  PROVE  /\ HoldsString(EraseOne(b, at), n - 1)
         /\ \A i \in 0..n - 2 : EraseOne(b, at)[i] = IF i < at THEN b[i] ELSE b[i + 1]
  <1> DEFINE r == EraseOne(b, at)
  <1>1. n \in Nat /\ n - 1 \in Index
    BY SizeAssumption DEF HoldsString, Index
  <1>2. r = [i \in Index |-> IF i \in at..n - 1 THEN b[i + 1] ELSE b[i]]
    BY StrlenIs DEF EraseOne
  <1>3. \A i \in Index : i \in at..n - 1 => i + 1 \in Index
    BY <1>1, SizeAssumption DEF Index, HoldsString
  <1> HIDE DEF r
  <1>4. r \in Buffers
    BY <1>2, <1>3 DEF HoldsString, Buffers, Byte
  <1>5. \A i \in 0..n - 2 : i \in Index /\ r[i] = IF i < at THEN b[i] ELSE b[i + 1]
    BY <1>1, <1>2, SizeAssumption DEF Index, HoldsString
  <1>6. \A i \in 0..n - 2 : r[i] # Nul
    BY <1>1, <1>5 DEF HoldsString, IsLength
  <1>7. r[n - 1] = Nul
    BY <1>1, <1>2 DEF HoldsString, IsLength
  <1>8. HoldsString(r, n - 1)
    BY <1>1, <1>4, <1>6, <1>7 DEF HoldsString, IsLength
  <1> QED BY <1>5, <1>8 DEF r

(* A character goes in where there is room for it and for the NUL.         *)
LEMMA InsertHolds ==
  ASSUME NEW b, NEW n, HoldsString(b, n), n + 1 < BufferSize,
         NEW at \in Nat, at <= n, NEW c \in Chars
  PROVE  /\ HoldsString(Insert(b, at, c), n + 1)
         /\ \A i \in 0..n : Insert(b, at, c)[i] =
              IF i < at THEN b[i] ELSE IF i = at THEN c ELSE b[i - 1]
  <1> DEFINE r == Insert(b, at, c)
  <1>1. n \in Nat /\ n + 1 \in Index /\ c \in Byte /\ c # Nul
    BY SizeAssumption, CharAssumption DEF HoldsString, Index, Byte
  <1>2. r = [i \in Index |-> IF i = n + 1 THEN Nul ELSE IF i = at THEN c
                             ELSE IF i \in at + 1..n THEN b[i - 1] ELSE b[i]]
    BY StrlenIs DEF Insert
  <1>3. \A i \in Index : i \in at + 1..n => i - 1 \in Index
    BY <1>1, SizeAssumption DEF Index, HoldsString
  <1> HIDE DEF r
  <1>4. r \in Buffers
    BY <1>1, <1>2, <1>3 DEF HoldsString, Buffers, Byte
  <1>5. \A i \in 0..n : i \in Index /\ r[i] = IF i < at THEN b[i] ELSE IF i = at THEN c ELSE b[i - 1]
    BY <1>1, <1>2, SizeAssumption DEF Index, HoldsString
  <1>6. \A i \in 0..n : r[i] # Nul
    BY <1>1, <1>5 DEF HoldsString, IsLength
  <1>7. r[n + 1] = Nul
    BY <1>1, <1>2
  <1>8. HoldsString(r, n + 1)
    BY <1>1, <1>4, <1>6, <1>7 DEF HoldsString, IsLength
  <1> QED BY <1>5, <1>8 DEF r

-----------------------------------------------------------------------------
(* The invariant                                                           *)

TextInv == TextTypeOK /\ StringInBuffer

(* The invariant, said of the string's length.                             *)
PlacedIn(n) ==
  /\ HoldsString(buffer, n)
  /\ cursor_pos \in 0..n /\ selection_start \in 0..n /\ selection_end = cursor_pos

LEMMA InvPlaced ==
  ASSUME TextInv
  PROVE  /\ PlacedIn(strlen(buffer)) /\ strlen(buffer) \in Nat
         /\ scroll_offset \in Index /\ dragging \in BOOLEAN
  <1>1. PICK n \in Index : IsLength(buffer, n) /\ cursor_pos <= n /\ selection_start <= n
    BY DEF TextInv, StringInBuffer
  <1>2. HoldsString(buffer, n)
    BY <1>1 DEF TextInv, TextTypeOK, HoldsString, Buffers
  <1>3. strlen(buffer) = n
    BY <1>2, StrlenIs
  <1> QED BY <1>1, <1>2, <1>3, SizeAssumption
          DEF TextInv, TextTypeOK, StringInBuffer, PlacedIn, Index

LEMMA PlacedInv ==
  ASSUME NEW n, PlacedIn(n), scroll_offset \in Index, dragging \in BOOLEAN
  PROVE  TextInv
  <1>1. n \in Nat /\ \A i \in 0..n : i \in Index
    BY SizeAssumption DEF PlacedIn, HoldsString, Index
  <1> QED BY <1>1 DEF PlacedIn, HoldsString, Buffers, TextInv, TextTypeOK, StringInBuffer

(* The first character shown is a character of the buffer.                 *)
LEMMA ScrollInBuffer ==
  ASSUME NEW pos \in Index, NEW from \in Index
  PROVE  ScrollRight(pos, from) \in Index /\ ScrollLeft(pos, from) \in Index
  BY SizeAssumption DEF ScrollRight, ScrollLeft, Index

LEMMA SelectionBounds ==
  ASSUME NEW n, PlacedIn(n)
  PROVE  /\ Lesser \in Nat /\ Greater \in Nat /\ Lesser <= Greater /\ Greater <= n
         /\ n \in Nat /\ Selected => Lesser < Greater
  BY SizeAssumption DEF PlacedIn, HoldsString, Index, Lesser, Greater, Selected

(* The text a character is typed into, and where.                          *)
LEMMA TypedInto ==
  ASSUME TextInv, NEW c, InsertChar(c)
  PROVE  \E base \in Buffers, n \in Nat, at \in Nat :
           /\ at <= n
           /\ HoldsString(base, n) /\ n + 1 < BufferSize
           /\ buffer' = Insert(base, at, c)
           /\ cursor_pos' = at + 1 /\ selection_start' = at + 1 /\ selection_end' = at + 1
           /\ scroll_offset' = ScrollRight(at + 1, scroll_offset) /\ dragging' = dragging
           /\ \/ /\ Holds(buffer, Placeholder) /\ Placeholder # <<>>
                 /\ n = 0 /\ at = 0
              \/ /\ ~(Holds(buffer, Placeholder) /\ Placeholder # <<>>)
                 /\ strlen(buffer) < BufferSize - 1
                 /\ n = strlen(buffer) - (Greater - Lesser) /\ at = Lesser
                 /\ \A i \in 0..n - 1 :
                      base[i] = IF i < Lesser THEN buffer[i] ELSE buffer[i + (Greater - Lesser)]
  <1> DEFINE len == strlen(buffer)
             shows == Holds(buffer, Placeholder) /\ Placeholder # <<>>
             base == IF shows THEN [buffer EXCEPT ![0] = Nul]
                     ELSE IF Selected THEN EraseSelected(buffer) ELSE buffer
             at == IF shows THEN 0 ELSE IF Selected THEN Lesser ELSE cursor_pos
             n == IF shows THEN 0 ELSE len - (Greater - Lesser)
  <1>1. PlacedIn(len) /\ len \in Nat
    BY InvPlaced
  <1>2. /\ Lesser \in Nat /\ Greater \in Nat /\ Lesser <= Greater /\ Greater <= len
        /\ Selected => Lesser < Greater
    BY <1>1, SelectionBounds
  <1>3. /\ shows \/ len < BufferSize - 1
        /\ buffer' = Insert(base, at, c)
        /\ cursor_pos' = at + 1 /\ selection_start' = at + 1 /\ selection_end' = at + 1
        /\ scroll_offset' = ScrollRight(at + 1, scroll_offset) /\ dragging' = dragging
    BY DEF InsertChar, PutAt
  <1>4. CASE shows
    <2>1. HoldsString(base, 0)
      BY <1>1, <1>4, SizeAssumption DEF PlacedIn, HoldsString, IsLength, Buffers, Byte, Index
    <2>2. base \in Buffers /\ n = 0 /\ at = 0
      BY <1>4, <2>1 DEF HoldsString
    <2> HIDE DEF base, n, at
    <2> QED BY <1>3, <1>4, <2>1, <2>2, SizeAssumption
  <1>5. CASE ~shows /\ Selected
    <2>1. /\ HoldsString(base, n)
          /\ \A i \in 0..n - 1 :
               base[i] = IF i < Lesser THEN buffer[i] ELSE buffer[i + (Greater - Lesser)]
      <3>1. HoldsString(buffer, len)
        BY <1>1 DEF PlacedIn
      <3>2. base = EraseRange(buffer, Lesser, Greater) /\ n = len - (Greater - Lesser)
        BY <1>5 DEF EraseSelected
      <3> HIDE DEF base, n, len
      <3> QED BY <1>2, <3>1, <3>2, EraseRangeHolds
    <2>2. n \in Nat /\ n + 1 < BufferSize /\ at <= n /\ at = Lesser /\ base \in Buffers
      BY <1>1, <1>2, <1>3, <1>5, <2>1, SizeAssumption DEF HoldsString
    <2>3. n = len - (Greater - Lesser)
      BY <1>5
    <2> HIDE DEF base, n, at
    <2> QED BY <1>2, <1>3, <1>5, <2>1, <2>2, <2>3
  <1>6. CASE ~shows /\ ~Selected
    <2>1. Lesser = cursor_pos /\ Greater = cursor_pos
      BY <1>1, <1>6 DEF PlacedIn, Selected, Lesser, Greater
    <2>2. n = len /\ base = buffer /\ at = Lesser /\ at <= n /\ n + 1 < BufferSize
          /\ base \in Buffers /\ n = len - (Greater - Lesser)
      BY <1>1, <1>2, <1>3, <1>6, <2>1, SizeAssumption DEF PlacedIn, HoldsString
    <2>3. HoldsString(base, n) /\ \A i \in 0..n - 1 :
               base[i] = IF i < Lesser THEN buffer[i] ELSE buffer[i + (Greater - Lesser)]
      BY <1>1, <2>1, <2>2 DEF PlacedIn
    <2> HIDE DEF base, n, at
    <2> QED BY <1>1, <1>2, <1>3, <1>6, <2>2, <2>3
  <1> QED BY <1>4, <1>5, <1>6

(* What a step has to leave for the invariant to hold after it.            *)
LEMMA PlacedNext ==
  ASSUME NEW n, HoldsString(buffer', n),
         cursor_pos' \in 0..n, selection_start' \in 0..n, selection_end' = cursor_pos',
         scroll_offset' \in Index, dragging' \in BOOLEAN
  PROVE  TextInv'
  <1>1. n \in Index /\ n \in Nat /\ \A i \in 0..n : i \in Index /\ i <= n
    BY SizeAssumption DEF HoldsString, Index
  <1>2. TextTypeOK'
    BY <1>1 DEF HoldsString, Buffers, TextTypeOK
  <1>3. StringInBuffer'
    BY <1>1 DEF HoldsString, StringInBuffer, IsLength
  <1> QED BY <1>2, <1>3 DEF TextInv

(* Moving the cursor within the string.                                    *)
LEMMA MoveKeeps ==
  ASSUME TextInv, NEW pos \in 0..strlen(buffer), NEW shift \in BOOLEAN, MoveTo(pos, shift),
         buffer' = buffer, scroll_offset' \in Index, dragging' \in BOOLEAN
  PROVE  TextInv'
  <1>1. PlacedIn(strlen(buffer)) /\ strlen(buffer) \in Nat
    BY InvPlaced
  <1>2. /\ cursor_pos' \in 0..strlen(buffer) /\ selection_start' \in 0..strlen(buffer)
        /\ selection_end' = cursor_pos'
    BY <1>1 DEF MoveTo, PlacedIn
  <1>3. HoldsString(buffer', strlen(buffer))
    BY <1>1 DEF PlacedIn
  <1> QED BY <1>2, <1>3, PlacedNext

(* Pointing at a column puts the cursor in the string.                     *)
LEMMA PointAtKeeps ==
  ASSUME TextInv, NEW col \in Index, NEW shift \in BOOLEAN, PointAt(col, shift),
         dragging' \in BOOLEAN
  PROVE  TextInv'
  <1> DEFINE far == col + scroll_offset
             n == strlen(buffer)
             pos == IF far > n THEN n ELSE far
  <1>1. PlacedIn(n) /\ n \in Nat /\ scroll_offset \in Index
    BY InvPlaced
  <1>2. pos \in 0..n /\ pos \in Index
    BY <1>1, SizeAssumption DEF PlacedIn, HoldsString, Index
  <1>3. /\ MoveTo(pos, shift) /\ buffer' = buffer
        /\ scroll_offset' = ScrollLeft(pos, ScrollRight(pos, scroll_offset))
    BY DEF PointAt
  <1>4. scroll_offset' \in Index
    BY <1>1, <1>2, <1>3, ScrollInBuffer
  <1> HIDE DEF pos
  <1> QED BY <1>2, <1>3, <1>4, MoveKeeps

(* The keys that change the text.                                          *)
LEMMA EditingKeeps ==
  ASSUME TextInv,
         \/ \E c \in Chars : InsertChar(c)
         \/ EraseSelection \/ Backspace \/ DeleteChar
  PROVE  TextInv'
  <1> DEFINE n == strlen(buffer)
  <1>1. PlacedIn(n) /\ n \in Nat /\ scroll_offset \in Index /\ dragging \in BOOLEAN
    BY InvPlaced
  <1>2. HoldsString(buffer, n) /\ cursor_pos \in 0..n
    BY <1>1 DEF PlacedIn
  <1> HIDE DEF n
  <1>3. ASSUME NEW c \in Chars, InsertChar(c) PROVE TextInv'
    <2>1. PICK base \in Buffers, k \in Nat, at \in Nat :
            /\ at <= k /\ HoldsString(base, k) /\ k + 1 < BufferSize
            /\ buffer' = Insert(base, at, c)
            /\ cursor_pos' = at + 1 /\ selection_start' = at + 1 /\ selection_end' = at + 1
            /\ scroll_offset' = ScrollRight(at + 1, scroll_offset) /\ dragging' = dragging
      BY <1>3, TypedInto
    <2>2. HoldsString(buffer', k + 1)
      BY <2>1, InsertHolds
    <2>3. at + 1 \in 0..k + 1 /\ at + 1 \in Index
      BY <2>1, SizeAssumption DEF Index
    <2>4. scroll_offset' \in Index
      BY <1>1, <2>1, <2>3, ScrollInBuffer
    <2> QED BY <1>1, <2>1, <2>2, <2>3, <2>4, PlacedNext
  <1>4. CASE EraseSelection
    <2>1. Lesser \in Nat /\ Greater \in Nat /\ Lesser <= Greater /\ Greater <= n
      BY <1>1, SelectionBounds
    <2>2. HoldsString(buffer', n - (Greater - Lesser))
      BY <1>2, <1>4, <2>1, EraseRangeHolds DEF EraseSelection, EraseSelected
    <2>3. Lesser \in 0..n - (Greater - Lesser)
      BY <1>1, <2>1
    <2>4. /\ cursor_pos' = Lesser /\ selection_start' = Lesser /\ selection_end' = Lesser
          /\ scroll_offset' = scroll_offset /\ dragging' = dragging
      BY <1>4 DEF EraseSelection, PutAt
    <2> QED BY <1>1, <2>2, <2>3, <2>4, PlacedNext
  <1>5. CASE Backspace
    <2>1. cursor_pos - 1 \in Nat /\ cursor_pos - 1 < n /\ cursor_pos - 1 \in 0..n - 1
      BY <1>1, <1>2, <1>5 DEF Backspace
    <2>2. HoldsString(buffer', n - 1)
      BY <1>2, <1>5, <2>1, EraseOneHolds DEF Backspace
    <2>3. /\ cursor_pos' = cursor_pos - 1 /\ selection_start' = cursor_pos - 1
          /\ selection_end' = cursor_pos - 1
          /\ scroll_offset' = scroll_offset /\ dragging' = dragging
      BY <1>5 DEF Backspace, PutAt
    <2> QED BY <1>1, <2>1, <2>2, <2>3, PlacedNext
  <1>6. CASE DeleteChar
    <2>1. cursor_pos \in Nat /\ cursor_pos < n /\ cursor_pos \in 0..n - 1
      BY <1>1, <1>2, <1>6 DEF DeleteChar, n
    <2>2. HoldsString(buffer', n - 1)
      BY <1>2, <1>6, <2>1, EraseOneHolds DEF DeleteChar
    <2>3. /\ cursor_pos' = cursor_pos /\ selection_start' = cursor_pos
          /\ selection_end' = cursor_pos
          /\ scroll_offset' = scroll_offset /\ dragging' = dragging
      BY <1>1, <1>6 DEF DeleteChar, Selected, PlacedIn
    <2> QED BY <1>1, <2>1, <2>2, <2>3, PlacedNext
  <1> QED BY <1>3, <1>4, <1>5, <1>6

(* The keys that move the cursor.                                          *)
LEMMA MovingKeeps ==
  ASSUME TextInv, NEW shift \in BOOLEAN,
         \/ CursorLeft(shift) \/ CursorRight(shift) \/ WordLeft(shift) \/ WordRight(shift)
         \/ Home(shift) \/ End(shift)
  PROVE  TextInv'
  <1> DEFINE n == strlen(buffer)
  <1>1. PlacedIn(n) /\ n \in Nat /\ n \in Index /\ scroll_offset \in Index /\ dragging \in BOOLEAN
    BY InvPlaced DEF PlacedIn, HoldsString
  <1>2. cursor_pos \in 0..n /\ 0 \in Index /\ 0 \in 0..n /\ n \in 0..n
    BY <1>1, SizeAssumption DEF PlacedIn, Index
  <1> HIDE DEF n
  <1>3. CASE CursorLeft(shift)
    <2>1. cursor_pos - 1 \in 0..n /\ cursor_pos - 1 \in Index
      BY <1>1, <1>2, <1>3, SizeAssumption DEF CursorLeft, Index
    <2>2. scroll_offset' \in Index
      BY <1>1, <1>3, <2>1, ScrollInBuffer DEF CursorLeft
    <2> QED BY <1>1, <1>3, <2>1, <2>2, MoveKeeps DEF CursorLeft, n
  <1>4. CASE CursorRight(shift)
    <2>1. cursor_pos + 1 \in 0..n /\ cursor_pos + 1 \in Index
      BY <1>1, <1>2, <1>4, SizeAssumption DEF CursorRight, Index, n
    <2>2. scroll_offset' \in Index
      BY <1>1, <1>4, <2>1, ScrollInBuffer DEF CursorRight
    <2> QED BY <1>1, <1>4, <2>1, <2>2, MoveKeeps DEF CursorRight, n
  <1>5. CASE WordLeft(shift)
    <2>1. PICK r \in 0..cursor_pos : MoveTo(r, shift)
      BY <1>5 DEF WordLeft
    <2>2. r \in 0..n
      BY <1>1, <1>2
    <2> QED BY <1>1, <1>5, <2>1, <2>2, MoveKeeps DEF WordLeft, n
  <1>6. CASE WordRight(shift)
    <2>1. PICK r \in cursor_pos..n : MoveTo(r, shift)
      BY <1>6 DEF WordRight, n
    <2>2. r \in 0..n
      BY <1>1, <1>2
    <2> QED BY <1>1, <1>6, <2>1, <2>2, MoveKeeps DEF WordRight, n
  <1>7. CASE Home(shift)
    BY <1>1, <1>2, <1>7, MoveKeeps DEF Home, n
  <1>8. CASE End(shift)
    BY <1>1, <1>2, <1>8, MoveKeeps DEF End, n
  <1> QED BY <1>3, <1>4, <1>5, <1>6, <1>7, <1>8

(* A text a program sets is cut to what fits.                              *)
LEMMA CutFits ==
  ASSUME NEW s \in Seq(Chars)
  PROVE  Cut(s) \in Seq(Chars) /\ Len(Cut(s)) < BufferSize /\ Len(Cut(s)) \in Nat
  BY SizeAssumption DEF Cut

(* Every step keeps the field's buffer, cursor and selection together.     *)
LEMMA StepKeeps ==
  ASSUME TextInv, [TextNext]_textVars
  PROVE  TextInv'
  <1> DEFINE n == strlen(buffer)
  <1>1. /\ HoldsString(buffer, n) /\ n \in Nat /\ n \in 0..n /\ 0 \in 0..n /\ n \in Index
        /\ cursor_pos \in 0..n /\ selection_start \in 0..n /\ selection_end = cursor_pos
        /\ cursor_pos \in Index /\ scroll_offset \in Index /\ dragging \in BOOLEAN
    BY InvPlaced, SizeAssumption DEF PlacedIn, HoldsString, Index
  <1>2. CASE Keys
    BY <1>2, EditingKeeps, MovingKeeps DEF Keys
  <1>3. ASSUME NEW col \in Index, NEW row \in 0..1, Click(col, row) PROVE TextInv'
    BY <1>3, PointAtKeeps DEF Click
  <1>4. ASSUME NEW col \in Index, Drag(col) PROVE TextInv'
    BY <1>1, <1>4, PointAtKeeps DEF Drag
  <1> HIDE DEF n
  <1>5. ASSUME NEW over \in BOOLEAN, Release(over) PROVE TextInv'
    BY <1>1, <1>5, PlacedNext DEF Release
  <1>6. CASE Draw
    <2>1. scroll_offset' \in Index
      BY <1>1, <1>6, ScrollInBuffer DEF Draw
    <2> QED BY <1>1, <1>6, <2>1, PlacedNext DEF Draw
  <1>7. CASE SelectAll
    BY <1>1, <1>7, PlacedNext DEF SelectAll, n
  <1>8. ASSUME NEW s \in SetTexts, SetText(s) PROVE TextInv'
    <2>1. Cut(s) \in Seq(Chars) /\ Len(Cut(s)) < BufferSize /\ Len(Cut(s)) \in Nat
      BY TextAssumption, CutFits
    <2>2. HoldsString(buffer', Len(Cut(s)))
      BY <1>1, <1>8, <2>1, CopyHolds DEF SetText, HoldsString
    <2>3. /\ cursor_pos' = Len(Cut(s)) /\ selection_start' = Len(Cut(s))
          /\ selection_end' = Len(Cut(s)) /\ scroll_offset' = 0 /\ dragging' = dragging
      BY <1>8 DEF SetText, PutAt
    <2>4. Len(Cut(s)) \in 0..Len(Cut(s)) /\ 0 \in Index
      BY <2>1, SizeAssumption DEF Index
    <2> QED BY <1>1, <2>2, <2>3, <2>4, PlacedNext
  <1>9. CASE UNCHANGED textVars
    BY <1>1, <1>9, PlacedNext DEF textVars
  <1> QED BY <1>2, <1>3, <1>4, <1>5, <1>6, <1>7, <1>8, <1>9 DEF TextNext, Mouse

LEMMA FieldStarts ==
  ASSUME TextInit
  PROVE  TextInv
  <1>1. PICK junk \in Buffers : buffer = Copy(Initial, junk)
    BY DEF TextInit, Buffers
  <1>2. HoldsString(buffer, Len(Initial)) /\ Len(Initial) \in Nat
    BY <1>1, TextAssumption, CopyHolds
  <1>3. /\ cursor_pos = Len(Initial) /\ selection_start = Len(Initial)
        /\ selection_end = Len(Initial) /\ scroll_offset = 0 /\ dragging = FALSE
    BY DEF TextInit
  <1>4. PlacedIn(Len(Initial))
    BY <1>2, <1>3 DEF PlacedIn
  <1>5. 0 \in Index
    BY SizeAssumption DEF Index
  <1>6. scroll_offset \in Index /\ dragging \in BOOLEAN
    BY <1>3, <1>5, Zenon
  <1> QED BY <1>4, <1>6, PlacedInv

(* The variables of an input field have their types.                       *)
THEOREM FieldTypes == TextSpec => []TextTypeOK
  <1>1. TextInit => TextInv
    BY FieldStarts
  <1>2. TextInv /\ [TextNext]_textVars => TextInv'
    BY StepKeeps
  <1>3. TextInv => TextTypeOK
    BY DEF TextInv
  <1> QED BY <1>1, <1>2, <1>3, PTL DEF TextSpec

(* However an input field of any size is edited, its buffer ends in a NUL  *)
(* and the cursor and the selection are within the string.                 *)
THEOREM StringKept == TextSpec => []StringInBuffer
  <1>1. TextInit => TextInv
    BY FieldStarts
  <1>2. TextInv /\ [TextNext]_textVars => TextInv'
    BY StepKeeps
  <1>3. TextInv => StringInBuffer
    BY DEF TextInv
  <1> QED BY <1>1, <1>2, <1>3, PTL DEF TextSpec

-----------------------------------------------------------------------------
(* The refinement                                                          *)

(* The text in a buffer that holds a string of n bytes.                    *)
TextOf(b, n) == [i \in 1..n |-> b[i - 1]]

LEMMA TextIsText ==
  ASSUME NEW b, NEW n, HoldsString(b, n)
  PROVE  /\ TextOf(b, n) \in Seq(Chars) /\ Len(TextOf(b, n)) = n /\ n \in Nat
         /\ TextOf(b, n) \in Ed!Texts
         /\ \A i \in 1..n : TextOf(b, n)[i] = b[i - 1]
  <1>1. n \in Nat /\ n \in 0..BufferSize - 1 /\ \A i \in 1..n : i - 1 \in Index /\ i - 1 \in 0..n - 1
    BY SizeAssumption DEF HoldsString, Index
  <1>2. \A i \in 1..n : b[i - 1] \in Chars
    BY <1>1 DEF HoldsString, IsLength, Buffers, Byte
  <1>3. TextOf(b, n) \in [1..n -> Chars]
    BY <1>2 DEF TextOf
  <1>4. TextOf(b, n) \in Ed!Texts
    BY <1>1, <1>3 DEF Ed!Texts
  <1> QED BY <1>1, <1>3, <1>4 DEF TextOf

LEMMA SameText ==
  ASSUME NEW t \in Seq(Chars), NEW u \in Seq(Chars), Len(t) = Len(u),
         \A i \in 1..Len(t) : t[i] = u[i]
  PROVE  t = u
  OBVIOUS

(* r is t with s for its characters from+1 to upto, said of each character.*)
Replaced(r, t, from, upto, s) ==
  /\ r \in Seq(Chars) /\ Len(r) = from + Len(s) + (Len(t) - upto)
  /\ \A i \in 1..Len(r) :
       r[i] = IF i <= from THEN t[i]
              ELSE IF i <= from + Len(s) THEN s[i - from]
              ELSE t[i - from - Len(s) + upto]

LEMMA ReplaceIs ==
  ASSUME NEW t \in Seq(Chars), NEW s \in Seq(Chars), NEW from \in Nat, NEW upto \in Nat,
         from <= upto, upto <= Len(t)
  PROVE  Replaced(Ed!Replace(t, from, upto, s), t, from, upto, s)
  <1> DEFINE a == SubSeq(t, 1, from)
             z == SubSeq(t, upto + 1, Len(t))
  <1>1. a \in Seq(Chars) /\ Len(a) = from /\ \A i \in 1..from : a[i] = t[i]
    OBVIOUS
  <1>2. z \in Seq(Chars) /\ Len(z) = Len(t) - upto /\ \A i \in 1..Len(z) : z[i] = t[i + upto]
    OBVIOUS
  <1> HIDE DEF a, z
  <1>3. a \o s \in Seq(Chars) /\ Len(a \o s) = from + Len(s)
        /\ \A i \in 1..from + Len(s) : (a \o s)[i] = IF i <= from THEN a[i] ELSE s[i - from]
    <2>1. /\ a \o s \in Seq(Chars) /\ Len(a \o s) = Len(a) + Len(s)
          /\ \A i \in 1..Len(a) + Len(s) :
               (a \o s)[i] = IF i <= Len(a) THEN a[i] ELSE s[i - Len(a)]
      BY <1>1, ConcatProperties, Zenon
    <2>2. Len(a) = from
      BY <1>1
    <2> QED BY <2>1, <2>2, Zenon
  <1>4. /\ (a \o s) \o z \in Seq(Chars) /\ Len((a \o s) \o z) = from + Len(s) + Len(z)
        /\ \A i \in 1..from + Len(s) + Len(z) :
             ((a \o s) \o z)[i] = IF i <= from + Len(s) THEN (a \o s)[i] ELSE z[i - (from + Len(s))]
    <2>1. /\ (a \o s) \o z \in Seq(Chars)
          /\ Len((a \o s) \o z) = Len(a \o s) + Len(z)
          /\ \A i \in 1..Len(a \o s) + Len(z) :
               ((a \o s) \o z)[i] = IF i <= Len(a \o s) THEN (a \o s)[i] ELSE z[i - Len(a \o s)]
      <3>1. a \o s \in Seq(Chars) /\ z \in Seq(Chars)
        BY <1>2, <1>3, Zenon
      <3> QED BY <3>1, ConcatProperties, Zenon
    <2>2. Len(a \o s) = from + Len(s)
      BY <1>3, Zenon
    <2> QED BY <2>1, <2>2, Zenon
  <1>5. Ed!Replace(t, from, upto, s) = (a \o s) \o z
    BY DEF Ed!Replace, a, z
  <1>6. PICK r : r = (a \o s) \o z
    OBVIOUS
  <1>7. /\ r \in Seq(Chars) /\ Len(r) = from + Len(s) + (Len(t) - upto)
        /\ Len(s) \in Nat /\ Len(z) \in Nat /\ Len(r) = from + Len(s) + Len(z)
    BY <1>2, <1>4, <1>6
  <1>8. ASSUME NEW i \in 1..Len(r)
        PROVE  r[i] = IF i <= from THEN t[i]
                      ELSE IF i <= from + Len(s) THEN s[i - from]
                      ELSE t[i - from - Len(s) + upto]
    <2>1. i \in Int /\ i \in 1..from + Len(s) + Len(z)
      BY <1>7
    <2>2. r[i] = IF i <= from + Len(s) THEN (a \o s)[i] ELSE z[i - (from + Len(s))]
      BY <1>4, <1>6, <2>1
    <2>3. CASE i <= from
      <3>1. r[i] = t[i]
        BY <1>1, <1>3, <1>7, <2>1, <2>2, <2>3
      <3> QED BY <2>3, <3>1
    <2>4. CASE i > from /\ i <= from + Len(s)
      <3>1. r[i] = s[i - from] /\ ~(i <= from)
        BY <1>3, <1>7, <2>1, <2>2, <2>4
      <3> QED BY <2>4, <3>1
    <2>5. CASE i > from + Len(s)
      <3>1. /\ i - (from + Len(s)) \in 1..Len(z) /\ ~(i <= from) /\ ~(i <= from + Len(s))
            /\ i - (from + Len(s)) + upto = i - from - Len(s) + upto
        BY <1>7, <2>1, <2>5
      <3>2. z[i - (from + Len(s))] = t[i - (from + Len(s)) + upto]
        BY <1>2, <3>1
      <3> QED BY <2>2, <3>1, <3>2
    <2> QED BY <1>7, <2>1, <2>3, <2>4, <2>5
  <1> QED BY <1>5, <1>6, <1>7, <1>8 DEF Replaced
LEMMA TextNow ==
  ASSUME NEW n, HoldsString(buffer, n)
  PROVE  Text = TextOf(buffer, n) /\ strlen(buffer) = n
  BY StrlenIs DEF Text, TextOf

LEMMA TextThen ==
  ASSUME NEW n, HoldsString(buffer', n)
  PROVE  Text' = TextOf(buffer', n)
  <1>1. strlen(buffer') = n
    BY StrlenIs
  <1> QED BY <1>1 DEF Text, TextOf

(* What is copied to the start of the buffer is then the field's text.     *)
LEMMA CopiedText ==
  ASSUME NEW s \in Seq(Chars), Len(s) < BufferSize, NEW b \in Buffers, buffer' = Copy(s, b)
  PROVE  Text' = s
  <1>1. HoldsString(buffer', Len(s)) /\ \A i \in 0..Len(s) - 1 : buffer'[i] = s[i + 1]
    BY CopyHolds
  <1>2. Text' = TextOf(buffer', Len(s))
    BY <1>1, TextThen
  <1>3. /\ Text' \in Seq(Chars) /\ Len(Text') = Len(s)
        /\ \A i \in 1..Len(s) : Text'[i] = buffer'[i - 1]
    BY <1>1, <1>2, TextIsText
  <1>4. \A i \in 1..Len(s) : Text'[i] = s[i]
    BY <1>1, <1>3
  <1> QED BY <1>3, <1>4, SameText

LEMMA HoldsText ==
  ASSUME NEW b, NEW n, HoldsString(b, n), NEW s \in Seq(Chars)
  PROVE  Holds(b, s) <=> TextOf(b, n) = s
  <1>1. /\ TextOf(b, n) \in Seq(Chars) /\ Len(TextOf(b, n)) = n /\ strlen(b) = n
        /\ \A i \in 1..n : TextOf(b, n)[i] = b[i - 1]
    BY TextIsText, StrlenIs
  <1>2. ASSUME Holds(b, s) PROVE TextOf(b, n) = s
    <2>1. Len(s) = n /\ \A i \in 1..n : b[i - 1] = s[i]
      BY <1>1, <1>2 DEF Holds
    <2> QED BY <1>1, <2>1, SameText
  <1>3. ASSUME TextOf(b, n) = s PROVE Holds(b, s)
    BY <1>1, <1>3 DEF Holds
  <1> QED BY <1>2, <1>3

LEMMA EraseRangeText ==
  ASSUME NEW b, NEW n, HoldsString(b, n),
         NEW from \in Nat, NEW upto \in Nat, from <= upto, upto <= n
  PROVE  TextOf(EraseRange(b, from, upto), n - (upto - from))
           = Ed!Replace(TextOf(b, n), from, upto, <<>>)
  <1> DEFINE t == TextOf(b, n)
             m == n - (upto - from)
             u == TextOf(EraseRange(b, from, upto), m)
             v == Ed!Replace(t, from, upto, <<>>)
  <1>1. t \in Seq(Chars) /\ Len(t) = n /\ n \in Nat /\ \A i \in 1..n : t[i] = b[i - 1]
    BY TextIsText
  <1>2. u \in Seq(Chars) /\ Len(u) = m /\ m \in Nat
        /\ \A i \in 1..m : u[i] = EraseRange(b, from, upto)[i - 1]
    BY EraseRangeHolds, TextIsText
  <1>3. PICK e : e = <<>>
    OBVIOUS
  <1>0. e \in Seq(Chars) /\ Len(e) = 0
    BY <1>3
  <1> HIDE DEF t, u, v, m
  <1>4. v \in Seq(Chars) /\ Len(v) = m
        /\ \A i \in 1..m : v[i] = IF i <= from THEN t[i] ELSE t[i - from + upto]
    <2>1. v = Ed!Replace(t, from, upto, e) /\ upto <= Len(t)
      BY <1>1, <1>3 DEF v
    <2>2. Replaced(v, t, from, upto, e)
      BY <1>0, <1>1, <2>1, ReplaceIs
    <2>3. Len(v) = m
      BY <1>0, <1>1, <2>2 DEF m, Replaced
    <2> QED BY <1>0, <1>1, <1>2, <2>2, <2>3 DEF Replaced
  <1>5. \A i \in 0..m - 1 : EraseRange(b, from, upto)[i] =
                              IF i < from THEN b[i] ELSE b[i + (upto - from)]
    BY EraseRangeHolds DEF m
  <1>6. ASSUME NEW i \in 1..m PROVE u[i] = v[i]
    <2>1. i - 1 \in 0..m - 1 /\ (i - 1 < from <=> i <= from)
      BY <1>2
    <2>2. CASE i <= from
      <3>1. i \in 1..n
        BY <1>1, <1>2, <2>2
      <3> QED BY <1>1, <1>2, <1>4, <1>5, <2>1, <2>2, <3>1
    <2>3. CASE ~(i <= from)
      <3>1. /\ i - from + upto \in 1..n
            /\ (i - from + upto) - 1 = (i - 1) + (upto - from)
        BY <1>1, <1>2, <2>3 DEF m
      <3>2. v[i] = b[(i - from + upto) - 1]
        BY <1>1, <1>4, <2>3, <3>1
      <3> QED BY <1>2, <1>5, <2>1, <2>3, <3>1, <3>2
    <2> QED BY <2>2, <2>3
  <1>7. u = v
    BY <1>2, <1>4, <1>6, SameText
  <1> QED BY <1>7 DEF u, v, t, m

(* Taking out one character is erasing a range of one.                     *)
LEMMA EraseOneText ==
  ASSUME NEW b, NEW n, HoldsString(b, n), NEW at \in Nat, at < n
  PROVE  TextOf(EraseOne(b, at), n - 1) = Ed!Replace(TextOf(b, n), at, at + 1, <<>>)
  <1>1. n \in Nat /\ at + 1 \in Nat /\ at <= at + 1 /\ at + 1 <= n /\ n - ((at + 1) - at) = n - 1
        /\ (at + 1) - at = 1
    BY SizeAssumption DEF HoldsString, Index
  <1>2. /\ HoldsString(EraseRange(b, at, at + 1), n - 1)
        /\ \A i \in 0..n - 2 :
             EraseRange(b, at, at + 1)[i] = IF i < at THEN b[i] ELSE b[i + 1]
    <2>1. /\ HoldsString(EraseRange(b, at, at + 1), n - ((at + 1) - at))
          /\ \A i \in 0..n - ((at + 1) - at) - 1 :
               EraseRange(b, at, at + 1)[i] = IF i < at THEN b[i] ELSE b[i + ((at + 1) - at)]
      <3>1. PICK upto : upto = at + 1
        OBVIOUS
      <3>2. upto \in Nat /\ at <= upto /\ upto <= n
        BY <1>1, <3>1
      <3> QED BY <3>1, <3>2, EraseRangeHolds
    <2>2. n - ((at + 1) - at) - 1 = n - 2
      BY <1>1
    <2> QED BY <1>1, <2>1, <2>2
  <1>3. /\ HoldsString(EraseOne(b, at), n - 1)
        /\ \A i \in 0..n - 2 : EraseOne(b, at)[i] = IF i < at THEN b[i] ELSE b[i + 1]
    BY EraseOneHolds
  <1>4. \A i \in 1..n - 1 : i - 1 \in 0..n - 2
    BY <1>1
  <1>5. TextOf(EraseOne(b, at), n - 1) = TextOf(EraseRange(b, at, at + 1), n - 1)
    BY <1>2, <1>3, <1>4 DEF TextOf
  <1>6. TextOf(EraseRange(b, at, at + 1), n - ((at + 1) - at))
          = Ed!Replace(TextOf(b, n), at, at + 1, <<>>)
    BY <1>1, EraseRangeText
  <1> QED BY <1>1, <1>5, <1>6
(* base holds the n bytes left of the len of b when a range is erased.      *)
Joins(base, n, b, len, from, upto) ==
  /\ HoldsString(base, n) /\ n = len - (upto - from)
  /\ \A i \in 0..n - 1 : base[i] = IF i < from THEN b[i] ELSE b[i + (upto - from)]

(* Typing over a selection is inserting into what erasing it leaves.       *)
LEMMA TypedText ==
  ASSUME NEW b, NEW len, HoldsString(b, len),
         NEW from \in Nat, NEW upto \in Nat, from <= upto, upto <= len,
         NEW base, NEW n, Joins(base, n, b, len, from, upto), n + 1 < BufferSize,
         NEW c \in Chars
  PROVE  TextOf(Insert(base, from, c), n + 1) = Ed!Replace(TextOf(b, len), from, upto, <<c>>)
  <1> DEFINE t == TextOf(b, len)
             w == Insert(base, from, c)
             u == TextOf(w, n + 1)
             v == Ed!Replace(t, from, upto, <<c>>)
  <1>1. t \in Seq(Chars) /\ Len(t) = len /\ len \in Nat /\ \A i \in 1..len : t[i] = b[i - 1]
    BY TextIsText
  <1>0. /\ HoldsString(base, n) /\ n = len - (upto - from)
        /\ \A i \in 0..n - 1 : base[i] = IF i < from THEN b[i] ELSE b[i + (upto - from)]
    BY DEF Joins
  <1>2. n \in Nat /\ from <= n
    BY <1>0, <1>1
  <1>3. /\ HoldsString(w, n + 1)
        /\ \A i \in 0..n : w[i] = IF i < from THEN base[i] ELSE IF i = from THEN c ELSE base[i - 1]
    BY <1>0, <1>2, InsertHolds
  <1>4. u \in Seq(Chars) /\ Len(u) = n + 1 /\ \A i \in 1..n + 1 : u[i] = w[i - 1]
    BY <1>3, TextIsText
  <1>5. PICK s : s = <<c>>
    OBVIOUS
  <1>6. s \in Seq(Chars) /\ Len(s) = 1 /\ s[1] = c
    BY <1>5
  <1> HIDE DEF t, u, v, w
  <1>7. Replaced(v, t, from, upto, s)
    BY <1>1, <1>5, <1>6, ReplaceIs DEF v
  <1>8. v \in Seq(Chars) /\ Len(v) = n + 1
        /\ \A i \in 1..n + 1 : v[i] = IF i <= from THEN t[i]
                                      ELSE IF i <= from + 1 THEN s[i - from]
                                      ELSE t[i - from - 1 + upto]
    <2>1. from + Len(s) + (Len(t) - upto) = n + 1
      BY <1>0, <1>1, <1>6
    <2> QED BY <1>6, <1>7, <2>1 DEF Replaced
  <1>9. ASSUME NEW i \in 1..n + 1 PROVE u[i] = v[i]
    <2>1. i - 1 \in 0..n /\ i \in Int /\ u[i] = w[i - 1]
      BY <1>2, <1>4
    <2>2. CASE i <= from
      <3>1. w[i - 1] = base[i - 1] /\ i - 1 \in 0..n - 1 /\ i - 1 < from /\ i \in 1..len
        BY <1>0, <1>1, <1>2, <1>3, <2>1, <2>2
      <3>2. base[i - 1] = b[i - 1]
        BY <1>0, <3>1
      <3> QED BY <1>1, <1>8, <2>1, <2>2, <3>1, <3>2
    <2>3. CASE i = from + 1
      <3>1. w[i - 1] = c
        BY <1>3, <2>1, <2>3
      <3>2. ~(i <= from) /\ i <= from + 1 /\ i - from = 1
        BY <2>1, <2>3
      <3>3. v[i] = s[i - from]
        BY <1>8, <3>2
      <3> QED BY <1>6, <2>1, <3>1, <3>2, <3>3
    <2>4. CASE i > from + 1
      <3>1. w[i - 1] = base[(i - 1) - 1] /\ (i - 1) - 1 \in 0..n - 1 /\ ~((i - 1) - 1 < from)
        BY <1>2, <1>3, <2>1, <2>4
      <3>2. base[(i - 1) - 1] = b[(i - 1) - 1 + (upto - from)]
        BY <1>0, <3>1
      <3>3. /\ i - from - 1 + upto \in 1..len
            /\ (i - from - 1 + upto) - 1 = (i - 1) - 1 + (upto - from)
        BY <1>0, <1>1, <1>2, <2>1, <2>4
      <3>4. v[i] = t[i - from - 1 + upto]
        BY <1>8, <2>1, <2>4
      <3>5. t[i - from - 1 + upto] = b[(i - from - 1 + upto) - 1]
        BY <1>1, <3>3
      <3> QED BY <2>1, <3>1, <3>2, <3>3, <3>4, <3>5
    <2> QED BY <2>1, <2>2, <2>3, <2>4
  <1>10. u = v
    BY <1>4, <1>8, <1>9, SameText
  <1> QED BY <1>10 DEF t, u, v, w

(* One typed into an empty text is all of it.                              *)
LEMMA TypedAlone ==
  ASSUME NEW base, HoldsString(base, 0), NEW c \in Chars
  PROVE  TextOf(Insert(base, 0, c), 1) = <<c>>
  <1> DEFINE w == Insert(base, 0, c)
             u == TextOf(w, 1)
  <1>1. /\ HoldsString(w, 1)
        /\ w[0] = c
    <2>1. 0 + 1 < BufferSize
      BY SizeAssumption
    <2>2. /\ HoldsString(w, 0 + 1)
          /\ \A i \in 0..0 : w[i] = IF i < 0 THEN base[i] ELSE IF i = 0 THEN c ELSE base[i - 1]
      BY <2>1, InsertHolds
    <2> HIDE DEF w
    <2> QED BY <2>2
  <1>2. u \in Seq(Chars) /\ Len(u) = 1 /\ \A i \in 1..1 : u[i] = w[i - 1]
    BY <1>1, TextIsText
  <1>3. PICK s : s = <<c>>
    OBVIOUS
  <1>4. s \in Seq(Chars) /\ Len(s) = 1 /\ s[1] = c
    BY <1>3
  <1> HIDE DEF u, w
  <1>5. \A i \in 1..Len(u) : u[i] = s[i]
    BY <1>1, <1>2, <1>4
  <1>6. u = s
    BY <1>2, <1>4, <1>5, SameText
  <1> QED BY <1>3, <1>6 DEF u, w
EditorStep == [Ed!EditorNext]_(Ed!editorVars)

LEMMA SameBounds ==
  ASSUME TextInv
  PROVE  Ed!Lower = Lesser /\ Ed!Upper = Greater /\ (Selected <=> Lesser < Greater)
  <1>1. PlacedIn(strlen(buffer)) /\ strlen(buffer) \in Nat
    BY InvPlaced
  <1> QED BY <1>1 DEF PlacedIn, Ed!Lower, Ed!Upper, Lesser, Greater, Selected

LEMMA MoveRefines ==
  ASSUME TextInv, TextInv', buffer' = buffer, selection_start' \in {cursor_pos', selection_start}
  PROVE  Ed!Move
  <1> DEFINE n == strlen(buffer)
  <1>1. HoldsString(buffer, n)
    BY InvPlaced DEF PlacedIn
  <1>2. PICK k \in Index : IsLength(buffer', k) /\ cursor_pos' <= k /\ cursor_pos' \in Index
    BY DEF TextInv, TextTypeOK, StringInBuffer
  <1>3. HoldsString(buffer, k)
    BY <1>1, <1>2 DEF HoldsString
  <1>4. strlen(buffer) = k
    BY <1>3, StrlenIs
  <1>5. Text = TextOf(buffer, k) /\ Text' = TextOf(buffer, k) /\ Len(Text) = k
    BY <1>3, TextNow, TextThen, TextIsText
  <1>6. cursor_pos' \in 0..k
    BY <1>2, SizeAssumption DEF Index
  <1> QED BY <1>5, <1>6 DEF Ed!Move

LEMMA StutterRefines ==
  ASSUME TextInv, buffer' = buffer, cursor_pos' = cursor_pos, selection_start' = selection_start
  PROVE  EditorStep
  <1>1. HoldsString(buffer, strlen(buffer))
    BY InvPlaced DEF PlacedIn
  <1>2. Text' = Text
    BY <1>1, TextNow, TextThen
  <1> QED BY <1>2 DEF EditorStep, Ed!editorVars

LEMMA TypingRefines ==
  ASSUME TextInv, NEW c \in Chars, InsertChar(c)
  PROVE  Ed!Type(c)
  <1> DEFINE len == strlen(buffer)
  <1>1. PICK base \in Buffers, k \in Nat, at \in Nat :
          /\ at <= k /\ HoldsString(base, k) /\ k + 1 < BufferSize
          /\ buffer' = Insert(base, at, c)
          /\ cursor_pos' = at + 1 /\ selection_start' = at + 1
          /\ \/ /\ Holds(buffer, Placeholder) /\ Placeholder # <<>>
                /\ k = 0 /\ at = 0
             \/ /\ ~(Holds(buffer, Placeholder) /\ Placeholder # <<>>)
                /\ len < BufferSize - 1
                /\ k = len - (Greater - Lesser) /\ at = Lesser
                /\ \A i \in 0..k - 1 :
                     base[i] = IF i < Lesser THEN buffer[i] ELSE buffer[i + (Greater - Lesser)]
    BY TypedInto
  <1>2. /\ HoldsString(buffer, len)
        /\ Lesser \in Nat /\ Greater \in Nat /\ Lesser <= Greater /\ Greater <= len
        /\ len \in Nat
    BY InvPlaced, SelectionBounds DEF PlacedIn
  <1> HIDE DEF len
  <1>3. Text = TextOf(buffer, len) /\ Len(Text) = len
    BY <1>2, TextNow, TextIsText
  <1>4. HoldsString(buffer', k + 1)
    BY <1>1, InsertHolds
  <1>5. Text' = TextOf(Insert(base, at, c), k + 1)
    BY <1>1, <1>4, TextThen
  <1>6. Holds(buffer, Placeholder) <=> Text = Placeholder
    BY <1>2, <1>3, HoldsText, TextAssumption
  <1>7. CASE Text = Placeholder /\ Placeholder # <<>>
    <2>1. k = 0 /\ at = 0
      BY <1>1, <1>6, <1>7
    <2>2. Text' = <<c>>
      BY <1>1, <1>5, <2>1, TypedAlone
    <2> QED BY <1>1, <1>7, <2>1, <2>2 DEF Ed!Type, Ed!PutCursor
  <1>8. CASE ~(Text = Placeholder /\ Placeholder # <<>>)
    <2>1. /\ len < BufferSize - 1
          /\ k = len - (Greater - Lesser) /\ at = Lesser
          /\ \A i \in 0..k - 1 :
               base[i] = IF i < Lesser THEN buffer[i] ELSE buffer[i + (Greater - Lesser)]
      BY <1>1, <1>6, <1>8
    <2>2. TextOf(Insert(base, Lesser, c), k + 1) = Ed!Replace(TextOf(buffer, len), Lesser, Greater, <<c>>)
      <3>1. Joins(base, k, buffer, len, Lesser, Greater)
        BY <1>1, <2>1 DEF Joins
      <3> QED BY <1>1, <1>2, <3>1, TypedText
    <2>3. Ed!Lower = Lesser /\ Ed!Upper = Greater
      BY SameBounds
    <2>4. Text' = Ed!Replace(Text, Ed!Lower, Ed!Upper, <<c>>)
      BY <1>3, <1>5, <2>1, <2>2, <2>3
    <2>5. cursor_pos' = Ed!Lower + 1 /\ selection_start' = Ed!Lower + 1
      BY <1>1, <2>1, <2>3
    <2> QED BY <1>3, <1>8, <2>1, <2>4, <2>5 DEF Ed!Type, Ed!PutCursor
  <1> QED BY <1>7, <1>8

LEMMA ErasingRefines ==
  ASSUME TextInv, EraseSelection \/ Backspace \/ DeleteChar
  PROVE  Ed!EraseSelection \/ Ed!EraseBefore \/ Ed!EraseAfter
  <1> DEFINE n == strlen(buffer)
  <1>1. /\ HoldsString(buffer, n) /\ n \in Nat /\ cursor_pos \in 0..n
        /\ Lesser \in Nat /\ Greater \in Nat /\ Lesser <= Greater /\ Greater <= n
    BY InvPlaced, SelectionBounds DEF PlacedIn
  <1>2. Ed!Lower = Lesser /\ Ed!Upper = Greater /\ (Selected <=> Lesser < Greater)
    BY SameBounds
  <1> HIDE DEF n
  <1>3. Text = TextOf(buffer, n) /\ Len(Text) = n
    BY <1>1, TextNow, TextIsText
  <1>4. CASE EraseSelection
    <2>1. HoldsString(buffer', n - (Greater - Lesser)) /\ buffer' = EraseRange(buffer, Lesser, Greater)
      BY <1>1, <1>4, EraseRangeHolds DEF EraseSelection, EraseSelected
    <2>2. Text' = Ed!Replace(Text, Ed!Lower, Ed!Upper, <<>>)
      BY <1>1, <1>2, <1>3, <2>1, TextThen, EraseRangeText
    <2>3. Lesser < Greater /\ cursor_pos' = Lesser /\ selection_start' = Lesser
      BY <1>2, <1>4 DEF EraseSelection, PutAt
    <2> QED BY <1>2, <2>2, <2>3 DEF Ed!EraseSelection, Ed!PutCursor
  <1>5. CASE Backspace
    <2>1. cursor_pos - 1 \in Nat /\ cursor_pos - 1 < n /\ cursor_pos > 0
          /\ (cursor_pos - 1) + 1 = cursor_pos
      BY <1>1, <1>5 DEF Backspace
    <2>2. HoldsString(buffer', n - 1) /\ buffer' = EraseOne(buffer, cursor_pos - 1)
      BY <1>1, <1>5, <2>1, EraseOneHolds DEF Backspace
    <2>3. TextOf(EraseOne(buffer, cursor_pos - 1), n - 1)
            = Ed!Replace(Text, cursor_pos - 1, (cursor_pos - 1) + 1, <<>>)
      BY <1>1, <1>3, <2>1, EraseOneText
    <2>4. Text' = Ed!Replace(Text, cursor_pos - 1, cursor_pos, <<>>)
      BY <2>1, <2>2, <2>3, TextThen
    <2>5. Lesser = Greater
      BY <1>1, <1>2, <1>5 DEF Backspace
    <2>6. cursor_pos' = cursor_pos - 1 /\ selection_start' = cursor_pos - 1
      BY <1>5 DEF Backspace, PutAt
    <2> QED BY <1>2, <2>1, <2>4, <2>5, <2>6 DEF Ed!EraseBefore, Ed!PutCursor
  <1>6. CASE DeleteChar
    <2>1. cursor_pos \in Nat /\ cursor_pos < n
      BY <1>1, <1>6 DEF DeleteChar, n
    <2>2. HoldsString(buffer', n - 1) /\ buffer' = EraseOne(buffer, cursor_pos)
      BY <1>1, <1>6, <2>1, EraseOneHolds DEF DeleteChar
    <2>3. Text' = Ed!Replace(Text, cursor_pos, cursor_pos + 1, <<>>)
      BY <1>1, <1>3, <2>1, <2>2, TextThen, EraseOneText
    <2>4. Lesser = Greater
      BY <1>1, <1>2, <1>6 DEF DeleteChar
    <2>5. cursor_pos' = cursor_pos /\ selection_start' = selection_start
      BY <1>6 DEF DeleteChar
    <2> QED BY <1>2, <1>3, <2>1, <2>3, <2>4, <2>5 DEF Ed!EraseAfter
  <1> QED BY <1>4, <1>5, <1>6
LEMMA PlacingRefines ==
  ASSUME TextInv, TextInv', [TextNext]_textVars
  PROVE  EditorStep
  <1> DEFINE n == strlen(buffer)
  <1>1. HoldsString(buffer, n) /\ Text = TextOf(buffer, n) /\ Len(Text) = n
    BY InvPlaced, TextNow, TextIsText DEF PlacedIn
  <1>2. ASSUME NEW c \in Chars, InsertChar(c) PROVE Ed!EditorNext
    BY <1>2, TypingRefines DEF Ed!EditorNext
  <1>3. CASE EraseSelection \/ Backspace \/ DeleteChar
    BY <1>3, ErasingRefines DEF Ed!EditorNext, EditorStep
  <1>4. ASSUME NEW shift \in BOOLEAN,
               \/ CursorLeft(shift) \/ CursorRight(shift) \/ WordLeft(shift) \/ WordRight(shift)
               \/ Home(shift) \/ End(shift)
        PROVE  Ed!EditorNext
    <2>1. buffer' = buffer /\ selection_start' \in {cursor_pos', selection_start}
      BY <1>4 DEF CursorLeft, CursorRight, WordLeft, WordRight, Home, End, MoveTo
    <2> QED BY <2>1, MoveRefines DEF Ed!EditorNext
  <1>5. ASSUME NEW col \in Index,
               (\E row \in 0..1 : Click(col, row)) \/ Drag(col)
        PROVE  Ed!EditorNext
    <2>1. buffer' = buffer /\ selection_start' \in {cursor_pos', selection_start}
      BY <1>5 DEF Click, Drag, PointAt, MoveTo
    <2> QED BY <2>1, MoveRefines DEF Ed!EditorNext
  <1>6. ASSUME NEW over \in BOOLEAN, Release(over) PROVE EditorStep
    BY <1>6, StutterRefines DEF Release
  <1>7. CASE Draw
    BY <1>7, StutterRefines DEF Draw
  <1>8. CASE SelectAll
    <2>1. Text' = Text
      BY <1>1, <1>8, TextThen DEF SelectAll
    <2> QED BY <1>1, <1>8, <2>1 DEF SelectAll, Ed!SelectEverything, Ed!EditorNext, EditorStep
  <1>9. ASSUME NEW s \in SetTexts, SetText(s) PROVE Ed!EditorNext
    <2>1. Cut(s) \in Seq(Chars) /\ Len(Cut(s)) < BufferSize
      BY TextAssumption, CutFits
    <2>2. buffer \in Buffers
      BY <1>1 DEF HoldsString
    <2>3. Text' = Cut(s)
      BY <1>9, <2>1, <2>2, CopiedText DEF SetText
    <2>4. cursor_pos' = Len(Cut(s)) /\ selection_start' = Len(Cut(s))
      BY <1>9 DEF SetText, PutAt
    <2> QED BY <1>9, <2>3, <2>4 DEF Ed!SetText, Ed!PutCursor, Ed!EditorNext
  <1>10. CASE UNCHANGED textVars
    BY <1>10, StutterRefines DEF textVars
  <1> QED BY <1>2, <1>3, <1>4, <1>5, <1>6, <1>7, <1>8, <1>9, <1>10
          DEF EditorStep, TextNext, Keys, Mouse

LEMMA InitRefines ==
  ASSUME TextInit
  PROVE  Ed!EditorInit
  <1>1. PICK junk \in Buffers : buffer = Copy(Initial, junk)
    BY DEF TextInit, Buffers
  <1>2. /\ HoldsString(buffer, Len(Initial))
        /\ \A i \in 0..Len(Initial) - 1 : buffer[i] = Initial[i + 1]
    BY <1>1, TextAssumption, CopyHolds
  <1>3. /\ Text = TextOf(buffer, Len(Initial)) /\ Text \in Seq(Chars)
        /\ Len(Text) = Len(Initial)
        /\ \A i \in 1..Len(Initial) : Text[i] = buffer[i - 1]
    BY <1>2, TextNow, TextIsText
  <1>4. \A i \in 1..Len(Initial) : Text[i] = Initial[i]
    BY <1>2, <1>3, TextAssumption
  <1>5. Text = Initial
    BY <1>3, <1>4, SameText, TextAssumption
  <1>6. cursor_pos = Len(Initial) /\ selection_start = Len(Initial)
    BY DEF TextInit
  <1> QED BY <1>5, <1>6 DEF Ed!EditorInit

(* For every size of the buffer, what the loops over it do to the string   *)
(* is what the abstract editor does to its text: nothing but the selection *)
(* or the one character beside the cursor is ever lost, and a character is *)
(* taken exactly where there is room.                                      *)
THEOREM FieldImplementsEditor == TextSpec => ImplementsEditor
  <1>1. TextInit => TextInv /\ Ed!EditorInit
    BY FieldStarts, InitRefines
  <1>2. TextInv /\ [TextNext]_textVars => TextInv'
    BY StepKeeps
  <1>3. TextInv /\ TextInv' /\ [TextNext]_textVars => [Ed!EditorNext]_(Ed!editorVars)
    BY PlacingRefines DEF EditorStep
  <1> QED BY <1>1, <1>2, <1>3, PTL DEF TextSpec, ImplementsEditor, Ed!EditorSpec
=============================================================================
