----------------------------- MODULE TextInput -----------------------------
(***************************************************************************)
(* An input field: the editing operations of gui/wget.c on its buffer, and *)
(* the keys and mouse events gui/core.c turns into them.  The buffer is    *)
(* the C array, so that what the loops shift and where the NUL goes is     *)
(* part of the model; what lies after the NUL is whatever was there.       *)
(***************************************************************************)
EXTENDS Integers, Sequences

CONSTANTS
  Chars, Space, \* the printable characters, and the one that ends a word
  Nul,
  BufferSize,   \* buffer_size, 256
  Visible,      \* visible_chars: how many fit the field's width
  Initial,      \* the text it is created with
  Placeholder,  \* "Type here..."
  SetTexts      \* bound: what a program passes to wg_input_set_text

ASSUME SizeAssumption == BufferSize \in Nat /\ BufferSize >= 2 /\ Visible \in Nat \ {0}
ASSUME CharAssumption == Space \in Chars /\ Nul \notin Chars
ASSUME TextAssumption ==
  /\ Initial \in Seq(Chars) /\ Len(Initial) < BufferSize
  /\ Placeholder \in Seq(Chars) /\ SetTexts \subseteq Seq(Chars)

VARIABLES
  buffer,
  cursor_pos, selection_start, selection_end,
  scroll_offset, \* the first character shown
  dragging       \* widget->dragging: moves of the mouse select

textVars == <<buffer, cursor_pos, selection_start, selection_end,
              scroll_offset, dragging>>

Index == 0..BufferSize - 1
Byte == Chars \cup {Nul}

-----------------------------------------------------------------------------
(* The string in a buffer                                                  *)

IsLength(b, n) == b[n] = Nul /\ \A i \in 0..n - 1 : b[i] # Nul

strlen(b) == CHOOSE n \in Index : IsLength(b, n)

(* The string s and its NUL over the start of a buffer (gui_strncpy).      *)
Copy(s, b) == [i \in Index |-> IF i < Len(s) THEN s[i + 1]
                               ELSE IF i = Len(s) THEN Nul ELSE b[i]]

(* wg_input_set_text cuts what does not fit.                               *)
Cut(s) == IF Len(s) < BufferSize THEN s ELSE SubSeq(s, 1, BufferSize - 1)

EraseRangeUnended(b, from, upto) ==
  LET gap == upto - from
      n == strlen(b) - gap
  IN [i \in Index |-> IF i \in from..n - 1 THEN b[i + gap] ELSE b[i]]

(* The bytes after upto move down over those from from on, and the string  *)
(* is ended where it is now shorter.                                       *)
EraseRange(b, from, upto) ==
  LET gap == upto - from
      n == strlen(b) - gap
  IN [i \in Index |-> IF i = n THEN Nul ELSE IF i \in from..n - 1 THEN b[i + gap] ELSE b[i]]

(* The rest of the string, its NUL with it, moves down by one.             *)
EraseOne(b, at) ==
  LET n == strlen(b) IN [i \in Index |-> IF i \in at..n - 1 THEN b[i + 1] ELSE b[i]]

(* The rest moves up by one, without the NUL, which is written last.       *)
Insert(b, at, c) ==
  LET n == strlen(b) IN
  [i \in Index |-> IF i = n + 1 THEN Nul ELSE IF i = at THEN c
                   ELSE IF i \in at + 1..n THEN b[i - 1] ELSE b[i]]

Holds(b, s) == strlen(b) = Len(s) /\ \A i \in 1..Len(s) : b[i - 1] = s[i]

-----------------------------------------------------------------------------
Lesser == IF selection_start < selection_end THEN selection_start ELSE selection_end
Greater == IF selection_start > selection_end THEN selection_start ELSE selection_end
Selected == selection_start # selection_end

PutAt(pos) == cursor_pos' = pos /\ selection_start' = pos /\ selection_end' = pos

(* The cursor goes to pos; with Shift the selection is stretched.          *)
MoveTo(pos, shift) ==
  /\ cursor_pos' = pos /\ selection_end' = pos
  /\ selection_start' = IF shift THEN selection_start ELSE pos

(* The last column that is shown follows the cursor, and in some of the    *)
(* operations the first one does too.                                      *)
ScrollRight(pos, from) == IF pos > from + Visible - 1 THEN pos - Visible + 1 ELSE from
ScrollLeft(pos, from) == IF pos < from THEN pos ELSE from

TextInit ==
  /\ \E junk \in [Index -> Byte] : buffer = Copy(Initial, junk)
  /\ cursor_pos = Len(Initial) /\ selection_start = Len(Initial)
  /\ selection_end = Len(Initial) /\ scroll_offset = 0
  /\ dragging = FALSE

-----------------------------------------------------------------------------
EraseSelected(b) == EraseRange(b, Lesser, Greater)

InsertCharFull(c) ==
  LET shows == Holds(buffer, Placeholder) /\ Placeholder # <<>>
      base == IF shows THEN [buffer EXCEPT ![0] = Nul]
              ELSE IF Selected THEN EraseSelected(buffer) ELSE buffer
      at == IF shows THEN 0 ELSE IF Selected THEN Lesser ELSE cursor_pos
  IN /\ buffer' = Insert(base, at, c)
     /\ PutAt(at + 1)
     /\ scroll_offset' = ScrollRight(at + 1, scroll_offset)
     /\ UNCHANGED dragging

(* EVENT_TEXT_INPUT: gui_handle_event empties a field that shows the       *)
(* placeholder, wg_input_insert_char does the rest.                        *)

InsertChar(c) ==
  LET shows == Holds(buffer, Placeholder) /\ Placeholder # <<>>
      base == IF shows THEN [buffer EXCEPT ![0] = Nul]
              ELSE IF Selected THEN EraseSelected(buffer) ELSE buffer
      at == IF shows THEN 0 ELSE IF Selected THEN Lesser ELSE cursor_pos
  IN /\ shows \/ strlen(buffer) < BufferSize - 1
     /\ buffer' = Insert(base, at, c)
     /\ PutAt(at + 1)
     /\ scroll_offset' = ScrollRight(at + 1, scroll_offset)
     /\ UNCHANGED dragging

EraseSelectionStretched ==
  /\ Selected
  /\ buffer' = EraseSelected(buffer) /\ MoveTo(Lesser, TRUE)
  /\ UNCHANGED <<scroll_offset, dragging>>

(* Backspace and Delete on a selection.                                    *)
EraseSelection ==
  /\ Selected
  /\ buffer' = EraseSelected(buffer) /\ PutAt(Lesser)
  /\ UNCHANGED <<scroll_offset, dragging>>

Backspace ==
  /\ ~Selected /\ cursor_pos > 0
  /\ buffer' = EraseOne(buffer, cursor_pos - 1) /\ PutAt(cursor_pos - 1)
  /\ UNCHANGED <<scroll_offset, dragging>>

DeleteChar ==
  /\ ~Selected /\ cursor_pos < strlen(buffer)
  /\ buffer' = EraseOne(buffer, cursor_pos)
  /\ UNCHANGED <<cursor_pos, selection_start, selection_end, scroll_offset, dragging>>

CursorLeft(shift) ==
  /\ cursor_pos > 0
  /\ MoveTo(cursor_pos - 1, shift)
  /\ scroll_offset' = IF shift THEN scroll_offset
                      ELSE ScrollLeft(cursor_pos - 1, scroll_offset)
  /\ UNCHANGED <<buffer, dragging>>

CursorRight(shift) ==
  /\ cursor_pos < strlen(buffer)
  /\ MoveTo(cursor_pos + 1, shift)
  /\ scroll_offset' = IF shift THEN scroll_offset
                      ELSE ScrollRight(cursor_pos + 1, scroll_offset)
  /\ UNCHANGED <<buffer, dragging>>

(* With Ctrl the cursor passes the spaces beside it and then the word: q   *)
(* is where the first of the two loops stops and r where the second does.  *)
WordLeft(shift) ==
  /\ \E q \in 0..cursor_pos, r \in 0..cursor_pos :
       /\ \A i \in q..cursor_pos - 1 : buffer[i] = Space
       /\ q > 0 => buffer[q - 1] # Space
       /\ r <= q /\ \A i \in r..q - 1 : buffer[i] # Space
       /\ r > 0 => buffer[r - 1] = Space
       /\ MoveTo(r, shift)
  /\ UNCHANGED <<buffer, scroll_offset, dragging>>

WordRight(shift) ==
  LET n == strlen(buffer) IN
  /\ \E q \in cursor_pos..n, r \in cursor_pos..n :
       /\ \A i \in cursor_pos..q - 1 : buffer[i] = Space
       /\ q < n => buffer[q] # Space
       /\ q <= r /\ \A i \in q..r - 1 : buffer[i] # Space
       /\ r < n => buffer[r] = Space
       /\ MoveTo(r, shift)
  /\ UNCHANGED <<buffer, scroll_offset, dragging>>

Home(shift) ==
  /\ MoveTo(0, shift) /\ scroll_offset' = 0
  /\ UNCHANGED <<buffer, dragging>>

End(shift) ==
  /\ MoveTo(strlen(buffer), shift)
  /\ UNCHANGED <<buffer, scroll_offset, dragging>>

(* The mouse at column col of the field, counted from its left edge.       *)
PointAt(col, shift) ==
  LET far == col + scroll_offset
      n == strlen(buffer)
      pos == IF far > n THEN n ELSE far
  IN /\ MoveTo(pos, shift)
     /\ scroll_offset' = ScrollLeft(pos, ScrollRight(pos, scroll_offset))
     /\ UNCHANGED buffer

(* gui_handle_event takes the lowest bit of the event's second word for    *)
(* Shift; in a mouse event that is the lowest bit of the pointer's row.    *)
Click(col, row) == PointAt(col, row % 2 = 1) /\ dragging' = TRUE

Drag(col) == dragging /\ PointAt(col, TRUE) /\ UNCHANGED dragging

(* A release over the task bar goes to taskbar_handle_event alone, and the *)
(* field goes on following the mouse.                                      *)
Release(overTaskbar) ==
  /\ dragging /\ dragging' = overTaskbar
  /\ UNCHANGED <<buffer, cursor_pos, selection_start, selection_end, scroll_offset>>

(* Drawing the field brings the cursor back into the part that is shown.   *)
Draw ==
  /\ scroll_offset' = ScrollLeft(cursor_pos, ScrollRight(cursor_pos, scroll_offset))
  /\ UNCHANGED <<buffer, cursor_pos, selection_start, selection_end, dragging>>

(* Calls of a program.                                                     *)
SetText(s) ==
  /\ buffer' = Copy(Cut(s), buffer) /\ PutAt(Len(Cut(s))) /\ scroll_offset' = 0
  /\ UNCHANGED dragging

SelectAll ==
  /\ cursor_pos' = strlen(buffer) /\ selection_start' = 0 /\ selection_end' = strlen(buffer)
  /\ UNCHANGED <<buffer, scroll_offset, dragging>>

Keys ==
  \/ \E c \in Chars : InsertChar(c)
  \/ EraseSelection \/ Backspace \/ DeleteChar
  \/ \E shift \in BOOLEAN :
       \/ CursorLeft(shift) \/ CursorRight(shift) \/ WordLeft(shift) \/ WordRight(shift)
       \/ Home(shift) \/ End(shift)

Mouse ==
  \/ \E col \in Index, row \in 0..1 : Click(col, row)
  \/ \E col \in Index : Drag(col)
  \/ \E over \in BOOLEAN : Release(over)

TextNext == Keys \/ Mouse \/ Draw \/ SelectAll \/ \E s \in SetTexts : SetText(s)

TextSpec == TextInit /\ [][TextNext]_textVars

-----------------------------------------------------------------------------
(* Every variable of the field has its type.                               *)
TextTypeOK ==
  /\ buffer \in [Index -> Byte]
  /\ cursor_pos \in Index /\ selection_start \in Index /\ selection_end \in Index
  /\ scroll_offset \in Index
  /\ dragging \in BOOLEAN

(* After any sequence of edits the buffer holds a string that ends within  *)
(* it, and the cursor and the selection are in that string: nothing the    *)
(* editing operations index with is out of date.                           *)
StringInBuffer ==
  \E n \in Index :
    /\ IsLength(buffer, n)
    /\ cursor_pos <= n /\ selection_start <= n /\ selection_end = cursor_pos

Text == [i \in 1..strlen(buffer) |-> buffer[i - 1]]

Ed == INSTANCE Editor WITH
        Capacity <- BufferSize - 1, text <- Text, cursor <- cursor_pos, anchor <- selection_start,
        Settable <- {Initial} \cup {Cut(s) : s \in SetTexts}

(* The loops over the buffer do to the string what the editor promises.    *)
ImplementsEditor == Ed!EditorSpec
=============================================================================
