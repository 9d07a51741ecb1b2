------------------------------- MODULE Editor -------------------------------
(***************************************************************************)
(* What an input field promises its user: a text of at most Capacity       *)
(* characters, a cursor in it, and the part selected, between the cursor   *)
(* and the place where the selection began.  TextInput implements it with  *)
(* a buffer of bytes that ends in a NUL.                                   *)
(***************************************************************************)
EXTENDS Integers, Sequences

CONSTANTS
  Chars, Capacity, Initial, Placeholder,
  Settable \* the texts the program puts into the field

VARIABLES text, cursor, anchor

editorVars == <<text, cursor, anchor>>

Texts == UNION {[1..n -> Chars] : n \in 0..Capacity}

(* Characters from+1 to upto of the text are replaced by s.                *)
Replace(t, from, upto, s) == SubSeq(t, 1, from) \o s \o SubSeq(t, upto + 1, Len(t))

Lower == IF anchor < cursor THEN anchor ELSE cursor
Upper == IF anchor < cursor THEN cursor ELSE anchor

PutCursor(at) == cursor' = at /\ anchor' = at

EditorInit == text = Initial /\ cursor = Len(Initial) /\ anchor = Len(Initial)

(* A character replaces the selection, unless the text is full; one typed  *)
(* into the placeholder replaces all of it.                                *)
Type(c) ==
  IF text = Placeholder /\ Placeholder # <<>>
    THEN text' = <<c>> /\ PutCursor(1)
    ELSE /\ Len(text) < Capacity
         /\ text' = Replace(text, Lower, Upper, <<c>>)
         /\ PutCursor(Lower + 1)

EraseSelection == Lower < Upper /\ text' = Replace(text, Lower, Upper, <<>>) /\ PutCursor(Lower)

EraseBefore ==
  /\ Lower = Upper /\ cursor > 0
  /\ text' = Replace(text, cursor - 1, cursor, <<>>) /\ PutCursor(cursor - 1)

EraseAfter ==
  /\ Lower = Upper /\ cursor < Len(text)
  /\ text' = Replace(text, cursor, cursor + 1, <<>>) /\ UNCHANGED <<cursor, anchor>>

(* The cursor goes anywhere; the selection starts anew or is stretched.    *)
Move == cursor' \in 0..Len(text) /\ anchor' \in {cursor', anchor} /\ UNCHANGED text

SetText == \E t \in Settable : text' = t /\ PutCursor(Len(t))

SelectEverything == cursor' = Len(text) /\ anchor' = 0 /\ UNCHANGED text

EditorNext ==
  \/ Move \/ SelectEverything
  \/ EraseSelection \/ EraseBefore \/ EraseAfter
  \/ \E c \in Chars : Type(c)
  \/ SetText

EditorSpec == EditorInit /\ [][EditorNext]_editorVars
=============================================================================
