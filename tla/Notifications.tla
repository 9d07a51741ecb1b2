--------------------------- MODULE Notifications ---------------------------
(***************************************************************************)
(* The messages in the corner of the screen (kernel/notif.c): an array     *)
(* whose first free slot takes the next message, which is shifted when one *)
(* is removed, and whose messages slide to their new places over several   *)
(* frames.  A place is a number of messages above the task bar.  Positions *)
(* on the way, which only drawing uses, are not told apart.                *)
(***************************************************************************)
EXTENDS Integers, FiniteSets

CONSTANTS
  MaxCount,  \* NOTIF_MAX_COUNT
  MoveSteps, \* NOTIF_MOVE_STEPS
  OnScreen,  \* places whose close button is on the screen
  MaxPosts   \* bound: messages posted

ASSUME NotifAssumption == {MaxCount, MoveSteps} \subseteq Nat \ {0} /\ {OnScreen, MaxPosts} \subseteq Nat

VARIABLES
  notifs,  \* the messages, each with its slot of the array
  next_id,
  click,   \* mouse_down, clicked_index; ids: what was in the slots up to it
  mistaken \* history: a release closed another message than the press chose

notifVars == <<notifs, next_id, click, mistaken>>

Slots == 0..MaxCount - 1

(* expired: NOTIF_LIFETIME ticks have passed.  late: history, the message  *)
(* was shifted on its way, when notif_recalc_targets leaves it alone.      *)
Message == [id : 1..MaxPosts, slot : Slots, expired : BOOLEAN, moving : BOOLEAN,
            late : BOOLEAN, move_step : 0..MoveSteps - 1, current_y : Slots, target_y : Slots]

Ids(ns) == {n.id : n \in ns}
UpTo(ns, index) == {n \in ns : n.slot <= index}
Place(ns, slot) == Cardinality({n \in ns : n.slot < slot})

(* notif_recalc_targets                                                    *)
RecalcTargets(ns) ==
  {IF n.moving \/ n.current_y = Place(ns, n.slot) THEN n
   ELSE [n EXCEPT !.moving = TRUE, !.target_y = Place(ns, n.slot), !.move_step = 0,
                  !.late = FALSE] : n \in ns}

Shift(ns, index) ==
  {IF n.slot < index THEN n ELSE [n EXCEPT !.slot = @ - 1, !.late = @ \/ n.moving] :
     n \in {m \in ns : m.slot # index}}

(* Mutant: the messages stay where they were.                              *)
NotifRemoveOnly(ns, index) == Shift(ns, index)

NotifRemove(ns, index) == RecalcTargets(Shift(ns, index))

NotifInit ==
  /\ notifs = {} /\ next_id = 1 /\ mistaken = FALSE
  /\ click = [down |-> FALSE, index |-> -1, ids |-> {}]

FreshNotifs ==
  /\ notifs' = {} /\ next_id' = 1 /\ mistaken' = FALSE
  /\ click' = [down |-> FALSE, index |-> -1, ids |-> {}]

-----------------------------------------------------------------------------
(* notif_printf: a full array gives up its first message.                  *)
Post ==
  LET room == IF Cardinality(notifs) = MaxCount THEN NotifRemove(notifs, 0) ELSE notifs
      slot == CHOOSE i \in Slots : /\ \A n \in room : n.slot # i
                                   /\ \A j \in 0..i - 1 : \E n \in room : n.slot = j
      y == Place(room, slot)
  IN /\ next_id <= MaxPosts /\ next_id' = next_id + 1
     /\ notifs' = room \cup
          {[id |-> next_id, slot |-> slot, expired |-> FALSE, moving |-> FALSE,
            late |-> FALSE, move_step |-> 0, current_y |-> y, target_y |-> y]}
     /\ UNCHANGED <<click, mistaken>>

(* The ticks go by: the oldest message expires before the younger ones.    *)
Expire ==
  /\ \E n \in notifs :
       /\ ~n.expired /\ \A m \in notifs : m.expired \/ n.id <= m.id
       /\ notifs' = (notifs \ {n}) \cup {[n EXCEPT !.expired = TRUE]}
  /\ UNCHANGED <<next_id, click, mistaken>>

-----------------------------------------------------------------------------
(* notif_update, once a frame                                              *)

(* notif_check_close over the messages: the buttons are where the messages *)
(* would be at rest.                                                       *)
ButtonAt(ns, place) ==
  LET under == {n \in ns : Place(ns, n.slot) = place} IN
  IF under = {} THEN -1 ELSE (CHOOSE n \in under : TRUE).slot

(* Mutant: a press on any button arms the one the release is over.         *)
ClosesAny(place) ==
  IF click.down /\ click.index >= 0 THEN ButtonAt(notifs, place) ELSE -1

(* The slot that a release at a place closes, or -1.                       *)
Closes(place) ==
  IF click.down /\ click.index >= 0 /\ ButtonAt(notifs, place) = click.index
    THEN click.index ELSE -1

(* notif_handle_clicks: the button of the mouse is down or not, and the    *)
(* pointer is over the close button of a place or not (-1).                *)
HandleClicks(down, place) ==
  LET at == ButtonAt(notifs, place) IN
  IF down THEN
    /\ click' = IF click.down THEN click
                ELSE [down |-> TRUE, index |-> at, ids |-> Ids(UpTo(notifs, at))]
    /\ UNCHANGED mistaken
  ELSE
    /\ click' = [down |-> FALSE, index |-> -1, ids |-> {}]
    /\ mistaken' = \/ mistaken
                    \/ /\ Closes(place) >= 0 /\ click.ids \subseteq Ids(notifs)
                       /\ click.ids # Ids(UpTo(notifs, Closes(place)))

(* Mutant: a message that arrives stays on its way.                        *)
AdvanceNeverDone(n) ==
  IF n.moving /\ n.move_step + 1 < MoveSteps THEN [n EXCEPT !.move_step = @ + 1] ELSE n

Advance(n) ==
  CASE ~n.moving -> n
    [] n.moving /\ n.move_step + 1 < MoveSteps -> [n EXCEPT !.move_step = @ + 1]
    [] n.moving /\ n.move_step + 1 >= MoveSteps ->
         [n EXCEPT !.moving = FALSE, !.current_y = n.target_y, !.move_step = 0]

(* One round of the loop at slot i, which stays there when the message is  *)
(* removed and another may have taken the slot.                            *)
UpdateSlot(s) ==
  LET here == {n \in s.ns : n.slot = s.i}
      ns == (s.ns \ here) \cup {Advance(n) : n \in here}
      gone == \E n \in here : ~Advance(n).moving /\ n.expired
  IN IF gone THEN [ns |-> NotifRemove(ns, s.i), i |-> s.i] ELSE [ns |-> ns, i |-> s.i + 1]

(* Each round is done with a slot or a message; no more are needed.  (The  *)
(* value after a round is the one member of a set: TLC computes it once.)  *)
Rounds(ns) ==
  LET after[k \in 0..MaxCount] ==
        IF k = 0 THEN {[ns |-> ns, i |-> 0]} ELSE {UpdateSlot(s) : s \in after[k - 1]}
  IN after

UpdateAll(ns) == UNION {s.ns : s \in Rounds(ns)[MaxCount]}

NotifUpdate ==
  /\ \E down \in BOOLEAN, place \in -1..OnScreen - 1 :
       /\ HandleClicks(down, place)
       /\ notifs' = UpdateAll(IF ~down /\ Closes(place) >= 0
                                THEN NotifRemove(notifs, Closes(place)) ELSE notifs)
  /\ UNCHANGED next_id

-----------------------------------------------------------------------------
NotifTypeOK ==
  /\ notifs \subseteq Message /\ next_id \in 1..MaxPosts + 1
  /\ \A n, m \in notifs : n.slot < m.slot => n.id < m.id
  /\ click \in [down : BOOLEAN, index : -1..MaxCount - 1, ids : SUBSET (1..MaxPosts)]
  /\ mistaken \in BOOLEAN

(* A message is drawn where its close button is looked for (notif_check_   *)
(* close), or is on its way there, whatever was posted, closed, pushed out *)
(* or expired before -- unless it was shifted while it was moving, for     *)
(* notif_recalc_targets passes over it then.                               *)
DrawnAtItsButton ==
  \A n \in notifs :
    ~n.late => Place(notifs, n.slot) = IF n.moving THEN n.target_y ELSE n.current_y

(* A click closes the message whose button was pressed: while the messages *)
(* up to it are all still there clicked_index means the same one.          *)
ClosesWhatWasPressed == ~mistaken
=============================================================================
