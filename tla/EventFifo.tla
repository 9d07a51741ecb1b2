----------------------------- MODULE EventFifo -----------------------------
(***************************************************************************)
(* What core/event.c promises to the interrupt handlers and to the main    *)
(* loop: a bounded first-in first-out queue of events that, when it is     *)
(* full, gives up its OLDEST event to make room for the newest one.        *)
(*                                                                         *)
(* EventQueue implements this specification with a ring of slots; the      *)
(* InputPipeline uses it as its queue.                                     *)
(***************************************************************************)
EXTENDS Naturals, Sequences

CONSTANTS Capacity,   \* EVENT_QUEUE_SIZE
          Event,      \* the events a producer may post
          NoEvent     \* what event_poll's out-parameter holds before any poll

VARIABLES pending,    \* the events posted and not yet polled, oldest first
          polled      \* the event the last successful poll returned

fifoVars == <<pending, polled>>

FifoTypeOK ==
  /\ pending \in Seq(Event)
  /\ Len(pending) <= Capacity
  /\ polled \in Event \cup {NoEvent}

FifoInit == /\ pending = <<>>
            /\ polled = NoEvent

(* event_post: never fails, never blocks; a full queue loses its head.     *)
Posted(e) == Append(IF Len(pending) >= Capacity THEN Tail(pending) ELSE pending, e)

Post(e) == pending' = Posted(e) /\ UNCHANGED polled

(* event_poll with a pending event: the oldest one is handed out.          *)
Poll ==
  /\ pending # <<>>
  /\ polled' = Head(pending)
  /\ pending' = Tail(pending)

(* event_clear, and event_init: everything pending is forgotten.           *)
Clear == /\ pending' = <<>>
         /\ UNCHANGED polled

FifoNext == \/ \E e \in Event : Post(e)
            \/ Poll
            \/ Clear

FifoSpec == FifoInit /\ [][FifoNext]_fifoVars
=============================================================================
