----------------------------- MODULE EventQueue -----------------------------
(***************************************************************************)
(* core/event.c: the ring of EVENT_QUEUE_SIZE slots between the interrupt  *)
(* handlers and kernel_main's loop.                                        *)
(*                                                                         *)
(* event_post, event_poll and event_clear run between cli and sti on the   *)
(* only CPU, so each is one step.  event_init does not disable interrupts, *)
(* and kernel_main calls it long after it enabled them, so its three       *)
(* stores are three steps, in any order the compiler may emit them, and    *)
(* the timer handler may post between two of them.                         *)
(***************************************************************************)
EXTENDS Integers, Sequences

CONSTANTS EVENT_QUEUE_SIZE,
          Event,
          NoEvent,
          InitInterrupted   \* may a tick land inside event_init?

ASSUME SizeAssumption == EVENT_QUEUE_SIZE \in Nat \ {0}
ASSUME EventAssumption == NoEvent \notin Event
ASSUME InitAssumption == InitInterrupted \in BOOLEAN

VARIABLES event_queue,   \* the slots; a static array, zeroed at load
          queue_head,    \* the slot the next poll reads
          queue_tail,    \* the slot the next post writes
          queue_count,   \* how many events the ring believes it holds
          init_left,     \* the stores event_init has still to make
          polled         \* *event after the last successful event_poll

ring == <<event_queue, queue_head, queue_tail, queue_count>>
vars == <<ring, init_left, polled>>

Slots == 0 .. EVENT_QUEUE_SIZE - 1
Stores == {"head", "tail", "count"}

TypeOK ==
  /\ event_queue \in [Slots -> Event \cup {NoEvent}]
  /\ queue_head \in Slots
  /\ queue_tail \in Slots
  /\ queue_count \in 0 .. EVENT_QUEUE_SIZE
  /\ init_left \in SUBSET Stores
  /\ polled \in Event \cup {NoEvent}

Init ==
  /\ event_queue = [s \in Slots |-> NoEvent]
  /\ queue_head = 0
  /\ queue_tail = 0
  /\ queue_count = 0
  /\ init_left = Stores
  /\ polled = NoEvent

-----------------------------------------------------------------------------
Succ(s) == (s + 1) % EVENT_QUEUE_SIZE

(* event_init has not begun, or has returned.                              *)
OutsideInit == init_left \in {Stores, {}}

(* Variants of the handlers below with a plausible slip in each.           *)
EventPostOverwrites(e) ==     \* a full ring is not made room in
  /\ InitInterrupted \/ OutsideInit
  /\ event_queue' = [event_queue EXCEPT ![queue_tail] = e]
  /\ queue_tail' = Succ(queue_tail)
  /\ queue_count' = IF queue_count >= EVENT_QUEUE_SIZE THEN queue_count ELSE queue_count + 1
  /\ UNCHANGED <<queue_head, init_left, polled>>

EventPostNoBound(e) ==        \* the test for a full ring is off by one
  /\ InitInterrupted \/ OutsideInit
  /\ event_queue' = [event_queue EXCEPT ![queue_tail] = e]
  /\ queue_tail' = Succ(queue_tail)
  /\ IF queue_count > EVENT_QUEUE_SIZE
     THEN queue_head' = Succ(queue_head) /\ UNCHANGED queue_count
     ELSE queue_count' = queue_count + 1 /\ UNCHANGED queue_head
  /\ UNCHANGED <<init_left, polled>>

EventPollLeavesHead ==        \* the head moves only while events remain
  /\ init_left = {}
  /\ queue_count > 0
  /\ polled' = event_queue[queue_head]
  /\ queue_head' = IF queue_count > 1 THEN Succ(queue_head) ELSE queue_head
  /\ queue_count' = queue_count - 1
  /\ UNCHANGED <<event_queue, queue_tail, init_left>>

-----------------------------------------------------------------------------
(* event_post.  Before event_init has run only the timer handler posts.    *)
EventPost(e) ==
  /\ InitInterrupted \/ OutsideInit
  /\ IF queue_count >= EVENT_QUEUE_SIZE
     THEN queue_head' = Succ(queue_head) /\ UNCHANGED queue_count
     ELSE queue_count' = queue_count + 1 /\ UNCHANGED queue_head
  /\ event_queue' = [event_queue EXCEPT ![queue_tail] = e]
  /\ queue_tail' = Succ(queue_tail)
  /\ UNCHANGED <<init_left, polled>>

(* event_poll that returns 1; one that returns 0 changes nothing.  The     *)
(* main loop starts polling after event_init has returned.                 *)
EventPoll ==
  /\ init_left = {}
  /\ queue_count > 0
  /\ polled' = event_queue[queue_head]
  /\ queue_head' = Succ(queue_head)
  /\ queue_count' = queue_count - 1
  /\ UNCHANGED <<event_queue, queue_tail, init_left>>

EventClear ==
  /\ init_left = {}
  /\ queue_head' = 0
  /\ queue_tail' = 0
  /\ queue_count' = 0
  /\ UNCHANGED <<event_queue, init_left, polled>>

(* One of event_init's stores.                                             *)
InitStore(f) ==
  /\ f \in init_left
  /\ init_left' = init_left \ {f}
  /\ queue_head' = IF f = "head" THEN 0 ELSE queue_head
  /\ queue_tail' = IF f = "tail" THEN 0 ELSE queue_tail
  /\ queue_count' = IF f = "count" THEN 0 ELSE queue_count
  /\ UNCHANGED <<event_queue, polled>>

Next == \/ \E e \in Event : EventPost(e)
        \/ EventPoll
        \/ EventClear
        \/ \E f \in Stores : InitStore(f)

Spec == Init /\ [][Next]_vars

-----------------------------------------------------------------------------
(* The slot k places after slot s.                                         *)
Ahead(s, k) == IF s + k < EVENT_QUEUE_SIZE THEN s + k ELSE s + k - EVENT_QUEUE_SIZE

(* The queue's three indices agree: the tail is queue_count slots ahead of *)
(* the head.  event_post and event_poll both rely on it and neither checks *)
(* it.  It holds whenever no tick interrupted event_init (event.c:13).     *)
RingConsistent ==
  OutsideInit => queue_tail = Ahead(queue_head, queue_count)

(* The ring read as a queue: the queue_count slots from the head on.       *)
(* While event_init runs its first store has already emptied the queue.    *)
Contents == IF OutsideInit
            THEN [i \in 1 .. queue_count |-> event_queue[Ahead(queue_head, i - 1)]]
            ELSE <<>>

Fifo == INSTANCE EventFifo WITH Capacity <- EVENT_QUEUE_SIZE, pending <- Contents

(* The ring implements the bounded FIFO: events are delivered in the order *)
(* they were posted, none is delivered twice, and only a full queue loses  *)
(* one, the oldest (event.c:25-28).                                        *)
ImplementsFifo == Fifo!FifoSpec
=============================================================================
