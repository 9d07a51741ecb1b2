-------------------------- MODULE EventQueueProofs --------------------------
(* Proofs about the event ring, for every size of the ring and every set   *)
(* of events.                                                              *)
EXTENDS EventQueue, SequenceTheorems, TLAPS

(* The successor of a slot (event.c:26,31,44) without the modulus.         *)
LEMMA SuccIsAhead ==
  ASSUME NEW s \in Slots
  PROVE  /\ Succ(s) = IF s + 1 = EVENT_QUEUE_SIZE THEN 0 ELSE s + 1
         /\ Succ(s) \in Slots
<1>1. s \in Nat /\ s + 1 \in 1 .. EVENT_QUEUE_SIZE
  BY SizeAssumption DEF Slots
<1>2. CASE s + 1 = EVENT_QUEUE_SIZE
  BY <1>1, <1>2, SizeAssumption DEF Succ, Slots
<1>3. CASE s + 1 # EVENT_QUEUE_SIZE
  BY <1>1, <1>3, SizeAssumption DEF Succ, Slots
<1>4. QED
  BY <1>2, <1>3

LEMMA TypeStep ==
  ASSUME TypeOK, [Next]_vars
  PROVE  TypeOK'
<1> USE DEF TypeOK
<1>1. ASSUME NEW e \in Event, EventPost(e)
      PROVE  TypeOK'
  <2>1. Succ(queue_head) \in Slots /\ Succ(queue_tail) \in Slots
    BY SuccIsAhead
  <2>2. queue_count' \in 0 .. EVENT_QUEUE_SIZE /\ queue_head' \in Slots
    BY <1>1, <2>1, SizeAssumption DEF EventPost
  <2>3. event_queue' \in [Slots -> Event \cup {NoEvent}]
    BY <1>1 DEF EventPost
  <2>4. QED
    BY <1>1, <2>1, <2>2, <2>3 DEF EventPost
<1>2. CASE EventPoll
  <2>1. Succ(queue_head) \in Slots
    BY SuccIsAhead
  <2>2. QED
    BY <1>2, <2>1, SizeAssumption DEF EventPoll
<1>3. CASE EventClear
  BY <1>3, SizeAssumption DEF EventClear, Slots
<1>4. ASSUME NEW f \in Stores, InitStore(f)
      PROVE  TypeOK'
  BY <1>4, SizeAssumption DEF InitStore, Slots
<1>5. CASE UNCHANGED vars
  BY <1>5 DEF vars, ring
<1>6. QED
  BY <1>1, <1>2, <1>3, <1>4, <1>5 DEF Next

(* The ring's variables always hold slots, counts and events.              *)
THEOREM TypeCorrect == Spec => []TypeOK
<1>1. Init => TypeOK
  BY SizeAssumption DEF Init, TypeOK, Slots
<1>2. TypeOK /\ [Next]_vars => TypeOK'
  BY TypeStep
<1>3. QED
  BY <1>1, <1>2, PTL DEF Spec

-----------------------------------------------------------------------------
(* The strengthening of RingConsistent: while event_init is under way, the *)
(* indices it has already stored are still 0, because nothing posts then.  *)
InitProgress ==
  ~ OutsideInit => /\ "head" \notin init_left => queue_head = 0
                   /\ "tail" \notin init_left => queue_tail = 0
                   /\ "count" \notin init_left => queue_count = 0

IInv == TypeOK /\ RingConsistent /\ InitProgress

(* One place further from the head on both sides of the index equation.    *)
LEMMA AheadSteps ==
  ASSUME NEW s \in Slots, NEW k \in 0 .. EVENT_QUEUE_SIZE
  PROVE  /\ Ahead(s, 0) = s
         /\ Ahead(s, EVENT_QUEUE_SIZE) = s
         /\ Ahead(s, k) \in Slots
         /\ k < EVENT_QUEUE_SIZE => Succ(Ahead(s, k)) = Ahead(s, k + 1)
         /\ k > 0 => Ahead(Succ(s), k - 1) = Ahead(s, k)
<1>1. /\ Ahead(s, 0) = s
      /\ Ahead(s, EVENT_QUEUE_SIZE) = s
      /\ Ahead(s, k) \in Slots
  BY SizeAssumption DEF Ahead, Slots
<1>2. k < EVENT_QUEUE_SIZE => Succ(Ahead(s, k)) = Ahead(s, k + 1)
  BY <1>1, SuccIsAhead, SizeAssumption DEF Ahead, Slots
<1>3. k > 0 => Ahead(Succ(s), k - 1) = Ahead(s, k)
  BY SuccIsAhead, SizeAssumption DEF Ahead, Slots
<1>4. QED
  BY <1>1, <1>2, <1>3

LEMMA RingInductive ==
  ASSUME ~ InitInterrupted, IInv, TypeOK', [Next]_vars
  PROVE  IInv'
<1> USE DEF IInv, TypeOK, RingConsistent, InitProgress
<1>1. ASSUME NEW e \in Event, EventPost(e)
      PROVE  IInv'
  <2>1. OutsideInit /\ UNCHANGED init_left
    BY <1>1 DEF EventPost
  <2>2. CASE queue_count >= EVENT_QUEUE_SIZE
    <3>1. queue_count = EVENT_QUEUE_SIZE /\ queue_count' = queue_count
      BY <1>1, <2>2, SizeAssumption DEF EventPost
    <3>2. queue_tail = queue_head
      BY <2>1, <3>1, AheadSteps
    <3>3. queue_tail' = queue_head' /\ queue_head' \in Slots
      BY <1>1, <2>2, <3>2, SuccIsAhead DEF EventPost
    <3>4. queue_tail' = Ahead(queue_head', queue_count')
      BY <3>1, <3>3, AheadSteps, SizeAssumption
    <3>5. QED
      BY <2>1, <3>4 DEF OutsideInit
  <2>3. CASE queue_count < EVENT_QUEUE_SIZE
    <3>1. /\ queue_head' = queue_head
          /\ queue_count' = queue_count + 1
          /\ queue_tail' = Succ(queue_tail)
      BY <1>1, <2>3, SizeAssumption DEF EventPost
    <3>2. queue_tail' = Ahead(queue_head', queue_count')
      BY <2>1, <2>3, <3>1, AheadSteps
    <3>3. QED
      BY <2>1, <3>2 DEF OutsideInit
  <2>4. QED
    BY <2>2, <2>3, SizeAssumption
<1>2. CASE EventPoll
  <2>1. OutsideInit /\ UNCHANGED init_left
    BY <1>2 DEF EventPoll, OutsideInit
  <2>2. queue_tail' = Ahead(queue_head', queue_count')
    BY <1>2, <2>1, AheadSteps DEF EventPoll
  <2>3. QED
    BY <2>1, <2>2 DEF OutsideInit
<1>3. CASE EventClear
  BY <1>3, SizeAssumption DEF EventClear, OutsideInit, Ahead
<1>4. ASSUME NEW f \in Stores, InitStore(f)
      PROVE  IInv'
  <2>1. /\ "head" \notin init_left' => queue_head' = 0
        /\ "tail" \notin init_left' => queue_tail' = 0
        /\ "count" \notin init_left' => queue_count' = 0
    BY <1>4 DEF InitStore, OutsideInit, Stores
  <2>2. CASE init_left' = {}
    BY <2>1, <2>2, SizeAssumption DEF Ahead, OutsideInit
  <2>3. CASE init_left' # {}
    <3>1. ~ OutsideInit'
      BY <1>4, <2>3 DEF InitStore, OutsideInit
    <3>2. QED
      BY <2>1, <3>1
  <2>4. QED
    BY <2>2, <2>3
<1>5. CASE UNCHANGED vars
  BY <1>5 DEF vars, ring, OutsideInit
<1>6. QED
  BY <1>1, <1>2, <1>3, <1>4, <1>5 DEF Next

LEMMA RingInitially == Init => IInv
<1> SUFFICES ASSUME Init PROVE IInv
  OBVIOUS
<1>1. TypeOK
  BY SizeAssumption DEF Init, TypeOK, Slots
<1>2. RingConsistent /\ InitProgress
  BY SizeAssumption DEF Init, RingConsistent, InitProgress, OutsideInit, Ahead
<1>3. QED
  BY <1>1, <1>2 DEF IInv

(* The tail is always queue_count slots ahead of the head, for a ring of   *)
(* any size, as long as no tick lands inside event_init (event.c:13-35).   *)
THEOREM RingStaysConsistent ==
  ASSUME ~ InitInterrupted
  PROVE  Spec => []RingConsistent
<1>1. IInv /\ TypeOK' /\ [Next]_vars => IInv'
  BY RingInductive
<1>2. IInv => RingConsistent
  BY DEF IInv
<1>3. QED
  BY <1>1, <1>2, RingInitially, TypeCorrect, PTL DEF Spec

-----------------------------------------------------------------------------
(* The ring read as a queue while no store of event_init is outstanding    *)
(* halfway.                                                                *)
Window(q, h, c) == [i \in 1 .. c |-> q[Ahead(h, i - 1)]]
Live == Window(event_queue, queue_head, queue_count)

Item == Event \cup {NoEvent}

LEMMA WindowIsSeq ==
  ASSUME NEW q \in [Slots -> Item], NEW h \in Slots, NEW c \in 0 .. EVENT_QUEUE_SIZE
  PROVE  /\ Window(q, h, c) \in Seq(Item)
         /\ Len(Window(q, h, c)) = c
         /\ \A i \in 1 .. c : Window(q, h, c)[i] = q[Ahead(h, i - 1)]
<1>1. \A i \in 1 .. c : Ahead(h, i - 1) \in Slots
  BY AheadSteps, SizeAssumption
<1>2. QED
  BY <1>1, SizeAssumption DEF Window

(* The window after the head has moved on is the old one without its first *)
(* place.                                                                  *)
LEMMA HeadMoves ==
  ASSUME NEW h \in Slots, NEW i \in 1 .. EVENT_QUEUE_SIZE
  PROVE  Ahead(Succ(h), i - 1) = Ahead(h, i)
<1>1. i \in 0 .. EVENT_QUEUE_SIZE /\ i > 0
  BY SizeAssumption
<1>2. QED
  BY <1>1, AheadSteps

LEMMA PostRefines ==
  ASSUME IInv, TypeOK', NEW e \in Event, ~ InitInterrupted, EventPost(e)
  PROVE  Fifo!Post(e)
<1> USE DEF IInv, TypeOK
<1>1. /\ OutsideInit /\ OutsideInit'
      /\ queue_tail = Ahead(queue_head, queue_count)
      /\ polled' = polled
      /\ queue_tail \in Slots /\ queue_head \in Slots
      /\ queue_count \in Nat /\ queue_count <= EVENT_QUEUE_SIZE
      /\ event_queue' = [event_queue EXCEPT ![queue_tail] = e]
  BY SizeAssumption DEF EventPost, OutsideInit, RingConsistent
<1>2. Contents = Live /\ Contents' = Live'
  BY <1>1 DEF Contents, Live, Window
<1>3. /\ Len(Live) = queue_count /\ Live \in Seq(Event \cup {NoEvent})
      /\ Len(Live') = queue_count' /\ Live' \in Seq(Event \cup {NoEvent})
  BY WindowIsSeq DEF Live, Item
<1>4. CASE queue_count < EVENT_QUEUE_SIZE
  <2>1. queue_head' = queue_head /\ queue_count' = queue_count + 1
    BY <1>4, SizeAssumption DEF EventPost
  <2>2. \A i \in 1 .. queue_count : Ahead(queue_head, i - 1) # queue_tail
    BY <1>1, <1>4, SizeAssumption DEF Ahead, Slots
  <2>3. \A i \in 1 .. queue_count : Live'[i] = Live[i]
    BY <1>1, <2>1, <2>2, AheadSteps, SizeAssumption DEF Live, Window
  <2>4. Live'[queue_count + 1] = e
    BY <1>1, <2>1, SizeAssumption DEF Live, Window
  <2>5. Live' = Append(Live, e)
    <3>1. /\ Append(Live, e) \in Seq(Event \cup {NoEvent})
          /\ Len(Append(Live, e)) = queue_count + 1
          /\ \A i \in 1 .. queue_count : Append(Live, e)[i] = Live[i]
          /\ Append(Live, e)[queue_count + 1] = e
      BY <1>1, <1>3, AppendProperties
    <3>2. \A i \in 1 .. Len(Live') : Live'[i] = Append(Live, e)[i]
      BY <1>1, <1>3, <2>1, <2>3, <2>4, <3>1
    <3>3. QED
      BY ONLY <1>1, <1>3, <2>1, <3>1, <3>2, SeqEqual
  <2>6. QED
    BY <1>1, <1>2, <1>3, <1>4, <2>5, SizeAssumption DEF Fifo!Post, Fifo!Posted
<1>5. CASE queue_count = EVENT_QUEUE_SIZE
  <2>1. queue_head' = Succ(queue_head) /\ queue_count' = queue_count
    BY <1>5, SizeAssumption DEF EventPost
  <2>2. queue_tail = queue_head
    BY <1>1, <1>5, AheadSteps
  <2>3. \A i \in 1 .. queue_count - 1 :
          /\ Ahead(queue_head', i - 1) = Ahead(queue_head, i)
          /\ Ahead(queue_head, i) # queue_tail
          /\ Ahead(queue_head, i) \in Slots
    <3>1. ASSUME NEW i \in 1 .. queue_count - 1
          PROVE  /\ Ahead(queue_head', i - 1) = Ahead(queue_head, i)
                 /\ Ahead(queue_head, i) # queue_tail
                 /\ Ahead(queue_head, i) \in Slots
      <4>1. i \in 1 .. EVENT_QUEUE_SIZE /\ i < EVENT_QUEUE_SIZE
        BY <1>1, <1>5, SizeAssumption
      <4>2. Ahead(queue_head', i - 1) = Ahead(queue_head, i)
        BY <1>1, <2>1, <4>1, HeadMoves
      <4>3. Ahead(queue_head, i) # queue_tail /\ Ahead(queue_head, i) \in Slots
        BY <1>1, <2>2, <4>1, SizeAssumption DEF Ahead, Slots
      <4>4. QED
        BY <4>2, <4>3
    <3>2. QED
      BY <3>1
  <2>4. \A i \in 1 .. queue_count - 1 : Live'[i] = Live[i + 1]
    BY <1>1, <2>1, <2>3 DEF Live, Window
  <2>5. Ahead(queue_head', queue_count - 1) = queue_tail
    BY <1>1, <1>5, <2>1, <2>2, HeadMoves, AheadSteps, SizeAssumption
  <2>6. Live'[queue_count] = e
    BY <1>1, <1>5, <2>1, <2>5, SizeAssumption DEF Live, Window
  <2>7. Live' = Append(Tail(Live), e)
    <3>1. /\ Live # <<>>
          /\ Tail(Live) \in Seq(Item)
          /\ Len(Tail(Live)) = queue_count - 1
          /\ \A i \in 1 .. queue_count - 1 : Tail(Live)[i] = Live[i + 1]
      BY <1>1, <1>3, <1>5, SizeAssumption, HeadTailProperties DEF Item
    <3>2. /\ Append(Tail(Live), e) \in Seq(Item)
          /\ Len(Append(Tail(Live), e)) = queue_count
          /\ \A i \in 1 .. queue_count - 1 : Append(Tail(Live), e)[i] = Live[i + 1]
          /\ Append(Tail(Live), e)[queue_count] = e
      BY <1>1, <1>3, <3>1, AppendProperties DEF Item
    <3>3. \A i \in 1 .. Len(Live') : Live'[i] = Append(Tail(Live), e)[i]
      BY <1>1, <1>3, <2>1, <2>4, <2>6, <3>2
    <3>4. QED
      BY ONLY <1>1, <1>3, <2>1, <3>2, <3>3, SeqEqual DEF Item
  <2>8. QED
    BY <1>1, <1>2, <1>3, <1>5, <2>7, SizeAssumption DEF Fifo!Post, Fifo!Posted
<1>6. QED
  BY <1>1, <1>4, <1>5, SizeAssumption

LEMMA PollRefines ==
  ASSUME IInv, TypeOK', EventPoll
  PROVE  Fifo!Poll
<1> USE DEF IInv, TypeOK
<1>1. /\ OutsideInit /\ OutsideInit'
      /\ queue_head \in Slots
      /\ queue_count \in Nat /\ queue_count <= EVENT_QUEUE_SIZE /\ queue_count > 0
      /\ event_queue' = event_queue
      /\ queue_head' = Succ(queue_head) /\ queue_count' = queue_count - 1
      /\ polled' = event_queue[queue_head]
  BY SizeAssumption DEF EventPoll, OutsideInit
<1>2. Contents = Live /\ Contents' = Live'
  BY <1>1 DEF Contents, Live, Window
<1>3. /\ Len(Live) = queue_count /\ Live \in Seq(Event \cup {NoEvent})
      /\ Len(Live') = queue_count' /\ Live' \in Seq(Event \cup {NoEvent})
  BY WindowIsSeq DEF Live, Item
<1>4. Live # <<>> /\ Head(Live) = event_queue[queue_head]
  BY <1>1, <1>3, AheadSteps, SizeAssumption DEF Live, Window
<1>5. ASSUME NEW i \in 1 .. queue_count - 1
      PROVE  Live'[i] = Live[i + 1]
  <2>1. i \in 1 .. EVENT_QUEUE_SIZE
    BY <1>1, SizeAssumption
  <2>2. Ahead(queue_head', i - 1) = Ahead(queue_head, i)
    BY <1>1, <2>1, HeadMoves
  <2>3. QED
    BY <1>1, <2>2 DEF Live, Window
<1>6. /\ Tail(Live) \in Seq(Item)
      /\ Len(Tail(Live)) = queue_count - 1
      /\ \A i \in 1 .. queue_count - 1 : Tail(Live)[i] = Live[i + 1]
  BY <1>1, <1>3, <1>4, HeadTailProperties DEF Item
<1>7. Live' = Tail(Live)
  <2>1. \A i \in 1 .. Len(Live') : Live'[i] = Tail(Live)[i]
    BY <1>1, <1>3, <1>5, <1>6
  <2>2. QED
    BY ONLY <1>1, <1>3, <1>6, <2>1, SeqEqual DEF Item
<1>8. QED
  BY <1>1, <1>2, <1>3, <1>4, <1>7 DEF Fifo!Poll

LEMMA ClearRefines ==
  ASSUME IInv, EventClear
  PROVE  Fifo!Clear
<1>1. OutsideInit' /\ queue_count' = 0 /\ polled' = polled
  BY DEF EventClear, OutsideInit
<1>2. QED
  BY <1>1 DEF Contents, Fifo!Clear

LEMMA InitStoreRefines ==
  ASSUME IInv, NEW f \in Stores, InitStore(f)
  PROVE  Fifo!Clear
<1>1. polled' = polled
  BY DEF InitStore
<1>2. CASE init_left' = {}
  <2>1. queue_count' = 0
    BY <1>2 DEF IInv, TypeOK, InitProgress, InitStore, OutsideInit, Stores
  <2>2. QED
    BY <1>1, <1>2, <2>1 DEF Contents, OutsideInit, Fifo!Clear
<1>3. CASE init_left' # {}
  <2>1. ~ OutsideInit'
    BY <1>3 DEF InitStore, OutsideInit, IInv, TypeOK
  <2>2. QED
    BY <1>1, <2>1 DEF Contents, Fifo!Clear
<1>4. QED
  BY <1>2, <1>3

LEMMA StepRefines ==
  ASSUME ~ InitInterrupted, IInv, TypeOK', [Next]_vars
  PROVE  [Fifo!FifoNext]_Fifo!fifoVars
<1>1. ASSUME NEW e \in Event, EventPost(e)
      PROVE  Fifo!FifoNext
  BY <1>1, PostRefines DEF Fifo!FifoNext
<1>2. CASE EventPoll
  BY <1>2, PollRefines DEF Fifo!FifoNext
<1>3. CASE EventClear
  BY <1>3, ClearRefines DEF Fifo!FifoNext
<1>4. ASSUME NEW f \in Stores, InitStore(f)
      PROVE  Fifo!FifoNext
  BY <1>4, InitStoreRefines DEF Fifo!FifoNext
<1>5. CASE UNCHANGED vars
  BY <1>5 DEF vars, ring, Contents, OutsideInit, Fifo!fifoVars
<1>6. QED
  BY <1>1, <1>2, <1>3, <1>4, <1>5 DEF Next

LEMMA InitRefines == Init => Fifo!FifoInit
<1> SUFFICES ASSUME Init PROVE Fifo!FifoInit
  OBVIOUS
<1>1. Contents = <<>>
  BY DEF Init, Contents, OutsideInit
<1>2. QED
  BY <1>1 DEF Init, Fifo!FifoInit

(* The ring implements the bounded FIFO that drops its oldest event, for a *)
(* ring of any size, as long as no tick lands inside event_init.           *)
THEOREM RingImplementsFifo ==
  ASSUME ~ InitInterrupted
  PROVE  Spec => ImplementsFifo
<1>1. IInv /\ TypeOK' /\ [Next]_vars => IInv'
  BY RingInductive
<1>2. IInv /\ TypeOK' /\ [Next]_vars => [Fifo!FifoNext]_Fifo!fifoVars
  BY StepRefines
<1>3. Spec => []IInv
  BY <1>1, RingInitially, TypeCorrect, PTL DEF Spec
<1>4. QED
  BY <1>2, <1>3, InitRefines, TypeCorrect, PTL DEF Spec, ImplementsFifo, Fifo!FifoSpec
=============================================================================
