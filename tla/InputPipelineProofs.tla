------------------------ MODULE InputPipelineProofs ------------------------
(***************************************************************************)
(* What keeps the input path in order however deep its handlers nest, for  *)
(* any number of keys, mouse packets and ticks and any size of the queue.  *)
(***************************************************************************)
EXTENDS InputPipeline, SequenceTheorems, TLAPS

-----------------------------------------------------------------------------
(* The stack of handlers                                                   *)

(* How a step leaves the stack: with another frame on top of those that    *)
(* were below, with one more, or with one less.                            *)
Replaced(f) ==
  /\ Len(stack') = Len(stack)
  /\ \A n \in 1 .. Len(stack) : stack'[n] = IF n = Len(stack) THEN f ELSE stack[n]

Pushed(f) ==
  /\ Len(stack') = Len(stack) + 1
  /\ \A n \in 1 .. Len(stack) + 1 : stack'[n] = IF n = Len(stack) + 1 THEN f ELSE stack[n]

Popped ==
  /\ Len(stack') = Len(stack) - 1
  /\ \A n \in 1 .. Len(stack) - 1 : stack'[n] = stack[n]

LEMMA TopFrame ==
  ASSUME stack \in Seq(Frame), stack # <<>>
  PROVE  /\ Len(stack) \in Nat \ {0} /\ Top = stack[Len(stack)] /\ Top \in Frame
         /\ Under \in Seq(Frame) /\ Len(Under) = Len(stack) - 1
         /\ \A n \in 1 .. Len(stack) - 1 : Under[n] = stack[n]
  <1>1. Len(stack) \in Nat \ {0} /\ Top \in Frame
    BY DEF Top
  <1>2. /\ Under \in Seq(Frame) /\ Len(Under) = Len(stack) - 1
        /\ \A n \in 1 .. Len(stack) - 1 : Under[n] = stack[n]
    <2>1. PICK l \in Nat : l = Len(stack) - 1
      BY <1>1
    <2>2. \A n \in 1 .. l : stack[n] \in Frame
      BY <1>1, <2>1
    <2>3. /\ Under \in Seq(Frame) /\ Len(Under) = IF 1 <= l THEN l - 1 + 1 ELSE 0
          /\ \A n \in 1 .. l - 1 + 1 : Under[n] = stack[1 + n - 1]
      BY <2>1, <2>2, SubSeqProperties DEF Under
    <2>4. l - 1 + 1 = l /\ \A n \in 1 .. l : 1 + n - 1 = n
      BY <2>1
    <2>5. Len(Under) = l /\ \A n \in 1 .. l : Under[n] = stack[n]
      BY <2>1, <2>3, <2>4
    <2> QED BY <2>1, <2>3, <2>5
  <1> QED BY <1>1, <1>2 DEF Top

LEMMA ReplacesTop ==
  ASSUME stack \in Seq(Frame), stack # <<>>, NEW f \in Frame, stack' = Append(Under, f)
  PROVE  stack' \in Seq(Frame) /\ Replaced(f)
  <1>1. /\ Len(stack) \in Nat \ {0} /\ Under \in Seq(Frame) /\ Len(Under) = Len(stack) - 1
        /\ \A n \in 1 .. Len(stack) - 1 : Under[n] = stack[n]
    BY TopFrame
  <1> HIDE DEF Under
  <1>2. /\ stack' \in Seq(Frame) /\ Len(stack') = Len(Under) + 1
        /\ \A n \in 1 .. Len(Under) : stack'[n] = Under[n]
        /\ stack'[Len(Under) + 1] = f
    BY <1>1, AppendProperties
  <1> QED BY <1>1, <1>2 DEF Replaced

LEMMA PushesFrame ==
  ASSUME stack \in Seq(Frame), NEW f \in Frame, stack' = Append(stack, f)
  PROVE  stack' \in Seq(Frame) /\ Pushed(f)
  <1>1. /\ stack' \in Seq(Frame) /\ Len(stack') = Len(stack) + 1
        /\ \A n \in 1 .. Len(stack) : stack'[n] = stack[n]
        /\ stack'[Len(stack) + 1] = f
    BY AppendProperties
  <1> QED BY <1>1 DEF Pushed

LEMMA PopsFrame ==
  ASSUME stack \in Seq(Frame), stack # <<>>, stack' = Under
  PROVE  stack' \in Seq(Frame) /\ Popped
  BY TopFrame DEF Popped

LEMMA StartedFrame ==
  ASSUME NEW i \in {TIMER, KEYBOARD, MOUSE}, NEW p \in {"handler", "eoi"}
  PROVE  /\ Started(i, p) \in Frame
         /\ Started(i, p).irq = i /\ Started(i, p).at = p /\ Started(i, p).key = 0
  BY BoundsAssumption DEF Started, Frame

(* A frame that goes on keeps the rest of what it holds.                   *)
LEMMA GoesOn ==
  ASSUME NEW f \in Frame, NEW p \in {"handler", "text", "click", "ownEoi", "eoi"}
  PROVE  LET g == [f EXCEPT !.at = p] IN
         g \in Frame /\ g.irq = f.irq /\ g.at = p /\ g.key = f.key /\ g.shift = f.shift
  BY DEF Frame

LEMMA GoesTo ==
  ASSUME stack \in Seq(Frame), stack # <<>>,
         NEW p \in {"handler", "text", "click", "ownEoi", "eoi"}, Goto(p)
  PROVE  \E g \in Frame : /\ stack' \in Seq(Frame) /\ Replaced(g)
                          /\ g.irq = Top.irq /\ g.at = p /\ g.key = Top.key /\ g.shift = Top.shift
  <1> DEFINE g == [Top EXCEPT !.at = p]
  <1>1. g \in Frame /\ g.irq = Top.irq /\ g.at = p /\ g.key = Top.key /\ g.shift = Top.shift
    BY TopFrame, GoesOn
  <1>2. stack' = Append(Under, g)
    BY DEF Goto
  <1> HIDE DEF g
  <1> QED BY <1>1, <1>2, ReplacesTop

-----------------------------------------------------------------------------
(* Types, and who finds what in the 8042's buffer                          *)

USE DEF TIMER, KEYBOARD, CASCADE, MOUSE

(* A handler is at its first instruction only while it is the running one, *)
(* with interrupts disabled.                                               *)
FirstOnTop == \A n \in 1 .. Len(stack) : stack[n].at = "handler" => n = Len(stack) /\ ~ iflag

HandlingKey == \E n \in 1 .. Len(stack) : stack[n].irq = KEYBOARD /\ stack[n].at = "handler"

FromKeyboard == outbuf # NoByte /\ outbuf.from = KEYBOARD
FromMouse == outbuf # NoByte /\ outbuf.from = MOUSE

(* Each byte of the keyboard is requested for once, and is there until its *)
(* handler reads it; each byte of the mouse is the one its handler is at.  *)
Routed ==
  /\ KEYBOARD \in irr \/ HandlingKey => FromKeyboard
  /\ ~ (KEYBOARD \in irr /\ HandlingKey)
  /\ FromKeyboard => outbuf.key = typed

InStep ==
  /\ FromMouse => outbuf.index = cycle /\ moved % 3 = (cycle + 1) % 3
  /\ ~ FromMouse => moved % 3 = cycle

KeysTyped == \A n \in 1 .. Len(stack) : Posting(stack[n]) => stack[n].key \in 1 .. typed

PathInv == TypeOK /\ FirstOnTop /\ Routed /\ InStep /\ KeysTyped

LEMMA ByteFields ==
  ASSUME TypeOK, outbuf # NoByte
  PROVE  /\ outbuf.from \in {KEYBOARD, MOUSE}
         /\ outbuf.from = KEYBOARD => outbuf.key \in 1 .. MaxKeys /\ outbuf.kind \in KeyKinds
         /\ outbuf.from = MOUSE => outbuf.index \in 0 .. 2 /\ outbuf.left \in BOOLEAN
  BY DEF TypeOK, Byte

LEMMA PostedTyped ==
  ASSUME TypeOK, NEW e \in Event, pending' = Q!Posted(e)
  PROVE  pending' \in Seq(Event) /\ Len(pending') <= QueueSize
  <1>1. pending \in Seq(Event) /\ Len(pending) \in Nat /\ Len(pending) <= QueueSize /\ QueueSize \in Nat \ {0}
    BY BoundsAssumption DEF TypeOK
  <1>2. PICK q \in Seq(Event) : pending' = Append(q, e) /\ Len(q) \in Nat /\ Len(q) < QueueSize
    <2>1. CASE Len(pending) >= QueueSize
      <3>1. pending # <<>>
        BY <1>1, <2>1
      <3> DEFINE rest == Tail(pending)
      <3>2. rest \in Seq(Event) /\ Len(rest) = Len(pending) - 1
        BY <1>1, <3>1, HeadTailProperties
      <3>3. pending' = Append(rest, e)
        BY <2>1 DEF Q!Posted
      <3> HIDE DEF rest
      <3> QED BY <1>1, <2>1, <3>2, <3>3
    <2>2. CASE ~ (Len(pending) >= QueueSize)
      <3>1. pending' = Append(pending, e)
        BY <2>2 DEF Q!Posted
      <3> QED BY <1>1, <2>2, <3>1
    <2> QED BY <2>1, <2>2
  <1>3. pending' \in Seq(Event) /\ Len(pending') = Len(q) + 1
    BY <1>2, AppendProperties
  <1> QED BY <1>1, <1>2, <1>3

LEMMA PostTyped ==
  ASSUME TypeOK, NEW e \in Event, Q!Post(e)
  PROVE  pending' \in Seq(Event) /\ Len(pending') <= QueueSize /\ polled' \in Event \cup {NoEvent}
  BY PostedTyped DEF Q!Post, TypeOK

LEMMA EoiSubset == \A i, bits : PicSendEoi(i, bits) \subseteq bits
  BY DEF PicSendEoi, EoiMaster

LEMMA DevicesKeep ==
  ASSUME PathInv,
         \/ TimerPulse \/ (\E kind \in KeyKinds : KeyByte(kind)) \/ (\E left \in BOOLEAN : MouseByte(left))
  PROVE  PathInv'
  <1>1. CASE TimerPulse
    BY <1>1 DEF TimerPulse, devices, drivers, queue, history, PathInv, TypeOK, FirstOnTop, Routed,
                HandlingKey, FromKeyboard, FromMouse, InStep, KeysTyped, Posting
  <1>2. ASSUME NEW kind \in KeyKinds, KeyByte(kind) PROVE PathInv'
    <2>1. /\ typed \in Nat /\ typed' = typed + 1 /\ typed' \in 1 .. MaxKeys /\ outbuf = NoByte
          /\ outbuf' = [from |-> KEYBOARD, key |-> typed', kind |-> kind]
          /\ irr' = irr \cup {KEYBOARD}
          /\ UNCHANGED <<isr, iflag, stack, moved, ticks, shift, cycle, buttons, pending, polled, loop, stolen, texts>>
      BY <1>2, BoundsAssumption DEF KeyByte, drivers, queue, history, PathInv, TypeOK
    <2>2. outbuf' \in Byte /\ outbuf' # NoByte
      BY <2>1, ByteAssumption DEF Byte
    <2>3. TypeOK'
      BY <2>1, <2>2 DEF PathInv, TypeOK
    <2>4. FirstOnTop' /\ Routed' /\ InStep'
      BY <2>1, <2>2 DEF PathInv, FirstOnTop, Routed, HandlingKey, FromKeyboard, FromMouse, InStep
    <2>5. KeysTyped'
      BY <2>1 DEF PathInv, KeysTyped, Posting
    <2> QED BY <2>3, <2>4, <2>5 DEF PathInv
  <1>3. ASSUME NEW left \in BOOLEAN, MouseByte(left) PROVE PathInv'
    <2>1. /\ moved \in Nat /\ moved' = moved + 1 /\ moved' \in 0 .. MaxMouseBytes /\ outbuf = NoByte
          /\ outbuf' = [from |-> MOUSE, index |-> moved % 3, left |-> left]
          /\ irr' = irr \cup {MOUSE}
          /\ UNCHANGED <<isr, iflag, stack, typed, ticks, shift, cycle, buttons, pending, polled, loop, stolen, texts>>
      BY <1>3, BoundsAssumption DEF MouseByte, drivers, queue, history, PathInv, TypeOK
    <2>2. outbuf' \in Byte /\ outbuf' # NoByte
      BY <2>1, ByteAssumption DEF Byte
    <2>3. TypeOK'
      BY <2>1, <2>2 DEF PathInv, TypeOK
    <2>4. FirstOnTop' /\ Routed' /\ KeysTyped'
      BY <2>1, <2>2 DEF PathInv, FirstOnTop, Routed, HandlingKey, FromKeyboard, KeysTyped, Posting
    <2>5. moved % 3 = cycle /\ (moved + 1) % 3 = ((moved % 3) + 1) % 3
      BY <2>1 DEF PathInv, InStep, FromMouse
    <2>6. InStep'
      BY <2>1, <2>2, <2>5 DEF InStep, FromMouse
    <2> QED BY <2>3, <2>4, <2>6 DEF PathInv
  <1> QED BY <1>1, <1>2, <1>3

LEMMA InterruptKeeps ==
  ASSUME PathInv, NEW i \in {TIMER, KEYBOARD, MOUSE}, Interrupt(i)
  PROVE  PathInv'
  <1> DEFINE f == Started(i, "handler")
  <1>1. f \in Frame /\ f.irq = i /\ f.at = "handler"
    BY StartedFrame
  <1>2. /\ iflag /\ ~ iflag' /\ i \in irr /\ irr' = irr \ {i}
        /\ isr' \subseteq isr \cup {i, CASCADE}
        /\ loop' \in {loop, "drain"} /\ stack' = Append(stack, f)
        /\ UNCHANGED <<outbuf, typed, moved, ticks, shift, cycle, buttons, pending, polled, stolen, texts>>
    BY DEF Interrupt, devices, drivers, queue, history, Master
  <1> HIDE DEF f
  <1>3. stack' \in Seq(Frame) /\ Pushed(f) /\ Len(stack) \in Nat
    BY <1>1, <1>2, PushesFrame DEF PathInv, TypeOK
  <1>4. TypeOK'
    <2>1. irr' \subseteq {TIMER, KEYBOARD, MOUSE} /\ isr' \subseteq Master \cup {MOUSE}
      BY <1>2 DEF PathInv, TypeOK, Master
    <2>2. iflag' \in BOOLEAN /\ loop' \in {"hlt", "drain", "handle", "frame"}
      BY <1>2, Zenon DEF PathInv, TypeOK, Interrupt
    <2> QED BY <1>2, <1>3, <2>1, <2>2, Zenon DEF PathInv, TypeOK
  <1>5. \A n \in 1 .. Len(stack) : stack[n].at # "handler"
    BY <1>2 DEF PathInv, FirstOnTop
  <1>6. FirstOnTop' /\ KeysTyped'
    BY <1>1, <1>2, <1>3, <1>5 DEF PathInv, FirstOnTop, KeysTyped, Posting, Pushed
  <1>7. HandlingKey' => i = KEYBOARD
    BY <1>1, <1>3, <1>5 DEF HandlingKey, Pushed
  <1>8. Routed' /\ InStep'
    BY <1>2, <1>7 DEF PathInv, Routed, FromKeyboard, FromMouse, InStep
  <1> QED BY <1>4, <1>6, <1>8 DEF PathInv

(* What every step of a handler that stays on the stack has in common.     *)
LEMMA PathFrom ==
  ASSUME PathInv, TypeOK', NEW g, Len(stack) \in Nat \ {0}, Replaced(g), g.at # "handler",
         UNCHANGED <<irr, typed, moved>>,
         Posting(g) => g.key \in 1 .. typed,
         FromKeyboard' => FromKeyboard /\ outbuf' = outbuf,
         KEYBOARD \in irr => FromKeyboard',
         InStep'
  PROVE  PathInv'
  <1>1. FirstOnTop'
    BY DEF PathInv, FirstOnTop, Replaced
  <1>2. ~ HandlingKey'
    BY DEF PathInv, FirstOnTop, HandlingKey, Replaced
  <1>3. Routed'
    BY <1>2 DEF PathInv, Routed
  <1>4. KeysTyped'
    BY DEF PathInv, KeysTyped, Posting, Replaced
  <1> QED BY <1>1, <1>3, <1>4 DEF PathInv

LEMMA RunningTop ==
  ASSUME TypeOK, stack # <<>>
  PROVE  /\ Len(stack) \in Nat \ {0} /\ Len(stack) \in 1 .. Len(stack)
         /\ Top = stack[Len(stack)] /\ Top \in Frame
  BY TopFrame DEF TypeOK

LEMMA TimerKeeps ==
  ASSUME PathInv, TimerHandler
  PROVE  PathInv'
  <1>1. /\ stack # <<>> /\ Goto("ownEoi") /\ ticks' = (ticks + 1) % TickDivider
        /\ UNCHANGED <<irr, isr, outbuf, typed, moved, shift, cycle, buttons, loop, stolen, texts>>
    BY DEF TimerHandler, At, Running, devices, history
  <1>2. PICK g \in Frame : stack' \in Seq(Frame) /\ Replaced(g) /\ g.at = "ownEoi"
    BY <1>1, GoesTo DEF PathInv, TypeOK
  <1>3. TypeOK'
    <2>1. /\ pending' \in Seq(Event) /\ Len(pending') <= QueueSize
          /\ polled' \in Event \cup {NoEvent} /\ iflag' \in BOOLEAN
      <3>1. CASE ticks' = 0
        BY <3>1, PostTyped DEF TimerHandler, PathInv, Event
      <3>2. CASE ticks' # 0
        BY <3>2, Zenon DEF TimerHandler, PathInv, TypeOK, queue
      <3> QED BY <3>1, <3>2
    <2>2. ticks' \in 0 .. TickDivider - 1
      BY <1>1, BoundsAssumption DEF PathInv, TypeOK
    <2> QED BY <1>1, <1>2, <2>1, <2>2, Zenon DEF PathInv, TypeOK
  <1>4. InStep' /\ (FromKeyboard' <=> FromKeyboard)
    BY <1>1 DEF PathInv, InStep, FromMouse, FromKeyboard
  <1>5. Len(stack) \in Nat \ {0} /\ ~ Posting(g) /\ (KEYBOARD \in irr => FromKeyboard)
    BY <1>1, <1>2, RunningTop DEF PathInv, Routed, Posting
  <1> QED BY <1>1, <1>2, <1>3, <1>4, <1>5, PathFrom

(* keyboard_handler finds a byte of the keyboard, and leaves its frame.    *)
LEMMA KeyRead ==
  ASSUME PathInv, KeyboardHandler
  PROVE  /\ stack # <<>> /\ Len(stack) \in Nat \ {0} /\ HandlingKey
         /\ FromKeyboard /\ KEYBOARD \notin irr /\ outbuf.key = typed /\ outbuf.key \in 1 .. MaxKeys
         /\ outbuf' = NoByte /\ iflag' = TRUE /\ shift' \in BOOLEAN
         /\ \E e \in Event : Q!Post(e)
         /\ UNCHANGED <<irr, isr, typed, moved, ticks, cycle, buttons, loop, stolen, texts>>
         /\ \E g \in Frame : /\ stack' \in Seq(Frame) /\ Replaced(g)
                             /\ g.irq = Top.irq /\ g.at \in {"text", "ownEoi"}
                             /\ g.key = outbuf.key /\ g.shift = shift'
  <1>1. /\ stack # <<>> /\ Top.irq = KEYBOARD /\ Top.at = "handler"
        /\ UNCHANGED <<irr, isr, typed, moved, ticks, cycle, buttons, loop, stolen, texts>>
    BY DEF KeyboardHandler, At, Running, history
  <1>2. Len(stack) \in Nat \ {0} /\ Top \in Frame /\ HandlingKey
    BY <1>1, RunningTop DEF PathInv, HandlingKey
  <1>3. FromKeyboard /\ KEYBOARD \notin irr /\ outbuf.key = typed
    BY <1>2 DEF PathInv, Routed
  <1>4. outbuf.key \in 1 .. MaxKeys
    BY <1>3, ByteFields DEF PathInv, FromKeyboard
  <1> DEFINE p == IF outbuf.kind = "press" THEN "text" ELSE "ownEoi"
             g == [Top EXCEPT !.at = p, !.key = outbuf.key, !.shift = shift']
  <1>5. /\ outbuf' = NoByte /\ iflag' = TRUE /\ stack' = Append(Under, g)
        /\ shift' = CASE outbuf.kind = "shiftDown" -> TRUE
                       [] outbuf.kind = "shiftUp" -> FALSE
                       [] OTHER -> shift
        /\ \E e \in Event : Q!Post(e)
    BY <1>3, Zenon DEF KeyboardHandler, FromKeyboard, Event
  <1>6. shift' \in BOOLEAN
    BY <1>5, Zenon DEF PathInv, TypeOK
  <1>7. /\ g \in Frame /\ g.irq = Top.irq /\ g.at \in {"text", "ownEoi"}
        /\ g.key = outbuf.key /\ g.shift = shift'
    <2>1. outbuf.key \in 0 .. MaxKeys /\ p \in {"text", "ownEoi"}
      BY <1>4, BoundsAssumption
    <2> HIDE DEF p
    <2> QED BY <1>2, <1>6, <2>1 DEF Frame
  <1> HIDE DEF g
  <1>8. stack' \in Seq(Frame) /\ Replaced(g)
    BY <1>1, <1>5, <1>7, ReplacesTop DEF PathInv, TypeOK
  <1> QED BY <1>1, <1>2, <1>3, <1>4, <1>5, <1>6, <1>7, <1>8

LEMMA KeyboardKeeps ==
  ASSUME PathInv, KeyboardHandler
  PROVE  PathInv'
  <1>1. /\ FromKeyboard /\ KEYBOARD \notin irr /\ outbuf.key = typed /\ outbuf.key \in 1 .. MaxKeys
        /\ outbuf' = NoByte /\ iflag' = TRUE /\ shift' \in BOOLEAN /\ Len(stack) \in Nat \ {0}
        /\ UNCHANGED <<irr, isr, typed, moved, ticks, cycle, buttons, loop, stolen, texts>>
    BY KeyRead
  <1>2. PICK g \in Frame : /\ stack' \in Seq(Frame) /\ Replaced(g)
                           /\ g.at # "handler" /\ g.key = outbuf.key
    BY KeyRead
  <1>3. TypeOK'
    <2>1. /\ pending' \in Seq(Event) /\ Len(pending') <= QueueSize
          /\ polled' \in Event \cup {NoEvent}
      BY KeyRead, PostTyped DEF PathInv
    <2> QED BY <1>1, <1>2, <2>1, Zenon DEF PathInv, TypeOK
  <1>4. ~ FromKeyboard' /\ InStep'
    BY <1>1 DEF PathInv, InStep, FromMouse, FromKeyboard
  <1>5. g.key \in 1 .. typed
    BY <1>1, <1>2
  <1> QED BY <1>1, <1>2, <1>3, <1>4, <1>5, PathFrom

LEMMA KeyboardTextKeeps ==
  ASSUME PathInv, KeyboardText
  PROVE  PathInv'
  <1>1. /\ stack # <<>> /\ Top.irq = KEYBOARD /\ Top.at = "text" /\ Goto("ownEoi") /\ iflag' = TRUE
        /\ texts' = Append(texts, [key |-> Top.key, shift |-> shift, pressedWith |-> Top.shift])
        /\ UNCHANGED <<irr, isr, outbuf, typed, moved, ticks, shift, cycle, buttons, loop, stolen>>
    BY DEF KeyboardText, At, Running, devices, drivers
  <1>2. Len(stack) \in Nat \ {0} /\ Top \in Frame /\ Top.key \in 1 .. typed
    BY <1>1, RunningTop DEF PathInv, KeysTyped, Posting
  <1>3. PICK g \in Frame : stack' \in Seq(Frame) /\ Replaced(g) /\ g.at = "ownEoi"
    BY <1>1, GoesTo DEF PathInv, TypeOK
  <1>4. TypeOK'
    <2>1. /\ pending' \in Seq(Event) /\ Len(pending') <= QueueSize
          /\ polled' \in Event \cup {NoEvent}
      BY PostTyped DEF KeyboardText, PathInv, Event
    <2>2. [key |-> Top.key, shift |-> shift, pressedWith |-> Top.shift]
            \in [key : 1 .. MaxKeys, shift : BOOLEAN, pressedWith : BOOLEAN]
      <3>1. Top.key \in 1 .. MaxKeys
        BY <1>2, BoundsAssumption DEF PathInv, TypeOK
      <3> QED BY <1>2, <3>1 DEF PathInv, TypeOK, Frame
    <2>3. texts' \in Seq([key : 1 .. MaxKeys, shift : BOOLEAN, pressedWith : BOOLEAN])
      BY <1>1, <2>2, AppendProperties DEF PathInv, TypeOK
    <2> QED BY <1>1, <1>3, <2>1, <2>3, Zenon DEF PathInv, TypeOK
  <1>5. InStep' /\ (FromKeyboard' <=> FromKeyboard)
    BY <1>1 DEF PathInv, InStep, FromMouse, FromKeyboard
  <1>6. ~ Posting(g) /\ (KEYBOARD \in irr => FromKeyboard)
    BY <1>3 DEF PathInv, Routed, Posting
  <1> QED BY <1>1, <1>2, <1>3, <1>4, <1>5, <1>6, PathFrom

LEMMA MouseKeeps ==
  ASSUME PathInv, MouseHandler \/ MouseClick
  PROVE  PathInv'
  <1>1. /\ stack # <<>> /\ Top.irq = MOUSE
        /\ UNCHANGED <<irr, isr, typed, moved, ticks, shift, loop, stolen, texts>>
    BY DEF MouseHandler, MouseClick, At, Running, devices, drivers, history
  <1>2. Len(stack) \in Nat \ {0} /\ Top \in Frame
    BY <1>1, RunningTop DEF PathInv
  <1>3. PICK p \in {"click", "ownEoi", "eoi"} : Goto(p)
    BY Zenon DEF MouseHandler, MouseClick
  <1>4. PICK g \in Frame : stack' \in Seq(Frame) /\ Replaced(g) /\ g.irq = MOUSE /\ g.at = p
    BY <1>1, <1>3, GoesTo DEF PathInv, TypeOK
  <1>5. /\ outbuf' \in {outbuf, NoByte} /\ cycle' \in 0 .. 2 /\ buttons' \in BOOLEAN /\ iflag' \in BOOLEAN
        /\ UNCHANGED queue \/ \E e \in Event : Q!Post(e)
    <2>1. CASE MouseClick
      BY <2>1, Zenon DEF MouseClick, PathInv, TypeOK, devices, drivers, Event
    <2>2. CASE MouseHandler /\ ~ FromMouse
      BY <2>2, Zenon DEF MouseHandler, PathInv, TypeOK, FromMouse
    <2>3. CASE MouseHandler /\ FromMouse /\ cycle < 2
      <3>1. /\ outbuf' = NoByte /\ cycle' = cycle + 1 /\ UNCHANGED <<buttons, queue, iflag>>
        BY <2>3 DEF MouseHandler, FromMouse
      <3>2. cycle' \in 0 .. 2
        BY <2>3, <3>1 DEF PathInv, TypeOK
      <3> QED BY <3>1, <3>2, Zenon DEF PathInv, TypeOK
    <2>4. CASE MouseHandler /\ FromMouse /\ ~ (cycle < 2)
      <3>1. outbuf' = NoByte /\ cycle' = 0 /\ buttons' = outbuf.left /\ iflag' = TRUE /\ Q!Post("MOUSE_MOVE")
        BY <2>4, Zenon DEF MouseHandler, FromMouse
      <3>2. outbuf.left \in BOOLEAN
        BY <2>4, ByteFields DEF FromMouse, PathInv
      <3>3. 0 \in 0 .. 2 /\ "MOUSE_MOVE" \in Event
        BY DEF Event
      <3> QED BY <3>1, <3>2, <3>3, Zenon
    <2> QED BY <2>1, <2>2, <2>3, <2>4
  <1>6. TypeOK'
    <2>1. /\ pending' \in Seq(Event) /\ Len(pending') <= QueueSize
          /\ polled' \in Event \cup {NoEvent}
      <3>1. CASE UNCHANGED queue
        BY <3>1 DEF PathInv, TypeOK, queue
      <3> QED BY <1>5, <3>1, PostTyped DEF PathInv
    <2> QED BY <1>1, <1>4, <1>5, <2>1, Zenon DEF PathInv, TypeOK
  <1>7. InStep' /\ (FromKeyboard' => FromKeyboard /\ outbuf' = outbuf) /\ (FromKeyboard => FromKeyboard')
    <2>1. CASE ~ FromMouse \/ MouseClick
      <3>1. outbuf' = outbuf /\ cycle' = cycle
        BY <2>1 DEF MouseHandler, MouseClick, FromMouse, devices, drivers, At, Running
      <3> QED BY <1>1, <3>1 DEF PathInv, InStep, FromMouse, FromKeyboard
    <2>2. CASE MouseHandler /\ FromMouse
      <3>1. outbuf' = NoByte /\ cycle' = IF cycle < 2 THEN cycle + 1 ELSE 0
        BY <2>2 DEF MouseHandler, FromMouse
      <3>2. moved % 3 = (cycle + 1) % 3 /\ cycle \in 0 .. 2
        BY <2>2 DEF PathInv, InStep, TypeOK
      <3>3. moved' % 3 = cycle'
        BY <1>1, <3>1, <3>2
      <3> QED BY <2>2, <3>1, <3>3 DEF InStep, FromMouse, FromKeyboard
    <2> QED BY <2>1, <2>2
  <1>8. ~ Posting(g) /\ (KEYBOARD \in irr => FromKeyboard) /\ g.at # "handler"
    BY <1>3, <1>4 DEF PathInv, Routed, Posting
  <1> QED BY <1>1, <1>2, <1>4, <1>6, <1>7, <1>8, PathFrom

LEMMA EoiKeeps ==
  ASSUME PathInv, HandlerEoi \/ IrqHandlerEoi
  PROVE  PathInv'
  <1>1. /\ stack # <<>> /\ isr' \subseteq isr /\ stolen' \in BOOLEAN
        /\ UNCHANGED <<irr, outbuf, typed, moved, ticks, shift, cycle, buttons, pending, polled, loop, texts>>
    <2>1. SendEoi /\ stack # <<>>
      BY DEF HandlerEoi, IrqHandlerEoi
    <2>2. stolen' \in BOOLEAN
      BY <2>1, Zenon DEF SendEoi
    <2> QED BY <2>1, <2>2, EoiSubset DEF SendEoi, devices, drivers, queue
  <1>2. Len(stack) \in Nat \ {0} /\ Top \in Frame
    BY <1>1, RunningTop DEF PathInv
  <1>3. InStep' /\ (FromKeyboard' <=> FromKeyboard) /\ (KEYBOARD \in irr => FromKeyboard)
    BY <1>1 DEF PathInv, Routed, InStep, FromMouse, FromKeyboard
  <1>4. CASE HandlerEoi
    <2> DEFINE g == Started(Top.irq, "eoi")
    <2>1. g \in Frame /\ g.at = "eoi"
      <3>1. Top.irq \in {TIMER, KEYBOARD, MOUSE}
        BY <1>2 DEF Frame
      <3> QED BY <3>1, StartedFrame
    <2>2. stack' = Append(Under, g) /\ iflag' = iflag
      BY <1>4 DEF HandlerEoi
    <2> HIDE DEF g
    <2>3. stack' \in Seq(Frame) /\ Replaced(g)
      BY <1>1, <2>1, <2>2, ReplacesTop DEF PathInv, TypeOK
    <2>4. TypeOK'
      BY <1>1, <2>2, <2>3 DEF PathInv, TypeOK
    <2>5. ~ Posting(g)
      BY <2>1 DEF Posting
    <2> QED BY <1>1, <1>2, <1>3, <2>1, <2>3, <2>4, <2>5, PathFrom
  <1>5. CASE IrqHandlerEoi
    <2>1. stack' \in Seq(Frame) /\ Popped /\ iflag' = TRUE
      BY <1>1, <1>5, PopsFrame DEF IrqHandlerEoi, PathInv, TypeOK
    <2>2. TypeOK'
      BY <1>1, <2>1 DEF PathInv, TypeOK
    <2>3. \A n \in 1 .. Len(stack') : n \in 1 .. Len(stack) /\ n # Len(stack) /\ stack'[n] = stack[n]
      BY <1>2, <2>1 DEF Popped
    <2>4. FirstOnTop' /\ ~ HandlingKey' /\ KeysTyped'
      BY <1>1, <2>3 DEF PathInv, FirstOnTop, HandlingKey, KeysTyped, Posting
    <2>5. Routed'
      BY <1>1, <1>3, <2>4 DEF PathInv, Routed
    <2> QED BY <1>3, <2>2, <2>4, <2>5 DEF PathInv
  <1> QED BY <1>4, <1>5

LEMMA LoopKeeps ==
  ASSUME PathInv, MainLoop \/ UNCHANGED vars
  PROVE  PathInv'
  <1>1. UNCHANGED <<irr, isr, iflag, stack, outbuf, typed, moved, ticks, shift, cycle, buttons, stolen, texts>>
    BY DEF MainLoop, LoopPoll, LoopHandle, LoopFrame, vars, devices, drivers, history
  <1>2. loop' \in {"hlt", "drain", "handle", "frame"}
    BY DEF MainLoop, LoopPoll, LoopHandle, LoopFrame, vars, PathInv, TypeOK
  <1>3. /\ pending' \in Seq(Event) /\ Len(pending') <= QueueSize
        /\ polled' \in Event \cup {NoEvent}
    <2>1. CASE UNCHANGED queue
      BY <2>1 DEF PathInv, TypeOK, queue
    <2>2. CASE Q!Poll
      <3>1. pending \in Seq(Event) /\ pending # <<>> /\ Len(pending) <= QueueSize
            /\ Len(pending) \in Nat /\ QueueSize \in Nat
        BY <2>2, BoundsAssumption DEF Q!Poll, PathInv, TypeOK
      <3>2. /\ Head(pending) \in Event /\ Tail(pending) \in Seq(Event)
            /\ Len(Tail(pending)) = Len(pending) - 1
        BY <3>1, HeadTailProperties
      <3>3. pending' = Tail(pending) /\ polled' = Head(pending)
        BY <2>2 DEF Q!Poll
      <3> QED BY <3>1, <3>2, <3>3
    <2>3. CASE LoopHandle
      <3>1. polled' = NoEvent
        BY <2>3 DEF LoopHandle
      <3>2. CASE pending' = pending
        BY <3>1, <3>2 DEF PathInv, TypeOK
      <3>3. CASE pending' = Q!Posted("FOCUS_CHANGE")
        BY <3>1, <3>3, PostedTyped DEF PathInv, Event
      <3> QED BY <2>3, <3>1, <3>2, <3>3 DEF LoopHandle
    <2> QED BY <2>1, <2>2, <2>3 DEF MainLoop, LoopPoll, LoopFrame, vars
  <1>4. TypeOK'
    BY <1>1, <1>2, <1>3 DEF PathInv, TypeOK
  <1> QED BY <1>1, <1>4 DEF PathInv, FirstOnTop, Routed, HandlingKey, FromKeyboard, FromMouse,
                            InStep, KeysTyped, Posting

LEMMA PathKept == PathInv /\ [Next]_vars => PathInv'
  BY DevicesKeep, InterruptKeeps, TimerKeeps, KeyboardKeeps, KeyboardTextKeeps, MouseKeeps,
     EoiKeeps, LoopKeeps DEF Next, Handler

LEMMA PathStarts == Init => PathInv
  <1> SUFFICES ASSUME Init PROVE PathInv
    OBVIOUS
  <1>1. Len(stack) = 0 /\ \A S : stack \in Seq(S) /\ pending \in Seq(S) /\ texts \in Seq(S)
    BY DEF Init
  <1>2. /\ 0 \in 0 .. TickDivider - 1 /\ 0 \in 0 .. MaxKeys /\ 0 \in 0 .. MaxMouseBytes
        /\ 0 \in 0 .. 2 /\ Len(pending) <= QueueSize
    BY BoundsAssumption DEF Init
  <1>3. TypeOK
    BY <1>1, <1>2, Zenon DEF Init, TypeOK
  <1>4. FirstOnTop /\ Routed /\ InStep /\ KeysTyped
    BY <1>1 DEF Init, FirstOnTop, Routed, HandlingKey, FromKeyboard, FromMouse, InStep, KeysTyped
  <1> QED BY <1>3, <1>4 DEF PathInv

(* Every variable of the input path has its type.                          *)
THEOREM PathTypes == Spec => []TypeOK
  <1>1. PathInv => TypeOK
    BY DEF PathInv
  <1> QED BY <1>1, PathStarts, PathKept, PTL DEF Spec

(* However interrupts nest in or around the mouse handler, it is never out *)
(* of step with the three-byte packets of the mouse.                       *)
THEOREM MouseStaysInSync == Spec => []MouseInSync
  <1>1. PathInv => MouseInSync
    BY DEF PathInv, InStep, FromMouse, MouseInSync
  <1> QED BY <1>1, PathStarts, PathKept, PTL DEF Spec

-----------------------------------------------------------------------------
(* Steps that leave the in-service bits, and steps that retire one         *)

(* How many bits of the master are in service.                             *)
Bits(s) == (IF TIMER \in s THEN 1 ELSE 0) + (IF KEYBOARD \in s THEN 1 ELSE 0)
           + (IF CASCADE \in s THEN 1 ELSE 0)

LEMMA EoiRetires ==
  ASSUME NEW bits \in SUBSET (Master \cup {MOUSE})
  PROVE  /\ EoiMaster(bits) \subseteq bits
         /\ MOUSE \in EoiMaster(bits) <=> MOUSE \in bits
         /\ Bits(EoiMaster(bits)) = IF Bits(bits) = 0 THEN 0 ELSE Bits(bits) - 1
  <1>1. EoiMaster(bits) \subseteq bits /\ (MOUSE \in EoiMaster(bits) <=> MOUSE \in bits)
    BY DEF EoiMaster, Master
  <1>2. CASE TIMER \in bits
    BY <1>2 DEF EoiMaster, Master, Bits
  <1>3. CASE TIMER \notin bits /\ KEYBOARD \in bits
    BY <1>3 DEF EoiMaster, Master, Bits
  <1>4. CASE TIMER \notin bits /\ KEYBOARD \notin bits
    BY <1>4 DEF EoiMaster, Master, Bits
  <1> QED BY <1>1, <1>2, <1>3, <1>4

(* An EOI of a handler: one bit of the master goes, and MOUSE's with the   *)
(* mouse's alone.                                                          *)
LEMMA SendEoiIs ==
  ASSUME TypeOK, stack # <<>>, SendEoi
  PROVE  /\ MOUSE \in isr' <=> MOUSE \in isr /\ Top.irq # MOUSE
         /\ Bits(isr') = IF Bits(isr) = 0 THEN 0 ELSE Bits(isr) - 1
  <1> DEFINE bits == IF Top.irq >= 8 THEN isr \ {MOUSE} ELSE isr
  <1>1. bits \in SUBSET (Master \cup {MOUSE}) /\ Bits(bits) = Bits(isr)
    BY DEF TypeOK, Bits
  <1>2. isr' = EoiMaster(bits)
    BY DEF SendEoi, PicSendEoi
  <1>3. MOUSE \in bits <=> MOUSE \in isr /\ Top.irq # MOUSE
    BY RunningTop DEF Frame
  <1> HIDE DEF bits
  <1> QED BY <1>1, <1>2, <1>3, EoiRetires

-----------------------------------------------------------------------------
(* Mouse handlers do not nest, and nothing stays in service                *)

MouseHeld == \A n \in 1 .. Len(stack) : stack[n].irq = MOUSE /\ stack[n].at # "eoi" => MOUSE \in isr

Alone == \A m, n \in 1 .. Len(stack) :
           m < n /\ stack[m].irq = MOUSE /\ stack[n].irq = MOUSE => stack[m].at = "eoi"

MouseServed == MOUSE \in isr => \E n \in 1 .. Len(stack) : stack[n].irq = MOUSE

(* Every handler on the stack still owes an EOI, so there are never more   *)
(* bits in service than handlers, whoever retired whose.                   *)
ReturnInv ==
  /\ MouseHeld /\ Alone /\ MouseServed
  /\ Bits(isr) <= Len(stack)
  /\ Len(stack) = 0 => iflag

LEMMA InterruptReturns ==
  ASSUME TypeOK, ReturnInv, NEW i \in {TIMER, KEYBOARD, MOUSE}, Interrupt(i)
  PROVE  ReturnInv'
  <1> DEFINE f == Started(i, "handler")
  <1>1. f \in Frame /\ f.irq = i /\ f.at = "handler"
    BY StartedFrame
  <1>2. /\ isr' = isr \cup (IF i \in Master THEN {i} ELSE {CASCADE, i})
        /\ stack' = Append(stack, f) /\ ~ Masked(i)
    BY DEF Interrupt
  <1> HIDE DEF f
  <1>3. Pushed(f) /\ Len(stack) \in Nat
    BY <1>1, <1>2, PushesFrame DEF TypeOK
  <1>4. i = MOUSE => \A n \in 1 .. Len(stack) : stack[n].irq = MOUSE => stack[n].at = "eoi"
    BY <1>2 DEF Masked, Master, ReturnInv, MouseHeld
  <1>5. MouseHeld' /\ MouseServed'
    BY <1>1, <1>2, <1>3 DEF Pushed, ReturnInv, MouseHeld, MouseServed, Master
  <1>6. Alone'
    BY <1>1, <1>3, <1>4 DEF Pushed, ReturnInv, Alone
  <1>7. Bits(isr') <= Bits(isr) + 1 /\ Bits(isr) \in Nat /\ Bits(isr') \in Nat
    BY <1>2 DEF Bits, Master
  <1>8. Len(stack') = Len(stack) + 1
    BY <1>3 DEF Pushed
  <1>9. Bits(isr') <= Len(stack') /\ Len(stack') # 0
    BY <1>3, <1>7, <1>8 DEF ReturnInv
  <1> QED BY <1>5, <1>6, <1>9 DEF ReturnInv, Bits

(* A handler that goes on.                                                 *)
LEMMA GoingOnReturns ==
  ASSUME TypeOK, ReturnInv, stack # <<>>, NEW g, Replaced(g), g.irq = Top.irq, g.at # "handler",
         Top.at = "eoi" => g.at = "eoi", isr' = isr
  PROVE  ReturnInv'
  <1>1. Len(stack) \in Nat \ {0} /\ Len(stack) \in 1 .. Len(stack) /\ Top = stack[Len(stack)]
    BY RunningTop
  <1>2. Len(stack') = Len(stack)
    BY DEF Replaced
  <1>3. MouseHeld' /\ MouseServed'
    BY <1>1 DEF Replaced, ReturnInv, MouseHeld, MouseServed
  <1>4. Alone'
    BY <1>1 DEF Replaced, ReturnInv, Alone
  <1> QED BY <1>1, <1>2, <1>3, <1>4 DEF ReturnInv, Bits

LEMMA EoiReturns ==
  ASSUME TypeOK, ReturnInv, HandlerEoi \/ IrqHandlerEoi
  PROVE  ReturnInv'
  <1>1. stack # <<>> /\ SendEoi
    BY DEF HandlerEoi, IrqHandlerEoi
  <1>2. /\ Len(stack) \in Nat \ {0} /\ Len(stack) \in 1 .. Len(stack)
        /\ Top = stack[Len(stack)] /\ Top \in Frame
    BY <1>1, RunningTop
  <1>3. /\ MOUSE \in isr' <=> MOUSE \in isr /\ Top.irq # MOUSE
        /\ Bits(isr') = IF Bits(isr) = 0 THEN 0 ELSE Bits(isr) - 1
    BY <1>1, SendEoiIs
  <1>4. Bits(isr) \in Nat /\ Bits(isr') \in Nat
    BY DEF Bits
  <1>5. \A n \in 1 .. Len(stack) - 1 :
          stack[n].irq = MOUSE /\ Top.irq = MOUSE => stack[n].at = "eoi"
    BY <1>2 DEF ReturnInv, Alone
  <1>6. CASE HandlerEoi
    <2> DEFINE g == Started(Top.irq, "eoi")
    <2>1. g \in Frame /\ g.irq = Top.irq /\ g.at = "eoi"
      <3>1. Top.irq \in {TIMER, KEYBOARD, MOUSE}
        BY <1>2 DEF Frame
      <3> QED BY <3>1, StartedFrame
    <2>2. stack' = Append(Under, g) /\ iflag' = iflag
      BY <1>6 DEF HandlerEoi
    <2> HIDE DEF g
    <2>3. Replaced(g)
      BY <1>1, <2>1, <2>2, ReplacesTop DEF TypeOK
    <2>4. MouseHeld'
      BY <1>2, <1>3, <1>5, <2>1, <2>3 DEF Replaced, ReturnInv, MouseHeld
    <2>5. Alone' /\ MouseServed'
      BY <1>2, <1>3, <2>1, <2>3 DEF Replaced, ReturnInv, Alone, MouseServed
    <2>6. Bits(isr') <= Len(stack') /\ Len(stack') # 0
      BY <1>2, <1>3, <1>4, <2>3 DEF Replaced, ReturnInv
    <2> QED BY <2>4, <2>5, <2>6 DEF ReturnInv, Bits
  <1>7. CASE IrqHandlerEoi
    <2>1. Popped /\ iflag'
      BY <1>1, <1>7, PopsFrame DEF IrqHandlerEoi, TypeOK
    <2>2. \A n \in 1 .. Len(stack') : n \in 1 .. Len(stack) - 1 /\ n \in 1 .. Len(stack) /\ stack'[n] = stack[n]
      BY <1>2, <2>1 DEF Popped
    <2>3. MouseHeld'
      BY <1>3, <1>5, <2>2 DEF ReturnInv, MouseHeld
    <2>4. Alone'
      BY <2>2 DEF ReturnInv, Alone
    <2>5. MouseServed'
      <3> SUFFICES ASSUME MOUSE \in isr' PROVE \E n \in 1 .. Len(stack') : stack'[n].irq = MOUSE
        BY DEF MouseServed
      <3>1. PICK n \in 1 .. Len(stack) : stack[n].irq = MOUSE
        BY <1>3 DEF ReturnInv, MouseServed
      <3>2. n \in 1 .. Len(stack) - 1 /\ n \in 1 .. Len(stack')
        BY <1>2, <1>3, <2>1, <3>1 DEF Popped
      <3> QED BY <2>1, <3>1, <3>2 DEF Popped
    <2>6. Bits(isr') <= Len(stack')
      BY <1>2, <1>3, <1>4, <2>1 DEF Popped, ReturnInv
    <2> QED BY <2>1, <2>3, <2>4, <2>5, <2>6 DEF ReturnInv, Bits
  <1> QED BY <1>6, <1>7

LEMMA SameReturns ==
  ASSUME ReturnInv, UNCHANGED <<stack, isr, iflag>>
  PROVE  ReturnInv'
  BY DEF ReturnInv, MouseHeld, Alone, MouseServed, Bits

(* The steps of a handler between its first instruction and its EOIs.      *)
HandlerBody == TimerHandler \/ KeyboardHandler \/ KeyboardText \/ MouseHandler \/ MouseClick

LEMMA BodyGoesOn ==
  ASSUME PathInv, HandlerBody
  PROVE  /\ stack # <<>> /\ Top.at \in {"handler", "text", "click"} /\ isr' = isr
         /\ \E g \in Frame : Replaced(g) /\ g.irq = Top.irq /\ g.at # "handler"
  <1>1. stack # <<>> /\ Top.at \in {"handler", "text", "click"} /\ isr' = isr
    BY DEF HandlerBody, TimerHandler, KeyboardHandler, KeyboardText, MouseHandler, MouseClick, At, Running
  <1>2. stack \in Seq(Frame) /\ Top \in Frame
    BY <1>1, RunningTop DEF PathInv, TypeOK
  <1>3. CASE KeyboardHandler
    BY <1>1, <1>3, KeyRead
  <1>4. CASE ~ KeyboardHandler
    <2>1. PICK p \in {"click", "ownEoi", "eoi"} : Goto(p)
      BY <1>4, Zenon DEF HandlerBody, TimerHandler, KeyboardText, MouseHandler, MouseClick
    <2>2. PICK g \in Frame : Replaced(g) /\ g.irq = Top.irq /\ g.at = p
      BY <1>1, <1>2, <2>1, GoesTo
    <2> QED BY <1>1, <2>1, <2>2
  <1> QED BY <1>1, <1>3, <1>4

LEMMA ReturnKept == PathInv /\ ReturnInv /\ [Next]_vars => ReturnInv'
  <1> SUFFICES ASSUME PathInv, ReturnInv, [Next]_vars PROVE ReturnInv'
    OBVIOUS
  <1>1. CASE HandlerBody
    <2>1. PICK g \in Frame : Replaced(g) /\ g.irq = Top.irq /\ g.at # "handler"
      BY <1>1, BodyGoesOn
    <2>2. TypeOK /\ stack # <<>> /\ Top.at # "eoi" /\ isr' = isr
      BY <1>1, BodyGoesOn DEF PathInv
    <2> QED BY <2>1, <2>2, GoingOnReturns
  <1>2. CASE UNCHANGED <<stack, isr, iflag>>
    BY <1>2, SameReturns
  <1>3. ASSUME NEW i \in {TIMER, KEYBOARD, MOUSE}, Interrupt(i) PROVE ReturnInv'
    BY <1>3, InterruptReturns DEF PathInv
  <1>4. CASE HandlerEoi \/ IrqHandlerEoi
    BY <1>4, EoiReturns DEF PathInv
  <1>5. \/ HandlerBody \/ HandlerEoi \/ IrqHandlerEoi \/ UNCHANGED <<stack, isr, iflag>>
        \/ \E i \in {TIMER, KEYBOARD, MOUSE} : Interrupt(i)
    BY DEF Next, Handler, HandlerBody, TimerPulse, KeyByte, MouseByte, MainLoop, LoopPoll,
           LoopHandle, LoopFrame, vars
  <1> QED BY <1>1, <1>2, <1>3, <1>4, <1>5

LEMMA ReturnStarts == Init => ReturnInv
  BY DEF Init, ReturnInv, MouseHeld, Alone, MouseServed, Bits

LEMMA NothingInService ==
  ASSUME PathInv, ReturnInv, stack = <<>>
  PROVE  isr = {} /\ iflag
  <1>1. Len(stack) = 0
    OBVIOUS
  <1>2. MOUSE \notin isr /\ Bits(isr) <= 0 /\ iflag
    BY <1>1 DEF ReturnInv, MouseServed
  <1> QED BY <1>2 DEF PathInv, TypeOK, Bits, Master

(* However deep handlers nest and whichever bits their EOIs retire, once   *)
(* the last one has returned nothing is in service and interrupts are on.  *)
THEOREM AllRetired == Spec => []PicQuiescent
  <1>1. PathInv /\ ReturnInv => PicQuiescent
    BY NothingInService DEF PicQuiescent
  <1> QED BY <1>1, PathStarts, PathKept, ReturnStarts, ReturnKept, PTL DEF Spec

(* A mouse handler is interrupted by another one only after its own EOI.   *)
THEOREM MouseAlone == Spec => []MouseNotReentered
  <1>1. PathInv /\ ReturnInv => MouseNotReentered
    <2>1. PathInv => DOMAIN stack = 1 .. Len(stack)
      BY DEF PathInv, TypeOK
    <2> QED BY <2>1 DEF ReturnInv, Alone, MouseNotReentered
  <1> QED BY <1>1, PathStarts, PathKept, ReturnStarts, ReturnKept, PTL DEF Spec

-----------------------------------------------------------------------------
(* The characters come in order                                            *)

Printable == {n \in 1 .. Len(stack) : Posting(stack[n])}

(* As long as no EOI has been stolen from it a keyboard handler keeps its  *)
(* in-service bit, and with it the line, until its last event.             *)
LineHeld ==
  /\ Printable # {} \/ HandlingKey => KEYBOARD \in isr
  /\ \A m, n \in Printable : m = n
  /\ HandlingKey => Printable = {}

(* What is typed is posted before what is typed later is even read.        *)
Ahead(key) == FromKeyboard => key < outbuf.key

KeysAhead ==
  /\ \A n \in Printable : /\ stack[n].shift = shift /\ Ahead(stack[n].key)
                          /\ \A i \in 1 .. Len(texts) : texts[i].key < stack[n].key
  /\ \A i \in 1 .. Len(texts) : texts[i].key <= typed /\ Ahead(texts[i].key)

Ordered ==
  /\ \A i, j \in 1 .. Len(texts) : i < j => texts[i].key < texts[j].key
  /\ \A i \in 1 .. Len(texts) : texts[i].shift = texts[i].pressedWith

OrderInv == ~ stolen => LineHeld /\ KeysAhead /\ Ordered

LEMMA TextKeys ==
  ASSUME TypeOK
  PROVE  /\ Len(texts) \in Nat /\ DOMAIN texts = 1 .. Len(texts)
         /\ \A i \in 1 .. Len(texts) : texts[i].key \in Nat
         /\ typed \in Nat
         /\ \A n \in 1 .. Len(stack) : stack[n].key \in Nat
  <1> DEFINE Said == [key : 1 .. MaxKeys, shift : BOOLEAN, pressedWith : BOOLEAN]
  <1>1. texts \in Seq(Said)
        /\ stack \in Seq(Frame) /\ typed \in 0 .. MaxKeys /\ MaxKeys \in Nat
    BY BoundsAssumption DEF TypeOK
  <1>2. \A i \in 1 .. Len(texts) : texts[i] \in Said
    <2> HIDE DEF Said
    <2> QED BY <1>1
  <1>3. \A n \in 1 .. Len(stack) : stack[n] \in Frame
    BY <1>1
  <1>4. Len(texts) \in Nat /\ DOMAIN texts = 1 .. Len(texts)
    <2> HIDE DEF Said
    <2> QED BY <1>1
  <1> QED BY <1>1, <1>2, <1>3, <1>4 DEF Frame

(* A step that leaves the handlers and what they have posted alone.        *)
LEMMA SameOrder ==
  ASSUME PathInv, PathInv', OrderInv, UNCHANGED <<stack, isr, shift, stolen, texts>>,
         \/ UNCHANGED <<outbuf, typed>>
         \/ outbuf = NoByte /\ typed' >= typed /\ typed' \in Nat
            /\ (FromKeyboard' => outbuf'.key > typed)
  PROVE  OrderInv'
  <1>1. CASE UNCHANGED <<outbuf, typed>>
    BY <1>1 DEF OrderInv, LineHeld, KeysAhead, Ordered, Printable, HandlingKey, Ahead, FromKeyboard
  <1>2. CASE /\ outbuf = NoByte /\ typed' >= typed /\ typed' \in Nat
             /\ (FromKeyboard' => outbuf'.key > typed)
    <2>1. (LineHeld /\ Ordered) => (LineHeld' /\ Ordered')
      BY DEF LineHeld, Ordered, Printable, HandlingKey
    <2>2. \A k \in Nat : k <= typed => k <= typed' /\ Ahead(k)'
      <3>1. FromKeyboard' => outbuf'.key \in Nat
        BY <1>2 DEF PathInv, Routed
      <3> QED BY <1>2, <3>1, TextKeys DEF Ahead, PathInv
    <2>3. \A n \in Printable : stack[n].key \in Nat /\ stack[n].key <= typed
      BY TextKeys DEF PathInv, KeysTyped, Printable
    <2>4. KeysAhead => KeysAhead'
      BY <2>2, <2>3, TextKeys DEF PathInv, KeysAhead, Printable
    <2> QED BY <2>1, <2>4 DEF OrderInv
  <1> QED BY <1>1, <1>2

(* A step of a handler that posts no character and keeps the shift state.  *)
LEMMA QuietOrder ==
  ASSUME PathInv, OrderInv, stack # <<>>, NEW g, Replaced(g), ~ Posting(g), g.at # "handler",
         ~ Posting(Top), UNCHANGED <<isr, shift, stolen, texts, typed>>,
         FromKeyboard' => FromKeyboard /\ outbuf' = outbuf
  PROVE  OrderInv'
  <1>1. Len(stack) \in Nat \ {0} /\ Len(stack) \in 1 .. Len(stack) /\ Top = stack[Len(stack)]
    BY RunningTop DEF PathInv
  <1>2. ~ HandlingKey'
    BY <1>1 DEF Replaced, HandlingKey, PathInv, FirstOnTop
  <1>3. Printable' = Printable /\ \A n \in Printable : stack'[n] = stack[n]
    BY <1>1 DEF Replaced, Printable
  <1>4. \A k : Ahead(k) => Ahead(k)'
    BY DEF Ahead
  <1> QED BY <1>2, <1>3, <1>4 DEF OrderInv, LineHeld, KeysAhead, Ordered

LEMMA InterruptOrder ==
  ASSUME PathInv, OrderInv, NEW i \in {TIMER, KEYBOARD, MOUSE}, Interrupt(i)
  PROVE  OrderInv'
  <1> DEFINE f == Started(i, "handler")
  <1>1. f \in Frame /\ f.irq = i /\ f.at = "handler" /\ ~ Posting(f)
    BY StartedFrame DEF Posting
  <1>2. /\ iflag /\ isr \subseteq isr' /\ (i = KEYBOARD => KEYBOARD \in isr' /\ KEYBOARD \notin isr)
        /\ stack' = Append(stack, f)
        /\ UNCHANGED <<outbuf, shift, stolen, texts, typed>>
    BY DEF Interrupt, Masked, Master, devices, drivers, history
  <1> HIDE DEF f
  <1>3. Pushed(f) /\ Len(stack) \in Nat
    BY <1>1, <1>2, PushesFrame DEF PathInv, TypeOK
  <1>4. Printable' = Printable /\ \A n \in Printable : stack'[n] = stack[n]
    BY <1>1, <1>3 DEF Pushed, Printable
  <1>5. HandlingKey' => i = KEYBOARD
    BY <1>1, <1>2, <1>3 DEF Pushed, HandlingKey, PathInv, FirstOnTop
  <1>6. \A k : Ahead(k)' <=> Ahead(k)
    BY <1>2 DEF Ahead, FromKeyboard
  <1>7. LineHeld => LineHeld'
    BY <1>2, <1>4, <1>5 DEF LineHeld
  <1> QED BY <1>2, <1>4, <1>6, <1>7 DEF OrderInv, KeysAhead, Ordered

(* An EOI that takes the bit of a handler that is still posting is noted.  *)
LEMMA EoiOrder ==
  ASSUME PathInv, OrderInv, HandlerEoi \/ IrqHandlerEoi
  PROVE  OrderInv'
  <1>1. /\ stack # <<>> /\ ~ Posting(Top)
        /\ stolen' = (stolen \/ (KEYBOARD \in isr \ isr' /\ \E n \in 1 .. Len(stack) - 1 : Posting(stack[n])))
        /\ UNCHANGED <<outbuf, shift, texts, typed>>
    BY DEF HandlerEoi, IrqHandlerEoi, SendEoi, Posting, devices, drivers
  <1>2. Len(stack) \in Nat \ {0} /\ Top = stack[Len(stack)] /\ Top \in Frame
    BY <1>1, RunningTop DEF PathInv
  <1>3. Printable \subseteq 1 .. Len(stack) - 1
    BY <1>1, <1>2 DEF Printable
  <1>4. Printable' = Printable /\ (\A n \in Printable : stack'[n] = stack[n]) /\ ~ HandlingKey'
    <2>1. CASE HandlerEoi
      <3> DEFINE g == Started(Top.irq, "eoi")
      <3>1. g \in Frame /\ g.at = "eoi"
        <4>1. Top.irq \in {TIMER, KEYBOARD, MOUSE}
          BY <1>2 DEF Frame
        <4> QED BY <4>1, StartedFrame
      <3>2. stack' = Append(Under, g)
        BY <2>1 DEF HandlerEoi
      <3> HIDE DEF g
      <3>3. Replaced(g)
        BY <1>1, <3>1, <3>2, ReplacesTop DEF PathInv, TypeOK
      <3>4. ~ HandlingKey'
        BY <1>2, <3>1, <3>3 DEF Replaced, HandlingKey, PathInv, FirstOnTop
      <3>5. Printable' = Printable /\ \A n \in Printable : stack'[n] = stack[n]
        BY <1>2, <1>3, <3>1, <3>3 DEF Replaced, Printable, Posting
      <3> QED BY <3>4, <3>5
    <2>2. CASE IrqHandlerEoi
      <3>1. Popped
        BY <1>1, <2>2, PopsFrame DEF IrqHandlerEoi, PathInv, TypeOK
      <3>2. Len(stack') = Len(stack) - 1 /\ \A n \in 1 .. Len(stack') : stack'[n] = stack[n] /\ n \in 1 .. Len(stack) /\ n # Len(stack)
        BY <1>2, <3>1 DEF Popped
      <3>3. ~ HandlingKey'
        BY <3>2 DEF HandlingKey, PathInv, FirstOnTop
      <3>4. Printable' = Printable /\ \A n \in Printable : stack'[n] = stack[n]
        BY <1>3, <3>2 DEF Printable
      <3> QED BY <3>3, <3>4
    <2> QED BY <2>1, <2>2
  <1>5. \A k : Ahead(k)' <=> Ahead(k)
    BY <1>1 DEF Ahead, FromKeyboard
  <1>6. ~ stolen' => ~ stolen /\ (KEYBOARD \in isr /\ Printable # {} => KEYBOARD \in isr')
    <2>1. Printable # {} => \E n \in 1 .. Len(stack) - 1 : Posting(stack[n])
      BY <1>3 DEF Printable
    <2> QED BY <1>1, <2>1, Zenon
  <1>7. ~ stolen' /\ LineHeld => LineHeld'
    BY <1>4, <1>6 DEF LineHeld
  <1> QED BY <1>1, <1>4, <1>5, <1>6, <1>7 DEF OrderInv, KeysAhead, Ordered

LEMMA KeyOrder ==
  ASSUME PathInv, OrderInv, KeyboardHandler
  PROVE  OrderInv'
  <1>1. /\ Len(stack) \in Nat \ {0} /\ HandlingKey /\ FromKeyboard /\ outbuf.key = typed
        /\ ~ FromKeyboard' /\ UNCHANGED <<isr, typed, stolen, texts>>
    BY KeyRead DEF FromKeyboard
  <1>2. PICK g \in Frame : /\ Replaced(g) /\ g.at # "handler"
                           /\ g.key = outbuf.key /\ g.shift = shift'
    BY KeyRead
  <1>3. SUFFICES ASSUME ~ stolen PROVE LineHeld' /\ KeysAhead' /\ Ordered'
    BY <1>1 DEF OrderInv
  <1>4. Printable = {} /\ KEYBOARD \in isr
    BY <1>1, <1>3 DEF OrderInv, LineHeld
  <1>5. Printable' \subseteq {Len(stack)} /\ Len(stack) \in 1 .. Len(stack)
    BY <1>1, <1>2, <1>4 DEF Replaced, Printable
  <1>6. ~ HandlingKey'
    BY <1>1, <1>2 DEF Replaced, HandlingKey, PathInv, FirstOnTop
  <1>7. \A n \in Printable' : stack'[n] = g
    BY <1>2, <1>5 DEF Replaced
  <1>8. \A i \in 1 .. Len(texts) : texts[i].key <= typed /\ texts[i].key < outbuf.key
    BY <1>1, <1>3 DEF OrderInv, KeysAhead, Ahead
  <1>9. KeysAhead'
    BY <1>1, <1>2, <1>7, <1>8 DEF KeysAhead, Ahead
  <1> QED BY <1>1, <1>3, <1>4, <1>5, <1>6, <1>9 DEF OrderInv, LineHeld, Ordered

LEMMA TextOrder ==
  ASSUME PathInv, OrderInv, KeyboardText
  PROVE  OrderInv'
  <1> DEFINE said == [key |-> Top.key, shift |-> shift, pressedWith |-> Top.shift]
             top == Len(stack)
  <1>1. /\ stack # <<>> /\ Posting(Top) /\ Goto("ownEoi") /\ texts' = Append(texts, said)
        /\ UNCHANGED <<isr, outbuf, typed, shift, stolen>>
    BY DEF KeyboardText, At, Running, Posting, devices, drivers
  <1>2. top \in Nat \ {0} /\ Top = stack[top] /\ top \in Printable /\ Top.key \in 1 .. typed
    BY <1>1, RunningTop DEF PathInv, KeysTyped, Printable
  <1>3. PICK g \in Frame : Replaced(g) /\ g.at = "ownEoi"
    BY <1>1, GoesTo DEF PathInv, TypeOK
  <1> HIDE DEF said
  <1>4. SUFFICES ASSUME ~ stolen PROVE LineHeld' /\ KeysAhead' /\ Ordered'
    BY <1>1 DEF OrderInv
  <1>5. Printable = {top} /\ KEYBOARD \in isr
    BY <1>2, <1>4 DEF OrderInv, LineHeld
  <1>6. Printable' = {} /\ ~ HandlingKey'
    <2>1. \A n \in 1 .. top : ~ Posting(stack'[n]) /\ stack'[n].at # "handler"
      BY <1>2, <1>3, <1>5 DEF Replaced, Printable, Posting, PathInv, FirstOnTop
    <2>2. Len(stack') = top
      BY <1>3 DEF Replaced
    <2> QED BY <2>1, <2>2 DEF Printable, HandlingKey
  <1> HIDE DEF top
  <1>7. /\ said.key = Top.key /\ said.shift = shift /\ said.pressedWith = Top.shift
        /\ Top.shift = shift /\ Ahead(Top.key) /\ Top.key <= typed
        /\ \A i \in 1 .. Len(texts) : texts[i].key < Top.key
    BY <1>2, <1>4 DEF OrderInv, KeysAhead, said, PathInv, TypeOK
  <1>8. /\ Len(texts) \in Nat /\ Len(texts') = Len(texts) + 1
        /\ \A i \in 1 .. Len(texts) : texts'[i] = texts[i]
        /\ texts'[Len(texts) + 1] = said
    <2> DEFINE T == [key : 1 .. MaxKeys, shift : BOOLEAN, pressedWith : BOOLEAN]
    <2>1. texts \in Seq(T) /\ texts' \in Seq(T)
      BY KeyboardTextKeeps DEF PathInv, TypeOK
    <2> HIDE DEF T
    <2> QED BY <1>1, <2>1, AppendProperties
  <1>9. \A i \in 1 .. Len(texts') : i \in 1 .. Len(texts) \/ i = Len(texts) + 1
    BY <1>8
  <1>10. KeysAhead'
    BY <1>1, <1>4, <1>6, <1>7, <1>8, <1>9 DEF OrderInv, KeysAhead, Ahead, FromKeyboard
  <1>11. Ordered'
    BY <1>4, <1>7, <1>8, <1>9 DEF OrderInv, Ordered
  <1> QED BY <1>1, <1>6, <1>10, <1>11 DEF LineHeld

LEMMA OrderKept == PathInv /\ OrderInv /\ [Next]_vars => OrderInv'
  <1> SUFFICES ASSUME PathInv, OrderInv, [Next]_vars PROVE OrderInv'
    OBVIOUS
  <1>1. PathInv'
    BY PathKept
  <1>2. CASE TimerHandler \/ MouseHandler \/ MouseClick
    <2>1. PICK p \in {"click", "ownEoi", "eoi"} : Goto(p)
      BY <1>2, Zenon DEF TimerHandler, MouseHandler, MouseClick
    <2>2. /\ stack # <<>> /\ ~ Posting(Top) /\ UNCHANGED <<isr, shift, stolen, texts, typed>>
          /\ outbuf' \in {outbuf, NoByte}
      BY <1>2 DEF TimerHandler, MouseHandler, MouseClick, At, Running, Posting, devices, drivers, history
    <2>3. PICK g \in Frame : Replaced(g) /\ g.at = p
      BY <2>1, <2>2, GoesTo DEF PathInv, TypeOK
    <2>4. ~ Posting(g) /\ g.at # "handler" /\ (FromKeyboard' => FromKeyboard /\ outbuf' = outbuf)
      BY <2>1, <2>2, <2>3 DEF Posting, FromKeyboard
    <2> QED BY <2>2, <2>3, <2>4, QuietOrder
  <1>3. CASE KeyboardHandler \/ KeyboardText
    BY <1>3, KeyOrder, TextOrder
  <1>4. CASE HandlerEoi \/ IrqHandlerEoi
    BY <1>4, EoiOrder
  <1>5. ASSUME NEW i \in {TIMER, KEYBOARD, MOUSE}, Interrupt(i) PROVE OrderInv'
    BY <1>5, InterruptOrder
  <1>6. ASSUME NEW kind \in KeyKinds, KeyByte(kind) PROVE OrderInv'
    <2>1. /\ UNCHANGED <<stack, isr, shift, stolen, texts>> /\ outbuf = NoByte
          /\ typed' = typed + 1 /\ outbuf'.key = typed' /\ typed \in Nat
      BY <1>6, TextKeys DEF KeyByte, drivers, history, PathInv
    <2> QED BY <1>1, <2>1, SameOrder
  <1>7. ASSUME NEW left \in BOOLEAN, MouseByte(left) PROVE OrderInv'
    <2>1. /\ UNCHANGED <<stack, isr, shift, stolen, texts, typed>> /\ outbuf = NoByte
          /\ ~ FromKeyboard' /\ typed \in Nat
      BY <1>7, TextKeys DEF MouseByte, drivers, history, PathInv, FromKeyboard
    <2> QED BY <1>1, <2>1, SameOrder
  <1>8. CASE TimerPulse \/ MainLoop \/ UNCHANGED vars
    <2>1. UNCHANGED <<stack, isr, shift, stolen, texts, outbuf, typed>>
      BY <1>8 DEF TimerPulse, MainLoop, LoopPoll, LoopHandle, LoopFrame, vars, devices, drivers, history
    <2> QED BY <1>1, <2>1, SameOrder
  <1> QED BY <1>2, <1>3, <1>4, <1>5, <1>6, <1>7, <1>8 DEF Next, Handler

LEMMA OrderStarts == Init => OrderInv
  BY DEF Init, OrderInv, LineHeld, KeysAhead, Ordered, Printable, HandlingKey

(* Unless an EOI of another handler has retired the in-service bit of a    *)
(* keyboard handler that was still posting, characters are posted in the   *)
(* order of their keys and in the case their key was pressed in, however   *)
(* many keys are typed and whatever interrupts come in between.            *)
THEOREM TextStaysInOrder == Spec => []TextInOrder
  <1>1. PathInv /\ OrderInv => TextInOrder
    <2>1. PathInv => DOMAIN texts = 1 .. Len(texts)
      BY TextKeys DEF PathInv
    <2> QED BY <2>1 DEF OrderInv, Ordered, TextInOrder
  <1> QED BY <1>1, PathStarts, PathKept, OrderStarts, OrderKept, PTL DEF Spec

-----------------------------------------------------------------------------
(* Why a byte is taken: the part of it that is not fairness                *)

Handling(i) == \E n \in 1 .. Len(stack) : stack[n].irq = i /\ stack[n].at = "handler"

(* A byte in the buffer has raised its device's line, and the request      *)
(* stands until the handler that will read the byte is entered.            *)
ByteRequested == outbuf # NoByte => outbuf.from \in irr \/ Handling(outbuf.from)

(* The conditions under which the CPU takes an interrupt.                  *)
Taken(i) == iflag /\ i \in irr /\ ~ Masked(i) /\ \A j \in irr : j < i => Masked(j)

(* A handler at one of its places, where a step of it follows.             *)
AtAPlace(f) ==
  \/ f.irq \in {TIMER, KEYBOARD, MOUSE} /\ f.at \in {"handler", "ownEoi", "eoi"}
  \/ f.irq = KEYBOARD /\ f.at = "text"
  \/ f.irq = MOUSE /\ f.at = "click"

NeverStuck == IF stack = <<>> THEN irr # {} => \E i \in irr : Taken(i) ELSE AtAPlace(Top)

AllAtPlaces == \A n \in 1 .. Len(stack) : AtAPlace(stack[n])

LEMMA GoingOnPlaced ==
  ASSUME TypeOK, AllAtPlaces, stack # <<>>, NEW g, Replaced(g), AtAPlace(g)
  PROVE  AllAtPlaces'
  BY DEF Replaced, AllAtPlaces, AtAPlace

LEMMA BodyPlaced ==
  ASSUME PathInv, AllAtPlaces, HandlerBody
  PROVE  AllAtPlaces'
  <1>1. stack # <<>> /\ stack \in Seq(Frame) /\ Top.irq \in {TIMER, KEYBOARD, MOUSE}
    BY BodyGoesOn, RunningTop DEF PathInv, TypeOK, Frame
  <1>2. CASE KeyboardHandler
    <2>1. PICK g \in Frame : Replaced(g) /\ g.irq = Top.irq /\ g.at \in {"text", "ownEoi"}
      BY <1>2, KeyRead
    <2>2. Top.irq = KEYBOARD
      BY <1>2 DEF KeyboardHandler, At, Running
    <2> QED BY <1>1, <2>1, <2>2, GoingOnPlaced DEF PathInv, AtAPlace
  <1>3. CASE ~ KeyboardHandler
    <2>1. PICK p \in {"click", "ownEoi", "eoi"} : Goto(p) /\ (p = "click" => Top.irq = MOUSE)
      BY <1>3, Zenon DEF HandlerBody, TimerHandler, KeyboardText, MouseHandler, MouseClick, At, Running
    <2>2. PICK g \in Frame : Replaced(g) /\ g.irq = Top.irq /\ g.at = p
      BY <1>1, <2>1, GoesTo
    <2> QED BY <1>1, <2>1, <2>2, GoingOnPlaced DEF PathInv, AtAPlace
  <1> QED BY <1>2, <1>3

LEMMA PlacesKept == PathInv /\ AllAtPlaces /\ [Next]_vars => AllAtPlaces'
  <1> SUFFICES ASSUME PathInv, AllAtPlaces, [Next]_vars PROVE AllAtPlaces'
    OBVIOUS
  <1>1. CASE HandlerBody
    BY <1>1, BodyPlaced
  <1>2. CASE UNCHANGED stack
    BY <1>2 DEF AllAtPlaces, AtAPlace
  <1>3. ASSUME NEW i \in {TIMER, KEYBOARD, MOUSE}, Interrupt(i) PROVE AllAtPlaces'
    <2> DEFINE f == Started(i, "handler")
    <2>1. f \in Frame /\ AtAPlace(f) /\ stack' = Append(stack, f)
      BY <1>3, StartedFrame DEF Interrupt, AtAPlace
    <2> HIDE DEF f
    <2>2. Pushed(f) /\ Len(stack) \in Nat
      BY <2>1, PushesFrame DEF PathInv, TypeOK
    <2> QED BY <2>1, <2>2 DEF Pushed, AllAtPlaces, AtAPlace
  <1>4. CASE HandlerEoi
    <2> DEFINE g == Started(Top.irq, "eoi")
    <2>1. stack # <<>> /\ Top \in Frame
      BY <1>4, RunningTop DEF HandlerEoi, PathInv
    <2>2. g \in Frame /\ AtAPlace(g)
      BY <2>1, StartedFrame DEF Frame, AtAPlace
    <2>3. stack' = Append(Under, g)
      BY <1>4 DEF HandlerEoi
    <2> HIDE DEF g
    <2>4. Replaced(g)
      BY <2>1, <2>2, <2>3, ReplacesTop DEF PathInv, TypeOK
    <2> QED BY <2>1, <2>2, <2>4, GoingOnPlaced DEF PathInv
  <1>5. CASE IrqHandlerEoi
    <2>1. Popped /\ Len(stack) \in Nat \ {0}
      BY <1>5, PopsFrame, RunningTop DEF IrqHandlerEoi, PathInv, TypeOK
    <2> QED BY <2>1 DEF Popped, AllAtPlaces, AtAPlace
  <1>6. \/ HandlerBody \/ HandlerEoi \/ IrqHandlerEoi \/ UNCHANGED stack
        \/ \E i \in {TIMER, KEYBOARD, MOUSE} : Interrupt(i)
    BY DEF Next, Handler, HandlerBody, TimerPulse, KeyByte, MouseByte, MainLoop, LoopPoll,
           LoopHandle, LoopFrame, vars
  <1> QED BY <1>1, <1>2, <1>3, <1>4, <1>5, <1>6

(* A request that stands, and a handler that goes on with its first step   *)
(* still to come, outlive every step but their own.                        *)
LEMMA RequestKept == PathInv /\ ByteRequested /\ [Next]_vars => ByteRequested'
  <1> SUFFICES ASSUME PathInv, ByteRequested, [Next]_vars, outbuf' # NoByte
               PROVE  outbuf'.from \in irr' \/ Handling(outbuf.from)'
    BY DEF ByteRequested, Handling
  <1>1. ASSUME NEW kind \in KeyKinds, KeyByte(kind) PROVE outbuf'.from \in irr'
    BY <1>1 DEF KeyByte
  <1>2. ASSUME NEW left \in BOOLEAN, MouseByte(left) PROVE outbuf'.from \in irr'
    BY <1>2 DEF MouseByte
  <1>3. CASE outbuf' = outbuf /\ irr \subseteq irr' /\ UNCHANGED stack
    BY <1>3 DEF ByteRequested, Handling
  <1>4. ASSUME NEW i \in {TIMER, KEYBOARD, MOUSE}, Interrupt(i)
        PROVE  outbuf'.from \in irr' \/ Handling(outbuf.from)'
    <2> DEFINE f == Started(i, "handler")
    <2>1. f \in Frame /\ f.irq = i /\ f.at = "handler" /\ stack' = Append(stack, f)
          /\ irr' = irr \ {i} /\ outbuf' = outbuf
      BY <1>4, StartedFrame DEF Interrupt, devices
    <2> HIDE DEF f
    <2>2. Pushed(f) /\ Len(stack) \in Nat /\ Len(stack) + 1 \in 1 .. Len(stack) + 1
      BY <2>1, PushesFrame DEF PathInv, TypeOK
    <2>3. stack'[Len(stack')] = f /\ Len(stack') \in 1 .. Len(stack')
          /\ \A n \in 1 .. Len(stack) : n \in 1 .. Len(stack') /\ stack'[n] = stack[n]
      BY <2>2 DEF Pushed
    <2>4. CASE outbuf.from = i
      BY <2>1, <2>3, <2>4 DEF Handling
    <2>5. CASE outbuf.from # i
      BY <2>1, <2>3, <2>5 DEF ByteRequested, Handling
    <2> QED BY <2>4, <2>5
  <1>5. CASE HandlerBody \/ HandlerEoi \/ IrqHandlerEoi
    <2>1. stack # <<>> /\ irr' = irr /\ outbuf' = outbuf
      <3>1. CASE KeyboardHandler
        BY <3>1, KeyRead
      <3>2. CASE MouseHandler
        BY <3>2, Zenon DEF MouseHandler, At, Running
      <3>3. CASE ~ KeyboardHandler /\ ~ MouseHandler
        BY <1>5, <3>3 DEF HandlerBody, TimerHandler, KeyboardText, MouseClick, HandlerEoi,
                          IrqHandlerEoi, SendEoi, devices, At, Running
      <3> QED BY <3>1, <3>2, <3>3
    <2>2. ~ Handling(outbuf.from)
      <3> SUFFICES ASSUME Handling(outbuf.from) PROVE FALSE
        OBVIOUS
      <3>1. PICK n \in 1 .. Len(stack) : stack[n].irq = outbuf.from /\ stack[n].at = "handler"
        BY DEF Handling
      <3>2. Top.irq = outbuf.from /\ Top.at = "handler"
        BY <3>1 DEF PathInv, FirstOnTop, Top
      <3>3. outbuf.from \in {KEYBOARD, MOUSE}
        BY <2>1, ByteFields DEF PathInv
      <3>4. KeyboardHandler \/ MouseHandler
        BY <1>5, <3>2, <3>3 DEF HandlerBody, TimerHandler, KeyboardText, MouseClick, HandlerEoi,
                                IrqHandlerEoi, At, Running
      <3>5. ~ KeyboardHandler
        BY <2>1, KeyRead
      <3>6. MouseHandler /\ outbuf.from = MOUSE
        BY <3>2, <3>4, <3>5 DEF MouseHandler, At, Running
      <3> QED BY <2>1, <3>6 DEF MouseHandler
    <2> QED BY <2>1, <2>2 DEF ByteRequested
  <1>6. \/ HandlerBody \/ HandlerEoi \/ IrqHandlerEoi
        \/ outbuf' = outbuf /\ irr \subseteq irr' /\ UNCHANGED stack
        \/ \E i \in {TIMER, KEYBOARD, MOUSE} : Interrupt(i)
        \/ (\E kind \in KeyKinds : KeyByte(kind)) \/ (\E left \in BOOLEAN : MouseByte(left))
    BY DEF Next, Handler, HandlerBody, TimerPulse, MainLoop, LoopPoll, LoopHandle, LoopFrame, vars,
           devices
  <1> QED BY <1>1, <1>2, <1>3, <1>4, <1>5, <1>6

(* No byte is forgotten: as long as it is in the controller's buffer its   *)
(* line is requested or the handler that reads it has been entered, though *)
(* handlers nest and the keyboard's reads without asking whose byte it is. *)
THEOREM NoByteForgotten == Spec => []ByteRequested
  <1>1. Init => ByteRequested
    BY DEF Init, ByteRequested
  <1> QED BY <1>1, PathStarts, PathKept, RequestKept, PTL DEF Spec

(* And no request is stranded: with handlers on the stack the running one  *)
(* has a step to take, and with none the CPU takes one of the interrupts   *)
(* that are requested, whichever bits the EOIs have retired before.        *)
THEOREM PathNeverStuck == Spec => []NeverStuck
  <1>1. Init => AllAtPlaces
    BY DEF Init, AllAtPlaces
  <1>2. PathInv /\ ReturnInv /\ AllAtPlaces => NeverStuck
    <2> SUFFICES ASSUME PathInv, ReturnInv, AllAtPlaces PROVE NeverStuck
      OBVIOUS
    <2>1. CASE stack # <<>>
      BY <2>1, RunningTop DEF PathInv, AllAtPlaces, NeverStuck
    <2>2. ASSUME stack = <<>>, irr # {} PROVE \E i \in irr : Taken(i)
      <3>1. isr = {} /\ iflag
        BY <2>2, NothingInService
      <3>2. \A i \in irr : ~ Masked(i)
        BY <3>1 DEF Masked
      <3>3. irr \subseteq {TIMER, KEYBOARD, MOUSE}
        BY DEF PathInv, TypeOK
      <3>4. \E i \in irr : \A j \in irr : ~ (j < i)
        <4>1. CASE TIMER \in irr
          BY <3>3, <4>1
        <4>2. CASE TIMER \notin irr /\ KEYBOARD \in irr
          BY <3>3, <4>2
        <4>3. CASE TIMER \notin irr /\ KEYBOARD \notin irr
          <5>1. \A j \in irr : j = MOUSE
            BY <3>3, <4>3
          <5>2. PICK j : j \in irr
            BY <2>2
          <5>3. MOUSE \in irr
            BY <5>1, <5>2
          <5> QED BY <5>1, <5>3
        <4> QED BY <4>1, <4>2, <4>3
      <3> QED BY <3>1, <3>2, <3>4 DEF Taken
    <2> QED BY <2>1, <2>2 DEF NeverStuck
  <1> QED BY <1>1, <1>2, PathStarts, PathKept, ReturnStarts, ReturnKept, PlacesKept, PTL DEF Spec
-----------------------------------------------------------------------------
(* Why an event is handled: the part of it that is not fairness            *)

(* How far the loop is from handling an event that is in the queue.        *)
TurnsLeft == CASE loop = "handle" -> 0 [] loop = "drain" -> 1 [] loop = "hlt" -> 2 [] loop = "frame" -> 3

(* A step of the loop, which can be taken unless it halts.                 *)
LoopTurns ==
  /\ pending # <<>> /\ TurnsLeft > 0 => TurnsLeft' <= TurnsLeft /\ (pending' # <<>> \/ TurnsLeft' = 0)
  /\ pending # <<>> /\ MainLoop => TurnsLeft' # TurnsLeft
  /\ loop = "hlt" /\ stack = <<>> /\ stack' # <<>> => TurnsLeft' = 1

LEMMA PostedIsThere ==
  ASSUME TypeOK, NEW e, pending' = Q!Posted(e)
  PROVE  pending' # <<>>
  <1>1. pending \in Seq(Event) /\ (Len(pending) >= QueueSize => pending # <<>>)
    BY BoundsAssumption DEF TypeOK
  <1>2. PICK q \in Seq(Event) : pending' = Append(q, e)
    <2>1. CASE Len(pending) >= QueueSize
      <3>1. Tail(pending) \in Seq(Event)
        BY <1>1, <2>1, HeadTailProperties
      <3> QED BY <2>1, <3>1 DEF Q!Posted
    <2> QED BY <1>1, <2>1 DEF Q!Posted
  <1> DEFINE S == Event \cup {e}
  <1>3. q \in Seq(S) /\ e \in S
    BY <1>2
  <1> HIDE DEF S
  <1> QED BY <1>2, <1>3, AppendProperties

LEMMA QueueOrLoop ==
  ASSUME TypeOK, [Next]_vars
  PROVE  \/ pending' = pending \/ (\E e : pending' = Q!Posted(e))
         \/ LoopPoll
  BY DEF Next, vars, queue, Q!Post, TimerPulse, KeyByte, MouseByte, Interrupt, Handler, TimerHandler,
         KeyboardHandler, KeyboardText, MouseHandler, MouseClick, HandlerEoi, IrqHandlerEoi, SendEoi,
         MainLoop, LoopHandle, LoopFrame

LEMMA LoopOrInterrupt ==
  ASSUME [Next]_vars
  PROVE  \/ MainLoop
         \/ \E i \in {TIMER, KEYBOARD, MOUSE} : Interrupt(i)
         \/ loop' = loop /\ (stack = <<>> => stack' = stack)
  BY DEF Next, vars, queue, TimerPulse, KeyByte, MouseByte, Handler, TimerHandler,
         KeyboardHandler, KeyboardText, MouseHandler, MouseClick, HandlerEoi, IrqHandlerEoi, SendEoi,
         At, Running

(* An event in the queue is not passed over: until the loop handles one    *)
(* the queue is never empty, every step of the loop brings it nearer to    *)
(* the poll that finds one, no interrupt takes it back, and the next one   *)
(* that comes ends its hlt.                                                *)
THEOREM QueueNotPassedOver == Spec => [][LoopTurns]_vars
  <1>1. PathInv /\ [Next]_vars => [LoopTurns]_vars
    <2> SUFFICES ASSUME PathInv, [Next]_vars PROVE LoopTurns
      OBVIOUS
    <2>1. TypeOK /\ loop \in {"hlt", "drain", "handle", "frame"}
      BY DEF PathInv, TypeOK
    <2>2. CASE LoopPoll /\ pending # <<>>
      <3>1. loop = "drain" /\ loop' = "handle" /\ stack' = stack
        BY <2>2 DEF LoopPoll
      <3> QED BY <3>1 DEF LoopTurns, TurnsLeft
    <2>3. CASE MainLoop /\ ~ (LoopPoll /\ pending # <<>>)
      <3>1. stack' = stack
        BY <2>3 DEF MainLoop, LoopPoll, LoopHandle, LoopFrame
      <3>2. CASE pending = <<>>
        BY <3>1, <3>2 DEF LoopTurns
      <3>3. CASE pending # <<>> /\ LoopHandle
        BY <3>1, <3>3 DEF LoopTurns, TurnsLeft, LoopHandle
      <3>4. CASE pending # <<>> /\ LoopFrame
        <4>1. TurnsLeft = 3 /\ TurnsLeft' = 2
          BY <3>4 DEF TurnsLeft, LoopFrame
        <4>2. pending' = pending /\ loop = "frame"
          BY <3>4 DEF LoopFrame, queue
        <4> QED BY <3>4, <4>1, <4>2 DEF LoopTurns
      <3> QED BY <2>3, <3>2, <3>3, <3>4 DEF MainLoop
    <2>4. CASE ~ MainLoop
      <3>1. pending # <<>> => pending' # <<>>
        BY <2>1, <2>4, QueueOrLoop, PostedIsThere DEF MainLoop
      <3>2. \/ loop' = loop /\ (stack = <<>> => stack' = stack)
            \/ loop' = IF stack = <<>> /\ loop = "hlt" THEN "drain" ELSE loop
        BY <2>4, LoopOrInterrupt DEF Interrupt
      <3>3. CASE loop = "hlt" /\ loop' = "drain"
        <4>1. TurnsLeft = 2 /\ TurnsLeft' = 1
          BY <3>3 DEF TurnsLeft
        <4> QED BY <2>4, <3>1, <4>1 DEF LoopTurns
      <3>4. CASE loop' = loop /\ (loop = "hlt" /\ stack = <<>> => stack' = stack)
        <4>1. TurnsLeft' = TurnsLeft /\ TurnsLeft \in 0 .. 3
          BY <2>1, <3>4 DEF TurnsLeft
        <4> QED BY <2>4, <3>1, <3>4, <4>1 DEF LoopTurns
      <3> QED BY <3>2, <3>3, <3>4
    <2> QED BY <2>2, <2>3, <2>4
  <1> QED BY <1>1, PathStarts, PathKept, PTL DEF Spec
=============================================================================
