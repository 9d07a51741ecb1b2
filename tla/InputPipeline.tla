--------------------------- MODULE InputPipeline ---------------------------
(***************************************************************************)
(* The path of an input from a device to the GUI: the 8259 pair, the       *)
(* interrupt stubs, irq_handler, the timer, keyboard and mouse handlers,   *)
(* the event queue and the loop of kernel_main, on one CPU.                *)
(*                                                                         *)
(* Handlers nest.  Every stub starts with cli, but event_post ends with    *)
(* sti, so from its first event on a handler runs with interrupts enabled  *)
(* and only the in-service bits of the 8259 keep its own line from         *)
(* interrupting it.  pic_send_eoi writes a non-specific EOI: it retires    *)
(* the in-service bit of the highest priority, whoever that bit belongs    *)
(* to, and the timer, the keyboard and the mouse handler each send one of  *)
(* their own before irq_handler sends another.                             *)
(***************************************************************************)
EXTENDS Naturals, Sequences, FiniteSets

CONSTANTS MaxKeys,       \* bound: bytes the keyboard sends
          MaxMouseBytes, \* bound: bytes the mouse sends, three to a packet
          TickDivider,   \* a TIMER_TICK event every so many ticks (10 in the code)
          QueueSize,     \* EVENT_QUEUE_SIZE
          KeyKinds,      \* bound: what those bytes may say, of AllKeyKinds
          NoByte, NoEvent

(* What a byte of the keyboard says: a printable key or a shift key,       *)
(* pressed or released.                                                    *)
AllKeyKinds == {"press", "release", "shiftDown", "shiftUp"}

ASSUME BoundsAssumption ==
  /\ MaxKeys \in Nat
  /\ MaxMouseBytes \in Nat
  /\ TickDivider \in Nat \ {0}
  /\ KeyKinds \subseteq AllKeyKinds
  /\ QueueSize \in Nat \ {0}

TIMER == 0
KEYBOARD == 1
CASCADE == 2             \* the slave's line on the master
MOUSE == 12
Master == {TIMER, KEYBOARD, CASCADE}

VARIABLES
  irr,       \* the 8259s' request registers: lines raised, not yet acknowledged
  isr,       \* their in-service registers, master and slave together
  iflag,     \* EFLAGS.IF
  stack,     \* the interrupt handlers entered and not returned from, outermost first
  outbuf,    \* the one-byte output buffer of the 8042, port 0x60
  typed,     \* how many bytes the keyboard has sent
  moved,     \* how many bytes the mouse has sent
  ticks,     \* timer_ticks % TickDivider
  shift,     \* kbd_state.shift
  cycle,     \* mouse.cycle
  buttons,   \* mouse.public.buttons, the left one
  pending, polled,   \* the event queue
  loop,      \* where kernel_main's loop is
  stolen,    \* history: has an EOI retired the in-service bit of the keyboard
             \*   handler while that handler was still posting its events?
  texts      \* history: the TEXT_INPUT events posted, with the press each is for

devices == <<outbuf, typed, moved>>
drivers == <<ticks, shift, cycle, buttons>>
queue == <<pending, polled>>
history == <<stolen, texts>>
vars == <<irr, isr, iflag, stack, devices, drivers, queue, loop, history>>

(* The type of an event is all that the loop's control depends on.         *)
Event == {"TIMER_TICK", "KEY_PRESS", "KEY_RELEASE", "TEXT_INPUT",
          "MOUSE_MOVE", "MOUSE_CLICK", "MOUSE_RELEASE", "FOCUS_CHANGE"}

Q == INSTANCE EventFifo WITH Capacity <- QueueSize

-----------------------------------------------------------------------------
(* The 8259 pair.                                                          *)

(* A line is held back by its own in-service bit, by every bit of higher   *)
(* priority, and, for a line of the slave, by the cascade's.               *)
Masked(i) == IF i \in Master THEN \E j \in isr \cap Master : j <= i
                             ELSE isr # {}

(* A non-specific EOI to the master: the highest in-service bit goes.      *)
EoiMaster(bits) == bits \ {j \in bits \cap Master : \A k \in bits \cap Master : j <= k}

(* pic_send_eoi, which forgets the slave                                   *)
PicSendEoiMasterOnly(i, bits) == EoiMaster(bits)

(* pic_send_eoi, which sends the slave an EOI every time                   *)
PicSendEoiBoth(i, bits) == EoiMaster(bits \ {MOUSE})

(* pic_send_eoi                                                            *)
PicSendEoi(i, bits) == EoiMaster(IF i >= 8 THEN bits \ {MOUSE} ELSE bits)

-----------------------------------------------------------------------------
Top == stack[Len(stack)]
Running(i) == stack # <<>> /\ Top.irq = i
At(i, p) == Running(i) /\ Top.at = p
Under == SubSeq(stack, 1, Len(stack) - 1)
Started(i, p) == [irq |-> i, at |-> p, key |-> 0, shift |-> FALSE]
Goto(p) == stack' = Append(Under, [Top EXCEPT !.at = p])

(* A keyboard handler that has posted KEY_PRESS and not yet TEXT_INPUT.    *)
Posting(f) == f.irq = KEYBOARD /\ f.at = "text"

Init ==
  /\ irr = {} /\ isr = {} /\ iflag = TRUE
  /\ stack = <<>>
  /\ outbuf = NoByte /\ typed = 0 /\ moved = 0
  /\ ticks = 0 /\ shift = FALSE /\ cycle = 0 /\ buttons = FALSE
  /\ pending = <<>> /\ polled = NoEvent
  /\ loop = "hlt"
  /\ stolen = FALSE /\ texts = <<>>

-----------------------------------------------------------------------------
(* The devices.                                                            *)

(* The PIT's next period ends.  A period is 10 ms, so a timer handler that *)
(* nothing interrupts is never overtaken by the next tick.                 *)
TimerPulse ==
  /\ ~ Running(TIMER)
  /\ irr' = irr \cup {TIMER}
  /\ UNCHANGED <<isr, iflag, stack, devices, drivers, queue, loop, history>>

(* The keyboard puts a scan code in the free output buffer.                *)
KeyByte(kind) ==
  /\ outbuf = NoByte
  /\ typed < MaxKeys
  /\ typed' = typed + 1
  /\ outbuf' = [from |-> KEYBOARD, key |-> typed', kind |-> kind]
  /\ irr' = irr \cup {KEYBOARD}
  /\ UNCHANGED <<moved, isr, iflag, stack, drivers, queue, loop, history>>

(* The mouse puts the next byte of its three-byte packet there.  The       *)
(* packet's button bit, which the code keeps from packet[0], is modelled   *)
(* in the byte that completes the packet.                                  *)
MouseByte(left) ==
  /\ outbuf = NoByte
  /\ left => moved % 3 = 2
  /\ moved < MaxMouseBytes
  /\ moved' = moved + 1
  /\ outbuf' = [from |-> MOUSE, index |-> moved % 3, left |-> left]
  /\ irr' = irr \cup {MOUSE}
  /\ UNCHANGED <<typed, isr, iflag, stack, drivers, queue, loop, history>>

-----------------------------------------------------------------------------
(* A hlt that the interrupt does not end                                   *)
InterruptAsleep(i) ==
  /\ iflag
  /\ i \in irr /\ ~ Masked(i)
  /\ \A j \in irr : j < i => Masked(j)
  /\ irr' = irr \ {i}
  /\ isr' = isr \cup (IF i \in Master THEN {i} ELSE {CASCADE, i})
  /\ iflag' = FALSE
  /\ stack' = Append(stack, Started(i, "handler"))
  /\ UNCHANGED <<loop, devices, drivers, queue, history>>

(* The CPU takes the unmasked request of the highest priority: the stub's  *)
(* cli, and a new frame.  It also ends the hlt of the main loop.           *)
Interrupt(i) ==
  /\ iflag
  /\ i \in irr /\ ~ Masked(i)
  /\ \A j \in irr : j < i => Masked(j)
  /\ irr' = irr \ {i}
  /\ isr' = isr \cup (IF i \in Master THEN {i} ELSE {CASCADE, i})
  /\ iflag' = FALSE
  /\ stack' = Append(stack, Started(i, "handler"))
  /\ loop' = IF stack = <<>> /\ loop = "hlt" THEN "drain" ELSE loop
  /\ UNCHANGED <<devices, drivers, queue, history>>

(* timer_handler up to its own EOI: the tick itself, the callouts and the  *)
(* scheduler run with interrupts disabled, then every TickDivider-th tick  *)
(* posts an event and so enables them.                                     *)
TimerHandler ==
  /\ At(TIMER, "handler")
  /\ ticks' = (ticks + 1) % TickDivider
  /\ IF ticks' = 0
     THEN Q!Post("TIMER_TICK") /\ iflag' = TRUE
     ELSE UNCHANGED <<queue, iflag>>
  /\ Goto("ownEoi")
  /\ UNCHANGED <<irr, isr, devices, shift, cycle, buttons, loop, history>>

(* keyboard_handler with its pic_send_eoi moved to the front               *)
KeyboardHandlerEarlyEoi ==
  /\ At(KEYBOARD, "handler") /\ outbuf # NoByte
  /\ isr' = EoiMaster(isr)
  /\ outbuf' = NoByte
  /\ Q!Post("KEY_PRESS")
  /\ iflag' = TRUE
  /\ stack' = Append(Under, [Top EXCEPT !.at = "text", !.key = outbuf.key, !.shift = shift])
  /\ UNCHANGED <<irr, typed, moved, drivers, loop, history>>

(* keyboard_handler up to its first event_post.  It reads the buffer       *)
(* without asking which device filled it; its line is raised only by the   *)
(* keyboard's own bytes, so it finds one of those.                         *)
KeyboardHandler ==
  /\ At(KEYBOARD, "handler")
  /\ IF outbuf = NoByte
     THEN /\ Goto("eoi")
          /\ UNCHANGED <<outbuf, shift, queue, iflag>>
     ELSE /\ outbuf' = NoByte
          /\ shift' = CASE outbuf.kind = "shiftDown" -> TRUE
                        [] outbuf.kind = "shiftUp" -> FALSE
                        [] OTHER -> shift
          /\ Q!Post(IF outbuf.kind \in {"press", "shiftDown"} THEN "KEY_PRESS" ELSE "KEY_RELEASE")
          /\ iflag' = TRUE
          /\ stack' = Append(Under,
                        [Top EXCEPT !.at = IF outbuf.kind = "press" THEN "text" ELSE "ownEoi",
                                    !.key = outbuf.key, !.shift = shift'])
  /\ UNCHANGED <<irr, isr, typed, moved, ticks, cycle, buttons, loop, history>>

(* The rest of keyboard_handler for a printable key: the character is      *)
(* looked up with the shift state of NOW, not with that of the KEY_PRESS.  *)
KeyboardText ==
  /\ At(KEYBOARD, "text")
  /\ Q!Post("TEXT_INPUT")
  /\ texts' = Append(texts, [key |-> Top.key, shift |-> shift, pressedWith |-> Top.shift])
  /\ iflag' = TRUE
  /\ Goto("ownEoi")
  /\ UNCHANGED <<irr, isr, devices, drivers, loop, stolen>>

(* mouse_handler, which forgets to start the next packet                   *)
MouseHandlerNoReset ==
  /\ At(MOUSE, "handler")
  /\ IF outbuf = NoByte \/ outbuf.from # MOUSE
     THEN /\ Goto("eoi")
          /\ UNCHANGED <<outbuf, cycle, buttons, queue, iflag>>
     ELSE /\ outbuf' = NoByte
          /\ IF cycle < 2
             THEN /\ cycle' = cycle + 1
                  /\ Goto("eoi")
                  /\ UNCHANGED <<buttons, queue, iflag>>
             ELSE /\ cycle' = cycle + 1
                  /\ buttons' = outbuf.left
                  /\ Q!Post("MOUSE_MOVE")
                  /\ iflag' = TRUE
                  /\ Goto("ownEoi")
  /\ UNCHANGED <<irr, isr, typed, moved, ticks, shift, loop, history>>

(* mouse_handler up to its first event_post: the third byte completes a    *)
(* packet.  The test of bit 3 of packet[0] succeeds because the handler is  *)
(* in step with the mouse, which is what MouseInSync says.                 *)
MouseHandler ==
  /\ At(MOUSE, "handler")
  /\ IF outbuf = NoByte \/ outbuf.from # MOUSE
     THEN /\ Goto("eoi")
          /\ UNCHANGED <<outbuf, cycle, buttons, queue, iflag>>
     ELSE /\ outbuf' = NoByte
          /\ IF cycle < 2
             THEN /\ cycle' = cycle + 1
                  /\ Goto("eoi")
                  /\ UNCHANGED <<buttons, queue, iflag>>
             ELSE /\ cycle' = 0
                  /\ buttons' = outbuf.left
                  /\ Q!Post("MOUSE_MOVE")
                  /\ iflag' = TRUE
                  /\ Goto(IF outbuf.left # buttons THEN "click" ELSE "ownEoi")
  /\ UNCHANGED <<irr, isr, typed, moved, ticks, shift, loop, history>>

(* The button event of a packet that changed the button.                   *)
MouseClick ==
  /\ At(MOUSE, "click")
  /\ Q!Post(IF buttons THEN "MOUSE_CLICK" ELSE "MOUSE_RELEASE")
  /\ iflag' = TRUE
  /\ Goto("ownEoi")
  /\ UNCHANGED <<irr, isr, devices, drivers, loop, history>>

(* An EOI sent by the running handler, and whether it hit another one.  For*)
(* a line of the slave it is two commands, one to each controller, in one  *)
(* step: either interrupts are disabled, or what is taken between the two  *)
(* does no more than when it is taken before or after both of them.        *)
SendEoi ==
  /\ isr' = PicSendEoi(Top.irq, isr)
  /\ stolen' = (stolen \/ /\ KEYBOARD \in isr \ isr'
                          /\ \E n \in 1 .. Len(stack) - 1 : Posting(stack[n]))
  /\ UNCHANGED <<irr, devices, drivers, queue, loop, texts>>

(* The EOI at the end of timer_handler, keyboard_handler and mouse_handler *)
HandlerEoi ==
  /\ stack # <<>> /\ Top.at = "ownEoi"
  /\ SendEoi
  /\ stack' = Append(Under, Started(Top.irq, "eoi"))
  /\ UNCHANGED iflag

(* and the one irq_handler sends after every handler, with the stub's sti  *)
(* and iret: back to the interrupted code, whose interrupts were enabled   *)
(* or it would not have been interrupted.                                  *)
IrqHandlerEoi ==
  /\ stack # <<>> /\ Top.at = "eoi"
  /\ SendEoi
  /\ stack' = Under
  /\ iflag' = TRUE

Handler == TimerHandler \/ KeyboardHandler \/ KeyboardText \/ MouseHandler \/ MouseClick
           \/ HandlerEoi \/ IrqHandlerEoi

-----------------------------------------------------------------------------
(* The main loop of kernel_main, which runs when no handler does.          *)

(* event_poll: an event to handle, or the queue is drained.                *)
LoopPoll ==
  /\ stack = <<>> /\ loop = "drain"
  /\ \/ /\ Q!Poll
        /\ loop' = "handle"
     \/ /\ pending = <<>>
        /\ loop' = "frame"
        /\ UNCHANGED queue
  /\ UNCHANGED <<irr, isr, iflag, stack, devices, drivers, history>>

(* gui_handle_event and handle_keyboard_events.  A click on a widget and   *)
(* the Tab key may move the focus, which posts an event.  The loop's event *)
(* variable is not read again.                                             *)
LoopHandle ==
  /\ stack = <<>> /\ loop = "handle"
  /\ loop' = "drain"
  /\ polled' = NoEvent
  /\ \/ polled \in {"MOUSE_CLICK", "KEY_PRESS"} /\ pending' = Q!Posted("FOCUS_CHANGE")
     \/ UNCHANGED pending
  /\ UNCHANGED <<irr, isr, iflag, stack, devices, drivers, history>>

(* The frame is rendered and the loop halts until the next interrupt.      *)
LoopFrame ==
  /\ stack = <<>> /\ loop = "frame"
  /\ loop' = "hlt"
  /\ UNCHANGED <<irr, isr, iflag, stack, devices, drivers, queue, history>>

MainLoop == LoopPoll \/ LoopHandle \/ LoopFrame

Next == \/ TimerPulse
        \/ \E kind \in KeyKinds : KeyByte(kind)
        \/ \E left \in BOOLEAN : MouseByte(left)
        \/ \E i \in {TIMER, KEYBOARD, MOUSE} : Interrupt(i)
        \/ Handler
        \/ MainLoop

Spec == Init /\ [][Next]_vars

(* The PIT never stops, and its interrupt and its handler, which only a    *)
(* few bytes can delay, are not put off forever.  The others get on if     *)
(* they have the CPU, or could have it, again and again, although ticks    *)
(* come in between: a handler takes microseconds of the 10 ms between two  *)
(* ticks.  The keyboard and the mouse owe nothing.                         *)
Fairness ==
  /\ WF_vars(TimerPulse) /\ WF_vars(Interrupt(TIMER)) /\ WF_vars(Running(TIMER) /\ Handler)
  /\ \A i \in {KEYBOARD, MOUSE} : SF_vars(Interrupt(i)) /\ SF_vars(Running(i) /\ Handler)
  /\ SF_vars(MainLoop)

FairSpec == Spec /\ Fairness

-----------------------------------------------------------------------------
Frame == [irq : {TIMER, KEYBOARD, MOUSE},
          at : {"handler", "text", "click", "ownEoi", "eoi"},
          key : 0 .. MaxKeys, shift : BOOLEAN]

Byte == [from : {KEYBOARD}, key : 1 .. MaxKeys, kind : KeyKinds]
        \cup [from : {MOUSE}, index : 0 .. 2, left : BOOLEAN]

ASSUME ByteAssumption == NoByte \notin Byte

TypeOK ==
  /\ irr \subseteq {TIMER, KEYBOARD, MOUSE}
  /\ isr \subseteq Master \cup {MOUSE}
  /\ iflag \in BOOLEAN
  /\ stack \in Seq(Frame)
  /\ outbuf \in Byte \cup {NoByte}
  /\ typed \in 0 .. MaxKeys
  /\ moved \in 0 .. MaxMouseBytes
  /\ ticks \in 0 .. TickDivider - 1
  /\ shift \in BOOLEAN /\ cycle \in 0 .. 2 /\ buttons \in BOOLEAN
  /\ pending \in Seq(Event) /\ Len(pending) <= QueueSize
  /\ polled \in Event \cup {NoEvent}
  /\ loop \in {"hlt", "drain", "handle", "frame"}
  /\ stolen \in BOOLEAN
  /\ texts \in Seq([key : 1 .. MaxKeys, shift : BOOLEAN, pressedWith : BOOLEAN])

(* Characters reach the queue in the order their keys were pressed, each   *)
(* in the case its KEY_PRESS event reported (keyboard.c:310-339), although *)
(* the handler runs with interrupts enabled between the two events.  The   *)
(* only way to lose this is a tick that arrives in between: the second EOI *)
(* of the timer interrupt (timer.c:50, pic.c:59) then retires the keyboard *)
(* handler's in-service bit and the next key interrupts the handler.       *)
TextInOrder ==
  ~ stolen => /\ \A i, j \in DOMAIN texts : i < j => texts[i].key < texts[j].key
              /\ \A i \in DOMAIN texts : texts[i].shift = texts[i].pressedWith

(* The mouse handler's place in the packet (mouse.c:93) is that of the     *)
(* byte in the controller, whatever nests in or around the handler: no     *)
(* byte is lost to, or read twice by, an interrupt in between.             *)
MouseInSync ==
  outbuf # NoByte /\ outbuf.from = MOUSE => outbuf.index = cycle

(* When every handler has returned nothing is in service and interrupts    *)
(* are enabled, however handlers nested and whichever bits the doubled     *)
(* EOIs retired (pic.c:30-35): no line stays masked for good.              *)
PicQuiescent == stack = <<>> => isr = {} /\ iflag

(* A mouse handler in the middle of its events is never interrupted by     *)
(* another one: the slave's in-service bit outlives the cascade's, which   *)
(* the EOIs of a nested keyboard or timer handler may retire.              *)
MouseNotReentered ==
  \A m, n \in DOMAIN stack :
    m < n /\ stack[m].irq = MOUSE /\ stack[n].irq = MOUSE => stack[m].at = "eoi"

(* A byte in the controller's buffer is always read in the end: no nesting *)
(* of handlers leaves its line masked or its request unanswered.           *)
BytesTaken == outbuf # NoByte ~> outbuf = NoByte

(* An event in the queue is followed by the loop handling one, although    *)
(* the loop halts after a poll that found nothing and an event posted      *)
(* between that poll and the hlt wakes nobody (main.c:288-291): the next   *)
(* tick does.                                                              *)
QueueServed == pending # <<>> ~> loop = "handle"
=============================================================================
