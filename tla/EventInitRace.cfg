\* As EventQueue.cfg, with the timer interrupt free to land inside event_init.
CONSTANTS
  EVENT_QUEUE_SIZE = 3
  Event = {e1}
  NoEvent = NoEvent
  InitInterrupted = TRUE
SPECIFICATION Spec
INVARIANT RingConsistent
