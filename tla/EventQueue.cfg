CONSTANTS
  EVENT_QUEUE_SIZE = 3
  Event = {e1, e2, e3}
  NoEvent = NoEvent
  InitInterrupted = FALSE
SPECIFICATION Spec
INVARIANTS TypeOK RingConsistent
PROPERTY ImplementsFifo
