SPECIFICATION Spec
CONSTANTS
  NULL = NULL  NoThread = NoThread
  Producers = {p1}
  Consumers = {c1, c2}
  Inspectors = {c2}
  Closers = {p1}
  Owners = {p1}
  Events = {e1, e2}
  Capacity = 2
  Spurious = TRUE
  Joined = FALSE
INVARIANTS RingConsistent NoLostWakeup
PROPERTY Implements
