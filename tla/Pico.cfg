SPECIFICATION PicoSpec
CONSTANTS
  NULL = NULL  NoThread = NoThread
  Producers = {irq}
  Consumers = {core0, core1}
  Closers = {irq}
  Handlers = {}
  Victim <- NoVictim
  Events = {e1}
  Capacity = 1
  MaxPermits = 2
  Owner = core0
  Workers = {core1, irq, irq2}
  MaxDelta = 2
  GroupPermits = 5
  Announced = 5
  MaxDones = 5
  Disciplined = TRUE
  Primitives = {"queue", "waitgroup"}
INVARIANTS QueueSound GroupSound
PROPERTIES Implements CountsPending Released
CHECK_DEADLOCK FALSE
