SPECIFICATION FairSpec
CONSTANTS
  Timers = {tick, once}
  OneShots = {once}
  HwPoll = hw
  NetPoll = net
  Gpio = pins
  Main = main0
  Contexts = {c1}
  Blocks = {b1, b2}
  Capacity = 1
  Cancels = {once}
  Drops = {}
  NULL = NULL
INVARIANTS EventsOwned RemainingProcessed
PROPERTY EventsEnd
CHECK_DEADLOCK FALSE
