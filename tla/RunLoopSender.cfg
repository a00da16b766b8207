SPECIFICATION Spec
CONSTANTS
  Timers = {tick, once}
  OneShots = {once}
  HwPoll = hw
  NetPoll = net
  Gpio = pins
  Main = main0
  Contexts = {c1}
  Blocks = {b1, b2}
  Capacity = 1
  Cancels = {once}
  Drops = {once}
  NULL = NULL
INVARIANT SenderAlive
CHECK_DEADLOCK FALSE
