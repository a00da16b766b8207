SPECIFICATION FairSpec
CONSTANTS
  NULL = NULL  NoThread = NoThread
  Producers = {p1}
  Consumers = {c1, c2}
  Inspectors = {}
  Closers = {w}
  Owners = {w}
  Events = {e1, e2}
  Capacity = 1
  Spurious = TRUE
  Joined = TRUE
INVARIANT NobodyInDestroyed
PROPERTY CallsReturn
