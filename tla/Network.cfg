SPECIFICATION FairSpec
CONSTANTS
  Networks = {home}
  NoNetwork = NoNetwork
  Programs = {"scan", "connect", "ntp", "mqtt", "visit"}
  MaxDepth = 4
INVARIANTS RequestsKept StringsKept
PROPERTY EverythingEnds
CHECK_DEADLOCK FALSE
