CONSTANTS
  Producers = {p1, p2}
  Consumers = {c1}
  Clients = {m1}
  Size = 1
  Nobody = Nobody
SPECIFICATION FairBufferSpec
INVARIANTS TypeOK FilledPrefix NoLostWakeup NeverBothAsleep
PROPERTIES Promise DismissedReturns ServedOrOvertaken OthersReturn
