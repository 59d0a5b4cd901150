CONSTANTS
  Producers = {p1, p2}
  Consumers = {c1}
  Clients = {m1}
  Size = 2
  Nobody = Nobody
  OverlapStop = FALSE
  Faults = {}
SPECIFICATION TestSpec
INVARIANTS ExpectationsHold
PROPERTIES TestsEnd
