CONSTANTS
  Producers = {p1}
  Consumers = {c1}
  Clients = {m1, m2}
  Size = 1
  Nobody = Nobody
  OverlapStop = TRUE
  Faults = {}
SPECIFICATION ManagerSpec
INVARIANTS StopStopsEverybody
