CONSTANTS
  Producers = {p1}
  Consumers = {c1}
  Clients = {m1, m2}
  Size = 0
  Nobody = Nobody
  OverlapStop = FALSE
  Faults = {"new", "start"}
SPECIFICATION FairManagerSpec
PROPERTIES CallsReturn
