CONSTANTS
  Producers = {p1}
  Consumers = {c1}
  Clients = {m1}
  Size = 1
  Nobody = Nobody
SPECIFICATION FairActorSpec
PROPERTIES ProduceAddsAnElement
