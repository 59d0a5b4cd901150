CONSTANTS
  Producers = {p1}
  Consumers = {c1}
  Clients = {m1, m2}
  Size = 1
  Nobody = Nobody
SPECIFICATION FairActorSpec
INVARIANTS ActorTypeOK NoLostStop LeftForGood
PROPERTIES UsesTheBuffer NoNewRoundOnceStopped StopReturns
