CONSTANTS
  ana = ana
  sol = sol
  e1 = e1
  e2 = e2
  e3 = e3
  nobody = nobody
  Nobody = nobody
  Nodes <- PairNodes
  Peers <- PairPeers
  PushPeers <- NoPushes
  Messages <- PairMessages
  Author <- PairAuthor
  Sequence <- PairSequence
  Redacted = {e2}
  Threads = {"loop"}
  Aging = FALSE
  SmallChain = 2
  Dense = 0
  PageLimit = 1
  MaxRounds = 2
  BatchSize = 2
  FaultKinds = {}
  MaxFaults = 1
SPECIFICATION FairSpec
PROPERTIES FollowersCatchUp
