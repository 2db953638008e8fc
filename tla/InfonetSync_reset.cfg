CONSTANTS
  ana = ana
  sol = sol
  e1 = e1
  e2 = e2
  e3 = e3
  nobody = nobody
  Nobody = nobody
  Nodes <- PairNodes
  Peers <- BothAsk
  PushPeers <- NoPushes
  Messages <- PairMessages
  Author <- BothAuthor
  Sequence <- BothSequence
  Redacted = {}
  Threads = {"loop"}
  Aging = FALSE
  SmallChain = 3
  Dense = 0
  PageLimit = 1
  MaxRounds = 2
  BatchSize = 2
  FaultKinds = {"request", "news", "save", "restart"}
  MaxFaults = 1
SPECIFICATION Spec
PROPERTIES ResetForLongerOnly
