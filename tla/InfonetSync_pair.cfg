CONSTANTS
  ana = ana
  sol = sol
  e1 = e1
  e2 = e2
  e3 = e3
  nobody = nobody
  Nobody = nobody
  Nodes <- PairNodes
  Peers <- PairPeers
  PushPeers <- SolPushes
  Messages <- ShortMessages
  Author <- ShortAuthor
  Sequence <- ShortSequence
  Redacted = {e2}
  Threads = {"loop", "kick"}
  Aging = TRUE
  SmallChain = 2
  Dense = 0
  PageLimit = 1
  MaxRounds = 1
  BatchSize = 2
  FaultKinds = {"request", "news", "save", "restart"}
  MaxFaults = 1
SPECIFICATION Spec
INVARIANTS
  TypeOK
  FollowersAgree
  SyncedIsTaken
