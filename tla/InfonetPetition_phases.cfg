CONSTANTS
  n1 = n1
  n2 = n2
  None = None
  Nodes = {n1, n2}
  Reps = {1, 2}
  Start <- MCStart
  Decayed <- MCDecayed
  SignPct = 50
  QuorumPct = 50
  MajorityPct = 67
  SignWindow = 1
  VoteWindow = 1
  ChallengeWindow = 1
  Bounds <- MCBounds
  MaxTime = 4
SPECIFICATION Spec
INVARIANTS
  TypeOK
PROPERTIES
  EveryVoteCounts
  PhasesAdvance
CHECK_DEADLOCK FALSE
