CONSTANTS
  Nodes = {n1, n2, n3}
  Producers = {p1, p2}
  None = None
  Trigger = 1
  EvidenceWindow = 1
  ResolutionWindow = 1
  MinParticipants = 1
  MinStake = 1000
  MinResolution = 2000
  MajorityPct = 75
  UnavailablePct = 33
  LoserPct = 2
  StalematePct = 2
  Stake = 1000
  Bond = 200
  FirstBonus = 50
  MaxEvents = 4
  MaxStray = 1
  MaxTime = 3
SYMMETRY Identities
SPECIFICATION Spec
INVARIANTS
  EarnersDoNotJudge
CHECK_DEADLOCK FALSE
