CONSTANTS
  ana = ana
  luis = luis
  loop = loop
  sync = sync
  Timer = Timer
  NoEvent = NoEvent
  Authors = {ana}
  Writers = {loop, sync}
  Resets = TRUE
  Outages = TRUE
  MaxSequence = 3
  MaxPrivate = 1
  MaxEvents = 3
  MaxFaults = 2
SPECIFICATION Spec
INVARIANTS TypeOK ChainLinks SequencesIncrease
PROPERTIES LedgerImplemented LoggedSurvives
SYMMETRY ThreadsAlike
CONSTRAINT Orderly
