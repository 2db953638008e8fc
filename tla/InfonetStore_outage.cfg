CONSTANTS
  ana = ana
  luis = luis
  loop = loop
  sync = sync
  Timer = Timer
  NoEvent = NoEvent
  Authors = {ana}
  Writers = {loop}
  Resets = FALSE
  Outages = TRUE
  MaxSequence = 2
  MaxPrivate = 2
  MaxEvents = 2
  MaxFaults = 1
SPECIFICATION Spec
INVARIANTS StartKeepsFile
