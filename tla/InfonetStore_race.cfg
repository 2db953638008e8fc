CONSTANTS
  ana = ana
  luis = luis
  loop = loop
  sync = sync
  Timer = Timer
  NoEvent = NoEvent
  Authors = {ana, luis}
  Writers = {loop, sync}
  Resets = FALSE
  Outages = FALSE
  MaxSequence = 1
  MaxPrivate = 1
  MaxEvents = 2
  MaxFaults = 0
SPECIFICATION Spec
INVARIANTS AlwaysLinked
