CONSTANTS
  ana = ana
  luis = luis
  loop = loop
  sync = sync
  Timer = Timer
  NoEvent = NoEvent
  Authors = {ana}
  Writers = {loop}
  Resets = TRUE
  Outages = FALSE
  MaxSequence = 1
  MaxPrivate = 1
  MaxEvents = 1
  MaxFaults = 0
SPECIFICATION Spec
PROPERTIES DomainsKept
