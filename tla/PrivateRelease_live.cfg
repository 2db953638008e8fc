CONSTANTS
  d1 = d1
  g1 = g1
  bob = bob
  carol = carol
  NoItem = NoItem
  DMs = {d1}
  Gates = {g1}
  Contacts = {bob}
  ContactOf <- OneContact
  Oversize = {}
  SecureMode = TRUE
  ApprovalEnabled = TRUE
  InitiallyUp = {"strong", "attested", "accepting", "room"}
  Flapping = {"strong", "direct", "tor"}
  MaxFaults = 1
SPECIFICATION FairSpec
PROPERTIES
  NothingBelowFloorAllPass
  EventuallyDelivered
  UserEventuallyAsked
