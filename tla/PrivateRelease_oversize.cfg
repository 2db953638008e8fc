CONSTANTS
  d1 = d1
  g1 = g1
  bob = bob
  carol = carol
  NoItem = NoItem
  DMs = {d1}
  Gates = {}
  Contacts = {bob}
  ContactOf <- OneContact
  Oversize = {d1}
  SecureMode = TRUE
  ApprovalEnabled = TRUE
  InitiallyUp = {"strong", "attested", "accepting", "room", "direct"}
  Flapping = {}
  MaxFaults = 0
SPECIFICATION FairSpec
PROPERTIES OversizeFallsBack
