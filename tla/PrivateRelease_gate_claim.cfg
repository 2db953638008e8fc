CONSTANTS
  d1 = d1
  g1 = g1
  bob = bob
  carol = carol
  NoItem = NoItem
  DMs = {}
  Gates = {g1}
  Contacts = {bob}
  ContactOf <- NoContact
  Oversize = {}
  SecureMode = TRUE
  ApprovalEnabled = TRUE
  InitiallyUp = {"strong", "attested", "accepting", "room", "direct"}
  Flapping = {"direct"}
  MaxFaults = 0
SPECIFICATION Spec
INVARIANTS GatePublishedIfDelivered
