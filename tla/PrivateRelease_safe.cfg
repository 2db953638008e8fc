CONSTANTS
  d1 = d1
  g1 = g1
  bob = bob
  carol = carol
  NoItem = NoItem
  DMs = {d1}
  Gates = {}
  Contacts = {bob, carol}
  ContactOf <- OneContact
  Oversize = {d1}
  SecureMode = TRUE
  ApprovalEnabled = TRUE
  InitiallyUp = {"strong", "attested", "accepting", "room", "direct"}
  Flapping = {"anon", "hidden", "direct", "attested", "accepting"}
  MaxFaults = 2
SPECIFICATION Spec
INVARIANTS
  TypeOK
  OneSendPerFault
  RelayOnlyIfAsked
  ChoiceIsSettled
PROPERTIES
  AnonymousNeverDirect
  DeliveryImplemented
