CONSTANTS
  alice = alice
  mallory = mallory
  hello = hello
  spam = spam
  note = note
  Senders = {alice, mallory}
  Requests = {hello, spam}
  Shareds = {note}
  SenderOf <- MCSenderOf
  TTL = 2
  EpochLength = 2
  RequestLimit = 2
  SharedLimit = 1
  BatchLimit = 1
  MaxTime = 3
  MaxDeposits = 2
  MaxChanges = 2
  MaxRestarts = 1
SPECIFICATION Spec
INVARIANTS
  TypeOK
  TakenOnce
  ClaimsReachAll
  BlockedIsUnread
  QuietFileIsCurrent
PROPERTIES PollLosesNothing
CHECK_DEADLOCK FALSE
