\* Every fault the programs handle, at any moment, and one other client.
CONSTANTS
  Faults = {"timeout", "flush", "setup"}
  Strangers = 1
SPECIFICATION FairSpec
\* Both programs end.
CHECK_DEADLOCK FALSE
INVARIANTS
  TypeOK
  NoReceiverNotReady
  FlagsCoverProvider
  RequestsAnswered
PROPERTIES
  ImplementsHandshake
  Termination
