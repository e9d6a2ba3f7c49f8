\* Every fault the programs handle, at any moment.
CONSTANT Faults = {"timeout", "flush", "setup"}
SPECIFICATION FairSpec
\* Both programs end.
CHECK_DEADLOCK FALSE
INVARIANTS
  TypeOK
  NoReceiverNotReady
  NoProtocolError
  SlotsCoverProvider
  ClientOkMeansDelivered
PROPERTIES
  ImplementsHandshake
  Termination
