\* One run of the server.  A CQ of one entry is enough for the one slot that
\* uses it, and is full when the slot is in flight.
CONSTANTS
  Role = "server"
  Capacity = 1
SPECIFICATION FairSpec
INVARIANTS
  TypeOK
  HandlesTracked
  FreeSlotsAreFree
  NothingBusy
  OkMeansClosed
  AnsweredOnce
PROPERTIES
  AnsweredInTime
  Termination
  ImplementsLoan
CHECK_DEADLOCK FALSE
