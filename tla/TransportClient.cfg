\* One run of the client.  A CQ of one entry is enough for the one slot that
\* uses it, and is full when the slot is in flight.
CONSTANTS
  Role = "client"
  Capacity = 1
SPECIFICATION Spec
INVARIANTS
  HandlesTracked
CHECK_DEADLOCK FALSE
