\* A provider that delivers, deadlines that do not pass, one client.
CONSTANTS
  Faults = {}
  Strangers = 0
SPECIFICATION ReliableSpec
\* Both programs end.
CHECK_DEADLOCK FALSE
PROPERTY OnePasses
