\* A provider that delivers, and deadlines that do not pass.
CONSTANT Faults = {}
SPECIFICATION ReliableSpec
\* Both programs end.
CHECK_DEADLOCK FALSE
PROPERTY BothSucceed
