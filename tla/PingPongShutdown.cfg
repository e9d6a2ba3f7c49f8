\* No fault at all: what does the message of a failing program mean?
CONSTANTS
  Faults = {}
  Strangers = 0
SPECIFICATION Spec
\* Both programs end.
CHECK_DEADLOCK FALSE
INVARIANT EndedBeforeCompletion
