CONSTANTS
  Callers = {"postEvent", "marshal"}
  Versions = {1, 2}
  MaxArgs = 3
SPECIFICATION Spec
INVARIANT SentIsComplete
CHECK_DEADLOCK FALSE
