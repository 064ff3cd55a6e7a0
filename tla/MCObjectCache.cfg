CONSTANTS
  Threads = {t1, t2}
  None = None
  Calls = {"OutOfMemory", "toUtf8", "unbox", "registry", "fixed"}
  Moves = {"lookup", "globalRef", "malloc", "reorder", "overlap"}
  MaxFailures = 2
SPECIFICATION Spec
INVARIANTS UsesLoaded FailureIsReported
PROPERTIES CallsReturn StableOnceLoaded
CHECK_DEADLOCK FALSE
