CONSTANTS
  Callers = {"postEvent", "marshal", "dispatchRequest", "dispatchEvent"}
  Versions = {1, 2}
  MaxArgs = 3
SPECIFICATION Spec
INVARIANTS TypeOK FirstVersionIsComplete CalledIsLegal NewerIsNotSent ElementsAreFreed RefsFit HandlerIsFound
CHECK_DEADLOCK FALSE
