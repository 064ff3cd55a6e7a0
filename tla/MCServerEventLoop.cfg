CONSTANTS
  i1 = i1
  i2 = i2
  f1 = f1
  s1 = s1
  Handlers <- MCHandlers
  Kind <- MCKind
  MaxDispatches = 3
  None = None
  Moves = {"throw", "nest", "nestIdle", "noRef", "noObject"}
SPECIFICATION Spec
INVARIANTS MemorySafe HandlersOwned
PROPERTIES DroppedLoopIsReleased
CHECK_DEADLOCK FALSE
