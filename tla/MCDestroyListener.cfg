CONSTANTS
  Objects = {o1, o2}
  Listeners = {l1, l2, l3}
  Nil = Nil
  ListenerMoves = {"throw", "detachNext", "attachDying", "rearm"}
SPECIFICATION ListenerSpec
INVARIANT NoFault
PROPERTIES ImplementsOneShot DyingIsFreed
CHECK_DEADLOCK FALSE
