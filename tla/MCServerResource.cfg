CONSTANTS
  Clients = {c1, c2}
  Resources = {r1, r2}
  None = None
  Moves = {"throw", "noReport", "noNative", "unset", "useDead",
           "throwDead", "ownClient"}
SPECIFICATION Spec
INVARIANTS KeptWhileNative 
PROPERTIES DyingClientReleases
CHECK_DEADLOCK FALSE
