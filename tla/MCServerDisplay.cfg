CONSTANTS
  Displays = {d1, d2, d3}
  Globals = {g1}
  Addrs = {a1, a2}
  None = None
  Moves = {"noDisplay", "noPair", "noGlobal", "noHandler", "stale", "again", "threads"}
SPECIFICATION Spec
INVARIANTS DisplayResolves
PROPERTIES ImplementsPinnedPeer DestroyedDisplayIsReclaimed
CHECK_DEADLOCK FALSE
