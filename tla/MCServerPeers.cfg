CONSTANTS
  Natives = {c1, c2, l1, l2, o1}
  DisplayLoops = {l1, l2}
  OwnLoops = {o1}
  Addrs = {a1, a2}
  Peers = {p1, p2, q1, q2}
  LoopPeers = {q1, q2}
  None = None
  Failures = {"native", "wrapper"}
SYMMETRY Symmetry
SPECIFICATION Spec
INVARIANTS SeenNativeResolves LiveNativePinsPeer FinalizedIsNotOwned
PROPERTY ImplementsPinnedPeer
CHECK_DEADLOCK FALSE
