CONSTANTS
  Pools = {p1, p2, p3}
  Files = {f1, f2, f3}
  Addrs = {a1, a2, a3}
  MaxFds = 4
  Nil = Nil
  PoolMoves = {"createFails", "resizeFails", "noBuffer", "closeOriginal"}
SYMMETRY Symmetry
SPECIFICATION PoolSpec
INVARIANTS ReadsItsFile NoRegionLeaks
CHECK_DEADLOCK FALSE
