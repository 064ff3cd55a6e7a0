CONSTANTS
  Proxies = {p1, p2}
  None = None
  MaxEvents = 2
  MaxDepth = 2
  MaxRaised = 2
  Moves = {"noNative", "noRef", "memory", "throw", "noListener", "useDead"}
SPECIFICATION Spec
INVARIANTS NothingFreedWhileConnected NoJavaWhilePending ExceptionsReachTheCaller
PROPERTIES ImplementsPinnedPeer DestroyedIsReclaimed
CHECK_DEADLOCK FALSE
