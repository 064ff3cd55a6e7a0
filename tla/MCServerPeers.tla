--------------------------- MODULE MCServerPeers ----------------------------
EXTENDS ServerPeers, TLC

Symmetry ==
  Permutations(Clients) \cup Permutations(DisplayLoops) \cup Permutations(OwnLoops)
    \cup Permutations(Addrs) \cup Permutations(LoopPeers) \cup Permutations(Peers \ LoopPeers)
=============================================================================
