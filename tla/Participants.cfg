SPECIFICATION Spec
CONSTANTS
  Peer = {p1, p2, p3}
  Nick = {1, 2}
  NoPeer = NoPeer
  MaxReplay = 2
SYMMETRY PeerSymmetry
CHECK_DEADLOCK FALSE
INVARIANTS TypeOK MergeNeverFails ListIsExact
