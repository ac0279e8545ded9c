SPECIFICATION Spec
CONSTANTS
  Peer = {p1, p2}
  MaxHistory = 2
  MaxSay = 2
  InOrder = FALSE
SYMMETRY PeerSymmetry
CHECK_DEADLOCK FALSE
INVARIANTS TypeOK JoinerMissesNothing ReplayOmitsLeavers KnowsEveryMember
