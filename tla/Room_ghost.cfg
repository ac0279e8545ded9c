SPECIFICATION Spec
CONSTANTS
  Peer = {p1, p2}
  MaxHistory = 9
  MaxSay = 0
  InOrder = TRUE
CHECK_DEADLOCK FALSE
INVARIANT NoGhostParticipant
