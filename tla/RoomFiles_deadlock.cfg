SPECIFICATION FairSpec
CONSTANTS
  Conn = {c1, c2, c3}
  PingLoop = PingLoop
  Nobody = Nobody
  MaxFiles = 1
CHECK_DEADLOCK FALSE
PROPERTY JoinerGetsRoom
