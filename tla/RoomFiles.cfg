SPECIFICATION FairSpec
CONSTANTS
  Conn = {c1, c2, c3}
  PingLoop = PingLoop
  Nobody = Nobody
  MaxFiles = 2
CHECK_DEADLOCK FALSE
INVARIANTS TypeOK RegisteredFilesExact AnnouncedExact
PROPERTY OnlyAbbaBlocks
