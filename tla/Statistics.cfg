SPECIFICATION FairSpec
CONSTANTS
  MaxPeriod = 4
  PushInterval = 2
  MaxTime = 6
  MaxConnected = 2
INVARIANTS TypeOK PointsBounded JsonIsHistory
PROPERTY ConnectionsSampled
