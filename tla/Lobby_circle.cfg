SPECIFICATION OwnSpec
CONSTANTS
  Conn = {c1, c2}
  Name = {n1}
  NoRoom = NoRoom
  MaxMissed = 1
INVARIANT AbandonedRoomDestroyed
