SPECIFICATION OwnFairSpec
CONSTANTS
  Conn = {c1, c2}
  Name = {n1}
  NoRoom = NoRoom
  MaxMissed = 2
INVARIANTS TypeOK RosterExact RegisteredRoomHasKeeper LeaversFreed RoomsFreed
PROPERTIES DesertedRoomUnregistered LostMemberDropped
