SPECIFICATION FairSpec
CONSTANTS
  MaxMessage = 3
  MaxFragment = 2
  MaxInbox = 2
  MaxTexts = 1
  MaxCount = 3
CHECK_DEADLOCK FALSE
INVARIANTS TypeOK WholeMessages CounterExact BroadcastKeepsSocket
PROPERTIES OnlySilentDropped RefusedPeerLeaves LostClientLeaves WriteLockReleased
