SPECIFICATION Spec
CONSTANTS
  MaxMessage = 3
  MaxFragment = 2
  MaxInbox = 2
  MaxTexts = 1
  MaxCount = 3
CHECK_DEADLOCK FALSE
INVARIANT RefusalIsAnswered
