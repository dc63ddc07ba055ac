SPECIFICATION FairSpec
CONSTANTS
  p1 = p1
  p2 = p2
  emily = emily
  Participants <- Two
  Emily = emily
  MaxRows = 2
  MaxReplies = 1
  MaxFaults = 1
INVARIANT TypeOK
INVARIANT HeldExactlyOnce
INVARIANT LockHasTurn
PROPERTY FreezeNeedsQuiet
PROPERTY KeepsPromise
PROPERTY RestoredTurnRunsAgain
CHECK_DEADLOCK FALSE
