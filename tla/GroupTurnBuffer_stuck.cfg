SPECIFICATION FairSpec
CONSTANTS
  p1 = p1
  p2 = p2
  emily = emily
  Participants <- Two
  Emily = emily
  MaxRows = 2
  MaxReplies = 0
  MaxFaults = 0
PROPERTY OpenTurnIsClosed
CHECK_DEADLOCK FALSE
