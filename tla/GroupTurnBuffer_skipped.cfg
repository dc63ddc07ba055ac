SPECIFICATION Spec
CONSTANTS
  p1 = p1
  p2 = p2
  emily = emily
  Participants <- Two
  Emily = emily
  MaxRows = 3
  MaxReplies = 0
  MaxFaults = 0
INVARIANT AnchorBehindUnseen
CHECK_DEADLOCK FALSE
