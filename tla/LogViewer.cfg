SPECIFICATION FairSpec
CONSTANTS
  None = None
  Lengths = {2, 3, 4}
  TailMaxBytes = 7
  PageChunkBytes = 3
  DeltaMaxBytes = 2
  RotateAt = 9
  MaxLines = 2
  PageLines = 1
  HistoryMaxLines = 3
  MaxWritten = 4
  MaxEvents = 1
  MaxPages = 1

  
PROPERTIES
  PagesLeadBack
  FollowsTheLog
CHECK_DEADLOCK FALSE
