CONSTANTS
  MaxStarts = 2
  MaxSends = 1
  MaxEvents = 3
  MaxRefused = 10
SPECIFICATION FairSpec
INVARIANTS TypeOK ClearsBound OneEnd
PROPERTIES QuietAfterStop StopCloses StartAnswered
CHECK_DEADLOCK FALSE
