CONSTANTS
  MaxPeers = 2
  MaxListens = 2
  MaxCalls = 1
  MaxEvents = 1
  IoThreads = 2
  MaxRefused = 1
SPECIFICATION FairSpec
INVARIANTS TypeOK BindsFirst
PROPERTIES QuietAfterUninit UninitCloses AcceptsAll
CHECK_DEADLOCK FALSE
