SPECIFICATION FairSpec
CONSTANTS
  Timeout = 2
  Poll = 1
  Grace = 1
  MaxAttempts = 2
  RetryDelay = 2
  Codes = {0, 255}
  PipeSize = 1
  MaxOutput = 2
  MaxTime = 7
  Calls <- EachPlatform
INVARIANTS
  CallsAreInTime
  FinishedRunsCount
  KillsAreClean
  StderrWholeOrLost
PROPERTIES
  NothingHangs
