SPECIFICATION FairSpec
CONSTANTS
  MaxMessages = 4
  ScanFiles = 2
  Channels <- BothChannels
INVARIANTS
  NoneForgotten
  AnswersAreCurrent
PROPERTIES
  EveryRequestIsAnswered
  WaitingClientsAreServed
  ImplementsLedger
CHECK_DEADLOCK FALSE
