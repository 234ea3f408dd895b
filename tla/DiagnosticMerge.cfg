SPECIFICATION Spec
CONSTANTS
  MaxLength = 5
  MaxTokens = 2
  SavedTexts <- MCSavedTexts
  MaxDiagnostics = 1
  MaxNative = 2
  MaxLines = 2
INVARIANTS
  EveryMessageIsSaid
  NothingIsLost
  ColumnsAgree
  CompilerColumnsFit
  TokensSurvive
CHECK_DEADLOCK FALSE
