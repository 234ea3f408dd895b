CONSTANTS
  Workspaces <- MCSurprises
  Indexed <- MCIndexed
  Stdlib <- MCStdlib
  NoFile <- MCNoFile
  Bare <- MCBare
  NewNames <- MCNewNames
  Reserved <- MCReserved
SPECIFICATION Spec
PROPERTY RenameKeepsReferences
CHECK_DEADLOCK FALSE
