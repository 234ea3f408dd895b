CONSTANTS
  Workspaces <- MCWorkspaces
  Indexed <- MCIndexed
  Stdlib <- MCStdlib
  NoFile <- MCNoFile
  Bare <- MCBare
  NewNames <- MCNewNames
  Reserved <- MCReserved
SPECIFICATION Spec
INVARIANTS
  ResolvesWhatIsVisible
  QuietImportsResolve
  CompletionAgrees
  ReferencesAgree
PROPERTY RenamedSitesAgree
CHECK_DEADLOCK FALSE
