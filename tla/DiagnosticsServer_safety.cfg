SPECIFICATION FairSpec
CONSTANTS
  a = a
  b = b
  Files = {a, b}
  None = None
  Configs <- EitherToolchain
  MaxRevision = 3
  MaxGen <- ThreeAndNone
INVARIANTS
  StoredSetIsOfThisSession
  SettledViewIsFresh
PROPERTIES
  ImplementsRegister
  NothingBlocks
  EditsReachEditor
