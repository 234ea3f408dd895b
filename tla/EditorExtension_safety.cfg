SPECIFICATION FairSpec
CONSTANTS
  v = v
  w = w
  Windows = {v, w}
  MaxOps <- TwoAndTwo
  MaxChanges = 1
  Settings = {Absent, "good"}
  Worlds <- Machines
  Absent = Absent
INVARIANTS
  OneHeldServer
  StoredBinaryIsWhole
  RunsTheRightServer
  StaleSettingsArePrompted
PROPERTIES
  OpsSettle
CHECK_DEADLOCK FALSE
