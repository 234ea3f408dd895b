SPECIFICATION StubSpec
CONSTANTS
  s1 = s1
  s2 = s2
  s3 = s3
  Servers <- ThreeServers
  Blocks = 2
SYMMETRY Exchangeable
INVARIANTS
  AloneIsRight
  SettledIsWhole
