SPECIFICATION FairSpec
CONSTANTS
  a = a
  b = b
  plain = plain
  uses = uses
  takes = takes
  Files = {a, b}
  Texts = {plain, uses, takes}
  Raws = {"b"}
  Imports <- UsesOrTakes_b
  Candidates <- ShadowedB
  Absent = Absent
  MaxChanges = 4
INVARIANTS
  IndexIsCoherent
  PublishedMapsAreCurrent
  TextsAreCurrent
PROPERTIES
  QueriesEnd
CHECK_DEADLOCK FALSE
