SPECIFICATION Spec
CONSTANTS
  Programs <- AllPrograms
  Surfaces <- SomeSurfaces
  Instantiations <- Chosen
  WordBits = 2
  MaxWidth = 3
  MaxLength = 2
  MaxDepth = 3
  MaxNesting = 3
  FieldSize = 9
INVARIANTS
  DiagnosticsAreExact
  AnswersAreRight
CHECK_DEADLOCK FALSE
