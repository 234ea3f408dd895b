SPECIFICATION Spec
CONSTANT Programs <- SmallPrograms
INVARIANTS
  EveryDisclosureIsNamed
  DiscloseOnlyRemoves
CHECK_DEADLOCK FALSE
