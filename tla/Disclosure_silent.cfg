SPECIFICATION Spec
CONSTANT Programs <- SilentPrograms
INVARIANT EveryDisclosureIsNamed
CHECK_DEADLOCK FALSE
