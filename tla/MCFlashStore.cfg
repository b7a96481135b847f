SPECIFICATION Spec
CONSTANTS
  Builds <- MCBuilds
  Layout <- MCLayout
  Accepts <- MCAccepts
  Default <- MCDefault
  AnyValue = {0, 1, 2, 3}
  MaxCells = 2
  Blank = Blank
  Nothing = Nothing
  Faults = FALSE
INVARIANTS
  TypeOK
PROPERTIES
  ImplementsSettingsStore
