SPECIFICATION Spec
CONSTANTS
  Procs = {p1, p2}
  Paths <- MCPaths
  Layouts <- MCLayouts
  Contents <- MCContents
  Commands <- MCCommands
  Replacements <- MCReplacements
  EditedTo <- MCEditedTo
  MAX_ACQUISITION_ATTEMPTS = 2
  MaxCommands = 3
  MaxEdits = 1
  MaxCrashes = 1
SYMMETRY Symmetry
INVARIANTS
  ReportsOneState
  PlanHoldsWhileCommitting
CHECK_DEADLOCK FALSE
