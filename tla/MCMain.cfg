SPECIFICATION MCSpec
CONSTANTS
  Files <- SomeFiles
  Source = "main"
  Names <- SomeNames
  Programs <- MCPrograms
  StopAfter <- AllPhases
  MaxErrors = 6
  MaxEvents = 60
  Words <- MCWords
  MaxWords = 4
  Targets <- MCTargets
  None = None
INVARIANTS
  ImportsAreInclusions
  SuccessIsComplete
  LettersSelect
  CompiledIsUnderstood
CHECK_DEADLOCK FALSE
