SPECIFICATION FrontSpec
CHECK_DEADLOCK FALSE
CONSTANTS
  Texts     <- MCTexts
  Names     = {"a", "b", "f"}
  MaxErrors = 3
  Trees     <- MCTrees
  Lists     <- MCLists
  Spelled   <- MCSpelled
INVARIANTS
  TokensAreLongest
  NothingLost
  PositionsExact
  WrittenParsesBack
  NothingDropped
