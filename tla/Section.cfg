SPECIFICATION MCSpec
CONSTANTS
  desk1 = desk1
  desk2 = desk2
  Null = Null
  Requests = {desk1, desk2}
  Handles <- TwoArbiters
  NumPlayers = 3
  MaxPlayers = 3
  HasFee = TRUE
  Legs = 1
  GameResults = {"WHITE_WIN", "DRAW"}
  ByeResults = {"BYE_ZERO"}
  MaxRounds = 2
  MaxCrashes = 1
INVARIANTS
  DeskIsSound
  RoundsAreSound
  SwissIsTheBest
  TableIsSound
  MatchingIsBest
  OfficeKeepsItsWord
  ConsoleIsTrue
PROPERTIES
  SeatsHold
CHECK_DEADLOCK FALSE
