SPECIFICATION ProgramSpec
CONSTANTS
  Files = {"two", "one", "zero"}
  Patterns = {"", "Hello", "World", "Junk"}
  NumTests <- MCNumTests
  Contains <- MCContains
  MaxAsserts = 2
  Width = 2
  Thresholds <- MCThresholds
  UintLim = 4
  Rows = {1, 2}
  MaxBins = 2
  Sizes = {0, 1, 3}
INVARIANTS
  ProgramTypeOK
  EveryTestRegistered
  ExitTellsVerdict
  ObjectsLive
  VerdictsRight
  ListingComplete
PROPERTY ProgramEnds
