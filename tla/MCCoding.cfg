SPECIFICATION Spec
CONSTANTS
  B = 4
  W32 = 1
  W64 = 3
  N32 = 2
  N64 = 5
  Numbers <- MCNumbers
  Slices <- MCSlices
  Noise = {0, 1, 3, 4, 6, 7}
  MaxNoise = 5
  MaxItems = 2
  IntLim = 8
INVARIANTS
  TypeOK
  RoundTrip
  FailsOnlyIfCut
  FitsInPlace
  LengthsAgree
  SlicesOrdered
CHECK_DEADLOCK FALSE
