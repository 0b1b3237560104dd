SPECIFICATION Spec
CONSTANTS
  MaxBytes = 4
  BufferSize = 2
  CloseReports = TRUE
INVARIANTS
  TypeOK
  NothingLostSilently
  SyncedIsStable
PROPERTIES
  ImplementsContract
  ClosedMeansStored
CHECK_DEADLOCK FALSE
