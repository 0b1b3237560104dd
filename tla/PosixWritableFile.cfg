SPECIFICATION Spec
CONSTANTS
  MaxBytes = 3
  CloseReports = TRUE
INVARIANTS
  TypeOK
  NothingLostSilently
  SyncedIsStable
PROPERTY ImplementsContract
CHECK_DEADLOCK FALSE
