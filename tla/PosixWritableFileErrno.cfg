SPECIFICATION Spec
CONSTANTS
  MaxBytes = 2
  CloseReports = FALSE
INVARIANT StatusDescribesFailure
CHECK_DEADLOCK FALSE
