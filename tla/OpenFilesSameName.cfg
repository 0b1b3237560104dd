SPECIFICATION Spec
CONSTANTS
  Objects = {o1, o2}
  Names = {f}
  NumFds = 2
  BufferSize = 1
  MaxLen = 2
INVARIANT NewFileIsOwn
CHECK_DEADLOCK FALSE
