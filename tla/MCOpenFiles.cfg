SPECIFICATION Spec
CONSTANTS
  Objects = {o1, o2, o3}
  Names = {f, g}
  NumFds = 3
  BufferSize = 1
  MaxLen = 2
SYMMETRY Symmetry
INVARIANTS
  TypeOK
  DescriptorsOwned
  NoStrayBytes
  SoleWriterOwnsFile
CHECK_DEADLOCK FALSE
