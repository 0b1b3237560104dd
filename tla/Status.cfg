SPECIFICATION Spec
CONSTANTS
  Objects = {s1, s2, s3}
  Blocks = {b1, b2, b3}
  Values = {v1, v2}
INVARIANTS
  TypeOK
  OwnsItsArray
  NoLeak
  SaysItsValue
CHECK_DEADLOCK FALSE
