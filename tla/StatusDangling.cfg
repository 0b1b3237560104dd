SPECIFICATION Spec
CONSTANTS
  Objects = {s1, s2}
  Blocks = {b1, b2}
  Values = {v1}
INVARIANT StateIsArray
CHECK_DEADLOCK FALSE
