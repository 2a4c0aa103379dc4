CONSTANTS
  W = 2
  Values <- MCValues
  Nil = Nil

SPECIFICATION Spec
INVARIANT ValidConfigKept
