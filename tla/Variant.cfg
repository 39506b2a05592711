CONSTANTS
  Variants = {a, b, c}
  Size = 2
  Values = {x, y}
  Moved = Moved
  Nothing = Nothing
  MaxBorn = 4
SPECIFICATION Spec
SYMMETRY Symmetric
INVARIANTS
  Accounted
PROPERTIES
  OnlyExceptionsBreak
  AssignmentTakes
CHECK_DEADLOCK FALSE
