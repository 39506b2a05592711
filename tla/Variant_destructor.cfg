CONSTANTS
  Variants = {a, b}
  Size = 2
  Values = {x}
  Moved = Moved
  Nothing = Nothing
  MaxBorn = 2
SPECIFICATION Spec
PROPERTIES
  DestructorDoesNotThrow
CHECK_DEADLOCK FALSE
