SPECIFICATION Spec
CONSTANTS
  Name = {p, q}
  Attached = {}
  Value = {0, 1}
  Always = always
  MaxSteps = 4
  MaxDepth = 2
SYMMETRY AlikeNames
INVARIANTS
  SameCheck
\* A program ends or fails.
CHECK_DEADLOCK FALSE
