SPECIFICATION Spec
CONSTANTS
  p1 = p1
  p2 = p2
  p3 = p3
  Processes = {p1, p2, p3}
  MaxStarts = 6
CHECK_DEADLOCK FALSE
SYMMETRY ProcessSymmetry
INVARIANTS
  OneUnlessTogether
