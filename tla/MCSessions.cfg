CONSTANTS
  None = None
  Conns = {c1, c2, c3}
  Names = {a, b, d}
  Capacities = {1, 2}
  Rotation = 1
  KeyLifetime = 2
  MaxTime = 2
  MaxSets = 1
SYMMETRY Symmetry
SPECIFICATION Spec
INVARIANTS
  RotationSafe
  CertsReleased
 
CHECK_DEADLOCK FALSE
