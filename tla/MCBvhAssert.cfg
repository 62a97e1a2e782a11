\* The sides of a cone, in a Debug build.
CONSTANTS
  N = 3
  Triangles <- MCCone
  TargetCellSize = 2
  MaxDepth = 2
  NbFacesRange = 65536
  Heights = {0}
  Asserts = TRUE
SPECIFICATION Spec
INVARIANTS
  AssertionsHold
