\* Meshes of four faces, leaves of one face, trees of at most two levels below
\* the root, without assertions.
CONSTANTS
  N = 4
  Triangles <- MCTriangles
  TargetCellSize = 1
  MaxDepth = 2
  NbFacesRange = 65536
  Heights = {0, 1}
  Asserts = FALSE
SPECIFICATION Spec
INVARIANTS
  BvhTypeOK
  Aligned
  LeavesTile
  BoxesEnclose
  NearestFound
PROPERTIES
  SplitSorts
  ComputationsEnd
