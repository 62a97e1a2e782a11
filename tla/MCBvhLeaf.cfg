\* Meshes of two faces, which are one leaf: Mesh::buildBVH is also run for them,
\* and the search must not depend on a split.
CONSTANTS
  N = 2
  Triangles <- MCTriangles
  TargetCellSize = 2
  MaxDepth = 2
  NbFacesRange = 65536
  Heights = {0, 1}
  Asserts = FALSE
SPECIFICATION Spec
INVARIANTS
  NearestFound
