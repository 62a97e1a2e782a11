\* Meshes of at most four faces; a granule is 1/32, so that faces may be
\* narrower or wider than the rounding.
CONSTANTS
  Areas = {0, 1, 5}
  MaxEntries = 4
  Parts = 32
  SizeRange = 65536
SPECIFICATION Spec
INVARIANTS
  EmptyOnlyByOne
  InProportion
