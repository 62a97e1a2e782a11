\* An image of 3x2 pixels in blocks of 2x2, a quarter of a pixel to the unit;
\* radii of the box and the Gaussian filter, and one in between.
CONSTANTS
  Width = 3
  Height = 2
  BlockSize = 2
  Unit = 4
  Radii = {2, 3, 8}
  Resolution = 32
  Samplers <- MCSamplers
  MaxRecursion = 2
  Lights = 1
SPECIFICATION Spec
INVARIANTS
  WithinLimits
  BlocksInvisible
  SamplesFresh
PROPERTIES
  BlockEnds
\* The block is finished.
CHECK_DEADLOCK FALSE
