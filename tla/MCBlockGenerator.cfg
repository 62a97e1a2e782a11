\* An image of 7 x 5 pixels in blocks of 2: a grid of 4 x 3 blocks whose last
\* column and row are cut, two calling threads.
CONSTANTS
  Width = 7
  Height = 5
  BlockSize = 2
  Threads = {t1, t2}
  NoThread = NoThread
  NoBlock = NoBlock
SPECIFICATION GenSpec
INVARIANTS
  GenTypeOK
  DistinctBlocks
  CentreFirst
  LegsBounded
  EveryPixelOnce
PROPERTIES
  NextReturns
  ImplementsWorkPool
