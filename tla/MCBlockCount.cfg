\* The number getBlockCount() returns while a 2 x 2 grid is handed out, against
\* what its comment promises.
CONSTANTS
  Width = 2
  Height = 2
  BlockSize = 1
  Threads = {t1, t2}
  NoThread = NoThread
  NoBlock = NoBlock
SPECIFICATION GenSpec
INVARIANTS
  CountIsTotal
