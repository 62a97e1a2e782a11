\* A 3 x 2 image in blocks of one pixel: 6 blocks, two workers and the GUI.
CONSTANTS
  Width = 3
  Height = 2
  BlockSize = 1
  Threads = {w1, w2}
  NoThread = NoThread
  NoBlock = NoBlock
  Gui = Gui
SPECIFICATION Spec
INVARIANTS
  RenderTypeOK
  Accounted
  NextNeverFails
  ImageComplete
  SameImageEveryRun
  NoTornFrame
PROPERTIES
  RenderEnds
  ImplementsRenderJob
CHECK_DEADLOCK FALSE
