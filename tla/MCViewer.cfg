\* Two scenes and three images: a render, the load that takes it away and the
\* render that follows it, with an image from a file among them.
CONSTANTS
  Scenes = {s1, s2}
  Images = {i1, i2, i3}
  NoScene = NoScene
  NoImage = NoImage
SPECIFICATION Spec
INVARIANTS
  ViewerTypeOK
  PointersLive
  NoDanglingRender
  OneRender
  DoneMeansFinished
  NotLocked
PROPERTIES
  PictureShown
CHECK_DEADLOCK FALSE
