\* All documents of three nodes, and all scenes with integrator and camera and
\* three more nodes.  A parser that returned or threw stops.
CONSTANTS
  Files <- MCFiles
  Null = Null
  Default = Default
SPECIFICATION Spec
INVARIANTS
  ParserTypeOK
  TransformOwn
  SceneComplete
PROPERTIES
  Decides
CHECK_DEADLOCK FALSE
