\* A face without area, and the number zero; the other faces are wide enough
\* not to be rounded away.
CONSTANTS
  Areas = {0, 1}
  MaxEntries = 2
  Parts = 8
  SizeRange = 65536
SPECIFICATION Spec
INVARIANTS
  EverySampleReusable
