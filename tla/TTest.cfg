\* Two BSDFs at two angles, with one reference: the smallest lists the check at
\* the head of activate lets pass with more than one BSDF.
CONSTANT MaxLength = 2
SPECIFICATION Spec
INVARIANT OneForEachAngle
\* The test ends, or throws.
CHECK_DEADLOCK FALSE
