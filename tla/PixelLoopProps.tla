---------------------------- MODULE PixelLoopProps ----------------------------
(***************************************************************************)
(* What the loop over the samples of a block promises to a render.         *)
(***************************************************************************)
EXTENDS PixelLoop

(* No subscript leaves its array: the sample index that next2D asserts to  *)
(* be in its table (stratified.cpp:113), the table, the weights of a       *)
(* footprint and their places in the filter, wherever in its pixel a       *)
(* sample falls (block.cpp:82-85), and the corner of a block that is added *)
(* to the image (block.cpp:99).  Nor do the calls of Li exceed the stack:  *)
(* there are no more than m_maxRecursion and one (whitted.cpp:20, 48).     *)
WithinLimits ==
  /\ pc \in {"sample", "trace", "put"} => sampleIndex \in 0 .. SampleCount - 1
  /\ sampler.stratified => dimension \in 0 .. sampler.tables
  /\ level \in 0 .. MaxRecursion /\ depth \in 0 .. MaxRecursion + 1
  /\ pc = "put" =>
       \A p \in Points, a \in Axes :
         /\ Highest(p, a) - Lowest(p, a) + 1 <= WeightSize
         /\ \A c \in Lowest(p, a) .. Highest(p, a) : Entry(p, a, c) \in 0 .. Resolution
  /\ \A c \in Corner : <<c[1] + offset[1], c[2] + offset[2]>> \in ImageCells

(* What the filter, centred on the sample, gives to a pixel of the image.  *)
Share(p, c) ==
  LET dist(a) == Distance((c[a] - Border) * Unit + Unit \div 2, p[a])
      value(a) == IF dist(a) < radius THEN Filter[(dist(a) * Resolution) \div radius] ELSE 0
  IN  value(1) * value(2)

(* That the image is rendered in blocks cannot be seen in it: a sample     *)
(* gives every pixel of the whole image, its border included, what the     *)
(* filter gives it, however near the sample is to an edge of its block and *)
(* however the block is cut; a sample with an invalid radiance gives       *)
(* nothing (block.cpp:19, 61-101).                                         *)
BlocksInvisible ==
  pc = "done" =>
    \A c \in ImageCells : image[c] = (IF lit.at = <<>> THEN 0 ELSE Share(lit.at, c))

(* As sampler.h:39-46 has it, every sample of a pixel has components of    *)
(* its own: no entry of a table is used twice in a pixel, whatever the     *)
(* integrator requests in between, and with a table for the film the       *)
(* samples of a pixel visit every stratum of it once.                      *)
SamplesFresh ==
  /\ \A a, b \in DOMAIN drawn : drawn[a] = drawn[b] => a = b
  /\ sampler.stratified /\ sampler.tables > 0 =>
       /\ \A a, b \in DOMAIN film : film[a] = film[b] => a = b
       /\ \A a \in DOMAIN film : film[a] # 0

(* Every block is finished: rays are followed to the limit of the          *)
(* recursion only, and the loops come to their last pixel                  *)
(* (viewer.cpp:291-313, whitted.cpp:20).                                   *)
BlockEnds == <>(pc = "done")
=============================================================================
