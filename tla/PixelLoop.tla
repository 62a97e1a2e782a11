------------------------------ MODULE PixelLoop ------------------------------
(***************************************************************************)
(* One block of a render: Viewer::renderBlock (core/viewer.cpp) with the   *)
(* sampler it drives (samplers/), the recursion of the integrator          *)
(* (integrators/whitted.cpp), and the two ImageBlock::put that carry a     *)
(* sample through the filter into the block and on into the image          *)
(* (core/block.cpp).                                                       *)
(*                                                                         *)
(* Lengths are integers, Unit to a pixel.  Putting samples is addition, so *)
(* it is enough to follow one: all samples of the block are black but the  *)
(* one called lit, whose radiance is 1.                                    *)
(***************************************************************************)
EXTENDS Integers, Sequences

CONSTANTS Width, Height,  \* the image, in pixels
          BlockSize,      \* BLOCK_SIZE
          Unit,           \* parts of a pixel, an even number
          Radii,          \* radii of filters, in parts
          Resolution,     \* FILTER_RESOLUTION
          Samplers,       \* configurations of the sampler
          MaxRecursion,   \* m_maxRecursion
          Lights          \* number of lights in the scene

ASSUME SizeAssumption ==
  /\ Width \in Nat \ {0} /\ Height \in Nat \ {0} /\ BlockSize \in Nat \ {0}
  /\ Unit \in Nat \ {0} /\ Radii \subseteq Nat \ {0} /\ Resolution \in Nat \ {0}

ASSUME TraceAssumption ==
  /\ Samplers \subseteq [stratified : BOOLEAN, xs : Nat \ {0}, ys : Nat \ {0},
                         jitter : BOOLEAN, tables : Nat]
  /\ MaxRecursion \in Nat
  /\ Lights \in Nat

VARIABLES offset, size,      \* of the block, as next() has set them
          radius,            \* m_filterRadius
          sampler,           \* stratified or not, its counts, m_jitterSamples, m_maxDimension
          x, y, i,           \* the loops of renderBlock
          sampleIndex, dimension, strata,  \* the sampler; strata is its first table
          drawn,             \* history: table entries read for this pixel
          film,              \* history: strata of this pixel's film samples
          level, depth,      \* recursionLevel of the ray, active calls of Li
          lit,               \* the sample that is not black, and where it fell
          local, image,      \* the two ImageBlocks
          pc

loops == <<x, y, i>>
table == <<sampleIndex, dimension, strata>>
setup == <<offset, size, radius, sampler>>
calls == <<level, depth>>
vars == <<setup, loops, table, drawn, film, calls, lit, local, image, pc>>

Axes == {1, 2}
Smaller(a, b) == IF a < b THEN a ELSE b
Larger(a, b) == IF a < b THEN b ELSE a
Distance(a, b) == IF a < b THEN b - a ELSE a - b
Ceil(a) == -((-a) \div Unit)
Floor(a) == a \div Unit

(* The constructor of ImageBlock: the border, and the size of the weights. *)
(* Faulty variants: the border is rounded down; the weights have no place  *)
(* for both ends.                                                          *)
BorderDown == Floor(radius - Unit \div 2)

Border == Ceil(radius - Unit \div 2)

WeightSizeShort == Ceil(2 * radius)

WeightSize == Ceil(2 * radius) + 1

(* The tabulated filter: falls from Resolution at its centre to 0.         *)
Filter == [k \in 0 .. Resolution |-> Resolution - k]

LocalCells == (0 .. BlockSize + 2 * Border - 1) \X (0 .. BlockSize + 2 * Border - 1)
ImageCells == (0 .. Width + 2 * Border - 1) \X (0 .. Height + 2 * Border - 1)
Black(cells) == [c \in cells |-> 0]

SampleCount == sampler.xs * sampler.ys

(* The block is any of the image's grid; renderBlock clears it.  The       *)
(* result was cleared before.                                              *)
Init ==
  /\ \E bx \in 0 .. (Width - 1) \div BlockSize, by \in 0 .. (Height - 1) \div BlockSize :
       /\ offset = <<bx * BlockSize, by * BlockSize>>
       /\ size = <<Smaller(BlockSize, Width - bx * BlockSize),
                   Smaller(BlockSize, Height - by * BlockSize)>>
  /\ radius \in Radii
  /\ sampler \in Samplers
  /\ x = 0 /\ y = 0 /\ i = 0
  /\ sampleIndex = 0 /\ dimension = 0 /\ strata = [s \in 1 .. SampleCount |-> s]
  /\ drawn = <<>> /\ film = <<>>
  /\ level = 0 /\ depth = 0
  /\ lit \in [pixel : (0 .. size[1] - 1) \X (0 .. size[2] - 1),
              index : 0 .. SampleCount - 1, at : {<<>>}]
  /\ local = Black(LocalCells)
  /\ image = Black(ImageCells)
  /\ pc = "pixel"

-----------------------------------------------------------------------------
(* generate(): with jitter each table is shuffled; of the points in the    *)
(* strata see Points.                                                      *)
Shuffles == {f \in [1 .. SampleCount -> 1 .. SampleCount] :
               \A a, b \in 1 .. SampleCount : f[a] = f[b] => a = b}

Generate ==
  /\ pc = "pixel"
  /\ strata' \in IF sampler.jitter THEN Shuffles ELSE {[s \in 1 .. SampleCount |-> s]}
  /\ sampleIndex' = 0
  /\ dimension' = 0
  /\ drawn' = <<>>
  /\ film' = <<>>
  /\ i' = 0
  /\ pc' = "sample"
  /\ UNCHANGED <<setup, x, y, calls, lit, local, image>>

(* k calls of next2D(): an entry of the next table each, then random       *)
(* numbers when the tables are used up.                                    *)
Draw(k) ==
  LET fromTables == IF sampler.stratified THEN Smaller(k, sampler.tables - dimension) ELSE 0
  IN  /\ drawn' = drawn \o [d \in 1 .. fromTables |-> <<dimension + d, sampleIndex>>]
      /\ dimension' = dimension + fromTables

(* The sample on the film: the centre of the pixel, or the first two       *)
(* numbers of the sample.                                                  *)
FilmSample ==
  /\ pc = "sample"
  /\ IF SampleCount = 1
       THEN UNCHANGED <<drawn, dimension, film>>
       ELSE /\ Draw(1)
            /\ film' = Append(film,
                 IF dimension < dimension' THEN strata[sampleIndex + 1] ELSE 0)
  /\ level' = 0
  /\ depth' = 1
  /\ pc' = "trace"
  /\ UNCHANGED <<setup, loops, sampleIndex, strata, lit, local, image>>

(* Li for a ray: it ends at the limit of the recursion, in the background, *)
(* or on a diffuse surface with a number pair for each light; a mirror or  *)
(* a dielectric uses one pair and traces another ray.  The calls return    *)
(* together.                                                               *)
TooDeep ==
  /\ pc = "trace"
  /\ level >= MaxRecursion
  /\ pc' = "put"
  /\ UNCHANGED <<setup, loops, table, drawn, film, calls, lit, local, image>>

Miss ==
  /\ pc = "trace"
  /\ level < MaxRecursion
  /\ pc' = "put"
  /\ UNCHANGED <<setup, loops, table, drawn, film, calls, lit, local, image>>

Shade ==
  /\ pc = "trace"
  /\ level < MaxRecursion
  /\ Draw(Lights)
  /\ pc' = "put"
  /\ UNCHANGED <<setup, loops, sampleIndex, strata, film, calls, lit, local, image>>

(* Faulty variant: the new ray starts at level 0.                          *)
DeeperNot == level

Deeper == level + 1

Bounce ==
  /\ pc = "trace"
  /\ level < MaxRecursion
  /\ Draw(1)
  /\ level' = Deeper
  /\ depth' = depth + 1
  /\ UNCHANGED <<setup, loops, sampleIndex, strata, film, lit, local, image, pc>>

-----------------------------------------------------------------------------
(* Where in the pixel a sample may fall: anywhere in its stratum, or in    *)
(* the middle of it.  Adding a number just below 1 to a coordinate may     *)
(* round up to the next pixel.                                             *)
InStratum(k, n) ==
  LET w == Unit \div n
  IN  IF sampler.jitter THEN k * w .. (k + 1) * w - (IF k + 1 = n THEN 0 ELSE 1)
      ELSE {k * w + w \div 2}

Points ==
  LET k == film[Len(film)] - 1
      sub == IF SampleCount = 1 THEN {<<Unit \div 2, Unit \div 2>>}
             ELSE IF film[Len(film)] = 0 THEN (0 .. Unit) \X (0 .. Unit)
             ELSE InStratum(k % sampler.xs, sampler.xs) \X InStratum(k \div sampler.xs, sampler.ys)
  IN  {<<(x + offset[1]) * Unit + p[1], (y + offset[2]) * Unit + p[2]>> : p \in sub}

(* put(sample), along one axis: the position in the block, the pixels of   *)
(* the clipped rectangle, and the place of each in the table.              *)
Position(p, a) == p[a] - Unit \div 2 - (offset[a] - Border) * Unit
Lowest(p, a) == Larger(0, Ceil(Position(p, a) - radius))
Highest(p, a) == Smaller(BlockSize + 2 * Border - 1, Floor(Position(p, a) + radius))
Entry(p, a, c) == (Distance(c * Unit, Position(p, a)) * Resolution) \div radius

Splat(p) ==
  [c \in LocalCells |->
     IF \A a \in Axes : c[a] \in Lowest(p, a) .. Highest(p, a)
       THEN local[c] + Filter[Entry(p, 1, c[1])] * Filter[Entry(p, 2, c[2])]
       ELSE local[c]]

IsLit == lit.pixel = <<x, y>> /\ lit.index = i

(* advance(), and the next turn of the loops.                              *)
(* Faulty variants: the dimension is not reset; y is not increased.        *)
RestartedNot == dimension

Restarted == 0

NextRowSame == y

NextRow == y + 1

NextSample ==
  IF i + 1 < SampleCount
    THEN pc' = "sample" /\ i' = i + 1 /\ UNCHANGED <<x, y>>
    ELSE /\ i' = i
         /\ x' = IF x + 1 < size[1] THEN x + 1 ELSE 0
         /\ y' = IF x + 1 < size[1] THEN y ELSE NextRow
         /\ pc' = IF y' < size[2] THEN "pixel" ELSE "merge"

Advance ==
  /\ IF SampleCount = 1
       THEN UNCHANGED <<sampleIndex, dimension>>
       ELSE sampleIndex' = sampleIndex + 1 /\ dimension' = Restarted
  /\ NextSample
  /\ UNCHANGED <<setup, strata, drawn, film, calls, image>>

Put ==
  /\ pc = "put"
  /\ \E p \in Points :
       IF IsLit THEN local' = Splat(p) /\ lit' = [lit EXCEPT !.at = p]
                ELSE UNCHANGED <<local, lit>>
  /\ Advance

(* A radiance that is not a number is not recorded.                        *)
PutInvalid ==
  /\ pc = "put"
  /\ UNCHANGED <<local, lit>>
  /\ Advance

(* put(block): the used corner of the block is added to the image, with    *)
(* its border.                                                             *)
Corner == {c \in LocalCells : \A a \in Axes : c[a] < size[a] + 2 * Border}

Merge ==
  /\ pc = "merge"
  /\ image' = [c \in ImageCells |->
                 LET b == <<c[1] - offset[1], c[2] - offset[2]>>
                 IN  image[c] + (IF b \in Corner THEN local[b] ELSE 0)]
  /\ pc' = "done"
  /\ UNCHANGED <<setup, loops, table, drawn, film, calls, lit, local>>

Next ==
  \/ Generate \/ FilmSample
  \/ TooDeep \/ Miss \/ Shade \/ Bounce
  \/ Put \/ PutInvalid \/ Merge

(* The worker that renders the block runs on.                              *)
Spec == Init /\ [][Next]_vars /\ WF_vars(Next)
=============================================================================
