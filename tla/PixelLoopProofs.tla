--------------------------- MODULE PixelLoopProofs ---------------------------
(***************************************************************************)
(* While a block is rendered no array is left, no table entry is used      *)
(* twice in a pixel and no seam is made between blocks, for images,        *)
(* blocks, filters and samplers of every size and every depth of           *)
(* recursion.                                                              *)
(***************************************************************************)
EXTENDS PixelLoopProps, SequenceTheorems, TLAPS

(* The block lies in the image.                                            *)
Placed ==
  /\ offset \in Nat \X Nat
  /\ size \in (1 .. BlockSize) \X (1 .. BlockSize)
  /\ offset[1] + size[1] <= Width /\ offset[2] + size[2] <= Height

(* The sampler's index follows the loop over the samples, the depth of the *)
(* calls the level of the ray.                                             *)
Loops ==
  /\ radius \in Radii /\ sampler \in Samplers
  /\ pc \in {"pixel", "sample", "trace", "put", "merge", "done"}
  /\ x \in Nat /\ y \in Nat /\ i \in 0 .. SampleCount - 1
  /\ sampleIndex \in Nat /\ dimension \in Nat
  /\ sampler.stratified => dimension <= sampler.tables
  /\ pc \in {"sample", "trace", "put"} => sampleIndex = i
  /\ pc = "sample" => dimension = 0
  /\ level \in 0 .. MaxRecursion /\ depth \in 0 .. MaxRecursion + 1
  /\ pc \in {"trace", "put"} => depth = level + 1

(* The entries used so far are those of the samples before, and of this    *)
(* one below the dimension.                                                *)
Drawn ==
  /\ drawn \in Seq(Nat \X Nat)
  /\ \A a \in 1 .. Len(drawn) :
       \/ drawn[a][2] < sampleIndex
       \/ drawn[a][2] = sampleIndex /\ drawn[a][1] <= dimension
  /\ \A a, b \in 1 .. Len(drawn) : drawn[a] = drawn[b] => a = b

(* The samples on the film take the strata of the shuffled table in order. *)
Strata ==
  /\ strata \in Shuffles
  /\ film \in Seq(Nat) /\ Len(film) <= SampleCount
  /\ pc = "sample" => Len(film) = i \/ SampleCount = 1
  /\ pc \in {"trace", "put"} => Len(film) = i + 1 \/ SampleCount = 1
  /\ SampleCount = 1 => film = <<>>
  /\ sampler.stratified /\ sampler.tables > 0 => \A a \in 1 .. Len(film) : film[a] = strata[a]

LoopInv == Placed /\ Loops /\ Drawn /\ Strata

(* A pixel has at least one sample: the counts of the samplers are         *)
(* positive.                                                               *)
LEMMA SampleCountPositive ==
  ASSUME sampler \in Samplers
  PROVE  SampleCount \in Nat \ {0}
<1>1. sampler.xs \in Nat \ {0} /\ sampler.ys \in Nat \ {0}
  BY TraceAssumption
<1>2. \A a, b \in Nat \ {0} : a * b \in Nat \ {0}
  OBVIOUS
<1> QED  BY <1>1, <1>2 DEF SampleCount

-----------------------------------------------------------------------------
(* A block of the grid along one axis: it starts in the image and is cut   *)
(* at its border.                                                          *)
LEMMA CutBlock ==
  ASSUME NEW n \in Nat \ {0}, NEW b \in 0 .. (n - 1) \div BlockSize
  PROVE  /\ b * BlockSize \in Nat
         /\ Smaller(BlockSize, n - b * BlockSize) \in 1 .. BlockSize
         /\ b * BlockSize + Smaller(BlockSize, n - b * BlockSize) <= n
<1> DEFINE q == (n - 1) \div BlockSize
<1>1. q \in Nat /\ q * BlockSize <= n - 1
  BY SizeAssumption
<1> HIDE DEF q
<1>2. b \in Nat /\ b <= q
  BY <1>1 DEF q
<1>3. b * BlockSize <= q * BlockSize /\ b * BlockSize \in Nat /\ q * BlockSize \in Nat
  BY <1>1, <1>2, SizeAssumption
<1> QED  BY <1>1, <1>3, SizeAssumption DEF Smaller

(* A block of the grid, with the loops at their first pixel, satisfies the *)
(* invariant.                                                              *)
LEMMA LoopInit == Init => LoopInv
<1> SUFFICES ASSUME Init  PROVE LoopInv
  OBVIOUS
<1>1. SampleCount \in Nat \ {0}
  BY SampleCountPositive DEF Init
<1>2. Placed
  <2>1. PICK bx \in 0 .. (Width - 1) \div BlockSize, by \in 0 .. (Height - 1) \div BlockSize :
          /\ offset = <<bx * BlockSize, by * BlockSize>>
          /\ size = <<Smaller(BlockSize, Width - bx * BlockSize),
                      Smaller(BlockSize, Height - by * BlockSize)>>
    BY DEF Init
  <2>2. Width \in Nat \ {0} /\ Height \in Nat \ {0}
    BY SizeAssumption
  <2> QED  BY <2>1, <2>2, CutBlock DEF Placed
<1>3. Loops
  BY <1>1, TraceAssumption DEF Init, Loops
<1>4. Drawn
  BY DEF Init, Drawn
<1>5. Strata
  BY <1>1 DEF Init, Strata, Shuffles
<1> QED  BY <1>2, <1>3, <1>4, <1>5 DEF LoopInv

-----------------------------------------------------------------------------
(* Numbers drawn take the next dimensions, each a new entry.               *)
LEMMA DrawKeeps ==
  ASSUME LoopInv, NEW k \in Nat, Draw(k), UNCHANGED <<sampleIndex, sampler>>
  PROVE  /\ dimension' \in Nat
         /\ sampler.stratified => dimension' <= sampler.tables
         /\ sampler.stratified /\ k > 0 /\ dimension < sampler.tables => dimension < dimension'
         /\ Drawn'
<1> DEFINE n == IF sampler.stratified THEN Smaller(k, sampler.tables - dimension) ELSE 0
           new == [d \in 1 .. n |-> <<dimension + d, sampleIndex>>]
<1>1. /\ sampler.stratified \in BOOLEAN /\ sampler.tables \in Nat
      /\ dimension \in Nat /\ sampleIndex \in Nat
      /\ sampler.stratified => dimension <= sampler.tables
  BY TraceAssumption DEF LoopInv, Loops
<1>2. /\ n \in Nat
      /\ sampler.stratified => dimension + n <= sampler.tables
      /\ sampler.stratified /\ k > 0 /\ dimension < sampler.tables => n > 0
  BY <1>1 DEF Smaller
<1>3. drawn' = drawn \o new /\ dimension' = dimension + n
  BY DEF Draw
<1> HIDE DEF n
<1>4. new \in Seq(Nat \X Nat) /\ Len(new) = n
  BY <1>1, <1>2
<1>5. drawn \in Seq(Nat \X Nat) /\ Len(drawn) \in Nat
  BY DEF LoopInv, Drawn
<1>6. /\ drawn' \in Seq(Nat \X Nat) /\ Len(drawn') = Len(drawn) + n
      /\ \A a \in 1 .. Len(drawn) : drawn'[a] = drawn[a]
      /\ \A a \in 1 .. n : drawn'[Len(drawn) + a] = <<dimension + a, sampleIndex>>
  <2> HIDE DEF new
  <2>1. \A a \in 1 .. n : drawn'[Len(drawn) + a] = new[a]
    BY <1>2, <1>3, <1>4, <1>5
  <2>2. \A a \in 1 .. n : new[a] = <<dimension + a, sampleIndex>>
    BY DEF new
  <2>3. \A a \in 1 .. n : drawn'[Len(drawn) + a] = <<dimension + a, sampleIndex>>
    BY <2>1, <2>2
  <2>4. drawn' \in Seq(Nat \X Nat) /\ Len(drawn') = Len(drawn) + n
    BY <1>3, <1>4, <1>5, ConcatProperties, Zenon
  <2>5. \A a \in 1 .. Len(drawn) : drawn'[a] = drawn[a]
    BY <1>3, <1>4, <1>5
  <2> QED  BY <2>3, <2>4, <2>5
<1>7. ASSUME NEW a \in 1 .. Len(drawn')
      PROVE  \/ a \in 1 .. Len(drawn) /\ drawn'[a] = drawn[a]
             \/ a - Len(drawn) \in 1 .. n /\ drawn'[a] = <<dimension + (a - Len(drawn)), sampleIndex>>
  <2>1. CASE a <= Len(drawn)
    BY <1>5, <1>6, <2>1
  <2>2. CASE a > Len(drawn)
    <3>1. a - Len(drawn) \in 1 .. n /\ Len(drawn) + (a - Len(drawn)) = a
      BY <1>2, <1>5, <1>6, <2>2
    <3> QED  BY <1>6, <3>1
  <2> QED  BY <1>5, <1>6, <2>1, <2>2
<1>8. Drawn'
  <2>1. ASSUME NEW a \in 1 .. Len(drawn')
        PROVE  \/ drawn'[a][2] < sampleIndex'
               \/ drawn'[a][2] = sampleIndex' /\ drawn'[a][1] <= dimension'
    <3>1. CASE a \in 1 .. Len(drawn) /\ drawn'[a] = drawn[a]
      <4>1. drawn[a][1] \in Nat /\ drawn[a][2] \in Nat
        BY <1>5, <3>1
      <4>2. \/ drawn[a][2] < sampleIndex
            \/ drawn[a][2] = sampleIndex /\ drawn[a][1] <= dimension
        BY <3>1 DEF LoopInv, Drawn
      <4> QED  BY <1>1, <1>2, <1>3, <3>1, <4>1, <4>2
    <3>2. CASE a - Len(drawn) \in 1 .. n /\ drawn'[a] = <<dimension + (a - Len(drawn)), sampleIndex>>
      BY <1>1, <1>2, <1>3, <3>2
    <3> QED  BY <1>7, <3>1, <3>2
  <2>2. ASSUME NEW a \in 1 .. Len(drawn'), NEW b \in 1 .. Len(drawn'), drawn'[a] = drawn'[b], a < b
        PROVE  FALSE
    <3>1. CASE b <= Len(drawn)
      <4>1. a \in 1 .. Len(drawn) /\ b \in 1 .. Len(drawn)
        BY <1>5, <2>2, <3>1
      <4>2. drawn[a] = drawn[b]
        BY <1>6, <2>2, <4>1
      <4> QED  BY <1>5, <2>2, <4>1, <4>2 DEF LoopInv, Drawn
    <3>2. CASE b > Len(drawn)
      <4>1. b - Len(drawn) \in 1 .. n /\ drawn'[b] = <<dimension + (b - Len(drawn)), sampleIndex>>
        BY <1>5, <1>7, <3>2
      <4>2. CASE a \in 1 .. Len(drawn) /\ drawn'[a] = drawn[a]
        <5>1. drawn[a][2] = sampleIndex /\ drawn[a][1] = dimension + (b - Len(drawn))
          BY <2>2, <4>1, <4>2
        <5>2. \/ drawn[a][2] < sampleIndex
              \/ drawn[a][2] = sampleIndex /\ drawn[a][1] <= dimension
          BY <4>2 DEF LoopInv, Drawn
        <5> QED  BY <1>1, <1>2, <1>5, <4>1, <5>1, <5>2
      <4>3. CASE a - Len(drawn) \in 1 .. n /\ drawn'[a] = <<dimension + (a - Len(drawn)), sampleIndex>>
        <5>1. dimension + (a - Len(drawn)) = dimension + (b - Len(drawn))
          BY <2>2, <4>1, <4>3
        <5> QED  BY <1>1, <1>5, <2>2, <5>1
      <4> QED  BY <1>7, <4>2, <4>3
    <3> QED  BY <1>5, <2>2, <3>1, <3>2
  <2>3. \A a, b \in 1 .. Len(drawn') : drawn'[a] = drawn'[b] => a = b
    <3> SUFFICES ASSUME NEW a \in 1 .. Len(drawn'), NEW b \in 1 .. Len(drawn'), drawn'[a] = drawn'[b]
                 PROVE  a = b
      OBVIOUS
    <3>1. ~ (a < b) /\ ~ (b < a)
      BY <2>2
    <3> QED  BY <3>1
  <2> QED  BY <1>6, <2>1, <2>3 DEF Drawn
<1> QED  BY <1>1, <1>2, <1>3, <1>8

-----------------------------------------------------------------------------
(* A step that leaves block, filter and sampler alone keeps the block in   *)
(* its place and the number of samples.                                    *)
LEMMA SetupKeeps ==
  ASSUME LoopInv, UNCHANGED setup
  PROVE  /\ Placed' /\ radius' \in Radii /\ sampler' \in Samplers
         /\ SampleCount' = SampleCount /\ SampleCount \in Nat \ {0} /\ Shuffles' = Shuffles
BY SampleCountPositive DEF LoopInv, Placed, Loops, setup, SampleCount, Shuffles

(* generate() starts a pixel: nothing is drawn yet, and the first table    *)
(* holds every stratum once (stratified.cpp:81-96).                        *)
LEMMA GenerateInv ==
  ASSUME LoopInv, Generate
  PROVE  LoopInv'
<1> USE DEF Generate, calls
<1>1. /\ Placed' /\ radius' \in Radii /\ sampler' \in Samplers /\ sampler' = sampler
      /\ SampleCount' = SampleCount /\ SampleCount \in Nat \ {0} /\ Shuffles' = Shuffles
  BY SetupKeeps DEF setup
<1>2. Loops'
  BY <1>1, TraceAssumption DEF LoopInv, Loops
<1>3. Drawn'
  BY DEF Drawn
<1>4. strata' \in Shuffles
  BY <1>1 DEF Shuffles
<1>5. Strata'
  BY <1>1, <1>4 DEF Strata
<1> QED  BY <1>1, <1>2, <1>3, <1>5 DEF LoopInv

(* The sample on the film takes its stratum from the first table.          *)
LEMMA FilmSampleInv ==
  ASSUME LoopInv, FilmSample
  PROVE  LoopInv'
<1>1. /\ Placed' /\ radius' \in Radii /\ sampler' \in Samplers /\ sampler' = sampler
      /\ SampleCount' = SampleCount /\ SampleCount \in Nat \ {0} /\ Shuffles' = Shuffles
  BY SetupKeeps DEF FilmSample, setup
<1>2. /\ pc = "sample" /\ pc' = "trace" /\ level' = 0 /\ depth' = 1
      /\ UNCHANGED <<x, y, i, sampleIndex, strata>>
  BY DEF FilmSample, loops
<1>3. sampler.stratified \in BOOLEAN /\ sampler.tables \in Nat /\ dimension = 0 /\ sampleIndex = i
  BY <1>2, TraceAssumption DEF LoopInv, Loops
<1>4. CASE SampleCount = 1
  <2>1. UNCHANGED <<drawn, dimension, film>>
    BY <1>4 DEF FilmSample
  <2>2. Loops'
    BY <1>1, <1>2, <2>1, TraceAssumption DEF LoopInv, Loops
  <2>3. Drawn'
    BY <1>2, <2>1 DEF LoopInv, Drawn
  <2>4. Strata'
    BY <1>1, <1>2, <1>4, <2>1 DEF LoopInv, Strata
  <2> QED  BY <1>1, <2>2, <2>3, <2>4 DEF LoopInv
<1>5. CASE SampleCount # 1
  <2>1. Draw(1) /\ film' = Append(film, IF dimension < dimension' THEN strata[sampleIndex + 1] ELSE 0)
    BY <1>5 DEF FilmSample
  <2>2. /\ dimension' \in Nat /\ Drawn'
        /\ sampler.stratified => dimension' <= sampler.tables
        /\ sampler.stratified /\ sampler.tables > 0 => dimension < dimension'
    BY <1>1, <1>2, <1>3, <2>1, DrawKeeps
  <2>3. Loops'
    BY <1>1, <1>2, <1>3, <2>2, TraceAssumption DEF LoopInv, Loops
  <2>4. i \in 0 .. SampleCount - 1 /\ film \in Seq(Nat) /\ Len(film) = i
    BY <1>2, <1>5 DEF LoopInv, Loops, Strata
  <2>5. strata[i + 1] \in 1 .. SampleCount
    BY <1>1, <2>4 DEF LoopInv, Strata, Shuffles
  <2>6. PICK s \in Nat :
          /\ film' = Append(film, s)
          /\ sampler.stratified /\ sampler.tables > 0 => s = strata[i + 1]
    BY <1>3, <2>1, <2>2, <2>5
  <2>7. /\ film' \in Seq(Nat) /\ Len(film') = i + 1 /\ film'[i + 1] = s
        /\ \A a \in 1 .. i : film'[a] = film[a]
    <3>1. film' \in Seq(Nat) /\ Len(film') = i + 1
      BY <2>4, <2>6, AppendProperties
    <3>2. i + 1 \in Nat /\ film'[i + 1] = s
      BY <2>4, <2>6
    <3>3. \A a \in 1 .. i : film'[a] = film[a]
      BY <2>4, <2>6
    <3> QED  BY <3>1, <3>2, <3>3
  <2>8. sampler.stratified /\ sampler.tables > 0 => \A a \in 1 .. Len(film') : film'[a] = strata[a]
    <3> SUFFICES ASSUME sampler.stratified, sampler.tables > 0, NEW a \in 1 .. i + 1
                 PROVE  film'[a] = strata[a]
      BY <2>7
    <3>1. CASE a = i + 1
      <4>1. s = strata[i + 1]
        BY <2>6
      <4> QED  BY <2>7, <3>1, <4>1
    <3>2. CASE a \in 1 .. i
      BY <2>4, <2>7, <3>2 DEF LoopInv, Strata
    <3> QED  BY <2>4, <3>1, <3>2
  <2>9. Strata'
    BY <1>1, <1>2, <1>5, <2>4, <2>7, <2>8 DEF LoopInv, Strata
  <2> QED  BY <1>1, <2>2, <2>3, <2>9 DEF LoopInv
<1> QED  BY <1>4, <1>5

(* Tracing moves on to the next ray or to the end of the sample.           *)
LEMMA TraceInv ==
  ASSUME LoopInv, TooDeep \/ Miss \/ Shade \/ Bounce
  PROVE  LoopInv'
<1>1. /\ UNCHANGED <<setup, loops, sampleIndex, strata, film>>
      /\ pc = "trace" /\ pc' \in {"trace", "put"}
  BY DEF TooDeep, Miss, Shade, Bounce, table
<1>2. /\ Placed' /\ radius' \in Radii /\ sampler' \in Samplers /\ sampler' = sampler
      /\ SampleCount' = SampleCount /\ SampleCount \in Nat \ {0} /\ Shuffles' = Shuffles
  BY <1>1, SetupKeeps DEF setup
<1>3. /\ dimension' \in Nat /\ Drawn'
      /\ sampler.stratified => dimension' <= sampler.tables
  <2>1. CASE TooDeep \/ Miss
    <3>1. UNCHANGED <<drawn, dimension>>
      BY <2>1 DEF TooDeep, Miss, table
    <3> QED  BY <1>1, <3>1 DEF LoopInv, Loops, Drawn
  <2>2. CASE Shade
    BY <1>1, <1>2, <2>2, DrawKeeps, TraceAssumption DEF Shade
  <2>3. CASE Bounce
    BY <1>1, <1>2, <2>3, DrawKeeps DEF Bounce
  <2> QED  BY <2>1, <2>2, <2>3
<1>4. level' \in 0 .. MaxRecursion /\ depth' \in 0 .. MaxRecursion + 1 /\ depth' = level' + 1
  BY <1>1, TraceAssumption DEF LoopInv, Loops, TooDeep, Miss, Shade, Bounce, Deeper, calls
<1>5. Loops'
  BY <1>1, <1>2, <1>3, <1>4 DEF LoopInv, Loops, loops
<1>6. Strata'
  BY <1>1, <1>2 DEF LoopInv, Strata, loops
<1> QED  BY <1>2, <1>3, <1>5, <1>6 DEF LoopInv

(* The next sample starts with the first dimension of new entries.         *)
LEMMA AdvanceInv ==
  ASSUME LoopInv, pc = "put", Advance
  PROVE  LoopInv'
<1> USE DEF Advance, calls
<1>1. /\ Placed' /\ radius' \in Radii /\ sampler' \in Samplers /\ sampler' = sampler
      /\ SampleCount' = SampleCount /\ SampleCount \in Nat \ {0} /\ Shuffles' = Shuffles
  BY SetupKeeps DEF setup
<1>2. /\ i \in 0 .. SampleCount - 1 /\ sampleIndex = i
      /\ x \in Nat /\ y \in Nat /\ dimension \in Nat
      /\ sampler.stratified => dimension <= sampler.tables
  BY DEF LoopInv, Loops
<1>3. /\ x' \in Nat /\ y' \in Nat /\ i' \in 0 .. SampleCount - 1
      /\ \/ pc' \in {"pixel", "merge"}
         \/ pc' = "sample" /\ i' = i + 1 /\ SampleCount # 1
  BY <1>1, <1>2 DEF NextSample, NextRow
<1>4. \/ UNCHANGED <<sampleIndex, dimension>> /\ SampleCount = 1
      \/ sampleIndex' = sampleIndex + 1 /\ dimension' = 0 /\ SampleCount # 1
  BY DEF Restarted
<1>5. /\ sampleIndex' \in Nat /\ dimension' \in Nat
      /\ sampler.stratified => dimension' <= sampler.tables
  BY <1>1, <1>2, <1>4, TraceAssumption
<1>6. Loops'
  <2>1. pc' = "sample" => sampleIndex' = i' /\ dimension' = 0
    BY <1>2, <1>3, <1>4
  <2>2. pc' \notin {"trace", "put"} /\ pc' \in {"pixel", "sample", "merge"}
    BY <1>3
  <2>3. level' \in 0 .. MaxRecursion /\ depth' \in 0 .. MaxRecursion + 1
    BY DEF LoopInv, Loops
  <2> QED  BY <1>1, <1>3, <1>5, <2>1, <2>2, <2>3 DEF Loops
<1>7. Drawn'
  <2>1. ASSUME NEW a \in 1 .. Len(drawn)
        PROVE  \/ drawn[a][2] < sampleIndex'
               \/ drawn[a][2] = sampleIndex' /\ drawn[a][1] <= dimension'
    <3>1. drawn[a] \in Nat \X Nat
      BY <2>1 DEF LoopInv, Drawn
    <3>2. \/ drawn[a][2] < sampleIndex
          \/ drawn[a][2] = sampleIndex /\ drawn[a][1] <= dimension
      BY <2>1 DEF LoopInv, Drawn
    <3> QED  BY <1>2, <1>4, <3>1, <3>2
  <2> QED  BY <2>1 DEF LoopInv, Drawn
<1>8. Strata'
  BY <1>1, <1>2, <1>3 DEF LoopInv, Strata
<1> QED  BY <1>1, <1>6, <1>7, <1>8 DEF LoopInv

(* put(block) changes the image only (block.cpp:93-101).                   *)
LEMMA MergeInv ==
  ASSUME LoopInv, Merge
  PROVE  LoopInv'
<1> USE DEF Merge, loops, table, calls
<1>1. /\ Placed' /\ radius' \in Radii /\ sampler' \in Samplers /\ sampler' = sampler
      /\ SampleCount' = SampleCount /\ SampleCount \in Nat \ {0} /\ Shuffles' = Shuffles
  BY SetupKeeps DEF setup
<1>2. Loops' /\ Drawn' /\ Strata'
  BY <1>1 DEF LoopInv, Loops, Drawn, Strata
<1> QED  BY <1>1, <1>2 DEF LoopInv

(* In every state of the loop over a block the block lies in the image,    *)
(* the loops are within it, what was drawn for the pixel came from samples *)
(* before the current one or from earlier tables, and the first table      *)
(* holds every stratum once (viewer.cpp:291-313).                          *)
THEOREM LoopInvariant == Spec => []LoopInv
<1>1. LoopInv /\ [Next]_vars => LoopInv'
  <2> SUFFICES ASSUME LoopInv, [Next]_vars  PROVE LoopInv'
    OBVIOUS
  <2>1. CASE Next
    <3>1. Put \/ PutInvalid => LoopInv'
      BY AdvanceInv DEF Put, PutInvalid
    <3> QED  BY <2>1, <3>1, GenerateInv, FilmSampleInv, TraceInv, MergeInv DEF Next
  <2>2. CASE UNCHANGED vars
    <3>1. /\ Placed' /\ radius' \in Radii /\ sampler' \in Samplers /\ sampler' = sampler
          /\ SampleCount' = SampleCount /\ Shuffles' = Shuffles
      BY <2>2, SetupKeeps DEF vars, setup
    <3> QED  BY <2>2, <3>1 DEF vars, loops, table, calls, LoopInv, Loops, Drawn, Strata
  <2> QED  BY <2>1, <2>2
<1> QED  BY <1>1, LoopInit, PTL DEF Spec

(* No entry of a table is used twice in a pixel, and the samples on the    *)
(* film visit each stratum at most once (sampler.h:39-46), with tables of  *)
(* every length and any number of requests in between.                     *)
THEOREM ComponentsFresh == Spec => []SamplesFresh
<1>1. LoopInv => SamplesFresh
  <2> SUFFICES ASSUME LoopInv  PROVE SamplesFresh
    OBVIOUS
  <2>1. DOMAIN drawn = 1 .. Len(drawn) /\ DOMAIN film = 1 .. Len(film)
    BY DEF LoopInv, Drawn, Strata
  <2>2. \A a, b \in DOMAIN drawn : drawn[a] = drawn[b] => a = b
    BY <2>1 DEF LoopInv, Drawn
  <2>3. ASSUME sampler.stratified, sampler.tables > 0
        PROVE  /\ \A a, b \in DOMAIN film : film[a] = film[b] => a = b
               /\ \A a \in DOMAIN film : film[a] # 0
    <3>1. /\ \A a \in 1 .. Len(film) : film[a] = strata[a]
          /\ Len(film) \in Nat /\ Len(film) <= SampleCount /\ SampleCount \in Nat \ {0}
          /\ strata \in Shuffles
      BY <2>3, SampleCountPositive DEF LoopInv, Loops, Strata
    <3>2. \A a \in 1 .. Len(film) : a \in 1 .. SampleCount
      BY <3>1
    <3>3. /\ \A a, b \in 1 .. SampleCount : strata[a] = strata[b] => a = b
          /\ \A a \in 1 .. SampleCount : strata[a] \in 1 .. SampleCount
      BY <3>1 DEF Shuffles
    <3> QED  BY <2>1, <3>1, <3>2, <3>3
  <2> QED  BY <2>2, <2>3 DEF SamplesFresh
<1> QED  BY <1>1, LoopInvariant, PTL

-----------------------------------------------------------------------------
(* Rounding a length up to pixels: the smallest multiple of Unit that is   *)
(* not less.                                                               *)
LEMMA Rounding ==
  ASSUME NEW a \in Int
  PROVE  /\ Floor(a) \in Int /\ Floor(a) * Unit <= a
         /\ Ceil(a) \in Int /\ Ceil(a) * Unit >= a
<1>1. \A b \in Int : b \div Unit \in Int /\ (b \div Unit) * Unit <= b
  BY SizeAssumption
<1>2. Floor(a) \in Int /\ Floor(a) * Unit <= a
  BY <1>1 DEF Floor
<1> DEFINE d == (-a) \div Unit
<1>3. d \in Int /\ d * Unit <= -a /\ Ceil(a) = -d
  BY <1>1 DEF Ceil
<1> HIDE DEF d
<1>4. (-d) * Unit = -(d * Unit) /\ d * Unit \in Int
  BY <1>3, SizeAssumption
<1> QED  BY <1>2, <1>3, <1>4

(* Multiples of a positive number are ordered as their factors are.        *)
LEMMA ByUnit ==
  ASSUME NEW a \in Int, NEW b \in Int, NEW u \in Nat \ {0}
  PROVE  /\ a * u <= b * u <=> a <= b
         /\ a * u \in Int /\ (a - b) * u = a * u - b * u
<1>1. a * u \in Int /\ b * u \in Int /\ (a - b) * u = a * u - b * u
  OBVIOUS
<1>2. a <= b => a * u <= b * u
  OBVIOUS
<1>3. b < a => b * u < a * u
  OBVIOUS
<1> QED  BY <1>1, <1>2, <1>3

(* Rounded down, a length is the greatest number of pixels that it covers. *)
LEMMA FloorGreatest ==
  ASSUME NEW a \in Int, NEW e \in Int
  PROVE  e <= Floor(a) <=> e * Unit <= a
<1> DEFINE d == a \div Unit
<1>1. d \in Int /\ d * Unit <= a /\ a < d * Unit + Unit /\ Unit \in Nat \ {0}
  BY SizeAssumption
<1> HIDE DEF d
<1>2. e * Unit \in Int /\ d * Unit \in Int /\ (d + 1) * Unit = d * Unit + Unit
  BY <1>1
<1>3. e <= d => e * Unit <= d * Unit
  BY <1>1, ByUnit
<1>4. d + 1 <= e => (d + 1) * Unit <= e * Unit
  BY <1>1, ByUnit
<1> QED  BY <1>1, <1>2, <1>3, <1>4 DEF Floor, d

(* Rounded up, it is the least number of pixels that covers it.            *)
LEMMA CeilLeast ==
  ASSUME NEW a \in Int, NEW e \in Int
  PROVE  Ceil(a) <= e <=> a <= e * Unit
<1>1. Floor(-a) \in Int /\ Ceil(a) = -Floor(-a)
  BY Rounding DEF Ceil, Floor
<1>2. -e <= Floor(-a) <=> (-e) * Unit <= -a
  BY FloorGreatest
<1>3. (-e) * Unit = -(e * Unit) /\ e * Unit \in Int
  BY SizeAssumption
<1> QED  BY <1>1, <1>2, <1>3

(* A product divided by one of its factors is at most the other.           *)
LEMMA Quotient ==
  ASSUME NEW m \in Nat, NEW k \in Nat, NEW u \in Nat \ {0}, m <= k * u
  PROVE  m \div u \in 0 .. k
<1> DEFINE d == m \div u
<1>1. d \in Nat /\ d * u <= m
  OBVIOUS
<1> HIDE DEF d
<1>2. d * u <= k * u
  <2>1. k * u \in Int /\ d * u \in Int
    BY <1>1
  <2> QED  BY <1>1, <2>1
<1>3. d <= k
  BY <1>1, <1>2, ByUnit
<1> QED  BY <1>1, <1>3 DEF d

(* The pixels of a footprint, wherever it is centred and however it is     *)
(* clipped, have their weights and their places in the filter.             *)
LEMMA Footprint ==
  ASSUME NEW p, NEW a, Position(p, a) \in Int, radius \in Nat \ {0},
         BlockSize + 2 * Border - 1 \in Int
  PROVE  /\ Highest(p, a) - Lowest(p, a) + 1 <= WeightSize
         /\ \A c \in Lowest(p, a) .. Highest(p, a) : Entry(p, a, c) \in 0 .. Resolution
<1> DEFINE q == Position(p, a)
           lo == Ceil(q - radius)
           hi == Floor(q + radius)
           n  == BlockSize + 2 * Border - 1
<1>1. q \in Int /\ n \in Int
  OBVIOUS
<1>2. /\ Lowest(p, a) = Larger(0, lo) /\ Highest(p, a) = Smaller(n, hi)
      /\ \A c : Entry(p, a, c) = (Distance(c * Unit, q) * Resolution) \div radius
  BY DEF Lowest, Highest, Entry
<1> HIDE DEF q, n
<1>3. /\ lo \in Int /\ lo * Unit >= q - radius
      /\ hi \in Int /\ hi * Unit <= q + radius
  BY <1>1, Rounding
<1> HIDE DEF lo, hi
<1>4. /\ Lowest(p, a) \in Int /\ Lowest(p, a) >= lo
      /\ Highest(p, a) \in Int /\ Highest(p, a) <= hi
  BY <1>1, <1>2, <1>3 DEF Larger, Smaller
<1>5. Unit \in Nat \ {0} /\ Resolution \in Nat \ {0}
  BY SizeAssumption
<1>6. hi - lo <= Ceil(2 * radius)
  <2>1. Ceil(2 * radius) \in Int /\ Ceil(2 * radius) * Unit >= 2 * radius
    BY Rounding
  <2>2. (hi - lo) * Unit = hi * Unit - lo * Unit /\ hi * Unit \in Int /\ lo * Unit \in Int
    BY <1>3, <1>5, ByUnit
  <2>3. (hi - lo) * Unit <= Ceil(2 * radius) * Unit
    <3>1. (hi - lo) * Unit <= 2 * radius
      BY <1>1, <1>3, <2>2
    <3>2. Ceil(2 * radius) * Unit \in Int
      BY <1>5, <2>1
    <3> QED  BY <2>1, <2>2, <3>1, <3>2
  <2> QED  BY <1>3, <1>5, <2>1, <2>3, ByUnit
<1>7. Highest(p, a) - Lowest(p, a) + 1 <= WeightSize
  <2>1. Ceil(2 * radius) \in Int
    BY Rounding
  <2> QED  BY <1>3, <1>4, <1>6, <2>1 DEF WeightSize
<1>8. ASSUME NEW c \in Lowest(p, a) .. Highest(p, a)
      PROVE  Entry(p, a, c) \in 0 .. Resolution
  <2>1. c \in Int /\ lo <= c /\ c <= hi
    BY <1>3, <1>4
  <2>2. lo * Unit <= c * Unit /\ c * Unit <= hi * Unit /\ c * Unit \in Int
        /\ lo * Unit \in Int /\ hi * Unit \in Int
    BY <1>3, <1>5, <2>1, ByUnit
  <2> DEFINE d == Distance(c * Unit, q)
  <2>3. d \in 0 .. radius
    BY <1>1, <1>3, <2>2 DEF Distance
  <2> HIDE DEF d
  <2>4. d * Resolution \in Nat /\ d * Resolution <= Resolution * radius
    <3>1. d * Resolution <= radius * Resolution
      BY <1>5, <2>3, ByUnit
    <3> QED  BY <1>5, <2>3, <3>1
  <2>5. (d * Resolution) \div radius \in 0 .. Resolution
    BY <1>5, <2>4, Quotient
  <2> QED  BY <1>2, <2>5 DEF d
<1> QED  BY <1>7, <1>8

(* A sample falls on a point of the film, whether it is centred,           *)
(* stratified or random.                                                   *)
LEMMA PointsOnFilm ==
  ASSUME LoopInv, pc = "put", NEW p \in Points, NEW a \in Axes
  PROVE  p[a] \in Int
<1> DEFINE k == film[Len(film)] - 1
           sub == IF SampleCount = 1 THEN {<<Unit \div 2, Unit \div 2>>}
                  ELSE IF film[Len(film)] = 0 THEN (0 .. Unit) \X (0 .. Unit)
                  ELSE InStratum(k % sampler.xs, sampler.xs) \X InStratum(k \div sampler.xs, sampler.ys)
<1>1. /\ offset[1] \in Nat /\ offset[2] \in Nat /\ x \in Nat /\ y \in Nat
      /\ sampler.xs \in Nat \ {0} /\ sampler.ys \in Nat \ {0} /\ Unit \in Nat \ {0}
      /\ SampleCount \in Nat \ {0} /\ i \in 0 .. SampleCount - 1
  BY SizeAssumption, TraceAssumption, SampleCountPositive DEF LoopInv, Placed, Loops
<1>2. SampleCount # 1 => k \in Int
  <2>1. SampleCount # 1 => film \in Seq(Nat) /\ Len(film) = i + 1
    BY DEF LoopInv, Strata
  <2> QED  BY <1>1, <2>1
<1>3. ASSUME NEW m \in Int, NEW n \in Nat \ {0}  PROVE InStratum(m, n) \subseteq Int
  <2>1. Unit \div n \in Int
    BY <1>1
  <2>2. m * (Unit \div n) \in Int /\ (Unit \div n) \div 2 \in Int
    BY <2>1
  <2> QED  BY <2>1, <2>2 DEF InStratum
<1>4. sub \subseteq Int \X Int
  <2> HIDE DEF k
  <2>1. CASE SampleCount = 1
    BY <1>1, <2>1
  <2>2. CASE SampleCount # 1 /\ film[Len(film)] = 0
    BY <2>2
  <2>3. CASE SampleCount # 1 /\ film[Len(film)] # 0
    <3>1. k % sampler.xs \in Int /\ k \div sampler.xs \in Int
      BY <1>1, <1>2, <2>3
    <3>2. /\ InStratum(k % sampler.xs, sampler.xs) \subseteq Int
          /\ InStratum(k \div sampler.xs, sampler.ys) \subseteq Int
      BY <1>1, <1>3, <3>1
    <3> QED  BY <2>3, <3>2
  <2> QED  BY <2>1, <2>2, <2>3
<1>5. Points = {<<(x + offset[1]) * Unit + s[1], (y + offset[2]) * Unit + s[2]>> : s \in sub}
  BY DEF Points
<1> HIDE DEF sub
<1>6. PICK s \in sub : p = <<(x + offset[1]) * Unit + s[1], (y + offset[2]) * Unit + s[2]>>
  BY <1>5
<1>7. s[1] \in Int /\ s[2] \in Int
  BY <1>4
<1>8. (x + offset[1]) * Unit \in Int /\ (y + offset[2]) * Unit \in Int
  BY <1>1
<1> QED  BY <1>6, <1>7, <1>8 DEF Axes

(* A used corner of the block, with its border, has its place in the image.*)
LEMMA CornerInImage ==
  ASSUME LoopInv, NEW c \in Corner
  PROVE  <<c[1] + offset[1], c[2] + offset[2]>> \in ImageCells
<1> DEFINE b == Border
<1>1. b \in Int
  <2>1. radius - Unit \div 2 \in Int
    BY SizeAssumption DEF LoopInv, Loops
  <2> QED  BY <2>1, Rounding DEF Border
<1>2. /\ c \in (0 .. BlockSize + 2 * b - 1) \X (0 .. BlockSize + 2 * b - 1)
      /\ c[1] < size[1] + 2 * b /\ c[2] < size[2] + 2 * b
  BY DEF Corner, LocalCells, Axes
<1>3. ImageCells = (0 .. Width + 2 * b - 1) \X (0 .. Height + 2 * b - 1)
  BY DEF ImageCells
<1> HIDE DEF b
<1>4. /\ offset[1] \in Nat /\ offset[2] \in Nat /\ size[1] \in Nat /\ size[2] \in Nat
      /\ offset[1] + size[1] <= Width /\ offset[2] + size[2] <= Height
      /\ Width \in Nat /\ Height \in Nat /\ BlockSize \in Nat
  BY SizeAssumption DEF LoopInv, Placed
<1> QED  BY <1>1, <1>2, <1>3, <1>4

(* No subscript leaves its array and no recursion its limit                *)
(* (stratified.cpp:113, block.cpp:82-99, whitted.cpp:20): for images,      *)
(* blocks and filters of every size, at every point of the film.           *)
THEOREM StaysWithinLimits == Spec => []WithinLimits
<1>1. LoopInv => WithinLimits
  <2> SUFFICES ASSUME LoopInv  PROVE WithinLimits
    OBVIOUS
  <2>1. pc \in {"sample", "trace", "put"} => sampleIndex \in 0 .. SampleCount - 1
    BY DEF LoopInv, Loops
  <2>2. /\ sampler.stratified => dimension \in 0 .. sampler.tables
        /\ level \in 0 .. MaxRecursion /\ depth \in 0 .. MaxRecursion + 1
    BY TraceAssumption DEF LoopInv, Loops
  <2>3. ASSUME pc = "put", NEW p \in Points, NEW a \in Axes
        PROVE  /\ Highest(p, a) - Lowest(p, a) + 1 <= WeightSize
               /\ \A c \in Lowest(p, a) .. Highest(p, a) : Entry(p, a, c) \in 0 .. Resolution
    <3>1. radius \in Nat \ {0} /\ BlockSize \in Nat /\ Unit \in Nat \ {0} /\ Unit \div 2 \in Int
      BY SizeAssumption DEF LoopInv, Loops
    <3>2. Border \in Int
      BY <3>1, Rounding DEF Border
    <3>3. Position(p, a) \in Int
      <4>1. p[a] \in Int
        BY <2>3, PointsOnFilm
      <4>2. offset[a] \in Int
        BY DEF LoopInv, Placed, Axes
      <4>3. (offset[a] - Border) * Unit \in Int
        BY <3>1, <3>2, <4>2
      <4> QED  BY <3>1, <4>1, <4>3 DEF Position
    <3>4. BlockSize + 2 * Border - 1 \in Int
      BY <3>1, <3>2
    <3> QED  BY <3>1, <3>3, <3>4, Footprint
  <2> QED  BY <2>1, <2>2, <2>3, CornerInImage DEF WithinLimits
<1> QED  BY <1>1, LoopInvariant, PTL

-----------------------------------------------------------------------------
(* The loops have passed the sample that is not black.                     *)
Passed ==
  \/ y > lit.pixel[2]
  \/ y = lit.pixel[2] /\ x > lit.pixel[1]
  \/ pc # "pixel" /\ lit.pixel = <<x, y>> /\ i > lit.index

(* A point of the part of the film under the block, its edges included.    *)
OnBlock(p) ==
  /\ p \in Int \X Int
  /\ \A a \in Axes : offset[a] * Unit <= p[a] /\ p[a] <= (offset[a] + size[a]) * Unit

InImage(c) == <<c[1] + offset[1], c[2] + offset[2]>>
Shares(p) == [c \in LocalCells |-> Share(p, InImage(c))]

Sample == [pixel : (0 .. size[1] - 1) \X (0 .. size[2] - 1), index : 0 .. SampleCount - 1,
           at : {<<>>} \cup (Int \X Int)]

(* The block is black until the sample is put, and then has the shares the *)
(* image is to get; the sample is not put again.                           *)
Shown ==
  /\ lit \in Sample
  /\ lit.at = <<>> => local = Black(LocalCells)
  /\ lit.at # <<>> => Passed /\ OnBlock(lit.at) /\ local = Shares(lit.at)

ShownInv ==
  /\ pc \notin {"merge", "done"} => x < size[1] /\ y < size[2]
  /\ film \in Seq(0 .. SampleCount)
  /\ Shown
  /\ pc # "done" => image = Black(ImageCells)
  /\ BlocksInvisible

(* What the filter gives along one axis.                                   *)
AxisShare(p, a, c) ==
  LET dist == Distance((c[a] - Border) * Unit + Unit \div 2, p[a])
  IN  IF dist < radius THEN Filter[(dist * Resolution) \div radius] ELSE 0

(* The lengths the shares are made of are integers.                        *)
LEMMA Lengths ==
  ASSUME LoopInv
  PROVE  /\ radius \in Nat \ {0} /\ Border \in Int /\ Unit \in Nat \ {0} /\ Unit \div 2 \in Nat
         /\ Resolution \in Nat \ {0} /\ BlockSize \in Nat \ {0}
         /\ Border * Unit >= radius - Unit \div 2 /\ 2 * (Unit \div 2) <= Unit
         /\ \A a \in Axes : offset[a] \in Nat /\ size[a] \in 1 .. BlockSize
<1>1. radius \in Nat \ {0} /\ Unit \in Nat \ {0} /\ Resolution \in Nat \ {0} /\ BlockSize \in Nat \ {0}
  BY SizeAssumption DEF LoopInv, Loops
<1>2. Unit \div 2 \in Nat /\ 2 * (Unit \div 2) <= Unit
  BY <1>1
<1>3. Border \in Int /\ Border * Unit >= radius - Unit \div 2
  BY <1>1, <1>2, Rounding DEF Border
<1>4. ASSUME NEW a \in Axes  PROVE offset[a] \in Nat /\ size[a] \in 1 .. BlockSize
  BY DEF LoopInv, Placed, Axes
<1> QED  BY <1>1, <1>2, <1>3, <1>4

(* The filter has fallen to zero at its radius.                            *)
LEMMA FilterAtRadius ==
  ASSUME LoopInv
  PROVE  Filter[(radius * Resolution) \div radius] = 0
<1>1. radius \in Nat \ {0} /\ Resolution \in Nat \ {0}
  BY Lengths
<1>2. (radius * Resolution) \div radius = Resolution
  <2> DEFINE d == (radius * Resolution) \div radius
  <2>1. d \in Int /\ d * radius <= radius * Resolution /\ radius * Resolution < d * radius + radius
    <3>1. radius * Resolution \in Nat
      BY <1>1
    <3> QED  BY <1>1, <3>1
  <2> HIDE DEF d
  <2>2. Resolution * radius = radius * Resolution /\ (d + 1) * radius = d * radius + radius
    BY <1>1, <2>1
  <2>3. d <= Resolution
    BY <1>1, <2>1, <2>2, ByUnit
  <2>4. ~ (d + 1 <= Resolution)
    <3>1. ~ ((d + 1) * radius <= Resolution * radius)
      <4>1. (d + 1) * radius \in Int /\ Resolution * radius \in Int
        BY <1>1, <2>1
      <4> QED  BY <2>1, <2>2, <4>1
    <3>2. d + 1 \in Int /\ Resolution \in Int
      BY <1>1, <2>1
    <3> QED  BY <1>1, <3>1, <3>2, ByUnit
  <2> QED  BY <1>1, <2>1, <2>3, <2>4 DEF d
<1> QED  BY <1>1, <1>2 DEF Filter

(* Along one axis a pixel of the block has its weight in the footprint     *)
(* where the filter is centred there, and the filter is zero outside.      *)
LEMMA AxisShareInBlock ==
  ASSUME LoopInv, NEW p \in Int \X Int, NEW a \in Axes, NEW b \in LocalCells
  PROVE  /\ AxisShare(p, a, InImage(b)) \in Int
         /\ AxisShare(p, a, InImage(b)) =
              (IF b[a] \in Lowest(p, a) .. Highest(p, a) THEN Filter[Entry(p, a, b[a])] ELSE 0)
<1> DEFINE q == Position(p, a)
           n == BlockSize + 2 * Border - 1
           dist == Distance(b[a] * Unit, q)
           e == b[a]
           o == offset[a]
<1>1. /\ radius \in Nat \ {0} /\ Border \in Int /\ Unit \in Nat \ {0} /\ Unit \div 2 \in Nat
      /\ Resolution \in Nat \ {0} /\ o \in Nat /\ BlockSize \in Nat
  BY Lengths
<1>2. n \in Int
  BY <1>1
<1>3. e \in Int /\ 0 <= e /\ e <= n
  BY <1>2 DEF LocalCells, Axes
<1>4. p[a] \in Int
  BY DEF Axes
<1>5. /\ (o - Border) * Unit \in Int /\ e * Unit \in Int /\ ((e + o) - Border) * Unit \in Int
      /\ ((e + o) - Border) * Unit = e * Unit + (o - Border) * Unit
  BY <1>1, <1>3
<1>6. q \in Int /\ q = p[a] - Unit \div 2 - (o - Border) * Unit
  BY <1>1, <1>4, <1>5 DEF Position
<1>7. Distance((InImage(b)[a] - Border) * Unit + Unit \div 2, p[a]) = dist
  <2>1. InImage(b)[a] = e + o
    BY DEF InImage, Axes
  <2> HIDE DEF e, o, q
  <2> DEFINE m == ((e + o) - Border) * Unit + Unit \div 2
             f == e * Unit
  <2>2. m \in Int /\ f \in Int /\ m - p[a] = f - q
    BY <1>1, <1>4, <1>5, <1>6
  <2> HIDE DEF m, f
  <2>3. Distance(m, p[a]) = Distance(f, q)
    BY <1>4, <1>6, <2>2 DEF Distance
  <2> QED  BY <2>1, <2>3 DEF m, f, e
<1>8. dist \in Nat
  BY <1>5, <1>6 DEF Distance
<1>9. e \in Lowest(p, a) .. Highest(p, a) <=> dist <= radius
  <2> DEFINE lo == Ceil(q - radius)  hi == Floor(q + radius)
  <2>1. /\ Lowest(p, a) = Larger(0, lo) /\ Highest(p, a) = Smaller(n, hi)
    BY DEF Lowest, Highest
  <2>2. lo \in Int /\ hi \in Int
    BY <1>1, <1>6, Rounding
  <2>3. lo <= e <=> q - radius <= e * Unit
    BY <1>1, <1>3, <1>6, CeilLeast
  <2>4. e <= hi <=> e * Unit <= q + radius
    BY <1>1, <1>3, <1>6, FloorGreatest
  <2> HIDE DEF q, n, e, lo, hi
  <2>5. e \in Lowest(p, a) .. Highest(p, a) <=> lo <= e /\ e <= hi
    BY <1>2, <1>3, <2>1, <2>2 DEF Larger, Smaller
  <2>6. dist <= radius <=> q - radius <= e * Unit /\ e * Unit <= q + radius
    <3>1. dist = IF e * Unit < q THEN q - e * Unit ELSE e * Unit - q
      BY DEF Distance, e
    <3> QED  BY <1>1, <1>5, <1>6, <3>1
  <2> QED  BY <2>3, <2>4, <2>5, <2>6
<1>10. AxisShare(p, a, InImage(b)) = IF dist < radius THEN Filter[(dist * Resolution) \div radius] ELSE 0
  BY <1>7 DEF AxisShare
<1>11. Entry(p, a, e) = (dist * Resolution) \div radius
  BY DEF Entry
<1>12. dist = radius => Filter[(dist * Resolution) \div radius] = 0
  BY FilterAtRadius
<1>13. dist <= radius => Filter[(dist * Resolution) \div radius] \in Int
  <2>1. SUFFICES ASSUME dist <= radius  PROVE (dist * Resolution) \div radius \in 0 .. Resolution
    BY <1>1 DEF Filter
  <2> HIDE DEF dist
  <2>2. dist * Resolution <= radius * Resolution
    BY <1>1, <1>8, <2>1, ByUnit
  <2>3. dist * Resolution \in Nat /\ radius * Resolution = Resolution * radius
    BY <1>1, <1>8
  <2> QED  BY <1>1, <2>2, <2>3, Quotient
<1> HIDE DEF dist, e
<1>14. AxisShare(p, a, InImage(b)) =
         IF e \in Lowest(p, a) .. Highest(p, a) THEN Filter[Entry(p, a, e)] ELSE 0
  BY <1>1, <1>8, <1>9, <1>10, <1>11, <1>12
<1>15. AxisShare(p, a, InImage(b)) \in Int
  BY <1>8, <1>9, <1>10, <1>13, <1>1
<1> QED  BY <1>14, <1>15 DEF e

(* Put into a black block, a sample leaves there what the filter gives to  *)
(* those pixels of the image.                                              *)
LEMMA SplatIsShares ==
  ASSUME LoopInv, NEW p \in Int \X Int, local = Black(LocalCells)
  PROVE  Splat(p) = Shares(p)
<1>1. ASSUME NEW b \in LocalCells  PROVE Splat(p)[b] = Share(p, InImage(b))
  <2> DEFINE s(a) == AxisShare(p, a, InImage(b))
             In(a) == b[a] \in Lowest(p, a) .. Highest(p, a)
             w(a) == Filter[Entry(p, a, b[a])]
  <2>1. Share(p, InImage(b)) = s(1) * s(2)
    BY DEF Share, AxisShare
  <2>2. ASSUME NEW a \in Axes  PROVE s(a) \in Int /\ s(a) = (IF In(a) THEN w(a) ELSE 0)
    BY AxisShareInBlock
  <2>3. local[b] = 0
    BY DEF Black
  <2>4. Splat(p)[b] = IF \A a \in Axes : In(a) THEN local[b] + w(1) * w(2) ELSE local[b]
    BY DEF Splat
  <2>5. /\ s(1) \in Int /\ s(1) = (IF In(1) THEN w(1) ELSE 0)
        /\ s(2) \in Int /\ s(2) = (IF In(2) THEN w(2) ELSE 0)
    BY <2>2 DEF Axes
  <2>6. Splat(p)[b] = IF In(1) /\ In(2) THEN w(1) * w(2) ELSE 0
    <3> HIDE DEF In, w
    <3>1. (\A a \in Axes : In(a)) <=> In(1) /\ In(2)
      BY DEF Axes
    <3>2. In(1) /\ In(2) => w(1) \in Int /\ w(2) \in Int
      BY <2>5
    <3>3. In(1) /\ In(2) => w(1) * w(2) \in Int
      BY <3>2
    <3> QED  BY <2>3, <2>4, <3>1, <3>3
  <2> HIDE DEF s, In, w
  <2>7. s(1) * s(2) = IF In(1) /\ In(2) THEN w(1) * w(2) ELSE 0
    <3>1. CASE In(1) /\ In(2)
      BY <2>5, <3>1
    <3>2. CASE ~ In(1)
      BY <2>5, <3>2
    <3>3. CASE ~ In(2)
      BY <2>5, <3>3
    <3> QED  BY <3>1, <3>2, <3>3
  <2> QED  BY <2>1, <2>6, <2>7
<1>2. Splat(p) = [b \in LocalCells |-> Splat(p)[b]]
  BY DEF Splat
<1> HIDE DEF Splat
<1> QED  BY <1>1, <1>2 DEF Shares

(* Sums of pixels as lengths.                                              *)
LEMMA Distributed ==
  ASSUME NEW a \in Int, NEW b \in Int, NEW c \in Int, NEW u \in Int
  PROVE  /\ (a - b - 1) * u = a * u - b * u - u
         /\ (a + b + c) * u = a * u + b * u + c * u
OBVIOUS

(* A pixel of the image that is not in the used corner of the block is out *)
(* of reach of every sample of the block: the border is wide enough.       *)
LEMMA NoShareOutside ==
  ASSUME LoopInv, NEW p, OnBlock(p), NEW c \in ImageCells, NEW b \in Int \X Int,
         b = <<c[1] - offset[1], c[2] - offset[2]>>, b \notin Corner
  PROVE  Share(p, c) = 0
<1>1. /\ radius \in Nat \ {0} /\ Border \in Int /\ Unit \in Nat \ {0} /\ Unit \div 2 \in Nat
      /\ Resolution \in Nat \ {0} /\ BlockSize \in Nat \ {0}
      /\ Border * Unit >= radius - Unit \div 2 /\ 2 * (Unit \div 2) <= Unit
      /\ \A a \in Axes : offset[a] \in Nat /\ size[a] \in 1 .. BlockSize
  BY Lengths
<1>2. PICK a \in Axes : b[a] < 0 \/ b[a] >= size[a] + 2 * Border
  <2>1. SUFFICES ASSUME \A a \in Axes : 0 <= b[a] /\ b[a] < size[a] + 2 * Border
                 PROVE  b \in Corner
    <3>1. \A a \in Axes : b[a] \in Int /\ size[a] + 2 * Border \in Int
      BY <1>1 DEF Axes
    <3> QED  BY <3>1
  <2>2. \A a \in Axes : b[a] \in 0 .. BlockSize + 2 * Border - 1
    <3>1. ASSUME NEW a \in Axes  PROVE b[a] \in 0 .. BlockSize + 2 * Border - 1
      <4>1. b[a] \in Int /\ size[a] \in Nat /\ size[a] <= BlockSize
        BY <1>1 DEF Axes
      <4>2. 0 <= b[a] /\ b[a] < size[a] + 2 * Border
        BY <2>1
      <4> QED  BY <1>1, <4>1, <4>2
    <3> QED  BY <3>1
  <2>3. b \in LocalCells
    BY <2>2 DEF LocalCells, Axes
  <2> QED  BY <2>1, <2>3 DEF Corner
<1> DEFINE o == offset[a]
           m == (c[a] - Border) * Unit
           B == Border * Unit
           s == size[a] * Unit
           O == o * Unit
           h == Unit \div 2
<1>3. o \in Nat /\ size[a] \in Nat /\ p[a] \in Int /\ c[a] \in Int /\ b[a] = c[a] - o
  <2>1. c[1] \in Int /\ c[2] \in Int
    BY <1>1 DEF ImageCells
  <2> QED  BY <1>1, <2>1 DEF OnBlock, Axes
<1>4. O <= p[a] /\ p[a] <= O + s
  <2>1. (o + size[a]) * Unit = O + s
    BY <1>1, <1>3
  <2> QED  BY <2>1 DEF OnBlock
<1>5. /\ m \in Int /\ B \in Int /\ s \in Int /\ O \in Int /\ h \in Nat
      /\ B >= radius - h /\ 2 * h <= Unit
  BY <1>1, <1>3
<1>6. o \in Int /\ size[a] \in Int /\ Border \in Int /\ Unit \in Int
  BY <1>1, <1>3
<1>7. m + h - p[a] >= radius \/ p[a] - (m + h) >= radius
  <2>1. CASE b[a] < 0
    <3>1. c[a] - Border <= o - Border - 1
      BY <1>1, <1>3, <2>1
    <3>2. m <= (o - Border - 1) * Unit
      BY <1>1, <1>3, <3>1, ByUnit
    <3>3. (o - Border - 1) * Unit = O - B - Unit
      BY <1>6, Distributed
    <3> HIDE DEF m, B, s, O, h, o
    <3> QED  BY <1>1, <1>3, <1>4, <1>5, <3>2, <3>3
  <2>2. CASE b[a] >= size[a] + 2 * Border
    <3>1. o + size[a] + Border <= c[a] - Border
      BY <1>1, <1>3, <2>2
    <3>2. (o + size[a] + Border) * Unit <= m
      BY <1>1, <1>3, <3>1, ByUnit
    <3>3. (o + size[a] + Border) * Unit = O + s + B
      BY <1>6, Distributed
    <3> HIDE DEF m, B, s, O, h, o
    <3> QED  BY <1>1, <1>3, <1>4, <1>5, <3>2, <3>3
  <2> QED  BY <1>2, <2>1, <2>2
<1>8. AxisShare(p, a, c) = 0
  <2> DEFINE d == Distance(m + h, p[a])
  <2>1. AxisShare(p, a, c) = IF d < radius THEN Filter[(d * Resolution) \div radius] ELSE 0
    BY DEF AxisShare
  <2> HIDE DEF m, h
  <2>2. d \in Int /\ d >= radius
    BY <1>1, <1>3, <1>5, <1>7 DEF Distance
  <2> QED  BY <1>1, <2>1, <2>2
<1>9. ASSUME NEW e \in Axes  PROVE AxisShare(p, e, c) \in Int
  <2> DEFINE d == Distance((c[e] - Border) * Unit + Unit \div 2, p[e])
  <2>1. p[e] \in Int /\ c[e] \in Int
    BY <1>1 DEF OnBlock, ImageCells, Axes
  <2>2. (c[e] - Border) * Unit + Unit \div 2 \in Int
    BY <1>1, <2>1
  <2>3. d \in Nat
    BY <2>1, <2>2 DEF Distance
  <2>4. AxisShare(p, e, c) = IF d < radius THEN Filter[(d * Resolution) \div radius] ELSE 0
    BY DEF AxisShare
  <2> HIDE DEF d
  <2>5. ASSUME d < radius  PROVE (d * Resolution) \div radius \in 0 .. Resolution
    <3>1. d * Resolution <= radius * Resolution
      BY <1>1, <2>3, <2>5, ByUnit
    <3>2. d * Resolution \in Nat /\ radius * Resolution = Resolution * radius
      BY <1>1, <2>3
    <3> QED  BY <1>1, <3>1, <3>2, Quotient
  <2> QED  BY <1>1, <2>4, <2>5 DEF Filter
<1>10. Share(p, c) = AxisShare(p, 1, c) * AxisShare(p, 2, c)
  BY DEF Share, AxisShare
<1>11. a = 1 \/ a = 2
  BY DEF Axes
<1>12. AxisShare(p, 1, c) \in Int /\ AxisShare(p, 2, c) \in Int
  BY <1>9 DEF Axes
<1> QED  BY <1>8, <1>10, <1>11, <1>12

(* A stratum lies in its pixel, with or without jitter.                    *)
LEMMA StratumInPixel ==
  ASSUME NEW n \in Nat \ {0}, NEW k \in 0 .. n - 1, NEW s \in InStratum(k, n)
  PROVE  s \in 0 .. Unit
<1> DEFINE w == Unit \div n
<1>1. Unit \in Nat \ {0}
  BY SizeAssumption
<1>2. w \in Nat /\ w * n <= Unit
  BY <1>1
<1> HIDE DEF w
<1>3. k \in Nat /\ k * w \in Nat /\ (k + 1) * w = k * w + w /\ (k + 1) * w <= Unit
  <2>1. k \in Nat /\ k + 1 \in Nat /\ k + 1 <= n
    OBVIOUS
  <2>2. k * w \in Nat /\ (k + 1) * w = k * w + w
    BY <1>2, <2>1
  <2>3. (k + 1) * w <= n * w
    <3>1. CASE w = 0
      BY <2>1, <3>1
    <3>2. CASE w # 0
      BY <1>2, <2>1, <3>2, ByUnit
    <3> QED  BY <3>1, <3>2
  <2>4. n * w = w * n /\ n * w \in Nat
    BY <1>2
  <2> QED  BY <1>1, <1>2, <2>1, <2>2, <2>3, <2>4
<1>4. w \div 2 \in 0 .. w
  BY <1>2
<1> DEFINE K == k * w  L == (k + 1) * w
<1>5. s \in K .. L \/ s = K + w \div 2
  <2>1. InStratum(k, n) = IF sampler.jitter THEN K .. L - (IF k + 1 = n THEN 0 ELSE 1)
                          ELSE {K + w \div 2}
    BY DEF InStratum, w
  <2>2. K \in Int /\ L \in Int
    BY <1>2, <1>3
  <2> HIDE DEF K, L
  <2> QED  BY <2>1, <2>2
<1>6. K \in Nat /\ L = K + w /\ L <= Unit
  BY <1>3
<1> HIDE DEF K, L
<1> QED  BY <1>1, <1>2, <1>4, <1>5, <1>6

(* A sample falls in the part of the film under the block.                 *)
LEMMA PointsOnBlock ==
  ASSUME LoopInv, ShownInv, pc = "put", NEW p \in Points
  PROVE  OnBlock(p)
<1> DEFINE k == film[Len(film)] - 1
           sub == IF SampleCount = 1 THEN {<<Unit \div 2, Unit \div 2>>}
                  ELSE IF film[Len(film)] = 0 THEN (0 .. Unit) \X (0 .. Unit)
                  ELSE InStratum(k % sampler.xs, sampler.xs) \X InStratum(k \div sampler.xs, sampler.ys)
<1>1. /\ offset[1] \in Nat /\ offset[2] \in Nat /\ x \in Nat /\ y \in Nat
      /\ size[1] \in Nat /\ size[2] \in Nat
      /\ sampler.xs \in Nat \ {0} /\ sampler.ys \in Nat \ {0} /\ Unit \in Nat \ {0}
      /\ SampleCount \in Nat \ {0} /\ i \in 0 .. SampleCount - 1
      /\ x < size[1] /\ y < size[2]
  <2>1. /\ offset[1] \in Nat /\ offset[2] \in Nat /\ size[1] \in Nat /\ size[2] \in Nat
    BY DEF LoopInv, Placed
  <2>2. x \in Nat /\ y \in Nat /\ i \in 0 .. SampleCount - 1 /\ sampler \in Samplers
    BY DEF LoopInv, Loops
  <2>3. x < size[1] /\ y < size[2]
    BY DEF ShownInv
  <2>4. /\ sampler.xs \in Nat \ {0} /\ sampler.ys \in Nat \ {0} /\ Unit \in Nat \ {0}
        /\ SampleCount \in Nat \ {0}
    BY <2>2, SizeAssumption, TraceAssumption, SampleCountPositive
  <2> QED  BY <2>1, <2>2, <2>3, <2>4
<1>2. SampleCount # 1 => film[Len(film)] \in 0 .. SampleCount
  <2>1. SampleCount # 1 => Len(film) = i + 1 /\ film \in Seq(0 .. SampleCount)
    BY DEF LoopInv, Strata, ShownInv
  <2>2. SampleCount # 1 => Len(film) \in 1 .. Len(film)
    BY <1>1, <2>1
  <2> DEFINE S == 0 .. SampleCount
  <2>3. SampleCount # 1 => film \in Seq(S)
    BY <2>1
  <2> HIDE DEF S
  <2>4. SampleCount # 1 => film[Len(film)] \in S
    BY <2>2, <2>3
  <2> QED  BY <2>4 DEF S
<1>3. sub \subseteq (0 .. Unit) \X (0 .. Unit)
  <2>1. CASE SampleCount = 1
    <3>1. Unit \div 2 \in 0 .. Unit
      BY <1>1
    <3> QED  BY <2>1, <3>1
  <2>2. CASE SampleCount # 1 /\ film[Len(film)] = 0
    BY <2>2
  <2>3. CASE SampleCount # 1 /\ film[Len(film)] # 0
    <3> DEFINE xs == sampler.xs  ys == sampler.ys
    <3>1. k \in 0 .. xs * ys - 1
      <4> DEFINE f == film[Len(film)]
      <4>1. f \in 0 .. SampleCount /\ f # 0 /\ SampleCount \in Nat /\ k = f - 1
        BY <1>1, <1>2, <2>3
      <4> HIDE DEF f, k
      <4>2. k \in 0 .. SampleCount - 1
        BY <4>1
      <4> QED  BY <4>2 DEF SampleCount
    <3>2. xs \in Nat \ {0} /\ ys \in Nat \ {0}
      BY <1>1
    <3>3. sub = InStratum(k % xs, xs) \X InStratum(k \div xs, ys)
      BY <2>3
    <3> HIDE DEF k, xs, ys, sub
    <3>4. k \in Nat /\ k % xs \in 0 .. xs - 1
      BY <3>1, <3>2
    <3>5. k \div xs \in 0 .. ys - 1
      <4> DEFINE d == k \div xs
      <4>1. d \in Nat /\ d * xs <= k
        BY <3>2, <3>4
      <4> HIDE DEF d
      <4>2. ~ (ys <= d)
        <5>1. ys <= d => ys * xs <= d * xs
          BY <3>2, <4>1, ByUnit
        <5>2. xs * ys \in Nat /\ ys * xs = xs * ys /\ d * xs \in Nat
          BY <3>2, <4>1
        <5> QED  BY <3>1, <3>4, <4>1, <5>1, <5>2
      <4> QED  BY <3>2, <4>1, <4>2 DEF d
    <3>6. \A s \in InStratum(k % xs, xs) : s \in 0 .. Unit
      BY <3>2, <3>4, StratumInPixel
    <3>7. \A s \in InStratum(k \div xs, ys) : s \in 0 .. Unit
      BY <3>2, <3>5, StratumInPixel
    <3> QED  BY <3>3, <3>6, <3>7
  <2> QED  BY <2>1, <2>2, <2>3
<1>4. Points = {<<(x + offset[1]) * Unit + s[1], (y + offset[2]) * Unit + s[2]>> : s \in sub}
  BY DEF Points
<1> HIDE DEF sub
<1>5. PICK s \in sub : p = <<(x + offset[1]) * Unit + s[1], (y + offset[2]) * Unit + s[2]>>
  BY <1>4
<1>6. s[1] \in 0 .. Unit /\ s[2] \in 0 .. Unit
  BY <1>3
<1>7. ASSUME NEW o \in Nat, NEW n \in Nat, NEW z \in Nat, z < n, NEW r \in 0 .. Unit
      PROVE  (z + o) * Unit + r \in o * Unit .. (o + n) * Unit
  <2>1. o <= z + o /\ z + o + 1 <= o + n
    BY <1>7
  <2>2. o * Unit <= (z + o) * Unit /\ (z + o + 1) * Unit <= (o + n) * Unit
    BY <1>1, <1>7, <2>1, ByUnit
  <2>3. (z + o + 1) * Unit = (z + o) * Unit + Unit
    BY <1>1, <1>7
  <2>4. o * Unit \in Int /\ (z + o) * Unit \in Int /\ (o + n) * Unit \in Int
    BY <1>1, <1>7
  <2> QED  BY <1>1, <1>7, <2>2, <2>3, <2>4
<1>8. /\ (x + offset[1]) * Unit + s[1] \in offset[1] * Unit .. (offset[1] + size[1]) * Unit
      /\ (y + offset[2]) * Unit + s[2] \in offset[2] * Unit .. (offset[2] + size[2]) * Unit
  BY <1>1, <1>6, <1>7
<1>9. /\ p[1] \in offset[1] * Unit .. (offset[1] + size[1]) * Unit
      /\ p[2] \in offset[2] * Unit .. (offset[2] + size[2]) * Unit
      /\ p = <<p[1], p[2]>>
  <2> DEFINE u == (x + offset[1]) * Unit + s[1]  v == (y + offset[2]) * Unit + s[2]
  <2>1. p = <<u, v>>
    BY <1>5
  <2>2. /\ u \in offset[1] * Unit .. (offset[1] + size[1]) * Unit
        /\ v \in offset[2] * Unit .. (offset[2] + size[2]) * Unit
    BY <1>8
  <2> HIDE DEF u, v
  <2>3. p[1] = u /\ p[2] = v
    BY <2>1
  <2> QED  BY <2>1, <2>2, <2>3, Zenon
<1>10. /\ offset[1] * Unit \in Int /\ (offset[1] + size[1]) * Unit \in Int
       /\ offset[2] * Unit \in Int /\ (offset[2] + size[2]) * Unit \in Int
  BY <1>1
<1> QED  BY <1>9, <1>10 DEF OnBlock, Axes

-----------------------------------------------------------------------------
(* What depends on the block and the filter alone stays as it is.          *)
LEMMA SetupShown ==
  ASSUME UNCHANGED setup
  PROVE  /\ size' = size /\ SampleCount' = SampleCount /\ Sample' = Sample
         /\ LocalCells' = LocalCells /\ ImageCells' = ImageCells
         /\ Black(LocalCells)' = Black(LocalCells) /\ Black(ImageCells)' = Black(ImageCells)
         /\ \A p : Shares(p)' = Shares(p) /\ (OnBlock(p)' <=> OnBlock(p))
BY DEF setup, SampleCount, Sample, LocalCells, ImageCells, Border, Ceil, Black, Shares, Share,
       InImage, OnBlock, Distance, Filter

(* Nothing is put before the first pixel.                                  *)
LEMMA ShownInit == Init => ShownInv
<1> SUFFICES ASSUME Init  PROVE ShownInv
  OBVIOUS
<1>1. LoopInv
  BY LoopInit
<1>2. size[1] \in Nat \ {0} /\ size[2] \in Nat \ {0}
  BY <1>1 DEF LoopInv, Placed
<1>3. lit \in Sample /\ lit.at = <<>>
  BY DEF Init, Sample
<1>4. x < size[1] /\ y < size[2] /\ film = <<>> /\ pc = "pixel"
  BY <1>2 DEF Init
<1>5. local = Black(LocalCells) /\ image = Black(ImageCells)
  BY DEF Init
<1>6. Shown /\ BlocksInvisible
  BY <1>3, <1>4, <1>5 DEF Shown, BlocksInvisible
<1>7. film \in Seq(0 .. SampleCount)
  BY <1>4
<1> QED  BY <1>4, <1>5, <1>6, <1>7 DEF ShownInv

(* A step that puts nothing and stays at the sample, or begins it.         *)
LEMMA SameSampleShown ==
  ASSUME ShownInv, UNCHANGED <<setup, x, y, lit, local, image>>,
         pc \in {"pixel", "sample", "trace", "put"}, pc' \in {"sample", "trace", "put"},
         pc = "pixel" \/ i' = i, film' \in Seq(0 .. SampleCount)
  PROVE  ShownInv'
<1>1. /\ size' = size /\ SampleCount' = SampleCount /\ Sample' = Sample
      /\ Black(LocalCells)' = Black(LocalCells) /\ Black(ImageCells)' = Black(ImageCells)
      /\ \A p : Shares(p)' = Shares(p) /\ (OnBlock(p)' <=> OnBlock(p))
  BY SetupShown
<1>2. Passed => Passed'
  BY DEF Passed
<1>3. Shown'
  <2>1. lit' = lit /\ local' = local /\ Shown
    BY DEF ShownInv
  <2> QED  BY <1>1, <1>2, <2>1 DEF Shown
<1>4. BlocksInvisible'
  BY DEF BlocksInvisible
<1>5. x < size[1] /\ y < size[2] /\ image = Black(ImageCells)
  BY DEF ShownInv
<1>6. film' \in Seq(0 .. SampleCount)'
  BY <1>1
<1>7. /\ pc' \notin {"merge", "done"} => x' < size'[1] /\ y' < size'[2]
      /\ pc' # "done" => image' = Black(ImageCells)'
  BY <1>1, <1>5
<1> QED  BY <1>3, <1>4, <1>6, <1>7 DEF ShownInv

(* generate(), the sample on the film and the rays put nothing.            *)
LEMMA BeforePutShown ==
  ASSUME LoopInv, ShownInv, Generate \/ FilmSample \/ TooDeep \/ Miss \/ Shade \/ Bounce
  PROVE  ShownInv'
<1>1. CASE Generate
  <2>1. film' \in Seq(0 .. SampleCount)
    BY <1>1 DEF Generate
  <2> QED  BY <1>1, <2>1, SameSampleShown DEF Generate
<1>2. CASE FilmSample
  <2>1. film' \in Seq(0 .. SampleCount)
    <3>1. CASE SampleCount = 1
      BY <1>2, <3>1 DEF FilmSample, ShownInv
    <3>2. CASE SampleCount # 1
      <4>1. film' = Append(film, IF dimension < dimension' THEN strata[sampleIndex + 1] ELSE 0)
        BY <1>2, <3>2 DEF FilmSample
      <4>2. sampleIndex \in 0 .. SampleCount - 1 /\ SampleCount \in Nat \ {0} /\ strata \in Shuffles
        BY <1>2, SampleCountPositive DEF FilmSample, LoopInv, Loops, Strata
      <4>3. strata[sampleIndex + 1] \in 0 .. SampleCount /\ 0 \in 0 .. SampleCount
        BY <4>2 DEF Shuffles
      <4> DEFINE S == 0 .. SampleCount
      <4>4. film \in Seq(S) /\ strata[sampleIndex + 1] \in S /\ 0 \in S
        BY <4>3 DEF ShownInv
      <4> HIDE DEF S
      <4>5. film' \in Seq(S)
        BY <4>1, <4>4
      <4> QED  BY <4>5 DEF S
    <3> QED  BY <3>1, <3>2
  <2>2. /\ UNCHANGED <<setup, x, y, lit, local, image>> /\ i' = i
        /\ pc = "sample" /\ pc' = "trace"
    BY <1>2 DEF FilmSample, loops
  <2> QED  BY <2>1, <2>2, SameSampleShown
<1>3. CASE TooDeep \/ Miss \/ Shade \/ Bounce
  <2>1. /\ UNCHANGED <<setup, x, y, lit, local, image>> /\ i' = i /\ film' = film
        /\ pc = "trace" /\ pc' \in {"trace", "put"}
    BY <1>3 DEF TooDeep, Miss, Shade, Bounce, loops
  <2>2. film' \in Seq(0 .. SampleCount)
    BY <2>1 DEF ShownInv
  <2> QED  BY <2>1, <2>2, SameSampleShown
<1> QED  BY <1>1, <1>2, <1>3

(* The loops go on to samples that were not before: one that is put is     *)
(* passed, and stays so.                                                   *)
LEMMA AdvancePasses ==
  ASSUME LoopInv, ShownInv, pc = "put", Advance
  PROVE  /\ pc' \in {"sample", "pixel", "merge"}
         /\ pc' # "merge" => x' < size[1] /\ y' < size[2]
         /\ lit'.pixel = lit.pixel /\ lit'.index = lit.index /\ (IsLit \/ Passed) => Passed'
<1>1. /\ i \in 0 .. SampleCount - 1 /\ SampleCount \in Nat /\ x \in Nat /\ y \in Nat
      /\ x < size[1] /\ y < size[2] /\ size[1] \in Nat /\ size[2] \in Nat
  <2>1. size[1] \in Nat /\ size[2] \in Nat
    BY DEF LoopInv, Placed
  <2> QED  BY <2>1, SampleCountPositive DEF LoopInv, Loops, ShownInv
<1>2. lit.pixel = <<lit.pixel[1], lit.pixel[2]>> /\ lit.pixel[1] \in Nat /\ lit.pixel[2] \in Nat
      /\ lit.index \in Nat
  <2>1. lit.pixel \in (0 .. size[1] - 1) \X (0 .. size[2] - 1) /\ lit.index \in 0 .. SampleCount - 1
    BY DEF ShownInv, Shown, Sample
  <2> QED  BY <1>1, <2>1
<1>3. NextSample
  BY DEF Advance
<1>4. CASE i + 1 < SampleCount
  <2>1. pc' = "sample" /\ i' = i + 1 /\ x' = x /\ y' = y
    BY <1>3, <1>4 DEF NextSample
  <2>2. lit'.pixel = lit.pixel /\ lit'.index = lit.index /\ (IsLit \/ Passed) => Passed'
    BY <1>1, <1>2, <2>1 DEF IsLit, Passed
  <2> QED  BY <1>1, <2>1, <2>2
<1>5. CASE ~ (i + 1 < SampleCount)
  <2>1. /\ i' = i
        /\ x' = IF x + 1 < size[1] THEN x + 1 ELSE 0
        /\ y' = IF x + 1 < size[1] THEN y ELSE y + 1
        /\ pc' = IF y' < size[2] THEN "pixel" ELSE "merge"
    BY <1>3, <1>5 DEF NextSample, NextRow
  <2>2. pc' \in {"pixel", "merge"} /\ (pc' # "merge" => x' < size[1] /\ y' < size[2])
    BY <1>1, <2>1
  <2>3. ASSUME lit'.pixel = lit.pixel, lit'.index = lit.index, IsLit \/ Passed  PROVE Passed'
    <3>1. lit.pixel[2] < y \/ (lit.pixel[2] = y /\ lit.pixel[1] <= x)
      BY <1>1, <1>2, <2>3 DEF IsLit, Passed
    <3>2. y' > lit.pixel[2] \/ (y' = lit.pixel[2] /\ x' > lit.pixel[1])
      BY <1>1, <1>2, <2>1, <3>1
    <3> QED  BY <2>3, <3>2 DEF Passed
  <2> QED  BY <2>2, <2>3
<1> QED  BY <1>4, <1>5

(* put(sample): the sample that is not black is put once, into a black     *)
(* block (block.cpp:61-91).                                                *)
LEMMA PutShown ==
  ASSUME LoopInv, ShownInv, Put \/ PutInvalid
  PROVE  ShownInv'
<1>1. pc = "put" /\ Advance /\ UNCHANGED <<setup, film, image>>
  BY DEF Put, PutInvalid, Advance
<1>2. /\ size' = size /\ SampleCount' = SampleCount /\ Sample' = Sample
      /\ Black(LocalCells)' = Black(LocalCells) /\ Black(ImageCells)' = Black(ImageCells)
      /\ \A p : Shares(p)' = Shares(p) /\ (OnBlock(p)' <=> OnBlock(p))
  BY <1>1, SetupShown
<1>3. /\ pc' \in {"sample", "pixel", "merge"}
      /\ pc' # "merge" => x' < size[1] /\ y' < size[2]
      /\ lit'.pixel = lit.pixel /\ lit'.index = lit.index /\ (IsLit \/ Passed) => Passed'
  BY <1>1, AdvancePasses
<1>4. Shown /\ lit \in Sample
  BY DEF ShownInv, Shown
<1>5. Shown'
  <2>1. CASE UNCHANGED <<local, lit>>
    <3>1. lit.at # <<>> => Passed'
      BY <1>3, <1>4, <2>1 DEF Shown
    <3> QED  BY <1>2, <1>4, <2>1, <3>1 DEF Shown
  <2>2. CASE ~ UNCHANGED <<local, lit>>
    <3>1. PICK p \in Points : IsLit /\ local' = Splat(p) /\ lit' = [lit EXCEPT !.at = p]
      BY <2>2 DEF Put, PutInvalid
    <3>2. lit.at = <<>>
      <4>1. lit.pixel \in (0 .. size[1] - 1) \X (0 .. size[2] - 1) /\ lit.index \in Int
        BY <1>4 DEF Sample
      <4>2. lit.pixel = <<x, y>> /\ lit.index = i /\ x \in Nat /\ y \in Nat
        BY <3>1 DEF IsLit, LoopInv, Loops
      <4>3. ~Passed
        BY <4>1, <4>2 DEF Passed
      <4> QED  BY <1>4, <4>3 DEF Shown
    <3>3. OnBlock(p) /\ p \in Int \X Int
      BY <1>1, <3>1, PointsOnBlock DEF OnBlock
    <3>4. Splat(p) = Shares(p)
      <4>1. local = Black(LocalCells)
        BY <1>4, <3>2 DEF Shown
      <4> QED  BY <3>3, <4>1, SplatIsShares, Zenon
    <3>5. lit' \in Sample /\ lit'.at = p /\ lit'.pixel = lit.pixel /\ lit'.index = lit.index
      <4> DEFINE P == (0 .. size[1] - 1) \X (0 .. size[2] - 1)
                 I == 0 .. SampleCount - 1
                 A == {<<>>} \cup (Int \X Int)
      <4>1. Sample = [pixel : P, index : I, at : A]
        BY DEF Sample
      <4>2. p \in A
        BY <3>3
      <4> HIDE DEF P, I, A
      <4> QED  BY <1>4, <3>1, <4>1, <4>2
    <3>6. lit'.at # <<>>
      <4>1. Len(<<p[1], p[2]>>) = 2 /\ p = <<p[1], p[2]>>
        BY <3>3
      <4>2. Len(<<>>) = 0
        OBVIOUS
      <4>3. p # <<>>
        BY <4>1, <4>2
      <4> QED  BY <3>5, <4>3, Zenon
    <3>7. Passed'
      BY <1>3, <3>1, <3>5, Zenon
    <3>8. (local = Shares(lit.at) /\ OnBlock(lit.at))'
      <4>1. Shares(lit.at)' = Shares(p)'
        BY <3>5 DEF Shares, Share, InImage
      <4>2. OnBlock(lit.at)' <=> OnBlock(p)'
        BY <3>5 DEF OnBlock
      <4> QED  BY <1>2, <3>1, <3>3, <3>4, <4>1, <4>2, Zenon
    <3>9. lit' \in Sample'
      BY <1>2, <3>5
    <3> QED  BY <3>6, <3>7, <3>8, <3>9 DEF Shown
  <2> QED  BY <2>1, <2>2
<1>6. film' \in Seq(0 .. SampleCount)'
  BY <1>1, <1>2 DEF ShownInv
<1>7. BlocksInvisible' /\ image' = Black(ImageCells)'
  BY <1>1, <1>2, <1>3 DEF ShownInv, BlocksInvisible
<1>8. pc' \notin {"merge", "done"} => x' < size'[1] /\ y' < size'[2]
  BY <1>2, <1>3
<1> QED  BY <1>5, <1>6, <1>7, <1>8 DEF ShownInv

(* put(block): where the block is the image gets its shares, elsewhere the *)
(* filter gives nothing (block.cpp:93-101).                                *)
LEMMA MergeShown ==
  ASSUME LoopInv, ShownInv, Merge
  PROVE  ShownInv'
<1>1. /\ pc' = "done" /\ UNCHANGED <<setup, x, y, i, film, lit, local>> /\ pc = "merge"
      /\ image = Black(ImageCells)
  BY DEF Merge, loops, ShownInv
<1>2. /\ size' = size /\ SampleCount' = SampleCount /\ Sample' = Sample
      /\ LocalCells' = LocalCells /\ ImageCells' = ImageCells
      /\ Black(LocalCells)' = Black(LocalCells) /\ Black(ImageCells)' = Black(ImageCells)
      /\ \A p : Shares(p)' = Shares(p) /\ (OnBlock(p)' <=> OnBlock(p))
  BY <1>1, SetupShown
<1>3. Shown'
  <2>1. Passed => Passed'
    BY <1>1 DEF Passed
  <2>2. Shown
    BY DEF ShownInv
  <2>3. Shares(lit.at)' = Shares(lit.at) /\ (OnBlock(lit.at)' <=> OnBlock(lit.at))
    BY <1>1 DEF setup, Shares, Share, InImage, OnBlock, LocalCells, Border, Ceil, Filter, Distance
  <2> QED  BY <1>1, <1>2, <2>1, <2>2, <2>3 DEF Shown
<1> DEFINE b(c) == <<c[1] - offset[1], c[2] - offset[2]>>
           share(c) == IF lit.at = <<>> THEN 0 ELSE Share(lit.at, c)
<1>4. ASSUME NEW c \in ImageCells  PROVE image'[c] = share(c)
  <2>1. image'[c] = image[c] + (IF b(c) \in Corner THEN local[b(c)] ELSE 0)
    BY DEF Merge
  <2>2. image[c] = 0
    BY <1>1 DEF Black
  <2>3. b(c) \in Int \X Int /\ InImage(b(c)) = c
    <3>1. Border \in Int /\ offset[1] \in Nat /\ offset[2] \in Nat /\ Width \in Nat /\ Height \in Nat
      BY Lengths, SizeAssumption DEF Axes
    <3>2. c = <<c[1], c[2]>> /\ c[1] \in Int /\ c[2] \in Int
      BY <3>1 DEF ImageCells
    <3>3. b(c) \in Int \X Int /\ (c[1] - offset[1]) + offset[1] = c[1] /\ (c[2] - offset[2]) + offset[2] = c[2]
      BY <3>1, <3>2
    <3>4. InImage(b(c)) = <<(c[1] - offset[1]) + offset[1], (c[2] - offset[2]) + offset[2]>>
      BY DEF InImage
    <3> QED  BY <3>2, <3>3, <3>4
  <2>4. CASE lit.at = <<>>
    <3>1. b(c) \in Corner => local[b(c)] = 0
      BY <2>4 DEF ShownInv, Shown, Black, Corner
    <3> HIDE DEF b
    <3> QED  BY <2>1, <2>2, <2>4, <3>1
  <2>5. CASE lit.at # <<>>
    <3> DEFINE p == lit.at
    <3>1. OnBlock(p) /\ local = Shares(p) /\ p \in Int \X Int
      BY <2>5 DEF ShownInv, Shown, OnBlock
    <3>2. CASE b(c) \in Corner
      <4>1. b(c) \in LocalCells
        BY <3>2 DEF Corner
      <4>2. local[b(c)] = Share(p, c)
        <5> HIDE DEF b, p
        <5> QED  BY <2>3, <3>1, <4>1 DEF Shares
      <4>3. Share(p, c) \in Int
        <5>1. \A a \in Axes : AxisShare(p, a, InImage(b(c))) \in Int
          <6> HIDE DEF b, p
          <6> QED  BY <3>1, <4>1, AxisShareInBlock
        <5>2. AxisShare(p, 1, c) \in Int /\ AxisShare(p, 2, c) \in Int
          <6> HIDE DEF b, p
          <6> QED  BY <2>3, <5>1 DEF Axes
        <5>3. Share(p, c) = AxisShare(p, 1, c) * AxisShare(p, 2, c)
          BY DEF Share, AxisShare
        <5> HIDE DEF p
        <5> QED  BY <5>2, <5>3
      <4> HIDE DEF b
      <4> QED  BY <2>1, <2>2, <2>5, <3>2, <4>2, <4>3
    <3>3. CASE b(c) \notin Corner
      <4>1. Share(p, c) = 0
        BY <2>3, <3>1, <3>3, NoShareOutside
      <4> HIDE DEF b
      <4> QED  BY <2>1, <2>2, <2>5, <3>3, <4>1
    <3> QED  BY <3>2, <3>3
  <2> QED  BY <2>4, <2>5
<1>5. \A c : Share(lit.at, c)' = Share(lit.at, c)
  BY <1>1 DEF setup, Share, Border, Ceil, Filter, Distance
<1>6. BlocksInvisible'
  <2>1. \A c \in ImageCells' : image'[c] = IF lit'.at = <<>> THEN 0 ELSE Share(lit.at, c)
    BY <1>1, <1>2, <1>4
  <2> QED  BY <1>5, <2>1 DEF BlocksInvisible
<1>7. film' \in Seq(0 .. SampleCount)'
  BY <1>1, <1>2 DEF ShownInv
<1> QED  BY <1>1, <1>3, <1>6, <1>7 DEF ShownInv

(* That the image is rendered in blocks cannot be seen in it               *)
(* (block.cpp:19, 61-101): for images, blocks and filters of every size,   *)
(* wherever a sample falls.                                                *)
THEOREM NoSeams == Spec => []BlocksInvisible
<1>1. LoopInv /\ ShownInv /\ [Next]_vars => ShownInv'
  <2> SUFFICES ASSUME LoopInv, ShownInv, [Next]_vars  PROVE ShownInv'
    OBVIOUS
  <2>1. CASE Next
    BY <2>1, BeforePutShown, PutShown, MergeShown DEF Next
  <2>2. CASE UNCHANGED vars
    <3>1. UNCHANGED <<setup, offset, size, radius, sampler, x, y, i, film, lit, local, image, pc>>
      BY <2>2 DEF vars, loops, setup
    <3>2. /\ SampleCount' = SampleCount /\ Sample' = Sample /\ ImageCells' = ImageCells
          /\ Black(LocalCells)' = Black(LocalCells) /\ Black(ImageCells)' = Black(ImageCells)
      BY <3>1, SetupShown
    <3>3. Shares(lit.at)' = Shares(lit.at) /\ (OnBlock(lit.at)' <=> OnBlock(lit.at))
      BY <3>1 DEF Shares, Share, InImage, OnBlock, LocalCells, Border, Ceil, Filter, Distance
    <3>4. Passed' <=> Passed
      BY <3>1 DEF Passed
    <3>5. Shown'
      BY <3>1, <3>2, <3>3, <3>4 DEF ShownInv, Shown
    <3>6. \A c : Share(lit.at, c)' = Share(lit.at, c)
      BY <3>1 DEF Share, Border, Ceil, Filter, Distance
    <3>7. BlocksInvisible'
      BY <3>1, <3>2, <3>6 DEF ShownInv, BlocksInvisible
    <3> QED  BY <3>1, <3>2, <3>5, <3>7 DEF ShownInv
  <2> QED  BY <2>1, <2>2
<1>2. ShownInv => BlocksInvisible
  BY DEF ShownInv
<1> QED  BY <1>1, <1>2, ShownInit, LoopInvariant, PTL DEF Spec
=============================================================================
