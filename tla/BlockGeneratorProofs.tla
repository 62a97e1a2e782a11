------------------------- MODULE BlockGeneratorProofs -------------------------
(***************************************************************************)
(* BlockGenerator hands out every block once, nearest to the centre first, *)
(* for images and blocks of every size and any number of calling threads.  *)
(***************************************************************************)
EXTENDS BlockGeneratorProps, FiniteSetTheorems, TLAPS

(* Rounding up a quotient of naturals gives a natural.                     *)
LEMMA CeilDivNat ==
  ASSUME NEW a \in Nat, NEW b \in Nat \ {0}
  PROVE  CeilDiv(a, b) \in Nat
  BY DEF CeilDiv

(* The grid of blocks has natural sides, and its centre lies on it unless  *)
(* it is empty.                                                            *)
LEMMA GridSides ==
  /\ NumX \in Nat /\ NumY \in Nat
  /\ Centre[1] \in Nat /\ Centre[2] \in Nat
  /\ 2 * Centre[1] <= NumX /\ NumX <= 2 * Centre[1] + 1
  /\ 2 * Centre[2] <= NumY /\ NumY <= 2 * Centre[2] + 1
<1>1. NumX \in Nat /\ NumY \in Nat
  BY CeilDivNat, SizeAssumption DEF NumX, NumY
<1> QED  BY <1>1 DEF Centre

(* There are n indices from 0 to n - 1.                                    *)
LEMMA IntervalSize ==
  ASSUME NEW n \in Nat
  PROVE  IsFiniteSet(0 .. n - 1) /\ Cardinality(0 .. n - 1) = n
<1> DEFINE I == 0 .. n - 1
<1>1. n - 1 \in Int /\ 0 \in Int
  OBVIOUS
<1>2. /\ IsFiniteSet(I)
      /\ Cardinality(I) = IF 0 > n - 1 THEN 0 ELSE (n - 1) - 0 + 1
  BY <1>1, FS_Interval, Zenon
<1>3. (IF 0 > n - 1 THEN 0 ELSE (n - 1) - 0 + 1) = n
  OBVIOUS
<1> QED  BY <1>2, <1>3

(* m_blocksLeft starts at the number of blocks of the grid.                *)
LEMMA GridSize ==
  IsFiniteSet(Grid) /\ Cardinality(Grid) = NumX * NumY
<1> DEFINE X == 0 .. NumX - 1
           Y == 0 .. NumY - 1
<1>1. IsFiniteSet(X) /\ Cardinality(X) = NumX
  BY IntervalSize, GridSides
<1>2. IsFiniteSet(Y) /\ Cardinality(Y) = NumY
  BY IntervalSize, GridSides
<1>3. IsFiniteSet(X \X Y) /\ Cardinality(X \X Y) = Cardinality(X) * Cardinality(Y)
  BY <1>1, <1>2, FS_Product, Zenon
<1> QED  BY <1>1, <1>2, <1>3 DEF Grid

-----------------------------------------------------------------------------
(* Half of the leg counter is a natural number.                            *)
LEMMA RoundNat ==
  ASSUME GenTypeOK
  PROVE  /\ Round \in Nat
         /\ numSteps = 2 * Round + 1 \/ numSteps = 2 * Round + 2
         /\ Taken \in 0 .. numSteps - 1
  BY DEF GenTypeOK, Round, Taken

(* What one iteration of the loop does to the leg counters.                *)
LEMMA AdvanceLegs ==
  ASSUME GenTypeOK, LegParity, NEW t \in Threads, Advance(t)
  PROVE  /\ numSteps' \in Nat \ {0} /\ stepsLeft' \in 1 .. numSteps'
         /\ Taken < numSteps - 1 =>
              /\ direction' = direction /\ Round' = Round /\ Taken' = Taken + 1
         /\ Taken = numSteps - 1 =>
              /\ Taken' = 0
              /\ direction = ERight => direction' = EDown  /\ Round' = Round
              /\ direction = EDown  => direction' = ELeft  /\ Round' = Round
              /\ direction = ELeft  => direction' = EUp    /\ Round' = Round
              /\ direction = EUp    => direction' = ERight /\ Round' = Round + 1
         /\ LegParity'
<1> USE DEF GenTypeOK, ERight, EDown, ELeft, EUp, Round, Taken
<1>1. CASE stepsLeft = 1
  <2>1. /\ direction' = (direction + 1) % 4
        /\ numSteps' = IF direction' \in {ELeft, ERight} THEN numSteps + 1 ELSE numSteps
        /\ stepsLeft' = numSteps'
    BY <1>1 DEF Advance, Turn
  <2>2. CASE direction = ERight
    BY <1>1, <2>1, <2>2 DEF LegParity
  <2>3. CASE direction = EDown
    BY <1>1, <2>1, <2>3 DEF LegParity
  <2>4. CASE direction = ELeft
    BY <1>1, <2>1, <2>4 DEF LegParity
  <2>5. CASE direction = EUp
    BY <1>1, <2>1, <2>5 DEF LegParity
  <2> QED  BY <2>2, <2>3, <2>4, <2>5
<1>2. CASE stepsLeft # 1
  BY <1>2 DEF Advance, LegParity
<1> QED  BY <1>1, <1>2

(* One iteration of the loop moves the spiral to a cell it had not passed, *)
(* and adds that cell, and no other, to those it has passed.               *)
LEMMA AdvanceSpiral ==
  ASSUME GenTypeOK, LegParity, Head, NEW t \in Threads, Advance(t)
  PROVE  /\ block' \in Plane
         /\ Head'
         /\ ~Swept(block')
         /\ \A c \in Plane : Swept(c)' <=> Swept(c) \/ c = block'
<1>1. /\ block' = Step(block, direction)
      /\ block \in Plane
  BY DEF Advance, GenTypeOK
<1>2. /\ block' \in Plane
      /\ direction = ERight => U(block)' = U(block) + 1 /\ V(block)' = V(block)
      /\ direction = EDown  => U(block)' = U(block) /\ V(block)' = V(block) + 1
      /\ direction = ELeft  => U(block)' = U(block) - 1 /\ V(block)' = V(block)
      /\ direction = EUp    => U(block)' = U(block) /\ V(block)' = V(block) - 1
  BY <1>1, GridSides DEF Plane, Step, U, V, ERight, EDown, ELeft, EUp
<1>3. \A c \in Plane :
        /\ U(c) \in Int /\ V(c) \in Int /\ U(c)' = U(c) /\ V(c)' = V(c)
        /\ c = block' <=> U(c) = U(block)' /\ V(c) = V(block)'
  BY <1>2, GridSides DEF Plane, U, V
<1>4. direction \in {ERight, EDown, ELeft, EUp}
  BY DEF GenTypeOK
<1> USE DEF ERight, EDown, ELeft, EUp
<1>5. Head'
  BY <1>1, <1>2, <1>3, <1>4, RoundNat, AdvanceLegs DEF Head, LegParity
<1>6. ASSUME NEW c \in Plane
      PROVE  /\ Swept(c)' <=> Swept(c) \/ c = block'
             /\ ~(Swept(c) /\ c = block')
  <2> USE <1>2, <1>3, RoundNat, AdvanceLegs DEF Head, LegParity, Swept
  <2>1. CASE direction = ERight
    <3>1. CASE Taken < numSteps - 1
      BY <2>1, <3>1
    <3>2. CASE Taken = numSteps - 1
      <4>1. /\ direction' = EDown /\ Round' = Round /\ Taken' = 0
            /\ numSteps = 2 * Round + 1 /\ Taken = 2 * Round
        BY <2>1, <3>2
      <4>2. U(block)' = Round + 1 /\ V(block)' = -Round
        BY <2>1, <4>1
      <4>3. /\ U(c) \in Int /\ V(c) \in Int /\ U(c)' = U(c) /\ V(c)' = V(c)
            /\ c = block' <=> U(c) = Round + 1 /\ V(c) = -Round
        BY <4>2
      <4> HIDE <1>2, <1>3, RoundNat, AdvanceLegs DEF Head, LegParity
      <4> QED  BY <2>1, <4>1, <4>3, RoundNat
    <3> QED  BY <3>1, <3>2
  <2>2. CASE direction = EDown
    BY <2>2
  <2>3. CASE direction = ELeft
    BY <2>3
  <2>4. CASE direction = EUp
    BY <2>4
  <2> QED  BY <1>4, <2>1, <2>2, <2>3, <2>4
<1> QED  BY <1>2, <1>5, <1>6

-----------------------------------------------------------------------------
(* The generator is exhausted exactly when the whole grid is handed out.   *)
LEMMA ExhaustedIffAll ==
  ASSUME GenTypeOK, HandedOutOnce
  PROVE  IsFiniteSet(handed) /\ (blocksLeft = 0 <=> handed = Grid)
<1>1. handed \in SUBSET Grid /\ blocksLeft \in Nat
  BY DEF GenTypeOK
<1>2. /\ IsFiniteSet(handed)
      /\ Cardinality(Grid) = Cardinality(handed) => Grid = handed
  BY <1>1, GridSize, FS_Subset, Zenon
<1>3. Cardinality(handed) \in Nat /\ Cardinality(handed) + blocksLeft = Cardinality(Grid)
  BY <1>2, FS_CardinalityType, GridSize DEF HandedOutOnce
<1>4. blocksLeft = 0 => handed = Grid
  BY <1>1, <1>2, <1>3
<1>5. handed = Grid => blocksLeft = 0
  BY <1>1, <1>3
<1> QED  BY <1>2, <1>4, <1>5

(* The spiral has passed the cell it is on.                                *)
LEMMA HeadSwept ==
  ASSUME GenTypeOK, LegParity, Head
  PROVE  Swept(block)
  BY RoundNat DEF GenTypeOK, LegParity, Head, Swept, ERight, EDown, ELeft, EUp

(* The part of the invariant the others follow from.                       *)
GenCore ==
  /\ GenTypeOK
  /\ LegParity
  /\ Head
  /\ HandedSwept
  /\ HeldHasMore
  /\ HandedOutOnce

(* As long as a block is left, the spiral is no wider than the image.      *)
LEMMA LegsShort ==
  GenCore /\ blocksLeft # 0 => LegsBounded
<1> SUFFICES ASSUME GenCore, blocksLeft # 0
             PROVE  LegsBounded
  OBVIOUS
<1> USE DEF GenCore
<1>1. PICK g \in Grid : g \notin handed
  BY ExhaustedIffAll DEF GenTypeOK
<1>2. ~Swept(g) \/ g = block
  BY <1>1 DEF HandedSwept
<1>3. /\ U(g) \in Int /\ V(g) \in Int
      /\ -Centre[1] <= U(g) /\ U(g) <= NumX - 1 - Centre[1]
      /\ -Centre[2] <= V(g) /\ V(g) <= NumY - 1 - Centre[2]
  BY <1>1, GridSides DEF Grid, U, V
<1>4. numSteps <= NumX + 1 \/ numSteps <= NumY + 1
  <2> USE RoundNat DEF LegParity, Head, GenTypeOK, ERight, EDown, ELeft, EUp
  <2>1. CASE g = block
    BY <1>3, <2>1, GridSides
  <2>2. CASE ~Swept(g)
    BY <1>3, <2>2, GridSides DEF Swept
  <2> QED  BY <1>2, <2>1, <2>2
<1> QED  BY <1>4, GridSides DEF LegsBounded, Longest, GenTypeOK

(* The constructor establishes the invariant.                              *)
LEMMA InitInv == GenInit => GenInv
<1> SUFFICES ASSUME GenInit  PROVE GenInv
  OBVIOUS
<1>1. NumX * NumY \in Nat
  BY GridSides
<1>2. Centre \in Plane /\ Centre = <<Centre[1], Centre[2]>>
  BY GridSides DEF Centre, Plane
<1>3. NumX * NumY # 0 => Centre \in Grid
  <2>1. ASSUME NEW a \in Nat, NEW b \in Nat, a * b # 0
        PROVE  a # 0 /\ b # 0
    BY <2>1
  <2>2. NumX \in Nat /\ NumY \in Nat
    BY GridSides
  <2>3. NumX * NumY # 0 => NumX # 0 /\ NumY # 0
    BY <2>1, <2>2, Zenon
  <2>4. NumX # 0 /\ NumY # 0 => Centre[1] \in 0 .. NumX - 1 /\ Centre[2] \in 0 .. NumY - 1
    BY GridSides
  <2>5. NumX # 0 /\ NumY # 0 => <<Centre[1], Centre[2]>> \in Grid
    BY <2>4 DEF Grid
  <2> QED  BY <2>3, <2>5, <1>2, Zenon
<1>4. GenTypeOK
  BY <1>1, <1>2, ThreadAssumption DEF GenInit, GenTypeOK, ERight, EDown, ELeft, EUp
<1>5. Round = 0 /\ Taken = 0
  BY DEF GenInit, Round, Taken
<1>6. LegParity /\ Head
  BY <1>5, GridSides DEF GenInit, LegParity, Head, U, V, ERight, EDown, ELeft, EUp
<1>7. ASSUME NEW c \in Grid
      PROVE  c \in handed <=> Swept(c) /\ ~(Waiting /\ c = block)
  <2>1. U(c) \in Int /\ V(c) \in Int /\ (c = Centre <=> U(c) = 0 /\ V(c) = 0)
    BY <1>2, GridSides DEF Grid, U, V
  <2>2. Swept(c) => c = Centre
    BY <1>5, <2>1 DEF GenInit, Swept, ERight, EDown, ELeft, EUp
  <2>3. NumX * NumY # 0
    BY GridSides DEF Grid
  <2> QED  BY <2>2, <2>3 DEF GenInit, Waiting
<1>8. HandedSwept
  BY <1>3, <1>7 DEF HandedSwept, Waiting, GenInit
<1>9. GotHanded /\ HeldHasMore /\ DistinctBlocks
  BY DEF GenInit, GotHanded, HeldHasMore, DistinctBlocks
<1>10. HandedOutOnce
  BY <1>1, FS_EmptySet DEF GenInit, HandedOutOnce
<1>11. LegsBounded
  BY GridSides DEF GenInit, LegsBounded, Longest
<1> QED  BY <1>4, <1>6, <1>8, <1>9, <1>10, <1>11 DEF GenInv

-----------------------------------------------------------------------------
(* Handing out a block preserves the invariant.                            *)
LEMMA TakeBlockInv ==
  ASSUME GenInv, NEW t \in Threads, TakeBlock(t)
  PROVE  GenInv'
<1> USE DEF GenInv
<1>1. /\ Waiting /\ block \in Grid /\ block \notin handed
      /\ UNCHANGED <<block, direction, numSteps, stepsLeft>>
      /\ handed' = handed \cup {block} /\ blocksLeft' = blocksLeft - 1
      /\ mutex' = IF blocksLeft' = 0 THEN NoThread ELSE t
      /\ got' = [got EXCEPT ![t] = block] /\ more' = [more EXCEPT ![t] = TRUE]
  BY DEF TakeBlock, spiral, Waiting, HandedSwept
<1>2. GenTypeOK'
  BY <1>1 DEF GenTypeOK, Waiting
<1>3. LegParity' /\ Head'
  BY <1>1 DEF LegParity, Head, Round, Taken, U, V
<1>4. ~Waiting'
  BY <1>1, ThreadAssumption DEF Waiting
<1>5. HandedSwept'
  <2>1. ASSUME NEW c \in Grid
        PROVE  Swept(c)' <=> Swept(c)
    BY <1>1 DEF Swept, Round, Taken, U, V
  <2>2. ASSUME NEW c \in Grid
        PROVE  c \in handed' <=> Swept(c)'
    BY <1>1, <2>1, HeadSwept DEF HandedSwept
  <2> QED  BY <1>4, <2>2 DEF HandedSwept
<1>6. GotHanded'
  BY <1>1 DEF GotHanded, GenTypeOK
<1>7. HeldHasMore'
  BY <1>1 DEF HeldHasMore
<1>8. HandedOutOnce'
  <2>1. IsFiniteSet(handed)
    BY ExhaustedIffAll
  <2>2. Cardinality(handed') = Cardinality(handed) + 1
    BY <1>1, <2>1, FS_AddElement
  <2>3. Cardinality(handed) \in Nat /\ blocksLeft \in Nat
    BY <2>1, FS_CardinalityType DEF GenTypeOK
  <2> QED  BY <1>1, <2>2, <2>3 DEF HandedOutOnce
<1>9. DistinctBlocks'
  BY <1>1 DEF DistinctBlocks, GotHanded, GenTypeOK
<1>10. LegsBounded'
  BY <1>1 DEF LegsBounded
<1> QED  BY <1>2, <1>3, <1>5, <1>6, <1>7, <1>8, <1>9, <1>10

(* So does an iteration of the loop in next().                             *)
LEMMA AdvanceInv ==
  ASSUME GenInv, NEW t \in Threads, Advance(t)
  PROVE  GenInv'
<1> USE DEF GenInv
<1>1. /\ mutex = t /\ t # NoThread /\ blocksLeft # 0
      /\ UNCHANGED <<blocksLeft, handed, got, more>>
      /\ mutex' = IF block' \in Grid THEN NoThread ELSE t
  BY ThreadAssumption DEF Advance, HeldHasMore
<1>2. GenTypeOK'
  <2>1. direction' \in {ERight, EDown, ELeft, EUp}
    BY AdvanceLegs, RoundNat DEF GenTypeOK, ERight, EDown, ELeft, EUp
  <2> QED  BY <1>1, <2>1, AdvanceLegs, AdvanceSpiral DEF GenTypeOK
<1>3. LegParity' /\ Head'
  BY AdvanceLegs, AdvanceSpiral
<1>4. HandedSwept'
  <2>1. Waiting' => block' \in Grid
    BY <1>1 DEF Waiting
  <2>2. ASSUME NEW c \in Grid
        PROVE  c \in handed' <=> Swept(c)' /\ ~(Waiting' /\ c = block')
    <3>1. c \in handed <=> Swept(c)
      BY <1>1 DEF HandedSwept, Waiting
    <3>2. c \in Plane
      BY GridSides DEF Grid, Plane
    <3>3. /\ Swept(c)' <=> Swept(c) \/ c = block'
          /\ ~Swept(block')
      BY <3>2, AdvanceSpiral
    <3>4. Waiting' <=> block' \in Grid
      BY <1>1 DEF Waiting
    <3> QED  BY <1>1, <3>1, <3>3, <3>4
  <2> QED  BY <2>1, <2>2 DEF HandedSwept
<1>5. GotHanded' /\ HeldHasMore' /\ HandedOutOnce' /\ DistinctBlocks'
  BY <1>1 DEF GotHanded, HeldHasMore, HandedOutOnce, DistinctBlocks
<1>6. LegsBounded'
  <2>1. (GenCore /\ blocksLeft # 0 => LegsBounded)'
    BY LegsShort, PTL
  <2> QED  BY <1>1, <1>2, <1>3, <1>4, <1>5, <2>1 DEF GenCore
<1> QED  BY <1>2, <1>3, <1>4, <1>5, <1>6

-----------------------------------------------------------------------------
(* The invariant holds in every reachable state.                           *)
THEOREM GenInvariant == GenSafety => []GenInv
<1>1. GenInv /\ [GenNext]_genVars => GenInv'
  <2> SUFFICES ASSUME GenInv, [GenNext]_genVars  PROVE GenInv'
    OBVIOUS
  <2>1. ASSUME NEW t \in Threads, TakeBlock(t)  PROVE GenInv'
    BY <2>1, TakeBlockInv
  <2>2. ASSUME NEW t \in Threads, Drained(t)  PROVE GenInv'
    BY <2>2 DEF Drained, spiral, GenInv, GenTypeOK, LegParity, Head, HandedSwept, Swept,
                Waiting, GotHanded, HeldHasMore, HandedOutOnce, DistinctBlocks, LegsBounded,
                Round, Taken, U, V
  <2>3. ASSUME NEW t \in Threads, Advance(t)  PROVE GenInv'
    BY <2>3, AdvanceInv
  <2>4. CASE UNCHANGED genVars
    BY <2>4 DEF genVars, GenInv, GenTypeOK, LegParity, Head, HandedSwept, Swept,
                Waiting, GotHanded, HeldHasMore, HandedOutOnce, DistinctBlocks, LegsBounded,
                Round, Taken, U, V
  <2> QED  BY <2>1, <2>2, <2>3, <2>4 DEF GenNext
<1> QED  BY InitInv, <1>1, PTL DEF GenSafety

(* Type correctness.                                                       *)
THEOREM GenTypes == GenSpec => []GenTypeOK
<1>1. GenInv => GenTypeOK
  BY DEF GenInv
<1> QED  BY <1>1, GenInvariant, PTL DEF GenSpec

(* Every call that succeeds hands out a block that was not handed out      *)
(* before, so that the count of blocks left is right in every state.       *)
THEOREM EveryBlockOnce == GenSpec => []HandedOutOnce
<1>1. GenInv => HandedOutOnce
  BY DEF GenInv
<1> QED  BY <1>1, GenInvariant, PTL DEF GenSpec

(* Two threads never hold the same block.                                  *)
THEOREM ThreadSafe == GenSpec => []DistinctBlocks
<1>1. GenInv => DistinctBlocks
  BY DEF GenInv
<1> QED  BY <1>1, GenInvariant, PTL DEF GenSpec

(* The legs of the spiral never outgrow the image.                         *)
THEOREM SpiralBounded == GenSpec => []LegsBounded
<1>1. GenInv => LegsBounded
  BY DEF GenInv
<1> QED  BY <1>1, GenInvariant, PTL DEF GenSpec

(* A block leaves only after all the blocks nearer to the centre.          *)
LEMMA CentreFirstInv == GenInv => CentreFirst
<1> SUFFICES ASSUME GenInv, NEW c \in handed, NEW g \in Grid, Ring(g) < Ring(c)
             PROVE  g \in handed
  BY DEF CentreFirst
<1> USE DEF GenInv
<1>1. c \in Grid /\ Swept(c)
  BY DEF GenTypeOK, HandedSwept
<1>2. /\ U(c) \in Int /\ V(c) \in Int /\ U(g) \in Int /\ V(g) \in Int
  BY <1>1, GridSides DEF Grid, U, V
<1>3. \E r \in Nat :
        /\ -r < U(g) /\ U(g) < r /\ -r < V(g) /\ V(g) < r
        /\ U(c) = r \/ U(c) = -r \/ V(c) = r \/ V(c) = -r
  <2>1. \A x \in Grid :
          Ring(x) = LET du == IF U(x) > 0 THEN U(x) ELSE -U(x)
                        dv == IF V(x) > 0 THEN V(x) ELSE -V(x)
                    IN  IF du < dv THEN dv ELSE du
    BY GridSides DEF Grid, Ring, Gap, U, V
  <2>2. Ring(c) \in Nat /\ Ring(g) \in Nat
    BY <1>1, <1>2, <2>1
  <2>3. /\ -Ring(c) < U(g) /\ U(g) < Ring(c) /\ -Ring(c) < V(g) /\ V(g) < Ring(c)
        /\ U(c) = Ring(c) \/ U(c) = -Ring(c) \/ V(c) = Ring(c) \/ V(c) = -Ring(c)
    BY <1>1, <1>2, <2>1, <2>2
  <2> QED  BY <2>2, <2>3
<1>4. PICK r \in Nat :
        /\ -r < U(g) /\ U(g) < r /\ -r < V(g) /\ V(g) < r
        /\ U(c) = r \/ U(c) = -r \/ V(c) = r \/ V(c) = -r
  BY <1>3
<1>5. Swept(g) /\ g # block
  BY <1>1, <1>2, <1>4, RoundNat
     DEF Swept, LegParity, Head, GenTypeOK, ERight, EDown, ELeft, EUp
<1> QED  BY <1>5 DEF HandedSwept

(* The centre is rendered first, and every ring before the next.           *)
THEOREM SpiralFromCentre == GenSpec => []CentreFirst
  BY CentreFirstInv, GenInvariant, PTL DEF GenSpec

-----------------------------------------------------------------------------
(* The generator implements the abstract work pool.                        *)
THEOREM Refinement == GenSpec => ImplementsWorkPool
<1>1. GenInit => Pool!Init
  BY DEF GenInit, Pool!Init
<1>2. GenInv /\ [GenNext]_genVars => [Pool!Next]_Pool!vars
  <2> SUFFICES ASSUME GenInv, [GenNext]_genVars  PROVE [Pool!Next]_Pool!vars
    OBVIOUS
  <2>1. ASSUME NEW t \in Threads, TakeBlock(t)  PROVE Pool!Take(t)
    <3>1. block \in Grid \ handed
      BY <2>1 DEF TakeBlock, GenInv, HandedSwept, Waiting
    <3> QED  BY <2>1, <3>1 DEF TakeBlock, Pool!Take
  <2>2. ASSUME NEW t \in Threads, Drained(t)  PROVE Pool!Drained(t)
    <3>1. Grid \ handed = {}
      BY <2>2, ExhaustedIffAll DEF Drained, GenInv
    <3> QED  BY <2>2, <3>1 DEF Drained, Pool!Drained
  <2>3. ASSUME NEW t \in Threads, Advance(t)  PROVE UNCHANGED Pool!vars
    BY <2>3 DEF Advance, Pool!vars
  <2>4. CASE UNCHANGED genVars
    BY <2>4 DEF genVars, Pool!vars
  <2> QED  BY <2>1, <2>2, <2>3, <2>4 DEF GenNext, Pool!Next
<1> QED  BY <1>1, <1>2, GenInvariant, PTL DEF GenSpec, GenSafety, ImplementsWorkPool, Pool!Spec

-----------------------------------------------------------------------------
(* Along one axis every pixel lies in exactly one of the strips the blocks *)
(* cut the image into.                                                     *)
LEMMA OneStrip ==
  ASSUME NEW total \in Nat, NEW p \in 0 .. total - 1
  PROVE  \E i \in 0 .. CeilDiv(total, BlockSize) - 1 :
           /\ p >= i * BlockSize /\ p < i * BlockSize + Cut(total, i * BlockSize)
           /\ \A j \in 0 .. CeilDiv(total, BlockSize) - 1 :
                p >= j * BlockSize /\ p < j * BlockSize + Cut(total, j * BlockSize) => j = i
<1> DEFINE b == BlockSize
           i == p \div b
           n == CeilDiv(total, b)
<1>1. b \in Nat /\ b > 0
  BY SizeAssumption
<1>2. i \in Nat /\ i * b <= p /\ p < i * b + b
  BY <1>1
<1>3. n \in Nat /\ total <= n * b
  BY <1>1, CeilDivNat DEF CeilDiv
<1>4. ASSUME NEW j \in Nat, NEW k \in Nat, j < k
      PROVE  j * b + b <= k * b
  BY <1>1, <1>4
<1> HIDE DEF b, i, n
<1>5. i < n
  <2>1. n < i => n * b + b <= i * b
    BY <1>2, <1>3, <1>4
  <2> QED  BY <1>1, <1>2, <1>3, <2>1
<1>6. p >= i * b /\ p < i * b + Cut(total, i * b)
  BY <1>1, <1>2 DEF Cut, b
<1>7. ASSUME NEW j \in 0 .. n - 1, p >= j * b, p < j * b + Cut(total, j * b)
      PROVE  j = i
  <2>1. p < j * b + b
    BY <1>1, <1>7 DEF Cut, b
  <2>2. j \in Nat /\ j * b \in Nat /\ i * b \in Nat
    BY <1>1, <1>2, <1>3
  <2>3. j < i => j * b + b <= i * b
    BY <1>2, <1>4, <2>2
  <2>4. i < j => i * b + b <= j * b
    BY <1>2, <1>4, <2>2
  <2> QED  BY <1>1, <1>2, <1>7, <2>1, <2>2, <2>3, <2>4
<1> QED  BY <1>2, <1>3, <1>5, <1>6, <1>7 DEF b, n

(* A pixel lies in a block exactly when its column and its row do.         *)
LEMMA CoversAxes ==
  ASSUME NEW x \in Nat, NEW y \in Nat, NEW px \in Nat, NEW py \in Nat
  PROVE  Covers(<<x, y>>, <<px, py>>) <=>
           /\ px >= x * BlockSize /\ px < x * BlockSize + Cut(Width, x * BlockSize)
           /\ py >= y * BlockSize /\ py < y * BlockSize + Cut(Height, y * BlockSize)
<1> DEFINE ox == x * BlockSize
           oy == y * BlockSize
           ex == Cut(Width, ox)
           ey == Cut(Height, oy)
<1>1. Offset(<<x, y>>) = <<ox, oy>> /\ Extent(<<x, y>>) = <<ex, ey>>
  BY DEF Offset, Extent
<1> HIDE DEF ox, oy, ex, ey
<1>2. Covers(<<x, y>>, <<px, py>>) <=>
        px >= ox /\ px < ox + ex /\ py >= oy /\ py < oy + ey
  BY <1>1 DEF Covers
<1> QED  BY <1>2 DEF ox, oy, ex, ey

(* The blocks handed out tile the image.                                   *)
LEMMA TilesInv == GenInv => EveryPixelOnce
<1> SUFFICES ASSUME GenInv, blocksLeft = 0,
                    NEW px \in 0 .. Width - 1, NEW py \in 0 .. Height - 1
             PROVE  \E c \in handed :
                      /\ Covers(c, <<px, py>>)
                      /\ \A d \in handed : Covers(d, <<px, py>>) => d = c
  BY DEF EveryPixelOnce
<1>1. handed = Grid
  BY ExhaustedIffAll DEF GenInv
<1>2. Width \in Nat /\ Height \in Nat /\ px \in Nat /\ py \in Nat
  BY SizeAssumption
<1> DEFINE InX(x) == px >= x * BlockSize /\ px < x * BlockSize + Cut(Width, x * BlockSize)
           InY(y) == py >= y * BlockSize /\ py < y * BlockSize + Cut(Height, y * BlockSize)
<1>3. PICK x \in 0 .. NumX - 1 : InX(x) /\ \A j \in 0 .. NumX - 1 : InX(j) => j = x
  BY <1>2, OneStrip DEF NumX
<1>4. PICK y \in 0 .. NumY - 1 : InY(y) /\ \A j \in 0 .. NumY - 1 : InY(j) => j = y
  BY <1>2, OneStrip DEF NumY
<1> HIDE DEF InX, InY
<1>5. ASSUME NEW i \in 0 .. NumX - 1, NEW j \in 0 .. NumY - 1
      PROVE  Covers(<<i, j>>, <<px, py>>) <=> InX(i) /\ InY(j)
  <2>1. i \in Nat /\ j \in Nat
    BY GridSides
  <2> QED  BY <1>2, <2>1, CoversAxes DEF InX, InY
<1>6. <<x, y>> \in Grid /\ Covers(<<x, y>>, <<px, py>>)
  BY <1>3, <1>4, <1>5 DEF Grid
<1>7. ASSUME NEW d \in Grid, Covers(d, <<px, py>>)
      PROVE  d = <<x, y>>
  <2>1. PICK i \in 0 .. NumX - 1, j \in 0 .. NumY - 1 : d = <<i, j>>
    BY DEF Grid
  <2>2. InX(i) /\ InY(j)
    BY <1>5, <1>7, <2>1
  <2> QED  BY <1>3, <1>4, <2>1, <2>2
<1> QED  BY <1>1, <1>6, <1>7

(* Every pixel of the image is rendered by exactly one block.              *)
THEOREM BlocksTileImage == GenSpec => []EveryPixelOnce
  BY TilesInv, GenInvariant, PTL DEF GenSpec
=============================================================================
