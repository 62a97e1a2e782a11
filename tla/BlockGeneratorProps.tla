------------------------- MODULE BlockGeneratorProps -------------------------
(***************************************************************************)
(* What BlockGenerator promises, the invariant its proofs rest on, and the *)
(* refinement of WorkPool.                                                 *)
(***************************************************************************)
EXTENDS BlockGenerator

Plane == Int \X Int

(* Every variable keeps its type: block may leave the grid, but only while *)
(* a thread is inside the loop of next().                                  *)
GenTypeOK ==
  /\ block \in Plane
  /\ direction \in {ERight, EDown, ELeft, EUp}
  /\ numSteps \in Nat \ {0}
  /\ stepsLeft \in 1 .. numSteps
  /\ blocksLeft \in Nat
  /\ mutex \in Threads \cup {NoThread}
  /\ handed \subseteq Grid
  /\ got \in [Threads -> Grid \cup {NoBlock}]
  /\ more \in [Threads -> BOOLEAN]

(* No block is handed out twice and none is skipped: a call that repeated  *)
(* a block would lower m_blocksLeft without adding to the blocks handed    *)
(* out (block.cpp:120-151).                                                *)
HandedOutOnce == Cardinality(handed) + blocksLeft = NumX * NumY

(* Two threads never work on the same block, however their calls of next() *)
(* interleave (block.h:132, "This function is thread-safe").               *)
DistinctBlocks ==
  \A s, t \in Threads : s # t /\ got[s] = got[t] => got[s] = NoBlock

(* Distance from the central block in rings of the spiral.                 *)
Gap(a, b) == IF a < b THEN b - a ELSE a - b
Ring(c) ==
  LET dx == Gap(c[1], Centre[1])
      dy == Gap(c[2], Centre[2])
  IN  IF dx < dy THEN dy ELSE dx

(* "The blocks are ordered in spiraling pattern so that the center is      *)
(* rendered first" (block.h:114-116): no block is handed out before a      *)
(* block of a ring nearer to the centre, however long the spiral runs      *)
(* outside a narrow image.                                                 *)
CentreFirst ==
  \A c \in handed, g \in Grid : Ring(g) < Ring(c) => g \in handed

(* The legs of the spiral stay as short as the image allows, so the loop   *)
(* of next() ends and its counters do not overflow however many calls are  *)
(* made (block.cpp:133-148).                                               *)
Longest == IF NumX < NumY THEN NumY ELSE NumX
LegsBounded == numSteps <= Longest + 1

(* Pixel p lies in the block c that next() described to its caller.        *)
Covers(c, p) ==
  \A i \in {1, 2} : p[i] >= Offset(c)[i] /\ p[i] < Offset(c)[i] + Extent(c)[i]

(* When the generator is exhausted every pixel of the image lies in        *)
(* exactly one block that was handed out: the blocks cut at the right and  *)
(* lower border neither overlap nor leave a gap (block.cpp:126-128).       *)
EveryPixelOnce ==
  blocksLeft = 0 =>
    \A px \in 0 .. Width - 1, py \in 0 .. Height - 1 :
      \E c \in handed :
        /\ Covers(c, <<px, py>>)
        /\ \A d \in handed : Covers(d, <<px, py>>) => d = c

(* A call that entered the loop of next() leaves it (block.cpp:133-148).   *)
NextReturns == \A t \in Threads : mutex = t ~> mutex = NoThread

(* block.h:138 says of getBlockCount(): "Return the total number of        *)
(* blocks".                                                                *)
CountIsTotal == GetBlockCount = Cardinality(Grid)

-----------------------------------------------------------------------------
(* The blocks still to be handed out are the pool of an abstract scheduler.*)
Pool == INSTANCE WorkPool WITH Jobs <- Grid, NoJob <- NoBlock, pool <- Grid \ handed

(* The generator implements that scheduler.                                *)
ImplementsWorkPool == Pool!Spec

-----------------------------------------------------------------------------
(* The inductive invariant.  u, v: a cell of the plane seen from the       *)
(* centre; k: how many times the spiral has gone round; m: the steps taken *)
(* on the current leg.                                                     *)
Round == (numSteps - 1) \div 2
Taken == numSteps - stepsLeft
U(c)  == c[1] - Centre[1]
V(c)  == c[2] - Centre[2]

(* Legs of odd length go right and down, legs of even length left and up.  *)
LegParity ==
  IF direction \in {ERight, EDown} THEN numSteps = 2 * Round + 1
                                   ELSE numSteps = 2 * Round + 2

(* Where the spiral is.                                                    *)
Head ==
  LET k == Round  m == Taken IN
  /\ direction = ERight => U(block) = m - k      /\ V(block) = -k
  /\ direction = EDown  => U(block) = k + 1      /\ V(block) = m - k
  /\ direction = ELeft  => U(block) = k + 1 - m  /\ V(block) = k + 1
  /\ direction = EUp    => U(block) = -k - 1     /\ V(block) = k + 1 - m

(* The cells the spiral has passed, block included: a full rectangle and   *)
(* the part of the current leg that is done.                               *)
Swept(c) ==
  LET k == Round  m == Taken  u == U(c)  v == V(c) IN
  \/ /\ direction = ERight
     /\ \/ -k <= u /\ u <= k /\ 1 - k <= v /\ v <= k
        \/ v = -k /\ -k <= u /\ u <= m - k
  \/ /\ direction = EDown
     /\ \/ -k <= u /\ u <= k /\ -k <= v /\ v <= k
        \/ u = k + 1 /\ -k <= v /\ v <= m - k
  \/ /\ direction = ELeft
     /\ \/ -k <= u /\ u <= k + 1 /\ -k <= v /\ v <= k
        \/ v = k + 1 /\ k + 1 - m <= u /\ u <= k + 1
  \/ /\ direction = EUp
     /\ \/ -k <= u /\ u <= k + 1 /\ -k <= v /\ v <= k + 1
        \/ u = -k - 1 /\ k + 1 - m <= v /\ v <= k + 1

(* Between two calls the spiral waits on a block that is not handed out    *)
(* yet; inside a call, and when all is done, what it swept of the grid is  *)
(* what was handed out.                                                    *)
Waiting == mutex = NoThread /\ blocksLeft # 0

HandedSwept ==
  /\ Waiting => block \in Grid
  /\ \A c \in Grid : c \in handed <=> Swept(c) /\ ~(Waiting /\ c = block)

GotHanded == \A t \in Threads : got[t] = NoBlock \/ got[t] \in handed

(* The mutex is held only in a call that still has a block to move on to.  *)
HeldHasMore == mutex # NoThread => blocksLeft # 0

GenInv ==
  /\ GenTypeOK
  /\ LegParity
  /\ Head
  /\ HandedSwept
  /\ GotHanded
  /\ HeldHasMore
  /\ HandedOutOnce
  /\ DistinctBlocks
  /\ LegsBounded
=============================================================================
