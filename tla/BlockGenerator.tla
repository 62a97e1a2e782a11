--------------------------- MODULE BlockGenerator ---------------------------
(***************************************************************************)
(* BlockGenerator (core/block.h, core/block.cpp): the work scheduler that  *)
(* cuts the output image into blocks of at most BlockSize x BlockSize      *)
(* pixels and hands them to the rendering threads on a spiral that starts  *)
(* at the centre of the image.                                             *)
(*                                                                         *)
(* A block is named by its position <<x, y>> on the grid of blocks.  next  *)
(* holds m_mutex from its first line to its last; its do-while loop, which *)
(* follows the spiral until it is back on the grid, is one step of the     *)
(* model per iteration, taken by the thread that holds the mutex.          *)
(***************************************************************************)
EXTENDS Integers, FiniteSets

CONSTANTS
  Width, Height,  (* Size of the image in pixels.                          *)
  BlockSize,      (* Largest side of a block, BLOCK_SIZE (32) in the code. *)
  Threads,        (* The threads that may call next.                       *)
  NoThread,       (* The owner of a mutex nobody holds.                    *)
  NoBlock         (* What a thread was handed before its first call.       *)

ASSUME SizeAssumption ==
  Width \in Nat /\ Height \in Nat /\ BlockSize \in Nat \ {0}

ASSUME ThreadAssumption == NoThread \notin Threads

ASSUME NoBlockAssumption == NoBlock \notin Nat \X Nat

VARIABLES
  block,        (* m_block: the block the next call hands out.             *)
  direction,    (* m_direction                                             *)
  numSteps,     (* m_numSteps: length of the current leg of the spiral.    *)
  stepsLeft,    (* m_stepsLeft: what remains of that leg.                  *)
  blocksLeft,   (* m_blocksLeft                                            *)
  mutex,        (* The thread that holds m_mutex.                          *)
  handed,       (* History: the blocks handed out so far.                  *)
  got,          (* The block last stored in each caller's ImageBlock.      *)
  more          (* The result of each caller's last call.                  *)

spiral  == <<block, direction, numSteps, stepsLeft>>
genVars == <<block, direction, numSteps, stepsLeft, blocksLeft, mutex,
             handed, got, more>>

ERight == 0
EDown  == 1
ELeft  == 2
EUp    == 3

-----------------------------------------------------------------------------
(* The grid of blocks.  The constructor computes ceil(size / blockSize) in *)
(* floating point; with the power of two the renderer passes that quotient *)
(* is exact.  Faulty variant, here and below the ones a run must notice:   *)
(* the quotient is rounded down.                                           *)
CeilDivFloor(a, b) == a \div b

CeilDiv(a, b) == (a + b - 1) \div b

NumX == CeilDiv(Width, BlockSize)
NumY == CeilDiv(Height, BlockSize)
Grid == (0 .. NumX - 1) \X (0 .. NumY - 1)

Centre == <<NumX \div 2, NumY \div 2>>

(* What next() stores with setOffset and setSize for block c: the first    *)
(* pixel of the block and its extent, cut at the border of the image.      *)
Cut(total, pos) == IF total - pos < BlockSize THEN total - pos ELSE BlockSize

Offset(c) == <<c[1] * BlockSize, c[2] * BlockSize>>
Extent(c) == <<Cut(Width, c[1] * BlockSize), Cut(Height, c[2] * BlockSize)>>

Step(c, d) ==
  <<IF d = ERight THEN c[1] + 1 ELSE IF d = ELeft THEN c[1] - 1 ELSE c[1],
    IF d = EDown  THEN c[2] + 1 ELSE IF d = EUp   THEN c[2] - 1 ELSE c[2]>>

-----------------------------------------------------------------------------
GenInit ==
  /\ block      = Centre
  /\ direction  = ERight
  /\ numSteps   = 1
  /\ stepsLeft  = 1
  /\ blocksLeft = NumX * NumY
  /\ mutex      = NoThread
  /\ handed     = {}
  /\ got        = [t \in Threads |-> NoBlock]
  /\ more       = [t \in Threads |-> TRUE]

(* getBlockCount(), which reads the counter without the mutex.             *)
GetBlockCount == blocksLeft

(* Faulty variant: the caller does not wait for the mutex.                 *)
TakeBlockUnlocked(t) ==
  /\ blocksLeft # 0
  /\ mutex # t
  /\ got'        = [got EXCEPT ![t] = block]
  /\ more'       = [more EXCEPT ![t] = TRUE]
  /\ handed'     = handed \cup {block}
  /\ blocksLeft' = blocksLeft - 1
  /\ mutex'      = IF blocksLeft' = 0 THEN NoThread ELSE t
  /\ UNCHANGED spiral

(* The head of next(): the current block goes to the caller.  After the    *)
(* last block next() returns without moving on; otherwise the caller keeps *)
(* the mutex and follows the spiral.                                       *)
TakeBlock(t) ==
  /\ mutex = NoThread
  /\ blocksLeft # 0
  /\ got'        = [got EXCEPT ![t] = block]
  /\ more'       = [more EXCEPT ![t] = TRUE]
  /\ handed'     = handed \cup {block}
  /\ blocksLeft' = blocksLeft - 1
  /\ mutex'      = IF blocksLeft' = 0 THEN NoThread ELSE t
  /\ UNCHANGED spiral

(* next() when nothing is left: false, and the caller's block untouched.   *)
Drained(t) ==
  /\ mutex = NoThread
  /\ blocksLeft = 0
  /\ more' = [more EXCEPT ![t] = FALSE]
  /\ UNCHANGED <<spiral, blocksLeft, mutex, handed, got>>

(* Faulty variants: the legs grow on the wrong turns, on every turn, or    *)
(* never.                                                                  *)
TurnLate ==
  /\ direction' = (direction + 1) % 4
  /\ numSteps'  = IF direction' \in {EUp, EDown} THEN numSteps + 1 ELSE numSteps
  /\ stepsLeft' = numSteps'

TurnLong ==
  /\ direction' = (direction + 1) % 4
  /\ numSteps'  = numSteps + 1
  /\ stepsLeft' = numSteps'

TurnShort ==
  /\ direction' = (direction + 1) % 4
  /\ stepsLeft' = numSteps
  /\ UNCHANGED numSteps

(* The turn at the end of a leg; every second leg is one step longer.      *)
Turn ==
  /\ direction' = (direction + 1) % 4
  /\ numSteps'  = IF direction' \in {ELeft, ERight} THEN numSteps + 1 ELSE numSteps
  /\ stepsLeft' = numSteps'

(* Faulty variants: next() moves on once, whether or not that is on the    *)
(* grid; it moves on only from a block of the grid.                        *)
AdvanceOnce(t) ==
  /\ mutex = t
  /\ block' = Step(block, direction)
  /\ IF stepsLeft = 1
       THEN Turn
       ELSE stepsLeft' = stepsLeft - 1 /\ UNCHANGED <<direction, numSteps>>
  /\ mutex' = NoThread
  /\ UNCHANGED <<blocksLeft, handed, got, more>>

AdvanceOnGrid(t) ==
  /\ mutex = t
  /\ block \in Grid
  /\ block' = Step(block, direction)
  /\ IF stepsLeft = 1
       THEN Turn
       ELSE stepsLeft' = stepsLeft - 1 /\ UNCHANGED <<direction, numSteps>>
  /\ mutex' = IF block' \in Grid THEN NoThread ELSE t
  /\ UNCHANGED <<blocksLeft, handed, got, more>>

(* One iteration of the do-while loop; next() returns, releasing the       *)
(* mutex, once the spiral is on the grid again.                            *)
Advance(t) ==
  /\ mutex = t
  /\ block' = Step(block, direction)
  /\ IF stepsLeft = 1
       THEN Turn
       ELSE stepsLeft' = stepsLeft - 1 /\ UNCHANGED <<direction, numSteps>>
  /\ mutex' = IF block' \in Grid THEN NoThread ELSE t
  /\ UNCHANGED <<blocksLeft, handed, got, more>>

GenNext == \E t \in Threads : TakeBlock(t) \/ Drained(t) \/ Advance(t)

GenSafety == GenInit /\ [][GenNext]_genVars

(* A thread inside next() is scheduled; nobody is obliged to call it.      *)
GenSpec == GenSafety /\ \A t \in Threads : WF_genVars(Advance(t))
=============================================================================
