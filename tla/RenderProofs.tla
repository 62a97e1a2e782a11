----------------------------- MODULE RenderProofs -----------------------------
(***************************************************************************)
(* Viewer::render puts every block into the result exactly once before it  *)
(* sets the flag, for images of every size, any number of workers and any  *)
(* way of splitting the range between them.                                *)
(***************************************************************************)
EXTENDS RenderProps, BlockGeneratorProofs

(* A step of the renderer is a step of its generator or leaves it alone.   *)
LEMMA RenderUsesGenerator == Safety => GenSafety
<1>1. Init => GenInit
  BY DEF Init
<1>2. [Next]_vars => [GenNext]_genVars
  BY Zenon DEF Next, Work, vars, renderVars, ClearResult, ParallelFor, Finish, Terminate, DrawLock, DrawUpload,
         StartTask, CallNext, EndTask, InNext, Prepare, RenderBlock, RenderThrows,
         PutLock, PutAdd, GenNext
<1> QED  BY <1>1, <1>2, PTL DEF Safety, GenSafety

(* A block of the grid is not the value of a worker that has none.         *)
LEMMA BlockIsReal == NoBlock \notin Grid
  BY NoBlockAssumption, GridSides DEF Grid

(* The invariant of the pipeline without that of the generator.            *)
PipeInv ==
  /\ RenderTypeOK
  /\ Phases
  /\ Stage
  /\ IndicesMatch
  /\ Accounted
  /\ NextNeverFails
  /\ ImageComplete
  /\ SameImageEveryRun
  /\ NoTornFrame

(* The result and the workers before the first block.                      *)
LEMMA PipeInit == Init => PipeInv
<1> SUFFICES ASSUME Init  PROVE PipeInv
  OBVIOUS
<1> USE GuiAssumption, ThreadAssumption DEF Init, GenInit, RenderInit
<1>1. RenderTypeOK
  <2>1. image \in [Grid -> Int]
    BY DEF Garbage
  <2>2. pc \in [Threads -> Stages] /\ seed \in [Threads -> Grid \cup {NoBlock}]
    BY DEF Stages
  <2>3. range \in [Threads -> SUBSET Nat] /\ buffer \in [Threads -> SUBSET (Grid \X Grid)]
    BY Zenon
  <2> QED  BY <2>1, <2>2, <2>3 DEF RenderTypeOK
<1>2. Phases /\ Accounted
  BY DEF Phases, Accounted, Working
<1>3. Stage
  BY DEF Stage
<1>4. NextNeverFails
  BY Zenon DEF NextNeverFails
<1>5. IndicesMatch /\ ImageComplete /\ SameImageEveryRun /\ NoTornFrame
  BY DEF IndicesMatch, ImageComplete, SameImageEveryRun, NoTornFrame, Working
<1> QED  BY <1>1, <1>2, <1>3, <1>4, <1>5 DEF PipeInv

-----------------------------------------------------------------------------
(* Clearing the result and sizing the range.                               *)
LEMMA ClearResultPipe ==
  ASSUME GenInv, PipeInv, ClearResult
  PROVE  PipeInv'
<1> USE DEF PipeInv, ClearResult, genVars, taskVars
<1>1. RenderTypeOK'
  BY DEF RenderTypeOK
<1>2. Phases' /\ Stage' /\ IndicesMatch'
  BY DEF Phases, Stage, IndicesMatch, Working
<1>3. Accounted' /\ ImageComplete' /\ SameImageEveryRun' /\ NoTornFrame'
  BY DEF Accounted, ImageComplete, SameImageEveryRun, NoTornFrame, Working, Phases
<1>4. NextNeverFails'
  BY Zenon DEF NextNeverFails
<1> QED  BY <1>1, <1>2, <1>3, <1>4

(* The start of the parallel loop keeps the invariant: its range has one   *)
(* index for each block (viewer.cpp:338-365).                              *)
LEMMA ParallelForPipe ==
  ASSUME GenInv, PipeInv, ParallelFor
  PROVE  PipeInv'
<1> USE DEF PipeInv, ParallelFor, GetBlockCount, genVars, taskVars, imageVars
<1>1. RenderTypeOK'
  BY DEF RenderTypeOK
<1>2. Phases' /\ Stage'
  BY DEF Phases, Stage
<1>3. Accounted' /\ ImageComplete' /\ SameImageEveryRun' /\ NoTornFrame'
  BY DEF Accounted, ImageComplete, SameImageEveryRun, NoTornFrame, Working, Phases, Holds
<1>4. NextNeverFails'
  BY Zenon DEF NextNeverFails
<1>5. IndicesMatch'
  <2>1. \A w \in Threads : range[w] = {}
    BY DEF Phases, IndicesMatch
  <2>2. Outstanding' = 0 .. blocksLeft - 1
    BY <2>1 DEF Outstanding
  <2>3. blocksLeft \in Nat
    BY DEF GenInv, GenTypeOK
  <2>4. IsFiniteSet(0 .. blocksLeft - 1) /\ Cardinality(0 .. blocksLeft - 1) = blocksLeft
    BY <2>3, IntervalSize
  <2> QED  BY <2>1, <2>2, <2>4 DEF IndicesMatch
<1> QED  BY <1>1, <1>2, <1>3, <1>4, <1>5

(* A worker takes a piece of the range: the indices stay the same ones.    *)
LEMMA StartTaskPipe ==
  ASSUME GenInv, PipeInv, NEW w \in Threads, StartTask(w)
  PROVE  PipeInv'
<1> USE DEF PipeInv
<1>1. PICK lo \in unclaimed, hi \in unclaimed :
        /\ lo <= hi
        /\ lo .. hi \subseteq unclaimed
        /\ range' = [range EXCEPT ![w] = lo .. hi]
        /\ unclaimed' = unclaimed \ (lo .. hi)
  BY DEF StartTask
<1>2. /\ Working /\ pc[w] = "idle" /\ pc' = [pc EXCEPT ![w] = "loop"]
      /\ seed' = [seed EXCEPT ![w] = NoBlock] /\ buffer' = [buffer EXCEPT ![w] = {}]
      /\ UNCHANGED <<genVars, phase, imageVars, done>>
  BY DEF StartTask, Working
<1>3. RenderTypeOK'
  BY <1>1, <1>2 DEF RenderTypeOK, Stages, imageVars
<1>4. Phases' /\ Stage'
  BY <1>2 DEF Phases, Stage, imageVars, genVars, RenderTypeOK, Working
<1>5. IndicesMatch'
  <2>1. range[w] = {}
    BY <1>2 DEF IndicesMatch
  <2>2. \A v \in Threads : range'[v] = IF v = w THEN lo .. hi ELSE range[v]
    BY <1>1 DEF RenderTypeOK
  <2>3. Outstanding' = Outstanding
    BY <1>1, <2>1, <2>2 DEF Outstanding
  <2>4. \A v \in Threads : pc'[v] = "idle" => v # w /\ pc[v] = "idle"
    BY <1>2 DEF RenderTypeOK
  <2> QED  BY <1>1, <1>2, <2>2, <2>3, <2>4 DEF IndicesMatch, Working, genVars
<1>6. Accounted' /\ ImageComplete' /\ SameImageEveryRun' /\ NoTornFrame'
  BY <1>2 DEF Accounted, ImageComplete, SameImageEveryRun, NoTornFrame, Working, Holds,
              imageVars, genVars, RenderTypeOK
<1>7. NextNeverFails'
  BY <1>2, Zenon DEF NextNeverFails, genVars
<1> QED  BY <1>3, <1>4, <1>5, <1>6, <1>7

(* A worker with an index left always gets a block.                        *)
LEMMA CallNextTakes ==
  ASSUME GenInv, PipeInv, NEW w \in Threads, CallNext(w)
  PROVE  TakeBlock(w)
<1>1. PICK i \in range[w] : TRUE
  BY DEF CallNext
<1>2. i \in Outstanding
  BY <1>1 DEF Outstanding
<1>3. IsFiniteSet(Outstanding) /\ Cardinality(Outstanding) = blocksLeft
  BY DEF PipeInv, IndicesMatch, CallNext
<1>4. blocksLeft # 0
  BY <1>2, <1>3, FS_EmptySet
<1> QED  BY <1>4 DEF CallNext, Drained

(* The head of next() keeps the invariant: the block taken is now with its *)
(* worker (viewer.cpp:350).                                                *)
LEMMA CallNextPipe ==
  ASSUME GenInv, PipeInv, NEW w \in Threads, CallNext(w)
  PROVE  PipeInv'
<1> USE DEF PipeInv
<1>1. PICK i \in range[w] : range' = [range EXCEPT ![w] = @ \ {i}]
  BY DEF CallNext
<1>2. /\ Working /\ pc[w] = "loop" /\ pc' = [pc EXCEPT ![w] = "next"]
      /\ UNCHANGED <<phase, unclaimed, seed, buffer, imageVars, done>>
  BY DEF CallNext
<1>3. /\ mutex = NoThread /\ block \in Grid /\ block \notin handed
      /\ handed' = handed \cup {block} /\ blocksLeft' = blocksLeft - 1
      /\ got' = [got EXCEPT ![w] = block] /\ more' = [more EXCEPT ![w] = TRUE]
      /\ mutex' \in {NoThread, w}
  BY CallNextTakes DEF TakeBlock, GenInv, HandedSwept, Waiting
<1>4. \A v \in Threads :
        /\ pc'[v] = IF v = w THEN "next" ELSE pc[v]
        /\ got'[v] = IF v = w THEN block ELSE got[v]
        /\ range'[v] = IF v = w THEN range[w] \ {i} ELSE range[v]
  BY <1>1, <1>2, <1>3 DEF RenderTypeOK, GenInv, GenTypeOK
<1>5. RenderTypeOK'
  BY <1>1, <1>2 DEF RenderTypeOK, Stages, imageVars
<1>6. Phases'
  BY <1>2 DEF Phases, Working, imageVars
<1>7. Stage'
  BY <1>2, <1>3, <1>4, ThreadAssumption DEF Stage, imageVars
<1>8. IndicesMatch'
  <2>1. Outstanding' = Outstanding \ {i}
    BY <1>1, <1>2, <1>4 DEF Outstanding, IndicesMatch, RenderTypeOK
  <2>2. i \in Outstanding
    BY <1>1 DEF Outstanding
  <2>3. IsFiniteSet(Outstanding) /\ Cardinality(Outstanding) = blocksLeft
    BY <1>2 DEF IndicesMatch
  <2>4. IsFiniteSet(Outstanding') /\ Cardinality(Outstanding') = blocksLeft'
    BY <1>3, <2>1, <2>2, <2>3, FS_RemoveElement
  <2> QED  BY <1>1, <1>2, <1>4, <2>4 DEF IndicesMatch, Working
<1>9. Accounted'
  <2> SUFFICES ASSUME NEW c \in Grid
               PROVE  /\ c \notin handed' => image'[c] = 0 /\ \A v \in Threads : ~Holds(v, c)'
                      /\ c \in handed' =>
                           \/ image'[c] = 1 /\ \A v \in Threads : ~Holds(v, c)'
                           \/ image'[c] = 0 /\ \E v \in Threads : Holds(v, c)'
    BY DEF Accounted
  <2>1. \A v \in Threads : Holds(v, c)' <=> IF v = w THEN c = block ELSE Holds(v, c)
    BY <1>4 DEF Holds
  <2>2. ~Holds(w, c) /\ image' = image
    BY <1>2 DEF Holds, imageVars
  <2> QED  BY <1>2, <1>3, <2>1, <2>2 DEF Accounted
<1>10. ImageComplete' /\ SameImageEveryRun'
  BY <1>2 DEF ImageComplete, SameImageEveryRun, imageVars
<1>11. NoTornFrame'
  BY <1>2, <1>4 DEF NoTornFrame, imageVars
<1>12. NextNeverFails'
  BY <1>3, Zenon DEF NextNeverFails, GenInv, GenTypeOK
<1> QED  BY <1>5, <1>6, <1>7, <1>8, <1>9, <1>10, <1>11, <1>12

(* Steps that change neither the blocks in hand nor the result.            *)
LEMMA QuietPipe ==
  ASSUME GenInv, PipeInv, NEW w \in Threads,
         EndTask(w) \/ InNext(w) \/ Prepare(w) \/ RenderBlock(w) \/ RenderThrows(w)
  PROVE  PipeInv'
<1> USE DEF PipeInv
<1>1. /\ Working
      /\ UNCHANGED <<unclaimed, range, image, rendered, imageLock, done, got, more, handed, blocksLeft>>
  BY DEF EndTask, InNext, Prepare, RenderBlock, RenderThrows, Advance,
         genVars, renderVars, taskVars, imageVars
<1>2. /\ phase' = phase \/ phase' = "cancelled"
      /\ mutex' = mutex \/ (pc[w] = "next" /\ mutex = w /\ mutex' = NoThread)
      /\ \A v \in Threads : v # w => pc'[v] = pc[v] /\ seed'[v] = seed[v] /\ buffer'[v] = buffer[v]
  BY DEF EndTask, InNext, Prepare, RenderBlock, RenderThrows, Advance,
         genVars, renderVars, taskVars, RenderTypeOK
<1>3. \/ pc[w] = "loop" /\ pc'[w] = "idle" /\ range[w] = {}
      \/ pc[w] = "next" /\ pc'[w] = "next"
      \/ pc[w] = "next" /\ mutex # w /\ mutex' = mutex /\ pc'[w] = "render" /\ seed'[w] = got[w]
      \/ pc[w] = "render" /\ pc'[w] = "put" /\ buffer'[w] = {<<got[w], seed[w]>>}
      \/ pc[w] = "render" /\ pc'[w] = "failed"
  BY DEF EndTask, InNext, Prepare, RenderBlock, RenderThrows,
         genVars, renderVars, taskVars, RenderTypeOK
<1>4. RenderTypeOK'
  <2>1. pc[w] = "next" \/ pc[w] = "render" => got[w] \in Grid
    BY DEF Stage
  <2>2. pc[w] = "render" => seed[w] = got[w]
    BY DEF Stage
  <2>3. EndTask(w) \/ InNext(w) \/ RenderThrows(w) => RenderTypeOK'
    BY DEF EndTask, InNext, RenderThrows, renderVars, taskVars, imageVars, RenderTypeOK, Stages
  <2>4. Prepare(w) => RenderTypeOK'
    BY <2>1 DEF Prepare, imageVars, RenderTypeOK, Stages
  <2>5. RenderBlock(w) => RenderTypeOK'
    BY <2>1, <2>2 DEF RenderBlock, imageVars, RenderTypeOK, Stages
  <2> QED  BY <2>3, <2>4, <2>5
<1>5. Phases'
  <2>1. phase' = phase \/ (phase' = "cancelled" /\ pc'[w] = "failed")
    BY DEF EndTask, InNext, Prepare, RenderBlock, RenderThrows, renderVars, RenderTypeOK
  <2>2. phase' = "cancelled" => \E v \in Threads : pc'[v] = "failed"
    BY <1>2, <1>3, <2>1 DEF Phases
  <2> QED  BY <1>1, <2>1, <2>2 DEF Phases, Working
<1>6. Stage'
  BY <1>1, <1>2, <1>3, ThreadAssumption DEF Stage
<1>7. IndicesMatch'
  BY <1>1, <1>2, <1>3 DEF IndicesMatch, Outstanding, Working
<1>8. Accounted'
  <2>1. \A v \in Threads, c \in Grid : Holds(v, c)' <=> Holds(v, c)
    BY <1>1, <1>2, <1>3 DEF Holds
  <2> QED  BY <1>1, <2>1 DEF Accounted
<1>9. ImageComplete' /\ SameImageEveryRun'
  BY <1>1 DEF ImageComplete, SameImageEveryRun
<1>10. NoTornFrame'
  BY <1>1, <1>2, <1>3 DEF NoTornFrame
<1>11. NextNeverFails'
  BY <1>1, Zenon DEF NextNeverFails
<1> QED  BY <1>4, <1>5, <1>6, <1>7, <1>8, <1>9, <1>10, <1>11

(* Taking the mutex of the result, or giving it back.                      *)
LEMMA LockPipe ==
  ASSUME GenInv, PipeInv,
         (\E w \in Threads : PutLock(w)) \/ DrawLock \/ DrawUpload
  PROVE  PipeInv'
<1> USE GuiAssumption, ThreadAssumption DEF PipeInv
<1>1. UNCHANGED <<genVars, phase, unclaimed, range, seed, buffer, image, rendered, done>>
  BY DEF PutLock, DrawLock, DrawUpload, taskVars
<1>2. \/ imageLock = NoThread /\ imageLock' = Gui /\ pc' = pc
      \/ imageLock = Gui /\ imageLock' = NoThread /\ pc' = pc
      \/ \E w \in Threads : /\ imageLock = NoThread /\ imageLock' = w
                            /\ pc[w] = "put" /\ pc' = [pc EXCEPT ![w] = "add"]
  BY DEF PutLock, DrawLock, DrawUpload, taskVars
<1>3. RenderTypeOK'
  BY <1>1, <1>2 DEF RenderTypeOK, Stages
<1>4. Phases'
  BY <1>1, <1>2 DEF Phases, genVars, RenderTypeOK
<1>5. \A v \in Threads : pc'[v] = pc[v] \/ (pc[v] = "put" /\ pc'[v] = "add" /\ imageLock' = v)
  BY <1>2 DEF RenderTypeOK
<1>6. Stage'
  BY <1>1, <1>2, <1>5 DEF Stage, genVars
<1>7. IndicesMatch'
  BY <1>1, <1>5 DEF IndicesMatch, Outstanding, Working, genVars
<1>8. Accounted'
  <2>1. \A v \in Threads, c \in Grid : Holds(v, c)' <=> Holds(v, c)
    BY <1>1, <1>5 DEF Holds, genVars
  <2> QED  BY <1>1, <2>1 DEF Accounted, Working, genVars
<1>9. ImageComplete' /\ SameImageEveryRun'
  BY <1>1 DEF ImageComplete, SameImageEveryRun
<1>10. NoTornFrame'
  BY <1>2, <1>5 DEF NoTornFrame, Stage
<1>11. NextNeverFails'
  BY <1>1, Zenon DEF NextNeverFails, genVars
<1> QED  BY <1>3, <1>4, <1>6, <1>7, <1>8, <1>9, <1>10, <1>11

(* Adding a block to the result ends the worker's hold on it.              *)
LEMMA PutAddPipe ==
  ASSUME GenInv, PipeInv, NEW w \in Threads, PutAdd(w)
  PROVE  PipeInv'
<1> USE DEF PipeInv
<1> DEFINE b == got[w]
<1>1. /\ Working /\ pc[w] = "add" /\ b \in Grid /\ b # NoBlock
      /\ buffer[w] = {<<b, b>>} /\ imageLock = w /\ imageLock' = NoThread
      /\ pc' = [pc EXCEPT ![w] = "loop"] /\ rendered' = rendered \cup {<<b, b>>}
      /\ UNCHANGED <<genVars, phase, unclaimed, range, seed, buffer, done>>
  BY BlockIsReal DEF PutAdd, Stage
<1>2. ASSUME NEW c \in Grid
      PROVE  image'[c] = IF c = b THEN image[c] + 1 ELSE image[c]
  <2>1. image'[c] = image[c] + Cardinality({s \in buffer[w] : s[1] = c})
    BY DEF PutAdd
  <2>2. CASE c = b
    <3>1. {s \in buffer[w] : s[1] = c} = {<<b, b>>}
      BY <1>1, <2>2
    <3>2. Cardinality({<<b, b>>}) = 1
      BY FS_Singleton, Zenon
    <3> QED  BY <2>1, <2>2, <3>1, <3>2
  <2>3. CASE c # b
    <3>1. {s \in buffer[w] : s[1] = c} = {}
      BY <1>1, <2>3
    <3>2. Cardinality({}) = 0
      BY FS_EmptySet, Zenon
    <3>3. image[c] \in Int
      BY DEF RenderTypeOK
    <3>4. image'[c] = image[c] + 0
      BY <2>1, <3>1, <3>2, Zenon
    <3> QED  BY <2>3, <3>3, <3>4
  <2> QED  BY <2>2, <2>3
<1>3. \A v \in Threads : pc'[v] = IF v = w THEN "loop" ELSE pc[v]
  BY <1>1 DEF RenderTypeOK
<1>4. RenderTypeOK'
  <2>1. \A c \in Grid : image'[c] \in Int
    BY <1>2 DEF RenderTypeOK
  <2>2. image' \in [Grid -> Int]
    BY <2>1 DEF PutAdd
  <2> QED  BY <1>1, <2>2 DEF RenderTypeOK, Stages
<1>5. Phases' /\ IndicesMatch'
  BY <1>1, <1>3 DEF Phases, IndicesMatch, Outstanding, Working, genVars
<1>6. Stage'
  BY <1>1, <1>3 DEF Stage, genVars
<1>7. Accounted'
  <2> SUFFICES ASSUME NEW c \in Grid
               PROVE  /\ c \notin handed => image'[c] = 0 /\ \A v \in Threads : ~Holds(v, c)'
                      /\ c \in handed =>
                           \/ image'[c] = 1 /\ \A v \in Threads : ~Holds(v, c)'
                           \/ image'[c] = 0 /\ \E v \in Threads : Holds(v, c)'
    BY <1>1 DEF Accounted, genVars
  <2>1. \A v \in Threads : Holds(v, c)' <=> v # w /\ Holds(v, c)
    BY <1>1, <1>3 DEF Holds, genVars
  <2>2. CASE c = b
    <3>1. Holds(w, c) /\ c \in handed
      BY <1>1, <2>2 DEF Holds, GenInv, GotHanded
    <3>2. image[c] = 0
      BY <1>1, <3>1 DEF Accounted
    <3>3. \A v \in Threads : v # w => ~Holds(v, c)
      BY <1>1, <2>2 DEF Holds, GenInv, DistinctBlocks
    <3> QED  BY <1>2, <2>1, <2>2, <3>1, <3>2, <3>3
  <2>3. CASE c # b
    <3>1. ~Holds(w, c)
      BY <2>3 DEF Holds
    <3> QED  BY <1>1, <1>2, <2>1, <2>3, <3>1 DEF Accounted
  <2> QED  BY <2>2, <2>3
<1>8. ImageComplete'
  BY <1>1 DEF ImageComplete, Phases, Working
<1>9. SameImageEveryRun'
  <2>1. \A s \in rendered' : s \in rendered \/ s = <<b, b>>
    BY <1>1
  <2> QED  BY <2>1 DEF SameImageEveryRun
<1>10. NoTornFrame'
  BY <1>1, GuiAssumption DEF NoTornFrame
<1>11. NextNeverFails'
  BY <1>1, Zenon DEF NextNeverFails, genVars
<1> QED  BY <1>4, <1>5, <1>6, <1>7, <1>8, <1>9, <1>10, <1>11

(* The end of the process after an exception.                              *)
LEMMA TerminatePipe ==
  ASSUME GenInv, PipeInv, Terminate
  PROVE  PipeInv'
<1> USE DEF PipeInv, Terminate, taskVars, imageVars
<1>1. RenderTypeOK' /\ Phases' /\ Stage'
  BY DEF RenderTypeOK, Phases, Stage, genVars
<1>2. IndicesMatch' /\ Accounted' /\ ImageComplete' /\ SameImageEveryRun' /\ NoTornFrame'
  BY DEF IndicesMatch, Outstanding, Accounted, Working, ImageComplete, SameImageEveryRun,
         NoTornFrame, genVars
<1>3. NextNeverFails'
  BY Zenon DEF NextNeverFails, genVars
<1> QED  BY <1>1, <1>2, <1>3

(* When every worker is idle and no index is left, no block is either.     *)
LEMMA FinishPipe ==
  ASSUME GenInv, PipeInv, Finish
  PROVE  PipeInv'
<1> USE DEF PipeInv
<1>1. /\ Working /\ unclaimed = {} /\ phase' = "finished" /\ done' = TRUE
      /\ \A w \in Threads : pc[w] = "idle" /\ range[w] = {}
      /\ UNCHANGED <<genVars, unclaimed, taskVars, imageVars>>
  BY DEF Finish, IndicesMatch, Working
<1>2. handed = Grid
  <2>1. Outstanding = {}
    BY <1>1 DEF Outstanding
  <2>2. blocksLeft = 0
    BY <1>1, <2>1, FS_EmptySet DEF IndicesMatch
  <2> QED  BY <2>2, ExhaustedIffAll DEF GenInv
<1>3. ImageComplete'
  BY <1>1, <1>2 DEF Accounted, Holds, ImageComplete, imageVars
<1>4. RenderTypeOK' /\ Phases'
  BY <1>1 DEF RenderTypeOK, Phases, taskVars, imageVars
<1>5. Stage' /\ IndicesMatch' /\ Accounted'
  BY <1>1 DEF Stage, IndicesMatch, Accounted, Working, Outstanding, genVars, taskVars, imageVars
<1>6. SameImageEveryRun' /\ NoTornFrame'
  BY <1>1 DEF SameImageEveryRun, NoTornFrame, taskVars, imageVars
<1>7. NextNeverFails'
  BY <1>1, Zenon DEF NextNeverFails, genVars
<1> QED  BY <1>3, <1>4, <1>5, <1>6, <1>7

-----------------------------------------------------------------------------
(* The invariant of the pipeline holds in every reachable state.           *)
THEOREM RenderInvariant == Safety => []RenderInv
<1>1. Safety => []GenInv
  BY RenderUsesGenerator, GenInvariant, PTL
<1>2. GenInv /\ PipeInv /\ [Next]_vars => PipeInv'
  <2> SUFFICES ASSUME GenInv, PipeInv, [Next]_vars  PROVE PipeInv'
    OBVIOUS
  <2>1. CASE Next
    <3>1. ASSUME NEW w \in Threads, Work(w)  PROVE PipeInv'
      BY <3>1, StartTaskPipe, CallNextPipe, QuietPipe, LockPipe, PutAddPipe DEF Work
    <3> QED
      BY <2>1, <3>1, ClearResultPipe, ParallelForPipe, FinishPipe, TerminatePipe, LockPipe DEF Next
  <2>2. CASE UNCHANGED vars
    <3>1. UNCHANGED genVars /\ UNCHANGED renderVars
      BY <2>2 DEF vars
    <3>2. RenderTypeOK' /\ Phases' /\ Stage'
      BY <3>1 DEF PipeInv, renderVars, genVars, taskVars, imageVars, RenderTypeOK, Phases, Stage
    <3>3. IndicesMatch' /\ Accounted' /\ ImageComplete' /\ SameImageEveryRun' /\ NoTornFrame'
      BY <3>1 DEF PipeInv, renderVars, genVars, taskVars, imageVars, IndicesMatch, Outstanding,
                  Accounted, Holds, Working, ImageComplete, SameImageEveryRun, NoTornFrame
    <3>4. NextNeverFails'
      BY <3>1, Zenon DEF PipeInv, NextNeverFails, genVars
    <3> QED  BY <3>2, <3>3, <3>4 DEF PipeInv
  <2> QED  BY <2>1, <2>2
<1>3. Init => PipeInv
  BY PipeInit
<1>4. GenInv /\ PipeInv => RenderInv
  BY DEF PipeInv, RenderInv
<1> QED  BY <1>1, <1>2, <1>3, <1>4, PTL DEF Safety

(* The worker's variables keep their types, whatever the order of steps.   *)
THEOREM RenderTypes == Spec => []RenderTypeOK
<1>1. RenderInv => RenderTypeOK
  BY DEF RenderInv
<1> QED  BY <1>1, RenderInvariant, PTL DEF Spec

(* No block is lost or added twice between the generator and the result.   *)
THEOREM BlocksAccounted == Spec => []Accounted
<1>1. RenderInv => Accounted
  BY DEF RenderInv
<1> QED  BY <1>1, RenderInvariant, PTL DEF Spec

(* next() never returns false to the rendering loop.                       *)
THEOREM IgnoredResultIsTrue == Spec => []NextNeverFails
<1>1. RenderInv => NextNeverFails
  BY DEF RenderInv
<1> QED  BY <1>1, RenderInvariant, PTL DEF Spec

(* When *done is set, the result holds every block exactly once.           *)
THEOREM DoneMeansComplete == Spec => []ImageComplete
<1>1. RenderInv => ImageComplete
  BY DEF RenderInv
<1> QED  BY <1>1, RenderInvariant, PTL DEF Spec

(* Every block is rendered with the seed that is its own.                  *)
THEOREM Reproducible == Spec => []SameImageEveryRun
<1>1. RenderInv => SameImageEveryRun
  BY DEF RenderInv
<1> QED  BY <1>1, RenderInvariant, PTL DEF Spec

(* The screen never shows a half-added block.                              *)
THEOREM FramesNotTorn == Spec => []NoTornFrame
<1>1. RenderInv => NoTornFrame
  BY DEF RenderInv
<1> QED  BY <1>1, RenderInvariant, PTL DEF Spec

-----------------------------------------------------------------------------
(* Steps that leave the image and the outcome alone are invisible to       *)
(* whoever started the rendering.                                          *)
LEMMA UnseenSteps ==
  ASSUME RenderInv,
         UNCHANGED <<image, done>>,
         phase' = phase \/ (phase = "parallel" /\ phase' = "cancelled")
  PROVE  UNCHANGED Job!jobVars
  BY DEF Job!jobVars, Content

(* A worker that adds its block finds the result incomplete.               *)
LEMMA AddingMeansPartial ==
  ASSUME RenderInv, Working, NEW w \in Threads, pc[w] \in {"add", "failed"}
  PROVE  Content = "partial"
<1>1. got[w] \in Grid /\ Holds(w, got[w])
  BY DEF RenderInv, Stage, Holds
<1>2. image[got[w]] # 1
  BY <1>1 DEF RenderInv, Accounted
<1> QED  BY <1>1, <1>2 DEF Content, Working

(* The pipeline of blocks and workers implements the job its caller sees.  *)
THEOREM RenderIsJob == Safety => Job!JobSafety
<1>1. Init => Job!JobInit
  BY DEF Init, RenderInit, Job!JobInit, Content
<1>2. RenderInv /\ RenderInv' /\ [Next]_vars => [Job!JobNext]_Job!jobVars
  <2> SUFFICES ASSUME RenderInv, RenderInv', [Next]_vars
               PROVE  [Job!JobNext]_Job!jobVars
    OBVIOUS
  <2>1. CASE ClearResult
    BY <2>1 DEF ClearResult, Job!JobNext, Job!Clear, Content
  <2>2. CASE ParallelFor
    <3>1. Content = "partial" /\ Content' \in {"partial", "complete"}
      BY <2>2 DEF ParallelFor, Content
    <3> QED
      BY <2>2, <3>1 DEF ParallelFor, Job!JobNext, Job!Fill, Job!jobVars
  <2>3. CASE Finish
    <3>1. Content' = "complete" /\ Content = "complete"
      BY <2>3 DEF Finish, imageVars, RenderInv, ImageComplete, Content
    <3> QED  BY <2>3, <3>1 DEF Finish, Job!JobNext, Job!SetDone
  <2>4. CASE Terminate
    <3>1. PICK w \in Threads : pc[w] = "failed"
      BY <2>4 DEF Terminate, RenderInv, Phases
    <3>2. Content = "partial" /\ ~done
      BY <2>4, <3>1, AddingMeansPartial DEF Terminate, Working, RenderInv, RenderTypeOK, Phases
    <3>3. Content' = Content
      BY <2>4 DEF Terminate, imageVars, Content
    <3> QED
      BY <2>4, <3>2, <3>3 DEF Terminate, Job!JobNext, Job!Crash, imageVars
  <2>5. ASSUME NEW w \in Threads, PutAdd(w)  PROVE [Job!JobNext]_Job!jobVars
    <3>1. Content = "partial" /\ Content' \in {"partial", "complete"}
      BY <2>5, AddingMeansPartial DEF PutAdd, Content, Working
    <3> QED
      BY <2>5, <3>1 DEF PutAdd, Working, Job!JobNext, Job!Fill, Job!jobVars
  <2>6. ASSUME NEW w \in Threads, Work(w), ~PutAdd(w)
        PROVE  UNCHANGED Job!jobVars
    BY <2>6, UnseenSteps
    DEF Work, StartTask, CallNext, EndTask, InNext, Prepare, RenderBlock, RenderThrows,
        PutLock, renderVars, imageVars, Working
  <2>7. CASE DrawLock \/ DrawUpload
    BY <2>7, UnseenSteps DEF DrawLock, DrawUpload
  <2>8. CASE UNCHANGED vars
    BY <2>8, UnseenSteps DEF vars, renderVars, imageVars
  <2> QED
    BY <2>1, <2>2, <2>3, <2>4, <2>5, <2>6, <2>7, <2>8 DEF Next
<1> QED  BY <1>1, <1>2, RenderInvariant, PTL DEF Safety, Job!JobSafety
=============================================================================
