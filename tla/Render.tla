------------------------------- MODULE Render -------------------------------
(***************************************************************************)
(* Viewer::render (core/viewer.cpp): the render thread clears the result   *)
(* image and runs a parallel_for over as many indices as there are blocks. *)
(* A TBB worker that takes a subrange of the indices allocates a local     *)
(* ImageBlock and a clone of the sampler, and for each index asks the      *)
(* BlockGenerator for a block, prepares the sampler, renders the block and *)
(* adds it to the result under the result's mutex.  Meanwhile the thread   *)
(* of the user interface uploads the result to the screen, under the same  *)
(* mutex.                                                                  *)
(*                                                                         *)
(* The state of the generator is the state of module BlockGenerator; its   *)
(* Threads are the TBB workers.  The radiance of a block is abstracted to  *)
(* the block it was computed for and the block that seeded the sampler.    *)
(***************************************************************************)
EXTENDS BlockGenerator

CONSTANT Gui      (* The thread of the user interface.                     *)

ASSUME GuiAssumption == Gui \notin Threads /\ Gui # NoThread

VARIABLES
  phase,        (* Where the render thread is in Viewer::render.           *)
  unclaimed,    (* Indices of the blocked_range no worker has taken.       *)
  range,        (* What is left of each worker's subrange.                 *)
  pc,           (* Where each worker is in the loop over its subrange.     *)
  seed,         (* The block each sampler clone was seeded for.            *)
  buffer,       (* The contents of each worker's local ImageBlock.         *)
  image,        (* How often each block was added to the result.           *)
  rendered,     (* History: the samples in the result, with their seeds.   *)
  imageLock,    (* m_mutex of the result ImageBlock.                       *)
  done          (* The flag *done.                                         *)

taskVars  == <<range, pc, seed, buffer>>
imageVars == <<image, rendered, imageLock>>
renderVars == <<phase, unclaimed, taskVars, imageVars, done>>
vars == <<genVars, renderVars>>

(* ImageBlock's constructor allocates pixels without a value.              *)
Garbage == -1

(* Tasks of the parallel_for may be running.                               *)
Working == phase \in {"parallel", "cancelled"}

-----------------------------------------------------------------------------
RenderInit ==
  /\ phase     = "start"
  /\ unclaimed = {}
  /\ range     = [w \in Threads |-> {}]
  /\ pc        = [w \in Threads |-> "idle"]
  /\ seed      = [w \in Threads |-> NoBlock]
  /\ buffer    = [w \in Threads |-> {}]
  /\ image     = [c \in Grid |-> Garbage]
  /\ rendered  = {}
  /\ imageLock = NoThread
  /\ done      = FALSE

Init == GenInit /\ RenderInit

(* Faulty variant: the result is not cleared before it is added to.        *)
ClearResultSkipped ==
  /\ phase = "start"
  /\ phase' = "cleared"
  /\ UNCHANGED <<genVars, unclaimed, taskVars, imageVars, done>>

(* result->clear(), which does not take the mutex.                         *)
ClearResult ==
  /\ phase = "start"
  /\ phase' = "cleared"
  /\ image' = [c \in Grid |-> 0]
  /\ UNCHANGED <<genVars, unclaimed, taskVars, rendered, imageLock, done>>

(* Faulty variant: the bound of the range is taken as its last index.      *)
ParallelForOneMore ==
  /\ phase = "cleared"
  /\ phase' = "parallel"
  /\ unclaimed' = 0 .. GetBlockCount
  /\ UNCHANGED <<genVars, taskVars, imageVars, done>>

(* The blocked_range takes as many indices as getBlockCount() says.        *)
ParallelFor ==
  /\ phase = "cleared"
  /\ phase' = "parallel"
  /\ unclaimed' = 0 .. GetBlockCount - 1
  /\ UNCHANGED <<genVars, taskVars, imageVars, done>>

(* TBB splits the range as it likes and gives a piece to a free worker,    *)
(* which allocates its block and clones the sampler.                       *)
StartTask(w) ==
  /\ phase = "parallel"
  /\ pc[w] = "idle"
  /\ \E lo, hi \in unclaimed :
       /\ lo <= hi
       /\ lo .. hi \subseteq unclaimed
       /\ range' = [range EXCEPT ![w] = lo .. hi]
       /\ unclaimed' = unclaimed \ (lo .. hi)
  /\ pc'     = [pc EXCEPT ![w] = "loop"]
  /\ seed'   = [seed EXCEPT ![w] = NoBlock]
  /\ buffer' = [buffer EXCEPT ![w] = {}]
  /\ UNCHANGED <<genVars, phase, imageVars, done>>

(* The loop over the subrange: its next index, or its end.                 *)
CallNext(w) ==
  /\ Working
  /\ pc[w] = "loop"
  /\ TakeBlock(w) \/ Drained(w)
  /\ \E i \in range[w] :
       /\ \A j \in range[w] : i <= j
       /\ range' = [range EXCEPT ![w] = @ \ {i}]
  /\ pc' = [pc EXCEPT ![w] = "next"]
  /\ UNCHANGED <<phase, unclaimed, seed, buffer, imageVars, done>>

EndTask(w) ==
  /\ Working
  /\ pc[w] = "loop"
  /\ range[w] = {}
  /\ pc' = [pc EXCEPT ![w] = "idle"]
  /\ UNCHANGED <<genVars, phase, unclaimed, range, seed, buffer, imageVars, done>>

(* Inside next(): the spiral moves on until it is on the grid.             *)
InNext(w) ==
  /\ Working
  /\ pc[w] = "next"
  /\ Advance(w)
  /\ UNCHANGED renderVars

(* Faulty variant: the clone keeps the state the last block left it in.    *)
PrepareSkipped(w) ==
  /\ Working
  /\ pc[w] = "next"
  /\ mutex # w
  /\ pc'   = [pc EXCEPT ![w] = "render"]
  /\ UNCHANGED <<genVars, phase, unclaimed, range, seed, buffer, imageVars, done>>

(* next() has returned, its result is ignored; the sampler is seeded from  *)
(* the offset of the local block.                                          *)
Prepare(w) ==
  /\ Working
  /\ pc[w] = "next"
  /\ mutex # w
  /\ seed' = [seed EXCEPT ![w] = got[w]]
  /\ pc'   = [pc EXCEPT ![w] = "render"]
  /\ UNCHANGED <<genVars, phase, unclaimed, range, buffer, imageVars, done>>

(* Faulty variant: the local block still holds what it held before.        *)
RenderBlockNoClear(w) ==
  /\ Working
  /\ pc[w] = "render"
  /\ buffer' = [buffer EXCEPT ![w] = @ \cup {<<got[w], seed[w]>>}]
  /\ seed'   = [seed EXCEPT ![w] = NoBlock]
  /\ pc'     = [pc EXCEPT ![w] = "put"]
  /\ UNCHANGED <<genVars, phase, unclaimed, range, imageVars, done>>

(* renderBlock: the local block is cleared and filled with the samples of  *)
(* its pixels; the generator of the sampler moves on from its seed.        *)
RenderBlock(w) ==
  /\ Working
  /\ pc[w] = "render"
  /\ buffer' = [buffer EXCEPT ![w] = {<<got[w], seed[w]>>}]
  /\ seed'   = [seed EXCEPT ![w] = NoBlock]
  /\ pc'     = [pc EXCEPT ![w] = "put"]
  /\ UNCHANGED <<genVars, phase, unclaimed, range, imageVars, done>>

(* renderBlock throws, for instance from a BSDF that is not implemented:   *)
(* the worker's task ends there, and TBB starts no further task.           *)
RenderThrows(w) ==
  /\ Working
  /\ pc[w] = "render"
  /\ phase' = "cancelled"
  /\ pc' = [pc EXCEPT ![w] = "failed"]
  /\ UNCHANGED <<genVars, unclaimed, range, seed, buffer, imageVars, done>>

(* Once the running tasks have ended, parallel_for rethrows.  Nothing      *)
(* catches the exception, and the process ends.                            *)
Terminate ==
  /\ phase = "cancelled"
  /\ \A w \in Threads : pc[w] \in {"idle", "failed"}
  /\ phase' = "terminated"
  /\ UNCHANGED <<genVars, unclaimed, taskVars, imageVars, done>>

(* result->put(block): take the mutex, add the pixels, release it.         *)
PutLock(w) ==
  /\ Working
  /\ pc[w] = "put"
  /\ imageLock = NoThread
  /\ imageLock' = w
  /\ pc' = [pc EXCEPT ![w] = "add"]
  /\ UNCHANGED <<genVars, phase, unclaimed, range, seed, buffer, image, rendered, done>>

(* Faulty variant: the mutex is not released after the pixels are added.   *)
PutAddKeepsLock(w) ==
  /\ Working
  /\ pc[w] = "add"
  /\ image' = [c \in Grid |->
                 image[c] + Cardinality({s \in buffer[w] : s[1] = c})]
  /\ rendered' = rendered \cup buffer[w]
  /\ pc' = [pc EXCEPT ![w] = "loop"]
  /\ UNCHANGED <<genVars, phase, unclaimed, range, seed, buffer, imageLock, done>>

PutAdd(w) ==
  /\ Working
  /\ pc[w] = "add"
  /\ image' = [c \in Grid |->
                 image[c] + Cardinality({s \in buffer[w] : s[1] = c})]
  /\ rendered' = rendered \cup buffer[w]
  /\ imageLock' = NoThread
  /\ pc' = [pc EXCEPT ![w] = "loop"]
  /\ UNCHANGED <<genVars, phase, unclaimed, range, seed, buffer, done>>

(* Faulty variant: the flag is set once no index is left to be taken.      *)
FinishEarly ==
  /\ phase = "parallel"
  /\ unclaimed = {}
  /\ phase' = "finished"
  /\ done' = TRUE
  /\ UNCHANGED <<genVars, unclaimed, taskVars, imageVars>>

(* parallel_for returns when every index was processed.                    *)
Finish ==
  /\ phase = "parallel"
  /\ unclaimed = {}
  /\ \A w \in Threads : pc[w] = "idle"
  /\ phase' = "finished"
  /\ done' = TRUE
  /\ UNCHANGED <<genVars, unclaimed, taskVars, imageVars>>

(* Faulty variant: the upload does not wait for the mutex.                 *)
DrawUnlocked ==
  /\ phase # "terminated"
  /\ imageLock' = Gui
  /\ UNCHANGED <<genVars, phase, unclaimed, taskVars, image, rendered, done>>

(* draw_contents, at any time while the process lives: lock the result,    *)
(* upload its pixels, unlock it.                                           *)
DrawLock ==
  /\ phase # "terminated"
  /\ imageLock = NoThread
  /\ imageLock' = Gui
  /\ UNCHANGED <<genVars, phase, unclaimed, taskVars, image, rendered, done>>

DrawUpload ==
  /\ phase # "terminated"
  /\ imageLock = Gui
  /\ imageLock' = NoThread
  /\ UNCHANGED <<genVars, phase, unclaimed, taskVars, image, rendered, done>>

Work(w) ==
  \/ StartTask(w) \/ CallNext(w) \/ EndTask(w) \/ InNext(w)
  \/ Prepare(w) \/ RenderBlock(w) \/ RenderThrows(w)
  \/ PutLock(w) \/ PutAdd(w)

Next ==
  \/ ClearResult \/ ParallelFor \/ Finish \/ Terminate
  \/ DrawLock \/ DrawUpload
  \/ \E w \in Threads : Work(w)

Safety == Init /\ [][Next]_vars

(* Threads that can run do run.  The window is redrawn only now and then,  *)
(* so a worker that waits for the result's mutex gets it in the end: that  *)
(* is strong fairness of PutLock.  Nobody has to redraw, or to throw.      *)
Fairness ==
  /\ WF_vars(ClearResult) /\ WF_vars(ParallelFor) /\ WF_vars(Finish)
  /\ WF_vars(Terminate)
  /\ WF_vars(DrawUpload)
  /\ \A w \in Threads :
       /\ WF_vars(StartTask(w)) /\ WF_vars(CallNext(w)) /\ WF_vars(EndTask(w))
       /\ WF_vars(InNext(w)) /\ WF_vars(Prepare(w)) /\ WF_vars(RenderBlock(w))
       /\ SF_vars(PutLock(w)) /\ WF_vars(PutAdd(w))

Spec == Safety /\ Fairness
=============================================================================
