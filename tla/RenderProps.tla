----------------------------- MODULE RenderProps -----------------------------
(***************************************************************************)
(* What Viewer::render promises to the user interface and to the batch     *)
(* program, and the invariant its proofs rest on.                          *)
(***************************************************************************)
EXTENDS Render, BlockGeneratorProps

Stages == {"idle", "loop", "next", "render", "put", "add", "failed"}

(* Every variable of the render pipeline keeps its type.                   *)
RenderTypeOK ==
  /\ phase \in {"start", "cleared", "parallel", "cancelled", "finished", "terminated"}
  /\ unclaimed \subseteq Nat
  /\ range \in [Threads -> SUBSET Nat]
  /\ pc \in [Threads -> Stages]
  /\ seed \in [Threads -> Grid \cup {NoBlock}]
  /\ buffer \in [Threads -> SUBSET (Grid \X Grid)]
  /\ image \in [Grid -> Int]
  /\ rendered \subseteq Grid \X Grid
  /\ imageLock \in Threads \cup {Gui, NoThread}
  /\ done \in BOOLEAN

(* A worker whose block is not in the result, or never will be.            *)
Holds(w, c) == pc[w] \notin {"idle", "loop"} /\ got[w] = c

(* No block is lost or added twice on its way from the generator through a *)
(* worker's local block, which is reused, to the result: one that was      *)
(* handed out is either in the result once or still in the hands of one    *)
(* worker (viewer.cpp:340-362, block.cpp:92-101).                          *)
Accounted ==
  Working =>
    \A c \in Grid :
      /\ c \notin handed => image[c] = 0 /\ \A w \in Threads : ~Holds(w, c)
      /\ c \in handed =>
           \/ image[c] = 1 /\ \A w \in Threads : ~Holds(w, c)
           \/ image[c] = 0 /\ \E w \in Threads : Holds(w, c)

(* The result of next(), which the loop ignores (viewer.cpp:350), is never *)
(* false: the indices the workers have left are exactly as many as the     *)
(* blocks, however TBB splits the range.                                   *)
NextNeverFails == \A w \in Threads : more[w]

(* When the flag is set, every block of the image is in the result exactly *)
(* once; the batch program saves the image on the strength of that         *)
(* (viewer.cpp:371, main.cpp:31).                                          *)
ImageComplete == done => \A c \in Grid : image[c] = 1

(* The sampler is seeded by the block it is used for, whichever worker     *)
(* renders it and whatever it rendered before, "so that repeated program   *)
(* runs always create the same image" (sampler.h:59-62).                   *)
SameImageEveryRun == \A s \in rendered : s[1] = s[2]

(* What the screen shows is never torn by a block that is being added      *)
(* (viewer.cpp:179-196, block.cpp:97-100).                                 *)
NoTornFrame == imageLock = Gui => \A w \in Threads : pc[w] # "add"

(* Unless an exception ends the process, rendering comes to its end.       *)
RenderEnds == <>(done \/ phase = "terminated")
-----------------------------------------------------------------------------
(* The result as whoever started the rendering sees it.                    *)
Content ==
  IF phase = "start" THEN "garbage"
  ELSE IF phase = "cleared" \/ \E c \in Grid : image[c] # 1 THEN "partial"
  ELSE "complete"

Job == INSTANCE RenderJob WITH
  Garbage <- "garbage", Partial <- "partial", Complete <- "complete",
  content <- Content, crashed <- phase = "terminated"

(* The pipeline of blocks and workers implements the job its caller sees:  *)
(* cleared once, filled without ever losing a block again, and the flag    *)
(* set last (viewer.cpp:317-372).                                          *)
ImplementsRenderJob == Job!JobSpec

-----------------------------------------------------------------------------
(* Indices that stand for a call of next() still to come.                  *)
Outstanding == unclaimed \cup UNION {range[w] : w \in Threads}

(* They are exactly as many as the blocks left, and each is one worker's.  *)
IndicesMatch ==
  /\ Working => IsFiniteSet(Outstanding) /\ Cardinality(Outstanding) = blocksLeft
  /\ \A w \in Threads : range[w] \cap unclaimed = {}
  /\ \A v, w \in Threads : v # w => range[v] \cap range[w] = {}
  /\ \A w \in Threads : pc[w] = "idle" => range[w] = {}

(* What a worker has in hand at each stage of its loop.                    *)
Stage ==
  \A w \in Threads :
    /\ mutex = w => pc[w] = "next"
    /\ pc[w] \notin {"idle", "loop"} => got[w] \in Grid
    /\ pc[w] = "render" => seed[w] = got[w]
    /\ pc[w] \in {"put", "add"} => buffer[w] = {<<got[w], got[w]>>}
    /\ pc[w] = "add" => imageLock = w

(* The phases of the render thread.                                        *)
Phases ==
  /\ phase \in {"start", "cleared"} =>
       /\ handed = {} /\ blocksLeft = NumX * NumY /\ mutex = NoThread
       /\ \A w \in Threads : pc[w] = "idle"
  /\ phase = "cleared" => \A c \in Grid : image[c] = 0
  /\ phase = "cancelled" => \E w \in Threads : pc[w] = "failed"
  /\ done => phase = "finished"

RenderInv ==
  /\ GenInv
  /\ RenderTypeOK
  /\ Phases
  /\ Stage
  /\ IndicesMatch
  /\ Accounted
  /\ NextNeverFails
  /\ ImageComplete
  /\ SameImageEveryRun
  /\ NoTornFrame
=============================================================================
