------------------------------ MODULE RenderJob ------------------------------
(***************************************************************************)
(* What whoever starts Viewer::render may rely on, without a word about    *)
(* blocks and workers: the result image is cleared once, then filled, and  *)
(* only when it is complete is the caller's flag set; or an exception ends *)
(* the process and the flag stays unset.                                   *)
(***************************************************************************)
CONSTANTS Garbage, Partial, Complete    (* The contents of an image.       *)

VARIABLES
  content,      (* The contents of the result image.                       *)
  done,         (* The caller's flag.                                      *)
  crashed       (* An exception has ended the process.                     *)

JobTypeOK ==
  /\ content \in {Garbage, Partial, Complete}
  /\ done \in BOOLEAN
  /\ crashed \in BOOLEAN

JobInit == content = Garbage /\ ~done /\ ~crashed

Clear ==
  /\ content = Garbage /\ ~crashed
  /\ content' = Partial
  /\ UNCHANGED <<done, crashed>>

Fill ==
  /\ content = Partial /\ ~crashed
  /\ content' = Complete
  /\ UNCHANGED <<done, crashed>>

SetDone ==
  /\ content = Complete /\ ~crashed
  /\ done' = TRUE
  /\ UNCHANGED <<content, crashed>>

Crash ==
  /\ content = Partial /\ ~done /\ ~crashed
  /\ crashed' = TRUE
  /\ UNCHANGED <<content, done>>

JobNext == Clear \/ Fill \/ SetDone \/ Crash

jobVars == <<content, done, crashed>>

JobSafety == JobInit /\ [][JobNext]_jobVars

(* The job comes to one of its two ends.                                   *)
JobSpec == JobSafety /\ WF_jobVars(JobNext)
=============================================================================
