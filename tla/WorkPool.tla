------------------------------ MODULE WorkPool ------------------------------
(***************************************************************************)
(* What a work scheduler promises to the threads that ask it for jobs:     *)
(* every job is handed to exactly one caller, once, and a caller is told   *)
(* that there is nothing left only when that is so.  In which order the    *)
(* jobs leave the pool is not part of the promise.                         *)
(*                                                                         *)
(* BlockGenerator (core/block.h) is shown to implement this specification. *)
(***************************************************************************)
EXTENDS FiniteSets

CONSTANTS
  Jobs,       (* The jobs to be done.                *)
  Threads,    (* The threads that ask for them.      *)
  NoJob       (* What a thread holds before it asks. *)

VARIABLES
  pool,       (* The jobs not handed out yet.                        *)
  got,        (* The job each thread was handed last.                *)
  more        (* What the last call of each thread returned.         *)

vars == <<pool, got, more>>

Init ==
  /\ pool = Jobs
  /\ got  = [t \in Threads |-> NoJob]
  /\ more = [t \in Threads |-> TRUE]

Take(t) ==
  \E j \in pool :
    /\ pool' = pool \ {j}
    /\ got'  = [got EXCEPT ![t] = j]
    /\ more' = [more EXCEPT ![t] = TRUE]

(* The caller keeps what it was handed before: next() leaves its argument  *)
(* alone when it returns false.                                            *)
Drained(t) ==
  /\ pool = {}
  /\ more' = [more EXCEPT ![t] = FALSE]
  /\ UNCHANGED <<pool, got>>

Next == \E t \in Threads : Take(t) \/ Drained(t)

Spec == Init /\ [][Next]_vars
=============================================================================
