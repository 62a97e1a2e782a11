--------------------------------- MODULE TTest ---------------------------------
(***************************************************************************)
(* The bookkeeping of StudentsTTest::activate (tests/ttest.cpp): which     *)
(* reference value each BSDF at each angle, or each scene, is tested       *)
(* against.  Elements of the lists are named by their positions, from 0.   *)
(***************************************************************************)
EXTENDS Integers

CONSTANT MaxLength   \* of each list of the test's description

VARIABLES bsdfs, scenes, angles, references,  \* lengths of the lists
          subject, i, ctr,                    \* the loops
          tests,                              \* what was tested against what
          phase

lists == <<bsdfs, scenes, angles, references>>
vars == <<lists, subject, i, ctr, tests, phase>>

(* The lists as the constructor and addChild() have filled them.           *)
Init ==
  /\ bsdfs \in 0 .. MaxLength /\ scenes \in 0 .. MaxLength
  /\ angles \in 0 .. MaxLength /\ references \in 0 .. MaxLength
  /\ subject = 0 /\ i = 0 /\ ctr = 0
  /\ tests = {}
  /\ phase = "called"

Refused ==
  IF bsdfs > 0 THEN references * bsdfs # angles \/ scenes > 0 ELSE references # scenes

Start ==
  /\ phase = "called"
  /\ phase' = IF Refused THEN "threw" ELSE IF bsdfs > 0 THEN "bsdfs" ELSE "scenes"
  /\ UNCHANGED <<lists, subject, i, ctr, tests>>

(* Both loops take the next reference for the next test.                   *)
Test(angle) ==
  /\ tests' = tests \cup {[subject |-> subject, angle |-> angle, reference |-> ctr]}
  /\ ctr' = ctr + 1

TestAngle ==
  /\ phase = "bsdfs"
  /\ subject < bsdfs
  /\ i < references
  /\ Test(i)
  /\ i' = i + 1
  /\ UNCHANGED <<lists, subject, phase>>

NextBsdf ==
  /\ phase = "bsdfs"
  /\ subject < bsdfs
  /\ i >= references
  /\ subject' = subject + 1
  /\ i' = 0
  /\ UNCHANGED <<lists, ctr, tests, phase>>

TestScene ==
  /\ phase = "scenes"
  /\ subject < scenes
  /\ Test(0)
  /\ subject' = subject + 1
  /\ UNCHANGED <<lists, i, phase>>

Finish ==
  /\ \/ phase = "bsdfs" /\ subject >= bsdfs
     \/ phase = "scenes" /\ subject >= scenes
  /\ phase' = "passed"
  /\ UNCHANGED <<lists, subject, i, ctr, tests>>

Next == Start \/ TestAngle \/ NextBsdf \/ TestScene \/ Finish

Spec == Init /\ [][Next]_vars

-----------------------------------------------------------------------------
(* ttest.cpp:57 calls the references "a list of reference values, one for  *)
(* each angle": a BSDF at an angle is tested against the reference of that *)
(* angle, and no reference is read that is not in the list.                *)
OneForEachAngle ==
  phase \in {"bsdfs", "passed"} /\ bsdfs > 0 =>
    \A t \in tests : t.reference \in 0 .. references - 1 /\ t.reference = t.angle
=============================================================================
