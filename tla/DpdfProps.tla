------------------------------- MODULE DpdfProps -------------------------------
(***************************************************************************)
(* What a discrete distribution promises to those who sample it.           *)
(***************************************************************************)
EXTENDS Dpdf, FiniteSets

(* The entry found for a number above 0 has a positive width, and what is  *)
(* left of the number is in (0, 1] again: nothing is divided by zero,      *)
(* however the sums were rounded (dpdf.h:71-83, 93-131).  A face without   *)
(* area has no width, unless it is the last: the sum before it may have    *)
(* been rounded down while its own is stored as 1.  Then one number finds  *)
(* it, 1 itself, which dpdf.h:89 admits and no sampler returns.            *)
EmptyOnlyByOne ==
  result.taken /\ normalized /\ result.v > 0 =>
    /\ result.index \in 0 .. Size - 1
    /\ 0 < result.num /\ result.num <= result.den
    /\ appended[result.index + 1] = 0 => result.index = Size - 1 /\ result.v = Parts

(* The numbers that find an entry are in proportion to it, up to the two   *)
(* roundings at either end of it: a uniform number becomes the stored      *)
(* distribution (dpdf.h:14-15, 93-98).                                     *)
Finders(k) == {v \in 1 .. Parts : Index(v) = k}

InProportion ==
  normalized /\ ~result.taken =>
    \A k \in 0 .. Size - 1 :
      LET excess == Cardinality(Finders(k)) * sum - appended[k + 1] * Parts
      IN  -4 * sum <= excess /\ excess <= 4 * sum

(* dpdf.h:119-122 says of "An uniformly distributed sample on [0,1]" that  *)
(* its value is adjusted so that it can be reused: it is in [0, 1] again.  *)
EverySampleReusable ==
  result.taken /\ normalized =>
    result.den > 0 /\ 0 <= result.num /\ result.num <= result.den
=============================================================================
