--------------------------------- MODULE Dpdf ---------------------------------
(***************************************************************************)
(* DiscretePDF (core/dpdf.h) as a mesh uses it: activate() appends the     *)
(* area of each face and normalizes (shapes/mesh.cpp:24-32), sample()      *)
(* picks a face with a random number and uses that number again inside it  *)
(* (mesh.cpp:263-268).                                                     *)
(*                                                                         *)
(* Areas are natural numbers, and their sums exact.  From normalize() on   *)
(* sums are counted in granules, the distance of neighbouring floats just  *)
(* below 1 (2^-24); Parts of them make 1.  Random numbers are counted the  *)
(* same way.  A product that normalize() stores has been rounded twice, so *)
(* it is any of a few neighbours of the exact one.                         *)
(***************************************************************************)
EXTENDS Integers, Sequences

CONSTANTS Areas, MaxEntries, Parts, SizeRange

ASSUME DpdfAssumption ==
  /\ Areas \subseteq Nat
  /\ MaxEntries \in Nat
  /\ Parts \in Nat \ {0}
  /\ SizeRange \in Nat \ {0} /\ SizeRange > MaxEntries + 1   \* size_t

VARIABLES cdf,         \* m_cdf, whose first element is 0
          sum,         \* m_sum; nothing reads it before normalize() sets it
          normalized,  \* m_normalized
          ready,       \* activate() has returned
          result,      \* the sample last taken, and what came of it
          appended     \* History: the probabilities appended

vars == <<cdf, sum, normalized, ready, result, appended>>

Size == Len(cdf) - 1
Last == cdf[Len(cdf)]
Weight(k) == cdf[k + 2] - cdf[k + 1]   \* operator[], from 0

None == [taken |-> FALSE]

(* The constructor, and clear().                                           *)
Init ==
  /\ cdf = <<0>>
  /\ sum = 0
  /\ normalized = FALSE
  /\ ready = FALSE
  /\ result = None
  /\ appended = <<>>

(* Faulty variant: the sums are not accumulated.                           *)
AppendedAlone(area) == Append(cdf, area)

Appended(area) == Append(cdf, Last + area)

AppendEntry ==
  /\ ~ready
  /\ Size < MaxEntries
  /\ \E area \in Areas :
       /\ cdf' = Appended(area)
       /\ appended' = Append(appended, area)
  /\ UNCHANGED <<sum, normalized, ready, result>>

(* m_cdf[i] *= m_normalization.  The reciprocal of the sum is rounded, and *)
(* the product again: together by at most two granules.  Rounding keeps    *)
(* the order of products, and so the equal ones equal; 0 stays 0; the sum  *)
(* times its reciprocal is 1 or the float before it.                       *)
Off == -1 .. 2
Products(off) == [i \in 1 .. Len(cdf) |-> (cdf[i] * Parts) \div Last + off[i]]

Rounded(p) ==
  /\ \A i, k \in 1 .. Len(cdf) : cdf[i] <= cdf[k] => p[i] <= p[k]
  /\ \A i \in 1 .. Len(cdf) :
       /\ cdf[i] = 0 => p[i] = 0
       /\ cdf[i] = Last => p[i] \in {Parts - 1, Parts}

(* Faulty variant: the last sum stays the product that it is.              *)
ClosedRounded(p) == p

(* m_cdf[m_cdf.size() - 1] = 1.0f                                          *)
Closed(p) == [p EXCEPT ![Len(cdf)] = Parts]

Normalize ==
  /\ ~ready
  /\ sum' = Last
  /\ normalized' = (Last > 0)
  /\ IF Last > 0
       THEN \E off \in [1 .. Len(cdf) -> Off] :
              Rounded(Products(off)) /\ cdf' = Closed(Products(off))
       ELSE cdf' = cdf
  /\ ready' = TRUE
  /\ UNCHANGED <<result, appended>>

(* std::lower_bound for v granules: the first place, from 0, that is not   *)
(* less, or the end.                                                       *)
Least(S) == CHOOSE e \in S : \A f \in S : e <= f

LowerBound(v) == Least({e \in 0 .. Len(cdf) : e = Len(cdf) \/ cdf[e + 1] >= v})

(* sample().                                                               *)
Index(v) ==
  LET before == IF LowerBound(v) > 0 THEN LowerBound(v) - 1 ELSE 0
      last == (Len(cdf) - 2) % SizeRange
  IN  IF before < last THEN before ELSE last

(* sampleReuse(): the place of the sample in its entry as a fraction.  In  *)
(* an empty distribution cdf[index + 1] is past the end.                   *)
Reuse(v, k) ==
  [taken |-> TRUE, v |-> v, index |-> k,
   num |-> v - cdf[k + 1],
   den |-> IF k < Size THEN Weight(k) ELSE 0]

SampleReuse ==
  /\ ready
  /\ \E v \in 0 .. Parts : result' = Reuse(v, Index(v))
  /\ UNCHANGED <<cdf, sum, normalized, ready, appended>>

Next == AppendEntry \/ Normalize \/ SampleReuse

Spec == Init /\ [][Next]_vars
=============================================================================
