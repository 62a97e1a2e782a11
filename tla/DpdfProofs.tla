------------------------------ MODULE DpdfProofs ------------------------------
(***************************************************************************)
(* A number finds an entry that has a width, an entry without probability  *)
(* is found by the number 1 at most, and every entry by as many numbers as *)
(* it has shares, up to the roundings: for all areas, any number of        *)
(* entries and granules of any size.                                       *)
(***************************************************************************)
EXTENDS DpdfProps, FiniteSetTheorems, TLAPS

(* A normalized distribution ends in 1.  The width of an entry is its part *)
(* of the sum, up to two roundings at either end; without probability it   *)
(* is zero, or what is missing to 1 after the entry before.                *)
WidthsKept ==
  \A k \in 1 .. Size :
    /\ -4 * sum <= (cdf[k + 1] - cdf[k]) * sum - appended[k] * Parts
    /\ (cdf[k + 1] - cdf[k]) * sum - appended[k] * Parts <= 4 * sum
    /\ appended[k] = 0 => cdf[k + 1] = cdf[k] \/ (k = Size /\ cdf[k] >= Parts - 1)

(* The sums start at zero and never fall.  Until they are normalized they  *)
(* are those of the entries.  A sample that was taken is what              *)
(* sampleReuse() makes of its number.                                      *)
DpdfInv ==
  /\ cdf \in Seq(Nat)
  /\ Len(cdf) \in 1 .. MaxEntries + 1
  /\ cdf[1] = 0
  /\ \A a, b \in 1 .. Len(cdf) : a <= b => cdf[a] <= cdf[b]
  /\ appended \in Seq(Nat) /\ Len(appended) = Size
  /\ sum \in Nat /\ normalized \in BOOLEAN /\ ready \in BOOLEAN
  /\ ~ready => \A k \in 1 .. Size : cdf[k + 1] = cdf[k] + appended[k]
  /\ normalized => ready /\ sum > 0 /\ Last = Parts /\ WidthsKept
  /\ result = None \/ (ready /\ \E v \in 0 .. Parts : result = Reuse(v, Index(v)))

(* A set of numbers up to n that is not empty has a least element: among   *)
(* the intervals from 0 to its elements one contains no other.             *)
LEMMA LeastExists ==
  ASSUME NEW n \in Nat, NEW S \in SUBSET (0 .. n), S # {}
  PROVE  Least(S) \in S /\ \A e \in S : Least(S) <= e
<1> DEFINE T == {0 .. e : e \in S}
           R == StrictSubsetOrdering(0 .. n)
<1>1. IsWellFoundedOn(R, SUBSET (0 .. n))
  <2>1. IsFiniteSet(0 .. n)
    BY FS_Interval
  <2> QED  BY <2>1, FS_StrictSubsetOrderingWellFounded, FS_FiniteSubsetsOfFinite
<1>2. T \subseteq SUBSET (0 .. n) /\ T # {}
  <2>1. ASSUME NEW e \in S  PROVE 0 .. e \in SUBSET (0 .. n)
    <3>1. e \in 0 .. n
      OBVIOUS
    <3> QED  BY <3>1
  <2> QED  BY <2>1, Zenon
<1>3. PICK t \in T : \A u \in T : ~ (<<u, t>> \in R)
  <2> HIDE DEF T, R
  <2> QED  BY <1>1, <1>2, WFMin, Zenon
<1>4. PICK e \in S : t = 0 .. e
  OBVIOUS
<1>5. ASSUME NEW f \in S  PROVE e <= f
  <2>1. ~ (<<0 .. f, 0 .. e>> \in R)
    BY <1>3, <1>4
  <2>2. 0 .. f \in SUBSET (0 .. n) /\ 0 .. e \in SUBSET (0 .. n)
    OBVIOUS
  <2>3. ~ (0 .. f \subseteq 0 .. e /\ 0 .. f # 0 .. e)
    BY <2>1, <2>2 DEF StrictSubsetOrdering
  <2>4. ASSUME f < e  PROVE FALSE
    <3>1. 0 .. f \subseteq 0 .. e /\ e \in 0 .. e /\ e \notin 0 .. f
      BY <2>4
    <3> QED  BY <2>3, <3>1
  <2> QED  BY <2>4
<1> QED  BY <1>5 DEF Least

(* lower_bound: its place is not less than the number, the places before   *)
(* it are.                                                                 *)
LEMMA LowerBoundPlace ==
  ASSUME DpdfInv, NEW v \in 0 .. Parts
  PROVE  /\ LowerBound(v) \in 0 .. Len(cdf)
         /\ LowerBound(v) = Len(cdf) \/ cdf[LowerBound(v) + 1] >= v
         /\ \A e \in 1 .. Len(cdf) : e <= LowerBound(v) => cdf[e] < v
<1> DEFINE S == {e \in 0 .. Len(cdf) : e = Len(cdf) \/ cdf[e + 1] >= v}
<1>1. Len(cdf) \in Nat /\ cdf \in Seq(Nat)
  BY DEF DpdfInv
<1>2. S \in SUBSET (0 .. Len(cdf)) /\ Len(cdf) \in S
  BY <1>1
<1>3. LowerBound(v) = Least(S)
  BY DEF LowerBound
<1> HIDE DEF S
<1>4. LowerBound(v) \in S /\ \A e \in S : LowerBound(v) <= e
  <2>1. S # {}
    BY <1>2
  <2>2. Least(S) \in S /\ \A e \in S : Least(S) <= e
    BY <1>1, <1>2, <2>1, LeastExists, Zenon
  <2> QED  BY <1>3, <2>2, Zenon
<1> USE DEF S
<1>5. LowerBound(v) \in 0 .. Len(cdf)
  BY <1>4
<1>6. LowerBound(v) = Len(cdf) \/ cdf[LowerBound(v) + 1] >= v
  BY <1>4
<1>7. ASSUME NEW e \in 1 .. Len(cdf), e <= LowerBound(v)
      PROVE  cdf[e] < v
  <2>1. e - 1 \in 0 .. Len(cdf) - 1 /\ e - 1 # Len(cdf) /\ (e - 1) + 1 = e
    BY <1>1
  <2>2. e - 1 \notin S
    <3> HIDE DEF S
    <3>1. ~ (LowerBound(v) <= e - 1)
      BY <1>5, <1>7
    <3> QED  BY <1>4, <3>1
  <2>3. ~ (cdf[e] >= v)
    BY <1>1, <2>1, <2>2
  <2>4. cdf[e] \in Int /\ v \in Int
    BY <1>1, DpdfAssumption
  <2> QED  BY <2>3, <2>4
<1> QED  BY <1>5, <1>6, <1>7

(* Division with remainder: the quotient is the last number whose product  *)
(* with the divisor is not above the dividend.                             *)
LEMMA Division ==
  ASSUME NEW m \in Nat, NEW u \in Nat \ {0}
  PROVE  /\ m \div u \in Nat
         /\ (m \div u) * u \in Nat
         /\ (m \div u) * u <= m /\ m - (m \div u) * u < u
         /\ \A v \in Int : v * u <= m <=> v <= m \div u
<1> DEFINE d == m \div u
<1>1. d \in Nat /\ d * u <= m /\ m < d * u + u
  BY Z3
<1> HIDE DEF d
<1>2. d * u \in Nat
  BY <1>1
<1>3. ASSUME NEW v \in Int  PROVE v * u <= m <=> v <= d
  <2>1. v * u \in Int
    OBVIOUS
  <2>2. CASE v <= d
    <3>1. v * u <= d * u
      BY <1>1, <2>2
    <3> QED  BY <1>1, <1>2, <2>1, <2>2, <3>1
  <2>3. CASE v > d
    <3>1. (d + 1) * u <= v * u
      BY <1>1, <2>3
    <3>2. (d + 1) * u = d * u + u
      BY <1>1
    <3> QED  BY <1>1, <1>2, <2>1, <2>3, <3>1, <3>2
  <2> QED  BY <1>1, <2>2, <2>3
<1> QED  BY <1>1, <1>2, <1>3 DEF d

-----------------------------------------------------------------------------
(* The constructor leaves one sum, 0, and no sample taken (dpdf.h:21-31).  *)
LEMMA DpdfInit == Init => DpdfInv
<1> SUFFICES ASSUME Init  PROVE DpdfInv
  OBVIOUS
<1>1. cdf \in Seq(Nat) /\ Len(cdf) = 1 /\ cdf[1] = 0
  BY DEF Init
<1>2. Len(cdf) \in 1 .. MaxEntries + 1
  BY <1>1, DpdfAssumption
<1>3. \A a, b \in 1 .. Len(cdf) : a <= b => cdf[a] <= cdf[b]
  BY <1>1
<1>4. Size = 0 /\ appended \in Seq(Nat) /\ Len(appended) = 0
  BY <1>1 DEF Init, Size
<1>5. \A k \in 1 .. Size : cdf[k + 1] = cdf[k] + appended[k]
  BY <1>4
<1>6. sum \in Nat /\ ~normalized /\ normalized \in BOOLEAN /\ ready \in BOOLEAN /\ result = None
  BY DEF Init
<1> QED  BY <1>1, <1>2, <1>3, <1>4, <1>5, <1>6 DEF DpdfInv

(* An entry is appended at the end, above all sums before it.              *)
LEMMA AppendEntryInv ==
  ASSUME DpdfInv, AppendEntry
  PROVE  DpdfInv'
<1> USE DEF DpdfInv
<1>1. PICK area \in Nat : cdf' = Append(cdf, Last + area) /\ appended' = Append(appended, area)
  BY DpdfAssumption DEF AppendEntry, Appended
<1>2. Len(cdf) \in Nat \ {0} /\ Last \in Nat /\ Size = Len(cdf) - 1
  BY DEF Last, Size
<1>3. /\ cdf' \in Seq(Nat) /\ Len(cdf') = Len(cdf) + 1
      /\ \A a \in 1 .. Len(cdf) : cdf'[a] = cdf[a]
      /\ cdf'[Len(cdf) + 1] = Last + area
  BY <1>1, <1>2
<1>4. Len(cdf') \in 1 .. MaxEntries + 1
  BY <1>2, <1>3, DpdfAssumption DEF AppendEntry
<1>5. ASSUME NEW a \in 1 .. Len(cdf'), NEW b \in 1 .. Len(cdf'), a <= b
      PROVE  cdf'[a] <= cdf'[b]
  <2>1. CASE b <= Len(cdf)
    <3>1. a \in 1 .. Len(cdf) /\ b \in 1 .. Len(cdf)
      BY <1>2, <1>3, <1>5, <2>1
    <3>2. cdf[a] <= cdf[b]
      BY <1>5, <3>1
    <3> QED  BY <1>3, <3>1, <3>2
  <2>2. CASE b = Len(cdf) + 1 /\ a <= Len(cdf)
    <3>1. a \in 1 .. Len(cdf) /\ cdf[a] \in Nat /\ cdf[a] <= Last
      BY <1>2, <2>2 DEF Last
    <3> QED  BY <1>2, <1>3, <2>2, <3>1
  <2>3. CASE a = Len(cdf) + 1 /\ b = a
    BY <1>2, <1>3, <2>3
  <2> QED  BY <1>2, <1>3, <1>5, <2>1, <2>2, <2>3
<1>6. ~normalized /\ ~ready /\ result = None /\ UNCHANGED <<sum, normalized, ready, result>>
  BY DEF AppendEntry
<1>7. cdf'[1] = 0
  BY <1>2, <1>3
<1>8. result' = None /\ normalized' \in BOOLEAN /\ ready' \in BOOLEAN /\ ~normalized'
  BY <1>6 DEF None
<1>9. /\ Size' = Size + 1
      /\ appended' \in Seq(Nat) /\ Len(appended') = Size + 1
      /\ \A k \in 1 .. Size : appended'[k] = appended[k]
      /\ appended'[Size + 1] = area
  <2>1. Size' = Size + 1
    BY <1>2, <1>3 DEF Size
  <2>2. appended \in Seq(Nat) /\ Len(appended) = Size /\ Size \in Nat
    BY <1>2
  <2> QED  BY <1>1, <2>1, <2>2
<1>10. ASSUME NEW k \in 1 .. Size'  PROVE cdf'[k + 1] = cdf'[k] + appended'[k]
  <2>1. CASE k <= Size
    <3>1. k \in 1 .. Size /\ k \in 1 .. Len(cdf) /\ k + 1 \in 1 .. Len(cdf)
      BY <1>2, <1>9, <2>1
    <3>2. cdf[k + 1] = cdf[k] + appended[k]
      BY <1>6, <3>1
    <3> QED  BY <1>3, <1>9, <3>1, <3>2
  <2>2. CASE k = Size + 1
    <3>1. k = Len(cdf) /\ k \in 1 .. Len(cdf)
      BY <1>2, <2>2
    <3>2. cdf'[k] = Last
      BY <1>3, <3>1 DEF Last
    <3> QED  BY <1>3, <1>9, <2>2, <3>1, <3>2
  <2> QED  BY <1>2, <1>9, <2>1, <2>2
<1>11. sum' \in Nat
  BY <1>6
<1> QED  BY <1>3, <1>4, <1>5, <1>7, <1>8, <1>9, <1>10, <1>11

(* A product in granules is at most two of them from the exact one.        *)
LEMMA ProductNear ==
  ASSUME NEW m \in Nat, NEW s \in Nat \ {0}, NEW e \in Off
  PROVE  LET p == (m * Parts) \div s + e
         IN  -2 * s <= p * s - m * Parts /\ p * s - m * Parts <= 2 * s
<1> DEFINE n == m * Parts  d == n \div s
<1>1. n \in Nat
  BY DpdfAssumption
<1> HIDE DEF n
<1>2. d \in Nat /\ d * s \in Nat /\ d * s <= n /\ n - d * s < s
  BY <1>1, Division
<1> HIDE DEF d
<1>3. (d + e) * s = d * s + e * s
  BY <1>2 DEF Off
<1>4. e * s \in {-s, 0, s, 2 * s}
  <2>1. e = -1 \/ e = 0 \/ e = 1 \/ e = 2
    BY DEF Off
  <2> QED  BY <2>1
<1>5. -2 * s <= (d + e) * s - n /\ (d + e) * s - n <= 2 * s
  BY <1>1, <1>2, <1>3, <1>4
<1> QED  BY <1>5 DEF n, d

(* The sums that normalize() stores, for any of the roundings it may make. *)
LEMMA ClosedProducts ==
  ASSUME DpdfInv, ~ready, Last > 0, NEW off \in [1 .. Len(cdf) -> Off],
         Rounded(Products(off))
  PROVE  LET c == Closed(Products(off))
         IN  /\ c \in Seq(Nat) /\ Len(c) = Len(cdf) /\ c[1] = 0 /\ c[Len(cdf)] = Parts
             /\ \A a, b \in 1 .. Len(cdf) : a <= b => c[a] <= c[b]
             /\ \A k \in 1 .. Size :
                  /\ -4 * Last <= (c[k + 1] - c[k]) * Last - appended[k] * Parts
                  /\ (c[k + 1] - c[k]) * Last - appended[k] * Parts <= 4 * Last
                  /\ appended[k] = 0 => c[k + 1] = c[k] \/ (k = Size /\ c[k] >= Parts - 1)
<1> DEFINE p == Products(off)  c == Closed(p)  n == Len(cdf)
<1>1. /\ cdf \in Seq(Nat) /\ n \in Nat \ {0} /\ cdf[1] = 0 /\ Size = n - 1
      /\ \A a, b \in 1 .. n : a <= b => cdf[a] <= cdf[b]
      /\ appended \in Seq(Nat) /\ Len(appended) = Size
      /\ \A k \in 1 .. Size : cdf[k + 1] = cdf[k] + appended[k]
  BY DEF DpdfInv, Size
<1>2. Last \in Nat \ {0} /\ Last = cdf[n] /\ Parts \in Nat \ {0}
  BY <1>1, DpdfAssumption DEF Last
<1>3. \A i \in 1 .. n : cdf[i] \in Nat /\ cdf[i] <= Last
  BY <1>1, <1>2
<1>4. n # 1
  BY <1>1, <1>2
<1>5. /\ \A i, k \in 1 .. n : cdf[i] <= cdf[k] => p[i] <= p[k]
      /\ \A i \in 1 .. n : cdf[i] = 0 => p[i] = 0
      /\ \A i \in 1 .. n : cdf[i] = Last => p[i] \in {Parts - 1, Parts}
  BY DEF Rounded
<1>6. ASSUME NEW i \in 1 .. n
      PROVE  /\ p[i] \in Int
             /\ -2 * Last <= p[i] * Last - cdf[i] * Parts
             /\ p[i] * Last - cdf[i] * Parts <= 2 * Last
  <2>1. p[i] = (cdf[i] * Parts) \div Last + off[i] /\ off[i] \in Off /\ cdf[i] \in Nat
    BY <1>3 DEF Products
  <2>2. (cdf[i] * Parts) \div Last \in Nat
    <3>1. cdf[i] * Parts \in Nat
      BY <1>2, <2>1
    <3> QED  BY <1>2, <3>1, Division
  <2>3. p[i] \in Int
    BY <2>1, <2>2 DEF Off
  <2>4. LET q == (cdf[i] * Parts) \div Last + off[i]
        IN  -2 * Last <= q * Last - cdf[i] * Parts /\ q * Last - cdf[i] * Parts <= 2 * Last
    BY <1>2, <2>1, ProductNear
  <2> HIDE DEF p
  <2> QED  BY <2>1, <2>3, <2>4
<1>7. /\ DOMAIN p = 1 .. n
      /\ c = [p EXCEPT ![n] = Parts]
  BY DEF Products, Closed
<1>8. /\ c[n] = Parts /\ DOMAIN c = 1 .. n
      /\ \A i \in 1 .. n : i # n => c[i] = p[i]
  <2> HIDE DEF p, c
  <2> QED  BY <1>1, <1>7
<1> HIDE DEF p, c
<1>9. \A i \in 1 .. n : p[i] \in 0 .. Parts
  <2> SUFFICES ASSUME NEW i \in 1 .. n  PROVE p[i] \in 0 .. Parts
    OBVIOUS
  <2>1. 1 \in 1 .. n /\ n \in 1 .. n
    BY <1>1
  <2>2. p[1] = 0 /\ p[n] <= Parts
    <3>1. p[1] = 0
      BY <1>1, <1>5, <2>1
    <3>2. p[n] \in {Parts - 1, Parts}
      BY <1>2, <1>5, <2>1
    <3> QED  BY <1>2, <3>1, <3>2
  <2>3. p[1] <= p[i] /\ p[i] <= p[n]
    BY <1>1, <1>2, <1>3, <1>5, <2>1
  <2>4. p[i] \in Int /\ p[n] \in Int
    BY <1>6, <2>1
  <2> QED  BY <1>2, <2>2, <2>3, <2>4
<1>10. \A i \in 1 .. n : c[i] \in Nat /\ p[i] <= c[i] /\ c[i] <= Parts
  BY <1>2, <1>8, <1>9
<1>11. c \in Seq(Nat) /\ Len(c) = n
  <2>1. c \in [1 .. n -> Nat]
    <3>1. c = [i \in 1 .. n |-> c[i]]
      BY <1>7, <1>8
    <3> QED  BY <1>10, <3>1
  <2> QED  BY <1>1, <2>1
<1>12. c[1] = 0
  BY <1>1, <1>4, <1>5, <1>8
<1>13. ASSUME NEW a \in 1 .. n, NEW b \in 1 .. n, a <= b
       PROVE  c[a] <= c[b]
  <2>1. CASE b = n
    BY <1>2, <1>8, <1>10, <2>1
  <2>2. CASE b # n
    <3>1. a # n
      BY <1>1, <1>13, <2>2
    <3>2. cdf[a] <= cdf[b]
      BY <1>1, <1>13
    <3>3. p[a] <= p[b]
      BY <1>5, <3>2
    <3> QED  BY <1>8, <2>2, <3>1, <3>3
  <2> QED  BY <2>1, <2>2
<1>14. ASSUME NEW i \in 1 .. n
       PROVE  /\ c[i] * Last \in Int /\ cdf[i] * Parts \in Int
              /\ -2 * Last <= c[i] * Last - cdf[i] * Parts
              /\ c[i] * Last - cdf[i] * Parts <= 2 * Last
  <2>1. c[i] * Last \in Int /\ cdf[i] * Parts \in Int
    BY <1>2, <1>3, <1>10
  <2>2. CASE i = n
    <3>1. c[i] * Last = cdf[i] * Parts
      BY <1>2, <1>8, <2>2
    <3> QED  BY <1>2, <2>1, <3>1
  <2>3. CASE i # n
    BY <1>6, <1>8, <2>1, <2>3
  <2> QED  BY <2>2, <2>3
<1>15. ASSUME NEW k \in 1 .. Size
       PROVE  /\ -4 * Last <= (c[k + 1] - c[k]) * Last - appended[k] * Parts
              /\ (c[k + 1] - c[k]) * Last - appended[k] * Parts <= 4 * Last
  <2>1. k \in 1 .. n /\ k + 1 \in 1 .. n /\ appended[k] \in Nat
    <3>1. Size = n - 1 /\ n \in Nat
      BY <1>1
    <3>2. k \in 1 .. n /\ k + 1 \in 1 .. n
      BY <3>1
    <3>3. appended \in Seq(Nat) /\ Len(appended) = Size
      BY <1>1
    <3>4. appended[k] \in Nat
      BY <3>3
    <3> QED  BY <3>2, <3>4
  <2>2. (c[k + 1] - c[k]) * Last = c[k + 1] * Last - c[k] * Last
    BY <1>2, <1>10, <2>1
  <2>3. cdf[k + 1] * Parts = cdf[k] * Parts + appended[k] * Parts
    <3>1. cdf[k + 1] = cdf[k] + appended[k] /\ cdf[k] \in Nat
      BY <1>1, <1>3, <2>1
    <3> QED  BY <1>2, <2>1, <3>1
  <2>4. appended[k] * Parts \in Int
    BY <1>2, <2>1
  <2>5. /\ c[k] * Last \in Int /\ cdf[k] * Parts \in Int
        /\ -2 * Last <= c[k] * Last - cdf[k] * Parts
        /\ c[k] * Last - cdf[k] * Parts <= 2 * Last
    BY <1>14, <2>1
  <2>6. /\ c[k + 1] * Last \in Int /\ cdf[k + 1] * Parts \in Int
        /\ -2 * Last <= c[k + 1] * Last - cdf[k + 1] * Parts
        /\ c[k + 1] * Last - cdf[k + 1] * Parts <= 2 * Last
    BY <1>14, <2>1
  <2> DEFINE x == c[k] * Last           y == c[k + 1] * Last
             z == cdf[k] * Parts        w == cdf[k + 1] * Parts
             t == appended[k] * Parts   d == (c[k + 1] - c[k]) * Last
  <2>7. /\ x \in Int /\ y \in Int /\ z \in Int /\ w \in Int /\ t \in Int
        /\ d = y - x /\ w = z + t
        /\ -2 * Last <= x - z /\ x - z <= 2 * Last
        /\ -2 * Last <= y - w /\ y - w <= 2 * Last
    BY <2>2, <2>3, <2>4, <2>5, <2>6
  <2> HIDE DEF x, y, z, w, t, d
  <2>8. -4 * Last <= d - t /\ d - t <= 4 * Last
    BY <1>2, <2>7
  <2> QED  BY <2>8 DEF d, t
<1>16. ASSUME NEW k \in 1 .. Size, appended[k] = 0
       PROVE  c[k + 1] = c[k] \/ (k = Size /\ c[k] >= Parts - 1)
  <2>1. k \in 1 .. n /\ k + 1 \in 1 .. n /\ k # n /\ cdf[k] \in Nat
    BY <1>1, <1>3
  <2>2. cdf[k + 1] = cdf[k]
    BY <1>1, <1>16, <2>1
  <2>3. CASE k = Size
    <3>1. cdf[k] = Last
      BY <1>1, <1>2, <2>2, <2>3
    <3>2. p[k] \in {Parts - 1, Parts}
      BY <1>5, <2>1, <3>1
    <3>3. c[k] = p[k]
      BY <1>8, <2>1
    <3> QED  BY <1>2, <2>3, <3>2, <3>3
  <2>4. CASE k # Size
    <3>1. k + 1 # n
      BY <1>1, <2>1, <2>4
    <3>2. p[k + 1] <= p[k] /\ p[k] <= p[k + 1]
      BY <1>3, <1>5, <2>1, <2>2
    <3>3. p[k + 1] \in Int /\ p[k] \in Int
      BY <1>6, <2>1
    <3> QED  BY <1>8, <2>1, <3>1, <3>2, <3>3
  <2> QED  BY <2>3, <2>4
<1> QED  BY <1>8, <1>11, <1>12, <1>13, <1>15, <1>16 DEF p, c

(* normalize() leaves the sums in order, the last of them 1, and each      *)
(* entry its part of them (dpdf.h:71-83).                                  *)
LEMMA NormalizeInv ==
  ASSUME DpdfInv, Normalize
  PROVE  DpdfInv'
<1>1. /\ ~ready /\ ready' /\ sum' = Last /\ normalized' = (Last > 0)
      /\ UNCHANGED <<result, appended>>
  BY DEF Normalize
<1>2. result = None /\ result' = None
  BY <1>1 DEF DpdfInv, None
<1>3. Last \in Nat
  BY DEF Last, DpdfInv
<1>4. CASE Last > 0
  <2>1. PICK off \in [1 .. Len(cdf) -> Off] :
          Rounded(Products(off)) /\ cdf' = Closed(Products(off))
    BY <1>4 DEF Normalize
  <2>2. /\ cdf' \in Seq(Nat) /\ Len(cdf') = Len(cdf) /\ cdf'[1] = 0 /\ cdf'[Len(cdf)] = Parts
        /\ \A a, b \in 1 .. Len(cdf) : a <= b => cdf'[a] <= cdf'[b]
        /\ \A k \in 1 .. Size :
             /\ -4 * Last <= (cdf'[k + 1] - cdf'[k]) * Last - appended[k] * Parts
             /\ (cdf'[k + 1] - cdf'[k]) * Last - appended[k] * Parts <= 4 * Last
             /\ appended[k] = 0 => cdf'[k + 1] = cdf'[k] \/ (k = Size /\ cdf'[k] >= Parts - 1)
    <3> DEFINE c == Closed(Products(off))
    <3>1. /\ c \in Seq(Nat) /\ Len(c) = Len(cdf) /\ c[1] = 0 /\ c[Len(cdf)] = Parts
          /\ \A a, b \in 1 .. Len(cdf) : a <= b => c[a] <= c[b]
          /\ \A k \in 1 .. Size :
               /\ -4 * Last <= (c[k + 1] - c[k]) * Last - appended[k] * Parts
               /\ (c[k + 1] - c[k]) * Last - appended[k] * Parts <= 4 * Last
               /\ appended[k] = 0 => c[k + 1] = c[k] \/ (k = Size /\ c[k] >= Parts - 1)
      BY <1>1, <1>4, <2>1, ClosedProducts
    <3>2. cdf' = c
      BY <2>1
    <3> HIDE DEF c
    <3> QED  BY <3>1, <3>2
  <2>3. Size' = Size /\ Last' = Parts
    BY <2>2 DEF Size, Last
  <2>4. WidthsKept'
    BY <1>1, <2>2, <2>3 DEF WidthsKept
  <2>5. /\ Len(cdf') \in 1 .. MaxEntries + 1
        /\ appended' \in Seq(Nat) /\ Len(appended') = Size' /\ sum' \in Nat
    BY <1>1, <1>3, <2>2, <2>3 DEF DpdfInv
  <2> QED  BY <1>1, <1>2, <1>3, <1>4, <2>2, <2>3, <2>4, <2>5 DEF DpdfInv
<1>5. CASE ~ (Last > 0)
  <2>1. cdf' = cdf
    BY <1>5, Zenon DEF Normalize
  <2>2. ~normalized' /\ normalized' \in BOOLEAN
    <3> DEFINE positive == Last > 0
    <3>1. positive = FALSE
      BY <1>5
    <3>2. normalized' = positive
      BY <1>1
    <3> HIDE DEF positive
    <3> QED  BY <3>1, <3>2
  <2>3. Size' = Size
    BY <2>1 DEF Size
  <2> QED  BY <1>1, <1>2, <1>3, <2>1, <2>2, <2>3 DEF DpdfInv
<1> QED  BY <1>4, <1>5

(* What depends on the distribution alone does not change with the sample. *)
LEMMA SamplingKeeps ==
  ASSUME UNCHANGED <<cdf, sum, normalized, ready, appended>>
  PROVE  /\ Size' = Size /\ Last' = Last /\ WidthsKept' = WidthsKept
         /\ \A v : Reuse(v, Index(v))' = Reuse(v, Index(v))
<1>1. Size' = Size /\ Last' = Last
  BY DEF Size, Last
<1>2. WidthsKept' = WidthsKept
  BY <1>1 DEF WidthsKept
<1>3. \A v : Reuse(v, Index(v))' = Reuse(v, Index(v))
  BY DEF Reuse, Index, LowerBound, Least, Weight, Size
<1> QED  BY <1>1, <1>2, <1>3

(* sampleReuse() records the entry that the sample finds (dpdf.h:126-131). *)
LEMMA SampleReuseInv ==
  ASSUME DpdfInv, SampleReuse
  PROVE  DpdfInv'
<1>1. /\ UNCHANGED <<cdf, sum, normalized, ready, appended>> /\ ready
      /\ \E v \in 0 .. Parts : result' = Reuse(v, Index(v))
  BY DEF SampleReuse
<1>2. /\ Size' = Size /\ Last' = Last /\ WidthsKept' = WidthsKept
      /\ \A v : Reuse(v, Index(v))' = Reuse(v, Index(v))
  BY <1>1, SamplingKeeps
<1>3. \E v \in 0 .. Parts : result' = Reuse(v, Index(v))'
  BY <1>1, <1>2
<1> QED  BY <1>1, <1>2, <1>3 DEF DpdfInv

(* The sums of a distribution start at 0 and never fall, a normalized one  *)
(* ends in 1 and gives each entry its part up to rounding, and the sample  *)
(* last taken is what the search returns for its number: in every state,   *)
(* for every number of entries and every list of areas (dpdf.h:21-131).    *)
THEOREM DpdfInvariant == Spec => []DpdfInv
<1>1. DpdfInv /\ [Next]_vars => DpdfInv'
  <2> SUFFICES ASSUME DpdfInv, [Next]_vars  PROVE DpdfInv'
    OBVIOUS
  <2>1. CASE Next
    BY <2>1, AppendEntryInv, NormalizeInv, SampleReuseInv DEF Next
  <2>2. CASE UNCHANGED vars
    <3>1. UNCHANGED <<cdf, sum, normalized, ready, appended>> /\ result' = result
      BY <2>2 DEF vars
    <3>2. /\ Size' = Size /\ Last' = Last /\ WidthsKept' = WidthsKept
          /\ \A v : Reuse(v, Index(v))' = Reuse(v, Index(v))
      BY <3>1, SamplingKeeps
    <3> QED  BY <3>1, <3>2 DEF DpdfInv, None
  <2> QED  BY <2>1, <2>2
<1> QED  BY <1>1, DpdfInit, PTL DEF Spec

-----------------------------------------------------------------------------
(* The entry found for a number above zero is the one whose sums are on    *)
(* both sides of it.                                                       *)
LEMMA IndexBrackets ==
  ASSUME DpdfInv, normalized, NEW v \in 1 .. Parts
  PROVE  /\ Index(v) \in 0 .. Size - 1
         /\ cdf[Index(v) + 1] < v
         /\ v <= cdf[Index(v) + 2]
<1> DEFINE lb == LowerBound(v)
<1>1. /\ cdf \in Seq(Nat) /\ Len(cdf) \in 1 .. MaxEntries + 1 /\ cdf[1] = 0
      /\ cdf[Len(cdf)] = Parts
  BY DEF DpdfInv, Last
<1>2. v \in 0 .. Parts /\ v \in Nat /\ v > 0 /\ v <= Parts /\ Parts \in Nat
  BY DpdfAssumption
<1>3. /\ lb \in 0 .. Len(cdf)
      /\ lb = Len(cdf) \/ cdf[lb + 1] >= v
      /\ \A e \in 1 .. Len(cdf) : e <= lb => cdf[e] < v
  BY <1>2, LowerBoundPlace
<1> HIDE DEF lb
<1>4. lb # 0
  <2>1. CASE lb = 0
    <3>1. lb # Len(cdf)
      BY <1>1, <2>1, DpdfAssumption
    <3>2. cdf[0 + 1] >= v
      BY <1>3, <2>1, <3>1
    <3> QED  BY <1>1, <1>2, <3>2
  <2> QED  BY <2>1
<1>5. lb # Len(cdf)
  <2>1. CASE lb = Len(cdf)
    <3>1. Len(cdf) \in Nat \ {0}
      BY <1>1
    <3>2. Parts < v
      BY <1>1, <1>3, <2>1, <3>1
    <3> QED  BY <1>2, <3>2
  <2> QED  BY <2>1
<1>6. Index(v) = lb - 1
  <2>1. Len(cdf) \in Nat /\ Len(cdf) - 2 \in 0 .. SizeRange - 1 /\ lb \in 1 .. Len(cdf) - 1
    BY <1>1, <1>3, <1>4, <1>5, DpdfAssumption
  <2>2. (Len(cdf) - 2) % SizeRange = Len(cdf) - 2
    BY <2>1, DpdfAssumption
  <2> QED  BY <2>1, <2>2 DEF Index, lb
<1>7. lb \in 1 .. Len(cdf) - 1 /\ Len(cdf) \in Nat
  BY <1>1, <1>3, <1>4, <1>5
<1>8. cdf[Index(v) + 1] < v
  <2>1. cdf[lb] < v
    BY <1>3, <1>7
  <2>2. Index(v) + 1 = lb
    BY <1>6, <1>7
  <2> QED  BY <2>1, <2>2
<1>9. v <= cdf[Index(v) + 2]
  <2>1. Index(v) + 2 = lb + 1 /\ cdf[lb + 1] \in Nat
    BY <1>1, <1>6, <1>7
  <2>2. cdf[lb + 1] >= v
    BY <1>3, <1>5
  <2> QED  BY <1>2, <2>1, <2>2
<1> QED  BY <1>6, <1>7, <1>8, <1>9 DEF Size

(* However the sums are rounded, no number above zero divides by zero, and *)
(* no number but 1 finds a face without area (dpdf.h:71-83, 93-131): for   *)
(* meshes of every size and all areas.                                     *)
THEOREM EmptyEntryOnlyByOne == Spec => []EmptyOnlyByOne
<1>1. DpdfInv => EmptyOnlyByOne
  <2> SUFFICES ASSUME DpdfInv, result.taken, normalized, result.v > 0
               PROVE  /\ result.index \in 0 .. Size - 1
                      /\ 0 < result.num /\ result.num <= result.den
                      /\ appended[result.index + 1] = 0 =>
                           result.index = Size - 1 /\ result.v = Parts
    BY DEF EmptyOnlyByOne
  <2>1. PICK v \in 0 .. Parts : result = Reuse(v, Index(v))
    BY DEF DpdfInv, None
  <2> DEFINE k == Index(v)
             low == cdf[k + 1]
             high == cdf[k + 2]
  <2>2. v \in 1 .. Parts /\ result.v = v
    BY <2>1, DpdfAssumption DEF Reuse
  <2>3. k \in 0 .. Size - 1 /\ low < v /\ v <= high
    BY <2>2, IndexBrackets
  <2>4. Len(cdf) \in Nat /\ cdf \in Seq(Nat) /\ Size = Len(cdf) - 1 /\ Parts \in Nat
    BY DpdfAssumption DEF DpdfInv, Size
  <2>5. low \in Nat /\ high \in Nat
    BY <2>3, <2>4
  <2>6. result.index = k /\ result.num = v - low /\ result.den = high - low
    <3>1. k < Size
      BY <2>3, <2>4
    <3>2. Weight(k) = high - low
      BY DEF Weight
    <3> HIDE DEF k, low, high
    <3>3. result = Reuse(v, k)
      BY <2>1 DEF k
    <3> QED  BY <3>1, <3>2, <3>3 DEF Reuse, low
  <2>7. ASSUME appended[k + 1] = 0  PROVE k = Size - 1 /\ v = Parts
    <3>1. k + 1 \in 1 .. Size /\ (k + 1) + 1 = k + 2
      BY <2>3, <2>4
    <3>2. cdf[(k + 1) + 1] = cdf[k + 1] \/ (k + 1 = Size /\ cdf[k + 1] >= Parts - 1)
      <4>1. WidthsKept
        BY DEF DpdfInv
      <4> HIDE DEF k
      <4> QED  BY <2>7, <3>1, <4>1 DEF WidthsKept
    <3>3. high = low \/ (k + 1 = Size /\ low >= Parts - 1)
      BY <3>1, <3>2
    <3> HIDE DEF k, low, high
    <3> QED  BY <2>2, <2>3, <2>4, <2>5, <3>3
  <2> HIDE DEF k, low, high
  <2> QED  BY <2>2, <2>3, <2>5, <2>6, <2>7
<1> QED  BY <1>1, DpdfInvariant, PTL

(* A number finds an entry exactly when it is between its sums.            *)
LEMMA FindersBracket ==
  ASSUME DpdfInv, normalized, NEW v \in 1 .. Parts, NEW k \in 0 .. Size - 1
  PROVE  Index(v) = k <=> cdf[k + 1] < v /\ v <= cdf[k + 2]
<1> DEFINE j == Index(v)
<1>1. j \in 0 .. Size - 1 /\ cdf[j + 1] < v /\ v <= cdf[j + 2]
  BY IndexBrackets
<1> HIDE DEF j
<1>2. /\ cdf \in Seq(Nat) /\ Len(cdf) \in Nat /\ Size = Len(cdf) - 1
      /\ \A a, b \in 1 .. Len(cdf) : a <= b => cdf[a] <= cdf[b]
  BY DEF DpdfInv, Size
<1>3. CASE j < k /\ cdf[k + 1] < v
  <2>1. j + 2 \in 1 .. Len(cdf) /\ k + 1 \in 1 .. Len(cdf) /\ j + 2 <= k + 1
    BY <1>1, <1>2, <1>3
  <2>2. cdf[j + 2] <= cdf[k + 1] /\ cdf[j + 2] \in Nat /\ cdf[k + 1] \in Nat
    BY <1>2, <2>1
  <2> QED  BY <1>1, <1>3, <2>2
<1>4. CASE k < j /\ v <= cdf[k + 2]
  <2>1. k + 2 \in 1 .. Len(cdf) /\ j + 1 \in 1 .. Len(cdf) /\ k + 2 <= j + 1
    BY <1>1, <1>2, <1>4
  <2>2. cdf[k + 2] <= cdf[j + 1] /\ cdf[k + 2] \in Nat /\ cdf[j + 1] \in Nat
    BY <1>2, <2>1
  <2> QED  BY <1>1, <1>4, <2>2
<1>5. CASE j = k
  BY <1>1, <1>5 DEF j
<1>6. j # k => j < k \/ k < j
  BY <1>1, <1>2
<1> QED  BY <1>3, <1>4, <1>5, <1>6 DEF j

(* Of the numbers 1 .. Parts as many find an entry as its probability asks *)
(* for, up to two roundings at either end (dpdf.h:71-83, 93-98): whatever  *)
(* the probabilities and however fine the numbers.                         *)
THEOREM SamplesInProportion == Spec => []InProportion
<1>1. DpdfInv => InProportion
  <2> SUFFICES ASSUME DpdfInv, normalized, NEW k \in 0 .. Size - 1
               PROVE  LET excess == Cardinality(Finders(k)) * sum - appended[k + 1] * Parts
                      IN  -4 * sum <= excess /\ excess <= 4 * sum
    BY DEF InProportion
  <2> DEFINE low == cdf[k + 1]  high == cdf[k + 2]
  <2>1. /\ cdf \in Seq(Nat) /\ Len(cdf) \in Nat \ {0} /\ Size = Len(cdf) - 1
        /\ k + 1 \in 1 .. Len(cdf) /\ k + 2 \in 1 .. Len(cdf) /\ Len(cdf) \in 1 .. Len(cdf)
        /\ k + 1 \in 1 .. Size /\ (k + 1) + 1 = k + 2
    BY DEF DpdfInv, Size
  <2>2. low \in Nat /\ high \in Nat /\ Parts \in Nat
    BY <2>1, DpdfAssumption
  <2>3. low <= high /\ high <= Parts
    BY <2>1 DEF DpdfInv, Last
  <2>4. ASSUME NEW v \in 1 .. Parts
        PROVE  Index(v) = k <=> low < v /\ v <= high
    BY FindersBracket
  <2>5. /\ -4 * sum <= (high - low) * sum - appended[k + 1] * Parts
        /\ (high - low) * sum - appended[k + 1] * Parts <= 4 * sum
    <3>1. WidthsKept
      BY DEF DpdfInv
    <3>2. /\ -4 * sum <= (cdf[(k + 1) + 1] - cdf[k + 1]) * sum - appended[k + 1] * Parts
          /\ (cdf[(k + 1) + 1] - cdf[k + 1]) * sum - appended[k + 1] * Parts <= 4 * sum
      BY <2>1, <3>1 DEF WidthsKept
    <3> QED  BY <2>1, <3>2
  <2> HIDE DEF low, high
  <2>6. Finders(k) = low + 1 .. high
    <3>1. ASSUME NEW v \in 1 .. Parts  PROVE Index(v) = k <=> v \in low + 1 .. high
      BY <2>2, <2>4
    <3>2. low + 1 .. high \subseteq 1 .. Parts
      BY <2>2, <2>3
    <3> QED  BY <3>1, <3>2 DEF Finders
  <2>7. Cardinality(Finders(k)) = high - low
    <3>1. Cardinality(low + 1 .. high) = IF low + 1 > high THEN 0 ELSE high - (low + 1) + 1
      <4>1. low + 1 \in Int /\ high \in Int
        BY <2>2
      <4> QED  BY <4>1, FS_Interval, Zenon
    <3> QED  BY <2>2, <2>3, <2>6, <3>1
  <2> QED  BY <2>5, <2>7
<1> QED  BY <1>1, DpdfInvariant, PTL
=============================================================================
