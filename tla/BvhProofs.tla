------------------------------- MODULE BvhProofs -------------------------------
(***************************************************************************)
(* The tree of boxes holds every face once, in boxes that enclose it, and  *)
(* the search through it finds what a test of every face finds: for meshes *)
(* and leaves of every size, every depth of the tree, and every ray.       *)
(***************************************************************************)
EXTENDS BvhProps, FiniteSetTheorems, TLAPS

(* The two arrays are one permutation of the faces.                        *)
Arrays ==
  /\ mesh \in [Positions -> Triangles]
  /\ order \in [Positions -> Positions]
  /\ centroid = order
  /\ \A i, k \in Positions : order[i] = order[k] => i = k
  /\ \A f \in Positions : \E i \in Positions : order[i] = f

(* The calls of buildNode, each with a range that is not empty.            *)
Stack ==
  /\ \E K \in Nat \ {0} :
       nodes \in [0 .. K - 1 -> [box : Boxes, leaf : BOOLEAN, first : Nat, count : Nat]]
  /\ calls \in Seq([node : DOMAIN nodes, start : Nat, end : Nat, level : 0 .. MaxDepth])
  /\ \A i \in 1 .. Len(calls) : calls[i].start < calls[i].end /\ calls[i].end <= N
  /\ phase \in {"start", "build", "split", "ready", "trace", "aborted"}
  /\ phase = "start" => DOMAIN nodes = {0} /\ ~nodes[0].leaf
  /\ phase \in {"start", "ready", "trace"} => calls = <<>>
  /\ phase = "split" => calls # <<>> /\ Call.level < MaxDepth

(* What the scans of split have passed lies on its side of the plane.      *)
Cursors ==
  /\ l \in 0 .. N /\ r \in -1 .. N - 1
  /\ phase = "split" =>
       /\ Call.start <= l /\ l <= Call.end
       /\ Call.start - 1 <= r /\ r <= Call.end - 1
       /\ \A p \in Call.start .. l - 1 : Below(p, Box)
       /\ \A p \in r + 1 .. Call.end - 1 : ~Below(p, Box)

(* The positions below each node are F.  Those of an inner node are those  *)
(* of its children; a node that is still to be built has its range.        *)
Pending(k) == \E i \in 1 .. Len(calls) : calls[i].node = k
Bottom(k) == nodes[k].leaf \/ Pending(k)
Boxed(k) == Pending(k) => phase = "split" /\ k = Call.node

Shape(F) ==
  /\ F \in [DOMAIN nodes -> SUBSET Positions]
  /\ F[0] = Positions
  /\ \A k \in DOMAIN nodes :
       /\ F[k] # {}
       /\ nodes[k].leaf => F[k] = nodes[k].first .. nodes[k].first + nodes[k].count - 1
  /\ \A i \in 1 .. Len(calls) :
       /\ F[calls[i].node] = calls[i].start .. calls[i].end - 1
       /\ ~nodes[calls[i].node].leaf
       /\ \A j \in 1 .. Len(calls) : calls[i].node = calls[j].node => i = j

Family(F) ==
  phase # "start" =>
    \A k \in DOMAIN nodes :
      /\ ~Bottom(k) =>
           /\ nodes[k].first \in DOMAIN nodes /\ nodes[k].first + 1 \in DOMAIN nodes
           /\ F[k] = F[nodes[k].first] \cup F[nodes[k].first + 1]
      /\ Boxed(k) => nodes[k].box = BoxOf({order[p] : p \in F[k]})

(* The leaves and the nodes still to be built tile the array, and the      *)
(* range of a call lies within or beside the positions of any node.        *)
Tiled(F) ==
  /\ \A k, m \in DOMAIN nodes : Bottom(k) /\ Bottom(m) /\ k # m => F[k] \cap F[m] = {}
  /\ phase # "start" => \A p \in Positions : \E k \in DOMAIN nodes : Bottom(k) /\ p \in F[k]
  /\ \A i \in 1 .. Len(calls), k \in DOMAIN nodes :
       F[calls[i].node] \subseteq F[k] \/ F[calls[i].node] \cap F[k] = {}

Tree(F) == Shape(F) /\ Family(F) /\ Tiled(F)

(* The hit is the nearest of the faces seen so far: every face that is     *)
(* nearer lies below a node that is still to be visited.                   *)
Query ==
  /\ height \in Heights
  /\ meets \in [Positions -> Int]
  /\ reach \in {2, Infinity} /\ t \in Int /\ t <= reach
  /\ phase # "trace" => todo = <<>>
  /\ phase = "trace" =>
       /\ todo \in Seq(DOMAIN nodes)
       /\ \A f \in Positions : meets[f] \in Meetings(f)
       /\ t = reach \/ \E f \in Positions : meets[f] = t /\ 0 < t /\ t < reach

Search(F) ==
  phase = "trace" =>
    \A p \in Positions :
      \/ meets[order[p]] <= 0 \/ meets[order[p]] >= t
      \/ \E j \in 1 .. Len(todo) : p \in F[todo[j]]

Build == Arrays /\ Stack /\ Cursors
BvhInv == Build /\ Query /\ \E F : Tree(F) /\ Search(F)

-----------------------------------------------------------------------------
(* P assigns parts of S to its elements; that of x contains no other.      *)
PartsOf(P, S) == P \in [S -> SUBSET S]
Smallest(P, x, S) == \A y \in S : ~(P[y] \subseteq P[x] /\ P[y] # P[x])

(* Of finitely many parts of a finite set, one contains no other.          *)
LEMMA SmallestPart ==
  ASSUME NEW S, IsFiniteSet(S), S # {}, NEW P, PartsOf(P, S)
  PROVE  \E x \in S : Smallest(P, x, S)
<1> DEFINE T == {P[x] : x \in S}
           R == StrictSubsetOrdering(S)
<1> USE DEF PartsOf
<1>1. IsWellFoundedOn(R, SUBSET S)
  BY FS_StrictSubsetOrderingWellFounded, FS_FiniteSubsetsOfFinite
<1>2. T \subseteq SUBSET S /\ T # {}
  OBVIOUS
<1>3. PICK m \in T : \A u \in T : ~(<<u, m>> \in R)
  <2> HIDE DEF T, R
  <2> QED  BY <1>1, <1>2, WFMin, Zenon
<1>4. PICK x \in S : m = P[x]
  OBVIOUS
<1>5. ASSUME NEW y \in S  PROVE ~(P[y] \subseteq P[x] /\ P[y] # P[x])
  <2>1. P[y] \in SUBSET S /\ P[x] \in SUBSET S /\ ~(<<P[y], P[x]>> \in R)
    BY <1>3, <1>4
  <2> QED  BY <2>1 DEF StrictSubsetOrdering
<1> QED  BY <1>5 DEF Smallest

(* A finite set of integers that is not empty has a least element: of its  *)
(* initial parts, take one that contains no other.                         *)
LEMMA LeastExists ==
  ASSUME NEW S \in SUBSET Int, IsFiniteSet(S), S # {}
  PROVE  Least(S) \in S /\ \A y \in S : Least(S) <= y
<1> DEFINE P == [x \in S |-> {y \in S : y <= x}]
<1>1. P \in [S -> SUBSET S] /\ \A x, y \in S : y \in P[x] <=> y <= x
  OBVIOUS
<1> HIDE DEF P
<1>2. PICK x \in S : \A y \in S : ~(P[y] \subseteq P[x] /\ P[y] # P[x])
  <2>1. PartsOf(P, S)
    BY <1>1 DEF PartsOf
  <2>2. \E x \in S : Smallest(P, x, S)
    BY <2>1, SmallestPart
  <2> QED  BY <2>2 DEF Smallest
<1>3. ASSUME NEW y \in S, y < x  PROVE FALSE
  <2>1. P[y] \subseteq S /\ \A z \in S : z \in P[y] => z \in P[x]
    BY <1>1, <1>3
  <2>2. x \in P[x] /\ x \notin P[y]
    BY <1>1, <1>3
  <2> QED  BY <1>2, <2>1, <2>2
<1>4. \A y \in S : x <= y
  BY <1>3
<1> QED  BY <1>4 DEF Least

(* It has a greatest element: the same with the final parts.               *)
LEMMA GreatestExists ==
  ASSUME NEW S \in SUBSET Int, IsFiniteSet(S), S # {}
  PROVE  Greatest(S) \in S /\ \A y \in S : Greatest(S) >= y
<1> DEFINE P == [x \in S |-> {y \in S : y >= x}]
<1>1. P \in [S -> SUBSET S] /\ \A x, y \in S : y \in P[x] <=> y >= x
  OBVIOUS
<1> HIDE DEF P
<1>2. PICK x \in S : \A y \in S : ~(P[y] \subseteq P[x] /\ P[y] # P[x])
  <2>1. PartsOf(P, S)
    BY <1>1 DEF PartsOf
  <2>2. \E x \in S : Smallest(P, x, S)
    BY <2>1, SmallestPart
  <2> QED  BY <2>2 DEF Smallest
<1>3. ASSUME NEW y \in S, y > x  PROVE FALSE
  <2>1. P[y] \subseteq S /\ \A z \in S : z \in P[y] => z \in P[x]
    BY <1>1, <1>3
  <2>2. x \in P[x] /\ x \notin P[y]
    BY <1>1, <1>3
  <2> QED  BY <1>2, <2>1, <2>2
<1>4. \A y \in S : x >= y
  BY <1>3
<1> QED  BY <1>4 DEF Greatest

(* The least element is determined by what it is.                          *)
LEMMA LeastUnique ==
  ASSUME NEW S \in SUBSET Int, NEW m \in S, \A y \in S : m <= y
  PROVE  Least(S) = m
<1>1. \A z \in S : (\A y \in S : z <= y) => z = m
  OBVIOUS
<1> QED  BY <1>1 DEF Least

-----------------------------------------------------------------------------
(* The coordinates of the vertices of some faces along an axis.            *)
Coordinates(faces, a) == {mesh[f][i][a] : f \in faces, i \in 1 .. 3}

(* They are integers, and finitely many.                                   *)
LEMMA CoordinatesFinite ==
  ASSUME mesh \in [Positions -> Triangles], NEW faces \in SUBSET Positions, faces # {},
         NEW a \in Axes
  PROVE  /\ Coordinates(faces, a) \in SUBSET Int
         /\ IsFiniteSet(Coordinates(faces, a))
         /\ Coordinates(faces, a) # {}
<1>1. ASSUME NEW f \in faces, NEW i \in 1 .. 3  PROVE mesh[f][i][a] \in Int
  <2>1. mesh[f] \in Triangles
    OBVIOUS
  <2>2. mesh[f][i] \in Int \X Int
    BY <2>1, MeshAssumption
  <2>3. a = 1 \/ a = 2
    BY DEF Axes
  <2> QED  BY <2>2, <2>3
<1>2. Coordinates(faces, a) \in SUBSET Int
  BY <1>1 DEF Coordinates
<1>3. Coordinates(faces, a) # {}
  BY DEF Coordinates
<1>4. IsFiniteSet(Coordinates(faces, a))
  <2> DEFINE D == faces \X (1 .. 3)
             g == [d \in D |-> mesh[d[1]][d[2]][a]]
  <2>1. IsFiniteSet(faces)
    <3>1. IsFiniteSet(Positions)
      BY FS_Interval, MeshAssumption DEF Positions
    <3> QED  BY <3>1, FS_Subset, Zenon
  <2>2. IsFiniteSet(D)
    <3>1. 1 \in Int /\ 3 \in Int
      OBVIOUS
    <3>2. IsFiniteSet(1 .. 3)
      BY <3>1, FS_Interval, Zenon
    <3> QED  BY <2>1, <3>2, FS_Product
  <2>3. g \in Surjection(D, Coordinates(faces, a))
    <3>1. \A d \in D : g[d] \in Coordinates(faces, a)
      BY DEF Coordinates
    <3>2. ASSUME NEW c \in Coordinates(faces, a)  PROVE \E d \in D : g[d] = c
      <4>1. PICK f \in faces, i \in 1 .. 3 : c = mesh[f][i][a]
        BY DEF Coordinates
      <4>2. <<f, i>> \in D /\ g[<<f, i>>] = c
        BY <4>1
      <4> QED  BY <4>2
    <3> QED  BY <3>1, <3>2 DEF Surjection
  <2> HIDE DEF D, g
  <2> QED  BY <2>2, <2>3, FS_Surjection
<1> QED  BY <1>2, <1>3, <1>4

(* The box of some faces has the least and the greatest of their           *)
(* coordinates as its corners.                                             *)
LEMMA BoxCorners ==
  ASSUME mesh \in [Positions -> Triangles], NEW faces \in SUBSET Positions, faces # {}
  PROVE  /\ BoxOf(faces) \in Boxes
         /\ \A a \in Axes :
              /\ BoxOf(faces).lo[a] = Least(Coordinates(faces, a))
              /\ BoxOf(faces).hi[a] = Greatest(Coordinates(faces, a))
<1>1. BoxOf(faces) = [lo |-> [a \in Axes |-> Least(Coordinates(faces, a))],
                      hi |-> [a \in Axes |-> Greatest(Coordinates(faces, a))]]
  BY DEF BoxOf, Coordinates
<1>2. ASSUME NEW a \in Axes
      PROVE  Least(Coordinates(faces, a)) \in Int /\ Greatest(Coordinates(faces, a)) \in Int
  BY CoordinatesFinite, LeastExists, GreatestExists
<1> QED  BY <1>1, <1>2 DEF Boxes

(* More faces have a larger box.                                           *)
LEMMA BoxMonotone ==
  ASSUME mesh \in [Positions -> Triangles], NEW some \in SUBSET Positions,
         NEW all \in SUBSET Positions, some # {}, some \subseteq all
  PROVE  Inside(BoxOf(some), BoxOf(all))
<1>1. ASSUME NEW a \in Axes
      PROVE  BoxOf(all).lo[a] <= BoxOf(some).lo[a] /\ BoxOf(some).hi[a] <= BoxOf(all).hi[a]
  <2>1. Coordinates(some, a) \subseteq Coordinates(all, a)
    BY DEF Coordinates
  <2>2. /\ Coordinates(some, a) \in SUBSET Int /\ IsFiniteSet(Coordinates(some, a))
        /\ Coordinates(some, a) # {}
        /\ Coordinates(all, a) \in SUBSET Int /\ IsFiniteSet(Coordinates(all, a))
        /\ Coordinates(all, a) # {}
    BY CoordinatesFinite
  <2>3. /\ Least(Coordinates(some, a)) \in Coordinates(some, a)
        /\ Greatest(Coordinates(some, a)) \in Coordinates(some, a)
    BY <2>2, LeastExists, GreatestExists
  <2>4. /\ Least(Coordinates(all, a)) <= Least(Coordinates(some, a))
        /\ Greatest(Coordinates(all, a)) >= Greatest(Coordinates(some, a))
    BY <2>1, <2>2, <2>3, LeastExists, GreatestExists
  <2>5. /\ Least(Coordinates(all, a)) \in Int /\ Greatest(Coordinates(all, a)) \in Int
        /\ Least(Coordinates(some, a)) \in Int /\ Greatest(Coordinates(some, a)) \in Int
    BY <2>2, LeastExists, GreatestExists
  <2>6. /\ BoxOf(all).lo[a] = Least(Coordinates(all, a))
        /\ BoxOf(some).lo[a] = Least(Coordinates(some, a))
        /\ BoxOf(all).hi[a] = Greatest(Coordinates(all, a))
        /\ BoxOf(some).hi[a] = Greatest(Coordinates(some, a))
    <3>1. all # {}
      OBVIOUS
    <3> QED  BY <3>1, BoxCorners
  <2> QED  BY <2>4, <2>5, <2>6
<1> QED  BY <1>1 DEF Inside

-----------------------------------------------------------------------------
(* The members of a call.                                                  *)
LEMMA CallsTyped ==
  ASSUME Build
  PROVE  \A i \in 1 .. Len(calls) :
           /\ calls[i].node \in DOMAIN nodes /\ calls[i].start \in Nat
           /\ calls[i].end \in Nat /\ calls[i].level \in 0 .. MaxDepth
<1> DEFINE Record == [node : DOMAIN nodes, start : Nat, end : Nat, level : 0 .. MaxDepth]
<1>1. calls \in Seq(Record)
  BY DEF Build, Stack
<1> HIDE DEF Record
<1>2. \A i \in 1 .. Len(calls) : calls[i] \in Record
  BY <1>1
<1> QED  BY <1>2 DEF Record

(* The running call: its node, its range, and their place in the tree.     *)
LEMMA RunningCall ==
  ASSUME Build, NEW F, Tree(F), calls # <<>>
  PROVE  /\ Len(calls) \in Nat /\ 1 \in 1 .. Len(calls) /\ Call = calls[1]
         /\ Call.node \in DOMAIN nodes /\ Pending(Call.node) /\ ~nodes[Call.node].leaf
         /\ Call.start \in Nat /\ Call.end \in Nat /\ Call.level \in 0 .. MaxDepth
         /\ Call.start < Call.end /\ Call.end <= N
         /\ F[Call.node] = Call.start .. Call.end - 1
         /\ Call.start .. Call.end - 1 \subseteq Positions
<1>1. Len(calls) \in Nat /\ 1 \in 1 .. Len(calls) /\ Call = calls[1]
  <2>1. calls \in Seq([node : DOMAIN nodes, start : Nat, end : Nat, level : 0 .. MaxDepth])
    BY DEF Build, Stack
  <2> QED  BY <2>1 DEF Call
<1>2. /\ Call.node \in DOMAIN nodes /\ Call.start \in Nat /\ Call.end \in Nat
      /\ Call.level \in 0 .. MaxDepth
  BY <1>1, CallsTyped
<1>3. Call.start < Call.end /\ Call.end <= N
  BY <1>1 DEF Build, Stack
<1>4. Pending(Call.node)
  BY <1>1 DEF Pending
<1>5. F[Call.node] = Call.start .. Call.end - 1 /\ ~nodes[Call.node].leaf
  BY <1>1 DEF Tree, Shape
<1>6. Call.start .. Call.end - 1 \subseteq Positions
  BY <1>2, <1>3, MeshAssumption DEF Positions
<1> QED  BY <1>1, <1>2, <1>3, <1>4, <1>5, <1>6

(* The leaves and the nodes still to be built are the same as before.      *)
SameBottoms ==
  /\ DOMAIN nodes' = DOMAIN nodes
  /\ \A k \in DOMAIN nodes : Bottom(k)' <=> Bottom(k)

(* Making a leaf of the running call's range keeps the tree: the node was  *)
(* pending and is a leaf with the same positions (bvh.cpp:121-127,         *)
(* 204-211).                                                               *)
LEMMA LeafMade ==
  ASSUME Build, Query, NEW F, Tree(F), calls # <<>>, phase \in {"build", "split"},
         MakeLeaf(BoxOf(FacesIn(Call.start, Call.end))),
         UNCHANGED <<mesh, order, centroid, l, r, query>>
  PROVE  Build' /\ Query' /\ Tree(F)' /\ Search(F)' /\ SameBottoms
<1> DEFINE n == Call.node
           box == BoxOf(FacesIn(Call.start, Call.end))
           leaf == Leaf(box, Call.start, Call.end)
<1>1. /\ Len(calls) \in Nat /\ 1 \in 1 .. Len(calls) /\ Call = calls[1]
      /\ n \in DOMAIN nodes /\ Pending(n) /\ ~nodes[n].leaf
      /\ Call.start \in Nat /\ Call.end \in Nat
      /\ Call.start < Call.end /\ Call.end <= N
      /\ F[n] = Call.start .. Call.end - 1
      /\ Call.start .. Call.end - 1 \subseteq Positions
  BY RunningCall
<1>2. /\ mesh' = mesh /\ order' = order /\ centroid' = centroid /\ l' = l /\ r' = r
      /\ nodes' = [nodes EXCEPT ![n] = leaf] /\ calls' = Tail(calls)
      /\ phase' \in {"aborted", "build"}
      /\ UNCHANGED query
  BY DEF MakeLeaf
<1>3. /\ leaf.box = box /\ leaf.leaf /\ leaf.first = Call.start
      /\ leaf.count = Call.end - Call.start
      /\ leaf \in [box : Boxes, leaf : BOOLEAN, first : Nat, count : Nat]
  <2>1. (Call.end - Call.start) % NbFacesRange = Call.end - Call.start
    <3>1. Call.end - Call.start \in 0 .. NbFacesRange - 1 /\ NbFacesRange \in Nat
      BY <1>1, MeshAssumption
    <3>2. \A d \in 0 .. NbFacesRange - 1 : d % NbFacesRange = d
      BY <3>1
    <3> QED  BY <3>1, <3>2
  <2>2. leaf = [box |-> box, leaf |-> TRUE, first |-> Call.start, count |-> Call.end - Call.start]
    BY <2>1 DEF Leaf
  <2>3. box \in Boxes
    <3>1. FacesIn(Call.start, Call.end) \in SUBSET Positions /\ FacesIn(Call.start, Call.end) # {}
      BY <1>1 DEF FacesIn, Build, Arrays
    <3> QED  BY <3>1, BoxCorners DEF Build, Arrays
  <2> HIDE DEF box
  <2> QED  BY <1>1, <2>2, <2>3
<1> HIDE DEF leaf, box
<1>4. /\ DOMAIN nodes' = DOMAIN nodes
      /\ nodes'[n] = leaf
      /\ \A k \in DOMAIN nodes \ {n} : nodes'[k] = nodes[k]
  BY <1>1, <1>2 DEF Build, Stack
<1>5. /\ Len(calls') = Len(calls) - 1
      /\ \A i \in 1 .. Len(calls') : i + 1 \in 1 .. Len(calls) /\ calls'[i] = calls[i + 1]
      /\ calls' \in Seq([node : DOMAIN nodes, start : Nat, end : Nat, level : 0 .. MaxDepth])
  BY <1>1, <1>2 DEF Build, Stack
<1>6. \A k \in DOMAIN nodes : Pending(k)' <=> Pending(k) /\ k # n
  <2>1. ASSUME NEW k, Pending(k)'  PROVE Pending(k) /\ k # n
    <3>1. PICK i \in 1 .. Len(calls') : calls'[i].node = k
      BY <2>1 DEF Pending
    <3>2. i + 1 \in 1 .. Len(calls) /\ calls[i + 1].node = k /\ i + 1 # 1
      BY <1>5, <3>1
    <3>3. k # n
      BY <1>1, <3>2 DEF Tree, Shape
    <3> QED  BY <3>2, <3>3 DEF Pending
  <2>2. ASSUME NEW k, Pending(k), k # n  PROVE Pending(k)'
    <3>1. PICK i \in 1 .. Len(calls) : calls[i].node = k
      BY <2>2 DEF Pending
    <3>2. i # 1
      BY <1>1, <2>2, <3>1
    <3>3. i - 1 \in 1 .. Len(calls') /\ calls'[i - 1] = calls[i]
      BY <1>1, <1>5, <3>1, <3>2
    <3> QED  BY <3>1, <3>3 DEF Pending
  <2> QED  BY <2>1, <2>2
<1>7. \A k \in DOMAIN nodes : Bottom(k)' <=> Bottom(k)
  BY <1>1, <1>3, <1>4, <1>6 DEF Bottom
<1>8. Build'
  <2>1. Arrays'
    BY <1>2 DEF Build, Arrays
  <2>2. Stack'
    <3>1. \E K \in Nat \ {0} :
            nodes' \in [0 .. K - 1 -> [box : Boxes, leaf : BOOLEAN, first : Nat, count : Nat]]
      BY <1>1, <1>2, <1>3 DEF Build, Stack
    <3>2. \A i \in 1 .. Len(calls') : calls'[i].start < calls'[i].end /\ calls'[i].end <= N
      BY <1>5 DEF Build, Stack
    <3> QED  BY <1>2, <1>4, <1>5, <3>1, <3>2 DEF Stack
  <2>3. Cursors'
    BY <1>2 DEF Build, Cursors
  <2> QED  BY <2>1, <2>2, <2>3 DEF Build
<1>9. Query' /\ Search(F)'
  BY <1>2 DEF Query, Search, query, Meetings, BoxOf
<1>10. Shape(F)'
  <2>1. ASSUME NEW k \in DOMAIN nodes
        PROVE  /\ F[k] # {}
               /\ nodes'[k].leaf =>
                    F[k] = nodes'[k].first .. nodes'[k].first + nodes'[k].count - 1
    <3>1. CASE k = n
      <4>1. leaf.first + leaf.count - 1 = Call.end - 1
        BY <1>1, <1>3
      <4>2. F[n] # {}
        BY <1>1
      <4> QED  BY <1>1, <1>3, <1>4, <3>1, <4>1, <4>2
    <3>2. CASE k # n
      BY <1>4, <3>2 DEF Tree, Shape
    <3> QED  BY <3>1, <3>2
  <2>2. ASSUME NEW i \in 1 .. Len(calls')
        PROVE  /\ F[calls'[i].node] = calls'[i].start .. calls'[i].end - 1
               /\ ~nodes'[calls'[i].node].leaf
               /\ \A j \in 1 .. Len(calls') : calls'[i].node = calls'[j].node => i = j
    <3>1. i + 1 \in 1 .. Len(calls) /\ calls'[i] = calls[i + 1] /\ i + 1 # 1
      BY <1>5
    <3>2. calls[i + 1].node # n /\ calls[i + 1].node \in DOMAIN nodes
      <4>1. calls[i + 1].node # calls[1].node
        BY <1>1, <3>1 DEF Tree, Shape
      <4> QED  BY <1>1, <3>1, <4>1, CallsTyped
    <3>3. ~nodes'[calls'[i].node].leaf
      BY <1>4, <3>1, <3>2 DEF Tree, Shape
    <3>4. \A j \in 1 .. Len(calls') : calls'[i].node = calls'[j].node => i = j
      <4>1. ASSUME NEW j \in 1 .. Len(calls'), calls'[i].node = calls'[j].node
            PROVE  i = j
        <5>1. j + 1 \in 1 .. Len(calls) /\ calls'[j] = calls[j + 1]
          BY <1>5
        <5>2. i + 1 = j + 1
          BY <3>1, <4>1, <5>1 DEF Tree, Shape
        <5> QED  BY <1>1, <5>2
      <4> QED  BY <4>1
    <3> QED  BY <3>1, <3>3, <3>4 DEF Tree, Shape
  <2> QED  BY <1>4, <2>1, <2>2 DEF Tree, Shape
<1>11. Family(F)'
  <2>1. ASSUME NEW k \in DOMAIN nodes, ~Bottom(k)'
        PROVE  /\ nodes'[k].first \in DOMAIN nodes /\ nodes'[k].first + 1 \in DOMAIN nodes
               /\ F[k] = F[nodes'[k].first] \cup F[nodes'[k].first + 1]
    <3>1. ~Bottom(k) /\ k # n
      BY <1>1, <1>7, <2>1 DEF Bottom
    <3> QED  BY <1>4, <3>1 DEF Tree, Family
  <2>2. ASSUME NEW k \in DOMAIN nodes, Boxed(k)'
        PROVE  nodes'[k].box = BoxOf({order[p] : p \in F[k]})
    <3>1. CASE k = n
      BY <1>1, <1>3, <1>4, <3>1 DEF box, FacesIn
    <3>2. CASE k # n
      <4>1. ~Pending(k)
        BY <1>2, <1>6, <2>2, <3>2 DEF Boxed
      <4> QED  BY <1>4, <3>2, <4>1 DEF Tree, Family, Boxed
    <3> QED  BY <3>1, <3>2
  <2>3. \A S : BoxOf(S)' = BoxOf(S)
    BY <1>2 DEF BoxOf
  <2> QED  BY <1>2, <1>4, <2>1, <2>2, <2>3 DEF Family
<1>12. Tiled(F)'
  <2>1. \A i \in 1 .. Len(calls'), k \in DOMAIN nodes :
          F[calls'[i].node] \subseteq F[k] \/ F[calls'[i].node] \cap F[k] = {}
    BY <1>5 DEF Tree, Tiled
  <2>2. \A k, m \in DOMAIN nodes : Bottom(k)' /\ Bottom(m)' /\ k # m => F[k] \cap F[m] = {}
    BY <1>7 DEF Tree, Tiled
  <2>3. \A p \in Positions : \E k \in DOMAIN nodes : Bottom(k)' /\ p \in F[k]
    BY <1>7 DEF Tree, Tiled
  <2> QED  BY <1>4, <2>1, <2>2, <2>3 DEF Tiled
<1> QED  BY <1>4, <1>7, <1>8, <1>9, <1>10, <1>11, <1>12 DEF Tree, SameBottoms

(* A small range, or one at the limit of the depth, becomes a leaf.        *)
LEMMA StopNodeKeeps ==
  ASSUME Build, Query, NEW F, Tree(F), StopNode
  PROVE  Build' /\ Query' /\ Tree(F)' /\ Search(F)' /\ SameBottoms
<1>1. /\ calls # <<>> /\ phase \in {"build", "split"}
      /\ MakeLeaf(BoxOf(FacesIn(Call.start, Call.end)))
      /\ UNCHANGED <<mesh, order, centroid, l, r, query>>
  BY DEF StopNode
<1> QED  BY <1>1, LeafMade

(* So does one that cannot be divided.                                     *)
LEMMA KeepWholeKeeps ==
  ASSUME Build, Query, NEW F, Tree(F), KeepWhole
  PROVE  Build' /\ Query' /\ Tree(F)' /\ Search(F)' /\ SameBottoms
<1>1. /\ calls # <<>> /\ phase = "split" /\ MakeLeaf(Box)
      /\ UNCHANGED <<mesh, order, centroid, l, r, query>>
  BY DEF KeepWhole, Build, Stack
<1>2. Box = BoxOf(FacesIn(Call.start, Call.end))
  <2>1. Call.node \in DOMAIN nodes /\ F[Call.node] = Call.start .. Call.end - 1
    BY <1>1, RunningCall
  <2>2. nodes[Call.node].box = BoxOf({order[p] : p \in F[Call.node]})
    BY <1>1, <2>1 DEF Tree, Family, Boxed
  <2> QED  BY <2>1, <2>2 DEF Box, FacesIn
<1>3. MakeLeaf(BoxOf(FacesIn(Call.start, Call.end)))
  BY <1>1, <1>2
<1> QED  BY <1>1, <1>3, LeafMade

(* The head of buildNode stores the box of the range and starts the scans. *)
LEMMA OpenNodeKeeps ==
  ASSUME Build, Query, NEW F, Tree(F), OpenNode
  PROVE  Build' /\ Query' /\ Tree(F)' /\ Search(F)' /\ SameBottoms
<1> DEFINE n == Call.node
           box == BoxOf(FacesIn(Call.start, Call.end))
<1>1. /\ phase = "build" /\ calls # <<>> /\ Call.level < MaxDepth
      /\ nodes' = [nodes EXCEPT ![n].box = box, ![n].leaf = FALSE]
      /\ l' = Call.start /\ r' = Call.end - 1 /\ phase' = "split"
      /\ mesh' = mesh /\ order' = order /\ centroid' = centroid /\ calls' = calls
      /\ UNCHANGED query
  BY RunningCall DEF OpenNode
<1>2. /\ Len(calls) \in Nat /\ 1 \in 1 .. Len(calls) /\ Call = calls[1]
      /\ n \in DOMAIN nodes /\ Pending(n) /\ ~nodes[n].leaf
      /\ Call.start \in Nat /\ Call.end \in Nat
      /\ Call.start < Call.end /\ Call.end <= N
      /\ F[n] = Call.start .. Call.end - 1
      /\ Call.start .. Call.end - 1 \subseteq Positions
  BY <1>1, RunningCall
<1>3. box \in Boxes
  <2>1. FacesIn(Call.start, Call.end) \in SUBSET Positions /\ FacesIn(Call.start, Call.end) # {}
    BY <1>2 DEF FacesIn, Build, Arrays
  <2> QED  BY <2>1, BoxCorners DEF Build, Arrays
<1>4. Call' = Call /\ \A S : BoxOf(S)' = BoxOf(S)
  BY <1>1 DEF Call, BoxOf
<1> HIDE DEF box
<1>5. PICK K \in Nat \ {0} :
        nodes \in [0 .. K - 1 -> [box : Boxes, leaf : BOOLEAN, first : Nat, count : Nat]]
  BY DEF Build, Stack
<1>6. /\ nodes' \in [0 .. K - 1 -> [box : Boxes, leaf : BOOLEAN, first : Nat, count : Nat]]
      /\ DOMAIN nodes' = DOMAIN nodes
      /\ nodes'[n].box = box
      /\ \A k \in DOMAIN nodes :
           /\ nodes'[k].leaf = nodes[k].leaf /\ nodes'[k].first = nodes[k].first
           /\ nodes'[k].count = nodes[k].count
           /\ k # n => nodes'[k].box = nodes[k].box
  <2> DEFINE Record == [box : Boxes, leaf : BOOLEAN, first : Nat, count : Nat]
             opened == [[nodes[n] EXCEPT !.box = box] EXCEPT !.leaf = FALSE]
  <2>1. /\ DOMAIN nodes = 0 .. K - 1 /\ DOMAIN nodes' = 0 .. K - 1
        /\ nodes' = [k \in 0 .. K - 1 |-> IF k = n THEN opened ELSE nodes[k]]
    BY <1>1, <1>2, <1>5
  <2>2. nodes[n] \in Record /\ \A k \in 0 .. K - 1 : nodes[k] \in Record
    BY <1>2, <1>5
  <2>3. /\ opened \in Record /\ opened.box = box /\ ~opened.leaf
        /\ opened.first = nodes[n].first /\ opened.count = nodes[n].count
    BY <1>3, <2>2
  <2> HIDE DEF Record, opened
  <2>4. nodes' \in [0 .. K - 1 -> Record]
    BY <2>1, <2>2, <2>3
  <2>5. nodes'[n] = opened /\ \A k \in DOMAIN nodes : k # n => nodes'[k] = nodes[k]
    BY <1>2, <2>1
  <2> USE DEF Record
  <2>6. ~nodes[n].leaf /\ nodes[n].leaf \in BOOLEAN /\ opened.leaf \in BOOLEAN
    BY <1>2, <2>2, <2>3
  <2> QED  BY <2>1, <2>3, <2>4, <2>5, <2>6
<1>7. \A k \in DOMAIN nodes : (Pending(k)' <=> Pending(k)) /\ (Bottom(k)' <=> Bottom(k))
  BY <1>1, <1>6 DEF Pending, Bottom
<1>8. Build'
  <2>1. Arrays'
    BY <1>1 DEF Build, Arrays
  <2>2. Stack'
    <3>1. calls' \in Seq([node : DOMAIN nodes', start : Nat, end : Nat, level : 0 .. MaxDepth])
      BY <1>1, <1>6 DEF Build, Stack
    <3>2. \A i \in 1 .. Len(calls') : calls'[i].start < calls'[i].end /\ calls'[i].end <= N
      BY <1>1 DEF Build, Stack
    <3>3. \E J \in Nat \ {0} :
            nodes' \in [0 .. J - 1 -> [box : Boxes, leaf : BOOLEAN, first : Nat, count : Nat]]
      BY <1>6
    <3>4. calls' # <<>> /\ Call'.level < MaxDepth /\ phase' = "split"
      BY <1>1, <1>4
    <3> QED  BY <3>1, <3>2, <3>3, <3>4 DEF Stack
  <2>3. Cursors'
    <3>1. l' \in 0 .. N /\ r' \in -1 .. N - 1
      BY <1>1, <1>2, MeshAssumption
    <3>2. /\ Call.start <= l' /\ l' <= Call.end
          /\ Call.start - 1 <= r' /\ r' <= Call.end - 1
      BY <1>1, <1>2
    <3>3. Call.start .. l' - 1 = {} /\ r' + 1 .. Call.end - 1 = {}
      BY <1>1, <1>2
    <3> QED  BY <1>4, <3>1, <3>2, <3>3 DEF Cursors
  <2> QED  BY <2>1, <2>2, <2>3 DEF Build
<1>9. Query' /\ Search(F)'
  BY <1>1 DEF Query, Search, query, Meetings, BoxOf
<1>10. Shape(F)'
  BY <1>1, <1>6, CallsTyped DEF Tree, Shape
<1>11. Family(F)'
  <2>1. ASSUME NEW k \in DOMAIN nodes, ~Bottom(k)'
        PROVE  /\ nodes'[k].first \in DOMAIN nodes /\ nodes'[k].first + 1 \in DOMAIN nodes
               /\ F[k] = F[nodes'[k].first] \cup F[nodes'[k].first + 1]
    BY <1>1, <1>6, <1>7, <2>1 DEF Tree, Family
  <2>2. ASSUME NEW k \in DOMAIN nodes, Boxed(k)'
        PROVE  nodes'[k].box = BoxOf({order[p] : p \in F[k]})
    <3>1. CASE k = n
      BY <1>2, <1>6, <3>1 DEF box, FacesIn
    <3>2. CASE k # n
      <4>1. ~Pending(k)
        BY <1>4, <1>7, <2>2, <3>2 DEF Boxed
      <4> QED  BY <1>1, <1>6, <3>2, <4>1 DEF Tree, Family, Boxed
    <3> QED  BY <3>1, <3>2
  <2>3. \A k : BoxOf({order[p] : p \in F[k]})' = BoxOf({order[p] : p \in F[k]})
    BY <1>1 DEF BoxOf
  <2>4. DOMAIN nodes' = DOMAIN nodes
    BY <1>6
  <2> QED  BY <2>1, <2>2, <2>3, <2>4 DEF Family
<1>12. Tiled(F)'
  <2>1. \A i \in 1 .. Len(calls'), k \in DOMAIN nodes :
          F[calls'[i].node] \subseteq F[k] \/ F[calls'[i].node] \cap F[k] = {}
    BY <1>1 DEF Tree, Tiled
  <2>2. \A k, m \in DOMAIN nodes : Bottom(k)' /\ Bottom(m)' /\ k # m => F[k] \cap F[m] = {}
    BY <1>7 DEF Tree, Tiled
  <2>3. \A p \in Positions : \E k \in DOMAIN nodes : Bottom(k)' /\ p \in F[k]
    BY <1>1, <1>7 DEF Tree, Tiled
  <2> QED  BY <1>6, <2>1, <2>2, <2>3 DEF Tiled
<1> QED  BY <1>6, <1>7, <1>8, <1>9, <1>10, <1>11, <1>12 DEF Tree, SameBottoms

-----------------------------------------------------------------------------
(* Where the two scans of an iteration stop.                               *)
ScanLeft == Least({i \in l .. Call.end : i = Call.end \/ ~Below(i, Box)})
ScanRight == Greatest({i \in Call.start - 1 .. r : i < Call.start \/ Below(i, Box)})

(* They stop within the range, or one past its ends, on the right side of  *)
(* the plane, having passed only centroids of the other (bvh.cpp:82-87).   *)
LEMMA ScansStop ==
  ASSUME Build, phase = "split", Call.start \in Nat, Call.end \in Nat
  PROVE  /\ ScanLeft \in l .. Call.end /\ (ScanLeft = Call.end \/ ~Below(ScanLeft, Box))
         /\ \A p \in Call.start .. ScanLeft - 1 : Below(p, Box)
         /\ ScanRight \in Call.start - 1 .. r
         /\ ScanRight < Call.start \/ Below(ScanRight, Box)
         /\ \A p \in ScanRight + 1 .. Call.end - 1 : ~Below(p, Box)
<1> DEFINE S == {i \in l .. Call.end : i = Call.end \/ ~Below(i, Box)}
           T == {i \in Call.start - 1 .. r : i < Call.start \/ Below(i, Box)}
<1>1. /\ l \in Int /\ r \in Int
      /\ Call.start <= l /\ l <= Call.end /\ Call.start - 1 <= r /\ r <= Call.end - 1
      /\ \A p \in Call.start .. l - 1 : Below(p, Box)
      /\ \A p \in r + 1 .. Call.end - 1 : ~Below(p, Box)
  BY DEF Build, Cursors
<1>2. S \in SUBSET Int /\ Call.end \in S /\ IsFiniteSet(S)
  <2>1. IsFiniteSet(l .. Call.end)
    <3>1. l \in Int /\ Call.end \in Int /\ Call.start - 1 \in Int /\ r \in Int
      BY <1>1
    <3> QED  BY <3>1, FS_Interval, Zenon
  <2>2. S \in SUBSET (l .. Call.end) /\ S \in SUBSET Int
    BY <1>1
  <2>3. Call.end \in S
    BY <1>1
  <2> HIDE DEF S
  <2>4. IsFiniteSet(S)
    BY <2>1, <2>2, FS_Subset, Zenon
  <2> QED  BY <2>2, <2>3, <2>4
<1>3. T \in SUBSET Int /\ Call.start - 1 \in T /\ IsFiniteSet(T)
  <2>1. IsFiniteSet(Call.start - 1 .. r)
    <3>1. l \in Int /\ Call.end \in Int /\ Call.start - 1 \in Int /\ r \in Int
      BY <1>1
    <3> QED  BY <3>1, FS_Interval, Zenon
  <2>2. T \in SUBSET (Call.start - 1 .. r) /\ T \in SUBSET Int
    BY <1>1
  <2>3. Call.start - 1 \in T
    BY <1>1
  <2> HIDE DEF T
  <2>4. IsFiniteSet(T)
    BY <2>1, <2>2, FS_Subset, Zenon
  <2> QED  BY <2>2, <2>3, <2>4
<1>4. ScanLeft = Least(S) /\ ScanRight = Greatest(T)
  BY DEF ScanLeft, ScanRight
<1> HIDE DEF S, T
<1>5. ScanLeft \in S /\ \A i \in S : ScanLeft <= i
  BY <1>2, <1>4, LeastExists
<1>6. ScanRight \in T /\ \A i \in T : ScanRight >= i
  BY <1>3, <1>4, GreatestExists
<1>7. ASSUME NEW p \in Call.start .. ScanLeft - 1  PROVE Below(p, Box)
  <2>1. ScanLeft \in l .. Call.end
    BY <1>5 DEF S
  <2>2. CASE p < l
    BY <1>1, <2>2
  <2>3. CASE p >= l
    <3>1. p \in l .. Call.end /\ ~(ScanLeft <= p) /\ p # Call.end
      BY <1>1, <2>1, <2>3
    <3>2. p \notin S
      BY <1>5, <3>1
    <3> QED  BY <3>1, <3>2 DEF S
  <2> QED  BY <1>1, <2>2, <2>3
<1>8. ASSUME NEW p \in ScanRight + 1 .. Call.end - 1  PROVE ~Below(p, Box)
  <2>1. ScanRight \in Call.start - 1 .. r
    BY <1>6 DEF T
  <2>2. CASE p > r
    BY <1>1, <2>2
  <2>3. CASE p <= r
    <3>1. p \in Call.start - 1 .. r /\ ~(ScanRight >= p)
      BY <1>1, <2>1, <2>3
    <3>2. p \notin T
      BY <1>6, <3>1
    <3> QED  BY <3>1, <3>2 DEF T
  <2> QED  BY <1>1, <2>1, <2>2, <2>3
<1> QED  BY <1>5, <1>6, <1>7, <1>8 DEF S, T

(* An iteration either leaves the arrays, the scans having crossed, or     *)
(* exchanges two different positions of the range, one of each side.       *)
LEMMA ScanCases ==
  ASSUME Build, NEW F, Tree(F), Scan
  PROVE  /\ phase = "split" /\ calls # <<>> /\ UNCHANGED <<mesh, nodes, phase, calls, query>>
         /\ \/ /\ l' = ScanLeft /\ r' = ScanRight
               /\ order' = order /\ centroid' = centroid
            \/ /\ l' = ScanLeft + 1 /\ r' = ScanRight - 1
               /\ ScanLeft < ScanRight
               /\ ScanLeft \in Call.start .. Call.end - 1
               /\ ScanRight \in Call.start .. Call.end - 1
               /\ ~Below(ScanLeft, Box) /\ Below(ScanRight, Box)
               /\ order' = Swap(order, ScanLeft, ScanRight)
               /\ centroid' = Swap(centroid, ScanLeft, ScanRight)
<1>1. /\ phase = "split" /\ calls # <<>> /\ UNCHANGED <<mesh, nodes, phase, calls, query>>
      /\ IF ScanLeft > ScanRight
           THEN /\ l' = ScanLeft /\ r' = ScanRight
                /\ UNCHANGED <<order, centroid>>
           ELSE /\ l' = ScanLeft + 1 /\ r' = ScanRight - 1
                /\ order' = Swap(order, ScanLeft, ScanRight)
                /\ centroid' = Swap(centroid, ScanLeft, ScanRight)
  BY DEF Scan, ScanLeft, ScanRight, Build, Stack
<1>2. Call.start \in Nat /\ Call.end \in Nat
  BY <1>1, RunningCall
<1>3. /\ ScanLeft \in l .. Call.end /\ (ScanLeft = Call.end \/ ~Below(ScanLeft, Box))
      /\ ScanRight \in Call.start - 1 .. r
      /\ ScanRight < Call.start \/ Below(ScanRight, Box)
  BY <1>1, <1>2, ScansStop
<1>4. /\ l \in Int /\ r \in Int
      /\ Call.start <= l /\ l <= Call.end /\ Call.start - 1 <= r /\ r <= Call.end - 1
  BY <1>1 DEF Build, Cursors
<1>5. CASE ScanLeft > ScanRight
  BY <1>1, <1>5
<1>6. CASE ~(ScanLeft > ScanRight)
  <2>1. /\ ScanLeft \in Call.start .. Call.end - 1 /\ ScanRight \in Call.start .. Call.end - 1
        /\ ScanLeft # Call.end /\ ~(ScanRight < Call.start)
    BY <1>2, <1>3, <1>4, <1>6
  <2>2. ~Below(ScanLeft, Box) /\ Below(ScanRight, Box)
    BY <1>3, <2>1
  <2>3. ScanLeft < ScanRight
    <3>1. ScanLeft # ScanRight
      BY <2>2
    <3> QED  BY <1>2, <1>6, <2>1, <3>1
  <2> QED  BY <1>1, <1>6, <2>1, <2>2, <2>3
<1> QED  BY <1>5, <1>6, <1>1

(* Exchanging two positions keeps the permutation.                         *)
LEMMA SwapArrays ==
  ASSUME Arrays, NEW x \in Positions, NEW y \in Positions,
         mesh' = mesh, order' = Swap(order, x, y), centroid' = Swap(centroid, x, y)
  PROVE  /\ Arrays'
         /\ order'[x] = order[y] /\ order'[y] = order[x]
         /\ \A p \in Positions \ {x, y} : order'[p] = order[p]
<1>1. order' \in [Positions -> Positions] /\ centroid' = order'
  BY DEF Arrays, Swap
<1>2. /\ order'[x] = order[y] /\ order'[y] = order[x]
      /\ \A p \in Positions \ {x, y} : order'[p] = order[p]
  BY DEF Arrays, Swap
<1>3. \A i, k \in Positions : order'[i] = order'[k] => i = k
  BY <1>2 DEF Arrays
<1>4. ASSUME NEW f \in Positions  PROVE \E i \in Positions : order'[i] = f
  <2>1. PICK i \in Positions : order[i] = f
    BY DEF Arrays
  <2> QED  BY <1>2, <2>1
<1> QED  BY <1>1, <1>2, <1>3, <1>4 DEF Arrays

(* Sides of the plane follow the centroids.                                *)
LEMMA BelowFollows ==
  ASSUME mesh' = mesh, nodes' = nodes, calls' = calls, NEW p, NEW q, centroid'[p] = centroid[q]
  PROVE  Below(p, Box)' <=> Below(q, Box)
BY DEF Below, Box, Call, LongestAxis

(* No node loses or gains a face in an exchange within the running range:  *)
(* that range lies within its positions or beside them.                    *)
LEMMA SwapWithin ==
  ASSUME Build, NEW F, Tree(F), calls # <<>>, NEW k \in DOMAIN nodes,
         NEW x \in Call.start .. Call.end - 1, NEW y \in Call.start .. Call.end - 1,
         order'[x] = order[y], order'[y] = order[x],
         \A p \in Positions \ {x, y} : order'[p] = order[p]
  PROVE  {order'[p] : p \in F[k]} = {order[p] : p \in F[k]}
<1>1. /\ F[Call.node] = Call.start .. Call.end - 1
      /\ Call = calls[1] /\ 1 \in 1 .. Len(calls)
      /\ Call.start .. Call.end - 1 \subseteq Positions
  BY RunningCall
<1>2. F[k] \subseteq Positions
  BY DEF Tree, Shape
<1>3. F[Call.node] \subseteq F[k] \/ F[Call.node] \cap F[k] = {}
  BY <1>1 DEF Tree, Tiled
<1>4. CASE F[Call.node] \subseteq F[k]
  <2>1. x \in F[k] /\ y \in F[k]
    BY <1>1, <1>4
  <2>2. ASSUME NEW p \in F[k]
        PROVE  (\E q \in F[k] : order'[p] = order[q]) /\ (\E q \in F[k] : order[p] = order'[q])
    <3>1. CASE p = x
      BY <2>1, <3>1
    <3>2. CASE p = y
      BY <2>1, <3>2
    <3>3. CASE p \notin {x, y}
      BY <1>2, <3>3
    <3> QED  BY <3>1, <3>2, <3>3
  <2> QED  BY <2>2
<1>5. CASE F[Call.node] \cap F[k] = {}
  <2>1. \A p \in F[k] : order'[p] = order[p]
    BY <1>1, <1>2, <1>5
  <2> QED  BY <2>1
<1> QED  BY <1>3, <1>4, <1>5

(* An iteration of the scans keeps the tree, and what they have passed     *)
(* lies on its side of the plane (bvh.cpp:80-94).                          *)
LEMMA ScanKeeps ==
  ASSUME Build, Query, NEW F, Tree(F), Scan
  PROVE  Build' /\ Query' /\ Tree(F)' /\ Search(F)' /\ SameBottoms
<1>1. /\ phase = "split" /\ calls # <<>> /\ mesh' = mesh /\ nodes' = nodes
      /\ phase' = phase /\ calls' = calls /\ UNCHANGED query
  BY ScanCases
<1>2. /\ Call.start \in Nat /\ Call.end \in Nat /\ Call' = Call
      /\ Call.start < Call.end /\ Call.end <= N
      /\ Call.start .. Call.end - 1 \subseteq Positions
  BY <1>1, RunningCall DEF Call
<1>3. /\ ScanLeft \in l .. Call.end
      /\ \A p \in Call.start .. ScanLeft - 1 : Below(p, Box)
      /\ ScanRight \in Call.start - 1 .. r
      /\ \A p \in ScanRight + 1 .. Call.end - 1 : ~Below(p, Box)
  BY <1>1, <1>2, ScansStop
<1>4. /\ l \in Int /\ r \in Int
      /\ Call.start <= l /\ l <= Call.end /\ Call.start - 1 <= r /\ r <= Call.end - 1
  BY <1>1 DEF Build, Cursors
<1>5. Stack'
  BY <1>1, <1>2 DEF Build, Stack
<1>6. Query' /\ Search(F)'
  BY <1>1 DEF Query, Search, query, Meetings, BoxOf
<1>7. Arrays' /\ Cursors' /\ \A k \in DOMAIN nodes : {order'[p] : p \in F[k]} = {order[p] : p \in F[k]}
  <2>1. CASE l' = ScanLeft /\ r' = ScanRight /\ order' = order /\ centroid' = centroid
    <3>1. Arrays'
      BY <1>1, <2>1 DEF Build, Arrays
    <3>2. \A p : Below(p, Box)' <=> Below(p, Box)
      BY <1>1, <2>1, BelowFollows
    <3>3. /\ l' \in 0 .. N /\ r' \in -1 .. N - 1
          /\ Call.start <= l' /\ l' <= Call.end
          /\ Call.start - 1 <= r' /\ r' <= Call.end - 1
      BY <1>2, <1>3, <1>4, <2>1, MeshAssumption
    <3>4. Cursors'
      BY <1>2, <1>3, <2>1, <3>2, <3>3 DEF Cursors
    <3> QED  BY <2>1, <3>1, <3>4
  <2>2. CASE /\ l' = ScanLeft + 1 /\ r' = ScanRight - 1
             /\ ScanLeft < ScanRight
             /\ ScanLeft \in Call.start .. Call.end - 1
             /\ ScanRight \in Call.start .. Call.end - 1
             /\ ~Below(ScanLeft, Box) /\ Below(ScanRight, Box)
             /\ order' = Swap(order, ScanLeft, ScanRight)
             /\ centroid' = Swap(centroid, ScanLeft, ScanRight)
    <3> DEFINE x == ScanLeft
               y == ScanRight
    <3>1. x \in Positions /\ y \in Positions
      BY <1>2, <2>2
    <3>2. /\ Arrays'
          /\ order'[x] = order[y] /\ order'[y] = order[x]
          /\ \A p \in Positions \ {x, y} : order'[p] = order[p]
      BY <1>1, <2>2, <3>1, SwapArrays DEF Build
    <3>3. centroid' = order' /\ centroid = order
      BY <3>2 DEF Build, Arrays
    <3> HIDE DEF x, y
    <3>4. /\ l' = x + 1 /\ r' = y - 1 /\ x < y
          /\ x \in Call.start .. Call.end - 1 /\ y \in Call.start .. Call.end - 1
          /\ ~Below(x, Box) /\ Below(y, Box)
      BY <2>2 DEF x, y
    <3>5. \A k \in DOMAIN nodes : {order'[p] : p \in F[k]} = {order[p] : p \in F[k]}
      BY <1>1, <3>2, <3>4, SwapWithin
    <3>6. ASSUME NEW p \in Call.start .. l' - 1  PROVE Below(p, Box)'
      <4>1. CASE p = x
        BY <1>1, <3>2, <3>3, <3>4, <4>1, BelowFollows
      <4>2. CASE p # x
        <5>1. p \in Call.start .. x - 1 /\ p \in Positions \ {x, y}
          BY <1>2, <3>4, <4>2
        <5>2. Below(p, Box) /\ centroid'[p] = centroid[p]
          BY <1>3, <3>2, <3>3, <5>1 DEF x
        <5> QED  BY <1>1, <5>2, BelowFollows
      <4> QED  BY <4>1, <4>2
    <3>7. ASSUME NEW p \in r' + 1 .. Call.end - 1  PROVE ~Below(p, Box)'
      <4>1. CASE p = y
        BY <1>1, <3>2, <3>3, <3>4, <4>1, BelowFollows
      <4>2. CASE p # y
        <5>1. p \in y + 1 .. Call.end - 1 /\ p \in Positions \ {x, y}
          BY <1>2, <3>4, <4>2
        <5>2. ~Below(p, Box) /\ centroid'[p] = centroid[p]
          BY <1>3, <3>2, <3>3, <5>1 DEF y
        <5> QED  BY <1>1, <5>2, BelowFollows
      <4> QED  BY <4>1, <4>2
    <3>8. /\ l' \in 0 .. N /\ r' \in -1 .. N - 1
          /\ Call.start <= l' /\ l' <= Call.end
          /\ Call.start - 1 <= r' /\ r' <= Call.end - 1
      BY <1>2, <3>4, MeshAssumption
    <3>9. Cursors'
      BY <1>2, <3>6, <3>7, <3>8 DEF Cursors
    <3> QED  BY <3>2, <3>5, <3>9
  <2> QED  BY <2>1, <2>2, ScanCases
<1>8. Build'
  BY <1>5, <1>7 DEF Build
<1>9. Shape(F)'
  BY <1>1 DEF Tree, Shape
<1>10. \A k \in DOMAIN nodes :
         /\ Pending(k)' <=> Pending(k)
         /\ Bottom(k)' <=> Bottom(k)
         /\ Boxed(k)' <=> Boxed(k)
  BY <1>1, <1>2 DEF Pending, Bottom, Boxed
<1>11. Family(F)'
  <2>1. \A k \in DOMAIN nodes :
          BoxOf({order[p] : p \in F[k]})' = BoxOf({order[p] : p \in F[k]})
    <3>1. \A S : BoxOf(S)' = BoxOf(S)
      BY <1>1 DEF BoxOf
    <3>2. \A k \in DOMAIN nodes : {order'[p] : p \in F[k]} = {order[p] : p \in F[k]}
      BY <1>7
    <3> QED  BY <3>1, <3>2
  <2> QED  BY <1>1, <1>10, <2>1 DEF Tree, Family
<1>12. Tiled(F)'
  BY <1>1, <1>10 DEF Tree, Tiled
<1> QED  BY <1>1, <1>6, <1>8, <1>9, <1>10, <1>11, <1>12 DEF Tree, SameBottoms

-----------------------------------------------------------------------------
(* Where the scans have ended, however they have met or crossed, the       *)
(* middle that split returns has the two sides of the plane on its two     *)
(* sides, unless it is found fruitless (bvh.cpp:95-96, 203).               *)
LEMMA MiddleDivides ==
  ASSUME Build, NEW F, Tree(F), phase = "split", l >= r, NEW mid \in Middles, ~Fruitless(mid)
  PROVE  /\ mid \in Call.start + 1 .. Call.end - 1
         /\ \A p \in Call.start .. mid - 1 : Below(p, Box)
         /\ \A p \in mid .. Call.end - 1 : ~Below(p, Box)
<1>1. /\ l \in Int /\ r \in Int
      /\ Call.start <= l /\ l <= Call.end /\ Call.start - 1 <= r /\ r <= Call.end - 1
      /\ \A p \in Call.start .. l - 1 : Below(p, Box)
      /\ \A p \in r + 1 .. Call.end - 1 : ~Below(p, Box)
  BY DEF Build, Cursors
<1>2. Call.start \in Nat /\ Call.end \in Nat /\ Call.end <= N
  BY RunningCall DEF Build, Stack
<1>3. PICK b \in (IF l < N THEN {Below(l, Box)} ELSE BOOLEAN) : mid = IF b THEN l + 1 ELSE l
  BY DEF Middles
<1>4. mid # Call.start /\ ~(mid >= Call.end)
  BY DEF Fruitless
<1>5. mid \in {l, l + 1}
  BY <1>3
<1>6. l < Call.end
  BY <1>1, <1>2, <1>4, <1>5
<1>7. l < N
  BY <1>1, <1>2, <1>6, MeshAssumption
<1>8. b = Below(l, Box)
  BY <1>3, <1>7
<1>9. mid \in Call.start + 1 .. Call.end - 1
  BY <1>1, <1>2, <1>4, <1>5
<1>10. CASE Below(l, Box)
  <2>1. mid = l + 1
    BY <1>3, <1>8, <1>10
  <2>2. l = r
    <3>1. SUFFICES ASSUME l > r  PROVE FALSE
      BY <1>1
    <3>2. l \in r + 1 .. Call.end - 1
      BY <1>1, <1>2, <1>6, <3>1
    <3> QED  BY <1>1, <1>10, <3>2
  <2>3. ASSUME NEW p \in Call.start .. mid - 1  PROVE Below(p, Box)
    <3>1. p = l \/ p \in Call.start .. l - 1
      BY <1>1, <1>2, <2>1
    <3> QED  BY <1>1, <1>10, <3>1
  <2>4. mid = r + 1
    BY <2>1, <2>2
  <2> QED  BY <1>1, <1>9, <2>3, <2>4
<1>11. CASE ~Below(l, Box)
  <2>1. mid = l
    BY <1>3, <1>8, <1>11
  <2>2. ASSUME NEW p \in mid .. Call.end - 1  PROVE ~Below(p, Box)
    <3>1. p = l \/ p \in r + 1 .. Call.end - 1
      BY <1>1, <1>2, <2>1
    <3> QED  BY <1>1, <1>11, <3>1
  <2> QED  BY <1>1, <1>9, <2>1, <2>2
<1> QED  BY <1>10, <1>11

(* What Divide does to the nodes and the stack.                            *)
Divided(mid, K) ==
  /\ nodes' = [i \in 0 .. K + 1 |->
                 IF i >= K THEN NewNode
                 ELSE IF i = Call.node THEN [nodes[i] EXCEPT !.first = K] ELSE nodes[i]]
  /\ calls' = <<[node |-> K, start |-> Call.start, end |-> mid, level |-> Call.level + 1],
                [node |-> K + 1, start |-> mid, end |-> Call.end, level |-> Call.level + 1]>>
              \o Tail(calls)

(* Divide is a division at a middle that is not fruitless.                 *)
LEMMA DivideCases ==
  ASSUME Build, Divide
  PROVE  \E K \in Nat \ {0}, mid \in Middles :
           /\ DOMAIN nodes = 0 .. K - 1
           /\ phase = "split" /\ l >= r /\ ~Fruitless(mid) /\ Divided(mid, K)
<1>1. PICK K \in Nat \ {0} :
        nodes \in [0 .. K - 1 -> [box : Boxes, leaf : BOOLEAN, first : Nat, count : Nat]]
  BY DEF Build, Stack
<1>2. DOMAIN nodes = 0 .. K - 1
  BY <1>1
<1>3. Cardinality(DOMAIN nodes) = K
  <2>1. 0 \in Int /\ K - 1 \in Int
    OBVIOUS
  <2>2. Cardinality(0 .. K - 1) = IF 0 > K - 1 THEN 0 ELSE (K - 1) - 0 + 1
    BY <2>1, FS_Interval, Zenon
  <2> QED  BY <1>2, <2>2
<1>4. PICK mid \in Middles : ~Fruitless(mid) /\ Divided(mid, K)
  BY <1>3 DEF Divide, Divided
<1> QED  BY <1>2, <1>4 DEF Divide

(* The stack and the nodes after a division, one by one.                   *)
LEMMA DividedStack ==
  ASSUME Build, NEW F, Tree(F), calls # <<>>, Call.level < MaxDepth,
         NEW K \in Nat \ {0}, DOMAIN nodes = 0 .. K - 1,
         NEW mid \in Call.start + 1 .. Call.end - 1, Divided(mid, K)
  PROVE  /\ Len(calls') = Len(calls) + 1
         /\ calls'[1] = [node |-> K, start |-> Call.start, end |-> mid, level |-> Call.level + 1]
         /\ calls'[2] = [node |-> K + 1, start |-> mid, end |-> Call.end, level |-> Call.level + 1]
         /\ \A i \in 1 .. Len(calls') : i > 2 =>
              i - 1 \in 1 .. Len(calls) /\ i - 1 # 1 /\ calls'[i] = calls[i - 1]
         /\ \A i \in 1 .. Len(calls) : i # 1 =>
              i + 1 \in 1 .. Len(calls') /\ calls'[i + 1] = calls[i]
         /\ calls' \in Seq([node : 0 .. K + 1, start : Nat, end : Nat, level : 0 .. MaxDepth])
<1> DEFINE Record == [node : 0 .. K + 1, start : Nat, end : Nat, level : 0 .. MaxDepth]
           a == [node |-> K, start |-> Call.start, end |-> mid, level |-> Call.level + 1]
           b == [node |-> K + 1, start |-> mid, end |-> Call.end, level |-> Call.level + 1]
<1>1. /\ Len(calls) \in Nat /\ 1 \in 1 .. Len(calls)
      /\ Call.start \in Nat /\ Call.end \in Nat /\ Call.level \in 0 .. MaxDepth
  BY RunningCall
<1>2. a \in Record /\ b \in Record
  BY <1>1, MeshAssumption
<1>3. calls \in Seq(Record)
  <2> DEFINE Before == [node : 0 .. K - 1, start : Nat, end : Nat, level : 0 .. MaxDepth]
  <2>1. calls \in Seq(Before)
    BY DEF Build, Stack
  <2>2. Before \subseteq Record
    OBVIOUS
  <2> HIDE DEF Before, Record
  <2> QED  BY <2>1, <2>2
<1>4. calls' = <<a, b>> \o Tail(calls)
  BY DEF Divided
<1> HIDE DEF Record, a, b
<1>5. <<a, b>> \in Seq(Record) /\ Len(<<a, b>>) = 2 /\ <<a, b>>[1] = a /\ <<a, b>>[2] = b
  BY <1>2
<1>6. /\ Tail(calls) \in Seq(Record) /\ Len(Tail(calls)) = Len(calls) - 1
      /\ \A i \in 1 .. Len(calls) - 1 : Tail(calls)[i] = calls[i + 1]
  BY <1>1, <1>3
<1>7. /\ calls' \in Seq(Record) /\ Len(calls') = Len(calls) + 1
      /\ calls'[1] = a /\ calls'[2] = b
      /\ \A i \in 1 .. Len(calls') : i > 2 => calls'[i] = Tail(calls)[i - 2]
  BY <1>1, <1>4, <1>5, <1>6
<1>8. ASSUME NEW i \in 1 .. Len(calls'), i > 2
      PROVE  i - 1 \in 1 .. Len(calls) /\ i - 1 # 1 /\ calls'[i] = calls[i - 1]
  <2>1. i - 2 \in 1 .. Len(calls) - 1 /\ (i - 2) + 1 = i - 1
    BY <1>1, <1>7, <1>8
  <2> QED  BY <1>1, <1>6, <1>7, <1>8, <2>1
<1>9. ASSUME NEW i \in 1 .. Len(calls), i # 1
      PROVE  i + 1 \in 1 .. Len(calls') /\ calls'[i + 1] = calls[i]
  <2>1. i + 1 \in 1 .. Len(calls') /\ i + 1 > 2 /\ (i + 1) - 1 = i
    BY <1>1, <1>7, <1>9
  <2> QED  BY <1>8, <2>1
<1> QED  BY <1>7, <1>8, <1>9 DEF Record, a, b

(* The nodes after a division: the two new ones are pending, their parent  *)
(* no longer is, the others are as before.                                 *)
LEMMA DividedNodes ==
  ASSUME Build, NEW F, Tree(F), phase = "split", phase' = "build",
         calls # <<>>, Call.level < MaxDepth,
         NEW K \in Nat \ {0}, DOMAIN nodes = 0 .. K - 1,
         NEW mid \in Call.start + 1 .. Call.end - 1, Divided(mid, K)
  PROVE  /\ nodes' \in [0 .. K + 1 -> [box : Boxes, leaf : BOOLEAN, first : Nat, count : Nat]]
         /\ ~nodes'[K].leaf /\ ~nodes'[K + 1].leaf
         /\ nodes'[Call.node].first = K
         /\ \A k \in 0 .. K - 1 :
              /\ nodes'[k].leaf = nodes[k].leaf /\ nodes'[k].box = nodes[k].box
              /\ k # Call.node => nodes'[k] = nodes[k]
         /\ Pending(K)' /\ Pending(K + 1)'
         /\ \A k \in 0 .. K - 1 : Pending(k)' <=> Pending(k) /\ k # Call.node
         /\ \A k \in 0 .. K - 1 : Bottom(k)' <=> Bottom(k) /\ k # Call.node
<1> DEFINE Record == [box : Boxes, leaf : BOOLEAN, first : Nat, count : Nat]
           n == Call.node
<1>1. /\ Len(calls) \in Nat /\ 1 \in 1 .. Len(calls) /\ Call = calls[1]
      /\ n \in 0 .. K - 1 /\ ~nodes[n].leaf /\ Pending(n)
  BY RunningCall
<1>2. nodes \in [0 .. K - 1 -> Record]
  BY DEF Build, Stack
<1>3. NewNode \in Record /\ ~NewNode.leaf
  <2>1. EmptyBox \in Boxes
    BY DEF EmptyBox, Boxes, Axes, Infinity
  <2> QED  BY <2>1 DEF NewNode
<1>4. /\ [nodes[n] EXCEPT !.first = K] \in Record
      /\ [nodes[n] EXCEPT !.first = K].first = K
      /\ [nodes[n] EXCEPT !.first = K].leaf = nodes[n].leaf
      /\ [nodes[n] EXCEPT !.first = K].box = nodes[n].box
  <2>1. nodes[n] \in Record
    BY <1>1, <1>2
  <2> QED  BY <2>1
<1> HIDE DEF Record
<1>5. /\ DOMAIN nodes' = 0 .. K + 1 /\ nodes'[K] = NewNode /\ nodes'[K + 1] = NewNode
      /\ nodes'[n] = [nodes[n] EXCEPT !.first = K]
      /\ \A k \in 0 .. K - 1 : k # n => nodes'[k] = nodes[k]
      /\ nodes' \in [0 .. K + 1 -> Record]
  <2>1. nodes' = [i \in 0 .. K + 1 |->
                   IF i >= K THEN NewNode
                   ELSE IF i = n THEN [nodes[n] EXCEPT !.first = K] ELSE nodes[i]]
    BY DEF Divided
  <2> DEFINE changed == [nodes[n] EXCEPT !.first = K]
  <2>2. changed \in Record
    BY <1>4
  <2> HIDE DEF changed
  <2>3. /\ DOMAIN nodes' = 0 .. K + 1 /\ nodes'[K] = NewNode /\ nodes'[K + 1] = NewNode
        /\ nodes'[n] = changed
        /\ \A k \in 0 .. K - 1 : k # n => nodes'[k] = nodes[k]
    BY <1>1, <2>1 DEF changed
  <2>4. nodes' \in [0 .. K + 1 -> Record]
    <3>1. nodes' = [i \in 0 .. K + 1 |->
                     IF i >= K THEN NewNode ELSE IF i = n THEN changed ELSE nodes[i]]
      BY <2>1 DEF changed
    <3>2. \A i \in 0 .. K + 1 :
            (IF i >= K THEN NewNode ELSE IF i = n THEN changed ELSE nodes[i]) \in Record
      <4>1. \A i \in 0 .. K + 1 : ~(i >= K) => nodes[i] \in Record
        BY <1>2
      <4> QED  BY <1>3, <2>2, <4>1
    <3> QED  BY <3>1, <3>2
  <2> QED  BY <2>3, <2>4 DEF changed
<1>6. /\ Len(calls') = Len(calls) + 1
      /\ calls'[1].node = K /\ calls'[2].node = K + 1
      /\ \A i \in 1 .. Len(calls') : i > 2 =>
           i - 1 \in 1 .. Len(calls) /\ i - 1 # 1 /\ calls'[i] = calls[i - 1]
      /\ \A i \in 1 .. Len(calls) : i # 1 =>
           i + 1 \in 1 .. Len(calls') /\ calls'[i + 1] = calls[i]
  <2> DEFINE a == [node |-> K, start |-> Call.start, end |-> mid, level |-> Call.level + 1]
             b == [node |-> K + 1, start |-> mid, end |-> Call.end, level |-> Call.level + 1]
  <2>1. a.node = K /\ b.node = K + 1
    OBVIOUS
  <2>2. /\ Len(calls') = Len(calls) + 1
        /\ calls'[1] = a /\ calls'[2] = b
        /\ \A i \in 1 .. Len(calls') : i > 2 =>
             i - 1 \in 1 .. Len(calls) /\ i - 1 # 1 /\ calls'[i] = calls[i - 1]
        /\ \A i \in 1 .. Len(calls) : i # 1 =>
             i + 1 \in 1 .. Len(calls') /\ calls'[i + 1] = calls[i]
    BY DividedStack, Zenon
  <2> HIDE DEF a, b
  <2> QED  BY <2>1, <2>2
<1>7. Pending(K)' /\ Pending(K + 1)'
  <2>1. 1 \in 1 .. Len(calls') /\ 2 \in 1 .. Len(calls')
    BY <1>1, <1>6
  <2> QED  BY <1>6, <2>1 DEF Pending
<1>8. ASSUME NEW k \in 0 .. K - 1  PROVE Pending(k)' <=> Pending(k) /\ k # n
  <2>1. ASSUME Pending(k)'  PROVE Pending(k) /\ k # n
    <3>1. PICK i \in 1 .. Len(calls') : calls'[i].node = k
      BY <2>1 DEF Pending
    <3>2. i > 2
      BY <1>1, <1>6, <3>1
    <3>3. i - 1 \in 1 .. Len(calls) /\ i - 1 # 1 /\ calls[i - 1].node = k
      BY <1>6, <3>1, <3>2
    <3>4. k # n
      BY <1>1, <3>3 DEF Tree, Shape
    <3> QED  BY <3>3, <3>4 DEF Pending
  <2>2. ASSUME Pending(k), k # n  PROVE Pending(k)'
    <3>1. PICK i \in 1 .. Len(calls) : calls[i].node = k
      BY <2>2 DEF Pending
    <3>2. i + 1 \in 1 .. Len(calls') /\ calls'[i + 1].node = k
      BY <1>1, <1>6, <2>2, <3>1
    <3> QED  BY <3>2 DEF Pending
  <2> QED  BY <2>1, <2>2
<1>9. ASSUME NEW k \in 0 .. K - 1
      PROVE  /\ nodes'[k].leaf = nodes[k].leaf /\ nodes'[k].box = nodes[k].box
             /\ k # n => nodes'[k] = nodes[k]
  BY <1>4, <1>5
<1>10. \A k \in 0 .. K - 1 : Bottom(k)' <=> Bottom(k) /\ k # n
  BY <1>1, <1>8, <1>9 DEF Bottom
<1> QED  BY <1>3, <1>4, <1>5, <1>7, <1>8, <1>9, <1>10 DEF Record

(* Dividing keeps the tree: the two new nodes have the two parts of the    *)
(* range of their parent, which is done (bvh.cpp:213-219).                 *)
LEMMA DivideKeeps ==
  ASSUME Build, Query, NEW F, Tree(F), Divide
  PROVE  Build' /\ Query' /\ \E G : Tree(G)' /\ Search(G)'
<1>1. PICK K \in Nat \ {0}, mid \in Middles :
        /\ DOMAIN nodes = 0 .. K - 1
        /\ phase = "split" /\ l >= r /\ ~Fruitless(mid) /\ Divided(mid, K)
  BY DivideCases
<1>2. /\ phase' = "build" /\ mesh' = mesh /\ order' = order /\ centroid' = centroid
      /\ l' = l /\ r' = r /\ UNCHANGED query
  BY DEF Divide
<1>3. calls # <<>> /\ Call.level < MaxDepth
  BY <1>1 DEF Build, Stack
<1>4. mid \in Call.start + 1 .. Call.end - 1
  BY <1>1, MiddleDivides
<1> DEFINE n == Call.node
           left == Call.start .. mid - 1
           right == mid .. Call.end - 1
           parts == [k \in 0 .. K + 1 |->
                       IF k = K THEN left ELSE IF k = K + 1 THEN right ELSE F[k]]
<1>0. PICK G : G = parts
  OBVIOUS
<1>5. /\ Len(calls) \in Nat /\ 1 \in 1 .. Len(calls) /\ Call = calls[1]
      /\ n \in 0 .. K - 1 /\ Pending(n) /\ Bottom(n) /\ ~nodes[n].leaf
      /\ Call.start \in Nat /\ Call.end \in Nat /\ Call.end <= N
      /\ F[n] = Call.start .. Call.end - 1
  BY <1>1, <1>3, RunningCall DEF Bottom
<1>6. /\ F[n] = left \cup right /\ left \cap right = {} /\ left # {} /\ right # {}
      /\ left \subseteq Positions /\ right \subseteq Positions
  <2>1. Call.start \in left /\ mid \in right
    BY <1>4, <1>5
  <2>2. F[n] = left \cup right /\ left \cap right = {}
    BY <1>4, <1>5
  <2>3. F[n] \subseteq Positions
    BY <1>1, <1>3, RunningCall
  <2> HIDE DEF left, right
  <2> QED  BY <2>1, <2>2, <2>3
<1>7. /\ DOMAIN nodes' = 0 .. K + 1
      /\ nodes' \in [0 .. K + 1 -> [box : Boxes, leaf : BOOLEAN, first : Nat, count : Nat]]
      /\ ~nodes'[K].leaf /\ ~nodes'[K + 1].leaf
      /\ nodes'[n].first = K
      /\ \A k \in 0 .. K - 1 :
           /\ nodes'[k].leaf = nodes[k].leaf /\ nodes'[k].box = nodes[k].box
           /\ k # n => nodes'[k] = nodes[k]
      /\ Pending(K)' /\ Pending(K + 1)'
      /\ \A k \in 0 .. K - 1 : Pending(k)' <=> Pending(k) /\ k # n
      /\ \A k \in 0 .. K - 1 : Bottom(k)' <=> Bottom(k) /\ k # n
  <2>1. /\ nodes' \in [0 .. K + 1 -> [box : Boxes, leaf : BOOLEAN, first : Nat, count : Nat]]
        /\ ~nodes'[K].leaf /\ ~nodes'[K + 1].leaf
        /\ nodes'[n].first = K
        /\ \A k \in 0 .. K - 1 :
             /\ nodes'[k].leaf = nodes[k].leaf /\ nodes'[k].box = nodes[k].box
             /\ k # n => nodes'[k] = nodes[k]
        /\ Pending(K)' /\ Pending(K + 1)'
        /\ \A k \in 0 .. K - 1 : Pending(k)' <=> Pending(k) /\ k # n
        /\ \A k \in 0 .. K - 1 : Bottom(k)' <=> Bottom(k) /\ k # n
    BY <1>1, <1>2, <1>3, <1>4, DividedNodes, Zenon
  <2>2. DOMAIN nodes' = 0 .. K + 1
    BY <2>1
  <2> QED  BY <2>1, <2>2
<1>8. /\ Len(calls') = Len(calls) + 1
      /\ calls'[1] = [node |-> K, start |-> Call.start, end |-> mid, level |-> Call.level + 1]
      /\ calls'[2] = [node |-> K + 1, start |-> mid, end |-> Call.end, level |-> Call.level + 1]
      /\ \A i \in 1 .. Len(calls') : i > 2 =>
           i - 1 \in 1 .. Len(calls) /\ i - 1 # 1 /\ calls'[i] = calls[i - 1]
      /\ calls' \in Seq([node : 0 .. K + 1, start : Nat, end : Nat, level : 0 .. MaxDepth])
  BY <1>1, <1>3, <1>4, DividedStack, Zenon
<1>9. /\ calls'[1].node = K /\ calls'[1].start = Call.start /\ calls'[1].end = mid
      /\ calls'[2].node = K + 1 /\ calls'[2].start = mid /\ calls'[2].end = Call.end
  BY <1>8
<1>10. \A i \in 1 .. Len(calls') :
         i = 1 \/ i = 2 \/ /\ i > 2 /\ i - 1 \in 1 .. Len(calls) /\ i - 1 # 1
                           /\ calls'[i] = calls[i - 1]
  <2>1. Len(calls') \in Nat
    BY <1>5, <1>8
  <2>2. \A i \in 1 .. Len(calls') : i > 2 =>
          i - 1 \in 1 .. Len(calls) /\ i - 1 # 1 /\ calls'[i] = calls[i - 1]
    BY <1>8
  <2>3. \A i \in 1 .. Len(calls') : i = 1 \/ i = 2 \/ i > 2
    BY <2>1
  <2> QED  BY <2>2, <2>3
<1>11. \A i \in 1 .. Len(calls) :
         /\ calls[i].node \in 0 .. K - 1 /\ Bottom(calls[i].node)
         /\ ~nodes[calls[i].node].leaf
         /\ F[calls[i].node] = calls[i].start .. calls[i].end - 1
         /\ calls[i].node = n => i = 1
         /\ \A j \in 1 .. Len(calls) : calls[i].node = calls[j].node => i = j
         /\ calls[i].start < calls[i].end /\ calls[i].end <= N
  <2>1. ASSUME NEW i \in 1 .. Len(calls)  PROVE calls[i].node \in 0 .. K - 1
    BY <1>1, CallsTyped
  <2>2. ASSUME NEW i \in 1 .. Len(calls)  PROVE Bottom(calls[i].node)
    BY DEF Bottom, Pending
  <2> QED  BY <1>5, <2>1, <2>2 DEF Build, Stack, Tree, Shape
<1>12. /\ G = [k \in 0 .. K + 1 |-> G[k]]
       /\ DOMAIN G = 0 .. K + 1 /\ G[K] = left /\ G[K + 1] = right
       /\ \A k \in 0 .. K - 1 : G[k] = F[k]
       /\ \A k \in 0 .. K + 1 : k \in 0 .. K - 1 \/ k = K \/ k = K + 1
       /\ \A k \in 0 .. K - 1 : k # K /\ k # K + 1 /\ k \in 0 .. K + 1
       /\ K \in 0 .. K + 1 /\ K + 1 \in 0 .. K + 1 /\ K # K + 1 /\ 0 \in 0 .. K - 1
  <2>1. G = [k \in 0 .. K + 1 |-> IF k = K THEN left ELSE IF k = K + 1 THEN right ELSE F[k]]
    BY <1>0
  <2>2. G = [k \in 0 .. K + 1 |-> G[k]]
    BY <2>1
  <2> QED  BY <2>1, <2>2
<1>13. /\ F \in [0 .. K - 1 -> SUBSET Positions] /\ F[0] = Positions
       /\ \A k \in 0 .. K - 1 :
            /\ F[k] # {}
            /\ nodes[k].leaf => F[k] = nodes[k].first .. nodes[k].first + nodes[k].count - 1
  BY <1>1 DEF Tree, Shape
<1> HIDE DEF parts, left, right
<1>14. Build'
  <2>1. Arrays'
    BY <1>2 DEF Build, Arrays
  <2>2. Cursors'
    BY <1>2 DEF Build, Cursors
  <2>3. ASSUME NEW i \in 1 .. Len(calls')
        PROVE  calls'[i].start < calls'[i].end /\ calls'[i].end <= N
    <3>1. CASE i = 1
      BY <1>4, <1>5, <1>9, <3>1, MeshAssumption
    <3>2. CASE i = 2
      BY <1>4, <1>5, <1>9, <3>2
    <3>3. CASE i # 1 /\ i # 2
      BY <1>10, <1>11, <3>3
    <3> QED  BY <3>1, <3>2, <3>3
  <2>4. K + 2 \in Nat \ {0} /\ 0 .. (K + 2) - 1 = 0 .. K + 1
    OBVIOUS
  <2>5. \E J \in Nat \ {0} :
          nodes' \in [0 .. J - 1 -> [box : Boxes, leaf : BOOLEAN, first : Nat, count : Nat]]
    <3> DEFINE Record == [box : Boxes, leaf : BOOLEAN, first : Nat, count : Nat]
    <3>1. nodes' \in [0 .. K + 1 -> Record]
      BY <1>7
    <3> HIDE DEF Record
    <3>2. nodes' \in [0 .. (K + 2) - 1 -> Record]
      BY <2>4, <3>1
    <3>3. \E J \in Nat \ {0} : nodes' \in [0 .. J - 1 -> Record]
      BY <2>4, <3>2
    <3> QED  BY <3>3 DEF Record
  <2>6. Boxes' = Boxes
    BY DEF Boxes
  <2>7. Stack'
    BY <1>2, <1>7, <1>8, <2>3, <2>5, <2>6 DEF Stack
  <2> QED  BY <2>1, <2>2, <2>7 DEF Build
<1>15. Shape(G)'
  <2>1. G \in [DOMAIN nodes' -> SUBSET Positions]
    <3>1. \A k \in 0 .. K + 1 : G[k] \in SUBSET Positions
      BY <1>6, <1>12, <1>13
    <3>2. G = [k \in 0 .. K + 1 |-> G[k]]
      BY <1>12
    <3> QED  BY <1>7, <3>1, <3>2
  <2>2. G[0] = Positions
    BY <1>12, <1>13
  <2>3. ASSUME NEW k \in 0 .. K + 1
        PROVE  /\ G[k] # {}
               /\ nodes'[k].leaf => G[k] = nodes'[k].first .. nodes'[k].first + nodes'[k].count - 1
    <3>1. CASE k \in 0 .. K - 1
      BY <1>5, <1>7, <1>12, <1>13, <3>1
    <3>2. CASE k = K \/ k = K + 1
      BY <1>6, <1>7, <1>12, <3>2
    <3> QED  BY <1>12, <3>1, <3>2
  <2>4. ASSUME NEW i \in 1 .. Len(calls')
        PROVE  /\ G[calls'[i].node] = calls'[i].start .. calls'[i].end - 1
               /\ ~nodes'[calls'[i].node].leaf
               /\ \A j \in 1 .. Len(calls') : calls'[i].node = calls'[j].node => i = j
    <3>1. \A j \in 1 .. Len(calls') :
            j # 1 /\ j # 2 => calls'[j].node \in 0 .. K - 1
      BY <1>10, <1>11
    <3>2. CASE i = 1
      BY <1>7, <1>9, <1>12, <3>1, <3>2 DEF left
    <3>3. CASE i = 2
      BY <1>7, <1>9, <1>12, <3>1, <3>3 DEF right
    <3>4. CASE i # 1 /\ i # 2
      <4>1. /\ i - 1 \in 1 .. Len(calls) /\ calls'[i] = calls[i - 1]
            /\ calls'[i].node \in 0 .. K - 1
        BY <1>10, <3>1, <3>4
      <4>2. ASSUME NEW j \in 1 .. Len(calls'), calls'[i].node = calls'[j].node  PROVE i = j
        <5>1. j # 1 /\ j # 2
          BY <1>9, <1>12, <4>1, <4>2
        <5>2. j - 1 \in 1 .. Len(calls) /\ calls'[j] = calls[j - 1]
          BY <1>10, <5>1
        <5>3. i - 1 = j - 1
          BY <1>11, <4>1, <4>2, <5>2
        <5>4. i \in Int /\ j \in Int
          OBVIOUS
        <5> QED  BY <5>3, <5>4
      <4>3. ~nodes'[calls'[i].node].leaf
        <5>1. ~nodes[calls'[i].node].leaf
          BY <1>11, <4>1
        <5> QED  BY <1>7, <4>1, <5>1
      <4>4. G[calls'[i].node] = calls'[i].start .. calls'[i].end - 1
        <5>1. G[calls'[i].node] = F[calls'[i].node]
          BY <1>12, <4>1
        <5>2. F[calls[i - 1].node] = calls[i - 1].start .. calls[i - 1].end - 1
          BY <1>11, <4>1
        <5> QED  BY <4>1, <5>1, <5>2
      <4> QED  BY <4>2, <4>3, <4>4
    <3> QED  BY <3>2, <3>3, <3>4
  <2>5. DOMAIN nodes' = 0 .. K + 1
    BY <1>7
  <2>6. \A k \in DOMAIN nodes' :
          /\ G[k] # {}
          /\ nodes'[k].leaf => G[k] = nodes'[k].first .. nodes'[k].first + nodes'[k].count - 1
    BY <2>3, <2>5
  <2> QED  BY <2>1, <2>2, <2>4, <2>6 DEF Shape
<1>16. Family(G)'
  <2>1. \A S : BoxOf(S)' = BoxOf(S)
    BY <1>2 DEF BoxOf
  <2>2. ASSUME NEW k \in 0 .. K + 1
        PROVE  /\ ~Bottom(k)' =>
                    /\ nodes'[k].first \in 0 .. K + 1 /\ nodes'[k].first + 1 \in 0 .. K + 1
                    /\ G[k] = G[nodes'[k].first] \cup G[nodes'[k].first + 1]
               /\ Boxed(k)' => nodes'[k].box = BoxOf({order[p] : p \in G[k]})
    <3>1. CASE k = K \/ k = K + 1
      BY <1>2, <1>7, <3>1 DEF Bottom, Boxed
    <3>2. CASE k \in 0 .. K - 1
      <4>1. /\ ~Bottom(k) =>
                 /\ nodes[k].first \in 0 .. K - 1 /\ nodes[k].first + 1 \in 0 .. K - 1
                 /\ F[k] = F[nodes[k].first] \cup F[nodes[k].first + 1]
            /\ Boxed(k) => nodes[k].box = BoxOf({order[p] : p \in F[k]})
        BY <1>1, <3>2 DEF Tree, Family
      <4>2. CASE k = n
        <5>1. Boxed(n)
          BY <1>1 DEF Boxed
        <5>2. G[n] = G[K] \cup G[K + 1]
          BY <1>5, <1>6, <1>12
        <5> QED  BY <1>5, <1>7, <1>12, <4>1, <4>2, <5>1, <5>2
      <4>3. CASE k # n
        <5>1. Boxed(k)' => Boxed(k)
          BY <1>2, <1>7, <3>2, <4>3 DEF Boxed
        <5>2. /\ nodes'[k] = nodes[k] /\ G[k] = F[k]
              /\ Bottom(k)' <=> Bottom(k)
              /\ \A m \in 0 .. K - 1 : G[m] = F[m] /\ m \in 0 .. K + 1
          BY <1>7, <1>12, <3>2, <4>3
        <5>3. ASSUME ~Bottom(k)'
              PROVE  /\ nodes'[k].first \in 0 .. K + 1 /\ nodes'[k].first + 1 \in 0 .. K + 1
                     /\ G[k] = G[nodes'[k].first] \cup G[nodes'[k].first + 1]
          BY <4>1, <5>2, <5>3
        <5>4. Boxed(k)' => nodes'[k].box = BoxOf({order[p] : p \in G[k]})
          BY <4>1, <5>1, <5>2
        <5> QED  BY <5>3, <5>4
      <4> QED  BY <4>2, <4>3
    <3> QED  BY <1>12, <3>1, <3>2
  <2>3. DOMAIN nodes' = 0 .. K + 1
    BY <1>7
  <2>4. order' = order
    BY <1>2
  <2>5. ASSUME NEW k \in DOMAIN nodes', ~Bottom(k)'
        PROVE  /\ nodes'[k].first \in DOMAIN nodes' /\ nodes'[k].first + 1 \in DOMAIN nodes'
               /\ G[k] = G[nodes'[k].first] \cup G[nodes'[k].first + 1]
    BY <2>2, <2>3, <2>5
  <2>6. ASSUME NEW k \in DOMAIN nodes', Boxed(k)'
        PROVE  nodes'[k].box = BoxOf({order[p] : p \in G[k]})'
    BY <2>1, <2>2, <2>3, <2>4, <2>6
  <2> QED  BY <2>5, <2>6 DEF Family
<1>17. Tiled(G)'
  <2>1. /\ \A k, m \in 0 .. K - 1 : Bottom(k) /\ Bottom(m) /\ k # m => F[k] \cap F[m] = {}
        /\ \A p \in Positions : \E k \in 0 .. K - 1 : Bottom(k) /\ p \in F[k]
        /\ \A i \in 1 .. Len(calls), k \in 0 .. K - 1 :
             F[calls[i].node] \subseteq F[k] \/ F[calls[i].node] \cap F[k] = {}
    BY <1>1 DEF Tree, Tiled
  <2>2. Bottom(K)' /\ Bottom(K + 1)'
    BY <1>7 DEF Bottom
  <2>3. \A k \in 0 .. K - 1 :
          Bottom(k) /\ k # n => F[k] \cap left = {} /\ F[k] \cap right = {}
    BY <1>5, <1>6, <2>1
  <2>4. ASSUME NEW k \in 0 .. K + 1, NEW m \in 0 .. K + 1, Bottom(k)', Bottom(m)', k # m
        PROVE  G[k] \cap G[m] = {}
    <3>1. CASE k \in 0 .. K - 1 /\ m \in 0 .. K - 1
      BY <1>7, <1>12, <2>1, <2>4, <3>1
    <3>2. CASE k \in 0 .. K - 1 /\ m \notin 0 .. K - 1
      BY <1>7, <1>12, <2>3, <2>4, <3>2
    <3>3. CASE k \notin 0 .. K - 1 /\ m \in 0 .. K - 1
      BY <1>7, <1>12, <2>3, <2>4, <3>3
    <3>4. CASE k \notin 0 .. K - 1 /\ m \notin 0 .. K - 1
      BY <1>6, <1>12, <2>4, <3>4
    <3> QED  BY <3>1, <3>2, <3>3, <3>4
  <2>5. ASSUME NEW p \in Positions  PROVE \E k \in 0 .. K + 1 : Bottom(k)' /\ p \in G[k]
    <3>1. PICK k \in 0 .. K - 1 : Bottom(k) /\ p \in F[k]
      BY <2>1
    <3>2. CASE k = n
      BY <1>6, <1>12, <2>2, <3>1, <3>2
    <3>3. CASE k # n
      BY <1>7, <1>12, <3>1, <3>3
    <3> QED  BY <3>2, <3>3
  <2>6. ASSUME NEW i \in 1 .. Len(calls'), NEW k \in 0 .. K + 1
        PROVE  G[calls'[i].node] \subseteq G[k] \/ G[calls'[i].node] \cap G[k] = {}
    <3>1. CASE i = 1 \/ i = 2
      <4>1. G[calls'[i].node] = left \/ G[calls'[i].node] = right
        BY <1>9, <1>12, <3>1
      <4>2. CASE k \in 0 .. K - 1
        <5>1. F[n] \subseteq F[k] \/ F[n] \cap F[k] = {}
          BY <1>5, <2>1, <4>2
        <5> QED  BY <1>6, <1>12, <4>1, <4>2, <5>1
      <4>3. CASE k \notin 0 .. K - 1
        <5>1. G[k] = left \/ G[k] = right
          BY <1>12, <4>3
        <5> QED  BY <1>6, <4>1, <5>1
      <4> QED  BY <4>2, <4>3
    <3>2. CASE i # 1 /\ i # 2
      <4>1. i - 1 \in 1 .. Len(calls) /\ i - 1 # 1 /\ calls'[i] = calls[i - 1]
        BY <1>10, <3>2
      <4> DEFINE c == calls[i - 1].node
      <4>2. /\ c \in 0 .. K - 1 /\ Bottom(c) /\ c # n /\ G[c] = F[c]
            /\ \A m \in 0 .. K - 1 : F[c] \subseteq F[m] \/ F[c] \cap F[m] = {}
        BY <1>11, <1>12, <2>1, <4>1
      <4>3. calls'[i].node = c
        BY <4>1
      <4> HIDE DEF c
      <4>4. CASE k \in 0 .. K - 1
        BY <1>12, <4>2, <4>3, <4>4
      <4>5. CASE k \notin 0 .. K - 1
        BY <1>12, <2>3, <4>2, <4>3, <4>5
      <4> QED  BY <4>4, <4>5
    <3> QED  BY <3>1, <3>2
  <2>7. DOMAIN nodes' = 0 .. K + 1
    BY <1>7
  <2> QED  BY <2>4, <2>5, <2>6, <2>7 DEF Tiled
<1>18. Query' /\ Search(G)'
  BY <1>1, <1>2 DEF Query, Search, query
<1> QED  BY <1>14, <1>15, <1>16, <1>17, <1>18 DEF Tree

-----------------------------------------------------------------------------
(* The mesh is read in: one node, to which every position belongs.         *)
LEMMA BvhInit == Init => BvhInv
<1> SUFFICES ASSUME Init  PROVE BvhInv
  OBVIOUS
<1>1. PICK F : F = [k \in {0} |-> Positions]
  OBVIOUS
<1>2. F[0] = Positions /\ F \in [{0} -> SUBSET Positions]
  BY <1>1
<1>3. 0 \in Positions /\ Len(<<>>) = 0 /\ 1 .. 0 = {}
  BY MeshAssumption DEF Positions
<1>4. calls = <<>> /\ phase = "start" /\ todo = <<>>
  BY DEF Init
<1>5. /\ NewNode \in [box : Boxes, leaf : BOOLEAN, first : Nat, count : Nat]
      /\ ~NewNode.leaf
  BY DEF NewNode, EmptyBox, Boxes, Axes, Infinity
<1>6. DOMAIN nodes = {0} /\ nodes[0] = NewNode /\ nodes = [i \in {0} |-> NewNode]
  BY DEF Init
<1>7. Arrays
  <2>1. \A i \in Positions : order[i] = i
    BY DEF Init
  <2> QED  BY <2>1 DEF Init, Arrays
<1>8. Stack
  <2> DEFINE Record == [box : Boxes, leaf : BOOLEAN, first : Nat, count : Nat]
  <2>1. NewNode \in Record
    BY <1>5
  <2> HIDE DEF Record
  <2>2. nodes \in [0 .. 1 - 1 -> Record]
    <3>1. 0 .. 1 - 1 = {0}
      OBVIOUS
    <3> QED  BY <1>6, <2>1, <3>1
  <2>3. \E K \in Nat \ {0} : nodes \in [0 .. K - 1 -> Record]
    <3>1. 1 \in Nat \ {0}
      OBVIOUS
    <3> QED  BY <2>2, <3>1
  <2>4. calls \in Seq([node : DOMAIN nodes, start : Nat, end : Nat, level : 0 .. MaxDepth])
    BY <1>4
  <2>5. \A i \in 1 .. Len(calls) : calls[i].start < calls[i].end /\ calls[i].end <= N
    BY <1>3, <1>4
  <2> QED  BY <1>4, <1>5, <1>6, <2>3, <2>4, <2>5 DEF Stack, Record
<1>9. Cursors
  BY <1>4, MeshAssumption DEF Init, Cursors
<1>10. Query
  BY <1>4 DEF Init, Query, Infinity, Never
<1>11. Tree(F)
  <2>1. Shape(F)
    BY <1>2, <1>3, <1>4, <1>5, <1>6 DEF Shape
  <2>2. Family(F)
    BY <1>4 DEF Family
  <2>3. Tiled(F)
    BY <1>3, <1>4, <1>6 DEF Tiled
  <2> QED  BY <2>1, <2>2, <2>3 DEF Tree
<1>12. Search(F)
  BY <1>4 DEF Search
<1> QED  BY <1>7, <1>8, <1>9, <1>10, <1>11, <1>12 DEF BvhInv, Build

(* Before the tree is built there is one node, without calls.              *)
LEMMA Start ==
  ASSUME Build, NEW F, Tree(F), phase = "start"
  PROVE  /\ calls = <<>> /\ DOMAIN nodes = {0} /\ ~nodes[0].leaf
         /\ F[0] = Positions /\ F \in [{0} -> SUBSET Positions]
         /\ 0 \in Positions
         /\ nodes \in [0 .. 1 - 1 -> [box : Boxes, leaf : BOOLEAN, first : Nat, count : Nat]]
<1>1. calls = <<>> /\ DOMAIN nodes = {0} /\ ~nodes[0].leaf
  BY DEF Build, Stack
<1>2. F[0] = Positions /\ F \in [{0} -> SUBSET Positions]
  BY <1>1 DEF Tree, Shape
<1>3. 0 \in Positions
  BY MeshAssumption DEF Positions
<1> DEFINE Record == [box : Boxes, leaf : BOOLEAN, first : Nat, count : Nat]
<1>4. nodes \in [0 .. 1 - 1 -> Record]
  <2>1. PICK K \in Nat \ {0} : nodes \in [0 .. K - 1 -> Record]
    BY DEF Build, Stack
  <2> HIDE DEF Record
  <2>2. DOMAIN nodes = 0 .. K - 1
    BY <2>1
  <2>3. {0} = 0 .. 1 - 1
    OBVIOUS
  <2>4. 0 .. K - 1 = 0 .. 1 - 1
    BY <1>1, <2>2, <2>3
  <2> QED  BY <2>1, <2>4
<1> HIDE DEF Record
<1> QED  BY <1>1, <1>2, <1>3, <1>4 DEF Record

(* A mesh of few faces: the root is a leaf that holds them all             *)
(* (bvh.cpp:11-19).                                                        *)
LEMMA BuildLeafKeeps ==
  ASSUME Build, Query, NEW F, Tree(F), BuildLeaf
  PROVE  Build' /\ Query' /\ Tree(F)' /\ Search(F)'
<1> DEFINE leaf == Leaf(BoxOf(Positions), 0, N)
           Record == [box : Boxes, leaf : BOOLEAN, first : Nat, count : Nat]
<1>1. /\ phase = "start" /\ phase' = "ready" /\ nodes' = [nodes EXCEPT ![0] = leaf]
      /\ mesh' = mesh /\ order' = order /\ centroid' = centroid
      /\ calls' = calls /\ l' = l /\ r' = r /\ UNCHANGED query
  BY DEF BuildLeaf, build
<1>2. /\ calls = <<>> /\ DOMAIN nodes = {0} /\ ~nodes[0].leaf
      /\ F[0] = Positions /\ F \in [{0} -> SUBSET Positions]
      /\ 0 \in Positions
  BY <1>1, Start
<1>3. nodes \in [0 .. 1 - 1 -> Record]
  BY <1>1, Start
<1>4. /\ leaf.box = BoxOf(Positions) /\ leaf.leaf /\ leaf.first = 0 /\ leaf.count = N
      /\ leaf \in Record
  <2>1. (N - 0) % NbFacesRange = N
    BY MeshAssumption
  <2>2. leaf = [box |-> BoxOf(Positions), leaf |-> TRUE, first |-> 0, count |-> N]
    BY <2>1 DEF Leaf
  <2>3. BoxOf(Positions) \in Boxes
    BY <1>2, BoxCorners DEF Build, Arrays
  <2>4. N \in Nat
    BY MeshAssumption
  <2> HIDE DEF leaf
  <2> QED  BY <2>2, <2>3, <2>4
<1> HIDE DEF leaf, Record
<1>5. /\ DOMAIN nodes' = {0} /\ nodes'[0] = leaf /\ nodes' \in [0 .. 1 - 1 -> Record]
  BY <1>1, <1>2, <1>3, <1>4
<1>6. Len(<<>>) = 0 /\ 1 .. 0 = {}
  OBVIOUS
<1>7. Build'
  <2>1. Arrays'
    BY <1>1 DEF Build, Arrays
  <2>2. \E K \in Nat \ {0} : nodes' \in [0 .. K - 1 -> Record]
    <3>1. 1 \in Nat \ {0}
      OBVIOUS
    <3> QED  BY <1>5, <3>1
  <2>3. Stack'
    <3>1. Boxes' = Boxes
      BY DEF Boxes
    <3>2. calls' \in Seq([node : DOMAIN nodes', start : Nat, end : Nat, level : 0 .. MaxDepth])
      BY <1>1, <1>2
    <3>3. \A i \in 1 .. Len(calls') : calls'[i].start < calls'[i].end /\ calls'[i].end <= N
      BY <1>1, <1>2, <1>6
    <3> QED  BY <1>1, <1>2, <2>2, <3>1, <3>2, <3>3 DEF Stack, Record
  <2>4. Cursors'
    BY <1>1 DEF Build, Cursors
  <2> QED  BY <2>1, <2>3, <2>4 DEF Build
<1>8. Query' /\ Search(F)'
  BY <1>1 DEF Query, Search, query
<1>9. Shape(F)'
  <2>1. Positions = 0 .. leaf.first + leaf.count - 1
    BY <1>4, MeshAssumption DEF Positions
  <2> QED  BY <1>1, <1>2, <1>4, <1>5, <1>6, <2>1 DEF Shape
<1>10. Bottom(0)'
  BY <1>4, <1>5 DEF Bottom
<1>11. Family(F)'
  <2>1. {order[p] : p \in Positions} = Positions
    BY DEF Build, Arrays
  <2>2. BoxOf({order[p] : p \in Positions})' = BoxOf({order[p] : p \in Positions})
    BY <1>1 DEF BoxOf
  <2>3. nodes'[0].box = BoxOf({order[p] : p \in F[0]})'
    BY <1>2, <1>4, <1>5, <2>1, <2>2
  <2> QED  BY <1>5, <1>10, <2>3 DEF Family
<1>12. Tiled(F)'
  BY <1>1, <1>2, <1>5, <1>6, <1>10 DEF Tiled
<1> QED  BY <1>7, <1>8, <1>9, <1>11, <1>12 DEF Tree

(* A larger mesh: the root is called with the whole array (bvh.cpp:33).    *)
LEMMA BuildRootKeeps ==
  ASSUME Build, Query, NEW F, Tree(F), BuildRoot
  PROVE  Build' /\ Query' /\ Tree(F)' /\ Search(F)'
<1> DEFINE root == [node |-> 0, start |-> 0, end |-> N, level |-> 0]
<1>1. /\ phase = "start" /\ phase' = "build" /\ calls' = <<root>>
      /\ mesh' = mesh /\ order' = order /\ centroid' = centroid /\ nodes' = nodes
      /\ l' = l /\ r' = r /\ UNCHANGED query
  BY DEF BuildRoot, tree
<1>2. /\ calls = <<>> /\ DOMAIN nodes = {0} /\ ~nodes[0].leaf
      /\ F[0] = Positions /\ F \in [{0} -> SUBSET Positions]
      /\ 0 \in Positions
  BY <1>1, Start
<1>3. /\ root.node = 0 /\ root.start = 0 /\ root.end = N
      /\ root \in [node : DOMAIN nodes, start : Nat, end : Nat, level : 0 .. MaxDepth]
  BY <1>2, MeshAssumption
<1> HIDE DEF root
<1>4. Len(calls') = 1 /\ calls'[1] = root /\ 1 .. 1 = {1} /\ 1 \in 1 .. Len(calls')
  BY <1>1
<1>5. Build'
  <2>1. Arrays'
    BY <1>1 DEF Build, Arrays
  <2>2. Stack'
    <3>1. calls' \in Seq([node : DOMAIN nodes', start : Nat, end : Nat, level : 0 .. MaxDepth])
      BY <1>1, <1>3
    <3>2. \A i \in 1 .. Len(calls') : calls'[i].start < calls'[i].end /\ calls'[i].end <= N
      BY <1>3, <1>4, MeshAssumption
    <3>3. Boxes' = Boxes
      BY DEF Boxes
    <3> DEFINE Record == [box : Boxes, leaf : BOOLEAN, first : Nat, count : Nat]
    <3>4. Record' = Record
      BY <3>3
    <3>5. \E K \in Nat \ {0} : nodes' \in [0 .. K - 1 -> Record]
      BY <1>1 DEF Build, Stack
    <3> HIDE DEF Record
    <3>6. (\E K \in Nat \ {0} : nodes \in [0 .. K - 1 -> Record])'
      BY <3>4, <3>5
    <3> QED  BY <1>1, <3>1, <3>2, <3>6 DEF Stack, Record
  <2>3. Cursors'
    BY <1>1 DEF Build, Cursors
  <2> QED  BY <2>1, <2>2, <2>3 DEF Build
<1>6. Query' /\ Search(F)'
  BY <1>1 DEF Query, Search, query
<1>7. Shape(F)'
  BY <1>1, <1>2, <1>3, <1>4 DEF Shape, Positions
<1>8. Pending(0)' /\ Bottom(0)' /\ ~Boxed(0)'
  <2>1. Pending(0)'
    BY <1>3, <1>4 DEF Pending
  <2> QED  BY <1>1, <2>1 DEF Bottom, Boxed
<1>9. Family(F)'
  BY <1>1, <1>2, <1>8 DEF Family
<1>10. Tiled(F)'
  BY <1>1, <1>2, <1>3, <1>4, <1>8 DEF Tiled
<1> QED  BY <1>5, <1>6, <1>7, <1>9, <1>10 DEF Tree

-----------------------------------------------------------------------------
(* Without calls the tree is only read.                                    *)
LEMMA TreeStays ==
  ASSUME Build, NEW F, Tree(F), UNCHANGED <<tree, build>>, calls = <<>>,
         phase \in {"build", "ready", "trace"}, phase' \in {"ready", "trace"}
  PROVE  Build' /\ Tree(F)'
<1>1. /\ mesh' = mesh /\ order' = order /\ centroid' = centroid /\ nodes' = nodes
      /\ calls' = calls /\ l' = l /\ r' = r
  BY DEF tree, build
<1>2. Len(<<>>) = 0 /\ 1 .. 0 = {}
  OBVIOUS
<1>3. \A k : ~Pending(k) /\ ~Pending(k)'
  BY <1>1, <1>2 DEF Pending
<1>4. \A k : (Boxed(k)' <=> Boxed(k)) /\ (Bottom(k)' <=> Bottom(k))
  BY <1>1, <1>3 DEF Boxed, Bottom
<1>5. Build'
  <2>1. Arrays'
    BY <1>1 DEF Build, Arrays
  <2>2. Cursors'
    BY <1>1 DEF Build, Cursors
  <2>3. Stack'
    <3> DEFINE Record == [box : Boxes, leaf : BOOLEAN, first : Nat, count : Nat]
    <3>1. Record' = Record
      BY DEF Boxes
    <3>2. \E K \in Nat \ {0} : nodes' \in [0 .. K - 1 -> Record]
      BY <1>1 DEF Build, Stack
    <3> HIDE DEF Record
    <3>3. (\E K \in Nat \ {0} : nodes \in [0 .. K - 1 -> Record])'
      BY <3>1, <3>2
    <3>4. calls' \in Seq([node : DOMAIN nodes', start : Nat, end : Nat, level : 0 .. MaxDepth])
      BY <1>1 DEF Build, Stack
    <3>5. \A i \in 1 .. Len(calls') : calls'[i].start < calls'[i].end /\ calls'[i].end <= N
      BY <1>1 DEF Build, Stack
    <3> QED  BY <1>1, <3>3, <3>4, <3>5 DEF Stack, Record
  <2> QED  BY <2>1, <2>2, <2>3 DEF Build
<1>6. Shape(F)'
  BY <1>1 DEF Tree, Shape
<1>7. Family(F)'
  <2>2. \A k \in DOMAIN nodes :
          /\ ~Bottom(k)' =>
               /\ nodes[k].first \in DOMAIN nodes /\ nodes[k].first + 1 \in DOMAIN nodes
               /\ F[k] = F[nodes[k].first] \cup F[nodes[k].first + 1]
          /\ Boxed(k)' => nodes[k].box = BoxOf({order[p] : p \in F[k]})
    BY <1>4 DEF Tree, Family
  <2>3. ASSUME NEW k \in DOMAIN nodes, Boxed(k)'
        PROVE  nodes[k].box = BoxOf({order[p] : p \in F[k]})'
    <3>1. BoxOf({order[p] : p \in F[k]})' = BoxOf({order[p] : p \in F[k]})
      BY <1>1 DEF BoxOf
    <3> QED  BY <2>2, <2>3, <3>1
  <2> QED  BY <1>1, <2>2, <2>3 DEF Family
<1>8. Tiled(F)'
  BY <1>1, <1>4 DEF Tree, Tiled
<1> QED  BY <1>5, <1>6, <1>7, <1>8 DEF Tree

(* The last call has returned (bvh.cpp:33-35).                             *)
LEMMA BuildReturnsKeeps ==
  ASSUME Build, Query, NEW F, Tree(F), BuildReturns
  PROVE  Build' /\ Query' /\ Tree(F)' /\ Search(F)'
<1>1. Build' /\ Tree(F)'
  BY TreeStays DEF BuildReturns
<1>2. Query' /\ Search(F)'
  BY DEF BuildReturns, Query, Search, query
<1> QED  BY <1>1, <1>2

(* What a finished tree is made of.                                        *)
LEMMA Finished ==
  ASSUME Build, NEW F, Tree(F), phase \in {"ready", "trace"}
  PROVE  /\ calls = <<>>
         /\ \A k : ~Pending(k)
         /\ \A k \in DOMAIN nodes : Bottom(k) <=> nodes[k].leaf
         /\ F[0] = Positions /\ 0 \in DOMAIN nodes
         /\ \A k \in DOMAIN nodes :
              /\ F[k] \in SUBSET Positions /\ F[k] # {}
              /\ nodes[k].box = BoxOf({order[p] : p \in F[k]})
              /\ nodes[k].leaf =>
                   F[k] = nodes[k].first .. nodes[k].first + nodes[k].count - 1
              /\ ~nodes[k].leaf =>
                   /\ nodes[k].first \in DOMAIN nodes /\ nodes[k].first + 1 \in DOMAIN nodes
                   /\ F[k] = F[nodes[k].first] \cup F[nodes[k].first + 1]
<1>1. calls = <<>>
  BY DEF Build, Stack
<1>2. Len(<<>>) = 0 /\ 1 .. 0 = {}
  OBVIOUS
<1>3. \A k : ~Pending(k)
  BY <1>1, <1>2 DEF Pending
<1>4. \A k : Boxed(k) /\ (Bottom(k) <=> nodes[k].leaf)
  BY <1>3 DEF Boxed, Bottom
<1>5. 0 \in DOMAIN nodes
  <2>1. PICK K \in Nat \ {0} : DOMAIN nodes = 0 .. K - 1
    BY DEF Build, Stack
  <2> QED  BY <2>1
<1>6. F \in [DOMAIN nodes -> SUBSET Positions] /\ F[0] = Positions
  BY DEF Tree, Shape
<1>7. \A k \in DOMAIN nodes :
        /\ F[k] # {}
        /\ nodes[k].leaf => F[k] = nodes[k].first .. nodes[k].first + nodes[k].count - 1
  BY DEF Tree, Shape
<1>8. \A k \in DOMAIN nodes :
        /\ nodes[k].box = BoxOf({order[p] : p \in F[k]})
        /\ ~nodes[k].leaf =>
             /\ nodes[k].first \in DOMAIN nodes /\ nodes[k].first + 1 \in DOMAIN nodes
             /\ F[k] = F[nodes[k].first] \cup F[nodes[k].first + 1]
  BY <1>4 DEF Tree, Family
<1> QED  BY <1>1, <1>3, <1>4, <1>5, <1>6, <1>7, <1>8

(* A ray is shot: every face is still to be found below the root           *)
(* (bvh.cpp:37-43).                                                        *)
LEMMA ShootKeeps ==
  ASSUME Build, Query, NEW F, Tree(F), Shoot
  PROVE  Build' /\ Query' /\ Tree(F)' /\ Search(F)'
<1>1. /\ phase = "ready" /\ phase' = "trace" /\ UNCHANGED <<tree, build, height>>
      /\ reach' \in {2, Infinity} /\ t' = reach' /\ todo' = <<0>>
  BY DEF Shoot
<1>2. calls = <<>> /\ F[0] = Positions /\ 0 \in DOMAIN nodes
  BY <1>1, Finished
<1>3. Build' /\ Tree(F)'
  BY <1>1, <1>2, TreeStays
<1>4. /\ mesh' = mesh /\ nodes' = nodes /\ order' = order /\ height' = height
  BY <1>1 DEF tree
<1>5. PICK hits : /\ DOMAIN hits = Positions /\ hits = [f \in Positions |-> hits[f]]
                  /\ \A f \in Positions : hits[f] \in Meetings(f)
                  /\ meets' = hits
  BY DEF Shoot
<1>6. \A f \in Positions : Meetings(f)' = Meetings(f)
  BY <1>4 DEF Meetings, BoxOf
<1>7. \A f \in Positions : hits[f] \in Int
  <2>1. \A f : Meetings(f) \subseteq Int
    BY DEF Meetings, Never, Infinity
  <2> QED  BY <1>5, <2>1
<1>8. Query'
  <2>1. meets' \in [Positions -> Int]
    BY <1>5, <1>7
  <2>2. todo' \in Seq(DOMAIN nodes')
    BY <1>1, <1>2, <1>4
  <2>3. \A f \in Positions : meets'[f] \in Meetings(f)'
    BY <1>5, <1>6
  <2>4. t' \in Int /\ t' <= reach'
    BY <1>1 DEF Infinity
  <2>5. height' \in Heights
    BY <1>4 DEF Query
  <2> QED  BY <1>1, <2>1, <2>2, <2>3, <2>4, <2>5 DEF Query
<1>9. Search(F)'
  <2>1. Len(todo') = 1 /\ todo'[1] = 0 /\ 1 \in 1 .. 1
    BY <1>1
  <2> QED  BY <1>2, <2>1 DEF Search
<1> QED  BY <1>3, <1>8, <1>9

(* The node to be visited next, and those left.                            *)
LEMMA NextVisit ==
  ASSUME Query, phase = "trace", todo # <<>>
  PROVE  /\ Head(todo) \in DOMAIN nodes /\ Tail(todo) \in Seq(DOMAIN nodes)
         /\ \A j \in 1 .. Len(todo) :
              \/ j = 1 /\ todo[j] = Head(todo)
              \/ j - 1 \in 1 .. Len(Tail(todo)) /\ todo[j] = Tail(todo)[j - 1]
<1>1. todo \in Seq(DOMAIN nodes)
  BY DEF Query
<1> QED  BY <1>1

(* The search moves on: it forgets the first node of todo, once the faces  *)
(* below it are known not to be nearer than the hit, and looks at others.  *)
LEMMA SearchOn ==
  ASSUME Build, Query, NEW F, Tree(F), Search(F), phase = "trace", todo # <<>>,
         UNCHANGED <<tree, phase, build, height, meets, reach>>,
         todo' \in Seq(DOMAIN nodes), t' \in Int, t' <= t,
         t' = t \/ \E f \in Positions : meets[f] = t' /\ 0 < t' /\ t' < reach,
         \A p \in F[Head(todo)] :
           \/ meets[order[p]] <= 0 \/ meets[order[p]] >= t'
           \/ \E j \in 1 .. Len(todo') : p \in F[todo'[j]],
         \A i \in 1 .. Len(Tail(todo)) :
           \E j \in 1 .. Len(todo') : todo'[j] = Tail(todo)[i]
  PROVE  Build' /\ Query' /\ Tree(F)' /\ Search(F)'
<1>1. /\ mesh' = mesh /\ nodes' = nodes /\ order' = order /\ height' = height
      /\ meets' = meets /\ reach' = reach /\ phase' = phase
  BY DEF tree
<1>2. Build' /\ Tree(F)'
  <2>1. calls = <<>>
    BY Finished
  <2> QED  BY <2>1, TreeStays
<1>3. Query'
  <2>1. \A f \in Positions : Meetings(f)' = Meetings(f)
    BY <1>1 DEF Meetings, BoxOf
  <2>2. /\ height \in Heights /\ meets \in [Positions -> Int]
        /\ reach \in {2, Infinity} /\ t \in Int /\ t <= reach /\ reach \in Int
        /\ \A f \in Positions : meets[f] \in Meetings(f)
        /\ t = reach \/ \E f \in Positions : meets[f] = t /\ 0 < t /\ t < reach
    BY DEF Query, Infinity
  <2>3. t' <= reach
    BY <2>2
  <2>4. t' = reach \/ \E f \in Positions : meets[f] = t' /\ 0 < t' /\ t' < reach
    BY <2>2
  <2> QED  BY <1>1, <2>1, <2>2, <2>3, <2>4 DEF Query
<1>4. ASSUME NEW p \in Positions
      PROVE  \/ meets[order[p]] <= 0 \/ meets[order[p]] >= t'
             \/ \E j \in 1 .. Len(todo') : p \in F[todo'[j]]
  <2>1. order[p] \in Positions
    BY DEF Build, Arrays
  <2>2. meets[order[p]] \in Int /\ t \in Int
    BY <2>1 DEF Query
  <2>3. CASE meets[order[p]] <= 0
    BY <2>3
  <2>4. CASE meets[order[p]] >= t
    BY <2>2, <2>4
  <2>5. CASE \E j \in 1 .. Len(todo) : p \in F[todo[j]]
    <3>1. PICK j \in 1 .. Len(todo) : p \in F[todo[j]]
      BY <2>5
    <3>2. CASE todo[j] = Head(todo)
      BY <3>1, <3>2
    <3>3. CASE j - 1 \in 1 .. Len(Tail(todo)) /\ todo[j] = Tail(todo)[j - 1]
      BY <3>1, <3>3
    <3> QED  BY <3>2, <3>3, NextVisit
  <2> QED  BY <2>3, <2>4, <2>5 DEF Search
<1>5. Search(F)'
  BY <1>1, <1>4 DEF Search
<1> QED  BY <1>2, <1>3, <1>5

(* A leaf has been visited: none of its faces is nearer than the hit       *)
(* (bvh.cpp:48-54).                                                        *)
LEMMA VisitLeafKeeps ==
  ASSUME Build, Query, NEW F, Tree(F), Search(F), VisitLeaf
  PROVE  Build' /\ Query' /\ Tree(F)' /\ Search(F)'
<1> DEFINE k == Head(todo)
           faces == FacesIn(nodes[k].first, nodes[k].first + nodes[k].count)
           S == {t} \cup {x \in {meets[f] : f \in faces} : x > 0 /\ x < t}
<1>1. /\ phase = "trace" /\ todo # <<>> /\ nodes[k].leaf
      /\ t' = Nearest(faces, t) /\ todo' = Tail(todo)
      /\ UNCHANGED <<tree, phase, build, height, meets, reach>>
  BY DEF VisitLeaf
<1>2. k \in DOMAIN nodes /\ Tail(todo) \in Seq(DOMAIN nodes)
  BY <1>1, NextVisit
<1>3. F[k] \in SUBSET Positions /\ faces = {order[p] : p \in F[k]}
  <2>1. \A m \in DOMAIN nodes :
          /\ F[m] \in SUBSET Positions
          /\ nodes[m].leaf => F[m] = nodes[m].first .. nodes[m].first + nodes[m].count - 1
    <3>1. phase = "trace"
      BY <1>1
    <3> QED  BY <3>1, Finished
  <2>2. nodes[k].leaf /\ k \in DOMAIN nodes
    BY <1>1, <1>2
  <2> HIDE DEF k
  <2>3. F[k] \in SUBSET Positions
    BY <2>1, <2>2
  <2>4. PICK I : I = nodes[k].first .. nodes[k].first + nodes[k].count - 1
    OBVIOUS
  <2>5. faces = {order[p] : p \in I}
    <3> DEFINE Record == [box : Boxes, leaf : BOOLEAN, first : Nat, count : Nat]
    <3>1. nodes[k] \in Record
      <4> HIDE DEF Record
      <4>1. PICK K \in Nat : nodes \in [0 .. K - 1 -> Record]
        BY DEF Build, Stack, Record
      <4> QED  BY <2>2, <4>1
    <3>2. nodes[k].first \in Nat /\ nodes[k].count \in Nat
      BY <3>1
    <3>3. (nodes[k].first + nodes[k].count) - 1 = nodes[k].first + nodes[k].count - 1
      BY <3>2
    <3> QED  BY <2>4, <3>3 DEF FacesIn
  <2>6. F[k] = I
    BY <2>1, <2>2, <2>4
  <2> QED  BY <2>3, <2>5, <2>6
<1>4. faces \subseteq Positions
  BY <1>3 DEF Build, Arrays
<1>5. /\ meets \in [Positions -> Int] /\ t \in Int /\ t <= reach /\ reach \in Int
  BY DEF Query, Infinity
<1> HIDE DEF k, faces
<1>6. S \in SUBSET Int /\ S # {} /\ t \in S
  BY <1>4, <1>5
<1>7. IsFiniteSet(S)
  <2> DEFINE T == {meets[f] : f \in faces}
  <2>1. IsFiniteSet(Positions)
    <3>1. 0 \in Int /\ N - 1 \in Int
      BY MeshAssumption
    <3> QED  BY <3>1, FS_Interval, Zenon DEF Positions
  <2>2. IsFiniteSet(faces)
    BY <1>4, <2>1, FS_Subset, Zenon
  <2>3. IsFiniteSet(T)
    <3> DEFINE g == [f \in faces |-> meets[f]]
    <3>1. g \in Surjection(faces, T)
      BY DEF Surjection
    <3> HIDE DEF g, T
    <3> QED  BY <2>2, <3>1, FS_Surjection
  <2>4. IsFiniteSet(T \cup {t})
    BY <2>3, FS_AddElement
  <2>5. S \subseteq T \cup {t}
    OBVIOUS
  <2> HIDE DEF S, T
  <2> QED  BY <2>4, <2>5, FS_Subset, Zenon
<1>8. t' = Least(S)
  BY <1>1 DEF Nearest
<1>9. t' \in S /\ \A y \in S : t' <= y
  <2> HIDE DEF S
  <2> QED  BY <1>6, <1>7, <1>8, LeastExists
<1>10. t' \in Int /\ t' <= t
  BY <1>5, <1>6, <1>9
<1>11. t' = t \/ \E f \in Positions : meets[f] = t' /\ 0 < t' /\ t' < reach
  BY <1>4, <1>5, <1>9
<1>12. ASSUME NEW p \in F[k]  PROVE meets[order[p]] <= 0 \/ meets[order[p]] >= t'
  <2>1. order[p] \in faces /\ meets[order[p]] \in Int
    BY <1>3, <1>4, <1>5
  <2>2. CASE meets[order[p]] >= t
    BY <1>5, <1>10, <2>1, <2>2
  <2>3. CASE meets[order[p]] > 0 /\ meets[order[p]] < t
    BY <1>9, <1>10, <2>1, <2>3
  <2> QED  BY <1>5, <2>1, <2>2, <2>3
<1> QED  BY <1>1, <1>2, <1>10, <1>11, <1>12, SearchOn DEF k

(* An inner node has been visited: what lies below it lies below its       *)
(* children, whichever is first (bvh.cpp:56-65).                           *)
LEMMA VisitInnerKeeps ==
  ASSUME Build, Query, NEW F, Tree(F), Search(F), VisitInner
  PROVE  Build' /\ Query' /\ Tree(F)' /\ Search(F)'
<1> DEFINE k == Head(todo)
           a == nodes[k].first
           b == nodes[k].first + 1
<1>1. /\ phase = "trace" /\ todo # <<>> /\ ~nodes[k].leaf
      /\ todo' = <<a, b>> \o Tail(todo) \/ todo' = <<b, a>> \o Tail(todo)
      /\ t' = t /\ UNCHANGED <<tree, phase, build, height, meets, reach>>
  BY DEF VisitInner
<1>2. k \in DOMAIN nodes /\ Tail(todo) \in Seq(DOMAIN nodes)
  BY <1>1, NextVisit
<1>3. a \in DOMAIN nodes /\ b \in DOMAIN nodes /\ F[k] = F[a] \cup F[b]
  BY <1>1, <1>2, Finished
<1>4. t \in Int /\ t <= t
  BY DEF Query
<1> HIDE DEF k, a, b
<1>5. /\ todo' \in Seq(DOMAIN nodes)
      /\ \E j \in 1 .. Len(todo') : todo'[j] = a
      /\ \E j \in 1 .. Len(todo') : todo'[j] = b
      /\ \A i \in 1 .. Len(Tail(todo)) :
           \E j \in 1 .. Len(todo') : todo'[j] = Tail(todo)[i]
  <2>1. ASSUME NEW x \in DOMAIN nodes, NEW y \in DOMAIN nodes, NEW s \in Seq(DOMAIN nodes)
        PROVE  /\ <<x, y>> \o s \in Seq(DOMAIN nodes)
               /\ 1 \in 1 .. Len(<<x, y>> \o s) /\ (<<x, y>> \o s)[1] = x
               /\ 2 \in 1 .. Len(<<x, y>> \o s) /\ (<<x, y>> \o s)[2] = y
               /\ \A i \in 1 .. Len(s) :
                    /\ i + 2 \in 1 .. Len(<<x, y>> \o s)
                    /\ (<<x, y>> \o s)[i + 2] = s[i]
    <3>1. <<x, y>> \in Seq(DOMAIN nodes) /\ Len(<<x, y>>) = 2 /\ Len(s) \in Nat
      OBVIOUS
    <3>2. Len(<<x, y>> \o s) = Len(s) + 2
      BY <3>1
    <3> QED  BY <3>1, <3>2
  <2> DEFINE Goal(u, v, w) ==
               /\ w \in Seq(DOMAIN nodes)
               /\ \E j \in 1 .. Len(w) : w[j] = u
               /\ \E j \in 1 .. Len(w) : w[j] = v
               /\ \A i \in 1 .. Len(Tail(todo)) : \E j \in 1 .. Len(w) : w[j] = Tail(todo)[i]
  <2>2. \A x, y \in DOMAIN nodes : Goal(x, y, <<x, y>> \o Tail(todo))
    <3>1. SUFFICES ASSUME NEW x \in DOMAIN nodes, NEW y \in DOMAIN nodes
                   PROVE  Goal(x, y, <<x, y>> \o Tail(todo))
      OBVIOUS
    <3>2. PICK w : w = <<x, y>> \o Tail(todo)
      OBVIOUS
    <3>3. /\ w \in Seq(DOMAIN nodes)
          /\ 1 \in 1 .. Len(w) /\ w[1] = x
          /\ 2 \in 1 .. Len(w) /\ w[2] = y
          /\ \A i \in 1 .. Len(Tail(todo)) : i + 2 \in 1 .. Len(w) /\ w[i + 2] = Tail(todo)[i]
      BY <1>2, <2>1, <3>2
    <3>4. Goal(x, y, w)
      BY <3>3
    <3> QED  BY <3>2, <3>4
  <2>3. CASE todo' = <<a, b>> \o Tail(todo)
    <3>1. Goal(a, b, todo')
      <4> HIDE DEF Goal
      <4> QED  BY <1>3, <2>2, <2>3
    <3> QED  BY <3>1
  <2>4. CASE todo' = <<b, a>> \o Tail(todo)
    <3>1. Goal(b, a, todo')
      <4> HIDE DEF Goal
      <4> QED  BY <1>3, <2>2, <2>4
    <3> QED  BY <3>1
  <2> QED  BY <1>1, <2>3, <2>4
<1>6. \A p \in F[k] : \E j \in 1 .. Len(todo') : p \in F[todo'[j]]
  BY <1>3, <1>5
<1> QED  BY <1>1, <1>4, <1>5, <1>6, SearchOn DEF k

(* A node is passed by: a face below it that the ray meets is met within   *)
(* the box of the node, which the ray does not enter before the hit        *)
(* (bvh.cpp:40, 67-72).                                                    *)
LEMMA PruneKeeps ==
  ASSUME Build, Query, NEW F, Tree(F), Search(F), Prune
  PROVE  Build' /\ Query' /\ Tree(F)' /\ Search(F)'
<1> DEFINE k == Head(todo)
           box == nodes[k].box
<1>1. /\ phase = "trace" /\ todo # <<>> /\ ~Enters(box) /\ todo' = Tail(todo)
      /\ t' = t /\ UNCHANGED <<tree, phase, build, height, meets, reach>>
  BY DEF Prune
<1>2. k \in DOMAIN nodes /\ Tail(todo) \in Seq(DOMAIN nodes)
  BY <1>1, NextVisit
<1>3. /\ F[k] \in SUBSET Positions /\ F[k] # {} /\ box = BoxOf({order[p] : p \in F[k]})
  BY <1>1, <1>2, Finished
<1>4. /\ t \in Int /\ t <= t /\ t <= Infinity /\ height \in Int
      /\ \A f \in Positions : meets[f] \in Meetings(f) /\ meets[f] \in Int
  BY <1>1, MeshAssumption DEF Query, Infinity
<1> HIDE DEF k, box
<1>5. ASSUME NEW p \in F[k]  PROVE meets[order[p]] <= 0 \/ meets[order[p]] >= t
  <2> DEFINE f == order[p]
             own == BoxOf({f})
             all == {order[q] : q \in F[k]}
  <2>1. f \in Positions /\ all \in SUBSET Positions /\ {f} \in SUBSET Positions
        /\ {f} \subseteq all /\ {f} # {} /\ all # {}
    BY <1>3 DEF Build, Arrays
  <2>2. Inside(own, box)
    <3> HIDE DEF f, all
    <3>1. Inside(BoxOf({f}), BoxOf(all))
      BY <2>1, BoxMonotone DEF Build, Arrays
    <3> QED  BY <1>3, <3>1 DEF all
  <2>3. own \in Boxes /\ box \in Boxes
    <3> HIDE DEF f, all
    <3>1. BoxOf({f}) \in Boxes /\ BoxOf(all) \in Boxes
      BY <2>1, BoxCorners DEF Build, Arrays
    <3> QED  BY <1>3, <3>1 DEF all
  <2>4. meets[f] \in Int /\ meets[f] \in Meetings(f)
    BY <1>4, <2>1
  <2> HIDE DEF f, own, all
  <2>5. CASE meets[f] = Never
    BY <1>4, <2>5 DEF Never, f, Infinity
  <2>6. CASE meets[f] # Never
    <3>1. /\ meets[f] \in own.lo[1] .. own.hi[1]
          /\ height >= own.lo[2] /\ height < own.hi[2]
      BY <2>4, <2>6 DEF Meetings, own
    <3>2. /\ own.lo[1] \in Int /\ own.hi[1] \in Int /\ own.lo[2] \in Int /\ own.hi[2] \in Int
          /\ box.lo[1] \in Int /\ box.hi[1] \in Int /\ box.lo[2] \in Int /\ box.hi[2] \in Int
      BY <2>3 DEF Boxes, Axes
    <3>3. /\ box.lo[1] <= own.lo[1] /\ own.hi[1] <= box.hi[1]
          /\ box.lo[2] <= own.lo[2] /\ own.hi[2] <= box.hi[2]
      BY <2>2 DEF Inside, Axes
    <3>4. TMin(box) = box.lo[1] /\ TMax(box) = box.hi[1]
      BY <1>4, <3>1, <3>2, <3>3 DEF TMin, TMax
    <3>5. ~(box.lo[1] < t /\ box.lo[1] <= box.hi[1] /\ box.hi[1] > 0)
      BY <1>1, <3>4 DEF Enters
    <3> QED  BY <1>4, <2>4, <3>1, <3>2, <3>3, <3>5 DEF f
  <2> QED  BY <2>5, <2>6
<1> QED  BY <1>1, <1>2, <1>4, <1>5, SearchOn DEF k

(* The search returns.                                                     *)
LEMMA AnswerKeeps ==
  ASSUME Build, Query, NEW F, Tree(F), Answer
  PROVE  Build' /\ Query' /\ Tree(F)' /\ Search(F)'
<1>1. /\ phase = "trace" /\ todo = <<>> /\ phase' = "ready"
      /\ meets' = [f \in Positions |-> Never] /\ reach' = Infinity /\ t' = Infinity
      /\ height' = height /\ todo' = todo
  BY DEF Answer
<1>2. Build' /\ Tree(F)'
  <2>1. calls = <<>>
    BY <1>1, Finished
  <2> QED  BY <1>1, <2>1, TreeStays DEF Answer
<1>3. Query' /\ Search(F)'
  BY <1>1 DEF Query, Search, Never, Infinity
<1> QED  BY <1>2, <1>3

-----------------------------------------------------------------------------
(* A step that changes nothing keeps every part of the invariant.          *)
LEMMA StutterKeeps ==
  ASSUME BvhInv, UNCHANGED vars
  PROVE  BvhInv'
<1>1. PICK F : Tree(F) /\ Search(F)
  BY DEF BvhInv
<1>2. /\ mesh' = mesh /\ order' = order /\ centroid' = centroid /\ nodes' = nodes
      /\ phase' = phase /\ calls' = calls /\ l' = l /\ r' = r
      /\ height' = height /\ meets' = meets /\ reach' = reach /\ t' = t /\ todo' = todo
  BY DEF vars, tree, build, query
<1>3. Build'
  <2>1. Arrays'
    BY <1>2 DEF BvhInv, Build, Arrays
  <2>2. Cursors'
    BY <1>2 DEF BvhInv, Build, Cursors, Call, Below, LongestAxis, Box
  <2>3. Stack'
    BY <1>2 DEF BvhInv, Build, Stack, Call, Boxes
  <2> QED  BY <2>1, <2>2, <2>3 DEF Build
<1>4. Query'
  <2>1. \A f \in Positions : Meetings(f)' = Meetings(f)
    BY <1>2 DEF Meetings, BoxOf
  <2> QED  BY <1>2, <2>1 DEF BvhInv, Query
<1>5. \A k : (Boxed(k)' <=> Boxed(k)) /\ (Bottom(k)' <=> Bottom(k))
  BY <1>2 DEF Boxed, Bottom, Pending, Call
<1>6. Shape(F)'
  BY <1>1, <1>2 DEF Tree, Shape
<1>7. Family(F)'
  <2>1. ASSUME NEW k \in DOMAIN nodes, phase # "start", Boxed(k)'
        PROVE  nodes[k].box = BoxOf({order[p] : p \in F[k]})'
    <3>1. BoxOf({order[p] : p \in F[k]})' = BoxOf({order[p] : p \in F[k]})
      BY <1>2 DEF BoxOf
    <3> QED  BY <1>1, <1>5, <2>1, <3>1 DEF Tree, Family
  <2>2. \A k \in DOMAIN nodes :
          phase # "start" /\ ~Bottom(k)' =>
            /\ nodes[k].first \in DOMAIN nodes /\ nodes[k].first + 1 \in DOMAIN nodes
            /\ F[k] = F[nodes[k].first] \cup F[nodes[k].first + 1]
    BY <1>1, <1>5 DEF Tree, Family
  <2> QED  BY <1>2, <2>1, <2>2 DEF Family
<1>8. Tiled(F)'
  BY <1>1, <1>2, <1>5 DEF Tree, Tiled
<1>9. Search(F)'
  BY <1>1, <1>2 DEF Search
<1>10. \E G : Tree(G)' /\ Search(G)'
  BY <1>6, <1>7, <1>8, <1>9 DEF Tree
<1> QED  BY <1>3, <1>4, <1>10 DEF BvhInv

(* The invariant survives every step of the construction and the search.   *)
LEMMA BvhStep == BvhInv /\ [Next]_vars => BvhInv'
<1> SUFFICES ASSUME BvhInv, [Next]_vars  PROVE BvhInv'
  OBVIOUS
<1>1. PICK F : Tree(F) /\ Search(F)
  BY DEF BvhInv
<1>2. Build /\ Query
  BY DEF BvhInv
<1>3. ASSUME Build' /\ Query' /\ \E G : Tree(G)' /\ Search(G)'  PROVE BvhInv'
  BY <1>3 DEF BvhInv
<1>4. CASE BuildLeaf
  BY <1>1, <1>2, <1>3, <1>4, BuildLeafKeeps
<1>5. CASE BuildRoot
  BY <1>1, <1>2, <1>3, <1>5, BuildRootKeeps
<1>6. CASE StopNode
  BY <1>1, <1>2, <1>3, <1>6, StopNodeKeeps
<1>7. CASE OpenNode
  BY <1>1, <1>2, <1>3, <1>7, OpenNodeKeeps
<1>8. CASE Scan
  BY <1>1, <1>2, <1>3, <1>8, ScanKeeps
<1>9. CASE KeepWhole
  BY <1>1, <1>2, <1>3, <1>9, KeepWholeKeeps
<1>10. CASE Divide
  BY <1>1, <1>2, <1>3, <1>10, DivideKeeps
<1>11. CASE BuildReturns
  BY <1>1, <1>2, <1>3, <1>11, BuildReturnsKeeps
<1>12. CASE Shoot
  BY <1>1, <1>2, <1>3, <1>12, ShootKeeps
<1>13. CASE VisitLeaf
  BY <1>1, <1>2, <1>3, <1>13, VisitLeafKeeps
<1>14. CASE VisitInner
  BY <1>1, <1>2, <1>3, <1>14, VisitInnerKeeps
<1>15. CASE Prune
  BY <1>1, <1>2, <1>3, <1>15, PruneKeeps
<1>16. CASE Answer
  BY <1>1, <1>2, <1>3, <1>16, AnswerKeeps
<1>17. CASE UNCHANGED vars
  BY <1>17, StutterKeeps
<1> QED  BY <1>4, <1>5, <1>6, <1>7, <1>8, <1>9, <1>10, <1>11, <1>12, <1>13, <1>14, <1>15,
            <1>16, <1>17 DEF Next

(* The inductive invariant of the tree of boxes: the ranges below the      *)
(* nodes, their boxes, the sides of the plane that split has sorted, and   *)
(* the faces a search has still to look at (bvh.cpp:9-220).                *)
THEOREM BvhInvariant == Spec => []BvhInv
<1> QED  BY BvhInit, BvhStep, PTL DEF Spec

(* However often split swaps, m_faces remains a permutation of the faces,  *)
(* and m_centroids the same one: for meshes of every size (bvh.cpp:75-97). *)
THEOREM PermutationKept == Spec => []Aligned
<1>1. BvhInv => Aligned
  BY DEF BvhInv, Build, Arrays, Aligned
<1> QED  BY <1>1, BvhInvariant, PTL

(* split divides every range where the plane divides it, in whatever way   *)
(* its two scans meet or cross (bvh.cpp:75-97).                            *)
THEOREM DivisionsSort == Spec => SplitSorts
<1>1. BvhInv /\ [Next]_vars => DividedByPlane
  <2> SUFFICES ASSUME BvhInv, [Next]_vars, phase = "split", phase' = "build",
                      Len(calls') = Len(calls) + 1
               PROVE  /\ \A i \in Call.start .. calls'[2].start - 1 : Below(i, Box)
                      /\ \A i \in calls'[2].start .. Call.end - 1 : ~Below(i, Box)
    BY DEF DividedByPlane
  <2>1. PICK F : Tree(F)
    BY DEF BvhInv
  <2>2. Build /\ calls # <<>> /\ Call.level < MaxDepth
    BY DEF BvhInv, Build, Stack
  <2>3. Len(calls) \in Nat /\ 1 \in 1 .. Len(calls)
    BY <2>1, <2>2, RunningCall
  <2>4. ~KeepWhole
    <3>1. SUFFICES ASSUME calls' = Tail(calls)  PROVE FALSE
      BY DEF KeepWhole, MakeLeaf
    <3>2. Len(Tail(calls)) = Len(calls) - 1
      <4>1. calls \in Seq([node : DOMAIN nodes, start : Nat, end : Nat, level : 0 .. MaxDepth])
        BY <2>2 DEF Build, Stack
      <4> QED  BY <2>2, <4>1
    <3> QED  BY <2>3, <3>1, <3>2
  <2>5. Divide
    BY <2>4 DEF Next, BuildLeaf, BuildRoot, StopNode, OpenNode, Scan, BuildReturns,
                Shoot, VisitLeaf, VisitInner, Prune, Answer, vars
  <2>6. PICK K \in Nat \ {0}, mid \in Middles :
          /\ DOMAIN nodes = 0 .. K - 1
          /\ l >= r /\ ~Fruitless(mid) /\ Divided(mid, K)
    BY <2>2, <2>5, DivideCases
  <2>7. /\ mid \in Call.start + 1 .. Call.end - 1
        /\ \A p \in Call.start .. mid - 1 : Below(p, Box)
        /\ \A p \in mid .. Call.end - 1 : ~Below(p, Box)
    BY <2>1, <2>2, <2>6, MiddleDivides
  <2>8. calls'[2] = [node |-> K + 1, start |-> mid, end |-> Call.end,
                     level |-> Call.level + 1]
    BY <2>1, <2>2, <2>6, <2>7, DividedStack, Zenon
  <2>9. calls'[2].start = mid
    BY <2>8
  <2> QED  BY <2>7, <2>9
<1> QED  BY <1>1, BvhInvariant, PTL DEF Spec, SplitSorts

(* In a finished tree every position of m_faces belongs to exactly one     *)
(* leaf: no face is out of the search's reach, and none is tested twice    *)
(* (bvh.cpp:121-127, 204-219).                                             *)
THEOREM LeavesPartition == Spec => []LeavesTile
<1>1. BvhInv => LeavesTile
  <2> SUFFICES ASSUME BvhInv, phase \in {"ready", "trace"}, NEW i \in Positions
               PROVE  \E k \in DOMAIN nodes :
                        /\ nodes[k].leaf
                        /\ i \in nodes[k].first .. nodes[k].first + nodes[k].count - 1
                        /\ \A m \in DOMAIN nodes \ {k} :
                             nodes[m].leaf =>
                               i \notin nodes[m].first .. nodes[m].first + nodes[m].count - 1
    BY DEF LeavesTile
  <2>1. PICK F : Tree(F) /\ Build
    BY DEF BvhInv
  <2>2. \A k \in DOMAIN nodes :
          /\ Bottom(k) <=> nodes[k].leaf
          /\ nodes[k].leaf => F[k] = nodes[k].first .. nodes[k].first + nodes[k].count - 1
    <3>1. \A k \in DOMAIN nodes : Bottom(k) <=> nodes[k].leaf
      BY <2>1, Finished, Zenon
    <3>2. \A k \in DOMAIN nodes :
            nodes[k].leaf => F[k] = nodes[k].first .. nodes[k].first + nodes[k].count - 1
      BY <2>1 DEF Tree, Shape
    <3> QED  BY <3>1, <3>2
  <2>3. PICK k \in DOMAIN nodes : Bottom(k) /\ i \in F[k]
    BY <2>1 DEF Tree, Tiled
  <2>4. ASSUME NEW m \in DOMAIN nodes \ {k}, nodes[m].leaf
        PROVE  i \notin nodes[m].first .. nodes[m].first + nodes[m].count - 1
    <3>1. F[k] \cap F[m] = {}
      BY <2>1, <2>2, <2>3, <2>4 DEF Tree, Tiled
    <3> QED  BY <2>2, <2>3, <2>4, <3>1
  <2> QED  BY <2>2, <2>3, <2>4
<1> QED  BY <1>1, BvhInvariant, PTL

(* The box of every node encloses its faces, or the boxes of its children, *)
(* although the faces were sorted after it was computed (bvh.cpp:108-117). *)
THEOREM BoxesHold == Spec => []BoxesEnclose
<1>1. BvhInv => BoxesEnclose
  <2> SUFFICES ASSUME BvhInv, phase \in {"ready", "trace"}, NEW k \in DOMAIN nodes
               PROVE  IF nodes[k].leaf
                        THEN \A i \in nodes[k].first .. nodes[k].first + nodes[k].count - 1 :
                               Inside(BoxOf({order[i]}), nodes[k].box)
                        ELSE \A c \in {nodes[k].first, nodes[k].first + 1} :
                               c \in DOMAIN nodes /\ Inside(nodes[c].box, nodes[k].box)
    BY DEF BoxesEnclose
  <2>1. PICK F : Tree(F) /\ Build
    BY DEF BvhInv
  <2>2. \A m \in DOMAIN nodes :
          /\ F[m] \in SUBSET Positions /\ F[m] # {}
          /\ nodes[m].box = BoxOf({order[p] : p \in F[m]})
          /\ nodes[m].leaf => F[m] = nodes[m].first .. nodes[m].first + nodes[m].count - 1
          /\ ~nodes[m].leaf =>
               /\ nodes[m].first \in DOMAIN nodes /\ nodes[m].first + 1 \in DOMAIN nodes
               /\ F[m] = F[nodes[m].first] \cup F[nodes[m].first + 1]
    BY <2>1, Finished
  <2>3. ASSUME NEW P \in SUBSET F[k], P # {}
        PROVE  Inside(BoxOf({order[p] : p \in P}), nodes[k].box)
    <3> DEFINE some == {order[p] : p \in P}
               all == {order[p] : p \in F[k]}
    <3>1. /\ some \in SUBSET Positions /\ all \in SUBSET Positions
          /\ some # {} /\ some \subseteq all
      <4>1. order \in [Positions -> Positions] /\ F[k] \in SUBSET Positions
        BY <2>1, <2>2 DEF Build, Arrays
      <4>2. \A p \in F[k] : order[p] \in Positions
        BY <4>1
      <4>3. \A p \in P : p \in F[k]
        OBVIOUS
      <4> QED  BY <2>3, <4>2, <4>3
    <3>2. mesh \in [Positions -> Triangles]
      BY <2>1 DEF Build, Arrays
    <3>3. Inside(BoxOf(some), BoxOf(all))
      <4> HIDE DEF some, all
      <4> QED  BY <3>1, <3>2, BoxMonotone
    <3> QED  BY <2>2, <3>3
  <2>4. CASE nodes[k].leaf
    <3>1. ASSUME NEW i \in nodes[k].first .. nodes[k].first + nodes[k].count - 1
          PROVE  Inside(BoxOf({order[i]}), nodes[k].box)
      <4>1. {i} \in SUBSET F[k] /\ {i} # {}
        BY <2>2, <2>4
      <4>2. {order[p] : p \in {i}} = {order[i]}
        OBVIOUS
      <4>3. Inside(BoxOf({order[p] : p \in {i}}), nodes[k].box)
        BY <2>3, <4>1
      <4> QED  BY <4>2, <4>3
    <3> QED  BY <2>4, <3>1
  <2>5. CASE ~nodes[k].leaf
    <3>1. ASSUME NEW c \in {nodes[k].first, nodes[k].first + 1}
          PROVE  c \in DOMAIN nodes /\ Inside(nodes[c].box, nodes[k].box)
      <4>1. c \in DOMAIN nodes /\ F[c] \in SUBSET F[k] /\ F[c] # {}
        BY <2>2, <2>5
      <4>2. Inside(BoxOf({order[p] : p \in F[c]}), nodes[k].box)
        BY <2>3, <4>1
      <4>3. nodes[c].box = BoxOf({order[p] : p \in F[c]})
        BY <2>2, <4>1
      <4> QED  BY <4>1, <4>2, <4>3
    <3> QED  BY <2>5, <3>1
  <2> QED  BY <2>4, <2>5
<1> QED  BY <1>1, BvhInvariant, PTL

(* The search that prunes finds what a test of every face finds: the       *)
(* nearest intersection, or none when another shape is nearer              *)
(* (bvh.cpp:37-73, mesh.cpp:250-259).                                      *)
THEOREM SearchFindsNearest == Spec => []NearestFound
<1>1. BvhInv => NearestFound
  <2> SUFFICES ASSUME BvhInv, phase = "trace", todo = <<>>
               PROVE  t = Nearest(Positions, reach)
    BY DEF NearestFound
  <2>1. PICK F : Search(F)
    BY DEF BvhInv
  <2> DEFINE S == {reach} \cup {x \in {meets[f] : f \in Positions} : x > 0 /\ x < reach}
  <2>2. /\ meets \in [Positions -> Int] /\ reach \in Int /\ t \in Int /\ t <= reach
        /\ t = reach \/ \E f \in Positions : meets[f] = t /\ 0 < t /\ t < reach
    BY DEF BvhInv, Query, Infinity
  <2>3. S \in SUBSET Int /\ t \in S
    BY <2>2
  <2>4. ASSUME NEW f \in Positions  PROVE meets[f] <= 0 \/ meets[f] >= t
    <3>1. PICK p \in Positions : order[p] = f
      BY DEF BvhInv, Build, Arrays
    <3>2. Len(todo) = 0 /\ 1 .. 0 = {}
      OBVIOUS
    <3> QED  BY <2>1, <3>1, <3>2 DEF Search
  <2>5. \A y \in S : t <= y
    BY <2>2, <2>4
  <2>6. Least(S) = t
    <3> HIDE DEF S
    <3> QED  BY <2>3, <2>5, LeastUnique
  <2> QED  BY <2>6 DEF Nearest
<1> QED  BY <1>1, BvhInvariant, PTL

-----------------------------------------------------------------------------
(* How many nodes there are: an inner node has two children, so they are   *)
(* one less than twice the leaves and pending nodes, of which each holds   *)
(* faces that no other holds.                                              *)
Bottoms == {k \in DOMAIN nodes : Bottom(k)}
Counted == phase # "start" => Cardinality(DOMAIN nodes) = 2 * Cardinality(Bottoms) - 1

(* The nodes and the bottoms among them are finitely many.                 *)
LEMMA NodesFinite ==
  ASSUME Build
  PROVE  /\ IsFiniteSet(DOMAIN nodes) /\ IsFiniteSet(Bottoms)
         /\ Cardinality(DOMAIN nodes) \in Nat \ {0} /\ Cardinality(Bottoms) \in Nat
         /\ DOMAIN nodes = 0 .. Cardinality(DOMAIN nodes) - 1
<1>1. PICK K \in Nat \ {0} : DOMAIN nodes = 0 .. K - 1
  BY DEF Build, Stack
<1>2. 0 \in Int /\ K - 1 \in Int /\ 0 <= K - 1
  OBVIOUS
<1>3. /\ IsFiniteSet(0 .. K - 1)
      /\ Cardinality(0 .. K - 1) = IF 0 > K - 1 THEN 0 ELSE (K - 1) - 0 + 1
  BY <1>2, FS_Interval, Zenon
<1>4. Cardinality(DOMAIN nodes) = K
  BY <1>1, <1>3
<1>5. Bottoms \subseteq DOMAIN nodes
  BY DEF Bottoms
<1>6. IsFiniteSet(Bottoms)
  BY <1>1, <1>3, <1>5, FS_Subset, Zenon
<1>7. Cardinality(Bottoms) \in Nat
  BY <1>6, FS_CardinalityType
<1> QED  BY <1>1, <1>3, <1>4, <1>6, <1>7

(* There are no more bottoms than faces: pick a position below each.       *)
LEMMA FewBottoms ==
  ASSUME Build, NEW F, Tree(F)
  PROVE  Cardinality(Bottoms) <= N
<1> DEFINE g == [k \in Bottoms |-> CHOOSE p \in Positions : p \in F[k]]
<1>1. ASSUME NEW k \in Bottoms  PROVE g[k] \in Positions /\ g[k] \in F[k]
  <2>1. F[k] \in SUBSET Positions /\ F[k] # {}
    BY DEF Bottoms, Tree, Shape
  <2>2. \E p \in Positions : p \in F[k]
    BY <2>1
  <2> QED  BY <2>2
<1>2. ASSUME NEW k \in Bottoms, NEW m \in Bottoms, g[k] = g[m]  PROVE k = m
  <2>1. k # m => F[k] \cap F[m] = {}
    BY DEF Bottoms, Tree, Tiled
  <2>2. g[k] \in F[k] /\ g[k] \in F[m]
    BY <1>1, <1>2
  <2> QED  BY <2>1, <2>2
<1>3. g \in Injection(Bottoms, Positions)
  <2>1. g \in [Bottoms -> Positions]
    BY <1>1
  <2> HIDE DEF g
  <2> QED  BY <1>2, <2>1 DEF Injection, IsInjective
<1>4. IsFiniteSet(Positions) /\ Cardinality(Positions) = N
  <2>1. 0 \in Int /\ N - 1 \in Int /\ ~(0 > N - 1) /\ (N - 1) - 0 + 1 = N
    BY MeshAssumption
  <2>2. /\ IsFiniteSet(0 .. N - 1)
        /\ Cardinality(0 .. N - 1) = IF 0 > N - 1 THEN 0 ELSE (N - 1) - 0 + 1
    BY <2>1, FS_Interval, Zenon
  <2> QED  BY <2>1, <2>2 DEF Positions
<1> HIDE DEF g
<1>5. Cardinality(Bottoms) <= Cardinality(Positions)
  BY <1>3, <1>4, FS_Injection, Zenon
<1> QED  BY <1>4, <1>5

(* A step that keeps the nodes and the bottoms keeps the count.            *)
LEMMA SameCount ==
  ASSUME Counted, phase # "start", SameBottoms
  PROVE  Counted'
<1>1. DOMAIN nodes' = DOMAIN nodes /\ Bottoms' = Bottoms
  BY DEF SameBottoms, Bottoms
<1> QED  BY <1>1 DEF Counted

(* The first step leaves the root as the only node, and as a bottom.       *)
LEMMA RootCount ==
  ASSUME DOMAIN nodes' = {0}, Bottom(0)'
  PROVE  Counted'
<1>1. Bottoms' = {0}
  BY DEF Bottoms
<1>2. Cardinality({0}) = 1
  BY FS_Singleton
<1> QED  BY <1>1, <1>2 DEF Counted

(* A division has two nodes and one bottom more than before.               *)
LEMMA DivisionCount ==
  ASSUME Build, NEW F, Tree(F), Counted, Divide, Build'
  PROVE  Counted'
<1> DEFINE n == Call.node
<1>1. PICK K \in Nat \ {0}, mid \in Middles :
        /\ DOMAIN nodes = 0 .. K - 1
        /\ phase = "split" /\ l >= r /\ ~Fruitless(mid) /\ Divided(mid, K)
  BY DivideCases
<1>2. phase' = "build" /\ calls # <<>> /\ Call.level < MaxDepth
  BY <1>1 DEF Divide, Build, Stack
<1>3. mid \in Call.start + 1 .. Call.end - 1
  BY <1>1, MiddleDivides
<1>4. n \in 0 .. K - 1 /\ Bottom(n)
  BY <1>1, <1>2, RunningCall DEF Bottom
<1>5. /\ nodes' \in [0 .. K + 1 -> [box : Boxes, leaf : BOOLEAN, first : Nat, count : Nat]]
      /\ Pending(K)' /\ Pending(K + 1)'
      /\ \A k \in 0 .. K - 1 : Bottom(k)' <=> Bottom(k) /\ k # n
  BY <1>1, <1>2, <1>3, DividedNodes, Zenon
<1>6. DOMAIN nodes' = 0 .. K + 1
  BY <1>5
<1> HIDE DEF n
<1> DEFINE old == Bottoms \ {n}
<1>7. Bottoms' = (old \cup {K}) \cup {K + 1}
  <2>1. Bottom(K)' /\ Bottom(K + 1)'
    BY <1>5 DEF Bottom
  <2>2. \A k : k \in Bottoms' <=> k \in 0 .. K + 1 /\ Bottom(k)'
    BY <1>6 DEF Bottoms
  <2>3. \A k : k \in old <=> k \in 0 .. K - 1 /\ Bottom(k) /\ k # n
    BY <1>1 DEF Bottoms
  <2>4. \A k : k \in 0 .. K + 1 <=> k \in 0 .. K - 1 \/ k = K \/ k = K + 1
    OBVIOUS
  <2> HIDE DEF old
  <2> QED  BY <1>5, <2>1, <2>2, <2>3, <2>4
<1>8. IsFiniteSet(Bottoms) /\ n \in Bottoms /\ Cardinality(Bottoms) \in Nat
  BY <1>1, <1>4, NodesFinite DEF Bottoms
<1>9. IsFiniteSet(old) /\ Cardinality(old) = Cardinality(Bottoms) - 1
  BY <1>8, FS_RemoveElement
<1>10. K \notin old /\ K + 1 \notin old \cup {K}
  BY <1>1 DEF Bottoms
<1> HIDE DEF old
<1>11. /\ IsFiniteSet(old \cup {K})
       /\ Cardinality(old \cup {K}) = Cardinality(old) + 1
  BY <1>9, <1>10, FS_AddElement
<1>12. Cardinality((old \cup {K}) \cup {K + 1}) = Cardinality(old \cup {K}) + 1
  BY <1>10, <1>11, FS_AddElement
<1>13. Cardinality(0 .. K - 1) = K /\ Cardinality(0 .. K + 1) = K + 2
  <2>1. /\ 0 \in Int /\ K - 1 \in Int /\ ~(0 > K - 1) /\ (K - 1) - 0 + 1 = K
        /\ K + 1 \in Int /\ ~(0 > K + 1) /\ (K + 1) - 0 + 1 = K + 2
    OBVIOUS
  <2>2. Cardinality(0 .. K - 1) = IF 0 > K - 1 THEN 0 ELSE (K - 1) - 0 + 1
    BY <2>1, FS_Interval, Zenon
  <2>3. Cardinality(0 .. K + 1) = IF 0 > K + 1 THEN 0 ELSE (K + 1) - 0 + 1
    BY <2>1, FS_Interval, Zenon
  <2> QED  BY <2>1, <2>2, <2>3
<1>14. K = 2 * Cardinality(Bottoms) - 1
  BY <1>1, <1>13 DEF Counted
<1>15. Cardinality(Bottoms') = Cardinality(Bottoms) + 1
  BY <1>7, <1>8, <1>9, <1>11, <1>12
<1>16. Cardinality(DOMAIN nodes') = 2 * Cardinality(Bottoms') - 1
  BY <1>6, <1>8, <1>13, <1>14, <1>15
<1> QED  BY <1>16 DEF Counted

(* Every step keeps the count.                                             *)
LEMMA CountStep == BvhInv /\ Counted /\ [Next]_vars => Counted'
<1> SUFFICES ASSUME BvhInv, Counted, [Next]_vars  PROVE Counted'
  OBVIOUS
<1>1. PICK F : Tree(F) /\ Build /\ Query
  BY DEF BvhInv
<1>2. BvhInv'
  BY BvhStep
<1>3. CASE BuildLeaf
  <2>1. /\ DOMAIN nodes = {0} /\ nodes' = [nodes EXCEPT ![0] = Leaf(BoxOf(Positions), 0, N)]
    BY <1>1, <1>3, Start DEF BuildLeaf
  <2>2. DOMAIN nodes' = {0} /\ nodes'[0].leaf
    BY <2>1 DEF Leaf
  <2> QED  BY <2>2, RootCount DEF Bottom
<1>4. CASE BuildRoot
  <2>1. DOMAIN nodes' = {0} /\ calls' = <<[node |-> 0, start |-> 0, end |-> N, level |-> 0]>>
    BY <1>1, <1>4, Start DEF BuildRoot, tree
  <2>2. Len(calls') = 1 /\ calls'[1].node = 0 /\ 1 \in 1 .. Len(calls')
    BY <2>1
  <2> QED  BY <2>1, <2>2, RootCount DEF Bottom, Pending
<1>5. CASE StopNode
  BY <1>1, <1>5, StopNodeKeeps, SameCount DEF StopNode
<1>6. CASE OpenNode
  BY <1>1, <1>6, OpenNodeKeeps, SameCount DEF OpenNode
<1>7. CASE Scan
  BY <1>1, <1>7, ScanKeeps, SameCount DEF Scan
<1>8. CASE KeepWhole
  BY <1>1, <1>8, KeepWholeKeeps, SameCount DEF KeepWhole
<1>9. CASE Divide
  BY <1>1, <1>2, <1>9, DivisionCount DEF BvhInv
<1>10. CASE BuildReturns \/ Shoot \/ VisitLeaf \/ VisitInner \/ Prune \/ Answer \/ UNCHANGED vars
  <2>1. nodes' = nodes /\ calls' = calls
    BY <1>10 DEF BuildReturns, Shoot, VisitLeaf, VisitInner, Prune, Answer, vars, tree, build
  <2>2. phase # "start" \/ phase' = phase
    BY <1>10 DEF BuildReturns, Shoot, VisitLeaf, VisitInner, Prune, Answer, vars
  <2>3. SameBottoms
    BY <2>1 DEF SameBottoms, Bottom, Pending
  <2>4. CASE phase # "start"
    BY <2>3, <2>4, SameCount
  <2>5. CASE phase = "start"
    BY <2>2, <2>5 DEF Counted
  <2> QED  BY <2>4, <2>5
<1> QED  BY <1>3, <1>4, <1>5, <1>6, <1>7, <1>8, <1>9, <1>10 DEF Next

(* A tree over N faces never has more than 2N nodes, no subscript leaves   *)
(* its array but for the one in Middles, and every variable keeps its type *)
(* (bvh.cpp:213-215).                                                      *)
THEOREM BvhTypes == Spec => []BvhTypeOK
<1>1. Init => Counted
  BY DEF Init, Counted
<1>2. Spec => []Counted
  <2>1. BvhInv /\ BvhInv' /\ Counted /\ [Next]_vars => Counted'
    BY CountStep
  <2> QED  BY <1>1, <2>1, BvhInvariant, PTL DEF Spec
<1>3. BvhInv /\ Counted => BvhTypeOK
  <2> SUFFICES ASSUME BvhInv, Counted  PROVE BvhTypeOK
    OBVIOUS
  <2>1. PICK F : Tree(F) /\ Build /\ Query
    BY DEF BvhInv
  <2> DEFINE Record == [box : Boxes, leaf : BOOLEAN, first : Nat, count : Nat]
  <2>2. \E k \in 1 .. 2 * N : nodes \in [0 .. k - 1 -> Record]
    <3>1. PICK K \in Nat \ {0} : nodes \in [0 .. K - 1 -> Record]
      BY <2>1 DEF Build, Stack
    <3> HIDE DEF Record
    <3>2. DOMAIN nodes = 0 .. K - 1
      BY <3>1
    <3>3. Cardinality(DOMAIN nodes) = K
      <4>1. 0 \in Int /\ K - 1 \in Int /\ ~(0 > K - 1) /\ (K - 1) - 0 + 1 = K
        OBVIOUS
      <4>2. Cardinality(0 .. K - 1) = IF 0 > K - 1 THEN 0 ELSE (K - 1) - 0 + 1
        BY <4>1, FS_Interval, Zenon
      <4> QED  BY <3>2, <4>1, <4>2
    <3>4. Cardinality(Bottoms) \in Nat /\ Cardinality(Bottoms) <= N
      BY <2>1, NodesFinite, FewBottoms
    <3>5. K <= 2 * N
      <4>1. CASE phase = "start"
        <5>1. DOMAIN nodes = {0}
          BY <2>1, <4>1, Start
        <5>2. K = 1
          BY <3>3, <5>1, FS_Singleton
        <5> QED  BY <5>2, MeshAssumption
      <4>2. CASE phase # "start"
        BY <3>3, <3>4, <4>2, MeshAssumption DEF Counted
      <4> QED  BY <4>1, <4>2
    <3> QED  BY <3>1, <3>5
  <2>3. ASSUME NEW i \in DOMAIN calls
        PROVE  /\ calls[i].node \in DOMAIN nodes
               /\ 0 <= calls[i].start /\ calls[i].start < calls[i].end /\ calls[i].end <= N
               /\ calls[i].level \in 0 .. MaxDepth
    <3>1. i \in 1 .. Len(calls)
      <4>1. calls \in Seq([node : DOMAIN nodes, start : Nat, end : Nat, level : 0 .. MaxDepth])
        BY <2>1 DEF Build, Stack
      <4> QED  BY <4>1
    <3>2. /\ calls[i].node \in DOMAIN nodes /\ calls[i].start \in Nat
          /\ calls[i].level \in 0 .. MaxDepth
      BY <2>1, <3>1, CallsTyped
    <3>3. calls[i].start < calls[i].end /\ calls[i].end <= N
      BY <2>1, <3>1 DEF Build, Stack
    <3> QED  BY <3>2, <3>3
  <2>4. ASSUME NEW i \in DOMAIN todo  PROVE todo[i] \in DOMAIN nodes
    <3>1. phase # "trace" => todo = <<>>
      BY <2>1 DEF Query
    <3>2. phase = "trace" => todo \in Seq(DOMAIN nodes)
      BY <2>1 DEF Query
    <3>3. CASE phase = "trace"
      BY <3>2, <3>3
    <3>4. CASE phase # "trace"
      BY <3>1, <3>4
    <3> QED  BY <3>3, <3>4
  <2>5. /\ mesh \in [Positions -> Triangles]
        /\ order \in [Positions -> Positions]
        /\ centroid \in [Positions -> Positions]
    BY <2>1 DEF Build, Arrays
  <2>6. /\ phase \in {"start", "build", "split", "ready", "trace", "aborted"}
        /\ l \in 0 .. N /\ r \in -1 .. N - 1
        /\ height \in Heights /\ meets \in [Positions -> Int]
    BY <2>1 DEF Build, Stack, Cursors, Query
  <2> HIDE DEF Record
  <2> QED  BY <2>2, <2>3, <2>4, <2>5, <2>6 DEF BvhTypeOK, Record
<1> QED  BY <1>2, <1>3, BvhInvariant, PTL
=============================================================================
