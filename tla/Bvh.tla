--------------------------------- MODULE Bvh ---------------------------------
(***************************************************************************)
(* BVH (accelerators/bvh.h, accelerators/bvh.cpp): the tree of bounding    *)
(* boxes a Mesh builds over its faces (shapes/mesh.cpp), and the search    *)
(* for the nearest intersection of a ray with them.                        *)
(*                                                                         *)
(* buildNode sorts a range of the array m_faces in place by a plane and    *)
(* calls itself on the two parts; calls is its stack, the running call     *)
(* first.  intersectNode calls itself on the children of a node; todo is   *)
(* its stack.                                                              *)
(*                                                                         *)
(* Points have two coordinates here and arithmetic is exact.  The ray is   *)
(* parallel to the first axis, at a height that no vertex has, so the box  *)
(* test divides by zero in the second coordinate as it does in the code.   *)
(* Where the ray meets a face is left open within the face's box.          *)
(***************************************************************************)
EXTENDS Integers, Sequences, FiniteSets

CONSTANTS
  N,              (* The number of faces of the mesh.                      *)
  Triangles,      (* The faces a mesh may have: triples of points.         *)
  TargetCellSize, (* 10 in Mesh::buildBVH.                                 *)
  MaxDepth,       (* 100 in Mesh::buildBVH.                                *)
  NbFacesRange,   (* nb_faces is an unsigned short: 65536.                 *)
  Heights,        (* The ray runs half a unit above one of these.          *)
  Asserts         (* A Debug build; the default, Release, has NDEBUG.      *)

ASSUME MeshAssumption ==
  /\ N \in Nat \ {0}
  /\ \A f \in Triangles : \A i \in 1 .. 3 : f[i] \in Int \X Int
  /\ TargetCellSize \in Nat \ {0} /\ MaxDepth \in Nat
  /\ NbFacesRange \in Nat /\ N < NbFacesRange
  /\ Heights \subseteq Int
  /\ Asserts \in BOOLEAN

VARIABLES
  mesh,       (* The vertices of each face.                                *)
  order,      (* m_faces: the face at each position.                       *)
  centroid,   (* m_centroids: the face whose centroid is at each position. *)
  nodes,      (* m_nodes                                                   *)
  phase,      (* start, build, split, ready, trace, aborted                *)
  calls,      (* The stack of buildNode.                                   *)
  l, r,       (* The variables of split.                                   *)
  height,     (* The ray ...                                               *)
  meets,      (* ... and where it meets each face.                         *)
  reach,      (* hit.t when the ray arrives at the mesh.                   *)
  t,          (* hit.t                                                     *)
  todo        (* The stack of intersectNode.                               *)

tree  == <<mesh, order, centroid, nodes>>
build == <<calls, l, r>>
query == <<height, meets, reach, t, todo>>
vars  == <<tree, phase, build, query>>

Positions == 0 .. N - 1
Axes == 1 .. 2

(* The largest float: no hit yet.  Never: the ray misses a face.           *)
Infinity == 1000
Never    == Infinity

-----------------------------------------------------------------------------
(* Boxes.                                                                  *)
Least(S)    == CHOOSE x \in S : \A y \in S : x <= y
Greatest(S) == CHOOSE x \in S : \A y \in S : x >= y

(* A new box is empty: it is reset to an inverted one.                     *)
EmptyBox == [lo |-> <<Infinity, Infinity>>, hi |-> <<-Infinity, -Infinity>>]

(* The box of the vertices of some faces.                                  *)
BoxOf(faces) ==
  LET at(a) == {mesh[f][i][a] : f \in faces, i \in 1 .. 3}
  IN  [lo |-> [a \in Axes |-> Least(at(a))], hi |-> [a \in Axes |-> Greatest(at(a))]]

(* Faulty variants, here and below, are ones a run must notice.  Here the  *)
(* faces are not looked up in m_faces.                                     *)
FacesInUnsorted(start, end) == start .. end - 1

FacesIn(start, end) == {order[i] : i \in start .. end - 1}

(* The first of the longest sides of a box.                                *)
LongestAxis(box) ==
  IF box.hi[2] - box.lo[2] > box.hi[1] - box.lo[1] THEN 2 ELSE 1

(* The centroid at position i lies below the middle of the box: the sum of *)
(* three vertices against that of two corners.                             *)
Below(i, box) ==
  LET a == LongestAxis(box)
      v == mesh[centroid[i]]
  IN  2 * (v[1][a] + v[2][a] + v[3][a]) < 3 * (box.lo[a] + box.hi[a])

-----------------------------------------------------------------------------
NewNode == [box |-> EmptyBox, leaf |-> FALSE, first |-> 0, count |-> 0]

(* Faulty variant: end is taken for the last position of the range.        *)
LeafShort(box, start, end) ==
  [box |-> box, leaf |-> TRUE, first |-> start, count |-> (end - 1 - start) % NbFacesRange]

Leaf(box, start, end) ==
  [box |-> box, leaf |-> TRUE, first |-> start, count |-> (end - start) % NbFacesRange]

Init ==
  /\ mesh \in [Positions -> Triangles]
  /\ order = [i \in Positions |-> i]
  /\ centroid = [i \in Positions |-> i]
  /\ nodes = [i \in {0} |-> NewNode]
  /\ phase = "start"
  /\ calls = <<>>
  /\ l = 0 /\ r = 0
  /\ height \in Heights
  /\ meets = [f \in Positions |-> Never]
  /\ reach = Infinity /\ t = Infinity
  /\ todo = <<>>

(* build: a mesh of few faces is one leaf ...                              *)
BuildLeaf ==
  /\ phase = "start"
  /\ N <= TargetCellSize
  /\ nodes' = [nodes EXCEPT ![0] = Leaf(BoxOf(Positions), 0, N)]
  /\ phase' = "ready"
  /\ UNCHANGED <<mesh, order, centroid, build, query>>

(* ... and a larger one is split, from the root on.                        *)
BuildRoot ==
  /\ phase = "start"
  /\ N > TargetCellSize
  /\ calls' = <<[node |-> 0, start |-> 0, end |-> N, level |-> 0]>>
  /\ phase' = "build"
  /\ UNCHANGED <<tree, l, r, query>>

Call == Head(calls)

(* buildNode makes a leaf of the running call's range and returns.  The    *)
(* assertion follows: node.nb_faces < m_faces.size().                      *)
MakeLeaf(box) ==
  /\ nodes' = [nodes EXCEPT ![Call.node] = Leaf(box, Call.start, Call.end)]
  /\ calls' = Tail(calls)
  /\ phase' = IF Asserts /\ ~(nodes'[Call.node].count < N) THEN "aborted" ELSE "build"

(* The head of buildNode: the box, and a leaf if the range is small or the *)
(* tree deep; otherwise split is called.                                   *)
StopNode ==
  /\ phase = "build"
  /\ calls # <<>>
  /\ Call.end - Call.start <= TargetCellSize \/ Call.level >= MaxDepth
  /\ MakeLeaf(BoxOf(FacesIn(Call.start, Call.end)))
  /\ UNCHANGED <<mesh, order, centroid, l, r, query>>

OpenNode ==
  /\ phase = "build"
  /\ calls # <<>>
  /\ Call.end - Call.start > TargetCellSize /\ Call.level < MaxDepth
  /\ nodes' = [nodes EXCEPT ![Call.node].box = BoxOf(FacesIn(Call.start, Call.end)),
                            ![Call.node].leaf = FALSE]
  /\ l' = Call.start
  /\ r' = Call.end - 1
  /\ phase' = "split"
  /\ UNCHANGED <<mesh, order, centroid, calls, query>>

Box == nodes[Call.node].box

Swap(f, i, k) == [f EXCEPT ![i] = f[k], ![k] = f[i]]

(* Faulty variants: the centroids stay behind; nothing is swapped and the  *)
(* scans do not move on.                                                   *)
ScanFacesOnly ==
  /\ phase = "split"
  /\ l < r
  /\ LET x == Least({i \in l .. Call.end : i = Call.end \/ ~Below(i, Box)})
         y == Greatest({i \in Call.start - 1 .. r : i < Call.start \/ Below(i, Box)})
     IN  IF x > y
           THEN /\ l' = x /\ r' = y
                /\ UNCHANGED <<order, centroid>>
           ELSE /\ l' = x + 1 /\ r' = y - 1
                /\ order' = Swap(order, x, y)
                /\ UNCHANGED centroid
  /\ UNCHANGED <<mesh, nodes, phase, calls, query>>

ScanStuck ==
  /\ phase = "split"
  /\ l < r
  /\ LET x == Least({i \in l .. Call.end : i = Call.end \/ ~Below(i, Box)})
         y == Greatest({i \in Call.start - 1 .. r : i < Call.start \/ Below(i, Box)})
     IN  IF x > y
           THEN l' = x /\ r' = y
           ELSE UNCHANGED <<l, r>>
  /\ UNCHANGED <<order, centroid, mesh, nodes, phase, calls, query>>

(* One iteration of the outer loop of split: l moves right to a centroid   *)
(* that is not below the plane, r left to one that is, and they change     *)
(* places unless l and r have crossed.                                     *)
Scan ==
  /\ phase = "split"
  /\ l < r
  /\ LET x == Least({i \in l .. Call.end : i = Call.end \/ ~Below(i, Box)})
         y == Greatest({i \in Call.start - 1 .. r : i < Call.start \/ Below(i, Box)})
     IN  IF x > y
           THEN /\ l' = x /\ r' = y
                /\ UNCHANGED <<order, centroid>>
           ELSE /\ l' = x + 1 /\ r' = y - 1
                /\ order' = Swap(order, x, y)
                /\ centroid' = Swap(centroid, x, y)
  /\ UNCHANGED <<mesh, nodes, phase, calls, query>>

(* Faulty variant: the centroid where l stopped is not looked at.          *)
MiddlesLeft == {l}

(* split returns the middle.  When every centroid of the last range is     *)
(* below the plane, it reads one position past the end of m_centroids and  *)
(* may find anything there.                                                *)
Middles ==
  LET below == IF l < N THEN {Below(l, Box)} ELSE BOOLEAN
  IN  {IF b THEN l + 1 ELSE l : b \in below}

(* Faulty variant: only an empty left part counts as no improvement.       *)
FruitlessLeft(mid) == mid = Call.start

(* The rest of buildNode: without improvement the node becomes a leaf;     *)
(* otherwise its children are the next two nodes.                          *)
Fruitless(mid) == mid = Call.start \/ mid >= Call.end

KeepWhole ==
  /\ phase = "split"
  /\ l >= r
  /\ \E mid \in Middles : Fruitless(mid)
  /\ MakeLeaf(Box)
  /\ UNCHANGED <<mesh, order, centroid, l, r, query>>

Divide ==
  /\ phase = "split"
  /\ l >= r
  /\ \E mid \in Middles :
       /\ ~Fruitless(mid)
       /\ LET k == Cardinality(DOMAIN nodes)
              child(id, start, end) ==
                [node |-> id, start |-> start, end |-> end, level |-> Call.level + 1]
          IN  /\ nodes' = [i \in 0 .. k + 1 |->
                             IF i >= k THEN NewNode
                             ELSE IF i = Call.node THEN [nodes[i] EXCEPT !.first = k]
                             ELSE nodes[i]]
              /\ calls' = <<child(k, Call.start, mid), child(k + 1, mid, Call.end)>>
                          \o Tail(calls)
  /\ phase' = "build"
  /\ UNCHANGED <<mesh, order, centroid, l, r, query>>

BuildReturns ==
  /\ phase = "build"
  /\ calls = <<>>
  /\ phase' = "ready"
  /\ UNCHANGED <<tree, build, query>>

-----------------------------------------------------------------------------
(* The interval of the ray that lies in a box, as rayIntersect computes it *)
(* for a ray that starts at 0.                                             *)
TMin(box) == IF height < box.lo[2] THEN Infinity ELSE box.lo[1]
TMax(box) == IF height >= box.hi[2] THEN -Infinity ELSE box.hi[1]

(* Faulty variant: a ray that starts in the box does not enter it.         *)
EntersAhead(box) == TMin(box) < t /\ TMin(box) <= TMax(box) /\ TMin(box) > 0

Enters(box) == TMin(box) < t /\ TMin(box) <= TMax(box) /\ TMax(box) > 0

(* A ray that meets some faces, each within its box, and that may have met *)
(* another shape of the scene before.                                      *)
Meetings(f) ==
  LET box == BoxOf({f})
  IN  {Never} \cup
      {x \in box.lo[1] .. box.hi[1] : height >= box.lo[2] /\ height < box.hi[2]}

Shoot ==
  /\ phase = "ready"
  /\ LET where == [f \in Positions |-> Meetings(f)]
     IN  \E hits \in [Positions -> UNION {where[f] : f \in Positions}] :
           /\ \A f \in Positions : hits[f] \in where[f]
           /\ meets' = hits
  /\ reach' \in {2, Infinity}
  /\ t' = reach'
  /\ todo' = <<0>>
  /\ phase' = "trace"
  /\ UNCHANGED <<tree, build, height>>

(* intersectFace for the faces of a leaf, one after the other.             *)
Nearest(faces, bound) ==
  Least({bound} \cup {x \in {meets[f] : f \in faces} : x > 0 /\ x < bound})

VisitLeaf ==
  /\ phase = "trace"
  /\ todo # <<>>
  /\ LET node == nodes[Head(todo)]
     IN  /\ Enters(node.box)
         /\ node.leaf
         /\ t' = Nearest(FacesIn(node.first, node.first + node.count), t)
  /\ todo' = Tail(todo)
  /\ UNCHANGED <<tree, phase, build, height, meets, reach>>

(* The child the ray enters first is visited first; whether the ray enters *)
(* the other is decided after that, with the hit found by then.            *)
VisitInner ==
  /\ phase = "trace"
  /\ todo # <<>>
  /\ LET node == nodes[Head(todo)]
         a == node.first
         b == node.first + 1
     IN  /\ Enters(node.box)
         /\ ~node.leaf
         /\ todo' = (IF TMin(nodes[a].box) > TMin(nodes[b].box) THEN <<b, a>> ELSE <<a, b>>)
                    \o Tail(todo)
  /\ UNCHANGED <<tree, phase, build, height, meets, reach, t>>

Prune ==
  /\ phase = "trace"
  /\ todo # <<>>
  /\ ~Enters(nodes[Head(todo)].box)
  /\ todo' = Tail(todo)
  /\ UNCHANGED <<tree, phase, build, height, meets, reach, t>>

(* intersect returns; the ray and the hit belonged to the caller.          *)
Answer ==
  /\ phase = "trace"
  /\ todo = <<>>
  /\ phase' = "ready"
  /\ meets' = [f \in Positions |-> Never]
  /\ reach' = Infinity /\ t' = Infinity
  /\ UNCHANGED <<tree, build, height, todo>>

Next ==
  \/ BuildLeaf \/ BuildRoot \/ StopNode \/ OpenNode
  \/ Scan \/ KeepWhole \/ Divide \/ BuildReturns
  \/ Shoot \/ VisitLeaf \/ VisitInner \/ Prune \/ Answer

(* build and intersect run to their end; nobody has to shoot a ray.        *)
Compute == phase # "ready" /\ Next

Spec == Init /\ [][Next]_vars /\ WF_vars(Compute)
=============================================================================
