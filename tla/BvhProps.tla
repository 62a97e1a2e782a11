------------------------------- MODULE BvhProps -------------------------------
(***************************************************************************)
(* What the tree of bounding boxes promises to Mesh::intersect.            *)
(***************************************************************************)
EXTENDS Bvh

Boxes == [lo : [Axes -> Int], hi : [Axes -> Int]]

(* Every variable of the tree and of its two recursions keeps its type; no *)
(* subscript leaves its array, but for the one read in Middles.            *)
BvhTypeOK ==
  /\ mesh \in [Positions -> Triangles]
  /\ order \in [Positions -> Positions]
  /\ centroid \in [Positions -> Positions]
  /\ \E k \in 1 .. 2 * N :
       nodes \in [0 .. k - 1 -> [box : Boxes, leaf : BOOLEAN, first : Nat, count : Nat]]
  /\ phase \in {"start", "build", "split", "ready", "trace", "aborted"}
  /\ \A i \in DOMAIN calls :
       /\ calls[i].node \in DOMAIN nodes
       /\ 0 <= calls[i].start /\ calls[i].start < calls[i].end /\ calls[i].end <= N
       /\ calls[i].level \in 0 .. MaxDepth
  /\ l \in 0 .. N /\ r \in -1 .. N - 1
  /\ height \in Heights
  /\ meets \in [Positions -> Int]
  /\ \A i \in DOMAIN todo : todo[i] \in DOMAIN nodes

(* However often split swaps, no face is lost or listed twice, and the     *)
(* centroid at a position stays that of the face at that position: the two *)
(* arrays are sorted together (bvh.cpp:90-91).                             *)
Aligned ==
  /\ centroid = order
  /\ \A i, k \in Positions : order[i] = order[k] => i = k

(* Once the tree is built every position of m_faces lies in exactly one    *)
(* leaf, so intersect tests every face at most once, and none is out of    *)
(* its reach (bvh.cpp:201-219).                                            *)
LeavesTile ==
  phase \in {"ready", "trace"} =>
    \A i \in Positions :
      \E k \in DOMAIN nodes :
        /\ nodes[k].leaf /\ i \in nodes[k].first .. nodes[k].first + nodes[k].count - 1
        /\ \A m \in DOMAIN nodes \ {k} :
             nodes[m].leaf =>
               i \notin nodes[m].first .. nodes[m].first + nodes[m].count - 1

Inside(a, b) == \A x \in Axes : b.lo[x] <= a.lo[x] /\ a.hi[x] <= b.hi[x]

(* Every box encloses the boxes of its children, or its faces: swapping    *)
(* faces in a range later does not move one out of a box computed before   *)
(* (bvh.cpp:108-117).                                                      *)
BoxesEnclose ==
  phase \in {"ready", "trace"} =>
    \A k \in DOMAIN nodes :
      IF nodes[k].leaf
        THEN \A i \in nodes[k].first .. nodes[k].first + nodes[k].count - 1 :
               Inside(BoxOf({order[i]}), nodes[k].box)
        ELSE \A c \in {nodes[k].first, nodes[k].first + 1} :
               c \in DOMAIN nodes /\ Inside(nodes[c].box, nodes[k].box)

(* A node is divided where the plane divides it: the centroids before the  *)
(* middle lie below the plane and the others do not (bvh.cpp:77-79), for   *)
(* every way l and r can meet or cross.                                    *)
DividedByPlane ==
  phase = "split" /\ phase' = "build" /\ Len(calls') = Len(calls) + 1 =>
    LET mid == calls'[2].start
    IN  /\ \A i \in Call.start .. mid - 1 : Below(i, Box)
        /\ \A i \in mid .. Call.end - 1 : ~Below(i, Box)

SplitSorts == [][DividedByPlane]_vars

(* The search that prunes and reorders finds what a test of every face     *)
(* finds (mesh.cpp:250-259): the nearest intersection, or none if another  *)
(* shape is nearer.                                                        *)
NearestFound ==
  phase = "trace" /\ todo = <<>> => t = Nearest(Positions, reach)

(* The tree is built in the end, although a range may be impossible to     *)
(* divide, and every search ends.                                          *)
ComputationsEnd == phase # "ready" ~> phase = "ready"

(* bvh.cpp:125 and 209 assert of every leaf of a mesh that is not itself a *)
(* leaf: node.nb_faces < m_faces.size().                                   *)
AssertionsHold == phase # "aborted"
=============================================================================
