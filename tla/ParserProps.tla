----------------------------- MODULE ParserProps -----------------------------
(***************************************************************************)
(* What a scene description means, and what the parser makes of it.        *)
(***************************************************************************)
EXTENDS Parser, FiniteSets

Objects == DOMAIN objects

(* The pointers handed from call to call are never null and never dangle:  *)
(* the children a call has collected are objects that were built and       *)
(* activated, each in one list, and a member points to null, to a default  *)
(* or to such an object.                                                   *)
ParserTypeOK ==
  /\ phase \in {"content", "children", "returned", "error", "crash"}
  /\ Objects \subseteq Nodes
  /\ \A i \in DOMAIN stack :
       /\ stack[i].left \subseteq Nodes
       /\ \A k \in DOMAIN stack[i].children :
            LET c == stack[i].children[k]
            IN  c \in Objects /\ objects[c].active /\ doc[c].parent = stack[i].node
  /\ \A n \in Objects :
       /\ objects[n].type \in Types /\ objects[n].active \in BOOLEAN
       /\ \A m \in Members : objects[n].member[m] \in Objects \cup {Null, Default}

-----------------------------------------------------------------------------
(* The grammar of scene descriptions, stated on the document alone.        *)
Kind(n) == IF doc[n].tag \in Classes THEN doc[n].type ELSE doc[n].tag
Count(n, kinds) == Cardinality({m \in ChildrenOf(n) : Kind(m) \in kinds})
Only(n, kinds) == \A m \in ChildrenOf(n) : doc[m].tag \in kinds \cup {"property", "transform"}

GoodNode(n) ==
  /\ ~doc[n].flaw
  /\ doc[n].tag \in Classes => doc[n].type \in Types /\ ClassOf[doc[n].type] = doc[n].tag
  /\ CASE Kind(n) = "transform" -> \A m \in ChildrenOf(n) : doc[m].tag = "op"
       [] Kind(n) \in {"property", "op"} -> ChildrenOf(n) = {}
       [] Kind(n) = "mesh" -> Only(n, {"bsdf"}) /\ Count(n, {"diffuse"}) <= 1
       [] Kind(n) = "perspective" -> Only(n, {"rfilter"}) /\ Count(n, {"gaussian"}) <= 1
       [] Kind(n) = "areaLight" -> Only(n, {"shape"}) /\ Count(n, {"mesh"}) <= 1
       [] Kind(n) = "ttest" -> Only(n, {"bsdf", "scene"})
       [] Kind(n) = "scene" ->
            /\ Only(n, {"shape", "light", "camera", "integrator", "sampler"})
            /\ Count(n, {"perspective"}) = 1 /\ Count(n, {"whitted"}) = 1
            /\ Count(n, {"independent"}) <= 1 /\ Count(n, {"infiniteLight"}) <= 1
            /\ \A m \in ChildrenOf(n) : Kind(m) = "areaLight" => Count(m, {"mesh"}) = 1
       [] OTHER -> Only(n, {})

WellFormed == doc[1].tag \in Classes /\ \A n \in Nodes : GoodNode(n)

(* What may make the parser follow a null pointer instead of reporting.    *)
Treacherous(n) ==
  \/ doc[n].tag \in Classes /\ doc[n].type \in Unprintable /\ ClassOf[doc[n].type] # doc[n].tag
  \/ Kind(n) = "areaLight" /\ Count(n, {"mesh"}) = 0

Verdict ==
  IF WellFormed THEN {"returned"}
  ELSE IF \E n \in Nodes : Treacherous(n) THEN {"error", "crash"} ELSE {"error"}

(* Every document is decided, and as the grammar says: the recursion with  *)
(* its checks before, its additions and its activations after the children *)
(* accepts exactly the well-formed ones (parser.cpp:130-315), whatever the *)
(* order of elements, and follows a null pointer in two cases only: an     *)
(* area light without a shape, and an object of the wrong class that       *)
(* cannot be printed yet.  An object whose class has no activate() of its  *)
(* own counts as good: the inherited one does nothing (object.cpp:28).     *)
(* Did it throw, as object.h:55 says, no scene could be loaded.            *)
Decides == <>(phase \in {"returned", "error", "crash"} /\ phase \in Verdict)

-----------------------------------------------------------------------------
(* The operations in the last transform of an object, the first of them    *)
(* applied first.                                                          *)
LastOf(S) == CHOOSE n \in S : \A m \in S : m <= n
Product[S \in SUBSET Nodes] ==
  IF S = {} THEN <<>> ELSE <<LastOf(S)>> \o Product[S \ {LastOf(S)}]

(* An object gets the product of the operations written in its own         *)
(* transform element and of no other, although all calls of parseTag share *)
(* one variable (parser.cpp:127, 171, 249), and the identity if it has     *)
(* none.                                                                   *)
TransformOwn ==
  \A n \in Objects :
    LET T == {m \in ChildrenOf(n) : doc[m].tag = "transform"}
    IN  objects[n].toWorld =
          (IF T = {} THEN <<>> ELSE Product[ChildrenOf(LastOf(T))])

(* What Viewer::render and the integrators take for granted of a scene:    *)
(* it has camera, integrator and sampler, its camera a filter, every shape *)
(* a material; every shape of the document, its own or that of an area     *)
(* light, is listed exactly once; a shape and its light name each other    *)
(* (scene.cpp:30-44, shape.cpp:12-17).                                     *)
Usable(s) ==
  /\ \A m \in {"camera", "integrator", "sampler"} : objects[s].member[m] # Null
  /\ objects[objects[s].member["camera"]].member["rfilter"] # Null
  /\ \A i \in DOMAIN objects[s].shapes : objects[objects[s].shapes[i]].member["bsdf"] # Null

ListsEachShape(s) ==
  LET list == objects[s].shapes
  IN  /\ {list[i] : i \in DOMAIN list} =
           {n \in Nodes : /\ doc[n].tag = "shape"
                          /\ \/ doc[n].parent = s
                             \/ \E l \in ChildrenOf(s) : doc[n].parent = l}
      /\ \A i, k \in DOMAIN list : list[i] = list[k] => i = k

Paired(s) ==
  \A i \in DOMAIN objects[s].shapes, k \in DOMAIN objects[s].lights :
    LET shape == objects[s].shapes[i]
        light == objects[s].lights[k]
    IN  objects[shape].member["light"] = light <=> objects[light].member["shape"] = shape

SceneComplete ==
  \A s \in Objects :
    objects[s].type = "scene" /\ objects[s].active =>
      Usable(s) /\ ListsEachShape(s) /\ Paired(s)
=============================================================================
