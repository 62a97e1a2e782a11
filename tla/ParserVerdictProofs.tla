------------------------- MODULE ParserVerdictProofs -------------------------
(***************************************************************************)
(* The parser accepts the documents of the grammar and no others, whatever *)
(* their size and the order of their elements.                             *)
(***************************************************************************)
EXTENDS ParserProofs

(* Only the first element of a file and what it contains is read           *)
(* (parser.cpp:318); here the file has no more.                            *)
OneRoot == \A n \in Nodes : n # 1 => doc[n].parent # 0

-----------------------------------------------------------------------------
(* A set of at most one element, in terms of its elements.                 *)
LEMMA AtMostOne ==
  ASSUME NEW S, IsFiniteSet(S)
  PROVE  /\ Cardinality(S) \in Nat
         /\ Cardinality(S) <= 1 <=> \A a, b \in S : a = b
         /\ Cardinality(S) = 0 <=> S = {}
<1>1. Cardinality(S) \in Nat /\ (Cardinality(S) = 0 <=> S = {})
  BY FS_CardinalityType, FS_EmptySet
<1>2. ASSUME \A a, b \in S : a = b  PROVE Cardinality(S) <= 1
  <2>1. CASE S = {}
    BY <1>1, <2>1
  <2>2. CASE S # {}
    <3>1. PICK a \in S : S = {a}
      BY <1>2, <2>2
    <3> QED  BY <3>1, FS_Singleton
  <2> QED  BY <2>1, <2>2
<1>3. ASSUME Cardinality(S) <= 1  PROVE \A a, b \in S : a = b
  <2>1. CASE S = {}
    BY <2>1
  <2>2. CASE S # {}
    <3>1. Cardinality(S) = 1
      BY <1>1, <1>3, <2>2
    <3> QED  BY <3>1, FS_Singleton
  <2> QED  BY <2>1, <2>2
<1> QED  BY <1>1, <1>2, <1>3

(* What the grammar counts, in terms of the children.                      *)
LEMMA CountIs ==
  ASSUME doc \in Files, NEW n, NEW kind
  PROVE  /\ Count(n, {kind}) \in Nat
         /\ Count(n, {kind}) <= 1 <=>
              \A a, b \in ChildrenOf(n) : Kind(a) = kind /\ Kind(b) = kind => a = b
         /\ Count(n, {kind}) = 0 <=> \A a \in ChildrenOf(n) : Kind(a) # kind
         /\ Count(n, {kind}) = 1 <=>
              /\ \A a, b \in ChildrenOf(n) : Kind(a) = kind /\ Kind(b) = kind => a = b
              /\ \E a \in ChildrenOf(n) : Kind(a) = kind
<1> DEFINE S == {m \in ChildrenOf(n) : Kind(m) \in {kind}}
<1>1. IsFiniteSet(S)
  <2>1. Len(doc) \in Nat /\ S \subseteq 1 .. Len(doc)
    BY Document
  <2> HIDE DEF S
  <2>2. IsFiniteSet(1 .. Len(doc))
    BY <2>1, FS_Interval
  <2> QED  BY <2>1, <2>2, FS_Subset
<1>2. Count(n, {kind}) = Cardinality(S)
  BY DEF Count
<1>3. \A a : a \in S <=> a \in ChildrenOf(n) /\ Kind(a) = kind
  OBVIOUS
<1> HIDE DEF S
<1>4. /\ Cardinality(S) \in Nat
      /\ Cardinality(S) <= 1 <=> \A a, b \in S : a = b
      /\ Cardinality(S) = 0 <=> S = {}
  BY <1>1, AtMostOne
<1>5. Cardinality(S) = 1 <=> Cardinality(S) <= 1 /\ Cardinality(S) # 0
  BY <1>4
<1>6. Cardinality(S) <= 1 <=>
        \A a, b \in ChildrenOf(n) : Kind(a) = kind /\ Kind(b) = kind => a = b
  BY <1>3, <1>4
<1>7. Cardinality(S) = 0 <=> \A a \in ChildrenOf(n) : Kind(a) # kind
  BY <1>3, <1>4
<1> QED  BY <1>2, <1>4, <1>5, <1>6, <1>7

-----------------------------------------------------------------------------
(* The numbers of children the grammar prescribes for an object.           *)
Counts(n) ==
  /\ doc[n].type = "mesh" => Count(n, {"diffuse"}) <= 1
  /\ doc[n].type = "perspective" => Count(n, {"gaussian"}) <= 1
  /\ doc[n].type = "areaLight" => Count(n, {"mesh"}) <= 1
  /\ doc[n].type = "scene" =>
       /\ Count(n, {"perspective"}) = 1 /\ Count(n, {"whitted"}) = 1
       /\ Count(n, {"independent"}) <= 1 /\ Count(n, {"infiniteLight"}) <= 1
       /\ \A m \in ChildrenOf(n) : Kind(m) = "areaLight" => Count(m, {"mesh"}) = 1

(* An object may contain what it accepts as a child, in these numbers.     *)
LEMMA GoodObject ==
  ASSUME NEW n, doc[n].tag \in Classes
  PROVE  GoodNode(n) <=>
           /\ ~doc[n].flaw /\ doc[n].type \in Types /\ ClassOf[doc[n].type] = doc[n].tag
           /\ Only(n, Accepts(doc[n].type)) /\ Counts(n)
<1> DEFINE type == doc[n].type
<1>1. Kind(n) = type
  BY DEF Kind
<1>2. type \in Types => type \in {"scene", "mesh", "diffuse", "areaLight", "infiniteLight",
                                  "perspective", "whitted", "independent", "gaussian", "ttest"}
  BY TagsOfObjects
<1>3. /\ Accepts("mesh") = {"bsdf"} /\ Accepts("perspective") = {"rfilter"}
      /\ Accepts("areaLight") = {"shape"} /\ Accepts("ttest") = {"bsdf", "scene"}
      /\ Accepts("scene") = {"shape", "light", "camera", "integrator", "sampler"}
      /\ Accepts("diffuse") = {} /\ Accepts("infiniteLight") = {} /\ Accepts("whitted") = {}
      /\ Accepts("independent") = {} /\ Accepts("gaussian") = {}
  BY DEF Accepts, Single
<1> HIDE DEF type
<1>4. CASE type = "mesh"
  BY <1>1, <1>3, <1>4 DEF GoodNode, Counts, type
<1>5. CASE type = "perspective"
  BY <1>1, <1>3, <1>5 DEF GoodNode, Counts, type
<1>6. CASE type = "areaLight"
  BY <1>1, <1>3, <1>6 DEF GoodNode, Counts, type
<1>7. CASE type = "scene"
  BY <1>1, <1>3, <1>7 DEF GoodNode, Counts, type
<1>8. CASE type = "ttest"
  BY <1>1, <1>3, <1>8 DEF GoodNode, Counts, type
<1>9. CASE type \in {"diffuse", "infiniteLight", "whitted", "independent", "gaussian"}
  BY <1>1, <1>3, <1>9 DEF GoodNode, Counts, type
<1>10. CASE type \notin Types
  BY <1>10 DEF GoodNode, type
<1> QED  BY <1>2, <1>4, <1>5, <1>6, <1>7, <1>8, <1>9, <1>10

(* Of the others only a transform has children.                            *)
LEMMA GoodOther ==
  ASSUME NEW n, doc[n].tag \in Tags \ Classes
  PROVE  GoodNode(n) <=>
           /\ ~doc[n].flaw
           /\ doc[n].tag = "transform" => \A m \in ChildrenOf(n) : doc[m].tag = "op"
           /\ doc[n].tag # "transform" => ChildrenOf(n) = {}
<1>1. Kind(n) = doc[n].tag /\ doc[n].tag \in {"property", "transform", "op"}
  BY DEF Kind, Tags
<1> QED  BY <1>1 DEF GoodNode

(* The grammar does not change while a document is read.                   *)
LEMMA GrammarKept ==
  ASSUME doc' = doc
  PROVE  /\ \A n : GoodNode(n)' <=> GoodNode(n)
         /\ \A n : Treacherous(n)' <=> Treacherous(n)
         /\ WellFormed' <=> WellFormed
         /\ OneRoot' <=> OneRoot
BY DEF GoodNode, Treacherous, WellFormed, OneRoot, Kind, Count, Only, ChildrenOf, Nodes

-----------------------------------------------------------------------------
(* A scene that was given the children in G points to the environment map  *)
(* among them.                                                             *)
FitsEnv(e, G) ==
  /\ \A c \in G : doc[c].tag = "light" /\ doc[c].type = "infiniteLight" => e = c
  /\ e # Null => e \in G /\ doc[e].tag = "light" /\ doc[e].type = "infiniteLight"

(* Objects are made of elements without a flaw; only a scene has lights.   *)
MadeInv ==
  /\ \A n \in Objects : ~doc[n].flaw
  /\ \A n \in Objects : objects[n].type # "scene" => objects[n].areaLights = <<>>
  /\ \A n \in Objects : \A e, G :
       objects[n].type = "scene" /\ e = objects[n].member["envMap"] /\ G = Given(n) => FitsEnv(e, G)

(* The environment map is set when an infinite light is given to a scene   *)
(* that has none (scene.cpp:97-107).                                       *)
LEMMA AddChildEnv ==
  ASSUME NEW x \in Object, NEW c, objects[c].type \in Types, NEW o \in AddChild(x, c)
  PROVE  /\ x.type # "scene" => o.areaLights = x.areaLights
         /\ x.type = "scene" /\ objects[c].type # "infiniteLight" =>
              o.member["envMap"] = x.member["envMap"]
         /\ x.type = "scene" /\ objects[c].type = "infiniteLight" =>
              x.member["envMap"] = Null /\ o.member["envMap"] = c
<1>1. x.type \in Types /\ x.member \in [Members -> Pointers]
  BY DEF Object
<1> DEFINE class == ClassOf[objects[c].type]
<1>2. Added(o, x, c, class)
  BY <1>1, AddChildCases
<1>3. objects[c].type = "infiniteLight" => class = "light"
  BY DEF ClassOf
<1> HIDE DEF class
<1>4. "light" \notin Single(x.type) /\ "envMap" \notin Single(x.type) /\ "envMap" \in Members
  BY SingleIs DEF Members
<1>5. CASE class \in Single(x.type) /\ o = [x EXCEPT !.member[class] = c]
  <2>1. class # "envMap" /\ objects[c].type # "infiniteLight"
    BY <1>3, <1>4, <1>5
  <2> QED  BY <1>1, <1>4, <1>5, <2>1 DEF Object
<1>6. CASE class # "light" /\ (o = [x EXCEPT !.shapes = Append(@, c)] \/ o = x)
  BY <1>3, <1>6 DEF Object
<1>7. CASE /\ x.type = "scene" /\ objects[c].type = "areaLight"
           /\ o = [x EXCEPT !.lights = Append(@, c), !.areaLights = Append(@, c)]
  BY <1>7 DEF Object
<1>8. CASE /\ x.type = "scene" /\ objects[c].type = "infiniteLight" /\ x.member["envMap"] = Null
           /\ o = [x EXCEPT !.lights = Append(@, c), !.member["envMap"] = c]
  BY <1>1, <1>4, <1>8 DEF Object
<1> QED  BY <1>2, <1>5, <1>6, <1>7, <1>8 DEF Added

(* What is not about the environment map keeps it.                         *)
LEMMA SetParentEnv ==
  ASSUME NEW x \in Object, NEW p
  PROVE  /\ SetParent(x, p).member["envMap"] = x.member["envMap"]
         /\ SetParent(x, p).areaLights = x.areaLights /\ SetParent(x, p).type = x.type
<1>1. x.member \in [Members -> Pointers] /\ "envMap" \in Members
  BY DEF Object, Members
<1> DEFINE z == [x EXCEPT !.member["light"] = p]
<1>2. z.member["envMap"] = x.member["envMap"] /\ z.areaLights = x.areaLights /\ z.type = x.type
  BY <1>1 DEF Object
<1>3. SetParent(x, p) \in {x, z}
  BY DEF SetParent
<1> HIDE DEF z
<1> QED  BY <1>2, <1>3

(* See above.                                                              *)
LEMMA ActivatedEnv ==
  ASSUME NEW x \in Object
  PROVE  Activated(x).member["envMap"] = x.member["envMap"]
<1>1. "envMap" \in Members /\ "envMap" \notin Defaulted(x.type)
  BY SingleIs DEF Members
<1> DEFINE f == [m \in Members |->
                   IF m \in Defaulted(x.type) /\ x.member[m] = Null THEN Default ELSE x.member[m]]
<1>2. f["envMap"] = x.member["envMap"]
  BY <1>1
<1>3. Activated(x) = [[[x EXCEPT !.active = TRUE] EXCEPT !.member = f]
                        EXCEPT !.shapes = @ \o LitShapes(x)]
  BY DEF Activated
<1> HIDE DEF f
<1> QED  BY <1>2, <1>3 DEF Object

(* Nothing is made at the beginning.                                       *)
LEMMA MadeInit ==
  ASSUME Init
  PROVE  MadeInv
<1>1. Objects = {}
  BY DEF Init, Objects
<1> QED  BY <1>1 DEF MadeInv

(* Every step keeps it.                                                    *)
LEMMA MadeStep ==
  ASSUME StackInv, HeapInv, ListInv, CollectInv, MadeInv, [Next]_vars,
         NEW t, t = stack[1].node, NEW c, c = stack[1].children[1]
  PROVE  MadeInv'
<1>1. doc' = doc /\ \A e, G : FitsEnv(e, G)' <=> FitsEnv(e, G)
  BY HeapGrows DEF FitsEnv
<1>2. Next \/ UNCHANGED vars
  OBVIOUS
<1>3. Next => Open \/ Closes \/ Create \/ GiveChild \/ Halts
  BY DEF Next, Closes, Halts
<1>4. CASE Open \/ CloseProperty \/ CloseTransform \/ CloseOp \/ Halts \/ UNCHANGED vars
  <2>1. objects' = objects /\ \A n \in Objects : Given(n)' = Given(n)
    BY <1>4, GivenKept
  <2>2. Objects' = Objects
    BY <2>1 DEF Objects
  <2> QED  BY <1>1, <2>1, <2>2 DEF MadeInv
<1>5. CASE Create
  <2>1. /\ Objects' = Objects \cup {t} /\ objects'[t] = New(doc[t].type, stack[1].toWorld)
        /\ \A m \in Members : objects'[t].member[m] = Null
        /\ objects'[t].areaLights = <<>>
        /\ \A n \in Objects : n # t /\ objects'[n] = objects[n]
    BY <1>5, CreateHeap
  <2>2. Given(t)' = {} /\ \A n \in Objects : Given(n)' = Given(n)
    BY <1>5, GivenCreate
  <2>3. ~doc[t].flaw
    BY <1>5 DEF Create, StackInv, Depth, This, Top
  <2>4. objects'[t].member["envMap"] = Null
    BY <2>1 DEF Members
  <2>5. \A n \in Objects' : ~doc[n].flaw
    BY <2>1, <2>3 DEF MadeInv
  <2>6. \A n \in Objects' : objects'[n].type # "scene" => objects'[n].areaLights = <<>>
    BY <2>1 DEF MadeInv
  <2>7. ASSUME NEW n \in Objects', NEW e, NEW G, objects'[n].type = "scene",
               e = objects'[n].member["envMap"], G = Given(n)'
        PROVE  FitsEnv(e, G)
    <3>1. CASE n = t
      BY <2>2, <2>4, <2>7, <3>1 DEF FitsEnv
    <3>2. CASE n \in Objects
      BY <2>1, <2>2, <2>7, <3>2 DEF MadeInv
    <3> QED  BY <2>1, <3>1, <3>2
  <2> QED  BY <1>1, <2>5, <2>6, <2>7 DEF MadeInv
<1>6. CASE GiveChild
  <2>1. /\ t \in Objects /\ c \in Objects /\ c # t /\ Objects' = Objects
        /\ objects'[t] \in AddChild(objects[t], c) /\ objects'[c] = SetParent(objects[c], t)
        /\ \A l \in Objects \ {t, c} : objects'[l] = objects[l]
        /\ \A l \in Objects : objects'[l].type = objects[l].type
        /\ c \in Nat
    BY <1>6, GiveHeap
  <2>2. /\ Given(t)' = Given(t) \cup {c} /\ c \notin Given(t)
        /\ \A l \in Objects \ {t} : Given(l)' = Given(l)
    BY <1>6, GivenGive
  <2>3. \A l \in Objects : /\ objects[l] \in Object /\ objects[l].type \in Types
                           /\ objects[l].type = doc[l].type /\ ClassOf[objects[l].type] = doc[l].tag
    BY DEF HeapInv, Object, CollectInv
  <2>4. /\ objects[t].type # "scene" => objects'[t].areaLights = objects[t].areaLights
        /\ objects[t].type = "scene" /\ objects[c].type # "infiniteLight" =>
             objects'[t].member["envMap"] = objects[t].member["envMap"]
        /\ objects[t].type = "scene" /\ objects[c].type = "infiniteLight" =>
             objects[t].member["envMap"] = Null /\ objects'[t].member["envMap"] = c
    <3>1. objects[t] \in Object /\ objects[c].type \in Types
      BY <2>1, <2>3
    <3> QED  BY <2>1, <3>1, AddChildEnv
  <2>5. objects'[c].member["envMap"] = objects[c].member["envMap"]
        /\ objects'[c].areaLights = objects[c].areaLights
    <3>1. objects[c] \in Object
      BY <2>1, <2>3
    <3> QED  BY <2>1, <3>1, SetParentEnv
  <2>6. \A n \in Objects' : objects'[n].type # "scene" => objects'[n].areaLights = <<>>
    <3> SUFFICES ASSUME NEW n \in Objects, objects[n].type # "scene"
                 PROVE  objects'[n].areaLights = objects[n].areaLights
      BY <2>1 DEF MadeInv
    <3> QED  BY <2>1, <2>4, <2>5
  <2>7. ASSUME NEW n \in Objects', NEW e, NEW G, objects'[n].type = "scene",
               e = objects'[n].member["envMap"], G = Given(n)'
        PROVE  FitsEnv(e, G)
    <3>1. n \in Objects /\ objects[n].type = "scene"
      BY <2>1, <2>7
    <3>2. FitsEnv(objects[n].member["envMap"], Given(n))
      BY <3>1 DEF MadeInv
    <3>3. CASE n # t
      BY <2>1, <2>2, <2>5, <2>7, <3>1, <3>2, <3>3
    <3>4. CASE n = t /\ objects[c].type # "infiniteLight"
      <4>1. e = objects[t].member["envMap"] /\ G = Given(t) \cup {c} /\ doc[c].type # "infiniteLight"
        BY <2>1, <2>2, <2>3, <2>4, <2>7, <3>1, <3>4
      <4> QED  BY <3>2, <3>4, <4>1 DEF FitsEnv
    <3>5. CASE n = t /\ objects[c].type = "infiniteLight"
      <4>1. /\ e = c /\ G = Given(t) \cup {c} /\ objects[t].member["envMap"] = Null
            /\ doc[c].type = "infiniteLight" /\ doc[c].tag = "light"
        <5>1. ClassOf["infiniteLight"] = "light"
          BY DEF ClassOf
        <5> QED  BY <2>1, <2>2, <2>3, <2>4, <2>7, <3>1, <3>5, <5>1
      <4>2. \A g \in Given(t) : g # Null
        <5>1. \A g \in ChildrenOf(t) : g \in Nat
          BY Document DEF StackInv
        <5> QED  BY <5>1, ParserAssumption DEF Given
      <4> QED  BY <3>2, <3>5, <4>1, <4>2 DEF FitsEnv
    <3> QED  BY <3>3, <3>4, <3>5
  <2>8. \A n \in Objects' : ~doc[n].flaw
    BY <2>1 DEF MadeInv
  <2> QED  BY <1>1, <2>6, <2>7, <2>8 DEF MadeInv
<1>7. CASE Activate
  <2>1. /\ t \in Objects /\ Objects' = Objects
        /\ objects'[t] = Activated(objects[t])
        /\ \A l \in Objects \ {t} : objects'[l] = objects[l]
        /\ \A l \in Objects : /\ objects'[l].type = objects[l].type
                              /\ objects'[l].areaLights = objects[l].areaLights
    BY <1>7, ActivateHeap
  <2>2. \A l \in Objects : Given(l)' = Given(l)
    BY <1>7, GivenActivate
  <2>3. \A l \in Objects : objects'[l].member["envMap"] = objects[l].member["envMap"]
    <3>1. objects[t] \in Object
      BY <2>1 DEF HeapInv
    <3> QED  BY <2>1, <3>1, ActivatedEnv
  <2> QED  BY <1>1, <2>1, <2>2, <2>3 DEF MadeInv
<1> QED  BY <1>2, <1>3, <1>4, <1>5, <1>6, <1>7, Zenon DEF Closes

-----------------------------------------------------------------------------
(* The kind of an element that is parsed says its class, and conversely.   *)
LEMMA KindIs ==
  ASSUME HeapInv, CollectInv, NEW m, Finished(m)
  PROVE  /\ Kind(m) = "mesh" <=> doc[m].tag = "shape"
         /\ Kind(m) = "diffuse" <=> doc[m].tag = "bsdf"
         /\ Kind(m) = "perspective" <=> doc[m].tag = "camera"
         /\ Kind(m) = "whitted" <=> doc[m].tag = "integrator"
         /\ Kind(m) = "independent" <=> doc[m].tag = "sampler"
         /\ Kind(m) = "gaussian" <=> doc[m].tag = "rfilter"
         /\ Kind(m) = "areaLight" <=> doc[m].tag = "light" /\ doc[m].type = "areaLight"
         /\ Kind(m) = "infiniteLight" <=> doc[m].tag = "light" /\ doc[m].type = "infiniteLight"
<1>1. doc[m].tag \in Tags
  BY DEF Finished, Sensible
<1>2. CASE doc[m].tag \in Classes
  <2>1. doc[m].type \in Types /\ ClassOf[doc[m].type] = doc[m].tag /\ Kind(m) = doc[m].type
    BY <1>2 DEF Finished, HeapInv, Object, CollectInv, Kind
  <2> DEFINE type == doc[m].type
             tag == doc[m].tag
  <2>2. type \in Types /\ ClassOf[type] = tag /\ Kind(m) = type
    BY <2>1
  <2> HIDE DEF type, tag
  <2>3. /\ type = "mesh" <=> tag = "shape"
        /\ type = "diffuse" <=> tag = "bsdf"
        /\ type = "perspective" <=> tag = "camera"
        /\ type = "whitted" <=> tag = "integrator"
        /\ type = "independent" <=> tag = "sampler"
        /\ type = "gaussian" <=> tag = "rfilter"
        /\ type = "areaLight" => tag = "light"
        /\ type = "infiniteLight" => tag = "light"
    BY <2>2 DEF ClassOf, Types
  <2> QED  BY <2>2, <2>3 DEF type, tag
<1>3. CASE doc[m].tag \notin Classes
  <2>1. Kind(m) = doc[m].tag /\ doc[m].tag \in {"property", "transform", "op"}
    BY <1>1, <1>3 DEF Kind, Tags
  <2> QED  BY <2>1
<1> QED  BY <1>2, <1>3

(* Of a class an object takes one of it was not given two.                 *)
LEMMA SingleChild ==
  ASSUME FitInv, NEW n \in Objects, objects[n].active \/ stack[1].children = <<>>,
         NEW a \in ChildrenOf(n), NEW b \in ChildrenOf(n), doc[a].tag = doc[b].tag,
         doc[a].tag \in Classes, doc[a].tag \in Single(objects[n].type)
  PROVE  a = b
<1>1. a \in Given(n) /\ b \in Given(n)
  BY GivenAll
<1>2. FitsMembers(objects[n], Given(n))
  BY FitsGiven
<1> QED  BY <1>1, <1>2 DEF FitsMembers

(* An object that was given all its children contains only what it may.    *)
LEMMA OnlyAccepted ==
  ASSUME StackInv, HeapInv, CollectInv, FitInv, NEW n \in Objects,
         objects[n].active \/ stack[1].children = <<>>
  PROVE  Only(n, Accepts(doc[n].type))
<1> SUFFICES ASSUME NEW m \in ChildrenOf(n)
             PROVE  doc[m].tag \in Accepts(doc[n].type) \cup {"property", "transform"}
  BY DEF Only
<1>1. CASE doc[m].tag \in Classes
  <2>1. m \in Given(n)
    BY <1>1, GivenAll
  <2>2. FitsMembers(objects[n], Given(n)) /\ objects[n].type = doc[n].type
    BY FitsGiven DEF CollectInv
  <2> QED  BY <2>1, <2>2 DEF FitsMembers
<1>2. CASE doc[m].tag \notin Classes
  <2>1. Sensible(m)
    BY DEF CollectInv, Finished
  <2>2. doc[n].tag \in Classes
    <3>1. objects[n].type \in Types /\ ClassOf[objects[n].type] = doc[n].tag
      BY DEF HeapInv, Object
    <3> QED  BY <3>1 DEF Classes
  <2>3. n # 0 /\ doc[m].parent = n
    BY Document DEF StackInv, HeapInv, ChildrenOf
  <2>4. doc[m].tag \in Tags /\ (doc[n].tag = "transform" <=> doc[m].tag = "op")
    BY <2>1, <2>3 DEF Sensible
  <2> QED  BY <1>2, <2>2, <2>4, TagsOfObjects DEF Tags
<1> QED  BY <1>1, <1>2

(* An object about to be activated, if it is not refused, is as the        *)
(* grammar says.                                                           *)
LEMMA GoodActivated ==
  ASSUME StackInv, HeapInv, CollectInv, FitInv, MadeInv, NEW n \in Objects,
         stack[1].children = <<>>, ~Rejected(objects[n]), ~Bare(objects[n])
  PROVE  GoodNode(n)
<1>1. /\ ~doc[n].flaw /\ doc[n].type \in Types /\ ClassOf[doc[n].type] = doc[n].tag
      /\ doc[n].tag \in Classes /\ objects[n].type = doc[n].type /\ doc \in Files
  <2>1. /\ objects[n].type \in Types /\ ClassOf[objects[n].type] = doc[n].tag
        /\ objects[n].type = doc[n].type
    BY DEF HeapInv, Object, CollectInv
  <2>2. ~doc[n].flaw /\ doc \in Files
    BY DEF MadeInv, StackInv
  <2> QED  BY <2>1, <2>2 DEF Classes
<1>2. Only(n, Accepts(doc[n].type))
  BY OnlyAccepted
<1>3. \A m \in ChildrenOf(n) : Finished(m)
  BY DEF CollectInv
<1>4. FitsMembers(objects[n], Given(n)) /\ FitsLists(objects[n], n, Given(n))
  BY FitsGiven
<1>5. \A a, b \in ChildrenOf(n) :
        doc[a].tag = doc[b].tag /\ doc[a].tag \in Single(doc[n].type) /\ doc[a].tag \in Classes => a = b
  BY <1>1, SingleChild
<1>6. Given(n) = {m \in ChildrenOf(n) : doc[m].tag \in Classes}
  BY GivenAll
<1>7. doc[n].type = "mesh" => Count(n, {"diffuse"}) <= 1
  <2>1. doc[n].type = "mesh" => \A a, b \in ChildrenOf(n) : Kind(a) = "diffuse" /\ Kind(b) = "diffuse" => a = b
    BY <1>3, <1>5, KindIs, SingleIs, TagsOfObjects
  <2> QED  BY <1>1, <2>1, CountIs
<1>8. doc[n].type = "perspective" => Count(n, {"gaussian"}) <= 1
  <2>1. doc[n].type = "perspective" =>
          \A a, b \in ChildrenOf(n) : Kind(a) = "gaussian" /\ Kind(b) = "gaussian" => a = b
    BY <1>3, <1>5, KindIs, SingleIs, TagsOfObjects
  <2> QED  BY <1>1, <2>1, CountIs
<1>9. doc[n].type = "areaLight" => Count(n, {"mesh"}) <= 1
  <2>1. doc[n].type = "areaLight" => \A a, b \in ChildrenOf(n) : Kind(a) = "mesh" /\ Kind(b) = "mesh" => a = b
    BY <1>3, <1>5, KindIs, SingleIs, TagsOfObjects
  <2> QED  BY <1>1, <2>1, CountIs
<1>10. ASSUME doc[n].type = "scene"
       PROVE  /\ Count(n, {"perspective"}) = 1 /\ Count(n, {"whitted"}) = 1
              /\ Count(n, {"independent"}) <= 1
  <2>1. {"sampler", "camera", "integrator"} \subseteq Single(doc[n].type) \cap Classes
    BY <1>10, SingleIs, TagsOfObjects
  <2>2. /\ \A a, b \in ChildrenOf(n) : Kind(a) = "perspective" /\ Kind(b) = "perspective" => a = b
        /\ \A a, b \in ChildrenOf(n) : Kind(a) = "whitted" /\ Kind(b) = "whitted" => a = b
        /\ \A a, b \in ChildrenOf(n) : Kind(a) = "independent" /\ Kind(b) = "independent" => a = b
    BY <1>3, <1>5, <2>1, KindIs
  <2>3. objects[n].member["camera"] # Null /\ objects[n].member["integrator"] # Null
    BY <1>1, <1>10 DEF Rejected
  <2>4. \A m \in {"camera", "integrator"} : m \in Single(objects[n].type) /\ m \notin Defaulted(objects[n].type)
    BY <1>1, <2>1, SingleIs
  <2>5. \A m \in {"camera", "integrator"} :
          objects[n].member[m] \in Given(n) /\ doc[objects[n].member[m]].tag = m
    BY <1>4, <2>3, <2>4 DEF FitsMembers
  <2>6. (\E a \in ChildrenOf(n) : Kind(a) = "perspective") /\ (\E a \in ChildrenOf(n) : Kind(a) = "whitted")
    BY <1>3, <1>6, <2>5, KindIs
  <2> QED  BY <1>1, <2>2, <2>6, CountIs
<1>11. doc[n].type = "scene" => Count(n, {"infiniteLight"}) <= 1
  <2> SUFFICES ASSUME doc[n].type = "scene", NEW a \in ChildrenOf(n), NEW b \in ChildrenOf(n),
                      Kind(a) = "infiniteLight", Kind(b) = "infiniteLight"
               PROVE  a = b
    BY <1>1, CountIs
  <2>1. /\ doc[a].tag = "light" /\ doc[a].type = "infiniteLight"
        /\ doc[b].tag = "light" /\ doc[b].type = "infiniteLight"
    BY <1>3, KindIs
  <2>2. a \in Given(n) /\ b \in Given(n)
    BY <1>6, <2>1, TagsOfObjects
  <2>3. FitsEnv(objects[n].member["envMap"], Given(n))
    BY <1>1 DEF MadeInv
  <2> QED  BY <2>1, <2>2, <2>3 DEF FitsEnv
<1>12. ASSUME doc[n].type = "scene", NEW m \in ChildrenOf(n), Kind(m) = "areaLight"
       PROVE  Count(m, {"mesh"}) = 1
  <2>1. doc[m].tag = "light" /\ doc[m].type = "areaLight" /\ doc[m].tag \in Classes
    BY <1>3, <1>12, KindIs, TagsOfObjects
  <2>2. m \in Objects /\ objects[m].active /\ objects[m].type = "areaLight"
    BY <1>3, <2>1 DEF Finished, CollectInv
  <2>3. objects[m].member["shape"] # Null
    <3>1. m \in AreaLights(Given(n))
      BY <1>6, <1>12, <2>1 DEF AreaLights
    <3>2. PICK i \in DOMAIN objects[n].areaLights : m = objects[n].areaLights[i]
      BY <1>1, <1>4, <1>12, <3>1 DEF FitsLists, Lists, Values
    <3> QED  BY <3>2 DEF Bare, LitShapes
  <2>4. \A a \in ChildrenOf(m) : Finished(a)
    BY <2>2 DEF CollectInv
  <2>5. \E a \in ChildrenOf(m) : Kind(a) = "mesh"
    BY <2>2, <2>3, <2>4, ShapeOfLight, KindIs
  <2>6. \A a, b \in ChildrenOf(m) : Kind(a) = "mesh" /\ Kind(b) = "mesh" => a = b
    <3>1. "shape" \in Single(objects[m].type) /\ "shape" \in Classes
      BY <2>2, SingleIs, TagsOfObjects
    <3> QED  BY <2>2, <2>4, <3>1, KindIs, SingleChild
  <2> QED  BY <1>1, <2>5, <2>6, CountIs
<1>13. Counts(n)
  BY <1>7, <1>8, <1>9, <1>10, <1>11, <1>12 DEF Counts
<1> QED  BY <1>1, <1>2, <1>13, GoodObject

(* So is an element without a flaw whose call ends.                        *)
LEMMA GoodCloses ==
  ASSUME StackInv, HeapInv, ListInv, CollectInv, FitInv, MadeInv, Closes,
         NEW t, t = stack[1].node
  PROVE  GoodNode(t) /\ Sensible(t)
<1>1. /\ t \in Nodes /\ t # 0 /\ Parsed(1) = ChildrenOf(t) /\ Top = stack[1]
      /\ 1 \in 1 .. Depth - 1
  <2>1. Depth > 1 /\ t # 0
    BY ClosesReturn
  <2>2. Top = stack[1] /\ 1 \in 1 .. Depth - 1
    BY <2>1 DEF StackInv, Depth, Top
  <2> QED  BY <2>1, <2>2, ParsedCloses
<1>2. Sensible(t)
  BY <1>1 DEF StackInv
<1>3. CASE Activate
  <2>1. /\ stack[1].children = <<>> /\ t \in Objects
        /\ ~Rejected(objects[t]) /\ ~Bare(objects[t])
    BY <1>3, ActivateHeap
  <2> QED  BY <1>2, <2>1, GoodActivated
<1>4. CASE CloseProperty \/ CloseTransform \/ CloseOp
  <2>1. ~doc[t].flaw /\ doc[t].tag \in {"property", "transform", "op"}
    BY <1>1, <1>4 DEF CloseProperty, CloseTransform, CloseOp, Ready, This
  <2>2. doc[t].tag \in Tags \ Classes
    BY <2>1, TagsOfObjects DEF Tags
  <2>3. \A m \in ChildrenOf(t) : Sensible(m) /\ doc[m].parent = t
    BY <1>1 DEF CollectInv, Finished, ChildrenOf
  <2>4. \A m \in ChildrenOf(t) :
          /\ doc[t].tag = "transform" <=> doc[m].tag = "op"
          /\ doc[t].tag \in Classes \cup {"invalid", "transform"}
    BY <1>1, <2>3 DEF Sensible
  <2> QED  BY <1>2, <2>1, <2>2, <2>4, GoodOther
<1> QED  BY <1>3, <1>4 DEF Closes

-----------------------------------------------------------------------------
(* Elements that are as the grammar says, with all they contain.           *)
Seen(D) ==
  /\ \A m \in D : GoodNode(m) /\ Sensible(m) /\ ChildrenOf(m) \subseteq D
  /\ \A k \in 1 .. Depth : Parsed(k) \subseteq D

(* Such are all elements parsed so far.                                    *)
SeenInv == OneRoot => \E D \in SUBSET Nodes : Seen(D)

(* None at the beginning: the first element is left to be parsed.          *)
LEMMA SeenInit ==
  ASSUME Init
  PROVE  SeenInv
<1> SUFFICES ASSUME OneRoot  PROVE Seen({})
  BY DEF SeenInv
<1>1. StackInv /\ Depth = 1 /\ stack[1].node = 0 /\ stack[1].left = {1}
  BY StackInit
<1>2. Parsed(1) = {}
  BY <1>1 DEF Parsed, ChildrenOf, OneRoot
<1> QED  BY <1>1, <1>2 DEF Seen

(* An element whose call ends is one more.                                 *)
LEMMA SeenStep ==
  ASSUME StackInv, HeapInv, ListInv, CollectInv, FitInv, MadeInv, SeenInv, [Next]_vars,
         NEW t, t = stack[1].node
  PROVE  SeenInv'
<1>1. doc' = doc
  BY HeapGrows
<1>2. /\ OneRoot' = OneRoot /\ Nodes' = Nodes
      /\ \A n : GoodNode(n)' <=> GoodNode(n)
      /\ \A n : ChildrenOf(n)' = ChildrenOf(n) /\ (Sensible(n)' <=> Sensible(n))
  BY <1>1, GrammarKept, DocumentKept DEF OneRoot
<1> SUFFICES ASSUME OneRoot  PROVE \E D \in SUBSET Nodes : Seen(D)'
  BY <1>2 DEF SeenInv
<1>3. PICK D \in SUBSET Nodes : Seen(D)
  BY DEF SeenInv
<1>4. Depth \in Nat \ {0}
  BY DEF StackInv
<1>5. ASSUME NEW E \in SUBSET Nodes,
             \A m \in E : GoodNode(m) /\ Sensible(m) /\ ChildrenOf(m) \subseteq E,
             \A k \in 1 .. Depth' : Parsed(k)' \subseteq E
      PROVE  Seen(E)'
  BY <1>2, <1>5 DEF Seen
<1>6. /\ \A m \in D : GoodNode(m) /\ Sensible(m) /\ ChildrenOf(m) \subseteq D
      /\ \A k \in 1 .. Depth : Parsed(k) \subseteq D
  BY <1>3 DEF Seen
<1>7. CASE Halts \/ UNCHANGED vars
  <2>1. stack' = stack
    BY <1>7, HaltsKeeps DEF vars
  <2>2. Depth' = Depth /\ \A k : Parsed(k)' = Parsed(k)
    BY <1>1, <2>1 DEF Depth, Parsed, ChildrenOf, Nodes
  <2> QED  BY <1>5, <1>6, <2>2
<1>8. CASE Open
  <2>1. Depth' = Depth + 1 /\ Parsed(1)' = {} /\ \A k \in 2 .. Depth + 1 : Parsed(k)' = Parsed(k - 1)
    BY <1>8, OpenStack, ParsedOpen
  <2>2. \A k \in 1 .. Depth + 1 : k = 1 \/ (k \in 2 .. Depth + 1 /\ k - 1 \in 1 .. Depth)
    BY <1>4
  <2>3. \A k \in 1 .. Depth' : Parsed(k)' \subseteq D
    BY <1>6, <2>1, <2>2
  <2> QED  BY <1>5, <1>6, <2>3
<1>9. CASE Create \/ GiveChild
  <2>1. Depth' = Depth /\ \A k \in 1 .. Depth : Parsed(k)' = Parsed(k)
    BY <1>9, FillsKeeps, ParsedFills
  <2> QED  BY <1>5, <1>6, <2>1
<1>10. CASE Closes
  <2>1. /\ Depth > 1 /\ Depth' = Depth - 1 /\ t \in Nodes
        /\ Parsed(1)' = Parsed(2) \cup {t} /\ Parsed(1) = ChildrenOf(t)
        /\ \A k \in 2 .. Depth - 1 : Parsed(k)' = Parsed(k + 1)
    BY <1>10, ClosesReturn, ParsedCloses
  <2>2. GoodNode(t) /\ Sensible(t)
    BY <1>10, GoodCloses
  <2>3. 1 \in 1 .. Depth /\ 2 \in 1 .. Depth
        /\ \A k \in 1 .. Depth - 1 : k = 1 \/ (k \in 2 .. Depth - 1 /\ k + 1 \in 1 .. Depth)
    BY <1>4, <2>1
  <2>4. \A m \in D \cup {t} : GoodNode(m) /\ Sensible(m) /\ ChildrenOf(m) \subseteq D \cup {t}
    BY <1>6, <2>1, <2>2, <2>3
  <2>5. \A k \in 1 .. Depth' : Parsed(k)' \subseteq D \cup {t}
    BY <1>6, <2>1, <2>3
  <2>6. D \cup {t} \in SUBSET Nodes
    BY <2>1
  <2>7. Seen(D \cup {t})'
    BY <1>5, <2>4, <2>5, <2>6
  <2> QED  BY <2>6, <2>7
<1>11. Next => Open \/ Closes \/ Create \/ GiveChild \/ Halts
  BY DEF Next, Closes, Halts
<1>12. Next \/ UNCHANGED vars
  OBVIOUS
<1> QED  BY <1>7, <1>8, <1>9, <1>10, <1>11, <1>12

(* When the outermost call has nothing left, all elements are parsed: the  *)
(* first that was not would be in one that was.                            *)
LEMMA AllSeen ==
  ASSUME StackInv, SeenInv, OneRoot, stack[1].node = 0, stack[1].left = {}
  PROVE  WellFormed
<1>1. /\ Len(doc) \in Nat /\ Nodes = 1 .. Len(doc) /\ 1 \in Nodes /\ doc[1].parent = 0
      /\ \A n \in Nodes : n \in Nat /\ doc[n].parent \in Nat /\ doc[n].parent < n
  BY Document DEF StackInv
<1>2. PICK D \in SUBSET Nodes : Seen(D)
  BY DEF SeenInv
<1>3. 1 \in D
  <2>1. 1 \in 1 .. Depth
    BY DEF StackInv
  <2>2. Parsed(1) = ChildrenOf(0)
    BY DEF Parsed
  <2>3. 1 \in ChildrenOf(0)
    BY <1>1 DEF ChildrenOf
  <2> QED  BY <1>2, <2>1, <2>2, <2>3 DEF Seen
<1>4. D = Nodes
  <2> SUFFICES ASSUME Nodes \ D # {}  PROVE FALSE
    OBVIOUS
  <2> DEFINE m == First(Nodes \ D)
  <2>1. m \in Nodes \ D /\ \A l \in Nodes \ D : m <= l
    BY <1>1, FirstExists
  <2> HIDE DEF m
  <2>2. m # 1 /\ doc[m].parent # 0
    BY <1>3, <2>1 DEF OneRoot
  <2>3. doc[m].parent \in Nodes /\ ~(m <= doc[m].parent)
    BY <1>1, <2>1, <2>2
  <2>4. doc[m].parent \in D
    BY <2>1, <2>3
  <2>5. m \in ChildrenOf(doc[m].parent)
    BY <2>1 DEF ChildrenOf
  <2> QED  BY <1>2, <2>1, <2>4, <2>5 DEF Seen
<1>5. doc[1].tag \in Classes
  BY <1>1, <1>2, <1>3 DEF Seen, Sensible
<1> QED  BY <1>2, <1>4, <1>5 DEF WellFormed, Seen

-----------------------------------------------------------------------------
(* In a document of the grammar, an element in one that passed the checks  *)
(* at the head of parseTag passes them.                                    *)
LEMMA SensibleInside ==
  ASSUME doc \in Files, OneRoot, WellFormed, NEW u \in Nodes, NEW p, p = doc[u].parent,
         p # 0 => Sensible(p)
  PROVE  Sensible(u)
<1>1. u \in Nat /\ p \in Nat /\ p < u /\ u \in ChildrenOf(p)
  BY Document DEF ChildrenOf
<1>2. CASE p = 0
  <2>1. doc[u].tag \in Classes
    BY <1>2 DEF OneRoot, WellFormed
  <2> QED  BY <1>2, <2>1, TagsOfObjects DEF Sensible, Tags
<1>3. CASE p # 0
  <2>1. GoodNode(p)
    <3>1. p \in Nodes
      BY <1>1, <1>3, Document
    <3> QED  BY <3>1 DEF WellFormed
  <2>2. doc[p].tag \in Tags
    BY <1>3 DEF Sensible
  <2>3. CASE doc[p].tag \in Classes
    <3>1. Only(p, Accepts(doc[p].type)) /\ doc[p].type \in Types
      BY <2>1, <2>3, GoodObject
    <3>2. doc[u].tag \in Accepts(doc[p].type) \cup {"property", "transform"}
      BY <1>1, <3>1 DEF Only
    <3>3. Accepts(doc[p].type) \subseteq Classes
      BY TagsOfObjects DEF Accepts, Single
    <3> QED  BY <1>3, <2>3, <3>2, <3>3, TagsOfObjects DEF Sensible, Tags
  <2>4. CASE doc[p].tag \notin Classes
    <3>1. /\ doc[p].tag = "transform" => \A m \in ChildrenOf(p) : doc[m].tag = "op"
          /\ doc[p].tag # "transform" => ChildrenOf(p) = {}
      BY <2>1, <2>2, <2>4, GoodOther
    <3>2. doc[p].tag = "transform" /\ doc[u].tag = "op"
      BY <1>1, <3>1
    <3> QED  BY <1>3, <3>2, TagsOfObjects DEF Sensible, Tags
  <2> QED  BY <2>3, <2>4
<1> QED  BY <1>2, <1>3

(* So the parser refuses to begin with an element only in a document that  *)
(* is not of the grammar (parser.cpp:136-166).                             *)
LEMMA OpenRefuses ==
  ASSUME StackInv, OneRoot, OpenThrows
  PROVE  ~WellFormed
<1> DEFINE p == stack[1].node
<1>1. Top.left # {} /\ ~Sensible(Upcoming)
  BY DEF OpenThrows
<1>2. Upcoming \in Nodes /\ doc[Upcoming].parent = p
  BY <1>1, NextNode
<1>3. p # 0 => Sensible(p)
  <2>1. Depth \in Nat \ {0}
    BY DEF StackInv
  <2>2. ASSUME p # 0  PROVE 1 \in 1 .. Depth - 1
    <3>1. 1 \in 1 .. Depth /\ 1 # Depth
      BY <2>1, <2>2 DEF StackInv
    <3> QED  BY <2>1, <3>1
  <2> QED  BY <2>2 DEF StackInv
<1>4. doc \in Files
  BY DEF StackInv
<1> DEFINE u == Upcoming
<1>5. u \in Nodes /\ doc[u].parent = p /\ ~Sensible(u)
  BY <1>1, <1>2
<1> HIDE DEF p, u
<1> QED  BY <1>3, <1>4, <1>5, SensibleInside

(* The element of a call whose children are parsed.                        *)
LEMMA ReadyNode ==
  ASSUME StackInv, NEW tags, Ready(tags), NEW t, t = stack[1].node
  PROVE  t \in Nodes /\ This = doc[t] /\ Top.node = t /\ doc[t].tag \in tags
<1>1. Top.node # 0 /\ This.tag \in tags
  BY DEF Ready
<1>2. Depth \in Nat \ {0} /\ Top = stack[1]
  BY DEF StackInv, Depth, Top
<1>3. 1 \in 1 .. Depth /\ 1 # Depth
  BY <1>1, <1>2 DEF StackInv
<1>4. 1 \in 1 .. Depth - 1
  BY <1>2, <1>3
<1>5. t \in Nodes
  BY <1>4 DEF StackInv
<1> QED  BY <1>1, <1>2, <1>5 DEF This

(* It ends its call without an object only if the element is not as the    *)
(* grammar says, and crashes there only when an object of another class    *)
(* cannot be printed (parser.cpp:113-125, 183-199).                        *)
LEMMA CloseRefuses ==
  ASSUME StackInv, CloseThrows \/ CreateThrows
  PROVE  ~WellFormed /\ (phase' = "crash" => \E n \in Nodes : Treacherous(n))
<1> DEFINE t == stack[1].node
<1>1. CASE CloseThrows
  <2>1. Ready(Tags) /\ This.flaw /\ phase' = "error"
    BY <1>1 DEF CloseThrows
  <2>2. t \in Nodes /\ This = doc[t]
    BY <2>1, ReadyNode
  <2> QED  BY <2>1, <2>2 DEF WellFormed, GoodNode
<1>2. CASE CreateThrows
  <2>1. /\ Ready(Classes)
        /\ This.type \in Types => ClassOf[This.type] # This.tag
        /\ phase' = "crash" => This.type \in Unprintable
    BY <1>2 DEF CreateThrows
  <2>2. t \in Nodes /\ This = doc[t] /\ doc[t].tag \in Classes
    BY <2>1, ReadyNode
  <2>3. ~GoodNode(t)
    BY <2>1, <2>2 DEF GoodNode
  <2>4. Unprintable \subseteq Types
    BY TagsOfObjects DEF Unprintable
  <2>5. phase' = "crash" => Treacherous(t)
    BY <2>1, <2>2, <2>4 DEF Treacherous
  <2> QED  BY <2>2, <2>3, <2>5 DEF WellFormed
<1> QED  BY <1>1, <1>2

(* A child that is given to an object is one of its children, none of      *)
(* those it was given before.                                              *)
LEMMA GivenNext ==
  ASSUME StackInv, HeapInv, ListInv, CollectInv, phase = "children", Top.children # <<>>,
         NEW n, n = stack[1].node, NEW c, c = stack[1].children[1]
  PROVE  /\ n \in Objects /\ ~objects[n].active /\ Top.node = n /\ Head(Top.children) = c
         /\ c \in ChildrenOf(n) /\ c \in Objects /\ c \notin Given(n) /\ doc[c].tag \in Classes
<1>1. Top = stack[1] /\ stack[1] \in Calls /\ Depth \in Nat \ {0}
  BY DEF StackInv, Depth, Top
<1>2. n \in Objects /\ ~objects[n].active
  BY DEF HeapInv
<1>3. stack[1].children \in Seq(Nat) /\ stack[1].children # <<>>
  BY <1>1 DEF Calls
<1>4. 1 \in DOMAIN stack[1].children /\ Head(stack[1].children) = c
  BY <1>3
<1>5. 1 \in 1 .. Depth
  BY <1>1
<1>6. c \in Objects /\ doc[c].parent = n
  BY <1>4, <1>5 DEF ListInv
<1>7. c \in Values(stack[1].children)
  BY <1>4 DEF Values
<1>8. c \in ChildrenOf(n)
  BY <1>6 DEF HeapInv, ChildrenOf
<1>9. c \notin Given(n)
  BY <1>2, <1>7 DEF Given
<1>10. objects[c].type \in Types /\ ClassOf[objects[c].type] = doc[c].tag
  BY <1>6 DEF HeapInv, Object
<1>11. doc[c].tag \in Classes
  BY <1>10 DEF Classes
<1> QED  BY <1>1, <1>2, <1>4, <1>6, <1>8, <1>9, <1>11

(* An object refuses a child of a class it does not take, or of which it   *)
(* has one (scene.cpp:90-131).                                             *)
LEMMA Refused ==
  ASSUME NEW x, x.type \in Types, NEW c, AddChild(x, c) = {},
         NEW class, class = ClassOf[objects[c].type]
  PROVE  \/ class \in Single(x.type) /\ x.member[class] # Null
         \/ x.type = "scene" /\ objects[c].type = "infiniteLight" /\ x.member["envMap"] # Null
         \/ class \notin Accepts(x.type)
<1>1. CASE class \in Single(x.type)
  <2>1. /\ ~(x.type = "scene" /\ class = "shape") /\ ~(x.type = "scene" /\ class = "light")
        /\ ~(x.type = "ttest" /\ class \in {"bsdf", "scene"})
    BY <1>1 DEF Single
  <2>2. AddChild(x, c) = AddSingle(x, class, c)
    BY <1>1, <2>1 DEF AddChild
  <2> QED  BY <1>1, <2>2 DEF AddSingle, Vacant
<1>2. CASE class \notin Single(x.type) /\ x.type = "scene" /\ class = "shape"
  <2>1. AddChild(x, c) = {[x EXCEPT !.shapes = Append(@, c)]}
    BY <1>2 DEF AddChild
  <2> QED  BY <2>1
<1>3. CASE class \notin Single(x.type) /\ x.type = "scene" /\ class = "light"
  <2>1. AddChild(x, c) = AddLight(x, c)
    BY <1>3 DEF AddChild
  <2> DEFINE added == [x EXCEPT !.lights = Append(@, c)]
  <2>2. objects[c].type = "infiniteLight"
    <3> DEFINE lit == [added EXCEPT !.areaLights = Append(@, c)]
               mapped == AddSingle(added, "envMap", c)
    <3>1. AddLight(x, c) = CASE objects[c].type = "areaLight" -> {lit}
                             [] objects[c].type = "infiniteLight" -> mapped
                             [] OTHER -> {added}
      BY DEF AddLight
    <3> HIDE DEF lit, mapped, added
    <3> QED  BY <2>1, <3>1
  <2>3. AddSingle(added, "envMap", c) = {}
    BY <2>1, <2>2 DEF AddLight
  <2>4. added.member["envMap"] # Null
    <3> HIDE DEF added
    <3> QED  BY <2>3 DEF AddSingle, Vacant
  <2>5. added.member = x.member
    OBVIOUS
  <2> QED  BY <1>3, <2>2, <2>4, <2>5
<1>4. CASE class \notin Single(x.type) /\ x.type = "ttest" /\ class \in {"bsdf", "scene"}
  <2>1. AddChild(x, c) = {x}
    BY <1>4 DEF AddChild
  <2> QED  BY <2>1
<1> QED  BY <1>1, <1>2, <1>3, <1>4 DEF Accepts

(* The grammar allows one object of a class that has a member.             *)
LEMMA OneOfClass ==
  ASSUME StackInv, HeapInv, CollectInv, NEW n \in Objects, GoodNode(n),
         NEW a \in ChildrenOf(n), NEW b \in ChildrenOf(n), doc[a].tag = doc[b].tag,
         doc[a].tag \in Single(doc[n].type)
  PROVE  a = b
<1>1. /\ objects[n].type \in Types /\ ClassOf[objects[n].type] = doc[n].tag
      /\ objects[n].type = doc[n].type
  BY DEF HeapInv, Object, CollectInv
<1>2. doc[n].tag \in Classes /\ doc \in Files
  BY <1>1 DEF Classes, StackInv
<1>3. Counts(n)
  BY <1>2, GoodObject
<1>4. Finished(a) /\ Finished(b)
  BY DEF CollectInv
<1> DEFINE tag == doc[a].tag
           type == doc[n].type
<1>5. \/ type = "mesh" /\ tag = "bsdf"
      \/ type = "perspective" /\ tag = "rfilter"
      \/ type = "areaLight" /\ tag = "shape"
      \/ type = "scene" /\ tag \in {"camera", "integrator", "sampler"}
  BY DEF Single
<1> HIDE DEF tag, type
<1>6. doc[a].tag = tag /\ doc[b].tag = tag /\ doc[n].type = type
  BY DEF tag, type
<1>7. ASSUME NEW kind, Kind(a) = kind, Kind(b) = kind, Count(n, {kind}) <= 1  PROVE a = b
  BY <1>2, <1>7, CountIs
<1>8. CASE type = "mesh" /\ tag = "bsdf"
  BY <1>3, <1>4, <1>6, <1>7, <1>8, KindIs DEF Counts
<1>9. CASE type = "perspective" /\ tag = "rfilter"
  BY <1>3, <1>4, <1>6, <1>7, <1>9, KindIs DEF Counts
<1>10. CASE type = "areaLight" /\ tag = "shape"
  BY <1>3, <1>4, <1>6, <1>7, <1>10, KindIs DEF Counts
<1>11. CASE type = "scene" /\ tag = "camera"
  BY <1>3, <1>4, <1>6, <1>7, <1>11, KindIs DEF Counts
<1>12. CASE type = "scene" /\ tag = "integrator"
  BY <1>3, <1>4, <1>6, <1>7, <1>12, KindIs DEF Counts
<1>13. CASE type = "scene" /\ tag = "sampler"
  BY <1>3, <1>4, <1>6, <1>7, <1>13, KindIs DEF Counts
<1> QED  BY <1>5, <1>8, <1>9, <1>10, <1>11, <1>12, <1>13

(* A child is refused only in an element that is not as the grammar says   *)
(* (parser.cpp:201-205).                                                   *)
LEMMA GiveRefuses ==
  ASSUME StackInv, HeapInv, ListInv, CollectInv, FitInv, MadeInv, GiveChildThrows
  PROVE  ~WellFormed
<1> DEFINE n == stack[1].node
           c == stack[1].children[1]
<1>1. /\ phase = "children" /\ Top.children # <<>>
      /\ AddChild(objects[Top.node], Head(Top.children)) = {}
  BY DEF GiveChildThrows
<1>2. /\ n \in Objects /\ ~objects[n].active /\ Top.node = n /\ Head(Top.children) = c
      /\ c \in ChildrenOf(n) /\ c \in Objects /\ c \notin Given(n) /\ doc[c].tag \in Classes
  BY <1>1, GivenNext
<1>3. AddChild(objects[n], c) = {}
  BY <1>1, <1>2
<1> HIDE DEF n, c
<1>4. /\ objects[n].type \in Types /\ ClassOf[objects[n].type] = doc[n].tag
      /\ objects[n].type = doc[n].type /\ n \in Nodes
      /\ objects[c].type \in Types /\ ClassOf[objects[c].type] = doc[c].tag
      /\ objects[c].type = doc[c].type
  BY <1>2 DEF HeapInv, Object, CollectInv
<1>5. doc[n].tag \in Classes /\ doc \in Files
  BY <1>4 DEF Classes, StackInv
<1>6. FitsMembers(objects[n], Given(n))
  BY <1>2, FitsGiven
<1> SUFFICES ASSUME GoodNode(n)  PROVE FALSE
  BY <1>4 DEF WellFormed
<1>7. Only(n, Accepts(doc[n].type)) /\ Counts(n)
  BY <1>5, GoodObject
<1> DEFINE class == doc[c].tag
           x == objects[n]
<1>8. x.type \in Types /\ AddChild(x, c) = {} /\ class = ClassOf[objects[c].type]
  BY <1>3, <1>4
<1>9. \/ class \in Single(x.type) /\ x.member[class] # Null
      \/ x.type = "scene" /\ objects[c].type = "infiniteLight" /\ x.member["envMap"] # Null
      \/ class \notin Accepts(x.type)
  <2> HIDE DEF class, x
  <2> QED  BY <1>8, Refused
<1>10. CASE class \in Single(x.type) /\ x.member[class] # Null
  <2>1. x.member[class] \in Given(n) /\ doc[x.member[class]].tag = class
    BY <1>2, <1>6, <1>10 DEF FitsMembers
  <2>2. x.member[class] \in ChildrenOf(n)
    BY <2>1 DEF Given
  <2>3. x.member[class] = c
    BY <1>2, <1>4, <1>10, <2>1, <2>2, OneOfClass
  <2> QED  BY <1>2, <2>1, <2>3
<1>11. CASE x.type = "scene" /\ objects[c].type = "infiniteLight" /\ x.member["envMap"] # Null
  <2> DEFINE e == x.member["envMap"]
  <2>1. FitsEnv(e, Given(n))
    BY <1>2, <1>11 DEF MadeInv
  <2>2. e \in Given(n) /\ doc[e].tag = "light" /\ doc[e].type = "infiniteLight"
    BY <1>11, <2>1 DEF FitsEnv
  <2> HIDE DEF e
  <2>3. e \in ChildrenOf(n)
    BY <2>2 DEF Given
  <2>4. Finished(e) /\ Finished(c)
    BY <1>2, <2>3 DEF CollectInv
  <2>5. doc[c].tag = "light" /\ doc[c].type = "infiniteLight"
    BY <1>4, <1>11 DEF ClassOf
  <2>6. Kind(e) = "infiniteLight" /\ Kind(c) = "infiniteLight"
    BY <2>2, <2>4, <2>5, KindIs
  <2>7. Count(n, {"infiniteLight"}) <= 1
    BY <1>4, <1>7, <1>11 DEF Counts
  <2>8. e = c
    BY <1>2, <1>5, <2>3, <2>6, <2>7, CountIs
  <2> QED  BY <1>2, <2>2, <2>8
<1>12. CASE class \notin Accepts(x.type)
  <2>1. class \in Accepts(x.type) \cup {"property", "transform"}
    BY <1>2, <1>4, <1>7 DEF Only
  <2> QED  BY <1>2, <1>12, <2>1, TagsOfObjects
<1> QED  BY <1>9, <1>10, <1>11, <1>12

(* The members of an object that was given all its children point to null  *)
(* only where it has no child of that class.                               *)
LEMMA MemberOfChild ==
  ASSUME StackInv, HeapInv, CollectInv, FitInv, NEW n \in Objects,
         objects[n].active \/ stack[1].children = <<>>,
         NEW a \in ChildrenOf(n), doc[a].tag \in Single(doc[n].type), doc[a].tag \in Classes
  PROVE  objects[n].member[doc[a].tag] # Null
<1>1. a \in Given(n)
  BY GivenAll
<1>2. FitsMembers(objects[n], Given(n)) /\ objects[n].type = doc[n].type
  BY FitsGiven DEF CollectInv
<1>3. objects[n].member[doc[a].tag] = a
  BY <1>1, <1>2 DEF FitsMembers
<1>4. a \in Nat
  BY Document DEF StackInv, ChildrenOf
<1> QED  BY <1>3, <1>4, ParserAssumption

(* A scene is refused only if it has no camera or no integrator, and that  *)
(* the parser follows a null pointer only for a light without a shape      *)
(* (scene.cpp:30-44).                                                      *)
LEMMA ActivateRefuses ==
  ASSUME StackInv, HeapInv, CollectInv, FitInv, MadeInv, ActivateThrows \/ ActivateCrashes
  PROVE  ~WellFormed /\ (phase' = "crash" => \E l \in Nodes : Treacherous(l))
<1> DEFINE n == stack[1].node
<1>1. phase = "children" /\ Top.children = <<>> /\ Top = stack[1]
  BY DEF ActivateThrows, ActivateCrashes, Activating, Top
<1>2. n \in Objects /\ stack[1].children = <<>> /\ Top.node = n
  BY <1>1 DEF HeapInv
<1>3. \/ Rejected(objects[n]) /\ phase' = "error"
      \/ Bare(objects[n]) /\ phase' = "crash"
  BY <1>2 DEF ActivateThrows, ActivateCrashes
<1> HIDE DEF n
<1>4. /\ objects[n].type \in Types /\ ClassOf[objects[n].type] = doc[n].tag
      /\ objects[n].type = doc[n].type /\ n \in Nodes
  BY <1>2 DEF HeapInv, Object, CollectInv
<1>5. doc[n].tag \in Classes /\ doc \in Files
  BY <1>4 DEF Classes, StackInv
<1>6. \A m \in ChildrenOf(n) : Finished(m)
  BY <1>2 DEF CollectInv
<1>7. GoodNode(n) => Counts(n)
  BY <1>5, GoodObject
<1>8. ASSUME Rejected(objects[n]), GoodNode(n)  PROVE FALSE
  <2>1. /\ doc[n].type = "scene"
        /\ objects[n].member["camera"] = Null \/ objects[n].member["integrator"] = Null
    BY <1>4, <1>8 DEF Rejected
  <2>2. Count(n, {"perspective"}) = 1 /\ Count(n, {"whitted"}) = 1
    BY <1>7, <1>8, <2>1 DEF Counts
  <2>3. PICK a \in ChildrenOf(n) : Kind(a) = "perspective"
    BY <1>5, <2>2, CountIs
  <2>4. PICK b \in ChildrenOf(n) : Kind(b) = "whitted"
    BY <1>5, <2>2, CountIs
  <2>5. doc[a].tag = "camera" /\ doc[b].tag = "integrator"
    BY <1>6, <2>3, <2>4, KindIs
  <2>6. {"camera", "integrator"} \subseteq Single(doc[n].type) \cap Classes
    BY <2>1, SingleIs, TagsOfObjects
  <2>7. objects[n].member["camera"] # Null
    BY <1>2, <2>3, <2>5, <2>6, MemberOfChild
  <2>8. objects[n].member["integrator"] # Null
    BY <1>2, <2>4, <2>5, <2>6, MemberOfChild
  <2> QED  BY <2>1, <2>7, <2>8
<1>9. ASSUME Bare(objects[n])  PROVE ~GoodNode(n) /\ \E l \in Nodes : Treacherous(l)
  <2>1. PICK i \in DOMAIN objects[n].areaLights :
          objects[objects[n].areaLights[i]].member["shape"] = Null
    BY <1>9 DEF Bare, LitShapes
  <2>2. objects[n].type = "scene"
    <3>1. objects[n].areaLights # <<>>
      BY <2>1
    <3> QED  BY <1>2, <3>1 DEF MadeInv
  <2> DEFINE l == objects[n].areaLights[i]
  <2>3. l \in AreaLights(Given(n))
    <3>1. Lists(objects[n].areaLights, AreaLights(Given(n)))
      BY <1>2, <2>2, FitsGiven DEF FitsLists
    <3> QED  BY <3>1 DEF Lists, Values
  <2>4. objects[l].member["shape"] = Null
    BY <2>1
  <2> HIDE DEF l
  <2>5. l \in ChildrenOf(n) /\ doc[l].tag = "light" /\ doc[l].type = "areaLight"
    BY <2>3 DEF AreaLights, Given
  <2>6. Finished(l) /\ doc[l].tag \in Classes
    BY <1>6, <2>5, TagsOfObjects
  <2>7. l \in Objects /\ objects[l].active /\ l \in Nodes /\ Kind(l) = "areaLight"
    BY <2>5, <2>6, KindIs DEF Finished, HeapInv
  <2>8. ASSUME NEW a \in ChildrenOf(l), Kind(a) = "mesh"  PROVE FALSE
    <3>1. Finished(a)
      BY <2>7 DEF CollectInv
    <3>2. doc[a].tag = "shape"
      BY <2>8, <3>1, KindIs
    <3>3. "shape" \in Single(doc[l].type) /\ "shape" \in Classes
      BY <2>5, SingleIs, TagsOfObjects
    <3>4. objects[l].member["shape"] # Null
      BY <2>7, <3>2, <3>3, MemberOfChild
    <3> QED  BY <2>4, <3>4
  <2>9. Count(l, {"mesh"}) = 0
    BY <1>5, <2>8, CountIs
  <2>10. Treacherous(l)
    BY <2>7, <2>9 DEF Treacherous
  <2>11. GoodNode(n) => Count(l, {"mesh"}) = 1
    BY <1>4, <1>7, <2>2, <2>5, <2>7 DEF Counts
  <2> QED  BY <2>7, <2>9, <2>10, <2>11
<1>10. GoodNode(n) <=> WellFormed \/ GoodNode(n)
  BY <1>4 DEF WellFormed
<1> QED  BY <1>3, <1>8, <1>9, <1>10

-----------------------------------------------------------------------------
(* How the parser ended, as far as it has.                                 *)
JudgeInv ==
  OneRoot =>
    /\ phase = "returned" => WellFormed
    /\ phase \in {"error", "crash"} => ~WellFormed
    /\ phase = "crash" => \E n \in Nodes : Treacherous(n)

(* Each end of the parser is as the grammar says; the other actions do not *)
(* end it.                                                                 *)
LEMMA JudgeStep ==
  ASSUME StackInv, HeapInv, ListInv, CollectInv, FitInv, MadeInv, SeenInv, JudgeInv, [Next]_vars
  PROVE  JudgeInv'
<1>1. doc' = doc
  BY HeapGrows
<1>2. /\ OneRoot' <=> OneRoot /\ Nodes' = Nodes
      /\ WellFormed' <=> WellFormed /\ \A n : Treacherous(n)' <=> Treacherous(n)
  BY <1>1, GrammarKept, DocumentKept
<1> SUFFICES ASSUME OneRoot
             PROVE  /\ phase' = "returned" => WellFormed
                    /\ phase' \in {"error", "crash"} => ~WellFormed
                    /\ phase' = "crash" => \E n \in Nodes : Treacherous(n)
  BY <1>1, GrammarKept, DocumentKept DEF JudgeInv
<1>3. CASE OpenThrows
  <2>1. phase' = "error"
    BY <1>3 DEF OpenThrows
  <2> QED  BY <1>3, <2>1, OpenRefuses
<1>4. CASE CloseThrows \/ CreateThrows
  <2>1. phase' \in {"error", "crash"}
    BY <1>4 DEF CloseThrows, CreateThrows
  <2> QED  BY <1>4, <2>1, CloseRefuses
<1>5. CASE GiveChildThrows
  <2>1. phase' = "error"
    BY <1>5 DEF GiveChildThrows
  <2> QED  BY <1>5, <2>1, GiveRefuses
<1>6. CASE ActivateThrows \/ ActivateCrashes
  <2>1. phase' \in {"error", "crash"}
    BY <1>6 DEF ActivateThrows, ActivateCrashes
  <2> QED  BY <1>6, <2>1, ActivateRefuses
<1>7. CASE LoadReturns
  <2>1. phase' = "returned" /\ stack[1].node = 0 /\ stack[1].left = {}
    BY <1>7 DEF LoadReturns, Top
  <2> QED  BY <2>1, AllSeen
<1>8. CASE Open
  <2>1. phase' = "content"
    BY <1>8, OpenStack
  <2> QED  BY <2>1
<1>9. CASE Create \/ GiveChild
  <2>1. phase' = "children"
    BY <1>9, FillsKeeps
  <2> QED  BY <2>1
<1>10. CASE Closes
  <2>1. phase' = "content"
    BY <1>10, ClosesReturn
  <2> QED  BY <2>1
<1>11. CASE UNCHANGED vars
  <2>1. phase' = phase
    BY <1>11 DEF vars
  <2> QED  BY <2>1 DEF JudgeInv
<1>12. Next => \/ Open \/ Closes \/ Create \/ GiveChild \/ OpenThrows \/ CloseThrows \/ CreateThrows
               \/ GiveChildThrows \/ ActivateThrows \/ ActivateCrashes \/ LoadReturns
  BY DEF Next, Closes
<1>13. Next \/ UNCHANGED vars
  OBVIOUS
<1> QED  BY <1>3, <1>4, <1>5, <1>6, <1>7, <1>8, <1>9, <1>10, <1>11, <1>12, <1>13

(* The parser returns a scene only for a document of the grammar, reports  *)
(* an error or fails only for one that is not, and fails instead of        *)
(* reporting only where an area light has no shape or an object of the     *)
(* wrong class cannot be printed (parser.cpp:130-318): whatever ending it  *)
(* reaches is the verdict of the grammar.                                  *)
THEOREM VerdictRight ==
  Spec => [](OneRoot /\ phase \in {"returned", "error", "crash"} => phase \in Verdict)
<1> DEFINE IInv == /\ StackInv /\ HeapInv /\ ListInv /\ CollectInv /\ FitInv /\ LinkInv
                   /\ MadeInv /\ SeenInv /\ JudgeInv
           Right == OneRoot /\ phase \in {"returned", "error", "crash"} => phase \in Verdict
<1>1. Init => IInv
  <2> SUFFICES ASSUME Init  PROVE IInv
    OBVIOUS
  <2>1. StackInv /\ HeapInv /\ ListInv /\ CollectInv /\ FitInv /\ LinkInv
    BY StackInit, HeapInit, CollectInit, FitInit
  <2>2. MadeInv /\ SeenInv
    BY MadeInit, SeenInit
  <2>3. JudgeInv
    BY DEF Init, JudgeInv
  <2> QED  BY <2>1, <2>2, <2>3
<1>2. IInv /\ [Next]_vars => IInv'
  <2> SUFFICES ASSUME IInv, [Next]_vars  PROVE IInv'
    OBVIOUS
  <2>1. StackInv' /\ HeapInv' /\ ListInv' /\ CollectInv' /\ FitInv' /\ LinkInv'
    BY StackStep, HeapStep, CollectStep, FitStep
  <2>2. \A t, c : t = stack[1].node /\ c = stack[1].children[1] => MadeInv' /\ SeenInv'
    BY MadeStep, SeenStep
  <2>3. MadeInv' /\ SeenInv'
    BY <2>2
  <2>4. JudgeInv'
    BY JudgeStep
  <2> QED  BY <2>1, <2>3, <2>4
<1>3. IInv => Right
  BY DEF JudgeInv, Verdict
<1> QED  BY <1>1, <1>2, <1>3, PTL DEF Spec
=============================================================================
