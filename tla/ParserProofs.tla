---------------------------- MODULE ParserProofs ----------------------------
(***************************************************************************)
(* The objects a parser makes, for documents of every size, form and       *)
(* nesting: no pointer handed over is null or dangling, each object has    *)
(* the transform written in it, and a scene is complete.                   *)
(***************************************************************************)
EXTENDS ParserProps, FiniteSetTheorems, SequenceTheorems, TLAPS

Depth == Len(stack)
Calls == [node : Nat, left : SUBSET Nat, children : Seq(Nat), toWorld : Seq(Nat)]
Phases == {"content", "children", "returned", "error", "crash"}

(* The active calls: each but the outermost parses a child of the one that *)
(* called it, which was written after all of those calls began, and which  *)
(* its caller will not parse again.                                        *)
StackInv ==
  /\ doc \in Files
  /\ stack \in Seq(Calls) /\ Depth \in Nat \ {0}
  /\ transform \in Seq(Nat) /\ phase \in Phases
  /\ \A k \in 1 .. Depth : stack[k].node = 0 <=> k = Depth
  /\ \A k \in 1 .. Depth : \A m \in stack[k].left : m \in Nodes /\ doc[m].parent = stack[k].node
  /\ \A k \in 1 .. Depth, l \in 1 .. Depth : k < l => stack[l].node < stack[k].node
  /\ \A k \in 1 .. Depth - 1 :
       /\ stack[k].node \in Nodes
       /\ doc[stack[k].node].parent = stack[k + 1].node
       /\ stack[k].node \notin stack[k + 1].left
       /\ \A n \in Nodes : n = stack[k].node => Sensible(n)
  /\ phase = "children" => Depth > 1 /\ stack[1].left = {} /\ doc[stack[1].node].tag \in Classes

(* The tags of objects, and those that are not.                            *)
LEMMA TagsOfObjects ==
  /\ Classes = {"scene", "shape", "bsdf", "light", "camera", "integrator", "sampler",
                "rfilter", "test"}
  /\ Types = {"scene", "mesh", "diffuse", "areaLight", "infiniteLight", "perspective",
              "whitted", "independent", "gaussian", "ttest"}
  /\ "property" \notin Classes /\ "transform" \notin Classes /\ "op" \notin Classes
  /\ "invalid" \notin Classes
<1>1. Types = {"scene", "mesh", "diffuse", "areaLight", "infiniteLight", "perspective",
              "whitted", "independent", "gaussian", "ttest"}
  BY DEF Types, ClassOf
<1>2. Classes = {"scene", "shape", "bsdf", "light", "camera", "integrator", "sampler",
                "rfilter", "test"}
  BY <1>1 DEF Classes, ClassOf
<1> QED  BY <1>1, <1>2

(* The elements of a document are numbered as they are written.            *)
LEMMA Document ==
  ASSUME doc \in Files
  PROVE  /\ Len(doc) \in Nat \ {0} /\ Nodes = 1 .. Len(doc) /\ 1 \in Nodes /\ 0 \notin Nodes
         /\ \A n \in Nodes : n \in Nat /\ doc[n].parent \in Nat /\ doc[n].parent < n
         /\ doc[1].parent = 0
         /\ \A n : ChildrenOf(n) \subseteq Nodes /\ \A m \in Nodes : m \in ChildrenOf(n) <=> doc[m].parent = n
<1> DEFINE R == [tag : STRING, type : STRING, parent : Nat, flaw : BOOLEAN]
<1>1. doc \in Seq(R) /\ doc # <<>> /\ \A n \in DOMAIN doc : doc[n].parent < n
  BY ParserAssumption
<1> HIDE DEF R
<1>2. Len(doc) \in Nat \ {0} /\ Nodes = 1 .. Len(doc)
  BY <1>1 DEF Nodes
<1>3. \A n \in Nodes : n \in Nat /\ doc[n] \in R /\ doc[n].parent < n
  BY <1>1, <1>2 DEF Nodes
<1>4. \A n \in Nodes : doc[n].parent \in Nat
  BY <1>3 DEF R
<1>5. 1 \in Nodes /\ 0 \notin Nodes
  BY <1>2
<1>6. doc[1].parent = 0
  BY <1>3, <1>4, <1>5
<1> QED  BY <1>2, <1>3, <1>4, <1>5, <1>6 DEF ChildrenOf

(* A document does not change while it is read.                            *)
LEMMA DocumentKept ==
  ASSUME doc' = doc
  PROVE  /\ Nodes' = Nodes
         /\ \A n : ChildrenOf(n)' = ChildrenOf(n) /\ (Sensible(n)' <=> Sensible(n))
BY DEF Nodes, ChildrenOf, Sensible

(* A set of nodes that is not empty has a first and a last element.        *)
LEMMA FirstExists ==
  ASSUME NEW n \in Nat, NEW S \in SUBSET (1 .. n), S # {}
  PROVE  First(S) \in S /\ \A m \in S : First(S) <= m
<1> DEFINE part == [e \in S |-> {m \in S : m <= e}]
           T == {part[e] : e \in S}
           R == StrictSubsetOrdering(S)
<1>1. IsFiniteSet(S)
  <2>1. IsFiniteSet(1 .. n)
    BY FS_Interval
  <2> QED  BY <2>1, FS_Subset, Zenon
<1>2. IsWellFoundedOn(R, SUBSET S)
  BY <1>1, FS_StrictSubsetOrderingWellFounded, FS_FiniteSubsetsOfFinite
<1>3. part \in [S -> SUBSET S] /\ \A e, m \in S : m \in part[e] <=> m <= e
  OBVIOUS
<1> HIDE DEF part
<1>4. PICK e \in S : \A m \in S : ~ (<<part[m], part[e]>> \in R)
  <2>1. T \subseteq SUBSET S /\ T # {}
    BY <1>3
  <2>2. PICK t \in T : \A u \in T : ~ (<<u, t>> \in R)
    <3> HIDE DEF T, R
    <3> QED  BY <1>2, <2>1, WFMin, Zenon
  <2> HIDE DEF R
  <2> QED  BY <2>2
<1>5. ASSUME NEW m \in S, m < e  PROVE FALSE
  <2>1. m \in Int /\ e \in Int /\ \A l \in S : l \in Int
    OBVIOUS
  <2>2. /\ part[m] \in SUBSET S /\ part[e] \in SUBSET S
        /\ \A l \in part[m] : l \in part[e]
        /\ e \in part[e] /\ e \notin part[m]
    BY <1>3, <1>5, <2>1
  <2> QED  BY <1>4, <2>2 DEF StrictSubsetOrdering
<1>6. \A m \in S : e <= m
  BY <1>5
<1> QED  BY <1>6 DEF First

(* The same from the other end.                                            *)
LEMMA LastExists ==
  ASSUME NEW n \in Nat, NEW S \in SUBSET (1 .. n), S # {}
  PROVE  LastOf(S) \in S /\ \A m \in S : m <= LastOf(S)
<1> DEFINE Back == {(n + 1) - m : m \in S}
<1>1. Back \in SUBSET (1 .. n) /\ Back # {}
  <2>1. \A m \in S : (n + 1) - m \in 1 .. n
    OBVIOUS
  <2> QED  BY <2>1
<1>2. First(Back) \in Back /\ \A b \in Back : First(Back) <= b
  <2> HIDE DEF Back
  <2> QED  BY <1>1, FirstExists
<1>3. PICK e \in S : First(Back) = (n + 1) - e
  BY <1>2
<1>4. \A m \in S : m <= e
  <2>1. ASSUME NEW m \in S  PROVE m <= e
    <3>1. (n + 1) - m \in Back
      OBVIOUS
    <3>2. (n + 1) - e <= (n + 1) - m
      BY <1>2, <1>3, <3>1
    <3> QED  BY <3>2
  <2> QED  BY <2>1
<1> QED  BY <1>4 DEF LastOf

-----------------------------------------------------------------------------
(* What the operations on the stack do: a call replaced, one put on top of *)
(* the changed caller, one returning to its changed caller.                *)
LEMMA Replaced ==
  ASSUME NEW C, NEW s \in Seq(C), Len(s) > 0, NEW a \in C, NEW t, t = <<a>> \o Tail(s)
  PROVE  /\ t \in Seq(C) /\ Len(t) = Len(s) /\ t[1] = a
         /\ \A k \in 2 .. Len(s) : t[k] = s[k]
<1> DEFINE r == Tail(s)
<1>1. r \in Seq(C) /\ Len(r) = Len(s) - 1 /\ Len(s) \in Nat
  OBVIOUS
<1>2. \A k \in 1 .. Len(s) - 1 : r[k] = s[k + 1]
  OBVIOUS
<1>3. t = <<a>> \o r
  OBVIOUS
<1> HIDE DEF r
<1>4. <<a>> \in Seq(C) /\ Len(<<a>>) = 1 /\ <<a>>[1] = a
  OBVIOUS
<1> DEFINE q == <<a>>
<1>5. t = q \o r /\ q \in Seq(C) /\ Len(q) = 1 /\ q[1] = a
  BY <1>3, <1>4
<1> HIDE DEF q
<1>6. t \in Seq(C) /\ Len(t) = Len(s)
  BY <1>1, <1>5
<1>7. t[1] = a
  BY <1>1, <1>5
<1>8. \A k \in 2 .. Len(s) : t[k] = r[k - 1]
  <2> SUFFICES ASSUME NEW k \in 2 .. Len(s)  PROVE t[k] = r[k - 1]
    OBVIOUS
  <2>1. k \in Nat /\ 1 < k /\ k \in 1 .. Len(q) + Len(r)
    BY <1>1, <1>5
  <2>2. (q \o r)[k] = IF k <= Len(q) THEN q[k] ELSE r[k - Len(q)]
    BY <1>1, <1>5, <2>1, ConcatProperties, Zenon
  <2> QED  BY <1>5, <2>1, <2>2
<1>9. \A k \in 2 .. Len(s) : r[k - 1] = s[k]
  <2>1. \A k \in 2 .. Len(s) : k - 1 \in 1 .. Len(s) - 1 /\ (k - 1) + 1 = k
    BY <1>1
  <2> QED  BY <1>2, <2>1
<1> QED  BY <1>6, <1>7, <1>8, <1>9

(* See above.                                                              *)
LEMMA Pushed ==
  ASSUME NEW C, NEW s \in Seq(C), Len(s) > 0, NEW a \in C, NEW b \in C,
         NEW t, t = <<a, b>> \o Tail(s)
  PROVE  /\ t \in Seq(C) /\ Len(t) = Len(s) + 1 /\ t[1] = a /\ t[2] = b
         /\ \A k \in 3 .. Len(s) + 1 : t[k] = s[k - 1]
<1> DEFINE r == Tail(s)
<1>1. r \in Seq(C) /\ Len(r) = Len(s) - 1 /\ Len(s) \in Nat
  OBVIOUS
<1>2. \A k \in 1 .. Len(s) - 1 : r[k] = s[k + 1]
  OBVIOUS
<1>3. t = <<a, b>> \o r
  OBVIOUS
<1> HIDE DEF r
<1>4. /\ <<a, b>> \in Seq(C) /\ Len(<<a, b>>) = 2 /\ <<a, b>>[1] = a /\ <<a, b>>[2] = b
  OBVIOUS
<1> DEFINE q == <<a, b>>
<1>5. t = q \o r /\ q \in Seq(C) /\ Len(q) = 2 /\ q[1] = a /\ q[2] = b
  BY <1>3, <1>4
<1> HIDE DEF q
<1>6. t \in Seq(C) /\ Len(t) = Len(s) + 1
  BY <1>1, <1>5
<1>7. t[1] = a /\ t[2] = b
  BY <1>1, <1>5
<1>8. \A k \in 3 .. Len(s) + 1 : t[k] = r[k - 2]
  <2> SUFFICES ASSUME NEW k \in 3 .. Len(s) + 1  PROVE t[k] = r[k - 2]
    OBVIOUS
  <2>1. k \in Nat /\ 2 < k /\ k \in 1 .. Len(q) + Len(r)
    BY <1>1, <1>5
  <2>2. (q \o r)[k] = IF k <= Len(q) THEN q[k] ELSE r[k - Len(q)]
    BY <1>1, <1>5, <2>1, ConcatProperties, Zenon
  <2> QED  BY <1>5, <2>1, <2>2
<1>9. \A k \in 3 .. Len(s) + 1 : r[k - 2] = s[k - 1]
  <2>1. \A k \in 3 .. Len(s) + 1 : k - 2 \in 1 .. Len(s) - 1 /\ (k - 2) + 1 = k - 1
    BY <1>1
  <2> QED  BY <1>2, <2>1
<1> QED  BY <1>6, <1>7, <1>8, <1>9

(* See above.                                                              *)
LEMMA Popped ==
  ASSUME NEW C, NEW s \in Seq(C), Len(s) > 1, NEW a \in C,
         NEW r \in Seq(C), Len(r) = Len(s) - 1, \A k \in 1 .. Len(s) - 1 : r[k] = s[k + 1],
         NEW t, t = <<a>> \o Tail(r)
  PROVE  /\ t \in Seq(C) /\ Len(t) = Len(s) - 1 /\ t[1] = a
         /\ \A k \in 2 .. Len(s) - 1 : t[k] = s[k + 1]
<1>1. Len(s) \in Nat /\ Len(r) > 0
  OBVIOUS
<1>2. /\ t \in Seq(C) /\ Len(t) = Len(r) /\ t[1] = a
      /\ \A k \in 2 .. Len(r) : t[k] = r[k]
  BY <1>1, Replaced
<1> DEFINE m == Len(s) - 1
<1>3. m \in Nat /\ Len(r) = m /\ \A k \in 1 .. m : r[k] = s[k + 1]
  BY <1>1
<1>4. \A k \in 2 .. m : k \in 1 .. m
  BY <1>3
<1> HIDE DEF m
<1>5. \A k \in 2 .. m : t[k] = s[k + 1]
  BY <1>2, <1>3, <1>4, Zenon
<1> QED  BY <1>2, <1>5 DEF m

-----------------------------------------------------------------------------
(* The next node is the first of those left.                               *)
LEMMA NextNode ==
  ASSUME StackInv, Top.left # {}
  PROVE  /\ Upcoming \in stack[1].left /\ Upcoming \in Nodes
         /\ doc[Upcoming].parent = stack[1].node
         /\ \A m \in stack[1].left : Upcoming <= m
<1>1. Len(doc) \in Nat /\ Nodes = 1 .. Len(doc)
  BY Document DEF StackInv
<1>2. stack[1].left \in SUBSET Nodes /\ Top = stack[1]
  BY DEF StackInv, Top
<1>3. First(Top.left) \in Top.left /\ \A m \in Top.left : First(Top.left) <= m
  BY <1>1, <1>2, FirstExists
<1>4. \A m \in stack[1].left : m \in Nodes /\ doc[m].parent = stack[1].node
  BY DEF StackInv
<1> QED  BY <1>2, <1>3, <1>4 DEF Upcoming

(* A call of parseTag begins: a new one is on top, without children, and   *)
(* its caller has a child less to parse (parser.cpp:168-176).              *)
LEMMA OpenStack ==
  ASSUME StackInv, Open
  PROVE  /\ doc' = doc /\ objects' = objects /\ phase' = "content"
         /\ Depth' = Depth + 1 /\ stack' \in Seq(Calls)
         /\ Upcoming \in stack[1].left /\ Upcoming \in Nodes /\ Sensible(Upcoming)
         /\ doc[Upcoming].parent = stack[1].node
         /\ \A m \in stack[1].left : Upcoming <= m
         /\ stack'[1].node = Upcoming /\ stack'[1].left = ChildrenOf(Upcoming)
         /\ stack'[1].children = <<>> /\ stack'[1].toWorld = <<>>
         /\ stack'[2].node = stack[1].node /\ stack'[2].left = stack[1].left \ {Upcoming}
         /\ stack'[2].children = stack[1].children /\ stack'[2].toWorld = stack[1].toWorld
         /\ \A k \in 3 .. Depth + 1 : stack'[k] = stack[k - 1]
<1> DEFINE m == Upcoming
           a == Frame(m)
           b == [Top EXCEPT !.left = @ \ {m}]
<1>1. /\ phase = "content" /\ Top.left # {} /\ Sensible(m)
      /\ stack' = <<a, b>> \o Tail(stack) /\ UNCHANGED <<doc, objects, phase>>
  BY DEF Open
<1>2. /\ m \in stack[1].left /\ m \in Nodes /\ doc[m].parent = stack[1].node
      /\ \A l \in stack[1].left : m <= l
  BY <1>1, NextNode
<1> HIDE DEF m
<1>3. stack \in Seq(Calls) /\ Depth \in Nat \ {0} /\ Top = stack[1] /\ stack[1] \in Calls
  BY DEF StackInv, Depth, Top
<1>4. a = [node |-> m, left |-> ChildrenOf(m), children |-> <<>>, toWorld |-> <<>>]
  BY DEF Frame
<1>5. ChildrenOf(m) \in SUBSET Nat /\ m \in Nat
  BY <1>2, Document DEF StackInv
<1>6. a \in Calls
  BY <1>4, <1>5 DEF Calls
<1>7. /\ b \in Calls /\ b.node = stack[1].node /\ b.left = stack[1].left \ {m}
      /\ b.children = stack[1].children /\ b.toWorld = stack[1].toWorld
  BY <1>3 DEF Calls
<1>8. a.node = m /\ a.left = ChildrenOf(m) /\ a.children = <<>> /\ a.toWorld = <<>>
  BY <1>4
<1> HIDE DEF a, b
<1>9. /\ stack' \in Seq(Calls) /\ Len(stack') = Len(stack) + 1 /\ stack'[1] = a /\ stack'[2] = b
      /\ \A k \in 3 .. Len(stack) + 1 : stack'[k] = stack[k - 1]
  <2>1. Len(stack) > 0
    BY <1>3 DEF Depth
  <2> QED  BY <1>1, <1>3, <1>6, <1>7, <2>1, Pushed
<1> QED  BY <1>1, <1>2, <1>7, <1>8, <1>9 DEF m, Depth

(* It ends: the caller goes on with what it returned (parser.cpp:174-179). *)
LEMMA ReturnStack ==
  ASSUME StackInv, NEW w \in Seq(Nat), Return(w), Top.node # 0
  PROVE  /\ Depth > 1 /\ Depth' = Depth - 1 /\ stack' \in Seq(Calls)
         /\ stack'[1].node = stack[2].node /\ stack'[1].left = stack[2].left
         /\ stack'[1].children = stack[2].children \o Returned /\ stack'[1].toWorld = w
         /\ \A k \in 2 .. Depth - 1 : stack'[k] = stack[k + 1]
<1> DEFINE b == [stack[2] EXCEPT !.children = @ \o Returned, !.toWorld = w]
<1>1. stack \in Seq(Calls) /\ Depth \in Nat \ {0} /\ Top = stack[1] /\ stack[1] \in Calls
  BY DEF StackInv, Depth, Top
<1>2. Depth > 1
  BY <1>1 DEF StackInv
<1>3. stack[2] \in Calls
  BY <1>1, <1>2 DEF Depth
<1>4. Returned \in Seq(Nat)
  BY <1>1 DEF Returned, Calls
<1>5. stack[2].children \in Seq(Nat)
  BY <1>3 DEF Calls
<1>6. stack[2].children \o Returned \in Seq(Nat)
  BY <1>4, <1>5
<1> HIDE DEF Returned
<1>7. /\ b \in Calls /\ b.node = stack[2].node /\ b.left = stack[2].left
      /\ b.children = stack[2].children \o Returned /\ b.toWorld = w
  BY <1>3, <1>6 DEF Calls
<1>8. stack' = <<b>> \o Tail(Tail(stack))
  BY DEF Return
<1> HIDE DEF b
<1>9. /\ stack' \in Seq(Calls) /\ Len(stack') = Len(stack) - 1 /\ stack'[1] = b
      /\ \A k \in 2 .. Len(stack) - 1 : stack'[k] = stack[k + 1]
  <2>1. Len(stack) > 1
    BY <1>2 DEF Depth
  <2> DEFINE C == Calls
  <2>2. stack \in Seq(C) /\ b \in C
    BY <1>1, <1>7
  <2> DEFINE r == Tail(stack)
  <2>3. stack' = <<b>> \o Tail(r)
    BY <1>8
  <2> HIDE DEF C
  <2>4. /\ stack' \in Seq(C) /\ Len(stack') = Len(stack) - 1 /\ stack'[1] = b
        /\ \A k \in 2 .. Len(stack) - 1 : stack'[k] = stack[k + 1]
    <3>1. /\ r \in Seq(C) /\ Len(r) = Len(stack) - 1
          /\ \A k \in 1 .. Len(stack) - 1 : r[k] = stack[k + 1]
      BY <2>1, <2>2
    <3> HIDE DEF r
    <3> QED  BY <2>1, <2>2, <2>3, <3>1, Popped
  <2> QED  BY <2>4 DEF C
<1> QED  BY <1>2, <1>7, <1>9 DEF Depth

(* A child is taken from the list (parser.cpp:201-205).                    *)
LEMMA GiveStack ==
  ASSUME StackInv, GiveChild
  PROVE  /\ doc' = doc /\ phase = "children" /\ phase' = "children" /\ transform' = transform
         /\ Depth' = Depth /\ stack' \in Seq(Calls)
         /\ stack[1].children # <<>>
         /\ stack'[1].node = stack[1].node /\ stack'[1].left = stack[1].left
         /\ stack'[1].children = Tail(stack[1].children) /\ stack'[1].toWorld = stack[1].toWorld
         /\ \A k \in 2 .. Depth : stack'[k] = stack[k]
<1> DEFINE b == [Top EXCEPT !.children = Tail(@)]
<1>1. stack \in Seq(Calls) /\ Depth \in Nat \ {0} /\ Top = stack[1] /\ stack[1] \in Calls
  BY DEF StackInv, Depth, Top
<1>2. /\ phase = "children" /\ phase' = phase /\ doc' = doc /\ transform' = transform
      /\ Top.children # <<>> /\ stack' = <<b>> \o Tail(stack)
  BY DEF GiveChild
<1>3. Tail(stack[1].children) \in Seq(Nat)
  BY <1>1, <1>2 DEF Calls
<1>4. /\ b \in Calls /\ b.node = stack[1].node /\ b.left = stack[1].left
      /\ b.children = Tail(stack[1].children) /\ b.toWorld = stack[1].toWorld
  BY <1>1, <1>3 DEF Calls
<1> HIDE DEF b
<1>5. /\ stack' \in Seq(Calls) /\ Len(stack') = Len(stack) /\ stack'[1] = b
      /\ \A k \in 2 .. Len(stack) : stack'[k] = stack[k]
  <2>1. Len(stack) > 0
    BY <1>1 DEF Depth
  <2> QED  BY <1>1, <1>2, <1>4, <2>1, Replaced
<1> QED  BY <1>1, <1>2, <1>4, <1>5 DEF Depth
-----------------------------------------------------------------------------
(* The actions that end the parsing change nothing else.                   *)
Halts ==
  \/ OpenThrows \/ CloseThrows \/ CreateThrows \/ GiveChildThrows
  \/ ActivateThrows \/ ActivateCrashes \/ LoadReturns

(* What they leave alone (parser.cpp:310-315).                             *)
LEMMA HaltsKeeps ==
  ASSUME Halts
  PROVE  /\ doc' = doc /\ stack' = stack /\ transform' = transform /\ objects' = objects
         /\ phase' \in {"error", "crash", "returned"}
         /\ phase \in {"content", "children"}
BY DEF Halts, OpenThrows, CloseThrows, CreateThrows, GiveChildThrows, ActivateThrows,
       ActivateCrashes, LoadReturns, Ready, Activating

(* The actions with which a call ends.                                     *)
Closes == CloseProperty \/ CloseTransform \/ CloseOp \/ Activate

(* They have in common that the caller goes on                             *)
(* (parser.cpp:176-178, 207-314).                                          *)
LEMMA ClosesReturn ==
  ASSUME StackInv, Closes
  PROVE  /\ doc' = doc /\ phase' = "content" /\ transform' \in Seq(Nat)
         /\ stack[1].node # 0 /\ stack[1].left = {}
         /\ Depth > 1 /\ Depth' = Depth - 1 /\ stack' \in Seq(Calls)
         /\ stack'[1].children = stack[2].children \o Returned
         /\ \A k \in 2 .. Depth - 1 : stack'[k] = stack[k + 1]
         /\ \A k \in 1 .. Depth - 1 :
              stack'[k].node = stack[k + 1].node /\ stack'[k].left = stack[k + 1].left
<1>1. stack \in Seq(Calls) /\ Depth \in Nat \ {0} /\ Top = stack[1] /\ stack[1] \in Calls
  BY DEF StackInv, Depth, Top
<1>2. phase = "children" => Depth > 1 /\ stack[1].left = {}
  BY DEF StackInv
<1>3. stack[1].node # 0 /\ stack[1].left = {}
  <2>1. \A tags : Ready(tags) => Top.node # 0 /\ Top.left = {}
    BY DEF Ready
  <2>2. CASE phase = "children"
    <3>1. 1 \in 1 .. Depth /\ 1 # Depth
      BY <1>1, <1>2, <2>2
    <3> QED  BY <1>2, <2>2, <3>1 DEF StackInv
  <2>3. CASE phase # "children"
    BY <1>1, <2>1, <2>3 DEF Closes, CloseProperty, CloseTransform, CloseOp, Activate, Activating
  <2> QED  BY <2>2, <2>3
<1>4. Depth > 1
  <2>1. 1 \in 1 .. Depth /\ (1 = Depth => stack[1].node = 0)
    BY <1>1 DEF StackInv
  <2> QED  BY <1>1, <1>3, <2>1
<1>5. stack[2] \in Calls
  BY <1>1, <1>4 DEF Depth
<1>6. transform \in Seq(Nat) /\ stack[2].toWorld \in Seq(Nat) /\ stack[1].node \in Nat
  BY <1>1, <1>5 DEF StackInv, Calls
<1>7. doc' = doc /\ phase' = "content" /\ transform' \in Seq(Nat)
  <2>1. <<stack[1].node>> \o transform \in Seq(Nat)
    BY <1>6
  <2> QED  BY <1>1, <1>6, <2>1 DEF Closes, CloseProperty, CloseTransform, CloseOp, Activate, Ready
<1>8. PICK w \in Seq(Nat) : Return(w)
  BY <1>6 DEF Closes, CloseProperty, CloseTransform, CloseOp, Activate
<1>9. /\ Depth' = Depth - 1 /\ stack' \in Seq(Calls)
      /\ stack'[1].node = stack[2].node /\ stack'[1].left = stack[2].left
      /\ stack'[1].children = stack[2].children \o Returned
      /\ \A k \in 2 .. Depth - 1 : stack'[k] = stack[k + 1]
  BY <1>1, <1>3, <1>8, ReturnStack
<1>10. \A k \in 1 .. Depth - 1 :
         stack'[k].node = stack[k + 1].node /\ stack'[k].left = stack[k + 1].left
  <2> SUFFICES ASSUME NEW k \in 1 .. Depth - 1
               PROVE  stack'[k].node = stack[k + 1].node /\ stack'[k].left = stack[k + 1].left
    OBVIOUS
  <2>1. CASE k = 1
    BY <1>9, <2>1
  <2>2. CASE k # 1
    BY <1>1, <1>9, <2>2
  <2> QED  BY <2>1, <2>2
<1> QED  BY <1>3, <1>4, <1>7, <1>9, <1>10

(* An object is made, or given a child: nothing happens to the nodes of    *)
(* the active calls and to what is left of them.                           *)
LEMMA FillsKeeps ==
  ASSUME StackInv, Create \/ GiveChild
  PROVE  /\ doc' = doc /\ transform' = transform /\ phase' = "children" /\ Depth' = Depth
         /\ stack' \in Seq(Calls)
         /\ Depth > 1 /\ stack[1].left = {} /\ doc[stack[1].node].tag \in Classes
         /\ \A k \in 2 .. Depth : stack'[k] = stack[k]
         /\ \A k \in 1 .. Depth :
              stack'[k].node = stack[k].node /\ stack'[k].left = stack[k].left
<1>1. stack \in Seq(Calls) /\ Depth \in Nat \ {0} /\ Top = stack[1] /\ stack[1] \in Calls
  BY DEF StackInv, Depth, Top
<1>2. CASE Create
  <2>1. /\ doc' = doc /\ transform' = transform /\ phase' = "children" /\ stack' = stack
        /\ Top.left = {} /\ Top.node # 0 /\ doc[Top.node].tag \in Classes
    BY <1>2 DEF Create, Ready, This
  <2>2. Depth > 1
    <3>1. 1 \in 1 .. Depth /\ (1 = Depth => stack[1].node = 0)
      BY <1>1 DEF StackInv
    <3> QED  BY <1>1, <2>1, <3>1
  <2> QED  BY <1>1, <2>1, <2>2 DEF Depth
<1>3. CASE GiveChild
  <2>1. /\ doc' = doc /\ phase = "children" /\ phase' = "children" /\ transform' = transform
        /\ Depth' = Depth /\ stack' \in Seq(Calls)
        /\ stack'[1].node = stack[1].node /\ stack'[1].left = stack[1].left
        /\ \A k \in 2 .. Depth : stack'[k] = stack[k]
    BY <1>3, GiveStack
  <2>2. Depth > 1 /\ stack[1].left = {} /\ doc[stack[1].node].tag \in Classes
    BY <2>1 DEF StackInv
  <2>3. \A k \in 1 .. Depth : k = 1 \/ k \in 2 .. Depth
    BY <1>1
  <2> QED  BY <2>1, <2>2, <2>3
<1> QED  BY <1>2, <1>3

(* The first call.                                                         *)
LEMMA StackInit ==
  ASSUME Init
  PROVE  StackInv /\ Depth = 1 /\ stack[1].node = 0 /\ stack[1].left = {1}
         /\ stack[1].children = <<>> /\ stack[1].toWorld = <<>>
<1> DEFINE f == [node |-> 0, left |-> {1}, children |-> <<>>, toWorld |-> <<>>]
<1>1. doc \in Files /\ stack = <<f>> /\ transform = <<>> /\ phase = "content"
  BY DEF Init
<1>2. f \in Calls
  BY DEF Calls
<1>3. f.node = 0 /\ f.left = {1} /\ f.children = <<>> /\ f.toWorld = <<>>
  OBVIOUS
<1> HIDE DEF f
<1>4. Depth = 1 /\ stack \in Seq(Calls) /\ stack[1] = f
  BY <1>1, <1>2 DEF Depth
<1>5. 1 \in Nodes /\ doc[1].parent = 0
  BY <1>1, Document
<1>6. transform \in Seq(Nat) /\ phase \in Phases /\ phase # "children"
  BY <1>1 DEF Phases
<1> QED  BY <1>1, <1>3, <1>4, <1>5, <1>6 DEF StackInv

(* A call is put on top of the others.                                     *)
LEMMA StackOpen ==
  ASSUME StackInv, Open
  PROVE  StackInv'
<1> DEFINE m == Upcoming
<1>1. /\ doc' = doc /\ phase' = "content" /\ Depth' = Depth + 1 /\ stack' \in Seq(Calls)
      /\ m \in stack[1].left /\ m \in Nodes /\ Sensible(m) /\ doc[m].parent = stack[1].node
      /\ stack'[1].node = m /\ stack'[1].left = ChildrenOf(m)
      /\ stack'[2].node = stack[1].node /\ stack'[2].left = stack[1].left \ {m}
      /\ \A k \in 3 .. Depth + 1 : stack'[k] = stack[k - 1]
  BY OpenStack
<1> HIDE DEF m
<1>2. doc \in Files /\ Depth \in Nat \ {0} /\ stack \in Seq(Calls)
  BY DEF StackInv
<1>3. /\ Nodes' = Nodes /\ 0 \notin Nodes /\ \A n \in Nodes : n \in Nat /\ doc[n].parent < n
      /\ \A n \in Nodes : Sensible(n)' <=> Sensible(n)
      /\ ChildrenOf(m) \subseteq Nodes /\ \A n \in Nodes : n \in ChildrenOf(m) <=> doc[n].parent = m
  BY <1>1, <1>2, Document, DocumentKept
<1>4. \A k \in 1 .. Depth : stack[k].node \in Nat
  <2>1. \A k \in 1 .. Depth : stack[k] \in Calls
    BY <1>2 DEF Depth
  <2> QED  BY <2>1 DEF Calls
<1>5. \A k \in 2 .. Depth + 1 :
        /\ k - 1 \in 1 .. Depth /\ stack'[k].node = stack[k - 1].node
        /\ stack'[k].left \subseteq stack[k - 1].left
        /\ k > 2 => stack'[k].left = stack[k - 1].left
  <2> SUFFICES ASSUME NEW k \in 2 .. Depth + 1
               PROVE  /\ k - 1 \in 1 .. Depth /\ stack'[k].node = stack[k - 1].node
                      /\ stack'[k].left \subseteq stack[k - 1].left
                      /\ k > 2 => stack'[k].left = stack[k - 1].left
    OBVIOUS
  <2>1. CASE k = 2
    BY <1>1, <1>2, <2>1
  <2>2. CASE k # 2
    BY <1>1, <1>2, <2>2
  <2> QED  BY <2>1, <2>2
<1>6. \A k \in 1 .. Depth + 1 : k = 1 \/ k \in 2 .. Depth + 1
  BY <1>2
<1>7. transform' \in Seq(Nat)
  BY DEF StackInv, Open, Entered
<1>8. \A k \in 1 .. Depth + 1 : stack'[k].node = 0 <=> k = Depth + 1
  <2>1. \A k \in 1 .. Depth : stack[k].node = 0 <=> k = Depth
    BY DEF StackInv
  <2>2. m # 0 /\ 1 # Depth + 1
    BY <1>1, <1>2, <1>3
  <2> QED  BY <1>1, <1>2, <1>5, <1>6, <2>1, <2>2
<1>9. \A k \in 1 .. Depth + 1 : \A n \in stack'[k].left : n \in Nodes /\ doc[n].parent = stack'[k].node
  <2>1. \A k \in 1 .. Depth : \A n \in stack[k].left : n \in Nodes /\ doc[n].parent = stack[k].node
    BY DEF StackInv
  <2> SUFFICES ASSUME NEW k \in 1 .. Depth + 1, NEW n \in stack'[k].left
               PROVE  n \in Nodes /\ doc[n].parent = stack'[k].node
    OBVIOUS
  <2>2. CASE k = 1
    BY <1>1, <1>3, <2>2
  <2>3. CASE k \in 2 .. Depth + 1
    BY <1>5, <2>1, <2>3
  <2> QED  BY <1>6, <2>2, <2>3
<1>10. \A k \in 1 .. Depth + 1, l \in 1 .. Depth + 1 : k < l => stack'[l].node < stack'[k].node
  <2>1. \A k \in 1 .. Depth, l \in 1 .. Depth : k < l => stack[l].node < stack[k].node
    BY DEF StackInv
  <2>2. \A l \in 1 .. Depth : stack[l].node <= stack[1].node
    BY <1>2, <1>4, <2>1
  <2>3. stack[1].node < m /\ m \in Nat
    BY <1>1, <1>3
  <2> SUFFICES ASSUME NEW k \in 1 .. Depth + 1, NEW l \in 1 .. Depth + 1, k < l
               PROVE  stack'[l].node < stack'[k].node
    OBVIOUS
  <2>4. l \in 2 .. Depth + 1 /\ stack'[l].node = stack[l - 1].node /\ l - 1 \in 1 .. Depth
    BY <1>5, <1>6
  <2>5. CASE k = 1
    <3>1. /\ stack[l - 1].node \in Nat /\ stack[1].node \in Nat
          /\ stack[l - 1].node <= stack[1].node
      BY <1>2, <1>4, <2>2, <2>4
    <3>2. stack'[k].node = m
      BY <1>1, <2>5
    <3> QED  BY <2>3, <2>4, <3>1, <3>2
  <2>6. CASE k \in 2 .. Depth + 1
    BY <1>5, <2>1, <2>4, <2>6
  <2> QED  BY <1>6, <2>5, <2>6
<1>11. \A k \in 1 .. Depth :
         /\ stack'[k].node \in Nodes
         /\ doc[stack'[k].node].parent = stack'[k + 1].node
         /\ stack'[k].node \notin stack'[k + 1].left
         /\ \A n \in Nodes : n = stack'[k].node => Sensible(n)
  <2>1. \A k \in 1 .. Depth - 1 :
          /\ stack[k].node \in Nodes
          /\ doc[stack[k].node].parent = stack[k + 1].node
          /\ stack[k].node \notin stack[k + 1].left
          /\ \A n \in Nodes : n = stack[k].node => Sensible(n)
    BY DEF StackInv
  <2> SUFFICES ASSUME NEW k \in 1 .. Depth
               PROVE  /\ stack'[k].node \in Nodes
                      /\ doc[stack'[k].node].parent = stack'[k + 1].node
                      /\ stack'[k].node \notin stack'[k + 1].left
                      /\ \A n \in Nodes : n = stack'[k].node => Sensible(n)
    OBVIOUS
  <2>2. CASE k = 1
    BY <1>1, <2>2
  <2>3. CASE k # 1
    <3>1. k - 1 \in 1 .. Depth - 1 /\ (k - 1) + 1 = k /\ k \in 2 .. Depth + 1 /\ k + 1 \in 2 .. Depth + 1
          /\ (k + 1) - 1 = k
      BY <1>2, <2>3
    <3>2. stack'[k].node = stack[k - 1].node /\ stack'[k + 1].node = stack[k].node
          /\ stack'[k + 1].left \subseteq stack[k].left
      BY <1>5, <3>1
    <3> QED  BY <2>1, <3>1, <3>2
  <2> QED  BY <2>2, <2>3
<1>12. Depth' \in Nat \ {0} /\ Depth' - 1 = Depth /\ phase' \in Phases /\ phase' # "children" /\ doc' \in Files
  BY <1>1, <1>2 DEF Phases
<1> QED  BY <1>1, <1>3, <1>7, <1>8, <1>9, <1>10, <1>11, <1>12 DEF StackInv

(* The innermost call is taken off.                                        *)
LEMMA StackCloses ==
  ASSUME StackInv, Closes
  PROVE  StackInv'
<1>1. /\ doc' = doc /\ phase' = "content" /\ transform' \in Seq(Nat)
      /\ Depth > 1 /\ Depth' = Depth - 1 /\ stack' \in Seq(Calls)
      /\ \A k \in 1 .. Depth - 1 :
           stack'[k].node = stack[k + 1].node /\ stack'[k].left = stack[k + 1].left
  BY ClosesReturn
<1>2. doc \in Files /\ Depth \in Nat \ {0}
  BY DEF StackInv
<1>3. Nodes' = Nodes /\ \A n \in Nodes : Sensible(n)' <=> Sensible(n)
  BY <1>1, DocumentKept
<1>4. \A k \in 1 .. Depth - 1 : k + 1 \in 1 .. Depth
  BY <1>2
<1>5. \A k \in 1 .. Depth - 1 : stack'[k].node = 0 <=> k = Depth - 1
  <2>1. \A k \in 1 .. Depth : stack[k].node = 0 <=> k = Depth
    BY DEF StackInv
  <2> QED  BY <1>1, <1>2, <1>4, <2>1
<1>6. \A k \in 1 .. Depth - 1 : \A n \in stack'[k].left : n \in Nodes /\ doc[n].parent = stack'[k].node
  BY <1>1, <1>4 DEF StackInv
<1>7. \A k \in 1 .. Depth - 1, l \in 1 .. Depth - 1 : k < l => stack'[l].node < stack'[k].node
  <2>1. \A k \in 1 .. Depth, l \in 1 .. Depth : k < l => stack[l].node < stack[k].node
    BY DEF StackInv
  <2> SUFFICES ASSUME NEW k \in 1 .. Depth - 1, NEW l \in 1 .. Depth - 1, k < l
               PROVE  stack'[l].node < stack'[k].node
    OBVIOUS
  <2>2. k + 1 < l + 1
    BY <1>2
  <2> QED  BY <1>1, <1>4, <2>1, <2>2
<1>8. \A k \in 1 .. (Depth - 1) - 1 :
         /\ stack'[k].node \in Nodes
         /\ doc[stack'[k].node].parent = stack'[k + 1].node
         /\ stack'[k].node \notin stack'[k + 1].left
         /\ \A n \in Nodes : n = stack'[k].node => Sensible(n)
  <2>1. \A k \in 1 .. Depth - 1 :
          /\ stack[k].node \in Nodes
          /\ doc[stack[k].node].parent = stack[k + 1].node
          /\ stack[k].node \notin stack[k + 1].left
          /\ \A n \in Nodes : n = stack[k].node => Sensible(n)
    BY DEF StackInv
  <2> SUFFICES ASSUME NEW k \in 1 .. (Depth - 1) - 1
               PROVE  /\ stack'[k].node \in Nodes
                      /\ doc[stack'[k].node].parent = stack'[k + 1].node
                      /\ stack'[k].node \notin stack'[k + 1].left
                      /\ \A n \in Nodes : n = stack'[k].node => Sensible(n)
    OBVIOUS
  <2>2. k \in 1 .. Depth - 1 /\ k + 1 \in 1 .. Depth - 1
    BY <1>2
  <2> QED  BY <1>1, <2>1, <2>2
<1>9. Depth' \in Nat \ {0} /\ phase' \in Phases /\ phase' # "children" /\ doc' \in Files
  BY <1>1, <1>2 DEF Phases
<1> QED  BY <1>1, <1>3, <1>5, <1>6, <1>7, <1>8, <1>9 DEF StackInv

(* The same calls are active.                                              *)
LEMMA StackFills ==
  ASSUME StackInv, Create \/ GiveChild
  PROVE  StackInv'
<1>1. /\ doc' = doc /\ transform' = transform /\ phase' = "children" /\ Depth' = Depth
      /\ stack' \in Seq(Calls)
      /\ Depth > 1 /\ stack[1].left = {} /\ doc[stack[1].node].tag \in Classes
      /\ \A k \in 1 .. Depth :
           stack'[k].node = stack[k].node /\ stack'[k].left = stack[k].left
  BY FillsKeeps
<1>2. doc \in Files /\ Depth \in Nat \ {0} /\ transform' \in Seq(Nat)
  BY <1>1 DEF StackInv
<1>3. Nodes' = Nodes /\ \A n \in Nodes : Sensible(n)' <=> Sensible(n)
  BY <1>1, DocumentKept
<1>4. \A k \in 1 .. Depth - 1 : k \in 1 .. Depth /\ k + 1 \in 1 .. Depth
  BY <1>2
<1>5. 1 \in 1 .. Depth
  BY <1>2
<1>6. stack'[1].left = {} /\ doc[stack'[1].node].tag \in Classes
  BY <1>1, <1>5
<1>7. /\ \A k \in 1 .. Depth : stack'[k].node = 0 <=> k = Depth
      /\ \A k \in 1 .. Depth : \A m \in stack'[k].left : m \in Nodes /\ doc[m].parent = stack'[k].node
  BY <1>1 DEF StackInv
<1>8. \A k \in 1 .. Depth, l \in 1 .. Depth : k < l => stack'[l].node < stack'[k].node
  BY <1>1 DEF StackInv
<1>9. \A k \in 1 .. Depth - 1 :
       /\ stack'[k].node \in Nodes
       /\ doc[stack'[k].node].parent = stack'[k + 1].node
       /\ stack'[k].node \notin stack'[k + 1].left
       /\ \A n \in Nodes : n = stack'[k].node => Sensible(n)
  BY <1>1, <1>4 DEF StackInv
<1>10. phase' \in Phases
  BY <1>1 DEF Phases
<1> QED  BY <1>1, <1>2, <1>3, <1>6, <1>7, <1>8, <1>9, <1>10 DEF StackInv

(* Every step keeps the calls in this order.                               *)
LEMMA StackStep ==
  ASSUME StackInv, [Next]_vars
  PROVE  StackInv'
<1>1. Next \/ UNCHANGED vars
  OBVIOUS
<1>2. CASE Halts \/ UNCHANGED vars
  <2>1. doc' = doc /\ stack' = stack /\ transform' = transform /\ phase' \in {phase, "error", "crash", "returned"}
    BY <1>2, HaltsKeeps DEF vars
  <2>2. Nodes' = Nodes /\ \A n \in Nodes : Sensible(n)' <=> Sensible(n)
    BY <2>1, DocumentKept
  <2>3. phase' \in Phases /\ (phase' = "children" => phase = "children")
    BY <2>1 DEF StackInv, Phases
  <2> QED  BY <2>1, <2>2, <2>3 DEF StackInv, Depth
<1>3. Next => Open \/ Closes \/ Create \/ GiveChild \/ Halts
  BY DEF Next, Closes, Halts
<1> QED  BY <1>1, <1>2, <1>3, StackOpen, StackCloses, StackFills

-----------------------------------------------------------------------------
Values(s) == {s[i] : i \in DOMAIN s}
Pointers == Nat \cup {Null, Default}
Object == [type : Types, toWorld : Seq(Nat), active : BOOLEAN, member : [Members -> Pointers],
           shapes : Seq(Pointers), lights : Seq(Nat), areaLights : Seq(Nat)]

(* The objects: an object is made after its children, which stay in the    *)
(* heap, and all but the one being completed are active; the nodes of the  *)
(* other calls have none, nor have those that are left.                    *)
HeapInv ==
  /\ Objects \subseteq Nodes
  /\ objects \in [Objects -> Object]
  /\ \A n \in Objects :
       /\ ClassOf[objects[n].type] = doc[n].tag
       /\ doc[n].parent = 0 \/ doc[doc[n].parent].tag \in Classes
       /\ doc[n].parent \in Objects \/ \E k \in 1 .. Depth : doc[n].parent = stack[k].node
       /\ \A k \in 1 .. Depth : n \notin stack[k].left
       /\ \A m \in Members : objects[n].member[m] \in Objects \cup {Null, Default}
       /\ \A i \in DOMAIN objects[n].areaLights : objects[n].areaLights[i] \in Objects
       /\ objects[n].active \/ (n = stack[1].node /\ phase # "content")
  /\ \A k \in 2 .. Depth : stack[k].node \notin Objects
  /\ phase = "content" => stack[1].node \notin Objects
  /\ phase = "children" => stack[1].node \in Objects /\ ~objects[stack[1].node].active

(* The children collected by the calls.                                    *)
ListInv ==
  \A k \in 1 .. Depth : \A i \in DOMAIN stack[k].children :
    /\ stack[k].children[i] \in Objects
    /\ objects[stack[k].children[i]].active
    /\ doc[stack[k].children[i]].parent = stack[k].node

(* addChild, case by case (scene.cpp:90-131, perspective.cpp:89-102,       *)
(* shape.cpp:19-31, areaLight.cpp:13-25, ttest.cpp:73-88).                 *)
Added(o, x, c, class) ==
  \/ /\ class \in Single(x.type) /\ x.member[class] = Null
     /\ o = [x EXCEPT !.member[class] = c]
  \/ /\ x.type = "scene" /\ class = "shape"
     /\ o = [x EXCEPT !.shapes = Append(@, c)]
  \/ /\ x.type = "scene" /\ objects[c].type = "areaLight" /\ class = "light"
     /\ o = [x EXCEPT !.lights = Append(@, c), !.areaLights = Append(@, c)]
  \/ /\ x.type = "scene" /\ objects[c].type = "infiniteLight" /\ class = "light"
     /\ x.member["envMap"] = Null
     /\ o = [x EXCEPT !.lights = Append(@, c), !.member["envMap"] = c]
  \/ /\ x.type = "ttest" /\ class \in {"bsdf", "scene"} /\ o = x

(* It is one of these cases.                                               *)
LEMMA AddChildCases ==
  ASSUME NEW x, NEW c, objects[c].type \in Types, x.type \in Types, NEW o \in AddChild(x, c)
  PROVE  Added(o, x, c, ClassOf[objects[c].type])
<1> DEFINE class == ClassOf[objects[c].type]
<1>1. CASE class \in Single(x.type)
  <2>1. /\ ~(x.type = "scene" /\ class = "shape") /\ ~(x.type = "scene" /\ class = "light")
        /\ ~(x.type = "ttest" /\ class \in {"bsdf", "scene"})
    BY <1>1 DEF Single
  <2>2. o \in AddSingle(x, class, c)
    BY <1>1, <2>1 DEF AddChild
  <2> QED  BY <1>1, <2>2 DEF AddSingle, Vacant, Added
<1>2. CASE class \notin Single(x.type) /\ x.type = "scene" /\ class = "shape"
  BY <1>2 DEF AddChild, Added
<1>3. CASE class \notin Single(x.type) /\ x.type = "scene" /\ class = "light"
  <2>1. o \in AddLight(x, c)
    BY <1>3 DEF AddChild
  <2>2. objects[c].type \in {"areaLight", "infiniteLight"}
    BY <1>3, TagsOfObjects DEF ClassOf
  <2>3. CASE objects[c].type = "areaLight"
    BY <1>3, <2>1, <2>3 DEF AddLight, Added
  <2>4. CASE objects[c].type = "infiniteLight"
    BY <1>3, <2>1, <2>4 DEF AddLight, AddSingle, Vacant, Added
  <2> QED  BY <2>2, <2>3, <2>4
<1>4. CASE /\ class \notin Single(x.type) /\ ~(x.type = "scene" /\ class = "shape")
           /\ ~(x.type = "scene" /\ class = "light")
  BY <1>4 DEF AddChild, Added
<1>5. \/ class \in Single(x.type)
      \/ class \notin Single(x.type) /\ x.type = "scene" /\ class = "shape"
      \/ class \notin Single(x.type) /\ x.type = "scene" /\ class = "light"
      \/ /\ class \notin Single(x.type) /\ ~(x.type = "scene" /\ class = "shape")
         /\ ~(x.type = "scene" /\ class = "light")
  OBVIOUS
<1> QED  BY <1>1, <1>2, <1>3, <1>4, <1>5, Zenon

(* An object with a child more is an object, and otherwise the same.       *)
LEMMA AddChildKeeps ==
  ASSUME NEW x \in Object, NEW c \in Nat, objects[c].type \in Types, NEW o \in AddChild(x, c)
  PROVE  /\ o \in Object /\ o.type = x.type /\ o.toWorld = x.toWorld /\ o.active = x.active
         /\ \A m \in Members : o.member[m] \in {x.member[m], c}
         /\ o.areaLights \in {x.areaLights, Append(x.areaLights, c)}
<1> DEFINE class == ClassOf[objects[c].type]
<1>1. x.type \in Types /\ x.member \in [Members -> Pointers] /\ c \in Pointers
  BY DEF Object, Pointers
<1>2. class \in Members /\ "envMap" \in Members
  BY DEF Members, Classes
<1>3. /\ Append(x.shapes, c) \in Seq(Pointers) /\ Append(x.lights, c) \in Seq(Nat)
      /\ Append(x.areaLights, c) \in Seq(Nat)
  BY <1>1 DEF Object
<1>4. \/ class \in Members /\ o = [x EXCEPT !.member[class] = c]
      \/ o = [x EXCEPT !.shapes = Append(@, c)]
      \/ o = [x EXCEPT !.lights = Append(@, c), !.areaLights = Append(@, c)]
      \/ o = [x EXCEPT !.lights = Append(@, c), !.member["envMap"] = c]
      \/ o = x
  <2>1. Added(o, x, c, class)
    BY <1>1, AddChildCases
  <2> HIDE DEF class
  <2> QED  BY <1>2, <2>1 DEF Added
<1> HIDE DEF class
<1>5. CASE class \in Members /\ o = [x EXCEPT !.member[class] = c]
  BY <1>1, <1>5 DEF Object
<1>6. CASE o = [x EXCEPT !.shapes = Append(@, c)]
  BY <1>3, <1>6 DEF Object
<1>7. CASE o = [x EXCEPT !.lights = Append(@, c), !.areaLights = Append(@, c)]
  BY <1>3, <1>7 DEF Object
<1>8. CASE o = [x EXCEPT !.lights = Append(@, c), !.member["envMap"] = c]
  BY <1>1, <1>2, <1>3, <1>8 DEF Object
<1>9. CASE o = x
  BY <1>9
<1> QED  BY <1>4, <1>5, <1>6, <1>7, <1>8, <1>9

(* A child that learns of its parent.                                      *)
LEMMA SetParentKeeps ==
  ASSUME NEW x \in Object, NEW n \in Nat
  PROVE  /\ SetParent(x, n) \in Object /\ SetParent(x, n).type = x.type
         /\ SetParent(x, n).toWorld = x.toWorld /\ SetParent(x, n).active = x.active
         /\ \A m \in Members : SetParent(x, n).member[m] \in {x.member[m], n}
         /\ SetParent(x, n).areaLights = x.areaLights
<1>1. "light" \in Members /\ n \in Pointers
  BY TagsOfObjects DEF Members, Pointers
<1> QED  BY <1>1 DEF SetParent, Object

(* The new object: inactive, without children (parser.cpp:183-190).        *)
LEMMA CreateHeap ==
  ASSUME StackInv, HeapInv, Create
  PROVE  LET t == stack[1].node
         IN  /\ phase = "content" /\ t \in Nodes /\ t \notin Objects /\ t \in 1 .. Len(doc)
             /\ stack' = stack /\ ClassOf[doc[t].type] = doc[t].tag /\ doc[t].tag \in Classes
             /\ Objects' = Objects \cup {t} /\ objects' \in [Objects' -> Object]
             /\ objects'[t] = New(doc[t].type, stack[1].toWorld) /\ doc[t].type \in Types
             /\ objects'[t].type = doc[t].type /\ ~objects'[t].active
             /\ objects'[t].toWorld = stack[1].toWorld
             /\ \A m \in Members : objects'[t].member[m] = Null
             /\ objects'[t].areaLights = <<>>
             /\ \A n \in Objects : n # t /\ objects'[n] = objects[n]
<1> DEFINE t == stack[1].node
           x == New(doc[t].type, stack[1].toWorld)
<1>1. /\ phase = "content" /\ Top.node # 0 /\ stack' = stack
      /\ doc[Top.node].tag \in Classes /\ doc[Top.node].type \in Types
      /\ ClassOf[doc[Top.node].type] = doc[Top.node].tag
      /\ objects' = [n \in DOMAIN objects \cup {Top.node} |->
                       IF n = Top.node THEN New(doc[Top.node].type, Top.toWorld) ELSE objects[n]]
  BY DEF Create, Ready, This
<1>2. stack \in Seq(Calls) /\ Depth \in Nat \ {0} /\ Top = stack[1] /\ stack[1] \in Calls
  BY DEF StackInv, Depth, Top
<1>3. Depth > 1
  <2>1. 1 \in 1 .. Depth /\ (1 = Depth => stack[1].node = 0)
    BY <1>2 DEF StackInv
  <2> QED  BY <1>1, <1>2, <2>1
<1>4. t \in Nodes
  BY <1>2, <1>3 DEF StackInv
<1>5. t \notin Objects /\ objects \in [Objects -> Object]
  BY <1>1 DEF HeapInv
<1>6. /\ x \in Object /\ x.type = doc[t].type /\ ~x.active /\ x.toWorld = stack[1].toWorld
      /\ \A m \in Members : x.member[m] = Null
      /\ x.areaLights = <<>>
  <2>1. stack[1].toWorld \in Seq(Nat) /\ doc[t].type \in Types
    BY <1>1, <1>2 DEF Calls
  <2>2. [m \in Members |-> Null] \in [Members -> Pointers]
    BY DEF Pointers
  <2> QED  BY <2>1, <2>2 DEF New, Object
<1>7. objects' = [n \in Objects \cup {t} |-> IF n = t THEN x ELSE objects[n]]
  BY <1>1, <1>2 DEF Objects
<1> HIDE DEF x
<1>8. /\ DOMAIN objects' = Objects \cup {t} /\ objects'[t] = x
      /\ \A n \in Objects : objects'[n] = objects[n]
  BY <1>5, <1>7
<1>9. objects' \in [Objects \cup {t} -> Object]
  BY <1>5, <1>6, <1>7
<1>10. t \in 1 .. Len(doc)
  BY <1>4, Document DEF StackInv
<1> QED  BY <1>1, <1>2, <1>4, <1>5, <1>6, <1>8, <1>9, <1>10 DEF Objects, x

(* The parent and the child of an addChild and setParent, which are        *)
(* different objects.                                                      *)
LEMMA GiveHeap ==
  ASSUME StackInv, HeapInv, ListInv, GiveChild, NEW n, n = stack[1].node,
         NEW c, c = stack[1].children[1]
  PROVE  /\ n \in Objects /\ ~objects[n].active /\ c \in Objects /\ objects[c].active /\ c # n
         /\ doc[c].parent = n /\ stack[1].children # <<>> /\ 1 \in DOMAIN stack[1].children
         /\ stack[1].children \in Seq(Nat) /\ c \in Nat /\ n \in Nat
         /\ Objects' = Objects /\ objects' \in [Objects -> Object]
         /\ objects'[n] \in AddChild(objects[n], c)
         /\ objects'[c] = SetParent(objects[c], n)
         /\ \A l \in Objects \ {n, c} : objects'[l] = objects[l]
         /\ \A l \in Objects :
              /\ objects'[l].type = objects[l].type /\ objects'[l].active = objects[l].active
              /\ objects'[l].toWorld = objects[l].toWorld
              /\ \A m \in Members : objects'[l].member[m] \in {objects[l].member[m], c, n}
              /\ objects'[l].areaLights
                   \in {objects[l].areaLights, Append(objects[l].areaLights, c)}
<1>1. stack \in Seq(Calls) /\ Depth \in Nat \ {0} /\ Top = stack[1] /\ stack[1] \in Calls
  BY DEF StackInv, Depth, Top
<1>2. PICK o \in AddChild(objects[Top.node], Head(Top.children)) :
         /\ phase = "children" /\ Top.children # <<>>
         /\ objects' = [objects EXCEPT ![Top.node] = o,
                                       ![Head(Top.children)] = SetParent(@, Top.node)]
  BY DEF GiveChild
<1>3. /\ stack[1].children \in Seq(Nat) /\ 1 \in DOMAIN stack[1].children
      /\ Head(stack[1].children) = c /\ c \in Nat
  BY <1>1, <1>2 DEF Calls
<1>4. n \in Objects /\ ~objects[n].active /\ c \in Objects /\ objects[c].active /\ doc[c].parent = n
  <2>1. 1 \in 1 .. Depth
    BY <1>1
  <2> QED  BY <1>2, <1>3, <2>1 DEF HeapInv, ListInv
<1>5. c # n /\ n \in Nat
  BY <1>4, Document DEF StackInv, HeapInv
<1>6. objects \in [Objects -> Object] /\ o \in AddChild(objects[n], c)
  BY <1>1, <1>2, <1>3 DEF HeapInv
<1> DEFINE x == objects[n]  y == objects[c]  z == SetParent(objects[c], n)
<1>7. objects' = [objects EXCEPT ![n] = o, ![c] = z]
  <2>1. objects' = [objects EXCEPT ![n] = o, ![c] = SetParent(@, n)]
    BY <1>1, <1>2, <1>3
  <2> QED  BY <1>4, <1>5, <1>6, <2>1
<1>8. x \in Object /\ y \in Object /\ y.type \in Types
  BY <1>4, <1>6 DEF Object
<1>9. /\ o \in Object /\ o.type = x.type /\ o.toWorld = x.toWorld /\ o.active = x.active
      /\ \A m \in Members : o.member[m] \in {x.member[m], c}
      /\ o.areaLights \in {x.areaLights, Append(x.areaLights, c)}
  <2>1. objects[c].type \in Types /\ objects[n] \in Object
    BY <1>8
  <2> QED  BY <1>3, <1>6, <2>1, AddChildKeeps
<1>10. /\ z \in Object /\ z.type = y.type /\ z.toWorld = y.toWorld /\ z.active = y.active
       /\ \A m \in Members : z.member[m] \in {y.member[m], n}
       /\ z.areaLights = y.areaLights
  <2>1. objects[c] \in Object
    BY <1>8
  <2> QED  BY <1>5, <2>1, SetParentKeeps
<1> HIDE DEF z
<1>11. /\ DOMAIN objects' = Objects /\ objects' \in [Objects -> Object]
       /\ objects'[n] = o /\ objects'[c] = z
       /\ \A l \in Objects \ {n, c} : objects'[l] = objects[l]
  BY <1>4, <1>5, <1>6, <1>7, <1>9, <1>10 DEF Objects
<1>12. ASSUME NEW l \in Objects
       PROVE  /\ objects'[l].type = objects[l].type /\ objects'[l].active = objects[l].active
              /\ objects'[l].toWorld = objects[l].toWorld
              /\ \A m \in Members : objects'[l].member[m] \in {objects[l].member[m], c, n}
              /\ objects'[l].areaLights
                   \in {objects[l].areaLights, Append(objects[l].areaLights, c)}
  <2>1. CASE l = n
    BY <1>9, <1>11, <2>1
  <2>2. CASE l = c
    BY <1>10, <1>11, <2>2
  <2>3. CASE l \in Objects \ {n, c}
    BY <1>11, <2>3
  <2> QED  BY <1>12, <2>1, <2>2, <2>3
<1> QED  BY <1>1, <1>2, <1>3, <1>4, <1>5, <1>6, <1>11, <1>12 DEF Objects, z

(* The object that becomes active (scene.cpp:30-49, perspective.cpp:40-87, *)
(* shape.cpp:4-10).                                                        *)
LEMMA ActivateHeap ==
  ASSUME StackInv, HeapInv, Activate
  PROVE  LET t == stack[1].node
         IN  /\ phase = "children" /\ stack[1].children = <<>>
             /\ t \in Objects /\ ~objects[t].active /\ doc[t].tag \in Classes
             /\ ~Rejected(objects[t]) /\ ~Bare(objects[t])
             /\ LitShapes(objects[t]) \in Seq(Pointers)
             /\ Objects' = Objects /\ objects' \in [Objects -> Object]
             /\ objects'[t] = Activated(objects[t]) /\ objects'[t].active
             /\ \A l \in Objects \ {t} : objects'[l] = objects[l]
             /\ \A l \in Objects :
                  /\ objects'[l].type = objects[l].type
                  /\ objects'[l].toWorld = objects[l].toWorld
                  /\ \A m \in Members : objects'[l].member[m] \in {objects[l].member[m], Default}
                  /\ objects'[l].areaLights = objects[l].areaLights
<1> DEFINE t == stack[1].node
           x == objects[t]
           a == Activated(objects[t])
<1>1. /\ phase = "children" /\ Top = stack[1] /\ stack[1].children = <<>>
      /\ ~Rejected(x) /\ ~Bare(x) /\ objects' = [objects EXCEPT ![t] = Activated(@)]
  <2>1. Top = stack[1]
    BY DEF StackInv, Depth, Top
  <2> QED  BY <2>1 DEF Activate, Activating
<1>2. /\ t \in Objects /\ ~x.active /\ doc[t].tag \in Classes
      /\ objects \in [Objects -> Object] /\ x \in Object
  BY <1>1 DEF HeapInv, StackInv
<1>3. LitShapes(x) \in Seq(Pointers)
  <2>1. x.areaLights \in Seq(Nat) /\ \A i \in DOMAIN x.areaLights : x.areaLights[i] \in Objects
    BY <1>2 DEF HeapInv, Object
  <2>2. "shape" \in Members
    BY TagsOfObjects DEF Members
  <2>3. \A i \in DOMAIN x.areaLights : objects[x.areaLights[i]].member["shape"] \in Pointers
    <3>1. \A l \in Objects : objects[l].member \in [Members -> Pointers]
      BY <1>2 DEF Object
    <3> QED  BY <2>1, <2>2, <3>1
  <2>4. DOMAIN x.areaLights = 1 .. Len(x.areaLights) /\ Len(x.areaLights) \in Nat
    BY <2>1
  <2>5. LitShapes(x) \in [1 .. Len(x.areaLights) -> Pointers]
    BY <2>3, <2>4 DEF LitShapes
  <2> HIDE DEF x
  <2> QED  BY <2>4, <2>5, SeqDef
<1> DEFINE s == LitShapes(x)
           f == [m \in Members |->
                   IF m \in Defaulted(x.type) /\ x.member[m] = Null THEN Default ELSE x.member[m]]
<1>4. a = [[[x EXCEPT !.active = TRUE] EXCEPT !.member = f] EXCEPT !.shapes = @ \o s]
  BY DEF Activated
<1>5. /\ f \in [Members -> Pointers]
      /\ \A m \in Members : f[m] \in {x.member[m], Default}
  <2>1. x.member \in [Members -> Pointers] /\ Default \in Pointers
    BY <1>2 DEF Object, Pointers
  <2> QED  BY <2>1
<1>6. x.shapes \o s \in Seq(Pointers)
  <2>1. x.shapes \in Seq(Pointers)
    BY <1>2 DEF Object
  <2> HIDE DEF s, x
  <2> QED  BY <1>3, <2>1 DEF s
<1> HIDE DEF s, f, a
<1>7. /\ a \in Object /\ a.type = x.type /\ a.toWorld = x.toWorld /\ a.active
      /\ \A m \in Members : a.member[m] \in {x.member[m], Default}
      /\ a.areaLights = x.areaLights
  BY <1>2, <1>4, <1>5, <1>6 DEF Object
<1>8. /\ DOMAIN objects' = Objects /\ objects' \in [Objects -> Object] /\ objects'[t] = a
      /\ \A l \in Objects \ {t} : objects'[l] = objects[l]
  <2>1. objects' = [objects EXCEPT ![t] = a]
    BY <1>1, <1>2 DEF a
  <2> QED  BY <1>2, <1>7, <2>1 DEF Objects
<1>9. ASSUME NEW l \in Objects
      PROVE  /\ objects'[l].type = objects[l].type
             /\ objects'[l].toWorld = objects[l].toWorld
             /\ \A m \in Members : objects'[l].member[m] \in {objects[l].member[m], Default}
             /\ objects'[l].areaLights = objects[l].areaLights
  <2>1. CASE l = t
    BY <1>7, <1>8, <2>1
  <2>2. CASE l # t
    BY <1>8, <2>2
  <2> QED  BY <2>1, <2>2
<1> QED  BY <1>1, <1>2, <1>3, <1>7, <1>8, <1>9 DEF Objects, a

(* The heap and the lists at the beginning.                                *)
LEMMA HeapInit ==
  ASSUME Init
  PROVE  HeapInv /\ ListInv
<1>1. Depth = 1 /\ stack[1].children = <<>> /\ phase = "content" /\ objects = <<>>
  BY StackInit DEF Init
<1>2. Objects = {}
  BY <1>1 DEF Objects
<1>3. objects \in [Objects -> Object]
  BY <1>1, <1>2
<1>4. \A k \in 1 .. Depth : DOMAIN stack[k].children = {}
  BY <1>1
<1> QED  BY <1>1, <1>2, <1>3, <1>4 DEF HeapInv, ListInv

(* A new call: its node has no object, nor have its children.              *)
LEMMA HeapOpen ==
  ASSUME StackInv, HeapInv, ListInv, Open
  PROVE  HeapInv' /\ ListInv'
<1> DEFINE m == Upcoming
<1>1. /\ doc' = doc /\ objects' = objects /\ phase' = "content"
      /\ Depth' = Depth + 1 /\ stack' \in Seq(Calls)
      /\ m \in stack[1].left /\ m \in Nodes /\ doc[m].parent = stack[1].node
      /\ stack'[1].node = m /\ stack'[1].left = ChildrenOf(m)
      /\ stack'[1].children = <<>>
      /\ stack'[2].node = stack[1].node /\ stack'[2].left = stack[1].left \ {m}
      /\ stack'[2].children = stack[1].children
      /\ \A k \in 3 .. Depth + 1 : stack'[k] = stack[k - 1]
      /\ phase = "content"
  BY OpenStack DEF Open
<1> HIDE DEF m
<1>2. doc \in Files /\ Depth \in Nat \ {0}
  BY DEF StackInv
<1>3. Nodes' = Nodes /\ Objects' = Objects /\ Objects \subseteq Nodes
  BY <1>1, DocumentKept DEF Objects, HeapInv
<1>4. \A k \in 2 .. Depth + 1 :
        /\ k - 1 \in 1 .. Depth /\ stack'[k].node = stack[k - 1].node
        /\ stack'[k].left \subseteq stack[k - 1].left
        /\ stack'[k].children = stack[k - 1].children
  <2> SUFFICES ASSUME NEW k \in 2 .. Depth + 1
               PROVE  /\ k - 1 \in 1 .. Depth /\ stack'[k].node = stack[k - 1].node
                      /\ stack'[k].left \subseteq stack[k - 1].left
                      /\ stack'[k].children = stack[k - 1].children
    OBVIOUS
  <2>1. CASE k = 2
    BY <1>1, <1>2, <2>1
  <2>2. CASE k # 2
    BY <1>1, <1>2, <2>2
  <2> QED  BY <2>1, <2>2
<1>5. \A k \in 1 .. Depth + 1 : k = 1 \/ k \in 2 .. Depth + 1
  BY <1>2
<1>6. \A k \in 1 .. Depth : stack[k].node \notin Objects
  <2>1. \A k \in 1 .. Depth : k = 1 \/ k \in 2 .. Depth
    BY <1>2
  <2> QED  BY <1>1, <2>1 DEF HeapInv
<1>7. \A k \in 1 .. Depth : m # stack[k].node
  <2>1. \A k \in 1 .. Depth : stack[k].node \in Nat
    <3>1. \A k \in 1 .. Depth : stack[k] \in Calls
      BY <1>2 DEF StackInv, Depth
    <3> QED  BY <3>1 DEF Calls
  <2>2. \A k \in 1 .. Depth : stack[k].node <= stack[1].node
    <3> SUFFICES ASSUME NEW k \in 1 .. Depth  PROVE stack[k].node <= stack[1].node
      OBVIOUS
    <3>1. 1 \in 1 .. Depth /\ (k = 1 \/ 1 < k)
      BY <1>2
    <3>2. 1 < k => stack[k].node < stack[1].node
      BY <3>1 DEF StackInv
    <3> QED  BY <2>1, <3>1, <3>2
  <2>3. stack[1].node < m /\ m \in Nat
    BY <1>1, <1>2, Document
  <2> QED  BY <1>2, <2>1, <2>2, <2>3
<1>8. m \notin Objects
  <2>1. 1 \in 1 .. Depth
    BY <1>2
  <2> QED  BY <1>1, <2>1 DEF HeapInv
<1>9. \A n \in Objects : n \notin ChildrenOf(m)
  <2>1. \A n \in ChildrenOf(m) : doc[n].parent = m
    BY DEF ChildrenOf
  <2> QED  BY <1>7, <1>8, <2>1 DEF HeapInv
<1>10. ASSUME NEW n \in Objects
       PROVE  /\ doc[n].parent \in Objects \/ \E k \in 1 .. Depth + 1 : doc[n].parent = stack'[k].node
              /\ \A k \in 1 .. Depth + 1 : n \notin stack'[k].left
              /\ objects[n].active
  <2>1. \A k \in 1 .. Depth : k + 1 \in 2 .. Depth + 1 /\ (k + 1) - 1 = k /\ k + 1 \in 1 .. Depth + 1
    BY <1>2
  <2>2. doc[n].parent \in Objects \/ \E k \in 1 .. Depth : doc[n].parent = stack[k].node
    BY DEF HeapInv
  <2>3. \A k \in 1 .. Depth : stack'[k + 1].node = stack[k].node
    BY <1>4, <2>1
  <2>4. \A k \in 1 .. Depth + 1 : n \notin stack'[k].left
    <3>1. \A k \in 1 .. Depth : n \notin stack[k].left
      BY DEF HeapInv
    <3> QED  BY <1>1, <1>4, <1>5, <1>9, <3>1
  <2>5. objects[n].active
    BY <1>1 DEF HeapInv
  <2> QED  BY <2>1, <2>2, <2>3, <2>4, <2>5
<1>11. \A k \in 1 .. Depth + 1 : stack'[k].node \notin Objects
  BY <1>1, <1>4, <1>5, <1>6, <1>8
<1>12. HeapInv'
  <2>1. \A k \in 2 .. Depth + 1 : k \in 1 .. Depth + 1
    BY <1>2
  <2>2. objects' \in [Objects -> Object] /\ 1 \in 1 .. Depth + 1
    BY <1>1, <1>2 DEF HeapInv
  <2>3. \A n \in Objects :
          /\ ClassOf[objects[n].type] = doc[n].tag
          /\ doc[n].parent = 0 \/ doc[doc[n].parent].tag \in Classes
          /\ \A l \in Members : objects[n].member[l] \in Objects \cup {Null, Default}
          /\ \A i \in DOMAIN objects[n].areaLights : objects[n].areaLights[i] \in Objects
    BY DEF HeapInv
  <2> QED  BY <1>1, <1>3, <1>10, <1>11, <2>1, <2>2, <2>3 DEF HeapInv
<1>13. ListInv'
  <2>1. ASSUME NEW k \in 1 .. Depth + 1, NEW i \in DOMAIN stack'[k].children
        PROVE  /\ stack'[k].children[i] \in Objects /\ objects[stack'[k].children[i]].active
               /\ doc[stack'[k].children[i]].parent = stack'[k].node
    <3>1. CASE k = 1
      BY <1>1, <3>1
    <3>2. CASE k \in 2 .. Depth + 1
      BY <1>4, <3>2 DEF ListInv
    <3> QED  BY <1>5, <3>1, <3>2
  <2> QED  BY <1>1, <1>3, <2>1 DEF ListInv
<1> QED  BY <1>12, <1>13

(* An element that is an object or holds objects is an object, or the      *)
(* document: properties and transforms hold none.                          *)
LEMMA ParentOfObject ==
  ASSUME StackInv, NEW k \in 1 .. Depth - 1, doc[stack[k].node].tag \in Classes
  PROVE  stack[k + 1].node = 0 \/ doc[stack[k + 1].node].tag \in Classes
<1>1. Depth \in Nat \ {0} /\ doc \in Files
  BY DEF StackInv
<1> DEFINE t == stack[k].node  p == stack[k + 1].node
<1>2. t \in Nodes /\ doc[t].parent = p /\ Sensible(t)
  BY DEF StackInv
<1>3. p # 0 => Sensible(p)
  <2>1. k + 1 \in 1 .. Depth /\ (k + 1 = Depth <=> p = 0)
    BY <1>1 DEF StackInv
  <2>2. p # 0 => k + 1 \in 1 .. Depth - 1
    BY <1>1, <2>1
  <2> QED  BY <2>2 DEF StackInv
<1> HIDE DEF t, p
<1>4. doc[t].tag # "op"
  BY TagsOfObjects DEF t
<1> QED  BY <1>2, <1>3, <1>4, TagsOfObjects DEF Sensible, Tags, p

(* A new object is the top of the heap, its parent is the calling element. *)
LEMMA HeapCreate ==
  ASSUME StackInv, HeapInv, ListInv, Create
  PROVE  HeapInv' /\ ListInv'
<1> DEFINE t == stack[1].node
<1>1. /\ phase = "content" /\ t \in Nodes /\ t \notin Objects /\ stack' = stack
      /\ ClassOf[doc[t].type] = doc[t].tag /\ doc[t].tag \in Classes
      /\ Objects' = Objects \cup {t} /\ objects' \in [Objects' -> Object]
      /\ objects'[t].type = doc[t].type /\ ~objects'[t].active
      /\ \A m \in Members : objects'[t].member[m] = Null
      /\ objects'[t].areaLights = <<>>
      /\ \A n \in Objects : n # t /\ objects'[n] = objects[n]
  BY CreateHeap
<1>2. doc' = doc /\ phase' = "children" /\ Depth' = Depth /\ Depth > 1 /\ stack[1].left = {}
  BY FillsKeeps
<1>3. doc \in Files /\ Depth \in Nat \ {0} /\ Nodes' = Nodes
  BY <1>2, DocumentKept DEF StackInv
<1>4. doc[t].parent = stack[2].node /\ 1 \in 1 .. Depth - 1 /\ 2 \in 1 .. Depth
  BY <1>2, <1>3 DEF StackInv
<1>5. doc[t].parent = 0 \/ doc[doc[t].parent].tag \in Classes
  BY <1>1, <1>4, ParentOfObject
<1>6. \A k \in 1 .. Depth : t \notin stack[k].left
  <2> SUFFICES ASSUME NEW k \in 1 .. Depth, t \in stack[k].left  PROVE FALSE
    OBVIOUS
  <2>1. k # 1
    BY <1>2
  <2>2. doc[t].parent = stack[k].node
    BY DEF StackInv
  <2>3. k = 2
    <3>1. \A l \in 1 .. Depth : stack[l].node \in Nat
      <4>1. \A l \in 1 .. Depth : stack[l] \in Calls
        BY <1>3 DEF StackInv, Depth
      <4> QED  BY <4>1 DEF Calls
    <3>2. 2 < k => stack[k].node < stack[2].node
      BY <1>4 DEF StackInv
    <3> QED  BY <1>3, <1>4, <2>1, <2>2, <3>1, <3>2
  <2>4. stack[1].node \notin stack[1 + 1].left
    BY <1>4 DEF StackInv
  <2> QED  BY <2>3, <2>4
<1>7. \A k \in 2 .. Depth : stack[k].node \notin Objects /\ stack[k].node # t
  <2>1. \A k \in 2 .. Depth : 1 \in 1 .. Depth /\ k \in 1 .. Depth /\ 1 < k
    BY <1>3
  <2>2. \A k \in 2 .. Depth : stack[k].node < stack[1].node
    BY <2>1 DEF StackInv
  <2>3. stack[1].node \in Nat
    BY <1>1, <1>3, Document
  <2> QED  BY <2>2, <2>3 DEF HeapInv
<1>8. HeapInv'
  <2>1. ASSUME NEW n \in Objects \cup {t}
        PROVE  /\ ClassOf[objects'[n].type] = doc[n].tag
               /\ doc[n].parent = 0 \/ doc[doc[n].parent].tag \in Classes
               /\ \/ doc[n].parent \in Objects \cup {t}
                  \/ \E k \in 1 .. Depth : doc[n].parent = stack[k].node
               /\ \A k \in 1 .. Depth : n \notin stack[k].left
               /\ \A m \in Members : objects'[n].member[m] \in Objects \cup {t} \cup {Null, Default}
               /\ \A i \in DOMAIN objects'[n].areaLights :
                    objects'[n].areaLights[i] \in Objects \cup {t}
               /\ objects'[n].active \/ n = t
    <3>1. CASE n = t
      BY <1>1, <1>4, <1>5, <1>6, <3>1
    <3>2. CASE n \in Objects
      BY <1>1, <3>2 DEF HeapInv
    <3> QED  BY <3>1, <3>2
  <2>2. Objects \cup {t} \subseteq Nodes
    BY <1>1 DEF HeapInv
  <2> QED  BY <1>1, <1>2, <1>3, <1>7, <2>1, <2>2 DEF HeapInv
<1>9. ListInv'
  BY <1>1, <1>2 DEF ListInv
<1> QED  BY <1>8, <1>9

(* A child is given to the new object: both keep all that counts here.     *)
LEMMA HeapGive ==
  ASSUME StackInv, HeapInv, ListInv, GiveChild
  PROVE  HeapInv' /\ ListInv'
<1> DEFINE n == stack[1].node  c == stack[1].children[1]
<1>1. /\ n \in Objects /\ ~objects[n].active /\ c \in Objects
      /\ stack[1].children # <<>> /\ stack[1].children \in Seq(Nat) /\ c \in Nat
      /\ Objects' = Objects /\ objects' \in [Objects -> Object]
      /\ \A l \in Objects :
           /\ objects'[l].type = objects[l].type /\ objects'[l].active = objects[l].active
           /\ \A m \in Members : objects'[l].member[m] \in {objects[l].member[m], c, n}
           /\ objects'[l].areaLights
                \in {objects[l].areaLights, Append(objects[l].areaLights, c)}
  BY GiveHeap
<1>2. /\ doc' = doc /\ phase' = "children" /\ phase = "children" /\ Depth' = Depth
      /\ stack'[1].children = Tail(stack[1].children)
      /\ \A k \in 2 .. Depth : stack'[k] = stack[k]
  BY GiveStack
<1>3. \A k \in 1 .. Depth : stack'[k].node = stack[k].node /\ stack'[k].left = stack[k].left
  BY FillsKeeps
<1>4. doc \in Files /\ Depth \in Nat \ {0} /\ Nodes' = Nodes
  BY <1>2, DocumentKept DEF StackInv
<1>5. 1 \in 1 .. Depth /\ \A k \in 1 .. Depth : k = 1 \/ k \in 2 .. Depth
  BY <1>4
<1>6. \A k \in 2 .. Depth : k \in 1 .. Depth
  BY <1>4
<1>7. ASSUME NEW l \in Objects
      PROVE  \A i \in DOMAIN objects'[l].areaLights : objects'[l].areaLights[i] \in Objects
  <2> DEFINE q == objects[l].areaLights
  <2>1. q \in Seq(Nat) /\ \A i \in DOMAIN q : q[i] \in Objects
    BY DEF HeapInv, Object
  <2>2. objects'[l].areaLights \in {q, Append(q, c)}
    BY <1>1
  <2> HIDE DEF q, c
  <2>3. \A i \in DOMAIN Append(q, c) : Append(q, c)[i] \in Objects
    BY <1>1, <2>1
  <2> QED  BY <2>1, <2>2, <2>3
<1> HIDE DEF c
<1>8. HeapInv'
  <2>1. ASSUME NEW l \in Objects
        PROVE  /\ ClassOf[objects'[l].type] = doc[l].tag
               /\ doc[l].parent = 0 \/ doc[doc[l].parent].tag \in Classes
               /\ \/ doc[l].parent \in Objects
                  \/ \E k \in 1 .. Depth : doc[l].parent = stack'[k].node
               /\ \A k \in 1 .. Depth : l \notin stack'[k].left
               /\ \A m \in Members : objects'[l].member[m] \in Objects \cup {Null, Default}
               /\ objects'[l].active \/ l = stack'[1].node
    <3>1. /\ ClassOf[objects[l].type] = doc[l].tag
          /\ doc[l].parent = 0 \/ doc[doc[l].parent].tag \in Classes
          /\ doc[l].parent \in Objects \/ \E k \in 1 .. Depth : doc[l].parent = stack[k].node
          /\ \A k \in 1 .. Depth : l \notin stack[k].left
          /\ \A m \in Members : objects[l].member[m] \in Objects \cup {Null, Default}
          /\ objects[l].active \/ l = stack[1].node
      BY DEF HeapInv
    <3>2. \A m \in Members : objects'[l].member[m] \in Objects \cup {Null, Default}
      BY <1>1, <3>1
    <3>3. /\ objects'[l].type = objects[l].type /\ objects'[l].active = objects[l].active
      BY <1>1
    <3> QED  BY <1>3, <1>5, <3>1, <3>2, <3>3
  <2>2. /\ Objects \subseteq Nodes /\ \A k \in 2 .. Depth : stack'[k].node \notin Objects
        /\ stack'[1].node \in Objects /\ ~objects'[stack'[1].node].active
    <3>1. stack'[1].node = n
      BY <1>3, <1>5
    <3>2. \A k \in 2 .. Depth : stack[k].node \notin Objects /\ stack'[k].node = stack[k].node
      BY <1>3, <1>6 DEF HeapInv
    <3>3. objects'[n].active = objects[n].active
      BY <1>1
    <3> QED  BY <1>1, <3>1, <3>2, <3>3 DEF HeapInv
  <2> QED  BY <1>1, <1>2, <1>4, <1>7, <2>1, <2>2 DEF HeapInv
<1>9. ListInv'
  <2>1. ASSUME NEW k \in 1 .. Depth, NEW i \in DOMAIN stack'[k].children
        PROVE  /\ stack'[k].children[i] \in Objects /\ objects'[stack'[k].children[i]].active
               /\ doc[stack'[k].children[i]].parent = stack'[k].node
    <3>1. CASE k = 1
      <4> DEFINE q == stack[1].children
      <4>1. q \in Seq(Nat) /\ q # <<>> /\ i \in DOMAIN Tail(q) /\ stack'[k].children[i] = Tail(q)[i]
        BY <1>1, <1>2, <3>1
      <4> HIDE DEF q
      <4>2. i + 1 \in DOMAIN q /\ Tail(q)[i] = q[i + 1]
        BY <4>1
      <4>3. q[i + 1] \in Objects /\ objects[q[i + 1]].active /\ doc[q[i + 1]].parent = stack[1].node
        BY <1>5, <4>2 DEF ListInv, q
      <4> QED  BY <1>1, <1>3, <3>1, <4>1, <4>2, <4>3
    <3>2. CASE k \in 2 .. Depth
      <4>1. stack'[k] = stack[k] /\ i \in DOMAIN stack[k].children
        BY <1>2, <3>2
      <4>2. /\ stack[k].children[i] \in Objects /\ objects[stack[k].children[i]].active
            /\ doc[stack[k].children[i]].parent = stack[k].node
        BY <4>1 DEF ListInv
      <4> QED  BY <1>1, <4>1, <4>2
    <3> QED  BY <1>5, <3>1, <3>2
  <2> QED  BY <1>1, <1>2, <2>1 DEF ListInv
<1> QED  BY <1>8, <1>9

(* A call ends: the object it built, if any, is in the list of the caller. *)
LEMMA HeapCloses ==
  ASSUME StackInv, HeapInv, ListInv, Closes
  PROVE  HeapInv' /\ ListInv'
<1> DEFINE t == stack[1].node
<1>1. /\ doc' = doc /\ phase' = "content"
      /\ t # 0 /\ stack[1].left = {}
      /\ Depth > 1 /\ Depth' = Depth - 1
      /\ stack'[1].children = stack[2].children \o Returned
      /\ \A k \in 2 .. Depth - 1 : stack'[k] = stack[k + 1]
      /\ \A k \in 1 .. Depth - 1 :
           stack'[k].node = stack[k + 1].node /\ stack'[k].left = stack[k + 1].left
  BY ClosesReturn
<1>2. doc \in Files /\ Depth \in Nat \ {0} /\ Nodes' = Nodes
  BY <1>1, DocumentKept DEF StackInv
<1>3. Top = stack[1] /\ stack[2].children \in Seq(Nat)
  <2>1. stack \in Seq(Calls) /\ Depth = Len(stack)
    BY DEF StackInv, Depth
  <2>2. stack[2] \in Calls /\ Top = stack[1]
    BY <1>1, <1>2, <2>1 DEF Top
  <2> QED  BY <2>2 DEF Calls
<1>4. \/ /\ Activate /\ doc[t].tag \in Classes /\ t \in Objects /\ Returned = <<t>>
      \/ /\ phase = "content" /\ objects' = objects /\ doc[t].tag \notin Classes /\ Returned = <<>>
  <2>1. CASE Activate
    <3>1. doc[t].tag \in Classes /\ t \in Objects
      BY <2>1, ActivateHeap
    <3> QED  BY <1>3, <2>1, <3>1 DEF Returned, This
  <2>2. CASE CloseProperty \/ CloseTransform \/ CloseOp
    <3>1. phase = "content" /\ objects' = objects /\ doc[t].tag \in {"property", "transform", "op"}
      BY <1>3, <2>2 DEF CloseProperty, CloseTransform, CloseOp, Ready, This
    <3> QED  BY <1>3, <3>1, TagsOfObjects DEF Returned, This
  <2> QED  BY <2>1, <2>2 DEF Closes
<1>5. /\ Objects' = Objects /\ objects' \in [Objects -> Object]
      /\ \A l \in Objects :
           /\ objects'[l].type = objects[l].type /\ objects'[l].active
           /\ \A m \in Members : objects'[l].member[m] \in {objects[l].member[m], Default}
           /\ objects'[l].areaLights = objects[l].areaLights
  <2>1. CASE Activate
    <3>1. /\ Objects' = Objects /\ objects' \in [Objects -> Object]
          /\ objects'[t].active /\ \A l \in Objects \ {t} : objects'[l] = objects[l]
          /\ \A l \in Objects :
               /\ objects'[l].type = objects[l].type
               /\ \A m \in Members : objects'[l].member[m] \in {objects[l].member[m], Default}
               /\ objects'[l].areaLights = objects[l].areaLights
      BY <2>1, ActivateHeap
    <3>2. \A l \in Objects : objects[l].active \/ l = t
      BY DEF HeapInv
    <3> QED  BY <3>1, <3>2
  <2>2. CASE phase = "content" /\ objects' = objects
    <3>1. \A l \in Objects : objects[l].active
      BY <2>2 DEF HeapInv
    <3> QED  BY <2>2, <3>1 DEF Objects, HeapInv
  <2> QED  BY <1>4, <2>1, <2>2
<1>6. ASSUME NEW l \in Objects
      PROVE  /\ \/ doc[l].parent \in Objects
                \/ \E k \in 1 .. Depth - 1 : doc[l].parent = stack'[k].node
             /\ \A k \in 1 .. Depth - 1 : l \notin stack'[k].left
  <2>1. \A k \in 1 .. Depth - 1 : l \notin stack'[k].left
    <3>1. \A k \in 1 .. Depth : l \notin stack[k].left
      BY DEF HeapInv
    <3> QED  BY <1>1, <1>2, <3>1
  <2>2. doc[l].parent = t => t \in Objects
    <3>1. doc[l].parent = 0 \/ doc[doc[l].parent].tag \in Classes
      BY DEF HeapInv
    <3> QED  BY <1>1, <1>4, <3>1
  <2>3. doc[l].parent \in Objects \/ \E k \in 1 .. Depth : doc[l].parent = stack[k].node
    BY DEF HeapInv
  <2>4. ASSUME NEW k \in 1 .. Depth, doc[l].parent = stack[k].node, k # 1
        PROVE  \E j \in 1 .. Depth - 1 : doc[l].parent = stack'[j].node
    <3>1. k - 1 \in 1 .. Depth - 1 /\ (k - 1) + 1 = k
      BY <1>2, <2>4
    <3>2. stack'[k - 1].node = stack[(k - 1) + 1].node
      BY <1>1, <3>1
    <3> QED  BY <2>4, <3>1, <3>2
  <2> QED  BY <2>1, <2>2, <2>3, <2>4
<1>7. \A k \in 1 .. Depth - 1 : stack'[k].node \notin Objects
  <2>1. \A k \in 1 .. Depth - 1 : k + 1 \in 2 .. Depth
    BY <1>2
  <2> QED  BY <1>1, <2>1 DEF HeapInv
<1>8. HeapInv'
  <2>1. ASSUME NEW l \in Objects
        PROVE  /\ ClassOf[objects'[l].type] = doc[l].tag
               /\ doc[l].parent = 0 \/ doc[doc[l].parent].tag \in Classes
               /\ \A m \in Members : objects'[l].member[m] \in Objects \cup {Null, Default}
               /\ \A i \in DOMAIN objects'[l].areaLights : objects'[l].areaLights[i] \in Objects
    BY <1>5 DEF HeapInv
  <2>2. Objects \subseteq Nodes /\ 1 \in 1 .. Depth - 1 /\ \A k \in 2 .. Depth - 1 : k \in 1 .. Depth - 1
    BY <1>1, <1>2 DEF HeapInv
  <2> QED  BY <1>1, <1>2, <1>5, <1>6, <1>7, <2>1, <2>2 DEF HeapInv
<1>9. ListInv'
  <2>1. ASSUME NEW k \in 1 .. Depth - 1, NEW i \in DOMAIN stack'[k].children
        PROVE  /\ stack'[k].children[i] \in Objects
               /\ doc[stack'[k].children[i]].parent = stack'[k].node
    <3>1. k + 1 \in 1 .. Depth /\ stack'[k].node = stack[k + 1].node
      BY <1>1, <1>2
    <3>2. CASE k = 1
      <4> DEFINE q == stack[2].children
      <4>1. 2 \in 1 .. Depth /\ \A a \in DOMAIN q : q[a] \in Objects /\ doc[q[a]].parent = stack[2].node
        <5>1. 2 \in 1 .. Depth
          BY <1>1, <1>2
        <5> QED  BY <5>1 DEF ListInv
      <4>2. /\ q \in Seq(Nat) /\ stack'[k].children = q \o Returned
            /\ Returned = <<>> \/ (Returned = <<t>> /\ t \in Objects)
        <5>1. Returned = <<>> \/ (Returned = <<t>> /\ t \in Objects)
          BY <1>4
        <5>2. stack'[1].children = q \o Returned
          BY <1>1
        <5> QED  BY <1>3, <3>2, <5>1, <5>2, Zenon
      <4>3. doc[t].parent = stack[2].node
        <5>1. 1 \in 1 .. Depth - 1
          BY <1>1, <1>2
        <5>2. doc[stack[1].node].parent = stack[1 + 1].node
          BY <5>1 DEF StackInv
        <5> QED  BY <5>2
      <4> DEFINE r == Returned
      <4>4. r = <<>> \/ (r = <<t>> /\ t \in Objects /\ t \in Nat)
        <5>1. t \in Objects => t \in Nat
          BY <1>2, Document DEF HeapInv
        <5> QED  BY <4>2, <5>1, Zenon
      <4> HIDE DEF q, r, t
      <4>5. i \in DOMAIN (q \o r) /\ stack'[k].children[i] = (q \o r)[i]
        BY <4>2 DEF r
      <4>6. CASE r = <<>>
        <5>1. q \in Seq(Nat)
          BY <4>2
        <5>2. q \o <<>> = q
          BY <5>1, ConcatEmptySeq, Zenon
        <5> QED  BY <3>1, <3>2, <4>1, <4>5, <4>6, <5>2
      <4>7. CASE r = <<t>> /\ t \in Objects /\ t \in Nat
        <5>1. q \in Seq(Nat)
          BY <4>2
        <5>2. q \o <<t>> = Append(q, t)
          BY <4>7, <5>1, AppendIsConcat, Zenon
        <5>3. (i \in DOMAIN q /\ (q \o r)[i] = q[i]) \/ (q \o r)[i] = t
          BY <4>5, <4>7, <5>1, <5>2
        <5> QED  BY <3>1, <3>2, <4>1, <4>3, <4>5, <4>7, <5>3
      <4> QED  BY <4>4, <4>6, <4>7
    <3>3. CASE k # 1
      <4>1. k \in 2 .. Depth - 1
        BY <1>2, <3>3
      <4>2. stack'[k] = stack[k + 1]
        BY <1>1, <4>1
      <4>3. \A a \in DOMAIN stack[k + 1].children :
              /\ stack[k + 1].children[a] \in Objects
              /\ doc[stack[k + 1].children[a]].parent = stack[k + 1].node
        BY <3>1 DEF ListInv
      <4> QED  BY <4>2, <4>3
    <3> QED  BY <3>2, <3>3
  <2> QED  BY <1>1, <1>5, <2>1 DEF ListInv
<1> QED  BY <1>8, <1>9

(* Every step keeps heap and lists.                                        *)
LEMMA HeapStep ==
  ASSUME StackInv, HeapInv, ListInv, [Next]_vars
  PROVE  HeapInv' /\ ListInv'
<1>1. CASE Halts \/ UNCHANGED vars
  <2>1. doc' = doc /\ stack' = stack /\ objects' = objects /\ phase' \in {phase, "error", "crash", "returned"}
    BY <1>1, HaltsKeeps DEF vars
  <2>2. Nodes' = Nodes /\ Objects' = Objects /\ Depth' = Depth
    BY <2>1 DEF Nodes, Objects, Depth
  <2>3. /\ phase' = "content" => phase = "content"
        /\ phase' = "children" => phase = "children"
        /\ \A n \in Objects : objects[n].active \/ (n = stack[1].node /\ phase # "content")
    BY <2>1 DEF HeapInv
  <2>4. \A n \in Objects : objects[n].active \/ (n = stack[1].node /\ phase' # "content")
    BY <2>1, <2>3
  <2>5. HeapInv'
    BY <2>1, <2>2, <2>3, <2>4 DEF HeapInv
  <2> QED  BY <2>1, <2>2, <2>5 DEF ListInv
<1>2. Next => Open \/ Closes \/ Create \/ GiveChild \/ Halts
  BY DEF Next, Closes, Halts
<1>3. Next \/ UNCHANGED vars
  OBVIOUS
<1> QED  BY <1>1, <1>2, <1>3, HeapOpen, HeapCreate, HeapGive, HeapCloses, Zenon

(* The pointers handed from call to call are neither null nor dangling,    *)
(* however deep the recursion and whatever the document (parser.cpp:127,   *)
(* 174-183, 231-234).                                                      *)
THEOREM PointersSound == Spec => []ParserTypeOK
<1>1. Init => StackInv /\ HeapInv /\ ListInv
  BY StackInit, HeapInit
<1>2. StackInv /\ HeapInv /\ ListInv /\ [Next]_vars => (StackInv /\ HeapInv /\ ListInv)'
  BY StackStep, HeapStep
<1>3. StackInv /\ HeapInv /\ ListInv => ParserTypeOK
  <2> SUFFICES ASSUME StackInv, HeapInv, ListInv  PROVE ParserTypeOK
    OBVIOUS
  <2>1. DOMAIN stack = 1 .. Depth
    BY DEF StackInv, Depth
  <2>2. phase \in {"content", "children", "returned", "error", "crash"}
    BY DEF StackInv, Phases
  <2>3. \A i \in DOMAIN stack :
          /\ stack[i].left \subseteq Nodes
          /\ \A k \in DOMAIN stack[i].children :
               LET c == stack[i].children[k]
               IN  c \in Objects /\ objects[c].active /\ doc[c].parent = stack[i].node
    BY <2>1 DEF StackInv, ListInv
  <2>4. \A n \in Objects : objects[n].type \in Types /\ objects[n].active \in BOOLEAN
    BY DEF HeapInv, Object
  <2>5. Objects \subseteq Nodes /\ \A n \in Objects : \A m \in Members : objects[n].member[m] \in Objects \cup {Null, Default}
    BY DEF HeapInv
  <2> QED  BY <2>2, <2>3, <2>4, <2>5 DEF ParserTypeOK
<1> QED  BY <1>1, <1>2, <1>3, PTL DEF Spec

-----------------------------------------------------------------------------
(* What Product's equation asks of a function, for n elements.             *)
Solves(f, n) ==
  f = [S \in SUBSET (1 .. n) |->
         IF S = {} THEN <<>> ELSE <<LastOf(S)>> \o f[S \ {LastOf(S)}]]

(* The last element of a set is the one that is as large as all.           *)
LEMMA LastIs ==
  ASSUME NEW S, S \subseteq Nat, NEW e \in S, \A m \in S : m <= e
  PROVE  LastOf(S) = e
<1>1. LastOf(S) \in S /\ \A m \in S : m <= LastOf(S)
  BY DEF LastOf
<1>2. LastOf(S) <= e /\ e <= LastOf(S) /\ e \in Nat /\ LastOf(S) \in Nat
  BY <1>1
<1>3. \A a, b \in Nat : a <= b /\ b <= a => a = b
  OBVIOUS
<1> QED  BY <1>2, <1>3

(* One element more is put before what the function gives for the others.  *)
LEMMA SolvesMore ==
  ASSUME NEW n \in Nat, NEW f, Solves(f, n)
  PROVE  \E g : Solves(g, n + 1)
<1> DEFINE g == [S \in SUBSET (1 .. n + 1) |->
                   IF n + 1 \in S THEN <<n + 1>> \o f[S \ {n + 1}] ELSE f[S]]
<1>1. \A S \in SUBSET (1 .. n) :
        f[S] = IF S = {} THEN <<>> ELSE <<LastOf(S)>> \o f[S \ {LastOf(S)}]
  BY DEF Solves
<1>2. \A S \in SUBSET (1 .. n + 1) :
        /\ S \ {n + 1} \in SUBSET (1 .. n) /\ S \ {n + 1} \in SUBSET (1 .. n + 1)
        /\ n + 1 \notin S => S \in SUBSET (1 .. n)
  OBVIOUS
<1>3. \A S \in SUBSET (1 .. n) : S \in SUBSET (1 .. n + 1) /\ n + 1 \notin S
  OBVIOUS
<1>4. \A S \in SUBSET (1 .. n) : g[S] = f[S]
  BY <1>3
<1>5. ASSUME NEW S \in SUBSET (1 .. n + 1)
      PROVE  g[S] = IF S = {} THEN <<>> ELSE <<LastOf(S)>> \o g[S \ {LastOf(S)}]
  <2>1. CASE S = {}
    <3>1. S \in SUBSET (1 .. n)
      BY <2>1
    <3> HIDE DEF g
    <3> QED  BY <1>1, <1>4, <2>1, <3>1
  <2>2. CASE n + 1 \in S
    <3>1. LastOf(S) = n + 1
      <4>1. S \subseteq Nat /\ \A m \in S : m <= n + 1
        OBVIOUS
      <4> QED  BY <2>2, <4>1, LastIs
    <3>2. g[S] = <<n + 1>> \o f[S \ {n + 1}]
      BY <2>2
    <3>3. f[S \ {n + 1}] = g[S \ {n + 1}]
      <4> HIDE DEF g
      <4> QED  BY <1>2, <1>4
    <3>4. S # {}
      BY <2>2
    <3> HIDE DEF g
    <3> QED  BY <3>1, <3>2, <3>3, <3>4
  <2>3. CASE S # {} /\ n + 1 \notin S
    <3>1. S \in SUBSET (1 .. n) /\ S \ {LastOf(S)} \in SUBSET (1 .. n)
      BY <1>2, <2>3
    <3> HIDE DEF g
    <3>2. g[S] = f[S] /\ g[S \ {LastOf(S)}] = f[S \ {LastOf(S)}]
      BY <1>4, <3>1
    <3> QED  BY <1>1, <2>3, <3>1, <3>2
  <2> QED  BY <2>1, <2>2, <2>3
<1>6. g = [S \in SUBSET (1 .. n + 1) |-> g[S]]
  OBVIOUS
<1> HIDE DEF g
<1>7. g = [S \in SUBSET (1 .. n + 1) |->
             IF S = {} THEN <<>> ELSE <<LastOf(S)>> \o g[S \ {LastOf(S)}]]
  BY <1>5, <1>6
<1> QED  BY <1>7 DEF Solves

(* There is such a function for any number of elements.                    *)
LEMMA SolvesExists ==
  ASSUME NEW n \in Nat
  PROVE  \E f : Solves(f, n)
<1> DEFINE Bad == {k \in 1 .. n + 1 : ~ \E f : Solves(f, k - 1)}
<1>1. \E f : Solves(f, 0)
  <2> DEFINE f == [S \in SUBSET (1 .. 0) |-> <<>>]
  <2>1. \A S \in SUBSET (1 .. 0) : S = {}
    OBVIOUS
  <2>2. f = [S \in SUBSET (1 .. 0) |->
               IF S = {} THEN <<>> ELSE <<LastOf(S)>> \o f[S \ {LastOf(S)}]]
    BY <2>1
  <2> HIDE DEF f
  <2>3. Solves(f, 0)
    BY <2>2 DEF Solves
  <2> QED  BY <2>3
<1>2. ASSUME Bad # {}  PROVE FALSE
  <2> DEFINE b == First(Bad)
  <2>1. b \in Bad /\ \A m \in Bad : b <= m
    <3>1. Bad \in SUBSET (1 .. n + 1) /\ n + 1 \in Nat
      OBVIOUS
    <3> HIDE DEF Bad
    <3> QED  BY <1>2, <3>1, FirstExists
  <2> HIDE DEF b
  <2>2. b \in 1 .. n + 1 /\ ~ \E f : Solves(f, b - 1)
    BY <2>1
  <2>3. b # 1
    BY <1>1, <2>2
  <2>4. b - 1 \in 1 .. n + 1 /\ ~(b <= b - 1) /\ b - 2 \in Nat /\ (b - 1) - 1 = b - 2 /\ (b - 2) + 1 = b - 1
    BY <2>2, <2>3
  <2>5. b - 1 \notin Bad
    <3> HIDE DEF Bad
    <3> QED  BY <2>1, <2>4
  <2>6. PICK f : Solves(f, b - 2)
    <3>1. \E f : Solves(f, (b - 1) - 1)
      BY <2>4, <2>5
    <3> QED  BY <2>4, <3>1
  <2>7. \E g : Solves(g, (b - 2) + 1)
    BY <2>4, <2>6, SolvesMore
  <2> QED  BY <2>2, <2>4, <2>7
<1>3. n + 1 \notin Bad
  <2> HIDE DEF Bad
  <2> QED  BY <1>2
<1>4. (n + 1) - 1 = n /\ n + 1 \in 1 .. n + 1
  OBVIOUS
<1>5. \E f : Solves(f, (n + 1) - 1)
  BY <1>3, <1>4
<1> QED  BY <1>4, <1>5

(* The equation of Product.                                                *)
LEMMA ProductUnfolds ==
  ASSUME doc \in Files
  PROVE  /\ Product[{}] = <<>>
         /\ \A S \in SUBSET Nodes : \A m \in Nodes :
              (\A l \in S : l < m) => Product[S \cup {m}] = <<m>> \o Product[S]
<1>1. Len(doc) \in Nat /\ Nodes = 1 .. Len(doc)
  BY Document
<1>2. \E f : Solves(f, Len(doc))
  BY <1>1, SolvesExists
<1>3. \E f : f = [S \in SUBSET Nodes |->
                    IF S = {} THEN <<>> ELSE <<LastOf(S)>> \o f[S \ {LastOf(S)}]]
  BY <1>1, <1>2 DEF Solves
<1>4. Product = [S \in SUBSET Nodes |->
                   IF S = {} THEN <<>> ELSE <<LastOf(S)>> \o Product[S \ {LastOf(S)}]]
  BY <1>3, Zenon DEF Product
<1>5. \A S \in SUBSET Nodes :
        Product[S] = IF S = {} THEN <<>> ELSE <<LastOf(S)>> \o Product[S \ {LastOf(S)}]
  BY <1>4
<1>6. ASSUME NEW S \in SUBSET Nodes, NEW m \in Nodes, \A l \in S : l < m
      PROVE  Product[S \cup {m}] = <<m>> \o Product[S]
  <2> DEFINE T == S \cup {m}
  <2>1. T \in SUBSET Nodes /\ T # {}
    OBVIOUS
  <2>2. LastOf(T) = m
    <3>1. T \subseteq Nat /\ m \in T /\ \A l \in T : l <= m
      BY <1>1, <1>6
    <3> QED  BY <3>1, LastIs
  <2>3. T \ {m} = S
    <3>1. m \notin S
      BY <1>1, <1>6
    <3> QED  BY <3>1
  <2> HIDE DEF T
  <2>4. Product[T] = <<m>> \o Product[S]
    BY <1>5, <2>1, <2>2, <2>3
  <2> QED  BY <2>4 DEF T
<1>7. Product[{}] = <<>>
  <2>1. {} \in SUBSET Nodes
    OBVIOUS
  <2> QED  BY <1>5, <2>1
<1> QED  BY <1>6, <1>7

(* It is the same function as long as the document is the same.            *)
LEMMA ProductKept ==
  ASSUME doc' = doc
  PROVE  Product' = Product
<1>1. Nodes' = Nodes
  BY DocumentKept
<1> QED  BY <1>1, Zenon DEF Product

-----------------------------------------------------------------------------
(* The children of a call that are parsed, but for the one being parsed.   *)
Parsed(k) ==
  ChildrenOf(stack[k].node) \ (stack[k].left \cup (IF k = 1 THEN {} ELSE {stack[k - 1].node}))

(* A new call has parsed no child yet, its caller the same as before.      *)
LEMMA ParsedOpen ==
  ASSUME StackInv, Open
  PROVE  Parsed(1)' = {} /\ \A k \in 2 .. Depth + 1 : Parsed(k)' = Parsed(k - 1)
<1> DEFINE m == Upcoming
<1>1. /\ doc' = doc
      /\ m \in stack[1].left /\ m \in Nodes /\ doc[m].parent = stack[1].node
      /\ stack'[1].node = m /\ stack'[1].left = ChildrenOf(m)
      /\ stack'[2].node = stack[1].node /\ stack'[2].left = stack[1].left \ {m}
      /\ \A k \in 3 .. Depth + 1 : stack'[k] = stack[k - 1]
  BY OpenStack
<1> HIDE DEF m
<1>2. Depth \in Nat \ {0} /\ \A p : ChildrenOf(p)' = ChildrenOf(p)
  BY <1>1, DocumentKept DEF StackInv
<1>3. \A k : Parsed(k)' = ChildrenOf(stack'[k].node)
                          \ (stack'[k].left \cup (IF k = 1 THEN {} ELSE {stack'[k - 1].node}))
  BY <1>1 DEF Parsed, ChildrenOf, Nodes
<1>4. Parsed(1)' = {}
  BY <1>1, <1>3
<1>5. Parsed(2)' = Parsed(1)
  <2>1. Parsed(1) = ChildrenOf(stack[1].node) \ stack[1].left
    BY DEF Parsed
  <2>2. Parsed(2)' = ChildrenOf(stack[1].node) \ ((stack[1].left \ {m}) \cup {m})
    BY <1>1, <1>3
  <2> QED  BY <1>1, <2>1, <2>2
<1>6. ASSUME NEW k \in 3 .. Depth + 1  PROVE Parsed(k)' = Parsed(k - 1)
  <2>1. k # 1 /\ k - 1 # 1 /\ k - 1 \in 2 .. Depth /\ (k - 1 = 2 \/ k - 1 \in 3 .. Depth + 1)
    BY <1>2
  <2>2. stack'[k - 1].node = stack[(k - 1) - 1].node
    BY <1>1, <2>1
  <2>3. stack'[k] = stack[k - 1]
    BY <1>1
  <2>4. Parsed(k - 1) = ChildrenOf(stack[k - 1].node) \ (stack[k - 1].left \cup {stack[(k - 1) - 1].node})
    BY <2>1 DEF Parsed
  <2> QED  BY <1>3, <2>1, <2>2, <2>3, <2>4
<1>7. \A k \in 2 .. Depth + 1 : k = 2 \/ k \in 3 .. Depth + 1
  BY <1>2
<1> QED  BY <1>4, <1>5, <1>6, <1>7

(* The caller of a call that ends has parsed one child more.               *)
LEMMA ParsedCloses ==
  ASSUME StackInv, Closes
  PROVE  /\ stack[1].node \in Nodes /\ doc[stack[1].node].parent = stack[2].node
         /\ Parsed(1)' = Parsed(2) \cup {stack[1].node}
         /\ Parsed(1) = ChildrenOf(stack[1].node)
         /\ \A k \in 2 .. Depth - 1 : Parsed(k)' = Parsed(k + 1)
<1> DEFINE t == stack[1].node
<1>1. /\ doc' = doc /\ Depth > 1 /\ Depth' = Depth - 1 /\ stack[1].left = {}
      /\ \A k \in 1 .. Depth - 1 :
           stack'[k].node = stack[k + 1].node /\ stack'[k].left = stack[k + 1].left
  BY ClosesReturn
<1>2. Depth \in Nat \ {0} /\ doc \in Files /\ \A p : ChildrenOf(p)' = ChildrenOf(p)
  BY <1>1, DocumentKept DEF StackInv
<1>3. \A k : Parsed(k)' = ChildrenOf(stack'[k].node)
                          \ (stack'[k].left \cup (IF k = 1 THEN {} ELSE {stack'[k - 1].node}))
  BY <1>1 DEF Parsed, ChildrenOf, Nodes
<1>4. 1 \in 1 .. Depth - 1 /\ 1 + 1 = 2
  BY <1>1, <1>2
<1>5. t \in Nodes /\ doc[t].parent = stack[2].node /\ t \notin stack[2].left
  <2>1. stack[1].node \in Nodes /\ doc[stack[1].node].parent = stack[1 + 1].node
        /\ stack[1].node \notin stack[1 + 1].left
    BY <1>4 DEF StackInv
  <2> QED  BY <2>1
<1>6. t \in ChildrenOf(stack[2].node)
  BY <1>2, <1>5, Document
<1>7. Parsed(1)' = Parsed(2) \cup {t}
  <2>1. Parsed(1)' = ChildrenOf(stack[2].node) \ stack[2].left
    BY <1>1, <1>3, <1>4
  <2>2. Parsed(2) = ChildrenOf(stack[2].node) \ (stack[2].left \cup {t})
    BY DEF Parsed
  <2> QED  BY <1>5, <1>6, <2>1, <2>2
<1>8. Parsed(1) = ChildrenOf(t)
  BY <1>1 DEF Parsed
<1>9. ASSUME NEW k \in 2 .. Depth - 1  PROVE Parsed(k)' = Parsed(k + 1)
  <2>1. k # 1 /\ k + 1 # 1 /\ k \in 1 .. Depth - 1 /\ k - 1 \in 1 .. Depth - 1
        /\ (k - 1) + 1 = k /\ (k + 1) - 1 = k
    BY <1>2
  <2>2. stack'[k - 1].node = stack[k].node
    BY <1>1, <2>1
  <2>3. stack'[k].node = stack[k + 1].node /\ stack'[k].left = stack[k + 1].left
    BY <1>1, <2>1
  <2>4. Parsed(k + 1) = ChildrenOf(stack[k + 1].node) \ (stack[k + 1].left \cup {stack[k].node})
    BY <2>1 DEF Parsed
  <2> QED  BY <1>3, <2>1, <2>2, <2>3, <2>4
<1> QED  BY <1>5, <1>7, <1>8, <1>9

(* While an object is completed nothing is parsed.                         *)
LEMMA ParsedFills ==
  ASSUME StackInv, Create \/ GiveChild
  PROVE  /\ Parsed(1) = ChildrenOf(stack[1].node)
         /\ \A k \in 1 .. Depth : Parsed(k)' = Parsed(k)
<1>1. /\ doc' = doc /\ stack[1].left = {}
      /\ \A k \in 1 .. Depth :
           stack'[k].node = stack[k].node /\ stack'[k].left = stack[k].left
  BY FillsKeeps
<1>2. Depth \in Nat \ {0}
  BY DEF StackInv
<1>3. ASSUME NEW k \in 1 .. Depth  PROVE Parsed(k)' = Parsed(k)
  <2>1. k = 1 \/ k - 1 \in 1 .. Depth
    BY <1>2
  <2> QED  BY <1>1, <2>1 DEF Parsed, ChildrenOf, Nodes
<1> QED  BY <1>1, <1>3 DEF Parsed

-----------------------------------------------------------------------------
(* The last transform among some elements.                                 *)
LastTransform(S) ==
  LET T == {m \in S : doc[m].tag = "transform"}
  IN  IF T = {} THEN <<>> ELSE Product[ChildrenOf(LastOf(T))]

(* The elements are parsed in their order.                                 *)
OrderInv ==
  /\ \A k \in 1 .. Depth - 1 : \A m \in Parsed(k), l \in stack[k].left : m < l
  /\ \A k \in 2 .. Depth - 1 : \A m \in Parsed(k) : m < stack[k - 1].node
  /\ \A k \in 2 .. Depth - 1 : \A l \in stack[k].left : stack[k - 1].node < l

(* A call knows the last transform it has parsed, and the variable shared  *)
(* by the calls is that of the transform being parsed: only an operation   *)
(* can be parsed inside of one, and nothing inside of an operation.        *)
TransformInv ==
  /\ \A k \in 1 .. Depth - 1 : \A S \in SUBSET Nodes :
       S = Parsed(k) => stack[k].toWorld = LastTransform(S)
  /\ phase = "content" =>
       \A k \in 1 .. Depth - 1 : \A S \in SUBSET Nodes :
         k <= 2 /\ doc[stack[k].node].tag = "transform" /\ S = Parsed(k) =>
           transform = Product[S]
  /\ \A n \in Objects : \A S \in SUBSET Nodes :
       S = ChildrenOf(n) => objects[n].toWorld = LastTransform(S)

(* The last transform depends on the document only.                        *)
LEMMA LastTransformKept ==
  ASSUME doc' = doc
  PROVE  \A S : LastTransform(S)' = LastTransform(S)
<1>1. Product' = Product /\ Nodes' = Nodes
  BY ProductKept, DocumentKept
<1> QED  BY <1>1 DEF LastTransform, ChildrenOf

(* One element more, after the others, is the last if it is a transform.   *)
LEMMA LastTransformMore ==
  ASSUME doc \in Files, NEW S \in SUBSET Nodes, NEW t \in Nodes, \A l \in S : l < t
  PROVE  /\ doc[t].tag = "transform" => LastTransform(S \cup {t}) = Product[ChildrenOf(t)]
         /\ doc[t].tag # "transform" => LastTransform(S \cup {t}) = LastTransform(S)
<1> DEFINE T == {m \in S : doc[m].tag = "transform"}
           U == {m \in S \cup {t} : doc[m].tag = "transform"}
<1>1. LastTransform(S) = IF T = {} THEN <<>> ELSE Product[ChildrenOf(LastOf(T))]
  BY DEF LastTransform
<1>2. LastTransform(S \cup {t}) = IF U = {} THEN <<>> ELSE Product[ChildrenOf(LastOf(U))]
  BY DEF LastTransform
<1>3. ASSUME doc[t].tag = "transform"  PROVE U # {} /\ LastOf(U) = t
  <2>1. t \in U /\ U \subseteq Nat /\ \A m \in U : m <= t
    <3>1. Nodes \subseteq Nat
      BY Document
    <3>2. \A m \in S \cup {t} : m \in Nat /\ m <= t
      BY <3>1
    <3>3. t \in U /\ \A m \in U : m \in S \cup {t}
      BY <1>3
    <3> HIDE DEF U
    <3> QED  BY <3>2, <3>3
  <2> HIDE DEF U
  <2>2. LastOf(U) = t
    BY <2>1, LastIs
  <2> QED  BY <2>1, <2>2
<1>4. ASSUME doc[t].tag # "transform"  PROVE U = T
  BY <1>4
<1> HIDE DEF T, U
<1>5. doc[t].tag = "transform" => LastTransform(S \cup {t}) = Product[ChildrenOf(t)]
  BY <1>2, <1>3
<1>6. doc[t].tag # "transform" => LastTransform(S \cup {t}) = LastTransform(S)
  BY <1>1, <1>2, <1>4
<1> QED  BY <1>5, <1>6

(* The elements are parsed in their order.                                 *)
LEMMA OrderOpen ==
  ASSUME StackInv, OrderInv, Open
  PROVE  OrderInv'
<1> DEFINE m == Upcoming
<1>1. /\ Depth' = Depth + 1 /\ m \in stack[1].left /\ m \in Nodes
      /\ \A l \in stack[1].left : m <= l
      /\ stack'[1].node = m /\ stack'[2].left = stack[1].left \ {m}
      /\ stack'[2].node = stack[1].node
      /\ \A k \in 3 .. Depth + 1 : stack'[k] = stack[k - 1]
  BY OpenStack
<1> HIDE DEF m
<1>2. Parsed(1)' = {} /\ \A k \in 2 .. Depth + 1 : Parsed(k)' = Parsed(k - 1)
  BY ParsedOpen
<1>3. Depth \in Nat \ {0} /\ \A n \in Nodes : n \in Nat
  BY Document DEF StackInv
<1>4. \A l \in stack[1].left : l \in Nodes
  BY <1>3 DEF StackInv
<1>5. ASSUME NEW k \in 2 .. Depth
      PROVE  /\ \A p \in Parsed(k - 1), l \in stack'[k].left : p < l
             /\ \A p \in Parsed(k - 1) : p < stack'[k - 1].node
             /\ \A l \in stack'[k].left : stack'[k - 1].node < l
  <2>1. k - 1 \in 1 .. Depth - 1 /\ k \in 2 .. Depth + 1
    BY <1>3
  <2>2. CASE k = 2
    <3>1. \A p \in Parsed(1), l \in stack[1].left : p < l
      BY <2>1, <2>2 DEF OrderInv
    <3>2. \A l \in stack'[2].left : l \in stack[1].left /\ m < l
      BY <1>1, <1>3, <1>4
    <3> QED  BY <1>1, <2>2, <3>1, <3>2
  <2>3. CASE k # 2
    <3>1. k - 1 \in 2 .. Depth - 1 /\ k \in 3 .. Depth + 1
      BY <1>3, <2>3
    <3>2. stack'[k] = stack[k - 1]
      BY <1>1, <3>1
    <3>3. stack'[k - 1].node = stack[(k - 1) - 1].node
      <4>1. k - 1 = 2 \/ k - 1 \in 3 .. Depth + 1
        BY <1>3, <3>1
      <4> QED  BY <1>1, <4>1
    <3>4. /\ \A p \in Parsed(k - 1), l \in stack[k - 1].left : p < l
          /\ \A p \in Parsed(k - 1) : p < stack[(k - 1) - 1].node
          /\ \A l \in stack[k - 1].left : stack[(k - 1) - 1].node < l
      BY <2>1, <3>1 DEF OrderInv
    <3> QED  BY <3>2, <3>3, <3>4
  <2> QED  BY <2>2, <2>3
<1>6. Depth' - 1 = Depth /\ \A k \in 1 .. Depth : k = 1 \/ k \in 2 .. Depth
  BY <1>1, <1>3
<1>7. \A k \in 2 .. Depth : k \in 2 .. Depth + 1
  BY <1>3
<1> QED  BY <1>2, <1>5, <1>6, <1>7 DEF OrderInv

(* See above.                                                              *)
LEMMA OrderCloses ==
  ASSUME StackInv, OrderInv, Closes
  PROVE  OrderInv'
<1> DEFINE t == stack[1].node
<1>1. /\ Depth' = Depth - 1 /\ Depth > 1
      /\ \A k \in 1 .. Depth - 1 :
           stack'[k].node = stack[k + 1].node /\ stack'[k].left = stack[k + 1].left
  BY ClosesReturn
<1>2. /\ Parsed(1)' = Parsed(2) \cup {t}
      /\ \A k \in 2 .. Depth - 1 : Parsed(k)' = Parsed(k + 1)
  BY ParsedCloses
<1>3. Depth \in Nat \ {0}
  BY DEF StackInv
<1>4. ASSUME 1 \in 1 .. (Depth - 1) - 1
      PROVE  \A m \in Parsed(1)', l \in stack'[1].left : m < l
  <2>1. 2 \in 1 .. Depth - 1 /\ 2 \in 2 .. Depth - 1 /\ 1 \in 1 .. Depth - 1 /\ 2 - 1 = 1
    BY <1>3, <1>4
  <2>2. /\ \A m \in Parsed(2), l \in stack[2].left : m < l
        /\ \A l \in stack[2].left : stack[2 - 1].node < l
    BY <2>1 DEF OrderInv
  <2>3. stack'[1].left = stack[1 + 1].left
    BY <1>1, <2>1
  <2> QED  BY <1>2, <2>2, <2>3
<1>5. ASSUME NEW k \in 2 .. (Depth - 1) - 1
      PROVE  /\ \A m \in Parsed(k)', l \in stack'[k].left : m < l
             /\ \A m \in Parsed(k)' : m < stack'[k - 1].node
             /\ \A l \in stack'[k].left : stack'[k - 1].node < l
  <2>1. k + 1 \in 2 .. Depth - 1 /\ k + 1 \in 1 .. Depth - 1 /\ k \in 1 .. Depth - 1 /\ k - 1 \in 1 .. Depth - 1
        /\ k \in 2 .. Depth - 1 /\ (k + 1) - 1 = k /\ (k - 1) + 1 = k
    BY <1>3
  <2>2. /\ stack'[k].left = stack[k + 1].left /\ stack'[k - 1].node = stack[k].node
        /\ Parsed(k)' = Parsed(k + 1)
    BY <1>1, <1>2, <2>1
  <2>3. /\ \A m \in Parsed(k + 1), l \in stack[k + 1].left : m < l
        /\ \A m \in Parsed(k + 1) : m < stack[k].node
        /\ \A l \in stack[k + 1].left : stack[k].node < l
    BY <2>1 DEF OrderInv
  <2> QED  BY <2>2, <2>3
<1>6. \A k \in 1 .. (Depth - 1) - 1 : (k = 1 /\ 1 \in 1 .. (Depth - 1) - 1) \/ k \in 2 .. (Depth - 1) - 1
  BY <1>3
<1> QED  BY <1>1, <1>4, <1>5, <1>6 DEF OrderInv

(* See above.                                                              *)
LEMMA OrderFills ==
  ASSUME StackInv, OrderInv, Create \/ GiveChild
  PROVE  OrderInv'
<1>1. /\ Depth' = Depth
      /\ \A k \in 1 .. Depth :
           stack'[k].node = stack[k].node /\ stack'[k].left = stack[k].left
  BY FillsKeeps
<1>2. \A k \in 1 .. Depth : Parsed(k)' = Parsed(k)
  BY ParsedFills
<1>3. Depth \in Nat \ {0}
  BY DEF StackInv
<1>4. \A k \in 1 .. Depth - 1 : k \in 1 .. Depth
  BY <1>3
<1>5. \A k \in 2 .. Depth - 1 : k \in 1 .. Depth /\ k - 1 \in 1 .. Depth
  BY <1>3
<1>6. \A k \in 1 .. Depth - 1 : \A m \in Parsed(k)', l \in stack'[k].left : m < l
  BY <1>1, <1>2, <1>4 DEF OrderInv
<1>7. /\ \A k \in 2 .. Depth - 1 : \A m \in Parsed(k)' : m < stack'[k - 1].node
      /\ \A k \in 2 .. Depth - 1 : \A l \in stack'[k].left : stack'[k - 1].node < l
  BY <1>1, <1>2, <1>5 DEF OrderInv
<1> QED  BY <1>1, <1>6, <1>7 DEF OrderInv

(* Nothing is in an operation, and nothing but operations in a transform.  *)
LEMMA Nesting ==
  ASSUME StackInv, NEW k \in 1 .. Depth - 1
  PROVE  /\ stack[k + 1].node # 0 => doc[stack[k + 1].node].tag # "op"
         /\ stack[k + 1].node # 0 =>
              (doc[stack[k + 1].node].tag = "transform" <=> doc[stack[k].node].tag = "op")
<1>1. stack[k].node \in Nodes /\ doc[stack[k].node].parent = stack[k + 1].node
  BY DEF StackInv
<1>2. Sensible(stack[k].node)
  <2>1. \A n \in Nodes : n = stack[k].node => Sensible(n)
    BY DEF StackInv
  <2> QED  BY <1>1, <2>1
<1> DEFINE t == stack[k].node  p == stack[k + 1].node
<1> HIDE DEF t, p
<1>3. doc[t].parent = p /\ Sensible(t)
  BY <1>1, <1>2 DEF t, p
<1>4. p # 0 => /\ doc[p].tag \in Classes \cup {"invalid", "transform"}
               /\ doc[p].tag = "transform" <=> doc[t].tag = "op"
  BY <1>3 DEF Sensible
<1> QED  BY <1>4, TagsOfObjects DEF t, p

(* A new call: a transform begins with the identity, an operation goes on  *)
(* with the transform it is in (parser.cpp:171).                           *)
LEMMA TransformOpen ==
  ASSUME StackInv, TransformInv, Open
  PROVE  TransformInv'
<1> DEFINE m == Upcoming
<1>1. /\ doc' = doc /\ objects' = objects /\ phase = "content" /\ Depth' = Depth + 1
      /\ m \in stack[1].left /\ m \in Nodes /\ Sensible(m) /\ doc[m].parent = stack[1].node
      /\ stack'[1].node = m /\ stack'[1].toWorld = <<>>
      /\ stack'[2].node = stack[1].node /\ stack'[2].toWorld = stack[1].toWorld
      /\ \A k \in 3 .. Depth + 1 : stack'[k] = stack[k - 1]
      /\ transform' = (IF doc[m].tag = "transform" THEN <<>> ELSE transform)
  BY OpenStack DEF Open, Entered
<1> HIDE DEF m
<1>2. /\ Parsed(1)' = {} /\ \A k \in 2 .. Depth + 1 : Parsed(k)' = Parsed(k - 1)
      /\ \A S : LastTransform(S)' = LastTransform(S)
      /\ Product' = Product /\ Nodes' = Nodes /\ \A p : ChildrenOf(p)' = ChildrenOf(p)
  BY <1>1, ParsedOpen, LastTransformKept, ProductKept, DocumentKept
<1>3. Depth \in Nat \ {0} /\ Product[{}] = <<>> /\ 0 \notin Nodes
  BY ProductUnfolds, Document DEF StackInv
<1>4. \A k \in 1 .. Depth : k = 1 \/ (k \in 2 .. Depth + 1 /\ k - 1 \in 1 .. Depth - 1)
  BY <1>3
<1>5. \A k \in 2 .. Depth + 1 : stack'[k].toWorld = stack[k - 1].toWorld /\ stack'[k].node = stack[k - 1].node
  <2> SUFFICES ASSUME NEW k \in 2 .. Depth + 1
               PROVE  stack'[k].toWorld = stack[k - 1].toWorld /\ stack'[k].node = stack[k - 1].node
    OBVIOUS
  <2>1. CASE k = 2
    BY <1>1, <2>1
  <2>2. CASE k # 2
    <3>1. k \in 3 .. Depth + 1
      BY <1>3, <2>2
    <3> QED  BY <1>1, <3>1
  <2> QED  BY <2>1, <2>2
<1>6. ASSUME NEW k \in 1 .. Depth, NEW S \in SUBSET Nodes, S = Parsed(k)'
      PROVE  stack'[k].toWorld = LastTransform(S)
  <2>1. CASE k = 1
    <3>1. S = {}
      BY <1>2, <1>6, <2>1
    <3>2. LastTransform({}) = <<>>
      BY DEF LastTransform
    <3> QED  BY <1>1, <2>1, <3>1, <3>2
  <2>2. CASE k \in 2 .. Depth + 1 /\ k - 1 \in 1 .. Depth - 1
    <3>1. S = Parsed(k - 1) /\ stack'[k].toWorld = stack[k - 1].toWorld
      BY <1>2, <1>5, <1>6, <2>2
    <3> QED  BY <2>2, <3>1 DEF TransformInv
  <2> QED  BY <1>4, <2>1, <2>2
<1>7. ASSUME NEW k \in 1 .. Depth, NEW S \in SUBSET Nodes,
             k <= 2, doc[stack'[k].node].tag = "transform", S = Parsed(k)'
      PROVE  transform' = Product[S]
  <2>1. CASE k = 1
    <3>1. S = {} /\ transform' = <<>>
      BY <1>1, <1>2, <1>7, <2>1
    <3> QED  BY <1>3, <3>1
  <2>2. CASE k # 1
    <3>1. k = 2 /\ 2 \in 2 .. Depth + 1 /\ 1 \in 1 .. Depth - 1 /\ 2 - 1 = 1 /\ 1 \in 1 .. Depth /\ 1 # Depth
      BY <1>3, <1>7, <2>2
    <3>2. S = Parsed(1) /\ doc[stack[1].node].tag = "transform"
      BY <1>1, <1>2, <1>7, <3>1
    <3>3. transform = Product[S]
      BY <1>1, <1>7, <3>1, <3>2 DEF TransformInv
    <3>4. stack[1].node # 0
      BY <3>1 DEF StackInv
    <3>5. doc[m].tag = "op"
      BY <1>1, <3>2, <3>4 DEF Sensible
    <3> QED  BY <1>1, <3>3, <3>5
  <2> QED  BY <2>1, <2>2
<1>8. \A n \in Objects : \A S \in SUBSET Nodes : S = ChildrenOf(n) => objects[n].toWorld = LastTransform(S)
  BY DEF TransformInv
<1>9. Objects' = Objects /\ Depth' - 1 = Depth
  BY <1>1, <1>3 DEF Objects
<1> QED  BY <1>1, <1>2, <1>6, <1>7, <1>8, <1>9 DEF TransformInv

(* A call ends: an operation is put before those of its transform, and a   *)
(* transform is the last its object has (parser.cpp:247-307).              *)
LEMMA TransformCloses ==
  ASSUME StackInv, HeapInv, OrderInv, TransformInv, Closes
  PROVE  TransformInv'
<1> DEFINE t == stack[1].node
<1>1. /\ doc' = doc /\ t # 0 /\ Depth' = Depth - 1 /\ Depth > 1
      /\ \A k \in 2 .. Depth - 1 : stack'[k] = stack[k + 1]
      /\ \A k \in 1 .. Depth - 1 :
           stack'[k].node = stack[k + 1].node /\ stack'[k].left = stack[k + 1].left
  BY ClosesReturn
<1>2. /\ Parsed(1)' = Parsed(2) \cup {t} /\ Parsed(1) = ChildrenOf(t)
      /\ \A k \in 2 .. Depth - 1 : Parsed(k)' = Parsed(k + 1)
      /\ t \in Nodes /\ doc[t].parent = stack[2].node
  BY ParsedCloses
<1>3. /\ \A S : LastTransform(S)' = LastTransform(S)
      /\ Product' = Product /\ Nodes' = Nodes /\ \A p : ChildrenOf(p)' = ChildrenOf(p)
  BY <1>1, LastTransformKept, ProductKept, DocumentKept
<1>4. Depth \in Nat \ {0} /\ doc \in Files /\ \A p : ChildrenOf(p) \subseteq Nodes
  BY Document DEF StackInv
<1>5. Top = stack[1] /\ stack \in Seq(Calls) /\ Depth = Len(stack)
  BY DEF StackInv, Depth, Top
<1>6. /\ 1 \in 1 .. Depth - 1
      /\ doc[t].tag = "transform" => phase = "content"
      /\ \/ doc[t].tag # "transform" /\ stack'[1].toWorld = stack[2].toWorld
         \/ doc[t].tag = "transform" /\ stack'[1].toWorld = transform
      /\ doc[t].tag = "op" => phase = "content" /\ transform' = <<t>> \o transform
  <2>1. \A w \in Seq(Nat) : Return(w) => stack'[1].toWorld = w
    BY <1>1, <1>5, ReturnStack
  <2>2. stack[2].toWorld \in Seq(Nat) /\ transform \in Seq(Nat)
    <3>1. stack[2] \in Calls
      BY <1>1, <1>4, <1>5
    <3> QED  BY <3>1 DEF Calls, StackInv
  <2>3. CASE CloseProperty
    BY <1>1, <1>4, <1>5, <2>1, <2>2, <2>3 DEF CloseProperty, Ready, This
  <2>4. CASE CloseTransform
    BY <1>1, <1>4, <1>5, <2>1, <2>2, <2>4 DEF CloseTransform, Ready, This
  <2>5. CASE CloseOp
    BY <1>1, <1>4, <1>5, <2>1, <2>2, <2>5 DEF CloseOp, Ready, This
  <2>6. CASE Activate
    <3>1. doc[t].tag \in Classes
      BY <2>6, ActivateHeap
    <3>2. Return(stack[2].toWorld)
      BY <2>6 DEF Activate
    <3>3. stack'[1].toWorld = stack[2].toWorld
      BY <2>1, <2>2, <3>2
    <3>4. doc[t].tag # "transform" /\ doc[t].tag # "op"
      BY <3>1, TagsOfObjects
    <3>5. 1 \in 1 .. Depth - 1
      BY <1>1, <1>4
    <3> QED  BY <3>3, <3>4, <3>5
  <2> QED  BY <2>3, <2>4, <2>5, <2>6 DEF Closes
<1>7. \A m \in Parsed(2) : 1 \in 1 .. (Depth - 1) - 1 => m < t
  <2>1. 1 \in 1 .. (Depth - 1) - 1 => 2 \in 2 .. Depth - 1 /\ 2 - 1 = 1
    BY <1>4
  <2>2. 2 \in 2 .. Depth - 1 => \A m \in Parsed(2) : m < stack[2 - 1].node
    BY DEF OrderInv
  <2> QED  BY <2>1, <2>2
<1>8. Parsed(2) \in SUBSET Nodes
  BY <1>4 DEF Parsed
<1>9. ASSUME NEW k \in 1 .. (Depth - 1) - 1, NEW S \in SUBSET Nodes, S = Parsed(k)'
      PROVE  stack'[k].toWorld = LastTransform(S)
  <2>1. CASE k = 1
    <3> DEFINE P == Parsed(2)
    <3>1. S = P \cup {t} /\ P \in SUBSET Nodes /\ \A l \in P : l < t
      BY <1>2, <1>7, <1>8, <1>9, <2>1
    <3> HIDE DEF P
    <3>2. CASE doc[t].tag = "transform"
      <4>1. LastTransform(S) = Product[ChildrenOf(t)]
        BY <1>2, <1>4, <3>1, <3>2, LastTransformMore
      <4>2. transform = Product[ChildrenOf(t)]
        <5>1. 1 <= 2 /\ ChildrenOf(t) \in SUBSET Nodes
          BY <1>4
        <5> QED  BY <1>2, <1>6, <3>2, <5>1 DEF TransformInv
      <4> QED  BY <1>6, <2>1, <3>2, <4>1, <4>2
    <3>3. CASE doc[t].tag # "transform"
      <4>1. LastTransform(S) = LastTransform(P)
        BY <1>2, <1>4, <3>1, <3>3, LastTransformMore
      <4>2. stack[2].toWorld = LastTransform(P)
        <5>1. 2 \in 1 .. Depth - 1
          BY <1>4, <2>1
        <5> QED  BY <1>8, <5>1 DEF TransformInv, P
      <4> QED  BY <1>6, <2>1, <3>3, <4>1, <4>2
    <3> QED  BY <3>2, <3>3
  <2>2. CASE k # 1
    <3>1. k \in 2 .. Depth - 1 /\ k + 1 \in 1 .. Depth - 1
      BY <1>4, <2>2
    <3>2. stack'[k].toWorld = stack[k + 1].toWorld /\ S = Parsed(k + 1)
      BY <1>1, <1>2, <1>9, <3>1
    <3> QED  BY <3>1, <3>2 DEF TransformInv
  <2> QED  BY <2>1, <2>2
<1>10. ASSUME NEW k \in 1 .. (Depth - 1) - 1, NEW S \in SUBSET Nodes,
              k <= 2, doc[stack'[k].node].tag = "transform", S = Parsed(k)'
       PROVE  transform' = Product[S]
  <2>1. k + 1 \in 1 .. Depth - 1 /\ k \in 1 .. Depth - 1 /\ stack'[k].node = stack[k + 1].node
    BY <1>1, <1>4
  <2>2. stack[k + 1].node # 0
    <3>1. k + 1 \in 1 .. Depth /\ k + 1 # Depth
      BY <1>4
    <3> QED  BY <3>1 DEF StackInv
  <2>3. doc[stack[k].node].tag = "op"
    BY <1>10, <2>1, <2>2, Nesting
  <2>4. CASE k = 1
    <3> DEFINE P == Parsed(2)
    <3>1. S = P \cup {t} /\ P \in SUBSET Nodes /\ \A l \in P : l < t
      BY <1>2, <1>7, <1>8, <1>10, <2>4
    <3>2. transform' = <<t>> \o transform /\ phase = "content"
      BY <1>6, <2>3, <2>4
    <3>3. transform = Product[P]
      <4>1. 2 \in 1 .. Depth - 1 /\ 2 <= 2 /\ doc[stack[2].node].tag = "transform"
        BY <1>10, <2>1, <2>4
      <4> QED  BY <1>8, <3>2, <4>1 DEF TransformInv
    <3> HIDE DEF P
    <3>4. Product[P \cup {t}] = <<t>> \o Product[P]
      BY <1>2, <1>4, <3>1, ProductUnfolds
    <3> QED  BY <3>1, <3>2, <3>3, <3>4
  <2>5. CASE k # 1
    <3>1. k - 1 \in 1 .. Depth - 1 /\ (k - 1) + 1 = k
      BY <1>4, <2>5
    <3>2. stack[k].node # 0
      <4>1. k \in 1 .. Depth /\ k # Depth
        BY <1>4
      <4> QED  BY <4>1 DEF StackInv
    <3> QED  BY <2>3, <3>1, <3>2, Nesting
  <2> QED  BY <2>4, <2>5
<1>11. ASSUME NEW n \in Objects', NEW S \in SUBSET Nodes, S = ChildrenOf(n)
       PROVE  objects'[n].toWorld = LastTransform(S)
  <2>1. n \in Objects /\ objects'[n].toWorld = objects[n].toWorld
    <3>1. CASE Activate
      BY <3>1, ActivateHeap
    <3>2. CASE CloseProperty \/ CloseTransform \/ CloseOp
      BY <3>2 DEF CloseProperty, CloseTransform, CloseOp, Objects
    <3> QED  BY <3>1, <3>2 DEF Closes
  <2> QED  BY <1>11, <2>1 DEF TransformInv
<1> QED  BY <1>1, <1>3, <1>9, <1>10, <1>11 DEF TransformInv

(* The object that is made gets the last transform of its element          *)
(* (parser.cpp:183-205).                                                   *)
LEMMA TransformFills ==
  ASSUME StackInv, HeapInv, ListInv, TransformInv, Create \/ GiveChild
  PROVE  TransformInv'
<1> DEFINE t == stack[1].node
<1>1. /\ doc' = doc /\ phase' = "children" /\ Depth' = Depth /\ Depth > 1
      /\ \A k \in 2 .. Depth : stack'[k] = stack[k]
  BY FillsKeeps
<1>2. /\ Parsed(1) = ChildrenOf(t)
      /\ \A k \in 1 .. Depth : Parsed(k)' = Parsed(k)
  BY ParsedFills
<1>3. /\ \A S : LastTransform(S)' = LastTransform(S)
      /\ Nodes' = Nodes /\ \A p : ChildrenOf(p)' = ChildrenOf(p)
  BY <1>1, LastTransformKept, DocumentKept
<1>4. Depth \in Nat \ {0}
  BY DEF StackInv
<1>5. stack'[1].toWorld = stack[1].toWorld
  <2>1. CASE Create
    BY <2>1 DEF Create
  <2>2. CASE GiveChild
    BY <2>2, GiveStack
  <2> QED  BY <2>1, <2>2
<1>6. ASSUME NEW k \in 1 .. Depth - 1, NEW S \in SUBSET Nodes, S = Parsed(k)'
      PROVE  stack'[k].toWorld = LastTransform(S)
  <2>1. k \in 1 .. Depth /\ (k = 1 \/ k \in 2 .. Depth)
    BY <1>4
  <2>2. stack'[k].toWorld = stack[k].toWorld /\ S = Parsed(k)
    BY <1>1, <1>2, <1>5, <1>6, <2>1
  <2> QED  BY <2>2 DEF TransformInv
<1>7. ASSUME NEW n \in Objects', NEW S \in SUBSET Nodes, S = ChildrenOf(n)
      PROVE  objects'[n].toWorld = LastTransform(S)
  <2>1. CASE Create
    <3>1. /\ Objects' = Objects \cup {t} /\ objects'[t].toWorld = stack[1].toWorld
          /\ \A l \in Objects : objects'[l] = objects[l]
      BY <2>1, CreateHeap
    <3>2. CASE n = t
      <4>1. 1 \in 1 .. Depth - 1 /\ S = Parsed(1)
        BY <1>1, <1>2, <1>4, <1>7, <3>2
      <4>2. stack[1].toWorld = LastTransform(S)
        BY <4>1 DEF TransformInv
      <4> QED  BY <3>1, <3>2, <4>2
    <3>3. CASE n \in Objects
      BY <1>7, <3>1, <3>3 DEF TransformInv
    <3> QED  BY <3>1, <3>2, <3>3
  <2>2. CASE GiveChild
    <3>1. n \in Objects /\ objects'[n].toWorld = objects[n].toWorld
      BY <2>2, GiveHeap
    <3> QED  BY <1>7, <3>1 DEF TransformInv
  <2> QED  BY <2>1, <2>2
<1> QED  BY <1>1, <1>3, <1>6, <1>7 DEF TransformInv

(* The transforms at the beginning.                                        *)
LEMMA TransformInit ==
  ASSUME Init
  PROVE  OrderInv /\ TransformInv
<1>1. Depth = 1 /\ objects = <<>>
  BY StackInit DEF Init
<1>2. Objects = {} /\ 1 .. Depth - 1 = {} /\ 2 .. Depth - 1 = {}
  BY <1>1 DEF Objects
<1> QED  BY <1>2 DEF OrderInv, TransformInv

(* Every step keeps them.                                                  *)
LEMMA TransformStep ==
  ASSUME StackInv, HeapInv, ListInv, OrderInv, TransformInv, [Next]_vars
  PROVE  OrderInv' /\ TransformInv'
<1>1. CASE Halts \/ UNCHANGED vars
  <2>1. /\ doc' = doc /\ stack' = stack /\ objects' = objects /\ transform' = transform
        /\ phase' = "content" => phase = "content"
    BY <1>1, HaltsKeeps DEF vars
  <2>2. /\ \A S : LastTransform(S)' = LastTransform(S)
        /\ Product' = Product /\ Nodes' = Nodes /\ \A p : ChildrenOf(p)' = ChildrenOf(p)
    BY <2>1, LastTransformKept, ProductKept, DocumentKept
  <2>3. \A k : Parsed(k)' = Parsed(k)
    BY <2>1 DEF Parsed, ChildrenOf, Nodes
  <2>4. Objects' = Objects /\ Depth' = Depth
    BY <2>1 DEF Objects, Depth
  <2>5. OrderInv'
    BY <2>1, <2>3, <2>4 DEF OrderInv
  <2>6. TransformInv'
    BY <2>1, <2>2, <2>3, <2>4 DEF TransformInv
  <2> QED  BY <2>5, <2>6
<1>2. Next => Open \/ Closes \/ Create \/ GiveChild \/ Halts
  BY DEF Next, Closes, Halts
<1>3. Next \/ UNCHANGED vars
  OBVIOUS
<1>4. CASE Open
  BY <1>4, OrderOpen, TransformOpen
<1>5. CASE Closes
  BY <1>5, OrderCloses, TransformCloses
<1>6. CASE Create \/ GiveChild
  BY <1>6, OrderFills, TransformFills
<1> QED  BY <1>1, <1>2, <1>3, <1>4, <1>5, <1>6

(* An object gets the operations of its own last transform element, all of *)
(* them and in their order, and no other, although the calls of the        *)
(* recursion share the variable they are multiplied into (parser.cpp:127,  *)
(* 171, 249).                                                              *)
THEOREM TransformsOwn == Spec => []TransformOwn
<1> DEFINE IInv == StackInv /\ HeapInv /\ ListInv /\ OrderInv /\ TransformInv
<1>1. Init => IInv
  BY StackInit, HeapInit, TransformInit
<1>2. IInv /\ [Next]_vars => IInv'
  BY StackStep, HeapStep, TransformStep
<1>3. IInv => TransformOwn
  <2> SUFFICES ASSUME IInv  PROVE TransformOwn
    OBVIOUS
  <2>1. \A n : ChildrenOf(n) \in SUBSET Nodes
    BY Document DEF StackInv
  <2>2. \A n \in Objects : objects[n].toWorld = LastTransform(ChildrenOf(n))
    BY <2>1 DEF TransformInv
  <2> QED  BY <2>2 DEF TransformOwn, LastTransform
<1> HIDE DEF IInv
<1> QED  BY <1>1, <1>2, <1>3, PTL DEF Spec

-----------------------------------------------------------------------------
(* A list that holds each element of a set once.                           *)
Distinct(q) == \A a, b \in DOMAIN q : q[a] = q[b] => a = b
Lists(q, S) == Values(q) = S /\ Distinct(q)

(* Building such lists.                                                    *)
LEMMA ListsEmpty == Lists(<<>>, {})
BY DEF Lists, Values, Distinct

(* See above.                                                              *)
LEMMA ListsAppend ==
  ASSUME NEW X, NEW q \in Seq(X), NEW S, Lists(q, S), NEW c \in X, c \notin S
  PROVE  Lists(Append(q, c), S \cup {c})
<1> DEFINE r == Append(q, c)  n == Len(q)
<1>1. /\ n \in Nat /\ DOMAIN q = 1 .. n /\ DOMAIN r = 1 .. n + 1
      /\ r[n + 1] = c /\ \A i \in 1 .. n : r[i] = q[i]
  OBVIOUS
<1>2. /\ \A i \in 1 .. n : q[i] \in S
      /\ \A v \in S : \E i \in 1 .. n : q[i] = v
      /\ \A a, b \in 1 .. n : q[a] = q[b] => a = b
  BY <1>1 DEF Lists, Values, Distinct
<1> HIDE DEF r, n
<1>3. \A i \in 1 .. n + 1 : i = n + 1 \/ i \in 1 .. n
  BY <1>1
<1>4. \A i \in 1 .. n : i \in 1 .. n + 1 /\ i # n + 1
  BY <1>1
<1>5. n + 1 \in 1 .. n + 1
  BY <1>1
<1>6. Values(r) = S \cup {c}
  <2>1. \A v \in Values(r) : v \in S \cup {c}
    BY <1>1, <1>2, <1>3 DEF Values
  <2>2. ASSUME NEW v \in S \cup {c}  PROVE \E i \in 1 .. n + 1 : r[i] = v
    <3>1. CASE v = c
      BY <1>1, <1>5, <3>1
    <3>2. CASE v \in S
      <4>1. PICK i \in 1 .. n : q[i] = v
        BY <1>2, <3>2
      <4>2. i \in 1 .. n + 1 /\ r[i] = v
        BY <1>1, <1>4, <4>1
      <4> QED  BY <4>2
    <3> QED  BY <3>1, <3>2
  <2>3. \A v \in S \cup {c} : v \in Values(r)
    BY <1>1, <2>2 DEF Values
  <2> QED  BY <2>1, <2>3
<1>7. Distinct(r)
  <2> SUFFICES ASSUME NEW a \in 1 .. n + 1, NEW b \in 1 .. n + 1, r[a] = r[b]  PROVE a = b
    BY <1>1 DEF Distinct
  <2>1. \A i \in 1 .. n : r[i] \in S /\ r[i] # c
    BY <1>1, <1>2
  <2> QED  BY <1>1, <1>2, <1>3, <2>1
<1> QED  BY <1>6, <1>7 DEF Lists, r

(* See above.                                                              *)
LEMMA ListsTail ==
  ASSUME NEW X, NEW q \in Seq(X), q # <<>>, NEW S, Lists(q, S)
  PROVE  q[1] \in S /\ Lists(Tail(q), S \ {q[1]})
<1> DEFINE r == Tail(q)  n == Len(q)
<1>1. /\ n \in Nat /\ n > 0 /\ DOMAIN q = 1 .. n /\ DOMAIN r = 1 .. n - 1
      /\ \A i \in 1 .. n - 1 : r[i] = q[i + 1]
  OBVIOUS
<1>2. /\ \A i \in 1 .. n : q[i] \in S
      /\ \A v \in S : \E i \in 1 .. n : q[i] = v
      /\ \A a, b \in 1 .. n : q[a] = q[b] => a = b
  BY <1>1 DEF Lists, Values, Distinct
<1> HIDE DEF r, n
<1>3. \A i \in 1 .. n - 1 : i + 1 \in 1 .. n /\ i + 1 # 1
  BY <1>1
<1>4. \A i \in 1 .. n : i = 1 \/ (i - 1 \in 1 .. n - 1 /\ (i - 1) + 1 = i)
  BY <1>1
<1>5. 1 \in 1 .. n
  BY <1>1
<1>6. Values(r) = S \ {q[1]}
  <2>1. \A i \in 1 .. n - 1 : r[i] \in S /\ r[i] # q[1]
    BY <1>1, <1>2, <1>3, <1>5
  <2>2. ASSUME NEW v \in S, v # q[1]  PROVE \E i \in 1 .. n - 1 : r[i] = v
    <3>1. PICK i \in 1 .. n : q[i] = v
      BY <1>2
    <3>2. i # 1
      BY <2>2, <3>1
    <3>3. i - 1 \in 1 .. n - 1 /\ (i - 1) + 1 = i
      BY <1>4, <3>2
    <3>4. r[i - 1] = v
      BY <1>1, <3>1, <3>3
    <3> QED  BY <3>3, <3>4
  <2>3. Values(r) = {r[i] : i \in 1 .. n - 1}
    BY <1>1 DEF Values
  <2>4. \A v \in Values(r) : v \in S \ {q[1]}
    BY <2>1, <2>3
  <2>5. \A v \in S \ {q[1]} : v \in Values(r)
    BY <2>2, <2>3
  <2> QED  BY <2>4, <2>5
<1>7. Distinct(r)
  <2> SUFFICES ASSUME NEW a \in 1 .. n - 1, NEW b \in 1 .. n - 1, r[a] = r[b]  PROVE a = b
    BY <1>1 DEF Distinct
  <2>1. a + 1 = b + 1
    BY <1>1, <1>2, <1>3
  <2> QED  BY <2>1
<1> QED  BY <1>2, <1>5, <1>6, <1>7 DEF Lists, r

(* See above.                                                              *)
LEMMA ListsConcat ==
  ASSUME NEW X, NEW q \in Seq(X), NEW r \in Seq(X), NEW S, NEW R, Lists(q, S), Lists(r, R),
         S \cap R = {}
  PROVE  Lists(q \o r, S \cup R)
<1> DEFINE s == q \o r  n == Len(q)  m == Len(r)
<1>1. /\ n \in Nat /\ m \in Nat /\ DOMAIN q = 1 .. n /\ DOMAIN r = 1 .. m
      /\ DOMAIN s = 1 .. n + m
      /\ \A i \in 1 .. n + m : s[i] = IF i <= n THEN q[i] ELSE r[i - n]
  BY ConcatProperties
<1>2. /\ \A i \in 1 .. n : q[i] \in S
      /\ \A v \in S : \E i \in 1 .. n : q[i] = v
      /\ \A a, b \in 1 .. n : q[a] = q[b] => a = b
  BY <1>1 DEF Lists, Values, Distinct
<1>3. /\ \A i \in 1 .. m : r[i] \in R
      /\ \A v \in R : \E i \in 1 .. m : r[i] = v
      /\ \A a, b \in 1 .. m : r[a] = r[b] => a = b
  BY <1>1 DEF Lists, Values, Distinct
<1> HIDE DEF s, n, m
<1>4. ASSUME NEW i \in 1 .. n + m
      PROVE  (i \in 1 .. n /\ s[i] = q[i]) \/ (i - n \in 1 .. m /\ s[i] = r[i - n])
  BY <1>1
<1>5. \A i \in 1 .. n : i \in 1 .. n + m /\ s[i] = q[i]
  BY <1>1
<1>6. \A i \in 1 .. m : i + n \in 1 .. n + m /\ s[i + n] = r[i]
  BY <1>1
<1>7. Values(s) = S \cup R
  <2>1. \A i \in 1 .. n + m : s[i] \in S \cup R
    BY <1>2, <1>3, <1>4
  <2>2. ASSUME NEW v \in S \cup R  PROVE \E i \in 1 .. n + m : s[i] = v
    <3>1. CASE v \in S
      <4>1. PICK i \in 1 .. n : q[i] = v
        BY <1>2, <3>1
      <4> QED  BY <1>5, <4>1
    <3>2. CASE v \in R
      <4>1. PICK i \in 1 .. m : r[i] = v
        BY <1>3, <3>2
      <4> QED  BY <1>6, <4>1
    <3> QED  BY <3>1, <3>2
  <2> QED  BY <1>1, <2>1, <2>2 DEF Values
<1>8. Distinct(s)
  <2> SUFFICES ASSUME NEW a \in 1 .. n + m, NEW b \in 1 .. n + m, s[a] = s[b]  PROVE a = b
    BY <1>1 DEF Distinct
  <2>1. \/ a \in 1 .. n /\ b \in 1 .. n /\ q[a] = q[b]
        \/ a - n \in 1 .. m /\ b - n \in 1 .. m /\ r[a - n] = r[b - n]
    BY <1>2, <1>3, <1>4
  <2>2. a - n = b - n => a = b
    BY <1>1
  <2> QED  BY <1>2, <1>3, <2>1, <2>2
<1> QED  BY <1>7, <1>8 DEF Lists, s

-----------------------------------------------------------------------------
(* The classes an object may be given.                                     *)
Accepts(type) ==
  Single(type) \cup (IF type = "scene" THEN {"shape", "light"} ELSE {})
               \cup (IF type = "ttest" THEN {"bsdf", "scene"} ELSE {})

(* The shapes of a document that are in a child of a node.                 *)
Lit(n) == {m \in Nodes : doc[m].tag = "shape" /\ \E l \in ChildrenOf(n) : doc[m].parent = l}

Tagged(G, tag) == {c \in G : doc[c].tag = tag}
AreaLights(G) == {c \in G : doc[c].tag = "light" /\ doc[c].type = "areaLight"}

(* An object that was given the children in G and no other: a member that  *)
(* takes one object points to the one of that class in G, to null when     *)
(* there is none, or to a default once the object is active.               *)
FitsMembers(o, G) ==
  /\ \A c \in G : doc[c].tag \in Accepts(o.type)
  /\ \A c \in G : doc[c].tag \in Single(o.type) => o.member[doc[c].tag] = c
  /\ \A m \in Single(o.type) :
       \/ o.member[m] = Null
       \/ o.member[m] = Default /\ o.active /\ m \in Defaulted(o.type)
       \/ o.member[m] \in G /\ doc[o.member[m]].tag = m
  /\ o.active => \A m \in Defaulted(o.type) : o.member[m] # Null
  /\ o.type # "areaLight" => o.member["shape"] = Null

(* The lists of a scene hold the children in G by their class, and the     *)
(* shapes of its area lights once it is active.                            *)
FitsLists(o, n, G) ==
  o.type = "scene" =>
    /\ Lists(o.lights, Tagged(G, "light"))
    /\ Lists(o.areaLights, AreaLights(G))
    /\ Lists(o.shapes, Tagged(G, "shape") \cup (IF o.active THEN Lit(n) ELSE {}))
    /\ o.active => o.member["camera"] # Null /\ o.member["integrator"] # Null

(* The members of the classes.                                             *)
LEMMA SingleIs ==
  /\ Single("scene") = {"sampler", "camera", "integrator"} /\ Single("perspective") = {"rfilter"}
  /\ Single("mesh") = {"bsdf"} /\ Single("areaLight") = {"shape"} /\ Single("ttest") = {}
  /\ Single("infiniteLight") = {}
  /\ Defaulted("scene") = {"sampler"} /\ Defaulted("perspective") = {"rfilter"}
  /\ Defaulted("mesh") = {"bsdf"}
  /\ \A t : /\ Single(t) \subseteq Members /\ Defaulted(t) \subseteq Single(t)
            /\ "light" \notin Single(t) /\ "envMap" \notin Single(t)
            /\ "shape" \in Single(t) => t = "areaLight"
            /\ Defaulted(t) \subseteq {"sampler", "rfilter", "bsdf"}
<1>1. {"sampler", "camera", "integrator", "rfilter", "bsdf", "shape"} \subseteq Members
  BY TagsOfObjects DEF Members
<1>2. /\ Single("scene") = {"sampler", "camera", "integrator"} /\ Single("perspective") = {"rfilter"}
      /\ Single("mesh") = {"bsdf"} /\ Single("areaLight") = {"shape"} /\ Single("ttest") = {}
      /\ Single("infiniteLight") = {}
  BY DEF Single
<1>3. /\ Defaulted("scene") = {"sampler"} /\ Defaulted("perspective") = {"rfilter"}
      /\ Defaulted("mesh") = {"bsdf"}
  BY DEF Defaulted
<1>4. ASSUME NEW t
      PROVE  /\ Single(t) \subseteq Members /\ Defaulted(t) \subseteq Single(t)
             /\ "light" \notin Single(t) /\ "envMap" \notin Single(t)
             /\ "shape" \in Single(t) => t = "areaLight"
             /\ Defaulted(t) \subseteq {"sampler", "rfilter", "bsdf"}
  <2>1. CASE t \in {"scene", "perspective", "mesh", "areaLight"}
    <3>1. Defaulted("areaLight") = {}
      BY DEF Defaulted
    <3> QED  BY <1>1, <1>2, <1>3, <2>1, <3>1
  <2>2. CASE t \notin {"scene", "perspective", "mesh", "areaLight"}
    <3>1. Single(t) = {} /\ Defaulted(t) = {}
      BY <2>2 DEF Single, Defaulted
    <3> QED  BY <3>1
  <2> QED  BY <2>1, <2>2
<1> QED  BY <1>2, <1>3, <1>4

(* Both depend on the document only.                                       *)
LEMMA FitsKept ==
  ASSUME doc' = doc
  PROVE  /\ \A o, G : FitsMembers(o, G)' <=> FitsMembers(o, G)
         /\ \A o, n, G : FitsLists(o, n, G)' <=> FitsLists(o, n, G)
BY DEF FitsMembers, FitsLists, Lists, Values, Distinct, Tagged, AreaLights, Lit, Nodes, ChildrenOf,
       Accepts

(* A new object was given nothing.                                         *)
LEMMA FitsNew ==
  ASSUME NEW type, NEW w, NEW n
  PROVE  FitsMembers(New(type, w), {}) /\ FitsLists(New(type, w), n, {})
<1> DEFINE o == New(type, w)
<1>1. /\ o.type = type /\ ~o.active /\ \A m \in Members : o.member[m] = Null
      /\ o.shapes = <<>> /\ o.lights = <<>> /\ o.areaLights = <<>>
  BY DEF New
<1> HIDE DEF o
<1>2. Tagged({}, "light") = {} /\ Tagged({}, "shape") = {} /\ AreaLights({}) = {}
  BY DEF Tagged, AreaLights
<1>3. "shape" \in Members /\ \A m \in Single(o.type) : m \in Members
  BY SingleIs, TagsOfObjects DEF Members
<1>4. FitsMembers(o, {})
  BY <1>1, <1>3 DEF FitsMembers
<1>5. FitsLists(o, n, {})
  <2>1. {} \cup {} = {}
    OBVIOUS
  <2> QED  BY <1>1, <1>2, <2>1, ListsEmpty DEF FitsLists
<1> QED  BY <1>4, <1>5 DEF o

(* A child is given: it was not given before, nor was another of a class   *)
(* of which there can be one.                                              *)
LEMMA FitsAdd ==
  ASSUME NEW x \in Object, NEW n, NEW G, G \subseteq Nat, FitsMembers(x, G), FitsLists(x, n, G),
         ~x.active, NEW c \in Nat, c \notin G, objects[c].type = doc[c].type, doc[c].type \in Types,
         ClassOf[doc[c].type] = doc[c].tag, NEW o \in AddChild(x, c)
  PROVE  FitsMembers(o, G \cup {c}) /\ FitsLists(o, n, G \cup {c})
<1> DEFINE class == doc[c].tag
           H == G \cup {c}
<1>1. /\ x.type \in Types /\ x.member \in [Members -> Pointers]
      /\ x.lights \in Seq(Nat) /\ x.areaLights \in Seq(Nat) /\ x.shapes \in Seq(Pointers)
      /\ c \in Pointers /\ c # Null
  BY ParserAssumption DEF Object, Pointers
<1>2. /\ o.type = x.type /\ o.active = x.active
      /\ \A m \in Members : o.member[m] \in {x.member[m], c}
  BY AddChildKeeps
<1>3. \/ /\ class \in Single(x.type) /\ x.member[class] = Null
         /\ o = [x EXCEPT !.member[class] = c]
      \/ /\ x.type = "scene" /\ class = "shape"
         /\ o = [x EXCEPT !.shapes = Append(@, c)]
      \/ /\ x.type = "scene" /\ doc[c].type = "areaLight" /\ class = "light"
         /\ o = [x EXCEPT !.lights = Append(@, c), !.areaLights = Append(@, c)]
      \/ /\ x.type = "scene" /\ doc[c].type = "infiniteLight" /\ class = "light"
         /\ o = [x EXCEPT !.lights = Append(@, c), !.member["envMap"] = c]
      \/ /\ x.type = "ttest" /\ class \in {"bsdf", "scene"} /\ o = x
  <2>1. objects[c].type \in Types /\ class = ClassOf[objects[c].type] /\ objects[c].type = doc[c].type
    OBVIOUS
  <2>2. Added(o, x, c, ClassOf[objects[c].type])
    BY <1>1, <2>1, AddChildCases
  <2>3. Added(o, x, c, class)
    BY <2>1, <2>2, Zenon
  <2> HIDE DEF class
  <2> QED  BY <2>1, <2>3 DEF Added
<1> HIDE DEF class
<1>4. \/ /\ class \in Single(x.type) /\ x.member[class] = Null
         /\ o.member[class] = c /\ \A m \in Members \ {class} : o.member[m] = x.member[m]
         /\ o.lights = x.lights /\ o.areaLights = x.areaLights /\ o.shapes = x.shapes
      \/ /\ x.type = "scene" /\ class = "shape"
         /\ o.member = x.member /\ o.shapes = Append(x.shapes, c)
         /\ o.lights = x.lights /\ o.areaLights = x.areaLights
      \/ /\ x.type = "scene" /\ doc[c].type = "areaLight" /\ class = "light"
         /\ o.member = x.member /\ o.shapes = x.shapes
         /\ o.lights = Append(x.lights, c) /\ o.areaLights = Append(x.areaLights, c)
      \/ /\ x.type = "scene" /\ doc[c].type = "infiniteLight" /\ class = "light"
         /\ \A m \in Members \ {"envMap"} : o.member[m] = x.member[m]
         /\ o.shapes = x.shapes /\ o.lights = Append(x.lights, c) /\ o.areaLights = x.areaLights
      \/ /\ x.type = "ttest" /\ class \in {"bsdf", "scene"} /\ o = x
  <2>1. class \in Single(x.type) => class \in Members
    BY SingleIs
  <2>2. CASE class \in Single(x.type) /\ x.member[class] = Null /\ o = [x EXCEPT !.member[class] = c]
    BY <1>1, <2>1, <2>2 DEF Object
  <2>3. CASE x.type = "scene" /\ class = "shape" /\ o = [x EXCEPT !.shapes = Append(@, c)]
    BY <2>3 DEF Object
  <2>4. CASE /\ x.type = "scene" /\ doc[c].type = "areaLight" /\ class = "light"
             /\ o = [x EXCEPT !.lights = Append(@, c), !.areaLights = Append(@, c)]
    BY <2>4 DEF Object
  <2>5. CASE /\ x.type = "scene" /\ doc[c].type = "infiniteLight" /\ class = "light"
             /\ o = [x EXCEPT !.lights = Append(@, c), !.member["envMap"] = c]
    BY <1>1, <2>5 DEF Object
  <2> QED  BY <1>3, <2>2, <2>3, <2>4, <2>5, Zenon
<1>5. FitsMembers(o, H)
  <2>1. /\ \A g \in G : doc[g].tag \in Accepts(x.type)
        /\ \A g \in G : doc[g].tag \in Single(x.type) => x.member[doc[g].tag] = g
        /\ \A m \in Single(x.type) :
             x.member[m] = Null \/ (x.member[m] \in G /\ doc[x.member[m]].tag = m)
        /\ x.type # "areaLight" => x.member["shape"] = Null
    BY DEF FitsMembers
  <2>2. class \in Accepts(x.type)
    BY <1>4, SingleIs DEF Accepts
  <2>3. /\ \A m \in Single(x.type) : m \in Members /\ m # "envMap"
        /\ "shape" \in Members /\ (x.type # "areaLight" => "shape" \notin Single(x.type))
    BY SingleIs, TagsOfObjects DEF Members
  <2>4. \/ /\ class \in Single(x.type) /\ x.member[class] = Null
           /\ o.member[class] = c /\ \A m \in Single(x.type) \ {class} : o.member[m] = x.member[m]
        \/ class \notin Single(x.type) /\ \A m \in Single(x.type) : o.member[m] = x.member[m]
    BY <1>4, <2>3, SingleIs
  <2>5. \A g \in H : doc[g].tag \in Accepts(o.type)
    BY <1>2, <2>1, <2>2 DEF class
  <2>6. ASSUME NEW g \in H, doc[g].tag \in Single(x.type)  PROVE o.member[doc[g].tag] = g
    <3>1. CASE g = c
      BY <2>4, <2>6, <3>1 DEF class
    <3>2. CASE g \in G
      <4>1. x.member[doc[g].tag] = g /\ g # Null
        BY <2>1, <2>6, <3>2, ParserAssumption
      <4> QED  BY <2>4, <2>6, <4>1
    <3> QED  BY <3>1, <3>2
  <2>7. ASSUME NEW m \in Single(x.type)
        PROVE  o.member[m] = Null \/ (o.member[m] \in H /\ doc[o.member[m]].tag = m)
    <3>1. CASE o.member[m] = x.member[m]
      BY <2>1, <3>1
    <3>2. CASE m = class /\ o.member[class] = c
      BY <3>2 DEF class
    <3> QED  BY <2>4, <3>1, <3>2
  <2>8. x.type # "areaLight" => o.member["shape"] = Null
    BY <1>4, <2>1, <2>3
  <2> QED  BY <1>2, <2>5, <2>6, <2>7, <2>8 DEF FitsMembers
<1>6. ASSUME x.type = "scene"
      PROVE  /\ Lists(o.lights, Tagged(H, "light")) /\ Lists(o.areaLights, AreaLights(H))
             /\ Lists(o.shapes, Tagged(H, "shape"))
  <2>1. /\ Lists(x.lights, Tagged(G, "light")) /\ Lists(x.areaLights, AreaLights(G))
        /\ Lists(x.shapes, Tagged(G, "shape"))
    <3>1. \A S : S \cup {} = S
      OBVIOUS
    <3> QED  BY <1>6, <3>1 DEF FitsLists
  <2>2. /\ Tagged(H, "light") = Tagged(G, "light") \cup (IF class = "light" THEN {c} ELSE {})
        /\ Tagged(H, "shape") = Tagged(G, "shape") \cup (IF class = "shape" THEN {c} ELSE {})
        /\ AreaLights(H) = AreaLights(G)
             \cup (IF class = "light" /\ doc[c].type = "areaLight" THEN {c} ELSE {})
    BY DEF Tagged, AreaLights, class
  <2>3. c \notin Tagged(G, "light") /\ c \notin Tagged(G, "shape") /\ c \notin AreaLights(G)
    BY DEF Tagged, AreaLights
  <2>4. /\ Lists(Append(x.lights, c), Tagged(G, "light") \cup {c})
        /\ Lists(Append(x.areaLights, c), AreaLights(G) \cup {c})
        /\ Lists(Append(x.shapes, c), Tagged(G, "shape") \cup {c})
    <3>1. Lists(Append(x.lights, c), Tagged(G, "light") \cup {c})
      BY <1>1, <2>1, <2>3, ListsAppend
    <3>2. Lists(Append(x.areaLights, c), AreaLights(G) \cup {c})
      BY <1>1, <2>1, <2>3, ListsAppend
    <3>3. Lists(Append(x.shapes, c), Tagged(G, "shape") \cup {c})
      BY <1>1, <2>1, <2>3, ListsAppend
    <3> QED  BY <3>1, <3>2, <3>3
  <2>5. class \in Single(x.type) => class # "light" /\ class # "shape"
    BY <1>6, SingleIs
  <2>6. \A S : S \cup {} = S
    OBVIOUS
  <2> HIDE DEF H
  <2> QED  BY <1>4, <1>6, <2>1, <2>2, <2>4, <2>5, <2>6
<1>7. FitsLists(o, n, H)
  <2>1. \A S : S \cup {} = S
    OBVIOUS
  <2> HIDE DEF H
  <2> QED  BY <1>2, <1>6, <2>1 DEF FitsLists
<1> QED  BY <1>5, <1>7

(* Learning of a parent changes nothing of that.                           *)
LEMMA FitsSetParent ==
  ASSUME NEW x \in Object, NEW n, NEW G, FitsMembers(x, G), FitsLists(x, n, G), NEW p \in Nat
  PROVE  /\ FitsMembers(SetParent(x, p), G) /\ FitsLists(SetParent(x, p), n, G)
         /\ SetParent(x, p).member["light"] =
              IF ClassOf[x.type] = "shape" /\ ClassOf[objects[p].type] = "light"
                THEN p ELSE x.member["light"]
<1> DEFINE y == SetParent(x, p)
<1>1. "light" \in Members /\ "shape" \in Members /\ "camera" \in Members /\ "integrator" \in Members
  BY TagsOfObjects DEF Members
<1>2. /\ y.type = x.type /\ y.active = x.active /\ y.lights = x.lights /\ y.shapes = x.shapes
      /\ y.areaLights = x.areaLights
      /\ \A m \in Members \ {"light"} : y.member[m] = x.member[m]
      /\ y.member["light"] = IF ClassOf[x.type] = "shape" /\ ClassOf[objects[p].type] = "light"
                               THEN p ELSE x.member["light"]
  <2> DEFINE z == [x EXCEPT !.member["light"] = p]
  <2>1. x.member \in [Members -> Pointers]
    BY DEF Object
  <2>2. /\ z.type = x.type /\ z.active = x.active /\ z.lights = x.lights /\ z.shapes = x.shapes
        /\ z.areaLights = x.areaLights
        /\ \A m \in Members \ {"light"} : z.member[m] = x.member[m]
        /\ z.member["light"] = p
    BY <1>1, <2>1 DEF Object
  <2>3. y = IF ClassOf[x.type] = "shape" /\ ClassOf[objects[p].type] = "light" THEN z ELSE x
    BY DEF SetParent
  <2> HIDE DEF y, z
  <2> QED  BY <2>2, <2>3
<1> HIDE DEF y
<1>3. \A m \in Single(x.type) : m \in Members \ {"light"}
  BY SingleIs
<1>4. FitsMembers(y, G)
  <2>1. \A m \in Defaulted(x.type) : m \in Members \ {"light"}
    BY SingleIs
  <2> QED  BY <1>1, <1>2, <1>3, <2>1 DEF FitsMembers
<1>5. FitsLists(y, n, G)
  BY <1>1, <1>2 DEF FitsLists
<1> QED  BY <1>2, <1>4, <1>5 DEF y

(* Nor does becoming active, which makes what is missing and lists the     *)
(* shapes of the area lights.                                              *)
LEMMA FitsActivate ==
  ASSUME NEW x \in Object, NEW n, NEW G, G \subseteq Nat, FitsMembers(x, G), FitsLists(x, n, G),
         ~x.active, ~Rejected(x), LitShapes(x) \in Seq(Pointers),
         x.type = "scene" => Lists(LitShapes(x), Lit(n)) /\ Tagged(G, "shape") \cap Lit(n) = {}
  PROVE  /\ FitsMembers(Activated(x), G) /\ FitsLists(Activated(x), n, G)
         /\ Activated(x).member["light"] = x.member["light"]
<1> DEFINE y == Activated(x)
           s == LitShapes(x)
           f == [m \in Members |->
                   IF m \in Defaulted(x.type) /\ x.member[m] = Null THEN Default ELSE x.member[m]]
<1>1. {"light", "shape", "camera", "integrator"} \subseteq Members
  BY TagsOfObjects DEF Members
<1>2. y = [[[x EXCEPT !.active = TRUE] EXCEPT !.member = f] EXCEPT !.shapes = @ \o s]
  BY DEF Activated
<1>3. \A m \in Members :
        f[m] = IF m \in Defaulted(x.type) /\ x.member[m] = Null THEN Default ELSE x.member[m]
  OBVIOUS
<1> HIDE DEF y, s, f
<1>4. /\ y.type = x.type /\ y.active /\ y.lights = x.lights /\ y.shapes = x.shapes \o s
      /\ y.areaLights = x.areaLights /\ y.member = f
  BY <1>2 DEF Object
<1>5. Null \notin Nat /\ Default # Null /\ \A g \in G : g # Null
  BY ParserAssumption
<1>6. /\ \A m \in Single(x.type) : m \in Members
      /\ \A m \in Defaulted(x.type) : m \in Single(x.type)
      /\ {"light", "shape", "camera", "integrator"} \cap Defaulted(x.type) = {}
  BY SingleIs
<1>7. FitsMembers(y, G)
  <2>1. /\ \A g \in G : doc[g].tag \in Accepts(x.type)
        /\ \A g \in G : doc[g].tag \in Single(x.type) => x.member[doc[g].tag] = g
        /\ \A m \in Single(x.type) :
             x.member[m] = Null \/ (x.member[m] \in G /\ doc[x.member[m]].tag = m)
        /\ x.type # "areaLight" => x.member["shape"] = Null
    BY DEF FitsMembers
  <2>2. \A g \in G : doc[g].tag \in Single(x.type) => f[doc[g].tag] = g
    BY <1>3, <1>5, <1>6, <2>1
  <2>3. \A m \in Single(x.type) :
          \/ f[m] = Null
          \/ f[m] = Default /\ m \in Defaulted(x.type)
          \/ f[m] \in G /\ doc[f[m]].tag = m
    BY <1>3, <1>6, <2>1
  <2>4. \A m \in Defaulted(x.type) : f[m] # Null
    BY <1>3, <1>5, <1>6
  <2>5. x.type # "areaLight" => f["shape"] = Null
    BY <1>1, <1>3, <1>6, <2>1
  <2> QED  BY <1>4, <2>1, <2>2, <2>3, <2>4, <2>5 DEF FitsMembers
<1>8. y.member["light"] = x.member["light"]
  BY <1>1, <1>3, <1>4, <1>6
<1>9. ASSUME x.type = "scene"
      PROVE  /\ Lists(y.lights, Tagged(G, "light")) /\ Lists(y.areaLights, AreaLights(G))
             /\ Lists(y.shapes, Tagged(G, "shape") \cup Lit(n))
             /\ y.member["camera"] # Null /\ y.member["integrator"] # Null
  <2>1. /\ Lists(x.lights, Tagged(G, "light")) /\ Lists(x.areaLights, AreaLights(G))
        /\ Lists(x.shapes, Tagged(G, "shape"))
    <3>1. \A S : S \cup {} = S
      OBVIOUS
    <3> QED  BY <1>9, <3>1 DEF FitsLists
  <2>2. x.shapes \in Seq(Pointers) /\ s \in Seq(Pointers)
    BY DEF Object, s
  <2>3. Lists(s, Lit(n)) /\ Tagged(G, "shape") \cap Lit(n) = {}
    BY <1>9 DEF s
  <2>4. Lists(x.shapes \o s, Tagged(G, "shape") \cup Lit(n))
    BY <2>1, <2>2, <2>3, ListsConcat
  <2>5. x.member["camera"] # Null /\ x.member["integrator"] # Null
    BY <1>9 DEF Rejected
  <2> QED  BY <1>1, <1>3, <1>4, <1>6, <2>1, <2>4, <2>5
<1>10. FitsLists(y, n, G)
  BY <1>4, <1>9 DEF FitsLists
<1> QED  BY <1>7, <1>8, <1>10 DEF y

-----------------------------------------------------------------------------
(* An element that is parsed, with all it contains: the safety checks have *)
(* accepted it and its children, and its object, if it has one, is active. *)
Finished(m) ==
  /\ Sensible(m)
  /\ \A l \in ChildrenOf(m) : Sensible(l)
  /\ doc[m].tag \in Classes => m \in Objects /\ objects[m].active

(* A call has collected the objects of all children parsed, once each.     *)
CollectInv ==
  /\ \A n \in Objects : objects[n].type = doc[n].type
  /\ \A k \in 1 .. Depth - 1 : \A m \in Parsed(k) : Finished(m)
  /\ \A n \in Objects : \A m \in ChildrenOf(n) : Finished(m)
  /\ \A k \in 1 .. Depth - 1 : Distinct(stack[k].children)
  /\ \A k \in 1 .. Depth - 1 : k > 1 \/ phase = "content" =>
       Values(stack[k].children) = {m \in Parsed(k) : doc[m].tag \in Classes}

(* Objects are not removed, do not change their type and stay active.      *)
LEMMA HeapGrows ==
  ASSUME StackInv, HeapInv, ListInv, [Next]_vars
  PROVE  /\ doc' = doc /\ Objects \subseteq Objects'
         /\ \A n \in Objects : /\ objects'[n].type = objects[n].type
                               /\ objects[n].active => objects'[n].active
<1>1. Next \/ UNCHANGED vars
  OBVIOUS
<1>2. Next => Open \/ Closes \/ Create \/ GiveChild \/ Halts
  BY DEF Next, Closes, Halts
<1>3. CASE UNCHANGED vars \/ Halts
  BY <1>3, HaltsKeeps DEF vars, Objects
<1>4. CASE Open
  BY <1>4, OpenStack DEF Objects
<1>5. CASE Create
  BY <1>5, CreateHeap, FillsKeeps
<1>6. CASE GiveChild
  BY <1>6, GiveHeap, FillsKeeps
<1>7. CASE Activate
  <2>1. doc' = doc
    BY <1>7 DEF Activate
  <2>2. /\ Objects' = Objects /\ objects'[stack[1].node].active
        /\ \A l \in Objects \ {stack[1].node} : objects'[l] = objects[l]
        /\ \A l \in Objects : objects'[l].type = objects[l].type
    BY <1>7, ActivateHeap
  <2> QED  BY <2>1, <2>2
<1>8. CASE CloseProperty \/ CloseTransform \/ CloseOp
  BY <1>8 DEF CloseProperty, CloseTransform, CloseOp, Objects
<1> QED  BY <1>1, <1>2, <1>3, <1>4, <1>5, <1>6, <1>7, <1>8 DEF Closes

(* So what is finished stays finished.                                     *)
LEMMA FinishedKept ==
  ASSUME StackInv, HeapInv, ListInv, [Next]_vars
  PROVE  \A m : Finished(m) => Finished(m)'
<1>1. /\ doc' = doc /\ Objects \subseteq Objects'
      /\ \A n \in Objects : objects[n].active => objects'[n].active
  BY HeapGrows
<1>2. \A n : ChildrenOf(n)' = ChildrenOf(n) /\ (Sensible(n)' <=> Sensible(n))
  BY <1>1, DocumentKept
<1> SUFFICES ASSUME NEW m, Finished(m)  PROVE Finished(m)'
  OBVIOUS
<1>3. Sensible(m)' /\ \A l \in ChildrenOf(m)' : Sensible(l)'
  BY <1>2 DEF Finished
<1>4. doc'[m].tag \in Classes => m \in Objects' /\ objects'[m].active
  BY <1>1 DEF Finished
<1> QED  BY <1>3, <1>4 DEF Finished

(* A new call has collected nothing.                                       *)
LEMMA CollectOpen ==
  ASSUME StackInv, HeapInv, ListInv, CollectInv, Open
  PROVE  CollectInv'
<1>1. /\ doc' = doc /\ objects' = objects /\ phase = "content" /\ Depth' = Depth + 1
      /\ stack'[1].children = <<>> /\ stack'[2].children = stack[1].children
      /\ \A k \in 3 .. Depth + 1 : stack'[k] = stack[k - 1]
  BY OpenStack DEF Open
<1>2. Parsed(1)' = {} /\ \A k \in 2 .. Depth + 1 : Parsed(k)' = Parsed(k - 1)
  BY ParsedOpen
<1>3. /\ \A m : Finished(m) => Finished(m)'
      /\ Objects' = Objects /\ \A n : ChildrenOf(n)' = ChildrenOf(n)
  BY <1>1, FinishedKept, DocumentKept DEF Next, Objects
<1>4. Depth \in Nat \ {0} /\ Depth' - 1 = Depth
  BY <1>1 DEF StackInv
<1>5. \A k \in 1 .. Depth : k = 1 \/ (k \in 2 .. Depth + 1 /\ k - 1 \in 1 .. Depth - 1)
  BY <1>4
<1>6. \A k \in 2 .. Depth + 1 : stack'[k].children = stack[k - 1].children
  <2> SUFFICES ASSUME NEW k \in 2 .. Depth + 1  PROVE stack'[k].children = stack[k - 1].children
    OBVIOUS
  <2>1. k = 2 \/ k \in 3 .. Depth + 1
    BY <1>4
  <2> QED  BY <1>1, <2>1
<1>7. ASSUME NEW k \in 1 .. Depth
      PROVE  /\ \A m \in Parsed(k)' : Finished(m)
             /\ Distinct(stack'[k].children)
             /\ Values(stack'[k].children) = {m \in Parsed(k)' : doc[m].tag \in Classes}
  <2>1. CASE k = 1
    <3>1. Values(<<>>) = {} /\ Distinct(<<>>)
      BY ListsEmpty DEF Lists
    <3> QED  BY <1>1, <1>2, <2>1, <3>1
  <2>2. CASE k \in 2 .. Depth + 1 /\ k - 1 \in 1 .. Depth - 1
    <3>1. /\ \A m \in Parsed(k - 1) : Finished(m)
          /\ Distinct(stack[k - 1].children)
          /\ Values(stack[k - 1].children) = {m \in Parsed(k - 1) : doc[m].tag \in Classes}
      BY <1>1, <2>2 DEF CollectInv
    <3> QED  BY <1>2, <1>6, <2>2, <3>1
  <2> QED  BY <1>5, <2>1, <2>2
<1>8. /\ \A n \in Objects : objects[n].type = doc[n].type
      /\ \A n \in Objects : \A m \in ChildrenOf(n) : Finished(m)
  BY DEF CollectInv
<1>9. /\ \A k \in 1 .. Depth : \A m \in Parsed(k)' : Finished(m)'
      /\ \A n \in Objects : \A m \in ChildrenOf(n)' : Finished(m)'
  BY <1>3, <1>7, <1>8
<1>10. \A k \in 1 .. Depth : \A a, b \in DOMAIN stack'[k].children :
         stack'[k].children[a] = stack'[k].children[b] => a = b
  BY <1>7 DEF Distinct
<1>11. \A k \in 1 .. Depth : {stack'[k].children[i] : i \in DOMAIN stack'[k].children}
                               = {m \in Parsed(k)' : doc'[m].tag \in Classes}
  BY <1>1, <1>7 DEF Values
<1>12. \A n \in Objects' : objects'[n].type = doc'[n].type
  BY <1>1, <1>3, <1>8
<1>13. 1 .. Depth' - 1 = 1 .. Depth
  BY <1>4
<1> QED  BY <1>3, <1>9, <1>10, <1>11, <1>12, <1>13 DEF CollectInv, Distinct, Values

(* Nothing is collected at the beginning.                                  *)
LEMMA CollectInit ==
  ASSUME Init
  PROVE  CollectInv
<1>1. Depth = 1 /\ objects = <<>>
  BY StackInit DEF Init
<1>2. Objects = {} /\ 1 .. Depth - 1 = {}
  BY <1>1 DEF Objects
<1> QED  BY <1>2 DEF CollectInv

(* An object is made when all its children are parsed, and is given them   *)
(* in their order (parser.cpp:183-205).                                    *)
LEMMA CollectFills ==
  ASSUME StackInv, HeapInv, ListInv, CollectInv, Create \/ GiveChild
  PROVE  CollectInv'
<1> DEFINE t == stack[1].node
<1>1. /\ doc' = doc /\ phase' = "children" /\ Depth' = Depth /\ Depth > 1
      /\ \A k \in 2 .. Depth : stack'[k] = stack[k]
      /\ stack \in Seq(Calls) /\ Depth = Len(stack) /\ Depth \in Nat \ {0}
  BY FillsKeeps DEF StackInv, Depth
<1>2. /\ Parsed(1) = ChildrenOf(t)
      /\ \A k \in 1 .. Depth : Parsed(k)' = Parsed(k)
  BY ParsedFills
<1>3. [Next]_vars
  BY DEF Next
<1>4. /\ \A m : Finished(m) => Finished(m)'
      /\ \A n : ChildrenOf(n)' = ChildrenOf(n)
  BY <1>1, <1>3, FinishedKept, DocumentKept
<1>5. \A k \in 1 .. Depth - 1 : \A m \in Parsed(k)' : Finished(m)'
  <2>1. \A k \in 1 .. Depth - 1 : k \in 1 .. Depth /\ \A m \in Parsed(k) : Finished(m)
    BY <1>1 DEF CollectInv
  <2> QED  BY <1>2, <1>4, <2>1
<1>6. Objects' = Objects \/ Objects' = Objects \cup {t}
  BY CreateHeap, GiveHeap
<1>7. \A n \in Objects' : \A m \in ChildrenOf(n)' : Finished(m)'
  <2>1. \A n \in Objects : \A m \in ChildrenOf(n) : Finished(m)
    BY DEF CollectInv
  <2>2. \A m \in ChildrenOf(t) : Finished(m)
    <3>1. 1 \in 1 .. Depth - 1
      BY <1>1
    <3> QED  BY <1>2, <3>1 DEF CollectInv
  <2> QED  BY <1>4, <1>6, <2>1, <2>2
<1>8. \A n \in Objects' : objects'[n].type = doc'[n].type
  <2>1. \A n \in Objects : objects'[n].type = objects[n].type /\ objects[n].type = doc[n].type
    BY <1>3, HeapGrows DEF CollectInv
  <2>2. Create => objects'[t].type = doc[t].type /\ Objects' = Objects \cup {t}
    BY CreateHeap
  <2>3. GiveChild => Objects' = Objects
    BY GiveHeap
  <2> QED  BY <1>1, <2>1, <2>2, <2>3
<1>9. \A k \in 1 .. Depth - 1 : Distinct(stack'[k].children)
  <2> SUFFICES ASSUME NEW k \in 1 .. Depth - 1  PROVE Distinct(stack'[k].children)
    OBVIOUS
  <2>1. Distinct(stack[k].children)
    BY DEF CollectInv
  <2>2. CASE k \in 2 .. Depth
    BY <1>1, <2>1, <2>2
  <2>3. CASE k = 1 /\ Create
    BY <2>1, <2>3 DEF Create
  <2>4. CASE k = 1 /\ GiveChild
    <3>1. stack[1] \in Calls
      BY <1>1
    <3>2. stack[1].children \in Seq(Nat)
      BY <3>1 DEF Calls
    <3>3. stack[1].children # <<>> /\ stack'[1].children = Tail(stack[1].children)
      BY <2>4, GiveStack
    <3>4. Lists(stack[1].children, Values(stack[1].children))
      BY <2>1, <2>4 DEF Lists
    <3>5. Distinct(Tail(stack[1].children))
      BY <3>2, <3>3, <3>4, ListsTail DEF Lists
    <3> QED  BY <2>4, <3>3, <3>5
  <2>5. k = 1 \/ k \in 2 .. Depth
    BY <1>1
  <2> QED  BY <2>2, <2>3, <2>4, <2>5
<1>10. \A k \in 1 .. Depth - 1 : \A a, b \in DOMAIN stack'[k].children :
         stack'[k].children[a] = stack'[k].children[b] => a = b
  BY <1>9 DEF Distinct
<1>11. \A k \in 1 .. Depth - 1 : k > 1 \/ phase' = "content" =>
         {stack'[k].children[i] : i \in DOMAIN stack'[k].children}
           = {m \in Parsed(k)' : doc'[m].tag \in Classes}
  <2>1. \A k \in 1 .. Depth - 1 : k > 1 =>
          Values(stack[k].children) = {m \in Parsed(k) : doc[m].tag \in Classes}
    BY DEF CollectInv
  <2>2. \A k \in 1 .. Depth - 1 : k \in 1 .. Depth /\ (k > 1 => k \in 2 .. Depth)
    BY <1>1
  <2> QED  BY <1>1, <1>2, <2>1, <2>2 DEF Values
<1>12. 1 .. Depth' - 1 = 1 .. Depth - 1
  BY <1>1
<1> QED  BY <1>5, <1>7, <1>8, <1>10, <1>11, <1>12 DEF CollectInv, Distinct, Values

(* A call ends: what it has parsed is finished, and its caller collects    *)
(* its object, if it has one (parser.cpp:174-179, 314).                    *)
LEMMA CollectCloses ==
  ASSUME StackInv, HeapInv, ListInv, CollectInv, Closes
  PROVE  CollectInv'
<1> DEFINE t == stack[1].node
<1>1. /\ doc' = doc /\ phase' = "content" /\ Depth' = Depth - 1 /\ Depth > 1
      /\ \A k \in 2 .. Depth - 1 : stack'[k] = stack[k + 1]
      /\ stack'[1].children = stack[2].children \o Returned
      /\ stack \in Seq(Calls) /\ Depth = Len(stack) /\ Depth \in Nat \ {0}
      /\ Top = stack[1] /\ doc \in Files
  <2>1. /\ stack \in Seq(Calls) /\ Depth = Len(stack) /\ Depth \in Nat \ {0}
        /\ Top = stack[1] /\ doc \in Files
    BY DEF StackInv, Depth, Top
  <2> QED  BY <2>1, ClosesReturn
<1>2. /\ Parsed(1)' = Parsed(2) \cup {t} /\ Parsed(1) = ChildrenOf(t) /\ t \in Nodes
      /\ \A k \in 2 .. Depth - 1 : Parsed(k)' = Parsed(k + 1)
  BY ParsedCloses
<1>3. [Next]_vars
  BY DEF Next, Closes
<1>4. /\ \A m : Finished(m) => Finished(m)'
      /\ \A n : ChildrenOf(n)' = ChildrenOf(n)
  BY <1>1, <1>3, FinishedKept, DocumentKept
<1>5. /\ Objects' = Objects
      /\ doc[t].tag \in Classes => t \in Objects /\ objects'[t].active
  <2>1. CASE Activate
    BY <2>1, ActivateHeap
  <2>2. CASE CloseProperty \/ CloseTransform \/ CloseOp
    <3>1. doc[t].tag \in {"property", "transform", "op"} /\ objects' = objects
      BY <1>1, <2>2 DEF CloseProperty, CloseTransform, CloseOp, Ready, This
    <3> QED  BY <3>1, TagsOfObjects DEF Objects
  <2> QED  BY <2>1, <2>2 DEF Closes
<1>6. ASSUME NEW m, m = t  PROVE Finished(m)'
  <2>1. 1 \in 1 .. Depth - 1
    BY <1>1
  <2>2. Sensible(m)
    BY <1>2, <1>6, <2>1 DEF StackInv
  <2>3. \A l \in ChildrenOf(m) : Sensible(l)
    BY <1>2, <1>6, <2>1 DEF CollectInv, Finished
  <2>4. \A n : Sensible(n)' <=> Sensible(n)
    BY <1>1, DocumentKept
  <2>5. /\ Sensible(m)'
        /\ \A l \in ChildrenOf(m)' : Sensible(l)'
        /\ doc'[m].tag \in Classes => m \in Objects' /\ objects'[m].active
    BY <1>1, <1>4, <1>5, <1>6, <2>2, <2>3, <2>4
  <2> QED  BY <2>5 DEF Finished
<1>7. ASSUME NEW k \in 1 .. Depth' - 1
      PROVE  /\ \A m \in Parsed(k)' : Finished(m)'
             /\ Distinct(stack'[k].children)
             /\ Values(stack'[k].children) = {m \in Parsed(k)' : doc[m].tag \in Classes}
  <2>1. CASE k = 1
    <3>1. 2 \in 1 .. Depth - 1 /\ 2 > 1
      BY <1>1, <2>1
    <3>2. /\ \A m \in Parsed(2) : Finished(m)
          /\ Distinct(stack[2].children)
          /\ Values(stack[2].children) = {m \in Parsed(2) : doc[m].tag \in Classes}
      BY <3>1 DEF CollectInv
    <3>3. \A m \in Parsed(k)' : Finished(m)'
      BY <1>2, <1>4, <1>6, <2>1, <3>2
    <3>4. stack[2].children \in Seq(Nat) /\ t \in Nat
      <4>1. stack[2] \in Calls
        BY <1>1, <3>1
      <4> QED  BY <1>1, <1>2, <4>1, Document DEF Calls
    <3>5. t \notin Parsed(2)
      BY DEF Parsed
    <3> DEFINE q == stack[2].children
               S == {m \in Parsed(2) : doc[m].tag \in Classes}
               R == {m \in Parsed(1)' : doc[m].tag \in Classes}
    <3>6. Lists(q, S) /\ q \in Seq(Nat) /\ t \notin S
      BY <3>2, <3>4, <3>5 DEF Lists
    <3>7. CASE doc[t].tag \in Classes
      <4>1. R = S \cup {t}
        BY <1>2, <3>7
      <4>2. stack'[1].children = q \o <<t>>
        BY <1>1, <3>7 DEF Returned, This
      <4> HIDE DEF q, S, R, t
      <4>3. q \o <<t>> = Append(q, t)
        BY <3>4, <3>6
      <4>4. Lists(Append(q, t), S \cup {t})
        BY <3>4, <3>6, ListsAppend
      <4>5. Lists(stack'[1].children, R)
        BY <4>1, <4>2, <4>3, <4>4
      <4> QED  BY <2>1, <3>3, <4>5 DEF Lists, R
    <3>8. CASE doc[t].tag \notin Classes
      <4>1. R = S
        BY <1>2, <3>8
      <4>2. stack'[1].children = q \o <<>>
        BY <1>1, <3>8 DEF Returned, This
      <4> HIDE DEF q, S, R, t
      <4>3. q \o <<>> = q
        BY <3>6
      <4>4. Lists(stack'[1].children, R)
        BY <3>6, <4>1, <4>2, <4>3
      <4> QED  BY <2>1, <3>3, <4>4 DEF Lists, R
    <3> QED  BY <3>7, <3>8
  <2>2. CASE k # 1
    <3>1. k \in 2 .. Depth - 1 /\ k + 1 \in 1 .. Depth - 1 /\ k + 1 > 1
      BY <1>1, <2>2
    <3>2. /\ \A m \in Parsed(k + 1) : Finished(m)
          /\ Distinct(stack[k + 1].children)
          /\ Values(stack[k + 1].children) = {m \in Parsed(k + 1) : doc[m].tag \in Classes}
      BY <3>1 DEF CollectInv
    <3> QED  BY <1>1, <1>2, <1>4, <3>1, <3>2
  <2> QED  BY <2>1, <2>2
<1>8. /\ \A n \in Objects' : \A m \in ChildrenOf(n)' : Finished(m)'
      /\ \A n \in Objects' : objects'[n].type = doc'[n].type
  <2>1. \A n \in Objects : \A m \in ChildrenOf(n) : Finished(m)
    BY DEF CollectInv
  <2>2. \A n \in Objects : objects'[n].type = objects[n].type /\ objects[n].type = doc[n].type
    BY <1>3, HeapGrows DEF CollectInv
  <2> QED  BY <1>1, <1>4, <1>5, <2>1, <2>2
<1>9. \A k \in 1 .. Depth' - 1 : \A a, b \in DOMAIN stack'[k].children :
         stack'[k].children[a] = stack'[k].children[b] => a = b
  BY <1>7 DEF Distinct
<1>10. \A k \in 1 .. Depth' - 1 :
         {stack'[k].children[i] : i \in DOMAIN stack'[k].children}
           = {m \in Parsed(k)' : doc'[m].tag \in Classes}
  BY <1>1, <1>7 DEF Values
<1>11. \A k \in 1 .. Depth' - 1 : \A m \in Parsed(k)' : Finished(m)'
  BY <1>7
<1> QED  BY <1>8, <1>9, <1>10, <1>11 DEF CollectInv, Distinct, Values

(* Every step keeps it.                                                    *)
LEMMA CollectStep ==
  ASSUME StackInv, HeapInv, ListInv, CollectInv, [Next]_vars
  PROVE  CollectInv'
<1>1. CASE Halts \/ UNCHANGED vars
  <2>1. /\ doc' = doc /\ stack' = stack /\ objects' = objects
        /\ phase' = "content" => phase = "content"
    BY <1>1, HaltsKeeps DEF vars
  <2>2. /\ \A m : Finished(m) => Finished(m)'
        /\ \A p : ChildrenOf(p)' = ChildrenOf(p)
    BY <2>1, FinishedKept, DocumentKept
  <2>3. \A k : Parsed(k)' = Parsed(k)
    BY <2>1 DEF Parsed, ChildrenOf, Nodes
  <2>4. Objects' = Objects /\ Depth' = Depth
    BY <2>1 DEF Objects, Depth
  <2> QED  BY <2>1, <2>2, <2>3, <2>4 DEF CollectInv, Distinct, Values
<1>2. Next => Open \/ Closes \/ Create \/ GiveChild \/ Halts
  BY DEF Next, Closes, Halts
<1>3. Next \/ UNCHANGED vars
  OBVIOUS
<1> QED  BY <1>1, <1>2, <1>3, CollectOpen, CollectCloses, CollectFills, Zenon

-----------------------------------------------------------------------------
(* The children an object has been given: all that are objects, or those   *)
(* the innermost call has taken from its list.                             *)
Given(n) ==
  {m \in ChildrenOf(n) :
     /\ doc[m].tag \in Classes
     /\ objects[n].active \/ m \notin Values(stack[1].children)}

(* An object has what it was given in its members and lists.               *)
FitInv ==
  \A n \in Objects : \A o, G :
    o = objects[n] /\ G = Given(n) => FitsMembers(o, G) /\ FitsLists(o, n, G)

(* A shape names the light it was given to, and no other.                  *)
LinkInv ==
  \A n \in Objects, p \in Nat :
    p = doc[n].parent =>
      objects[n].member["light"] =
        IF doc[n].tag = "shape" /\ p \in Objects /\ doc[p].tag = "light" /\ n \in Given(p)
          THEN p ELSE Null

(* While no object is changed nothing is given.                            *)
LEMMA GivenKept ==
  ASSUME StackInv, HeapInv,
         Open \/ CloseProperty \/ CloseTransform \/ CloseOp \/ Halts \/ UNCHANGED vars
  PROVE  doc' = doc /\ objects' = objects /\ \A n \in Objects : Given(n)' = Given(n)
<1>1. doc' = doc /\ objects' = objects /\ (phase = "content" \/ stack' = stack)
  <2>1. CASE Halts \/ UNCHANGED vars
    BY <2>1, HaltsKeeps DEF vars
  <2>2. CASE Open
    BY <2>2 DEF Open
  <2>3. CASE CloseProperty \/ CloseTransform \/ CloseOp
    BY <2>3 DEF CloseProperty, CloseTransform, CloseOp, Ready
  <2> QED  BY <2>1, <2>2, <2>3
<1>2. \A n : ChildrenOf(n)' = ChildrenOf(n)
  BY <1>1, DocumentKept
<1>3. phase = "content" => \A n \in Objects : objects[n].active
  BY DEF HeapInv
<1>4. ASSUME NEW n \in Objects  PROVE Given(n)' = Given(n)
  <2>1. CASE stack' = stack
    BY <1>1, <1>2, <2>1 DEF Given, Values
  <2>2. CASE phase = "content"
    <3>1. objects[n].active /\ objects'[n].active
      BY <1>1, <1>3, <2>2
    <3> QED  BY <1>1, <1>2, <3>1 DEF Given
  <2> QED  BY <1>1, <2>1, <2>2
<1> QED  BY <1>1, <1>4

(* A new object was given nothing (parser.cpp:183-190).                    *)
LEMMA GivenCreate ==
  ASSUME StackInv, HeapInv, CollectInv, Create, NEW t, t = stack[1].node
  PROVE  Given(t)' = {} /\ \A n \in Objects : Given(n)' = Given(n)
<1>1. /\ doc' = doc /\ stack' = stack /\ phase = "content" /\ Depth > 1
      /\ ~objects'[t].active /\ \A n \in Objects : objects'[n] = objects[n]
      /\ Depth \in Nat \ {0}
  BY CreateHeap, FillsKeeps DEF StackInv
<1>2. \A n : ChildrenOf(n)' = ChildrenOf(n)
  BY <1>1, DocumentKept
<1>3. Values(stack[1].children) = {m \in ChildrenOf(t) : doc[m].tag \in Classes}
  <2>1. 1 \in 1 .. Depth - 1 /\ Parsed(1) = ChildrenOf(t)
    BY <1>1, ParsedFills
  <2> QED  BY <1>1, <2>1 DEF CollectInv
<1>4. {stack'[1].children[i] : i \in DOMAIN stack'[1].children}
        = {m \in ChildrenOf(t) : doc[m].tag \in Classes}
  BY <1>1, <1>3 DEF Values
<1>5. Given(t)' = {}
  BY <1>1, <1>2, <1>4 DEF Given, Values
<1>6. ASSUME NEW n \in Objects  PROVE Given(n)' = Given(n)
  <2>1. objects[n].active /\ objects'[n].active
    BY <1>1 DEF HeapInv
  <2> QED  BY <1>1, <1>2, <2>1 DEF Given
<1> QED  BY <1>5, <1>6

(* The parent is given a child it had not (parser.cpp:201-205).            *)
LEMMA GivenGive ==
  ASSUME StackInv, HeapInv, ListInv, CollectInv, GiveChild,
         NEW n, n = stack[1].node, NEW c, c = stack[1].children[1]
  PROVE  /\ Given(n)' = Given(n) \cup {c} /\ c \notin Given(n)
         /\ \A l \in Objects \ {n} : Given(l)' = Given(l)
<1>1. /\ doc' = doc /\ stack'[1].children = Tail(stack[1].children) /\ Depth > 1
  BY GiveStack, FillsKeeps
<1>2. \A p : ChildrenOf(p)' = ChildrenOf(p)
  BY <1>1, DocumentKept
<1>3. /\ n \in Objects /\ ~objects[n].active /\ ~objects'[n].active /\ c \in Objects
      /\ doc[c].parent = n /\ stack[1].children # <<>> /\ stack[1].children \in Seq(Nat)
      /\ \A l \in Objects : objects'[l].active = objects[l].active
  BY GiveHeap
<1>4. c \in ChildrenOf(n) /\ doc[c].tag \in Classes
  <2>1. ClassOf[objects[c].type] = doc[c].tag /\ objects[c].type \in Types /\ c \in Nodes
    BY <1>3 DEF HeapInv, Object
  <2> QED  BY <1>3, <2>1 DEF ChildrenOf, Classes
<1>5. c \in Values(stack[1].children)
      /\ Values(Tail(stack[1].children)) = Values(stack[1].children) \ {c}
  <2>1. 1 \in 1 .. Depth - 1
    BY <1>1 DEF StackInv
  <2>2. Lists(stack[1].children, Values(stack[1].children))
    BY <2>1 DEF Lists, CollectInv
  <2> QED  BY <1>3, <2>2, ListsTail DEF Lists
<1>6. {stack'[1].children[i] : i \in DOMAIN stack'[1].children}
        = Values(stack[1].children) \ {c}
  BY <1>1, <1>5 DEF Values
<1>7. Given(n)' = Given(n) \cup {c} /\ c \notin Given(n)
  <2>1. Given(n)' = {m \in ChildrenOf(n) : doc[m].tag \in Classes /\ m \notin Values(stack[1].children) \ {c}}
    BY <1>1, <1>2, <1>3, <1>6 DEF Given, Values
  <2>2. Given(n) = {m \in ChildrenOf(n) : doc[m].tag \in Classes /\ m \notin Values(stack[1].children)}
    BY <1>3 DEF Given
  <2> QED  BY <1>4, <1>5, <2>1, <2>2
<1>8. ASSUME NEW l \in Objects \ {n}  PROVE Given(l)' = Given(l)
  <2>1. objects[l].active /\ objects'[l].active
    BY <1>3 DEF HeapInv
  <2> QED  BY <1>1, <1>2, <2>1 DEF Given
<1> QED  BY <1>7, <1>8

(* One that becomes active was given all (parser.cpp:207-208).             *)
LEMMA GivenActivate ==
  ASSUME StackInv, HeapInv, Activate
  PROVE  doc' = doc /\ \A n \in Objects : Given(n)' = Given(n)
<1>1. doc' = doc
  BY DEF Activate
<1>2. \A n : ChildrenOf(n)' = ChildrenOf(n)
  BY <1>1, DocumentKept
<1>3. /\ stack[1].children = <<>> /\ objects'[stack[1].node].active
      /\ \A l \in Objects \ {stack[1].node} : objects'[l] = objects[l]
  BY ActivateHeap
<1>4. ASSUME NEW n \in Objects  PROVE Given(n)' = Given(n)
  <2>1. CASE n = stack[1].node
    <3>1. \A m : m \notin Values(stack[1].children)
      BY <1>3 DEF Values
    <3>2. objects'[n].active
      BY <1>3, <2>1
    <3> QED  BY <1>1, <1>2, <3>1, <3>2 DEF Given
  <2>2. CASE n # stack[1].node
    <3>1. objects[n].active /\ objects'[n].active
      BY <1>3, <2>2 DEF HeapInv
    <3> QED  BY <1>1, <1>2, <3>1 DEF Given
  <2> QED  BY <2>1, <2>2
<1> QED  BY <1>1, <1>4

(* An active object has been given all its children that are objects.      *)
LEMMA GivenAll ==
  ASSUME NEW n, objects[n].active \/ stack[1].children = <<>>
  PROVE  Given(n) = {m \in ChildrenOf(n) : doc[m].tag \in Classes}
<1>1. objects[n].active \/ \A m : m \notin Values(stack[1].children)
  BY DEF Values
<1> QED  BY <1>1 DEF Given

(* What an active object was given, it points to.                          *)
LEMMA FitsGiven ==
  ASSUME FitInv, NEW n \in Objects
  PROVE  FitsMembers(objects[n], Given(n)) /\ FitsLists(objects[n], n, Given(n))
BY DEF FitInv

(* The shape of an area light is the child it was given.                   *)
LEMMA ShapeOfLight ==
  ASSUME HeapInv, FitInv, NEW l \in Objects, objects[l].type = "areaLight",
         objects[l].member["shape"] # Null
  PROVE  /\ objects[l].member["shape"] \in ChildrenOf(l)
         /\ doc[objects[l].member["shape"]].tag = "shape"
<1>1. FitsMembers(objects[l], Given(l))
  BY FitsGiven
<1>2. "shape" \in Single(objects[l].type) /\ "shape" \notin Defaulted(objects[l].type)
  BY SingleIs
<1>3. objects[l].member["shape"] \in Given(l) /\ doc[objects[l].member["shape"]].tag = "shape"
  BY <1>1, <1>2 DEF FitsMembers
<1> QED  BY <1>3 DEF Given

(* A shape that is in a child of a scene is that of an area light, and the *)
(* light points to it: of all classes only light and scene take a shape,   *)
(* and a scene takes no scene (scene.cpp:90-131, areaLight.cpp:13-25).     *)
LEMMA LightOfShape ==
  ASSUME StackInv, HeapInv, CollectInv, FitInv, NEW n \in Objects, objects[n].type = "scene",
         objects[n].active \/ stack[1].children = <<>>,
         NEW l \in ChildrenOf(n), NEW m \in Nodes, doc[m].parent = l, doc[m].tag = "shape"
  PROVE  l \in AreaLights(Given(n)) /\ l \in Objects /\ objects[l].member["shape"] = m
<1>1. /\ Finished(l) /\ l \in Nodes /\ m \in ChildrenOf(l) /\ l # 0
  BY Document DEF StackInv, CollectInv, ChildrenOf
<1>2. Sensible(l) /\ Sensible(m)
  BY <1>1 DEF Finished
<1>3. doc[l].tag \in Classes
  <2>1. doc[l].tag \in Tags
    BY <1>2 DEF Sensible
  <2>2. doc[l].tag \in Classes \cup {"invalid", "transform"} /\ (doc[l].tag = "transform" <=> doc[m].tag = "op")
    BY <1>1, <1>2 DEF Sensible
  <2>3. doc[m].tag # "op"
    OBVIOUS
  <2> QED  BY <2>1, <2>2, <2>3, TagsOfObjects DEF Tags
<1>4. l \in Objects /\ objects[l].active
  BY <1>1, <1>3 DEF Finished
<1>5. /\ FitsMembers(objects[l], Given(l)) /\ FitsMembers(objects[n], Given(n))
  BY <1>4, FitsGiven
<1>6. m \in Given(l) /\ l \in Given(n)
  <2>1. Given(l) = {c \in ChildrenOf(l) : doc[c].tag \in Classes}
        /\ Given(n) = {c \in ChildrenOf(n) : doc[c].tag \in Classes}
    BY <1>4, GivenAll
  <2>2. "shape" \in Classes
    BY TagsOfObjects
  <2> QED  BY <1>1, <1>3, <2>1, <2>2
<1>7. doc[m].tag \in Accepts(objects[l].type) /\ doc[l].tag \in Accepts("scene")
  BY <1>5, <1>6 DEF FitsMembers
<1>8. objects[l].type \in Types /\ ClassOf[objects[l].type] = doc[l].tag
      /\ objects[l].type = doc[l].type
  BY <1>4 DEF HeapInv, Object, CollectInv
<1>9. objects[l].type = "areaLight"
  <2>1. objects[l].type \in {"areaLight", "scene"}
    BY <1>7, SingleIs DEF Accepts
  <2>2. ClassOf["scene"] = "scene"
    BY DEF ClassOf
  <2>3. "scene" \notin Accepts("scene")
    BY SingleIs DEF Accepts
  <2> QED  BY <1>7, <1>8, <2>1, <2>2, <2>3
<1>10. doc[l].tag = "light"
  <2>1. ClassOf["areaLight"] = "light"
    BY DEF ClassOf
  <2> QED  BY <1>8, <1>9, <2>1
<1>11. objects[l].member["shape"] = m
  <2>1. doc[m].tag \in Single(objects[l].type)
    BY <1>9, SingleIs
  <2> QED  BY <1>5, <1>6, <2>1 DEF FitsMembers
<1> QED  BY <1>4, <1>6, <1>8, <1>9, <1>10, <1>11 DEF AreaLights

(* So a scene that becomes active finds each shape of its lights once, and *)
(* none that is its own (scene.cpp:30-44).                                 *)
LEMMA LightsLit ==
  ASSUME StackInv, HeapInv, CollectInv, FitInv, Activate, NEW t, t = stack[1].node,
         objects[t].type = "scene"
  PROVE  Lists(LitShapes(objects[t]), Lit(t)) /\ Tagged(Given(t), "shape") \cap Lit(t) = {}
<1> DEFINE x == objects[t]
           a == objects[t].areaLights
           s == LitShapes(objects[t])
<1>1. t \in Objects /\ stack[1].children = <<>> /\ ~Bare(x)
  BY ActivateHeap
<1>2. /\ s = [i \in DOMAIN a |-> objects[a[i]].member["shape"]]
      /\ \A i \in DOMAIN a : s[i] # Null
  BY <1>1 DEF LitShapes, Bare
<1>3. Values(a) = AreaLights(Given(t)) /\ Distinct(a)
  BY <1>1, FitsGiven DEF FitsLists, Lists
<1>4. Given(t) \subseteq ChildrenOf(t)
  BY DEF Given
<1>5. ASSUME NEW i \in DOMAIN a
      PROVE  /\ s[i] \in ChildrenOf(a[i]) /\ doc[s[i]].tag = "shape" /\ a[i] \in ChildrenOf(t)
  <2>1. a[i] \in AreaLights(Given(t))
    BY <1>3 DEF Values
  <2>2. a[i] \in ChildrenOf(t) /\ doc[a[i]].tag = "light" /\ doc[a[i]].type = "areaLight"
    BY <1>4, <2>1 DEF AreaLights
  <2>3. Finished(a[i])
    BY <1>1, <2>2 DEF CollectInv
  <2>4. a[i] \in Objects
    BY <2>2, <2>3, TagsOfObjects DEF Finished
  <2>5. objects[a[i]].type = "areaLight"
    BY <2>2, <2>4 DEF CollectInv
  <2> QED  BY <1>2, <2>2, <2>4, <2>5, ShapeOfLight
<1>6. Values(s) \subseteq Lit(t)
  <2>1. \A i \in DOMAIN a : s[i] \in Lit(t)
    <3> SUFFICES ASSUME NEW i \in DOMAIN a  PROVE s[i] \in Lit(t)
      OBVIOUS
    <3>1. s[i] \in Nodes /\ doc[s[i]].parent = a[i] /\ doc[s[i]].tag = "shape" /\ a[i] \in ChildrenOf(t)
      BY <1>5 DEF ChildrenOf
    <3> HIDE DEF s, a
    <3> QED  BY <3>1 DEF Lit
  <2>2. DOMAIN s = DOMAIN a
    BY <1>2
  <2> HIDE DEF s, a
  <2> QED  BY <2>1, <2>2 DEF Values
<1>7. ASSUME NEW m \in Lit(t)  PROVE m \in Values(s)
  <2>1. PICK l \in ChildrenOf(t) : m \in Nodes /\ doc[m].tag = "shape" /\ doc[m].parent = l
    BY DEF Lit
  <2>2. l \in AreaLights(Given(t)) /\ objects[l].member["shape"] = m
    BY <1>1, <2>1, LightOfShape
  <2>3. PICK i \in DOMAIN a : l = a[i]
    BY <1>3, <2>2 DEF Values
  <2> QED  BY <1>2, <2>2, <2>3 DEF Values
<1>8. Distinct(s)
  <2> SUFFICES ASSUME NEW i \in DOMAIN a, NEW k \in DOMAIN a, s[i] = s[k]  PROVE i = k
    BY <1>2 DEF Distinct
  <2>1. doc[s[i]].parent = a[i] /\ doc[s[k]].parent = a[k]
    BY <1>5 DEF ChildrenOf
  <2> QED  BY <1>3, <2>1 DEF Distinct
<1>9. Tagged(Given(t), "shape") \cap Lit(t) = {}
  <2> SUFFICES ASSUME NEW m \in Given(t), m \in Lit(t)  PROVE FALSE
    BY DEF Tagged
  <2>1. PICK l \in ChildrenOf(t) : doc[m].parent = l
    BY DEF Lit
  <2>2. doc[m].parent = t /\ doc[l].parent = t /\ l \in Nodes
    BY <1>4, <2>1 DEF ChildrenOf
  <2> QED  BY <2>1, <2>2, Document DEF StackInv
<1> QED  BY <1>6, <1>7, <1>8, <1>9 DEF Lists

(* Nothing is in the heap at the beginning.                                *)
LEMMA FitInit ==
  ASSUME Init
  PROVE  FitInv /\ LinkInv
<1>1. Objects = {}
  BY DEF Init, Objects
<1> QED  BY <1>1 DEF FitInv, LinkInv

(* While no object is changed, all fit.                                    *)
LEMMA FitKept ==
  ASSUME StackInv, HeapInv, FitInv, LinkInv,
         Open \/ CloseProperty \/ CloseTransform \/ CloseOp \/ Halts \/ UNCHANGED vars
  PROVE  FitInv' /\ LinkInv'
<1>1. doc' = doc /\ objects' = objects /\ \A n \in Objects : Given(n)' = Given(n)
  BY GivenKept
<1>2. /\ Objects' = Objects
      /\ \A o, G : FitsMembers(o, G)' <=> FitsMembers(o, G)
      /\ \A o, n, G : FitsLists(o, n, G)' <=> FitsLists(o, n, G)
  BY <1>1, FitsKept DEF Objects
<1>3. FitInv'
  BY <1>1, <1>2 DEF FitInv
<1>4. LinkInv'
  BY <1>1, <1>2 DEF LinkInv
<1> QED  BY <1>3, <1>4

(* A new object fits, with no child, and has no light.                     *)
LEMMA FitCreate ==
  ASSUME StackInv, HeapInv, CollectInv, FitInv, LinkInv, Create, NEW t, t = stack[1].node
  PROVE  FitInv' /\ LinkInv'
<1>1. /\ Objects' = Objects \cup {t} /\ t \notin Objects /\ t \in Nodes
      /\ objects'[t] = New(doc[t].type, stack[1].toWorld)
      /\ \A m \in Members : objects'[t].member[m] = Null
      /\ \A n \in Objects : n # t /\ objects'[n] = objects[n]
  BY CreateHeap
<1>2. Given(t)' = {} /\ \A n \in Objects : Given(n)' = Given(n)
  BY GivenCreate
<1>3. /\ doc' = doc /\ doc \in Files
      /\ \A o, G : FitsMembers(o, G)' <=> FitsMembers(o, G)
      /\ \A o, n, G : FitsLists(o, n, G)' <=> FitsLists(o, n, G)
  BY FitsKept, FillsKeeps DEF StackInv
<1>4. ASSUME NEW n \in Objects', NEW o, NEW G, o = objects'[n], G = Given(n)'
      PROVE  FitsMembers(o, G) /\ FitsLists(o, n, G)
  <2>1. CASE n = t
    BY <1>1, <1>2, <1>4, <2>1, FitsNew
  <2>2. CASE n \in Objects
    BY <1>1, <1>2, <1>4, <2>2 DEF FitInv
  <2> QED  BY <1>1, <2>1, <2>2
<1>5. ASSUME NEW n \in Objects', NEW p \in Nat, p = doc[n].parent
      PROVE  objects'[n].member["light"] =
               IF doc[n].tag = "shape" /\ p \in Objects' /\ doc[p].tag = "light" /\ n \in Given(p)'
                 THEN p ELSE Null
  <2>1. CASE n = t
    <3>1. objects'[n].member["light"] = Null
      BY <1>1, <2>1, TagsOfObjects DEF Members
    <3>2. p # t
      BY <1>1, <1>3, <1>5, <2>1, Document
    <3>3. p \notin Objects
      <4>1. Depth > 1 /\ Depth \in Nat
        BY FillsKeeps DEF StackInv
      <4>2. 1 \in 1 .. Depth - 1 /\ 2 \in 2 .. Depth /\ 1 + 1 = 2
        BY <4>1
      <4>3. doc[stack[1].node].parent = stack[1 + 1].node
        BY <4>2 DEF StackInv
      <4>4. stack[2].node \notin Objects
        BY <4>2 DEF HeapInv
      <4> QED  BY <1>5, <2>1, <4>2, <4>3, <4>4
    <3> QED  BY <1>1, <3>1, <3>2, <3>3
  <2>2. CASE n \in Objects
    <3>1. objects'[n].member["light"] =
            IF doc[n].tag = "shape" /\ p \in Objects /\ doc[p].tag = "light" /\ n \in Given(p)
              THEN p ELSE Null
      BY <1>1, <1>5, <2>2 DEF LinkInv
    <3> QED  BY <1>1, <1>2, <3>1
  <2> QED  BY <1>1, <2>1, <2>2
<1>6. FitInv'
  BY <1>3, <1>4 DEF FitInv
<1>7. LinkInv'
  BY <1>3, <1>5 DEF LinkInv
<1> QED  BY <1>6, <1>7

(* A member that is not of a class an object takes is not changed.         *)
LEMMA AddChildLight ==
  ASSUME NEW x \in Object, NEW c, objects[c].type \in Types, NEW o \in AddChild(x, c)
  PROVE  o.member["light"] = x.member["light"]
<1>1. x.type \in Types /\ x.member \in [Members -> Pointers]
  BY DEF Object
<1> DEFINE class == ClassOf[objects[c].type]
<1>2. Added(o, x, c, class)
  BY <1>1, AddChildCases
<1> HIDE DEF class
<1>3. "light" \notin Single(x.type) /\ "light" \in Members /\ "envMap" \in Members
  BY SingleIs, TagsOfObjects DEF Members
<1>4. CASE class \in Single(x.type) /\ o = [x EXCEPT !.member[class] = c]
  <2>1. class # "light"
    BY <1>3, <1>4
  <2> QED  BY <1>1, <1>3, <1>4, <2>1 DEF Object
<1>5. CASE o = [x EXCEPT !.shapes = Append(@, c)] \/ o = x
  BY <1>5 DEF Object
<1>6. CASE o = [x EXCEPT !.lights = Append(@, c), !.areaLights = Append(@, c)]
  BY <1>6 DEF Object
<1>7. CASE o = [x EXCEPT !.lights = Append(@, c), !.member["envMap"] = c]
  BY <1>1, <1>3, <1>7 DEF Object
<1> QED  BY <1>2, <1>4, <1>5, <1>6, <1>7 DEF Added

(* A child is given: both fit, and a shape given to a light names it       *)
(* (scene.cpp:90-131, shape.cpp:12-31, areaLight.cpp:13-25).               *)
LEMMA FitGive ==
  ASSUME StackInv, HeapInv, ListInv, CollectInv, FitInv, LinkInv, GiveChild,
         NEW n, n = stack[1].node, NEW c, c = stack[1].children[1]
  PROVE  FitInv' /\ LinkInv'
<1>1. /\ n \in Objects /\ ~objects[n].active /\ c \in Objects /\ c # n
      /\ doc[c].parent = n /\ c \in Nat /\ n \in Nat /\ Objects' = Objects
      /\ objects'[n] \in AddChild(objects[n], c)
      /\ objects'[c] = SetParent(objects[c], n)
      /\ \A l \in Objects \ {n, c} : objects'[l] = objects[l]
  BY GiveHeap
<1>2. /\ Given(n)' = Given(n) \cup {c} /\ c \notin Given(n)
      /\ \A l \in Objects \ {n} : Given(l)' = Given(l)
  BY GivenGive
<1>3. /\ doc' = doc /\ doc \in Files
      /\ \A o, G : FitsMembers(o, G)' <=> FitsMembers(o, G)
      /\ \A o, l, G : FitsLists(o, l, G)' <=> FitsLists(o, l, G)
  BY FitsKept, FillsKeeps DEF StackInv
<1>4. \A l \in Objects : /\ objects[l] \in Object /\ objects[l].type = doc[l].type
                         /\ objects[l].type \in Types /\ ClassOf[objects[l].type] = doc[l].tag
                         /\ Given(l) \subseteq Nat
  <2>1. \A l : ChildrenOf(l) \subseteq Nat
    BY <1>3, Document
  <2>2. \A l : Given(l) \subseteq ChildrenOf(l)
    BY DEF Given
  <2> QED  BY <2>1, <2>2 DEF HeapInv, Object, CollectInv
<1>5. ASSUME NEW l \in Objects', NEW o, NEW G, o = objects'[l], G = Given(l)'
      PROVE  FitsMembers(o, G) /\ FitsLists(o, l, G)
  <2>1. CASE l = n
    <3>1. /\ FitsMembers(objects[n], Given(n)) /\ FitsLists(objects[n], n, Given(n))
      BY <1>1, FitsGiven
    <3>2. o \in AddChild(objects[n], c) /\ G = Given(n) \cup {c}
      BY <1>1, <1>2, <1>5, <2>1
    <3>3. /\ objects[n] \in Object /\ Given(n) \subseteq Nat /\ objects[c].type = doc[c].type
          /\ doc[c].type \in Types /\ ClassOf[doc[c].type] = doc[c].tag
      BY <1>1, <1>4
    <3>4. FitsMembers(o, Given(n) \cup {c}) /\ FitsLists(o, n, Given(n) \cup {c})
      BY <1>1, <1>2, <3>1, <3>2, <3>3, FitsAdd
    <3> QED  BY <2>1, <3>2, <3>4
  <2>2. CASE l = c
    <3>1. /\ FitsMembers(objects[c], Given(c)) /\ FitsLists(objects[c], c, Given(c))
      BY <1>1, FitsGiven
    <3>2. o = SetParent(objects[c], n) /\ G = Given(c) /\ objects[c] \in Object
      BY <1>1, <1>2, <1>4, <1>5, <2>2
    <3> QED  BY <1>1, <2>2, <3>1, <3>2, FitsSetParent
  <2>3. CASE l \in Objects \ {n, c}
    <3>1. o = objects[l] /\ G = Given(l)
      BY <1>1, <1>2, <1>5, <2>3
    <3> QED  BY <2>3, <3>1, FitsGiven
  <2> QED  BY <1>1, <2>1, <2>2, <2>3
<1>6. ASSUME NEW l \in Objects, NEW p \in Nat, p = doc[l].parent
      PROVE  objects'[l].member["light"] =
               IF doc[l].tag = "shape" /\ p \in Objects /\ doc[p].tag = "light" /\ l \in Given(p)'
                 THEN p ELSE Null
  <2>1. objects[l].member["light"] =
          IF doc[l].tag = "shape" /\ p \in Objects /\ doc[p].tag = "light" /\ l \in Given(p)
            THEN p ELSE Null
    BY <1>6 DEF LinkInv
  <2>2. l # c => (p \in Objects => (l \in Given(p)' <=> l \in Given(p)))
    BY <1>2
  <2>3. CASE l = n
    <3>1. objects'[n].member["light"] = objects[n].member["light"]
      BY <1>1, <1>4, AddChildLight
    <3> QED  BY <1>1, <2>1, <2>2, <2>3, <3>1
  <2>4. CASE l = c
    <3>1. p = n /\ objects[c].member["light"] = Null
      BY <1>1, <1>2, <1>6, <2>1, <2>4
    <3>2. objects'[c].member["light"] =
            IF ClassOf[objects[c].type] = "shape" /\ ClassOf[objects[n].type] = "light"
              THEN n ELSE objects[c].member["light"]
      <4>1. /\ FitsMembers(objects[c], Given(c)) /\ FitsLists(objects[c], c, Given(c))
            /\ objects[c] \in Object
        BY <1>1, <1>4, FitsGiven
      <4> QED  BY <1>1, <4>1, FitsSetParent
    <3>3. ClassOf[objects[c].type] = doc[c].tag /\ ClassOf[objects[n].type] = doc[n].tag
      BY <1>1, <1>4
    <3>4. c \in Given(n)'
      BY <1>2
    <3> QED  BY <1>1, <2>4, <3>1, <3>2, <3>3, <3>4
  <2>5. CASE l \in Objects \ {n, c}
    BY <1>1, <2>1, <2>2, <2>5
  <2> QED  BY <2>3, <2>4, <2>5
<1>7. FitInv'
  BY <1>3, <1>5 DEF FitInv
<1>8. LinkInv'
  BY <1>1, <1>3, <1>6 DEF LinkInv
<1> QED  BY <1>7, <1>8

(* An object becomes active: a scene has the shapes of its lights.         *)
LEMMA FitActive ==
  ASSUME StackInv, HeapInv, ListInv, CollectInv, FitInv, LinkInv, Activate,
         NEW t, t = stack[1].node
  PROVE  FitInv' /\ LinkInv'
<1>1. /\ t \in Objects /\ ~objects[t].active /\ ~Rejected(objects[t])
      /\ LitShapes(objects[t]) \in Seq(Pointers)
      /\ Objects' = Objects /\ objects'[t] = Activated(objects[t])
      /\ \A l \in Objects \ {t} : objects'[l] = objects[l]
  BY ActivateHeap
<1>2. doc' = doc /\ \A l \in Objects : Given(l)' = Given(l)
  BY GivenActivate
<1>3. /\ doc \in Files
      /\ \A o, G : FitsMembers(o, G)' <=> FitsMembers(o, G)
      /\ \A o, l, G : FitsLists(o, l, G)' <=> FitsLists(o, l, G)
  BY <1>2, FitsKept DEF StackInv
<1>4. /\ FitsMembers(Activated(objects[t]), Given(t))
      /\ FitsLists(Activated(objects[t]), t, Given(t))
      /\ Activated(objects[t]).member["light"] = objects[t].member["light"]
  <2>1. objects[t] \in Object
    BY <1>1 DEF HeapInv
  <2>2. Given(t) \subseteq Nat
    <3>1. ChildrenOf(t) \subseteq Nat
      BY <1>3, Document
    <3> QED  BY <3>1 DEF Given
  <2>3. objects[t].type = "scene" =>
          Lists(LitShapes(objects[t]), Lit(t)) /\ Tagged(Given(t), "shape") \cap Lit(t) = {}
    BY LightsLit
  <2>4. FitsMembers(objects[t], Given(t)) /\ FitsLists(objects[t], t, Given(t))
    BY <1>1, FitsGiven
  <2> QED  BY <1>1, <2>1, <2>2, <2>3, <2>4, FitsActivate
<1>5. ASSUME NEW l \in Objects', NEW o, NEW G, o = objects'[l], G = Given(l)'
      PROVE  FitsMembers(o, G) /\ FitsLists(o, l, G)
  <2>1. l \in Objects /\ G = Given(l)
    BY <1>1, <1>2, <1>5
  <2>2. CASE l = t
    BY <1>1, <1>4, <1>5, <2>1, <2>2
  <2>3. CASE l # t
    BY <1>1, <1>5, <2>1, <2>3, FitsGiven
  <2> QED  BY <2>2, <2>3
<1>6. \A l \in Objects : objects'[l].member["light"] = objects[l].member["light"]
  BY <1>1, <1>4
<1>7. FitInv'
  BY <1>2, <1>3, <1>5 DEF FitInv
<1>8. LinkInv'
  BY <1>1, <1>2, <1>6 DEF LinkInv
<1> QED  BY <1>7, <1>8

(* Every step keeps both.                                                  *)
LEMMA FitStep ==
  ASSUME StackInv, HeapInv, ListInv, CollectInv, FitInv, LinkInv, [Next]_vars
  PROVE  FitInv' /\ LinkInv'
<1>1. Next \/ UNCHANGED vars
  OBVIOUS
<1>2. Next => Open \/ Closes \/ Create \/ GiveChild \/ Halts
  BY DEF Next, Closes, Halts
<1>3. CASE Open \/ CloseProperty \/ CloseTransform \/ CloseOp \/ Halts \/ UNCHANGED vars
  BY <1>3, FitKept, Zenon
<1>4. \A t, c : t = stack[1].node /\ c = stack[1].children[1] =>
        (Create \/ GiveChild \/ Activate => FitInv' /\ LinkInv')
  BY FitCreate, FitGive, FitActive, Zenon
<1>5. CASE Create \/ GiveChild \/ Activate
  BY <1>4, <1>5, Zenon
<1> QED  BY <1>1, <1>2, <1>3, <1>5, Zenon DEF Closes

-----------------------------------------------------------------------------
(* The classes that have one type, and the types of lights.                *)
LEMMA TypesOfClasses ==
  ASSUME NEW t \in Types
  PROVE  /\ ClassOf[t] = "camera" => t = "perspective"
         /\ ClassOf[t] = "shape" => t = "mesh"
         /\ ClassOf[t] = "light" => t \in {"areaLight", "infiniteLight"}
         /\ t = "scene" => ClassOf[t] = "scene"
BY DEF ClassOf, Types

(* A child of an object, if its element is one of the classes, is an       *)
(* active object of the type of its element.                               *)
LEMMA ChildActive ==
  ASSUME HeapInv, CollectInv, NEW n \in Objects, NEW m \in ChildrenOf(n), doc[m].tag \in Classes
  PROVE  /\ m \in Objects /\ objects[m].active /\ objects[m].type \in Types
         /\ ClassOf[objects[m].type] = doc[m].tag
<1>1. Finished(m)
  BY DEF CollectInv
<1>2. m \in Objects /\ objects[m].active
  BY <1>1 DEF Finished
<1> QED  BY <1>2 DEF HeapInv, Object

(* The shapes a scene lists are active meshes.                             *)
LEMMA ShapeOfScene ==
  ASSUME StackInv, HeapInv, CollectInv, FitInv,
         NEW s \in Objects, objects[s].type = "scene", objects[s].active,
         NEW i \in DOMAIN objects[s].shapes, NEW m, m = objects[s].shapes[i]
  PROVE  /\ m \in Objects /\ m \in Nodes /\ doc[m].tag = "shape"
         /\ objects[m].active /\ objects[m].type = "mesh"
<1>1. m \in Tagged(Given(s), "shape") \cup Lit(s)
  BY FitsGiven DEF FitsLists, Lists, Values
<1>2. doc[m].tag = "shape" /\ doc[m].tag \in Classes
  BY <1>1, TagsOfObjects DEF Tagged, Lit
<1>3. \E n \in Objects : m \in ChildrenOf(n)
  <2>1. CASE m \in Tagged(Given(s), "shape")
    BY <2>1 DEF Tagged, Given
  <2>2. CASE m \in Lit(s)
    <3>1. PICK l \in ChildrenOf(s) : m \in Nodes /\ doc[m].parent = l
      BY <2>2 DEF Lit
    <3>2. l \in Objects
      BY <1>2, <3>1, LightOfShape
    <3> QED  BY <3>1, <3>2 DEF ChildrenOf
  <2> QED  BY <1>1, <2>1, <2>2
<1> QED  BY <1>2, <1>3, ChildActive, TypesOfClasses DEF ChildrenOf

(* A scene has what it needs: it is refused without camera and integrator, *)
(* and defaults are made for the rest (scene.cpp:30-49,                    *)
(* perspective.cpp:40-87, shape.cpp:4-10).                                 *)
LEMMA SceneUsable ==
  ASSUME StackInv, HeapInv, CollectInv, FitInv,
         NEW s \in Objects, objects[s].type = "scene", objects[s].active
  PROVE  Usable(s)
<1> DEFINE x == objects[s]
           G == Given(s)
<1>1. /\ FitsMembers(x, G) /\ FitsLists(x, s, G)
      /\ G = {m \in ChildrenOf(s) : doc[m].tag \in Classes}
  BY FitsGiven, GivenAll
<1>2. x.member["camera"] # Null /\ x.member["integrator"] # Null
  BY <1>1 DEF FitsLists
<1>3. x.member["sampler"] # Null
  BY <1>1, SingleIs DEF FitsMembers
<1>4. objects[x.member["camera"]].member["rfilter"] # Null
  <2> DEFINE c == x.member["camera"]
  <2>1. "camera" \in Single(x.type) /\ "camera" \notin Defaulted(x.type)
    BY SingleIs
  <2>2. c \in G /\ doc[c].tag = "camera"
    BY <1>1, <1>2, <2>1 DEF FitsMembers
  <2>3. c \in ChildrenOf(s) /\ doc[c].tag \in Classes
    BY <1>1, <2>2
  <2> HIDE DEF c
  <2>4. c \in Objects /\ objects[c].active /\ objects[c].type = "perspective"
    BY <2>2, <2>3, ChildActive, TypesOfClasses
  <2>5. FitsMembers(objects[c], Given(c))
    BY <2>4, FitsGiven
  <2> QED  BY <2>4, <2>5, SingleIs DEF FitsMembers, c
<1>5. ASSUME NEW i \in DOMAIN x.shapes, NEW m, m = x.shapes[i]
      PROVE  objects[m].member["bsdf"] # Null
  <2>1. m \in Objects /\ objects[m].active /\ objects[m].type = "mesh"
    BY <1>5, ShapeOfScene
  <2>2. FitsMembers(objects[m], Given(m))
    BY <2>1, FitsGiven
  <2> QED  BY <2>1, <2>2, SingleIs DEF FitsMembers
<1> QED  BY <1>2, <1>3, <1>4, <1>5 DEF Usable

(* It lists the shapes of the document that are its own or a light's.      *)
LEMMA SceneLists ==
  ASSUME StackInv, HeapInv, CollectInv, FitInv,
         NEW s \in Objects, objects[s].type = "scene", objects[s].active
  PROVE  ListsEachShape(s)
<1> DEFINE list == objects[s].shapes
           S == {n \in Nodes : /\ doc[n].tag = "shape"
                               /\ \/ doc[n].parent = s
                                  \/ \E l \in ChildrenOf(s) : doc[n].parent = l}
<1>1. Lists(list, Tagged(Given(s), "shape") \cup Lit(s))
  BY FitsGiven DEF FitsLists
<1>2. Tagged(Given(s), "shape") = {n \in ChildrenOf(s) : doc[n].tag = "shape"}
  BY GivenAll, TagsOfObjects DEF Tagged
<1>3. Tagged(Given(s), "shape") \cup Lit(s) = S
  BY <1>2 DEF Lit, ChildrenOf
<1> HIDE DEF list
<1>4. Values(list) = S /\ Distinct(list)
  BY <1>1, <1>3 DEF Lists
<1> QED  BY <1>4 DEF Values, Distinct, ListsEachShape, list

(* A shape and its light name each other (shape.cpp:12-17, light.h).       *)
LEMMA ScenePaired ==
  ASSUME StackInv, HeapInv, CollectInv, FitInv, LinkInv,
         NEW s \in Objects, objects[s].type = "scene", objects[s].active
  PROVE  Paired(s)
<1>1. /\ FitsLists(objects[s], s, Given(s)) /\ Given(s) \subseteq ChildrenOf(s)
  BY FitsGiven DEF Given
<1>2. "shape" \in Classes /\ "light" \in Classes /\ Null \notin Nat /\ doc \in Files
  BY TagsOfObjects, ParserAssumption DEF StackInv
<1>3. ASSUME NEW k \in DOMAIN objects[s].lights, NEW l, l = objects[s].lights[k]
      PROVE  /\ l \in Objects /\ l \in Nat /\ objects[l].active /\ doc[l].tag = "light"
             /\ objects[l].type \in {"areaLight", "infiniteLight"}
  <2>1. l \in Tagged(Given(s), "light")
    BY <1>1, <1>3 DEF FitsLists, Lists, Values
  <2>2. l \in ChildrenOf(s) /\ doc[l].tag = "light"
    BY <1>1, <2>1 DEF Tagged
  <2> QED  BY <1>2, <2>2, ChildActive, TypesOfClasses, Document
<1>4. ASSUME NEW i \in DOMAIN objects[s].shapes, NEW m, m = objects[s].shapes[i]
      PROVE  m \in Objects /\ m \in Nat /\ doc[m].tag = "shape" /\ doc[m].parent \in Nat
  BY <1>2, <1>4, ShapeOfScene, Document
<1>5. ASSUME NEW m \in Objects, m \in Nat, doc[m].parent \in Nat, doc[m].tag = "shape",
             NEW l \in Objects, l \in Nat, objects[l].active, doc[l].tag = "light",
             objects[l].type \in {"areaLight", "infiniteLight"}
      PROVE  objects[m].member["light"] = l <=> objects[l].member["shape"] = m
  <2>1. objects[m].member["light"] =
          IF doc[m].parent \in Objects /\ doc[doc[m].parent].tag = "light" /\ m \in Given(doc[m].parent)
            THEN doc[m].parent ELSE Null
    BY <1>5 DEF LinkInv
  <2>2. FitsMembers(objects[l], Given(l))
    BY FitsGiven
  <2>3. ASSUME objects[m].member["light"] = l  PROVE objects[l].member["shape"] = m
    <3>1. m \in Given(l)
      BY <1>2, <1>5, <2>1, <2>3
    <3>2. doc[m].tag \in Accepts(objects[l].type)
      BY <2>2, <3>1 DEF FitsMembers
    <3>3. "shape" \in Single(objects[l].type)
      BY <1>5, <3>2, SingleIs DEF Accepts
    <3> QED  BY <1>5, <2>2, <3>1, <3>3 DEF FitsMembers
  <2>4. ASSUME objects[l].member["shape"] = m  PROVE objects[m].member["light"] = l
    <3>1. objects[l].member["shape"] # Null
      BY <1>2, <1>5, <2>4
    <3>2. objects[l].type = "areaLight"
      BY <2>2, <3>1 DEF FitsMembers
    <3>3. m \in ChildrenOf(l)
      BY <2>4, <3>1, <3>2, ShapeOfLight
    <3>4. doc[m].parent = l /\ m \in Given(l)
      BY <1>2, <1>5, <3>3, GivenAll DEF ChildrenOf
    <3> QED  BY <1>5, <2>1, <3>4
  <2> QED  BY <2>3, <2>4
<1>6. ASSUME NEW i \in DOMAIN objects[s].shapes, NEW k \in DOMAIN objects[s].lights,
             NEW m, m = objects[s].shapes[i], NEW l, l = objects[s].lights[k]
      PROVE  objects[m].member["light"] = l <=> objects[l].member["shape"] = m
  <2>1. m \in Objects /\ m \in Nat /\ doc[m].tag = "shape" /\ doc[m].parent \in Nat
    BY <1>4, <1>6
  <2>2. /\ l \in Objects /\ l \in Nat /\ objects[l].active /\ doc[l].tag = "light"
        /\ objects[l].type \in {"areaLight", "infiniteLight"}
    BY <1>3, <1>6
  <2> QED  BY <1>5, <2>1, <2>2
<1> QED  BY <1>6 DEF Paired

(* Every scene the parser has completed is one its users can work with:    *)
(* nothing they follow is null, every shape of the document that is its    *)
(* own or an area light's is listed exactly once, and a shape and its      *)
(* light name each other; whatever is nested in the document, in whatever  *)
(* order (scene.cpp:30-131, perspective.cpp:40-87, shape.cpp:4-31).        *)
THEOREM ScenesComplete == Spec => []SceneComplete
<1> DEFINE IInv == /\ StackInv /\ HeapInv /\ ListInv
                   /\ CollectInv /\ FitInv /\ LinkInv
<1>1. Init => IInv
  BY StackInit, HeapInit, CollectInit, FitInit
<1>2. IInv /\ [Next]_vars => IInv'
  BY StackStep, HeapStep, CollectStep, FitStep
<1>3. IInv => SceneComplete
  BY SceneUsable, SceneLists, ScenePaired DEF SceneComplete
<1> HIDE DEF IInv
<1> QED  BY <1>1, <1>2, <1>3, PTL DEF Spec
=============================================================================
