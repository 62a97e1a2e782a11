-------------------------------- MODULE Parser --------------------------------
(***************************************************************************)
(* Reading a scene description: loadFromXML with its recursive parseTag    *)
(* (core/parser.cpp), the factory and the defaults of Object               *)
(* (core/object.h, object.cpp), and the addChild, setParent and activate   *)
(* of the classes a scene is made of.                                      *)
(*                                                                         *)
(* A document is a sequence of nodes in the order of the file; each names  *)
(* its parent (0 for the root), its tag, its type attribute, and whether   *)
(* it has a flaw: an attribute too many or missing, a value that cannot be *)
(* converted, a property its constructor or its activation rejects.  An    *)
(* object is named by its node.  Of the properties only "toWorld" is kept, *)
(* as the sequence of the operations multiplied into it.                   *)
(***************************************************************************)
EXTENDS Integers, Sequences

CONSTANTS Files,    \* the documents that may be read
          Null,     \* a null pointer
          Default   \* an object made by activate(), not by the parser

(* A file that can be read has an element, and an element is written after *)
(* the beginning of the one it is in.                                      *)
ASSUME ParserAssumption ==
  /\ \A d \in Files :
       /\ d \in Seq([tag : STRING, type : STRING, parent : Nat, flaw : BOOLEAN])
       /\ d # <<>>
       /\ \A n \in DOMAIN d : d[n].parent < n
  /\ Null \notin Nat /\ Default \notin Nat \cup {Null}

VARIABLES doc,        \* the document read
          stack,      \* the active calls of parseTag, the innermost first
          transform,  \* the variable shared by all calls
          objects,    \* the heap
          phase       \* what the innermost call does, or how the parser ended

vars == <<doc, stack, transform, objects, phase>>

(* The registered types, with the class of each.                           *)
ClassOf ==
  [scene |-> "scene", mesh |-> "shape", diffuse |-> "bsdf",
   areaLight |-> "light", infiniteLight |-> "light", perspective |-> "camera",
   whitted |-> "integrator", independent |-> "sampler",
   gaussian |-> "rfilter", ttest |-> "test"]

Types == DOMAIN ClassOf
Classes == {ClassOf[t] : t \in Types}
Tags == Classes \cup {"property", "transform", "op"}

Node(tag, type, parent) == [tag |-> tag, type |-> type, parent |-> parent, flaw |-> FALSE]

Nodes == DOMAIN doc
ChildrenOf(n) == {m \in Nodes : doc[m].parent = n}
First(S) == CHOOSE n \in S : \A m \in S : n <= m

(* A call of parseTag: its node, the child nodes it has yet to parse, the  *)
(* child objects it has, the transform in its property list.               *)
Frame(n) == [node |-> n, left |-> ChildrenOf(n), children |-> <<>>, toWorld |-> <<>>]

Top == Head(stack)
This == doc[Top.node]

(* An object: the members that point to one object, and the three lists of *)
(* a scene.                                                                *)
Members == Classes \cup {"envMap"}

New(type, toWorld) ==
  [type |-> type, toWorld |-> toWorld, active |-> FALSE,
   member |-> [m \in Members |-> Null],
   shapes |-> <<>>, lights |-> <<>>, areaLights |-> <<>>]

(* loadFromXML calls parseTag for the first node, without a parent.        *)
Init ==
  /\ doc \in Files
  /\ stack = <<[node |-> 0, left |-> {1}, children |-> <<>>, toWorld |-> <<>>]>>
  /\ transform = <<>>
  /\ objects = <<>>
  /\ phase = "content"

-----------------------------------------------------------------------------
Upcoming == First(Top.left)

(* The safety checks at the head of parseTag.                              *)
Sensible(n) ==
  LET tag == doc[n].tag
      parent == IF doc[n].parent = 0 THEN "invalid" ELSE doc[doc[n].parent].tag
  IN  /\ tag \in Tags
      /\ parent = "invalid" => tag \in Classes
      /\ parent = "transform" <=> tag = "op"
      /\ parent \in Classes \cup {"invalid", "transform"}

(* Faulty variant: the transform is not set to the identity.               *)
EnteredKept(n) == transform

Entered(n) == IF doc[n].tag = "transform" THEN <<>> ELSE transform

(* parseTag calls itself for the next child, or throws there.              *)
Open ==
  /\ phase = "content"
  /\ Top.left # {}
  /\ Sensible(Upcoming)
  /\ stack' = <<Frame(Upcoming), [Top EXCEPT !.left = @ \ {Upcoming}]>> \o Tail(stack)
  /\ transform' = Entered(Upcoming)
  /\ UNCHANGED <<doc, objects, phase>>

OpenThrows ==
  /\ phase = "content"
  /\ Top.left # {}
  /\ ~Sensible(Upcoming)
  /\ phase' = "error"
  /\ UNCHANGED <<doc, stack, transform, objects>>

(* All children are parsed: the rest of the call, which is in a try block. *)
Ready(tags) ==
  /\ phase = "content"
  /\ Top.left = {}
  /\ Top.node # 0
  /\ This.tag \in tags

CloseThrows ==
  /\ Ready(Tags)
  /\ This.flaw
  /\ phase' = "error"
  /\ UNCHANGED <<doc, stack, transform, objects>>

(* The object a call returns, if any, is put in the list of its caller.    *)
(* Faulty variant: whatever the call returns is.                           *)
ReturnedAlways == <<Top.node>>

Returned == IF This.tag \in Classes THEN <<Top.node>> ELSE <<>>

Return(toWorld) ==
  stack' = <<[stack[2] EXCEPT !.children = @ \o Returned, !.toWorld = toWorld]>>
           \o Tail(Tail(stack))

CloseProperty ==
  /\ Ready({"property"})
  /\ ~This.flaw
  /\ Return(stack[2].toWorld)
  /\ UNCHANGED <<doc, transform, objects, phase>>

CloseTransform ==
  /\ Ready({"transform"})
  /\ ~This.flaw
  /\ Return(transform)
  /\ UNCHANGED <<doc, transform, objects, phase>>

CloseOp ==
  /\ Ready({"op"})
  /\ ~This.flaw
  /\ transform' = <<Top.node>> \o transform
  /\ Return(stack[2].toWorld)
  /\ UNCHANGED <<doc, objects, phase>>

(* An object is created with its property list, unless no class has that   *)
(* name.                                                                   *)
Create ==
  /\ Ready(Classes)
  /\ ~This.flaw
  /\ This.type \in Types
  /\ ClassOf[This.type] = This.tag
  /\ objects' = [n \in DOMAIN objects \cup {Top.node} |->
                   IF n = Top.node THEN New(This.type, Top.toWorld) ELSE objects[n]]
  /\ phase' = "children"
  /\ UNCHANGED <<doc, stack, transform>>

(* One of another class is printed in the message of the exception.  The   *)
(* members that toString() follows are null at that time in these types.   *)
Unprintable == {"scene", "areaLight", "perspective"}

CreateThrows ==
  /\ Ready(Classes)
  /\ ~This.flaw
  /\ This.type \in Types => ClassOf[This.type] # This.tag
  /\ phase' = IF This.type \in Unprintable THEN "crash" ELSE "error"
  /\ UNCHANGED <<doc, stack, transform, objects>>

-----------------------------------------------------------------------------
(* addChild of each class: the members that take one object of a class.    *)
Single(type) ==
  CASE type = "scene" -> {"sampler", "camera", "integrator"}
    [] type = "perspective" -> {"rfilter"}
    [] type = "mesh" -> {"bsdf"}
    [] type = "areaLight" -> {"shape"}
    [] OTHER -> {}

(* Faulty variant: a member is replaced.                                   *)
VacantAlways(o, m) == TRUE

Vacant(o, m) == o.member[m] = Null

(* What the parent is after addChild(c); the set is empty if that throws.  *)
AddSingle(o, m, c) == IF Vacant(o, m) THEN {[o EXCEPT !.member[m] = c]} ELSE {}

AddLight(o, c) ==
  LET added == [o EXCEPT !.lights = Append(@, c)]
  IN  CASE objects[c].type = "areaLight" -> {[added EXCEPT !.areaLights = Append(@, c)]}
        [] objects[c].type = "infiniteLight" -> AddSingle(added, "envMap", c)
        [] OTHER -> {added}

AddChild(o, c) ==
  LET class == ClassOf[objects[c].type]
  IN  CASE class \in Single(o.type) -> AddSingle(o, class, c)
        [] o.type = "scene" /\ class = "shape" -> {[o EXCEPT !.shapes = Append(@, c)]}
        [] o.type = "scene" /\ class = "light" -> AddLight(o, c)
        [] o.type = "ttest" /\ class \in {"bsdf", "scene"} -> {o}
        [] OTHER -> {}

(* Faulty variant: Shape does not override the empty default.              *)
SetParentDefault(child, parent) == child

(* setParent: a shape remembers the light it belongs to.                   *)
SetParent(child, parent) ==
  IF ClassOf[child.type] = "shape" /\ ClassOf[objects[parent].type] = "light"
    THEN [child EXCEPT !.member["light"] = parent] ELSE child

(* One iteration of the loop over the children.                            *)
GiveChild ==
  /\ phase = "children"
  /\ Top.children # <<>>
  /\ LET n == Top.node
         c == Head(Top.children)
     IN  \E o \in AddChild(objects[n], c) :
           objects' = [objects EXCEPT ![n] = o, ![c] = SetParent(@, n)]
  /\ stack' = <<[Top EXCEPT !.children = Tail(@)]>> \o Tail(stack)
  /\ UNCHANGED <<doc, transform, phase>>

GiveChildThrows ==
  /\ phase = "children"
  /\ Top.children # <<>>
  /\ AddChild(objects[Top.node], Head(Top.children)) = {}
  /\ phase' = "error"
  /\ UNCHANGED <<doc, stack, transform, objects>>

-----------------------------------------------------------------------------
(* activate of each class: a default object where one is missing, and the  *)
(* shapes of the area lights of a scene.                                   *)
Defaulted(type) ==
  CASE type = "scene" -> {"sampler"}
    [] type = "perspective" -> {"rfilter"}
    [] type = "mesh" -> {"bsdf"}
    [] OTHER -> {}

LitShapes(o) == [i \in DOMAIN o.areaLights |-> objects[o.areaLights[i]].member["shape"]]

Rejected(o) == o.type = "scene" /\ Null \in {o.member["integrator"], o.member["camera"]}
Bare(o) == \E i \in DOMAIN o.areaLights : LitShapes(o)[i] = Null

Activated(o) ==
  [o EXCEPT !.active = TRUE,
            !.member = [m \in Members |->
                          IF m \in Defaulted(o.type) /\ @[m] = Null THEN Default ELSE @[m]],
            !.shapes = @ \o LitShapes(o)]

Activating == phase = "children" /\ Top.children = <<>>

(* Classes that do not override activate() inherit one that does nothing   *)
(* (object.cpp:28), although object.h:55 announces an exception.           *)
Activate ==
  /\ Activating
  /\ ~Rejected(objects[Top.node])
  /\ ~Bare(objects[Top.node])
  /\ objects' = [objects EXCEPT ![Top.node] = Activated(@)]
  /\ phase' = "content"
  /\ Return(stack[2].toWorld)
  /\ UNCHANGED <<doc, transform>>

(* A scene without integrator or camera is refused; an area light without  *)
(* a shape makes it follow a null pointer.                                 *)
ActivateThrows ==
  /\ Activating
  /\ Rejected(objects[Top.node])
  /\ phase' = "error"
  /\ UNCHANGED <<doc, stack, transform, objects>>

ActivateCrashes ==
  /\ Activating
  /\ ~Rejected(objects[Top.node])
  /\ Bare(objects[Top.node])
  /\ phase' = "crash"
  /\ UNCHANGED <<doc, stack, transform, objects>>

LoadReturns ==
  /\ phase = "content"
  /\ Top.node = 0
  /\ Top.left = {}
  /\ phase' = "returned"
  /\ UNCHANGED <<doc, stack, transform, objects>>

Next ==
  \/ Open \/ OpenThrows
  \/ CloseThrows \/ CloseProperty \/ CloseTransform \/ CloseOp
  \/ Create \/ CreateThrows
  \/ GiveChild \/ GiveChildThrows
  \/ Activate \/ ActivateThrows \/ ActivateCrashes
  \/ LoadReturns

(* The thread that loads a scene runs on.                                  *)
Spec == Init /\ [][Next]_vars /\ WF_vars(Next)
=============================================================================
