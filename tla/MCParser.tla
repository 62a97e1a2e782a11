------------------------------ MODULE MCParser ------------------------------
(* Small documents for Parser: see MCParser.cfg.                           *)
EXTENDS ParserProps

Of(type) == Node(ClassOf[type], type, 0)
Plain(tag) == Node(tag, "none", 0)

(* Elements as they should be, and a few that should not: an unknown tag,  *)
(* a type no class has, types of another class than the tag says, a flaw   *)
(* in an object and in an operation.                                       *)
Sound == {Of(t) : t \in Types} \cup {Plain(t) : t \in {"property", "transform", "op"}}
Unsound ==
  {Plain("unknown"), Node("shape", "unknown", 0), Node("shape", "areaLight", 0),
   Node("camera", "mesh", 0), [Of("mesh") EXCEPT !.flaw = TRUE],
   [Plain("op") EXCEPT !.flaw = TRUE]}

(* Elements may follow: below the last one, or below one of its ancestors. *)
Under(d, n) ==
  LET up[m \in 0 .. Len(d)] == IF m = 0 THEN {} ELSE {m} \cup up[d[m].parent]
  IN  up[n]
Longer(D, elements) ==
  {d \o <<[e EXCEPT !.parent = p]>> : <<d, e, p>> \in
     {<<x, y, z>> \in D \X elements \X (1 .. 8) : z \in Under(x, Len(x))}}

(* Of the elements that have no place in a scene the small documents have  *)
(* enough.                                                                 *)
Placed == Sound \ {Of("scene"), Of("ttest")}

Rendered == <<Of("scene"), [Of("whitted") EXCEPT !.parent = 1], [Of("perspective") EXCEPT !.parent = 1]>>

(* Whole small documents, and scenes that have what a scene needs.         *)
Small == Longer(Longer({<<e>> : e \in Sound \cup Unsound}, Sound \cup Unsound), Sound)
Larger == Longer(Longer(Longer({Rendered}, Placed \cup Unsound), Placed), Placed)
MCFiles == Small \cup Larger
=============================================================================
