----------------------------- MODULE ViewerProps -----------------------------
(***************************************************************************)
(* What the viewer guarantees, and as long as what it guarantees it.       *)
(***************************************************************************)
EXTENDS Viewer

Contents == {"none", "garbage", "partial", "complete", "loaded"}

(* Every variable of the viewer keeps its type, and whatever was rendered  *)
(* had a scene to read: no render starts before a first scene was loaded,  *)
(* or with the null pointer that m_scene is until then (viewer.cpp:390).   *)
ViewerTypeOK ==
  /\ process \in {"starting", "looping", "closing", "deleted", "ended"}
  /\ fault \in {"none", "nullImage", "freedImage", "freedScene", "freedViewer"}
  /\ scene \in Scenes \cup {NoScene}
  /\ resultImage \in Images \cup {NoImage}
  /\ renderingDone \in BOOLEAN
  /\ saveEnabled \in BOOLEAN
  /\ used \subseteq Scenes \cup Images
  /\ freed \subseteq used
  /\ content \in [Images -> Contents]
  /\ job \in [Images -> {"none", "clear", "fill", "finish", "ended"}]
  /\ source \in [Images -> Scenes \cup {NoScene}]
  /\ \A i \in Images : job[i] # "none" => source[i] \in Scenes
  /\ shown \in (Images \cup {NoImage}) \X Contents
  /\ disturbed \in BOOLEAN

(* The pointers of the viewer are null or point to live objects, also      *)
(* after a scene file that cannot be parsed was opened: the user interface *)
(* neither draws, renders nor deletes an object it deleted before          *)
(* (viewer.cpp:217-226, 400-404).                                          *)
PointersLive ==
  /\ scene \in (used \ freed) \cup {NoScene}
  /\ resultImage \in (used \ freed) \cup {NoImage}

(* A render thread touches freed memory only if a scene was loaded while   *)
(* it ran, or the window was closed.  Opening an image, which also takes   *)
(* the result away from a running render, is harmless: the old image is    *)
(* leaked, not deleted (viewer.cpp:211-249, 367-371).                      *)
NoDanglingRender ==
  fault \in {"freedImage", "freedScene", "freedViewer"} => disturbed

(* The flag does its duty: until a scene is loaded in between, at most one *)
(* render is active, and while it is, the key R is dead (viewer.cpp:390).  *)
OneRender ==
  ~disturbed =>
    /\ \A i, k \in Active : i = k
    /\ Active # {} => ~renderingDone

(* When the flag is up, the image that is shown and saved is finished.     *)
DoneMeansFinished ==
  ~disturbed /\ renderingDone /\ resultImage # NoImage =>
    content[resultImage] \in {"complete", "loaded"}

(* The key R is never dead without a reason the user can see: a render is  *)
(* active, or an image from a file is shown (viewer.cpp:251, 371, 390).    *)
NotLocked ==
  process = "looping" /\ fault = "none" /\ ~renderingDone =>
    \/ Active # {}
    \/ resultImage # NoImage /\ content[resultImage] = "loaded"

(* A render that is not taken off the screen is shown complete in the end, *)
(* unless the program stops.                                               *)
PictureShown ==
  \A i \in Images :
    job[i] = "clear" /\ resultImage = i ~>
      shown = <<i, "complete">> \/ resultImage # i \/ ~Looping
-----------------------------------------------------------------------------
(* The inductive invariant.  As long as nothing disturbs it, a render      *)
(* works on live objects of a live viewer, and an image on the screen that *)
(* is not finished is being rendered.                                      *)
LiveTargets ==
  ~disturbed =>
    /\ \A i \in Active : {i, source[i]} \subseteq used \ freed
    /\ Active # {} => process # "deleted"

FinishedOrActive ==
  ~disturbed /\ resultImage # NoImage =>
    content[resultImage] \in {"complete", "loaded"} \/ resultImage \in Active

JobContent ==
  \A i \in Images :
    /\ job[i] = "finish" => content[i] = "complete"
    /\ job[i] # "none" => content[i] # "loaded" /\ i \in used

ViewerInv ==
  /\ ViewerTypeOK
  /\ PointersLive
  /\ NoDanglingRender
  /\ OneRender
  /\ LiveTargets
  /\ FinishedOrActive
  /\ JobContent
  /\ NotLocked
=============================================================================
