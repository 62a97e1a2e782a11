------------------------------- MODULE Viewer -------------------------------
(***************************************************************************)
(* The viewer (core/viewer.h, core/viewer.cpp, main.cpp): one window that  *)
(* shows a scene while it is rendered, or an image from a file.            *)
(*                                                                         *)
(* The thread of the user interface runs the event handlers, one after the *)
(* other.  The key R detaches a thread that runs Viewer::render on the     *)
(* scene and the result image of that moment; module Render describes what *)
(* happens in it, here it takes the three steps of RenderJob.  The two     *)
(* threads share the scene, the image and the flag m_renderingDone, and    *)
(* nothing but that flag tells the user interface that a render is active. *)
(*                                                                         *)
(* Scenes and images are objects on the heap.  Every allocation takes an   *)
(* object that was never used before, so a pointer to a freed object stays *)
(* recognisable; an access through one ends the run with a fault.  A       *)
(* render thread is named by the image it renders into.                    *)
(***************************************************************************)
EXTENDS Integers, FiniteSets

CONSTANTS
  Scenes, Images,       (* The objects there are to allocate: the bound on *)
                        (* the number of loads and renders of a run.       *)
  NoScene, NoImage      (* Null pointers.                                  *)

ASSUME NullAssumption ==
  /\ Scenes \cap Images = {}
  /\ {NoScene, NoImage} \cap (Scenes \cup Images) = {}

VARIABLES
  process,          (* starting, looping, closing, deleted, ended          *)
  fault,            (* The access to a freed or null object, or "none".    *)
  scene,            (* m_scene                                             *)
  resultImage,      (* m_resultImage                                       *)
  renderingDone,    (* m_renderingDone                                     *)
  saveEnabled,      (* The buttons PNG and EXR react.                      *)
  used,             (* The objects allocated so far.                       *)
  freed,            (* Those that were deleted since.                      *)
  content,          (* What each image holds.                              *)
  job,              (* The next step of the render into each image.        *)
  source,           (* The scene that render reads.                        *)
  shown,            (* The picture on the screen.                          *)
  disturbed         (* History: a scene was loaded, or the viewer deleted, *)
                    (* while a render was active.                          *)

heap    == <<used, freed>>
jobs    == <<job, source>>
viewer  == <<scene, resultImage, renderingDone, saveEnabled>>
vars    == <<process, fault, viewer, heap, content, jobs, shown, disturbed>>

Nothing == <<NoImage, "none">>
Picture == IF resultImage = NoImage THEN Nothing
                                    ELSE <<resultImage, content[resultImage]>>

Active == {i \in Images : job[i] \in {"clear", "fill", "finish"}}

Running == fault = "none" /\ process \in {"starting", "looping", "closing", "deleted"}
Looping == fault = "none" /\ process = "looping"

-----------------------------------------------------------------------------
(* main has parsed its arguments and constructed the Viewer.               *)
Init ==
  /\ process = "starting"
  /\ fault = "none"
  /\ scene = NoScene
  /\ resultImage = NoImage
  /\ renderingDone = TRUE
  /\ saveEnabled = FALSE
  /\ used = {}
  /\ freed = {}
  /\ content = [i \in Images |-> "none"]
  /\ job = [i \in Images |-> "none"]
  /\ source = [i \in Images |-> NoScene]
  /\ shown = Nothing
  /\ disturbed = FALSE

(* Where a file comes from decides what an exception of its parser does:   *)
(* key_callback_event of the window library catches and prints it;         *)
(* drop_callback_event lets it reach the main loop, which gives up; in     *)
(* main it ends the process.                                               *)
Origins == {"main", "key", "drop"}

From(origin) ==
  fault = "none" /\ process = IF origin = "main" THEN "starting" ELSE "looping"

Loaded(origin) == process' = "looping"

Thrown(origin) ==
  process' = CASE origin = "main" -> "ended"
               [] origin = "key"  -> "looping"
               [] origin = "drop" -> "closing"

(* Objects are deleted through pointers that may be null.                  *)
Delete(pointers) == freed' = freed \cup (pointers \ {NoScene, NoImage})

(* The window is drawn again in the course of a handler, or it is not.     *)
DrawnMaybe(picture) == shown' \in {shown, picture}

-----------------------------------------------------------------------------
(* loadScene.  The flag is raised and the old image deleted before the     *)
(* file is parsed: here the file holds a scene, which replaces the old     *)
(* one, or another object, which is leaked ...                             *)
LoadScene(origin) ==
  /\ From(origin)
  /\ Loaded(origin)
  /\ renderingDone' = TRUE
  /\ resultImage' = NoImage
  /\ \/ \E s \in Scenes \ used :
          /\ used' = used \cup {s}
          /\ scene' = s
          /\ Delete({resultImage, scene})
     \/ /\ Delete({resultImage})
        /\ UNCHANGED <<used, scene>>
  /\ DrawnMaybe(Nothing)
  /\ disturbed' = (disturbed \/ Active # {})
  /\ UNCHANGED <<fault, saveEnabled, content, jobs>>

(* Faulty variant of what follows: the pointer to the deleted image stays. *)
LoadSceneThrowsDangling(origin) ==
  /\ From(origin)
  /\ Thrown(origin)
  /\ renderingDone' = TRUE
  /\ Delete({resultImage})
  /\ disturbed' = (disturbed \/ Active # {})
  /\ UNCHANGED <<fault, scene, resultImage, saveEnabled, used, content, jobs, shown>>

(* ... and here the parser throws.                                         *)
LoadSceneThrows(origin) ==
  /\ From(origin)
  /\ Thrown(origin)
  /\ renderingDone' = TRUE
  /\ resultImage' = NoImage
  /\ Delete({resultImage})
  /\ disturbed' = (disturbed \/ Active # {})
  /\ UNCHANGED <<fault, scene, saveEnabled, used, content, jobs, shown>>

(* Faulty variant: the image shown before is deleted.                      *)
LoadImageDeletes(origin) ==
  /\ From(origin)
  /\ Loaded(origin)
  /\ Delete({resultImage})
  /\ \E i \in Images \ used :
       /\ used' = used \cup {i}
       /\ resultImage' = i
       /\ content' = [content EXCEPT ![i] = "loaded"]
       /\ DrawnMaybe(<<i, "loaded">>)
  /\ renderingDone' = FALSE
  /\ saveEnabled' = TRUE
  /\ UNCHANGED <<fault, scene, jobs, disturbed>>

(* loadImage.  The image shown before is not deleted, and the flag is      *)
(* lowered although nothing is rendered.                                   *)
LoadImage(origin) ==
  /\ From(origin)
  /\ Loaded(origin)
  /\ \E i \in Images \ used :
       /\ used' = used \cup {i}
       /\ resultImage' = i
       /\ content' = [content EXCEPT ![i] = "loaded"]
       /\ DrawnMaybe(<<i, "loaded">>)
  /\ renderingDone' = FALSE
  /\ saveEnabled' = TRUE
  /\ UNCHANGED <<fault, scene, freed, jobs, disturbed>>

(* The file cannot be read: loadImage throws before it changes anything.   *)
LoadImageThrows(origin) ==
  /\ From(origin)
  /\ Thrown(origin)
  /\ UNCHANGED <<fault, viewer, heap, content, jobs, shown, disturbed>>

(* The old image is deleted, and a thread detached that renders the scene  *)
(* into a new one.                                                         *)
StartRender ==
  /\ Delete({resultImage})
  /\ \E i \in Images \ used :
       /\ used' = used \cup {i}
       /\ resultImage' = i
       /\ content' = [content EXCEPT ![i] = "garbage"]
       /\ job' = [job EXCEPT ![i] = "clear"]
       /\ source' = [source EXCEPT ![i] = scene]
  /\ saveEnabled' = TRUE
  /\ UNCHANGED <<process, fault, scene, shown, disturbed>>

(* Faulty variants of what follows: without asking for a scene, without    *)
(* asking for the flag, and with the flag left up.                         *)
PressRNoScene   == Looping /\ renderingDone /\ renderingDone' = FALSE /\ StartRender
PressRUnguarded == Looping /\ scene # NoScene /\ renderingDone' = FALSE /\ StartRender
PressRFlagUp ==
  Looping /\ scene # NoScene /\ renderingDone /\ UNCHANGED renderingDone /\ StartRender

(* The key R.                                                              *)
PressR ==
  /\ Looping
  /\ scene # NoScene
  /\ renderingDone
  /\ renderingDone' = FALSE
  /\ StartRender

(* The buttons PNG and EXR read the result image without asking whether    *)
(* there is one.                                                           *)
Save ==
  /\ Looping
  /\ saveEnabled
  /\ fault' = IF resultImage = NoImage THEN "nullImage"
              ELSE IF resultImage \in freed THEN "freedImage" ELSE "none"
  /\ UNCHANGED <<process, viewer, heap, content, jobs, shown, disturbed>>

(* Faulty variant: drawn only while "raytracing in progress".              *)
DrawInProgress ==
  /\ Looping
  /\ ~renderingDone
  /\ shown' = Picture
  /\ fault' = IF resultImage \in freed THEN "freedImage" ELSE "none"
  /\ UNCHANGED <<process, viewer, heap, content, jobs, disturbed>>

(* draw_contents.                                                          *)
Draw ==
  /\ Looping
  /\ shown' = Picture
  /\ fault' = IF resultImage \in freed THEN "freedImage" ELSE "none"
  /\ UNCHANGED <<process, viewer, heap, content, jobs, disturbed>>

(* Escape is exit(0): the process ends with its threads.                   *)
PressEscape ==
  /\ Looping
  /\ process' = "ended"
  /\ UNCHANGED <<fault, viewer, heap, content, jobs, shown, disturbed>>

(* The window is closed, mainloop returns, main deletes the viewer and     *)
(* returns.                                                                *)
CloseWindow ==
  /\ Looping
  /\ process' = "closing"
  /\ UNCHANGED <<fault, viewer, heap, content, jobs, shown, disturbed>>

DeleteViewer ==
  /\ fault = "none"
  /\ process = "closing"
  /\ process' = "deleted"
  /\ disturbed' = (disturbed \/ Active # {})
  /\ UNCHANGED <<fault, viewer, heap, content, jobs, shown>>

MainReturns ==
  /\ fault = "none"
  /\ process = "deleted"
  /\ process' = "ended"
  /\ UNCHANGED <<fault, viewer, heap, content, jobs, shown, disturbed>>

-----------------------------------------------------------------------------
(* The render thread of image i.                                           *)
Touch(i) ==
  fault' = IF source[i] \in freed THEN "freedScene"
           ELSE IF i \in freed THEN "freedImage" ELSE "none"

RenderClear(i) ==
  /\ Running
  /\ job[i] = "clear"
  /\ Touch(i)
  /\ content' = [content EXCEPT ![i] = "partial"]
  /\ job' = [job EXCEPT ![i] = "fill"]
  /\ UNCHANGED <<process, viewer, heap, source, shown, disturbed>>

RenderFill(i) ==
  /\ Running
  /\ job[i] = "fill"
  /\ Touch(i)
  /\ content' = [content EXCEPT ![i] = "complete"]
  /\ job' = [job EXCEPT ![i] = "finish"]
  /\ UNCHANGED <<process, viewer, heap, source, shown, disturbed>>

(* Faulty variant: the caller's flag is forgotten.                         *)
RenderFinishSilent(i) ==
  /\ Running
  /\ job[i] = "finish"
  /\ job' = [job EXCEPT ![i] = "ended"]
  /\ UNCHANGED <<process, fault, viewer, heap, content, source, shown, disturbed>>

(* The flag is a member of the viewer, which may be gone by now.           *)
RenderFinish(i) ==
  /\ Running
  /\ job[i] = "finish"
  /\ renderingDone' = TRUE
  /\ fault' = IF process = "deleted" THEN "freedViewer" ELSE "none"
  /\ job' = [job EXCEPT ![i] = "ended"]
  /\ UNCHANGED <<process, scene, resultImage, saveEnabled, heap, content, source,
                 shown, disturbed>>

(* An exception in the render thread ends the process.                     *)
RenderThrows(i) ==
  /\ Running
  /\ job[i] = "fill"
  /\ Touch(i)
  /\ process' = "ended"
  /\ UNCHANGED <<viewer, heap, content, jobs, shown, disturbed>>

Open == \E origin \in Origins :
          \/ LoadScene(origin) \/ LoadSceneThrows(origin)
          \/ LoadImage(origin) \/ LoadImageThrows(origin)

RenderStep(i) == RenderClear(i) \/ RenderFill(i) \/ RenderFinish(i)

Next ==
  \/ Open \/ PressR \/ Save \/ Draw
  \/ PressEscape \/ CloseWindow \/ DeleteViewer \/ MainReturns
  \/ \E i \in Images : RenderStep(i) \/ RenderThrows(i)

(* The user need not do anything.  Render threads run, and the main loop   *)
(* redraws the window every 50 ms without the user (main.cpp:116, 131).    *)
Fairness ==
  /\ WF_vars(Draw)
  /\ \A i \in Images : WF_vars(RenderStep(i))

Spec == Init /\ [][Next]_vars /\ Fairness
=============================================================================
