----------------------------- MODULE ViewerProofs -----------------------------
(***************************************************************************)
(* The viewer's guarantees, for any number of scenes and images.           *)
(***************************************************************************)
EXTENDS ViewerProps, TLAPS

(* Nothing is on the heap yet.                                             *)
LEMMA ViewerInit == Init => ViewerInv
<1> SUFFICES ASSUME Init  PROVE ViewerInv
  OBVIOUS
<1> USE DEF Init
<1>1. ViewerTypeOK
  BY DEF ViewerTypeOK, Contents, Nothing
<1>2. Active = {}
  BY DEF Active
<1> QED
  BY <1>1, <1>2
  DEF ViewerInv, PointersLive, NoDanglingRender, OneRender, LiveTargets,
      FinishedOrActive, JobContent, NotLocked

(* Opening a scene: the only handler that raises the flag, and the only    *)
(* one that frees something while a render may be active.                  *)
LEMMA LoadSceneInv ==
  ASSUME ViewerInv, NEW origin \in Origins,
         LoadScene(origin) \/ LoadSceneThrows(origin)
  PROVE  ViewerInv'
<1> USE NullAssumption DEF ViewerInv
<1>1. /\ fault = "none" /\ fault' = "none" /\ renderingDone' /\ resultImage' = NoImage
      /\ UNCHANGED <<saveEnabled, content, job, source>>
      /\ disturbed' = (disturbed \/ Active # {})
      /\ process' \in {"looping", "closing", "ended"}
  BY DEF LoadScene, LoadSceneThrows, jobs, From, Loaded, Thrown, Origins
<1>2. /\ used' \subseteq used \cup Scenes /\ used \subseteq used'
      /\ freed' \subseteq used /\ scene' \in (used' \ freed') \cup {NoScene}
  BY DEF LoadScene, LoadSceneThrows, Delete, PointersLive, ViewerTypeOK
<1>3. Active' = Active
  BY <1>1 DEF Active
<1>4. scene' \in Scenes \cup {NoScene} /\ shown' \in {shown, Nothing}
  BY DEF LoadScene, LoadSceneThrows, ViewerTypeOK, DrawnMaybe
<1>5. ViewerTypeOK'
  <2>1. process' \in {"starting", "looping", "closing", "deleted", "ended"} /\ used' \subseteq Scenes \cup Images
    BY <1>1, <1>2 DEF ViewerTypeOK
  <2>2. freed' \subseteq used' /\ disturbed' \in BOOLEAN /\ renderingDone' \in BOOLEAN
    BY <1>1, <1>2 DEF ViewerTypeOK
  <2>3. shown' \in (Images \cup {NoImage}) \X Contents
    BY <1>4 DEF ViewerTypeOK, Nothing, Contents
  <2> QED  BY <1>1, <1>4, <2>1, <2>2, <2>3 DEF ViewerTypeOK
<1>6. PointersLive' /\ NoDanglingRender' /\ NotLocked' /\ FinishedOrActive'
  BY <1>1, <1>2 DEF PointersLive, NoDanglingRender, NotLocked, FinishedOrActive
<1>7. OneRender' /\ LiveTargets'
  BY <1>1, <1>3 DEF OneRender, LiveTargets
<1>8. JobContent'
  BY <1>1, <1>2 DEF JobContent
<1> QED  BY <1>5, <1>6, <1>7, <1>8

(* Opening an image takes the result away from a render, but frees         *)
(* nothing.                                                                *)
LEMMA LoadImageInv ==
  ASSUME ViewerInv, NEW origin \in Origins, LoadImage(origin)
  PROVE  ViewerInv'
<1> USE NullAssumption DEF ViewerInv
<1>1. /\ fault = "none" /\ fault' = "none" /\ ~renderingDone' /\ process' = "looping"
      /\ UNCHANGED <<scene, freed, job, source, disturbed>>
      /\ saveEnabled'
  BY DEF LoadImage, From, Loaded, jobs
<1>2. PICK k \in Images \ used :
        /\ used' = used \cup {k}
        /\ resultImage' = k
        /\ content' = [content EXCEPT ![k] = "loaded"]
        /\ shown' \in {shown, <<k, "loaded">>}
  BY DEF LoadImage, DrawnMaybe
<1>3. Active' = Active /\ content'[k] = "loaded" /\ job[k] = "none"
  BY <1>1, <1>2 DEF Active, ViewerTypeOK, JobContent
<1>4. ViewerTypeOK'
  <2>1. content' \in [Images -> Contents] /\ shown' \in (Images \cup {NoImage}) \X Contents
    BY <1>2 DEF ViewerTypeOK, Contents
  <2>2. used' \subseteq Scenes \cup Images /\ freed' \subseteq used'
    BY <1>1, <1>2 DEF ViewerTypeOK
  <2>3. saveEnabled' \in BOOLEAN /\ renderingDone' \in BOOLEAN
    BY Zenon DEF LoadImage
  <2> QED  BY <1>1, <1>2, <2>1, <2>2, <2>3 DEF ViewerTypeOK
<1>5. PointersLive' /\ NoDanglingRender' /\ NotLocked' /\ FinishedOrActive'
  BY <1>1, <1>2, <1>3
  DEF PointersLive, NoDanglingRender, NotLocked, FinishedOrActive, ViewerTypeOK
<1>6. OneRender' /\ LiveTargets'
  BY <1>1, <1>2, <1>3 DEF OneRender, LiveTargets
<1>7. JobContent'
  BY <1>1, <1>2, <1>3 DEF JobContent, ViewerTypeOK
<1> QED  BY <1>4, <1>5, <1>6, <1>7

(* The key R: the flag says that no render is active, so the image that is *)
(* deleted belongs to none.                                                *)
LEMMA PressRInv ==
  ASSUME ViewerInv, PressR
  PROVE  ViewerInv'
<1> USE NullAssumption DEF ViewerInv
<1>1. /\ fault = "none" /\ fault' = "none" /\ ~renderingDone' /\ renderingDone
      /\ process = "looping" /\ process' = "looping" /\ scene # NoScene
      /\ UNCHANGED <<scene, shown, disturbed>>
      /\ saveEnabled' /\ freed' = freed \cup ({resultImage} \ {NoScene, NoImage})
  BY DEF PressR, StartRender, Looping, Delete
<1>2. PICK k \in Images \ used :
        /\ used' = used \cup {k}
        /\ resultImage' = k
        /\ content' = [content EXCEPT ![k] = "garbage"]
        /\ job' = [job EXCEPT ![k] = "clear"]
        /\ source' = [source EXCEPT ![k] = scene]
  BY DEF PressR, StartRender
<1>3. Active' = Active \cup {k} /\ job'[k] = "clear" /\ source'[k] = scene
  BY <1>2 DEF Active, ViewerTypeOK
<1>4. ~disturbed => Active = {}
  BY <1>1 DEF OneRender
<1>5. freed' \subseteq used /\ k \notin freed' /\ scene \notin freed' /\ scene \in used
  BY <1>1, <1>2 DEF PointersLive, ViewerTypeOK
<1>6. ViewerTypeOK'
  <2>1. /\ content' \in [Images -> Contents]
        /\ job' \in [Images -> {"none", "clear", "fill", "finish", "ended"}]
    BY <1>2 DEF ViewerTypeOK, Contents
  <2>2. source' \in [Images -> Scenes \cup {NoScene}]
    BY <1>2 DEF ViewerTypeOK
  <2>3. used' \subseteq Scenes \cup Images /\ freed' \subseteq used'
    BY <1>2, <1>5 DEF ViewerTypeOK
  <2>4. saveEnabled' \in BOOLEAN /\ renderingDone' \in BOOLEAN
    BY Zenon DEF PressR, StartRender
  <2> QED  BY <1>1, <1>2, <2>1, <2>2, <2>3, <2>4 DEF ViewerTypeOK
<1>7. PointersLive' /\ NoDanglingRender' /\ NotLocked'
  BY <1>1, <1>2, <1>3, <1>5 DEF PointersLive, NoDanglingRender, NotLocked
<1>8. FinishedOrActive'
  BY <1>2, <1>3 DEF FinishedOrActive
<1>9. OneRender'
  BY <1>1, <1>3, <1>4 DEF OneRender
<1>10. LiveTargets'
  BY <1>1, <1>2, <1>3, <1>4, <1>5 DEF LiveTargets
<1>11. JobContent'
  BY <1>2 DEF JobContent, ViewerTypeOK
<1> QED  BY <1>6, <1>7, <1>8, <1>9, <1>10, <1>11

(* Handlers and steps of main that leave the heap and the renders alone.   *)
LEMMA WindowInv ==
  ASSUME ViewerInv,
         \/ \E origin \in Origins : LoadImageThrows(origin)
         \/ Save \/ Draw \/ PressEscape \/ CloseWindow \/ DeleteViewer \/ MainReturns
  PROVE  ViewerInv'
<1> USE NullAssumption DEF ViewerInv
<1>1. UNCHANGED <<scene, resultImage, renderingDone, saveEnabled, used, freed, content, job, source>>
  BY DEF LoadImageThrows, Save, Draw, PressEscape, CloseWindow, DeleteViewer, MainReturns,
         viewer, heap, jobs
<1>2. Active' = Active
  BY <1>1 DEF Active
<1>3. fault = "none" /\ fault' \in {"none", "nullImage"}
  BY DEF LoadImageThrows, From, Save, Draw, PressEscape, CloseWindow, DeleteViewer, MainReturns,
         Looping, PointersLive, ViewerTypeOK
<1>4. /\ disturbed' = disturbed \/ (disturbed' = (disturbed \/ Active # {}))
      /\ process' = "deleted" => disturbed' = (disturbed \/ Active # {})
      /\ process' = "looping" => process = "looping"
  BY <1>1, <1>3
  DEF LoadImageThrows, From, Thrown, Origins, Save, Draw, PressEscape, CloseWindow, DeleteViewer,
      MainReturns, Looping, viewer
<1>5. ViewerTypeOK'
  <2>1. process' \in {"starting", "looping", "closing", "deleted", "ended"}
    BY DEF LoadImageThrows, Thrown, Origins, Save, Draw, PressEscape, CloseWindow,
           DeleteViewer, MainReturns, ViewerTypeOK
  <2>2. shown' = shown \/ shown' = Picture
    BY DEF LoadImageThrows, Save, Draw, PressEscape, CloseWindow, DeleteViewer, MainReturns
  <2>3. Picture \in (Images \cup {NoImage}) \X Contents
    BY DEF Picture, Nothing, ViewerTypeOK, Contents
  <2>4. disturbed' \in BOOLEAN
    BY <1>4 DEF ViewerTypeOK
  <2> QED  BY <1>1, <1>3, <2>1, <2>2, <2>3, <2>4 DEF ViewerTypeOK
<1>6. PointersLive' /\ NoDanglingRender' /\ JobContent'
  BY <1>1, <1>3 DEF PointersLive, NoDanglingRender, JobContent
<1>7. OneRender' /\ LiveTargets' /\ FinishedOrActive'
  <2>1. disturbed => disturbed'
    BY <1>4
  <2>2. OneRender' /\ FinishedOrActive'
    BY <1>1, <1>2, <2>1 DEF OneRender, FinishedOrActive
  <2>3. ~disturbed' /\ Active # {} => process' # "deleted"
    BY <1>4, <2>1
  <2>4. LiveTargets'
    BY <1>1, <1>2, <2>1, <2>3 DEF LiveTargets
  <2> QED  BY <2>2, <2>4
<1>8. NotLocked'
  BY <1>1, <1>2, <1>3, <1>4 DEF NotLocked
<1> QED  BY <1>5, <1>6, <1>7, <1>8

(* A render moves on, in its own image and nowhere else, until it raises   *)
(* the flag.                                                               *)
LEMMA RenderStepInv ==
  ASSUME ViewerInv, NEW k \in Images, RenderClear(k) \/ RenderFill(k)
  PROVE  ViewerInv'
<1> USE NullAssumption DEF ViewerInv
<1>1. /\ fault = "none" /\ fault' \in {"none", "freedScene", "freedImage"}
      /\ UNCHANGED <<process, scene, resultImage, renderingDone, saveEnabled, used, freed,
                     source, shown, disturbed>>
      /\ k \in Active
  BY DEF RenderClear, RenderFill, Running, Touch, viewer, heap, Active
<1>2. \/ /\ content' = [content EXCEPT ![k] = "partial"]
         /\ job' = [job EXCEPT ![k] = "fill"]
      \/ /\ content' = [content EXCEPT ![k] = "complete"]
         /\ job' = [job EXCEPT ![k] = "finish"]
  BY DEF RenderClear, RenderFill
<1>3. Active' = Active
  BY <1>1, <1>2 DEF Active, ViewerTypeOK
<1>4. ViewerTypeOK'
  <2>1. content' \in [Images -> Contents]
    BY <1>2 DEF ViewerTypeOK, Contents
  <2>2. job' \in [Images -> {"none", "clear", "fill", "finish", "ended"}]
    BY <1>2 DEF ViewerTypeOK
  <2>3. \A i \in Images : job'[i] # "none" => job[i] # "none"
    BY <1>1, <1>2 DEF Active, ViewerTypeOK
  <2> QED  BY <1>1, <2>1, <2>2, <2>3 DEF ViewerTypeOK
<1>5. fault' # "none" => disturbed
  BY <1>1 DEF LiveTargets, RenderClear, RenderFill, Touch
<1>6. PointersLive' /\ NoDanglingRender' /\ NotLocked'
  BY <1>1, <1>3, <1>5 DEF PointersLive, NoDanglingRender, NotLocked
<1>7. OneRender' /\ LiveTargets'
  BY <1>1, <1>3 DEF OneRender, LiveTargets
<1>8. FinishedOrActive'
  BY <1>1, <1>2, <1>3 DEF FinishedOrActive, ViewerTypeOK
<1>9. JobContent'
  BY <1>1, <1>2 DEF JobContent, ViewerTypeOK, Active
<1> QED  BY <1>4, <1>6, <1>7, <1>8, <1>9

(* The end of a render keeps the invariant: the flag it sets vouches for   *)
(* the image it has filled.                                                *)
LEMMA RenderFinishInv ==
  ASSUME ViewerInv, NEW k \in Images, RenderFinish(k)
  PROVE  ViewerInv'
<1> USE NullAssumption DEF ViewerInv
<1>1. /\ fault = "none" /\ renderingDone' /\ job[k] = "finish"
      /\ UNCHANGED <<process, scene, resultImage, saveEnabled, used, freed, content,
                     source, shown, disturbed>>
      /\ fault' = IF process = "deleted" THEN "freedViewer" ELSE "none"
      /\ job' = [job EXCEPT ![k] = "ended"]
  BY DEF RenderFinish, Running, heap
<1>2. k \in Active /\ Active' = Active \ {k} /\ content[k] = "complete"
  BY <1>1 DEF Active, ViewerTypeOK, JobContent
<1>3. fault' # "none" => disturbed
  BY <1>1, <1>2 DEF LiveTargets
<1>4. ViewerTypeOK'
  <2>1. renderingDone' \in BOOLEAN
    BY Zenon DEF RenderFinish
  <2>2. job' \in [Images -> {"none", "clear", "fill", "finish", "ended"}]
    BY <1>1 DEF ViewerTypeOK
  <2> QED  BY <1>1, <2>1, <2>2 DEF ViewerTypeOK
<1>5. PointersLive' /\ NoDanglingRender' /\ NotLocked'
  BY <1>1, <1>3 DEF PointersLive, NoDanglingRender, NotLocked
<1>6. OneRender' /\ LiveTargets'
  BY <1>1, <1>2 DEF OneRender, LiveTargets
<1>7. FinishedOrActive'
  BY <1>1, <1>2 DEF FinishedOrActive
<1>8. JobContent'
  BY <1>1 DEF JobContent, ViewerTypeOK
<1> QED  BY <1>4, <1>5, <1>6, <1>7, <1>8

(* A render that throws keeps the invariant: the process is over.          *)
LEMMA RenderThrowsInv ==
  ASSUME ViewerInv, NEW k \in Images, RenderThrows(k)
  PROVE  ViewerInv'
<1> USE NullAssumption DEF ViewerInv
<1>1. /\ fault = "none" /\ fault' \in {"none", "freedScene", "freedImage"}
      /\ UNCHANGED <<scene, resultImage, renderingDone, saveEnabled, used, freed, content,
                     job, source, shown, disturbed>>
      /\ process' = "ended" /\ k \in Active
  BY DEF RenderThrows, Running, Touch, viewer, heap, jobs, Active
<1>2. Active' = Active
  BY <1>1 DEF Active
<1>3. fault' # "none" => disturbed
  BY <1>1 DEF LiveTargets, RenderThrows, Touch
<1>4. ViewerTypeOK'
  BY <1>1 DEF ViewerTypeOK
<1>5. PointersLive' /\ NoDanglingRender' /\ NotLocked' /\ JobContent'
  BY <1>1, <1>3 DEF PointersLive, NoDanglingRender, NotLocked, JobContent
<1>6. OneRender' /\ LiveTargets' /\ FinishedOrActive'
  BY <1>1, <1>2 DEF OneRender, LiveTargets, FinishedOrActive
<1> QED  BY <1>4, <1>5, <1>6

-----------------------------------------------------------------------------
(* The invariant of the viewer holds in every reachable state.             *)
THEOREM ViewerInvariant == Spec => []ViewerInv
<1>1. ViewerInv /\ [Next]_vars => ViewerInv'
  <2> SUFFICES ASSUME ViewerInv, [Next]_vars  PROVE ViewerInv'
    OBVIOUS
  <2>1. CASE Next
    BY <2>1, LoadSceneInv, LoadImageInv, PressRInv, WindowInv,
       RenderStepInv, RenderFinishInv, RenderThrowsInv
    DEF Next, Open, RenderStep
  <2>2. CASE UNCHANGED vars
    <3>1. UNCHANGED <<process, fault, scene, resultImage, renderingDone, saveEnabled,
                      used, freed, content, job, source, shown, disturbed>>
      BY <2>2 DEF vars, viewer, heap, jobs
    <3>2. Active' = Active
      BY <3>1 DEF Active
    <3> QED
      BY <3>1, <3>2
      DEF ViewerInv, ViewerTypeOK, PointersLive, NoDanglingRender, OneRender, LiveTargets,
          FinishedOrActive, JobContent, NotLocked
  <2> QED  BY <2>1, <2>2
<1> QED  BY <1>1, ViewerInit, PTL DEF Spec

(* The pointers, flags and jobs of the viewer keep their types.            *)
THEOREM ViewerTypes == Spec => []ViewerTypeOK
<1>1. ViewerInv => ViewerTypeOK
  BY DEF ViewerInv
<1> QED  BY <1>1, ViewerInvariant, PTL

(* The user interface never follows a dangling pointer.                    *)
THEOREM InterfaceSafe == Spec => []PointersLive
<1>1. ViewerInv => PointersLive
  BY DEF ViewerInv
<1> QED  BY <1>1, ViewerInvariant, PTL

(* Only loading a scene or closing the window endangers a render.          *)
THEOREM RenderSafe == Spec => []NoDanglingRender
<1>1. ViewerInv => NoDanglingRender
  BY DEF ViewerInv
<1> QED  BY <1>1, ViewerInvariant, PTL

(* The flag excludes a second render.                                      *)
THEOREM FlagExcludes == Spec => []OneRender
<1>1. ViewerInv => OneRender
  BY DEF ViewerInv
<1> QED  BY <1>1, ViewerInvariant, PTL

(* The flag, when it is up, vouches for the image.                         *)
THEOREM FlagVouches == Spec => []DoneMeansFinished
<1>1. ViewerInv => DoneMeansFinished
  BY DEF ViewerInv, OneRender, FinishedOrActive, DoneMeansFinished
<1> QED  BY <1>1, ViewerInvariant, PTL

(* The key R is not dead for good.                                         *)
THEOREM KeyNotLocked == Spec => []NotLocked
<1>1. ViewerInv => NotLocked
  BY DEF ViewerInv
<1> QED  BY <1>1, ViewerInvariant, PTL
=============================================================================
