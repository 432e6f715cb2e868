------------------------- MODULE EmbeddedFramesProofs -------------------------
(***************************************************************************)
(* Proofs about EmbeddedFrames for any set of surfaces and any nesting of  *)
(* frames: the globals outlive the frames, a destruction is never          *)
(* forgotten, and content that changed always has a frame coming as long   *)
(* as the host resizes a surface before it renders it.                     *)
(***************************************************************************)
EXTENDS EmbeddedFrames, TLAPS

\* Frames are nested without a gap, one surface to a level.
LevelInv ==
  /\ \A s \in Surfaces : level[s] <= activeFrames
  /\ \A k \in 1 .. activeFrames : \E s \in Surfaces : level[s] = k
  /\ \A s, t \in Surfaces : level[s] = level[t] /\ level[s] > 0 => s = t
  /\ \A s \in painting : level[s] > 0
  /\ \A s \in Surfaces : level[s] > 0 => s \in valid

DestroyInv ==
  /\ destroyed => activeFrames = 0 /\ ~destroyRequested /\ valid = {}
  /\ destroyRequested => activeFrames > 0

\* m_needsFrame says that the host has a request; changed content needs a frame
\* unless one is about to collect it, or failed.
RequestInv ==
  /\ \A s \in Surfaces : requests[s] <= 1 /\ (requests[s] > 0 => s \in needsFrame)
  /\ \A s \in valid \cap needsFrame : requests[s] > 0 \/ destroyRequested
  /\ \A s \in valid \cap sized \cap dirty :
       s \in needsFrame \/ (s \notin painting /\ (level[s] > 0 \/ s \in failed))

\* The host renders a surface only after it has resized it.
ResizesFirst == ~EarlyRender

IInv == ResizesFirst /\ TypeOK /\ LevelInv /\ DestroyInv /\ RequestInv
-----------------------------------------------------------------------------
LEMMA InitIInv == ResizesFirst /\ Init => IInv
<1> SUFFICES ASSUME ResizesFirst, Init PROVE IInv
  OBVIOUS
<1> USE DEF Init
<1>1. TypeOK
  BY DEF TypeOK
<1>2. LevelInv
  BY DEF LevelInv
<1>3. DestroyInv /\ RequestInv
  BY DEF DestroyInv, RequestInv
<1> QED BY <1>1, <1>2, <1>3 DEF IInv

\* Asking for a frame keeps what is said of requests.
LEMMA Scheduling ==
  ASSUME IInv, NEW s \in valid, ScheduleFrame(s)
  PROVE  /\ needsFrame' \subseteq created /\ needsFrame' = needsFrame \cup {s}
         /\ requests' \in [Surfaces -> Nat]
         /\ \A t \in Surfaces : requests'[t] <= 1 /\ (requests'[t] > 0 => t \in needsFrame')
         /\ \A t \in valid \cap needsFrame' : requests'[t] > 0 \/ destroyRequested
<1>1. s \in Surfaces /\ s \in created /\ requests \in [Surfaces -> Nat]
  BY DEF IInv, TypeOK
<1>2. CASE s \in needsFrame
  BY <1>1, <1>2 DEF ScheduleFrame, IInv, TypeOK, RequestInv
<1>3. CASE s \notin needsFrame
  <2>1. requests[s] = 0
    BY <1>1, <1>3 DEF IInv, RequestInv
  <2>2. requests' = [requests EXCEPT ![s] = 1] /\ needsFrame' = needsFrame \cup {s}
    BY <1>1, <1>3, <2>1 DEF ScheduleFrame
  <2> QED BY <1>1, <2>1, <2>2 DEF IInv, TypeOK, RequestInv
<1> QED BY <1>2, <1>3

LEMMA CreatingKeepsIInv ==
  ASSUME IInv, NEW s \in Surfaces, CreateSurface(s)
  PROVE  IInv'
<1> USE DEF CreateSurface, frameVars, backendVars
<1>1. TypeOK' /\ LevelInv' /\ DestroyInv'
  BY DEF IInv, TypeOK, LevelInv, DestroyInv
<1>2. RequestInv'
  BY DEF IInv, TypeOK, RequestInv
<1> QED BY <1>1, <1>2 DEF IInv, ResizesFirst

LEMMA ChangingKeepsIInv ==
  ASSUME IInv, NEW s \in Surfaces, Resize(s) \/ Damage(s) \/ ScheduleReposition(s)
  PROVE  IInv'
<1> USE DEF surfaceVars, frameVars, backendVars
<1>1. /\ s \in valid /\ dirty' = dirty \cup {s}
      /\ sized' \in {sized, sized \cup {s}}
      /\ UNCHANGED <<created, valid, failed, frameVars, backendVars>>
  BY DEF Resize, Damage, ScheduleReposition
<1>2. s \in created
  BY <1>1 DEF IInv, TypeOK
<1>3. CASE ScheduleFrame(s)
  <2>1. TypeOK'
    BY <1>1, <1>2, <1>3, Scheduling DEF IInv, TypeOK
  <2>2. LevelInv' /\ DestroyInv'
    BY <1>1 DEF IInv, LevelInv, DestroyInv
  <2>3. RequestInv'
    BY <1>1, <1>3, Scheduling DEF IInv, RequestInv
  <2> QED BY <2>1, <2>2, <2>3 DEF IInv, ResizesFirst
<1>4. CASE s \notin sized' /\ UNCHANGED <<sized, needsFrame, requests>>
  <2>1. TypeOK' /\ LevelInv' /\ DestroyInv'
    BY <1>1, <1>2, <1>4 DEF IInv, TypeOK, LevelInv, DestroyInv
  <2>2. RequestInv'
    BY <1>1, <1>4 DEF IInv, RequestInv
  <2> QED BY <2>1, <2>2 DEF IInv, ResizesFirst
<1> QED BY <1>3, <1>4 DEF Resize, Damage, ScheduleReposition

LEMMA RenderingKeepsIInv ==
  ASSUME IInv, NEW s \in Surfaces, Render(s)
  PROVE  IInv'
<1> USE DEF surfaceVars, backendVars
<1>1. /\ s \in created /\ level[s] = 0 /\ s \in sized
      /\ requests' = [requests EXCEPT ![s] = 0]
      /\ UNCHANGED <<surfaceVars, dirty, failed, painting, backendVars>>
  BY DEF Render, IInv, ResizesFirst
<1>2. /\ requests \in [Surfaces -> Nat] /\ level \in [Surfaces -> Nat] /\ activeFrames \in Nat
      /\ requests' \in [Surfaces -> Nat]
  BY <1>1 DEF IInv, TypeOK
<1>3. CASE s \in valid /\ ~destroyed /\ ~destroyRequested
  <2>1. /\ level' = [level EXCEPT ![s] = activeFrames + 1] /\ activeFrames' = activeFrames + 1
        /\ needsFrame' = needsFrame \ {s}
    BY <1>1, <1>3 DEF Render, BeginFrame
  <2>2. TypeOK'
    BY <1>1, <1>2, <2>1 DEF IInv, TypeOK
  <2>3. LevelInv'
    <3>1. \A t \in Surfaces : level'[t] = IF t = s THEN activeFrames + 1 ELSE level[t]
      BY <1>2, <2>1
    <3>2. \A k \in 1 .. activeFrames' : \E t \in Surfaces : level'[t] = k
      <4> SUFFICES ASSUME NEW k \in 1 .. activeFrames' PROVE \E t \in Surfaces : level'[t] = k
        OBVIOUS
      <4>1. CASE k = activeFrames + 1
        BY <3>1, <4>1
      <4>2. CASE k \in 1 .. activeFrames
        BY <1>1, <3>1, <4>2 DEF IInv, LevelInv
      <4> QED BY <1>2, <2>1, <4>1, <4>2
    <3>3. \A t \in Surfaces : level'[t] <= activeFrames'
      BY <1>2, <2>1, <3>1 DEF IInv, LevelInv
    <3>4. \A t, u \in Surfaces : level'[t] = level'[u] /\ level'[t] > 0 => t = u
      BY <1>2, <3>1 DEF IInv, LevelInv
    <3>5. \A t \in painting' : level'[t] > 0
      BY <1>1, <1>2, <3>1 DEF IInv, TypeOK, LevelInv
    <3>6. \A t \in Surfaces : level'[t] > 0 => t \in valid'
      BY <1>1, <1>3, <3>1 DEF IInv, LevelInv
    <3> QED BY <3>2, <3>3, <3>4, <3>5, <3>6 DEF LevelInv
  <2>4. DestroyInv'
    BY <1>1, <1>2, <1>3, <2>1 DEF DestroyInv
  <2>5. RequestInv'
    <3>1. s \notin painting
      BY <1>1, <1>2 DEF IInv, LevelInv
    <3> QED BY <1>1, <1>2, <2>1, <3>1 DEF IInv, TypeOK, RequestInv
  <2> QED BY <2>2, <2>3, <2>4, <2>5 DEF IInv, ResizesFirst
<1>4. CASE ~(s \in valid /\ ~destroyed /\ ~destroyRequested)
  <2>1. UNCHANGED <<level, activeFrames, needsFrame>>
    BY <1>1, <1>4 DEF Render
  <2>2. TypeOK' /\ LevelInv' /\ DestroyInv'
    BY <1>1, <1>2, <2>1 DEF IInv, TypeOK, LevelInv, DestroyInv
  <2>3. RequestInv'
    BY <1>1, <1>2, <1>4, <2>1 DEF IInv, TypeOK, DestroyInv, RequestInv
  <2> QED BY <2>2, <2>3 DEF IInv, ResizesFirst
<1> QED BY <1>3, <1>4

LEMMA CollectingKeepsIInv ==
  ASSUME IInv, NEW s \in Surfaces, CollectDamage(s)
  PROVE  IInv'
<1> USE DEF CollectDamage, Running, surfaceVars, backendVars
<1>0. s \in created /\ level[s] > 0
  BY DEF IInv, TypeOK, LevelInv
<1>1. TypeOK'
  BY <1>0 DEF IInv, TypeOK
<1>2. LevelInv' /\ DestroyInv'
  BY <1>0 DEF IInv, LevelInv, DestroyInv
<1>3. RequestInv'
  BY DEF IInv, RequestInv
<1> QED BY <1>1, <1>2, <1>3 DEF IInv, ResizesFirst

\* A frame that ends leaves the others nested without a gap; the last one
\* performs the destruction.
LEMMA EndingFrame ==
  ASSUME IInv, NEW s \in Surfaces, Running(s), EndFrame(s)
  PROVE  /\ LevelInv' /\ DestroyInv'
         /\ level' \in [Surfaces -> Nat] /\ activeFrames' \in Nat
         /\ painting' = painting \ {s}
         /\ \A t \in Surfaces : level'[t] = IF t = s THEN 0 ELSE level[t]
         /\ valid' \in {valid, {}} /\ UNCHANGED <<created, sized>>
         /\ destroyed' \in BOOLEAN /\ destroyRequested' \in BOOLEAN
         /\ valid' = {} \/ destroyRequested' = destroyRequested
<1> USE DEF Running, EndFrame, surfaceVars, backendVars
<1>1. /\ level \in [Surfaces -> Nat] /\ activeFrames \in Nat \ {0} /\ level[s] = activeFrames
      /\ activeFrames' = activeFrames - 1
  BY DEF IInv, TypeOK
<1>2. level' \in [Surfaces -> Nat] /\ \A t \in Surfaces : level'[t] = IF t = s THEN 0 ELSE level[t]
  BY <1>1
<1>3. /\ DestroyInv' /\ valid' \in {valid, {}} /\ UNCHANGED <<created, sized>>
      /\ destroyed' \in BOOLEAN /\ destroyRequested' \in BOOLEAN
      /\ valid' = {} \/ destroyRequested' = destroyRequested
      /\ activeFrames' > 0 => valid' = valid
  <2>1. CASE activeFrames = 1 /\ destroyRequested
    <3>1. /\ destroyed' = TRUE /\ destroyRequested' = FALSE /\ valid' = {}
          /\ UNCHANGED <<created, sized>> /\ activeFrames' = 0
      BY <1>1, <2>1 DEF DestroyNow
    <3>2. DestroyInv'
      BY <3>1 DEF DestroyInv
    <3>3. activeFrames' > 0 => valid' = valid
      BY <3>1
    <3> QED BY <3>1, <3>2, <3>3
  <2>2. CASE ~(activeFrames = 1 /\ destroyRequested)
    BY <1>1, <2>2 DEF IInv, TypeOK, DestroyInv
  <2> QED BY <2>1, <2>2
<1>4. LevelInv'
  <2>1. \A t \in Surfaces : t # s => level[t] < activeFrames
    BY <1>1 DEF IInv, LevelInv
  <2>2. \A t \in Surfaces : level'[t] <= activeFrames'
    BY <1>1, <1>2, <2>1
  <2>3. \A k \in 1 .. activeFrames' : \E t \in Surfaces : level'[t] = k
    <3> SUFFICES ASSUME NEW k \in 1 .. activeFrames' PROVE \E t \in Surfaces : level'[t] = k
      OBVIOUS
    <3>1. k \in 1 .. activeFrames /\ k # activeFrames
      BY <1>1
    <3>2. PICK t \in Surfaces : level[t] = k
      BY <3>1 DEF IInv, LevelInv
    <3> QED BY <1>1, <1>2, <3>1, <3>2
  <2>4. \A t, u \in Surfaces : level'[t] = level'[u] /\ level'[t] > 0 => t = u
    BY <1>1, <1>2 DEF IInv, LevelInv
  <2>5. painting' = painting \ {s} /\ painting \subseteq Surfaces
    BY DEF IInv, TypeOK
  <2>6. \A t \in painting' : level'[t] > 0
    BY <1>2, <2>5 DEF IInv, LevelInv
  <2>7. \A t \in Surfaces : level'[t] > 0 => t \in valid'
    BY <1>1, <1>2, <1>3, <2>2 DEF IInv, LevelInv
  <2> QED BY <2>2, <2>3, <2>4, <2>6, <2>7 DEF LevelInv
<1> QED BY <1>1, <1>2, <1>3, <1>4

LEMMA FinishingKeepsIInv ==
  ASSUME IInv, NEW s \in Surfaces, FinishFrame(s)
  PROVE  IInv'
<1>1. /\ Running(s) /\ s \in painting /\ EndFrame(s)
      /\ failed' = failed \ {s} /\ dirty' = dirty
      /\ ScheduleFrame(s) \/ UNCHANGED <<needsFrame, requests>>
  BY DEF FinishFrame
<1>2. s \in valid
  BY <1>1 DEF Running, IInv, TypeOK, LevelInv
<1>3. /\ LevelInv' /\ DestroyInv'
      /\ level' \in [Surfaces -> Nat] /\ activeFrames' \in Nat
      /\ painting' = painting \ {s}
      /\ \A t \in Surfaces : level'[t] = IF t = s THEN 0 ELSE level[t]
      /\ valid' \in {valid, {}} /\ UNCHANGED <<created, sized>>
      /\ destroyed' \in BOOLEAN /\ destroyRequested' \in BOOLEAN
      /\ valid' = {} \/ destroyRequested' = destroyRequested
  BY <1>1, EndingFrame
<1>4. /\ needsFrame' \subseteq created /\ needsFrame \subseteq needsFrame'
      /\ requests' \in [Surfaces -> Nat]
      /\ \A t \in Surfaces : requests'[t] <= 1 /\ (requests'[t] > 0 => t \in needsFrame')
      /\ \A t \in valid \cap needsFrame' : requests'[t] > 0 \/ destroyRequested
  <2>1. CASE ScheduleFrame(s)
    BY <1>2, <2>1, Scheduling
  <2>2. CASE UNCHANGED <<needsFrame, requests>>
    BY <2>2 DEF IInv, TypeOK, RequestInv
  <2> QED BY <1>1, <2>1, <2>2
<1>5. TypeOK'
  BY <1>1, <1>3, <1>4 DEF IInv, TypeOK
<1>6. RequestInv'
  <2>1. \A t \in valid \cap sized \cap dirty :
          t \in needsFrame' \/ (t \notin painting' /\ (level'[t] > 0 \/ t \in failed'))
    BY <1>1, <1>3, <1>4 DEF IInv, TypeOK, RequestInv
  <2> QED BY <1>1, <1>3, <1>4, <2>1 DEF RequestInv
<1> QED BY <1>3, <1>5, <1>6 DEF IInv, ResizesFirst

LEMMA ThrowingKeepsIInv ==
  ASSUME IInv, NEW s \in Surfaces, FrameThrows(s)
  PROVE  IInv'
<1>1. /\ Running(s) /\ EndFrame(s)
      /\ failed' = failed \cup {s} /\ dirty' = dirty \cup {s}
      /\ UNCHANGED <<needsFrame, requests>>
  BY DEF FrameThrows
<1>2. s \in created
  BY <1>1 DEF Running, IInv, TypeOK, LevelInv
<1>3. /\ LevelInv' /\ DestroyInv'
      /\ level' \in [Surfaces -> Nat] /\ activeFrames' \in Nat
      /\ painting' = painting \ {s}
      /\ \A t \in Surfaces : level'[t] = IF t = s THEN 0 ELSE level[t]
      /\ valid' \in {valid, {}} /\ UNCHANGED <<created, sized>>
      /\ destroyed' \in BOOLEAN /\ destroyRequested' \in BOOLEAN
      /\ valid' = {} \/ destroyRequested' = destroyRequested
  BY <1>1, EndingFrame
<1>4. TypeOK'
  BY <1>1, <1>2, <1>3 DEF IInv, TypeOK
<1>5. RequestInv'
  <2>1. \A t \in valid \cap sized \cap dirty' :
          t \in needsFrame \/ (t \notin painting' /\ (level'[t] > 0 \/ t \in failed'))
    BY <1>1, <1>3 DEF IInv, TypeOK, RequestInv
  <2> QED BY <1>1, <1>3, <2>1 DEF IInv, RequestInv
<1> QED BY <1>3, <1>4, <1>5 DEF IInv, ResizesFirst

LEMMA DestroyingKeepsIInv ==
  ASSUME IInv, Destroy
  PROVE  IInv'
<1>1. UNCHANGED <<needsFrame, requests, dirty, failed, level, painting, activeFrames>>
  BY DEF Destroy, frameVars
<1>2. CASE activeFrames > 0
  <2> USE <1>1, <1>2 DEF Destroy, surfaceVars
  <2>1. TypeOK' /\ LevelInv' /\ DestroyInv'
    BY DEF IInv, TypeOK, LevelInv, DestroyInv
  <2>2. RequestInv'
    BY DEF IInv, RequestInv
  <2> QED BY <2>1, <2>2 DEF IInv, ResizesFirst
<1>3. CASE ~(activeFrames > 0)
  <2>1. /\ destroyed' = TRUE /\ destroyRequested' = FALSE /\ valid' = {}
        /\ UNCHANGED <<created, sized>>
    BY <1>3 DEF Destroy, DestroyNow
  <2>2. activeFrames = 0 /\ \A s \in Surfaces : level[s] = 0
    BY <1>3 DEF IInv, TypeOK, LevelInv
  <2>3. TypeOK' /\ DestroyInv'
    BY <1>1, <2>1, <2>2 DEF IInv, TypeOK, DestroyInv
  <2>4. LevelInv' /\ RequestInv'
    BY <1>1, <2>1, <2>2 DEF IInv, LevelInv, RequestInv
  <2> QED BY <2>3, <2>4 DEF IInv, ResizesFirst
<1> QED BY <1>2, <1>3

\* The invariant is inductive.
LEMMA NextKeepsIInv == IInv /\ [Next]_vars => IInv'
<1> SUFFICES ASSUME IInv, [Next]_vars PROVE IInv'
  OBVIOUS
<1>1. ASSUME NEW s \in Surfaces, CreateSurface(s) PROVE IInv'
  BY <1>1, CreatingKeepsIInv
<1>2. ASSUME NEW s \in Surfaces, Resize(s) \/ Damage(s) \/ ScheduleReposition(s) PROVE IInv'
  BY <1>2, ChangingKeepsIInv
<1>3. ASSUME NEW s \in Surfaces, Render(s) PROVE IInv'
  BY <1>3, RenderingKeepsIInv
<1>4. ASSUME NEW s \in Surfaces, CollectDamage(s) PROVE IInv'
  BY <1>4, CollectingKeepsIInv
<1>5. ASSUME NEW s \in Surfaces, FinishFrame(s) PROVE IInv'
  BY <1>5, FinishingKeepsIInv
<1>6. ASSUME NEW s \in Surfaces, FrameThrows(s) PROVE IInv'
  BY <1>6, ThrowingKeepsIInv
<1>7. CASE Destroy
  BY <1>7, DestroyingKeepsIInv
<1>8. CASE UNCHANGED vars
  <2> USE <1>8 DEF vars, surfaceVars, frameVars, backendVars
  <2>1. TypeOK' /\ LevelInv' /\ DestroyInv'
    BY DEF IInv, TypeOK, LevelInv, DestroyInv
  <2>2. RequestInv'
    BY DEF IInv, RequestInv
  <2> QED BY <2>1, <2>2 DEF IInv, ResizesFirst
<1> QED BY <1>1, <1>2, <1>3, <1>4, <1>5, <1>6, <1>7, <1>8 DEF Next

LEMMA Invariance == ResizesFirst /\ Spec => []IInv
  BY InitIInv, NextKeepsIInv, PTL DEF Spec

\* The state keeps its types (the members of CEmbeddedSurface and CEmbeddedBackend).
THEOREM TypeCorrect == ResizesFirst /\ Spec => []TypeOK
<1>1. IInv => TypeOK
  BY DEF IInv
<1> QED BY Invariance, <1>1, PTL

\* destroyNow never runs while a frame uses the globals it resets, however deep
\* frames are nested (beginFrame, endFrame, destroy).
THEOREM GlobalsAreSafe == ResizesFirst /\ Spec => []GlobalsOutliveFrames
<1>1. IInv => GlobalsOutliveFrames
  BY DEF IInv, TypeOK, LevelInv, DestroyInv, GlobalsOutliveFrames, InFrame
<1> QED BY Invariance, <1>1, PTL

\* A destroy() called from inside a frame is left to a frame that will end it, also
\* when frames throw (endFrame).
THEOREM DestroyIsKept == ResizesFirst /\ Spec => []DestroyIsNotForgotten
<1>1. IInv => DestroyIsNotForgotten
  <2> SUFFICES ASSUME IInv, destroyRequested PROVE InFrame # {}
    BY DEF DestroyIsNotForgotten
  <2>1. activeFrames \in 1 .. activeFrames
    BY DEF IInv, TypeOK, DestroyInv
  <2>2. PICK s \in Surfaces : level[s] = activeFrames
    BY <2>1 DEF IInv, LevelInv
  <2> QED BY <2>1, <2>2 DEF InFrame
<1> QED BY Invariance, <1>1, PTL

\* Content that changed has a request or a frame coming, if hosts resize a surface
\* before they render it (scheduleFrame, render).
THEOREM NoFrameIsLost == ResizesFirst /\ Spec => []FrameIsComing
<1>1. IInv => FrameIsComing
  BY DEF IInv, TypeOK, RequestInv, FrameIsComing, InFrame
<1> QED BY Invariance, <1>1, PTL
=============================================================================
