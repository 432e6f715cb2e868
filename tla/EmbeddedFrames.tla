---------------------------- MODULE EmbeddedFrames ----------------------------
(***************************************************************************)
(* The frames of embedded surfaces: CEmbeddedSurface asks its host for a   *)
(* frame (frameRequested), the host calls render(), and CEmbeddedBackend   *)
(* counts the frames that are being rendered so that a destroy() called    *)
(* from inside one waits for its end.                                      *)
(*                                                                         *)
(* Everything runs on one thread.  While a frame is rendered, the code of  *)
(* the application runs from onPreRender (animations, layout) and from     *)
(* painting: it may damage surfaces, create one, render another one, call  *)
(* destroy(), or throw.  Whether a surface's content differs from what its *)
(* host shows is one bit; BufferDamage has the detail.                     *)
(***************************************************************************)
EXTENDS Integers

CONSTANTS
  Surfaces,    \* the surfaces the host may create
  EarlyRender  \* whether the host answers a request of a surface it has not resized yet

ASSUME EmbeddedFramesAssumption == EarlyRender \in BOOLEAN

VARIABLES
  created,          \* m_surfaces
  valid,            \* m_valid and m_open of a surface
  sized,            \* whether m_pixelSize is positive
  needsFrame,       \* m_needsFrame
  requests,         \* frameRequested emitted since the host last called render()
  dirty,            \* content the host does not show yet
  failed,           \* whether the last frame ended with an exception
  level,            \* nesting level of the frame of a surface, 0 if it has none
  painting,         \* whether that frame has collected its damage
  activeFrames,     \* m_activeFrames
  destroyRequested, \* m_destroyRequested
  destroyed         \* m_destroyed, and the globals reset

surfaceVars == <<created, valid, sized>>
frameVars   == <<level, painting, activeFrames>>
backendVars == <<destroyRequested, destroyed>>
vars == <<surfaceVars, needsFrame, requests, dirty, failed, frameVars, backendVars>>

TypeOK ==
  /\ created \subseteq Surfaces /\ valid \subseteq created /\ sized \subseteq created
  /\ needsFrame \subseteq created /\ dirty \subseteq created /\ failed \subseteq created
  /\ requests \in [Surfaces -> Nat]
  /\ level \in [Surfaces -> Nat] /\ painting \subseteq created
  /\ activeFrames \in Nat
  /\ destroyRequested \in BOOLEAN /\ destroyed \in BOOLEAN

Init ==
  /\ created = {} /\ valid = {} /\ sized = {}
  /\ needsFrame = {} /\ requests = [s \in Surfaces |-> 0] /\ dirty = {} /\ failed = {}
  /\ level = [s \in Surfaces |-> 0] /\ painting = {} /\ activeFrames = 0
  /\ destroyRequested = FALSE /\ destroyed = FALSE

\* Frames being rendered, and the one whose code is running.
InFrame == {s \in Surfaces : level[s] > 0}
Running(s) == activeFrames > 0 /\ level[s] = activeFrames
-----------------------------------------------------------------------------
\* scheduleFrame of a valid surface: one request until the next frame begins.
ScheduleFrame(s) ==
  /\ needsFrame' = needsFrame \cup {s}
  /\ requests' = IF s \in needsFrame THEN requests ELSE [requests EXCEPT ![s] = @ + 1]

\* createSurface: the frame that opening scheduled is forgotten.
CreateSurface(s) ==
  /\ s \notin created
  /\ ~destroyed /\ ~destroyRequested
  /\ created' = created \cup {s}
  /\ valid' = valid \cup {s}
  /\ dirty' = dirty \cup {s}
  /\ UNCHANGED <<sized, needsFrame, requests, failed, frameVars, backendVars>>

\* resize to a positive size.
Resize(s) ==
  /\ s \in valid
  /\ sized' = sized \cup {s}
  /\ dirty' = dirty \cup {s}
  /\ ScheduleFrame(s)
  /\ UNCHANGED <<created, valid, failed, frameVars, backendVars>>

\* damage; without a size the region is empty and asks for nothing.
Damage(s) ==
  /\ s \in valid
  /\ dirty' = dirty \cup {s}
  /\ IF s \in sized THEN ScheduleFrame(s) ELSE UNCHANGED <<needsFrame, requests>>
  /\ UNCHANGED <<surfaceVars, failed, frameVars, backendVars>>

\* scheduleReposition, as addChild calls it.
ScheduleReposition(s) ==
  /\ s \in valid
  /\ dirty' = dirty \cup {s}
  /\ ScheduleFrame(s)
  /\ UNCHANGED <<surfaceVars, failed, frameVars, backendVars>>
-----------------------------------------------------------------------------
(* Frames. *)

\* Seeded fault: a request made by onPreRender is forgotten with those before it.
BeginFrameForgetting(s) ==
  /\ level' = [level EXCEPT ![s] = activeFrames + 1]
  /\ activeFrames' = activeFrames + 1
  /\ UNCHANGED needsFrame

\* beginFrame has agreed, the surface needs no frame any more.
BeginFrame(s) ==
  /\ level' = [level EXCEPT ![s] = activeFrames + 1]
  /\ activeFrames' = activeFrames + 1
  /\ needsFrame' = needsFrame \ {s}

\* The host calls render() of a surface that is not being rendered: this answers
\* its requests, also when there is nothing to render to.
Render(s) ==
  /\ s \in created /\ level[s] = 0
  /\ s \in sized \/ EarlyRender
  /\ requests' = [requests EXCEPT ![s] = 0]
  /\ IF s \in valid /\ s \in sized /\ ~destroyed /\ ~destroyRequested
     THEN BeginFrame(s)
     ELSE UNCHANGED <<level, activeFrames, needsFrame>>
  /\ UNCHANGED <<surfaceVars, dirty, failed, painting, backendVars>>

\* After onPreRender the frame collects the damage; what changes later is not in it.
CollectDamage(s) ==
  /\ Running(s) /\ s \notin painting
  /\ painting' = painting \cup {s}
  /\ dirty' = dirty \ {s}
  /\ UNCHANGED <<surfaceVars, needsFrame, requests, failed, level, activeFrames, backendVars>>

\* Everything destroyNow ends.
DestroyNow ==
  /\ destroyed' = TRUE
  /\ destroyRequested' = FALSE
  /\ valid' = {}
  /\ UNCHANGED <<created, sized>>

\* endFrame: the last frame performs a destruction that was requested.
EndFrame(s) ==
  /\ level' = [level EXCEPT ![s] = 0]
  /\ painting' = painting \ {s}
  /\ activeFrames' = activeFrames - 1
  /\ IF activeFrames = 1 /\ destroyRequested THEN DestroyNow
     ELSE UNCHANGED <<surfaceVars, backendVars>>

\* The frame ends; an animation that goes on schedules the next one.
FinishFrame(s) ==
  /\ Running(s) /\ s \in painting
  /\ failed' = failed \ {s}
  /\ \/ ScheduleFrame(s)
     \/ UNCHANGED <<needsFrame, requests>>
  /\ EndFrame(s)
  /\ UNCHANGED dirty

\* Layout or painting throws: render() ends the frame and throws to the host.
FrameThrows(s) ==
  /\ Running(s)
  /\ failed' = failed \cup {s}
  /\ dirty' = dirty \cup {s}
  /\ EndFrame(s)
  /\ UNCHANGED <<needsFrame, requests>>

\* Seeded fault: destroy() does not look for frames.
DestroyAtOnce ==
  /\ ~destroyed /\ ~destroyRequested
  /\ DestroyNow
  /\ UNCHANGED <<needsFrame, requests, dirty, failed, frameVars>>

\* destroy(), by the host between frames or by code that a frame runs.
Destroy ==
  /\ ~destroyed /\ ~destroyRequested
  /\ IF activeFrames > 0
     THEN destroyRequested' = TRUE /\ UNCHANGED <<destroyed, surfaceVars>>
     ELSE DestroyNow
  /\ UNCHANGED <<needsFrame, requests, dirty, failed, frameVars>>
-----------------------------------------------------------------------------
Next ==
  \/ \E s \in Surfaces :
       \/ CreateSurface(s)
       \/ Resize(s) \/ Damage(s) \/ ScheduleReposition(s)
       \/ Render(s) \/ CollectDamage(s) \/ FinishFrame(s) \/ FrameThrows(s)
  \/ Destroy

Spec == Init /\ [][Next]_vars

\* A frame goes on: the code it runs returns or throws, whatever surfaces it renders
\* before it does; the host answers every surface that asks for a frame.
Fairness ==
  \A s \in Surfaces :
    /\ SF_vars(CollectDamage(s) \/ FinishFrame(s) \/ FrameThrows(s))
    /\ SF_vars(requests[s] > 0 /\ Render(s))

FairSpec == Spec /\ Fairness
-----------------------------------------------------------------------------
\* The renderer, the animation manager and the other globals that destroyNow
\* resets are there as long as a frame uses them.
GlobalsOutliveFrames == InFrame # {} => ~destroyed

\* A destruction that was requested is left to a frame that has not ended.
DestroyIsNotForgotten == destroyRequested => InFrame # {}

\* A surface whose content changed has a frame coming: a request the host has not
\* answered, or a frame that has not collected its damage yet.  The host knows of
\* the exception when the last frame failed.
FrameIsComing ==
  \A s \in valid \cap sized \cap dirty :
    requests[s] > 0 \/ (s \in InFrame /\ s \notin painting) \/ s \in failed \/ destroyRequested

\* Changes reach the host's screen, unless a frame fails or the backend goes.
ChangesAreShown ==
  \A s \in Surfaces :
    (s \in valid \cap sized \cap dirty) ~> (s \notin dirty \/ s \notin valid \/ s \in failed)

=============================================================================
