------------------------- MODULE WaylandSurfaceProofs -------------------------
(***************************************************************************)
(* Proofs about WaylandSurface for any sizes, any number of openings and   *)
(* any queue of events: a buffer only follows an acknowledged configure, a *)
(* change of content always has a frame coming, close requests are         *)
(* reported for the opening they were made for, pins belong to a pending   *)
(* resize.                                                                 *)
(***************************************************************************)
EXTENDS WaylandSurface, TLAPS

\* What size, m_configured and the buffers say of the role object.
RoleInv ==
  /\ size # 0 => open /\ buffers /\ comp.acked
  /\ open /\ comp.acked => size # 0
  /\ kind # "toplevel" => (configured <=> open /\ comp.acked)
  /\ kind = "toplevel" /\ buffers => open /\ comp.acked
  /\ comp.mapped => comp.acked

\* A window that is not up to date needs a frame, and one is coming.
FrameInv == open /\ dirty /\ comp.acked => needsFrame /\ (renderIdle \/ frameCallback)

\* Idle functions and events are of openings so far; a close request under way
\* was asked for and has not been reported.
CloseInv ==
  /\ open => role > 0
  /\ closeIdle \subseteq 1 .. role
  /\ \A i \in 1 .. Len(queue) :
       /\ queue[i].role \in 1 .. role
       /\ queue[i].type = "close" /\ queue[i].role = role => comp.closes > 0
  /\ role \in closeIdle => closeRequested /\ reports = 0 /\ comp.closes > 0
  /\ reports > 0 => closeRequested
  /\ reports <= comp.closes

\* Applications that resize a layer wait for its first configure.
NoEarlyResize == ~EarlyResize

IInv == NoEarlyResize /\ TypeOK /\ RoleInv /\ FrameInv /\ CloseInv /\ PinnedOnlyWhilePending
-----------------------------------------------------------------------------
\* A new role object is one.
LEMMA NewRoleTyped ==
  NewRole \in RoleObjects /\ [NewRole EXCEPT !.owes = FALSE] \in RoleObjects
<1>1. 0 \in SizesOrNone /\ 0 \in 0 .. MaxCloses
  BY WaylandSurfaceAssumption DEF SizesOrNone
<1> QED BY <1>1 DEF NewRole, RoleObjects

LEMMA InitIInv == NoEarlyResize /\ Init => IInv
<1> SUFFICES ASSUME NoEarlyResize, Init PROVE IInv
  OBVIOUS
<1> USE DEF Init
<1>1. TypeOK
  <2>1. 0 \in SizesOrNone /\ 0 \in 0 .. MaxOpens /\ "free" \in Modes
    BY WaylandSurfaceAssumption DEF SizesOrNone
  <2>2. comp \in RoleObjects
    BY NewRoleTyped
  <2>3. reports \in Nat /\ closeIdle \subseteq 1 .. MaxOpens /\ queue \in Seq(Events)
    OBVIOUS
  <2> QED BY <2>1, <2>2, <2>3 DEF TypeOK
<1>2. RoleInv /\ FrameInv /\ CloseInv /\ PinnedOnlyWhilePending
  BY DEF RoleInv, FrameInv, CloseInv, PinnedOnlyWhilePending, NewRole
<1> QED BY <1>1, <1>2 DEF IInv

\* Clamping stays within the sizes.
LEMMA Clamped ==
  ASSUME NEW s \in Requests \cup Contents
  PROVE  Clamp(s) \in (Requests \cup Contents \cup {MinSize}) \ {0} /\ Clamp(s) \in Nat
  BY WaylandSurfaceAssumption DEF Clamp

LEMMA OpeningKeepsIInv ==
  ASSUME IInv, OpenToplevel \/ OpenLayer \/ OpenLock
  PROVE  IInv'
<1> USE DEF NewOpening, OpenToplevel, OpenLayer, OpenLock, resizeVars
<1>0. comp' = NewRole
  OBVIOUS
<1>1. TypeOK'
  <2>1. comp' \in RoleObjects
    BY <1>0, NewRoleTyped
  <2>2. role' \in 0 .. MaxOpens
    BY WaylandSurfaceAssumption DEF IInv, TypeOK
  <2>3. /\ open' \in BOOLEAN /\ dirty' \in BOOLEAN /\ closeRequested' \in BOOLEAN
        /\ reports' \in Nat
    <3>1. closeRequested' \in {closeRequested, FALSE} /\ reports' = 0 /\ open' /\ dirty'
      OBVIOUS
    <3> QED BY <3>1 DEF IInv, TypeOK
  <2> QED BY <2>1, <2>2, <2>3 DEF IInv, TypeOK
<1>2. RoleInv'
  BY <1>0 DEF IInv, TypeOK, RoleInv, NewRole
<1>3. FrameInv' /\ PinnedOnlyWhilePending'
  BY <1>0 DEF FrameInv, PinnedOnlyWhilePending, NewRole
<1>4. CloseInv'
  <2>1. role \in Nat /\ role' = role + 1 /\ queue' = queue /\ closeIdle' = closeIdle
    BY WaylandSurfaceAssumption DEF IInv, TypeOK
  <2>2. reports' = 0 /\ comp'.closes = 0
    BY <1>0 DEF NewRole
  <2> QED BY <2>1, <2>2 DEF IInv, CloseInv
<1> QED BY <1>1, <1>2, <1>3, <1>4 DEF IInv

LEMMA ClosingKeepsIInv ==
  ASSUME IInv, Close
  PROVE  IInv'
<1> USE DEF Close, CloseToplevel, CloseLayer, Closing, resizeVars, closeVars
<1>1. TypeOK'
  BY DEF IInv, TypeOK, SizesOrNone
<1>2. RoleInv'
  BY DEF IInv, TypeOK, RoleInv
<1>3. FrameInv' /\ PinnedOnlyWhilePending'
  BY DEF FrameInv, PinnedOnlyWhilePending
<1>4. CloseInv'
  BY DEF IInv, CloseInv
<1> QED BY <1>1, <1>2, <1>3, <1>4 DEF IInv

LEMMA ResizingKeepsIInv ==
  ASSUME IInv, NEW s \in Requests, SetSizeToplevel(s) \/ SetSizeLayer(s)
  PROVE  IInv'
<1> USE DEF frameVars, resizeVars, closeVars, Configure, ScheduleFrame, Pinned
<1>1. CASE SetSizeToplevel(s)
  <2> USE <1>1 DEF SetSizeToplevel
  <2>1. TypeOK'
    <3>1. Clamp(s) \in SizesOrNone
      BY Clamped DEF SizesOrNone
    <3> QED BY <3>1 DEF IInv, TypeOK, RoleObjects
  <2>2. RoleInv'
    BY DEF IInv, TypeOK, RoleInv
  <2>3. FrameInv' /\ PinnedOnlyWhilePending'
    BY DEF IInv, TypeOK, FrameInv, PinnedOnlyWhilePending
  <2>4. CloseInv'
    BY DEF IInv, TypeOK, CloseInv
  <2> QED BY <2>1, <2>2, <2>3, <2>4 DEF IInv
<1>2. CASE SetSizeLayer(s)
  <2> USE <1>2 DEF SetSizeLayer
  <2>1. TypeOK'
    BY DEF IInv, TypeOK, SizesOrNone
  <2>2. RoleInv'
    BY WaylandSurfaceAssumption DEF IInv, NoEarlyResize, TypeOK, RoleInv
  <2>3. FrameInv' /\ PinnedOnlyWhilePending'
    BY DEF IInv, FrameInv, PinnedOnlyWhilePending
  <2>4. CloseInv'
    BY DEF IInv, CloseInv
  <2> QED BY <2>1, <2>2, <2>3, <2>4 DEF IInv
<1> QED BY <1>1, <1>2

LEMMA DamagingKeepsIInv ==
  ASSUME IInv, Damage \/ ScheduleReposition
  PROVE  IInv'
<1> USE DEF Damage, ScheduleReposition, ScheduleFrame, resizeVars, closeVars
<1>1. TypeOK'
  BY DEF IInv, TypeOK
<1>2. RoleInv'
  BY DEF IInv, RoleInv
<1>3. FrameInv' /\ PinnedOnlyWhilePending'
  BY DEF IInv, RoleInv, FrameInv, PinnedOnlyWhilePending
<1>4. CloseInv'
  BY DEF IInv, CloseInv
<1> QED BY <1>1, <1>2, <1>3, <1>4 DEF IInv

\* What rendering leaves behind: a window that is up to date, or one that waits
\* for its frame callback.
RenderResult(callback) ==
  /\ needsFrame' \in BOOLEAN /\ frameCallback' \in BOOLEAN /\ dirty' \in BOOLEAN
  /\ pendingResize' \in SizesOrNone /\ comp' \in RoleObjects
  /\ comp'.closes = comp.closes /\ comp'.acked = comp.acked
  /\ RoleInv' /\ PinnedOnlyWhilePending'
  /\ open /\ comp.acked =>
       ~dirty' \/ (callback /\ frameCallback' /\ needsFrame' = needsFrame /\ dirty' = dirty)

\* Rendering keeps the invariant, whether the idle function runs it (when the
\* frame callback may be there) or the frame callback itself.
LEMMA RenderKeeps ==
  ASSUME IInv, NEW callback \in BOOLEAN, callback => frameCallback,
         NEW want \in Contents \cup {0}, NEW tick \in BOOLEAN,
         Render(callback, want, tick),
         UNCHANGED <<kind, open, role, configured, size, buffers, mode, closeVars>>
  PROVE  RenderResult(callback)
<1> USE DEF closeVars
<1>1. CASE callback \/ (kind # "toplevel" /\ ~configured)
  BY <1>1 DEF Render, RenderResult, IInv, TypeOK, RoleInv, PinnedOnlyWhilePending
<1>2. CASE ~(callback \/ (kind # "toplevel" /\ ~configured))
  <2> DEFINE asked == IF Autosizes(want) THEN Pinned(Clamp(want)) ELSE comp
  <2>1. /\ needsFrame' = (buffers /\ tick) /\ frameCallback' = buffers
        /\ dirty' = (dirty /\ ~buffers)
        /\ pendingResize' = IF Autosizes(want) THEN Clamp(want) ELSE pendingResize
        /\ comp' = IF buffers THEN [asked EXCEPT !.mapped = TRUE, !.frame = TRUE] ELSE asked
    BY <1>2 DEF Render
  <2>2. /\ asked \in RoleObjects
        /\ asked.closes = comp.closes /\ asked.acked = comp.acked /\ asked.mapped = comp.mapped
        /\ asked.pin = IF Autosizes(want) THEN Clamp(want) ELSE comp.pin
    <3>1. CASE Autosizes(want)
      <4>1. Clamp(want) \in SizesOrNone
        BY <3>1, Clamped DEF SizesOrNone, Autosizes
      <4> QED BY <3>1, <4>1 DEF Pinned, IInv, TypeOK, RoleObjects
    <3> QED BY <3>1 DEF IInv, TypeOK
  <2> HIDE DEF asked
  <2>3. /\ comp' \in RoleObjects
        /\ comp'.closes = asked.closes /\ comp'.acked = asked.acked /\ comp'.pin = asked.pin
        /\ comp'.mapped = (asked.mapped \/ buffers)
    BY <2>1, <2>2 DEF IInv, TypeOK, RoleObjects
  <2>4. pendingResize' \in SizesOrNone
    <3>1. Autosizes(want) => Clamp(want) \in SizesOrNone
      BY Clamped DEF SizesOrNone, Autosizes
    <3> QED BY <2>1, <3>1 DEF IInv, TypeOK
  <2>5. needsFrame' \in BOOLEAN /\ frameCallback' \in BOOLEAN /\ dirty' \in BOOLEAN
    BY <2>1 DEF IInv, TypeOK
  <2>6. RoleInv'
    BY <1>2, <2>1, <2>2, <2>3 DEF IInv, TypeOK, RoleInv
  <2>7. PinnedOnlyWhilePending'
    BY <2>1, <2>2, <2>3 DEF IInv, PinnedOnlyWhilePending
  <2>8. open /\ comp.acked => ~dirty'
    BY <2>1 DEF IInv, RoleInv
  <2> QED BY <2>2, <2>3, <2>4, <2>5, <2>6, <2>7, <2>8 DEF RenderResult
<1> QED BY <1>1, <1>2

LEMMA RenderIdleKeepsIInv ==
  ASSUME IInv, RunRenderIdle
  PROVE  IInv'
<1>1. PICK want \in Contents \cup {0}, tick \in BOOLEAN : Render(frameCallback, want, tick)
  BY DEF RunRenderIdle
<1>2. /\ UNCHANGED <<kind, open, role, configured, size, buffers, mode, closeVars>>
      /\ renderIdle' = FALSE /\ queue' = queue
  BY DEF RunRenderIdle
<1>3. frameCallback \in BOOLEAN
  BY DEF IInv, TypeOK
<1>4. RenderResult(frameCallback)
  <2>1. PICK c : c = frameCallback
    OBVIOUS
  <2>2. RenderResult(c)
    BY <1>1, <1>2, <1>3, <2>1, RenderKeeps
  <2> QED BY <2>1, <2>2
<1>5. TypeOK'
  <2>1. /\ needsFrame' \in BOOLEAN /\ frameCallback' \in BOOLEAN /\ dirty' \in BOOLEAN
        /\ pendingResize' \in SizesOrNone /\ comp' \in RoleObjects /\ renderIdle' \in BOOLEAN
    BY <1>2, <1>4 DEF RenderResult
  <2>2. /\ kind' \in Kinds /\ open' \in BOOLEAN /\ role' \in 0 .. MaxOpens
        /\ configured' \in BOOLEAN /\ buffers' \in BOOLEAN /\ size' \in SizesOrNone
        /\ mode' \in Modes /\ queue' \in Seq(Events)
    BY <1>2 DEF IInv, TypeOK
  <2>3. closeRequested' \in BOOLEAN /\ closeIdle' \subseteq 1 .. MaxOpens /\ reports' \in Nat
    BY <1>2 DEF IInv, TypeOK, closeVars
  <2> QED BY <2>1, <2>2, <2>3 DEF TypeOK
<1>6. FrameInv'
  <2> SUFFICES ASSUME open, dirty', comp.acked
               PROVE  needsFrame' /\ frameCallback'
    BY <1>2, <1>4 DEF RenderResult, FrameInv
  <2>1. needsFrame' = needsFrame /\ dirty' = dirty /\ frameCallback'
    BY <1>4 DEF RenderResult
  <2> QED BY <2>1 DEF IInv, FrameInv
<1>7. CloseInv'
  BY <1>2, <1>4 DEF RenderResult, IInv, CloseInv, closeVars
<1> QED BY <1>4, <1>5, <1>6, <1>7 DEF RenderResult, IInv

LEMMA CloseIdleKeepsIInv ==
  ASSUME IInv, NEW r \in closeIdle, RunCloseIdle(r)
  PROVE  IInv'
<1> USE DEF RunCloseIdle, frameVars, resizeVars
<1>1. TypeOK'
  BY DEF IInv, TypeOK
<1>2. RoleInv' /\ FrameInv' /\ PinnedOnlyWhilePending'
  BY DEF IInv, RoleInv, FrameInv, PinnedOnlyWhilePending
<1>3. CloseInv'
  BY DEF IInv, TypeOK, RoleObjects, CloseInv
<1> QED BY <1>1, <1>2, <1>3 DEF IInv

-----------------------------------------------------------------------------
(* Dispatching. *)

\* What remains of the queue are events of openings so far.
QueueFits ==
  /\ queue' \in Seq(Events)
  /\ \A i \in 1 .. Len(queue') :
       /\ queue'[i].role \in 1 .. role
       /\ queue'[i].type = "close" /\ queue'[i].role = role => comp.closes > 0

LEMMA TailFits ==
  ASSUME IInv, queue # <<>>, queue' = Tail(queue)
  PROVE  /\ QueueFits
         /\ Head(queue) \in Events
         /\ Head(queue).type = "close" /\ Head(queue).role = role => comp.closes > 0
<1>1. queue \in Seq(Events) /\ Len(queue) \in Nat \ {0} /\ Head(queue) = queue[1]
  BY DEF IInv, TypeOK
<1>2. 1 \in 1 .. Len(queue)
  BY <1>1
<1>3. Head(queue) \in Events /\ queue' \in Seq(Events)
  BY <1>1
<1>4. Len(queue') = Len(queue) - 1 /\ \A i \in 1 .. Len(queue') : queue'[i] = queue[i + 1]
  BY <1>1
<1>5. \A i \in 1 .. Len(queue') : i + 1 \in 1 .. Len(queue)
  BY <1>1, <1>4
<1>6. \A i \in 1 .. Len(queue) :
        /\ queue[i].role \in 1 .. role
        /\ queue[i].type = "close" /\ queue[i].role = role => comp.closes > 0
  BY DEF IInv, CloseInv
<1>7. QueueFits
  BY <1>3, <1>4, <1>5, <1>6 DEF QueueFits
<1> QED BY <1>1, <1>2, <1>3, <1>6, <1>7

LEMMA DroppingKeepsIInv ==
  ASSUME IInv, QueueFits,
         UNCHANGED <<kind, open, role, configured, size, buffers, frameVars, resizeVars, closeVars, comp>>
  PROVE  IInv'
<1> USE DEF frameVars, resizeVars, closeVars
<1>1. TypeOK'
  BY DEF IInv, TypeOK, QueueFits
<1>2. RoleInv' /\ FrameInv' /\ PinnedOnlyWhilePending'
  BY DEF IInv, RoleInv, FrameInv, PinnedOnlyWhilePending
<1>3. CloseInv'
  BY DEF IInv, CloseInv, QueueFits
<1> QED BY <1>1, <1>2, <1>3 DEF IInv

\* The size a configure event applies.
LEMMA EventSize ==
  ASSUME NEW e \in Events, e.type = "configure"
  PROVE  /\ e.mode \in Modes
         /\ (IF e.size = 0 THEN Preferred ELSE e.size) \in SizesOrNone \ {0}
  BY WaylandSurfaceAssumption DEF Events, SizesOrNone

LEMMA ToplevelConfigureKeepsIInv ==
  ASSUME IInv, QueueFits, open, kind = "toplevel", UNCHANGED <<kind, role>>,
         NEW e \in Events, e.type = "configure", ToplevelConfigure(e)
  PROVE  IInv'
<1> USE DEF closeVars
<1> DEFINE w       == IF e.size = 0 THEN Preferred ELSE e.size
           reached == pendingResize # 0 /\ w - pendingResize \in -1 .. 1
<1>1. w \in SizesOrNone \ {0} /\ e.mode \in Modes
  BY EventSize
<1>2. /\ mode' = e.mode
      /\ IF size # w THEN Configure(w) ELSE UNCHANGED <<size, buffers, needsFrame, renderIdle, dirty>>
      /\ pendingResize' = IF reached THEN 0 ELSE pendingResize
      /\ comp' = [comp EXCEPT !.acked = TRUE, !.pin = IF reached THEN 0 ELSE @]
      /\ UNCHANGED <<open, configured, frameCallback, closeVars>>
  BY DEF ToplevelConfigure
<1>3. reached \in BOOLEAN /\ 0 \in SizesOrNone
  BY DEF SizesOrNone
<1> HIDE DEF w, reached
<1>4. /\ comp' \in RoleObjects /\ comp'.acked = TRUE /\ comp'.closes = comp.closes
      /\ comp'.pin = (IF reached THEN 0 ELSE comp.pin)
  BY <1>2, <1>3 DEF IInv, TypeOK, RoleObjects
<1>5. TypeOK'
  BY <1>1, <1>2, <1>3, <1>4 DEF IInv, TypeOK, QueueFits, Configure, ScheduleFrame
<1>6. RoleInv'
  BY <1>1, <1>2, <1>4 DEF IInv, RoleInv, Configure
<1>7. FrameInv'
  BY <1>1, <1>2, <1>4 DEF IInv, RoleInv, FrameInv, Configure, ScheduleFrame
<1>8. PinnedOnlyWhilePending'
  BY <1>2, <1>4 DEF IInv, PinnedOnlyWhilePending
<1>9. CloseInv'
  BY <1>2, <1>4 DEF IInv, CloseInv, QueueFits
<1> QED BY <1>5, <1>6, <1>7, <1>8, <1>9 DEF IInv

LEMMA LayerConfigureKeepsIInv ==
  ASSUME IInv, QueueFits, open, kind # "toplevel", UNCHANGED <<kind, role>>,
         NEW e \in Events, e.type = "configure", LayerConfigure(e)
  PROVE  IInv'
<1> USE DEF closeVars, resizeVars
<1> DEFINE w == IF e.size = 0 THEN Preferred ELSE e.size
<1>1. w \in SizesOrNone \ {0}
  BY EventSize
<1>2. /\ configured' = TRUE
      /\ IF size # w THEN Configure(w) /\ comp' = [comp EXCEPT !.acked = TRUE]
         ELSE UNCHANGED <<size, buffers, needsFrame, renderIdle, dirty, comp>>
      /\ UNCHANGED <<open, frameCallback, resizeVars, closeVars>>
  BY DEF LayerConfigure
<1> HIDE DEF w
<1>3. /\ comp' \in RoleObjects /\ comp'.acked /\ comp'.closes = comp.closes
      /\ comp'.pin = comp.pin
  BY <1>1, <1>2 DEF IInv, TypeOK, RoleObjects, RoleInv
<1>4. TypeOK'
  BY <1>1, <1>2, <1>3 DEF IInv, TypeOK, QueueFits, Configure, ScheduleFrame
<1>5. RoleInv'
  BY <1>1, <1>2, <1>3 DEF IInv, RoleInv, Configure
<1>6. FrameInv'
  BY <1>1, <1>2, <1>3 DEF IInv, RoleInv, FrameInv, Configure, ScheduleFrame
<1>7. PinnedOnlyWhilePending'
  BY <1>2, <1>3 DEF IInv, PinnedOnlyWhilePending
<1>8. CloseInv'
  BY <1>2, <1>3 DEF IInv, CloseInv, QueueFits
<1> QED BY <1>4, <1>5, <1>6, <1>7, <1>8 DEF IInv

LEMMA OnCallbackKeepsIInv ==
  ASSUME IInv, QueueFits, open, UNCHANGED <<kind, role>>, OnCallback
  PROVE  IInv'
<1>1. UNCHANGED <<kind, open, role, configured, size, buffers, renderIdle, mode, closeVars>>
  BY DEF OnCallback
<1>2. CASE needsFrame
  <2>1. PICK want \in Contents \cup {0}, tick \in BOOLEAN : Render(FALSE, want, tick)
    BY <1>2 DEF OnCallback
  <2>2. RenderResult(FALSE)
    BY <1>1, <2>1, RenderKeeps
  <2>3. TypeOK'
    BY <1>1, <2>2 DEF RenderResult, IInv, TypeOK, QueueFits, closeVars
  <2>4. FrameInv'
    BY <1>1, <2>2 DEF RenderResult, IInv, FrameInv
  <2>5. CloseInv'
    BY <1>1, <2>2 DEF RenderResult, IInv, CloseInv, QueueFits, closeVars
  <2> QED BY <2>2, <2>3, <2>4, <2>5 DEF RenderResult, IInv
<1>3. CASE ~needsFrame
  <2>1. frameCallback' = FALSE /\ UNCHANGED <<needsFrame, dirty, pendingResize, comp>>
    BY <1>3 DEF OnCallback
  <2> USE <1>1, <2>1 DEF closeVars
  <2>2. TypeOK'
    BY DEF IInv, TypeOK, QueueFits
  <2>3. RoleInv' /\ FrameInv' /\ PinnedOnlyWhilePending'
    BY <1>3 DEF IInv, RoleInv, FrameInv, PinnedOnlyWhilePending
  <2>4. CloseInv'
    BY DEF IInv, CloseInv, QueueFits
  <2> QED BY <2>2, <2>3, <2>4 DEF IInv
<1> QED BY <1>2, <1>3

LEMMA OnScaleKeepsIInv ==
  ASSUME IInv, QueueFits, open, UNCHANGED <<kind, role>>, OnScale
  PROVE  IInv'
<1> USE DEF OnScale, closeVars, resizeVars
<1>1. TypeOK'
  BY DEF IInv, TypeOK, QueueFits, Configure, ScheduleFrame
<1>2. RoleInv' /\ FrameInv' /\ PinnedOnlyWhilePending'
  BY DEF IInv, RoleInv, FrameInv, PinnedOnlyWhilePending, Configure, ScheduleFrame
<1>3. CloseInv'
  BY DEF IInv, CloseInv, QueueFits
<1> QED BY <1>1, <1>2, <1>3 DEF IInv

LEMMA DeferCloseKeepsIInv ==
  ASSUME IInv, QueueFits, open, role > 0, comp.closes > 0, UNCHANGED <<kind, role>>,
         DeferCloseRequest
  PROVE  IInv'
<1> USE DEF DeferCloseRequest, frameVars, resizeVars
<1>1. TypeOK'
  BY DEF IInv, TypeOK, QueueFits
<1>2. RoleInv' /\ FrameInv' /\ PinnedOnlyWhilePending'
  BY DEF IInv, RoleInv, FrameInv, PinnedOnlyWhilePending
<1>3. CloseInv'
  BY DEF IInv, TypeOK, CloseInv, QueueFits
<1> QED BY <1>1, <1>2, <1>3 DEF IInv

LEMMA ClosedKeepsIInv ==
  ASSUME IInv, QueueFits, UNCHANGED <<kind, role>>, CloseLayer
  PROVE  IInv'
<1> USE DEF CloseLayer, Closing, resizeVars, closeVars
<1>1. TypeOK'
  BY DEF IInv, TypeOK, SizesOrNone, QueueFits
<1>2. RoleInv' /\ FrameInv' /\ PinnedOnlyWhilePending'
  BY DEF IInv, TypeOK, RoleInv, FrameInv, PinnedOnlyWhilePending
<1>3. CloseInv'
  BY DEF IInv, CloseInv, QueueFits
<1> QED BY <1>1, <1>2, <1>3 DEF IInv

LEMMA DispatchKeepsIInv ==
  ASSUME IInv, Dispatch
  PROVE  IInv'
<1>1. queue # <<>> /\ queue' = Tail(queue)
  BY DEF Dispatch
<1>2. PICK e : e = Head(queue)
  OBVIOUS
<1>3. /\ QueueFits /\ e \in Events
      /\ e.type = "close" /\ e.role = role => comp.closes > 0
  BY <1>1, <1>2, TailFits
<1>4. CASE ~(open /\ e.role = role)
  BY <1>2, <1>3, <1>4, DroppingKeepsIInv DEF Dispatch
<1>5. CASE open /\ e.role = role
  <2>1. Handle(e)
    BY <1>2, <1>5 DEF Dispatch
  <2>2. UNCHANGED <<kind, role>> /\ open
    BY <1>5, <2>1 DEF Handle
  <2>3. CASE e.type = "configure" /\ kind = "toplevel" /\ ToplevelConfigure(e)
    BY <1>3, <2>2, <2>3, ToplevelConfigureKeepsIInv
  <2>4. CASE e.type = "configure" /\ kind # "toplevel" /\ LayerConfigure(e)
    BY <1>3, <2>2, <2>4, LayerConfigureKeepsIInv
  <2>5. CASE e.type = "frameDone" /\ OnCallback
    BY <1>3, <2>2, <2>5, OnCallbackKeepsIInv
  <2>6. CASE e.type = "scale" /\ OnScale
    BY <1>3, <2>2, <2>6, OnScaleKeepsIInv
  <2>7. CASE e.type = "close" /\ kind = "toplevel" /\ DeferCloseRequest
    <3>1. role > 0
      BY <1>3, <1>5 DEF Events
    <3> QED BY <1>3, <1>5, <2>2, <2>7, <3>1, DeferCloseKeepsIInv
  <2>8. CASE e.type = "close" /\ kind = "layer" /\ CloseLayer
    BY <1>3, <2>2, <2>8, ClosedKeepsIInv
  <2> QED BY <2>1, <2>3, <2>4, <2>5, <2>6, <2>7, <2>8 DEF Handle
<1> QED BY <1>4, <1>5
-----------------------------------------------------------------------------
(* The compositor. *)

\* What every event of the compositor leaves of its side of the role object.
RoleKept ==
  /\ comp' \in RoleObjects
  /\ comp'.acked = comp.acked /\ comp'.mapped = comp.mapped /\ comp'.pin = comp.pin
  /\ comp'.closes >= comp.closes

\* Sending an event of the current role object keeps the invariant.
LEMMA SendKeepsIInv ==
  ASSUME IInv, open, RoleKept, NEW e \in Events, e.role = role, Send(e),
         e.type # "close" \/ comp'.closes > 0
  PROVE  IInv'
<1> USE DEF Send, frameVars, resizeVars, closeVars, RoleKept
<1>1. queue \in Seq(Events) /\ Len(queue) \in Nat /\ queue' = Append(queue, e)
  BY DEF IInv, TypeOK
<1>2. /\ queue' \in Seq(Events) /\ Len(queue') = Len(queue) + 1
      /\ queue'[Len(queue) + 1] = e
      /\ \A i \in 1 .. Len(queue) : queue'[i] = queue[i]
  BY <1>1
<1>3. e.role \in 1 .. role /\ role \in Nat
  BY WaylandSurfaceAssumption DEF Events, IInv, TypeOK
<1>4. TypeOK'
  BY <1>2 DEF IInv, TypeOK
<1>5. RoleInv' /\ FrameInv' /\ PinnedOnlyWhilePending'
  BY DEF IInv, RoleInv, FrameInv, PinnedOnlyWhilePending
<1>6. comp.closes \in Nat /\ comp'.closes \in Nat /\ reports \in Nat
  BY DEF IInv, TypeOK, RoleObjects
<1>7. \A i \in 1 .. Len(queue') :
        /\ queue'[i].role \in 1 .. role
        /\ queue'[i].type = "close" /\ queue'[i].role = role => comp'.closes > 0
  <2> SUFFICES ASSUME NEW i \in 1 .. Len(queue')
               PROVE  /\ queue'[i].role \in 1 .. role
                      /\ queue'[i].type = "close" /\ queue'[i].role = role => comp'.closes > 0
    OBVIOUS
  <2>1. CASE i = Len(queue) + 1
    BY <1>2, <1>3, <2>1
  <2>2. CASE i \in 1 .. Len(queue)
    BY <1>2, <1>6, <2>2 DEF IInv, CloseInv
  <2> QED BY <1>1, <1>2, <2>1, <2>2
<1>8. CloseInv'
  BY <1>6, <1>7 DEF IInv, CloseInv
<1> QED BY <1>4, <1>5, <1>8 DEF IInv

LEMMA SendConfigureKeepsIInv ==
  ASSUME IInv, open, NEW s \in SizesOrNone, NEW m \in Modes, SendConfigure(s, m)
  PROVE  IInv'
<1>1. PICK e : e = [type |-> "configure", role |-> role, size |-> s, mode |-> m]
  OBVIOUS
<1>2. role \in 1 .. MaxOpens
  BY WaylandSurfaceAssumption DEF IInv, TypeOK, CloseInv
<1>3. e \in Events /\ e.role = role /\ e.type # "close" /\ Send(e)
  BY <1>1, <1>2 DEF Events, SendConfigure
<1>4. (comp.pin \notin {0, s}) \in BOOLEAN
  OBVIOUS
<1>5. comp' = [comp EXCEPT !.size = s, !.owes = comp.pin \notin {0, s}] /\ comp \in RoleObjects
  BY DEF SendConfigure, IInv, TypeOK
<1>6. RoleKept
  <2>1. comp' \in RoleObjects
    BY <1>4, <1>5 DEF RoleObjects
  <2>2. /\ comp'.acked = comp.acked /\ comp'.mapped = comp.mapped /\ comp'.pin = comp.pin
        /\ comp'.closes = comp.closes
    BY <1>5 DEF RoleObjects
  <2>3. comp.closes \in Nat
    BY <1>5, WaylandSurfaceAssumption DEF RoleObjects
  <2> QED BY <2>1, <2>2, <2>3 DEF RoleKept
<1> QED BY <1>1, <1>3, <1>6, SendKeepsIInv

LEMMA CompositorKeepsIInv ==
  ASSUME IInv,
         SendOwedConfigure \/ VolunteerConfigure \/ SendFrameDone \/ SendScale \/ SendClose
  PROVE  IInv'
<1>0. /\ open /\ comp \in RoleObjects /\ role \in 1 .. MaxOpens /\ mode \in Modes
      /\ comp.pin \in SizesOrNone /\ Sizes \cup {0} \subseteq SizesOrNone
  BY WaylandSurfaceAssumption
     DEF SendOwedConfigure, VolunteerConfigure, SendFrameDone, SendScale, SendClose, RoleLives,
         IInv, TypeOK, CloseInv, SizesOrNone, RoleObjects
<1>1. CASE SendOwedConfigure
  <2>1. \E s \in SizesOrNone, m \in Modes : SendConfigure(s, m)
    BY <1>0, <1>1 DEF SendOwedConfigure
  <2> QED BY <1>0, <2>1, SendConfigureKeepsIInv
<1>2. CASE VolunteerConfigure
  <2>1. \E s \in SizesOrNone, m \in Modes : SendConfigure(s, m)
    BY <1>0, <1>2 DEF VolunteerConfigure
  <2> QED BY <1>0, <2>1, SendConfigureKeepsIInv
<1>3. CASE SendFrameDone
  <2>1. PICK e : e = [type |-> "frameDone", role |-> role]
    OBVIOUS
  <2>2. e \in Events /\ e.role = role /\ e.type # "close" /\ Send(e)
    BY <1>0, <1>3, <2>1 DEF Events, SendFrameDone
  <2>3. RoleKept
    <3>1. comp' \in RoleObjects
      BY <1>0, <1>3 DEF SendFrameDone, RoleObjects
    <3>2. /\ comp'.acked = comp.acked /\ comp'.mapped = comp.mapped /\ comp'.pin = comp.pin
          /\ comp'.closes = comp.closes
      BY <1>0, <1>3 DEF SendFrameDone, RoleObjects
    <3>3. comp.closes \in Nat
      BY <1>0, WaylandSurfaceAssumption DEF RoleObjects
    <3> QED BY <3>1, <3>2, <3>3 DEF RoleKept
  <2> QED BY <1>0, <2>1, <2>2, <2>3, SendKeepsIInv
<1>4. CASE SendScale
  <2>1. PICK e : e = [type |-> "scale", role |-> role]
    OBVIOUS
  <2>2. e \in Events /\ e.role = role /\ e.type # "close" /\ Send(e)
    BY <1>0, <1>4, <2>1 DEF Events, SendScale
  <2>3. RoleKept
    BY <1>0, <1>4 DEF SendScale, RoleObjects, RoleKept
  <2> QED BY <1>0, <2>2, <2>3, SendKeepsIInv
<1>5. CASE SendClose
  <2>1. PICK e : e = [type |-> "close", role |-> role]
    OBVIOUS
  <2>2. e \in Events /\ e.role = role /\ Send(e)
    BY <1>0, <1>5, <2>1 DEF Events, SendClose
  <2>3. RoleKept /\ comp'.closes > 0
    <3>1. comp.closes \in 0 .. MaxCloses /\ comp.closes + 1 \in 0 .. MaxCloses
      BY <1>0, <1>5, WaylandSurfaceAssumption DEF SendClose, RoleObjects
    <3> QED BY <1>0, <1>5, <3>1 DEF SendClose, RoleObjects, RoleKept
  <2> QED BY <1>0, <2>2, <2>3, SendKeepsIInv
<1> QED BY <1>1, <1>2, <1>3, <1>4, <1>5
-----------------------------------------------------------------------------
\* The invariant is inductive.
LEMMA NextKeepsIInv == IInv /\ [Next]_vars => IInv'
<1> SUFFICES ASSUME IInv, [Next]_vars PROVE IInv'
  OBVIOUS
<1>1. CASE OpenToplevel \/ OpenLayer \/ OpenLock
  BY <1>1, OpeningKeepsIInv
<1>2. CASE Close
  BY <1>2, ClosingKeepsIInv
<1>3. CASE \E s \in Requests : SetSizeToplevel(s) \/ SetSizeLayer(s)
  BY <1>3, ResizingKeepsIInv
<1>4. CASE Damage \/ ScheduleReposition
  BY <1>4, DamagingKeepsIInv
<1>5. CASE RunRenderIdle
  BY <1>5, RenderIdleKeepsIInv
<1>6. CASE \E r \in closeIdle : RunCloseIdle(r)
  <2>1. PICK r \in closeIdle : RunCloseIdle(r)
    BY <1>6
  <2> QED BY <2>1, CloseIdleKeepsIInv
<1>7. CASE Dispatch
  BY <1>7, DispatchKeepsIInv
<1>8. CASE SendOwedConfigure \/ VolunteerConfigure \/ SendFrameDone \/ SendScale \/ SendClose
  BY <1>8, CompositorKeepsIInv
<1>9. CASE UNCHANGED vars
  <2> USE <1>9 DEF vars, frameVars, resizeVars, closeVars
  <2>1. TypeOK'
    BY DEF IInv, TypeOK
  <2>2. RoleInv' /\ FrameInv' /\ PinnedOnlyWhilePending'
    BY DEF IInv, RoleInv, FrameInv, PinnedOnlyWhilePending
  <2>3. CloseInv'
    BY DEF IInv, CloseInv
  <2> QED BY <2>1, <2>2, <2>3 DEF IInv
<1> QED BY <1>1, <1>2, <1>3, <1>4, <1>5, <1>6, <1>7, <1>8, <1>9 DEF Next

LEMMA Invariance == NoEarlyResize /\ Spec => []IInv
  BY InitIInv, NextKeepsIInv, PTL DEF Spec

\* The state keeps its types (the class members of CWaylandWindow,
\* CWaylandLayer and CWaylandLockSurface).
THEOREM TypeCorrect == NoEarlyResize /\ Spec => []TypeOK
<1>1. IInv => TypeOK
  BY DEF IInv
<1> QED BY Invariance, <1>1, PTL

\* A buffer is committed only to a role object whose configure was acknowledged,
\* for every history of opening, closing and resizing (render, CWaylandLayer::open).
THEOREM BuffersFollowAcks == NoEarlyResize /\ Spec => []BufferOnlyAfterAck
<1>1. IInv => BufferOnlyAfterAck
  BY DEF IInv, RoleInv, BufferOnlyAfterAck
<1> QED BY Invariance, <1>1, PTL

\* Damage of a configured window is never left without a frame that will draw it
\* (scheduleFrame, the frame callback of IWaylandWindow::render).
THEOREM NoFrameIsLost == NoEarlyResize /\ Spec => []NoLostFrame
<1>1. IInv => NoLostFrame
  BY DEF IInv, FrameInv, NoLostFrame
<1> QED BY Invariance, <1>1, PTL

\* closeRequest is never reported to an opening whose toplevel was not asked to
\* close, however late the idle function runs (deferCloseRequest).
THEOREM CloseReports == NoEarlyResize /\ Spec => []CloseReportedOnlyWhenAsked
<1>1. IInv => CloseReportedOnlyWhenAsked
  BY DEF IInv, CloseInv, CloseReportedOnlyWhenAsked
<1> QED BY Invariance, <1>1, PTL

\* The size constraints of a toplevel are narrowed only while the resize that
\* narrowed them is pending (setSize, restoreUserSizeConstraints).
THEOREM PinsArePending == NoEarlyResize /\ Spec => []PinnedOnlyWhilePending
<1>1. IInv => PinnedOnlyWhilePending
  BY DEF IInv
<1> QED BY Invariance, <1>1, PTL
=============================================================================
