---------------------------- MODULE WaylandSurface ----------------------------
(***************************************************************************)
(* One window of the native backend and the compositor it talks to:        *)
(* CWaylandWindow (a toplevel), CWaylandLayer (a layer surface) or         *)
(* CWaylandLockSurface (a lock surface), with the IWaylandWindow and       *)
(* IToolkitWindow they share: opening and closing, the configure/ack       *)
(* handshake, sizes and their pinning, scheduled frames and frame          *)
(* callbacks, and deferred close requests.                                 *)
(*                                                                         *)
(* The window's code runs on one thread: an event handler, an idle         *)
(* function or an application call is one step.  Events of the compositor  *)
(* arrive in order; those of objects the client has destroyed are dropped. *)
(* Requests reach the compositor at once, which loses nothing: an event    *)
(* sent before a request arrives is one that is already queued.            *)
(*                                                                         *)
(* A size is a number (both coordinates go together), 0 is no size.  The   *)
(* xdg_toplevel.configure and the xdg_surface.configure that ends it are   *)
(* one event, a frame's drawing is one bit (BufferDamage has the detail).  *)
(***************************************************************************)
EXTENDS Integers, Sequences

CONSTANTS
  Kinds,       \* kinds of window: "toplevel", "layer", "lock"
  Sizes,       \* sizes the compositor may choose
  Preferred,   \* SWindowCreationData::preferredSize
  MinSize,     \* SWindowCreationData::minSize, 0 for none
  Requests,    \* sizes the application passes to setSize
  Contents,    \* preferred sizes of the content of an autosized toplevel
  Modes,       \* toplevel states the compositor announces
  EarlyResize, \* whether setSize may be called before the first configure
  MaxOpens,    \* bound: times the window is opened
  MaxQueue,    \* bound: queued events beyond which the compositor volunteers none
  MaxCloses    \* bound: close events of one opening

ASSUME WaylandSurfaceAssumption ==
  /\ Kinds \subseteq {"toplevel", "layer", "lock"}
  /\ Sizes \subseteq Nat \ {0} /\ Requests \subseteq Nat \ {0} /\ Contents \subseteq Nat \ {0}
  /\ Preferred \in Nat \ {0} /\ MinSize \in Nat
  /\ {"free"} \subseteq Modes \* "maximized" is treated like "free"
  /\ Modes \subseteq {"free", "tiled", "resizing", "fullscreen"}
  /\ EarlyResize \in BOOLEAN
  /\ MaxOpens \in Nat /\ MaxQueue \in Nat /\ MaxCloses \in Nat

VARIABLES
  kind,           \* the class of the window
  open,           \* m_open
  role,           \* number of the opening, and of the role object it made
  configured,     \* m_layerState.configured, m_lockSurfaceState.configured
  size,           \* m_waylandState.logicalSize
  buffers,        \* m_waylandState.wlBuffers are there
  frameCallback,  \* m_waylandState.frameCallback is there
  needsFrame,     \* m_needsFrame
  renderIdle,     \* m_scheduledRender, with its idle function
  dirty,          \* what the window should show is not what was last committed
  mode,           \* m_isFullscreen, m_isResizing, m_isTiled
  pendingResize,  \* m_pendingResize.size, 0 if not pending
  closeRequested, \* m_closeRequested
  closeIdle,      \* openings whose toplevel an idle function of deferCloseRequest holds
  reports,        \* closeRequest events emitted in this opening
  comp,           \* the compositor's side of the role object
  queue           \* events on their way to the client

frameVars  == <<frameCallback, needsFrame, renderIdle, dirty>>
resizeVars == <<mode, pendingResize>>
closeVars  == <<closeRequested, closeIdle, reports>>
vars == <<kind, open, role, configured, size, buffers, frameVars, resizeVars, closeVars, comp, queue>>

SizesOrNone == Sizes \cup Requests \cup Contents \cup {Preferred, MinSize, 0}

Events == [type : {"configure"}, role : 1 .. MaxOpens, size : SizesOrNone, mode : Modes]
          \cup [type : {"frameDone", "close", "scale"}, role : 1 .. MaxOpens]

RoleObjects == [size : SizesOrNone, owes : BOOLEAN, acked : BOOLEAN, pin : SizesOrNone,
                mapped : BOOLEAN, frame : BOOLEAN, closes : 0 .. MaxCloses]

\* A role object as the compositor sees it: the size it last configured, whether
\* that is owed or acknowledged, the min == max pin, whether a buffer and a frame
\* callback were committed, and the close events sent.
NewRole ==
  [size |-> 0, owes |-> TRUE, acked |-> FALSE, pin |-> 0, mapped |-> FALSE, frame |-> FALSE,
   closes |-> 0]

TypeOK ==
  /\ kind \in Kinds
  /\ open \in BOOLEAN /\ role \in 0 .. MaxOpens
  /\ configured \in BOOLEAN /\ buffers \in BOOLEAN /\ frameCallback \in BOOLEAN
  /\ needsFrame \in BOOLEAN /\ renderIdle \in BOOLEAN /\ dirty \in BOOLEAN
  /\ closeRequested \in BOOLEAN
  /\ size \in SizesOrNone /\ pendingResize \in SizesOrNone
  /\ mode \in Modes
  /\ closeIdle \subseteq 1 .. MaxOpens
  /\ reports \in Nat
  /\ comp \in RoleObjects
  /\ queue \in Seq(Events)

Init ==
  /\ kind \in Kinds
  /\ open = FALSE /\ role = 0
  /\ configured = FALSE /\ size = 0 /\ buffers = FALSE
  /\ frameCallback = FALSE /\ needsFrame = TRUE /\ renderIdle = FALSE /\ dirty = FALSE
  /\ mode = "free" /\ pendingResize = 0
  /\ closeRequested = FALSE /\ closeIdle = {} /\ reports = 0
  /\ comp = [NewRole EXCEPT !.owes = FALSE]
  /\ queue = <<>>
-----------------------------------------------------------------------------
(* Frames. *)

\* Seeded fault: a frame that is needed is taken to be scheduled.
ScheduleFrameUnlessNeeded == needsFrame' = TRUE /\ renderIdle' = (renderIdle \/ ~needsFrame)

ScheduleFrame == needsFrame' = TRUE /\ renderIdle' = TRUE

\* configure: a positive size is applied, new buffers are made, everything is damaged.
Configure(s) ==
  /\ size' = s
  /\ buffers' = TRUE
  /\ dirty' = TRUE
  /\ ScheduleFrame

\* The compositor after xdg_toplevel.set_min_size and set_max_size of s.
Pinned(s) == [comp EXCEPT !.pin = s, !.owes = @ \/ comp.size # s]

Clamp(s) == IF s < MinSize THEN MinSize ELSE s

\* Whether onPreRender of a toplevel asks for its content's preferred size.
Autosizes(want) ==
  /\ kind = "toplevel" /\ open
  /\ want \notin {0, size}
  /\ pendingResize = 0
  /\ mode \notin {"fullscreen", "resizing"}

\* render() while frameCallback is callback: onPreRender may ask for the size
\* want, a buffer is committed if there is one, tick keeps animations going.
Render(callback, want, tick) ==
  IF callback \/ (kind # "toplevel" /\ ~configured)
  THEN frameCallback' = callback /\ UNCHANGED <<needsFrame, dirty, pendingResize, comp>>
  ELSE /\ needsFrame' = (buffers /\ tick)
       /\ frameCallback' = buffers
       /\ dirty' = (dirty /\ ~buffers)
       /\ pendingResize' = IF Autosizes(want) THEN Clamp(want) ELSE pendingResize
       /\ LET asked == IF Autosizes(want) THEN Pinned(Clamp(want)) ELSE comp
          IN  comp' = IF buffers THEN [asked EXCEPT !.mapped = TRUE, !.frame = TRUE] ELSE asked

\* The idle function of scheduleFrame.
RunRenderIdle ==
  /\ renderIdle
  /\ renderIdle' = FALSE
  /\ \E want \in Contents \cup {0}, tick \in BOOLEAN : Render(frameCallback, want, tick)
  /\ UNCHANGED <<kind, open, role, configured, size, buffers, mode, closeVars, queue>>

\* An element changes its look; without a size the damage is empty.
Damage ==
  /\ open
  /\ dirty' = TRUE
  /\ IF buffers THEN ScheduleFrame ELSE UNCHANGED <<needsFrame, renderIdle>>
  /\ UNCHANGED <<kind, open, role, configured, size, buffers, frameCallback, resizeVars, closeVars,
                 comp, queue>>

\* scheduleReposition.
ScheduleReposition ==
  /\ open
  /\ dirty' = TRUE
  /\ ScheduleFrame
  /\ UNCHANGED <<kind, open, role, configured, size, buffers, frameCallback, resizeVars, closeVars,
                 comp, queue>>
-----------------------------------------------------------------------------
(* The application opens, closes and resizes the window. *)

\* open: a toplevel makes a new wl_surface, the others keep theirs and detach its
\* buffer with the commit that follows the making of the role object.
NewOpening ==
  /\ ~open /\ role < MaxOpens
  /\ open' = TRUE
  /\ role' = role + 1
  /\ comp' = NewRole
  /\ reports' = 0
  /\ dirty' = TRUE
  /\ UNCHANGED <<kind, configured, size, buffers, frameCallback, needsFrame, renderIdle,
                 resizeVars, closeIdle, queue>>

\* Seeded fault: open() leaves m_closeRequested alone.
OpenToplevelKeepingRequest ==
  /\ kind = "toplevel"
  /\ NewOpening
  /\ UNCHANGED closeRequested

OpenToplevel ==
  /\ kind = "toplevel"
  /\ NewOpening
  /\ closeRequested' = FALSE

OpenLayer == kind = "layer" /\ NewOpening /\ UNCHANGED closeRequested

OpenLock == kind = "lock" /\ NewOpening /\ UNCHANGED closeRequested

Closing ==
  /\ open
  /\ open' = FALSE
  /\ size' = 0
  /\ dirty' = FALSE
  /\ UNCHANGED <<role, needsFrame, renderIdle, resizeVars, closeVars, comp>>

\* close() of a toplevel destroys the surface and drops m_waylandState.
CloseToplevel ==
  /\ kind = "toplevel"
  /\ Closing
  /\ frameCallback' = FALSE
  /\ buffers' = FALSE
  /\ UNCHANGED configured

\* Seeded fault: close() of a layer or lock surface forgets the frame callback.
CloseLayerKeepingCallback ==
  /\ kind \in {"layer", "lock"}
  /\ Closing
  /\ configured' = FALSE
  /\ UNCHANGED <<buffers, frameCallback>>

\* Seeded fault: close() leaves m_layerState.configured alone.
CloseLayerConfigured ==
  /\ kind \in {"layer", "lock"}
  /\ Closing
  /\ frameCallback' = FALSE
  /\ UNCHANGED <<configured, buffers>>

\* close() of a layer or lock surface destroys the role object and keeps the
\* wl_surface and its buffers.
CloseLayer ==
  /\ kind \in {"layer", "lock"}
  /\ Closing
  /\ frameCallback' = FALSE
  /\ configured' = FALSE
  /\ UNCHANGED buffers

Close == (CloseToplevel \/ CloseLayer) /\ UNCHANGED <<kind, queue>>

\* CWaylandWindow::setSize: min and max are pinned to the size.
SetSizeToplevel(s) ==
  /\ kind = "toplevel" /\ open
  /\ comp' = Pinned(Clamp(s))
  /\ pendingResize' = Clamp(s)
  /\ UNCHANGED <<kind, open, role, configured, size, buffers, frameVars, mode, closeVars, queue>>

\* CWaylandLayer::setSize: the size is requested and applied at once.
SetSizeLayer(s) ==
  /\ kind = "layer" /\ open
  /\ configured \/ EarlyResize
  /\ size # s
  /\ Configure(s)
  /\ UNCHANGED <<kind, open, role, configured, frameCallback, resizeVars, closeVars, comp, queue>>
-----------------------------------------------------------------------------
(* Events of the compositor, as they are dispatched. *)

\* The configure of a toplevel: the size is applied, a pin the compositor obeyed
\* is released, and the configure acknowledged.
ToplevelConfigure(e) ==
  LET w       == IF e.size = 0 THEN Preferred ELSE e.size
      reached == pendingResize # 0 /\ w - pendingResize \in -1 .. 1
  IN  /\ mode' = e.mode
      /\ IF size # w THEN Configure(w) ELSE UNCHANGED <<size, buffers, needsFrame, renderIdle, dirty>>
      /\ pendingResize' = IF reached THEN 0 ELSE pendingResize
      /\ comp' = [comp EXCEPT !.acked = TRUE, !.pin = IF reached THEN 0 ELSE @]
      /\ UNCHANGED <<open, configured, frameCallback, closeVars>>

\* The configure of a layer or lock surface: one that changes no size is not
\* acknowledged.
LayerConfigure(e) ==
  LET w == IF e.size = 0 THEN Preferred ELSE e.size
  IN  /\ configured' = TRUE
      /\ IF size # w THEN Configure(w) /\ comp' = [comp EXCEPT !.acked = TRUE]
         ELSE UNCHANGED <<size, buffers, needsFrame, renderIdle, dirty, comp>>
      /\ UNCHANGED <<open, frameCallback, resizeVars, closeVars>>

\* The frame callback: the next frame is rendered if one is needed.
OnCallback ==
  /\ IF needsFrame
     THEN \E want \in Contents \cup {0}, tick \in BOOLEAN : Render(FALSE, want, tick)
     ELSE frameCallback' = FALSE /\ UNCHANGED <<needsFrame, dirty, pendingResize, comp>>
  /\ UNCHANGED <<open, configured, size, buffers, renderIdle, mode, closeVars>>

\* The preferred scale changes.
OnScale ==
  /\ IF size # 0 /\ (kind = "toplevel" \/ configured)
     THEN Configure(size)
     ELSE UNCHANGED <<size, buffers, needsFrame, renderIdle, dirty>>
  /\ UNCHANGED <<open, configured, frameCallback, resizeVars, closeVars, comp>>

\* deferCloseRequest, once per opening.
DeferCloseRequest ==
  /\ closeRequested' = TRUE
  /\ closeIdle' = IF closeRequested THEN closeIdle ELSE closeIdle \cup {role}
  /\ UNCHANGED <<open, configured, size, buffers, frameVars, resizeVars, reports, comp>>

\* The handler of event e.
Handle(e) ==
  /\ UNCHANGED <<kind, role>>
  /\ \/ e.type = "configure" /\ kind = "toplevel" /\ ToplevelConfigure(e)
     \/ e.type = "configure" /\ kind # "toplevel" /\ LayerConfigure(e)
     \/ e.type = "frameDone" /\ OnCallback
     \/ e.type = "scale" /\ OnScale
     \/ e.type = "close" /\ kind = "toplevel" /\ DeferCloseRequest
     \/ e.type = "close" /\ kind = "layer" /\ CloseLayer

\* The next event is dispatched; one of an object that is gone has no handler.
Dispatch ==
  /\ queue # <<>>
  /\ queue' = Tail(queue)
  /\ LET e == Head(queue)
     IN  IF open /\ e.role = role THEN Handle(e)
         ELSE UNCHANGED <<kind, open, role, configured, size, buffers, frameVars, resizeVars,
                          closeVars, comp>>

\* The idle function of deferCloseRequest, made for the toplevel of opening r.
RunCloseIdle(r) ==
  /\ r \in closeIdle
  /\ closeIdle' = closeIdle \ {r}
  /\ reports' = IF open /\ r = role THEN reports + 1 ELSE reports
  /\ UNCHANGED <<kind, open, role, configured, size, buffers, frameVars, resizeVars, closeRequested,
                 comp, queue>>
-----------------------------------------------------------------------------
(* The compositor. *)

Send(e) ==
  /\ queue' = Append(queue, e)
  /\ UNCHANGED <<kind, open, role, configured, size, buffers, frameVars, resizeVars, closeVars>>

\* No event follows the closed event of a layer surface.
RoleLives == open /\ (kind = "layer" => comp.closes = 0)

SendConfigure(s, m) ==
  /\ Send([type |-> "configure", role |-> role, size |-> s, mode |-> m])
  /\ comp' = [comp EXCEPT !.size = s, !.owes = comp.pin \notin {0, s}]

\* The configure that the initial commit, or a pin the toplevel does not obey
\* yet, obliges the compositor to send.
SendOwedConfigure ==
  /\ RoleLives
  /\ comp.owes
  /\ IF comp.pin # 0 THEN SendConfigure(comp.pin, mode)
     ELSE \E s \in Sizes \cup {0} : SendConfigure(s, mode)

\* A configure of the compositor's own: a step of an animation, a tiling, an output
\* that changed.
VolunteerConfigure ==
  /\ RoleLives /\ ~comp.owes
  /\ Len(queue) < MaxQueue
  /\ \E s \in Sizes \cup {0}, m \in (IF kind = "toplevel" THEN Modes ELSE {mode}) :
       SendConfigure(s, m)

SendFrameDone ==
  /\ RoleLives /\ comp.frame
  /\ Send([type |-> "frameDone", role |-> role])
  /\ comp' = [comp EXCEPT !.frame = FALSE]

SendScale ==
  /\ RoleLives /\ Len(queue) < MaxQueue
  /\ Send([type |-> "scale", role |-> role])
  /\ UNCHANGED comp

SendClose ==
  /\ RoleLives /\ kind # "lock" /\ comp.closes < MaxCloses
  /\ Send([type |-> "close", role |-> role])
  /\ comp' = [comp EXCEPT !.closes = @ + 1]
-----------------------------------------------------------------------------
Next ==
  \/ OpenToplevel \/ OpenLayer \/ OpenLock
  \/ Close
  \/ \E s \in Requests : SetSizeToplevel(s) \/ SetSizeLayer(s)
  \/ Damage \/ ScheduleReposition
  \/ RunRenderIdle
  \/ \E r \in closeIdle : RunCloseIdle(r)
  \/ Dispatch
  \/ SendOwedConfigure \/ VolunteerConfigure \/ SendFrameDone \/ SendScale \/ SendClose

Spec == Init /\ [][Next]_vars

\* The event loop dispatches and runs its idle functions; the compositor answers
\* what it owes and repaints the surface.
Fairness ==
  /\ WF_vars(RunRenderIdle)
  /\ WF_vars(\E r \in closeIdle : RunCloseIdle(r))
  /\ WF_vars(Dispatch)
  /\ WF_vars(SendOwedConfigure)
  /\ WF_vars(SendFrameDone)

FairSpec == Spec /\ Fairness
-----------------------------------------------------------------------------
\* No buffer is committed to a role object before its first configure has been
\* acknowledged, through closing and opening again (wlr-layer-shell and
\* xdg-shell: a protocol error that ends the connection).
BufferOnlyAfterAck == comp.mapped => comp.acked

\* A change of the content of a configured window always has a frame coming: an
\* idle function that will render, or a frame callback that finds m_needsFrame.
NoLostFrame ==
  open /\ dirty /\ comp.acked => renderIdle \/ (frameCallback /\ needsFrame)

\* closeRequest is reported for close events of this opening's toplevel only, and
\* no more often than they came (deferCloseRequest).
CloseReportedOnlyWhenAsked == reports <= comp.closes

\* A toplevel is pinned to a size only while its resize is pending (setSize,
\* restoreUserSizeConstraints).
PinnedOnlyWhilePending == open /\ comp.pin # 0 => pendingResize = comp.pin

\* The content of an open window reaches the screen.
DamageReachesScreen == (open /\ dirty) ~> (~open \/ ~dirty)

\* The first close event of an opening is reported, unless the window is closed.
FirstCloseReported == (open /\ comp.closes > 0) ~> (~open \/ reports > 0)

=============================================================================
