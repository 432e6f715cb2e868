----------------------------- MODULE BufferDamage -----------------------------
(***************************************************************************)
(* Partial repainting: CDamageRing (src/helpers/DamageRing.cpp) as it is   *)
(* used by IToolkitWindow (src/window/ToolkitWindow.cpp), by the two       *)
(* alternating buffers of IWaylandWindow (src/window/IWaylandWindow.cpp)   *)
(* and by the host's buffers of CEmbeddedSurface                           *)
(* (src/window/EmbeddedSurface.cpp), with the part of COpenGLRenderer      *)
(* (src/renderer/gl/OpenGL.cpp) that reads and rotates the ring.           *)
(*                                                                         *)
(* A window is a set of cells; a region is a set of cells.  A frame is one *)
(* synchronous call and so one step.  The pixels are abstracted to what    *)
(* repainting must get right: which cells of each buffer, and of the       *)
(* screen, differ from the element tree.  getBufferDamage may return the   *)
(* extents of a region of more than eight rectangles instead of the        *)
(* region; that only repaints more and is left out.                        *)
(***************************************************************************)
EXTENDS Integers

CONSTANTS
  Cells,   \* cells a window may cover
  Buffers  \* wlBuffers, and the buffers of the embedding host

WlBuffers == {0, 1}

ASSUME BufferDamageAssumption == WlBuffers \subseteq Buffers

PreviousLen == 2             \* DAMAGE_RING_PREVIOUS_LEN
Ages == 0 .. PreviousLen + 2 \* 0: undefined contents; the last one: older than the ring remembers

VARIABLES
  embedded,     \* TRUE for CEmbeddedSurface, FALSE for IWaylandWindow
  size,         \* CDamageRing::m_size, the cells of the window
  current,      \* m_current
  previous,     \* m_previous
  previousIdx,  \* m_previousIdx
  buffersUp,    \* wlBuffers hold buffers; the embedded surface has a pixel size
  bufIdx,       \* m_waylandState.bufIdx
  age,          \* frames since the host drew into each of its buffers
  stale,        \* cells of each buffer that differ from the element tree
  shown,        \* cells of the screen that differ from the element tree
  repos,        \* cells the elements in m_needsReposition will damage
  needsFrame    \* m_needsFrame

damageVars == <<embedded, size, current, previous, previousIdx, buffersUp, bufIdx, age, stale,
                shown, repos, needsFrame>>

DamageTypeOK ==
  /\ embedded \in BOOLEAN
  /\ size \subseteq Cells
  /\ current \subseteq Cells
  /\ previous \in [0 .. PreviousLen - 1 -> SUBSET Cells]
  /\ previousIdx \in 0 .. PreviousLen - 1
  /\ buffersUp \in BOOLEAN
  /\ bufIdx \in {0, 1}
  /\ age \in [Buffers -> Ages]
  /\ stale \in [Buffers -> SUBSET Cells]
  /\ shown \subseteq Cells
  /\ repos \subseteq Cells
  /\ needsFrame \in BOOLEAN

DamageInit ==
  /\ embedded \in BOOLEAN
  /\ size = {} /\ current = {} /\ repos = {} /\ shown = {}
  /\ previous = [i \in 0 .. PreviousLen - 1 |-> {}]
  /\ previousIdx = 0 /\ bufIdx = 0
  /\ buffersUp = FALSE
  /\ age = [b \in Buffers |-> 0]
  /\ stale = [b \in Buffers |-> {}]
  /\ needsFrame = TRUE
-----------------------------------------------------------------------------
(* The damage ring. *)

\* What setSize leaves in m_current.
SetSize(S) == IF S = size THEN current ELSE current \cup S

\* Seeded fault: the ring keeps one frame of history less.
BufferDamageTooYoung(now, a) ==
  IF a <= 0 \/ a > PreviousLen + 1 THEN size
  ELSE now \cup UNION {previous[(previousIdx + i) % PreviousLen] : i \in 0 .. a - 3}

\* What getBufferDamage(a) returns while m_current is now.
GetBufferDamage(now, a) ==
  IF a <= 0 \/ a > PreviousLen + 1 THEN size
  ELSE now \cup UNION {previous[(previousIdx + i) % PreviousLen] : i \in 0 .. a - 2}

\* rotate() while m_current is now.
Rotate(now) ==
  /\ previousIdx' = (previousIdx + PreviousLen - 1) % PreviousLen
  /\ previous' = [previous EXCEPT ![previousIdx'] = now]
  /\ current' = {}
-----------------------------------------------------------------------------
(* What the application and the compositor or host do to a window. *)

\* An element changes its look in R and damages it.
Damage(R) ==
  /\ LET changed == R \cap size
     IN  /\ current' = current \cup changed
         /\ stale' = [b \in Buffers |-> stale[b] \cup changed]
         /\ shown' = shown \cup changed
         /\ needsFrame' = (needsFrame \/ changed # {})
  /\ UNCHANGED <<embedded, size, previous, previousIdx, buffersUp, bufIdx, age, repos>>

\* scheduleReposition: the elements move, and damage R, in the next onPreRender.
ScheduleReposition(R) ==
  /\ repos' = repos \cup R
  /\ needsFrame' = TRUE
  /\ UNCHANGED <<embedded, size, current, previous, previousIdx, buffersUp, bufIdx, age, stale, shown>>

\* configure with its resizeSwapchain, or resize of an embedded surface: fresh
\* buffers, everything damaged.
Configure(S) ==
  /\ size' = S
  /\ current' = SetSize(S) \cup S
  /\ buffersUp' = TRUE
  /\ stale' = [b \in Buffers |-> S]
  /\ shown' = S
  /\ age' = [b \in Buffers |-> 0]
  /\ needsFrame' = TRUE
  /\ UNCHANGED <<embedded, previous, previousIdx, bufIdx, repos>>

\* close of a toplevel or popup drops the buffers; the ring stays.
CloseWindow ==
  /\ ~embedded
  /\ buffersUp
  /\ buffersUp' = FALSE
  /\ bufIdx' = 0
  /\ UNCHANGED <<embedded, size, current, previous, previousIdx, age, stale, shown, repos, needsFrame>>
-----------------------------------------------------------------------------
(* Frames. *)

\* Seeded fault: needsFrame is cleared at the end of the frame.
FrameClearingLate(b, a, late, later, tick) ==
  LET moved  == repos \cap size
      now    == current \cup moved
      within == late \cap size
      sent   == GetBufferDamage(now \cup within, a)
  IN  /\ stale' = [c \in Buffers |->
           IF c = b THEN ((stale[c] \cup moved) \ GetBufferDamage(now, a)) \cup within
                    ELSE stale[c] \cup moved \cup within]
      /\ shown' = IF embedded THEN stale'[b]
                  ELSE ((shown \cup moved \cup within) \ sent) \cup (stale'[b] \cap sent)
      /\ Rotate(now \cup within)
      /\ repos' = later \cup late
      /\ needsFrame' = tick
      /\ UNCHANGED <<embedded, size, buffersUp>>

(***************************************************************************)
(* render() into buffer b, of reported age a: onPreRender repositions the  *)
(* scheduled elements, which damages them; the damaged part of the buffer  *)
(* is repainted; elements in late change while they are painted (a text    *)
(* that finishes loading in paint() damages itself, schedules a reposition *)
(* and is drawn in the next frame); the damage is reported and the ring    *)
(* rotates.  later is what the repositioning itself schedules, tick says   *)
(* whether an animation wants another frame.                               *)
(***************************************************************************)
Frame(b, a, late, later, tick) ==
  LET moved  == repos \cap size
      now    == current \cup moved
      within == late \cap size
      sent   == GetBufferDamage(now \cup within, a)
  IN  /\ stale' = [c \in Buffers |->
           IF c = b THEN ((stale[c] \cup moved) \ GetBufferDamage(now, a)) \cup within
                    ELSE stale[c] \cup moved \cup within]
      /\ shown' = IF embedded THEN stale'[b]
                  ELSE ((shown \cup moved \cup within) \ sent) \cup (stale'[b] \cap sent)
      /\ Rotate(now \cup within)
      /\ repos' = later \cup late
      /\ needsFrame' = (tick \/ moved # {} \/ within # {} \/ repos' # {})
      /\ UNCHANGED <<embedded, size, buffersUp>>

\* IWaylandWindow::render: the buffers take turns and are taken to be two
\* frames old.
RenderWayland(late, later, tick) ==
  /\ ~embedded
  /\ buffersUp
  /\ Frame(bufIdx, PreviousLen, late, later, tick)
  /\ bufIdx' = (bufIdx + 1) % 2
  /\ UNCHANGED age

\* IWaylandWindow::render without buffers: onPreRender runs, nothing is drawn.
RenderNothing(later) ==
  /\ ~embedded
  /\ ~buffersUp
  /\ LET moved == repos \cap size
     IN  /\ current' = current \cup moved
         /\ stale' = [b \in Buffers |-> stale[b] \cup moved]
         /\ shown' = shown \cup moved
         /\ needsFrame' = (moved # {} \/ later # {})
  /\ repos' = later
  /\ bufIdx' = (bufIdx + 1) % 2
  /\ UNCHANGED <<embedded, size, previous, previousIdx, buffersUp, age>>

\* CEmbeddedSurface::render: the host names the age of the buffer it bound,
\* or asks for a full redraw with age 0.
RenderEmbedded(b, late, later, tick) ==
  /\ embedded
  /\ buffersUp
  /\ \E a \in {0, age[b]} : Frame(b, a, late, later, tick)
  /\ age' = [c \in Buffers |-> IF c = b THEN 1
                               ELSE IF age[c] \in {0, PreviousLen + 2} THEN age[c]
                               ELSE age[c] + 1]
  /\ UNCHANGED bufIdx
-----------------------------------------------------------------------------
DamageNext ==
  \/ \E R \in SUBSET Cells : Damage(R)
  \/ \E R \in SUBSET Cells : ScheduleReposition(R)
  \/ \E S \in SUBSET Cells \ {{}} : Configure(S)
  \/ CloseWindow
  \/ \E later \in SUBSET Cells : RenderNothing(later)
  \/ \E late, later \in SUBSET Cells, tick \in BOOLEAN :
       \/ RenderWayland(late, later, tick)
       \/ \E b \in Buffers : RenderEmbedded(b, late, later, tick)

DamageSpec == DamageInit /\ [][DamageNext]_damageVars
-----------------------------------------------------------------------------
\* What the next frame repaints, in a buffer of age a, once its repositions
\* have damaged what they move.
WillRepaint(a) == GetBufferDamage(current, a) \cup repos

\* Whichever buffer is drawn next, the region its frame repaints contains every
\* cell of it that is out of date: the Wayland buffer whose turn it is taken as
\* two frames old (render, beginRendering), each host buffer by its age.
RepaintCoversStale ==
  buffersUp =>
    \A b \in IF embedded THEN Buffers ELSE WlBuffers :
      stale[b] \subseteq WillRepaint(IF embedded THEN age[b] ELSE IF b = bufIdx THEN 2 ELSE 1)

\* Nothing stays out of date on the screen: a cell that differs from the
\* element tree is damaged or about to be repositioned, and a frame is due
\* (render clears m_needsFrame before onPreRender for this).
ScreenCatchesUp ==
  buffersUp /\ shown # {} => shown \subseteq current \cup repos /\ needsFrame
=============================================================================
