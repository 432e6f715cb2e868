---------------------------- MODULE PaintingProofs ----------------------------
(***************************************************************************)
(* Proofs about what a window shows.  Partial repainting is correct for a  *)
(* window of any set of cells, for the two Wayland buffers and for any set *)
(* of host buffers (BufferDamage); the link under the pointer is one of    *)
(* the text of now (TextRendering); an animation leaves nothing behind     *)
(* where it was (Presentation).                                            *)
(***************************************************************************)
EXTENDS BufferDamage, Presentation, TextRendering, FiniteSetTheorems, WellFoundedInduction, TLAPS

----------------------------------------------------------------------------
\* BufferDamage: what a frame repaints

\* Only cells of the window are ever out of date.
InsideWindow ==
  /\ \A b \in Buffers : stale[b] \subseteq size
  /\ shown \subseteq size

\* The inductive invariant.
IInv == DamageTypeOK /\ InsideWindow /\ RepaintCoversStale /\ ScreenCatchesUp
-----------------------------------------------------------------------------
\* The two slots of the ring: previousIdx is the latest frame, the other slot
\* the one before.
LEMMA RingSlots ==
  ASSUME DamageTypeOK
  PROVE  /\ (previousIdx + 0) % PreviousLen = previousIdx
         /\ (previousIdx + 1) % PreviousLen = 1 - previousIdx
         /\ (previousIdx + PreviousLen - 1) % PreviousLen = 1 - previousIdx
         /\ 1 - previousIdx \in 0 .. PreviousLen - 1
<1>1. previousIdx = 0 \/ previousIdx = 1
  BY DEF DamageTypeOK, PreviousLen
<1> QED
  BY <1>1 DEF PreviousLen

\* What getBufferDamage returns for each age the program passes it.
LEMMA RingDamage ==
  ASSUME DamageTypeOK, NEW now
  PROVE  /\ GetBufferDamage(now, 0) = size
         /\ GetBufferDamage(now, 1) = now
         /\ GetBufferDamage(now, 2) = now \cup previous[previousIdx]
         /\ GetBufferDamage(now, 3) = now \cup previous[previousIdx] \cup previous[1 - previousIdx]
         /\ GetBufferDamage(now, 4) = size
<1>1. GetBufferDamage(now, 0) = size /\ GetBufferDamage(now, 4) = size
  BY DEF GetBufferDamage, PreviousLen
<1>2. GetBufferDamage(now, 1) = now
  <2>1. 0 .. 1 - 2 = {}
    OBVIOUS
  <2> QED
    BY <2>1 DEF GetBufferDamage, PreviousLen
<1>3. GetBufferDamage(now, 2) = now \cup previous[previousIdx]
  <2>1. 0 .. 2 - 2 = {0}
    OBVIOUS
  <2>2. GetBufferDamage(now, 2)
          = now \cup UNION {previous[(previousIdx + i) % PreviousLen] : i \in 0 .. 2 - 2}
    BY DEF GetBufferDamage, PreviousLen
  <2> QED
    BY <2>1, <2>2, RingSlots
<1>4. GetBufferDamage(now, 3) = now \cup previous[previousIdx] \cup previous[1 - previousIdx]
  <2>1. 0 .. 3 - 2 = {0, 1}
    OBVIOUS
  <2>2. GetBufferDamage(now, 3)
          = now \cup UNION {previous[(previousIdx + i) % PreviousLen] : i \in 0 .. 3 - 2}
    BY DEF GetBufferDamage, PreviousLen
  <2> QED
    BY <2>1, <2>2, RingSlots
<1> QED
  BY <1>1, <1>2, <1>3, <1>4

\* The same of the next state: which slots an age of 2 and of 3 reach.
LEMMA RingHolds ==
  ASSUME DamageTypeOK'
  PROVE  /\ GetBufferDamage(current, 1)' = current'
         /\ GetBufferDamage(current, 2)' = current' \cup previous'[previousIdx']
         /\ GetBufferDamage(current, 3)' =
              current' \cup previous'[previousIdx'] \cup previous'[1 - previousIdx']
<1> DEFINE held(a) == UNION {previous'[(previousIdx' + i) % 2] : i \in 0 .. a - 2}
<1>1. (previousIdx' + 0) % 2 = previousIdx' /\ (previousIdx' + 1) % 2 = 1 - previousIdx'
  <2>1. previousIdx' = 0 \/ previousIdx' = 1
    BY DEF DamageTypeOK, PreviousLen
  <2> QED
    BY <2>1
<1>2. 0 .. 1 - 2 = {} /\ 0 .. 2 - 2 = {0} /\ 0 .. 3 - 2 = {0, 1}
  OBVIOUS
<1>3. \A a \in {1, 2, 3} : GetBufferDamage(current, a)' = current' \cup held(a)
  BY DEF GetBufferDamage, PreviousLen
<1>4. /\ held(1) = {}
      /\ held(2) = previous'[previousIdx']
      /\ held(3) = previous'[previousIdx'] \cup previous'[1 - previousIdx']
  BY <1>1, <1>2
<1> QED
  BY <1>3, <1>4
-----------------------------------------------------------------------------
\* Everything damaged since the last frame is repainted, whatever the age.
LEMMA CurrentIsRepainted ==
  ASSUME NEW now, NEW a, NEW x \in size, x \in now
  PROVE  x \in GetBufferDamage(now, a)
BY DEF GetBufferDamage

LEMMA DamageGrows ==
  ASSUME NEW now, NEW more, NEW a
  PROVE  GetBufferDamage(now, a) \subseteq GetBufferDamage(now \cup more, a)
BY DEF GetBufferDamage

(***************************************************************************)
(* A frame into b leaves b, and the screen, out of date only where         *)
(* elements changed while they were painted; those are scheduled for the   *)
(* next frame.  The other buffers miss this frame's damage, which the ring *)
(* now holds.                                                              *)
(***************************************************************************)
FrameResult(b) ==
  /\ buffersUp' /\ size' = size /\ embedded' = embedded
  /\ age' \in [Buffers -> Ages] /\ bufIdx' \in {0, 1} => DamageTypeOK'
  /\ InsideWindow' /\ ScreenCatchesUp'
  /\ stale'[b] \subseteq repos'
  /\ \A c \in Buffers \ {b} :
       stale'[c] \subseteq (stale[c] \ (current \cup repos)) \cup previous'[previousIdx'] \cup repos'
  /\ previousIdx' = 1 - previousIdx
  /\ previous'[previousIdx] = previous[previousIdx]
  /\ current' = {}

LEMMA FrameEffect ==
  ASSUME IInv, buffersUp,
         NEW b \in Buffers, NEW a \in Ages,
         NEW late \in SUBSET Cells, NEW later \in SUBSET Cells, NEW tick \in BOOLEAN,
         Frame(b, a, late, later, tick),
         stale[b] \subseteq GetBufferDamage(current, a) \cup repos
  PROVE  FrameResult(b)
<1> DEFINE moved  == repos \cap size
           now    == current \cup moved
           within == late \cap size
           region == GetBufferDamage(now, a)
           sent   == GetBufferDamage(now \cup within, a)
<1>1. /\ buffersUp' /\ size' = size /\ current' = {} /\ embedded' = embedded
      /\ repos' = later \cup late
      /\ needsFrame' \in BOOLEAN
      /\ within # {} => needsFrame'
      /\ previousIdx' = 1 - previousIdx
      /\ previousIdx' \in 0 .. PreviousLen - 1
      /\ previous' = [previous EXCEPT ![previousIdx'] = now \cup within]
  BY RingSlots DEF IInv, Frame, Rotate
<1>2. /\ now \cup within \in SUBSET Cells
      /\ previous' \in [0 .. PreviousLen - 1 -> SUBSET Cells]
      /\ previous'[previousIdx'] = now \cup within
      /\ previous'[previousIdx] = previous[previousIdx]
  BY <1>1, RingSlots DEF IInv, DamageTypeOK, PreviousLen
<1>3. \A c \in Buffers : stale'[c] = IF c = b THEN ((stale[c] \cup moved) \ region) \cup within
                                     ELSE stale[c] \cup moved \cup within
  BY DEF Frame
<1>4. stale'[b] = within
  <2>1. stale[b] \subseteq size
    BY DEF IInv, InsideWindow
  <2>2. GetBufferDamage(current, a) \subseteq region
    BY DamageGrows
  <2>3. moved \subseteq region
    BY CurrentIsRepainted
  <2>4. stale[b] \cup moved \subseteq region
    BY <2>1, <2>2, <2>3
  <2> QED
    BY <1>3, <2>4
<1>5. shown' \subseteq within
  <2>1. CASE embedded
    BY <2>1, <1>4 DEF Frame
  <2>2. CASE ~embedded
    <3>1. shown' = ((shown \cup moved \cup within) \ sent) \cup (stale'[b] \cap sent)
      BY <2>2 DEF Frame
    <3>2. shown \subseteq size /\ shown \subseteq current \cup repos
      BY DEF IInv, InsideWindow, ScreenCatchesUp
    <3>3. shown \cup moved \cup within \subseteq sent
      BY <3>2, CurrentIsRepainted
    <3> QED
      BY <3>1, <3>3, <1>4
  <2> QED
    BY <2>1, <2>2
<1>6. DamageTypeOK' \/ ~(age' \in [Buffers -> Ages] /\ bufIdx' \in {0, 1})
  <2>1. stale' \in [Buffers -> SUBSET Cells]
    BY DEF Frame, IInv, DamageTypeOK
  <2>2. shown' \subseteq Cells
    BY <1>5 DEF IInv, DamageTypeOK
  <2> QED
    BY <1>1, <1>2, <2>1, <2>2 DEF IInv, DamageTypeOK
<1>7. InsideWindow'
  BY <1>1, <1>3, <1>5 DEF IInv, InsideWindow
<1>8. ScreenCatchesUp'
  BY <1>1, <1>5 DEF ScreenCatchesUp
<1>9. stale'[b] \subseteq repos'
  BY <1>1, <1>4
<1>10. ASSUME NEW c \in Buffers \ {b}
       PROVE  stale'[c] \subseteq (stale[c] \ (current \cup repos)) \cup previous'[previousIdx'] \cup repos'
  <2>1. stale'[c] = stale[c] \cup moved \cup within
    BY <1>3
  <2>2. stale[c] \subseteq size
    BY DEF IInv, InsideWindow
  <2> QED
    BY <1>2, <2>1, <2>2
<1> QED
  BY <1>1, <1>2, <1>6, <1>7, <1>8, <1>9, <1>10 DEF FrameResult
-----------------------------------------------------------------------------
LEMMA InitIInv ==
  ASSUME DamageInit
  PROVE  IInv
<1>1. DamageTypeOK
  <2>1. previous \in [0 .. PreviousLen - 1 -> SUBSET Cells]
    BY DEF DamageInit
  <2>2. age \in [Buffers -> Ages] /\ stale \in [Buffers -> SUBSET Cells]
    BY DEF DamageInit, Ages, PreviousLen
  <2>3. previousIdx \in 0 .. PreviousLen - 1
    BY DEF DamageInit, PreviousLen
  <2> QED
    BY <2>1, <2>2, <2>3 DEF DamageInit, DamageTypeOK
<1>2. InsideWindow
  BY DEF DamageInit, InsideWindow
<1>3. RepaintCoversStale /\ ScreenCatchesUp
  BY DEF DamageInit, RepaintCoversStale, ScreenCatchesUp
<1> QED
  BY <1>1, <1>2, <1>3 DEF IInv

\* A step that damages, or schedules to damage, all that it puts out of date
\* keeps the coverage.
LEMMA DamagingStep ==
  ASSUME RepaintCoversStale, buffersUp,
         UNCHANGED <<embedded, size, previous, previousIdx, bufIdx, age>>,
         current \subseteq current', repos \subseteq repos',
         \A b \in Buffers : stale'[b] \ stale[b] \subseteq size \cap (current' \cup repos')
  PROVE  RepaintCoversStale'
<1> SUFFICES ASSUME NEW b \in IF embedded THEN Buffers ELSE WlBuffers,
                    NEW a, a = IF embedded THEN age[b] ELSE IF b = bufIdx THEN 2 ELSE 1
             PROVE  stale'[b] \subseteq WillRepaint(a)'
  BY DEF RepaintCoversStale
<1>1. stale[b] \subseteq WillRepaint(a) /\ b \in Buffers
  BY BufferDamageAssumption DEF RepaintCoversStale
<1>2. WillRepaint(a) \cup (size \cap (current' \cup repos')) \subseteq WillRepaint(a)'
  BY DEF WillRepaint, GetBufferDamage
<1> QED
  BY <1>1, <1>2

LEMMA DamageKeepsIInv ==
  ASSUME IInv, NEW R \in SUBSET Cells, Damage(R)
  PROVE  IInv'
<1> DEFINE changed == R \cap size
<1>1. DamageTypeOK'
  BY DEF IInv, DamageTypeOK, Damage
<1>2. InsideWindow'
  BY DEF IInv, DamageTypeOK, InsideWindow, Damage
<1>3. ScreenCatchesUp'
  BY DEF IInv, DamageTypeOK, ScreenCatchesUp, Damage
<1>4. RepaintCoversStale'
  <2>1. CASE buffersUp
    <3>1. \A b \in Buffers : stale'[b] \ stale[b] \subseteq size \cap current'
      BY DEF Damage
    <3>2. current \subseteq current' /\ repos' = repos
      BY DEF Damage
    <3>3. UNCHANGED <<embedded, size, previous, previousIdx, bufIdx, age>>
      BY DEF Damage
    <3> QED
      BY <2>1, <3>1, <3>2, <3>3, DamagingStep DEF IInv
  <2>2. CASE ~buffersUp
    BY <2>2 DEF RepaintCoversStale, Damage
  <2> QED
    BY <2>1, <2>2
<1> QED
  BY <1>1, <1>2, <1>3, <1>4 DEF IInv

LEMMA ScheduleRepositionKeepsIInv ==
  ASSUME IInv, NEW R \in SUBSET Cells, ScheduleReposition(R)
  PROVE  IInv'
<1>1. DamageTypeOK'
  BY DEF IInv, DamageTypeOK, ScheduleReposition
<1>2. InsideWindow' /\ ScreenCatchesUp'
  BY DEF IInv, InsideWindow, ScreenCatchesUp, ScheduleReposition
<1>3. RepaintCoversStale'
  <2>1. CASE buffersUp
    <3>1. \A b \in Buffers : stale'[b] = stale[b]
      BY DEF ScheduleReposition
    <3>2. current' = current /\ repos \subseteq repos'
      BY DEF ScheduleReposition
    <3>3. UNCHANGED <<embedded, size, previous, previousIdx, bufIdx, age>>
      BY DEF ScheduleReposition
    <3> QED
      BY <2>1, <3>1, <3>2, <3>3, DamagingStep DEF IInv
  <2>2. CASE ~buffersUp
    BY <2>2 DEF RepaintCoversStale, ScheduleReposition
  <2> QED
    BY <2>1, <2>2
<1> QED
  BY <1>1, <1>2, <1>3 DEF IInv

LEMMA ConfigureKeepsIInv ==
  ASSUME IInv, NEW S \in SUBSET Cells \ {{}}, Configure(S)
  PROVE  IInv'
<1>1. DamageTypeOK'
  <2>1. age' \in [Buffers -> Ages] /\ stale' \in [Buffers -> SUBSET Cells]
    BY DEF Configure, Ages, PreviousLen
  <2> QED
    BY <2>1 DEF IInv, DamageTypeOK, Configure, SetSize
<1>2. InsideWindow' /\ ScreenCatchesUp'
  BY DEF InsideWindow, ScreenCatchesUp, Configure
<1>3. RepaintCoversStale'
  <2>1. \A b \in Buffers : stale'[b] = S
    BY DEF Configure
  <2>2. \A a : S \subseteq WillRepaint(a)'
    BY DEF WillRepaint, GetBufferDamage, Configure
  <2> QED
    BY <2>1, <2>2, BufferDamageAssumption DEF RepaintCoversStale
<1> QED
  BY <1>1, <1>2, <1>3 DEF IInv

LEMMA WithoutBuffersKeepsIInv ==
  ASSUME IInv, CloseWindow \/ \E later \in SUBSET Cells : RenderNothing(later)
  PROVE  IInv'
<1>1. CASE CloseWindow
  BY <1>1 DEF IInv, DamageTypeOK, InsideWindow, RepaintCoversStale, ScreenCatchesUp, CloseWindow
<1>2. ASSUME NEW later \in SUBSET Cells, RenderNothing(later)
      PROVE  IInv'
  <2>1. ~buffersUp' /\ size' = size
    BY <1>2 DEF RenderNothing
  <2>2. DamageTypeOK'
    <3>1. bufIdx' \in {0, 1}
      BY <1>2 DEF IInv, DamageTypeOK, RenderNothing
    <3> QED
      BY <1>2, <3>1 DEF IInv, DamageTypeOK, RenderNothing
  <2>3. InsideWindow'
    BY <1>2 DEF IInv, DamageTypeOK, InsideWindow, RenderNothing
  <2> QED
    BY <2>1, <2>2, <2>3 DEF IInv, RepaintCoversStale, ScreenCatchesUp
<1> QED
  BY <1>1, <1>2

LEMMA RenderWaylandKeepsIInv ==
  ASSUME BufferDamageAssumption, IInv,
         NEW late \in SUBSET Cells, NEW later \in SUBSET Cells, NEW tick \in BOOLEAN,
         RenderWayland(late, later, tick)
  PROVE  IInv'
<1>1. /\ ~embedded /\ buffersUp /\ WlBuffers \subseteq Buffers
      /\ Frame(bufIdx, 2, late, later, tick)
      /\ age' = age /\ bufIdx' = (bufIdx + 1) % 2
  BY DEF BufferDamageAssumption, RenderWayland, PreviousLen
<1>2. bufIdx \in WlBuffers /\ bufIdx' \in WlBuffers /\ bufIdx' # bufIdx
  BY <1>1 DEF IInv, DamageTypeOK, WlBuffers
<1>3. /\ stale[bufIdx] \subseteq GetBufferDamage(current, 2) \cup repos
      /\ stale[bufIdx'] \subseteq current \cup repos
  BY <1>1, <1>2, RingDamage DEF IInv, RepaintCoversStale, WillRepaint
<1>4. 2 \in Ages
  BY DEF Ages, PreviousLen
<1>5. /\ DamageTypeOK' /\ InsideWindow' /\ ScreenCatchesUp'
      /\ stale'[bufIdx] \subseteq repos'
      /\ stale'[bufIdx'] \subseteq previous'[previousIdx'] \cup repos'
  <2>1. age' \in [Buffers -> Ages] /\ bufIdx' \in {0, 1}
    BY <1>1, <1>2 DEF IInv, DamageTypeOK, WlBuffers
  <2>2. PICK b \in Buffers, c \in Buffers : b = bufIdx /\ c = bufIdx'
    BY <1>1, <1>2
  <2>3. Frame(b, 2, late, later, tick) /\ stale[b] \subseteq GetBufferDamage(current, 2) \cup repos
    BY <1>1, <1>3, <2>2
  <2>4. FrameResult(b)
    BY <1>1, <1>4, <2>3, FrameEffect
  <2>5. stale'[c] \subseteq (stale[c] \ (current \cup repos)) \cup previous'[previousIdx'] \cup repos'
    BY <1>2, <2>2, <2>4 DEF FrameResult
  <2> QED
    BY <1>3, <2>1, <2>2, <2>4, <2>5 DEF FrameResult
<1>6. /\ GetBufferDamage(current, 1)' = current'
      /\ GetBufferDamage(current, 2)' = current' \cup previous'[previousIdx']
  BY <1>5, RingHolds
<1>7. RepaintCoversStale'
  <2>1. ~embedded' /\ WlBuffers = {bufIdx, bufIdx'}
    BY <1>1, <1>2 DEF RenderWayland, Frame, WlBuffers
  <2> QED
    BY <1>1, <1>2, <1>5, <1>6, <2>1 DEF RepaintCoversStale, WillRepaint
<1> QED
  BY <1>5, <1>7 DEF IInv

LEMMA RenderEmbeddedKeepsIInv ==
  ASSUME IInv,
         NEW b \in Buffers,
         NEW late \in SUBSET Cells, NEW later \in SUBSET Cells, NEW tick \in BOOLEAN,
         RenderEmbedded(b, late, later, tick)
  PROVE  IInv'
<1>1. PICK a \in {0, age[b]} : Frame(b, a, late, later, tick)
  BY DEF RenderEmbedded
<1>2. /\ embedded /\ buffersUp /\ bufIdx' = bufIdx
      /\ age' = [c \in Buffers |-> IF c = b THEN 1
                                   ELSE IF age[c] \in {0, 4} THEN age[c] ELSE age[c] + 1]
  BY DEF RenderEmbedded, PreviousLen
<1>3. \A c \in Buffers : age[c] \in Ages
  BY DEF IInv, DamageTypeOK
<1>4. a \in Ages
  BY <1>3 DEF Ages, PreviousLen
<1>5. stale[b] \subseteq GetBufferDamage(current, a) \cup repos
  <2>1. CASE a = 0
    BY <2>1, RingDamage DEF IInv, InsideWindow
  <2>2. CASE a = age[b]
    BY <1>2, <2>2 DEF IInv, RepaintCoversStale, WillRepaint
  <2> QED
    BY <2>1, <2>2
<1>6. FrameResult(b)
  BY <1>1, <1>2, <1>4, <1>5, FrameEffect
<1>7. DamageTypeOK' /\ InsideWindow' /\ ScreenCatchesUp'
  <2>1. age' \in [Buffers -> Ages]
    BY <1>2, <1>3 DEF Ages, PreviousLen
  <2> QED
    BY <1>2, <1>6, <2>1 DEF FrameResult, IInv, DamageTypeOK
<1>8. \A c \in Buffers : stale'[c] \subseteq WillRepaint(age[c])'
  <2> SUFFICES ASSUME NEW c \in Buffers
               PROVE  stale'[c] \subseteq WillRepaint(age[c])'
    OBVIOUS
  <2>1. CASE c = b
    BY <1>6, <2>1 DEF FrameResult, WillRepaint
  <2>2. CASE c # b
    <3>1. stale'[c] \subseteq (stale[c] \ (current \cup repos)) \cup previous'[previousIdx'] \cup repos'
      BY <1>6, <2>2 DEF FrameResult
    <3>2. stale[c] \subseteq WillRepaint(age[c])
      BY <1>2 DEF IInv, RepaintCoversStale
    <3>3. CASE age[c] \in {0, 3, 4}
      <4>1. age'[c] \in {0, 4}
        BY <1>2, <2>2, <3>3
      <4>2. GetBufferDamage(current, age[c])' = size'
        BY <4>1 DEF GetBufferDamage, PreviousLen
      <4> QED
        BY <1>7, <4>2 DEF InsideWindow, WillRepaint
    <3>4. CASE age[c] = 1
      <4>1. age'[c] = 2
        BY <1>2, <2>2, <3>4
      <4>2. previous'[previousIdx'] \subseteq GetBufferDamage(current, age[c])'
        BY <1>7, <4>1, RingHolds
      <4>3. stale[c] \subseteq current \cup repos
        BY <3>2, <3>4, RingDamage DEF IInv, WillRepaint
      <4> QED
        BY <3>1, <4>2, <4>3 DEF WillRepaint
    <3>5. CASE age[c] = 2
      <4>1. age'[c] = 3
        BY <1>2, <2>2, <3>5
      <4>2. /\ previous'[previousIdx'] \subseteq GetBufferDamage(current, age[c])'
            /\ previous'[1 - previousIdx'] \subseteq GetBufferDamage(current, age[c])'
        BY <1>7, <4>1, RingHolds
      <4>3. stale[c] \subseteq current \cup repos \cup previous[previousIdx]
        BY <3>2, <3>5, RingDamage DEF IInv, WillRepaint
      <4>4. previous'[1 - previousIdx'] = previous[previousIdx]
        BY <1>6 DEF FrameResult, IInv, DamageTypeOK, PreviousLen
      <4> QED
        BY <3>1, <4>2, <4>3, <4>4 DEF WillRepaint
    <3> QED
      BY <1>3, <3>3, <3>4, <3>5 DEF Ages, PreviousLen
  <2> QED
    BY <2>1, <2>2
<1>9. RepaintCoversStale'
  BY <1>2, <1>6, <1>8 DEF RepaintCoversStale, FrameResult
<1> QED
  BY <1>7, <1>9 DEF IInv
-----------------------------------------------------------------------------
THEOREM Inductive ==
  ASSUME BufferDamageAssumption, IInv, [DamageNext]_damageVars
  PROVE  IInv'
<1>1. CASE UNCHANGED damageVars
  BY <1>1 DEF damageVars, IInv, DamageTypeOK, InsideWindow, RepaintCoversStale, ScreenCatchesUp,
             WillRepaint, GetBufferDamage
<1>2. CASE \E R \in SUBSET Cells : Damage(R)
  BY <1>2, DamageKeepsIInv
<1>3. CASE \E R \in SUBSET Cells : ScheduleReposition(R)
  BY <1>3, ScheduleRepositionKeepsIInv
<1>4. CASE \E S \in SUBSET Cells \ {{}} : Configure(S)
  BY <1>4, ConfigureKeepsIInv
<1>5. CASE CloseWindow \/ \E later \in SUBSET Cells : RenderNothing(later)
  BY <1>5, WithoutBuffersKeepsIInv
<1>6. CASE \E late, later \in SUBSET Cells, tick \in BOOLEAN : RenderWayland(late, later, tick)
  BY <1>6, RenderWaylandKeepsIInv
<1>7. CASE \E late, later \in SUBSET Cells, tick \in BOOLEAN, b \in Buffers :
             RenderEmbedded(b, late, later, tick)
  BY <1>7, RenderEmbeddedKeepsIInv
<1> QED
  BY <1>1, <1>2, <1>3, <1>4, <1>5, <1>6, <1>7 DEF DamageNext

THEOREM Invariance == DamageSpec => []IInv
<1>1. DamageInit => IInv
  BY InitIInv
<1>2. IInv /\ [DamageNext]_damageVars => IInv'
  BY BufferDamageAssumption, Inductive
<1> QED
  BY <1>1, <1>2, PTL DEF DamageSpec

\* Every variable keeps its type, whatever the cells and the buffers: in
\* particular rotate() keeps the ring's index inside m_previous.
THEOREM TypeCorrect == DamageSpec => []DamageTypeOK
BY Invariance, PTL DEF IInv

\* However a window is damaged, resized, closed, reopened and rendered, the
\* region a frame repaints holds all that is out of date in its buffer.
THEOREM RepaintIsComplete == DamageSpec => []RepaintCoversStale
BY Invariance, PTL DEF IInv

\* What is out of date on the screen is damaged or scheduled, and a frame is due.
THEOREM NothingStaysOutOfDate == DamageSpec => []ScreenCatchesUp
BY Invariance, PTL DEF IInv

----------------------------------------------------------------------------
\* TextRendering: the links of a text

TextFields ==
  {"data", "animated", "color", "goal", "lastScale", "width", "needs", "newTex", "waiting",
   "resource", "loaded", "tex", "old", "tinted", "links", "boxes", "hovered",
   "damaged", "pending", "frame"}

TextState(s) == DOMAIN s = TextFields /\ s.data \in Datas

\* r has the text of s, its links and the one under the pointer
SameLinks(r, s) ==
  TextState(r) /\ r.data = s.data /\ r.links = s.links /\ r.hovered = s.hovered

\* The links were parsed from the text of now, and the hovered one is among them.
LinksFit(s) ==
  /\ TextState(s)
  /\ s.links = LinksOf[s.data.text]
  /\ s.hovered # Nothing => s.hovered \in s.links

LEMMA SameLinksFit ==
  ASSUME NEW r, NEW s, LinksFit(s), SameLinks(r, s)
  PROVE  LinksFit(r)
BY DEF LinksFit, SameLinks

\* The small helpers of Text.cpp leave text and links alone.
LEMMA HelpersKeepLinks ==
  ASSUME NEW s, TextState(s)
  PROVE  /\ SameLinks(s, s)
         /\ SameLinks(DamageText(s), s)
         /\ SameLinks(ScheduleTextReposition(s), s)
         /\ \A c : SameLinks(WarpColor(s, c), s) /\ SameLinks(AnimateTo(s, c), s)
         /\ \A v : SameLinks(UpdateScale(s, v), s) /\ SameLinks(LaidOut(s, v), s)
         /\ SameLinks(PostTexLoad(s), s)
<1>1. SameLinks(s, s)
  BY DEF SameLinks
<1>2. ASSUME NEW r, TextState(r)
      PROVE  SameLinks(DamageText(r), r) /\ SameLinks(ScheduleTextReposition(r), r)
  BY <1>2 DEF SameLinks, TextState, TextFields, DamageText, ScheduleTextReposition
<1>3. ASSUME NEW c
      PROVE  SameLinks(WarpColor(s, c), s) /\ SameLinks(AnimateTo(s, c), s)
  <2>1. PICK x : x = [[s EXCEPT !.color = c] EXCEPT !.goal = c]
    OBVIOUS
  <2>2. PICK y : y = [s EXCEPT !.goal = c]
    OBVIOUS
  <2>3. SameLinks(x, s) /\ SameLinks(y, s)
    BY <2>1, <2>2 DEF SameLinks, TextState, TextFields
  <2>4. WarpColor(s, c) = DamageText(x) /\ AnimateTo(s, c) \in {s, DamageText(y)}
    BY <2>1, <2>2 DEF WarpColor, AnimateTo
  <2>5. SameLinks(DamageText(x), x) /\ SameLinks(DamageText(y), y)
    BY <1>2, <2>3 DEF SameLinks
  <2>6. SameLinks(DamageText(x), s) /\ SameLinks(DamageText(y), s)
    BY <2>3, <2>5 DEF SameLinks
  <2> QED BY <1>1, <2>4, <2>6
<1>4. ASSUME NEW v
      PROVE  SameLinks(UpdateScale(s, v), s) /\ SameLinks(LaidOut(s, v), s)
  <2>1. SameLinks(UpdateScale(s, v), s)
    BY DEF SameLinks, TextState, TextFields, UpdateScale
  <2>2. PICK u : u = UpdateScale(s, v)
    OBVIOUS
  <2>3. SameLinks([u EXCEPT !.damaged = TRUE, !.frame = TRUE, !.width = spot,
                            !.needs = @ \/ spot # s.width], u)
    BY <2>1, <2>2 DEF SameLinks, TextState, TextFields
  <2>4. SameLinks(LaidOut(s, v), u)
    BY <2>2, <2>3 DEF LaidOut
  <2> QED BY <2>1, <2>2, <2>4 DEF SameLinks
<1>5. SameLinks(PostTexLoad(s), s)
  <2>1. PICK u : u = [s EXCEPT !.tex = s.resource, !.old = Nothing, !.tinted = s.animated,
                               !.resource = Nothing, !.waiting = FALSE, !.newTex = TRUE, !.boxes = TRUE]
    OBVIOUS
  <2>2. SameLinks(u, s)
    BY <2>1 DEF SameLinks, TextState, TextFields
  <2>3. SameLinks(ScheduleTextReposition(u), u)
    BY <1>2, <2>2 DEF SameLinks
  <2>4. PostTexLoad(s) = ScheduleTextReposition(u)
    BY <2>1 DEF PostTexLoad
  <2> QED BY <2>2, <2>3, <2>4 DEF SameLinks
<1> QED BY <1>1, <1>2, <1>3, <1>4, <1>5

\* Rendering, loading and painting a text leave its links alone as well.
LEMMA RenderTexKeepsLinks ==
  ASSUME NEW s, TextState(s)
  PROVE  SameLinks(RenderTex(s), s)
<1>1. PICK u : u = [s EXCEPT !.old = s.tex, !.tex = Nothing, !.needs = FALSE,
                             !.waiting = TRUE, !.resource = Request(s)]
  OBVIOUS
<1>2. SameLinks(u, s)
  BY <1>1 DEF SameLinks, TextState, TextFields
<1>3. PICK d : d = DamageText(u)
  OBVIOUS
<1>4. SameLinks(d, s)
  BY <1>2, <1>3, HelpersKeepLinks DEF SameLinks
<1>5. RenderTex(s) \in {d, PostTexLoad(d)}
  BY <1>1, <1>3 DEF RenderTex
<1>6. SameLinks(PostTexLoad(d), d)
  BY <1>4, HelpersKeepLinks DEF SameLinks
<1> QED BY <1>4, <1>5, <1>6 DEF SameLinks

LEMMA SetColorKeepsLinks ==
  ASSUME NEW s, TextState(s), NEW differs
  PROVE  SameLinks(SetColor(s, differs), s)
<1>1. PICK w : w = WarpColor(s, s.data.color)
  OBVIOUS
<1>2. SameLinks(w, s) /\ SameLinks(AnimateTo(s, s.data.color), s)
  BY <1>1, HelpersKeepLinks
<1>3. SameLinks([w EXCEPT !.needs = @ \/ differs], w)
  BY <1>2 DEF SameLinks, TextState, TextFields
<1> QED BY <1>1, <1>2, <1>3 DEF SameLinks, SetColor

LEMMA RepositionTextKeepsLinks ==
  ASSUME NEW s, TextState(s)
  PROVE  SameLinks(RepositionText(s), s)
<1>1. PICK u : u = LaidOut(s, scale)
  OBVIOUS
<1>2. SameLinks(u, s) /\ SameLinks(s, s)
  BY <1>1, HelpersKeepLinks
<1>3. SameLinks([u EXCEPT !.pending = FALSE, !.frame = s.frame], u)
  BY <1>2 DEF SameLinks, TextState, TextFields
<1> QED BY <1>1, <1>2, <1>3 DEF SameLinks, RepositionText

LEMMA PaintKeepsLinks ==
  ASSUME NEW s0, TextState(s0)
  PROVE  SameLinks(Paint(s0)[1], s0)
<1>1. PICK s : s = [s0 EXCEPT !.damaged = FALSE]
  OBVIOUS
<1>2. SameLinks(s, s0)
  BY <1>1 DEF SameLinks, TextState, TextFields
<1>3. PICK scaled : scaled = UpdateScale(s, scale)
  OBVIOUS
<1>4. SameLinks(scaled, s)
  BY <1>2, <1>3, HelpersKeepLinks DEF SameLinks
<1>5. PICK again :
        again = IF scaled.needs /\ scaled.resource = Nothing THEN RenderTex(scaled) ELSE scaled
  OBVIOUS
<1>6. SameLinks(again, s)
  BY <1>4, <1>5, RenderTexKeepsLinks DEF SameLinks
<1>7. PICK seen : seen = [again EXCEPT !.newTex = FALSE]
  OBVIOUS
<1>8. SameLinks(seen, s)
  BY <1>6, <1>7 DEF SameLinks, TextState, TextFields
<1>9. SameLinks(DamageText(seen), s)
  BY <1>8, HelpersKeepLinks DEF SameLinks
<1>10. SameLinks(RenderTex(s), s) /\ SameLinks(s, s)
  BY <1>2, RenderTexKeepsLinks, HelpersKeepLinks DEF SameLinks
<1>11. Paint(s0)[1] \in {s, RenderTex(s), again, DamageText(seen)}
  BY <1>1, <1>3, <1>5, <1>7 DEF Paint
<1> QED BY <1>2, <1>6, <1>9, <1>10, <1>11 DEF SameLinks

LEMMA ParseTextFits ==
  ASSUME NEW s, TextState(s)
  PROVE  LinksFit(ParseText(s)) /\ ParseText(s).data = s.data
BY DEF LinksFit, ParseText, TextState, TextFields

LEMMA LinksStart == TextInit => LinksFit(t)
<1> SUFFICES ASSUME TextInit PROVE LinksFit(t)
  OBVIOUS
<1>1. (CHOOSE x \in Texts : TRUE) \in Texts /\ (CHOOSE c \in Colors : TRUE) \in Colors
  BY TextAssumption
<1>2. TextState(t) /\ t.links = LinksOf[t.data.text] /\ t.hovered = Nothing
  BY <1>1 DEF TextInit, TextState, TextFields, Datas
<1> QED BY <1>2 DEF LinksFit

LEMMA SetTextFits ==
  ASSUME LinksFit(t), NEW x \in Texts, SetText(x)
  PROVE  LinksFit(t')
<1>1. PICK d : d = [t.data EXCEPT !.text = x]
  OBVIOUS
<1>2. d \in Datas
  BY <1>1 DEF LinksFit, TextState, Datas
<1>3. PICK s : s = [t EXCEPT !.data = d]
  OBVIOUS
<1>4. TextState(s)
  BY <1>2, <1>3 DEF LinksFit, TextState, TextFields
<1>5. PICK r : r = ParseText(s)
  OBVIOUS
<1>6. LinksFit(r)
  BY <1>4, <1>5, ParseTextFits
<1>7. PICK n : n = [r EXCEPT !.needs = TRUE]
  OBVIOUS
<1>8. SameLinks(n, r)
  BY <1>6, <1>7 DEF LinksFit, SameLinks, TextState, TextFields
<1>9. t' = ScheduleTextReposition(n)
  BY <1>1, <1>3, <1>5, <1>7 DEF SetText
<1>10. SameLinks(t', n)
  BY <1>8, <1>9, HelpersKeepLinks DEF SameLinks
<1> QED BY <1>6, <1>8, <1>10, SameLinksFit DEF SameLinks

LEMMA ReplaceTextDataFits ==
  ASSUME LinksFit(t), NEW d \in Datas, ReplaceTextData(d)
  PROVE  LinksFit(t')
<1>1. PICK given : given = [t EXCEPT !.data = d]
  OBVIOUS
<1>2. /\ TextState(given) /\ given.data = d
      /\ given.links = t.links /\ given.hovered = t.hovered
  BY <1>1 DEF LinksFit, TextState, TextFields
<1>3. PICK parsed : parsed = IF d.text # t.data.text THEN ParseText(given) ELSE given
  OBVIOUS
<1>4. LinksFit(parsed)
  <2>1. CASE d.text # t.data.text
    BY <2>1, <1>2, <1>3, ParseTextFits
  <2>2. CASE d.text = t.data.text
    BY <2>2, <1>2, <1>3 DEF LinksFit
  <2> QED BY <2>1, <2>2
<1>5. PICK colored : colored = SetColor(parsed, d.color # t.goal)
  OBVIOUS
<1>6. SameLinks(colored, parsed)
  BY <1>4, <1>5, SetColorKeepsLinks DEF LinksFit
<1>7. PICK n : n = [colored EXCEPT !.needs = @ \/ (d.text # t.data.text \/ d.clamp # t.data.clamp)]
  OBVIOUS
<1>8. SameLinks(n, colored)
  BY <1>6, <1>7 DEF SameLinks, TextState, TextFields
<1>9. t' = ScheduleTextReposition(n)
  BY <1>1, <1>3, <1>5, <1>7 DEF ReplaceTextData
<1>10. SameLinks(t', n)
  BY <1>8, <1>9, HelpersKeepLinks DEF SameLinks
<1> QED BY <1>4, <1>6, <1>8, <1>10, SameLinksFit DEF SameLinks

LEMMA AnimateTextColorFits ==
  ASSUME LinksFit(t), NEW on \in BOOLEAN, AnimateTextColor(on)
  PROVE  LinksFit(t')
<1>1. PICK set : set = [t EXCEPT !.animated = on, !.needs = TRUE]
  OBVIOUS
<1>2. SameLinks(set, t)
  BY <1>1 DEF LinksFit, SameLinks, TextState, TextFields
<1>3. PICK w : w = WarpColor(set, set.goal)
  OBVIOUS
<1>4. SameLinks(w, t)
  BY <1>2, <1>3, HelpersKeepLinks DEF SameLinks
<1>5. t' \in {DamageText(set), DamageText(w)}
  BY <1>1, <1>3 DEF AnimateTextColor
<1>6. SameLinks(t', t)
  BY <1>2, <1>4, <1>5, HelpersKeepLinks DEF SameLinks
<1> QED BY <1>6, SameLinksFit

LEMMA RecheckTextColorFits ==
  ASSUME LinksFit(t), NEW c \in Colors, RecheckTextColor(c)
  PROVE  LinksFit(t')
<1>1. PICK d : d = [t.data EXCEPT !.color = c]
  OBVIOUS
<1>2. d \in Datas /\ d.text = t.data.text
  BY <1>1 DEF LinksFit, TextState, Datas
<1>3. PICK s : s = [t EXCEPT !.data = d]
  OBVIOUS
<1>4. TextState(s) /\ s.data = d /\ s.links = t.links /\ s.hovered = t.hovered
  BY <1>2, <1>3 DEF LinksFit, TextState, TextFields
<1>5. t' = SetColor(s, TRUE)
  BY <1>1, <1>3 DEF RecheckTextColor
<1>6. SameLinks(t', s)
  BY <1>4, <1>5, SetColorKeepsLinks
<1> QED BY <1>2, <1>4, <1>6 DEF LinksFit, SameLinks

LEMMA TextFrameFits ==
  ASSUME LinksFit(t), TextFrame
  PROVE  LinksFit(t')
<1>1. PICK ticked : ticked = IF t.color # t.goal THEN WarpColor(t, t.goal) ELSE t
  OBVIOUS
<1>2. SameLinks(ticked, t)
  BY <1>1, HelpersKeepLinks DEF LinksFit
<1>3. PICK off : off = [ticked EXCEPT !.frame = FALSE]
  OBVIOUS
<1>4. SameLinks(off, t)
  BY <1>2, <1>3 DEF SameLinks, TextState, TextFields
<1>5. PICK laid : laid = RepositionText(off)
  OBVIOUS
<1>6. SameLinks(laid, t)
  BY <1>4, <1>5, RepositionTextKeepsLinks DEF SameLinks
<1>7. SameLinks(Paint(laid)[1], t)
  BY <1>6, PaintKeepsLinks DEF SameLinks
<1>8. t' \in {laid, Paint(laid)[1]}
  BY <1>1, <1>3, <1>5 DEF TextFrame
<1> QED BY <1>6, <1>7, <1>8, SameLinksFit

LEMMA OtherTextStepsFit ==
  ASSUME LinksFit(t),
         \/ \E s \in Scales : Rescale(s)
         \/ \E w \in Widths : ResizeParent(w)
         \/ Attach \/ Detach \/ Loaded \/ LoadedIdle
  PROVE  LinksFit(t')
<1>1. ASSUME NEW s \in Scales, Rescale(s)
      PROVE  LinksFit(t')
  BY <1>1, HelpersKeepLinks, SameLinksFit DEF Rescale, LinksFit
<1>2. ASSUME NEW w \in Widths, ResizeParent(w)
      PROVE  LinksFit(t')
  BY <1>2, HelpersKeepLinks, SameLinksFit DEF ResizeParent, LinksFit
<1>3. CASE Attach
  <2>1. SameLinks(t', t)
    BY <1>3 DEF Attach, LinksFit, SameLinks, TextState, TextFields
  <2> QED BY <2>1, SameLinksFit
<1>4. CASE Detach
  <2>1. SameLinks(t', t)
    BY <1>4 DEF Detach, LinksFit, SameLinks, TextState, TextFields
  <2> QED BY <2>1, SameLinksFit
<1>5. CASE Loaded
  <2>1. SameLinks(t', t)
    BY <1>5 DEF Loaded, LinksFit, SameLinks, TextState, TextFields
  <2> QED BY <2>1, SameLinksFit
<1>6. CASE LoadedIdle
  <2>1. PICK r : r = PostTexLoad(t)
    OBVIOUS
  <2>2. SameLinks(r, t)
    BY <2>1, HelpersKeepLinks DEF LinksFit
  <2>3. SameLinks(t', r)
    BY <1>6, <2>1, <2>2 DEF LoadedIdle, SameLinks, TextState, TextFields
  <2> QED BY <2>2, <2>3, SameLinksFit DEF SameLinks
<1> QED BY <1>1, <1>2, <1>3, <1>4, <1>5, <1>6

LEMMA OnMouseMoveFits ==
  ASSUME LinksFit(t), NEW link, OnMouseMove(link)
  PROVE  LinksFit(t')
BY DEF OnMouseMove, LinksFit, TextState, TextFields

TextIInv == LinksFit(t)

LEMMA LinksStep == TextIInv /\ [TextNext]_textVars => TextIInv'
<1> SUFFICES ASSUME LinksFit(t), [TextNext]_textVars PROVE LinksFit(t')
  BY DEF TextIInv
<1>1. CASE UNCHANGED textVars
  BY <1>1 DEF textVars
<1>2. CASE TextNext
  BY <1>2, SetTextFits, ReplaceTextDataFits, AnimateTextColorFits, RecheckTextColorFits,
     TextFrameFits, OtherTextStepsFit, OnMouseMoveFits DEF TextNext
<1> QED BY <1>1, <1>2

\* The hovered link of Text.cpp is a pointer into the links of the text, and every path
\* that gives the element another text clears it: the link that a click opens is always one
\* of the text of now.
THEOREM ClicksOpenLinksOfNow == TextSpec => []HoverIsOfThisText
<1>1. TextIInv => HoverIsOfThisText
  BY DEF TextIInv, LinksFit, HoverIsOfThisText
<1>2. TextInit => TextIInv
  BY LinksStart DEF TextIInv
<1> QED BY <1>1, <1>2, LinksStep, PTL DEF TextSpec

----------------------------------------------------------------------------
\* Presentation: what an animation damages, and what the next tick promises to damage

Geometry(e) == Var(e, "geometry")

VarRecords ==
  [on : BOOLEAN, value : Int, begun : Int, goal : Int, run : BOOLEAN, cfg : Policies, left : Int]
Pictures ==
  [pos : [Elements -> Int], var : [Keys -> VarRecords], active : Seq(Keys),
   last : [Elements -> SUBSET Int], damage : SUBSET Window, frame : BOOLEAN, presented : BOOLEAN]

AnimationTypes ==
  /\ p \in Pictures /\ offset \in [Elements -> Nat] /\ pending \in SUBSET Elements
  /\ policy \in [Keys -> Policies] /\ carried \in BOOLEAN

\* Where "inner" may be in "outer"
Room == 0 .. Length["outer"] - Length["inner"]

\* The variables in the list are the ones that run, and they are animated.
Listed(q) ==
  \A k \in Keys : /\ Connected(q, k) <=> q.var[k].run
                  /\ k[2] # "color" /\ q.var[k].run => q.var[k].on

\* A box that does not run is at its goal, which is where the layout puts the element.
VarFits(q, e) ==
  LET g == q.var[Geometry(e)]
  IN  /\ g.on => g.goal = GeometryFor(q, e)
      /\ g.on /\ ~g.run => g.value = g.goal
VarsFit(q) == \A e \in Elements : VarFits(q, e)

\* The child stays in its parent, in the layout and on the way.
ChildFits(q) ==
  /\ q.pos["inner"] - q.pos["outer"] \in Room
  /\ LET g == q.var[Geometry("inner")] IN g.on => {g.value, g.begun, g.goal} \subseteq Room

\* What an animated element covers in the window
Covers(q, e) == PresentationBox(q, e) \cap Window
Layout(q, e) == q.pos[e] .. (q.pos[e] + Length[e] - 1)

\* The next tick of the geometries in due damages where their elements were seen last.
Promised(q, due) == UNION {q.last[e] : e \in due}
Running(q) == {e \in Elements : q.var[Geometry(e)].run}

LastCovers(q) == "outer" \in Running(q) => Covers(q, "outer") \subseteq q.last["outer"]

\* Every cell that the screen shows wrongly is damaged, or the next tick damages it; so is every
\* cell that is about to change with an element.
Accounted(q, s, due) ==
  /\ \A c \in Window \ (q.damage \cup Promised(q, due)) : s[c] = Shown(q)[c]
  /\ \A e \in due : Covers(q, e) \subseteq q.damage \cup Promised(q, due)
  /\ \A e \in Elements : Covers(q, e) \subseteq q.damage \cup Promised(q, due) \cup Layout(q, e)

PictureFits(q, s, unsure) ==
  /\ q \in Pictures /\ Listed(q) /\ VarsFit(q) /\ ChildFits(q) /\ LastCovers(q)
  /\ unsure \/ Accounted(q, s, Running(q))

AnimationIInv ==
  /\ AnimationTypes /\ PictureFits(p, screen, carried)
  /\ offset["inner"] \in Room
  /\ ~p.presented => p.damage = Window /\ "outer" \in pending

----------------------------------------------------------------------------
\* Chains of steps: recursion over a list, and what it keeps

LEMMA LastExists ==
  ASSUME NEW m \in Int, NEW n \in Int, NEW set \in SUBSET (m .. n), set # {}
  PROVE  \E x \in set : \A y \in set : y <= x
<1> DEFINE later == [x \in set |-> {y \in set : x < y}]
           laters == {later[x] : x \in set}
           R == StrictSubsetOrdering(set)
           F == FiniteSubsetsOf(set)
<1>1. IsFiniteSet(set)
  BY FS_Interval, FS_Subset
<1>2. laters \subseteq F /\ laters # {}
  <2>1. \A x \in set : IsFiniteSet(later[x])
    BY <1>1, FS_Subset
  <2> QED BY <2>1 DEF FiniteSubsetsOf
<1>3. \E s \in laters : \A u \in laters : ~(<<u, s>> \in R)
  <2> HIDE DEF laters, R, F
  <2>1. IsWellFoundedOn(R, F)
    BY <1>1, FS_StrictSubsetOrderingWellFounded DEF R, F
  <2> QED BY <1>2, <2>1, WFMin
<1>4. PICK x \in set : \A y \in set : ~(<<later[y], later[x]>> \in R)
  BY <1>3
<1>5. ASSUME NEW y \in set, x < y PROVE FALSE
  <2>1. x \in Int /\ y \in Int /\ \A z \in set : z \in Int
    OBVIOUS
  <2>2. later[y] = {z \in set : y < z} /\ later[x] = {z \in set : x < z}
    OBVIOUS
  <2>5. y \in later[x] /\ y \notin later[y]
    BY <1>5, <2>1, <2>2
  <2>6. \A z \in later[y] : z \in later[x]
    BY <1>5, <2>1, <2>2
  <2>3. later[y] \subseteq set /\ later[x] \subseteq set
    OBVIOUS
  <2> HIDE DEF later
  <2>4. <<later[y], later[x]>> \in R
    BY <2>5, <2>6, <2>3 DEF StrictSubsetOrdering
  <2> QED BY <1>4, <1>5, <2>4
<1>6. \A y \in set : x \in Int /\ y \in Int /\ ~(x < y)
  BY <1>5
<1> QED BY <1>6

\* n steps from base, each of them a function of V, are a function.
Chain(n, V, base, step) == n \in Nat /\ base \in V /\ step \in [1 .. n -> [V -> V]]
Follows(f, n, base, step) == f[0] = base /\ \A i \in 1 .. n : f[i] = step[i][f[i - 1]]

LEMMA StepsExist ==
  ASSUME NEW n, NEW V, NEW base, NEW step, Chain(n, V, base, step)
  PROVE  \E f \in [0 .. n -> V] : Follows(f, n, base, step)
<1> n \in Nat /\ base \in V /\ step \in [1 .. n -> [V -> V]]
  BY DEF Chain
<1> DEFINE Good(f, m) == f[0] = base /\ \A i \in 1 .. m : f[i] = step[i][f[i - 1]]
           reached == {m \in 0 .. n : \E f \in [0 .. n -> V] : Good(f, m)}
<1>1. 0 \in reached
  <2> DEFINE z == [i \in 0 .. n |-> base]
  <2>1. z \in [0 .. n -> V] /\ 0 \in 0 .. n /\ Good(z, 0)
    OBVIOUS
  <2> HIDE DEF z, Good
  <2> QED BY <2>1
<1>2. ASSUME NEW m \in reached, m # n PROVE m + 1 \in reached
  <2>1. m \in 0 .. n /\ m + 1 \in 1 .. n /\ m + 1 \in 0 .. n /\ (m + 1) - 1 = m
    BY <1>2
  <2>2. PICK f \in [0 .. n -> V] : Good(f, m)
    BY <1>2
  <2> DEFINE g == [i \in 0 .. n |-> IF i = m + 1 THEN step[m + 1][f[m]] ELSE f[i]]
  <2>3. step[m + 1][f[m]] \in V
    BY <2>1, <2>2
  <2>4. g \in [0 .. n -> V]
    BY <2>2, <2>3
  <2>5. g[0] = base
    BY <2>1, <2>2
  <2>6. ASSUME NEW i \in 1 .. m + 1 PROVE g[i] = step[i][g[i - 1]]
    <3>1. i \in 0 .. n /\ i - 1 \in 0 .. n /\ i - 1 # m + 1 /\ g[i - 1] = f[i - 1]
      BY <2>1
    <3>2. CASE i = m + 1
      BY <2>1, <3>1, <3>2
    <3>3. CASE i # m + 1
      <4>1. i \in 1 .. m
        BY <2>1, <3>3
      <4> QED BY <2>2, <3>1, <3>3, <4>1
    <3> QED BY <3>2, <3>3
  <2>7. Good(g, m + 1)
    BY <2>5, <2>6
  <2> HIDE DEF g, Good
  <2> QED BY <2>1, <2>4, <2>7
<1>3. PICK m \in reached : \A k \in reached : k <= m
  <2>1. reached \in SUBSET (0 .. n) /\ 0 \in Int /\ n \in Int
    OBVIOUS
  <2> HIDE DEF reached
  <2> QED BY <1>1, <2>1, LastExists
<1>4. m = n
  <2>1. m \in 0 .. n
    BY <1>3
  <2> HIDE DEF reached
  <2> QED BY <1>2, <1>3, <2>1
<1> QED BY <1>3, <1>4 DEF Follows

\* What holds at first and survives each step holds at the end.
LEMMA StepsKeep ==
  ASSUME NEW n \in Nat, NEW good \in SUBSET (0 .. n), 0 \in good,
         \A i \in 0 .. n - 1 : i \in good => i + 1 \in good
  PROVE  n \in good
<1> DEFINE reached == {m \in 0 .. n : m \in good}
<1>1. PICK m \in reached : \A k \in reached : k <= m
  <2>1. reached \in SUBSET (0 .. n) /\ 0 \in Int /\ n \in Int /\ 0 \in reached
    OBVIOUS
  <2> HIDE DEF reached
  <2> QED BY <2>1, LastExists
<1>2. m = n
  <2>1. m \in 0 .. n /\ m \in good
    BY <1>1
  <2>2. ASSUME m # n PROVE FALSE
    <3>1. m \in 0 .. n - 1 /\ m + 1 \in 0 .. n
      BY <2>1, <2>2
    <3>2. m + 1 \in reached
      BY <2>1, <3>1
    <3> HIDE DEF reached
    <3> QED BY <1>1, <2>1, <3>2
  <2> QED BY <2>2
<1> QED BY <1>1, <1>2

Within(list) == {list[i] : i \in DOMAIN list}

LEMMA KeptIsWithin ==
  ASSUME NEW list \in Seq(Keys), NEW keep
  PROVE  Kept(list, keep) \in Seq(Keys) /\ Within(Kept(list, keep)) = Within(list) \cap keep
<1> DEFINE n == Len(list)
           V == Seq(Keys)
           step == [i \in 1 .. n |-> [v \in V |-> IF list[i] \in keep THEN Append(v, list[i]) ELSE v]]
           Steps1(f) == [i \in 0 .. n |->
                           IF i = 0 THEN <<>>
                           ELSE IF list[i] \in keep THEN Append(f[i - 1], list[i]) ELSE f[i - 1]]
           kept == CHOOSE f : f = Steps1(f)
<1>1. n \in Nat /\ <<>> \in V /\ \A i \in 1 .. n : list[i] \in Keys
  OBVIOUS
<1>2. step \in [1 .. n -> [V -> V]]
  OBVIOUS
<1>3. PICK f \in [0 .. n -> V] : f[0] = <<>> /\ \A i \in 1 .. n : f[i] = step[i][f[i - 1]]
  <2>1. Chain(n, V, <<>>, step)
    BY <1>1, <1>2 DEF Chain
  <2> HIDE DEF V, step, n
  <2>2. \E f \in [0 .. n -> V] : Follows(f, n, <<>>, step)
    BY <2>1, StepsExist
  <2> QED BY <2>2 DEF Follows
<1>4. f = Steps1(f)
  <2>1. ASSUME NEW i \in 0 .. n PROVE f[i] = Steps1(f)[i]
    <3>1. CASE i = 0
      BY <1>3, <3>1
    <3>2. CASE i # 0
      <4>1. i \in 1 .. n /\ f[i - 1] \in V
        BY <1>1, <3>2
      <4> HIDE DEF V
      <4> QED BY <1>3, <3>2, <4>1
    <3> QED BY <3>1, <3>2
  <2> HIDE DEF V
  <2> QED BY <2>1
<1>5. kept = Steps1(kept)
  BY <1>4
<1>6. Kept(list, keep) = kept[n]
  BY DEF Kept
<1> HIDE DEF kept
<1>7. \A i \in 0 .. n : kept[i] = IF i = 0 THEN <<>>
                                 ELSE IF list[i] \in keep THEN Append(kept[i - 1], list[i])
                                 ELSE kept[i - 1]
  BY <1>5
<1> DEFINE good == {i \in 0 .. n : kept[i] \in Seq(Keys)
                                   /\ Within(kept[i]) = {list[j] : j \in 1 .. i} \cap keep}
<1>8. 0 \in good
  <2>1. 0 \in 0 .. n /\ kept[0] = <<>>
    BY <1>1, <1>7
  <2>2. Within(<<>>) = {} /\ {list[j] : j \in 1 .. 0} = {}
    BY DEF Within
  <2> QED BY <1>1, <2>1, <2>2
<1>9. ASSUME NEW i \in 0 .. n - 1, i \in good PROVE i + 1 \in good
  <2>1. i + 1 \in 1 .. n /\ i + 1 \in 0 .. n /\ (i + 1) - 1 = i
    BY <1>1
  <2>2. PICK old : old = kept[i] /\ old \in Seq(Keys) /\ Within(old) = {list[j] : j \in 1 .. i} \cap keep
    BY <1>9
  <2>3. kept[i + 1] = IF list[i + 1] \in keep THEN Append(old, list[i + 1]) ELSE old
    BY <1>7, <2>1, <2>2
  <2>4. {list[j] : j \in 1 .. i + 1} = {list[j] : j \in 1 .. i} \cup {list[i + 1]}
    BY <2>1
  <2>5. CASE list[i + 1] \in keep
    <3>1. Append(old, list[i + 1]) \in Seq(Keys)
      BY <1>1, <2>1, <2>2
    <3>2. Within(Append(old, list[i + 1])) = Within(old) \cup {list[i + 1]}
      <4>1. /\ DOMAIN old = 1 .. Len(old) /\ Len(old) \in Nat
            /\ DOMAIN Append(old, list[i + 1]) = 1 .. Len(old) + 1
            /\ \A j \in 1 .. Len(old) : Append(old, list[i + 1])[j] = old[j]
            /\ Append(old, list[i + 1])[Len(old) + 1] = list[i + 1]
        BY <2>2
      <4>2. PICK new : new = Append(old, list[i + 1])
        OBVIOUS
      <4>3. \A x : x \in Within(new) <=> x \in Within(old) \cup {list[i + 1]}
        BY <4>1, <4>2 DEF Within
      <4> QED BY <4>2, <4>3
    <3> QED BY <2>1, <2>2, <2>3, <2>4, <2>5, <3>1, <3>2
  <2>6. CASE list[i + 1] \notin keep
    BY <2>1, <2>2, <2>3, <2>4, <2>6
  <2> QED BY <2>5, <2>6
<1>10. n \in good
  <2>1. good \in SUBSET (0 .. n)
    OBVIOUS
  <2> HIDE DEF good, n
  <2> QED BY <1>1, <1>8, <1>9, <2>1, StepsKeep
<1>11. {list[j] : j \in 1 .. n} = Within(list)
  BY <1>1 DEF Within
<1> QED BY <1>6, <1>10, <1>11

----------------------------------------------------------------------------
\* Where elements are seen

LEMMA Sizes ==
  /\ Width \in Nat \ {0} /\ \A e \in Elements : Length[e] \in Nat
  /\ Window = 0 .. Width - 1
BY PresentationAssumption DEF Window

\* The first cell of an element where it is seen
Place(q, e) == q.pos[e] + Shift(q, e) + (IF e = "inner" THEN Shift(q, "outer") ELSE 0)

LEMMA PictureFields ==
  ASSUME NEW q \in Pictures
  PROVE  /\ \A e \in Elements : q.pos[e] \in Int /\ q.last[e] \in SUBSET Int /\ Geometry(e) \in Keys
         /\ \A k \in Keys : q.var[k] \in VarRecords
         /\ \A k \in Keys : /\ q.var[k].on \in BOOLEAN /\ q.var[k].run \in BOOLEAN
                            /\ q.var[k].value \in Int /\ q.var[k].goal \in Int
                            /\ q.var[k].begun \in Int /\ q.var[k].left \in Int
         /\ q.damage \in SUBSET Window /\ q.active \in Seq(Keys)
BY DEF Pictures, VarRecords, Geometry, Var, Keys

LEMMA Places ==
  ASSUME NEW q \in Pictures, NEW e \in Elements
  PROVE  /\ Shift(q, e) \in Int /\ Place(q, e) \in Int
         /\ PresentationBox(q, e) = Place(q, e) .. (Place(q, e) + Length[e] - 1)
<1>1. \A d \in Elements : ParentAt(q, d) \in Int
  BY PictureFields DEF ParentAt, Elements
<1>2. \A d \in Elements : Shift(q, d) \in Int
  BY <1>1, PictureFields DEF Shift, Geometry
<1>3. Place(q, e) \in Int
  BY <1>2, PictureFields DEF Place, Elements
<1> QED BY <1>2, <1>3 DEF PresentationBox, Place

\* Where an element is seen follows from the values of the boxes that are animated.
LEMMA PlaceIs ==
  ASSUME NEW q \in Pictures
  PROVE  LET outer == q.var[Geometry("outer")]
             inner == q.var[Geometry("inner")]
         IN  /\ Place(q, "outer") = IF outer.on THEN outer.value ELSE q.pos["outer"]
             /\ Place(q, "inner") =
                  (IF inner.on THEN q.pos["outer"] + inner.value ELSE q.pos["inner"])
                  + Place(q, "outer") - q.pos["outer"]
<1>1. "outer" \in Elements /\ "inner" \in Elements /\ "outer" # "inner"
  BY DEF Elements
<1>2. /\ q.pos["outer"] \in Int /\ q.pos["inner"] \in Int
      /\ q.var[Geometry("outer")].value \in Int /\ q.var[Geometry("inner")].value \in Int
      /\ q.var[Geometry("outer")].on \in BOOLEAN /\ q.var[Geometry("inner")].on \in BOOLEAN
  BY <1>1, PictureFields
<1>3. /\ Shift(q, "outer") = IF q.var[Geometry("outer")].on
                             THEN q.var[Geometry("outer")].value - q.pos["outer"] ELSE 0
      /\ Shift(q, "inner") = IF q.var[Geometry("inner")].on
                             THEN q.pos["outer"] + q.var[Geometry("inner")].value - q.pos["inner"] ELSE 0
  BY <1>2 DEF Shift, ParentAt, Geometry
<1> QED BY <1>1, <1>2, <1>3 DEF Place

LEMMA RestsAtLayout ==
  ASSUME NEW q \in Pictures, VarsFit(q), "outer" \notin Running(q)
  PROVE  /\ Place(q, "outer") = q.pos["outer"]
         /\ "inner" \notin Running(q) => Place(q, "inner") = q.pos["inner"]
<1>1. "outer" \in Elements /\ "inner" \in Elements /\ "outer" # "inner"
  BY DEF Elements
<1>2. /\ q.pos["outer"] \in Int /\ q.pos["inner"] \in Int
      /\ GeometryFor(q, "outer") = q.pos["outer"]
      /\ GeometryFor(q, "inner") = q.pos["inner"] - q.pos["outer"]
  BY <1>1, PictureFields DEF GeometryFor, ParentAt
<1>3. \A e \in Elements : e \notin Running(q) /\ q.var[Geometry(e)].on =>
         q.var[Geometry(e)].value = GeometryFor(q, e)
  BY DEF VarsFit, VarFits, Running
<1> QED BY <1>1, <1>2, <1>3, PlaceIs

LEMMA ChildInside ==
  ASSUME NEW q \in Pictures, ChildFits(q)
  PROVE  /\ Place(q, "inner") - Place(q, "outer") \in Room
         /\ PresentationBox(q, "inner") \subseteq PresentationBox(q, "outer")
<1>1. "outer" \in Elements /\ "inner" \in Elements
  BY DEF Elements
<1>2. /\ q.pos["outer"] \in Int /\ q.pos["inner"] \in Int
      /\ Place(q, "outer") \in Int /\ Place(q, "inner") \in Int
      /\ Length["outer"] \in Nat /\ Length["inner"] \in Nat
      /\ q.var[Geometry("inner")].value \in Int
  BY <1>1, PictureFields, Places, Sizes
<1>3. Place(q, "inner") - Place(q, "outer") \in Room
  BY <1>2, PlaceIs DEF ChildFits, Room
<1> QED BY <1>1, <1>2, <1>3, Places DEF Room

\* The subtree box holds what the window shows of the element and of its child.
LEMMA SubtreeCovers ==
  ASSUME NEW q \in Pictures, NEW e \in Elements
  PROVE  /\ PresentationSubtreeBox(q, e) \in SUBSET Int
         /\ Covers(q, e) \subseteq PresentationSubtreeBox(q, e)
         /\ e = "outer" => Covers(q, "inner") \subseteq PresentationSubtreeBox(q, e)
<1>1. Width \in Nat \ {0} /\ \A c \in Window : c \in -Width .. 2 * Width /\ c <= c
  BY Sizes
<1>2. PresentationSubtreeBox(q, e) \in SUBSET Int
  BY <1>1 DEF PresentationSubtreeBox
<1>3. \A all : \A c \in Window : c \in all => (\E a \in all : a <= c) /\ (\E b \in all : c <= b)
  BY <1>1
<1> QED BY <1>1, <1>2, <1>3 DEF PresentationSubtreeBox, Covers

\* What is seen, and where, depends on the layout and the variables alone.
SameVars(q, r) ==
  \A k \in Keys : /\ r.var[k].on = q.var[k].on /\ r.var[k].run = q.var[k].run
                   /\ r.var[k].value = q.var[k].value /\ r.var[k].begun = q.var[k].begun
                   /\ r.var[k].goal = q.var[k].goal

LEMMA SameLook ==
  ASSUME NEW q, NEW r, r.pos = q.pos, SameVars(q, r)
  PROVE  /\ Shown(r) = Shown(q) /\ Running(r) = Running(q) /\ (ChildFits(r) <=> ChildFits(q))
         /\ \A e \in Elements : /\ Shift(r, e) = Shift(q, e)
                                /\ PresentationBox(r, e) = PresentationBox(q, e)
                                /\ PresentationSubtreeBox(r, e) = PresentationSubtreeBox(q, e)
                                /\ Covers(r, e) = Covers(q, e) /\ Layout(r, e) = Layout(q, e)
                                /\ GeometryFor(r, e) = GeometryFor(q, e)
<1>1. \A e \in Elements : GeometryFor(r, e) = GeometryFor(q, e) /\ Layout(r, e) = Layout(q, e)
  BY DEF GeometryFor, ParentAt, Layout
<1>2. \A e \in Elements : \A kind \in {"geometry", "opacity", "color"} :
        /\ r.var[Var(e, kind)].on = q.var[Var(e, kind)].on
        /\ r.var[Var(e, kind)].run = q.var[Var(e, kind)].run
        /\ r.var[Var(e, kind)].value = q.var[Var(e, kind)].value
        /\ r.var[Var(e, kind)].begun = q.var[Var(e, kind)].begun
        /\ r.var[Var(e, kind)].goal = q.var[Var(e, kind)].goal
  BY DEF SameVars, Keys, Var
<1>3. "outer" \in Elements /\ "inner" \in Elements
  BY DEF Elements
<1>4. \A e \in Elements : Shift(r, e) = Shift(q, e)
  BY <1>2 DEF Shift, ParentAt
<1>5. \A e \in Elements : PresentationBox(r, e) = PresentationBox(q, e)
  BY <1>3, <1>4 DEF PresentationBox
<1>6. \A e \in Elements : /\ PresentationSubtreeBox(r, e) = PresentationSubtreeBox(q, e)
                          /\ Covers(r, e) = Covers(q, e)
  BY <1>3, <1>5 DEF PresentationSubtreeBox, Covers
<1>7. \A e \in Elements : OpacityOf(r, e) = OpacityOf(q, e) /\ EffectiveOpacity(r, e) = EffectiveOpacity(q, e)
  BY <1>2, <1>3 DEF OpacityOf, EffectiveOpacity
<1>8. \A e \in Elements : \A c : Layer(r, e, c) = Layer(q, e, c)
  BY <1>2, <1>5, <1>7 DEF Layer
<1>9. Shown(r) = Shown(q)
  BY <1>8 DEF Shown
<1>10. Running(r) = Running(q) /\ (ChildFits(r) <=> ChildFits(q))
  BY <1>2, <1>3 DEF Running, ChildFits, Geometry
<1> QED BY <1>1, <1>4, <1>5, <1>6, <1>9, <1>10

LEMMA DamageCellsFields ==
  ASSUME NEW q \in Pictures, NEW cells
  PROVE  LET r == DamageCells(q, cells)
         IN  /\ r \in Pictures /\ r.pos = q.pos /\ r.var = q.var /\ r.active = q.active
             /\ r.presented = q.presented /\ r.last = q.last
             /\ r.damage = q.damage \cup (cells \cap Window)
BY DEF DamageCells, Pictures

LEMMA NotifyFields ==
  ASSUME NEW q \in Pictures, NEW k \in Keys
  PROVE  LET r == Notify(q, k)
             e == k[1]
         IN  /\ r \in Pictures /\ r.pos = q.pos /\ r.var = q.var /\ r.active = q.active
             /\ r.presented = q.presented /\ e \in Elements /\ k = Var(e, k[2])
             /\ k[2] \in {"geometry", "opacity", "color"}
             /\ k[2] = "color" => /\ r.last = q.last
                                  /\ r.damage = q.damage \cup (Layout(q, e) \cap Window)
             /\ k[2] # "color" =>
                  /\ r.last = [q.last EXCEPT ![e] = PresentationSubtreeBox(q, e)]
                  /\ r.damage = q.damage \cup ((q.last[e] \cup PresentationSubtreeBox(q, e)) \cap Window)
<1> DEFINE e == k[1]
<1>1. e \in Elements /\ k = Var(e, k[2]) /\ k[2] \in {"geometry", "opacity", "color"}
  BY DEF Keys, Var
<1>2. CASE k[2] = "color"
  BY <1>1, <1>2, DamageCellsFields DEF Notify, DamageEntire, Layout
<1>3. CASE k[2] # "color"
  <2> DEFINE now == PresentationSubtreeBox(q, e)
             m == DamageCells(q, q.last[e] \cup now)
  <2>1. /\ m \in Pictures /\ m.pos = q.pos /\ m.var = q.var /\ m.active = q.active
        /\ m.presented = q.presented /\ m.last = q.last
        /\ m.damage = q.damage \cup ((q.last[e] \cup now) \cap Window)
    BY DamageCellsFields
  <2>2. now \in SUBSET Int
    BY <1>1, SubtreeCovers
  <2>3. Notify(q, k) = [m EXCEPT !.last[e] = now]
    BY <1>3 DEF Notify, DamagePresentation
  <2> HIDE DEF m, now, e
  <2>4. [m EXCEPT !.last[e] = now] \in Pictures
    BY <1>1, <2>1, <2>2 DEF Pictures
  <2>5. /\ Notify(q, k).pos = m.pos /\ Notify(q, k).var = m.var /\ Notify(q, k).active = m.active
        /\ Notify(q, k).presented = m.presented /\ Notify(q, k).damage = m.damage
        /\ Notify(q, k).last = [m.last EXCEPT ![e] = now]
    BY <2>1, <2>3 DEF Pictures
  <2> QED BY <1>1, <1>3, <2>1, <2>3, <2>4, <2>5 DEF e, now
<1> QED BY <1>1, <1>2, <1>3

\* m is q but for the variable k, and where k moves its element the tick is due, or nothing moves.
Changed(q, m, k, due, due2) ==
  /\ q \in Pictures /\ m \in Pictures /\ k \in Keys
  /\ m.pos = q.pos /\ m.last = q.last /\ m.damage = q.damage
  /\ \A j \in Keys \ {k} : m.var[j] = q.var[j]
  /\ due \in SUBSET Elements /\ due2 \in SUBSET Elements
  /\ due \subseteq due2 \cup {k[1]} /\ due2 \subseteq due \cup {k[1]}
  /\ k[2] # "geometry" => due2 = due
  /\ (k[2] = "geometry" /\ k[1] \notin due) => Shift(m, k[1]) = Shift(q, k[1])

\* The callbacks of a variable damage all that its new value changes.
LEMMA NotifyAccounts ==
  ASSUME NEW q, NEW m, NEW k, NEW due, NEW due2, NEW s,
         Changed(q, m, k, due, due2), ChildFits(q), Accounted(q, s, due)
  PROVE  Accounted(Notify(m, k), s, due2)
<1> DEFINE e == k[1]
           r == Notify(m, k)
           old == q.damage \cup Promised(q, due)
           new == r.damage \cup Promised(r, due2)
           touched == {e} \cup (IF k[2] # "color" /\ e = "outer" THEN {"inner"} ELSE {})
<1>1. /\ q \in Pictures /\ m \in Pictures /\ k \in Keys
      /\ m.pos = q.pos /\ m.last = q.last /\ m.damage = q.damage
      /\ \A j \in Keys \ {k} : m.var[j] = q.var[j]
      /\ due \in SUBSET Elements /\ due2 \in SUBSET Elements
      /\ due \subseteq due2 \cup {e} /\ due2 \subseteq due \cup {e}
      /\ k[2] # "geometry" => due2 = due
      /\ (k[2] = "geometry" /\ e \notin due) => Shift(m, e) = Shift(q, e)
  BY DEF Changed
<1>2. /\ r \in Pictures /\ r.pos = m.pos /\ r.var = m.var
      /\ e \in Elements /\ k = Var(e, k[2]) /\ k[2] \in {"geometry", "opacity", "color"}
      /\ k[2] = "color" => /\ r.last = m.last
                           /\ r.damage = m.damage \cup (Layout(m, e) \cap Window)
      /\ k[2] # "color" =>
           /\ r.last = [m.last EXCEPT ![e] = PresentationSubtreeBox(m, e)]
           /\ r.damage = m.damage \cup ((m.last[e] \cup PresentationSubtreeBox(m, e)) \cap Window)
  BY <1>1, NotifyFields
<1> HIDE DEF e, r
<1>3. old \cap Window \subseteq new
  <2>1. \A d \in due \ {e} : d \in due2 /\ r.last[d] = q.last[d]
    BY <1>1, <1>2 DEF Pictures
  <2>2. q.damage \subseteq r.damage
    BY <1>1, <1>2
  <2>3. e \in due => q.last[e] \cap Window \subseteq new
    <3>1. CASE k[2] = "color"
      BY <1>1, <1>2, <3>1 DEF Promised
    <3>2. CASE k[2] # "color"
      BY <1>1, <1>2, <3>2
    <3> QED BY <3>1, <3>2
  <2> QED BY <2>1, <2>2, <2>3 DEF Promised
<1>4. /\ \A d \in Elements : Layout(m, d) = Layout(q, d) /\ Layout(r, d) = Layout(q, d)
      /\ \A d \in Elements : Covers(r, d) = Covers(m, d)
      /\ Shown(r) = Shown(m)
  BY <1>1, <1>2, SameLook DEF Layout, SameVars
<1>5. /\ "outer" \in Elements /\ "inner" \in Elements /\ \A d \in Elements : d \in {"outer", "inner"}
      /\ "geometry" # "color" /\ "opacity" # "color" /\ "geometry" # "opacity"
      /\ \A d \in Elements, kind \in {"geometry", "opacity", "color"} :
           Var(d, kind) \in Keys /\ ((d # e \/ kind # k[2]) => Var(d, kind) # k)
  BY <1>2 DEF Elements, Keys, Var
\* the boxes of what keeps its place
<1>6. ASSUME NEW d \in Elements, k[2] = "geometry" => d # e \/ e \notin due
      PROVE  Shift(m, d) = Shift(q, d)
  <2>1. CASE k[2] = "geometry" /\ d = e
    BY <1>1, <1>6, <2>1
  <2>2. CASE ~(k[2] = "geometry" /\ d = e)
    <3>1. m.var[Var(d, "geometry")] = q.var[Var(d, "geometry")]
      BY <1>1, <1>5, <2>2
    <3> QED BY <1>1, <3>1 DEF Shift, ParentAt
  <2> QED BY <2>1, <2>2
<1>7. ASSUME NEW d \in Elements,
             k[2] = "geometry" => e \notin due \/ (d # e /\ (d = "inner" => e # "outer"))
      PROVE  PresentationBox(m, d) = PresentationBox(q, d)
  <2>1. Shift(m, d) = Shift(q, d) /\ (d = "inner" => Shift(m, "outer") = Shift(q, "outer"))
    BY <1>5, <1>6, <1>7
  <2> QED BY <1>1, <2>1 DEF PresentationBox
<1>8. ASSUME NEW d \in Elements \ touched
      PROVE  PresentationBox(m, d) = PresentationBox(q, d) /\ \A c : Layer(m, d, c) = Layer(q, d, c)
  <2>1. d # e /\ (k[2] # "color" => (d = "inner" => e # "outer"))
    BY <1>8
  <2>2. PresentationBox(m, d) = PresentationBox(q, d)
    BY <1>5, <1>7, <2>1
  <2>3. m.var[Var(d, "color")] = q.var[Var(d, "color")]
    BY <1>1, <1>5, <2>1
  <2>4. m.var[Var(d, "opacity")] = q.var[Var(d, "opacity")]
    BY <1>1, <1>5, <2>1
  <2>5. d = "inner" => m.var[Var("outer", "opacity")] = q.var[Var("outer", "opacity")]
    BY <1>1, <1>5, <2>1
  <2> QED BY <2>2, <2>3, <2>4, <2>5 DEF Layer, EffectiveOpacity, OpacityOf
<1>9. ASSUME NEW d \in touched
      PROVE  d \in Elements /\ Covers(m, d) \subseteq new /\ Covers(q, d) \subseteq new
  <2>1. d \in Elements
    BY <1>2, <1>5
  <2>2. CASE k[2] = "color"
    <3>1. PresentationBox(m, d) = PresentationBox(q, d)
      BY <1>5, <1>7, <2>1, <2>2
    <3>2. Covers(m, d) = Covers(q, d)
      BY <3>1 DEF Covers
    <3>3. Covers(q, d) \subseteq old \cup Layout(q, d) /\ Covers(q, d) \subseteq Window
      BY <2>1 DEF Accounted, Covers
    <3>4. d = e /\ Layout(q, e) \cap Window \subseteq new
      BY <1>2, <1>4, <2>2
    <3> QED BY <1>3, <2>1, <3>2, <3>3, <3>4
  <2>3. CASE k[2] # "color"
    <3>1. d = e \/ (e = "outer" /\ d = "inner")
      OBVIOUS
    <3>2. Covers(m, d) \subseteq PresentationSubtreeBox(m, e) /\ Covers(m, d) \subseteq Window
      BY <1>1, <1>2, <3>1, SubtreeCovers DEF Covers
    <3>3. Covers(m, d) \subseteq new
      BY <1>2, <2>3, <3>2
    <3>4. CASE k[2] # "geometry" \/ e \notin due
      <4>1. PresentationBox(m, d) = PresentationBox(q, d)
        BY <1>7, <2>1, <3>4
      <4>2. Covers(m, d) = Covers(q, d)
        BY <4>1 DEF Covers
      <4> QED BY <2>1, <3>3, <4>2
    <3>5. CASE k[2] = "geometry" /\ e \in due
      <4>1. Covers(q, e) \subseteq old /\ Covers(q, e) \subseteq Window
        BY <3>5 DEF Accounted, Covers
      <4>2. e = "outer" => Covers(q, "inner") \subseteq Covers(q, e)
        BY <1>1, ChildInside DEF Covers
      <4>3. Covers(q, d) \subseteq Covers(q, e)
        BY <3>1, <4>2
      <4> QED BY <1>3, <2>1, <3>3, <4>1, <4>3
    <3> QED BY <3>4, <3>5
  <2> QED BY <2>2, <2>3
<1> HIDE DEF touched
<1>10. e \in touched
  BY DEF touched
<1>11. ASSUME NEW c \in Window \ new PROVE s[c] = Shown(r)[c]
  <2>1. s[c] = Shown(q)[c]
    BY <1>3, <1>11 DEF Accounted
  <2>2. ASSUME NEW d \in Elements PROVE Layer(m, d, c) = Layer(q, d, c)
    <3>1. CASE d \in touched
      <4>1. c \notin PresentationBox(m, d) /\ c \notin PresentationBox(q, d)
        BY <1>9, <1>11, <3>1 DEF Covers
      <4> QED BY <4>1 DEF Layer
    <3>2. CASE d \notin touched
      BY <1>8, <3>2
    <3> QED BY <3>1, <3>2
  <2>3. Shown(m)[c] = Shown(q)[c]
    BY <2>2 DEF Shown
  <2> QED BY <1>4, <2>1, <2>3
<1>12. ASSUME NEW d \in due2 PROVE Covers(r, d) \subseteq new
  <2>1. CASE d \in touched
    BY <1>4, <1>9, <2>1
  <2>2. CASE d \notin touched
    <3>1. d \in Elements /\ d \in due
      BY <1>1, <1>10, <2>2
    <3>2. Covers(m, d) = Covers(q, d) /\ Covers(q, d) \subseteq Window
      BY <1>8, <2>2, <3>1 DEF Covers
    <3>3. Covers(q, d) \subseteq old
      BY <3>1 DEF Accounted
    <3> QED BY <1>3, <1>4, <3>1, <3>2, <3>3
  <2> QED BY <2>1, <2>2
<1>13. ASSUME NEW d \in Elements PROVE Covers(r, d) \subseteq new \cup Layout(r, d)
  <2>1. CASE d \in touched
    BY <1>4, <1>9, <2>1
  <2>2. CASE d \notin touched
    <3>1. Covers(m, d) = Covers(q, d) /\ Covers(q, d) \subseteq Window
      BY <1>8, <2>2 DEF Covers
    <3>2. Covers(q, d) \subseteq old \cup Layout(q, d)
      BY DEF Accounted
    <3> QED BY <1>3, <1>4, <3>1, <3>2
  <2> QED BY <2>1, <2>2
<1> QED BY <1>11, <1>12, <1>13 DEF Accounted, r

----------------------------------------------------------------------------
\* What a change of one variable keeps

\* m is q but for one variable, and as sound as q.
OneChanged(q, m, k) ==
  /\ m \in Pictures /\ k \in Keys
  /\ m.pos = q.pos /\ m.last = q.last /\ m.damage = q.damage /\ m.presented = q.presented
  /\ \A j \in Keys \ {k} : m.var[j] = q.var[j]
  /\ Listed(m) /\ VarsFit(m) /\ ChildFits(m)
  /\ (k[2] = "geometry" /\ k[1] \notin Running(q)) => Shift(m, k[1]) = Shift(q, k[1])

\* What a change leaves alone: the layout, and what is damaged
Keeps(q, r) == r.pos = q.pos /\ r.presented = q.presented /\ q.damage \subseteq r.damage

LEMMA NotifyLastCovers ==
  ASSUME NEW m \in Pictures, NEW k \in Keys, k # Geometry("outer") => LastCovers(m)
  PROVE  LastCovers(Notify(m, k))
<1> DEFINE r == Notify(m, k)
<1>1. /\ r.pos = m.pos /\ r.var = m.var /\ r.last \in [Elements -> SUBSET Int]
      /\ k[1] \in Elements /\ k = Var(k[1], k[2])
      /\ k[2] = "color" => r.last = m.last
      /\ k[2] # "color" => r.last = [m.last EXCEPT ![k[1]] = PresentationSubtreeBox(m, k[1])]
      /\ m.last \in [Elements -> SUBSET Int]
  BY NotifyFields DEF Pictures
<1> SUFFICES LastCovers(r)
  OBVIOUS
<1> HIDE DEF r
<1>2. "outer" \in Elements /\ Covers(r, "outer") = Covers(m, "outer") /\ Running(r) = Running(m)
  BY <1>1, SameLook DEF Elements, SameVars
<1>3. CASE k[1] = "outer" /\ k[2] # "color"
  BY <1>1, <1>2, <1>3, SubtreeCovers DEF LastCovers
<1>4. CASE ~(k[1] = "outer" /\ k[2] # "color")
  <2>1. k # Geometry("outer") /\ r.last["outer"] = m.last["outer"]
    BY <1>1, <1>2, <1>4 DEF Geometry, Var
  <2> QED BY <1>1, <1>2, <2>1 DEF LastCovers
<1> QED BY <1>3, <1>4

LEMMA NotifyFits ==
  ASSUME NEW q, NEW m, NEW k, NEW s, NEW unsure \in BOOLEAN,
         PictureFits(q, s, unsure), OneChanged(q, m, k)
  PROVE  PictureFits(Notify(m, k), s, unsure) /\ Keeps(q, Notify(m, k))
<1> DEFINE r == Notify(m, k)
           e == k[1]
<1>1. /\ q \in Pictures /\ ChildFits(q) /\ LastCovers(q) /\ m \in Pictures /\ k \in Keys
      /\ m.pos = q.pos /\ m.last = q.last /\ m.damage = q.damage /\ m.presented = q.presented
      /\ \A j \in Keys \ {k} : m.var[j] = q.var[j]
      /\ Listed(m) /\ VarsFit(m) /\ ChildFits(m)
      /\ (k[2] = "geometry" /\ e \notin Running(q)) => Shift(m, e) = Shift(q, e)
  BY DEF PictureFits, OneChanged
<1>2. /\ r \in Pictures /\ r.pos = m.pos /\ r.var = m.var /\ r.active = m.active
      /\ r.presented = m.presented /\ m.damage \subseteq r.damage
      /\ e \in Elements /\ k = Var(e, k[2]) /\ k[2] \in {"geometry", "opacity", "color"}
  BY <1>1, NotifyFields
<1>3. /\ \A d \in Elements : Geometry(d) \in Keys /\ (Geometry(d) = k <=> d = e /\ k[2] = "geometry")
      /\ "outer" \in Elements
  BY <1>2 DEF Geometry, Var, Keys, Elements
<1> HIDE DEF r, e
<1>4. Listed(r) /\ VarsFit(r) /\ ChildFits(r) /\ Running(r) = Running(m)
  <2>1. /\ Running(r) = Running(m) /\ (ChildFits(r) <=> ChildFits(m))
        /\ \A d \in Elements : GeometryFor(r, d) = GeometryFor(m, d)
    BY <1>2, SameLook DEF SameVars
  <2> QED BY <1>1, <1>2, <2>1 DEF Listed, Connected, VarsFit, VarFits
<1>5. LastCovers(r)
  <2>1. ASSUME k # Geometry("outer") PROVE LastCovers(m)
    <3>1. m.var[Geometry("outer")] = q.var[Geometry("outer")]
      BY <1>1, <1>3, <2>1
    <3>2. Shift(m, "outer") = Shift(q, "outer")
      BY <1>1, <3>1 DEF Shift, ParentAt, Geometry
    <3>3. Covers(m, "outer") = Covers(q, "outer") /\ ("outer" \in Running(m) <=> "outer" \in Running(q))
      BY <1>1, <3>1, <3>2 DEF Covers, PresentationBox, Running
    <3> QED BY <1>1, <3>3 DEF LastCovers
  <2> QED BY <1>1, <2>1, NotifyLastCovers DEF r
<1>6. ASSUME ~unsure PROVE Accounted(r, s, Running(r))
  <2>1. Changed(q, m, k, Running(q), Running(m))
    <3>1. \A d \in Elements : (d # e \/ k[2] # "geometry") => (d \in Running(m) <=> d \in Running(q))
      BY <1>1, <1>3 DEF Running
    <3>2. Running(q) \in SUBSET Elements /\ Running(m) \in SUBSET Elements
      BY DEF Running
    <3> QED BY <1>1, <3>1, <3>2 DEF Changed, e
  <2>2. Accounted(q, s, Running(q))
    BY <1>6 DEF PictureFits
  <2> QED BY <1>1, <1>4, <2>1, <2>2, NotifyAccounts DEF r
<1>7. Keeps(q, r)
  BY <1>1, <1>2 DEF Keeps
<1> QED BY <1>2, <1>4, <1>5, <1>6, <1>7 DEF PictureFits, r

\* A variable gets the record v and the list becomes a.
Replaced(q, k, v, a) == [q EXCEPT !.var[k] = v, !.active = a]

\* v may stand for k: of a geometry, it is where the layout wants it, and begins where it is seen.
MayReplace(q, k, v, a) ==
  /\ k \in Keys /\ v \in VarRecords /\ a \in Seq(Keys)
  /\ Within(a) \ {k} = Within(q.active) \ {k} /\ (k \in Within(a) <=> v.run)
  /\ k[2] # "color" /\ v.run => v.on
  /\ \A e \in Elements : k = Geometry(e) =>
       /\ v.on => v.goal = GeometryFor(q, e)
       /\ v.on /\ ~v.run => v.value = v.goal
       /\ (e = "inner" /\ v.on) => {v.value, v.begun, v.goal} \subseteq Room
       /\ e \notin Running(q) =>
            (IF v.on THEN ParentAt(q, e) + v.value - q.pos[e] ELSE 0) = Shift(q, e)

LEMMA ReplacedFields ==
  ASSUME NEW q \in Pictures, NEW k \in Keys, NEW v \in VarRecords, NEW a \in Seq(Keys)
  PROVE  LET m == Replaced(q, k, v, a)
         IN  /\ m \in Pictures /\ m.pos = q.pos /\ m.last = q.last /\ m.damage = q.damage
             /\ m.presented = q.presented /\ m.frame = q.frame /\ m.active = a
             /\ m.var[k] = v /\ \A j \in Keys \ {k} : m.var[j] = q.var[j]
BY DEF Replaced, Pictures

LEMMA ReplacedFits ==
  ASSUME NEW q, NEW s, NEW unsure, PictureFits(q, s, unsure), NEW k, NEW v, NEW a,
         MayReplace(q, k, v, a)
  PROVE  OneChanged(q, Replaced(q, k, v, a), k)
<1> DEFINE m == Replaced(q, k, v, a)
<1>1. /\ q \in Pictures /\ Listed(q) /\ VarsFit(q) /\ ChildFits(q)
      /\ k \in Keys /\ v \in VarRecords /\ a \in Seq(Keys)
      /\ Within(a) \ {k} = Within(q.active) \ {k} /\ (k \in Within(a) <=> v.run)
      /\ k[2] # "color" /\ v.run => v.on
  BY DEF PictureFits, MayReplace
<1>2. /\ m \in Pictures /\ m.pos = q.pos /\ m.last = q.last /\ m.damage = q.damage
      /\ m.presented = q.presented /\ m.active = a
      /\ m.var[k] = v /\ \A j \in Keys \ {k} : m.var[j] = q.var[j]
  BY <1>1, ReplacedFields
<1> HIDE DEF m
<1>3. Listed(m)
  <2>1. \A x : (Connected(m, x) <=> x \in Within(a)) /\ (Connected(q, x) <=> x \in Within(q.active))
    BY <1>2 DEF Connected, Within
  <2>2. ASSUME NEW j \in Keys \ {k} PROVE j \in Within(a) <=> j \in Within(q.active)
    BY <1>1
  <2> QED BY <1>1, <1>2, <2>1, <2>2 DEF Listed
<1>4. /\ \A e \in Elements : Geometry(e) \in Keys /\ GeometryFor(m, e) = GeometryFor(q, e)
                             /\ ParentAt(m, e) = ParentAt(q, e)
      /\ "inner" \in Elements
  BY <1>2 DEF Geometry, Var, Keys, GeometryFor, ParentAt, Elements
<1>5. VarsFit(m)
  <2>1. ASSUME NEW e \in Elements PROVE VarFits(m, e)
    <3>1. CASE k = Geometry(e)
      BY <1>2, <1>4, <3>1 DEF VarFits, MayReplace
    <3>2. CASE k # Geometry(e)
      BY <1>1, <1>2, <1>4, <3>2 DEF VarFits, VarsFit
    <3> QED BY <3>1, <3>2
  <2> QED BY <2>1 DEF VarsFit
<1>6. ChildFits(m)
  <2>1. CASE k = Geometry("inner")
    BY <1>1, <1>2, <1>4, <2>1 DEF ChildFits, MayReplace
  <2>2. CASE k # Geometry("inner")
    BY <1>1, <1>2, <1>4, <2>2 DEF ChildFits
  <2> QED BY <2>1, <2>2
<1>7. ASSUME k[2] = "geometry", k[1] \notin Running(q) PROVE Shift(m, k[1]) = Shift(q, k[1])
  <2>1. k[1] \in Elements /\ k = Geometry(k[1])
    BY <1>1, <1>7 DEF Keys, Geometry, Var
  <2>2. Shift(m, k[1]) = IF v.on THEN ParentAt(q, k[1]) + v.value - q.pos[k[1]] ELSE 0
    BY <1>2, <1>4, <2>1 DEF Shift, Geometry
  <2> QED BY <1>7, <2>1, <2>2 DEF MayReplace
<1> QED BY <1>1, <1>2, <1>3, <1>5, <1>6, <1>7 DEF OneChanged, m

\* The callbacks after a variable was replaced
LEMMA NotifyReplaced ==
  ASSUME NEW q, NEW s, NEW unsure \in BOOLEAN, PictureFits(q, s, unsure), NEW k, NEW v, NEW a,
         MayReplace(q, k, v, a)
  PROVE  LET r == Notify(Replaced(q, k, v, a), k)
         IN  PictureFits(r, s, unsure) /\ Keeps(q, r) /\ r.active = a
             /\ r.var[k] = v /\ \A j \in Keys \ {k} : r.var[j] = q.var[j]
<1>1. q \in Pictures /\ k \in Keys /\ v \in VarRecords /\ a \in Seq(Keys)
  BY DEF PictureFits, MayReplace
<1>2. OneChanged(q, Replaced(q, k, v, a), k)
  BY ReplacedFits
<1>3. PICK m : m = Replaced(q, k, v, a)
  OBVIOUS
<1>4. /\ m \in Pictures /\ m.active = a /\ m.var[k] = v
      /\ \A j \in Keys \ {k} : m.var[j] = q.var[j]
  BY <1>1, <1>3, ReplacedFields
<1>5. PictureFits(Notify(m, k), s, unsure) /\ Keeps(q, Notify(m, k))
  BY <1>2, <1>3, NotifyFits
<1>6. Notify(m, k).active = m.active /\ Notify(m, k).var = m.var
  BY <1>1, <1>4, NotifyFields
<1> QED BY <1>3, <1>4, <1>5, <1>6

\* A curve of its own changes nothing that is seen.
LEMMA ConfigFits ==
  ASSUME NEW q, NEW s, NEW unsure, PictureFits(q, s, unsure), NEW k \in Keys, NEW c \in Policies
  PROVE  LET r == SetConfig(q, k, c)
         IN  PictureFits(r, s, unsure) /\ Keeps(q, r) /\ r.active = q.active
             /\ r.var[k] = [q.var[k] EXCEPT !.cfg = c]
             /\ \A j \in Keys \ {k} : r.var[j] = q.var[j]
<1> DEFINE r == SetConfig(q, k, c)
           v == [q.var[k] EXCEPT !.cfg = c]
<1>1. q \in Pictures /\ Listed(q) /\ VarsFit(q) /\ ChildFits(q) /\ LastCovers(q)
  BY DEF PictureFits
<1>2. /\ v \in VarRecords /\ v.on = q.var[k].on /\ v.run = q.var[k].run
      /\ v.value = q.var[k].value /\ v.begun = q.var[k].begun /\ v.goal = q.var[k].goal
  BY <1>1, PictureFields DEF VarRecords
<1> HIDE DEF v
<1>3. r = [q EXCEPT !.var[k] = v]
  BY DEF SetConfig, v
<1>4. /\ r \in Pictures /\ r.pos = q.pos /\ r.last = q.last /\ r.damage = q.damage
      /\ r.presented = q.presented /\ r.active = q.active
      /\ r.var[k] = v /\ \A j \in Keys \ {k} : r.var[j] = q.var[j]
  BY <1>1, <1>2, <1>3 DEF Pictures
<1> HIDE DEF r
<1>5. SameVars(q, r)
  BY <1>2, <1>4 DEF SameVars
<1>6. /\ Shown(r) = Shown(q) /\ Running(r) = Running(q) /\ (ChildFits(r) <=> ChildFits(q))
      /\ \A e \in Elements : /\ Covers(r, e) = Covers(q, e) /\ Layout(r, e) = Layout(q, e)
                             /\ GeometryFor(r, e) = GeometryFor(q, e)
  BY <1>4, <1>5, SameLook
<1>7. Listed(r)
  BY <1>1, <1>4, <1>5 DEF Listed, Connected, SameVars
<1>8. VarsFit(r)
  <2>1. \A e \in Elements : Geometry(e) \in Keys
    BY DEF Geometry, Var, Keys
  <2> QED BY <1>1, <1>5, <1>6, <2>1 DEF VarsFit, VarFits, SameVars
<1>9. LastCovers(r) /\ (Accounted(q, s, Running(q)) => Accounted(r, s, Running(r)))
  <2>1. "outer" \in Elements /\ Running(q) \in SUBSET Elements
    BY DEF Elements, Running
  <2> QED BY <1>1, <1>4, <1>6, <2>1 DEF LastCovers, Accounted, Promised
<1> QED BY <1>1, <1>4, <1>6, <1>7, <1>8, <1>9 DEF PictureFits, Keeps, r, v

\* What becomes of a variable that is assigned, warped or disconnected
Assigned(v, goal) == [v EXCEPT !.goal = goal, !.begun = v.value, !.run = TRUE, !.left = Duration]
Joined(q, k) == IF Connected(q, k) THEN q.active ELSE Append(q.active, k)
Parted(q, k) == Kept(q.active, Keys \ {k})

LEMMA JoinedAndParted ==
  ASSUME NEW q \in Pictures, NEW k \in Keys
  PROVE  /\ Joined(q, k) \in Seq(Keys) /\ Within(Joined(q, k)) = Within(q.active) \cup {k}
         /\ Parted(q, k) \in Seq(Keys) /\ Within(Parted(q, k)) = Within(q.active) \ {k}
<1>1. q.active \in Seq(Keys) /\ Within(q.active) \in SUBSET Keys
  BY PictureFields DEF Within
<1>2. Connected(q, k) <=> k \in Within(q.active)
  BY DEF Connected, Within
<1>3. Append(q.active, k) \in Seq(Keys) /\ Within(Append(q.active, k)) = Within(q.active) \cup {k}
  <2>1. /\ DOMAIN q.active = 1 .. Len(q.active) /\ Len(q.active) \in Nat
        /\ Append(q.active, k) \in Seq(Keys)
        /\ DOMAIN Append(q.active, k) = 1 .. Len(q.active) + 1
        /\ \A j \in 1 .. Len(q.active) : Append(q.active, k)[j] = q.active[j]
        /\ Append(q.active, k)[Len(q.active) + 1] = k
    BY <1>1
  <2>2. PICK new : new = Append(q.active, k)
    OBVIOUS
  <2>3. \A x : x \in Within(new) <=> x \in Within(q.active) \cup {k}
    BY <2>1, <2>2 DEF Within
  <2> QED BY <2>1, <2>2, <2>3
<1>4. Parted(q, k) \in Seq(Keys) /\ Within(Parted(q, k)) = Within(q.active) \cap (Keys \ {k})
  BY <1>1, KeptIsWithin DEF Parted
<1> QED BY <1>1, <1>2, <1>3, <1>4 DEF Joined

LEMMA StillIs ==
  ASSUME NEW value \in Int, NEW c \in Policies
  PROVE  LET v == Still(value, c)
         IN  v \in VarRecords /\ v.on /\ ~v.run /\ v.value = value /\ v.begun = value /\ v.goal = value
BY DEF Still, VarRecords

LEMMA AssignIs ==
  ASSUME NEW q \in Pictures, NEW k \in Keys, NEW goal \in Int
  PROVE  LET v == Assigned(q.var[k], goal)
         IN  /\ Assign(q, k, goal) = IF goal = q.var[k].goal THEN q
                                     ELSE Notify(Replaced(q, k, v, Joined(q, k)), k)
             /\ v \in VarRecords /\ v.on = q.var[k].on /\ v.run /\ v.value = q.var[k].value
             /\ v.begun = q.var[k].value /\ v.goal = goal
<1>1. q.var[k] \in VarRecords /\ Duration \in Int
  BY PictureFields, PresentationAssumption
<1> QED BY <1>1 DEF Assign, Replaced, Assigned, Joined, VarRecords

LEMMA WarpIs ==
  ASSUME NEW q \in Pictures, NEW k \in Keys, NEW value
  PROVE  Warp(q, k, value) = Notify(Replaced(q, k, Still(value, q.var[k].cfg), Parted(q, k)), k)
<1>1. /\ Disconnected(q, k) = [q EXCEPT !.active = Parted(q, k)]
      /\ Disconnected(q, k).var[k] = q.var[k]
  BY DEF Disconnected, Parted, Pictures
<1>2. [Disconnected(q, k) EXCEPT !.var[k] = Still(value, q.var[k].cfg)] =
        Replaced(q, k, Still(value, q.var[k].cfg), Parted(q, k))
  BY <1>1 DEF Replaced, Pictures
<1> QED BY <1>1, <1>2 DEF Warp

\* Colours and opacities
Plain(k) == k \in Keys /\ k[2] # "geometry"

LEMMA PlainMayReplace ==
  ASSUME NEW q \in Pictures, NEW k, Plain(k), NEW v \in VarRecords,
         k[2] # "color" /\ v.run => v.on
  PROVE  /\ v.run => MayReplace(q, k, v, Joined(q, k))
         /\ ~v.run => MayReplace(q, k, v, Parted(q, k))
<1>1. \A e \in Elements : k # Geometry(e)
  BY DEF Plain, Geometry, Var
<1>2. k \in Keys
  BY DEF Plain
<1> QED BY <1>1, <1>2, JoinedAndParted DEF MayReplace

LEMMA PlainAssignFits ==
  ASSUME NEW q, NEW s, NEW unsure \in BOOLEAN, PictureFits(q, s, unsure), NEW k, Plain(k), NEW goal \in Int,
         k[2] # "color" => q.var[k].on
  PROVE  PictureFits(Assign(q, k, goal), s, unsure) /\ Keeps(q, Assign(q, k, goal))
<1>1. q \in Pictures /\ k \in Keys
  BY DEF PictureFits, Plain
<1>2. CASE goal = q.var[k].goal
  BY <1>1, <1>2, AssignIs DEF Keeps
<1>3. CASE goal # q.var[k].goal
  <2>1. PICK v : v = Assigned(q.var[k], goal)
    OBVIOUS
  <2>2. /\ Assign(q, k, goal) = Notify(Replaced(q, k, v, Joined(q, k)), k)
        /\ v \in VarRecords /\ v.run /\ v.on = q.var[k].on
    BY <1>1, <1>3, <2>1, AssignIs
  <2>3. MayReplace(q, k, v, Joined(q, k))
    BY <1>1, <2>2, PlainMayReplace
  <2> QED BY <2>2, <2>3, NotifyReplaced
<1> QED BY <1>2, <1>3

LEMMA PlainWarpFits ==
  ASSUME NEW q, NEW s, NEW unsure \in BOOLEAN, PictureFits(q, s, unsure), NEW k, Plain(k), NEW value \in Int
  PROVE  /\ PictureFits(Warp(q, k, value), s, unsure) /\ Keeps(q, Warp(q, k, value))
         /\ Warp(q, k, value).var[k].on
<1>1. q \in Pictures /\ k \in Keys
  BY DEF PictureFits, Plain
<1>2. q.var[k].cfg \in Policies
  BY <1>1, PictureFields DEF VarRecords
<1>3. PICK v : v = Still(value, q.var[k].cfg)
  OBVIOUS
<1>4. v \in VarRecords /\ v.on /\ ~v.run /\ Warp(q, k, value) = Notify(Replaced(q, k, v, Parted(q, k)), k)
  BY <1>1, <1>2, <1>3, StillIs, WarpIs
<1>5. MayReplace(q, k, v, Parted(q, k))
  BY <1>1, <1>4, PlainMayReplace
<1> QED BY <1>4, <1>5, NotifyReplaced

LEMMA KeepsOn ==
  ASSUME NEW q, NEW m, NEW r, Keeps(q, m), Keeps(m, r)
  PROVE  Keeps(q, r)
BY DEF Keeps

\* The curve of now, and the animation that starts over with it
LEMMA PlainRestartFits ==
  ASSUME NEW q, NEW s, NEW unsure \in BOOLEAN, PictureFits(q, s, unsure),
         NEW k, Plain(k), NEW c \in Policies, NEW goal
  PROVE  LET r == SetConfig(Restarted(q, k, c, goal), k, c)
         IN  PictureFits(r, s, unsure) /\ Keeps(q, r) /\ (q.var[k].on => r.var[k].on)
<1>1. q \in Pictures /\ k \in Keys
  BY DEF PictureFits, Plain
<1>2. q.var[k].value \in Int
  BY <1>1, PictureFields
<1>3. PICK m : m = Restarted(q, k, c, goal)
  OBVIOUS
<1>4. PictureFits(m, s, unsure) /\ Keeps(q, m) /\ (q.var[k].on => m.var[k].on)
  <2>1. m = Warp(q, k, q.var[k].value) \/ m = q
    BY <1>3 DEF Restarted
  <2>2. Keeps(q, q)
    BY DEF Keeps
  <2> QED BY <1>2, <2>1, <2>2, PlainWarpFits
<1>5. /\ PictureFits(SetConfig(m, k, c), s, unsure) /\ Keeps(m, SetConfig(m, k, c))
      /\ SetConfig(m, k, c).var[k] = [m.var[k] EXCEPT !.cfg = c]
  BY <1>1, <1>4, ConfigFits
<1>6. m.var[k] \in VarRecords
  BY <1>1, <1>4, PictureFields DEF PictureFits
<1>7. [m.var[k] EXCEPT !.cfg = c].on = m.var[k].on
  BY <1>6 DEF VarRecords
<1> QED BY <1>3, <1>4, <1>5, <1>7, KeepsOn

----------------------------------------------------------------------------
\* The calls of the application

LEMMA FrameFlagFits ==
  ASSUME NEW q, NEW s, NEW unsure, PictureFits(q, s, unsure), NEW b \in BOOLEAN
  PROVE  LET r == [q EXCEPT !.frame = b]
         IN  PictureFits(r, s, unsure) /\ Keeps(q, r) /\ r.var = q.var /\ r.active = q.active
             /\ r.last = q.last /\ r.damage = q.damage
<1> DEFINE r == [q EXCEPT !.frame = b]
<1>1. /\ q \in Pictures /\ Listed(q) /\ VarsFit(q) /\ ChildFits(q) /\ LastCovers(q)
      /\ unsure \/ Accounted(q, s, Running(q))
  BY DEF PictureFits
<1>2. /\ r \in Pictures /\ r.pos = q.pos /\ r.last = q.last /\ r.damage = q.damage
      /\ r.presented = q.presented /\ r.active = q.active /\ r.var = q.var
  BY <1>1 DEF Pictures
<1> HIDE DEF r
<1>3. /\ Shown(r) = Shown(q) /\ Running(r) = Running(q) /\ (ChildFits(r) <=> ChildFits(q))
      /\ \A e \in Elements : /\ Covers(r, e) = Covers(q, e) /\ Layout(r, e) = Layout(q, e)
                             /\ GeometryFor(r, e) = GeometryFor(q, e)
  BY <1>2, SameLook DEF SameVars
<1>4. Listed(r) /\ VarsFit(r)
  BY <1>1, <1>2, <1>3 DEF Listed, Connected, VarsFit, VarFits
<1>5. LastCovers(r) /\ (unsure \/ Accounted(r, s, Running(r)))
  <2>1. "outer" \in Elements /\ Running(q) \in SUBSET Elements
    BY DEF Elements, Running
  <2> QED BY <1>1, <1>2, <1>3, <2>1 DEF LastCovers, Accounted, Promised
<1> QED BY <1>1, <1>2, <1>3, <1>4, <1>5 DEF PictureFits, Keeps, r

\* A call of the application that keeps the picture sound keeps the invariant.
LEMMA CallKeeps ==
  ASSUME AnimationIInv, PictureFits(p', screen, carried), Keeps(p, p'),
         UNCHANGED <<screen, carried>>, policy' \in [Keys -> Policies],
         offset' \in [Elements -> Nat], offset'["inner"] \in Room,
         pending \subseteq pending', pending' \in SUBSET Elements
  PROVE  AnimationIInv'
<1>1. AnimationTypes'
  BY DEF AnimationIInv, AnimationTypes, PictureFits
<1>2. PictureFits(p, screen, carried)'
  <2>1. PICK q, s, c : q = p' /\ s = screen /\ c = carried
    OBVIOUS
  <2>2. PictureFits(q, s, c)
    BY <2>1
  <2>3. q = p' /\ s = screen' /\ c = carried'
    BY <2>1
  <2> QED BY <2>2, <2>3 DEF PictureFits
<1>3. (~p.presented => p.damage = Window /\ "outer" \in pending)'
  <2>1. p'.damage \in SUBSET Window
    BY PictureFields DEF PictureFits
  <2> QED BY <2>1 DEF AnimationIInv, Keeps, Window
<1> QED BY <1>1, <1>2, <1>3 DEF AnimationIInv, Room

LEMMA MoveKeeps ==
  ASSUME AnimationIInv, NEW e \in Elements, NEW x \in Spots[e], Move(e, x)
  PROVE  AnimationIInv'
<1>1. PictureFits(p', screen, carried) /\ Keeps(p, p')
  BY FrameFlagFits DEF AnimationIInv, Move
<1>2. offset' \in [Elements -> Nat] /\ offset'["inner"] \in Room
  <2>1. x \in Nat /\ (e = "inner" => x \in Room) /\ "inner" \in Elements
    BY PresentationAssumption DEF Room, Elements
  <2> QED BY <2>1 DEF AnimationIInv, AnimationTypes, Move
<1> QED BY <1>1, <1>2, CallKeeps DEF AnimationIInv, AnimationTypes, Move

LEMMA RecoloredFits ==
  ASSUME AnimationIInv, NEW e \in Elements, NEW color \in Levels
  PROVE  PictureFits(Recolored(e, color), screen, carried) /\ Keeps(p, Recolored(e, color))
<1> DEFINE k == Var(e, "color")
<1>1. Plain(k) /\ policy[k] \in Policies /\ PictureFits(p, screen, carried) /\ carried \in BOOLEAN
      /\ color \in Int
  BY DEF Plain, Keys, Var, AnimationIInv, AnimationTypes, Levels
<1> HIDE DEF k
<1>2. PICK q : q = SetConfig(Restarted(p, k, policy[k], color), k, policy[k])
  OBVIOUS
<1>3. PictureFits(q, screen, carried) /\ Keeps(p, q)
  BY <1>1, <1>2, PlainRestartFits
<1>4. /\ PictureFits(Assign(q, k, color), screen, carried) /\ Keeps(q, Assign(q, k, color))
      /\ PictureFits(Warp(q, k, color), screen, carried) /\ Keeps(q, Warp(q, k, color))
  BY <1>1, <1>3, PlainAssignFits, PlainWarpFits DEF k, Var
<1>5. Recolored(e, color) = IF Enabled(q, k) THEN Assign(q, k, color) ELSE Warp(q, k, color)
  BY <1>2 DEF Recolored, k
<1> QED BY <1>3, <1>4, <1>5, KeepsOn

LEMMA ColorCallsKeep ==
  ASSUME AnimationIInv, NEW e \in Elements,
         \/ \E c \in Policies : AnimateColor(e, c)
         \/ \E l \in Levels : ReplaceData(e, l) \/ RecheckColor(e, l)
  PROVE  AnimationIInv'
<1>1. /\ PictureFits(p, screen, carried) /\ carried \in BOOLEAN /\ p \in Pictures
      /\ policy \in [Keys -> Policies] /\ Plain(Var(e, "color"))
  BY DEF AnimationIInv, AnimationTypes, Plain, Keys, Var
<1>2. CASE \E c \in Policies : AnimateColor(e, c)
  <2>1. PICK c \in Policies : AnimateColor(e, c)
    BY <1>2
  <2>2. p.var[Var(e, "color")].goal \in Int
    BY <1>1, PictureFields DEF Plain
  <2>3. Keeps(p, p)
    BY DEF Keeps
  <2>4. PictureFits(p', screen, carried) /\ Keeps(p, p')
    BY <1>1, <2>1, <2>2, <2>3, PlainWarpFits DEF AnimateColor
  <2> QED BY <1>1, <2>1, <2>4, CallKeeps DEF AnimateColor, AnimationIInv, AnimationTypes
<1>3. CASE \E l \in Levels : ReplaceData(e, l)
  <2>1. PICK l \in Levels : ReplaceData(e, l)
    BY <1>3
  <2>2. PictureFits(p', screen, carried) /\ Keeps(p, p')
    <3>1. PICK q : q = Recolored(e, l)
      OBVIOUS
    <3>2. PictureFits(q, screen, carried) /\ Keeps(p, q) /\ p' = [q EXCEPT !.frame = TRUE]
      BY <2>1, <3>1, RecoloredFits DEF ReplaceData
    <3>3. PictureFits(p', screen, carried) /\ Keeps(q, p')
      BY <3>2, FrameFlagFits
    <3> QED BY <3>2, <3>3, KeepsOn
  <2> QED BY <1>1, <2>1, <2>2, CallKeeps DEF ReplaceData, AnimationIInv, AnimationTypes
<1>4. CASE \E l \in Levels : RecheckColor(e, l)
  <2>1. PICK l \in Levels : RecheckColor(e, l)
    BY <1>4
  <2>2. PictureFits(p', screen, carried) /\ Keeps(p, p')
    BY <2>1, RecoloredFits DEF RecheckColor
  <2> QED BY <1>1, <2>1, <2>2, CallKeeps DEF RecheckColor, AnimationIInv, AnimationTypes
<1> QED BY <1>2, <1>3, <1>4

\* A change that shows nothing new, with the list and the boxes in order, keeps the picture sound.
LEMMA QuietFits ==
  ASSUME NEW q, NEW s, NEW unsure, PictureFits(q, s, unsure), NEW r \in Pictures,
         Keeps(q, r), r.damage = q.damage, Listed(r), VarsFit(r), ChildFits(r),
         \A e \in Elements : Shift(r, e) = Shift(q, e),
         \A k \in Keys : k[2] # "geometry" => r.var[k].value = q.var[k].value,
         Running(r) = Running(q), \A e \in Running(q) : r.last[e] = q.last[e]
  PROVE  PictureFits(r, s, unsure)
<1>1. /\ q \in Pictures /\ LastCovers(q) /\ r.pos = q.pos
      /\ unsure \/ Accounted(q, s, Running(q))
      /\ "outer" \in Elements /\ Running(q) \in SUBSET Elements
  BY DEF PictureFits, Keeps, Elements, Running
<1>2. \A e \in Elements : /\ PresentationBox(r, e) = PresentationBox(q, e)
                          /\ Layout(r, e) = Layout(q, e)
  BY <1>1 DEF PresentationBox, Layout
<1>3. \A e \in Elements : Covers(r, e) = Covers(q, e)
  BY <1>2 DEF Covers
<1>4. \A e \in Elements : \A kind \in {"opacity", "color"} :
        r.var[Var(e, kind)].value = q.var[Var(e, kind)].value
  BY DEF Keys, Var
<1>5. \A e \in Elements : \A c : Layer(r, e, c) = Layer(q, e, c)
  BY <1>1, <1>2, <1>4 DEF Layer, EffectiveOpacity, OpacityOf
<1>6. Shown(r) = Shown(q)
  BY <1>5 DEF Shown
<1>7. LastCovers(r)
  BY <1>1, <1>3 DEF LastCovers
<1>8. Accounted(q, s, Running(q)) => Accounted(r, s, Running(r))
  <2>1. Promised(r, Running(r)) = Promised(q, Running(q))
    BY DEF Promised
  <2> QED BY <1>1, <1>2, <1>3, <1>6, <2>1 DEF Accounted
<1> QED BY <1>1, <1>7, <1>8 DEF PictureFits

\* A box that does not run is where the layout puts it.
LEMMA RestsUnshifted ==
  ASSUME NEW q \in Pictures, VarsFit(q), NEW e \in Elements, e \notin Running(q)
  PROVE  Shift(q, e) = 0
<1>1. q.pos[e] \in Int /\ ParentAt(q, e) \in Int /\ Geometry(e) = Var(e, "geometry")
  BY PictureFields DEF ParentAt, Geometry, Elements
<1>2. q.var[Geometry(e)].on => q.var[Geometry(e)].value = q.pos[e] - ParentAt(q, e)
  BY DEF VarsFit, VarFits, Running, GeometryFor
<1> QED BY <1>1, <1>2 DEF Shift

\* The values of a box that is animated from now on, or no longer
LEMMA GeometryForIs ==
  ASSUME NEW q \in Pictures, ChildFits(q), NEW e \in Elements
  PROVE  /\ GeometryFor(q, e) \in Int /\ ParentAt(q, e) + GeometryFor(q, e) - q.pos[e] = 0
         /\ e = "inner" => GeometryFor(q, e) \in Room
<1>1. q.pos[e] \in Int /\ ParentAt(q, e) \in Int
  BY PictureFields DEF ParentAt, Elements
<1> QED BY <1>1 DEF GeometryFor, ChildFits, ParentAt

LEMMA OffIs == Off \in VarRecords /\ ~Off.on /\ ~Off.run
BY DEF Off, VarRecords, Policies

LEMMA AnimateGeometryKeeps ==
  ASSUME AnimationIInv, NEW e \in Elements, NEW c \in Policies, AnimateGeometry(e, c)
  PROVE  AnimationIInv'
<1> DEFINE k == Geometry(e)
<1>1. /\ PictureFits(p, screen, carried) /\ carried \in BOOLEAN /\ p \in Pictures
      /\ Listed(p) /\ VarsFit(p) /\ ChildFits(p)
      /\ k \in Keys /\ k[1] = e /\ k[2] = "geometry" /\ k = Var(e, "geometry")
      /\ \A d \in Elements : k = Geometry(d) => d = e
      /\ p.var[k] \in VarRecords /\ p.active \in Seq(Keys) /\ p.pos[e] \in Int
  BY PictureFields DEF AnimationIInv, AnimationTypes, PictureFits, Geometry, Var, Keys
<1>2. /\ e \in Running(p) <=> p.var[k].run
      /\ k \in Within(p.active) <=> p.var[k].run
  BY <1>1 DEF Running, Listed, Connected, Within
<1>3. e \notin Running(p) => Shift(p, e) = 0
  BY <1>1, RestsUnshifted
<1> HIDE DEF k
<1>4. CASE c = "none"
  <2>1. MayReplace(p, k, Off, Parted(p, k))
    BY <1>1, <1>2, <1>3, OffIs, JoinedAndParted DEF MayReplace
  <2>2. p' = Notify(Replaced(p, k, Off, Parted(p, k)), k)
    <3>1. Disconnected(p, k) = [p EXCEPT !.active = Parted(p, k)]
      BY DEF Disconnected, Parted
    <3>2. [Disconnected(p, k) EXCEPT !.var[k] = Off] = Replaced(p, k, Off, Parted(p, k))
      BY <1>1, <3>1 DEF Replaced, Pictures
    <3>3. p' = DamagePresentation([Disconnected(p, k) EXCEPT !.var[k] = Off], e)
      BY <1>1, <1>4 DEF AnimateGeometry
    <3> QED BY <1>1, <3>2, <3>3 DEF Notify
  <2> QED BY <1>1, <2>1, <2>2, NotifyReplaced, CallKeeps DEF AnimateGeometry, AnimationIInv, AnimationTypes
<1>5. CASE c # "none" /\ p.var[k].on
  <2>1. p' = p
    BY <1>1, <1>5 DEF AnimateGeometry
  <2>2. Keeps(p, p')
    BY <2>1 DEF Keeps
  <2> QED BY <1>1, <2>1, <2>2, CallKeeps DEF AnimateGeometry, AnimationIInv, AnimationTypes
<1>6. CASE c # "none" /\ ~p.var[k].on
  <2>1. ~p.var[k].run
    BY <1>1, <1>6 DEF Listed
  <2>2. PICK v : v = Still(GeometryFor(p, e), c)
    OBVIOUS
  <2>3. /\ v \in VarRecords /\ v.on /\ ~v.run /\ v.goal = GeometryFor(p, e)
        /\ v.value = GeometryFor(p, e) /\ v.begun = GeometryFor(p, e)
        /\ ParentAt(p, e) + v.value - p.pos[e] = 0
        /\ e = "inner" => GeometryFor(p, e) \in Room
    BY <1>1, <2>2, StillIs, GeometryForIs
  <2>4. MayReplace(p, k, v, p.active)
    BY <1>1, <1>2, <1>3, <2>1, <2>3 DEF MayReplace
  <2>5. PICK m : m = Replaced(p, k, v, p.active)
    OBVIOUS
  <2>6. OneChanged(p, m, k)
    BY <1>1, <2>4, <2>5, ReplacedFits
  <2>7. m \in Pictures /\ m.pos = p.pos /\ m.last = p.last /\ m.damage = p.damage
        /\ m.presented = p.presented /\ m.active = p.active
        /\ m.var[k] = v /\ \A j \in Keys \ {k} : m.var[j] = p.var[j]
    BY <1>1, <2>3, <2>5, ReplacedFields
  <2>8. PICK now : now = PresentationSubtreeBox(m, e)
    OBVIOUS
  <2>9. p' = [m EXCEPT !.last[e] = now]
    <3>1. m = [p EXCEPT !.var[k] = v]
      BY <1>1, <2>5 DEF Replaced, Pictures
    <3> QED BY <1>1, <1>6, <2>2, <2>8, <3>1 DEF AnimateGeometry
  <2>10. now \in SUBSET Int
    BY <2>7, <2>8, SubtreeCovers
  <2>11. /\ p' \in Pictures /\ p'.pos = m.pos /\ p'.var = m.var /\ p'.active = m.active
         /\ p'.damage = m.damage /\ p'.presented = m.presented
         /\ \A d \in Elements \ {e} : p'.last[d] = m.last[d]
    BY <2>7, <2>9, <2>10 DEF Pictures
  <2>12. Listed(m) /\ VarsFit(m) /\ ChildFits(m) /\ Shift(m, e) = Shift(p, e)
    BY <1>1, <1>2, <2>1, <2>6 DEF OneChanged
  <2>13. \A d \in Elements : Shift(m, d) = Shift(p, d)
    <3>1. \A d \in Elements \ {e} : Var(d, "geometry") \in Keys \ {k}
      BY <1>1 DEF Var, Keys
    <3> QED BY <2>7, <2>12, <3>1 DEF Shift, ParentAt
  <2>14. Running(m) = Running(p)
    <3>1. \A d \in Elements \ {e} : Geometry(d) \in Keys \ {k}
      BY <1>1 DEF Var, Keys, Geometry
    <3>2. k = Geometry(e) /\ ~m.var[k].run
      BY <2>3, <2>7 DEF k
    <3>3. \A d \in Elements : m.var[Geometry(d)].run <=> p.var[Geometry(d)].run
      BY <2>1, <2>7, <3>1, <3>2
    <3> QED BY <3>3 DEF Running
  <2>15. PICK r : r = p'
    OBVIOUS
  <2>16. /\ r \in Pictures /\ r.pos = m.pos /\ r.var = m.var /\ r.active = m.active
         /\ r.damage = m.damage /\ r.presented = m.presented
         /\ \A d \in Elements \ {e} : r.last[d] = m.last[d]
    BY <2>11, <2>15
  <2>17. /\ Running(r) = Running(m) /\ \A d \in Elements : Shift(r, d) = Shift(m, d)
         /\ ChildFits(r) /\ \A d \in Elements : GeometryFor(r, d) = GeometryFor(m, d)
    BY <2>12, <2>16, SameLook DEF SameVars
  <2>18. Listed(r) /\ VarsFit(r)
    BY <2>12, <2>16, <2>17 DEF Listed, Connected, VarsFit, VarFits
  <2>19. Keeps(p, r) /\ r.damage = p.damage
    BY <2>7, <2>16 DEF Keeps
  <2>20. \A j \in Keys : j[2] # "geometry" => r.var[j].value = p.var[j].value
    BY <1>1, <2>7, <2>16
  <2>21. \A d \in Running(p) : r.last[d] = p.last[d]
    <3>1. \A d \in Running(p) : d \in Elements \ {e}
      BY <1>2, <2>1 DEF Running
    <3> QED BY <2>7, <2>16, <3>1
  <2>22. PictureFits(r, screen, carried)
    BY <1>1, <2>13, <2>14, <2>16, <2>17, <2>18, <2>19, <2>20, <2>21, QuietFits
  <2> QED BY <1>1, <2>15, <2>19, <2>22, CallKeeps DEF AnimateGeometry, AnimationIInv, AnimationTypes
<1> QED BY <1>4, <1>5, <1>6

\* An opacity that is not animated is a value of its own.
LEMMA PlainOffIs ==
  ASSUME NEW value \in Int
  PROVE  LET v == [Off EXCEPT !.value = value, !.goal = value]
         IN  v \in VarRecords /\ ~v.on /\ ~v.run /\ v.value = value /\ v.goal = value
<1>1. PICK off \in VarRecords : off = Off /\ ~off.on /\ ~off.run
  BY OffIs
<1>2. PICK v : v = [off EXCEPT !.value = value, !.goal = value]
  OBVIOUS
<1>3. v \in VarRecords /\ v.on = off.on /\ v.run = off.run /\ v.value = value /\ v.goal = value
  BY <1>2 DEF VarRecords
<1> QED BY <1>1, <1>2, <1>3

LEMMA AnimateOpacityKeeps ==
  ASSUME AnimationIInv, NEW e \in Elements, NEW c \in Policies, AnimateOpacity(e, c)
  PROVE  AnimationIInv'
<1> DEFINE k == Var(e, "opacity")
<1>1. /\ PictureFits(p, screen, carried) /\ carried \in BOOLEAN /\ p \in Pictures
      /\ Listed(p) /\ VarsFit(p) /\ ChildFits(p)
      /\ Plain(k) /\ k \in Keys /\ k[1] = e /\ k[2] = "opacity"
      /\ \A d \in Elements : Geometry(d) \in Keys \ {k}
      /\ p.var[k] \in VarRecords /\ p.var[k].goal \in Int /\ p.var[k].value \in Int
  BY PictureFields DEF AnimationIInv, AnimationTypes, PictureFits, Plain, Geometry, Var, Keys
<1>2. k \in Within(p.active) <=> p.var[k].run
  BY <1>1 DEF Listed, Connected, Within
<1> HIDE DEF k
<1>4. CASE c = "none"
  <2>1. PICK v : v = [Off EXCEPT !.value = p.var[k].goal, !.goal = p.var[k].goal]
    OBVIOUS
  <2>2. v \in VarRecords /\ ~v.run
    BY <1>1, <2>1, PlainOffIs
  <2>3. MayReplace(p, k, v, Parted(p, k))
    BY <1>1, <2>2, PlainMayReplace
  <2>4. p' = Notify(Replaced(p, k, v, Parted(p, k)), k)
    <3>1. Disconnected(p, k) = [p EXCEPT !.active = Parted(p, k)]
      BY DEF Disconnected, Parted
    <3>2. [Disconnected(p, k) EXCEPT !.var[k] = v] = Replaced(p, k, v, Parted(p, k))
      BY <1>1, <3>1 DEF Replaced, Pictures
    <3>3. p' = DamagePresentation([Disconnected(p, k) EXCEPT !.var[k] = v], e)
      BY <1>1, <1>4, <2>1 DEF AnimateOpacity, k
    <3> QED BY <1>1, <3>2, <3>3 DEF Notify
  <2>5. PictureFits(p', screen, carried) /\ Keeps(p, p')
    BY <1>1, <2>3, <2>4, NotifyReplaced
  <2> QED BY <1>1, <2>5, CallKeeps DEF AnimateOpacity, AnimationIInv, AnimationTypes
<1>5. CASE c # "none" /\ p.var[k].on
  <2>1. p' = p
    BY <1>1, <1>5 DEF AnimateOpacity, k
  <2>2. Keeps(p, p')
    BY <2>1 DEF Keeps
  <2> QED BY <1>1, <2>1, <2>2, CallKeeps DEF AnimateOpacity, AnimationIInv, AnimationTypes
<1>6. CASE c # "none" /\ ~p.var[k].on
  <2>1. ~p.var[k].run
    BY <1>1, <1>6 DEF Listed
  <2>2. PICK v : v = Still(p.var[k].value, c)
    OBVIOUS
  <2>3. v \in VarRecords /\ ~v.run /\ v.value = p.var[k].value
    BY <1>1, <2>2, StillIs
  <2>4. MayReplace(p, k, v, p.active)
    BY <1>1, <1>2, <2>1, <2>3 DEF MayReplace, Pictures
  <2>5. PICK m : m = Replaced(p, k, v, p.active)
    OBVIOUS
  <2>6. OneChanged(p, m, k)
    BY <1>1, <2>4, <2>5, ReplacedFits
  <2>7. m \in Pictures /\ m.pos = p.pos /\ m.last = p.last /\ m.damage = p.damage
        /\ m.presented = p.presented /\ m.active = p.active
        /\ m.var[k] = v /\ \A j \in Keys \ {k} : m.var[j] = p.var[j]
    <3>1. p.active \in Seq(Keys)
      BY <1>1, PictureFields
    <3> QED BY <1>1, <2>3, <2>5, <3>1, ReplacedFields
  <2>8. p' = m
    <3>1. m = [p EXCEPT !.var[k] = v]
      BY <1>1, <2>5 DEF Replaced, Pictures
    <3> QED BY <1>1, <1>6, <2>2, <3>1 DEF AnimateOpacity, k
  <2>9. Keeps(p, m) /\ Listed(m) /\ VarsFit(m) /\ ChildFits(m)
    BY <2>6, <2>7 DEF Keeps, OneChanged
  <2>10. /\ Running(m) = Running(p) /\ \A d \in Elements : Shift(m, d) = Shift(p, d)
         /\ \A j \in Keys : m.var[j].value = p.var[j].value
    BY <1>1, <2>3, <2>7 DEF Running, Shift, ParentAt, Geometry
  <2>11. PictureFits(m, screen, carried)
    BY <1>1, <2>7, <2>9, <2>10, QuietFits
  <2> QED BY <1>1, <2>8, <2>9, <2>11, CallKeeps DEF AnimateOpacity, AnimationIInv, AnimationTypes
<1> QED BY <1>4, <1>5, <1>6

LEMMA SetOpacityKeeps ==
  ASSUME AnimationIInv, NEW e \in Elements, NEW o \in Levels, SetOpacity(e, o)
  PROVE  AnimationIInv'
<1> DEFINE k == Var(e, "opacity")
<1>1. /\ PictureFits(p, screen, carried) /\ carried \in BOOLEAN /\ p \in Pictures
      /\ Listed(p) /\ Plain(k) /\ k \in Keys /\ k[1] = e /\ k[2] = "opacity"
      /\ p.var[k] \in VarRecords /\ p.var[k].value \in Int
      /\ policy[k] \in Policies /\ o \in Int
  BY PictureFields DEF AnimationIInv, AnimationTypes, PictureFits, Plain, Var, Keys, Levels
<1>2. k \in Within(p.active) <=> p.var[k].run
  BY <1>1 DEF Listed, Connected, Within
<1> SUFFICES PictureFits(p', screen, carried) /\ Keeps(p, p')
  BY CallKeeps DEF SetOpacity, AnimationIInv, AnimationTypes
<1> HIDE DEF k
<1>3. CASE p.var[k].on
  <2>1. PICK m : m = IF p.var[k].run /\ p.var[k].cfg # policy[k] THEN Warp(p, k, p.var[k].value) ELSE p
    OBVIOUS
  <2>2. PictureFits(m, screen, carried) /\ Keeps(p, m) /\ m.var[k].on
    <3>1. Keeps(p, p)
      BY DEF Keeps
    <3>2. /\ PictureFits(Warp(p, k, p.var[k].value), screen, carried)
          /\ Keeps(p, Warp(p, k, p.var[k].value)) /\ Warp(p, k, p.var[k].value).var[k].on
      BY <1>1, PlainWarpFits
    <3> QED BY <1>1, <1>3, <2>1, <3>1, <3>2
  <2>3. PICK q : q = SetConfig(m, k, policy[k])
    OBVIOUS
  <2>4. PictureFits(q, screen, carried) /\ Keeps(m, q) /\ q.var[k].on
    <3>1. m.var[k] \in VarRecords
      BY <1>1, <2>2, PictureFields DEF PictureFits
    <3>2. [m.var[k] EXCEPT !.cfg = policy[k]].on = m.var[k].on
      BY <3>1 DEF VarRecords
    <3>3. /\ PictureFits(q, screen, carried) /\ Keeps(m, q)
          /\ q.var[k] = [m.var[k] EXCEPT !.cfg = policy[k]]
      BY <1>1, <2>2, <2>3, ConfigFits
    <3> QED BY <2>2, <3>2, <3>3
  <2>5. PictureFits(Assign(q, k, o), screen, carried) /\ Keeps(q, Assign(q, k, o))
    BY <1>1, <2>4, PlainAssignFits
  <2>6. p' = Assign(q, k, o)
    BY <1>3, <2>1, <2>3 DEF SetOpacity, k
  <2> QED BY <2>2, <2>4, <2>5, <2>6, KeepsOn
<1>4. CASE ~p.var[k].on /\ p.var[k].value = o
  <2>1. p' = p
    BY <1>4 DEF SetOpacity, k
  <2> QED BY <1>1, <2>1 DEF Keeps
<1>5. CASE ~p.var[k].on /\ p.var[k].value # o
  <2>1. ~p.var[k].run
    BY <1>1, <1>5 DEF Listed
  <2>2. PICK v : v = [Off EXCEPT !.value = o, !.goal = o]
    OBVIOUS
  <2>3. v \in VarRecords /\ ~v.run
    BY <1>1, <2>2, PlainOffIs
  <2>4. MayReplace(p, k, v, p.active)
    <3>1. \A d \in Elements : k # Geometry(d)
      BY <1>1 DEF Geometry, Var
    <3> QED BY <1>1, <1>2, <2>1, <2>3, <3>1 DEF MayReplace, Pictures
  <2>5. p' = Notify(Replaced(p, k, v, p.active), k)
    <3>1. [p EXCEPT !.var[k] = v] = Replaced(p, k, v, p.active)
      BY <1>1 DEF Replaced, Pictures
    <3>2. p' = DamagePresentation([p EXCEPT !.var[k] = v], e)
      BY <1>5, <2>2 DEF SetOpacity, k
    <3> QED BY <1>1, <3>1, <3>2 DEF Notify
  <2> QED BY <1>1, <2>4, <2>5, NotifyReplaced
<1> QED BY <1>3, <1>4, <1>5

----------------------------------------------------------------------------
\* The tick

\* What the tick makes of a variable
Moved(v, step) ==
  IF step = Done \/ v.cfg = "none" \/ v.value = v.goal THEN [v EXCEPT !.value = v.goal, !.run = FALSE]
  ELSE [v EXCEPT !.value = step, !.left = @ - 1]

\* The elements whose geometry the tick has yet to move after i variables
Due(q, i) == {e \in Elements : \E j \in i + 1 .. Len(q.active) : q.active[j] = Geometry(e)}

\* The steps lie on the way.
OnTheWay(q, steps) ==
  \A k \in Within(q.active) : steps[k] \in {Done} \cup Between(q.var[k].begun, q.var[k].goal)

\* r is q after i variables were ticked.
TickFits(q, r, s, unsure, i) ==
  /\ r \in Pictures /\ r.active = q.active /\ Keeps(q, r)
  /\ \A k \in Keys : /\ r.var[k].on = q.var[k].on /\ (r.var[k].run => q.var[k].run)
                     /\ r.var[k].begun = q.var[k].begun /\ r.var[k].goal = q.var[k].goal
  /\ VarsFit(r) /\ ChildFits(r) /\ LastCovers(r)
  /\ unsure \/ Accounted(r, s, Due(q, i))

LEMMA MovedIs ==
  ASSUME NEW v \in VarRecords, NEW step, step \in {Done} \cup Between(v.begun, v.goal)
  PROVE  LET m == Moved(v, step)
         IN  /\ m \in VarRecords /\ m.on = v.on /\ m.begun = v.begun /\ m.goal = v.goal
             /\ m.run => v.run
             /\ ~m.run => m.value = v.goal \/ ~v.run
             /\ v.value = v.goal => m.value = v.goal
             /\ m.value \in {v.goal} \cup Between(v.begun, v.goal)
<1>1. v.begun \in Int /\ v.goal \in Int /\ v.left \in Int
  BY DEF VarRecords
<1>2. CASE step = Done \/ v.cfg = "none" \/ v.value = v.goal
  <2>1. PICK m : m = [v EXCEPT !.value = v.goal, !.run = FALSE]
    OBVIOUS
  <2>2. /\ m \in VarRecords /\ m.on = v.on /\ m.begun = v.begun /\ m.goal = v.goal
        /\ m.value = v.goal /\ m.run = FALSE
    BY <1>1, <2>1 DEF VarRecords
  <2>3. Moved(v, step) = m
    BY <1>2, <2>1 DEF Moved
  <2> QED BY <2>2, <2>3
<1>3. CASE ~(step = Done \/ v.cfg = "none" \/ v.value = v.goal)
  <2>1. step \in Between(v.begun, v.goal) /\ step \in Int
    BY <1>1, <1>3 DEF Between
  <2>5. PICK left \in Int : left = v.left - 1
    BY <1>1
  <2>2. PICK m : m = [v EXCEPT !.value = step, !.left = left]
    OBVIOUS
  <2>3. /\ m \in VarRecords /\ m.on = v.on /\ m.begun = v.begun /\ m.goal = v.goal
        /\ m.value = step /\ m.run = v.run
    BY <1>1, <2>1, <2>2 DEF VarRecords
  <2>4. Moved(v, step) = m
    BY <1>3, <2>2, <2>5 DEF Moved
  <2> QED BY <1>3, <2>1, <2>3, <2>4
<1> QED BY <1>2, <1>3

LEMMA TickOneFits ==
  ASSUME NEW q, NEW s, NEW unsure \in BOOLEAN, PictureFits(q, s, unsure), NEW steps, OnTheWay(q, steps),
         NEW i \in 0 .. Len(q.active) - 1, NEW r, TickFits(q, r, s, unsure, i)
  PROVE  LET k == q.active[i + 1]
         IN  TickFits(q, TickOne(r, k, steps[k]), s, unsure, i + 1)
<1> DEFINE k == q.active[i + 1]
           e == k[1]
<1>1. /\ q \in Pictures /\ r \in Pictures /\ Listed(q) /\ r.active = q.active /\ Keeps(q, r)
      /\ \A j \in Keys : /\ r.var[j].on = q.var[j].on /\ (r.var[j].run => q.var[j].run)
                         /\ r.var[j].begun = q.var[j].begun /\ r.var[j].goal = q.var[j].goal
      /\ VarsFit(r) /\ ChildFits(r) /\ LastCovers(r)
  BY DEF PictureFits, TickFits
<1>2. q.active \in Seq(Keys) /\ i + 1 \in 1 .. Len(q.active) /\ k \in Keys /\ k \in Within(q.active)
  <2>1. q.active \in Seq(Keys)
    BY <1>1, PictureFields
  <2> QED BY <2>1 DEF Within
<1>3. /\ e \in Elements /\ k = Var(e, k[2])
      /\ \A d \in Elements : Geometry(d) \in Keys /\ (k = Geometry(d) <=> d = e /\ k[2] = "geometry")
      /\ "inner" \in Elements /\ "outer" \in Elements
  BY <1>2 DEF Keys, Var, Geometry, Elements
<1> HIDE DEF k, e
<1>4. PICK v : v = r.var[k]
  OBVIOUS
<1>5. v \in VarRecords /\ v.value \in Int /\ v.begun \in Int /\ v.goal \in Int
  BY <1>1, <1>2, <1>4, PictureFields
<1>6. steps[k] \in {Done} \cup Between(v.begun, v.goal)
  BY <1>1, <1>2, <1>4 DEF OnTheWay
<1>7. PICK w : w = Moved(v, steps[k])
  OBVIOUS
<1>8. /\ w \in VarRecords /\ w.on = v.on /\ w.begun = v.begun /\ w.goal = v.goal
      /\ w.run => v.run
      /\ ~w.run => w.value = v.goal \/ ~v.run
      /\ v.value = v.goal => w.value = v.goal
      /\ w.value \in {v.goal} \cup Between(v.begun, v.goal)
  BY <1>5, <1>6, <1>7, MovedIs
<1>9. PICK m : m = [r EXCEPT !.var[k] = w]
  OBVIOUS
<1>10. /\ m \in Pictures /\ m.pos = r.pos /\ m.last = r.last /\ m.damage = r.damage
       /\ m.presented = r.presented /\ m.active = r.active
       /\ m.var[k] = w /\ \A j \in Keys \ {k} : m.var[j] = r.var[j]
  BY <1>1, <1>2, <1>8, <1>9 DEF Pictures
<1>11. TickOne(r, k, steps[k]) = Notify(m, k)
  BY <1>4, <1>7, <1>9 DEF TickOne, Moved, Enabled
<1>12. VarsFit(m)
  <2>1. ASSUME NEW d \in Elements PROVE VarFits(m, d)
    <3>1. GeometryFor(m, d) = GeometryFor(r, d) /\ VarFits(r, d)
      BY <1>1, <1>10 DEF GeometryFor, ParentAt, VarsFit
    <3>2. CASE k = Geometry(d)
      BY <1>4, <1>8, <1>10, <3>1, <3>2 DEF VarFits
    <3>3. CASE k # Geometry(d)
      BY <1>3, <1>10, <3>1, <3>3 DEF VarFits
    <3> QED BY <3>2, <3>3
  <2> QED BY <2>1 DEF VarsFit
<1>13. ChildFits(m)
  <2>1. CASE k = Geometry("inner")
    <3>1. v.on => {v.value, v.begun, v.goal} \subseteq Room
      BY <1>1, <1>4, <2>1 DEF ChildFits
    <3>2. v.on => w.value \in Room
      <4>1. Length["outer"] \in Int /\ Length["inner"] \in Int
        BY Sizes, <1>3
      <4> QED BY <1>5, <1>8, <3>1, <4>1 DEF Room, Between
    <3> QED BY <1>1, <1>8, <1>10, <2>1, <3>1, <3>2 DEF ChildFits
  <2>2. CASE k # Geometry("inner")
    BY <1>1, <1>3, <1>10, <2>2 DEF ChildFits
  <2> QED BY <2>1, <2>2
<1>14. PICK u : u = Notify(m, k)
  OBVIOUS
<1>15. /\ u \in Pictures /\ u.pos = m.pos /\ u.var = m.var /\ u.active = m.active
       /\ u.presented = m.presented /\ m.damage \subseteq u.damage
  <2>1. k[2] \in {"geometry", "opacity", "color"}
    BY <1>2 DEF Keys
  <2> QED BY <1>2, <1>10, <1>14, NotifyFields
<1>16. VarsFit(u) /\ ChildFits(u)
  <2>1. (ChildFits(u) <=> ChildFits(m)) /\ \A d \in Elements : GeometryFor(u, d) = GeometryFor(m, d)
    BY <1>15, SameLook DEF SameVars
  <2> QED BY <1>12, <1>13, <1>15, <2>1 DEF VarsFit, VarFits
<1>17. LastCovers(u)
  <2>1. ASSUME k # Geometry("outer") PROVE LastCovers(m)
    <3>1. m.var[Geometry("outer")] = r.var[Geometry("outer")]
      BY <1>3, <1>10, <2>1
    <3>2. Shift(m, "outer") = Shift(r, "outer")
      BY <1>10, <3>1 DEF Shift, ParentAt, Geometry
    <3>3. Covers(m, "outer") = Covers(r, "outer") /\ ("outer" \in Running(m) <=> "outer" \in Running(r))
      BY <1>10, <3>1, <3>2 DEF Covers, PresentationBox, Running
    <3> QED BY <1>1, <1>10, <3>3 DEF LastCovers
  <2> QED BY <1>2, <1>10, <1>14, <2>1, NotifyLastCovers
<1>18. ASSUME ~unsure PROVE Accounted(u, s, Due(q, i + 1))
  <2>1. Due(q, i + 1) \subseteq Due(q, i) /\ \A d \in Due(q, i) \ Due(q, i + 1) : k = Geometry(d)
    <3>1. i \in Int /\ Len(q.active) \in Int
      BY <1>2
    <3>2. \A j \in i + 1 .. Len(q.active) : j = i + 1 \/ j \in (i + 1) + 1 .. Len(q.active)
      BY <3>1
    <3>3. \A j \in (i + 1) + 1 .. Len(q.active) : j \in i + 1 .. Len(q.active)
      BY <3>1
    <3> QED BY <3>2, <3>3 DEF Due, k
  <2>2. k[2] = "geometry" => e \in Due(q, i)
    <3>1. i + 1 \in i + 1 .. Len(q.active)
      BY <1>2
    <3> QED BY <1>3, <3>1 DEF Due, k
  <2>3. Due(q, i) \in SUBSET Elements
    BY DEF Due
  <2>4. Changed(r, m, k, Due(q, i), Due(q, i + 1))
    BY <1>1, <1>2, <1>3, <1>10, <2>1, <2>2, <2>3 DEF Changed, e
  <2> QED BY <1>1, <1>14, <1>18, <2>4, NotifyAccounts DEF TickFits
<1>19. Keeps(q, u) /\ u.active = q.active
  BY <1>1, <1>10, <1>15 DEF Keeps
<1>20. \A j \in Keys : /\ u.var[j].on = q.var[j].on /\ (u.var[j].run => q.var[j].run)
                       /\ u.var[j].begun = q.var[j].begun /\ u.var[j].goal = q.var[j].goal
  BY <1>1, <1>2, <1>4, <1>8, <1>10, <1>15
<1>21. TickFits(q, u, s, unsure, i + 1)
  BY <1>15, <1>16, <1>17, <1>18, <1>19, <1>20 DEF TickFits
<1> QED BY <1>11, <1>14, <1>21 DEF k

LEMMA TickOneIs ==
  ASSUME NEW r \in Pictures, NEW k \in Keys, NEW step \in Int
  PROVE  TickOne(r, k, step) \in Pictures
<1>1. PICK v \in VarRecords : v = r.var[k]
  BY PictureFields
<1>2. PICK w : w = Moved(v, step)
  OBVIOUS
<1>3. v.goal \in Int /\ v.left \in Int
  BY DEF VarRecords
<1>4. w \in VarRecords
  <2>1. PICK left \in Int : left = v.left - 1
    BY <1>3
  <2>2. /\ [v EXCEPT !.value = v.goal, !.run = FALSE] \in VarRecords
        /\ [v EXCEPT !.value = step, !.left = left] \in VarRecords
    BY <1>3 DEF VarRecords
  <2> QED BY <1>2, <2>1, <2>2 DEF Moved
<1>5. PICK m : m = [r EXCEPT !.var[k] = w]
  OBVIOUS
<1>6. m \in Pictures
  BY <1>4, <1>5 DEF Pictures
<1>7. TickOne(r, k, step) = Notify(m, k)
  BY <1>1, <1>2, <1>5 DEF TickOne, Moved, Enabled
<1> QED BY <1>6, <1>7, NotifyFields

\* The tick is a chain of such steps.
Ticks(q, steps, ticked) ==
  /\ ticked[0] = q
  /\ \A i \in 1 .. Len(q.active) :
       ticked[i] = TickOne(ticked[i - 1], q.active[i], steps[q.active[i]])
  /\ LET r == ticked[Len(q.active)]
     IN  Tick(q, steps) = [r EXCEPT !.active = Kept(@, {k \in Keys : IsRunning(r, k)})]

LEMMA TickIs ==
  ASSUME NEW q \in Pictures, NEW steps, OnTheWay(q, steps)
  PROVE  \E ticked : Ticks(q, steps, ticked)
<1> DEFINE n == Len(q.active)
           One(r, i) == TickOne(r, q.active[i], steps[q.active[i]])
           step == [i \in 1 .. n |-> [r \in Pictures |-> One(r, i)]]
           Chained(f) == [i \in 0 .. n |-> IF i = 0 THEN q ELSE One(f[i - 1], i)]
           ticked == CHOOSE f : f = Chained(f)
<1>1. n \in Nat /\ \A i \in 1 .. n : q.active[i] \in Keys /\ q.active[i] \in Within(q.active)
  <2>1. q.active \in Seq(Keys)
    BY PictureFields
  <2> QED BY <2>1 DEF Within
<1>2. \A i \in 1 .. n : steps[q.active[i]] \in Int
  <2>1. ASSUME NEW i \in 1 .. n PROVE steps[q.active[i]] \in Int
    <3>1. PICK k \in Keys : k = q.active[i]
      BY <1>1
    <3>2. q.var[k].begun \in Int /\ q.var[k].goal \in Int
      BY PictureFields
    <3>3. steps[k] \in {Done} \cup Between(q.var[k].begun, q.var[k].goal)
      BY <1>1, <3>1 DEF OnTheWay
    <3> QED BY <3>1, <3>2, <3>3 DEF Done, Between
  <2> QED BY <2>1
<1>3. \A i \in 1 .. n : \A r \in Pictures : One(r, i) \in Pictures
  BY <1>1, <1>2, TickOneIs
<1> HIDE DEF One
<1>4. step \in [1 .. n -> [Pictures -> Pictures]]
  <2>1. \A i \in 1 .. n : step[i] \in [Pictures -> Pictures]
    BY <1>3
  <2> QED BY <2>1
<1>5. PICK f \in [0 .. n -> Pictures] : f[0] = q /\ \A i \in 1 .. n : f[i] = step[i][f[i - 1]]
  <2>1. Chain(n, Pictures, q, step)
    BY <1>1, <1>4 DEF Chain
  <2> HIDE DEF step, n
  <2>2. \E f \in [0 .. n -> Pictures] : Follows(f, n, q, step)
    BY <2>1, StepsExist
  <2> QED BY <2>2 DEF Follows
<1>6. f = Chained(f)
  <2>1. ASSUME NEW i \in 0 .. n PROVE f[i] = Chained(f)[i]
    <3>1. CASE i = 0
      BY <1>5, <3>1
    <3>2. CASE i # 0
      <4>1. i \in 1 .. n /\ i - 1 \in 0 .. n
        BY <1>1, <3>2
      <4>2. f[i - 1] \in Pictures
        BY <1>5, <4>1
      <4> QED BY <1>5, <3>2, <4>1, <4>2
    <3> QED BY <3>1, <3>2
  <2> QED BY <2>1
<1>7. ticked = Chained(ticked)
  BY <1>6
<1>8. Tick(q, steps) =
        LET r == ticked[n] IN [r EXCEPT !.active = Kept(@, {k \in Keys : IsRunning(r, k)})]
  BY DEF Tick, One
<1> HIDE DEF ticked
<1>9. \A i \in 0 .. n : ticked[i] = IF i = 0 THEN q ELSE One(ticked[i - 1], i)
  BY <1>7
<1>10. ticked[0] = q /\ \A i \in 1 .. n : ticked[i] = One(ticked[i - 1], i)
  <2>1. 0 \in 0 .. n /\ \A i \in 1 .. n : i \in 0 .. n /\ i # 0
    BY <1>1
  <2> QED BY <1>9, <2>1
<1> QED BY <1>8, <1>10 DEF Ticks, One

\* What the tick keeps, and that it pays what was promised
LEMMA TickPays ==
  ASSUME NEW q, NEW s, NEW unsure \in BOOLEAN, PictureFits(q, s, unsure), NEW steps, OnTheWay(q, steps)
  PROVE  LET u == Tick(q, steps)
         IN  /\ u \in Pictures /\ Listed(u) /\ VarsFit(u) /\ ChildFits(u) /\ LastCovers(u)
             /\ Keeps(q, u) /\ (unsure \/ Accounted(u, s, {}))
<1>1. q \in Pictures /\ Listed(q) /\ VarsFit(q) /\ ChildFits(q) /\ LastCovers(q)
      /\ (unsure \/ Accounted(q, s, Running(q)))
  BY DEF PictureFits
<1>2. PICK ticked : Ticks(q, steps, ticked)
  BY <1>1, TickIs
<1> DEFINE n == Len(q.active)
           good == {i \in 0 .. n : TickFits(q, ticked[i], s, unsure, i)}
<1>3. q.active \in Seq(Keys) /\ n \in Nat /\ DOMAIN q.active = 1 .. n
  BY <1>1, PictureFields
<1>4. 0 \in good
  <2>1. Due(q, 0) = Running(q)
    <3>1. \A e \in Elements : Geometry(e) \in Keys /\ (Connected(q, Geometry(e)) <=> q.var[Geometry(e)].run)
      BY <1>1 DEF Geometry, Var, Keys, Listed
    <3>2. \A e \in Elements : Connected(q, Geometry(e)) <=> \E j \in 0 + 1 .. n : q.active[j] = Geometry(e)
      BY <1>3 DEF Connected
    <3> QED BY <3>1, <3>2 DEF Due, Running
  <2>2. Keeps(q, q)
    BY DEF Keeps
  <2>3. TickFits(q, q, s, unsure, 0)
    BY <1>1, <2>1, <2>2 DEF TickFits
  <2> QED BY <1>2, <1>3, <2>3 DEF Ticks
<1>5. ASSUME NEW i \in 0 .. n - 1, i \in good PROVE i + 1 \in good
  <2>1. i + 1 \in 1 .. n /\ i + 1 \in 0 .. n /\ (i + 1) - 1 = i
    BY <1>3
  <2>2. ticked[i + 1] = TickOne(ticked[i], q.active[i + 1], steps[q.active[i + 1]])
    <3>1. ticked[i + 1] = TickOne(ticked[(i + 1) - 1], q.active[i + 1], steps[q.active[i + 1]])
      BY <1>2, <2>1 DEF Ticks
    <3> QED BY <2>1, <3>1
  <2>3. TickFits(q, ticked[i], s, unsure, i)
    BY <1>5
  <2>4. PICK r : r = ticked[i]
    OBVIOUS
  <2>5. TickFits(q, TickOne(r, q.active[i + 1], steps[q.active[i + 1]]), s, unsure, i + 1)
    BY <2>3, <2>4, TickOneFits
  <2> QED BY <2>1, <2>2, <2>4, <2>5
<1>6. n \in good
  <2>1. good \in SUBSET (0 .. n)
    OBVIOUS
  <2> HIDE DEF good, n
  <2> QED BY <1>3, <1>4, <1>5, <2>1, StepsKeep
<1>7. PICK r : r = ticked[n]
  OBVIOUS
<1>8. /\ r \in Pictures /\ r.active = q.active /\ Keeps(q, r)
      /\ \A k \in Keys : /\ r.var[k].on = q.var[k].on /\ (r.var[k].run => q.var[k].run)
                         /\ r.var[k].begun = q.var[k].begun /\ r.var[k].goal = q.var[k].goal
      /\ VarsFit(r) /\ ChildFits(r) /\ LastCovers(r)
      /\ unsure \/ Accounted(r, s, Due(q, n))
  BY <1>6, <1>7 DEF TickFits
<1>9. Due(q, n) = {}
  BY <1>3 DEF Due
<1>10. PICK a : a = Kept(q.active, {k \in Keys : IsRunning(r, k)})
  OBVIOUS
<1>11. a \in Seq(Keys) /\ Within(a) = Within(q.active) \cap {k \in Keys : IsRunning(r, k)}
  BY <1>3, <1>10, KeptIsWithin
<1>12. PICK u : u = [r EXCEPT !.active = a]
  OBVIOUS
<1>13. /\ u \in Pictures /\ u.pos = r.pos /\ u.var = r.var /\ u.active = a /\ u.last = r.last
       /\ u.damage = r.damage /\ u.presented = r.presented
  BY <1>8, <1>11, <1>12 DEF Pictures
<1>14. Tick(q, steps) = u
  BY <1>2, <1>7, <1>8, <1>10, <1>12 DEF Ticks
<1>15. Listed(u)
  <2>1. ASSUME NEW k \in Keys
        PROVE  (Connected(u, k) <=> u.var[k].run) /\ (k[2] # "color" /\ u.var[k].run => u.var[k].on)
    <3>1. Connected(u, k) <=> k \in Within(a)
      BY <1>13 DEF Connected, Within
    <3>2. q.var[k].run => k \in Within(q.active)
      BY <1>1 DEF Listed, Connected, Within
    <3>3. IsRunning(r, k) <=> r.var[k].run
      BY DEF IsRunning
    <3> QED BY <1>1, <1>8, <1>11, <1>13, <3>1, <3>2, <3>3 DEF Listed
  <2> QED BY <2>1 DEF Listed
<1>16. /\ Shown(u) = Shown(r) /\ Running(u) = Running(r) /\ (ChildFits(u) <=> ChildFits(r))
       /\ \A e \in Elements : /\ Covers(u, e) = Covers(r, e) /\ Layout(u, e) = Layout(r, e)
                              /\ GeometryFor(u, e) = GeometryFor(r, e)
  BY <1>13, SameLook DEF SameVars
<1>17. VarsFit(u) /\ LastCovers(u)
  BY <1>8, <1>13, <1>16 DEF VarsFit, VarFits, LastCovers, Elements
<1>18. unsure \/ Accounted(u, s, {})
  BY <1>8, <1>9, <1>13, <1>16 DEF Accounted, Promised
<1>19. Keeps(q, u)
  BY <1>8, <1>13 DEF Keeps
<1> QED BY <1>8, <1>13, <1>14, <1>15, <1>16, <1>17, <1>18, <1>19

----------------------------------------------------------------------------
\* The layout and the frame

\* A box gets the record v, with the callbacks.
LEMMA BoxReplaced ==
  ASSUME NEW q \in Pictures, Listed(q), NEW e \in Elements, NEW v \in VarRecords, v.on, NEW a,
         a = IF v.run THEN Joined(q, Geometry(e)) ELSE Parted(q, Geometry(e))
  PROVE  LET k == Geometry(e)
             r == Notify(Replaced(q, k, v, a), k)
         IN  /\ r \in Pictures /\ Keeps(q, r) /\ Listed(r)
             /\ r.var[k] = v /\ \A j \in Keys \ {k} : r.var[j] = q.var[j]
             /\ e = "inner" => r.last["outer"] = q.last["outer"]
             /\ e = "outer" => LastCovers(r)
<1> DEFINE k == Geometry(e)
<1>1. k \in Keys /\ k[1] = e /\ k[2] = "geometry" /\ (e = "outer" <=> k = Geometry("outer"))
  BY DEF Geometry, Var, Keys
<1> HIDE DEF k
<1>2. /\ a \in Seq(Keys) /\ Within(a) \ {k} = Within(q.active) \ {k} /\ (k \in Within(a) <=> v.run)
  <2>1. /\ Joined(q, k) \in Seq(Keys) /\ Within(Joined(q, k)) = Within(q.active) \cup {k}
        /\ Parted(q, k) \in Seq(Keys) /\ Within(Parted(q, k)) = Within(q.active) \ {k}
    BY <1>1, JoinedAndParted
  <2>2. CASE v.run
    BY <2>1, <2>2 DEF k
  <2>3. CASE ~v.run
    BY <2>1, <2>3 DEF k
  <2> QED BY <2>2, <2>3
<1>3. PICK m : m = Replaced(q, k, v, a)
  OBVIOUS
<1>4. /\ m \in Pictures /\ m.pos = q.pos /\ m.last = q.last /\ m.damage = q.damage
      /\ m.presented = q.presented /\ m.active = a
      /\ m.var[k] = v /\ \A j \in Keys \ {k} : m.var[j] = q.var[j]
  BY <1>1, <1>2, <1>3, ReplacedFields
<1>5. PICK r : r = Notify(m, k)
  OBVIOUS
<1>6. /\ r \in Pictures /\ r.pos = m.pos /\ r.var = m.var /\ r.active = m.active
      /\ r.presented = m.presented /\ m.damage \subseteq r.damage
      /\ r.last = [m.last EXCEPT ![e] = PresentationSubtreeBox(m, e)]
  BY <1>1, <1>4, <1>5, NotifyFields
<1>7. Listed(r)
  <2>1. ASSUME NEW j \in Keys
        PROVE  (Connected(r, j) <=> r.var[j].run) /\ (j[2] # "color" /\ r.var[j].run => r.var[j].on)
    <3>1. (Connected(r, j) <=> j \in Within(a)) /\ (Connected(q, j) <=> j \in Within(q.active))
      BY <1>4, <1>6 DEF Connected, Within
    <3>2. CASE j = k
      BY <1>2, <1>4, <1>6, <3>1, <3>2
    <3>3. CASE j # k
      <4>1. j \in Within(a) <=> j \in Within(q.active)
        BY <1>2, <3>3
      <4> QED BY <1>4, <1>6, <3>1, <3>3, <4>1 DEF Listed
    <3> QED BY <3>2, <3>3
  <2> QED BY <2>1 DEF Listed
<1>8. e = "outer" => LastCovers(r)
  BY <1>1, <1>4, <1>5, NotifyLastCovers
<1>9. e = "inner" => r.last["outer"] = q.last["outer"]
  BY <1>4, <1>6 DEF Pictures, Elements
<1>10. Keeps(q, r)
  BY <1>4, <1>6 DEF Keeps
<1> QED BY <1>3, <1>4, <1>5, <1>6, <1>7, <1>8, <1>9, <1>10 DEF k

LEMMA ConfigFields ==
  ASSUME NEW q \in Pictures, NEW k \in Keys, NEW c \in Policies
  PROVE  LET r == SetConfig(q, k, c)
         IN  /\ r \in Pictures /\ r.pos = q.pos /\ r.last = q.last /\ r.damage = q.damage
             /\ r.presented = q.presented /\ r.active = q.active
             /\ r.var[k] \in VarRecords /\ (r.var[k].on <=> q.var[k].on) /\ (r.var[k].run <=> q.var[k].run)
             /\ r.var[k].value = q.var[k].value /\ r.var[k].begun = q.var[k].begun
             /\ r.var[k].goal = q.var[k].goal
             /\ \A j \in Keys \ {k} : r.var[j] = q.var[j]
             /\ Listed(q) => Listed(r)
<1> DEFINE r == SetConfig(q, k, c)
<1>1. PICK v : v = [q.var[k] EXCEPT !.cfg = c]
  OBVIOUS
<1>2. /\ v \in VarRecords /\ v.on = q.var[k].on /\ v.run = q.var[k].run
      /\ v.value = q.var[k].value /\ v.begun = q.var[k].begun /\ v.goal = q.var[k].goal
  BY <1>1, PictureFields DEF VarRecords
<1>3. r = [q EXCEPT !.var[k] = v]
  BY <1>1 DEF SetConfig
<1>4. /\ r \in Pictures /\ r.pos = q.pos /\ r.last = q.last /\ r.damage = q.damage
      /\ r.presented = q.presented /\ r.active = q.active
      /\ r.var[k] = v /\ \A j \in Keys \ {k} : r.var[j] = q.var[j]
  BY <1>2, <1>3 DEF Pictures
<1> HIDE DEF r
<1>5. Listed(q) => Listed(r)
  BY <1>2, <1>4 DEF Listed, Connected
<1> QED BY <1>2, <1>4, <1>5 DEF r

\* t is q with the element e at another place in the layout.
Laid(q, u, e, at) ==
  /\ u \in Pictures /\ u.pos = [q.pos EXCEPT ![e] = at]
  /\ u.presented = q.presented /\ q.damage \subseteq u.damage
  /\ \A j \in Keys \ {Geometry(e)} : u.var[j] = q.var[j]
  /\ Listed(u) /\ VarFits(u, e) /\ LastCovers(u)
  /\ LET g == q.var[Geometry(e)]
         h == u.var[Geometry(e)]
     IN  /\ h.on = g.on
         /\ g.on => {h.value, h.begun, h.goal} \subseteq {g.value, g.begun, g.goal, GeometryFor(u, e)}

\* A box that does not run is at its goal.
AtGoal(q, e) ==
  LET g == q.var[Geometry(e)] IN g.on /\ ~g.run => g.value = g.goal

\* Where the child moves, its parent is seen as before.
LEMMA InnerKeepsOuter ==
  ASSUME NEW q \in Pictures, NEW u \in Pictures, LastCovers(q),
         u.pos["outer"] = q.pos["outer"], u.var[Geometry("outer")] = q.var[Geometry("outer")],
         u.last["outer"] = q.last["outer"]
  PROVE  LastCovers(u)
<1>1. Shift(u, "outer") = Shift(q, "outer")
  BY DEF Shift, ParentAt, Geometry
<1>2. Covers(u, "outer") = Covers(q, "outer") /\ ("outer" \in Running(u) <=> "outer" \in Running(q))
  BY <1>1 DEF Covers, PresentationBox, Running
<1> QED BY <1>2 DEF LastCovers

LEMMA SetPositionLays ==
  ASSUME NEW q \in Pictures, NEW e \in Elements, NEW at \in Int, Listed(q), LastCovers(q), AtGoal(q, e),
         policy \in [Keys -> Policies]
  PROVE  Laid(q, SetPosition(q, e, at), e, at)
<1> DEFINE k == Geometry(e)
           g == q.var[k]
           c == policy[k]
<1>1. PICK r : r = [q EXCEPT !.pos[e] = at]
  OBVIOUS
<1>2. /\ r \in Pictures /\ r.pos = [q.pos EXCEPT ![e] = at] /\ r.var = q.var /\ r.active = q.active
      /\ r.last = q.last /\ r.damage = q.damage /\ r.presented = q.presented
  BY <1>1 DEF Pictures
<1>3. /\ k \in Keys /\ k = Var(e, "geometry") /\ c \in Policies /\ k[2] = "geometry"
      /\ g \in VarRecords /\ g.value \in Int /\ g.begun \in Int /\ g.goal \in Int
      /\ e = "outer" \/ e = "inner"
      /\ e = "inner" => Geometry("outer") \in Keys \ {k} /\ r.pos["outer"] = q.pos["outer"]
      /\ "outer" \in Elements
  BY <1>2, PictureFields DEF Geometry, Var, Keys, Elements, Pictures
<1>4. Listed(r) /\ (g.run => g.on) /\ (g.on /\ ~g.run => g.value = g.goal)
  BY <1>2, <1>3 DEF Listed, Connected, AtGoal
<1>5. PICK goal \in Int : goal = GeometryFor(r, e)
  <2>1. r.pos[e] \in Int /\ ParentAt(r, e) \in Int
    BY <1>2, <1>3, PictureFields DEF ParentAt, Elements
  <2> QED BY <2>1 DEF GeometryFor
<1>6. \A u : u.pos = r.pos => GeometryFor(u, e) = goal
  BY <1>5 DEF GeometryFor, ParentAt
<1>7. PICK u : u = SetPosition(q, e, at)
  OBVIOUS
<1> HIDE DEF k, c, g
<1>8. CASE ~g.on
  <2>1. u = r
    BY <1>1, <1>3, <1>7, <1>8 DEF SetPosition, g
  <2>2. LastCovers(r)
    <3>1. CASE e = "outer"
      BY <1>2, <1>4, <1>8, <3>1 DEF LastCovers, Running, k, g
    <3>2. CASE e = "inner"
      BY <1>2, <1>3, <3>2, InnerKeepsOuter
    <3> QED BY <1>3, <3>1, <3>2
  <2>3. VarFits(r, e)
    BY <1>2, <1>8 DEF VarFits, k, g
  <2>4. Laid(q, r, e, at)
    BY <1>2, <1>3, <1>4, <1>8, <2>2, <2>3 DEF Laid, k, g
  <2> QED BY <1>7, <2>1, <2>4
<1>9. CASE g.on /\ ~q.presented
  <2>1. PICK x : x = SetConfig(r, k, c)
    OBVIOUS
  <2>2. /\ x \in Pictures /\ x.pos = r.pos /\ x.last = r.last /\ x.damage = r.damage
        /\ x.presented = r.presented /\ Listed(x) /\ x.var[k].cfg \in Policies
        /\ \A j \in Keys \ {k} : x.var[j] = r.var[j]
    BY <1>2, <1>3, <1>4, <2>1, ConfigFields DEF VarRecords
  <2>3. PICK v : v = Still(goal, x.var[k].cfg)
    OBVIOUS
  <2>4. v \in VarRecords /\ v.on /\ ~v.run /\ v.value = goal /\ v.begun = goal /\ v.goal = goal
    BY <2>2, <2>3, StillIs
  <2>5. PICK y : y = Warp(x, k, goal)
    OBVIOUS
  <2>6. y = Notify(Replaced(x, k, v, Parted(x, k)), k)
    BY <1>3, <2>2, <2>3, <2>5, WarpIs
  <2>7. /\ y \in Pictures /\ Keeps(x, y) /\ Listed(y)
        /\ y.var[k] = v /\ \A j \in Keys \ {k} : y.var[j] = x.var[j]
        /\ e = "inner" => y.last["outer"] = x.last["outer"]
    BY <1>3, <2>2, <2>4, <2>6, BoxReplaced DEF k
  <2>8. PICK now : now = PresentationSubtreeBox(y, e)
    OBVIOUS
  <2>9. u = [y EXCEPT !.last[e] = now]
    BY <1>1, <1>3, <1>5, <1>7, <1>9, <2>1, <2>5, <2>8 DEF SetPosition, g, c
  <2>10. now \in SUBSET Int
    BY <2>7, <2>8, SubtreeCovers
  <2>11. /\ u \in Pictures /\ u.pos = y.pos /\ u.var = y.var /\ u.active = y.active
         /\ u.damage = y.damage /\ u.presented = y.presented
         /\ e = "inner" => u.last["outer"] = y.last["outer"]
    BY <2>7, <2>9, <2>10 DEF Pictures, Elements
  <2>12. u.pos = r.pos /\ GeometryFor(u, e) = goal /\ u.presented = q.presented
         /\ q.damage \subseteq u.damage
    BY <1>2, <1>6, <2>2, <2>7, <2>11 DEF Keeps
  <2>13. Listed(u)
    BY <2>7, <2>11 DEF Listed, Connected
  <2>14. LastCovers(u)
    <3>1. CASE e = "outer"
      BY <2>4, <2>7, <2>11, <3>1 DEF LastCovers, Running, k
    <3>2. CASE e = "inner"
      <4>1. u.pos["outer"] = q.pos["outer"]
        BY <1>3, <2>12, <3>2
      <4>2. u.var[Geometry("outer")] = q.var[Geometry("outer")]
        BY <1>2, <1>3, <2>2, <2>7, <2>11, <3>2
      <4>3. u.last["outer"] = q.last["outer"]
        BY <1>2, <2>2, <2>7, <2>11, <3>2
      <4> QED BY <2>11, <4>1, <4>2, <4>3, InnerKeepsOuter
    <3> QED BY <1>3, <3>1, <3>2
  <2>15. VarFits(u, e)
    BY <2>4, <2>7, <2>11, <2>12 DEF VarFits, k
  <2>17. /\ \A j \in Keys \ {k} : u.var[j] = q.var[j]
         /\ u.pos = [q.pos EXCEPT ![e] = at]
    BY <1>2, <2>2, <2>7, <2>11, <2>12
  <2>18. /\ u.var[k].on = g.on /\ u.var[k].value = goal /\ u.var[k].begun = goal /\ u.var[k].goal = goal
    BY <1>3, <1>9, <2>4, <2>7, <2>11 DEF VarRecords
  <2>16. Laid(q, u, e, at)
    BY <2>11, <2>12, <2>13, <2>14, <2>15, <2>17, <2>18 DEF Laid, k, g
  <2> QED BY <1>7, <2>16
<1>10. CASE g.on /\ q.presented /\ g.goal = goal
  <2>1. u = r
    BY <1>1, <1>3, <1>5, <1>7, <1>10 DEF SetPosition, g
  <2>2. LastCovers(r)
    <3>1. CASE e = "outer"
      <4>1. Place(r, "outer") = Place(q, "outer")
        BY <1>2, <1>10, <3>1, PlaceIs DEF k, g
      <4>2. Covers(r, "outer") = Covers(q, "outer")
        BY <1>2, <1>3, <4>1, Places DEF Covers
      <4> QED BY <1>2, <4>2 DEF LastCovers, Running
    <3>2. CASE e = "inner"
      BY <1>2, <1>3, <3>2, InnerKeepsOuter
    <3> QED BY <1>3, <3>1, <3>2
  <2>3. VarFits(r, e)
    BY <1>2, <1>4, <1>5, <1>10 DEF VarFits, k, g
  <2>4. Laid(q, r, e, at)
    BY <1>2, <1>3, <1>4, <2>2, <2>3 DEF Laid, k, g
  <2> QED BY <1>7, <2>1, <2>4
<1>11. CASE g.on /\ q.presented /\ g.goal # goal
  <2>1. PICK x : x = Restarted(r, k, c, goal)
    OBVIOUS
  <2>2. /\ x \in Pictures /\ Keeps(r, x) /\ Listed(x) /\ x.var[k].on
        /\ \A j \in Keys \ {k} : x.var[j] = r.var[j]
        /\ e = "inner" => x.last["outer"] = r.last["outer"]
        /\ x.var[k].value = g.value
        /\ x.var[k].goal # goal \/ (~x.var[k].run /\ x.var[k].begun = goal /\ goal = g.value)
    <3>1. CASE x = r
      BY <1>2, <1>4, <1>11, <3>1 DEF Keeps, g
    <3>2. CASE x = Warp(r, k, r.var[k].value)
      <4>1. r.var[k] = g /\ g.cfg \in Policies
        BY <1>2, <1>3 DEF VarRecords, g
      <4>2. PICK v : v = Still(g.value, g.cfg)
        OBVIOUS
      <4>3. v \in VarRecords /\ v.on /\ ~v.run /\ v.value = g.value /\ v.begun = g.value /\ v.goal = g.value
        BY <1>3, <4>1, <4>2, StillIs
      <4>4. x = Notify(Replaced(r, k, v, Parted(r, k)), k)
        BY <1>2, <1>3, <3>2, <4>1, <4>2, WarpIs
      <4>5. Parted(r, k) = IF v.run THEN Joined(r, k) ELSE Parted(r, k)
        BY <4>3
      <4>6. /\ x \in Pictures /\ Keeps(r, x) /\ Listed(x)
            /\ x.var[k] = v /\ \A j \in Keys \ {k} : x.var[j] = r.var[j]
            /\ e = "inner" => x.last["outer"] = r.last["outer"]
        BY <1>2, <1>4, <4>3, <4>4, <4>5, BoxReplaced DEF k
      <4>7. g.value # goal \/ g.value = goal
        OBVIOUS
      <4> QED BY <4>3, <4>6, <4>7
    <3> QED BY <2>1, <3>1, <3>2 DEF Restarted
  <2>3. PICK y : y = SetConfig(x, k, c)
    OBVIOUS
  <2>4. /\ y \in Pictures /\ y.pos = x.pos /\ y.last = x.last /\ y.damage = x.damage
        /\ y.presented = x.presented /\ y.active = x.active
        /\ y.var[k] \in VarRecords /\ (y.var[k].on <=> x.var[k].on) /\ (y.var[k].run <=> x.var[k].run)
        /\ y.var[k].value = x.var[k].value /\ y.var[k].begun = x.var[k].begun
        /\ y.var[k].goal = x.var[k].goal
        /\ \A j \in Keys \ {k} : y.var[j] = x.var[j]
        /\ Listed(y)
    <3>1. x \in Pictures /\ Listed(x) /\ k \in Keys /\ c \in Policies
      BY <1>3, <2>2
    <3>2. y = [x EXCEPT !.var = [x.var EXCEPT ![k] = [x.var[k] EXCEPT !.cfg = c]]]
      BY <2>3 DEF SetConfig
    <3>3. x.var \in [Keys -> VarRecords]
      BY <3>1 DEF Pictures
    <3>4. \A j \in Keys \ {k} : y.var[j] = x.var[j]
      BY <3>1, <3>2, <3>3 DEF Pictures
    <3>5. /\ y \in Pictures /\ y.pos = x.pos /\ y.last = x.last /\ y.damage = x.damage
          /\ y.presented = x.presented /\ y.active = x.active
          /\ y.var[k] \in VarRecords /\ (y.var[k].on <=> x.var[k].on) /\ (y.var[k].run <=> x.var[k].run)
          /\ y.var[k].value = x.var[k].value /\ y.var[k].begun = x.var[k].begun
          /\ y.var[k].goal = x.var[k].goal /\ Listed(y)
      BY <2>3, <3>1, ConfigFields
    <3> QED BY <3>4, <3>5
  <2>5. u = Assign(y, k, goal)
    BY <1>1, <1>3, <1>5, <1>7, <1>11, <2>1, <2>3 DEF SetPosition, g, c
  <2>6. /\ u \in Pictures /\ Keeps(y, u) /\ Listed(u)
        /\ \A j \in Keys \ {k} : u.var[j] = y.var[j]
        /\ e = "inner" => u.last["outer"] = y.last["outer"]
        /\ e = "outer" => LastCovers(u)
        /\ u.var[k].on /\ u.var[k].value = g.value /\ u.var[k].begun = g.value /\ u.var[k].goal = goal
        /\ ~u.var[k].run => u.var[k].value = goal
    <3>1. CASE y.var[k].goal = goal
      <4>1. u = y
        BY <1>2, <1>3, <2>4, <2>5, <3>1, AssignIs
      <4>2. e = "outer" => LastCovers(y)
        BY <2>2, <2>4, <3>1 DEF LastCovers, Running, k
      <4>3. Keeps(y, y)
        BY DEF Keeps
      <4> QED BY <2>2, <2>4, <3>1, <4>1, <4>2, <4>3
    <3>2. CASE y.var[k].goal # goal
      <4>1. PICK v : v = Assigned(y.var[k], goal)
        OBVIOUS
      <4>2. /\ u = Notify(Replaced(y, k, v, Joined(y, k)), k)
            /\ v \in VarRecords /\ v.on = y.var[k].on /\ v.run /\ v.value = y.var[k].value
            /\ v.begun = y.var[k].value /\ v.goal = goal
        BY <1>3, <2>4, <2>5, <3>2, <4>1, AssignIs
      <4>3. Joined(y, k) = IF v.run THEN Joined(y, k) ELSE Parted(y, k)
        BY <4>2
      <4>4. y \in Pictures /\ Listed(y) /\ v.on
        BY <2>2, <2>4, <4>2
      <4>5. /\ u \in Pictures /\ Keeps(y, u) /\ Listed(u)
            /\ u.var[k] = v /\ \A j \in Keys \ {k} : u.var[j] = y.var[j]
            /\ e = "inner" => u.last["outer"] = y.last["outer"]
            /\ e = "outer" => LastCovers(u)
        BY <4>2, <4>3, <4>4, BoxReplaced DEF k
      <4> QED BY <2>2, <2>4, <4>2, <4>4, <4>5
    <3> QED BY <3>1, <3>2
  <2>7. u.pos = r.pos /\ GeometryFor(u, e) = goal /\ u.presented = q.presented
        /\ q.damage \subseteq u.damage
    BY <1>2, <1>6, <2>2, <2>4, <2>6 DEF Keeps
  <2>8. LastCovers(u)
    <3>1. CASE e = "inner"
      <4>1. u.pos["outer"] = q.pos["outer"]
        BY <1>3, <2>7, <3>1
      <4>2. u.var[Geometry("outer")] = q.var[Geometry("outer")]
        BY <1>2, <1>3, <2>2, <2>4, <2>6, <3>1
      <4>3. u.last["outer"] = q.last["outer"]
        BY <1>2, <2>2, <2>4, <2>6, <3>1
      <4> QED BY <2>6, <4>1, <4>2, <4>3, InnerKeepsOuter
    <3> QED BY <1>3, <2>6, <3>1
  <2>9. VarFits(u, e)
    BY <2>6, <2>7 DEF VarFits, k
  <2>10. Laid(q, u, e, at)
    BY <1>2, <1>3, <1>11, <2>2, <2>4, <2>6, <2>7, <2>8, <2>9 DEF Laid, k, g
  <2> QED BY <1>7, <2>10
<1> QED BY <1>8, <1>9, <1>10, <1>11

LEMMA DamagedFits ==
  ASSUME NEW q \in Pictures, NEW cells
  PROVE  LET r == DamageCells(q, cells)
         IN  /\ r \in Pictures /\ Keeps(q, r) /\ r.var = q.var /\ r.damage = q.damage \cup (cells \cap Window)
             /\ Listed(q) => Listed(r)
             /\ LastCovers(q) => LastCovers(r)
             /\ \A e \in Elements : VarFits(q, e) => VarFits(r, e)
             /\ ChildFits(q) => ChildFits(r)
             /\ \A e \in Elements : Layout(r, e) = Layout(q, e) /\ GeometryFor(r, e) = GeometryFor(q, e)
             /\ \A e \in Elements : Covers(r, e) = Covers(q, e)
<1>1. PICK r : r = DamageCells(q, cells)
  OBVIOUS
<1>2. /\ r \in Pictures /\ r.pos = q.pos /\ r.var = q.var /\ r.active = q.active
      /\ r.presented = q.presented /\ r.last = q.last
      /\ r.damage = q.damage \cup (cells \cap Window)
  BY <1>1, DamageCellsFields
<1>3. /\ Running(r) = Running(q) /\ (ChildFits(r) <=> ChildFits(q))
      /\ \A e \in Elements : /\ Covers(r, e) = Covers(q, e) /\ Layout(r, e) = Layout(q, e)
                             /\ GeometryFor(r, e) = GeometryFor(q, e)
  BY <1>2, SameLook DEF SameVars
<1>4. Listed(q) => Listed(r)
  BY <1>2 DEF Listed, Connected
<1>5. LastCovers(q) => LastCovers(r)
  BY <1>2, <1>3 DEF LastCovers, Elements
<1>6. \A e \in Elements : VarFits(q, e) => VarFits(r, e)
  BY <1>2, <1>3 DEF VarFits
<1> QED BY <1>1, <1>2, <1>3, <1>4, <1>5, <1>6 DEF Keeps

LEMMA PositionOneLays ==
  ASSUME NEW q \in Pictures, NEW e \in Elements, NEW at \in Int, Listed(q), LastCovers(q), AtGoal(q, e),
         policy \in [Keys -> Policies]
  PROVE  Laid(q, PositionOne(q, e, at), e, at) /\ Layout(q, e) \cap Window \subseteq PositionOne(q, e, at).damage
<1>1. PICK old : old = DamageEntire(q, e)
  OBVIOUS
<1>2. /\ old \in Pictures /\ Keeps(q, old) /\ old.var = q.var /\ Listed(old) /\ LastCovers(old)
      /\ old.damage = q.damage \cup (Layout(q, e) \cap Window)
  BY <1>1, DamagedFits DEF DamageEntire, Layout
<1>3. PICK set : set = SetPosition(old, e, at)
  OBVIOUS
<1>4. Laid(old, set, e, at)
  <2>1. AtGoal(old, e)
    BY <1>2 DEF AtGoal
  <2> QED BY <1>2, <1>3, <2>1, SetPositionLays
<1>5. /\ set \in Pictures /\ set.pos = [old.pos EXCEPT ![e] = at]
      /\ set.presented = old.presented /\ old.damage \subseteq set.damage
      /\ \A j \in Keys \ {Geometry(e)} : set.var[j] = old.var[j]
      /\ Listed(set) /\ VarFits(set, e) /\ LastCovers(set)
      /\ set.var[Geometry(e)].on = old.var[Geometry(e)].on
  BY <1>4 DEF Laid
<1>6. PICK u : u = DamageEntire(set, e)
  OBVIOUS
<1>7. /\ u \in Pictures /\ Keeps(set, u) /\ u.var = set.var /\ Listed(u) /\ LastCovers(u)
      /\ VarFits(u, e) /\ GeometryFor(u, e) = GeometryFor(set, e)
  BY <1>5, <1>6, DamagedFits DEF DamageEntire
<1>8. u = PositionOne(q, e, at)
  BY <1>1, <1>3, <1>6 DEF PositionOne
<1>9. u.pos = [q.pos EXCEPT ![e] = at] /\ u.presented = q.presented /\ q.damage \subseteq u.damage
  BY <1>2, <1>5, <1>7 DEF Keeps
<1>10. LET g == q.var[Geometry(e)]
           h == u.var[Geometry(e)]
       IN  /\ h.on = g.on
           /\ g.on => {h.value, h.begun, h.goal} \subseteq {g.value, g.begun, g.goal, GeometryFor(u, e)}
  BY <1>2, <1>4, <1>7 DEF Laid
<1>11. \A j \in Keys \ {Geometry(e)} : u.var[j] = q.var[j]
  BY <1>2, <1>5, <1>7
<1>12. Laid(q, u, e, at)
  BY <1>7, <1>9, <1>10, <1>11 DEF Laid
<1>13. Layout(q, e) \cap Window \subseteq u.damage
  BY <1>2, <1>5, <1>7 DEF Keeps
<1> QED BY <1>8, <1>12, <1>13

\* The element that is where it belongs stays as it is.
LEMMA PositionOneStays ==
  ASSUME NEW q \in Pictures, NEW e \in Elements, q.presented, VarFits(q, e)
  PROVE  PositionOne(q, e, q.pos[e]).var = q.var
<1>1. PICK old : old = DamageEntire(q, e)
  OBVIOUS
<1>2. /\ old \in Pictures /\ Keeps(q, old) /\ old.var = q.var /\ VarFits(old, e)
  BY <1>1, DamagedFits DEF DamageEntire
<1>3. [old EXCEPT !.pos[e] = q.pos[e]] = old
  BY <1>2 DEF Pictures, Keeps
<1>4. old.presented /\ old.pos[e] = q.pos[e]
  BY <1>2 DEF Keeps
<1>5. SetPosition(old, e, q.pos[e]) = old
  BY <1>2, <1>3, <1>4 DEF SetPosition, VarFits, Geometry
<1>6. DamageEntire(old, e).var = old.var
  BY <1>2, DamagedFits DEF DamageEntire
<1> QED BY <1>1, <1>2, <1>5, <1>6 DEF PositionOne

\* A picture in order, up to what the screen shows
Ordered(q) == q \in Pictures /\ Listed(q) /\ VarsFit(q) /\ ChildFits(q) /\ LastCovers(q)

LEMMA PositionTreeLays ==
  ASSUME NEW q, Ordered(q), NEW at \in Int, policy \in [Keys -> Policies], offset["inner"] \in Room
  PROVE  LET u == PositionTree(q, at)
         IN  /\ Ordered(u) /\ u.presented = q.presented /\ q.damage \subseteq u.damage
             /\ Layout(q, "outer") \cap Window \subseteq u.damage
             /\ q.presented /\ at = q.pos["outer"] =>
                  Shift(u, "outer") = Shift(q, "outer") /\ u.pos["outer"] = q.pos["outer"]
<1>1. /\ q \in Pictures /\ Listed(q) /\ VarsFit(q) /\ ChildFits(q) /\ LastCovers(q)
      /\ "outer" \in Elements /\ "inner" \in Elements /\ \A e \in Elements : e = "outer" \/ e = "inner"
      /\ \A e \in Elements : AtGoal(q, e) /\ Geometry(e) \in Keys
      /\ Geometry("outer") # Geometry("inner")
  BY DEF Ordered, Elements, VarsFit, VarFits, AtGoal, Geometry, Var, Keys
<1>2. PICK o : o = PositionOne(q, "outer", at)
  OBVIOUS
<1>3. Laid(q, o, "outer", at) /\ Layout(q, "outer") \cap Window \subseteq o.damage
  BY <1>1, <1>2, PositionOneLays
<1>4. /\ o \in Pictures /\ o.pos = [q.pos EXCEPT !["outer"] = at]
      /\ o.presented = q.presented /\ q.damage \subseteq o.damage
      /\ o.var[Geometry("inner")] = q.var[Geometry("inner")]
      /\ Listed(o) /\ VarFits(o, "outer") /\ LastCovers(o)
  BY <1>1, <1>3 DEF Laid
<1>5. PICK x \in Room : x = offset["inner"]
  OBVIOUS
<1>6. x \in Int /\ at + x \in Int /\ (at + x) - at = x
  BY <1>1, Sizes DEF Room
<1>7. PICK u : u = PositionOne(o, "inner", at + x)
  OBVIOUS
<1>8. Laid(o, u, "inner", at + x)
  <2>1. AtGoal(o, "inner")
    BY <1>1, <1>4 DEF AtGoal
  <2> QED BY <1>1, <1>4, <1>6, <1>7, <2>1, PositionOneLays
<1>9. /\ u \in Pictures /\ u.pos = [o.pos EXCEPT !["inner"] = at + x]
      /\ u.presented = o.presented /\ o.damage \subseteq u.damage
      /\ u.var[Geometry("outer")] = o.var[Geometry("outer")]
      /\ Listed(u) /\ VarFits(u, "inner") /\ LastCovers(u)
      /\ LET g == o.var[Geometry("inner")]
             h == u.var[Geometry("inner")]
         IN  /\ h.on = g.on
             /\ g.on => {h.value, h.begun, h.goal} \subseteq {g.value, g.begun, g.goal, GeometryFor(u, "inner")}
  BY <1>1, <1>8 DEF Laid
<1>10. u = PositionTree(q, at)
  BY <1>2, <1>5, <1>7 DEF PositionTree
<1>11. u.pos["outer"] = at /\ o.pos["outer"] = at /\ u.pos["inner"] = at + x
  BY <1>1, <1>4, <1>9 DEF Pictures
<1>12. GeometryFor(u, "inner") = x
  BY <1>6, <1>11 DEF GeometryFor, ParentAt
<1>13. VarsFit(u)
  <2>1. GeometryFor(u, "outer") = GeometryFor(o, "outer")
    BY <1>11 DEF GeometryFor, ParentAt
  <2>2. VarFits(u, "outer")
    BY <1>4, <1>9, <2>1 DEF VarFits
  <2> QED BY <1>1, <1>9, <2>2 DEF VarsFit
<1>14. ChildFits(u)
  <2>1. u.pos["inner"] - u.pos["outer"] \in Room
    BY <1>6, <1>11
  <2>2. LET g == q.var[Geometry("inner")] IN g.on => {g.value, g.begun, g.goal} \subseteq Room
    BY <1>1 DEF ChildFits
  <2> QED BY <1>4, <1>9, <1>12, <2>1, <2>2 DEF ChildFits
<1>15. q.presented /\ at = q.pos["outer"] =>
         Shift(u, "outer") = Shift(q, "outer") /\ u.pos["outer"] = q.pos["outer"]
  <2>1. ASSUME q.presented, at = q.pos["outer"] PROVE Shift(u, "outer") = Shift(q, "outer")
    <3>1. o.var = q.var
      BY <1>1, <1>2, <2>1, PositionOneStays DEF VarsFit
    <3> QED BY <1>9, <1>11, <2>1, <3>1 DEF Shift, ParentAt, Geometry
  <2> QED BY <1>11, <2>1
<1>16. Ordered(u) /\ u.presented = q.presented /\ q.damage \subseteq u.damage
  BY <1>4, <1>9, <1>13, <1>14 DEF Ordered
<1>17. Layout(q, "outer") \cap Window \subseteq u.damage
  BY <1>3, <1>9
<1> QED BY <1>10, <1>15, <1>16, <1>17

\* What the layout moves is damaged: nothing that is not damaged looks different.
LEMMA RepositionPays ==
  ASSUME NEW q, NEW s, NEW unsure \in BOOLEAN, Ordered(q), unsure \/ Accounted(q, s, {}),
         ~q.presented => "outer" \in pending, pending \in SUBSET Elements,
         policy \in [Keys -> Policies], offset \in [Elements -> Nat], offset["inner"] \in Room
  PROVE  LET u == Reposition(q)
         IN  Ordered(u) /\ (unsure \/ \A c \in Window \ u.damage : s[c] = Shown(u)[c])
<1>1. q \in Pictures /\ "outer" \in Elements /\ "inner" \in Elements
      /\ \A e \in Elements : e = "outer" \/ e = "inner"
  BY DEF Ordered, Elements
<1>2. CASE "outer" \in pending
  <2>1. PICK d : d = DamageCells(q, Window)
    OBVIOUS
  <2>2. Ordered(d) /\ d.damage = Window
    <3>1. q.damage \in SUBSET Window
      BY <1>1, PictureFields
    <3>2. Listed(q) /\ VarsFit(q) /\ ChildFits(q) /\ LastCovers(q)
      BY DEF Ordered
    <3>3. /\ d \in Pictures /\ Listed(d) /\ ChildFits(d) /\ LastCovers(d)
          /\ \A e \in Elements : VarFits(q, e) => VarFits(d, e)
          /\ d.damage = q.damage \cup (Window \cap Window)
      BY <1>1, <2>1, <3>2, DamagedFits
    <3> QED BY <3>1, <3>2, <3>3 DEF Ordered, VarsFit
  <2>3. offset["outer"] \in Int
    BY <1>1
  <2>4. PICK u : u = PositionTree(d, offset["outer"])
    OBVIOUS
  <2>5. Ordered(u) /\ d.damage \subseteq u.damage
    BY <2>2, <2>3, <2>4, PositionTreeLays
  <2>6. u = Reposition(q)
    BY <1>2, <2>1, <2>4 DEF Reposition
  <2> QED BY <2>2, <2>5, <2>6
<1>3. CASE pending = {"inner"}
  <2>1. q.presented /\ q.pos["outer"] \in Int
    BY <1>1, <1>3, PictureFields
  <2>2. PICK u : u = PositionTree(q, q.pos["outer"])
    OBVIOUS
  <2>3. /\ Ordered(u) /\ q.damage \subseteq u.damage
        /\ Layout(q, "outer") \cap Window \subseteq u.damage
        /\ Shift(u, "outer") = Shift(q, "outer") /\ u.pos["outer"] = q.pos["outer"]
    BY <2>1, <2>2, PositionTreeLays
  <2>4. u = Reposition(q)
    BY <1>3, <2>2 DEF Reposition
  <2>5. PresentationBox(u, "outer") = PresentationBox(q, "outer")
    BY <2>3 DEF PresentationBox
  <2>6. /\ PresentationBox(q, "inner") \subseteq PresentationBox(q, "outer")
        /\ PresentationBox(u, "inner") \subseteq PresentationBox(q, "outer")
    BY <2>3, <2>5, ChildInside DEF Ordered
  <2>7. ASSUME ~unsure, NEW c \in Window \ u.damage PROVE s[c] = Shown(u)[c]
    <3>1. Covers(q, "outer") \subseteq q.damage \cup Layout(q, "outer")
      BY <1>1, <2>7 DEF Accounted, Promised
    <3>2. c \notin PresentationBox(q, "outer")
      BY <2>3, <2>7, <3>1 DEF Covers
    <3>3. \A e \in Elements : c \notin PresentationBox(q, e) /\ c \notin PresentationBox(u, e)
      BY <1>1, <2>5, <2>6, <3>2
    <3>4. Shown(u)[c] = Shown(q)[c]
      BY <3>3 DEF Shown, Layer
    <3>5. s[c] = Shown(q)[c]
      BY <2>3, <2>7 DEF Accounted, Promised
    <3> QED BY <3>4, <3>5
  <2> QED BY <2>3, <2>4, <2>7
<1>4. CASE pending = {}
  <2>1. Reposition(q) = q
    BY <1>4 DEF Reposition
  <2> QED BY <2>1 DEF Accounted, Promised
<1> QED BY <1>1, <1>2, <1>3, <1>4

\* After a frame nothing is wrong, and what animates is promised.
LEMMA FrameFits ==
  ASSUME NEW q, NEW r \in Pictures, Ordered(q), r.pos = q.pos, r.var = q.var, r.active = q.active, r.last = q.last,
         NEW s, s = Shown(q), NEW unsure \in BOOLEAN, LeavesBehind(q) => unsure
  PROVE  PictureFits(r, s, unsure) /\ Shown(r) = s
<1>1. /\ q \in Pictures /\ Listed(q) /\ VarsFit(q) /\ ChildFits(q) /\ LastCovers(q)
      /\ "outer" \in Elements /\ "inner" \in Elements /\ \A e \in Elements : e = "outer" \/ e = "inner"
  BY DEF Ordered, Elements
<1>2. /\ Shown(r) = Shown(q) /\ Running(r) = Running(q) /\ (ChildFits(r) <=> ChildFits(q))
      /\ \A e \in Elements : /\ Covers(r, e) = Covers(q, e) /\ Layout(r, e) = Layout(q, e)
                             /\ GeometryFor(r, e) = GeometryFor(q, e)
  BY SameLook DEF SameVars
<1>3. Listed(r) /\ VarsFit(r) /\ LastCovers(r) /\ ChildFits(r)
  BY <1>1, <1>2 DEF Listed, Connected, VarsFit, VarFits, LastCovers
<1>4. Promised(r, Running(r)) = Promised(q, Running(q)) /\ Running(q) \in SUBSET Elements
  BY <1>2 DEF Promised, Running
<1>5. ASSUME ~unsure PROVE Accounted(r, s, Running(r))
  <2>1. \A e \in Running(q) : q.last[e] \subseteq Promised(q, Running(q))
    BY DEF Promised
  <2>2. "outer" \in Running(q) => Covers(q, "outer") \subseteq Promised(q, Running(q))
    BY <1>1, <2>1 DEF LastCovers
  <2>3. Covers(q, "inner") \subseteq Covers(q, "outer")
    BY <1>1, ChildInside DEF Covers
  <2>4. "inner" \in Running(q) => Covers(q, "inner") \subseteq Promised(q, Running(q))
    <3>1. ASSUME "inner" \in Running(q), "outer" \notin Running(q)
          PROVE  Covers(q, "inner") \subseteq q.last["inner"]
      <4>1. q.last["inner"] = PresentationSubtreeBox(q, "inner")
        BY <1>1, <1>5, <3>1 DEF LeavesBehind, IsRunning, Running, Geometry
      <4> QED BY <1>1, <4>1, SubtreeCovers
    <3> QED BY <2>1, <2>2, <2>3, <3>1
  <2>5. \A e \in Elements : Covers(q, e) \subseteq Promised(q, Running(q)) \cup Layout(q, e)
    <3>1. CASE "outer" \in Running(q)
      BY <1>1, <2>2, <2>3, <3>1
    <3>2. CASE "outer" \notin Running(q)
      <4>1. Covers(q, "outer") \subseteq Layout(q, "outer")
        BY <1>1, <3>2, RestsAtLayout, Places DEF Covers, Layout
      <4>2. "inner" \notin Running(q) => Covers(q, "inner") \subseteq Layout(q, "inner")
        BY <1>1, <3>2, RestsAtLayout, Places DEF Covers, Layout
      <4> QED BY <1>1, <2>4, <4>1, <4>2
    <3> QED BY <3>1, <3>2
  <2>6. \A e \in Running(q) : Covers(q, e) \subseteq Promised(q, Running(q))
    BY <1>1, <1>4, <2>2, <2>4
  <2> QED BY <1>2, <1>4, <2>5, <2>6 DEF Accounted
<1> QED BY <1>2, <1>3, <1>5 DEF PictureFits

LEMMA FrameKeeps ==
  ASSUME AnimationIInv, NEW steps \in StepChoices, RenderFrame(steps)
  PROVE  AnimationIInv' /\ (carried' \/ screen' = Shown(p'))
<1>1. /\ p \in Pictures /\ carried \in BOOLEAN /\ pending \in SUBSET Elements
      /\ policy \in [Keys -> Policies] /\ offset \in [Elements -> Nat] /\ offset["inner"] \in Room
      /\ PictureFits(p, screen, carried)
      /\ ~p.presented => "outer" \in pending
  BY DEF AnimationIInv, AnimationTypes
<1>2. PICK q : q = [p EXCEPT !.frame = FALSE]
  OBVIOUS
<1>3. PictureFits(q, screen, carried) /\ Keeps(p, q) /\ q.var = p.var /\ q.active = p.active
  BY <1>1, <1>2, FrameFlagFits
<1>4. OnTheWay(q, steps)
  <2>1. Within(q.active) = {p.active[i] : i \in DOMAIN p.active}
    BY <1>3 DEF Within
  <2>2. \A k \in Within(q.active) : steps[k] \in Steps(p.var[k])
    BY <2>1 DEF StepChoices
  <2> QED BY <1>3, <2>2 DEF OnTheWay, Steps
<1>5. PICK ticked : ticked = Tick(q, steps)
  OBVIOUS
<1>6. /\ Ordered(ticked) /\ Keeps(q, ticked) /\ (carried \/ Accounted(ticked, screen, {}))
  BY <1>1, <1>3, <1>4, <1>5, TickPays DEF Ordered
<1>7. ~ticked.presented => "outer" \in pending
  BY <1>1, <1>3, <1>6 DEF Keeps
<1>8. PICK laid : laid = Reposition(ticked)
  OBVIOUS
<1>9. Ordered(laid) /\ (carried \/ \A c \in Window \ laid.damage : screen[c] = Shown(laid)[c])
  BY <1>1, <1>6, <1>7, <1>8, RepositionPays
<1>10. /\ screen' = [c \in Window |-> IF c \in laid.damage THEN Shown(laid)[c] ELSE screen[c]]
       /\ p' = [laid EXCEPT !.damage = {}, !.presented = TRUE, !.frame = @ \/ laid.active # <<>>]
       /\ pending' = {} /\ carried' = (carried \/ LeavesBehind(laid))
       /\ UNCHANGED <<offset, policy, changes>>
  BY <1>2, <1>5, <1>8 DEF RenderFrame
<1>11. PICK r : r = p'
  OBVIOUS
<1>12. /\ r \in Pictures /\ r.pos = laid.pos /\ r.var = laid.var /\ r.active = laid.active
       /\ r.last = laid.last /\ r.presented = TRUE
  <2>1. laid \in Pictures
    BY <1>9 DEF Ordered
  <2>2. PICK b \in BOOLEAN : b = (laid.frame \/ laid.active # <<>>)
    BY <2>1 DEF Pictures
  <2>3. r = [laid EXCEPT !.damage = {}, !.presented = TRUE, !.frame = b]
    BY <1>10, <1>11, <2>2
  <2> QED BY <2>1, <2>3 DEF Pictures
<1>13. PICK s : s = Shown(laid)
  OBVIOUS
<1>14. ~carried => screen' = s
  <2>1. ASSUME ~carried PROVE screen' = [c \in Window |-> Shown(laid)[c]]
    BY <1>9, <1>10, <2>1
  <2>2. Shown(laid) = [c \in Window |-> Shown(laid)[c]]
    BY DEF Shown
  <2> QED BY <1>13, <2>1, <2>2
<1>15. PICK unsure \in BOOLEAN : unsure = carried'
  BY <1>1, <1>10 DEF LeavesBehind, IsRunning
<1>16. carried => unsure
  BY <1>10, <1>15
<1>17. PictureFits(r, s, unsure) /\ Shown(r) = s
  BY <1>9, <1>10, <1>12, <1>13, <1>15, FrameFits
<1>18. PICK s2 : s2 = screen'
  OBVIOUS
<1>19. PictureFits(r, s2, unsure)
  <2>1. unsure \/ s2 = s
    BY <1>14, <1>16, <1>18
  <2> QED BY <1>17, <2>1 DEF PictureFits
<1>20. PictureFits(p, screen, carried)'
  <2>1. r = p' /\ s2 = screen' /\ unsure = carried'
    BY <1>11, <1>15, <1>18
  <2> QED BY <1>19, <2>1 DEF PictureFits
<1>21. AnimationTypes'
  BY <1>1, <1>10, <1>11, <1>12, <1>15 DEF AnimationTypes
<1>22. p'.presented
  BY <1>11, <1>12
<1>23. AnimationIInv'
  BY <1>1, <1>10, <1>20, <1>21, <1>22 DEF AnimationIInv, Room
<1>24. carried' \/ screen' = Shown(p')
  BY <1>11, <1>14, <1>15, <1>16, <1>17
<1> QED BY <1>23, <1>24

\* The least spot
LEMMA FirstExists ==
  ASSUME NEW n \in Nat, NEW set \in SUBSET (0 .. n), set # {}
  PROVE  \E x \in set : \A y \in set : x <= y
<1> DEFINE mirrored == {n - x : x \in set}
<1>1. mirrored \in SUBSET (0 .. n) /\ mirrored # {} /\ 0 \in Int /\ n \in Int
  <2>1. \A x \in set : x \in 0 .. n /\ n - x \in 0 .. n
    OBVIOUS
  <2>2. mirrored \in SUBSET (0 .. n)
    BY <2>1
  <2>3. mirrored # {}
    OBVIOUS
  <2> QED BY <2>2, <2>3
<1>2. PICK z \in mirrored : \A y \in mirrored : y <= z
  <2> HIDE DEF mirrored
  <2> QED BY <1>1, LastExists
<1>3. PICK x \in set : z = n - x
  BY <1>2
<1>4. \A y \in set : n - y <= n - x
  BY <1>2, <1>3
<1>5. \A y \in set : x \in Int /\ y \in Int /\ x <= y
  BY <1>4
<1> QED BY <1>5

LEMMA OffsetsAreSpots ==
  ASSUME PresentationInit
  PROVE  /\ offset \in [Elements -> Nat] /\ offset["inner"] \in Room
         /\ offset["outer"] \in Nat
<1>1. "outer" \in Elements /\ "inner" \in Elements /\ \A e \in Elements : e = "outer" \/ e = "inner"
  BY DEF Elements
<1>2. ASSUME NEW e \in Elements PROVE offset[e] \in Spots[e]
  <2>1. Spots[e] # {} /\ \E n \in Nat : Spots[e] \in SUBSET (0 .. n)
    <3>1. /\ Spots["outer"] \in SUBSET (0 .. Width)
          /\ Spots["inner"] \in SUBSET (0 .. Length["outer"])
      BY <1>1, PresentationAssumption
    <3> QED BY <1>1, <3>1, PresentationAssumption
  <2>2. \E x \in Spots[e] : \A y \in Spots[e] : x <= y
    BY <2>1, FirstExists
  <2>3. offset[e] = CHOOSE x \in Spots[e] : \A y \in Spots[e] : x <= y
    BY DEF PresentationInit
  <2> QED BY <2>2, <2>3
<1>3. offset = [e \in Elements |-> offset[e]]
  BY DEF PresentationInit
<1>4. \A e \in Elements : offset[e] \in Nat
  BY <1>2, PresentationAssumption
<1>5. offset["inner"] \in Room
  BY <1>1, <1>2, PresentationAssumption DEF Room
<1> QED BY <1>1, <1>3, <1>4, <1>5

LEMMA AnimationInitHolds ==
  ASSUME PresentationInit PROVE AnimationIInv
<1>1. offset \in [Elements -> Nat] /\ offset["inner"] \in Room /\ offset["outer"] \in Nat
  BY OffsetsAreSpots
<1>2. "outer" \in Elements /\ "inner" \in Elements /\ \A e \in Elements : e = "outer" \/ e = "inner"
  BY DEF Elements
<1>3. PICK built \in [Elements -> Policies] :
        policy = [k \in Keys |-> CASE k[2] = "geometry" -> built[k[1]]
                                   [] k[2] = "opacity" -> "none"
                                   [] k[2] = "color" -> "bezier"]
  BY DEF PresentationInit
<1>4. policy \in [Keys -> Policies] /\ DOMAIN policy = Keys
  <2>1. \A k \in Keys : k[1] \in Elements /\ k[2] \in {"geometry", "opacity", "color"}
    BY DEF Keys
  <2>2. ASSUME NEW k \in Keys PROVE policy[k] \in Policies
    BY <1>3, <2>1 DEF Policies
  <2> QED BY <1>3, <2>2
<1>5. p.var = [k \in Keys |->
                 CASE k[2] = "geometry" ->
                        IF policy[k] = "none" THEN Off ELSE Still(offset[k[1]], policy[k])
                   [] k[2] = "opacity" -> [Off EXCEPT !.value = 2, !.goal = 2]
                   [] k[2] = "color" -> Still(0, policy[k])]
  BY <1>4 DEF PresentationInit
<1>6. /\ p.pos = [e \in Elements |-> offset["outer"] + (IF e = "inner" THEN offset["inner"] ELSE 0)]
      /\ p.active = <<>> /\ p.last = [e \in Elements |-> {}]
      /\ p.damage = Window /\ p.frame = TRUE /\ p.presented = FALSE
      /\ p = [pos |-> p.pos, var |-> p.var, active |-> p.active, last |-> p.last,
              damage |-> p.damage, frame |-> p.frame, presented |-> p.presented]
      /\ pending = {"outer"} /\ carried = FALSE
  BY DEF PresentationInit
<1>7. ASSUME NEW k \in Keys
      PROVE  /\ p.var[k] \in VarRecords /\ ~p.var[k].run
             /\ k[2] = "geometry" /\ p.var[k].on =>
                  /\ p.var[k].value = offset[k[1]] /\ p.var[k].begun = offset[k[1]]
                  /\ p.var[k].goal = offset[k[1]]
  <2>1. k[1] \in Elements /\ k[2] \in {"geometry", "opacity", "color"} /\ policy[k] \in Policies
    BY <1>4 DEF Keys
  <2>2. CASE k[2] = "geometry"
    <3>1. p.var[k] = IF policy[k] = "none" THEN Off ELSE Still(offset[k[1]], policy[k])
      BY <1>5, <2>2
    <3>2. offset[k[1]] \in Int
      BY <1>1, <2>1
    <3> QED BY <2>1, <3>1, <3>2, OffIs, StillIs
  <2>3. CASE k[2] = "opacity"
    <3>1. p.var[k] = [Off EXCEPT !.value = 2, !.goal = 2]
      BY <1>5, <2>3
    <3>2. 2 \in Int
      OBVIOUS
    <3> QED BY <2>3, <3>1, <3>2, PlainOffIs
  <2>4. CASE k[2] = "color"
    <3>1. p.var[k] = Still(0, policy[k])
      BY <1>5, <2>4
    <3> QED BY <2>1, <2>4, <3>1, StillIs
  <2> QED BY <2>1, <2>2, <2>3, <2>4
<1>8. /\ p.pos["outer"] = offset["outer"] /\ p.pos["inner"] = offset["outer"] + offset["inner"]
      /\ \A e \in Elements : p.pos[e] \in Int
  BY <1>1, <1>2, <1>6
<1>9. p \in Pictures
  <2>1. p.pos \in [Elements -> Int]
    BY <1>6, <1>8
  <2>2. p.var \in [Keys -> VarRecords]
    <3>1. DOMAIN p.var = Keys /\ p.var = [k \in Keys |-> p.var[k]]
      BY <1>5
    <3> QED BY <1>7, <3>1
  <2>3. p.last \in [Elements -> SUBSET Int] /\ p.active \in Seq(Keys)
    BY <1>6
  <2> QED BY <1>6, <2>1, <2>2, <2>3 DEF Pictures
<1>10. Listed(p)
  <2>1. \A k : ~Connected(p, k)
    BY <1>6 DEF Connected
  <2> QED BY <1>7, <2>1 DEF Listed
<1>11. \A e \in Elements : Geometry(e) \in Keys /\ Geometry(e)[1] = e /\ Geometry(e)[2] = "geometry"
  BY DEF Geometry, Var, Keys
<1>12. /\ GeometryFor(p, "outer") = offset["outer"] /\ GeometryFor(p, "inner") = offset["inner"]
  BY <1>1, <1>2, <1>8 DEF GeometryFor, ParentAt
<1>13. VarsFit(p)
  BY <1>2, <1>7, <1>11, <1>12 DEF VarsFit, VarFits
<1>14. ChildFits(p)
  <2>1. p.pos["inner"] - p.pos["outer"] = offset["inner"]
    BY <1>1, <1>2, <1>8
  <2> QED BY <1>1, <1>2, <1>7, <1>11, <2>1 DEF ChildFits
<1>15. LastCovers(p) /\ Running(p) = {}
  BY <1>7, <1>11, <1>2 DEF LastCovers, Running
<1>16. Accounted(p, screen, Running(p))
  BY <1>6, <1>15 DEF Accounted, Promised, Covers
<1>17. PictureFits(p, screen, carried)
  BY <1>9, <1>10, <1>13, <1>14, <1>15, <1>16 DEF PictureFits
<1> QED BY <1>1, <1>2, <1>4, <1>6, <1>9, <1>17 DEF AnimationIInv, AnimationTypes

LEMMA AnimationNextKeeps ==
  ASSUME AnimationIInv, [PresentationNext]_presentationVars
  PROVE  AnimationIInv' /\ (parity' = parity \/ carried' \/ screen' = Shown(p'))
<1>1. CASE \E e \in Elements : \E x \in Spots[e] : Move(e, x)
  BY <1>1, MoveKeeps DEF Move
<1>2. CASE \E e \in Elements, c \in Policies : AnimateGeometry(e, c)
  BY <1>2, AnimateGeometryKeeps DEF AnimateGeometry
<1>3. CASE \E e \in Elements, c \in Policies : AnimateOpacity(e, c)
  BY <1>3, AnimateOpacityKeeps DEF AnimateOpacity
<1>4. CASE \E e \in Elements, c \in Policies : AnimateColor(e, c)
  BY <1>4, ColorCallsKeep DEF AnimateColor
<1>5. CASE \E e \in Elements, l \in Levels : SetOpacity(e, l)
  BY <1>5, SetOpacityKeeps DEF SetOpacity
<1>6. CASE \E e \in Elements, l \in Levels : ReplaceData(e, l) \/ RecheckColor(e, l)
  BY <1>6, ColorCallsKeep DEF ReplaceData, RecheckColor
<1>7. CASE FrameStep
  BY <1>7, FrameKeeps DEF FrameStep
<1>8. CASE UNCHANGED presentationVars
  <2>1. /\ p' = p /\ offset' = offset /\ pending' = pending /\ policy' = policy
        /\ screen' = screen /\ carried' = carried /\ parity' = parity
    BY <1>8 DEF presentationVars
  <2>2. PictureFits(p', screen, carried) /\ Keeps(p, p')
    BY <2>1 DEF AnimationIInv, Keeps
  <2> QED BY <2>1, <2>2, CallKeeps DEF AnimationIInv, AnimationTypes
<1> QED BY <1>1, <1>2, <1>3, <1>4, <1>5, <1>6, <1>7, <1>8 DEF PresentationNext

LEMMA AnimationHolds == PresentationSpec => []AnimationIInv
<1>1. PresentationInit => AnimationIInv
  BY AnimationInitHolds
<1>2. AnimationIInv /\ [PresentationNext]_presentationVars => AnimationIInv'
  BY AnimationNextKeeps
<1> QED BY <1>1, <1>2, PTL DEF PresentationSpec

\* A cell that the screen shows wrongly is damaged, or the next tick of an animation that
\* runs damages it: unless a layout has moved an element whose child was animating.
WrongCellsAreDue ==
  carried \/ \A c \in Window : screen[c] # Shown(p)[c] => c \in p.damage \cup Promised(p, Running(p))

\* At every moment, between frames too, no cell that the screen shows wrongly is forgotten:
\* it is damaged, or a running animation damages where its element was last seen at its next
\* tick (Element.cpp, damagePresentation and the callbacks of the variables).  The exception
\* is that of carried: Element.cpp:385 moves a parent without the animation of its child, and
\* then leaves cells that are wrong, undamaged and not promised.  From such a move on, for the
\* rest of the behaviour, the theorem claims nothing.
THEOREM WrongCellsArePaintedNext == PresentationSpec => []WrongCellsAreDue
<1>1. AnimationIInv => WrongCellsAreDue
  <2> SUFFICES ASSUME AnimationIInv, ~carried, NEW c \in Window, screen[c] # Shown(p)[c]
               PROVE  c \in p.damage \cup Promised(p, Running(p))
    BY DEF WrongCellsAreDue
  <2>1. Accounted(p, screen, Running(p))
    BY DEF AnimationIInv, PictureFits
  <2> QED BY <2>1 DEF Accounted
<1> QED BY <1>1, AnimationHolds, PTL

\* After each frame the screen shows every element where it is seen and nowhere it was seen before
\* (damagePresentation, the ticks, the layout).  The exception is again that of carried, for the
\* rest of a behaviour in which a parent has moved without the running animation of its child.
THEOREM NothingIsLeftBehind == PresentationSpec => NoGhosts
<1>1. AnimationIInv /\ [PresentationNext]_presentationVars => [carried' \/ screen' = Shown(p')]_parity
  BY AnimationNextKeeps
<1> QED BY <1>1, AnimationHolds, PTL DEF PresentationSpec, NoGhosts
===============================================================================
