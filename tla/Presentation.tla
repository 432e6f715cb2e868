----------------------------- MODULE Presentation -----------------------------
(***************************************************************************)
(* Animated elements (Element.cpp, Rectangle.cpp, AnimationManager.cpp):   *)
(* the layout puts an element where it belongs at once, an animation shows *)
(* it somewhere else on the way there, and each step damages what it was   *)
(* seen to cover before and what it covers now.  Boxes are intervals of a  *)
(* row of cells and keep their size: "inner" is a child of "outer", which  *)
(* is a child of the root element that fills the window.  The animated     *)
(* variables (Assign, Warp) are those of hyprutils.                        *)
(***************************************************************************)
EXTENDS Integers, Sequences

CONSTANTS
  Width,      \* bound: the cells of the window
  Length,     \* bound: the cells each element covers
  Spots,      \* bound: the offsets in its parent the application moves each element to
  Animated,   \* bound: which <<element, property>> the application animates and sets
  Duration,   \* bound: the most ticks an animation takes
  MaxChanges  \* bound: calls of the application

Elements == {"outer", "inner"}
Window == 0..(Width - 1)
Levels == {0, 2}        \* bound: the opacities and colours set; an animation passes through 1
Policies == {"none", "bezier", "spring"}    \* SNoAnimation, SBezierAnimation, SSpringAnimation
Done == -1              \* CurveStep.finished

ASSUME PresentationAssumption ==
  /\ Width \in Nat \ {0} /\ Duration \in Nat \ {0} /\ MaxChanges \in Nat
  /\ Animated \subseteq Elements \X {"geometry", "opacity", "color"}
  /\ \A e \in Elements : Length[e] \in Nat /\ Spots[e] \subseteq Nat /\ Spots[e] # {}
  /\ \A x \in Spots["outer"] : x + Length["outer"] <= Width
  /\ \A x \in Spots["inner"] : x + Length["inner"] <= Length["outer"]

VARIABLES
  p,        \* the elements: layout, animated variables, damage
  offset,   \* absoluteOffset: where the application wants each element in its parent
  pending,  \* m_needsReposition
  policy,   \* opacityAnimationConfig, geometryAnimationConfig, colorAnimationConfig
  screen,   \* what each cell of the window shows
  changes,
  carried,  \* history: the parent of a running animation moved and left it behind
  parity    \* history: flips at every frame, for the fairness of frames
presentationVars == <<p, offset, pending, policy, screen, changes, carried, parity>>

Var(e, kind) == <<e, kind>>
Keys == Elements \X {"geometry", "opacity", "color"}

Off == [on |-> FALSE, value |-> 0, begun |-> 0, goal |-> 0, run |-> FALSE, cfg |-> "none", left |-> 0]

Still(value, cfg) ==
  [on |-> TRUE, value |-> value, begun |-> value, goal |-> value, run |-> FALSE, cfg |-> cfg,
   left |-> 0]

----------------------------------------------------------------------------
\* Where elements are seen

ParentAt(q, e) == IF e = "inner" THEN q.pos["outer"] ELSE 0

\* geometryBoxFor: relative to the parent
GeometryFor(q, e) == q.pos[e] - ParentAt(q, e)

Shift(q, e) ==
  LET g == q.var[Var(e, "geometry")]
  IN  IF g.on THEN ParentAt(q, e) + g.value - q.pos[e] ELSE 0

\* presentationBox: every animated ancestor carries the element along
PresentationBox(q, e) ==
  LET from == q.pos[e] + Shift(q, e) + (IF e = "inner" THEN Shift(q, "outer") ELSE 0)
  IN  from..(from + Length[e] - 1)

\* presentationSubtreeBox: the least interval around the element and its children
PresentationSubtreeBox(q, e) ==
  LET all == PresentationBox(q, e) \cup (IF e = "outer" THEN PresentationBox(q, "inner") ELSE {})
  IN  {c \in -Width..2 * Width : (\E a \in all : a <= c) /\ (\E b \in all : c <= b)}

OpacityOf(q, e) == q.var[Var(e, "opacity")].value

EffectiveOpacity(q, e) ==
  <<OpacityOf(q, e), IF e = "inner" THEN OpacityOf(q, "outer") ELSE 2>>

\* paint: what an element adds to a cell
Layer(q, e, c) ==
  IF c \in PresentationBox(q, e) THEN <<q.var[Var(e, "color")].value, EffectiveOpacity(q, e)>> ELSE <<>>

Shown(q) == [c \in Window |-> [e \in Elements |-> Layer(q, e, c)]]

----------------------------------------------------------------------------
\* Damage

\* Seeded fault: the damage does not ask for a frame.
DamageUnscheduled(q, cells) == [q EXCEPT !.damage = @ \cup (cells \cap Window)]

\* IToolkitWindow::damage: what lies in the window is damaged and a frame is scheduled
DamageCells(q, cells) ==
  [q EXCEPT !.damage = @ \cup (cells \cap Window), !.frame = @ \/ cells \cap Window # {}]

\* Seeded fault: only where the element is now.
DamagePresentationNow(q, e) == DamageCells(q, PresentationSubtreeBox(q, e))

DamagePresentation(q, e) ==
  LET now == PresentationSubtreeBox(q, e)
  IN  [DamageCells(q, q.last[e] \cup now) EXCEPT !.last[e] = now]

\* damageEntire: the box of the layout
DamageEntire(q, e) == DamageCells(q, q.pos[e]..(q.pos[e] + Length[e] - 1))

\* the begin and update callbacks of the variables
Notify(q, k) ==
  IF k[2] = "color" THEN DamageEntire(q, k[1]) ELSE DamagePresentation(q, k[1])

----------------------------------------------------------------------------
\* Animated variables

IsRunning(q, k) == q.var[k].run

Enabled(q, k) == q.var[k].cfg # "none"

Connected(q, k) == k \in {q.active[i] : i \in DOMAIN q.active}

\* The variables of the list that are in keep, in their order
Kept(list, keep) ==
  LET kept[i \in 0 .. Len(list)] ==
        IF i = 0 THEN <<>>
        ELSE IF list[i] \in keep THEN Append(kept[i - 1], list[i]) ELSE kept[i - 1]
  IN  kept[Len(list)]

\* disconnectFromActive
Disconnected(q, k) == [q EXCEPT !.active = Kept(@, Keys \ {k})]

\* a new goal starts the animation from the value of now
Assign(q, k, goal) ==
  IF goal = q.var[k].goal THEN q
  ELSE Notify([q EXCEPT !.var[k] = [@ EXCEPT !.goal = goal, !.begun = q.var[k].value,
                                             !.run = TRUE, !.left = Duration],
                        !.active = IF Connected(q, k) THEN @ ELSE Append(@, k)], k)

Warp(q, k, value) ==
  Notify([Disconnected(q, k) EXCEPT !.var[k] = Still(value, @.cfg)], k)

SetConfig(q, k, c) == [q EXCEPT !.var[k].cfg = c]

\* a running animation whose curve changes, or a spring that gets another goal, starts over
Restarted(q, k, c, goal) ==
  IF IsRunning(q, k) /\ (q.var[k].cfg # c \/ (q.var[k].cfg = "spring" /\ q.var[k].goal # goal))
  THEN Warp(q, k, q.var[k].value) ELSE q

Between(a, b) == (a..b) \cup (b..a)

\* the values a step of the curve may give; without an overshoot
Steps(v) == {Done} \cup (IF v.left > 1 THEN Between(v.begun, v.goal) \ {v.goal} ELSE {})

\* updateVariable, updateColorVariable, updateBoxVariable, and the onUpdate after it
TickOne(q, k, step) ==
  LET v == q.var[k]
      moved == IF step = Done \/ ~Enabled(q, k) \/ v.value = v.goal
               THEN [v EXCEPT !.value = v.goal, !.run = FALSE]
               ELSE [v EXCEPT !.value = step, !.left = @ - 1]
  IN  Notify([q EXCEPT !.var[k] = moved], k)

\* CHTAnimationManager::tick, with tickDone
Tick(q, steps) ==
  LET ticked[i \in 0 .. Len(q.active)] ==
        IF i = 0 THEN q ELSE TickOne(ticked[i - 1], q.active[i], steps[q.active[i]])
      r == ticked[Len(q.active)]
  IN  [r EXCEPT !.active = Kept(@, {k \in Keys : IsRunning(r, k)})]

----------------------------------------------------------------------------
\* Layout

\* setPosition
SetPosition(q, e, at) ==
  LET k == Var(e, "geometry")
      r == [q EXCEPT !.pos[e] = at]
      goal == GeometryFor(r, e)
      warped == Warp(SetConfig(r, k, policy[k]), k, goal)
  IN  IF ~q.var[k].on THEN r
      ELSE IF ~q.presented THEN [warped EXCEPT !.last[e] = PresentationSubtreeBox(warped, e)]
      ELSE IF q.var[k].goal = goal THEN r
      ELSE Assign(SetConfig(Restarted(r, k, policy[k], goal), k, policy[k]), k, goal)

\* CPositioner::position of one element, the box it had and the box it gets
PositionOne(q, e, at) ==
  LET old == DamageEntire(q, e)
      set == SetPosition(old, e, at)
  IN  DamageEntire(set, e)

\* position of "outer" and positionChildren of it
PositionTree(q, at) ==
  LET outer == PositionOne(q, "outer", at)
  IN  PositionOne(outer, "inner", at + offset["inner"])

\* repositionNeeded: the parent of what asked is laid out again, the root fills the window
Reposition(q) ==
  CASE "outer" \in pending -> PositionTree(DamageCells(q, Window), offset["outer"])
    [] pending = {"inner"} -> PositionTree(q, q.pos["outer"])
    [] OTHER -> q

----------------------------------------------------------------------------
\* a window opens on elements that were given their policies when they were built
PresentationInit ==
  /\ offset = [e \in Elements |-> CHOOSE x \in Spots[e] : \A y \in Spots[e] : x <= y]
  /\ \E built \in [Elements -> Policies] :
       /\ \A e \in Elements : built[e] # "none" => Var(e, "geometry") \in Animated
       /\ policy = [k \in Keys |->
                      CASE k[2] = "geometry" -> built[k[1]]
                        [] k[2] = "opacity" -> "none"
                        [] k[2] = "color" -> "bezier"]
  /\ p = [pos |-> [e \in Elements |-> offset["outer"] + (IF e = "inner" THEN offset["inner"] ELSE 0)],
          var |-> [k \in DOMAIN policy |->
                     CASE k[2] = "geometry" ->
                            IF policy[k] = "none" THEN Off ELSE Still(offset[k[1]], policy[k])
                       [] k[2] = "opacity" -> [Off EXCEPT !.value = 2, !.goal = 2]
                       [] k[2] = "color" -> Still(0, policy[k])],
          active |-> <<>>, last |-> [e \in Elements |-> {}],
          damage |-> Window, frame |-> TRUE, presented |-> FALSE]
  /\ pending = {"outer"}
  /\ screen = [c \in Window |-> [e \in Elements |-> <<>>]]
  /\ changes = 0
  /\ carried = FALSE
  /\ parity = FALSE

\* one call of the application
Change == changes < MaxChanges /\ changes' = changes + 1

\* setAbsolutePosition
Move(e, x) ==
  /\ Change
  /\ offset' = [offset EXCEPT ![e] = x]
  /\ pending' = pending \cup {e}
  /\ p' = [p EXCEPT !.frame = TRUE]
  /\ UNCHANGED <<policy, screen, carried, parity>>

\* animateGeometry
AnimateGeometry(e, c) ==
  LET k == Var(e, "geometry")
      on == [p EXCEPT !.var[k] = Still(GeometryFor(p, e), c)]
  IN
  /\ k \in Animated /\ Change
  /\ policy' = [policy EXCEPT ![k] = c]
  /\ p' = CASE c = "none" -> DamagePresentation([Disconnected(p, k) EXCEPT !.var[k] = Off], e)
            [] c # "none" /\ p.var[k].on -> p
            [] OTHER -> [on EXCEPT !.last[e] = PresentationSubtreeBox(on, e)]
  /\ UNCHANGED <<offset, pending, screen, carried, parity>>

\* animateOpacity; without a variable the opacity is the value itself
AnimateOpacity(e, c) ==
  LET k == Var(e, "opacity")
      off == [Off EXCEPT !.value = p.var[k].goal, !.goal = p.var[k].goal]
  IN
  /\ k \in Animated /\ Change
  /\ policy' = [policy EXCEPT ![k] = c]
  /\ p' = CASE c = "none" -> DamagePresentation([Disconnected(p, k) EXCEPT !.var[k] = off], e)
            [] c # "none" /\ p.var[k].on -> p
            [] OTHER -> [p EXCEPT !.var[k] = Still(p.var[k].value, c)]
  /\ UNCHANGED <<offset, pending, screen, carried, parity>>

SetOpacity(e, o) ==
  LET k == Var(e, "opacity")
      v == p.var[k]
      sure == IF v.run /\ v.cfg # policy[k] THEN Warp(p, k, v.value) ELSE p
  IN
  /\ k \in Animated /\ Change
  /\ p' = IF v.on THEN Assign(SetConfig(sure, k, policy[k]), k, o)
          ELSE IF v.value = o THEN p
          ELSE DamagePresentation([p EXCEPT !.var[k] = [Off EXCEPT !.value = o, !.goal = o]], e)
  /\ UNCHANGED <<offset, pending, policy, screen, carried, parity>>

\* CRectangleElement::animateColor
AnimateColor(e, c) ==
  LET k == Var(e, "color") IN
  /\ k \in Animated /\ Change
  /\ policy' = [policy EXCEPT ![k] = c]
  /\ p' = IF c = "none" THEN Warp(p, k, p.var[k].goal) ELSE p
  /\ UNCHANGED <<offset, pending, screen, carried, parity>>

\* the new colour under the policy of now
Recolored(e, color) ==
  LET k == Var(e, "color")
      q == SetConfig(Restarted(p, k, policy[k], color), k, policy[k])
  IN  IF Enabled(q, k) THEN Assign(q, k, color) ELSE Warp(q, k, color)

\* replaceData lays the element out again
ReplaceData(e, color) ==
  /\ Var(e, "color") \in Animated /\ Change
  /\ p' = [Recolored(e, color) EXCEPT !.frame = TRUE]
  /\ pending' = pending \cup {e}
  /\ UNCHANGED <<offset, policy, screen, carried, parity>>

\* recheckColor: the colour function gives another colour after the palette changed
RecheckColor(e, color) ==
  /\ Var(e, "color") \in Animated /\ Change
  /\ p' = Recolored(e, color)
  /\ UNCHANGED <<offset, pending, policy, screen, carried, parity>>

\* the parent of a running animation moved after the last damage of the child, by a layout or by
\* the last step of its own animation, and will not damage it again
LeavesBehind(q) ==
  /\ IsRunning(q, Var("inner", "geometry")) /\ ~IsRunning(q, Var("outer", "geometry"))
  /\ q.last["inner"] # PresentationSubtreeBox(q, "inner")

\* render: tick, layout, paint of what is damaged
RenderFrame(steps) ==
  LET ticked == Tick([p EXCEPT !.frame = FALSE], steps)
      laid == Reposition(ticked)
      seen == Shown(laid)
  IN
  /\ p.frame
  /\ screen' = [c \in Window |-> IF c \in laid.damage THEN seen[c] ELSE screen[c]]
  /\ p' = [laid EXCEPT !.damage = {}, !.presented = TRUE, !.frame = @ \/ laid.active # <<>>]
  /\ pending' = {}
  /\ carried' = (carried \/ LeavesBehind(laid))
  /\ parity' = ~parity
  /\ UNCHANGED <<offset, policy, changes>>

\* every variable that runs takes a step of its own
StepChoices ==
  LET running == {p.active[i] : i \in DOMAIN p.active}
  IN  {s \in [running -> {Done} \cup Window] : \A k \in running : s[k] \in Steps(p.var[k])}

FrameStep == \E steps \in StepChoices : RenderFrame(steps)

PresentationNext ==
  \/ \E e \in Elements : \E x \in Spots[e] : Move(e, x)
  \/ \E e \in Elements, c \in Policies :
       AnimateGeometry(e, c) \/ AnimateOpacity(e, c) \/ AnimateColor(e, c)
  \/ \E e \in Elements, l \in Levels : SetOpacity(e, l) \/ ReplaceData(e, l) \/ RecheckColor(e, l)
  \/ FrameStep

\* the event loop renders what is scheduled: a frame can always be rendered when p.frame holds
PresentationFairness == WF_parity(p.frame /\ parity' = ~parity)

PresentationSpec == PresentationInit /\ [][PresentationNext]_presentationVars /\ PresentationFairness

----------------------------------------------------------------------------
\* No ghosts: after each frame the screen shows every element where it is seen now and nowhere it
\* was seen before, though only what was damaged is painted: with an animation inside another,
\* curves replaced on the way, and a colour that damages the box of the layout only.  The one
\* exception the code makes is named: a running animation whose parent moved without it (carried).
NoGhosts == [][carried' \/ screen' = Shown(p')]_parity

\* What animates comes to its end on the screen: frames go on while a variable runs
\* (shouldTickForNext), until the screen shows every element in the box and colour it was given.
ScreenSettles ==
  <>[](\/ carried \/ ~p.presented
       \/ /\ p.active = <<>> /\ pending = {}
          /\ screen = Shown(p)
          /\ p.pos["inner"] = offset["outer"] + offset["inner"])
=============================================================================
