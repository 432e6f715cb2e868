---------------------------- MODULE ValueControls ----------------------------
(***************************************************************************)
(* The controls that hold a number: element/slider, element/progressBar    *)
(* and element/spinbox.  Each keeps its data and, apart from it, what its  *)
(* inner elements were last told to show.  The application changes a       *)
(* control through a builder: rebuild() copies the data, commence() hands  *)
(* the edited copy back, possibly after the user changed the control.      *)
(*                                                                         *)
(* The controls do not interact: an action changes one variable, and the   *)
(* module that composes them leaves the others unchanged.                  *)
(***************************************************************************)
EXTENDS Integers, Sequences

CONSTANTS
  Numbers,     \* bound: the numbers the application uses
  Points,      \* where the pointer may be, from the left end of the slider's track
  TrackWidth,  \* the width of the track once it is laid out
  Labels       \* bound: the item lists of a spinbox

ASSUME ValueAssumption ==
  /\ Numbers \subseteq Int /\ Points \subseteq Int /\ TrackWidth \in Nat \ {0}
  /\ \A items \in Labels : items \in Seq(STRING)

VARIABLES
  slider,    \* SSliderImpl, what it shows, and the application's builder
  progress,  \* SProgressBarImpl, its foreground, its pulse and the frame it waits for
  spinbox    \* SSpinboxImpl, the label of the spinner, and the angles
valueVars == <<slider, progress, spinbox>>

Clamped(x, low, high) == IF x < low THEN low ELSE IF x > high THEN high ELSE x

----------------------------------------------------------------------------
\* CSliderElement; told is a history of onChanged, as a set of one value at most

SliderData == [min : Numbers, max : Numbers, current : Numbers]

\* normalizeValue
Normalized(d) ==
  [d EXCEPT !.current = IF d.max <= d.min THEN d.min ELSE Clamped(@, d.min, d.max)]

\* percentage, in hundredths
Percentage(d) ==
  IF d.max <= d.min THEN 0
  ELSE (100 * (Clamped(d.current, d.min, d.max) - d.min)) \div (d.max - d.min)

\* refreshValue: the width of the foreground and the text of the label
Refreshed(d) == [fill |-> Percentage(d), text |-> d.current]

\* updateValue and setPercentage: nothing until the track has a width
UpdateValue(s) ==
  LET value == IF s.data.max <= s.data.min THEN s.data.min
               ELSE s.data.min + ((s.data.max - s.data.min) * Clamped(s.at, 0, TrackWidth)) \div TrackWidth
      data  == [s.data EXCEPT !.current = value]
  IN  IF ~s.laid THEN s ELSE [s EXCEPT !.data = data, !.shown = Refreshed(data), !.told = {value}]

SliderInit ==
  \E d \in SliderData :
     slider = [data |-> Normalized(d), shown |-> Refreshed(Normalized(d)), dragging |-> FALSE,
               at |-> 0, laid |-> FALSE, draft |-> {}, told |-> {}]

SliderEnter(pos) == slider' = [slider EXCEPT !.dragging = FALSE, !.at = pos]

SliderMove(pos) ==
  LET moved == [slider EXCEPT !.at = pos] IN
  slider' = IF slider.dragging THEN UpdateValue(moved) ELSE moved

SliderLeave == slider' = [slider EXCEPT !.dragging = FALSE]

SliderPress == slider' = UpdateValue([slider EXCEPT !.dragging = TRUE])

SliderRelease == slider' = [slider EXCEPT !.dragging = FALSE]

SliderReposition == slider' = [slider EXCEPT !.laid = TRUE]

SliderRebuild == slider' = [slider EXCEPT !.draft = {slider.data}]

\* Seeded fault: the previous value is read after the data was replaced.
SliderReplaceDataLate(d) ==
  slider' = [slider EXCEPT !.data = Normalized(d), !.shown = Refreshed(Normalized(d)),
               !.draft = {}, !.told = IF Normalized(d).current # d.current
                                      THEN {Normalized(d).current} ELSE @]

\* replaceData: the application hears of a value that is not the previous one
SliderReplaceData(d) ==
  slider' = [slider EXCEPT !.data = Normalized(d), !.shown = Refreshed(Normalized(d)),
               !.draft = {}, !.told = IF Normalized(d).current # slider.data.current
                                      THEN {Normalized(d).current} ELSE @]

SliderCommence ==
  \E d \in slider.draft, v \in Numbers :
     \/ SliderReplaceData(d)
     \/ SliderReplaceData([d EXCEPT !.current = v])
     \/ SliderReplaceData([d EXCEPT !.min = v])
     \/ SliderReplaceData([d EXCEPT !.max = v])

SliderNext ==
  \/ \E pos \in Points : SliderEnter(pos) \/ SliderMove(pos)
  \/ SliderLeave \/ SliderPress \/ SliderRelease
  \/ SliderReposition \/ SliderRebuild \/ SliderCommence

----------------------------------------------------------------------------
\* CProgressBarElement; a value is in hundredths

PulseWidth == 30
PulseLast == 2    \* bound: the last tick before the phase is at its end and starts again
Width(value) == Clamped(value, 0, 100)

\* The foreground is rebuilt, which asks the window for a frame
Draws(p, width) == [p EXCEPT !.width = width, !.frame = p.inWindow]

StartIndeterminate(p) ==
  IF p.pulsing THEN p
  ELSE [Draws(p, PulseWidth) EXCEPT !.pulsing = TRUE, !.phase = 0, !.absolute = TRUE]

StopIndeterminate(p) ==
  IF ~p.pulsing THEN p
  ELSE [Draws(p, Width(p.data.value)) EXCEPT !.pulsing = FALSE, !.phase = 0, !.absolute = FALSE]

ApplyValue(p) == Draws(p, Width(p.data.value))

ProgressInit ==
  \E v \in Numbers, i \in BOOLEAN :
     LET bare == [data |-> [value |-> v, indeterminate |-> i], width |-> Width(v), pulsing |-> FALSE,
                  phase |-> 0, absolute |-> FALSE, inWindow |-> FALSE, laid |-> FALSE,
                  frame |-> FALSE, draft |-> {}]
     IN  progress = IF i THEN StartIndeterminate(bare) ELSE bare

SetValue(v) ==
  progress' = LET set == [progress EXCEPT !.data.value = v] IN
              IF v = progress.data.value \/ progress.data.indeterminate THEN set ELSE ApplyValue(set)

ProgressRebuild == progress' = [progress EXCEPT !.draft = {progress.data}]

\* replaceData, which asks for a reposition in any case
ProgressReplaceData(d) ==
  LET set  == [progress EXCEPT !.data = d, !.draft = {}]
      done == IF d.indeterminate # progress.data.indeterminate
              THEN IF d.indeterminate THEN StartIndeterminate(set) ELSE StopIndeterminate(set)
              ELSE IF d.value # progress.data.value /\ ~d.indeterminate THEN ApplyValue(set) ELSE set
  IN  progress' = [done EXCEPT !.frame = progress.inWindow]

ProgressCommence ==
  \E d \in progress.draft :
     \/ ProgressReplaceData(d)
     \/ \E v \in Numbers : ProgressReplaceData([d EXCEPT !.value = v])
     \/ \E i \in BOOLEAN : ProgressReplaceData([d EXCEPT !.indeterminate = i])

\* The bar joins the window, or leaves it
ProgressAttach == progress' = [progress EXCEPT !.inWindow = ~@, !.frame = ~progress.inWindow]

\* The callback of the end of the phase starts it again
PulseStep(phase) == IF phase = PulseLast THEN 0 ELSE phase + 1

\* A frame: the tick moves the pulse (onPulseTick), which asks for a reposition once the
\* bar has a width; the first layout comes after it and damages the window
ProgressFrame ==
  /\ progress.frame
  /\ progress' = [progress EXCEPT !.laid = TRUE,
                    !.frame = ~progress.laid \/ progress.pulsing,
                    !.phase = IF progress.pulsing THEN PulseStep(@) ELSE @]

ProgressNext ==
  \/ \E v \in Numbers : SetValue(v)
  \/ ProgressRebuild \/ ProgressCommence \/ ProgressAttach \/ ProgressFrame

----------------------------------------------------------------------------
\* CSpinboxElement, CSpinboxSpinner and its two CSpinboxAngleElement

Sides == {"left", "right"}

\* The item at an index of the code, which starts at 0
Item(items, i) == IF items = <<>> THEN "" ELSE items[i + 1]
Fits(items, i) == IF items = <<>> THEN 0 ELSE Clamped(i, 0, Len(items) - 1)

\* setCurrent of CSpinboxElement and CComboboxElement
SetCurrent(box, i) ==
  [box EXCEPT !.data.current = Fits(box.data.items, i),
              !.label = Item(box.data.items, Fits(box.data.items, i))]

SpinboxInit ==
  \E items \in Labels, i \in 0 .. 1 :
     spinbox = [data |-> [items |-> items, current |-> Fits(items, i)],
                label |-> Item(items, Fits(items, i)), primed |-> {}, draft |-> {}]

\* moveSelection goes round
MoveSelection(side) ==
  LET n == Len(spinbox.data.items)
      i == spinbox.data.current
  IN  spinbox' = IF n = 0 THEN spinbox
                 ELSE SetCurrent(spinbox, IF side = "right" THEN (i + 1) % n ELSE (i + n - 1) % n)

AngleHover(side) == spinbox' = [spinbox EXCEPT !.primed = @ \ {side}]
AnglePress(side) == spinbox' = [spinbox EXCEPT !.primed = @ \cup {side}]
AngleRelease(side) == side \in spinbox.primed /\ MoveSelection(side)

SpinboxSetCurrent(i) == spinbox' = SetCurrent(spinbox, i)

SpinboxRebuild == spinbox' = [spinbox EXCEPT !.draft = {spinbox.data}]

SpinboxReplaceData(d) ==
  spinbox' = SetCurrent([spinbox EXCEPT !.data = d, !.draft = {}], d.current)

SpinboxCommence ==
  \E d \in spinbox.draft :
     \/ SpinboxReplaceData(d)
     \/ \E items \in Labels : SpinboxReplaceData([d EXCEPT !.items = items])
     \/ \E i \in 0 .. 2 : SpinboxReplaceData([d EXCEPT !.current = i])

SpinboxNext ==
  \/ \E side \in Sides : AngleHover(side) \/ AnglePress(side) \/ AngleRelease(side)
  \/ \E i \in 0 .. 2 : SpinboxSetCurrent(i)
  \/ SpinboxRebuild \/ SpinboxCommence
=============================================================================
