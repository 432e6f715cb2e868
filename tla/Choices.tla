------------------------------- MODULE Choices -------------------------------
(***************************************************************************)
(* The controls that choose: element/combobox with the popup of its        *)
(* dropdown, and element/checkbox with element/radioGroup.  A dropdown is  *)
(* numbered, so that one that closed is told from the next; the close that *)
(* a choice asks for runs as an idle of the event loop and closes what is  *)
(* open by then.                                                           *)
(***************************************************************************)
EXTENDS ValueControls

CONSTANTS
  HasPopups,  \* openPopup gives a window (it does not on an embedded surface or a popup)
  MaxPopups,  \* bound: dropdowns opened
  Boxes,      \* the checkboxes of the application
  Radios      \* those drawn as radios

ASSUME ChoiceAssumption ==
  HasPopups \in BOOLEAN /\ MaxPopups \in Nat /\ Radios \subseteq Boxes

VARIABLES
  combo,  \* SComboboxImpl with its dropdown, and the idles its choices queued
  boxes   \* SCheckboxImpl of each, and the radio group
choiceVars == <<combo, boxes>>

----------------------------------------------------------------------------
\* CComboboxElement

Closed(c) == [c EXCEPT !.popup = 0, !.buttons = <<>>]

ComboInit ==
  \E items \in Labels, i \in 0 .. 1 :
     combo = [data |-> [items |-> items, current |-> Fits(items, i)],
              label |-> Item(items, Fits(items, i)), primed |-> FALSE, inWindow |-> FALSE,
              popup |-> 0, buttons |-> <<>>, opened |-> 0, idles |-> 0, chosen |-> 0, draft |-> {}]

ComboAttach == combo' = [combo EXCEPT !.inWindow = ~@]

ComboHover == combo' = [combo EXCEPT !.primed = FALSE]

ComboPress == combo' = [combo EXCEPT !.primed = TRUE]

\* openDropdown: one button for each item
OpenDropdown ==
  /\ combo.popup = 0 /\ combo.data.items # <<>> /\ combo.inWindow /\ HasPopups
  /\ combo.opened < MaxPopups
  /\ combo' = [combo EXCEPT !.popup = combo.opened + 1, !.opened = @ + 1,
                 !.buttons = combo.data.items]

ComboRelease == combo.primed /\ OpenDropdown

\* A button of the dropdown: the choice takes effect now, the dropdown closes later
Choose(b) ==
  /\ combo.popup # 0
  /\ combo' = [SetCurrent(combo, b - 1) EXCEPT !.idles = @ + 1, !.chosen = combo.popup]

\* The idle that a choice queued: closeDropdown, and popupClosed drops the popup
CloseDropdown ==
  /\ combo.idles > 0
  /\ combo' = [Closed(combo) EXCEPT !.idles = @ - 1]

\* The compositor dismisses the popup
PopupDone == combo.popup # 0 /\ combo' = Closed(combo)

ComboSetCurrent(i) == combo' = SetCurrent(combo, i)

ComboRebuild == combo' = [combo EXCEPT !.draft = {combo.data}]

\* Seeded fault: an open dropdown survives new items.
ComboReplaceDataOpen(d) ==
  combo' = SetCurrent([combo EXCEPT !.data = d, !.draft = {}], d.current)

\* replaceData: an open dropdown does not survive new items
ComboReplaceData(d) ==
  LET kept == IF d.items # combo.data.items THEN Closed(combo) ELSE combo
  IN  combo' = SetCurrent([kept EXCEPT !.data = d, !.draft = {}], d.current)

ComboCommence ==
  \E d \in combo.draft :
     \/ ComboReplaceData(d)
     \/ \E items \in Labels : ComboReplaceData([d EXCEPT !.items = items])
     \/ \E i \in 0 .. 2 : ComboReplaceData([d EXCEPT !.current = i])

ComboNext ==
  \/ ComboAttach \/ ComboHover \/ ComboPress \/ ComboRelease
  \/ \E b \in DOMAIN combo.buttons : combo.idles < MaxPopups /\ Choose(b)
  \/ CloseDropdown \/ PopupDone
  \/ \E i \in 0 .. 2 : ComboSetCurrent(i)
  \/ ComboRebuild \/ ComboCommence

----------------------------------------------------------------------------
\* CCheckboxElement and CRadioGroup; told is a history of onSelected

BoxInit ==
  \E on \in SUBSET Boxes :
     boxes = [on |-> on, shown |-> on, members |-> {}, primed |-> {}, radios |-> Radios,
              draft |-> {}, told |-> "none"]

\* setState, which tells nobody
SetState(b, on) ==
  boxes' = IF (b \in boxes.on) = on THEN boxes
           ELSE LET now == IF on THEN boxes.on \cup {b} ELSE boxes.on \ {b}
                IN  [boxes EXCEPT !.on = now, !.shown = now]

\* The pointer enters a box or leaves the one it is over; it is over one at a time
BoxHover == boxes' = [boxes EXCEPT !.primed = {}]

\* Any button primes
BoxPress(b) == boxes' = [boxes EXCEPT !.primed = {b}]

\* Seeded fault: the group hears of the click before the application's handler.
ToggleGroupFirst(b, handled) ==
  LET now   == IF b \in boxes.on THEN boxes.on \ {b} ELSE boxes.on \cup {b}
      alone == b \in now /\ b \in boxes.members
      left  == IF alone THEN (now \ boxes.members) \cup {b} ELSE now
      after == (left \cup handled) \ (IF b \in handled THEN {b} ELSE {})
  IN  boxes' = [boxes EXCEPT !.on = after, !.shown = after, !.told = IF alone THEN b ELSE @]

\* The left button over a box that is primed: the handler of the application may turn
\* other boxes on, and the clicked one off, before the group hears of what is left
Toggle(b, handled) ==
  LET now   == IF b \in boxes.on THEN boxes.on \ {b} ELSE boxes.on \cup {b}
      after == (now \cup handled) \ (IF b \in handled THEN {b} ELSE {})
      alone == b \in after /\ b \in boxes.members
      left  == IF alone THEN (after \ boxes.members) \cup {b} ELSE after
  IN  boxes' = [boxes EXCEPT !.on = left, !.shown = left, !.told = IF alone THEN b ELSE @]

\* A radio that is on is not turned off by a click
BoxRelease(b, handled) ==
  /\ b \in boxes.primed /\ ~(b \in boxes.radios /\ b \in boxes.on)
  /\ Toggle(b, handled)

Add(b) == boxes' = [boxes EXCEPT !.members = @ \cup {b}]

\* setSelected: also of a box that is not in the group, or of none
SetSelected(b) ==
  LET now == (boxes.on \ boxes.members) \cup (boxes.members \cap {b}) IN
  boxes' = [boxes EXCEPT !.on = now, !.shown = now, !.told = IF b \in Boxes THEN b ELSE @]

BoxRebuild(b) == boxes' = [boxes EXCEPT !.draft = {<<b, b \in boxes.on, b \in boxes.radios>>}]

\* replaceData: the state comes from the builder, and nobody is told
BoxReplaceData(b, on, radio) ==
  LET now == IF on THEN boxes.on \cup {b} ELSE boxes.on \ {b} IN
  boxes' = [boxes EXCEPT !.on = now, !.shown = now, !.draft = {},
              !.radios = IF radio THEN @ \cup {b} ELSE @ \ {b}]

BoxCommence ==
  \E d \in boxes.draft, change \in BOOLEAN :
     \/ BoxReplaceData(d[1], d[2] # change, d[3])
     \/ BoxReplaceData(d[1], d[2], d[3] # change)

BoxNext ==
  \/ \E b \in Boxes : \/ \E on \in BOOLEAN : SetState(b, on)
                      \/ BoxPress(b) \/ Add(b) \/ BoxRebuild(b)
                      \/ \E handled \in SUBSET Boxes : BoxRelease(b, handled)
  \/ \E b \in Boxes \cup {"none"} : SetSelected(b)
  \/ BoxHover \/ BoxCommence

----------------------------------------------------------------------------
\* The controls of a window, each on its own

controlVars == <<slider, progress, spinbox, combo, boxes>>

ControlsInit == SliderInit /\ ProgressInit /\ SpinboxInit /\ ComboInit /\ BoxInit

ControlsNext ==
  \/ SliderNext /\ UNCHANGED <<progress, spinbox, combo, boxes>>
  \/ ProgressNext /\ UNCHANGED <<slider, spinbox, combo, boxes>>
  \/ SpinboxNext /\ UNCHANGED <<slider, progress, combo, boxes>>
  \/ ComboNext /\ UNCHANGED <<slider, progress, spinbox, boxes>>
  \/ BoxNext /\ UNCHANGED <<slider, progress, spinbox, combo>>

ControlsSpec == ControlsInit /\ [][ControlsNext]_controlVars

----------------------------------------------------------------------------
\* What the controls show is what they hold, within its limits, whichever way it was
\* changed, and however old the data was that a builder committed during a drag or
\* with a dropdown open.  A slider holds the value it last reported; the buttons of an
\* open dropdown are the items, so that the index a button captured is its item.
ControlsShowState ==
  /\ slider.shown = Refreshed(slider.data) /\ slider.data = Normalized(slider.data)
  /\ slider.told \in {{}, {slider.data.current}}
  /\ progress.pulsing = progress.data.indeterminate
  /\ progress.absolute = progress.data.indeterminate
  /\ progress.width = (IF progress.data.indeterminate THEN PulseWidth ELSE Width(progress.data.value))
  /\ spinbox.data.current = Fits(spinbox.data.items, spinbox.data.current)
  /\ spinbox.label = Item(spinbox.data.items, spinbox.data.current)
  /\ combo.label = Item(combo.data.items, combo.data.current)
  /\ combo.popup # 0 => combo.buttons = combo.data.items
  /\ boxes.shown = boxes.on

\* A choice takes effect at once and as it was read: the label is the text of the button.
ChoiceIsTaken == [][\A b \in DOMAIN combo.buttons : Choose(b) => combo'.label = combo.buttons[b]]_combo

\* However many boxes were on, and whatever the handler of the click changed: if the
\* clicked box is on afterwards, no other box of its group is, and the group says so.
RadioTakesOver ==
  [][\A b \in Boxes, handled \in SUBSET Boxes :
        (b \in boxes.members /\ BoxRelease(b, handled) /\ b \in boxes'.on) =>
           (boxes'.on \cap boxes.members = {b} /\ boxes'.told = b)]_boxes
=============================================================================
