------------------------------- MODULE MCElements --------------------------------
(***************************************************************************)
(* The tree of elements with the layouts that a change asks for            *)
(* (ElementTree) and the controls that are built from it (ValueControls,   *)
(* Choices).  The parts share no state: each behaviour runs one of them    *)
(* and the others keep their first state.                                  *)
(***************************************************************************)
EXTENDS ElementTree, Choices

VARIABLE part
elementsVars == <<treeVars, controlVars, part>>

MCSlots == {<<"root", "a">>, <<"root", "b">>, <<"a", "c">>}

MCNumbers == {-50, 40, 150}
MCPoints == {-1, 2, 5}
MCLabels == {<<>>, <<"x", "y">>, <<"y", "x", "z">>}

MCInit ==
  /\ part \in {"tree", "slider", "progress", "spinbox", "combo", "boxes"}
  /\ TreeInit
  /\ ControlsInit
  /\ part # "slider"   => slider.data = [min |-> 40, max |-> 40, current |-> 40]
  /\ part # "progress" => progress.data = [value |-> 40, indeterminate |-> FALSE]
  /\ part # "spinbox"  => spinbox.data = [items |-> <<>>, current |-> 0]
  /\ part # "combo"    => combo.data.items = <<>>
  /\ part # "boxes"    => boxes.on = {}

TreePart(A)    == part = "tree" /\ A /\ UNCHANGED <<controlVars, part>>
ControlPart(A) == A /\ UNCHANGED <<treeVars, part>>

MCNext ==
  \/ TreePart(TreeNext)
  \/ ControlPart(part = "slider" /\ SliderNext /\ UNCHANGED <<progress, spinbox, combo, boxes>>)
  \/ ControlPart(part = "progress" /\ ProgressNext /\ UNCHANGED <<slider, spinbox, combo, boxes>>)
  \/ ControlPart(part = "spinbox" /\ SpinboxNext /\ UNCHANGED <<slider, progress, combo, boxes>>)
  \/ ControlPart(part = "combo" /\ ComboNext /\ UNCHANGED <<slider, progress, spinbox, boxes>>)
  \/ ControlPart(part = "boxes" /\ BoxNext /\ UNCHANGED <<slider, progress, spinbox, combo>>)

\* TreeFairness, in its part
MCSpec ==
  /\ MCInit /\ [][MCNext]_elementsVars
  /\ WF_treeVars(part = "tree" /\ PreRender)
  /\ WF_treeVars(part = "tree" /\ RepositionNext)
=============================================================================
