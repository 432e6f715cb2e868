------------------------------- MODULE MCWidgets -------------------------------
(***************************************************************************)
(* What an element keeps between two events: the text box (TextEditing), a *)
(* row of up to three fixed, automatic, relative and growing children      *)
(* (LinearLayout) and a scroll area (ScrollArea).  They share no state:    *)
(* each behaviour runs one of them and the others stay as they were        *)
(* created.                                                                *)
(***************************************************************************)
EXTENDS TextEditing, LinearLayout, ScrollArea

VARIABLE part
widgetVars == <<editVars, rowVars, scrollVars, part>>

\* characters of one and of two bytes, words and lines
Wide == <<Lead, Cont>>
MCTyped == {Wide}
MCPreedits == {Wide}
MCPasted == {<<"a", Newline>>}
MCAppTexts == {<<Space>>, Wide}

Kind(t, v, c, ctl, g) == [type |-> t, value |-> v, content |-> c, control |-> ctl, grow |-> g]
MCKinds == {Kind("absolute", 3, 0, FALSE, FALSE), Kind("auto", 0, 2, TRUE, FALSE),
            Kind("percent", 50, 0, FALSE, FALSE), Kind("absolute", 1, 0, FALSE, TRUE)}

MCInit ==
  /\ EditInit /\ RowInit /\ ScrollInit
  /\ part \in {"text", "row", "area"}
  /\ part # "text"     => edit.text = Wide /\ ~opts.multiline /\ ~opts.password
  /\ part # "area"     => content = 0 /\ ~settings.block /\ ~settings.bar

MCNext ==
  /\ UNCHANGED part
  /\ \/ part = "text" /\ EditNext /\ UNCHANGED <<rowVars, scrollVars>>
     \/ part = "row" /\ RowNext /\ UNCHANGED <<editVars, scrollVars>>
     \/ part = "area" /\ ScrollNext /\ UNCHANGED <<editVars, rowVars>>

MCSpec == MCInit /\ [][MCNext]_widgetVars
=============================================================================
