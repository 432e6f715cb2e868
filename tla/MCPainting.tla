------------------------------ MODULE MCPainting ------------------------------
(***************************************************************************)
(* What animations damage on the way (Presentation), how a text comes to   *)
(* be painted (TextRendering), and the frames of the surfaces that a host  *)
(* embeds (EmbeddedFrames): three parts that share no state, each          *)
(* behaviour runs one of them and the others keep their first state.       *)
(***************************************************************************)
EXTENDS Presentation, TextRendering, EmbeddedFrames

VARIABLE part
paintingVars == <<presentationVars, textVars, vars, part>>

MCLength == [e \in Elements |-> IF e = "outer" THEN 3 ELSE 1]
MCSpots == [e \in Elements |-> {0, 2}]
MCAnimated == {<<"outer", "geometry">>, <<"inner", "geometry">>,
               <<"outer", "opacity">>, <<"inner", "color">>}
MCLinksOf == [x \in Texts |-> {<<"link", x>>}]

MCInit ==
  /\ part \in {"animation", "text", "frames"}
  /\ PresentationInit /\ TextInit /\ Init
  /\ part # "animation" => \A e \in Elements : policy[Var(e, "geometry")] = "none"
  /\ part # "text" => scale = 1 /\ spot = 1 /\ t.data.async

AnimationPart(A) == part = "animation" /\ A /\ UNCHANGED <<textVars, vars, part>>
TextPart(A)      == part = "text" /\ A /\ UNCHANGED <<presentationVars, vars, part>>
FramesPart(A)    == part = "frames" /\ A /\ UNCHANGED <<presentationVars, textVars, part>>

MCNext == AnimationPart(PresentationNext) \/ TextPart(TextNext) \/ FramesPart(Next)

\* the fairness of PresentationSpec, TextSpec and EmbeddedFrames, each in its part
MCSpec ==
  /\ MCInit /\ [][MCNext]_paintingVars
  /\ WF_parity(part = "animation" /\ p.frame /\ parity' = ~parity)
  /\ WF_textVars(part = "text" /\ Loaded)
  /\ WF_textVars(part = "text" /\ LoadedIdle)
  /\ WF_textVars(part = "text" /\ TextFrame)
  /\ \A s \in Surfaces :
       /\ SF_vars(part = "frames" /\ (CollectDamage(s) \/ FinishFrame(s) \/ FrameThrows(s)))
       /\ SF_vars(part = "frames" /\ requests[s] > 0 /\ Render(s))
=============================================================================
