----------------------------- MODULE TextRendering -----------------------------
(***************************************************************************)
(* How a text element gets its picture (element/text/Text.cpp): the text   *)
(* is rendered to a texture by the asynchronous gatherer, or at once for   *)
(* async(false), while the old texture stays on the screen; whatever       *)
(* changes meanwhile asks for another rendering (needsTexRefresh).  A      *)
(* texture is the request it was made from.  The layout of Pango is left   *)
(* out.                                                                    *)
(***************************************************************************)
EXTENDS Integers

CONSTANTS
  Texts,          \* bound: the texts the application sets
  Colors,         \* bound: the colours the colour function may give
  Scales,         \* bound: the scales of the window
  Widths,         \* bound: the widths the layout may give the element
  LinksOf,        \* the links in each text
  Nothing,        \* no texture, no resource, no link
  MaxTextChanges  \* bound: changes by the application, the compositor and the theme

White == "white"    \* what is rendered when the colour is a tint of the paint
NoClamp == 0

Links == UNION {LinksOf[x] : x \in Texts}

ASSUME TextAssumption ==
  /\ Colors # {} /\ Texts # {} /\ White \notin Colors
  /\ Scales \subseteq Nat \ {0} /\ Widths \subseteq Nat \ {0} /\ MaxTextChanges \in Nat

VARIABLES
  t,          \* STextImpl
  scale,      \* window->scale()
  spot,       \* the width the layout gives the element
  inWindow,   \* impl->window
  shownText,  \* the text the window shows: what is left of the last paint
  calls       \* changes made so far
textVars == <<t, scale, spot, inWindow, shownText, calls>>

Datas == [text : Texts, color : Colors, async : BOOLEAN, clamp : {NoClamp, 1}]

----------------------------------------------------------------------------
\* STextImpl

\* applyClampSize
ApplyClampSize(s, width) ==
  IF s.data.clamp # NoClamp /\ (width <= 0 \/ s.data.clamp < width) THEN s.data.clamp ELSE width

\* what renderTex asks of the gatherer
Request(s) ==
  [text |-> s.data.text, color |-> IF s.animated THEN White ELSE s.data.color,
   scale |-> s.lastScale, width |-> ApplyClampSize(s, s.width)]

DamageText(s) == IF inWindow THEN [s EXCEPT !.damaged = TRUE, !.frame = TRUE] ELSE s

ScheduleTextReposition(s) == IF inWindow THEN [s EXCEPT !.pending = TRUE, !.frame = TRUE] ELSE s

\* parseText: the links have no region before the text was rendered
ParseText(s) == [s EXCEPT !.links = LinksOf[s.data.text], !.boxes = FALSE, !.hovered = Nothing]

\* updateScale
UpdateScale(s, windowScale) ==
  IF inWindow /\ windowScale # s.lastScale THEN [s EXCEPT !.lastScale = windowScale, !.needs = TRUE] ELSE s

\* preferredSize takes over the scale, reposition the width; the layout damages the element
LaidOut(s, windowScale) ==
  [UpdateScale(s, windowScale) EXCEPT !.damaged = TRUE, !.frame = TRUE, !.width = spot,
                                      !.needs = @ \/ spot # s.width]

\* Seeded fault: nothing asks for a frame that shows the new texture.
PostTexLoadUnseen(s) ==
  [s EXCEPT !.tex = s.resource, !.old = Nothing, !.tinted = s.animated,
            !.resource = Nothing, !.waiting = FALSE, !.newTex = TRUE, !.boxes = TRUE]

\* postTexLoad, with recheckTextBoxes for the links of the text of now
PostTexLoad(s) ==
  ScheduleTextReposition([s EXCEPT !.tex = s.resource, !.old = Nothing, !.tinted = s.animated,
                               !.resource = Nothing, !.waiting = FALSE, !.newTex = TRUE, !.boxes = TRUE])

\* renderTex; a synchronous text is loaded before it returns
RenderTex(s) ==
  LET asked == DamageText([s EXCEPT !.old = s.tex, !.tex = Nothing, !.needs = FALSE,
                                      !.waiting = TRUE, !.resource = Request(s)])
  IN  IF s.data.async THEN asked ELSE PostTexLoad(asked)

\* the colour variable; its update damages the element
WarpColor(s, c) == DamageText([s EXCEPT !.color = c, !.goal = c])
AnimateTo(s, c) == IF c = s.goal THEN s ELSE DamageText([s EXCEPT !.goal = c])

SetColor(s, differs) ==
  IF s.animated THEN AnimateTo(s, s.data.color)
  ELSE [WarpColor(s, s.data.color) EXCEPT !.needs = @ \/ differs]

----------------------------------------------------------------------------
TextInit ==
  /\ \E d \in [text : {CHOOSE x \in Texts : TRUE}, color : {CHOOSE c \in Colors : TRUE},
               async : BOOLEAN, clamp : {NoClamp}] :
       t = [data |-> d, animated |-> FALSE, color |-> d.color, goal |-> d.color,
            lastScale |-> 1, width |-> 0, needs |-> FALSE, newTex |-> FALSE, waiting |-> FALSE,
            resource |-> Nothing, loaded |-> FALSE, tex |-> Nothing, old |-> Nothing, tinted |-> FALSE,
            links |-> LinksOf[d.text], boxes |-> FALSE, hovered |-> Nothing,
            damaged |-> FALSE, pending |-> FALSE, frame |-> FALSE]
  /\ scale \in Scales
  /\ spot \in Widths
  /\ inWindow = FALSE
  /\ shownText = Nothing
  /\ calls = 0

Call == calls < MaxTextChanges /\ calls' = calls + 1

\* setText
SetText(x) ==
  /\ Call /\ x # t.data.text
  /\ t' = ScheduleTextReposition([ParseText([t EXCEPT !.data.text = x]) EXCEPT !.needs = TRUE])
  /\ UNCHANGED <<scale, spot, inWindow, shownText>>

\* rebuild() and commence(): replaceData.  Bound: one call changes one thing
OneChange(d) == \A f, g \in DOMAIN d : d[f] # t.data[f] /\ d[g] # t.data[g] => f = g

ReplaceTextData(d) ==
  LET given == [t EXCEPT !.data = d]
      parsed == IF d.text # t.data.text THEN ParseText(given) ELSE given
      colored == SetColor(parsed, d.color # t.goal)
      refresh == d.text # t.data.text \/ d.clamp # t.data.clamp
  IN
  /\ Call /\ OneChange(d)
  /\ t' = ScheduleTextReposition([colored EXCEPT !.needs = @ \/ refresh])
  /\ UNCHANGED <<scale, spot, inWindow, shownText>>

\* animateColor
AnimateTextColor(on) ==
  LET set == [t EXCEPT !.animated = on, !.needs = TRUE] IN
  /\ Call
  /\ t' = DamageText(IF on THEN set ELSE WarpColor(set, set.goal))
  /\ UNCHANGED <<scale, spot, inWindow, shownText>>

\* reloadTheme: the colour function gives another colour, recheckColor
RecheckTextColor(c) ==
  /\ Call
  /\ t' = SetColor([t EXCEPT !.data.color = c], TRUE)
  /\ UNCHANGED <<scale, spot, inWindow, shownText>>

\* the window gets another scale: onScaleUpdate lays everything out before it returns
Rescale(s) ==
  /\ Call /\ inWindow /\ s # scale
  /\ scale' = s
  /\ t' = LaidOut(t, s)
  /\ UNCHANGED <<spot, inWindow, shownText>>

\* the parent gets another size: the width changes with the layout of the next frame
ResizeParent(w) ==
  /\ Call /\ w # spot
  /\ spot' = w
  /\ t' = ScheduleTextReposition(t)
  /\ UNCHANGED <<scale, inWindow, shownText>>

\* addChild and removeChild of a parent in the window
Attach ==
  /\ ~inWindow
  /\ inWindow' = TRUE
  /\ t' = [t EXCEPT !.pending = TRUE, !.frame = TRUE]
  /\ UNCHANGED <<scale, spot, shownText, calls>>

Detach ==
  /\ Call /\ inWindow
  /\ inWindow' = FALSE
  /\ shownText' = Nothing
  /\ t' = [t EXCEPT !.pending = FALSE, !.damaged = FALSE]
  /\ UNCHANGED <<scale, spot>>

\* the gatherer's thread finishes the text, its event adds an idle that runs postTexLoad
Loaded ==
  /\ t.resource # Nothing /\ ~t.loaded
  /\ t' = [t EXCEPT !.loaded = TRUE]
  /\ UNCHANGED <<scale, spot, inWindow, shownText, calls>>

LoadedIdle ==
  /\ t.loaded
  /\ t' = [PostTexLoad(t) EXCEPT !.loaded = FALSE]
  /\ UNCHANGED <<scale, spot, inWindow, shownText, calls>>

----------------------------------------------------------------------------
\* A frame

\* onPreRender: the frame that lays out is this one
RepositionText(s) ==
  IF s.pending THEN [LaidOut(s, scale) EXCEPT !.pending = FALSE, !.frame = s.frame] ELSE s

\* the texture, in its own colour or in that of the paint (tintGrayscaleOnly)
Painted(s, texture) ==
  [text |-> texture.text, scale |-> texture.scale, width |-> texture.width,
   color |-> IF s.tinted /\ texture.color = White THEN s.color ELSE texture.color]

\* paint: the element afterwards and what it has drawn; what is damaged meanwhile counts for the
\* next frame, as damage that the buffer of that frame has not seen
Paint(s0) ==
  LET s == [s0 EXCEPT !.damaged = FALSE]
      first == IF s.tex = Nothing THEN s.old ELSE s.tex
      scaled == UpdateScale(s, scale)
      again == IF scaled.needs /\ scaled.resource = Nothing THEN RenderTex(scaled) ELSE scaled
      used == IF scaled.needs THEN again.old ELSE first
  IN
  CASE first = Nothing ->
         <<IF ~s.waiting /\ s.resource = Nothing THEN RenderTex(s) ELSE s, Nothing>>
    [] first # Nothing /\ used = Nothing -> <<again, Nothing>>
    [] OTHER -> <<IF again.newTex THEN DamageText([again EXCEPT !.newTex = FALSE]) ELSE again,
                  Painted(again, used)>>

\* render: a step of the colour, the layout, and the paint of a damaged element
TextFrame ==
  LET ticked == IF t.color # t.goal THEN WarpColor(t, t.goal) ELSE t
      laid == RepositionText([ticked EXCEPT !.frame = FALSE])
      painted == Paint(laid)
  IN
  /\ t.frame /\ inWindow
  /\ IF laid.damaged THEN t' = painted[1] /\ shownText' = painted[2]
     ELSE t' = laid /\ UNCHANGED shownText
  /\ UNCHANGED <<scale, spot, inWindow, calls>>

----------------------------------------------------------------------------
\* Links

\* onMouseMove: the pointer is over the region of a link or over none
OnMouseMove(link) ==
  /\ link # Nothing => link \in t.links /\ t.boxes
  /\ link # t.hovered
  /\ t' = [t EXCEPT !.hovered = link]
  /\ UNCHANGED <<scale, spot, inWindow, shownText, calls>>

----------------------------------------------------------------------------
TextNext ==
  \/ \E x \in Texts : SetText(x)
  \/ \E d \in Datas : ReplaceTextData(d)
  \/ \E on \in BOOLEAN : AnimateTextColor(on)
  \/ \E c \in Colors : RecheckTextColor(c)
  \/ \E s \in Scales : Rescale(s)
  \/ \E w \in Widths : ResizeParent(w)
  \/ Attach \/ Detach
  \/ Loaded \/ LoadedIdle \/ TextFrame
  \/ \E link \in Links \cup {Nothing} : OnMouseMove(link)

\* the gatherer's thread, the idles and the frames run
TextFairness == WF_textVars(Loaded) /\ WF_textVars(LoadedIdle) /\ WF_textVars(TextFrame)

TextSpec == TextInit /\ [][TextNext]_textVars /\ TextFairness

----------------------------------------------------------------------------
\* A click opens a link of the text of now: the hovered link is a pointer into parsedLinks, which
\* every new text rebuilds without the pointer having moved.
HoverIsOfThisText == t.hovered # Nothing => t.hovered \in LinksOf[t.data.text]

\* When the changes end, the window comes to show the newest text in the newest colour, whatever
\* was in flight, hidden or waiting for a frame when they came.
TextSettles ==
  <>[](inWindow => shownText = [text |-> t.data.text, scale |-> scale, width |-> ApplyClampSize(t, spot),
                             color |-> t.data.color])

=============================================================================
