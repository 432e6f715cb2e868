------------------------------ MODULE ScrollArea ------------------------------
(***************************************************************************)
(* element/scrollArea/ScrollArea.cpp: the scroll offset of one axis, its   *)
(* limit as of the last layout, and the scrollbar whose thumb follows and  *)
(* sets the offset.  Both axes run the same code, with the other           *)
(* coordinate and the other bar.  Pixels are whole; a quotient is rounded  *)
(* down, so that what goes through two of them is exact to a pixel.        *)
(***************************************************************************)
EXTENDS Integers, FiniteSetsExt

CONSTANTS
  Views,       \* bound: the lengths of the viewport
  Contents,    \* bound: the lengths of the content; 0 is no content
  Deltas,      \* bound: how far one wheel event scrolls
  StripPoints  \* bound: where the pointer may be along the strip

Pad == 1        \* SCROLLBAR_PAD
MinThumb == 2   \* SCROLLBAR_MIN

ASSUME ScrollAssumption ==
  /\ Views \subseteq Nat \ {0} /\ Contents \subseteq Nat
  /\ Deltas \subseteq Int /\ StripPoints \subseteq Nat

VARIABLES
  view,       \* impl->position along the axis, 0 before the first layout
  content,    \* what the content prefers now
  scroll,     \* data.currentScroll
  draft,      \* currentScroll in the builder the application holds
  maxScroll,  \* cachedMaxScroll
  offset,     \* how far the inner layer is shifted
  settings,   \* data: scroll (this axis scrolls), block (the user may not), bar (showScrollbar)
  bar,        \* the scrollbar
  scheduled,  \* a reposition of the area, or of the inner layer it alone lays out, is pending
  fresh       \* nothing the layout reads has changed since it ran
scrollVars ==
  <<view, content, scroll, draft, maxScroll, offset, settings, bar, scheduled, fresh>>

NoBar == [strip |-> FALSE, shown |-> FALSE, dragging |-> FALSE, hovered |-> FALSE, grab |-> 0,
          trackLen |-> 0, thumbOff |-> 0, thumbLen |-> 0, maxOff |-> 0, lastLocal |-> 0]

NewBar == [NoBar EXCEPT !.strip = TRUE]

Clamp(x, low, high) == IF x < low THEN low ELSE IF x > high THEN high ELSE x

\* clampMaxScroll, against the cached limit
ClampMaxScroll(s, max) == IF settings.scroll THEN Clamp(s, 0, max) ELSE 0

\* The content less the viewport, never negative
Overflow == IF content > view' THEN content - view' ELSE 0

\* recalcMaxScroll, once the content is laid out
RecalcMaxScroll == IF content = 0 THEN 0 ELSE Overflow

----------------------------------------------------------------------------
\* The scrollbar

\* layoutOne: shows or hides the strip, and remembers the geometry for the input
LayoutScrollbar(b, v, max, s) ==
  LET want  == settings.scroll /\ max > 0
      track == v - 2 * Pad
      thumb == Min({track, Max({MinThumb, (track * v) \div (v + max)})})
  IN  IF ~b.strip THEN b
      ELSE IF ~want THEN [b EXCEPT !.shown = FALSE]
      ELSE IF track <= 0 THEN [b EXCEPT !.shown = TRUE, !.trackLen = track]
      ELSE [b EXCEPT !.shown = TRUE, !.trackLen = track, !.maxOff = max, !.thumbLen = thumb,
                     !.thumbOff = Pad + (s * (track - thumb)) \div max]

\* Seeded fault: where the thumb was grabbed is forgotten.
ScrollFromThumbNoGrab(b, pos) ==
  LET span == b.trackLen - b.thumbLen IN
  IF span <= 0 \/ b.maxOff <= 0 THEN UNCHANGED <<scroll, scheduled, fresh>>
  ELSE /\ scroll' = ClampMaxScroll(((Clamp(pos, Pad, Pad + span) - Pad) * b.maxOff) \div span, maxScroll)
       /\ scheduled' = TRUE
       /\ fresh' = FALSE

\* scrollFromThumb and the setScroll it calls: where the pointer is on the track
ScrollFromThumb(b, pos) ==
  LET span == b.trackLen - b.thumbLen
      off  == Clamp(pos - b.grab, Pad, Pad + span)
  IN  IF span <= 0 \/ b.maxOff <= 0 THEN UNCHANGED <<scroll, scheduled, fresh>>
      ELSE /\ scroll' = ClampMaxScroll(((off - Pad) * b.maxOff) \div span, maxScroll)
           /\ scheduled' = TRUE
           /\ fresh' = FALSE

StripMove(pos) ==
  /\ bar.strip /\ bar.shown
  /\ bar' = [bar EXCEPT !.lastLocal = pos]
  /\ IF bar.dragging THEN ScrollFromThumb(bar, pos) ELSE UNCHANGED <<scroll, scheduled, fresh>>
  /\ UNCHANGED <<view, content, draft, maxScroll, offset, settings>>

StripPress ==
  /\ bar.strip /\ bar.shown
  /\ bar' = [bar EXCEPT !.dragging = TRUE,
               !.grab = IF bar.thumbOff <= bar.lastLocal /\ bar.lastLocal < bar.thumbOff + bar.thumbLen
                        THEN bar.lastLocal - bar.thumbOff ELSE bar.thumbLen \div 2]
  /\ ScrollFromThumb(bar', bar.lastLocal)
  /\ UNCHANGED <<view, content, draft, maxScroll, offset, settings>>

StripRelease ==
  /\ bar.dragging
  /\ bar' = [bar EXCEPT !.dragging = FALSE]
  /\ UNCHANGED <<view, content, scroll, draft, maxScroll, offset, settings, scheduled, fresh>>

StripHover(hovered, pos) ==
  /\ bar.strip /\ bar.shown /\ bar.hovered # hovered
  /\ bar' = [bar EXCEPT !.hovered = hovered, !.lastLocal = IF hovered THEN pos ELSE @]
  /\ UNCHANGED <<view, content, scroll, draft, maxScroll, offset, settings, scheduled, fresh>>

----------------------------------------------------------------------------
\* Wheel, application and layout

MouseAxis(delta) ==
  /\ ~settings.block /\ settings.scroll
  /\ scroll' = ClampMaxScroll(scroll + delta, maxScroll)
  /\ scheduled' = TRUE
  /\ fresh' = FALSE
  /\ UNCHANGED <<view, content, draft, maxScroll, offset, settings, bar>>

SetScroll(s) ==
  /\ scroll' = ClampMaxScroll(s, maxScroll)
  /\ scheduled' = TRUE
  /\ fresh' = FALSE
  /\ UNCHANGED <<view, content, draft, maxScroll, offset, settings, bar>>

\* rebuild: the builder takes a copy of the data as it is now
Rebuild ==
  /\ draft' = scroll
  /\ UNCHANGED <<view, content, scroll, maxScroll, offset, settings, bar, scheduled, fresh>>

\* replaceData, for a builder that is committed: its copy of the offset comes back as it
\* was, which no limit is asked about before the next layout, and the builder keeps it.
\* The bars are made or dropped only when that changed.
ReplaceAreaData(new) ==
  /\ settings' = new
  /\ scroll' = IF new.scroll THEN draft ELSE 0
  /\ bar' = IF new.bar = settings.bar THEN bar ELSE IF new.bar THEN NewBar ELSE NoBar
  /\ scheduled' = TRUE
  /\ fresh' = FALSE
  /\ UNCHANGED <<view, content, draft, maxScroll, offset>>

\* The content is rebuilt or replaced: the window lays out the inner layer alone,
\* at the offset it has, because the area's size does not depend on its children
ContentChanges(c) ==
  /\ content' = c
  /\ fresh' = FALSE
  /\ UNCHANGED <<view, scroll, draft, maxScroll, offset, settings, bar, scheduled>>

\* Seeded fault: the offset is not corrected against the new limit.
RepositionOnce(v) ==
  /\ view' = v
  /\ maxScroll' = RecalcMaxScroll
  /\ scroll' = ClampMaxScroll(scroll, maxScroll)
  /\ offset' = scroll'
  /\ bar' = IF settings.bar THEN LayoutScrollbar(bar, v, maxScroll', scroll') ELSE bar
  /\ scheduled' = TRUE /\ fresh' = TRUE
  /\ UNCHANGED <<content, draft, settings>>

\* reposition, by the pending request or because a parent was laid out.  Moving the
\* inner layer asks for another layout of the area, every time.
Reposition(v) ==
  LET first == ClampMaxScroll(scroll, maxScroll) IN
  /\ view' = v
  /\ maxScroll' = RecalcMaxScroll
  /\ scroll' = ClampMaxScroll(first, maxScroll')
  /\ offset' = scroll'
  /\ bar' = IF settings.bar THEN LayoutScrollbar(bar, v, maxScroll', scroll') ELSE bar
  /\ scheduled' = TRUE
  /\ fresh' = TRUE
  /\ UNCHANGED <<content, draft, settings>>

Frame == scheduled /\ view > 0 /\ Reposition(view)

Settings == [scroll : BOOLEAN, block : BOOLEAN, bar : BOOLEAN]

ScrollInit ==
  /\ view = 0 /\ scroll = 0 /\ draft = 0 /\ maxScroll = 0 /\ offset = 0
  /\ content \in Contents
  /\ settings \in {s \in Settings : s.scroll}
  /\ bar = IF settings.bar THEN NewBar ELSE NoBar
  /\ scheduled = FALSE /\ fresh = FALSE

ScrollNext ==
  \/ \E delta \in Deltas : MouseAxis(delta)
  \/ \E s \in Contents : SetScroll(s)
  \/ \E c \in Contents : ContentChanges(c)
  \/ Rebuild \/ \E new \in Settings : ReplaceAreaData(new)
  \/ \E pos \in StripPoints : StripMove(pos) \/ \E h \in BOOLEAN : StripHover(h, pos)
  \/ StripPress \/ StripRelease
  \/ \E v \in Views : Reposition(v)
  \/ Frame

ScrollSpec == ScrollInit /\ [][ScrollNext]_scrollVars

----------------------------------------------------------------------------
\* Once laid out, the content is never shifted past its end nor before its start,
\* however stale the limit was that the wheel and the thumb were clamped against, or
\* the offset that a builder puts back.
ScrollWithinContent ==
  fresh => /\ offset = scroll
           /\ 0 <= offset
           /\ offset <= (IF content > view THEN content - view ELSE 0)
           /\ ~settings.scroll => offset = 0

\* Where the thumb may be next, to a rounded scroll unit
Follows(next) ==
  LET span    == bar.trackLen - bar.thumbLen
      Near(x) == x - next <= 1 + span \div maxScroll /\ next - x <= 1 + span \div maxScroll
      OnThumb == bar.thumbOff <= bar.lastLocal /\ bar.lastLocal < bar.thumbOff + bar.thumbLen
  IN  (bar.shown /\ settings.scroll /\ span > 0 /\ fresh) =>
         /\ (StripPress /\ OnThumb) => Near(bar.thumbOff)
         /\ \A pos \in StripPoints : (StripMove(pos) /\ bar.dragging) =>
              Near(Clamp(pos - bar.grab, Pad, Pad + span))

\* A thumb that is pressed does not jump, and one that is dragged goes with the
\* pointer: the next layout puts the place where it was grabbed under the pointer, or
\* the thumb at the end of the track the pointer went past.
ThumbFollowsPointer ==
  [][Follows(LayoutScrollbar(bar', view, maxScroll, scroll').thumbOff)]_scrollVars

=============================================================================
