-------------------------------- MODULE Popups --------------------------------
(***************************************************************************)
(* The pointer over a window with popups: CWaylandPlatform's pointer and   *)
(* input-method events, IWaylandWindow's routing of them, CWaylandPopup,   *)
(* and the tooltips of IToolkitWindow, which are popups opened by a timer. *)
(*                                                                         *)
(* One toplevel or layer (Root), the popups the application opens on it    *)
(* and its tooltip.  The compositor queues its events; those about a       *)
(* surface that was destroyed meanwhile carry no surface.  Of the elements *)
(* of Root two matter: one with a tooltip and one without.                 *)
(***************************************************************************)
EXTENDS Naturals, Sequences, SequencesExt

CONSTANTS
  Menus,            \* popups the application may open
  MaxPointerEvents  \* bound: queued events beyond which the compositor sends none

Root    == "root"
Tooltip == "tooltip"
NoSurface    == "none"
Popups  == Menus \cup {Tooltip}

ASSUME PopupsAssumption == Root \notin Menus /\ Tooltip \notin Menus /\ NoSurface \notin Menus

VARIABLES
  openPopups,     \* popups whose m_open is set
  granted,        \* popups that got their first configure and asked for the grab
  listed,         \* m_popups of Root
  currentWindow,  \* m_currentWindow
  hover,          \* the element of Root that is m_mainHoverElement
  rootMouseDown,  \* m_mouseIsDown of Root
  ignoreNext,     \* m_ignoreNextButtonEvent of Root
  tip,            \* m_tooltip: whether tooltipPopup is set, and hoverTooltipTimer:
                  \* none, pending, or fired and still set
  strays,         \* tooltip timers that are pending and that nothing refers to any more
  comp,           \* compositor: what the pointer is over, whether a button is down, and
                  \* the window it gave the keyboard
  pointerEvents,  \* sent and not dispatched
  im,             \* imState: empty, a preeditString, or a commitString
  overlapped      \* history: two popups were open at once
rootVars == <<hover, rootMouseDown, ignoreNext, tip, strays>>
popupVars == <<openPopups, granted, listed, overlapped>>
pointerVars == <<popupVars, currentWindow, rootVars, comp, pointerEvents, im>>

\* A second popup that grabs while another has the grab is a protocol error (the
\* topmost popup is not its parent): the compositor disconnects the client.
Killed(grabs) == \E p, q \in grabs : p # q
Running == ~Killed(granted)

----------------------------------------------------------------------------
\* Popups

\* What the protocol library does with events for a surface that is destroyed
Orphaned(es, s) ==
  [i \in DOMAIN es |-> IF es[i].surface = s THEN [es[i] EXCEPT !.surface = NoSurface] ELSE es[i]]

CloseKeepingCurrent(ps) ==   \* Seeded fault: the pointer stays with the closed popup.
  /\ openPopups' = openPopups \ ps
  /\ granted' = granted \ ps
  /\ currentWindow' = currentWindow
  /\ comp' = (IF comp.over \in ps THEN [comp EXCEPT !.over = NoSurface, !.down = FALSE] ELSE comp)

\* CWaylandPopup::close of some popups: the pointer is Root's until it is told otherwise.
ClosePopup(ps) ==
  /\ openPopups' = openPopups \ ps
  /\ granted' = granted \ ps
  /\ currentWindow' = (IF currentWindow \in ps THEN Root ELSE currentWindow)
  /\ comp' = (IF comp.over \in ps THEN [comp EXCEPT !.over = NoSurface, !.down = FALSE] ELSE comp)

\* m_popups without p, which is in it at most once
Unlisted(p) ==
  IF \E i \in DOMAIN listed : listed[i] = p
  THEN RemoveAt(listed, CHOOSE i \in DOMAIN listed : listed[i] = p)
  ELSE listed

CloseOneListed(p, es) ==   \* Seeded fault: m_popups still holds the closed popup.
  /\ ClosePopup({p})
  /\ listed' = listed
  /\ pointerEvents' = Orphaned(es, p)

CloseOne(p, es) ==
  /\ ClosePopup({p})
  /\ listed' = Unlisted(p)
  /\ pointerEvents' = Orphaned(es, p)

\* openPopup lists the new popup, open() takes the focus of Root's elements away:
\* the pointer is told to be far outside.
Opened(p) ==
  /\ openPopups' = openPopups \cup {p}
  /\ listed' = Append(listed, p)
  /\ overlapped' = (overlapped \/ openPopups # {})

----------------------------------------------------------------------------
\* Root's elements

ForgetTimer == strays' = (IF tip.timer = "pending" /\ strays < 1 THEN strays + 1 ELSE strays)

\* updateFocus: nothing changes on the same element or while a button is down; the
\* timer of the previous element is forgotten, not cancelled, and one that is
\* still set keeps the next element from getting its own.
UpdateHover(h, shown) ==
  IF h = hover \/ rootMouseDown
  THEN hover' = hover /\ tip' = [tip EXCEPT !.shown = shown] /\ UNCHANGED strays
  ELSE /\ hover' = h
       /\ IF h = "hinted" /\ tip.timer = "none"
          THEN tip' = [shown |-> shown, timer |-> "pending"] /\ UNCHANGED strays
          ELSE tip' = [shown |-> shown, timer |-> "none"] /\ ForgetTimer

----------------------------------------------------------------------------
\* The application

OpenMenu(p) ==
  /\ Running /\ p \notin openPopups
  /\ Opened(p)
  /\ UpdateHover(NoSurface, tip.shown)
  /\ UNCHANGED <<granted, currentWindow, rootMouseDown, ignoreNext, comp, pointerEvents, im>>

CloseMenu(p) ==
  /\ Running /\ p \in openPopups
  /\ CloseOne(p, pointerEvents)
  /\ UNCHANGED <<rootVars, im, overlapped>>

\* A tooltip timer fires: openTooltip, unless the last tooltip is still referred to.
TooltipTimer(stray) ==
  /\ Running /\ (IF stray THEN strays > 0 ELSE tip.timer = "pending")
  /\ LET fired == IF stray THEN tip.timer ELSE "fired"
         left  == IF stray THEN strays - 1 ELSE strays
     IN IF hover = "hinted" /\ ~tip.shown
        THEN /\ Opened(Tooltip)
             /\ hover' = (IF rootMouseDown THEN hover ELSE NoSurface)
             /\ tip' = [shown |-> TRUE, timer |-> IF rootMouseDown THEN fired ELSE "none"]
             /\ strays' = (IF stray /\ tip.timer = "pending" /\ ~rootMouseDown THEN 1 ELSE left)
        ELSE /\ tip' = [tip EXCEPT !.timer = fired]
             /\ strays' = left
             /\ UNCHANGED <<openPopups, listed, overlapped, hover>>
  /\ UNCHANGED <<granted, currentWindow, rootMouseDown, ignoreNext, comp, pointerEvents, im>>

----------------------------------------------------------------------------
\* The compositor

Event(type, s) == [type |-> type, surface |-> s]
Sends(es) ==
  /\ Running /\ Len(pointerEvents \o es) <= MaxPointerEvents
  /\ pointerEvents' = pointerEvents \o es
PointerUnchanged == UNCHANGED <<popupVars, currentWindow, rootVars, im>>

MovePointer(s) ==
  /\ ~comp.down /\ comp.over # s /\ s \in openPopups \cup {Root, NoSurface}
  /\ comp' = [comp EXCEPT !.over = s]
  /\ Sends((IF comp.over = NoSurface THEN <<>> ELSE <<Event("leave", comp.over)>>)
           \o (IF s = NoSurface THEN <<>> ELSE <<Event("enter", s)>>))
  /\ PointerUnchanged

Wiggle ==
  /\ comp.over = Root /\ Sends(<<Event("motion", Root)>>)
  /\ UNCHANGED comp /\ PointerUnchanged

Button ==
  /\ comp.over # NoSurface
  /\ comp' = [comp EXCEPT !.down = ~@]
  /\ Sends(<<Event(IF comp.down THEN "release" ELSE "press", comp.over)>>)
  /\ PointerUnchanged

\* A press outside the client ends a grab.
DismissPopup(p) ==
  /\ p \in granted /\ Sends(<<Event("popupDone", p)>>)
  /\ UNCHANGED comp /\ PointerUnchanged

\* The first configure of a popup makes it ask for the grab, with the serial of the
\* last enter.
ConfigurePopup(p) ==
  /\ Running /\ p \in openPopups \ granted
  /\ granted' = granted \cup {p}
  /\ UNCHANGED <<openPopups, listed, overlapped, currentWindow, rootVars, comp, pointerEvents, im>>

FocusKeyboard ==
  /\ comp' = [comp EXCEPT !.keyboard = IF @ = Root THEN NoSurface ELSE Root]
  /\ Running /\ UNCHANGED pointerEvents /\ PointerUnchanged

----------------------------------------------------------------------------
\* What the client dispatches

DispatchingPointer(type) ==
  /\ Running /\ pointerEvents # <<>> /\ Head(pointerEvents).type = type

\* windowForSurf
Found(s) == s = Root \/ \E i \in DOMAIN listed : listed[i] = s

\* Events the handlers ignore: for a surface that is not found, or for Root while
\* popups take the pointer.
Ignored ==
  /\ Running /\ pointerEvents # <<>>
  /\ \/ Head(pointerEvents).type \in {"enter", "leave"} /\ ~Found(Head(pointerEvents).surface)
     \/ Head(pointerEvents).type = "popupDone" /\ Head(pointerEvents).surface = NoSurface
     \/ Head(pointerEvents).type \in {"motion", "press", "release"} /\ currentWindow # Root
     \/ Head(pointerEvents).type = "motion" /\ listed # <<>>
  /\ pointerEvents' = Tail(pointerEvents)
  /\ UNCHANGED comp /\ PointerUnchanged

SurfaceEnter ==
  /\ DispatchingPointer("enter") /\ Found(Head(pointerEvents).surface)
  /\ currentWindow' = Head(pointerEvents).surface
  /\ IF currentWindow' = Root THEN \E h \in {"hinted", "plain", NoSurface} : UpdateHover(h, tip.shown)
     ELSE UNCHANGED <<hover, tip, strays>>
  /\ pointerEvents' = Tail(pointerEvents)
  /\ UNCHANGED <<popupVars, rootMouseDown, ignoreNext, comp, im>>

\* Root: its elements are left, the timer runs on.  The tooltip closes itself when
\* its background is left.
SurfaceLeave ==
  /\ DispatchingPointer("leave") /\ Found(Head(pointerEvents).surface)
  /\ currentWindow' = NoSurface
  /\ hover' = (IF Head(pointerEvents).surface = Root THEN NoSurface ELSE hover)
  /\ IF Head(pointerEvents).surface = Tooltip
     THEN /\ openPopups' = openPopups \ {Tooltip} /\ granted' = granted \ {Tooltip}
          /\ listed' = Unlisted(Tooltip)
          /\ comp' = (IF comp.over = Tooltip THEN [comp EXCEPT !.over = NoSurface, !.down = FALSE] ELSE comp)
          /\ pointerEvents' = Orphaned(Tail(pointerEvents), Tooltip)
          /\ tip' = [tip EXCEPT !.shown = FALSE]
     ELSE pointerEvents' = Tail(pointerEvents) /\ UNCHANGED <<openPopups, granted, listed, comp, tip>>
  /\ UNCHANGED <<rootMouseDown, ignoreNext, strays, overlapped, im>>

\* Without popups Root's elements hear of it, and a tooltip that is closed already is forgotten.
SurfaceMotion ==
  /\ DispatchingPointer("motion") /\ currentWindow = Root /\ listed = <<>>
  /\ \E h \in {"hinted", "plain", NoSurface} : UpdateHover(h, FALSE)
  /\ pointerEvents' = Tail(pointerEvents)
  /\ UNCHANGED <<popupVars, currentWindow, rootMouseDown, ignoreNext, comp, im>>

\* A press with popups closes them instead.  The loop runs over m_popups while
\* close() erases from it, and so it misses every second one.
EveryOther == {listed[i] : i \in {j \in DOMAIN listed : j % 2 = 1}}
ClosePopups ==
  /\ DispatchingPointer("press") /\ currentWindow = Root /\ listed # <<>> /\ ~ignoreNext
  /\ ClosePopup(EveryOther)
  /\ listed' = <<>>
  /\ ignoreNext' = TRUE
  /\ pointerEvents' = FoldLeft(Orphaned, Tail(pointerEvents), SetToSeq(EveryOther))
  /\ UNCHANGED <<hover, rootMouseDown, tip, strays, overlapped, im>>

ButtonToElements ==
  /\ currentWindow = Root
  /\ \/ DispatchingPointer("press") /\ (listed = <<>> \/ ignoreNext) /\ rootMouseDown' = TRUE
     \/ DispatchingPointer("release") /\ rootMouseDown' = FALSE
  /\ ignoreNext' = FALSE
  /\ pointerEvents' = Tail(pointerEvents)
  /\ UNCHANGED <<popupVars, currentWindow, hover, tip, strays, comp, im>>

PopupDone ==
  /\ DispatchingPointer("popupDone") /\ Head(pointerEvents).surface # NoSurface
  /\ CloseOne(Head(pointerEvents).surface, Tail(pointerEvents))
  /\ UNCHANGED <<rootVars, im, overlapped>>

----------------------------------------------------------------------------
\* The input method composes, then commits; done goes to the window the pointer is over.

ImCompose(part) ==
  /\ Running /\ comp.keyboard = Root /\ im # "commit"
  /\ im' = part
  /\ UNCHANGED <<popupVars, currentWindow, rootVars, comp, pointerEvents>>

\* A preedit stays in imState, and is shown again by every later done until a commit.
ImDone ==
  /\ Running /\ comp.keyboard = Root /\ im # "empty"
  /\ im' = (IF currentWindow = Root /\ im = "commit" THEN "empty" ELSE im)
  /\ UNCHANGED <<popupVars, currentWindow, rootVars, comp, pointerEvents>>

----------------------------------------------------------------------------
PopupsInit ==
  /\ openPopups = {} /\ granted = {} /\ listed = <<>> /\ overlapped = FALSE
  /\ currentWindow = NoSurface
  /\ hover = NoSurface /\ rootMouseDown = FALSE /\ ignoreNext = FALSE
  /\ tip = [shown |-> FALSE, timer |-> "none"]
  /\ strays = 0
  /\ comp = [over |-> NoSurface, down |-> FALSE, keyboard |-> NoSurface]
  /\ pointerEvents = <<>>
  /\ im = "empty"

PopupsNext ==
  \/ \E p \in Menus : OpenMenu(p) \/ CloseMenu(p)
  \/ \E stray \in BOOLEAN : TooltipTimer(stray)
  \/ \E s \in Popups \cup {Root, NoSurface} : MovePointer(s)
  \/ \E p \in Popups : DismissPopup(p) \/ ConfigurePopup(p)
  \/ Wiggle \/ Button \/ FocusKeyboard
  \/ Ignored \/ SurfaceEnter \/ SurfaceLeave \/ SurfaceMotion
  \/ ClosePopups \/ ButtonToElements \/ PopupDone
  \/ \E part \in {"preedit", "commit"} : ImCompose(part)
  \/ ImDone

PopupsSpec == PopupsInit /\ [][PopupsNext]_pointerVars

----------------------------------------------------------------------------
\* Properties

\* The pointer's window is never one that is closed: a popup may be closed by the
\* compositor, by a press on its parent, by its own element under the pointer or
\* by the application, before or after the pointer's own enter and leave are
\* dispatched, and motion and buttons that follow must not go to it.
PointerIsOnOpenWindow == currentWindow \in {NoSurface, Root} \cup openPopups

\* Root ignores the pointer exactly while one of its popups is open, and finds the
\* popup the pointer enters: m_popups, which mouseMove, mouseAxis and windowForSurf
\* read, holds the open popups, however they close.  Two popups open at once
\* (a tooltip's timer fires under an open menu) are the exception: mouseButton
\* then closes EveryOther.
BlockedWhilePopupOpen ==
  ~overlapped => {listed[i] : i \in DOMAIN listed} = openPopups

=============================================================================
