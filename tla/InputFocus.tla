------------------------------ MODULE InputFocus ------------------------------
(***************************************************************************)
(* Who gets the input of a surface: the hover locks, the keyboard focus    *)
(* and the pressed state of IToolkitWindow, driven by the host of a        *)
(* CEmbeddedSurface with a mouse, with fingers, and by the application     *)
(* that adds and removes elements at any time.                             *)
(*                                                                         *)
(* Geometry is one choice: a hit test finds some topmost element and some  *)
(* set of elements that always get mouse input.  The host closes what it   *)
(* opened, sends input to open surfaces only, does not let the pointer     *)
(* leave while a button is held, and does not use the mouse during an      *)
(* emulated tap; Host... below are these conditions.                       *)
(***************************************************************************)
EXTENDS FiniteSets

CONSTANTS
  Elements,     \* the elements that accept mouse input
  None,         \* no element, or no finger
  AlwaysHover,  \* elements with alwaysGetMouseInput(): scroll areas, spinners
  Typing,       \* elements with acceptsKeyboardInput()
  Touchable,    \* elements with acceptsTouchInput()
  Fingers,      \* touch ids
  Buttons,      \* mouse buttons
  Left          \* MOUSE_BUTTON_LEFT

ASSUME InputFocusAssumption ==
  /\ AlwaysHover \subseteq Elements
  /\ Typing \subseteq Elements
  /\ Touchable \subseteq Elements
  /\ None \notin Elements
  /\ None \notin Fingers
  /\ Left \in Buttons

VARIABLES
  open,        \* m_open
  attached,    \* the elements in the tree under m_rootElement
  main,        \* m_mainHoverElement
  hovered,     \* m_hoveredElements
  inside,      \* elements that saw a mouseEnter and no mouseLeave since
  torn,        \* elements taken out of the tree while locked, not told of the end of it
  keyboard,    \* m_keyboardFocus
  typing,      \* elements that saw a keyboardEnter and no keyboardLeave since
  mouseDown,   \* m_mouseIsDown
  pressed,     \* elements pressed with Left as m_mainHoverElement, not released since
  touchFocus,  \* m_touchFocus
  primary,     \* m_primaryTouch
  tapTarget,   \* the element the primary touch entered
  pointerIn,   \* host: the pointer is over the surface
  held,        \* host: buttons that are down
  down         \* host: fingers that are down

treeVars     == <<open, attached>>
hoverVars    == <<main, hovered, inside, torn>>
keyboardVars == <<keyboard, typing>>
buttonVars   == <<mouseDown, pressed, held>>
touchVars    == <<touchFocus, primary, tapTarget, down>>
vars == <<treeVars, hoverVars, keyboardVars, buttonVars, touchVars, pointerIn>>

Only(e) == {e} \ {None}

\* The elements whose cursorFocusLocks is positive.
Locked == Only(main) \cup hovered

Init ==
  /\ open = FALSE
  /\ attached = {}
  /\ main = None
  /\ hovered = {}
  /\ inside = {}
  /\ torn = {}
  /\ keyboard = None
  /\ typing = {}
  /\ mouseDown = FALSE
  /\ pressed = {}
  /\ touchFocus = [f \in Fingers |-> None]
  /\ primary = None
  /\ tapTarget = None
  /\ pointerIn = FALSE
  /\ held = {}
  /\ down = {}

-----------------------------------------------------------------------------
(* Hover *)

\* The locks move from Locked to locks: lock() sends a mouseEnter for the
\* first lock of an element, unlock() a mouseLeave for the last one, but only
\* to elements that are still in the tree of a window.
Relock(locks) ==
  LET entered == locks \ Locked
      left    == (Locked \ locks) \cap attached
  IN /\ inside' = (inside \cup entered) \ left
     /\ torn' = torn \ (entered \cup left)

\* What a hit test may find: the topmost element, and the ones that always
\* get mouse input.
Hits ==
  {hit \in [top : attached \cup {None}, over : SUBSET (attached \cap AlwaysHover)] :
    /\ hit.top = None => hit.over = {}
    /\ hit.top \in AlwaysHover => hit.top \in hit.over}

UpdateFocusUnlocked(hit) ==   \* Seeded fault: m_mouseIsDown is not looked at.
  /\ hovered' = hit.over
  /\ main' = hit.top
  /\ Relock(Only(main') \cup hit.over)

UpdateFocus(hit) ==
  /\ hovered' = hit.over
  /\ main' = IF mouseDown THEN main ELSE hit.top
  /\ Relock(Only(main') \cup hit.over)

MouseLeave ==
  /\ main' = None
  /\ hovered' = {}
  /\ Relock({})

-----------------------------------------------------------------------------
(* Keyboard focus *)

KeyboardTo(e) ==
  /\ keyboard' = e
  /\ typing' = (typing \ {keyboard}) \cup Only(e)

\* The press half of mouseButton(): a click focuses what it hits, or nothing.
ClickFocus == KeyboardTo(IF main \in Typing THEN main ELSE None)

-----------------------------------------------------------------------------
(* The mouse *)

\* The mouse is the host's to use when no finger emulates it.
HostMouse == open /\ primary = None

PointerEnter ==
  /\ HostMouse /\ ~pointerIn
  /\ pointerIn' = TRUE
  /\ \E hit \in Hits : UpdateFocus(hit)
  /\ UNCHANGED <<treeVars, keyboardVars, buttonVars, touchVars>>

PointerMotion ==
  /\ HostMouse /\ pointerIn
  /\ \E hit \in Hits : UpdateFocus(hit)
  /\ UNCHANGED <<treeVars, keyboardVars, buttonVars, touchVars, pointerIn>>

PointerLeave ==
  /\ HostMouse /\ pointerIn /\ held = {}
  /\ pointerIn' = FALSE
  /\ MouseLeave
  /\ UNCHANGED <<treeVars, keyboardVars, buttonVars, touchVars>>

Press(b) ==
  /\ HostMouse /\ pointerIn /\ b \notin held
  /\ held' = held \cup {b}
  /\ mouseDown' = TRUE
  /\ ClickFocus
  /\ pressed' = IF b = Left THEN pressed \cup Only(main) ELSE pressed
  /\ UNCHANGED <<treeVars, hoverVars, touchVars, pointerIn>>

Release(b) ==
  /\ HostMouse /\ b \in held
  /\ held' = held \ {b}
  /\ mouseDown' = FALSE
  /\ pressed' = IF b = Left THEN pressed \ {main} ELSE pressed
  /\ UNCHANGED <<treeVars, hoverVars, keyboardVars, touchVars, pointerIn>>

-----------------------------------------------------------------------------
(* Fingers *)

\* A finger on an element that takes touches is captured by that element.
TouchDownCaptured(f) ==
  /\ open /\ f \notin down
  /\ down' = down \cup {f}
  /\ \E e \in attached \cap Touchable : touchFocus' = [touchFocus EXCEPT ![f] = e]
  /\ UNCHANGED <<treeVars, hoverVars, keyboardVars, buttonVars, primary, tapTarget, pointerIn>>

\* Where a finger finds no element that takes touches.
TapHits == {hit \in Hits : Touchable \cap (Only(hit.top) \cup hit.over) = {}}

\* The first finger on anything else stands for the mouse.
TouchDownUncaptured(f) ==   \* Seeded fault: m_mouseIsDown is not set.
  /\ open /\ f \notin down /\ primary = None /\ held = {}
  /\ down' = down \cup {f}
  /\ primary' = f
  /\ \E hit \in TapHits : UpdateFocus(hit)
  /\ tapTarget' = main'
  /\ UNCHANGED <<treeVars, keyboardVars, buttonVars, touchFocus, pointerIn>>

TouchDownPrimary(f) ==
  /\ open /\ f \notin down /\ primary = None /\ held = {}
  /\ down' = down \cup {f}
  /\ primary' = f
  /\ \E hit \in TapHits : UpdateFocus(hit)
  /\ tapTarget' = main'
  /\ mouseDown' = TRUE
  /\ UNCHANGED <<treeVars, keyboardVars, pressed, held, touchFocus, pointerIn>>

\* Further ones are ignored.
TouchDownIgnored(f) ==
  /\ open /\ f \notin down /\ primary # None
  /\ down' = down \cup {f}
  /\ UNCHANGED <<treeVars, hoverVars, keyboardVars, buttonVars, touchFocus, primary, tapTarget, pointerIn>>

TouchMotion(f) ==
  /\ open /\ primary = f
  /\ \E hit \in Hits : UpdateFocus(hit)
  /\ UNCHANGED <<treeVars, keyboardVars, buttonVars, touchVars, pointerIn>>

\* touchUp() and touchCancel() of a finger that is not the primary touch.
TouchEnd(f) ==
  /\ open /\ f \in down /\ primary # f
  /\ down' = down \ {f}
  /\ touchFocus' = [touchFocus EXCEPT ![f] = None]
  /\ UNCHANGED <<treeVars, hoverVars, keyboardVars, buttonVars, primary, tapTarget, pointerIn>>

\* touchUp() of the primary touch presses and releases the left button, then
\* lets the pointer leave.
TouchUpPrimary(f) ==
  /\ open /\ primary = f
  /\ down' = down \ {f}
  /\ ClickFocus
  /\ mouseDown' = FALSE
  /\ MouseLeave
  /\ primary' = None
  /\ tapTarget' = None
  /\ UNCHANGED <<treeVars, pressed, held, touchFocus, pointerIn>>

TouchCancelPrimary(f) ==
  /\ open /\ primary = f
  /\ down' = down \ {f}
  /\ MouseLeave
  /\ mouseDown' = FALSE
  /\ primary' = None
  /\ tapTarget' = None
  /\ UNCHANGED <<treeVars, keyboardVars, pressed, held, touchFocus, pointerIn>>

-----------------------------------------------------------------------------
(* The surface and its tree *)

Open ==
  /\ ~open
  /\ open' = TRUE
  /\ UNCHANGED <<attached, hoverVars, keyboardVars, buttonVars, touchVars, pointerIn>>

\* close() ends hover and touches and drops the keyboard focus before the
\* elements lose their window.  It leaves m_mouseIsDown as it is.  The host
\* starts afresh after it, and so does the record of what is pressed.
Close ==
  /\ open
  /\ open' = FALSE
  /\ MouseLeave
  /\ KeyboardTo(None)
  /\ touchFocus' = [f \in Fingers |-> None]
  /\ primary' = None
  /\ tapTarget' = None
  /\ pressed' = {}
  /\ pointerIn' = FALSE
  /\ held' = {}
  /\ down' = {}
  /\ UNCHANGED <<attached, mouseDown>>

\* Textbox::focus(), which does nothing for an element without a window.
SetKeyboardFocus(e) ==
  /\ open /\ e \in attached
  /\ KeyboardTo(IF e \in Typing THEN e ELSE None)
  /\ UNCHANGED <<treeVars, hoverVars, buttonVars, touchVars, pointerIn>>

\* The seat's keyboard leaves the surface, or a text box gives the focus up.
KeyboardLeave ==
  /\ open /\ keyboard # None
  /\ KeyboardTo(None)
  /\ UNCHANGED <<treeVars, hoverVars, buttonVars, touchVars, pointerIn>>

AddChild(e) ==
  /\ e \notin attached
  /\ attached' = attached \cup {e}
  /\ UNCHANGED <<open, hoverVars, keyboardVars, buttonVars, touchVars, pointerIn>>

\* A child the application keeps: its locks and its focus stay.
RemoveChild(e) ==
  /\ e \in attached
  /\ attached' = attached \ {e}
  /\ torn' = torn \cup ({e} \cap Locked)
  /\ UNCHANGED <<open, main, hovered, inside, keyboardVars, buttonVars, touchVars, pointerIn>>

\* A child nobody else keeps: it is destroyed, and with it every weak
\* reference to it.  The name may be used for a new element.
DropChild(e) ==
  /\ attached' = attached \ {e}
  /\ main' = IF main = e THEN None ELSE main
  /\ hovered' = hovered \ {e}
  /\ inside' = inside \ {e}
  /\ torn' = torn \ {e}
  /\ keyboard' = IF keyboard = e THEN None ELSE keyboard
  /\ typing' = typing \ {e}
  /\ pressed' = pressed \ {e}
  /\ touchFocus' = [f \in Fingers |-> IF touchFocus[f] = e THEN None ELSE touchFocus[f]]
  /\ tapTarget' = IF tapTarget = e THEN None ELSE tapTarget
  /\ UNCHANGED <<open, mouseDown, held, primary, down, pointerIn>>

Next ==
  \/ Open \/ Close \/ KeyboardLeave
  \/ PointerEnter \/ PointerMotion \/ PointerLeave
  \/ \E b \in Buttons : Press(b) \/ Release(b)
  \/ \E f \in Fingers : \/ TouchDownCaptured(f) \/ TouchDownPrimary(f) \/ TouchDownIgnored(f)
                        \/ TouchMotion(f) \/ TouchEnd(f)
                        \/ TouchUpPrimary(f) \/ TouchCancelPrimary(f)
  \/ \E e \in Elements : SetKeyboardFocus(e) \/ AddChild(e) \/ RemoveChild(e) \/ DropChild(e)

Spec == Init /\ [][Next]_vars

-----------------------------------------------------------------------------
(* Properties *)

TypeOK ==
  /\ open \in BOOLEAN
  /\ attached \subseteq Elements
  /\ main \in Elements \cup {None}
  /\ hovered \subseteq AlwaysHover
  /\ inside \subseteq Elements
  /\ torn \subseteq Elements
  /\ keyboard \in Typing \cup {None}
  /\ typing \subseteq Typing
  /\ mouseDown \in BOOLEAN
  /\ pressed \subseteq Elements
  /\ touchFocus \in [Fingers -> Touchable \cup {None}]
  /\ primary \in Fingers \cup {None}
  /\ tapTarget \in Elements \cup {None}
  /\ pointerIn \in BOOLEAN
  /\ held \subseteq Buttons
  /\ down \subseteq Fingers

\* An element believes the pointer is on it exactly while it holds a lock,
\* whatever moved the lock: motion, a tap, a tap cancelled, a close (lock()
\* and unlock() of SToolkitWindowData, as m_mainHoverElement and
\* m_hoveredElements change).  Only an element that was taken out of the tree
\* under the pointer may be left with a stale mouseEnter.
EntersBalanced ==
  \A e \in Elements \ torn : e \in inside <=> e \in Locked

\* An element believes it has the keyboard exactly while it is m_keyboardFocus,
\* so at most one does and keys go to it: clicks, taps, Textbox::focus(), the
\* seat leaving and close() all tell the element that loses it.
KeyboardBalanced == typing = Only(keyboard)

\* Nothing stays hovered when neither the mouse nor a finger is on the surface
\* (mouseLeave(), touchUp(), touchCancel(), close()).
HoverNeedsPointer ==
  ~pointerIn /\ primary = None => main = None /\ hovered = {}

\* A tap belongs to the element the finger went down on, wherever the finger
\* moves and whatever comes and goes meanwhile, so that touchUp() clicks this
\* one or none (touchDown() setting m_mouseIsDown).
TapIsCaptured == primary # None => main = tapTarget

\* A press is followed by its release: the element a button went down on gets
\* the release although the pointer may have moved off it, so that no drag of
\* a scrollbar, slider or selection survives its button (updateFocus() under
\* m_mouseIsDown, mouseButton()).  One button at a time: see FocusLockedWhileHeld.
DragEnds == \A e \in pressed : Left \in held /\ main = e

\* A finger that is up, or that the surface closed under, occupies neither a
\* capture nor the primary touch: the id is free for the next touch.
FingersAreFreed ==
  \A f \in Fingers : touchFocus[f] # None \/ primary = f => f \in down

=============================================================================
