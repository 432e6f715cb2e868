--------------------------- MODULE InputFocusProofs ---------------------------
(***************************************************************************)
(* Proofs about InputFocus for any elements, fingers and geometry: enters  *)
(* and leaves balance, one element has the keyboard, taps are captured,    *)
(* and fingers are freed; with one mouse button, that drags end.           *)
(***************************************************************************)
EXTENDS InputFocus, TLAPS

\* A lock is held by an element of the tree, or by one that was torn out.
HoverInv == EntersBalanced /\ Locked \ torn \subseteq attached

\* A closed surface has no input; a tap and a held button exclude one another.
PointerInv ==
  /\ pointerIn \/ primary # None => open
  /\ primary # None => mouseDown /\ main = tapTarget /\ held = {}
  /\ HoverNeedsPointer

\* A finger is captured by an element or stands for the mouse, never both.
FingerInv == FingersAreFreed /\ (primary # None => touchFocus[primary] = None)

IInv == TypeOK /\ HoverInv /\ KeyboardBalanced /\ PointerInv /\ FingerInv
-----------------------------------------------------------------------------
\* Moving the locks keeps the balance if whatever newly gets one is in the tree.
LEMMA Relocking ==
  ASSUME HoverInv, TypeOK, NEW locks \in SUBSET Elements, locks \ Locked \subseteq attached,
         Relock(locks), Locked' = locks, attached' = attached
  PROVE  HoverInv' /\ inside' \subseteq Elements /\ torn' \subseteq Elements
<1> DEFINE left == (Locked \ locks) \cap attached
           entered == locks \ Locked
<1>1. inside' = (inside \cup entered) \ left /\ torn' = torn \ (entered \cup left)
  BY DEF Relock
<1> USE DEF TypeOK
<1>2. \A e \in Elements \ torn' : e \in inside' <=> e \in locks
  BY <1>1 DEF HoverInv, EntersBalanced
<1>3. locks \ torn' \subseteq attached
  BY <1>1 DEF HoverInv
<1> QED BY <1>1, <1>2, <1>3 DEF HoverInv, EntersBalanced

\* What a hit test does to the hover, and leaves alone.
LEMMA Updating ==
  ASSUME IInv, NEW hit \in Hits, UpdateFocus(hit), attached' = attached
  PROVE  /\ HoverInv' /\ inside' \subseteq Elements /\ torn' \subseteq Elements
         /\ main' \in Elements \cup {None} /\ hovered' \subseteq AlwaysHover
         /\ mouseDown => main' = main
<1> USE InputFocusAssumption DEF IInv, TypeOK
<1>1. /\ main' = IF mouseDown THEN main ELSE hit.top
      /\ hovered' = hit.over
      /\ hit.top \in attached \cup {None} /\ hit.over \subseteq attached \cap AlwaysHover
  BY DEF UpdateFocus, Hits
<1> DEFINE locks == Only(main') \cup hit.over
<1>2. Relock(locks) /\ locks \in SUBSET Elements /\ locks \ Locked \subseteq attached
  BY <1>1 DEF UpdateFocus, Only, Locked
<1>3. Locked' = locks
  BY <1>1 DEF Locked, Only
<1>4. PICK l \in SUBSET Elements : l = locks
  BY <1>2
<1> HIDE DEF locks
<1> QED BY <1>1, <1>2, <1>3, <1>4, Relocking

LEMMA Leaving ==
  ASSUME IInv, MouseLeave, attached' = attached
  PROVE  /\ HoverInv' /\ inside' \subseteq Elements /\ torn' \subseteq Elements
         /\ main' = None /\ hovered' = {}
<1>1. Relock({}) /\ main' = None /\ hovered' = {}
  BY DEF MouseLeave
<1>2. Locked' = {}
  BY <1>1 DEF Locked, Only
<1> QED BY <1>1, <1>2, Relocking DEF IInv

LEMMA Typed ==
  ASSUME IInv, NEW e \in Typing \cup {None}, KeyboardTo(e)
  PROVE  KeyboardBalanced' /\ keyboard' \in Typing \cup {None} /\ typing' \subseteq Typing
BY DEF KeyboardTo, KeyboardBalanced, Only, IInv, TypeOK
-----------------------------------------------------------------------------
LEMMA InitIInv == Init => IInv
<1> SUFFICES ASSUME Init PROVE IInv
  OBVIOUS
<1> USE InputFocusAssumption DEF Init
<1>1. TypeOK
  BY DEF TypeOK
<1>2. HoverInv /\ PointerInv
  BY DEF HoverInv, EntersBalanced, Locked, Only, PointerInv, HoverNeedsPointer
<1>3. KeyboardBalanced /\ FingerInv
  BY DEF KeyboardBalanced, Only, FingerInv, FingersAreFreed
<1> QED BY <1>1, <1>2, <1>3 DEF IInv

\* Steps of the hover alone.
LEMMA MouseSteps ==
  ASSUME IInv, PointerEnter \/ PointerMotion \/ PointerLeave \/ \E f \in Fingers : TouchMotion(f)
  PROVE  IInv'
<1> USE InputFocusAssumption DEF HostMouse, treeVars, keyboardVars, buttonVars, touchVars
<1>1. UNCHANGED <<treeVars, keyboardVars, buttonVars, touchVars>>
  BY DEF PointerEnter, PointerMotion, PointerLeave, TouchMotion
<1>2. KeyboardBalanced' /\ FingerInv'
  BY <1>1 DEF IInv, KeyboardBalanced, Only, FingerInv, FingersAreFreed
<1>3. CASE PointerLeave
  <2>1. /\ HoverInv' /\ inside' \subseteq Elements /\ torn' \subseteq Elements
        /\ main' = None /\ hovered' = {}
    BY <1>1, <1>3, Leaving DEF PointerLeave
  <2>2. TypeOK'
    BY <1>1, <1>3, <2>1 DEF IInv, TypeOK, PointerLeave
  <2>3. PointerInv'
    BY <1>1, <1>3, <2>1 DEF IInv, PointerInv, HoverNeedsPointer, PointerLeave
  <2> QED BY <1>2, <2>1, <2>2, <2>3 DEF IInv
<1>4. CASE PointerEnter \/ PointerMotion \/ \E f \in Fingers : TouchMotion(f)
  <2>1. PICK hit \in Hits : UpdateFocus(hit)
    BY <1>4 DEF PointerEnter, PointerMotion, TouchMotion
  <2>2. /\ HoverInv' /\ inside' \subseteq Elements /\ torn' \subseteq Elements
        /\ main' \in Elements \cup {None} /\ hovered' \subseteq AlwaysHover
        /\ mouseDown => main' = main
    BY <1>1, <2>1, Updating
  <2>3. open /\ pointerIn' \in BOOLEAN /\ (pointerIn' \/ primary # None)
    BY <1>4 DEF PointerEnter, PointerMotion, TouchMotion, IInv, TypeOK
  <2>4. TypeOK'
    BY <1>1, <2>2, <2>3 DEF IInv, TypeOK
  <2>5. PointerInv'
    BY <1>1, <2>2, <2>3 DEF IInv, PointerInv, HoverNeedsPointer
  <2> QED BY <1>2, <2>2, <2>4, <2>5 DEF IInv
<1> QED BY <1>3, <1>4

LEMMA ButtonSteps ==
  ASSUME IInv, NEW b \in Buttons, Press(b) \/ Release(b)
  PROVE  IInv'
<1> USE InputFocusAssumption DEF HostMouse, treeVars, keyboardVars, hoverVars, touchVars
<1>1. UNCHANGED <<treeVars, hoverVars, touchVars, pointerIn>> /\ open /\ primary = None
  BY DEF Press, Release
<1>2. HoverInv' /\ FingerInv'
  BY <1>1 DEF IInv, HoverInv, EntersBalanced, Locked, Only, FingerInv, FingersAreFreed
<1>3. PointerInv'
  BY <1>1 DEF IInv, PointerInv, HoverNeedsPointer
<1>4. mouseDown' \in BOOLEAN /\ held' \subseteq Buttons /\ pressed' \subseteq Elements
  BY DEF Press, Release, Only, IInv, TypeOK
<1>5. KeyboardBalanced' /\ keyboard' \in Typing \cup {None} /\ typing' \subseteq Typing
  <2>1. CASE Press(b)
    <3>1. PICK e \in Typing \cup {None} : e = IF main \in Typing THEN main ELSE None
      OBVIOUS
    <3> QED BY <2>1, <3>1, Typed DEF Press, ClickFocus
  <2>2. CASE Release(b)
    BY <2>2 DEF Release, IInv, TypeOK, KeyboardBalanced, Only
  <2> QED BY <2>1, <2>2
<1>6. TypeOK'
  BY <1>1, <1>4, <1>5 DEF IInv, TypeOK
<1> QED BY <1>2, <1>3, <1>5, <1>6 DEF IInv

\* Fingers that do not stand for the mouse.
LEMMA OtherTouchSteps ==
  ASSUME IInv, NEW f \in Fingers, TouchDownCaptured(f) \/ TouchDownIgnored(f) \/ TouchEnd(f)
  PROVE  IInv'
<1> USE InputFocusAssumption DEF treeVars, keyboardVars, hoverVars, buttonVars
<1>1. /\ UNCHANGED <<treeVars, hoverVars, keyboardVars, buttonVars, pointerIn, primary, tapTarget>>
      /\ open /\ down' \subseteq Fingers
      /\ touchFocus' \in [Fingers -> Touchable \cup {None}]
  BY DEF TouchDownCaptured, TouchDownIgnored, TouchEnd, IInv, TypeOK
<1>2. FingerInv'
  BY DEF TouchDownCaptured, TouchDownIgnored, TouchEnd, IInv, TypeOK, FingerInv, FingersAreFreed
<1>3. HoverInv' /\ KeyboardBalanced' /\ PointerInv'
  BY <1>1 DEF IInv, HoverInv, EntersBalanced, Locked, Only, KeyboardBalanced, PointerInv, HoverNeedsPointer
<1>4. TypeOK'
  BY <1>1 DEF IInv, TypeOK
<1> QED BY <1>2, <1>3, <1>4 DEF IInv

LEMMA TapSteps ==
  ASSUME IInv, NEW f \in Fingers, TouchDownPrimary(f) \/ TouchUpPrimary(f) \/ TouchCancelPrimary(f)
  PROVE  IInv'
<1> USE InputFocusAssumption DEF treeVars, keyboardVars
<1>1. /\ UNCHANGED <<treeVars, pressed, held, touchFocus, pointerIn>> /\ open
      /\ down' \subseteq Fingers /\ mouseDown' \in BOOLEAN
  BY DEF TouchDownPrimary, TouchUpPrimary, TouchCancelPrimary, IInv, TypeOK
<1>2. FingerInv'
  BY DEF TouchDownPrimary, TouchUpPrimary, TouchCancelPrimary, IInv, TypeOK, FingerInv, FingersAreFreed
<1>3. KeyboardBalanced' /\ keyboard' \in Typing \cup {None} /\ typing' \subseteq Typing
  <2>1. CASE TouchUpPrimary(f)
    <3>1. PICK e \in Typing \cup {None} : e = IF main \in Typing THEN main ELSE None
      OBVIOUS
    <3> QED BY <2>1, <3>1, Typed DEF TouchUpPrimary, ClickFocus
  <2>2. CASE TouchDownPrimary(f) \/ TouchCancelPrimary(f)
    BY <2>2 DEF TouchDownPrimary, TouchCancelPrimary, IInv, TypeOK, KeyboardBalanced, Only
  <2> QED BY <2>1, <2>2
<1>4. CASE TouchDownPrimary(f)
  <2>1. PICK hit \in Hits : UpdateFocus(hit)
    BY <1>4 DEF TouchDownPrimary, TapHits
  <2>2. /\ HoverInv' /\ inside' \subseteq Elements /\ torn' \subseteq Elements
        /\ main' \in Elements \cup {None} /\ hovered' \subseteq AlwaysHover
    BY <1>1, <2>1, Updating
  <2>3. TypeOK'
    BY <1>1, <1>3, <1>4, <2>2 DEF IInv, TypeOK, TouchDownPrimary
  <2>4. PointerInv'
    BY <1>1, <1>4 DEF PointerInv, HoverNeedsPointer, TouchDownPrimary
  <2> QED BY <1>2, <1>3, <2>2, <2>3, <2>4 DEF IInv
<1>5. CASE TouchUpPrimary(f) \/ TouchCancelPrimary(f)
  <2>1. MouseLeave /\ primary' = None /\ tapTarget' = None
    BY <1>5 DEF TouchUpPrimary, TouchCancelPrimary
  <2>2. /\ HoverInv' /\ inside' \subseteq Elements /\ torn' \subseteq Elements
        /\ main' = None /\ hovered' = {}
    BY <1>1, <2>1, Leaving
  <2>3. TypeOK'
    BY <1>1, <1>3, <2>1, <2>2 DEF IInv, TypeOK
  <2>4. PointerInv'
    BY <1>1, <2>1, <2>2 DEF IInv, PointerInv, HoverNeedsPointer
  <2> QED BY <1>2, <1>3, <2>2, <2>3, <2>4 DEF IInv
<1> QED BY <1>4, <1>5

LEMMA SurfaceSteps ==
  ASSUME IInv, Open \/ Close \/ KeyboardLeave \/ \E e \in Elements : SetKeyboardFocus(e)
  PROVE  IInv'
<1> USE InputFocusAssumption
<1>1. CASE Open
  <2> USE <1>1 DEF Open, hoverVars, keyboardVars, buttonVars, touchVars
  <2>1. HoverInv' /\ KeyboardBalanced' /\ FingerInv'
    BY DEF IInv, HoverInv, EntersBalanced, Locked, Only, KeyboardBalanced, FingerInv, FingersAreFreed
  <2>2. TypeOK'
    BY DEF IInv, TypeOK
  <2>3. PointerInv'
    BY DEF IInv, PointerInv, HoverNeedsPointer
  <2> QED BY <2>1, <2>2, <2>3 DEF IInv
<1>2. CASE Close
  <2>1. /\ HoverInv' /\ inside' \subseteq Elements /\ torn' \subseteq Elements
        /\ main' = None /\ hovered' = {}
    BY <1>2, Leaving DEF Close
  <2>2. KeyboardBalanced' /\ keyboard' \in Typing \cup {None} /\ typing' \subseteq Typing
    BY <1>2, Typed DEF Close
  <2>3. TypeOK'
    BY <1>2, <2>1, <2>2 DEF IInv, TypeOK, Close
  <2>4. PointerInv' /\ FingerInv'
    BY <1>2, <2>1 DEF PointerInv, HoverNeedsPointer, FingerInv, FingersAreFreed, Close
  <2> QED BY <2>1, <2>2, <2>3, <2>4 DEF IInv
<1>3. CASE KeyboardLeave \/ \E e \in Elements : SetKeyboardFocus(e)
  <2>1. PICK e \in Typing \cup {None} : KeyboardTo(e)
    BY <1>3 DEF KeyboardLeave, SetKeyboardFocus
  <2>2. KeyboardBalanced' /\ keyboard' \in Typing \cup {None} /\ typing' \subseteq Typing
    BY <2>1, Typed
  <2>3. UNCHANGED <<treeVars, hoverVars, buttonVars, touchVars, pointerIn>>
    BY <1>3 DEF KeyboardLeave, SetKeyboardFocus
  <2> USE <2>3 DEF treeVars, hoverVars, buttonVars, touchVars
  <2>4. HoverInv' /\ FingerInv'
    BY DEF IInv, HoverInv, EntersBalanced, Locked, Only, FingerInv, FingersAreFreed
  <2>5. TypeOK' 
    BY <2>2 DEF IInv, TypeOK
  <2>6. PointerInv'
    BY DEF IInv, PointerInv, HoverNeedsPointer
  <2> QED BY <2>2, <2>4, <2>5, <2>6 DEF IInv
<1> QED BY <1>1, <1>2, <1>3

LEMMA TreeSteps ==
  ASSUME IInv, NEW e \in Elements, AddChild(e) \/ RemoveChild(e) \/ DropChild(e)
  PROVE  IInv'
<1> USE InputFocusAssumption
<1>1. CASE AddChild(e) \/ RemoveChild(e)
  <2>1. UNCHANGED <<open, main, hovered, inside, keyboardVars, buttonVars, touchVars, pointerIn>>
    BY <1>1 DEF AddChild, RemoveChild, hoverVars
  <2> USE <2>1 DEF keyboardVars, buttonVars, touchVars
  <2>2. attached' \subseteq Elements /\ torn' \subseteq Elements
    BY <1>1 DEF AddChild, RemoveChild, hoverVars, IInv, TypeOK
  <2>3. HoverInv'
    BY <1>1 DEF AddChild, RemoveChild, hoverVars, IInv, HoverInv, EntersBalanced, Locked, Only
  <2>4. KeyboardBalanced' /\ FingerInv'
    BY DEF IInv, KeyboardBalanced, Only, FingerInv, FingersAreFreed
  <2>5. TypeOK'
    BY <2>2 DEF IInv, TypeOK
  <2>6. PointerInv'
    BY DEF IInv, PointerInv, HoverNeedsPointer
  <2> QED BY <2>3, <2>4, <2>5, <2>6 DEF IInv
<1>2. CASE DropChild(e)
  <2> USE <1>2 DEF DropChild
  <2>1. HoverInv'
    BY DEF IInv, TypeOK, HoverInv, EntersBalanced, Locked, Only
  <2>2. KeyboardBalanced'
    BY DEF IInv, TypeOK, KeyboardBalanced, Only
  <2>3. FingerInv'
    BY DEF IInv, TypeOK, FingerInv, FingersAreFreed
  <2>4. touchFocus' \in [Fingers -> Touchable \cup {None}]
    BY DEF IInv, TypeOK
  <2>5. TypeOK'
    BY <2>4 DEF IInv, TypeOK
  <2>6. PointerInv'
    BY DEF IInv, TypeOK, PointerInv, HoverNeedsPointer
  <2> QED BY <2>1, <2>2, <2>3, <2>5, <2>6 DEF IInv
<1> QED BY <1>1, <1>2

LEMMA NextIInv == IInv /\ [Next]_vars => IInv'
<1> SUFFICES ASSUME IInv, [Next]_vars PROVE IInv'
  OBVIOUS
<1>1. CASE Next
  BY <1>1, MouseSteps, ButtonSteps, OtherTouchSteps, TapSteps, SurfaceSteps, TreeSteps DEF Next
<1>2. CASE UNCHANGED vars
  <2> USE <1>2 DEF vars, treeVars, hoverVars, keyboardVars, buttonVars, touchVars
  <2>1. TypeOK' /\ KeyboardBalanced' /\ FingerInv'
    BY DEF IInv, TypeOK, KeyboardBalanced, Only, FingerInv, FingersAreFreed
  <2>2. HoverInv' /\ PointerInv'
    BY DEF IInv, HoverInv, EntersBalanced, Locked, Only, PointerInv, HoverNeedsPointer
  <2> QED BY <2>1, <2>2 DEF IInv
<1> QED BY <1>1, <1>2
-----------------------------------------------------------------------------
LEMMA SpecIInv == Spec => []IInv
<1>1. Init => IInv
  BY InitIInv
<1>2. IInv /\ [Next]_vars => IInv'
  BY NextIInv
<1> QED BY <1>1, <1>2, PTL DEF Spec

\* Every variable of the surface and its host keeps its type.
THEOREM TypeCorrect == Spec => []TypeOK
<1>1. IInv => TypeOK
  BY DEF IInv
<1> QED BY <1>1, SpecIInv, PTL

\* An element that was not torn out of the tree under the pointer believes
\* the pointer is on it exactly while it holds a hover lock.
THEOREM HoverIsBalanced == Spec => []EntersBalanced
<1>1. IInv => EntersBalanced
  BY DEF IInv, HoverInv
<1> QED BY <1>1, SpecIInv, PTL

\* Exactly the focused element believes it has the keyboard.
THEOREM KeyboardIsBalanced == Spec => []KeyboardBalanced
<1>1. IInv => KeyboardBalanced
  BY DEF IInv
<1> QED BY <1>1, SpecIInv, PTL

\* Without a pointer and a tap nothing is hovered.
THEOREM HoverEnds == Spec => []HoverNeedsPointer
<1>1. IInv => HoverNeedsPointer
  BY DEF IInv, PointerInv
<1> QED BY <1>1, SpecIInv, PTL

\* A tap clicks the element the finger went down on, or none.
THEOREM TapsAreCaptured == Spec => []TapIsCaptured
<1>1. IInv => TapIsCaptured
  BY DEF IInv, PointerInv, TapIsCaptured
<1> QED BY <1>1, SpecIInv, PTL

\* A finger that is up is free to be used again.
THEOREM FingersFree == Spec => []FingersAreFreed
<1>1. IInv => FingersAreFreed
  BY DEF IInv, FingerInv
<1> QED BY <1>1, SpecIInv, PTL
-----------------------------------------------------------------------------
(* With one mouse button, a held button locks the focus. *)

OneButton == Buttons = {Left}

HoldInv ==
  /\ held # {} => mouseDown /\ open
  /\ DragEnds

\* A step keeps HoldInv because m_mainHoverElement stays while a button is
\* held, unless its element is destroyed or the surface closed.
LEMMA NextHoldInv == OneButton /\ IInv /\ HoldInv /\ [Next]_vars => HoldInv'
<1> SUFFICES ASSUME OneButton, IInv, HoldInv, [Next]_vars PROVE HoldInv'
  OBVIOUS
<1> USE InputFocusAssumption
<1> USE DEF OneButton, HoldInv, DragEnds
<1>1. held \subseteq {Left}
  BY DEF IInv, TypeOK
<1>2. CASE PointerEnter \/ PointerMotion \/ \E f \in Fingers : TouchMotion(f)
  <2>1. PICK hit \in Hits : UpdateFocus(hit)
    BY <1>2 DEF PointerEnter, PointerMotion, TouchMotion
  <2>2. UNCHANGED <<treeVars, buttonVars>>
    BY <1>2 DEF PointerEnter, PointerMotion, TouchMotion
  <2>3. mouseDown => main' = main
    BY <2>1 DEF UpdateFocus
  <2> QED BY <2>2, <2>3 DEF treeVars, buttonVars
<1>3. CASE PointerLeave \/ Close
  BY <1>3 DEF PointerLeave, Close, treeVars, buttonVars
<1>4. ASSUME NEW b \in Buttons, Press(b) \/ Release(b) PROVE HoldInv'
  BY <1>1, <1>4 DEF Press, Release, HostMouse, treeVars, hoverVars, Only
<1>5. ASSUME NEW f \in Fingers,
             TouchDownCaptured(f) \/ TouchDownIgnored(f) \/ TouchEnd(f)
      PROVE  HoldInv'
  BY <1>5 DEF TouchDownCaptured, TouchDownIgnored, TouchEnd, treeVars, hoverVars, buttonVars
<1>6. ASSUME NEW f \in Fingers,
             TouchDownPrimary(f) \/ TouchUpPrimary(f) \/ TouchCancelPrimary(f)
      PROVE  HoldInv'
  <2>1. held = {} /\ UNCHANGED <<held, pressed, open>>
    BY <1>6, None \notin Fingers
    DEF TouchDownPrimary, TouchUpPrimary, TouchCancelPrimary, treeVars, IInv, PointerInv
  <2> QED BY <2>1
<1>7. CASE Open \/ KeyboardLeave \/ \E e \in Elements : SetKeyboardFocus(e)
  BY <1>7 DEF Open, KeyboardLeave, SetKeyboardFocus, treeVars, hoverVars, buttonVars
<1>8. ASSUME NEW e \in Elements, AddChild(e) \/ RemoveChild(e) \/ DropChild(e)
      PROVE  HoldInv'
  BY <1>8 DEF AddChild, RemoveChild, DropChild, hoverVars, buttonVars
<1>9. CASE UNCHANGED vars
  BY <1>9 DEF vars, treeVars, hoverVars, buttonVars
<1> QED BY <1>2, <1>3, <1>4, <1>5, <1>6, <1>7, <1>8, <1>9 DEF Next

\* With one mouse button every press is followed by its release on the same
\* element, so that no drag outlives its button.
THEOREM DragsEnd == OneButton /\ Spec => []DragEnds
<1> SUFFICES ASSUME OneButton PROVE Spec => []DragEnds
  OBVIOUS
<1>1. Init => HoldInv
  BY DEF Init, HoldInv, DragEnds
<1>2. IInv /\ HoldInv /\ [Next]_vars => HoldInv'
  BY NextHoldInv
<1>3. HoldInv => DragEnds
  BY DEF HoldInv
<1> QED BY <1>1, <1>2, <1>3, SpecIInv, PTL DEF Spec
=============================================================================
