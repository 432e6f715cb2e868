----------------------------- MODULE ElementTree -----------------------------
(***************************************************************************)
(* How a change of an element reaches the layout: Element.cpp links and    *)
(* unlinks elements and asks its window for a layout, ToolkitWindow.cpp    *)
(* gathers the requests and merges them before a frame (onPreRender), and  *)
(* layout/Positioner.cpp lays a subtree out again.  Boxes are abstract: an *)
(* element has one that is not empty (placed) or not, and is stale while a *)
(* layout that has to look at it has not run since it changed.             *)
(***************************************************************************)
EXTENDS FiniteSets

CONSTANTS
  TreeElements,  \* bound: the elements of the application
  Root,          \* the root element of the window
  Slots,         \* bound: which element the application adds to which, <<parent, child>>
  Followed,      \* bound: the elements whose changes ChangeIsLaidOut follows
  AutoSized      \* the elements sized by their children: positioningDependsOnChild()

None == "none"

ASSUME TreeAssumption ==
  /\ IsFiniteSet(TreeElements) /\ Root \in TreeElements /\ None \notin TreeElements
  /\ AutoSized \subseteq TreeElements \ {Root}
  /\ Slots \subseteq TreeElements \X TreeElements /\ Followed \subseteq TreeElements \ {Root}

VARIABLES
  parent,           \* impl->parent; children is its inverse, an element is added when it has none
  windowed,         \* impl->window is set
  placed,           \* positionerData->baseBox is not empty
  stale,            \* changed since the layout it depends on
  needsReposition,  \* m_needsReposition
  needed,           \* what the pass of onPreRender that is under way has left of it
  frame             \* a frame is scheduled
treeVars == <<parent, windowed, placed, stale, needsReposition, needed, frame>>

Children(p, e) == {c \in TreeElements : p[c] = e}

Ancestors(p, e) ==
  LET Above[x \in TreeElements] == IF p[x] = None THEN {} ELSE {p[x]} \cup Above[p[x]]
  IN  Above[e]

Within(x, top) == x = top \/ top \in Ancestors(parent, x)

\* breadthfirst: the element and all that is below it
Subtree(e) == {x \in TreeElements : Within(x, e)}

\* scheduleReposition of every element of a set
RequestAll(set) == needsReposition' = needsReposition \cup set /\ frame' = (frame \/ set # {})

----------------------------------------------------------------------------
\* Element.cpp

\* addChild: the subtree joins the window of the parent, each element asks for itself
AddChild(p, c) ==
  LET branch == Subtree(c) IN
  /\ c # Root /\ parent[c] = None /\ ~Within(p, c)
  /\ parent' = [parent EXCEPT ![c] = p]
  /\ windowed' = IF p \in windowed THEN windowed \cup branch ELSE windowed \ branch
  /\ stale' = stale \cup branch
  /\ RequestAll(IF p \in windowed THEN branch ELSE {})
  /\ UNCHANGED <<placed, needed>>

RemoveChild(p, c) ==
  /\ parent[c] = p
  /\ parent' = [parent EXCEPT ![c] = None]
  /\ windowed' = windowed \ Subtree(c)
  /\ stale' = stale \cup {p}
  /\ RequestAll({p} \cap windowed)
  /\ UNCHANGED <<placed, needed>>

\* clearChildren asks for nothing: the size of what was cleared stays as it was
ClearChildren(p) ==
  /\ Children(parent, p) # {}
  /\ parent' = [c \in TreeElements |-> IF parent[c] = p THEN None ELSE parent[c]]
  /\ windowed' = windowed \ (Subtree(p) \ {p})
  /\ UNCHANGED <<placed, stale, needsReposition, needed, frame>>

\* A rebuild, a new position mode, flag or offset
ChangeElement(e) ==
  /\ stale' = stale \cup {e}
  /\ RequestAll({e} \cap windowed)
  /\ UNCHANGED <<parent, windowed, placed, needed>>

----------------------------------------------------------------------------
\* Positioner.cpp

\* The top of the chain of elements sized by their children that e is in
Expand(e) ==
  LET Top[x \in TreeElements] == IF parent[x] \in AutoSized THEN Top[parent[x]] ELSE x
  IN  Top[e]

\* What a request of e lays out: the subtree of its parent
LaidFor(e) == IF parent[e] = None THEN e ELSE parent[e]

\* The lowest layout that takes account of all that e changed
Laid(e) == LaidFor(Expand(e))

\* position: the subtree is laid out in the box its top has; a layout may leave out
\* children that do not fit, with all that is below them
Position(top) ==
  LET branch == Subtree(top) \ {top} IN
  \E out \in SUBSET Children(parent, top) :
     /\ placed' = IF top \in placed \cup {Root}
                  THEN placed \cup {top} \cup (branch \ UNION {Subtree(o) : o \in out})
                  ELSE placed
     /\ stale' = {e \in stale : ~Within(Laid(e), top)}

\* repositionNeeded of an element that the frame took from the list
RepositionNeeded(e) ==
  IF parent[e] = None
  THEN Position(e) /\ UNCHANGED <<needsReposition, frame>>
  ELSE IF parent[e] \notin placed
  THEN RequestAll(IF e \in windowed THEN {Root} ELSE {}) /\ UNCHANGED <<placed, stale>>
  ELSE Position(parent[e]) /\ UNCHANGED <<needsReposition, frame>>

\* forceReposition: the same, now; without a parent's box the element takes the size
\* it prefers, which is no layout its parent knows of
ForceReposition(e) ==
  /\ IF parent[e] = None \/ parent[e] \in placed THEN RepositionNeeded(e)
     ELSE placed' = placed \cup {e} /\ UNCHANGED <<stale, needsReposition, frame>>
  /\ UNCHANGED <<parent, windowed, needed>>

----------------------------------------------------------------------------
\* onPreRender

\* Seeded fault: step 1 is left out.
ExpandedNot == needsReposition

\* Step 1: an element whose parent is sized by it stands for that parent
Expanded == {Expand(e) : e \in needsReposition}

\* Seeded fault: what is above another element of the list goes.
Innermost == {e \in Expanded : \A x \in Expanded \ {e} : ~Within(x, e)}

\* Step 2: what is below another element of the list goes
Outermost == {e \in Expanded : Ancestors(parent, e) \cap Expanded = {}}

\* Step 3: of the children of one parent, the first stays
OnePerParent(set) ==
  {s \in SUBSET set : \A e \in set :
     IF parent[e] = None THEN e \in s ELSE Cardinality({x \in s : parent[x] = parent[e]}) = 1}

\* Step 4 takes the list, so that what a callback asks for meanwhile is kept
PreRender ==
  /\ frame /\ needed = {}
  /\ frame' = FALSE
  /\ needed' \in OnePerParent(Outermost)
  /\ needsReposition' = {}
  /\ UNCHANGED <<parent, windowed, placed, stale>>

RepositionNext ==
  \E e \in needed : RepositionNeeded(e) /\ needed' = needed \ {e} /\ UNCHANGED <<parent, windowed>>

----------------------------------------------------------------------------
TreeInit ==
  /\ parent = [e \in TreeElements |-> None]
  /\ windowed = {Root} /\ placed = {} /\ stale = {Root}
  /\ needsReposition = {Root} /\ needed = {} /\ frame = TRUE

\* The application, between frames or in a callback of the layout
Application ==
  \/ \E slot \in Slots : AddChild(slot[1], slot[2]) \/ RemoveChild(slot[1], slot[2])
  \/ \E e \in TreeElements : ClearChildren(e) \/ ChangeElement(e) \/ ForceReposition(e)

TreeNext == Application \/ PreRender \/ RepositionNext

\* A frame that is wanted is drawn, and its pass ends
TreeFairness == WF_treeVars(PreRender) /\ WF_treeVars(RepositionNext)

TreeSpec == TreeInit /\ [][TreeNext]_treeVars /\ TreeFairness

----------------------------------------------------------------------------
\* A change is covered: an entry of the list, or of the pass that is under way, will
\* lay out the lowest subtree that takes account of it, or ask for all to be laid out.
ChangeIsCovered ==
  \A e \in stale \cap windowed :
     \/ \E p \in needsReposition : Within(Laid(e), Laid(p))
     \/ \E n \in needed \cap windowed :
          Within(Laid(e), LaidFor(n))

\* What the application changes is laid out in the end, however requests merge.
ChangeIsLaidOut ==
  \A e \in Followed : (e \in stale \cap windowed) ~> (e \notin stale \cap windowed)
=============================================================================
