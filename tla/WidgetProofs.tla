---------------------------- MODULE WidgetProofs ----------------------------
(***************************************************************************)
(* Proofs about the tree of a window and the controls in it: the changes   *)
(* of the tree and the layouts that cover them (ElementTree), the text and *)
(* selection of a text box (TextEditing), the children of a row            *)
(* (LinearLayout), the offset of a scroll area (ScrollArea) and the        *)
(* controls whose picture follows a value (Choices).  Each part states its *)
(* inductive invariant, proves that the initial states satisfy it and each *)
(* action keeps it, and draws the theorems.                                *)
(***************************************************************************)
EXTENDS TextEditing, LinearLayout, ScrollArea, Choices, ElementTree,
        FiniteSetTheorems, WellFoundedInduction, TLAPS

----------------------------------------------------------------------------
\* ElementTree: the changes of the tree and the layouts that cover them

Parents == [TreeElements -> TreeElements \cup {None}]

\* The least set that holds the parent of e and the parents of its own elements
ClosedAbove(p, e, s) == p[e] \in s \cup {None} /\ \A x \in s : p[x] \in s \cup {None}
AllAbove(p, e) == {a \in TreeElements : \A s \in SUBSET TreeElements : ClosedAbove(p, e, s) => a \in s}
Acyclic(p) == \A e \in TreeElements : e \notin AllAbove(p, e)

LEMMA AllAboveIsLeast ==
  ASSUME NEW p \in Parents, NEW e \in TreeElements
  PROVE  /\ ClosedAbove(p, e, AllAbove(p, e))
         /\ \A s \in SUBSET TreeElements : ClosedAbove(p, e, s) => AllAbove(p, e) \subseteq s
BY DEF Parents, ClosedAbove, AllAbove

LEMMA AboveIsTransitive ==
  ASSUME NEW p \in Parents, NEW e \in TreeElements, NEW x \in AllAbove(p, e)
  PROVE  AllAbove(p, x) \subseteq AllAbove(p, e)
<1>1. x \in TreeElements /\ AllAbove(p, e) \subseteq TreeElements
  BY DEF AllAbove
<1>2. ClosedAbove(p, x, AllAbove(p, e))
  BY AllAboveIsLeast DEF ClosedAbove
<1> QED BY <1>1, <1>2, AllAboveIsLeast

LEMMA AboveUnfolds ==
  ASSUME NEW p \in Parents, NEW e \in TreeElements
  PROVE  AllAbove(p, e) = IF p[e] = None THEN {} ELSE {p[e]} \cup AllAbove(p, p[e])
<1>1. CASE p[e] = None
  <2>1. ClosedAbove(p, e, {})
    BY <1>1 DEF ClosedAbove
  <2> QED BY <1>1, <2>1, AllAboveIsLeast
<1>2. CASE p[e] # None
  <2>1. p[e] \in TreeElements /\ p[e] \in AllAbove(p, e)
    BY <1>2, AllAboveIsLeast DEF ClosedAbove, Parents
  <2>2. ClosedAbove(p, e, {p[e]} \cup AllAbove(p, p[e]))
    BY <2>1, AllAboveIsLeast DEF ClosedAbove
  <2>3. AllAbove(p, p[e]) \subseteq TreeElements
    BY DEF AllAbove
  <2>4. AllAbove(p, e) \subseteq {p[e]} \cup AllAbove(p, p[e])
    BY <2>1, <2>2, <2>3, AllAboveIsLeast
  <2>5. AllAbove(p, p[e]) \subseteq AllAbove(p, e)
    BY <2>1, AboveIsTransitive
  <2> QED BY <1>2, <2>1, <2>4, <2>5
<1> QED BY <1>1, <1>2

\* Some element of a set has none of the set above it.
LEMMA SomeElementIsUppermost ==
  ASSUME NEW p \in Parents, Acyclic(p), NEW set \in SUBSET TreeElements, set # {}
  PROVE  \E x \in set : AllAbove(p, x) \cap set = {}
<1> DEFINE aboves == {AllAbove(p, x) : x \in set}
           R == StrictSubsetOrdering(TreeElements)
           F == FiniteSubsetsOf(TreeElements)
<1>1. aboves \subseteq F /\ aboves # {}
  <2>1. \A x \in set : AllAbove(p, x) \subseteq TreeElements
    BY DEF AllAbove
  <2>2. \A x \in set : IsFiniteSet(AllAbove(p, x))
    BY <2>1, TreeAssumption, FS_Subset
  <2> QED BY <2>1, <2>2 DEF FiniteSubsetsOf
<1>2. \E s \in aboves : \A t \in aboves : ~(<<t, s>> \in R)
  <2> HIDE DEF aboves, R, F
  <2>1. IsWellFoundedOn(R, F)
    BY TreeAssumption, FS_StrictSubsetOrderingWellFounded DEF R, F
  <2> QED BY <1>1, <2>1, WFMin
<1>3. PICK x \in set : \A y \in set : ~(<<AllAbove(p, y), AllAbove(p, x)>> \in R)
  BY <1>2
<1>4. ASSUME NEW y \in AllAbove(p, x) \cap set PROVE FALSE
  <2>1. AllAbove(p, y) \subseteq AllAbove(p, x) /\ y \notin AllAbove(p, y)
    BY <1>4, AboveIsTransitive DEF Acyclic
  <2>2. AllAbove(p, y) \subseteq TreeElements /\ AllAbove(p, x) \subseteq TreeElements
    BY DEF AllAbove
  <2>3. <<AllAbove(p, y), AllAbove(p, x)>> \in R
    BY <1>4, <2>1, <2>2 DEF StrictSubsetOrdering
  <2> QED BY <1>3, <1>4, <2>3
<1> QED BY <1>4

LEMMA AncestorsAreAllAbove ==
  ASSUME NEW p \in Parents, Acyclic(p), NEW e \in TreeElements
  PROVE  Ancestors(p, e) = AllAbove(p, e)
<1> DEFINE Steps(f) == [x \in TreeElements |-> IF p[x] = None THEN {} ELSE {p[x]} \cup f[p[x]]]
           least == [x \in TreeElements |-> AllAbove(p, x)]
           above == CHOOSE f : f = Steps(f)
<1>1. Ancestors(p, e) = above[e]
  BY DEF Ancestors
<1>2. least = Steps(least)
  BY AboveUnfolds DEF Parents
<1>3. above = Steps(above)
  BY <1>2
<1> HIDE DEF above
<1>4. \A x \in TreeElements : above[x] = IF p[x] = None THEN {} ELSE {p[x]} \cup above[p[x]]
  BY <1>3
<1> DEFINE wrong == {x \in TreeElements : above[x] # AllAbove(p, x)}
<1>5. wrong = {}
  <2>1. SUFFICES ASSUME wrong # {} PROVE FALSE
    OBVIOUS
  <2>2. PICK x \in wrong : AllAbove(p, x) \cap wrong = {}
    BY <2>1, SomeElementIsUppermost
  <2>3. CASE p[x] = None
    BY <1>4, <2>2, <2>3, AboveUnfolds
  <2>4. CASE p[x] # None
    <3>1. p[x] \in AllAbove(p, x) /\ p[x] \in TreeElements
      BY <2>2, <2>4, AllAboveIsLeast DEF ClosedAbove, Parents
    <3>2. above[p[x]] = AllAbove(p, p[x])
      BY <2>2, <3>1
    <3>3. x \in TreeElements /\ above[x] = {p[x]} \cup above[p[x]]
      BY <1>4, <2>2, <2>4
    <3> QED BY <2>2, <2>4, <3>2, <3>3, AboveUnfolds
  <2> QED BY <2>3, <2>4
<1> QED BY <1>1, <1>5

\* The element and all that is above it
Up(p, e) == {e} \cup AllAbove(p, e)

\* Expand in a tree p
TopOf(p, e) ==
  LET Top[x \in TreeElements] == IF p[x] \in AutoSized THEN Top[p[x]] ELSE x
  IN  Top[e]

AutoParent(p) == [x \in TreeElements |-> IF p[x] \in AutoSized THEN p[x] ELSE None]
Tops(q, e) == {x \in Up(q, e) : q[x] = None}
OneOf(set) == CHOOSE x \in set : TRUE

LEMMA AutoParentFacts ==
  ASSUME NEW p \in Parents, Acyclic(p)
  PROVE  /\ AutoParent(p) \in Parents /\ Acyclic(AutoParent(p))
         /\ \A e \in TreeElements : AllAbove(AutoParent(p), e) \subseteq AllAbove(p, e)
<1> DEFINE q == AutoParent(p)
<1>1. q \in Parents
  BY DEF Parents, AutoParent
<1>2. ASSUME NEW e \in TreeElements PROVE AllAbove(q, e) \subseteq AllAbove(p, e)
  <2>1. AllAbove(p, e) \in SUBSET TreeElements
    BY DEF AllAbove
  <2>2. ClosedAbove(q, e, AllAbove(p, e))
    BY <2>1, AllAboveIsLeast DEF ClosedAbove, AutoParent
  <2> QED BY <1>1, <2>1, <2>2, AllAboveIsLeast
<1> QED BY <1>1, <1>2 DEF Acyclic

LEMMA TopsUnfold ==
  ASSUME NEW q \in Parents, NEW e \in TreeElements
  PROVE  Tops(q, e) = IF q[e] = None THEN {e} ELSE Tops(q, q[e])
<1>1. CASE q[e] = None
  BY <1>1, AboveUnfolds DEF Tops, Up
<1>2. CASE q[e] # None
  <2>1. AllAbove(q, e) = {q[e]} \cup AllAbove(q, q[e])
    BY <1>2, AboveUnfolds
  <2> QED BY <1>2, <2>1 DEF Tops, Up
<1> QED BY <1>1, <1>2

\* The loop of onPreRender stops, at the element of the chain that has no such parent.
LEMMA TopOfIsTop ==
  ASSUME NEW p \in Parents, Acyclic(p), NEW e \in TreeElements
  PROVE  TopOf(p, e) = OneOf(Tops(AutoParent(p), e)) /\ TopOf(p, e) \in Up(p, e)
<1> DEFINE q == AutoParent(p)
           Steps(f) == [x \in TreeElements |-> IF p[x] \in AutoSized THEN f[p[x]] ELSE x]
           any == [x \in TreeElements |-> OneOf(Tops(q, x))]
           top == CHOOSE f : f = Steps(f)
<1>1. q \in Parents /\ Acyclic(q) /\ \A x \in TreeElements : AllAbove(q, x) \subseteq AllAbove(p, x)
  BY AutoParentFacts
<1>2. \A x \in TreeElements : /\ p[x] \in AutoSized => p[x] # None /\ q[x] = p[x]
                              /\ p[x] \notin AutoSized => q[x] = None
  <2>1. None \notin AutoSized
    BY TreeAssumption
  <2>2. \A x \in TreeElements : q[x] = IF p[x] \in AutoSized THEN p[x] ELSE None
    BY DEF AutoParent
  <2> QED BY <2>1, <2>2
<1> HIDE DEF q
<1>3. ASSUME NEW x \in TreeElements
      PROVE  any[x] = IF p[x] \in AutoSized THEN any[p[x]] ELSE x
  <2>1. CASE p[x] \in AutoSized
    <3>1. Tops(q, x) = Tops(q, p[x]) /\ p[x] \in TreeElements
      BY <1>1, <1>2, <2>1, TopsUnfold DEF Parents
    <3> QED BY <2>1, <3>1
  <2>2. CASE p[x] \notin AutoSized
    <3>1. Tops(q, x) = {x}
      BY <1>1, <1>2, <2>2, TopsUnfold
    <3>2. OneOf({x}) = x
      BY DEF OneOf
    <3> QED BY <2>2, <3>1, <3>2
  <2> QED BY <2>1, <2>2
<1>4. any = Steps(any)
  BY <1>3
<1>5. top = Steps(top)
  BY <1>4
<1>6. TopOf(p, e) = top[e]
  BY DEF TopOf
<1> HIDE DEF top
<1>7. \A x \in TreeElements : top[x] = IF p[x] \in AutoSized THEN top[p[x]] ELSE x
  BY <1>5
<1> DEFINE wrong == {x \in TreeElements : top[x] # any[x]}
<1>8. wrong = {}
  <2>1. SUFFICES ASSUME wrong # {} PROVE FALSE
    OBVIOUS
  <2>2. PICK x \in wrong : AllAbove(q, x) \cap wrong = {}
    BY <1>1, <2>1, SomeElementIsUppermost
  <2>3. CASE p[x] \notin AutoSized
    BY <1>3, <1>7, <2>2, <2>3
  <2>4. CASE p[x] \in AutoSized
    <3>1. p[x] \in AllAbove(q, x) /\ p[x] \in TreeElements
      BY <1>1, <1>2, <2>2, <2>4, AllAboveIsLeast DEF ClosedAbove, Parents
    <3>2. top[p[x]] = any[p[x]]
      BY <2>2, <3>1
    <3> QED BY <1>3, <1>7, <2>2, <2>4, <3>2
  <2> QED BY <2>3, <2>4
<1>9. \E x \in Up(q, e) : q[x] = None
  <2>1. Up(q, e) \in SUBSET TreeElements /\ Up(q, e) # {}
    BY DEF Up, AllAbove
  <2>2. PICK x \in Up(q, e) : AllAbove(q, x) \cap Up(q, e) = {}
    BY <1>1, <2>1, SomeElementIsUppermost
  <2>3. x \in TreeElements /\ (q[x] # None => q[x] \in AllAbove(q, x))
    BY <1>1, <2>1, <2>2, AllAboveIsLeast DEF ClosedAbove
  <2>4. q[x] # None => q[x] \in Up(q, e)
    BY <1>1, <2>2, AllAboveIsLeast DEF ClosedAbove, Up
  <2> QED BY <2>2, <2>3, <2>4
<1>10. OneOf(Tops(q, e)) \in Tops(q, e)
  BY <1>9 DEF OneOf, Tops
<1>11. TopOf(p, e) = OneOf(Tops(q, e))
  BY <1>6, <1>8
<1>12. Tops(q, e) \subseteq Up(p, e)
  BY <1>1 DEF Tops, Up
<1> QED BY <1>10, <1>11, <1>12 DEF q

\* What is above an element does not depend on the rest of the tree.
LEMMA AboveIsLocal ==
  ASSUME NEW p \in Parents, NEW q \in Parents, NEW e \in TreeElements,
         \A x \in Up(p, e) : q[x] = p[x]
  PROVE  AllAbove(q, e) = AllAbove(p, e)
<1>1. AllAbove(p, e) \in SUBSET TreeElements /\ AllAbove(q, e) \in SUBSET TreeElements
  BY DEF AllAbove
<1>2. ClosedAbove(q, e, AllAbove(p, e))
  BY AllAboveIsLeast DEF ClosedAbove, Up
<1>3. AllAbove(q, e) \subseteq AllAbove(p, e)
  BY <1>1, <1>2, AllAboveIsLeast
<1>4. ClosedAbove(p, e, AllAbove(q, e))
  BY <1>3, AllAboveIsLeast DEF ClosedAbove, Up
<1> QED BY <1>1, <1>3, <1>4, AllAboveIsLeast

\* The lowest layout that takes account of e, in a tree p
LaidBy(p, e) == IF p[TopOf(p, e)] = None THEN TopOf(p, e) ELSE p[TopOf(p, e)]

LEMMA LayoutIsLocal ==
  ASSUME NEW p \in Parents, NEW q \in Parents, Acyclic(p), Acyclic(q), NEW e \in TreeElements,
         \A x \in Up(p, e) : q[x] = p[x]
  PROVE  LaidBy(q, e) = LaidBy(p, e)
<1>1. AutoParent(p) \in Parents /\ AutoParent(q) \in Parents
      /\ AllAbove(AutoParent(p), e) \subseteq AllAbove(p, e)
  BY AutoParentFacts
<1>2. Up(p, e) \subseteq TreeElements
  BY DEF Up, AllAbove
<1>3. \A x \in Up(AutoParent(p), e) : AutoParent(q)[x] = AutoParent(p)[x]
  BY <1>1, <1>2 DEF Up, AutoParent
<1>4. AllAbove(AutoParent(q), e) = AllAbove(AutoParent(p), e)
  BY <1>1, <1>3, AboveIsLocal
<1>5. Tops(AutoParent(q), e) = Tops(AutoParent(p), e)
  BY <1>3, <1>4 DEF Tops, Up
<1>6. TopOf(q, e) = TopOf(p, e) /\ TopOf(p, e) \in Up(p, e)
  BY <1>5, TopOfIsTop
<1> QED BY <1>6 DEF LaidBy

LEMMA LaidByIsAbove ==
  ASSUME NEW p \in Parents, Acyclic(p), NEW e \in TreeElements
  PROVE  /\ TopOf(p, e) \in Up(p, e) /\ LaidBy(p, e) \in Up(p, TopOf(p, e))
         /\ LaidBy(p, e) \in Up(p, e) /\ LaidBy(p, e) \in TreeElements
         /\ p[e] = None => LaidBy(p, e) = e
<1>1. TopOf(p, e) \in Up(p, e)
  BY TopOfIsTop
<1>2. Up(p, e) \subseteq TreeElements
  BY DEF Up, AllAbove
<1>3. LaidBy(p, e) \in Up(p, TopOf(p, e))
  BY <1>1, <1>2, AllAboveIsLeast DEF LaidBy, ClosedAbove, Up
<1>4. Up(p, TopOf(p, e)) \subseteq Up(p, e)
  BY <1>1, AboveIsTransitive DEF Up
<1>5. p[e] = None => Up(p, e) = {e}
  BY AboveUnfolds DEF Up
<1> QED BY <1>1, <1>2, <1>3, <1>4, <1>5

\* What a request of e lays out, in a tree p
LayoutOf(p, e) == IF p[e] = None THEN e ELSE p[e]

\* A request of the list w still has, or of the pass, lays out what takes account of e
Covered(p, w, list, pass, e) ==
  \/ \E r \in list \cap w : r = e \/ r \in Up(p, LaidBy(p, e))
  \/ \E n \in pass \cap w : LayoutOf(p, n) \in Up(p, LaidBy(p, e))

TreeTypes ==
  /\ parent \in Parents /\ Acyclic(parent) /\ parent[Root] = None
  /\ windowed \subseteq TreeElements /\ stale \subseteq TreeElements
  /\ needsReposition \subseteq TreeElements /\ needed \subseteq TreeElements

\* The elements with a window are those below its root
WindowIsTree ==
  Root \in windowed /\ \A e \in TreeElements \ {Root} : e \in windowed <=> parent[e] \in windowed

RootIsCovered == Root \in stale => Root \in needsReposition \cup needed

RestIsCovered ==
  \A e \in (stale \cap windowed) \ {Root} : Covered(parent, windowed, needsReposition, needed, e)

TreeIInv == TreeTypes /\ WindowIsTree /\ RootIsCovered /\ RestIsCovered

\* The operators of the model, for the tree as it is
LEMMA TreeReads ==
  ASSUME TreeTypes
  PROVE  /\ \A x \in TreeElements : Ancestors(parent, x) = AllAbove(parent, x)
         /\ \A x \in TreeElements : \A top : Within(x, top) <=> top \in Up(parent, x)
         /\ \A x : Expand(x) = TopOf(parent, x) /\ LaidFor(x) = LayoutOf(parent, x)
         /\ \A x : Laid(x) = LaidBy(parent, x)
         /\ \A top : Subtree(top) = {x \in TreeElements : top \in Up(parent, x)}
<1>1. \A x \in TreeElements : Ancestors(parent, x) = AllAbove(parent, x)
  BY AncestorsAreAllAbove DEF TreeTypes
<1>2. \A x \in TreeElements : \A top : Within(x, top) <=> top \in Up(parent, x)
  BY <1>1 DEF Within, Up
<1>3. \A x : Expand(x) = TopOf(parent, x) /\ LaidFor(x) = LayoutOf(parent, x)
  BY DEF Expand, TopOf, LaidFor, LayoutOf
<1>4. \A x : Laid(x) = LaidBy(parent, x)
  BY <1>3 DEF Laid, LaidBy, LayoutOf
<1>5. \A top : Subtree(top) = {x \in TreeElements : top \in Up(parent, x)}
  BY <1>2 DEF Subtree
<1> QED BY <1>1, <1>2, <1>3, <1>4, <1>5

LEMMA UpFacts ==
  ASSUME NEW p \in Parents, Acyclic(p), NEW e \in TreeElements
  PROVE  /\ Up(p, e) \subseteq TreeElements /\ e \in Up(p, e)
         /\ \A x \in Up(p, e) : Up(p, x) \subseteq Up(p, e) /\ AllAbove(p, x) \subseteq AllAbove(p, e)
         /\ \A x \in Up(p, e) : p[x] # None => p[x] \in AllAbove(p, e)
         /\ Up(p, e) = IF p[e] = None THEN {e} ELSE {e} \cup Up(p, p[e])
         /\ \A x \in Up(p, e) : e \in Up(p, x) => x = e
<1>1. Up(p, e) \subseteq TreeElements /\ e \in Up(p, e) /\ AllAbove(p, e) \subseteq TreeElements
  BY DEF Up, AllAbove
<1>2. \A x \in Up(p, e) : Up(p, x) \subseteq Up(p, e) /\ AllAbove(p, x) \subseteq AllAbove(p, e)
  BY AboveIsTransitive DEF Up
<1>3. \A x \in Up(p, e) : p[x] # None => p[x] \in AllAbove(p, e)
  BY AllAboveIsLeast DEF ClosedAbove, Up
<1>4. Up(p, e) = IF p[e] = None THEN {e} ELSE {e} \cup Up(p, p[e])
  BY AboveUnfolds DEF Up
<1>5. ASSUME NEW x \in AllAbove(p, e), e \in Up(p, x) PROVE x = e
  <2>1. x \in TreeElements /\ e \notin AllAbove(p, e)
    BY <1>1 DEF Acyclic
  <2> QED BY <1>2, <1>5, <2>1 DEF Up
<1> QED BY <1>1, <1>2, <1>3, <1>4, <1>5 DEF Up

\* All that is above an element with a window has it, up to the root.
LEMMA WindowedAbove ==
  ASSUME TreeTypes, WindowIsTree, NEW e \in windowed
  PROVE  Up(parent, e) \subseteq windowed /\ Root \in Up(parent, e)
<1> DEFINE out == {x \in windowed : ~(Up(parent, x) \subseteq windowed /\ Root \in Up(parent, x))}
<1>1. SUFFICES ASSUME out # {} PROVE FALSE
  OBVIOUS
<1>2. PICK x \in out : AllAbove(parent, x) \cap out = {}
  BY <1>1, SomeElementIsUppermost DEF TreeTypes
<1>3. x \in TreeElements /\ x \in windowed
  BY <1>2 DEF TreeTypes
<1>4. CASE x = Root
  BY <1>2, <1>3, <1>4, UpFacts DEF TreeTypes
<1>5. CASE x # Root
  <2>1. parent[x] \in windowed /\ parent[x] # None
    BY <1>3, <1>5, TreeAssumption DEF TreeTypes, WindowIsTree
  <2>2. parent[x] \in AllAbove(parent, x) /\ Up(parent, x) = {x} \cup Up(parent, parent[x])
    BY <1>3, <2>1, UpFacts DEF TreeTypes
  <2>3. parent[x] \notin out
    BY <1>2, <2>2
  <2> QED BY <1>2, <1>3, <2>1, <2>2, <2>3
<1> QED BY <1>4, <1>5

\* Two trees that agree on what is above e lay it out alike.
LEMMA UpIsLocal ==
  ASSUME NEW p \in Parents, NEW q \in Parents, Acyclic(p), Acyclic(q), NEW e \in TreeElements,
         \A x \in Up(p, e) : q[x] = p[x]
  PROVE  Up(q, e) = Up(p, e) /\ LaidBy(q, e) = LaidBy(p, e)
         /\ Up(q, LaidBy(p, e)) = Up(p, LaidBy(p, e))
<1>1. LaidBy(q, e) = LaidBy(p, e) /\ AllAbove(q, e) = AllAbove(p, e)
  BY LayoutIsLocal, AboveIsLocal
<1>2. LaidBy(p, e) \in TreeElements /\ Up(p, LaidBy(p, e)) \subseteq Up(p, e)
  BY LaidByIsAbove, UpFacts
<1>3. AllAbove(q, LaidBy(p, e)) = AllAbove(p, LaidBy(p, e))
  BY <1>2, AboveIsLocal
<1> QED BY <1>1, <1>3 DEF Up

\* A layout of no tree above an element but its own is that of the root.
LEMMA LaidByItself ==
  ASSUME NEW p \in Parents, Acyclic(p), NEW e \in TreeElements, e \in Up(p, LaidBy(p, e))
  PROVE  p[e] = None
<1>1. /\ TopOf(p, e) \in Up(p, e) /\ LaidBy(p, e) \in Up(p, TopOf(p, e))
      /\ LaidBy(p, e) \in Up(p, e) /\ TopOf(p, e) \in TreeElements
  BY LaidByIsAbove, UpFacts
<1>2. LaidBy(p, e) = e
  BY <1>1, UpFacts
<1>3. TopOf(p, e) = e
  BY <1>1, <1>2, UpFacts
<1>4. p[e] # None => p[e] # e
  BY UpFacts, AllAboveIsLeast DEF Acyclic, ClosedAbove
<1> QED BY <1>2, <1>3, <1>4 DEF LaidBy

\* More requests in the same tree cover what was covered.
LEMMA RequestsCover ==
  ASSUME TreeIInv,
         parent' = parent, windowed' = windowed, stale' \subseteq TreeElements,
         needsReposition' \subseteq TreeElements, needsReposition \subseteq needsReposition',
         needed' \subseteq TreeElements, needed \subseteq needed',
         \A e \in stale' \ stale : e \in windowed => e \in needsReposition'
  PROVE  TreeIInv'
<1>1. TreeTypes' /\ WindowIsTree'
  BY DEF TreeIInv, TreeTypes, WindowIsTree
<1>2. RootIsCovered'
  BY DEF TreeIInv, RootIsCovered, WindowIsTree
<1>3. ASSUME NEW e \in (stale' \cap windowed') \ {Root}
      PROVE  Covered(parent', windowed', needsReposition', needed', e)
  <2>1. CASE e \in stale
    BY <1>3, <2>1 DEF TreeIInv, RestIsCovered, Covered
  <2>2. CASE e \notin stale
    BY <1>3, <2>2 DEF Covered
  <2> QED BY <2>1, <2>2
<1> QED BY <1>1, <1>2, <1>3 DEF TreeIInv, RestIsCovered

LEMMA ChangeElementCovers ==
  ASSUME TreeIInv, NEW e \in TreeElements, ChangeElement(e)
  PROVE  TreeIInv'
<1>1. /\ stale' = stale \cup {e} /\ needsReposition' = needsReposition \cup ({e} \cap windowed)
      /\ parent' = parent /\ windowed' = windowed /\ needed' = needed
  BY DEF ChangeElement, RequestAll
<1>2. stale' \subseteq TreeElements /\ needsReposition' \subseteq TreeElements
      /\ needed' \subseteq TreeElements
  BY <1>1 DEF TreeIInv, TreeTypes
<1> QED BY <1>1, <1>2, RequestsCover

\* What is above an element, when another gets a parent
LEMMA AddedAbove ==
  ASSUME NEW p \in Parents, Acyclic(p), NEW c \in TreeElements, NEW over \in TreeElements,
         p[c] = None, c \notin Up(p, over)
  PROVE  LET q == [p EXCEPT ![c] = over]
         IN  q \in Parents /\ Acyclic(q)
<1> DEFINE q == [p EXCEPT ![c] = over]
<1>1. q \in Parents /\ \A x \in TreeElements : q[x] = IF x = c THEN over ELSE p[x]
  BY DEF Parents
<1> HIDE DEF q
<1>2. ASSUME NEW e \in TreeElements, e \in AllAbove(q, e) PROVE FALSE
  <2>1. CASE c \notin Up(p, e)
    <3>1. \A x \in Up(p, e) : q[x] = p[x]
      BY <1>1, <2>1, UpFacts
    <3> QED BY <1>1, <1>2, <3>1, AboveIsLocal DEF Acyclic
  <2>2. CASE c \in Up(p, e)
    <3> DEFINE s == AllAbove(p, e) \cup Up(p, over)
    <3>1. s \in SUBSET TreeElements
      BY DEF Up, AllAbove
    <3>2. over \in s
      BY DEF Up
    <3>3. \A x \in s : p[x] \in s \cup {None}
      BY <3>1, AllAboveIsLeast DEF ClosedAbove, Up
    <3>4. p[e] \in s \cup {None}
      BY AllAboveIsLeast DEF ClosedAbove
    <3> HIDE DEF s
    <3>5. ClosedAbove(q, e, s)
      BY <1>1, <3>1, <3>2, <3>3, <3>4 DEF ClosedAbove
    <3>6. e \in s
      BY <1>1, <1>2, <3>1, <3>5, AllAboveIsLeast
    <3>7. e \in Up(p, over)
      BY <3>6 DEF s, Acyclic
    <3> QED BY <2>2, <3>7, UpFacts
  <2> QED BY <2>1, <2>2
<1> QED BY <1>1, <1>2 DEF Acyclic, q

\* What is above an element, when some lose their parent
LEMMA CutAbove ==
  ASSUME NEW p \in Parents, Acyclic(p), NEW q \in Parents,
         \A x \in TreeElements : q[x] \in {p[x], None}
  PROVE  Acyclic(q)
<1>1. ASSUME NEW e \in TreeElements PROVE AllAbove(q, e) \subseteq AllAbove(p, e)
  <2>1. AllAbove(p, e) \in SUBSET TreeElements
    BY DEF AllAbove
  <2>2. ClosedAbove(q, e, AllAbove(p, e))
    BY <2>1, AllAboveIsLeast DEF ClosedAbove
  <2> QED BY <2>1, <2>2, AllAboveIsLeast
<1> QED BY <1>1 DEF Acyclic

LEMMA AddChildCovers ==
  ASSUME TreeIInv, NEW p \in TreeElements, NEW c \in TreeElements, AddChild(p, c)
  PROVE  TreeIInv'
<1> DEFINE branch == {x \in TreeElements : c \in Up(parent, x)}
<1>1. Subtree(c) = branch /\ c \notin Up(parent, p) /\ c # Root /\ parent[c] = None
  BY TreeReads DEF TreeIInv, AddChild
<1>2. parent' = [parent EXCEPT ![c] = p] /\ stale' = stale \cup branch /\ needed' = needed
  BY <1>1 DEF AddChild
<1>3. /\ windowed' = (IF p \in windowed THEN windowed \cup branch ELSE windowed \ branch)
      /\ needsReposition' = needsReposition \cup (IF p \in windowed THEN branch ELSE {})
  BY <1>1 DEF AddChild, RequestAll
<1> HIDE DEF branch
<1>4. parent' \in Parents /\ Acyclic(parent')
  BY <1>1, <1>2, AddedAbove DEF TreeIInv, TreeTypes
<1>5. \A x \in TreeElements : parent'[x] = IF x = c THEN p ELSE parent[x]
  BY <1>2 DEF TreeIInv, TreeTypes, Parents
<1>6. c \notin windowed
  BY <1>1, TreeAssumption DEF TreeIInv, TreeTypes, WindowIsTree
<1>7. windowed \cap branch = {}
  BY <1>6, WindowedAbove DEF TreeIInv, branch
<1>8. \A x \in TreeElements \ {c} : x \in branch <=> parent[x] \in branch
  <2>1. ASSUME NEW x \in TreeElements \ {c} PROVE x \in branch <=> parent[x] \in branch
    <3>1. CASE parent[x] = None
      BY <2>1, <3>1, UpFacts, TreeAssumption DEF TreeIInv, TreeTypes, branch
    <3>2. CASE parent[x] # None
      <4>1. parent[x] \in TreeElements
        BY <3>2 DEF TreeIInv, TreeTypes, Parents
      <4> QED BY <2>1, <3>2, <4>1, UpFacts DEF TreeIInv, TreeTypes, branch
    <3> QED BY <3>1, <3>2
  <2> QED BY <2>1
<1>9. c \in branch /\ p \notin branch /\ branch \subseteq TreeElements /\ Root \notin branch
  <2>1. Up(parent, Root) = {Root}
    BY UpFacts, TreeAssumption DEF TreeIInv, TreeTypes
  <2> QED BY <1>1, <2>1, UpFacts DEF TreeIInv, TreeTypes, branch
<1>10. TreeTypes'
  <2>1. parent'[Root] = None
    BY <1>1, <1>5, TreeAssumption DEF TreeIInv, TreeTypes
  <2> QED BY <1>2, <1>3, <1>4, <1>9, <2>1 DEF TreeIInv, TreeTypes
<1>11. WindowIsTree'
  <2>1. Root \in windowed'
    BY <1>3, <1>9 DEF TreeIInv, WindowIsTree
  <2>2. ASSUME NEW e \in TreeElements \ {Root} PROVE e \in windowed' <=> parent'[e] \in windowed'
    <3>1. CASE e = c
      BY <1>3, <1>5, <1>6, <1>9, <3>1
    <3>2. CASE e # c
      <4>1. parent'[e] = parent[e] /\ (e \in windowed <=> parent[e] \in windowed)
        BY <1>5, <2>2, <3>2 DEF TreeIInv, WindowIsTree
      <4> QED BY <1>3, <1>8, <2>2, <3>2, <4>1
    <3> QED BY <3>1, <3>2
  <2> QED BY <2>1, <2>2 DEF WindowIsTree
<1>12. RootIsCovered'
  BY <1>2, <1>3, <1>9 DEF TreeIInv, RootIsCovered
<1>13. windowed \subseteq windowed' /\ needsReposition \subseteq needsReposition'
  BY <1>3, <1>7
<1>14. ASSUME NEW e \in (stale' \cap windowed') \ {Root}
       PROVE  Covered(parent', windowed', needsReposition', needed', e)
  <2>1. CASE e \in branch
    <3>1. p \in windowed
      BY <1>3, <1>14, <2>1
    <3> QED BY <1>3, <1>14, <2>1, <3>1 DEF Covered
  <2>2. CASE e \notin branch
    <3>1. e \in (stale \cap windowed) \ {Root} /\ e \in TreeElements
      BY <1>2, <1>3, <1>14, <2>2 DEF TreeIInv, TreeTypes
    <3>2. Up(parent, e) \subseteq windowed /\ Up(parent, e) \subseteq TreeElements
      BY <3>1, WindowedAbove DEF TreeIInv, TreeTypes
    <3>3. \A x \in Up(parent, e) : parent'[x] = parent[x]
      BY <1>5, <1>6, <3>2
    <3>4. LaidBy(parent', e) = LaidBy(parent, e)
          /\ Up(parent', LaidBy(parent, e)) = Up(parent, LaidBy(parent, e))
      BY <1>4, <3>1, <3>3, UpIsLocal DEF TreeIInv, TreeTypes
    <3>5. \A n \in needed \cap windowed : LayoutOf(parent', n) = LayoutOf(parent, n)
      BY <1>5, <1>6 DEF TreeIInv, TreeTypes, LayoutOf
    <3>6. Covered(parent, windowed, needsReposition, needed, e)
      BY <3>1 DEF TreeIInv, RestIsCovered
    <3> QED BY <1>2, <1>13, <3>4, <3>5, <3>6 DEF Covered
  <2> QED BY <2>1, <2>2
<1> QED BY <1>10, <1>11, <1>12, <1>14 DEF TreeIInv, RestIsCovered

LEMMA RemoveChildCovers ==
  ASSUME TreeIInv, NEW p \in TreeElements, NEW c \in TreeElements, RemoveChild(p, c)
  PROVE  TreeIInv'
<1> DEFINE branch == {x \in TreeElements : c \in Up(parent, x)}
<1>1. Subtree(c) = branch
  BY TreeReads DEF TreeIInv
<1>2. parent' = [parent EXCEPT ![c] = None] /\ stale' = stale \cup {p} /\ needed' = needed
      /\ parent[c] = p /\ p # None /\ c # Root
  BY TreeAssumption DEF RemoveChild, TreeIInv, TreeTypes
<1>3. windowed' = windowed \ branch /\ needsReposition' = needsReposition \cup ({p} \cap windowed)
  BY <1>1 DEF RemoveChild, RequestAll
<1> HIDE DEF branch
<1>4. \A x \in TreeElements : parent'[x] = IF x = c THEN None ELSE parent[x]
  BY <1>2 DEF TreeIInv, TreeTypes, Parents
<1>5. parent' \in Parents /\ Acyclic(parent')
  <2>1. parent' \in Parents
    BY <1>2 DEF TreeIInv, TreeTypes, Parents
  <2> QED BY <1>4, <2>1, CutAbove DEF TreeIInv, TreeTypes
<1>6. \A x \in TreeElements \ {c} : x \in branch <=> parent[x] \in branch
  <2>1. ASSUME NEW x \in TreeElements \ {c} PROVE x \in branch <=> parent[x] \in branch
    <3>1. CASE parent[x] = None
      BY <2>1, <3>1, UpFacts, TreeAssumption DEF TreeIInv, TreeTypes, branch
    <3>2. CASE parent[x] # None
      <4>1. parent[x] \in TreeElements
        BY <3>2 DEF TreeIInv, TreeTypes, Parents
      <4> QED BY <2>1, <3>2, <4>1, UpFacts DEF TreeIInv, TreeTypes, branch
    <3> QED BY <3>1, <3>2
  <2> QED BY <2>1
<1>7. c \in branch /\ p \notin branch /\ branch \subseteq TreeElements /\ Root \notin branch
  <2>1. Up(parent, Root) = {Root}
    BY UpFacts, TreeAssumption DEF TreeIInv, TreeTypes
  <2>2. c \notin Up(parent, p)
    <3>1. p \in AllAbove(parent, c)
      BY <1>2, AllAboveIsLeast DEF ClosedAbove, TreeIInv, TreeTypes
    <3> QED BY <3>1, AboveIsTransitive DEF Up, Acyclic, TreeIInv, TreeTypes
  <2> QED BY <1>2, <2>1, <2>2, UpFacts DEF TreeIInv, TreeTypes, branch
<1>8. TreeTypes'
  <2>1. parent'[Root] = None
    BY <1>2, <1>4, TreeAssumption DEF TreeIInv, TreeTypes
  <2> QED BY <1>2, <1>3, <1>5, <2>1 DEF TreeIInv, TreeTypes
<1>9. WindowIsTree'
  <2>1. Root \in windowed'
    BY <1>3, <1>7 DEF TreeIInv, WindowIsTree
  <2>2. ASSUME NEW e \in TreeElements \ {Root} PROVE e \in windowed' <=> parent'[e] \in windowed'
    <3>1. CASE e = c
      <4>1. None \notin windowed
        BY TreeAssumption DEF TreeIInv, TreeTypes
      <4> QED BY <1>3, <1>4, <1>7, <3>1, <4>1
    <3>2. CASE e # c
      <4>1. parent'[e] = parent[e] /\ (e \in windowed <=> parent[e] \in windowed)
        BY <1>4, <2>2, <3>2 DEF TreeIInv, WindowIsTree
      <4> QED BY <1>3, <1>6, <2>2, <3>2, <4>1
    <3> QED BY <3>1, <3>2
  <2> QED BY <2>1, <2>2 DEF WindowIsTree
<1>10. RootIsCovered'
  BY <1>2, <1>3 DEF TreeIInv, RootIsCovered, WindowIsTree
<1>11. ASSUME NEW e \in (stale' \cap windowed') \ {Root}
       PROVE  Covered(parent', windowed', needsReposition', needed', e)
  <2>1. e \in windowed /\ e \in TreeElements /\ e \notin branch
    BY <1>3, <1>11 DEF TreeIInv, TreeTypes
  <2>2. CASE e = p
    BY <1>3, <1>11, <2>1, <2>2 DEF Covered
  <2>3. CASE e # p
    <3>1. e \in (stale \cap windowed) \ {Root}
      BY <1>2, <1>11, <2>1, <2>3
    <3>2. /\ Up(parent, e) \subseteq windowed /\ Up(parent, e) \subseteq TreeElements
          /\ c \notin Up(parent, e)
      BY <2>1, WindowedAbove DEF TreeIInv, TreeTypes, branch
    <3>3. \A x \in Up(parent, e) : parent'[x] = parent[x]
      BY <1>4, <3>2
    <3> DEFINE planned == LaidBy(parent, e)
    <3>4. LaidBy(parent', e) = planned /\ Up(parent', planned) = Up(parent, planned)
      BY <1>5, <2>1, <3>3, UpIsLocal DEF TreeIInv, TreeTypes
    <3>5. Up(parent, planned) \subseteq Up(parent, e)
      BY <2>1, LaidByIsAbove, UpFacts DEF TreeIInv, TreeTypes
    <3>6. \A x \in Up(parent, e) : x \notin branch
      BY <2>1, <3>2, UpFacts DEF TreeIInv, TreeTypes, branch
    <3> HIDE DEF planned
    <3>7. Covered(parent, windowed, needsReposition, needed, e)
      BY <3>1 DEF TreeIInv, RestIsCovered
    <3>8. CASE \E r \in needsReposition \cap windowed : r = e \/ r \in Up(parent, planned)
      <4>1. PICK r \in needsReposition \cap windowed : r = e \/ r \in Up(parent, planned)
        BY <3>8
      <4>2. r \in windowed' /\ r \in needsReposition'
        BY <1>3, <2>1, <3>5, <3>6, <4>1
      <4> QED BY <3>4, <4>1, <4>2 DEF Covered
    <3>9. CASE \E n \in needed \cap windowed : LayoutOf(parent, n) \in Up(parent, planned)
      <4>1. PICK n \in needed \cap windowed : LayoutOf(parent, n) \in Up(parent, planned)
        BY <3>9
      <4>2. CASE n = c
        <5>1. LayoutOf(parent, n) = p
          BY <1>2, <4>2 DEF LayoutOf
        <5>2. p \in needsReposition' /\ p \in windowed'
          BY <1>3, <1>7, <3>2, <3>5, <4>1, <5>1
        <5> QED BY <3>4, <4>1, <5>1, <5>2 DEF Covered
      <4>3. CASE n # c
        <5>1. n \in TreeElements /\ LayoutOf(parent', n) = LayoutOf(parent, n)
          BY <1>4, <4>1, <4>3 DEF LayoutOf, TreeIInv, TreeTypes
        <5>2. n \notin branch
          BY <1>6, <3>5, <3>6, <4>1, <4>3, <5>1 DEF LayoutOf
        <5> QED BY <1>2, <1>3, <3>4, <4>1, <5>1, <5>2 DEF Covered
      <4> QED BY <4>2, <4>3
    <3> QED BY <3>7, <3>8, <3>9 DEF Covered, planned
  <2> QED BY <2>2, <2>3
<1> QED BY <1>8, <1>9, <1>10, <1>11 DEF TreeIInv, RestIsCovered

LEMMA ClearChildrenCovers ==
  ASSUME TreeIInv, NEW p \in TreeElements, ClearChildren(p)
  PROVE  TreeIInv'
<1> DEFINE below == {x \in TreeElements : p \in AllAbove(parent, x)}
<1>1. Subtree(p) \ {p} = below
  BY TreeReads DEF TreeIInv, TreeTypes, Up, Acyclic
<1>2. /\ parent' = [c \in TreeElements |-> IF parent[c] = p THEN None ELSE parent[c]]
      /\ windowed' = windowed \ below
      /\ stale' = stale /\ needsReposition' = needsReposition /\ needed' = needed
  BY <1>1 DEF ClearChildren
<1> HIDE DEF below
<1>3. \A x \in TreeElements : parent'[x] = IF parent[x] = p THEN None ELSE parent[x]
  BY <1>2
<1>4. parent' \in Parents /\ Acyclic(parent')
  <2>1. parent' \in Parents
    BY <1>2 DEF TreeIInv, TreeTypes, Parents
  <2> QED BY <1>3, <2>1, CutAbove DEF TreeIInv, TreeTypes
<1>5. \A x \in TreeElements : x \in below <=> parent[x] = p \/ parent[x] \in below
  <2>1. ASSUME NEW x \in TreeElements PROVE x \in below <=> parent[x] = p \/ parent[x] \in below
    <3>1. CASE parent[x] = None
      BY <2>1, <3>1, AboveUnfolds, TreeAssumption DEF TreeIInv, TreeTypes, below
    <3>2. CASE parent[x] # None
      <4>1. parent[x] \in TreeElements
        BY <3>2 DEF TreeIInv, TreeTypes, Parents
      <4> QED BY <2>1, <3>2, <4>1, AboveUnfolds DEF TreeIInv, TreeTypes, below
    <3> QED BY <3>1, <3>2
  <2> QED BY <2>1
<1>6. Root \notin below /\ p \notin below /\ None \notin windowed
  <2>1. AllAbove(parent, Root) = {}
    BY AboveUnfolds, TreeAssumption DEF TreeIInv, TreeTypes
  <2> QED BY <2>1, TreeAssumption DEF TreeIInv, TreeTypes, below, Acyclic
<1>7. TreeTypes'
  <2>1. parent'[Root] = None
    BY <1>3, TreeAssumption DEF TreeIInv, TreeTypes
  <2> QED BY <1>2, <1>4, <2>1 DEF TreeIInv, TreeTypes
<1>8. WindowIsTree'
  <2>1. Root \in windowed'
    BY <1>2, <1>6 DEF TreeIInv, WindowIsTree
  <2>2. ASSUME NEW e \in TreeElements \ {Root} PROVE e \in windowed' <=> parent'[e] \in windowed'
    <3>1. e \in windowed <=> parent[e] \in windowed
      BY <2>2 DEF TreeIInv, WindowIsTree
    <3>2. CASE parent[e] = p
      BY <1>2, <1>3, <1>5, <1>6, <2>2, <3>2
    <3>3. CASE parent[e] # p
      BY <1>2, <1>3, <1>5, <2>2, <3>1, <3>3
    <3> QED BY <3>2, <3>3
  <2> QED BY <2>1, <2>2 DEF WindowIsTree
<1>9. RootIsCovered'
  BY <1>2 DEF TreeIInv, RootIsCovered
<1>10. ASSUME NEW e \in (stale' \cap windowed') \ {Root}
       PROVE  Covered(parent', windowed', needsReposition', needed', e)
  <2>1. e \in windowed /\ e \in TreeElements /\ p \notin AllAbove(parent, e)
        /\ e \in (stale \cap windowed) \ {Root}
    BY <1>2, <1>10 DEF TreeIInv, TreeTypes, below
  <2>2. \A x \in Up(parent, e) : parent[x] # p /\ x \notin below /\ x \in TreeElements
    <3>1. p # None
      BY TreeAssumption
    <3> QED BY <2>1, <3>1, UpFacts DEF TreeIInv, TreeTypes, below
  <2>3. \A x \in Up(parent, e) : parent'[x] = parent[x]
    BY <1>3, <2>2
  <2> DEFINE planned == LaidBy(parent, e)
  <2>4. LaidBy(parent', e) = planned /\ Up(parent', planned) = Up(parent, planned)
    BY <1>4, <2>1, <2>3, UpIsLocal DEF TreeIInv, TreeTypes
  <2>5. Up(parent, planned) \subseteq Up(parent, e)
    BY <2>1, LaidByIsAbove, UpFacts DEF TreeIInv, TreeTypes
  <2>6. p \notin Up(parent, planned)
    <3>1. SUFFICES ASSUME p \in Up(parent, planned) PROVE FALSE
      OBVIOUS
    <3>2. p = e
      BY <2>1, <2>5, <3>1 DEF Up
    <3>3. parent[e] = None
      BY <2>1, <3>1, <3>2, LaidByItself DEF TreeIInv, TreeTypes
    <3> QED BY <1>6, <2>1, <3>3 DEF TreeIInv, WindowIsTree
  <2> HIDE DEF planned
  <2>7. Covered(parent, windowed, needsReposition, needed, e)
    BY <2>1 DEF TreeIInv, RestIsCovered
  <2>8. CASE \E r \in needsReposition \cap windowed : r = e \/ r \in Up(parent, planned)
    <3>1. PICK r \in needsReposition \cap windowed : r = e \/ r \in Up(parent, planned)
      BY <2>8
    <3>2. r \in windowed' /\ r \in needsReposition'
      BY <1>2, <1>10, <2>2, <2>5, <3>1
    <3> QED BY <2>4, <3>1, <3>2 DEF Covered
  <2>9. CASE \E n \in needed \cap windowed : LayoutOf(parent, n) \in Up(parent, planned)
    <3>1. PICK n \in needed \cap windowed : LayoutOf(parent, n) \in Up(parent, planned)
      BY <2>9
    <3>2. n \in TreeElements
      BY <3>1 DEF TreeIInv, TreeTypes
    <3>3. parent[n] # p /\ parent[n] \notin below
      <4>1. CASE parent[n] = None
        BY <4>1, TreeAssumption DEF below
      <4>2. CASE parent[n] # None
        BY <2>2, <2>5, <2>6, <3>1, <4>2 DEF LayoutOf
      <4> QED BY <4>1, <4>2
    <3>4. LayoutOf(parent', n) = LayoutOf(parent, n) /\ n \in windowed' /\ n \in needed'
      BY <1>2, <1>3, <1>5, <3>1, <3>2, <3>3 DEF LayoutOf
    <3> QED BY <2>4, <3>1, <3>4 DEF Covered
  <2> QED BY <2>7, <2>8, <2>9 DEF Covered, planned
<1> QED BY <1>7, <1>8, <1>9, <1>10 DEF TreeIInv, RestIsCovered

\* A layout takes from the stale elements those it takes account of.
LEMMA PositionFreshens ==
  ASSUME TreeIInv, NEW top \in TreeElements, Position(top)
  PROVE  stale' = {e \in stale : top \notin Up(parent, LaidBy(parent, e))}
<1>1. stale' = {e \in stale : ~Within(Laid(e), top)}
  BY DEF Position
<1>2. \A e \in stale : LaidBy(parent, e) \in TreeElements
  BY LaidByIsAbove DEF TreeIInv, TreeTypes
<1> QED BY <1>1, <1>2, TreeReads DEF TreeIInv

LEMMA RepositionNeededFreshens ==
  ASSUME TreeIInv, NEW n \in TreeElements, RepositionNeeded(n)
  PROVE  /\ stale' \subseteq stale /\ needsReposition \subseteq needsReposition'
         /\ needsReposition' \subseteq needsReposition \cup {Root}
         /\ n \in windowed /\ Root \notin needsReposition' =>
              \A e \in stale' : LayoutOf(parent, n) \notin Up(parent, LaidBy(parent, e))
<1>1. CASE parent[n] = None
  <2>1. Position(n) /\ needsReposition' = needsReposition
    BY <1>1 DEF RepositionNeeded
  <2> QED BY <1>1, <2>1, PositionFreshens DEF LayoutOf
<1>2. CASE parent[n] # None /\ parent[n] \notin placed
  BY <1>2 DEF RepositionNeeded, RequestAll
<1>3. CASE parent[n] # None /\ parent[n] \in placed
  <2>1. Position(parent[n]) /\ needsReposition' = needsReposition
    BY <1>3 DEF RepositionNeeded
  <2>2. parent[n] \in TreeElements
    BY <1>3 DEF TreeIInv, TreeTypes, Parents
  <2> QED BY <1>3, <2>1, <2>2, PositionFreshens DEF LayoutOf
<1> QED BY <1>1, <1>2, <1>3

LEMMA ForceRepositionCovers ==
  ASSUME TreeIInv, NEW e \in TreeElements, ForceReposition(e)
  PROVE  TreeIInv'
<1>1. parent' = parent /\ windowed' = windowed /\ needed' = needed
  BY DEF ForceReposition
<1>2. stale' \subseteq stale /\ needsReposition \subseteq needsReposition'
      /\ needsReposition' \subseteq TreeElements
  <2>1. CASE parent[e] = None \/ parent[e] \in placed
    <3>1. RepositionNeeded(e)
      BY <2>1 DEF ForceReposition
    <3> QED BY <3>1, RepositionNeededFreshens, TreeAssumption DEF TreeIInv, TreeTypes
  <2>2. CASE ~(parent[e] = None \/ parent[e] \in placed)
    BY <2>2 DEF ForceReposition, TreeIInv, TreeTypes
  <2> QED BY <2>1, <2>2
<1>3. stale' \subseteq TreeElements /\ needed' \subseteq TreeElements
  BY <1>1, <1>2 DEF TreeIInv, TreeTypes
<1> QED BY <1>1, <1>2, <1>3, RequestsCover

LEMMA RepositionCovers ==
  ASSUME TreeIInv, RepositionNext
  PROVE  TreeIInv'
<1>1. PICK n \in needed : RepositionNeeded(n) /\ needed' = needed \ {n}
                          /\ UNCHANGED <<parent, windowed>>
  BY DEF RepositionNext
<1>2. n \in TreeElements /\ Root \in TreeElements /\ Root \in windowed
      /\ parent' = parent /\ windowed' = windowed
  BY <1>1, TreeAssumption DEF TreeIInv, TreeTypes, WindowIsTree
<1>3. /\ stale' \subseteq stale /\ needsReposition \subseteq needsReposition'
      /\ needsReposition' \subseteq needsReposition \cup {Root}
      /\ n \in windowed /\ Root \notin needsReposition' =>
           \A e \in stale' : LayoutOf(parent, n) \notin Up(parent, LaidBy(parent, e))
  BY <1>1, <1>2, RepositionNeededFreshens
<1>4. TreeTypes' /\ WindowIsTree'
  BY <1>1, <1>2, <1>3 DEF TreeIInv, TreeTypes, WindowIsTree
<1>5. RootIsCovered'
  <2>1. SUFFICES ASSUME Root \in stale', Root \notin needsReposition' PROVE Root \in needed'
    BY DEF RootIsCovered
  <2>2. Root \in needed
    BY <1>3, <2>1 DEF TreeIInv, RootIsCovered
  <2>3. LaidBy(parent, Root) = Root /\ LayoutOf(parent, Root) = Root
    BY <1>2, LaidByIsAbove DEF TreeIInv, TreeTypes, LayoutOf
  <2>4. n # Root
    BY <1>2, <1>3, <2>1, <2>3 DEF Up
  <2> QED BY <1>1, <2>2, <2>4
<1>6. ASSUME NEW e \in (stale' \cap windowed') \ {Root}
      PROVE  Covered(parent', windowed', needsReposition', needed', e)
  <2>1. Covered(parent, windowed, needsReposition, needed, e) /\ e \in windowed /\ e \in TreeElements
    BY <1>2, <1>3, <1>6 DEF TreeIInv, RestIsCovered, TreeTypes
  <2>2. Root \in Up(parent, LaidBy(parent, e))
    <3>1. LaidBy(parent, e) \in windowed
      BY <2>1, LaidByIsAbove, WindowedAbove DEF TreeIInv, TreeTypes
    <3> QED BY <3>1, WindowedAbove DEF TreeIInv
  <2>3. CASE Root \in needsReposition'
    BY <1>2, <2>2, <2>3 DEF Covered
  <2>4. CASE Root \notin needsReposition'
    BY <1>1, <1>2, <1>3, <1>6, <2>1, <2>4 DEF Covered
  <2> QED BY <2>3, <2>4
<1> QED BY <1>4, <1>5, <1>6 DEF TreeIInv, RestIsCovered

\* The pass keeps, of the children of one parent, one.
LEMMA OneIsKept ==
  ASSUME NEW set, NEW kept \in OnePerParent(set), NEW x \in set, parent[x] # None
  PROVE  \E y \in kept : parent[y] = parent[x]
<1>1. Cardinality({y \in kept : parent[y] = parent[x]}) = 1
  BY DEF OnePerParent
<1> QED BY <1>1, FS_EmptySet

LEMMA PreRenderCovers ==
  ASSUME TreeIInv, PreRender
  PROVE  TreeIInv'
<1>1. /\ needed = {} /\ needsReposition' = {} /\ needed' \in OnePerParent(Outermost)
      /\ parent' = parent /\ windowed' = windowed /\ stale' = stale
  BY DEF PreRender
<1>2. /\ Expanded = {TopOf(parent, e) : e \in needsReposition} /\ Expanded \subseteq TreeElements
      /\ Outermost = {e \in Expanded : AllAbove(parent, e) \cap Expanded = {}}
  <2>1. Expanded = {TopOf(parent, e) : e \in needsReposition}
    BY TreeReads DEF Expanded, TreeIInv
  <2>2. Expanded \subseteq TreeElements
    BY <2>1, LaidByIsAbove, UpFacts DEF TreeIInv, TreeTypes
  <2> QED BY <2>1, <2>2, TreeReads DEF Outermost, TreeIInv
<1>3. ASSUME NEW t \in Expanded, t \in windowed
      PROVE  \E x \in Up(parent, t) : \E y \in needed' \cap windowed :
               LayoutOf(parent, y) = LayoutOf(parent, x)
  <2> DEFINE ups == Up(parent, t) \cap Expanded
  <2>1. t \in TreeElements /\ ups \in SUBSET TreeElements /\ ups # {}
    BY <1>2, <1>3 DEF Up
  <2>2. PICK x \in ups : AllAbove(parent, x) \cap ups = {}
    BY <2>1, SomeElementIsUppermost DEF TreeIInv, TreeTypes
  <2>3. x \in Outermost /\ x \in TreeElements
    BY <1>2, <2>1, <2>2, UpFacts DEF TreeIInv, TreeTypes, Up
  <2>4. x \in windowed
    BY <1>3, <2>2, WindowedAbove DEF TreeIInv
  <2>5. CASE parent[x] = None
    BY <1>1, <2>2, <2>3, <2>4, <2>5 DEF OnePerParent
  <2>6. CASE parent[x] # None
    <3>1. PICK y \in needed' : parent[y] = parent[x]
      BY <1>1, <2>3, <2>6, OneIsKept
    <3>2. y \in TreeElements
      BY <1>1, <1>2, <3>1 DEF OnePerParent, Outermost
    <3>3. y # Root /\ x # Root
      BY <2>6, <3>1 DEF TreeIInv, TreeTypes
    <3>4. y \in windowed
      BY <2>3, <2>4, <3>1, <3>2, <3>3 DEF TreeIInv, WindowIsTree
    <3> QED BY <2>2, <2>6, <3>1, <3>4 DEF LayoutOf
  <2> QED BY <2>5, <2>6
<1>4. needed' \subseteq TreeElements
  BY <1>1, <1>2 DEF OnePerParent, Outermost
<1>5. TreeTypes' /\ WindowIsTree'
  BY <1>1, <1>4 DEF TreeIInv, TreeTypes, WindowIsTree
<1>6. RootIsCovered'
  <2>1. SUFFICES ASSUME Root \in needsReposition PROVE Root \in needed'
    BY <1>1 DEF TreeIInv, RootIsCovered
  <2>2. Up(parent, Root) = {Root} /\ AllAbove(parent, Root) = {}
    BY UpFacts, AboveUnfolds, TreeAssumption DEF TreeIInv, TreeTypes
  <2>3. TopOf(parent, Root) = Root
    BY <2>2, LaidByIsAbove, TreeAssumption DEF TreeIInv, TreeTypes
  <2>4. Root \in Outermost
    BY <1>2, <2>1, <2>2, <2>3
  <2> QED BY <1>1, <2>4 DEF OnePerParent, TreeIInv, TreeTypes
<1>7. ASSUME NEW e \in (stale' \cap windowed') \ {Root}
      PROVE  Covered(parent', windowed', needsReposition', needed', e)
  <2>1. e \in windowed /\ e \in TreeElements
    BY <1>1, <1>7 DEF TreeIInv, TreeTypes
  <2> DEFINE planned == LaidBy(parent, e)
  <2>2. PICK r \in needsReposition \cap windowed : r = e \/ r \in Up(parent, planned)
    BY <1>1, <1>7 DEF TreeIInv, RestIsCovered, Covered
  <2> DEFINE t == TopOf(parent, r)
  <2>3. r \in TreeElements /\ t \in Expanded /\ t \in Up(parent, r) /\ t \in TreeElements
    BY <1>2, <2>2, LaidByIsAbove DEF TreeIInv, TreeTypes
  <2>4. t \in windowed
    BY <2>2, <2>3, WindowedAbove DEF TreeIInv
  <2>5. PICK x \in Up(parent, t) : \E y \in needed' \cap windowed :
               LayoutOf(parent, y) = LayoutOf(parent, x)
    BY <1>3, <2>3, <2>4
  <2>6. planned \in TreeElements /\ x \in TreeElements
    BY <2>1, <2>3, <2>5, LaidByIsAbove, UpFacts DEF TreeIInv, TreeTypes
  <2>7. LayoutOf(parent, x) \in Up(parent, planned)
    <3>1. CASE r = e
      <4>1. planned = LayoutOf(parent, t)
        BY <3>1 DEF LaidBy, LayoutOf
      <4>2. CASE x = t
        BY <2>6, <4>1, <4>2 DEF Up
      <4>3. CASE x # t
        <5>1. x \in AllAbove(parent, t)
          BY <2>5, <4>3 DEF Up
        <5>2. parent[t] # None /\ planned = parent[t] /\ x \in Up(parent, planned)
          BY <2>3, <4>1, <5>1, AboveUnfolds DEF TreeIInv, TreeTypes, LayoutOf, Up
        <5> QED BY <2>6, <5>2, UpFacts DEF TreeIInv, TreeTypes, LayoutOf, Up
      <4> QED BY <4>2, <4>3
    <3>2. CASE r \in Up(parent, planned)
      <4>1. x \in Up(parent, planned)
        BY <2>3, <2>5, <2>6, <3>2, UpFacts DEF TreeIInv, TreeTypes
      <4> QED BY <2>6, <4>1, UpFacts DEF TreeIInv, TreeTypes, LayoutOf, Up
    <3> QED BY <2>2, <3>1, <3>2
  <2> QED BY <1>1, <2>5, <2>7 DEF Covered
<1> QED BY <1>5, <1>6, <1>7 DEF TreeIInv, RestIsCovered

LEMMA TreeIInvCoversChanges ==
  ASSUME TreeIInv
  PROVE  ChangeIsCovered
<1>1. ASSUME NEW e \in stale \cap windowed
      PROVE  \/ \E p \in needsReposition : Within(Laid(e), Laid(p))
             \/ \E n \in needed \cap windowed : Within(Laid(e), LaidFor(n))
  <2>1. e \in TreeElements /\ LaidBy(parent, e) \in TreeElements
    BY <1>1, LaidByIsAbove DEF TreeIInv, TreeTypes
  <2>2. SUFFICES \/ \E p \in needsReposition : LaidBy(parent, p) \in Up(parent, LaidBy(parent, e))
                 \/ \E n \in needed \cap windowed : LayoutOf(parent, n) \in Up(parent, LaidBy(parent, e))
    BY <2>1, TreeReads DEF TreeIInv
  <2>3. CASE e = Root
    <3>1. Root \in needsReposition \/ Root \in needed \cap windowed
      BY <1>1, <2>3 DEF TreeIInv, RootIsCovered
    <3>2. LaidBy(parent, Root) = Root /\ LayoutOf(parent, Root) = Root
      BY LaidByIsAbove, TreeAssumption DEF TreeIInv, TreeTypes, LayoutOf
    <3> QED BY <2>3, <3>1, <3>2 DEF Up
  <2>4. CASE e # Root
    <3>1. Covered(parent, windowed, needsReposition, needed, e)
      BY <1>1, <2>4 DEF TreeIInv, RestIsCovered
    <3>2. ASSUME NEW r \in needsReposition \cap windowed,
                 r = e \/ r \in Up(parent, LaidBy(parent, e))
          PROVE  LaidBy(parent, r) \in Up(parent, LaidBy(parent, e))
      BY <2>1, <3>2, LaidByIsAbove, UpFacts DEF TreeIInv, TreeTypes
    <3> QED BY <3>1, <3>2 DEF Covered
  <2> QED BY <2>3, <2>4
<1> QED BY <1>1 DEF ChangeIsCovered

LEMMA TreeStarts == ASSUME TreeInit PROVE TreeIInv
<1>1. parent \in Parents /\ \A e \in TreeElements : parent[e] = None
  BY DEF TreeInit, Parents
<1>2. Acyclic(parent)
  BY <1>1, AboveUnfolds DEF Acyclic
<1>3. Root \in TreeElements /\ None \notin TreeElements
  BY TreeAssumption
<1>4. TreeTypes
  BY <1>1, <1>2, <1>3 DEF TreeInit, TreeTypes
<1> QED BY <1>1, <1>3, <1>4 DEF TreeInit, TreeIInv, WindowIsTree, RootIsCovered, RestIsCovered

LEMMA TreeStep == ASSUME TreeIInv, [TreeNext]_treeVars PROVE TreeIInv'
<1>1. ASSUME NEW slot \in Slots, AddChild(slot[1], slot[2]) \/ RemoveChild(slot[1], slot[2])
      PROVE  TreeIInv'
  <2>1. slot[1] \in TreeElements /\ slot[2] \in TreeElements
    BY TreeAssumption
  <2> QED BY <1>1, <2>1, AddChildCovers, RemoveChildCovers
<1>2. ASSUME NEW e \in TreeElements, ClearChildren(e) \/ ChangeElement(e) \/ ForceReposition(e)
      PROVE  TreeIInv'
  BY <1>2, ClearChildrenCovers, ChangeElementCovers, ForceRepositionCovers
<1>3. CASE PreRender
  BY <1>3, PreRenderCovers
<1>4. CASE RepositionNext
  BY <1>4, RepositionCovers
<1>5. CASE UNCHANGED treeVars
  BY <1>5 DEF treeVars, TreeIInv, TreeTypes, WindowIsTree, RootIsCovered, RestIsCovered
<1> QED BY <1>1, <1>2, <1>3, <1>4, <1>5 DEF TreeNext, Application

\* The merging of reposition requests in IToolkitWindow.cpp drops none that matters: in
\* every tree of finitely many elements, an element of the window that changed and was
\* not planned out since lies in a part of the window that a waiting request, or the
\* pass under way, will lay out.
THEOREM ChangesAreCovered == TreeSpec => []ChangeIsCovered
<1>1. TreeSpec => []TreeIInv
  BY TreeStarts, TreeStep, PTL DEF TreeSpec
<1> QED BY <1>1, TreeIInvCoversChanges, PTL

----------------------------------------------------------------------------
\* TextEditing: the text, the cursor and the selection of a text box

ByteSet == {"a", Space, Newline, Lead, Cont}
Texts == Seq(ByteSet)

\* An offset of a string, and a set of them, has a last and a first element.
LEMMA LastExists ==
  ASSUME NEW m \in Int, NEW n \in Int, NEW set \in SUBSET (m .. n), set # {}
  PROVE  \E x \in set : \A y \in set : y <= x
<1> DEFINE later == [x \in set |-> {y \in set : x < y}]
           laters == {later[x] : x \in set}
           R == StrictSubsetOrdering(set)
           F == FiniteSubsetsOf(set)
<1>1. IsFiniteSet(set)
  BY FS_Interval, FS_Subset
<1>2. laters \subseteq F /\ laters # {}
  <2>1. \A x \in set : IsFiniteSet(later[x])
    BY <1>1, FS_Subset
  <2> QED BY <2>1 DEF FiniteSubsetsOf
<1>3. \E s \in laters : \A t \in laters : ~(<<t, s>> \in R)
  <2> HIDE DEF laters, R, F
  <2>1. IsWellFoundedOn(R, F)
    BY <1>1, FS_StrictSubsetOrderingWellFounded DEF R, F
  <2> QED BY <1>2, <2>1, WFMin
<1>4. PICK x \in set : \A y \in set : ~(<<later[y], later[x]>> \in R)
  BY <1>3
<1>5. ASSUME NEW y \in set, x < y PROVE FALSE
  <2>1. x \in Int /\ y \in Int /\ \A z \in set : z \in Int
    OBVIOUS
  <2>2. later[y] = {z \in set : y < z} /\ later[x] = {z \in set : x < z}
    OBVIOUS
  <2>5. y \in later[x] /\ y \notin later[y]
    BY <1>5, <2>1, <2>2
  <2>6. \A z \in later[y] : z \in later[x]
    BY <1>5, <2>1, <2>2
  <2>3. later[y] \subseteq set /\ later[x] \subseteq set
    OBVIOUS
  <2> HIDE DEF later
  <2>4. <<later[y], later[x]>> \in R
    BY <2>5, <2>6, <2>3 DEF StrictSubsetOrdering
  <2> QED BY <1>4, <1>5, <2>4
<1>6. \A y \in set : x \in Int /\ y \in Int /\ ~(x < y)
  BY <1>5
<1> QED BY <1>6

LEMMA FirstExists ==
  ASSUME NEW m \in Int, NEW n \in Int, NEW set \in SUBSET (m .. n), set # {}
  PROVE  \E x \in set : \A y \in set : x <= y
<1> DEFINE mirror == {0 - x : x \in set}
<1>1. mirror \in SUBSET (0 - n .. 0 - m) /\ mirror # {}
  OBVIOUS
<1>2. PICK z \in mirror : \A y \in mirror : y <= z
  <2>1. 0 - n \in Int /\ 0 - m \in Int
    OBVIOUS
  <2> HIDE DEF mirror
  <2> QED BY <1>1, <2>1, LastExists
<1>3. PICK x \in set : z = 0 - x
  BY <1>2
<1>4. ASSUME NEW y \in set PROVE x <= y
  <2>1. 0 - y <= z /\ y \in Int /\ x \in Int
    BY <1>2
  <2> QED BY <1>3, <2>1
<1> QED BY <1>4

LEMMA MaxIsLast ==
  ASSUME NEW m \in Int, NEW n \in Int, NEW set \in SUBSET (m .. n), set # {}
  PROVE  Max(set) \in set /\ \A y \in set : y <= Max(set)
<1>1. \E x \in set : \A y \in set : x >= y
  <2>1. \A x, y \in set : x >= y <=> y <= x
    OBVIOUS
  <2> QED BY <2>1, LastExists
<1>2. Max(set) \in set /\ \A y \in set : Max(set) >= y
  BY <1>1 DEF Max
<1> QED BY <1>2

\* The last and the first of the places where a string has a byte
Places(s, b) == {p \in 0 .. Len(s) - 1 : s[p + 1] = b}

\* What the find functions of std::string find
LEMMA FindLastFinds ==
  ASSUME NEW s \in Texts, NEW pos
  PROVE  /\ FindLast(s, pos, IsSpace) \in {NPos} \cup Places(s, Space)
         /\ FindLast(s, pos, IsNewline) \in {NPos} \cup Places(s, Newline)
<1> DEFINE n == Len(s) - 1
<1>1. n \in Int /\ Len(s) - 1 = n
  BY DEF Texts
<1> HIDE DEF n
<1>2. ASSUME NEW b, NEW hits, hits = {p \in 0 .. Len(s) - 1 : p <= pos /\ s[p + 1] = b}
      PROVE  hits # {} => (CHOOSE p \in hits : \A q \in hits : q <= p) \in Places(s, b)
  <2>1. SUFFICES ASSUME hits # {} PROVE (CHOOSE p \in hits : \A q \in hits : q <= p) \in hits
    BY <1>2 DEF Places
  <2>2. hits \in SUBSET (0 .. n) /\ 0 \in Int
    BY <1>1, <1>2
  <2>3. \E p \in hits : \A q \in hits : q <= p
    BY <1>1, <2>1, <2>2, LastExists
  <2> QED BY <2>3
<1>3. FindLast(s, pos, IsSpace) \in {NPos} \cup Places(s, Space)
  BY <1>2 DEF FindLast, IsSpace
<1>4. FindLast(s, pos, IsNewline) \in {NPos} \cup Places(s, Newline)
  BY <1>2 DEF FindLast, IsNewline
<1> QED BY <1>3, <1>4

LEMMA FindFirstFinds ==
  ASSUME NEW s \in Texts, NEW pos
  PROVE  /\ FindFirst(s, pos, IsSpace) \in {NPos} \cup Places(s, Space)
         /\ FindFirst(s, pos, IsNewline) \in {NPos} \cup Places(s, Newline)
<1> DEFINE n == Len(s) - 1
<1>1. n \in Int /\ Len(s) - 1 = n
  BY DEF Texts
<1> HIDE DEF n
<1>2. ASSUME NEW b, NEW hits, hits = {p \in 0 .. Len(s) - 1 : p >= pos /\ s[p + 1] = b}
      PROVE  hits # {} => (CHOOSE p \in hits : \A q \in hits : p <= q) \in Places(s, b)
  <2>1. SUFFICES ASSUME hits # {} PROVE (CHOOSE p \in hits : \A q \in hits : p <= q) \in hits
    BY <1>2 DEF Places
  <2>2. hits \in SUBSET (0 .. n) /\ 0 \in Int
    BY <1>1, <1>2
  <2>3. \E p \in hits : \A q \in hits : p <= q
    BY <1>1, <2>1, <2>2, FirstExists
  <2> QED BY <2>3
<1>3. FindFirst(s, pos, IsSpace) \in {NPos} \cup Places(s, Space)
  BY <1>2 DEF FindFirst, IsSpace
<1>4. FindFirst(s, pos, IsNewline) \in {NPos} \cup Places(s, Newline)
  BY <1>2 DEF FindFirst, IsNewline
<1> QED BY <1>3, <1>4

----------------------------------------------------------------------------
\* Strings, their cuts and joins

LEMMA CutString ==
  ASSUME NEW s \in Texts, NEW f \in 0 .. Len(s), NEW u \in f .. Len(s)
  PROVE  /\ Bytes(s, f, u) \in Texts /\ Len(Bytes(s, f, u)) = u - f
         /\ \A i \in 1 .. u - f : Bytes(s, f, u)[i] = s[f + i]
<1>1. Len(s) \in Nat /\ f \in Nat /\ u \in Nat /\ f <= u /\ u <= Len(s)
  BY DEF Texts
<1>2. \A i \in 1 .. Len(s) : s[i] \in ByteSet
  BY DEF Texts
<1>3. Bytes(s, f, u) = [i \in 1 .. u - f |-> s[f + i]]
  BY <1>1 DEF Bytes, Texts
<1>4. \A i \in 1 .. u - f : f + i \in 1 .. Len(s)
  BY <1>1
<1>5. Bytes(s, f, u) \in [1 .. u - f -> ByteSet]
  BY <1>2, <1>3, <1>4
<1>6. u - f \in Nat
  BY <1>1
<1> QED BY <1>3, <1>5, <1>6 DEF Texts

LEMMA JoinStrings ==
  ASSUME NEW s \in Texts, NEW t \in Texts
  PROVE  /\ s \o t \in Texts /\ Len(s \o t) = Len(s) + Len(t) /\ Len(s) \in Nat /\ Len(t) \in Nat
         /\ \A i \in 1 .. Len(s) : (s \o t)[i] = s[i]
         /\ \A i \in 1 .. Len(t) : (s \o t)[Len(s) + i] = t[i]
         /\ \A i \in 1 .. Len(s) + Len(t) :
              i \notin 1 .. Len(s) => i - Len(s) \in 1 .. Len(t) /\ (s \o t)[i] = t[i - Len(s)]
BY DEF Texts

\* A well-formed string cut between two characters
LEMMA CutWellFormed ==
  ASSUME NEW s \in Texts, WellFormed(s), NEW f \in Boundaries(s), NEW u \in Boundaries(s), f <= u
  PROVE  WellFormed(Bytes(s, f, u))
<1>1. /\ Len(s) \in Nat /\ f \in 0 .. Len(s) /\ u \in f .. Len(s)
      /\ f \in Nat /\ u \in Nat /\ u <= Len(s) /\ u - f \in Nat
  BY DEF Texts, Boundaries
<1> DEFINE c == Bytes(s, f, u)
<1>2. c \in Texts /\ Len(c) = u - f /\ \A i \in 1 .. u - f : c[i] = s[f + i]
  BY <1>1, CutString
<1> HIDE DEF c
<1>3. ASSUME NEW i \in 1 .. u - f, c[i] = Lead PROVE i < u - f /\ c[i + 1] = Cont
  <2>1. f + i \in 1 .. Len(s) /\ s[f + i] = Lead
    BY <1>1, <1>2, <1>3
  <2>2. f + i < Len(s) /\ s[f + i + 1] = Cont
    BY <1>1, <2>1 DEF WellFormed
  <2>3. f + i # u
    BY <1>1, <2>2 DEF Boundaries, IsCont
  <2>4. i < u - f /\ i + 1 \in 1 .. u - f /\ f + (i + 1) = f + i + 1
    BY <1>1, <2>3
  <2> QED BY <1>2, <2>2, <2>4
<1>4. ASSUME NEW i \in 1 .. u - f, c[i] = Cont PROVE i > 1 /\ c[i - 1] = Lead
  <2>1. f + i \in 1 .. Len(s) /\ s[f + i] = Cont
    BY <1>1, <1>2, <1>4
  <2>2. f + i > 1 /\ s[f + i - 1] = Lead
    BY <1>1, <2>1 DEF WellFormed
  <2>3. i # 1
    BY <1>1, <2>1 DEF Boundaries, IsCont
  <2>4. i > 1 /\ i - 1 \in 1 .. u - f /\ f + (i - 1) = f + i - 1
    BY <1>1, <2>3
  <2> QED BY <1>2, <2>2, <2>4
<1> QED BY <1>2, <1>3, <1>4 DEF WellFormed, c

LEMMA JoinWellFormed ==
  ASSUME NEW s \in Texts, WellFormed(s), NEW t \in Texts, WellFormed(t)
  PROVE  /\ WellFormed(s \o t)
         /\ \A o \in Boundaries(t) : Len(s) + o \in Boundaries(s \o t)
<1> DEFINE j == s \o t
<1>1. /\ Len(j) = Len(s) + Len(t) /\ Len(s) \in Nat /\ Len(t) \in Nat
      /\ \A i \in 1 .. Len(s) : j[i] = s[i]
      /\ \A i \in 1 .. Len(t) : j[Len(s) + i] = t[i]
      /\ \A i \in 1 .. Len(s) + Len(t) :
           i \notin 1 .. Len(s) => i - Len(s) \in 1 .. Len(t) /\ j[i] = t[i - Len(s)]
  BY JoinStrings
<1> HIDE DEF j
<1>2. ASSUME NEW i \in 1 .. Len(j), j[i] = Lead PROVE i < Len(j) /\ j[i + 1] = Cont
  <2>1. CASE i \in 1 .. Len(s)
    <3>1. i < Len(s) /\ s[i + 1] = Cont
      BY <1>1, <1>2, <2>1 DEF WellFormed
    <3>2. i + 1 \in 1 .. Len(s)
      BY <1>1, <2>1, <3>1
    <3> QED BY <1>1, <3>1, <3>2
  <2>2. CASE i \notin 1 .. Len(s)
    <3>1. i - Len(s) \in 1 .. Len(t) /\ t[i - Len(s)] = Lead
      BY <1>1, <1>2, <2>2
    <3>2. i - Len(s) < Len(t) /\ t[i - Len(s) + 1] = Cont
      BY <3>1 DEF WellFormed
    <3>3. i - Len(s) + 1 \in 1 .. Len(t) /\ Len(s) + (i - Len(s) + 1) = i + 1
      BY <1>1, <3>1, <3>2
    <3> QED BY <1>1, <3>2, <3>3
  <2> QED BY <2>1, <2>2
<1>3. ASSUME NEW i \in 1 .. Len(j), j[i] = Cont PROVE i > 1 /\ j[i - 1] = Lead
  <2>1. CASE i \in 1 .. Len(s)
    <3>1. i > 1 /\ s[i - 1] = Lead
      BY <1>1, <1>3, <2>1 DEF WellFormed
    <3>2. i - 1 \in 1 .. Len(s)
      BY <1>1, <2>1, <3>1
    <3> QED BY <1>1, <3>1, <3>2
  <2>2. CASE i \notin 1 .. Len(s)
    <3>1. i - Len(s) \in 1 .. Len(t) /\ t[i - Len(s)] = Cont
      BY <1>1, <1>3, <2>2
    <3>2. i - Len(s) > 1 /\ t[i - Len(s) - 1] = Lead
      BY <3>1 DEF WellFormed
    <3>3. i - Len(s) - 1 \in 1 .. Len(t) /\ Len(s) + (i - Len(s) - 1) = i - 1
      BY <1>1, <3>1, <3>2
    <3> QED BY <1>1, <3>2, <3>3
  <2> QED BY <2>1, <2>2
<1>4. ASSUME NEW o \in Boundaries(t) PROVE Len(s) + o \in Boundaries(j)
  <2>1. o \in 0 .. Len(t) /\ Len(s) + o \in 0 .. Len(j)
    BY <1>1 DEF Boundaries
  <2>2. CASE o = Len(t)
    BY <1>1, <2>1, <2>2 DEF Boundaries
  <2>3. CASE o # Len(t)
    <3>1. o + 1 \in 1 .. Len(t) /\ t[o + 1] # Cont /\ Len(s) + (o + 1) = Len(s) + o + 1
      BY <1>1, <1>4, <2>3 DEF Boundaries, IsCont
    <3>2. j[Len(s) + o + 1] # Cont
      BY <1>1, <3>1
    <3> QED BY <2>1, <3>2 DEF Boundaries, IsCont
  <2> QED BY <2>2, <2>3
<1> QED BY <1>2, <1>3, <1>4 DEF WellFormed, j

\* The start of a well-formed string is between characters.
LEMMA EndsAreBoundaries ==
  ASSUME NEW s \in Texts
  PROVE  Len(s) \in Nat /\ Len(s) \in Boundaries(s) /\ (WellFormed(s) => 0 \in Boundaries(s))
<1>1. Len(s) \in Nat
  BY DEF Texts
<1>2. ASSUME WellFormed(s), Len(s) # 0 PROVE s[0 + 1] # Cont
  <2>1. 1 \in 1 .. Len(s)
    BY <1>1, <1>2
  <2> QED BY <1>2, <2>1 DEF WellFormed
<1> QED BY <1>1, <1>2 DEF Boundaries, IsCont

----------------------------------------------------------------------------
\* Where the cursor moves

LEMMA AfterPlace ==
  ASSUME NEW s \in Texts, NEW b \in {Space, Newline}, NEW p \in Places(s, b)
  PROVE  /\ p \in 0 .. Len(s) /\ p + 1 \in 0 .. Len(s) /\ p \in Boundaries(s)
         /\ WellFormed(s) => p + 1 \in Boundaries(s)
<1>1. Len(s) \in Nat /\ p \in 0 .. Len(s) - 1 /\ s[p + 1] = b /\ b # Cont /\ b # Lead
  BY DEF Places, Texts, Space, Newline, Cont, Lead
<1>2. p \in 0 .. Len(s) /\ p + 1 \in 0 .. Len(s)
  BY <1>1
<1>3. p \in Boundaries(s)
  BY <1>1, <1>2 DEF Boundaries, IsCont
<1>4. ASSUME WellFormed(s), p + 1 # Len(s) PROVE s[p + 1 + 1] # Cont
  <2>1. p + 1 + 1 \in 1 .. Len(s) /\ p + 1 + 1 - 1 = p + 1
    BY <1>1, <1>4
  <2> QED BY <1>1, <1>4, <2>1 DEF WellFormed
<1> QED BY <1>2, <1>3, <1>4 DEF Boundaries, IsCont

Edits == [text : Texts, cursor : Int, selectBegin : Int, selectEnd : Int, imText : Texts]

\* An offset a key may move the cursor of e to: within the text, and between
\* characters when the text is well formed and the cursor was
Reaches(e, to) ==
  /\ to \in 0 .. Len(e.text)
  /\ (WellFormed(e.text) /\ e.cursor \in Boundaries(e.text)) => to \in Boundaries(e.text)

LEMMA LineAndWordMoves ==
  ASSUME NEW e \in Edits
  PROVE  /\ Reaches(e, MoveLineBackwards(e)) /\ Reaches(e, MoveLineForwards(e))
         /\ Reaches(e, MoveWordBackwards(e)) /\ Reaches(e, MoveWordForwards(e))
<1>1. e.text \in Texts /\ e.cursor \in Int
  BY DEF Edits
<1>2. Reaches(e, 0) /\ Reaches(e, Len(e.text)) /\ Len(e.text) \in Int
  BY <1>1, EndsAreBoundaries DEF Reaches
<1>3. ASSUME NEW b \in {Space, Newline}, NEW f \in {NPos} \cup Places(e.text, b)
      PROVE  Reaches(e, f + 1) /\ (f # NPos => Reaches(e, f))
  <2>1. CASE f = NPos
    BY <1>2, <2>1 DEF NPos
  <2>2. CASE f # NPos
    BY <1>1, <1>3, <2>2, AfterPlace DEF Reaches
  <2> QED BY <2>1, <2>2
<1>4. Reaches(e, MoveLineBackwards(e))
  BY <1>1, <1>2, <1>3, FindLastFinds DEF MoveLineBackwards
<1>5. Reaches(e, MoveLineForwards(e))
  BY <1>1, <1>2, <1>3, FindFirstFinds DEF MoveLineForwards
<1>6. ASSUME NEW pos PROVE Reaches(e, FindLast(e.text, pos, IsSpace) + 1)
  BY <1>1, <1>3, FindLastFinds
<1>7. Reaches(e, MoveWordBackwards(e))
  BY <1>2, <1>6 DEF MoveWordBackwards
<1>8. Reaches(e, MoveWordForwards(e))
  BY <1>1, <1>2, <1>3, FindFirstFinds DEF MoveWordForwards
<1> QED BY <1>4, <1>5, <1>7, <1>8

LEMMA CharacterMoves ==
  ASSUME NEW e \in Edits, e.cursor \in 0 .. Len(e.text)
  PROVE  /\ Reaches(e, MoveCharBackwards(e))
         /\ e.cursor # Len(e.text) => Reaches(e, MoveCharForwards(e))
<1> DEFINE s == e.text
           o == e.cursor
<1>1. s \in Texts /\ o \in Nat /\ Len(s) \in Nat /\ o <= Len(s)
  BY EndsAreBoundaries DEF Edits
<1>2. Reaches(e, MoveCharBackwards(e))
  <2> DEFINE starts == {p \in 0 .. o - 1 : ~IsCont(s, p)}
  <2>1. CASE o = 0
    <3>1. MoveCharBackwards(e) = 0
      BY <2>1 DEF MoveCharBackwards
    <3> QED BY <1>1, <3>1, EndsAreBoundaries DEF Reaches
  <2>2. CASE o # 0 /\ starts = {}
    <3>1. MoveCharBackwards(e) = o
      BY <1>1, <2>2 DEF MoveCharBackwards, CodepointLenBefore
    <3> QED BY <1>1, <3>1 DEF Reaches
  <2>3. CASE o # 0 /\ starts # {}
    <3>1. MoveCharBackwards(e) = o - (o - Max(starts))
      BY <1>1, <2>3 DEF MoveCharBackwards, CodepointLenBefore
    <3>2. starts \in SUBSET (0 .. o - 1) /\ 0 \in Int /\ o - 1 \in Int
      BY <1>1
    <3>3. Max(starts) \in starts
      <4> HIDE DEF starts
      <4> QED BY <2>3, <3>2, MaxIsLast
    <3>4. Max(starts) \in 0 .. o - 1 /\ ~IsCont(s, Max(starts))
      BY <3>3
    <3> HIDE DEF starts
    <3>5. MoveCharBackwards(e) = Max(starts) /\ Max(starts) \in 0 .. Len(s)
      BY <1>1, <3>1, <3>4
    <3> QED BY <3>4, <3>5 DEF Reaches, Boundaries
  <2> QED BY <2>1, <2>2, <2>3
<1>3. ASSUME o # Len(s) PROVE Reaches(e, MoveCharForwards(e))
  <2> DEFINE max == Len(s) - o
             lens == {1} \cup {n \in 1 .. max : \A k \in 1 .. n - 1 : IsCont(s, o + k)}
             m == Max(lens)
  <2>1. max \in Nat /\ max >= 1
    BY <1>1, <1>3
  <2>2. lens \in SUBSET (1 .. max) /\ 1 \in Int /\ max \in Int /\ lens # {}
    BY <2>1
  <2>3. m \in lens /\ \A n \in lens : n <= m
    <3> HIDE DEF lens, max
    <3> QED BY <2>2, MaxIsLast
  <2>4. m \in 1 .. max /\ \A k \in 1 .. m - 1 : IsCont(s, o + k)
    <3>1. 1 \in 1 .. max /\ 1 .. 1 - 1 = {}
      BY <2>1
    <3>2. m = 1 \/ m \in {n \in 1 .. max : \A k \in 1 .. n - 1 : IsCont(s, o + k)}
      BY <2>3
    <3> HIDE DEF m, max
    <3> QED BY <3>1, <3>2
  <2>5. MoveCharForwards(e) = o + m
    BY DEF MoveCharForwards, CodepointLen
  <2>6. o + m \in 0 .. Len(s)
    BY <1>1, <2>1, <2>4
  <2>7. ASSUME o + m # Len(s), IsCont(s, o + m) PROVE FALSE
    <3>1. m + 1 \in 1 .. max
      BY <1>1, <2>4, <2>6, <2>7
    <3>2. \A k \in 1 .. (m + 1) - 1 : IsCont(s, o + k)
      <4>1. ASSUME NEW k \in 1 .. (m + 1) - 1 PROVE k \in 1 .. m - 1 \/ k = m
        BY <2>4
      <4> QED BY <2>4, <2>7, <4>1
    <3>3. m + 1 \in lens
      BY <3>1, <3>2
    <3> QED BY <2>3, <2>4, <3>3
  <2> QED BY <2>5, <2>6, <2>7 DEF Reaches, Boundaries
<1> QED BY <1>2, <1>3

----------------------------------------------------------------------------
\* The walk from a code point index to a byte offset stays in the string.

LEMMA CodepointIsInside ==
  ASSUME NEW s \in Texts, NEW c \in 0 .. Len(s) - 1
  PROVE  c + CodepointLen(s, c, Len(s) - c) \in c + 1 .. Len(s)
<1> DEFINE max == Len(s) - c
           lens == {1} \cup {n \in 1 .. max : \A k \in 1 .. n - 1 : IsCont(s, c + k)}
<1>1. Len(s) \in Nat /\ c \in Nat /\ max \in Nat /\ max >= 1 /\ c + max = Len(s)
  BY EndsAreBoundaries
<1>2. lens \in SUBSET (1 .. max) /\ 1 \in Int /\ max \in Int /\ lens # {}
  BY <1>1
<1>3. Max(lens) \in lens
  <2> HIDE DEF lens, max
  <2> QED BY <1>2, MaxIsLast
<1>4. Max(lens) \in 1 .. max
  BY <1>2, <1>3
<1>5. CodepointLen(s, c, max) = Max(lens)
  BY DEF CodepointLen
<1> HIDE DEF lens
<1> QED BY <1>1, <1>4, <1>5

LEMMA NextIsInside ==
  ASSUME NEW s \in Texts, NEW c \in 0 .. Len(s)
  PROVE  NextCodepoint(s, c) \in 0 .. Len(s)
<1>1. Len(s) \in Nat
  BY EndsAreBoundaries
<1>2. CASE c = Len(s)
  BY <1>1, <1>2 DEF NextCodepoint
<1>3. CASE c # Len(s)
  <2>1. c \in 0 .. Len(s) - 1
    BY <1>1, <1>3
  <2>2. NextCodepoint(s, c) \in c + 1 .. Len(s)
    BY <1>3, <2>1, CodepointIsInside DEF NextCodepoint
  <2> QED BY <1>1, <2>2
<1> QED BY <1>2, <1>3

\* A function that reads at most one smaller argument for each of its own exists.
Descends(D, V, n, dist, stop, val, next, step) ==
  /\ n \in Nat /\ V # {} /\ dist \in [D -> 0 .. n] /\ stop \in SUBSET D
  /\ \A o \in stop : val[o] \in V
  /\ \A o \in D \ stop : next[o] \in D /\ dist[next[o]] < dist[o]
  /\ \A o \in D \ stop : \A v \in V : step[o][v] \in V

Solves(f, D, stop, val, next, step) ==
  \A o \in D : f[o] = IF o \in stop THEN val[o] ELSE step[o][f[next[o]]]

LEMMA RecursionExists ==
  ASSUME NEW D, NEW V, NEW n, NEW dist, NEW stop, NEW val, NEW next, NEW step,
         Descends(D, V, n, dist, stop, val, next, step)
  PROVE  \E f \in [D -> V] : Solves(f, D, stop, val, next, step)
<1> PICK some \in V : TRUE
  BY DEF Descends
<1> n \in Nat /\ dist \in [D -> 0 .. n] /\ stop \in SUBSET D
  BY DEF Descends
<1> /\ \A o \in stop : val[o] \in V
    /\ \A o \in D \ stop : next[o] \in D /\ dist[next[o]] < dist[o]
    /\ \A o \in D \ stop : \A v \in V : step[o][v] \in V
  BY DEF Descends
<1> DEFINE Body(f, o) == IF o \in stop THEN val[o] ELSE step[o][f[next[o]]]
           Good(f, m) == \A o \in D : dist[o] <= m => f[o] = Body(f, o)
           reached == {m \in 0 .. n : \E f \in [D -> V] : Good(f, m)}
<1>1. \A o \in D : dist[o] \in 0 .. n
  OBVIOUS
<1>2. 0 \in reached
  <2> DEFINE z == [o \in D |-> IF o \in stop THEN val[o] ELSE some]
  <2>1. z \in [D -> V] /\ 0 \in 0 .. n
    OBVIOUS
  <2>2. ASSUME NEW o \in D, dist[o] <= 0 PROVE o \in stop
    <3>1. CASE o \notin stop
      <4>1. next[o] \in D /\ dist[next[o]] < dist[o]
        BY <3>1
      <4>2. dist[next[o]] \in 0 .. n /\ dist[o] \in 0 .. n
        BY <1>1, <4>1
      <4> QED BY <2>2, <4>1, <4>2
    <3> QED BY <3>1
  <2>3. Good(z, 0)
    BY <2>2
  <2> HIDE DEF z, Good
  <2> QED BY <2>1, <2>3
<1>3. ASSUME NEW m \in reached, m # n PROVE m + 1 \in reached
  <2>1. PICK f \in [D -> V] : Good(f, m)
    BY <1>3
  <2>2. m \in 0 .. n /\ m + 1 \in 0 .. n
    BY <1>3
  <2> DEFINE g == [o \in D |-> IF dist[o] = m + 1 THEN Body(f, o) ELSE f[o]]
  <2>3. \A o \in D : Body(f, o) \in V
    BY <2>1
  <2>4. g \in [D -> V]
    BY <2>1, <2>3
  <2>5. ASSUME NEW o \in D, dist[o] <= m + 1 PROVE g[o] = Body(g, o)
    <3>1. g[o] = Body(f, o)
      <4>1. CASE dist[o] = m + 1
        BY <4>1
      <4>2. CASE dist[o] # m + 1
        <5>1. dist[o] \in 0 .. n /\ dist[o] <= m
          BY <1>1, <2>2, <2>5, <4>2
        <5> QED BY <2>1, <4>2, <5>1
      <4> QED BY <4>1, <4>2
    <3>2. ASSUME o \notin stop PROVE g[next[o]] = f[next[o]]
      <4>1. next[o] \in D /\ dist[next[o]] < dist[o]
        BY <3>2
      <4>2. dist[next[o]] # m + 1
        BY <1>1, <2>2, <2>5, <4>1
      <4> QED BY <4>1, <4>2
    <3> QED BY <3>1, <3>2
  <2>6. Good(g, m + 1)
    BY <2>5
  <2> HIDE DEF Good, g
  <2> QED BY <2>2, <2>4, <2>6
<1>4. PICK m \in reached : \A k \in reached : k <= m
  <2>1. reached \in SUBSET (0 .. n) /\ 0 \in Int /\ n \in Int
    OBVIOUS
  <2> HIDE DEF reached
  <2> QED BY <1>2, <2>1, LastExists
<1>5. m = n
  <2>1. m \in 0 .. n
    BY <1>4
  <2> HIDE DEF reached
  <2> QED BY <1>3, <1>4, <2>1
<1>6. PICK f \in [D -> V] : Good(f, n)
  BY <1>4, <1>5
<1>7. \A o \in D : f[o] = Body(f, o)
  BY <1>1, <1>6
<1> QED BY <1>7 DEF Solves

\* The walk from a code point index to a byte offset, step by step.
LEMMA WalkGoes ==
  ASSUME NEW s \in Texts, NEW n \in Nat
  PROVE  \E at : /\ Utf8ToOffset(s, n) = at[n] /\ at[0] = 0
                 /\ \A len \in 1 .. n : at[len] = NextCodepoint(s, at[len - 1])
<1> DEFINE Steps(f) == [len \in 0 .. n |-> IF len = 0 THEN 0 ELSE NextCodepoint(s, f[len - 1])]
           at == CHOOSE f : f = Steps(f)
           D == 0 .. n
           V == 0 .. Len(s)
           dist == [o \in D |-> o]
           stop == {0}
           val == [o \in D |-> 0]
           next == [o \in D |-> o - 1]
           step == [o \in D |-> [c \in V |-> NextCodepoint(s, c)]]
<1>1. Len(s) \in Nat /\ 0 \in V
  BY EndsAreBoundaries
<1>2. \A c \in V : NextCodepoint(s, c) \in V
  BY NextIsInside
<1>3. Descends(D, V, n, dist, stop, val, next, step)
  BY <1>1, <1>2 DEF Descends
<1>4. PICK f \in [D -> V] : Solves(f, D, stop, val, next, step)
  <2> HIDE DEF D, V, dist, stop, val, next, step
  <2> QED BY <1>3, RecursionExists
<1>5. ASSUME NEW o \in D PROVE f[o] = IF o = 0 THEN 0 ELSE NextCodepoint(s, f[o - 1])
  <2>1. o # 0 => f[o - 1] \in V
    BY <1>4
  <2> QED BY <1>4, <2>1 DEF Solves
<1>6. f = Steps(f)
  BY <1>5
<1>7. at = Steps(at)
  BY <1>6
<1>8. Utf8ToOffset(s, n) = at[n]
  BY DEF Utf8ToOffset
<1> HIDE DEF at
<1>9. \A len \in 0 .. n : at[len] = IF len = 0 THEN 0 ELSE NextCodepoint(s, at[len - 1])
  BY <1>7
<1> QED BY <1>8, <1>9

LEMMA WalkIsInside ==
  ASSUME NEW s \in Texts, NEW n \in Nat
  PROVE  Utf8ToOffset(s, n) \in 0 .. Len(s)
<1>1. PICK at : /\ Utf8ToOffset(s, n) = at[n] /\ at[0] = 0
                /\ \A len \in 1 .. n : at[len] = NextCodepoint(s, at[len - 1])
  BY WalkGoes
<1> DEFINE wrong == {len \in 0 .. n : at[len] \notin 0 .. Len(s)}
<1>2. wrong = {}
  <2>1. SUFFICES ASSUME wrong # {} PROVE FALSE
    OBVIOUS
  <2>2. PICK len \in wrong : \A k \in wrong : len <= k
    <3>1. wrong \in SUBSET (0 .. n) /\ 0 \in Int /\ n \in Int
      OBVIOUS
    <3> HIDE DEF wrong
    <3> QED BY <2>1, <3>1, FirstExists
  <2>3. len \in 0 .. n /\ at[len] \notin 0 .. Len(s) /\ Len(s) \in Nat
    BY <2>2, EndsAreBoundaries
  <2>4. len \in 1 .. n /\ at[len] = NextCodepoint(s, at[len - 1])
    BY <1>1, <2>3
  <2>5. len - 1 \in 0 .. n /\ ~(len <= len - 1)
    BY <2>3, <2>4
  <2>6. at[len - 1] \in 0 .. Len(s)
    BY <2>2, <2>5
  <2> QED BY <2>3, <2>4, <2>6, NextIsInside
<1>3. n \in 0 .. n
  OBVIOUS
<1> QED BY <1>1, <1>2, <1>3

----------------------------------------------------------------------------
\* UTF8: what the walks compute for a well-formed string

\* Where the character that begins at c ends: it has one byte, or two.
After(s, c) == IF s[c + 1] = Lead THEN c + 2 ELSE c + 1

Clean(s) == s \in Texts /\ WellFormed(s)

LEMMA AfterCharacter ==
  ASSUME NEW s, Clean(s), NEW c \in Boundaries(s), c # Len(s)
  PROVE  /\ c \in 0 .. Len(s) - 1 /\ Len(s) \in Nat
         /\ After(s, c) \in Boundaries(s) /\ After(s, c) \in c + 1 .. Len(s)
         /\ \A p \in Boundaries(s) : c < p => After(s, c) <= p
<1>1. Len(s) \in Nat /\ c \in 0 .. Len(s) /\ c \in 0 .. Len(s) - 1 /\ c + 1 \in 1 .. Len(s)
  BY DEF Clean, Texts, Boundaries
<1>2. s[c + 1] # Cont /\ Lead # Cont
  BY <1>1 DEF Boundaries, IsCont, Lead, Cont
<1>3. CASE s[c + 1] = Lead
  <2>1. c + 1 < Len(s) /\ s[c + 1 + 1] = Cont
    BY <1>1, <1>3 DEF Clean, WellFormed
  <2>2. After(s, c) = c + 2 /\ c + 1 \in 0 .. Len(s) /\ c + 1 # Len(s)
    BY <1>1, <1>3, <2>1 DEF After
  <2>3. c + 1 \notin Boundaries(s)
    BY <2>1, <2>2 DEF Boundaries, IsCont
  <2>4. ASSUME c + 2 # Len(s) PROVE s[c + 2 + 1] # Cont
    <3>1. c + 2 + 1 \in 1 .. Len(s) /\ (c + 2 + 1) - 1 = c + 1 + 1
      BY <1>1, <2>1, <2>4
    <3>2. CASE s[c + 2 + 1] = Cont
      <4>1. s[(c + 2 + 1) - 1] = Lead
        BY <3>1, <3>2 DEF Clean, WellFormed
      <4> QED BY <1>2, <2>1, <3>1, <4>1
    <3> QED BY <3>2
  <2>5. c + 2 \in Boundaries(s)
    BY <1>1, <2>1, <2>4 DEF Boundaries, IsCont
  <2>6. ASSUME NEW p \in Boundaries(s), c < p PROVE c + 2 <= p
    <3>1. p \in Nat /\ p # c + 1
      BY <2>3 DEF Boundaries
    <3> QED BY <1>1, <2>6, <3>1
  <2> QED BY <1>1, <2>1, <2>2, <2>5, <2>6
<1>4. CASE s[c + 1] # Lead
  <2>1. After(s, c) = c + 1
    BY <1>4 DEF After
  <2>2. ASSUME c + 1 # Len(s) PROVE s[c + 1 + 1] # Cont
    <3>1. c + 1 + 1 \in 1 .. Len(s) /\ (c + 1 + 1) - 1 = c + 1
      BY <1>1, <2>2
    <3> QED BY <1>4, <3>1 DEF Clean, WellFormed
  <2>3. c + 1 \in Boundaries(s)
    BY <1>1, <2>2 DEF Boundaries, IsCont
  <2>4. \A p \in Boundaries(s) : p \in Nat
    BY DEF Boundaries
  <2> QED BY <1>1, <2>1, <2>3, <2>4
<1> QED BY <1>3, <1>4

\* codepointLen finds that end, wherever between characters the search stops.
LEMMA LengthOfCharacter ==
  ASSUME NEW s, Clean(s), NEW c \in Boundaries(s), NEW e \in Boundaries(s), c < e
  PROVE  c + CodepointLen(s, c, e - c) = After(s, c)
<1>1. Len(s) \in Nat /\ c \in 0 .. Len(s) - 1 /\ e \in c + 1 .. Len(s) /\ c # Len(s)
      /\ c + 1 \in 1 .. Len(s)
  BY DEF Clean, Texts, Boundaries
<1> DEFINE max == e - c
           lens == {1} \cup {n \in 1 .. max : \A k \in 1 .. n - 1 : IsCont(s, c + k)}
<1>2. max \in Nat /\ max >= 1 /\ c + max = e
  BY <1>1
<1>3. lens \in SUBSET (1 .. max) /\ 1 \in Int /\ max \in Int /\ lens # {}
  BY <1>2
<1>4. Max(lens) \in lens /\ \A y \in lens : y <= Max(lens)
  <2> HIDE DEF lens, max
  <2> QED BY <1>3, MaxIsLast
<1>5. CodepointLen(s, c, e - c) = Max(lens)
  BY DEF CodepointLen
<1>6. After(s, c) \in Boundaries(s) /\ After(s, c) <= e /\ After(s, c) \in c + 1 .. Len(s)
  BY <1>1, AfterCharacter
<1>7. After(s, c) - c \in lens
  <2>1. CASE s[c + 1] = Lead
    <3>1. After(s, c) = c + 2 /\ c + 1 < Len(s) /\ s[c + 1 + 1] = Cont
      BY <1>1, <2>1 DEF After, Clean, WellFormed
    <3>2. 2 \in 1 .. max /\ \A k \in 1 .. 2 - 1 : IsCont(s, c + k)
      BY <1>1, <1>2, <1>6, <3>1 DEF IsCont
    <3> QED BY <1>1, <3>1, <3>2
  <2>2. CASE s[c + 1] # Lead
    BY <1>1, <2>2 DEF After
  <2> QED BY <2>1, <2>2
<1>8. ASSUME NEW n \in lens, n > After(s, c) - c PROVE FALSE
  <2> DEFINE k == After(s, c) - c
  <2>1. n \in 1 .. max /\ k \in 1 .. n - 1 /\ c + k = After(s, c)
    BY <1>1, <1>2, <1>3, <1>6, <1>8
  <2>2. n # 1
    BY <2>1
  <2>3. IsCont(s, c + k)
    <3> HIDE DEF k
    <3> QED BY <2>1, <2>2
  <2>4. c + k < e /\ e <= Len(s)
    BY <1>1, <1>2, <2>1
  <2> QED BY <1>1, <1>6, <2>1, <2>3, <2>4 DEF Boundaries
<1>9. Max(lens) = After(s, c) - c
  <2>1. Max(lens) \in Int /\ After(s, c) - c \in Int
    BY <1>1, <1>3, <1>4, <1>6
  <2> HIDE DEF lens
  <2> QED BY <1>4, <1>7, <1>8, <2>1
<1> QED BY <1>1, <1>5, <1>6, <1>9

LEMMA NextIsAfter ==
  ASSUME NEW s, Clean(s), NEW c \in Boundaries(s), c # Len(s)
  PROVE  NextCodepoint(s, c) = After(s, c) /\ c + CodepointLen(s, c, Len(s) - c) = After(s, c)
<1>1. Len(s) \in Boundaries(s) /\ c < Len(s)
  BY AfterCharacter, EndsAreBoundaries DEF Clean
<1>2. c + CodepointLen(s, c, Len(s) - c) = After(s, c)
  BY <1>1, LengthOfCharacter
<1> QED BY <1>2 DEF NextCodepoint

\* codepointLenBefore finds the beginning of the character that ends at o.
LEMMA BeforeCharacter ==
  ASSUME NEW s, Clean(s), NEW o \in Boundaries(s), o # 0
  PROVE  LET b == o - CodepointLenBefore(s, o)
         IN  /\ b \in Boundaries(s) /\ b \in 0 .. o - 1 /\ After(s, b) = o
             /\ \A p \in Boundaries(s) : p < o => p <= b
<1> DEFINE starts == {p \in 0 .. o - 1 : ~IsCont(s, p)}
           b == o - CodepointLenBefore(s, o)
<1>1. o \in 1 .. Len(s) /\ Len(s) \in Nat /\ o - 1 \in Int /\ 0 \in Int
  BY DEF Clean, Texts, Boundaries
<1>2. starts \subseteq 0 .. o - 1 /\ \A p : p \in starts <=> (p \in Boundaries(s) /\ p < o)
  BY <1>1 DEF Boundaries
<1>3. 0 \in starts
  BY <1>1, <1>2, EndsAreBoundaries DEF Clean
<1>4. Max(starts) \in starts /\ \A y \in starts : y <= Max(starts)
  <2>1. starts \in SUBSET (0 .. o - 1)
    BY <1>2
  <2>2. PICK n \in Int : n = o - 1
    BY <1>1
  <2> HIDE DEF starts
  <2> QED BY <1>1, <1>3, <2>1, <2>2, MaxIsLast
<1>5. CodepointLenBefore(s, o) = o - Max(starts)
  BY <1>3 DEF CodepointLenBefore
<1>6. b = Max(starts)
  BY <1>1, <1>2, <1>4, <1>5
<1> HIDE DEF starts, b
<1>7. b \in Boundaries(s) /\ b \in 0 .. o - 1 /\ \A p \in Boundaries(s) : p < o => p <= b
  BY <1>2, <1>4, <1>6
<1>8. After(s, b) = o
  <2>1. b # Len(s) /\ b < o
    BY <1>1, <1>7
  <2>2. After(s, b) \in Boundaries(s) /\ After(s, b) \in b + 1 .. Len(s) /\ After(s, b) <= o
    BY <1>7, <2>1, AfterCharacter
  <2>3. ~(After(s, b) < o)
    BY <1>1, <1>7, <2>2
  <2> QED BY <1>1, <1>7, <2>2, <2>3
<1> QED BY <1>7, <1>8 DEF b

\* Counting characters: the beginnings are numbered in their order, from 0.
LEMMA BegunFacts ==
  ASSUME NEW s, Clean(s)
  PROVE  /\ \A o : IsFiniteSet({p \in Boundaries(s) : p < o}) /\ BegunBefore(s, o) \in Nat
         /\ BegunBefore(s, 0) = 0
         /\ \A c \in Boundaries(s) : c # Len(s) => BegunBefore(s, After(s, c)) = BegunBefore(s, c) + 1
         /\ \A c, d \in Boundaries(s) : c < d => BegunBefore(s, c) < BegunBefore(s, d)
<1>1. Len(s) \in Nat /\ Boundaries(s) \subseteq 0 .. Len(s)
  BY DEF Clean, Texts, Boundaries
<1>2. IsFiniteSet(Boundaries(s))
  <2>1. 0 \in Int /\ Len(s) \in Int
    BY <1>1
  <2>2. IsFiniteSet(0 .. Len(s))
    BY <2>1, FS_Interval
  <2> QED BY <1>1, <2>2, FS_Subset
<1>3. ASSUME NEW o PROVE IsFiniteSet({p \in Boundaries(s) : p < o}) /\ BegunBefore(s, o) \in Nat
  <2>1. IsFiniteSet({p \in Boundaries(s) : p < o})
    BY <1>2, FS_Subset
  <2> QED BY <2>1, FS_CardinalityType DEF BegunBefore
<1>4. BegunBefore(s, 0) = 0
  <2>1. {p \in Boundaries(s) : p < 0} = {}
    BY <1>1
  <2> QED BY <2>1, FS_EmptySet DEF BegunBefore
<1>5. ASSUME NEW c \in Boundaries(s), c # Len(s)
      PROVE  BegunBefore(s, After(s, c)) = BegunBefore(s, c) + 1
  <2> DEFINE old == {p \in Boundaries(s) : p < c}
  <2>1. {p \in Boundaries(s) : p < After(s, c)} = old \cup {c}
    <3>1. /\ c \in 0 .. Len(s) - 1 /\ After(s, c) \in c + 1 .. Len(s)
          /\ \A p \in Boundaries(s) : c < p => After(s, c) <= p
      BY <1>5, AfterCharacter
    <3> QED BY <1>1, <3>1
  <2>2. c \notin old /\ IsFiniteSet(old)
    BY <1>1, <1>3
  <2> HIDE DEF old
  <2>3. Cardinality(old \cup {c}) = Cardinality(old) + 1
    BY <2>2, FS_AddElement
  <2> QED BY <2>1, <2>3 DEF BegunBefore, old
<1>6. ASSUME NEW c \in Boundaries(s), NEW d \in Boundaries(s), c < d
      PROVE  BegunBefore(s, c) < BegunBefore(s, d)
  <2>1. c # Len(s) /\ After(s, c) <= d /\ After(s, c) \in c + 1 .. Len(s)
    <3>1. c # Len(s)
      BY <1>1, <1>6
    <3> QED BY <1>6, <3>1, AfterCharacter
  <2>2. {p \in Boundaries(s) : p < After(s, c)} \subseteq {p \in Boundaries(s) : p < d}
    BY <1>1, <2>1
  <2>3. BegunBefore(s, After(s, c)) <= BegunBefore(s, d)
    BY <1>3, <2>2, FS_Subset DEF BegunBefore
  <2>4. BegunBefore(s, After(s, c)) = BegunBefore(s, c) + 1
    BY <1>5, <2>1
  <2>5. BegunBefore(s, c) \in Nat /\ BegunBefore(s, d) \in Nat
    BY <1>3
  <2> QED BY <2>3, <2>4, <2>5
<1> QED BY <1>3, <1>4, <1>5, <1>6

\* Each number up to that of the end belongs to one beginning.
LEMMA BeginningIs ==
  ASSUME NEW s, Clean(s)
  PROVE  /\ \A o \in Boundaries(s) :
              BegunBefore(s, o) \in 0 .. BegunBefore(s, Len(s)) /\ Beginning(s, BegunBefore(s, o)) = o
         /\ \A i \in 0 .. BegunBefore(s, Len(s)) :
              Beginning(s, i) \in Boundaries(s) /\ BegunBefore(s, Beginning(s, i)) = i
         /\ Beginning(s, 0) = 0 /\ Beginning(s, BegunBefore(s, Len(s))) = Len(s)
         /\ \A i \in 0 .. BegunBefore(s, Len(s)) - 1 :
              Beginning(s, i) # Len(s) /\ Beginning(s, i + 1) = After(s, Beginning(s, i))
<1> DEFINE last == BegunBefore(s, Len(s))
<1>1. /\ Len(s) \in Nat /\ Len(s) \in Boundaries(s) /\ 0 \in Boundaries(s)
      /\ Boundaries(s) \subseteq 0 .. Len(s)
  BY EndsAreBoundaries DEF Clean, Boundaries
<1>2. /\ \A o : BegunBefore(s, o) \in Nat
      /\ BegunBefore(s, 0) = 0
      /\ \A c \in Boundaries(s) : c # Len(s) => BegunBefore(s, After(s, c)) = BegunBefore(s, c) + 1
      /\ \A c, d \in Boundaries(s) : c < d => BegunBefore(s, c) < BegunBefore(s, d)
  BY BegunFacts
<1>3. ASSUME NEW c \in Boundaries(s), NEW d \in Boundaries(s), BegunBefore(s, c) = BegunBefore(s, d)
      PROVE  c = d
  <2>1. ~(c < d) /\ ~(d < c) /\ c \in Int /\ d \in Int
    BY <1>1, <1>2, <1>3
  <2> QED BY <2>1
<1>4. ASSUME NEW o \in Boundaries(s)
      PROVE  BegunBefore(s, o) \in 0 .. last /\ Beginning(s, BegunBefore(s, o)) = o
  <2>1. o = Len(s) \/ o < Len(s)
    BY <1>1
  <2>2. BegunBefore(s, o) \in 0 .. last
    BY <1>1, <1>2, <2>1
  <2> QED BY <1>3, <2>2 DEF Beginning
<1> DEFINE missing == {i \in 0 .. last : \A o \in Boundaries(s) : BegunBefore(s, o) # i}
<1>5. missing = {}
  <2>1. SUFFICES ASSUME missing # {} PROVE FALSE
    OBVIOUS
  <2>2. last \in Nat /\ last \in Int
    BY <1>2
  <2>3. PICK i \in missing : \A j \in missing : i <= j
    <3>1. missing \in SUBSET (0 .. last) /\ 0 \in Int
      OBVIOUS
    <3> HIDE DEF missing, last
    <3> QED BY <2>1, <2>2, <3>1, FirstExists
  <2>4. i \in 0 .. last /\ \A o \in Boundaries(s) : BegunBefore(s, o) # i
    BY <2>3
  <2>5. i # 0
    BY <1>1, <1>2, <2>4
  <2>6. i - 1 \in 0 .. last /\ ~(i <= i - 1)
    BY <2>2, <2>4, <2>5
  <2>7. PICK o \in Boundaries(s) : BegunBefore(s, o) = i - 1
    BY <2>3, <2>6
  <2>8. o # Len(s)
    BY <2>2, <2>4, <2>7
  <2>9. After(s, o) \in Boundaries(s) /\ BegunBefore(s, After(s, o)) = i
    BY <1>2, <2>4, <2>7, <2>8, AfterCharacter
  <2> QED BY <2>4, <2>9
<1>6. ASSUME NEW i \in 0 .. last
      PROVE  Beginning(s, i) \in Boundaries(s) /\ BegunBefore(s, Beginning(s, i)) = i
  BY <1>5 DEF Beginning
<1>7. Beginning(s, 0) = 0 /\ Beginning(s, last) = Len(s)
  BY <1>1, <1>2, <1>4
<1>8. ASSUME NEW i \in 0 .. last - 1
      PROVE  Beginning(s, i) # Len(s) /\ Beginning(s, i + 1) = After(s, Beginning(s, i))
  <2>1. last \in Nat /\ i \in 0 .. last /\ i # last
    BY <1>2
  <2>2. Beginning(s, i) \in Boundaries(s) /\ BegunBefore(s, Beginning(s, i)) = i
    BY <1>6, <2>1
  <2>3. Beginning(s, i) # Len(s)
    BY <2>1, <2>2
  <2>4. After(s, Beginning(s, i)) \in Boundaries(s) /\ BegunBefore(s, After(s, Beginning(s, i))) = i + 1
    BY <1>2, <2>2, <2>3, AfterCharacter
  <2> QED BY <1>4, <2>3, <2>4
<1> QED BY <1>4, <1>6, <1>7, <1>8

\* utf8ToOffset goes to the beginning of the character it counts to.
LEMMA OffsetOfIndex ==
  ASSUME NEW s, Clean(s), NEW n \in 0 .. BegunBefore(s, Len(s))
  PROVE  Utf8ToOffset(s, n) = Beginning(s, n)
<1>0. BegunBefore(s, Len(s)) \in Nat
  BY BegunFacts
<1>1. n \in Nat /\ s \in Texts
  BY <1>0 DEF Clean
<1>2. PICK at : /\ Utf8ToOffset(s, n) = at[n] /\ at[0] = 0
                /\ \A len \in 1 .. n : at[len] = NextCodepoint(s, at[len - 1])
  BY <1>1, WalkGoes
<1> DEFINE wrong == {len \in 0 .. n : at[len] # Beginning(s, len)}
<1>3. wrong = {}
  <2>1. SUFFICES ASSUME wrong # {} PROVE FALSE
    OBVIOUS
  <2>2. PICK len \in wrong : \A k \in wrong : len <= k
    <3>1. wrong \in SUBSET (0 .. n) /\ 0 \in Int /\ n \in Int
      BY <1>1
    <3> HIDE DEF wrong
    <3> QED BY <2>1, <3>1, FirstExists
  <2>3. len \in 0 .. n /\ at[len] # Beginning(s, len)
    BY <2>2
  <2>4. len # 0
    BY <1>2, <2>3, BeginningIs
  <2>5. len \in 1 .. n /\ len - 1 \in 0 .. n /\ ~(len <= len - 1) /\ (len - 1) + 1 = len
        /\ len - 1 \in 0 .. BegunBefore(s, Len(s)) - 1 /\ len - 1 \in 0 .. BegunBefore(s, Len(s))
    BY <1>0, <1>1, <2>3, <2>4
  <2>6. at[len - 1] = Beginning(s, len - 1)
    BY <2>2, <2>5
  <2>7. Beginning(s, len - 1) # Len(s) /\ Beginning(s, len) = After(s, Beginning(s, len - 1))
        /\ Beginning(s, len - 1) \in Boundaries(s)
    BY <2>5, BeginningIs
  <2>8. NextCodepoint(s, Beginning(s, len - 1)) = After(s, Beginning(s, len - 1))
    BY <2>7, NextIsAfter
  <2> QED BY <1>2, <2>3, <2>5, <2>6, <2>7, <2>8
<1>4. n \in 0 .. n
  BY <1>1
<1> QED BY <1>2, <1>3, <1>4

LEMMA CodepointFits ==
  ASSUME NEW s, NEW c \in Nat, NEW max \in Nat, max # 0
  PROVE  CodepointLen(s, c, max) \in 1 .. max
<1> DEFINE lens == {1} \cup {n \in 1 .. max : \A k \in 1 .. n - 1 : IsCont(s, c + k)}
<1>1. lens \in SUBSET (1 .. max) /\ 1 \in Int /\ max \in Int /\ lens # {}
  OBVIOUS
<1>2. Max(lens) \in lens
  <2> HIDE DEF lens
  <2> QED BY <1>1, MaxIsLast
<1>3. CodepointLen(s, c, max) = Max(lens)
  BY DEF CodepointLen
<1> HIDE DEF lens
<1> QED BY <1>1, <1>2, <1>3

\* offsetToUTF8Len counts the characters that begin before the offset.
LEMMA CountOfOffset ==
  ASSUME NEW s, Clean(s), NEW o \in Boundaries(s)
  PROVE  OffsetToUTF8Len(s, o) = BegunBefore(s, o)
<1>1. Len(s) \in Nat /\ o \in 0 .. Len(s) /\ 0 \in Boundaries(s)
  BY EndsAreBoundaries DEF Boundaries, Clean
<1>2. Min({Len(s), o}) = o
  BY <1>1 DEF Min
<1> DEFINE Steps(f) == [c \in 0 .. Len(s) |->
                          IF c >= o THEN 0 ELSE 1 + f[c + CodepointLen(s, c, o - c)]]
           walk == CHOOSE f : f = Steps(f)
           D == 0 .. Len(s)
           V == Nat
           dist == [c \in D |-> Len(s) - c]
           stop == {c \in D : c >= o}
           val == [c \in D |-> 0]
           next == [c \in D |-> c + CodepointLen(s, c, o - c)]
           step == [c \in D |-> [v \in V |-> 1 + v]]
<1>3. ASSUME NEW c \in D \ stop PROVE next[c] \in D /\ dist[next[c]] < dist[c]
  <2>1. c \in Nat /\ o - c \in Nat /\ o - c # 0
    BY <1>1
  <2>2. CodepointLen(s, c, o - c) \in 1 .. o - c
    BY <2>1, CodepointFits
  <2> QED BY <1>1, <2>1, <2>2
<1>4. Descends(D, V, Len(s), dist, stop, val, next, step)
  BY <1>1, <1>3 DEF Descends
<1>5. PICK f \in [D -> V] : Solves(f, D, stop, val, next, step)
  <2>1. PICK n : n = Len(s)
    OBVIOUS
  <2> HIDE DEF D, V, dist, stop, val, next, step
  <2> QED BY <1>4, RecursionExists
<1>6. f = Steps(f)
  BY <1>5 DEF Solves
<1>7. walk = Steps(walk)
  BY <1>6
<1>8. OffsetToUTF8Len(s, o) = walk[0]
  BY <1>2 DEF OffsetToUTF8Len
<1> HIDE DEF walk
<1>9. \A c \in 0 .. Len(s) : walk[c] = IF c >= o THEN 0 ELSE 1 + walk[c + CodepointLen(s, c, o - c)]
  BY <1>7
<1>10. \A c : BegunBefore(s, c) \in Nat
  BY BegunFacts
<1> DEFINE wrong == {c \in Boundaries(s) : c <= o /\ walk[c] # BegunBefore(s, o) - BegunBefore(s, c)}
<1>11. wrong = {}
  <2>1. SUFFICES ASSUME wrong # {} PROVE FALSE
    OBVIOUS
  <2>2. PICK c \in wrong : \A k \in wrong : k <= c
    <3>1. wrong \in SUBSET (0 .. Len(s)) /\ 0 \in Int /\ Len(s) \in Int
      BY <1>1 DEF Boundaries
    <3> HIDE DEF wrong
    <3> QED BY <2>1, <3>1, LastExists
  <2>3. /\ c \in Boundaries(s) /\ c \in 0 .. Len(s) /\ c <= o
        /\ walk[c] # BegunBefore(s, o) - BegunBefore(s, c)
    BY <2>2 DEF Boundaries
  <2>4. c # o
    <3>1. ASSUME c = o PROVE FALSE
      <4>1. walk[c] = 0
        BY <1>1, <1>9, <2>3, <3>1
      <4> QED BY <1>10, <2>3, <3>1, <4>1
    <3> QED BY <3>1
  <2>5. c < o /\ c # Len(s)
    BY <1>1, <2>3, <2>4
  <2>6. walk[c] = 1 + walk[After(s, c)]
    BY <1>1, <1>9, <2>3, <2>5, LengthOfCharacter
  <2>7. After(s, c) \in Boundaries(s) /\ After(s, c) <= o /\ ~(After(s, c) <= c)
    BY <2>3, <2>5, AfterCharacter
  <2>8. walk[After(s, c)] = BegunBefore(s, o) - BegunBefore(s, After(s, c))
    BY <2>2, <2>7
  <2>9. BegunBefore(s, After(s, c)) = BegunBefore(s, c) + 1
    BY <2>3, <2>5, BegunFacts
  <2> QED BY <1>10, <2>3, <2>6, <2>8, <2>9
<1>12. BegunBefore(s, 0) = 0
  BY BegunFacts
<1> QED BY <1>1, <1>8, <1>10, <1>11, <1>12

----------------------------------------------------------------------------
\* UTF8: the four searches

\* The beginnings of the characters equal to ch, or of those that are not
Hits(s, ch, equal) ==
  {p \in Boundaries(s) \ {Len(s)} : (Bytes(s, p, After(s, p)) = ch) = equal}

FirstFrom(hits, o, found) ==
  IF \A h \in hits : h < o THEN found = NPos
  ELSE found \in hits /\ found >= o /\ \A h \in hits : h >= o => found <= h

LastBefore(hits, o, found) ==
  IF \A h \in hits : h >= o THEN found = NPos
  ELSE found \in hits /\ found < o /\ \A h \in hits : h < o => h <= found

LEMMA ForwardFinds ==
  ASSUME NEW s, Clean(s), NEW ch, NEW equal \in BOOLEAN, NEW o \in Boundaries(s)
  PROVE  FirstFrom(Hits(s, ch, equal), o, Forward(s, o, ch, equal))
<1>1. Len(s) \in Nat /\ o \in 0 .. Len(s) /\ Boundaries(s) \subseteq 0 .. Len(s)
  BY EndsAreBoundaries DEF Boundaries, Clean
<1> DEFINE Hit(c) == (Bytes(s, c, c + CodepointLen(s, c, Len(s) - c)) = ch) = equal
           Steps(f) == [c \in 0 .. Len(s) |->
                          IF c >= Len(s) THEN NPos
                          ELSE IF Hit(c) THEN c ELSE f[c + CodepointLen(s, c, Len(s) - c)]]
           scan == CHOOSE f : f = Steps(f)
           D == 0 .. Len(s)
           V == {NPos} \cup D
           dist == [c \in D |-> Len(s) - c]
           stop == {c \in D : c >= Len(s) \/ Hit(c)}
           val == [c \in D |-> IF c >= Len(s) THEN NPos ELSE c]
           next == [c \in D |-> c + CodepointLen(s, c, Len(s) - c)]
           step == [c \in D |-> [v \in V |-> v]]
<1>2. ASSUME NEW c \in D \ stop PROVE next[c] \in D /\ dist[next[c]] < dist[c]
  <2>1. c \in Nat /\ Len(s) - c \in Nat /\ Len(s) - c # 0
    BY <1>1
  <2>2. CodepointLen(s, c, Len(s) - c) \in 1 .. Len(s) - c
    BY <2>1, CodepointFits
  <2> QED BY <1>1, <2>1, <2>2
<1>3. /\ Len(s) \in Nat /\ V # {} /\ dist \in [D -> 0 .. Len(s)] /\ stop \in SUBSET D
      /\ \A c \in stop : val[c] \in V
      /\ \A c \in D \ stop : \A v \in V : step[c][v] \in V
  <2> HIDE DEF Hit
  <2> QED BY <1>1
<1>4. Descends(D, V, Len(s), dist, stop, val, next, step)
  <2> HIDE DEF D, V, dist, stop, val, next, step
  <2> QED BY <1>2, <1>3 DEF Descends
<1>5. PICK f \in [D -> V] : Solves(f, D, stop, val, next, step)
  <2> HIDE DEF D, V, dist, stop, val, next, step
  <2> QED BY <1>4, RecursionExists
<1>6. f = Steps(f)
  <2>1. ASSUME NEW c \in D PROVE f[c] = Steps(f)[c]
    <3>1. f[c] = IF c \in stop THEN val[c] ELSE step[c][f[next[c]]]
      BY <1>5 DEF Solves
    <3>2. c \notin stop => f[next[c]] \in V
      BY <1>2, <1>5
    <3> HIDE DEF Hit
    <3> QED BY <3>1, <3>2
  <2> HIDE DEF Hit
  <2> QED BY <1>5, <2>1
<1>7. scan = Steps(scan)
  BY <1>6
<1>8. Forward(s, o, ch, equal) = IF o >= Len(s) THEN NPos ELSE scan[o]
  BY DEF Forward
<1> DEFINE hits == Hits(s, ch, equal)
<1> HIDE DEF scan
<1>9. \A c \in 0 .. Len(s) :
         scan[c] = IF c >= Len(s) THEN NPos
                   ELSE IF Hit(c) THEN c ELSE scan[c + CodepointLen(s, c, Len(s) - c)]
  <2> HIDE DEF Hit
  <2> QED BY <1>7
<1>10. ASSUME NEW c \in Boundaries(s), c # Len(s)
       PROVE  /\ Hit(c) <=> c \in hits
              /\ scan[c] = IF c \in hits THEN c ELSE scan[After(s, c)]
  <2>1. c + CodepointLen(s, c, Len(s) - c) = After(s, c)
    BY <1>10, NextIsAfter
  <2>2. Hit(c) <=> c \in hits
    BY <1>10, <2>1 DEF Hits
  <2>3. c \in 0 .. Len(s) /\ ~(c >= Len(s))
    BY <1>1, <1>10
  <2> HIDE DEF Hit, hits
  <2> QED BY <1>9, <2>1, <2>2, <2>3
<1>11. hits \subseteq Boundaries(s) /\ \A h \in hits : h < Len(s) /\ h \in Nat
  BY <1>1 DEF Hits
<1> HIDE DEF hits, Hit
<1> DEFINE wrong == {c \in Boundaries(s) : ~FirstFrom(hits, c, scan[c])}
<1>12. wrong = {}
  <2>1. SUFFICES ASSUME wrong # {} PROVE FALSE
    OBVIOUS
  <2>2. PICK c \in wrong : \A k \in wrong : k <= c
    <3>1. wrong \in SUBSET (0 .. Len(s)) /\ 0 \in Int /\ Len(s) \in Int
      BY <1>1
    <3> HIDE DEF wrong
    <3> QED BY <2>1, <3>1, LastExists
  <2>3. c \in Boundaries(s) /\ c \in 0 .. Len(s) /\ ~FirstFrom(hits, c, scan[c])
    BY <1>1, <2>2
  <2>4. CASE c = Len(s)
    BY <1>1, <1>9, <1>11, <2>3, <2>4 DEF FirstFrom
  <2>5. CASE c # Len(s) /\ c \in hits
    BY <1>10, <1>11, <2>3, <2>5 DEF FirstFrom
  <2>6. CASE c # Len(s) /\ c \notin hits
    <3>1. scan[c] = scan[After(s, c)]
      BY <1>10, <2>3, <2>6
    <3>2. /\ After(s, c) \in Boundaries(s) /\ After(s, c) \in c + 1 .. Len(s)
          /\ \A p \in Boundaries(s) : c < p => After(s, c) <= p
      BY <2>3, <2>6, AfterCharacter
    <3>3. FirstFrom(hits, After(s, c), scan[After(s, c)])
      <4>1. ~(After(s, c) <= c)
        BY <2>3, <3>2
      <4> QED BY <2>2, <3>2, <4>1
    <3>4. \A h \in hits : (h < c <=> h < After(s, c)) /\ (h >= c <=> h >= After(s, c))
      <4>1. ASSUME NEW h \in hits PROVE (h < c <=> h < After(s, c)) /\ (h >= c <=> h >= After(s, c))
        <5>1. h # c /\ h \in Boundaries(s) /\ h \in Nat /\ c < h => After(s, c) <= h
          BY <1>11, <2>6, <3>2
        <5>2. h # c /\ h \in Nat /\ h \in Boundaries(s)
          BY <1>11, <2>6
        <5> QED BY <2>3, <3>2, <5>1, <5>2
      <4> QED BY <4>1
    <3> QED BY <1>11, <2>3, <3>1, <3>3, <3>4 DEF FirstFrom
  <2> QED BY <2>4, <2>5, <2>6
<1>13. CASE o = Len(s)
  <2>1. FirstFrom(hits, o, NPos)
    BY <1>1, <1>11, <1>13 DEF FirstFrom
  <2> QED BY <1>1, <1>8, <1>13, <2>1 DEF hits
<1>14. CASE o # Len(s)
  BY <1>1, <1>8, <1>12, <1>14 DEF hits
<1> QED BY <1>13, <1>14

LEMMA BackwardFinds ==
  ASSUME NEW s, Clean(s), NEW ch, NEW equal \in BOOLEAN, NEW o \in Boundaries(s)
  PROVE  LastBefore(Hits(s, ch, equal), o, Backward(s, o, ch, equal))
<1>1. Len(s) \in Nat /\ o \in 0 .. Len(s) /\ Boundaries(s) \subseteq 0 .. Len(s) /\ 0 \in Boundaries(s)
  BY EndsAreBoundaries DEF Boundaries, Clean
<1> DEFINE Before(c) == c - CodepointLenBefore(s, c)
           Hit(c) == (Bytes(s, Before(c), c) = ch) = equal
           Steps(f) == [c \in 0 .. Len(s) |->
                          IF c = 0 THEN NPos ELSE IF Hit(c) THEN Before(c) ELSE f[Before(c)]]
           scan == CHOOSE f : f = Steps(f)
           D == 0 .. Len(s)
           V == {NPos} \cup D
           dist == [c \in D |-> c]
           stop == {c \in D : c = 0 \/ Hit(c)}
           val == [c \in D |-> IF c = 0 THEN NPos ELSE Before(c)]
           next == [c \in D |-> Before(c)]
           step == [c \in D |-> [v \in V |-> v]]
<1>2. ASSUME NEW c \in D, c # 0 PROVE Before(c) \in 0 .. c - 1
  <2> DEFINE starts == {p \in 0 .. c - 1 : ~IsCont(s, p)}
  <2>1. c \in 1 .. Len(s) /\ c - 1 \in Int /\ 0 \in Int
    BY <1>1, <1>2
  <2>2. 0 \in starts /\ starts \in SUBSET (0 .. c - 1)
    BY <1>1, <2>1 DEF Boundaries
  <2>3. Max(starts) \in starts
    <3>1. PICK n \in Int : n = c - 1
      BY <2>1
    <3> HIDE DEF starts
    <3> QED BY <2>1, <2>2, <3>1, MaxIsLast
  <2>4. CodepointLenBefore(s, c) = c - Max(starts)
    BY <2>2 DEF CodepointLenBefore
  <2>5. Max(starts) \in 0 .. c - 1
    BY <2>3
  <2> HIDE DEF starts
  <2> QED BY <2>1, <2>4, <2>5
<1> HIDE DEF Before
<1>3. /\ Len(s) \in Nat /\ V # {} /\ dist \in [D -> 0 .. Len(s)] /\ stop \in SUBSET D
      /\ \A c \in stop : val[c] \in V
      /\ \A c \in D \ stop : next[c] \in D /\ dist[next[c]] < dist[c]
      /\ \A c \in D \ stop : \A v \in V : step[c][v] \in V
  <2> HIDE DEF Hit
  <2>1. \A c \in D : c # 0 => Before(c) \in D /\ Before(c) < c
    BY <1>1, <1>2
  <2> QED BY <1>1, <2>1
<1>4. Descends(D, V, Len(s), dist, stop, val, next, step)
  <2> HIDE DEF D, V, dist, stop, val, next, step
  <2> QED BY <1>3 DEF Descends
<1>5. PICK f \in [D -> V] : Solves(f, D, stop, val, next, step)
  <2> HIDE DEF D, V, dist, stop, val, next, step
  <2> QED BY <1>3, <1>4, RecursionExists
<1>6. f = Steps(f)
  <2>1. ASSUME NEW c \in D PROVE f[c] = Steps(f)[c]
    <3>1. f[c] = IF c \in stop THEN val[c] ELSE step[c][f[next[c]]]
      BY <1>5 DEF Solves
    <3>2. c \notin stop => f[next[c]] \in V
      BY <1>3, <1>5
    <3> HIDE DEF Hit
    <3> QED BY <3>1, <3>2
  <2> HIDE DEF Hit
  <2> QED BY <1>5, <2>1
<1>7. scan = Steps(scan)
  BY <1>6
<1>8. Backward(s, o, ch, equal) = scan[o]
  <2>1. Min({o, Len(s)}) = o
    BY <1>1 DEF Min
  <2> QED BY <2>1 DEF Backward, Before
<1> DEFINE hits == Hits(s, ch, equal)
<1> HIDE DEF scan
<1>9. \A c \in 0 .. Len(s) :
         scan[c] = IF c = 0 THEN NPos ELSE IF Hit(c) THEN Before(c) ELSE scan[Before(c)]
  <2> HIDE DEF Hit
  <2> QED BY <1>7
<1>10. ASSUME NEW c \in Boundaries(s), c # 0
       PROVE  /\ Before(c) \in Boundaries(s) /\ Before(c) \in 0 .. c - 1
              /\ \A p \in Boundaries(s) : p < c => p <= Before(c)
              /\ scan[c] = IF Before(c) \in hits THEN Before(c) ELSE scan[Before(c)]
  <2>1. /\ Before(c) \in Boundaries(s) /\ Before(c) \in 0 .. c - 1 /\ After(s, Before(c)) = c
        /\ \A p \in Boundaries(s) : p < c => p <= Before(c)
    BY <1>10, BeforeCharacter DEF Before
  <2>2. c \in 0 .. Len(s) /\ Before(c) # Len(s)
    BY <1>1, <2>1
  <2>3. Hit(c) <=> Before(c) \in hits
    BY <2>1, <2>2 DEF Hits
  <2> HIDE DEF Hit, hits
  <2> QED BY <1>9, <1>10, <2>1, <2>2, <2>3
<1>11. hits \subseteq Boundaries(s) /\ \A h \in hits : h \in Nat
  BY <1>1 DEF Hits
<1> HIDE DEF hits, Hit
<1> DEFINE wrong == {c \in Boundaries(s) : ~LastBefore(hits, c, scan[c])}
<1>12. wrong = {}
  <2>1. SUFFICES ASSUME wrong # {} PROVE FALSE
    OBVIOUS
  <2>2. PICK c \in wrong : \A k \in wrong : c <= k
    <3>1. wrong \in SUBSET (0 .. Len(s)) /\ 0 \in Int /\ Len(s) \in Int
      BY <1>1
    <3> HIDE DEF wrong
    <3> QED BY <2>1, <3>1, FirstExists
  <2>3. c \in Boundaries(s) /\ c \in 0 .. Len(s) /\ ~LastBefore(hits, c, scan[c])
    BY <1>1, <2>2
  <2>4. CASE c = 0
    BY <1>1, <1>9, <1>11, <2>3, <2>4 DEF LastBefore
  <2>5. CASE c # 0
    <3>1. PICK b : b = Before(c)
      OBVIOUS
    <3>2. /\ b \in Boundaries(s) /\ b \in 0 .. c - 1
          /\ \A p \in Boundaries(s) : p < c => p <= b
          /\ scan[c] = IF b \in hits THEN b ELSE scan[b]
      BY <1>10, <2>3, <2>5, <3>1
    <3>3. CASE b \in hits
      BY <1>11, <2>3, <3>2, <3>3 DEF LastBefore
    <3>4. CASE b \notin hits
      <4>1. LastBefore(hits, b, scan[b])
        <5>1. ~(c <= b)
          BY <2>3, <3>2
        <5> QED BY <2>2, <3>2, <5>1
      <4>2. ASSUME NEW h \in hits PROVE (h < c <=> h < b) /\ (h >= c <=> h >= b)
        <5>1. h # b /\ h \in Nat /\ h \in Boundaries(s)
          BY <1>11, <3>4
        <5>2. h < c => h <= b
          BY <3>2, <5>1
        <5> QED BY <2>3, <3>2, <5>1, <5>2
      <4> QED BY <1>11, <2>3, <3>2, <3>4, <4>1, <4>2 DEF LastBefore
    <3> QED BY <3>3, <3>4
  <2> QED BY <2>4, <2>5
<1> QED BY <1>1, <1>8, <1>12 DEF hits

----------------------------------------------------------------------------
\* UTF8: a substring between two characters

\* Cut between two characters, a string keeps the beginnings in between.
LEMMA CutBoundaries ==
  ASSUME NEW s, Clean(s), NEW f \in Boundaries(s), NEW u \in Boundaries(s), f <= u
  PROVE  /\ Clean(Bytes(s, f, u)) /\ Len(Bytes(s, f, u)) = u - f
         /\ \A b \in Boundaries(s) : b \in f .. u => b - f \in Boundaries(Bytes(s, f, u))
         /\ \A b \in Boundaries(s) : b \in f .. u /\ b # u =>
              After(Bytes(s, f, u), b - f) = After(s, b) - f
         /\ \A a \in f .. u : \A b \in a .. u : Bytes(Bytes(s, f, u), a - f, b - f) = Bytes(s, a, b)
<1>1. /\ s \in Texts /\ WellFormed(s) /\ Len(s) \in Nat
      /\ f \in 0 .. Len(s) /\ u \in f .. Len(s) /\ Boundaries(s) \subseteq 0 .. Len(s)
  BY DEF Clean, Texts, Boundaries
<1> DEFINE t == Bytes(s, f, u)
<1>2. t \in Texts /\ Len(t) = u - f /\ \A i \in 1 .. u - f : t[i] = s[f + i]
  BY <1>1, CutString
<1>3. Clean(t)
  BY <1>1, <1>2, CutWellFormed DEF Clean
<1>4. ASSUME NEW a \in f .. u, NEW b \in a .. u PROVE Bytes(t, a - f, b - f) = Bytes(s, a, b)
  <2>1. /\ a \in 0 .. Len(s) /\ b \in a .. Len(s)
        /\ a - f \in 0 .. Len(t) /\ b - f \in (a - f) .. Len(t) /\ (b - f) - (a - f) = b - a
    BY <1>1, <1>2
  <2>2. /\ Bytes(t, a - f, b - f) \in Texts /\ Len(Bytes(t, a - f, b - f)) = b - a
        /\ \A i \in 1 .. b - a : Bytes(t, a - f, b - f)[i] = t[(a - f) + i]
    <3> HIDE DEF t
    <3>1. PICK g, h : g = a - f /\ h = b - f
      OBVIOUS
    <3>2. /\ Bytes(t, g, h) \in Texts /\ Len(Bytes(t, g, h)) = h - g
          /\ \A i \in 1 .. h - g : Bytes(t, g, h)[i] = t[g + i]
      BY <1>2, <2>1, <3>1, CutString
    <3> QED BY <2>1, <3>1, <3>2
  <2>3. /\ Bytes(s, a, b) \in Texts /\ Len(Bytes(s, a, b)) = b - a
        /\ \A i \in 1 .. b - a : Bytes(s, a, b)[i] = s[a + i]
    BY <1>1, <2>1, CutString
  <2>4. \A i \in 1 .. b - a : t[(a - f) + i] = s[a + i]
    <3>1. ASSUME NEW i \in 1 .. b - a PROVE t[(a - f) + i] = s[a + i]
      <4>1. (a - f) + i \in 1 .. u - f /\ f + ((a - f) + i) = a + i
        BY <1>1
      <4> QED BY <1>2, <4>1
    <3> QED BY <3>1
  <2> HIDE DEF t
  <2> QED BY <2>2, <2>3, <2>4 DEF Texts
<1> HIDE DEF t
<1>5. ASSUME NEW b \in Boundaries(s), b \in f .. u
      PROVE  /\ b - f \in Boundaries(t)
             /\ b # u => After(t, b - f) = After(s, b) - f
  <2>1. b - f \in 0 .. Len(t) /\ (b - f = Len(t) <=> b = u)
    BY <1>1, <1>2, <1>5
  <2>2. ASSUME b # u
        PROVE  t[(b - f) + 1] = s[b + 1] /\ b # Len(s) /\ b \in 0 .. Len(s)
    <3>1. (b - f) + 1 \in 1 .. u - f /\ f + ((b - f) + 1) = b + 1
      BY <1>1, <1>5, <2>2
    <3>2. b # Len(s) /\ b \in 0 .. Len(s)
      BY <1>1, <1>5, <2>2
    <3> QED BY <1>2, <3>1, <3>2
  <2>3. b # u => ~IsCont(s, b)
    BY <2>2 DEF Boundaries
  <2>4. b - f \in Boundaries(t)
    BY <2>1, <2>2, <2>3 DEF Boundaries, IsCont
  <2>5. b # u => After(t, b - f) = After(s, b) - f
    BY <1>1, <2>2 DEF After
  <2> QED BY <2>4, <2>5
<1> QED BY <1>2, <1>3, <1>4, <1>5 DEF t

\* Its characters are those in between, in their order.
LEMMA CutCharacters ==
  ASSUME NEW s, Clean(s), NEW f \in Boundaries(s), NEW u \in Boundaries(s), f <= u
  PROVE  Characters(Bytes(s, f, u)) =
           [j \in 1 .. BegunBefore(s, u) - BegunBefore(s, f) |-> Characters(s)[BegunBefore(s, f) + j]]
<1> DEFINE t == Bytes(s, f, u)
           low == BegunBefore(s, f)
           high == BegunBefore(s, u)
<1>1. /\ Len(s) \in Nat /\ Boundaries(s) \subseteq 0 .. Len(s)
      /\ f \in 0 .. Len(s) /\ u \in f .. Len(s) /\ Len(s) \in Boundaries(s)
  BY EndsAreBoundaries DEF Clean, Texts, Boundaries
<1>2. /\ Clean(t) /\ Len(t) = u - f
      /\ \A b \in Boundaries(s) : b \in f .. u => b - f \in Boundaries(t)
      /\ \A b \in Boundaries(s) : b \in f .. u /\ b # u => After(t, b - f) = After(s, b) - f
      /\ \A a \in f .. u : \A b \in a .. u : Bytes(t, a - f, b - f) = Bytes(s, a, b)
  BY CutBoundaries
<1> HIDE DEF t
<1>3. /\ \A o : BegunBefore(s, o) \in Nat
      /\ \A c \in Boundaries(s) : c # Len(s) => BegunBefore(s, After(s, c)) = BegunBefore(s, c) + 1
      /\ \A c, d \in Boundaries(s) : c < d => BegunBefore(s, c) < BegunBefore(s, d)
  BY BegunFacts
<1>4. /\ \A o : BegunBefore(t, o) \in Nat
      /\ BegunBefore(t, 0) = 0
      /\ \A c \in Boundaries(t) : c # Len(t) => BegunBefore(t, After(t, c)) = BegunBefore(t, c) + 1
  BY <1>2, BegunFacts
<1> DEFINE wrong == {b \in Boundaries(s) : b \in f .. u /\ BegunBefore(t, b - f) # BegunBefore(s, b) - low}
<1>5. wrong = {}
  <2>1. SUFFICES ASSUME wrong # {} PROVE FALSE
    OBVIOUS
  <2>2. PICK b \in wrong : \A k \in wrong : b <= k
    <3>1. wrong \in SUBSET (0 .. Len(s)) /\ 0 \in Int /\ Len(s) \in Int
      BY <1>1
    <3> HIDE DEF wrong
    <3> QED BY <2>1, <3>1, FirstExists
  <2>3. b \in Boundaries(s) /\ b \in f .. u /\ BegunBefore(t, b - f) # BegunBefore(s, b) - low
    BY <2>2
  <2>4. b # f
    <3>1. ASSUME b = f PROVE FALSE
      <4>1. b - f = 0
        BY <1>1, <3>1
      <4> QED BY <1>3, <1>4, <2>3, <3>1, <4>1
    <3> QED BY <3>1
  <2>5. f < b /\ b # 0
    BY <1>1, <2>3, <2>4
  <2>6. PICK c \in Boundaries(s) : /\ c \in 0 .. b - 1 /\ After(s, c) = b
                                   /\ \A p \in Boundaries(s) : p < b => p <= c
    BY <2>3, <2>5, BeforeCharacter
  <2>7. c \in f .. u /\ c # u /\ c # Len(s) /\ ~(b <= c)
    <3>1. f <= c
      BY <2>5, <2>6
    <3> QED BY <1>1, <2>3, <2>6, <3>1
  <2>8. BegunBefore(t, c - f) = BegunBefore(s, c) - low
    BY <2>2, <2>6, <2>7
  <2>9. c - f \in Boundaries(t) /\ c - f # Len(t) /\ After(t, c - f) = b - f
    BY <1>1, <1>2, <2>6, <2>7
  <2>10. BegunBefore(t, b - f) = BegunBefore(t, c - f) + 1
    BY <1>4, <2>9
  <2>11. BegunBefore(s, b) = BegunBefore(s, c) + 1
    BY <1>3, <2>6, <2>7
  <2> HIDE DEF wrong
  <2>12. /\ BegunBefore(t, c - f) \in Nat /\ BegunBefore(s, c) \in Nat /\ low \in Nat
         /\ BegunBefore(s, b) \in Nat /\ BegunBefore(t, b - f) \in Nat
    BY <1>3, <1>4
  <2> HIDE DEF low
  <2> QED BY <2>3, <2>8, <2>10, <2>11, <2>12
<1>6. /\ low \in Nat /\ high \in Nat /\ low <= high /\ high <= BegunBefore(s, Len(s))
      /\ BegunBefore(s, Len(s)) \in Nat
  <2>1. f = u \/ f < u
    BY <1>1
  <2>2. u = Len(s) \/ u < Len(s)
    BY <1>1
  <2> QED BY <1>1, <1>3, <2>1, <2>2
<1>7. BegunBefore(t, Len(t)) = high - low
  <2>1. u \in f .. u
    BY <1>1
  <2> QED BY <1>2, <1>5, <2>1
<1>8. ASSUME NEW i \in low .. high
      PROVE  /\ Beginning(s, i) \in Boundaries(s) /\ Beginning(s, i) \in f .. u
             /\ Beginning(t, i - low) = Beginning(s, i) - f
  <2>1. PICK b : b = Beginning(s, i)
    OBVIOUS
  <2>2. b \in Boundaries(s) /\ BegunBefore(s, b) = i
    <3>1. i \in 0 .. BegunBefore(s, Len(s))
      BY <1>6
    <3> QED BY <2>1, <3>1, BeginningIs
  <2>3. b \in f .. u
    <3>1. ~(b < f) /\ ~(u < b)
      BY <1>3, <1>6, <2>2
    <3> QED BY <1>1, <2>2, <3>1
  <2>4. b - f \in Boundaries(t) /\ BegunBefore(t, b - f) = i - low
    BY <1>2, <1>5, <2>2, <2>3
  <2>5. Beginning(t, BegunBefore(t, b - f)) = b - f
    BY <1>2, <2>4, BeginningIs
  <2> QED BY <2>1, <2>2, <2>3, <2>4, <2>5
<1>9. ASSUME NEW j \in 1 .. high - low
      PROVE  Bytes(t, Beginning(t, j - 1), Beginning(t, j)) = Characters(s)[low + j]
  <2>1. /\ low + j - 1 \in low .. high /\ low + j \in low .. high
        /\ (low + j - 1) - low = j - 1 /\ (low + j) - low = j
        /\ low + j \in 1 .. BegunBefore(s, Len(s))
        /\ low + j - 1 \in 0 .. BegunBefore(s, Len(s)) - 1 /\ (low + j - 1) + 1 = low + j
    BY <1>6
  <2>2. PICK a, b : a = Beginning(s, low + j - 1) /\ b = Beginning(s, low + j)
    OBVIOUS
  <2>3. /\ a \in Boundaries(s) /\ a \in f .. u /\ b \in f .. u
        /\ Beginning(t, j - 1) = a - f /\ Beginning(t, j) = b - f
    BY <1>8, <2>1, <2>2
  <2>4. a # Len(s) /\ b = After(s, a)
    BY <2>1, <2>2, BeginningIs
  <2>5. b \in a .. u
    BY <1>1, <2>3, <2>4, AfterCharacter
  <2>6. Bytes(t, a - f, b - f) = Bytes(s, a, b)
    BY <1>2, <2>3, <2>5
  <2> QED BY <2>1, <2>2, <2>3, <2>6 DEF Characters
<1> HIDE DEF low, high
<1>10. Characters(t) = [j \in 1 .. high - low |-> Characters(s)[low + j]]
  BY <1>7, <1>9 DEF Characters
<1> QED BY <1>10 DEF t, low, high

LEMMA SubstringCharacters ==
  ASSUME NEW s, Clean(s), NEW i \in 1 .. Len(Characters(s)), NEW n \in 0 .. Len(Characters(s)) - i + 1
  PROVE  Characters(Substr(s, i - 1, n)) = SubSeq(Characters(s), i, i + n - 1)
<1> DEFINE last == BegunBefore(s, Len(s))
<1>1. last \in Nat /\ s \in Texts
  BY BegunFacts DEF Clean
<1>2. Len(Characters(s)) = last
  BY <1>1 DEF Characters
<1>3. /\ i \in 1 .. last /\ n \in Nat /\ i - 1 \in 0 .. last /\ i - 1 + n \in 0 .. last
      /\ i - 1 <= i - 1 + n /\ n # NPos
  BY <1>1, <1>2 DEF NPos
<1>4. SubSeq(Characters(s), i, i + n - 1) = [j \in 1 .. n |-> Characters(s)[(i - 1) + j]]
  <2>1. /\ (i + n - 1) - i + 1 = n
        /\ \A j \in 1 .. n : i + j - 1 = (i - 1) + j
    BY <1>3
  <2> HIDE DEF last
  <2>2. SubSeq(Characters(s), i, i + n - 1) = [j \in 1 .. (i + n - 1) - i + 1 |-> Characters(s)[i + j - 1]]
    BY <1>3
  <2> QED BY <2>1, <2>2
<1>5. PICK f, u : f = Beginning(s, i - 1) /\ u = Beginning(s, i - 1 + n)
  OBVIOUS
<1>6. /\ f \in Boundaries(s) /\ BegunBefore(s, f) = i - 1
      /\ u \in Boundaries(s) /\ BegunBefore(s, u) = i - 1 + n
      /\ Boundaries(s) \subseteq 0 .. Len(s) /\ Len(s) \in Nat
  BY <1>1, <1>3, <1>5, BeginningIs, EndsAreBoundaries DEF Boundaries
<1>7. f <= u
  <2>1. u < f => BegunBefore(s, u) < BegunBefore(s, f)
    BY <1>6, BegunFacts
  <2> QED BY <1>3, <1>6, <2>1
<1>8. Substr(s, i - 1, n) = Bytes(s, f, u)
  <2>1. Utf8ToOffset(s, i - 1) = f /\ Utf8ToOffset(s, (i - 1) + n) = u
    BY <1>3, <1>5, OffsetOfIndex
  <2>2. CASE n = 0
    <3>1. f = u
      BY <1>5, <2>2, <1>3
    <3>2. Bytes(s, f, u) = <<>>
      BY <1>6, <3>1 DEF Bytes, Clean, Texts
    <3> QED BY <2>2, <3>2 DEF Substr
  <2>3. CASE n # 0
    BY <1>3, <2>1, <2>3 DEF Substr
  <2> QED BY <2>2, <2>3
<1>9. Characters(Bytes(s, f, u)) =
        [j \in 1 .. (i - 1 + n) - (i - 1) |-> Characters(s)[(i - 1) + j]]
  BY <1>6, <1>7, CutCharacters
<1>10. (i - 1 + n) - (i - 1) = n
  BY <1>3
<1> QED BY <1>4, <1>8, <1>9, <1>10

LEMMA SearchesFind ==
  ASSUME NEW s, Clean(s), NEW o \in Boundaries(s), NEW ch
  PROVE  LET on    == {p \in Boundaries(s) \ {Len(s)} : Characters(s)[BegunBefore(s, p) + 1] = ch}
             off   == (Boundaries(s) \ {Len(s)}) \ on
             FirstOf(h) == {p \in h : p >= o /\ \A q \in h : q >= o => p <= q}
             LastOf(h)  == {p \in h : p < o /\ \A q \in h : q < o => q <= p}
             Same(found, want) == IF want = {} THEN found = NPos ELSE found \in want
         IN  /\ Same(FindFirstOf(s, ch, o), FirstOf(on))
             /\ Same(FindFirstNotOf(s, ch, o), FirstOf(off))
             /\ Same(FindLastOf(s, ch, o), LastOf(on))
             /\ Same(FindLastNotOf(s, ch, o), LastOf(off))
<1> DEFINE on    == {p \in Boundaries(s) \ {Len(s)} : Characters(s)[BegunBefore(s, p) + 1] = ch}
           off   == (Boundaries(s) \ {Len(s)}) \ on
           FirstOf(h) == {p \in h : p >= o /\ \A q \in h : q >= o => p <= q}
           LastOf(h)  == {p \in h : p < o /\ \A q \in h : q < o => q <= p}
           Same(found, want) == IF want = {} THEN found = NPos ELSE found \in want
<1>1. Boundaries(s) \subseteq 0 .. Len(s) /\ Len(s) \in Nat /\ o \in Int /\ 0 \in Int /\ Len(s) \in Int
  BY EndsAreBoundaries DEF Boundaries, Clean
<1>2. ASSUME NEW p \in Boundaries(s) \ {Len(s)}
      PROVE  Characters(s)[BegunBefore(s, p) + 1] = Bytes(s, p, After(s, p))
  <2>1. PICK i : i = BegunBefore(s, p)
    OBVIOUS
  <2>2. /\ BegunBefore(s, Len(s)) \in Nat /\ i \in Nat /\ i < BegunBefore(s, Len(s))
        /\ Beginning(s, i) = p
    <3>1. p < Len(s) /\ Len(s) \in Boundaries(s)
      BY <1>1, EndsAreBoundaries DEF Clean
    <3> QED BY <2>1, <3>1, BegunFacts, BeginningIs
  <2>3. i + 1 \in 1 .. BegunBefore(s, Len(s)) /\ i \in 0 .. BegunBefore(s, Len(s)) - 1 /\ (i + 1) - 1 = i
    BY <2>2
  <2>4. Beginning(s, i + 1) = After(s, p)
    BY <2>2, <2>3, BeginningIs
  <2> QED BY <2>1, <2>2, <2>3, <2>4 DEF Characters
<1>3. on = Hits(s, ch, TRUE) /\ off = Hits(s, ch, FALSE)
  BY <1>2 DEF Hits
<1>4. on \subseteq Boundaries(s) /\ off \subseteq Boundaries(s)
  OBVIOUS
<1> HIDE DEF on, off
<1>5. ASSUME NEW h \in SUBSET Boundaries(s), NEW found, FirstFrom(h, o, found)
      PROVE  Same(found, FirstOf(h))
  <2>1. CASE \A q \in h : q < o
    <3>1. ASSUME NEW q \in h PROVE q \in Int
      BY <1>1
    <3>2. \A q \in h : ~(q >= o)
      BY <1>1, <2>1, <3>1
    <3>3. FirstOf(h) = {}
      BY <3>2
    <3> QED BY <1>5, <2>1, <3>3 DEF FirstFrom
  <2>2. CASE ~\A q \in h : q < o
    BY <1>5, <2>2 DEF FirstFrom
  <2> QED BY <2>1, <2>2
<1>6. ASSUME NEW h \in SUBSET Boundaries(s), NEW found, LastBefore(h, o, found)
      PROVE  Same(found, LastOf(h))
  <2>1. CASE \A q \in h : q >= o
    <3>1. ASSUME NEW q \in h PROVE q \in Int
      BY <1>1
    <3>2. \A q \in h : ~(q < o)
      BY <1>1, <2>1, <3>1
    <3>3. LastOf(h) = {}
      BY <3>2
    <3> QED BY <1>6, <2>1, <3>3 DEF LastBefore
  <2>2. CASE ~\A q \in h : q >= o
    BY <1>6, <2>2 DEF LastBefore
  <2> QED BY <2>1, <2>2
<1> HIDE DEF Same, FirstOf, LastOf
<1>7. Same(FindFirstOf(s, ch, o), FirstOf(on)) /\ Same(FindFirstNotOf(s, ch, o), FirstOf(off))
  BY <1>3, <1>4, <1>5, ForwardFinds DEF FindFirstOf, FindFirstNotOf
<1>8. Same(FindLastOf(s, ch, o), LastOf(on)) /\ Same(FindLastNotOf(s, ch, o), LastOf(off))
  BY <1>3, <1>4, <1>6, BackwardFinds DEF FindLastOf, FindLastNotOf
<1> QED BY <1>7, <1>8 DEF Same, FirstOf, LastOf, on, off

LEMMA WalksAgree ==
  ASSUME edit.text \in Texts
  PROVE  WalksCountCharacters
<1> DEFINE s == edit.text
           cs == Characters(s)
<1>1. SUFFICES ASSUME WellFormed(s) PROVE WalksCountCharacters
  BY DEF WalksCountCharacters
<1>2. Clean(s) /\ Len(s) \in Boundaries(s)
  BY <1>1, EndsAreBoundaries DEF Clean
<1>3. CodepointCount(s) = Len(cs)
  <2>1. BegunBefore(s, Len(s)) \in Nat
    BY <1>2, BegunFacts
  <2>2. Len(cs) = BegunBefore(s, Len(s))
    BY <2>1 DEF Characters
  <2> QED BY <1>2, <2>2, CountOfOffset DEF CodepointCount
<1>4. ASSUME NEW o \in Boundaries(s) PROVE Utf8ToOffset(s, OffsetToUTF8Len(s, o)) = o
  <2>1. OffsetToUTF8Len(s, o) = BegunBefore(s, o)
    BY <1>2, CountOfOffset
  <2>2. BegunBefore(s, o) \in 0 .. BegunBefore(s, Len(s)) /\ Beginning(s, BegunBefore(s, o)) = o
    BY <1>2, BeginningIs
  <2> QED BY <1>2, <2>1, <2>2, OffsetOfIndex
<1>5. \A i \in 1 .. Len(cs) : \A n \in 0 .. Len(cs) - i + 1 :
         Characters(Substr(s, i - 1, n)) = SubSeq(cs, i, i + n - 1)
  BY <1>2, SubstringCharacters
<1>6. \A o \in Boundaries(s), ch \in Typed \cup {cs[i] : i \in 1 .. Len(cs)} :
        LET on    == {p \in Boundaries(s) \ {Len(s)} : cs[BegunBefore(s, p) + 1] = ch}
            off   == (Boundaries(s) \ {Len(s)}) \ on
            FirstOf(h) == {p \in h : p >= o /\ \A q \in h : q >= o => p <= q}
            LastOf(h)  == {p \in h : p < o /\ \A q \in h : q < o => q <= p}
            Same(found, want) == IF want = {} THEN found = NPos ELSE found \in want
        IN  /\ Same(FindFirstOf(s, ch, o), FirstOf(on))
            /\ Same(FindFirstNotOf(s, ch, o), FirstOf(off))
            /\ Same(FindLastOf(s, ch, o), LastOf(on))
            /\ Same(FindLastNotOf(s, ch, o), LastOf(off))
  BY <1>2, SearchesFind
<1> QED BY <1>3, <1>4, <1>5, <1>6 DEF WalksCountCharacters

----------------------------------------------------------------------------
\* What the edits do to the fields

Selecting(e, b, n) == [e EXCEPT !.selectBegin = b, !.selectEnd = n]

LEMMA SelectFields ==
  ASSUME NEW e \in Edits, NEW b \in Int, NEW n \in Int
  PROVE  LET c == Selecting(e, b, n)
         IN  /\ c \in Edits /\ c.text = e.text /\ c.cursor = e.cursor /\ c.imText = e.imText
             /\ c.selectBegin = b /\ c.selectEnd = n
<1> DEFINE c == [[e EXCEPT !.selectBegin = b] EXCEPT !.selectEnd = n]
<1>1. Selecting(e, b, n) = c
  BY DEF Selecting
<1>2. /\ c \in Edits /\ c.text = e.text /\ c.cursor = e.cursor /\ c.imText = e.imText
      /\ c.selectBegin = b /\ c.selectEnd = n
  BY DEF Edits
<1> QED BY <1>1, <1>2

LEMMA ClearSelectFields ==
  ASSUME NEW e \in Edits
  PROVE  LET c == ClearSelect(e)
         IN  /\ c \in Edits /\ c.text = e.text /\ c.cursor = e.cursor /\ c.imText = e.imText
             /\ c.selectBegin = NoOffset /\ c.selectEnd = NoOffset /\ ~HasSelect(c)
<1> DEFINE c == [[e EXCEPT !.selectBegin = NoOffset] EXCEPT !.selectEnd = NoOffset]
<1>1. NoOffset \in Int
  BY DEF NoOffset
<1>2. ClearSelect(e) = c
  BY DEF ClearSelect
<1>3. /\ c \in Edits /\ c.text = e.text /\ c.cursor = e.cursor /\ c.imText = e.imText
      /\ c.selectBegin = NoOffset /\ c.selectEnd = NoOffset
  BY <1>1 DEF Edits
<1> HIDE DEF c
<1>4. ~HasSelect(c)
  BY <1>3 DEF HasSelect, NoOffset
<1> QED BY <1>2, <1>3, <1>4

LEMMA CursorFields ==
  ASSUME NEW e \in Edits, NEW to \in Int
  PROVE  LET c == [e EXCEPT !.cursor = to]
         IN  /\ c \in Edits /\ c.text = e.text /\ c.cursor = to /\ c.imText = e.imText
             /\ c.selectBegin = e.selectBegin /\ c.selectEnd = e.selectEnd
             /\ (HasSelect(c) <=> HasSelect(e))
BY DEF Edits, HasSelect

LEMMA UpdateCursorFields ==
  ASSUME NEW e \in Edits
  PROVE  LET c == UpdateCursor(e)
         IN  /\ c \in Edits /\ c.text = e.text /\ c.imText = e.imText
             /\ c.selectBegin = e.selectBegin /\ c.selectEnd = e.selectEnd
             /\ (HasSelect(c) <=> HasSelect(e))
             /\ c.cursor = (IF e.cursor > Len(e.text) THEN Len(e.text) ELSE e.cursor)
             /\ c.cursor <= Len(c.text)
<1>1. e.text \in Texts /\ Len(e.text) \in Nat /\ e.cursor \in Int
  BY EndsAreBoundaries DEF Edits
<1> DEFINE to == IF e.cursor > Len(e.text) THEN Len(e.text) ELSE e.cursor
<1>2. to \in Int /\ to <= Len(e.text)
  BY <1>1
<1>3. UpdateCursor(e) = [e EXCEPT !.cursor = to]
  BY DEF UpdateCursor
<1> QED BY <1>2, <1>3, CursorFields

\* The cursor and the selection are within the text.
InText(e) ==
  /\ e.cursor \in 0 .. Len(e.text)
  /\ HasSelect(e) => e.selectEnd <= Len(e.text)

\* They are between characters, and the selection ends at the cursor.
Sound(e) ==
  /\ WellFormed(e.text) /\ e.cursor \in Boundaries(e.text)
  /\ HasSelect(e) => /\ e.selectBegin \in Boundaries(e.text) /\ e.selectEnd \in Boundaries(e.text)
                     /\ e.cursor \in {e.selectBegin, e.selectEnd}

\* UpdateCursor changes nothing that fits.
LEMMA UpdateKeeps ==
  ASSUME NEW e \in Edits, e.cursor \in 0 .. Len(e.text)
  PROVE  UpdateCursor(e) = e
<1>1. e.text \in Texts /\ Len(e.text) \in Nat /\ e.cursor \in Int /\ ~(e.cursor > Len(e.text))
  BY EndsAreBoundaries DEF Edits
<1>2. UpdateCursor(e) = [e EXCEPT !.cursor = e.cursor]
  BY <1>1 DEF UpdateCursor
<1> QED BY <1>2 DEF Edits

\* A string without the bytes from b to n, and one with x put in at c
LEMMA CutOut ==
  ASSUME NEW s \in Texts, NEW b \in 0 .. Len(s), NEW n \in b .. Len(s)
  PROVE  LET t == Bytes(s, 0, b) \o Bytes(s, n, Len(s))
         IN  /\ t \in Texts /\ b \in 0 .. Len(t)
             /\ (WellFormed(s) /\ b \in Boundaries(s) /\ n \in Boundaries(s))
                  => WellFormed(t) /\ b \in Boundaries(t)
<1>1. /\ Len(s) \in Nat /\ b \in Nat /\ n \in Nat /\ b <= n /\ n <= Len(s)
      /\ 0 \in 0 .. Len(s) /\ n \in 0 .. Len(s) /\ Len(s) \in n .. Len(s)
  BY DEF Texts
<1>2. PICK front : front = Bytes(s, 0, b)
  OBVIOUS
<1>3. PICK back : back = Bytes(s, n, Len(s))
  OBVIOUS
<1>4. front \in Texts /\ Len(front) = b /\ back \in Texts /\ Len(back) = Len(s) - n
  <2>1. front \in Texts /\ Len(front) = b - 0
    BY <1>1, <1>2, CutString
  <2>2. back \in Texts /\ Len(back) = Len(s) - n
    BY <1>1, <1>3, CutString
  <2> QED BY <1>1, <2>1, <2>2
<1>5. front \o back \in Texts /\ b \in 0 .. Len(front \o back)
  BY <1>1, <1>4, JoinStrings
<1>6. ASSUME WellFormed(s), b \in Boundaries(s), n \in Boundaries(s)
      PROVE  WellFormed(front \o back) /\ b \in Boundaries(front \o back)
  <2>1. WellFormed(front) /\ WellFormed(back)
    BY <1>1, <1>2, <1>3, <1>6, CutWellFormed, EndsAreBoundaries
  <2>2. 0 \in Boundaries(back) /\ Len(front) + 0 = b
    BY <1>1, <1>4, <2>1, EndsAreBoundaries
  <2> QED BY <1>4, <2>1, <2>2, JoinWellFormed
<1> QED BY <1>2, <1>3, <1>5, <1>6

LEMMA PutIn ==
  ASSUME NEW s \in Texts, NEW c \in 0 .. Len(s), NEW x \in Texts
  PROVE  LET t == Bytes(s, 0, c) \o x \o Bytes(s, c, Len(s))
         IN  /\ t \in Texts /\ Len(t) = Len(s) + Len(x) /\ c + Len(x) \in 0 .. Len(t)
             /\ x = <<>> => t = s
             /\ (WellFormed(s) /\ c \in Boundaries(s) /\ WellFormed(x))
                  => WellFormed(t) /\ c + Len(x) \in Boundaries(t)
<1>1. /\ Len(s) \in Nat /\ c \in Nat /\ c <= Len(s) /\ Len(x) \in Nat
      /\ 0 \in 0 .. Len(s) /\ c \in 0 .. c /\ Len(s) \in c .. Len(s)
  BY DEF Texts
<1>2. PICK front : front = Bytes(s, 0, c)
  OBVIOUS
<1>3. PICK back : back = Bytes(s, c, Len(s))
  OBVIOUS
<1>4. /\ front \in Texts /\ Len(front) = c /\ back \in Texts /\ Len(back) = Len(s) - c
      /\ \A i \in 1 .. c : front[i] = s[i]
      /\ \A i \in 1 .. Len(s) - c : back[i] = s[c + i]
  <2>1. front \in Texts /\ Len(front) = c - 0 /\ \A i \in 1 .. c - 0 : front[i] = s[0 + i]
    BY <1>1, <1>2, CutString
  <2>2. \A i \in 1 .. c : 0 + i = i
    OBVIOUS
  <2>3. c - 0 = c
    BY <1>1
  <2>4. back \in Texts /\ Len(back) = Len(s) - c /\ \A i \in 1 .. Len(s) - c : back[i] = s[c + i]
    BY <1>1, <1>3, CutString
  <2> QED BY <2>1, <2>2, <2>3, <2>4
<1>5. PICK head : head = front \o x
  OBVIOUS
<1>6. head \in Texts /\ Len(head) = c + Len(x)
  BY <1>4, <1>5, JoinStrings
<1>7. PICK t : t = head \o back
  OBVIOUS
<1>8. t \in Texts /\ Len(t) = Len(s) + Len(x) /\ c + Len(x) \in 0 .. Len(t)
  <2>1. t \in Texts /\ Len(t) = Len(head) + Len(back)
    BY <1>4, <1>6, <1>7, JoinStrings
  <2> QED BY <1>1, <1>4, <1>6, <2>1
<1>9. ASSUME x = <<>> PROVE t = s
  <2>1. Len(x) = 0 /\ head = front
    <3>1. front \o <<>> = front
      BY <1>4 DEF Texts
    <3> QED BY <1>5, <1>9, <3>1
  <2>2. Len(t) = Len(s)
    BY <1>1, <1>8, <2>1
  <2>3. ASSUME NEW i \in 1 .. Len(s) PROVE t[i] = s[i]
    <3>1. CASE i <= c
      <4>1. i \in 1 .. c
        BY <1>1, <2>3, <3>1
      <4> QED BY <1>4, <1>7, <2>1, <4>1, JoinStrings
    <3>2. CASE ~(i <= c)
      <4>1. PICK j : j = i - c
        OBVIOUS
      <4>2. j \in 1 .. Len(s) - c /\ c + j = i
        BY <1>1, <2>3, <3>2, <4>1
      <4>3. t[c + j] = back[j]
        <5>1. \A k \in 1 .. Len(back) : (front \o back)[Len(front) + k] = back[k]
          BY <1>4, JoinStrings
        <5> QED BY <1>4, <1>7, <2>1, <4>2, <5>1
      <4> QED BY <1>4, <4>2, <4>3
    <3> QED BY <3>1, <3>2
  <2> QED BY <1>8, <2>2, <2>3 DEF Texts
<1>10. ASSUME WellFormed(s), c \in Boundaries(s), WellFormed(x)
       PROVE  WellFormed(t) /\ c + Len(x) \in Boundaries(t)
  <2>1. WellFormed(front) /\ WellFormed(back)
    BY <1>1, <1>2, <1>3, <1>10, CutWellFormed, EndsAreBoundaries
  <2>2. WellFormed(head)
    BY <1>4, <1>5, <1>10, <2>1, JoinWellFormed
  <2>3. 0 \in Boundaries(back) /\ Len(head) + 0 = c + Len(x)
    BY <1>1, <1>4, <1>6, <2>1, EndsAreBoundaries
  <2> QED BY <1>4, <1>6, <1>7, <2>1, <2>2, <2>3, JoinWellFormed
<1>11. t = Bytes(s, 0, c) \o x \o Bytes(s, c, Len(s))
  BY <1>2, <1>3, <1>5, <1>7
<1> QED BY <1>8, <1>9, <1>10, <1>11

LEMMA RemoveSelected ==
  ASSUME NEW e \in Edits, InText(e)
  PROVE  LET r == RemoveSelectedText(e)
         IN  /\ r \in Edits /\ InText(r) /\ ~HasSelect(r) /\ r.imText = e.imText
             /\ Sound(e) => Sound(r)
<1> DEFINE r == RemoveSelectedText(e)
<1>1. /\ e.text \in Texts /\ Len(e.text) \in Nat /\ e.cursor \in Int
      /\ e.selectBegin \in Int /\ e.selectEnd \in Int
  BY EndsAreBoundaries DEF Edits
<1>2. CASE ~HasSelect(e)
  <2>1. r = e
    BY <1>2 DEF RemoveSelectedText
  <2> QED BY <1>2, <2>1
<1>3. CASE HasSelect(e)
  <2>1. e.selectBegin \in 0 .. Len(e.text) /\ e.selectEnd \in e.selectBegin .. Len(e.text)
    BY <1>1, <1>3 DEF HasSelect, InText
  <2>2. PICK t : t = Bytes(e.text, 0, e.selectBegin) \o Bytes(e.text, e.selectEnd, Len(e.text))
    OBVIOUS
  <2>3. /\ t \in Texts /\ e.selectBegin \in 0 .. Len(t)
        /\ (WellFormed(e.text) /\ e.selectBegin \in Boundaries(e.text) /\ e.selectEnd \in Boundaries(e.text))
             => WellFormed(t) /\ e.selectBegin \in Boundaries(t)
    BY <1>1, <2>1, <2>2, CutOut
  <2> DEFINE c == [[e EXCEPT !.text = t] EXCEPT !.cursor = e.selectBegin]
  <2>4. r = ClearSelect(c)
    BY <1>3, <2>2 DEF RemoveSelectedText
  <2>5. c \in Edits /\ c.text = t /\ c.cursor = e.selectBegin /\ c.imText = e.imText
    BY <1>1, <2>3 DEF Edits
  <2> HIDE DEF c, r
  <2>6. /\ r \in Edits /\ r.text = t /\ r.cursor = e.selectBegin /\ r.imText = e.imText
        /\ ~HasSelect(r)
    BY <2>4, <2>5, ClearSelectFields
  <2>7. Sound(e) => Sound(r)
    BY <1>3, <2>3, <2>6 DEF Sound
  <2> QED BY <2>3, <2>6, <2>7 DEF r, InText
<1> QED BY <1>2, <1>3

LEMMA Inserted ==
  ASSUME NEW e \in Edits, InText(e), NEW s \in Texts
  PROVE  LET r == InsertText(e, s)
         IN  /\ r \in Edits /\ InText(r) /\ (HasSelect(r) <=> HasSelect(e)) /\ r.imText = e.imText
             /\ r.selectBegin = e.selectBegin /\ r.selectEnd = e.selectEnd
             /\ s = <<>> => r = e
             /\ (Sound(e) /\ WellFormed(s) /\ ~HasSelect(e)) => Sound(r)
<1> DEFINE r == InsertText(e, s)
<1>1. /\ e.text \in Texts /\ Len(e.text) \in Nat /\ e.cursor \in Int /\ Len(s) \in Nat
      /\ e.selectBegin \in Int /\ e.selectEnd \in Int /\ e.cursor \in 0 .. Len(e.text)
      /\ e.cursor + Len(s) \in Int
  BY EndsAreBoundaries DEF Edits, InText
<1>2. PICK t : t = Bytes(e.text, 0, e.cursor) \o s \o Bytes(e.text, e.cursor, Len(e.text))
  OBVIOUS
<1>3. PICK to : to = e.cursor + Len(s)
  OBVIOUS
<1>4. /\ t \in Texts /\ Len(t) = Len(e.text) + Len(s) /\ to \in 0 .. Len(t) /\ to \in Int
      /\ s = <<>> => t = e.text
      /\ (WellFormed(e.text) /\ e.cursor \in Boundaries(e.text) /\ WellFormed(s))
           => WellFormed(t) /\ to \in Boundaries(t)
  BY <1>1, <1>2, <1>3, PutIn
<1> DEFINE c == [[e EXCEPT !.text = t] EXCEPT !.cursor = to]
<1>5. r = c
  BY <1>2, <1>3 DEF InsertText
<1>6. /\ c \in Edits /\ c.text = t /\ c.cursor = to /\ c.imText = e.imText
      /\ c.selectBegin = e.selectBegin /\ c.selectEnd = e.selectEnd
  BY <1>4 DEF Edits
<1>7. s = <<>> => c = e
  <2>1. s = <<>> => to = e.cursor /\ t = e.text
    BY <1>1, <1>3, <1>4
  <2> QED BY <2>1 DEF Edits
<1> HIDE DEF c, r
<1>8. (HasSelect(c) <=> HasSelect(e))
  BY <1>6 DEF HasSelect
<1>9. InText(c)
  BY <1>1, <1>4, <1>6, <1>8 DEF InText
<1>10. (Sound(e) /\ WellFormed(s) /\ ~HasSelect(e)) => Sound(c)
  BY <1>4, <1>6, <1>8 DEF Sound
<1> QED BY <1>5, <1>6, <1>7, <1>8, <1>9, <1>10 DEF r

----------------------------------------------------------------------------
\* The inductive invariant

EditTypes ==
  /\ edit \in Edits /\ strayed \in BOOLEAN
  /\ opts \in [multiline : BOOLEAN, password : BOOLEAN, eyeIcon : BOOLEAN]

EditIInv ==
  /\ EditTypes /\ InText(edit) /\ WellFormed(edit.imText)
  /\ ~strayed => Sound(edit)
  /\ EditsAreReported

\* Two selections of one text that share the end away from the cursor
SpansFrom(e, r) ==
  (HasSelect(e) /\ HasSelect(r)) => {r.selectBegin, r.selectEnd} = {Anchor(e), r.cursor}

\* What may follow e when the cursor moves or the selection changes
MayFollow(e, r) ==
  /\ r \in Edits /\ InText(r) /\ r.text = e.text /\ r.imText = e.imText
  /\ (Sound(e) /\ r.cursor \in Boundaries(e.text)) => Sound(r)

\* e with its cursor elsewhere
MovedTo(e, to, x) ==
  /\ x \in Edits /\ x.text = e.text /\ x.cursor = to /\ x.imText = e.imText
  /\ x.selectBegin = e.selectBegin /\ x.selectEnd = e.selectEnd /\ (HasSelect(x) <=> HasSelect(e))

LEMMA ExtendSelectFollows ==
  ASSUME NEW e \in Edits, InText(e), NEW to \in 0 .. Len(e.text), NEW first, NEW second,
         (first = to /\ second = e.cursor) \/ (first = e.cursor /\ second = to), NEW x, MovedTo(e, to, x),
         NEW r, r = ExtendSelect(x, e.cursor, first, second)
  PROVE  MayFollow(e, r) /\ r.cursor = to /\ (Sound(e) => SpansFrom(e, r))
<1> DEFINE old == e.cursor
           b == IF old = e.selectEnd THEN e.selectBegin ELSE to
           n == IF old = e.selectEnd THEN to ELSE e.selectEnd
           low  == IF b < n THEN b ELSE n
           high == IF b < n THEN n ELSE b
<1>1. /\ e.text \in Texts /\ Len(e.text) \in Nat /\ e.cursor \in Int /\ e.cursor \in 0 .. Len(e.text)
      /\ e.selectBegin \in Int /\ e.selectEnd \in Int /\ to \in Int
  BY EndsAreBoundaries DEF Edits, InText
<1>2. /\ x \in Edits /\ x.text = e.text /\ x.cursor = to /\ x.imText = e.imText
      /\ x.selectBegin = e.selectBegin /\ x.selectEnd = e.selectEnd /\ (HasSelect(x) <=> HasSelect(e))
  BY DEF MovedTo
<1>3. CASE HasSelect(e)
  <2>1. r = Selecting(x, low, high)
    BY <1>2, <1>3 DEF ExtendSelect, Selecting
  <2>2. /\ low \in Int /\ high \in Int /\ 0 <= low /\ high <= Len(e.text) /\ {low, high} = {b, n}
    BY <1>1, <1>3 DEF HasSelect, InText
  <2>3. to \in {b, n} /\ {b, n} \subseteq {to, e.selectBegin, e.selectEnd}
    OBVIOUS
  <2>4. Sound(e) => {b, n} = {Anchor(e), to}
    BY <1>3 DEF Sound, Anchor
  <2> HIDE DEF low, high, b, n
  <2>5. /\ r \in Edits /\ r.text = x.text /\ r.cursor = x.cursor /\ r.imText = x.imText
        /\ r.selectBegin = low /\ r.selectEnd = high
    <3>1. x \in Edits /\ low \in Int /\ high \in Int
      BY <1>2, <2>2
    <3>2. PICK c : c = Selecting(x, low, high)
      OBVIOUS
    <3>3. /\ c \in Edits /\ c.text = x.text /\ c.cursor = x.cursor /\ c.imText = x.imText
          /\ c.selectBegin = low /\ c.selectEnd = high
      BY <3>1, <3>2, SelectFields
    <3> QED BY <2>1, <3>2, <3>3
  <2>6. InText(r)
    BY <1>2, <2>2, <2>5 DEF InText
  <2>7. ASSUME Sound(e), to \in Boundaries(e.text) PROVE Sound(r)
    <3>1. \A y \in {b, n} : y \in Boundaries(e.text)
      BY <1>3, <2>3, <2>7 DEF Sound
    <3>2. low \in {b, n} /\ high \in {b, n} /\ to \in {low, high}
      BY <2>2, <2>3
    <3> QED BY <1>2, <2>5, <2>7, <3>1, <3>2 DEF Sound
  <2>8. MayFollow(e, r) /\ r.cursor = to
    BY <1>2, <2>5, <2>6, <2>7 DEF MayFollow
  <2>9. Sound(e) => SpansFrom(e, r)
    BY <1>2, <2>2, <2>4, <2>5 DEF SpansFrom
  <2> QED BY <2>8, <2>9
<1>4. CASE ~HasSelect(e)
  <2>1. r = Selecting(x, first, second)
    BY <1>2, <1>4 DEF ExtendSelect, Selecting
  <2>2. /\ first \in Int /\ second \in Int /\ second <= Len(e.text)
        /\ first \in {to, e.cursor} /\ second \in {to, e.cursor} /\ to \in {first, second}
    <3>1. first \in {first, second} /\ second \in {first, second} /\ to \in {to, e.cursor}
      OBVIOUS
    <3>2. first \in {to, e.cursor} /\ second \in {to, e.cursor} /\ to \in {first, second}
      BY <3>1
    <3> QED BY <1>1, <3>2
  <2>3. /\ r \in Edits /\ r.text = x.text /\ r.cursor = x.cursor /\ r.imText = x.imText
        /\ r.selectBegin = first /\ r.selectEnd = second
    <3>1. x \in Edits /\ first \in Int /\ second \in Int
      BY <1>2, <2>2
    <3>2. PICK c : c = Selecting(x, first, second)
      OBVIOUS
    <3>3. /\ c \in Edits /\ c.text = x.text /\ c.cursor = x.cursor /\ c.imText = x.imText
          /\ c.selectBegin = first /\ c.selectEnd = second
      BY <3>1, <3>2, SelectFields
    <3> QED BY <2>1, <3>2, <3>3
  <2>4. MayFollow(e, r) /\ r.cursor = to
    BY <1>1, <1>2, <2>2, <2>3 DEF MayFollow, InText, Sound
  <2>5. SpansFrom(e, r)
    BY <1>4 DEF SpansFrom
  <2> QED BY <2>4, <2>5
<1> QED BY <1>3, <1>4

LEMMA ClearFollows ==
  ASSUME NEW e \in Edits, NEW to \in 0 .. Len(e.text)
  PROVE  LET r == ClearSelect([e EXCEPT !.cursor = to])
         IN  MayFollow(e, r) /\ r.cursor = to /\ ~HasSelect(r)
<1> DEFINE x == [e EXCEPT !.cursor = to]
<1>1. to \in Int
  OBVIOUS
<1>2. x \in Edits /\ x.text = e.text /\ x.cursor = to /\ x.imText = e.imText
  BY <1>1, CursorFields
<1> HIDE DEF x
<1>3. PICK r : r = ClearSelect(x)
  OBVIOUS
<1>4. r \in Edits /\ r.text = e.text /\ r.cursor = to /\ r.imText = e.imText /\ ~HasSelect(r)
  BY <1>2, <1>3, ClearSelectFields
<1>5. MayFollow(e, r)
  BY <1>4 DEF MayFollow, InText, Sound
<1> QED BY <1>3, <1>4, <1>5 DEF x

\* An arrow key, to a place its move found
Arrow(e, to, shift, r) ==
  r \in {ArrowBack([e EXCEPT !.cursor = to], e.cursor, shift),
         ArrowForth([e EXCEPT !.cursor = to], e.cursor, shift)}

LEMMA ArrowFollows ==
  ASSUME NEW e \in Edits, InText(e), NEW to \in 0 .. Len(e.text), NEW shift \in BOOLEAN, NEW r,
         Arrow(e, to, shift, r)
  PROVE  /\ MayFollow(e, r) /\ (Sound(e) => SpansFrom(e, r))
         /\ (Sound(e) /\ to \in Boundaries(e.text)) => Sound(r)
<1> DEFINE x == [e EXCEPT !.cursor = to]
<1>1. /\ e.text \in Texts /\ Len(e.text) \in Nat /\ e.cursor \in Int
      /\ e.selectBegin \in Int /\ e.selectEnd \in Int /\ to \in Int
  BY EndsAreBoundaries DEF Edits
<1>2. /\ x \in Edits /\ x.text = e.text /\ x.cursor = to /\ x.imText = e.imText
      /\ x.selectBegin = e.selectBegin /\ x.selectEnd = e.selectEnd /\ (HasSelect(x) <=> HasSelect(e))
  BY <1>1, CursorFields
<1>3. CASE shift
  <2>1. PICK first, second : /\ (first = to /\ second = e.cursor) \/ (first = e.cursor /\ second = to)
                             /\ r = ExtendSelect(x, e.cursor, first, second)
    BY <1>2, <1>3 DEF Arrow, ArrowBack, ArrowForth
  <2>3. PICK m : m = x
    OBVIOUS
  <2>4. MovedTo(e, to, m) /\ r = ExtendSelect(m, e.cursor, first, second)
    BY <1>2, <2>1, <2>3 DEF MovedTo
  <2> HIDE DEF x
  <2>2. MayFollow(e, r) /\ r.cursor = to /\ (Sound(e) => SpansFrom(e, r))
    BY <2>1, <2>4, ExtendSelectFollows
  <2> QED BY <2>2 DEF MayFollow
<1>4. CASE ~shift /\ HasSelect(e)
  <2>1. PICK end \in {e.selectBegin, e.selectEnd} : r = ClearSelect([x EXCEPT !.cursor = end])
    BY <1>2, <1>4 DEF Arrow, ArrowBack, ArrowForth
  <2>2. end \in 0 .. Len(e.text)
    BY <1>1, <1>4, <2>1 DEF HasSelect, InText
  <2>3. [x EXCEPT !.cursor = end] = [e EXCEPT !.cursor = end]
    BY DEF Edits
  <2>4. MayFollow(e, r) /\ r.cursor = end /\ ~HasSelect(r)
    BY <2>1, <2>2, <2>3, ClearFollows
  <2>5. Sound(e) => end \in Boundaries(e.text)
    BY <1>4, <2>1 DEF Sound
  <2> QED BY <2>4, <2>5 DEF MayFollow, SpansFrom
<1>5. CASE ~shift /\ ~HasSelect(e)
  <2>1. r = x
    BY <1>2, <1>5 DEF Arrow, ArrowBack, ArrowForth
  <2> HIDE DEF x
  <2>2. MayFollow(e, r)
    BY <1>2, <1>5, <2>1 DEF MayFollow, InText, Sound
  <2> QED BY <1>2, <1>5, <2>1, <2>2 DEF MayFollow, SpansFrom
<1> QED BY <1>3, <1>4, <1>5

\* What a step must give: the box after it, the application's text and strayed
LEMMA StepKeeps ==
  ASSUME EditIInv, NEW r \in Edits, InText(r), WellFormed(r.imText),
         edit' = r, reported' = r.text, strayed' \in BOOLEAN,
         opts' \in [multiline : BOOLEAN, password : BOOLEAN, eyeIcon : BOOLEAN],
         ~strayed' => ~strayed /\ Sound(r),
         (~strayed' /\ HasSelect(edit) /\ HasSelect(r) /\ r.text = edit.text)
           => \/ {r.selectBegin, r.selectEnd} = {Anchor(edit), r.cursor}
              \/ r.selectBegin = 0 /\ r.selectEnd = Len(edit.text)
  PROVE  EditIInv' /\ SpansAnchor
<1>1. EditIInv'
  BY DEF EditIInv, EditTypes, EditsAreReported, InText, Sound, HasSelect
<1>2. SpansAnchor
  BY DEF SpansAnchor, HasSelect
<1> QED BY <1>1, <1>2

\* A step that changes neither the text nor the preedit: the keys that move
LEMMA FollowKeeps ==
  ASSUME EditIInv, NEW r, MayFollow(edit, r), edit' = UpdateCursor(r),
         UNCHANGED <<opts, reported>>, strayed' \in BOOLEAN,
         ~strayed' => /\ ~strayed /\ (Sound(edit) => Sound(r))
                      /\ \/ Sound(edit) => SpansFrom(edit, r)
                         \/ r.selectBegin = 0 /\ r.selectEnd = Len(edit.text)
  PROVE  EditIInv' /\ SpansAnchor
<1>1. r \in Edits /\ InText(r) /\ r.text = edit.text /\ r.imText = edit.imText
  BY DEF MayFollow
<1>2. edit' = r
  BY <1>1, UpdateKeeps DEF InText
<1>3. /\ WellFormed(r.imText) /\ reported' = r.text
      /\ opts' \in [multiline : BOOLEAN, password : BOOLEAN, eyeIcon : BOOLEAN]
      /\ ~strayed' => ~strayed /\ Sound(edit) /\ Sound(r)
  BY <1>1 DEF EditIInv, EditTypes, EditsAreReported
<1>4. (~strayed' /\ HasSelect(edit) /\ HasSelect(r) /\ r.text = edit.text)
        => \/ {r.selectBegin, r.selectEnd} = {Anchor(edit), r.cursor}
           \/ r.selectBegin = 0 /\ r.selectEnd = Len(edit.text)
  BY <1>3 DEF SpansFrom
<1> QED BY <1>1, <1>2, <1>3, <1>4, StepKeeps

\* A step after which nothing is selected
LEMMA UnselectedKeeps ==
  ASSUME EditIInv, NEW r \in Edits, InText(r), ~HasSelect(r), WellFormed(r.imText),
         edit' = r, reported' = r.text, strayed' \in BOOLEAN,
         opts' \in [multiline : BOOLEAN, password : BOOLEAN, eyeIcon : BOOLEAN],
         ~strayed' => ~strayed /\ (Sound(edit) => Sound(r))
  PROVE  EditIInv' /\ SpansAnchor
<1>1. ~strayed' => ~strayed /\ Sound(r)
  BY DEF EditIInv
<1> QED BY <1>1, StepKeeps

\* The box stays as it is
LEMMA SameBoxKeeps ==
  ASSUME EditIInv, UNCHANGED <<edit, reported, strayed>>,
         opts' \in [multiline : BOOLEAN, password : BOOLEAN, eyeIcon : BOOLEAN]
  PROVE  EditIInv' /\ SpansAnchor
<1>1. EditIInv'
  BY DEF EditIInv, EditTypes, EditsAreReported
<1>2. SpansAnchor
  <2>1. ASSUME ~strayed, HasSelect(edit)
        PROVE  {edit.selectBegin, edit.selectEnd} = {Anchor(edit), edit.cursor}
    BY <2>1 DEF EditIInv, Sound, Anchor
  <2> QED BY <2>1 DEF SpansAnchor
<1> QED BY <1>1, <1>2

LEMMA ArrowKeys ==
  ASSUME EditIInv, NEW mods \in Mods, KeyLeft(mods) \/ KeyRight(mods)
  PROVE  EditIInv' /\ SpansAnchor
<1>1. edit \in Edits /\ InText(edit) /\ edit.cursor \in 0 .. Len(edit.text) /\ strayed \in BOOLEAN
  BY DEF EditIInv, EditTypes, InText
<1>2. mods.shift \in BOOLEAN /\ mods.ctrl \in BOOLEAN
  BY DEF Mods
<1>3. PICK to, r : Reaches(edit, to) /\ Arrow(edit, to, mods.shift, r) /\ Move(r)
  <2>1. CASE KeyLeft(mods)
    <3>1. PICK to : to = (IF mods.ctrl THEN MoveWordBackwards(edit) ELSE MoveCharBackwards(edit))
      OBVIOUS
    <3>2. Reaches(edit, to)
      BY <1>1, <1>2, <3>1, LineAndWordMoves, CharacterMoves
    <3>3. PICK r : r = ArrowBack([edit EXCEPT !.cursor = to], edit.cursor, mods.shift)
      OBVIOUS
    <3>4. Arrow(edit, to, mods.shift, r)
      BY <3>3 DEF Arrow
    <3>5. Move(r)
      BY <2>1, <3>1, <3>3 DEF KeyLeft
    <3> QED BY <3>2, <3>4, <3>5
  <2>2. CASE KeyRight(mods)
    <3>1. PICK to : to = (IF mods.ctrl THEN MoveWordForwards(edit) ELSE MoveCharForwards(edit))
      OBVIOUS
    <3>2. Reaches(edit, to)
      BY <1>1, <1>2, <2>2, <3>1, LineAndWordMoves, CharacterMoves DEF KeyRight
    <3>3. PICK r : r = ArrowForth([edit EXCEPT !.cursor = to], edit.cursor, mods.shift)
      OBVIOUS
    <3>4. Arrow(edit, to, mods.shift, r)
      BY <3>3 DEF Arrow
    <3>5. Move(r)
      BY <2>2, <3>1, <3>3 DEF KeyRight
    <3> QED BY <3>2, <3>4, <3>5
  <2> QED BY <2>1, <2>2
<1>4. to \in 0 .. Len(edit.text) /\ (WellFormed(edit.text) /\ edit.cursor \in Boundaries(edit.text)
                                       => to \in Boundaries(edit.text))
  BY <1>3 DEF Reaches
<1>5. /\ MayFollow(edit, r) /\ (Sound(edit) => SpansFrom(edit, r))
      /\ (Sound(edit) /\ to \in Boundaries(edit.text)) => Sound(r)
  BY <1>1, <1>2, <1>3, <1>4, ArrowFollows
<1>6. Sound(edit) => Sound(r)
  BY <1>4, <1>5 DEF Sound
<1> QED BY <1>1, <1>3, <1>5, <1>6, FollowKeeps DEF Move

LEMMA HomeAndEnd ==
  ASSUME EditIInv, KeyHome \/ KeyEnd
  PROVE  EditIInv' /\ SpansAnchor
<1>1. /\ edit \in Edits /\ edit.text \in Texts /\ Len(edit.text) \in Nat /\ strayed \in BOOLEAN
      /\ Len(edit.text) \in Boundaries(edit.text)
      /\ WellFormed(edit.text) => 0 \in Boundaries(edit.text)
  BY EndsAreBoundaries DEF EditIInv, EditTypes, Edits
<1>2. PICK to \in {0, Len(edit.text)} : Move(ClearSelect([edit EXCEPT !.cursor = to]))
  BY DEF KeyHome, KeyEnd
<1>3. to \in 0 .. Len(edit.text)
  BY <1>1
<1>4. PICK r : r = ClearSelect([edit EXCEPT !.cursor = to])
  OBVIOUS
<1>5. MayFollow(edit, r) /\ r.cursor = to /\ ~HasSelect(r)
  BY <1>1, <1>3, <1>4, ClearFollows
<1>6. Sound(edit) => Sound(r)
  BY <1>1, <1>2, <1>5 DEF MayFollow, Sound
<1>7. SpansFrom(edit, r)
  BY <1>5 DEF SpansFrom
<1> QED BY <1>1, <1>2, <1>4, <1>5, <1>6, <1>7, FollowKeeps DEF Move

LEMMA SelectAllKeeps ==
  ASSUME EditIInv, KeySelectAll
  PROVE  EditIInv' /\ SpansAnchor
<1>1. /\ edit \in Edits /\ edit.text \in Texts /\ Len(edit.text) \in Nat /\ strayed \in BOOLEAN
      /\ Len(edit.text) \in Boundaries(edit.text)
      /\ WellFormed(edit.text) => 0 \in Boundaries(edit.text)
  BY EndsAreBoundaries DEF EditIInv, EditTypes, Edits
<1>2. PICK to : to = Len(edit.text)
  OBVIOUS
<1> DEFINE r == [Selecting(edit, 0, to) EXCEPT !.cursor = to]
<1>3. Move(r)
  BY <1>2 DEF KeySelectAll, Selecting
<1>4. /\ r \in Edits /\ r.text = edit.text /\ r.cursor = to /\ r.imText = edit.imText
      /\ r.selectBegin = 0 /\ r.selectEnd = to
  <2>1. PICK c : c = Selecting(edit, 0, to)
    OBVIOUS
  <2>2. /\ c \in Edits /\ c.text = edit.text /\ c.imText = edit.imText
        /\ c.selectBegin = 0 /\ c.selectEnd = to /\ to \in Int
    BY <1>1, <1>2, <2>1, SelectFields
  <2>3. PICK q : q = [c EXCEPT !.cursor = to]
    OBVIOUS
  <2>4. /\ q \in Edits /\ q.text = c.text /\ q.cursor = to /\ q.imText = c.imText
        /\ q.selectBegin = c.selectBegin /\ q.selectEnd = c.selectEnd
    BY <2>2, <2>3, CursorFields
  <2>5. r = q
    BY <2>1, <2>3
  <2> QED BY <2>2, <2>4, <2>5
<1> HIDE DEF r
<1>5. MayFollow(edit, r)
  BY <1>1, <1>2, <1>4 DEF MayFollow, InText, Sound
<1>6. Sound(edit) => Sound(r)
  BY <1>1, <1>2, <1>4 DEF Sound
<1> QED BY <1>1, <1>2, <1>3, <1>4, <1>5, <1>6, FollowKeeps DEF Move

----------------------------------------------------------------------------
\* Positions taken from the label: anything within the text, so the cursor may stray

LEMMA HitsAreOffsets ==
  ASSUME NEW shown, NEW hit \in VecToOffset(shown)
  PROVE  hit = NoOffset \/ hit \in Nat
<1>1. CASE hit = NoOffset
  BY <1>1
<1>2. CASE hit # NoOffset
  <2>1. PICK index \in Boundaries(shown.line), trailing \in {0, 1} : hit = index + trailing
    BY <1>2 DEF VecToOffset
  <2>2. index \in Nat
    BY DEF Boundaries
  <2> QED BY <2>1, <2>2
<1> QED BY <1>1, <1>2

LEMMA SourcesAreOffsets ==
  ASSUME NEW e \in Edits, NEW o, NEW hit \in Nat
  PROVE  DisplayToSrc(e, o, hit) \in Nat
<1>1. e.text \in Texts /\ Len(e.text) \in Nat
  BY EndsAreBoundaries DEF Edits
<1>2. Utf8ToOffset(e.text, hit) \in 0 .. Len(e.text)
  BY <1>1, WalkIsInside
<1> QED BY <1>1, <1>2 DEF DisplayToSrc

LEMMA PointsKeep ==
  ASSUME EditIInv, NEW r, MayFollow(edit, r), Sound(edit) => SpansFrom(edit, r), MoveToPoint(r)
  PROVE  EditIInv' /\ SpansAnchor
<1>1. edit \in Edits /\ strayed \in BOOLEAN /\ r \in Edits /\ InText(r) /\ r.text = edit.text
  BY DEF EditIInv, EditTypes, MayFollow
<1>2. edit' = r
  BY <1>1, UpdateKeeps DEF MoveToPoint, InText
<1>3. strayed' = (strayed \/ Strays(r))
  BY <1>2 DEF MoveToPoint
<1>4. (~Strays(r) /\ Sound(edit)) => Sound(r)
  BY <1>1 DEF Strays, OnCharacter, MayFollow, Sound
<1>5. strayed' \in BOOLEAN /\ (~strayed' => ~strayed /\ (Sound(edit) => Sound(r)))
  BY <1>1, <1>3, <1>4 DEF Strays
<1> QED BY <1>5, FollowKeeps DEF MoveToPoint

LEMMA VerticalKeys ==
  ASSUME EditIInv, NEW shift \in BOOLEAN, KeyUp(shift) \/ KeyDown(shift)
  PROVE  EditIInv' /\ SpansAnchor
<1>1. /\ edit \in Edits /\ InText(edit) /\ strayed \in BOOLEAN /\ edit.cursor \in 0 .. Len(edit.text)
      /\ edit.text \in Texts /\ Len(edit.text) \in Nat
  BY EndsAreBoundaries DEF EditIInv, EditTypes, InText, Edits
<1>2. PICK hit, r : /\ hit \in VecToOffset(label) /\ MoveToPoint(r)
                    /\ r \in {ArrowBack(Vertical(hit), edit.cursor, shift),
                              ArrowForth(Vertical(hit), edit.cursor, shift)}
  BY DEF KeyUp, KeyDown
<1>3. PICK src : src = DisplayToSrc(edit, opts, hit)
  OBVIOUS
<1>4. PICK to : to = IF hit = NoOffset THEN edit.cursor
                     ELSE IF src > Len(edit.text) THEN Len(edit.text) ELSE src
  OBVIOUS
<1>5. to \in 0 .. Len(edit.text)
  <2>1. hit # NoOffset => src \in Nat
    BY <1>1, <1>2, <1>3, HitsAreOffsets, SourcesAreOffsets
  <2> QED BY <1>1, <1>4, <2>1
<1>6. Vertical(hit) = [edit EXCEPT !.cursor = to]
  BY <1>3, <1>4 DEF Vertical
<1>7. Arrow(edit, to, shift, r)
  BY <1>2, <1>6 DEF Arrow
<1>8. MayFollow(edit, r) /\ (Sound(edit) => SpansFrom(edit, r))
  BY <1>1, <1>5, <1>7, ArrowFollows
<1> QED BY <1>1, <1>2, <1>8, PointsKeep

LEMMA ClicksKeep ==
  ASSUME EditIInv, FocusCursorAtClickedChar
  PROVE  EditIInv' /\ SpansAnchor
<1>1. /\ edit \in Edits /\ InText(edit) /\ strayed \in BOOLEAN
      /\ edit.text \in Texts /\ Len(edit.text) \in Nat
  BY EndsAreBoundaries DEF EditIInv, EditTypes, Edits
<1>2. PICK hit \in VecToOffset(label) :
         LET to == IF hit = NoOffset THEN Len(edit.text) ELSE DisplayToSrc(edit, opts, hit)
         IN  MoveToPoint(ClearSelect(UpdateCursor([edit EXCEPT !.cursor = to])))
  BY DEF FocusCursorAtClickedChar
<1>3. PICK to : to = IF hit = NoOffset THEN Len(edit.text) ELSE DisplayToSrc(edit, opts, hit)
  OBVIOUS
<1>4. to \in Nat
  BY <1>1, <1>2, <1>3, HitsAreOffsets, SourcesAreOffsets
<1>5. PICK x : x = [edit EXCEPT !.cursor = to]
  OBVIOUS
<1>6. x \in Edits /\ x.text = edit.text /\ x.cursor = to /\ x.imText = edit.imText
  BY <1>1, <1>4, <1>5, CursorFields
<1>7. PICK y : y = UpdateCursor(x)
  OBVIOUS
<1>8. /\ y \in Edits /\ y.text = edit.text /\ y.imText = edit.imText
      /\ y.cursor = (IF to > Len(edit.text) THEN Len(edit.text) ELSE to)
  BY <1>6, <1>7, UpdateCursorFields
<1>9. y.cursor \in 0 .. Len(edit.text)
  BY <1>1, <1>4, <1>8
<1>10. PICK r : r = ClearSelect(y)
  OBVIOUS
<1>11. /\ r \in Edits /\ r.text = edit.text /\ r.cursor = y.cursor /\ r.imText = edit.imText
       /\ ~HasSelect(r)
  BY <1>8, <1>10, ClearSelectFields
<1>12. MayFollow(edit, r)
  BY <1>9, <1>11 DEF MayFollow, InText, Sound
<1>13. SpansFrom(edit, r)
  BY <1>11 DEF SpansFrom
<1>14. MoveToPoint(r)
  BY <1>2, <1>3, <1>5, <1>7, <1>10
<1> QED BY <1>1, <1>12, <1>13, <1>14, PointsKeep

----------------------------------------------------------------------------
\* The edits

\* An edit that selects what it removes, or removes what is selected
LEMMA EditedKeeps ==
  ASSUME EditIInv, NEW r \in Edits, InText(r), ~HasSelect(r), WellFormed(r.imText),
         Sound(edit) => Sound(r), Edited(r), strayed' = strayed
  PROVE  EditIInv' /\ SpansAnchor
<1>1. edit' = r /\ reported' = r.text /\ opts' = opts
  BY UpdateKeeps DEF Edited, InText
<1>2. /\ strayed' \in BOOLEAN
      /\ opts' \in [multiline : BOOLEAN, password : BOOLEAN, eyeIcon : BOOLEAN]
  BY <1>1 DEF EditIInv, EditTypes
<1> QED BY <1>1, <1>2, UnselectedKeeps

\* What Backspace and Delete select of a box: from the cursor to where the key reaches
LEMMA SelectedSpan ==
  ASSUME NEW e \in Edits, InText(e), NEW low \in 0 .. Len(e.text), NEW high \in 0 .. Len(e.text),
         NEW to \in {low, high},
         (Sound(e) => low \in Boundaries(e.text) /\ high \in Boundaries(e.text)),
         NEW x \in Edits, x.text = e.text, x.cursor = to, x.imText = e.imText,
         x.selectBegin = low, x.selectEnd = high
  PROVE  InText(x) /\ (Sound(e) => Sound(x))
<1>1. InText(x)
  BY DEF InText
<1>2. Sound(e) => Sound(x)
  BY DEF Sound
<1> QED BY <1>1, <1>2

LEMMA BackspaceKeeps ==
  ASSUME EditIInv, NEW mods \in Mods, KeyBackspace(mods)
  PROVE  EditIInv' /\ SpansAnchor
<1>1. /\ edit \in Edits /\ InText(edit) /\ edit.cursor \in 0 .. Len(edit.text)
      /\ edit.cursor \in Int /\ WellFormed(edit.imText)
  BY DEF EditIInv, EditTypes, InText
<1>2. PICK to : to = (IF mods.ctrl /\ mods.shift THEN MoveLineBackwards(edit)
                      ELSE IF mods.ctrl THEN MoveWordBackwards(edit) ELSE MoveCharBackwards(edit))
  OBVIOUS
<1>3. Reaches(edit, to)
  BY <1>1, <1>2, LineAndWordMoves, CharacterMoves DEF Mods
<1>4. PICK e : e = (IF HasSelect(edit) THEN edit
                    ELSE [Selecting(edit, to, edit.cursor) EXCEPT !.cursor = to])
  OBVIOUS
<1>5. Edited(RemoveSelectedText(e)) /\ strayed' = strayed
  BY <1>2, <1>4 DEF KeyBackspace, Selecting
<1>6. e \in Edits /\ InText(e) /\ e.imText = edit.imText /\ (Sound(edit) => Sound(e))
  <2>1. CASE HasSelect(edit)
    BY <1>1, <1>4, <2>1
  <2>2. CASE ~HasSelect(edit)
    <3>1. PICK at : at = edit.cursor
      OBVIOUS
    <3>2. to \in Int /\ at \in Int /\ to \in 0 .. Len(edit.text) /\ at \in 0 .. Len(edit.text)
      BY <1>1, <1>3, <3>1 DEF Reaches
    <3>3. PICK c : c = Selecting(edit, to, at)
      OBVIOUS
    <3>4. /\ c \in Edits /\ c.text = edit.text /\ c.imText = edit.imText
          /\ c.selectBegin = to /\ c.selectEnd = at
      BY <1>1, <3>2, <3>3, SelectFields
    <3>5. e = [c EXCEPT !.cursor = to]
      BY <1>4, <2>2, <3>1, <3>3
    <3>6. /\ e \in Edits /\ e.text = c.text /\ e.cursor = to /\ e.imText = c.imText
          /\ e.selectBegin = c.selectBegin /\ e.selectEnd = c.selectEnd
      BY <3>2, <3>4, <3>5, CursorFields
    <3>7. Sound(edit) => to \in Boundaries(edit.text) /\ at \in Boundaries(edit.text)
      BY <1>3, <3>1 DEF Sound, Reaches
    <3>8. InText(e) /\ (Sound(edit) => Sound(e))
      BY <1>1, <3>2, <3>4, <3>6, <3>7, SelectedSpan
    <3> QED BY <3>4, <3>6, <3>8
  <2> QED BY <2>1, <2>2
<1>7. PICK r : r = RemoveSelectedText(e)
  OBVIOUS
<1>8. r \in Edits /\ InText(r) /\ ~HasSelect(r) /\ r.imText = e.imText /\ (Sound(e) => Sound(r))
  BY <1>6, <1>7, RemoveSelected
<1>9. WellFormed(r.imText) /\ (Sound(edit) => Sound(r)) /\ Edited(r)
  BY <1>1, <1>5, <1>6, <1>7, <1>8
<1> QED BY <1>5, <1>8, <1>9, EditedKeeps

LEMMA DeleteKeeps ==
  ASSUME EditIInv, NEW mods \in Mods, KeyDelete(mods)
  PROVE  EditIInv' /\ SpansAnchor
<1>1. /\ edit \in Edits /\ InText(edit) /\ edit.cursor \in 0 .. Len(edit.text)
      /\ edit.cursor \in Int /\ WellFormed(edit.imText)
  BY DEF EditIInv, EditTypes, InText
<1>2. PICK to : to = (IF mods.ctrl /\ mods.shift THEN MoveLineForwards(edit)
                      ELSE IF mods.ctrl THEN MoveWordForwards(edit) ELSE MoveCharForwards(edit))
  OBVIOUS
<1>3. Reaches(edit, to)
  BY <1>1, <1>2, LineAndWordMoves, CharacterMoves DEF Mods, KeyDelete
<1>4. PICK e : e = (IF HasSelect(edit) THEN edit ELSE Selecting(edit, edit.cursor, to))
  OBVIOUS
<1>5. Edited(RemoveSelectedText(e)) /\ strayed' = strayed
  BY <1>2, <1>4 DEF KeyDelete, Selecting
<1>6. e \in Edits /\ InText(e) /\ e.imText = edit.imText /\ (Sound(edit) => Sound(e))
  <2>1. CASE HasSelect(edit)
    BY <1>1, <1>4, <2>1
  <2>2. CASE ~HasSelect(edit)
    <3>1. PICK at : at = edit.cursor
      OBVIOUS
    <3>2. to \in Int /\ at \in Int /\ to \in 0 .. Len(edit.text) /\ at \in 0 .. Len(edit.text)
      BY <1>1, <1>3, <3>1 DEF Reaches
    <3>3. e = Selecting(edit, at, to)
      BY <1>4, <2>2, <3>1
    <3>4. /\ e \in Edits /\ e.text = edit.text /\ e.imText = edit.imText /\ e.cursor = at
          /\ e.selectBegin = at /\ e.selectEnd = to
      BY <1>1, <3>1, <3>2, <3>3, SelectFields
    <3>5. Sound(edit) => to \in Boundaries(edit.text) /\ at \in Boundaries(edit.text)
      BY <1>3, <3>1 DEF Sound, Reaches
    <3>6. InText(e) /\ (Sound(edit) => Sound(e))
      BY <1>1, <3>2, <3>4, <3>5, SelectedSpan
    <3> QED BY <3>4, <3>6
  <2> QED BY <2>1, <2>2
<1>7. PICK r : r = RemoveSelectedText(e)
  OBVIOUS
<1>8. r \in Edits /\ InText(r) /\ ~HasSelect(r) /\ r.imText = e.imText /\ (Sound(e) => Sound(r))
  BY <1>6, <1>7, RemoveSelected
<1>9. WellFormed(r.imText) /\ (Sound(edit) => Sound(r)) /\ Edited(r)
  BY <1>1, <1>5, <1>6, <1>7, <1>8
<1> QED BY <1>5, <1>8, <1>9, EditedKeeps

LEMMA CutKeeps ==
  ASSUME EditIInv, KeyCut
  PROVE  EditIInv' /\ SpansAnchor
<1>1. edit \in Edits /\ InText(edit) /\ WellFormed(edit.imText)
  BY DEF EditIInv, EditTypes
<1>2. PICK r : r = RemoveSelectedText(edit)
  OBVIOUS
<1>3. r \in Edits /\ InText(r) /\ ~HasSelect(r) /\ r.imText = edit.imText /\ (Sound(edit) => Sound(r))
  BY <1>1, <1>2, RemoveSelected
<1>4. Edited(r) /\ strayed' = strayed
  BY <1>2 DEF KeyCut
<1> QED BY <1>1, <1>3, <1>4, EditedKeeps

LEMMA GivenTexts ==
  ASSUME NEW s \in Typed \cup Preedits \cup Pasted \cup AppTexts
  PROVE  s \in Texts /\ WellFormed(s)
BY TextAssumption DEF Texts, ByteSet

LEMMA PastedTextIsWhole ==
  ASSUME NEW s \in Texts, WellFormed(s)
  PROVE  PastedText(s) \in Texts /\ WellFormed(PastedText(s))
<1>1. PICK nl : nl = FindFirst(s, 0, IsNewline)
  OBVIOUS
<1>2. nl \in {NPos} \cup Places(s, Newline)
  BY <1>1, FindFirstFinds
<1>3. CASE opts.multiline \/ nl = NPos
  BY <1>1, <1>3 DEF PastedText
<1>4. CASE ~(opts.multiline \/ nl = NPos)
  <2>1. PastedText(s) = Bytes(s, 0, nl)
    BY <1>1, <1>4 DEF PastedText
  <2>2. nl \in 0 .. Len(s) /\ nl \in Boundaries(s) /\ 0 \in Boundaries(s) /\ Len(s) \in Nat
    BY <1>2, <1>4, AfterPlace, EndsAreBoundaries
  <2>3. 0 \in 0 .. Len(s) /\ nl \in 0 .. Len(s) /\ 0 <= nl
    BY <2>2
  <2>4. Bytes(s, 0, nl) \in Texts
    BY <2>3, CutString
  <2>5. WellFormed(Bytes(s, 0, nl))
    BY <2>2, <2>3, CutWellFormed
  <2> QED BY <2>1, <2>4, <2>5
<1> QED BY <1>3, <1>4

LEMMA InsertKeeps ==
  ASSUME EditIInv, NEW s \in Texts, WellFormed(s),
         Edited(InsertText(RemoveSelectedText(edit), s)), strayed' = strayed
  PROVE  EditIInv' /\ SpansAnchor
<1>1. edit \in Edits /\ InText(edit) /\ WellFormed(edit.imText)
  BY DEF EditIInv, EditTypes
<1>2. PICK e : e = RemoveSelectedText(edit)
  OBVIOUS
<1>3. e \in Edits /\ InText(e) /\ ~HasSelect(e) /\ e.imText = edit.imText /\ (Sound(edit) => Sound(e))
  BY <1>1, <1>2, RemoveSelected
<1>4. PICK r : r = InsertText(e, s)
  OBVIOUS
<1>5. /\ r \in Edits /\ InText(r) /\ ~HasSelect(r) /\ r.imText = e.imText
      /\ Sound(e) => Sound(r)
  BY <1>3, <1>4, Inserted
<1>6. Edited(r)
  BY <1>2, <1>4
<1> QED BY <1>1, <1>3, <1>5, <1>6, EditedKeeps

LEMMA PasteAndType ==
  ASSUME EditIInv, (\E s \in Pasted : KeyPaste(s)) \/ (\E s \in Typed : TypeText(s))
  PROVE  EditIInv' /\ SpansAnchor
<1>1. CASE \E s \in Pasted : KeyPaste(s)
  <2>1. PICK s \in Pasted : KeyPaste(s)
    BY <1>1
  <2>2. PastedText(s) \in Texts /\ WellFormed(PastedText(s))
    BY GivenTexts, PastedTextIsWhole
  <2> QED BY <2>1, <2>2, InsertKeeps DEF KeyPaste
<1>2. CASE \E s \in Typed : TypeText(s)
  <2>1. PICK s \in Typed : TypeText(s)
    BY <1>2
  <2>2. s \in Texts /\ WellFormed(s)
    BY GivenTexts
  <2> QED BY <2>1, <2>2, InsertKeeps DEF TypeText
<1> QED BY <1>1, <1>2

----------------------------------------------------------------------------
\* The input method and the application

PreeditFields(e, s, c) ==
  /\ c \in Edits /\ c.text = e.text /\ c.cursor = e.cursor /\ c.imText = s
  /\ c.selectBegin = e.selectBegin /\ c.selectEnd = e.selectEnd
  /\ (HasSelect(c) <=> HasSelect(e)) /\ (InText(e) => InText(c)) /\ (Sound(e) => Sound(c))

LEMMA PreeditKeeps ==
  ASSUME NEW e \in Edits, NEW s \in Texts, NEW c, c = [e EXCEPT !.imText = s]
  PROVE  PreeditFields(e, s, c)
<1>1. /\ c \in Edits /\ c.text = e.text /\ c.cursor = e.cursor /\ c.imText = s
      /\ c.selectBegin = e.selectBegin /\ c.selectEnd = e.selectEnd
  BY DEF Edits
<1>2. (HasSelect(c) <=> HasSelect(e)) /\ (InText(e) => InText(c)) /\ (Sound(e) => Sound(c))
  BY <1>1 DEF HasSelect, InText, Sound
<1> QED BY <1>1, <1>2 DEF PreeditFields

LEMMA NoText == <<>> \in Texts /\ WellFormed(<<>>)
BY DEF Texts, WellFormed

LEMMA CommitKeeps ==
  ASSUME EditIInv, NEW s \in Preedits \cup {<<>>}, ImCommitNewText(s)
  PROVE  EditIInv' /\ SpansAnchor
<1>1. /\ edit \in Edits /\ InText(edit) /\ strayed \in BOOLEAN /\ reported = edit.text
      /\ opts \in [multiline : BOOLEAN, password : BOOLEAN, eyeIcon : BOOLEAN]
      /\ ~strayed => Sound(edit)
  BY DEF EditIInv, EditTypes, EditsAreReported
<1>2. s \in Texts /\ WellFormed(s)
  BY GivenTexts, NoText
<1>3. PICK r : r = [edit EXCEPT !.imText = s]
  OBVIOUS
<1>4. PreeditFields(edit, s, r)
  BY <1>1, <1>2, <1>3, PreeditKeeps
<1>5. r \in Edits /\ InText(r) /\ r.imText = s /\ r.text = edit.text /\ (Sound(edit) => Sound(r))
  BY <1>1, <1>4 DEF PreeditFields
<1>6. edit' = r /\ reported' = r.text /\ strayed' = strayed /\ opts' = opts
  BY <1>1, <1>3, <1>5, UpdateKeeps DEF ImCommitNewText, InText
<1>7. (~strayed' /\ HasSelect(edit)) => {r.selectBegin, r.selectEnd} = {Anchor(edit), r.cursor}
  <2>1. (~strayed /\ HasSelect(edit)) => {edit.selectBegin, edit.selectEnd} = {Anchor(edit), edit.cursor}
    BY <1>1 DEF Sound, Anchor
  <2> QED BY <1>4, <1>6, <2>1 DEF PreeditFields
<1> QED BY <1>1, <1>2, <1>5, <1>6, <1>7, StepKeeps

LEMMA ApplyKeeps ==
  ASSUME EditIInv, ImApplyText
  PROVE  EditIInv' /\ SpansAnchor
<1>1. /\ edit \in Edits /\ InText(edit) /\ strayed \in BOOLEAN
      /\ opts \in [multiline : BOOLEAN, password : BOOLEAN, eyeIcon : BOOLEAN]
      /\ (~strayed => Sound(edit)) /\ WellFormed(edit.imText)
  BY DEF EditIInv, EditTypes
<1>2. PICK s : s = edit.imText
  OBVIOUS
<1>3. s \in Texts /\ WellFormed(s)
  BY <1>1, <1>2 DEF Edits
<1>4. PICK x : x = InsertText(edit, s)
  OBVIOUS
<1>5. /\ x \in Edits /\ InText(x) /\ (HasSelect(x) <=> HasSelect(edit))
      /\ x.selectBegin = edit.selectBegin /\ x.selectEnd = edit.selectEnd
      /\ s = <<>> => x = edit
      /\ (Sound(edit) /\ WellFormed(s) /\ ~HasSelect(edit)) => Sound(x)
  BY <1>1, <1>3, <1>4, Inserted
<1>6. PICK r : r = [x EXCEPT !.imText = <<>>]
  OBVIOUS
<1>7. PreeditFields(x, <<>>, r)
  BY <1>5, <1>6, NoText, PreeditKeeps
<1>8. /\ r \in Edits /\ InText(r) /\ r.imText = <<>> /\ (HasSelect(r) <=> HasSelect(edit))
      /\ Sound(x) => Sound(r)
  BY <1>5, <1>7 DEF PreeditFields
<1>9. /\ Edited(r) /\ strayed' = (strayed \/ (HasSelect(edit) /\ s # <<>>))
  BY <1>2, <1>4, <1>6 DEF ImApplyText
<1>10. edit' = r /\ reported' = r.text /\ opts' = opts
  BY <1>8, <1>9, UpdateKeeps DEF Edited, InText
<1>11. strayed' \in BOOLEAN /\ (~strayed' => ~strayed /\ ~(HasSelect(edit) /\ s # <<>>))
  BY <1>1, <1>9 DEF HasSelect
<1>12. ~strayed' => Sound(r)
  BY <1>1, <1>3, <1>5, <1>8, <1>11
<1>13. (~strayed' /\ HasSelect(edit)) => {r.selectBegin, r.selectEnd} = {Anchor(edit), r.cursor}
  <2>1. (~strayed /\ HasSelect(edit)) => {edit.selectBegin, edit.selectEnd} = {Anchor(edit), edit.cursor}
    BY <1>1 DEF Sound, Anchor
  <2>2. (~strayed' /\ HasSelect(edit)) => x = edit /\ ~strayed
    BY <1>5, <1>11
  <2>3. /\ r.cursor = x.cursor /\ r.selectBegin = x.selectBegin /\ r.selectEnd = x.selectEnd
    BY <1>7 DEF PreeditFields
  <2> QED BY <2>1, <2>2, <2>3
<1> QED BY <1>1, <1>8, <1>10, <1>11, <1>12, <1>13, NoText, StepKeeps

\* The text is replaced by another: the cursor may stray, and nothing is selected
LEMMA ReplacedFields ==
  ASSUME NEW e \in Edits, InText(e), NEW text \in Texts, WellFormed(text), e.text # text
  PROVE  LET r == Replaced(e, text)
         IN  /\ r \in Edits /\ InText(r) /\ ~HasSelect(r) /\ r.text = text /\ r.imText = e.imText
             /\ r.cursor \in Boundaries(text) => Sound(r)
<1>1. e.cursor \in Nat /\ e.cursor \in Int /\ Len(text) \in Nat
  BY EndsAreBoundaries DEF InText
<1>2. PICK x : x = [e EXCEPT !.text = text]
  OBVIOUS
<1>3. x \in Edits /\ x.text = text /\ x.cursor = e.cursor /\ x.imText = e.imText
  BY <1>2 DEF Edits
<1>4. PICK y : y = UpdateCursor(x)
  OBVIOUS
<1>5. /\ y \in Edits /\ y.text = text /\ y.imText = e.imText
      /\ y.cursor = (IF e.cursor > Len(text) THEN Len(text) ELSE e.cursor)
  BY <1>3, <1>4, UpdateCursorFields
<1>6. y.cursor \in 0 .. Len(text)
  BY <1>1, <1>5
<1>7. PICK r : r = ClearSelect(y)
  OBVIOUS
<1>8. /\ r \in Edits /\ r.text = text /\ r.cursor = y.cursor /\ r.imText = e.imText
      /\ ~HasSelect(r)
  BY <1>5, <1>7, ClearSelectFields
<1>9. InText(r) /\ (r.cursor \in Boundaries(text) => Sound(r))
  BY <1>6, <1>8 DEF InText, Sound
<1>10. Replaced(e, text) = r
  BY <1>2, <1>4, <1>7 DEF Replaced
<1> QED BY <1>8, <1>9, <1>10

LEMMA ReplacingKeeps ==
  ASSUME EditIInv, NEW text \in AppTexts, text # edit.text,
         NEW r \in Edits, InText(r), ~HasSelect(r), r.text = text, WellFormed(r.imText),
         r.cursor \in Boundaries(text) => Sound(r),
         edit' = r, reported' = text, strayed' = (strayed \/ Strays(edit')),
         opts' \in [multiline : BOOLEAN, password : BOOLEAN, eyeIcon : BOOLEAN]
  PROVE  EditIInv' /\ SpansAnchor
<1>1. strayed \in BOOLEAN
  BY DEF EditIInv, EditTypes
<1>2. Sound(edit) => edit.cursor \in Boundaries(edit.text)
  BY DEF Sound
<1>3. (Sound(edit) /\ ~Strays(r)) => Sound(r)
  BY <1>2 DEF Strays, OnCharacter
<1>4. strayed' \in BOOLEAN /\ (~strayed' => ~strayed /\ (Sound(edit) => Sound(r)))
  BY <1>1, <1>3 DEF Strays
<1> QED BY <1>4, UnselectedKeeps

LEMMA SetTextKeeps ==
  ASSUME EditIInv, NEW text \in AppTexts, SetText(text)
  PROVE  EditIInv' /\ SpansAnchor
<1>1. /\ edit \in Edits /\ InText(edit) /\ WellFormed(edit.imText) /\ text \in Texts /\ WellFormed(text)
      /\ opts \in [multiline : BOOLEAN, password : BOOLEAN, eyeIcon : BOOLEAN]
  BY GivenTexts DEF EditIInv, EditTypes
<1>2. PICK r : r = Replaced(edit, text)
  OBVIOUS
<1>3. text # edit.text
  BY DEF SetText
<1>4. /\ r \in Edits /\ InText(r) /\ ~HasSelect(r) /\ r.text = text /\ r.imText = edit.imText
      /\ r.cursor \in Boundaries(text) => Sound(r)
  BY <1>1, <1>2, <1>3, ReplacedFields
<1>5. /\ edit' = r /\ reported' = text /\ strayed' = (strayed \/ Strays(edit')) /\ opts' = opts
  BY <1>2 DEF SetText
<1> QED BY <1>1, <1>3, <1>4, <1>5, ReplacingKeeps

LEMMA ReplaceDataKeeps ==
  ASSUME EditIInv, NEW text \in AppTexts, NEW password \in BOOLEAN, ReplaceData(text, password)
  PROVE  EditIInv' /\ SpansAnchor
<1>1. /\ edit \in Edits /\ InText(edit) /\ text \in Texts /\ WellFormed(text) /\ strayed \in BOOLEAN
      /\ opts \in [multiline : BOOLEAN, password : BOOLEAN, eyeIcon : BOOLEAN]
      /\ reported = edit.text
  BY GivenTexts DEF EditIInv, EditTypes, EditsAreReported
<1>2. opts' \in [multiline : BOOLEAN, password : BOOLEAN, eyeIcon : BOOLEAN]
  BY <1>1 DEF ReplaceData
<1>3. CASE text = edit.text
  <2>1. edit' = edit /\ reported' = reported /\ strayed' = (strayed \/ Strays(edit))
    BY <1>1, <1>3 DEF ReplaceData
  <2>2. strayed' = strayed
    BY <1>1, <2>1 DEF Strays
  <2> QED BY <1>2, <2>1, <2>2, SameBoxKeeps
<1>4. CASE text # edit.text
  <2>1. PICK x : x = Replaced(edit, text)
    OBVIOUS
  <2>2. /\ x \in Edits /\ InText(x) /\ ~HasSelect(x) /\ x.text = text
        /\ x.cursor \in Boundaries(text) => Sound(x)
    BY <1>1, <1>4, <2>1, ReplacedFields
  <2>3. PICK r : r = [x EXCEPT !.imText = <<>>]
    OBVIOUS
  <2>4. PreeditFields(x, <<>>, r)
    BY <2>2, <2>3, NoText, PreeditKeeps
  <2>5. /\ r \in Edits /\ InText(r) /\ ~HasSelect(r) /\ r.text = text /\ r.imText = <<>>
        /\ r.cursor \in Boundaries(text) => Sound(r)
    BY <2>2, <2>4 DEF PreeditFields
  <2>6. edit' = r /\ reported' = text /\ strayed' = (strayed \/ Strays(edit'))
    BY <1>4, <2>1, <2>3 DEF ReplaceData
  <2> QED BY <1>2, <1>4, <2>5, <2>6, NoText, ReplacingKeeps
<1> QED BY <1>3, <1>4

LEMMA OtherSteps ==
  ASSUME EditIInv,
         \/ ClickEye \/ BoxEnter \/ BoxLeave \/ UNCHANGED editVars
         \/ \E password \in BOOLEAN : SetPassword(password)
  PROVE  EditIInv' /\ SpansAnchor
<1>1. /\ edit \in Edits /\ edit.cursor \in 0 .. Len(edit.text)
      /\ opts \in [multiline : BOOLEAN, password : BOOLEAN, eyeIcon : BOOLEAN]
  BY DEF EditIInv, EditTypes, InText
<1>2. UpdateCursor(edit) = edit
  BY <1>1, UpdateKeeps
<1>3. /\ UNCHANGED <<edit, reported, strayed>>
      /\ opts' \in [multiline : BOOLEAN, password : BOOLEAN, eyeIcon : BOOLEAN]
  BY <1>1, <1>2 DEF ClickEye, BoxEnter, BoxLeave, SetPassword, editVars
<1> QED BY <1>3, SameBoxKeeps

LEMMA EscapeKeeps ==
  ASSUME EditIInv, KeyEscape
  PROVE  EditIInv' /\ SpansAnchor
<1>1. /\ edit \in Edits /\ edit.cursor \in 0 .. Len(edit.text) /\ strayed \in BOOLEAN
      /\ opts \in [multiline : BOOLEAN, password : BOOLEAN, eyeIcon : BOOLEAN]
      /\ WellFormed(edit.imText) /\ reported = edit.text
  BY DEF EditIInv, EditTypes, InText, EditsAreReported
<1>2. PICK r : r = ClearSelect(edit)
  OBVIOUS
<1>3. /\ r \in Edits /\ r.text = edit.text /\ r.cursor = edit.cursor /\ r.imText = edit.imText
      /\ ~HasSelect(r)
  BY <1>1, <1>2, ClearSelectFields
<1>4. InText(r) /\ (Sound(edit) => Sound(r))
  BY <1>1, <1>3 DEF InText, Sound
<1>5. edit' = r /\ reported' = r.text /\ strayed' = strayed /\ opts' = opts
  BY <1>1, <1>2, <1>3 DEF KeyEscape
<1> QED BY <1>1, <1>3, <1>4, <1>5, UnselectedKeeps

LEMMA EditStarts == EditInit => EditIInv
<1> SUFFICES ASSUME EditInit PROVE EditIInv
  OBVIOUS
<1>1. PICK text \in AppTexts :
         /\ edit = [text |-> text, cursor |-> 0, selectBegin |-> NoOffset, selectEnd |-> NoOffset,
                    imText |-> <<>>]
         /\ reported = text
  BY DEF EditInit
<1>2. text \in Texts /\ WellFormed(text) /\ Len(text) \in Nat /\ 0 \in Boundaries(text)
  BY GivenTexts, EndsAreBoundaries
<1>3. NoOffset \in Int /\ ~(0 <= NoOffset)
  BY DEF NoOffset
<1>4. /\ edit \in Edits /\ edit.text = text /\ edit.cursor = 0 /\ edit.imText = <<>>
      /\ edit.selectBegin = NoOffset
  BY <1>1, <1>2, <1>3, NoText DEF Edits
<1>5. ~HasSelect(edit)
  BY <1>3, <1>4 DEF HasSelect
<1>6. EditTypes
  BY <1>4 DEF EditTypes, EditInit
<1>7. InText(edit) /\ Sound(edit) /\ EditsAreReported
  BY <1>1, <1>2, <1>4, <1>5 DEF InText, Sound, EditsAreReported
<1> QED BY <1>4, <1>6, <1>7, NoText DEF EditIInv

LEMMA EditStep == EditIInv /\ [EditNext]_editVars => EditIInv' /\ SpansAnchor
<1> SUFFICES ASSUME EditIInv, [EditNext]_editVars PROVE EditIInv' /\ SpansAnchor
  OBVIOUS
<1>1. CASE EditKeys
  <2>1. CASE \E mods \in Mods : KeyLeft(mods) \/ KeyRight(mods) \/ KeyBackspace(mods) \/ KeyDelete(mods)
    BY <2>1, ArrowKeys, BackspaceKeeps, DeleteKeeps
  <2>2. CASE \E shift \in BOOLEAN : KeyUp(shift) \/ KeyDown(shift)
    BY <2>2, VerticalKeys
  <2>3. CASE KeyHome \/ KeyEnd
    BY <2>3, HomeAndEnd
  <2>4. CASE KeySelectAll
    BY <2>4, SelectAllKeeps
  <2>5. CASE KeyEscape
    BY <2>5, EscapeKeeps
  <2>6. CASE KeyCut
    BY <2>6, CutKeeps
  <2>7. CASE (\E s \in Pasted : KeyPaste(s)) \/ (\E s \in Typed : TypeText(s))
    BY <2>7, PasteAndType
  <2> QED BY <1>1, <2>1, <2>2, <2>3, <2>4, <2>5, <2>6, <2>7 DEF EditKeys
<1>2. CASE Seat
  <2>1. CASE FocusCursorAtClickedChar
    BY <2>1, ClicksKeep
  <2>2. CASE ClickEye \/ BoxEnter \/ BoxLeave
    BY <2>2, OtherSteps
  <2>3. CASE ImApplyText
    BY <2>3, ApplyKeeps
  <2>4. CASE \E s \in Preedits \cup {<<>>} : ImCommitNewText(s)
    BY <2>4, CommitKeeps
  <2> QED BY <1>2, <2>1, <2>2, <2>3, <2>4 DEF Seat
<1>3. CASE ApplicationEdits
  <2>1. CASE \E text \in AppTexts :
               SetText(text) \/ \E password \in BOOLEAN : ReplaceData(text, password)
    BY <2>1, SetTextKeeps, ReplaceDataKeeps
  <2>2. CASE \E password \in BOOLEAN : SetPassword(password)
    BY <2>2, OtherSteps
  <2> QED BY <1>3, <2>1, <2>2 DEF ApplicationEdits
<1>4. CASE UNCHANGED editVars
  BY <1>4, OtherSteps
<1> QED BY <1>1, <1>2, <1>3, <1>4 DEF EditNext

\* The substr and insert calls of every key stay within the text: whatever the keys,
\* the pointer, the input method and the application do to the box of Textbox.cpp,
\* the cursor and both ends of the selection are offsets of its text.
THEOREM EditsStayInBounds == EditSpec => []EditingInBounds
<1>1. EditIInv => EditingInBounds
  BY DEF EditIInv, InText, EditingInBounds
<1> QED BY <1>1, EditStarts, EditStep, PTL DEF EditSpec

\* Keys, words, lines, cuts and pastes leave the cursor and both ends of the selection
\* between characters of well-formed text, until a point on the label, a text cut
\* short or a preedit applied under a selection makes the position stray.
THEOREM EditsStayOnCharacters == EditSpec => []CursorOnCharacter
<1>1. EditIInv => CursorOnCharacter
  BY DEF EditIInv, Sound, CursorOnCharacter, OnCharacter
<1> QED BY <1>1, EditStarts, EditStep, PTL DEF EditSpec

\* updateLabel(true) ends every edit, so the application's text is the text of the box.
THEOREM EditsReachApplication == EditSpec => []EditsAreReported
<1>1. EditIInv => EditsAreReported
  BY DEF EditIInv
<1> QED BY <1>1, EditStarts, EditStep, PTL DEF EditSpec

\* The walks of UTF8.cpp that the box is built on count characters, not bytes: on every
\* well-formed text that can be in the box, of whatever length, offsetToUTF8Len and
\* utf8ToOffset undo each other between characters, substr cuts out the characters
\* asked for, and each of the four searches stops at the nearest hit, or at none.
THEOREM WalksAreRight == EditSpec => []WalksCountCharacters
<1>1. EditIInv => WalksCountCharacters
  BY WalksAgree DEF EditIInv, EditTypes, Edits
<1> QED BY <1>1, EditStarts, EditStep, PTL DEF EditSpec

\* The arrow keys of Textbox.cpp keep the end of the selection that the cursor is not
\* at, whichever end it crosses: from one state to the next, the selection runs
\* from there to the cursor, unless Ctrl+A took it all.
THEOREM SelectionKeepsAnchor == EditSpec => SelectionSpansAnchor
<1>1. EditIInv /\ [EditNext]_editVars => [SpansAnchor]_editVars
  BY EditStep
<1> QED BY <1>1, EditStarts, EditStep, PTL DEF EditSpec, SelectionSpansAnchor

----------------------------------------------------------------------------
\* LinearLayout: a row that has room

IsChild(c) == "kind" \in DOMAIN c /\ c.kind \in Kinds
IsRow(cs) == cs \in Seq({cs[i] : i \in DOMAIN cs}) /\ \A i \in DOMAIN cs : IsChild(cs[i])

\* What the child at i asks for, and the ends of the children that are given this
Asked(cs, i) == Preferred(cs[i].kind, 0, FALSE)
Ends(cs, f) ==
  /\ f \in [0 .. Len(cs) -> Int]
  /\ f[0] = 0
  /\ \A i \in 1 .. Len(cs) : f[i] = f[i - 1] + Asked(cs, i) + Gap

\* Two sequences that go on alike from the same start are the same.
LEMMA SameRecursion ==
  ASSUME NEW n \in Nat, NEW f, NEW g, f[0] = g[0],
         \A i \in 1 .. n : f[i - 1] = g[i - 1] => f[i] = g[i]
  PROVE  \A i \in 0 .. n : f[i] = g[i]
<1> DEFINE wrong == {i \in 0 .. n : f[i] # g[i]}
<1>1. SUFFICES ASSUME wrong # {} PROVE FALSE
  OBVIOUS
<1>2. PICK i \in wrong : \A j \in wrong : i <= j
  <2>1. wrong \in SUBSET (0 .. n) /\ 0 \in Int /\ n \in Int
    OBVIOUS
  <2> HIDE DEF wrong
  <2> QED BY <1>1, <2>1, FirstExists
<1>3. i \in 0 .. n /\ f[i] # g[i] /\ i # 0
  BY <1>2
<1>4. i \in 1 .. n /\ i - 1 \in 0 .. n /\ ~(i <= i - 1)
  BY <1>3
<1>5. i - 1 \notin wrong
  BY <1>2, <1>4
<1> QED BY <1>3, <1>4, <1>5

LEMMA RunningSum ==
  ASSUME NEW n \in Nat, NEW d \in [1 .. n -> Int]
  PROVE  \E f \in [0 .. n -> Int] : f[0] = 0 /\ \A i \in 1 .. n : f[i] = f[i - 1] + d[i]
<1> DEFINE Good(f, m) == f[0] = 0 /\ \A i \in 1 .. m : f[i] = f[i - 1] + d[i]
           reached == {m \in 0 .. n : \E f \in [0 .. n -> Int] : Good(f, m)}
<1>1. 0 \in reached
  <2> DEFINE z == [i \in 0 .. n |-> 0]
  <2>1. z \in [0 .. n -> Int] /\ Good(z, 0) /\ 0 \in 0 .. n
    OBVIOUS
  <2> HIDE DEF z
  <2> QED BY <2>1
<1>2. ASSUME NEW m \in reached, m # n PROVE m + 1 \in reached
  <2>1. PICK f \in [0 .. n -> Int] : Good(f, m)
    BY <1>2
  <2>2. m \in 0 .. n /\ m + 1 \in 1 .. n
    BY <1>2
  <2> DEFINE g == [f EXCEPT ![m + 1] = f[m] + d[m + 1]]
  <2>3. f[m] + d[m + 1] \in Int
    BY <2>1, <2>2
  <2>4. /\ g \in [0 .. n -> Int]
        /\ \A i \in 0 .. n : g[i] = IF i = m + 1 THEN f[m] + d[m + 1] ELSE f[i]
    BY <2>1, <2>2, <2>3
  <2> HIDE DEF g
  <2>5. ASSUME NEW i \in 1 .. m + 1 PROVE g[i] = g[i - 1] + d[i]
    <3>1. i \in 0 .. n /\ i - 1 \in 0 .. n /\ i - 1 # m + 1
      BY <2>2
    <3>2. CASE i = m + 1
      <4>1. i - 1 = m
        BY <2>2, <3>2
      <4> QED BY <2>4, <3>1, <3>2, <4>1
    <3>3. CASE i # m + 1
      <4>1. i \in 1 .. m
        BY <2>2, <3>3
      <4> QED BY <2>1, <2>4, <3>1, <3>3, <4>1
    <3> QED BY <3>2, <3>3
  <2>6. g[0] = 0
    <3>1. 0 \in 0 .. n /\ 0 # m + 1
      BY <2>2
    <3> QED BY <2>1, <2>4, <3>1
  <2>7. Good(g, m + 1)
    BY <2>5, <2>6
  <2>8. m + 1 \in 0 .. n
    BY <2>2
  <2> HIDE DEF Good
  <2> QED BY <2>4, <2>7, <2>8
<1>3. PICK m \in reached : \A k \in reached : k <= m
  <2>1. reached \in SUBSET (0 .. n) /\ 0 \in Int /\ n \in Int
    OBVIOUS
  <2> HIDE DEF reached
  <2> QED BY <1>1, <2>1, LastExists
<1>4. m \in 0 .. n
  BY <1>3
<1>5. m = n
  <2> HIDE DEF reached
  <2> QED BY <1>2, <1>3, <1>4
<1> QED BY <1>3, <1>5

LEMMA KindSizes ==
  ASSUME NEW k \in Kinds
  PROVE  /\ Preferred(k, 0, FALSE) \in Nat
         /\ k.type # "percent" =>
              \A outer : \A grow \in BOOLEAN : Preferred(k, outer, grow) = Preferred(k, 0, FALSE)
<1>1. k.type \in {"absolute", "percent", "auto"} /\ k.value \in Nat /\ k.content \in Nat
  BY LayoutAssumption
<1>2. CASE k.type = "absolute"
  BY <1>1, <1>2 DEF Preferred, Calculate, Unknown
<1>3. CASE k.type = "percent"
  BY <1>1, <1>3 DEF Preferred, Calculate, Unknown
<1>4. CASE k.type = "auto"
  BY <1>1, <1>4 DEF Preferred, Calculate, Unknown
<1> QED BY <1>1, <1>2, <1>3, <1>4

LEMMA RowFacts ==
  ASSUME NEW cs, IsRow(cs)
  PROVE  /\ Len(cs) \in Nat /\ DOMAIN cs = 1 .. Len(cs) /\ (cs # <<>> => Len(cs) > 0)
         /\ Gap \in Nat
         /\ \A i \in 1 .. Len(cs) : Asked(cs, i) \in Nat
         /\ \E f : Ends(cs, f)
<1>1. /\ Len(cs) \in Nat /\ DOMAIN cs = 1 .. Len(cs) /\ (cs # <<>> => Len(cs) > 0)
      /\ Gap \in Nat
  BY LayoutAssumption DEF IsRow
<1>2. \A i \in 1 .. Len(cs) : Asked(cs, i) \in Nat
  BY <1>1, KindSizes DEF IsRow, IsChild, Asked
<1>3. \E f : Ends(cs, f)
  <2> DEFINE d == [i \in 1 .. Len(cs) |-> Asked(cs, i) + Gap]
  <2>1. d \in [1 .. Len(cs) -> Int] /\ \A i \in 1 .. Len(cs) : d[i] = Asked(cs, i) + Gap
    BY <1>1, <1>2
  <2> HIDE DEF d
  <2>2. PICK f \in [0 .. Len(cs) -> Int] :
          f[0] = 0 /\ \A i \in 1 .. Len(cs) : f[i] = f[i - 1] + d[i]
    BY <1>1, <2>1, RunningSum
  <2>3. \A i \in 1 .. Len(cs) : f[i] = f[i - 1] + Asked(cs, i) + Gap
    <3> TAKE i \in 1 .. Len(cs)
    <3>1. f[i] = f[i - 1] + (Asked(cs, i) + Gap) /\ i - 1 \in 0 .. Len(cs)
      BY <1>1, <2>1, <2>2
    <3>2. f[i - 1] \in Int /\ Asked(cs, i) \in Int /\ Gap \in Int
      BY <1>1, <1>2, <2>2, <3>1
    <3> QED BY <3>1, <3>2
  <2> QED BY <2>2, <2>3 DEF Ends
<1> QED BY <1>1, <1>2, <1>3

\* A row asks for the end of its last child, without the gap behind it.
LEMMA RowAsksForEnd ==
  ASSUME NEW cs, IsRow(cs), NEW f, Ends(cs, f)
  PROVE  RowPreferred(cs) = IF cs = <<>> THEN 0 ELSE f[Len(cs)] - Gap
<1> DEFINE n == Len(cs)
           Turn(u) == [i \in 0 .. n |->
                         IF i = 0 THEN 0 ELSE u[i - 1] + Preferred(cs[i].kind, 0, FALSE) + Gap]
           upto == CHOOSE u : u = Turn(u)
<1>1. RowPreferred(cs) = IF cs = <<>> THEN 0 ELSE upto[n] - Gap
  BY DEF RowPreferred
<1>2. n \in Nat
  BY RowFacts
<1>3. f = Turn(f)
  <2>1. ASSUME NEW i \in 0 .. n PROVE f[i] = Turn(f)[i]
    <3>1. CASE i = 0
      BY <3>1 DEF Ends
    <3>2. CASE i # 0
      <4>1. i \in 1 .. n
        BY <1>2, <3>2
      <4>2. f[i] = f[i - 1] + Asked(cs, i) + Gap
        BY <4>1 DEF Ends
      <4> QED BY <3>2, <4>2 DEF Asked
    <3> QED BY <3>1, <3>2
  <2> QED BY <2>1 DEF Ends
<1>4. upto = Turn(upto)
  BY <1>3
<1> HIDE DEF upto
<1>5. /\ upto[0] = 0
      /\ \A i \in 1 .. n : upto[i] = upto[i - 1] + Preferred(cs[i].kind, 0, FALSE) + Gap
  <2>1. \A i \in 0 .. n :
          upto[i] = IF i = 0 THEN 0 ELSE upto[i - 1] + Preferred(cs[i].kind, 0, FALSE) + Gap
    BY <1>4
  <2>2. 0 \in 0 .. n /\ \A i \in 1 .. n : i \in 0 .. n /\ i # 0
    BY <1>2
  <2> HIDE DEF n
  <2>3. upto[0] = 0
    BY <2>1, <2>2
  <2>4. ASSUME NEW i \in 1 .. n
        PROVE  upto[i] = upto[i - 1] + Preferred(cs[i].kind, 0, FALSE) + Gap
    <3> DEFINE step == upto[i - 1] + Preferred(cs[i].kind, 0, FALSE) + Gap
    <3>1. upto[i] = IF i = 0 THEN 0 ELSE step
      BY <2>1, <2>2
    <3> HIDE DEF step
    <3>2. upto[i] = step
      BY <2>2, <3>1
    <3> QED BY <3>2 DEF step
  <2> QED BY <2>3, <2>4
<1>6. \A i \in 0 .. n : upto[i] = f[i]
  <2>1. /\ upto[0] = f[0]
        /\ \A i \in 1 .. n : upto[i - 1] = f[i - 1] => upto[i] = f[i]
    BY <1>5 DEF Ends, Asked
  <2> HIDE DEF n
  <2> QED BY <1>2, <2>1, SameRecursion
<1> QED BY <1>1, <1>2, <1>6

LEMMA EndsGrow ==
  ASSUME NEW cs, IsRow(cs), NEW f, Ends(cs, f), NEW i \in 0 .. Len(cs) - 1
  PROVE  f[i] <= f[Len(cs)] - Gap
<1> DEFINE n == Len(cs)
           beyond == {j \in 0 .. n - 1 : ~(f[j] <= f[n] - Gap)}
<1>1. SUFFICES ASSUME beyond # {} PROVE FALSE
  OBVIOUS
<1>2. n \in Nat /\ Gap \in Nat
  BY RowFacts
<1>3. PICK j \in beyond : \A k \in beyond : k <= j
  <2>1. beyond \in SUBSET (0 .. n - 1) /\ 0 \in Int /\ n - 1 \in Int
    BY <1>2
  <2> HIDE DEF beyond
  <2> QED BY <1>1, <2>1, LastExists
<1>4. j \in 0 .. n - 1 /\ ~(f[j] <= f[n] - Gap) /\ j + 1 \in 1 .. n /\ j + 1 \in 0 .. n
      /\ j \in 0 .. n /\ n \in 0 .. n /\ ~(j + 1 <= j)
  BY <1>2, <1>3
<1>5. f[j] \in Int /\ f[j + 1] \in Int /\ f[n] \in Int /\ Asked(cs, j + 1) \in Nat
  BY <1>4, RowFacts DEF Ends
<1>6. f[j + 1] = f[j] + Asked(cs, j + 1) + Gap
  <2>1. (j + 1) - 1 = j
    BY <1>4
  <2> QED BY <1>4, <2>1 DEF Ends
<1>7. CASE j + 1 = n
  <2>1. f[n] = f[j] + Asked(cs, j + 1) + Gap
    BY <1>6, <1>7
  <2> HIDE DEF n, beyond
  <2> QED BY <1>2, <1>4, <1>5, <2>1
<1>8. CASE j + 1 # n
  <2>1. j + 1 \in 0 .. n - 1 /\ j + 1 \notin beyond
    BY <1>2, <1>3, <1>4, <1>8
  <2>2. f[j + 1] <= f[n] - Gap
    BY <2>1
  <2> HIDE DEF n, beyond
  <2> QED BY <1>2, <1>4, <1>5, <1>6, <2>2
<1> QED BY <1>7, <1>8

\* What the loop has made of the first i children of a row that has room
Granted(cs, f, i) ==
  [used   |-> IF i = Len(cs) THEN f[i] - Gap ELSE f[i],
   sizes  |-> [j \in 1 .. Len(cs) |-> IF j <= i THEN Asked(cs, j) ELSE 0],
   failed |-> [j \in 1 .. Len(cs) |-> IF j <= i THEN FALSE ELSE cs[j].failed]]

\* A row with children of fixed or automatic size that is as wide as it asks to be
HasRoom(cs, max) ==
  /\ IsRow(cs) /\ cs # <<>>
  /\ max \in Int /\ max >= RowPreferred(cs)
  /\ \A i \in DOMAIN cs : cs[i].kind.type # "percent"

\* One turn of the loop: there is room for the child at the size it prefers.
LEMMA ChildFits ==
  ASSUME NEW cs, NEW max, HasRoom(cs, max), NEW f, Ends(cs, f), NEW i \in 1 .. Len(cs)
  PROVE  SizeChild([j \in 1 .. Len(cs) |-> cs[j].kind], max, i, Granted(cs, f, i - 1))
           = Granted(cs, f, i)
<1> DEFINE n == Len(cs)
           kinds == [j \in 1 .. n |-> cs[j].kind]
           st == Granted(cs, f, i - 1)
           gap == IF i = n THEN 0 ELSE Gap
<1>1. /\ n \in Nat /\ n > 0 /\ Gap \in Nat /\ max \in Int /\ Asked(cs, i) \in Nat
      /\ DOMAIN cs = 1 .. n /\ i - 1 \in 0 .. n /\ i - 1 # n /\ i \in 0 .. n /\ n \in 0 .. n
      /\ i \in Int /\ i >= 1 /\ i <= n
  BY RowFacts DEF HasRoom
<1>2. f[i - 1] \in Int /\ f[i] \in Int /\ f[n] \in Int /\ f[i] = f[i - 1] + Asked(cs, i) + Gap
  BY <1>1 DEF Ends
<1>3. f[n] - Gap <= max
  BY <1>1, <1>2, RowAsksForEnd DEF HasRoom
<1>4. ChildSize(kinds[i], max) = Asked(cs, i) /\ Len(kinds) = n
  <2>1. kinds[i] = cs[i].kind /\ cs[i].kind \in Kinds /\ cs[i].kind.type # "percent"
    BY <1>1 DEF HasRoom, IsRow, IsChild
  <2>2. Len(kinds) = n
    BY <1>1
  <2> HIDE DEF kinds
  <2> QED BY <2>1, <2>2, KindSizes DEF ChildSize, Asked
<1>5. /\ st.used = f[i - 1]
      /\ st.sizes = [j \in 1 .. n |-> IF j <= i - 1 THEN Asked(cs, j) ELSE 0]
      /\ st.failed = [j \in 1 .. n |-> IF j <= i - 1 THEN FALSE ELSE cs[j].failed]
  BY <1>1 DEF Granted
<1>6. f[i - 1] + Asked(cs, i) + gap = Granted(cs, f, i).used
  <2>1. Granted(cs, f, i).used = IF i = n THEN f[i] - Gap ELSE f[i]
    BY DEF Granted
  <2>2. gap = IF i = n THEN 0 ELSE Gap
    OBVIOUS
  <2> HIDE DEF n, gap, st, kinds
  <2> QED BY <1>1, <1>2, <2>1, <2>2
<1>7. f[i - 1] + Asked(cs, i) + gap <= max + 1
  <2>1. CASE i = n
    BY <2>1, <1>1, <1>2, <1>3
  <2>2. CASE i # n
    <3>1. i \in 0 .. n - 1
      <4> HIDE DEF n
      <4> QED BY <1>1, <2>2
    <3>2. f[i] <= f[n] - Gap
      BY <3>1, EndsGrow DEF HasRoom
    <3>3. gap = Gap
      BY <2>2
    <3> HIDE DEF n, gap, st, kinds
    <3> QED BY <3>2, <3>3, <1>1, <1>2, <1>3
  <2> QED BY <2>1, <2>2
<1>8. SizeChild(kinds, max, i, st)
        = [used |-> f[i - 1] + Asked(cs, i) + gap, sizes |-> [st.sizes EXCEPT ![i] = Asked(cs, i)],
           failed |-> [st.failed EXCEPT ![i] = FALSE]]
  <2> HIDE DEF kinds, st, n
  <2>1. gap = IF i = n THEN 0 ELSE Gap
    OBVIOUS
  <2> HIDE DEF gap
  <2> QED BY <1>4, <1>5, <1>7, <2>1 DEF SizeChild
<1>9. /\ [st.sizes EXCEPT ![i] = Asked(cs, i)] = Granted(cs, f, i).sizes
      /\ [st.failed EXCEPT ![i] = FALSE] = Granted(cs, f, i).failed
  <2>1. \A j \in 1 .. n : j # i => (j <= i - 1 <=> j <= i)
    BY <1>1
  <2>2. i <= i /\ i \in Int
    BY <1>1
  <2> HIDE DEF st
  <2>3. [st.sizes EXCEPT ![i] = Asked(cs, i)]
          = [j \in 1 .. n |-> IF j <= i THEN Asked(cs, j) ELSE 0]
    BY <1>5, <2>1, <2>2
  <2>4. [st.failed EXCEPT ![i] = FALSE]
          = [j \in 1 .. n |-> IF j <= i THEN FALSE ELSE cs[j].failed]
    BY <1>5, <2>1, <2>2
  <2> QED BY <2>3, <2>4 DEF Granted
<1> QED
  <2>1. Granted(cs, f, i) = [used |-> Granted(cs, f, i).used, sizes |-> Granted(cs, f, i).sizes,
                             failed |-> Granted(cs, f, i).failed]
    BY DEF Granted
  <2> HIDE DEF st, kinds, gap
  <2> QED BY <1>6, <1>8, <1>9, <2>1 DEF st, kinds

\* The sizes and the places after the loop: the first growing child takes what is
\* left, and each child stands where the one before it ends.
Grown(cs, max, f) ==
  LET done == Granted(cs, f, Len(cs))
      growing == {i \in 1 .. Len(cs) : cs[i].kind.grow}
  IN  IF done.used < max /\ growing # {}
      THEN [done.sizes EXCEPT ![Min(growing)] = @ + max - done.used] ELSE done.sizes

Placed(n, sizes, place) ==
  place[0] = 0 /\ \A i \in 1 .. n : place[i] = place[i - 1] + (sizes[i] + Gap)

LEMMA LayoutWithRoom ==
  ASSUME NEW cs, NEW max, HasRoom(cs, max), NEW f, Ends(cs, f)
  PROVE  /\ Grown(cs, max, f) \in [1 .. Len(cs) -> Int]
         /\ \E place :
              /\ Placed(Len(cs), Grown(cs, max, f), place)
              /\ Layout(cs, max) = [i \in 1 .. Len(cs) |->
                   [kind |-> cs[i].kind, failed |-> FALSE, size |-> Grown(cs, max, f)[i],
                    at |-> place[i - 1]]]
<1> DEFINE n == Len(cs)
           kinds == [i \in 1 .. n |-> cs[i].kind]
           Pass(p) == [i \in 0 .. n |->
             IF i = 0 THEN [used |-> 0, sizes |-> [j \in 1 .. n |-> 0],
                            failed |-> [j \in 1 .. n |-> cs[j].failed]]
             ELSE SizeChild(kinds, max, i, p[i - 1])]
           pass == CHOOSE p : p = Pass(p)
           done == pass[n]
           growing == {i \in 1 .. n : kinds[i].grow}
           sizes == IF done.used < max /\ growing # {}
                    THEN [done.sizes EXCEPT ![Min(growing)] = @ + max - done.used] ELSE done.sizes
           Place(u) == [i \in 0 .. n |->
             IF i = 0 THEN 0 ELSE u[i - 1] + (IF done.failed[i] THEN 0 ELSE sizes[i] + Gap)]
           place == CHOOSE u : u = Place(u)
<1>1. Layout(cs, max) =
        [i \in 1 .. n |->
           [kind |-> kinds[i], failed |-> done.failed[i], size |-> sizes[i],
            at |-> IF done.failed[i] THEN cs[i].at ELSE place[i - 1]]]
  BY DEF Layout
<1>2. /\ n \in Nat /\ n > 0 /\ Gap \in Nat /\ DOMAIN cs = 1 .. n
      /\ 0 \in 0 .. n /\ n \in 0 .. n /\ 0 # n
      /\ \A i \in 1 .. n : i \in 0 .. n /\ i # 0 /\ i - 1 \in 0 .. n
  BY RowFacts DEF HasRoom
<1>3. Granted(cs, f, 0) = [used |-> 0, sizes |-> [j \in 1 .. n |-> 0],
                           failed |-> [j \in 1 .. n |-> cs[j].failed]]
  <2>1. \A j \in 1 .. n : ~(j <= 0)
    BY <1>2
  <2>2. f[0] = 0 /\ 0 # Len(cs)
    BY <1>2 DEF Ends
  <2>3. /\ [j \in 1 .. n |-> IF j <= 0 THEN Asked(cs, j) ELSE 0] = [j \in 1 .. n |-> 0]
        /\ [j \in 1 .. n |-> IF j <= 0 THEN FALSE ELSE cs[j].failed]
             = [j \in 1 .. n |-> cs[j].failed]
    BY <2>1
  <2> QED BY <2>2, <2>3 DEF Granted
<1>4. \A i \in 1 .. n : SizeChild(kinds, max, i, Granted(cs, f, i - 1)) = Granted(cs, f, i)
  BY ChildFits
<1>5. done = Granted(cs, f, n)
  <2> DEFINE good == [i \in 0 .. n |-> Granted(cs, f, i)]
  <2>1. \A i \in 0 .. n : good[i] = Granted(cs, f, i)
    OBVIOUS
  <2>2. good = Pass(good)
    <3>1. ASSUME NEW i \in 0 .. n PROVE good[i] = Pass(good)[i]
      <4>1. CASE i = 0
        BY <4>1, <1>3
      <4>2. CASE i # 0
        <5>1. i \in 1 .. n /\ i - 1 \in 0 .. n
          BY <1>2, <4>2
        <5>2. good[i] = SizeChild(kinds, max, i, good[i - 1])
          BY <5>1, <2>1, <1>4
        <5>3. Pass(good)[i] = SizeChild(kinds, max, i, good[i - 1])
          BY <4>2
        <5> QED BY <5>2, <5>3
      <4> QED BY <4>1, <4>2
    <3> QED BY <3>1
  <2>3. pass = Pass(pass)
    BY <2>2
  <2> HIDE DEF pass, good
  <2>4. pass[0] = good[0]
    BY <2>1, <2>3, <1>2, <1>3
  <2>5. ASSUME NEW i \in 1 .. n, pass[i - 1] = good[i - 1] PROVE pass[i] = good[i]
    <3>1. i \in 0 .. n /\ i # 0 /\ i - 1 \in 0 .. n
      BY <1>2
    <3>2. pass[i] = SizeChild(kinds, max, i, pass[i - 1])
      BY <2>3, <3>1
    <3> QED BY <2>1, <2>5, <3>1, <3>2, <1>4
  <2>6. \A i \in 0 .. n : pass[i] = good[i]
    <3>1. \A i \in 1 .. n : pass[i - 1] = good[i - 1] => pass[i] = good[i]
      BY <2>5
    <3>2. n \in Nat
      BY <1>2
    <3> HIDE DEF n
    <3> QED BY <2>4, <3>1, <3>2, SameRecursion
  <2> QED BY <2>1, <2>6, <1>2
<1> HIDE DEF pass
<1>6. \A i \in 1 .. n : done.failed[i] = FALSE /\ done.sizes[i] = Asked(cs, i)
  <2>1. \A j \in 1 .. n : j <= n
    BY <1>2
  <2> HIDE DEF done
  <2> QED BY <1>5, <2>1 DEF Granted
<1>7. done.sizes \in [1 .. n -> Int] /\ done.used \in Int /\ max \in Int
  <2>1. \A j \in 1 .. n : Asked(cs, j) \in Int
    BY RowFacts DEF HasRoom
  <2>2. f[n] \in Int
    BY <1>2 DEF Ends
  <2>3. /\ done.sizes = [j \in 1 .. n |-> IF j <= n THEN Asked(cs, j) ELSE 0]
        /\ done.used = f[n] - Gap
    BY <1>5 DEF Granted
  <2> HIDE DEF done, n
  <2> QED BY <1>2, <2>1, <2>2, <2>3 DEF HasRoom
<1>8. sizes \in [1 .. n -> Int]
  <2> DEFINE g == Min(growing)
  <2>1. \A i \in 1 .. n : done.sizes[i] + max - done.used \in Int
    <3>1. PICK given, used : given = done.sizes /\ used = done.used
      OBVIOUS
    <3> HIDE DEF done, n
    <3>2. given \in [1 .. n -> Int] /\ used \in Int
      BY <1>7, <3>1
    <3>3. \A i \in 1 .. n : given[i] + max - used \in Int
      BY <1>7, <3>2
    <3> QED BY <3>1, <3>3
  <2>2. ASSUME g \in 1 .. n
        PROVE  [done.sizes EXCEPT ![g] = @ + max - done.used] \in [1 .. n -> Int]
    <3> HIDE DEF done, n, g
    <3> QED BY <2>1, <2>2, <1>7
  <2>3. ASSUME g \notin 1 .. n
        PROVE  [done.sizes EXCEPT ![g] = @ + max - done.used] \in [1 .. n -> Int]
    <3> HIDE DEF done, n, g
    <3> QED BY <2>3, <1>7
  <2> HIDE DEF done, n, growing
  <2> QED BY <1>7, <2>2, <2>3
<1> DEFINE d == [i \in 1 .. n |-> sizes[i] + Gap]
<1>9. d \in [1 .. n -> Int] /\ \A i \in 1 .. n : d[i] = sizes[i] + Gap
  <2> HIDE DEF sizes, n
  <2> QED BY <1>2, <1>8
<1>10. place[0] = 0 /\ \A i \in 1 .. n : place[i] = place[i - 1] + (sizes[i] + Gap)
  <2>1. PICK u \in [0 .. n -> Int] : u[0] = 0 /\ \A i \in 1 .. n : u[i] = u[i - 1] + d[i]
    <3> HIDE DEF d, n
    <3> QED BY <1>2, <1>9, RunningSum
  <2> HIDE DEF d, done, sizes
  <2>2. u = Place(u)
    <3>1. ASSUME NEW i \in 0 .. n PROVE u[i] = Place(u)[i]
      <4>1. CASE i = 0
        BY <4>1, <2>1
      <4>2. CASE i # 0
        <5>1. i \in 1 .. n
          BY <1>2, <4>2
        <5>2. u[i] = u[i - 1] + (sizes[i] + Gap)
          BY <5>1, <2>1, <1>9
        <5> QED BY <4>2, <5>1, <5>2, <1>6
      <4> QED BY <4>1, <4>2
    <3> QED BY <2>1, <3>1
  <2>3. place = Place(place)
    BY <2>2
  <2> HIDE DEF place
  <2>4. place[0] = 0
    BY <2>3, <1>2
  <2>5. ASSUME NEW i \in 1 .. n PROVE place[i] = place[i - 1] + (sizes[i] + Gap)
    <3>1. i \in 0 .. n /\ i # 0 /\ ~done.failed[i]
      BY <1>2, <1>6
    <3> QED BY <2>3, <3>1
  <2> QED BY <2>4, <2>5
<1>11. Layout(cs, max) = [i \in 1 .. n |->
         [kind |-> cs[i].kind, failed |-> FALSE, size |-> sizes[i], at |-> place[i - 1]]]
  <2> HIDE DEF done, sizes, place
  <2>1. \A i \in 1 .. n : kinds[i] = cs[i].kind
    OBVIOUS
  <2> HIDE DEF kinds
  <2> QED BY <1>1, <1>6, <2>1
<1>12. sizes = Grown(cs, max, f)
  <2>1. growing = {i \in 1 .. n : cs[i].kind.grow}
    OBVIOUS
  <2> HIDE DEF done, growing
  <2> QED BY <1>5, <2>1 DEF Grown
<1> HIDE DEF sizes, place
<1>13. Placed(n, sizes, place)
  BY <1>10 DEF Placed
<1> HIDE DEF n, kinds
<1>14. /\ Grown(cs, max, f) \in [1 .. n -> Int]
       /\ Placed(n, Grown(cs, max, f), place)
       /\ Layout(cs, max) = [i \in 1 .. n |->
            [kind |-> cs[i].kind, failed |-> FALSE, size |-> Grown(cs, max, f)[i],
             at |-> place[i - 1]]]
  BY <1>8, <1>11, <1>12, <1>13
<1> QED BY <1>14 DEF n

LEMMA MinIsFirst ==
  ASSUME NEW n \in Nat, NEW set \in SUBSET (1 .. n), set # {}
  PROVE  Min(set) \in set
<1>1. 1 \in Int /\ n \in Int
  OBVIOUS
<1>2. \E x \in set : \A y \in set : x <= y
  BY <1>1, FirstExists
<1> QED BY <1>2 DEF Min

LEMMA GrownSizes ==
  ASSUME NEW cs, NEW max, HasRoom(cs, max), NEW f, Ends(cs, f)
  PROVE  \E g \in 1 .. Len(cs) + 1 : \E more \in Nat :
           /\ \A i \in 1 .. Len(cs) :
                Grown(cs, max, f)[i] = Asked(cs, i) + (IF i = g THEN more ELSE 0)
           /\ g > Len(cs) => more = 0
           /\ (\E i \in 1 .. Len(cs) : cs[i].kind.grow)
                => f[Len(cs)] - Gap + more = max
<1> DEFINE n == Len(cs)
           growing == {i \in 1 .. n : cs[i].kind.grow}
           g == Min(growing)
           sizes == Granted(cs, f, n).sizes
           used == f[n] - Gap
<1>1. n \in Nat /\ n > 0 /\ Gap \in Nat /\ max \in Int /\ f[n] \in Int /\ used \in Int
  <2>1. n \in Nat /\ n > 0 /\ Gap \in Nat /\ max \in Int
    BY RowFacts DEF HasRoom
  <2>2. f[n] \in Int
    BY <2>1 DEF Ends
  <2> HIDE DEF n
  <2> QED BY <2>1, <2>2
<1>2. used <= max
  <2>1. RowPreferred(cs) = used
    BY RowAsksForEnd DEF HasRoom
  <2> HIDE DEF n
  <2> QED BY <1>1, <2>1 DEF HasRoom
<1>3. /\ sizes = [i \in 1 .. n |-> Asked(cs, i)]
      /\ \A i \in 1 .. n : sizes[i] = Asked(cs, i) /\ Asked(cs, i) \in Nat
  <2>1. \A i \in 1 .. n : i <= n
    BY <1>1
  <2>2. sizes = [i \in 1 .. n |-> Asked(cs, i)]
    BY <2>1 DEF Granted
  <2>3. \A i \in 1 .. n : Asked(cs, i) \in Nat
    BY RowFacts DEF HasRoom
  <2> HIDE DEF sizes
  <2> QED BY <2>2, <2>3
<1>4. Granted(cs, f, n).used = used
  BY DEF Granted
<1>5. Grown(cs, max, f) = IF used < max /\ growing # {}
                          THEN [sizes EXCEPT ![g] = @ + max - used] ELSE sizes
  <2>1. Grown(cs, max, f) = IF Granted(cs, f, n).used < max /\ growing # {}
                            THEN [sizes EXCEPT ![g] = @ + max - Granted(cs, f, n).used] ELSE sizes
    BY DEF Grown
  <2> HIDE DEF used, sizes, growing
  <2> QED BY <1>4, <2>1
<1>6. (\E i \in 1 .. n : cs[i].kind.grow) <=> growing # {}
  OBVIOUS
<1>7. CASE used < max /\ growing # {}
  <2>1. g \in 1 .. n
    <3>1. growing \in SUBSET (1 .. n)
      OBVIOUS
    <3> HIDE DEF growing
    <3> QED BY <1>1, <1>7, <3>1, MinIsFirst
  <2> DEFINE more == max - used
  <2>2. more \in Nat /\ used + more = max
    <3> HIDE DEF used
    <3> QED BY <1>1, <1>7
  <2>3. Grown(cs, max, f) = [sizes EXCEPT ![g] = sizes[g] + max - used]
    <3> HIDE DEF used, sizes, g
    <3> QED BY <1>5, <1>7
  <2>4. \A i \in 1 .. n : Grown(cs, max, f)[i] = Asked(cs, i) + (IF i = g THEN more ELSE 0)
    <3> TAKE i \in 1 .. n
    <3>1. Grown(cs, max, f)[i] = IF i = g THEN sizes[g] + max - used ELSE sizes[i]
      <4> HIDE DEF used, sizes, g
      <4> QED BY <1>3, <2>3
    <3>2. sizes[i] = Asked(cs, i) /\ Asked(cs, i) \in Int
      BY <1>3
    <3>3. sizes[i] + max - used = Asked(cs, i) + more
      <4> HIDE DEF used, sizes, g
      <4> QED BY <1>1, <3>2
    <3> HIDE DEF used, sizes, g, more
    <3> QED BY <3>1, <3>2, <3>3
  <2>5. g \in 1 .. n + 1 /\ ~(g > n)
    <3> HIDE DEF g, n
    <3> QED BY <1>1, <2>1
  <2> HIDE DEF g, more, used
  <2> QED BY <2>2, <2>4, <2>5 DEF used
<1>8. CASE ~(used < max /\ growing # {})
  <2>1. n + 1 \in 1 .. n + 1 /\ 0 \in Nat /\ \A i \in 1 .. n : i # n + 1
    <3> HIDE DEF n
    <3> QED BY <1>1
  <2>2. \A i \in 1 .. n : Grown(cs, max, f)[i] = Asked(cs, i)
    <3> HIDE DEF used, sizes, g, growing
    <3> QED BY <1>3, <1>5, <1>8
  <2>3. \A i \in 1 .. n : Asked(cs, i) + 0 = Asked(cs, i)
    <3> HIDE DEF n
    <3> QED BY <1>3
  <2>4. growing # {} => used + 0 = max
    <3> HIDE DEF used, growing
    <3> QED BY <1>1, <1>2, <1>8
  <2>5. \A i \in 1 .. n :
          Grown(cs, max, f)[i] = Asked(cs, i) + (IF i = n + 1 THEN 0 ELSE 0)
    BY <2>2, <2>3
  <2> HIDE DEF growing
  <2> QED BY <1>6, <2>1, <2>4, <2>5
<1> QED BY <1>7, <1>8

\* A layout with room shows every child, at the size it prefers or more, and a
\* growing child fills the row.
LEMMA RoomShows ==
  ASSUME NEW cs, NEW max, HasRoom(cs, max)
  PROVE  /\ Len(Layout(cs, max)) = Len(cs) /\ DOMAIN Layout(cs, max) = 1 .. Len(cs)
         /\ \A i \in 1 .. Len(cs) :
              /\ ~Layout(cs, max)[i].failed
              /\ Layout(cs, max)[i].size >= Preferred(cs[i].kind, max, TRUE)
         /\ (\E i \in 1 .. Len(cs) : cs[i].kind.grow)
              => Layout(cs, max)[Len(cs)].at + Layout(cs, max)[Len(cs)].size = max
<1> DEFINE n == Len(cs)
<1>1. /\ n \in Nat /\ n > 0 /\ Gap \in Nat /\ max \in Int /\ DOMAIN cs = 1 .. n
      /\ \A i \in 1 .. n : Asked(cs, i) \in Nat
  BY RowFacts DEF HasRoom
<1>2. PICK f : Ends(cs, f)
  BY RowFacts DEF HasRoom
<1>3. PICK sizes : sizes = Grown(cs, max, f)
  OBVIOUS
<1>4. PICK place :
        /\ Placed(n, sizes, place)
        /\ Layout(cs, max) = [i \in 1 .. n |->
             [kind |-> cs[i].kind, failed |-> FALSE, size |-> sizes[i], at |-> place[i - 1]]]
  BY <1>2, <1>3, LayoutWithRoom
<1>5. PICK r : r = Layout(cs, max)
  OBVIOUS
<1>6. PICK g \in 1 .. n + 1, more \in Nat :
        /\ \A i \in 1 .. n : sizes[i] = Asked(cs, i) + (IF i = g THEN more ELSE 0)
        /\ g > n => more = 0
        /\ (\E i \in 1 .. n : cs[i].kind.grow) => f[n] - Gap + more = max
  BY <1>2, <1>3, GrownSizes
<1>7. /\ Len(r) = n /\ DOMAIN r = 1 .. n
      /\ \A i \in 1 .. n : ~r[i].failed /\ r[i].size = sizes[i] /\ r[i].at = place[i - 1]
  <2> HIDE DEF n
  <2> QED BY <1>1, <1>4, <1>5
<1>8. \A i \in 1 .. n : sizes[i] >= Preferred(cs[i].kind, max, TRUE)
  <2> TAKE i \in 1 .. n
  <2>1. Preferred(cs[i].kind, max, TRUE) = Asked(cs, i)
    BY <1>1, KindSizes DEF HasRoom, IsRow, IsChild, Asked
  <2>2. PICK extra \in Nat : extra = IF i = g THEN more ELSE 0
    OBVIOUS
  <2>3. sizes[i] = Asked(cs, i) + extra /\ Asked(cs, i) \in Nat
    BY <1>1, <1>6, <2>2
  <2>4. PICK asked \in Nat : asked = Asked(cs, i)
    BY <2>3
  <2>5. asked + extra >= asked
    OBVIOUS
  <2> HIDE DEF n
  <2> QED BY <2>1, <2>3, <2>4, <2>5
<1>9. ASSUME \E i \in 1 .. n : cs[i].kind.grow
      PROVE  r[n].at + r[n].size = max
  <2> DEFINE sum == [i \in 0 .. n |-> f[i] + (IF g <= i THEN more ELSE 0)]
  <2>1. f[0] = 0 /\ \A i \in 0 .. n : f[i] \in Int
    BY <1>2 DEF Ends
  <2>2. \A i \in 1 .. n : f[i] = f[i - 1] + Asked(cs, i) + Gap
    BY <1>2 DEF Ends
  <2>3. place[0] = sum[0]
    <3>1. ~(g <= 0) /\ 0 \in 0 .. n
      <4> HIDE DEF n
      <4> QED BY <1>1
    <3>2. place[0] = 0
      BY <1>4 DEF Placed
    <3> QED BY <2>1, <3>1, <3>2
  <2>4. ASSUME NEW i \in 1 .. n, place[i - 1] = sum[i - 1]
        PROVE  place[i] = sum[i]
    <3>1. place[i] = place[i - 1] + (sizes[i] + Gap)
      BY <1>4 DEF Placed
    <3>2. /\ i \in 0 .. n /\ i - 1 \in 0 .. n /\ i \in Int
          /\ (g <= i - 1 <=> g <= i /\ g # i) /\ (g = i => g <= i)
      <4> HIDE DEF n
      <4> QED BY <1>1
    <3>3. /\ sum[i - 1] = f[i - 1] + (IF g <= i - 1 THEN more ELSE 0)
          /\ sum[i] = f[i] + (IF g <= i THEN more ELSE 0)
      BY <3>2
    <3>4. sizes[i] = Asked(cs, i) + (IF i = g THEN more ELSE 0)
      BY <1>6
    <3>5. f[i - 1] \in Int /\ Asked(cs, i) \in Int /\ f[i] = f[i - 1] + Asked(cs, i) + Gap
      BY <1>1, <2>1, <2>2, <3>2
    <3> HIDE DEF n, sum
    <3> QED BY <1>1, <2>4, <3>1, <3>2, <3>3, <3>4, <3>5
  <2>5. \A i \in 0 .. n : place[i] = sum[i]
    <3>1. \A i \in 1 .. n : place[i - 1] = sum[i - 1] => place[i] = sum[i]
      BY <2>4
    <3>2. n \in Nat
      BY <1>1
    <3> HIDE DEF n, sum
    <3> QED BY <2>3, <3>1, <3>2, SameRecursion
  <2>6. n \in 0 .. n /\ n - 1 \in 0 .. n /\ n \in 1 .. n
    <3> HIDE DEF n
    <3> QED BY <1>1
  <2>7. place[n] = place[n - 1] + (sizes[n] + Gap)
    BY <1>4, <2>6 DEF Placed
  <2>8. place[n] = f[n] + more
    <3>1. place[n] = f[n] + (IF g <= n THEN more ELSE 0)
      BY <2>5, <2>6
    <3> HIDE DEF n
    <3> QED BY <1>1, <1>6, <2>1, <2>6, <3>1
  <2>9. place[n - 1] \in Int /\ sizes[n] \in Int /\ f[n] \in Int
    <3>1. sum[n - 1] \in Int
      <4>1. sum[n - 1] = f[n - 1] + (IF g <= n - 1 THEN more ELSE 0)
        BY <2>6
      <4> HIDE DEF n, sum
      <4> QED BY <2>1, <2>6, <4>1
    <3>2. sizes[n] \in Int
      <4> HIDE DEF n
      <4> QED BY <1>1, <1>6, <2>6
    <3> QED BY <2>1, <2>5, <2>6, <3>1, <3>2
  <2>10. f[n] - Gap + more = max
    BY <1>6, <1>9
  <2>11. r[n].at = place[n - 1] /\ r[n].size = sizes[n]
    BY <1>7, <2>6
  <2>12. Gap \in Int /\ max \in Int /\ more \in Int
    BY <1>1
  <2>13. PICK at, size, end : at = place[n - 1] /\ size = sizes[n] /\ end = f[n]
    OBVIOUS
  <2>14. at + (size + Gap) = end + more /\ end - Gap + more = max
    BY <2>7, <2>8, <2>10, <2>13
  <2>15. at \in Int /\ size \in Int /\ end \in Int
    BY <2>9, <2>13
  <2>16. at + size = max
    BY <2>12, <2>14, <2>15
  <2> QED BY <2>11, <2>13, <2>16
<1> HIDE DEF n
<1>10. \A i \in 1 .. n : r[i].size >= Preferred(cs[i].kind, max, TRUE)
  BY <1>7, <1>8
<1> QED BY <1>5, <1>7, <1>9, <1>10 DEF n

RowOf(cs, failed, size, at) ==
  [i \in 1 .. Len(cs) |->
     [kind |-> cs[i].kind, failed |-> failed[i], size |-> size[i], at |-> at[i]]]

\* A layout keeps the children and their order; so a row that has been laid out asks
\* for what it asked for before.
LEMMA LayoutKeepsRow ==
  ASSUME NEW cs, IsRow(cs), NEW max
  PROVE  /\ IsRow(Layout(cs, max)) /\ Len(Layout(cs, max)) = Len(cs)
         /\ \A i \in 1 .. Len(cs) : Layout(cs, max)[i].kind = cs[i].kind
         /\ RowPreferred(Layout(cs, max)) = RowPreferred(cs)
<1>1. Len(cs) \in Nat /\ DOMAIN cs = 1 .. Len(cs) /\ \A i \in 1 .. Len(cs) : cs[i].kind \in Kinds
  BY RowFacts DEF IsRow, IsChild
<1>2. PICK failed, size, at : Layout(cs, max) = RowOf(cs, failed, size, at)
  <2> DEFINE n == Len(cs)
             kinds == [i \in 1 .. n |-> cs[i].kind]
             Pass(p) == [i \in 0 .. n |->
               IF i = 0 THEN [used |-> 0, sizes |-> [j \in 1 .. n |-> 0],
                              failed |-> [j \in 1 .. n |-> cs[j].failed]]
               ELSE SizeChild(kinds, max, i, p[i - 1])]
             pass == CHOOSE p : p = Pass(p)
             done == pass[n]
             growing == {i \in 1 .. n : kinds[i].grow}
             sizes == IF done.used < max /\ growing # {}
                      THEN [done.sizes EXCEPT ![Min(growing)] = @ + max - done.used] ELSE done.sizes
             Place(u) == [i \in 0 .. n |->
               IF i = 0 THEN 0 ELSE u[i - 1] + (IF done.failed[i] THEN 0 ELSE sizes[i] + Gap)]
             place == CHOOSE u : u = Place(u)
             before == [i \in 1 .. n |-> IF done.failed[i] THEN cs[i].at ELSE place[i - 1]]
  <2>1. Layout(cs, max) =
          [i \in 1 .. n |->
             [kind |-> kinds[i], failed |-> done.failed[i], size |-> sizes[i],
              at |-> IF done.failed[i] THEN cs[i].at ELSE place[i - 1]]]
    BY DEF Layout
  <2>2. \A i \in 1 .. n : before[i] = IF done.failed[i] THEN cs[i].at ELSE place[i - 1]
    OBVIOUS
  <2>3. \A i \in 1 .. n : kinds[i] = cs[i].kind
    OBVIOUS
  <2> HIDE DEF kinds, done, sizes, place, before
  <2>4. Layout(cs, max) = RowOf(cs, done.failed, sizes, before)
    BY <2>1, <2>2, <2>3 DEF RowOf
  <2> QED BY <2>4
<1>3. PICK r : r = Layout(cs, max)
  OBVIOUS
<1>4. /\ r \in Seq({r[i] : i \in DOMAIN r}) /\ Len(r) = Len(cs) /\ DOMAIN r = 1 .. Len(cs)
      /\ \A i \in 1 .. Len(cs) : "kind" \in DOMAIN r[i] /\ r[i].kind = cs[i].kind
  <2>1. /\ DOMAIN r = 1 .. Len(cs)
        /\ r = [i \in 1 .. Len(cs) |-> r[i]]
    BY <1>2, <1>3 DEF RowOf
  <2>2. \A i \in 1 .. Len(cs) : r[i] =
          [kind |-> cs[i].kind, failed |-> failed[i], size |-> size[i], at |-> at[i]]
    BY <1>2, <1>3 DEF RowOf
  <2>3. \A i \in 1 .. Len(cs) : "kind" \in DOMAIN r[i] /\ r[i].kind = cs[i].kind
    <3> TAKE i \in 1 .. Len(cs)
    <3>1. PICK kind : kind = cs[i].kind
      OBVIOUS
    <3>2. r[i] = [kind |-> kind, failed |-> failed[i], size |-> size[i], at |-> at[i]]
      BY <2>2, <3>1
    <3>3. "kind" \in DOMAIN r[i] /\ r[i].kind = kind
      BY <3>2
    <3> QED BY <3>1, <3>3
  <2>4. r \in [1 .. Len(cs) -> {r[i] : i \in DOMAIN r}]
    BY <2>1
  <2>5. Len(r) = Len(cs)
    BY <1>1, <2>1
  <2>6. r \in Seq({r[i] : i \in DOMAIN r})
    BY <1>1, <2>4
  <2> QED BY <2>1, <2>3, <2>5, <2>6
<1>5. IsRow(r)
  BY <1>1, <1>4 DEF IsRow, IsChild
<1>6. RowPreferred(r) = RowPreferred(cs)
  <2>1. PICK f : Ends(cs, f)
    BY RowFacts
  <2>2. Ends(r, f)
    BY <1>4, <2>1 DEF Ends, Asked
  <2>3. r = <<>> <=> cs = <<>>
    <3>1. cs = <<>> <=> Len(cs) = 0
      BY DEF IsRow
    <3>2. r = <<>> <=> Len(r) = 0
      BY <1>5 DEF IsRow
    <3> QED BY <1>4, <3>1, <3>2
  <2>4. RowPreferred(r) = IF r = <<>> THEN 0 ELSE f[Len(r)] - Gap
    BY <1>5, <2>2, RowAsksForEnd
  <2>5. RowPreferred(cs) = IF cs = <<>> THEN 0 ELSE f[Len(cs)] - Gap
    BY <2>1, RowAsksForEnd
  <2> QED BY <1>4, <2>3, <2>4, <2>5
<1> QED BY <1>3, <1>4, <1>5, <1>6

RowIInv == IsRow(children) /\ RoomMeansShown

LEMMA RowStarts == RowInit => RowIInv
<1> SUFFICES ASSUME RowInit PROVE RowIInv
  OBVIOUS
<1>1. children = <<>> /\ ~laid
  BY DEF RowInit
<1>2. IsRow(children)
  BY <1>1 DEF IsRow
<1> QED BY <1>1, <1>2 DEF RowIInv, RoomMeansShown

LEMMA RowRepositionShows ==
  ASSUME IsRow(children), NEW max \in Int, RowReposition(max)
  PROVE  RowIInv'
<1>1. PICK cs, r : cs = children /\ r = Layout(cs, max)
  OBVIOUS
<1>2. /\ IsRow(cs) /\ children' = r /\ box' = max /\ laid'
      /\ IsRow(r) /\ Len(r) = Len(cs) /\ DOMAIN r = 1 .. Len(cs) /\ DOMAIN cs = 1 .. Len(cs)
      /\ \A i \in 1 .. Len(cs) : r[i].kind = cs[i].kind
      /\ RowPreferred(r) = RowPreferred(cs)
  <2>1. IsRow(cs) /\ children' = r /\ box' = max /\ laid'
    BY <1>1 DEF RowReposition
  <2>2. /\ IsRow(r) /\ Len(r) = Len(cs) /\ RowPreferred(r) = RowPreferred(cs)
        /\ \A i \in 1 .. Len(cs) : r[i].kind = cs[i].kind
    BY <1>1, <2>1, LayoutKeepsRow
  <2>3. DOMAIN r = 1 .. Len(r) /\ DOMAIN cs = 1 .. Len(cs)
    BY <2>1, <2>2, RowFacts
  <2> QED BY <2>1, <2>2, <2>3
<1>3. ASSUME /\ r # <<>> /\ max >= RowPreferred(r)
             /\ \A i \in DOMAIN r : r[i].kind.type # "percent"
      PROVE  /\ \A i \in DOMAIN r : ~r[i].failed
             /\ \A i \in DOMAIN r : r[i].size >= Preferred(r[i].kind, max, TRUE)
             /\ (\E i \in DOMAIN r : r[i].kind.grow) => Last(r).at + Last(r).size = max
  <2>1. cs # <<>>
    <3>1. Len(r) > 0
      BY <1>2, <1>3, RowFacts
    <3> QED BY <1>2, <3>1
  <2>2. HasRoom(cs, max)
    BY <1>2, <1>3, <2>1 DEF HasRoom
  <2>3. /\ \A i \in 1 .. Len(cs) :
             ~r[i].failed /\ r[i].size >= Preferred(cs[i].kind, max, TRUE)
        /\ (\E i \in 1 .. Len(cs) : cs[i].kind.grow)
             => r[Len(cs)].at + r[Len(cs)].size = max
    BY <1>1, <2>2, RoomShows
  <2>4. Last(r) = r[Len(cs)]
    BY <1>2 DEF Last
  <2> QED BY <1>2, <2>3, <2>4
<1>4. RoomMeansShown'
  <2>1. Shown' = {i \in DOMAIN r : ~r[i].failed}
    BY <1>2 DEF Shown
  <2>2. ASSUME /\ r # <<>> /\ max >= RowPreferred(r)
               /\ \A i \in DOMAIN r : r[i].kind.type # "percent"
        PROVE  /\ Shown' = DOMAIN r
               /\ \A i \in Shown' : r[i].size >= Preferred(r[i].kind, max, TRUE)
               /\ (\E i \in Shown' : r[i].kind.grow) => Last(r).at + Last(r).size = max
    BY <1>3, <2>1, <2>2
  <2> QED BY <1>2, <2>2 DEF RoomMeansShown
<1> QED BY <1>2, <1>4 DEF RowIInv

\* A sequence over any set is one over its own elements.
LEMMA OwnElements ==
  ASSUME NEW S, NEW s \in Seq(S), \A i \in DOMAIN s : IsChild(s[i])
  PROVE  IsRow(s)
<1>1. Len(s) \in Nat /\ DOMAIN s = 1 .. Len(s) /\ s = [i \in 1 .. Len(s) |-> s[i]]
  OBVIOUS
<1>2. PICK T : T = {s[i] : i \in DOMAIN s}
  OBVIOUS
<1>3. s \in Seq(T)
  <2>1. \A i \in 1 .. Len(s) : s[i] \in T
    BY <1>1, <1>2
  <2> QED BY <1>1, <2>1
<1> QED BY <1>2, <1>3 DEF IsRow

LEMMA AppendKeepsRow ==
  ASSUME IsRow(children), NEW k \in Kinds, AppendChild(k)
  PROVE  IsRow(children')
<1> DEFINE S == {children[i] : i \in DOMAIN children} \cup {Fresh(k)}
<1>1. IsChild(Fresh(k))
  BY DEF IsChild, Fresh
<1>2. children \in Seq(S) /\ \A i \in DOMAIN children : IsChild(children[i])
  BY DEF IsRow
<1>3. Fresh(k) \in S
  OBVIOUS
<1> HIDE DEF S
<1>4. children' = Append(children, Fresh(k)) /\ children' \in Seq(S)
  BY <1>2, <1>3 DEF AppendChild
<1>5. \A i \in DOMAIN children' : children'[i] = Fresh(k)
        \/ (i \in DOMAIN children /\ children'[i] = children[i])
  BY <1>2, <1>3, <1>4
<1>6. \A i \in DOMAIN children' : IsChild(children'[i])
  BY <1>1, <1>2, <1>5
<1> QED BY <1>4, <1>6, OwnElements

LEMMA EraseKeepsRow ==
  ASSUME IsRow(children), NEW i \in DOMAIN children, EraseChild(i)
  PROVE  IsRow(children')
<1> DEFINE S == {children[j] : j \in DOMAIN children}
           before == SubSeq(children, 1, i - 1)
           after == SubSeq(children, i + 1, Len(children))
<1>1. children \in Seq(S) /\ \A s \in S : IsChild(s)
  BY DEF IsRow
<1> HIDE DEF S
<1>2. Len(children) \in Nat /\ i \in 1 .. Len(children)
  BY <1>1
<1>3. before \in Seq(S) /\ after \in Seq(S)
  BY <1>1, <1>2
<1>4. children' = before \o after
  BY DEF EraseChild, RemoveAt
<1> HIDE DEF before, after
<1>5. children' \in Seq(S)
  BY <1>3, <1>4
<1>6. \A j \in DOMAIN children' : children'[j] \in S
  BY <1>5
<1> QED BY <1>1, <1>5, <1>6, OwnElements

LEMMA ReplaceKeepsRow ==
  ASSUME IsRow(children), NEW i \in DOMAIN children, NEW k \in Kinds, ReplaceChild(i, k)
  PROVE  IsRow(children')
<1>1. PICK c : c = [children[i] EXCEPT !.kind = k]
  OBVIOUS
<1> DEFINE S == {children[j] : j \in DOMAIN children} \cup {c}
<1>2. children \in Seq(S) /\ \A s \in S : IsChild(s)
  <2>1. IsChild(children[i])
    BY DEF IsRow
  <2>2. IsChild(c)
    BY <1>1, <2>1 DEF IsChild
  <2> QED BY <2>2 DEF IsRow
<1>3. children' = [children EXCEPT ![i] = c] /\ c \in S
  BY <1>1 DEF ReplaceChild
<1> HIDE DEF S
<1>4. children' \in Seq(S)
  BY <1>2, <1>3
<1>5. \A j \in DOMAIN children' : children'[j] \in S
  BY <1>4
<1> QED BY <1>2, <1>4, <1>5, OwnElements

LEMMA RowStep == RowIInv /\ [RowNext]_rowVars => RowIInv'
<1> SUFFICES ASSUME RowIInv, [RowNext]_rowVars PROVE RowIInv'
  OBVIOUS
<1>1. IsRow(children)
  BY DEF RowIInv
<1>2. ASSUME NEW k \in Kinds, AppendChild(k) PROVE RowIInv'
  <2>1. IsRow(children') /\ ~laid'
    BY <1>1, <1>2, AppendKeepsRow DEF AppendChild
  <2> QED BY <2>1 DEF RowIInv, IsRow, RoomMeansShown
<1>3. ASSUME NEW i \in DOMAIN children, EraseChild(i) PROVE RowIInv'
  <2>1. IsRow(children') /\ ~laid'
    BY <1>1, <1>3, EraseKeepsRow DEF EraseChild
  <2> QED BY <2>1 DEF RowIInv, IsRow, RoomMeansShown
<1>4. ASSUME NEW i \in DOMAIN children, NEW k \in Kinds, ReplaceChild(i, k) PROVE RowIInv'
  <2>1. IsRow(children') /\ ~laid'
    BY <1>1, <1>4, ReplaceKeepsRow DEF ReplaceChild
  <2> QED BY <2>1 DEF RowIInv, IsRow, RoomMeansShown
<1>5. ASSUME NEW max \in Widths, RowReposition(max) PROVE RowIInv'
  <2>1. max \in Int
    BY LayoutAssumption
  <2> QED BY <1>1, <1>5, <2>1, RowRepositionShows
<1>6. ASSUME RowRepositionAuto PROVE RowIInv'
  <2>1. PICK max : max = RowPreferred(children)
    OBVIOUS
  <2>2. RowReposition(max)
    BY <1>6, <2>1 DEF RowRepositionAuto
  <2>3. max \in Int
    <3>1. PICK f : Ends(children, f)
      BY <1>1, RowFacts
    <3>2. Len(children) \in Nat /\ Gap \in Nat
      BY <1>1, RowFacts
    <3>3. f[Len(children)] \in Int
      BY <3>1, <3>2 DEF Ends
    <3>4. f[Len(children)] - Gap \in Int
      BY <3>2, <3>3
    <3> QED BY <1>1, <2>1, <3>1, <3>4, RowAsksForEnd
  <2> QED BY <1>1, <2>2, <2>3, RowRepositionShows
<1>7. CASE UNCHANGED rowVars
  BY <1>7 DEF RowIInv, IsRow, RoomMeansShown, Shown, rowVars
<1> QED BY <1>2, <1>3, <1>4, <1>5, <1>6, <1>7 DEF RowNext

\* Whatever LinearLayout.hpp hid or squeezed in earlier layouts: as soon as a row of children
\* of fixed or automatic size is as wide as it asks to be, the next layout shows each of
\* them at its preferred size or more, and a growing child takes the rest to the pixel.
THEOREM RoomIsUsed == RowSpec => []RoomMeansShown
<1>1. RowIInv => RoomMeansShown
  BY DEF RowIInv
<1> QED BY <1>1, RowStarts, RowStep, PTL DEF RowSpec

----------------------------------------------------------------------------
\* ScrollArea: the offset within the content

AreaTypes ==
  /\ view \in Nat /\ content \in Nat /\ maxScroll \in Nat /\ scroll \in Int /\ offset \in Int
  /\ draft \in Int /\ settings \in Settings /\ fresh \in BOOLEAN /\ scheduled \in BOOLEAN

\* As long as nothing changed since the last layout, the scroll is within the limit of
\* the content and the content is shifted by it.  A builder may put it past the limit,
\* until the layout that it asks for.
AreaWithin ==
  /\ AreaTypes
  /\ ~settings.scroll => scroll = 0
  /\ fresh => /\ offset = scroll /\ scroll \in 0 .. maxScroll
              /\ maxScroll = (IF content > view THEN content - view ELSE 0)

LEMMA ClampIsWithin ==
  ASSUME NEW max \in Nat, NEW s \in Int
  PROVE  /\ ClampMaxScroll(s, max) \in 0 .. max
         /\ ~settings.scroll => ClampMaxScroll(s, max) = 0
BY DEF ClampMaxScroll, Clamp

LEMMA QuotientIsInt == \A a \in Int, b \in Nat \ {0} : a \div b \in Int
OBVIOUS

LEMMA OfTwo ==
  ASSUME NEW a \in Int, NEW b \in Int
  PROVE  Max({a, b}) \in {a, b} /\ Min({a, b}) \in {a, b}
<1>1. (\E x \in {a, b} : \A y \in {a, b} : x >= y) /\ (\E x \in {a, b} : \A y \in {a, b} : x <= y)
  <2>1. CASE a <= b
    BY <2>1
  <2>2. CASE ~(a <= b)
    BY <2>2
  <2> QED BY <2>1, <2>2
<1> QED BY <1>1 DEF Max, Min

Bars ==
  [strip : BOOLEAN, shown : BOOLEAN, dragging : BOOLEAN, hovered : BOOLEAN, grab : Int,
   trackLen : Int, thumbOff : Int, thumbLen : Int, maxOff : Int, lastLocal : Int]

LEMMA BarsLaidOut ==
  ASSUME NEW b \in Bars, NEW v \in Nat \ {0}, NEW max \in Nat, NEW s \in Int
  PROVE  LayoutScrollbar(b, v, max, s) \in Bars
<1>1. PICK track : track = v - 2 * Pad
  OBVIOUS
<1>2. PICK part : part = (track * v) \div (v + max)
  OBVIOUS
<1>3. PICK thumb : thumb = Min({track, Max({MinThumb, part})})
  OBVIOUS
<1>4. track \in Int /\ part \in Int /\ thumb \in Int
  <2>1. track \in Int /\ track * v \in Int /\ v + max \in Nat \ {0}
    BY <1>1 DEF Pad
  <2>2. part \in Int /\ MinThumb \in Int
    BY <1>2, <2>1, QuotientIsInt DEF MinThumb
  <2>3. PICK m : m = Max({MinThumb, part})
    OBVIOUS
  <2>4. m \in Int
    BY <2>2, <2>3, OfTwo
  <2>5. thumb \in {track, m}
    BY <1>3, <2>1, <2>3, <2>4, OfTwo
  <2> QED BY <2>1, <2>2, <2>4, <2>5
<1>5. PICK off : off = Pad + (s * (track - thumb)) \div max
  OBVIOUS
<1>6. max > 0 => off \in Int
  <2>1. s * (track - thumb) \in Int
    BY <1>4
  <2>2. max > 0 => (s * (track - thumb)) \div max \in Int
    BY <2>1, QuotientIsInt
  <2> QED BY <1>5, <2>2 DEF Pad
<1> DEFINE b1 == [b EXCEPT !.shown = TRUE]
           b2 == [b1 EXCEPT !.trackLen = track]
           b3 == [b2 EXCEPT !.maxOff = max]
           b4 == [b3 EXCEPT !.thumbLen = thumb]
           b5 == [b4 EXCEPT !.thumbOff = off]
<1>7. [b EXCEPT !.shown = FALSE] \in Bars /\ b1 \in Bars
  BY DEF Bars
<1>8. b2 \in Bars
  <2> HIDE DEF b1
  <2> QED BY <1>4, <1>7 DEF Bars
<1>9. b3 \in Bars
  <2> HIDE DEF b2
  <2> QED BY <1>8 DEF Bars
<1>10. b4 \in Bars
  <2> HIDE DEF b3
  <2> QED BY <1>4, <1>9 DEF Bars
<1>11. max > 0 => b5 \in Bars
  <2> HIDE DEF b4
  <2> QED BY <1>6, <1>10 DEF Bars
<1>12. \/ LayoutScrollbar(b, v, max, s) \in {b, [b EXCEPT !.shown = FALSE], b2}
       \/ (max > 0 /\ LayoutScrollbar(b, v, max, s) = b5)
  <2>1. [b EXCEPT !.shown = TRUE, !.trackLen = track] = b2
    OBVIOUS
  <2>2. [b EXCEPT !.shown = TRUE, !.trackLen = track, !.maxOff = max, !.thumbLen = thumb,
                  !.thumbOff = off] = b5
    OBVIOUS
  <2> HIDE DEF b5, b2
  <2> QED BY <1>1, <1>2, <1>3, <1>5, <2>1, <2>2 DEF LayoutScrollbar
<1> QED BY <1>7, <1>8, <1>11, <1>12

AreaIInv == AreaWithin /\ bar \in Bars

LEMMA NewBarsFit == NoBar \in Bars /\ NewBar \in Bars
<1>1. NoBar \in Bars
  BY DEF NoBar, Bars
<1>2. PICK b : b = NoBar
  OBVIOUS
<1>3. [b EXCEPT !.strip = TRUE] \in Bars
  BY <1>1, <1>2 DEF Bars
<1> QED BY <1>1, <1>2, <1>3 DEF NewBar

\* A scroll that asks for a layout: the wheel, the application, the thumb
LEMMA AskedKeeps ==
  ASSUME AreaIInv, NEW s \in Int, scroll' = ClampMaxScroll(s, maxScroll), bar' \in Bars,
         scheduled' = TRUE, fresh' = FALSE,
         UNCHANGED <<view, content, draft, maxScroll, offset, settings>>
  PROVE  AreaIInv'
<1>1. scroll' \in 0 .. maxScroll /\ (~settings.scroll => scroll' = 0) /\ maxScroll \in Nat
  BY ClampIsWithin DEF AreaIInv, AreaWithin, AreaTypes
<1>2. (~settings'.scroll => scroll' = 0) /\ scroll' \in Int
  BY <1>1
<1>3. ~fresh'
  OBVIOUS
<1>4. AreaTypes'
  BY <1>2 DEF AreaIInv, AreaWithin, AreaTypes
<1> QED BY <1>2, <1>3, <1>4 DEF AreaIInv, AreaWithin

\* Nothing but the bar changes
LEMMA BarKeeps ==
  ASSUME AreaIInv, bar' \in Bars,
         UNCHANGED <<view, content, scroll, draft, maxScroll, offset, settings, scheduled, fresh>>
  PROVE  AreaIInv'
BY DEF AreaIInv, AreaWithin, AreaTypes

LEMMA ThumbKeeps ==
  ASSUME AreaIInv, NEW pos \in Int, NEW b \in Bars, bar' \in Bars, ScrollFromThumb(b, pos),
         UNCHANGED <<view, content, draft, maxScroll, offset, settings>>
  PROVE  AreaIInv'
<1>1. b.trackLen \in Int /\ b.thumbLen \in Int /\ b.maxOff \in Int /\ b.grab \in Int
  BY DEF Bars
<1>2. PICK span : span = b.trackLen - b.thumbLen
  OBVIOUS
<1>3. PICK off : off = Clamp(pos - b.grab, Pad, Pad + span)
  OBVIOUS
<1>4. span \in Int /\ off \in Int
  BY <1>1, <1>2, <1>3 DEF Clamp, Pad
<1>5. CASE span <= 0 \/ b.maxOff <= 0
  BY <1>2, <1>5, BarKeeps DEF ScrollFromThumb
<1>6. CASE ~(span <= 0 \/ b.maxOff <= 0)
  <2>1. PICK s : s = ((off - Pad) * b.maxOff) \div span
    OBVIOUS
  <2>2. s \in Int
    <3>1. (off - Pad) * b.maxOff \in Int /\ span \in Nat \ {0}
      BY <1>1, <1>4, <1>6 DEF Pad
    <3> QED BY <2>1, <3>1, QuotientIsInt
  <2>3. scroll' = ClampMaxScroll(s, maxScroll) /\ scheduled' = TRUE /\ fresh' = FALSE
    BY <1>2, <1>3, <1>6, <2>1 DEF ScrollFromThumb
  <2> QED BY <2>2, <2>3, AskedKeeps
<1> QED BY <1>5, <1>6

LEMMA LaidOutKeeps ==
  ASSUME AreaIInv, NEW v \in Nat \ {0}, Reposition(v)
  PROVE  AreaIInv'
<1>1. /\ content \in Nat /\ maxScroll \in Nat /\ scroll \in Int /\ settings \in Settings
      /\ bar \in Bars
  BY DEF AreaIInv, AreaWithin, AreaTypes
<1>2. /\ view' = v /\ content' = content /\ settings' = settings
      /\ scheduled' = TRUE /\ fresh' = TRUE /\ offset' = scroll' /\ draft' = draft /\ draft \in Int
  BY DEF Reposition, AreaIInv, AreaWithin, AreaTypes
<1>3. maxScroll' \in Nat /\ maxScroll' = (IF content > v THEN content - v ELSE 0)
  BY <1>1 DEF Reposition, RecalcMaxScroll, Overflow
<1>4. scroll' \in 0 .. maxScroll' /\ (~settings.scroll => scroll' = 0)
  <2>1. PICK first : first = ClampMaxScroll(scroll, maxScroll)
    OBVIOUS
  <2>2. first \in Int
    BY <1>1, <2>1, ClampIsWithin
  <2>3. PICK max : max = maxScroll'
    OBVIOUS
  <2>4. scroll' = ClampMaxScroll(first, max)
    BY <2>1, <2>3 DEF Reposition
  <2>5. ClampMaxScroll(first, max) \in 0 .. max /\ (~settings.scroll => ClampMaxScroll(first, max) = 0)
    BY <1>3, <2>2, <2>3, ClampIsWithin
  <2> QED BY <2>3, <2>4, <2>5
<1>5. bar' \in Bars
  <2>1. PICK max, s : max = maxScroll' /\ s = scroll'
    OBVIOUS
  <2>2. LayoutScrollbar(bar, v, max, s) \in Bars
    BY <1>1, <1>3, <1>4, <2>1, BarsLaidOut
  <2>3. bar' \in {bar, LayoutScrollbar(bar, v, max, s)}
    BY <2>1 DEF Reposition
  <2> QED BY <1>1, <2>2, <2>3
<1> QED BY <1>1, <1>2, <1>3, <1>4, <1>5 DEF AreaIInv, AreaWithin, AreaTypes

LEMMA AreaStarts == ScrollInit => AreaIInv
<1> SUFFICES ASSUME ScrollInit PROVE AreaIInv
  OBVIOUS
<1>1. settings \in Settings /\ settings.scroll
  BY DEF ScrollInit
<1>2. bar \in Bars
  BY NewBarsFit DEF ScrollInit
<1>3. /\ view = 0 /\ scroll = 0 /\ draft = 0 /\ maxScroll = 0 /\ offset = 0 /\ content \in Nat
      /\ scheduled = FALSE /\ fresh = FALSE
  BY ScrollAssumption DEF ScrollInit
<1>4. scheduled \in BOOLEAN /\ fresh \in BOOLEAN /\ ~fresh
  BY <1>3
<1>5. view \in Nat /\ maxScroll \in Nat /\ scroll \in Int /\ offset \in Int /\ draft \in Int
  BY <1>3
<1> QED BY <1>1, <1>2, <1>3, <1>4, <1>5 DEF AreaIInv, AreaWithin, AreaTypes

LEMMA AreaStep == AreaIInv /\ [ScrollNext]_scrollVars => AreaIInv'
<1> SUFFICES ASSUME AreaIInv, [ScrollNext]_scrollVars PROVE AreaIInv'
  OBVIOUS
<1>1. bar \in Bars /\ scroll \in Int /\ draft \in Int /\ view \in Nat
  BY DEF AreaIInv, AreaWithin, AreaTypes
<1>2. ASSUME NEW delta \in Deltas, MouseAxis(delta) PROVE AreaIInv'
  <2>1. scroll + delta \in Int
    BY <1>1, ScrollAssumption
  <2> QED BY <1>1, <1>2, <2>1, AskedKeeps DEF MouseAxis
<1>3. ASSUME NEW s \in Contents, SetScroll(s) PROVE AreaIInv'
  <2>1. s \in Int
    BY ScrollAssumption
  <2> QED BY <1>1, <1>3, <2>1, AskedKeeps DEF SetScroll
<1>4. ASSUME NEW c \in Contents, ContentChanges(c) PROVE AreaIInv'
  BY <1>4, ScrollAssumption DEF ContentChanges, AreaIInv, AreaWithin, AreaTypes
<1>5. ASSUME NEW new \in Settings, ReplaceAreaData(new) PROVE AreaIInv'
  <2>1. bar' \in Bars
    BY <1>1, <1>5, NewBarsFit DEF ReplaceAreaData
  <2>2. /\ settings' = new /\ scheduled' = TRUE /\ fresh' = FALSE
        /\ UNCHANGED <<view, content, draft, maxScroll, offset>>
        /\ scroll' \in {draft, 0} /\ (~new.scroll => scroll' = 0)
    BY <1>5 DEF ReplaceAreaData
  <2>3. /\ view \in Nat /\ content \in Nat /\ maxScroll \in Nat /\ offset \in Int
    BY DEF AreaIInv, AreaWithin, AreaTypes
  <2>4. scroll' \in Int
    BY <1>1, <2>2, <2>3
  <2> QED BY <2>1, <2>2, <2>3, <2>4 DEF AreaIInv, AreaWithin, AreaTypes
<1>13. ASSUME Rebuild PROVE AreaIInv'
  BY <1>1, <1>13 DEF Rebuild, AreaIInv, AreaWithin, AreaTypes
<1>6. ASSUME NEW pos \in StripPoints, StripMove(pos) PROVE AreaIInv'
  <2>1. bar' \in Bars /\ pos \in Nat
    BY <1>1, <1>6, ScrollAssumption DEF StripMove, Bars
  <2> QED BY <1>1, <1>6, <2>1, ThumbKeeps, BarKeeps DEF StripMove
<1>7. ASSUME NEW pos \in StripPoints, NEW h \in BOOLEAN, StripHover(h, pos) PROVE AreaIInv'
  <2>1. pos \in Int /\ bar.lastLocal \in Int
    BY <1>1, ScrollAssumption DEF Bars
  <2>2. PICK at \in Int : bar' = [[bar EXCEPT !.hovered = h] EXCEPT !.lastLocal = at]
    BY <1>7, <2>1 DEF StripHover
  <2>3. bar' \in Bars
    BY <1>1, <2>2 DEF Bars
  <2> QED BY <1>7, <2>3, BarKeeps DEF StripHover
<1>8. CASE StripPress
  <2>1. /\ bar.thumbLen \in Int /\ bar.lastLocal \in Int /\ bar.thumbOff \in Int
        /\ bar.thumbLen \div 2 \in Int
    BY <1>1 DEF Bars
  <2>2. PICK grab : grab = IF bar.thumbOff <= bar.lastLocal
                                 /\ bar.lastLocal < bar.thumbOff + bar.thumbLen
                              THEN bar.lastLocal - bar.thumbOff ELSE bar.thumbLen \div 2
    OBVIOUS
  <2>6. grab \in Int
    BY <2>1, <2>2
  <2>7. bar' = [[bar EXCEPT !.dragging = TRUE] EXCEPT !.grab = grab]
    BY <1>8, <2>2 DEF StripPress
  <2>3. bar' \in Bars
    BY <1>1, <2>6, <2>7 DEF Bars
  <2>4. PICK b, pos : b = bar' /\ pos = bar.lastLocal
    OBVIOUS
  <2>5. ScrollFromThumb(b, pos)
    BY <1>8, <2>4 DEF StripPress
  <2> QED BY <1>8, <2>1, <2>3, <2>4, <2>5, ThumbKeeps DEF StripPress
<1>9. CASE StripRelease
  <2>1. bar' \in Bars
    BY <1>1, <1>9 DEF StripRelease, Bars
  <2> QED BY <1>9, <2>1, BarKeeps DEF StripRelease
<1>10. ASSUME NEW v \in Views, Reposition(v) PROVE AreaIInv'
  BY <1>10, ScrollAssumption, LaidOutKeeps
<1>11. CASE Frame
  BY <1>1, <1>11, LaidOutKeeps DEF Frame
<1>12. CASE UNCHANGED scrollVars
  BY <1>1, <1>12, BarKeeps DEF scrollVars
<1> QED BY <1>2, <1>3, <1>4, <1>5, <1>6, <1>7, <1>8, <1>9, <1>10, <1>11, <1>12, <1>13 DEF ScrollNext

\* However stale the limit was that the wheel, the thumb and the application were clamped
\* against, and whatever offset a builder puts back, the layout of ScrollArea.cpp shifts the content neither past its end nor
\* before its start, and an axis that does not scroll is not shifted.
THEOREM ContentStaysInView == ScrollSpec => []ScrollWithinContent
<1>1. AreaIInv => ScrollWithinContent
  BY DEF AreaIInv, AreaWithin, AreaTypes, ScrollWithinContent
<1> QED BY <1>1, AreaStarts, AreaStep, PTL DEF ScrollSpec

\* The length of the thumb, and the bar as the last layout left it unless something changed since
ThumbFor(v, max) ==
  LET track == v - 2 * Pad
  IN  Min({track, Max({MinThumb, (track * v) \div (v + max)})})

BarIsLaid ==
  /\ bar.thumbLen \in Nat /\ (bar.strip => settings.bar)
  /\ (fresh /\ bar.strip /\ bar.shown /\ settings.scroll) =>
       /\ maxScroll > 0 /\ bar.trackLen = view - 2 * Pad
       /\ bar.trackLen > 0 =>
            /\ bar.maxOff = maxScroll /\ bar.thumbLen = ThumbFor(view, maxScroll)
            /\ bar.thumbOff = Pad + (scroll * (bar.trackLen - bar.thumbLen)) \div maxScroll

LEMMA QuotientIs ==
  ASSUME NEW a \in Nat, NEW b \in Nat \ {0}
  PROVE  LET q == a \div b IN q \in Nat /\ q * b <= a /\ a < q * b + b
OBVIOUS

LEMMA ProductsOrder ==
  ASSUME NEW a \in Int, NEW b \in Int, NEW m \in Nat \ {0}, a * m < b * m + m
  PROVE  a <= b
OBVIOUS

\* From the thumb to the scroll and back again: what two quotients lose
LEMMA ThereAndBack ==
  ASSUME NEW span \in Nat \ {0}, NEW max \in Nat \ {0}, NEW x \in 0 .. span
  PROVE  LET s == (x * max) \div span
             y == (s * span) \div max
         IN  /\ s \in 0 .. max /\ y \in 0 .. x
             /\ x - y <= 1 + span \div max /\ y - x <= 1 + span \div max
<1>1. x \in Nat /\ x <= span /\ x * max \in Nat /\ x * max <= span * max
  OBVIOUS
<1>2. PICK s : s = (x * max) \div span
  OBVIOUS
<1>3. s \in Nat /\ s * span <= x * max /\ x * max < s * span + span
  BY <1>1, <1>2, QuotientIs
<1>4. s <= max
  <2>1. s * span < max * span + span
    BY <1>1, <1>3
  <2> QED BY <1>3, <2>1, ProductsOrder
<1>5. PICK y : y = (s * span) \div max
  OBVIOUS
<1>6. s * span \in Nat
  BY <1>3
<1>7. y \in Nat /\ y * max <= s * span /\ s * span < y * max + max
  BY <1>5, <1>6, QuotientIs
<1>8. y <= x
  <2>1. y * max < x * max + max
    BY <1>1, <1>3, <1>7
  <2> QED BY <1>1, <1>7, <2>1, ProductsOrder
<1>9. PICK q : q = span \div max
  OBVIOUS
<1>10. q \in Nat /\ q * max <= span /\ span < q * max + max
  BY <1>9, QuotientIs
<1>11. x - y <= 1 + q
  <2>1. PICK d \in Int : d = x - y - 1
    BY <1>1, <1>7
  <2>2. d * max = x * max - y * max - max
    BY <1>1, <1>7, <2>1
  <2>3. PICK xm, ym, ss : xm = x * max /\ ym = y * max /\ ss = s * span
    OBVIOUS
  <2>4. xm \in Int /\ ym \in Int /\ ss \in Int /\ d * max \in Int
    BY <1>1, <1>6, <1>7, <2>1, <2>3
  <2>5. xm < ss + span /\ ss < ym + max
    BY <1>3, <1>7, <2>3
  <2>6. d * max < span
    BY <2>2, <2>3, <2>4, <2>5
  <2>7. d * max < q * max + max
    BY <1>10, <2>4, <2>6
  <2>8. d <= q
    BY <1>10, <2>1, <2>7, ProductsOrder
  <2> QED BY <1>1, <1>7, <1>10, <2>1, <2>8
<1> QED BY <1>1, <1>2, <1>3, <1>4, <1>5, <1>7, <1>8, <1>9, <1>10, <1>11

\* What a layout makes of a bar that is wanted and has a track
LEMMA BarLaidOut ==
  ASSUME NEW b \in Bars, b.strip, settings.scroll, NEW v \in Nat \ {0}, NEW max \in Nat \ {0}, NEW s \in Int,
         v - 2 * Pad > 0
  PROVE  LET r == LayoutScrollbar(b, v, max, s)
             thumb == ThumbFor(v, max)
         IN  /\ thumb \in Nat /\ r.shown /\ r.trackLen = v - 2 * Pad /\ r.maxOff = max /\ r.thumbLen = thumb
             /\ r.thumbOff = Pad + (s * (v - 2 * Pad - thumb)) \div max
<1>1. PICK track : track = v - 2 * Pad
  OBVIOUS
<1>2. PICK part : part = (track * v) \div (v + max)
  OBVIOUS
<1>3. PICK thumb : thumb = Min({track, Max({MinThumb, part})})
  OBVIOUS
<1>4. thumb \in Nat
  <2>1. track \in Nat /\ track * v \in Nat /\ v + max \in Nat \ {0}
    BY <1>1 DEF Pad
  <2>2. part \in Nat /\ MinThumb \in Nat
    BY <1>2, <2>1, QuotientIs DEF MinThumb
  <2>3. PICK m : m = Max({MinThumb, part})
    OBVIOUS
  <2>4. m \in Nat /\ m \in Int
    BY <2>2, <2>3, OfTwo
  <2>5. thumb = Min({track, m})
    BY <1>3, <2>3
  <2>6. track \in Int
    BY <2>1
  <2>7. Min({track, m}) \in {track, m}
    BY <2>4, <2>6, OfTwo
  <2> QED BY <2>1, <2>4, <2>5, <2>7
<1>5. thumb = ThumbFor(v, max)
  BY <1>1, <1>2, <1>3 DEF ThumbFor
<1>6. PICK off : off = Pad + (s * (track - thumb)) \div max
  OBVIOUS
<1>7. PICK r : r = [b EXCEPT !.shown = TRUE, !.trackLen = track, !.maxOff = max, !.thumbLen = thumb,
                            !.thumbOff = off]
  OBVIOUS
<1>8. r.shown = TRUE /\ r.trackLen = track /\ r.maxOff = max /\ r.thumbLen = thumb /\ r.thumbOff = off
  BY <1>7 DEF Bars
<1>9. LayoutScrollbar(b, v, max, s) = r
  <2>1. b.strip /\ settings.scroll /\ max > 0 /\ ~(track <= 0)
    BY <1>1 DEF Pad
  <2>2. LayoutScrollbar(b, v, max, s) =
          [b EXCEPT !.shown = TRUE, !.trackLen = v - 2 * Pad, !.maxOff = max,
                    !.thumbLen = Min({v - 2 * Pad, Max({MinThumb, ((v - 2 * Pad) * v) \div (v + max)})}),
                    !.thumbOff = Pad + (s * (v - 2 * Pad - Min({v - 2 * Pad,
                                    Max({MinThumb, ((v - 2 * Pad) * v) \div (v + max)})}))) \div max]
    BY <1>1, <2>1 DEF LayoutScrollbar
  <2> QED BY <1>1, <1>2, <1>3, <1>6, <1>7, <2>2
<1> QED BY <1>1, <1>4, <1>5, <1>6, <1>8, <1>9

\* The bar of a layout is the bar of the layout.
LEMMA LaidOutBarIsLaid ==
  ASSUME AreaIInv, BarIsLaid, NEW v \in Nat \ {0}, Reposition(v)
  PROVE  BarIsLaid'
<1>1. PICK max, s : max = maxScroll' /\ s = scroll'
  OBVIOUS
<1>2. /\ max \in Nat /\ s \in Int /\ bar \in Bars /\ bar' \in Bars
      /\ settings' = settings /\ view' = v
      /\ bar' = IF settings.bar THEN LayoutScrollbar(bar, v, max, s) ELSE bar
  BY <1>1, LaidOutKeeps DEF AreaIInv, AreaWithin, AreaTypes, Reposition
<1>3. PICK b : b = bar'
  OBVIOUS
<1> SUFFICES /\ b.thumbLen \in Nat /\ (b.strip => settings.bar)
             /\ (b.strip /\ b.shown /\ settings.scroll) =>
                  /\ max > 0 /\ b.trackLen = v - 2 * Pad
                  /\ b.trackLen > 0 =>
                       /\ b.maxOff = max /\ b.thumbLen = ThumbFor(v, max)
                       /\ b.thumbOff = Pad + (s * (b.trackLen - b.thumbLen)) \div max
  BY <1>1, <1>2, <1>3 DEF BarIsLaid, ThumbFor
<1>4. CASE ~settings.bar \/ ~bar.strip
  <2>1. b = bar /\ ~bar.strip
    BY <1>2, <1>3, <1>4 DEF LayoutScrollbar, BarIsLaid
  <2> QED BY <2>1 DEF BarIsLaid
<1>5. CASE settings.bar /\ bar.strip /\ ~(settings.scroll /\ max > 0)
  <2>1. b = [bar EXCEPT !.shown = FALSE]
    BY <1>2, <1>3, <1>5 DEF LayoutScrollbar
  <2>2. ~b.shown /\ b.thumbLen = bar.thumbLen
    BY <1>2, <2>1 DEF Bars
  <2> QED BY <1>5, <2>2 DEF BarIsLaid
<1>6. CASE settings.bar /\ bar.strip /\ settings.scroll /\ max > 0 /\ ~(v - 2 * Pad > 0)
  <2>1. PICK track \in Int : track = v - 2 * Pad
    BY DEF Pad
  <2>2. b = [bar EXCEPT !.shown = TRUE, !.trackLen = track]
    BY <1>2, <1>3, <1>6, <2>1 DEF LayoutScrollbar
  <2>3. b.trackLen = track /\ b.thumbLen = bar.thumbLen
    BY <1>2, <2>2 DEF Bars
  <2> QED BY <1>6, <2>1, <2>3 DEF BarIsLaid
<1>7. CASE settings.bar /\ bar.strip /\ settings.scroll /\ max > 0 /\ v - 2 * Pad > 0
  <2>1. max \in Nat \ {0} /\ b = LayoutScrollbar(bar, v, max, s)
    BY <1>2, <1>3, <1>7
  <2> QED BY <1>2, <1>7, <2>1, BarLaidOut
<1> QED BY <1>4, <1>5, <1>6, <1>7

\* What the input changes of the bar is not what the layout sets.
LEMMA InputKeepsBar ==
  ASSUME AreaIInv, BarIsLaid, NEW b \in Bars, bar' = b,
         b.strip = bar.strip, b.shown = bar.shown, b.trackLen = bar.trackLen, b.thumbLen = bar.thumbLen,
         b.maxOff = bar.maxOff, b.thumbOff = bar.thumbOff, UNCHANGED settings,
         ~fresh' \/ UNCHANGED <<view, maxScroll, scroll, fresh>>
  PROVE  BarIsLaid'
<1>1. PICK v, max, s, f, set, old :
        v = view /\ max = maxScroll /\ s = scroll /\ f = fresh /\ set = settings /\ old = bar
  OBVIOUS
<1>2. /\ old.thumbLen \in Nat /\ (old.strip => set.bar)
      /\ (f /\ old.strip /\ old.shown /\ set.scroll) =>
           /\ max > 0 /\ old.trackLen = v - 2 * Pad
           /\ old.trackLen > 0 =>
                /\ old.maxOff = max /\ old.thumbLen = ThumbFor(v, max)
                /\ old.thumbOff = Pad + (s * (old.trackLen - old.thumbLen)) \div max
  BY <1>1 DEF BarIsLaid
<1>3. b.thumbLen \in Nat /\ (b.strip => set.bar) /\ settings' = set
  BY <1>1, <1>2
<1>4. CASE ~fresh'
  BY <1>3, <1>4 DEF BarIsLaid
<1>5. CASE UNCHANGED <<view, maxScroll, scroll, fresh>>
  <2>1. view' = v /\ maxScroll' = max /\ scroll' = s /\ fresh' = f
    BY <1>1, <1>5
  <2>2. (f /\ b.strip /\ b.shown /\ set.scroll) =>
           /\ max > 0 /\ b.trackLen = v - 2 * Pad
           /\ b.trackLen > 0 =>
                /\ b.maxOff = max /\ b.thumbLen = ThumbFor(v, max)
                /\ b.thumbOff = Pad + (s * (b.trackLen - b.thumbLen)) \div max
    BY <1>1, <1>2
  <2> QED BY <1>3, <2>1, <2>2 DEF BarIsLaid, ThumbFor
<1> QED BY <1>4, <1>5

LEMMA BarStarts == ScrollInit => BarIsLaid
<1> SUFFICES ASSUME ScrollInit PROVE BarIsLaid
  OBVIOUS
<1>1. NoBar.thumbLen = 0 /\ ~NoBar.strip
  BY DEF NoBar
<1>2. NewBar.thumbLen = 0
  BY DEF NewBar, NoBar
<1> QED BY <1>1, <1>2 DEF ScrollInit, BarIsLaid

\* Nothing of the bar changes, and what the layout reads may
LEMMA StaleBarIsLaid ==
  ASSUME AreaIInv, BarIsLaid, fresh' = FALSE, UNCHANGED <<bar, settings>>
  PROVE  BarIsLaid'
BY DEF AreaIInv, BarIsLaid

LEMMA ThumbAsks ==
  ASSUME NEW b, NEW pos, ScrollFromThumb(b, pos), UNCHANGED <<view, maxScroll>>
  PROVE  ~fresh' \/ UNCHANGED <<view, maxScroll, scroll, fresh>>
BY DEF ScrollFromThumb

LEMMA BarStep == AreaIInv /\ BarIsLaid /\ [ScrollNext]_scrollVars => BarIsLaid'
<1> SUFFICES ASSUME AreaIInv, BarIsLaid, [ScrollNext]_scrollVars PROVE BarIsLaid'
  OBVIOUS
<1>1. bar \in Bars /\ view \in Nat /\ (bar.strip => settings.bar) /\ bar.thumbLen \in Nat
  BY DEF AreaIInv, AreaWithin, AreaTypes, BarIsLaid
<1>2. ASSUME NEW delta \in Deltas, MouseAxis(delta) PROVE BarIsLaid'
  BY <1>2, StaleBarIsLaid DEF MouseAxis
<1>3. ASSUME NEW s \in Contents, SetScroll(s) PROVE BarIsLaid'
  BY <1>3, StaleBarIsLaid DEF SetScroll
<1>4. ASSUME NEW c \in Contents, ContentChanges(c) PROVE BarIsLaid'
  BY <1>4, StaleBarIsLaid DEF ContentChanges
<1>5. ASSUME NEW new \in Settings, ReplaceAreaData(new) PROVE BarIsLaid'
  <2>1. settings' = new /\ ~fresh'
    BY <1>5 DEF ReplaceAreaData
  <2>2. \/ bar' = bar /\ new.bar = settings.bar
        \/ bar' = NewBar /\ new.bar
        \/ bar' = NoBar
    BY <1>5 DEF ReplaceAreaData
  <2>3. NoBar.thumbLen = 0 /\ ~NoBar.strip /\ NewBar.thumbLen = 0
    BY DEF NoBar, NewBar
  <2>4. bar'.thumbLen \in Nat /\ (bar'.strip => new.bar)
    BY <1>1, <2>2, <2>3
  <2> QED BY <2>1, <2>4 DEF BarIsLaid
<1>13. ASSUME Rebuild PROVE BarIsLaid'
  BY <1>1, <1>13, InputKeepsBar DEF Rebuild
<1>6. ASSUME NEW pos \in StripPoints, StripMove(pos) PROVE BarIsLaid'
  <2>1. PICK b : b = [bar EXCEPT !.lastLocal = pos]
    OBVIOUS
  <2>2. /\ b \in Bars /\ b.strip = bar.strip /\ b.shown = bar.shown /\ b.trackLen = bar.trackLen
        /\ b.thumbLen = bar.thumbLen /\ b.maxOff = bar.maxOff /\ b.thumbOff = bar.thumbOff
    BY <1>1, <2>1, ScrollAssumption DEF Bars
  <2>3. ~fresh' \/ UNCHANGED <<view, maxScroll, scroll, fresh>>
    BY <1>6, ThumbAsks DEF StripMove
  <2>4. bar' = b /\ UNCHANGED settings
    BY <1>6, <2>1 DEF StripMove
  <2> QED BY <2>2, <2>3, <2>4, InputKeepsBar
<1>7. ASSUME NEW pos \in StripPoints, NEW h \in BOOLEAN, StripHover(h, pos) PROVE BarIsLaid'
  <2>1. pos \in Int /\ bar.lastLocal \in Int
    BY <1>1, ScrollAssumption DEF Bars
  <2>2. PICK at \in Int : bar' = [[bar EXCEPT !.hovered = h] EXCEPT !.lastLocal = at]
    BY <1>7, <2>1 DEF StripHover
  <2>3. PICK b : b = [[bar EXCEPT !.hovered = h] EXCEPT !.lastLocal = at]
    OBVIOUS
  <2>4. /\ b \in Bars /\ b.strip = bar.strip /\ b.shown = bar.shown /\ b.trackLen = bar.trackLen
        /\ b.thumbLen = bar.thumbLen /\ b.maxOff = bar.maxOff /\ b.thumbOff = bar.thumbOff
    BY <1>1, <2>3 DEF Bars
  <2>5. bar' = b /\ UNCHANGED <<view, maxScroll, scroll, fresh, settings>>
    BY <1>7, <2>2, <2>3 DEF StripHover
  <2> QED BY <2>4, <2>5, InputKeepsBar
<1>8. CASE StripPress
  <2>1. PICK grab : bar' = [[bar EXCEPT !.dragging = TRUE] EXCEPT !.grab = grab]
    BY <1>8 DEF StripPress
  <2>2. PICK b : b = [[bar EXCEPT !.dragging = TRUE] EXCEPT !.grab = grab]
    OBVIOUS
  <2>3. /\ b.strip = bar.strip /\ b.shown = bar.shown /\ b.trackLen = bar.trackLen
        /\ b.thumbLen = bar.thumbLen /\ b.maxOff = bar.maxOff /\ b.thumbOff = bar.thumbOff
    BY <1>1, <2>2 DEF Bars
  <2>4. b \in Bars
    BY <2>1, <2>2, <1>8, AreaStep DEF ScrollNext, AreaIInv
  <2>5. PICK pos : pos = bar.lastLocal
    OBVIOUS
  <2>6. ScrollFromThumb(b, pos) /\ UNCHANGED <<view, maxScroll, settings>>
    BY <1>8, <2>1, <2>2, <2>5 DEF StripPress
  <2>7. ~fresh' \/ UNCHANGED <<view, maxScroll, scroll, fresh>>
    BY <2>6, ThumbAsks
  <2> QED BY <2>1, <2>2, <2>3, <2>4, <2>6, <2>7, InputKeepsBar
<1>9. CASE StripRelease
  <2>1. PICK b : b = [bar EXCEPT !.dragging = FALSE]
    OBVIOUS
  <2>2. /\ b \in Bars /\ b.strip = bar.strip /\ b.shown = bar.shown /\ b.trackLen = bar.trackLen
        /\ b.thumbLen = bar.thumbLen /\ b.maxOff = bar.maxOff /\ b.thumbOff = bar.thumbOff
    BY <1>1, <2>1 DEF Bars
  <2>3. bar' = b /\ UNCHANGED <<view, maxScroll, scroll, fresh, settings>>
    BY <1>9, <2>1 DEF StripRelease
  <2> QED BY <2>2, <2>3, InputKeepsBar
<1>10. ASSUME NEW v \in Views, Reposition(v) PROVE BarIsLaid'
  BY <1>10, ScrollAssumption, LaidOutBarIsLaid
<1>11. CASE Frame
  BY <1>1, <1>11, LaidOutBarIsLaid DEF Frame
<1>12. CASE UNCHANGED scrollVars
  BY <1>1, <1>12, InputKeepsBar DEF scrollVars
<1> QED BY <1>2, <1>3, <1>4, <1>5, <1>6, <1>7, <1>8, <1>9, <1>10, <1>11, <1>12, <1>13 DEF ScrollNext

\* The bar under a pointer that moves it
ThumbAtHand ==
  bar.strip /\ bar.shown /\ settings.scroll /\ bar.trackLen - bar.thumbLen > 0 /\ fresh

LEMMA ThumbAtHandIs ==
  ASSUME AreaIInv, BarIsLaid, ThumbAtHand
  PROVE  LET span == bar.trackLen - bar.thumbLen
         IN  /\ view \in Nat \ {0} /\ maxScroll \in Nat \ {0} /\ view - 2 * Pad > 0
             /\ bar.maxOff = maxScroll /\ bar.thumbLen = ThumbFor(view, maxScroll)
             /\ bar.trackLen = view - 2 * Pad /\ span \in Nat \ {0}
             /\ scroll \in 0 .. maxScroll /\ bar.thumbOff = Pad + (scroll * span) \div maxScroll
<1>1. bar.trackLen \in Int /\ bar.thumbLen \in Nat /\ view \in Nat /\ maxScroll \in Nat
  BY DEF AreaIInv, AreaWithin, AreaTypes, BarIsLaid, Bars
<1>2. maxScroll > 0 /\ bar.trackLen = view - 2 * Pad
  BY DEF ThumbAtHand, BarIsLaid
<1>3. bar.trackLen > 0 /\ bar.trackLen - bar.thumbLen \in Nat \ {0}
  BY <1>1 DEF ThumbAtHand
<1>4. /\ bar.maxOff = maxScroll /\ bar.thumbLen = ThumbFor(view, maxScroll)
      /\ bar.thumbOff = Pad + (scroll * (bar.trackLen - bar.thumbLen)) \div maxScroll
  BY <1>3 DEF ThumbAtHand, BarIsLaid
<1>5. view \in Nat \ {0} /\ view - 2 * Pad > 0
  BY <1>1, <1>2, <1>3 DEF Pad
<1>6. scroll \in 0 .. maxScroll
  BY DEF AreaIInv, AreaWithin, ThumbAtHand
<1> QED BY <1>1, <1>2, <1>3, <1>4, <1>5, <1>6

\* Where the layout puts the thumb that the pointer moved
LEMMA ThumbPlaced ==
  ASSUME AreaIInv, BarIsLaid, ThumbAtHand, NEW b \in Bars, NEW c \in Bars, NEW pos \in Int,
         b.trackLen = bar.trackLen, b.thumbLen = bar.thumbLen, b.maxOff = bar.maxOff,
         ScrollFromThumb(b, pos), c.strip
  PROVE  LET span == bar.trackLen - bar.thumbLen
             off  == Clamp(pos - b.grab, Pad, Pad + span)
             next == LayoutScrollbar(c, view, maxScroll, scroll').thumbOff
         IN  off - next <= 1 + span \div maxScroll /\ next - off <= 1 + span \div maxScroll
<1>1. PICK span, max, v : span = bar.trackLen - bar.thumbLen /\ max = maxScroll /\ v = view
  OBVIOUS
<1>2. /\ v \in Nat \ {0} /\ max \in Nat \ {0} /\ span \in Nat \ {0} /\ v - 2 * Pad > 0
      /\ b.maxOff = max /\ bar.thumbLen = ThumbFor(v, max) /\ bar.trackLen = v - 2 * Pad
  BY <1>1, ThumbAtHandIs
<1>3. settings.scroll /\ b.grab \in Int /\ bar.thumbLen \in Nat
  BY DEF ThumbAtHand, Bars, BarIsLaid
<1>4. PICK off : off = Clamp(pos - b.grab, Pad, Pad + span)
  OBVIOUS
<1>5. PICK x : x = off - Pad
  OBVIOUS
<1>6. off \in Int /\ x \in 0 .. span /\ off = Pad + x
  BY <1>2, <1>3, <1>4, <1>5 DEF Clamp, Pad
<1>7. PICK s : s = (x * max) \div span
  OBVIOUS
<1>8. PICK y : y = (s * span) \div max
  OBVIOUS
<1>9. /\ s \in 0 .. max /\ y \in 0 .. x
      /\ x - y <= 1 + span \div max /\ y - x <= 1 + span \div max
  BY <1>2, <1>6, <1>7, <1>8, ThereAndBack
<1>10. scroll' = s
  <2>1. ~(span <= 0 \/ b.maxOff <= 0) /\ span = b.trackLen - b.thumbLen
    BY <1>1, <1>2
  <2>2. scroll' = ClampMaxScroll((x * max) \div span, max)
    BY <1>1, <1>2, <1>4, <1>5, <2>1 DEF ScrollFromThumb
  <2> QED BY <1>2, <1>3, <1>7, <1>9, <2>2 DEF ClampMaxScroll, Clamp
<1>11. PICK next : next = LayoutScrollbar(c, v, max, s).thumbOff
  OBVIOUS
<1>12. next = Pad + y
  <2>1. s \in Int
    BY <1>9
  <2>2. LayoutScrollbar(c, v, max, s).thumbOff = Pad + (s * (v - 2 * Pad - ThumbFor(v, max))) \div max
    BY <1>2, <1>3, <2>1, BarLaidOut
  <2>3. v - 2 * Pad - ThumbFor(v, max) = span
    BY <1>1, <1>2
  <2> QED BY <1>8, <1>11, <2>2, <2>3
<1>13. PICK w : w = 1 + span \div max
  OBVIOUS
<1>14. x - y <= w /\ y - x <= w /\ w \in Int
  BY <1>2, <1>9, <1>13, QuotientIs
<1>15. off - next <= w /\ next - off <= w
  BY <1>6, <1>9, <1>12, <1>14 DEF Pad
<1> QED BY <1>1, <1>4, <1>10, <1>11, <1>13, <1>15

LEMMA ThumbGoesAlong ==
  ASSUME AreaIInv, BarIsLaid
  PROVE  Follows(LayoutScrollbar(bar', view, maxScroll, scroll').thumbOff)
<1>1. bar \in Bars /\ bar.thumbLen \in Nat
  BY DEF AreaIInv, BarIsLaid
<1>2. PICK span, max : span = bar.trackLen - bar.thumbLen /\ max = maxScroll
  OBVIOUS
<1>3. PICK next : next = LayoutScrollbar(bar', view, maxScroll, scroll').thumbOff
  OBVIOUS
<1>4. PICK w : w = 1 + span \div max
  OBVIOUS
<1>5. ASSUME NEW pos \in StripPoints, bar.shown, settings.scroll, span > 0, fresh, StripMove(pos),
             bar.dragging
      PROVE  LET off == Clamp(pos - bar.grab, Pad, Pad + span) IN off - next <= w /\ next - off <= w
  <2>1. ThumbAtHand
    BY <1>2, <1>5 DEF ThumbAtHand, StripMove
  <2>2. PICK c : c = [bar EXCEPT !.lastLocal = pos]
    OBVIOUS
  <2>3. c \in Bars /\ c.strip /\ pos \in Int
    BY <1>1, <1>5, <2>2, ScrollAssumption DEF Bars, StripMove
  <2>4. bar' = c /\ ScrollFromThumb(bar, pos)
    BY <1>5, <2>2 DEF StripMove
  <2>5. PICK b : b = bar
    OBVIOUS
  <2> QED BY <1>1, <1>2, <1>3, <1>4, <2>1, <2>3, <2>4, ThumbPlaced
<1>6. ASSUME bar.shown, settings.scroll, span > 0, fresh, StripPress,
             bar.thumbOff <= bar.lastLocal, bar.lastLocal < bar.thumbOff + bar.thumbLen
      PROVE  bar.thumbOff - next <= w /\ next - bar.thumbOff <= w
  <2>1. ThumbAtHand
    BY <1>2, <1>6 DEF ThumbAtHand, StripPress
  <2>2. PICK pos, at : pos = bar.lastLocal /\ at = bar.thumbOff
    OBVIOUS
  <2>3. pos \in Int /\ at \in Int
    BY <1>1, <2>2 DEF Bars
  <2>4. PICK grab \in Int : grab = pos - at
    BY <2>3
  <2>5. PICK b : b = [[bar EXCEPT !.dragging = TRUE] EXCEPT !.grab = grab]
    OBVIOUS
  <2>6. /\ b \in Bars /\ b.strip = bar.strip /\ b.trackLen = bar.trackLen /\ b.thumbLen = bar.thumbLen
         /\ b.maxOff = bar.maxOff /\ b.grab = grab
    BY <1>1, <2>5 DEF Bars
  <2>7. /\ b \in Bars /\ b.strip /\ b.trackLen = bar.trackLen /\ b.thumbLen = bar.thumbLen
        /\ b.maxOff = bar.maxOff /\ b.grab = pos - at
    BY <2>1, <2>4, <2>6 DEF ThumbAtHand
  <2>8. bar' = b
    BY <1>6, <2>2, <2>5, <2>4 DEF StripPress
  <2>9. ScrollFromThumb(b, pos)
    BY <1>6, <2>2, <2>8 DEF StripPress
  <2>10. PICK off : off = Clamp(pos - b.grab, Pad, Pad + span)
    OBVIOUS
  <2>11. off - next <= w /\ next - off <= w
    BY <1>2, <1>3, <1>4, <2>1, <2>3, <2>7, <2>8, <2>9, <2>10, ThumbPlaced
  <2>12. off = at
    <3>1. /\ span \in Nat \ {0} /\ max \in Nat \ {0} /\ scroll \in 0 .. max
          /\ at = Pad + (scroll * span) \div max
      BY <1>2, <2>1, <2>2, ThumbAtHandIs
    <3>2. PICK y : y = (scroll * span) \div max
      OBVIOUS
    <3>3. y \in 0 .. span
      <4>1. scroll \in Nat /\ scroll <= max /\ scroll * span \in Nat /\ scroll * span <= max * span
        BY <3>1
      <4>2. y \in Nat /\ y * max <= scroll * span
        BY <3>1, <3>2, <4>1, QuotientIs
      <4>3. y * max < span * max + max
        BY <3>1, <4>1, <4>2
      <4> QED BY <3>1, <4>2, <4>3, ProductsOrder
    <3>4. pos - b.grab = at
      BY <2>3, <2>7
    <3> QED BY <2>10, <3>1, <3>2, <3>3, <3>4 DEF Clamp, Pad
  <2> QED BY <2>2, <2>11, <2>12
<1> QED BY <1>2, <1>3, <1>4, <1>5, <1>6 DEF Follows

\* A pressed thumb does not jump and a dragged one goes with the pointer, whatever the
\* lengths of the viewport and of the content are: between the layout that ScrollArea.cpp
\* remembers the geometry of and the next one, what is lost is what two quotients lose.
THEOREM ThumbFollows == ScrollSpec => ThumbFollowsPointer
<1>1. ScrollInit => AreaIInv /\ BarIsLaid
  BY AreaStarts, BarStarts
<1>2. AreaIInv /\ BarIsLaid /\ [ScrollNext]_scrollVars => (AreaIInv /\ BarIsLaid)'
  BY AreaStep, BarStep
<1>3. AreaIInv /\ BarIsLaid =>
        [Follows(LayoutScrollbar(bar', view, maxScroll, scroll').thumbOff)]_scrollVars
  BY ThumbGoesAlong
<1> QED BY <1>1, <1>2, <1>3, PTL DEF ScrollSpec, ThumbFollowsPointer

----------------------------------------------------------------------------
\* The slider

SliderDatas == [min : Int, max : Int, current : Int]

Sliders ==
  [data : SliderDatas, shown : {Refreshed(d) : d \in SliderDatas}, dragging : BOOLEAN, at : Int,
   laid : BOOLEAN, draft : SUBSET SliderDatas, told : SUBSET Int]

\* The value is within the limits, or at the lower one when there is nothing between them.
Settled(d) == IF d.max <= d.min THEN d.current = d.min ELSE d.min <= d.current /\ d.current <= d.max

\* What is shown and what was last told are the value.
SliderAgrees(s) ==
  /\ s \in Sliders /\ s.shown = Refreshed(s.data) /\ Settled(s.data)
  /\ s.told = {} \/ s.told = {s.data.current}

LEMMA NormalizedSettles ==
  ASSUME NEW d \in SliderDatas
  PROVE  /\ Normalized(d) \in SliderDatas /\ Settled(Normalized(d))
         /\ Settled(d) => Normalized(d) = d
<1>1. d.min \in Int /\ d.max \in Int /\ d.current \in Int
  BY DEF SliderDatas
<1>2. PICK c : c = IF d.max <= d.min THEN d.min ELSE Clamped(d.current, d.min, d.max)
  OBVIOUS
<1>3. /\ c \in Int
      /\ IF d.max <= d.min THEN c = d.min ELSE d.min <= c /\ c <= d.max
      /\ Settled(d) => c = d.current
  BY <1>1, <1>2 DEF Clamped, Settled
<1>4. Normalized(d) = [d EXCEPT !.current = c]
  BY <1>2 DEF Normalized
<1>5. PICK n : n = [d EXCEPT !.current = c]
  OBVIOUS
<1>6. n \in SliderDatas /\ n.min = d.min /\ n.max = d.max /\ n.current = c
  BY <1>3, <1>5 DEF SliderDatas
<1>7. Settled(n)
  BY <1>3, <1>6 DEF Settled
<1>8. Settled(d) => n = d
  BY <1>3, <1>5 DEF SliderDatas
<1> QED BY <1>4, <1>5, <1>6, <1>7, <1>8

\* A part of a length is within it: where the pointer is on the track
LEMMA PartIsWithin ==
  ASSUME NEW length \in Nat, NEW whole \in Nat \ {0}, NEW part \in 0 .. whole
  PROVE  (length * part) \div whole \in 0 .. length
<1>1. PICK p : p = length * part
  OBVIOUS
<1>2. PICK q : q = p \div whole
  OBVIOUS
<1>3. p \in Nat /\ q \in Int /\ p <= length * whole
  <2>1. PICK rest \in Nat : whole = part + rest
    <3>1. whole - part \in Nat /\ whole = part + (whole - part)
      OBVIOUS
    <3> QED BY <3>1
  <2>2. length * whole = length * part + length * rest /\ length * rest \in Nat
    BY <2>1
  <2> QED BY <1>1, <1>2, <2>2
<1>4. whole * q <= p /\ p < whole * q + whole
  BY <1>2, <1>3
<1>5. ASSUME q < 0 PROVE FALSE
  <2>1. PICK n \in Nat : q = 0 - 1 - n
    <3>1. 0 - 1 - q \in Nat /\ q = 0 - 1 - (0 - 1 - q)
      BY <1>3, <1>5
    <3> QED BY <3>1
  <2>2. whole * q + whole = 0 - whole * n /\ whole * n \in Nat
    BY <2>1
  <2> QED BY <1>3, <1>4, <2>2
<1>6. ASSUME q > length PROVE FALSE
  <2>1. PICK n \in Nat : q = length + 1 + n
    <3>1. q - length - 1 \in Nat /\ q = length + 1 + (q - length - 1)
      BY <1>3, <1>6
    <3> QED BY <3>1
  <2>2. whole * q = length * whole + whole + whole * n /\ whole * n \in Nat
    BY <2>1
  <2> QED BY <1>3, <1>4, <2>2
<1> QED BY <1>1, <1>2, <1>3, <1>5, <1>6

LEMMA SliderFields ==
  ASSUME NEW s \in Sliders
  PROVE  /\ \A b \in BOOLEAN : [s EXCEPT !.dragging = b] \in Sliders /\ [s EXCEPT !.laid = b] \in Sliders
         /\ \A n \in Int : [s EXCEPT !.at = n] \in Sliders
         /\ \A set \in SUBSET SliderDatas : [s EXCEPT !.draft = set] \in Sliders
         /\ s.data \in SliderDatas /\ s.at \in Int /\ s.laid \in BOOLEAN /\ s.dragging \in BOOLEAN
         /\ s.draft \in SUBSET SliderDatas
BY DEF Sliders

\* Fields the value does not depend on
LEMMA SliderSame ==
  ASSUME NEW s, SliderAgrees(s), NEW r \in Sliders, r.data = s.data, r.shown = s.shown, r.told = s.told
  PROVE  SliderAgrees(r)
BY DEF SliderAgrees

LEMMA SliderSet ==
  ASSUME NEW s \in Sliders, NEW d \in SliderDatas, Settled(d), NEW told,
         told = {d.current} \/ told = {},
         NEW x, x = [[[s EXCEPT !.data = d] EXCEPT !.shown = Refreshed(d)] EXCEPT !.told = told]
  PROVE  SliderAgrees(x)
<1>1. told \in SUBSET Int /\ (told = {} \/ told = {d.current})
  BY DEF SliderDatas
<1> DEFINE r1 == [s EXCEPT !.data = d]
           r2 == [r1 EXCEPT !.shown = Refreshed(d)]
           r  == [r2 EXCEPT !.told = told]
<1>2. r1 \in Sliders /\ r1.data = d
  BY DEF Sliders
<1>3. r2 \in Sliders /\ r2.data = d /\ r2.shown = Refreshed(d)
  <2> HIDE DEF r1
  <2> QED BY <1>2 DEF Sliders
<1>4. r \in Sliders /\ r.data = d /\ r.shown = Refreshed(d) /\ r.told = told
  <2> HIDE DEF r2
  <2> QED BY <1>1, <1>3 DEF Sliders
<1>5. SliderAgrees(r)
  <2> HIDE DEF r
  <2> QED BY <1>1, <1>4 DEF SliderAgrees
<1> QED BY <1>5

LEMMA UpdateValueAgrees ==
  ASSUME NEW s, SliderAgrees(s)
  PROVE  SliderAgrees(UpdateValue(s))
<1>1. s \in Sliders /\ s.data \in SliderDatas /\ s.at \in Int
  BY DEF SliderAgrees, Sliders
<1>2. s.data.min \in Int /\ s.data.max \in Int
  BY <1>1 DEF SliderDatas
<1>3. CASE ~s.laid
  BY <1>3 DEF UpdateValue
<1>4. CASE s.laid
  <2>1. PICK part : part = Clamped(s.at, 0, TrackWidth)
    OBVIOUS
  <2>2. TrackWidth \in Nat \ {0} /\ part \in 0 .. TrackWidth
    BY <1>1, <2>1, ValueAssumption DEF Clamped
  <2>3. PICK length : length = s.data.max - s.data.min
    OBVIOUS
  <2>4. PICK value : value = IF s.data.max <= s.data.min THEN s.data.min
                             ELSE s.data.min + (length * part) \div TrackWidth
    OBVIOUS
  <2>5. /\ value \in Int
        /\ IF s.data.max <= s.data.min THEN value = s.data.min
           ELSE s.data.min <= value /\ value <= s.data.max
    <3>1. CASE s.data.max <= s.data.min
      BY <1>2, <2>4, <3>1
    <3>2. CASE ~(s.data.max <= s.data.min)
      <4>1. length \in Nat
        BY <1>2, <2>3, <3>2
      <4>2. (length * part) \div TrackWidth \in 0 .. length
        BY <2>2, <4>1, PartIsWithin
      <4>3. PICK q \in 0 .. length : q = (length * part) \div TrackWidth
        BY <4>2
      <4> QED BY <1>2, <2>3, <2>4, <3>2, <4>1, <4>3
    <3> QED BY <3>1, <3>2
  <2>6. PICK d : d = [s.data EXCEPT !.current = value]
    OBVIOUS
  <2>7. d \in SliderDatas /\ Settled(d) /\ d.current = value
    <3>1. d \in SliderDatas /\ d.min = s.data.min /\ d.max = s.data.max /\ d.current = value
      BY <1>1, <2>5, <2>6 DEF SliderDatas
    <3> QED BY <2>5, <3>1 DEF Settled
  <2>8. PICK told : told = {value}
    OBVIOUS
  <2>9. UpdateValue(s) = [[[s EXCEPT !.data = d] EXCEPT !.shown = Refreshed(d)] EXCEPT !.told = told]
    BY <1>4, <2>1, <2>3, <2>4, <2>6, <2>8 DEF UpdateValue
  <2>10. told = {d.current}
    BY <2>7, <2>8
  <2>11. PICK r : r = UpdateValue(s)
    OBVIOUS
  <2>12. SliderAgrees(r)
    BY <1>1, <2>7, <2>9, <2>10, <2>11, SliderSet
  <2> QED BY <2>11, <2>12
<1> QED BY <1>3, <1>4

LEMMA SliderReplaced ==
  ASSUME SliderAgrees(slider), NEW d \in SliderDatas, SliderReplaceData(d)
  PROVE  SliderAgrees(slider')
<1>1. slider \in Sliders /\ (slider.told = {} \/ slider.told = {slider.data.current})
  BY DEF SliderAgrees
<1>2. PICK n : n = Normalized(d)
  OBVIOUS
<1>3. n \in SliderDatas /\ Settled(n)
  BY <1>2, NormalizedSettles
<1>4. PICK s : s = [slider EXCEPT !.draft = {}]
  OBVIOUS
<1>5. s \in Sliders /\ s.told = slider.told
  BY <1>1, <1>4 DEF Sliders
<1>6. PICK told : told = IF n.current # slider.data.current THEN {n.current} ELSE slider.told
  OBVIOUS
<1>7. told = {} \/ told = {n.current}
  BY <1>1, <1>6
<1>8. slider' = [[[s EXCEPT !.data = n] EXCEPT !.shown = Refreshed(n)] EXCEPT !.told = told]
  BY <1>1, <1>2, <1>4, <1>6 DEF SliderReplaceData, Sliders
<1> QED BY <1>3, <1>5, <1>7, <1>8, SliderSet

LEMMA SliderStarts == SliderInit => SliderAgrees(slider)
<1> SUFFICES ASSUME SliderInit PROVE SliderAgrees(slider)
  OBVIOUS
<1>1. PICK d \in SliderData :
        slider = [data |-> Normalized(d), shown |-> Refreshed(Normalized(d)), dragging |-> FALSE,
                  at |-> 0, laid |-> FALSE, draft |-> {}, told |-> {}]
  BY DEF SliderInit
<1>2. PICK n : n = Normalized(d)
  OBVIOUS
<1>3. d \in SliderDatas
  BY ValueAssumption DEF SliderData, SliderDatas
<1>4. n \in SliderDatas /\ Settled(n)
  BY <1>2, <1>3, NormalizedSettles
<1>5. slider \in Sliders /\ slider.data = n /\ slider.shown = Refreshed(n) /\ slider.told = {}
  BY <1>1, <1>2, <1>4 DEF Sliders
<1> QED BY <1>4, <1>5 DEF SliderAgrees

LEMMA SliderSteps ==
  ASSUME SliderAgrees(slider), SliderNext
  PROVE  SliderAgrees(slider')
<1>1. slider \in Sliders /\ slider.data \in SliderDatas /\ slider.draft \in SUBSET SliderDatas
  BY SliderFields DEF SliderAgrees
<1>2. ASSUME NEW b \in BOOLEAN, NEW r, r = [slider EXCEPT !.dragging = b] \/ r = [slider EXCEPT !.laid = b]
      PROVE  SliderAgrees(r)
  <2>1. r \in Sliders /\ r.data = slider.data /\ r.shown = slider.shown /\ r.told = slider.told
    BY <1>1, <1>2 DEF Sliders
  <2> QED BY <2>1, SliderSame
<1>3. ASSUME NEW b \in BOOLEAN, NEW n \in Int, NEW r, r = [[slider EXCEPT !.dragging = b] EXCEPT !.at = n]
      PROVE  SliderAgrees(r)
  <2>1. r \in Sliders /\ r.data = slider.data /\ r.shown = slider.shown /\ r.told = slider.told
    BY <1>1, <1>3 DEF Sliders
  <2> QED BY <2>1, SliderSame
<1>4. ASSUME NEW n \in Int, NEW r, r = [slider EXCEPT !.at = n] PROVE SliderAgrees(r)
  <2>1. r \in Sliders /\ r.data = slider.data /\ r.shown = slider.shown /\ r.told = slider.told
    BY <1>1, <1>4 DEF Sliders
  <2> QED BY <2>1, SliderSame
<1>5. ASSUME NEW pos \in Points, SliderEnter(pos) \/ SliderMove(pos) PROVE SliderAgrees(slider')
  <2>1. pos \in Int
    BY ValueAssumption
  <2>2. CASE SliderEnter(pos)
    BY <1>3, <2>1, <2>2 DEF SliderEnter
  <2>3. CASE SliderMove(pos)
    <3>1. PICK moved : moved = [slider EXCEPT !.at = pos]
      OBVIOUS
    <3>2. SliderAgrees(moved) /\ SliderAgrees(UpdateValue(moved))
      BY <1>4, <2>1, <3>1, UpdateValueAgrees
    <3>3. slider' \in {moved, UpdateValue(moved)}
      BY <2>3, <3>1 DEF SliderMove
    <3> QED BY <3>2, <3>3
  <2> QED BY <1>5, <2>2, <2>3
<1>6. CASE SliderLeave \/ SliderRelease \/ SliderReposition
  BY <1>2, <1>6 DEF SliderLeave, SliderRelease, SliderReposition
<1>7. CASE SliderPress
  BY <1>2, <1>7, UpdateValueAgrees DEF SliderPress
<1>8. CASE SliderRebuild
  <2>1. slider' = [slider EXCEPT !.draft = {slider.data}]
    BY <1>8 DEF SliderRebuild
  <2>2. /\ slider' \in Sliders /\ slider'.data = slider.data /\ slider'.shown = slider.shown
        /\ slider'.told = slider.told
    BY <1>1, <2>1 DEF Sliders
  <2> QED BY <2>2, SliderSame
<1>9. CASE SliderCommence
  <2>1. PICK d \in slider.draft, v \in Numbers :
          \/ SliderReplaceData(d)
          \/ SliderReplaceData([d EXCEPT !.current = v])
          \/ SliderReplaceData([d EXCEPT !.min = v])
          \/ SliderReplaceData([d EXCEPT !.max = v])
    BY <1>9 DEF SliderCommence
  <2>2. /\ d \in SliderDatas /\ [d EXCEPT !.current = v] \in SliderDatas
        /\ [d EXCEPT !.min = v] \in SliderDatas /\ [d EXCEPT !.max = v] \in SliderDatas
    BY <1>1, ValueAssumption DEF SliderDatas
  <2>3. PICK n \in SliderDatas : SliderReplaceData(n)
    BY <2>1, <2>2
  <2> QED BY <2>3, SliderReplaced
<1> QED BY <1>5, <1>6, <1>7, <1>8, <1>9 DEF SliderNext

----------------------------------------------------------------------------
\* The progress bar

ProgressDatas == [value : Int, indeterminate : BOOLEAN]

Progresses ==
  [data : ProgressDatas, width : Int, pulsing : BOOLEAN, phase : Int, absolute : BOOLEAN,
   inWindow : BOOLEAN, laid : BOOLEAN, frame : BOOLEAN, draft : SUBSET ProgressDatas]

\* It pulses as long as its value is not known, and is as wide as its value otherwise.
ProgressAgrees(p) ==
  /\ p \in Progresses
  /\ p.pulsing = p.data.indeterminate /\ p.absolute = p.data.indeterminate
  /\ p.width = (IF p.data.indeterminate THEN PulseWidth ELSE Width(p.data.value))

LEMMA WidthIsInt == PulseWidth \in Int /\ \A v \in Int : Width(v) \in Int
BY DEF PulseWidth, Width, Clamped

LEMMA ProgressFields ==
  ASSUME NEW p \in Progresses
  PROVE  /\ p.data \in ProgressDatas /\ p.data.value \in Int /\ p.data.indeterminate \in BOOLEAN
         /\ p.inWindow \in BOOLEAN /\ p.pulsing \in BOOLEAN /\ p.laid \in BOOLEAN
         /\ p.phase \in Int /\ p.draft \in SUBSET ProgressDatas
BY DEF Progresses, ProgressDatas

\* Fields what is shown does not depend on
LEMMA ProgressSame ==
  ASSUME NEW p, ProgressAgrees(p), NEW r \in Progresses, r.data = p.data, r.pulsing = p.pulsing,
         r.absolute = p.absolute, r.width = p.width
  PROVE  ProgressAgrees(r)
BY DEF ProgressAgrees

LEMMA DrawsFields ==
  ASSUME NEW p \in Progresses, NEW w \in Int, NEW r, r = Draws(p, w)
  PROVE  /\ r \in Progresses /\ r.data = p.data /\ r.width = w
         /\ r.pulsing = p.pulsing /\ r.absolute = p.absolute
<1>1. p.inWindow \in BOOLEAN
  BY ProgressFields
<1>2. PICK drawn \in BOOLEAN : drawn = p.inWindow
  BY <1>1
<1>3. r = [[p EXCEPT !.width = w] EXCEPT !.frame = drawn]
  BY <1>2 DEF Draws
<1> QED BY <1>3 DEF Progresses

LEMMA PulsingSet ==
  ASSUME NEW p \in Progresses, NEW on \in BOOLEAN, NEW r,
         r = [[[p EXCEPT !.pulsing = on] EXCEPT !.phase = 0] EXCEPT !.absolute = on]
  PROVE  /\ r \in Progresses /\ r.data = p.data /\ r.width = p.width
         /\ r.pulsing = on /\ r.absolute = on
<1> DEFINE r1 == [p EXCEPT !.pulsing = on]
           r2 == [r1 EXCEPT !.phase = 0]
<1>1. r1 \in Progresses /\ r1.data = p.data /\ r1.width = p.width /\ r1.pulsing = on
  BY DEF Progresses
<1>2. r2 \in Progresses /\ r2.data = p.data /\ r2.width = p.width /\ r2.pulsing = on
  <2> HIDE DEF r1
  <2> QED BY <1>1 DEF Progresses
<1>3. r = [r2 EXCEPT !.absolute = on]
  OBVIOUS
<1> HIDE DEF r2
<1> QED BY <1>2, <1>3 DEF Progresses

LEMMA StartPulses ==
  ASSUME NEW p \in Progresses, ~p.pulsing, p.data.indeterminate
  PROVE  ProgressAgrees(StartIndeterminate(p))
<1>1. PICK q : q = Draws(p, PulseWidth)
  OBVIOUS
<1>2. q \in Progresses /\ q.data = p.data /\ q.width = PulseWidth
  BY <1>1, WidthIsInt, DrawsFields
<1>3. PICK r : r = [[[q EXCEPT !.pulsing = TRUE] EXCEPT !.phase = 0] EXCEPT !.absolute = TRUE]
  OBVIOUS
<1>4. r = StartIndeterminate(p)
  BY <1>1, <1>3 DEF StartIndeterminate
<1>5. /\ r \in Progresses /\ r.data = q.data /\ r.width = q.width
      /\ r.pulsing = TRUE /\ r.absolute = TRUE
  BY <1>2, <1>3, PulsingSet
<1>6. p.data.indeterminate = TRUE
  BY ProgressFields
<1>7. ProgressAgrees(r)
  BY <1>2, <1>5, <1>6 DEF ProgressAgrees
<1> QED BY <1>4, <1>7

LEMMA StopPulses ==
  ASSUME NEW p \in Progresses, p.pulsing, ~p.data.indeterminate
  PROVE  ProgressAgrees(StopIndeterminate(p))
<1>1. PICK w : w = Width(p.data.value)
  OBVIOUS
<1>2. w \in Int
  BY <1>1, ProgressFields, WidthIsInt
<1>3. PICK q : q = Draws(p, w)
  OBVIOUS
<1>4. q \in Progresses /\ q.data = p.data /\ q.width = w
  BY <1>2, <1>3, DrawsFields
<1>5. PICK r : r = [[[q EXCEPT !.pulsing = FALSE] EXCEPT !.phase = 0] EXCEPT !.absolute = FALSE]
  OBVIOUS
<1>6. r = StopIndeterminate(p)
  BY <1>1, <1>3, <1>5 DEF StopIndeterminate
<1>7. /\ r \in Progresses /\ r.data = q.data /\ r.width = q.width
      /\ r.pulsing = FALSE /\ r.absolute = FALSE
  BY <1>4, <1>5, PulsingSet
<1>8. p.data.indeterminate = FALSE
  BY ProgressFields
<1>9. ProgressAgrees(r)
  BY <1>1, <1>4, <1>7, <1>8 DEF ProgressAgrees
<1> QED BY <1>6, <1>9

LEMMA ValueApplies ==
  ASSUME NEW p \in Progresses, p.pulsing = FALSE, p.absolute = FALSE, p.data.indeterminate = FALSE
  PROVE  ProgressAgrees(ApplyValue(p))
<1>1. PICK w : w = Width(p.data.value)
  OBVIOUS
<1>2. w \in Int
  BY <1>1, ProgressFields, WidthIsInt
<1>3. PICK r : r = Draws(p, w)
  OBVIOUS
<1>4. /\ r \in Progresses /\ r.data = p.data /\ r.width = w
      /\ r.pulsing = p.pulsing /\ r.absolute = p.absolute
  BY <1>2, <1>3, DrawsFields
<1>5. ProgressAgrees(r)
  BY <1>1, <1>4 DEF ProgressAgrees
<1> QED BY <1>1, <1>3, <1>5 DEF ApplyValue

LEMMA ProgressReplaced ==
  ASSUME ProgressAgrees(progress), NEW d \in ProgressDatas, ProgressReplaceData(d)
  PROVE  ProgressAgrees(progress')
<1>1. PICK p : p = progress
  OBVIOUS
<1>2. /\ p \in Progresses /\ p.pulsing = p.data.indeterminate /\ p.absolute = p.data.indeterminate
      /\ p.width = (IF p.data.indeterminate THEN PulseWidth ELSE Width(p.data.value))
      /\ p.data.indeterminate \in BOOLEAN /\ p.inWindow \in BOOLEAN
      /\ d.indeterminate \in BOOLEAN
  BY <1>1, ProgressFields DEF ProgressAgrees, ProgressDatas
<1>3. PICK set : set = [[p EXCEPT !.data = d] EXCEPT !.draft = {}]
  OBVIOUS
<1>4. /\ set \in Progresses /\ set.data = d /\ set.pulsing = p.pulsing
      /\ set.absolute = p.absolute /\ set.width = p.width
  BY <1>2, <1>3 DEF Progresses
<1>5. PICK done : done =
        IF d.indeterminate # p.data.indeterminate
        THEN IF d.indeterminate THEN StartIndeterminate(set) ELSE StopIndeterminate(set)
        ELSE IF d.value # p.data.value /\ ~d.indeterminate THEN ApplyValue(set) ELSE set
  OBVIOUS
<1>6. progress' = [done EXCEPT !.frame = p.inWindow]
  BY <1>1, <1>3, <1>5 DEF ProgressReplaceData
<1>7. ProgressAgrees(done)
  <2>1. CASE d.indeterminate /\ ~p.data.indeterminate
    <3>1. done = StartIndeterminate(set)
      BY <1>5, <2>1
    <3>2. ~set.pulsing /\ set.data.indeterminate
      BY <1>2, <1>4, <2>1
    <3> QED BY <1>4, <3>1, <3>2, StartPulses
  <2>2. CASE ~d.indeterminate /\ p.data.indeterminate
    <3>1. done = StopIndeterminate(set)
      BY <1>5, <2>2
    <3>2. set.pulsing /\ ~set.data.indeterminate
      BY <1>2, <1>4, <2>2
    <3> QED BY <1>4, <3>1, <3>2, StopPulses
  <2>3. CASE d.indeterminate = p.data.indeterminate /\ d.value # p.data.value /\ ~d.indeterminate
    <3>1. done = ApplyValue(set)
      BY <1>5, <2>3
    <3>2. set.pulsing = FALSE /\ set.absolute = FALSE /\ set.data.indeterminate = FALSE
      BY <1>2, <1>4, <2>3
    <3> QED BY <1>4, <3>1, <3>2, ValueApplies
  <2>4. CASE d.indeterminate = p.data.indeterminate /\ ~(d.value # p.data.value /\ ~d.indeterminate)
    <3>1. done = set
      BY <1>5, <2>4
    <3> QED BY <1>2, <1>4, <2>4, <3>1 DEF ProgressAgrees
  <2> QED BY <1>2, <2>1, <2>2, <2>3, <2>4
<1>8. PICK drawn \in BOOLEAN : drawn = p.inWindow
  BY <1>2
<1>9. PICK r : r = [done EXCEPT !.frame = drawn]
  OBVIOUS
<1>10. /\ r \in Progresses /\ r.data = done.data /\ r.pulsing = done.pulsing
       /\ r.absolute = done.absolute /\ r.width = done.width
  BY <1>7, <1>9 DEF ProgressAgrees, Progresses
<1> QED BY <1>6, <1>7, <1>8, <1>9, <1>10, ProgressSame

LEMMA ProgressStarts == ProgressInit => ProgressAgrees(progress)
<1> SUFFICES ASSUME ProgressInit PROVE ProgressAgrees(progress)
  OBVIOUS
<1>1. PICK v \in Numbers, i \in BOOLEAN :
        LET bare == [data |-> [value |-> v, indeterminate |-> i], width |-> Width(v), pulsing |-> FALSE,
                     phase |-> 0, absolute |-> FALSE, inWindow |-> FALSE, laid |-> FALSE,
                     frame |-> FALSE, draft |-> {}]
        IN  progress = IF i THEN StartIndeterminate(bare) ELSE bare
  BY DEF ProgressInit
<1>2. PICK d : d = [value |-> v, indeterminate |-> i]
  OBVIOUS
<1>3. PICK w : w = Width(v)
  OBVIOUS
<1>4. v \in Int /\ w \in Int /\ d \in ProgressDatas /\ d.indeterminate = i /\ d.value = v
  BY <1>2, <1>3, ValueAssumption, WidthIsInt DEF ProgressDatas
<1>5. PICK bare : bare = [data |-> d, width |-> w, pulsing |-> FALSE,
                          phase |-> 0, absolute |-> FALSE, inWindow |-> FALSE, laid |-> FALSE,
                          frame |-> FALSE, draft |-> {}]
  OBVIOUS
<1>6. /\ bare \in Progresses /\ bare.data = d /\ bare.width = w /\ bare.pulsing = FALSE
      /\ bare.absolute = FALSE
  BY <1>4, <1>5 DEF Progresses
<1>7. progress = IF i THEN StartIndeterminate(bare) ELSE bare
  BY <1>1, <1>2, <1>3, <1>5
<1>8. CASE i
  <2>1. ~bare.pulsing /\ bare.data.indeterminate
    BY <1>4, <1>6, <1>8
  <2> QED BY <1>6, <1>7, <1>8, <2>1, StartPulses
<1>9. CASE ~i
  <2>1. i = FALSE
    BY <1>9
  <2> QED BY <1>3, <1>4, <1>6, <1>7, <2>1 DEF ProgressAgrees
<1> QED BY <1>8, <1>9

LEMMA ProgressSteps ==
  ASSUME ProgressAgrees(progress), ProgressNext
  PROVE  ProgressAgrees(progress')
<1>1. PICK p : p = progress
  OBVIOUS
<1>2. /\ ProgressAgrees(p) /\ p \in Progresses /\ p.data \in ProgressDatas
      /\ p.data.indeterminate \in BOOLEAN /\ p.inWindow \in BOOLEAN /\ p.pulsing \in BOOLEAN
      /\ p.laid \in BOOLEAN /\ p.phase \in Int /\ p.draft \in SUBSET ProgressDatas
  BY <1>1, ProgressFields DEF ProgressAgrees
<1>3. ASSUME NEW v \in Numbers, SetValue(v) PROVE ProgressAgrees(progress')
  <2>1. PICK d : d = [p.data EXCEPT !.value = v]
    OBVIOUS
  <2>2. d \in ProgressDatas /\ d.value = v /\ d.indeterminate = p.data.indeterminate
    BY <1>2, <2>1, ValueAssumption DEF ProgressDatas
  <2>3. PICK set : set = [p EXCEPT !.data = d]
    OBVIOUS
  <2>4. /\ set \in Progresses /\ set.data = d /\ set.pulsing = p.pulsing
        /\ set.absolute = p.absolute /\ set.width = p.width
    BY <1>2, <2>2, <2>3 DEF Progresses
  <2>5. progress' = IF v = p.data.value \/ p.data.indeterminate THEN set ELSE ApplyValue(set)
    BY <1>1, <1>3, <2>1, <2>3 DEF SetValue
  <2>6. CASE v = p.data.value \/ p.data.indeterminate
    <3>1. progress' = set
      BY <2>5, <2>6
    <3>2. ProgressAgrees(set)
      BY <1>2, <2>2, <2>4, <2>6 DEF ProgressAgrees
    <3> QED BY <3>1, <3>2
  <2>7. CASE ~(v = p.data.value \/ p.data.indeterminate)
    <3>1. progress' = ApplyValue(set)
      BY <2>5, <2>7
    <3>2. p.data.indeterminate = FALSE
      BY <1>2, <2>7
    <3>3. set.pulsing = FALSE /\ set.absolute = FALSE /\ set.data.indeterminate = FALSE
      BY <1>2, <2>2, <2>4, <3>2 DEF ProgressAgrees
    <3> QED BY <2>4, <3>1, <3>3, ValueApplies
  <2> QED BY <2>6, <2>7
<1>4. CASE ProgressRebuild
  <2>1. progress' = [p EXCEPT !.draft = {p.data}]
    BY <1>1, <1>4 DEF ProgressRebuild
  <2>2. /\ progress' \in Progresses /\ progress'.data = p.data /\ progress'.pulsing = p.pulsing
        /\ progress'.absolute = p.absolute /\ progress'.width = p.width
    BY <1>2, <2>1 DEF Progresses
  <2> QED BY <1>2, <2>2, ProgressSame
<1>5. CASE ProgressCommence
  <2>1. PICK d \in p.draft :
          \/ ProgressReplaceData(d)
          \/ \E v \in Numbers : ProgressReplaceData([d EXCEPT !.value = v])
          \/ \E i \in BOOLEAN : ProgressReplaceData([d EXCEPT !.indeterminate = i])
    BY <1>1, <1>5 DEF ProgressCommence
  <2>2. /\ d \in ProgressDatas
        /\ \A v \in Numbers : [d EXCEPT !.value = v] \in ProgressDatas
        /\ \A i \in BOOLEAN : [d EXCEPT !.indeterminate = i] \in ProgressDatas
    BY <1>2, ValueAssumption DEF ProgressDatas
  <2>3. PICK n \in ProgressDatas : ProgressReplaceData(n)
    BY <2>1, <2>2
  <2> QED BY <2>3, ProgressReplaced
<1>6. CASE ProgressAttach
  <2>1. PICK on \in BOOLEAN : on = ~p.inWindow
    BY <1>2
  <2>2. progress' = [[p EXCEPT !.inWindow = on] EXCEPT !.frame = on]
    BY <1>1, <1>6, <2>1 DEF ProgressAttach
  <2>3. /\ progress' \in Progresses /\ progress'.data = p.data /\ progress'.pulsing = p.pulsing
        /\ progress'.absolute = p.absolute /\ progress'.width = p.width
    BY <1>2, <2>2 DEF Progresses
  <2> QED BY <1>2, <2>3, ProgressSame
<1>7. CASE ProgressFrame
  <2>1. PICK drawn \in BOOLEAN : drawn = (~p.laid \/ p.pulsing)
    BY <1>2
  <2>2. PICK phase : phase = IF p.pulsing THEN PulseStep(p.phase) ELSE p.phase
    OBVIOUS
  <2>3. phase \in Int
    BY <1>2, <2>2 DEF PulseStep
  <2>4. PICK r1 : r1 = [p EXCEPT !.laid = TRUE]
    OBVIOUS
  <2>5. PICK r2 : r2 = [r1 EXCEPT !.frame = drawn]
    OBVIOUS
  <2>6. progress' = [r2 EXCEPT !.phase = phase]
    BY <1>1, <1>2, <1>7, <2>1, <2>2, <2>4, <2>5 DEF ProgressFrame
  <2>7. /\ r1 \in Progresses /\ r1.data = p.data /\ r1.pulsing = p.pulsing
        /\ r1.absolute = p.absolute /\ r1.width = p.width
    BY <1>2, <2>4 DEF Progresses
  <2>8. /\ r2 \in Progresses /\ r2.data = p.data /\ r2.pulsing = p.pulsing
        /\ r2.absolute = p.absolute /\ r2.width = p.width
    BY <2>5, <2>7 DEF Progresses
  <2>9. /\ progress' \in Progresses /\ progress'.data = p.data /\ progress'.pulsing = p.pulsing
        /\ progress'.absolute = p.absolute /\ progress'.width = p.width
    BY <2>3, <2>6, <2>8 DEF Progresses
  <2> QED BY <1>2, <2>9, ProgressSame
<1> QED BY <1>3, <1>4, <1>5, <1>6, <1>7 DEF ProgressNext

----------------------------------------------------------------------------
\* The spinbox and the combobox hold an index into their items

Items == Seq(STRING)
ItemDatas == [items : Items, current : Int]
ItemTexts == {Item(d.items, d.current) : d \in ItemDatas}

\* The index is one of the items, 0 if there is none, and the label is its item.
ShowsItem(d, text) ==
  d \in ItemDatas /\ d.current = Fits(d.items, d.current) /\ text = Item(d.items, d.current)

\* The index a button or an arrow gives, and the item it is
LEMMA FitsAndItems ==
  ASSUME NEW items \in Items, NEW i \in Int
  PROVE  /\ Fits(items, i) \in Int /\ Len(items) \in Nat
         /\ Fits(items, Fits(items, i)) = Fits(items, i)
         /\ i + 1 \in DOMAIN items => Fits(items, i) = i /\ Item(items, i) = items[i + 1]
<1>1. Len(items) \in Nat /\ DOMAIN items = 1 .. Len(items)
  BY DEF Items
<1>2. CASE items = <<>>
  <2>1. \A j : Fits(items, j) = 0 /\ Item(items, j) = ""
    BY <1>2 DEF Fits, Item
  <2>2. i + 1 \notin DOMAIN items
    BY <1>2
  <2>5. Fits(items, i) = 0 /\ Fits(items, 0) = 0
    BY <2>1
  <2>6. Fits(items, i) \in Int /\ Fits(items, Fits(items, i)) = Fits(items, i)
    BY <2>5
  <2> QED BY <1>1, <2>2, <2>6
<1>3. CASE items # <<>>
  <2>1. Len(items) - 1 \in Nat
    BY <1>1, <1>3 DEF Items
  <2>2. \A j \in Int : Fits(items, j) = Clamped(j, 0, Len(items) - 1) /\ Item(items, j) = items[j + 1]
    BY <1>3 DEF Fits, Item
  <2>3. PICK c : c = Clamped(i, 0, Len(items) - 1)
    OBVIOUS
  <2>4. /\ c \in 0 .. Len(items) - 1 /\ c \in Int
        /\ Clamped(c, 0, Len(items) - 1) = c
        /\ i \in 0 .. Len(items) - 1 => c = i
    BY <2>1, <2>3 DEF Clamped
  <2>5. i + 1 \in DOMAIN items => i \in 0 .. Len(items) - 1
    BY <1>1
  <2> QED BY <1>1, <2>2, <2>3, <2>4, <2>5
<1> QED BY <1>2, <1>3

LEMMA CurrentShown ==
  ASSUME NEW d \in ItemDatas, NEW i \in Int, NEW n, n = [d EXCEPT !.current = Fits(d.items, i)]
  PROVE  LET text == Item(d.items, Fits(d.items, i))
         IN  n \in ItemDatas /\ n.items = d.items /\ text \in ItemTexts /\ ShowsItem(n, text)
<1>1. PICK c : c = Fits(d.items, i)
  OBVIOUS
<1>2. d.items \in Items /\ c \in Int /\ Fits(d.items, c) = c
  BY <1>1, FitsAndItems DEF ItemDatas
<1>3. n \in ItemDatas /\ n.items = d.items /\ n.current = c
  BY <1>1, <1>2 DEF ItemDatas
<1>4. Item(n.items, n.current) \in ItemTexts
  BY <1>3 DEF ItemTexts
<1> QED BY <1>1, <1>2, <1>3, <1>4 DEF ShowsItem

\* What the application may have of the data: a copy, with one field changed
LEMMA DraftedItems ==
  ASSUME NEW d \in ItemDatas
  PROVE  /\ \A items \in Labels : [d EXCEPT !.items = items] \in ItemDatas
         /\ \A i \in 0 .. 2 : [d EXCEPT !.current = i] \in ItemDatas
         /\ d.current \in Int /\ d.items \in Items
BY ValueAssumption DEF ItemDatas, Items

LEMMA FirstItem ==
  ASSUME NEW items \in Labels, NEW i \in 0 .. 1, NEW d,
         d = [items |-> items, current |-> Fits(items, i)]
  PROVE  LET text == Item(items, Fits(items, i))
         IN  d \in ItemDatas /\ d.items = items /\ text \in ItemTexts /\ ShowsItem(d, text)
<1>1. items \in Items /\ i \in Int
  BY ValueAssumption DEF Items
<1>2. PICK c : c = Fits(items, i)
  OBVIOUS
<1>3. c \in Int /\ Fits(items, c) = c
  BY <1>1, <1>2, FitsAndItems
<1>4. d \in ItemDatas /\ d.items = items /\ d.current = c
  BY <1>1, <1>2, <1>3 DEF ItemDatas
<1>5. Item(d.items, d.current) \in ItemTexts
  BY <1>4 DEF ItemTexts
<1> QED BY <1>2, <1>3, <1>4, <1>5 DEF ShowsItem

Spinboxes ==
  [data : ItemDatas, label : ItemTexts, primed : SUBSET Sides, draft : SUBSET ItemDatas]

SpinboxAgrees(b) == b \in Spinboxes /\ ShowsItem(b.data, b.label)

LEMMA SpinboxSet ==
  ASSUME NEW b \in Spinboxes, NEW i \in Int
  PROVE  SpinboxAgrees(SetCurrent(b, i))
<1>1. PICK d : d = [b.data EXCEPT !.current = Fits(b.data.items, i)]
  OBVIOUS
<1>2. PICK text : text = Item(b.data.items, Fits(b.data.items, i))
  OBVIOUS
<1>3. b.data \in ItemDatas
  BY DEF Spinboxes
<1>4. d \in ItemDatas /\ text \in ItemTexts /\ ShowsItem(d, text)
  BY <1>1, <1>2, <1>3, CurrentShown
<1>5. PICK r : r = [[b EXCEPT !.data = d] EXCEPT !.label = text]
  OBVIOUS
<1>6. r \in Spinboxes /\ r.data = d /\ r.label = text
  BY <1>4, <1>5 DEF Spinboxes
<1>7. SetCurrent(b, i) = r
  BY <1>1, <1>2, <1>5 DEF SetCurrent
<1> QED BY <1>4, <1>6, <1>7 DEF SpinboxAgrees

LEMMA SpinboxStarts == SpinboxInit => SpinboxAgrees(spinbox)
<1> SUFFICES ASSUME SpinboxInit PROVE SpinboxAgrees(spinbox)
  OBVIOUS
<1>1. PICK items \in Labels, i \in 0 .. 1 :
        spinbox = [data |-> [items |-> items, current |-> Fits(items, i)],
                   label |-> Item(items, Fits(items, i)), primed |-> {}, draft |-> {}]
  BY DEF SpinboxInit
<1>2. PICK d : d = [items |-> items, current |-> Fits(items, i)]
  OBVIOUS
<1>3. PICK text : text = Item(items, Fits(items, i))
  OBVIOUS
<1>4. d \in ItemDatas /\ text \in ItemTexts /\ ShowsItem(d, text)
  BY <1>2, <1>3, FirstItem
<1>5. spinbox \in Spinboxes /\ spinbox.data = d /\ spinbox.label = text
  BY <1>1, <1>2, <1>3, <1>4 DEF Spinboxes
<1> QED BY <1>4, <1>5 DEF SpinboxAgrees

LEMMA SpinboxSteps ==
  ASSUME SpinboxAgrees(spinbox), SpinboxNext
  PROVE  SpinboxAgrees(spinbox')
<1>1. PICK b : b = spinbox
  OBVIOUS
<1>2. /\ b \in Spinboxes /\ ShowsItem(b.data, b.label) /\ b.data \in ItemDatas
      /\ b.primed \in SUBSET Sides /\ b.draft \in SUBSET ItemDatas
      /\ b.data.items \in Items /\ b.data.current \in Int
  BY <1>1 DEF SpinboxAgrees, Spinboxes, ItemDatas
<1>3. ASSUME NEW side \in Sides, AngleHover(side) \/ AnglePress(side) PROVE SpinboxAgrees(spinbox')
  <2>1. PICK primed \in SUBSET Sides : spinbox' = [b EXCEPT !.primed = primed]
    BY <1>1, <1>2, <1>3 DEF AngleHover, AnglePress
  <2>2. spinbox' \in Spinboxes /\ spinbox'.data = b.data /\ spinbox'.label = b.label
    BY <1>2, <2>1 DEF Spinboxes
  <2> QED BY <1>2, <2>2 DEF SpinboxAgrees
<1>4. ASSUME NEW side \in Sides, AngleRelease(side) PROVE SpinboxAgrees(spinbox')
  <2>1. PICK n, i : n = Len(b.data.items) /\ i = b.data.current
    OBVIOUS
  <2>2. n \in Nat /\ i \in Int
    BY <1>2, <2>1 DEF Items
  <2>3. spinbox' = (IF n = 0 THEN b ELSE SetCurrent(b, IF side = "right" THEN (i + 1) % n
                                                       ELSE (i + n - 1) % n))
    BY <1>1, <1>4, <2>1 DEF AngleRelease, MoveSelection
  <2>4. CASE n = 0
    BY <1>2, <2>3, <2>4 DEF SpinboxAgrees
  <2>5. CASE n # 0
    <3>1. (i + 1) % n \in Int /\ (i + n - 1) % n \in Int
      BY <2>2, <2>5
    <3>2. PICK j \in Int : spinbox' = SetCurrent(b, j)
      BY <2>3, <2>5, <3>1
    <3> QED BY <1>2, <3>2, SpinboxSet
  <2> QED BY <2>4, <2>5
<1>5. ASSUME NEW i \in 0 .. 2, SpinboxSetCurrent(i) PROVE SpinboxAgrees(spinbox')
  BY <1>1, <1>2, <1>5, SpinboxSet DEF SpinboxSetCurrent
<1>6. CASE SpinboxRebuild
  <2>1. spinbox' = [b EXCEPT !.draft = {b.data}]
    BY <1>1, <1>6 DEF SpinboxRebuild
  <2>2. spinbox' \in Spinboxes /\ spinbox'.data = b.data /\ spinbox'.label = b.label
    BY <1>2, <2>1 DEF Spinboxes
  <2> QED BY <1>2, <2>2 DEF SpinboxAgrees
<1>7. CASE SpinboxCommence
  <2>1. PICK d \in b.draft :
          \/ SpinboxReplaceData(d)
          \/ \E items \in Labels : SpinboxReplaceData([d EXCEPT !.items = items])
          \/ \E i \in 0 .. 2 : SpinboxReplaceData([d EXCEPT !.current = i])
    BY <1>1, <1>7 DEF SpinboxCommence
  <2>2. d \in ItemDatas
    BY <1>2
  <2>3. PICK n \in ItemDatas : SpinboxReplaceData(n)
    BY <2>1, <2>2, DraftedItems
  <2>4. PICK r : r = [[b EXCEPT !.data = n] EXCEPT !.draft = {}]
    OBVIOUS
  <2>5. r \in Spinboxes /\ n.current \in Int
    BY <1>2, <2>4 DEF Spinboxes, ItemDatas
  <2>6. spinbox' = SetCurrent(r, n.current)
    BY <1>1, <2>3, <2>4 DEF SpinboxReplaceData
  <2>7. PICK i \in Int : i = n.current
    BY <2>5
  <2> QED BY <2>5, <2>6, <2>7, SpinboxSet
<1> QED BY <1>3, <1>4, <1>5, <1>6, <1>7 DEF SpinboxNext

----------------------------------------------------------------------------
\* The combobox

Combos ==
  [data : ItemDatas, label : ItemTexts, primed : BOOLEAN, inWindow : BOOLEAN, popup : Nat,
   buttons : Items, opened : Nat, idles : Int, chosen : Nat, draft : SUBSET ItemDatas]

\* The buttons of an open dropdown are the items.
ComboAgrees(c) ==
  /\ c \in Combos /\ ShowsItem(c.data, c.label)
  /\ c.popup # 0 => c.buttons = c.data.items

LEMMA ComboSet ==
  ASSUME NEW c \in Combos, c.popup # 0 => c.buttons = c.data.items, NEW i \in Int, NEW x,
         x = SetCurrent(c, i)
  PROVE  /\ ComboAgrees(x) /\ x.label = Item(c.data.items, Fits(c.data.items, i))
         /\ x.popup = c.popup /\ x.buttons = c.buttons /\ x.idles = c.idles
<1>1. PICK d : d = [c.data EXCEPT !.current = Fits(c.data.items, i)]
  OBVIOUS
<1>2. PICK text : text = Item(c.data.items, Fits(c.data.items, i))
  OBVIOUS
<1>3. c.data \in ItemDatas
  BY DEF Combos
<1>4. d \in ItemDatas /\ d.items = c.data.items /\ text \in ItemTexts /\ ShowsItem(d, text)
  BY <1>1, <1>2, <1>3, CurrentShown
<1>5. x = [[c EXCEPT !.data = d] EXCEPT !.label = text]
  BY <1>1, <1>2 DEF SetCurrent
<1>6. /\ x \in Combos /\ x.data = d /\ x.label = text /\ x.popup = c.popup
      /\ x.buttons = c.buttons /\ x.idles = c.idles
  BY <1>4, <1>5 DEF Combos
<1> QED BY <1>2, <1>4, <1>6 DEF ComboAgrees

\* What closing the dropdown leaves
LEMMA ClosedFields ==
  ASSUME NEW c \in Combos, NEW x, x = Closed(c)
  PROVE  /\ x \in Combos /\ x.data = c.data /\ x.label = c.label /\ x.popup = 0
         /\ x.idles = c.idles
<1>1. <<>> \in Items
  BY DEF Items
<1>2. PICK none : none = <<>>
  OBVIOUS
<1>3. PICK y : y = [c EXCEPT !.popup = 0]
  OBVIOUS
<1>4. y \in Combos /\ y.data = c.data /\ y.label = c.label /\ y.popup = 0 /\ y.idles = c.idles
  BY <1>3 DEF Combos
<1>5. x = [y EXCEPT !.buttons = none]
  BY <1>2, <1>3 DEF Closed
<1>6. none \in Items
  BY <1>1, <1>2
<1> QED BY <1>4, <1>5, <1>6 DEF Combos

LEMMA ComboStarts == ComboInit => ComboAgrees(combo)
<1> SUFFICES ASSUME ComboInit PROVE ComboAgrees(combo)
  OBVIOUS
<1>1. PICK items \in Labels, i \in 0 .. 1 :
        combo = [data |-> [items |-> items, current |-> Fits(items, i)],
                 label |-> Item(items, Fits(items, i)), primed |-> FALSE, inWindow |-> FALSE,
                 popup |-> 0, buttons |-> <<>>, opened |-> 0, idles |-> 0, chosen |-> 0, draft |-> {}]
  BY DEF ComboInit
<1>2. PICK d : d = [items |-> items, current |-> Fits(items, i)]
  OBVIOUS
<1>3. PICK text : text = Item(items, Fits(items, i))
  OBVIOUS
<1>4. d \in ItemDatas /\ text \in ItemTexts /\ ShowsItem(d, text)
  BY <1>2, <1>3, FirstItem
<1>5. PICK none : none = <<>>
  OBVIOUS
<1>7. none \in Items
  BY <1>5 DEF Items
<1>6. combo \in Combos /\ combo.data = d /\ combo.label = text /\ combo.popup = 0
  BY <1>1, <1>2, <1>3, <1>4, <1>5, <1>7 DEF Combos
<1> QED BY <1>4, <1>6 DEF ComboAgrees

LEMMA ComboReplaced ==
  ASSUME ComboAgrees(combo), NEW d \in ItemDatas, ComboReplaceData(d)
  PROVE  ComboAgrees(combo')
<1>1. PICK c : c = combo
  OBVIOUS
<1>2. c \in Combos /\ (c.popup # 0 => c.buttons = c.data.items)
  BY <1>1 DEF ComboAgrees
<1>3. PICK kept : kept = IF d.items # c.data.items THEN Closed(c) ELSE c
  OBVIOUS
<1>4. kept \in Combos /\ (kept.popup # 0 => kept.buttons = d.items)
  BY <1>2, <1>3, ClosedFields
<1>5. PICK r : r = [[kept EXCEPT !.data = d] EXCEPT !.draft = {}]
  OBVIOUS
<1>6. r \in Combos /\ r.data = d /\ r.popup = kept.popup /\ r.buttons = kept.buttons
  BY <1>4, <1>5 DEF Combos
<1>7. PICK i \in Int : i = d.current
  BY DraftedItems
<1>8. combo' = SetCurrent(r, i)
  BY <1>1, <1>3, <1>5, <1>7 DEF ComboReplaceData
<1>9. r.popup # 0 => r.buttons = r.data.items
  BY <1>4, <1>6
<1> QED BY <1>6, <1>8, <1>9, ComboSet

\* A button: the combobox afterwards shows the item of the button
LEMMA Chosen ==
  ASSUME ComboAgrees(combo), NEW b \in DOMAIN combo.buttons, Choose(b)
  PROVE  ComboAgrees(combo') /\ combo'.label = combo.buttons[b]
<1>1. PICK c : c = combo
  OBVIOUS
<1>2. /\ c \in Combos /\ (c.popup # 0 => c.buttons = c.data.items) /\ c.popup # 0
      /\ c.data.items \in Items /\ c.popup \in Nat
  BY <1>1 DEF ComboAgrees, Combos, ItemDatas, Choose
<1>3. b \in DOMAIN c.data.items /\ b \in Int /\ c.buttons = c.data.items
  BY <1>1, <1>2 DEF Items
<1>4. PICK i \in Int : i = b - 1 /\ i + 1 = b
  BY <1>3
<1>5. Fits(c.data.items, i) = i /\ Item(c.data.items, i) = c.data.items[b]
  BY <1>2, <1>3, <1>4, FitsAndItems
<1>6. PICK x : x = SetCurrent(c, i)
  OBVIOUS
<1>7. ComboAgrees(x) /\ x.label = c.data.items[b] /\ x.idles \in Int
  <2>1. ComboAgrees(x) /\ x.label = Item(c.data.items, Fits(c.data.items, i))
    BY <1>2, <1>6, ComboSet
  <2>2. x.idles \in Int
    BY <2>1 DEF ComboAgrees, Combos
  <2> QED BY <1>5, <2>1, <2>2
<1>8. PICK y : y = [x EXCEPT !.idles = x.idles + 1]
  OBVIOUS
<1>9. /\ y \in Combos /\ y.data = x.data /\ y.label = x.label /\ y.popup = x.popup
      /\ y.buttons = x.buttons
  BY <1>7, <1>8 DEF ComboAgrees, Combos
<1>10. combo' = [y EXCEPT !.chosen = c.popup]
  BY <1>1, <1>4, <1>6, <1>8 DEF Choose
<1>11. /\ combo' \in Combos /\ combo'.data = y.data /\ combo'.label = y.label
       /\ combo'.popup = y.popup /\ combo'.buttons = y.buttons
  BY <1>2, <1>9, <1>10 DEF Combos
<1>12. combo'.label = combo.buttons[b]
  BY <1>1, <1>3, <1>7, <1>9, <1>11
<1> QED BY <1>7, <1>9, <1>11, <1>12 DEF ComboAgrees

LEMMA ComboSteps ==
  ASSUME ComboAgrees(combo), ComboNext
  PROVE  ComboAgrees(combo')
<1>1. PICK c : c = combo
  OBVIOUS
<1>2. /\ ComboAgrees(c) /\ c \in Combos /\ ShowsItem(c.data, c.label) /\ c.data \in ItemDatas
      /\ (c.popup # 0 => c.buttons = c.data.items) /\ c.data.items \in Items /\ c.opened \in Nat
      /\ c.inWindow \in BOOLEAN /\ c.idles \in Int /\ c.draft \in SUBSET ItemDatas
  BY <1>1 DEF ComboAgrees, Combos, ItemDatas
<1>3. CASE ComboAttach
  <2>1. PICK on \in BOOLEAN : combo' = [c EXCEPT !.inWindow = on]
    BY <1>1, <1>2, <1>3 DEF ComboAttach
  <2> QED BY <1>2, <2>1 DEF ComboAgrees, Combos
<1>4. CASE ComboHover \/ ComboPress
  <2>1. PICK on \in BOOLEAN : combo' = [c EXCEPT !.primed = on]
    BY <1>1, <1>4 DEF ComboHover, ComboPress
  <2> QED BY <1>2, <2>1 DEF ComboAgrees, Combos
<1>5. CASE ComboRelease
  <2>1. PICK n \in Nat : n = c.opened + 1 /\ n # 0
    BY <1>2
  <2>2. PICK x : x = [c EXCEPT !.popup = n]
    OBVIOUS
  <2>3. PICK y : y = [x EXCEPT !.opened = n]
    OBVIOUS
  <2>4. combo' = [y EXCEPT !.buttons = c.data.items]
    BY <1>1, <1>2, <1>5, <2>1, <2>2, <2>3 DEF ComboRelease, OpenDropdown, Combos
  <2>5. x \in Combos /\ x.data = c.data /\ x.label = c.label
    BY <1>2, <2>2 DEF Combos
  <2>6. y \in Combos /\ y.data = c.data /\ y.label = c.label
    BY <2>3, <2>5 DEF Combos
  <2>7. combo' \in Combos /\ combo'.data = c.data /\ combo'.label = c.label
        /\ combo'.buttons = c.data.items
    BY <1>2, <2>4, <2>6 DEF Combos
  <2> QED BY <1>2, <2>7 DEF ComboAgrees
<1>6. ASSUME NEW b \in DOMAIN combo.buttons, Choose(b) PROVE ComboAgrees(combo')
  BY <1>6, Chosen
<1>7. CASE CloseDropdown
  <2>1. PICK x : x = Closed(c)
    OBVIOUS
  <2>2. /\ x \in Combos /\ x.data = c.data /\ x.label = c.label /\ x.popup = 0 /\ x.idles = c.idles
    BY <1>2, <2>1, ClosedFields
  <2>3. PICK n \in Int : n = x.idles - 1
    BY <1>2, <2>2
  <2>4. combo' = [x EXCEPT !.idles = n]
    BY <1>1, <1>7, <2>1, <2>3 DEF CloseDropdown
  <2>5. combo' \in Combos /\ combo'.data = c.data /\ combo'.label = c.label /\ combo'.popup = 0
    BY <2>2, <2>4 DEF Combos
  <2> QED BY <1>2, <2>5 DEF ComboAgrees
<1>8. CASE PopupDone
  <2>1. combo' = Closed(c)
    BY <1>1, <1>8 DEF PopupDone
  <2>2. combo' \in Combos /\ combo'.data = c.data /\ combo'.label = c.label /\ combo'.popup = 0
    BY <1>2, <2>1, ClosedFields
  <2> QED BY <1>2, <2>2 DEF ComboAgrees
<1>9. ASSUME NEW i \in 0 .. 2, ComboSetCurrent(i) PROVE ComboAgrees(combo')
  BY <1>1, <1>2, <1>9, ComboSet DEF ComboSetCurrent
<1>10. CASE ComboRebuild
  <2>1. combo' = [c EXCEPT !.draft = {c.data}]
    BY <1>1, <1>10 DEF ComboRebuild
  <2> QED BY <1>2, <2>1 DEF ComboAgrees, Combos
<1>11. CASE ComboCommence
  <2>1. PICK d \in c.draft :
          \/ ComboReplaceData(d)
          \/ \E items \in Labels : ComboReplaceData([d EXCEPT !.items = items])
          \/ \E i \in 0 .. 2 : ComboReplaceData([d EXCEPT !.current = i])
    BY <1>1, <1>11 DEF ComboCommence
  <2>2. d \in ItemDatas
    BY <1>2
  <2>3. PICK n \in ItemDatas : ComboReplaceData(n)
    BY <2>1, <2>2, DraftedItems
  <2> QED BY <2>3, ComboReplaced
<1> QED BY <1>3, <1>4, <1>5, <1>6, <1>7, <1>8, <1>9, <1>10, <1>11 DEF ComboNext

----------------------------------------------------------------------------
\* The checkboxes

BoxStates ==
  [on : SUBSET Boxes, shown : SUBSET Boxes, members : SUBSET Boxes, primed : SUBSET Boxes,
   radios : SUBSET Boxes, draft : SUBSET (Boxes \X BOOLEAN \X BOOLEAN), told : Boxes \cup {"none"}]

BoxesAgree(x) == x \in BoxStates /\ x.shown = x.on

\* Boxes are turned on and off together with what they show.
BoxesWith(x, now, told) == [[[x EXCEPT !.on = now] EXCEPT !.shown = now] EXCEPT !.told = told]

LEMMA BoxesSet ==
  ASSUME NEW x, BoxesAgree(x), NEW now \in SUBSET Boxes, NEW told \in Boxes \cup {"none"}, NEW r,
         r = BoxesWith(x, now, told)
  PROVE  BoxesAgree(r) /\ r.on = now /\ r.members = x.members /\ r.told = told
<1>1. PICK y : y = [x EXCEPT !.on = now]
  OBVIOUS
<1>2. y \in BoxStates /\ y.on = now /\ y.members = x.members
  BY <1>1 DEF BoxesAgree, BoxStates
<1>3. PICK z : z = [y EXCEPT !.shown = now]
  OBVIOUS
<1>4. z \in BoxStates /\ z.on = now /\ z.shown = now /\ z.members = x.members
  BY <1>2, <1>3 DEF BoxStates
<1>5. r = [z EXCEPT !.told = told]
  BY <1>1, <1>3 DEF BoxesWith
<1>6. r \in BoxStates /\ r.on = now /\ r.shown = now /\ r.members = x.members /\ r.told = told
  BY <1>4, <1>5 DEF BoxStates
<1> QED BY <1>6 DEF BoxesAgree

\* A click
LEMMA Toggled ==
  ASSUME BoxesAgree(boxes), NEW b \in Boxes, NEW handled \in SUBSET Boxes, Toggle(b, handled)
  PROVE  /\ BoxesAgree(boxes')
         /\ (b \in boxes.members /\ b \in boxes'.on)
              => boxes'.on \cap boxes.members = {b} /\ boxes'.told = b
<1>1. PICK x : x = boxes
  OBVIOUS
<1>2. BoxesAgree(x) /\ x.on \in SUBSET Boxes /\ x.members \in SUBSET Boxes
      /\ x.told \in Boxes \cup {"none"} /\ x \in BoxStates
  BY <1>1 DEF BoxesAgree, BoxStates
<1>3. PICK now : now = IF b \in x.on THEN x.on \ {b} ELSE x.on \cup {b}
  OBVIOUS
<1>4. PICK after : after = (now \cup handled) \ (IF b \in handled THEN {b} ELSE {})
  OBVIOUS
<1>5. PICK alone \in BOOLEAN : alone <=> (b \in after /\ b \in x.members)
  <2>1. (b \in after /\ b \in x.members) \in BOOLEAN
    OBVIOUS
  <2> QED BY <2>1
<1>6. PICK left : left = IF alone THEN (after \ x.members) \cup {b} ELSE after
  OBVIOUS
<1>7. PICK told : told = IF alone THEN b ELSE x.told
  OBVIOUS
<1>8. now \in SUBSET Boxes /\ after \in SUBSET Boxes /\ left \in SUBSET Boxes
  BY <1>2, <1>3, <1>4, <1>6
<1>9. told \in Boxes \cup {"none"}
  BY <1>2, <1>7
<1>10. PICK r : r = BoxesWith(x, left, told)
  OBVIOUS
<1>13. boxes' = r
  BY <1>1, <1>2, <1>3, <1>4, <1>5, <1>6, <1>7, <1>10 DEF Toggle, BoxesWith, BoxStates
<1>11. BoxesAgree(r) /\ r.on = left /\ r.told = told
  BY <1>2, <1>8, <1>9, <1>10, BoxesSet
<1>12. (b \in x.members /\ b \in left) => left \cap x.members = {b} /\ told = b
  <2> SUFFICES ASSUME b \in x.members, b \in left PROVE left \cap x.members = {b} /\ told = b
    OBVIOUS
  <2>1. alone
    BY <1>5, <1>6
  <2> QED BY <1>6, <1>7, <2>1
<1> QED BY <1>1, <1>11, <1>12, <1>13

LEMMA BoxStarts == BoxInit => BoxesAgree(boxes)
<1> SUFFICES ASSUME BoxInit PROVE BoxesAgree(boxes)
  OBVIOUS
<1>1. PICK on \in SUBSET Boxes :
        boxes = [on |-> on, shown |-> on, members |-> {}, primed |-> {}, radios |-> Radios,
                 draft |-> {}, told |-> "none"]
  BY DEF BoxInit
<1>2. Radios \in SUBSET Boxes
  BY ChoiceAssumption
<1> QED BY <1>1, <1>2 DEF BoxesAgree, BoxStates

LEMMA BoxSteps ==
  ASSUME BoxesAgree(boxes), BoxNext
  PROVE  BoxesAgree(boxes')
<1>1. PICK x : x = boxes
  OBVIOUS
<1>2. /\ BoxesAgree(x) /\ x \in BoxStates /\ x.on \in SUBSET Boxes /\ x.members \in SUBSET Boxes
      /\ x.radios \in SUBSET Boxes /\ x.told \in Boxes \cup {"none"}
      /\ x.draft \in SUBSET (Boxes \X BOOLEAN \X BOOLEAN)
  BY <1>1 DEF BoxesAgree, BoxStates
<1>3. ASSUME NEW b \in Boxes, NEW on \in BOOLEAN, SetState(b, on) PROVE BoxesAgree(boxes')
  <2>1. PICK now : now = IF on THEN x.on \cup {b} ELSE x.on \ {b}
    OBVIOUS
  <2>2. now \in SUBSET Boxes
    BY <1>2, <2>1
  <2>3. PICK told : told = x.told
    OBVIOUS
  <2>4. PICK r : r = BoxesWith(x, now, told)
    OBVIOUS
  <2>5. BoxesAgree(r)
    BY <1>2, <2>2, <2>3, <2>4, BoxesSet
  <2>6. r = [x EXCEPT !.on = now, !.shown = now]
    BY <1>2, <2>3, <2>4 DEF BoxesWith, BoxStates
  <2>7. boxes' = x \/ boxes' = [x EXCEPT !.on = now, !.shown = now]
    BY <1>1, <1>3, <2>1 DEF SetState
  <2> QED BY <1>2, <2>5, <2>6, <2>7
<1>4. ASSUME NEW primed \in SUBSET Boxes, boxes' = [x EXCEPT !.primed = primed]
      PROVE  BoxesAgree(boxes')
  BY <1>2, <1>4 DEF BoxesAgree, BoxStates
<1>5. ASSUME NEW b \in Boxes, BoxPress(b) PROVE BoxesAgree(boxes')
  BY <1>1, <1>4, <1>5 DEF BoxPress
<1>6. CASE BoxHover
  BY <1>1, <1>4, <1>6 DEF BoxHover
<1>7. ASSUME NEW b \in Boxes, Add(b) PROVE BoxesAgree(boxes')
  <2>1. PICK members \in SUBSET Boxes : boxes' = [x EXCEPT !.members = members]
    BY <1>1, <1>2, <1>7 DEF Add
  <2> QED BY <1>2, <2>1 DEF BoxesAgree, BoxStates
<1>8. ASSUME NEW b \in Boxes, BoxRebuild(b) PROVE BoxesAgree(boxes')
  <2>1. PICK on \in BOOLEAN, radio \in BOOLEAN : on = (b \in x.on) /\ radio = (b \in x.radios)
    <3>1. (b \in x.on) \in BOOLEAN /\ (b \in x.radios) \in BOOLEAN
      OBVIOUS
    <3> QED BY <3>1
  <2>2. PICK copy : copy = {<<b, on, radio>>}
    OBVIOUS
  <2>3. copy \in SUBSET (Boxes \X BOOLEAN \X BOOLEAN)
    BY <2>2
  <2>4. boxes' = [x EXCEPT !.draft = copy]
    BY <1>1, <1>8, <2>1, <2>2 DEF BoxRebuild
  <2> QED BY <1>2, <2>3, <2>4 DEF BoxesAgree, BoxStates
<1>9. ASSUME NEW b \in Boxes, NEW handled \in SUBSET Boxes, BoxRelease(b, handled)
      PROVE  BoxesAgree(boxes')
  BY <1>9, Toggled DEF BoxRelease
<1>10. ASSUME NEW b \in Boxes \cup {"none"}, SetSelected(b) PROVE BoxesAgree(boxes')
  <2>1. PICK now : now = (x.on \ x.members) \cup (x.members \cap {b})
    OBVIOUS
  <2>2. PICK told : told = IF b \in Boxes THEN b ELSE x.told
    OBVIOUS
  <2>3. now \in SUBSET Boxes /\ told \in Boxes \cup {"none"}
    BY <1>2, <2>1, <2>2
  <2>4. PICK r : r = BoxesWith(x, now, told)
    OBVIOUS
  <2>5. BoxesAgree(r)
    BY <1>2, <2>3, <2>4, BoxesSet
  <2>6. boxes' = r
    BY <1>1, <1>2, <1>10, <2>1, <2>2, <2>4 DEF SetSelected, BoxesWith, BoxStates
  <2> QED BY <2>5, <2>6
<1>11. ASSUME NEW b \in Boxes, NEW on \in BOOLEAN, NEW radio \in BOOLEAN, BoxReplaceData(b, on, radio)
       PROVE  BoxesAgree(boxes')
  <2>1. PICK now : now = IF on THEN x.on \cup {b} ELSE x.on \ {b}
    OBVIOUS
  <2>2. PICK radios : radios = IF radio THEN x.radios \cup {b} ELSE x.radios \ {b}
    OBVIOUS
  <2>3. PICK told : told = x.told
    OBVIOUS
  <2>4. now \in SUBSET Boxes /\ radios \in SUBSET Boxes
    BY <1>2, <2>1, <2>2
  <2>5. PICK r : r = BoxesWith(x, now, told)
    OBVIOUS
  <2>6. BoxesAgree(r)
    BY <1>2, <2>3, <2>4, <2>5, BoxesSet
  <2>7. PICK none : none = {}
    OBVIOUS
  <2>8. PICK s : s = [r EXCEPT !.draft = none]
    OBVIOUS
  <2>9. BoxesAgree(s)
    BY <2>6, <2>7, <2>8 DEF BoxesAgree, BoxStates
  <2>10. boxes' = [s EXCEPT !.radios = radios]
    <3>1. r = [x EXCEPT !.on = now, !.shown = now]
      BY <1>2, <2>3, <2>5 DEF BoxesWith, BoxStates
    <3>2. [s EXCEPT !.radios = radios]
            = [x EXCEPT !.on = now, !.shown = now, !.draft = none, !.radios = radios]
      BY <2>8, <3>1
    <3>3. boxes' = [x EXCEPT !.on = now, !.shown = now, !.draft = none, !.radios = radios]
      BY <1>1, <1>11, <2>1, <2>2, <2>7 DEF BoxReplaceData
    <3> QED BY <3>2, <3>3
  <2> QED BY <2>4, <2>9, <2>10 DEF BoxesAgree, BoxStates
<1>12. CASE BoxCommence
  <2>1. PICK d \in x.draft, change \in BOOLEAN :
          \/ BoxReplaceData(d[1], d[2] # change, d[3])
          \/ BoxReplaceData(d[1], d[2], d[3] # change)
    BY <1>1, <1>12 DEF BoxCommence
  <2>2. d[1] \in Boxes /\ d[2] \in BOOLEAN /\ d[3] \in BOOLEAN
    BY <1>2
  <2>3. (d[2] # change) \in BOOLEAN /\ (d[3] # change) \in BOOLEAN
    OBVIOUS
  <2>4. PICK b \in Boxes, on \in BOOLEAN, radio \in BOOLEAN : BoxReplaceData(b, on, radio)
    BY <2>1, <2>2, <2>3
  <2> QED BY <1>11, <2>4
<1> QED BY <1>3, <1>5, <1>6, <1>7, <1>8, <1>9, <1>10, <1>12 DEF BoxNext

----------------------------------------------------------------------------
\* All of them

ControlsIInv ==
  /\ SliderAgrees(slider) /\ ProgressAgrees(progress) /\ SpinboxAgrees(spinbox)
  /\ ComboAgrees(combo) /\ BoxesAgree(boxes)

LEMMA ControlsStart == ControlsInit => ControlsIInv
BY SliderStarts, ProgressStarts, SpinboxStarts, ComboStarts, BoxStarts DEF ControlsInit, ControlsIInv

LEMMA ControlsStep == ControlsIInv /\ [ControlsNext]_controlVars => ControlsIInv'
<1> SUFFICES ASSUME ControlsIInv, [ControlsNext]_controlVars PROVE ControlsIInv'
  OBVIOUS
<1>1. SliderAgrees(slider')
  <2>1. slider' = slider \/ SliderNext
    BY DEF ControlsNext, controlVars
  <2> QED BY <2>1, SliderSteps DEF ControlsIInv
<1>2. ProgressAgrees(progress')
  <2>1. progress' = progress \/ ProgressNext
    BY DEF ControlsNext, controlVars
  <2> QED BY <2>1, ProgressSteps DEF ControlsIInv
<1>3. SpinboxAgrees(spinbox')
  <2>1. spinbox' = spinbox \/ SpinboxNext
    BY DEF ControlsNext, controlVars
  <2> QED BY <2>1, SpinboxSteps DEF ControlsIInv
<1>4. ComboAgrees(combo')
  <2>1. combo' = combo \/ ComboNext
    BY DEF ControlsNext, controlVars
  <2> QED BY <2>1, ComboSteps DEF ControlsIInv
<1>5. BoxesAgree(boxes')
  <2>1. boxes' = boxes \/ BoxNext
    BY DEF ControlsNext, controlVars
  <2> QED BY <2>1, BoxSteps DEF ControlsIInv
<1> QED BY <1>1, <1>2, <1>3, <1>4, <1>5 DEF ControlsIInv, SliderAgrees, ProgressAgrees,
           SpinboxAgrees, ShowsItem, ComboAgrees, BoxesAgree, Settled

LEMMA AgreeingControlsShow == ControlsIInv => ControlsShowState
<1> SUFFICES ASSUME ControlsIInv PROVE ControlsShowState
  OBVIOUS
<1>1. /\ slider.shown = Refreshed(slider.data) /\ slider.data = Normalized(slider.data)
      /\ slider.told \in {{}, {slider.data.current}}
  <2>1. slider.data \in SliderDatas
    BY DEF ControlsIInv, SliderAgrees, Sliders
  <2> QED BY <2>1, NormalizedSettles DEF ControlsIInv, SliderAgrees
<1>2. /\ progress.pulsing = progress.data.indeterminate
      /\ progress.absolute = progress.data.indeterminate
      /\ progress.width = (IF progress.data.indeterminate THEN PulseWidth ELSE Width(progress.data.value))
  BY DEF ControlsIInv, ProgressAgrees
<1>3. /\ spinbox.data.current = Fits(spinbox.data.items, spinbox.data.current)
      /\ spinbox.label = Item(spinbox.data.items, spinbox.data.current)
  BY DEF ControlsIInv, SpinboxAgrees, ShowsItem
<1>4. /\ combo.label = Item(combo.data.items, combo.data.current)
      /\ combo.popup # 0 => combo.buttons = combo.data.items
  BY DEF ControlsIInv, ComboAgrees, ShowsItem
<1>5. boxes.shown = boxes.on
  BY DEF ControlsIInv, BoxesAgree
<1> QED BY <1>1, <1>2, <1>3, <1>4, <1>5 DEF ControlsShowState

\* Whether the user, a handler or a builder that kept the data for a while changed a
\* control, what it shows is what it holds, within its limits, and the buttons of an
\* open dropdown are the items of its combobox.
THEOREM ControlsAgree == ControlsSpec => []ControlsShowState
BY ControlsStart, ControlsStep, AgreeingControlsShow, PTL DEF ControlsSpec

\* The index that a button of the dropdown captured is still the one of its item when it
\* is clicked: the combobox shows the text of the button at once.
THEOREM ChoicesAreTaken == ControlsSpec => ChoiceIsTaken
<1> DEFINE Taken == \A b \in DOMAIN combo.buttons : Choose(b) => combo'.label = combo.buttons[b]
<1>1. ControlsIInv => [Taken]_combo
  BY Chosen DEF ControlsIInv
<1>2. ControlsSpec => [][Taken]_combo
  <2> HIDE DEF Taken
  <2> QED BY <1>1, ControlsStart, ControlsStep, PTL DEF ControlsSpec
<1> QED BY <1>2 DEF ChoiceIsTaken

\* A click that leaves a box of a group on leaves it the only one of the group, and the
\* group tells the application, whatever the handler of the click did before.
THEOREM RadioIsAlone == ControlsSpec => RadioTakesOver
<1> DEFINE Alone == \A b \in Boxes, handled \in SUBSET Boxes :
                      (b \in boxes.members /\ BoxRelease(b, handled) /\ b \in boxes'.on) =>
                         (boxes'.on \cap boxes.members = {b} /\ boxes'.told = b)
<1>1. ControlsIInv => [Alone]_boxes
  BY Toggled DEF ControlsIInv, BoxRelease
<1>2. ControlsSpec => [][Alone]_boxes
  <2> HIDE DEF Alone
  <2> QED BY <1>1, ControlsStart, ControlsStep, PTL DEF ControlsSpec
<1> QED BY <1>2 DEF RadioTakesOver

=============================================================================
