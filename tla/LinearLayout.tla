----------------------------- MODULE LinearLayout -----------------------------
(***************************************************************************)
(* element/LinearLayout.hpp with its two users, RowLayout.cpp and          *)
(* ColumnLayout.cpp, and types/SizeType.cpp: how a row divides its width   *)
(* (a column its height) among its children, which it hides, and how wide  *)
(* it asks to be.  Only the axis the children flow along is modelled, in   *)
(* whole pixels.                                                           *)
(***************************************************************************)
EXTENDS Integers, Sequences, SequencesExt, FiniteSetsExt

CONSTANTS
  Kinds,       \* what a child may be: [type, value, content, control, grow]
  Widths,      \* bound: the widths the row is given
  Gap,         \* the gap of the row
  MaxChildren  \* bound: children at once

ASSUME LayoutAssumption ==
  /\ Gap \in Nat /\ MaxChildren \in Nat /\ Widths \subseteq Nat
  /\ \A k \in Kinds : /\ k.type \in {"absolute", "percent", "auto"}
                      /\ k.value \in Nat /\ k.content \in Nat /\ k.control \in BOOLEAN
                      /\ k.grow \in BOOLEAN

VARIABLES
  children,  \* impl->children: [kind, failed, size, at] of each, in order
  box,       \* the width of impl->position after the last reposition
  laid       \* nothing changed since the last reposition
rowVars == <<children, box, laid>>

Unknown == -1
NoSize == -1

\* A double below zero converted to size_t is what the build makes of it
Wrapped == 1000
ToSize(d) == IF d < 0 THEN Wrapped ELSE d

----------------------------------------------------------------------------
\* Sizes

\* CDynamicSize::calculate; a percentage is in hundredths
Calculate(k, outer, grow) ==
  CASE k.type = "absolute" -> k.value
    [] k.type = "percent"  -> IF grow THEN (k.value * outer) \div 100 ELSE Unknown
    [] k.type = "auto"     -> Unknown

\* getPreferredSizeGeneric: what the size leaves open is what the content needs
Preferred(k, outer, grow) ==
  LET s == Calculate(k, outer, grow) IN IF s = Unknown THEN k.content ELSE s

\* Controls do not shrink below their content; other elements shrink to nothing
\* unless their size is fixed
Minimum(k, outer) ==
  LET s == Calculate(k, outer, FALSE)
  IN  IF k.control THEN Preferred(k, outer, FALSE) ELSE IF s = Unknown THEN 0 ELSE s
Maximum(k, outer) ==
  IF k.control THEN Preferred(k, outer, TRUE)
  ELSE LET s == Calculate(k, outer, TRUE) IN IF s = Unknown THEN NoSize ELSE s

ChildSize(k, outer) == Preferred(k, outer, TRUE)

Sum(s) == FoldLeft(LAMBDA a, b : a + b, 0, s)

\* CRowLayoutElement::preferredSize of a row whose own width is automatic
RowPreferred(cs) ==
  LET upto[i \in 0 .. Len(cs)] ==
        IF i = 0 THEN 0 ELSE upto[i - 1] + Preferred(cs[i].kind, 0, FALSE) + Gap
  IN  IF cs = <<>> THEN 0 ELSE upto[Len(cs)] - Gap

----------------------------------------------------------------------------
\* LinearLayout::reposition

\* Takes what is needed from the children before i, the nearest first, as far as
\* each may shrink
Shrink(kinds, max, i, sizes, needs) ==
  FoldRight(LAMBDA j, st :
      LET slack == IF st.sizes[j] > Minimum(kinds[j], max)
                   THEN st.sizes[j] - Minimum(kinds[j], max) ELSE 0
          take == Min({slack, st.needs})
      IN  [sizes |-> [st.sizes EXCEPT ![j] = @ - take], needs |-> st.needs - take],
    [j \in 1 .. i - 1 |-> j], [sizes |-> sizes, needs |-> needs])

\* The child does not fit: it is hidden, and the one before it takes the rest
DropChild(kinds, max, i, st) ==
  LET last == Maximum(kinds[i - 1], max)
      rest == max - st.used
  IN  [st EXCEPT !.failed[i] = TRUE,
                 !.sizes = IF i = 1 \/ (last # NoSize /\ @[i - 1] + rest > last) THEN @
                           ELSE [@ EXCEPT ![i - 1] = ToSize(@ + rest)]]

\* Seeded fault: a child that fits again keeps the mark of the last pass.
SizeChildStillHidden(kinds, max, i, st) ==
  LET gap  == IF i = Len(kinds) THEN 0 ELSE Gap
      pref == ChildSize(kinds[i], max)
  IN  IF st.used + pref + gap <= max + 1
      THEN [used |-> st.used + pref + gap, sizes |-> [st.sizes EXCEPT ![i] = pref],
            failed |-> st.failed]
      ELSE DropChild(kinds, max, i, st)

\* One turn of the loop that gives every child its size
SizeChild(kinds, max, i, st) ==
  LET n    == Len(kinds)
      gap  == IF i = n THEN 0 ELSE Gap
      pref == ChildSize(kinds[i], max)
      min  == Minimum(kinds[i], max)
      made == Shrink(kinds, max, i, st.sizes, st.used + min + gap - (max + 1))
  IN  IF st.used + pref + gap <= max + 1
      THEN [used |-> st.used + pref + gap, sizes |-> [st.sizes EXCEPT ![i] = pref],
            failed |-> [st.failed EXCEPT ![i] = FALSE]]
      ELSE IF st.used + min + gap <= max + 1
      THEN [used |-> max, failed |-> st.failed,
            sizes |-> [st.sizes EXCEPT ![i] = ToSize(max - st.used)]]
      ELSE IF made.needs > 0
      THEN DropChild(kinds, max, i, [st EXCEPT !.sizes = made.sizes])
      ELSE LET sizes == [made.sizes EXCEPT ![i] = min]
           IN  [used |-> Sum(sizes) + n * Gap, sizes |-> sizes,
                failed |-> [st.failed EXCEPT ![i] = FALSE]]

\* The whole pass: sizes, then the places of the children that are shown
Layout(cs, max) ==
  LET n     == Len(cs)
      kinds == [i \in 1 .. n |-> cs[i].kind]
      pass[i \in 0 .. n] ==
        IF i = 0 THEN [used |-> 0, sizes |-> [j \in 1 .. n |-> 0],
                       failed |-> [j \in 1 .. n |-> cs[j].failed]]
        ELSE SizeChild(kinds, max, i, pass[i - 1])
      done == pass[n]
      growing == {i \in 1 .. n : kinds[i].grow}
      sizes == IF done.used < max /\ growing # {}
               THEN [done.sizes EXCEPT ![Min(growing)] = @ + max - done.used] ELSE done.sizes
      place[i \in 0 .. n] ==
        IF i = 0 THEN 0 ELSE place[i - 1] + (IF done.failed[i] THEN 0 ELSE sizes[i] + Gap)
  IN  [i \in 1 .. n |->
         [kind |-> kinds[i], failed |-> done.failed[i], size |-> sizes[i],
          at |-> IF done.failed[i] THEN cs[i].at ELSE place[i - 1]]]

----------------------------------------------------------------------------
Fresh(k) == [kind |-> k, failed |-> FALSE, size |-> 0, at |-> 0]

RowInit == children = <<>> /\ box = 0 /\ laid = FALSE

AppendChild(k) ==
  /\ Len(children) < MaxChildren
  /\ children' = Append(children, Fresh(k))
  /\ laid' = FALSE
  /\ UNCHANGED box

EraseChild(i) ==
  /\ children' = RemoveAt(children, i)
  /\ laid' = FALSE
  /\ UNCHANGED box

\* The child is rebuilt with another size
ReplaceChild(i, k) ==
  /\ children' = [children EXCEPT ![i].kind = k]
  /\ laid' = FALSE
  /\ UNCHANGED box

RowReposition(max) ==
  /\ children' = Layout(children, max)
  /\ box' = max
  /\ laid' = TRUE

\* A row of automatic width inside a parent that grants what it asks for
RowRepositionAuto == RowReposition(RowPreferred(children))

RowNext ==
  \/ \E k \in Kinds : AppendChild(k)
  \/ \E i \in DOMAIN children : EraseChild(i) \/ \E k \in Kinds : ReplaceChild(i, k)
  \/ \E max \in Widths : RowReposition(max)
  \/ RowRepositionAuto

RowSpec == RowInit /\ [][RowNext]_rowVars

----------------------------------------------------------------------------
Shown == {i \in DOMAIN children : ~children[i].failed}

\* A row that has the room it asked for, or more, shows every child at the size
\* the child prefers at least, whatever was hidden before, and the first growing
\* child takes what is left to the last pixel.
RoomMeansShown ==
  (/\ laid /\ children # <<>> /\ box >= RowPreferred(children)
   /\ \A i \in DOMAIN children : children[i].kind.type # "percent")
  => /\ Shown = DOMAIN children
     /\ \A i \in Shown : children[i].size >= Preferred(children[i].kind, box, TRUE)
     /\ (\E i \in Shown : children[i].kind.grow)
           => Last(children).at + Last(children).size = box

=============================================================================
