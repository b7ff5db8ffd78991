------------------------------ MODULE Outline ------------------------------
(***************************************************************************)
(* The heading outline of a list of cells (asat/outline.py). A list is a   *)
(* sequence of cells; of a cell the outline reads its level (0 unless it   *)
(* is a heading) and whether it is collapsed. Positions count from 1.      *)
(***************************************************************************)
EXTENDS Naturals, Sequences, FiniteSetsExt

\* The last and the first of a set of positions: one position, or none.
Greatest(S) == {i \in S : \A j \in S : j <= i}
Least(S) == {i \in S : \A j \in S : i <= j}

IsHeading(list, i) == list[i].level > 0

\* scope_range: one past the last cell of the section that heading i opens,
\* that is the next heading of the same or a shallower level.
ScopeEnd(list, i) ==
  Min({Len(list) + 1} \cup
      {j \in i + 1 .. Len(list) :
         IsHeading(list, j) /\ list[j].level <= list[i].level})

\* Mutant: the cells of a hidden stretch are passed over, but a collapsed
\* heading inside it still moves its end.
VisibleWithoutAbsorption(list) ==
  LET Pass[i \in 0 .. Len(list)] ==
        IF i = 0 THEN [out |-> {}, hideUntil |-> 0]
        ELSE [out |-> Pass[i - 1].out \cup (IF i < Pass[i - 1].hideUntil THEN {} ELSE {i}),
              hideUntil |-> IF IsHeading(list, i) /\ list[i].collapsed
                            THEN ScopeEnd(list, i)
                            ELSE Pass[i - 1].hideUntil]
  IN  Pass[Len(list)].out

\* visible_indices: one pass down the list; a collapsed heading hides what
\* follows it up to the end of its scope.
PassCell(list, pass, i) ==
  IF i < pass.hideUntil THEN pass
  ELSE [out |-> pass.out \cup {i},
        hideUntil |-> IF IsHeading(list, i) /\ list[i].collapsed
                      THEN ScopeEnd(list, i)
                      ELSE pass.hideUntil]

PassOver(list) ==
  LET Pass[i \in 0 .. Len(list)] ==
        IF i = 0 THEN [out |-> {}, hideUntil |-> 0] ELSE PassCell(list, Pass[i - 1], i)
  IN  Pass

VisiblePositions(list) == PassOver(list)[Len(list)].out

\* enclosing_heading_index: the heading at or before i.
EnclosingHeading(list, i) == Greatest({j \in 1 .. i : IsHeading(list, j)})

\* _move_to_heading and _move_to_parent_heading: the nearest heading after or
\* before i of one of the levels.
HeadingAfter(list, i, levels) ==
  Least({j \in i + 1 .. Len(list) : list[j].level \in levels})

HeadingBefore(list, i, levels) ==
  Greatest({j \in 1 .. i - 1 : list[j].level \in levels})
-----------------------------------------------------------------------------
\* What the functions above are for, said without the order they work in.
InScope(list, h, i) ==
  /\ IsHeading(list, h) /\ h < i
  /\ \A j \in h + 1 .. i : IsHeading(list, j) => list[j].level > list[h].level

Hidden(list, i) ==
  \E h \in 1 .. i - 1 : list[h].collapsed /\ InScope(list, h, i)
=============================================================================
