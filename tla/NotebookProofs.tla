---------------------------- MODULE NotebookProofs ----------------------------
(***************************************************************************)
(* Theorems about Notebook, for any ids, bookmark names and heading        *)
(* levels.  The safety invariants hold each other up: a delete keeps the   *)
(* focus real only because ids are unique, a submit keeps its types only   *)
(* because the focus of INPUT mode is real, so they are proved together.   *)
(***************************************************************************)
EXTENDS Notebook, FiniteSetTheorems, SequenceTheorems, WellFoundedInduction, TLAPS

\* The part of the invariant about the session and the cursor.
CursorInv ==
  /\ cells \in Seq(Ids)
  /\ cell \in [Ids -> CellTypes]
  /\ bookmarks \in [Names -> Ids \cup {NoCell}]
  /\ mode \in Modes
  /\ IdsAreUnique /\ FocusIsReal /\ BookmarksResolve /\ EditsCommands

\* The part about the menu and the submissions.
AppInv ==
  /\ menuOpen \in BOOLEAN
  /\ submitted \in Ids \cup {NoCell}
  /\ pending \in Seq(Ids)

IInv == CursorInv /\ AppInv

-----------------------------------------------------------------------------

(* Sequences. *)

\* InsertAt, element by element.
LEMMA InsertElements ==
  ASSUME NEW S, NEW s \in Seq(S), NEW e \in S, NEW i \in 1 .. Len(s) + 1
  PROVE  /\ InsertAt(s, i, e) \in Seq(S)
         /\ Len(InsertAt(s, i, e)) = Len(s) + 1
         /\ \A j \in 1 .. Len(s) + 1 :
              InsertAt(s, i, e)[j] = IF j < i THEN s[j]
                                     ELSE IF j = i THEN e ELSE s[j - 1]
<1> DEFINE a == SubSeq(s, 1, i - 1)
           b == SubSeq(s, i, Len(s))
<1>1. a \in Seq(S) /\ Len(a) = i - 1 /\ \A j \in 1 .. i - 1 : a[j] = s[j]
  BY SubSeqProperties
<1>2. b \in Seq(S) /\ Len(b) = Len(s) - i + 1
      /\ \A j \in 1 .. Len(s) - i + 1 : b[j] = s[i + j - 1]
  BY SubSeqProperties
<1>3. <<e>> \in Seq(S) /\ Len(<<e>>) = 1 /\ <<e>>[1] = e
  OBVIOUS
<1>4. /\ a \o <<e>> \in Seq(S) /\ Len(a \o <<e>>) = i
      /\ \A j \in 1 .. i : (a \o <<e>>)[j] = IF j < i THEN s[j] ELSE e
  BY <1>1, <1>3, ConcatProperties
<1>5. /\ (a \o <<e>>) \o b \in Seq(S) /\ Len((a \o <<e>>) \o b) = Len(s) + 1
      /\ \A j \in 1 .. Len(s) + 1 :
           ((a \o <<e>>) \o b)[j] = IF j <= i THEN (a \o <<e>>)[j] ELSE b[j - i]
  <2> DEFINE c == a \o <<e>>
  <2>1. c \in Seq(S) /\ Len(c) = i
    BY <1>4
  <2> HIDE DEF a, b, c
  <2>2. /\ c \o b \in Seq(S) /\ Len(c \o b) = Len(c) + Len(b)
        /\ \A j \in 1 .. Len(c) + Len(b) :
             (c \o b)[j] = IF j <= Len(c) THEN c[j] ELSE b[j - Len(c)]
    BY <1>2, <2>1, ConcatProperties
  <2>3. Len(c) + Len(b) = Len(s) + 1
    BY <1>2, <2>1
  <2>. QED  BY <2>1, <2>2, <2>3 DEF c
<1>6. InsertAt(s, i, e) = (a \o <<e>>) \o b
  BY DEF InsertAt
<1> HIDE DEF a, b
<1>7. ASSUME NEW j \in 1 .. Len(s) + 1
      PROVE  InsertAt(s, i, e)[j] = IF j < i THEN s[j]
                                     ELSE IF j = i THEN e ELSE s[j - 1]
  <2>1. CASE j <= i
    BY <1>4, <1>5, <1>6, <2>1
  <2>2. CASE j > i
    BY <1>2, <1>5, <1>6, <2>2
  <2>. QED  BY <2>1, <2>2
<1>. QED  BY <1>5, <1>6, <1>7

\* RemoveAt, element by element.
LEMMA RemoveElements ==
  ASSUME NEW S, NEW s \in Seq(S), NEW i \in 1 .. Len(s)
  PROVE  /\ RemoveAt(s, i) \in Seq(S)
         /\ Len(RemoveAt(s, i)) = Len(s) - 1
         /\ \A j \in 1 .. Len(s) - 1 :
              RemoveAt(s, i)[j] = IF j < i THEN s[j] ELSE s[j + 1]
<1> DEFINE a == SubSeq(s, 1, i - 1)
           b == SubSeq(s, i + 1, Len(s))
<1>1. a \in Seq(S) /\ Len(a) = i - 1 /\ \A j \in 1 .. i - 1 : a[j] = s[j]
  BY SubSeqProperties
<1>2. b \in Seq(S) /\ Len(b) = Len(s) - i
      /\ \A j \in 1 .. Len(s) - i : b[j] = s[i + j]
  BY SubSeqProperties
<1>3. /\ a \o b \in Seq(S) /\ Len(a \o b) = Len(s) - 1
      /\ \A j \in 1 .. Len(s) - 1 :
           (a \o b)[j] = IF j <= i - 1 THEN a[j] ELSE b[j - (i - 1)]
  <2> HIDE DEF a, b
  <2>1. /\ a \o b \in Seq(S) /\ Len(a \o b) = Len(a) + Len(b)
        /\ \A j \in 1 .. Len(a) + Len(b) :
             (a \o b)[j] = IF j <= Len(a) THEN a[j] ELSE b[j - Len(a)]
    BY <1>1, <1>2, ConcatProperties
  <2>2. Len(a) + Len(b) = Len(s) - 1
    BY <1>1, <1>2
  <2>. QED  BY <1>1, <2>1, <2>2
<1>4. RemoveAt(s, i) = a \o b
  BY DEF RemoveAt
<1> HIDE DEF a, b
<1>5. ASSUME NEW j \in 1 .. Len(s) - 1
      PROVE  RemoveAt(s, i)[j] = IF j < i THEN s[j] ELSE s[j + 1]
  <2>1. CASE j <= i - 1
    BY <1>1, <1>3, <1>4, <2>1
  <2>2. CASE j > i - 1
    BY <1>2, <1>3, <1>4, <2>2
  <2>. QED  BY <2>1, <2>2
<1>. QED  BY <1>3, <1>4, <1>5

\* A new element put in anywhere: the ids stay unique, and it is the only one
\* more.
LEMMA InsertNew ==
  ASSUME NEW S, NEW s \in Seq(S), NEW e \in S \ Range(s), NEW i \in 1 .. Len(s) + 1,
         IsInjective(s)
  PROVE  /\ IsInjective(InsertAt(s, i, e))
         /\ Range(InsertAt(s, i, e)) = Range(s) \cup {e}
<1> DEFINE t == InsertAt(s, i, e)
<1>1. /\ t \in Seq(S) /\ Len(t) = Len(s) + 1
      /\ \A j \in 1 .. Len(s) + 1 :
           t[j] = IF j < i THEN s[j] ELSE IF j = i THEN e ELSE s[j - 1]
  BY InsertElements
<1>2. DOMAIN t = 1 .. Len(s) + 1 /\ DOMAIN s = 1 .. Len(s) /\ Len(s) \in Nat
  BY <1>1
<1> HIDE DEF t
<1>3. \A j \in 1 .. Len(s) : s[j] # e
  BY <1>2 DEF Range
<1>4. IsInjective(t)
  <2> SUFFICES ASSUME NEW j \in 1 .. Len(s) + 1, NEW k \in 1 .. Len(s) + 1, t[j] = t[k]
               PROVE  j = k
    BY <1>2 DEF IsInjective
  <2>1. \A m, n \in 1 .. Len(s) : s[m] = s[n] => m = n
    BY <1>2 DEF IsInjective
  <2> DEFINE old(m) == IF m < i THEN m ELSE m - 1
  <2>2. CASE j = i
    BY <1>1, <1>2, <1>3, <2>2
  <2>3. CASE k = i
    BY <1>1, <1>2, <1>3, <2>3
  <2>4. CASE j # i /\ k # i
    <3>1. old(j) \in 1 .. Len(s) /\ old(k) \in 1 .. Len(s)
      BY <1>2, <2>4
    <3>2. s[old(j)] = s[old(k)]
      BY <1>1, <1>2, <2>4
    <3>3. old(j) = old(k)
      BY <2>1, <3>1, <3>2
    <3>. QED  BY <2>4, <3>3
  <2>. QED  BY <2>2, <2>3, <2>4
<1>5. Range(t) \subseteq Range(s) \cup {e}
  BY <1>1, <1>2 DEF Range
<1>6. e \in Range(t)
  BY <1>1, <1>2 DEF Range
<1>7. ASSUME NEW j \in 1 .. Len(s) PROVE s[j] \in Range(t)
  <2>1. CASE j < i  BY <1>1, <1>2, <2>1 DEF Range
  <2>2. CASE j >= i
    <3>1. j + 1 \in DOMAIN t /\ t[j + 1] = s[j]
      BY <1>1, <1>2, <2>2
    <3>. QED  BY <3>1 DEF Range
  <2>. QED  BY <1>2, <2>1, <2>2
<1>8. Range(s) \subseteq Range(t)
  BY <1>2, <1>7 DEF Range
<1>. QED  BY <1>4, <1>5, <1>6, <1>8 DEF t

\* An element taken out of a sequence of unique ones is gone from it.
LEMMA RemoveOne ==
  ASSUME NEW S, NEW s \in Seq(S), NEW i \in 1 .. Len(s), IsInjective(s)
  PROVE  /\ IsInjective(RemoveAt(s, i))
         /\ Range(RemoveAt(s, i)) = Range(s) \ {s[i]}
<1> DEFINE t == RemoveAt(s, i)
<1>1. /\ t \in Seq(S) /\ Len(t) = Len(s) - 1
      /\ \A j \in 1 .. Len(s) - 1 : t[j] = IF j < i THEN s[j] ELSE s[j + 1]
  BY RemoveElements
<1>2. DOMAIN t = 1 .. Len(s) - 1 /\ DOMAIN s = 1 .. Len(s) /\ Len(s) \in Nat
  BY <1>1
<1> HIDE DEF t
<1>3. \A m, n \in 1 .. Len(s) : s[m] = s[n] => m = n
  BY <1>2 DEF IsInjective
<1>4. IsInjective(t)
  <2> SUFFICES ASSUME NEW j \in 1 .. Len(s) - 1, NEW k \in 1 .. Len(s) - 1, t[j] = t[k]
               PROVE  j = k
    BY <1>2 DEF IsInjective
  <2>. QED  BY <1>1, <1>2, <1>3
<1>5. ASSUME NEW j \in 1 .. Len(s) - 1 PROVE t[j] \in Range(s) \ {s[i]}
  <2>1. CASE j < i
    BY <1>1, <1>2, <1>3, <2>1 DEF Range
  <2>2. CASE j >= i
    <3>1. t[j] = s[j + 1] /\ j + 1 \in 1 .. Len(s) /\ j + 1 # i
      BY <1>1, <1>2, <2>2
    <3>. QED  BY <1>2, <1>3, <3>1 DEF Range
  <2>. QED  BY <1>2, <2>1, <2>2
<1>6. ASSUME NEW j \in 1 .. Len(s), j # i PROVE s[j] \in Range(t)
  <2>1. CASE j < i
    <3>1. j \in DOMAIN t /\ t[j] = s[j]
      BY <1>1, <1>2, <2>1
    <3>. QED  BY <3>1 DEF Range
  <2>2. CASE j > i
    <3>1. j - 1 \in DOMAIN t /\ t[j - 1] = s[j]
      BY <1>1, <1>2, <2>2
    <3>. QED  BY <3>1 DEF Range
  <2>. QED  BY <1>2, <1>6, <2>1, <2>2
<1>7. Range(t) \subseteq Range(s) \ {s[i]}
  BY <1>2, <1>5 DEF Range
<1>8. Range(s) \ {s[i]} \subseteq Range(t)
  BY <1>2, <1>6 DEF Range
<1>. QED  BY <1>4, <1>7, <1>8 DEF t
-----------------------------------------------------------------------------

(* What each piece of the cursor does to the invariant. *)

\* Session.index_of finds a cell that is there, and its only position.
LEMMA IndexFinds ==
  ASSUME cells \in Seq(Ids)
  PROVE  /\ \A c \in Range(cells) :
              Index(c) \in 1 .. Len(cells) /\ cells[Index(c)] = c
         /\ IdsAreUnique => \A i \in 1 .. Len(cells) : Index(cells[i]) = i
<1>1. DOMAIN cells = 1 .. Len(cells)
  OBVIOUS
<1>2. ASSUME NEW c \in Range(cells)
      PROVE  Index(c) \in 1 .. Len(cells) /\ cells[Index(c)] = c
  BY <1>1 DEF Index, Range
<1>3. ASSUME IdsAreUnique, NEW i \in 1 .. Len(cells)
      PROVE  Index(cells[i]) = i
  <2>1. cells[i] \in Range(cells)
    BY <1>1 DEF Range
  <2>. QED  BY <1>1, <1>2, <1>3, <2>1 DEF IdsAreUnique, IsInjective
<1>. QED  BY <1>2, <1>3

\* A transition that keeps the cell, into INPUT mode only on a command.
LEMMA ModeKeeps ==
  ASSUME CursorInv, NEW m \in Modes, ToMode(m),
         m = "input" => focus # NoCell /\ cell[focus].kind = "command"
  PROVE  CursorInv'
BY DEF CursorInv, ToMode, session, IdsAreUnique, FocusIsReal, BookmarksResolve, EditsCommands

\* focus_cell on a cell of the session.
LEMMA FocusKeeps ==
  ASSUME CursorInv, NEW c \in Range(cells), FocusCell(c)
  PROVE  CursorInv'
BY DEF CursorInv, FocusCell, Land, Modes, IdsAreUnique, FocusIsReal, BookmarksResolve,
       EditsCommands

\* A fresh cell put in anywhere and focused.
LEMMA AddKeeps ==
  ASSUME CursorInv, NEW c \in Fresh, NEW i \in 1 .. Len(cells) + 1,
         NEW new \in CellTypes, NEW m \in {"notebook", "input"},
         m = "input" => new.kind = "command",
         AddCell(c, i, new), Land(c, m)
  PROVE  CursorInv'
<1>1. cells \in Seq(Ids) /\ c \in Ids \ Range(cells)
  BY DEF CursorInv, Fresh
<1>2. cells' \in Seq(Ids) /\ cells' = InsertAt(cells, i, c)
  BY <1>1, InsertElements DEF AddCell
<1>3. IdsAreUnique' /\ Range(cells') = Range(cells) \cup {c}
  BY <1>1, <1>2, InsertNew DEF CursorInv, IdsAreUnique
<1>4. cell' \in [Ids -> CellTypes] /\ cell'[c] = new
  BY <1>1 DEF AddCell, CursorInv
<1>5. bookmarks' \in [Names -> Ids \cup {NoCell}] /\ BookmarksResolve'
  BY <1>3 DEF AddCell, CursorInv, BookmarksResolve
<1>6. mode' \in Modes /\ FocusIsReal'
  BY <1>3 DEF Land, Modes, FocusIsReal
<1>7. EditsCommands'
  BY <1>1, <1>4, ConstantsAssumption DEF Land, EditsCommands
<1>. QED  BY <1>2, <1>3, <1>4, <1>5, <1>6, <1>7 DEF CursorInv

\* new_cell, new_heading_cell, new_text_cell.
LEMMA AppendKeeps ==
  ASSUME CursorInv, NEW new \in CellTypes, NEW m \in {"notebook", "input"},
         m = "input" => new.kind = "command", AppendCell(new, m)
  PROVE  CursorInv'
<1>1. PICK c \in Fresh : AddCell(c, Len(cells) + 1, new) /\ Land(c, m)
  BY DEF AppendCell
<1>2. Len(cells) + 1 \in 1 .. Len(cells) + 1
  BY DEF CursorInv
<1>. QED  BY <1>1, <1>2, AddKeeps

\* The focus lands on a neighbour and no bookmark is left behind.
LEMMA RemoveKeeps ==
  ASSUME CursorInv, RemoveFocused
  PROVE  CursorInv'
<1> DEFINE i == Index(focus)
           rest == RemoveAt(cells, i)
           next == IF rest = <<>> THEN NoCell
                   ELSE rest[IF i < Len(rest) THEN i ELSE Len(rest)]
<1>1. cells \in Seq(Ids) /\ focus \in Range(cells) /\ IdsAreUnique
  BY DEF CursorInv, RemoveFocused, FocusIsReal
<1>2. i \in 1 .. Len(cells) /\ cells[i] = focus /\ Len(cells) \in Nat
  BY <1>1, IndexFinds
<1>3. rest \in Seq(Ids) /\ Len(rest) = Len(cells) - 1
  BY <1>1, <1>2, RemoveElements
<1>4. IsInjective(rest) /\ Range(rest) = Range(cells) \ {focus}
  BY <1>1, <1>2, RemoveOne DEF IdsAreUnique
<1>5. /\ cells' = rest /\ cell' = [cell EXCEPT ![focus] = BlankCell]
      /\ bookmarks' = [n \in Names |-> IF bookmarks[n] = focus THEN NoCell
                                       ELSE bookmarks[n]]
      /\ active' = next /\ focus' = next /\ mode' = "notebook"
  BY DEF RemoveFocused, Land
<1> HIDE DEF i, rest
<1>6. rest # <<>> => next \in Range(rest)
  <2> SUFFICES ASSUME rest # <<>> PROVE next \in Range(rest)
    OBVIOUS
  <2>1. Len(rest) \in Nat \ {0} /\ DOMAIN rest = 1 .. Len(rest)
    BY <1>3, EmptySeq
  <2>2. (IF i < Len(rest) THEN i ELSE Len(rest)) \in DOMAIN rest
    BY <1>2, <2>1
  <2>. QED  BY <2>2 DEF Range
<1> HIDE DEF next
<1>7. FocusIsReal'
  BY <1>5, <1>6 DEF FocusIsReal, next
<1>8. cell' \in [Ids -> CellTypes]
  <2>1. BlankCell \in CellTypes
    BY DEF BlankCell, CellTypes
  <2>. QED  BY <1>5, <2>1 DEF CursorInv
<1>9. bookmarks' \in [Names -> Ids \cup {NoCell}] /\ BookmarksResolve'
  BY <1>4, <1>5 DEF CursorInv, BookmarksResolve
<1>10. mode' \in Modes /\ EditsCommands'
  BY <1>5 DEF Modes, EditsCommands
<1>. QED  BY <1>3, <1>4, <1>5, <1>7, <1>8, <1>9, <1>10 DEF CursorInv, IdsAreUnique

\* A copy keeps the kind and comes unfolded.
LEMMA DuplicateKeeps ==
  ASSUME CursorInv, DuplicateFocused
  PROVE  CursorInv'
<1>1. cells \in Seq(Ids) /\ focus \in Range(cells) /\ focus \in Ids
  BY RangeOfSeq DEF CursorInv, DuplicateFocused, FocusIsReal
<1>2. Index(focus) + 1 \in 1 .. Len(cells) + 1
  BY <1>1, IndexFinds
<1>3. NewOf(cell[focus].kind, cell[focus].level) \in CellTypes
  <2> DEFINE copy == NewOf(cell[focus].kind, cell[focus].level)
  <2>1. cell[focus] \in CellTypes
    BY <1>1 DEF CursorInv
  <2>2. CASE cell[focus] = Command
    <3>1. copy = Command
      BY <2>2 DEF Command, NewOf
    <3>. QED  BY <3>1 DEF CellTypes
  <2>3. CASE cell[focus] = Text
    <3>1. copy = Text
      BY <2>3 DEF Text, NewOf
    <3>. QED  BY <3>1 DEF CellTypes
  <2>4. CASE cell[focus] \in [kind : {"heading"}, level : Levels, collapsed : BOOLEAN]
    <3>1. copy \in [kind : {"heading"}, level : Levels, collapsed : BOOLEAN]
      BY <2>4 DEF NewOf
    <3>. QED  BY <3>1 DEF CellTypes
  <2>. QED  BY <2>1, <2>2, <2>3, <2>4 DEF CellTypes
<1>. QED  BY <1>2, <1>3, AddKeeps DEF DuplicateFocused

\* enter_input_mode.
LEMMA EnterKeeps ==
  ASSUME CursorInv, EnterInputMode
  PROVE  CursorInv'
BY ModeKeeps DEF EnterInputMode, Modes

\* submit, with its fresh cell at the end of the list or without.
LEMMA SubmitKeeps ==
  ASSUME CursorInv, NEW blank \in BOOLEAN, SubmitBuffer(blank)
  PROVE  CursorInv'
<1>1. CASE ~blank /\ focus = Last(cells)
  BY <1>1, AppendKeeps DEF SubmitBuffer, CellTypes, Command, NewOf
<1>2. CASE ~(~blank /\ focus = Last(cells))
  BY <1>2, ModeKeeps DEF SubmitBuffer, Modes
<1>. QED  BY <1>1, <1>2

\* Alt+Up and Alt+Down take the cell out and put it back.
LEMMA MoveKeeps ==
  ASSUME CursorInv, NEW up \in BOOLEAN, MoveCell(up)
  PROVE  CursorInv'
<1> DEFINE old == Index(focus)
           new == IF up THEN old - 1 ELSE old + 1
           rest == RemoveAt(cells, old)
<1>1. cells \in Seq(Ids) /\ focus \in Range(cells) /\ IdsAreUnique /\ focus \in Ids
  BY RangeOfSeq DEF CursorInv, MoveCell, FocusIsReal
<1>2. old \in 1 .. Len(cells) /\ cells[old] = focus /\ Len(cells) \in Nat
  BY <1>1, IndexFinds
<1>3. new \in 1 .. Len(cells) /\ cells' = InsertAt(rest, new, focus)
  BY <1>1 DEF MoveCell
<1>4. rest \in Seq(Ids) /\ Len(rest) = Len(cells) - 1
  BY <1>1, <1>2, RemoveElements
<1>5. IsInjective(rest) /\ Range(rest) = Range(cells) \ {focus}
  BY <1>1, <1>2, RemoveOne DEF IdsAreUnique
<1> HIDE DEF old, new, rest
<1>6. new \in 1 .. Len(rest) + 1
  BY <1>2, <1>3, <1>4
<1>7. cells' \in Seq(Ids)
  BY <1>1, <1>3, <1>4, <1>6, InsertElements
<1>8. IdsAreUnique' /\ Range(cells') = Range(cells)
  <2>1. focus \in Ids \ Range(rest)
    BY <1>1, <1>5
  <2>2. IsInjective(cells') /\ Range(cells') = Range(rest) \cup {focus}
    BY <1>3, <1>4, <1>5, <1>6, <2>1, InsertNew
  <2>. QED  BY <1>1, <1>5, <2>2 DEF IdsAreUnique
<1>9. UNCHANGED <<cell, active, bookmarks, focus, mode>>
  BY DEF MoveCell
<1>10. cells # <<>>
  BY <1>1 DEF Range
<1>. QED  BY <1>1, <1>7, <1>8, <1>9 DEF CursorInv, FocusIsReal, BookmarksResolve, EditsCommands

\* z folds and unfolds headings only.
LEMMA FoldKeeps ==
  ASSUME CursorInv, ToggleFold
  PROVE  CursorInv'
<1>1. cells \in Seq(Ids) /\ focus \in Range(cells) /\ focus \in Ids
  BY RangeOfSeq DEF CursorInv, ToggleFold, FocusIsReal
<1>2. Index(focus) \in DOMAIN cells /\ cells[Index(focus)] = focus
  BY <1>1, IndexFinds
<1>3. cell[focus].level > 0
  BY <1>2 DEF ToggleFold, IsHeading, List
<1>4. cell[focus] \in CellTypes
  BY <1>1 DEF CursorInv
<1>5. cell[focus] \in [kind : {"heading"}, level : Levels, collapsed : BOOLEAN]
  BY <1>3, <1>4 DEF CellTypes, Command, Text, NewOf
<1>6. [cell[focus] EXCEPT !.collapsed = ~@]
        \in [kind : {"heading"}, level : Levels, collapsed : BOOLEAN]
  BY <1>5
<1>7. [cell[focus] EXCEPT !.collapsed = ~@] \in CellTypes
  BY <1>6 DEF CellTypes
<1>8. cell' = [cell EXCEPT ![focus] = [cell[focus] EXCEPT !.collapsed = ~@]]
  BY DEF ToggleFold
<1>9. cell' \in [Ids -> CellTypes]
  BY <1>7, <1>8 DEF CursorInv
<1>10. UNCHANGED <<cells, active, bookmarks, focus, mode>> /\ mode = "notebook"
  BY DEF ToggleFold, Key
<1>. QED  BY <1>9, <1>10 DEF CursorInv, IdsAreUnique, FocusIsReal, BookmarksResolve,
                             EditsCommands
-----------------------------------------------------------------------------

(* Invariance. *)

\* A position of the list is a cell of the session.
LEMMA PositionsAreCells ==
  ASSUME cells \in Seq(Ids), NEW i \in 1 .. Len(cells)
  PROVE  cells[i] \in Range(cells)
BY DEF Range

LEMMA InitHolds == Init => IInv
<1> SUFFICES ASSUME Init PROVE IInv
  OBVIOUS
<1>1. PICK c \in Ids : cells = <<c>> /\ active = c /\ focus = c
  BY DEF Init
<1>2. cells \in Seq(Ids) /\ DOMAIN cells = {1} /\ cells[1] = c
  BY <1>1
<1>3. IdsAreUnique /\ FocusIsReal
  BY <1>1, <1>2 DEF IdsAreUnique, IsInjective, FocusIsReal, Range
<1>4. Command \in CellTypes /\ Command.kind = "command"
  BY DEF CellTypes, Command, NewOf
<1>5. cell \in [Ids -> CellTypes] /\ EditsCommands
  BY <1>1, <1>4, ConstantsAssumption DEF Init, EditsCommands
<1>6. bookmarks \in [Names -> Ids \cup {NoCell}] /\ BookmarksResolve
  BY DEF Init, BookmarksResolve
<1>7. mode \in Modes /\ AppInv
  <2>1. menuOpen \in BOOLEAN /\ submitted \in Ids \cup {NoCell} /\ mode \in Modes
    BY DEF Init, Modes
  <2>2. pending \in Seq(Ids)
    BY EmptySeq DEF Init
  <2>. QED  BY <2>1, <2>2 DEF AppInv
<1>. QED  BY <1>2, <1>3, <1>5, <1>6, <1>7 DEF IInv, CursorInv

\* The arrows and the heading keys land on cells of the session.
LEMMA MovesKeep ==
  ASSUME IInv,
         MoveUp \/ MoveDown \/ MoveToTop \/ MoveToBottom \/ PrevHeading
           \/ NextParentHeading \/ PrevParentHeading
           \/ \E levels : NextHeading(levels)
  PROVE  IInv'
<1>1. cells \in Seq(Ids) /\ DOMAIN cells = 1 .. Len(cells) /\ Len(cells) \in Nat
      /\ CursorInv /\ AppInv
  BY DEF IInv, CursorInv
<1>2. Key("notebook")
  BY DEF MoveUp, MoveDown, MoveToTop, MoveToBottom, PrevHeading, NextParentHeading,
         PrevParentHeading, NextHeading
<1>3. AppInv'
  BY <1>1, <1>2 DEF AppInv, Key
<1>4. Len(List) = Len(cells)
  BY <1>1 DEF List
<1>5. focus # NoCell => Index(focus) \in 1 .. Len(cells)
  BY <1>1, IndexFinds DEF CursorInv, FocusIsReal
<1>6. ASSUME NEW i \in 1 .. Len(cells), FocusCell(cells[i])
      PROVE  CursorInv'
  BY <1>1, <1>6, PositionsAreCells, FocusKeeps
<1>7. ASSUME MoveUp PROVE CursorInv'
  BY <1>1, <1>6, <1>7 DEF MoveUp, Greatest
<1>8. ASSUME MoveDown PROVE CursorInv'
  BY <1>1, <1>6, <1>8 DEF MoveDown, Least
<1>9. ASSUME MoveToTop PROVE CursorInv'
  BY <1>1, <1>6, <1>9, EmptySeq DEF MoveToTop
<1>10. ASSUME MoveToBottom PROVE CursorInv'
  <2>1. Len(cells) \in 1 .. Len(cells)
    BY <1>1, <1>10, EmptySeq DEF MoveToBottom
  <2>. QED  BY <1>6, <1>10, <2>1 DEF MoveToBottom, Last
<1>11. ASSUME PrevHeading PROVE CursorInv'
  <2>1. PICK i \in HeadingBefore(List, Index(focus), Levels) : FocusCell(cells[i])
    BY <1>11 DEF PrevHeading
  <2>2. focus # NoCell
    BY <1>11 DEF PrevHeading
  <2>3. i \in 1 .. Len(cells)
    BY <1>1, <1>5, <2>1, <2>2 DEF HeadingBefore, Greatest
  <2>. QED  BY <1>6, <2>1, <2>3
<1>12. ASSUME PrevParentHeading PROVE CursorInv'
  <2>1. PICK i \in HeadingBefore(List, Index(focus), ShallowerLevels) : FocusCell(cells[i])
    BY <1>12 DEF PrevParentHeading
  <2>2. focus # NoCell
    BY <1>12 DEF PrevParentHeading
  <2>3. i \in 1 .. Len(cells)
    BY <1>1, <1>5, <2>1, <2>2 DEF HeadingBefore, Greatest
  <2>. QED  BY <1>6, <2>1, <2>3
<1>13. ASSUME NextParentHeading PROVE CursorInv'
  <2>1. PICK i \in HeadingAfter(List, Index(focus), ShallowerLevels) : FocusCell(cells[i])
    BY <1>13 DEF NextParentHeading
  <2>2. focus # NoCell
    BY <1>13 DEF NextParentHeading
  <2>3. i \in 1 .. Len(cells)
    BY <1>1, <1>4, <1>5, <2>1, <2>2 DEF HeadingAfter, Least
  <2>. QED  BY <1>6, <2>1, <2>3
<1>14. ASSUME NEW levels, NextHeading(levels) PROVE CursorInv'
  <2>1. PICK i \in HeadingAfter(List, Index(focus), levels) : FocusCell(cells[i])
    BY <1>14 DEF NextHeading
  <2>2. focus # NoCell
    BY <1>14 DEF NextHeading
  <2>3. i \in 1 .. Len(cells)
    BY <1>1, <1>4, <1>5, <2>1, <2>2 DEF HeadingAfter, Least
  <2>. QED  BY <1>6, <2>1, <2>3
<1>. QED  BY <1>3, <1>7, <1>8, <1>9, <1>10, <1>11, <1>12, <1>13, <1>14 DEF IInv

\* The keys that edit the list.
LEMMA EditsKeep ==
  ASSUME IInv,
         ToggleFold \/ NewCell \/ DeleteCell \/ DuplicateCell \/ SubmitText
           \/ \E up \in BOOLEAN : MoveCell(up)
  PROVE  IInv'
<1>1. CursorInv /\ AppInv
  BY DEF IInv
<1>2. Key("notebook") \/ Key("text_input")
  BY DEF ToggleFold, NewCell, DeleteCell, DuplicateCell, SubmitText, MoveCell
<1>3. AppInv'
  BY <1>1, <1>2 DEF AppInv, Key
<1>4. ASSUME ToggleFold PROVE CursorInv'
  BY <1>1, <1>4, FoldKeeps
<1>5. ASSUME NewCell PROVE CursorInv'
  BY <1>1, <1>5, AppendKeeps DEF NewCell, CellTypes, Command, NewOf
<1>6. ASSUME DeleteCell PROVE CursorInv'
  BY <1>1, <1>6, RemoveKeeps DEF DeleteCell
<1>7. ASSUME DuplicateCell PROVE CursorInv'
  BY <1>1, <1>7, DuplicateKeeps DEF DuplicateCell
<1>8. ASSUME SubmitText PROVE CursorInv'
  <2> DEFINE i == IF focus = NoCell THEN Len(cells) + 1 ELSE Index(focus) + 1
  <2>1. PICK c \in Fresh : AddCell(c, i, Text) /\ Land(c, "notebook")
    BY <1>8 DEF SubmitText
  <2>2. cells \in Seq(Ids) /\ Len(cells) \in Nat
    BY <1>1 DEF CursorInv
  <2>3. focus # NoCell => Index(focus) \in 1 .. Len(cells)
    BY <1>1, <2>2, IndexFinds DEF CursorInv, FocusIsReal
  <2>4. i \in 1 .. Len(cells) + 1
    BY <2>2, <2>3
  <2>. QED  BY <1>1, <2>1, <2>4, AddKeeps DEF CellTypes
<1>9. ASSUME NEW up \in BOOLEAN, MoveCell(up) PROVE CursorInv'
  BY <1>1, <1>9, MoveKeeps
<1>. QED  BY <1>3, <1>4, <1>5, <1>6, <1>7, <1>8, <1>9 DEF IInv

\* The keys that change the mode only.
LEMMA ModesKeep ==
  ASSUME IInv,
         EnterInput \/ ViewOutput \/ BeginTextInput \/ OpenSettings \/ OpenEventLog
           \/ ExitInput \/ AbandonText \/ ExitOutput \/ CloseSettings
           \/ CloseEventLog \/ JumpToBinding
  PROVE  IInv'
<1>1. CursorInv /\ AppInv
  BY DEF IInv
<1>2. \E m \in Modes : Key(m)
  BY DEF EnterInput, ViewOutput, BeginTextInput, OpenSettings, OpenEventLog, ExitInput,
         AbandonText, ExitOutput, CloseSettings, CloseEventLog, JumpToBinding, Modes
<1>3. AppInv'
  BY <1>1, <1>2 DEF AppInv, Key
<1>4. ASSUME EnterInput PROVE CursorInv'
  BY <1>1, <1>4, EnterKeeps DEF EnterInput
<1>5. ASSUME ~EnterInput PROVE CursorInv'
  <2>1. \E m \in Modes \ {"input"} : ToMode(m)
    BY <1>5 DEF ViewOutput, BeginTextInput, OpenSettings, OpenEventLog, ExitInput,
         AbandonText, ExitOutput, CloseSettings, CloseEventLog, JumpToBinding, Modes
  <2>. QED  BY <1>1, <2>1, ModeKeeps
<1>. QED  BY <1>3, <1>4, <1>5 DEF IInv

\* Enter in INPUT mode: a command, a meta-command, an ambient one; from the
\* keyboard or from the menu.
LEMMA SubmitsKeep ==
  ASSUME IInv,
         MetaCommand \/ AmbientCommand
           \/ \E blank \in BOOLEAN : Submit(blank) \/ MenuSubmit(blank)
  PROVE  IInv'
<1>1. CursorInv /\ AppInv
  BY DEF IInv
<1>2. mode = "input"
  BY DEF MetaCommand, AmbientCommand, Submit, MenuSubmit, Key
<1>3. focus \in Range(cells) /\ focus \in Ids /\ focus = active
  <2>1. focus \in Range(cells) /\ focus = active
    BY <1>1, <1>2 DEF CursorInv, EditsCommands, FocusIsReal
  <2>. QED  BY <1>1, <2>1, RangeOfSeq DEF CursorInv
<1>4. CASE MetaCommand
  <2>1. AppInv'
    BY <1>1, <1>4 DEF MetaCommand, Key, AppInv
  <2>2. ASSUME ToMode("settings") PROVE CursorInv'
    BY <1>1, <2>2, ModeKeeps DEF Modes
  <2>3. ASSUME ToMode("notebook") PROVE CursorInv'
    BY <1>1, <2>3, ModeKeeps DEF Modes
  <2>4. ASSUME RemoveFocused PROVE CursorInv'
    BY <1>1, <2>4, RemoveKeeps
  <2>5. ASSUME DuplicateFocused PROVE CursorInv'
    BY <1>1, <2>5, DuplicateKeeps
  <2>6. ASSUME NEW l \in Levels, AppendCell(Heading(l), "notebook") PROVE CursorInv'
    BY <1>1, <2>6, AppendKeeps DEF CellTypes, Heading, NewOf
  <2>7. ASSUME AppendCell(Text, "notebook") PROVE CursorInv'
    BY <1>1, <2>7, AppendKeeps DEF CellTypes
  <2>8. ASSUME NEW n \in Names, bookmarks[n] # NoCell, FocusCell(bookmarks[n])
        PROVE  CursorInv'
    BY <1>1, <2>8, FocusKeeps DEF CursorInv, BookmarksResolve
  <2>. QED  BY <1>4, <2>1, <2>2, <2>3, <2>4, <2>5, <2>6, <2>7, <2>8 DEF MetaCommand, IInv
<1>5. CASE AmbientCommand
  <2>1. AppInv'
    BY <1>1, <1>5 DEF AmbientCommand, Key, AppInv
  <2>2. ASSUME NEW n \in Names, NEW c \in {focus, NoCell},
               bookmarks' = [bookmarks EXCEPT ![n] = c],
               UNCHANGED <<cells, cell, active, focus, mode>>
        PROVE  CursorInv'
    <3>1. bookmarks' \in [Names -> Ids \cup {NoCell}] /\ BookmarksResolve'
      BY <1>1, <1>3, <2>2 DEF CursorInv, BookmarksResolve
    <3>. QED  BY <1>1, <2>2, <3>1 DEF CursorInv, IdsAreUnique, FocusIsReal, EditsCommands
  <2>3. ASSUME ToMode("event_log") PROVE CursorInv'
    BY <1>1, <2>3, ModeKeeps DEF Modes
  <2>. QED  BY <1>5, <2>1, <2>2, <2>3 DEF AmbientCommand, IInv
<1>6. ASSUME NEW blank \in BOOLEAN, Submit(blank) \/ MenuSubmit(blank) PROVE IInv'
  <2>1. CursorInv'
    BY <1>1, <1>6, SubmitKeeps DEF Submit, MenuSubmit
  <2>2. Handed(blank) \in Ids \cup {NoCell} /\ <<focus>> \in Seq(Ids)
    BY <1>3 DEF Handed
  <2>3. AppInv'
    BY <1>1, <1>6, <2>2 DEF Submit, MenuSubmit, AppInv
  <2>. QED  BY <2>1, <2>3 DEF IInv
<1>. QED  BY <1>4, <1>5, <1>6

\* The menu, the driver and a restart.
LEMMA RestKeeps ==
  ASSUME IInv,
         OpenMenu \/ CloseMenu \/ MenuEnterInput \/ MenuViewOutput \/ MenuLeave
           \/ Drain \/ Reopen
  PROVE  IInv'
<1>1. CursorInv /\ AppInv
  BY DEF IInv
<1>2. CASE OpenMenu \/ CloseMenu \/ Drain
  <2>1. UNCHANGED <<cells, cell, active, bookmarks, focus, mode>>
    BY <1>2 DEF OpenMenu, CloseMenu, Drain, session
  <2>2. CursorInv'
    BY <1>1, <2>1 DEF CursorInv, IdsAreUnique, FocusIsReal, BookmarksResolve, EditsCommands
  <2>3. menuOpen' \in BOOLEAN /\ submitted' \in Ids \cup {NoCell}
    BY <1>1, <1>2 DEF OpenMenu, CloseMenu, Drain, AppInv
  <2>4. pending' \in Seq(Ids)
    BY <1>1, <1>2, EmptySeq DEF OpenMenu, CloseMenu, Drain, AppInv
  <2>. QED  BY <2>2, <2>3, <2>4 DEF IInv, AppInv
<1>3. CASE MenuEnterInput
  BY <1>1, <1>3, EnterKeeps DEF MenuEnterInput, MenuItem, IInv, AppInv
<1>4. CASE MenuViewOutput
  BY <1>1, <1>4, ModeKeeps DEF MenuViewOutput, MenuItem, IInv, AppInv, Modes
<1>5. CASE MenuLeave
  BY <1>1, <1>5, ModeKeeps DEF MenuLeave, MenuItem, IInv, AppInv, Modes
<1>6. CASE Reopen
  <2>1. UNCHANGED <<cells, cell, bookmarks, pending>> /\ mode' = "notebook"
        /\ menuOpen' = FALSE /\ submitted' = NoCell
    BY <1>6 DEF Reopen, Land
  <2>2. active' = active /\ focus' = focus
    <3>1. active = focus /\ (active # NoCell \/ cells = <<>>)
      BY <1>1, RangeOfSeq, ConstantsAssumption DEF CursorInv, FocusIsReal
    <3>. QED  BY <1>6, <3>1 DEF Reopen, Land
  <2>. QED  BY <1>1, <2>1, <2>2 DEF IInv, CursorInv, AppInv, IdsAreUnique, FocusIsReal,
              BookmarksResolve, EditsCommands, Modes
<1>. QED  BY <1>2, <1>3, <1>4, <1>5, <1>6

LEMMA StepKeeps == IInv /\ [Next]_vars => IInv'
<1> SUFFICES ASSUME IInv, [Next]_vars PROVE IInv'
  OBVIOUS
<1>1. CASE UNCHANGED vars
  BY <1>1 DEF vars, IInv, CursorInv, AppInv, IdsAreUnique, FocusIsReal, BookmarksResolve,
       EditsCommands
<1>2. CASE Next
  BY <1>2, MovesKeep, EditsKeep, ModesKeep, SubmitsKeep, RestKeeps DEF Next
<1>. QED  BY <1>1, <1>2

\* The session, the cursor, the bookmarks and the mode stay in agreement
\* whatever keys are pressed.
THEOREM Invariance == Spec => []IInv
BY InitHolds, StepKeeps, PTL DEF Spec

-----------------------------------------------------------------------------

(* The properties. *)

\* Every variable stays in its type; only headings are ever collapsed.
THEOREM TypeCorrect == Spec => []TypeOK
<1>1. IInv => TypeOK
  <2> SUFFICES ASSUME IInv PROVE TypeOK
    OBVIOUS
  <2>1. focus \in Ids \cup {NoCell}
    BY RangeOfSeq DEF IInv, CursorInv, FocusIsReal
  <2>. QED  BY <2>1 DEF IInv, CursorInv, AppInv, TypeOK, FocusIsReal
<1>. QED  BY <1>1, Invariance, PTL

\* No cell is in the session twice.
THEOREM CellsAreUnique == Spec => []IdsAreUnique
<1>1. IInv => IdsAreUnique
  BY DEF IInv, CursorInv
<1>. QED  BY <1>1, Invariance, PTL

\* The focus is a cell of the session and the one the session calls active.
THEOREM FocusStaysReal == Spec => []FocusIsReal
<1>1. IInv => FocusIsReal
  BY DEF IInv, CursorInv
<1>. QED  BY <1>1, Invariance, PTL

\* No bookmark outlives its cell.
THEOREM BookmarksStayReal == Spec => []BookmarksResolve
<1>1. IInv => BookmarksResolve
  BY DEF IInv, CursorInv
<1>. QED  BY <1>1, Invariance, PTL

\* The input buffer is only ever that of a command.
THEOREM OnlyCommandsAreEdited == Spec => []EditsCommands
<1>1. IInv => EditsCommands
  BY DEF IInv, CursorInv
<1>. QED  BY <1>1, Invariance, PTL

\* The levels of the outline are the levels of the cells.
LEMMA ListLevels ==
  ASSUME IInv, NEW i \in 1 .. Len(cells)
  PROVE  List[i].level \in Levels \cup {0} /\ List[i].level \in Nat
<1>1. cells[i] \in Ids /\ DOMAIN cells = 1 .. Len(cells)
  BY DEF IInv, CursorInv
<1>2. cell[cells[i]] \in CellTypes
  BY <1>1 DEF IInv, CursorInv
<1>3. cell[cells[i]].level \in Levels \cup {0}
  BY <1>2 DEF CellTypes, Command, Text, NewOf
<1>4. List[i] = cell[cells[i]]
  BY <1>1 DEF List
<1>5. \A l \in Levels \cup {0} : l \in Nat
  BY ConstantsAssumption
<1>. QED  BY <1>3, <1>4, <1>5

\* The heading that { lands on has the cell in its section: every heading in
\* between is at the level of the nearest one or deeper.
LEMMA ParentEncloses ==
  ASSUME IInv, NEW i \in 1 .. Len(cells), i = Index(focus),
         NEW h \in HeadingBefore(List, i, ShallowerLevels)
  PROVE  InScope(List, h, i)
<1>1. Len(cells) \in Nat /\ \A j \in 1 .. Len(cells) :
        List[j].level \in Levels \cup {0} /\ List[j].level \in Nat
  BY ListLevels DEF IInv, CursorInv
<1>2. /\ h \in 1 .. i - 1 /\ List[h].level \in ShallowerLevels
      /\ \A j \in 1 .. i - 1 : List[j].level \in ShallowerLevels => j <= h
  BY DEF HeadingBefore, Greatest
<1>3. PICK e \in EnclosingHeading(List, i) : List[h].level < List[e].level
  BY <1>2 DEF ShallowerLevels
<1>4. /\ e \in 1 .. i /\ List[e].level > 0
      /\ \A j \in 1 .. i : List[j].level > 0 => j <= e
  BY DEF EnclosingHeading, Greatest, IsHeading
<1>5. \A l \in Levels : l < List[e].level => l \in ShallowerLevels
  BY DEF ShallowerLevels
<1>6. List[h].level > 0
  <2>1. List[h].level \in Levels
    BY <1>2 DEF ShallowerLevels
  <2>2. \A l \in Levels : l > 0
    BY ConstantsAssumption
  <2>. QED  BY <2>1, <2>2
<1>7. ASSUME NEW j \in h + 1 .. i, List[j].level > 0
      PROVE  List[j].level > List[h].level
  <2>1. j \in 1 .. Len(cells) /\ h \in 1 .. Len(cells) /\ j > h /\ j <= e
    BY <1>1, <1>2, <1>4, <1>7
  <2>2. CASE j = e
    BY <1>3, <2>2
  <2>3. CASE j < e
    <3>1. j \in 1 .. i - 1 /\ ~(j <= h)
      BY <1>1, <1>2, <1>4, <2>1, <2>3
    <3>2. List[j].level \notin ShallowerLevels
      BY <1>2, <3>1
    <3>3. List[j].level \in Levels
      BY <1>1, <1>7, <2>1
    <3>4. ~(List[j].level < List[e].level)
      BY <1>5, <3>2, <3>3
    <3>. QED  BY <1>1, <1>3, <1>4, <2>1, <3>4
  <2>. QED  BY <1>1, <1>4, <2>1, <2>2, <2>3
<1>. QED  BY <1>1, <1>2, <1>6, <1>7 DEF InScope, IsHeading

\* { lands on a heading that has the cell it left in its section.
THEOREM ClimbsTheOutline == Spec => UpTheOutline
<1>1. IInv /\ [Next]_vars =>
        [PrevParentHeading => InScope(List, Index(focus'), Index(focus))]_vars
  <2> SUFFICES ASSUME IInv, PrevParentHeading
               PROVE  InScope(List, Index(focus'), Index(focus))
    OBVIOUS
  <2>1. cells \in Seq(Ids) /\ IdsAreUnique /\ Len(cells) \in Nat
    BY DEF IInv, CursorInv
  <2>2. Index(focus) \in 1 .. Len(cells)
    BY <2>1, IndexFinds DEF IInv, CursorInv, FocusIsReal, PrevParentHeading
  <2>3. PICK h \in HeadingBefore(List, Index(focus), ShallowerLevels) : focus' = cells[h]
    BY DEF PrevParentHeading, FocusCell, Land
  <2>4. h \in 1 .. Len(cells)
    BY <2>1, <2>2 DEF HeadingBefore, Greatest
  <2>5. Index(focus') = h
    BY <2>1, <2>3, <2>4, IndexFinds
  <2>6. InScope(List, h, Index(focus))
    BY <2>2, ParentEncloses
  <2>. QED  BY <2>5, <2>6
<1>. QED  BY <1>1, Invariance, PTL DEF Spec, UpTheOutline
-----------------------------------------------------------------------------
(* What a key can do to the list. *)

\* The keys that leave the list alone, though they may fold a section of it.
Untouched ==
  /\ cells' = cells
  /\ \A c \in Ids : cell'[c].kind = cell[c].kind /\ cell'[c].level = cell[c].level

\* The keys that put in a fresh cell.
Adds == \E c \in Fresh, i \in 1 .. Len(cells) + 1 : \E new : AddCell(c, i, new)

\* A key leaves the list alone or edits it in one of three ways.
LEMMA OneEdit ==
  ASSUME IInv, [Next]_vars
  PROVE  Untouched \/ Adds \/ RemoveFocused \/ \E up \in BOOLEAN : MoveCell(up)
<1>1. CursorInv /\ cells \in Seq(Ids) /\ Len(cells) \in Nat /\ cell \in [Ids -> CellTypes]
  BY DEF IInv, CursorInv
<1>2. focus # NoCell => focus \in Ids /\ Index(focus) + 1 \in 1 .. Len(cells) + 1
  BY <1>1, IndexFinds, RangeOfSeq DEF CursorInv, FocusIsReal
<1>3. UNCHANGED <<cells, cell>> => Untouched
  BY DEF Untouched
<1>4. ASSUME NEW new, NEW m, AppendCell(new, m) PROVE Adds
  BY <1>1, <1>4 DEF AppendCell, Adds
<1>5. ASSUME DuplicateFocused PROVE Adds
  BY <1>2, <1>5 DEF DuplicateFocused, Adds
<1>6. ASSUME NEW m, ToMode(m) PROVE Untouched
  BY <1>3, <1>6 DEF ToMode, session
<1>7. ASSUME NEW c, FocusCell(c) PROVE Untouched
  BY <1>3, <1>7 DEF FocusCell
<1>8. CASE MoveUp \/ MoveDown \/ MoveToTop \/ MoveToBottom \/ PrevHeading
             \/ NextParentHeading \/ PrevParentHeading \/ \E levels : NextHeading(levels)
  BY <1>7, <1>8 DEF MoveUp, MoveDown, MoveToTop, MoveToBottom, PrevHeading,
     NextParentHeading, PrevParentHeading, NextHeading
<1>9. CASE ToggleFold
  <2>1. cells' = cells /\ cell' = [cell EXCEPT ![focus].collapsed = ~@]
    BY <1>9 DEF ToggleFold
  <2>2. \A c \in Ids : cell'[c].kind = cell[c].kind /\ cell'[c].level = cell[c].level
    BY <1>1, <2>1
  <2> QED BY <2>1, <2>2 DEF Untouched
<1>10. CASE NewCell \/ DuplicateCell \/ DeleteCell
  BY <1>4, <1>5, <1>10 DEF NewCell, DuplicateCell, DeleteCell
<1>11. CASE SubmitText
  <2>1. (IF focus = NoCell THEN Len(cells) + 1 ELSE Index(focus) + 1) \in 1 .. Len(cells) + 1
    BY <1>1, <1>2
  <2> QED BY <1>11, <2>1 DEF SubmitText, Adds
<1>12. CASE EnterInput \/ ViewOutput \/ BeginTextInput \/ OpenSettings \/ OpenEventLog
             \/ ExitInput \/ AbandonText \/ ExitOutput \/ CloseSettings \/ CloseEventLog
             \/ JumpToBinding \/ MenuEnterInput \/ MenuViewOutput \/ MenuLeave
  BY <1>6, <1>12 DEF EnterInput, ViewOutput, BeginTextInput, OpenSettings, OpenEventLog,
     ExitInput, AbandonText, ExitOutput, CloseSettings, CloseEventLog, JumpToBinding,
     MenuEnterInput, MenuViewOutput, MenuLeave, EnterInputMode
<1>13. ASSUME NEW blank \in BOOLEAN, SubmitBuffer(blank) PROVE Untouched \/ Adds
  BY <1>4, <1>6, <1>13 DEF SubmitBuffer
<1>14. CASE \E blank \in BOOLEAN : Submit(blank) \/ MenuSubmit(blank)
  BY <1>13, <1>14 DEF Submit, MenuSubmit
<1>15. CASE MetaCommand
  BY <1>4, <1>5, <1>6, <1>7, <1>15 DEF MetaCommand
<1>16. CASE AmbientCommand
  BY <1>3, <1>6, <1>16 DEF AmbientCommand
<1>17. CASE OpenMenu \/ CloseMenu \/ Drain \/ Reopen \/ UNCHANGED vars
  BY <1>3, <1>17 DEF OpenMenu, CloseMenu, Drain, Reopen, vars, session
<1> QED
  BY <1>8, <1>9, <1>10, <1>11, <1>12, <1>14, <1>15, <1>16, <1>17 DEF Next

\* Where an element of a sequence of unique ones is found.
LEMMA FoundAt ==
  ASSUME NEW S, NEW s \in Seq(S), IsInjective(s), NEW i \in 1 .. Len(s)
  PROVE  (CHOOSE j \in DOMAIN s : s[j] = s[i]) = i
BY DEF IsInjective

\* One element more or less, or none.
LEMMA OneAtMost ==
  ASSUME NEW gone, NEW come,
         \/ gone = {} /\ come = {}
         \/ gone = {} /\ \E c : come = {c}
         \/ come = {} /\ \E c : gone = {c}
  PROVE  Cardinality(gone) + Cardinality(come) <= 1
<1>1. Cardinality({}) = 0 /\ \A c : Cardinality({c}) = 1
  BY FS_EmptySet, FS_Singleton
<1>2. \/ Cardinality(gone) = 0 /\ Cardinality(come) = 0
      \/ Cardinality(gone) = 0 /\ Cardinality(come) = 1
      \/ Cardinality(gone) = 1 /\ Cardinality(come) = 0
  BY <1>1, Zenon
<1> QED BY <1>2

\* What LocalEdit asks for, in terms of the two lists.
LEMMA LocalBy ==
  ASSUME \/ Range(cells) = Range(cells')
         \/ \E c : c \notin Range(cells) /\ Range(cells') = Range(cells) \cup {c}
         \/ \E c \in Range(cells) : Range(cells') = Range(cells) \ {c},
         \A c \in Range(cells) \cap Range(cells') :
           cell'[c].kind = cell[c].kind /\ cell'[c].level = cell[c].level,
         \A c, d \in (Range(cells) \cap Range(cells')) \ {focus} :
           Index(c) < Index(d) => Index(c)' < Index(d)'
  PROVE  LocalEdit
<1> DEFINE kept == Range(cells) \cap Range(cells')
           gone == Range(cells) \ kept
           come == Range(cells') \ kept
<1>1. \/ gone = {} /\ come = {}
      \/ gone = {} /\ \E c : come = {c}
      \/ come = {} /\ \E c : gone = {c}
  <2>1. CASE Range(cells) = Range(cells')
    BY <2>1
  <2>2. ASSUME NEW c, c \notin Range(cells), Range(cells') = Range(cells) \cup {c}
        PROVE  gone = {} /\ come = {c}
    BY <2>2
  <2>3. ASSUME NEW c \in Range(cells), Range(cells') = Range(cells) \ {c}
        PROVE  come = {} /\ gone = {c}
    BY <2>3
  <2> QED BY <2>1, <2>2, <2>3
<1>2. Cardinality(gone) + Cardinality(come) <= 1
  <2> HIDE DEF gone, come
  <2> QED BY <1>1, OneAtMost
<1> QED BY <1>2 DEF LocalEdit

\* A key that leaves the list alone.
LEMMA UntouchedIsLocal ==
  ASSUME IInv, Untouched
  PROVE  LocalEdit
<1>1. cells' = cells /\ cells \in Seq(Ids) /\ Range(cells) \subseteq Ids
  BY RangeOfSeq DEF Untouched, IInv, CursorInv
<1>2. Range(cells') = Range(cells)
  BY <1>1
<1>3. \A c : Index(c)' = Index(c)
  BY <1>1 DEF Index
<1> QED BY <1>1, <1>2, <1>3, LocalBy DEF Untouched

\* A fresh cell only moves on what comes after it.
LEMMA AddIsLocal ==
  ASSUME IInv, Adds
  PROVE  LocalEdit
<1>1. PICK e \in Fresh, i \in 1 .. Len(cells) + 1 : \E new : AddCell(e, i, new)
  BY DEF Adds
<1>2. /\ cells \in Seq(Ids) /\ IsInjective(cells) /\ e \in Ids \ Range(cells)
      /\ Range(cells) \subseteq Ids /\ Len(cells) \in Nat /\ cell \in [Ids -> CellTypes]
  BY RangeOfSeq DEF IInv, CursorInv, IdsAreUnique, Fresh
<1>3. cells' = InsertAt(cells, i, e)
  BY <1>1 DEF AddCell
<1>4. /\ cells' \in Seq(Ids) /\ Len(cells') = Len(cells) + 1
      /\ \A j \in 1 .. Len(cells) + 1 :
           cells'[j] = IF j < i THEN cells[j] ELSE IF j = i THEN e ELSE cells[j - 1]
  <2> DEFINE t == InsertAt(cells, i, e)
  <2>1. /\ t \in Seq(Ids) /\ Len(t) = Len(cells) + 1
        /\ \A j \in 1 .. Len(cells) + 1 :
             t[j] = IF j < i THEN cells[j] ELSE IF j = i THEN e ELSE cells[j - 1]
    BY <1>2, InsertElements
  <2>2. cells' = t
    BY <1>3
  <2> HIDE DEF t
  <2> QED BY <2>1, <2>2
<1>5. IsInjective(cells') /\ Range(cells') = Range(cells) \cup {e}
  BY <1>2, <1>3, InsertNew
<1>6. \A c \in Range(cells) : cell'[c] = cell[c]
  BY <1>1, <1>2 DEF AddCell
<1>7. ASSUME NEW c \in Range(cells)
      PROVE  Index(c) \in 1 .. Len(cells)
             /\ Index(c)' = IF Index(c) < i THEN Index(c) ELSE Index(c) + 1
  <2> DEFINE k == Index(c)
             k1 == IF k < i THEN k ELSE k + 1
  <2>1. k \in 1 .. Len(cells) /\ cells[k] = c
    BY <1>2, IndexFinds
  <2> HIDE DEF k
  <2>2. k1 \in 1 .. Len(cells') /\ cells'[k1] = c
    BY <1>2, <1>4, <2>1
  <2>3. (CHOOSE j \in DOMAIN cells' : cells'[j] = cells'[k1]) = k1
    <3> HIDE DEF k1
    <3> QED BY <1>4, <1>5, <2>2, FoundAt
  <2>4. Index(c)' = k1
    BY <2>2, <2>3 DEF Index
  <2> QED BY <2>1, <2>4 DEF k
<1>8. \A c, d \in Range(cells) : Index(c) < Index(d) => Index(c)' < Index(d)'
  <2> SUFFICES ASSUME NEW c \in Range(cells), NEW d \in Range(cells), Index(c) < Index(d)
               PROVE  Index(c)' < Index(d)'
    OBVIOUS
  <2> QED BY <1>2, <1>7
<1>9. Range(cells) \cap Range(cells') = Range(cells)
  BY <1>5
<1> QED BY <1>2, <1>5, <1>6, <1>8, <1>9, LocalBy

\* A delete closes the gap.
LEMMA RemoveIsLocal ==
  ASSUME IInv, RemoveFocused
  PROVE  LocalEdit
<1> DEFINE i == Index(focus)
<1>1. /\ cells \in Seq(Ids) /\ IsInjective(cells) /\ focus \in Range(cells)
      /\ Range(cells) \subseteq Ids /\ Len(cells) \in Nat /\ cell \in [Ids -> CellTypes]
  BY RangeOfSeq DEF IInv, CursorInv, IdsAreUnique, FocusIsReal, RemoveFocused
<1>2. i \in 1 .. Len(cells) /\ cells[i] = focus
  BY <1>1, IndexFinds
<1>3. cells' = RemoveAt(cells, i) /\ cell' = [cell EXCEPT ![focus] = BlankCell]
  BY DEF RemoveFocused
<1> HIDE DEF i
<1>4. /\ cells' \in Seq(Ids) /\ Len(cells') = Len(cells) - 1
      /\ \A j \in 1 .. Len(cells) - 1 : cells'[j] = IF j < i THEN cells[j] ELSE cells[j + 1]
  BY <1>1, <1>2, <1>3, RemoveElements
<1>5. IsInjective(cells') /\ Range(cells') = Range(cells) \ {focus}
  BY <1>1, <1>2, <1>3, RemoveOne
<1>6. \A c \in Range(cells) \ {focus} : cell'[c] = cell[c]
  BY <1>1, <1>3
<1>7. ASSUME NEW c \in Range(cells) \ {focus}
      PROVE  Index(c) \in 1 .. Len(cells) /\ Index(c) # i
             /\ Index(c)' = IF Index(c) < i THEN Index(c) ELSE Index(c) - 1
  <2> DEFINE k == Index(c)
             k1 == IF k < i THEN k ELSE k - 1
  <2>1. k \in 1 .. Len(cells) /\ cells[k] = c
    BY <1>1, IndexFinds
  <2> HIDE DEF k
  <2>2. k # i
    BY <1>2, <2>1
  <2>3. k1 \in 1 .. Len(cells') /\ cells'[k1] = c
    BY <1>1, <1>2, <1>4, <2>1, <2>2
  <2>4. (CHOOSE j \in DOMAIN cells' : cells'[j] = cells'[k1]) = k1
    <3> HIDE DEF k1
    <3> QED BY <1>4, <1>5, <2>3, FoundAt
  <2>5. Index(c)' = k1
    BY <2>3, <2>4 DEF Index
  <2> QED BY <2>1, <2>2, <2>5 DEF k
<1>8. \A c, d \in Range(cells) \ {focus} : Index(c) < Index(d) => Index(c)' < Index(d)'
  <2> SUFFICES ASSUME NEW c \in Range(cells) \ {focus}, NEW d \in Range(cells) \ {focus},
                      Index(c) < Index(d)
               PROVE  Index(c)' < Index(d)'
    OBVIOUS
  <2> QED BY <1>2, <1>7
<1> QED BY <1>1, <1>5, <1>6, <1>8, LocalBy

\* A move passes over a cell, and the cells it passes keep their order.
LEMMA MoveIsLocal ==
  ASSUME IInv, NEW up \in BOOLEAN, MoveCell(up)
  PROVE  LocalEdit
<1> DEFINE old == Index(focus)
           new == IF up THEN old - 1 ELSE old + 1
           rest == RemoveAt(cells, old)
<1>1. /\ cells \in Seq(Ids) /\ IsInjective(cells) /\ focus \in Range(cells) /\ focus \in Ids
      /\ Len(cells) \in Nat
  BY RangeOfSeq DEF IInv, CursorInv, IdsAreUnique, FocusIsReal, MoveCell
<1>2. old \in 1 .. Len(cells) /\ cells[old] = focus
  BY <1>1, IndexFinds
<1>3. new \in 1 .. Len(cells) /\ cells' = InsertAt(rest, new, focus) /\ cell' = cell
  BY <1>1 DEF MoveCell
<1>4. /\ rest \in Seq(Ids) /\ Len(rest) = Len(cells) - 1
      /\ \A j \in 1 .. Len(cells) - 1 : rest[j] = IF j < old THEN cells[j] ELSE cells[j + 1]
  BY <1>1, <1>2, RemoveElements
<1>5. IsInjective(rest) /\ Range(rest) = Range(cells) \ {focus}
  BY <1>1, <1>2, RemoveOne
<1> HIDE DEF old, new, rest
<1>6. new \in 1 .. Len(rest) + 1 /\ focus \in Ids \ Range(rest)
  BY <1>1, <1>3, <1>4, <1>5
<1>7. /\ cells' \in Seq(Ids) /\ Len(cells') = Len(cells)
      /\ \A j \in 1 .. Len(cells) :
           cells'[j] = IF j < new THEN rest[j] ELSE IF j = new THEN focus ELSE rest[j - 1]
  <2>1. Len(rest) + 1 = Len(cells)
    BY <1>1, <1>4
  <2> DEFINE t == InsertAt(rest, new, focus)
  <2>2. /\ t \in Seq(Ids) /\ Len(t) = Len(rest) + 1
        /\ \A j \in 1 .. Len(rest) + 1 :
             t[j] = IF j < new THEN rest[j] ELSE IF j = new THEN focus ELSE rest[j - 1]
    BY <1>1, <1>4, <1>6, InsertElements
  <2>3. cells' = t
    BY <1>3
  <2> HIDE DEF t
  <2> QED BY <2>1, <2>2, <2>3
<1>8. IsInjective(cells') /\ Range(cells') = Range(cells)
  <2> DEFINE t == InsertAt(rest, new, focus)
  <2>1. IsInjective(t) /\ Range(t) = Range(rest) \cup {focus}
    BY <1>4, <1>5, <1>6, InsertNew
  <2>2. cells' = t
    BY <1>3
  <2> HIDE DEF t
  <2> QED BY <1>1, <1>5, <2>1, <2>2
<1> DEFINE out(k) == IF k < old THEN k ELSE k - 1
           in(k) == IF k < new THEN k ELSE k + 1
<1>9. ASSUME NEW c \in Range(cells) \ {focus}
      PROVE  Index(c) \in 1 .. Len(cells) /\ Index(c) # old /\ Index(c)' = in(out(Index(c)))
  <2> DEFINE k == Index(c)
             r == out(k)
             k1 == in(r)
  <2>1. k \in 1 .. Len(cells) /\ cells[k] = c
    BY <1>1, IndexFinds
  <2> HIDE DEF k
  <2>2. k # old
    BY <1>2, <2>1
  <2>3. r \in 1 .. Len(cells) - 1 /\ rest[r] = c
    BY <1>1, <1>2, <1>4, <2>1, <2>2
  <2> HIDE DEF r
  <2>4. k1 \in 1 .. Len(cells') /\ cells'[k1] = c
    BY <1>1, <1>3, <1>7, <2>3
  <2>5. (CHOOSE j \in DOMAIN cells' : cells'[j] = cells'[k1]) = k1
    <3> HIDE DEF k1
    <3> QED BY <1>7, <1>8, <2>4, FoundAt
  <2>6. Index(c)' = k1
    BY <2>4, <2>5 DEF Index
  <2> QED BY <2>1, <2>2, <2>6 DEF k, r
<1>10. \A c, d \in Range(cells) \ {focus} : Index(c) < Index(d) => Index(c)' < Index(d)'
  <2> SUFFICES ASSUME NEW c \in Range(cells) \ {focus}, NEW d \in Range(cells) \ {focus},
                      Index(c) < Index(d)
               PROVE  Index(c)' < Index(d)'
    OBVIOUS
  <2> QED BY <1>2, <1>3, <1>9
<1> QED BY <1>3, <1>8, <1>10, LocalBy

\* No key loses a cell that was not deleted or puts the others out of order: one comes
\* or goes at most, and the others are the cells they were (Session.add_cell,
\* remove_cell, move_cell, through every handler of the router that calls them).
THEOREM OneEditAtATime == Spec => EditsAreLocal
<1>1. IInv /\ [Next]_vars => [LocalEdit]_vars
  <2> SUFFICES ASSUME IInv, [Next]_vars PROVE LocalEdit
    OBVIOUS
  <2> QED BY OneEdit, UntouchedIsLocal, AddIsLocal, RemoveIsLocal, MoveIsLocal
<1> QED BY <1>1, Invariance, PTL DEF Spec, EditsAreLocal
-----------------------------------------------------------------------------
(* What the pass over the outline computes. It is a recursive function, and *)
(* what it gives is shown by the least position at which it would be wrong. *)

\* A set of numbers that has one has a least one.
LEMMA LeastElement ==
  ASSUME NEW S \in SUBSET Nat, S # {}
  PROVE  \E m \in S : \A n \in S : m <= n
<1> DEFINE Below == {0..n : n \in S}
<1>1. Below \subseteq FiniteSubsetsOf(Nat) /\ Below # {}
  <2>1. \A n \in S : IsFiniteSet(0..n) /\ (0..n) \subseteq Nat
    BY FS_Interval
  <2> QED
    BY <2>1 DEF FiniteSubsetsOf
<1>2. IsWellFoundedOn(StrictSubsetOrdering(Nat), FiniteSubsetsOf(Nat))
  BY FS_StrictSubsetOrderingWellFounded
<1>3. \E b \in Below : \A c \in Below : ~(<<c, b>> \in StrictSubsetOrdering(Nat))
  <2> HIDE DEF Below
  <2> QED BY <1>1, <1>2, WFMin
<1>4. PICK m \in S : \A c \in Below : ~(<<c, 0..m>> \in StrictSubsetOrdering(Nat))
  BY <1>3
<1>5. ASSUME NEW n \in S, n < m PROVE FALSE
  <2>1. 0..n \in Below
    OBVIOUS
  <2>2. 0..n \subseteq 0..m /\ 0..n # 0..m
    BY <1>5
  <2>3. <<0..n, 0..m>> \in StrictSubsetOrdering(Nat)
    <3>1. (0..n) \in SUBSET Nat /\ (0..m) \in SUBSET Nat
      OBVIOUS
    <3> QED BY <2>2, <3>1 DEF StrictSubsetOrdering
  <2> QED BY <1>4, <2>1, <2>3
<1> QED BY <1>5

\* There is a pass over every list: one over its first n cells goes on to one more.
LEMMA PassIsDefined ==
  ASSUME NEW list, Len(list) \in Nat
  PROVE  PassOver(list) =
           [i \in 0 .. Len(list) |->
              IF i = 0 THEN [out |-> {}, hideUntil |-> 0]
              ELSE PassCell(list, PassOver(list)[i - 1], i)]
<1> DEFINE Start == [out |-> {}, hideUntil |-> 0]
           IsPass(f, n) ==
             f = [i \in 0 .. n |-> IF i = 0 THEN Start ELSE PassCell(list, f[i - 1], i)]
           Without == {n \in 0 .. Len(list) : ~\E f : IsPass(f, n)}
<1>1. Without = {}
  <2> SUFFICES ASSUME Without # {} PROVE FALSE
    OBVIOUS
  <2>1. PICK n \in Without : \A k \in Without : n <= k
    <3>1. Without \in SUBSET Nat
      OBVIOUS
    <3> HIDE DEF Without
    <3> QED BY <3>1, LeastElement
  <2>2. n \in 0 .. Len(list) /\ ~\E f : IsPass(f, n)
    BY <2>1
  <2>3. CASE n = 0
    <3>1. IsPass([i \in 0 .. n |-> Start], n)
      BY <2>3
    <3> QED BY <2>2, <3>1
  <2>4. CASE n # 0
    <3>1. n - 1 \in 0 .. Len(list) /\ ~(n <= n - 1)
      BY <2>2, <2>4
    <3>2. n - 1 \notin Without
      <4> HIDE DEF Without
      <4> QED BY <2>1, <3>1
    <3> HIDE DEF IsPass
    <3>3. PICK f : IsPass(f, n - 1)
      BY <3>1, <3>2
    <3> DEFINE g == [i \in 0 .. n |-> IF i = n THEN PassCell(list, f[n - 1], n) ELSE f[i]]
    <3>4. \A i \in 0 .. n : g[i] = IF i = 0 THEN Start ELSE PassCell(list, g[i - 1], i)
      <4> SUFFICES ASSUME NEW i \in 0 .. n
                   PROVE  g[i] = IF i = 0 THEN Start ELSE PassCell(list, g[i - 1], i)
        OBVIOUS
      <4>1. CASE i = n
        BY <2>2, <2>4, <4>1
      <4>2. CASE i # n
        <5>1. i \in 0 .. n - 1 /\ g[i] = f[i] /\ (i # 0 => i - 1 \in 0 .. n /\ i - 1 # n)
          BY <2>2, <4>2
        <5>2. f[i] = IF i = 0 THEN Start ELSE PassCell(list, f[i - 1], i)
          BY <3>3, <5>1 DEF IsPass
        <5> QED BY <5>1, <5>2
      <4> QED BY <4>1, <4>2
    <3>5. g = [i \in 0 .. n |-> g[i]]
      OBVIOUS
    <3> HIDE DEF g
    <3>6. IsPass(g, n)
      BY <3>4, <3>5 DEF IsPass
    <3> QED BY <2>2, <3>6
  <2> QED BY <2>3, <2>4
<1>2. \E f : IsPass(f, Len(list))
  <2> HIDE DEF IsPass
  <2>1. Len(list) \in 0 .. Len(list) /\ Len(list) \notin Without
    <3> HIDE DEF Without
    <3> QED BY <1>1
  <2> QED BY <2>1
<1>3. PassOver(list) = CHOOSE f : IsPass(f, Len(list))
  BY DEF PassOver
<1> HIDE DEF IsPass
<1>4. IsPass(PassOver(list), Len(list))
  BY <1>2, <1>3
<1> QED BY <1>4 DEF IsPass

\* The facts about a list of cells that the outline relies on.
IsOutline(list) ==
  /\ Len(list) \in Nat
  /\ \A i \in 1 .. Len(list) : list[i].level \in Nat /\ list[i].collapsed \in BOOLEAN

\* The end of a section is where its cells end.
LEMMA ScopeEndIsMin ==
  ASSUME NEW list, IsOutline(list), NEW h \in 1 .. Len(list), IsHeading(list, h)
  PROVE  /\ ScopeEnd(list, h) \in h + 1 .. Len(list) + 1
         /\ \A i \in h + 1 .. Len(list) : i < ScopeEnd(list, h) <=> InScope(list, h, i)
<1> DEFINE Ends == {Len(list) + 1} \cup
                   {j \in h + 1 .. Len(list) :
                      IsHeading(list, j) /\ list[j].level <= list[h].level}
<1>1. Ends \in SUBSET Nat /\ Ends # {}
  BY DEF IsOutline
<1>2. PICK m \in Ends : \A n \in Ends : m <= n
  <2> HIDE DEF Ends
  <2> QED BY <1>1, LeastElement
<1>3. ScopeEnd(list, h) \in Ends /\ \A n \in Ends : ScopeEnd(list, h) <= n
  <2>1. ScopeEnd(list, h) = CHOOSE x \in Ends : \A y \in Ends : x =< y
    BY DEF ScopeEnd, Min
  <2> HIDE DEF Ends
  <2> QED BY <1>2, <2>1
<1> DEFINE end == ScopeEnd(list, h)
<1>4. end \in h + 1 .. Len(list) + 1
  BY <1>3 DEF IsOutline
<1> HIDE DEF end
<1>5. ASSUME NEW i \in h + 1 .. Len(list), i < end
      PROVE  InScope(list, h, i)
  <2>1. ASSUME NEW j \in h + 1 .. i, IsHeading(list, j)
        PROVE  list[j].level > list[h].level
    <3>1. j \in h + 1 .. Len(list) /\ ~(end <= j)
      BY <1>4, <1>5, <2>1 DEF IsOutline
    <3>2. j \notin Ends
      <4> HIDE DEF Ends
      <4> QED BY <1>3, <3>1 DEF end
    <3> QED BY <2>1, <3>1, <3>2 DEF IsOutline
  <2> QED BY <1>5, <2>1 DEF InScope, IsOutline
<1>6. ASSUME NEW i \in h + 1 .. Len(list), InScope(list, h, i)
      PROVE  i < end
  <2> SUFFICES ASSUME end <= i PROVE FALSE
    BY <1>4 DEF IsOutline
  <2>1. end \in h + 1 .. i /\ end # Len(list) + 1
    BY <1>4 DEF IsOutline
  <2>2. IsHeading(list, end) /\ list[end].level <= list[h].level
    BY <1>3, <2>1 DEF end
  <2> QED BY <1>6, <2>1, <2>2 DEF InScope, IsOutline
<1> QED BY <1>4, <1>5, <1>6 DEF end

\* A section that reaches over a heading has the whole section of that heading.
LEMMA SectionsNest ==
  ASSUME NEW list, IsOutline(list), NEW i \in 1 .. Len(list),
         NEW k \in 1 .. i - 1, NEW h \in 1 .. k - 1
  PROVE  /\ InScope(list, h, i) => InScope(list, h, k)
         /\ InScope(list, h, k) /\ InScope(list, k, i) => InScope(list, h, i)
<1>1. h \in 1 .. Len(list) /\ k \in 1 .. Len(list)
  BY DEF IsOutline
<1>2. InScope(list, h, i) => InScope(list, h, k)
  BY <1>1 DEF InScope, IsOutline
<1>3. ASSUME InScope(list, h, k), InScope(list, k, i)
      PROVE  InScope(list, h, i)
  <2>1. list[k].level > list[h].level
    BY <1>1, <1>3 DEF InScope
  <2>2. ASSUME NEW j \in h + 1 .. i, IsHeading(list, j)
        PROVE  list[j].level > list[h].level
    <3>1. CASE j <= k
      BY <1>3, <2>2, <3>1 DEF InScope
    <3>2. CASE j > k
      <4>1. list[j].level > list[k].level /\ j \in 1 .. Len(list)
        BY <1>1, <1>3, <2>2, <3>2 DEF InScope, IsOutline
      <4> QED BY <1>1, <2>1, <4>1 DEF IsOutline
    <3> QED BY <3>1, <3>2
  <2> QED BY <1>3, <2>2 DEF InScope
<1> QED BY <1>2, <1>3

\* What is known after the pass has been over n cells: what it has seen of them, and
\* that the stretch it hides is what they hide of the rest.
Seen(list, n) ==
  LET pass == PassOver(list)[n]
  IN  /\ pass.hideUntil \in Nat
      /\ pass.out = {i \in 1 .. n : ~Hidden(list, i)}
      /\ \A i \in n + 1 .. Len(list) :
           i < pass.hideUntil <=>
             \E h \in 1 .. n : list[h].collapsed /\ InScope(list, h, i)

\* One cell more.
LEMMA PassGoesOn ==
  ASSUME NEW list, IsOutline(list), NEW n \in 1 .. Len(list), Seen(list, n - 1)
  PROVE  Seen(list, n)
<1> DEFINE was == PassOver(list)[n - 1]
           pass == PassOver(list)[n]
<1>1. Len(list) \in Nat /\ n - 1 \in 0 .. Len(list) /\ n \in 0 .. Len(list) /\ n # 0
  BY DEF IsOutline
<1>2. pass = PassCell(list, was, n)
  BY <1>1, PassIsDefined
<1>3. /\ was.hideUntil \in Nat
      /\ was.out = {i \in 1 .. n - 1 : ~Hidden(list, i)}
      /\ \A i \in n .. Len(list) :
           i < was.hideUntil <=>
             \E h \in 1 .. n - 1 : list[h].collapsed /\ InScope(list, h, i)
  BY DEF Seen
<1> HIDE DEF was, pass
<1>4. n < was.hideUntil <=> Hidden(list, n)
  BY <1>1, <1>3 DEF Hidden
<1>5. CASE Hidden(list, n)
  <2>1. pass = was
    BY <1>2, <1>4, <1>5 DEF PassCell
  <2>2. pass.out = {i \in 1 .. n : ~Hidden(list, i)}
    BY <1>3, <1>5, <2>1
  <2>3. PICK h \in 1 .. n - 1 : list[h].collapsed /\ InScope(list, h, n)
    BY <1>5 DEF Hidden
  <2>4. ASSUME NEW i \in n + 1 .. Len(list), InScope(list, n, i)
        PROVE  \E k \in 1 .. n - 1 : list[k].collapsed /\ InScope(list, k, i)
    <3>1. i \in 1 .. Len(list) /\ n \in 1 .. i - 1
      BY <1>1
    <3> QED BY <2>3, <2>4, <3>1, SectionsNest
  <2>5. \A i \in n + 1 .. Len(list) :
          i < pass.hideUntil <=>
            \E k \in 1 .. n : list[k].collapsed /\ InScope(list, k, i)
    <3>1. \A k \in 1 .. n : k \in 1 .. n - 1 \/ k = n
      OBVIOUS
    <3>2. \A k \in 1 .. n - 1 : k \in 1 .. n
      OBVIOUS
    <3>3. \A i \in n + 1 .. Len(list) : i \in n .. Len(list)
      OBVIOUS
    <3> QED BY <1>3, <2>1, <2>4, <3>1, <3>2, <3>3
  <2> QED BY <1>3, <2>1, <2>2, <2>5 DEF Seen, pass
<1>6. CASE ~Hidden(list, n)
  <2> DEFINE folds == IsHeading(list, n) /\ list[n].collapsed
  <2>1. /\ pass.out = was.out \cup {n}
        /\ pass.hideUntil = IF folds THEN ScopeEnd(list, n) ELSE was.hideUntil
    BY <1>2, <1>4, <1>6 DEF PassCell
  <2>2. pass.out = {i \in 1 .. n : ~Hidden(list, i)}
    BY <1>3, <1>6, <2>1
  <2>3. pass.hideUntil \in Nat
    BY <1>3, <2>1, ScopeEndIsMin DEF IsOutline
  <2>4. ASSUME NEW i \in n + 1 .. Len(list),
               NEW h \in 1 .. n - 1, list[h].collapsed, InScope(list, h, i)
        PROVE  FALSE
    <3>1. i \in 1 .. Len(list) /\ n \in 1 .. i - 1
      BY <1>1
    <3>2. InScope(list, h, n)
      BY <2>4, <3>1, SectionsNest
    <3> QED BY <1>6, <2>4, <3>2 DEF Hidden
  <2>5. \A k \in 1 .. n : k \in 1 .. n - 1 \/ k = n
    OBVIOUS
  <2>6. \A i \in n + 1 .. Len(list) :
          i < pass.hideUntil <=>
            \E k \in 1 .. n : list[k].collapsed /\ InScope(list, k, i)
    <3> SUFFICES ASSUME NEW i \in n + 1 .. Len(list)
                 PROVE  i < pass.hideUntil <=> list[n].collapsed /\ InScope(list, n, i)
      BY <2>4, <2>5
    <3>1. CASE folds
      BY <2>1, <3>1, ScopeEndIsMin
    <3>2. CASE ~folds
      <4>1. ~(list[n].collapsed /\ InScope(list, n, i))
        BY <3>2 DEF InScope
      <4>2. ~(i < was.hideUntil)
        BY <1>1, <1>3, <1>4, <1>6
      <4> QED BY <2>1, <3>2, <4>1, <4>2
    <3> QED BY <3>1, <3>2
  <2> QED BY <2>2, <2>3, <2>6 DEF Seen, pass
<1> QED BY <1>5, <1>6

\* The single pass of visible_indices leaves out what is in a folded section, and
\* nothing else, whatever the list.
LEMMA PassShowsTheVisible ==
  ASSUME NEW list, IsOutline(list)
  PROVE  VisiblePositions(list) = {i \in 1 .. Len(list) : ~Hidden(list, i)}
<1> DEFINE Unseen == {n \in 0 .. Len(list) : ~Seen(list, n)}
<1>1. Seen(list, 0)
  <2>1. PassOver(list)[0] = [out |-> {}, hideUntil |-> 0]
    BY PassIsDefined DEF IsOutline
  <2> QED BY <2>1 DEF Seen
<1>2. Unseen = {}
  <2> SUFFICES ASSUME Unseen # {} PROVE FALSE
    OBVIOUS
  <2>1. PICK n \in Unseen : \A k \in Unseen : n <= k
    <3>1. Unseen \in SUBSET Nat
      OBVIOUS
    <3> HIDE DEF Unseen
    <3> QED BY <3>1, LeastElement
  <2>2. n \in 1 .. Len(list) /\ ~Seen(list, n)
    BY <1>1 DEF IsOutline
  <2>3. n - 1 \in 0 .. Len(list) /\ ~(n <= n - 1)
    BY <2>2 DEF IsOutline
  <2>4. n - 1 \notin Unseen
    <3> HIDE DEF Unseen
    <3> QED BY <2>1, <2>3
  <2> QED BY <2>2, <2>3, <2>4, PassGoesOn
<1>3. Seen(list, Len(list))
  BY <1>2 DEF IsOutline
<1> QED BY <1>3 DEF Seen, VisiblePositions

\* The list of the session is such a list.
LEMMA ListIsOutline ==
  ASSUME IInv
  PROVE  IsOutline(List) /\ Len(List) = Len(cells) /\ DOMAIN cells = 1 .. Len(cells)
<1>1. cells \in Seq(Ids) /\ Len(cells) \in Nat /\ DOMAIN cells = 1 .. Len(cells)
  BY DEF IInv, CursorInv
<1>2. List \in [1 .. Len(cells) -> CellTypes]
  <2>1. \A i \in 1 .. Len(cells) : cell[cells[i]] \in CellTypes
    BY <1>1 DEF IInv, CursorInv
  <2> QED BY <1>1, <2>1 DEF List
<1>3. List \in Seq(CellTypes) /\ Len(List) = Len(cells)
  BY <1>1, <1>2, SeqDef, LenProperties
<1>4. \A c \in CellTypes : c.collapsed \in BOOLEAN
  <2>1. Command.collapsed \in BOOLEAN /\ Text.collapsed \in BOOLEAN
    BY DEF Command, Text, NewOf
  <2>2. \A c \in [kind : {"heading"}, level : Levels, collapsed : BOOLEAN] :
          c.collapsed \in BOOLEAN
    BY Zenon
  <2> QED BY <2>1, <2>2 DEF CellTypes
<1>5. \A i \in 1 .. Len(cells) : List[i].level \in Nat /\ List[i].collapsed \in BOOLEAN
  BY <1>2, <1>4, ListLevels
<1> QED BY <1>1, <1>3, <1>5 DEF IsOutline

(* However sections nest, overlap and are folded, the cells Up and Down can *)
(* reach are those no folded heading has in its section: the one moving end *)
(* of visible_indices (asat/outline.py) forgets no outer fold when it meets *)
(* an inner one.                                                            *)
THEOREM PassIsRight == Spec => []VisibleAgrees
<1>1. IInv => VisibleAgrees
  <2> SUFFICES ASSUME IInv PROVE VisibleAgrees
    OBVIOUS
  <2>1. IsOutline(List) /\ Len(List) = Len(cells) /\ DOMAIN cells = 1 .. Len(cells)
    BY ListIsOutline
  <2>2. VisiblePositions(List) = {i \in 1 .. Len(List) : ~Hidden(List, i)}
    BY <2>1, PassShowsTheVisible
  <2> QED BY <2>1, <2>2 DEF VisibleAgrees
<1> QED BY <1>1, Invariance, PTL
=============================================================================
