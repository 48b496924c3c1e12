--------------------------- MODULE ContainerProofs ---------------------------
(****************************************************************************)
(* Panel: drawing a panel is correct for any number of items and any        *)
(* height.  The invariant says which lines may differ from the items while  *)
(* a key's changes are not drawn yet.                                       *)
(* Vector: the array is a list, and both of its sorts sort, for arrays of   *)
(* any length.  The loops of the sorts are chains of values, the recursion  *)
(* of quickSort is on the width of a stretch.                               *)
(* Hashtable: the table is a dictionary, for tables of any size.  An item   *)
(* out of its home has a trail of items that are not nearer to theirs; the  *)
(* loops of insert and of rehashing are chains, too.                        *)
(****************************************************************************)
EXTENDS Panel, Vector, Hashtable, FoldFacts, TLAPS

-----------------------------------------------------------------------------
(* Panel *)

\* Between a key and the drawing, unless a full redraw is asked for, only the
\* lines of the old and the new selection may be out of date.
DrawInv ==
    /\ selected < size \/ (size = 0 /\ selected = 0)
    /\ phase = "key" => /\ ~needsRedraw /\ oldSelected = selected
                        /\ screen = FullScreen(scrollV)
    /\ ~needsRedraw =>
          /\ oldSelected < size \/ size = 0
          /\ Rows > 0 => oldSelected \in scrollV..(scrollV + Rows - 1)
          /\ DOMAIN screen = 0..(Rows - 1)
          /\ screen = [l \in DOMAIN screen |-> screen[l]]
          /\ \A l \in 0..(Rows - 1) :
                scrollV + l \notin {oldSelected, selected} =>
                    screen[l] = Line(scrollV + l, selected)

Inv == TypeOK /\ DrawInv

LEMMA SetSelectedBounds ==
    ASSUME NEW n \in Int, NEW count \in Nat
    PROVE  /\ Panel_setSelected(n, count) \in Nat
           /\ Panel_setSelected(n, count) < count \/ (count = 0 /\ Panel_setSelected(n, count) = 0)
BY DEF Panel_setSelected, CLAMP, larger

LEMMA InBoundsBounds ==
    ASSUME NEW n \in Int, size \in Nat
    PROVE  InBounds(n) \in Nat /\ (InBounds(n) < size \/ (size = 0 /\ InBounds(n) = 0))
BY DEF InBounds

LEMMA RowsType ==
    ASSUME TypeOK
    PROVE  Rows \in Int /\ PageSize \in Int /\ h \in Int
BY ConstantsAssumption DEF TypeOK, Rows, PageSize, Panel_headerHeight

LEMMA InitInv == Init => Inv
<1> SUFFICES ASSUME Init PROVE Inv
  OBVIOUS
<1>1. TypeOK
  BY DEF Init, TypeOK
<1>2. DrawInv
  BY DEF Init, DrawInv
<1> QED
  BY <1>1, <1>2 DEF Inv

\* Where the panel scrolls to is where the selection is visible.
LEMMA FirstVisible ==
    ASSUME TypeOK, Rows > 0
    PROVE  First \in Int /\ selected \in First..(First + Rows - 1)
<1>1. Rows \in Int /\ selected \in Nat /\ scrollV \in Int /\ size \in Nat
  BY RowsType DEF TypeOK
<1>2. ScrollOnScreen \in Int
  BY <1>1 DEF ScrollOnScreen, larger
<1> QED
  BY <1>1, <1>2 DEF First

LEMMA FirstType == ASSUME TypeOK PROVE First \in Nat
<1>1. Rows \in Int /\ selected \in Nat /\ scrollV \in Nat /\ size \in Nat
  BY RowsType DEF TypeOK
<1>2. ScrollOnScreen \in Nat
  BY <1>1 DEF ScrollOnScreen, larger
<1> QED
  BY <1>1, <1>2 DEF First

\* A redraw that is not forced does not scroll, and there is a line and an item.
LEMMA PartialFacts ==
    ASSUME TypeOK, DrawInv, ~MustRedraw
    PROVE  /\ First = scrollV /\ ~needsRedraw /\ Rows > 0 /\ size > 0
           /\ \A n \in {oldSelected, selected} : n < size /\ n - First \in 0..(Rows - 1)
<1>1. Rows \in Int /\ selected \in Nat /\ oldSelected \in Nat /\ scrollV \in Int /\ size \in Nat
  BY RowsType DEF TypeOK
<1>2. ~needsRedraw /\ scrollV >= 0 /\ scrollV <= size - Rows
  BY <1>1 DEF MustRedraw
<1>3. ScrollOnScreen = scrollV
  BY <1>1, <1>2 DEF ScrollOnScreen
<1>4. selected >= scrollV /\ selected < scrollV + Rows
  BY <1>1, <1>3 DEF MustRedraw
<1>5. First = scrollV
  BY <1>1, <1>3, <1>4 DEF First
<1>6. Rows > 0 /\ size > 0
  BY <1>1, <1>2, <1>4
<1>7. oldSelected < size /\ oldSelected \in scrollV..(scrollV + Rows - 1)
  BY <1>1, <1>2, <1>6 DEF DrawInv
<1>8. selected < size
  BY <1>1, <1>6 DEF DrawInv
<1> QED
  BY <1>1, <1>2, <1>4, <1>5, <1>6, <1>7, <1>8

LEMMA PartialIsFull ==
    ASSUME TypeOK, DrawInv, ~MustRedraw
    PROVE  PartialScreen(First) = FullScreen(First)
<1>1. First = scrollV /\ ~needsRedraw
  BY PartialFacts
<1>2. DOMAIN screen = 0..(Rows - 1)
  BY <1>1 DEF DrawInv
<1>3. ASSUME NEW l \in 0..(Rows - 1), scrollV + l \notin {oldSelected, selected}
      PROVE  screen[l] = Line(scrollV + l, selected)
  BY <1>1, <1>3 DEF DrawInv
<1> QED
  BY <1>1, <1>2, <1>3 DEF PartialScreen, FullScreen

LEMMA DrawStep ==
    ASSUME Inv, NEW force \in BOOLEAN, Panel_draw(force)
    PROVE  Inv'
<1> USE DEF Inv
<1>1. scrollV' = First /\ First \in Nat /\ oldSelected' = selected /\ needsRedraw' = FALSE
      /\ phase' = "key" /\ UNCHANGED <<size, items, selected, h, barHidden, hasHeader>>
  BY FirstType DEF Panel_draw, frameVars
<1>2. TypeOK'
  BY <1>1 DEF TypeOK
<1>3. screen' = FullScreen(First)
  BY PartialIsFull DEF Panel_draw
<1>4. Rows' = Rows
  BY <1>1 DEF Rows, Panel_headerHeight
<1>5. \A i, s : Line(i, s)' = Line(i, s)
  BY <1>1 DEF Line
<1>6. screen' = FullScreen(scrollV)'
  BY <1>1, <1>3, <1>4, <1>5 DEF FullScreen
<1>7. Rows > 0 => selected \in First..(First + Rows - 1)
  BY FirstVisible
<1>8. DOMAIN screen' = 0..(Rows' - 1) /\ screen' = [l \in DOMAIN screen' |-> screen'[l]]
  BY <1>3, <1>4 DEF FullScreen
<1>9. \A l \in 0..(Rows - 1) : screen'[l] = Line(First + l, selected)
  BY <1>3 DEF FullScreen
<1>10. DrawInv'
  BY <1>1, <1>4, <1>5, <1>6, <1>7, <1>8, <1>9 DEF DrawInv
<1> QED
  BY <1>2, <1>10

\* The keys that ask for a full redraw only have to keep the selection valid.
LEMMA FullStep ==
    ASSUME TypeOK', needsRedraw', phase' = "draw",
           (selected < size \/ (size = 0 /\ selected = 0))'
    PROVE  Inv'
BY DEF Inv, DrawInv

\* The other keys move the selection, or change items at the old and the new
\* selection only.
LEMMA LightStep ==
    ASSUME Inv, TypeOK', phase = "key", phase' = "draw", ~needsRedraw',
           UNCHANGED <<size, scrollV, oldSelected, frameVars, screen>>,
           (selected < size \/ (size = 0 /\ selected = 0))',
           \A i \in 0..(size - 1) \ {selected, selected'} : items'[i] = items[i]
    PROVE  Inv'
<1> USE DEF Inv
<1>1. Rows' = Rows /\ Rows \in Int /\ size \in Nat /\ size' = size /\ scrollV \in Nat /\ scrollV' = scrollV
  BY RowsType DEF frameVars, Rows, Panel_headerHeight, TypeOK
<1>2. oldSelected = selected /\ screen = FullScreen(scrollV) /\ ~needsRedraw
  BY DEF DrawInv
<1>3. ASSUME NEW l \in 0..(Rows - 1), scrollV + l \notin {oldSelected, selected'}
      PROVE  screen[l] = Line(scrollV + l, selected)'
  <2>1. screen[l] = Line(scrollV + l, selected)
    BY <1>2 DEF FullScreen
  <2>2. scrollV + l # selected /\ scrollV + l # selected'
    BY <1>2, <1>3
  <2>3. scrollV + l < size => scrollV + l \in 0..(size - 1)
    BY <1>1
  <2>4. scrollV + l < size => items'[scrollV + l] = items[scrollV + l]
    BY <2>2, <2>3
  <2> QED
    BY <1>1, <2>1, <2>2, <2>4 DEF Line
<1>4. DrawInv'
  BY <1>1, <1>2, <1>3 DEF DrawInv
<1> QED
  BY <1>4
LEMMA KeyStep ==
    ASSUME Inv, Next, ~Draw
    PROVE  Inv'
<1> USE DEF Inv
<1>0. /\ size \in Nat /\ selected \in Nat /\ scrollV \in Nat /\ items \in [0..(size - 1) -> Item]
      /\ Rows \in Int /\ PageSize \in Int
  BY RowsType DEF TypeOK
<1>1. phase = "key" => ~needsRedraw /\ oldSelected = selected
  BY DEF DrawInv
<1>2. CASE Select
  <2>1. PICK n \in -1..MaxSize : selected' = Panel_setSelected(n, size)
    BY <1>2 DEF Select
  <2>2. n \in Int
    BY ConstantsAssumption
  <2>3. selected' \in Nat /\ (selected' < size \/ (size = 0 /\ selected' = 0))
    BY <1>0, <2>1, <2>2, SetSelectedBounds
  <2>4. /\ phase = "key" /\ phase' = "draw"
        /\ UNCHANGED <<size, items, needsRedraw, scrollV, oldSelected, frameVars, screen>>
    BY <1>2 DEF Select, Handled, viewVars
  <2>5. TypeOK'
    BY <2>3, <2>4 DEF TypeOK, frameVars
  <2> QED
    BY <1>0, <1>1, <2>3, <2>4, <2>5, LightStep
<1>3. CASE Panel_onKey_move
  <2>1. PICK n \in {selected - 1, selected + 1, 0, size - 1} :
           /\ selected' = InBounds(n)
           /\ needsRedraw' = (needsRedraw \/ n # InBounds(n) \/ size = 0)
    BY <1>3 DEF Panel_onKey_move
  <2>2. n \in Int
    BY <1>0
  <2>3. selected' \in Nat /\ (selected' < size \/ (size = 0 /\ selected' = 0))
    BY <1>0, <2>1, <2>2, InBoundsBounds
  <2>4. /\ phase = "key" /\ phase' = "draw"
        /\ UNCHANGED <<size, items, scrollV, oldSelected, frameVars, screen>>
    BY <1>3 DEF Panel_onKey_move, Handled
  <2>5. TypeOK'
    BY <2>1, <2>3, <2>4 DEF TypeOK, frameVars
  <2>6. CASE needsRedraw'
    BY <2>3, <2>4, <2>5, <2>6, FullStep
  <2>7. CASE ~needsRedraw'
    BY <1>0, <2>3, <2>4, <2>5, <2>7, LightStep
  <2> QED
    BY <2>6, <2>7
<1>4. CASE Panel_onKey_scroll
  <2>1. PICK amount \in {PageSize, -PageSize, 10, -10} :
           /\ selected' = InBounds(selected + amount)
           /\ scrollV' = CLAMP(scrollV + amount, 0, larger(0, size - h - Panel_headerHeight))
    BY <1>4 DEF Panel_onKey_scroll
  <2>2. amount \in Int /\ selected + amount \in Int /\ scrollV + amount \in Int
    BY <1>0
  <2>3. selected' \in Nat /\ (selected' < size \/ (size = 0 /\ selected' = 0))
    BY <1>0, <2>1, <2>2, InBoundsBounds
  <2>4. scrollV' \in Nat
    <3>1. size - h - Panel_headerHeight \in Int
      BY <1>0, RowsType DEF Panel_headerHeight
    <3>2. larger(0, size - h - Panel_headerHeight) \in Nat
      BY <3>1 DEF larger
    <3> QED
      BY <2>1, <2>2, <3>2 DEF CLAMP, larger
  <2>5. /\ phase' = "draw" /\ needsRedraw' = TRUE
        /\ UNCHANGED <<size, items, oldSelected, frameVars, screen>>
    BY <1>4 DEF Panel_onKey_scroll, Handled
  <2>6. TypeOK'
    BY <2>3, <2>4, <2>5 DEF TypeOK, frameVars
  <2> QED
    BY <2>3, <2>5, <2>6, FullStep
<1>5. CASE MoveSelected
  <2>1. PICK n \in {selected - 1, selected + 1} \cap 0..(size - 1) :
           /\ items' = [items EXCEPT ![selected] = items[n], ![n] = items[selected]]
           /\ selected' = n
    BY <1>5 DEF MoveSelected
  <2>2. /\ phase = "key" /\ phase' = "draw" /\ size > 0
        /\ UNCHANGED <<size, needsRedraw, scrollV, oldSelected, frameVars, screen>>
    BY <1>5 DEF MoveSelected, Handled, viewVars
  <2>3. selected \in 0..(size - 1) /\ n \in 0..(size - 1)
    BY <1>0, <2>2 DEF DrawInv
  <2>4. items' \in [0..(size - 1) -> Item]
    BY <1>0, <2>1, <2>3
  <2>5. \A i \in 0..(size - 1) \ {selected, selected'} : items'[i] = items[i]
    BY <1>0, <2>1, <2>3
  <2>6. TypeOK'
    BY <2>1, <2>2, <2>3, <2>4 DEF TypeOK, frameVars
  <2> QED
    BY <1>0, <1>1, <2>1, <2>2, <2>3, <2>5, <2>6, LightStep
<1>6. CASE EditSelected
  <2>1. PICK x \in Item : items' = [items EXCEPT ![selected] = x]
    BY <1>6 DEF EditSelected
  <2>2. /\ phase = "key" /\ phase' = "draw"
        /\ UNCHANGED <<size, selected, needsRedraw, scrollV, oldSelected, frameVars, screen>>
    BY <1>6 DEF EditSelected, Handled, viewVars
  <2>3. items' \in [0..(size - 1) -> Item]
    BY <1>0, <2>1
  <2>4. TypeOK'
    BY <2>2, <2>3 DEF TypeOK, frameVars
  <2>5. \A i \in 0..(size - 1) \ {selected, selected'} : items'[i] = items[i]
    BY <1>0, <2>1
  <2>6. (selected < size \/ (size = 0 /\ selected = 0))'
    BY <2>2 DEF DrawInv
  <2> QED
    BY <1>1, <2>2, <2>4, <2>5, <2>6, LightStep
<1>7. CASE Insert
  <2>1. PICK i \in 0..size, x \in Item :
           /\ items' = [j \in 0..size |-> IF j < i THEN items[j] ELSE IF j = i THEN x ELSE items[j - 1]]
           /\ selected' \in {selected, Panel_setSelected(i, size + 1), Panel_setSelected(i + 1, size + 1)}
    BY <1>7 DEF Insert
  <2>2. /\ phase' = "draw" /\ needsRedraw' = TRUE /\ size' = size + 1
        /\ UNCHANGED <<scrollV, oldSelected, frameVars, screen>>
    BY <1>7 DEF Insert, Handled
  <2>3. selected' \in Nat /\ selected' < size'
    <3>1. \A n \in Int : Panel_setSelected(n, size + 1) \in Nat /\ Panel_setSelected(n, size + 1) < size + 1
      <4>1. size + 1 \in Nat /\ size + 1 # 0
        BY <1>0
      <4> QED
        BY <4>1, SetSelectedBounds
    <3>2. selected < size + 1 /\ i \in Int /\ i + 1 \in Int
      BY <1>0 DEF DrawInv
    <3> QED
      BY <1>0, <2>1, <2>2, <3>1, <3>2
  <2>4. items' \in [0..(size' - 1) -> Item]
    <3>1. ASSUME NEW j \in 0..size, j >= i, j # i PROVE j - 1 \in 0..(size - 1)
      BY <1>0, <3>1
    <3>2. ASSUME NEW j \in 0..size, j < i PROVE j \in 0..(size - 1)
      BY <1>0, <3>2
    <3>3. \A j \in 0..size : items'[j] \in Item
      BY <1>0, <2>1, <3>1, <3>2
    <3>4. size' - 1 = size
      BY <1>0, <2>2
    <3> QED
      BY <2>1, <3>3, <3>4
  <2>5. TypeOK'
    BY <1>0, <2>2, <2>3, <2>4 DEF TypeOK, frameVars
  <2> QED
    BY <2>2, <2>3, <2>5, FullStep
<1>8. CASE Remove
  <2>1. /\ size > 0 /\ phase' = "draw" /\ needsRedraw' = TRUE /\ size' = size - 1
        /\ items' = [j \in 0..(size - 2) |-> IF j < selected THEN items[j] ELSE items[j + 1]]
        /\ selected' = IF selected > 0 /\ selected >= size' THEN selected - 1 ELSE selected
        /\ UNCHANGED <<scrollV, oldSelected, frameVars, screen>>
    BY <1>8 DEF Remove, Handled
  <2>2. selected < size
    BY <2>1 DEF DrawInv
  <2>3. selected' \in Nat /\ (selected' < size' \/ (size' = 0 /\ selected' = 0))
    BY <1>0, <2>1, <2>2
  <2>4. items' \in [0..(size' - 1) -> Item]
    <3>1. \A j \in 0..(size - 2) : j \in 0..(size - 1) /\ j + 1 \in 0..(size - 1)
      BY <1>0
    <3>2. \A j \in 0..(size - 2) : items'[j] \in Item
      BY <1>0, <2>1, <3>1
    <3>3. size' - 1 = size - 2
      BY <1>0, <2>1
    <3> QED
      BY <2>1, <3>2, <3>3
  <2>5. TypeOK'
    BY <1>0, <2>1, <2>3, <2>4 DEF TypeOK, frameVars
  <2> QED
    BY <2>1, <2>3, <2>5, FullStep
<1>9. CASE Refill
  <2>1. PICK n \in 0..MaxSize : \E s \in -1..n :
           /\ size' = n /\ items' \in [0..(n - 1) -> Item]
           /\ selected' = Panel_setSelected(s, n)
    BY <1>9 DEF Refill
  <2>2. n \in Nat /\ -1..n \subseteq Int
    BY ConstantsAssumption
  <2>3. selected' \in Nat /\ (selected' < size' \/ (size' = 0 /\ selected' = 0))
    BY <2>1, <2>2, SetSelectedBounds
  <2>4. /\ phase' = "draw" /\ needsRedraw' = TRUE /\ scrollV' \in {0, scrollV} /\ oldSelected' = 0
        /\ barHidden' \in BOOLEAN /\ UNCHANGED <<h, hasHeader, screen>>
    BY <1>9 DEF Refill, Handled
  <2>5. TypeOK'
    BY <1>0, <2>1, <2>2, <2>3, <2>4 DEF TypeOK
  <2> QED
    BY <2>3, <2>4, <2>5, FullStep
<1>10. CASE Resize
  <2>1. /\ phase' = "draw" /\ needsRedraw' = TRUE /\ h' \in Heights /\ barHidden' \in BOOLEAN
        /\ UNCHANGED <<size, items, selected, scrollV, oldSelected, hasHeader, screen>>
    BY <1>10 DEF Resize, Handled
  <2>2. TypeOK'
    BY <2>1 DEF TypeOK
  <2> QED
    BY <2>1, <2>2, FullStep DEF DrawInv
<1> QED
  BY <1>2, <1>3, <1>4, <1>5, <1>6, <1>7, <1>8, <1>9, <1>10 DEF Next

LEMMA InvStep == Inv /\ [Next]_vars => Inv'
<1> SUFFICES ASSUME Inv, [Next]_vars PROVE Inv'
  OBVIOUS
<1>1. CASE Draw
  BY <1>1, DrawStep DEF Draw
<1>2. CASE Next /\ ~Draw
  BY <1>2, KeyStep
<1>3. CASE UNCHANGED vars
  <2>1. UNCHANGED <<size, items, selected, scrollV, oldSelected, needsRedraw, h, barHidden,
                    hasHeader, screen, phase>>
    BY <1>3 DEF vars, viewVars, frameVars
  <2>2. TypeOK'
    BY <2>1 DEF Inv, TypeOK
  <2>3. Rows' = Rows /\ FullScreen(scrollV)' = FullScreen(scrollV)
        /\ \A i, s : Line(i, s)' = Line(i, s)
    BY <2>1 DEF Rows, Panel_headerHeight, FullScreen, Line
  <2>4. DrawInv'
    BY <2>1, <2>3 DEF Inv, DrawInv
  <2> QED
    BY <2>2, <2>4 DEF Inv
<1> QED
  BY <1>1, <1>2, <1>3

\* For any number of items and lines: the selection stays inside the items, a
\* partial redraw touches only items and lines that exist, and what it leaves
\* on the screen is what a full redraw would have drawn.
THEOREM DrawingCorrect == Spec => []DrawnSafely
<1>1. Inv => DrawnSafely
  BY PartialFacts DEF Inv, DrawInv, DrawnSafely, SelectionValid, PartialRedrawSafe, ScreenCurrent
<1> QED
  BY <1>1, InitInv, InvStep, PTL DEF Spec

-----------------------------------------------------------------------------
(* Vector: arrays that are put in another order *)

Cell == Object \cup {NoObject}
Arrays(n) == [1 .. n -> Cell]

\* A permutation of 1 .. n that moves only what is in l .. r.
Moves(pi, n, l, r) ==
    /\ pi \in [1 .. n -> 1 .. n]
    /\ \A i, j \in 1 .. n : pi[i] = pi[j] => i = j
    /\ \A k \in 1 .. n : \E i \in 1 .. n : pi[i] = k
    /\ \A i \in 1 .. n : IF i \in l .. r THEN pi[i] \in l .. r ELSE pi[i] = i

\* The array b has the items of a in another order, those between l and r.
Shuffled(a, b, n, l, r) ==
    /\ a \in Arrays(n) /\ b \in Arrays(n)
    /\ \E pi : Moves(pi, n, l, r) /\ \A i \in 1 .. n : b[i] = a[pi[i]]

LEMMA ShuffledNot ==
    ASSUME NEW n \in Nat, NEW a \in Arrays(n), NEW l \in Int, NEW r \in Int
    PROVE  Shuffled(a, a, n, l, r)
<1>. DEFINE pi == [i \in 1 .. n |-> i]
<1>1. Moves(pi, n, l, r)  BY DEF Moves
<1>2. \A i \in 1 .. n : a[i] = a[pi[i]]  OBVIOUS
<1>. HIDE DEF pi
<1>. QED  BY <1>1, <1>2 DEF Shuffled

LEMMA ShuffledSwap ==
    ASSUME NEW n \in Nat, NEW a \in Arrays(n), NEW l \in Int, NEW r \in Int,
           NEW i \in 1 .. n, NEW j \in 1 .. n, i \in l .. r, j \in l .. r
    PROVE  Shuffled(a, SwapCells(a, i, j), n, l, r)
<1>. DEFINE pi == [k \in 1 .. n |-> IF k = i THEN j ELSE IF k = j THEN i ELSE k]
            b == SwapCells(a, i, j)
<1>1. Moves(pi, n, l, r)
  <2>1. pi \in [1 .. n -> 1 .. n]  OBVIOUS
  <2>2. \A x, y \in 1 .. n : pi[x] = pi[y] => x = y  OBVIOUS
  <2>3. \A k \in 1 .. n : pi[k] \in 1 .. n /\ pi[pi[k]] = k  OBVIOUS
  <2>4. \A k \in 1 .. n : \E x \in 1 .. n : pi[x] = k  BY <2>3
  <2>5. \A k \in 1 .. n : IF k \in l .. r THEN pi[k] \in l .. r ELSE pi[k] = k  OBVIOUS
  <2>. HIDE DEF pi
  <2>. QED  BY <2>1, <2>2, <2>4, <2>5 DEF Moves
<1>2. b \in Arrays(n) /\ \A k \in 1 .. n : b[k] = IF k = i THEN a[j] ELSE IF k = j THEN a[i] ELSE a[k]
  BY DEF Arrays, SwapCells
<1>3. \A k \in 1 .. n : b[k] = a[pi[k]]  BY <1>2
<1>. HIDE DEF pi, b
<1>4. Shuffled(a, b, n, l, r)  BY <1>1, <1>2, <1>3 DEF Shuffled
<1>. QED  BY <1>4 DEF b

\* One order after the other, in parts of l .. r.
Composed(both, pi, rho, n) == both = [i \in 1 .. n |-> pi[rho[i]]]

LEMMA MovesAgain ==
    ASSUME NEW n \in Nat, NEW l \in Int, NEW r \in Int, NEW l1 \in Int, NEW r1 \in Int, NEW l2 \in Int, NEW r2 \in Int,
           l <= l1, r1 <= r, l <= l2, r2 <= r,
           NEW pi, Moves(pi, n, l1, r1), NEW rho, Moves(rho, n, l2, r2),
           NEW both, Composed(both, pi, rho, n)
    PROVE  Moves(both, n, l, r)
<1>2. \A x, y \in 1 .. n : pi[x] = pi[y] => x = y  BY DEF Moves
<1>3. \A i \in 1 .. n : pi[i] \in 1 .. n /\ rho[i] \in 1 .. n  BY DEF Moves
<1>4. /\ both \in [1 .. n -> 1 .. n]
      /\ \A i \in 1 .. n : both[i] = pi[rho[i]]
  <2>1. \A i \in 1 .. n : pi[rho[i]] \in 1 .. n  BY <1>3
  <2>. QED  BY <2>1 DEF Composed
<1>5. \A i, j \in 1 .. n : both[i] = both[j] => i = j
  <2>1. SUFFICES ASSUME NEW i \in 1 .. n, NEW j \in 1 .. n, both[i] = both[j] PROVE i = j  OBVIOUS
  <2>2. pi[rho[i]] = pi[rho[j]]  BY <1>4, <2>1
  <2>3. rho[i] = rho[j]  BY <1>2, <1>3, <2>2
  <2>. QED  BY <2>3 DEF Moves
<1>6. \A k \in 1 .. n : \E i \in 1 .. n : both[i] = k
  <2>1. SUFFICES ASSUME NEW k \in 1 .. n PROVE \E i \in 1 .. n : both[i] = k  OBVIOUS
  <2>2. PICK m \in 1 .. n : pi[m] = k  BY DEF Moves
  <2>3. PICK i \in 1 .. n : rho[i] = m  BY DEF Moves
  <2>. QED  BY <1>4, <2>2, <2>3
<1>7. \A i \in 1 .. n : IF i \in l .. r THEN both[i] \in l .. r ELSE both[i] = i
  <2>1. SUFFICES ASSUME NEW i \in 1 .. n PROVE IF i \in l .. r THEN both[i] \in l .. r ELSE both[i] = i  OBVIOUS
  <2>2. IF i \in l2 .. r2 THEN rho[i] \in l2 .. r2 ELSE rho[i] = i  BY DEF Moves
  <2>3. rho[i] \in 1 .. n /\ IF rho[i] \in l1 .. r1 THEN pi[rho[i]] \in l1 .. r1 ELSE pi[rho[i]] = rho[i]
    BY <1>3 DEF Moves
  <2>. DEFINE a == rho[i]
              b == both[i]
  <2>4. a \in 1 .. n /\ b \in 1 .. n  BY <1>3, <1>4
  <2>5. IF i \in l2 .. r2 THEN a \in l2 .. r2 ELSE a = i  BY <2>2
  <2>6. IF a \in l1 .. r1 THEN b \in l1 .. r1 ELSE b = a  BY <1>4, <2>3
  <2>. HIDE DEF a, b
  <2>7. CASE i \in l .. r
    <3>1. a \in l .. r  BY <2>4, <2>5, <2>7
    <3>2. b \in l .. r  BY <2>4, <2>6, <3>1
    <3>. QED  BY <2>7, <3>2 DEF b
  <2>8. CASE i \notin l .. r
    <3>1. a = i  BY <2>5, <2>8
    <3>2. b = i  BY <2>6, <2>8, <3>1
    <3>. QED  BY <2>8, <3>2 DEF b
  <2>. QED  BY <2>7, <2>8
<1>. QED  BY <1>4, <1>5, <1>6, <1>7 DEF Moves

LEMMA ShuffledAgain ==
    ASSUME NEW n \in Nat, NEW a, NEW b, NEW c, NEW l \in Int, NEW r \in Int,
           NEW l1 \in Int, NEW r1 \in Int, NEW l2 \in Int, NEW r2 \in Int,
           l <= l1, r1 <= r, l <= l2, r2 <= r,
           Shuffled(a, b, n, l1, r1), Shuffled(b, c, n, l2, r2)
    PROVE  Shuffled(a, c, n, l, r)
<1>1. PICK pi : Moves(pi, n, l1, r1) /\ \A i \in 1 .. n : b[i] = a[pi[i]]  BY DEF Shuffled
<1>2. PICK rho : Moves(rho, n, l2, r2) /\ \A i \in 1 .. n : c[i] = b[rho[i]]  BY DEF Shuffled
<1>. DEFINE both == [i \in 1 .. n |-> pi[rho[i]]]
<1>3. \A i \in 1 .. n : rho[i] \in 1 .. n  BY <1>2 DEF Moves
<1>4. \A i \in 1 .. n : c[i] = a[both[i]]  BY <1>1, <1>2, <1>3
<1>a. Composed(both, pi, rho, n)  BY DEF Composed
<1>. HIDE DEF both
<1>b. Moves(pi, n, l1, r1) /\ Moves(rho, n, l2, r2)  BY <1>1, <1>2
<1>5. Moves(both, n, l, r)  BY <1>a, <1>b, MovesAgain
<1>. QED  BY <1>4, <1>5 DEF Shuffled

\* What is true of every item between l and r stays true of them.
LEMMA ShuffledItems ==
    ASSUME NEW n \in Nat, NEW a, NEW b, NEW l \in Int, NEW r \in Int, Shuffled(a, b, n, l, r)
    PROVE  /\ \A i \in 1 .. n : i \notin l .. r => b[i] = a[i]
           /\ \A i \in 1 .. n : i \in l .. r => \E j \in 1 .. n : j \in l .. r /\ b[i] = a[j]
BY DEF Shuffled, Moves

-----------------------------------------------------------------------------
(* Vector: partition *)

AtMost(o, p) == compare(o, p) <= 0

\* The loop of partition has come to cell i of l .. r.
Parted(s, a, n, l, r, i, pivot) ==
    /\ s \in [cells : Arrays(n), place : Int] /\ s.place \in l .. i
    /\ Shuffled(a, s.cells, n, l, r)
    /\ s.cells[r] = pivot
    /\ \A k \in l .. s.place - 1 : AtMost(s.cells[k], pivot)
    /\ \A k \in s.place .. i - 1 : ~AtMost(s.cells[k], pivot)

LEMMA PartitionStarts ==
    ASSUME NEW n \in Nat, NEW a \in Arrays(n), NEW l \in 1 .. n, NEW r \in 1 .. n, l <= r, NEW q \in l .. r
    PROVE  Parted([cells |-> SwapCells(a, q, r), place |-> l], a, n, l, r, l, a[q])
<1>. DEFINE b == SwapCells(a, q, r)
<1>1. Shuffled(a, b, n, l, r)  BY ShuffledSwap
<1>2. b \in Arrays(n)  BY <1>1 DEF Shuffled
<1>3. b[r] = a[q]  BY DEF SwapCells, Arrays
<1>. HIDE DEF b
<1>4. Parted([cells |-> b, place |-> l], a, n, l, r, l, a[q])  BY <1>1, <1>2, <1>3 DEF Parted
<1>. QED  BY <1>4 DEF b

LEMMA PartitionAdvances ==
    ASSUME NEW n \in Nat, NEW a \in Arrays(n), NEW l \in 1 .. n, NEW r \in 1 .. n, l <= r,
           NEW i \in l .. r, i # r, NEW pivot, NEW s, Parted(s, a, n, l, r, i, pivot)
    PROVE  Parted(Advance(s, i, pivot), a, n, l, r, i + 1, pivot)
<1>1. s.cells \in Arrays(n) /\ s.place \in l .. i /\ i \in 1 .. n /\ s.place \in 1 .. n  BY DEF Parted
<1>2. CASE ~AtMost(s.cells[i], pivot)
  <2>1. Advance(s, i, pivot) = s  BY <1>2 DEF Advance, AtMost
  <2>2. \A k \in s.place .. (i + 1) - 1 : ~AtMost(s.cells[k], pivot)
    <3>1. \A k \in s.place .. (i + 1) - 1 : k = i \/ k \in s.place .. i - 1  BY <1>1
    <3>. QED  BY <1>2, <3>1 DEF Parted
  <2>3. s.place \in l .. i + 1  BY <1>1
  <2>. QED  BY <2>1, <2>2, <2>3 DEF Parted
<1>3. CASE AtMost(s.cells[i], pivot)
  <2>. DEFINE p == s.place
              b == s.cells
              c == SwapCells(b, i, p)
  <2>1. Advance(s, i, pivot) = [cells |-> c, place |-> p + 1]  BY <1>3 DEF Advance, AtMost
  <2>2. /\ b \in Arrays(n) /\ p \in l .. i /\ i \in 1 .. n /\ p \in 1 .. n
        /\ Shuffled(a, b, n, l, r) /\ b[r] = pivot
        /\ \A k \in l .. p - 1 : AtMost(b[k], pivot)
        /\ \A k \in p .. i - 1 : ~AtMost(b[k], pivot)
        /\ AtMost(b[i], pivot)
    BY <1>1, <1>3 DEF Parted
  <2>. HIDE DEF p, b
  <2>3. \A k \in 1 .. n : c[k] = IF k = i THEN b[p] ELSE IF k = p THEN b[i] ELSE b[k]
    BY <2>2 DEF SwapCells, Arrays
  <2>4. Shuffled(b, c, n, l, r)  BY <2>2, ShuffledSwap
  <2>. HIDE DEF c
  <2>5. c \in Arrays(n) /\ Shuffled(a, c, n, l, r)
    <3>1. c \in Arrays(n)  BY <2>4 DEF Shuffled
    <3>2. Shuffled(a, c, n, l, r)  BY <2>2, <2>4, ShuffledAgain
    <3>. QED  BY <3>1, <3>2
  <2>6. c[r] = pivot
    <3>1. r # i /\ r # p  BY <2>2
    <3>. QED  BY <2>2, <2>3, <3>1
  <2>7. ASSUME NEW k \in l .. (p + 1) - 1 PROVE AtMost(c[k], pivot)
    <3>1. k \in 1 .. n /\ (k = p \/ (k \in l .. p - 1 /\ k # i))  BY <2>2
    <3>2. CASE k = p
      <4>1. c[k] = b[i]  BY <2>2, <2>3, <3>2
      <4>. QED  BY <2>2, <4>1
    <3>3. CASE k # p
      <4>1. c[k] = b[k] /\ k \in l .. p - 1  BY <2>3, <3>1, <3>3
      <4>. QED  BY <2>2, <4>1
    <3>. QED  BY <3>2, <3>3
  <2>8. ASSUME NEW k \in p + 1 .. (i + 1) - 1 PROVE ~AtMost(c[k], pivot)
    <3>1. k \in 1 .. n /\ k # p /\ p \in p .. i - 1 /\ (k = i \/ k \in p .. i - 1)  BY <2>2
    <3>2. CASE k = i
      <4>1. c[k] = b[p]  BY <2>3, <3>1, <3>2
      <4>. QED  BY <2>2, <3>1, <4>1
    <3>3. CASE k # i
      <4>1. c[k] = b[k] /\ k \in p .. i - 1  BY <2>3, <3>1, <3>3
      <4>. QED  BY <2>2, <4>1
    <3>. QED  BY <3>2, <3>3
  <2>9. p + 1 \in l .. i + 1 /\ p + 1 \in Int  BY <2>2
  <2>. QED  BY <2>1, <2>5, <2>6, <2>7, <2>8, <2>9 DEF Parted
<1>. QED  BY <1>2, <1>3

\* What partition yields: the pivot between the items that are at most it and the others.
IsPartition(p, a, n, l, r, pivot) ==
    /\ p.place \in l .. r /\ Shuffled(a, p.cells, n, l, r)
    /\ p.cells[p.place] = pivot
    /\ \A k \in l .. p.place - 1 : AtMost(p.cells[k], pivot)
    /\ \A k \in p.place + 1 .. r : ~AtMost(p.cells[k], pivot)

LEMMA PartitionEnds ==
    ASSUME NEW n \in Nat, NEW a \in Arrays(n), NEW l \in 1 .. n, NEW r \in 1 .. n, l <= r,
           NEW pivot, NEW s, Parted(s, a, n, l, r, r, pivot)
    PROVE  IsPartition([s EXCEPT !.cells = SwapCells(@, s.place, r)], a, n, l, r, pivot)
<1>. DEFINE p == s.place
            b == s.cells
            c == SwapCells(b, p, r)
            t == [s EXCEPT !.cells = SwapCells(@, s.place, r)]
<1>1. t.cells = c /\ t.place = p  BY DEF Parted
<1>2. /\ b \in Arrays(n) /\ p \in l .. r /\ p \in 1 .. n
      /\ Shuffled(a, b, n, l, r) /\ b[r] = pivot
      /\ \A k \in l .. p - 1 : AtMost(b[k], pivot)
      /\ \A k \in p .. r - 1 : ~AtMost(b[k], pivot)
  BY DEF Parted
<1>. HIDE DEF p, b, t
<1>3. \A k \in 1 .. n : c[k] = IF k = p THEN b[r] ELSE IF k = r THEN b[p] ELSE b[k]
  BY <1>2 DEF SwapCells, Arrays
<1>4. Shuffled(b, c, n, l, r)  BY <1>2, ShuffledSwap
<1>. HIDE DEF c
<1>5. Shuffled(a, c, n, l, r)  BY <1>2, <1>4, ShuffledAgain
<1>6. c[p] = pivot  BY <1>2, <1>3
<1>7. ASSUME NEW k \in l .. p - 1 PROVE AtMost(c[k], pivot)
  <2>1. k \in 1 .. n /\ k # p /\ k # r  BY <1>2
  <2>. QED  BY <1>2, <1>3, <2>1
<1>8. ASSUME NEW k \in p + 1 .. r PROVE ~AtMost(c[k], pivot)
  <2>1. k \in 1 .. n /\ k # p /\ p \in p .. r - 1 /\ (k = r \/ k \in p .. r - 1)  BY <1>2
  <2>2. CASE k = r
    <3>1. c[k] = b[p]  BY <1>3, <2>1, <2>2
    <3>. QED  BY <1>2, <2>1, <3>1
  <2>3. CASE k # r
    <3>1. c[k] = b[k] /\ k \in p .. r - 1  BY <1>3, <2>1, <2>3
    <3>. QED  BY <1>2, <3>1
  <2>. QED  BY <2>2, <2>3
<1>9. IsPartition(t, a, n, l, r, pivot)  BY <1>1, <1>2, <1>5, <1>6, <1>7, <1>8 DEF IsPartition
<1>. QED  BY <1>9 DEF t

\* The values of the loop of partition.
Sweep(swept, a, l, r, q) ==
    swept = [i \in l .. r |->
                IF i = l THEN [cells |-> SwapCells(a, q, r), place |-> l]
                ELSE Advance(swept[i - 1], i - 1, a[q])]

LEMMA SweepExists ==
    ASSUME NEW n \in Nat, NEW a \in Arrays(n), NEW l \in 1 .. n, NEW r \in 1 .. n, l <= r, NEW q \in l .. r
    PROVE  \E swept : Sweep(swept, a, l, r, q)
<1>. DEFINE W == [i \in l .. r |-> {s \in [cells : Arrays(n), place : Int] : Parted(s, a, n, l, r, i, a[q])}]
            op == [i \in l .. r |-> [s \in [cells : Arrays(n), place : Int] |-> Advance(s, i - 1, a[q])]]
            base == [cells |-> SwapCells(a, q, r), place |-> l]
<1>1. base \in W[l]
  <2>1. Parted(base, a, n, l, r, l, a[q])  BY PartitionStarts
  <2>2. base \in [cells : Arrays(n), place : Int]  BY <2>1 DEF Parted
  <2>. QED  BY <2>1, <2>2
<1>2. ASSUME NEW i \in l .. r, i # r, NEW x \in W[i] PROVE op[i + 1][x] \in W[i + 1]
  <2>1. Parted(x, a, n, l, r, i, a[q]) /\ x \in [cells : Arrays(n), place : Int]  OBVIOUS
  <2>2. i + 1 \in l .. r /\ (i + 1) - 1 = i  BY <1>2
  <2>3. op[i + 1][x] = Advance(x, i, a[q])  BY <2>1, <2>2
  <2>4. Parted(Advance(x, i, a[q]), a, n, l, r, i + 1, a[q])  BY <1>2, <2>1, PartitionAdvances
  <2>5. Advance(x, i, a[q]) \in W[i + 1]  BY <2>2, <2>4 DEF Parted
  <2>. QED  BY <2>3, <2>5
<1>3. \A i \in l .. r : W[i] \subseteq [cells : Arrays(n), place : Int]  OBVIOUS
<1>4. \A i \in l .. r : \A x \in [cells : Arrays(n), place : Int] : op[i][x] = Advance(x, i - 1, a[q])  OBVIOUS
<1>. HIDE DEF W, op, base
<1>a. \A i \in l .. r : i # r => \A x \in W[i] : op[i + 1][x] \in W[i + 1]  BY <1>2
<1>b. l \in Int /\ r \in Int  OBVIOUS
<1>c. \E g : Chain(g, l, r, base, op)  BY <1>1, <1>a, <1>b, ChainExists
<1>5. PICK g : Chain(g, l, r, base, op)  BY <1>c
<1>6. \A i \in l .. r : g[i] \in W[i]  BY <1>1, <1>a, <1>b, <1>5, ChainType
<1>7. ASSUME NEW i \in l .. r, i # l PROVE op[i][g[i - 1]] = Advance(g[i - 1], i - 1, a[q])
  <2>1. i - 1 \in l .. r  BY <1>7
  <2>. QED  BY <1>3, <1>4, <1>6, <2>1
<1>8. [i \in l .. r |-> IF i = l THEN base ELSE op[i][g[i - 1]]]
      = [i \in l .. r |-> IF i = l THEN base ELSE Advance(g[i - 1], i - 1, a[q])]
  BY <1>7
<1>. QED  BY <1>5, <1>8 DEF Sweep, Chain, base

LEMMA PartitionDoes ==
    ASSUME NEW n \in Nat, NEW a \in Arrays(n), NEW l \in 1 .. n, NEW r \in 1 .. n, l <= r, NEW q \in l .. r
    PROVE  IsPartition(partition(a, l, r, q), a, n, l, r, a[q])
<1>. DEFINE swept == CHOOSE f : Sweep(f, a, l, r, q)
<1>1. Sweep(swept, a, l, r, q)  BY SweepExists
<1>2. partition(a, l, r, q) = [swept[r] EXCEPT !.cells = SwapCells(@, swept[r].place, r)]  BY DEF partition, Sweep
<1>. HIDE DEF swept
<1>. DEFINE T == {i \in l .. r : Parted(swept[i], a, n, l, r, i, a[q])}
<1>3. l \in T
  <2>1. swept[l] = [cells |-> SwapCells(a, q, r), place |-> l]  BY <1>1 DEF Sweep
  <2>. QED  BY <2>1, PartitionStarts
<1>4. ASSUME NEW i \in l .. r, i # r, i \in T PROVE i + 1 \in T
  <2>1. i + 1 \in l .. r /\ i + 1 # l /\ (i + 1) - 1 = i  BY <1>4
  <2>2. swept[i + 1] = Advance(swept[i], i, a[q])  BY <1>1, <2>1 DEF Sweep
  <2>3. Parted(Advance(swept[i], i, a[q]), a, n, l, r, i + 1, a[q])  BY <1>4, PartitionAdvances
  <2>. QED  BY <2>1, <2>2, <2>3
<1>5. \A i \in l .. r : i \in T
  <2>. HIDE DEF T
  <2>. QED  BY <1>3, <1>4, IntervalInduction
<1>6. Parted(swept[r], a, n, l, r, r, a[q])  BY <1>5
<1>. QED  BY <1>2, <1>6, PartitionEnds

-----------------------------------------------------------------------------
(* Vector: quickSort *)

\* The stretches of at most d + 1 cells.
Narrow(n, d) == {s \in Stretches(n) : s.right - s.left <= d}

Half(s) == partition(s.cells, s.left, s.right, (s.left + s.right) \div 2)
LowerHalf(s) == Stretch(Half(s).cells, s.left, Half(s).place - 1)
UpperHalf(s, lower) == Stretch(lower, Half(s).place + 1, s.right)

\* What quickSort makes of a stretch, with g for its halves.
Quick(g, s) ==
    IF s.left >= s.right THEN s.cells ELSE g[UpperHalf(s, g[LowerHalf(s)])]

LEMMA StretchParts ==
    ASSUME NEW n \in Nat, NEW s \in Stretches(n)
    PROVE  /\ s.cells \in Arrays(n) /\ s.left \in 1 .. n + 1 /\ s.right \in 0 .. n
           /\ s = Stretch(s.cells, s.left, s.right)
BY DEF Stretches, Stretch, Arrays, Cell

LEMMA StretchOf ==
    ASSUME NEW n \in Nat, NEW a \in Arrays(n), NEW l \in 1 .. n + 1, NEW r \in 0 .. n
    PROVE  /\ Stretch(a, l, r) \in Stretches(n)
           /\ Stretch(a, l, r).cells = a /\ Stretch(a, l, r).left = l /\ Stretch(a, l, r).right = r
BY DEF Stretches, Stretch, Arrays, Cell

\* Both halves are narrower than the whole.
LEMMA Halves ==
    ASSUME NEW n \in Nat, NEW d \in Nat, NEW s \in Narrow(n, d + 1), ~(s.left >= s.right)
    PROVE  /\ IsPartition(Half(s), s.cells, n, s.left, s.right, s.cells[(s.left + s.right) \div 2])
           /\ Half(s).place \in s.left .. s.right /\ s.left \in 1 .. n /\ s.right \in 1 .. n
           /\ LowerHalf(s) \in Narrow(n, d)
           /\ \A b \in Arrays(n) : UpperHalf(s, b) \in Narrow(n, d)
<1>. DEFINE l == s.left
            r == s.right
            c == s.cells
            q == (l + r) \div 2
            p == partition(c, l, r, q)
<1>1. s \in Stretches(n) /\ r - l <= d + 1  BY DEF Narrow
<1>2. c \in Arrays(n) /\ l \in 1 .. n /\ r \in 1 .. n /\ l < r
  BY <1>1, StretchParts
<1>3. q \in l .. r  BY <1>2
<1>4. Half(s) = p  BY DEF Half
<1>5. r - l <= d + 1  BY <1>1
<1>6. LowerHalf(s) = Stretch(p.cells, l, p.place - 1) /\ \A b : UpperHalf(s, b) = Stretch(b, p.place + 1, r)
  BY <1>4 DEF LowerHalf, UpperHalf
<1>. HIDE DEF l, r, c, q
<1>7. IsPartition(p, c, n, l, r, c[q])  BY <1>2, <1>3, PartitionDoes
<1>. HIDE DEF p
<1>8. p.place \in l .. r /\ p.cells \in Arrays(n)  BY <1>7 DEF IsPartition, Shuffled
<1>9. p.place - 1 \in 0 .. n /\ p.place + 1 \in 1 .. n + 1 /\ l \in 1 .. n + 1 /\ r \in 0 .. n
      /\ (p.place - 1) - l <= d /\ r - (p.place + 1) <= d
  BY <1>2, <1>5, <1>8
<1>10. LowerHalf(s) \in Narrow(n, d)
  <2>1. /\ Stretch(p.cells, l, p.place - 1) \in Stretches(n)
        /\ Stretch(p.cells, l, p.place - 1).left = l /\ Stretch(p.cells, l, p.place - 1).right = p.place - 1
    BY <1>8, <1>9, StretchOf
  <2>. QED  BY <1>6, <1>9, <2>1 DEF Narrow
<1>11. ASSUME NEW b \in Arrays(n) PROVE UpperHalf(s, b) \in Narrow(n, d)
  <2>1. /\ Stretch(b, p.place + 1, r) \in Stretches(n)
        /\ Stretch(b, p.place + 1, r).left = p.place + 1 /\ Stretch(b, p.place + 1, r).right = r
    BY <1>9, StretchOf
  <2>. QED  BY <1>6, <1>9, <2>1 DEF Narrow
<1>. QED
  <2>1. IsPartition(Half(s), c, n, l, r, c[q]) /\ Half(s).place \in l .. r  BY <1>4, <1>7, <1>8
  <2>. QED  BY <1>2, <1>10, <1>11, <2>1 DEF c, l, r, q

LEMMA QuickExists ==
    ASSUME NEW n \in Nat
    PROVE  \E g : g = [s \in Stretches(n) |-> Quick(g, s)]
<1>. DEFINE Reached(d) == \E g \in [Narrow(n, d) -> Arrays(n)] : \A s \in Narrow(n, d) : g[s] = Quick(g, s)
<1>1. Reached(0)
  <2>. DEFINE g == [s \in Narrow(n, 0) |-> s.cells]
  <2>1. ASSUME NEW s \in Narrow(n, 0) PROVE s.cells \in Arrays(n) /\ g[s] = Quick(g, s)
    <3>1. s \in Stretches(n) /\ s.right - s.left <= 0  BY DEF Narrow
    <3>2. s.cells \in Arrays(n) /\ s.left >= s.right  BY <3>1, StretchParts
    <3>. QED  BY <3>2 DEF Quick
  <2>2. g \in [Narrow(n, 0) -> Arrays(n)]  BY <2>1
  <2>. QED  BY <2>1, <2>2
<1>2. ASSUME NEW d \in Nat, Reached(d) PROVE Reached(d + 1)
  <2>1. PICK g \in [Narrow(n, d) -> Arrays(n)] : \A s \in Narrow(n, d) : g[s] = Quick(g, s)  BY <1>2
  <2>. DEFINE wider == [s \in Narrow(n, d + 1) |-> Quick(g, s)]
  <2>2. ASSUME NEW s \in Narrow(n, d) PROVE s \in Narrow(n, d + 1) /\ wider[s] = g[s]
    <3>1. s \in Narrow(n, d + 1)
      <4>1. s \in Stretches(n) /\ s.right - s.left <= d  BY DEF Narrow
      <4>2. s.left \in Int /\ s.right \in Int  BY <4>1, StretchParts
      <4>. QED  BY <4>1, <4>2 DEF Narrow
    <3>2. wider[s] = Quick(g, s)  BY <3>1
    <3>. QED  BY <2>1, <3>1, <3>2
  <2>3. ASSUME NEW s \in Narrow(n, d + 1) PROVE wider[s] \in Arrays(n) /\ wider[s] = Quick(wider, s)
    <3>1. wider[s] = Quick(g, s)  OBVIOUS
    <3>. HIDE DEF wider
    <3>2. CASE s.left >= s.right
      <4>1. s.cells \in Arrays(n)  BY StretchParts DEF Narrow
      <4>. QED  BY <3>1, <3>2, <4>1 DEF Quick
    <3>3. CASE ~(s.left >= s.right)
      <4>1. LowerHalf(s) \in Narrow(n, d)  BY <3>3, Halves
      <4>2. g[LowerHalf(s)] \in Arrays(n) /\ wider[LowerHalf(s)] = g[LowerHalf(s)]  BY <2>1, <2>2, <4>1
      <4>3. UpperHalf(s, g[LowerHalf(s)]) \in Narrow(n, d)  BY <3>3, <4>2, Halves
      <4>4. /\ g[UpperHalf(s, g[LowerHalf(s)])] \in Arrays(n)
            /\ wider[UpperHalf(s, g[LowerHalf(s)])] = g[UpperHalf(s, g[LowerHalf(s)])]
        BY <2>1, <2>2, <4>3
      <4>5. Quick(g, s) = g[UpperHalf(s, g[LowerHalf(s)])] /\ Quick(wider, s) = wider[UpperHalf(s, wider[LowerHalf(s)])]
        BY <3>3 DEF Quick
      <4>. QED  BY <3>1, <4>2, <4>4, <4>5
    <3>. QED  BY <3>2, <3>3
  <2>4. wider \in [Narrow(n, d + 1) -> Arrays(n)]
    <3>1. \A s \in Narrow(n, d + 1) : Quick(g, s) \in Arrays(n)  BY <2>3
    <3>. QED  BY <3>1
  <2>. HIDE DEF wider
  <2>. QED  BY <2>3, <2>4
<1>3. Reached(n)
  <2>. HIDE DEF Reached
  <2>. DEFINE Upto == {d \in Nat : Reached(d)}
  <2>1. Upto \in SUBSET Nat /\ 0 \in Upto /\ \A d \in Upto : d + 1 \in Upto  BY <1>1, <1>2
  <2>. HIDE DEF Upto
  <2>2. Upto = Nat  BY <2>1, NatSetInduction
  <2>. QED  BY <2>2 DEF Upto
<1>4. Narrow(n, n) = Stretches(n)
  <2>1. ASSUME NEW s \in Stretches(n) PROVE s.right - s.left <= n
    <3>1. s.left \in 1 .. n + 1 /\ s.right \in 0 .. n  BY StretchParts
    <3>. QED  BY <3>1
  <2>. QED  BY <2>1 DEF Narrow
<1>5. PICK g \in [Narrow(n, n) -> Arrays(n)] : \A s \in Narrow(n, n) : g[s] = Quick(g, s)  BY <1>3
<1>6. g = [s \in Stretches(n) |-> g[s]] /\ \A s \in Stretches(n) : g[s] = Quick(g, s)  BY <1>4, <1>5
<1>. QED  BY <1>6

InOrder(a, l, r) == \A i, j \in l .. r : i < j => AtMost(a[i], a[j])
AllItems(a, l, r) == \A i \in l .. r : a[i] \in Object

\* The array b has the stretch s in order, if it is one of items.
Sorts(s, b, n) ==
    /\ Shuffled(s.cells, b, n, s.left, s.right)
    /\ AllItems(s.cells, s.left, s.right) => InOrder(b, s.left, s.right)

LEMMA ShuffledAllItems ==
    ASSUME NEW n \in Nat, NEW a, NEW b, NEW l \in 1 .. n + 1, NEW r \in 0 .. n, Shuffled(a, b, n, l, r), AllItems(a, l, r)
    PROVE  AllItems(b, l, r)
<1>1. \A i \in l .. r : i \in 1 .. n  OBVIOUS
<1>2. \A i \in 1 .. n : i \in l .. r => \E j \in 1 .. n : j \in l .. r /\ b[i] = a[j]  BY ShuffledItems
<1>. QED  BY <1>1, <1>2 DEF AllItems

\* Sorting both halves sorts the whole.
LEMMA HalvesSort ==
    ASSUME NEW n \in Nat, NEW a \in Arrays(n), NEW l \in 1 .. n, NEW r \in 1 .. n, l < r,
           NEW p, NEW pivot, IsPartition(p, a, n, l, r, pivot), pivot \in {a[i] : i \in l .. r},
           NEW low, Sorts(Stretch(p.cells, l, p.place - 1), low, n),
           NEW b, Sorts(Stretch(low, p.place + 1, r), b, n)
    PROVE  Sorts(Stretch(a, l, r), b, n)
<1>. DEFINE m == p.place
            c == p.cells
<1>1. /\ m \in l .. r /\ m \in 1 .. n /\ Shuffled(a, c, n, l, r) /\ c[m] = pivot
      /\ \A k \in l .. m - 1 : AtMost(c[k], pivot)
      /\ \A k \in m + 1 .. r : ~AtMost(c[k], pivot)
  BY DEF IsPartition
<1>2. c \in Arrays(n)  BY <1>1 DEF Shuffled
<1>3. Shuffled(c, low, n, l, m - 1) /\ (AllItems(c, l, m - 1) => InOrder(low, l, m - 1))
  BY DEF Sorts, Stretch
<1>4. Shuffled(low, b, n, m + 1, r) /\ (AllItems(low, m + 1, r) => InOrder(b, m + 1, r))
  BY DEF Sorts, Stretch
<1>. HIDE DEF m, c
<1>5. m \in Int /\ m - 1 \in 0 .. n /\ m + 1 \in 1 .. n + 1 /\ l \in 1 .. n + 1 /\ r \in 0 .. n /\ m - 1 <= r /\ l <= m + 1  BY <1>1
<1>6. Shuffled(a, low, n, l, r)  BY <1>1, <1>3, <1>5, ShuffledAgain
<1>7. Shuffled(a, b, n, l, r)  BY <1>4, <1>5, <1>6, ShuffledAgain
<1>8. ASSUME AllItems(a, l, r) PROVE InOrder(b, l, r)
  <2>1. AllItems(c, l, r) /\ AllItems(low, l, r) /\ AllItems(b, l, r)  BY <1>1, <1>5, <1>6, <1>7, <1>8, ShuffledAllItems
  <2>2. AllItems(c, l, m - 1) /\ AllItems(low, m + 1, r)  BY <1>1, <2>1 DEF AllItems
  <2>3. InOrder(low, l, m - 1) /\ InOrder(b, m + 1, r)  BY <1>3, <1>4, <2>2
  <2>4. /\ \A i \in 1 .. n : i \notin l .. m - 1 => low[i] = c[i]
        /\ \A i \in 1 .. n : i \in l .. m - 1 => \E j \in 1 .. n : j \in l .. m - 1 /\ low[i] = c[j]
    BY <1>3, <1>5, ShuffledItems
  <2>5. /\ \A i \in 1 .. n : i \notin m + 1 .. r => b[i] = low[i]
        /\ \A i \in 1 .. n : i \in m + 1 .. r => \E j \in 1 .. n : j \in m + 1 .. r /\ b[i] = low[j]
    BY <1>4, <1>5, ShuffledItems
  <2>6. b[m] = pivot
    <3>1. m \notin l .. m - 1 /\ m \notin m + 1 .. r  BY <1>1
    <3>. QED  BY <1>1, <2>4, <2>5, <3>1
  <2>7. ASSUME NEW k \in l .. m - 1 PROVE b[k] = low[k] /\ AtMost(b[k], pivot)
    <3>1. k \in 1 .. n /\ k \notin m + 1 .. r  BY <1>1
    <3>2. b[k] = low[k]  BY <2>5, <3>1
    <3>3. PICK j \in 1 .. n : j \in l .. m - 1 /\ low[k] = c[j]  BY <2>4, <3>1
    <3>. QED  BY <1>1, <3>2, <3>3
  <2>8. ASSUME NEW k \in m + 1 .. r PROVE ~AtMost(b[k], pivot)
    <3>1. k \in 1 .. n  BY <1>1
    <3>2. PICK j \in 1 .. n : j \in m + 1 .. r /\ b[k] = low[j]  BY <2>5, <3>1
    <3>3. j \notin l .. m - 1  BY <1>1, <3>2
    <3>4. low[j] = c[j]  BY <2>4, <3>2, <3>3
    <3>. QED  BY <1>1, <3>2, <3>4
  <2>9. pivot \in Object /\ \A k \in l .. r : b[k] \in Object  BY <1>8, <2>1 DEF AllItems
  <2>10. KeyOf[pivot] \in Int /\ \A k \in l .. r : KeyOf[b[k]] \in Int  BY <2>9, VectorAssumption
  <2>11. SUFFICES ASSUME NEW i \in l .. r, NEW j \in l .. r, i < j PROVE AtMost(b[i], b[j])  BY DEF InOrder
  <2>12. CASE j < m
    <3>1. i \in l .. m - 1 /\ j \in l .. m - 1  BY <1>1, <2>11, <2>12
    <3>2. AtMost(low[i], low[j])  BY <2>3, <2>11, <3>1 DEF InOrder
    <3>. QED  BY <2>7, <3>1, <3>2
  <2>13. CASE j = m
    <3>1. i \in l .. m - 1  BY <1>1, <2>11, <2>13
    <3>. QED  BY <2>6, <2>7, <2>13, <3>1
  <2>14. CASE j > m
    <3>1. j \in m + 1 .. r  BY <1>1, <2>14
    <3>2. ~AtMost(b[j], pivot)  BY <2>8, <3>1
    <3>3. CASE i > m
      <4>1. i \in m + 1 .. r  BY <1>1, <3>3
      <4>. QED  BY <2>3, <2>11, <3>1, <4>1 DEF InOrder
    <3>4. CASE i <= m
      <4>1. AtMost(b[i], pivot)
        <5>1. CASE i = m  BY <2>6, <2>10, <5>1 DEF AtMost, compare
        <5>2. CASE i # m
          <6>1. i \in l .. m - 1  BY <1>1, <3>4, <5>2
          <6>. QED  BY <2>7, <6>1
        <5>. QED  BY <5>1, <5>2
      <4>. QED  BY <2>10, <3>2, <4>1 DEF AtMost, compare
    <3>. QED  BY <1>1, <3>3, <3>4
  <2>. QED  BY <1>1, <2>12, <2>13, <2>14
<1>. QED  BY <1>7, <1>8 DEF Sorts, Stretch

LEMMA QuickSorts ==
    ASSUME NEW n \in Nat, NEW g, g = [s \in Stretches(n) |-> Quick(g, s)]
    PROVE  \A s \in Stretches(n) : Sorts(s, g[s], n)
<1>. DEFINE Upto == {d \in Nat : \A s \in Narrow(n, d) : Sorts(s, g[s], n)}
<1>1. \A s \in Stretches(n) : g[s] = Quick(g, s)  OBVIOUS
<1>2. ASSUME NEW s \in Stretches(n), s.left >= s.right PROVE Sorts(s, g[s], n)
  <2>1. g[s] = s.cells  BY <1>1, <1>2 DEF Quick
  <2>2. s.cells \in Arrays(n) /\ s.left \in Int /\ s.right \in Int  BY StretchParts
  <2>3. Shuffled(s.cells, s.cells, n, s.left, s.right)  BY <2>2, ShuffledNot
  <2>4. InOrder(s.cells, s.left, s.right)  BY <1>2, <2>2 DEF InOrder
  <2>. QED  BY <2>1, <2>3, <2>4 DEF Sorts
<1>3. 0 \in Upto
  <2>1. \A s \in Narrow(n, 0) : s \in Stretches(n) /\ s.left >= s.right
    <3>1. SUFFICES ASSUME NEW s \in Narrow(n, 0) PROVE s \in Stretches(n) /\ s.left >= s.right  OBVIOUS
    <3>2. s \in Stretches(n) /\ s.right - s.left <= 0  BY DEF Narrow
    <3>3. s.left \in Int /\ s.right \in Int  BY <3>2, StretchParts
    <3>. QED  BY <3>2, <3>3
  <2>. QED  BY <1>2, <2>1
<1>4. ASSUME NEW d \in Upto PROVE d + 1 \in Upto
  <2>1. SUFFICES ASSUME NEW s \in Narrow(n, d + 1), ~(s.left >= s.right) PROVE Sorts(s, g[s], n)
    BY <1>2 DEF Narrow
  <2>. DEFINE l == s.left
              r == s.right
              a == s.cells
              p == Half(s)
              low == g[LowerHalf(s)]
              pivot == a[(l + r) \div 2]
  <2>2. d \in Nat  OBVIOUS
  <2>3. s \in Stretches(n) /\ a \in Arrays(n) /\ l \in 1 .. n + 1 /\ r \in 0 .. n /\ s = Stretch(a, l, r)
    BY StretchParts DEF Narrow
  <2>4. /\ IsPartition(p, a, n, l, r, pivot) /\ l \in 1 .. n /\ r \in 1 .. n
        /\ LowerHalf(s) \in Narrow(n, d) /\ \A b \in Arrays(n) : UpperHalf(s, b) \in Narrow(n, d)
    BY <2>1, <2>2, Halves
  <2>5. Sorts(LowerHalf(s), low, n)  BY <2>4
  <2>6. low \in Arrays(n)  BY <2>5 DEF Sorts, Shuffled
  <2>7. UpperHalf(s, low) \in Narrow(n, d)  BY <2>4, <2>6
  <2>8. Sorts(UpperHalf(s, low), g[UpperHalf(s, low)], n)  BY <2>7
  <2>9. g[s] = g[UpperHalf(s, low)]  BY <1>1, <2>1, <2>3 DEF Quick
  <2>10. LowerHalf(s) = Stretch(p.cells, l, p.place - 1) /\ UpperHalf(s, low) = Stretch(low, p.place + 1, r)
    BY DEF LowerHalf, UpperHalf
  <2>11. l < r /\ (l + r) \div 2 \in l .. r  BY <2>1, <2>4
  <2>12. pivot \in {a[i] : i \in l .. r}  BY <2>11
  <2>. HIDE DEF l, r, a, p, low, pivot
  <2>13. Sorts(Stretch(a, l, r), g[s], n)
    BY <2>3, <2>4, <2>5, <2>8, <2>9, <2>10, <2>11, <2>12, HalvesSort
  <2>. QED  BY <2>3, <2>13
<1>5. Upto = Nat
  <2>. HIDE DEF Upto
  <2>1. Upto \in SUBSET Nat  BY DEF Upto
  <2>. QED  BY <1>3, <1>4, <2>1, NatSetInduction
<1>6. SUFFICES ASSUME NEW s \in Stretches(n) PROVE Sorts(s, g[s], n)  OBVIOUS
<1>7. s \in Narrow(n, n)
  <2>1. s.left \in 1 .. n + 1 /\ s.right \in 0 .. n  BY StretchParts
  <2>. QED  BY <2>1 DEF Narrow
<1>. QED  BY <1>5, <1>7

\* quickSort puts a stretch of items in order, and only changes their order.
LEMMA QuickSortSorts ==
    ASSUME NEW a \in Seq(Cell), NEW l \in 1 .. Len(a) + 1, NEW r \in 0 .. Len(a)
    PROVE  /\ Shuffled(a, quickSort(a, l, r), Len(a), l, r)
           /\ AllItems(a, l, r) => InOrder(quickSort(a, l, r), l, r)
<1>. DEFINE n == Len(a)
            sorted == CHOOSE g : g = [s \in Stretches(n) |-> Quick(g, s)]
<1>1. n \in Nat /\ a \in Arrays(n)  BY DEF Arrays
<1>2. sorted = [s \in Stretches(n) |-> Quick(sorted, s)]  BY <1>1, QuickExists
<1>3. quickSort(a, l, r) = sorted[Stretch(a, l, r)]
  BY DEF quickSort, Quick, Half, LowerHalf, UpperHalf
<1>. HIDE DEF sorted, n
<1>4. l \in 1 .. n + 1 /\ r \in 0 .. n  BY DEF n
<1>5. Stretch(a, l, r) \in Stretches(n)  BY <1>1, <1>4, StretchOf
<1>6. Sorts(Stretch(a, l, r), sorted[Stretch(a, l, r)], n)  BY <1>1, <1>2, <1>5, QuickSorts
<1>. QED  BY <1>1, <1>3, <1>4, <1>6, StretchOf DEF Sorts, n

-----------------------------------------------------------------------------
(* Vector: insertionSort *)

\* The array b has the first m cells of a in order, and those of equal items in their old order.
Settles(pi, a, b, m) ==
    /\ Moves(pi, Len(a), 1, m)
    /\ \A i \in 1 .. Len(a) : b[i] = a[pi[i]]
    /\ \A i, j \in 1 .. m : i < j => AtMost(b[i], b[j]) /\ (AtMost(b[j], b[i]) => pi[i] < pi[j])

Settled(a, b, m) == \E pi : Settles(pi, a, b, m)

\* The place that insertionSort finds for the item of cell i.
IsPlace(k, a, i) ==
    /\ \A j \in k .. (i - 1) : Sink(a, j, a[i])
    /\ ~Sink(a, k - 1, a[i])

LEMMA PlaceExists ==
    ASSUME NEW a, NEW i \in Nat \ {0}
    PROVE  \E k \in 1 .. i : IsPlace(k, a, i)
<1>. DEFINE S == {k \in 1 .. i : \A j \in k .. (i - 1) : Sink(a, j, a[i])}
<1>1. i \in S  OBVIOUS
<1>2. S \in SUBSET Int /\ S # {} /\ \A x \in S : x >= 1  BY <1>1
<1>3. PICK k \in S : \A y \in S : k <= y
  <2>. HIDE DEF S
  <2>. QED  BY <1>2, LeastExists
<1>4. k \in 1 .. i /\ \A j \in k .. (i - 1) : Sink(a, j, a[i])  OBVIOUS
<1>5. ASSUME Sink(a, k - 1, a[i]) PROVE FALSE
  <2>1. k - 1 >= 1  BY <1>5 DEF Sink
  <2>2. \A j \in k - 1 .. (i - 1) : j = k - 1 \/ j \in k .. (i - 1)  BY <1>4
  <2>3. k - 1 \in S  BY <1>4, <1>5, <2>1, <2>2
  <2>. QED  BY <1>3, <1>4, <2>3
<1>. QED  BY <1>4, <1>5 DEF IsPlace

\* An item that goes to its place leaves the items before it, and itself, in order.
LEMMA SunkSettles ==
    ASSUME NEW a \in Seq(Cell), NEW i \in 1 .. Len(a), i >= 2, AllItems(a, 1, i),
           NEW b \in Arrays(Len(a)), Settled(a, b, i - 1)
    PROVE  Sunk(b, i) \in Arrays(Len(a)) /\ Settled(a, Sunk(b, i), i)
<1>. DEFINE n == Len(a)
            t == b[i]
            place == CHOOSE k \in 1 .. i : IsPlace(k, b, i)
            rho == [j \in 1 .. n |-> IF j = place THEN i ELSE IF j \in (place + 1) .. i THEN j - 1 ELSE j]
            c == Sunk(b, i)
<1>1. place \in 1 .. i /\ IsPlace(place, b, i)
  <2>1. i \in Nat \ {0}  OBVIOUS
  <2>2. \E k \in 1 .. i : IsPlace(k, b, i)  BY <2>1, PlaceExists
  <2>. QED  BY <2>2
<1>2. c = [j \in DOMAIN b |-> IF j = place THEN t ELSE IF j \in (place + 1) .. i THEN b[j - 1] ELSE b[j]]
  BY DEF Sunk, IsPlace
<1>. HIDE DEF c, place
<1>3. n \in Nat /\ i \in 1 .. n /\ place \in 1 .. n /\ DOMAIN b = 1 .. n  BY <1>1 DEF Arrays
<1>4. \A j \in 1 .. n : rho[j] \in 1 .. n /\ c[j] = b[rho[j]]
  <2>1. SUFFICES ASSUME NEW j \in 1 .. n PROVE rho[j] \in 1 .. n /\ c[j] = b[rho[j]]  OBVIOUS
  <2>2. rho[j] = IF j = place THEN i ELSE IF j \in (place + 1) .. i THEN j - 1 ELSE j  OBVIOUS
  <2>3. c[j] = IF j = place THEN t ELSE IF j \in (place + 1) .. i THEN b[j - 1] ELSE b[j]  BY <1>2, <1>3
  <2>. HIDE DEF rho
  <2>. QED  BY <1>1, <1>3, <2>2, <2>3
<1>5. c \in Arrays(n)
  <2>1. \A j \in 1 .. n : c[j] \in Cell  BY <1>4 DEF Arrays
  <2>2. c = [j \in 1 .. n |-> c[j]]  BY <1>2, <1>3
  <2>. QED  BY <2>1, <2>2 DEF Arrays
<1>6. Moves(rho, n, 1, i)
  <2>1. rho \in [1 .. n -> 1 .. n]  BY <1>4
  <2>2. \A x, y \in 1 .. n : rho[x] = rho[y] => x = y  BY <1>1, <1>3
  <2>3. ASSUME NEW k \in 1 .. n PROVE \E x \in 1 .. n : rho[x] = k
    <3>1. CASE k = i  BY <1>3, <3>1
    <3>2. CASE k \in place .. i - 1
      <4>1. k + 1 \in 1 .. n /\ k + 1 # place /\ k + 1 \in (place + 1) .. i  BY <1>1, <1>3, <3>2
      <4>2. rho[k + 1] = (k + 1) - 1  BY <4>1
      <4>. QED  BY <4>1, <4>2
    <3>3. CASE k # i /\ k \notin place .. i - 1
      <4>1. k # place /\ k \notin (place + 1) .. i  BY <1>1, <1>3, <3>3
      <4>. QED  BY <4>1
    <3>. QED  BY <3>1, <3>2, <3>3
  <2>4. \A k \in 1 .. n : IF k \in 1 .. i THEN rho[k] \in 1 .. i ELSE rho[k] = k  BY <1>1, <1>3
  <2>. HIDE DEF rho
  <2>. QED  BY <2>1, <2>2, <2>3, <2>4 DEF Moves
<1>7. PICK pi : Settles(pi, a, b, i - 1)  BY DEF Settled
<1>8. /\ Moves(pi, n, 1, i - 1) /\ \A k \in 1 .. n : b[k] = a[pi[k]]
      /\ \A x, y \in 1 .. i - 1 : x < y => AtMost(b[x], b[y]) /\ (AtMost(b[y], b[x]) => pi[x] < pi[y])
  BY <1>7 DEF Settles
<1>. DEFINE both == [k \in 1 .. n |-> pi[rho[k]]]
<1>9. Moves(both, n, 1, i)
  <2>1. Composed(both, pi, rho, n)  BY DEF Composed
  <2>. HIDE DEF rho, both
  <2>2. 1 \in Int /\ i \in Int /\ i - 1 \in Int /\ 1 <= 1 /\ i - 1 <= i /\ i <= i  BY <1>3
  <2>3. Moves(pi, n, 1, i - 1) /\ Moves(rho, n, 1, i) /\ n \in Nat  BY <1>3, <1>6, <1>8
  <2>. HIDE DEF n
  <2>. QED  BY <2>1, <2>2, <2>3, MovesAgain
<1>10. \A k \in 1 .. n : c[k] = a[both[k]] /\ both[k] = pi[rho[k]]
  <2>. HIDE DEF rho
  <2>. QED  BY <1>4, <1>8
<1>11. /\ \A k \in 1 .. i - 1 : pi[k] \in 1 .. i - 1
       /\ pi[i] = i
  <2>1. i \notin 1 .. i - 1 /\ \A k \in 1 .. i - 1 : k \in 1 .. n  BY <1>3
  <2>. QED  BY <1>3, <1>8, <2>1 DEF Moves
<1>12. KeyOf[t] \in Int /\ \A k \in 1 .. i : KeyOf[b[k]] \in Int
  <2>1. ASSUME NEW k \in 1 .. i PROVE KeyOf[b[k]] \in Int
    <3>1. k \in 1 .. n /\ pi[k] \in 1 .. i  BY <1>3, <1>11
    <3>2. b[k] \in Object  BY <1>8, <3>1 DEF AllItems
    <3>. QED  BY <3>2, VectorAssumption
  <2>. QED  BY <1>3, <2>1
<1>13. /\ \A j \in place .. (i - 1) : ~AtMost(b[j], t)
       /\ place > 1 => AtMost(b[place - 1], t)
  <2>1. ASSUME NEW j \in place .. (i - 1) PROVE ~AtMost(b[j], t)
    <3>1. Sink(b, j, t)  BY <1>1 DEF IsPlace
    <3>2. j \in 1 .. i  BY <1>1, <1>3
    <3>. QED  BY <1>12, <3>1, <3>2 DEF Sink, AtMost, compare
  <2>2. ASSUME place > 1 PROVE AtMost(b[place - 1], t)
    <3>1. ~Sink(b, place - 1, t)  BY <1>1 DEF IsPlace
    <3>2. place - 1 \in 1 .. i /\ place - 1 >= 1  BY <1>1, <1>3, <2>2
    <3>. QED  BY <1>12, <3>1, <3>2 DEF Sink, AtMost, compare
  <2>. QED  BY <2>1, <2>2
<1>14. ASSUME NEW x \in 1 .. i, NEW y \in 1 .. i, x < y
       PROVE  AtMost(c[x], c[y]) /\ (AtMost(c[y], c[x]) => both[x] < both[y])
  <2>1. x \in 1 .. n /\ y \in 1 .. n  BY <1>3
  <2>2. c[x] = b[rho[x]] /\ c[y] = b[rho[y]] /\ both[x] = pi[rho[x]] /\ both[y] = pi[rho[y]]
    BY <1>4, <1>10, <2>1
  <2>3. /\ rho[x] = IF x = place THEN i ELSE IF x \in (place + 1) .. i THEN x - 1 ELSE x
        /\ rho[y] = IF y = place THEN i ELSE IF y \in (place + 1) .. i THEN y - 1 ELSE y
    BY <2>1
  <2>. HIDE DEF rho, both
  <2>4. CASE x # place /\ y # place
    <3>1. rho[x] \in 1 .. i - 1 /\ rho[y] \in 1 .. i - 1 /\ rho[x] < rho[y]  BY <1>1, <1>3, <1>14, <2>3, <2>4
    <3>. QED  BY <1>8, <2>2, <3>1
  <2>5. CASE y = place
    <3>1. rho[x] = x /\ rho[y] = i /\ x \in 1 .. i - 1 /\ place - 1 \in 1 .. i - 1 /\ x <= place - 1 /\ place > 1
      BY <1>1, <1>3, <1>14, <2>3, <2>5
    <3>2. AtMost(b[x], t)
      <4>1. CASE x = place - 1  BY <1>13, <3>1, <4>1
      <4>2. CASE x # place - 1
        <5>1. AtMost(b[x], b[place - 1])  BY <1>8, <3>1, <4>2
        <5>2. KeyOf[b[x]] \in Int /\ KeyOf[b[place - 1]] \in Int  BY <1>12, <3>1
        <5>3. AtMost(b[place - 1], t)  BY <1>13, <3>1
        <5>. QED  BY <1>12, <5>1, <5>2, <5>3 DEF AtMost, compare
      <4>. QED  BY <4>1, <4>2
    <3>3. pi[x] \in 1 .. i - 1 /\ pi[i] = i  BY <1>11, <3>1
    <3>4. both[x] < both[y]  BY <1>3, <2>2, <3>1, <3>3
    <3>. QED  BY <2>2, <3>1, <3>2, <3>4
  <2>6. CASE x = place
    <3>1. rho[x] = i /\ rho[y] = y - 1 /\ y - 1 \in place .. i - 1 /\ y - 1 \in 1 .. i
      BY <1>1, <1>3, <1>14, <2>3, <2>6
    <3>2. ~AtMost(b[y - 1], t)  BY <1>13, <3>1
    <3>3. AtMost(t, b[y - 1])  BY <1>12, <3>1, <3>2 DEF AtMost, compare
    <3>. QED  BY <2>2, <3>1, <3>2, <3>3
  <2>. QED  BY <2>4, <2>5, <2>6
<1>. HIDE DEF rho, both
<1>15. Settles(both, a, c, i)  BY <1>9, <1>10, <1>14 DEF Settles
<1>. QED  BY <1>5, <1>15 DEF Settled, c

LEMMA SettledNot ==
    ASSUME NEW a \in Seq(Cell), NEW m \in {0, 1}
    PROVE  Settled(a, a, m)
<1>. DEFINE pi == [i \in 1 .. Len(a) |-> i]
<1>1. Moves(pi, Len(a), 1, m)  BY DEF Moves
<1>2. \A i \in 1 .. Len(a) : a[i] = a[pi[i]]  OBVIOUS
<1>3. \A i, j \in 1 .. m : ~(i < j)  OBVIOUS
<1>. HIDE DEF pi
<1>4. Settles(pi, a, a, m)  BY <1>1, <1>2, <1>3 DEF Settles
<1>. QED  BY <1>4 DEF Settled

\* What the loop of insertionSort makes of the array when it has come to cell i.
Sinks(sorted, a, m) ==
    sorted = [i \in 0 .. m |-> IF i <= 1 THEN a ELSE Sunk(sorted[i - 1], i)]

LEMMA SinksExist ==
    ASSUME NEW a \in Seq(Cell), NEW m \in 0 .. Len(a), AllItems(a, 1, m)
    PROVE  \E sorted : Sinks(sorted, a, m)
<1>. DEFINE n == Len(a)
            W == [i \in 0 .. m |-> {b \in Arrays(n) : Settled(a, b, i)}]
            op == [i \in 0 .. m |-> [b \in Arrays(n) |-> IF i <= 1 THEN a ELSE Sunk(b, i)]]
<1>1. a \in Arrays(n) /\ n \in Nat /\ m \in 0 .. n  BY DEF Arrays
<1>2. a \in W[0]  BY <1>1, SettledNot
<1>3. ASSUME NEW i \in 0 .. m, i # m, NEW x \in W[i] PROVE op[i + 1][x] \in W[i + 1]
  <2>1. x \in Arrays(n) /\ Settled(a, x, i) /\ i + 1 \in 0 .. m  BY <1>3
  <2>2. op[i + 1][x] = IF i + 1 <= 1 THEN a ELSE Sunk(x, i + 1)  BY <2>1
  <2>3. CASE i = 0
    <3>1. Settled(a, a, 1)  BY SettledNot
    <3>. QED  BY <1>1, <2>1, <2>2, <2>3, <3>1
  <2>4. CASE i # 0
    <3>1. i + 1 \in 1 .. n /\ i + 1 >= 2 /\ (i + 1) - 1 = i  BY <1>1, <1>3, <2>4
    <3>2. AllItems(a, 1, i + 1)  BY <2>1 DEF AllItems
    <3>3. Sunk(x, i + 1) \in Arrays(n) /\ Settled(a, Sunk(x, i + 1), i + 1)
      BY <2>1, <3>1, <3>2, SunkSettles
    <3>. QED  BY <2>1, <2>2, <3>1, <3>3
  <2>. QED  BY <2>3, <2>4
<1>4. \A i \in 0 .. m : W[i] \subseteq Arrays(n)  OBVIOUS
<1>5. \A i \in 0 .. m : \A b \in Arrays(n) : op[i][b] = IF i <= 1 THEN a ELSE Sunk(b, i)  OBVIOUS
<1>. HIDE DEF W, op
<1>6. \A i \in 0 .. m : i # m => \A x \in W[i] : op[i + 1][x] \in W[i + 1]  BY <1>3
<1>7. 0 \in Int /\ m \in Int /\ 0 <= m  BY <1>1
<1>8. \E g : Chain(g, 0, m, a, op)  BY <1>2, <1>6, <1>7, ChainExists
<1>9. PICK g : Chain(g, 0, m, a, op)  BY <1>8
<1>10. \A i \in 0 .. m : g[i] \in W[i]  BY <1>2, <1>6, <1>7, <1>9, ChainType
<1>11. ASSUME NEW i \in 0 .. m
       PROVE  (IF i = 0 THEN a ELSE op[i][g[i - 1]]) = IF i <= 1 THEN a ELSE Sunk(g[i - 1], i)
  <2>1. CASE i = 0  BY <2>1
  <2>2. CASE i # 0
    <3>1. i - 1 \in 0 .. m  BY <2>2
    <3>2. g[i - 1] \in Arrays(n)  BY <1>4, <1>10, <3>1
    <3>3. op[i][g[i - 1]] = IF i <= 1 THEN a ELSE Sunk(g[i - 1], i)  BY <1>5, <3>2
    <3>. QED  BY <2>2, <3>3
  <2>. QED  BY <2>1, <2>2
<1>12. [i \in 0 .. m |-> IF i = 0 THEN a ELSE op[i][g[i - 1]]]
       = [i \in 0 .. m |-> IF i <= 1 THEN a ELSE Sunk(g[i - 1], i)]
  BY <1>11
<1>. QED  BY <1>9, <1>12 DEF Sinks, Chain

\* insertionSort puts the items in order, equal ones in the order they had.
LEMMA InsertionSortSettles ==
    ASSUME NEW a \in Seq(Cell), vectorItems \in 0 .. Len(a), AllItems(a, 1, vectorItems)
    PROVE  insertionSort(a) \in Arrays(Len(a)) /\ Settled(a, insertionSort(a), vectorItems)
<1>. DEFINE m == vectorItems
            n == Len(a)
            sorted == CHOOSE f : Sinks(f, a, m)
            T == {i \in 0 .. m : sorted[i] \in Arrays(n) /\ Settled(a, sorted[i], i)}
<1>1. Sinks(sorted, a, m)  BY SinksExist
<1>2. insertionSort(a) = sorted[m]  BY DEF insertionSort, Sinks
<1>3. m \in 0 .. n /\ n \in Nat /\ a \in Arrays(n) /\ AllItems(a, 1, m)  BY DEF Arrays
<1>. HIDE DEF sorted, m
<1>4. \A i \in 0 .. m : sorted[i] = IF i <= 1 THEN a ELSE Sunk(sorted[i - 1], i)  BY <1>1 DEF Sinks
<1>5. 0 \in T
  <2>1. sorted[0] = a  BY <1>3, <1>4
  <2>2. Settled(a, a, 0)  BY SettledNot
  <2>. QED  BY <1>3, <2>1, <2>2
<1>6. ASSUME NEW i \in 0 .. m, i # m, i \in T PROVE i + 1 \in T
  <2>1. i + 1 \in 0 .. m /\ (i + 1) - 1 = i  BY <1>3, <1>6
  <2>2. sorted[i + 1] = IF i + 1 <= 1 THEN a ELSE Sunk(sorted[i], i + 1)  BY <1>4, <2>1
  <2>3. CASE i = 0
    <3>1. Settled(a, a, 1)  BY SettledNot
    <3>. QED  BY <1>3, <2>1, <2>2, <2>3, <3>1
  <2>4. CASE i # 0
    <3>1. i + 1 \in 1 .. n /\ i + 1 >= 2 /\ ~(i + 1 <= 1)  BY <1>3, <2>1, <2>4
    <3>2. AllItems(a, 1, i + 1)  BY <1>3, <2>1 DEF AllItems
    <3>3. sorted[i] \in Arrays(n) /\ Settled(a, sorted[i], (i + 1) - 1)  BY <1>6, <2>1
    <3>4. Sunk(sorted[i], i + 1) \in Arrays(n) /\ Settled(a, Sunk(sorted[i], i + 1), i + 1)
      BY <3>1, <3>2, <3>3, SunkSettles
    <3>. QED  BY <2>1, <2>2, <3>1, <3>4
  <2>. QED  BY <2>3, <2>4
<1>7. 0 \in Int /\ m \in Int /\ 0 <= m  BY <1>3
<1>8. \A i \in 0 .. m : i \in T
  <2>. HIDE DEF T
  <2>. QED  BY <1>5, <1>6, <1>7, IntervalInduction
<1>9. m \in T  BY <1>3, <1>8
<1>. QED  BY <1>2, <1>9 DEF m

-----------------------------------------------------------------------------
(* Vector: the list in the array *)

\* The first n cells hold distinct objects.
Items(a, n) ==
    /\ a \in Seq(Cell) /\ Len(a) >= Growth /\ n \in 0 .. Len(a)
    /\ AllItems(a, 1, n)
    /\ \A i, j \in 1 .. n : a[i] = a[j] => i = j

ItemsOf(a, n) == {a[i] : i \in 1 .. n}

\* The used cells hold distinct objects; an owner holds those and no others.
VectorInv ==
    /\ vectorOwner \in BOOLEAN /\ vectorFailed \in BOOLEAN
    /\ Items(array, vectorItems)
    /\ held \subseteq Object
    /\ vectorOwner => held = ItemsOf(array, vectorItems)

LEMMA ListOf ==
    ASSUME NEW a, NEW n, Items(a, n)
    PROVE  /\ SubSeq(a, 1, n) \in Seq(Object) /\ Len(SubSeq(a, 1, n)) = n
           /\ n \in Nat /\ DOMAIN SubSeq(a, 1, n) = 1 .. n
           /\ \A i \in 1 .. n : SubSeq(a, 1, n)[i] = a[i] /\ a[i] \in Object
<1>1. n \in Int /\ n \in Nat /\ 1 \in Int /\ \A i \in 1 .. n : a[i] \in Object  BY DEF Items, AllItems
<1>. DEFINE s == SubSeq(a, 1, n)
<1>2. /\ s \in Seq(Object) /\ Len(s) = IF 1 <= n THEN n - 1 + 1 ELSE 0
      /\ \A i \in 1 .. n - 1 + 1 : s[i] = a[1 + i - 1]
  BY <1>1, SubSeqProperties
<1>. HIDE DEF s
<1>3. Len(s) = n /\ n - 1 + 1 = n  BY <1>1, <1>2
<1>4. ASSUME NEW i \in 1 .. n PROVE s[i] = a[i]
  <2>1. i \in 1 .. n - 1 + 1 /\ 1 + i - 1 = i  BY <1>1
  <2>. QED  BY <1>2, <2>1
<1>5. DOMAIN s = 1 .. n  BY <1>2, <1>3
<1>. QED  BY <1>1, <1>2, <1>3, <1>4, <1>5 DEF s

\* Two lists with the same items are the same.
LEMMA ListIs ==
    ASSUME NEW a, NEW n, Items(a, n), NEW s \in Seq(Object), Len(s) = n, \A i \in 1 .. n : a[i] = s[i]
    PROVE  SubSeq(a, 1, n) = s
<1>. DEFINE t == SubSeq(a, 1, n)
<1>1. t \in Seq(Object) /\ Len(t) = n /\ n \in Nat /\ \A i \in 1 .. n : t[i] = a[i]  BY ListOf
<1>. HIDE DEF t
<1>2. Len(t) = Len(s) /\ \A i \in 1 .. Len(t) : t[i] = s[i]  BY <1>1
<1>3. t = s  BY <1>1, <1>2, SeqEqual
<1>. QED  BY <1>3 DEF t

LEMMA UsedIs == ASSUME VectorInv PROVE Used = ItemsOf(array, vectorItems)
<1>1. DOMAIN list = 1 .. vectorItems /\ \A i \in 1 .. vectorItems : list[i] = array[i]
  BY ListOf DEF VectorInv, list
<1>. QED  BY <1>1 DEF Used, ItemsOf

LEMMA ArrayCells ==
    ASSUME NEW n \in Nat, NEW a \in Arrays(n)
    PROVE  a \in Seq(Cell) /\ Len(a) = n /\ DOMAIN a = 1 .. n
BY DEF Arrays

IsGrown(g, a, n) ==
    /\ g \in Seq(Cell) /\ Len(g) >= Len(a) /\ Len(g) > n /\ DOMAIN g = 1 .. Len(g)
    /\ \A i \in 1 .. Len(a) : g[i] = a[i]
    /\ \A i \in 1 .. Len(g) : g[i] \in Cell

LEMMA GrownCells ==
    ASSUME NEW a \in Seq(Cell), NEW n \in Nat
    PROVE  IsGrown(Grown(a, n), a, n)
<1>1. CASE n < Len(a)
  <2>1. Grown(a, n) = a  BY <1>1 DEF Grown
  <2>. QED  BY <1>1, <2>1 DEF IsGrown
<1>2. CASE n >= Len(a)
  <2>. DEFINE k == n + Growth - Len(a)
              more == [i \in 1 .. k |-> NoObject]
              g == a \o more
  <2>1. k \in Nat /\ Growth \in Nat \ {0}  BY <1>2, VectorAssumption
  <2>2. more \in Seq(Cell) /\ Len(more) = k
    <3>1. more \in [1 .. k -> Cell]  BY DEF Cell
    <3>. HIDE DEF k, more
    <3>. QED  BY <2>1, <3>1
  <2>. HIDE DEF more
  <2>3. /\ g \in Seq(Cell) /\ Len(g) = Len(a) + Len(more)
        /\ \A i \in 1 .. Len(a) + Len(more) : g[i] = IF i <= Len(a) THEN a[i] ELSE more[i - Len(a)]
    BY <2>2, ConcatProperties
  <2>4. Grown(a, n) = g  BY <1>2 DEF Grown, more
  <2>. HIDE DEF g
  <2>5. Len(g) = n + Growth  BY <2>1, <2>2, <2>3
  <2>6. \A i \in 1 .. Len(a) : g[i] = a[i]
    <3>1. \A i \in 1 .. Len(a) : i \in 1 .. Len(a) + Len(more) /\ i <= Len(a)  BY <2>1, <2>2
    <3>. QED  BY <2>3, <3>1
  <2>7. \A i \in 1 .. Len(g) : g[i] \in Cell /\ DOMAIN g = 1 .. Len(g)  BY <2>3, ElementOfSeq, LenProperties
  <2>. QED  BY <1>2, <2>1, <2>3, <2>4, <2>5, <2>6, <2>7 DEF IsGrown
<1>. QED  BY <1>1, <1>2

-----------------------------------------------------------------------------
(* Vector: what the operations do to the cells *)

LEMMA InsertItems ==
    ASSUME VectorInv, NEW idx \in 1 .. vectorItems + 1, NEW o \in Unused,
           NEW b, b = Store(Shifted(Grown(array, vectorItems), idx), idx, o)
    PROVE  /\ Items(b, vectorItems + 1)
           /\ \A j \in 1 .. vectorItems + 1 :
                 b[j] = IF j < idx THEN array[j] ELSE IF j = idx THEN o ELSE array[j - 1]
           /\ ItemsOf(b, vectorItems + 1) = ItemsOf(array, vectorItems) \cup {o}
<1>. DEFINE n == vectorItems
            g == Grown(array, n)
            c == Shifted(g, idx)
<1>1. array \in Seq(Cell) /\ n \in 0 .. Len(array) /\ n \in Nat /\ Len(array) >= Growth  BY DEF VectorInv, Items
<1>2. /\ g \in Seq(Cell) /\ Len(g) >= Len(array) /\ Len(g) > n /\ DOMAIN g = 1 .. Len(g) /\ Len(g) \in Nat
      /\ \A i \in 1 .. Len(array) : g[i] = array[i]
      /\ \A i \in 1 .. Len(g) : g[i] \in Cell
  BY <1>1, GrownCells DEF IsGrown
<1>3. o \in Object /\ \A i \in 1 .. n : array[i] # o  BY UsedIs DEF Unused, ItemsOf
<1>. HIDE DEF g
<1>4. c = [i \in 1 .. Len(g) |-> IF i > idx /\ i <= n + 1 THEN g[i - 1] ELSE g[i]]  BY <1>2 DEF Shifted
<1>. HIDE DEF c
<1>5. idx \in 1 .. Len(g) /\ Growth \in Nat  BY <1>1, <1>2, VectorAssumption
<1>6. b = [i \in 1 .. Len(g) |-> IF i = idx THEN o ELSE IF i > idx /\ i <= n + 1 THEN g[i - 1] ELSE g[i]]
  <2>1. DOMAIN c = 1 .. Len(g)  BY <1>4
  <2>2. b = [c EXCEPT ![idx] = o]  BY <1>5, <2>1 DEF Store, c, g
  <2>. QED  BY <1>4, <1>5, <2>2
<1>7. b \in Arrays(Len(g))
  <2>1. ASSUME NEW i \in 1 .. Len(g) PROVE b[i] \in Cell
    <3>1. i > idx => i - 1 \in 1 .. Len(g)  BY <1>5
    <3>. QED  BY <1>2, <1>3, <1>6, <3>1 DEF Cell
  <2>. QED  BY <1>6, <2>1 DEF Arrays
<1>8. \A j \in 1 .. n + 1 : b[j] = IF j < idx THEN array[j] ELSE IF j = idx THEN o ELSE array[j - 1]
  <2>1. SUFFICES ASSUME NEW j \in 1 .. n + 1
                 PROVE  b[j] = IF j < idx THEN array[j] ELSE IF j = idx THEN o ELSE array[j - 1]
    OBVIOUS
  <2>2. j \in 1 .. Len(g) /\ (j < idx => j \in 1 .. Len(array)) /\ (j > idx => j - 1 \in 1 .. Len(array))
    BY <1>1, <1>2
  <2>. QED  BY <1>2, <1>6, <2>2
<1>9. b \in Seq(Cell) /\ Len(b) = Len(g)  BY <1>2, <1>7, ArrayCells
<1>10. \A i, j \in 1 .. n : array[i] = array[j] => i = j  BY DEF VectorInv, Items
<1>11. \A i \in 1 .. n : array[i] \in Object  BY DEF VectorInv, Items, AllItems
<1>. HIDE DEF n
<1>12. AllItems(b, 1, n + 1)
  <2>1. ASSUME NEW j \in 1 .. n + 1 PROVE b[j] \in Object
    <3>1. (j < idx => j \in 1 .. n) /\ (j > idx => j - 1 \in 1 .. n)  BY <1>1 DEF n
    <3>. QED  BY <1>3, <1>8, <1>11, <3>1
  <2>. QED  BY <2>1 DEF AllItems
<1>13. ASSUME NEW i \in 1 .. n + 1, NEW j \in 1 .. n + 1, b[i] = b[j] PROVE i = j
  <2>1. /\ (i < idx => i \in 1 .. n) /\ (i > idx => i - 1 \in 1 .. n)
        /\ (j < idx => j \in 1 .. n) /\ (j > idx => j - 1 \in 1 .. n)
    BY <1>1 DEF n
  <2>2. /\ b[i] = IF i < idx THEN array[i] ELSE IF i = idx THEN o ELSE array[i - 1]
        /\ b[j] = IF j < idx THEN array[j] ELSE IF j = idx THEN o ELSE array[j - 1]
    BY <1>8
  <2>3. idx \in Int  OBVIOUS
  <2>4. CASE i # idx /\ j # idx
    <3>. DEFINE x == IF i < idx THEN i ELSE i - 1
                y == IF j < idx THEN j ELSE j - 1
    <3>1. x \in 1 .. n /\ y \in 1 .. n  BY <2>1, <2>3, <2>4
    <3>2. b[i] = array[x] /\ b[j] = array[y]  BY <2>2, <2>3, <2>4
    <3>3. x = y
      <4>. HIDE DEF x, y
      <4>. QED  BY <1>10, <1>13, <3>1, <3>2
    <3>. QED  BY <2>1, <2>3, <2>4, <3>3
  <2>5. CASE i = idx /\ j # idx
    <3>1. b[i] = o /\ b[j] # o  BY <1>3, <2>1, <2>2, <2>3, <2>5
    <3>. QED  BY <1>13, <3>1
  <2>6. CASE i # idx /\ j = idx
    <3>1. b[j] = o /\ b[i] # o  BY <1>3, <2>1, <2>2, <2>3, <2>6
    <3>. QED  BY <1>13, <3>1
  <2>. QED  BY <2>4, <2>5, <2>6
<1>14. ItemsOf(b, n + 1) = ItemsOf(array, n) \cup {o}
  <2>1. ASSUME NEW j \in 1 .. n + 1 PROVE b[j] \in ItemsOf(array, n) \cup {o}
    <3>1. (j < idx => j \in 1 .. n) /\ (j > idx => j - 1 \in 1 .. n)  BY <1>1 DEF n
    <3>. QED  BY <1>8, <3>1 DEF ItemsOf
  <2>2. ASSUME NEW j \in 1 .. n PROVE array[j] \in ItemsOf(b, n + 1)
    <3>1. CASE j < idx
      <4>1. j \in 1 .. n + 1 /\ b[j] = array[j]  BY <1>1, <1>8, <3>1 DEF n
      <4>. QED  BY <4>1 DEF ItemsOf
    <3>2. CASE j >= idx
      <4>1. j + 1 \in 1 .. n + 1 /\ (j + 1) - 1 = j /\ ~(j + 1 < idx) /\ j + 1 # idx  BY <1>1, <3>2 DEF n
      <4>2. b[j + 1] = array[j]  BY <1>8, <4>1
      <4>. QED  BY <4>1, <4>2 DEF ItemsOf
    <3>. QED  BY <1>1, <3>1, <3>2 DEF n
  <2>3. o \in ItemsOf(b, n + 1)
    <3>1. idx \in 1 .. n + 1 /\ b[idx] = o  BY <1>8 DEF n
    <3>. QED  BY <3>1 DEF ItemsOf
  <2>. QED  BY <2>1, <2>2, <2>3 DEF ItemsOf
<1>15. Items(b, n + 1)
  <2>1. Len(b) >= Growth /\ n + 1 \in 0 .. Len(b)  BY <1>1, <1>2, <1>5, <1>9 DEF n
  <2>. QED  BY <1>9, <1>12, <1>13, <2>1 DEF Items
<1>. QED  BY <1>8, <1>14, <1>15 DEF n

LEMMA RemoveItems ==
    ASSUME VectorInv, NEW idx \in 1 .. vectorItems, NEW b, b = Closed(array, idx)
    PROVE  /\ Items(b, vectorItems - 1)
           /\ \A j \in 1 .. vectorItems - 1 : b[j] = IF j < idx THEN array[j] ELSE array[j + 1]
           /\ ItemsOf(b, vectorItems - 1) = ItemsOf(array, vectorItems) \ {array[idx]}
<1>. DEFINE n == vectorItems
<1>1. array \in Seq(Cell) /\ n \in 0 .. Len(array) /\ n \in Nat /\ Len(array) >= Growth /\ Len(array) \in Nat /\ Growth \in Nat
  BY VectorAssumption DEF VectorInv, Items
<1>2. b = [i \in 1 .. Len(array) |-> IF i >= idx /\ i < n THEN array[i + 1] ELSE array[i]]  BY <1>1 DEF Closed
<1>3. \A i, j \in 1 .. n : array[i] = array[j] => i = j  BY DEF VectorInv, Items
<1>4. \A i \in 1 .. n : array[i] \in Object  BY DEF VectorInv, Items, AllItems
<1>. HIDE DEF n
<1>5. idx \in 1 .. n  BY DEF n
<1>6. b \in Arrays(Len(array))
  <2>1. ASSUME NEW i \in 1 .. Len(array) PROVE b[i] \in Cell
    <3>1. i >= idx /\ i < n => i + 1 \in 1 .. Len(array)  BY <1>1, <1>5
    <3>. QED  BY <1>1, <1>2, <3>1, ElementOfSeq
  <2>. QED  BY <1>2, <2>1 DEF Arrays
<1>7. b \in Seq(Cell) /\ Len(b) = Len(array)  BY <1>1, <1>6, ArrayCells
<1>8. ASSUME NEW j \in 1 .. n - 1 PROVE b[j] = IF j < idx THEN array[j] ELSE array[j + 1]
  <2>1. j \in 1 .. Len(array) /\ j < n  BY <1>1
  <2>. QED  BY <1>2, <1>5, <2>1
<1>9. AllItems(b, 1, n - 1)
  <2>1. ASSUME NEW j \in 1 .. n - 1 PROVE b[j] \in Object
    <3>1. j \in 1 .. n /\ j + 1 \in 1 .. n  BY <1>1
    <3>. QED  BY <1>4, <1>8, <3>1
  <2>. QED  BY <2>1 DEF AllItems
<1>10. ASSUME NEW i \in 1 .. n - 1, NEW j \in 1 .. n - 1, b[i] = b[j] PROVE i = j
  <2>1. i \in 1 .. n /\ i + 1 \in 1 .. n /\ j \in 1 .. n /\ j + 1 \in 1 .. n  BY <1>1
  <2>2. /\ b[i] = IF i < idx THEN array[i] ELSE array[i + 1]
        /\ b[j] = IF j < idx THEN array[j] ELSE array[j + 1]
    BY <1>8
  <2>3. (IF i < idx THEN i ELSE i + 1) = IF j < idx THEN j ELSE j + 1  BY <1>3, <1>10, <2>1, <2>2
  <2>. QED  BY <1>5, <2>1, <2>3
<1>11. ItemsOf(b, n - 1) = ItemsOf(array, n) \ {array[idx]}
  <2>1. ASSUME NEW j \in 1 .. n - 1 PROVE b[j] \in ItemsOf(array, n) \ {array[idx]}
    <3>1. j \in 1 .. n /\ j + 1 \in 1 .. n  BY <1>1
    <3>2. CASE j < idx
      <4>1. b[j] = array[j] /\ array[j] # array[idx]  BY <1>3, <1>5, <1>8, <3>1, <3>2
      <4>. QED  BY <3>1, <4>1 DEF ItemsOf
    <3>3. CASE ~(j < idx)
      <4>1. j + 1 # idx  BY <1>5, <3>1, <3>3
      <4>2. b[j] = array[j + 1] /\ array[j + 1] # array[idx]  BY <1>3, <1>5, <1>8, <3>1, <3>3, <4>1
      <4>. QED  BY <3>1, <4>2 DEF ItemsOf
    <3>. QED  BY <3>2, <3>3
  <2>2. ASSUME NEW j \in 1 .. n, array[j] # array[idx] PROVE array[j] \in ItemsOf(b, n - 1)
    <3>1. j # idx  BY <2>2
    <3>2. CASE j < idx
      <4>1. j \in 1 .. n - 1  BY <1>1, <1>5, <3>2
      <4>2. b[j] = array[j]  BY <1>8, <3>2, <4>1
      <4>. QED  BY <4>1, <4>2 DEF ItemsOf
    <3>3. CASE j > idx
      <4>1. j - 1 \in 1 .. n - 1 /\ ~(j - 1 < idx) /\ (j - 1) + 1 = j  BY <1>1, <1>5, <3>3
      <4>2. b[j - 1] = array[j]  BY <1>8, <4>1
      <4>. QED  BY <4>1, <4>2 DEF ItemsOf
    <3>. QED  BY <1>5, <3>1, <3>2, <3>3
  <2>. QED  BY <2>1, <2>2 DEF ItemsOf
<1>12. Items(b, n - 1)
  <2>1. Len(b) >= Growth /\ n - 1 \in 0 .. Len(b)  BY <1>1, <1>5, <1>7
  <2>. QED  BY <1>7, <1>9, <1>10, <2>1 DEF Items
<1>. QED  BY <1>8, <1>11, <1>12 DEF n

\* Set of a used cell; set of the next is an insertion at the end.
LEMMA SetItems ==
    ASSUME VectorInv, NEW idx \in 1 .. vectorItems + 1, NEW o \in Unused,
           NEW b, b = Store(Grown(array, vectorItems), idx, o)
    PROVE  /\ idx <= vectorItems =>
                 /\ Items(b, vectorItems)
                 /\ \A j \in 1 .. vectorItems : b[j] = IF j = idx THEN o ELSE array[j]
                 /\ ItemsOf(b, vectorItems) = (ItemsOf(array, vectorItems) \cup {o}) \ {array[idx]}
           /\ idx > vectorItems =>
                 /\ Items(b, vectorItems + 1)
                 /\ \A j \in 1 .. vectorItems + 1 : b[j] = IF j < idx THEN array[j] ELSE IF j = idx THEN o ELSE array[j - 1]
                 /\ ItemsOf(b, vectorItems + 1) = ItemsOf(array, vectorItems) \cup {o}
<1>. DEFINE n == vectorItems
            g == Grown(array, n)
<1>1. array \in Seq(Cell) /\ n \in 0 .. Len(array) /\ n \in Nat /\ Len(array) >= Growth /\ Growth \in Nat
  BY VectorAssumption DEF VectorInv, Items
<1>2. /\ g \in Seq(Cell) /\ Len(g) >= Len(array) /\ Len(g) > n /\ DOMAIN g = 1 .. Len(g) /\ Len(g) \in Nat
      /\ \A i \in 1 .. Len(array) : g[i] = array[i]
      /\ \A i \in 1 .. Len(g) : g[i] \in Cell
  <2>1. array \in Seq(Cell) /\ n \in Nat  BY <1>1
  <2>. HIDE DEF n
  <2>2. IsGrown(Grown(array, n), array, n)  BY <2>1, GrownCells
  <2>. QED  BY <2>1, <2>2, LenProperties DEF IsGrown
<1>3. o \in Object /\ \A i \in 1 .. n : array[i] # o  BY UsedIs DEF Unused, ItemsOf
<1>4. \A i, j \in 1 .. n : array[i] = array[j] => i = j  BY DEF VectorInv, Items
<1>5. \A i \in 1 .. n : array[i] \in Object  BY DEF VectorInv, Items, AllItems
<1>6. b = IF idx \in DOMAIN g THEN [g EXCEPT ![idx] = o] ELSE g  BY DEF Store
<1>. HIDE DEF g, n
<1>7. idx \in 1 .. n + 1  BY DEF n
<1>8. idx \in 1 .. Len(g)  BY <1>1, <1>2, <1>7
<1>9. b = [g EXCEPT ![idx] = o]  BY <1>2, <1>6, <1>8
<1>10. b \in Arrays(Len(g))
  <2>1. \A i \in 1 .. Len(g) : b[i] \in Cell  BY <1>2, <1>3, <1>8, <1>9 DEF Cell
  <2>2. b = [i \in 1 .. Len(g) |-> b[i]]  BY <1>2, <1>9
  <2>. QED  BY <2>1, <2>2 DEF Arrays
<1>11. b \in Seq(Cell) /\ Len(b) = Len(g)  BY <1>2, <1>10, ArrayCells
<1>12. \A j \in 1 .. n : j \in 1 .. Len(array) /\ j \in 1 .. Len(g)  BY <1>1, <1>2
<1>13. \A j \in 1 .. n : b[j] = IF j = idx THEN o ELSE array[j]  BY <1>2, <1>9, <1>12
<1>14. b[idx] = o  BY <1>2, <1>8, <1>9
<1>15. ASSUME idx <= n
       PROVE  Items(b, n) /\ ItemsOf(b, n) = (ItemsOf(array, n) \cup {o}) \ {array[idx]}
  <2>1. idx \in 1 .. n  BY <1>1, <1>7, <1>15
  <2>2. AllItems(b, 1, n)  BY <1>3, <1>5, <1>13 DEF AllItems
  <2>3. \A i, j \in 1 .. n : b[i] = b[j] => i = j  BY <1>3, <1>4, <1>13
  <2>4. Len(b) >= Growth /\ n \in 0 .. Len(b)  BY <1>1, <1>2, <1>11
  <2>5. Items(b, n)  BY <1>11, <2>2, <2>3, <2>4 DEF Items
  <2>6. ItemsOf(b, n) = (ItemsOf(array, n) \cup {o}) \ {array[idx]}
    <3>1. ASSUME NEW j \in 1 .. n PROVE b[j] \in (ItemsOf(array, n) \cup {o}) \ {array[idx]}
      <4>1. CASE j = idx
        <5>1. b[j] = o /\ array[idx] # o  BY <1>3, <1>13, <2>1, <4>1
        <5>. QED  BY <5>1
      <4>2. CASE j # idx
        <5>1. b[j] = array[j] /\ array[j] # array[idx]  BY <1>4, <1>13, <2>1, <4>2
        <5>. QED  BY <5>1 DEF ItemsOf
      <4>. QED  BY <4>1, <4>2
    <3>2. ASSUME NEW j \in 1 .. n, array[j] # array[idx] PROVE array[j] \in ItemsOf(b, n)
      <4>1. j # idx  BY <3>2
      <4>2. b[j] = array[j]  BY <1>13, <4>1
      <4>. QED  BY <4>2 DEF ItemsOf
    <3>3. o \in ItemsOf(b, n)  BY <1>14, <2>1 DEF ItemsOf
    <3>. QED  BY <3>1, <3>2, <3>3 DEF ItemsOf
  <2>. QED  BY <2>5, <2>6
<1>16. ASSUME idx > n
       PROVE  /\ Items(b, n + 1) /\ ItemsOf(b, n + 1) = ItemsOf(array, n) \cup {o}
              /\ \A j \in 1 .. n + 1 : b[j] = IF j < idx THEN array[j] ELSE IF j = idx THEN o ELSE array[j - 1]
  <2>1. idx = n + 1  BY <1>1, <1>7, <1>16
  <2>2. \A j \in 1 .. n + 1 : j = n + 1 \/ (j \in 1 .. n /\ j # idx)  BY <1>1, <2>1
  <2>3. b[n + 1] = o /\ \A j \in 1 .. n : b[j] = array[j]
    <3>1. \A j \in 1 .. n : j # idx  BY <1>1, <2>1
    <3>2. \A j \in 1 .. n : b[j] = array[j]  BY <1>13, <3>1
    <3>. QED  BY <1>14, <2>1, <3>2
  <2>4. AllItems(b, 1, n + 1)  BY <1>3, <1>5, <2>2, <2>3 DEF AllItems
  <2>5. \A i, j \in 1 .. n + 1 : b[i] = b[j] => i = j
    <3>1. SUFFICES ASSUME NEW i \in 1 .. n + 1, NEW j \in 1 .. n + 1, b[i] = b[j] PROVE i = j  OBVIOUS
    <3>. QED  BY <1>3, <1>4, <2>2, <2>3, <3>1
  <2>6. Len(b) >= Growth /\ n + 1 \in 0 .. Len(b)  BY <1>1, <1>2, <1>11
  <2>7. Items(b, n + 1)  BY <1>11, <2>4, <2>5, <2>6 DEF Items
  <2>8. ItemsOf(b, n + 1) = ItemsOf(array, n) \cup {o}
    <3>1. \A j \in 1 .. n : j \in 1 .. n + 1  BY <1>1
    <3>2. n + 1 \in 1 .. n + 1  BY <1>1
    <3>. QED  BY <2>2, <2>3, <3>1, <3>2 DEF ItemsOf
  <2>9. ASSUME NEW j \in 1 .. n + 1 PROVE b[j] = IF j < idx THEN array[j] ELSE IF j = idx THEN o ELSE array[j - 1]
    <3>1. CASE j = n + 1
      <4>1. ~(j < idx) /\ j = idx  BY <1>1, <2>1, <3>1
      <4>. QED  BY <1>14, <4>1
    <3>2. CASE j # n + 1
      <4>1. j \in 1 .. n /\ j < idx  BY <1>1, <2>1, <3>2
      <4>. QED  BY <2>3, <4>1
    <3>. QED  BY <3>1, <3>2
  <2>. QED  BY <2>7, <2>8, <2>9
<1>. QED  BY <1>13, <1>15, <1>16 DEF n

Moved(idx) == [array EXCEPT ![idx] = array[idx + 1], ![idx + 1] = array[idx]]

LEMMA MoveItems ==
    ASSUME VectorInv, NEW idx \in 1 .. vectorItems - 1, NEW b, b = Moved(idx)
    PROVE  /\ Items(b, vectorItems)
           /\ \A j \in 1 .. vectorItems :
                 b[j] = IF j = idx THEN array[idx + 1] ELSE IF j = idx + 1 THEN array[idx] ELSE array[j]
           /\ ItemsOf(b, vectorItems) = ItemsOf(array, vectorItems)
<1>. DEFINE n == vectorItems
<1>1. array \in Seq(Cell) /\ n \in 0 .. Len(array) /\ n \in Nat /\ Len(array) >= Growth /\ Len(array) \in Nat /\ Growth \in Nat
  BY VectorAssumption DEF VectorInv, Items
<1>2. \A i, j \in 1 .. n : array[i] = array[j] => i = j  BY DEF VectorInv, Items
<1>3. \A i \in 1 .. n : array[i] \in Object  BY DEF VectorInv, Items, AllItems
<1>. HIDE DEF n
<1>4. idx \in 1 .. n /\ idx + 1 \in 1 .. n /\ idx \in 1 .. Len(array) /\ idx + 1 \in 1 .. Len(array)  BY <1>1 DEF n
<1>5. \A j \in 1 .. Len(array) :
         b[j] = IF j = idx THEN array[idx + 1] ELSE IF j = idx + 1 THEN array[idx] ELSE array[j]
  BY <1>1, <1>4 DEF Moved
<1>6. b \in Arrays(Len(array))
  <2>1. \A j \in 1 .. Len(array) : array[j] \in Cell  BY <1>1
  <2>2. \A j \in 1 .. Len(array) : b[j] \in Cell  BY <1>4, <1>5, <2>1
  <2>3. b = [j \in 1 .. Len(array) |-> b[j]]
    <3>1. DOMAIN array = 1 .. Len(array) /\ array = [j \in 1 .. Len(array) |-> array[j]]  BY <1>1
    <3>. QED  BY <3>1 DEF Moved
  <2>. QED  BY <2>2, <2>3 DEF Arrays
<1>7. b \in Seq(Cell) /\ Len(b) = Len(array)  BY <1>1, <1>6, ArrayCells
<1>8. \A j \in 1 .. n :
         b[j] = IF j = idx THEN array[idx + 1] ELSE IF j = idx + 1 THEN array[idx] ELSE array[j]
  BY <1>1, <1>5
<1>9. AllItems(b, 1, n)  BY <1>3, <1>4, <1>8 DEF AllItems
<1>10. \A i, j \in 1 .. n : b[i] = b[j] => i = j  BY <1>2, <1>4, <1>8
<1>11. ItemsOf(b, n) = ItemsOf(array, n)
  <2>1. \A j \in 1 .. n : b[j] \in ItemsOf(array, n)  BY <1>4, <1>8 DEF ItemsOf
  <2>2. ASSUME NEW j \in 1 .. n PROVE array[j] \in ItemsOf(b, n)
    <3>1. b[idx] = array[idx + 1] /\ b[idx + 1] = array[idx]  BY <1>4, <1>8
    <3>2. j # idx /\ j # idx + 1 => b[j] = array[j]  BY <1>8
    <3>. QED  BY <1>4, <3>1, <3>2 DEF ItemsOf
  <2>. QED  BY <2>1, <2>2 DEF ItemsOf
<1>12. Items(b, n)
  <2>1. Len(b) >= Growth /\ n \in 0 .. Len(b)  BY <1>1, <1>7
  <2>. QED  BY <1>7, <1>9, <1>10, <2>1 DEF Items
<1>. QED  BY <1>8, <1>11, <1>12 DEF n

LEMMA PruneItems ==
    ASSUME VectorInv
    PROVE  Items(array, 0) /\ ItemsOf(array, 0) = {} /\ SubSeq(array, 1, 0) = <<>>
<1>1. array \in Seq(Cell) /\ Len(array) >= Growth /\ 0 \in 0 .. Len(array)  BY DEF VectorInv, Items
<1>2. \A i \in 1 .. 0 : FALSE  OBVIOUS
<1>3. Items(array, 0)  BY <1>1, <1>2 DEF Items, AllItems
<1>4. ItemsOf(array, 0) = {}  BY <1>2 DEF ItemsOf
<1>5. SubSeq(array, 1, 0) = <<>>
  <2>1. <<>> \in Seq(Object)  OBVIOUS
  <2>2. Len(<<>>) = 0  OBVIOUS
  <2>3. \A i \in 1 .. 0 : array[i] = <<>>[i]  BY <1>2
  <2>. HIDE DEF Items
  <2>. QED  BY <1>3, <2>1, <2>2, <2>3, ListIs
<1>. QED  BY <1>3, <1>4, <1>5

LEMMA SpliceItems ==
    ASSUME VectorInv, vectorItems = 0, NEW n \in Nat, NEW from \in [1 .. n -> Object],
           \A i, j \in 1 .. n : from[i] = from[j] => i = j,
           NEW a, a = Grown(array, vectorItems + n),
           NEW b, b = [i \in DOMAIN a |->
                          IF i \in (vectorItems + 1) .. (vectorItems + n) THEN from[i - vectorItems] ELSE a[i]]
    PROVE  Items(b, n) /\ \A j \in 1 .. n : b[j] = from[j]
<1>1. array \in Seq(Cell) /\ Len(array) >= Growth /\ Len(array) \in Nat /\ Growth \in Nat
  BY VectorAssumption DEF VectorInv, Items
<1>2. a = Grown(array, n)  OBVIOUS
<1>3. /\ a \in Seq(Cell) /\ Len(a) >= Len(array) /\ Len(a) > n /\ DOMAIN a = 1 .. Len(a) /\ Len(a) \in Nat
      /\ \A i \in 1 .. Len(a) : a[i] \in Cell
  BY <1>1, <1>2, GrownCells DEF IsGrown
<1>4. b = [i \in 1 .. Len(a) |-> IF i \in 1 .. n THEN from[i] ELSE a[i]]
  <2>1. \A i \in 1 .. Len(a) : i - vectorItems = i  OBVIOUS
  <2>2. vectorItems + 1 = 1 /\ vectorItems + n = n  OBVIOUS
  <2>. QED  BY <1>3, <2>1, <2>2
<1>5. b \in Arrays(Len(a))
  <2>1. \A i \in 1 .. Len(a) : b[i] \in Cell  BY <1>3, <1>4 DEF Cell
  <2>. QED  BY <1>4, <2>1 DEF Arrays
<1>6. b \in Seq(Cell) /\ Len(b) = Len(a)  BY <1>3, <1>5, ArrayCells
<1>7. \A j \in 1 .. n : b[j] = from[j]
  <2>1. \A j \in 1 .. n : j \in 1 .. Len(a)  BY <1>3
  <2>. QED  BY <1>4, <2>1
<1>8. AllItems(b, 1, n) /\ \A i, j \in 1 .. n : b[i] = b[j] => i = j  BY <1>7 DEF AllItems
<1>9. Len(b) >= Growth /\ n \in 0 .. Len(b)  BY <1>1, <1>3, <1>6
<1>. QED  BY <1>6, <1>7, <1>8, <1>9 DEF Items

\* Another order of the items holds the same items.
LEMMA ShuffledFacts ==
    ASSUME VectorInv, NEW b, NEW pi, Moves(pi, Len(array), 1, vectorItems),
           b \in Arrays(Len(array)), \A i \in 1 .. Len(array) : b[i] = array[pi[i]]
    PROVE  Items(b, vectorItems) /\ ItemsOf(b, vectorItems) = ItemsOf(array, vectorItems)
<1>. DEFINE n == vectorItems
<1>1. array \in Seq(Cell) /\ n \in 0 .. Len(array) /\ n \in Nat /\ Len(array) >= Growth /\ Len(array) \in Nat /\ Growth \in Nat
  BY VectorAssumption DEF VectorInv, Items
<1>2. \A i, j \in 1 .. n : array[i] = array[j] => i = j  BY DEF VectorInv, Items
<1>3. \A i \in 1 .. n : array[i] \in Object  BY DEF VectorInv, Items, AllItems
<1>4. \A i \in 1 .. n : i \in 1 .. Len(array)  BY <1>1
<1>5. \A i \in 1 .. n : pi[i] \in 1 .. n /\ b[i] = array[pi[i]]  BY <1>4 DEF Moves
<1>6. ASSUME NEW k \in 1 .. n PROVE \E i \in 1 .. n : pi[i] = k
  <2>1. PICK i \in 1 .. Len(array) : pi[i] = k  BY <1>4 DEF Moves
  <2>2. i \in 1 .. n  BY <2>1 DEF Moves
  <2>. QED  BY <2>1, <2>2
<1>7. b \in Seq(Cell) /\ Len(b) = Len(array)  BY <1>1, ArrayCells
<1>8. \A i, j \in 1 .. Len(array) : pi[i] = pi[j] => i = j  BY DEF Moves
<1>. HIDE DEF n
<1>9. AllItems(b, 1, n)  BY <1>3, <1>5 DEF AllItems
<1>10. \A i, j \in 1 .. n : b[i] = b[j] => i = j
  <2>1. SUFFICES ASSUME NEW i \in 1 .. n, NEW j \in 1 .. n, b[i] = b[j] PROVE i = j  OBVIOUS
  <2>2. pi[i] = pi[j]  BY <1>2, <1>5, <2>1
  <2>. QED  BY <1>4, <1>8, <2>2
<1>11. ItemsOf(b, n) = ItemsOf(array, n)
  <2>1. \A i \in 1 .. n : b[i] \in ItemsOf(array, n)  BY <1>5 DEF ItemsOf
  <2>2. ASSUME NEW k \in 1 .. n PROVE array[k] \in ItemsOf(b, n)
    <3>1. PICK i \in 1 .. n : pi[i] = k  BY <1>6
    <3>2. b[i] = array[k]  BY <1>5, <3>1
    <3>. QED  BY <3>2 DEF ItemsOf
  <2>. QED  BY <2>1, <2>2 DEF ItemsOf
<1>12. Items(b, n)
  <2>1. Len(b) >= Growth /\ n \in 0 .. Len(b)  BY <1>1, <1>7
  <2>. QED  BY <1>7, <1>9, <1>10, <2>1 DEF Items
<1>. QED  BY <1>11, <1>12 DEF n

-----------------------------------------------------------------------------
(* Vector: the inductive invariant *)

LEMMA ItemsConsistent == ASSUME NEW a, NEW n, Items(a, n) PROVE Consistent(a, n)
BY VectorAssumption DEF Items, AllItems, Consistent

\* An operation that leaves distinct objects, and an owner those it holds.
LEMMA BecomesInv ==
    ASSUME VectorInv, NEW a, NEW n, Becomes(a, n), Items(a, n),
           held' \subseteq Object, vectorOwner => held' = ItemsOf(a, n)
    PROVE  VectorInv' /\ vectorFailed' = vectorFailed /\ list' = SubSeq(a, 1, n)
<1>1. array' = a /\ vectorItems' = n /\ vectorOwner' = vectorOwner  BY DEF Becomes
<1>2. vectorFailed' = vectorFailed
  <2>1. vectorFailed \in BOOLEAN  BY DEF VectorInv
  <2>2. vectorFailed' = (vectorFailed \/ ~Consistent(a, n))  BY DEF Becomes
  <2>3. Consistent(a, n)  BY ItemsConsistent
  <2>. QED  BY <2>1, <2>2, <2>3
<1>3. vectorOwner \in BOOLEAN /\ vectorFailed \in BOOLEAN  BY DEF VectorInv
<1>4. Items(a, n)' = Items(a, n)  OBVIOUS
<1>5. Items(array', vectorItems')  BY <1>1
<1>6. ItemsOf(array', vectorItems') = ItemsOf(a, n)  BY <1>1
<1>7. VectorInv'  BY <1>1, <1>2, <1>3, <1>5, <1>6 DEF VectorInv
<1>8. list' = SubSeq(a, 1, n)  BY <1>1 DEF list
<1>. QED  BY <1>2, <1>7, <1>8

LEMMA VectorInvInit == VectorInit => VectorInv
<1>1. SUFFICES ASSUME VectorInit PROVE VectorInv  OBVIOUS
<1>2. array \in Seq(Cell) /\ Len(array) = Growth
  <2>1. array = [i \in 1 .. Growth |-> NoObject] /\ Growth \in Nat  BY <1>1, VectorAssumption DEF VectorInit
  <2>2. array \in Arrays(Growth)  BY <2>1 DEF Arrays, Cell
  <2>. QED  BY <2>1, <2>2, ArrayCells
<1>3. vectorItems = 0 /\ held = {} /\ vectorFailed = FALSE /\ vectorOwner \in BOOLEAN  BY <1>1 DEF VectorInit
<1>4. Items(array, vectorItems)
  <2>1. 0 \in 0 .. Len(array) /\ Len(array) >= Growth  BY <1>2, VectorAssumption
  <2>2. \A i \in 1 .. 0 : FALSE  OBVIOUS
  <2>. QED  BY <1>2, <1>3, <2>1, <2>2 DEF Items, AllItems
<1>5. ItemsOf(array, vectorItems) = {}  BY <1>3 DEF ItemsOf
<1>. QED  BY <1>3, <1>4, <1>5 DEF VectorInv

\* The list with one more item.
LEMMA ListWith ==
    ASSUME VectorInv, NEW idx \in 1 .. vectorItems + 1, NEW o \in Unused, NEW b, Items(b, vectorItems + 1),
           \A j \in 1 .. vectorItems + 1 : b[j] = IF j < idx THEN array[j] ELSE IF j = idx THEN o ELSE array[j - 1]
    PROVE  /\ SubSeq(b, 1, vectorItems + 1) = ImplementsList!With(list, idx, o)
           /\ idx \in 1 .. Len(list) + 1 /\ o \in Object \ ImplementsList!Elements(list)
<1>. DEFINE n == vectorItems
            s == ImplementsList!With(list, idx, o)
<1>1. list \in Seq(Object) /\ Len(list) = n /\ n \in Nat /\ \A i \in 1 .. n : list[i] = array[i]
  BY ListOf DEF VectorInv, list
<1>2. idx \in 1 .. Len(list) + 1 /\ o \in Object /\ o \notin Used  BY <1>1 DEF Unused
<1>a. list \in Seq(Object) /\ idx \in 1 .. Len(list) + 1 /\ o \in Object  BY <1>1, <1>2
<1>3. /\ SX!InsertAt(list, idx, o) \in Seq(Object) /\ Len(SX!InsertAt(list, idx, o)) = Len(list) + 1
      /\ \A j \in 1 .. Len(list) + 1 :
            SX!InsertAt(list, idx, o)[j] = IF j < idx THEN list[j] ELSE IF j = idx THEN o ELSE list[j - 1]
  BY <1>a, InsertFacts, SMTT(60)
<1>4. s = SX!InsertAt(list, idx, o)  BY DEF ImplementsList!With, SX!InsertAt
<1>. HIDE DEF s, list, n
<1>5. s \in Seq(Object) /\ Len(s) = n + 1  BY <1>1, <1>3, <1>4
<1>6. \A j \in 1 .. n + 1 : b[j] = s[j]
  <2>1. SUFFICES ASSUME NEW j \in 1 .. n + 1 PROVE b[j] = s[j]  OBVIOUS
  <2>2. s[j] = IF j < idx THEN list[j] ELSE IF j = idx THEN o ELSE list[j - 1]  BY <1>1, <1>3, <1>4
  <2>3. b[j] = IF j < idx THEN array[j] ELSE IF j = idx THEN o ELSE array[j - 1]  BY DEF n
  <2>4. (j < idx => j \in 1 .. n) /\ (j > idx => j - 1 \in 1 .. n)  BY <1>1 DEF n
  <2>. QED  BY <1>1, <2>2, <2>3, <2>4
<1>7. Items(b, n + 1)  BY DEF n
<1>8. SubSeq(b, 1, n + 1) = s  BY <1>5, <1>6, <1>7, ListIs
<1>. QED  BY <1>2, <1>8 DEF s, n, Used, ImplementsList!Elements

LEMMA ListWithout ==
    ASSUME VectorInv, NEW idx \in 1 .. vectorItems, NEW b, Items(b, vectorItems - 1),
           \A j \in 1 .. vectorItems - 1 : b[j] = IF j < idx THEN array[j] ELSE array[j + 1]
    PROVE  SubSeq(b, 1, vectorItems - 1) = ImplementsList!Without(list, idx) /\ idx \in DOMAIN list
<1>. DEFINE n == vectorItems
            s == ImplementsList!Without(list, idx)
<1>1. list \in Seq(Object) /\ Len(list) = n /\ n \in Nat /\ DOMAIN list = 1 .. n /\ \A i \in 1 .. n : list[i] = array[i]
  BY ListOf DEF VectorInv, list
<1>2. idx \in 1 .. Len(list)  BY <1>1
<1>3. /\ SX!RemoveAt(list, idx) \in Seq(Object) /\ Len(SX!RemoveAt(list, idx)) = Len(list) - 1
      /\ \A j \in 1 .. Len(list) - 1 : SX!RemoveAt(list, idx)[j] = IF j < idx THEN list[j] ELSE list[j + 1]
  BY <1>1, <1>2, RemoveFacts
<1>4. s = SX!RemoveAt(list, idx)  BY DEF ImplementsList!Without, SX!RemoveAt
<1>. HIDE DEF s, list, n
<1>5. s \in Seq(Object) /\ Len(s) = n - 1  BY <1>1, <1>3, <1>4
<1>6. \A j \in 1 .. n - 1 : b[j] = s[j]
  <2>1. SUFFICES ASSUME NEW j \in 1 .. n - 1 PROVE b[j] = s[j]  OBVIOUS
  <2>2. s[j] = IF j < idx THEN list[j] ELSE list[j + 1]  BY <1>1, <1>3, <1>4
  <2>3. b[j] = IF j < idx THEN array[j] ELSE array[j + 1]  BY DEF n
  <2>4. j \in 1 .. n /\ j + 1 \in 1 .. n  BY <1>1
  <2>. QED  BY <1>1, <2>2, <2>3, <2>4
<1>7. Items(b, n - 1)  BY DEF n
<1>8. SubSeq(b, 1, n - 1) = s  BY <1>5, <1>6, <1>7, ListIs
<1>. QED  BY <1>1, <1>8 DEF s, n

\* The abstract list's next-state relation.
ListNext ==
    \/ ImplementsList!Insert \/ ImplementsList!Remove \/ ImplementsList!Replace \/ ImplementsList!Swap
    \/ ImplementsList!Sort \/ ImplementsList!Prune \/ ImplementsList!AddAll

\* What every step does: it keeps the invariant and is one of the list.
Sound == VectorInv' /\ ListNext

LEMMA InsertSound == ASSUME VectorInv, Vector_insert PROVE Sound /\ vectorFailed' = vectorFailed
<1>1. PICK idx \in 1 .. vectorItems + 1, o \in Unused :
         /\ Becomes(Store(Shifted(Grown(array, vectorItems), idx), idx, o), vectorItems + 1)
         /\ Hold({o}, {})
  BY DEF Vector_insert
<1>. DEFINE b == Store(Shifted(Grown(array, vectorItems), idx), idx, o)
<1>2. /\ Items(b, vectorItems + 1) /\ ItemsOf(b, vectorItems + 1) = ItemsOf(array, vectorItems) \cup {o}
      /\ \A j \in 1 .. vectorItems + 1 : b[j] = IF j < idx THEN array[j] ELSE IF j = idx THEN o ELSE array[j - 1]
  BY InsertItems
<1>. HIDE DEF b
<1>3. o \in Object  BY DEF Unused
<1>4. held' \subseteq Object /\ (vectorOwner => held' = ItemsOf(b, vectorItems + 1))
  BY <1>1, <1>2, <1>3 DEF Hold, VectorInv
<1>5. Becomes(b, vectorItems + 1)  BY <1>1 DEF b
<1>6. VectorInv' /\ vectorFailed' = vectorFailed /\ list' = SubSeq(b, 1, vectorItems + 1)
  BY <1>2, <1>4, <1>5, BecomesInv
<1>7. /\ SubSeq(b, 1, vectorItems + 1) = ImplementsList!With(list, idx, o)
      /\ idx \in 1 .. Len(list) + 1 /\ o \in Object \ ImplementsList!Elements(list)
  BY <1>2, ListWith
<1>8. ImplementsList!Insert  BY <1>6, <1>7 DEF ImplementsList!Insert
<1>. QED  BY <1>6, <1>8 DEF Sound, ListNext

LEMMA RemoveSound == ASSUME VectorInv, Vector_remove PROVE Sound /\ vectorFailed' = vectorFailed
<1>1. PICK idx \in 1 .. vectorItems : Becomes(Closed(array, idx), vectorItems - 1) /\ Hold({}, {array[idx]})
  BY DEF Vector_remove
<1>. DEFINE b == Closed(array, idx)
<1>2. /\ Items(b, vectorItems - 1) /\ ItemsOf(b, vectorItems - 1) = ItemsOf(array, vectorItems) \ {array[idx]}
      /\ \A j \in 1 .. vectorItems - 1 : b[j] = IF j < idx THEN array[j] ELSE array[j + 1]
  BY RemoveItems
<1>3. Becomes(b, vectorItems - 1)  BY <1>1
<1>. HIDE DEF b
<1>4. held' \subseteq Object /\ (vectorOwner => held' = ItemsOf(b, vectorItems - 1))
  BY <1>1, <1>2 DEF Hold, VectorInv
<1>5. VectorInv' /\ vectorFailed' = vectorFailed /\ list' = SubSeq(b, 1, vectorItems - 1)
  BY <1>2, <1>3, <1>4, BecomesInv
<1>6. SubSeq(b, 1, vectorItems - 1) = ImplementsList!Without(list, idx) /\ idx \in DOMAIN list
  BY <1>2, ListWithout
<1>7. ImplementsList!Remove  BY <1>5, <1>6 DEF ImplementsList!Remove
<1>. QED  BY <1>5, <1>7 DEF Sound, ListNext

LEMMA SetSound == ASSUME VectorInv, Vector_set PROVE Sound /\ vectorFailed' = vectorFailed
<1>1. PICK idx \in 1 .. vectorItems + 1, o \in Unused :
         /\ Becomes(Store(Grown(array, vectorItems), idx, o), IF idx > vectorItems THEN idx ELSE vectorItems)
         /\ Hold({o}, IF idx <= vectorItems THEN {array[idx]} ELSE {})
  BY DEF Vector_set
<1>. DEFINE n == vectorItems
            b == Store(Grown(array, n), idx, o)
<1>2. /\ idx <= n =>
            /\ Items(b, n) /\ ItemsOf(b, n) = (ItemsOf(array, n) \cup {o}) \ {array[idx]}
            /\ \A j \in 1 .. n : b[j] = IF j = idx THEN o ELSE array[j]
      /\ idx > n =>
            /\ Items(b, n + 1) /\ ItemsOf(b, n + 1) = ItemsOf(array, n) \cup {o}
            /\ \A j \in 1 .. n + 1 : b[j] = IF j < idx THEN array[j] ELSE IF j = idx THEN o ELSE array[j - 1]
  BY SetItems
<1>3. o \in Object /\ o \notin Used  BY DEF Unused
<1>4. Becomes(b, IF idx > n THEN idx ELSE n) /\ Hold({o}, IF idx <= n THEN {array[idx]} ELSE {})  BY <1>1
<1>. HIDE DEF b
<1>5. list \in Seq(Object) /\ Len(list) = n /\ n \in Nat /\ DOMAIN list = 1 .. n /\ \A i \in 1 .. n : list[i] = array[i]
  BY ListOf DEF VectorInv, list
<1>6. CASE idx <= n
  <2>1. idx \in 1 .. n  BY <1>5, <1>6
  <2>2. Becomes(b, n)  BY <1>4, <1>5, <1>6
  <2>3. held' \subseteq Object /\ (vectorOwner => held' = ItemsOf(b, n))
    BY <1>2, <1>3, <1>4, <1>6 DEF Hold, VectorInv
  <2>4. VectorInv' /\ vectorFailed' = vectorFailed /\ list' = SubSeq(b, 1, n)  BY <1>2, <1>6, <2>2, <2>3, BecomesInv
  <2>5. SubSeq(b, 1, n) = [list EXCEPT ![idx] = o]
    <3>. DEFINE s == [list EXCEPT ![idx] = o]
    <3>. HIDE DEF list
    <3>1. s \in Seq(Object) /\ Len(s) = n /\ \A j \in 1 .. n : s[j] = IF j = idx THEN o ELSE list[j]
      BY <1>3, <1>5, <2>1, ExceptSeq
    <3>. HIDE DEF s
    <3>2. \A j \in 1 .. n : b[j] = s[j]  BY <1>2, <1>5, <1>6, <3>1
    <3>3. SubSeq(b, 1, n) = s  BY <1>2, <1>6, <3>1, <3>2, ListIs
    <3>. QED  BY <3>3 DEF s
  <2>6. o \in Object \ ImplementsList!Elements(list)  BY <1>3 DEF Used, ImplementsList!Elements
  <2>7. ImplementsList!Replace
    <3>1. idx \in DOMAIN list /\ list' = [list EXCEPT ![idx] = o]  BY <1>5, <2>1, <2>4, <2>5
    <3>. QED  BY <2>6, <3>1 DEF ImplementsList!Replace
  <2>. QED  BY <2>4, <2>7 DEF Sound, ListNext
<1>7. CASE idx > n
  <2>1. idx = n + 1  BY <1>5, <1>7
  <2>2. Becomes(b, n + 1)  BY <1>4, <1>7, <2>1
  <2>3. ~(idx <= n)  BY <1>5, <1>7
  <2>4. held' \subseteq Object /\ (vectorOwner => held' = ItemsOf(b, n + 1))
    BY <1>2, <1>3, <1>4, <1>7, <2>3 DEF Hold, VectorInv
  <2>5. VectorInv' /\ vectorFailed' = vectorFailed /\ list' = SubSeq(b, 1, n + 1)
    BY <1>2, <1>7, <2>2, <2>4, BecomesInv
  <2>6. /\ SubSeq(b, 1, n + 1) = ImplementsList!With(list, idx, o)
        /\ idx \in 1 .. Len(list) + 1 /\ o \in Object \ ImplementsList!Elements(list)
    BY <1>2, <1>7, ListWith
  <2>7. ImplementsList!Insert  BY <2>5, <2>6 DEF ImplementsList!Insert
  <2>. QED  BY <2>5, <2>7 DEF Sound, ListNext
<1>. QED  BY <1>5, <1>6, <1>7

LEMMA MoveSound == ASSUME VectorInv, Vector_move PROVE Sound /\ vectorFailed' = vectorFailed
<1>1. PICK idx \in 1 .. (vectorItems - 1) :
         Becomes([array EXCEPT ![idx] = array[idx + 1], ![idx + 1] = array[idx]], vectorItems)
  BY DEF Vector_move
<1>. DEFINE n == vectorItems
            b == Moved(idx)
<1>3. Becomes(b, n)  BY <1>1 DEF Moved
<1>2. /\ Items(b, n) /\ ItemsOf(b, n) = ItemsOf(array, n)
      /\ \A j \in 1 .. n : b[j] = IF j = idx THEN array[idx + 1] ELSE IF j = idx + 1 THEN array[idx] ELSE array[j]
  BY MoveItems
<1>. HIDE DEF b
<1>4. held' = held  BY DEF Vector_move
<1>5. held' \subseteq Object /\ (vectorOwner => held' = ItemsOf(b, n))  BY <1>2, <1>4 DEF VectorInv
<1>6. VectorInv' /\ vectorFailed' = vectorFailed /\ list' = SubSeq(b, 1, n)  BY <1>2, <1>3, <1>5, BecomesInv
<1>7. list \in Seq(Object) /\ Len(list) = n /\ n \in Nat /\ DOMAIN list = 1 .. n /\ \A i \in 1 .. n : list[i] = array[i]
  BY ListOf DEF VectorInv, list
<1>. DEFINE s == [list EXCEPT ![idx] = list[idx + 1], ![idx + 1] = list[idx]]
<1>8. SubSeq(b, 1, n) = s
  <2>. HIDE DEF list
  <2>1. idx \in 1 .. n /\ idx + 1 \in 1 .. n  BY <1>7
  <2>2. \A j \in 1 .. n : s[j] = IF j = idx THEN list[idx + 1] ELSE IF j = idx + 1 THEN list[idx] ELSE list[j]
    BY <1>7, <2>1
  <2>3. s \in Seq(Object) /\ Len(s) = n
    <3>1. \A j \in 1 .. n : list[j] \in Object  BY <1>7
    <3>2. \A j \in 1 .. n : s[j] \in Object  BY <2>1, <2>2, <3>1
    <3>3. s = [j \in 1 .. n |-> s[j]]
      <4>1. list = [j \in 1 .. n |-> list[j]]  BY <1>7
      <4>. QED  BY <4>1
    <3>. HIDE DEF s
    <3>4. s \in [1 .. n -> Object]  BY <3>2, <3>3
    <3>. QED  BY <1>7, <3>4
  <2>. HIDE DEF s
  <2>4. \A j \in 1 .. n : b[j] = s[j]  BY <1>2, <1>7, <2>1, <2>2
  <2>. QED  BY <1>2, <2>3, <2>4, ListIs
<1>9. ImplementsList!Swap
  <2>1. idx \in 1 .. (Len(list) - 1) /\ list' = s  BY <1>6, <1>7, <1>8
  <2>. QED  BY <2>1 DEF ImplementsList!Swap
<1>. QED  BY <1>6, <1>9 DEF Sound, ListNext

LEMMA PruneSound == ASSUME VectorInv, Vector_prune PROVE Sound /\ vectorFailed' = vectorFailed
<1>1. Becomes(array, 0) /\ Hold({}, Used)  BY DEF Vector_prune
<1>2. Items(array, 0) /\ ItemsOf(array, 0) = {} /\ SubSeq(array, 1, 0) = <<>>  BY PruneItems
<1>3. held' \subseteq Object /\ (vectorOwner => held' = ItemsOf(array, 0))
  BY <1>1, <1>2, UsedIs DEF Hold, VectorInv
<1>4. VectorInv' /\ vectorFailed' = vectorFailed /\ list' = SubSeq(array, 1, 0)  BY <1>1, <1>2, <1>3, BecomesInv
<1>5. ImplementsList!Prune  BY <1>2, <1>4 DEF ImplementsList!Prune
<1>. QED  BY <1>4, <1>5 DEF Sound, ListNext

LEMMA DistinctItems ==
    ASSUME NEW s \in Seq(Object), \A i, j \in 1 .. Len(s) : s[i] = s[j] => i = j
    PROVE  ImplementsList!Elements(s) \subseteq Object /\ ImplementsList!Distinct(s)
<1>1. DOMAIN s = 1 .. Len(s) /\ \A i \in 1 .. Len(s) : s[i] \in Object  OBVIOUS
<1>. QED  BY <1>1 DEF ImplementsList!Elements, ImplementsList!Distinct

LEMMA SpliceSound == ASSUME VectorInv, Vector_splice PROVE Sound /\ (MaxSplice <= Growth => vectorFailed' = vectorFailed)
<1>1. ~vectorOwner /\ vectorItems = 0 /\ vectorOwner' = vectorOwner /\ held' = held  BY DEF Vector_splice
<1>2. PICK n \in 0 .. MaxSplice : \E from \in [1 .. n -> Object] :
         /\ \A i, j \in 1 .. n : from[i] = from[j] => i = j
         /\ LET a == Grown(array, vectorItems + n)
            IN /\ array' = [i \in DOMAIN a |->
                                IF i \in (vectorItems + 1) .. (vectorItems + n) THEN from[i - vectorItems] ELSE a[i]]
               /\ vectorItems' = vectorItems + n
               /\ vectorFailed' = (vectorFailed \/ ~Consistent(array, vectorItems + n))
  BY DEF Vector_splice
<1>3. PICK from \in [1 .. n -> Object] :
         /\ \A i, j \in 1 .. n : from[i] = from[j] => i = j
         /\ LET a == Grown(array, vectorItems + n)
            IN /\ array' = [i \in DOMAIN a |->
                                IF i \in (vectorItems + 1) .. (vectorItems + n) THEN from[i - vectorItems] ELSE a[i]]
               /\ vectorItems' = vectorItems + n
               /\ vectorFailed' = (vectorFailed \/ ~Consistent(array, vectorItems + n))
  BY <1>2
<1>4. n \in Nat /\ n <= MaxSplice /\ vectorItems + n = n /\ vectorItems' = n  BY <1>1, <1>3, VectorAssumption
<1>. DEFINE a == Grown(array, vectorItems + n)
            b == [i \in DOMAIN a |->
                      IF i \in (vectorItems + 1) .. (vectorItems + n) THEN from[i - vectorItems] ELSE a[i]]
<1>5. array' = b  BY <1>3
<1>6. Items(b, n) /\ \A j \in 1 .. n : b[j] = from[j]  BY <1>1, <1>3, <1>4, SpliceItems
<1>. HIDE DEF b
<1>7. vectorFailed' \in BOOLEAN  BY <1>3 DEF VectorInv
<1>8. VectorInv'
  <2>1. Items(array', vectorItems')  BY <1>4, <1>5, <1>6
  <2>. QED  BY <1>1, <1>7, <2>1 DEF VectorInv
<1>9. /\ SubSeq(b, 1, n) \in Seq(Object) /\ Len(SubSeq(b, 1, n)) = n
      /\ \A i \in 1 .. n : SubSeq(b, 1, n)[i] = b[i]
  BY <1>6, ListOf
<1>10. list' = SubSeq(b, 1, n)  BY <1>4, <1>5 DEF list
<1>. DEFINE s == SubSeq(b, 1, n)
<1>11. ImplementsList!Elements(s) \subseteq Object /\ ImplementsList!Distinct(s)
  <2>. HIDE DEF s
  <2>1. s \in Seq(Object) /\ Len(s) = n /\ \A i \in 1 .. n : s[i] = from[i]  BY <1>6, <1>9 DEF s
  <2>2. \A i, j \in 1 .. Len(s) : s[i] = s[j] => i = j  BY <1>3, <2>1
  <2>. QED  BY <2>1, <2>2, DistinctItems
<1>12. list = <<>> /\ Len(list) = 0  BY <1>1, PruneItems DEF list
<1>13. SubSeq(s, 1, Len(list)) = list
  <2>. HIDE DEF s
  <2>1. SubSeq(s, 1, 0) = <<>>  BY <1>9 DEF s
  <2>. QED  BY <1>12, <2>1
<1>14. ImplementsList!AddAll  BY <1>10, <1>11, <1>13 DEF ImplementsList!AddAll
<1>15. ASSUME MaxSplice <= Growth PROVE vectorFailed' = vectorFailed
  <2>1. Len(array) >= Growth /\ Len(array) \in Nat /\ Growth \in Nat /\ MaxSplice \in Nat
    BY VectorAssumption DEF VectorInv, Items
  <2>2. Consistent(array, n)  BY <1>1, <1>4, <1>15, <2>1 DEF Consistent
  <2>3. vectorFailed' = (vectorFailed \/ ~Consistent(array, n)) /\ vectorFailed \in BOOLEAN  BY <1>3, <1>4 DEF VectorInv
  <2>. QED  BY <2>2, <2>3
<1>. QED  BY <1>8, <1>14, <1>15 DEF Sound, ListNext

-----------------------------------------------------------------------------
(* Vector: both sorts *)

\* A step after which b has the items in another order, and sorted.
LEMMA SortedSound ==
    ASSUME VectorInv, NEW b, Becomes(b, vectorItems), held' = held,
           Items(b, vectorItems), ItemsOf(b, vectorItems) = ItemsOf(array, vectorItems), InOrder(b, 1, vectorItems)
    PROVE  Sound /\ vectorFailed' = vectorFailed /\ list' = SubSeq(b, 1, vectorItems)
<1>. DEFINE n == vectorItems
            s == SubSeq(b, 1, n)
<1>1. held' \subseteq Object /\ (vectorOwner => held' = ItemsOf(b, n))  BY DEF VectorInv
<1>2. VectorInv' /\ vectorFailed' = vectorFailed /\ list' = s  BY <1>1, BecomesInv
<1>3. Len(list) = n /\ n \in Nat /\ DOMAIN list = 1 .. n /\ \A i \in 1 .. n : list[i] = array[i]
  BY ListOf DEF VectorInv, list
<1>4. Len(s) = n /\ DOMAIN s = 1 .. n /\ \A i \in 1 .. n : s[i] = b[i] /\ b[i] \in Object  BY ListOf
<1>5. ImplementsList!Elements(s) = ImplementsList!Elements(list)
  <2>1. ImplementsList!Elements(s) = ItemsOf(b, n)
    <3>. HIDE DEF s
    <3>. QED  BY <1>4 DEF ImplementsList!Elements, ItemsOf
  <2>2. ImplementsList!Elements(list) = ItemsOf(array, n)  BY <1>3 DEF ImplementsList!Elements, ItemsOf
  <2>. QED  BY <2>1, <2>2
<1>6. ImplementsList!InOrder(s)
  <2>. HIDE DEF s, n
  <2>1. SUFFICES ASSUME NEW i \in 1 .. (Len(s) - 1) PROVE KeyOf[s[i]] <= KeyOf[s[i + 1]]
    BY DEF ImplementsList!InOrder
  <2>2. i \in 1 .. n /\ i + 1 \in 1 .. n /\ i < i + 1  BY <1>3, <1>4
  <2>3. AtMost(b[i], b[i + 1])  BY <2>2 DEF InOrder, n
  <2>4. KeyOf[b[i]] \in Int /\ KeyOf[b[i + 1]] \in Int  BY <1>4, <2>2, VectorAssumption
  <2>. QED  BY <1>4, <2>2, <2>3, <2>4 DEF AtMost, compare
<1>7. ImplementsList!Sort
  <2>. HIDE DEF s
  <2>. QED  BY <1>2, <1>3, <1>4, <1>5, <1>6 DEF ImplementsList!Sort
<1>. QED  BY <1>2, <1>7 DEF Sound, ListNext

LEMMA QuickSortSound == ASSUME VectorInv, Vector_quickSortCustomCompare PROVE Sound /\ vectorFailed' = vectorFailed
<1>. DEFINE b == quickSort(array, 1, vectorItems)
<1>1. Becomes(b, vectorItems) /\ held' = held  BY DEF Vector_quickSortCustomCompare
<1>2. array \in Seq(Cell) /\ vectorItems \in 0 .. Len(array) /\ AllItems(array, 1, vectorItems)
  BY DEF VectorInv, Items
<1>3. 1 \in 1 .. Len(array) + 1  BY <1>2
<1>4. Shuffled(array, b, Len(array), 1, vectorItems) /\ InOrder(b, 1, vectorItems)
  BY <1>2, <1>3, QuickSortSorts
<1>. HIDE DEF b
<1>5. b \in Arrays(Len(array))  BY <1>4 DEF Shuffled
<1>6. PICK pi : Moves(pi, Len(array), 1, vectorItems) /\ \A i \in 1 .. Len(array) : b[i] = array[pi[i]]
  BY <1>4 DEF Shuffled
<1>7. Items(b, vectorItems) /\ ItemsOf(b, vectorItems) = ItemsOf(array, vectorItems)
  BY <1>5, <1>6, ShuffledFacts
<1>. QED  BY <1>1, <1>4, <1>7, SortedSound

\* The order of the items that compare equal, or are in order already.
Stays == \A i, j \in DOMAIN list : i < j /\ compare(list[i], list[j]) <= 0 =>
             PlaceOf(list[i], list') < PlaceOf(list[j], list')

LEMMA InsertionSortSound ==
    ASSUME VectorInv, Vector_insertionSort
    PROVE  Sound /\ vectorFailed' = vectorFailed /\ Stays
<1>. DEFINE b == insertionSort(array)
            n == vectorItems
<1>1. Becomes(b, n) /\ held' = held  BY DEF Vector_insertionSort
<1>2. array \in Seq(Cell) /\ n \in 0 .. Len(array) /\ AllItems(array, 1, n)  BY DEF VectorInv, Items
<1>3. b \in Arrays(Len(array)) /\ Settled(array, b, n)  BY <1>2, InsertionSortSettles
<1>. HIDE DEF b
<1>4. PICK pi : Settles(pi, array, b, n)  BY <1>3 DEF Settled
<1>5. /\ Moves(pi, Len(array), 1, n) /\ \A i \in 1 .. Len(array) : b[i] = array[pi[i]]
      /\ \A i, j \in 1 .. n : i < j => AtMost(b[i], b[j]) /\ (AtMost(b[j], b[i]) => pi[i] < pi[j])
  BY <1>4 DEF Settles
<1>6. /\ Items(b, n) /\ ItemsOf(b, n) = ItemsOf(array, n)
      /\ \A i \in 1 .. n : pi[i] \in 1 .. n /\ b[i] = array[pi[i]]
      /\ \A k \in 1 .. n : \E i \in 1 .. n : pi[i] = k
  <2>1. b \in Arrays(Len(array))  BY <1>3
  <2>2. Moves(pi, Len(array), 1, vectorItems) /\ \A i \in 1 .. Len(array) : b[i] = array[pi[i]]  BY <1>5
  <2>3. Items(b, vectorItems) /\ ItemsOf(b, vectorItems) = ItemsOf(array, vectorItems)
    BY <2>1, <2>2, ShuffledFacts
  <2>. HIDE DEF n
  <2>a. \A i \in 1 .. n : i \in 1 .. Len(array)  BY <1>2
  <2>4. \A i \in 1 .. n : pi[i] \in 1 .. n /\ b[i] = array[pi[i]]  BY <1>5, <2>a DEF Moves
  <2>5. ASSUME NEW k \in 1 .. n PROVE \E i \in 1 .. n : pi[i] = k
    <3>1. PICK i \in 1 .. Len(array) : pi[i] = k  BY <1>5, <2>a DEF Moves
    <3>2. i \in 1 .. n  BY <1>5, <3>1 DEF Moves
    <3>. QED  BY <3>1, <3>2
  <2>. QED  BY <2>3, <2>4, <2>5 DEF n
<1>7. InOrder(b, 1, n)  BY <1>5 DEF InOrder
<1>8. Sound /\ vectorFailed' = vectorFailed /\ list' = SubSeq(b, 1, n)  BY <1>1, <1>6, <1>7, SortedSound
<1>9. DOMAIN list = 1 .. n /\ n \in Nat /\ \A i \in 1 .. n : list[i] = array[i]
  BY ListOf DEF VectorInv, list
<1>10. DOMAIN list' = 1 .. n /\ \A i \in 1 .. n : (list')[i] = b[i]  BY <1>6, <1>8, ListOf
<1>11. ASSUME NEW p \in 1 .. n PROVE PlaceOf(b[p], list') = p
  <2>1. \A q \in 1 .. n : b[q] = b[p] => q = p  BY <1>6 DEF Items
  <2>2. \A q \in DOMAIN list' : (list')[q] = b[p] <=> q = p  BY <1>10, <2>1
  <2>3. p \in DOMAIN list'  BY <1>10
  <2>. QED  BY <2>2, <2>3 DEF PlaceOf
<1>12. Stays
  <2>1. SUFFICES ASSUME NEW i \in 1 .. n, NEW j \in 1 .. n, i < j, AtMost(list[i], list[j])
                 PROVE  PlaceOf(list[i], list') < PlaceOf(list[j], list')
    BY <1>9 DEF Stays, AtMost
  <2>2. PICK p \in 1 .. n : pi[p] = i  BY <1>6
  <2>3. PICK q \in 1 .. n : pi[q] = j  BY <1>6
  <2>4. b[p] = list[i] /\ b[q] = list[j]  BY <1>6, <1>9, <2>2, <2>3
  <2>5. p # q  BY <2>1, <2>2, <2>3
  <2>6. ~(q < p)
    <3>1. SUFFICES ASSUME q < p PROVE FALSE  OBVIOUS
    <3>2. AtMost(b[p], b[q])  BY <2>1, <2>4
    <3>3. pi[q] < pi[p]  BY <1>5, <3>1, <3>2
    <3>. QED  BY <2>1, <2>2, <2>3, <3>3
  <2>7. PlaceOf(list[i], list') = p /\ PlaceOf(list[j], list') = q  BY <1>11, <2>4
  <2>. QED  BY <2>5, <2>6, <2>7
<1>. QED  BY <1>8, <1>12

-----------------------------------------------------------------------------
(* Vector: the theorems *)

LEMMA VectorSteps ==
    ASSUME VectorInv, [VectorNext]_vectorVars
    PROVE  /\ VectorInv' /\ (ListNext \/ list' = list)
           /\ Vector_insertionSort => Stays
           /\ MaxSplice <= Growth => vectorFailed' = vectorFailed

<1>1. CASE Vector_insert  BY <1>1, InsertSound, InsertionSortSound DEF Sound
<1>2. CASE Vector_remove  BY <1>2, RemoveSound, InsertionSortSound DEF Sound
<1>3. CASE Vector_set  BY <1>3, SetSound, InsertionSortSound DEF Sound
<1>4. CASE Vector_move  BY <1>4, MoveSound, InsertionSortSound DEF Sound
<1>5. CASE Vector_prune  BY <1>5, PruneSound, InsertionSortSound DEF Sound
<1>6. CASE Vector_splice  BY <1>6, SpliceSound, InsertionSortSound DEF Sound
<1>7. CASE Vector_quickSortCustomCompare  BY <1>7, QuickSortSound, InsertionSortSound DEF Sound
<1>8. CASE Vector_insertionSort  BY <1>8, InsertionSortSound DEF Sound
<1>9. CASE UNCHANGED vectorVars
  <2>1. array' = array /\ vectorItems' = vectorItems /\ vectorOwner' = vectorOwner /\ held' = held
        /\ vectorFailed' = vectorFailed
    BY <1>9 DEF vectorVars
  <2>2. VectorInv'  BY <2>1 DEF VectorInv
  <2>3. list' = list  BY <2>1 DEF list
  <2>. QED  BY <2>1, <2>2, <2>3, InsertionSortSound
<1>. QED  BY <1>1, <1>2, <1>3, <1>4, <1>5, <1>6, <1>7, <1>8, <1>9 DEF VectorNext

LEMMA VectorAlways == VectorSpec => []VectorInv
<1>1. VectorInv /\ [VectorNext]_vectorVars => VectorInv'  BY VectorSteps
<1>. QED  BY <1>1, VectorInvInit, PTL DEF VectorSpec

(****************************************************************************)
(* Whatever is inserted, removed, replaced, moved, pruned, spliced in or    *)
(* sorted, the used cells of the array are the list that List describes,    *)
(* and insertionSort keeps the order of equal items (Vector.c:87-350).      *)
(****************************************************************************)
THEOREM VectorIsList == VectorSpec => StableList
<1>1. VectorInit => ImplementsList!Init
  <2>1. SUFFICES ASSUME VectorInit PROVE list = <<>>  BY DEF ImplementsList!Init
  <2>2. VectorInv /\ vectorItems = 0  BY <2>1, VectorInvInit DEF VectorInit
  <2>. QED  BY <2>2, PruneItems DEF list
<1>2. VectorInv /\ [VectorNext]_vectorVars =>
         [\/ ImplementsList!Insert \/ ImplementsList!Remove \/ ImplementsList!Replace \/ ImplementsList!Swap
          \/ ImplementsList!Sort \/ ImplementsList!Prune \/ ImplementsList!AddAll]_list
  BY VectorSteps DEF ListNext
<1>3. VectorInv /\ [VectorNext]_vectorVars =>
         [Vector_insertionSort =>
             \A i, j \in DOMAIN list : i < j /\ compare(list[i], list[j]) <= 0 =>
                 PlaceOf(list[i], list') < PlaceOf(list[j], list')]_vectorVars
  BY VectorSteps DEF Stays
<1>4. VectorSpec => ListSpec
  BY <1>1, <1>2, VectorAlways, PTL DEF VectorSpec, ListSpec, ImplementsList!Spec
<1>5. VectorSpec => StableSort
  BY <1>3, VectorAlways, PTL DEF VectorSpec, StableSort
<1>. QED  BY <1>4, <1>5 DEF StableList

(****************************************************************************)
(* If no splice brings more items than the array has cells from the start,  *)
(* which Vector_splice checks too late, no assertion fails, and an owner    *)
(* holds exactly the objects of its list.                                   *)
(****************************************************************************)
THEOREM VectorCorrect == ASSUME MaxSplice <= Growth PROVE VectorSpec => VectorSound
<1>. DEFINE NoFailure == ~vectorFailed
<1>1. VectorInit => NoFailure  BY DEF VectorInit
<1>2. VectorInv /\ NoFailure /\ [VectorNext]_vectorVars => NoFailure'  BY VectorSteps
<1>3. VectorInv /\ NoFailure => HoldsItsItems
  <2>1. SUFFICES ASSUME VectorInv, NoFailure PROVE HoldsItsItems  OBVIOUS
  <2>2. VectorTypeOK  BY <2>1 DEF VectorInv, VectorTypeOK, Items, Cell
  <2>3. vectorOwner => held = Used  BY <2>1, UsedIs DEF VectorInv
  <2>. QED  BY <2>1, <2>2, <2>3 DEF HoldsItsItems, VectorNoAssertionFails
<1>. HIDE DEF NoFailure
<1>4. VectorSpec => []HoldsItsItems
  BY <1>1, <1>2, <1>3, VectorAlways, PTL DEF VectorSpec
<1>. QED  BY <1>4, VectorIsList, PTL DEF VectorSound

-----------------------------------------------------------------------------
(* Hashtable: tables in order *)

Tables(N) == [0 .. N - 1 -> TableItem \cup {Empty}]

\* The n-th bucket from k's home on.
Spot(N, k, n) == (k + n) % N

LEMMA SpotFacts ==
    ASSUME NEW N \in Nat \ {0}, NEW k \in Nat
    PROVE  /\ \A n \in Nat : Spot(N, k, n) \in 0 .. N - 1 /\ Spot(N, k, n + 1) = After(N, Spot(N, k, n))
                            /\ Before(N, Spot(N, k, n + 1)) = Spot(N, k, n)
           /\ \A g \in 0 .. N - 1 : \E n \in 0 .. N - 1 : Spot(N, k, n) = g
<1>1. ASSUME NEW n \in Nat
      PROVE  Spot(N, k, n) \in 0 .. N - 1 /\ Spot(N, k, n + 1) = After(N, Spot(N, k, n))
             /\ Before(N, Spot(N, k, n + 1)) = Spot(N, k, n)
  <2>. DEFINE a == k + n
  <2>1. a \in Int /\ k + (n + 1) = a + 1  OBVIOUS
  <2>. HIDE DEF a
  <2>2. a % N \in 0 .. N - 1 /\ (a + 1) % N = After(N, a % N)  BY <2>1, ModAfter
  <2>3. Before(N, After(N, a % N)) = a % N  BY <2>2, ModNear
  <2>. QED  BY <2>1, <2>2, <2>3 DEF Spot, a
<1>. QED  BY <1>1, ModReach DEF Spot

\* Less than N buckets from a home are all different.
LEMMA SpotsDiffer ==
    ASSUME NEW N \in Nat \ {0}, NEW k \in Nat, NEW m \in 0 .. N - 1, NEW p \in 0 .. N - 1, Spot(N, k, m) = Spot(N, k, p)
    PROVE  m = p
<1>. DEFINE r == k % N
<1>1. ASSUME NEW x \in 0 .. N - 1 PROVE (k + x) % N = IF r + x < N THEN r + x ELSE r + x - N
  <2>1. k \in Int /\ x \in Int /\ r \in 0 .. N - 1  OBVIOUS
  <2>2. (k + x) % N = (r + x) % N  BY <2>1, ModAdd
  <2>. HIDE DEF r
  <2>. DEFINE y == IF r + x < N THEN r + x ELSE r + x - N
  <2>3. y \in 0 .. N - 1 /\ (r + x = y \/ r + x = y + N)  BY <2>1
  <2>. HIDE DEF y
  <2>4. y % N = y /\ (y + N) % N = y  BY <2>3, ModNear
  <2>5. (r + x) % N = y  BY <2>3, <2>4
  <2>. QED  BY <2>2, <2>5 DEF y
<1>2. r \in 0 .. N - 1  OBVIOUS
<1>. HIDE DEF r
<1>. DEFINE fm == (k + m) % N
            fp == (k + p) % N
<1>3. fm = IF r + m < N THEN r + m ELSE r + m - N  BY <1>1
<1>4. fp = IF r + p < N THEN r + p ELSE r + p - N  BY <1>1
<1>5. fm = fp  BY DEF Spot
<1>. HIDE DEF fm, fp
<1>. QED  BY <1>2, <1>3, <1>4, <1>5

HasKey(b, k) == \E i \in DOMAIN b : b[i] # Empty /\ b[i].key = k
Pairs(b) == {<<b[i].key, b[i].value>> : i \in Occupied(b)}
HasGap(b) == \E i \in DOMAIN b : b[i] = Empty

\* An item with this probe count may be in bucket i, for what is in the one before.
FitsAt(b, N, i, probe) ==
    probe > 0 => b[Before(N, i)] # Empty /\ probe <= b[Before(N, i)].probe + 1

\* RobinHood, for any table; and that no key is there twice.
InPlace(b, N) ==
    /\ b \in Tables(N)
    /\ \A i \in 0 .. N - 1 : b[i] # Empty =>
          Spot(N, b[i].key, b[i].probe) = i /\ b[i].probe < N /\ FitsAt(b, N, i, b[i].probe)
    /\ \A i, j \in 0 .. N - 1 : b[i] # Empty /\ b[j] # Empty /\ b[i].key = b[j].key => i = j

LEMMA InPlaceFacts ==
    ASSUME NEW N \in Nat \ {0}, NEW b, InPlace(b, N), NEW i \in 0 .. N - 1
    PROVE  /\ DOMAIN b = 0 .. N - 1
           /\ b[i] = Empty \/ b[i] \in TableItem
           /\ b[i] # Empty => /\ b[i].key \in Key /\ b[i].key \in Nat /\ b[i].value \in Value
                              /\ b[i].probe \in Nat /\ b[i].probe < N
                              /\ Spot(N, b[i].key, b[i].probe) = i /\ FitsAt(b, N, i, b[i].probe)
<1>1. b \in Tables(N)  BY DEF InPlace
<1>2. DOMAIN b = 0 .. N - 1 /\ (b[i] = Empty \/ b[i] \in TableItem)  BY <1>1 DEF Tables
<1>3. b[i] # Empty => b[i].key \in Key /\ b[i].key \in Nat /\ b[i].value \in Value /\ b[i].probe \in Nat
  BY <1>2, HashtableAssumption DEF TableItem
<1>. QED  BY <1>2, <1>3 DEF InPlace

\* The buckets from k's home to before the p-th are full of items that are not
\* closer to their homes than k would be there.
Trail(b, N, k, p) == \A m \in 0 .. p - 1 : b[Spot(N, k, m)] # Empty /\ b[Spot(N, k, m)].probe >= m

LEMMA TrailExists ==
    ASSUME NEW N \in Nat \ {0}, NEW b, InPlace(b, N), NEW k \in Nat, NEW p \in Nat,
           FitsAt(b, N, Spot(N, k, p), p)
    PROVE  Trail(b, N, k, p)
<1>. DEFINE T == {x \in 1 .. p : b[Spot(N, k, p - x)] # Empty /\ b[Spot(N, k, p - x)].probe >= p - x}
<1>0. CASE p = 0  BY <1>0 DEF Trail
<1>1. CASE p > 0
  <2>1. 1 \in T
    <3>1. p - 1 \in Nat /\ (p - 1) + 1 = p  BY <1>1
    <3>2. Before(N, Spot(N, k, p)) = Spot(N, k, p - 1)
      <4>. DEFINE q == p - 1
      <4>1. q \in Nat /\ p = q + 1  BY <3>1
      <4>. HIDE DEF q
      <4>2. Before(N, Spot(N, k, q + 1)) = Spot(N, k, q)  BY <4>1, SpotFacts
      <4>. QED  BY <4>1, <4>2 DEF q
    <3>3. Spot(N, k, p - 1) \in 0 .. N - 1  BY <3>1, SpotFacts
    <3>4. b[Spot(N, k, p - 1)] # Empty /\ p <= b[Spot(N, k, p - 1)].probe + 1  BY <1>1, <3>2 DEF FitsAt
    <3>5. b[Spot(N, k, p - 1)].probe \in Nat  BY <3>3, <3>4, InPlaceFacts
    <3>. QED  BY <1>1, <3>4, <3>5
  <2>2. ASSUME NEW x \in 1 .. p, x # p, x \in T PROVE x + 1 \in T
    <3>. DEFINE q == p - (x + 1)
    <3>1. q \in Nat /\ p - x = q + 1  BY <2>2
    <3>. HIDE DEF q
    <3>2. b[Spot(N, k, q + 1)] # Empty /\ b[Spot(N, k, q + 1)].probe >= q + 1  BY <2>2, <3>1
    <3>3. Spot(N, k, q + 1) \in 0 .. N - 1 /\ Spot(N, k, q) \in 0 .. N - 1
          /\ Before(N, Spot(N, k, q + 1)) = Spot(N, k, q)
      <4>1. q + 1 \in Nat  BY <3>1
      <4>. QED  BY <3>1, <4>1, SpotFacts
    <3>4. FitsAt(b, N, Spot(N, k, q + 1), b[Spot(N, k, q + 1)].probe) /\ b[Spot(N, k, q + 1)].probe \in Nat
      BY <3>2, <3>3, InPlaceFacts
    <3>5. b[Spot(N, k, q)] # Empty /\ b[Spot(N, k, q + 1)].probe <= b[Spot(N, k, q)].probe + 1
      BY <3>1, <3>2, <3>3, <3>4 DEF FitsAt
    <3>6. b[Spot(N, k, q)].probe \in Nat  BY <3>3, <3>5, InPlaceFacts
    <3>7. b[Spot(N, k, q)].probe >= q  BY <3>1, <3>2, <3>4, <3>5, <3>6
    <3>. QED  BY <2>2, <3>5, <3>7 DEF q
  <2>3. \A x \in 1 .. p : x \in T
    <3>. HIDE DEF T
    <3>1. 1 \in Int /\ p \in Int /\ 1 <= p  BY <1>1
    <3>. QED  BY <2>1, <2>2, <3>1, IntervalInduction
  <2>4. ASSUME NEW m \in 0 .. p - 1 PROVE b[Spot(N, k, m)] # Empty /\ b[Spot(N, k, m)].probe >= m
    <3>1. p - m \in 1 .. p /\ p - (p - m) = m  BY <2>4
    <3>2. p - m \in T  BY <2>3, <3>1
    <3>. QED  BY <3>1, <3>2
  <2>. QED  BY <2>4 DEF Trail
<1>. QED  BY <1>0, <1>1

\* With a gap in the table it is shorter than a round.
LEMMA TrailEnds ==
    ASSUME NEW N \in Nat \ {0}, NEW b \in Tables(N), HasGap(b), NEW k \in Nat, NEW p \in Nat, Trail(b, N, k, p)
    PROVE  p < N
<1>1. PICK g \in 0 .. N - 1 : b[g] = Empty  BY DEF HasGap, Tables
<1>2. PICK n \in 0 .. N - 1 : Spot(N, k, n) = g  BY SpotFacts
<1>3. ~(n < p)  BY <1>1, <1>2 DEF Trail
<1>. QED  BY <1>3

-----------------------------------------------------------------------------
(* Hashtable: searching *)

LEMMA SizeFacts ==
    ASSUME NEW N \in Nat \ {0}, NEW b, DOMAIN b = 0 .. N - 1
    PROVE  Size(b) = N
<1>1. Cardinality(0 .. N - 1) = (N - 1) - 0 + 1  BY FS_Interval
<1>. QED  BY <1>1 DEF Size

\* Where the search for k ends, in terms of Spot.
LEMMA StopsFacts ==
    ASSUME NEW N \in Nat \ {0}, NEW b, InPlace(b, N), NEW k \in Nat
    PROVE  /\ Stops(b, k) \subseteq 0 .. N - 1
           /\ \A n \in 0 .. N - 1 :
                 n \in Stops(b, k) <=>
                    LET it == b[Spot(N, k, n)] IN it = Empty \/ it.key = k \/ it.probe < n
<1>1. Size(b) = N
  <2>1. DOMAIN b = 0 .. N - 1  BY DEF InPlace, Tables
  <2>. QED  BY <2>1, SizeFacts
<1>. QED  BY <1>1 DEF Stops, StopsAt, Spot

\* An item of key k stops the search for k, and no item before it does.
LEMMA FindsKey ==
    ASSUME NEW N \in Nat \ {0}, NEW b, InPlace(b, N), NEW i \in 0 .. N - 1, b[i] # Empty
    PROVE  /\ b[i].probe \in Stops(b, b[i].key)
           /\ \A m \in 0 .. N - 1 : m < b[i].probe => m \notin Stops(b, b[i].key)
<1>. DEFINE k == b[i].key
            p == b[i].probe
<1>1. k \in Nat /\ p \in 0 .. N - 1 /\ Spot(N, k, p) = i /\ FitsAt(b, N, i, p)  BY InPlaceFacts
<1>. HIDE DEF k, p
<1>2. Trail(b, N, k, p)  BY <1>1, TrailExists
<1>3. ASSUME NEW m \in 0 .. N - 1, m < p PROVE m \notin Stops(b, k)
  <2>1. b[Spot(N, k, m)] # Empty /\ b[Spot(N, k, m)].probe >= m  BY <1>1, <1>2, <1>3 DEF Trail
  <2>2. Spot(N, k, m) \in 0 .. N - 1
    <3>1. k \in Nat /\ m \in Nat  BY <1>1
    <3>. QED  BY <3>1, SpotFacts
  <2>3. b[Spot(N, k, m)].probe \in Nat  BY <2>1, <2>2, InPlaceFacts
  <2>4. b[Spot(N, k, m)].key # k
    <3>1. ASSUME b[Spot(N, k, m)].key = k PROVE FALSE
      <4>1. Spot(N, k, m) = i  BY <2>1, <2>2, <3>1 DEF InPlace, k
      <4>2. b[Spot(N, k, m)].probe = p  BY <4>1 DEF p
      <4>4. Spot(N, k, m) = Spot(N, k, p)  BY <1>1, <4>1
      <4>. QED  BY <1>1, <1>3, <4>4, SpotsDiffer
    <3>. QED  BY <3>1
  <2>. QED  BY <1>1, <2>1, <2>3, <2>4, StopsFacts
<1>4. p \in Stops(b, k)
  <2>1. b[Spot(N, k, p)].key = k  BY <1>1 DEF k
  <2>. QED  BY <1>1, <2>1, StopsFacts
<1>. QED  BY <1>3, <1>4 DEF k, p

\* The first of the probes that stop a search.
LEMMA FindFacts ==
    ASSUME NEW N \in Nat \ {0}, NEW b, InPlace(b, N), HasGap(b), NEW k \in Nat
    PROVE  /\ Stops(b, k) # {}
           /\ \A i \in 0 .. N - 1 : b[i] # Empty /\ b[i].key = k => Find(b, k) = i
           /\ ~HasKey(b, k) => Find(b, k) = -1
<1>. DEFINE stops == Stops(b, k)
            last == CHOOSE n \in stops : \A m \in stops : n <= m
            at == (k + last) % Size(b)
<1>1. DOMAIN b = 0 .. N - 1 /\ b \in Tables(N)  BY DEF InPlace, Tables
<1>2. Size(b) = N  BY <1>1, SizeFacts
<1>3. stops \subseteq 0 .. N - 1  BY StopsFacts
<1>4. stops # {}
  <2>1. PICK g \in 0 .. N - 1 : b[g] = Empty  BY <1>1 DEF HasGap
  <2>2. PICK n \in 0 .. N - 1 : Spot(N, k, n) = g  BY SpotFacts
  <2>3. n \in stops  BY <2>1, <2>2, StopsFacts
  <2>. QED  BY <2>3
<1>5. last \in stops /\ \A m \in stops : last <= m
  <2>1. stops \in SUBSET Nat  BY <1>3
  <2>. HIDE DEF stops
  <2>2. \E x \in stops : \A y \in stops : x <= y  BY <1>4, <2>1, LeastExists
  <2>. QED  BY <2>2
<1>6. Find(b, k) = IF b[at] # Empty /\ b[at].key = k THEN at ELSE -1  BY <1>4 DEF Find
<1>7. last \in 0 .. N - 1 /\ last \in Nat  BY <1>3, <1>5
<1>. HIDE DEF stops, last
<1>8. at = Spot(N, k, last)  BY <1>2 DEF Spot
<1>9. at \in 0 .. N - 1  BY <1>7, <1>8, SpotFacts
<1>. HIDE DEF at
<1>10. ASSUME NEW i \in 0 .. N - 1, b[i] # Empty, b[i].key = k PROVE Find(b, k) = i
  <2>1. b[i].probe \in stops /\ \A m \in 0 .. N - 1 : m < b[i].probe => m \notin stops
    BY <1>10, FindsKey DEF stops
  <2>2. b[i].probe \in 0 .. N - 1 /\ Spot(N, k, b[i].probe) = i
    <3>1. b[i].probe \in Nat /\ b[i].probe < N /\ Spot(N, b[i].key, b[i].probe) = i  BY <1>10, InPlaceFacts
    <3>. QED  BY <1>10, <3>1
  <2>3. last = b[i].probe
    <3>1. last <= b[i].probe  BY <1>5, <2>1
    <3>2. ~(last < b[i].probe)  BY <1>5, <1>7, <2>1
    <3>. QED  BY <1>7, <2>2, <3>1, <3>2
  <2>4. at = i  BY <1>8, <2>2, <2>3
  <2>. QED  BY <1>6, <1>10, <2>4
<1>11. ASSUME ~HasKey(b, k) PROVE Find(b, k) = -1
  <2>1. ~(b[at] # Empty /\ b[at].key = k)  BY <1>1, <1>9, <1>11 DEF HasKey
  <2>. QED  BY <1>6, <2>1
<1>. QED  BY <1>4, <1>10, <1>11 DEF stops

LEMMA GetPresent ==
    ASSUME NEW N \in Nat \ {0}, NEW b, InPlace(b, N), HasGap(b), NEW k \in Key, HasKey(b, k)
    PROVE  /\ Get(b, k) \in Value /\ <<k, Get(b, k)>> \in Pairs(b)
           /\ Find(b, k) \in 0 .. N - 1 /\ Find(b, k) # -1
           /\ b[Find(b, k)] # Empty /\ b[Find(b, k)].key = k /\ b[Find(b, k)].value = Get(b, k)
<1>1. k \in Nat /\ DOMAIN b = 0 .. N - 1 /\ -1 \notin 0 .. N - 1
  BY HashtableAssumption DEF InPlace, Tables
<1>2. PICK i \in 0 .. N - 1 : b[i] # Empty /\ b[i].key = k  BY <1>1 DEF HasKey
<1>3. Find(b, k) = i  BY <1>1, <1>2, FindFacts
<1>4. Get(b, k) = b[i].value  BY <1>1, <1>3 DEF Get
<1>5. b[i].value \in Value  BY <1>2, InPlaceFacts
<1>6. <<b[i].key, b[i].value>> \in Pairs(b)  BY <1>1, <1>2 DEF Pairs, Occupied
<1>. QED  BY <1>1, <1>2, <1>3, <1>4, <1>5, <1>6

LEMMA GetAbsent ==
    ASSUME NEW N \in Nat \ {0}, NEW b, InPlace(b, N), HasGap(b), NEW k \in Key, ~HasKey(b, k)
    PROVE  Get(b, k) = NoValue /\ Find(b, k) = -1
<1>1. k \in Nat  BY HashtableAssumption
<1>. QED  BY <1>1, FindFacts DEF Get

\* So get gives the value of the key.
LEMMA GetIs ==
    ASSUME NEW N \in Nat \ {0}, NEW b, InPlace(b, N), HasGap(b), NEW k \in Key, NEW v, <<k, v>> \in Pairs(b)
    PROVE  Get(b, k) = v
<1>1. k \in Nat /\ DOMAIN b = 0 .. N - 1 /\ -1 \notin 0 .. N - 1
  BY HashtableAssumption DEF InPlace, Tables
<1>2. PICK i \in 0 .. N - 1 : b[i] # Empty /\ <<k, v>> = <<b[i].key, b[i].value>>
  BY <1>1 DEF Pairs, Occupied
<1>3. b[i].key = k /\ b[i].value = v  BY <1>2
<1>4. Find(b, k) = i  BY <1>1, <1>2, <1>3, FindFacts
<1>. QED  BY <1>1, <1>3, <1>4 DEF Get

-----------------------------------------------------------------------------
(* Hashtable: insertion *)

LEMMA ItemsAreNotEmpty ==
    ASSUME NEW it \in TableItem
    PROVE  it # Empty
<1>1. it.value \in Value  BY DEF TableItem
<1>2. Empty.value = NoValue  BY DEF Empty
<1>. QED  BY <1>1, <1>2, HashtableAssumption

LEMMA HasKeyPairs ==
    ASSUME NEW b, NEW k
    PROVE  HasKey(b, k) <=> \E v : <<k, v>> \in Pairs(b)
<1>1. ASSUME HasKey(b, k) PROVE \E v : <<k, v>> \in Pairs(b)
  <2>1. PICK i \in DOMAIN b : b[i] # Empty /\ b[i].key = k  BY <1>1 DEF HasKey
  <2>2. <<b[i].key, b[i].value>> \in Pairs(b)  BY <2>1 DEF Pairs, Occupied
  <2>. QED  BY <2>1, <2>2
<1>2. ASSUME NEW v, <<k, v>> \in Pairs(b) PROVE HasKey(b, k)
  <2>1. PICK i \in Occupied(b) : <<k, v>> = <<b[i].key, b[i].value>>  BY <1>2 DEF Pairs
  <2>2. b[i].key = k  BY <2>1
  <2>. QED  BY <2>2 DEF HasKey, Occupied
<1>. QED  BY <1>1, <1>2

Pair(it) == <<it.key, it.value>>

Placed(t, b, j, it) == t = [b EXCEPT ![j] = it]

\* An item that no item there has the key of is put in a bucket that is empty
\* or has an item closer to its home.
LEMMA PlaceFacts ==
    ASSUME NEW N \in Nat \ {0}, NEW b, InPlace(b, N), NEW it \in TableItem, NEW j \in 0 .. N - 1,
           Spot(N, it.key, it.probe) = j, it.probe < N, FitsAt(b, N, j, it.probe), ~HasKey(b, it.key),
           b[j] = Empty \/ it.probe > b[j].probe,
           NEW t, Placed(t, b, j, it)
    PROVE  /\ InPlace(t, N) /\ Occupied(t) = Occupied(b) \cup {j}
           /\ b[j] = Empty => Pairs(t) = Pairs(b) \cup {Pair(it)}
           /\ b[j] # Empty =>
                 /\ Pairs(t) \cup {Pair(b[j])} = Pairs(b) \cup {Pair(it)}
                 /\ ~HasKey(t, b[j].key) /\ FitsAt(t, N, After(N, j), b[j].probe + 1)
<1>1. DOMAIN b = 0 .. N - 1 /\ b \in Tables(N)  BY DEF InPlace, Tables
<1>2. t \in Tables(N) /\ DOMAIN t = 0 .. N - 1 /\ t[j] = it /\ \A i \in 0 .. N - 1 : i # j => t[i] = b[i]
  BY <1>1 DEF Tables, Placed
<1>3. it # Empty /\ it.probe \in Nat /\ it.key \in Nat /\ it.key \in Key
  BY ItemsAreNotEmpty, HashtableAssumption DEF TableItem
<1>4. \A i \in 0 .. N - 1 : b[i] # Empty => b[i].key # it.key  BY <1>1 DEF HasKey
<1>5. ASSUME NEW i \in 0 .. N - 1, t[i] # Empty
      PROVE  Spot(N, t[i].key, t[i].probe) = i /\ t[i].probe < N /\ FitsAt(t, N, i, t[i].probe)
  <2>0. Before(N, i) \in 0 .. N - 1 /\ After(N, Before(N, i)) = i  BY ModNear
  <2>1. CASE i = j
    <3>1. CASE it.probe = 0  BY <1>2, <2>1, <3>1 DEF FitsAt
    <3>2. CASE it.probe > 0
      <4>1. Before(N, j) # j  BY <1>3, <3>2 DEF Before
      <4>2. t[Before(N, j)] = b[Before(N, j)]  BY <1>2, <2>0, <2>1, <4>1
      <4>. QED  BY <1>2, <2>1, <4>2 DEF FitsAt
    <3>. QED  BY <1>3, <3>1, <3>2
  <2>2. CASE i # j
    <3>1. t[i] = b[i]  BY <1>2, <2>2
    <3>2. b[i].probe \in Nat /\ b[i].probe < N /\ Spot(N, b[i].key, b[i].probe) = i /\ FitsAt(b, N, i, b[i].probe)
      BY <1>5, <3>1, InPlaceFacts
    <3>3. CASE Before(N, i) # j
      <4>1. t[Before(N, i)] = b[Before(N, i)]  BY <1>2, <2>0, <3>3
      <4>. QED  BY <3>1, <3>2, <4>1 DEF FitsAt
    <3>4. CASE Before(N, i) = j
      <4>1. b[i].probe > 0 => b[j] # Empty /\ b[i].probe <= b[j].probe + 1  BY <3>2, <3>4 DEF FitsAt
      <4>2. b[i].probe > 0 => b[j].probe \in Nat  BY <4>1, InPlaceFacts
      <4>3. b[i].probe > 0 => b[i].probe <= it.probe + 1  BY <1>3, <3>2, <4>1, <4>2
      <4>4. FitsAt(t, N, i, b[i].probe)  BY <1>2, <1>3, <3>4, <4>3 DEF FitsAt
      <4>. QED  BY <3>1, <3>2, <4>4
    <3>. QED  BY <3>3, <3>4
  <2>. QED  BY <2>1, <2>2
<1>6. \A i, k \in 0 .. N - 1 : t[i] # Empty /\ t[k] # Empty /\ t[i].key = t[k].key => i = k
  <2>1. \A i, k \in 0 .. N - 1 : b[i] # Empty /\ b[k] # Empty /\ b[i].key = b[k].key => i = k  BY DEF InPlace
  <2>. QED  BY <1>2, <1>4, <2>1
<1>7. InPlace(t, N)  BY <1>2, <1>5, <1>6 DEF InPlace
<1>8. Occupied(t) = Occupied(b) \cup {j}  BY <1>1, <1>2, <1>3 DEF Occupied
<1>9. Pairs(t) = {Pair(b[i]) : i \in Occupied(b) \ {j}} \cup {Pair(it)}
  <2>1. \A i \in Occupied(b) \ {j} : t[i] = b[i]  BY <1>1, <1>2 DEF Occupied
  <2>2. Pairs(t) = {Pair(t[i]) : i \in (Occupied(b) \ {j}) \cup {j}}  BY <1>8 DEF Pairs, Pair
  <2>. QED  BY <1>2, <2>1, <2>2
<1>10. Pairs(b) = {Pair(b[i]) : i \in Occupied(b)}  BY DEF Pairs, Pair
<1>11. b[j] = Empty => Pairs(t) = Pairs(b) \cup {Pair(it)}
  <2>1. b[j] = Empty => Occupied(b) \ {j} = Occupied(b)  BY DEF Occupied
  <2>. QED  BY <1>9, <1>10, <2>1
<1>12. ASSUME b[j] # Empty
       PROVE  /\ Pairs(t) \cup {Pair(b[j])} = Pairs(b) \cup {Pair(it)}
              /\ ~HasKey(t, b[j].key) /\ FitsAt(t, N, After(N, j), b[j].probe + 1)
  <2>1. j \in Occupied(b)  BY <1>1, <1>12 DEF Occupied
  <2>2. Pairs(t) \cup {Pair(b[j])} = Pairs(b) \cup {Pair(it)}  BY <1>9, <1>10, <2>1
  <2>3. ~HasKey(t, b[j].key)
    <3>1. \A i \in 0 .. N - 1 : b[i] # Empty /\ b[i].key = b[j].key => i = j  BY <1>12 DEF InPlace
    <3>. QED  BY <1>2, <1>4, <1>12, <3>1 DEF HasKey
  <2>4. Before(N, After(N, j)) = j  BY ModNear
  <2>5. b[j].probe \in Nat /\ it.probe > b[j].probe  BY <1>12, InPlaceFacts
  <2>6. FitsAt(t, N, After(N, j), b[j].probe + 1)  BY <1>2, <1>3, <2>4, <2>5 DEF FitsAt
  <2>. QED  BY <2>2, <2>3, <2>6
<1>. QED  BY <1>7, <1>8, <1>11, <1>12


-----------------------------------------------------------------------------
(* Hashtable: the loop of insert *)

Probing(N) == [table : Tables(N), item : TableItem, settled : BOOLEAN]

\* What an iteration at bucket j makes of s, by what is in the bucket.
ByBucket(r, s, j) ==
    /\ s.settled => r = s
    /\ ~s.settled /\ s.table[j] = Empty => r.settled /\ r.table = [s.table EXCEPT ![j] = s.item]
    /\ ~s.settled /\ s.table[j] # Empty /\ s.table[j].key = s.item.key =>
          r.settled /\ r.table = [s.table EXCEPT ![j] = [s.table[j] EXCEPT !.value = s.item.value]]
    /\ ~s.settled /\ s.table[j] # Empty /\ s.table[j].key # s.item.key /\ s.item.probe > s.table[j].probe =>
          ~r.settled /\ r.table = [s.table EXCEPT ![j] = s.item] /\ r.item = [s.table[j] EXCEPT !.probe = @ + 1]
    /\ ~s.settled /\ s.table[j] # Empty /\ s.table[j].key # s.item.key /\ ~(s.item.probe > s.table[j].probe) =>
          ~r.settled /\ r.table = s.table /\ r.item = [s.item EXCEPT !.probe = @ + 1]

LEMMA ProbeFacts ==
    ASSUME NEW N \in Nat \ {0}, NEW s \in Probing(N), NEW j \in 0 .. N - 1, NEW r, r = Probe(s, j)
    PROVE  r \in Probing(N) /\ ByBucket(r, s, j)
<1>1. s.table \in Tables(N) /\ s.item \in TableItem /\ s.settled \in BOOLEAN  BY DEF Probing
<1>2. s.table[j] = Empty \/ s.table[j] \in TableItem  BY <1>1 DEF Tables
<1>. DEFINE there == s.table[j]
            swap == s.item.probe > there.probe
<1>3. ASSUME s.settled PROVE r = s  BY <1>3 DEF Probe
<1>4. ASSUME ~s.settled, there = Empty
      PROVE  r = [s EXCEPT !.table = [@ EXCEPT ![j] = s.item], !.settled = TRUE]
  BY <1>4 DEF Probe
<1>5. ASSUME ~s.settled, there # Empty, there.key = s.item.key
      PROVE  r = [s EXCEPT !.table = [@ EXCEPT ![j] = [there EXCEPT !.value = s.item.value]], !.settled = TRUE]
  BY <1>5 DEF Probe
<1>6. ASSUME ~s.settled, there # Empty, there.key # s.item.key
      PROVE  r = [table |-> IF swap THEN [s.table EXCEPT ![j] = s.item] ELSE s.table,
                  item |-> [(IF swap THEN there ELSE s.item) EXCEPT !.probe = @ + 1],
                  settled |-> FALSE]
  BY <1>6 DEF Probe, Displaces
<1>7. [s.table EXCEPT ![j] = s.item] \in Tables(N)  BY <1>1 DEF Tables
<1>8. ASSUME there # Empty
      PROVE  /\ [s.table EXCEPT ![j] = [there EXCEPT !.value = s.item.value]] \in Tables(N)
             /\ [there EXCEPT !.probe = @ + 1] \in TableItem
  <2>1. [there EXCEPT !.value = s.item.value] \in TableItem  BY <1>1, <1>2, <1>8 DEF TableItem
  <2>2. [there EXCEPT !.probe = @ + 1] \in TableItem  BY <1>2, <1>8 DEF TableItem
  <2>. QED  BY <1>1, <2>1, <2>2 DEF Tables
<1>9. [s.item EXCEPT !.probe = @ + 1] \in TableItem  BY <1>1 DEF TableItem
<1>10. ASSUME ~s.settled, there = Empty
       PROVE  r \in Probing(N) /\ r.settled /\ r.table = [s.table EXCEPT ![j] = s.item]
  BY <1>4, <1>7, <1>10 DEF Probing
<1>11. ASSUME ~s.settled, there # Empty, there.key = s.item.key
       PROVE  r \in Probing(N) /\ r.settled
              /\ r.table = [s.table EXCEPT ![j] = [there EXCEPT !.value = s.item.value]]
  BY <1>5, <1>8, <1>11 DEF Probing
<1>12. ASSUME ~s.settled, there # Empty, there.key # s.item.key, swap
       PROVE  r \in Probing(N) /\ ~r.settled /\ r.table = [s.table EXCEPT ![j] = s.item]
              /\ r.item = [there EXCEPT !.probe = @ + 1]
  <2>. DEFINE a == [s.table EXCEPT ![j] = s.item]
              c == [there EXCEPT !.probe = @ + 1]
  <2>1. r = [table |-> a, item |-> c, settled |-> FALSE]  BY <1>6, <1>12
  <2>2. a \in Tables(N) /\ c \in TableItem  BY <1>7, <1>8, <1>12
  <2>. HIDE DEF a, c
  <2>3. r \in Probing(N) /\ ~r.settled /\ r.table = a /\ r.item = c  BY <2>1, <2>2 DEF Probing
  <2>. QED  BY <2>3 DEF a, c
<1>13. ASSUME ~s.settled, there # Empty, there.key # s.item.key, ~swap
       PROVE  r \in Probing(N) /\ ~r.settled /\ r.table = s.table
              /\ r.item = [s.item EXCEPT !.probe = @ + 1]
  <2>. DEFINE c == [s.item EXCEPT !.probe = @ + 1]
  <2>1. r = [table |-> s.table, item |-> c, settled |-> FALSE]  BY <1>6, <1>13
  <2>2. c \in TableItem  BY <1>9
  <2>. HIDE DEF c
  <2>3. r \in Probing(N) /\ ~r.settled /\ r.table = s.table /\ r.item = c  BY <1>1, <2>1, <2>2 DEF Probing
  <2>. QED  BY <2>3 DEF c
<1>14. r \in Probing(N)  BY <1>1, <1>3, <1>10, <1>11, <1>12, <1>13
<1>. QED  BY <1>3, <1>10, <1>11, <1>12, <1>13, <1>14 DEF ByBucket

\* The table that a put leaves: one pair more or replaced, in at most one bucket more.
Inserted(t, b, N, k, v) ==
    /\ InPlace(t, N)
    /\ Pairs(t) = {pr \in Pairs(b) : pr[1] # k} \cup {<<k, v>>}
    /\ HasKey(b, k) => Occupied(t) = Occupied(b)
    /\ ~HasKey(b, k) => \E g \in (0 .. N - 1) \ Occupied(b) : Occupied(t) = Occupied(b) \cup {g}

\* Before the n-th iteration: the item itself is on its way, and nothing has stopped it,
Searching(s, b, k, v, n) ==
    /\ ~s.settled /\ s.table = b /\ s.item = [key |-> k, probe |-> n, value |-> v]
    /\ \A m \in 0 .. n - 1 : m \notin Stops(b, k)

\* or an item, itself or one it displaced, is the only one that is not in its place.
Carrying(s, b, N, k, v, n) ==
    /\ ~s.settled /\ ~HasKey(b, k)
    /\ InPlace(s.table, N) /\ Occupied(s.table) = Occupied(b)
    /\ ~HasKey(s.table, s.item.key)
    /\ Spot(N, s.item.key, s.item.probe) = Spot(N, k, n) /\ FitsAt(s.table, N, Spot(N, k, n), s.item.probe)
    /\ Pairs(s.table) \cup {Pair(s.item)} = Pairs(b) \cup {<<k, v>>}
    /\ \A m \in 0 .. n - 1 : b[Spot(N, k, m)] # Empty

OnItsWay(s, b, N, k, v, n) ==
    /\ s \in Probing(N)
    /\ \/ s.settled /\ Inserted(s.table, b, N, k, v)
       \/ Searching(s, b, k, v, n)
       \/ Carrying(s, b, N, k, v, n)

LEMMA OtherPairs ==
    ASSUME NEW b, NEW k, ~HasKey(b, k)
    PROVE  {pr \in Pairs(b) : pr[1] # k} = Pairs(b)
<1>1. ASSUME NEW pr \in Pairs(b), pr[1] = k PROVE FALSE
  <2>1. PICK i \in Occupied(b) : pr = <<b[i].key, b[i].value>>  BY DEF Pairs
  <2>2. b[i].key = k  BY <1>1, <2>1
  <2>. QED  BY <2>2 DEF HasKey, Occupied
<1>. QED  BY <1>1

\* The item of a key gets another value.
LEMMA ReplaceFacts ==
    ASSUME NEW N \in Nat \ {0}, NEW b, InPlace(b, N), NEW j \in 0 .. N - 1, b[j] # Empty, NEW v \in Value,
           NEW t, t = [b EXCEPT ![j] = [b[j] EXCEPT !.value = v]]
    PROVE  Inserted(t, b, N, b[j].key, v)
<1>1. DOMAIN b = 0 .. N - 1 /\ b \in Tables(N) /\ b[j] \in TableItem  BY InPlaceFacts DEF InPlace
<1>. DEFINE it == [b[j] EXCEPT !.value = v]
<1>2. it \in TableItem /\ it.key = b[j].key /\ it.probe = b[j].probe /\ it.value = v  BY <1>1 DEF TableItem
<1>3. it # Empty  BY <1>2, ItemsAreNotEmpty
<1>4. t = [b EXCEPT ![j] = it]  OBVIOUS
<1>. HIDE DEF it
<1>5. DOMAIN t = 0 .. N - 1 /\ t \in Tables(N) /\ t[j] = it /\ \A i \in 0 .. N - 1 : i # j => t[i] = b[i]
  BY <1>1, <1>2, <1>4 DEF Tables
<1>6. \A i \in 0 .. N - 1 : (t[i] = Empty <=> b[i] = Empty)
                            /\ (b[i] # Empty => t[i].key = b[i].key /\ t[i].probe = b[i].probe)
  BY <1>2, <1>3, <1>5
<1>7. InPlace(t, N)
  <2>1. ASSUME NEW i \in 0 .. N - 1, t[i] # Empty
        PROVE  Spot(N, t[i].key, t[i].probe) = i /\ t[i].probe < N /\ FitsAt(t, N, i, t[i].probe)
    <3>1. Before(N, i) \in 0 .. N - 1  BY ModNear
    <3>2. b[i] # Empty /\ t[i].key = b[i].key /\ t[i].probe = b[i].probe  BY <1>6, <2>1
    <3>3. Spot(N, b[i].key, b[i].probe) = i /\ b[i].probe < N /\ FitsAt(b, N, i, b[i].probe)
      BY <3>2, InPlaceFacts
    <3>4. FitsAt(t, N, i, b[i].probe)  BY <1>6, <3>1, <3>3 DEF FitsAt
    <3>. QED  BY <3>2, <3>3, <3>4
  <2>2. \A i, l \in 0 .. N - 1 : t[i] # Empty /\ t[l] # Empty /\ t[i].key = t[l].key => i = l
    BY <1>6 DEF InPlace
  <2>. QED  BY <1>5, <2>1, <2>2 DEF InPlace
<1>8. Occupied(t) = Occupied(b)  BY <1>1, <1>5, <1>6 DEF Occupied
<1>9. HasKey(b, b[j].key)  BY <1>1 DEF HasKey
<1>10. Pairs(t) = {pr \in Pairs(b) : pr[1] # b[j].key} \cup {<<b[j].key, v>>}
  <2>1. Pairs(t) = {<<t[i].key, t[i].value>> : i \in Occupied(b)}  BY <1>8 DEF Pairs
  <2>2. j \in Occupied(b) /\ Occupied(b) \subseteq 0 .. N - 1  BY <1>1 DEF Occupied
  <2>3. <<t[j].key, t[j].value>> = <<b[j].key, v>>  BY <1>2, <1>5
  <2>4. ASSUME NEW i \in Occupied(b), i # j
        PROVE  <<t[i].key, t[i].value>> = <<b[i].key, b[i].value>> /\ b[i].key # b[j].key
    <3>1. t[i] = b[i]  BY <1>5, <2>2, <2>4
    <3>2. b[i] # Empty  BY DEF Occupied
    <3>3. b[i].key # b[j].key  BY <2>2, <2>4, <3>2 DEF InPlace
    <3>. QED  BY <3>1, <3>3
  <2>5. ASSUME NEW pr \in Pairs(t) PROVE pr \in {q \in Pairs(b) : q[1] # b[j].key} \cup {<<b[j].key, v>>}
    <3>1. PICK i \in Occupied(b) : pr = <<t[i].key, t[i].value>>  BY <2>1
    <3>2. CASE i = j  BY <2>3, <3>1, <3>2
    <3>3. CASE i # j
      <4>1. pr = <<b[i].key, b[i].value>> /\ b[i].key # b[j].key  BY <2>4, <3>1, <3>3
      <4>2. pr \in Pairs(b) /\ pr[1] # b[j].key  BY <4>1 DEF Pairs
      <4>. QED  BY <4>2
    <3>. QED  BY <3>2, <3>3
  <2>6. ASSUME NEW pr \in Pairs(b), pr[1] # b[j].key PROVE pr \in Pairs(t)
    <3>1. PICK i \in Occupied(b) : pr = <<b[i].key, b[i].value>>  BY DEF Pairs
    <3>2. i # j  BY <2>6, <3>1
    <3>3. pr = <<t[i].key, t[i].value>>  BY <2>4, <3>1, <3>2
    <3>. QED  BY <2>1, <3>3
  <2>7. <<b[j].key, v>> \in Pairs(t)  BY <2>1, <2>2, <2>3
  <2>. QED  BY <2>5, <2>6, <2>7
<1>. QED  BY <1>7, <1>8, <1>9, <1>10 DEF Inserted

\* A search that something else than its key ends has shown that the key is not there.
LEMMA SearchCarries ==
    ASSUME NEW N \in Nat \ {0}, NEW b, InPlace(b, N), NEW k \in Key, NEW v \in Value, NEW n \in 0 .. N - 1,
           NEW s \in Probing(N), Searching(s, b, k, v, n), n \in Stops(b, k),
           b[Spot(N, k, n)] = Empty \/ b[Spot(N, k, n)].key # k
    PROVE  Carrying(s, b, N, k, v, n)
<1>. DEFINE j == Spot(N, k, n)
<1>1. k \in Nat /\ n \in Nat /\ DOMAIN b = 0 .. N - 1  BY HashtableAssumption DEF InPlace, Tables
<1>2. j \in 0 .. N - 1  BY <1>1, SpotFacts
<1>. HIDE DEF j
<1>3. \A m \in 0 .. n - 1 : m \notin Stops(b, k)  BY DEF Searching
<1>4. ~HasKey(b, k)
  <2>1. SUFFICES ASSUME NEW i \in 0 .. N - 1, b[i] # Empty, b[i].key = k PROVE FALSE
    BY <1>1 DEF HasKey
  <2>2. b[i].probe \in Stops(b, k) /\ \A m \in 0 .. N - 1 : m < b[i].probe => m \notin Stops(b, k)
    BY <2>1, FindsKey
  <2>3. b[i].probe \in Nat /\ b[i].probe < N /\ Spot(N, k, b[i].probe) = i  BY <2>1, InPlaceFacts
  <2>4. b[i].probe = n
    <3>1. ~(n < b[i].probe)  BY <2>2
    <3>2. ~(b[i].probe < n)  BY <1>1, <1>3, <2>2, <2>3
    <3>. QED  BY <1>1, <2>3, <3>1, <3>2
  <2>5. i = j  BY <2>3, <2>4 DEF j
  <2>. QED  BY <2>1, <2>5 DEF j
<1>5. s.table = b /\ s.item.key = k /\ s.item.probe = n /\ s.item.value = v /\ ~s.settled  BY DEF Searching
<1>6. \A m \in 0 .. n - 1 : b[Spot(N, k, m)] # Empty /\ b[Spot(N, k, m)].probe >= m
  <2>1. SUFFICES ASSUME NEW m \in 0 .. n - 1 PROVE b[Spot(N, k, m)] # Empty /\ b[Spot(N, k, m)].probe >= m
    OBVIOUS
  <2>2. m \in 0 .. N - 1 /\ m \in Nat /\ m \notin Stops(b, k)  BY <1>3
  <2>3. b[Spot(N, k, m)] # Empty /\ ~(b[Spot(N, k, m)].probe < m)  BY <1>1, <2>2, StopsFacts
  <2>4. Spot(N, k, m) \in 0 .. N - 1  BY <1>1, <2>2, SpotFacts
  <2>5. b[Spot(N, k, m)].probe \in Nat  BY <2>3, <2>4, InPlaceFacts
  <2>. QED  BY <2>2, <2>3, <2>5
<1>7. FitsAt(b, N, j, n)
  <2>1. SUFFICES ASSUME n > 0 PROVE b[Before(N, j)] # Empty /\ n <= b[Before(N, j)].probe + 1  BY DEF FitsAt
  <2>. DEFINE q == n - 1
  <2>2. q \in Nat /\ n = q + 1 /\ q \in 0 .. n - 1  BY <2>1
  <2>. HIDE DEF q
  <2>3. Before(N, j) = Spot(N, k, q)
    <3>1. Before(N, Spot(N, k, q + 1)) = Spot(N, k, q)  BY <1>1, <2>2, SpotFacts
    <3>. QED  BY <2>2, <3>1 DEF j
  <2>4. Before(N, j) \in 0 .. N - 1  BY <1>2, ModNear
  <2>5. b[Before(N, j)] # Empty /\ b[Before(N, j)].probe >= q  BY <1>6, <2>2, <2>3
  <2>6. b[Before(N, j)].probe \in Nat  BY <2>4, <2>5, InPlaceFacts
  <2>. QED  BY <2>2, <2>5, <2>6
<1>8. Pair(s.item) = <<k, v>>  BY <1>5 DEF Pair
<1>. QED  BY <1>4, <1>5, <1>6, <1>7, <1>8 DEF Carrying, j

\* An item that is carried is put in the first empty bucket, or it changes
\* places with one that is closer to its home.
LEMMA CarryStep ==
    ASSUME NEW N \in Nat \ {0}, NEW b, InPlace(b, N), HasGap(b), NEW k \in Key, NEW v \in Value,
           NEW n \in 0 .. N - 1, NEW s \in Probing(N), Carrying(s, b, N, k, v, n),
           NEW r, r = Probe(s, Spot(N, k, n))
    PROVE  OnItsWay(r, b, N, k, v, n + 1)
<1>. DEFINE j == Spot(N, k, n)
            t == s.table
            it == s.item
<1>1. k \in Nat /\ n \in Nat /\ DOMAIN b = 0 .. N - 1  BY HashtableAssumption DEF InPlace, Tables
<1>2. j \in 0 .. N - 1 /\ Spot(N, k, n + 1) = After(N, j)  BY <1>1, SpotFacts
<1>0. r = Probe(s, j)  OBVIOUS
<1>. HIDE DEF j
<1>14. /\ r \in Probing(N)
       /\ ~s.settled /\ t[j] = Empty => r.settled /\ r.table = [t EXCEPT ![j] = it]
       /\ ~s.settled /\ t[j] # Empty /\ t[j].key # it.key /\ it.probe > t[j].probe =>
             ~r.settled /\ r.table = [t EXCEPT ![j] = it] /\ r.item = [t[j] EXCEPT !.probe = @ + 1]
       /\ ~s.settled /\ t[j] # Empty /\ t[j].key # it.key /\ ~(it.probe > t[j].probe) =>
             ~r.settled /\ r.table = t /\ r.item = [it EXCEPT !.probe = @ + 1]
  <2>1. r \in Probing(N) /\ ByBucket(r, s, j)  BY <1>0, <1>2, ProbeFacts
  <2>. QED  BY <2>1 DEF ByBucket
<1>3. t \in Tables(N) /\ it \in TableItem /\ DOMAIN t = 0 .. N - 1  BY DEF Probing, Tables
<1>. HIDE DEF t, it
<1>4. it.key \in Key /\ it.key \in Nat /\ it.probe \in Nat  BY <1>3, HashtableAssumption DEF TableItem
<1>5. /\ ~s.settled /\ ~HasKey(b, k) /\ InPlace(t, N) /\ Occupied(t) = Occupied(b) /\ ~HasKey(t, it.key)
      /\ Spot(N, it.key, it.probe) = j /\ FitsAt(t, N, j, it.probe)
      /\ Pairs(t) \cup {Pair(it)} = Pairs(b) \cup {<<k, v>>}
      /\ \A m \in 0 .. n - 1 : b[Spot(N, k, m)] # Empty
  BY DEF Carrying, j, t, it
<1>6. it.probe < N
  <2>1. HasGap(t)
    <3>1. PICK g \in 0 .. N - 1 : b[g] = Empty  BY <1>1 DEF HasGap
    <3>2. g \notin Occupied(t)  BY <1>5, <3>1 DEF Occupied
    <3>. QED  BY <1>3, <3>2 DEF HasGap, Occupied
  <2>2. Trail(t, N, it.key, it.probe)  BY <1>4, <1>5, TrailExists
  <2>. QED  BY <1>3, <1>4, <2>1, <2>2, TrailEnds
<1>7. t[j] # Empty => t[j] \in TableItem /\ t[j].probe \in Nat /\ t[j].key \in Nat /\ t[j].key # it.key
                      /\ Spot(N, t[j].key, t[j].probe) = j
  <2>1. t[j] # Empty => t[j].key # it.key  BY <1>2, <1>3, <1>5 DEF HasKey
  <2>. QED  BY <1>2, <1>5, <2>1, InPlaceFacts
<1>. DEFINE u == [t EXCEPT ![j] = it]
<1>8. ASSUME t[j] = Empty \/ it.probe > t[j].probe
      PROVE  /\ InPlace(u, N) /\ Occupied(u) = Occupied(t) \cup {j}
             /\ t[j] = Empty => Pairs(u) = Pairs(t) \cup {Pair(it)}
             /\ t[j] # Empty => /\ Pairs(u) \cup {Pair(t[j])} = Pairs(t) \cup {Pair(it)}
                                /\ ~HasKey(u, t[j].key) /\ FitsAt(u, N, After(N, j), t[j].probe + 1)
  <2>1. Placed(u, t, j, it)  BY DEF Placed
  <2>. HIDE DEF u
  <2>2. Spot(N, it.key, it.probe) = j /\ FitsAt(t, N, j, it.probe) /\ ~HasKey(t, it.key) /\ InPlace(t, N)  BY <1>5
  <2>. QED  BY <1>2, <1>3, <1>6, <1>8, <2>1, <2>2, PlaceFacts
<1>9. r \in Probing(N)  BY <1>14
<1>10. CASE t[j] = Empty
  <2>1. r.settled /\ r.table = u  BY <1>5, <1>10, <1>14
  <2>. HIDE DEF u
  <2>2. Pairs(u) = {pr \in Pairs(b) : pr[1] # k} \cup {<<k, v>>}
    <3>1. {pr \in Pairs(b) : pr[1] # k} = Pairs(b)  BY <1>5, OtherPairs
    <3>. QED  BY <1>5, <1>8, <1>10, <3>1
  <2>3. j \in (0 .. N - 1) \ Occupied(b)  BY <1>2, <1>5, <1>10 DEF Occupied
  <2>4. Inserted(u, b, N, k, v)  BY <1>5, <1>8, <1>10, <2>2, <2>3 DEF Inserted
  <2>. QED  BY <1>9, <2>1, <2>4 DEF OnItsWay
<1>11. CASE t[j] # Empty
  <2>0. b[j] # Empty
    <3>1. j \in Occupied(t)  BY <1>2, <1>3, <1>11 DEF Occupied
    <3>. QED  BY <1>5, <3>1 DEF Occupied
  <2>1. \A m \in 0 .. (n + 1) - 1 : b[Spot(N, k, m)] # Empty
    <3>1. \A m \in 0 .. (n + 1) - 1 : m \in 0 .. n - 1 \/ m = n  BY <1>1
    <3>. QED  BY <1>5, <2>0, <3>1 DEF j
  <2>2. CASE it.probe > t[j].probe
    <3>1. ~r.settled /\ r.table = u /\ r.item = [t[j] EXCEPT !.probe = @ + 1]
      BY <1>5, <1>7, <1>11, <1>14, <2>2
    <3>. HIDE DEF u
    <3>2. r.item.key = t[j].key /\ r.item.value = t[j].value /\ r.item.probe = t[j].probe + 1
      BY <1>7, <1>11, <3>1 DEF TableItem
    <3>3. Pair(r.item) = Pair(t[j])  BY <3>2 DEF Pair
    <3>4. Occupied(u) = Occupied(b)
      <4>1. j \in Occupied(t)  BY <1>2, <1>3, <1>11 DEF Occupied
      <4>. QED  BY <1>5, <1>8, <2>2, <4>1
    <3>5. Spot(N, r.item.key, r.item.probe) = Spot(N, k, n + 1)
      <4>1. Spot(N, t[j].key, t[j].probe + 1) = After(N, Spot(N, t[j].key, t[j].probe))
        BY <1>7, <1>11, SpotFacts
      <4>. QED  BY <1>2, <1>7, <1>11, <3>2, <4>1
    <3>6. FitsAt(u, N, Spot(N, k, n + 1), r.item.probe)  BY <1>2, <1>8, <1>11, <2>2, <3>2
    <3>7. InPlace(u, N) /\ ~HasKey(u, r.item.key)  BY <1>8, <1>11, <2>2, <3>2
    <3>8. Pairs(u) \cup {Pair(r.item)} = Pairs(b) \cup {<<k, v>>}  BY <1>5, <1>8, <1>11, <2>2, <3>3
    <3>9. Carrying(r, b, N, k, v, n + 1)
      BY <1>5, <2>1, <3>1, <3>4, <3>5, <3>6, <3>7, <3>8 DEF Carrying
    <3>. QED  BY <1>9, <3>9 DEF OnItsWay
  <2>3. CASE ~(it.probe > t[j].probe)
    <3>1. ~r.settled /\ r.table = t /\ r.item = [it EXCEPT !.probe = @ + 1]
      BY <1>5, <1>7, <1>11, <1>14, <2>3
    <3>2. r.item.key = it.key /\ r.item.value = it.value /\ r.item.probe = it.probe + 1
      BY <1>3, <3>1 DEF TableItem
    <3>3. Pair(r.item) = Pair(it)  BY <3>2 DEF Pair
    <3>4. Spot(N, r.item.key, r.item.probe) = Spot(N, k, n + 1)
      <4>1. Spot(N, it.key, it.probe + 1) = After(N, Spot(N, it.key, it.probe))  BY <1>4, SpotFacts
      <4>. QED  BY <1>2, <1>5, <3>2, <4>1
    <3>5. FitsAt(t, N, Spot(N, k, n + 1), r.item.probe)
      <4>1. Before(N, After(N, j)) = j  BY <1>2, ModNear
      <4>. QED  BY <1>2, <1>4, <1>7, <1>11, <2>3, <3>2, <4>1 DEF FitsAt
    <3>6. Carrying(r, b, N, k, v, n + 1)
      BY <1>5, <2>1, <3>1, <3>2, <3>3, <3>4, <3>5 DEF Carrying
    <3>. QED  BY <1>9, <3>6 DEF OnItsWay
  <2>. QED  BY <2>2, <2>3
<1>. QED  BY <1>10, <1>11

LEMMA SearchStep ==
    ASSUME NEW N \in Nat \ {0}, NEW b, InPlace(b, N), HasGap(b), NEW k \in Key, NEW v \in Value,
           NEW n \in 0 .. N - 1, NEW s \in Probing(N), Searching(s, b, k, v, n),
           NEW r, r = Probe(s, Spot(N, k, n))
    PROVE  OnItsWay(r, b, N, k, v, n + 1)
<1>. DEFINE j == Spot(N, k, n)
<1>1. k \in Nat /\ n \in Nat /\ DOMAIN b = 0 .. N - 1  BY HashtableAssumption DEF InPlace, Tables
<1>2. j \in 0 .. N - 1  BY <1>1, SpotFacts
<1>3. s.table = b /\ s.item = [key |-> k, probe |-> n, value |-> v] /\ ~s.settled
      /\ \A m \in 0 .. n - 1 : m \notin Stops(b, k)
  BY DEF Searching
<1>4. s.item.key = k /\ s.item.probe = n /\ s.item.value = v  BY <1>3
<1>5. r \in Probing(N) /\ ByBucket(r, s, j)  BY <1>2, ProbeFacts
<1>. HIDE DEF j
<1>6. n \in Stops(b, k) <=> b[j] = Empty \/ b[j].key = k \/ b[j].probe < n  BY <1>1, StopsFacts DEF j
<1>7. CASE b[j] = Empty \/ (b[j].key # k /\ n > b[j].probe)
  <2>0. b[j] # Empty => b[j].probe \in Nat  BY <1>2, InPlaceFacts
  <2>1. n \in Stops(b, k)  BY <1>1, <1>6, <1>7, <2>0
  <2>2. b[Spot(N, k, n)] = Empty \/ b[Spot(N, k, n)].key # k  BY <1>7 DEF j
  <2>3. Carrying(s, b, N, k, v, n)  BY <2>1, <2>2, SearchCarries
  <2>. QED  BY <2>3, CarryStep
<1>8. CASE b[j] # Empty /\ b[j].key = k
  <2>1. r.settled /\ r.table = [b EXCEPT ![j] = [b[j] EXCEPT !.value = v]]
    BY <1>3, <1>4, <1>5, <1>8 DEF ByBucket
  <2>2. Inserted(r.table, b, N, b[j].key, v)  BY <1>2, <1>8, <2>1, ReplaceFacts
  <2>. QED  BY <1>5, <1>8, <2>1, <2>2 DEF OnItsWay
<1>9. CASE b[j] # Empty /\ b[j].key # k /\ ~(n > b[j].probe)
  <2>1. ~r.settled /\ r.table = b /\ r.item = [s.item EXCEPT !.probe = @ + 1]
    BY <1>3, <1>4, <1>5, <1>9 DEF ByBucket
  <2>2. r.item = [key |-> k, probe |-> n + 1, value |-> v]  BY <1>3, <2>1
  <2>3. n \notin Stops(b, k)
    <3>1. b[j].probe \in Nat  BY <1>2, <1>9, InPlaceFacts
    <3>. QED  BY <1>1, <1>6, <1>9, <3>1
  <2>4. \A m \in 0 .. (n + 1) - 1 : m \notin Stops(b, k)
    <3>1. \A m \in 0 .. (n + 1) - 1 : m \in 0 .. n - 1 \/ m = n  BY <1>1
    <3>. QED  BY <1>3, <2>3, <3>1
  <2>5. Searching(r, b, k, v, n + 1)  BY <2>1, <2>2, <2>4 DEF Searching
  <2>. QED  BY <1>5, <2>5 DEF OnItsWay
<1>. QED  BY <1>7, <1>8, <1>9

LEMMA OnItsWayStep ==
    ASSUME NEW N \in Nat \ {0}, NEW b, InPlace(b, N), HasGap(b), NEW k \in Key, NEW v \in Value,
           NEW n \in 0 .. N - 1, NEW s, OnItsWay(s, b, N, k, v, n)
    PROVE  OnItsWay(Probe(s, Spot(N, k, n)), b, N, k, v, n + 1)
<1>1. s \in Probing(N)  BY DEF OnItsWay
<1>2. CASE s.settled /\ Inserted(s.table, b, N, k, v)
  <2>1. Probe(s, Spot(N, k, n)) = s  BY <1>2 DEF Probe
  <2>. QED  BY <1>1, <1>2, <2>1 DEF OnItsWay
<1>3. CASE Searching(s, b, k, v, n)  BY <1>1, <1>3, SearchStep
<1>4. CASE Carrying(s, b, N, k, v, n)  BY <1>1, <1>4, CarryStep
<1>. QED  BY <1>2, <1>3, <1>4 DEF OnItsWay

\* The loop ends with the item in the table.
LEMMA TableInsertFacts ==
    ASSUME NEW N \in Nat \ {0}, NEW b, InPlace(b, N), HasGap(b), NEW k \in Key, NEW v \in Value
    PROVE  Inserted(TableInsert(b, k, v), b, N, k, v)
<1>. DEFINE start == [table |-> b, item |-> [key |-> k, probe |-> 0, value |-> v], settled |-> FALSE]
            op == [n \in 1 .. N |-> [s \in Probing(N) |-> Probe(s, Spot(N, k, n - 1))]]
            W == [n \in 0 .. N |-> {s \in Probing(N) : OnItsWay(s, b, N, k, v, n)}]
            P(g) == g = [n \in 0 .. Size(b) |-> IF n = 0 THEN start ELSE Probe(g[n - 1], (k + (n - 1)) % Size(b))]
            probed == CHOOSE g : P(g)
<1>1. DOMAIN b = 0 .. N - 1 /\ b \in Tables(N) /\ Size(b) = N /\ k \in Nat
  BY SizeFacts, HashtableAssumption DEF InPlace, Tables
<1>2. start \in W[0]
  <2>1. [key |-> k, probe |-> 0, value |-> v] \in TableItem  BY DEF TableItem
  <2>2. start \in Probing(N)  BY <1>1, <2>1 DEF Probing
  <2>3. Searching(start, b, k, v, 0)  BY DEF Searching
  <2>. HIDE DEF start
  <2>. QED  BY <2>2, <2>3 DEF OnItsWay
<1>3. ASSUME NEW n \in 0 .. N, n # N, NEW s \in W[n] PROVE op[n + 1][s] \in W[n + 1]
  <2>0. n \in 0 .. N - 1 /\ n + 1 \in 1 .. N /\ n + 1 \in 0 .. N /\ (n + 1) - 1 = n  BY <1>3
  <2>1. OnItsWay(s, b, N, k, v, n) /\ s \in Probing(N)  BY <1>3
  <2>2. OnItsWay(Probe(s, Spot(N, k, n)), b, N, k, v, n + 1)  BY <2>0, <2>1, OnItsWayStep
  <2>3. Probe(s, Spot(N, k, n)) \in Probing(N)  BY <2>2 DEF OnItsWay
  <2>4. op[n + 1][s] = Probe(s, Spot(N, k, n))  BY <2>0, <2>1
  <2>. HIDE DEF op
  <2>. QED  BY <2>0, <2>2, <2>3, <2>4
<1>4. 0 \in Int /\ N \in Int /\ 0 <= N  OBVIOUS
<1>5. \E g : Chain(g, 0, N, start, op)
  <2>. HIDE DEF W, op, start
  <2>. QED  BY <1>2, <1>3, <1>4, ChainExists
<1>6. \E g : P(g)
  <2>1. PICK g : Chain(g, 0, N, start, op)  BY <1>5
  <2>2. /\ \A i \in 0 .. N : g[i] \in W[i]
        /\ g[0] = start /\ \A i \in 0 .. N : i # 0 => g[i] = op[i][g[i - 1]]
    <3>. HIDE DEF W, op, start
    <3>1. \A i \in 0 .. N : i # N => \A x \in W[i] : op[i + 1][x] \in W[i + 1]  BY <1>3
    <3>2. g[0] = start /\ \A i \in 0 .. N : i # 0 => g[i] = op[i][g[i - 1]]
      <4>1. \A i \in 0 .. N : g[i] = IF i = 0 THEN start ELSE op[i][g[i - 1]]  BY <2>1 DEF Chain
      <4>. QED  BY <1>4, <4>1
    <3>3. \A i \in 0 .. N : g[i] \in W[i]  BY <1>2, <1>4, <2>1, <3>1, ChainType, Zenon
    <3>. QED  BY <3>2, <3>3
  <2>3. \A i \in 0 .. N : i # 0 => g[i] = Probe(g[i - 1], (k + (i - 1)) % N)
    <3>1. SUFFICES ASSUME NEW i \in 0 .. N, i # 0 PROVE g[i] = Probe(g[i - 1], (k + (i - 1)) % N)  OBVIOUS
    <3>2. i - 1 \in 0 .. N /\ i \in 1 .. N  BY <3>1
    <3>3. g[i - 1] \in Probing(N)  BY <2>2, <3>2
    <3>4. op[i][g[i - 1]] = Probe(g[i - 1], Spot(N, k, i - 1))  BY <3>2, <3>3
    <3>. HIDE DEF op
    <3>. QED  BY <2>2, <3>1, <3>4 DEF Spot
  <2>4. g = [i \in 0 .. N |-> g[i]]
    <3>1. g = [i \in 0 .. N |-> IF i = 0 THEN start ELSE op[i][g[i - 1]]]  BY <2>1 DEF Chain
    <3>. HIDE DEF op, start
    <3>. QED  BY <3>1
  <2>5. \A i \in 0 .. N : g[i] = IF i = 0 THEN start ELSE Probe(g[i - 1], (k + (i - 1)) % N)
    <3>. HIDE DEF start
    <3>. QED  BY <2>2, <2>3
  <2>6. g = [i \in 0 .. N |-> IF i = 0 THEN start ELSE Probe(g[i - 1], (k + (i - 1)) % N)]
    <3>. HIDE DEF start
    <3>. QED  BY <2>4, <2>5
  <2>. HIDE DEF start
  <2>. QED  BY <1>1, <2>6
<1>7. P(probed)
  <2>. HIDE DEF P
  <2>. QED  BY <1>6
<1>8. TableInsert(b, k, v) = probed[N].table  BY <1>1 DEF TableInsert
<1>. HIDE DEF probed
<1>9. \A n \in 0 .. N : probed[n] = IF n = 0 THEN start ELSE Probe(probed[n - 1], Spot(N, k, n - 1))
  <2>. HIDE DEF start
  <2>. QED  BY <1>1, <1>7 DEF Spot
<1>10. \A n \in 0 .. N : OnItsWay(probed[n], b, N, k, v, n)
  <2>. DEFINE T == {n \in 0 .. N : OnItsWay(probed[n], b, N, k, v, n)}
  <2>1. 0 \in T
    <3>1. probed[0] = start
      <4>. HIDE DEF start
      <4>. QED  BY <1>4, <1>9
    <3>. HIDE DEF start
    <3>. QED  BY <1>2, <3>1
  <2>2. ASSUME NEW n \in 0 .. N, n # N, n \in T PROVE n + 1 \in T
    <3>1. n \in 0 .. N - 1 /\ n + 1 \in 0 .. N /\ n + 1 # 0 /\ (n + 1) - 1 = n  BY <2>2
    <3>2. probed[n + 1] = Probe(probed[n], Spot(N, k, n))
      <4>. HIDE DEF start
      <4>. QED  BY <1>9, <3>1
    <3>3. OnItsWay(Probe(probed[n], Spot(N, k, n)), b, N, k, v, n + 1)  BY <2>2, <3>1, OnItsWayStep
    <3>. QED  BY <3>1, <3>2, <3>3
  <2>3. \A n \in 0 .. N : n \in T
    <3>. HIDE DEF T
    <3>. QED  BY <1>4, <2>1, <2>2, IntervalInduction
  <2>. QED  BY <2>3
<1>11. OnItsWay(probed[N], b, N, k, v, N)  BY <1>4, <1>10
<1>12. PICK m \in 0 .. N - 1 : b[Spot(N, k, m)] = Empty
  <2>1. PICK i \in 0 .. N - 1 : b[i] = Empty  BY <1>1 DEF HasGap
  <2>2. PICK m \in 0 .. N - 1 : Spot(N, k, m) = i  BY <1>1, SpotFacts
  <2>. QED  BY <2>1, <2>2
<1>13. ~Searching(probed[N], b, k, v, N)
  <2>1. m \in Stops(b, k)  BY <1>1, <1>12, StopsFacts
  <2>. QED  BY <2>1 DEF Searching
<1>14. ~Carrying(probed[N], b, N, k, v, N)  BY <1>12 DEF Carrying
<1>. QED  BY <1>8, <1>11, <1>13, <1>14 DEF OnItsWay

-----------------------------------------------------------------------------
(* Hashtable: how many items there are, and rehashing *)

LEMMA GapFacts ==
    ASSUME NEW N \in Nat \ {0}, NEW b \in Tables(N)
    PROVE  /\ IsFiniteSet(Occupied(b)) /\ Cardinality(Occupied(b)) \in Nat
           /\ Occupied(b) \subseteq 0 .. N - 1 /\ Cardinality(Occupied(b)) <= N
           /\ HasGap(b) <=> Cardinality(Occupied(b)) < N
<1>1. DOMAIN b = 0 .. N - 1  BY DEF Tables
<1>2. IsFiniteSet(0 .. N - 1) /\ Cardinality(0 .. N - 1) = N
  <2>1. Cardinality(0 .. N - 1) = (N - 1) - 0 + 1  BY FS_Interval
  <2>. QED  BY <2>1, FS_Interval
<1>3. Occupied(b) \subseteq 0 .. N - 1  BY <1>1 DEF Occupied
<1>4. /\ IsFiniteSet(Occupied(b)) /\ Cardinality(Occupied(b)) <= N
      /\ Cardinality(Occupied(b)) = N => Occupied(b) = 0 .. N - 1
  BY <1>2, <1>3, FS_Subset
<1>5. Cardinality(Occupied(b)) \in Nat  BY <1>4, FS_CardinalityType
<1>6. HasGap(b) <=> Occupied(b) # 0 .. N - 1  BY <1>1, <1>3 DEF HasGap, Occupied
<1>7. Occupied(b) = 0 .. N - 1 => Cardinality(Occupied(b)) = N  BY <1>2
<1>. QED  BY <1>3, <1>4, <1>5, <1>6, <1>7

LEMMA NewBucketsFacts ==
    ASSUME NEW N \in Nat \ {0}
    PROVE  InPlace(NewBuckets(N), N) /\ Occupied(NewBuckets(N)) = {} /\ Pairs(NewBuckets(N)) = {}
<1>1. NewBuckets(N) \in Tables(N) /\ \A i \in 0 .. N - 1 : NewBuckets(N)[i] = Empty
  BY DEF NewBuckets, Tables
<1>2. DOMAIN NewBuckets(N) = 0 .. N - 1  BY DEF NewBuckets
<1>3. InPlace(NewBuckets(N), N)  BY <1>1 DEF InPlace
<1>4. Occupied(NewBuckets(N)) = {}  BY <1>1, <1>2 DEF Occupied
<1>. QED  BY <1>3, <1>4 DEF Pairs

\* An insertion of a key that is not there adds one to the number of items.
LEMMA InsertedCount ==
    ASSUME NEW N \in Nat \ {0}, NEW b \in Tables(N), NEW t, NEW k, NEW v, Inserted(t, b, N, k, v)
    PROVE  /\ HasKey(b, k) => Cardinality(Occupied(t)) = Cardinality(Occupied(b))
           /\ ~HasKey(b, k) => Cardinality(Occupied(t)) = Cardinality(Occupied(b)) + 1
                               /\ Pairs(t) = Pairs(b) \cup {<<k, v>>}
<1>1. IsFiniteSet(Occupied(b))  BY GapFacts
<1>2. HasKey(b, k) => Occupied(t) = Occupied(b)  BY DEF Inserted
<1>3. ASSUME ~HasKey(b, k) PROVE Cardinality(Occupied(t)) = Cardinality(Occupied(b)) + 1
  <2>1. PICK g \in (0 .. N - 1) \ Occupied(b) : Occupied(t) = Occupied(b) \cup {g}  BY <1>3 DEF Inserted
  <2>2. Cardinality(Occupied(b) \cup {g}) = Cardinality(Occupied(b)) + 1  BY <1>1, <2>1, FS_AddElement
  <2>. QED  BY <2>1, <2>2
<1>4. ASSUME ~HasKey(b, k) PROVE Pairs(t) = Pairs(b) \cup {<<k, v>>}
  <2>1. {pr \in Pairs(b) : pr[1] # k} = Pairs(b)  BY <1>4, OtherPairs
  <2>. QED  BY <2>1 DEF Inserted
<1>. QED  BY <1>2, <1>3, <1>4

\* The items of the first i buckets of b are in t, and no others.
FilledTo(t, b, n, i) ==
    /\ InPlace(t, n)
    /\ Pairs(t) = {Pair(b[j]) : j \in Occupied(b) \cap (0 .. i - 1)}
    /\ Cardinality(Occupied(t)) = Cardinality(Occupied(b) \cap (0 .. i - 1))

TakenOver(b, i, t) == IF b[i] = Empty THEN t ELSE TableInsert(t, b[i].key, b[i].value)

LEMMA TakenOverStep ==
    ASSUME NEW N \in Nat \ {0}, NEW b, InPlace(b, N), NEW n \in Nat \ {0}, Cardinality(Occupied(b)) < n,
           NEW i \in 0 .. N - 1, NEW t, FilledTo(t, b, n, i)
    PROVE  FilledTo(TakenOver(b, i, t), b, n, i + 1)
<1>1. DOMAIN b = 0 .. N - 1 /\ b \in Tables(N) /\ InPlace(t, n) /\ t \in Tables(n)  BY DEF InPlace, Tables, FilledTo
<1>. DEFINE A == Occupied(b) \cap (0 .. i - 1)
            B == Occupied(b) \cap (0 .. (i + 1) - 1)
<1>2. IsFiniteSet(Occupied(b)) /\ Cardinality(Occupied(b)) \in Nat /\ IsFiniteSet(A) /\ Cardinality(A) \in Nat
      /\ Cardinality(A) <= Cardinality(Occupied(b))
  <2>1. IsFiniteSet(Occupied(b)) /\ Cardinality(Occupied(b)) \in Nat  BY <1>1, GapFacts
  <2>2. A \subseteq Occupied(b)  OBVIOUS
  <2>. HIDE DEF A
  <2>3. IsFiniteSet(A) /\ Cardinality(A) <= Cardinality(Occupied(b))  BY <2>1, <2>2, FS_Subset
  <2>. QED  BY <2>1, <2>3, FS_CardinalityType
<1>3. HasGap(t)
  <2>1. Cardinality(Occupied(t)) < n  BY <1>2 DEF FilledTo
  <2>. QED  BY <1>1, <2>1, GapFacts
<1>4. CASE b[i] = Empty
  <2>1. B = A  BY <1>1, <1>4 DEF Occupied
  <2>2. TakenOver(b, i, t) = t  BY <1>4 DEF TakenOver
  <2>. HIDE DEF A, B
  <2>. QED  BY <2>1, <2>2 DEF FilledTo, A, B
<1>5. CASE b[i] # Empty
  <2>. DEFINE k == b[i].key
              v == b[i].value
              u == TableInsert(t, k, v)
  <2>1. k \in Key /\ v \in Value  BY <1>5, InPlaceFacts
  <2>2. Inserted(u, t, n, k, v)  BY <1>1, <1>3, <2>1, TableInsertFacts
  <2>3. TakenOver(b, i, t) = u  BY <1>5 DEF TakenOver
  <2>4. ~HasKey(t, k)
    <3>1. ASSUME HasKey(t, k) PROVE FALSE
      <4>1. PICK w : <<k, w>> \in Pairs(t)  BY <3>1, HasKeyPairs
      <4>2. PICK j \in A : <<k, w>> = Pair(b[j])  BY <4>1 DEF FilledTo
      <4>3. b[j].key = k /\ j \in 0 .. i - 1 /\ b[j] # Empty /\ j \in 0 .. N - 1  BY <1>1, <4>2 DEF Pair, Occupied
      <4>4. j = i  BY <1>5, <4>3 DEF InPlace
      <4>. QED  BY <4>3, <4>4
    <3>. QED  BY <3>1
  <2>. HIDE DEF u
  <2>5. /\ Cardinality(Occupied(u)) = Cardinality(Occupied(t)) + 1
        /\ Pairs(u) = Pairs(t) \cup {<<k, v>>}
    BY <1>1, <2>2, <2>4, InsertedCount
  <2>6. B = A \cup {i} /\ i \notin A
    <3>1. i \in Occupied(b)  BY <1>1, <1>5 DEF Occupied
    <3>2. \A x \in Int : x \in 0 .. (i + 1) - 1 <=> x \in 0 .. i - 1 \/ x = i  OBVIOUS
    <3>3. Occupied(b) \subseteq Int  BY <1>1 DEF Occupied
    <3>. QED  BY <3>1, <3>2, <3>3
  <2>7. Cardinality(B) = Cardinality(A) + 1
    <3>. HIDE DEF A, B
    <3>. QED  BY <1>2, <2>6, FS_AddElement
  <2>8. Pairs(u) = {Pair(b[j]) : j \in B}
    <3>1. Pairs(t) = {Pair(b[j]) : j \in A}  BY DEF FilledTo
    <3>2. <<k, v>> = Pair(b[i])  BY DEF Pair
    <3>. HIDE DEF A, B, k, v
    <3>. QED  BY <2>5, <2>6, <3>1, <3>2
  <2>9. Cardinality(Occupied(u)) = Cardinality(B)  BY <2>5, <2>7 DEF FilledTo
  <2>10. InPlace(u, n)  BY <2>2 DEF Inserted
  <2>. QED  BY <2>3, <2>8, <2>9, <2>10 DEF FilledTo
<1>. QED  BY <1>4, <1>5

\* All items are taken over, to a table that they do not fill.
LEMMA RehashFacts ==
    ASSUME NEW N \in Nat \ {0}, NEW b, InPlace(b, N), NEW n \in Nat \ {0}, Cardinality(Occupied(b)) < n
    PROVE  /\ InPlace(Rehash(b, n), n) /\ Pairs(Rehash(b, n)) = Pairs(b)
           /\ Cardinality(Occupied(Rehash(b, n))) = Cardinality(Occupied(b))
<1>. DEFINE start == NewBuckets(n)
            op == [i \in 1 .. N |-> [t \in Tables(n) |-> TakenOver(b, i - 1, t)]]
            W == [i \in 0 .. N |-> {t \in Tables(n) : FilledTo(t, b, n, i)}]
            P(g) == g = [i \in 0 .. Size(b) |->
                           IF i = 0 THEN start
                           ELSE IF b[i - 1] = Empty THEN g[i - 1]
                           ELSE TableInsert(g[i - 1], b[i - 1].key, b[i - 1].value)]
            filled == CHOOSE g : P(g)
<1>1. DOMAIN b = 0 .. N - 1 /\ b \in Tables(N) /\ Size(b) = N  BY SizeFacts DEF InPlace, Tables
<1>2. start \in W[0]
  <2>1. InPlace(start, n) /\ Occupied(start) = {} /\ Pairs(start) = {}  BY NewBucketsFacts
  <2>. HIDE DEF start
  <2>2. start \in Tables(n)  BY <2>1 DEF InPlace
  <2>3. Occupied(b) \cap (0 .. 0 - 1) = {}  OBVIOUS
  <2>4. FilledTo(start, b, n, 0)  BY <2>1, <2>3 DEF FilledTo
  <2>. QED  BY <2>2, <2>4
<1>3. ASSUME NEW i \in 0 .. N, i # N, NEW t \in W[i] PROVE op[i + 1][t] \in W[i + 1]
  <2>0. i \in 0 .. N - 1 /\ i + 1 \in 1 .. N /\ i + 1 \in 0 .. N /\ (i + 1) - 1 = i  BY <1>3
  <2>1. FilledTo(t, b, n, i) /\ t \in Tables(n)  BY <1>3
  <2>2. FilledTo(TakenOver(b, i, t), b, n, i + 1)  BY <2>0, <2>1, TakenOverStep
  <2>3. TakenOver(b, i, t) \in Tables(n)  BY <2>2 DEF FilledTo, InPlace
  <2>4. op[i + 1][t] = TakenOver(b, i, t)  BY <2>0, <2>1
  <2>. HIDE DEF op
  <2>. QED  BY <2>0, <2>2, <2>3, <2>4
<1>4. 0 \in Int /\ N \in Int /\ 0 <= N /\ 0 \in 0 .. N /\ N \in 0 .. N  OBVIOUS
<1>5. \E g : Chain(g, 0, N, start, op)
  <2>. HIDE DEF W, op, start
  <2>. QED  BY <1>2, <1>3, <1>4, ChainExists
<1>6. \E g : P(g)
  <2>1. PICK g : Chain(g, 0, N, start, op)  BY <1>5
  <2>2. /\ \A i \in 0 .. N : g[i] \in W[i]
        /\ g[0] = start /\ \A i \in 0 .. N : i # 0 => g[i] = op[i][g[i - 1]]
    <3>. HIDE DEF W, op, start
    <3>1. \A i \in 0 .. N : i # N => \A x \in W[i] : op[i + 1][x] \in W[i + 1]  BY <1>3
    <3>2. g[0] = start /\ \A i \in 0 .. N : i # 0 => g[i] = op[i][g[i - 1]]
      <4>1. \A i \in 0 .. N : g[i] = IF i = 0 THEN start ELSE op[i][g[i - 1]]  BY <2>1 DEF Chain
      <4>. QED  BY <1>4, <4>1
    <3>3. \A i \in 0 .. N : g[i] \in W[i]  BY <1>2, <1>4, <2>1, <3>1, ChainType, Zenon
    <3>. QED  BY <3>2, <3>3
  <2>3. \A i \in 0 .. N : i # 0 => g[i] = TakenOver(b, i - 1, g[i - 1])
    <3>1. SUFFICES ASSUME NEW i \in 0 .. N, i # 0 PROVE g[i] = TakenOver(b, i - 1, g[i - 1])  OBVIOUS
    <3>2. i - 1 \in 0 .. N /\ i \in 1 .. N  BY <3>1
    <3>3. g[i - 1] \in Tables(n)  BY <2>2, <3>2
    <3>4. op[i][g[i - 1]] = TakenOver(b, i - 1, g[i - 1])  BY <3>2, <3>3
    <3>. HIDE DEF op
    <3>. QED  BY <2>2, <3>1, <3>4
  <2>4. g = [i \in 0 .. N |-> g[i]]
    <3>1. g = [i \in 0 .. N |-> IF i = 0 THEN start ELSE op[i][g[i - 1]]]  BY <2>1 DEF Chain
    <3>. HIDE DEF op, start
    <3>. QED  BY <3>1
  <2>5. \A i \in 0 .. N : g[i] = IF i = 0 THEN start
                                 ELSE IF b[i - 1] = Empty THEN g[i - 1]
                                 ELSE TableInsert(g[i - 1], b[i - 1].key, b[i - 1].value)
    <3>. HIDE DEF start
    <3>. QED  BY <2>2, <2>3 DEF TakenOver
  <2>6. g = [i \in 0 .. N |-> IF i = 0 THEN start
                              ELSE IF b[i - 1] = Empty THEN g[i - 1]
                              ELSE TableInsert(g[i - 1], b[i - 1].key, b[i - 1].value)]
    <3>. HIDE DEF start
    <3>. QED  BY <2>4, <2>5
  <2>. HIDE DEF start
  <2>. QED  BY <1>1, <2>6
<1>7. P(filled)
  <2>. HIDE DEF P
  <2>. QED  BY <1>6
<1>8. Rehash(b, n) = filled[N]  BY <1>1 DEF Rehash
<1>. HIDE DEF filled
<1>9. \A i \in 0 .. N : filled[i] = IF i = 0 THEN start ELSE TakenOver(b, i - 1, filled[i - 1])
  <2>. HIDE DEF start
  <2>. QED  BY <1>1, <1>7 DEF TakenOver
<1>. HIDE DEF P
<1>10. \A i \in 0 .. N : FilledTo(filled[i], b, n, i)
  <2>. DEFINE T == {i \in 0 .. N : FilledTo(filled[i], b, n, i)}
  <2>1. 0 \in T
    <3>1. filled[0] = start
      <4>. HIDE DEF start
      <4>. QED  BY <1>4, <1>9
    <3>. HIDE DEF start
    <3>. QED  BY <1>2, <1>4, <3>1
  <2>2. ASSUME NEW i \in 0 .. N, i # N, i \in T PROVE i + 1 \in T
    <3>1. i \in 0 .. N - 1 /\ i + 1 \in 0 .. N /\ i + 1 # 0 /\ (i + 1) - 1 = i  BY <2>2
    <3>2. filled[i + 1] = TakenOver(b, i, filled[i])
      <4>. HIDE DEF start
      <4>. QED  BY <1>9, <3>1
    <3>3. FilledTo(TakenOver(b, i, filled[i]), b, n, i + 1)  BY <2>2, <3>1, TakenOverStep
    <3>. QED  BY <3>1, <3>2, <3>3
  <2>3. \A i \in 0 .. N : i \in T
    <3>. HIDE DEF T
    <3>. QED  BY <1>4, <2>1, <2>2, IntervalInduction
  <2>. QED  BY <2>3
<1>11. FilledTo(filled[N], b, n, N)  BY <1>4, <1>10
<1>12. Occupied(b) \cap (0 .. N - 1) = Occupied(b)  BY <1>1 DEF Occupied
<1>13. Pairs(b) = {Pair(b[j]) : j \in Occupied(b)}  BY DEF Pairs, Pair
<1>. QED  BY <1>8, <1>11, <1>12, <1>13 DEF FilledTo

-----------------------------------------------------------------------------
(* Hashtable: removal *)

\* How far each bucket of the ring is from bucket i.
LEMMA SpotFar ==
    ASSUME NEW N \in Nat \ {0}, NEW i \in 0 .. N - 1, NEW m \in 0 .. N - 1
    PROVE  /\ (Spot(N, i, m) - i) % N = m /\ Spot(N, i, 0) = i
           /\ (Spot(N, i, m) + 1) % N = Spot(N, i, m + 1)
           /\ m > 0 => Before(N, Spot(N, i, m)) = Spot(N, i, m - 1)
           /\ Before(N, i) = Spot(N, i, N - 1)
<1>. DEFINE s == (i + m) % N
            q == (i + m) \div N
<1>1. s \in 0 .. N - 1  OBVIOUS
<1>2. Spot(N, i, m) = s  BY DEF Spot
<1>3. s = IF i + m < N THEN i + m ELSE i + m - N
  <2>. DEFINE y == IF i + m < N THEN i + m ELSE i + m - N
  <2>1. y \in 0 .. N - 1 /\ (i + m = y \/ i + m = y + N)  OBVIOUS
  <2>. HIDE DEF y
  <2>2. y % N = y /\ (y + N) % N = y  BY <2>1, ModNear
  <2>3. (i + m) % N = y  BY <2>1, <2>2
  <2>. QED  BY <2>3 DEF y
<1>. HIDE DEF s, q
<1>4. (s - i) % N = m
  <2>1. CASE s - i = m  BY <2>1
  <2>2. CASE s - i = m - N
    <3>. DEFINE x == s - i
    <3>1. x \in Int /\ x = N * (-1) + m /\ -1 \in Int  BY <1>1, <2>2
    <3>. HIDE DEF x
    <3>2. x % N = m  BY <3>1, ModUnique
    <3>. QED  BY <3>2 DEF x
  <2>. QED  BY <1>3, <2>1, <2>2
<1>5. Spot(N, i, 0) = i
  <2>1. i + 0 = i /\ i % N = i  BY ModNear
  <2>. QED  BY <2>1 DEF Spot
<1>6. (s + 1) % N = Spot(N, i, m + 1)
  <2>1. Spot(N, i, m + 1) = After(N, Spot(N, i, m))  BY SpotFacts
  <2>2. (s + 1) % N = After(N, s)  BY <1>1, ModNear
  <2>. QED  BY <1>2, <2>1, <2>2
<1>7. ASSUME m > 0 PROVE Before(N, Spot(N, i, m)) = Spot(N, i, m - 1)
  <2>. DEFINE p == m - 1
  <2>1. p \in Nat /\ m = p + 1  BY <1>7
  <2>. HIDE DEF p
  <2>2. Before(N, Spot(N, i, p + 1)) = Spot(N, i, p)  BY <2>1, SpotFacts
  <2>. QED  BY <2>1, <2>2 DEF p
<1>8. Before(N, i) = Spot(N, i, N - 1)
  <2>1. CASE i = 0  
    <3>1. Before(N, i) = N - 1  BY <2>1 DEF Before
    <3>2. i + (N - 1) = N - 1 /\ N - 1 \in 0 .. N - 1  BY <2>1
    <3>3. (N - 1) % N = N - 1  BY <3>2, ModNear
    <3>. QED  BY <3>1, <3>2, <3>3 DEF Spot
  <2>2. CASE i # 0
    <3>. DEFINE p == i - 1
    <3>1. p \in 0 .. N - 1 /\ Before(N, i) = p /\ i + (N - 1) = p + N  BY <2>2 DEF Before
    <3>. HIDE DEF p
    <3>2. (p + N) % N = p  BY <3>1, ModNear
    <3>. QED  BY <3>1, <3>2 DEF Spot
  <2>. QED  BY <2>1, <2>2
<1>. QED  BY <1>2, <1>4, <1>5, <1>6, <1>7, <1>8

\* The items after bucket i that are shifted back end before a gap or an item at home.
LEMMA RunFacts ==
    ASSUME NEW N \in Nat \ {0}, NEW b, InPlace(b, N), HasGap(b), NEW i \in 0 .. N - 1, b[i] # Empty
    PROVE  LET R == RunLength(b, i) IN
           /\ R \in Nat /\ R + 1 \in 0 .. N - 1
           /\ b[Spot(N, i, R + 1)] = Empty \/ b[Spot(N, i, R + 1)].probe = 0
           /\ \A m \in 1 .. R : b[Spot(N, i, m)] # Empty /\ b[Spot(N, i, m)].probe # 0
<1>1. DOMAIN b = 0 .. N - 1 /\ b \in Tables(N) /\ Size(b) = N /\ i \in Nat  BY SizeFacts DEF InPlace, Tables
<1>. DEFINE Ends(m) == b[Spot(N, i, m)] = Empty \/ b[Spot(N, i, m)].probe = 0
            IsRun(n) == Ends(n + 1) /\ \A m \in 1 .. n : ~Ends(m)
            E == {m \in 1 .. N : Ends(m)}
<1>2. PICK g \in 1 .. N - 1 : Ends(g)
  <2>1. PICK x \in 0 .. N - 1 : b[x] = Empty  BY <1>1 DEF HasGap
  <2>2. PICK m \in 0 .. N - 1 : Spot(N, i, m) = x  BY <1>1, SpotFacts
  <2>3. m # 0
    <3>1. Spot(N, i, 0) = i  BY <2>2, SpotFar
    <3>. QED  BY <2>1, <2>2, <3>1
  <2>. QED  BY <2>1, <2>2, <2>3
<1>3. PICK e \in E : \A y \in E : e <= y
  <2>. HIDE DEF Ends
  <2>1. E \in SUBSET Nat /\ E # {}  BY <1>2
  <2>. HIDE DEF E
  <2>. QED  BY <2>1, LeastExists
<1>4. \E n \in 0 .. N : IsRun(n)
  <2>. HIDE DEF Ends
  <2>1. e - 1 \in 0 .. N /\ (e - 1) + 1 = e  BY <1>3
  <2>2. \A m \in 1 .. e - 1 : ~Ends(m)
    <3>1. SUFFICES ASSUME NEW m \in 1 .. e - 1, Ends(m) PROVE FALSE  OBVIOUS
    <3>2. m \in E /\ m < e  BY <1>3, <3>1
    <3>. QED  BY <1>3, <3>2
  <2>3. Ends((e - 1) + 1)  BY <1>3, <2>1
  <2>. QED  BY <2>1, <2>2, <2>3
<1>5. RunLength(b, i) = CHOOSE n \in 0 .. N : IsRun(n)  BY <1>1 DEF RunLength, Spot
<1>. DEFINE R == RunLength(b, i)
<1>6. R \in 0 .. N /\ IsRun(R)
  <2>. HIDE DEF IsRun
  <2>. QED  BY <1>4, <1>5
<1>. HIDE DEF R
<1>7. R < g
  <2>. HIDE DEF Ends
  <2>. QED  BY <1>2, <1>6
<1>. QED  BY <1>2, <1>6, <1>7 DEF R

\* What is left of the buckets from i on.
LEMMA VacateFacts ==
    ASSUME NEW N \in Nat \ {0}, NEW b, InPlace(b, N), NEW i \in 0 .. N - 1, NEW m \in 0 .. N - 1
    PROVE  Vacate(b, i)[Spot(N, i, m)] =
              IF m < RunLength(b, i) THEN [b[Spot(N, i, m + 1)] EXCEPT !.probe = @ - 1]
              ELSE IF m = RunLength(b, i) THEN Empty ELSE b[Spot(N, i, m)]
<1>1. DOMAIN b = 0 .. N - 1 /\ Size(b) = N /\ i \in Nat /\ m \in Nat  BY SizeFacts DEF InPlace, Tables
<1>2. Spot(N, i, m) \in 0 .. N - 1  BY <1>1, SpotFacts
<1>3. (Spot(N, i, m) - i) % N = m /\ (Spot(N, i, m) + 1) % N = Spot(N, i, m + 1)  BY SpotFar
<1>. DEFINE p == Spot(N, i, m)
<1>4. Vacate(b, i)[p] = IF ((p - i) % N) < RunLength(b, i) THEN [b[(p + 1) % N] EXCEPT !.probe = @ - 1]
                        ELSE IF (p - i) % N = RunLength(b, i) THEN Empty ELSE b[p]
  <2>1. p \in DOMAIN b  BY <1>1, <1>2
  <2>. HIDE DEF p
  <2>. QED  BY <1>1, <2>1 DEF Vacate
<1>. QED  BY <1>3, <1>4

\* The table without the item of bucket i: it is in order again.
LEMMA VacatedFacts ==
    ASSUME NEW N \in Nat \ {0}, NEW b, InPlace(b, N), HasGap(b), NEW i \in 0 .. N - 1, b[i] # Empty
    PROVE  /\ InPlace(Vacate(b, i), N)
           /\ Pairs(Vacate(b, i)) = {pr \in Pairs(b) : pr[1] # b[i].key}
           /\ Cardinality(Occupied(Vacate(b, i))) = Cardinality(Occupied(b)) - 1
<1>1. DOMAIN b = 0 .. N - 1 /\ b \in Tables(N) /\ Size(b) = N /\ i \in Nat  BY SizeFacts DEF InPlace, Tables
<1>. DEFINE R == RunLength(b, i)
            t == Vacate(b, i)
            S(m) == Spot(N, i, m)
<1>2. /\ R \in Nat /\ R + 1 \in 0 .. N - 1
      /\ b[S(R + 1)] = Empty \/ b[S(R + 1)].probe = 0
      /\ \A m \in 1 .. R : b[S(m)] # Empty /\ b[S(m)].probe # 0
  BY RunFacts
<1>3. \A m \in 0 .. N - 1 :
         t[S(m)] = IF m < R THEN [b[S(m + 1)] EXCEPT !.probe = @ - 1] ELSE IF m = R THEN Empty ELSE b[S(m)]
  BY VacateFacts
<1>4. DOMAIN t = 0 .. N - 1  BY <1>1 DEF Vacate
<1>. HIDE DEF R, t
<1>5. /\ \A m \in 0 .. N - 1 : S(m) \in 0 .. N - 1
      /\ \A p \in 0 .. N - 1 : \E m \in 0 .. N - 1 : S(m) = p
      /\ S(0) = i /\ Before(N, i) = S(N - 1)
      /\ \A m \in 1 .. N - 1 : Before(N, S(m)) = S(m - 1)
  <2>1. \A m \in 0 .. N - 1 : S(m) \in 0 .. N - 1
    <3>1. \A m \in Nat : S(m) \in 0 .. N - 1  BY <1>1, SpotFacts
    <3>. QED  BY <3>1
  <2>2. \A p \in 0 .. N - 1 : \E m \in 0 .. N - 1 : S(m) = p  BY <1>1, SpotFacts
  <2>3. S(0) = i /\ Before(N, i) = S(N - 1)
    <3>1. 0 \in 0 .. N - 1  OBVIOUS
    <3>. QED  BY <3>1, SpotFar
  <2>4. \A m \in 1 .. N - 1 : Before(N, S(m)) = S(m - 1)
    <3>1. SUFFICES ASSUME NEW m \in 1 .. N - 1 PROVE Before(N, S(m)) = S(m - 1)  OBVIOUS
    <3>2. m \in 0 .. N - 1 /\ m > 0  OBVIOUS
    <3>. QED  BY <3>2, SpotFar
  <2>. QED  BY <2>1, <2>2, <2>3, <2>4
<1>6. \A m, p \in 0 .. N - 1 : S(m) = S(p) => m = p  BY <1>1, SpotsDiffer
\* Where the item of a bucket has been.
<1>. DEFINE From(m) == IF m < R THEN m + 1 ELSE m
<1>7. ASSUME NEW m \in 0 .. N - 1, m # R
      PROVE  From(m) \in 1 .. N - 1 /\ From(m) \in 0 .. N - 1 /\ (m < R => From(m) \in 1 .. R /\ From(m) = m + 1)
             /\ (m > R => From(m) = m) /\ From(m) # 0
  BY <1>2, <1>7
<1>8. ASSUME NEW m \in 0 .. N - 1, m # R
      PROVE  /\ t[S(m)] = Empty <=> b[S(From(m))] = Empty
             /\ t[S(m)] = Empty \/ t[S(m)] \in TableItem
             /\ t[S(m)] # Empty =>
                   /\ t[S(m)].key = b[S(From(m))].key /\ t[S(m)].value = b[S(From(m))].value
                   /\ b[S(From(m))].probe \in Nat /\ b[S(From(m))].key \in Nat
                   /\ t[S(m)].probe = IF m < R THEN b[S(From(m))].probe - 1 ELSE b[S(From(m))].probe
                   /\ t[S(m)].probe \in Nat
  <2>1. CASE m < R
    <3>. DEFINE x == S(m + 1)
    <3>1. From(m) = m + 1 /\ m + 1 \in 1 .. R /\ m + 1 \in 0 .. N - 1  BY <1>7, <2>1
    <3>2. x \in 0 .. N - 1 /\ b[x] # Empty /\ b[x].probe # 0  BY <1>2, <1>5, <3>1
    <3>3. t[S(m)] = [b[x] EXCEPT !.probe = @ - 1]  BY <1>3, <2>1
    <3>. HIDE DEF x
    <3>4. b[x] \in TableItem /\ b[x].key \in Nat /\ b[x].probe \in Nat  BY <3>2, InPlaceFacts
    <3>. DEFINE it == [b[x] EXCEPT !.probe = @ - 1]
    <3>5. it \in TableItem /\ it.key = b[x].key /\ it.value = b[x].value /\ it.probe = b[x].probe - 1
      <4>1. b[x].probe - 1 \in Nat  BY <3>2, <3>4
      <4>. QED  BY <3>4, <4>1 DEF TableItem
    <3>. HIDE DEF it
    <3>6. it # Empty  BY <3>5, ItemsAreNotEmpty
    <3>7. t[S(m)] = it  BY <3>3 DEF it
    <3>. QED  BY <2>1, <3>1, <3>2, <3>4, <3>5, <3>6, <3>7 DEF x
  <2>2. CASE m > R
    <3>1. t[S(m)] = b[S(m)] /\ From(m) = m /\ ~(m < R)
      <4>1. ~(m < R) /\ m # R /\ R \in Int  BY <1>2, <2>2
      <4>2. t[S(m)] = b[S(m)]
        <5>. HIDE DEF S
        <5>. QED  BY <1>3, <4>1, Zenon
      <4>. QED  BY <4>1, <4>2
    <3>2. S(m) \in 0 .. N - 1  BY <1>5
    <3>3. b[S(m)] = Empty \/ (b[S(m)] \in TableItem /\ b[S(m)].key \in Nat /\ b[S(m)].probe \in Nat)
      BY <3>2, InPlaceFacts
    <3>. HIDE DEF S, From
    <3>. QED  BY <3>1, <3>3
  <2>. QED  BY <1>2, <1>8, <2>1, <2>2
<1>9. t[S(R)] = Empty /\ R \in 0 .. N - 1
  <2>1. R \in 0 .. N - 1 /\ ~(R < R)  BY <1>2
  <2>2. t[S(R)] = Empty
    <3>. HIDE DEF S
    <3>. QED  BY <1>3, <2>1, Zenon
  <2>. QED  BY <2>1, <2>2
<1>. HIDE DEF S, From
<1>10. t \in Tables(N)
  <2>1. ASSUME NEW p \in 0 .. N - 1 PROVE t[p] \in TableItem \cup {Empty}
    <3>1. PICK m \in 0 .. N - 1 : S(m) = p  BY <1>5
    <3>. QED  BY <1>8, <1>9, <3>1
  <2>2. t = [p \in 0 .. N - 1 |-> t[p]]  BY <1>1 DEF t, Vacate
  <2>. QED  BY <2>1, <2>2 DEF Tables
<1>11. ASSUME NEW m \in 0 .. N - 1, t[S(m)] # Empty
       PROVE  Spot(N, t[S(m)].key, t[S(m)].probe) = S(m) /\ t[S(m)].probe < N
              /\ FitsAt(t, N, S(m), t[S(m)].probe)
  <2>0. m # R  BY <1>9, <1>11
  <2>. DEFINE x == From(m)
              k == b[S(x)].key
              p == b[S(x)].probe
  <2>1. x \in 1 .. N - 1 /\ x \in 0 .. N - 1 /\ S(x) \in 0 .. N - 1  BY <1>5, <1>7, <2>0
  <2>2. b[S(x)] # Empty /\ t[S(m)].key = k /\ p \in Nat /\ k \in Nat  BY <1>8, <1>11, <2>0
  <2>3. Spot(N, k, p) = S(x) /\ p < N /\ FitsAt(b, N, S(x), p)  BY <2>1, <2>2, InPlaceFacts
  <2>4. p > 0 => b[S(x - 1)] # Empty /\ p <= b[S(x - 1)].probe + 1 /\ b[S(x - 1)].probe \in Nat
    <3>1. Before(N, S(x)) = S(x - 1) /\ x - 1 \in 0 .. N - 1  BY <1>5, <2>1
    <3>2. p > 0 => b[S(x - 1)] # Empty /\ p <= b[S(x - 1)].probe + 1  BY <2>3, <3>1 DEF FitsAt
    <3>3. S(x - 1) \in 0 .. N - 1  BY <1>5, <3>1
    <3>. QED  BY <3>2, <3>3, InPlaceFacts
  <2>5. CASE m < R
    <3>1. x = m + 1 /\ x \in 1 .. R /\ x - 1 = m  BY <1>7, <2>0, <2>5
    <3>2. p # 0 /\ t[S(m)].probe = p - 1  BY <1>2, <1>8, <1>11, <2>0, <2>5, <3>1
    <3>3. Spot(N, k, p - 1) = S(m)
      <4>. DEFINE q == p - 1
      <4>1. q \in Nat /\ p = q + 1  BY <2>2, <3>2
      <4>2. Before(N, S(x)) = S(m)  BY <1>5, <2>1, <3>1
      <4>. HIDE DEF q, p, x
      <4>3. Before(N, Spot(N, k, q + 1)) = Spot(N, k, q)  BY <2>2, <4>1, SpotFacts
      <4>. QED  BY <2>3, <4>1, <4>2, <4>3 DEF q
    <3>4. FitsAt(t, N, S(m), p - 1)
      <4>1. SUFFICES ASSUME p - 1 > 0
                     PROVE  t[Before(N, S(m))] # Empty /\ p - 1 <= t[Before(N, S(m))].probe + 1
        BY DEF FitsAt
      <4>2. b[S(m)] # Empty /\ p <= b[S(m)].probe + 1 /\ b[S(m)].probe \in Nat  BY <2>2, <2>4, <3>1, <4>1
      <4>3. CASE m = 0
        <5>1. Before(N, S(m)) = S(N - 1) /\ S(m) = i /\ N - 1 \in 0 .. N - 1  BY <1>5, <4>3
        <5>2. N - 1 > R /\ N - 1 # R /\ From(N - 1) = N - 1 /\ ~(N - 1 < R)  BY <1>2 DEF From
        <5>3. FitsAt(b, N, S(m), b[S(m)].probe) /\ S(m) \in 0 .. N - 1  BY <4>2, <5>1, InPlaceFacts
        <5>4. b[S(m)].probe > 0  BY <2>2, <4>1, <4>2
        <5>5. b[S(N - 1)] # Empty /\ b[S(m)].probe <= b[S(N - 1)].probe + 1  BY <5>1, <5>3, <5>4 DEF FitsAt
        <5>6. t[S(N - 1)] # Empty /\ t[S(N - 1)].probe = b[S(N - 1)].probe /\ t[S(N - 1)].probe \in Nat
          BY <1>8, <5>1, <5>2, <5>5
        <5>. QED  BY <2>2, <4>2, <5>1, <5>5, <5>6
      <4>4. CASE m # 0
        <5>1. m \in 1 .. N - 1 /\ m - 1 \in 0 .. N - 1 /\ m - 1 < R /\ m - 1 # R /\ From(m - 1) = m
          BY <1>2, <2>5, <4>4 DEF From
        <5>2. Before(N, S(m)) = S(m - 1)  BY <1>5, <5>1
        <5>3. t[S(m - 1)] # Empty /\ t[S(m - 1)].probe = b[S(m)].probe - 1  BY <1>8, <4>2, <5>1
        <5>. QED  BY <2>2, <4>2, <5>2, <5>3
      <4>. QED  BY <4>3, <4>4
    <3>5. p - 1 < N  BY <2>2, <2>3
    <3>. QED  BY <2>2, <3>2, <3>3, <3>4, <3>5
  <2>6. CASE m > R
    <3>1. x = m /\ m \in 1 .. N - 1 /\ m - 1 \in 0 .. N - 1  BY <1>2, <1>7, <2>6
    <3>2. t[S(m)].probe = p  BY <1>2, <1>8, <1>11, <2>0, <2>6
    <3>3. FitsAt(t, N, S(m), p)
      <4>1. SUFFICES ASSUME p > 0
                     PROVE  t[Before(N, S(m))] # Empty /\ p <= t[Before(N, S(m))].probe + 1
        BY DEF FitsAt
      <4>2. Before(N, S(m)) = S(m - 1)  BY <1>5, <3>1
      <4>3. m # R + 1
        <5>1. m = R + 1 => b[S(m)] = Empty \/ p = 0  BY <1>2, <3>1
        <5>. QED  BY <2>2, <3>1, <4>1, <5>1
      <4>4. m - 1 > R /\ m - 1 # R /\ From(m - 1) = m - 1 /\ ~(m - 1 < R)  BY <1>2, <2>6, <4>3 DEF From
      <4>5. t[S(m - 1)] # Empty /\ t[S(m - 1)].probe = b[S(m - 1)].probe
        BY <1>8, <2>4, <3>1, <4>1, <4>4
      <4>. QED  BY <2>4, <3>1, <4>1, <4>2, <4>5
    <3>. QED  BY <2>2, <2>3, <3>1, <3>2, <3>3
  <2>. QED  BY <1>2, <2>0, <2>5, <2>6
<1>12. ASSUME NEW m \in 0 .. N - 1, NEW l \in 0 .. N - 1, t[S(m)] # Empty, t[S(l)] # Empty,
              t[S(m)].key = t[S(l)].key
       PROVE  m = l
  <2>0. m # R /\ l # R  BY <1>9, <1>12
  <2>1. From(m) \in 0 .. N - 1 /\ From(l) \in 0 .. N - 1  BY <1>7, <2>0
  <2>2. b[S(From(m))] # Empty /\ b[S(From(l))] # Empty /\ b[S(From(m))].key = b[S(From(l))].key
    BY <1>8, <1>12, <2>0
  <2>3. S(From(m)) = S(From(l))
    <3>1. S(From(m)) \in 0 .. N - 1 /\ S(From(l)) \in 0 .. N - 1  BY <1>5, <2>1
    <3>. QED  BY <2>2, <3>1 DEF InPlace
  <2>4. From(m) = From(l)  BY <1>6, <2>1, <2>3
  <2>. QED  BY <1>2, <2>0, <2>4 DEF From
<1>13. InPlace(t, N)
  <2>1. ASSUME NEW q \in 0 .. N - 1, t[q] # Empty
        PROVE  Spot(N, t[q].key, t[q].probe) = q /\ t[q].probe < N /\ FitsAt(t, N, q, t[q].probe)
    <3>1. PICK m \in 0 .. N - 1 : S(m) = q  BY <1>5
    <3>. QED  BY <1>11, <2>1, <3>1
  <2>2. ASSUME NEW p \in 0 .. N - 1, NEW q \in 0 .. N - 1, t[p] # Empty, t[q] # Empty, t[p].key = t[q].key
        PROVE  p = q
    <3>1. PICK m \in 0 .. N - 1 : S(m) = p  BY <1>5
    <3>2. PICK l \in 0 .. N - 1 : S(l) = q  BY <1>5
    <3>. QED  BY <1>12, <2>2, <3>1, <3>2
  <2>. QED  BY <1>10, <2>1, <2>2 DEF InPlace
<1>14. Pairs(t) = {pr \in Pairs(b) : pr[1] # b[i].key}
  <2>1. ASSUME NEW pr \in Pairs(t) PROVE pr \in Pairs(b) /\ pr[1] # b[i].key
    <3>1. PICK q \in 0 .. N - 1 : t[q] # Empty /\ pr = <<t[q].key, t[q].value>>  BY <1>4 DEF Pairs, Occupied
    <3>2. PICK m \in 0 .. N - 1 : S(m) = q  BY <1>5
    <3>3. m # R  BY <1>9, <3>1, <3>2
    <3>. DEFINE x == From(m)
    <3>4. b[S(x)] # Empty /\ pr = <<b[S(x)].key, b[S(x)].value>>  BY <1>8, <3>1, <3>2, <3>3
    <3>5. x \in 0 .. N - 1 /\ x # 0 /\ S(x) \in 0 .. N - 1  BY <1>5, <1>7, <3>3
    <3>6. S(x) # i  BY <1>5, <1>6, <3>5
    <3>. HIDE DEF x
    <3>7. pr \in Pairs(b)  BY <1>1, <3>4, <3>5 DEF Pairs, Occupied
    <3>8. b[S(x)].key # b[i].key  BY <3>4, <3>5, <3>6 DEF InPlace
    <3>. QED  BY <3>4, <3>7, <3>8
  <2>2. ASSUME NEW pr \in Pairs(b), pr[1] # b[i].key PROVE pr \in Pairs(t)
    <3>1. PICK q \in 0 .. N - 1 : b[q] # Empty /\ pr = <<b[q].key, b[q].value>>  BY <1>1 DEF Pairs, Occupied
    <3>2. PICK x \in 0 .. N - 1 : S(x) = q  BY <1>5
    <3>3. x # 0  BY <1>5, <2>2, <3>1, <3>2
    <3>. DEFINE m == IF x <= R THEN x - 1 ELSE x
    <3>4. m \in 0 .. N - 1 /\ m # R /\ From(m) = x  BY <1>2, <3>3 DEF From
    <3>. HIDE DEF m
    <3>5. t[S(m)] # Empty /\ pr = <<t[S(m)].key, t[S(m)].value>>  BY <1>8, <3>1, <3>2, <3>4
    <3>6. S(m) \in 0 .. N - 1  BY <1>5, <3>4
    <3>. QED  BY <1>4, <3>5, <3>6 DEF Pairs, Occupied
  <2>. QED  BY <2>1, <2>2
<1>15. Occupied(t) = Occupied(b) \ {S(R)} /\ S(R) \in Occupied(b)
  <2>1. ASSUME NEW m \in 0 .. N - 1 PROVE t[S(m)] # Empty <=> b[S(m)] # Empty /\ m # R
    <3>1. CASE m = R  BY <1>9, <3>1
    <3>2. CASE m < R
      <4>1. From(m) \in 1 .. R  BY <1>7, <3>2
      <4>2. b[S(From(m))] # Empty  BY <1>2, <4>1 DEF S
      <4>3. b[S(m)] # Empty
        <5>1. m = 0 \/ m \in 1 .. R  BY <1>2, <3>2
        <5>. QED  BY <1>2, <1>5, <5>1 DEF S
      <4>. QED  BY <1>2, <1>8, <3>2, <4>2, <4>3
    <3>3. CASE m > R
      <4>1. From(m) = m /\ m # R  BY <1>2, <3>3 DEF From
      <4>. QED  BY <1>8, <4>1
    <3>. QED  BY <1>2, <3>1, <3>2, <3>3
  <2>2. ASSUME NEW q \in 0 .. N - 1 PROVE t[q] # Empty <=> b[q] # Empty /\ q # S(R)
    <3>1. PICK m \in 0 .. N - 1 : S(m) = q  BY <1>5
    <3>2. m = R <=> q = S(R)  BY <1>6, <1>9, <3>1
    <3>. QED  BY <2>1, <3>1, <3>2
  <2>3. b[S(R)] # Empty /\ S(R) \in 0 .. N - 1
    <3>1. R = 0 \/ R \in 1 .. R  BY <1>2
    <3>. QED  BY <1>2, <1>5, <1>9, <3>1 DEF S
  <2>. QED  BY <1>1, <1>4, <2>2, <2>3 DEF Occupied
<1>16. Cardinality(Occupied(t)) = Cardinality(Occupied(b)) - 1
  <2>1. IsFiniteSet(Occupied(b))  BY <1>1, GapFacts
  <2>2. Cardinality(Occupied(b) \ {S(R)}) = Cardinality(Occupied(b)) - 1  BY <1>15, <2>1, FS_RemoveElement
  <2>. QED  BY <1>15, <2>2
<1>. QED  BY <1>13, <1>14, <1>16 DEF t

-----------------------------------------------------------------------------
(* Hashtable: the operations *)

TableInv ==
    /\ tableSize \in Primes /\ InPlace(buckets, tableSize)
    /\ tableItems = Cardinality(Occupied(buckets)) /\ tableItems < tableSize
    /\ tableOwner \in BOOLEAN /\ freed \subseteq Key \X Value /\ tableFailed = FALSE

\* The map the table stands for.
content == [k \in Key |-> Get(buckets, k)]

LEMMA TableInvFacts ==
    ASSUME TableInv
    PROVE  /\ tableSize \in Nat \ {0} /\ DOMAIN buckets = 0 .. tableSize - 1 /\ Size(buckets) = tableSize
           /\ buckets \in Tables(tableSize) /\ HasGap(buckets) /\ tableItems \in Nat
           /\ Cardinality(Occupied(buckets)) \in Nat
<1>1. tableSize \in Nat \ {0}  BY HashtableAssumption DEF TableInv
<1>2. DOMAIN buckets = 0 .. tableSize - 1 /\ buckets \in Tables(tableSize)  BY DEF TableInv, InPlace, Tables
<1>3. Size(buckets) = tableSize  BY <1>1, <1>2, SizeFacts
<1>4. Cardinality(Occupied(buckets)) \in Nat /\ HasGap(buckets)  BY <1>1, <1>2, GapFacts DEF TableInv
<1>. QED  BY <1>1, <1>2, <1>3, <1>4 DEF TableInv

LEMMA nextPrimeFacts ==
    ASSUME NEW n \in Nat, HasPrime(n)
    PROVE  nextPrime(n) \in Primes /\ nextPrime(n) >= n /\ nextPrime(n) \in Nat \ {0}
<1>. DEFINE S == {p \in Primes : p >= n}
<1>1. S \in SUBSET Nat /\ S # {}  BY HashtableAssumption DEF HasPrime
<1>2. PICK x \in S : \A y \in S : x <= y
  <2>. HIDE DEF S
  <2>. QED  BY <1>1, LeastExists
<1>3. \E p \in Primes : p >= n /\ \A q \in Primes : q >= n => p <= q  BY <1>2
<1>4. nextPrime(n) \in Primes /\ nextPrime(n) >= n  BY <1>3 DEF nextPrime
<1>. QED  BY <1>4, HashtableAssumption

\* Tables with the same pair at a key, or both with none, give the same value.
LEMMA SameGet ==
    ASSUME NEW N \in Nat \ {0}, NEW b, InPlace(b, N), HasGap(b),
           NEW M \in Nat \ {0}, NEW c, InPlace(c, M), HasGap(c),
           NEW k \in Key, \A v : <<k, v>> \in Pairs(b) <=> <<k, v>> \in Pairs(c)
    PROVE  Get(b, k) = Get(c, k)
<1>1. CASE HasKey(b, k)
  <2>1. PICK v : <<k, v>> \in Pairs(b)  BY <1>1, HasKeyPairs
  <2>2. <<k, v>> \in Pairs(c)  BY <2>1
  <2>3. Get(b, k) = v  BY <2>1, GetIs
  <2>4. Get(c, k) = v  BY <2>2, GetIs
  <2>. QED  BY <2>3, <2>4
<1>2. CASE ~HasKey(b, k)
  <2>1. ~HasKey(c, k)  BY <1>2, HasKeyPairs
  <2>. QED  BY <1>2, <2>1, GetAbsent
<1>. QED  BY <1>1, <1>2

\* A table of another size with the same items.
LEMMA ResizedFacts ==
    ASSUME NEW N \in Primes, NEW b, InPlace(b, N), NEW count, count = Cardinality(Occupied(b)), count < N,
           NEW n \in Nat, HasPrime(n)
    PROVE  LET t == Resized(b, count, n) IN
           /\ Size(t) \in Primes /\ InPlace(t, Size(t)) /\ Cardinality(Occupied(t)) = count
           /\ Pairs(t) = Pairs(b) /\ count < Size(t) /\ (n > count => Size(t) >= n)
<1>. DEFINE t == Resized(b, count, n)
            p == nextPrime(n)
<1>1. N \in Nat \ {0} /\ DOMAIN b = 0 .. N - 1 /\ Size(b) = N /\ count \in Nat
  <2>1. N \in Nat \ {0} /\ DOMAIN b = 0 .. N - 1 /\ b \in Tables(N)  BY HashtableAssumption DEF InPlace, Tables
  <2>. QED  BY <2>1, SizeFacts, GapFacts
<1>2. CASE n <= count
  <2>1. t = b  BY <1>2 DEF Resized
  <2>. HIDE DEF t
  <2>. QED  BY <1>1, <1>2, <2>1 DEF t
<1>3. CASE ~(n <= count)
  <2>1. t = Rehash(b, p)  BY <1>3 DEF Resized
  <2>2. p \in Primes /\ p >= n /\ p \in Nat \ {0}  BY nextPrimeFacts
  <2>. HIDE DEF p, t
  <2>3. Cardinality(Occupied(b)) < p  BY <1>1, <1>3, <2>2
  <2>4. InPlace(t, p) /\ Pairs(t) = Pairs(b) /\ Cardinality(Occupied(t)) = Cardinality(Occupied(b))
    BY <1>1, <2>1, <2>2, <2>3, RehashFacts
  <2>5. Size(t) = p
    <3>1. DOMAIN t = 0 .. p - 1  BY <2>4 DEF InPlace, Tables
    <3>. QED  BY <2>2, <3>1, SizeFacts
  <2>6. count < p  BY <2>3
  <2>. QED  BY <2>2, <2>4, <2>5, <2>6 DEF t
<1>. QED  BY <1>2, <1>3

\* None of the assertions fails on a table in order that has as many items as are counted.
LEMMA CheckFacts ==
    ASSUME tableFailed = FALSE, NEW N \in Primes, NEW b, InPlace(b, N), N = Size(b),
           NEW count, count = Cardinality(Occupied(b)), count < N, Check(b, count)
    PROVE  tableFailed' = FALSE
<1>1. N \in Nat \ {0} /\ b \in Tables(N)  BY HashtableAssumption DEF InPlace
<1>2. HasGap(b)  BY <1>1, GapFacts
<1>3. \A k \in Key : Stops(b, k) # {}  BY <1>1, <1>2, FindFacts, HashtableAssumption
<1>4. ~(count >= Size(b))
  <2>1. count \in Nat  BY <1>1, GapFacts
  <2>. QED  BY <1>1, <2>1
<1>. QED  BY <1>3, <1>4 DEF Check

\* What an operation on the item of k frees is what the map had at k.
LEMMA FreeOne ==
    ASSUME TableInv, NEW k \in Key
    PROVE  /\ Find(buckets, k) = -1 <=> content[k] = NoValue
           /\ Find(buckets, k) # -1 => buckets[Find(buckets, k)].key = k
                 /\ buckets[Find(buckets, k)].value = content[k] /\ content[k] \in Value
<1>1. InPlace(buckets, tableSize) /\ HasGap(buckets) /\ tableSize \in Nat \ {0}  BY TableInvFacts DEF TableInv
<1>2. content[k] = Get(buckets, k)  BY DEF content
<1>3. CASE HasKey(buckets, k)
  <2>1. /\ Get(buckets, k) \in Value /\ Find(buckets, k) \in 0 .. tableSize - 1
        /\ buckets[Find(buckets, k)].key = k /\ buckets[Find(buckets, k)].value = Get(buckets, k)
    BY <1>1, <1>3, GetPresent
  <2>2. Find(buckets, k) # -1  BY <1>1, <2>1
  <2>. QED  BY <1>2, <2>1, <2>2, HashtableAssumption
<1>4. CASE ~HasKey(buckets, k)
  <2>1. Get(buckets, k) = NoValue /\ Find(buckets, k) = -1  BY <1>1, <1>4, GetAbsent
  <2>. QED  BY <1>2, <2>1
<1>. QED  BY <1>3, <1>4

LEMMA PutStep ==
    ASSUME \A p \in Primes : p >= 4, TableInv, NEW k \in Key, NEW v \in Value, Hashtable_put(k, v)
    PROVE  TableInv' /\ content' = [content EXCEPT ![k] = v] /\ tableOwner' = tableOwner
<1>. DEFINE room == IF NeedsGrowth THEN Resized(buckets, tableItems, 2 * tableSize) ELSE buckets
            after == TableInsert(room, k, v)
            M == Size(room)
<1>1. tableSize \in Nat \ {0} /\ Size(buckets) = tableSize /\ tableItems \in Nat /\ tableSize >= 4
      /\ HasGap(buckets) /\ InPlace(buckets, tableSize) /\ tableItems = Cardinality(Occupied(buckets))
      /\ tableSize \in Primes /\ tableItems < tableSize
  BY TableInvFacts DEF TableInv
<1>2. /\ M \in Primes /\ InPlace(room, M) /\ Cardinality(Occupied(room)) = tableItems
      /\ Pairs(room) = Pairs(buckets) /\ tableItems + 1 < M
  <2>1. CASE NeedsGrowth
    <3>1. room = Resized(buckets, tableItems, 2 * tableSize)  BY <2>1
    <3>2. HasPrime(2 * tableSize) /\ 2 * tableSize \in Nat /\ 2 * tableSize > tableItems
      BY <1>1, <2>1 DEF Hashtable_put
    <3>. HIDE DEF room
    <3>3. /\ Size(room) \in Primes /\ InPlace(room, Size(room)) /\ Cardinality(Occupied(room)) = tableItems
          /\ Pairs(room) = Pairs(buckets) /\ Size(room) >= 2 * tableSize
      BY <1>1, <3>1, <3>2, ResizedFacts
    <3>4. M \in Nat  BY <3>3, HashtableAssumption
    <3>. HIDE DEF M
    <3>5. tableItems + 1 < M  BY <1>1, <3>3, <3>4 DEF M
    <3>. QED  BY <3>3, <3>5 DEF M
  <2>2. CASE ~NeedsGrowth
    <3>1. room = buckets /\ M = tableSize  BY <1>1, <2>2
    <3>2. tableItems + 1 < tableSize  BY <1>1, <2>2 DEF NeedsGrowth
    <3>. QED  BY <1>1, <3>1, <3>2
  <2>. QED  BY <2>1, <2>2
<1>3. /\ buckets' = after /\ tableSize' = Size(after)
      /\ tableItems' = tableItems + (IF Cardinality(Occupied(after)) > Cardinality(Occupied(room)) THEN 1 ELSE 0)
      /\ Check(after, tableItems')
      /\ Free({i \in {Find(buckets, k)} \ {-1} : buckets[i].value # v}) /\ tableOwner' = tableOwner
  BY DEF Hashtable_put
<1>. HIDE DEF room, M
<1>4. M \in Nat \ {0} /\ room \in Tables(M)  BY <1>2, HashtableAssumption DEF InPlace
<1>5. HasGap(room)  BY <1>1, <1>2, <1>4, GapFacts
<1>6. Inserted(after, room, M, k, v)  BY <1>2, <1>4, <1>5, TableInsertFacts
<1>. HIDE DEF after
<1>7. InPlace(after, M) /\ after \in Tables(M) /\ Size(after) = M
  <2>1. InPlace(after, M) /\ after \in Tables(M)  BY <1>6 DEF Inserted, InPlace
  <2>2. DOMAIN after = 0 .. M - 1  BY <2>1 DEF Tables
  <2>. QED  BY <1>4, <2>1, <2>2, SizeFacts
<1>8. /\ HasKey(room, k) => Cardinality(Occupied(after)) = Cardinality(Occupied(room))
      /\ ~HasKey(room, k) => Cardinality(Occupied(after)) = Cardinality(Occupied(room)) + 1
  BY <1>4, <1>6, InsertedCount
<1>9. tableItems' = Cardinality(Occupied(after)) /\ tableItems' < M  BY <1>1, <1>2, <1>3, <1>4, <1>8
<1>10. tableFailed' = FALSE
  <2>1. tableFailed = FALSE /\ M = Size(after) /\ Check(after, tableItems')  BY <1>3, <1>7 DEF TableInv
  <2>. QED  BY <1>2, <1>7, <1>9, <2>1, CheckFacts
<1>11. freed' \subseteq Key \X Value
  <2>. DEFINE i == Find(buckets, k)
  <2>1. i # -1 => buckets[i].key = k /\ buckets[i].value \in Value  BY FreeOne
  <2>2. freed' \subseteq {<<buckets[j].key, buckets[j].value>> : j \in {i} \ {-1}}  BY <1>3 DEF Free
  <2>. HIDE DEF i
  <2>. QED  BY <2>1, <2>2
<1>12. TableInv'
  BY <1>2, <1>3, <1>7, <1>9, <1>10, <1>11 DEF TableInv
<1>13. content' = [content EXCEPT ![k] = v]
  <2>1. HasGap(after)  BY <1>4, <1>7, <1>9, GapFacts
  <2>2. Pairs(after) = {pr \in Pairs(buckets) : pr[1] # k} \cup {<<k, v>>}  BY <1>2, <1>6 DEF Inserted
  <2>3. ASSUME NEW l \in Key PROVE Get(after, l) = IF l = k THEN v ELSE Get(buckets, l)
    <3>1. CASE l = k
      <4>1. <<k, v>> \in Pairs(after)  BY <2>2
      <4>. QED  BY <1>4, <1>7, <2>1, <3>1, <4>1, GetIs
    <3>2. CASE l # k
      <4>1. \A w : <<l, w>> \in Pairs(after) <=> <<l, w>> \in Pairs(buckets)
        <5>1. ASSUME NEW w PROVE <<l, w>> \in Pairs(after) <=> <<l, w>> \in Pairs(buckets)
          <6>1. <<l, w>>[1] = l /\ <<l, w>> # <<k, v>>  BY <3>2
          <6>. QED  BY <2>2, <3>2, <6>1
        <5>. QED  BY <5>1
      <4>2. Get(after, l) = Get(buckets, l)  BY <1>1, <1>4, <1>7, <2>1, <4>1, SameGet
      <4>. QED  BY <3>2, <4>2
    <3>. QED  BY <3>1, <3>2
  <2>4. content' = [l \in Key |-> Get(after, l)]  BY <1>3 DEF content
  <2>. QED  BY <2>3, <2>4 DEF content
<1>. QED  BY <1>3, <1>12, <1>13

LEMMA RemoveStep ==
    ASSUME TableInv, NEW k \in Key, Hashtable_remove(k)
    PROVE  TableInv' /\ content' = [content EXCEPT ![k] = NoValue] /\ tableOwner' = tableOwner
<1>. DEFINE i == Find(buckets, k)
            left == IF i = -1 THEN buckets ELSE Vacate(buckets, i)
            count == IF i = -1 THEN tableItems ELSE tableItems - 1
            after == IF 8 * count < tableSize THEN Resized(left, count, tableSize \div 2) ELSE left
            M == Size(after)
<1>1. tableSize \in Nat \ {0} /\ Size(buckets) = tableSize /\ tableItems \in Nat
      /\ HasGap(buckets) /\ InPlace(buckets, tableSize) /\ tableItems = Cardinality(Occupied(buckets))
      /\ tableSize \in Primes /\ tableItems < tableSize /\ DOMAIN buckets = 0 .. tableSize - 1
  BY TableInvFacts DEF TableInv
<1>2. /\ buckets' = after /\ tableSize' = M /\ tableItems' = count /\ Check(after, count)
      /\ Free({i} \ {-1}) /\ tableOwner' = tableOwner
  BY DEF Hashtable_remove
<1>3. /\ InPlace(left, tableSize) /\ count = Cardinality(Occupied(left)) /\ count < tableSize /\ count \in Nat
      /\ Pairs(left) = {pr \in Pairs(buckets) : pr[1] # k}
  <2>1. CASE HasKey(buckets, k)
    <3>1. i \in 0 .. tableSize - 1 /\ buckets[i] # Empty /\ buckets[i].key = k
      <4>1. tableSize \in Nat \ {0} /\ HasGap(buckets) /\ InPlace(buckets, tableSize)  BY <1>1
      <4>2. Find(buckets, k) \in 0 .. tableSize - 1 /\ buckets[Find(buckets, k)] # Empty
            /\ buckets[Find(buckets, k)].key = k
        BY <2>1, <4>1, GetPresent
      <4>. QED  BY <4>2
    <3>2. i # -1  BY <3>1
    <3>3. left = Vacate(buckets, i) /\ count = tableItems - 1  BY <3>2
    <3>. HIDE DEF i, left, count
    <3>4. /\ InPlace(left, tableSize) /\ Pairs(left) = {pr \in Pairs(buckets) : pr[1] # buckets[i].key}
          /\ Cardinality(Occupied(left)) = Cardinality(Occupied(buckets)) - 1
      BY <1>1, <3>1, <3>3, VacatedFacts
    <3>5. Cardinality(Occupied(left)) \in Nat
      <4>1. left \in Tables(tableSize)  BY <3>4 DEF InPlace
      <4>. QED  BY <1>1, <4>1, GapFacts
    <3>. QED  BY <1>1, <3>1, <3>3, <3>4, <3>5
  <2>2. CASE ~HasKey(buckets, k)
    <3>1. i = -1  BY <1>1, <2>2, GetAbsent
    <3>2. left = buckets /\ count = tableItems  BY <3>1
    <3>3. {pr \in Pairs(buckets) : pr[1] # k} = Pairs(buckets)  BY <2>2, OtherPairs
    <3>. HIDE DEF i, left, count
    <3>. QED  BY <1>1, <3>2, <3>3
  <2>. QED  BY <2>1, <2>2
<1>. HIDE DEF left, count
<1>4. /\ M \in Primes /\ InPlace(after, M) /\ Cardinality(Occupied(after)) = count
      /\ Pairs(after) = Pairs(left) /\ count < M
  <2>1. CASE 8 * count < tableSize
    <3>1. after = Resized(left, count, tableSize \div 2)  BY <2>1
    <3>2. tableSize \div 2 \in Nat /\ tableSize \div 2 <= tableSize  BY <1>1
    <3>3. HasPrime(tableSize \div 2)  BY <1>1, <3>2 DEF HasPrime
    <3>. DEFINE n == tableSize \div 2
    <3>4. n \in Nat /\ HasPrime(n) /\ after = Resized(left, count, n)  BY <3>1, <3>2, <3>3
    <3>. HIDE DEF n, after
    <3>5. /\ Size(after) \in Primes /\ InPlace(after, Size(after)) /\ Cardinality(Occupied(after)) = count
          /\ Pairs(after) = Pairs(left) /\ count < Size(after)
      BY <1>1, <1>3, <3>4, ResizedFacts
    <3>. QED  BY <3>5
  <2>2. CASE ~(8 * count < tableSize)
    <3>1. after = left  BY <2>2
    <3>. HIDE DEF after
    <3>2. Size(left) = tableSize
      <4>1. DOMAIN left = 0 .. tableSize - 1  BY <1>3 DEF InPlace, Tables
      <4>. QED  BY <1>1, <4>1, SizeFacts
    <3>. QED  BY <1>1, <1>3, <3>1, <3>2
  <2>. QED  BY <2>1, <2>2
<1>. HIDE DEF after
<1>5. M \in Nat \ {0} /\ after \in Tables(M)  BY <1>4, HashtableAssumption DEF InPlace
<1>6. tableFailed' = FALSE
  <2>1. tableFailed = FALSE  BY DEF TableInv
  <2>. QED  BY <1>2, <1>4, <2>1, CheckFacts
<1>7. freed' \subseteq Key \X Value
  <2>1. i # -1 => buckets[i].key = k /\ buckets[i].value \in Value  BY FreeOne
  <2>2. freed' \subseteq {<<buckets[j].key, buckets[j].value>> : j \in {i} \ {-1}}  BY <1>2 DEF Free
  <2>. HIDE DEF i
  <2>. QED  BY <2>1, <2>2
<1>8. TableInv'  BY <1>2, <1>4, <1>6, <1>7 DEF TableInv
<1>9. content' = [content EXCEPT ![k] = NoValue]
  <2>1. HasGap(after)  BY <1>3, <1>4, <1>5, GapFacts
  <2>2. Pairs(after) = {pr \in Pairs(buckets) : pr[1] # k}  BY <1>3, <1>4
  <2>3. ASSUME NEW l \in Key PROVE Get(after, l) = IF l = k THEN NoValue ELSE Get(buckets, l)
    <3>1. CASE l = k
      <4>1. \A w : <<k, w>> \notin Pairs(after)  BY <2>2
      <4>2. ~HasKey(after, k)  BY <4>1, HasKeyPairs
      <4>3. Get(after, k) = NoValue  BY <1>4, <1>5, <2>1, <4>2, GetAbsent
      <4>. QED  BY <3>1, <4>3
    <3>2. CASE l # k
      <4>1. \A w : <<l, w>> \in Pairs(after) <=> <<l, w>> \in Pairs(buckets)  BY <2>2, <3>2
      <4>2. Get(after, l) = Get(buckets, l)  BY <1>1, <1>4, <1>5, <2>1, <4>1, SameGet
      <4>. QED  BY <3>2, <4>2
    <3>. QED  BY <3>1, <3>2
  <2>4. content' = [l \in Key |-> Get(after, l)]  BY <1>2 DEF content
  <2>. QED  BY <2>3, <2>4 DEF content
<1>. QED  BY <1>2, <1>8, <1>9

LEMMA ClearStep ==
    ASSUME TableInv, Hashtable_clear
    PROVE  TableInv' /\ content' = [k \in Key |-> NoValue] /\ tableOwner' = tableOwner
<1>. DEFINE b == NewBuckets(tableSize)
<1>1. tableSize \in Nat \ {0} /\ tableSize \in Primes  BY TableInvFacts DEF TableInv
<1>2. /\ buckets' = b /\ tableItems' = 0 /\ tableSize' = tableSize /\ tableOwner' = tableOwner
      /\ tableFailed' = tableFailed /\ Free(Occupied(buckets))
  BY DEF Hashtable_clear
<1>3. InPlace(b, tableSize) /\ Occupied(b) = {} /\ Pairs(b) = {}  BY <1>1, NewBucketsFacts
<1>. HIDE DEF b
<1>4. Cardinality(Occupied(b)) = 0  BY <1>3, FS_EmptySet
<1>5. freed' \subseteq Key \X Value
  <2>1. \A j \in Occupied(buckets) : buckets[j].key \in Key /\ buckets[j].value \in Value
    <3>1. SUFFICES ASSUME NEW j \in Occupied(buckets) PROVE buckets[j].key \in Key /\ buckets[j].value \in Value
      OBVIOUS
    <3>2. j \in 0 .. tableSize - 1 /\ buckets[j] # Empty  BY TableInvFacts DEF Occupied
    <3>. QED  BY <1>1, <3>2, InPlaceFacts DEF TableInv
  <2>. QED  BY <1>2, <2>1 DEF Free
<1>6. TableInv'  BY <1>1, <1>2, <1>3, <1>4, <1>5 DEF TableInv
<1>7. content' = [k \in Key |-> NoValue]
  <2>1. HasGap(b)
    <3>1. b \in Tables(tableSize)  BY <1>3 DEF InPlace
    <3>. QED  BY <1>1, <1>4, <3>1, GapFacts
  <2>2. ASSUME NEW k \in Key PROVE Get(b, k) = NoValue
    <3>1. ~HasKey(b, k)  BY <1>3, HasKeyPairs
    <3>. QED  BY <1>1, <1>3, <2>1, <3>1, GetAbsent
  <2>3. content' = [k \in Key |-> Get(b, k)]  BY <1>2 DEF content
  <2>. QED  BY <2>2, <2>3
<1>. QED  BY <1>2, <1>6, <1>7

LEMMA PutFrees ==
    ASSUME TableInv, NEW k \in Key, NEW v \in Value, Hashtable_put(k, v)
    PROVE  Dict!Drop({k} \ {l \in Key : content[l] = v})
<1>. DEFINE i == Find(buckets, k)
            I == {j \in {i} \ {-1} : buckets[j].value # v}
            K == {l \in {k} \ {m \in Key : content[m] = v} : content[l] # NoValue}
<1>1. freed' = IF tableOwner THEN {<<buckets[j].key, buckets[j].value>> : j \in I} ELSE {}
  BY DEF Hashtable_put, Free
<1>2. /\ i = -1 <=> content[k] = NoValue
      /\ i # -1 => buckets[i].key = k /\ buckets[i].value = content[k]
  BY FreeOne
<1>. HIDE DEF i
<1>3. {<<buckets[j].key, buckets[j].value>> : j \in I} = {<<l, content[l]>> : l \in K}
  <2>1. CASE I = {}
    <3>1. K = {}  BY <1>2, <2>1
    <3>. HIDE DEF I, K
    <3>. QED  BY <2>1, <3>1
  <2>2. CASE I # {}
    <3>1. I = {i} /\ K = {k} /\ i # -1  BY <1>2, <2>2
    <3>. HIDE DEF I, K
    <3>. QED  BY <1>2, <3>1
  <2>. QED  BY <2>1, <2>2
<1>. HIDE DEF I
<1>. QED  BY <1>1, <1>3 DEF Dict!Drop, content

LEMMA RemoveFrees ==
    ASSUME TableInv, NEW k \in Key, Hashtable_remove(k)
    PROVE  Dict!Drop({k})
<1>. DEFINE i == Find(buckets, k)
            I == {i} \ {-1}
            K == {l \in {k} : content[l] # NoValue}
<1>1. freed' = IF tableOwner THEN {<<buckets[j].key, buckets[j].value>> : j \in I} ELSE {}
  BY DEF Hashtable_remove, Free
<1>2. /\ i = -1 <=> content[k] = NoValue
      /\ i # -1 => buckets[i].key = k /\ buckets[i].value = content[k]
  BY FreeOne
<1>. HIDE DEF i
<1>3. {<<buckets[j].key, buckets[j].value>> : j \in I} = {<<l, content[l]>> : l \in K}
  <2>1. CASE I = {}
    <3>1. K = {}  BY <1>2, <2>1
    <3>. HIDE DEF I, K
    <3>. QED  BY <2>1, <3>1
  <2>2. CASE I # {}
    <3>1. I = {i} /\ K = {k} /\ i # -1  BY <1>2, <2>2
    <3>. HIDE DEF I, K
    <3>. QED  BY <1>2, <3>1
  <2>. QED  BY <2>1, <2>2
<1>. HIDE DEF I
<1>. QED  BY <1>1, <1>3 DEF Dict!Drop, content

LEMMA ClearFrees ==
    ASSUME TableInv, Hashtable_clear
    PROVE  Dict!Drop(Key)
<1>. DEFINE K == {l \in Key : content[l] # NoValue}
<1>1. freed' = IF tableOwner THEN Pairs(buckets) ELSE {}  BY DEF Hashtable_clear, Free, Pairs
<1>2. InPlace(buckets, tableSize) /\ HasGap(buckets) /\ tableSize \in Nat \ {0}
      /\ DOMAIN buckets = 0 .. tableSize - 1
  BY TableInvFacts DEF TableInv
<1>3. ASSUME NEW pr \in Pairs(buckets) PROVE \E l \in K : pr = <<l, content[l]>>
  <2>1. PICK j \in 0 .. tableSize - 1 : buckets[j] # Empty /\ pr = <<buckets[j].key, buckets[j].value>>
    BY <1>2 DEF Pairs, Occupied
  <2>2. buckets[j].key \in Key /\ buckets[j].value \in Value  BY <1>2, <2>1, InPlaceFacts
  <2>3. Get(buckets, buckets[j].key) = buckets[j].value  BY <1>2, <1>3, <2>1, <2>2, GetIs
  <2>4. content[buckets[j].key] = buckets[j].value  BY <2>2, <2>3 DEF content
  <2>5. buckets[j].value # NoValue  BY <2>2, HashtableAssumption
  <2>. QED  BY <2>1, <2>2, <2>4, <2>5
<1>4. ASSUME NEW l \in K PROVE <<l, content[l]>> \in Pairs(buckets)
  <2>1. content[l] = Get(buckets, l)  BY DEF content
  <2>2. HasKey(buckets, l)
    <3>1. ASSUME ~HasKey(buckets, l) PROVE FALSE
      <4>1. Get(buckets, l) = NoValue  BY <1>2, <3>1, GetAbsent
      <4>. QED  BY <2>1, <4>1
    <3>. QED  BY <3>1
  <2>3. <<l, Get(buckets, l)>> \in Pairs(buckets)  BY <1>2, <2>2, GetPresent
  <2>. QED  BY <2>1, <2>3
<1>. HIDE DEF K
<1>5. Pairs(buckets) = {<<l, content[l]>> : l \in K}  BY <1>3, <1>4
<1>. QED  BY <1>1, <1>5 DEF Dict!Drop, content, K

LEMMA TableSteps ==
    ASSUME \A p \in Primes : p >= 4, TableInv, [TableNext]_tableVars
    PROVE  TableInv' /\ [Dict!DictNext]_(Dict!dictVars)
<1>1. ASSUME NEW k \in Key, NEW v \in Value, Hashtable_put(k, v) PROVE TableInv' /\ Dict!DictNext
  <2>1. TableInv' /\ content' = [content EXCEPT ![k] = v] /\ tableOwner' = tableOwner  BY <1>1, PutStep
  <2>2. Dict!Drop({k} \ {l \in Key : content[l] = v})  BY <1>1, PutFrees
  <2>3. Dict!DictPut(k, v)  BY <2>1, <2>2 DEF Dict!DictPut, content
  <2>. QED  BY <2>1, <2>3 DEF Dict!DictNext
<1>2. ASSUME NEW k \in Key, Hashtable_remove(k) PROVE TableInv' /\ Dict!DictNext
  <2>1. TableInv' /\ content' = [content EXCEPT ![k] = NoValue] /\ tableOwner' = tableOwner  BY <1>2, RemoveStep
  <2>2. Dict!Drop({k})  BY <1>2, RemoveFrees
  <2>3. Dict!DictRemove(k)  BY <2>1, <2>2 DEF Dict!DictRemove, content
  <2>. QED  BY <2>1, <2>3 DEF Dict!DictNext
<1>3. ASSUME Hashtable_clear PROVE TableInv' /\ Dict!DictNext
  <2>1. TableInv' /\ content' = [k \in Key |-> NoValue] /\ tableOwner' = tableOwner  BY <1>3, ClearStep
  <2>2. Dict!Drop(Key)  BY <1>3, ClearFrees
  <2>3. Dict!DictClear  BY <2>1, <2>2 DEF Dict!DictClear, content
  <2>. QED  BY <2>1, <2>3 DEF Dict!DictNext
<1>4. ASSUME UNCHANGED tableVars PROVE TableInv' /\ UNCHANGED Dict!dictVars
  <2>1. /\ tableSize' = tableSize /\ buckets' = buckets /\ tableItems' = tableItems
        /\ tableOwner' = tableOwner /\ freed' = freed /\ tableFailed' = tableFailed
    BY <1>4 DEF tableVars
  <2>2. TableInv'  BY <2>1 DEF TableInv
  <2>. QED  BY <2>1, <2>2 DEF Dict!dictVars
<1>. QED  BY <1>1, <1>2, <1>3, <1>4 DEF TableNext

LEMMA TableStarts == TableInit => TableInv /\ Dict!DictInit
<1>. SUFFICES ASSUME TableInit PROVE TableInv /\ Dict!DictInit  OBVIOUS
<1>1. PICK n \in NewSizes : HasPrime(n) /\ tableSize = IF n = 0 THEN 13 ELSE nextPrime(n)  BY DEF TableInit
<1>2. tableSize \in Primes /\ tableSize \in Nat \ {0}
  <2>1. n \in Nat  BY HashtableAssumption
  <2>. QED  BY <1>1, <2>1, nextPrimeFacts, HashtableAssumption
<1>3. /\ buckets = NewBuckets(tableSize) /\ tableItems = 0 /\ tableOwner \in BOOLEAN
      /\ freed = {} /\ tableFailed = FALSE
  BY DEF TableInit
<1>4. InPlace(buckets, tableSize) /\ Occupied(buckets) = {} /\ Pairs(buckets) = {}  BY <1>2, <1>3, NewBucketsFacts
<1>5. TableInv
  <2>1. Cardinality(Occupied(buckets)) = 0  BY <1>4, FS_EmptySet
  <2>. QED  BY <1>2, <1>3, <1>4, <2>1 DEF TableInv
<1>6. ASSUME NEW k \in Key PROVE Get(buckets, k) = NoValue
  <2>1. ~HasKey(buckets, k)  BY <1>4, HasKeyPairs
  <2>2. HasGap(buckets)  BY <1>5, TableInvFacts
  <2>. QED  BY <1>2, <1>4, <2>1, <2>2, GetAbsent
<1>. QED  BY <1>3, <1>5, <1>6 DEF Dict!DictInit

\* What the invariant says, in the words of RobinHood.
LEMMA TableInvImplies == TableInv => RobinHood
<1>. SUFFICES ASSUME TableInv PROVE RobinHood  OBVIOUS
<1>. DEFINE N == tableSize
<1>1. N \in Nat \ {0} /\ DOMAIN buckets = 0 .. N - 1 /\ buckets \in Tables(N) /\ tableItems \in Nat
      /\ InPlace(buckets, N)
  BY TableInvFacts DEF TableInv
<1>2. TableTypeOK /\ TableNoAssertionFails
  BY <1>1 DEF TableInv, TableTypeOK, TableNoAssertionFails, Tables
<1>3. ASSUME NEW i \in Occupied(buckets)
      PROVE  LET before == buckets[(i - 1 + N) % N] IN
             /\ (buckets[i].key + buckets[i].probe) % N = i /\ buckets[i].probe < N
             /\ buckets[i].probe > 0 => before # Empty /\ buckets[i].probe <= before.probe + 1
  <2>1. i \in 0 .. N - 1 /\ buckets[i] # Empty  BY <1>1 DEF Occupied
  <2>2. Spot(N, buckets[i].key, buckets[i].probe) = i /\ buckets[i].probe < N
        /\ FitsAt(buckets, N, i, buckets[i].probe)
    BY <1>1, <2>1, InPlaceFacts
  <2>3. (i - 1 + N) % N = Before(N, i)  BY <1>1, <2>1, ModNear
  <2>. HIDE DEF N
  <2>. QED  BY <2>2, <2>3 DEF Spot, FitsAt
<1>. QED  BY <1>2, <1>3 DEF RobinHood

(****************************************************************************)
(* Whatever keys are put, removed and cleared, and however the table grows  *)
(* and shrinks, get gives what was last put at a key, and an owner frees    *)
(* exactly the values it drops; if the table has four buckets or more       *)
(* (Hashtable.c:101-346).                                                   *)
(****************************************************************************)
THEOREM TableIsDictionary ==
    ASSUME \A p \in Primes : p >= 4
    PROVE  TableSpec => ImplementsDictionary
<1>1. TableInv /\ [TableNext]_tableVars => TableInv' /\ [Dict!DictNext]_(Dict!dictVars)  BY TableSteps
<1>. QED  BY <1>1, TableStarts, PTL DEF TableSpec, ImplementsDictionary, Dict!DictSpec

(****************************************************************************)
(* Each item is where its probe count says, never more than one bucket      *)
(* further from its home than the item before it, so that the searches may  *)
(* end early; there is always a free bucket, and no assertion fails.        *)
(****************************************************************************)
THEOREM TableCorrect ==
    ASSUME \A p \in Primes : p >= 4
    PROVE  TableSpec => TableSound
<1>1. TableInv /\ [TableNext]_tableVars => TableInv' /\ [Dict!DictNext]_(Dict!dictVars)  BY TableSteps
<1>2. TableInv /\ [TableNext]_tableVars =>
         [tableVars' # tableVars => [Dict!DictNext]_(Dict!dictVars)]_tableVars
  BY <1>1
<1>. QED  BY <1>1, <1>2, TableStarts, TableInvImplies, PTL DEF TableSpec, TableSound
=============================================================================
