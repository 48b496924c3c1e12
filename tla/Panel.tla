------------------------------- MODULE Panel -------------------------------
(****************************************************************************)
(* Panel.c: a list with a selection and a scroll position, and what of it   *)
(* is on the screen.  The event loop alternates: a key is handled, which    *)
(* may change the panel, then every panel is drawn.  Drawing rewrites all   *)
(* lines only if needed; otherwise only those of the old and of the new     *)
(* selection, and reads the old one's item again.                           *)
(****************************************************************************)
EXTENDS Integers

CONSTANTS Item, Blank,
          MaxSize,        \* bound: items in the panel
          Heights         \* values of h, the lines between header and function bar

ASSUME ConstantsAssumption ==
    MaxSize \in Nat /\ Heights \subseteq Int /\ Blank \notin Item

VARIABLES
    size,         \* number of items
    items,        \* [0..size-1 -> Item]
    selected, oldSelected, scrollV, needsRedraw,
    h,            \* lines for the header and the items, the function bar shown
    barHidden,    \* the line of the function bar is used for items too
    hasHeader,
    screen,       \* line -> the item on it, and whether it is marked as selected
    phase         \* "key" or "draw"

viewVars == <<scrollV, oldSelected, needsRedraw>>
frameVars == <<h, barHidden, hasHeader>>
vars == <<size, items, selected, viewVars, frameVars, screen, phase>>

larger(a, b) == IF a > b THEN a ELSE b
CLAMP(x, low, high) == IF x > high THEN high ELSE larger(x, low)

Panel_headerHeight == IF hasHeader THEN 1 ELSE 0
PageSize == h - Panel_headerHeight

\* The lines that Panel_draw has for items.
Rows == h + (IF barHidden THEN 1 ELSE 0) - Panel_headerHeight

Init ==
    /\ size = 0 /\ items = [i \in {} |-> Blank]
    /\ selected = 0 /\ oldSelected = 0 /\ scrollV = 0 /\ needsRedraw = TRUE
    /\ h \in Heights /\ barHidden \in BOOLEAN /\ hasHeader \in BOOLEAN
    /\ screen = [l \in {} |-> [item |-> Blank, mark |-> FALSE]]
    /\ phase = "draw"

-----------------------------------------------------------------------------
(* What a key may do to the panel.                                          *)

Handled == phase = "key" /\ phase' = "draw"

Panel_setSelected(n, count) == CLAMP(n, 0, larger(0, count - 1))

\* A key that nothing changes for, and a mouse click or a search.
Select ==
    /\ Handled
    /\ \E n \in -1..MaxSize : selected' = Panel_setSelected(n, size)
    /\ UNCHANGED <<size, items, viewVars, frameVars, screen>>

\* selected after Panel_onKey has moved it to n.
InBounds(n) == IF n < 0 \/ size = 0 THEN 0 ELSE IF n >= size THEN size - 1 ELSE n

\* The arrow keys, HOME and END.
Panel_onKey_move ==
    /\ Handled
    /\ \E n \in {selected - 1, selected + 1, 0, size - 1} :
          /\ selected' = InBounds(n)
          /\ needsRedraw' = (needsRedraw \/ n # InBounds(n) \/ size = 0)
    /\ UNCHANGED <<size, items, scrollV, oldSelected, frameVars, screen>>

\* The page keys, and the wheel with CRT_scrollWheelVAmount = 10.
Panel_onKey_scroll ==
    /\ Handled
    /\ \E amount \in {PageSize, -PageSize, 10, -10} :
          /\ selected' = InBounds(selected + amount)
          /\ scrollV' = CLAMP(scrollV + amount, 0,
                              larger(0, size - h - Panel_headerHeight))
    /\ needsRedraw' = TRUE
    /\ UNCHANGED <<size, items, oldSelected, frameVars, screen>>

\* Panel_moveSelectedUp and Panel_moveSelectedDown: the item moves along.
MoveSelected ==
    /\ Handled /\ size > 0
    /\ \E n \in {selected - 1, selected + 1} \cap 0..(size - 1) :
          /\ items' = [items EXCEPT ![selected] = items[n], ![n] = items[selected]]
          /\ selected' = n
    /\ UNCHANGED <<size, viewVars, frameVars, screen>>

\* Panel_set at the selection, or a change of the selected item itself.
EditSelected ==
    /\ Handled /\ size > 0
    /\ \E x \in Item : items' = [items EXCEPT ![selected] = x]
    /\ UNCHANGED <<size, selected, viewVars, frameVars, screen>>

\* Panel_add and Panel_insert, followed by a selection or not.
Insert ==
    /\ Handled /\ size < MaxSize
    /\ \E i \in 0..size, x \in Item :
          /\ items' = [j \in 0..size |-> IF j < i THEN items[j] ELSE IF j = i THEN x ELSE items[j - 1]]
          /\ selected' \in {selected, Panel_setSelected(i, size + 1), Panel_setSelected(i + 1, size + 1)}
    /\ size' = size + 1
    /\ needsRedraw' = TRUE
    /\ UNCHANGED <<scrollV, oldSelected, frameVars, screen>>

\* Mutant: Panel_remove does not ask for a redraw.
Remove_NoRedraw ==
    /\ Handled /\ size > 0
    /\ items' = [j \in 0..(size - 2) |-> IF j < selected THEN items[j] ELSE items[j + 1]]
    /\ size' = size - 1
    /\ selected' = IF selected > 0 /\ selected >= size' THEN selected - 1 ELSE selected
    /\ UNCHANGED <<viewVars, frameVars, screen>>

\* Panel_remove of the selected item.
Remove ==
    /\ Handled /\ size > 0
    /\ items' = [j \in 0..(size - 2) |-> IF j < selected THEN items[j] ELSE items[j + 1]]
    /\ size' = size - 1
    /\ selected' = IF selected > 0 /\ selected >= size' THEN selected - 1 ELSE selected
    /\ needsRedraw' = TRUE
    /\ UNCHANGED <<scrollV, oldSelected, frameVars, screen>>

\* Panel_prune, then adding or setting items from the first on, and selecting
\* one of them; ProcessList_rebuildPanel restores the scroll position, and the
\* main panel's bar may have been hidden or shown by the key.
Refill ==
    /\ Handled
    /\ \E n \in 0..MaxSize : \E s \in -1..n :
          /\ size' = n
          /\ items' \in [0..(n - 1) -> Item]
          /\ selected' = Panel_setSelected(s, n)
    /\ scrollV' \in {0, scrollV}
    /\ oldSelected' = 0
    /\ needsRedraw' = TRUE
    /\ barHidden' \in BOOLEAN
    /\ UNCHANGED <<h, hasHeader, screen>>

\* Panel_resize and Panel_move; the bar may be hidden in the same step.
Resize ==
    /\ Handled
    /\ h' \in Heights /\ barHidden' \in BOOLEAN
    /\ needsRedraw' = TRUE
    /\ UNCHANGED <<size, items, selected, scrollV, oldSelected, hasHeader, screen>>

-----------------------------------------------------------------------------
(* Panel_draw                                                               *)

ScrollOnScreen == IF scrollV < 0 THEN 0
                  ELSE IF scrollV > size - Rows THEN larger(size - Rows, 0)
                  ELSE scrollV

First == IF selected < ScrollOnScreen THEN selected
         ELSE IF selected >= ScrollOnScreen + Rows THEN selected - Rows + 1
         ELSE ScrollOnScreen

MustRedraw == \/ needsRedraw
              \/ scrollV < 0 \/ scrollV > size - Rows
              \/ selected < ScrollOnScreen \/ selected >= ScrollOnScreen + Rows

Line(i, sel) == IF i < size THEN [item |-> items[i], mark |-> i = sel]
                ELSE [item |-> Blank, mark |-> FALSE]

FullScreen(first) == [l \in 0..(Rows - 1) |-> Line(first + l, selected)]

\* Only the lines of the old and the new selection are written.
PartialScreen(first) ==
    [l \in DOMAIN screen |->
        IF first + l \in {oldSelected, selected} THEN Line(first + l, selected) ELSE screen[l]]

Panel_draw(force) ==
    /\ phase = "draw" /\ phase' = "key"
    /\ scrollV' = First
    /\ screen' = IF force \/ MustRedraw THEN FullScreen(First) ELSE PartialScreen(First)
    /\ oldSelected' = selected
    /\ needsRedraw' = FALSE
    /\ UNCHANGED <<size, items, selected, frameVars>>

Draw == \E force \in BOOLEAN : Panel_draw(force)

Next == \/ Select \/ Panel_onKey_move \/ Panel_onKey_scroll \/ MoveSelected \/ EditSelected
        \/ Insert \/ Remove \/ Refill \/ Resize \/ Draw

Spec == Init /\ [][Next]_vars

-----------------------------------------------------------------------------
(* Properties.                                                              *)

TypeOK ==
    /\ size \in Nat /\ items \in [0..(size - 1) -> Item]
    /\ selected \in Nat /\ oldSelected \in Nat /\ scrollV \in Nat
    /\ needsRedraw \in BOOLEAN /\ barHidden \in BOOLEAN /\ hasHeader \in BOOLEAN
    /\ h \in Heights
    /\ phase \in {"key", "draw"}

\* Panel_getSelected of a panel that is not empty is one of its items, after
\* any sequence of keys, removals and refills.
SelectionValid == selected < size \/ (size = 0 /\ selected = 0)

\* A partial redraw reads an old and a new selected item that exist, and
\* writes lines of the panel: neither a removal nor a scroll comes between.
PartialRedrawSafe ==
    phase = "draw" /\ ~MustRedraw =>
        \A n \in {oldSelected, selected} : n < size /\ n - First \in 0..(Rows - 1)

\* After drawing, the screen shows the items from scrollV on as they are, with
\* the mark at the selection: the partial redraw never leaves a stale line.
ScreenCurrent == phase = "key" => screen = FullScreen(scrollV)

(****************************************************************************)
(* What Panel_draw leaves on the screen is what a full redraw would, and    *)
(* what it reads and writes on the way exists, after any sequence of keys,  *)
(* removals, refills and changes of the height (Panel.c:213-338).           *)
(****************************************************************************)
DrawnSafely == SelectionValid /\ PartialRedrawSafe /\ ScreenCurrent
=============================================================================
