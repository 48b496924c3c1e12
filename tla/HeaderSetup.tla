---------------------------- MODULE HeaderSetup ----------------------------
(****************************************************************************)
(* The header and the setup screen that edits it (Header.c, MetersPanel.c,  *)
(* AvailableMetersPanel.c, HeaderOptionsPanel.c).  The header's columns     *)
(* hold the meters; on the meters page a panel beside each column shows     *)
(* them as list items, which every key must keep in step.  When the setup   *)
(* is left, the header is written back to the settings.                     *)
(****************************************************************************)
EXTENDS Integers, Sequences, FiniteSets, Community

CONSTANTS
    Meter,       \* the meters that may exist, at most one header has them all
    Modes,       \* Seq of [h, text]: the height of a mode, and whether it is TEXT_METERMODE
    Layouts,     \* the numbers of columns of the header layouts
    StartLength  \* bound: the meters of a column that the settings have

ASSUME HeaderAssumption ==
    /\ IsFiniteSet(Meter)
    /\ Modes \in Seq([h : Nat \ {0}, text : BOOLEAN]) /\ Modes # <<>>
    /\ Layouts \subseteq Nat \ {0} /\ StartLength \in Nat

VARIABLES
    columns,     \* Header.columns: Seq(Seq(Meter))
    mode,        \* Meter.mode, an index of Modes
    spans,       \* Meter.columnWidthCount
    height,      \* Header.height without the margin
    hColumns,    \* settings->hColumns: what would be written to the file
    changed,     \* settings->changed
    page,        \* "closed", "meters", "layout" or "other"
    panels,      \* on the meters page: Seq of [items, selected, moving]
    focus,       \* 0: the categories; then the panels of the page
    failed       \* an assertion failed (history)

headerVars == <<columns, mode, spans, height>>
headerSetupVars == <<headerVars, hColumns, changed, page, panels, focus, failed>>

n == Len(columns)
smaller(a, b) == IF a < b THEN a ELSE b
larger(a, b) == IF a > b THEN a ELSE b

MetersOf(cols) == UNION {{cols[c][i] : i \in DOMAIN cols[c]} : c \in DOMAIN cols}

-----------------------------------------------------------------------------
(* Header.c                                                                 *)

\* The first line of the i-th meter of a column, and the line after the last.
Top(col, md, i) == SX!FoldLeft(LAMBDA y, m : y + Modes[md[m]].h, 0, SubSeq(col, 1, i - 1))
Bottom(col, md, i) == Top(col, md, i + 1)

\* Whether a meter (a blank one, which may be drawn over, is left out) uses one of the lines from..(to - 1).
Occupied(col, md, from, to) ==
    \E j \in DOMAIN col : Top(col, md, j) < to /\ Bottom(col, md, j) > from

calcColumnWidthCount(cols, md, c, i) ==
    LET taken == {d \in (c + 1)..Len(cols) :
                     Occupied(cols[d], md, Top(cols[c], md, i), Bottom(cols[c], md, i))}
    IN IF taken = {} THEN Len(cols) + 1 - c
       ELSE (CHOOSE d \in taken : \A e \in taken : d <= e) - c

\* What Header_calculateHeight sets, for columns cols in modes md.
Spans(cols, md) ==
    [m \in Meter |->
        IF m \notin MetersOf(cols) THEN 0
        ELSE LET at == CHOOSE a \in UNION {{c} \X DOMAIN cols[c] : c \in DOMAIN cols} : cols[a[1]][a[2]] = m
             IN calcColumnWidthCount(cols, md, at[1], at[2])]

Height(cols, md) ==
    LET bottoms == {Bottom(cols[c], md, Len(cols[c])) : c \in DOMAIN cols}
    IN CHOOSE h \in bottoms : \A b \in bottoms : h >= b

Header_calculateHeight(cols, md) == spans' = Spans(cols, md) /\ height' = Height(cols, md)

\* Mutant: the meters of the columns that go away go with them.
Header_setLayout_Drops(cols, k) ==
    [c \in 1..k |-> IF c <= Len(cols) THEN cols[c] ELSE <<>>]

\* New columns are empty; the meters of those that go away move to the last one.
Header_setLayout(cols, k) ==
    [c \in 1..k |->
        IF c > Len(cols) THEN <<>>
        ELSE IF c < k THEN cols[c]
        ELSE SX!FoldLeft(LAMBDA acc, d : acc \o SX!Reverse(cols[d]), cols[c],
                      [i \in 1..(Len(cols) - k) |-> k + i])]

Save(col, md) == [i \in DOMAIN col |-> [meter |-> col[i], mode |-> md[col[i]]]]

Header_writeBackToSettings == [c \in 1..n |-> Save(columns[c], mode)]

\* A meter is in the header once.
EachOnce(cols) ==
    \A c, d \in DOMAIN cols : \A i \in DOMAIN cols[c], j \in DOMAIN cols[d] :
        cols[c][i] = cols[d][j] => c = d /\ i = j

\* Header_populateFromSettings, from what the settings hold.
HeaderInit ==
    /\ mode \in [Meter -> DOMAIN Modes]
    /\ \E k \in Layouts :
          columns \in {cols \in [1..k -> UNION {[1..l -> Meter] : l \in 0..StartLength}] : EachOnce(cols)}
    /\ \A m \in Meter \ MetersOf(columns) : mode[m] = 1
    /\ hColumns = Header_writeBackToSettings
    /\ spans = Spans(columns, mode) /\ height = Height(columns, mode)
    /\ changed = FALSE /\ page = "closed" /\ panels = <<>> /\ focus = 0 /\ failed = FALSE

-----------------------------------------------------------------------------
(* The setup screen.                                                        *)

Action_runSetup ==
    /\ page = "closed" /\ page' = "other" /\ focus' = 0
    /\ UNCHANGED <<headerVars, hColumns, changed, panels, failed>>

\* 'q', F10 or Esc.
Leave ==
    /\ page # "closed" /\ page' = "closed" /\ panels' = <<>> /\ focus' = 0
    /\ hColumns' = IF changed THEN Header_writeBackToSettings ELSE hColumns
    /\ UNCHANGED <<headerVars, changed, failed>>

\* Meter_toListItem; the mark of the item that moves is left out.
Item(m, md) == [meter |-> m, mode |-> md[m]]

MetersPanel_new(col) ==
    [items |-> [i \in DOMAIN col |-> Item(col[i], mode)], selected |-> 0, moving |-> FALSE]

\* Another category is selected, by key or click.
SelectCategory ==
    /\ page # "closed" /\ focus' = 0
    /\ page' \in {"other", "layout", "meters"}
    /\ panels' = IF page' = "meters" THEN [c \in 1..n |-> MetersPanel_new(columns[c])] ELSE <<>>
    /\ UNCHANGED <<headerVars, hColumns, changed, failed>>

\* HeaderOptionsPanel: a layout is chosen by key, or by a click from any panel.
ChooseLayout ==
    /\ page = "layout" /\ focus' = 1
    /\ \E k \in Layouts :
          /\ columns' = Header_setLayout(columns, k)
          /\ IF k = n THEN UNCHANGED <<spans, height>> ELSE Header_calculateHeight(columns', mode)
    /\ changed' = TRUE
    /\ UNCHANGED <<mode, hColumns, page, panels, failed>>

\* The number of panels, the categories not counted.
Panels == IF page = "meters" THEN n + 1 ELSE 1

Filled(f) == f = 0 \/ f > Len(panels) \/ panels[f].items # <<>>

\* The nearest panel that has items, or the last one tried.
Right == IF focus = Panels THEN focus
         ELSE CHOOSE f \in (focus + 1)..Panels : /\ Filled(f) \/ f = Panels
                                                 /\ \A g \in (focus + 1)..(f - 1) : ~Filled(g)
Left == IF focus = 0 THEN 0
        ELSE CHOOSE f \in 0..(focus - 1) : Filled(f) /\ \A g \in (f + 1)..(focus - 1) : ~Filled(g)

OnMeters == page = "meters" /\ focus \in 1..n

\* Tab, Ctrl-B and Ctrl-F, and the arrows unless a meter is moving.
MoveFocus ==
    /\ page # "closed" /\ focus' \in {Left, Right}
    /\ UNCHANGED <<headerVars, hColumns, changed, page, panels, failed>>

-----------------------------------------------------------------------------
(* MetersPanel.c                                                            *)

SetMoving(p, moving) == [p EXCEPT !.moving = moving]

Panel_remove(p, i) ==
    [p EXCEPT !.items = SX!RemoveAt(@, i),
              !.selected = IF @ > 0 /\ @ >= Len(p.items) - 1 THEN @ - 1 ELSE @]

Vector_insert(s, i, x) == SX!InsertAt(s, smaller(i, Len(s) + 1), x)

Panel_insert(p, i, item) == [p EXCEPT !.items = SX!InsertAt(@, smaller(i, Len(@) + 1), item)]

Panel_setSelected(p, i) == [p EXCEPT !.selected = larger(0, smaller(i, Len(p.items) - 1))]

Swap(s, i, j) == [s EXCEPT ![i] = s[j], ![j] = s[i]]

\* Mutant: a meter that moves to a neighbour is not handled.
Recalculated_NoSide(sideMove, cols, md) ==
    IF sideMove THEN changed' = TRUE /\ UNCHANGED <<spans, height>>
    ELSE changed' = TRUE /\ Header_calculateHeight(cols, md)

\* The end of the event handler.
Recalculated(sideMove, cols, md) ==
    changed' = TRUE /\ Header_calculateHeight(cols, md)

pn == panels[focus]
col == columns[focus]
sel == pn.selected + 1

UnchangedOutside == UNCHANGED <<hColumns, page>>

\* Enter
ToggleMoving ==
    /\ OnMeters /\ col # <<>>
    /\ panels' = [panels EXCEPT ![focus] = SetMoving(@, ~@.moving)]
    /\ Recalculated(FALSE, columns, mode)
    /\ UNCHANGED <<columns, mode, focus, failed>> /\ UnchangedOutside

\* Space, F4, 't'
NextStyle ==
    /\ OnMeters /\ col # <<>>
    /\ mode' = [mode EXCEPT ![col[sel]] = 1 + (@ % Len(Modes))]
    /\ panels' = [panels EXCEPT ![focus].items[sel] = Item(col[sel], mode')]
    /\ Recalculated(FALSE, columns, mode')
    /\ UNCHANGED <<columns, focus, failed>> /\ UnchangedOutside

\* F7, F8, '[', ']', '-', '+', and the arrows while moving.  Vector_moveUp and
\* Vector_moveDown assert that there is a meter.
MoveMeter ==
    /\ OnMeters
    /\ \E to \in {pn.selected, pn.selected + 2} :
          IF to \in DOMAIN col
          THEN /\ columns' = [columns EXCEPT ![focus] = Swap(@, sel, to)]
               /\ panels' = [panels EXCEPT ![focus].items = Swap(@, sel, to), ![focus].selected = to - 1]
          ELSE UNCHANGED <<columns, panels>>
    /\ Recalculated(FALSE, columns', mode)
    /\ failed' = (failed \/ col = <<>>)
    /\ UNCHANGED <<mode, focus>> /\ UnchangedOutside

\* Right and left while moving.  The focus follows the meter.
MoveToNeighbor ==
    /\ OnMeters /\ pn.moving /\ col # <<>>
    /\ \E d \in {focus - 1, focus + 1} \cap 1..n :
          /\ columns' = [columns EXCEPT ![focus] = SX!RemoveAt(@, sel),
                                        ![d] = Vector_insert(@, sel, col[sel])]
          /\ panels' = [panels EXCEPT
                ![focus] = Panel_remove(SetMoving(pn, FALSE), sel),
                ![d] = SetMoving(Panel_setSelected(Panel_insert(@, sel, Item(col[sel], mode)), sel - 1), TRUE)]
          /\ focus' = d
    /\ Recalculated(TRUE, columns', mode)
    /\ UNCHANGED <<mode, failed>> /\ UnchangedOutside

\* Right and left while moving, where no neighbour is: the focus stays.
Locked ==
    /\ OnMeters /\ pn.moving /\ ({focus - 1, focus + 1} \ (1..n)) # {}
    /\ Recalculated(FALSE, columns, mode)
    /\ UNCHANGED <<columns, mode, panels, focus, failed>> /\ UnchangedOutside

\* Del, F9
DeleteMeter ==
    /\ OnMeters /\ col # <<>>
    /\ columns' = [columns EXCEPT ![focus] = SX!RemoveAt(@, sel)]
    /\ mode' = [mode EXCEPT ![col[sel]] = 1]
    /\ panels' = [panels EXCEPT ![focus] = SetMoving(Panel_remove(@, sel), FALSE)]
    /\ Recalculated(FALSE, columns', mode')
    /\ UNCHANGED <<focus, failed>> /\ UnchangedOutside

\* The other keys that move a selection (Panel_onKey).
SelectMeter ==
    /\ OnMeters
    /\ \E i \in (IF pn.moving THEN {0, n} ELSE {pn.selected - 1, pn.selected + 1, 0, n}) :
          panels' = [panels EXCEPT ![focus] = Panel_setSelected(@, i)]
    /\ UNCHANGED <<headerVars, hColumns, changed, page, focus, failed>>

\* A click gives any panel the focus, and selects a line of it.
Click ==
    /\ page \in {"meters", "other"} /\ focus' \in 1..Panels
    /\ IF page = "meters" /\ focus' \in 1..n
       THEN \E i \in 0..Cardinality(Meter) :
               panels' = [panels EXCEPT ![focus'] = Panel_setSelected(@, i)]
       ELSE UNCHANGED panels
    /\ UNCHANGED <<headerVars, hColumns, changed, page, failed>>

\* AvailableMetersPanel: a meter is added to the first or the last column; the
\* latter also goes to the panel on the left.
AddMeter ==
    /\ page = "meters" /\ focus = n + 1
    /\ \E m \in Meter \ MetersOf(columns), last \in BOOLEAN :
          LET c == IF last THEN n ELSE 1
              added == [panels[c] EXCEPT !.items = Append(@, Item(m, mode))]
          IN /\ columns' = [columns EXCEPT ![c] = Append(@, m)]
             /\ panels' = [panels EXCEPT ![c] = SetMoving(Panel_setSelected(added, Len(added.items) - 1), TRUE)]
             /\ focus' = IF last THEN n ELSE focus
    /\ Recalculated(FALSE, columns', mode)
    /\ UNCHANGED <<mode, failed>> /\ UnchangedOutside

HeaderNext ==
    \/ Action_runSetup \/ Leave \/ SelectCategory \/ ChooseLayout \/ MoveFocus
    \/ ToggleMoving \/ NextStyle \/ MoveMeter \/ MoveToNeighbor \/ Locked \/ DeleteMeter
    \/ SelectMeter \/ Click \/ AddMeter

HeaderSpec == HeaderInit /\ [][HeaderNext]_headerSetupVars

-----------------------------------------------------------------------------
(* Properties.                                                              *)

\* The columns are as many as one of the layouts has.
HeaderTypeOK ==
    /\ n \in Layouts /\ \A c \in 1..n : columns[c] \in Seq(Meter)
    /\ mode \in [Meter -> DOMAIN Modes] /\ spans \in [Meter -> 0..n] /\ height \in Nat
    /\ \A c \in DOMAIN hColumns : hColumns[c] \in Seq([meter : Meter, mode : DOMAIN Modes])
    /\ changed \in BOOLEAN /\ failed \in BOOLEAN
    /\ page \in {"closed", "other", "layout", "meters"} /\ focus \in 0..(n + 1)
    /\ \A c \in DOMAIN panels : panels[c] \in [items : Seq([meter : Meter, mode : DOMAIN Modes]),
                                               selected : Nat, moving : BOOLEAN]

\* Every panel of the meters page shows the meters of its column in their
\* order and style, and its selection is one of them: the keys act on the
\* meter by the index of the item.
PanelsMatch ==
    /\ HeaderTypeOK
    /\ page = "meters" =>
        /\ Len(panels) = n
        /\ \A c \in 1..n :
              /\ Len(panels[c].items) = Len(columns[c])
              /\ \A i \in DOMAIN columns[c] :
                    /\ panels[c].items[i].meter = columns[c][i]
                    /\ panels[c].items[i].mode = mode[columns[c][i]]
              /\ panels[c].selected < larger(1, Len(columns[c]))

\* No step of the setup loses a meter, except the one that is selected where
\* the focus is, nor puts it into the header twice.
MetersKept ==
    [][/\ \A m \in MetersOf(columns) \ MetersOf(columns') :
             OnMeters /\ columns[focus][panels[focus].selected + 1] = m
       /\ EachOnce(columns')]_headerSetupVars

\* A meter in text mode, which is drawn over the columns that it spans, covers
\* no meter there and ends within the header, which is as high as its meters.
NoOverlap ==
    \A c \in 1..n :
        /\ Bottom(columns[c], mode, Len(columns[c])) <= height
        /\ \A i \in DOMAIN columns[c] :
              Modes[mode[columns[c][i]]].text =>
                  /\ c + spans[columns[c][i]] - 1 <= n
                  /\ \A d \in (c + 1)..(c + spans[columns[c][i]] - 1) :
                        \A j \in DOMAIN columns[d] :
                            \/ Bottom(columns[d], mode, j) <= Top(columns[c], mode, i)
                            \/ Top(columns[d], mode, j) >= Bottom(columns[c], mode, i)

\* Outside the setup, the settings hold what the header shows: that is what is
\* written when htop ends.
SavedAsShown ==
    page = "closed" => hColumns = [c \in 1..n |-> Save(columns[c], mode)]

\* Vector.c:246 and 258 assert that the meter to move exists.
NoAssertionFails == ~failed

\* "lock user here until it exits positioning-mode" (MetersPanel.c:155): a panel
\* keeps the focus while its meter is moving, or gives it to the panel to which
\* the meter moves.
MovingKeepsFocus ==
    [][page' = page /\ OnMeters /\ pn.moving /\ panels'[focus].moving => focus' = focus]_headerSetupVars

(****************************************************************************)
(* The header, the panels that edit it and the settings are one: panels and *)
(* columns hold the same meters in the same order, no meter is drawn over   *)
(* another, and what is shown when the setup is closed is what is saved     *)
(* (MetersPanel.c:66-192, Header.c:132-167, 244-289).                       *)
(****************************************************************************)
HeaderSound == PanelsMatch /\ NoOverlap /\ SavedAsShown
=============================================================================
