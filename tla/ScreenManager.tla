--------------------------- MODULE ScreenManager ---------------------------
(****************************************************************************)
(* The event loop (ScreenManager_run, checkRecalculation): when the list    *)
(* is scanned, sorted, rebuilt and drawn between two keys, which panel has  *)
(* the focus, and how the loop ends by itself when the terminal is gone.    *)
(****************************************************************************)
EXTENDS Integers, Sequences

CONSTANTS
    Delay,         \* settings->delay
    ResetSort,     \* resetSortTimeout (5 in the code)
    CloseLimit,    \* the closeTimeout that ends the loop (100 in the code)
    MaxOdd,        \* bound: clock set-backs, and clicks that hit no panel
    MaxPanels      \* bound: panels of a page

ASSUME BoundAssumption ==
    /\ Delay \in Nat \ {0} /\ ResetSort \in Nat \ {0} /\ MaxPanels \in Nat \ {0}
    /\ MaxOdd \in Nat /\ CloseLimit \in Nat \ {0}

VARIABLES
    pc,            \* "check", "draw", "getch", "quit" (by a key) or "closed"
    ch,            \* the last key: "ERR" or "key"
    terminal,      \* "open" or "gone"
    elapsed,       \* realtime minus oldTime, not more than Delay + 1 nor less than -1
    odd,           \* how often the clock was set back or a click hit no panel
    timedOut, rescan, redraw, force_redraw, sortTimeout, closeTimeout,
    paused, tree,  \* what the loop reads of the state and the settings
    allowFocusChange,
    panels,        \* Seq of [id, items]: the panels and how many items they have
    focus, panelFocus,
    sorted,        \* the last pass sorted the list (history)
    rebuilt,       \* the main panel was rebuilt since the last scan (history)
    wanted,        \* a handler asked for a scan that was not made yet (history)
    quiet          \* timeouts since the user last browsed, up to ResetSort (history)

flagVars == <<timedOut, rescan, redraw, force_redraw, sortTimeout, closeTimeout>>
panelVars == <<allowFocusChange, panels, focus, panelFocus>>
historyVars == <<sorted, rebuilt, wanted, quiet>>
vars == <<pc, ch, terminal, elapsed, odd, flagVars, paused, tree, panelVars, historyVars>>

smaller(a, b) == IF a < b THEN a ELSE b
larger(a, b) == IF a > b THEN a ELSE b

\* A page's panels differ from those of the page before (id), and the first
\* panel stays.  The first and the last one are never empty.
Page(id) ==
    {p \in UNION {[1..n -> [id : {0, id}, items : 0..1]] : n \in 1..MaxPanels} :
        /\ \A i \in DOMAIN p : p[i].id = IF i = 1 THEN 0 ELSE id
        /\ p[1].items = 1 /\ p[Len(p)].items = 1}

Init ==
    /\ pc = "check" /\ ch = "ERR" /\ terminal = "open"
    /\ elapsed = Delay + 1 /\ odd = 0
    /\ timedOut = TRUE /\ rescan = FALSE /\ redraw = TRUE /\ force_redraw = TRUE
    /\ sortTimeout = 0 /\ closeTimeout = 0
    /\ paused \in BOOLEAN /\ tree \in BOOLEAN
    /\ allowFocusChange \in BOOLEAN
    /\ panels \in Page(1)
    /\ focus = 1 /\ panelFocus = <<panels[1].id, 1>>
    /\ sorted = FALSE /\ rebuilt = TRUE /\ wanted = FALSE /\ quiet = ResetSort

-----------------------------------------------------------------------------
\* Mutant: a scan by timeout does not redraw.
Scanned_NoRedraw(scan) == redraw

\* What checkRecalculation makes of redraw, and whether it sorts.
Scanned(scan) == redraw \/ scan
SortNow(scan) == scan /\ ~paused /\ (sortTimeout = 0 \/ tree)

checkRecalculation ==
    /\ pc = "check"
    /\ LET late == elapsed > Delay
           scan == rescan \/ late \/ elapsed < 0
       IN /\ timedOut' = late
          /\ elapsed' = IF scan THEN 0 ELSE elapsed
          /\ sorted' = SortNow(scan)
          /\ sortTimeout' = IF SortNow(scan) THEN 1 ELSE sortTimeout
          /\ force_redraw' \in {force_redraw, force_redraw \/ scan}
          /\ redraw' = Scanned(scan)
          /\ rebuilt' = (redraw' \/ (rebuilt /\ ~scan))
          /\ wanted' = (wanted /\ ~scan)
    /\ rescan' = FALSE
    /\ pc' = "draw"
    /\ UNCHANGED <<ch, terminal, odd, closeTimeout, paused, tree, panelVars, quiet>>

drawPanels ==
    /\ pc = "draw"
    /\ force_redraw' = FALSE
    /\ pc' = "getch"
    /\ UNCHANGED <<ch, terminal, elapsed, odd, timedOut, rescan, redraw, sortTimeout,
                   closeTimeout, paused, tree, panelVars, historyVars>>

-----------------------------------------------------------------------------
(* getch                                                                    *)

\* Mutant: no timeout counts after the first.
CountsToClose_FirstOnly == ch = "ERR" /\ ~timedOut /\ closeTimeout = 0

\* The second timeout in a row that comes too early for a scan.
CountsToClose == ch = "ERR" /\ ~timedOut

\* Mutant: the sort timeout is never decremented.
LessSortTimeout_Never == sortTimeout

LessSortTimeout == larger(sortTimeout - 1, 0)

\* The clock moves on by d, as far as the loop can tell.
Later(d) == elapsed' = smaller(elapsed + d, Delay + 1)

\* getch returns ERR: at once if the terminal is gone, else after Delay; or
\* the key is a click that hits no panel, which the loop turns into ERR.
Timeout ==
    /\ pc = "getch"
    /\ ch' = "ERR"
    /\ sortTimeout' = LessSortTimeout
    /\ closeTimeout' = IF CountsToClose THEN closeTimeout + 1 ELSE 0
    /\ pc' = IF CountsToClose /\ closeTimeout' = CloseLimit THEN "closed" ELSE "check"
    /\ redraw' = FALSE
    /\ quiet' = smaller(quiet + 1, ResetSort)
    /\ \/ terminal = "gone" /\ UNCHANGED <<elapsed, odd>>
       \/ terminal = "open" /\ (\E d \in {Delay, Delay + 1} : Later(d)) /\ UNCHANGED odd
       \/ /\ terminal = "open" /\ odd < MaxOdd
          /\ odd' = odd + 1
          /\ elapsed' = -1 \/ \E t \in 0..Delay : Later(t)
    /\ UNCHANGED <<terminal, timedOut, rescan, force_redraw, paused, tree, panelVars,
                   sorted, rebuilt, wanted>>

KeyPressed ==
    /\ pc = "getch" /\ terminal = "open"
    /\ ch' = "key"
    /\ redraw' = TRUE
    /\ \E t \in 0..Delay : Later(t)
    /\ UNCHANGED <<terminal, odd, timedOut, closeTimeout, allowFocusChange, sorted, rebuilt>>

\* What the bits of a handler's result do: scan is RESCAN, full is REDRAW or
\* RESIZE, sort is REFRESH or RESCAN.
Asks(scan, full) ==
    /\ rescan' = (rescan \/ scan)
    /\ wanted' = (wanted \/ scan)
    /\ force_redraw' = (force_redraw \/ full)

\* The handler does it all (HANDLED), and may change the settings; leaving or
\* entering the tree view is a new order too.
Handled ==
    /\ paused' \in BOOLEAN /\ tree' \in BOOLEAN
    /\ \E sort, scan, full \in BOOLEAN :
          /\ scan => sort
          /\ Asks(scan, full)
          /\ sortTimeout' = IF sort THEN 0 ELSE sortTimeout
          /\ quiet' = IF sort \/ tree' # tree THEN ResetSort ELSE quiet

\* The key is left to Panel_onKey, which moves the selection or does nothing.
ToPanel ==
    /\ \E scan, full \in BOOLEAN : Asks(scan, full)
    /\ sortTimeout' = ResetSort
    /\ quiet' = 0
    /\ UNCHANGED <<paused, tree>>

\* Only the first panel of a page, when it has the focus, replaces the others.
NewPage == Page(IF Len(panels) > 1 THEN 3 - panels[2].id ELSE 1)

\* A key for the handler of the focused panel.  It may change the items of the
\* panels that are neither the first nor the last.
KeyHandled ==
    /\ KeyPressed
    /\ Handled
    /\ panels' \in {panels} \cup (IF panelFocus = <<0, 1>> THEN NewPage ELSE {}) \cup
          {[panels EXCEPT ![i].items = n] : i \in 2..(Len(panels) - 1), n \in 0..1}
    /\ pc' = "check"
    /\ UNCHANGED <<focus, panelFocus>>

KeyToPanel ==
    /\ KeyPressed
    /\ ToPanel
    /\ pc' = "check"
    /\ UNCHANGED <<panels, focus, panelFocus>>

\* Mutant: the panel that has the focus is not looked up again after a step.
FocusOn_KeepsPanel(i) == focus' = i /\ panelFocus' = panelFocus

FocusOn(i) == focus' = i /\ panelFocus' = <<panels[i].id, i>>

\* Left and right, which the loop interprets itself, skip empty panels.
FocusLeft(i) ==
    /\ i \in 1..larger(focus - 1, 1)
    /\ i = 1 \/ panels[i].items > 0
    /\ \A j \in (i + 1)..(focus - 1) : panels[j].items = 0

FocusRight(i) ==
    /\ i \in smaller(focus + 1, Len(panels))..Len(panels)
    /\ i = Len(panels) \/ panels[i].items > 0
    /\ \A j \in (focus + 1)..(i - 1) : panels[j].items = 0

FocusKey ==
    /\ KeyPressed
    /\ Len(panels) >= 2
    /\ IF allowFocusChange
       THEN \E i \in DOMAIN panels : (FocusLeft(i) \/ FocusRight(i)) /\ FocusOn(i)
       ELSE UNCHANGED <<focus, panelFocus>>
    /\ \E scan, full \in BOOLEAN : Asks(scan, full)
    /\ pc' = "check"
    /\ UNCHANGED <<sortTimeout, paused, tree, panels, quiet>>

\* A click gives a panel the focus and selects a line of it, at which the first
\* panel of a page replaces the others; then the panel gets the key.
Click ==
    /\ KeyPressed
    /\ \E i \in DOMAIN panels :
          /\ panelFocus = <<panels[i].id, i>> \/ allowFocusChange
          /\ FocusOn(i)
          /\ panels' \in {panels} \cup (IF i = 1 THEN NewPage ELSE {})
    /\ Handled \/ ToPanel
    /\ pc' = "check"

Quit ==
    /\ KeyPressed
    /\ \E scan, full \in BOOLEAN : Asks(scan, full)
    /\ pc' = "quit"
    /\ UNCHANGED <<sortTimeout, paused, tree, panels, focus, panelFocus, quiet>>

\* The terminal goes away (the window is closed): no key comes any more.
Hangup ==
    /\ terminal = "open" /\ terminal' = "gone"
    /\ UNCHANGED <<pc, ch, elapsed, odd, flagVars, paused, tree, panelVars, historyVars>>

Left == pc \in {"quit", "closed"} /\ UNCHANGED vars

Pass == checkRecalculation \/ drawPanels \/ Timeout
Key == KeyHandled \/ KeyToPanel \/ FocusKey \/ Click \/ Quit

Next == Pass \/ Key \/ Hangup \/ Left

Spec == Init /\ [][Next]_vars

\* The loop goes on, and getch returns.
FairSpec == Spec /\ WF_vars(Pass)

-----------------------------------------------------------------------------
(* Properties.                                                              *)

TypeOK ==
    /\ pc \in {"check", "draw", "getch", "quit", "closed"}
    /\ ch \in {"ERR", "key"} /\ terminal \in {"open", "gone"}
    /\ elapsed \in -1..(Delay + 1) /\ odd \in 0..MaxOdd
    /\ timedOut \in BOOLEAN /\ rescan \in BOOLEAN /\ redraw \in BOOLEAN /\ force_redraw \in BOOLEAN
    /\ sortTimeout \in 0..larger(ResetSort, 1) /\ closeTimeout \in 0..CloseLimit
    /\ paused \in BOOLEAN /\ tree \in BOOLEAN
    /\ focus \in Nat
    /\ sorted \in BOOLEAN /\ rebuilt \in BOOLEAN /\ wanted \in BOOLEAN /\ quiet \in 0..ResetSort

\* The loop ends by itself only when the terminal is gone: timeouts as long as
\* the delay to the tick do not add up, and it takes CloseLimit / 2 set-backs of
\* the clock, or clicks into the header, to make it end on an open terminal.
ClosesOnlyIfGone == pc = "closed" => terminal = "gone" \/ 2 * odd + 1 >= CloseLimit

\* When htop waits for a key, the rows of the main panel are those of the last
\* scan, and every scan that a handler asked for was made.
ListCurrent == pc = "getch" => rebuilt /\ ~wanted

\* In list view the order changes under the user's hands only when a command
\* asked for it, or ResetSort timeouts after the last browsing key.
NoSortWhileBrowsing == pc = "draw" /\ sorted /\ ~tree => quiet = ResetSort

\* The panel that receives the keys is the one at the focus index, and exists:
\* a page that is replaced never has the focus.
FocusLive ==
    /\ TypeOK
    /\ focus \in DOMAIN panels /\ panelFocus = <<panels[focus].id, focus>>

\* If the terminal is gone the loop ends.
ClosesIfGone == terminal = "gone" ~> pc \in {"quit", "closed"}

\* The count of early timeouts tells a terminal that is gone from one that is
\* merely silent: it ends the loop on the one and not on the other.
ClosesWithTerminal == []ClosesOnlyIfGone /\ ClosesIfGone

\* As long as no key is pressed, the list is sorted again and again.
SortsWhenIdle ==
    <>[](ch = "ERR" /\ pc # "closed" /\ terminal = "open" /\ ~paused) => []<>sorted

(****************************************************************************)
(* The list is sorted neither under the hands of a user who browses it nor  *)
(* too late for one who only looks (ScreenManager.c:91-126, 221-231).       *)
(****************************************************************************)
SortedInTime == []NoSortWhileBrowsing /\ SortsWhenIdle
=============================================================================
