------------------------ MODULE ScreenManagerProofs ------------------------
(****************************************************************************)
(* Theorems about the event loop, for every delay, every limit, any number  *)
(* of panels and of odd timeouts.                                           *)
(****************************************************************************)
EXTENDS ScreenManager, TLAPS

PanelItem == [id : Int, items : 0..1]

\* The panels of a page, of which the first stays when the others are replaced.
PageInv ==
    /\ panels \in Seq(PanelItem) /\ Len(panels) >= 1
    /\ panels[1].id = 0
    /\ focus \in 1..Len(panels) /\ panelFocus = <<panels[focus].id, focus>>

\* A handler's wish for a scan is kept in rescan until the next pass, which
\* comes before the next timeout.
ListInv ==
    /\ rebuilt
    /\ wanted => pc \in {"check", "quit"} /\ rescan
    /\ ch = "ERR" => ~rescan
    /\ pc \in {"draw", "getch"} => ~rescan

\* What is left to wait and what was waited add up to ResetSort.
SortInv ==
    /\ ~tree => sortTimeout + quiet >= ResetSort
    /\ NoSortWhileBrowsing

\* How much closer to the end the loop may come with elapsed time e before a
\* pass finds that it is late: a second timeout in a row is late.
Room(e) == IF e > Delay THEN 1 ELSE IF e > 0 THEN 0 ELSE -1

\* On an open terminal only odd timeouts make the count grow, by two each.
CloseInv ==
    /\ pc \in {"check", "draw", "getch"} => closeTimeout < CloseLimit
    /\ pc \in {"draw", "getch"} => elapsed \in 0..Delay
    /\ (terminal = "open" /\ ch = "ERR" /\ pc = "check") =>
          closeTimeout <= 2 * odd + Room(elapsed)
    /\ (terminal = "open" /\ ch = "ERR" /\ pc \in {"draw", "getch"} /\ ~timedOut) =>
          closeTimeout <= 2 * odd + Room(elapsed)
    /\ ClosesOnlyIfGone

LoopInv == TypeOK /\ PageInv /\ ListInv /\ SortInv /\ CloseInv

-----------------------------------------------------------------------------
(* Pages.                                                                   *)

LEMMA PageType ==
    ASSUME NEW id \in Int, NEW p \in Page(id)
    PROVE  p \in Seq(PanelItem) /\ Len(p) >= 1 /\ p[1].id = 0
<1>1. PICK k \in 1..MaxPanels : p \in [1..k -> [id : {0, id}, items : 0..1]]
  BY DEF Page
<1>2. p \in [1..k -> PanelItem]
  BY <1>1 DEF PanelItem
<1>3. p \in Seq(PanelItem) /\ Len(p) = k /\ 1 \in DOMAIN p
  BY <1>1, <1>2, BoundAssumption
<1>4. p[1].id = 0
  BY <1>3 DEF Page
<1> QED
  BY <1>1, <1>3, <1>4, BoundAssumption

LEMMA NewPageType ==
    ASSUME PageInv, NEW p \in NewPage
    PROVE  p \in Seq(PanelItem) /\ Len(p) >= 1 /\ p[1].id = 0
<1>1. (IF Len(panels) > 1 THEN 3 - panels[2].id ELSE 1) \in Int
  <2>1. CASE Len(panels) > 1
    <3>1. panels[2] \in PanelItem
      BY <2>1 DEF PageInv
    <3>2. panels[2].id \in Int
      BY <3>1 DEF PanelItem
    <3> QED
      BY <2>1, <3>2
  <2> QED
    BY <2>1
<1> QED
  BY <1>1, PageType DEF NewPage

-----------------------------------------------------------------------------
(* Initial states.                                                          *)

LEMMA InitLoopInv == Init => LoopInv
<1> SUFFICES ASSUME Init PROVE LoopInv
  OBVIOUS
<1> USE BoundAssumption
<1>1. PageInv
  <2>1. panels \in Seq(PanelItem) /\ Len(panels) >= 1 /\ panels[1].id = 0
    BY PageType DEF Init
  <2> QED
    BY <2>1 DEF Init, PageInv
<1>2. /\ pc \in {"check", "draw", "getch", "quit", "closed"}
      /\ ch \in {"ERR", "key"} /\ terminal \in {"open", "gone"} /\ focus \in Nat
      /\ timedOut \in BOOLEAN /\ rescan \in BOOLEAN /\ redraw \in BOOLEAN /\ force_redraw \in BOOLEAN
      /\ paused \in BOOLEAN /\ tree \in BOOLEAN
      /\ sorted \in BOOLEAN /\ rebuilt \in BOOLEAN /\ wanted \in BOOLEAN
  BY DEF Init
<1>3. /\ elapsed \in -1..(Delay + 1) /\ odd \in 0..MaxOdd
      /\ sortTimeout \in 0..larger(ResetSort, 1) /\ closeTimeout \in 0..CloseLimit
      /\ quiet \in 0..ResetSort
  BY DEF Init, larger
<1>4. ListInv /\ SortInv /\ CloseInv
  BY DEF Init, ListInv, SortInv, CloseInv, NoSortWhileBrowsing, ClosesOnlyIfGone, Room
<1> QED
  BY <1>1, <1>2, <1>3, <1>4 DEF LoopInv, TypeOK

-----------------------------------------------------------------------------
(* Types.                                                                   *)

LEMMA TypeStep ==
    ASSUME TypeOK, PageInv', CloseInv, [Next]_vars
    PROVE  TypeOK'
<1> USE BoundAssumption DEF TypeOK, flagVars, panelVars, historyVars, larger, smaller
<1>0. focus' \in Nat
  BY DEF PageInv
<1>1. CASE checkRecalculation
  <2> DEFINE late == elapsed > Delay
             scan == rescan \/ late \/ elapsed < 0
  <2>1. /\ rescan' = FALSE /\ timedOut' = late
        /\ sorted' = (scan /\ ~paused /\ (sortTimeout = 0 \/ tree))
        /\ redraw' = (redraw \/ scan) /\ rebuilt' = (redraw' \/ (rebuilt /\ ~scan))
        /\ wanted' = (wanted /\ ~scan)
        /\ force_redraw' \in {force_redraw, force_redraw \/ scan}
    BY <1>1 DEF checkRecalculation, SortNow, Scanned
  <2>2. /\ rescan' \in BOOLEAN /\ timedOut' \in BOOLEAN /\ sorted' \in BOOLEAN
        /\ redraw' \in BOOLEAN /\ rebuilt' \in BOOLEAN /\ wanted' \in BOOLEAN
        /\ force_redraw' \in BOOLEAN
    <3>1. rescan' \in BOOLEAN /\ timedOut' \in BOOLEAN /\ sorted' \in BOOLEAN
      <4> HIDE DEF late, scan
      <4>1. rescan' \in BOOLEAN /\ sorted' \in BOOLEAN
        BY <2>1
      <4>2. timedOut' \in BOOLEAN
        BY <2>1 DEF late
      <4> QED
        BY <4>1, <4>2
    <3>2. redraw' \in BOOLEAN /\ rebuilt' \in BOOLEAN /\ wanted' \in BOOLEAN
      BY <2>1
    <3>3. force_redraw' \in BOOLEAN
      <4> HIDE DEF scan
      <4>1. CASE force_redraw' = force_redraw
        BY <4>1
      <4>2. CASE force_redraw' = (force_redraw \/ scan)
        BY <4>2
      <4> QED
        BY <2>1, <4>1, <4>2
    <3> QED
      BY <3>1, <3>2, <3>3
  <2>3. elapsed' \in -1..(Delay + 1) /\ sortTimeout' \in 0..larger(ResetSort, 1)
    BY <1>1 DEF checkRecalculation
  <2> QED
    BY <1>0, <1>1, <2>1, <2>2, <2>3 DEF checkRecalculation
<1>2. CASE drawPanels
  BY <1>0, <1>2 DEF drawPanels
<1>3. CASE Timeout
  <2>1. closeTimeout' \in 0..CloseLimit
    <3>1. closeTimeout < CloseLimit
      BY <1>3 DEF Timeout, CloseInv
    <3>2. closeTimeout' = closeTimeout + 1 \/ closeTimeout' = 0
      BY <1>3 DEF Timeout
    <3> QED
      BY <3>1, <3>2
  <2>2. odd' \in 0..MaxOdd
    BY <1>3 DEF Timeout
  <2>3. elapsed' \in -1..(Delay + 1)
    <3>1. elapsed' \in {elapsed, -1} \/ \E d \in 0..(Delay + 1) : elapsed' = smaller(elapsed + d, Delay + 1)
      BY <1>3 DEF Timeout, Later
    <3> QED
      BY <3>1
  <2>4. sortTimeout' \in 0..larger(ResetSort, 1) /\ quiet' \in 0..ResetSort
    <3>1. /\ sortTimeout' = larger(sortTimeout - 1, 0)
          /\ quiet' = smaller(quiet + 1, ResetSort)
      BY <1>3 DEF Timeout, LessSortTimeout
    <3> QED
      BY <3>1
  <2>5. /\ pc' \in {"check", "closed"} /\ ch' = "ERR" /\ redraw' = FALSE
        /\ UNCHANGED <<terminal, timedOut, rescan, force_redraw, paused, tree, sorted, rebuilt, wanted>>
    BY <1>3 DEF Timeout
  <2> QED
    BY <1>0, <2>1, <2>2, <2>3, <2>4, <2>5
<1>4. ASSUME KeyPressed
      PROVE  elapsed' \in -1..(Delay + 1) /\ ch' \in {"ERR", "key"} /\ redraw' \in BOOLEAN
  BY <1>4 DEF KeyPressed, Later
<1>5. ASSUME Handled \/ ToPanel
      PROVE  /\ rescan' \in BOOLEAN /\ wanted' \in BOOLEAN /\ force_redraw' \in BOOLEAN
             /\ sortTimeout' \in 0..larger(ResetSort, 1) /\ quiet' \in 0..ResetSort
             /\ paused' \in BOOLEAN /\ tree' \in BOOLEAN
  BY <1>5 DEF Handled, ToPanel, Asks
<1>6. CASE KeyHandled
  BY <1>0, <1>4, <1>5, <1>6 DEF KeyHandled, KeyPressed
<1>7. CASE KeyToPanel
  BY <1>0, <1>4, <1>5, <1>7 DEF KeyToPanel, KeyPressed
<1>8. CASE FocusKey
  BY <1>0, <1>4, <1>8 DEF FocusKey, KeyPressed, Asks
<1>9. CASE Click
  BY <1>0, <1>4, <1>5, <1>9 DEF Click, KeyPressed
<1>10. CASE Quit
  BY <1>0, <1>4, <1>10 DEF Quit, KeyPressed, Asks
<1>11. CASE Hangup
  BY <1>11 DEF Hangup
<1>12. CASE Left \/ UNCHANGED vars
  BY <1>12 DEF Left, vars
<1> QED
  BY <1>1, <1>2, <1>3, <1>6, <1>7, <1>8, <1>9, <1>10, <1>11, <1>12 DEF Next, Pass, Key

-----------------------------------------------------------------------------
(* The panels and the focus.                                                *)

\* The panels with the focus on one of them.
FocusedOn(i) ==
    i \in 1..Len(panels) /\ focus' = i /\ panelFocus' = <<panels[i].id, i>>

LEMMA SamePanels ==
    ASSUME PageInv, panels' = panels, NEW i, FocusedOn(i)
    PROVE  PageInv'
BY DEF PageInv, FocusedOn

LEMMA ReplacedPanels ==
    ASSUME PageInv, panels' \in NewPage, FocusedOn(1)
    PROVE  PageInv'
<1>1. panels' \in Seq(PanelItem) /\ Len(panels') >= 1 /\ panels'[1].id = 0
  BY NewPageType
<1> QED
  BY <1>1 DEF PageInv, FocusedOn

LEMMA EditedPanels ==
    ASSUME PageInv, NEW i \in 2..(Len(panels) - 1), NEW k \in 0..1,
           panels' = [panels EXCEPT ![i].items = k], UNCHANGED <<focus, panelFocus>>
    PROVE  PageInv'
<1>1. i \in 1..Len(panels) /\ panels[i] \in PanelItem
  BY DEF PageInv
<1>2. [panels[i] EXCEPT !.items = k] \in PanelItem /\ [panels[i] EXCEPT !.items = k].id = panels[i].id
  BY <1>1 DEF PanelItem
<1>3. /\ panels' \in Seq(PanelItem) /\ Len(panels') = Len(panels)
      /\ \A j \in 1..Len(panels) : panels'[j].id = panels[j].id
  BY <1>1, <1>2 DEF PageInv
<1> QED
  BY <1>3 DEF PageInv

LEMMA PageStep ==
    ASSUME PageInv, [Next]_vars
    PROVE  PageInv'
<1>1. CASE checkRecalculation \/ drawPanels \/ Timeout \/ KeyToPanel \/ Quit \/ Hangup
           \/ Left \/ UNCHANGED vars
  <2>1. UNCHANGED <<panels, focus, panelFocus>>
    BY <1>1 DEF checkRecalculation, drawPanels, Timeout, KeyToPanel, Quit, Hangup, Left, vars, panelVars
  <2> QED
    BY <2>1 DEF PageInv
<1>2. CASE KeyHandled
  <2>1. UNCHANGED <<focus, panelFocus>>
    BY <1>2 DEF KeyHandled
  <2>2. CASE panels' = panels
    BY <2>1, <2>2 DEF PageInv
  <2>3. CASE panelFocus = <<0, 1>> /\ panels' \in NewPage
    <3>1. FocusedOn(1)
      BY <2>1, <2>3 DEF FocusedOn, PageInv
    <3> QED
      BY <2>3, <3>1, ReplacedPanels
  <2>4. CASE \E i \in 2..(Len(panels) - 1), k \in 0..1 : panels' = [panels EXCEPT ![i].items = k]
    BY <2>1, <2>4, EditedPanels
  <2> QED
    BY <1>2, <2>2, <2>3, <2>4 DEF KeyHandled
<1>3. CASE FocusKey
  <2>1. panels' = panels
    BY <1>3 DEF FocusKey
  <2>2. CASE UNCHANGED <<focus, panelFocus>>
    BY <2>1, <2>2 DEF PageInv
  <2>3. CASE \E i \in DOMAIN panels : FocusOn(i)
    BY <2>1, <2>3, SamePanels DEF FocusOn, FocusedOn, PageInv
  <2> QED
    BY <1>3, <2>2, <2>3 DEF FocusKey
<1>4. CASE Click
  <2>1. PICK i \in DOMAIN panels :
           FocusOn(i) /\ panels' \in {panels} \cup (IF i = 1 THEN NewPage ELSE {})
    BY <1>4 DEF Click
  <2>2. FocusedOn(i)
    BY <2>1 DEF FocusOn, FocusedOn, PageInv
  <2> QED
    BY <2>1, <2>2, SamePanels, ReplacedPanels
<1> QED
  BY <1>1, <1>2, <1>3, <1>4 DEF Next, Pass, Key

-----------------------------------------------------------------------------
(* The three kinds of step that the invariants below tell apart.            *)

\* A key sets ch and comes from getch; what a handler asks for is kept.
LEMMA KeyStep ==
    ASSUME TypeOK, Key
    PROVE  /\ pc = "getch" /\ pc' \in {"check", "quit"} /\ ch' = "key" /\ terminal = "open"
           /\ UNCHANGED <<terminal, odd, timedOut, closeTimeout, sorted, rebuilt>>
           /\ \E scan \in BOOLEAN : rescan' = (rescan \/ scan) /\ wanted' = (wanted \/ scan)
           /\ \/ UNCHANGED <<sortTimeout, quiet, tree>>
              \/ sortTimeout' = ResetSort /\ quiet' = 0
              \/ quiet' = ResetSort /\ sortTimeout' \in Nat
<1>1. KeyPressed /\ pc' \in {"check", "quit"}
  BY DEF Key, KeyHandled, KeyToPanel, FocusKey, Click, Quit
<1>2. \/ Handled
      \/ ToPanel
      \/ (\E scan, full \in BOOLEAN : Asks(scan, full)) /\ UNCHANGED <<sortTimeout, quiet, tree>>
  BY DEF Key, KeyHandled, KeyToPanel, FocusKey, Click, Quit
<1>3. \E scan \in BOOLEAN : rescan' = (rescan \/ scan) /\ wanted' = (wanted \/ scan)
  BY <1>2 DEF Handled, ToPanel, Asks
<1>4. \/ UNCHANGED <<sortTimeout, quiet, tree>>
      \/ sortTimeout' = ResetSort /\ quiet' = 0
      \/ quiet' = ResetSort /\ sortTimeout' \in Nat
  <2>1. CASE Handled
    <3>1. PICK sort \in BOOLEAN : /\ sortTimeout' = IF sort THEN 0 ELSE sortTimeout
                                  /\ quiet' = IF sort \/ tree' # tree THEN ResetSort ELSE quiet
      BY <2>1 DEF Handled
    <3>2. sortTimeout \in Nat
      BY BoundAssumption DEF TypeOK, larger
    <3> QED
      BY <3>1, <3>2
  <2> QED
    BY <1>2, <2>1 DEF ToPanel
<1> QED
  BY <1>1, <1>3, <1>4 DEF KeyPressed

\* Steps that change nothing of what the invariants below are about.
LEMMA QuietStep ==
    ASSUME drawPanels \/ Hangup \/ Left \/ UNCHANGED vars
    PROVE  /\ pc' = pc \/ (pc = "draw" /\ pc' = "getch")
           /\ terminal' \in {terminal, "gone"}
           /\ UNCHANGED <<ch, elapsed, odd, timedOut, rescan, sortTimeout, closeTimeout, tree,
                          sorted, rebuilt, wanted, quiet>>
<1>1. CASE drawPanels
  BY <1>1 DEF drawPanels, historyVars
<1>2. CASE ~drawPanels
  BY <1>2 DEF Hangup, Left, vars, flagVars, historyVars
<1> QED
  BY <1>1, <1>2

-----------------------------------------------------------------------------
(* The list that the user sees.                                             *)

LEMMA ListStep ==
    ASSUME TypeOK, ListInv, [Next]_vars
    PROVE  ListInv'
<1> USE DEF ListInv
<1>1. CASE checkRecalculation
  <2>1. /\ pc' = "draw" /\ rescan' = FALSE
        /\ rebuilt' = (redraw' \/ (rebuilt /\ ~(rescan \/ elapsed > Delay \/ elapsed < 0)))
        /\ redraw' = (redraw \/ (rescan \/ elapsed > Delay \/ elapsed < 0))
        /\ wanted' = (wanted /\ ~(rescan \/ elapsed > Delay \/ elapsed < 0))
    BY <1>1 DEF checkRecalculation, Scanned
  <2> QED
    BY <2>1
<1>2. CASE Timeout
  BY <1>2 DEF Timeout
<1>3. CASE Key
  BY <1>3, KeyStep
<1>4. CASE drawPanels \/ Hangup \/ Left \/ UNCHANGED vars
  <2>1. /\ pc' = pc \/ (pc = "draw" /\ pc' = "getch")
        /\ UNCHANGED <<ch, rescan, rebuilt, wanted>>
    BY <1>4, QuietStep
  <2> QED
    BY <2>1
<1> QED
  BY <1>1, <1>2, <1>3, <1>4 DEF Next, Pass

-----------------------------------------------------------------------------
(* Sorting.                                                                 *)

LEMMA SortStep ==
    ASSUME TypeOK, SortInv, [Next]_vars
    PROVE  SortInv'
<1>0. sortTimeout \in Nat /\ quiet \in 0..ResetSort /\ ResetSort \in Nat \ {0}
  BY BoundAssumption DEF TypeOK, larger
<1> USE DEF SortInv, NoSortWhileBrowsing
<1>1. CASE checkRecalculation
  <2>1. PICK now \in BOOLEAN :
           /\ now => sortTimeout = 0 \/ tree
           /\ sorted' = now /\ sortTimeout' = IF now THEN 1 ELSE sortTimeout
           /\ UNCHANGED <<tree, quiet>>
    <3> DEFINE now == SortNow(rescan \/ elapsed > Delay \/ elapsed < 0)
    <3>1. now \in BOOLEAN /\ (now => sortTimeout = 0 \/ tree)
      BY DEF SortNow
    <3>2. sorted' = now /\ sortTimeout' = IF now THEN 1 ELSE sortTimeout
      BY <1>1 DEF checkRecalculation
    <3> HIDE DEF now
    <3> QED
      BY <1>1, <3>1, <3>2 DEF checkRecalculation
  <2> QED
    BY <1>0, <2>1
<1>2. CASE Timeout
  <2>1. /\ pc' # "draw" /\ tree' = tree
        /\ sortTimeout' = larger(sortTimeout - 1, 0) /\ quiet' = smaller(quiet + 1, ResetSort)
    BY <1>2 DEF Timeout, LessSortTimeout
  <2> QED
    BY <1>0, <2>1 DEF larger, smaller
<1>3. CASE Key
  <2>1. pc' # "draw"
    BY <1>3, KeyStep
  <2>2. \/ UNCHANGED <<sortTimeout, quiet, tree>>
        \/ sortTimeout' = ResetSort /\ quiet' \in Nat
        \/ quiet' = ResetSort /\ sortTimeout' \in Nat
    BY <1>3, KeyStep
  <2> QED
    BY <1>0, <2>1, <2>2
<1>4. CASE drawPanels \/ Hangup \/ Left \/ UNCHANGED vars
  BY <1>4, QuietStep
<1> QED
  BY <1>1, <1>2, <1>3, <1>4 DEF Next, Pass

-----------------------------------------------------------------------------
(* The end of the loop.                                                     *)

\* A pass that is not late leaves the time as it is, or sets it to zero.
LEMMA PassClock ==
    ASSUME TypeOK, ListInv, checkRecalculation
    PROVE  /\ elapsed' \in 0..Delay
           /\ ~timedOut' => elapsed <= Delay
           /\ ch = "ERR" /\ elapsed \in 0..Delay => elapsed' = elapsed
           /\ UNCHANGED <<ch, terminal, odd, closeTimeout>>
<1> DEFINE late == elapsed > Delay
           scan == rescan \/ late \/ elapsed < 0
<1>1. /\ timedOut' = late /\ elapsed' = IF scan THEN 0 ELSE elapsed
      /\ pc = "check" /\ UNCHANGED <<ch, terminal, odd, closeTimeout>>
  BY DEF checkRecalculation
<1>2. elapsed \in -1..(Delay + 1) /\ Delay \in Nat
  BY BoundAssumption DEF TypeOK
<1>3. ch = "ERR" => ~rescan
  BY DEF ListInv
<1>4. elapsed' \in 0..Delay /\ (ch = "ERR" /\ elapsed \in 0..Delay => elapsed' = elapsed)
  <2>1. elapsed' = IF scan THEN 0 ELSE elapsed
    BY <1>1
  <2>2. CASE scan
    BY <1>2, <1>3, <2>1, <2>2
  <2>3. CASE ~scan
    BY <1>2, <2>1, <2>3
  <2> QED
    BY <2>2, <2>3
<1>5. ~timedOut' => elapsed <= Delay
  <2>1. ~late => elapsed <= Delay
    BY <1>2
  <2>2. timedOut' = late
    BY <1>1
  <2> HIDE DEF late
  <2> QED
    BY <2>1, <2>2
<1> QED
  BY <1>1, <1>4, <1>5

\* What a timeout does to the clock: Delay or more on an open terminal, or it
\* is one of the odd ones.
LEMMA TimeoutClock ==
    ASSUME TypeOK, CloseInv, Timeout
    PROVE  /\ elapsed \in 0..Delay /\ elapsed' \in -1..(Delay + 1)
           /\ terminal = "open" =>
                 \/ odd' = odd /\ elapsed' >= Delay /\ (elapsed > 0 => elapsed' = Delay + 1)
                 \/ odd' = odd + 1 /\ (elapsed' = -1 \/ elapsed' >= elapsed)
<1>1. elapsed \in 0..Delay /\ Delay \in Nat \ {0}
  BY BoundAssumption DEF Timeout, CloseInv
<1>2. \/ terminal = "gone" /\ UNCHANGED <<elapsed, odd>>
      \/ /\ terminal = "open" /\ odd' = odd
         /\ \E d \in {Delay, Delay + 1} : elapsed' = smaller(elapsed + d, Delay + 1)
      \/ /\ terminal = "open" /\ odd' = odd + 1
         /\ elapsed' = -1 \/ \E t \in 0..Delay : elapsed' = smaller(elapsed + t, Delay + 1)
  BY DEF Timeout, Later
<1> QED
  BY <1>1, <1>2 DEF smaller

LEMMA CloseStep ==
    ASSUME TypeOK, ListInv, CloseInv, [Next]_vars
    PROVE  CloseInv'
<1>0. /\ Delay \in Nat \ {0} /\ CloseLimit \in Nat \ {0} /\ odd \in Nat
      /\ closeTimeout \in 0..CloseLimit /\ elapsed \in -1..(Delay + 1)
      /\ pc \in {"check", "draw", "getch", "quit", "closed"}
  BY BoundAssumption DEF TypeOK
<1> USE DEF ClosesOnlyIfGone, Room
<1>1. CASE checkRecalculation
  <2>1. /\ elapsed' \in 0..Delay
        /\ ~timedOut' => elapsed <= Delay
        /\ ch = "ERR" /\ elapsed \in 0..Delay => elapsed' = elapsed
        /\ UNCHANGED <<ch, terminal, odd, closeTimeout>>
    BY <1>1, PassClock
  <2>2. pc = "check" /\ pc' = "draw"
    BY <1>1 DEF checkRecalculation
  <2>3. ASSUME terminal' = "open", ch' = "ERR", ~timedOut'
        PROVE  closeTimeout' <= 2 * odd' + Room(elapsed')
    <3>1. closeTimeout <= 2 * odd + Room(elapsed) /\ elapsed <= Delay
      BY <2>1, <2>2, <2>3 DEF CloseInv
    <3>2. elapsed = -1 \/ elapsed' = elapsed
      BY <1>0, <2>1, <2>3, <3>1
    <3> QED
      BY <1>0, <2>1, <3>1, <3>2
  <2> QED
    BY <1>0, <2>1, <2>2, <2>3 DEF CloseInv
<1>2. CASE Timeout
  <2>1. /\ elapsed \in 0..Delay /\ elapsed' \in -1..(Delay + 1)
        /\ terminal = "open" =>
              \/ odd' = odd /\ elapsed' >= Delay /\ (elapsed > 0 => elapsed' = Delay + 1)
              \/ odd' = odd + 1 /\ (elapsed' = -1 \/ elapsed' >= elapsed)
    BY <1>2, TimeoutClock
  <2>2. /\ pc = "getch" /\ ch' = "ERR" /\ terminal' = terminal
        /\ closeTimeout' = IF CountsToClose THEN closeTimeout + 1 ELSE 0
        /\ pc' = IF CountsToClose /\ closeTimeout' = CloseLimit THEN "closed" ELSE "check"
    BY <1>2 DEF Timeout
  <2>3. closeTimeout < CloseLimit
    BY <2>2 DEF CloseInv
  <2>4. terminal = "open" => closeTimeout' <= 2 * odd' + Room(elapsed')
    <3>1. CASE CountsToClose
      <4>1. terminal = "open" => closeTimeout <= 2 * odd + Room(elapsed)
        BY <2>2, <3>1 DEF CloseInv, CountsToClose
      <4> QED
        BY <1>0, <2>1, <2>2, <3>1, <4>1
    <3>2. CASE ~CountsToClose
      BY <1>0, <2>1, <2>2, <3>2
    <3> QED
      BY <3>1, <3>2
  <2>5. pc' = "closed" => terminal' = "gone" \/ 2 * odd' + 1 >= CloseLimit
    <3>1. ASSUME pc' = "closed", terminal = "open"
          PROVE  2 * odd' + 1 >= CloseLimit
      <4>1. closeTimeout' = CloseLimit
        BY <2>2, <3>1
      <4> QED
        BY <1>0, <2>1, <2>4, <3>1, <4>1
    <3>2. terminal \in {"open", "gone"}
      BY DEF TypeOK
    <3> QED
      BY <2>2, <3>1, <3>2
  <2>6. pc' # "closed" => closeTimeout' < CloseLimit
    BY <1>0, <2>2, <2>3
  <2> QED
    BY <2>2, <2>4, <2>5, <2>6 DEF CloseInv
<1>3. CASE Key
  <2>1. /\ pc = "getch" /\ pc' \in {"check", "quit"} /\ ch' = "key" /\ closeTimeout' = closeTimeout
    BY <1>3, KeyStep
  <2> QED
    BY <2>1 DEF CloseInv
<1>4. CASE drawPanels \/ Hangup \/ Left \/ UNCHANGED vars
  <2>1. /\ pc' = pc \/ (pc = "draw" /\ pc' = "getch")
        /\ terminal' \in {terminal, "gone"}
        /\ UNCHANGED <<ch, elapsed, odd, timedOut, closeTimeout>>
    BY <1>4, QuietStep
  <2> QED
    BY <2>1 DEF CloseInv
<1> QED
  BY <1>1, <1>2, <1>3, <1>4 DEF Next, Pass

-----------------------------------------------------------------------------
LEMMA LoopInvariant == Spec => []LoopInv
<1>1. Init => LoopInv
  BY InitLoopInv
<1>2. LoopInv /\ [Next]_vars => LoopInv'
  <2> SUFFICES ASSUME LoopInv, [Next]_vars PROVE LoopInv'
    OBVIOUS
  <2>1. PageInv'
    BY PageStep DEF LoopInv
  <2>2. TypeOK'
    BY <2>1, TypeStep DEF LoopInv
  <2> QED
    BY <2>1, <2>2, ListStep, SortStep, CloseStep DEF LoopInv
<1> QED
  BY <1>1, <1>2, PTL DEF Spec

\* When htop waits for a key, the main panel's rows are those of the last scan
\* and no scan that a handler asked for is owed.
THEOREM ListIsCurrent == Spec => []ListCurrent
<1>1. LoopInv => ListCurrent
  BY DEF LoopInv, ListInv, ListCurrent
<1> QED
  BY <1>1, LoopInvariant, PTL

\* The panel that gets the keys is the one at the focus index, whatever page
\* replaced the panels and however often the user moved the focus.
THEOREM FocusIsLive == Spec => []FocusLive
<1>1. LoopInv => FocusLive
  BY DEF LoopInv, PageInv, FocusLive
<1> QED
  BY <1>1, LoopInvariant, PTL

\* The order of the list view does not change under the hands of a user who
\* browses: the safety half of SortedInTime.
THEOREM BrowsingUndisturbed == Spec => []NoSortWhileBrowsing
<1>1. LoopInv => NoSortWhileBrowsing
  BY DEF LoopInv, SortInv
<1> QED
  BY <1>1, LoopInvariant, PTL

\* The loop ends by itself on an open terminal only after CloseLimit / 2 odd
\* timeouts: the safety half of ClosesWithTerminal.
THEOREM OpenTerminalServed == Spec => []ClosesOnlyIfGone
<1>1. LoopInv => ClosesOnlyIfGone
  BY DEF LoopInv, CloseInv
<1> QED
  BY <1>1, LoopInvariant, PTL
=============================================================================
