----------------------------- MODULE MainPanel -----------------------------
(****************************************************************************)
(* The commands of the main panel that act on processes (MainPanel.c,       *)
(* Action.c): tagging, following, search by pid, and the menus of           *)
(* Action_pickFromVector, under which the event loop goes on scanning.      *)
(* ProcessList models a scan step by step; here a pass is one step.         *)
(****************************************************************************)
EXTENDS Integers, Sequences, FiniteSets

CONSTANTS
    Pid,          \* process ids
    Parent,       \* the parent's pid; it need not be in Pid, and may be the pid itself
    SearchLimit,  \* what pidSearch may not exceed (10000000 in the code)
    MaxTyped      \* bound: the largest number typed

ASSUME PidAssumption ==
    /\ Pid \subseteq Nat /\ IsFiniteSet(Pid)
    /\ Parent \in [Pid -> Nat]
    /\ SearchLimit \in Nat /\ MaxTyped \in Nat

\* The limit is above every pid (on Linux they are at most 4194304).
ASSUME SearchAssumption == \A p \in Pid : p <= SearchLimit

VARIABLES
    alive,        \* the kernel's processes
    listed,       \* the processes that have a Process object
    tagged,       \* those whose tag is set
    hidden,       \* those that a filter rejects
    order,        \* the rows of the main panel: Seq(Pid)
    selected,     \* index of the selected row, from 0
    following,    \* the followed pid or -1
    pidSearch,    \* MainPanel's pidSearch
    typed,        \* the number typed since the last key that resets the search (history)
    pc,           \* "check" (the pass is due), "getch" or "tagging" (tagAllChildren runs)
    calls,        \* the calls of tagAllChildren: the parent's pid and the row to look at
    before,       \* the tags when the first of them began, until it returns (history)
    menu,         \* the open menu
    signalled     \* the processes that the last step acted upon (history)

listVars == <<listed, tagged, hidden, order>>
searchVars == <<pidSearch, typed>>
callVars == <<calls, before>>
vars == <<alive, listVars, selected, following, searchVars, pc, callVars, menu, signalled>>

NoPid == -1
NoMenu == [open |-> FALSE, follow |-> FALSE, pid |-> NoPid]

Rows == {order[i] : i \in DOMAIN order}

\* The selection never leaves the rows (Panel_setSelected).
Clamp(i, n) == IF i >= n THEN (IF n = 0 THEN 0 ELSE n - 1) ELSE IF i < 0 THEN 0 ELSE i

MainPanel_selectedPid == IF order = <<>> THEN NoPid ELSE order[selected + 1]

Init ==
    /\ alive \in SUBSET Pid /\ listed = {} /\ tagged = {} /\ hidden \in SUBSET Pid
    /\ order = <<>> /\ selected = 0 /\ following = NoPid
    /\ pidSearch = 0 /\ typed = 0
    /\ pc = "check" /\ calls = <<>> /\ before = {} /\ menu = NoMenu /\ signalled = {}

-----------------------------------------------------------------------------
\* The kernel: a process starts or exits; its pid may come back.
ForkOrExit ==
    /\ \E p \in Pid : alive' = IF p \in alive THEN alive \ {p} ELSE alive \cup {p}
    /\ signalled' = {}
    /\ UNCHANGED <<listVars, selected, following, searchVars, pc, callVars, menu>>

Orders(S) == {q \in [1..Cardinality(S) -> S] : \A i, j \in DOMAIN q : q[i] = q[j] => i = j}

\* Mutant: a followed process that is not displayed stays followed.
FollowDisplayed_Keeps(f, q) == f

\* Following ends when the process is no row of the panel.
FollowDisplayed(f, q) == IF \E i \in DOMAIN q : q[i] = f THEN f ELSE NoPid

\* ProcessList_rebuildPanel: the cursor goes with the followed process, or
\* stays at its line, or at the last line if it was there.
rebuildPanel(f) ==
    /\ order' \in Orders(listed' \ hidden)
    /\ following' = FollowDisplayed(f, order')
    /\ IF \E i \in DOMAIN order' : order'[i] = following'
       THEN selected' \in {i - 1 : i \in {j \in DOMAIN order' : order'[j] = following'}}
       ELSE selected' = Clamp(IF selected > 0 /\ selected = Len(order) - 1
                              THEN Len(order') - 1 ELSE selected, Len(order'))

\* The pass before the next key.  A dead process may stay as a tomb.
Pass ==
    /\ pc = "check"
    /\ \/ UNCHANGED <<listed, tagged>>
       \/ \E tombs \in SUBSET (listed \ alive) :
             /\ listed' = alive \cup tombs
             /\ tagged' = tagged \cap listed'
    /\ rebuildPanel(IF following \in listed' THEN following ELSE NoPid)
    /\ pc' = "getch"
    /\ signalled' = {}
    /\ UNCHANGED <<alive, hidden, searchVars, callVars, menu>>

\* A timeout: only a scan brings the loop back to the rows.
Timeout ==
    /\ pc = "getch"
    /\ pc' = "check"
    /\ signalled' = {}
    /\ UNCHANGED <<alive, listVars, selected, following, searchVars, callVars, menu>>

-----------------------------------------------------------------------------
(* Keys of the main panel.                                                  *)

KeyOf(then) ==
    /\ pc = "getch" /\ ~menu.open
    /\ pc' = then
    /\ UNCHANGED <<alive, listed, order>>

\* A key whose handler is one step.
Key == KeyOf("check") /\ UNCHANGED callVars

\* What MainPanel_eventHandler does with following after each key.
MayFollow(keep) == following' = IF keep THEN following ELSE NoPid

\* A movement key or a click, or a key that nothing is bound to.
Move ==
    /\ Key
    /\ \E i \in 0..Len(order) : selected' = Clamp(i, Len(order))
    /\ MayFollow(FALSE)
    /\ pidSearch' = 0 /\ typed' = 0 /\ signalled' = {}
    /\ UNCHANGED <<tagged, hidden, menu>>

\* Mutant: the digits typed so far are not shifted.
NextSearch_NoShift(pid) == IF pid > SearchLimit THEN 0 ELSE pid

NextSearch(pid) == IF pid * 10 > SearchLimit THEN 0 ELSE pid * 10

MainPanel_pidSearch ==
    /\ Key
    /\ \E d \in 0..9 :
          /\ LET pid == d + pidSearch
             IN /\ selected' = IF \E i \in DOMAIN order : order[i] = pid
                               THEN (CHOOSE i \in DOMAIN order : order[i] = pid) - 1
                               ELSE selected
                /\ pidSearch' = NextSearch(pid)
          /\ typed * 10 + d <= MaxTyped
          /\ typed' = typed * 10 + d
    /\ MayFollow(FALSE)
    /\ signalled' = {}
    /\ UNCHANGED <<tagged, hidden, menu>>

\* Space: tag or untag, and go down.
actionTag ==
    /\ Key /\ order # <<>>
    /\ tagged' = (tagged \cup {MainPanel_selectedPid}) \ (tagged \cap {MainPanel_selectedPid})
    /\ selected' = Clamp(selected + 1, Len(order))
    /\ MayFollow(FALSE)
    /\ signalled' = {}
    /\ UNCHANGED <<hidden, searchVars, menu>>

\* A call of tagAllChildren: it tags the parent, and its loop begins.
Call(p) == [pid |-> p, row |-> 1]
Top == calls[Len(calls)]

actionTagAllChildren ==
    /\ KeyOf("tagging") /\ order # <<>>
    /\ calls' = <<Call(MainPanel_selectedPid)>>
    /\ tagged' = tagged \cup {MainPanel_selectedPid}
    /\ before' = tagged
    /\ signalled' = {}
    /\ UNCHANGED <<hidden, selected, following, searchVars, menu>>

\* Mutant: the recursion does not stop at a tag.
Into_NoStop(q) == Parent[q] = Top.pid

\* The recursion goes into a child that has no tag.
Into(q) == q \notin tagged /\ Parent[q] = Top.pid

\* One round of the loop of the last call.
TagRow ==
    /\ pc = "tagging" /\ Top.row <= Len(order)
    /\ LET q == order[Top.row]
           looked == [calls EXCEPT ![Len(calls)].row = @ + 1]
       IN \/ Into(q) /\ calls' = Append(looked, Call(q)) /\ tagged' = tagged \cup {q}
          \/ ~Into(q) /\ calls' = looked /\ UNCHANGED tagged
    /\ signalled' = {}
    /\ UNCHANGED <<alive, listed, hidden, order, selected, following, searchVars, pc, before, menu>>

\* The last call returns; with the first, the handler ends.
TagReturn ==
    /\ pc = "tagging" /\ Top.row > Len(order)
    /\ calls' = SubSeq(calls, 1, Len(calls) - 1)
    /\ IF Len(calls) = 1
       THEN pc' = "check" /\ before' = {} /\ MayFollow(FALSE)
       ELSE UNCHANGED <<pc, before, following>>
    /\ signalled' = {}
    /\ UNCHANGED <<alive, listVars, selected, searchVars, menu>>

actionUntagAll ==
    /\ Key
    /\ tagged' = tagged \ Rows
    /\ MayFollow(FALSE)
    /\ signalled' = {}
    /\ UNCHANGED <<hidden, selected, searchVars, menu>>

Action_follow ==
    /\ Key
    /\ following' = MainPanel_selectedPid
    /\ signalled' = {}
    /\ UNCHANGED <<tagged, hidden, selected, searchVars, menu>>

\* A command that changes the filter or the view; some keep following.
Filter ==
    /\ Key
    /\ hidden' \in SUBSET Pid
    /\ \E keep \in BOOLEAN : MayFollow(keep)
    /\ signalled' = {}
    /\ UNCHANGED <<tagged, selected, searchVars, menu>>

\* MainPanel_foreachProcess: the tagged rows, or the selected one.
foreachProcess ==
    IF tagged \cap Rows # {} THEN tagged \cap Rows ELSE {MainPanel_selectedPid} \ {NoPid}

\* F7, F8: nice values change at once, without a menu.
changePriority ==
    /\ Key
    /\ signalled' = foreachProcess
    /\ MayFollow(FALSE)
    /\ UNCHANGED <<tagged, hidden, selected, searchVars, menu>>

-----------------------------------------------------------------------------
(* Action_pickFromVector.                                                   *)

\* Signals, affinity and IO priority are for a process, which is followed as
\* long as the menu is open; the sort column and the user are for none.
OpenMenu ==
    /\ Key
    /\ \E follow \in BOOLEAN :
          /\ menu' = [open |-> TRUE, follow |-> follow,
                      pid |-> IF follow THEN MainPanel_selectedPid ELSE NoPid]
          /\ following' = IF follow /\ following = NoPid THEN menu'.pid ELSE following
    /\ signalled' = {}
    /\ UNCHANGED <<tagged, hidden, selected, searchVars>>

\* Mutant: the choice is valid whatever is selected by now.
StillSelected_Unchecked == TRUE

StillSelected == order # <<>> /\ MainPanel_selectedPid = menu.pid

\* Enter, q or Escape end the loop of the menu, and the handler that opened it
\* goes on.  Only the sort column keeps a process followed, only the user
\* menu filters, and no signal is sent for the entry "Cancel".
CloseMenu ==
    /\ pc = "getch" /\ menu.open
    /\ pc' = "check"
    /\ menu' = NoMenu
    /\ \/ /\ menu.follow
          /\ signalled' \in IF StillSelected THEN {foreachProcess, {}} ELSE {{}}
          /\ MayFollow(FALSE)
          /\ UNCHANGED hidden
       \/ /\ ~menu.follow
          /\ signalled' = {}
          /\ \/ UNCHANGED hidden /\ \E keep \in BOOLEAN : MayFollow(keep)
             \/ hidden' \in SUBSET Pid /\ MayFollow(FALSE)
    /\ UNCHANGED <<alive, listed, tagged, order, selected, searchVars, callVars>>

Next ==
    \/ ForkOrExit \/ Pass \/ Timeout
    \/ Move \/ MainPanel_pidSearch \/ Action_follow \/ Filter
    \/ actionTag \/ actionTagAllChildren \/ TagRow \/ TagReturn \/ actionUntagAll
    \/ changePriority \/ OpenMenu \/ CloseMenu

Spec == Init /\ [][Next]_vars

\* Nothing stops a handler that runs.
FairSpec == Spec /\ WF_vars(TagRow \/ TagReturn)

-----------------------------------------------------------------------------
(* Properties.                                                              *)

CallRecord == [pid : Pid, row : Nat \ {0}]

TypeOK ==
    /\ alive \subseteq Pid /\ listed \subseteq Pid /\ tagged \subseteq listed /\ hidden \subseteq Pid
    /\ order \in Seq(Pid) /\ selected \in 0..(IF order = <<>> THEN 0 ELSE Len(order) - 1)
    /\ following \in Pid \cup {NoPid}
    /\ pidSearch \in 0..SearchLimit /\ typed \in 0..MaxTyped
    /\ pc \in {"check", "getch", "tagging"}
    /\ calls \in Seq(CallRecord) /\ before \subseteq Pid
    /\ menu \in [open : BOOLEAN, follow : BOOLEAN, pid : Pid \cup {NoPid}]
    /\ signalled \subseteq Pid

\* The cursor is on the process that is followed, whatever happens to it and
\* whoever asked to follow it.
FollowedSelected == TypeOK /\ (following # NoPid => MainPanel_selectedPid = following)

\* A signal, affinity or IO priority chosen in a menu goes to the tagged rows,
\* or to the process that was selected when the menu was opened: never to one
\* that moved under the cursor while the menu was open.
MenuHitsTarget ==
    [][menu.open /\ signalled' # {} =>
          signalled' = tagged \cap Rows \/ signalled' = {menu.pid}]_vars

\* tagAllChildren, when it returns: of what it was called for and what it has
\* tagged, every row's children have a tag, although it does not go into those
\* that had one; and nothing but these was tagged.  It never nests deeper than
\* there are rows, whatever loop the parents form.
FamilyReached ==
    [][/\ Len(calls') <= Cardinality(Rows)
       /\ TagReturn /\ pc' = "check" =>
             LET family == (tagged \ before) \cup {Top.pid}
             IN /\ \A q \in Rows : Parent[q] \in family => q \in tagged
                /\ \A q \in family \ {Top.pid} : q \in Rows /\ Parent[q] \in family
                /\ Top.pid = MainPanel_selectedPid /\ before \cup family = tagged]_vars

\* And it returns.
FamilyTagged == FamilyReached /\ (pc = "tagging" ~> pc = "check")

\* Typing the digits of a pid puts the cursor on its row.
PidSearchFinds ==
    [][MainPanel_pidSearch /\ typed' \in Rows => order[selected' + 1] = typed']_vars

\* htop.1.in:138: "Untag all processes".
UntagAllUntags == [][actionUntagAll /\ tagged' # tagged => tagged' = {}]_vars

\* htop.1.in:205: "If processes were tagged, sends the signal to all tagged
\* processes."
SignalsAllTagged == [][menu.open /\ signalled' # {} /\ tagged # {} => signalled' = tagged]_vars
=============================================================================
