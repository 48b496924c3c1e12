---------------------------- MODULE ProcessList ----------------------------
(****************************************************************************)
(* htop's process list while the kernel's process table changes under it:   *)
(* ProcessList.c (scan, add, remove, sort, rebuildPanel) with the Linux     *)
(* scanner of linux/LinuxProcessList.c (recurseProcTree) as its             *)
(* goThroughEntries.                                                        *)
(*                                                                          *)
(* The kernel is the environment: tasks fork, clone threads, exit, and      *)
(* their pids are reused, between any two steps of a scan.  Reading one     *)
(* /proc directory is several steps: the entry is opened, its task/         *)
(* directory is read thread by thread, and only then is the entry itself    *)
(* read, so that the task may be gone by then.  htop is single-threaded:    *)
(* user commands run only between two passes of the event loop.             *)
(****************************************************************************)
EXTENDS Integers, FiniteSets

CONSTANTS
    Pid,          \* process and thread ids (positive; 0 is "no such process")
    MaxInc,       \* bound: how many tasks may get the same pid, one after another
    MaxTime,      \* bound of the monotonic clock
    Delay,        \* settings->highlightDelaySecs
    Toggles,      \* the user commands of this instance
    NoTask, NoRow \* "pid is free" and "pid is not in the list"

Commands == {"highlight", "hideKernel", "hideUserland", "updateNames", "tree",
             "pause", "invert", "collapse", "follow", "filter"}

ASSUME PidAssumption == Pid \subseteq Nat \ {0} /\ IsFiniteSet(Pid)
ASSUME BoundAssumption == MaxInc \in Nat /\ MaxTime \in Nat \ {0} /\ Delay \in Nat \ {0}
ASSUME ToggleAssumption == Toggles \subseteq Commands

\* A task of the kernel: which incarnation of its pid it is, its thread group,
\* the parent of the group, and whether it is a kernel thread.
Task == [inc : Nat, tgid : Pid, ppid : Pid \cup {0}, kth : BOOLEAN]

\* A Process object.  inc is a history variable: the incarnation of the pid for
\* which the object was created (the object itself has no such field).
Row == [updated : BOOLEAN, show : BOOLEAN, wasShown : BOOLEAN, tomb : Nat,
        tgid : Pid, ppid : Pid \cup {0}, kth : BOOLEAN,
        showChildren : BOOLEAN, inc : Nat]

Settings == [highlight : BOOLEAN, hideKernel : BOOLEAN, hideUserland : BOOLEAN,
             updateNames : BOOLEAN, tree : BOOLEAN]

NoPid == -1
NoEntry == [pid |-> 0, inc |-> 0]
NoCount == [total |-> 0, kernel |-> 0, userland |-> 0]

ASSUME NoTaskAssumption == NoTask \notin Task
ASSUME NoRowAssumption == NoRow \notin Row

VARIABLES
    \* the kernel
    tasks,        \* [Pid -> Task or NoTask]
    born,         \* incarnations of each pid so far (history)
    now,          \* CLOCK_MONOTONIC
    \* the scan
    pc,           \* "idle", "dir", "task", "sortTree", "rebuild", or "abort"
    dir,          \* entries of /proc that readdir has still to return
    cursor,       \* the last entry of /proc it returned
    entry,        \* the opened entry: its pid and the incarnation behind procFd
    taskdir,      \* entries of <entry>/task still to return
    through,      \* tasks that lived through the whole scan so far (history)
    \* the list
    rows,         \* processTable and processes: [Pid -> Row or NoRow]
    monotonic,    \* monotonicMs, stamped once per scan
    firstDone,    \* firstScanDone
    counts,       \* totalTasks, kernelThreads, userlandThreads
    treeSet,      \* the processes displayTreeSet points to
    dangling,     \* those of treeSet whose Process object was freed
    following,    \* the followed pid or -1
    \* the user
    opts,         \* the settings the list reads
    filtered,     \* pids that the user or incremental filter rejects
    paused,       \* pauseProcessUpdate
    rescan,       \* a handler's result asks for a new pass
    panel         \* the rows of the main panel

kernelVars == <<tasks, born, now>>
scanVars == <<dir, cursor, entry, taskdir>>
listVars == <<rows, treeSet, dangling, following>>
userVars == <<opts, filtered, paused>>
vars == <<kernelVars, scanVars, listVars, userVars, pc, through, monotonic,
          firstDone, counts, rescan, panel>>

Alive == {p \in Pid : tasks[p] # NoTask}
Leaders == {p \in Alive : tasks[p].tgid = p}
Listed == {p \in Pid : rows[p] # NoRow}

Init ==
    /\ tasks = [p \in Pid |-> NoTask]
    /\ born = [p \in Pid |-> 0]
    /\ now = 1
    /\ pc = "idle"
    /\ dir = {} /\ cursor = 0 /\ entry = NoEntry /\ taskdir = {} /\ through = {}
    /\ rows = [p \in Pid |-> NoRow]
    /\ monotonic = 0 /\ firstDone = FALSE
    /\ counts = NoCount
    /\ treeSet = {} /\ dangling = {} /\ following = NoPid
    /\ opts \in [highlight : BOOLEAN, hideKernel : {TRUE}, hideUserland : {FALSE},
                 updateNames : {FALSE}, tree : BOOLEAN]
    /\ filtered = {} /\ paused = FALSE /\ rescan = FALSE
    /\ panel = {}

-----------------------------------------------------------------------------
(* The kernel.                                                              *)

\* A new entry of a directory that is being read may still be returned.
MayAppear(d, p, can) == IF can THEN {d, d \cup {p}} ELSE {d}

Spawn(p, g, par, k) ==
    /\ tasks[p] = NoTask
    /\ born[p] < MaxInc
    /\ tasks' = [tasks EXCEPT ![p] = [inc |-> born[p] + 1, tgid |-> g, ppid |-> par, kth |-> k]]
    /\ born' = [born EXCEPT ![p] = @ + 1]

\* A process with a fresh, or a reused, pid.  The parent 0 stands for a process
\* outside of Pid (init, or kthreadd for a kernel thread).
Fork(p) ==
    /\ \E par \in {0} \cup {q \in Leaders : ~tasks[q].kth}, k \in BOOLEAN :
          /\ k => par = 0
          /\ Spawn(p, p, par, k)
    /\ dir' \in MayAppear(dir, p, pc \in {"dir", "task"} /\ p > cursor)
    /\ UNCHANGED <<now, pc, cursor, entry, taskdir, through, listVars, userVars,
                   monotonic, firstDone, counts, rescan, panel>>

\* A user thread t of process l.
Clone(l, t) ==
    /\ l \in Leaders /\ ~tasks[l].kth /\ l # t
    /\ Spawn(t, l, tasks[l].ppid, FALSE)
    /\ taskdir' \in MayAppear(taskdir, t, pc = "task" /\ entry.pid = l)
    /\ UNCHANGED <<now, pc, dir, cursor, entry, through, listVars, userVars,
                   monotonic, firstDone, counts, rescan, panel>>

\* A task ends; with the leader of a group go its threads, and the children of
\* the group get a parent outside of Pid.  readdir may or may not have fetched
\* the entries already.
Exit(p) ==
    /\ p \in Alive
    /\ LET gone == {p} \cup {q \in Alive : tasks[q].tgid = p} IN
       /\ tasks' = [q \in Pid |->
             IF q \in gone THEN NoTask
             ELSE IF q \in Alive /\ tasks[q].ppid = p THEN [tasks[q] EXCEPT !.ppid = 0]
             ELSE tasks[q]]
       /\ through' = through \ gone
       /\ dir' \in {dir, dir \ gone}
       /\ taskdir' \in {taskdir, taskdir \ gone}
    /\ UNCHANGED <<born, now, pc, cursor, entry, listVars, userVars, monotonic,
                   firstDone, counts, rescan, panel>>

Tick ==
    /\ now < MaxTime
    /\ now' = now + 1
    /\ UNCHANGED <<tasks, born, pc, scanVars, through, listVars, userVars,
                   monotonic, firstDone, counts, rescan, panel>>

-----------------------------------------------------------------------------
(* Removing a process frees its object: displayTreeSet is not told.         *)

\* Mutant: the followed process is not compared with the removed one.
Remove_KeepsFollowing(S) ==
    /\ dangling' = dangling \cup (treeSet \cap S)
    /\ UNCHANGED following

\* Mutant: as if every removed process were in displayTreeSet.
Remove_MarksAll(S) ==
    /\ dangling' = dangling \cup S
    /\ following' = IF following \in S THEN NoPid ELSE following

Remove(S) ==
    /\ dangling' = dangling \cup (treeSet \cap S)
    /\ following' = IF following \in S THEN NoPid ELSE following

IsUserlandThread(p, g) == p # g
ParentPid(rs, p) == IF rs[p].tgid = p THEN rs[p].ppid ELSE rs[p].tgid

-----------------------------------------------------------------------------
(* One scan.                                                                *)

\* Mutant: the pause flag is not passed on.
ScanAllowed_WhenPaused == pc = "idle"

ScanAllowed == pc = "idle" /\ ~paused

\* Everything is marked dirty before the first entry is read.
StartScan ==
    /\ ScanAllowed
    /\ rows' = [p \in Pid |->
          IF p \in Listed
          THEN [rows[p] EXCEPT !.updated = FALSE, !.wasShown = rows[p].show, !.show = TRUE]
          ELSE NoRow]
    /\ counts' = NoCount
    /\ monotonic' = IF firstDone THEN now ELSE 0
    /\ firstDone' = TRUE
    /\ pc' = "dir"
    /\ dir' = Leaders /\ cursor' = 0
    /\ through' = Alive
    /\ UNCHANGED <<kernelVars, entry, taskdir, treeSet, dangling, following,
                   userVars, rescan, panel>>

\* Mutant: threads are skipped even when they are shown.
Shortcut_AnyThread(p, g) ==
    p \in Listed /\ (rows[p].kth \/ IsUserlandThread(p, g))

\* Row p is known to be of a hidden kind before anything of it is read.
Shortcut(p, g) ==
    /\ p \in Listed
    /\ \/ opts.hideKernel /\ rows[p].kth
       \/ opts.hideUserland /\ IsUserlandThread(p, g)

CountAs(kernel, userland) ==
    counts' = [total |-> counts.total + 1,
               kernel |-> counts.kernel + IF kernel THEN 1 ELSE 0,
               userland |-> counts.userland + IF ~kernel /\ userland THEN 1 ELSE 0]

\* A new Process object; isKernelThread is set when its cmdline is first read.
NewRow(p) == [updated |-> FALSE, show |-> FALSE, wasShown |-> FALSE, tomb |-> 0,
              tgid |-> p, ppid |-> 0, kth |-> tasks[p].kth, showChildren |-> TRUE,
              inc |-> tasks[p].inc]

ReadRow(p, g) ==
    LET old == IF p \in Listed THEN rows[p] ELSE NewRow(p)
        kth == old.kth \/ (opts.updateNames /\ tasks[p].kth)
    IN [old EXCEPT !.updated = TRUE, !.tgid = g, !.ppid = tasks[p].ppid, !.kth = kth,
                   !.show = ~ \/ opts.hideKernel /\ kth
                              \/ opts.hideUserland /\ IsUserlandThread(p, g)]

\* The loop body from the short-circuit tests to the end for an open directory
\* of pid p, in thread group g.  readable: its files can be read to the end.
ReadEntry(p, g, readable) ==
    \/ /\ Shortcut(p, g)
       /\ rows' = [rows EXCEPT ![p].updated = TRUE, ![p].show = FALSE, ![p].tgid = g]
       /\ CountAs(opts.hideKernel /\ rows[p].kth, TRUE)
       /\ UNCHANGED <<dangling, following>>
    \/ /\ ~Shortcut(p, g) /\ readable
       /\ rows' = [rows EXCEPT ![p] = ReadRow(p, g)]
       /\ CountAs(ReadRow(p, g).kth, IsUserlandThread(p, g))
       /\ UNCHANGED <<dangling, following>>
    \/ /\ ~Shortcut(p, g) /\ ~readable
       /\ rows' = [rows EXCEPT ![p] = NoRow]
       /\ Remove({p})
       /\ UNCHANGED counts

\* readdir returns the next number of /proc.  If openat fails, a listed process
\* is removed; otherwise its task/ directory is read first.
OpenEntry ==
    /\ pc = "dir"
    /\ \E p \in dir :
          /\ \A q \in dir : p <= q
          /\ dir' = dir \ {p} /\ cursor' = p
          /\ \/ /\ p \in Alive
                /\ pc' = "task"
                /\ entry' = [pid |-> p, inc |-> tasks[p].inc]
                /\ taskdir' = {t \in Alive : tasks[t].tgid = tasks[p].tgid} \ {p}
                /\ rows' = IF p \in Listed THEN [rows EXCEPT ![p].tgid = p] ELSE rows
                /\ UNCHANGED <<dangling, following>>
             \/ /\ p \notin Alive
                /\ rows' = [rows EXCEPT ![p] = NoRow]
                /\ Remove({p})
                /\ UNCHANGED <<pc, entry, taskdir>>
    /\ UNCHANGED <<kernelVars, through, treeSet, userVars, monotonic, firstDone,
                   counts, rescan, panel>>

EntryAlive == entry.pid \in Alive /\ tasks[entry.pid].inc = entry.inc

\* One entry of <entry>/task; it can be opened while the group is the same.
ReadTask ==
    /\ pc = "task"
    /\ \E t \in taskdir :
          /\ taskdir' = taskdir \ {t}
          /\ LET here == /\ EntryAlive /\ t \in Alive
                         /\ tasks[t].tgid = tasks[entry.pid].tgid IN
             \/ here /\ ReadEntry(t, entry.pid, TRUE)
             \/ /\ ~here
                /\ rows' = [rows EXCEPT ![t] = NoRow]
                /\ Remove({t})
                /\ UNCHANGED counts
    /\ UNCHANGED <<kernelVars, pc, dir, cursor, entry, through, treeSet, userVars,
                   monotonic, firstDone, rescan, panel>>

\* The entry itself, once its task/ directory is exhausted.
FinishEntry ==
    /\ pc = "task" /\ taskdir = {}
    /\ ReadEntry(entry.pid, entry.pid, EntryAlive)
    /\ pc' = "dir"
    /\ entry' = NoEntry
    /\ UNCHANGED <<kernelVars, dir, cursor, taskdir, through, treeSet, userVars,
                   monotonic, firstDone, rescan, panel>>

\* The sweep at the end of the scan.
\* Mutants: off by one; only hidden rows expire.
Expired_Late(r) == r.tomb > 0 /\ monotonic > r.tomb
Expired_Hidden(r) == r.tomb > 0 /\ monotonic >= r.tomb /\ ~r.show

Expired(r) == r.tomb > 0 /\ monotonic >= r.tomb

Vanished(r) == r.tomb = 0 /\ ~r.updated
Entombed(r) == Vanished(r) /\ opts.highlight /\ r.wasShown
SweptAway == {p \in Listed : \/ Expired(rows[p])
                             \/ Vanished(rows[p]) /\ ~Entombed(rows[p])}

Sweep ==
    [p \in Pid |->
        IF p \notin Listed \/ p \in SweptAway THEN NoRow
        ELSE IF Entombed(rows[p]) THEN [rows[p] EXCEPT !.tomb = monotonic + Delay]
        ELSE rows[p]]

\* Processes reached from p by one or more steps to the parent's row, inside the
\* set S of rows.  A process that is its own parent is a root.
Above(rs, p, S) ==
    LET up(q) == IF q \in S THEN {a \in S \ {q} : a = ParentPid(rs, q)} ELSE {}
        reach[n \in 1..Cardinality(Pid)] ==
            IF n = 1 THEN up(p) ELSE reach[n-1] \cup UNION {up(q) : q \in reach[n-1]}
    IN reach[Cardinality(Pid)]

RowsOf(rs) == {p \in Pid : rs[p] # NoRow}
HasLoop(rs) ==
    LET shown == {p \in RowsOf(rs) : rs[p].show} IN \E p \in shown : p \in Above(rs, p, shown)

\* buildTree hides what is below a hidden or a collapsed process.
BuildTree(rs) ==
    [p \in Pid |->
        IF rs[p] = NoRow THEN NoRow
        ELSE [rs[p] EXCEPT !.show = /\ @
                 /\ \A a \in Above(rs, p, RowsOf(rs)) : rs[a].show /\ rs[a].showChildren]]

\* Mutant: buildTree without the preceding Hashtable_clear.
NewTreeSet_NotCleared == treeSet \cup (Listed \ SweptAway)

NewTreeSet == Listed \ SweptAway

EndScan ==
    /\ pc = "dir" /\ dir = {}
    /\ following' = IF following \in SweptAway THEN NoPid ELSE following
    /\ \/ /\ ~opts.tree
          /\ rows' = Sweep
          /\ dangling' = dangling \cup (treeSet \cap SweptAway)
          /\ pc' = "rebuild"
          /\ UNCHANGED treeSet
       \/ /\ opts.tree /\ HasLoop(Sweep)
          /\ rows' = Sweep
          /\ treeSet' = {} /\ dangling' = {}
          /\ pc' = "abort"
       \/ /\ opts.tree /\ ~HasLoop(Sweep)
          /\ rows' = BuildTree(Sweep)
          /\ treeSet' = NewTreeSet
          /\ dangling' = {}
          /\ pc' = "sortTree"
    /\ UNCHANGED <<kernelVars, scanVars, through, userVars, monotonic, firstDone,
                   counts, rescan, panel>>

\* ProcessList_sort in tree mode: updateTreeSet walks displayTreeSet, which it
\* asserts to be as long as the list.  (In list mode sorting only reorders.)
SortTree ==
    /\ pc = "sortTree"
    /\ pc' = IF Cardinality(treeSet) = Cardinality(Listed) THEN "rebuild" ELSE "abort"
    /\ UNCHANGED <<kernelVars, scanVars, listVars, userVars, through, monotonic,
                   firstDone, counts, rescan, panel>>

\* While paused a pass reads only global data; without a timeout or a rescan a
\* key press redraws.  Both rebuild the panel from the list as it is.
Redraw ==
    /\ pc = "idle" /\ (paused \/ ~rescan)
    /\ pc' = "rebuild"
    /\ UNCHANGED <<kernelVars, scanVars, listVars, userVars, through, monotonic,
                   firstDone, counts, rescan, panel>>

IsThread(p) == IsUserlandThread(p, rows[p].tgid) \/ rows[p].kth

\* The followed thread, or the main process if userland threads are hidden.
FollowTarget ==
    IF /\ opts.hideUserland
       /\ following \in Listed
       /\ IsThread(following)
       /\ rows[following].tgid \in Listed
    THEN rows[following].tgid
    ELSE following

VisibleRows == {p \in Listed : rows[p].show /\ p \notin filtered}

RebuildPanel ==
    /\ pc = "rebuild"
    /\ panel' = VisibleRows
    /\ following' = IF FollowTarget \in panel' THEN FollowTarget ELSE NoPid
    /\ rescan' = FALSE
    /\ pc' = "idle"
    /\ UNCHANGED <<kernelVars, scanVars, rows, treeSet, dangling, userVars,
                   through, monotonic, firstDone, counts>>

-----------------------------------------------------------------------------
(* User commands.  Every reaction with the HTOP_REFRESH bit asks for a      *)
(* rescan: MainPanel_eventHandler tests the multi-bit HTOP_RECALCULATE with *)
(* "reaction & mask".                                                       *)

Command(c) == c \in Toggles /\ pc = "idle" /\ ~rescan

Refresh(keepFollowing) ==
    /\ rescan' = TRUE
    /\ following' = IF keepFollowing THEN following ELSE NoPid

unchangedByCommands == <<kernelVars, scanVars, treeSet, dangling, through,
                         monotonic, firstDone, counts, panel>>

\* Display options page of the setup screen: no refresh.
ToggleDisplayOption ==
    /\ \/ /\ Command("highlight")
          /\ opts' = [opts EXCEPT !.highlight = ~@]
       \/ /\ Command("updateNames")
          /\ opts' = [opts EXCEPT !.updateNames = ~@]
    /\ UNCHANGED <<unchangedByCommands, pc, rows, filtered, paused, rescan, following>>

ToggleHidden ==
    /\ \/ /\ Command("hideKernel")
          /\ opts' = [opts EXCEPT !.hideKernel = ~@]
       \/ /\ Command("hideUserland")
          /\ opts' = [opts EXCEPT !.hideUserland = ~@]
    /\ Refresh(TRUE)
    /\ UNCHANGED <<unchangedByCommands, pc, rows, filtered, paused>>

\* allBranchesCollapsed is off: every branch is expanded.
ToggleTreeView ==
    /\ Command("tree")
    /\ opts' = [opts EXCEPT !.tree = ~@]
    /\ rows' = [p \in Pid |-> IF p \in Listed THEN [rows[p] EXCEPT !.showChildren = TRUE] ELSE NoRow]
    /\ Refresh(TRUE)
    /\ UNCHANGED <<unchangedByCommands, pc, filtered, paused>>

TogglePause ==
    /\ Command("pause")
    /\ paused' = ~paused
    /\ Refresh(FALSE)
    /\ UNCHANGED <<unchangedByCommands, pc, rows, opts, filtered>>

\* Only a paused list is sorted by the handler itself.
InvertSort ==
    /\ Command("invert")
    /\ pc' = IF paused /\ opts.tree THEN "sortTree" ELSE "idle"
    /\ Refresh(TRUE)
    /\ UNCHANGED <<unchangedByCommands, rows, opts, filtered, paused>>

ExpandOrCollapse ==
    /\ Command("collapse")
    /\ \E p \in panel \cap Listed :
          rows' = [rows EXCEPT ![p].showChildren = ~@]
    /\ Refresh(FALSE)
    /\ UNCHANGED <<unchangedByCommands, pc, opts, filtered, paused>>

\* The selected row; MainPanel_selectedPid is -1 in an empty panel.
Follow ==
    /\ Command("follow")
    /\ following' \in IF panel = {} THEN {NoPid} ELSE panel
    /\ UNCHANGED <<unchangedByCommands, pc, rows, userVars, rescan>>

SetFilter ==
    /\ Command("filter")
    /\ filtered' \in SUBSET Pid
    /\ Refresh(FALSE)
    /\ UNCHANGED <<unchangedByCommands, pc, rows, opts, paused>>

-----------------------------------------------------------------------------
\* A failed assertion ends the program; the kernel goes on.
Aborted == pc = "abort" /\ UNCHANGED vars

KernelStep == (\E p \in Pid : Fork(p) \/ Exit(p)) \/ (\E l, t \in Pid : Clone(l, t)) \/ Tick
ScanStep == OpenEntry \/ ReadTask \/ FinishEntry \/ EndScan \/ SortTree \/ RebuildPanel
UserStep == \/ ToggleDisplayOption \/ ToggleHidden \/ ToggleTreeView \/ TogglePause
            \/ InvertSort \/ ExpandOrCollapse \/ Follow \/ SetFilter

Next == KernelStep \/ StartScan \/ ScanStep \/ Redraw \/ UserStep \/ Aborted

Spec == Init /\ [][Next]_vars

\* The event loop always comes back to a scan, and the clock goes on.
FairSpec == Spec /\ WF_vars(ScanStep) /\ SF_vars(StartScan) /\ WF_vars(Tick)

-----------------------------------------------------------------------------
(* Properties.                                                              *)

TypeOK ==
    /\ tasks \in [Pid -> Task \cup {NoTask}]
    /\ born \in [Pid -> Nat]
    /\ now \in Nat /\ monotonic \in Nat
    /\ pc \in {"idle", "dir", "task", "sortTree", "rebuild", "abort"}
    /\ dir \subseteq Pid /\ cursor \in Nat /\ taskdir \subseteq Pid /\ through \subseteq Pid
    /\ entry \in [pid : Pid \cup {0}, inc : Nat]
    /\ rows \in [Pid -> Row \cup {NoRow}]
    /\ firstDone \in BOOLEAN
    /\ counts \in [total : Nat, kernel : Nat, userland : Nat]
    /\ treeSet \subseteq Pid /\ dangling \subseteq treeSet
    /\ following \in Pid \cup {NoPid}
    /\ opts \in Settings
    /\ filtered \subseteq Pid /\ paused \in BOOLEAN /\ rescan \in BOOLEAN
    /\ panel \subseteq Pid

\* Wherever htop is, in the middle of a scan too, the followed process is in
\* the list: every removal resets following (ProcessList_remove).
FollowingListed == following # NoPid => following \in Listed

\* When the user can act, every row of the panel is a process of the list, and
\* the followed one is among them: the panel, which does not own its rows, is
\* rebuilt before the first key after any pass that may have freed one.
PanelLive == pc = "idle" => panel \subseteq Listed /\ following \in panel \cup {NoPid}

\* updateTreeSet reads displayTreeSet only when it holds exactly the listed
\* processes and no freed one; a paused list is sorted by InvertSort without
\* building the tree again, and TreeSetSized is about that.
TreeSetFresh == pc = "sortTree" /\ ~paused => treeSet = Listed /\ dangling = {}

\* No tombed row outlives its stamp in a finished scan, and no stamp is more
\* than the highlight delay ahead of the scan that set it.
TombsTimely ==
    \A p \in Listed : LET r == rows[p] IN
        r.tomb > 0 => /\ r.tomb <= monotonic + Delay
                      /\ pc \in {"idle", "sortTree", "rebuild"} => r.tomb > monotonic

\* The scan lists every task that lived through it.
LiveListed == pc \in {"sortTree", "rebuild"} /\ ~paused => through \subseteq Listed

\* A row marked as exited belongs to a task that has exited.
TombsAreDead == \A p \in Listed : rows[p].tomb > 0 => p \notin Alive

\* No assertion of buildTree or updateTreeSet fails.
NoAssertionFails == pc # "abort"

\* "There should be no loop in the process tree": the parent pids that
\* buildTree is given, those of tombed rows included, lead to a root.
NoTreeLoop == pc = "dir" /\ dir = {} /\ opts.tree => ~HasLoop(Sweep)

\* "The sorting algorithm relies on the fact that len(displayTreeSet) ==
\* len(processes)" (the comment in ProcessList_scan, asserted by updateTreeSet).
TreeSetSized == pc = "sortTree" => Cardinality(treeSet) = Cardinality(Listed)

\* After a scan the task counters count the rows it updated.
CountersMatch ==
    pc \in {"sortTree", "rebuild"} /\ ~paused =>
        /\ counts.total = Cardinality({p \in Listed : rows[p].updated})
        /\ counts.userland + counts.kernel <= counts.total

\* Right after a scan, in list mode, a task that lived through it is hidden
\* exactly when it is of a kind the settings hide.
HiddenByKind ==
    pc = "rebuild" /\ ~paused /\ ~opts.tree =>
        \A p \in through \cap Listed :
            rows[p].show = ~ \/ opts.hideKernel /\ tasks[p].kth
                             \/ opts.hideUserland /\ tasks[p].tgid # p

\* What a finished scan promises, whatever starts and ends while it reads.
ScanComplete == LiveListed /\ CountersMatch /\ HiddenByKind

\* While updates are paused no row is added, removed, re-read or tombed.
PausedFrozen ==
    [][paused /\ paused' =>
          \A p \in Pid : /\ p \in Listed <=> (rows[p] # NoRow)'
                        /\ p \in Listed => rows'[p] \in
                              {[rows[p] EXCEPT !.showChildren = b] : b \in BOOLEAN}]_vars

\* A tombed row whose stamp lies within the modelled time is removed.
TombExpires ==
    \A p \in Pid :
        (p \in Listed /\ rows[p].tomb \in 1..MaxTime) ~> (p \notin Listed \/ rows[p].tomb = 0)
=============================================================================
