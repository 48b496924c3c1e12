------------------------- MODULE ProcessListProofs -------------------------
(****************************************************************************)
(* Theorems about ProcessList, for every set of pids, every bound and every *)
(* set of user commands.                                                    *)
(****************************************************************************)
EXTENDS ProcessList, FiniteSetTheorems, TLAPS

\* TypeOK is inductive once an opened entry is known to be a pid.
TypeInv == TypeOK /\ (pc = "task" => entry.pid \in Pid)

RowFn == [Pid -> Row \cup {NoRow}]

-----------------------------------------------------------------------------
(* Lemmas on the row operators.                                             *)

\* Reading an entry of a live task gives a well-formed row.
LEMMA ReadRowType ==
    ASSUME TypeOK, NEW p \in Pid, NEW g \in Pid, p \in Alive
    PROVE  ReadRow(p, g) \in Row
<1>1. tasks[p] \in Task
  BY DEF TypeOK, Alive
<1>2. NewRow(p) \in Row
  BY <1>1 DEF NewRow, Row, Task
<1>3. p \in Listed => rows[p] \in Row
  BY DEF TypeOK, Listed
<1> DEFINE old == IF p \in Listed THEN rows[p] ELSE NewRow(p)
<1>4. old \in Row
  BY <1>2, <1>3
<1>5. opts \in Settings
  BY DEF TypeOK
<1> HIDE DEF old
<1> DEFINE kth == old.kth \/ (opts.updateNames /\ tasks[p].kth)
           shown == ~ \/ opts.hideKernel /\ kth
                      \/ opts.hideUserland /\ IsUserlandThread(p, g)
<1>6. kth \in BOOLEAN /\ shown \in BOOLEAN
  OBVIOUS
<1> HIDE DEF kth, shown
<1>7. [old EXCEPT !.updated = TRUE, !.tgid = g, !.ppid = tasks[p].ppid, !.kth = kth, !.show = shown] \in Row
  BY <1>1, <1>4, <1>6 DEF Row, Task
<1> QED
  BY <1>7 DEF ReadRow, old, kth, shown

\* The sweep keeps rows well-formed and drops exactly SweptAway.
LEMMA SweepType ==
    ASSUME TypeOK
    PROVE  /\ Sweep \in RowFn
           /\ \A p \in Pid : Sweep[p] = NoRow <=> p \notin Listed \/ p \in SweptAway
<1>1. ASSUME NEW p \in Listed
      PROVE  [rows[p] EXCEPT !.tomb = monotonic + Delay] \in Row
  BY BoundAssumption DEF TypeOK, Listed, Row
<1>2. \A p \in Pid : Sweep[p] \in Row \cup {NoRow}
  BY <1>1 DEF TypeOK, Sweep, Listed
<1>3. \A p \in Pid : Sweep[p] = NoRow <=> p \notin Listed \/ p \in SweptAway
  BY <1>1, NoRowAssumption DEF Sweep, Listed
<1> QED
  BY <1>2, <1>3 DEF Sweep, RowFn

\* Building the tree changes no field but show.
LEMMA BuildTreeType ==
    ASSUME NEW rs \in RowFn
    PROVE  /\ BuildTree(rs) \in RowFn
           /\ \A p \in Pid : BuildTree(rs)[p] = NoRow <=> rs[p] = NoRow
           /\ \A p \in Pid : rs[p] # NoRow => BuildTree(rs)[p].tomb = rs[p].tomb
<1>1. ASSUME NEW p \in Pid, NEW b \in BOOLEAN, rs[p] # NoRow
      PROVE  /\ [rs[p] EXCEPT !.show = b] \in Row
             /\ [rs[p] EXCEPT !.show = b].tomb = rs[p].tomb
  BY <1>1 DEF RowFn, Row
<1> DEFINE vis(p) == rs[p].show /\ \A a \in Above(rs, p, RowsOf(rs)) : rs[a].show /\ rs[a].showChildren
<1>2. \A p \in Pid : vis(p) \in BOOLEAN
  OBVIOUS
<1>3. \A p \in Pid : BuildTree(rs)[p] = IF rs[p] = NoRow THEN NoRow
                                        ELSE [rs[p] EXCEPT !.show = vis(p)]
  BY DEF BuildTree
<1> HIDE DEF vis
<1>4. \A p \in Pid : BuildTree(rs)[p] \in Row \cup {NoRow}
  BY <1>1, <1>2, <1>3
<1>5. BuildTree(rs) \in RowFn
  <2>1. BuildTree(rs) = [p \in Pid |-> BuildTree(rs)[p]]
    BY DEF BuildTree
  <2> QED
    BY <1>4, <2>1 DEF RowFn
<1>6. \A p \in Pid : BuildTree(rs)[p] = NoRow <=> rs[p] = NoRow
  BY <1>1, <1>2, <1>3, NoRowAssumption
<1>7. \A p \in Pid : rs[p] # NoRow => BuildTree(rs)[p].tomb = rs[p].tomb
  BY <1>1, <1>2, <1>3
<1> QED
  BY <1>5, <1>6, <1>7

CountType == [total : Nat, kernel : Nat, userland : Nat]

LEMMA RemoveType ==
    ASSUME TypeOK, NEW S \in SUBSET Pid, Remove(S), treeSet' = treeSet
    PROVE  dangling' \subseteq treeSet' /\ following' \in Pid \cup {NoPid}
BY DEF TypeOK, Remove

LEMMA CountAsType ==
    ASSUME TypeOK, NEW k, NEW u, CountAs(k, u)
    PROVE  counts' \in CountType
BY DEF TypeOK, CountAs, CountType

LEMMA ReadEntryType ==
    ASSUME TypeOK, NEW p \in Pid, NEW g \in Pid, NEW readable \in BOOLEAN,
           readable => p \in Alive,
           ReadEntry(p, g, readable), treeSet' = treeSet
    PROVE  /\ rows' \in RowFn
           /\ counts' \in CountType
           /\ dangling' \subseteq treeSet'
           /\ following' \in Pid \cup {NoPid}
<1>1. CASE Shortcut(p, g) /\ rows' = [rows EXCEPT ![p].updated = TRUE, ![p].show = FALSE, ![p].tgid = g]
           /\ CountAs(opts.hideKernel /\ rows[p].kth, TRUE) /\ UNCHANGED <<dangling, following>>
  <2>1. rows[p] \in Row
    BY <1>1 DEF Shortcut, Listed, TypeOK
  <2>2. [rows[p] EXCEPT !.updated = TRUE, !.show = FALSE, !.tgid = g] \in Row
    BY <2>1 DEF Row
  <2>3. rows' \in RowFn
    BY <1>1, <2>2 DEF TypeOK, RowFn
  <2> QED
    BY <1>1, <2>3, CountAsType DEF TypeOK
<1>2. CASE ~Shortcut(p, g) /\ readable /\ rows' = [rows EXCEPT ![p] = ReadRow(p, g)]
           /\ CountAs(ReadRow(p, g).kth, IsUserlandThread(p, g)) /\ UNCHANGED <<dangling, following>>
  <2>1. rows' \in RowFn
    BY <1>2, ReadRowType DEF TypeOK, RowFn
  <2> QED
    BY <1>2, <2>1, CountAsType DEF TypeOK
<1>3. CASE ~Shortcut(p, g) /\ ~readable /\ rows' = [rows EXCEPT ![p] = NoRow]
           /\ Remove({p}) /\ UNCHANGED counts
  <2>1. rows' \in RowFn
    BY <1>3 DEF TypeOK, RowFn
  <2> QED
    BY <1>3, <2>1, RemoveType DEF TypeOK, CountType
<1> QED
  BY <1>1, <1>2, <1>3 DEF ReadEntry

-----------------------------------------------------------------------------
(* Type correctness.                                                        *)

LEMMA InitTypeInv == Init => TypeInv
<1> SUFFICES ASSUME Init PROVE TypeInv
  OBVIOUS
<1>1. opts \in Settings
  BY DEF Init, Settings
<1>2. counts \in [total : Nat, kernel : Nat, userland : Nat]
  BY DEF Init, NoCount
<1>3. entry \in [pid : Pid \cup {0}, inc : Nat]
  BY DEF Init, NoEntry
<1>4. /\ tasks \in [Pid -> Task \cup {NoTask}] /\ born \in [Pid -> Nat]
      /\ rows \in [Pid -> Row \cup {NoRow}]
  BY DEF Init
<1>5. /\ pc = "idle" /\ now \in Nat /\ monotonic \in Nat /\ cursor \in Nat
      /\ firstDone \in BOOLEAN /\ paused \in BOOLEAN /\ rescan \in BOOLEAN
  BY DEF Init
<1>6. /\ dir \subseteq Pid /\ taskdir \subseteq Pid /\ through \subseteq Pid
      /\ treeSet \subseteq Pid /\ dangling \subseteq treeSet
      /\ following \in Pid \cup {NoPid} /\ filtered \subseteq Pid /\ panel \subseteq Pid
  BY DEF Init
<1> QED
  BY <1>1, <1>2, <1>3, <1>4, <1>5, <1>6 DEF TypeInv, TypeOK

\* The kernel's steps.
LEMMA KernelTypeInv ==
    ASSUME TypeInv, KernelStep
    PROVE  TypeInv'
<1> USE DEF TypeInv, TypeOK, scanVars, listVars, userVars, kernelVars
<1>1. ASSUME NEW p \in Pid, NEW g \in Pid, NEW par \in Pid \cup {0}, NEW k \in BOOLEAN, Spawn(p, g, par, k)
      PROVE  tasks' \in [Pid -> Task \cup {NoTask}] /\ born' \in [Pid -> Nat]
  <2>1. [inc |-> born[p] + 1, tgid |-> g, ppid |-> par, kth |-> k] \in Task
    BY DEF Task
  <2> QED
    BY <1>1, <2>1 DEF Spawn
<1>2. ASSUME NEW p \in Pid, Fork(p)
      PROVE  TypeInv'
  <2>1. tasks' \in [Pid -> Task \cup {NoTask}] /\ born' \in [Pid -> Nat]
    <3>1. PICK par \in {0} \cup {q \in Leaders : ~tasks[q].kth}, k \in BOOLEAN :
             Spawn(p, p, par, k)
      BY <1>2 DEF Fork
    <3>2. par \in Pid \cup {0}
      BY DEF Leaders, Alive
    <3> QED
      BY <1>1, <3>1, <3>2
  <2>2. dir' \subseteq Pid
    BY <1>2 DEF Fork, MayAppear
  <2> QED
    BY <1>2, <2>1, <2>2 DEF Fork
<1>3. ASSUME NEW l \in Pid, NEW t \in Pid, Clone(l, t)
      PROVE  TypeInv'
  <2>1. l \in Alive /\ tasks[l].ppid \in Pid \cup {0}
    BY <1>3 DEF Clone, Leaders, Alive, Task
  <2>2. tasks' \in [Pid -> Task \cup {NoTask}] /\ born' \in [Pid -> Nat]
    BY <1>1, <1>3, <2>1 DEF Clone
  <2>3. taskdir' \subseteq Pid
    BY <1>3 DEF Clone, MayAppear
  <2> QED
    BY <1>3, <2>2, <2>3 DEF Clone
<1>4. ASSUME NEW p \in Pid, Exit(p)
      PROVE  TypeInv'
  <2>1. \A q \in Alive : [tasks[q] EXCEPT !.ppid = 0] \in Task
    BY DEF Alive, Task
  <2>2. tasks' \in [Pid -> Task \cup {NoTask}]
    BY <1>4, <2>1 DEF Exit, Alive
  <2>3. through' \subseteq Pid /\ dir' \subseteq Pid /\ taskdir' \subseteq Pid
    BY <1>4 DEF Exit
  <2> QED
    BY <1>4, <2>2, <2>3 DEF Exit
<1>5. CASE Tick
  BY <1>5 DEF Tick
<1> QED
  BY <1>2, <1>3, <1>4, <1>5 DEF KernelStep

\* The scan's steps.
LEMMA ScanTypeInv ==
    ASSUME TypeInv, StartScan \/ ScanStep
    PROVE  TypeInv'
<1> USE DEF TypeInv, TypeOK, scanVars, listVars, userVars, kernelVars
<1>1. CASE StartScan
  <2>1. \A p \in Listed : [rows[p] EXCEPT !.updated = FALSE, !.wasShown = rows[p].show, !.show = TRUE] \in Row
    BY DEF Listed, Row
  <2>2. rows' \in [Pid -> Row \cup {NoRow}]
    BY <1>1, <2>1 DEF StartScan
  <2>3. counts' \in [total : Nat, kernel : Nat, userland : Nat]
    BY <1>1 DEF StartScan, NoCount
  <2>4. dir' \subseteq Pid /\ through' \subseteq Pid /\ monotonic' \in Nat
    BY <1>1 DEF StartScan, Leaders, Alive
  <2> QED
    BY <1>1, <2>2, <2>3, <2>4 DEF StartScan
<1>2. CASE OpenEntry
  <2>1. PICK p \in dir :
           /\ dir' = dir \ {p} /\ cursor' = p
           /\ \/ /\ p \in Alive
                 /\ pc' = "task"
                 /\ entry' = [pid |-> p, inc |-> tasks[p].inc]
                 /\ taskdir' = {t \in Alive : tasks[t].tgid = tasks[p].tgid} \ {p}
                 /\ rows' = IF p \in Listed THEN [rows EXCEPT ![p].tgid = p] ELSE rows
                 /\ UNCHANGED <<dangling, following>>
              \/ /\ p \notin Alive
                 /\ rows' = [rows EXCEPT ![p] = NoRow]
                 /\ Remove({p})
                 /\ UNCHANGED <<pc, entry, taskdir>>
    BY <1>2 DEF OpenEntry
  <2>2. cursor' \in Nat /\ p \in Pid
    BY <2>1, PidAssumption
  <2>3. p \in Listed => [rows[p] EXCEPT !.tgid = p] \in Row
    BY <2>2 DEF Listed, Row
  <2>4. CASE p \in Alive
    <3>1. entry' \in [pid : Pid \cup {0}, inc : Nat] /\ entry'.pid \in Pid
      BY <2>1, <2>2, <2>4 DEF Alive, Task
    <3>2. taskdir' \subseteq Pid
      BY <2>1, <2>4 DEF Alive
    <3>3. rows' \in [Pid -> Row \cup {NoRow}]
      BY <2>1, <2>2, <2>3, <2>4
    <3> QED
      BY <1>2, <2>1, <2>2, <2>4, <3>1, <3>2, <3>3 DEF OpenEntry
  <2>5. CASE p \notin Alive
    <3>1. rows' \in [Pid -> Row \cup {NoRow}]
      BY <2>1, <2>5
    <3>2. dangling' \subseteq treeSet' /\ following' \in Pid \cup {NoPid}
      BY <1>2, <2>1, <2>2, <2>5, RemoveType DEF OpenEntry
    <3> QED
      BY <1>2, <2>1, <2>2, <2>5, <3>1, <3>2 DEF OpenEntry
  <2> QED
    BY <2>4, <2>5
<1>3. CASE ReadTask
  <2> DEFINE here(t) == /\ EntryAlive /\ t \in Alive
                        /\ tasks[t].tgid = tasks[entry.pid].tgid
  <2>1. PICK t \in taskdir :
           /\ taskdir' = taskdir \ {t}
           /\ \/ here(t) /\ ReadEntry(t, entry.pid, TRUE)
              \/ ~here(t) /\ rows' = [rows EXCEPT ![t] = NoRow] /\ Remove({t}) /\ UNCHANGED counts
    BY <1>3 DEF ReadTask
  <2>2. t \in Pid /\ entry.pid \in Pid
    BY <1>3 DEF ReadTask
  <2>3. rows' \in RowFn /\ counts' \in CountType /\ dangling' \subseteq treeSet' /\ following' \in Pid \cup {NoPid}
    <3>1. CASE here(t) /\ ReadEntry(t, entry.pid, TRUE)
      BY <1>3, <2>2, <3>1, ReadEntryType DEF ReadTask
    <3>2. CASE ~here(t) /\ rows' = [rows EXCEPT ![t] = NoRow] /\ Remove({t}) /\ UNCHANGED counts
      <4>1. dangling' \subseteq treeSet' /\ following' \in Pid \cup {NoPid}
        BY <1>3, <2>2, <3>2, RemoveType DEF ReadTask
      <4> QED
        BY <3>2, <4>1 DEF RowFn, CountType
    <3> QED
      BY <2>1, <3>1, <3>2
  <2> QED
    BY <1>3, <2>1, <2>2, <2>3 DEF ReadTask, RowFn, CountType
<1>4. CASE FinishEntry
  <2>1. entry.pid \in Pid /\ EntryAlive \in BOOLEAN /\ (EntryAlive => entry.pid \in Alive)
    BY <1>4 DEF FinishEntry, EntryAlive
  <2>2. rows' \in RowFn /\ counts' \in CountType /\ dangling' \subseteq treeSet' /\ following' \in Pid \cup {NoPid}
    BY <1>4, <2>1, ReadEntryType DEF FinishEntry
  <2>3. entry' \in [pid : Pid \cup {0}, inc : Nat]
    BY <1>4 DEF FinishEntry, NoEntry
  <2> QED
    BY <1>4, <2>2, <2>3 DEF FinishEntry, RowFn, CountType
<1>5. CASE EndScan
  <2>1. Sweep \in RowFn
    BY SweepType
  <2>2. BuildTree(Sweep) \in RowFn
    BY <2>1, BuildTreeType
  <2>3. rows' \in RowFn
    BY <1>5, <2>1, <2>2 DEF EndScan
  <2>4. treeSet' \subseteq Pid /\ dangling' \subseteq treeSet'
    BY <1>5 DEF EndScan, NewTreeSet, Listed
  <2>5. following' \in Pid \cup {NoPid} /\ pc' \in {"rebuild", "abort", "sortTree"}
    BY <1>5 DEF EndScan
  <2> QED
    BY <1>5, <2>3, <2>4, <2>5 DEF EndScan, RowFn
<1>6. CASE SortTree
  BY <1>6 DEF SortTree
<1>7. CASE RebuildPanel
  <2>1. panel' \subseteq Pid
    BY <1>7 DEF RebuildPanel, VisibleRows, Listed
  <2>2. following' \in Pid \cup {NoPid}
    BY <1>7, <2>1 DEF RebuildPanel
  <2> QED
    BY <1>7, <2>1, <2>2 DEF RebuildPanel
<1> QED
  BY <1>1, <1>2, <1>3, <1>4, <1>5, <1>6, <1>7 DEF ScanStep

\* The user's steps.
LEMMA UserTypeInv ==
    ASSUME TypeInv, UserStep \/ Redraw \/ Aborted \/ UNCHANGED vars
    PROVE  TypeInv'
<1> USE DEF TypeInv, TypeOK, scanVars, listVars, userVars, kernelVars, unchangedByCommands
<1>1. CASE ToggleDisplayOption
  <2>1. opts' \in Settings
    BY <1>1 DEF ToggleDisplayOption, Settings
  <2> QED
    BY <1>1, <2>1 DEF ToggleDisplayOption, Command
<1>2. CASE ToggleHidden
  <2>1. opts' \in Settings
    BY <1>2 DEF ToggleHidden, Settings
  <2> QED
    BY <1>2, <2>1 DEF ToggleHidden, Command, Refresh
<1>3. CASE ToggleTreeView
  <2>1. opts' \in Settings
    BY <1>3 DEF ToggleTreeView, Settings
  <2>2. \A p \in Listed : [rows[p] EXCEPT !.showChildren = TRUE] \in Row
    BY DEF Listed, Row
  <2>3. rows' \in [Pid -> Row \cup {NoRow}]
    BY <1>3, <2>2 DEF ToggleTreeView
  <2> QED
    BY <1>3, <2>1, <2>3 DEF ToggleTreeView, Command, Refresh
<1>4. CASE TogglePause
  BY <1>4 DEF TogglePause, Command, Refresh
<1>5. CASE InvertSort
  BY <1>5 DEF InvertSort, Command, Refresh
<1>6. CASE ExpandOrCollapse
  <2>1. PICK p \in panel \cap Listed : rows' = [rows EXCEPT ![p].showChildren = ~@]
    BY <1>6 DEF ExpandOrCollapse
  <2>2. [rows[p] EXCEPT !.showChildren = ~rows[p].showChildren] \in Row
    BY DEF Listed, Row
  <2>3. rows' \in [Pid -> Row \cup {NoRow}]
    BY <2>1, <2>2
  <2> QED
    BY <1>6, <2>3 DEF ExpandOrCollapse, Command, Refresh
<1>7. CASE Follow
  BY <1>7 DEF Follow, Command
<1>8. CASE SetFilter
  BY <1>8 DEF SetFilter, Command, Refresh
<1>9. CASE Redraw
  BY <1>9 DEF Redraw
<1>10. CASE Aborted \/ UNCHANGED vars
  BY <1>10 DEF Aborted, vars
<1> QED
  BY <1>1, <1>2, <1>3, <1>4, <1>5, <1>6, <1>7, <1>8, <1>9, <1>10 DEF UserStep

\* Every variable keeps its type, at every moment of a scan.
THEOREM TypeCorrect == Spec => []TypeOK
<1>1. Init => TypeInv
  BY InitTypeInv
<1>2. TypeInv /\ [Next]_vars => TypeInv'
  BY KernelTypeInv, ScanTypeInv, UserTypeInv DEF Next
<1>3. TypeInv => TypeOK
  BY DEF TypeInv
<1> QED
  BY <1>1, <1>2, <1>3, PTL DEF Spec

-----------------------------------------------------------------------------
(* The list while it is scanned.                                            *)

\* What a step may do to the list in the middle of a scan: a row stays with its
\* tombstone, is new and without one, or goes, and then it is not followed.
ListStep ==
    /\ \A q \in Pid : q \in Listed' =>
          (q \in Listed /\ rows'[q].tomb = rows[q].tomb) \/ rows'[q].tomb = 0
    /\ \A q \in Pid : q \in Listed /\ q \notin Listed' => following' # q
    /\ following' \in {following, NoPid}

LEMMA RemoveListStep ==
    ASSUME TypeOK, NEW p \in Pid, rows' = [rows EXCEPT ![p] = NoRow], Remove({p})
    PROVE  ListStep
<1>1. NoPid \notin Pid
  BY PidAssumption DEF NoPid
<1>2. rows'[p] = NoRow /\ \A q \in Pid \ {p} : rows'[q] = rows[q]
  BY DEF TypeOK
<1>3. following' \in {following, NoPid} /\ following' # p
  BY <1>1 DEF Remove
<1> QED
  BY <1>2, <1>3 DEF ListStep, Listed

LEMMA ReadEntryListStep ==
    ASSUME TypeOK, NEW p \in Pid, NEW g \in Pid, NEW readable \in BOOLEAN,
           readable => p \in Alive, ReadEntry(p, g, readable)
    PROVE  ListStep
<1> USE DEF ListStep, Listed
<1>1. CASE Shortcut(p, g) /\ rows' = [rows EXCEPT ![p].updated = TRUE, ![p].show = FALSE, ![p].tgid = g]
           /\ UNCHANGED <<dangling, following>>
  <2>1. rows[p] \in Row
    BY <1>1 DEF Shortcut, TypeOK
  <2>2. /\ [rows[p] EXCEPT !.updated = TRUE, !.show = FALSE, !.tgid = g] \in Row
        /\ [rows[p] EXCEPT !.updated = TRUE, !.show = FALSE, !.tgid = g].tomb = rows[p].tomb
    BY <2>1 DEF Row
  <2>3. rows'[p] # NoRow /\ rows'[p].tomb = rows[p].tomb /\ \A q \in Pid \ {p} : rows'[q] = rows[q]
    BY <1>1, <2>2, NoRowAssumption DEF TypeOK
  <2> QED
    BY <1>1, <2>1, <2>3, NoRowAssumption
<1>2. CASE ~Shortcut(p, g) /\ readable /\ rows' = [rows EXCEPT ![p] = ReadRow(p, g)]
           /\ UNCHANGED <<dangling, following>>
  <2>1. ReadRow(p, g) \in Row
    BY <1>2, ReadRowType
  <2>2. ReadRow(p, g).tomb = IF p \in Listed THEN rows[p].tomb ELSE 0
    BY <1>2 DEF ReadRow, NewRow, TypeOK, Row
  <2>3. rows'[p] # NoRow /\ rows'[p].tomb = ReadRow(p, g).tomb /\ \A q \in Pid \ {p} : rows'[q] = rows[q]
    BY <1>2, <2>1, NoRowAssumption DEF TypeOK
  <2> QED
    BY <1>2, <2>2, <2>3
<1>3. CASE ~Shortcut(p, g) /\ ~readable /\ rows' = [rows EXCEPT ![p] = NoRow] /\ Remove({p})
  BY <1>3, RemoveListStep
<1> QED
  BY <1>1, <1>2, <1>3 DEF ReadEntry

LEMMA ScanListStep ==
    ASSUME TypeInv, OpenEntry \/ ReadTask \/ FinishEntry
    PROVE  ListStep
<1>1. CASE OpenEntry
  <2>1. PICK p \in Pid :
           \/ /\ p \in Alive
              /\ rows' = IF p \in Listed THEN [rows EXCEPT ![p].tgid = p] ELSE rows
              /\ UNCHANGED <<dangling, following>>
           \/ rows' = [rows EXCEPT ![p] = NoRow] /\ Remove({p})
    BY <1>1 DEF OpenEntry, TypeInv, TypeOK
  <2>2. CASE p \in Listed /\ rows' = [rows EXCEPT ![p].tgid = p] /\ UNCHANGED following
    <3>1. [rows[p] EXCEPT !.tgid = p] \in Row /\ [rows[p] EXCEPT !.tgid = p].tomb = rows[p].tomb
      BY <2>2 DEF TypeInv, TypeOK, Listed, Row
    <3>2. /\ rows'[p] # NoRow /\ rows'[p].tomb = rows[p].tomb
          /\ \A q \in Pid \ {p} : rows'[q] = rows[q]
      BY <2>2, <3>1, NoRowAssumption DEF TypeInv, TypeOK
    <3> QED
      BY <2>2, <3>2 DEF ListStep, Listed
  <2>3. CASE rows' = rows /\ UNCHANGED following
    BY <2>3 DEF ListStep, Listed
  <2>4. CASE rows' = [rows EXCEPT ![p] = NoRow] /\ Remove({p})
    BY <2>4, RemoveListStep DEF TypeInv
  <2> QED
    BY <2>1, <2>2, <2>3, <2>4
<1>2. CASE ReadTask
  <2>1. PICK t \in Pid, ok \in BOOLEAN :
           \/ ok /\ t \in Alive /\ ReadEntry(t, entry.pid, TRUE)
           \/ rows' = [rows EXCEPT ![t] = NoRow] /\ Remove({t})
    BY <1>2 DEF ReadTask, TypeInv, TypeOK
  <2>2. entry.pid \in Pid
    BY <1>2 DEF ReadTask, TypeInv
  <2>3. CASE t \in Alive /\ ReadEntry(t, entry.pid, TRUE)
    BY <2>2, <2>3, ReadEntryListStep DEF TypeInv
  <2>4. CASE rows' = [rows EXCEPT ![t] = NoRow] /\ Remove({t})
    BY <2>4, RemoveListStep DEF TypeInv
  <2> QED
    BY <2>1, <2>3, <2>4
<1>3. CASE FinishEntry
  <2>1. entry.pid \in Pid /\ EntryAlive \in BOOLEAN /\ (EntryAlive => entry.pid \in Alive)
    BY <1>3 DEF FinishEntry, EntryAlive, TypeInv
  <2> QED
    BY <1>3, <2>1, ReadEntryListStep DEF FinishEntry, TypeInv
<1> QED
  BY <1>1, <1>2, <1>3

\* Which rows the end of a scan leaves, with which tombstones.
LEMMA EndScanList ==
    ASSUME TypeInv, EndScan
    PROVE  /\ Listed' = Listed \ SweptAway
           /\ \A p \in Listed' : rows'[p].tomb = IF Entombed(rows[p]) THEN monotonic + Delay
                                                 ELSE rows[p].tomb
<1>1. Sweep \in RowFn
  BY SweepType DEF TypeInv
<1>2. \A p \in Pid : Sweep[p] = NoRow <=> p \notin Listed \/ p \in SweptAway
  BY SweepType DEF TypeInv
<1>3. rows' = Sweep \/ rows' = BuildTree(Sweep)
  BY DEF EndScan
<1>4. \A p \in Pid : /\ rows'[p] = NoRow <=> Sweep[p] = NoRow
                     /\ Sweep[p] # NoRow => rows'[p].tomb = Sweep[p].tomb
  BY <1>1, <1>3, BuildTreeType
<1>5. \A p \in Listed \ SweptAway :
         Sweep[p].tomb = IF Entombed(rows[p]) THEN monotonic + Delay ELSE rows[p].tomb
  BY DEF Sweep, TypeInv, TypeOK, Listed, Row
<1>6. Listed' = Listed \ SweptAway
  BY <1>2, <1>4 DEF Listed
<1> QED
  BY <1>2, <1>4, <1>5, <1>6 DEF Listed

\* The steps outside a scan keep the set of rows and their tombstones.
LEMMA QuietList ==
    ASSUME TypeInv, KernelStep \/ StartScan \/ SortTree \/ RebuildPanel \/ Redraw
                    \/ UserStep \/ Aborted \/ UNCHANGED vars
    PROVE  Listed' = Listed /\ \A p \in Listed : rows'[p].tomb = rows[p].tomb
<1> USE DEF TypeInv, TypeOK, Listed, Row
<1>1. CASE StartScan
  <2>1. ASSUME NEW p \in Listed
        PROVE  rows'[p] # NoRow /\ rows'[p].tomb = rows[p].tomb
    <3> DEFINE r == [rows[p] EXCEPT !.updated = FALSE, !.wasShown = rows[p].show, !.show = TRUE]
    <3>1. r \in Row /\ r.tomb = rows[p].tomb
      OBVIOUS
    <3>2. rows'[p] = r
      BY <1>1 DEF StartScan
    <3> QED
      BY <3>1, <3>2, NoRowAssumption
  <2>2. \A p \in Pid \ Listed : rows'[p] = NoRow
    BY <1>1 DEF StartScan
  <2> QED
    BY <2>1, <2>2
<1>2. CASE ToggleTreeView
  <2>1. \A p \in Listed : LET r == [rows[p] EXCEPT !.showChildren = TRUE]
                          IN r \in Row /\ r.tomb = rows[p].tomb
    OBVIOUS
  <2> QED
    BY <1>2, <2>1, NoRowAssumption DEF ToggleTreeView
<1>3. CASE ExpandOrCollapse
  <2>1. PICK p \in panel \cap Listed : rows' = [rows EXCEPT ![p].showChildren = ~@]
    BY <1>3 DEF ExpandOrCollapse
  <2>2. LET r == [rows[p] EXCEPT !.showChildren = ~rows[p].showChildren]
        IN r \in Row /\ r.tomb = rows[p].tomb
    OBVIOUS
  <2> QED
    BY <2>1, <2>2, NoRowAssumption
<1>4. CASE KernelStep \/ SortTree \/ RebuildPanel \/ Redraw \/ Aborted \/ UNCHANGED vars
  BY <1>4 DEF KernelStep, Fork, Clone, Exit, Tick, SortTree, RebuildPanel, Redraw, Aborted, vars, listVars
<1>5. CASE ToggleDisplayOption \/ ToggleHidden \/ TogglePause \/ InvertSort \/ Follow \/ SetFilter
  BY <1>5 DEF ToggleDisplayOption, ToggleHidden, TogglePause, InvertSort, Follow, SetFilter
<1> QED
  BY <1>1, <1>2, <1>3, <1>4, <1>5 DEF UserStep

-----------------------------------------------------------------------------
(* The followed process and the rows of the panel.                          *)

ViewInv == FollowingListed /\ PanelLive

LEMMA ViewStep ==
    ASSUME TypeInv, TypeInv', ViewInv, [Next]_vars
    PROVE  ViewInv'
<1>0. NoPid \notin Pid
  BY PidAssumption DEF NoPid
<1> USE DEF ViewInv, FollowingListed, PanelLive
<1>1. CASE OpenEntry \/ ReadTask \/ FinishEntry
  <2>1. ListStep
    BY <1>1, ScanListStep
  <2>2. pc' # "idle"
    BY <1>1 DEF OpenEntry, ReadTask, FinishEntry
  <2> QED
    BY <1>0, <2>1, <2>2 DEF ListStep, Listed
<1>2. CASE EndScan
  <2>1. Listed' = Listed \ SweptAway
    BY <1>2, EndScanList
  <2>2. pc' # "idle" /\ following' = IF following \in SweptAway THEN NoPid ELSE following
    BY <1>2 DEF EndScan
  <2> QED
    BY <2>1, <2>2
<1>3. CASE StartScan
  <2>1. Listed' = Listed
    BY <1>3, QuietList
  <2> QED
    BY <1>3, <2>1 DEF StartScan
<1>4. CASE RebuildPanel
  <2>1. Listed' = Listed /\ panel' \subseteq Listed
    BY <1>4, QuietList DEF RebuildPanel, VisibleRows
  <2> QED
    BY <1>4, <2>1 DEF RebuildPanel
<1>5. CASE SortTree \/ Redraw
  <2>1. Listed' = Listed
    BY <1>5, QuietList
  <2> QED
    BY <1>5, <2>1 DEF SortTree, Redraw, listVars
<1>6. CASE KernelStep \/ Aborted \/ UNCHANGED vars
  <2>1. Listed' = Listed
    BY <1>6, QuietList
  <2>2. UNCHANGED <<following, panel, pc>>
    BY <1>6 DEF KernelStep, Fork, Clone, Exit, Tick, Aborted, vars, listVars
  <2> QED
    BY <2>1, <2>2
<1>7. CASE UserStep
  <2>1. Listed' = Listed
    BY <1>7, QuietList
  <2>2. pc = "idle" /\ panel' = panel
    BY <1>7 DEF UserStep, ToggleDisplayOption, ToggleHidden, ToggleTreeView, TogglePause,
                InvertSort, ExpandOrCollapse, Follow, SetFilter, Command, unchangedByCommands
  <2>3. following' \in panel \cup {following, NoPid}
    BY <1>7 DEF UserStep, ToggleDisplayOption, ToggleHidden, ToggleTreeView, TogglePause,
                InvertSort, ExpandOrCollapse, Follow, SetFilter, Refresh
  <2> QED
    BY <2>1, <2>2, <2>3
<1> QED
  BY <1>1, <1>2, <1>3, <1>4, <1>5, <1>6, <1>7 DEF Next, ScanStep

LEMMA TypeInvStep == TypeInv /\ [Next]_vars => TypeInv'
BY KernelTypeInv, ScanTypeInv, UserTypeInv DEF Next

\* The followed process is in the list at every moment, the middle of a scan
\* included, and whenever the user can act every row of the panel is listed.
THEOREM ViewCorrect == Spec => [](FollowingListed /\ PanelLive)
<1>1. Init => TypeInv /\ ViewInv
  BY InitTypeInv DEF Init, ViewInv, FollowingListed, PanelLive
<1>2. TypeInv /\ ViewInv /\ [Next]_vars => (TypeInv /\ ViewInv)'
  BY TypeInvStep, ViewStep
<1>3. ViewInv => FollowingListed /\ PanelLive
  BY DEF ViewInv
<1> QED
  BY <1>1, <1>2, <1>3, PTL DEF Spec

-----------------------------------------------------------------------------
(* Tombstones.                                                              *)

\* Scans are stamped by a clock that only goes forward, 0 before the first.
ClockInv == monotonic <= now /\ (~firstDone => monotonic = 0)

TombInv == ClockInv /\ TombsTimely

LEMMA UserKeepsClock ==
    ASSUME UserStep
    PROVE  UNCHANGED <<monotonic, firstDone, now, treeSet, dangling>>
<1>1. UNCHANGED unchangedByCommands
  BY DEF UserStep, ToggleDisplayOption, ToggleHidden, ToggleTreeView, TogglePause,
         InvertSort, ExpandOrCollapse, Follow, SetFilter, unchangedByCommands
<1> QED
  BY <1>1 DEF unchangedByCommands, kernelVars, scanVars

LEMMA ClockStep ==
    ASSUME TypeInv, ClockInv, [Next]_vars
    PROVE  ClockInv' /\ monotonic' >= monotonic /\ (~StartScan => monotonic' = monotonic)
<1>1. now \in Nat /\ monotonic \in Nat
  BY DEF TypeInv, TypeOK
<1> USE DEF ClockInv
<1>2. CASE StartScan
  <2>1. now' = now /\ firstDone' = TRUE /\ monotonic' = IF firstDone THEN now ELSE 0
    BY <1>2 DEF StartScan, kernelVars
  <2>2. CASE firstDone
    BY <1>1, <1>2, <2>1, <2>2
  <2>3. CASE ~firstDone
    BY <1>1, <1>2, <2>1, <2>3
  <2> QED
    BY <2>2, <2>3
<1>3. CASE Tick
  <2>1. now' = now + 1 /\ UNCHANGED <<monotonic, firstDone>>
    BY <1>3 DEF Tick
  <2> QED
    BY <1>1, <2>1
<1>4. CASE ~StartScan /\ ~Tick
  <2>1. KernelStep => UNCHANGED <<monotonic, firstDone, now>>
    BY <1>4 DEF KernelStep, Fork, Exit, Clone
  <2>2. OpenEntry \/ ReadTask \/ FinishEntry => UNCHANGED <<monotonic, firstDone, now>>
    BY DEF OpenEntry, ReadTask, FinishEntry, kernelVars
  <2>3. EndScan \/ SortTree \/ RebuildPanel \/ Redraw \/ Aborted \/ UNCHANGED vars
        => UNCHANGED <<monotonic, firstDone, now>>
    BY DEF EndScan, SortTree, RebuildPanel, Redraw, Aborted, vars, kernelVars
  <2>4. UserStep => UNCHANGED <<monotonic, firstDone, now>>
    BY UserKeepsClock
  <2>5. UNCHANGED <<monotonic, firstDone, now>>
    BY <1>4, <2>1, <2>2, <2>3, <2>4 DEF Next, ScanStep
  <2> QED
    BY <1>1, <2>5
<1> QED
  BY <1>2, <1>3, <1>4

LEMMA TombStep ==
    ASSUME TypeInv, TypeInv', TombInv, [Next]_vars
    PROVE  TombInv'
<1>1. ClockInv' /\ monotonic' >= monotonic /\ (~StartScan => monotonic' = monotonic)
  BY ClockStep DEF TombInv
<1>2. \A p \in Listed : rows[p].tomb \in Nat
  BY DEF TypeInv, TypeOK, Listed, Row
<1>3. monotonic \in Nat /\ monotonic' \in Nat /\ Delay \in Nat \ {0}
  BY BoundAssumption DEF TypeInv, TypeOK
<1> USE DEF TombInv, TombsTimely
<1>4. CASE OpenEntry \/ ReadTask \/ FinishEntry
  <2>1. ListStep
    BY <1>4, ScanListStep
  <2>2. pc' \notin {"idle", "sortTree", "rebuild"}
    BY <1>4 DEF OpenEntry, ReadTask, FinishEntry
  <2>3. \A q \in Listed' : (q \in Listed /\ rows'[q].tomb = rows[q].tomb) \/ rows'[q].tomb = 0
    BY <2>1 DEF ListStep, Listed
  <2> QED
    BY <1>1, <1>2, <1>3, <2>2, <2>3
<1>5. CASE EndScan
  <2>1. Listed' = Listed \ SweptAway
    BY <1>5, EndScanList
  <2>2. \A p \in Listed' : rows'[p].tomb = IF Entombed(rows[p]) THEN monotonic + Delay ELSE rows[p].tomb
    BY <1>5, EndScanList
  <2>3. monotonic' = monotonic
    BY <1>5 DEF EndScan
  <2>4. \A p \in Listed' : ~Expired(rows[p])
    BY <2>1 DEF SweptAway
  <2> QED
    BY <1>1, <1>2, <1>3, <2>1, <2>2, <2>3, <2>4 DEF Expired
<1>6. CASE StartScan
  <2>1. Listed' = Listed /\ \A p \in Listed : rows'[p].tomb = rows[p].tomb
    BY <1>6, QuietList
  <2>2. pc' = "dir"
    BY <1>6 DEF StartScan
  <2> QED
    BY <1>1, <1>2, <1>3, <2>1, <2>2
<1>7. CASE ~StartScan /\ (KernelStep \/ SortTree \/ RebuildPanel \/ Redraw \/ UserStep \/ Aborted \/ UNCHANGED vars)
  <2>1. Listed' = Listed /\ \A p \in Listed : rows'[p].tomb = rows[p].tomb
    BY <1>7, QuietList
  <2>2. pc' \in {"idle", "sortTree", "rebuild"} => pc \in {"idle", "sortTree", "rebuild"}
    BY <1>7 DEF KernelStep, Fork, Clone, Exit, Tick, SortTree, RebuildPanel, Redraw, Aborted, vars,
                UserStep, ToggleDisplayOption, ToggleHidden, ToggleTreeView, TogglePause,
                InvertSort, ExpandOrCollapse, Follow, SetFilter, Command, unchangedByCommands
  <2> QED
    BY <1>1, <1>2, <1>3, <1>7, <2>1, <2>2
<1> QED
  BY <1>4, <1>5, <1>6, <1>7 DEF Next, ScanStep

\* Outside the reading phase of a scan no expired tombstone is left, and no
\* tombstone is ever stamped further ahead than the highlight delay.
THEOREM TombsCorrect == Spec => []TombsTimely
<1>1. Init => TypeInv /\ TombInv
  BY InitTypeInv DEF Init, TombInv, ClockInv, TombsTimely, Listed
<1>2. TypeInv /\ TombInv /\ [Next]_vars => (TypeInv /\ TombInv)'
  BY TypeInvStep, TombStep
<1>3. TombInv => TombsTimely
  BY DEF TombInv
<1> QED
  BY <1>1, <1>2, <1>3, PTL DEF Spec

-----------------------------------------------------------------------------
(* The tree set.                                                            *)

TreeInv == TreeSetFresh

LEMMA TreeStep ==
    ASSUME TypeInv, TreeInv, [Next]_vars
    PROVE  TreeInv'
<1> USE DEF TreeInv, TreeSetFresh
<1>1. CASE EndScan
  <2>1. Listed' = Listed \ SweptAway
    BY <1>1, EndScanList
  <2> QED
    BY <1>1, <2>1 DEF EndScan, NewTreeSet, userVars
<1>2. CASE KernelStep \/ Aborted \/ UNCHANGED vars
  <2>1. Listed' = Listed
    BY <1>2, QuietList
  <2>2. UNCHANGED <<treeSet, dangling, paused, pc>>
    BY <1>2 DEF KernelStep, Fork, Clone, Exit, Tick, Aborted, vars, listVars, userVars
  <2> QED
    BY <2>1, <2>2
<1>3. CASE StartScan \/ OpenEntry \/ ReadTask \/ FinishEntry
  <2>1. paused' = paused
    BY <1>3 DEF StartScan, OpenEntry, ReadTask, FinishEntry, userVars
  <2>2. pc' # "sortTree"
    BY <1>3 DEF StartScan, OpenEntry, ReadTask, FinishEntry
  <2> QED
    BY <2>1, <2>2
<1>4. CASE SortTree \/ RebuildPanel \/ Redraw
  <2>1. paused' = paused /\ pc' # "sortTree"
    BY <1>4 DEF SortTree, RebuildPanel, Redraw, userVars
  <2> QED
    BY <2>1
<1>5. CASE UserStep
  <2>1. CASE InvertSort
    BY <2>1 DEF InvertSort, userVars
  <2>2. CASE TogglePause
    <3>1. pc' = "idle"
      BY <2>2 DEF TogglePause, Command
    <3> QED
      BY <3>1
  <2>3. CASE ToggleDisplayOption \/ ToggleHidden \/ ToggleTreeView
    <3>1. pc' = "idle" /\ paused' = paused
      BY <2>3 DEF ToggleDisplayOption, ToggleHidden, ToggleTreeView, Command
    <3> QED
      BY <3>1
  <2>4. CASE ExpandOrCollapse \/ Follow \/ SetFilter
    <3>1. pc' = "idle" /\ paused' = paused
      BY <2>4 DEF ExpandOrCollapse, Follow, SetFilter, Command, userVars
    <3> QED
      BY <3>1
  <2> QED
    BY <1>5, <2>1, <2>2, <2>3, <2>4 DEF UserStep
<1> QED
  BY <1>1, <1>2, <1>3, <1>4, <1>5 DEF Next, ScanStep

\* Unless updates are paused, updateTreeSet always finds exactly the listed
\* processes in displayTreeSet and none that was freed.
THEOREM TreeSetCorrect == Spec => []TreeSetFresh
<1>1. Init => TypeInv /\ TreeInv
  BY InitTypeInv DEF Init, TreeInv, TreeSetFresh
<1>2. TypeInv /\ TreeInv /\ [Next]_vars => (TypeInv /\ TreeInv)'
  BY TypeInvStep, TreeStep
<1>3. TreeInv => TreeSetFresh
  BY DEF TreeInv
<1> QED
  BY <1>1, <1>2, <1>3, PTL DEF Spec

-----------------------------------------------------------------------------
(****************************************************************************)
(* What a finished scan of ProcessList has found, and what a paused list    *)
(* keeps.                                                                   *)
(*                                                                          *)
(* A scan reads /proc in many steps while the kernel starts and ends tasks  *)
(* between any two of them.  That it lists every task that lived through it *)
(* holds as long as no pid is given out twice (MaxInc = 1): a reused pid    *)
(* can make a thread's entry be opened as a leader's, and then the end of   *)
(* the thread removes the row of its leader.                                *)
(****************************************************************************)

Born == {p \in Pid : born[p] > 0}
Reading == pc \in {"dir", "task"}
Updated == {p \in Listed : rows[p].updated}

\* Every task belongs to the group of a leader that is alive.
GroupInv ==
    /\ Alive \subseteq Born
    /\ \A p \in Alive : tasks[p].tgid \in Leaders

\* The scan knows no pid that was never given out.
SeenInv ==
    /\ Listed \subseteq Born /\ dir \subseteq Born /\ taskdir \subseteq Born
    /\ through \subseteq Alive

\* What is still to be read is read once: leaders in dir, the threads of the
\* opened entry in taskdir, and the opened entry itself.
DirInv ==
    /\ \A q \in dir \cap Alive : tasks[q].tgid = q
    /\ dir \cap taskdir = {}
    /\ pc = "task" =>
          /\ entry.pid \in Born \ (dir \cup taskdir)
          /\ entry.pid \in Alive => /\ tasks[entry.pid].inc = entry.inc
                                    /\ tasks[entry.pid].tgid = entry.pid
          /\ \A t \in taskdir \cap Alive : tasks[t].tgid = entry.pid
    /\ pc # "task" => taskdir = {}
    /\ ~Reading => dir = {}

\* No updated row is still to be read, as itself or as a thread of its leader.
UnreadInv ==
    /\ Updated \cap (dir \cup taskdir) = {}
    /\ pc = "task" => entry.pid \notin Updated
    /\ \A t \in Updated \cap Alive : tasks[t].tgid \notin dir

\* A task that lived through the scan so far has an updated row, or it will be
\* reached from the rest of dir and taskdir; an old row that no scan updates
\* has no live task.
ReachInv ==
    /\ \A p \in through : \/ p \in Updated
                          \/ tasks[p].tgid \in dir
                          \/ pc = "task" /\ p \in taskdir \cup {entry.pid}
    /\ Listed \cap Alive \subseteq Updated \cup through

\* A tombed row is of a dead task, and no scan reads it again.
GraveInv ==
    \A p \in Listed : rows[p].tomb > 0 =>
        /\ p \notin Alive \cup Updated \cup dir
        /\ pc = "task" => p # entry.pid

CountInv ==
    /\ counts.total = Cardinality(Updated)
    /\ counts.userland + counts.kernel <= counts.total

KindInv == \A p \in Listed \cap Alive : rows[p].kth = tasks[p].kth

\* An updated row is shown as the settings want it while the scan reads and,
\* in list mode, until the user asks for another scan.
RightlyShown(p) ==
    rows[p].show = ~ \/ opts.hideKernel /\ tasks[p].kth
                     \/ opts.hideUserland /\ tasks[p].tgid # p
InEffect ==
    \/ Reading
    \/ ~paused /\ ~opts.tree /\ (pc \in {"sortTree", "rebuild"} \/ (pc = "idle" /\ ~rescan))
ShowInv == InEffect => \A p \in Updated \cap Alive : RightlyShown(p)

ScanInv == /\ GroupInv /\ SeenInv /\ DirInv /\ UnreadInv /\ ReachInv
           /\ GraveInv /\ CountInv /\ KindInv /\ ShowInv

-----------------------------------------------------------------------------
(* What the steps do to the things ScanInv is about.                        *)

unchangedByKernel == <<rows, counts, pc, entry, opts, paused, rescan>>

\* A pid that was never given out gets its first task.
StartsAt(p) ==
    /\ p \in Pid \ Born /\ Born' = Born \cup {p} /\ Alive' = Alive \cup {p}
    /\ \A q \in Pid \ {p} : tasks'[q] = tasks[q]
    /\ \/ /\ tasks'[p].tgid = p /\ taskdir' = taskdir
          /\ dir' = dir \/ (dir' = dir \cup {p} /\ Reading)
       \/ /\ tasks'[p].tgid \in Leaders /\ tasks'[p].tgid # p /\ dir' = dir
          /\ \/ taskdir' = taskdir
             \/ taskdir' = taskdir \cup {p} /\ pc = "task" /\ tasks'[p].tgid = entry.pid
    /\ UNCHANGED <<unchangedByKernel, through>>

\* The tasks G end; no task that goes on is of a group whose leader ended.
EndsAll(G) ==
    /\ Alive' = Alive \ G /\ Born' = Born
    /\ \A q \in Alive' : /\ tasks'[q].tgid = tasks[q].tgid /\ tasks'[q].inc = tasks[q].inc
                         /\ tasks'[q].kth = tasks[q].kth /\ tasks[q].tgid \notin G
    /\ through' = through \ G
    /\ dir' \in {dir, dir \ G} /\ taskdir' \in {taskdir, taskdir \ G}
    /\ UNCHANGED unchangedByKernel

LEMMA SpawnFacts ==
    ASSUME MaxInc = 1, TypeInv, GroupInv, NEW p \in Pid, NEW g \in Pid,
           NEW par \in Pid \cup {0}, NEW k \in BOOLEAN, Spawn(p, g, par, k)
    PROVE  /\ p \in Pid \ Born /\ Born' = Born \cup {p} /\ Alive' = Alive \cup {p}
           /\ \A q \in Pid \ {p} : tasks'[q] = tasks[q]
           /\ tasks'[p].tgid = g
<1> DEFINE t == [inc |-> born[p] + 1, tgid |-> g, ppid |-> par, kth |-> k]
<1>1. born[p] \in Nat /\ born[p] < 1 /\ born \in [Pid -> Nat] /\ tasks \in [Pid -> Task \cup {NoTask}]
  BY DEF Spawn, TypeInv, TypeOK
<1>2. t \in Task /\ t # NoTask /\ t.tgid = g
  BY <1>1, NoTaskAssumption DEF Task
<1> HIDE DEF t
<1>3. tasks' = [tasks EXCEPT ![p] = t] /\ born' = [born EXCEPT ![p] = @ + 1]
  BY DEF Spawn, t
<1>4. \A q \in Pid : /\ tasks'[q] = IF q = p THEN t ELSE tasks[q]
                     /\ born'[q] = IF q = p THEN born[p] + 1 ELSE born[q]
  BY <1>1, <1>3
<1> QED
  BY <1>1, <1>2, <1>4 DEF Born, Alive

LEMMA ForkFacts ==
    ASSUME MaxInc = 1, TypeInv, GroupInv, NEW p \in Pid, Fork(p)
    PROVE  StartsAt(p)
<1>1. PICK par \in {0} \cup {q \in Leaders : ~tasks[q].kth}, k \in BOOLEAN : Spawn(p, p, par, k)
  BY DEF Fork
<1>2. par \in Pid \cup {0}
  BY DEF Leaders, Alive
<1>3. /\ p \in Pid \ Born /\ Born' = Born \cup {p} /\ Alive' = Alive \cup {p}
      /\ \A q \in Pid \ {p} : tasks'[q] = tasks[q]
      /\ tasks'[p].tgid = p
  BY <1>1, <1>2, SpawnFacts
<1>4. dir' = dir \/ (dir' = dir \cup {p} /\ Reading)
  BY DEF Fork, MayAppear, Reading
<1>5. taskdir' = taskdir /\ UNCHANGED <<unchangedByKernel, through>>
  BY DEF Fork, unchangedByKernel, listVars, userVars
<1> QED
  BY <1>3, <1>4, <1>5 DEF StartsAt

LEMMA CloneFacts ==
    ASSUME MaxInc = 1, TypeInv, GroupInv, NEW l \in Pid, NEW t \in Pid, Clone(l, t)
    PROVE  StartsAt(t)
<1>1. l \in Leaders /\ l # t /\ Spawn(t, l, tasks[l].ppid, FALSE)
  BY DEF Clone
<1>2. tasks[l].ppid \in Pid \cup {0}
  BY <1>1 DEF Leaders, Alive, TypeInv, TypeOK, Task
<1>3. /\ t \in Pid \ Born /\ Born' = Born \cup {t} /\ Alive' = Alive \cup {t}
      /\ \A q \in Pid \ {t} : tasks'[q] = tasks[q]
      /\ tasks'[t].tgid = l
  BY <1>1, <1>2, SpawnFacts
<1>4. taskdir' = taskdir \/ (taskdir' = taskdir \cup {t} /\ pc = "task" /\ entry.pid = l)
  BY DEF Clone, MayAppear
<1>5. dir' = dir /\ UNCHANGED <<unchangedByKernel, through>>
  BY DEF Clone, unchangedByKernel, listVars, userVars
<1> QED
  BY <1>1, <1>3, <1>4, <1>5 DEF StartsAt

LEMMA ExitFacts ==
    ASSUME TypeInv, GroupInv, NEW p \in Pid, Exit(p)
    PROVE  \E G \in SUBSET Alive : EndsAll(G)
<1> DEFINE G == {p} \cup {q \in Alive : tasks[q].tgid = p}
<1>1. G \subseteq Alive
  BY DEF Exit
<1>2. /\ tasks' = [q \in Pid |->
             IF q \in G THEN NoTask
             ELSE IF q \in Alive /\ tasks[q].ppid = p THEN [tasks[q] EXCEPT !.ppid = 0]
             ELSE tasks[q]]
      /\ through' = through \ G
      /\ dir' \in {dir, dir \ G} /\ taskdir' \in {taskdir, taskdir \ G}
      /\ UNCHANGED <<born, unchangedByKernel>>
  BY DEF Exit, listVars, userVars, unchangedByKernel
<1>3. ASSUME NEW q \in Alive \ G
      PROVE  tasks[q].tgid \notin G
  <2>1. tasks[q].tgid \in Leaders /\ tasks[q].tgid # p
    BY <1>3 DEF GroupInv
  <2> QED
    BY <2>1 DEF Leaders
<1> HIDE DEF G
<1>4. \A q \in Alive : LET r == [tasks[q] EXCEPT !.ppid = 0] IN
         /\ r \in Task /\ r # NoTask
         /\ r.tgid = tasks[q].tgid /\ r.inc = tasks[q].inc /\ r.kth = tasks[q].kth
  BY NoTaskAssumption DEF Alive, TypeInv, TypeOK, Task
<1>5. Alive' = Alive \ G
  BY <1>1, <1>2, <1>4 DEF Alive
<1>6. \A q \in Alive' : /\ tasks'[q].tgid = tasks[q].tgid /\ tasks'[q].inc = tasks[q].inc
                        /\ tasks'[q].kth = tasks[q].kth /\ tasks[q].tgid \notin G
  <2> TAKE q \in Alive'
  <2>1. q \in Alive \ G /\ q \in Pid
    BY <1>5 DEF Alive
  <2>2. CASE tasks[q].ppid = p
    BY <1>2, <1>3, <1>4, <2>1, <2>2
  <2>3. CASE tasks[q].ppid # p
    BY <1>2, <1>3, <2>1, <2>3
  <2> QED
    BY <2>2, <2>3
<1>7. Born' = Born
  BY <1>2 DEF Born
<1> QED
  BY <1>1, <1>2, <1>5, <1>6, <1>7 DEF EndsAll

-----------------------------------------------------------------------------
(* The kernel keeps ScanInv.                                                *)

LEMMA StartKeepsScan ==
    ASSUME TypeInv, ScanInv, NEW p \in Pid, StartsAt(p)
    PROVE  ScanInv'
<1> USE DEF ScanInv, StartsAt, unchangedByKernel
<1>1. Listed' = Listed /\ Updated' = Updated /\ p \notin Listed
  BY DEF Updated, Listed, SeenInv
<1>2. Reading' = Reading /\ Alive \subseteq Pid /\ p \notin Alive /\ p \notin dir \cup taskdir
  BY DEF Reading, Alive, GroupInv, SeenInv
<1>3. GroupInv'
  BY <1>2 DEF GroupInv, Leaders
<1>4. SeenInv'
  BY <1>1 DEF SeenInv
<1>5. DirInv'
  <2>1. dir' \cap taskdir' = {} /\ dir' \cup taskdir' \subseteq dir \cup taskdir \cup {p}
    BY <1>2 DEF DirInv
  <2>2. \A q \in dir' \cap Alive' : tasks'[q].tgid = q
    BY <1>2 DEF DirInv, Leaders
  <2>3. ASSUME pc = "task"
        PROVE  /\ entry.pid \in Born' \ (dir' \cup taskdir')
               /\ entry.pid \in Alive' => /\ tasks'[entry.pid].inc = entry.inc
                                         /\ tasks'[entry.pid].tgid = entry.pid
               /\ \A t \in taskdir' \cap Alive' : tasks'[t].tgid = entry.pid
    BY <1>2, <2>1, <2>3 DEF DirInv, Born
  <2> QED
    BY <1>2, <2>1, <2>2, <2>3 DEF DirInv, Reading
<1>6. UnreadInv'
  BY <1>1, <1>2 DEF UnreadInv, GroupInv, Leaders, DirInv, Updated
<1>7. ReachInv'
  BY <1>1, <1>2 DEF ReachInv, SeenInv
<1>8. GraveInv'
  BY <1>1, <1>2 DEF GraveInv
<1>9. CountInv' /\ KindInv'
  BY <1>1, <1>2 DEF CountInv, KindInv
<1>10. ShowInv'
  <2>1. InEffect' = InEffect
    BY <1>2 DEF InEffect
  <2>2. \A q \in Updated' \cap Alive' : q \in Updated \cap Alive /\ tasks'[q] = tasks[q]
    BY <1>1, <1>2 DEF Updated
  <2> QED
    BY <1>1, <2>1, <2>2 DEF ShowInv, RightlyShown
<1> QED
  BY <1>3, <1>4, <1>5, <1>6, <1>7, <1>8, <1>9, <1>10

LEMMA EndKeepsScan ==
    ASSUME TypeInv, ScanInv, NEW G \in SUBSET Alive, EndsAll(G)
    PROVE  ScanInv'
<1> USE DEF ScanInv, EndsAll, unchangedByKernel
<1>1. Listed' = Listed /\ Updated' = Updated
  BY DEF Updated, Listed
<1>2. Reading' = Reading /\ Alive' \subseteq Alive
  BY DEF Reading
<1>3. GroupInv'
  BY <1>2 DEF GroupInv, Leaders
<1>4. SeenInv'
  BY <1>1 DEF SeenInv
<1>5. DirInv'
  <2>1. dir' \subseteq dir /\ taskdir' \subseteq taskdir
    OBVIOUS
  <2> QED
    BY <1>2, <2>1 DEF DirInv
<1>6. UnreadInv'
  BY <1>1, <1>2 DEF UnreadInv
<1>7. ReachInv'
  <2>1. \A q \in through' : q \in through /\ q \in Alive' /\ q \notin G
    BY DEF SeenInv
  <2> QED
    BY <1>1, <1>2, <2>1 DEF ReachInv
<1>8. GraveInv'
  BY <1>1, <1>2 DEF GraveInv
<1>9. CountInv' /\ KindInv'
  BY <1>1, <1>2 DEF CountInv, KindInv
<1>10. ShowInv'
  <2>1. InEffect' = InEffect
    BY <1>2 DEF InEffect
  <2> QED
    BY <1>1, <1>2, <2>1 DEF ShowInv, RightlyShown
<1> QED
  BY <1>3, <1>4, <1>5, <1>6, <1>7, <1>8, <1>9, <1>10

LEMMA KernelKeepsScan ==
    ASSUME MaxInc = 1, TypeInv, ScanInv, KernelStep
    PROVE  ScanInv'
<1>0. GroupInv
  BY DEF ScanInv
<1>1. ASSUME NEW p \in Pid, Fork(p) PROVE ScanInv'
  BY <1>0, <1>1, ForkFacts, StartKeepsScan
<1>2. ASSUME NEW p \in Pid, Exit(p) PROVE ScanInv'
  BY <1>0, <1>2, ExitFacts, EndKeepsScan
<1>3. ASSUME NEW l \in Pid, NEW t \in Pid, Clone(l, t) PROVE ScanInv'
  BY <1>0, <1>3, CloneFacts, StartKeepsScan
<1>4. CASE Tick
  <2>1. UNCHANGED <<unchangedByKernel, tasks, born, dir, taskdir, through>>
    BY <1>4 DEF Tick, unchangedByKernel, scanVars, listVars, userVars
  <2>2. /\ Alive' = Alive /\ Born' = Born /\ Listed' = Listed /\ Updated' = Updated
        /\ Leaders' = Leaders
        /\ Reading' = Reading /\ InEffect' = InEffect
    BY <2>1 DEF unchangedByKernel, Alive, Born, Listed, Updated, Leaders, Reading, InEffect
  <2> QED
    BY <2>1, <2>2 DEF unchangedByKernel, ScanInv, GroupInv, SeenInv, DirInv, UnreadInv,
       ReachInv, GraveInv, CountInv, KindInv, ShowInv, RightlyShown
<1> QED
  BY <1>1, <1>2, <1>3, <1>4 DEF KernelStep

-----------------------------------------------------------------------------
(* The scan keeps ScanInv.                                                  *)

unchangedByReading == <<tasks, born, through, opts, paused, rescan>>

\* Row p is read as a task of group g, and counted.
ReadsRow(p, g) ==
    /\ Listed' = Listed \cup {p} /\ Updated' = Updated \cup {p}
    /\ \A q \in Pid \ {p} : rows'[q] = rows[q]
    /\ rows'[p].tomb = IF p \in Listed THEN rows[p].tomb ELSE 0
    /\ p \in Alive =>
          /\ rows'[p].kth = tasks[p].kth
          /\ rows'[p].show = ~ \/ opts.hideKernel /\ tasks[p].kth
                               \/ opts.hideUserland /\ p # g
    /\ counts'.total = counts.total + 1
    /\ counts'.userland + counts'.kernel <= counts'.total

\* Row p, if there is one, is removed.
DropsRow(p) ==
    /\ Listed' = Listed \ {p} /\ Updated' = Updated \ {p}
    /\ \A q \in Pid \ {p} : rows'[q] = rows[q]
    /\ counts' = counts

LEMMA CountFacts ==
    ASSUME TypeInv, CountInv, NEW k \in BOOLEAN, NEW u \in BOOLEAN, CountAs(k, u)
    PROVE  /\ counts'.total = counts.total + 1
           /\ counts'.userland + counts'.kernel <= counts'.total
<1>1. counts \in [total : Nat, kernel : Nat, userland : Nat]
  BY DEF TypeInv, TypeOK
<1> QED
  BY <1>1 DEF CountAs, CountInv

LEMMA DropFacts ==
    ASSUME TypeInv, NEW p \in Pid, rows' = [rows EXCEPT ![p] = NoRow], UNCHANGED counts
    PROVE  DropsRow(p)
BY DEF TypeInv, TypeOK, DropsRow, Listed, Updated

LEMMA ReadFacts ==
    ASSUME TypeInv, CountInv, KindInv, NEW p \in Pid, NEW g \in Pid, NEW readable \in BOOLEAN,
           readable => p \in Alive, ReadEntry(p, g, readable)
    PROVE  ReadsRow(p, g) \/ (~readable /\ DropsRow(p))
<1>0. rows \in RowFn /\ opts \in Settings
  BY DEF TypeInv, TypeOK, RowFn
<1>1. CASE /\ Shortcut(p, g)
           /\ rows' = [rows EXCEPT ![p].updated = TRUE, ![p].show = FALSE, ![p].tgid = g]
           /\ CountAs(opts.hideKernel /\ rows[p].kth, TRUE)
  <2> DEFINE r == [rows[p] EXCEPT !.updated = TRUE, !.show = FALSE, !.tgid = g]
  <2>1. p \in Listed /\ rows[p] \in Row
    BY <1>0, <1>1, NoRowAssumption DEF Shortcut, Listed, RowFn
  <2>2. /\ r \in Row /\ r # NoRow
        /\ r.updated = TRUE /\ r.show = FALSE /\ r.tomb = rows[p].tomb /\ r.kth = rows[p].kth
    BY <2>1, NoRowAssumption DEF Row
  <2>3. rows' = [rows EXCEPT ![p] = r]
    BY <1>0, <1>1 DEF RowFn
  <2> HIDE DEF r
  <2>4. \A q \in Pid : rows'[q] = IF q = p THEN r ELSE rows[q]
    BY <1>0, <2>3 DEF RowFn
  <2>5. Listed' = Listed \cup {p} /\ Updated' = Updated \cup {p}
    BY <2>1, <2>2, <2>4 DEF Listed, Updated
  <2>6. p \in Alive => /\ rows'[p].kth = tasks[p].kth
                       /\ rows'[p].show = ~ \/ opts.hideKernel /\ tasks[p].kth
                                            \/ opts.hideUserland /\ p # g
    <3>1. SUFFICES ASSUME p \in Alive
                   PROVE  /\ rows'[p].kth = tasks[p].kth
                          /\ rows'[p].show = ~ \/ opts.hideKernel /\ tasks[p].kth
                                               \/ opts.hideUserland /\ p # g
      OBVIOUS
    <3>2. rows[p].kth = tasks[p].kth
      BY <2>1, <3>1 DEF KindInv
    <3>3. (opts.hideKernel /\ rows[p].kth) \/ (opts.hideUserland /\ p # g)
      BY <1>1 DEF Shortcut, IsUserlandThread
    <3>4. rows'[p].kth = rows[p].kth /\ rows'[p].show = FALSE
      BY <2>2, <2>4
    <3> DEFINE hidden == (opts.hideKernel /\ tasks[p].kth) \/ (opts.hideUserland /\ p # g)
    <3>5. hidden
      BY <3>2, <3>3
    <3> HIDE DEF hidden
    <3>6. (~hidden) = FALSE
      BY <3>5
    <3> QED
      BY <3>2, <3>4, <3>6 DEF hidden
  <2>7. (opts.hideKernel /\ rows[p].kth) \in BOOLEAN
    OBVIOUS
  <2>8. counts'.total = counts.total + 1 /\ counts'.userland + counts'.kernel <= counts'.total
    BY <1>1, <2>7, CountFacts
  <2> QED
    BY <2>1, <2>2, <2>4, <2>5, <2>6, <2>8 DEF ReadsRow
<1>2. CASE /\ ~Shortcut(p, g) /\ readable
           /\ rows' = [rows EXCEPT ![p] = ReadRow(p, g)]
           /\ CountAs(ReadRow(p, g).kth, IsUserlandThread(p, g))
  <2> DEFINE r == ReadRow(p, g)
             old == IF p \in Listed THEN rows[p] ELSE NewRow(p)
             kth == old.kth \/ (opts.updateNames /\ tasks[p].kth)
             shown == ~ \/ opts.hideKernel /\ kth
                        \/ opts.hideUserland /\ IsUserlandThread(p, g)
  <2>1. p \in Alive /\ tasks[p] \in Task
    BY <1>2 DEF Alive, TypeInv, TypeOK
  <2>2. r \in Row
    BY <2>1, ReadRowType DEF TypeInv
  <2>3. NewRow(p) \in Row /\ NewRow(p).tomb = 0 /\ NewRow(p).kth = tasks[p].kth
    BY <2>1 DEF NewRow, Row, Task
  <2>4. /\ old \in Row /\ old.kth = tasks[p].kth
        /\ old.tomb = IF p \in Listed THEN rows[p].tomb ELSE 0
    BY <1>0, <2>1, <2>3, NoRowAssumption DEF KindInv, Listed, RowFn
  <2>5. r = [old EXCEPT !.updated = TRUE, !.tgid = g, !.ppid = tasks[p].ppid, !.kth = kth, !.show = shown]
    BY DEF ReadRow
  <2> HIDE DEF old, r
  <2>6. kth = tasks[p].kth /\ kth \in BOOLEAN
    <3>1. tasks[p].kth \in BOOLEAN
      BY <2>1 DEF Task
    <3> QED
      BY <2>4, <3>1, Zenon
  <2> HIDE DEF kth
  <2>7. shown = ~ \/ opts.hideKernel /\ tasks[p].kth
                  \/ opts.hideUserland /\ p # g
    BY <2>6, Zenon DEF IsUserlandThread
  <2> HIDE DEF shown
  <2>8. r.updated = TRUE /\ r.kth = kth /\ r.show = shown /\ r.tomb = old.tomb
    BY <2>4, <2>5 DEF Row
  <2>9. \A q \in Pid : rows'[q] = IF q = p THEN r ELSE rows[q]
    BY <1>0, <1>2 DEF RowFn, r
  <2>10. r # NoRow
    BY <2>2, NoRowAssumption
  <2>11. Listed' = Listed \cup {p} /\ Updated' = Updated \cup {p}
    BY <2>8, <2>9, <2>10 DEF Listed, Updated
  <2>12. r.kth \in BOOLEAN /\ IsUserlandThread(p, g) \in BOOLEAN
    BY <2>2 DEF Row, IsUserlandThread
  <2>13. counts'.total = counts.total + 1 /\ counts'.userland + counts'.kernel <= counts'.total
    BY <1>2, <2>12, CountFacts DEF r
  <2>14. rows'[p].kth = tasks[p].kth
    BY <2>6, <2>8, <2>9
  <2>15. rows'[p].show = ~ \/ opts.hideKernel /\ tasks[p].kth
                           \/ opts.hideUserland /\ p # g
    BY <2>7, <2>8, <2>9
  <2> QED
    BY <2>4, <2>8, <2>9, <2>11, <2>13, <2>14, <2>15 DEF ReadsRow
<1>3. CASE ~Shortcut(p, g) /\ ~readable /\ rows' = [rows EXCEPT ![p] = NoRow] /\ UNCHANGED counts
  BY <1>3, DropFacts
<1> QED
  BY <1>1, <1>2, <1>3 DEF ReadEntry

\* Reading a row that was not updated, or removing one, keeps the count.
LEMMA CountKept ==
    ASSUME TypeInv, CountInv, NEW p \in Pid \ Updated, NEW g \in Pid,
           ReadsRow(p, g) \/ DropsRow(p)
    PROVE  CountInv'
<1>1. IsFiniteSet(Updated)
  BY PidAssumption, FS_Subset DEF Updated, Listed
<1>2. CASE ReadsRow(p, g)
  <2>1. Cardinality(Updated \cup {p}) = Cardinality(Updated) + 1
    BY <1>1, FS_AddElement
  <2> QED
    BY <1>2, <2>1 DEF ReadsRow, CountInv
<1>3. CASE DropsRow(p)
  <2>1. Updated' = Updated
    BY <1>3 DEF DropsRow
  <2> QED
    BY <1>3, <2>1 DEF DropsRow, CountInv
<1> QED
  BY <1>2, <1>3

LEMMA StartScanKeepsScan ==
    ASSUME TypeInv, ScanInv, StartScan
    PROVE  ScanInv'
<1>1. \A p \in Listed : LET r == [rows[p] EXCEPT !.updated = FALSE, !.wasShown = rows[p].show, !.show = TRUE] IN
         /\ r # NoRow /\ r.updated = FALSE /\ r.tomb = rows[p].tomb /\ r.kth = rows[p].kth
  BY NoRowAssumption DEF TypeInv, TypeOK, Listed, Row
<1>2. rows' = [p \in Pid |-> IF p \in Listed
                  THEN [rows[p] EXCEPT !.updated = FALSE, !.wasShown = rows[p].show, !.show = TRUE]
                  ELSE NoRow]
  BY DEF StartScan
<1>3. /\ Listed' = Listed /\ Updated' = {}
      /\ \A p \in Listed : rows'[p].tomb = rows[p].tomb /\ rows'[p].kth = rows[p].kth
  BY <1>1, <1>2 DEF Listed, Updated
<1>4. /\ pc' = "dir" /\ dir' = Leaders /\ through' = Alive /\ counts' = NoCount
      /\ UNCHANGED <<tasks, born, taskdir>> /\ taskdir = {} /\ Reading'
  BY DEF StartScan, ScanAllowed, kernelVars, ScanInv, DirInv, Reading
<1>5. Alive' = Alive /\ Born' = Born /\ Leaders' = Leaders /\ Leaders \subseteq Alive
  BY <1>4 DEF Alive, Born, Leaders
<1> USE DEF ScanInv
<1>6. GroupInv' /\ SeenInv'
  BY <1>3, <1>4, <1>5 DEF GroupInv, SeenInv
<1>7. DirInv' /\ UnreadInv'
  BY <1>3, <1>4, <1>5 DEF DirInv, UnreadInv, Leaders, Reading
<1>8. ReachInv' /\ GraveInv'
  BY <1>3, <1>4, <1>5 DEF ReachInv, GraveInv, GroupInv
<1>9. CountInv'
  BY <1>3, <1>4, FS_EmptySet DEF CountInv, NoCount
<1>10. KindInv' /\ ShowInv'
  BY <1>3, <1>4, <1>5 DEF KindInv, ShowInv
<1> QED
  BY <1>6, <1>7, <1>8, <1>9, <1>10

LEMMA OpenKeepsScan ==
    ASSUME TypeInv, ScanInv, OpenEntry
    PROVE  ScanInv'
<1>1. PICK p \in dir :
         /\ dir' = dir \ {p}
         /\ \/ /\ p \in Alive
               /\ pc' = "task"
               /\ entry' = [pid |-> p, inc |-> tasks[p].inc]
               /\ taskdir' = {t \in Alive : tasks[t].tgid = tasks[p].tgid} \ {p}
               /\ rows' = IF p \in Listed THEN [rows EXCEPT ![p].tgid = p] ELSE rows
            \/ /\ p \notin Alive
               /\ rows' = [rows EXCEPT ![p] = NoRow]
               /\ UNCHANGED <<pc, entry, taskdir>>
  BY DEF OpenEntry
<1>2. pc = "dir" /\ UNCHANGED <<unchangedByReading, counts>> /\ p \in Pid
  BY DEF OpenEntry, unchangedByReading, kernelVars, userVars, TypeInv, TypeOK
<1>3. Alive' = Alive /\ Born' = Born /\ Leaders' = Leaders /\ p \notin Updated
  BY <1>2 DEF Alive, Born, Leaders, unchangedByReading, ScanInv, UnreadInv
<1>4. Reading /\ taskdir = {}
  BY <1>2 DEF Reading, ScanInv, DirInv
<1> USE DEF ScanInv, unchangedByReading
<1>5. GroupInv'
  BY <1>2, <1>3 DEF GroupInv
<1>6. CASE p \in Alive
  <2>1. /\ Listed' = Listed /\ Updated' = Updated
        /\ \A q \in Listed : /\ rows'[q].tomb = rows[q].tomb /\ rows'[q].kth = rows[q].kth
                             /\ rows'[q].show = rows[q].show
    <3>1. CASE p \in Listed
      <4> DEFINE r == [rows[p] EXCEPT !.tgid = p]
      <4>1. rows[p] \in Row
        BY <3>1 DEF TypeInv, TypeOK, Listed
      <4>2. /\ r # NoRow /\ r.updated = rows[p].updated /\ r.tomb = rows[p].tomb
            /\ r.kth = rows[p].kth /\ r.show = rows[p].show
        <5>1. r \in Row
          BY <1>2, <4>1 DEF Row
        <5> QED
          BY <4>1, <5>1, NoRowAssumption DEF Row
      <4>3. \A q \in Pid : rows'[q] = IF q = p THEN r ELSE rows[q]
        BY <1>1, <1>6, <3>1 DEF TypeInv, TypeOK
      <4> QED
        BY <3>1, <4>2, <4>3 DEF Listed, Updated
    <3>2. CASE p \notin Listed
      BY <1>1, <1>6, <3>2 DEF Listed, Updated
    <3> QED
      BY <3>1, <3>2
  <2>2. /\ pc' = "task" /\ entry'.pid = p /\ entry'.inc = tasks[p].inc /\ tasks[p].tgid = p
        /\ taskdir' = {t \in Alive : tasks[t].tgid = p} \ {p} /\ Reading'
    BY <1>1, <1>6 DEF DirInv, Reading
  <2>3. SeenInv'
    BY <1>1, <1>2, <1>3, <2>1, <2>2 DEF SeenInv, GroupInv
  <2>4. DirInv'
    BY <1>1, <1>2, <1>3, <1>6, <2>2 DEF DirInv, GroupInv
  <2>5. UnreadInv'
    BY <1>1, <1>2, <1>3, <2>1, <2>2 DEF UnreadInv
  <2>6. ReachInv'
    BY <1>1, <1>2, <1>3, <2>1, <2>2 DEF ReachInv, SeenInv
  <2>7. GraveInv'
    BY <1>1, <1>2, <1>3, <1>6, <2>1, <2>2 DEF GraveInv
  <2>8. CountInv' /\ KindInv'
    BY <1>2, <1>3, <2>1 DEF CountInv, KindInv
  <2>9. ShowInv'
    BY <1>2, <1>3, <1>4, <2>1 DEF ShowInv, InEffect, RightlyShown, Updated
  <2> QED
    BY <1>5, <2>3, <2>4, <2>5, <2>6, <2>7, <2>8, <2>9
<1>7. CASE p \notin Alive
  <2>1. DropsRow(p)
    BY <1>1, <1>2, <1>7, DropFacts
  <2>2. Listed' = Listed \ {p} /\ Updated' = Updated /\ \A q \in Listed' : rows'[q] = rows[q]
    BY <1>3, <2>1 DEF DropsRow, Listed
  <2>3. pc' = "dir" /\ taskdir' = {} /\ Reading'
    BY <1>1, <1>2, <1>4, <1>7 DEF Reading
  <2>4. SeenInv' /\ DirInv' /\ UnreadInv'
    BY <1>1, <1>2, <1>3, <2>2, <2>3 DEF SeenInv, DirInv, UnreadInv
  <2>5. ReachInv'
    <3>1. \A q \in through : tasks[q].tgid # p
      BY <1>7 DEF SeenInv, GroupInv, Leaders
    <3> QED
      BY <1>1, <1>2, <1>3, <2>2, <3>1 DEF ReachInv
  <2>6. GraveInv' /\ KindInv'
    BY <1>1, <1>2, <1>3, <2>2, <2>3 DEF GraveInv, KindInv
  <2>7. CountInv'
    BY <1>2, <1>3, <2>1, CountKept
  <2>8. ShowInv'
    BY <1>2, <1>3, <1>4, <2>2 DEF ShowInv, InEffect, RightlyShown, Updated
  <2> QED
    BY <1>5, <2>4, <2>5, <2>6, <2>7, <2>8
<1> QED
  BY <1>6, <1>7

LEMMA ReadKeepsScan ==
    ASSUME TypeInv, ScanInv, ReadTask
    PROVE  ScanInv'
<1> DEFINE here(t) == EntryAlive /\ t \in Alive /\ tasks[t].tgid = tasks[entry.pid].tgid
<1>1. PICK t \in taskdir :
         /\ taskdir' = taskdir \ {t}
         /\ \/ here(t) /\ ReadEntry(t, entry.pid, TRUE)
            \/ ~here(t) /\ rows' = [rows EXCEPT ![t] = NoRow] /\ UNCHANGED counts
  BY DEF ReadTask
<1>2. /\ pc = "task" /\ UNCHANGED <<unchangedByReading, pc, dir, entry>>
      /\ t \in Pid /\ entry.pid \in Pid /\ Reading /\ Reading'
  BY DEF ReadTask, unchangedByReading, kernelVars, userVars, TypeInv, TypeOK, Reading
<1>3. /\ Alive' = Alive /\ Born' = Born /\ Leaders' = Leaders
      /\ t \notin Updated /\ t \notin dir /\ t # entry.pid
  BY <1>2 DEF Alive, Born, Leaders, unchangedByReading, ScanInv, UnreadInv, DirInv
<1> USE DEF ScanInv, unchangedByReading
<1>4. t \in Alive => here(t)
  <2>1. SUFFICES ASSUME t \in Alive PROVE here(t)
    OBVIOUS
  <2>2. tasks[t].tgid = entry.pid /\ entry.pid \in Leaders
    BY <1>2, <2>1 DEF DirInv, GroupInv
  <2>3. entry.pid \in Alive /\ tasks[entry.pid].inc = entry.inc /\ tasks[entry.pid].tgid = entry.pid
    BY <1>2, <2>2 DEF DirInv, Leaders
  <2> QED
    BY <2>1, <2>2, <2>3 DEF EntryAlive
<1>5. (ReadsRow(t, entry.pid) /\ t \in Alive) \/ (DropsRow(t) /\ t \notin Alive)
  <2>1. CASE here(t) /\ ReadEntry(t, entry.pid, TRUE)
    BY <1>2, <2>1, ReadFacts
  <2>2. CASE ~here(t) /\ rows' = [rows EXCEPT ![t] = NoRow] /\ UNCHANGED counts
    BY <1>2, <1>4, <2>2, DropFacts
  <2> QED
    BY <1>1, <2>1, <2>2
<1> HIDE DEF here
<1>6. GroupInv' /\ DirInv'
  BY <1>1, <1>2, <1>3 DEF GroupInv, DirInv
<1>7. CountInv'
  BY <1>2, <1>3, <1>5, CountKept
<1>8. CASE ReadsRow(t, entry.pid) /\ t \in Alive
  <2>0. tasks[t].tgid = entry.pid /\ entry.pid \notin dir
    BY <1>2, <1>8 DEF DirInv
  <2> USE DEF ReadsRow
  <2>1. SeenInv'
    BY <1>1, <1>2, <1>3, <1>8 DEF SeenInv
  <2>2. UnreadInv'
    BY <1>1, <1>2, <1>3, <1>8, <2>0 DEF UnreadInv
  <2>3. ReachInv'
    BY <1>1, <1>2, <1>3, <1>8, <2>0 DEF ReachInv
  <2>4. GraveInv'
    BY <1>1, <1>2, <1>3, <1>8 DEF GraveInv, Listed
  <2>5. KindInv'
    BY <1>2, <1>3, <1>8 DEF KindInv, Listed
  <2>6. ShowInv'
    <3>1. RightlyShown(t)'
      BY <1>2, <1>8, <2>0 DEF RightlyShown
    <3>2. \A q \in Updated \cap Alive : q \in Pid \ {t} /\ rows'[q] = rows[q]
      BY <1>3, <1>8 DEF Updated, Listed
    <3> QED
      BY <1>2, <1>3, <1>8, <3>1, <3>2 DEF ShowInv, InEffect, RightlyShown
  <2> QED
    BY <1>6, <1>7, <2>1, <2>2, <2>3, <2>4, <2>5, <2>6
<1>9. CASE DropsRow(t) /\ t \notin Alive
  <2>1. Listed' = Listed \ {t} /\ Updated' = Updated /\ \A q \in Listed' : rows'[q] = rows[q]
    BY <1>3, <1>9 DEF DropsRow, Listed
  <2>2. SeenInv' /\ UnreadInv'
    BY <1>1, <1>2, <1>3, <2>1 DEF SeenInv, UnreadInv
  <2>3. ReachInv'
    BY <1>1, <1>2, <1>3, <1>9, <2>1 DEF ReachInv, SeenInv
  <2>4. GraveInv' /\ KindInv'
    BY <1>2, <1>3, <2>1 DEF GraveInv, KindInv
  <2>5. ShowInv'
    BY <1>2, <1>3, <2>1 DEF ShowInv, InEffect, RightlyShown, Updated
  <2> QED
    BY <1>6, <1>7, <2>2, <2>3, <2>4, <2>5
<1> QED
  BY <1>5, <1>8, <1>9

LEMMA FinishKeepsScan ==
    ASSUME TypeInv, ScanInv, FinishEntry
    PROVE  ScanInv'
<1>0. PICK p \in Pid : p = entry.pid
  BY DEF FinishEntry, TypeInv
<1>1. /\ pc = "task" /\ taskdir = {} /\ pc' = "dir" /\ ReadEntry(p, p, EntryAlive)
      /\ UNCHANGED <<unchangedByReading, dir, taskdir>>
      /\ Reading /\ Reading'
  BY <1>0 DEF FinishEntry, unchangedByReading, kernelVars, userVars, TypeInv, TypeOK, Reading
<1>2. /\ Alive' = Alive /\ Born' = Born /\ Leaders' = Leaders
      /\ p \notin Updated /\ p \notin dir /\ p \in Born
  BY <1>0, <1>1 DEF Alive, Born, Leaders, unchangedByReading, ScanInv, UnreadInv, DirInv
<1>3. EntryAlive \in BOOLEAN /\ (EntryAlive <=> p \in Alive) /\ (p \in Alive => tasks[p].tgid = p)
  BY <1>0, <1>1 DEF EntryAlive, ScanInv, DirInv
<1> USE DEF ScanInv, unchangedByReading
<1>4. ReadsRow(p, p) \/ (DropsRow(p) /\ p \notin Alive)
  BY <1>1, <1>3, ReadFacts
<1>5. p \in Listed => (rows[p].tomb = 0 \/ p \notin Listed')
  BY <1>0, <1>1 DEF GraveInv, TypeInv, TypeOK, Listed, Row
<1>6. CountInv'
  BY <1>1, <1>2, <1>4, CountKept
<1>7. DirInv' /\ GroupInv'
  BY <1>1, <1>2 DEF DirInv, GroupInv
<1>8. CASE ReadsRow(p, p)
  <2> USE DEF ReadsRow
  <2>1. SeenInv'
    BY <1>1, <1>2, <1>8 DEF SeenInv
  <2>2. UnreadInv'
    BY <1>1, <1>2, <1>3, <1>8 DEF UnreadInv
  <2>3. ReachInv'
    BY <1>1, <1>2, <1>3, <1>8, <1>0 DEF ReachInv
  <2>4. GraveInv'
    BY <1>1, <1>2, <1>5, <1>8 DEF GraveInv, Listed
  <2>5. KindInv'
    BY <1>1, <1>2, <1>8 DEF KindInv, Listed
  <2>6. ShowInv'
    <3>1. p \in Alive => RightlyShown(p)'
      BY <1>1, <1>3, <1>8 DEF RightlyShown
    <3>2. \A q \in Updated \cap Alive : q \in Pid \ {p} /\ rows'[q] = rows[q]
      BY <1>2, <1>8 DEF Updated, Listed
    <3> QED
      BY <1>1, <1>2, <1>8, <3>1, <3>2 DEF ShowInv, InEffect, RightlyShown
  <2> QED
    BY <1>6, <1>7, <2>1, <2>2, <2>3, <2>4, <2>5, <2>6
<1>9. CASE DropsRow(p) /\ p \notin Alive
  <2>1. Listed' = Listed \ {p} /\ Updated' = Updated /\ \A q \in Listed' : rows'[q] = rows[q]
    BY <1>2, <1>9 DEF DropsRow, Listed
  <2>2. SeenInv' /\ UnreadInv'
    BY <1>1, <1>2, <2>1 DEF SeenInv, UnreadInv
  <2>3. ReachInv'
    BY <1>1, <1>2, <1>9, <2>1, <1>0 DEF ReachInv, SeenInv
  <2>4. GraveInv' /\ KindInv'
    BY <1>1, <1>2, <2>1 DEF GraveInv, KindInv
  <2>5. ShowInv'
    BY <1>1, <1>2, <2>1 DEF ShowInv, InEffect, RightlyShown, Updated
  <2> QED
    BY <1>6, <1>7, <2>2, <2>3, <2>4, <2>5
<1> QED
  BY <1>4, <1>8, <1>9

\* The sweep and the tree change nothing of a row that stays but its tombstone
\* and, in tree mode, whether it is shown.
LEMMA BuildTreeKeeps ==
    ASSUME NEW rs \in RowFn, NEW p \in Pid, rs[p] # NoRow
    PROVE  \E b \in BOOLEAN : BuildTree(rs)[p] = [rs[p] EXCEPT !.show = b]
<1> DEFINE vis == rs[p].show /\ \A a \in Above(rs, p, RowsOf(rs)) : rs[a].show /\ rs[a].showChildren
<1>1. vis \in BOOLEAN
  OBVIOUS
<1>2. BuildTree(rs)[p] = [rs[p] EXCEPT !.show = vis]
  BY DEF BuildTree
<1> QED
  BY <1>1, <1>2

LEMMA EndScanRows ==
    ASSUME TypeInv, EndScan, NEW p \in Listed \ SweptAway
    PROVE  /\ rows'[p].updated = rows[p].updated /\ rows'[p].kth = rows[p].kth
           /\ ~opts.tree => rows'[p].show = rows[p].show
<1>1. p \in Pid /\ rows[p] \in Row /\ rows[p] # NoRow /\ Sweep \in RowFn
  BY SweepType DEF TypeInv, TypeOK, Listed
<1>2. Sweep[p] \in {rows[p], [rows[p] EXCEPT !.tomb = monotonic + Delay]}
  BY <1>1 DEF Sweep
<1>3. [rows[p] EXCEPT !.tomb = monotonic + Delay] \in Row
  BY <1>1, BoundAssumption DEF Row, TypeInv, TypeOK
<1>4. /\ Sweep[p] \in Row /\ Sweep[p] # NoRow /\ Sweep[p].updated = rows[p].updated
      /\ Sweep[p].kth = rows[p].kth /\ Sweep[p].show = rows[p].show
  BY <1>1, <1>2, <1>3, NoRowAssumption DEF Row
<1>5. CASE rows' = Sweep
  BY <1>4, <1>5
<1>6. CASE opts.tree /\ rows' = BuildTree(Sweep)
  <2>1. PICK b \in BOOLEAN : BuildTree(Sweep)[p] = [Sweep[p] EXCEPT !.show = b]
    BY <1>1, <1>4, BuildTreeKeeps
  <2> QED
    BY <1>4, <1>6, <2>1 DEF Row
<1> QED
  BY <1>5, <1>6 DEF EndScan

LEMMA EndScanKeepsScan ==
    ASSUME TypeInv, ScanInv, EndScan
    PROVE  ScanInv'
<1>1. /\ pc = "dir" /\ dir = {} /\ taskdir = {} /\ pc' \in {"rebuild", "sortTree", "abort"}
      /\ UNCHANGED <<unchangedByReading, dir, taskdir, counts>> /\ Reading /\ ~Reading'
  BY DEF EndScan, unchangedByReading, kernelVars, scanVars, userVars, Reading, ScanInv, DirInv
<1>2. Alive' = Alive /\ Born' = Born /\ Leaders' = Leaders /\ Listed \subseteq Pid
  BY <1>1 DEF Alive, Born, Leaders, Listed, unchangedByReading
<1> USE DEF ScanInv, unchangedByReading
<1>3. through \subseteq Updated /\ Listed \cap Alive \subseteq Updated
  BY <1>1 DEF ReachInv
<1>4. \A p \in Listed : rows[p].tomb \in Nat
  BY DEF TypeInv, TypeOK, Listed, Row
<1>5. Updated \cap SweptAway = {}
  BY <1>4 DEF GraveInv, SweptAway, Expired, Vanished, Updated
<1>6. /\ Listed' = Listed \ SweptAway
      /\ \A p \in Listed' : rows'[p].tomb = IF Entombed(rows[p]) THEN monotonic + Delay
                                            ELSE rows[p].tomb
  BY EndScanList
<1>7. /\ \A p \in Listed' : /\ rows'[p].updated = rows[p].updated /\ rows'[p].kth = rows[p].kth
                            /\ ~opts.tree => rows'[p].show = rows[p].show
  BY <1>6, EndScanRows
<1>8. Updated' = Updated
  BY <1>5, <1>6, <1>7 DEF Updated
<1>9. SeenInv' /\ GroupInv' /\ DirInv' /\ UnreadInv'
  BY <1>1, <1>2, <1>6, <1>8 DEF SeenInv, GroupInv, DirInv, UnreadInv
<1>10. ReachInv'
  BY <1>1, <1>2, <1>3, <1>6, <1>8 DEF ReachInv
<1>11. GraveInv'
  <2>1. \A p \in Listed' : rows'[p].tomb > 0 => p \notin Updated
    BY <1>2, <1>6 DEF GraveInv, Entombed, Vanished, Updated
  <2>2. \A p \in Listed' : rows'[p].tomb > 0 => p \notin Alive
    BY <1>3, <1>6, <2>1
  <2> QED
    BY <1>1, <1>2, <1>8, <2>1, <2>2 DEF GraveInv
<1>12. CountInv' /\ KindInv'
  BY <1>1, <1>2, <1>6, <1>7, <1>8 DEF CountInv, KindInv
<1>13. ShowInv'
  <2>1. InEffect' => ~opts.tree
    BY <1>1 DEF InEffect
  <2>2. \A p \in Updated \cap Alive : RightlyShown(p)
    BY <1>1 DEF ShowInv, InEffect
  <2> QED
    BY <1>1, <1>2, <1>7, <1>8, <2>1, <2>2 DEF ShowInv, RightlyShown, Updated
<1> QED
  BY <1>9, <1>10, <1>11, <1>12, <1>13

\* The other steps of the loop and of the user leave the rows' contents but
\* showChildren, and where they change what the rows depend on, they ask for
\* another scan.
LEMMA OtherRows ==
    ASSUME TypeInv, UserStep \/ SortTree \/ RebuildPanel \/ Redraw \/ Aborted \/ UNCHANGED vars
    PROVE  /\ Listed' = Listed /\ Updated' = Updated
           /\ \A p \in Listed : /\ rows'[p].tomb = rows[p].tomb /\ rows'[p].kth = rows[p].kth
                                /\ rows'[p].show = rows[p].show
<1> USE DEF TypeInv, TypeOK, Listed, Updated, Row
<1>1. CASE ToggleTreeView
  <2>1. \A p \in Listed : LET r == [rows[p] EXCEPT !.showChildren = TRUE] IN
           /\ r \in Row /\ r.updated = rows[p].updated /\ r.tomb = rows[p].tomb
           /\ r.kth = rows[p].kth /\ r.show = rows[p].show
    OBVIOUS
  <2> QED
    BY <1>1, <2>1, NoRowAssumption DEF ToggleTreeView
<1>2. CASE ExpandOrCollapse
  <2>1. PICK p \in panel \cap Listed : rows' = [rows EXCEPT ![p].showChildren = ~@]
    BY <1>2 DEF ExpandOrCollapse
  <2>2. LET r == [rows[p] EXCEPT !.showChildren = ~rows[p].showChildren] IN
           /\ r \in Row /\ r.updated = rows[p].updated /\ r.tomb = rows[p].tomb
           /\ r.kth = rows[p].kth /\ r.show = rows[p].show
    OBVIOUS
  <2> QED
    BY <2>1, <2>2, NoRowAssumption
<1>3. CASE ~ToggleTreeView /\ ~ExpandOrCollapse
  <2>1. rows' = rows
    BY <1>3 DEF UserStep, ToggleDisplayOption, ToggleHidden, TogglePause, InvertSort, Follow,
       SetFilter, SortTree, RebuildPanel, Redraw, Aborted, vars, listVars
  <2> QED
    BY <2>1
<1> QED
  BY <1>1, <1>2, <1>3

LEMMA UserKeeps ==
    ASSUME TypeInv, UserStep
    PROVE  /\ pc = "idle" /\ UNCHANGED <<tasks, born, dir, taskdir, entry, through, counts>>
           /\ pc' = "idle" \/ (pc' = "sortTree" /\ paused /\ paused')
           /\ \/ rescan'
              \/ UNCHANGED <<paused, rescan, opts.tree, opts.hideKernel, opts.hideUserland>>
<1>1. UNCHANGED unchangedByCommands /\ pc = "idle"
  BY DEF UserStep, ToggleDisplayOption, ToggleHidden, ToggleTreeView, TogglePause,
         InvertSort, ExpandOrCollapse, Follow, SetFilter, unchangedByCommands, Command
<1>2. pc' = "idle" \/ (pc' = "sortTree" /\ paused /\ paused')
  <2>1. CASE InvertSort
    BY <1>1, <2>1 DEF InvertSort
  <2>2. CASE ~InvertSort
    BY <1>1, <2>2 DEF UserStep, ToggleDisplayOption, ToggleHidden, ToggleTreeView, TogglePause,
                      ExpandOrCollapse, Follow, SetFilter
  <2> QED
    BY <2>1, <2>2
<1>3. ToggleDisplayOption => /\ UNCHANGED <<paused, rescan>>
                             /\ UNCHANGED <<opts.tree, opts.hideKernel, opts.hideUserland>>
  <2>1. SUFFICES ASSUME ToggleDisplayOption
                 PROVE  /\ UNCHANGED <<paused, rescan>>
                        /\ UNCHANGED <<opts.tree, opts.hideKernel, opts.hideUserland>>
    OBVIOUS
  <2>2. opts \in Settings
    BY DEF TypeInv, TypeOK
  <2>3. PICK h, u : /\ opts' = [opts EXCEPT !.highlight = h] \/ opts' = [opts EXCEPT !.updateNames = u]
                    /\ UNCHANGED <<paused, rescan>>
    BY <2>1 DEF ToggleDisplayOption
  <2> QED
    BY <2>2, <2>3 DEF Settings
<1>4. Follow => UNCHANGED <<paused, rescan, opts>>
  BY DEF Follow, userVars
<1>5. UserStep => rescan' \/ ToggleDisplayOption \/ Follow
  BY DEF UserStep, ToggleHidden, ToggleTreeView, TogglePause,
         InvertSort, ExpandOrCollapse, SetFilter, Refresh
<1> QED
  BY <1>1, <1>2, <1>3, <1>4, <1>5 DEF unchangedByCommands, kernelVars, scanVars

\* What the list shows is in effect only until something else is asked for.
LEMMA OtherKeepsScan ==
    ASSUME TypeInv, ScanInv, UserStep \/ SortTree \/ RebuildPanel \/ Redraw \/ Aborted \/ UNCHANGED vars
    PROVE  ScanInv'
<1>1. /\ Listed' = Listed /\ Updated' = Updated
      /\ \A p \in Listed : /\ rows'[p].tomb = rows[p].tomb /\ rows'[p].kth = rows[p].kth
                           /\ rows'[p].show = rows[p].show
  BY OtherRows
<1>2. UNCHANGED <<tasks, born, dir, taskdir, entry, through, counts>>
  <2>1. UserStep => UNCHANGED <<tasks, born, dir, taskdir, entry, through, counts>>
    BY UserKeeps
  <2> QED
    BY <2>1 DEF SortTree, RebuildPanel, Redraw, Aborted, vars, kernelVars, scanVars
<1>3. (Reading' <=> Reading) /\ (pc = "task" <=> pc' = "task")
  <2>1. UserStep => ~Reading /\ ~Reading' /\ pc # "task" /\ pc' # "task"
    BY UserKeeps DEF Reading
  <2>2. ~UserStep => (Reading' <=> Reading) /\ (pc = "task" <=> pc' = "task")
    BY DEF SortTree, RebuildPanel, Redraw, Aborted, vars, Reading
  <2> QED
    BY <2>1, <2>2
<1>4. Alive' = Alive /\ Born' = Born /\ Leaders' = Leaders /\ Listed \subseteq Pid
  BY <1>2 DEF Alive, Born, Leaders, Listed
<1> USE DEF ScanInv
<1>5. GroupInv' /\ SeenInv' /\ DirInv' /\ UnreadInv'
  BY <1>1, <1>2, <1>3, <1>4 DEF GroupInv, SeenInv, DirInv, UnreadInv
<1>6. ReachInv' /\ GraveInv'
  BY <1>1, <1>2, <1>3, <1>4 DEF ReachInv, GraveInv
<1>7. CountInv' /\ KindInv'
  BY <1>1, <1>2, <1>4 DEF CountInv, KindInv
<1>8. ShowInv'
  <2>1. SUFFICES ASSUME InEffect'
                 PROVE  InEffect /\ UNCHANGED <<opts.hideKernel, opts.hideUserland>>
    BY <1>1, <1>2, <1>4 DEF ShowInv, RightlyShown, Updated
  <2>2. CASE UserStep
    <3>1. pc' = "idle" /\ ~paused' /\ ~opts.tree' /\ ~rescan'
      BY <2>1, <2>2, UserKeeps DEF InEffect, Reading
    <3>2. UNCHANGED <<paused, rescan, opts.tree, opts.hideKernel, opts.hideUserland>>
      BY <2>2, <3>1, UserKeeps
    <3> QED
      BY <2>2, <3>1, <3>2, UserKeeps DEF InEffect
  <2>3. CASE SortTree
    BY <2>1, <2>3 DEF SortTree, InEffect, Reading, userVars
  <2>4. CASE RebuildPanel
    BY <2>1, <2>4 DEF RebuildPanel, InEffect, Reading, userVars
  <2>5. CASE Redraw
    BY <2>1, <2>5 DEF Redraw, InEffect, Reading, userVars
  <2>6. CASE Aborted \/ UNCHANGED vars
    BY <2>1, <2>6 DEF Aborted, vars, InEffect, Reading, userVars
  <2> QED
    BY <2>2, <2>3, <2>4, <2>5, <2>6
<1> QED
  BY <1>5, <1>6, <1>7, <1>8

LEMMA ScanInvStep ==
    ASSUME MaxInc = 1, TypeInv, ScanInv, [Next]_vars
    PROVE  ScanInv'
BY KernelKeepsScan, StartScanKeepsScan, OpenKeepsScan, ReadKeepsScan, FinishKeepsScan,
   EndScanKeepsScan, OtherKeepsScan DEF Next, ScanStep

LEMMA InitScanInv == Init => ScanInv
<1> SUFFICES ASSUME Init PROVE ScanInv
  OBVIOUS
<1>1. Alive = {} /\ Listed = {} /\ Updated = {} /\ Leaders = {}
  BY DEF Init, Alive, Listed, Updated, Leaders
<1>2. dir = {} /\ taskdir = {} /\ through = {} /\ pc = "idle" /\ counts = NoCount /\ ~Reading
  BY DEF Init, Reading
<1>3. GroupInv /\ SeenInv /\ DirInv /\ UnreadInv
  BY <1>1, <1>2 DEF GroupInv, SeenInv, DirInv, UnreadInv
<1>4. ReachInv /\ GraveInv /\ KindInv /\ ShowInv
  BY <1>1, <1>2 DEF ReachInv, GraveInv, KindInv, ShowInv
<1>5. CountInv
  BY <1>1, <1>2, FS_EmptySet DEF CountInv, NoCount
<1> QED
  BY <1>3, <1>4, <1>5 DEF ScanInv

LEMMA ScanInvSuffices == ScanInv => ScanComplete /\ TombsAreDead
<1> SUFFICES ASSUME ScanInv PROVE ScanComplete /\ TombsAreDead
  OBVIOUS
<1>1. ~Reading => through \subseteq Updated
  BY DEF ScanInv, ReachInv, DirInv, Reading
<1>2. LiveListed
  BY <1>1 DEF LiveListed, Reading, Updated
<1>3. CountersMatch
  BY DEF ScanInv, CountInv, CountersMatch, Updated
<1>4. HiddenByKind
  <2>1. SUFFICES ASSUME pc = "rebuild", ~paused, ~opts.tree, NEW p \in through \cap Listed
                 PROVE  RightlyShown(p)
    BY DEF HiddenByKind, RightlyShown
  <2>2. p \in Updated \cap Alive
    BY <1>1, <2>1 DEF Reading, ScanInv, SeenInv
  <2> QED
    BY <2>1, <2>2 DEF ScanInv, ShowInv, InEffect
<1>5. TombsAreDead
  BY DEF ScanInv, GraveInv, TombsAreDead
<1> QED
  BY <1>2, <1>3, <1>4, <1>5 DEF ScanComplete

\* As long as no pid is given out twice, whatever starts and ends while a scan
\* reads /proc, a finished scan lists every task that lived through it and shows
\* it by its kind, its counters count the rows it updated, and every row marked as
\* exited is of a task that has exited.
THEOREM ScansAreComplete ==
    ASSUME MaxInc = 1
    PROVE  Spec => [](ScanComplete /\ TombsAreDead)
<1>1. Init => TypeInv /\ ScanInv
  BY InitTypeInv, InitScanInv
<1>2. TypeInv /\ ScanInv /\ [Next]_vars => (TypeInv /\ ScanInv)'
  BY TypeInvStep, ScanInvStep
<1>3. ScanInv => ScanComplete /\ TombsAreDead
  BY ScanInvSuffices
<1> QED
  BY <1>1, <1>2, <1>3, PTL DEF Spec

-----------------------------------------------------------------------------
(* Pausing.                                                                 *)

\* No scan begins while updates are paused, and none is running when the user
\* pauses them.
PauseInv == paused => ~Reading

LEMMA PauseStep ==
    ASSUME TypeInv, PauseInv, [Next]_vars
    PROVE  PauseInv'
<1> USE DEF PauseInv, Reading
<1>1. CASE KernelStep
  BY <1>1 DEF KernelStep, Fork, Clone, Exit, Tick, userVars
<1>2. CASE StartScan \/ ScanStep
  BY <1>2 DEF StartScan, ScanAllowed, ScanStep, OpenEntry, ReadTask, FinishEntry, EndScan,
              SortTree, RebuildPanel, userVars
<1>3. CASE UserStep
  BY <1>3, UserKeeps
<1>4. CASE Redraw \/ Aborted \/ UNCHANGED vars
  BY <1>4 DEF Redraw, Aborted, vars, userVars
<1> QED
  BY <1>1, <1>2, <1>3, <1>4 DEF Next

\* A row that is neither added nor removed nor read.
SameButChildren ==
    \A p \in Pid : /\ p \in Listed <=> (rows[p] # NoRow)'
                  /\ p \in Listed => rows'[p] \in
                        {[rows[p] EXCEPT !.showChildren = b] : b \in BOOLEAN}

LEMMA SameRows ==
    ASSUME TypeInv, rows' = rows
    PROVE  SameButChildren
<1>1. ASSUME NEW p \in Listed
      PROVE  rows[p] = [rows[p] EXCEPT !.showChildren = rows[p].showChildren]
             /\ rows[p].showChildren \in BOOLEAN
  BY DEF TypeInv, TypeOK, Listed, Row
<1> QED
  BY <1>1 DEF SameButChildren, Listed

LEMMA FrozenStep ==
    ASSUME TypeInv, PauseInv, [Next]_vars, paused, paused'
    PROVE  SameButChildren
<1>1. ASSUME NEW p \in Listed, NEW b \in BOOLEAN
      PROVE  [rows[p] EXCEPT !.showChildren = b] # NoRow
  BY NoRowAssumption DEF TypeInv, TypeOK, Listed, Row
<1>2. CASE ToggleTreeView
  BY <1>1, <1>2 DEF ToggleTreeView, SameButChildren, Listed
<1>3. CASE ExpandOrCollapse
  <2>1. PICK q \in panel \cap Listed : rows' = [rows EXCEPT ![q].showChildren = ~@]
    BY <1>3 DEF ExpandOrCollapse
  <2> DEFINE b == ~rows[q].showChildren
             r == [rows[q] EXCEPT !.showChildren = b]
  <2>2. b \in BOOLEAN /\ r # NoRow /\ q \in Pid
    BY <1>1 DEF Listed
  <2>3. \A p \in Pid : rows'[p] = IF p = q THEN r ELSE rows[p]
    BY <2>1 DEF TypeInv, TypeOK
  <2>4. r \in {[rows[q] EXCEPT !.showChildren = c] : c \in BOOLEAN}
    BY <2>2
  <2> HIDE DEF b, r
  <2>5. \A p \in Listed : rows[p] \in {[rows[p] EXCEPT !.showChildren = c] : c \in BOOLEAN}
    <3>1. ASSUME NEW p \in Listed
          PROVE  rows[p] = [rows[p] EXCEPT !.showChildren = rows[p].showChildren]
                 /\ rows[p].showChildren \in BOOLEAN
      BY DEF TypeInv, TypeOK, Listed, Row
    <3> QED
      BY <3>1
  <2> QED
    BY <2>1, <2>2, <2>3, <2>4, <2>5 DEF SameButChildren, Listed
<1>4. CASE ~ToggleTreeView /\ ~ExpandOrCollapse
  <2>1. ~StartScan /\ ~OpenEntry /\ ~ReadTask /\ ~FinishEntry /\ ~EndScan
    BY DEF PauseInv, Reading, StartScan, ScanAllowed, OpenEntry, ReadTask, FinishEntry, EndScan
  <2>2. KernelStep => rows' = rows
    BY DEF KernelStep, Fork, Clone, Exit, Tick, listVars
  <2>3. SortTree \/ RebuildPanel \/ Redraw \/ Aborted \/ UNCHANGED vars => rows' = rows
    BY DEF SortTree, RebuildPanel, Redraw, Aborted, vars, listVars
  <2>4. UserStep => rows' = rows
    BY <1>4 DEF UserStep, ToggleDisplayOption, ToggleHidden, TogglePause, InvertSort, Follow,
       SetFilter
  <2>5. rows' = rows
    BY <2>1, <2>2, <2>3, <2>4 DEF Next, ScanStep
  <2> QED
    BY <2>5, SameRows
<1> QED
  BY <1>2, <1>3, <1>4

\* While updates are paused no row is added, removed, re-read or tombed, whatever
\* keys are pressed and whatever the kernel does meanwhile.
THEOREM PauseFreezes == Spec => PausedFrozen
<1>1. Init => TypeInv /\ PauseInv
  BY InitTypeInv DEF Init, PauseInv
<1>2. TypeInv /\ PauseInv /\ [Next]_vars => (TypeInv /\ PauseInv)'
  BY TypeInvStep, PauseStep
<1>3. TypeInv /\ PauseInv /\ [Next]_vars =>
         [paused /\ paused' =>
          \A p \in Pid : /\ p \in Listed <=> (rows[p] # NoRow)'
                        /\ p \in Listed => rows'[p] \in
                              {[rows[p] EXCEPT !.showChildren = b] : b \in BOOLEAN}]_vars
  BY FrozenStep DEF SameButChildren
<1> QED
  BY <1>1, <1>2, <1>3, PTL DEF Spec, PausedFrozen
=============================================================================
