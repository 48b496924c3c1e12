---------------------------- MODULE PlatformScan ----------------------------
(****************************************************************************)
(* ProcessList_goThroughEntries of the systems other than Linux: each asks  *)
(* its kernel for a list of processes (kvm_getprocs, sysctl, proc_walk,     *)
(* pmFetch) and then handles one entry after the other, fetching names and  *)
(* thread counts on the way, while processes fork, exec, change their user  *)
(* and exit.  What a row takes over from an entry only once, and what each  *)
(* time, is different on each of them; ProcessList_scan around it is the    *)
(* same (see ProcessList for its tombstones, which are left out here).      *)
(****************************************************************************)
EXTENDS Integers, FiniteSets

CONSTANTS
    Platforms,     \* the systems looked at
    MaxPid,        \* the greatest number of a process
    MaxKernSteps   \* bound: steps of the kernel

AllPlatforms == {"freebsd", "dragonfly", "openbsd", "netbsd", "darwin", "solaris", "pcp"}
ASSUME PlatformScanAssumption ==
    Platforms \subseteq AllPlatforms /\ MaxPid \in Nat /\ MaxPid >= 3 /\ MaxKernSteps \in Nat

VARIABLES
    platform,
    kern,        \* the kernel: its processes, by pid
    kernSteps,   \* how many steps it has taken
    births,      \* how many processes have been started
    had,         \* history: the names a process has had, by its number
    jails,       \* the jails there are
    option,      \* hideKernelThreads, hideUserlandThreads, updateProcessNames
    listed,      \* the jails DragonFly has read for this scan
    seen, left,  \* the kernel's answer, and its entries that are not handled yet
    rows,        \* the process table
    tasks,       \* kernelThreads, userlandThreads, totalTasks, runningTasks
    stage        \* "idle", "list", "scan" or "shown"
kernVars == <<kern, kernSteps, births, had, jails>>
platformVars == <<platform, kernVars, option, listed, seen, left, rows, tasks, stage>>

Pids == 1 .. MaxPid
Live == DOMAIN kern
NoJail == 0
NoTasks == [kernel |-> 0, user |-> 0, total |-> 0, running |-> 0]
Truth(b) == IF b THEN 1 ELSE 0
\* A function with one more value, or one fewer.
Put(f, x, v) == [y \in DOMAIN f \cup {x} |-> IF y = x THEN v ELSE f[y]]
Drop(f, x) == [y \in DOMAIN f \ {x} |-> f[y]]

(****************************************************************************)
(* The kernel.  Process 1 is init, 2 belongs to the kernel.  "running" is   *)
(* the thread that runs, if any; the second thread has the number 2.        *)
(****************************************************************************)
Process(start, parent, uid, system) ==
    [start |-> start, parent |-> parent, uid |-> uid, comm |-> "sh",
     system |-> system, threads |-> 1, running |-> 0, jail |-> NoJail]

PlatformInit ==
    /\ platform \in Platforms
    /\ kern = [p \in 1 .. 3 |-> Process(p, IF p = 3 THEN 1 ELSE 0, 0, p = 2)]
    /\ kernSteps = 0 /\ births = 3 /\ had = [s \in 1 .. 3 |-> {"sh"}] /\ jails = {} /\ listed = {}
    /\ option \in [kernel : BOOLEAN, user : BOOLEAN, names : BOOLEAN]
    /\ seen = {} /\ left = {} /\ rows = <<>> /\ tasks = NoTasks /\ stage = "idle"

KernStep(newKern) ==
    /\ kernSteps < MaxKernSteps /\ kernSteps' = kernSteps + 1
    /\ kern' = newKern /\ stage' = (IF stage = "shown" THEN "idle" ELSE stage)
    /\ UNCHANGED <<platform, option, listed, seen, left, rows, tasks>>

\* A pid is not used again before a scan has seen that it was free.
Rested(p) == p \notin Live /\ p \notin DOMAIN rows /\ \A e \in seen : e.pid # p

Fork(p, q) ==
    /\ Rested(p) /\ q \in Live /\ ~kern[q].system
    /\ KernStep(Put(kern, p, [kern[q] EXCEPT !.start = births + 1, !.parent = q,
                                             !.threads = 1, !.running = 0]))
    /\ births' = births + 1 /\ had' = Put(had, births + 1, {kern[q].comm}) /\ UNCHANGED jails

\* Orphans become children of init.
Exit(p) ==
    /\ p \in Live \ {1, 2}
    /\ KernStep([q \in Live \ {p} |->
           [kern[q] EXCEPT !.parent = IF @ = p THEN 1 ELSE @]])
    /\ UNCHANGED <<births, had, jails>>

Exec(p) ==
    /\ p \in Live \ {1, 2} /\ kern[p].comm = "sh"
    /\ KernStep([kern EXCEPT ![p].comm = "ls", ![p].threads = 1, ![p].running = 0])
    /\ had' = [had EXCEPT ![kern[p].start] = @ \cup {"ls"}] /\ UNCHANGED <<births, jails>>

Setuid(p) ==
    /\ p \in Live \ {1, 2} /\ kern[p].uid = 0
    /\ KernStep([kern EXCEPT ![p].uid = 1]) /\ UNCHANGED <<births, had, jails>>

\* A process enters a jail, which may be a new one.
JailAttach(p) ==
    /\ platform \in {"freebsd", "dragonfly"} /\ p \in Live \ {1, 2} /\ kern[p].jail = NoJail
    /\ KernStep([kern EXCEPT ![p].jail = 1]) /\ jails' = {1} /\ UNCHANGED <<births, had>>

Clone(p) ==
    /\ p \in Live /\ kern[p].threads = 1
    /\ KernStep([kern EXCEPT ![p].threads = 2]) /\ UNCHANGED <<births, had, jails>>

Dispatch(p, t) ==
    /\ p \in Live /\ t \in 0 .. kern[p].threads /\ t # kern[p].running
    /\ KernStep([kern EXCEPT ![p].running = t]) /\ UNCHANGED <<births, had, jails>>

(****************************************************************************)
(* The entries: lwp 0 stands for the process, 1 for its first thread where  *)
(* that has an entry of its own, 2 for its second thread.                   *)
(****************************************************************************)
ListsThreads == platform \in {"openbsd", "solaris", "pcp"} \/ (platform = "dragonfly" /\ ~option.user)
Lwps(p) == {0} \cup {l \in {1} : platform = "openbsd"} \cup {l \in {2} : ListsThreads /\ kern[p].threads = 2}
Entries == UNION {{[pid |-> p, lwp |-> l, proc |-> kern[p]] : l \in Lwps(p)} : p \in Live}

\* DragonFly's threads share the pid of their process, the others have ids
\* of their own (on Solaris htop makes them up from the two numbers).
RowKey(e) == IF e.lwp = 2 /\ platform # "dragonfly" THEN MaxPid + e.pid ELSE e.pid

Runs(e) == e.proc.running = (IF e.lwp = 2 THEN 2 ELSE 1)

(****************************************************************************)
(* Rows.                                                                    *)
(****************************************************************************)
\* Process_init: no user is -1.
Process_init == [start |-> 0, parent |-> 0, uid |-> -1, user |-> -1, name |-> "",
                 system |-> FALSE, thread |-> FALSE, nlwp |-> 0, running |-> FALSE,
                 access |-> TRUE, jail |-> NoJail, jname |-> NoJail, show |-> TRUE, updated |-> FALSE]

\* The name of the user is looked up when the number is another one.
WithUser(row, uid) == IF row.uid # uid THEN [row EXCEPT !.uid = uid, !.user = uid] ELSE row

Visible(row) == ~((option.kernel /\ row.system) \/ (option.user /\ row.thread))
Named(row, new, name) == IF new \/ option.names THEN [row EXCEPT !.name = name] ELSE row

\* What is read again with every scan.
Current(row, e) == [row EXCEPT !.nlwp = e.proc.threads, !.running = Runs(e), !.updated = TRUE]

\* The name of a jail is looked up when a process is new or has entered it.
FreeBSD_jailed(row, e) == [row EXCEPT !.jail = e.proc.jail, !.jname = e.proc.jail]

\* The table of names was read before the processes: a jail can be missing.
DragonFly_readJailName(jail) == IF jail \in listed THEN jail ELSE NoJail

DragonFly_jailed(row, new, e) ==
    IF new \/ row.jail # e.proc.jail
    THEN [row EXCEPT !.jail = e.proc.jail, !.jname = DragonFly_readJailName(e.proc.jail)] ELSE row

FreeBSD_row(old, new, e, name) ==
    LET p == e.proc
        first == IF new THEN [old EXCEPT !.start = p.start, !.system = p.system /\ e.pid # 1] ELSE old
        jailed == FreeBSD_jailed([first EXCEPT !.parent = p.parent], e)
        row == Current(Named(WithUser(jailed, p.uid), new, name), e)
    IN  [row EXCEPT !.show = Visible(row)]

\* A process with threads is itself taken for a thread.
DragonFly_row(old, new, e, name) ==
    LET p == e.proc
        first == IF new THEN [old EXCEPT !.start = p.start, !.system = p.system,
                                         !.thread = p.threads > 1] ELSE old
        jailed == DragonFly_jailed([first EXCEPT !.parent = p.parent], new, e)
        row == Current(Named(WithUser(jailed, p.uid), new, name), e)
    IN  [row EXCEPT !.show = Visible(row)]

OpenBSD_row(old, new, e, name) ==
    LET p == e.proc
        first == IF new THEN [old EXCEPT !.start = p.start, !.parent = p.parent, !.system = p.system,
                                         !.thread = e.lwp # 0] ELSE old
        row == [Current(WithUser(Named(first, new, name), p.uid), e) EXCEPT !.nlwp = 1]
    IN  [row EXCEPT !.show = Visible(row)]

\* Whether a row is shown is decided before a new one is known to be a kernel's.
NetBSD_row(old, new, e, name) ==
    LET p == e.proc
        shown == [old EXCEPT !.show = Visible(old)]
        first == IF new THEN [shown EXCEPT !.start = p.start, !.parent = p.parent, !.system = p.system]
                        ELSE shown
    IN  Current(WithUser(Named(first, new, name), p.uid), e)

\* proc_pidinfo and task_for_pid look at the process of now, if there is one;
\* the second may be denied, and is not tried again then.
Pidinfo(e) == IF e.pid \in Live THEN {kern[e.pid]} ELSE {}
Darwin_row(old, new, e, name, access) ==
    LET p == e.proc
        first == IF new THEN [old EXCEPT !.start = p.start, !.parent = p.parent, !.name = name] ELSE old
        now == Pidinfo(e)
        granted == old.access /\ access /\ now # {}
    IN  [WithUser(first, p.uid) EXCEPT
            !.nlwp = IF now # {} THEN kern[e.pid].threads ELSE @,
            !.access = granted, !.updated = TRUE,
            !.running = granted /\ kern[e.pid].running # 0]

\* A process is taken for one of the kernel, from its second scan on, if it has
\* no parent and is not init; its further threads never are.
Solaris_row(old, new, e, name) ==
    LET p == e.proc
        main == e.lwp = 0
        row == Current(WithUser(old, p.uid), e)
    IN  [row EXCEPT
            !.start = IF new THEN p.start ELSE @,
            !.name = IF new THEN name ELSE @,
            !.parent = IF main THEN p.parent ELSE IF new THEN e.pid ELSE @,
            !.thread = IF new THEN ~main ELSE @,
            !.system = IF new THEN main /\ p.parent <= 0 /\ e.pid > 1 ELSE @,
            !.show = IF main THEN ~(option.kernel /\ old.system)
                     ELSE IF old.system THEN ~option.kernel ELSE ~option.user]

\* Rows that are hidden are not read again.
PCP_row(old, new, e, name) ==
    LET p == e.proc
        id == [old EXCEPT !.parent = p.parent, !.running = Runs(e), !.thread = e.lwp # 0, !.updated = TRUE]
        system == IF new \/ option.names THEN p.system ELSE old.system
        row == Current(Named(WithUser([id EXCEPT !.start = p.start, !.system = system], p.uid), new, name), e)
    IN  IF ~new /\ ~Visible(id) THEN [id EXCEPT !.show = FALSE]
        ELSE [row EXCEPT !.show = Visible(row)]

\* kvm_getargv and its like ask for the process of now, and may fail: the name
\* of the entry is used then.  The others have the name from the entry.
Names(e) ==
    {e.proc.comm} \cup (IF platform \notin {"solaris", "pcp"} /\ e.pid \in Live
                        THEN {kern[e.pid].comm} ELSE {})

HandledRow(old, new, e, name, access) ==
    CASE platform = "freebsd" -> FreeBSD_row(old, new, e, name)
      [] platform = "dragonfly" -> DragonFly_row(old, new, e, name)
      [] platform = "openbsd" -> OpenBSD_row(old, new, e, name)
      [] platform = "netbsd" -> NetBSD_row(old, new, e, name)
      [] platform = "darwin" -> Darwin_row(old, new, e, name, access)
      [] platform = "solaris" -> Solaris_row(old, new, e, name)
      [] platform = "pcp" -> PCP_row(old, new, e, name)

(****************************************************************************)
(* The numbers of the Tasks meter.                                          *)
(****************************************************************************)
Counted(kernel, user, total, running) ==
    [kernel |-> tasks.kernel + kernel, user |-> tasks.user + user,
     total |-> tasks.total + total, running |-> tasks.running + running]

\* Mutant: kernel threads are counted as threads, too.
CountedRow_Twice(row) ==
    Counted(Truth(row.system), Truth(row.thread), 1, Truth(row.running))

CountedRow(row) ==
    Counted(Truth(row.system), Truth(~row.system /\ row.thread), 1, Truth(row.running))

\* Threads are not told from processes.
CountedProcess(row) == Counted(Truth(row.system), 0, 1, Truth(row.running))

Darwin_counted(e) ==
    IF Pidinfo(e) = {} THEN Counted(0, 0, 1, 0)
    ELSE LET now == kern[e.pid]
         IN  Counted(0, now.threads, now.threads + 1, Truth(now.running # 0))

\* Only the representative thread is counted, by what the row was before.
Solaris_counted(old, row, e) ==
    CASE e.lwp # 0 -> tasks
      [] e.lwp = 0 /\ old.system ->
            IF option.kernel THEN tasks
            ELSE Counted(row.nlwp, 0, row.nlwp + 1, Truth(row.running))
      [] e.lwp = 0 /\ ~old.system ->
            IF option.user THEN Counted(0, 0, 1, Truth(row.running))
            ELSE Counted(0, row.nlwp, row.nlwp + 1, Truth(row.running))

CountedTasks(old, row, e) ==
    CASE platform \in {"openbsd", "netbsd", "pcp"} -> CountedRow(row)
      [] platform \in {"freebsd", "dragonfly"} -> CountedProcess(row)
      [] platform = "darwin" -> Darwin_counted(e)
      [] platform = "solaris" -> Solaris_counted(old, row, e)

(****************************************************************************)
(* A scan.                                                                  *)
(****************************************************************************)
\* The rows are marked and the counters are reset.  On Solaris the counter of kernel threads starts at one.
StartScan ==
    /\ stage \in {"idle", "shown"} /\ stage' = "list"
    /\ listed' = (IF platform = "dragonfly" THEN jails ELSE listed)
    /\ rows' = [k \in DOMAIN rows |-> [rows[k] EXCEPT !.updated = FALSE, !.show = TRUE]]
    /\ tasks' = [NoTasks EXCEPT !.kernel = Truth(platform = "solaris")]
    /\ UNCHANGED <<platform, kernVars, option, seen, left>>

\* The kernel answers with all its processes, or fails to.
GetProcs ==
    /\ stage = "list" /\ stage' = "scan" /\ seen' \in {Entries, {}} /\ left' = seen'
    /\ UNCHANGED <<platform, kernVars, option, listed, rows, tasks>>

\* OpenBSD: the first thread of a process that is listed has no row.
IsFirstThread(e) == platform = "openbsd" /\ e.lwp = 1 /\ e.pid \in DOMAIN rows

\* OpenBSD: threads are counted in the row of their process.
WithThread(e) ==
    IF platform = "openbsd" /\ e.lwp = 2 /\ e.pid \in DOMAIN rows
    THEN [rows EXCEPT ![e.pid].nlwp = @ + 1] ELSE rows

\* Processes come in any order, each before its threads, which follow it.
Begun(p) == \E e \in seen \ left : e.pid = p
IsNext(e) == \A d \in left : IF d.pid = e.pid THEN e.lwp <= d.lwp ELSE ~Begun(d.pid)

HandleEntry(e) ==
    /\ stage = "scan" /\ e \in left /\ IsNext(e) /\ left' = left \ {e}
    /\ LET new == RowKey(e) \notin DOMAIN rows
           old == IF new THEN Process_init ELSE rows[RowKey(e)]
       IN  \/ /\ IsFirstThread(e) /\ UNCHANGED <<rows, tasks>>
           \/ /\ ~IsFirstThread(e)
              /\ \E name \in Names(e), access \in IF platform = "darwin" THEN BOOLEAN ELSE {TRUE} :
                   LET row == HandledRow(old, new, e, name, access)
                   IN  /\ rows' = Put(WithThread(e), RowKey(e), row)
                       /\ tasks' = CountedTasks(old, row, e)
    /\ UNCHANGED <<platform, kernVars, option, listed, seen, stage>>

\* Rows without an entry go, at once as without highlighting of changes.
EndScan ==
    /\ stage = "scan" /\ left = {} /\ stage' = "shown"
    /\ rows' = [k \in {j \in DOMAIN rows : rows[j].updated} |-> rows[k]]
    /\ UNCHANGED <<platform, kernVars, option, listed, seen, left, tasks>>

\* The user changes an option between two scans.
Toggle(o) ==
    /\ stage = "shown" /\ stage' = "idle" /\ option' = [option EXCEPT ![o] = ~@]
    /\ UNCHANGED <<platform, kernVars, listed, seen, left, rows, tasks>>

PlatformNext ==
    \/ StartScan \/ GetProcs \/ EndScan
    \/ \E e \in left : HandleEntry(e)
    \/ \E o \in {"kernel", "user", "names"} : Toggle(o)
    \/ \E p \in Pids : Exit(p) \/ Exec(p) \/ Setuid(p) \/ JailAttach(p) \/ Clone(p)
    \/ \E p, q \in Pids : Fork(p, q)
    \/ \E p \in Pids, t \in 0 .. 2 : Dispatch(p, t)

PlatformSpec == PlatformInit /\ [][PlatformNext]_platformVars

(****************************************************************************)
(* Properties.                                                              *)
(****************************************************************************)
Keys(S) == {RowKey(e) : e \in S}
WithRow == {e \in seen : ~(platform = "openbsd" /\ e.lwp = 1)}
UserProcesses == {e.pid : e \in {d \in seen : ~d.proc.system}}
KernelProcesses == {e.pid : e \in {d \in seen : d.proc.system}}
Hidden(e) == (option.kernel /\ e.proc.system) \/ (option.user /\ e.lwp # 0)

\* A row shows one process: its start, user and user's name are of the same, its
\* name is one it has had, and its parent is the present one on those systems that
\* reread it ("process can get reparented anytime").  It is in no jail but its own;
\* on DragonFly the name can be missing.  On three systems it is also hidden as
\* asked; see HidesThreads for the others.
Shows(row, e, threads) ==
    LET skipped == platform = "pcp" /\ ~row.show
    IN  /\ row.start = e.proc.start /\ row.user = row.uid
        /\ ~skipped => row.uid = e.proc.uid
        /\ row.name \in had[e.proc.start]
        /\ platform = "freebsd" => row.jname = e.proc.jail
        /\ platform = "dragonfly" => row.jname \in {NoJail, e.proc.jail}
        /\ platform \in {"freebsd", "dragonfly", "pcp"} \/ (platform = "solaris" /\ e.lwp = 0) =>
              row.parent = e.proc.parent
        /\ e.lwp = 0 /\ platform # "darwin" /\ ~skipped => row.nlwp = threads
        /\ platform \in {"freebsd", "openbsd", "pcp"} => (row.show <=> ~Hidden(e))

\* After a scan every entry of the kernel is shown by its row and no row is without
\* an entry.
RowsTrue ==
    stage = "shown" =>
        /\ DOMAIN rows = Keys(WithRow)
        /\ \A e \in WithRow : Shows(rows[RowKey(e)], e, e.proc.threads)

\* The numbers of the Tasks meter fit the list it stands above: the tasks that
\* are neither kernel nor user threads are the processes.  DragonFly counts
\* every thread as a task, Darwin takes the kernel's process for one of the
\* users', and Solaris, where one kernel thread is counted from the start, shows
\* one process too few and those of the kernel as well.
CountsAgree ==
    stage = "shown" =>
        LET processes == tasks.total - tasks.kernel - tasks.user
            users == Cardinality(UserProcesses)
            all == users + Cardinality(KernelProcesses)
        IN  /\ platform \in {"freebsd", "openbsd", "netbsd", "pcp"} => processes = users
            /\ platform = "dragonfly" => processes >= users /\ (option.user => processes = users)
            /\ platform = "darwin" => processes = all
            /\ platform = "solaris" => processes \in {users - 1, all - 1}

\* htop.1: "Hide kernel threads: prevent the threads belonging the kernel to be
\* displayed in the process list", and the same of threads of the users.
HidesThreads ==
    stage = "shown" => \A e \in WithRow : rows[RowKey(e)].show = ~Hidden(e)

(****************************************************************************)
(* A finished scan of any of the systems shows the kernel's processes and   *)
(* counts what it shows (ProcessList_goThroughEntries of each).             *)
(****************************************************************************)
PlatformTrue == RowsTrue /\ CountsAgree
=============================================================================
