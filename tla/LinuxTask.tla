----------------------------- MODULE LinuxTask -----------------------------
(****************************************************************************)
(* The figures of one process and one thread of it on Linux: what           *)
(* LinuxProcessList_recurseProcTree reads of their directories in /proc,    *)
(* pass after pass, while columns are shown and hidden, threads are hidden  *)
(* and shown again, and files become unreadable (the process runs a setuid  *)
(* program) and readable.  Which entries are found, counted and listed is   *)
(* in ProcessList, the command line in CommandText, CPUs in LinuxCPUs.      *)
(* Time is counted in thirds of the 2048 ms of the library check.           *)
(****************************************************************************)
EXTENDS Integers, FiniteSets
LOCAL FX == INSTANCE FiniteSetsExt

CONSTANTS
    TaskPids,       \* numbers the process can have
    FirstColumns,   \* the columns that may be shown at first
    FirstHighlight, \* whether deleted libraries are looked for at first
    MaxTaskSteps,   \* bound: what the process, the kernel and the user do
    MaxPasses       \* bound: scans
ASSUME LinuxTaskAssumption == TaskPids \subseteq Nat \ {0} /\ MaxTaskSteps \in Nat /\ MaxPasses \in Nat

VARIABLES
    pid, initListed,    \* the number of the process; whether /proc lists pid 1
    work, pss, library, note, lines,
                        \* what the process has done and is now
    closed,             \* files that cannot be read
    columns,            \* Settings.flags: what the columns need
    hideThreads, highlightDeleted,
    clock, period, pass, taskSteps,
    smaps_flag,
    taskRows,           \* the rows: "main" and "thread"
    turn,               \* what is read next: "thread", "main", or "rest" between passes
    past                \* history: the readings before
taskWorldVars == <<pid, initListed, work, pss, library, note, lines, closed>>
choiceVars == <<columns, hideThreads, highlightDeleted>>
taskVars == <<taskWorldVars, choiceVars, clock, period, pass, taskSteps, smaps_flag, taskRows, turn, past>>

Tasks == {"main", "thread"}
Columns == {"io", "smaps", "lrs", "ctxt", "delay", "texts"}
Files == {"io", "maps", "smaps", "status", "taskstats", "texts"}
Never == -9          \* not a number, no text, not read yet
Width == 64          \* numbers of unsigned long long
Largest == Width - 1
Less(a, b) == (a - b) % Width
Per(scale, amount, time) == (scale * amount) \div time

NewTask ==
    [ticks |-> 0, percent |-> 0,
     bytes |-> 0, rate |-> 0, ioTime |-> 0,
     deletedLib |-> FALSE, mapsTime |-> 0, lrs |-> 0, pss |-> 0,
     switches |-> 0, switchesNow |-> 0, delay |-> 0, delayTime |-> 0, delayed |-> 0,
     cgroup |-> Never, secattr |-> Never, cwd |-> Never, autogroup |-> Never, oom |-> 0,
     ctid |-> Never, vxid |-> 0, new |-> TRUE]
NoPast == [ticks |-> 0, ticksPass |-> 0, bytes |-> 0, ioTime |-> Never, delay |-> 0, delayTime |-> 0,
           smapsPasses |-> 0, libSince |-> 0, libClock |-> 0]

TaskInit ==
    /\ pid \in TaskPids /\ initListed \in (IF pid = 1 THEN {TRUE} ELSE BOOLEAN)
    /\ work = [t \in Tasks |-> 0] /\ pss = 1 /\ library = "there" /\ note = 0 /\ lines = 1 /\ closed = {}
    /\ columns \in FirstColumns /\ hideThreads \in BOOLEAN /\ highlightDeleted \in FirstHighlight
    /\ clock = 1 /\ period = 0 /\ pass = 0 /\ taskSteps = 0 /\ smaps_flag = 0
    /\ taskRows = [t \in Tasks |-> NewTask] /\ turn = "rest" /\ past = [t \in Tasks |-> NoPast]

(****************************************************************************)
(* The process, the kernel and the user.                                    *)
(****************************************************************************)
TaskStep ==
    /\ taskSteps < MaxTaskSteps /\ taskSteps' = taskSteps + 1
    /\ UNCHANGED <<pid, initListed, clock, period, pass, smaps_flag, taskRows, turn>>

\* Work takes CPU time, reads bytes, switches contexts and waits.
Work(t) ==
    /\ TaskStep /\ work' = [work EXCEPT ![t] = @ + 1]
    /\ UNCHANGED <<pss, library, note, lines, closed, choiceVars, past>>

ChangeMemory ==
    /\ TaskStep /\ pss' = 3 - pss
    /\ past' = [t \in Tasks |-> [past[t] EXCEPT !.smapsPasses = 0]]
    /\ UNCHANGED <<work, library, note, lines, closed, choiceVars>>

ReplaceLibrary ==
    /\ TaskStep /\ library = "there" /\ library' = "deleted"
    /\ past' = [t \in Tasks |-> [past[t] EXCEPT !.libSince = clock]]
    /\ UNCHANGED <<work, pss, note, lines, closed, choiceVars>>

\* It changes its directory, label, and control group, or is put into another one.
ChangeTexts ==
    /\ TaskStep /\ note' = 1 - note /\ lines' = 3 - lines
    /\ UNCHANGED <<work, pss, library, closed, choiceVars, past>>

Protect(f) ==
    /\ TaskStep /\ closed' = FX!SymDiff(closed, {f})
    /\ past' = [t \in Tasks |-> [past[t] EXCEPT !.smapsPasses = 0, !.libSince = clock]]
    /\ UNCHANGED <<work, pss, library, note, lines, choiceVars>>

Choose(newColumns, hide, highlight) ==
    /\ TaskStep /\ turn = "rest"
    /\ columns' = newColumns /\ hideThreads' = hide /\ highlightDeleted' = highlight
    /\ past' = [t \in Tasks |-> [past[t] EXCEPT !.smapsPasses = 0, !.libSince = clock]]
    /\ UNCHANGED <<work, pss, library, note, lines, closed>>

ToggleColumn(c) == Choose(FX!SymDiff(columns, {c}), hideThreads, highlightDeleted)
ToggleThreads == Choose(columns, ~hideThreads, highlightDeleted)
ToggleDeleted == Choose(columns, hideThreads, ~highlightDeleted)

(****************************************************************************)
(* The files of one task.                                                   *)
(****************************************************************************)
\* Mutant: the rate is taken over the period of this pass.
LinuxProcessList_readIoFile_Period(row, t) ==
    IF "io" \in closed THEN [row EXCEPT !.rate = Never, !.bytes = Largest, !.ioTime = clock]
    ELSE [row EXCEPT !.bytes = work[t], !.ioTime = clock,
                     !.rate = IF period = 0 THEN 0 ELSE Per(1000, Less(work[t], row.bytes), period)]

\* The first reading after a failed one counts from the largest number.
LinuxProcessList_readIoFile(row, t) ==
    IF "io" \in closed THEN [row EXCEPT !.rate = Never, !.bytes = Largest, !.ioTime = clock]
    ELSE [row EXCEPT !.bytes = work[t], !.rate = Per(1000, Less(work[t], row.bytes), clock - row.ioTime),
                     !.ioTime = clock]

\* Looks for deleted libraries, and adds up the sizes of all libraries.
LinuxProcessList_readMaps(row) ==
    LET readable == "maps" \notin closed
    IN  [row EXCEPT !.deletedLib = highlightDeleted /\ readable /\ library = "deleted",
                    !.lrs = IF "lrs" \in columns /\ readable THEN pss ELSE @,
                    !.mapsTime = clock]

WantsMaps(t) == "lrs" \in columns \/ (highlightDeleted /\ t = "main")

\* The maps are read again after a random time of up to 2048 ms.
Checked(row, t, recheck) ==
    IF ~WantsMaps(t) THEN [row EXCEPT !.deletedLib = t = "thread" /\ taskRows["main"].deletedLib]
    ELSE IF Less(clock, row.mapsTime) > recheck THEN LinuxProcessList_readMaps(row)
    ELSE row

LinuxProcessList_readSmapsFile(row) == IF "smaps" \in closed THEN row ELSE [row EXCEPT !.pss = pss]

SmapsTurn == pid % 2 = smaps_flag

\* A thread takes the value of its process, which is read after it.
WithSmaps(row, t) ==
    IF "smaps" \notin columns THEN row
    ELSE IF t = "thread" THEN [row EXCEPT !.pss = taskRows["main"].pss]
    ELSE IF SmapsTurn THEN LinuxProcessList_readSmapsFile(row)
    ELSE row

\* utime and stime.
LinuxProcessList_readStatFile(row, t) == [row EXCEPT !.ticks = work[t]]

\* "period might be 0 after system sleep"; there is one CPU.
WithStat(row, t) ==
    [LinuxProcessList_readStatFile(row, t) EXCEPT
                !.percent = IF period = 0 THEN 0
                            ELSE FX!Min({100, Per(100, Less(work[t], row.ticks), period)})]

\* What has been waited since the last reading, in percent of the time since then.
LinuxProcessList_readDelayAcctData(row, t) ==
    IF "taskstats" \in closed THEN [row EXCEPT !.delayed = Never]
    ELSE [row EXCEPT !.delayed = FX!Min({100, Per(100, work[t] - row.delay, clock - row.delayTime)}),
                     !.delay = work[t], !.delayTime = clock]

LinuxProcessList_readCtxtData(row, t) ==
    IF "status" \in closed THEN row
    ELSE [row EXCEPT !.switchesNow = IF work[t] > row.switches THEN work[t] - row.switches ELSE 0,
                     !.switches = work[t]]

\* Each line of the file is written over the one before.
LinuxProcessList_readCGroupFile == IF "texts" \in closed THEN Never ELSE lines
LinuxProcessList_readSecattrData == IF "texts" \in closed THEN Never ELSE note
LinuxProcessList_readCwd == IF "texts" \in closed THEN Never ELSE note
LinuxProcessList_readAutogroup == IF "texts" \in closed THEN Never ELSE note
LinuxProcessList_readOomData(row) == IF "texts" \in closed THEN row.oom ELSE note

WithTexts(row) ==
    [row EXCEPT !.cgroup = LinuxProcessList_readCGroupFile, !.oom = LinuxProcessList_readOomData(row),
                !.secattr = LinuxProcessList_readSecattrData, !.cwd = LinuxProcessList_readCwd,
                !.autogroup = LinuxProcessList_readAutogroup]

\* The container is looked up for new rows only.
ReadsContainer(row) == row.new /\ "texts" \in columns /\ "status" \notin closed
LinuxProcessList_readOpenVZData(row) == IF ReadsContainer(row) THEN [row EXCEPT !.ctid = note] ELSE row
LinuxProcessList_readVServerData(row) == IF ReadsContainer(row) THEN [row EXCEPT !.vxid = note] ELSE row

(****************************************************************************)
(* A pass: the thread first, because the directory of tasks is entered      *)
(* before the files of the process are read.                                *)
(****************************************************************************)
\* Hidden threads are passed over, but when they are new.
PassedOver(t) == t = "thread" /\ hideThreads /\ ~taskRows[t].new

Flipped(flag) == IF "smaps" \in columns THEN 1 - flag ELSE flag

\* Pid 1 comes first; what is read of a process depends on whether that was in this pass.
StartPass(elapsed, slept) ==
    /\ turn = "rest" /\ pass < MaxPasses /\ pass' = pass + 1 /\ (slept => elapsed = 3)
    /\ clock' = clock + elapsed /\ period' = (IF slept THEN 0 ELSE elapsed) /\ turn' = "thread"
    /\ smaps_flag' = (IF initListed /\ pid # 1 THEN Flipped(smaps_flag) ELSE smaps_flag)
    /\ UNCHANGED <<taskWorldVars, choiceVars, taskSteps, taskRows, past>>

\* One column after the other, each for itself.
If(column, row, newRow) == IF column \in columns THEN newRow ELSE row
ReadTask(t, recheck) ==
    LET r0 == taskRows[t]
        r1 == If("io", r0, LinuxProcessList_readIoFile(r0, t))
        r2 == WithSmaps(Checked(r1, t, recheck), t)
        r3 == LinuxProcessList_readVServerData(LinuxProcessList_readOpenVZData(WithStat(r2, t)))
        r4 == If("delay", r3, LinuxProcessList_readDelayAcctData(r3, t))
        r5 == If("ctxt", r4, LinuxProcessList_readCtxtData(r4, t))
    IN  [If("texts", r5, WithTexts(r5)) EXCEPT !.new = FALSE]

Remembered(t) ==
    LET p == past[t]
    IN  [ticks |-> work[t], ticksPass |-> pass,
         bytes |-> IF "io" \in columns THEN work[t] ELSE p.bytes,
         ioTime |-> IF "io" \notin columns THEN p.ioTime ELSE IF "io" \in closed THEN Never ELSE clock,
         delay |-> IF "delay" \in columns /\ "taskstats" \notin closed THEN work[t] ELSE p.delay,
         delayTime |-> IF "delay" \in columns /\ "taskstats" \notin closed THEN clock ELSE p.delayTime,
         smapsPasses |-> FX!Min({p.smapsPasses + 1, 3}), libSince |-> p.libSince,
         libClock |-> IF t = "main" THEN clock ELSE past["main"].libClock]

Read(t) ==
    /\ turn = t /\ turn' = (IF t = "thread" THEN "main" ELSE "rest")
    /\ smaps_flag' = (IF t = "main" /\ pid = 1 THEN Flipped(smaps_flag) ELSE smaps_flag)
    /\ IF PassedOver(t) THEN taskRows' = taskRows /\ past' = [past EXCEPT ![t].ticks = work[t]]
       ELSE /\ \E recheck \in 0 .. 2 : taskRows' = [taskRows EXCEPT ![t] = ReadTask(t, recheck)]
            /\ past' = [past EXCEPT ![t] = Remembered(t)]
    /\ UNCHANGED <<taskWorldVars, choiceVars, clock, period, pass, taskSteps>>

TaskNext ==
    \/ \E t \in Tasks : Work(t)
    \/ ChangeMemory \/ ReplaceLibrary \/ ChangeTexts \/ \E f \in Files : Protect(f)
    \/ \E c \in Columns : ToggleColumn(c)
    \/ ToggleThreads \/ ToggleDeleted
    \/ \E elapsed \in {1, 3}, slept \in BOOLEAN : StartPass(elapsed, slept)
    \/ \E t \in Tasks : Read(t)

TaskSpec == TaskInit /\ [][TaskNext]_taskVars

(****************************************************************************)
(* Properties.                                                              *)
(****************************************************************************)
\* A row is read in this step.
WasRead(t) == turn = t /\ turn' # t /\ ~PassedOver(t)

\* Rates and percentages are the growth between two readings of the same file
\* over the time between the same two readings, however many passes a column or
\* the thread was hidden for in between; after a reading that failed there is no
\* rate.  Left out is the CPU percentage of a thread that was passed over, and
\* the rate after a failed reading.
RatesTrue ==
    [][\A t \in Tasks : WasRead(t) =>
         LET row == taskRows'[t]
             last == past[t]
         IN  /\ "io" \in columns => IF "io" \in closed THEN row.rate = Never
                ELSE last.ioTime # Never => row.rate = Per(1000, work[t] - last.bytes, clock - last.ioTime)
             /\ last.ticksPass = pass - 1 /\ period # 0 =>
                  row.percent = FX!Min({100, Per(100, work[t] - last.ticks, period)})
             /\ "delay" \in columns => IF "taskstats" \in closed THEN row.delayed = Never
                ELSE row.delayed = FX!Min({100, Per(100, work[t] - last.delay, clock - last.delayTime)})]_taskVars

\* What is not read in every pass arrives all the same: the proportional size
\* after two passes, and one more for the thread, a deleted library once 2048 ms
\* have passed, with two passes at least, and it is forgotten when it is not to
\* be shown.  The exception is a process with an odd number where pid 1 is not
\* listed.
LateFigures ==
    /\ \A t \in Tasks :
         LET n == past[t].smapsPasses IN
         turn = "rest" /\ "smaps" \in columns /\ "smaps" \notin closed /\ (initListed \/ pid % 2 = 0)
            /\ n >= (IF t = "main" THEN 2 ELSE 3) => taskRows[t].pss = pss
    /\ \A t \in Tasks :
         turn = "rest" /\ "maps" \notin closed /\ past[t].libClock - past[t].libSince >= 3 =>
            taskRows[t].deletedLib = (highlightDeleted /\ library = "deleted")

(****************************************************************************)
(* Figures of a row that are read by turns arrive, and rates are of the     *)
(* period they are divided by (LinuxProcessList.c:452-690, 1440-1560).      *)
(****************************************************************************)
FiguresTrue == []LateFigures /\ RatesTrue

\* "Read smaps file of each process only every second pass to improve
\* performance": two passes without a change show the present size.
SmapsEverySecondPass ==
    turn = "rest" /\ "smaps" \in columns /\ closed = {} /\ past["main"].smapsPasses >= 2 =>
        taskRows["main"].pss = pss

\* "The percentage of the CPU time that the process is currently using": no task
\* is shown to have used more than it did since the pass before.
CPUCurrent ==
    [][\A t \in Tasks : WasRead(t) /\ taskRows[t].new = FALSE /\ period # 0 =>
         taskRows'[t].percent * period <= 100 * (work[t] - past[t].ticks)]_taskVars
=============================================================================
