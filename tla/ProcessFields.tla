------------------------- MODULE ProcessFields -------------------------
(****************************************************************************)
(* The row of a process: what Process_writeField and its Linux override     *)
(* print into each column, how wide that is against the title above it, and *)
(* how rows are compared when they are sorted.  The rows are drawn after    *)
(* every scan, the titles only when the whole panel is redrawn, and the     *)
(* widths change with the users of the processes; ELAPSED depends on two    *)
(* readings of two clocks.                                                  *)
(*                                                                          *)
(* A text is its width in columns; a size is <<n, e>>, n * 1024^e KiB; a    *)
(* count is the number of its digits; a time is <<days, seconds, 1/100 s>>; *)
(* a percentage is in tenths; NaN is the missing number.                    *)
(****************************************************************************)
EXTENDS Integers, Sequences, FiniteSets

LOCAL FX == INSTANCE FiniteSetsExt

CONSTANTS
    RowPids,      \* the processes
    MaxPid,       \* kernel.pid_max
    UidsOf,       \* the users each may belong to
    FiguresOf,    \* the figures each may have: see Figure
    Sizes,        \* the sizes that occur, in increasing order
    ColumnSets,   \* the columns the user may choose
    ClockSteps,   \* by how many seconds the clock may be set
    MaxFieldSteps \* bound: steps of the clocks, the processes and the user

ASSUME ProcessFieldsAssumption ==
    /\ MaxPid \in Nat /\ RowPids \subseteq 1 .. MaxPid - 1
    /\ MaxFieldSteps \in Nat
    /\ ClockSteps \subseteq Int

VARIABLES
    uptime,       \* seconds since the machine started
    offset,       \* by how much the clock has been set in all
    alive,        \* the processes: [start, uid]
    fieldSteps,   \* steps so far
    btime,        \* htop's reading of the time the machine started: offset at the time
    realtime,     \* realtimeMs, in seconds
    uidDigits,    \* Process_uidDigits
    fields,       \* Settings.fields without COMM
    listedRows,   \* the rows: [pid, uid, starttime, start, figure]
    window,       \* "main", or "setup" while that window covers the list
    forceRedraw,  \* force_redraw of ScreenManager_run: the titles are printed again
    titlesDrawn,  \* the widths of the titles on the terminal
    rowsDrawn,    \* those of the fields of all rows on it, and whether each is cut or fits
    fieldStage,   \* of the loop: "check", or "draw" after checkRecalculation
    died          \* xSnprintf has found its buffer too small

fieldVars == <<uptime, offset, alive, fieldSteps, btime, realtime, uidDigits, fields, listedRows,
               window, forceRedraw, titlesDrawn, rowsDrawn, fieldStage, died>>

Gone == [start |-> 0, uid |-> -1]
NaN == -1
Invalid == <<-1, 0>>    \* ULLONG_MAX: the number could not be read
K == 1024    \* ONE_K; ONE_M, ONE_G, ... are its powers

LargestOf(S) == FX!Max(S)
Digits(n) == 1 + Cardinality({d \in 1 .. 9 : n >= 10 ^ d})
Padded(width, n) == LargestOf({width, Digits(n)})    \* %*d

\* The figures of a process that come from the system
Figure == [size: 1 .. Len(Sizes), count: 1 .. 20, cpu: Nat \X Nat \X Nat, percent: Nat, delay: Nat \cup {NaN},
           read: (Nat \X Nat) \cup {Invalid}, written: (Nat \X Nat) \cup {Invalid},
           small: -20 .. 19, priority: -100 .. 139, number: Nat, io: (1 .. 3) \X (0 .. 7) \cup {<<0, 0>>}, name: Nat]

-----------------------------------------------------------------------------
(* Columns *)

SizeFields == {"M_VIRT", "M_RESIDENT", "M_SHARE", "M_TRS", "M_DRS", "M_LRS", "M_PSS", "M_SWAP", "M_PSSWP",
               "RCHAR", "WCHAR", "RBYTES", "WBYTES", "CNCLWB"}
CountFields == {"MINFLT", "MAJFLT", "CMINFLT", "CMAJFLT", "SYSCR", "SYSCW"}
TimeFields == {"TIME", "UTIME", "STIME", "CUTIME", "CSTIME"}
RateFields == {"IO_READ_RATE", "IO_WRITE_RATE", "IO_RATE"}
DelayFields == {"PERCENT_CPU_DELAY", "PERCENT_IO_DELAY", "PERCENT_SWAP_DELAY"}
PercentFields == {"PERCENT_CPU", "PERCENT_NORM_CPU", "PERCENT_MEM"} \cup DelayFields
PidFields == {"PID", "PPID", "PGRP", "SESSION", "TPGID", "TGID", "VPID"}
TextWidth == [TTY |-> 8, USER |-> 10, CGROUP |-> 10, SECATTR |-> 30, PROC_COMM |-> 15, PROC_EXE |-> 15,
              CWD |-> 25, CTID |-> 8]
\* Those that are not cut, and the size of the buffer they are printed into
Uncut == [TTY |-> 256, CGROUP |-> 255, CTID |-> 255]
NumberWidth == [NICE |-> 3, NLWP |-> 4, PRIORITY |-> 3, PROCESSOR |-> 3, OOM |-> 4, CTXT |-> 5, VXID |-> 5,
                AUTOGROUP_ID |-> 4, AUTOGROUP_NICE |-> 3]
TimeOfDay == {"STARTTIME", "ELAPSED"}

FieldNames == SizeFields \cup CountFields \cup TimeFields \cup RateFields \cup PercentFields \cup PidFields
              \cup DOMAIN TextWidth \cup DOMAIN NumberWidth \cup TimeOfDay \cup {"STATE", "IO_PRIORITY", "ST_UID"}

\* The widths of the titles in Process_fields; PID columns and UID have their own
Process_fields ==
    [f \in FieldNames |->
        CASE f = "M_PSSWP" -> 7
          [] f \in SizeFields \ {"M_PSSWP"} -> 6
          [] f \in CountFields \cup RateFields -> 12
          [] f \in TimeFields \cup {"ELAPSED"} -> 9
          [] f \in PercentFields -> 5
          [] f \in DOMAIN TextWidth -> TextWidth[f] + 1
          [] f \in {"PRIORITY", "NICE", "PROCESSOR", "AUTOGROUP_ID", "AUTOGROUP_NICE"} -> 4
          [] f \in {"NLWP", "OOM"} -> 5
          [] f \in {"CTXT", "VXID", "STARTTIME"} -> 6
          [] f = "STATE" -> 2
          [] f = "IO_PRIORITY" -> 3
          [] f \in PidFields \cup {"ST_UID"} -> 0]

\* ceil(log10(n))
CeilLog10(n) == IF \E d \in 1 .. 9 : n = 10 ^ d THEN Digits(n) - 1 ELSE Digits(n)

\* The kernel's pids are below MaxPid
Process_setupColumnWidths == IF MaxPid < 10 ^ 5 THEN 5 ELSE CeilLog10(MaxPid)

Process_setUidColumnWidth(maxUid) == IF maxUid < 10 ^ 5 THEN 5 ELSE CeilLog10(maxUid)

alignedProcessFieldTitle(f, digits) ==
    CASE f \in PidFields -> Process_setupColumnWidths + 1
      [] f = "ST_UID" -> digits + 1
      [] OTHER -> Process_fields[f]

ProcessList_printHeader(fs, digits) == {<<f, alignedProcessFieldTitle(f, digits)>> : f \in fs}

-----------------------------------------------------------------------------
(* Numbers *)

\* size < c * K^f, for sizes with n < 2000000
Below(size, c, f) ==
    CASE f = size[2] -> size[1] < c
      [] f = size[2] + 1 -> size[1] < c * K
      [] f > size[2] + 1 -> TRUE
      [] f = size[2] - 1 -> size[1] * K < c
      [] f < size[2] - 1 -> size[1] = 0

\* size / K^f, where Below(size, 100000, f)
InUnits(size, f) ==
    CASE f = size[2] -> size[1]
      [] f = size[2] + 1 -> size[1] \div K
      [] f = size[2] + 2 -> size[1] \div (K * K)
      [] f > size[2] + 2 -> 0
      [] f < size[2] -> size[1] * K

\* Three digits and the unit follow the thousands; or one decimal and the unit the units
Thousands(width, n) == Padded(width, n \div 1000) + 3
Tenths(width, n) == Padded(width, n \div 10) + 2

\* Where the forms of a size end: each is for sizes below c * K^f
Ranges == <<<<1000, 0>>, <<100000, 0>>, <<1000, 1>>, <<10000, 1>>, <<100000, 1>>,
            <<1000, 2>>, <<10000, 2>>, <<100000, 2>>, <<10000, 3>>>>

Process_printBytes(size) ==
    LET form == 1 + Cardinality({i \in 1 .. 9 : ~Below(size, Ranges[i][1], Ranges[i][2])})
    IN CASE size = Invalid -> 6
         [] size # Invalid /\ form = 1 -> Padded(5, InUnits(size, 0)) + 1
         [] size # Invalid /\ form = 2 -> Thousands(2, InUnits(size, 0)) + 1
         [] size # Invalid /\ form = 3 -> Padded(4, InUnits(size, 1)) + 2
         [] size # Invalid /\ form = 4 -> Thousands(1, InUnits(size, 1)) + 2
         [] size # Invalid /\ form = 5 -> Tenths(2, InUnits(size, 1) \div 100) + 2
         [] size # Invalid /\ form = 6 -> Padded(4, InUnits(size, 2)) + 2
         [] size # Invalid /\ form = 7 -> Thousands(1, InUnits(size, 2)) + 2
         [] size # Invalid /\ form = 8 -> Tenths(2, InUnits(size, 2) \div 100) + 2
         [] size # Invalid /\ form = 9 -> Padded(4, InUnits(size, 3)) + 2
         [] size # Invalid /\ form = 10 -> Tenths(2, (10 * InUnits(size, 3)) \div K) + 2

\* A number of so many digits; 21 stands for one that could not be read
Process_printCount(digits) ==
    LET shown == CASE digits = 21 -> 11
                   [] digits \in 18 .. 20 -> digits - 9
                   [] digits \in 15 .. 17 -> digits - 6
                   [] digits \in 11 .. 14 -> digits - 3
                   [] digits < 11 -> digits
    IN LargestOf({11, shown}) + 1

\* Two numbers and their units, the first padded so that both take eight columns and a space
Pair(first, second) == <<Padded(6 - Digits(second), first) + 1, Digits(second) + 2>>

\* The texts Process_printTime appends: each must fit into its buffer of ten characters
Process_printTime(time) ==
    LET days == time[1]
        hours == (24 * days) + (time[2] \div 3600)
        years == days \div 365
    IN CASE days >= 365 -> Pair(years, days - (365 * years))
         [] days \in 100 .. 364 -> Pair(days, hours - (24 * days))
         [] days < 100 /\ hours >= 100 -> Pair(hours, (time[2] \div 60) % 60)
         [] hours \in 1 .. 99 -> <<Padded(2, hours) + 1, 6>>
         [] hours = 0 -> <<Padded(2, time[2] \div 60) + 7>>

\* A negative number of seconds is one near 2^64 / 100: more days than int can count years
AfterWrap == <<11, 5>>
xSnprintfFails(texts) == \E i \in DOMAIN texts : texts[i] >= 10

WidthOf(texts) == IF Len(texts) = 1 THEN texts[1] ELSE texts[1] + texts[2]

Process_printRate(rate) ==
    IF rate = Invalid THEN 12 ELSE LargestOf({7, Digits(rate[1]) + 3}) + 5

Process_printPercentage(percent) ==
    CASE percent = NaN -> 5
      [] percent \in 0 .. 998 -> Tenths(2, percent) + 1
      [] percent \in 999 .. 9989 -> Padded(3, percent \div 10) + 2
      [] percent > 9989 -> Padded(4, percent \div 10) + 1

\* No more than width columns of a name, padded to it, and a space
Process_printLeftAlignedField(width, length) == LargestOf({width, IF length > width THEN width ELSE length}) + 1

-----------------------------------------------------------------------------
(* Process_writeField *)

\* ELAPSED: realtimeMs / 10 - 100 * starttime_ctime, in seconds here
Elapsed(row) == realtime - row.starttime
ElapsedTexts(row) ==
    IF Elapsed(row) < 0 THEN AfterWrap ELSE Process_printTime(<<Elapsed(row) \div 86400, Elapsed(row) % 86400, 0>>)

\* IO_RATE: what there is of the two
Both(figure) ==
    CASE figure.read = Invalid -> figure.written
      [] figure.written = Invalid -> figure.read
      [] figure.read # Invalid /\ figure.written # Invalid ->
            LET e == LargestOf({figure.read[2], figure.written[2]})
            IN <<InUnits(figure.read, e) + InUnits(figure.written, e), e>>

\* Names, and "N/A", KTHREAD or "(no tty)" where there is none: cut to the width of
\* their column, but for three, which are printed with %-8s and %-10s
NameField(row, f) ==
    IF f \in DOMAIN Uncut THEN LargestOf({TextWidth[f], row.figure.name}) + 1
    ELSE Process_printLeftAlignedField(TextWidth[f], row.figure.name)

NumberOf(figure, f) ==
    CASE f = "PRIORITY" -> figure.priority
      [] f \in {"NICE", "AUTOGROUP_NICE"} -> figure.small
      [] f \in DOMAIN NumberWidth \ {"PRIORITY", "NICE", "AUTOGROUP_NICE"} -> figure.number

\* Negative ones have no more than two digits; " RT " stands for those from -100 down
NumberField(row, f) == Padded(NumberWidth[f], NumberOf(row.figure, f)) + 1

Process_writeField(row, f) ==
    CASE f \in {"M_VIRT", "M_RESIDENT"} -> Process_printBytes(Sizes[row.figure.size])
      [] f \in {"MINFLT", "MAJFLT"} -> Process_printCount(row.figure.count)
      [] f = "TIME" -> WidthOf(Process_printTime(row.figure.cpu))
      [] f = "ELAPSED" -> WidthOf(ElapsedTexts(row))
      [] f = "STARTTIME" -> 6
      [] f \in PercentFields \ DelayFields -> Process_printPercentage(row.figure.percent)
      [] f \in PidFields -> Padded(Process_setupColumnWidths, row.pid) + 1
      [] f = "ST_UID" -> Padded(uidDigits, row.uid) + 1
      [] f \in {"TTY", "USER", "PROC_COMM", "PROC_EXE", "CWD"} -> NameField(row, f)
      [] f \in {"PRIORITY", "NICE", "NLWP", "PROCESSOR"} -> NumberField(row, f)
      [] f = "STATE" -> 2

LinuxProcess_writeField(row, f) ==
    CASE f \in SizeFields \ {"M_VIRT", "M_RESIDENT"} -> Process_printBytes(Sizes[row.figure.size])
      [] f \in CountFields \ {"MINFLT", "MAJFLT"} -> Process_printCount(row.figure.count)
      [] f \in TimeFields \ {"TIME"} -> WidthOf(Process_printTime(row.figure.cpu))
      [] f = "IO_READ_RATE" -> Process_printRate(row.figure.read)
      [] f = "IO_WRITE_RATE" -> Process_printRate(row.figure.written)
      [] f = "IO_RATE" -> Process_printRate(Both(row.figure))
      [] f \in DelayFields -> Process_printPercentage(row.figure.delay)
      [] f \in {"CTID", "CGROUP", "SECATTR"} -> NameField(row, f)
      [] f \in {"OOM", "CTXT", "VXID", "AUTOGROUP_ID", "AUTOGROUP_NICE"} -> NumberField(row, f)
      [] f = "IO_PRIORITY" -> 3
      [] OTHER -> Process_writeField(row, f)

\* What is printed in full, however long it is, and is longer than its column
Overlong(row, f) ==
    \/ f \in DOMAIN Uncut /\ row.figure.name > TextWidth[f]
    \/ f \in DOMAIN NumberWidth /\ Digits(NumberOf(row.figure, f)) > NumberWidth[f]

\* Process_display, for all rows
Drawn == {<<f, LinuxProcess_writeField(row, f), ~Overlong(row, f)>> : f \in fields, row \in listedRows}

FieldFails(row, f) ==
    \/ f = "ELAPSED" /\ xSnprintfFails(ElapsedTexts(row))
    \/ f \in DOMAIN Uncut /\ NameField(row, f) >= Uncut[f]

-----------------------------------------------------------------------------
(* Sorting: Process_compare *)

\* -1, 0 or 1, and 0 whenever a missing number is compared
Spaceship(a, b) == IF a > b THEN 1 ELSE IF a < b THEN -1 ELSE 0
SpaceshipOfDoubles(a, b) == IF NaN \in {a, b} THEN 0 ELSE Spaceship(a, b)
FirstOf(a, b) == IF a # 0 THEN a ELSE b

\* A rate in B/s
Rate(r) == IF r = Invalid THEN 0 ELSE r[1] * K ^ r[2]

\* A missing rate is less than every other
adjustNaN(a, b) ==
    IF a = Invalid THEN IF b = Invalid THEN 0 ELSE -1
    ELSE IF b = Invalid THEN 1 ELSE Spaceship(Rate(a), Rate(b))

\* Each missing one of the two rates counts -0.0005
CompareSums(a, b) ==
    FirstOf(Spaceship(Rate(a.read) + Rate(a.written), Rate(b.read) + Rate(b.written)),
            Spaceship(Cardinality({c \in {"read", "written"} : b[c] = Invalid}),
                      Cardinality({c \in {"read", "written"} : a[c] = Invalid})))

LinuxProcess_effectiveIOPriority(figure) ==
    IF figure.io[1] = 0 THEN <<2, (figure.small + 20) \div 5>> ELSE figure.io

LinuxProcess_compareByKey(p, q, key) ==
    LET a == p.figure
        b == q.figure
        pa == LinuxProcess_effectiveIOPriority(a)
        pb == LinuxProcess_effectiveIOPriority(b)
    IN CASE key \in SizeFields -> Spaceship(a.size, b.size)
         [] key \in CountFields -> Spaceship(a.count, b.count)
         [] key = "IO_READ_RATE" -> adjustNaN(a.read, b.read)
         [] key = "IO_WRITE_RATE" -> adjustNaN(a.written, b.written)
         [] key = "IO_RATE" -> CompareSums(a, b)
         [] key \in DelayFields -> SpaceshipOfDoubles(a.delay, b.delay)
         [] key = "IO_PRIORITY" -> FirstOf(Spaceship(pa[1], pb[1]), Spaceship(pa[2], pb[2]))
         [] key \in DOMAIN NumberWidth -> Spaceship(NumberOf(a, key), NumberOf(b, key))

\* Names: no name comes first, and no terminal last
CompareNames(a, b, key) == IF key = "TTY" /\ 0 \in {a, b} THEN Spaceship(b, a) ELSE Spaceship(a, b)

Process_compareByKey_Base(p, q, key) ==
    LET a == p.figure
        b == q.figure
    IN CASE key \in {"PERCENT_CPU", "PERCENT_NORM_CPU"} -> Spaceship(a.percent, b.percent)
         [] key = "PERCENT_MEM" -> Spaceship(a.size, b.size)
         [] key \in TimeFields -> FirstOf(Spaceship(a.cpu[1], b.cpu[1]),
                                          FirstOf(Spaceship(a.cpu[2], b.cpu[2]), Spaceship(a.cpu[3], b.cpu[3])))
         [] key = "ELAPSED" -> FirstOf(-Spaceship(p.starttime, q.starttime), Spaceship(p.pid, q.pid))
         [] key = "STARTTIME" -> FirstOf(Spaceship(p.starttime, q.starttime), Spaceship(p.pid, q.pid))
         [] key \in DOMAIN TextWidth \cup {"STATE"} -> CompareNames(a.name, b.name, key)
         [] key = "ST_UID" -> Spaceship(p.uid, q.uid)
         [] key \in PidFields -> Spaceship(p.pid, q.pid)

OfLinux == SizeFields \cup CountFields \cup RateFields \cup DelayFields \cup {"IO_PRIORITY"} \cup DOMAIN NumberWidth
Process_compare(p, q, key, direction) ==
    LET result == IF key \in OfLinux THEN LinuxProcess_compareByKey(p, q, key)
                  ELSE Process_compareByKey_Base(p, q, key)
    IN IF result = 0 THEN Spaceship(p.pid, q.pid) ELSE direction * result

-----------------------------------------------------------------------------
(* The machine, and htop *)

FieldsInit ==
    /\ uptime = 0 /\ offset = 0 /\ fieldSteps = 0
    /\ alive \in [RowPids -> [start: {0}, uid: UNION {UidsOf[pid] : pid \in RowPids}]]
    /\ \A pid \in RowPids : alive[pid].uid \in UidsOf[pid]
    /\ btime = offset
    /\ realtime = 0
    /\ uidDigits = 5
    /\ fields \in ColumnSets
    /\ listedRows = {}
    /\ window = "main" /\ forceRedraw = TRUE
    /\ titlesDrawn = {} /\ rowsDrawn = {}
    /\ fieldStage = "check"
    /\ died = FALSE

World == <<uptime, offset, alive, fieldSteps>>
Htop == <<btime, realtime, uidDigits, fields, listedRows, window, forceRedraw, titlesDrawn, rowsDrawn, fieldStage, died>>

FieldStep == fieldStage = "check" /\ fieldSteps < MaxFieldSteps /\ fieldSteps' = fieldSteps + 1

SecondPasses == FieldStep /\ uptime' = uptime + 1 /\ UNCHANGED <<offset, alive, Htop>>

\* Bound: once
SetClock == \E d \in ClockSteps : FieldStep /\ offset = 0 /\ offset' = d /\ UNCHANGED <<uptime, alive, Htop>>

StartProcess ==
    \E pid \in RowPids : \E uid \in UidsOf[pid] :
        /\ FieldStep
        /\ alive[pid] = Gone
        /\ alive' = [alive EXCEPT ![pid] = [start |-> uptime, uid |-> uid]]
        /\ UNCHANGED <<uptime, offset, Htop>>

EndProcess ==
    \E pid \in RowPids :
        /\ FieldStep
        /\ alive[pid] # Gone
        /\ alive' = [alive EXCEPT ![pid] = Gone]
        /\ UNCHANGED <<uptime, offset, Htop>>

RowOf(pid) == {row \in listedRows : row.pid = pid}

\* What is read of a process: who has worked since the last scan, and the others have what they had
FigureRead(pid, who, figure) ==
    IF pid = who THEN figure
    ELSE IF RowOf(pid) # {} THEN (CHOOSE row \in RowOf(pid) : TRUE).figure
    ELSE CHOOSE f \in FiguresOf[pid] : TRUE

\* A row keeps the time at which its process was first seen to have started, and its number may be used again
StarttimeOf(pid) ==
    IF RowOf(pid) = {} THEN btime + alive[pid].start ELSE (CHOOSE row \in RowOf(pid) : TRUE).starttime

ScannedRows(who, figure) ==
    {[pid |-> pid, uid |-> alive[pid].uid, starttime |-> StarttimeOf(pid),
      figure |-> FigureRead(pid, who, figure)] : pid \in {q \in RowPids : alive[q] # Gone}}

\* The largest uid: rows count that this scan removes
MaxUidOf(scanned) ==
    LargestOf({0} \cup {row.uid : row \in scanned \cup {r \in listedRows : alive[r.pid] = Gone}})

\* The version that leaves the titles as they are
WidthChanged_Never(scanned) == FALSE
WidthChanged(scanned) == Process_setUidColumnWidth(MaxUidOf(scanned)) # uidDigits

\* A scan; its results are for the list even while another window covers it
Rescan ==
    \E who \in RowPids : \E figure \in FiguresOf[who] :
        LET scanned == ScannedRows(who, figure)
        IN /\ listedRows' = scanned
           /\ uidDigits' = Process_setUidColumnWidth(MaxUidOf(scanned))
           /\ forceRedraw' = (forceRedraw \/ WidthChanged(scanned))

NoRescan == UNCHANGED <<listedRows, uidDigits, forceRedraw>>

\* checkRecalculation
Recalculate ==
    /\ fieldStage = "check" /\ ~died
    /\ realtime' = uptime + offset
    /\ Rescan \/ NoRescan
    /\ fieldStage' = "draw"
    /\ UNCHANGED <<World, btime, fields, window, titlesDrawn, rowsDrawn, died>>

\* ScreenManager_drawPanels: the rows every time, the titles when it is forced to
DrawPanels ==
    /\ fieldStage = "draw"
    /\ IF window = "main"
       THEN /\ rowsDrawn' = Drawn
            /\ titlesDrawn' = IF forceRedraw THEN ProcessList_printHeader(fields, uidDigits) ELSE titlesDrawn
            /\ died' = (\E f \in fields, row \in listedRows : FieldFails(row, f))
       ELSE UNCHANGED <<rowsDrawn, titlesDrawn, died>>
    /\ forceRedraw' = FALSE
    /\ fieldStage' = "check"
    /\ UNCHANGED <<World, btime, realtime, uidDigits, fields, listedRows, window>>

\* actionSetup: its window has a loop of its own, and ends with HTOP_UPDATE_PANELHDR
Setup(from, to, fs) ==
    /\ FieldStep /\ ~died
    /\ window = from /\ window' = to
    /\ fields' = fs
    /\ forceRedraw' = TRUE
    /\ UNCHANGED <<uptime, offset, alive, btime, realtime, uidDigits, listedRows, titlesDrawn, rowsDrawn, fieldStage, died>>

OpenSetup == Setup("main", "setup", fields)
ChooseColumns == \E fs \in ColumnSets : fs # fields /\ Setup("setup", "setup", fs)
CloseSetup == Setup("setup", "main", fields)

FieldsNext ==
    \/ SecondPasses \/ SetClock \/ StartProcess \/ EndProcess
    \/ Recalculate \/ DrawPanels
    \/ OpenSetup \/ ChooseColumns \/ CloseSetup

FieldsSpec == FieldsInit /\ [][FieldsNext]_fieldVars

-----------------------------------------------------------------------------
(* Properties *)

\* Two columns are not as wide as their titles, whatever is in them
Uneven == [M_PSSWP |-> -1, AUTOGROUP_ID |-> 1]
ExactPower(n) == \E d \in 5 .. 9 : n = 10 ^ d

(****************************************************************************)
(* The fields of all rows on the terminal are exactly as wide as the titles *)
(* above them, whatever their values are and whoever has come or gone since *)
(* the titles were printed: except PSSWP and AGRP, whose titles have the    *)
(* wrong width, and UID when the largest uid is a power of ten.  A terminal,*)
(* a cgroup or a container whose name is longer than its column is printed  *)
(* in full, and so are numbers of more digits than theirs: they shift the   *)
(* rest of their line to the right, and nothing else does.                  *)
(* (Process.c:71-267, 945, LinuxProcess.c:243, 249, ProcessList.c:100,      *)
(* ScreenManager.c:116)                                                     *)
(****************************************************************************)
RowsLineUp ==
    window = "main" /\ ~forceRedraw /\ fieldStage = "check" /\ ~died =>
        \A drawn \in rowsDrawn : \E title \in titlesDrawn :
            LET expected == title[2] + (IF drawn[1] \in DOMAIN Uneven THEN Uneven[drawn[1]] ELSE 0)
            IN /\ drawn[1] = title[1]
               /\ \/ IF drawn[3] THEN drawn[2] = expected ELSE drawn[2] > expected
                  \/ drawn[1] = "ST_UID" /\ ExactPower(LargestOf({row.uid : row \in listedRows}))

(****************************************************************************)
(* Whatever column and direction the list is sorted by after a scan, the    *)
(* comparison puts the rows in one order, missing numbers included: of two  *)
(* rows one is first, and never three in a circle.  The delay columns are   *)
(* left out: their missing numbers compare equal to all others.             *)
(* (Process_compare, Process.c:1090; adjustNaN, LinuxProcess.c:307)         *)
(****************************************************************************)
RowsOrdered ==
    fieldStage = "draw" => \A key \in fields \ DelayFields, direction \in {-1, 1} :
        LET Before(p, q) == Process_compare(p, q, key, direction) < 0
        IN \A p, q \in listedRows : p.pid < q.pid =>
              /\ Before(p, q) <=> ~Before(q, p)
              /\ Before(p, q) => \A r \in listedRows \ {p, q} : ~(Before(q, r) /\ Before(r, p))

(****************************************************************************)
(* Rows are printed under their titles and sorted by what they show         *)
(* (Process.c:71-267, 687-1180, ProcessList.c:100-153).                     *)
(****************************************************************************)
RowsSound == RowsLineUp /\ RowsOrdered

(****************************************************************************)
(* "Time since the process was started" (LinuxProcess.c:51) is shown.  When *)
(* the clock has been set back, realtimeMs / 10 - 100 * starttime_ctime     *)
(* wraps, and the text does not fit into the buffer: htop ends, and so it   *)
(* does when a cgroup does not fit into its own.                            *)
(* (Process.c:871, 194, LinuxProcess.c:249, XUtils.c:241)                   *)
(****************************************************************************)
ElapsedShown == ~died
=============================================================================
