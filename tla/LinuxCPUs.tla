------------------------------ MODULE LinuxCPUs ------------------------------
(****************************************************************************)
(* How htop follows the CPUs of a Linux machine (linux/LinuxProcessList.c): *)
(* the directories and "online" files of sysfs, the counters of /proc/stat  *)
(* and the frequencies, read one after the other while CPUs are added,      *)
(* taken offline and brought back.  cpuData[0] is the sum of all CPUs and   *)
(* cpuData[c + 1] the CPU c, as in the source.                              *)
(****************************************************************************)
EXTENDS Integers, Sequences, FiniteSets, Community

CONSTANTS
    NCPU,         \* CPUs have the numbers 0 .. NCPU - 1
    MaxTime,      \* bound: the counters of a CPU end here
    MaxChanges,   \* bound: CPUs added, removed, switched on or off
    FreqTimeout   \* scans without sysfs after a slow read (30 in the source)

ASSUME LinuxCPUsAssumption ==
    /\ NCPU \in Nat \ {0} /\ MaxTime \in Nat /\ MaxChanges \in Nat
    /\ FreqTimeout \in Nat \ {0}

VARIABLES
    present,      \* CPUs with a directory in sysfs
    up,           \* those that are online
    time,         \* /proc/stat: the time a CPU has counted
    changes,      \* how often present or up has changed
    cpuData, existingCPUs, activeCPUs,
    timeout,      \* of scanCPUFreqencyFromSysCPUFreq
    phase,        \* what the scan does next
    aborted,      \* an assertion has failed
    averaged,     \* the CPUs in totalFrequency and numCPUsWithFrequency of this scan
    before, cpuSeen, \* history: what the last reading of /proc/stat showed
    cpuQuiet         \* history: no CPU changed since the scan began
worldVars == <<present, up, time, changes>>
scanVars == <<cpuData, existingCPUs, activeCPUs>>
linuxVars == <<worldVars, scanVars, timeout, phase, aborted, averaged, before, cpuSeen, cpuQuiet>>

CPU == 0 .. NCPU - 1
Source == {"none", "sysfs", "cpuinfo"}
ZeroData == [online |-> FALSE, time |-> 0, period |-> 0, frequency |-> "none"]
Data(i) == cpuData[i + 1]                 \* cpuData[i] of the source
Known == 0 .. existingCPUs - 1

\* Macros.h
saturatingSub(a, b) == IF a > b THEN a - b ELSE 0

LinuxInit ==
    /\ up \in SUBSET CPU /\ 0 \in up
    /\ present = 0 .. FX!Max(up) \/ present = CPU
    /\ time = [c \in CPU |-> 0] /\ changes = 0
    /\ cpuData = <<>> /\ existingCPUs = 0 /\ activeCPUs = 0 /\ timeout = 0
    /\ phase = "new" /\ aborted = FALSE /\ averaged = {}
    /\ before = [c \in CPU |-> 0] /\ cpuSeen = {} /\ cpuQuiet = TRUE

(****************************************************************************)
(* The machine.                                                             *)
(****************************************************************************)
Between == phase \in {"new", "count"}
Change(newPresent, newUp) ==
    /\ ~aborted /\ changes < MaxChanges /\ changes' = changes + 1
    /\ present' = newPresent /\ up' = newUp /\ cpuQuiet' = Between
    /\ UNCHANGED <<time, scanVars, timeout, phase, aborted, averaged, before, cpuSeen>>

Online(c) == c \in present \ up /\ Change(present, up \cup {c})
Offline(c) == c \in up \ {0} /\ Change(present, up \ {c})
\* CPUs of a virtual machine are added in order.
Plug(c) == c \notin present /\ 0 .. c - 1 \subseteq present /\ Change(present \cup {c}, up)
Unplug(c) == c \in present \ up /\ Change(present \ {c}, up)

\* Guest time is part of user time but rounded on its own, so that their
\* difference can go back by one.
Run(cs) ==
    /\ cs \subseteq up /\ cs # {} /\ Between /\ ~aborted /\ (\A c \in cs : time[c] < MaxTime)
    /\ \/ time' = [c \in CPU |-> time[c] + IF c \in cs THEN 1 ELSE 0]
       \/ \E c \in cs : time[c] > 0 /\ time' = [time EXCEPT ![c] = @ - 1]
    /\ UNCHANGED <<present, up, changes, scanVars, timeout, phase, aborted, averaged, before, cpuSeen, cpuQuiet>>

(****************************************************************************)
(* The scan.                                                                *)
(****************************************************************************)
\* The order of the directories has no influence on the result: the array
\* grows to the largest number or the count, and grows with zeroes.
CurrExisting == FX!Max({existingCPUs, Cardinality(present)} \cup {c + 1 : c \in present})
Grown == [i \in 1 .. CurrExisting + 1 |-> IF i <= Len(cpuData) THEN cpuData[i] ELSE ZeroData]

\* Once in ProcessList_new, and then at the start of each scan.
Counting == IF phase = "new" THEN "count" ELSE "stat"

LinuxProcessList_updateCPUcount ==
    /\ Between /\ ~aborted
    /\ cpuData' = [i \in 1 .. CurrExisting + 1 |->
          CASE i = 1 -> [Grown[i] EXCEPT !.online = TRUE]
            [] i - 2 \in present -> [Grown[i] EXCEPT !.online = i - 2 \in up]
            [] OTHER -> Grown[i]]
    /\ activeCPUs' = Cardinality(up)
    /\ aborted' = (Cardinality(present) # CurrExisting)
    /\ existingCPUs' = CurrExisting
    /\ phase' = (IF aborted' THEN phase ELSE Counting)
    /\ UNCHANGED <<worldVars, timeout, averaged, before, cpuSeen, cpuQuiet>>

\* The sysfs directory cannot be opened: one CPU is all that is known.
UpdateCPUcount_NoSysfs ==
    /\ Between /\ ~aborted
    /\ cpuData' = [i \in 1 .. 2 |->
          [(IF i <= Len(cpuData) THEN cpuData[i] ELSE ZeroData) EXCEPT !.online = TRUE]]
    /\ activeCPUs' = 1 /\ existingCPUs' = 1
    /\ phase' = Counting /\ cpuQuiet' = (phase = "new")
    /\ UNCHANGED <<worldVars, timeout, aborted, averaged, before, cpuSeen>>

CPUCounted(d, now) == [d EXCEPT !.period = saturatingSub(now, d.time), !.time = now]

\* The CPUs whose lines are read before the loop ends: it ends after as many
\* lines as CPUs exist, and at the first number that is too large.
ReadCPUs == {c \in up : c < existingCPUs}
\* Those left out before the last one read.
Skipped == {c \in Known \ ReadCPUs : \E d \in ReadCPUs : c < d}
TotalTime(f) == FX!FoldSet(LAMBDA c, sum : sum + f[c], 0, CPU)

NewData(i) ==
    CASE i = 1 -> CPUCounted(cpuData[1], TotalTime(time))
      [] i - 2 \in ReadCPUs -> CPUCounted(cpuData[i], time[i - 2])
      [] i - 2 \in Skipped -> ZeroData
      [] OTHER -> cpuData[i]

LinuxProcessList_scanCPUTime ==
    /\ phase = "stat" /\ ~aborted
    /\ cpuData' = [i \in 1 .. existingCPUs + 1 |-> NewData(i)]
    /\ before' = [c \in CPU |-> IF c \in ReadCPUs THEN time[c] ELSE 0] /\ cpuSeen' = ReadCPUs
    /\ phase' \in {"frequency", "shown"}
    /\ UNCHANGED <<worldVars, existingCPUs, activeCPUs, timeout, aborted, averaged, cpuQuiet>>

\* Mutant: frequencies of the last scan remain.
WithFrequency_Stale(read, listed, average) ==
    [i \in 1 .. existingCPUs + 1 |-> [cpuData[i] EXCEPT !.frequency =
        CASE i - 2 \in read -> "sysfs" [] i - 2 \in listed \ read -> "cpuinfo"
          [] i = 1 -> average [] OTHER -> @]]

\* All are unknown when the reading begins; /proc/cpuinfo does not override.
WithFrequency(read, listed, average) ==
    [i \in 1 .. existingCPUs + 1 |-> [cpuData[i] EXCEPT !.frequency =
        CASE i - 2 \in read -> "sysfs" [] i - 2 \in listed \ read -> "cpuinfo"
          [] i = 1 -> average [] OTHER -> "none"]]

\* The CPUs whose files are opened, one after the other.
Asked == {c \in Known : Data(c + 1).online}

\* Every one has a file, and the first is read fast.  A file may be open and
\* yet have no number in it: that CPU has no frequency, and the others do.
FrequencyFromSysfs ==
    /\ phase = "frequency" /\ ~aborted /\ timeout = 0
    /\ Asked \subseteq up
    /\ \E read \in SUBSET Asked :
          /\ cpuData' = WithFrequency(read, {}, IF read = {} THEN "none" ELSE "sysfs")
          /\ averaged' = read
    /\ phase' = "shown"
    /\ UNCHANGED <<worldVars, existingCPUs, activeCPUs, timeout, aborted, before, cpuSeen, cpuQuiet>>

\* sysfs is left out for some scans, is too slow at the first CPU, or lacks the
\* file of one: those read before keep their frequency.  /proc/cpuinfo has lines
\* of the CPUs online, or of some, or does not say how fast any of them is.
FrequencyFromCPUinfo ==
    /\ phase = "frequency" /\ ~aborted
    /\ \E read \in SUBSET (Asked \cap up), listed \in SUBSET (Known \cap up) :
         /\ \/ timeout > 0 /\ timeout' = timeout - 1 /\ read = {}
            \/ timeout = 0 /\ timeout' = FreqTimeout /\ 0 \in Asked \cap up /\ read \subseteq {0}
            \/ /\ timeout = 0 /\ UNCHANGED timeout
               /\ \E n \in Asked : {c \in Asked : c < n} \subseteq up /\ \A c \in read : c < n
         /\ cpuData' = WithFrequency(read, listed, IF listed = {} THEN "none" ELSE "cpuinfo")
         /\ averaged' = listed
    /\ phase' = "shown"
    /\ UNCHANGED <<worldVars, existingCPUs, activeCPUs, aborted, before, cpuSeen, cpuQuiet>>

Delay ==
    /\ phase = "shown" /\ phase' = "count" /\ cpuQuiet' = TRUE /\ averaged' = {}
    /\ UNCHANGED <<worldVars, scanVars, timeout, aborted, before, cpuSeen>>

\* The assertion that no directory disappears ends the program.
Aborted == aborted /\ UNCHANGED linuxVars

LinuxNext ==
    \/ \E c \in CPU : Online(c) \/ Offline(c) \/ Plug(c) \/ Unplug(c)
    \/ \E cs \in SUBSET CPU : Run(cs)
    \/ LinuxProcessList_updateCPUcount \/ UpdateCPUcount_NoSysfs
    \/ LinuxProcessList_scanCPUTime \/ FrequencyFromSysfs \/ FrequencyFromCPUinfo
    \/ Delay \/ Aborted

LinuxSpec == LinuxInit /\ [][LinuxNext]_linuxVars

(****************************************************************************)
(* Properties.                                                              *)
(****************************************************************************)
\* The data are as many as the CPUs, and the sum of all is always "online"
\* (the comment in LinuxProcessList_updateCPUcount).
LinuxTypeOK ==
    /\ up \subseteq present /\ present \subseteq CPU /\ 0 \in up
    /\ existingCPUs \in 0 .. NCPU /\ activeCPUs \in 0 .. NCPU /\ timeout \in 0 .. FreqTimeout
    /\ phase \in {"new", "count", "stat", "frequency", "shown"}
    /\ ~Between => Len(cpuData) = existingCPUs + 1 /\ Data(0).online
    /\ \A i \in DOMAIN cpuData : /\ cpuData[i].period \in Nat /\ cpuData[i].time \in Nat
                                 /\ cpuData[i].frequency \in Source

\* What a scan shows of CPUs that no one touched while it ran is the machine:
\* the right ones are offline, and as many are active as the period of the
\* processes is divided by (LinuxProcessList_scanCPUTime).
OnlineAgrees ==
    /\ LinuxTypeOK
    /\ phase = "shown" /\ cpuQuiet =>
        /\ {c \in Known : Data(c + 1).online} = up
        /\ activeCPUs = Cardinality(up)

\* The time shown for a CPU that has been online in this scan and in the one
\* before is what it counted in between, whichever others went and came.
TimesFresh ==
    [][LinuxProcessList_scanCPUTime =>
          \A c \in ReadCPUs \cap cpuSeen :
              cpuData'[c + 2].period = FX!Max({0, time[c] - before[c]})]_linuxVars

\* The frequency shown of a CPU is one read in this scan, so CPUs that were
\* offline show none.  There is an average if one CPU counts in it, and every
\* CPU that does shows a frequency; where sysfs was left in the middle, a CPU
\* may show one that does not count, but none that came from the same file.
FrequenciesFresh ==
    [][phase = "frequency" /\ phase' = "shown" =>
          LET showing(from) == {c \in Known : cpuData'[c + 2].frequency \in from}
              average == cpuData'[1].frequency
          IN /\ cpuQuiet => showing({"sysfs", "cpuinfo"}) \subseteq up
             /\ average # "none" <=> averaged' # {}
             /\ averaged' \subseteq showing({"sysfs", "cpuinfo"}) /\ showing({average} \ {"none"}) \subseteq averaged'
             /\ average = "sysfs" => showing({"cpuinfo"}) = {}]_linuxVars

ReadingsFresh == TimesFresh /\ FrequenciesFresh

\* assert(existing == currExisting) in LinuxProcessList_updateCPUcount: it fails
\* once a directory has disappeared, so no run checks it.
NoAssertionFails == ~aborted

(****************************************************************************)
(* What is shown of the CPUs is theirs: which are online, what each did     *)
(* since the last scan, and at which frequency, whichever of them came and  *)
(* went (LinuxProcessList.c:164-241, 1864-2090).                            *)
(****************************************************************************)
CPUsTrue == []OnlineAgrees /\ ReadingsFresh
==============================================================================
