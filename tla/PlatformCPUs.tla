---------------------------- MODULE PlatformCPUs ----------------------------
(****************************************************************************)
(* The CPU meters of the systems other than Linux (see LinuxCPUs for that): *)
(* how each counts its CPUs, reads their clicks, and makes of the clicks    *)
(* since the last scan the parts of a bar.  CPUs have the numbers from 1;   *)
(* number 0 is the average, as in the meters.  A scan first counts the      *)
(* CPUs and then reads their clicks; CPUs are switched on and off at any    *)
(* time in between.                                                         *)
(****************************************************************************)
EXTENDS Integers, FiniteSets, Community

CONSTANTS
    CPUSystems,    \* the systems looked at
    MaxCPUs,       \* the largest number of CPUs
    MaxClicks      \* bound: clicks, and CPUs switched on or off

AllCPUSystems == {"freebsd", "dragonfly", "openbsd", "netbsd", "darwin", "solaris", "pcp"}
ASSUME PlatformCPUsAssumption ==
    CPUSystems \subseteq AllCPUSystems /\ MaxCPUs \in Nat \ {0} /\ MaxClicks \in Nat

VARIABLES
    system,
    existing,    \* existingCPUs: how many CPUs there are
    on,          \* those that are switched on
    clicks,      \* what each has counted of each kind
    spent,       \* clicks and switches so far
    data,        \* CPUData: cpus, cpuData, curr_load and prev_load, percpu
    frequency,   \* where the frequency of each was found
    active,      \* activeCPUs
    kd,          \* Solaris: the CPUs of the kstat chain
    ended,       \* an assertion has failed
    cpuStage,    \* "count", "time" or "shown"
    earlier,     \* history: the clicks at the scan before
    quiet,       \* history: scans since a CPU was switched on or off, at most 3
    swapped      \* history: since they were last counted, CPUs were switched on and as many off
machineVars == <<system, existing, on, clicks, spent>>
cpuVars == <<machineVars, data, frequency, active, kd, ended, cpuStage, earlier, quiet, swapped>>

CPUs == 1 .. existing
Kinds == {"user", "system", "idle"}
Ratio == {"solaris", "darwin"}       \* systems whose average is one of percentages
Nothing == [k \in Kinds |-> 0]
Total(t) == t["user"] + t["system"] + t["idle"]
Since(now, then) == [k \in Kinds |-> now[k] - then[k]]
Sum(f, S) == [k \in Kinds |-> FX!FoldSet(LAMBDA c, sum : sum + f[c][k], 0, S)]

\* CPUData: parts of total are shown, time and totalTime are the last reading.
\* Not all systems have all of it.
CPUData(online, time, totalTime, total) ==
    [online |-> online, parts |-> Nothing, total |-> total, time |-> time, totalTime |-> totalTime]

(****************************************************************************)
(* ProcessList_new.                                                         *)
(****************************************************************************)
FreeBSD_new == [i \in 0 .. existing |-> CPUData(TRUE, Nothing, 0, 0)]
DragonFly_new == [i \in 0 .. existing |-> CPUData(TRUE, Nothing, 0, 0)]
\* Counting for the first time resets everything.
OpenBSD_new == [i \in 0 .. existing |-> CPUData(i = 0 \/ i \in on, Nothing, 1, 1)]
NetBSD_new == [i \in 0 .. existing |-> CPUData(TRUE, Nothing, 1, 1)]
Solaris_new == [i \in 0 .. existing |-> CPUData(i = 0, Nothing, 0, 0)]
PCP_new == [i \in 0 .. existing |-> CPUData(TRUE, Nothing, 0, 0)]
Darwin_new == [i \in 0 .. existing |-> CPUData(TRUE, Nothing, 0, 0)]

InitialData ==
    CASE system = "freebsd" -> FreeBSD_new
      [] system = "dragonfly" -> DragonFly_new
      [] system = "openbsd" -> OpenBSD_new
      [] system = "netbsd" -> NetBSD_new
      [] system = "solaris" -> Solaris_new
      [] system = "pcp" -> PCP_new
      [] system = "darwin" -> Darwin_new

CPUInit ==
    /\ system \in CPUSystems /\ existing \in 1 .. MaxCPUs
    /\ on \in (SUBSET CPUs) \ {{}} /\ (system \in {"freebsd", "dragonfly", "darwin"} => on = CPUs)
    /\ clicks = [c \in CPUs |-> Nothing] /\ spent = 0
    /\ data = InitialData /\ frequency = [i \in 0 .. existing |-> "none"] /\ active = Cardinality(on) /\ kd = on
    /\ ended = FALSE /\ cpuStage = "shown"
    /\ earlier = clicks /\ quiet = 0 /\ swapped = FALSE

(****************************************************************************)
(* The machine.                                                             *)
(****************************************************************************)
Click(c, k) ==
    /\ ~ended /\ spent < MaxClicks /\ c \in on
    /\ clicks' = [clicks EXCEPT ![c][k] = @ + 1] /\ spent' = spent + 1
    /\ UNCHANGED <<system, existing, on, data, frequency, active, kd, ended, cpuStage, earlier, quiet, swapped>>

\* The first three do not support it ("TODO: support offline CPUs and hot swapping").
Switch(c) ==
    /\ ~ended /\ spent < MaxClicks /\ system \notin {"freebsd", "dragonfly", "darwin"}
    /\ on' = (IF c \in on THEN on \ {c} ELSE on \cup {c}) /\ on' # {} /\ spent' = spent + 1
    /\ quiet' = 0
    /\ UNCHANGED <<system, existing, clicks, data, frequency, active, kd, ended, cpuStage, earlier, swapped>>

(****************************************************************************)
(* Counting the CPUs.                                                       *)
(****************************************************************************)
OnlineByData == {c \in CPUs : data[c].online}

\* Everything begins anew when a number has changed, the flags of the CPUs, too.
OpenBSD_reset == [i \in 0 .. existing |-> CPUData(i = 0 \/ i \in on, Nothing, 1, 1)]

OpenBSD_updateCPUcount ==
    /\ system = "openbsd" /\ active' = Cardinality(on)
    /\ data' = (IF active' # active THEN OpenBSD_reset ELSE data)
    /\ swapped' = (IF active' # active THEN FALSE ELSE OnlineByData # on) /\ UNCHANGED kd

\* The chain of counters is opened anew when a number has changed.
Solaris_updateCPUcount ==
    /\ system = "solaris" /\ active' = Cardinality(on)
    /\ kd' = (IF active' # active THEN on ELSE kd)
    /\ swapped' = (IF active' # active THEN FALSE ELSE kd # on) /\ UNCHANGED data

\* PCP sends one value for each CPU that is on.
PCP_updateCPUcount ==
    /\ system = "pcp" /\ active' = Cardinality(on) /\ UNCHANGED <<data, kd, swapped>>

\* NetBSD counts in ProcessList_new only, as the first three.
CountedOnce ==
    /\ system \in {"freebsd", "dragonfly", "netbsd", "darwin"} /\ UNCHANGED <<data, active, kd, swapped>>

CountCPUs ==
    /\ cpuStage = "count" /\ ~ended /\ cpuStage' = "time"
    /\ OpenBSD_updateCPUcount \/ Solaris_updateCPUcount \/ PCP_updateCPUcount \/ CountedOnce
    /\ UNCHANGED <<machineVars, frequency, ended, earlier, quiet>>

(****************************************************************************)
(* Reading the clicks.                                                      *)
(****************************************************************************)
\* The total is at least one, as it divides.
FreeBSD_counted(d, now) ==
    [d EXCEPT !.parts = Since(now, d.time), !.total = FX!Max({1, Total(now) - Total(d.time)}),
              !.time = now]

\* A single CPU has everything at 0, and no average; the meters look there.
FreeBSD_scanCPU ==
    [i \in 0 .. existing |->
        IF i = 0 \/ existing = 1 THEN FreeBSD_counted(data[i], Sum(clicks, CPUs))
                                 ELSE FreeBSD_counted(data[i], clicks[i])]

DragonFly_scanCPUTime ==
    LET Counted(d, now) ==
            [d EXCEPT !.parts = Since(now, d.time), !.time = now,
                      !.total = FX!Max({1, Total(now) - Total(d.time)})]
    IN  [i \in 0 .. existing |-> Counted(data[i], IF i = 0 THEN Sum(clicks, CPUs) ELSE clicks[i])]

SaturatingSub(a, b) == IF a > b THEN a - b ELSE 0
kernelCPUTimesToHtop(times, cpu) ==
    [cpu EXCEPT !.parts = [k \in Kinds |-> SaturatingSub(times[k], cpu.time[k])],
                !.total = SaturatingSub(Total(times), cpu.totalTime),
                !.time = times, !.totalTime = Total(times)]

\* Mutant: the sum is divided by the CPUs there are.
Averaged_Existing(times) == [k \in Kinds |-> times[k] \div existing]

\* The average is one of whole clicks.
Averaged(times) == [k \in Kinds |-> times[k] \div active]

OpenBSD_scanCPUTime ==
    [i \in 0 .. existing |->
        CASE i = 0 -> kernelCPUTimesToHtop(Averaged(Sum(clicks, OnlineByData)), data[0])
          [] i \in OnlineByData -> kernelCPUTimesToHtop(clicks[i], data[i])
          [] OTHER -> data[i]]

NetBSD_scanCPUTime ==
    [i \in 0 .. existing |->
        kernelCPUTimesToHtop(IF i = 0 THEN Averaged(Sum(clicks, CPUs)) ELSE clicks[i], data[i])]

\* The load before is the one of the last scan.
Darwin_load ==
    [i \in 0 .. existing |->
        LET now == IF i = 0 THEN Nothing ELSE clicks[i]
        IN  [data[i] EXCEPT !.parts = Since(now, data[i].time),
                            !.total = Total(now) - Total(data[i].time), !.time = now]]

\* If a CPU of the chain cannot be read, the pointers are those of the CPU before.
Solaris_readable(c) == {b \in kd \cap on : b <= c}
Solaris_read(c) == clicks[FX!Max(Solaris_readable(c))]
\* Differences are unsigned.
Wrapped(x) == x % 65536

Solaris_scanCPUTime ==
    [i \in 0 .. existing |->
        CASE i = 0 -> data[0]
          [] i # 0 /\ i \notin kd -> [data[i] EXCEPT !.online = FALSE]
          [] OTHER ->
               LET now == Solaris_read(i)
                   past == [k \in Kinds |-> Wrapped(now[k] - data[i].time[k])]
               IN  [data[i] EXCEPT !.online = TRUE, !.parts = past,
                                   !.total = Wrapped(Total(past)), !.time = now]]

\* The n-th value is that of the n-th CPU that is on; where there is none, the
\* array still holds the last metric read, the time of guests: nothing.
PCP_values ==
    [i \in CPUs |->
        LET nth == {c \in on : Cardinality({b \in on : b <= c}) = i}
        IN  IF nth = {} THEN Nothing ELSE clicks[CHOOSE c \in nth : TRUE]]

PCP_deriveCPUTime(times, cpu) ==
    [cpu EXCEPT !.parts = [k \in Kinds |-> SaturatingSub(times[k], cpu.time[k])],
                !.total = SaturatingSub(Total(times), Total(cpu.time)), !.time = times]

PCP_updateHeader ==
    [i \in 0 .. existing |->
        PCP_deriveCPUTime(IF i = 0 THEN Sum(clicks, CPUs) ELSE PCP_values[i], data[i])]

NewReadings ==
    CASE system = "freebsd" -> FreeBSD_scanCPU
      [] system = "dragonfly" -> DragonFly_scanCPUTime
      [] system = "openbsd" -> OpenBSD_scanCPUTime
      [] system = "netbsd" -> NetBSD_scanCPUTime
      [] system = "darwin" -> Darwin_load
      [] system = "solaris" -> Solaris_scanCPUTime
      [] system = "pcp" -> PCP_updateHeader

(****************************************************************************)
(* Frequencies: some CPUs of FreeBSD and NetBSD have one, or there is one   *)
(* for all under an older name.                                             *)
(****************************************************************************)
\* That of the first CPU is taken for those without.
FreeBSD_frequency(given) ==
    [i \in 0 .. existing |->
        CASE i \in given \/ (i = 0 /\ existing = 1 /\ 1 \in given) -> "own"
          [] i \notin given /\ existing > 1 /\ 1 \in given -> IF i = 0 THEN "mean" ELSE "first"
          [] OTHER -> "none"]

\* The average has the zero of ProcessList_new.
NetBSD_scanCPUFrequency(given, legacy) ==
    [i \in 0 .. existing |->
        CASE i = 0 -> "zero" [] i \in given -> "own"
          [] i \notin given /\ i # 0 /\ given = {} /\ legacy -> "one" [] OTHER -> "none"]

NewFrequencies ==
    CASE system = "freebsd" -> {FreeBSD_frequency(given) : given \in SUBSET CPUs}
      [] system = "netbsd" -> {NetBSD_scanCPUFrequency(given, legacy) :
                                  given \in SUBSET CPUs, legacy \in BOOLEAN}
      [] OTHER -> {frequency}

\* assert( (idletime != NULL) && ...
Solaris_asserts == system = "solaris" /\ \E c \in kd : Solaris_readable(c) = {}

ReadClicks ==
    /\ cpuStage = "time" /\ ~ended /\ ended' = Solaris_asserts
    /\ data' = (IF ended' THEN data ELSE NewReadings)
    /\ frequency' \in NewFrequencies
    /\ cpuStage' = "shown" /\ earlier' = clicks /\ quiet' = FX!Min({3, quiet + 1})
    /\ UNCHANGED <<machineVars, active, kd, swapped>>

NextScan ==
    /\ cpuStage = "shown" /\ ~ended /\ cpuStage' = "count"
    /\ UNCHANGED <<machineVars, data, frequency, active, kd, ended, earlier, quiet, swapped>>

CPUNext ==
    \/ \E c \in CPUs, k \in Kinds : Click(c, k)
    \/ \E c \in CPUs : Switch(c)
    \/ CountCPUs \/ ReadClicks \/ NextScan
    \/ ended /\ UNCHANGED cpuVars

CPUSpec == CPUInit /\ [][CPUNext]_cpuVars

(****************************************************************************)
(* Platform_setCPUValues: a bar, as parts of a total of 100 percent.        *)
(****************************************************************************)
Busy(d) == d.parts["user"] + d.parts["system"]

\* Where nothing was counted the total is taken for 1.
setCPUValues(d) == FX!Min({100, (Busy(d) * 100) \div (IF d.total = 0 THEN 1 ELSE d.total)})

\* Darwin and Solaris divide by zero then; nothing is drawn of the result.
Darwin_setCPUValues(d) == IF d.total = 0 THEN 0 ELSE FX!Min({100, (Busy(d) * 100) \div d.total})

Percent(d) == IF system \in Ratio THEN Darwin_setCPUValues(d) ELSE setCPUValues(d)

\* The CPUs whose percentages are averaged, and their number as it is taken.
Averages == [of |-> IF system = "solaris" THEN Cardinality(kd) ELSE existing, by |-> active]

(****************************************************************************)
(* Properties.                                                              *)
(****************************************************************************)
\* A CPU's clicks of the last interval.
Recent(c) == Since(clicks[c], earlier[c])
SameShares(d, past) ==
    /\ \A k \in Kinds : d.parts[k] = past[k]
    /\ Total(past) > 0 => d.total = Total(past)

\* The bar of each CPU shows what that CPU did since the scan before, whichever
\* others went and came, once the first two scans after the last change are
\* over (the data begin anew with "Reset CPU stats when number of
\* online/existing CPU cores changed").  On OpenBSD and Solaris only a change of
\* the number is seen: if one CPU went off and another on between two scans,
\* the first is still taken for online.  PCP's values have no number: they fit
\* as long as the CPUs that are on are the first ones.
BarsTrue ==
    [][ReadClicks /\ quiet' = 3 =>
         /\ (ended' => swapped)
         /\ ~swapped /\ (system = "pcp" => on = 1 .. Cardinality(on)) =>
               \A c \in on : /\ data'[c].online
                             /\ SameShares(data'[c], Recent(c))
                             /\ Percent(data'[c]) <= 100
         /\ ~swapped /\ system \in {"openbsd", "solaris"} =>
               {c \in CPUs : data'[c].online} = on]_cpuVars

\* The average is that of the machine: exactly where the kernel adds up or the
\* percentages of as many CPUs are added as their sum is divided by, and to
\* one click where whole clicks are divided.  A mean of the frequencies is shown
\* if there is one for every CPU.
AverageTrue ==
    [][ReadClicks /\ quiet' = 3 /\ ~swapped =>
         /\ frequency'[0] = "mean" => \A c \in CPUs : frequency'[c] # "none"
         /\ LET past == Sum([c \in CPUs |-> Recent(c)], CPUs)
                avg == data'[0]
            IN  CASE system \in {"freebsd", "dragonfly", "pcp"} -> SameShares(avg, past)
                  [] system \in {"openbsd", "netbsd"} ->
                       \A k \in Kinds : /\ avg.parts[k] * active < past[k] + active
                                        /\ avg.parts[k] * active > past[k] - active
                  [] OTHER -> Averages.of = Averages.by]_cpuVars

(****************************************************************************)
(* The bars of all systems, and their average, show what the CPUs did.      *)
(****************************************************************************)
CPUBarsTrue == BarsTrue /\ AverageTrue
=============================================================================
