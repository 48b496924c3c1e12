--------------------------- MODULE MeterReadings ---------------------------
(****************************************************************************)
(* What the meters of disks, networks, batteries and systemd show, and how  *)
(* old it is: each keeps what it read in static variables that all meters   *)
(* of its kind share, reads again when enough time has passed by the clock  *)
(* (which may be set), and has sources that fail.  A header has two meters  *)
(* of the kind looked at, updated one after the other.                      *)
(****************************************************************************)
EXTENDS Integers, Sequences, FiniteSets
LOCAL SX == INSTANCE SequencesExt

CONSTANTS
    MeterSystems,  \* the systems looked at
    MeterKinds,    \* "disk", "network", "battery", "systemd"
    Lines,         \* what the kernel can list of a kind: [name, of, sort], of the device that works
    TimeSteps,     \* by how much the clock moves
    HalfSecond, LongTime, BatteryTime, \* 500 ms, 30 s and 10 s
    MaxMeterSteps  \* bound: what the machine, the clock and the user do

AllMeterSystems == {"linux", "freebsd", "netbsd", "openbsd", "dragonfly", "darwin", "pcp"}
ASSUME MeterReadingsAssumption ==
    /\ MeterSystems \subseteq AllMeterSystems
    /\ MeterKinds \subseteq {"disk", "network", "battery", "systemd"}
    /\ TimeSteps \subseteq Int /\ MaxMeterSteps \in [MeterKinds -> Nat]
    /\ {HalfSecond, LongTime, BatteryTime} \subseteq Nat /\ HalfSecond < LongTime

VARIABLES
    meterSystem, meterKind,
    meterClock, meterSteps,
    work, plugged, readable, \* devices: what each has done, which are there; the source can be read
    supplies,      \* batteries: [there, charge]
    adapter,       \* "none", "on", "off"
    manager,       \* systemd: the number of its present state
    sources,       \* systemd: how many properties the bus gives (-1: no library), and whether systemctl works
    ioCache,         \* static variables of DiskIOMeter.c and NetworkIOMeter.c
    meters,        \* the two meters
    battery,       \* Platform_Battery_*
    systemd,       \* static variables of SystemdMeter.c
    updated,       \* the meters have just been updated
    reads          \* history: the last two readings
machineOfMeters == <<meterSystem, meterKind, work, plugged, readable, supplies, adapter, manager, sources>>
meterVars == <<machineOfMeters, meterClock, meterSteps, ioCache, meters, battery, systemd, updated, reads>>

Huge == 1000000
NaN == -1
NeverRead == [at |-> 0, ok |-> FALSE, truth |-> 0]
Per(unit, growth, passed) == (unit * growth) \div passed
TotalOf(f, S) == SX!FoldLeft(LAMBDA n, x : n + f[x], 0, SX!SetToSeq(S))

Kind(kinds) == meterKind \in kinds
Devices == IF Kind({"disk", "network"}) THEN {l.of : l \in SX!ToSet(Lines[meterKind])} ELSE {}
Batteries == 1 .. 2
Meters == 1 .. 2

MeterInit ==
    /\ meterSystem \in MeterSystems /\ meterKind \in MeterKinds
    /\ meterKind = "systemd" => meterSystem = "linux"
    /\ meterClock = LongTime + 10 /\ meterSteps = 0
    /\ work = [d \in Devices |-> 3] /\ plugged \in {Devices, Devices \cap {1}}
    /\ readable \in IF Kind({"battery"}) /\ meterSystem = "linux" THEN BOOLEAN ELSE {TRUE}
    /\ supplies \in IF Kind({"battery"})
                    THEN [Batteries -> {[there |-> t, charge |-> 5] : t \in BOOLEAN}]
                    ELSE {[b \in Batteries |-> [there |-> FALSE, charge |-> 5]]}
    /\ adapter \in IF Kind({"battery"}) THEN {"none", "on"} ELSE {"none"}
    /\ manager = 0 /\ sources \in IF Kind({"systemd"}) THEN [bus : -1 .. 5, program : BOOLEAN] ELSE {[bus |-> 5, program |-> TRUE]}
    /\ ioCache = [hasData |-> FALSE, last |-> 0, total |-> 0, growth |-> 0, rate |-> 0]
    /\ meters = [m \in Meters |-> [value |-> 0, total |-> 100, text |-> "none"]]
    /\ battery = [method |-> "proc", at |-> 0, percent |-> NaN, ac |-> "error"]
    /\ systemd = [library |-> FALSE, bus |-> FALSE, shown |-> [i \in 1 .. 5 |-> NaN]]
    /\ updated = FALSE /\ reads = <<NeverRead, NeverRead>>

(****************************************************************************)
(* Disks and networks: the sum of the counters of all devices.              *)
(****************************************************************************)
Counter(l) == work[l.of]
SumOf(lines) == SX!FoldLeft(LAMBDA n, l : n + Counter(l), 0, lines)

\* Only Linux lists partitions and the devices that map others.
Listed ==
    SelectSeq(Lines[meterKind], LAMBDA l :
        l.of \in plugged /\ (meterSystem = "linux" \/ l.sort \notin {"partition", "mapped"})
                         /\ (meterSystem = "netbsd" \/ l.sort # "nfs"))

\* A line whose name begins with that of the last disk counted is a partition of it.
Linux_disks ==
    SX!FoldLeft(LAMBDA acc, l :
                   IF l.sort = "mapped" \/ (acc.lastTopDisk # <<>> /\ SX!IsPrefix(acc.lastTopDisk, l.name)) THEN acc
                   ELSE [lastTopDisk |-> l.name, sum |-> acc.sum + Counter(l)],
                [lastTopDisk |-> <<>>, sum |-> 0], Listed).sum

\* The totals a platform may return, or none: the metrics of PCP are sums, 0 if
\* missing; NetBSD adds to a record of which NetworkIOMeter_updateValues did not
\* set the fields.
NoReading == {}
Platform_getDiskIO ==
    CASE meterSystem = "pcp" -> {IF readable THEN SumOf(Listed) ELSE 0}
      [] ~readable \/ meterSystem \in {"openbsd", "dragonfly", "darwin"} -> NoReading
      [] meterSystem = "linux" -> {Linux_disks}
      [] meterSystem = "freebsd" -> {SumOf(Listed)}
      [] meterSystem = "netbsd" -> IF Listed = <<>> THEN NoReading ELSE {SumOf(SelectSeq(Listed, LAMBDA l : l.sort # "nfs"))}
Cards == SelectSeq(Listed, LAMBDA l : l.sort # "loopback")
Platform_getNetworkIO ==
    CASE meterSystem = "pcp" -> {IF readable THEN SumOf(Cards) ELSE 0}
      [] ~readable \/ meterSystem \in {"openbsd", "dragonfly", "darwin"} -> NoReading
      [] meterSystem = "netbsd" -> {unset + SumOf(Cards) : unset \in {0, 7}}
      [] OTHER -> {SumOf(Cards)}

\* realtimeMs - cached_last_update is unsigned.
Passed_Signed == meterClock - ioCache.last
Passed == IF meterClock >= ioCache.last THEN meterClock - ioCache.last ELSE Huge
Due == Passed > HalfSecond

NewCache(total) ==
    LET growth == IF total > ioCache.total THEN total - ioCache.total ELSE 0 IN
    [hasData |-> Passed <= LongTime, last |-> meterClock, total |-> total,
     growth |-> growth, rate |-> Per(100, growth, Passed)]
NoData == [ioCache EXCEPT !.hasData = FALSE, !.last = meterClock]

\* The cached figures, as a meter takes them over; the total of a bar of
\* the network remembers its highest value.
Filled(m, c) ==
    [value |-> c.rate, text |-> "figures",
     total |-> LET least == IF meterKind = "disk" THEN 100 ELSE meters[m].total IN
               IF c.rate > least THEN c.rate ELSE least]
Emptied(m) == [meters[m] EXCEPT !.text = "no data", !.value = IF meterKind = "disk" THEN 0 ELSE @]

DiskIOMeter_updateValues ==
    /\ Kind({"disk", "network"})
    /\ LET totals == IF meterKind = "disk" THEN Platform_getDiskIO ELSE Platform_getNetworkIO
       IN  /\ ioCache' \in IF ~Due THEN {ioCache} ELSE IF totals = NoReading THEN {NoData} ELSE {NewCache(t) : t \in totals}
           \* only the first meter reads: no time has passed for the second
           /\ meters' = [m \in Meters |-> IF m = 1 /\ Due /\ totals = NoReading THEN Emptied(m) ELSE Filled(m, ioCache')]
    /\ UNCHANGED <<battery, systemd>>

(****************************************************************************)
(* Batteries.                                                               *)
(****************************************************************************)
Present == {b \in Batteries : supplies[b].there}
ChargeOf(B) == TotalOf([b \in Batteries |-> supplies[b].charge], B)
FullOf(B) == 10 * Cardinality(B)
ChargePercent(charge, full) == IF full = 0 THEN NaN ELSE Per(100, charge, full)
Supplied(B) == ChargePercent(ChargeOf(B), FullOf(B))
AC == CASE adapter = "none" -> "error" [] adapter = "on" -> "present" [] adapter = "off" -> "absent"

\* /proc/acpi has both the adapter and the batteries, or neither counts.
procAcpiCheck == IF readable THEN AC ELSE "error"
Platform_Battery_getProcData ==
    [ac |-> procAcpiCheck, percent |-> IF procAcpiCheck = "error" THEN NaN ELSE Supplied(Present)]

\* The second battery does not say its charge but its capacity in per cent.
Remaining(b) ==
    IF b = 1 THEN supplies[b].charge ELSE (ChargePercent(supplies[b].charge, FullOf({b})) * FullOf({b})) \div 100
Platform_Battery_getSysData ==
    [ac |-> AC, percent |-> ChargePercent(TotalOf([b \in Batteries |-> Remaining(b)], Present), FullOf(Present))]

\* Each source that had nothing is not asked again.
LinuxBattery ==
    LET proc == Platform_Battery_getProcData
        sys == Platform_Battery_getSysData
        method1 == IF battery.method = "proc" /\ proc.percent = NaN THEN "sys" ELSE battery.method
        method2 == IF method1 = "sys" /\ sys.percent = NaN THEN "err" ELSE method1
        got == CASE method2 = "proc" -> proc [] method2 = "sys" -> sys [] OTHER -> [ac |-> "error", percent |-> NaN]
    IN  [method |-> method2, at |-> meterClock, percent |-> IF got.percent > 100 THEN 100 ELSE got.percent, ac |-> got.ac]

\* FreeBSD and DragonFly are told the sum, OpenBSD asks for the first battery,
\* and Darwin knows of the adapter only from a battery.
OtherBattery ==
    [method |-> "proc", at |-> meterClock,
     percent |-> CASE meterSystem = "pcp" -> NaN
                   [] meterSystem = "openbsd" -> IF supplies[1].there THEN Supplied({1}) ELSE NaN
                   [] OTHER -> Supplied(Present),
     ac |-> IF meterSystem = "pcp" \/ (meterSystem = "darwin" /\ Present = {}) THEN "error" ELSE AC]

Platform_getBattery ==
    CASE meterSystem # "linux" -> OtherBattery
      [] meterClock < battery.at + BatteryTime -> battery
      [] OTHER -> LinuxBattery

BatteryMeter_updateValues ==
    /\ Kind({"battery"})
    /\ battery' = Platform_getBattery
    /\ meters' = [m \in Meters |-> [meters[m] EXCEPT !.value = battery'.percent,
                                    !.text = IF battery'.percent = NaN THEN "N/A" ELSE battery'.ac]]
    /\ UNCHANGED <<ioCache, systemd>>

(****************************************************************************)
(* systemd: five properties in their order, from the bus; if one cannot be  *)
(* had, all from the program.                                               *)
(****************************************************************************)
Unknown == [i \in 1 .. 5 |-> NaN]
\* A library that was opened once stays open.
updateViaLib ==
    [library |-> systemd.library \/ sources.bus >= 0, bus |-> sources.bus = 5,
     shown |-> [i \in 1 .. 5 |-> IF i <= sources.bus THEN manager ELSE NaN]]
updateViaExec(values) == IF sources.program THEN [i \in 1 .. 5 |-> manager] ELSE values

SystemdMeter_updateValues ==
    /\ Kind({"systemd"})
    /\ systemd' = [updateViaLib EXCEPT !.shown = IF sources.bus < 5 THEN updateViaExec(@) ELSE @]
    /\ meters' = [m \in Meters |-> [meters[m] EXCEPT !.text = IF systemd'.shown[1] = NaN THEN "???" ELSE "state"]]
    /\ UNCHANGED <<ioCache, battery>>

\* A meter is removed: the state and the bus of the other go, too.
SystemdMeter_done ==
    /\ Kind({"systemd"}) /\ meterSteps < MaxMeterSteps[meterKind]
    /\ systemd' = [library |-> FALSE, bus |-> FALSE, shown |-> [systemd.shown EXCEPT ![1] = NaN]]
    /\ meterSteps' = meterSteps + 1 /\ updated' = FALSE
    /\ UNCHANGED <<machineOfMeters, meterClock, ioCache, meters, battery, reads>>

(****************************************************************************)
(* The machine, and the header's updates.                                   *)
(****************************************************************************)
ReadTruth == CASE Kind({"disk", "network"}) -> TotalOf([d \in Devices |-> IF d \in plugged THEN work[d] ELSE 0], Devices)
           [] Kind({"battery"}) -> <<ChargePercent(ChargeOf(Present), FullOf(Present)), AC>>
           [] OTHER -> manager
Read == [at |-> meterClock, ok |-> readable, truth |-> ReadTruth]
Reads == CASE Kind({"disk", "network"}) -> Due
           [] Kind({"battery"}) -> meterSystem # "linux" \/ meterClock >= battery.at + BatteryTime
           [] OTHER -> TRUE

Header_updateData ==
    /\ ~updated
    /\ DiskIOMeter_updateValues \/ BatteryMeter_updateValues \/ SystemdMeter_updateValues
    /\ updated' = TRUE
    /\ reads' = IF Reads THEN <<Read, reads[1]>> ELSE reads
    /\ UNCHANGED <<machineOfMeters, meterClock, meterSteps>>

MachineStep ==
    /\ meterSteps < MaxMeterSteps[meterKind]
    /\ meterSteps' = meterSteps + 1 /\ updated' = FALSE
    /\ UNCHANGED <<meterSystem, meterKind, ioCache, meters, battery, systemd, reads>>
Wait ==
    /\ MachineStep /\ \E d \in TimeSteps : meterClock' = meterClock + d
    /\ UNCHANGED <<work, plugged, readable, supplies, adapter, manager, sources>>
Work ==
    /\ MachineStep /\ \E d \in plugged : work' = [work EXCEPT ![d] = @ + 1]
    /\ UNCHANGED <<meterClock, plugged, readable, supplies, adapter, manager, sources>>
PlugDevice ==
    /\ MachineStep /\ \E d \in Devices \ {1} : plugged' = (plugged \ {d}) \cup ({d} \ plugged)
    /\ UNCHANGED <<meterClock, work, readable, supplies, adapter, manager, sources>>
Fail ==
    /\ MachineStep
    /\ Kind({"disk", "network"}) \/ (Kind({"battery"}) /\ meterSystem = "linux")
    /\ readable' = ~readable
    /\ UNCHANGED <<meterClock, work, plugged, supplies, adapter, manager, sources>>
ChangeSupply ==
    /\ MachineStep /\ Kind({"battery"})
    /\ \/ /\ \E b \in Batteries : \/ supplies' = [supplies EXCEPT ![b].there = ~@]
                                  \/ \E c \in {0, 10} : supplies' = [supplies EXCEPT ![b].charge = c]
          /\ UNCHANGED adapter
       \/ adapter' = (IF adapter = "on" THEN "off" ELSE "on") /\ UNCHANGED supplies
    /\ UNCHANGED <<meterClock, work, plugged, readable, manager, sources>>
ChangeManager ==
    /\ MachineStep /\ Kind({"systemd"})
    /\ manager' = manager + 1 /\ sources' \in [bus : -1 .. 5, program : BOOLEAN]
    /\ UNCHANGED <<meterClock, work, plugged, readable, supplies, adapter>>

MeterNext ==
    \/ Header_updateData \/ SystemdMeter_done
    \/ Wait \/ Work \/ PlugDevice \/ Fail \/ ChangeSupply \/ ChangeManager
MeterSpec == MeterInit /\ [][MeterNext]_meterVars

(****************************************************************************)
(* Properties.                                                              *)
(****************************************************************************)
\* After an update the figures are at most half a second old, although the clock
\* may have been set back.  If they are shown, they are the growth of what all
\* devices did, each counted once, between two readings not more than 30 s apart,
\* and its rate per time between the same two; all meters agree and fit into
\* their bars.  Left out are the figures after a reading that failed, and NetBSD's
\* networks, whose sums begin with what was never set.
GrowthShown(a, b) == IF b.truth > a.truth THEN b.truth - a.truth ELSE 0
IORates ==
    updated /\ Kind({"disk", "network"}) /\ ~(meterSystem = "netbsd" /\ meterKind = "network") =>
        /\ meterClock - ioCache.last \in 0 .. HalfSecond
        /\ ioCache.hasData /\ reads[1].ok /\ reads[2].ok =>
             /\ reads[1].at - reads[2].at \in HalfSecond + 1 .. LongTime
             /\ ioCache.growth = GrowthShown(reads[2], reads[1])
             /\ ioCache.rate = Per(100, ioCache.growth, reads[1].at - reads[2].at)
             /\ \A m \in Meters : meters[m].value = ioCache.rate /\ meters[m].value <= meters[m].total

\* A battery's meter shows what all batteries together had when it was last
\* read, and all read again within 10 s of a clock that is not set back.  Left
\* out are OpenBSD, which knows one battery, PCP, which knows none, and a Linux
\* that has once found none (see BatteryReturns).
BatteryTrue ==
    updated /\ Kind({"battery"}) =>
        /\ battery.percent \in {NaN} \cup 0 .. 100
        /\ meterSystem \notin {"openbsd", "pcp"} /\ battery.method # "err" =>
             /\ battery.percent = reads[1].truth[1]
             /\ battery.ac = reads[1].truth[2] \/ (meterSystem = "darwin" /\ battery.percent = NaN)
             /\ meterSystem = "linux" => meterClock < reads[1].at + BatteryTime

\* What is shown of systemd is its present state, of which all is known if the
\* bus or the program works; a bus is only used with the library that opened it.
SystemdTrue ==
    Kind({"systemd"}) =>
        /\ systemd.bus => systemd.library
        /\ updated => /\ \A i \in 1 .. 5 : systemd.shown[i] \in {NaN, manager}
                      /\ sources.bus = 5 \/ sources.program => \A i \in 1 .. 5 : systemd.shown[i] = manager

(****************************************************************************)
(* What the meters show is what the machine did or is, read recently, and   *)
(* the same on all meters of a kind (DiskIOMeter.c:35-97,                   *)
(* NetworkIOMeter.c:28-105, linux/Platform.c:541-818,                       *)
(* SystemdMeter.c:56-282).                                                  *)
(****************************************************************************)
ReadingsTrue == IORates /\ BatteryTrue /\ SystemdTrue

\* Refuted: a battery that was away or could not be read is shown when it is back.
BatteryReturns ==
    updated /\ Kind({"battery"}) /\ meterSystem = "linux" => battery.percent = reads[1].truth[1]
\* Refuted: "no data" is what all meters show when nothing could be read.
NoDataShown ==
    updated /\ Kind({"disk", "network"}) /\ meters[1].text = "no data" => meters[2].text = "no data"
\* Refuted: after a reading that failed, the growth of two periods is divided by one.
RateAfterFailure ==
    updated /\ meterKind = "disk" /\ ioCache.hasData /\ reads[2] # NeverRead /\ ~reads[2].ok => ioCache.rate <= 100
=============================================================================
