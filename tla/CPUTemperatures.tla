-------------------------- MODULE CPUTemperatures --------------------------
(****************************************************************************)
(* From sensors to CPUs (linux/LibSensors.c): chips number their            *)
(* temperatures each in its own way, and htop finds out from how many there *)
(* are which belongs to which CPU.  temperature[0] is that of the package.  *)
(* CPU i and CPU i + cores are threads of one core.  Chips and their order  *)
(* are the machine's.                                                       *)
(****************************************************************************)
EXTENDS Integers, Sequences, FiniteSets
LOCAL SX == INSTANCE SequencesExt
LOCAL FX == INSTANCE FiniteSetsExt

CONSTANTS
    MaxCores, MaxThreads,
    ChipLists,     \* the chips of a machine, in the order the library has them
    MaxOff         \* bound: CPUs that are offline
ASSUME CPUTemperaturesAssumption == {MaxCores, MaxThreads} \subseteq Nat \ {0} /\ MaxOff \in Nat

VARIABLES
    cores, threadsPerCore, offline,
    chips,
    temperature,   \* of cpuData
    measured       \* the temperatures are those of the present CPUs
temperatureVars == <<cores, threadsPerCore, offline, chips, temperature, measured>>

Missing == -1
existingCores == cores * threadsPerCore
activeCores == existingCores - Cardinality(offline)
CoreOf(i) == ((i - 1) % cores) + 1
Running == {CoreOf(i) : i \in 1 .. existingCores \ offline}

\* What a chip says: temp1, temp2, ... numbered from 0.  A core that is offline
\* has no sensor.  The cores have 11, 12, ... degrees and the package 90.
Package == 90
Sensors(chip) ==
    CASE chip = "coretemp" -> {<<0, Package>>} \cup {<<c, 10 + c>> : c \in Running}
      [] chip = "cpu_thermal" -> {<<c - 1, 10 + c>> : c \in Running}
      [] chip = "k10temp" -> {<<0, Package>>}
      [] chip = "k10temp die" -> {<<0, Package - 1>>}
      [] chip = "acpitz" -> {<<0, 50>>}
      [] chip = "acpitz two" -> {<<0, 50>>, <<1, 51>>}
      [] chip = "nvme" -> {<<0, 99>>}
tempDriverPriority(chip) ==
    CASE chip \in {"coretemp", "cpu_thermal", "k10temp", "k10temp die"} -> 0
      [] chip \in {"acpitz", "acpitz two"} -> 1
      [] OTHER -> -1

NoTemperatures == [i \in 0 .. existingCores |-> Missing]
HotterOf(a, b) == IF a > b THEN a ELSE b

\* Of two sensors of one number the hotter one counts.  coreTempCount is the
\* number of temperatures but the first, those of other chips included.
ReadSensor(acc, sensor) ==
    IF sensor[1] > existingCores THEN acc
    ELSE [acc EXCEPT !.data[sensor[1]] = HotterOf(@, sensor[2]),
                     !.coreTempCount = IF acc.data[sensor[1]] = Missing /\ sensor[1] > 0 THEN @ + 1 ELSE @]
ReadChip_KeepsData(acc, chip) ==
    LET priority == tempDriverPriority(chip) IN
    IF priority < 0 \/ priority > acc.topPriority THEN acc
    ELSE FX!FoldSet(LAMBDA sensor, a : ReadSensor(a, sensor), [acc EXCEPT !.topPriority = priority], Sensors(chip))
ReadChip(acc, chip) ==
    LET priority == tempDriverPriority(chip) IN
    IF priority < 0 \/ priority > acc.topPriority THEN acc
    ELSE FX!FoldSet(LAMBDA sensor, a : ReadSensor(a, sensor),
                    [acc EXCEPT !.topPriority = priority,
                                !.data = IF priority < acc.topPriority THEN NoTemperatures ELSE @],
                    Sensors(chip))
ReadChips ==
    SX!FoldLeft(ReadChip, [data |-> NoTemperatures, coreTempCount |-> 0, topPriority |-> 99], chips)

\* No platform temperature: all belong one further.
Halves == activeCores \div 2
Lacks(acc) == acc.coreTempCount + 1 \in {activeCores, Halves}
Shifted(acc) ==
    IF ~Lacks(acc) THEN acc
    ELSE [acc EXCEPT !.data = [i \in 0 .. existingCores |-> IF i = 0 THEN Missing ELSE acc.data[i - 1]],
                     !.coreTempCount = @ + 1]
WithPackage(acc) ==
    IF acc.data[0] = Missing /\ acc.coreTempCount # 0
    THEN [acc EXCEPT !.data[0] = FX!Max({acc.data[i] : i \in 1 .. existingCores} \cup {Missing})] ELSE acc
Copied(acc) ==
    LET data == acc.data IN
    CASE acc.coreTempCount = 0 /\ data[0] # Missing -> [i \in DOMAIN data |-> data[0]]
      [] acc.coreTempCount = 1 /\ data[1] # Missing -> [i \in DOMAIN data |-> IF i >= 2 THEN data[1] ELSE data[i]]
      [] acc.coreTempCount = Halves /\ Halves # 0 ->
            [i \in DOMAIN data |-> IF i \in Halves + 1 .. 2 * Halves THEN data[i - Halves] ELSE data[i]]
      [] OTHER -> data

LibSensors_getCPUTemperatures == Copied(WithPackage(Shifted(ReadChips)))

TemperatureInit ==
    /\ cores \in 1 .. MaxCores /\ threadsPerCore \in 1 .. MaxThreads /\ offline = {} /\ chips \in ChipLists
    /\ temperature = NoTemperatures /\ measured = FALSE
Measure ==
    /\ ~measured
    /\ temperature' = LibSensors_getCPUTemperatures /\ measured' = TRUE
    /\ UNCHANGED <<cores, threadsPerCore, offline, chips>>
\* CPU 1 stays online.
SwitchCPU ==
    /\ \E i \in 2 .. existingCores :
         /\ offline' = (offline \ {i}) \cup ({i} \ offline)
         /\ Cardinality(offline') <= MaxOff
    /\ measured' = FALSE
    /\ UNCHANGED <<cores, threadsPerCore, chips, temperature>>
TemperatureNext == Measure \/ SwitchCPU
TemperatureSpec == TemperatureInit /\ [][TemperatureNext]_temperatureVars

(****************************************************************************)
(* Properties.                                                              *)
(****************************************************************************)
Has(chip) == \E i \in DOMAIN chips : chips[i] = chip
PerCore == Has("coretemp") \/ Has("cpu_thermal")
OnPackage == Has("coretemp") \/ Has("k10temp")

\* What htop has to guess, and guesses wrong: as many temperatures as CPUs or
\* cores, one of which is the package's; a thread that is offline where a core has
\* two and is taken for a core, or a core for half of the threads; and temperatures
\* counted that were dropped for those of a better chip.
Ambiguous ==
    \/ Has("coretemp") /\ Cardinality(Running) + 1 \in {activeCores, Halves}
    \/ offline # {} /\ Has("cpu_thermal") /\ threadsPerCore = 2
    \/ offline # {} /\ Has("coretemp") /\ Cardinality(Running) \in {1, Halves}
    \/ \E i, j \in DOMAIN chips : i < j /\ chips[i] = "acpitz two" /\ tempDriverPriority(chips[j]) = 0

(****************************************************************************)
(* Each CPU has the temperature of its core where the chips measure cores,  *)
(* else that of the package, and the package its own, or that of the hottest*)
(* core; a chip of the board is only asked if there is no better one.       *)
(* (LibSensors.c:123-267)                                                   *)
(****************************************************************************)
TemperaturesTrue ==
    measured /\ ~Ambiguous =>
        LET board == IF Has("acpitz") \/ Has("acpitz two") THEN 50 ELSE Missing
            package == IF OnPackage THEN Package ELSE IF PerCore THEN 10 + FX!Max(Running) ELSE board
        IN  /\ temperature[0] = IF Has("acpitz two") /\ board # Missing /\ ~PerCore /\ ~OnPackage THEN temperature[0] ELSE package
            /\ \A i \in 1 .. existingCores \ offline :
                 IF PerCore THEN \/ temperature[i] = 10 + CoreOf(i)
                                 \/ offline # {} /\ temperature[i] = Missing
                 ELSE OnPackage \/ ~Has("acpitz two") => temperature[i] = package
=============================================================================
