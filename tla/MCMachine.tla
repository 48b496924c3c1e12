----------------------------- MODULE MCMachine -----------------------------
(****************************************************************************)
(* Instances of what is read from the kernels, on Linux and on the systems  *)
(* htop supports besides: the CPUs, the list of processes, and the memory,  *)
(* and of what the meters show.  A behaviour is about one of them, the      *)
(* subject.                                                                 *)
(*                                                                          *)
(* LinuxCPUs: three CPUs, two changes between any two of the files read.    *)
(* PlatformScan: two steps of the kernel of each of the seven systems.      *)
(* PlatformCPUs: two CPUs and three clicks of them or changes.              *)
(* PlatformMemory: four pages in all uses, one of which changes.           *)
(* MeterReadings: two disks with partitions, two network cards, or two      *)
(* batteries; steps of the clock to both sides of every limit, and back.    *)
(* CPUTemperatures: up to four cores of one or two threads, two CPUs        *)
(* offline, chips of every kind in either order.                            *)
(* MeterDrawing: up to three values in bars of one to five columns, texts   *)
(* that fit and that do not; a graph of four values on up to four columns.  *)
(****************************************************************************)
EXTENDS LinuxCPUs, PlatformScan, PlatformCPUs, PlatformMemory, MeterReadings, CPUTemperatures, MeterDrawing

VARIABLE subject

TheMeterSteps == [disk |-> 4, network |-> 4, battery |-> 3, systemd |-> 2]
TheTimeSteps == {1, 2, 5, -2}
Device(name, of, sort) == [name |-> name, of |-> of, sort |-> sort]
TheLines ==
    [disk |-> <<Device(<<"sda">>, 1, "disk"), Device(<<"sda", "1">>, 1, "partition"), Device(<<"sdb">>, 2, "disk"),
                Device(<<"sdb", "1">>, 2, "partition"), Device(<<"dm">>, 2, "mapped"), Device(<<"nfs">>, 1, "nfs")>>,
     network |-> <<Device(<<"lo">>, 1, "loopback"), Device(<<"eth0">>, 1, "card"), Device(<<"eth1">>, 2, "card")>>]
TheChips ==
    {<<>>, <<"nvme">>, <<"nvme", "coretemp">>, <<"acpitz", "coretemp">>, <<"coretemp", "acpitz two">>, <<"acpitz two", "coretemp">>,
     <<"cpu_thermal">>, <<"k10temp">>, <<"k10temp die", "nvme", "k10temp">>, <<"acpitz">>, <<"acpitz", "cpu_thermal">>}
TheBarValues == {-1, 0, 1, 3, 6, 11}
TheBarTexts ==
    {<<>>, <<"x">>, <<"x", " ", "x">>, <<"x", "x", " ", "x", "x">>, <<"x", "x", "x", "x", "x", "x", "x">>,
     <<"x", " ", " ", " ", "x">>, <<"x", " ", "x", " ", "x", "x">>, <<" ", "x", "x", "x">>}
TheGraphSteps == {0, 1, 2, -2}

\* Those that are not the subject stay in one of their initial states.
MCInit ==
    /\ subject \in {"linux", "scan", "cpus", "memory", "readings", "temperatures", "drawing"}
    /\ IF subject = "linux" THEN LinuxInit ELSE up = {0} /\ present = {0} /\ LinuxInit
    /\ IF subject = "scan" THEN PlatformInit
       ELSE platform = "pcp" /\ option = [kernel |-> FALSE, user |-> FALSE, names |-> FALSE] /\ PlatformInit
    /\ IF subject = "cpus" THEN CPUInit ELSE system = "pcp" /\ existing = 1 /\ on = {1} /\ CPUInit
    /\ IF subject = "memory" THEN MemoryInit
       ELSE machine = "darwin" /\ use = [u \in Uses |-> IF u = "kernel" THEN Pages ELSE 0] /\ MemoryInit
    /\ IF subject = "readings" THEN MeterInit ELSE meterSystem = "pcp" /\ meterKind = "disk" /\ plugged = {1, 2} /\ MeterInit
    /\ IF subject = "temperatures" THEN TemperatureInit ELSE cores = 1 /\ threadsPerCore = 1 /\ chips = <<>> /\ TemperatureInit
    /\ DrawingInit

scansVars == <<linuxVars, platformVars, cpuVars, memoryVars>>
meteringVars == <<meterVars, temperatureVars, drawingVars>>
MCNext ==
    /\ \/ subject = "linux" /\ LinuxNext /\ UNCHANGED <<platformVars, cpuVars, memoryVars, meteringVars>>
       \/ subject = "scan" /\ PlatformNext /\ UNCHANGED <<linuxVars, cpuVars, memoryVars, meteringVars>>
       \/ subject = "cpus" /\ CPUNext /\ UNCHANGED <<linuxVars, platformVars, memoryVars, meteringVars>>
       \/ subject = "memory" /\ MemoryNext /\ UNCHANGED <<linuxVars, platformVars, cpuVars, meteringVars>>
       \/ subject = "readings" /\ MeterNext /\ UNCHANGED <<scansVars, temperatureVars, drawingVars>>
       \/ subject = "temperatures" /\ TemperatureNext /\ UNCHANGED <<scansVars, meterVars, drawingVars>>
       \/ subject = "drawing" /\ DrawingNext /\ UNCHANGED <<scansVars, meterVars, temperatureVars>>
    /\ UNCHANGED subject

MCSpec == MCInit /\ [][MCNext]_<<scansVars, meteringVars, subject>>
=============================================================================
