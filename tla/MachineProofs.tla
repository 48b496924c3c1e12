---------------------------- MODULE MachineProofs ----------------------------
(****************************************************************************)
(* Proofs about what is read from the machine: LinuxCPUs and PlatformCPUs,  *)
(* for any number of CPUs and any number of changes, PlatformMemory, for    *)
(* any number of pages that change their use while they are counted, and    *)
(* PlatformScan, for any number of processes and steps of the kernel while  *)
(* they are listed.                                                         *)
(****************************************************************************)
EXTENDS LinuxCPUs, PlatformScan, PlatformCPUs, PlatformMemory, FoldFacts, TLAPS

USE LinuxCPUsAssumption

-----------------------------------------------------------------------------
(* Operators *)

Row == [online : BOOLEAN, time : Nat, period : Nat, frequency : Source]

\* The greatest element of a bounded set is one of its elements.
LEMMA MaxIsGreatest ==
    ASSUME NEW S \in SUBSET Int, S # {}, NEW b \in Int, \A x \in S : x <= b
    PROVE  FX!Max(S) \in S /\ \A y \in S : FX!Max(S) >= y
<1>1. \E x \in S : \A y \in S : x >= y  BY GreatestExists
<1>. QED  BY <1>1 DEF FX!Max

\* CPU is finite, and so is each set of CPUs.
LEMMA CPUsFinite ==
    /\ IsFiniteSet(CPU) /\ Cardinality(CPU) = NCPU
    /\ \A S \in SUBSET CPU : IsFiniteSet(S) /\ Cardinality(S) \in 0 .. NCPU
<1>1. IsFiniteSet(CPU) /\ Cardinality(CPU) = NCPU  BY FS_Interval DEF CPU
<1>. QED  BY <1>1, FS_Subset, FS_CardinalityType

\* The element that FoldSet takes first.
Pick(s) == CHOOSE x \in s : TRUE

\* The first line of /proc/stat is the sum of the others, a natural number.
LEMMA TotalTimeType ==
    ASSUME NEW f \in [CPU -> Nat]
    PROVE  TotalTime(f) \in Nat
<1>. DEFINE pick == [s \in SUBSET CPU |-> Pick(s)]
            op == [c \in CPU |-> [n \in Nat |-> n + f[c]]]
            Iter(g) == g = [s \in SUBSET CPU |-> IF s = {} THEN 0 ELSE g[s \ {Pick(s)}] + f[Pick(s)]]
<1>1. \A s \in SUBSET CPU : s # {} => Pick(s) \in s  BY DEF Pick
<1>2. IsPick(pick, CPU) /\ \A s \in SUBSET CPU : pick[s] = Pick(s)  BY <1>1 DEF IsPick
<1>3. op \in [CPU -> [Nat -> Nat]] /\ \A c \in CPU : \A n \in Nat : op[c][n] = n + f[c]  OBVIOUS
<1>4. TotalTime(f) = (CHOOSE h : Iter(h))[CPU]  BY DEF TotalTime, FX!FoldSet, FX!MapThenFoldSet, Pick
<1>. HIDE DEF pick, op
<1>5. PICK g \in [SUBSET CPU -> Nat] : Folding(g, CPU, 0, op, pick)  BY <1>2, <1>3, CPUsFinite, FoldExists
<1>6. Iter(g)
  <2>1. ASSUME NEW s \in SUBSET CPU
        PROVE  g[s] = IF s = {} THEN 0 ELSE g[s \ {Pick(s)}] + f[Pick(s)]
    <3>1. CASE s = {}  BY <1>5, <3>1 DEF Folding
    <3>2. CASE s # {}
      <4>1. g[s] = op[Pick(s)][g[s \ {Pick(s)}]]  BY <1>2, <1>5, <3>2 DEF Folding
      <4>2. Pick(s) \in CPU /\ g[s \ {Pick(s)}] \in Nat  BY <1>1, <3>2
      <4>. QED  BY <1>3, <3>2, <4>1, <4>2
    <3>. QED  BY <3>1, <3>2
  <2>. QED  BY <2>1
<1>7. PICK h : Iter(h) /\ TotalTime(f) = h[CPU]
  <2>. HIDE DEF Iter
  <2>. QED  BY <1>4, <1>6
<1>8. h[{}] \in Nat  BY <1>7
<1>9. ASSUME NEW s \in SUBSET CPU, s # {}, h[s \ {pick[s]}] \in Nat PROVE h[s] \in Nat
  <2>1. h[s] = h[s \ {Pick(s)}] + f[Pick(s)] /\ Pick(s) \in CPU  BY <1>1, <1>7, <1>9
  <2>2. h[s \ {Pick(s)}] \in Nat  BY <1>2, <1>9
  <2>. HIDE DEF Iter
  <2>. QED  BY <2>1, <2>2
<1>10. \A s \in SUBSET CPU : h[s] \in Nat
  <2>. HIDE DEF Iter
  <2>. QED  BY <1>2, <1>8, <1>9, CPUsFinite, FoldType
<1>. HIDE DEF Iter
<1>. QED  BY <1>7, <1>10

-----------------------------------------------------------------------------
(* The CPUs: the invariant *)

\* What the machine is like.
WorldInv ==
    /\ present \in SUBSET CPU /\ up \in SUBSET present /\ 0 \in up
    /\ time \in [CPU -> Nat]

\* The array has an item for the sum and one for each CPU; the program ends
\* only while it counts them.
DataInv ==
    /\ existingCPUs \in 0 .. NCPU /\ activeCPUs \in 0 .. NCPU /\ timeout \in 0 .. FreqTimeout
    /\ phase \in {"new", "count", "stat", "frequency", "shown"}
    /\ aborted \in BOOLEAN /\ cpuQuiet \in BOOLEAN /\ (aborted => Between)
    /\ cpuData \in Seq(Row)
    /\ Len(cpuData) = existingCPUs + 1 \/ (phase = "new" /\ cpuData = <<>> /\ existingCPUs = 0)
    /\ ~Between => existingCPUs >= 1 /\ cpuData[1].online

\* From the moment the CPUs are counted, they are those of the machine until it changes.
AgreeInv ==
    ~Between /\ cpuQuiet =>
        /\ {c \in Known : Data(c + 1).online} = up
        /\ activeCPUs = Cardinality(up)

\* The times in the array are those of the last reading, except for CPUs that
\* came since.  Before the next reading the array may have lost CPUs that it showed.
SeenInv ==
    /\ cpuSeen \in SUBSET CPU /\ before \in [CPU -> Nat]
    /\ \A c \in cpuSeen \cap Known : Data(c + 1).time = before[c]
    /\ phase # "stat" => cpuSeen \subseteq Known
    /\ phase = "new" => cpuSeen = {}

CPUInv == WorldInv /\ DataInv /\ AgreeInv /\ SeenInv

LEMMA InvTypeOK == CPUInv => OnlineAgrees
<1>. SUFFICES ASSUME CPUInv PROVE OnlineAgrees  OBVIOUS
<1>1. ASSUME NEW i \in DOMAIN cpuData
      PROVE  cpuData[i].period \in Nat /\ cpuData[i].time \in Nat /\ cpuData[i].frequency \in Source
  <2>1. cpuData \in Seq(Row)  BY DEF CPUInv, DataInv
  <2>2. cpuData[i] \in Row  BY <2>1
  <2>. QED  BY <2>2 DEF Row
<1>2. LinuxTypeOK  BY <1>1 DEF CPUInv, WorldInv, DataInv, LinuxTypeOK, Data, Between
<1>3. phase = "shown" => ~Between  BY DEF Between
<1>. QED  BY <1>2, <1>3 DEF CPUInv, AgreeInv, OnlineAgrees

LEMMA InitCPUInv == LinuxInit => CPUInv
<1>. SUFFICES ASSUME LinuxInit PROVE CPUInv  OBVIOUS
<1>1. up \in SUBSET CPU /\ 0 \in up  BY DEF LinuxInit
<1>2. up \in SUBSET Int /\ up # {} /\ \A c \in up : c <= NCPU  BY <1>1 DEF CPU
<1>3. FX!Max(up) \in up /\ \A c \in up : FX!Max(up) >= c  BY <1>2, MaxIsGreatest
<1>. DEFINE m == FX!Max(up)
<1>4. (present = 0 .. m \/ present = CPU) /\ m \in up /\ \A c \in up : m >= c  BY <1>3 DEF LinuxInit
<1>. HIDE DEF m
<1>5. present \in SUBSET CPU /\ up \in SUBSET present
  <2>1. m \in 0 .. NCPU - 1 /\ \A c \in up : c \in 0 .. m  BY <1>1, <1>4 DEF CPU
  <2>2. \A c \in 0 .. m : c \in 0 .. NCPU - 1  BY <2>1
  <2>. QED  BY <1>1, <1>4, <2>1, <2>2 DEF CPU
<1>10. WorldInv  BY <1>1, <1>5 DEF LinuxInit, WorldInv
<1>6. Between /\ phase = "new"  BY DEF LinuxInit, Between
<1>7. DataInv  BY <1>6 DEF LinuxInit, DataInv
<1>8. AgreeInv  BY <1>6 DEF AgreeInv
<1>9. SeenInv  BY DEF LinuxInit, SeenInv
<1>. QED  BY <1>7, <1>8, <1>9, <1>10 DEF CPUInv

\* Between the files a scan reads the machine may change, which is remembered.
LEMMA ChangeStep ==
    ASSUME CPUInv, NEW P \in SUBSET CPU, NEW U \in SUBSET P, 0 \in U, Change(P, U)
    PROVE  CPUInv'
<1>1. UNCHANGED <<time, cpuData, existingCPUs, activeCPUs, timeout, phase, aborted, before, cpuSeen>>
      /\ present' = P /\ up' = U /\ cpuQuiet' = Between  BY DEF Change, scanVars
<1>2. WorldInv'  BY <1>1 DEF CPUInv, WorldInv
<1>3. Between' <=> Between  BY <1>1 DEF Between
<1>4. Between \in BOOLEAN  BY DEF Between
<1>5. DataInv'  BY <1>1, <1>3, <1>4 DEF CPUInv, DataInv
<1>6. AgreeInv'
  <2>1. ~(~Between' /\ cpuQuiet')  BY <1>1, <1>3
  <2>. QED  BY <2>1 DEF AgreeInv
<1>7. SeenInv'  BY <1>1 DEF CPUInv, SeenInv, Known, Data
<1>. QED  BY <1>2, <1>5, <1>6, <1>7 DEF CPUInv

LEMMA RunStep ==
    ASSUME CPUInv, NEW cs \in SUBSET CPU, Run(cs)
    PROVE  CPUInv'
<1>1. UNCHANGED <<present, up, cpuData, existingCPUs, activeCPUs, timeout, phase, aborted, before, cpuSeen, cpuQuiet>>
  BY DEF Run, scanVars
<1>2. time \in [CPU -> Nat]  BY DEF CPUInv, WorldInv
<1>3. time' \in [CPU -> Nat]
  <2>1. CASE time' = [c \in CPU |-> time[c] + IF c \in cs THEN 1 ELSE 0]  BY <1>2, <2>1
  <2>2. CASE \E c \in cs : time[c] > 0 /\ time' = [time EXCEPT ![c] = @ - 1]  BY <1>2, <2>2
  <2>. QED  BY <2>1, <2>2 DEF Run
<1>4. WorldInv'  BY <1>1, <1>3 DEF CPUInv, WorldInv
<1>5. Between' <=> Between  BY <1>1 DEF Between
<1>6. DataInv' /\ AgreeInv' /\ SeenInv'  BY <1>1, <1>5 DEF CPUInv, DataInv, AgreeInv, SeenInv, Known, Data
<1>. QED  BY <1>4, <1>6 DEF CPUInv

-----------------------------------------------------------------------------
(* The CPUs are counted *)

LEMMA CurrExistingFacts ==
    ASSUME CPUInv
    PROVE  /\ CurrExisting \in 1 .. NCPU /\ existingCPUs <= CurrExisting
           /\ \A c \in present : c < CurrExisting
           /\ Cardinality(present) = CurrExisting => present = 0 .. CurrExisting - 1
<1>. DEFINE Sizes == {existingCPUs, Cardinality(present)} \cup {c + 1 : c \in present}
<1>1. present \in SUBSET CPU /\ 0 \in present /\ existingCPUs \in 0 .. NCPU  BY DEF CPUInv, WorldInv, DataInv
<1>2. IsFiniteSet(present) /\ Cardinality(present) \in 0 .. NCPU  BY <1>1, CPUsFinite
<1>3. \A c \in present : c \in 0 .. NCPU - 1  BY <1>1 DEF CPU
<1>4. Sizes \in SUBSET Int /\ Sizes # {} /\ \A x \in Sizes : x <= NCPU  BY <1>1, <1>2, <1>3
<1>5. existingCPUs \in Sizes /\ \A c \in present : c + 1 \in Sizes  OBVIOUS
<1>6. CurrExisting = FX!Max(Sizes)  BY DEF CurrExisting
<1>. HIDE DEF Sizes
<1>7. CurrExisting \in Sizes /\ \A y \in Sizes : CurrExisting >= y  BY <1>4, <1>6, MaxIsGreatest
<1>8. CurrExisting \in Int /\ CurrExisting <= NCPU /\ existingCPUs <= CurrExisting  BY <1>1, <1>4, <1>5, <1>7
<1>9. \A c \in present : c + 1 <= CurrExisting  BY <1>3, <1>5, <1>7, <1>8
<1>10. 0 + 1 <= CurrExisting  BY <1>1, <1>9
<1>11. ASSUME Cardinality(present) = CurrExisting PROVE present = 0 .. CurrExisting - 1
  <2>1. present \in SUBSET (0 .. CurrExisting - 1)  BY <1>3, <1>8, <1>9
  <2>2. IsFiniteSet(0 .. CurrExisting - 1) /\ Cardinality(0 .. CurrExisting - 1) = CurrExisting
    BY <1>8, <1>10, FS_Interval
  <2>. QED  BY <1>11, <2>1, <2>2, FS_Subset
<1>. QED  BY <1>3, <1>8, <1>9, <1>10, <1>11

LEMMA GrownType ==
    ASSUME CPUInv
    PROVE  /\ ZeroData \in Row
           /\ \A i \in 1 .. CurrExisting + 1 :
                 Grown[i] = (IF i <= Len(cpuData) THEN cpuData[i] ELSE ZeroData) /\ Grown[i] \in Row
<1>1. ZeroData \in Row  BY DEF ZeroData, Row, Source
<1>2. cpuData \in Seq(Row)  BY DEF CPUInv, DataInv
<1>3. ASSUME NEW i \in 1 .. CurrExisting + 1
      PROVE  (IF i <= Len(cpuData) THEN cpuData[i] ELSE ZeroData) \in Row
  <2>1. CurrExisting \in Nat  BY CurrExistingFacts
  <2>2. CASE i <= Len(cpuData)
    <3>1. i \in 1 .. Len(cpuData)  BY <1>2, <2>1, <2>2
    <3>. QED  BY <1>2, <2>2, <3>1
  <2>3. CASE ~(i <= Len(cpuData))  BY <1>1, <2>3
  <2>. QED  BY <2>2, <2>3
<1>. QED  BY <1>1, <1>3 DEF Grown

LEMMA UpdateCPUcountStep ==
    ASSUME CPUInv, LinuxProcessList_updateCPUcount
    PROVE  CPUInv'
<1>. DEFINE n == CurrExisting
            marked(d, b) == [d EXCEPT !.online = b]
            item(i) == CASE i = 1 -> marked(Grown[i], TRUE)
                         [] i - 2 \in present -> marked(Grown[i], i - 2 \in up)
                         [] OTHER -> Grown[i]
<1>1. /\ n \in 1 .. NCPU /\ existingCPUs <= n /\ \A c \in present : c < n
      /\ Cardinality(present) = n => present = 0 .. n - 1  BY CurrExistingFacts
<1>2. \A i \in 1 .. n + 1 :
         Grown[i] = (IF i <= Len(cpuData) THEN cpuData[i] ELSE ZeroData) /\ Grown[i] \in Row  BY GrownType
<1>. HIDE DEF n
<1>3. /\ UNCHANGED <<present, up, time, timeout, before, cpuSeen, cpuQuiet>>
      /\ cpuData' = [i \in 1 .. n + 1 |-> item(i)] /\ existingCPUs' = n /\ activeCPUs' = Cardinality(up)
      /\ aborted' = (Cardinality(present) # n) /\ phase' = (IF aborted' THEN phase ELSE Counting)
      /\ Between /\ ~aborted
  BY DEF LinuxProcessList_updateCPUcount, worldVars, n
<1>4. /\ present \in SUBSET CPU /\ up \in SUBSET present /\ 0 \in up /\ time \in [CPU -> Nat]
      /\ timeout \in 0 .. FreqTimeout /\ cpuQuiet \in BOOLEAN  BY DEF CPUInv, WorldInv, DataInv
<1>5. ASSUME NEW i \in 1 .. n + 1
      PROVE  /\ item(i) \in Row /\ item(i).time = Grown[i].time
             /\ i = 1 => item(i).online
             /\ i # 1 /\ i - 2 \in present => (item(i).online <=> i - 2 \in up)
  <2>1. PICK g \in Row : g = Grown[i]  BY <1>2
  <2>2. g.online \in BOOLEAN /\ g.time \in Nat /\ g.period \in Nat /\ g.frequency \in Source  BY DEF Row
  <2>3. \A b \in BOOLEAN : marked(g, b) \in Row /\ marked(g, b).time = g.time /\ (marked(g, b).online <=> b)
    BY <2>2 DEF Row
  <2>. HIDE DEF marked
  <2>4. CASE i = 1
    <3>. i - 2 \notin present  BY <1>4, <2>4 DEF CPU
    <3>1. item(i) = marked(g, TRUE)  BY <2>1, <2>4
    <3>. HIDE DEF item
    <3>. QED  BY <2>1, <2>3, <2>4, <3>1
  <2>5. CASE i # 1 /\ i - 2 \in present
    <3>1. item(i) = marked(g, i - 2 \in up)  BY <2>1, <2>5
    <3>2. (i - 2 \in up) \in BOOLEAN  OBVIOUS
    <3>. HIDE DEF item
    <3>. QED  BY <2>1, <2>3, <2>5, <3>1, <3>2
  <2>6. CASE i # 1 /\ i - 2 \notin present
    <3>1. item(i) = g  BY <2>1, <2>6
    <3>. HIDE DEF item
    <3>. QED  BY <2>1, <2>6, <3>1
  <2>. QED  BY <2>4, <2>5, <2>6
<1>6. WorldInv'  BY <1>3, <1>4 DEF WorldInv
<1>7. Counting \in {"count", "stat"} /\ phase \in {"new", "count"}  BY <1>3 DEF Counting, Between
<1>8. aborted' => Between'  BY <1>3 DEF Between
<1>. HIDE DEF item
<1>9. /\ cpuData' \in Seq(Row) /\ Len(cpuData') = n + 1
      /\ \A i \in 1 .. n + 1 : cpuData'[i] = item(i)  BY <1>1, <1>3, <1>5
<1>10. cpuData'[1].online  BY <1>1, <1>5, <1>9
<1>11. activeCPUs' \in 0 .. NCPU  BY <1>3, <1>4, CPUsFinite
<1>12. phase' \in {"new", "count", "stat", "frequency", "shown"} /\ aborted' \in BOOLEAN  BY <1>3, <1>7
<1>13. DataInv'  BY <1>1, <1>3, <1>4, <1>8, <1>9, <1>10, <1>11, <1>12 DEF DataInv
<1>14. AgreeInv'
  <2>1. SUFFICES ASSUME ~Between' PROVE {c \in Known : Data(c + 1).online}' = up' /\ activeCPUs' = Cardinality(up')
    BY DEF AgreeInv
  <2>2. ~aborted' /\ Cardinality(present) = n  BY <1>3, <1>8, <2>1
  <2>3. Known' = present  BY <1>1, <1>3, <2>2 DEF Known
  <2>4. ASSUME NEW c \in present PROVE Data(c + 1)'.online <=> c \in up
    <3>1. c + 2 \in 1 .. n + 1 /\ c + 2 # 1 /\ c + 2 - 2 = c  BY <1>1, <1>4, <2>4 DEF CPU
    <3>2. Data(c + 1)' = item(c + 2)
      <4>1. Data(c + 1)' = cpuData'[c + 2]  BY <1>4 DEF Data, CPU
      <4>. QED  BY <1>9, <3>1, <4>1
    <3>3. PICK i \in 1 .. n + 1 : i = c + 2  BY <3>1
    <3>4. i # 1 /\ i - 2 = c  BY <1>4, <3>1, <3>3 DEF CPU
    <3>5. item(i).online <=> i - 2 \in up  BY <1>5, <2>4, <3>4
    <3>. QED  BY <3>2, <3>3, <3>4, <3>5
  <2>. QED  BY <1>3, <1>4, <2>3, <2>4
<1>15. SeenInv'
  <2>1. cpuSeen \in SUBSET CPU /\ before \in [CPU -> Nat] /\ cpuSeen \subseteq Known
        /\ \A c \in cpuSeen \cap Known : Data(c + 1).time = before[c]
    BY <1>7 DEF CPUInv, SeenInv
  <2>2. Known \subseteq Known'  BY <1>1, <1>3 DEF Known, CPUInv, DataInv
  <2>3. ASSUME NEW c \in cpuSeen PROVE Data(c + 1)'.time = before[c]
    <3>1. c \in Nat /\ c < existingCPUs /\ existingCPUs \in Nat  BY <2>1, <2>3 DEF Known, CPUInv, DataInv
    <3>2. c + 2 \in 1 .. n + 1 /\ c + 2 <= Len(cpuData)  BY <1>1, <3>1 DEF CPUInv, DataInv
    <3>3. Data(c + 1)' = cpuData'[c + 2] /\ Data(c + 1) = cpuData[c + 2]  BY <3>1 DEF Data
    <3>4. Data(c + 1)'.time = Data(c + 1).time  BY <1>2, <1>5, <1>9, <3>2, <3>3
    <3>. QED  BY <2>1, <3>4
  <2>4. phase' = "new" => cpuSeen = {}  BY <1>3, <1>7 DEF CPUInv, SeenInv
  <2>. QED  BY <1>3, <2>1, <2>2, <2>3, <2>4 DEF SeenInv
<1>. QED  BY <1>6, <1>13, <1>14, <1>15 DEF CPUInv

LEMMA NoSysfsStep ==
    ASSUME CPUInv, UpdateCPUcount_NoSysfs
    PROVE  CPUInv'
<1>. DEFINE item(i) == [(IF i <= Len(cpuData) THEN cpuData[i] ELSE ZeroData) EXCEPT !.online = TRUE]
<1>1. /\ UNCHANGED <<present, up, time, timeout, aborted, before, cpuSeen>> /\ Between /\ ~aborted
      /\ cpuData' = [i \in 1 .. 2 |-> item(i)] /\ activeCPUs' = 1 /\ existingCPUs' = 1
      /\ phase' = Counting /\ cpuQuiet' = (phase = "new")
  BY DEF UpdateCPUcount_NoSysfs, worldVars
<1>2. /\ existingCPUs \in Nat /\ cpuData \in Seq(Row) /\ timeout \in 0 .. FreqTimeout
      /\ Len(cpuData) = existingCPUs + 1 \/ cpuData = <<>>  BY DEF CPUInv, DataInv
<1>3. ASSUME NEW i \in 1 .. 2
      PROVE  item(i) \in Row /\ item(i).online
             /\ (i <= Len(cpuData) => item(i).time = cpuData[i].time)
  <2>1. PICK g \in Row : g = IF i <= Len(cpuData) THEN cpuData[i] ELSE ZeroData
    <3>1. i <= Len(cpuData) => i \in 1 .. Len(cpuData)  BY <1>2
    <3>. QED  BY <1>2, <3>1, GrownType
  <2>2. g.online \in BOOLEAN /\ g.time \in Nat /\ g.period \in Nat /\ g.frequency \in Source  BY DEF Row
  <2>3. [g EXCEPT !.online = TRUE] \in Row /\ [g EXCEPT !.online = TRUE].online
        /\ [g EXCEPT !.online = TRUE].time = g.time  BY <2>2 DEF Row
  <2>4. item(i) = [g EXCEPT !.online = TRUE]  BY <2>1
  <2>. HIDE DEF item
  <2>. QED  BY <2>1, <2>3, <2>4
<1>4. WorldInv'  BY <1>1 DEF CPUInv, WorldInv
<1>5. Counting \in {"count", "stat"} /\ (phase = "new" <=> Counting = "count") /\ phase # "stat"
  BY <1>1 DEF Counting, Between
<1>. HIDE DEF item
<1>6. cpuData' \in Seq(Row) /\ Len(cpuData') = 2 /\ \A i \in 1 .. 2 : cpuData'[i] = item(i)  BY <1>1, <1>3
<1>7. DataInv'
  <2>1. 1 \in 0 .. NCPU  OBVIOUS
  <2>2. cpuData'[1].online  BY <1>3, <1>6
  <2>3. /\ phase' \in {"new", "count", "stat", "frequency", "shown"} /\ cpuQuiet' \in BOOLEAN
        /\ ~aborted' /\ aborted' \in BOOLEAN  BY <1>1, <1>5 DEF CPUInv, DataInv
  <2>4. existingCPUs' \in 0 .. NCPU /\ activeCPUs' \in 0 .. NCPU /\ existingCPUs' >= 1
        /\ timeout' \in 0 .. FreqTimeout /\ Len(cpuData') = existingCPUs' + 1  BY <1>1, <1>2, <1>6, <2>1
  <2>. QED  BY <1>6, <2>2, <2>3, <2>4 DEF DataInv
<1>8. AgreeInv'
  <2>1. ~(~Between' /\ cpuQuiet')  BY <1>1, <1>5 DEF Between
  <2>. QED  BY <2>1 DEF AgreeInv
<1>9. SeenInv'
  <2>1. /\ cpuSeen \in SUBSET CPU /\ before \in [CPU -> Nat] /\ cpuSeen \subseteq Known
        /\ \A c \in cpuSeen \cap Known : Data(c + 1).time = before[c]
    BY <1>5 DEF CPUInv, SeenInv
  <2>2. ASSUME NEW c \in cpuSeen \cap Known' PROVE Data(c + 1)'.time = before[c]
    <3>1. c = 0 /\ c < existingCPUs  BY <1>1, <1>2, <2>1 DEF Known
    <3>2. 2 <= Len(cpuData)  BY <1>2, <3>1 DEF CPUInv, DataInv
    <3>3. Data(c + 1)' = cpuData'[2] /\ Data(c + 1) = cpuData[2]  BY <3>1 DEF Data
    <3>4. Data(c + 1)'.time = Data(c + 1).time  BY <1>3, <1>6, <3>2, <3>3
    <3>. QED  BY <2>1, <3>4
  <2>3. phase' # "new" /\ (phase' # "stat" => cpuSeen = {})  BY <1>1, <1>5 DEF CPUInv, SeenInv, Between
  <2>. QED  BY <1>1, <2>1, <2>2, <2>3 DEF SeenInv
<1>. QED  BY <1>4, <1>7, <1>8, <1>9 DEF CPUInv

-----------------------------------------------------------------------------
(* The files are read *)

\* What a step does that only fills in the array.
LEMMA ReadingStep ==
    ASSUME CPUInv, ~Between, ~Between', ~aborted,
           UNCHANGED <<present, up, time, existingCPUs, activeCPUs, aborted, cpuQuiet>>,
           timeout' \in 0 .. FreqTimeout, phase' \in {"stat", "frequency", "shown"},
           cpuData' \in Seq(Row), Len(cpuData') = existingCPUs + 1,
           cpuData'[1].online,
           cpuQuiet => \A c \in Known : cpuData'[c + 2].online <=> cpuData[c + 2].online
    PROVE  WorldInv' /\ DataInv' /\ AgreeInv'
<1>1. WorldInv'  BY DEF CPUInv, WorldInv
<1>2. existingCPUs \in 0 .. NCPU /\ existingCPUs >= 1 /\ activeCPUs \in 0 .. NCPU /\ cpuQuiet \in BOOLEAN
  BY DEF CPUInv, DataInv
<1>3. DataInv'
  <2>1. existingCPUs' \in 0 .. NCPU /\ activeCPUs' \in 0 .. NCPU /\ existingCPUs' >= 1
        /\ Len(cpuData') = existingCPUs' + 1  BY <1>2
  <2>2. ~aborted' /\ aborted' \in BOOLEAN /\ cpuQuiet' \in BOOLEAN  BY <1>2 DEF CPUInv, DataInv
  <2>3. phase' \in {"new", "count", "stat", "frequency", "shown"}  OBVIOUS
  <2>. QED  BY <2>1, <2>2, <2>3 DEF DataInv
<1>4. AgreeInv'
  <2>1. SUFFICES ASSUME cpuQuiet PROVE {c \in Known : Data(c + 1).online}' = up' /\ activeCPUs' = Cardinality(up')
    BY DEF AgreeInv
  <2>2. {c \in Known : Data(c + 1).online} = up /\ activeCPUs = Cardinality(up)  BY <2>1 DEF CPUInv, AgreeInv
  <2>3. Known' = Known /\ Known \subseteq Nat  BY <1>2 DEF Known
  <2>4. \A c \in Known : Data(c + 1)'.online <=> Data(c + 1).online  BY <2>1, <2>3 DEF Data
  <2>. QED  BY <2>2, <2>3, <2>4
<1>. QED  BY <1>1, <1>3, <1>4

LEMMA NewDataFacts ==
    ASSUME CPUInv, phase = "stat", NEW i \in 1 .. existingCPUs + 1
    PROVE  /\ NewData(i) \in Row
           /\ i = 1 => NewData(i).online
           /\ i # 1 /\ cpuQuiet => (NewData(i).online <=> cpuData[i].online)
           /\ i - 2 \in ReadCPUs => /\ NewData(i).time = time[i - 2]
                                    /\ NewData(i).period = saturatingSub(time[i - 2], cpuData[i].time)
<1>1. /\ existingCPUs \in Nat /\ existingCPUs >= 1 /\ cpuData \in Seq(Row)
      /\ Len(cpuData) = existingCPUs + 1 /\ cpuData[1].online
  BY DEF CPUInv, DataInv, Between
<1>2. time \in [CPU -> Nat] /\ up \subseteq CPU  BY DEF CPUInv, WorldInv
<1>3. PICK d \in Row : d = cpuData[i]  BY <1>1
<1>4. d.online \in BOOLEAN /\ d.time \in Nat /\ d.period \in Nat /\ d.frequency \in Source  BY <1>3 DEF Row
<1>5. ASSUME NEW now \in Nat
      PROVE  /\ CPUCounted(d, now) \in Row /\ (CPUCounted(d, now).online <=> d.online)
             /\ CPUCounted(d, now).time = now
             /\ CPUCounted(d, now).period = saturatingSub(now, d.time)
  <2>1. saturatingSub(now, d.time) \in Nat  BY <1>4 DEF saturatingSub
  <2>. QED  BY <1>4, <2>1 DEF CPUCounted, Row
<1>6. CASE i = 1
  <2>1. i - 2 \notin CPU  BY <1>6 DEF CPU
  <2>2. i - 2 \notin ReadCPUs  BY <1>2, <2>1 DEF ReadCPUs
  <2>3. i - 2 \notin Known  BY <1>6 DEF Known
  <2>4. i - 2 \notin Skipped  BY <2>3 DEF Skipped
  <2>5. NewData(i) = CPUCounted(d, TotalTime(time))  BY <1>3, <1>6, <2>2, <2>4 DEF NewData
  <2>. QED  BY <1>1, <1>2, <1>3, <1>5, <1>6, <2>2, <2>5, TotalTimeType
<1>7. CASE i # 1 /\ i - 2 \in ReadCPUs
  <2>. i - 2 \notin Skipped  BY <1>7 DEF Skipped
  <2>1. NewData(i) = CPUCounted(d, time[i - 2])  BY <1>3, <1>7 DEF NewData
  <2>2. time[i - 2] \in Nat  BY <1>2, <1>7 DEF ReadCPUs
  <2>. QED  BY <1>3, <1>5, <1>7, <2>1, <2>2
<1>8. CASE i # 1 /\ i - 2 \notin ReadCPUs /\ i - 2 \in Skipped
  <2>1. NewData(i) = ZeroData  BY <1>8 DEF NewData
  <2>2. ZeroData \in Row /\ ~ZeroData.online  BY DEF ZeroData, Row, Source
  <2>3. ASSUME cpuQuiet PROVE ~cpuData[i].online
    <3>1. i - 2 \in Known /\ i - 2 \notin up  BY <1>1, <1>8 DEF Skipped, ReadCPUs, Known
    <3>2. Data(i - 2 + 1) = cpuData[i]  BY <1>1 DEF Data
    <3>. QED  BY <2>3, <3>1, <3>2 DEF CPUInv, AgreeInv, Between
  <2>. QED  BY <1>8, <2>1, <2>2, <2>3
<1>9. CASE i # 1 /\ i - 2 \notin ReadCPUs /\ i - 2 \notin Skipped
  <2>1. NewData(i) = d  BY <1>3, <1>9 DEF NewData
  <2>. QED  BY <1>3, <1>9, <2>1
<1>. QED  BY <1>6, <1>7, <1>8, <1>9

LEMMA ScanCPUTimeStep ==
    ASSUME CPUInv, LinuxProcessList_scanCPUTime
    PROVE  /\ CPUInv'
           /\ \A c \in ReadCPUs \cap cpuSeen : cpuData'[c + 2].period = FX!Max({0, time[c] - before[c]})
<1>1. /\ phase = "stat" /\ ~aborted /\ phase' \in {"frequency", "shown"}
      /\ UNCHANGED <<present, up, time, existingCPUs, activeCPUs, timeout, aborted, cpuQuiet>>
      /\ cpuData' = [i \in 1 .. existingCPUs + 1 |-> NewData(i)]
      /\ before' = [c \in CPU |-> IF c \in ReadCPUs THEN time[c] ELSE 0] /\ cpuSeen' = ReadCPUs
  BY DEF LinuxProcessList_scanCPUTime, worldVars
<1>2. ~Between /\ ~Between'  BY <1>1 DEF Between
<1>3. /\ existingCPUs \in Nat /\ existingCPUs >= 1 /\ timeout \in 0 .. FreqTimeout
      /\ time \in [CPU -> Nat] /\ up \subseteq CPU  BY <1>2 DEF CPUInv, DataInv, WorldInv
<1>4. \A i \in 1 .. existingCPUs + 1 : NewData(i) \in Row  BY <1>1, NewDataFacts
<1>5. /\ cpuData' \in Seq(Row) /\ Len(cpuData') = existingCPUs + 1
      /\ \A i \in 1 .. existingCPUs + 1 : cpuData'[i] = NewData(i)  BY <1>1, <1>3, <1>4
<1>6. \A c \in Known : c \in Nat /\ c + 2 \in 1 .. existingCPUs + 1 /\ c + 2 # 1 /\ c + 2 - 2 = c
  BY <1>3 DEF Known
<1>7. ReadCPUs \subseteq Known /\ ReadCPUs \subseteq CPU
  <2>1. ASSUME NEW c \in ReadCPUs PROVE c \in Known /\ c \in CPU  BY <1>3 DEF ReadCPUs, Known, CPU
  <2>. QED  BY <2>1
<1>8. WorldInv' /\ DataInv' /\ AgreeInv'
  <2>1. cpuData'[1].online  BY <1>1, <1>3, <1>5, NewDataFacts
  <2>2. ASSUME NEW c \in Known, cpuQuiet PROVE cpuData'[c + 2].online <=> cpuData[c + 2].online
    BY <1>1, <1>5, <1>6, <2>2, NewDataFacts
  <2>. QED  BY <1>1, <1>2, <1>3, <1>5, <2>1, <2>2, ReadingStep
<1>9. SeenInv'
  <2>1. \A c \in ReadCPUs : Data(c + 1)' = cpuData'[c + 2]  BY <1>6, <1>7 DEF Data
  <2>2. ASSUME NEW c \in ReadCPUs PROVE Data(c + 1)'.time = time[c]
    <3>1. PICK i \in 1 .. existingCPUs + 1 : i = c + 2 /\ i - 2 = c  BY <1>6, <1>7
    <3>2. NewData(i).time = time[c]  BY <1>1, <3>1, NewDataFacts
    <3>. QED  BY <1>5, <2>1, <3>1, <3>2
  <2>3. before' \in [CPU -> Nat] /\ \A c \in ReadCPUs : before'[c] = time[c]  BY <1>1, <1>3, <1>7
  <2>4. Known' = Known  BY <1>1 DEF Known
  <2>. QED  BY <1>1, <1>7, <2>2, <2>3, <2>4 DEF SeenInv
<1>10. ASSUME NEW c \in ReadCPUs \cap cpuSeen
       PROVE  cpuData'[c + 2].period = FX!Max({0, time[c] - before[c]})
  <2>1. Data(c + 1).time = before[c] /\ before[c] \in Nat  BY <1>7 DEF CPUInv, SeenInv
  <2>2. cpuData[c + 2].time = before[c]  BY <1>6, <1>7, <2>1 DEF Data
  <2>3. cpuData'[c + 2].period = saturatingSub(time[c], before[c])  BY <1>1, <1>5, <1>6, <1>7, <2>2, NewDataFacts
  <2>4. time[c] \in Nat  BY <1>3, <1>7
  <2>5. FX!Max({0, time[c] - before[c]}) = IF time[c] > before[c] THEN time[c] - before[c] ELSE 0
    <3>. DEFINE S == {0, time[c] - before[c]}
                m == FX!Max(S)
    <3>1. PICK b \in Int : b = time[c]  BY <2>4
    <3>2. S \in SUBSET Int /\ S # {} /\ \A x \in S : x <= b  BY <2>1, <2>4, <3>1
    <3>3. m \in S /\ \A y \in S : m >= y
      <4>. HIDE DEF S
      <4>. QED  BY <3>2, MaxIsGreatest
    <3>. HIDE DEF m
    <3>4. m = IF time[c] > before[c] THEN time[c] - before[c] ELSE 0  BY <2>1, <2>4, <3>3
    <3>. QED  BY <3>4 DEF m
  <2>. QED  BY <2>3, <2>5 DEF saturatingSub
<1>. QED  BY <1>8, <1>9, <1>10 DEF CPUInv

LEMMA RowsAreSeq ==
    ASSUME NEW n \in Nat, NEW f \in [1 .. n -> Row]
    PROVE  f \in Seq(Row) /\ Len(f) = n
OBVIOUS

\* Frequencies are written into the array and nothing else is.
LEMMA FrequencyStep ==
    ASSUME CPUInv, phase = "frequency", phase' = "shown", ~aborted,
           UNCHANGED <<worldVars, existingCPUs, activeCPUs, aborted, before, cpuSeen, cpuQuiet>>,
           timeout' \in 0 .. FreqTimeout,
           NEW from \in [1 .. existingCPUs + 1 -> Source],
           cpuData' = [i \in 1 .. existingCPUs + 1 |-> [cpuData[i] EXCEPT !.frequency = from[i]]]
    PROVE  CPUInv' /\ \A i \in 1 .. existingCPUs + 1 : cpuData'[i].frequency = from[i]
<1>. DEFINE item(i) == [cpuData[i] EXCEPT !.frequency = from[i]]
<1>1. /\ existingCPUs \in Nat /\ existingCPUs >= 1 /\ cpuData \in Seq(Row)
      /\ Len(cpuData) = existingCPUs + 1 /\ cpuData[1].online
  BY DEF CPUInv, DataInv, Between
<1>2. ASSUME NEW i \in 1 .. existingCPUs + 1
      PROVE  /\ item(i) \in Row /\ item(i).frequency = from[i] /\ item(i).time = cpuData[i].time
             /\ item(i).online <=> cpuData[i].online
  <2>1. PICK d \in Row : d = cpuData[i]  BY <1>1
  <2>2. d.online \in BOOLEAN /\ d.time \in Nat /\ d.period \in Nat /\ d.frequency \in Source  BY <2>1 DEF Row
  <2>3. PICK f \in Source : f = from[i]  OBVIOUS
  <2>4. item(i) = [d EXCEPT !.frequency = f]  BY <2>1, <2>3
  <2>5. [d EXCEPT !.frequency = f] \in Row /\ [d EXCEPT !.frequency = f].frequency = f
        /\ [d EXCEPT !.frequency = f].time = d.time /\ ([d EXCEPT !.frequency = f].online <=> d.online)
    BY <2>2 DEF Row
  <2>. HIDE DEF item
  <2>. QED  BY <2>1, <2>3, <2>4, <2>5
<1>3. cpuData' = [i \in 1 .. existingCPUs + 1 |-> item(i)]  OBVIOUS
<1>. HIDE DEF item
<1>4. /\ cpuData' \in Seq(Row) /\ Len(cpuData') = existingCPUs + 1
      /\ \A i \in 1 .. existingCPUs + 1 : cpuData'[i] = item(i)
  <2>1. cpuData' \in [1 .. existingCPUs + 1 -> Row]  BY <1>2, <1>3
  <2>. QED  BY <1>1, <1>3, <2>1, RowsAreSeq
<1>5. \A c \in Known : c \in Nat /\ c + 2 \in 1 .. existingCPUs + 1  BY <1>1 DEF Known
<1>6. ~Between /\ ~Between'  BY DEF Between
<1>7. WorldInv' /\ DataInv' /\ AgreeInv'
  <2>1. cpuData'[1].online  BY <1>1, <1>2, <1>4
  <2>2. \A c \in Known : cpuData'[c + 2].online <=> cpuData[c + 2].online
    <3>1. ASSUME NEW c \in Known PROVE cpuData'[c + 2].online <=> cpuData[c + 2].online
      <4>1. PICK i \in 1 .. existingCPUs + 1 : i = c + 2  BY <1>5
      <4>2. cpuData'[i].online <=> cpuData[i].online  BY <1>2, <1>4
      <4>. QED  BY <4>1, <4>2
    <3>. QED  BY <3>1
  <2>3. UNCHANGED <<present, up, time, existingCPUs, activeCPUs, aborted, cpuQuiet>>  BY DEF worldVars
  <2>. QED  BY <1>4, <1>6, <2>1, <2>2, <2>3, ReadingStep
<1>8. SeenInv'
  <2>1. /\ cpuSeen \in SUBSET CPU /\ before \in [CPU -> Nat] /\ cpuSeen \subseteq Known
        /\ \A c \in cpuSeen \cap Known : Data(c + 1).time = before[c]  BY DEF CPUInv, SeenInv
  <2>2. ASSUME NEW c \in Known PROVE Data(c + 1)'.time = Data(c + 1).time
    <3>1. PICK i \in 1 .. existingCPUs + 1 : i = c + 2  BY <1>5
    <3>2. cpuData'[i].time = cpuData[i].time  BY <1>2, <1>4
    <3>3. Data(c + 1) = cpuData[i] /\ Data(c + 1)' = cpuData'[i]  BY <1>5, <3>1 DEF Data
    <3>. QED  BY <3>2, <3>3
  <2>3. Known' = Known  BY DEF Known
  <2>. QED  BY <2>1, <2>2, <2>3 DEF SeenInv
<1>. QED  BY <1>2, <1>4, <1>7, <1>8 DEF CPUInv

\* What is promised of the frequencies once they are read.
FrequenciesTrue ==
    LET showing(from) == {c \in Known : cpuData'[c + 2].frequency \in from}
        average == cpuData'[1].frequency
    IN /\ cpuQuiet => showing({"sysfs", "cpuinfo"}) \subseteq up
       /\ average # "none" <=> averaged' # {}
       /\ averaged' \subseteq showing({"sysfs", "cpuinfo"}) /\ showing({average} \ {"none"}) \subseteq averaged'
       /\ average = "sysfs" => showing({"cpuinfo"}) = {}

\* While nothing changed, htop takes exactly the CPUs that are up for online.
LEMMA OnlineIsUp ==
    ASSUME CPUInv, phase = "frequency"
    PROVE  /\ existingCPUs \in Nat /\ existingCPUs >= 1 /\ -1 \notin Known
           /\ \A c \in Known : c \in Nat /\ c + 2 \in 1 .. existingCPUs + 1 /\ (c + 2) - 2 = c
           /\ cpuQuiet => {c \in Known : Data(c + 1).online} = up /\ up \subseteq Known
<1>1. existingCPUs \in Nat /\ existingCPUs >= 1  BY DEF CPUInv, DataInv, Between
<1>2. -1 \notin Known /\ \A c \in Known : c \in Nat /\ c + 2 \in 1 .. existingCPUs + 1 /\ (c + 2) - 2 = c
  BY <1>1 DEF Known
<1>3. cpuQuiet => {c \in Known : Data(c + 1).online} = up  BY DEF CPUInv, AgreeInv, Between
<1>. QED  BY <1>1, <1>2, <1>3

\* What is written: of the CPUs read, of those named, and of the average.
LEMMA WithFrequencyStep ==
    ASSUME CPUInv, NEW read \in SUBSET Known, NEW named \in SUBSET Known, NEW average \in Source,
           cpuData' = WithFrequency(read, named, average),
           phase = "frequency", phase' = "shown", ~aborted, timeout' \in 0 .. FreqTimeout,
           UNCHANGED <<worldVars, existingCPUs, activeCPUs, aborted, before, cpuSeen, cpuQuiet>>
    PROVE  /\ CPUInv' /\ cpuData'[1].frequency = average
           /\ \A c \in read : cpuData'[c + 2].frequency = "sysfs"
           /\ \A c \in named \ read : cpuData'[c + 2].frequency = "cpuinfo"
           /\ \A c \in Known \ (read \cup named) : cpuData'[c + 2].frequency = "none"
<1>. DEFINE from(i) == CASE i - 2 \in read -> "sysfs" [] i - 2 \in named \ read -> "cpuinfo"
                         [] i = 1 -> average [] OTHER -> "none"
<1>1. cpuData' = [i \in 1 .. existingCPUs + 1 |-> [cpuData[i] EXCEPT !.frequency = from(i)]]
  BY DEF WithFrequency
<1>2. -1 \notin read /\ -1 \notin named  BY OnlineIsUp
<1>3. \A i \in 1 .. existingCPUs + 1 :
         /\ i = 1 => from(i) = average
         /\ i - 2 \in read => from(i) = "sysfs"
         /\ i - 2 \in named \ read => from(i) = "cpuinfo"
         /\ i # 1 /\ i - 2 \notin read \cup named => from(i) = "none"
  <2>1. ASSUME NEW i \in 1 .. existingCPUs + 1, i = 1 PROVE i - 2 = -1  BY <2>1
  <2>. QED  BY <1>2, <2>1
<1>4. \A i \in 1 .. existingCPUs + 1 : from(i) \in Source
  <2>1. "sysfs" \in Source /\ "cpuinfo" \in Source /\ "none" \in Source  BY DEF Source
  <2>. HIDE DEF from
  <2>. QED  BY <1>3, <2>1
<1>. HIDE DEF from
<1>5. CPUInv' /\ \A i \in 1 .. existingCPUs + 1 : cpuData'[i].frequency = from(i)
  <2>1. PICK F \in [1 .. existingCPUs + 1 -> Source] : \A i \in 1 .. existingCPUs + 1 : F[i] = from(i)
    <3>. DEFINE F == [i \in 1 .. existingCPUs + 1 |-> from(i)]
    <3>1. F \in [1 .. existingCPUs + 1 -> Source] /\ \A i \in 1 .. existingCPUs + 1 : F[i] = from(i)  BY <1>4
    <3>. QED  BY <3>1
  <2>2. cpuData' = [i \in 1 .. existingCPUs + 1 |-> [cpuData[i] EXCEPT !.frequency = F[i]]]  BY <1>1, <2>1
  <2>. QED  BY <2>1, <2>2, FrequencyStep
<1>6. cpuData'[1].frequency = average
  <2>1. 1 \in 1 .. existingCPUs + 1  BY OnlineIsUp
  <2>. QED  BY <1>3, <1>5, <2>1
<1>7. ASSUME NEW c \in Known
      PROVE  /\ c \in read => cpuData'[c + 2].frequency = "sysfs"
             /\ c \in named \ read => cpuData'[c + 2].frequency = "cpuinfo"
             /\ c \notin read \cup named => cpuData'[c + 2].frequency = "none"
  <2>1. PICK i \in 1 .. existingCPUs + 1 : i = c + 2 /\ i - 2 = c /\ i # 1  BY OnlineIsUp
  <2>2. cpuData'[i].frequency = from(i)  BY <1>5
  <2>. QED  BY <1>3, <2>1, <2>2
<1>. QED  BY <1>5, <1>6, <1>7

LEMMA FrequencyFromSysfsStep ==
    ASSUME CPUInv, FrequencyFromSysfs
    PROVE  CPUInv' /\ FrequenciesTrue
<1>1. /\ phase = "frequency" /\ phase' = "shown" /\ ~aborted /\ timeout = 0 /\ Asked \subseteq up
      /\ UNCHANGED <<worldVars, existingCPUs, activeCPUs, timeout, aborted, before, cpuSeen, cpuQuiet>>
  BY DEF FrequencyFromSysfs
<1>2. PICK read \in SUBSET Asked :
         /\ cpuData' = WithFrequency(read, {}, IF read = {} THEN "none" ELSE "sysfs")
         /\ averaged' = read
  BY DEF FrequencyFromSysfs
<1>. DEFINE average == IF read = {} THEN "none" ELSE "sysfs"
<1>3. read \in SUBSET Known /\ read \subseteq up  BY <1>1 DEF Asked
<1>4. average \in Source /\ (average = "none" <=> read = {}) /\ (average = "sysfs" <=> read # {})  BY DEF Source
<1>5. timeout' \in 0 .. FreqTimeout  BY <1>1 DEF CPUInv, DataInv
<1>6. cpuData' = WithFrequency(read, {}, average)  BY <1>2
<1>. HIDE DEF average
<1>7. /\ CPUInv' /\ cpuData'[1].frequency = average
      /\ \A c \in read : cpuData'[c + 2].frequency = "sysfs"
      /\ \A c \in Known \ read : cpuData'[c + 2].frequency = "none"
  <2>1. {} \in SUBSET Known  OBVIOUS
  <2>. QED  BY <1>1, <1>3, <1>4, <1>5, <1>6, <2>1, WithFrequencyStep
<1>8. FrequenciesTrue  BY <1>2, <1>3, <1>4, <1>7 DEF FrequenciesTrue
<1>. QED  BY <1>7, <1>8

LEMMA FrequencyFromCPUinfoStep ==
    ASSUME CPUInv, FrequencyFromCPUinfo
    PROVE  CPUInv' /\ FrequenciesTrue
<1>1. /\ phase = "frequency" /\ phase' = "shown" /\ ~aborted
      /\ UNCHANGED <<worldVars, existingCPUs, activeCPUs, aborted, before, cpuSeen, cpuQuiet>>
  BY DEF FrequencyFromCPUinfo
<1>2. PICK read \in SUBSET (Asked \cap up), named \in SUBSET (Known \cap up) :
         /\ \/ timeout > 0 /\ timeout' = timeout - 1
            \/ timeout' = FreqTimeout
            \/ UNCHANGED timeout
         /\ cpuData' = WithFrequency(read, named, IF named = {} THEN "none" ELSE "cpuinfo")
         /\ averaged' = named
  BY DEF FrequencyFromCPUinfo
<1>. DEFINE average == IF named = {} THEN "none" ELSE "cpuinfo"
<1>3. read \in SUBSET Known /\ named \in SUBSET Known /\ read \subseteq up /\ named \subseteq up  BY DEF Asked
<1>4. average \in Source /\ (average = "none" <=> named = {}) /\ (average = "cpuinfo" <=> named # {})
      /\ average # "sysfs"
  BY DEF Source
<1>5. timeout' \in 0 .. FreqTimeout
  <2>1. timeout \in 0 .. FreqTimeout  BY DEF CPUInv, DataInv
  <2>. QED  BY <1>2, <2>1
<1>6. cpuData' = WithFrequency(read, named, average)  BY <1>2
<1>. HIDE DEF average
<1>7. /\ CPUInv' /\ cpuData'[1].frequency = average
      /\ \A c \in read : cpuData'[c + 2].frequency = "sysfs"
      /\ \A c \in named \ read : cpuData'[c + 2].frequency = "cpuinfo"
      /\ \A c \in Known \ (read \cup named) : cpuData'[c + 2].frequency = "none"
  BY <1>1, <1>3, <1>4, <1>5, <1>6, WithFrequencyStep
<1>8. FrequenciesTrue  BY <1>2, <1>3, <1>4, <1>7 DEF FrequenciesTrue
<1>. QED  BY <1>7, <1>8

-----------------------------------------------------------------------------
(* The CPUs: the theorem *)

LEMMA OtherCPUSteps ==
    ASSUME CPUInv, Delay \/ UNCHANGED linuxVars
    PROVE  CPUInv'
<1>1. CASE Delay
  <2>1. /\ UNCHANGED <<present, up, time, cpuData, existingCPUs, activeCPUs, timeout, aborted, before, cpuSeen>>
        /\ phase = "shown" /\ phase' = "count" /\ cpuQuiet' = TRUE  BY <1>1 DEF Delay, worldVars, scanVars
  <2>2. ~Between /\ Between'  BY <2>1 DEF Between
  <2>3. WorldInv' /\ AgreeInv'  BY <2>1, <2>2 DEF CPUInv, WorldInv, AgreeInv
  <2>4. DataInv'  BY <2>1, <2>2 DEF CPUInv, DataInv
  <2>5. SeenInv'  BY <2>1 DEF CPUInv, SeenInv, Known, Data
  <2>. QED  BY <2>3, <2>4, <2>5 DEF CPUInv
<1>2. CASE UNCHANGED linuxVars
  <2>1. UNCHANGED <<present, up, time, cpuData, existingCPUs, activeCPUs, timeout, phase, aborted, before, cpuSeen, cpuQuiet>>
    BY <1>2 DEF linuxVars, worldVars, scanVars
  <2>. QED  BY <2>1 DEF CPUInv, WorldInv, DataInv, AgreeInv, SeenInv, Between, Known, Data
<1>. QED  BY <1>1, <1>2

\* What a step promises besides the invariant.
CPUStepTrue ==
    /\ LinuxProcessList_scanCPUTime =>
          \A c \in ReadCPUs \cap cpuSeen : cpuData'[c + 2].period = FX!Max({0, time[c] - before[c]})
    /\ phase = "frequency" /\ phase' = "shown" => FrequenciesTrue

LEMMA CPUStep == CPUInv /\ [LinuxNext]_linuxVars => CPUInv' /\ CPUStepTrue
<1>. SUFFICES ASSUME CPUInv, [LinuxNext]_linuxVars PROVE CPUInv' /\ CPUStepTrue  OBVIOUS
<1>1. LinuxProcessList_scanCPUTime => CPUInv' /\
          \A c \in ReadCPUs \cap cpuSeen : cpuData'[c + 2].period = FX!Max({0, time[c] - before[c]})
  BY ScanCPUTimeStep
<1>2. FrequencyFromSysfs \/ FrequencyFromCPUinfo => CPUInv' /\ FrequenciesTrue
  BY FrequencyFromSysfsStep, FrequencyFromCPUinfoStep
<1>3. ASSUME NEW c \in CPU, Online(c) \/ Offline(c) \/ Plug(c) \/ Unplug(c)
      PROVE  CPUInv' /\ phase' = phase
  <2>1. present \in SUBSET CPU /\ up \in SUBSET present /\ 0 \in up  BY DEF CPUInv, WorldInv
  <2>2. PICK P \in SUBSET CPU, U \in SUBSET CPU : U \in SUBSET P /\ 0 \in U /\ Change(P, U)
    <3>1. CASE Online(c)
      <4>1. up \cup {c} \in SUBSET present /\ Change(present, up \cup {c})  BY <2>1, <3>1 DEF Online
      <4>. QED  BY <2>1, <4>1
    <3>2. CASE Offline(c)
      <4>1. up \ {c} \in SUBSET present /\ 0 \in up \ {c} /\ Change(present, up \ {c})
        BY <2>1, <3>2 DEF Offline
      <4>. QED  BY <2>1, <4>1
    <3>3. CASE Plug(c)
      <4>1. up \in SUBSET (present \cup {c}) /\ Change(present \cup {c}, up)  BY <2>1, <3>3 DEF Plug
      <4>. QED  BY <2>1, <4>1
    <3>4. CASE Unplug(c)
      <4>1. up \in SUBSET (present \ {c}) /\ Change(present \ {c}, up)  BY <2>1, <3>4 DEF Unplug
      <4>. QED  BY <2>1, <4>1
    <3>. QED  BY <1>3, <3>1, <3>2, <3>3, <3>4
  <2>. QED  BY <2>2, ChangeStep DEF Change
<1>4. ASSUME NEW cs \in SUBSET CPU, Run(cs) PROVE CPUInv' /\ phase' = phase  BY <1>4, RunStep DEF Run
<1>5. LinuxProcessList_updateCPUcount \/ UpdateCPUcount_NoSysfs => CPUInv' /\ phase # "frequency"
  BY UpdateCPUcountStep, NoSysfsStep DEF LinuxProcessList_updateCPUcount, UpdateCPUcount_NoSysfs, Between
<1>6. LinuxProcessList_scanCPUTime => phase # "frequency"  BY DEF LinuxProcessList_scanCPUTime
<1>7. Delay \/ Aborted \/ UNCHANGED linuxVars => CPUInv' /\ ~(phase = "frequency" /\ phase' = "shown")
  BY OtherCPUSteps DEF Delay, Aborted, linuxVars
<1>8. CPUInv'  BY <1>1, <1>2, <1>3, <1>4, <1>5, <1>7 DEF LinuxNext
<1>9. CPUStepTrue
  <2>1. SUFFICES ASSUME phase = "frequency", phase' = "shown" PROVE FrequenciesTrue
    BY <1>1 DEF CPUStepTrue
  <2>. QED  BY <1>2, <1>3, <1>4, <1>5, <1>6, <1>7, <2>1 DEF LinuxNext
<1>. QED  BY <1>8, <1>9

\* Whatever CPUs come, go and are switched while htop reads one file after the
\* other: what it shows of those that stayed is theirs, which are online, what
\* each did since the last scan, a frequency of this scan if its file could be
\* opened and read, and an average of CPUs that show theirs.
THEOREM CPUsAreTrue == LinuxSpec => CPUsTrue
<1>1. LinuxInit => CPUInv  BY InitCPUInv
<1>2. CPUInv /\ [LinuxNext]_linuxVars => CPUInv'  BY CPUStep
<1>3. CPUInv => OnlineAgrees  BY InvTypeOK
<1>4. CPUInv /\ [LinuxNext]_linuxVars =>
         /\ [LinuxProcessList_scanCPUTime =>
               \A c \in ReadCPUs \cap cpuSeen : cpuData'[c + 2].period = FX!Max({0, time[c] - before[c]})]_linuxVars
         /\ [phase = "frequency" /\ phase' = "shown" => FrequenciesTrue]_linuxVars
  BY CPUStep DEF CPUStepTrue
<1>5. LinuxSpec => FrequenciesFresh
  BY <1>1, <1>2, <1>4, PTL DEF LinuxSpec, FrequenciesFresh, FrequenciesTrue
<1>6. LinuxSpec => []OnlineAgrees /\ TimesFresh  BY <1>1, <1>2, <1>3, <1>4, PTL DEF LinuxSpec, TimesFresh
<1>. QED  BY <1>5, <1>6 DEF CPUsTrue, ReadingsFresh

-----------------------------------------------------------------------------
(* Memory *)

Figures == {"active", "free", "wired", "arc", "buffers", "cache", "cached", "shared", "slab", "hugeTotal", "hugeFree"}
Sources == {"meminfo", "nr_hugepages", "free_hugepages", "arc", "zram", "fetch", "active", "wired", "buffers",
            "cache", "uvmexp", "bcachestats", "all"}

\* What the scan has read of a figure, or would read now.
Cur(n) == IF n \in DOMAIN got THEN got[n] ELSE Numbers[n]

\* Every page is in one use.
PagesInv ==
    /\ machine \in AllMemorySystems
    /\ use \in [Uses -> Nat] /\ InUse + use["free"] = Pages
    /\ huge \in [used : 0 .. 1, free : 0 .. 1] /\ disks \in SUBSET (0 .. 1)
    /\ moves \in Nat /\ moved \in Nat /\ memStage \in {"idle", "read", "shown"}

\* What is still to be read is not read yet, and each reading of the system has
\* been made or is still to be made.
ReadInv ==
    memStage # "idle" =>
        /\ toRead \in Seq(Sources) /\ (memStage = "shown" => toRead = <<>>)
        /\ DOMAIN got \subseteq DOMAIN Numbers
        /\ \A i \in DOMAIN toRead : Told(toRead[i]) \cap DOMAIN got = {}
        /\ \A i, j \in DOMAIN toRead : i # j => Told(toRead[i]) \cap Told(toRead[j]) = {}
        /\ \A i \in DOMAIN ReadsOf :
              Told(ReadsOf[i]) \subseteq DOMAIN got \/ \E j \in DOMAIN toRead : toRead[j] = ReadsOf[i]

\* The pages counted so far are those there are, to the pages that moved:
\* by the systems that read them one by one,
BSDCounted ==
    /\ machine \in {"freebsd", "dragonfly"} =>
          Cur("active") + Cur("wired") + Cur("buffers") + Cur("cache") - InUse \in -moved .. moved
    /\ machine = "freebsd" => Cur("wired") - Cur("arc") >= -moved
    /\ machine = "openbsd" => Cur("free") + Cur("buffers") + Cur("cache") <= Pages + moved

\* by Linux, where the cache of ZFS is read after the others,
LinuxCounted ==
    machine = "linux" =>
        /\ Cur("free") + Cur("cached") + Cur("slab") + Cur("buffers") <= Pages
        /\ Cur("free") + Cur("cached") + Cur("slab") + Cur("buffers") + Cur("arc") <= Pages + moved
        /\ Cur("shared") <= Cur("cached")

\* and by those that read all at once.
OnceCounted ==
    machine \in {"pcp", "netbsd", "solaris", "darwin"} =>
        /\ Cur("active") + Cur("wired") + Cur("buffers") + Cur("cache") + Cur("free") = Pages
        /\ Cur("cached") = Cur("cache") + Cur("shared")
        /\ Cur("shared") <= Cur("active") /\ Cur("arc") + Cur("slab") <= Cur("wired")

CountedInv ==
    memStage # "idle" =>
        /\ \A n \in Figures : Cur(n) \in Nat
        /\ Cur("free") - use["free"] \in -moved .. moved
        /\ BSDCounted /\ LinuxCounted /\ OnceCounted
        /\ moved = 0 => \A n \in DOMAIN got : got[n] = Numbers[n]

MemoryInv == PagesInv /\ ReadInv /\ CountedInv

\* The figures, one by one.
NumbersAre ==
    /\ DOMAIN Numbers = Figures \cup {"disks"}
    /\ \A n \in Figures : Numbers[n] \in Nat
    /\ Numbers["active"] = use["program"] + use["shared"] /\ Numbers["free"] = use["free"]
    /\ Numbers["wired"] = use["kernel"] + use["arc"] + use["slab"] /\ Numbers["arc"] = use["arc"]
    /\ Numbers["buffers"] = use["buffers"] /\ Numbers["cache"] = use["file"]
    /\ Numbers["cached"] = use["file"] + use["shared"] /\ Numbers["shared"] = use["shared"]
    /\ Numbers["slab"] = use["slab"] /\ Numbers["disks"] = disks
    /\ Numbers["hugeTotal"] = huge.used + huge.free /\ Numbers["hugeFree"] = huge.free

LEMMA NumbersFacts == PagesInv => NumbersAre
<1>. SUFFICES ASSUME PagesInv PROVE NumbersAre
  OBVIOUS
<1>1. \A u \in Uses : use[u] \in Nat  BY DEF PagesInv
<1>2. huge.used \in Nat /\ huge.free \in Nat  BY DEF PagesInv
<1>3. /\ use["program"] \in Nat /\ use["shared"] \in Nat /\ use["free"] \in Nat /\ use["kernel"] \in Nat
      /\ use["arc"] \in Nat /\ use["slab"] \in Nat /\ use["buffers"] \in Nat /\ use["file"] \in Nat
  BY <1>1 DEF Uses
<1>. QED  BY <1>2, <1>3 DEF Numbers, Figures, NumbersAre

LEMMA NumbersFactsNext == PagesInv' => NumbersAre'
  BY NumbersFacts, PTL

\* What each reading tells, by name.
LEMMA ToldFacts ==
    /\ \A what \in Sources : Told(what) \subseteq Figures \cup {"disks"}
    /\ Told("meminfo") = {"free", "buffers", "cached", "shared", "slab"}
    /\ Told("fetch") = Figures /\ Told("all") = Figures
    /\ Told("nr_hugepages") = {"hugeTotal"} /\ Told("free_hugepages") = {"hugeFree"} /\ Told("zram") = {"disks"}
    /\ Told("uvmexp") = {"free"} /\ Told("bcachestats") = {"buffers", "cache"}
    /\ \A n \in {"arc", "active", "wired", "buffers", "cache"} : Told(n) = {n}
<1>1. DOMAIN Numbers \ {"disks"} = Figures  BY DEF Numbers, Figures
<1>. QED  BY <1>1 DEF Told, Sources, Figures

\* The readings of a system are of its list, and tell different figures.
LEMMA ReadsOfFacts ==
    ASSUME machine \in AllMemorySystems
    PROVE  /\ ReadsOf \in Seq(Sources)
           /\ \A i, j \in DOMAIN ReadsOf : i # j => Told(ReadsOf[i]) \cap Told(ReadsOf[j]) = {}
<1>1. CASE machine = "linux"
  <2>1. ReadsOf = <<"meminfo", "nr_hugepages", "free_hugepages", "arc", "zram">>  BY <1>1 DEF ReadsOf
  <2>. QED  BY <2>1, ToldFacts DEF Sources
<1>2. CASE machine = "freebsd"
  <2>1. ReadsOf = <<"arc", "active", "wired", "buffers", "cache">>  BY <1>2 DEF ReadsOf
  <2>. QED  BY <2>1, ToldFacts DEF Sources
<1>3. CASE machine = "dragonfly"
  <2>1. ReadsOf = <<"active", "wired", "buffers", "cache">>  BY <1>3 DEF ReadsOf
  <2>. QED  BY <2>1, ToldFacts DEF Sources
<1>4. CASE machine = "openbsd"
  <2>1. ReadsOf = <<"uvmexp", "bcachestats">>  BY <1>4 DEF ReadsOf
  <2>. QED  BY <2>1, ToldFacts DEF Sources
<1>5. CASE machine = "pcp"
  <2>1. ReadsOf = <<"fetch">>  BY <1>5 DEF ReadsOf
  <2>. QED  BY <2>1, ToldFacts DEF Sources
<1>6. CASE machine \notin {"linux", "freebsd", "dragonfly", "openbsd", "pcp"}
  <2>1. ReadsOf = <<"all">>  BY <1>6 DEF ReadsOf
  <2>. QED  BY <2>1, ToldFacts DEF Sources
<1>. QED  BY <1>1, <1>2, <1>3, <1>4, <1>5, <1>6

LEMMA InitMemoryInv == MemoryInit => MemoryInv
<1>. SUFFICES ASSUME MemoryInit PROVE MemoryInv
  OBVIOUS
<1>1. PagesInv
  <2>1. use \in [Uses -> Nat]  BY PlatformMemoryAssumption DEF MemoryInit
  <2>2. huge \in [used : 0 .. 1, free : 0 .. 1]
    <3>1. CASE machine = "linux"  BY <3>1 DEF MemoryInit
    <3>2. CASE machine # "linux"  BY <3>2 DEF MemoryInit
    <3>. QED  BY <3>1, <3>2
  <2>3. disks \in SUBSET (0 .. 1)  BY DEF MemoryInit
  <2>. QED  BY <2>1, <2>2, <2>3, PlatformMemoryAssumption DEF MemoryInit, PagesInv
<1>. QED  BY <1>1 DEF MemoryInv, MemoryInit, ReadInv, CountedInv

LEMMA StartReadingMemory ==
    ASSUME MemoryInv, StartReading
    PROVE  MemoryInv'
<1>0. machine \in AllMemorySystems  BY DEF MemoryInv, PagesInv
<1>1. /\ use' = use /\ huge' = huge /\ disks' = disks /\ machine' = machine /\ moves' = moves
      /\ memStage' = "read" /\ toRead' = ReadsOf /\ got' = <<>> /\ moved' = 0
  BY DEF StartReading, worldOfMemory
<1>2. ReadsOf' = ReadsOf  BY <1>1 DEF ReadsOf
<1>3. Numbers' = Numbers  BY <1>1 DEF Numbers
<1>4. PagesInv'  BY <1>1 DEF MemoryInv, PagesInv, InUse
<1>5. DOMAIN got' = {}  BY <1>1
<1>6. \A w : Told(w)' = Told(w)  BY <1>3 DEF Told
<1>7. ReadInv'
  <2>1. ReadsOf \in Seq(Sources) /\ \A i, j \in DOMAIN ReadsOf : i # j => Told(ReadsOf[i]) \cap Told(ReadsOf[j]) = {}
    BY <1>0, ReadsOfFacts
  <2>. QED  BY <2>1, <1>1, <1>2, <1>5, <1>6 DEF ReadInv
<1>8. \A n : Cur(n)' = Numbers[n]  BY <1>3, <1>5 DEF Cur
<1>9. CountedInv'
  <2>0. moved' = 0 /\ machine' = machine  BY <1>1
  <2>1. PagesInv  BY DEF MemoryInv
  <2>2. /\ use["program"] \in Nat /\ use["shared"] \in Nat /\ use["free"] \in Nat /\ use["kernel"] \in Nat
        /\ use["arc"] \in Nat /\ use["slab"] \in Nat /\ use["buffers"] \in Nat /\ use["file"] \in Nat
    BY <2>1 DEF PagesInv, Uses
  <2>3. InUse + use["free"] = Pages  BY <2>1 DEF PagesInv
  <2>4. \A n \in Figures : Cur(n)' \in Nat  BY <2>1, <1>8, NumbersFacts DEF NumbersAre
  <2>5. /\ Cur("active")' = use["program"] + use["shared"] /\ Cur("free")' = use["free"]
        /\ Cur("wired")' = use["kernel"] + use["arc"] + use["slab"] /\ Cur("arc")' = use["arc"]
        /\ Cur("buffers")' = use["buffers"] /\ Cur("cache")' = use["file"]
        /\ Cur("cached")' = use["file"] + use["shared"] /\ Cur("shared")' = use["shared"]
        /\ Cur("slab")' = use["slab"]
    BY <2>1, <1>8, NumbersFacts DEF NumbersAre
  <2>6. InUse' = InUse /\ use'["free"] = use["free"]  BY <1>1 DEF InUse
  <2>7. \A n \in DOMAIN got' : got'[n] = Numbers'[n]  BY <1>5
  <2>8. BSDCounted'  BY <2>0, <2>2, <2>3, <2>5, <2>6 DEF BSDCounted, InUse
  <2>9. LinuxCounted'  BY <2>0, <2>2, <2>3, <2>5 DEF LinuxCounted, InUse
  <2>10. OnceCounted'  BY <2>0, <2>2, <2>3, <2>5 DEF OnceCounted, InUse
  <2>11. Cur("free")' - use'["free"] \in -moved' .. moved'  BY <1>1, <2>2, <2>5, <2>6
  <2>. QED  BY <2>4, <2>7, <2>8, <2>9, <2>10, <2>11 DEF CountedInv
<1>. QED  BY <1>4, <1>7, <1>9 DEF MemoryInv

\* A figure is read as it would have been read just before.
LEMMA ReadNextMemory ==
    ASSUME MemoryInv, ReadNext
    PROVE  MemoryInv'
<1>. DEFINE what == Head(toRead)
<1>1. /\ use' = use /\ huge' = huge /\ disks' = disks /\ machine' = machine /\ moves' = moves
      /\ memStage' = memStage /\ memStage = "read" /\ toRead # <<>> /\ toRead' = Tail(toRead) /\ moved' = moved
  BY DEF ReadNext, worldOfMemory
<1>2. ReadsOf' = ReadsOf  BY <1>1 DEF ReadsOf
<1>3. Numbers' = Numbers  BY <1>1 DEF Numbers
<1>4. PagesInv'  BY <1>1 DEF MemoryInv, PagesInv, InUse
<1>5. \A w : Told(w)' = Told(w)  BY <1>3 DEF Told
<1>6. DOMAIN got' = DOMAIN got \cup Told(what)
      /\ \A n \in DOMAIN got' : got'[n] = IF n \in Told(what) THEN Numbers[n] ELSE got[n]
  BY DEF ReadNext
<1>7. /\ toRead \in Seq(Sources) /\ DOMAIN got \subseteq DOMAIN Numbers
      /\ \A i \in DOMAIN toRead : Told(toRead[i]) \cap DOMAIN got = {}
      /\ \A i, j \in DOMAIN toRead : i # j => Told(toRead[i]) \cap Told(toRead[j]) = {}
      /\ \A i \in DOMAIN ReadsOf :
            Told(ReadsOf[i]) \subseteq DOMAIN got \/ \E j \in DOMAIN toRead : toRead[j] = ReadsOf[i]
  BY <1>1 DEF MemoryInv, ReadInv
<1>8. what = toRead[1] /\ 1 \in DOMAIN toRead /\ what \in Sources  BY <1>1, <1>7
<1>9. Tail(toRead) \in Seq(Sources) /\ DOMAIN Tail(toRead) = 1 .. Len(toRead) - 1
      /\ \A i \in 1 .. Len(toRead) - 1 : Tail(toRead)[i] = toRead[i + 1]
  BY <1>1, <1>7
<1>10. \A i \in DOMAIN Tail(toRead) : i + 1 \in DOMAIN toRead /\ i + 1 # 1 /\ Tail(toRead)[i] = toRead[i + 1]
  BY <1>7, <1>9
<1>11. \A j \in DOMAIN toRead : j = 1 \/ (j - 1 \in DOMAIN Tail(toRead) /\ Tail(toRead)[j - 1] = toRead[j])
  BY <1>7, <1>9
<1>12. ReadInv'
  <2>1. DOMAIN got' \subseteq DOMAIN Numbers
    <3>1. PagesInv  BY DEF MemoryInv
    <3>2. Told(what) \subseteq Figures \cup {"disks"}  BY <1>8, ToldFacts
    <3>. QED  BY <3>1, <3>2, <1>6, <1>7, NumbersFacts DEF NumbersAre
  <2>2. \A i \in DOMAIN Tail(toRead) : Told(Tail(toRead)[i]) \cap DOMAIN got' = {}
    <3>1. TAKE i \in DOMAIN Tail(toRead)
    <3>2. i + 1 \in DOMAIN toRead /\ i + 1 # 1 /\ Tail(toRead)[i] = toRead[i + 1]  BY <1>10
    <3>3. Told(toRead[i + 1]) \cap DOMAIN got = {}  BY <3>2, <1>7
    <3>4. Told(toRead[i + 1]) \cap Told(toRead[1]) = {}  BY <3>2, <1>7, <1>8
    <3>. QED  BY <3>2, <3>3, <3>4, <1>6, <1>8
  <2>3. \A i, j \in DOMAIN Tail(toRead) : i # j => Told(Tail(toRead)[i]) \cap Told(Tail(toRead)[j]) = {}
    <3>1. TAKE i, j \in DOMAIN Tail(toRead)
    <3>2. i + 1 \in DOMAIN toRead /\ Tail(toRead)[i] = toRead[i + 1]  BY <1>10
    <3>3. j + 1 \in DOMAIN toRead /\ Tail(toRead)[j] = toRead[j + 1]  BY <1>10
    <3>4. i # j => i + 1 # j + 1  BY <1>9
    <3>. QED  BY <3>2, <3>3, <3>4, <1>7
  <2>4. \A i \in DOMAIN ReadsOf :
            Told(ReadsOf[i]) \subseteq DOMAIN got' \/ \E j \in DOMAIN Tail(toRead) : Tail(toRead)[j] = ReadsOf[i]
    <3>1. TAKE i \in DOMAIN ReadsOf
    <3>2. CASE Told(ReadsOf[i]) \subseteq DOMAIN got  BY <3>2, <1>6
    <3>3. CASE \E j \in DOMAIN toRead : toRead[j] = ReadsOf[i]
      <4>1. PICK j \in DOMAIN toRead : toRead[j] = ReadsOf[i]  BY <3>3
      <4>2. CASE j = 1  BY <4>1, <4>2, <1>6, <1>8
      <4>3. CASE j - 1 \in DOMAIN Tail(toRead) /\ Tail(toRead)[j - 1] = toRead[j]  BY <4>1, <4>3
      <4>. QED  BY <4>1, <4>2, <4>3, <1>11
    <3>. QED  BY <3>2, <3>3, <1>7
  <2>. QED  BY <1>1, <1>2, <1>3, <1>5, <1>9, <2>1, <2>2, <2>3, <2>4 DEF ReadInv
<1>13. \A n : Cur(n)' = Cur(n)
  <2>1. Told(what) \cap DOMAIN got = {}  BY <1>7, <1>8
  <2>. QED  BY <2>1, <1>3, <1>6 DEF Cur
<1>14. CountedInv'
  <2>1. InUse' = InUse  BY <1>1 DEF InUse
  <2>2. moved = 0 => \A n \in DOMAIN got : got[n] = Numbers[n]  BY <1>1 DEF MemoryInv, CountedInv
  <2>3. moved' = 0 => \A n \in DOMAIN got' : got'[n] = Numbers'[n]  BY <2>2, <1>1, <1>3, <1>6
  <2>. QED  BY <1>1, <1>13, <2>1, <2>3 DEF MemoryInv, CountedInv, BSDCounted, LinuxCounted, OnceCounted
<1>. QED  BY <1>4, <1>12, <1>14 DEF MemoryInv

LEMMA ShowMemoryStep ==
    ASSUME MemoryInv, ShowMemory
    PROVE  MemoryInv'
<1>1. /\ use' = use /\ huge' = huge /\ disks' = disks /\ machine' = machine /\ moves' = moves
      /\ memStage' = "shown" /\ memStage = "read" /\ toRead' = toRead /\ toRead = <<>> /\ moved' = moved /\ got' = got
  BY DEF ShowMemory, worldOfMemory
<1>2. ReadsOf' = ReadsOf /\ Numbers' = Numbers /\ InUse' = InUse  BY <1>1 DEF ReadsOf, Numbers, InUse
<1>3. \A w : Told(w)' = Told(w)  BY <1>2 DEF Told
<1>4. \A n : Cur(n)' = Cur(n)  BY <1>1, <1>2 DEF Cur
<1>5. PagesInv'  BY <1>1, <1>2 DEF MemoryInv, PagesInv
<1>6. ReadInv'  BY <1>1, <1>2, <1>3 DEF MemoryInv, ReadInv
<1>7. CountedInv'  BY <1>1, <1>2, <1>4 DEF MemoryInv, CountedInv, BSDCounted, LinuxCounted, OnceCounted
<1>. QED  BY <1>5, <1>6, <1>7 DEF MemoryInv

\* One page moves from one use to another: two of the uses change by one.
LEMMA MoveUses ==
    ASSUME PagesInv, NEW from \in Uses, NEW to \in Uses, Move(from, to)
    PROVE  /\ use' \in [Uses -> Nat] /\ InUse' + use'["free"] = Pages
           /\ \A u \in Uses : use'[u] = use[u] + (IF u = to THEN 1 ELSE 0) - (IF u = from THEN 1 ELSE 0)
<1>1. use \in [Uses -> Nat] /\ InUse + use["free"] = Pages /\ \A u \in Uses : use[u] \in Nat  BY DEF PagesInv
<1>2. use' = [use EXCEPT ![from] = @ - 1, ![to] = @ + 1] /\ from # to /\ use[from] > 0  BY DEF Move, Moved
<1>3. \A u \in Uses : use'[u] = use[u] + (IF u = to THEN 1 ELSE 0) - (IF u = from THEN 1 ELSE 0)
  BY <1>1, <1>2
<1>4. use' \in [Uses -> Nat]  BY <1>1, <1>2
<1>5. InUse' + use'["free"] = InUse + use["free"]
  <2>1. \A u \in {"program", "kernel", "arc", "slab", "buffers", "file", "shared", "free"} :
           use[u] \in Nat /\ use'[u] = use[u] + (IF u = to THEN 1 ELSE 0) - (IF u = from THEN 1 ELSE 0)
    BY <1>1, <1>3 DEF Uses
  <2>2. from # to  BY <1>2
  <2>3. from \in {"program", "kernel", "arc", "slab", "buffers", "file", "shared", "free"}
        /\ to \in {"program", "kernel", "arc", "slab", "buffers", "file", "shared", "free"}
    BY DEF Uses
  <2>. QED  BY <2>1, <2>2, <2>3 DEF InUse
<1>. QED  BY <1>1, <1>3, <1>4, <1>5

\* Any step of the machine while the scan reads.
LEMMA MovedFacts ==
    ASSUME MemoryInv, NEW u, NEW h, NEW d, Moved(u, h, d), memStage' # "idle"
    PROVE  /\ memStage = "read" /\ memStage' = "read" /\ moved' = moved + 1 /\ moved \in Nat
           /\ got' = got /\ toRead' = toRead /\ machine' = machine
           /\ \A n : Cur(n)' = IF n \in DOMAIN got THEN got[n] ELSE Numbers'[n]
           /\ ReadInv'
<1>1. /\ memStage = "read" /\ memStage' = "read" /\ moved' = moved + 1 /\ moved \in Nat
      /\ got' = got /\ toRead' = toRead /\ machine' = machine
  BY DEF Moved, MemoryInv, PagesInv
<1>2. ReadsOf' = ReadsOf  BY <1>1 DEF ReadsOf
<1>3. DOMAIN Numbers' = DOMAIN Numbers  BY DEF Numbers
<1>4. \A w : Told(w)' = Told(w)  BY <1>3 DEF Told
<1>5. ReadInv'  BY <1>1, <1>2, <1>3, <1>4 DEF MemoryInv, ReadInv
<1>. QED  BY <1>1, <1>5 DEF Cur

\* The figures of one reading have been read all or none.
LEMMA ReadTogether ==
    ASSUME MemoryInv, memStage # "idle"
    PROVE  /\ machine = "linux" =>
                \/ {"free", "buffers", "cached", "shared", "slab"} \subseteq DOMAIN got
                \/ {"free", "buffers", "cached", "shared", "slab"} \cap DOMAIN got = {}
           /\ machine \in {"pcp", "netbsd", "solaris", "darwin"} =>
                Figures \subseteq DOMAIN got \/ Figures \cap DOMAIN got = {}
<1>1. /\ \A i \in DOMAIN toRead : Told(toRead[i]) \cap DOMAIN got = {}
      /\ \A i \in DOMAIN ReadsOf :
            Told(ReadsOf[i]) \subseteq DOMAIN got \/ \E j \in DOMAIN toRead : toRead[j] = ReadsOf[i]
  BY DEF MemoryInv, ReadInv
<1>2. \A i \in DOMAIN ReadsOf : Told(ReadsOf[i]) \subseteq DOMAIN got \/ Told(ReadsOf[i]) \cap DOMAIN got = {}
  BY <1>1
<1>3. ASSUME machine = "linux"
      PROVE  \/ {"free", "buffers", "cached", "shared", "slab"} \subseteq DOMAIN got
             \/ {"free", "buffers", "cached", "shared", "slab"} \cap DOMAIN got = {}
  <2>1. 1 \in DOMAIN ReadsOf /\ ReadsOf[1] = "meminfo"  BY <1>3 DEF ReadsOf
  <2>. QED  BY <2>1, <1>2, ToldFacts
<1>4. ASSUME machine \in {"pcp", "netbsd", "solaris", "darwin"}
      PROVE  Figures \subseteq DOMAIN got \/ Figures \cap DOMAIN got = {}
  <2>1. 1 \in DOMAIN ReadsOf /\ ReadsOf[1] \in {"fetch", "all"}  BY <1>4 DEF ReadsOf
  <2>. QED  BY <2>1, <1>2, ToldFacts
<1>. QED  BY <1>3, <1>4

LEMMA MoveMemory ==
    ASSUME MemoryInv, NEW from \in Uses, NEW to \in Uses, Move(from, to)
    PROVE  MemoryInv'
<1>1. PagesInv /\ ReadInv /\ CountedInv  BY DEF MemoryInv
<1>2. PagesInv'
  <2>1. use' \in [Uses -> Nat] /\ InUse' + use'["free"] = Pages  BY <1>1, MoveUses
  <2>2. memStage' \in {"idle", "read", "shown"} /\ moves' \in Nat /\ moved' \in Nat
    BY <1>1 DEF PagesInv, Move, Moved
  <2>3. huge' = huge /\ disks' = disks /\ machine' = machine  BY DEF Move, Moved
  <2>. QED  BY <1>1, <2>1, <2>2, <2>3 DEF PagesInv
<1>3. CASE memStage' = "idle"  BY <1>2, <1>3 DEF MemoryInv, ReadInv, CountedInv
<1>4. CASE memStage' # "idle"
  <2>1. /\ memStage = "read" /\ memStage' = "read" /\ moved' = moved + 1 /\ moved \in Nat
        /\ got' = got /\ toRead' = toRead /\ machine' = machine
        /\ \A n : Cur(n)' = IF n \in DOMAIN got THEN got[n] ELSE Numbers'[n]
        /\ ReadInv'
    <3>1. Moved([use EXCEPT ![from] = @ - 1, ![to] = @ + 1], huge, disks)  BY DEF Move
    <3>. HIDE DEF Moved
    <3>. QED  BY <1>4, <3>1, MovedFacts
  <2>2. \A n : Cur(n) = IF n \in DOMAIN got THEN got[n] ELSE Numbers[n]  BY DEF Cur
  <2>3. \A n \in Figures : Numbers[n] \in Nat /\ Numbers'[n] \in Nat
    BY <1>1, <1>2, NumbersFacts, NumbersFactsNext DEF NumbersAre
  <2>4. \A n \in Figures : Cur(n) \in Nat /\ Cur(n)' \in Nat
    <3>1. \A n \in Figures : Cur(n) \in Nat  BY <1>1, <2>1 DEF CountedInv
    <3>. QED  BY <3>1, <2>1, <2>2, <2>3
  <2>5. /\ \A u \in Uses : use'[u] = use[u] + (IF u = to THEN 1 ELSE 0) - (IF u = from THEN 1 ELSE 0)
        /\ InUse' + use'["free"] = Pages
    BY <1>1, MoveUses
  <2>6. from # to /\ InUse + use["free"] = Pages /\ Pages \in Nat
    BY <1>1, PlatformMemoryAssumption DEF PagesInv, Move
  <2>7. \A u \in Uses : use[u] \in Nat /\ use'[u] \in Nat  BY <1>1, <1>2 DEF PagesInv
  \* What came to each of the uses, and what went.
  <2>. DEFINE P(u) == IF u = to THEN 1 ELSE 0
              M(u) == IF u = from THEN 1 ELSE 0
  <2>8. /\ \A u \in Uses : P(u) \in 0 .. 1 /\ M(u) \in 0 .. 1 /\ use'[u] = use[u] + P(u) - M(u)
        /\ P("program") + P("kernel") + P("arc") + P("slab") + P("buffers") + P("file") + P("shared") + P("free") = 1
        /\ M("program") + M("kernel") + M("arc") + M("slab") + M("buffers") + M("file") + M("shared") + M("free") = 1
    BY <2>5 DEF Uses
  <2>. HIDE DEF P, M
  <2>. DEFINE D(u) == P(u) - M(u)
  <2>10. /\ P("program") \in 0 .. 1 /\ P("kernel") \in 0 .. 1 /\ P("arc") \in 0 .. 1 /\ P("slab") \in 0 .. 1
         /\ P("buffers") \in 0 .. 1 /\ P("file") \in 0 .. 1 /\ P("shared") \in 0 .. 1 /\ P("free") \in 0 .. 1
         /\ M("program") \in 0 .. 1 /\ M("kernel") \in 0 .. 1 /\ M("arc") \in 0 .. 1 /\ M("slab") \in 0 .. 1
         /\ M("buffers") \in 0 .. 1 /\ M("file") \in 0 .. 1 /\ M("shared") \in 0 .. 1 /\ M("free") \in 0 .. 1
    BY <2>8 DEF Uses
  <2>11. \A n \in Figures : Cur(n)' = Cur(n) + (IF n \in DOMAIN got THEN 0 ELSE Numbers'[n] - Numbers[n])
    BY <2>1, <2>2, <2>3, <2>4
  \* What would be read now.
  <2>19. /\ Numbers'["active"] = use'["program"] + use'["shared"] /\ Numbers'["free"] = use'["free"]
         /\ Numbers'["wired"] = use'["kernel"] + use'["arc"] + use'["slab"] /\ Numbers'["arc"] = use'["arc"]
         /\ Numbers'["buffers"] = use'["buffers"] /\ Numbers'["cache"] = use'["file"]
         /\ Numbers'["cached"] = use'["file"] + use'["shared"] /\ Numbers'["shared"] = use'["shared"]
         /\ Numbers'["slab"] = use'["slab"]
    BY <1>2, NumbersFactsNext DEF NumbersAre
  <2>12. /\ Numbers'["active"] - Numbers["active"] = D("program") + D("shared")
         /\ Numbers'["free"] - Numbers["free"] = D("free")
         /\ Numbers'["wired"] - Numbers["wired"] = D("kernel") + D("arc") + D("slab")
         /\ Numbers'["arc"] - Numbers["arc"] = D("arc") /\ Numbers'["buffers"] - Numbers["buffers"] = D("buffers")
         /\ Numbers'["cache"] - Numbers["cache"] = D("file")
         /\ Numbers'["cached"] - Numbers["cached"] = D("file") + D("shared")
         /\ Numbers'["shared"] - Numbers["shared"] = D("shared") /\ Numbers'["slab"] - Numbers["slab"] = D("slab")
    <3>1. NumbersAre  BY <1>1, NumbersFacts
    <3>2. /\ use["program"] \in Nat /\ use["shared"] \in Nat /\ use["free"] \in Nat /\ use["kernel"] \in Nat
          /\ use["arc"] \in Nat /\ use["slab"] \in Nat /\ use["buffers"] \in Nat /\ use["file"] \in Nat
      BY <2>7 DEF Uses
    <3>3. /\ use'["program"] = use["program"] + D("program") /\ use'["shared"] = use["shared"] + D("shared")
          /\ use'["kernel"] = use["kernel"] + D("kernel") /\ use'["arc"] = use["arc"] + D("arc")
          /\ use'["slab"] = use["slab"] + D("slab") /\ use'["buffers"] = use["buffers"] + D("buffers")
          /\ use'["file"] = use["file"] + D("file") /\ use'["free"] = use["free"] + D("free")
      BY <2>8, <2>10, <3>2 DEF Uses
    <3>4. D("program") \in Int /\ D("shared") \in Int /\ D("free") \in Int /\ D("kernel") \in Int /\ D("arc") \in Int
          /\ D("slab") \in Int /\ D("buffers") \in Int /\ D("file") \in Int
      BY <2>10
    <3>5. /\ Numbers["active"] = use["program"] + use["shared"] /\ Numbers["free"] = use["free"]
          /\ Numbers["wired"] = use["kernel"] + use["arc"] + use["slab"] /\ Numbers["arc"] = use["arc"]
          /\ Numbers["buffers"] = use["buffers"] /\ Numbers["cache"] = use["file"]
          /\ Numbers["cached"] = use["file"] + use["shared"] /\ Numbers["shared"] = use["shared"]
          /\ Numbers["slab"] = use["slab"]
      BY <3>1 DEF NumbersAre
    <3>. HIDE DEF D
    <3>. QED  BY <3>2, <3>3, <3>4, <3>5, <2>19
  <2>13. InUse' = InUse - D("free") /\ InUse \in Nat
    <3>1. use["free"] \in Nat /\ use'["free"] = use["free"] + D("free")  BY <2>7, <2>8, <2>10 DEF Uses
    <3>2. InUse \in Nat /\ InUse' \in Int  BY <2>7 DEF InUse, Uses
    <3>3. D("free") \in Int  BY <2>10
    <3>. HIDE DEF D
    <3>. QED  BY <2>5, <2>6, <3>1, <3>2, <3>3
  \* A figure that is read does not change, one that is not changes by what moved.
  <2>. DEFINE R(n) == n \in DOMAIN got
  <2>14. /\ Cur("active")' = Cur("active") + (IF R("active") THEN 0 ELSE D("program") + D("shared"))
         /\ Cur("free")' = Cur("free") + (IF R("free") THEN 0 ELSE D("free"))
         /\ Cur("wired")' = Cur("wired") + (IF R("wired") THEN 0 ELSE D("kernel") + D("arc") + D("slab"))
         /\ Cur("arc")' = Cur("arc") + (IF R("arc") THEN 0 ELSE D("arc"))
         /\ Cur("buffers")' = Cur("buffers") + (IF R("buffers") THEN 0 ELSE D("buffers"))
         /\ Cur("cache")' = Cur("cache") + (IF R("cache") THEN 0 ELSE D("file"))
         /\ Cur("cached")' = Cur("cached") + (IF R("cached") THEN 0 ELSE D("file") + D("shared"))
         /\ Cur("shared")' = Cur("shared") + (IF R("shared") THEN 0 ELSE D("shared"))
         /\ Cur("slab")' = Cur("slab") + (IF R("slab") THEN 0 ELSE D("slab"))
    <3>. HIDE DEF D
    <3>. QED  BY <2>11, <2>12 DEF Figures
  <2>15. /\ Cur("active") \in Nat /\ Cur("free") \in Nat /\ Cur("wired") \in Nat /\ Cur("arc") \in Nat
         /\ Cur("buffers") \in Nat /\ Cur("cache") \in Nat /\ Cur("cached") \in Nat /\ Cur("shared") \in Nat
         /\ Cur("slab") \in Nat
    BY <2>4 DEF Figures
  <2>16. moved' = moved + 1 /\ moved \in Nat /\ machine' = machine /\ Pages \in Nat  BY <2>1, <2>6
  <2>. HIDE DEF R
  <2>17. Cur("free")' - use'["free"] \in -moved' .. moved'
    <3>1. Cur("free") - use["free"] \in -moved .. moved  BY <1>1, <2>1 DEF CountedInv
    <3>2. use["free"] \in Nat /\ use'["free"] = use["free"] + D("free")  BY <2>7, <2>8, <2>10 DEF Uses
    <3>3. Cur("free")' = Cur("free") + (IF R("free") THEN 0 ELSE D("free"))  BY <2>14
    <3>. QED  BY <2>10, <2>15, <2>16, <3>1, <3>2, <3>3
  <2>18. BSDCounted'
    <3>1. BSDCounted  BY <1>1, <2>1 DEF CountedInv
    <3>2. ASSUME machine \in {"freebsd", "dragonfly"}
          PROVE  (Cur("active") + Cur("wired") + Cur("buffers") + Cur("cache") - InUse)' \in -moved' .. moved'
      <4>1. Cur("active") + Cur("wired") + Cur("buffers") + Cur("cache") - InUse \in -moved .. moved
        BY <3>1, <3>2 DEF BSDCounted
      <4>. QED  BY <4>1, <2>8, <2>10, <2>13, <2>14, <2>15, <2>16
    <3>3. ASSUME machine = "freebsd" PROVE Cur("wired")' - Cur("arc")' >= -moved'
      <4>1. Cur("wired") - Cur("arc") >= -moved  BY <3>1, <3>3 DEF BSDCounted
      <4>. QED  BY <4>1, <2>8, <2>10, <2>14, <2>15, <2>16
    <3>4. ASSUME machine = "openbsd" PROVE Cur("free")' + Cur("buffers")' + Cur("cache")' <= Pages + moved'
      <4>1. Cur("free") + Cur("buffers") + Cur("cache") <= Pages + moved  BY <3>1, <3>4 DEF BSDCounted
      <4>. QED  BY <4>1, <2>8, <2>10, <2>14, <2>15, <2>16
    <3>. QED  BY <2>16, <3>2, <3>3, <3>4 DEF BSDCounted
  <2>20. /\ use'["program"] \in Nat /\ use'["shared"] \in Nat /\ use'["free"] \in Nat /\ use'["kernel"] \in Nat
         /\ use'["arc"] \in Nat /\ use'["slab"] \in Nat /\ use'["buffers"] \in Nat /\ use'["file"] \in Nat
         /\ use'["program"] + use'["kernel"] + use'["arc"] + use'["slab"] + use'["buffers"] + use'["file"]
              + use'["shared"] + use'["free"] = Pages
    BY <2>5, <2>7 DEF Uses, InUse
  <2>21. LinuxCounted'
    <3>. SUFFICES ASSUME machine = "linux"
                  PROVE  /\ Cur("free")' + Cur("cached")' + Cur("slab")' + Cur("buffers")' <= Pages
                         /\ Cur("free")' + Cur("cached")' + Cur("slab")' + Cur("buffers")' + Cur("arc")' <= Pages + moved'
                         /\ Cur("shared")' <= Cur("cached")'
      BY <2>16 DEF LinuxCounted
    <3>1. CASE {"free", "buffers", "cached", "shared", "slab"} \subseteq DOMAIN got
      <4>1. R("free") /\ R("buffers") /\ R("cached") /\ R("shared") /\ R("slab")  BY <3>1 DEF R
      <4>2. /\ Cur("free") + Cur("cached") + Cur("slab") + Cur("buffers") <= Pages
            /\ Cur("free") + Cur("cached") + Cur("slab") + Cur("buffers") + Cur("arc") <= Pages + moved
            /\ Cur("shared") <= Cur("cached")
        BY <1>1, <2>1 DEF CountedInv, LinuxCounted
      <4>. QED  BY <4>1, <4>2, <2>8, <2>10, <2>14, <2>15, <2>16
    <3>2. CASE {"free", "buffers", "cached", "shared", "slab"} \cap DOMAIN got = {}
      <4>1. /\ Cur("free")' = use'["free"] /\ Cur("cached")' = use'["file"] + use'["shared"] /\ Cur("slab")' = use'["slab"]
            /\ Cur("buffers")' = use'["buffers"] /\ Cur("shared")' = use'["shared"]
        BY <3>2, <2>1, <2>19
      <4>2. Cur("free") + Cur("cached") + Cur("slab") + Cur("buffers") + Cur("arc") <= Pages + moved
        BY <1>1, <2>1 DEF CountedInv, LinuxCounted
      <4>3. Cur("free")' + Cur("cached")' + Cur("slab")' + Cur("buffers")' <= Pages /\ Cur("shared")' <= Cur("cached")'
        BY <4>1, <2>20
      <4>4. \neg R("free") /\ \neg R("buffers") /\ \neg R("cached") /\ \neg R("slab")  BY <3>2 DEF R
      <4>5. Cur("free")' + Cur("cached")' + Cur("slab")' + Cur("buffers")' + Cur("arc")' <= Pages + moved'
        BY <4>2, <4>4, <2>8, <2>10, <2>14, <2>15, <2>16
      <4>. QED  BY <4>3, <4>5
    <3>. QED  BY <3>1, <3>2, <2>1, ReadTogether
  <2>22. OnceCounted'
    <3>. SUFFICES ASSUME machine \in {"pcp", "netbsd", "solaris", "darwin"}
                  PROVE  /\ Cur("active")' + Cur("wired")' + Cur("buffers")' + Cur("cache")' + Cur("free")' = Pages
                         /\ Cur("cached")' = Cur("cache")' + Cur("shared")'
                         /\ Cur("shared")' <= Cur("active")' /\ Cur("arc")' + Cur("slab")' <= Cur("wired")'
      BY <2>16 DEF OnceCounted
    <3>1. CASE Figures \subseteq DOMAIN got
      <4>1. \A n \in Figures : Cur(n)' = Cur(n)  BY <3>1, <2>1, <2>2
      <4>2. /\ Cur("active") + Cur("wired") + Cur("buffers") + Cur("cache") + Cur("free") = Pages
            /\ Cur("cached") = Cur("cache") + Cur("shared")
            /\ Cur("shared") <= Cur("active") /\ Cur("arc") + Cur("slab") <= Cur("wired")
        BY <1>1, <2>1 DEF CountedInv, OnceCounted
      <4>. QED  BY <4>1, <4>2 DEF Figures
    <3>2. CASE Figures \cap DOMAIN got = {}
      <4>1. \A n \in Figures : Cur(n)' = Numbers'[n]  BY <3>2, <2>1
      <4>2. /\ Cur("active")' = use'["program"] + use'["shared"] /\ Cur("free")' = use'["free"]
            /\ Cur("wired")' = use'["kernel"] + use'["arc"] + use'["slab"] /\ Cur("arc")' = use'["arc"]
            /\ Cur("buffers")' = use'["buffers"] /\ Cur("cache")' = use'["file"]
            /\ Cur("cached")' = use'["file"] + use'["shared"] /\ Cur("shared")' = use'["shared"]
            /\ Cur("slab")' = use'["slab"]
        BY <4>1, <2>19 DEF Figures
      <4>. QED  BY <4>2, <2>20
    <3>. QED  BY <3>1, <3>2, <2>1, ReadTogether
  <2>23. \A n \in Figures : Cur(n)' \in Nat  BY <2>4
  <2>24. CountedInv'  BY <2>16, <2>17, <2>18, <2>21, <2>22, <2>23 DEF CountedInv
  <2>. QED  BY <1>2, <2>1, <2>24 DEF MemoryInv
<1>. QED  BY <1>3, <1>4

\* Steps that move no page.
LEMMA OtherMoves ==
    ASSUME MemoryInv, NEW h \in [used : 0 .. 1, free : 0 .. 1], NEW d \in SUBSET (0 .. 1), Moved(use, h, d)
    PROVE  MemoryInv'
<1>1. PagesInv /\ ReadInv /\ CountedInv  BY DEF MemoryInv
<1>2. use' = use /\ huge' = h /\ disks' = d /\ machine' = machine  BY DEF Moved
<1>3. PagesInv'
  <2>1. memStage' \in {"idle", "read", "shown"} /\ moves' \in Nat /\ moved' \in Nat  BY <1>1 DEF PagesInv, Moved
  <2>2. InUse' = InUse  BY <1>2 DEF InUse
  <2>. QED  BY <1>1, <1>2, <2>1, <2>2 DEF PagesInv
<1>4. CASE memStage' = "idle"  BY <1>3, <1>4 DEF MemoryInv, ReadInv, CountedInv
<1>5. CASE memStage' # "idle"
  <2>1. /\ memStage = "read" /\ memStage' = "read" /\ moved' = moved + 1 /\ moved \in Nat
        /\ got' = got /\ toRead' = toRead /\ machine' = machine
        /\ \A n : Cur(n)' = IF n \in DOMAIN got THEN got[n] ELSE Numbers'[n]
        /\ ReadInv'
    <3>. HIDE DEF Moved
    <3>. QED  BY <1>5, MovedFacts
  <2>2. \A n : Cur(n) = IF n \in DOMAIN got THEN got[n] ELSE Numbers[n]  BY DEF Cur
  <2>3. NumbersAre /\ NumbersAre'  BY <1>1, <1>3, NumbersFacts, NumbersFactsNext
  <2>4. \A n \in Figures \ {"hugeTotal", "hugeFree"} : Numbers'[n] = Numbers[n]
    BY <1>2, <2>3 DEF NumbersAre, Figures
  <2>5. \A n \in Figures \ {"hugeTotal", "hugeFree"} : Cur(n)' = Cur(n)  BY <2>1, <2>2, <2>4
  <2>6. \A n \in Figures : Cur(n)' \in Nat
    <3>1. \A n \in Figures : Cur(n) \in Nat  BY <1>1, <2>1 DEF CountedInv
    <3>2. \A n \in Figures : Numbers'[n] \in Nat  BY <2>3 DEF NumbersAre
    <3>. QED  BY <2>1, <2>2, <3>1, <3>2
  <2>7. /\ Cur("active")' = Cur("active") /\ Cur("free")' = Cur("free") /\ Cur("wired")' = Cur("wired")
        /\ Cur("arc")' = Cur("arc") /\ Cur("buffers")' = Cur("buffers") /\ Cur("cache")' = Cur("cache")
        /\ Cur("cached")' = Cur("cached") /\ Cur("shared")' = Cur("shared") /\ Cur("slab")' = Cur("slab")
    BY <2>5 DEF Figures
  <2>8. /\ Cur("active") \in Nat /\ Cur("free") \in Nat /\ Cur("wired") \in Nat /\ Cur("arc") \in Nat
        /\ Cur("buffers") \in Nat /\ Cur("cache") \in Nat /\ Cur("cached") \in Nat /\ Cur("shared") \in Nat
        /\ Cur("slab") \in Nat /\ InUse \in Nat /\ use["free"] \in Nat /\ Pages \in Nat
    BY <1>1, <2>1, PlatformMemoryAssumption DEF CountedInv, Figures, PagesInv, InUse, Uses
  <2>9. InUse' = InUse  BY <1>2 DEF InUse
  <2>10. moved' = moved + 1 /\ moved \in Nat /\ machine' = machine  BY <2>1
  <2>11. BSDCounted /\ LinuxCounted /\ OnceCounted /\ Cur("free") - use["free"] \in -moved .. moved
    BY <1>1, <2>1 DEF CountedInv
  <2>12. BSDCounted'  BY <2>7, <2>8, <2>9, <2>10, <2>11 DEF BSDCounted
  <2>13. LinuxCounted'  BY <2>7, <2>8, <2>10, <2>11 DEF LinuxCounted
  <2>14. OnceCounted'  BY <2>7, <2>10, <2>11 DEF OnceCounted
  <2>15. Cur("free")' - use'["free"] \in -moved' .. moved'  BY <1>2, <2>7, <2>8, <2>10, <2>11
  <2>16. CountedInv'  BY <2>6, <2>10, <2>12, <2>13, <2>14, <2>15 DEF CountedInv
  <2>. QED  BY <1>3, <2>1, <2>16 DEF MemoryInv
<1>. QED  BY <1>4, <1>5

LEMMA MemoryStep == MemoryInv /\ [MemoryNext]_memoryVars => MemoryInv'
<1>. SUFFICES ASSUME MemoryInv, [MemoryNext]_memoryVars PROVE MemoryInv'
  OBVIOUS
<1>0. huge \in [used : 0 .. 1, free : 0 .. 1] /\ disks \in SUBSET (0 .. 1)  BY DEF MemoryInv, PagesInv
<1>1. CASE \E from, to \in Uses : Move(from, to)
  <2>. PICK from, to \in Uses : Move(from, to)  BY <1>1
  <2>. QED  BY MoveMemory
<1>2. CASE \E used, free \in 0 .. 1 : Resize(used, free)
  <2>1. PICK used, free \in 0 .. 1 : Resize(used, free)  BY <1>2
  <2>2. Moved(use, [used |-> used, free |-> free], disks)  BY <2>1 DEF Resize
  <2>3. [used |-> used, free |-> free] \in [used : 0 .. 1, free : 0 .. 1]  OBVIOUS
  <2>. QED  BY <1>0, <2>2, <2>3, OtherMoves
<1>3. CASE \E d \in 0 .. 1 : AddDisk(d) \/ RemoveDisk(d)
  <2>1. PICK d \in 0 .. 1 : AddDisk(d) \/ RemoveDisk(d)  BY <1>3
  <2>2. PICK e \in {disks \cup {d}, disks \ {d}} : Moved(use, huge, e)  BY <2>1 DEF AddDisk, RemoveDisk
  <2>3. e \in SUBSET (0 .. 1)  BY <1>0, <2>2
  <2>. QED  BY <1>0, <2>2, <2>3, OtherMoves
<1>4. CASE StartReading  BY <1>4, StartReadingMemory
<1>5. CASE ReadNext  BY <1>5, ReadNextMemory
<1>6. CASE ShowMemory  BY <1>6, ShowMemoryStep
<1>7. CASE UNCHANGED memoryVars
  <2>1. UNCHANGED <<machine, use, huge, disks, moves, moved, toRead, got, memStage>>
    BY <1>7 DEF memoryVars, worldOfMemory
  <2>2. Numbers' = Numbers /\ InUse' = InUse /\ ReadsOf' = ReadsOf  BY <2>1 DEF Numbers, InUse, ReadsOf
  <2>3. \A n : Cur(n)' = Cur(n)  BY <2>1, <2>2 DEF Cur
  <2>4. \A w : Told(w)' = Told(w)  BY <2>2 DEF Told
  <2>5. PagesInv'  BY <2>1, <2>2 DEF MemoryInv, PagesInv
  <2>6. ReadInv'  BY <2>1, <2>2, <2>4 DEF MemoryInv, ReadInv
  <2>7. CountedInv'  BY <2>1, <2>2, <2>3 DEF MemoryInv, CountedInv, BSDCounted, LinuxCounted, OnceCounted
  <2>. QED  BY <2>5, <2>6, <2>7 DEF MemoryInv
<1>. QED  BY <1>1, <1>2, <1>3, <1>4, <1>5, <1>6, <1>7 DEF MemoryNext

\* When the bar is shown, all that its system reads has been read.
LEMMA AllRead ==
    ASSUME MemoryInv, memStage = "shown"
    PROVE  \A i \in DOMAIN ReadsOf : Told(ReadsOf[i]) \subseteq DOMAIN got
<1>1. toRead = <<>>
      /\ \A i \in DOMAIN ReadsOf :
            Told(ReadsOf[i]) \subseteq DOMAIN got \/ \E j \in DOMAIN toRead : toRead[j] = ReadsOf[i]
  BY DEF MemoryInv, ReadInv
<1>. QED  BY <1>1

\* The figures that are shown are those that Cur names.
LEMMA ShownFigures ==
    ASSUME MemoryInv, memStage = "shown"
    PROVE  /\ machine = "linux" =>
                /\ Cur("free") = got.free /\ Cur("cached") = got.cached /\ Cur("slab") = got.slab
                /\ Cur("buffers") = got.buffers /\ Cur("shared") = got.shared /\ Cur("arc") = got.arc
                /\ {"hugeTotal", "hugeFree", "disks"} \subseteq DOMAIN got
           /\ machine \in {"freebsd", "dragonfly"} =>
                /\ Cur("active") = got.active /\ Cur("wired") = got.wired /\ Cur("buffers") = got.buffers
                /\ Cur("cache") = got.cache
           /\ machine = "freebsd" => Cur("arc") = got.arc
           /\ machine = "openbsd" => Cur("free") = got.free /\ Cur("buffers") = got.buffers /\ Cur("cache") = got.cache
           /\ machine \in {"pcp", "netbsd", "solaris", "darwin"} => \A n \in Figures : Cur(n) = got[n]
<1>1. \A i \in DOMAIN ReadsOf : Told(ReadsOf[i]) \subseteq DOMAIN got  BY AllRead
<1>2. CASE machine = "linux"
  <2>1. ReadsOf = <<"meminfo", "nr_hugepages", "free_hugepages", "arc", "zram">>  BY <1>2 DEF ReadsOf
  <2>2. {1, 2, 3, 4, 5} \subseteq DOMAIN ReadsOf  BY <2>1
  <2>3. Told("meminfo") \cup Told("nr_hugepages") \cup Told("free_hugepages") \cup Told("arc") \cup Told("zram")
          \subseteq DOMAIN got
    BY <1>1, <2>1, <2>2
  <2>. QED  BY <1>2, <2>3, ToldFacts DEF Cur
<1>3. CASE machine = "freebsd"
  <2>1. ReadsOf = <<"arc", "active", "wired", "buffers", "cache">>  BY <1>3 DEF ReadsOf
  <2>2. Told("arc") \cup Told("active") \cup Told("wired") \cup Told("buffers") \cup Told("cache") \subseteq DOMAIN got
    BY <1>1, <2>1
  <2>. QED  BY <1>3, <2>2, ToldFacts DEF Cur
<1>4. CASE machine = "dragonfly"
  <2>1. ReadsOf = <<"active", "wired", "buffers", "cache">>  BY <1>4 DEF ReadsOf
  <2>2. Told("active") \cup Told("wired") \cup Told("buffers") \cup Told("cache") \subseteq DOMAIN got
    BY <1>1, <2>1
  <2>. QED  BY <1>4, <2>2, ToldFacts DEF Cur
<1>5. CASE machine = "openbsd"
  <2>1. ReadsOf = <<"uvmexp", "bcachestats">>  BY <1>5 DEF ReadsOf
  <2>2. Told("uvmexp") \cup Told("bcachestats") \subseteq DOMAIN got  BY <1>1, <2>1
  <2>. QED  BY <1>5, <2>2, ToldFacts DEF Cur
<1>6. CASE machine \in {"pcp", "netbsd", "solaris", "darwin"}
  <2>1. 1 \in DOMAIN ReadsOf /\ ReadsOf[1] \in {"fetch", "all"}  BY <1>6 DEF ReadsOf
  <2>2. Figures \subseteq DOMAIN got  BY <1>1, <2>1, ToldFacts
  <2>. QED  BY <1>6, <2>2 DEF Cur
<1>. QED  BY <1>2, <1>3, <1>4, <1>5, <1>6

\* The parts are right on Linux, on the systems that read one by one and on those
\* that read at once.
BarRight ==
    /\ (Bar - Besides) - (Pages - use["free"]) \in -moved .. moved
    /\ Shown.used >= -moved \/ SlabsTakenTwice
    /\ Shown.buffers >= 0 /\ Shown.cached >= 0

LEMMA LinuxBar == MemoryInv /\ memStage = "shown" /\ machine = "linux" => BarRight
<1>. SUFFICES ASSUME MemoryInv, memStage = "shown", machine = "linux" PROVE BarRight
  OBVIOUS
<1>1. /\ Cur("free") = got.free /\ Cur("cached") = got.cached /\ Cur("slab") = got.slab
      /\ Cur("buffers") = got.buffers /\ Cur("shared") = got.shared /\ Cur("arc") = got.arc
  BY ShownFigures
<1>2. CountedInv /\ PagesInv  BY DEF MemoryInv
<1>3. /\ got.free \in Nat /\ got.cached \in Nat /\ got.slab \in Nat /\ got.buffers \in Nat /\ got.shared \in Nat
      /\ got.arc \in Nat /\ got.free - use["free"] \in -moved .. moved
      /\ got.free + got.cached + got.slab + got.buffers <= Pages
      /\ got.free + got.cached + got.slab + got.buffers + got.arc <= Pages + moved
      /\ got.shared <= got.cached
  BY <1>1, <1>2 DEF CountedInv, LinuxCounted, Figures
<1>4. moved \in Nat /\ use["free"] \in Nat /\ Pages \in Nat  BY <1>2, PlatformMemoryAssumption DEF PagesInv, Uses
<1>5. Shown = WithArc(LinuxProcessList_scanMemoryInfo)  BY DEF Shown
<1>6. /\ Shown.used = Pages - (got.free + got.cached + got.slab + got.buffers) - got.arc
      /\ Shown.buffers = got.buffers /\ Shown.shared = got.shared
      /\ Shown.cached = got.cached + got.slab - got.shared + got.arc
  BY <1>3, <1>4, <1>5 DEF WithArc, LinuxProcessList_scanMemoryInfo, Parts
<1>7. Besides = 0  BY DEF Besides
<1>. QED  BY <1>3, <1>4, <1>6, <1>7 DEF BarRight, Bar

LEMMA OneByOneBar == MemoryInv /\ memStage = "shown" /\ machine \in {"freebsd", "dragonfly", "openbsd"} => BarRight
<1>. SUFFICES ASSUME MemoryInv, memStage = "shown", machine \in {"freebsd", "dragonfly", "openbsd"} PROVE BarRight
  OBVIOUS
<1>1. CountedInv /\ PagesInv /\ BSDCounted  BY DEF MemoryInv, CountedInv
<1>2. moved \in Nat /\ use["free"] \in Nat /\ Pages \in Nat /\ InUse = Pages - use["free"]
  BY <1>1, PlatformMemoryAssumption DEF PagesInv, Uses, InUse
<1>3. Besides = 0  BY DEF Besides
<1>4. \A n \in Figures : Cur(n) \in Nat  BY <1>1 DEF CountedInv
<1>5. CASE machine = "freebsd"
  <2>1. /\ got.active \in Nat /\ got.wired \in Nat /\ got.buffers \in Nat /\ got.cache \in Nat /\ got.arc \in Nat
        /\ got.active + got.wired + got.buffers + got.cache - InUse \in -moved .. moved
        /\ got.wired - got.arc >= -moved
    BY <1>1, <1>4, <1>5, ShownFigures DEF BSDCounted, Figures
  <2>2. /\ Shown.used = got.active + (got.wired - got.arc) /\ Shown.buffers = got.buffers /\ Shown.shared = 0
        /\ Shown.cached = got.cache + got.arc
    BY <1>5 DEF Shown, FreeBSDProcessList_scanMemoryInfo, Parts
  <2>. QED  BY <1>2, <1>3, <2>1, <2>2 DEF BarRight, Bar
<1>6. CASE machine = "dragonfly"
  <2>1. /\ got.active \in Nat /\ got.wired \in Nat /\ got.buffers \in Nat /\ got.cache \in Nat
        /\ got.active + got.wired + got.buffers + got.cache - InUse \in -moved .. moved
    BY <1>1, <1>4, <1>6, ShownFigures DEF BSDCounted, Figures
  <2>2. /\ Shown.used = got.active + got.wired /\ Shown.buffers = got.buffers /\ Shown.shared = 0
        /\ Shown.cached = got.cache
    BY <1>6 DEF Shown, DragonFlyBSDProcessList_scanMemoryInfo, Parts
  <2>. QED  BY <1>2, <1>3, <2>1, <2>2 DEF BarRight, Bar
<1>7. CASE machine = "openbsd"
  <2>1. /\ got.free \in Nat /\ got.buffers \in Nat /\ got.cache \in Nat
        /\ got.free + got.buffers + got.cache <= Pages + moved
        /\ got.free - use["free"] \in -moved .. moved
    BY <1>1, <1>4, <1>7, ShownFigures DEF BSDCounted, Figures, CountedInv
  <2>2. /\ Shown.used = (Pages - got.free) - (got.buffers + got.cache) /\ Shown.buffers = 0 /\ Shown.shared = 0
        /\ Shown.cached = got.buffers + got.cache
    BY <1>7 DEF Shown, OpenBSDProcessList_scanMemoryInfo, Parts
  <2>. QED  BY <1>2, <1>3, <2>1, <2>2 DEF BarRight, Bar
<1>. QED  BY <1>5, <1>6, <1>7

LEMMA AtOnceBar == MemoryInv /\ memStage = "shown" /\ machine \in {"pcp", "netbsd", "solaris", "darwin"} => BarRight
<1>. SUFFICES ASSUME MemoryInv, memStage = "shown", machine \in {"pcp", "netbsd", "solaris", "darwin"} PROVE BarRight
  OBVIOUS
<1>1. CountedInv /\ PagesInv /\ OnceCounted  BY DEF MemoryInv, CountedInv
<1>2. moved \in Nat /\ use["free"] \in Nat /\ Pages \in Nat  BY <1>1, PlatformMemoryAssumption DEF PagesInv, Uses
<1>3. \A n \in Figures : got[n] \in Nat /\ got[n] = Cur(n)  BY <1>1, ShownFigures DEF CountedInv
<1>4. /\ got.active \in Nat /\ got.wired \in Nat /\ got.buffers \in Nat /\ got.cache \in Nat /\ got.free \in Nat
      /\ got.cached \in Nat /\ got.shared \in Nat /\ got.arc \in Nat /\ got.slab \in Nat
  BY <1>3 DEF Figures
<1>5. /\ got.active + got.wired + got.buffers + got.cache + got.free = Pages
      /\ got.cached = got.cache + got.shared /\ got.shared <= got.active /\ got.arc + got.slab <= got.wired
  BY <1>1, <1>3 DEF OnceCounted, Figures
<1>6. got.free - use["free"] \in -moved .. moved  BY <1>1, <1>3 DEF CountedInv, Figures
<1>7. CASE machine = "pcp"
  <2>1. Shown = WithArc(PCPProcessList_updateMemoryInfo)  BY <1>7 DEF Shown
  <2>. DEFINE much == got.free + (got.cached + got.slab - got.shared) + got.slab + got.buffers
  <2>2. /\ Shown.used = (IF Pages >= much THEN Pages - much ELSE Pages - got.free) - got.arc
        /\ Shown.buffers = got.buffers /\ Shown.shared = got.shared
        /\ Shown.cached = got.cached + got.slab - got.shared + got.arc
    BY <1>4, <2>1 DEF WithArc, PCPProcessList_updateMemoryInfo, Parts
  <2>3. CASE Pages >= much
    <3>1. Besides = got.shared - got.slab  BY <1>2, <1>4, <1>7, <2>3 DEF Besides
    <3>2. Shown.used = Pages - much - got.arc  BY <1>4, <1>2, <2>2, <2>3
    <3>3. Shown.used >= 0 \/ got.slab > got.active + (got.wired - got.arc - got.slab)  BY <1>4, <1>5, <3>2
    <3>. QED  BY <1>2, <1>4, <1>5, <1>6, <1>7, <2>2, <3>1, <3>2, <3>3 DEF BarRight, Bar, SlabsTakenTwice
  <2>4. CASE Pages < much
    <3>1. Besides = got.buffers + got.cached + got.slab  BY <1>2, <1>4, <1>7, <2>4 DEF Besides
    <3>. QED  BY <1>2, <1>4, <1>5, <1>6, <2>2, <2>4, <3>1 DEF BarRight, Bar
  <2>. QED  BY <1>2, <1>4, <2>3, <2>4
<1>8. CASE machine = "netbsd"
  <2>1. /\ Shown.used = got.active + got.wired /\ Shown.buffers = 0 /\ Shown.shared = 0
        /\ Shown.cached = got.cache + got.buffers
    BY <1>8 DEF Shown, NetBSDProcessList_scanMemoryInfo, Parts
  <2>2. Besides = 0  BY <1>8 DEF Besides
  <2>. QED  BY <1>2, <1>4, <1>5, <1>6, <2>1, <2>2 DEF BarRight, Bar
<1>9. CASE machine = "solaris"
  <2>1. /\ Shown.used = Pages - got.free /\ Shown.buffers = got.wired /\ Shown.shared = 0 /\ Shown.cached = 0
    <3>1. Pages >= got.free  BY <1>4, <1>5
    <3>2. (IF Pages > got.free THEN Pages - got.free ELSE 0) = Pages - got.free  BY <1>2, <1>4, <3>1
    <3>. QED  BY <1>9, <3>2 DEF Shown, SolarisProcessList_scanMemoryInfo, Parts
  <2>2. Besides = got.wired  BY <1>9 DEF Besides
  <2>. QED  BY <1>2, <1>4, <1>5, <1>6, <2>1, <2>2 DEF BarRight, Bar
<1>10. CASE machine = "darwin"
  <2>1. /\ Shown.used = got.active + got.wired - got.slab /\ Shown.buffers = got.slab /\ Shown.shared = 0
        /\ Shown.cached = got.cache + got.buffers
    BY <1>10 DEF Shown, Darwin_setMemoryValues, Parts
  <2>2. Besides = 0  BY <1>10 DEF Besides
  <2>. QED  BY <1>2, <1>4, <1>5, <1>6, <2>1, <2>2 DEF BarRight, Bar
<1>. QED  BY <1>7, <1>8, <1>9, <1>10

\* Huge pages in use and RAM disks, if nothing changed while they were read.
LEMMA OtherFigures ==
    ASSUME MemoryInv, memStage = "shown", machine = "linux", moved = 0
    PROVE  /\ LinuxProcessList_scanHugePages = huge.used
           /\ disks # {1} => LinuxProcessList_scanZramInfo = disks
<1>1. \A n \in DOMAIN got : got[n] = Numbers[n]  BY DEF MemoryInv, CountedInv
<1>2. {"hugeTotal", "hugeFree", "disks"} \subseteq DOMAIN got  BY ShownFigures
<1>3. NumbersAre /\ PagesInv  BY NumbersFacts DEF MemoryInv
<1>4. got.hugeTotal = huge.used + huge.free /\ got.hugeFree = huge.free /\ got.disks = disks
  BY <1>1, <1>2, <1>3 DEF NumbersAre
<1>5. huge.used \in 0 .. 1 /\ huge.free \in 0 .. 1 /\ disks \in SUBSET (0 .. 1)  BY <1>3 DEF PagesInv
<1>6. LinuxProcessList_scanHugePages = huge.used
  BY <1>4, <1>5 DEF LinuxProcessList_scanHugePages, Unsigned
<1>7. ASSUME disks # {1} PROVE LinuxProcessList_scanZramInfo = disks
  <2>0. \A d \in disks : d = 0 \/ d = 1  BY <1>5
  <2>1. \A d \in disks : d = 0 \/ (d = 1 /\ 0 \in disks)  BY <2>0, <1>7
  <2>2. \A d \in disks : 0 .. d \subseteq disks  BY <1>5, <2>1
  <2>. QED  BY <1>4, <2>2 DEF LinuxProcessList_scanZramInfo
<1>. QED  BY <1>6, <1>7

\* MemoryMeter, Platform_setMemoryValues: for any number of pages that move while
\* they are counted, each system's bar shows the pages in use once, to the pages
\* that moved, but for what Besides names; no part is negative.
THEOREM MemoryIsRight == MemorySpec => []MemoryAddsUp
<1>1. MemoryInit => MemoryInv  BY InitMemoryInv
<1>2. MemoryInv /\ [MemoryNext]_memoryVars => MemoryInv'  BY MemoryStep
<1>3. MemoryInv => MemoryAddsUp
  <2>. SUFFICES ASSUME MemoryInv, memStage = "shown"
                PROVE  BarRight /\ (machine = "linux" /\ moved = 0 =>
                                      /\ LinuxProcessList_scanHugePages = huge.used
                                      /\ disks # {1} => LinuxProcessList_scanZramInfo = disks)
    BY DEF MemoryAddsUp, BarRight
  <2>1. machine \in AllMemorySystems  BY DEF MemoryInv, PagesInv
  <2>2. BarRight  BY <2>1, LinuxBar, OneByOneBar, AtOnceBar DEF AllMemorySystems
  <2>. QED  BY <2>2, OtherFigures
<1>. QED  BY <1>1, <1>2, <1>3, PTL DEF MemorySpec

-----------------------------------------------------------------------------
(* The CPUs of the other systems: sums                                      *)

\* p has the sums of the first values of f.
Prefix(p, f, n) ==
    /\ n \in Nat /\ f \in [1 .. n -> Int]
    /\ p \in [0 .. n -> Int] /\ p[0] = 0 /\ \A i \in 1 .. n : p[i] = p[i - 1] + f[i]

\* Such sums there are.
LEMMA PrefixExists ==
    ASSUME NEW n \in Nat, NEW f \in [1 .. n -> Int]
    PROVE  \E p : Prefix(p, f, n)
<1>. DEFINE op == [i \in 0 .. n |-> [x \in Int |-> IF i = 0 THEN x ELSE x + f[i]]]
            W == [i \in 0 .. n |-> Int]
<1>1. \A i \in 0 .. n : i # n => \A x \in W[i] : op[i + 1][x] \in W[i + 1]  OBVIOUS
<1>2. \A i \in 0 .. n : i # 0 => \A x \in Int : op[i][x] = x + f[i]  OBVIOUS
<1>3. 0 \in W[0] /\ \A i \in 0 .. n : W[i] = Int  OBVIOUS
<1>. HIDE DEF op, W
<1>10. 0 \in Int /\ n \in Int /\ 0 <= n  OBVIOUS
<1>4. PICK g : Chain(g, 0, n, 0, op)  BY <1>1, <1>3, <1>10, ChainExists
<1>5. \A i \in 0 .. n : g[i] \in W[i]  BY <1>1, <1>3, <1>4, <1>10, ChainType
<1>11. \A i \in 0 .. n : g[i] = IF i = 0 THEN 0 ELSE op[i][g[i - 1]]  BY <1>4 DEF Chain
<1>6. g = [i \in 0 .. n |-> g[i]]  BY <1>4 DEF Chain
<1>7. \A i \in 0 .. n : g[i] \in Int  BY <1>3, <1>5
<1>8. g \in [0 .. n -> Int]  BY <1>6, <1>7
<1>9. ASSUME NEW i \in 1 .. n PROVE g[i] = g[i - 1] + f[i]
  <2>1. i \in 0 .. n /\ i # 0 /\ i - 1 \in 0 .. n  OBVIOUS
  <2>2. g[i] = op[i][g[i - 1]] /\ g[i - 1] \in Int  BY <1>7, <1>11, <2>1
  <2>. QED  BY <1>2, <2>1, <2>2
<1>13. 0 \in 0 .. n  BY <1>10
<1>12. g[0] = 0  BY <1>11, <1>13
<1>. QED  BY <1>8, <1>9, <1>12 DEF Prefix

Differ(h, f, g, n) == \A i \in 1 .. n : h[i] = f[i] - g[i]

\* Sums of differences are differences of sums.
LEMMA PrefixDifference ==
    ASSUME NEW n, NEW f, NEW g, NEW h, NEW p, NEW q, NEW r,
           Prefix(p, f, n), Prefix(q, g, n), Prefix(r, h, n), Differ(h, f, g, n)
    PROVE  p[n] \in Int /\ q[n] \in Int /\ r[n] = p[n] - q[n]
<1>. DEFINE T == {i \in 0 .. n : r[i] = p[i] - q[i]}
<1>4. n \in Nat /\ f \in [1 .. n -> Int] /\ g \in [1 .. n -> Int] /\ h \in [1 .. n -> Int]  BY DEF Prefix
<1>1. 0 \in T  BY <1>4 DEF Prefix
<1>2. ASSUME NEW i \in 0 .. n, i # n, i \in T PROVE i + 1 \in T
  <2>1. i + 1 \in 1 .. n /\ (i + 1) - 1 = i  BY <1>2, <1>4
  <2>2. p[i] \in Int /\ q[i] \in Int /\ r[i] \in Int  BY <1>4 DEF Prefix
  <2>3. p[i + 1] = p[i] + f[i + 1] /\ q[i + 1] = q[i] + g[i + 1] /\ r[i + 1] = r[i] + h[i + 1]
    BY <2>1 DEF Prefix
  <2>4. f[i + 1] \in Int /\ g[i + 1] \in Int /\ h[i + 1] = f[i + 1] - g[i + 1]  BY <1>4, <2>1 DEF Differ
  <2>. QED  BY <1>2, <2>1, <2>2, <2>3, <2>4
<1>3. n \in T
  <2>. HIDE DEF T
  <2>1. 0 \in Int /\ n \in Int /\ 0 <= n /\ n \in 0 .. n  BY <1>4
  <2>2. \A i \in 0 .. n : i # n /\ i \in T => i + 1 \in T  BY <1>2, <1>4
  <2>3. \A i \in 0 .. n : i \in T  BY <1>1, <2>1, <2>2, IntervalInduction
  <2>. QED  BY <2>1, <2>3
<1>. QED  BY <1>3, <1>4 DEF Prefix

\* Sums of natural numbers are natural numbers.
LEMMA PrefixNat ==
    ASSUME NEW n \in Nat, NEW f \in [1 .. n -> Nat], NEW p, Prefix(p, f, n)
    PROVE  p[n] \in Nat
<1>. DEFINE T == {i \in 0 .. n : p[i] \in Nat}
<1>1. 0 \in T  BY DEF Prefix
<1>2. ASSUME NEW i \in 0 .. n, i # n, i \in T PROVE i + 1 \in T
  <2>1. i + 1 \in 1 .. n /\ (i + 1) - 1 = i  BY <1>2
  <2>2. p[i + 1] = p[i] + f[i + 1] /\ f[i + 1] \in Nat  BY <2>1 DEF Prefix
  <2>. QED  BY <1>2, <2>1, <2>2
<1>3. n \in T
  <2>. HIDE DEF T
  <2>1. 0 \in Int /\ n \in Int /\ 0 <= n /\ n \in 0 .. n  OBVIOUS
  <2>2. \A i \in 0 .. n : i # n /\ i \in T => i + 1 \in T  BY <1>2
  <2>3. \A i \in 0 .. n : i \in T  BY <1>1, <2>1, <2>2, IntervalInduction
  <2>. QED  BY <2>1, <2>3
<1>. QED  BY <1>3

Single(f, x, n) == x \in 1 .. n /\ \A i \in 1 .. n : i # x => f[i] = 0

\* A sum of one value besides zeros is that value.
LEMMA PrefixSingle ==
    ASSUME NEW n, NEW f, NEW p, NEW x, Prefix(p, f, n), Single(f, x, n)
    PROVE  p[n] = f[x]
<1>. DEFINE T == {i \in 0 .. n : p[i] = IF i < x THEN 0 ELSE f[x]}
<1>4. n \in Nat /\ f \in [1 .. n -> Int]  BY DEF Prefix
<1>5. x \in 1 .. n /\ \A i \in 1 .. n : i # x => f[i] = 0  BY DEF Single
<1>1. 0 \in T  BY <1>4, <1>5 DEF Prefix
<1>2. ASSUME NEW i \in 0 .. n, i # n, i \in T PROVE i + 1 \in T
  <2>1. i + 1 \in 1 .. n /\ (i + 1) - 1 = i  BY <1>2, <1>4
  <2>2. p[i + 1] = p[i] + f[i + 1] /\ f[i + 1] \in Int /\ f[x] \in Int  BY <1>4, <1>5, <2>1 DEF Prefix
  <2>3. CASE i + 1 = x  BY <1>2, <1>5, <2>1, <2>2, <2>3
  <2>4. CASE i + 1 # x
    <3>1. f[i + 1] = 0  BY <1>5, <2>1, <2>4
    <3>. QED  BY <1>2, <1>5, <2>1, <2>2, <2>4, <3>1
  <2>. QED  BY <2>3, <2>4
<1>3. n \in T
  <2>. HIDE DEF T
  <2>1. 0 \in Int /\ n \in Int /\ 0 <= n /\ n \in 0 .. n  BY <1>4
  <2>2. \A i \in 0 .. n : i # n /\ i \in T => i + 1 \in T  BY <1>2, <1>4
  <2>3. \A i \in 0 .. n : i \in T  BY <1>1, <2>1, <2>2, IntervalInduction
  <2>. QED  BY <2>1, <2>3
<1>. QED  BY <1>3, <1>4, <1>5

\* The values of kind k of the CPUs in S, and nothing of the others.
Masked(f, S, k) == [c \in CPUs |-> IF c \in S THEN f[c][k] ELSE 0]

IsMask(m, f, S, k) ==
    m \in [1 .. existing -> Int] /\ \A c \in 1 .. existing : m[c] = IF c \in S THEN f[c][k] ELSE 0

LEMMA MaskedType ==
    ASSUME NEW S \in SUBSET CPUs, NEW f \in [CPUs -> [Kinds -> Int]], NEW k \in Kinds
    PROVE  IsMask(Masked(f, S, k), f, S, k)
<1>1. ASSUME NEW c \in CPUs PROVE f[c][k] \in Int
  <2>1. f[c] \in [Kinds -> Int]  OBVIOUS
  <2>. QED  BY <2>1
<1>. QED  BY <1>1 DEF Masked, CPUs, IsMask

LEMMA CPUsAreFinite ==
    ASSUME existing \in Nat
    PROVE  IsFiniteSet(CPUs) /\ Cardinality(CPUs) = existing /\ \A S \in SUBSET CPUs : IsFiniteSet(S)
<1>1. IsFiniteSet(CPUs) /\ Cardinality(CPUs) = existing  BY FS_Interval DEF CPUs
<1>. QED  BY <1>1, FS_Subset

\* The element that FoldSet takes first.
Taken(s) == CHOOSE x \in s : TRUE

\* However the CPUs are taken, their sum is that in the order of their numbers.
LEMMA SumIsPrefix ==
    ASSUME existing \in Nat, NEW S \in SUBSET CPUs, NEW f \in [CPUs -> [Kinds -> Int]], NEW k \in Kinds,
           NEW p, Prefix(p, Masked(f, S, k), existing)
    PROVE  Sum(f, S)[k] = p[existing]
<1>. DEFINE pick == [s \in SUBSET S |-> Taken(s)]
            op == [c \in S |-> [v \in Int |-> v + f[c][k]]]
            Iter(g) == g = [s \in SUBSET S |-> IF s = {} THEN 0 ELSE g[s \ {Taken(s)}] + f[Taken(s)][k]]
<1>1. \A s \in SUBSET S : s # {} => Taken(s) \in s  BY DEF Taken
<1>2. IsPick(pick, S) /\ \A s \in SUBSET S : pick[s] = Taken(s)  BY <1>1 DEF IsPick
<1>3. \A c \in S : f[c][k] \in Int
  <2>1. \A c \in S : f[c] \in [Kinds -> Int]  OBVIOUS
  <2>. QED  BY <2>1
<1>4. op \in [S -> [Int -> Int]] /\ \A c \in S : \A v \in Int : op[c][v] = v + f[c][k]  BY <1>3
<1>5. Sum(f, S)[k] = (CHOOSE h : Iter(h))[S]  BY DEF Sum, FX!FoldSet, FX!MapThenFoldSet, Taken
<1>6. IsFiniteSet(S)  BY CPUsAreFinite
<1>. HIDE DEF pick, op
<1>7. PICK g \in [SUBSET S -> Int] : Folding(g, S, 0, op, pick)  
  <2>1. IsPick(pick, S) /\ op \in [S -> [Int -> Int]] /\ 0 \in Int  BY <1>2, <1>4
  <2>. QED  BY <1>6, <2>1, FoldExists, Zenon
<1>8. Iter(g)
  <2>1. ASSUME NEW s \in SUBSET S
        PROVE  g[s] = IF s = {} THEN 0 ELSE g[s \ {Taken(s)}] + f[Taken(s)][k]
    <3>1. CASE s = {}  BY <1>7, <3>1 DEF Folding
    <3>2. CASE s # {}
      <4>1. g[s] = op[Taken(s)][g[s \ {Taken(s)}]]  BY <1>2, <1>7, <3>2 DEF Folding
      <4>2. Taken(s) \in S /\ g[s \ {Taken(s)}] \in Int  BY <1>1, <3>2
      <4>. QED  BY <1>4, <3>2, <4>1, <4>2
    <3>. QED  BY <3>1, <3>2
  <2>. QED  BY <2>1
<1>9. PICK h : Iter(h) /\ Sum(f, S)[k] = h[S]
  <2>. HIDE DEF Iter
  <2>. QED  BY <1>5, <1>8
<1>. DEFINE M(s) == Masked(f, s, k)
            T == {s \in SUBSET S : \A q : Prefix(q, M(s), existing) => h[s] = q[existing]}
<1>10. {} \in T
  <2>1. SUFFICES ASSUME NEW q, Prefix(q, M({}), existing) PROVE h[{}] = q[existing]  OBVIOUS
  <2>2. M({}) \in [1 .. existing -> Int] /\ \A c \in 1 .. existing : M({})[c] = 0
    <3>1. {} \in SUBSET CPUs  OBVIOUS
    <3>2. IsMask(M({}), f, {}, k)  BY <3>1, MaskedType
    <3>. HIDE DEF M
    <3>. QED  BY <3>2 DEF IsMask
  <2>3. Differ(M({}), M({}), M({}), existing)
    <3>. HIDE DEF M
    <3>. QED  BY <2>2 DEF Differ
  <2>4. q[existing] \in Int /\ q[existing] = q[existing] - q[existing]
    <3>. HIDE DEF M
    <3>. QED  BY <2>1, <2>2, <2>3, PrefixDifference
  <2>5. h[{}] = 0  BY <1>9
  <2>. QED  BY <2>4, <2>5
<1>11. ASSUME NEW s \in SUBSET S, s # {}, s \ {pick[s]} \in T PROVE s \in T
  <2>. DEFINE x == Taken(s)
              t == s \ {x}
  <2>1. x \in s /\ x \in 1 .. existing /\ t \in T /\ h[s] = h[t] + f[x][k]
    <3>1. x \in s /\ pick[s] = x  BY <1>1, <1>2, <1>11
    <3>2. h[s] = h[t] + f[x][k]  BY <1>9, <1>11
    <3>. QED  BY <1>11, <3>1, <3>2 DEF CPUs
  <2>. HIDE DEF x
  <2>2. SUFFICES ASSUME NEW q, Prefix(q, M(s), existing) PROVE h[s] = q[existing]  OBVIOUS
  <2>14. s \in SUBSET CPUs /\ t \in SUBSET CPUs /\ {x} \in SUBSET CPUs  BY <2>1
  <2>3. M(s) \in [1 .. existing -> Int] /\ \A c \in 1 .. existing : M(s)[c] = IF c \in s THEN f[c][k] ELSE 0
    <3>1. IsMask(M(s), f, s, k)  BY <2>14, MaskedType
    <3>. HIDE DEF M
    <3>. QED  BY <3>1 DEF IsMask
  <2>4. M(t) \in [1 .. existing -> Int] /\ \A c \in 1 .. existing : M(t)[c] = IF c \in t THEN f[c][k] ELSE 0
    <3>1. IsMask(M(t), f, t, k)  BY <2>14, MaskedType
    <3>. HIDE DEF M
    <3>. QED  BY <3>1 DEF IsMask
  <2>5. M({x}) \in [1 .. existing -> Int] /\ \A c \in 1 .. existing : M({x})[c] = IF c \in {x} THEN f[c][k] ELSE 0
    <3>1. IsMask(M({x}), f, {x}, k)  BY <2>14, MaskedType
    <3>. HIDE DEF M
    <3>. QED  BY <3>1 DEF IsMask
  <2>6. Differ(M(t), M(s), M({x}), existing)
    <3>1. \A c \in 1 .. existing : M(s)[c] \in Int  BY <2>3
    <3>2. SUFFICES ASSUME NEW c \in 1 .. existing PROVE M(t)[c] = M(s)[c] - M({x})[c]  BY DEF Differ
    <3>3. M(s)[c] \in Int  BY <3>1
    <3>4. M(s)[c] = (IF c \in s THEN f[c][k] ELSE 0)  BY <2>3
    <3>5. M(t)[c] = (IF c \in t THEN f[c][k] ELSE 0)  BY <2>4
    <3>6. M({x})[c] = (IF c \in {x} THEN f[c][k] ELSE 0)  BY <2>5
    <3>7. f[c][k] \in Int
      <4>1. f[c] \in [Kinds -> Int]  BY DEF CPUs
      <4>. QED  BY <4>1
    <3>8. x \in s  BY <2>1
    <3>. DEFINE u == M(s)[c]
                v == M(t)[c]
                w == M({x})[c]
    <3>9. /\ u \in Int /\ f[c][k] \in Int
          /\ u = (IF c \in s THEN f[c][k] ELSE 0)
          /\ v = (IF c \in s /\ c # x THEN f[c][k] ELSE 0)
          /\ w = (IF c = x THEN f[c][k] ELSE 0)
      BY <3>3, <3>4, <3>5, <3>6, <3>7
    <3>. HIDE DEF u, v, w
    <3>10. v = u - w  BY <3>8, <3>9
    <3>. QED  BY <3>10 DEF u, v, w
  <2>7. Single(M({x}), x, existing)
    <3>. HIDE DEF M
    <3>. QED  BY <2>1, <2>5 DEF Single
  <2>8. M({x})[x] = f[x][k]  BY <2>1, <2>5
  <2>. HIDE DEF M
  <2>9. PICK a : Prefix(a, M(t), existing)  BY <2>4, PrefixExists
  <2>10. PICK b : Prefix(b, M({x}), existing)  BY <2>5, PrefixExists
  <2>11. q[existing] \in Int /\ b[existing] \in Int /\ a[existing] = q[existing] - b[existing]
    BY <2>2, <2>6, <2>9, <2>10, PrefixDifference
  <2>12. b[existing] = M({x})[x]  BY <2>7, <2>10, PrefixSingle
  <2>13. h[t] = a[existing]  BY <2>1, <2>9
  <2>. QED  BY <2>1, <2>8, <2>11, <2>12, <2>13
<1>12. T = SUBSET S
  <2>. HIDE DEF T
  <2>1. T \in SUBSET SUBSET S  BY DEF T
  <2>2. IsPick(pick, S)  BY <1>2
  <2>3. Refills(T, pick, S)  BY <1>11 DEF Refills
  <2>. QED  BY <1>6, <1>10, <2>1, <2>2, <2>3, SubsetInduction, Zenon
<1>13. S \in T  BY <1>12
<1>. QED  BY <1>9, <1>13

LEMMA SumType ==
    ASSUME existing \in Nat, NEW S \in SUBSET CPUs, NEW f \in [CPUs -> [Kinds -> Nat]]
    PROVE  Sum(f, S) \in [Kinds -> Nat]
<1>1. f \in [CPUs -> [Kinds -> Int]]  OBVIOUS
<1>2. ASSUME NEW k \in Kinds PROVE Sum(f, S)[k] \in Nat
  <2>1. Masked(f, S, k) \in [1 .. existing -> Nat]
    <3>1. ASSUME NEW c \in 1 .. existing PROVE Masked(f, S, k)[c] \in Nat
      <4>1. Masked(f, S, k)[c] = IF c \in S THEN f[c][k] ELSE 0
        <5>1. IsMask(Masked(f, S, k), f, S, k)  BY <1>1, MaskedType
        <5>. QED  BY <5>1 DEF IsMask
      <4>2. f[c] \in [Kinds -> Nat]  BY DEF CPUs
      <4>3. f[c][k] \in Nat  BY <4>2
      <4>. QED  BY <4>1, <4>3
    <3>2. Masked(f, S, k) \in [1 .. existing -> Int]  BY <1>1, MaskedType DEF IsMask
    <3>. QED  BY <3>1, <3>2
  <2>2. PICK p : Prefix(p, Masked(f, S, k), existing)
    <3>1. Masked(f, S, k) \in [1 .. existing -> Int]  BY <1>1, MaskedType DEF IsMask
    <3>. QED  BY <3>1, PrefixExists
  <2>3. p[existing] \in Nat  BY <2>1, <2>2, PrefixNat
  <2>. QED  BY <1>1, <2>2, <2>3, SumIsPrefix
<1>3. Sum(f, S) = [k \in Kinds |-> Sum(f, S)[k]]  BY DEF Sum
<1>. QED  BY <1>2, <1>3

Apart(h, T, f, g, S, k) == \A c \in CPUs : Masked(h, T, k)[c] = Masked(f, S, k)[c] - Masked(g, S, k)[c]

\* What the CPUs of S have counted from g to f is the sum of what the CPUs of
\* T have, if the others have counted nothing.
LEMMA SumDifference ==
    ASSUME existing \in Nat, NEW S \in SUBSET CPUs, NEW T \in SUBSET CPUs, NEW k \in Kinds,
           NEW f \in [CPUs -> [Kinds -> Int]], NEW g \in [CPUs -> [Kinds -> Int]], NEW h \in [CPUs -> [Kinds -> Int]],
           Apart(h, T, f, g, S, k)
    PROVE  Sum(h, T)[k] = Sum(f, S)[k] - Sum(g, S)[k]
<1>1. Masked(f, S, k) \in [1 .. existing -> Int]  BY MaskedType DEF IsMask
<1>2. Masked(g, S, k) \in [1 .. existing -> Int]  BY MaskedType DEF IsMask
<1>3. Masked(h, T, k) \in [1 .. existing -> Int]  BY MaskedType DEF IsMask
<1>4. PICK p : Prefix(p, Masked(f, S, k), existing)  BY <1>1, PrefixExists
<1>5. PICK q : Prefix(q, Masked(g, S, k), existing)  BY <1>2, PrefixExists
<1>6. PICK r : Prefix(r, Masked(h, T, k), existing)  BY <1>3, PrefixExists
<1>7. r[existing] = p[existing] - q[existing]
  <2>. DEFINE a == Masked(f, S, k)
              b == Masked(g, S, k)
              d == Masked(h, T, k)
  <2>1. Differ(d, a, b, existing)  BY DEF CPUs, Differ, Apart
  <2>2. Prefix(p, a, existing) /\ Prefix(q, b, existing) /\ Prefix(r, d, existing)  BY <1>4, <1>5, <1>6
  <2>3. a \in [1 .. existing -> Int] /\ b \in [1 .. existing -> Int] /\ d \in [1 .. existing -> Int]  BY <1>1, <1>2, <1>3
  <2>. HIDE DEF a, b, d
  <2>. QED  BY <2>1, <2>2, <2>3, PrefixDifference
<1>8. Sum(f, S)[k] = p[existing]  BY <1>4, SumIsPrefix
<1>9. Sum(g, S)[k] = q[existing]  BY <1>5, SumIsPrefix
<1>10. Sum(h, T)[k] = r[existing]  BY <1>6, SumIsPrefix
<1>. QED  BY <1>7, <1>8, <1>9, <1>10

\* Where there is one CPU, it has all.
LEMMA SumOfOne ==
    ASSUME existing = 1, NEW f \in [CPUs -> [Kinds -> Int]]
    PROVE  Sum(f, CPUs) = f[1]
<1>1. ASSUME NEW k \in Kinds PROVE Sum(f, CPUs)[k] = f[1][k]
  <2>. DEFINE m == Masked(f, CPUs, k)
  <2>1. m \in [1 .. existing -> Int] /\ m[1] = f[1][k]
    <3>1. /\ m \in [1 .. existing -> Int]
          /\ \A c \in 1 .. existing : m[c] = IF c \in CPUs THEN f[c][k] ELSE 0
      BY MaskedType DEF IsMask
    <3>. HIDE DEF m
    <3>. QED  BY <3>1 DEF CPUs
  <2>2. PICK p : Prefix(p, m, existing)
    <3>. HIDE DEF m
    <3>. QED  BY <2>1, PrefixExists
  <2>3. p[existing] = m[1]
    <3>. HIDE DEF m
    <3>. QED  BY <2>1, <2>2 DEF Prefix
  <2>4. Sum(f, CPUs)[k] = p[existing]  BY <2>2, SumIsPrefix
  <2>. QED  BY <2>1, <2>3, <2>4
<1>2. Sum(f, CPUs) = [k \in Kinds |-> Sum(f, CPUs)[k]]  BY DEF Sum
<1>3. f[1] \in [Kinds -> Int]  BY DEF CPUs
<1>. QED  BY <1>1, <1>2, <1>3

-----------------------------------------------------------------------------
(* Clicks and shares                                                        *)

Clicks == [CPUs -> [Kinds -> Nat]]
CPURow == [online : BOOLEAN, parts : [Kinds -> Int], total : Int, time : [Kinds -> Nat], totalTime : Nat]

LEMMA KindsFacts ==
    /\ "user" \in Kinds /\ "system" \in Kinds /\ "idle" \in Kinds
    /\ \A k \in Kinds : k = "user" \/ k = "system" \/ k = "idle"
BY DEF Kinds

LEMMA TotalType ==
    /\ \A t \in [Kinds -> Nat] : Total(t) \in Nat
    /\ \A t \in [Kinds -> Int] : Total(t) \in Int
    /\ \A a, b \in [Kinds -> Int] : Since(a, b) \in [Kinds -> Int] /\ Total(Since(a, b)) = Total(a) - Total(b)
<1>1. ASSUME NEW t \in [Kinds -> Nat] PROVE Total(t) \in Nat
  <2>1. t["user"] \in Nat /\ t["system"] \in Nat /\ t["idle"] \in Nat  BY KindsFacts
  <2>. QED  BY <2>1 DEF Total
<1>2. ASSUME NEW t \in [Kinds -> Int] PROVE Total(t) \in Int
  <2>1. t["user"] \in Int /\ t["system"] \in Int /\ t["idle"] \in Int  BY KindsFacts
  <2>. QED  BY <2>1 DEF Total
<1>3. ASSUME NEW a \in [Kinds -> Int], NEW b \in [Kinds -> Int]
      PROVE  Since(a, b) \in [Kinds -> Int] /\ Total(Since(a, b)) = Total(a) - Total(b)
  <2>1. \A k \in Kinds : a[k] \in Int /\ b[k] \in Int  OBVIOUS
  <2>2. Since(a, b) \in [Kinds -> Int] /\ \A k \in Kinds : Since(a, b)[k] = a[k] - b[k]  BY <2>1 DEF Since
  <2>. HIDE DEF Since
  <2>. QED  BY <2>1, <2>2, KindsFacts DEF Total
<1>. QED  BY <1>1, <1>2, <1>3

\* b is not before a.
NoLess(a, b) == \A k \in Kinds : a[k] <= b[k]

LEMMA GrownTotal ==
    ASSUME NEW a \in [Kinds -> Nat], NEW b \in [Kinds -> Nat], NoLess(a, b)
    PROVE  Total(a) <= Total(b) /\ Total(Since(b, a)) = Total(b) - Total(a)
<1>1. a["user"] \in Nat /\ a["system"] \in Nat /\ a["idle"] \in Nat  BY KindsFacts
<1>2. b["user"] \in Nat /\ b["system"] \in Nat /\ b["idle"] \in Nat  BY KindsFacts
<1>3. a["user"] <= b["user"] /\ a["system"] <= b["system"] /\ a["idle"] <= b["idle"]  BY KindsFacts DEF NoLess
<1>4. Total(a) <= Total(b)  BY <1>1, <1>2, <1>3 DEF Total
<1>. QED  BY <1>4, TotalType

\* Max and Min of two numbers.
LEMMA TwoFacts ==
    ASSUME NEW a \in Int, NEW b \in Int
    PROVE  /\ FX!Max({a, b}) = IF a >= b THEN a ELSE b
           /\ FX!Min({a, b}) = IF a <= b THEN a ELSE b
<1>1. \E x \in {a, b} : \A y \in {a, b} : x >= y  OBVIOUS
<1>2. \E x \in {a, b} : \A y \in {a, b} : x <= y  OBVIOUS
<1>3. FX!Max({a, b}) \in {a, b} /\ \A y \in {a, b} : FX!Max({a, b}) >= y  BY <1>1 DEF FX!Max
<1>4. FX!Min({a, b}) \in {a, b} /\ \A y \in {a, b} : FX!Min({a, b}) <= y  BY <1>2 DEF FX!Min
<1>. QED  BY <1>3, <1>4

\* A bar is not longer than its meter.
LEMMA PercentBounded ==
    ASSUME NEW d, d.parts \in [Kinds -> Int], d.total \in Nat
    PROVE  Percent(d) <= 100
<1>1. Busy(d) \in Int  BY KindsFacts DEF Busy
<1>2. ASSUME NEW x \in Int, NEW t \in Nat \ {0} PROVE FX!Min({100, (x * 100) \div t}) <= 100
  <2>1. (x * 100) \div t \in Int  OBVIOUS
  <2>. DEFINE y == (x * 100) \div t
  <2>2. y \in Int  BY <2>1
  <2>. HIDE DEF y
  <2>3. 100 \in Int  OBVIOUS
  <2>4. FX!Min({100, y}) = IF 100 <= y THEN 100 ELSE y  BY <2>2, <2>3, TwoFacts, Zenon
  <2>5. FX!Min({100, y}) <= 100  BY <2>2, <2>4
  <2>. QED  BY <2>5 DEF y
<1>3. setCPUValues(d) <= 100
  <2>1. CASE d.total = 0
    <3>1. 1 \in Nat \ {0} /\ setCPUValues(d) = FX!Min({100, (Busy(d) * 100) \div 1})  BY <2>1 DEF setCPUValues
    <3>. QED  BY <1>1, <1>2, <3>1
  <2>2. CASE d.total # 0
    <3>1. d.total \in Nat \ {0} /\ setCPUValues(d) = FX!Min({100, (Busy(d) * 100) \div d.total})
      BY <2>2 DEF setCPUValues
    <3>. QED  BY <1>1, <1>2, <3>1
  <2>. QED  BY <2>1, <2>2
<1>4. Darwin_setCPUValues(d) <= 100
  <2>1. CASE d.total = 0  BY <2>1 DEF Darwin_setCPUValues
  <2>2. CASE d.total # 0
    <3>1. d.total \in Nat \ {0} /\ Darwin_setCPUValues(d) = FX!Min({100, (Busy(d) * 100) \div d.total})
      BY <2>2 DEF Darwin_setCPUValues
    <3>. QED  BY <1>1, <1>2, <3>1
  <2>. QED  BY <2>1, <2>2
<1>. QED  BY <1>3, <1>4 DEF Percent

\* The mean of whole clicks is at most one click off.
LEMMA MeanFacts ==
    ASSUME NEW n \in Nat \ {0}, NEW a \in Nat, NEW b \in Nat, b <= a
    PROVE  /\ a \div n \in Nat /\ b \div n \in Nat
           /\ SaturatingSub(a \div n, b \div n) * n < (a - b) + n
           /\ SaturatingSub(a \div n, b \div n) * n > (a - b) - n
<1>1. PICK q \in Int, r \in 0 .. n - 1 : q = a \div n /\ a = n * q + r
  <2>1. a \div n \in Int /\ a % n \in 0 .. n - 1 /\ a = n * (a \div n) + (a % n)  OBVIOUS
  <2>. QED  BY <2>1
<1>2. PICK p \in Int, s \in 0 .. n - 1 : p = b \div n /\ b = n * p + s
  <2>1. b \div n \in Int /\ b % n \in 0 .. n - 1 /\ b = n * (b \div n) + (b % n)  OBVIOUS
  <2>. QED  BY <2>1
<1>3. q >= 0 /\ p >= 0 /\ q >= p
  <2>1. ASSUME q < 0 PROVE FALSE
    <3>1. 0 - q - 1 \in Nat  BY <2>1
    <3>2. n * (0 - q - 1) \in Nat  BY <3>1
    <3>3. n * (0 - q - 1) = 0 - n * q - n  OBVIOUS
    <3>. QED  BY <1>1, <3>2, <3>3
  <2>2. ASSUME p < 0 PROVE FALSE
    <3>1. 0 - p - 1 \in Nat  BY <2>2
    <3>2. n * (0 - p - 1) \in Nat  BY <3>1
    <3>3. n * (0 - p - 1) = 0 - n * p - n  OBVIOUS
    <3>. QED  BY <1>2, <3>2, <3>3
  <2>3. ASSUME q < p PROVE FALSE
    <3>1. p - q - 1 \in Nat  BY <2>3
    <3>2. n * (p - q - 1) \in Nat  BY <3>1
    <3>3. n * (p - q - 1) = n * p - n * q - n  OBVIOUS
    <3>. QED  BY <1>1, <1>2, <3>2, <3>3
  <2>. QED  BY <2>1, <2>2, <2>3
<1>4. SaturatingSub(q, p) = q - p  BY <1>3 DEF SaturatingSub
<1>5. (q - p) * n = n * q - n * p  OBVIOUS
<1>6. (q - p) * n = (a - r) - (b - s)
  <2>. DEFINE u == n * q
              v == n * p
              w == (q - p) * n
  <2>1. u \in Int /\ v \in Int /\ w = u - v /\ a = u + r /\ b = v + s  BY <1>1, <1>2, <1>5
  <2>. HIDE DEF u, v, w
  <2>2. w = (a - r) - (b - s)  BY <2>1
  <2>. QED  BY <2>2 DEF w
<1>7. (q - p) * n < (a - b) + n /\ (q - p) * n > (a - b) - n
  <2>. DEFINE w == (q - p) * n
  <2>1. w = (a - r) - (b - s)  BY <1>6
  <2>. HIDE DEF w
  <2>2. w < (a - b) + n /\ w > (a - b) - n  BY <2>1
  <2>. QED  BY <2>2 DEF w
<1>. QED  BY <1>1, <1>2, <1>3, <1>4, <1>7

-----------------------------------------------------------------------------
(* The invariant                                                            *)

CPUTypeInv ==
    /\ system \in AllCPUSystems /\ existing \in Nat \ {0}
    /\ on \in SUBSET CPUs /\ on # {} /\ (system \in {"freebsd", "dragonfly", "darwin"} => on = CPUs)
    /\ clicks \in Clicks /\ earlier \in Clicks /\ spent \in 0 .. MaxClicks
    /\ data \in [0 .. existing -> CPURow] /\ active \in Nat \ {0} /\ kd \in SUBSET CPUs
    /\ cpuStage \in {"count", "time", "shown"} /\ ended \in BOOLEAN
    /\ quiet \in 0 .. 3 /\ swapped \in BOOLEAN

\* Clicks are never lost, and a CPU that has been off since the last reading has none.
ClicksInv ==
    /\ \A c \in CPUs : NoLess(earlier[c], clicks[c]) /\ Total(clicks[c]) <= spent
    /\ quiet >= 1 => \A c \in CPUs \ on : clicks[c] = earlier[c]

\* Only OpenBSD and Solaris know of CPUs that are off; only FreeBSD has a mean frequency.
FlagsInv ==
    /\ system \notin {"openbsd", "solaris"} => \A c \in CPUs : data[c].online
    /\ system = "darwin" => active = existing
    /\ system # "freebsd" => frequency[0] # "mean"

\* The CPUs have been counted since one of them was switched on or off.
Settled == quiet >= 2 \/ (quiet >= 1 /\ cpuStage = "time")

\* Then their number is right, and they are the right ones unless some were swapped.
SettledInv ==
    Settled => /\ system \in {"openbsd", "solaris", "pcp"} => active = Cardinality(on)
               /\ system = "openbsd" => (swapped <=> OnlineByData # on)
               /\ system = "solaris" => (swapped <=> kd # on)

\* The items of data that are read again with each scan, and what they keep of a reading.
ReadOnes ==
    CASE system = "openbsd" -> {0} \cup OnlineByData
      [] system = "solaris" -> IF kd = on THEN on ELSE {}
      [] system = "pcp" -> {0} \cup (IF on = 1 .. Cardinality(on) THEN on ELSE {})
      [] OTHER -> 0 .. existing

TimeOf(cl, i) ==
    CASE system = "darwin" /\ i = 0 -> Nothing
      [] system \in {"freebsd", "dragonfly", "pcp"} /\ i = 0 -> Sum(cl, CPUs)
      [] system = "netbsd" /\ i = 0 -> Averaged(Sum(cl, CPUs))
      [] system = "openbsd" /\ i = 0 -> Averaged(Sum(cl, OnlineByData))
      [] OTHER -> cl[i]

Keeps(d, t) == d.time = t /\ (system \in {"openbsd", "netbsd"} => d.totalTime = Total(t))

\* From a reading to the next, unless CPUs are switched on or off: what was read last.
Kept == ~ended /\ quiet >= 1 /\ (cpuStage # "time" \/ quiet >= 2)
KeptInv == Kept => \A i \in ReadOnes : Keeps(data[i], TimeOf(earlier, i))

CPUsInv == CPUTypeInv /\ ClicksInv /\ FlagsInv /\ SettledInv /\ KeptInv

LEMMA OnFacts ==
    ASSUME existing \in Nat, NEW S \in SUBSET CPUs
    PROVE  /\ IsFiniteSet(S) /\ Cardinality(S) \in Nat /\ (S # {} => Cardinality(S) # 0)
           /\ Cardinality(CPUs) = existing
<1>1. IsFiniteSet(S) /\ Cardinality(CPUs) = existing  BY CPUsAreFinite
<1>. QED  BY <1>1, FS_CardinalityType, FS_EmptySet

LEMMA InitialDataFacts ==
    ASSUME system \in AllCPUSystems, existing \in Nat
    PROVE  /\ InitialData \in [0 .. existing -> CPURow]
           /\ system \notin {"openbsd", "solaris"} => \A c \in CPUs : InitialData[c].online
<1>2. CPUs \subseteq 0 .. existing  BY DEF CPUs
<1>3. CPUData(TRUE, Nothing, 0, 0) \in CPURow /\ CPUData(TRUE, Nothing, 0, 0).online  BY DEF CPUData, CPURow, Nothing
<1>4. CPUData(TRUE, Nothing, 1, 1) \in CPURow /\ CPUData(TRUE, Nothing, 1, 1).online  BY DEF CPUData, CPURow, Nothing
<1>5. system \in {"freebsd", "dragonfly", "netbsd", "darwin", "pcp", "openbsd", "solaris"}  BY DEF AllCPUSystems
<1>6. CASE system = "freebsd"  BY <1>2, <1>3, <1>6 DEF InitialData, FreeBSD_new
<1>7. CASE system = "dragonfly"  BY <1>2, <1>3, <1>7 DEF InitialData, DragonFly_new
<1>8. CASE system = "netbsd"  BY <1>2, <1>4, <1>8 DEF InitialData, NetBSD_new
<1>9. CASE system = "darwin"  BY <1>2, <1>3, <1>9 DEF InitialData, Darwin_new
<1>10. CASE system = "pcp"  BY <1>2, <1>3, <1>10 DEF InitialData, PCP_new
<1>11. CASE system = "openbsd"
  <2>1. \A i \in 0 .. existing : CPUData(i = 0 \/ i \in on, Nothing, 1, 1) \in CPURow  BY DEF CPUData, CPURow, Nothing
  <2>. QED  BY <1>11, <2>1 DEF InitialData, OpenBSD_new
<1>12. CASE system = "solaris"
  <2>1. \A i \in 0 .. existing : CPUData(i = 0, Nothing, 0, 0) \in CPURow  BY DEF CPUData, CPURow, Nothing
  <2>. QED  BY <1>12, <2>1 DEF InitialData, Solaris_new
<1>. QED  BY <1>5, <1>6, <1>7, <1>8, <1>9, <1>10, <1>11, <1>12

LEMMA InitCPUsInv == CPUInit => CPUsInv
<1>. SUFFICES ASSUME CPUInit PROVE CPUsInv  OBVIOUS
<1>. USE PlatformCPUsAssumption DEF CPUInit
<1>1. system \in AllCPUSystems /\ existing \in Nat \ {0} /\ on \in SUBSET CPUs /\ on # {}  OBVIOUS
<1>2. InitialData \in [0 .. existing -> CPURow] /\ (system \notin {"openbsd", "solaris"} => \A c \in CPUs : InitialData[c].online)
  BY <1>1, InitialDataFacts
<1>3. active \in Nat \ {0} /\ (system = "darwin" => active = existing)  BY <1>1, OnFacts
<1>4. Nothing \in [Kinds -> Nat] /\ \A k \in Kinds : Nothing[k] = 0  BY DEF Nothing
<1>5. clicks \in Clicks /\ \A c \in CPUs : clicks[c] = Nothing  BY <1>4 DEF Clicks
<1>6. CPUTypeInv
  <2>1. earlier \in Clicks /\ spent \in 0 .. MaxClicks /\ quiet \in 0 .. 3  BY <1>5
  <2>2. data \in [0 .. existing -> CPURow] /\ kd \in SUBSET CPUs  BY <1>1, <1>2
  <2>3. cpuStage \in {"count", "time", "shown"} /\ ended \in BOOLEAN /\ swapped \in BOOLEAN  OBVIOUS
  <2>4. system \in {"freebsd", "dragonfly", "darwin"} => on = CPUs  OBVIOUS
  <2>. QED  BY ONLY <1>1, <1>3, <1>5, <2>1, <2>2, <2>3, <2>4 DEF CPUTypeInv
<1>7. ClicksInv
  <2>1. Total(Nothing) = 0  BY <1>4, KindsFacts DEF Total
  <2>. QED  BY <1>4, <1>5, <2>1 DEF ClicksInv, NoLess
<1>8. FlagsInv  BY <1>1, <1>2, <1>3 DEF FlagsInv
<1>9. SettledInv /\ KeptInv  BY DEF SettledInv, Settled, KeptInv, Kept
<1>. QED  BY <1>6, <1>7, <1>8, <1>9 DEF CPUsInv

-----------------------------------------------------------------------------
(* Steps of the machine                                                     *)

LEMMA ClickStep ==
    ASSUME CPUsInv, NEW c \in CPUs, NEW k \in Kinds, Click(c, k)
    PROVE  CPUsInv'
<1>. USE DEF CPUsInv, Click
<1>1. CPUs' = CPUs  BY DEF CPUs
<1>2. clicks[c] \in [Kinds -> Nat] /\ clicks[c][k] \in Nat  BY DEF CPUTypeInv, Clicks
<1>3. clicks' \in Clicks
  <2>1. [clicks[c] EXCEPT ![k] = @ + 1] \in [Kinds -> Nat]  BY <1>2
  <2>. QED  BY <2>1 DEF CPUTypeInv, Clicks
<1>4. CPUTypeInv'
  <2>1. Clicks' = Clicks  BY <1>1 DEF Clicks
  <2>2. spent' \in 0 .. MaxClicks  BY PlatformCPUsAssumption DEF CPUTypeInv
  <2>. QED  BY <1>1, <1>3, <2>1, <2>2 DEF CPUTypeInv
<1>5. ASSUME NEW d \in CPUs
      PROVE  NoLess(earlier[d], clicks'[d]) /\ Total(clicks'[d]) <= spent'
  <2>1. CASE d # c
    <3>1. clicks'[d] = clicks[d] /\ Total(clicks[d]) \in Nat
      <4>1. clicks[d] \in [Kinds -> Nat]  BY DEF CPUTypeInv, Clicks
      <4>2. clicks'[d] = clicks[d]  BY <2>1 DEF CPUTypeInv, Clicks
      <4>. QED  BY <4>1, <4>2, TotalType
    <3>. QED  BY <3>1 DEF ClicksInv, CPUTypeInv
  <2>2. CASE d = c
    <3>. DEFINE new == [clicks[c] EXCEPT ![k] = @ + 1]
    <3>1. clicks'[d] = new  BY <2>2 DEF CPUTypeInv, Clicks
    <3>2. \A j \in Kinds : new[j] = IF j = k THEN clicks[c][j] + 1 ELSE clicks[c][j]  BY <1>2
    <3>3. \A j \in Kinds : clicks[c][j] \in Nat /\ earlier[c][j] \in Nat
      <4>1. clicks[c] \in [Kinds -> Nat] /\ earlier[c] \in [Kinds -> Nat]  BY DEF CPUTypeInv, Clicks
      <4>. QED  BY <4>1
    <3>4. NoLess(earlier[c], clicks[c]) /\ Total(clicks[c]) <= spent  BY DEF ClicksInv
    <3>. HIDE DEF new
    <3>5. NoLess(earlier[c], new)  BY <3>2, <3>3, <3>4 DEF NoLess
    <3>6. Total(new) = Total(clicks[c]) + 1 /\ Total(clicks[c]) \in Nat  BY <3>2, <3>3, KindsFacts DEF Total, Kinds
    <3>. QED  BY <2>2, <3>1, <3>4, <3>5, <3>6 DEF CPUTypeInv
  <2>. QED  BY <2>1, <2>2
<1>6. ClicksInv'
  <2>1. \A d \in CPUs \ on : clicks'[d] = clicks[d]  BY DEF CPUTypeInv, Clicks
  <2>. QED  BY <1>1, <1>5, <2>1 DEF ClicksInv
<1>7. FlagsInv' /\ SettledInv' /\ KeptInv'
  <2>1. OnlineByData' = OnlineByData  BY <1>1 DEF OnlineByData
  <2>2. ReadOnes' = ReadOnes  BY <2>1 DEF ReadOnes
  <2>3. \A i : TimeOf(earlier, i)' = TimeOf(earlier, i)  BY <1>1, <2>1 DEF TimeOf, Averaged
  <2>4. FlagsInv'  BY <1>1 DEF FlagsInv
  <2>5. SettledInv'  BY <2>1 DEF SettledInv, Settled
  <2>6. KeptInv'  BY <2>2, <2>3 DEF KeptInv, Kept, Keeps
  <2>. QED  BY <2>4, <2>5, <2>6
<1>. QED  BY <1>4, <1>6, <1>7

LEMMA SwitchStep ==
    ASSUME CPUsInv, NEW c \in CPUs, Switch(c)
    PROVE  CPUsInv'
<1>. USE DEF CPUsInv, Switch
<1>1. CPUs' = CPUs  BY DEF CPUs
<1>2. on' \in SUBSET CPUs  BY DEF CPUTypeInv
<1>3. spent' \in 0 .. MaxClicks /\ spent' = spent + 1 /\ spent \in Nat  BY PlatformCPUsAssumption DEF CPUTypeInv
<1>4. CPUTypeInv'
  <2>1. Clicks' = Clicks  BY <1>1 DEF Clicks
  <2>. QED  BY <1>1, <1>2, <1>3, <2>1 DEF CPUTypeInv
<1>5. ClicksInv'
  <2>1. \A d \in CPUs : Total(clicks[d]) \in Nat
    <3>1. \A d \in CPUs : clicks[d] \in [Kinds -> Nat]  BY DEF CPUTypeInv, Clicks
    <3>. QED  BY <3>1, TotalType
  <2>2. \A d \in CPUs : Total(clicks[d]) <= spent'  BY <1>3, <2>1 DEF ClicksInv
  <2>. QED  BY <1>1, <2>2 DEF ClicksInv
<1>6. FlagsInv'  BY <1>1 DEF FlagsInv
<1>7. SettledInv' /\ KeptInv'  BY DEF SettledInv, Settled, KeptInv, Kept
<1>. QED  BY <1>4, <1>5, <1>6, <1>7

-----------------------------------------------------------------------------
(* Counting the CPUs                                                        *)

LEMMA SameOnline == CPUs' = CPUs /\ data' = data => OnlineByData' = OnlineByData
BY DEF OnlineByData

LEMMA SameTimes ==
    ASSUME CPUs' = CPUs, OnlineByData' = OnlineByData, system' = system, active' = active, earlier' = earlier
    PROVE  \A i : TimeOf(earlier, i)' = TimeOf(earlier, i)
BY DEF TimeOf, Averaged

\* Where nothing is counted anew.
LEMMA CountedOnceStep ==
    ASSUME CPUsInv, CountCPUs, CountedOnce
    PROVE  CPUsInv'
<1>. USE DEF CPUsInv, CountCPUs, CountedOnce, machineVars
<1>1. CPUs' = CPUs /\ data' = data /\ OnlineByData' = OnlineByData  BY SameOnline DEF CPUs
<1>2. CPUTypeInv'
  <2>1. Clicks' = Clicks  BY <1>1 DEF Clicks
  <2>. QED  BY <1>1, <2>1 DEF CPUTypeInv
<1>3. ClicksInv' /\ FlagsInv'  BY <1>1 DEF ClicksInv, FlagsInv
<1>4. SettledInv'  BY DEF SettledInv
<1>5. KeptInv'
  <2>1. ReadOnes' = ReadOnes  BY <1>1 DEF ReadOnes
  <2>2. \A i : TimeOf(earlier, i)' = TimeOf(earlier, i)  BY <1>1, SameTimes
  <2>. QED  BY <1>1, <2>1, <2>2 DEF KeptInv, Kept, Keeps
<1>. QED  BY <1>2, <1>3, <1>4, <1>5

\* PCP only counts.
LEMMA PCPCountStep ==
    ASSUME CPUsInv, CountCPUs, PCP_updateCPUcount
    PROVE  CPUsInv'
<1>. USE DEF CPUsInv, CountCPUs, PCP_updateCPUcount, machineVars
<1>1. CPUs' = CPUs /\ data' = data /\ OnlineByData' = OnlineByData  BY SameOnline DEF CPUs
<1>2. CPUTypeInv'
  <2>1. Clicks' = Clicks  BY <1>1 DEF Clicks
  <2>2. active' \in Nat \ {0}  BY OnFacts DEF CPUTypeInv
  <2>. QED  BY <1>1, <2>1, <2>2 DEF CPUTypeInv
<1>3. ClicksInv' /\ FlagsInv'  BY <1>1 DEF ClicksInv, FlagsInv
<1>4. SettledInv'  BY DEF SettledInv
<1>5. KeptInv'
  <2>1. ReadOnes' = ReadOnes  BY <1>1 DEF ReadOnes
  <2>2. \A i : TimeOf(earlier, i)' = TimeOf(earlier, i)  BY <1>1 DEF TimeOf
  <2>. QED  BY <1>1, <2>1, <2>2 DEF KeptInv, Kept, Keeps
<1>. QED  BY <1>2, <1>3, <1>4, <1>5

\* When nothing was switched since the reading before the last, the number is the same.
LEMMA OpenBSDCountStep ==
    ASSUME CPUsInv, CountCPUs, OpenBSD_updateCPUcount
    PROVE  CPUsInv'
<1>. USE DEF CPUsInv, CountCPUs, OpenBSD_updateCPUcount, machineVars
<1>1. CPUs' = CPUs  BY DEF CPUs
<1>2. ASSUME active' # active
      PROVE  data' \in [0 .. existing -> CPURow] /\ OnlineByData' = on
  <2>1. \A i \in 0 .. existing : /\ CPUData(i = 0 \/ i \in on, Nothing, 1, 1) \in CPURow
                                 /\ CPUData(i = 0 \/ i \in on, Nothing, 1, 1).online = (i = 0 \/ i \in on)
    BY DEF CPUData, CPURow, Nothing
  <2>2. data' = OpenBSD_reset  BY <1>2
  <2>3. data' \in [0 .. existing -> CPURow]  BY <2>1, <2>2 DEF OpenBSD_reset
  <2>4. \A c \in CPUs : data'[c].online = (c \in on)  BY <2>1, <2>2 DEF OpenBSD_reset, CPUs, CPUTypeInv
  <2>. QED  BY <1>1, <2>3, <2>4 DEF OnlineByData, CPUTypeInv
<1>3. ASSUME active' = active
      PROVE  data' = data /\ OnlineByData' = OnlineByData
  BY <1>1, <1>3, SameOnline
<1>4. CPUTypeInv'
  <2>1. Clicks' = Clicks  BY <1>1 DEF Clicks
  <2>2. active' \in Nat \ {0}  BY OnFacts DEF CPUTypeInv
  <2>3. data' \in [0 .. existing -> CPURow]  BY <1>2, <1>3 DEF CPUTypeInv
  <2>4. swapped' \in BOOLEAN  OBVIOUS
  <2>. QED  BY <1>1, <2>1, <2>2, <2>3, <2>4 DEF CPUTypeInv
<1>5. ClicksInv' /\ FlagsInv'  BY <1>1 DEF ClicksInv, FlagsInv
<1>6. SettledInv'  BY <1>2, <1>3 DEF SettledInv
<1>7. KeptInv'
  <2>1. SUFFICES ASSUME Kept' PROVE (\A i \in ReadOnes : Keeps(data[i], TimeOf(earlier, i)))'  BY DEF KeptInv
  <2>2. Kept /\ Settled  BY <2>1 DEF Kept, Settled, CPUTypeInv
  <2>3. active' = active  BY <2>2 DEF SettledInv
  <2>4. data' = data /\ OnlineByData' = OnlineByData  BY <1>3, <2>3
  <2>5. ReadOnes' = ReadOnes  BY <2>4 DEF ReadOnes
  <2>6. \A i : TimeOf(earlier, i)' = TimeOf(earlier, i)  BY <1>1, <2>3, <2>4, SameTimes
  <2>. QED  BY <2>2, <2>4, <2>5, <2>6 DEF KeptInv, Keeps
<1>. QED  BY <1>4, <1>5, <1>6, <1>7

LEMMA SolarisCountStep ==
    ASSUME CPUsInv, CountCPUs, Solaris_updateCPUcount
    PROVE  CPUsInv'
<1>. USE DEF CPUsInv, CountCPUs, Solaris_updateCPUcount, machineVars
<1>1. CPUs' = CPUs /\ data' = data /\ OnlineByData' = OnlineByData  BY SameOnline DEF CPUs
<1>2. CPUTypeInv'
  <2>1. Clicks' = Clicks  BY <1>1 DEF Clicks
  <2>2. active' \in Nat \ {0}  BY OnFacts DEF CPUTypeInv
  <2>3. kd' \in SUBSET CPUs  BY DEF CPUTypeInv
  <2>4. swapped' \in BOOLEAN  OBVIOUS
  <2>. QED  BY <1>1, <2>1, <2>2, <2>3, <2>4 DEF CPUTypeInv
<1>3. ClicksInv' /\ FlagsInv'  BY <1>1 DEF ClicksInv, FlagsInv
<1>4. SettledInv'  BY DEF SettledInv
<1>5. KeptInv'
  <2>1. SUFFICES ASSUME Kept' PROVE (\A i \in ReadOnes : Keeps(data[i], TimeOf(earlier, i)))'  BY DEF KeptInv
  <2>2. Kept /\ Settled  BY <2>1 DEF Kept, Settled, CPUTypeInv
  <2>3. active' = active /\ kd' = kd  BY <2>2 DEF SettledInv
  <2>4. ReadOnes' = ReadOnes  BY <1>1, <2>3 DEF ReadOnes
  <2>5. \A i : TimeOf(earlier, i)' = TimeOf(earlier, i)  BY <1>1, <2>3, SameTimes
  <2>. QED  BY <1>1, <2>2, <2>4, <2>5 DEF KeptInv, Keeps
<1>. QED  BY <1>2, <1>3, <1>4, <1>5

LEMMA NextScanStep ==
    ASSUME CPUsInv, NextScan
    PROVE  CPUsInv'
<1>. USE DEF CPUsInv, NextScan, machineVars
<1>1. CPUs' = CPUs /\ data' = data /\ OnlineByData' = OnlineByData  BY SameOnline DEF CPUs
<1>2. CPUTypeInv'
  <2>1. Clicks' = Clicks  BY <1>1 DEF Clicks
  <2>. QED  BY <1>1, <2>1 DEF CPUTypeInv
<1>3. ClicksInv' /\ FlagsInv'  BY <1>1 DEF ClicksInv, FlagsInv
<1>4. SettledInv'  BY <1>1 DEF SettledInv, Settled
<1>5. KeptInv'
  <2>1. ReadOnes' = ReadOnes  BY <1>1 DEF ReadOnes
  <2>2. \A i : TimeOf(earlier, i)' = TimeOf(earlier, i)  BY <1>1, SameTimes
  <2>. QED  BY <1>1, <2>1, <2>2 DEF KeptInv, Kept, Keeps
<1>. QED  BY <1>2, <1>3, <1>4, <1>5

LEMMA IdleStep ==
    ASSUME CPUsInv, UNCHANGED cpuVars
    PROVE  CPUsInv'
<1>. USE DEF CPUsInv, cpuVars, machineVars
<1>1. CPUs' = CPUs /\ data' = data /\ OnlineByData' = OnlineByData  BY SameOnline DEF CPUs
<1>2. CPUTypeInv'
  <2>1. Clicks' = Clicks  BY <1>1 DEF Clicks
  <2>. QED  BY <1>1, <2>1 DEF CPUTypeInv
<1>3. ClicksInv' /\ FlagsInv'  BY <1>1 DEF ClicksInv, FlagsInv
<1>4. SettledInv'  BY <1>1 DEF SettledInv, Settled
<1>5. KeptInv'
  <2>1. ReadOnes' = ReadOnes  BY <1>1 DEF ReadOnes
  <2>2. \A i : TimeOf(earlier, i)' = TimeOf(earlier, i)  BY <1>1, SameTimes
  <2>. QED  BY <1>1, <2>1, <2>2 DEF KeptInv, Kept, Keeps
<1>. QED  BY <1>2, <1>3, <1>4, <1>5

-----------------------------------------------------------------------------
(* Readings                                                                 *)

\* r shows the clicks from then to now.
Share(r, now, then) ==
    /\ r.parts = Since(now, then) /\ r.total \in Nat
    /\ Total(Since(now, then)) > 0 => r.total = Total(Since(now, then))

LEMMA ClickShare ==
    ASSUME NEW now \in [Kinds -> Nat], NEW then \in [Kinds -> Nat], NoLess(then, now),
           NEW r, r.parts = Since(now, then), r.total = FX!Max({1, Total(now) - Total(then)})
    PROVE  Share(r, now, then)
<1>. DEFINE t == Total(now) - Total(then)
<1>1. t \in Nat /\ Total(Since(now, then)) = t  BY GrownTotal, TotalType
<1>2. 1 \in Int /\ t \in Int  BY <1>1
<1>. HIDE DEF t
<1>3. FX!Max({1, t}) = IF 1 >= t THEN 1 ELSE t  BY <1>2, TwoFacts
<1>4. r.total = FX!Max({1, t})  BY DEF t
<1>5. r.total \in Nat /\ (t > 0 => r.total = t)  BY <1>1, <1>3, <1>4
<1>. QED  BY <1>1, <1>5 DEF Share

LEMMA SaturatingShare ==
    ASSUME NEW now \in [Kinds -> Nat], NEW then \in [Kinds -> Nat], NoLess(then, now),
           NEW r, r.parts = [k \in Kinds |-> SaturatingSub(now[k], then[k])],
           r.total = SaturatingSub(Total(now), Total(then))
    PROVE  Share(r, now, then)
<1>1. \A k \in Kinds : SaturatingSub(now[k], then[k]) = now[k] - then[k]
  <2>1. SUFFICES ASSUME NEW k \in Kinds PROVE SaturatingSub(now[k], then[k]) = now[k] - then[k]  OBVIOUS
  <2>2. now[k] \in Nat /\ then[k] \in Nat /\ then[k] <= now[k]  BY DEF NoLess
  <2>. QED  BY <2>2 DEF SaturatingSub
<1>2. r.parts = Since(now, then)  BY <1>1 DEF Since
<1>3. Total(now) \in Nat /\ Total(then) \in Nat /\ Total(then) <= Total(now)
      /\ Total(Since(now, then)) = Total(now) - Total(then)
  BY GrownTotal, TotalType
<1>4. r.total = Total(now) - Total(then)  BY <1>3 DEF SaturatingSub
<1>. QED  BY <1>2, <1>3, <1>4 DEF Share

\* What the readings of the systems have of an item and of its clicks of now.
LEMMA RowRead ==
    ASSUME NEW d \in CPURow, NEW now \in [Kinds -> Nat]
    PROVE  /\ LET r == FreeBSD_counted(d, now)
              IN  /\ r \in CPURow /\ r.online = d.online /\ r.time = now /\ r.parts = Since(now, d.time)
                  /\ r.total = FX!Max({1, Total(now) - Total(d.time)})
           /\ LET r == kernelCPUTimesToHtop(now, d)
              IN  /\ r \in CPURow /\ r.online = d.online /\ r.time = now /\ r.totalTime = Total(now)
                  /\ r.parts = [k \in Kinds |-> SaturatingSub(now[k], d.time[k])]
                  /\ r.total = SaturatingSub(Total(now), d.totalTime)
           /\ LET r == PCP_deriveCPUTime(now, d)
              IN  /\ r \in CPURow /\ r.online = d.online /\ r.time = now
                  /\ r.parts = [k \in Kinds |-> SaturatingSub(now[k], d.time[k])]
                  /\ r.total = SaturatingSub(Total(now), Total(d.time))
<1>1. d.time \in [Kinds -> Nat] /\ d.totalTime \in Nat /\ d.online \in BOOLEAN  BY DEF CPURow
<1>2. Total(now) \in Nat /\ Total(d.time) \in Nat  BY <1>1, TotalType
<1>3. Since(now, d.time) \in [Kinds -> Int]
  <2>1. \A k \in Kinds : now[k] - d.time[k] \in Int
    <3>1. \A k \in Kinds : now[k] \in Nat /\ d.time[k] \in Nat  BY <1>1
    <3>. QED  BY <3>1
  <2>. QED  BY <2>1 DEF Since
<1>4. FX!Max({1, Total(now) - Total(d.time)}) \in Int
  <2>. DEFINE t == Total(now) - Total(d.time)
  <2>1. t \in Int /\ 1 \in Int  BY <1>2
  <2>. HIDE DEF t
  <2>2. FX!Max({1, t}) = IF 1 >= t THEN 1 ELSE t  BY <2>1, TwoFacts
  <2>3. FX!Max({1, t}) \in Int  BY <2>1, <2>2
  <2>. QED  BY <2>3 DEF t
<1>5. \A a, b \in Nat : SaturatingSub(a, b) \in Int  BY DEF SaturatingSub
<1>6. [k \in Kinds |-> SaturatingSub(now[k], d.time[k])] \in [Kinds -> Int]
  <2>1. \A k \in Kinds : now[k] \in Nat /\ d.time[k] \in Nat  BY <1>1
  <2>2. \A k \in Kinds : SaturatingSub(now[k], d.time[k]) \in Int  BY <1>5, <2>1
  <2>. QED  BY <2>2
<1>7. SaturatingSub(Total(now), d.totalTime) \in Int /\ SaturatingSub(Total(now), Total(d.time)) \in Int
  BY <1>1, <1>2, <1>5
<1>8. LET r == FreeBSD_counted(d, now)
      IN  /\ r \in CPURow /\ r.online = d.online /\ r.time = now /\ r.parts = Since(now, d.time)
          /\ r.total = FX!Max({1, Total(now) - Total(d.time)})
  <2>. DEFINE t == FX!Max({1, Total(now) - Total(d.time)})
              s == Since(now, d.time)
  <2>1. FreeBSD_counted(d, now) = [d EXCEPT !.parts = s, !.total = t, !.time = now]  BY DEF FreeBSD_counted
  <2>2. t \in Int /\ s \in [Kinds -> Int]  BY <1>3, <1>4
  <2>. HIDE DEF t, s
  <2>3. /\ FreeBSD_counted(d, now) \in CPURow /\ FreeBSD_counted(d, now).online = d.online
        /\ FreeBSD_counted(d, now).time = now /\ FreeBSD_counted(d, now).parts = s
        /\ FreeBSD_counted(d, now).total = t
    BY <2>1, <2>2 DEF CPURow
  <2>. QED  BY <2>3 DEF t, s
<1>9. LET r == kernelCPUTimesToHtop(now, d)
      IN  /\ r \in CPURow /\ r.online = d.online /\ r.time = now /\ r.totalTime = Total(now)
          /\ r.parts = [k \in Kinds |-> SaturatingSub(now[k], d.time[k])]
          /\ r.total = SaturatingSub(Total(now), d.totalTime)
  <2>. DEFINE t == SaturatingSub(Total(now), d.totalTime)
              s == [k \in Kinds |-> SaturatingSub(now[k], d.time[k])]
              n == Total(now)
              r == kernelCPUTimesToHtop(now, d)
  <2>1. r = [d EXCEPT !.parts = s, !.total = t, !.time = now, !.totalTime = n]  BY DEF kernelCPUTimesToHtop
  <2>2. t \in Int /\ s \in [Kinds -> Int] /\ n \in Nat  BY <1>2, <1>6, <1>7
  <2>. HIDE DEF t, s, n, r
  <2>3. /\ r \in CPURow /\ r.online = d.online /\ r.time = now /\ r.totalTime = n
        /\ r.parts = s /\ r.total = t
    BY <2>1, <2>2 DEF CPURow
  <2>. QED  BY <2>3 DEF t, s, n, r
<1>10. LET r == PCP_deriveCPUTime(now, d)
       IN  /\ r \in CPURow /\ r.online = d.online /\ r.time = now
           /\ r.parts = [k \in Kinds |-> SaturatingSub(now[k], d.time[k])]
           /\ r.total = SaturatingSub(Total(now), Total(d.time))
  <2>. DEFINE t == SaturatingSub(Total(now), Total(d.time))
              s == [k \in Kinds |-> SaturatingSub(now[k], d.time[k])]
              r == PCP_deriveCPUTime(now, d)
  <2>1. r = [d EXCEPT !.parts = s, !.total = t, !.time = now]  BY DEF PCP_deriveCPUTime
  <2>2. t \in Int /\ s \in [Kinds -> Int]  BY <1>6, <1>7
  <2>. HIDE DEF t, s, r
  <2>3. r \in CPURow /\ r.online = d.online /\ r.time = now /\ r.parts = s /\ r.total = t
    BY <2>1, <2>2 DEF CPURow
  <2>. QED  BY <2>3 DEF t, s, r
<1>. QED  BY <1>8, <1>9, <1>10

RecentAll == [c \in CPUs |-> Recent(c)]

\* The sum of a system is that of its CPUs, in each interval.
LEMMA SumRecent ==
    ASSUME CPUTypeInv, ClicksInv, NEW S \in SUBSET CPUs, S = CPUs \/ (S = on /\ quiet >= 1)
    PROVE  /\ Sum(clicks, S) \in [Kinds -> Nat] /\ Sum(earlier, S) \in [Kinds -> Nat]
           /\ NoLess(Sum(earlier, S), Sum(clicks, S))
           /\ Since(Sum(clicks, S), Sum(earlier, S)) = Sum(RecentAll, CPUs)
<1>1. existing \in Nat /\ CPUs \in SUBSET CPUs  BY DEF CPUTypeInv
<1>2. clicks \in [CPUs -> [Kinds -> Nat]] /\ earlier \in [CPUs -> [Kinds -> Nat]]  BY DEF CPUTypeInv, Clicks
<1>3. clicks \in [CPUs -> [Kinds -> Int]] /\ earlier \in [CPUs -> [Kinds -> Int]]  BY <1>2
<1>4. ASSUME NEW c \in CPUs
      PROVE  RecentAll[c] \in [Kinds -> Nat] /\ \A k \in Kinds : RecentAll[c][k] = clicks[c][k] - earlier[c][k]
  <2>1. clicks[c] \in [Kinds -> Nat] /\ earlier[c] \in [Kinds -> Nat]  BY <1>2
  <2>2. \A k \in Kinds : clicks[c][k] \in Nat /\ earlier[c][k] \in Nat /\ earlier[c][k] <= clicks[c][k]
    BY <2>1 DEF ClicksInv, NoLess
  <2>3. \A k \in Kinds : clicks[c][k] - earlier[c][k] \in Nat  BY <2>2
  <2>4. RecentAll[c] = [k \in Kinds |-> clicks[c][k] - earlier[c][k]]  BY DEF RecentAll, Recent, Since
  <2>. QED  BY <2>3, <2>4
<1>5. RecentAll \in [CPUs -> [Kinds -> Nat]]  BY <1>4 DEF RecentAll
<1>6. RecentAll \in [CPUs -> [Kinds -> Int]]  BY <1>5
<1>7. Sum(clicks, S) \in [Kinds -> Nat] /\ Sum(earlier, S) \in [Kinds -> Nat] /\ Sum(RecentAll, CPUs) \in [Kinds -> Nat]
  BY <1>1, <1>2, <1>5, SumType
<1>8. ASSUME NEW k \in Kinds
      PROVE  Sum(RecentAll, CPUs)[k] = Sum(clicks, S)[k] - Sum(earlier, S)[k]
  <2>1. ASSUME NEW c \in CPUs
        PROVE  Masked(RecentAll, CPUs, k)[c] = Masked(clicks, S, k)[c] - Masked(earlier, S, k)[c]
    <3>1. clicks[c][k] \in Nat /\ earlier[c][k] \in Nat
      <4>1. clicks[c] \in [Kinds -> Nat] /\ earlier[c] \in [Kinds -> Nat]  BY <1>2
      <4>. QED  BY <4>1
    <3>2. RecentAll[c][k] = clicks[c][k] - earlier[c][k]  BY <1>4
    <3>3. c \notin S => clicks[c] = earlier[c]  BY DEF ClicksInv
    <3>4. c \notin S => RecentAll[c][k] = 0  BY <3>1, <3>2, <3>3
    <3>5. Masked(RecentAll, CPUs, k)[c] = RecentAll[c][k]  BY DEF Masked
    <3>6. Masked(clicks, S, k)[c] = IF c \in S THEN clicks[c][k] ELSE 0  BY DEF Masked
    <3>7. Masked(earlier, S, k)[c] = IF c \in S THEN earlier[c][k] ELSE 0  BY DEF Masked
    <3>. QED  BY <3>1, <3>2, <3>4, <3>5, <3>6, <3>7
  <2>2. Apart(RecentAll, CPUs, clicks, earlier, S, k)  BY <2>1 DEF Apart
  <2>. QED  BY <1>1, <1>3, <1>6, <2>2, SumDifference
<1>9. NoLess(Sum(earlier, S), Sum(clicks, S))
  <2>1. SUFFICES ASSUME NEW k \in Kinds PROVE Sum(earlier, S)[k] <= Sum(clicks, S)[k]  BY DEF NoLess
  <2>2. Sum(clicks, S)[k] \in Nat /\ Sum(earlier, S)[k] \in Nat /\ Sum(RecentAll, CPUs)[k] \in Nat  BY <1>7
  <2>. QED  BY <1>8, <2>2
<1>10. Since(Sum(clicks, S), Sum(earlier, S)) = Sum(RecentAll, CPUs)
  <2>1. Since(Sum(clicks, S), Sum(earlier, S)) = [k \in Kinds |-> Sum(RecentAll, CPUs)[k]]  BY <1>8 DEF Since
  <2>. QED  BY <1>7, <2>1
<1>. QED  BY <1>7, <1>9, <1>10

LEMMA AveragedType ==
    ASSUME active \in Nat \ {0}, NEW t \in [Kinds -> Nat]
    PROVE  Averaged(t) \in [Kinds -> Nat] /\ \A k \in Kinds : Averaged(t)[k] = t[k] \div active
<1>1. \A k \in Kinds : t[k] \div active \in Nat
  <2>1. SUFFICES ASSUME NEW k \in Kinds PROVE t[k] \div active \in Nat  OBVIOUS
  <2>2. t[k] \in Nat /\ 0 <= t[k]  OBVIOUS
  <2>. QED  BY <2>2, MeanFacts
<1>. QED  BY <1>1 DEF Averaged

LEMMA TimesType ==
    ASSUME CPUTypeInv, NEW cl \in Clicks, NEW i \in 0 .. existing, system = "solaris" => i # 0
    PROVE  TimeOf(cl, i) \in [Kinds -> Nat]
<1>1. Nothing \in [Kinds -> Nat]  BY DEF Nothing
<1>2. existing \in Nat /\ OnlineByData \in SUBSET CPUs /\ CPUs \in SUBSET CPUs /\ cl \in [CPUs -> [Kinds -> Nat]]
  BY DEF CPUTypeInv, OnlineByData, Clicks
<1>3. Sum(cl, CPUs) \in [Kinds -> Nat] /\ Sum(cl, OnlineByData) \in [Kinds -> Nat]  BY <1>2, SumType
<1>4. Averaged(Sum(cl, CPUs)) \in [Kinds -> Nat] /\ Averaged(Sum(cl, OnlineByData)) \in [Kinds -> Nat]
  BY <1>3, AveragedType DEF CPUTypeInv
<1>5. i # 0 => cl[i] \in [Kinds -> Nat]  BY <1>2 DEF CPUs
<1>6. system \in {"freebsd", "dragonfly", "netbsd", "darwin", "pcp", "openbsd", "solaris"}
  BY DEF CPUTypeInv, AllCPUSystems
<1>. QED  BY <1>1, <1>3, <1>4, <1>5, <1>6 DEF TimeOf

\* Item i is read, and shows the clicks since then if it has kept those of then.
Reads(D, i) ==
    /\ Keeps(D[i], TimeOf(clicks, i))
    /\ \A then \in [Kinds -> Nat] :
          Keeps(data[i], then) /\ NoLess(then, TimeOf(clicks, i)) => Share(D[i], TimeOf(clicks, i), then)

LEMMA ReadsFreeBSD ==
    ASSUME CPUTypeInv, system \in {"freebsd", "dragonfly"}, NEW r, NEW i \in 0 .. existing, NEW D, D[i] = r,
           r.time = TimeOf(clicks, i), r.parts = Since(TimeOf(clicks, i), data[i].time),
           r.total = FX!Max({1, Total(TimeOf(clicks, i)) - Total(data[i].time)})
    PROVE  Reads(D, i)
<1>. DEFINE now == TimeOf(clicks, i)
<1>1. now \in [Kinds -> Nat]  BY TimesType DEF CPUTypeInv
<1>. HIDE DEF now
<1>2. r.time = now /\ r.parts = Since(now, data[i].time) /\ r.total = FX!Max({1, Total(now) - Total(data[i].time)})
  BY DEF now
<1>3. ASSUME NEW then \in [Kinds -> Nat], Keeps(data[i], then), NoLess(then, now)
      PROVE  Share(r, now, then)
  <2>1. data[i].time = then  BY <1>3 DEF Keeps
  <2>2. r.parts = Since(now, then) /\ r.total = FX!Max({1, Total(now) - Total(then)})  BY <1>2, <2>1
  <2>. QED  BY <1>1, <1>3, <2>2, ClickShare
<1>4. Keeps(r, now)  BY <1>2 DEF Keeps
<1>. QED  BY <1>3, <1>4 DEF Reads, now

LEMMA FreeBSDReading ==
    ASSUME CPUTypeInv, system = "freebsd"
    PROVE  /\ NewReadings \in [0 .. existing -> CPURow]
           /\ \A i \in 0 .. existing : NewReadings[i].online = data[i].online /\ Reads(NewReadings, i)
<1>. DEFINE D == NewReadings
<1>1. D = FreeBSD_scanCPU  BY DEF NewReadings
<1>2. ASSUME NEW i \in 0 .. existing PROVE D[i] = FreeBSD_counted(data[i], TimeOf(clicks, i))
  <2>1. D[i] = IF i = 0 \/ existing = 1 THEN FreeBSD_counted(data[i], Sum(clicks, CPUs))
                                        ELSE FreeBSD_counted(data[i], clicks[i])
    BY <1>1 DEF FreeBSD_scanCPU
  <2>2. TimeOf(clicks, i) = IF i = 0 THEN Sum(clicks, CPUs) ELSE clicks[i]  BY DEF TimeOf
  <2>3. CASE i # 0 /\ existing = 1
    <3>1. i = 1 /\ existing = 1  BY <2>3
    <3>2. clicks \in [CPUs -> [Kinds -> Int]]  BY DEF CPUTypeInv, Clicks
    <3>3. Sum(clicks, CPUs) = clicks[1]  BY <3>1, <3>2, SumOfOne
    <3>. QED  BY <2>1, <2>2, <3>1, <3>3
  <2>. QED  BY <2>1, <2>2, <2>3
<1>3. ASSUME NEW i \in 0 .. existing
      PROVE  D[i] \in CPURow /\ D[i].online = data[i].online /\ Reads(D, i)
  <2>. DEFINE now == TimeOf(clicks, i)
              r == FreeBSD_counted(data[i], now)
  <2>1. now \in [Kinds -> Nat] /\ data[i] \in CPURow  BY TimesType DEF CPUTypeInv
  <2>. HIDE DEF now
  <2>2. /\ r \in CPURow /\ r.online = data[i].online /\ r.time = now /\ r.parts = Since(now, data[i].time)
        /\ r.total = FX!Max({1, Total(now) - Total(data[i].time)})
    BY <2>1, RowRead
  <2>3. D[i] = r  BY <1>2 DEF now
  <2>. HIDE DEF r, D
  <2>4. Reads(D, i)  BY <2>2, <2>3, ReadsFreeBSD DEF now
  <2>. QED  BY <2>2, <2>3, <2>4
<1>4. D = [i \in 0 .. existing |-> D[i]]  BY <1>1 DEF FreeBSD_scanCPU
<1>. HIDE DEF D
<1>5. D \in [0 .. existing -> CPURow]  BY <1>3, <1>4
<1>. QED  BY <1>3, <1>5 DEF D

LEMMA DragonFlyReading ==
    ASSUME CPUTypeInv, system = "dragonfly"
    PROVE  /\ NewReadings \in [0 .. existing -> CPURow]
           /\ \A i \in 0 .. existing : NewReadings[i].online = data[i].online /\ Reads(NewReadings, i)
<1>. DEFINE D == NewReadings
<1>1. D = DragonFly_scanCPUTime  BY DEF NewReadings
<1>2. ASSUME NEW i \in 0 .. existing
      PROVE  D[i] = [data[i] EXCEPT !.parts = Since(TimeOf(clicks, i), data[i].time), !.time = TimeOf(clicks, i),
                                    !.total = FX!Max({1, Total(TimeOf(clicks, i)) - Total(data[i].time)})]
  BY <1>1 DEF DragonFly_scanCPUTime, TimeOf
<1>3. ASSUME NEW i \in 0 .. existing
      PROVE  D[i] \in CPURow /\ D[i].online = data[i].online /\ Reads(D, i)
  <2>. DEFINE now == TimeOf(clicks, i)
              s == Since(now, data[i].time)
              t == FX!Max({1, Total(now) - Total(data[i].time)})
              r == D[i]
  <2>1. now \in [Kinds -> Nat] /\ data[i] \in CPURow  BY TimesType DEF CPUTypeInv
  <2>2. s \in [Kinds -> Int] /\ t \in Int
    <3>1. FreeBSD_counted(data[i], now) \in CPURow /\ FreeBSD_counted(data[i], now).parts = s
          /\ FreeBSD_counted(data[i], now).total = t
      <4>. HIDE DEF now
      <4>. QED  BY <2>1, RowRead
    <3>. HIDE DEF now, s, t
    <3>. QED  BY <3>1 DEF CPURow
  <2>3. r = [data[i] EXCEPT !.parts = s, !.time = now, !.total = t]  BY <1>2
  <2>. HIDE DEF D, r, s, t, now
  <2>4. r \in CPURow /\ r.online = data[i].online /\ r.time = now /\ r.parts = s /\ r.total = t
    BY <2>1, <2>2, <2>3 DEF CPURow
  <2>5. Reads(D, i)
    <3>1. D[i] = r /\ r.time = TimeOf(clicks, i) /\ r.parts = Since(TimeOf(clicks, i), data[i].time)
          /\ r.total = FX!Max({1, Total(TimeOf(clicks, i)) - Total(data[i].time)})
      BY <2>4 DEF r, s, t, now
    <3>. QED  BY <3>1, ReadsFreeBSD
  <2>. QED  BY <2>4, <2>5 DEF r
<1>4. D = [i \in 0 .. existing |-> D[i]]  BY <1>1 DEF DragonFly_scanCPUTime
<1>. HIDE DEF D
<1>5. D \in [0 .. existing -> CPURow]  BY <1>3, <1>4
<1>. QED  BY <1>3, <1>5 DEF D

\* The average of a system that divides whole clicks.
MeanRead(D) == D[0].parts = [k \in Kinds |-> SaturatingSub(TimeOf(clicks, 0)[k], data[0].time[k])]

LEMMA ReadsKernel ==
    ASSUME CPUTypeInv, system \in {"openbsd", "netbsd"}, NEW i \in 0 .. existing, NEW D,
           D[i] = kernelCPUTimesToHtop(TimeOf(clicks, i), data[i])
    PROVE  /\ D[i] \in CPURow /\ D[i].online = data[i].online /\ Reads(D, i)
           /\ i = 0 => MeanRead(D)
<1>. DEFINE now == TimeOf(clicks, i)
            r == kernelCPUTimesToHtop(now, data[i])
<1>1. now \in [Kinds -> Nat] /\ data[i] \in CPURow  BY TimesType DEF CPUTypeInv
<1>. HIDE DEF now
<1>2. /\ r \in CPURow /\ r.online = data[i].online /\ r.time = now /\ r.totalTime = Total(now)
      /\ r.parts = [k \in Kinds |-> SaturatingSub(now[k], data[i].time[k])]
      /\ r.total = SaturatingSub(Total(now), data[i].totalTime)
  BY <1>1, RowRead
<1>3. D[i] = r  BY DEF now
<1>. HIDE DEF r
<1>4. ASSUME NEW then \in [Kinds -> Nat], Keeps(data[i], then), NoLess(then, now)
      PROVE  Share(r, now, then)
  <2>1. data[i].time = then /\ data[i].totalTime = Total(then)  BY <1>4 DEF Keeps
  <2>2. /\ r.parts = [k \in Kinds |-> SaturatingSub(now[k], then[k])]
        /\ r.total = SaturatingSub(Total(now), Total(then))
    BY <1>2, <2>1
  <2>. QED  BY <1>1, <1>4, <2>2, SaturatingShare
<1>5. Keeps(r, now)  BY <1>2 DEF Keeps
<1>6. Reads(D, i)  BY <1>3, <1>4, <1>5 DEF Reads, now
<1>7. i = 0 => MeanRead(D)  BY <1>2, <1>3 DEF MeanRead, now
<1>. QED  BY <1>2, <1>3, <1>6, <1>7

LEMMA OpenBSDReading ==
    ASSUME CPUTypeInv, system = "openbsd"
    PROVE  /\ NewReadings \in [0 .. existing -> CPURow]
           /\ \A i \in 0 .. existing : NewReadings[i].online = data[i].online
           /\ \A i \in ReadOnes : Reads(NewReadings, i)
           /\ MeanRead(NewReadings)
<1>. DEFINE D == NewReadings
<1>1. D = OpenBSD_scanCPUTime  BY DEF NewReadings
<1>2. ReadOnes = {0} \cup OnlineByData /\ ReadOnes \subseteq 0 .. existing /\ 0 \in 0 .. existing /\ 0 \in ReadOnes
  BY DEF ReadOnes, OnlineByData, CPUs, CPUTypeInv
<1>3. ASSUME NEW i \in ReadOnes PROVE D[i] = kernelCPUTimesToHtop(TimeOf(clicks, i), data[i])
  <2>1. CASE i = 0
    <3>3. 0 \notin OnlineByData  BY DEF OnlineByData, CPUs
    <3>1. D[0] = kernelCPUTimesToHtop(Averaged(Sum(clicks, OnlineByData)), data[0])
      BY <1>1, <1>2, <3>3 DEF OpenBSD_scanCPUTime
    <3>2. TimeOf(clicks, 0) = Averaged(Sum(clicks, OnlineByData))  BY DEF TimeOf
    <3>. QED  BY <2>1, <3>1, <3>2
  <2>2. CASE i # 0
    <3>1. i \in OnlineByData /\ i \in 0 .. existing  BY <1>2, <2>2
    <3>. QED  BY <1>1, <2>2, <3>1 DEF OpenBSD_scanCPUTime, TimeOf
  <2>. QED  BY <2>1, <2>2
<1>4. ASSUME NEW i \in (0 .. existing) \ ReadOnes PROVE D[i] = data[i]
  BY <1>1, <1>2 DEF OpenBSD_scanCPUTime
<1>5. D = [i \in 0 .. existing |-> D[i]]  BY <1>1 DEF OpenBSD_scanCPUTime
<1>. HIDE DEF D
<1>6. ASSUME NEW i \in ReadOnes
      PROVE  D[i] \in CPURow /\ D[i].online = data[i].online /\ Reads(D, i) /\ (i = 0 => MeanRead(D))
  <2>1. i \in 0 .. existing  BY <1>2
  <2>2. D[i] = kernelCPUTimesToHtop(TimeOf(clicks, i), data[i])  BY <1>3
  <2>3. system \in {"openbsd", "netbsd"}  OBVIOUS
  <2>. QED  BY <2>1, <2>2, <2>3, ReadsKernel, Zenon
<1>7. \A i \in 0 .. existing : D[i] \in CPURow /\ D[i].online = data[i].online
  BY <1>4, <1>6 DEF CPUTypeInv
<1>8. D \in [0 .. existing -> CPURow]  BY <1>5, <1>7
<1>. QED  BY <1>2, <1>6, <1>7, <1>8 DEF D

LEMMA NetBSDReading ==
    ASSUME CPUTypeInv, system = "netbsd"
    PROVE  /\ NewReadings \in [0 .. existing -> CPURow]
           /\ \A i \in 0 .. existing : NewReadings[i].online = data[i].online /\ Reads(NewReadings, i)
           /\ MeanRead(NewReadings)
<1>. DEFINE D == NewReadings
<1>1. D = NetBSD_scanCPUTime /\ 0 \in 0 .. existing  BY DEF NewReadings, CPUTypeInv
<1>2. ASSUME NEW i \in 0 .. existing PROVE D[i] = kernelCPUTimesToHtop(TimeOf(clicks, i), data[i])
  BY <1>1 DEF NetBSD_scanCPUTime, TimeOf
<1>3. D = [i \in 0 .. existing |-> D[i]]  BY <1>1 DEF NetBSD_scanCPUTime
<1>. HIDE DEF D
<1>4. ASSUME NEW i \in 0 .. existing
      PROVE  D[i] \in CPURow /\ D[i].online = data[i].online /\ Reads(D, i) /\ (i = 0 => MeanRead(D))
  <2>1. D[i] = kernelCPUTimesToHtop(TimeOf(clicks, i), data[i])  BY <1>2
  <2>. QED  BY <2>1, ReadsKernel
<1>5. D \in [0 .. existing -> CPURow]  BY <1>3, <1>4
<1>. QED  BY <1>1, <1>4, <1>5 DEF D

LEMMA DarwinReading ==
    ASSUME CPUTypeInv, system = "darwin"
    PROVE  /\ NewReadings \in [0 .. existing -> CPURow]
           /\ \A i \in 0 .. existing : NewReadings[i].online = data[i].online /\ Reads(NewReadings, i)
<1>. DEFINE D == NewReadings
<1>1. D = Darwin_load  BY DEF NewReadings
<1>2. ASSUME NEW i \in 0 .. existing
      PROVE  D[i] = [data[i] EXCEPT !.parts = Since(TimeOf(clicks, i), data[i].time),
                                    !.total = Total(TimeOf(clicks, i)) - Total(data[i].time),
                                    !.time = TimeOf(clicks, i)]
  BY <1>1 DEF Darwin_load, TimeOf
<1>3. ASSUME NEW i \in 0 .. existing
      PROVE  D[i] \in CPURow /\ D[i].online = data[i].online /\ Reads(D, i)
  <2>. DEFINE now == TimeOf(clicks, i)
              s == Since(now, data[i].time)
              t == Total(now) - Total(data[i].time)
              r == D[i]
  <2>1. now \in [Kinds -> Nat] /\ data[i] \in CPURow  BY TimesType DEF CPUTypeInv
  <2>2. s \in [Kinds -> Int] /\ t \in Int
    <3>. HIDE DEF now
    <3>1. data[i].time \in [Kinds -> Nat]  BY <2>1 DEF CPURow
    <3>2. Total(now) \in Nat /\ Total(data[i].time) \in Nat  BY <2>1, <3>1, TotalType
    <3>3. now \in [Kinds -> Int] /\ data[i].time \in [Kinds -> Int]  BY <2>1, <3>1
    <3>4. s \in [Kinds -> Int]  BY <3>3, TotalType
    <3>. QED  BY <3>2, <3>4
  <2>3. r = [data[i] EXCEPT !.parts = s, !.total = t, !.time = now]  BY <1>2
  <2>. HIDE DEF D, r, s, t, now
  <2>4. r \in CPURow /\ r.online = data[i].online /\ r.time = now /\ r.parts = s /\ r.total = t
    BY <2>1, <2>2, <2>3 DEF CPURow
  <2>5. ASSUME NEW then \in [Kinds -> Nat], Keeps(data[i], then), NoLess(then, now)
        PROVE  Share(r, now, then)
    <3>1. r.parts = Since(now, then) /\ r.total = Total(now) - Total(then)  BY <2>4, <2>5 DEF Keeps, s, t
    <3>2. /\ Total(then) <= Total(now) /\ Total(Since(now, then)) = Total(now) - Total(then)
          /\ Total(then) \in Nat /\ Total(now) \in Nat
      BY <2>1, <2>5, GrownTotal, TotalType
    <3>. QED  BY <3>1, <3>2 DEF Share
  <2>6. Keeps(r, now)  BY <2>4 DEF Keeps
  <2>7. Reads(D, i)  BY <2>5, <2>6 DEF Reads, r, now
  <2>. QED  BY <2>4, <2>7 DEF r
<1>4. D = [i \in 0 .. existing |-> D[i]]  BY <1>1 DEF Darwin_load
<1>. HIDE DEF D
<1>5. D \in [0 .. existing -> CPURow]  BY <1>3, <1>4
<1>. QED  BY <1>3, <1>5 DEF D

\* Fewer clicks than the counters are wide.
NarrowClicks == MaxClicks < 65536

LEMMA SolarisReading ==
    ASSUME NarrowClicks, CPUTypeInv, ClicksInv, system = "solaris", ~Solaris_asserts
    PROVE  /\ NewReadings \in [0 .. existing -> CPURow]
           /\ \A c \in CPUs : NewReadings[c].online = (c \in kd)
           /\ \A i \in ReadOnes : Reads(NewReadings, i)
<1>. DEFINE D == NewReadings
            Past(i) == [k \in Kinds |-> Wrapped(Solaris_read(i)[k] - data[i].time[k])]
<1>1. D = Solaris_scanCPUTime  BY DEF NewReadings
<1>16. kd \in SUBSET Int
  <2>1. kd \in SUBSET CPUs /\ existing \in Nat  BY DEF CPUTypeInv
  <2>. QED  BY <2>1 DEF CPUs
<1>2. ASSUME NEW c \in kd
      PROVE  /\ FX!Max(Solaris_readable(c)) \in Solaris_readable(c)
             /\ \A b \in Solaris_readable(c) : FX!Max(Solaris_readable(c)) >= b
  <2>1. Solaris_readable(c) # {}  BY DEF Solaris_asserts
  <2>2. Solaris_readable(c) \in SUBSET Int /\ c \in Int /\ \A b \in Solaris_readable(c) : b <= c
    BY <1>16 DEF Solaris_readable
  <2>. QED  BY <2>1, <2>2, MaxIsGreatest
<1>3. ASSUME NEW c \in kd PROVE Solaris_read(c) \in [Kinds -> Nat]
  BY <1>2 DEF Solaris_read, Solaris_readable, CPUTypeInv, Clicks
<1>4. ASSUME NEW c \in CPUs, c \in kd PROVE c # 0 /\ c \in 0 .. existing  BY DEF CPUs
<1>5. ASSUME NEW c \in kd PROVE c \in CPUs  BY DEF CPUTypeInv
<1>6. ASSUME NEW i \in 0 .. existing, i # 0, i \in kd
      PROVE  D[i] = [data[i] EXCEPT !.online = TRUE, !.parts = Past(i), !.total = Wrapped(Total(Past(i))),
                                    !.time = Solaris_read(i)]
  BY <1>1, <1>6 DEF Solaris_scanCPUTime
<1>7. ASSUME NEW i \in 0 .. existing, i # 0, i \notin kd PROVE D[i] = [data[i] EXCEPT !.online = FALSE]
  BY <1>1, <1>7 DEF Solaris_scanCPUTime
<1>8. 0 \in 0 .. existing /\ 0 \notin kd  BY DEF CPUTypeInv, CPUs
<1>9. D[0] = data[0]  BY <1>1, <1>8 DEF Solaris_scanCPUTime
<1>10. ASSUME NEW i \in kd
       PROVE  /\ D[i] \in CPURow /\ D[i].online /\ D[i].time = Solaris_read(i) /\ D[i].parts = Past(i)
              /\ D[i].total = Wrapped(Total(Past(i)))
  <2>. DEFINE r == D[i]
              now == Solaris_read(i)
              s == Past(i)
              t == Wrapped(Total(Past(i)))
  <2>1. i \in 0 .. existing /\ i # 0  BY <1>4, <1>5
  <2>2. data[i] \in CPURow /\ now \in [Kinds -> Nat]  BY <1>3, <2>1 DEF CPUTypeInv
  <2>3. s \in [Kinds -> Int]
    <3>1. \A k \in Kinds : now[k] \in Nat /\ data[i].time[k] \in Nat  BY <2>2 DEF CPURow
    <3>. HIDE DEF now
    <3>2. \A k \in Kinds : now[k] - data[i].time[k] \in Int  BY <3>1
    <3>3. \A x \in Int : Wrapped(x) \in Int  BY DEF Wrapped
    <3>4. \A k \in Kinds : Wrapped(now[k] - data[i].time[k]) \in Int  BY <3>2, <3>3
    <3>. QED  BY <3>4 DEF now
  <2>4. t \in Int
    <3>1. Total(s) \in Int
      <4>. HIDE DEF s
      <4>. QED  BY <2>3, TotalType
    <3>2. \A x \in Int : Wrapped(x) \in Int  BY DEF Wrapped
    <3>. QED  BY <3>1, <3>2
  <2>5. r = [data[i] EXCEPT !.online = TRUE, !.parts = s, !.total = t, !.time = now]  BY <1>6, <2>1
  <2>. HIDE DEF D, r, now, s, t
  <2>6. r \in CPURow /\ r.online /\ r.time = now /\ r.parts = s /\ r.total = t
    BY <2>2, <2>3, <2>4, <2>5 DEF CPURow
  <2>. QED  BY <2>6 DEF r, now, s, t
<1>11. ASSUME NEW i \in (0 .. existing) \ kd
       PROVE  D[i] \in CPURow /\ (i # 0 => ~D[i].online)
  <2>1. data[i] \in CPURow  BY DEF CPUTypeInv
  <2>2. [data[i] EXCEPT !.online = FALSE] \in CPURow /\ ~[data[i] EXCEPT !.online = FALSE].online  BY <2>1 DEF CPURow
  <2>. HIDE DEF D
  <2>. QED  BY <1>7, <1>9, <2>1, <2>2
<1>12. D = [i \in 0 .. existing |-> D[i]]
  <2>. DEFINE E(i) == CASE i = 0 -> data[0]
                        [] i # 0 /\ i \notin kd -> [data[i] EXCEPT !.online = FALSE]
                        [] OTHER -> [data[i] EXCEPT !.online = TRUE, !.parts = Past(i),
                                                    !.total = Wrapped(Total(Past(i))), !.time = Solaris_read(i)]
  <2>1. D = [i \in 0 .. existing |-> E(i)]  BY <1>1 DEF Solaris_scanCPUTime
  <2>. HIDE DEF D, E
  <2>. QED  BY <2>1
<1>13. D \in [0 .. existing -> CPURow]
  <2>. HIDE DEF D
  <2>1. \A i \in 0 .. existing : D[i] \in CPURow  BY <1>10, <1>11
  <2>. QED  BY <1>12, <2>1
<1>14. ASSUME NEW c \in CPUs PROVE D[c].online = (c \in kd)
  <2>1. c \in 0 .. existing /\ c # 0  BY DEF CPUs
  <2>2. D[c].online \in BOOLEAN
    <3>. HIDE DEF D
    <3>. QED  BY <1>13, <2>1 DEF CPURow
  <2>. HIDE DEF D
  <2>3. CASE c \in kd  BY <1>10, <2>2, <2>3
  <2>4. CASE c \notin kd  BY <1>11, <2>1, <2>2, <2>4
  <2>. QED  BY <2>3, <2>4
<1>15. ASSUME NEW i \in ReadOnes PROVE Reads(D, i)
  <2>1. i \in kd /\ kd = on /\ i \in CPUs  BY <1>5, <1>15 DEF ReadOnes
  <2>2. Solaris_read(i) = clicks[i]
    <3>1. i \in Solaris_readable(i) /\ i \in Int  BY <2>1 DEF Solaris_readable, CPUs
    <3>2. FX!Max(Solaris_readable(i)) \in Solaris_readable(i) /\ FX!Max(Solaris_readable(i)) >= i  BY <1>2, <2>1, <3>1
    <3>3. FX!Max(Solaris_readable(i)) = i
      <4>. DEFINE m == FX!Max(Solaris_readable(i))
      <4>1. m \in Int /\ m <= i /\ m >= i  BY <1>16, <3>2 DEF Solaris_readable
      <4>. HIDE DEF m
      <4>2. m = i  BY <3>1, <4>1
      <4>. QED  BY <4>2 DEF m
    <3>. QED  BY <3>3 DEF Solaris_read
  <2>3. TimeOf(clicks, i) = clicks[i] /\ clicks[i] \in [Kinds -> Nat]
    BY <2>1 DEF TimeOf, CPUTypeInv, Clicks
  <2>. DEFINE r == D[i]
              now == clicks[i]
  <2>4. r.time = now /\ r.parts = Past(i) /\ r.total = Wrapped(Total(Past(i)))  BY <1>10, <2>1, <2>2
  <2>5. Keeps(r, now)  BY <2>4 DEF Keeps
  <2>6. ASSUME NEW then \in [Kinds -> Nat], Keeps(data[i], then), NoLess(then, now)
        PROVE  Share(r, now, then)
    <3>1. Past(i) = [k \in Kinds |-> Wrapped(now[k] - then[k])]  BY <2>2, <2>6 DEF Keeps
    <3>2. Total(now) <= MaxClicks /\ Total(now) \in Nat /\ MaxClicks \in Nat
      <4>1. Total(now) \in Nat  BY <2>3, TotalType
      <4>2. Total(now) <= spent /\ spent \in 0 .. MaxClicks  BY <2>1 DEF ClicksInv, CPUTypeInv
      <4>. QED  BY <4>1, <4>2, PlatformCPUsAssumption
    <3>3. \A x \in 0 .. MaxClicks : Wrapped(x) = x  BY <3>2 DEF Wrapped, NarrowClicks
    <3>4. \A k \in Kinds : now[k] \in Nat /\ then[k] \in Nat /\ then[k] <= now[k]  BY <2>3, <2>6 DEF NoLess
    <3>. HIDE DEF now, Past
    <3>5. ASSUME NEW k \in Kinds PROVE now[k] - then[k] \in 0 .. MaxClicks
      <4>1. now["user"] \in Nat /\ now["system"] \in Nat /\ now["idle"] \in Nat  BY <3>4, KindsFacts
      <4>2. now["user"] <= Total(now) /\ now["system"] <= Total(now) /\ now["idle"] <= Total(now)
        BY <4>1 DEF Total
      <4>3. k = "user" \/ k = "system" \/ k = "idle"  BY KindsFacts
      <4>4. now[k] <= Total(now)  BY <4>2, <4>3
      <4>. QED  BY <3>2, <3>4, <4>4
    <3>6. Past(i) = Since(now, then)
      <4>1. \A k \in Kinds : Wrapped(now[k] - then[k]) = now[k] - then[k]  BY <3>3, <3>5
      <4>. QED  BY <3>1, <4>1 DEF Since
    <3>7. Total(then) <= Total(now) /\ Total(Since(now, then)) = Total(now) - Total(then) /\ Total(then) \in Nat
      BY <2>3, <2>6, GrownTotal, TotalType DEF now
    <3>8. Total(Past(i)) \in 0 .. MaxClicks  BY <3>2, <3>6, <3>7
    <3>9. r.parts = Since(now, then) /\ r.total = Total(Since(now, then))  BY <2>4, <3>3, <3>6, <3>8
    <3>10. Total(Since(now, then)) \in Nat  BY <3>2, <3>7
    <3>. HIDE DEF r
    <3>. QED  BY <3>9, <3>10 DEF Share
  <2>. HIDE DEF D
  <2>. QED  BY <2>3, <2>5, <2>6 DEF Reads
<1>. HIDE DEF D
<1>. QED  BY <1>13, <1>14, <1>15 DEF D

\* Where the CPUs that are on are the first, the n-th value is that of CPU n.
LEMMA PCPValues ==
    ASSUME CPUTypeInv
    PROVE  /\ \A i \in CPUs : PCP_values[i] \in [Kinds -> Nat]
           /\ on = 1 .. Cardinality(on) => \A i \in on : PCP_values[i] = clicks[i]
<1>. DEFINE Nth(i) == {c \in on : Cardinality({b \in on : b <= c}) = i}
<1>1. ASSUME NEW i \in CPUs
      PROVE  PCP_values[i] = IF Nth(i) = {} THEN Nothing ELSE clicks[CHOOSE c \in Nth(i) : TRUE]
  BY DEF PCP_values
<1>2. ASSUME NEW i \in CPUs PROVE PCP_values[i] \in [Kinds -> Nat]
  <2>1. Nothing \in [Kinds -> Nat]  BY DEF Nothing
  <2>2. \A c \in Nth(i) : c \in CPUs  BY DEF CPUTypeInv
  <2>. HIDE DEF Nth
  <2>3. Nth(i) # {} => (CHOOSE c \in Nth(i) : TRUE) \in CPUs  BY <2>2
  <2>4. \A c \in CPUs : clicks[c] \in [Kinds -> Nat]  BY DEF CPUTypeInv, Clicks
  <2>. QED  BY <1>1, <2>1, <2>3, <2>4
<1>3. ASSUME on = 1 .. Cardinality(on), NEW i \in on PROVE PCP_values[i] = clicks[i]
  <2>1. Cardinality(on) \in Nat  BY OnFacts DEF CPUTypeInv
  <2>2. ASSUME NEW c \in on PROVE Cardinality({b \in on : b <= c}) = c
    <3>1. c \in Nat /\ c <= Cardinality(on) /\ c >= 1  BY <1>3, <2>1
    <3>2. {b \in on : b <= c} = 1 .. c  BY <1>3, <2>1, <3>1
    <3>3. Cardinality(1 .. c) = c  BY <3>1, FS_Interval
    <3>. QED  BY <3>2, <3>3
  <2>3. Nth(i) = {i}  BY <1>3, <2>2
  <2>4. i \in CPUs  BY DEF CPUTypeInv
  <2>. HIDE DEF Nth
  <2>. QED  BY <1>1, <2>3, <2>4
<1>. QED  BY <1>2, <1>3

LEMMA PCPReading ==
    ASSUME CPUTypeInv, system = "pcp"
    PROVE  /\ NewReadings \in [0 .. existing -> CPURow]
           /\ \A i \in 0 .. existing : NewReadings[i].online = data[i].online
           /\ \A i \in ReadOnes : Reads(NewReadings, i)
<1>. DEFINE D == NewReadings
            Now(i) == IF i = 0 THEN Sum(clicks, CPUs) ELSE PCP_values[i]
<1>1. D = PCP_updateHeader  BY DEF NewReadings
<1>2. ASSUME NEW i \in 0 .. existing PROVE D[i] = PCP_deriveCPUTime(Now(i), data[i])
  BY <1>1 DEF PCP_updateHeader
<1>3. D = [i \in 0 .. existing |-> D[i]]  BY <1>1 DEF PCP_updateHeader
<1>4. ASSUME NEW i \in 0 .. existing PROVE Now(i) \in [Kinds -> Nat]
  <2>1. existing \in Nat /\ CPUs \in SUBSET CPUs /\ clicks \in [CPUs -> [Kinds -> Nat]]  BY DEF CPUTypeInv, Clicks
  <2>2. Sum(clicks, CPUs) \in [Kinds -> Nat]  BY <2>1, SumType
  <2>3. i # 0 => i \in CPUs  BY <2>1 DEF CPUs
  <2>. QED  BY <2>2, <2>3, PCPValues
<1>. HIDE DEF D, Now
<1>5. ASSUME NEW i \in 0 .. existing
      PROVE  /\ D[i] \in CPURow /\ D[i].online = data[i].online /\ D[i].time = Now(i)
             /\ D[i].parts = [k \in Kinds |-> SaturatingSub(Now(i)[k], data[i].time[k])]
             /\ D[i].total = SaturatingSub(Total(Now(i)), Total(data[i].time))
  <2>1. data[i] \in CPURow /\ Now(i) \in [Kinds -> Nat]  BY <1>4 DEF CPUTypeInv
  <2>. DEFINE r == PCP_deriveCPUTime(Now(i), data[i])
  <2>2. /\ r \in CPURow /\ r.online = data[i].online /\ r.time = Now(i)
        /\ r.parts = [k \in Kinds |-> SaturatingSub(Now(i)[k], data[i].time[k])]
        /\ r.total = SaturatingSub(Total(Now(i)), Total(data[i].time))
    BY <2>1, RowRead
  <2>3. D[i] = r  BY <1>2
  <2>. HIDE DEF r
  <2>. QED  BY <2>2, <2>3
<1>6. D \in [0 .. existing -> CPURow]  BY <1>3, <1>5
<1>7. ASSUME NEW i \in ReadOnes PROVE Reads(D, i)
  <2>1. i \in 0 .. existing /\ Now(i) = TimeOf(clicks, i)
    <3>1. CASE i = 0  BY <3>1 DEF Now, TimeOf, CPUTypeInv
    <3>2. CASE i # 0
      <4>1. i \in on /\ on = 1 .. Cardinality(on) /\ i \in CPUs  BY <1>7, <3>2 DEF ReadOnes, CPUTypeInv
      <4>2. PCP_values[i] = clicks[i]  BY <4>1, PCPValues
      <4>3. TimeOf(clicks, i) = clicks[i] /\ Now(i) = PCP_values[i]  BY <3>2 DEF TimeOf, Now
      <4>. QED  BY <4>1, <4>2, <4>3 DEF CPUs
    <3>. QED  BY <3>1, <3>2
  <2>. DEFINE r == D[i]
              now == TimeOf(clicks, i)
  <2>2. /\ r.time = now /\ r.parts = [k \in Kinds |-> SaturatingSub(now[k], data[i].time[k])]
        /\ r.total = SaturatingSub(Total(now), Total(data[i].time)) /\ now \in [Kinds -> Nat]
    BY <1>4, <1>5, <2>1
  <2>. HIDE DEF r, now
  <2>3. Keeps(r, now)  BY <2>2 DEF Keeps
  <2>4. ASSUME NEW then \in [Kinds -> Nat], Keeps(data[i], then), NoLess(then, now)
        PROVE  Share(r, now, then)
    <3>1. data[i].time = then  BY <2>4 DEF Keeps
    <3>2. r.parts = [k \in Kinds |-> SaturatingSub(now[k], then[k])] /\ r.total = SaturatingSub(Total(now), Total(then))
      BY <2>2, <3>1
    <3>. QED  BY <2>2, <2>4, <3>2, SaturatingShare
  <2>. QED  BY <2>3, <2>4 DEF Reads, r, now
<1>. QED  BY <1>5, <1>6, <1>7 DEF D

\* What a reading of all systems has in common.
ReadFacts(D) ==
    /\ D \in [0 .. existing -> CPURow]
    /\ system # "solaris" => \A c \in CPUs : D[c].online = data[c].online
    /\ system = "solaris" => \A c \in CPUs : D[c].online = (c \in kd)
    /\ \A i \in ReadOnes : Reads(D, i)
    /\ system \in {"openbsd", "netbsd"} => MeanRead(D)

LEMMA AllReadings ==
    ASSUME NarrowClicks, CPUTypeInv, ClicksInv, ~Solaris_asserts
    PROVE  ReadFacts(NewReadings)
<1>. DEFINE D == NewReadings
<1>1. CPUs \subseteq 0 .. existing  BY DEF CPUs
<1>2. system \in {"freebsd", "dragonfly", "netbsd", "darwin", "pcp", "openbsd", "solaris"}
  BY DEF CPUTypeInv, AllCPUSystems
<1>3. system \in {"freebsd", "dragonfly", "netbsd", "darwin"} => ReadOnes = 0 .. existing  BY DEF ReadOnes
<1>4. CASE system = "freebsd"
  <2>1. D \in [0 .. existing -> CPURow] /\ \A i \in 0 .. existing : D[i].online = data[i].online /\ Reads(D, i)
    BY <1>4, FreeBSDReading
  <2>. HIDE DEF D
  <2>. QED  BY <1>1, <1>3, <1>4, <2>1 DEF ReadFacts, D
<1>5. CASE system = "dragonfly"
  <2>1. D \in [0 .. existing -> CPURow] /\ \A i \in 0 .. existing : D[i].online = data[i].online /\ Reads(D, i)
    BY <1>5, DragonFlyReading
  <2>. HIDE DEF D
  <2>. QED  BY <1>1, <1>3, <1>5, <2>1 DEF ReadFacts, D
<1>6. CASE system = "netbsd"
  <2>1. /\ D \in [0 .. existing -> CPURow] /\ MeanRead(D)
        /\ \A i \in 0 .. existing : D[i].online = data[i].online /\ Reads(D, i)
    BY <1>6, NetBSDReading
  <2>. HIDE DEF D
  <2>. QED  BY <1>1, <1>3, <1>6, <2>1 DEF ReadFacts, D
<1>7. CASE system = "darwin"
  <2>1. D \in [0 .. existing -> CPURow] /\ \A i \in 0 .. existing : D[i].online = data[i].online /\ Reads(D, i)
    BY <1>7, DarwinReading
  <2>. HIDE DEF D
  <2>. QED  BY <1>1, <1>3, <1>7, <2>1 DEF ReadFacts, D
<1>8. CASE system = "pcp"
  <2>1. /\ D \in [0 .. existing -> CPURow] /\ \A i \in ReadOnes : Reads(D, i)
        /\ \A i \in 0 .. existing : D[i].online = data[i].online
    BY <1>8, PCPReading
  <2>. HIDE DEF D
  <2>. QED  BY <1>1, <1>8, <2>1 DEF ReadFacts, D
<1>9. CASE system = "openbsd"
  <2>1. /\ D \in [0 .. existing -> CPURow] /\ MeanRead(D) /\ \A i \in ReadOnes : Reads(D, i)
        /\ \A i \in 0 .. existing : D[i].online = data[i].online
    BY <1>9, OpenBSDReading
  <2>. HIDE DEF D
  <2>. QED  BY <1>1, <1>9, <2>1 DEF ReadFacts, D
<1>10. CASE system = "solaris"
  <2>1. /\ D \in [0 .. existing -> CPURow] /\ \A i \in ReadOnes : Reads(D, i)
        /\ \A c \in CPUs : D[c].online = (c \in kd)
    BY <1>10, SolarisReading
  <2>. HIDE DEF D
  <2>. QED  BY <1>10, <2>1 DEF ReadFacts, D
<1>. QED  BY <1>2, <1>4, <1>5, <1>6, <1>7, <1>8, <1>9, <1>10

LEMMA QuietCounts ==
    ASSUME quiet \in 0 .. 3
    PROVE  FX!Min({3, quiet + 1}) = IF quiet >= 2 THEN 3 ELSE quiet + 1
<1>. DEFINE q == quiet + 1
<1>1. q \in Int /\ 3 \in Int  OBVIOUS
<1>. HIDE DEF q
<1>2. FX!Min({3, q}) = IF 3 <= q THEN 3 ELSE q  BY <1>1, TwoFacts, Zenon
<1>. QED  BY <1>2 DEF q

\* A mean is shown only if the first CPU has a frequency, which all have then.
LEMMA FrequencyFacts ==
    ASSUME CPUTypeInv, FlagsInv, frequency' \in NewFrequencies
    PROVE  /\ system # "freebsd" => frequency'[0] # "mean"
           /\ frequency'[0] = "mean" => \A c \in CPUs : frequency'[c] # "none"
<1>1. 0 \in 0 .. existing  BY DEF CPUTypeInv
<1>2. CASE system = "freebsd"
  <2>1. PICK given \in SUBSET CPUs : frequency' = FreeBSD_frequency(given)  BY <1>2 DEF NewFrequencies
  <2>2. ASSUME frequency'[0] = "mean" PROVE existing > 1 /\ 1 \in given
    BY <1>1, <2>1, <2>2 DEF FreeBSD_frequency
  <2>3. ASSUME NEW c \in CPUs, existing > 1, 1 \in given PROVE frequency'[c] # "none"
    <3>1. c \in 0 .. existing /\ c # 0  BY DEF CPUs
    <3>2. CASE c \in given
      <4>1. frequency'[c] = "own"  BY <2>1, <3>1, <3>2 DEF FreeBSD_frequency
      <4>. QED  BY <4>1
    <3>3. CASE c \notin given
      <4>1. frequency'[c] = "first"  BY <2>1, <2>3, <3>1, <3>3 DEF FreeBSD_frequency
      <4>. QED  BY <4>1
    <3>. QED  BY <3>2, <3>3
  <2>. QED  BY <1>2, <2>2, <2>3
<1>3. CASE system = "netbsd"
  <2>1. PICK given \in SUBSET CPUs, legacy \in BOOLEAN : frequency' = NetBSD_scanCPUFrequency(given, legacy)
    BY <1>3 DEF NewFrequencies
  <2>2. 0 \notin given  BY DEF CPUs
  <2>3. frequency'[0] = "zero"  BY <1>1, <2>1, <2>2 DEF NetBSD_scanCPUFrequency
  <2>. QED  BY <2>3
<1>4. CASE system \notin {"freebsd", "netbsd"}
  <2>1. frequency' = frequency  BY <1>4 DEF NewFrequencies
  <2>. QED  BY <1>4, <2>1 DEF FlagsInv
<1>. QED  BY <1>2, <1>3, <1>4

LEMMA ReadClicksStep ==
    ASSUME NarrowClicks, CPUsInv, ReadClicks
    PROVE  CPUsInv'
<1>. USE DEF CPUsInv, ReadClicks, machineVars
<1>1. CPUs' = CPUs  BY DEF CPUs
<1>2. quiet' = IF quiet >= 2 THEN 3 ELSE quiet + 1  BY QuietCounts DEF CPUTypeInv
<1>3. ~ended' => data' = NewReadings /\ ReadFacts(NewReadings)  BY AllReadings
<1>4. ended' => data' = data /\ system = "solaris"  BY DEF Solaris_asserts
<1>5. CPUTypeInv'
  <2>1. Clicks' = Clicks  BY <1>1 DEF Clicks
  <2>2. data' \in [0 .. existing -> CPURow]  BY <1>3, <1>4 DEF ReadFacts, CPUTypeInv
  <2>3. ended' \in BOOLEAN  BY DEF Solaris_asserts
  <2>4. quiet' \in 0 .. 3  BY <1>2 DEF CPUTypeInv
  <2>. QED  BY <1>1, <2>1, <2>2, <2>3, <2>4 DEF CPUTypeInv
<1>6. ClicksInv'
  <2>1. \A c \in CPUs : NoLess(clicks[c], clicks[c])
    <3>1. \A c \in CPUs : clicks[c] \in [Kinds -> Nat]  BY DEF CPUTypeInv, Clicks
    <3>2. \A c \in CPUs : \A k \in Kinds : clicks[c][k] \in Nat  BY <3>1
    <3>. QED  BY <3>2 DEF NoLess
  <2>. QED  BY <1>1, <2>1 DEF ClicksInv
<1>7. FlagsInv'
  <2>1. system \notin {"openbsd", "solaris"} => \A c \in CPUs : data'[c].online
    BY <1>3, <1>4 DEF ReadFacts, FlagsInv
  <2>2. system # "freebsd" => frequency'[0] # "mean"  BY FrequencyFacts
  <2>. QED  BY <1>1, <2>1, <2>2 DEF FlagsInv
<1>8. system # "solaris" => OnlineByData' = OnlineByData
  BY <1>1, <1>3, <1>4 DEF ReadFacts, OnlineByData
<1>9. SettledInv'
  <2>1. Settled' => Settled  BY <1>2 DEF Settled, CPUTypeInv
  <2>. QED  BY <1>8, <2>1 DEF SettledInv
<1>10. KeptInv'
  <2>1. SUFFICES ASSUME Kept' PROVE (\A i \in ReadOnes : Keeps(data[i], TimeOf(earlier, i)))'  BY DEF KeptInv
  <2>2. data' = NewReadings /\ ReadFacts(NewReadings)  BY <1>3, <2>1 DEF Kept
  <2>3. ReadOnes' = ReadOnes  BY <1>1, <1>8 DEF ReadOnes
  <2>4. \A i : TimeOf(earlier, i)' = TimeOf(clicks, i)  BY <1>1, <1>8 DEF TimeOf, Averaged
  <2>5. \A i \in ReadOnes : Keeps(data'[i], TimeOf(clicks, i))  BY <2>2 DEF ReadFacts, Reads
  <2>. QED  BY <2>3, <2>4, <2>5 DEF Keeps
<1>. QED  BY <1>5, <1>6, <1>7, <1>9, <1>10

-----------------------------------------------------------------------------
(* Bars                                                                     *)

\* A third scan in a row without a switch reads what two before it have kept.
LEMMA ThirdScan ==
    ASSUME CPUsInv, ReadClicks, quiet' = 3
    PROVE  Settled /\ Kept /\ quiet >= 2
<1>1. quiet \in 0 .. 3  BY DEF CPUsInv, CPUTypeInv
<1>2. quiet' = IF quiet >= 2 THEN 3 ELSE quiet + 1  BY <1>1, QuietCounts DEF ReadClicks
<1>3. quiet >= 2  BY <1>1, <1>2
<1>. QED  BY <1>1, <1>3 DEF ReadClicks, Settled, Kept

\* All CPUs of the chain can be read unless some were swapped.
LEMMA NothingAsserted ==
    ASSUME CPUsInv, Settled, Solaris_asserts
    PROVE  swapped
<1>. USE DEF CPUsInv, CPUTypeInv
<1>1. system = "solaris"  BY DEF Solaris_asserts
<1>2. PICK c \in kd : Solaris_readable(c) = {}  BY DEF Solaris_asserts
<1>3. c \in Int  BY DEF CPUs
<1>4. SUFFICES ASSUME kd = on PROVE FALSE  BY <1>1 DEF SettledInv
<1>5. c \in Solaris_readable(c)  BY <1>3, <1>4 DEF Solaris_readable
<1>. QED  BY <1>2, <1>5

\* An item that is read shows what its CPU did since the last reading.
LEMMA ItemShare ==
    ASSUME CPUsInv, Kept, NEW D, ReadFacts(D), NEW i \in ReadOnes,
           TimeOf(earlier, i) \in [Kinds -> Nat], NoLess(TimeOf(earlier, i), TimeOf(clicks, i))
    PROVE  Share(D[i], TimeOf(clicks, i), TimeOf(earlier, i))
<1>1. Keeps(data[i], TimeOf(earlier, i))  BY DEF CPUsInv, KeptInv
<1>2. Reads(D, i)  BY DEF ReadFacts
<1>. QED  BY <1>1, <1>2 DEF Reads

LEMMA SharesAreSame ==
    ASSUME NEW d, NEW now, NEW then, NEW past, Share(d, now, then), past = Since(now, then)
    PROVE  SameShares(d, past)
BY DEF Share, SameShares

LEMMA BarsStep ==
    ASSUME NarrowClicks, CPUsInv, ReadClicks, quiet' = 3
    PROVE  /\ ended' => swapped
           /\ ~swapped /\ (system = "pcp" => on = 1 .. Cardinality(on)) =>
                 \A c \in on : /\ data'[c].online
                               /\ SameShares(data'[c], Recent(c))
                               /\ Percent(data'[c]) <= 100
           /\ ~swapped /\ system \in {"openbsd", "solaris"} =>
                 {c \in CPUs : data'[c].online} = on
<1>1. Settled /\ Kept  BY ThirdScan
<1>2. ended' => swapped  BY <1>1, NothingAsserted DEF ReadClicks
<1>3. ASSUME ~swapped
      PROVE  data' = NewReadings /\ ReadFacts(NewReadings)
  <2>1. ~Solaris_asserts  BY <1>1, <1>3, NothingAsserted
  <2>2. ReadFacts(NewReadings)  BY <2>1, AllReadings DEF CPUsInv
  <2>. QED  BY <2>1, <2>2 DEF ReadClicks
<1>4. ASSUME ~swapped
      PROVE  (system = "openbsd" => OnlineByData = on) /\ (system = "solaris" => kd = on)
  BY <1>1, <1>4 DEF CPUsInv, SettledInv
<1>5. ASSUME ~swapped, system = "pcp" => on = 1 .. Cardinality(on), NEW c \in on
      PROVE  data'[c].online /\ SameShares(data'[c], Recent(c)) /\ Percent(data'[c]) <= 100
  <2>. DEFINE D == NewReadings
  <2>1. data' = D /\ ReadFacts(D)  BY <1>3, <1>5
  <2>. HIDE DEF D
  <2>2. c \in CPUs /\ c \in 0 .. existing /\ c # 0  BY DEF CPUsInv, CPUTypeInv, CPUs
  <2>3. c \in ReadOnes
    <3>1. CASE system \in {"openbsd", "solaris", "pcp"}  BY <1>4, <1>5, <3>1 DEF ReadOnes
    <3>2. CASE system \notin {"openbsd", "solaris", "pcp"}  BY <2>2, <3>2 DEF ReadOnes
    <3>. QED  BY <3>1, <3>2
  <2>4. TimeOf(clicks, c) = clicks[c] /\ TimeOf(earlier, c) = earlier[c]  BY <2>2 DEF TimeOf
  <2>5. earlier[c] \in [Kinds -> Nat] /\ clicks[c] \in [Kinds -> Nat]
    BY <2>2 DEF CPUsInv, CPUTypeInv, Clicks
  <2>6. NoLess(earlier[c], clicks[c])  BY <2>2 DEF CPUsInv, ClicksInv
  <2>7. Share(D[c], clicks[c], earlier[c])
    <3>1. TimeOf(earlier, c) \in [Kinds -> Nat] /\ NoLess(TimeOf(earlier, c), TimeOf(clicks, c))  BY <2>4, <2>5, <2>6
    <3>2. Share(D[c], TimeOf(clicks, c), TimeOf(earlier, c))  BY <1>1, <2>1, <2>3, <3>1, ItemShare
    <3>. QED  BY <2>4, <3>2
  <2>8. SameShares(D[c], Recent(c))
    <3>1. Recent(c) = Since(clicks[c], earlier[c])  BY DEF Recent
    <3>. QED  BY <2>7, <3>1, SharesAreSame
  <2>9. D[c].parts \in [Kinds -> Int] /\ D[c].total \in Nat
    <3>1. D[c] \in CPURow  BY <2>1, <2>2 DEF ReadFacts
    <3>. QED  BY <2>7, <3>1 DEF CPURow, Share
  <2>10. Percent(D[c]) <= 100  BY <2>9, PercentBounded
  <2>11. D[c].online
    <3>1. CASE system = "openbsd"
      <4>1. D[c].online = data[c].online  BY <2>1, <2>2, <3>1 DEF ReadFacts
      <4>. QED  BY <1>4, <1>5, <3>1, <4>1 DEF OnlineByData
    <3>2. CASE system = "solaris"
      <4>1. D[c].online = (c \in kd)  BY <2>1, <2>2, <3>2 DEF ReadFacts
      <4>. QED  BY <1>4, <1>5, <3>2, <4>1
    <3>3. CASE system \notin {"openbsd", "solaris"}
      <4>1. D[c].online = data[c].online  BY <2>1, <2>2, <3>3 DEF ReadFacts
      <4>. QED  BY <2>2, <3>3, <4>1 DEF CPUsInv, FlagsInv
    <3>. QED  BY <3>1, <3>2, <3>3
  <2>. QED  BY <2>1, <2>8, <2>10, <2>11
<1>6. ASSUME ~swapped, system \in {"openbsd", "solaris"}
      PROVE  {c \in CPUs : data'[c].online} = on
  <2>. DEFINE D == NewReadings
  <2>1. data' = D /\ ReadFacts(D)  BY <1>3, <1>6
  <2>. HIDE DEF D
  <2>2. on \subseteq CPUs /\ kd \subseteq CPUs  BY DEF CPUsInv, CPUTypeInv
  <2>3. CASE system = "openbsd"
    <3>1. \A c \in CPUs : D[c].online = data[c].online  BY <2>1, <2>3 DEF ReadFacts
    <3>2. {c \in CPUs : D[c].online} = OnlineByData  BY <3>1 DEF OnlineByData
    <3>. QED  BY <1>4, <1>6, <2>1, <2>3, <3>2
  <2>4. CASE system = "solaris"
    <3>1. \A c \in CPUs : D[c].online = (c \in kd)  BY <2>1, <2>4 DEF ReadFacts
    <3>2. {c \in CPUs : D[c].online} = kd  BY <2>2, <3>1
    <3>. QED  BY <1>4, <1>6, <2>1, <2>4, <3>2
  <2>. QED  BY <1>6, <2>3, <2>4
<1>. QED  BY <1>2, <1>5, <1>6

\* The average of a system that divides the clicks of the CPUs in S.
LEMMA MeanStep ==
    ASSUME CPUTypeInv, ClicksInv, NEW S \in SUBSET CPUs, S = CPUs \/ (S = on /\ quiet >= 1),
           NEW D, MeanRead(D), TimeOf(clicks, 0) = Averaged(Sum(clicks, S)),
           data[0].time = Averaged(Sum(earlier, S)), NEW k \in Kinds
    PROVE  /\ D[0].parts[k] * active < Sum(RecentAll, CPUs)[k] + active
           /\ D[0].parts[k] * active > Sum(RecentAll, CPUs)[k] - active
<1>1. /\ Sum(clicks, S) \in [Kinds -> Nat] /\ Sum(earlier, S) \in [Kinds -> Nat]
      /\ NoLess(Sum(earlier, S), Sum(clicks, S))
      /\ Since(Sum(clicks, S), Sum(earlier, S)) = Sum(RecentAll, CPUs)
  BY SumRecent
<1>. DEFINE now == Sum(clicks, S)
            then == Sum(earlier, S)
            past == Sum(RecentAll, CPUs)
<1>2. now \in [Kinds -> Nat] /\ then \in [Kinds -> Nat] /\ NoLess(then, now) /\ Since(now, then) = past  BY <1>1
<1>3. TimeOf(clicks, 0) = Averaged(now) /\ data[0].time = Averaged(then)  OBVIOUS
<1>. HIDE DEF now, then, past
<1>4. active \in Nat \ {0}  BY DEF CPUTypeInv
<1>5. now[k] \in Nat /\ then[k] \in Nat /\ then[k] <= now[k] /\ past[k] = now[k] - then[k]
  BY <1>2 DEF NoLess, Since
<1>6. Averaged(now)[k] = now[k] \div active /\ Averaged(then)[k] = then[k] \div active
  BY <1>2, <1>4, AveragedType
<1>7. D[0].parts[k] = SaturatingSub(now[k] \div active, then[k] \div active)
  BY <1>3, <1>6 DEF MeanRead
<1>8. /\ SaturatingSub(now[k] \div active, then[k] \div active) * active < (now[k] - then[k]) + active
      /\ SaturatingSub(now[k] \div active, then[k] \div active) * active > (now[k] - then[k]) - active
  BY <1>4, <1>5, MeanFacts
<1>. QED  BY <1>5, <1>7, <1>8 DEF past

LEMMA AverageStep ==
    ASSUME NarrowClicks, CPUsInv, ReadClicks, quiet' = 3, ~swapped
    PROVE  /\ frequency'[0] = "mean" => \A c \in CPUs : frequency'[c] # "none"
           /\ LET past == Sum([c \in CPUs |-> Recent(c)], CPUs)
                  avg == data'[0]
              IN  CASE system \in {"freebsd", "dragonfly", "pcp"} -> SameShares(avg, past)
                    [] system \in {"openbsd", "netbsd"} ->
                         \A k \in Kinds : /\ avg.parts[k] * active < past[k] + active
                                          /\ avg.parts[k] * active > past[k] - active
                    [] OTHER -> Averages.of = Averages.by
<1>. DEFINE D == NewReadings
            past == Sum(RecentAll, CPUs)
<1>1. Settled /\ Kept /\ quiet >= 2  BY ThirdScan
<1>2. data' = D /\ ReadFacts(D)
  <2>1. ~Solaris_asserts  BY <1>1, NothingAsserted
  <2>2. ReadFacts(D)  BY <2>1, AllReadings DEF CPUsInv
  <2>. QED  BY <2>1, <2>2 DEF ReadClicks
<1>3. frequency'[0] = "mean" => \A c \in CPUs : frequency'[c] # "none"
  BY FrequencyFacts DEF CPUsInv, ReadClicks
<1>4. system \in {"freebsd", "dragonfly", "netbsd", "darwin", "pcp", "openbsd", "solaris"} /\ CPUTypeInv /\ ClicksInv
  BY DEF CPUsInv, CPUTypeInv, AllCPUSystems
<1>. HIDE DEF D
<1>5. CPUs \in SUBSET CPUs /\ 0 \in 0 .. existing  BY <1>4 DEF CPUTypeInv
<1>6. ASSUME system \in {"freebsd", "dragonfly", "pcp"} PROVE SameShares(D[0], past)
  <2>1. 0 \in ReadOnes  BY <1>5, <1>6 DEF ReadOnes
  <2>2. TimeOf(clicks, 0) = Sum(clicks, CPUs) /\ TimeOf(earlier, 0) = Sum(earlier, CPUs)  BY <1>6 DEF TimeOf
  <2>3. /\ Sum(earlier, CPUs) \in [Kinds -> Nat] /\ NoLess(Sum(earlier, CPUs), Sum(clicks, CPUs))
        /\ Since(Sum(clicks, CPUs), Sum(earlier, CPUs)) = past
    BY <1>4, <1>5, SumRecent
  <2>4. TimeOf(earlier, 0) \in [Kinds -> Nat] /\ NoLess(TimeOf(earlier, 0), TimeOf(clicks, 0))  BY <2>2, <2>3
  <2>5. Share(D[0], TimeOf(clicks, 0), TimeOf(earlier, 0))  BY <1>1, <1>2, <2>1, <2>4, ItemShare
  <2>. HIDE DEF past
  <2>6. past = Since(TimeOf(clicks, 0), TimeOf(earlier, 0))  BY <2>2, <2>3
  <2>. QED  BY <2>5, <2>6, SharesAreSame
<1>7. ASSUME system \in {"openbsd", "netbsd"}, NEW k \in Kinds
      PROVE  D[0].parts[k] * active < past[k] + active /\ D[0].parts[k] * active > past[k] - active
  <2>. DEFINE S == IF system = "openbsd" THEN on ELSE CPUs
  <2>1. 0 \in ReadOnes  BY <1>5, <1>7 DEF ReadOnes
  <2>2. system = "openbsd" => OnlineByData = on  BY <1>1 DEF CPUsInv, SettledInv
  <2>3. TimeOf(clicks, 0) = Averaged(Sum(clicks, S)) /\ TimeOf(earlier, 0) = Averaged(Sum(earlier, S))
    BY <1>7, <2>2 DEF TimeOf
  <2>4. data[0].time = Averaged(Sum(earlier, S))  BY <1>1, <2>1, <2>3 DEF CPUsInv, KeptInv, Keeps
  <2>5. S \in SUBSET CPUs /\ (S = CPUs \/ (S = on /\ quiet >= 1))
    <3>1. on \in SUBSET CPUs /\ quiet \in 0 .. 3  BY <1>4 DEF CPUTypeInv
    <3>. QED  BY <1>1, <3>1
  <2>6. MeanRead(D)  BY <1>2, <1>7 DEF ReadFacts
  <2>. HIDE DEF S
  <2>. QED  BY <1>4, <2>3, <2>4, <2>5, <2>6, MeanStep
<1>8. ASSUME system \in {"darwin", "solaris"} PROVE Averages.of = Averages.by
  <2>1. CASE system = "darwin"
    <3>1. active = existing  BY <2>1 DEF CPUsInv, FlagsInv
    <3>. QED  BY <2>1, <3>1 DEF Averages
  <2>2. CASE system = "solaris"
    <3>1. active = Cardinality(on) /\ kd = on  BY <1>1, <2>2 DEF CPUsInv, SettledInv
    <3>. QED  BY <2>2, <3>1 DEF Averages
  <2>. QED  BY <1>8, <2>1, <2>2
<1>. HIDE DEF past
<1>9. past = Sum([c \in CPUs |-> Recent(c)], CPUs)  BY DEF past, RecentAll
<1>10. CASE system \in {"freebsd", "dragonfly", "pcp"}  BY <1>2, <1>3, <1>6, <1>9, <1>10
<1>11. CASE system \in {"openbsd", "netbsd"}  BY <1>2, <1>3, <1>7, <1>9, <1>11
<1>12. CASE system \in {"darwin", "solaris"}  BY <1>3, <1>8, <1>12
<1>. QED  BY <1>4, <1>10, <1>11, <1>12

\* The bars of every number of CPUs and of all the systems, and their average,
\* show what the CPUs did in the last interval, once two scans have passed
\* since one was switched on or off (their counters do not overflow meanwhile:
\* those of Solaris have 16 bits in the model).
THEOREM CPUBarsAreTrue ==
    ASSUME NarrowClicks
    PROVE  CPUSpec => CPUBarsTrue
<1>1. CPUInit => CPUsInv  BY InitCPUsInv
<1>2. CPUsInv /\ [CPUNext]_cpuVars => CPUsInv'
  <2>. SUFFICES ASSUME CPUsInv, [CPUNext]_cpuVars PROVE CPUsInv'  OBVIOUS
  <2>1. CASE \E c \in CPUs, k \in Kinds : Click(c, k)  BY <2>1, ClickStep
  <2>2. CASE \E c \in CPUs : Switch(c)  BY <2>2, SwitchStep
  <2>3. CASE CountCPUs
    <3>1. OpenBSD_updateCPUcount \/ Solaris_updateCPUcount \/ PCP_updateCPUcount \/ CountedOnce  BY <2>3 DEF CountCPUs
    <3>. QED  BY <2>3, <3>1, OpenBSDCountStep, SolarisCountStep, PCPCountStep, CountedOnceStep
  <2>4. CASE ReadClicks  BY <2>4, ReadClicksStep
  <2>5. CASE NextScan  BY <2>5, NextScanStep
  <2>6. CASE UNCHANGED cpuVars  BY <2>6, IdleStep
  <2>. QED  BY <2>1, <2>2, <2>3, <2>4, <2>5, <2>6 DEF CPUNext
<1>3. CPUsInv /\ [CPUNext]_cpuVars =>
         [ReadClicks /\ quiet' = 3 =>
            /\ (ended' => swapped)
            /\ ~swapped /\ (system = "pcp" => on = 1 .. Cardinality(on)) =>
                  \A c \in on : /\ data'[c].online
                                /\ SameShares(data'[c], Recent(c))
                                /\ Percent(data'[c]) <= 100
            /\ ~swapped /\ system \in {"openbsd", "solaris"} =>
                  {c \in CPUs : data'[c].online} = on]_cpuVars
  BY BarsStep
<1>4. CPUsInv /\ [CPUNext]_cpuVars =>
         [ReadClicks /\ quiet' = 3 /\ ~swapped =>
            /\ frequency'[0] = "mean" => \A c \in CPUs : frequency'[c] # "none"
            /\ LET past == Sum([c \in CPUs |-> Recent(c)], CPUs)
                   avg == data'[0]
               IN  CASE system \in {"freebsd", "dragonfly", "pcp"} -> SameShares(avg, past)
                     [] system \in {"openbsd", "netbsd"} ->
                          \A k \in Kinds : /\ avg.parts[k] * active < past[k] + active
                                           /\ avg.parts[k] * active > past[k] - active
                     [] OTHER -> Averages.of = Averages.by]_cpuVars
  BY AverageStep
<1>5. CPUSpec => BarsTrue  BY <1>1, <1>2, <1>3, PTL DEF CPUSpec, BarsTrue
<1>6. CPUSpec => AverageTrue  BY <1>1, <1>2, <1>4, PTL DEF CPUSpec, AverageTrue
<1>. QED  BY <1>5, <1>6 DEF CPUBarsTrue

-----------------------------------------------------------------------------
(* PlatformScan: what is true between two steps                             *)

Words == {"sh", "ls"}
Labels == Words \cup {""}
Proc == [start : Nat, parent : Nat, uid : {0, 1}, comm : Words, system : BOOLEAN,
         threads : {1, 2}, running : {0, 1, 2}, jail : Nat]
Entry == [pid : Pids, lwp : 0 .. 2, proc : Proc]
TaskRow == [start : Nat, parent : Nat, uid : Int, user : Int, name : Labels,
            system : BOOLEAN, thread : BOOLEAN, nlwp : Nat, running : BOOLEAN,
            access : BOOLEAN, jail : Nat, jname : Nat, show : BOOLEAN, updated : BOOLEAN]
TaskNumbers == [kernel : Int, user : Int, total : Int, running : Int]

\* Process 2 is the kernel's, and only 1 and 2 have no parent; a name is one that
\* the process has had.
ProcFits(p, proc) ==
    /\ proc.start \in 1 .. births /\ proc.comm \in had[proc.start]
    /\ (proc.system <=> p = 2) /\ (proc.parent = 0 <=> p \in {1, 2})
KernInv ==
    /\ platform \in Platforms /\ option \in [kernel : BOOLEAN, user : BOOLEAN, names : BOOLEAN]
    /\ stage \in {"idle", "list", "scan", "shown"}
    /\ kern \in [Live -> Proc] /\ Live \subseteq Pids /\ {1, 2} \subseteq Live
    /\ births \in Nat /\ had \in [1 .. births -> SUBSET Words]
    /\ \A p \in Live : ProcFits(p, kern[p])

\* The entries are those of processes that had the number and no other since.
MainOf(e) == [pid |-> e.pid, lwp |-> 0, proc |-> e.proc]
ThreadOf(e) == [pid |-> e.pid, lwp |-> 2, proc |-> e.proc]
EntriesInv ==
    /\ seen \subseteq Entry /\ left \subseteq seen
    /\ \A e \in seen :
         /\ ProcFits(e.pid, e.proc)
         /\ e.pid \in Live => kern[e.pid].start = e.proc.start
         /\ MainOf(e) \in seen
    /\ \A e, d \in seen : e.pid = d.pid => e.proc = d.proc
Listing ==
    \A e \in seen :
        /\ e.lwp = 1 => platform = "openbsd"
        /\ e.lwp = 2 => ListsThreads /\ e.proc.threads = 2
        /\ platform = "openbsd" /\ e.proc.threads = 2 => ThreadOf(e) \in seen

\* A row is a process's, or its second thread's.
PidOf(k) == IF k > MaxPid THEN k - MaxPid ELSE k
RowFits(k, row) ==
    /\ row.start \in 1 .. births /\ row.name \in had[row.start] /\ row.user = row.uid
    /\ platform \in {"freebsd", "dragonfly", "openbsd", "netbsd", "pcp"} => (row.system <=> PidOf(k) = 2)
    /\ platform = "solaris" /\ row.system => k = 2
    /\ platform \in {"openbsd", "pcp"} => (row.thread <=> k > MaxPid)
    /\ platform \in {"freebsd", "netbsd"} => ~row.thread
    /\ platform = "dragonfly" => row.jname \in {NoJail, row.jail}
RowsInv ==
    /\ rows \in [DOMAIN rows -> TaskRow] /\ DOMAIN rows \subseteq 1 .. 2 * MaxPid
    /\ \A k \in DOMAIN rows :
         /\ RowFits(k, rows[k])
         /\ PidOf(k) \in Live => kern[PidOf(k)].start = rows[k].start
         /\ PidOf(k) \in DOMAIN rows

\* What has been handled is shown; on OpenBSD the threads are still being counted.
Done == seen \ left
Rowed(S) == {e \in S : ~(platform = "openbsd" /\ e.lwp = 1)}
Threads(e) == IF platform = "openbsd" THEN (IF ThreadOf(e) \in Done THEN 2 ELSE 1) ELSE e.proc.threads
ScanInv ==
    stage = "scan" =>
        /\ Listing
        /\ \A e \in seen : RowKey(e) \in DOMAIN rows => rows[RowKey(e)].start = e.proc.start
        /\ \A e \in Done : MainOf(e) \in Done
        /\ Keys(Rowed(Done)) \subseteq DOMAIN rows
        /\ \A k \in DOMAIN rows : rows[k].updated <=> k \in Keys(Rowed(Done))
        /\ \A e \in Rowed(Done) : Shows(rows[RowKey(e)], e, Threads(e))
ListInv == stage = "list" => \A k \in DOMAIN rows : ~rows[k].updated

\* The numbers so far.
Processes == tasks.total - tasks.kernel - tasks.user
Mains(S) == {e.pid : e \in {d \in S : d.lwp = 0 /\ d.pid # 2}}
KernelMains(S) == {e.pid : e \in {d \in S : d.lwp = 0 /\ d.pid = 2}}
CountFits(users, ofKernel) ==
    /\ platform \in {"freebsd", "openbsd", "netbsd", "pcp"} => Processes = users
    /\ platform = "dragonfly" => Processes >= users /\ (option.user => Processes = users)
    /\ platform = "darwin" => Processes = users + ofKernel
    /\ platform = "solaris" => Processes \in {users - 1, (users + ofKernel) - 1}
CountInv ==
    /\ tasks \in TaskNumbers
    /\ stage = "list" => Processes = IF platform = "solaris" THEN -1 ELSE 0
    /\ stage = "scan" => CountFits(Cardinality(Mains(Done)), Cardinality(KernelMains(Done)))

ListInvs == KernInv /\ EntriesInv /\ RowsInv /\ ScanInv /\ ListInv /\ CountInv /\ PlatformTrue

HIDE LinuxCPUsAssumption
USE PlatformScanAssumption

-----------------------------------------------------------------------------
(* PlatformScan: the kernel                                                 *)

LEMMA ScanInit == PlatformInit => ListInvs
<1>. SUFFICES ASSUME PlatformInit PROVE ListInvs  OBVIOUS
<1>1. /\ platform \in Platforms /\ option \in [kernel : BOOLEAN, user : BOOLEAN, names : BOOLEAN]
      /\ kern = [p \in 1 .. 3 |-> Process(p, IF p = 3 THEN 1 ELSE 0, 0, p = 2)]
      /\ births = 3 /\ had = [s \in 1 .. 3 |-> {"sh"}]
      /\ seen = {} /\ left = {} /\ rows = <<>> /\ tasks = NoTasks /\ stage = "idle"
  BY DEF PlatformInit
<1>2. Live = 1 .. 3  BY <1>1 DEF Live
<1>3. ASSUME NEW p \in 1 .. 3
      PROVE  /\ kern[p] \in Proc /\ kern[p].start = p /\ kern[p].comm = "sh" /\ (kern[p].system <=> p = 2)
             /\ (kern[p].parent = 0 <=> p \in {1, 2})
  <2>. DEFINE parent == IF p = 3 THEN 1 ELSE 0
              ofKernel == (p = 2)
  <2>1. kern[p] = Process(p, parent, 0, ofKernel)  BY <1>1
  <2>2. parent \in Nat /\ (parent = 0 <=> p \in {1, 2}) /\ ofKernel \in BOOLEAN /\ (ofKernel <=> p = 2)  OBVIOUS
  <2>. HIDE DEF parent, ofKernel
  <2>3. kern[p] \in Proc  BY <2>1, <2>2 DEF Process, Proc, Words, NoJail
  <2>. QED  BY <2>1, <2>2, <2>3 DEF Process
<1>4. \A p \in Live : ProcFits(p, kern[p])
  <2>. SUFFICES ASSUME NEW p \in 1 .. 3 PROVE ProcFits(p, kern[p])  BY <1>2
  <2>1. "sh" \in had[p]  BY <1>1
  <2>2. births = 3 /\ kern[p].start = p /\ kern[p].comm = "sh"  BY <1>1, <1>3
  <2>3. kern[p].start \in 1 .. births /\ kern[p].comm \in had[kern[p].start]  BY <2>1, <2>2
  <2>. QED  BY <1>3, <2>3 DEF ProcFits
<1>5. KernInv
  <2>1. kern \in [Live -> Proc]
    <3>1. kern = [p \in Live |-> kern[p]]  BY <1>1, <1>2
    <3>. QED  BY <1>2, <1>3, <3>1
  <2>2. Live \subseteq Pids /\ {1, 2} \subseteq Live  BY <1>2 DEF Pids
  <2>3. had \in [1 .. births -> SUBSET Words]  BY <1>1 DEF Words
  <2>. QED  BY <1>1, <1>4, <2>1, <2>2, <2>3 DEF KernInv
<1>6. EntriesInv  BY <1>1 DEF EntriesInv
<1>7. RowsInv  BY <1>1 DEF RowsInv
<1>8. CountInv  BY <1>1 DEF CountInv, TaskNumbers, NoTasks
<1>9. ScanInv /\ ListInv /\ PlatformTrue  BY <1>1 DEF ScanInv, ListInv, PlatformTrue, RowsTrue, CountsAgree
<1>. QED  BY <1>5, <1>6, <1>7, <1>8, <1>9 DEF ListInvs

\* What a step of the kernel may do to its processes.
KernMoves ==
    /\ UNCHANGED <<platform, option, listed, seen, left, rows, tasks>>
    /\ stage' = IF stage = "shown" THEN "idle" ELSE stage
    /\ kern' \in [Live' -> Proc] /\ Live' \subseteq Pids /\ {1, 2} \subseteq Live'
    /\ births' \in Nat /\ births' >= births /\ had' \in [1 .. births' -> SUBSET Words]
    /\ \A s \in 1 .. births : had[s] \subseteq had'[s]
    /\ \A p \in Live' : /\ ProcFits(p, kern[p])'
                        /\ IF p \in Live THEN kern'[p].start = kern[p].start ELSE Rested(p)

LEMMA KernKeeps ==
    ASSUME ListInvs, KernMoves
    PROVE  ListInvs'
<1>1. /\ UNCHANGED <<platform, option, listed, seen, left, rows, tasks>>
      /\ stage' = IF stage = "shown" THEN "idle" ELSE stage
  BY DEF KernMoves
<1>2. stage \in {"idle", "list", "scan", "shown"} /\ stage' \in {"idle", "list", "scan"}
      /\ (stage' \in {"list", "scan"} => stage = stage')
  BY <1>1 DEF ListInvs, KernInv
<1>3. births \in Nat /\ births' \in Nat /\ births' >= births /\ \A s \in 1 .. births : had[s] \subseteq had'[s]
  BY DEF KernMoves, ListInvs, KernInv
<1>4. KernInv'
  <2>1. platform \in Platforms /\ option \in [kernel : BOOLEAN, user : BOOLEAN, names : BOOLEAN]
    BY DEF ListInvs, KernInv
  <2>2. /\ kern' \in [Live' -> Proc] /\ Live' \subseteq Pids /\ {1, 2} \subseteq Live'
        /\ births' \in Nat /\ had' \in [1 .. births' -> SUBSET Words] /\ \A p \in Live' : ProcFits(p, kern[p])'
    BY DEF KernMoves
  <2>. QED  BY <1>1, <1>2, <2>1, <2>2 DEF KernInv
<1>5. ASSUME NEW p \in Live', p \in Live PROVE kern'[p].start = kern[p].start  BY <1>5 DEF KernMoves
<1>6. ASSUME NEW p \in Live', p \notin Live PROVE p \notin DOMAIN rows /\ \A e \in seen : e.pid # p
  BY <1>6 DEF KernMoves, Rested
<1>7. EntriesInv'
  <2>1. seen \subseteq Entry /\ left \subseteq seen /\ (\A e \in seen : MainOf(e) \in seen)
        /\ (\A e, d \in seen : e.pid = d.pid => e.proc = d.proc)
    BY DEF ListInvs, EntriesInv
  <2>2. ASSUME NEW e \in seen PROVE ProcFits(e.pid, e.proc)'
    <3>1. ProcFits(e.pid, e.proc)  BY DEF ListInvs, EntriesInv
    <3>. QED  BY <1>3, <3>1 DEF ProcFits
  <2>3. ASSUME NEW e \in seen, e.pid \in Live' PROVE kern'[e.pid].start = e.proc.start
    <3>1. e.pid \in Live  BY <1>6, <2>3
    <3>2. kern[e.pid].start = e.proc.start  BY <3>1 DEF ListInvs, EntriesInv
    <3>. QED  BY <1>5, <2>3, <3>1, <3>2
  <2>. QED  BY <1>1, <2>1, <2>2, <2>3 DEF EntriesInv, MainOf
<1>8. RowsInv'
  <2>1. rows \in [DOMAIN rows -> TaskRow] /\ DOMAIN rows \subseteq 1 .. 2 * MaxPid
        /\ \A k \in DOMAIN rows : PidOf(k) \in DOMAIN rows
    BY DEF ListInvs, RowsInv
  <2>2. ASSUME NEW k \in DOMAIN rows PROVE RowFits(k, rows[k])'
    <3>1. RowFits(k, rows[k])  BY DEF ListInvs, RowsInv
    <3>. QED  BY <1>1, <1>3, <3>1 DEF RowFits, PidOf
  <2>3. ASSUME NEW k \in DOMAIN rows, PidOf(k) \in Live' PROVE kern'[PidOf(k)].start = rows[k].start
    <3>1. PidOf(k) \in Live  BY <1>6, <2>1, <2>3
    <3>2. kern[PidOf(k)].start = rows[k].start  BY <3>1 DEF ListInvs, RowsInv
    <3>. QED  BY <1>5, <2>3, <3>1, <3>2
  <2>. QED  BY <1>1, <2>1, <2>2, <2>3 DEF RowsInv, PidOf
<1>9. ScanInv'
  <2>. SUFFICES ASSUME stage' = "scan" PROVE ScanInv'  BY DEF ScanInv
  <2>1. stage = "scan"  BY <1>2
  <2>2. /\ Listing
        /\ \A e \in seen : RowKey(e) \in DOMAIN rows => rows[RowKey(e)].start = e.proc.start
        /\ \A e \in Done : MainOf(e) \in Done
        /\ Keys(Rowed(Done)) \subseteq DOMAIN rows
        /\ \A k \in DOMAIN rows : rows[k].updated <=> k \in Keys(Rowed(Done))
    BY <2>1 DEF ListInvs, ScanInv
  <2>3. Listing' /\ Done' = Done /\ Rowed(Done)' = Rowed(Done) /\ Keys(Rowed(Done))' = Keys(Rowed(Done))
    BY <1>1, <2>2 DEF Listing, ListsThreads, ThreadOf, Done, Rowed, Keys, RowKey
  <2>4. ASSUME NEW e \in Rowed(Done) PROVE Shows(rows[RowKey(e)], e, Threads(e))'
    <3>1. Shows(rows[RowKey(e)], e, Threads(e))  BY <2>1 DEF ListInvs, ScanInv
    <3>2. e.proc.start \in 1 .. births  BY DEF ListInvs, EntriesInv, ProcFits, Rowed, Done
    <3>3. RowKey(e)' = RowKey(e) /\ Threads(e)' = Threads(e) /\ Hidden(e)' = Hidden(e)
      BY <1>1 DEF RowKey, Threads, Hidden, ThreadOf, Done
    <3>. QED  BY <1>1, <1>3, <3>1, <3>2, <3>3 DEF Shows
  <2>5. \A e \in seen : RowKey(e)' = RowKey(e)  BY <1>1 DEF RowKey
  <2>. QED  BY <1>1, <2>2, <2>3, <2>4, <2>5 DEF ScanInv, MainOf
<1>10. ListInv'
  <2>1. stage' = "list" => \A k \in DOMAIN rows : ~rows[k].updated  BY <1>2 DEF ListInvs, ListInv
  <2>. QED  BY <1>1, <2>1 DEF ListInv
<1>11. CountInv'
  <2>1. CountInv  BY DEF ListInvs
  <2>2. Processes' = Processes /\ Mains(Done)' = Mains(Done) /\ KernelMains(Done)' = KernelMains(Done)
    BY <1>1 DEF Processes, Mains, KernelMains, Done
  <2>. QED  BY <1>1, <1>2, <2>1, <2>2 DEF CountInv, CountFits
<1>12. PlatformTrue'  BY <1>2 DEF PlatformTrue, RowsTrue, CountsAgree
<1>. QED  BY <1>4, <1>7, <1>8, <1>9, <1>10, <1>11, <1>12 DEF ListInvs

\* Each step of the kernel is such a step.
LEMMA KernelSteps ==
    ASSUME ListInvs, NEW p \in Pids,
           \/ Exit(p) \/ Exec(p) \/ Setuid(p) \/ JailAttach(p) \/ Clone(p)
           \/ \E q \in Pids : Fork(p, q)
           \/ \E t \in 0 .. 2 : Dispatch(p, t)
    PROVE  KernMoves
<1>1. /\ kern \in [Live -> Proc] /\ Live \subseteq Pids /\ {1, 2} \subseteq Live
      /\ births \in Nat /\ had \in [1 .. births -> SUBSET Words]
      /\ \A q \in Live : ProcFits(q, kern[q])
  BY DEF ListInvs, KernInv
<1>2. /\ UNCHANGED <<platform, option, listed, seen, left, rows, tasks>>
      /\ stage' = IF stage = "shown" THEN "idle" ELSE stage
  BY DEF Exit, Exec, Setuid, JailAttach, Clone, Fork, Dispatch, KernStep
\* One process changes, but neither its number nor its parent.
<1>. DEFINE Changed(q, proc) ==
                /\ kern' = [kern EXCEPT ![q] = proc] /\ proc \in Proc
                /\ proc.start = kern[q].start /\ proc.parent = kern[q].parent /\ proc.system = kern[q].system
<1>3. ASSUME NEW proc, p \in Live, Changed(p, proc), births' = births,
             had' \in [1 .. births -> SUBSET Words], \A s \in 1 .. births : had[s] \subseteq had'[s],
             proc.comm \in had'[proc.start]
      PROVE  KernMoves
  <2>1. Live' = Live /\ kern' \in [Live -> Proc]  BY <1>1, <1>3 DEF Live
  <2>2. ASSUME NEW q \in Live PROVE ProcFits(q, kern[q])' /\ kern'[q].start = kern[q].start
    <3>1. ProcFits(q, kern[q]) /\ ProcFits(p, kern[p])  BY <1>1, <1>3
    <3>2. kern'[q] = IF q = p THEN proc ELSE kern[q]  BY <1>1, <1>3 DEF Live
    <3>. QED  BY <1>3, <3>1, <3>2 DEF ProcFits
  <2>. QED  BY <1>1, <1>2, <1>3, <2>1, <2>2 DEF KernMoves
<1>. DEFINE proc == kern'[p]
<1>4. CASE Exec(p)
  <2>1. p \in Live /\ kern' = [kern EXCEPT ![p].comm = "ls", ![p].threads = 1, ![p].running = 0]
        /\ had' = [had EXCEPT ![kern[p].start] = @ \cup {"ls"}] /\ births' = births
    BY <1>4 DEF Exec, KernStep
  <2>2. proc = [kern[p] EXCEPT !.comm = "ls", !.threads = 1, !.running = 0] /\ kern[p] \in Proc
        /\ kern[p].start \in 1 .. births
    BY <1>1, <2>1 DEF Live, ProcFits
  <2>3. Changed(p, proc)  BY <1>1, <2>1, <2>2 DEF Proc, Words, Live
  <2>4. had' \in [1 .. births -> SUBSET Words] /\ (\A s \in 1 .. births : had[s] \subseteq had'[s])
        /\ "ls" \in had'[kern[p].start]
    BY <1>1, <2>1, <2>2 DEF Words
  <2>5. proc.comm = "ls" /\ proc.start = kern[p].start  BY <2>2 DEF Proc
  <2>. HIDE DEF Changed, proc
  <2>. QED  BY <1>3, <2>1, <2>3, <2>4, <2>5
<1>5. CASE \/ Setuid(p) \/ JailAttach(p) \/ Clone(p) \/ \E t \in 0 .. 2 : Dispatch(p, t)
  <2>1. p \in Live /\ births' = births /\ had' = had
    BY <1>1, <1>5 DEF Setuid, JailAttach, Clone, Dispatch
  <2>2. kern[p] \in Proc /\ ProcFits(p, kern[p])  BY <1>1, <2>1
  <2>3. Changed(p, proc) /\ proc.comm = kern[p].comm
    <3>1. CASE Setuid(p)
      <4>1. kern' = [kern EXCEPT ![p].uid = 1]  BY <3>1 DEF Setuid, KernStep
      <4>. QED  BY <1>1, <2>1, <2>2, <4>1 DEF Proc, Live
    <3>2. CASE JailAttach(p)
      <4>1. kern' = [kern EXCEPT ![p].jail = 1]  BY <3>2 DEF JailAttach, KernStep
      <4>. QED  BY <1>1, <2>1, <2>2, <4>1 DEF Proc, Live
    <3>3. CASE Clone(p)
      <4>1. kern' = [kern EXCEPT ![p].threads = 2]  BY <3>3 DEF Clone, KernStep
      <4>. QED  BY <1>1, <2>1, <2>2, <4>1 DEF Proc, Live
    <3>4. ASSUME NEW t \in 0 .. 2, Dispatch(p, t) PROVE Changed(p, proc) /\ proc.comm = kern[p].comm
      <4>1. kern' = [kern EXCEPT ![p].running = t] /\ t \in {0, 1, 2}  BY <3>4 DEF Dispatch, KernStep
      <4>2. kern'[p] = [kern[p] EXCEPT !.running = t] /\ kern' = [kern EXCEPT ![p] = proc]  BY <1>1, <2>1, <4>1 DEF Live
      <4>3. proc \in Proc  BY <2>2, <4>1, <4>2 DEF Proc
      <4>4. /\ proc.start = kern[p].start /\ proc.parent = kern[p].parent
            /\ proc.system = kern[p].system /\ proc.comm = kern[p].comm
        BY <2>2, <4>2 DEF Proc
      <4>. QED  BY <4>2, <4>3, <4>4
    <3>. QED  BY <1>5, <3>1, <3>2, <3>3, <3>4
  <2>4. proc.start = kern[p].start  BY <2>3
  <2>5. proc.comm \in had[proc.start]  BY <2>2, <2>3, <2>4 DEF ProcFits
  <2>. HIDE DEF Changed, proc
  <2>. QED  BY <1>1, <1>3, <2>1, <2>3, <2>5
<1>6. CASE Exit(p)
  <2>1. /\ p \in Live \ {1, 2} /\ births' = births /\ had' = had
        /\ kern' = [q \in Live \ {p} |-> [kern[q] EXCEPT !.parent = IF @ = p THEN 1 ELSE @]]
    BY <1>6 DEF Exit, KernStep
  <2>2. Live' = Live \ {p}  BY <2>1 DEF Live
  <2>3. ASSUME NEW q \in Live \ {p}
        PROVE  /\ kern'[q] \in Proc /\ kern'[q].start = kern[q].start /\ kern'[q].comm = kern[q].comm
               /\ kern'[q].system = kern[q].system
               /\ kern'[q].parent = IF kern[q].parent = p THEN 1 ELSE kern[q].parent
    <3>1. kern[q] \in Proc /\ kern'[q] = [kern[q] EXCEPT !.parent = IF kern[q].parent = p THEN 1 ELSE kern[q].parent]
      BY <1>1, <2>1
    <3>. QED  BY <3>1 DEF Proc
  <2>4. ASSUME NEW q \in Live' PROVE ProcFits(q, kern[q])' /\ kern'[q].start = kern[q].start /\ q \in Live
    <3>1. ProcFits(q, kern[q]) /\ q \in Live \ {p}  BY <1>1, <2>2
    <3>2. p \in Nat \ {0, 1, 2}  BY <1>1, <2>1 DEF Pids
    <3>3. (kern'[q].parent = 0 <=> kern[q].parent = 0) \/ kern[q].parent = p  BY <2>3, <3>1
    <3>4. kern'[q].parent = 0 <=> q \in {1, 2}  BY <2>3, <3>1, <3>2 DEF ProcFits
    <3>. QED  BY <2>1, <2>3, <3>1, <3>4 DEF ProcFits
  <2>5. kern' \in [Live' -> Proc]
    <3>1. kern' = [q \in Live' |-> kern'[q]]  BY <2>1, <2>2
    <3>. QED  BY <2>2, <2>3, <3>1
  <2>. QED  BY <1>1, <1>2, <2>1, <2>2, <2>4, <2>5 DEF KernMoves
<1>7. ASSUME NEW q \in Pids, Fork(p, q) PROVE KernMoves
  <2>. DEFINE child == [kern[q] EXCEPT !.start = births + 1, !.parent = q, !.threads = 1, !.running = 0]
  <2>1. /\ Rested(p) /\ q \in Live /\ ~kern[q].system /\ kern' = Put(kern, p, child)
        /\ births' = births + 1 /\ had' = Put(had, births + 1, {kern[q].comm})
    BY <1>7 DEF Fork, KernStep
  <2>2. kern[q] \in Proc /\ ProcFits(q, kern[q]) /\ q # 2 /\ q \in Nat \ {0}  BY <1>1, <2>1 DEF ProcFits, Pids
  <2>3. child \in Proc /\ child.start = births + 1 /\ child.parent = q /\ child.comm = kern[q].comm /\ child.system = kern[q].system
    <3>1. kern[q] \in Proc /\ births + 1 \in Nat /\ q \in Nat  BY <1>1, <2>2
    <3>2. child \in Proc  BY <3>1 DEF Proc
    <3>3. child.start = births + 1 /\ child.parent = q /\ child.comm = kern[q].comm /\ child.system = kern[q].system
      BY <3>1 DEF Proc
    <3>. QED  BY <3>2, <3>3
  <2>. HIDE DEF child
  <2>4. p \notin Live /\ p \notin {1, 2}  BY <1>1, <2>1 DEF Rested
  <2>5. Live' = Live \cup {p} /\ \A x \in Live' : kern'[x] = IF x = p THEN child ELSE kern[x]
    <3>1. kern' = [x \in Live \cup {p} |-> IF x = p THEN child ELSE kern[x]]  BY <2>1 DEF Put, Live
    <3>. QED  BY <3>1 DEF Live
  <2>6. kern' \in [Live' -> Proc]
    <3>1. kern' = [x \in Live' |-> kern'[x]]  BY <2>1, <2>5 DEF Put, Live
    <3>. QED  BY <1>1, <2>3, <2>5, <3>1
  <2>7. /\ births' \in Nat /\ births' >= births /\ 1 .. births' = (1 .. births) \cup {births + 1}
        /\ births + 1 \notin 1 .. births
    BY <1>1, <2>1
  <2>8. /\ DOMAIN had' = 1 .. births'
        /\ \A s \in 1 .. births' : had'[s] = IF s = births + 1 THEN {kern[q].comm} ELSE had[s]
    <3>1. DOMAIN had = 1 .. births  BY <1>1
    <3>2. had' = [s \in 1 .. births' |-> IF s = births + 1 THEN {kern[q].comm} ELSE had[s]]
      BY <2>1, <2>7, <3>1 DEF Put
    <3>. QED  BY <3>2
  <2>9. had' \in [1 .. births' -> SUBSET Words]
    <3>1. had' = [s \in 1 .. births' |-> had'[s]]  BY <2>1, <2>8 DEF Put
    <3>2. {kern[q].comm} \in SUBSET Words  BY <2>2 DEF Proc
    <3>. QED  BY <1>1, <2>7, <2>8, <3>1, <3>2
  <2>10. ASSUME NEW x \in Live' PROVE ProcFits(x, kern[x])'
    <3>1. CASE x = p
      <4>1. kern'[x] = child /\ p # 2 /\ p # 1  BY <2>4, <2>5, <3>1
      <4>2. child.comm \in had'[child.start]  BY <2>3, <2>7, <2>8
      <4>3. births + 1 \in 1 .. births'  BY <2>7
      <4>. QED  BY <2>2, <2>3, <3>1, <4>1, <4>2, <4>3 DEF ProcFits
    <3>2. CASE x # p
      <4>1. x \in Live /\ kern'[x] = kern[x] /\ ProcFits(x, kern[x])  BY <1>1, <2>5, <3>2
      <4>. QED  BY <2>7, <2>8, <4>1 DEF ProcFits
    <3>. QED  BY <3>1, <3>2
  <2>11. ASSUME NEW x \in Live' PROVE IF x \in Live THEN kern'[x].start = kern[x].start ELSE Rested(x)
    BY <2>1, <2>4, <2>5
  <2>12. Live' \subseteq Pids /\ {1, 2} \subseteq Live' /\ \A s \in 1 .. births : had[s] \subseteq had'[s]
    BY <1>1, <2>5, <2>7, <2>8
  <2>. QED  BY <1>2, <2>6, <2>7, <2>9, <2>10, <2>11, <2>12 DEF KernMoves
<1>. QED  BY <1>4, <1>5, <1>6, <1>7


-----------------------------------------------------------------------------
(* PlatformScan: the steps around the entries                               *)

\* The user's options change between two scans.
LEMMA ToggleKeeps ==
    ASSUME ListInvs, NEW o \in {"kernel", "user", "names"}, Toggle(o)
    PROVE  ListInvs'
<1>1. /\ UNCHANGED <<platform, kern, births, had, seen, left, rows, tasks>> /\ stage' = "idle"
      /\ option' = [option EXCEPT ![o] = ~@]
  BY DEF Toggle, kernVars
<1>2. option' \in [kernel : BOOLEAN, user : BOOLEAN, names : BOOLEAN]
  <2>1. option \in [kernel : BOOLEAN, user : BOOLEAN, names : BOOLEAN]  BY DEF ListInvs, KernInv
  <2>. QED  BY <1>1, <2>1
<1>3. KernInv'  BY <1>1, <1>2 DEF ListInvs, KernInv, Live, ProcFits
<1>4. EntriesInv'  BY <1>1 DEF ListInvs, EntriesInv, Live, ProcFits, MainOf
<1>5. RowsInv'  BY <1>1 DEF ListInvs, RowsInv, Live, RowFits, PidOf
<1>6. CountInv'
  <2>1. tasks \in TaskNumbers  BY DEF ListInvs, CountInv
  <2>. QED  BY <1>1, <2>1 DEF CountInv
<1>7. ScanInv' /\ ListInv' /\ PlatformTrue'  BY <1>1 DEF ScanInv, ListInv, PlatformTrue, RowsTrue, CountsAgree
<1>. QED  BY <1>3, <1>4, <1>5, <1>6, <1>7 DEF ListInvs

LEMMA StartKeeps ==
    ASSUME ListInvs, StartScan
    PROVE  ListInvs'
<1>1. /\ UNCHANGED <<platform, kern, births, had, option, seen, left>> /\ stage' = "list"
      /\ rows' = [k \in DOMAIN rows |-> [rows[k] EXCEPT !.updated = FALSE, !.show = TRUE]]
      /\ tasks' = [NoTasks EXCEPT !.kernel = Truth(platform = "solaris")]
  BY DEF StartScan, kernVars
<1>2. KernInv'  BY <1>1 DEF ListInvs, KernInv, Live, ProcFits
<1>3. EntriesInv'  BY <1>1 DEF ListInvs, EntriesInv, Live, ProcFits, MainOf
<1>4. DOMAIN rows' = DOMAIN rows  BY <1>1
<1>5. ASSUME NEW k \in DOMAIN rows
      PROVE  /\ rows[k] \in TaskRow /\ rows'[k] \in TaskRow /\ ~rows'[k].updated
             /\ rows'[k].start = rows[k].start /\ rows'[k].name = rows[k].name
             /\ rows'[k].user = rows[k].user /\ rows'[k].uid = rows[k].uid
             /\ (rows'[k].system <=> rows[k].system) /\ (rows'[k].thread <=> rows[k].thread)
             /\ rows'[k].jail = rows[k].jail /\ rows'[k].jname = rows[k].jname
  <2>1. rows[k] \in TaskRow  BY DEF ListInvs, RowsInv
  <2>2. rows'[k] = [rows[k] EXCEPT !.updated = FALSE, !.show = TRUE]  BY <1>1
  <2>. QED  BY <2>1, <2>2 DEF TaskRow
<1>6. RowsInv'
  <2>1. rows' \in [DOMAIN rows -> TaskRow]
    <3>1. rows' = [k \in DOMAIN rows |-> rows'[k]]  BY <1>1
    <3>. QED  BY <1>5, <3>1
  <2>2. ASSUME NEW k \in DOMAIN rows
        PROVE  /\ RowFits(k, rows[k])' /\ PidOf(k) \in DOMAIN rows
               /\ PidOf(k) \in Live => kern[PidOf(k)].start = rows'[k].start
    <3>1. /\ RowFits(k, rows[k]) /\ PidOf(k) \in DOMAIN rows
          /\ PidOf(k) \in Live => kern[PidOf(k)].start = rows[k].start
      BY DEF ListInvs, RowsInv
    <3>. DEFINE a == rows[k]
                b == rows'[k]
    <3>2. /\ b.start = a.start /\ b.name = a.name /\ b.user = a.user /\ b.uid = a.uid
          /\ (b.system <=> a.system) /\ (b.thread <=> a.thread) /\ b.jail = a.jail /\ b.jname = a.jname
      BY <1>5
    <3>3. RowFits(k, a)  BY <3>1
    <3>. HIDE DEF a, b
    <3>4. RowFits(k, b)  BY <3>2, <3>3 DEF RowFits
    <3>. USE DEF a, b
    <3>5. RowFits(k, rows[k])'  BY <1>1, <3>4 DEF RowFits, PidOf
    <3>6. rows'[k].start = rows[k].start  BY <1>5
    <3>. QED  BY <1>1, <3>1, <3>5, <3>6 DEF PidOf
  <2>3. DOMAIN rows \subseteq 1 .. 2 * MaxPid  BY DEF ListInvs, RowsInv
  <2>. QED  BY <1>1, <1>4, <2>1, <2>2, <2>3 DEF RowsInv, Live, PidOf
<1>7. ListInv'  BY <1>4, <1>5 DEF ListInv
<1>8. CountInv'
  <2>1. tasks' = [kernel |-> IF platform = "solaris" THEN 1 ELSE 0, user |-> 0, total |-> 0, running |-> 0]
    BY <1>1 DEF NoTasks, Truth
  <2>2. tasks' \in TaskNumbers  BY <2>1 DEF TaskNumbers
  <2>3. Processes' = IF platform' = "solaris" THEN -1 ELSE 0
    <3>1. tasks'.total = 0 /\ tasks'.user = 0 /\ tasks'.kernel = IF platform = "solaris" THEN 1 ELSE 0  BY <2>1
    <3>2. Processes' = tasks'.total - tasks'.kernel - tasks'.user /\ platform' = platform  BY <1>1 DEF Processes
    <3>3. CASE platform = "solaris"  BY <3>1, <3>2, <3>3
    <3>4. CASE platform # "solaris"
      <4>1. tasks'.total = 0 /\ tasks'.user = 0 /\ tasks'.kernel = 0  BY <3>1, <3>4
      <4>2. Processes' = 0  BY <3>2, <4>1
      <4>3. platform' # "solaris"  BY <3>2, <3>4
      <4>. QED  BY <4>2, <4>3
    <3>. QED  BY <3>3, <3>4
  <2>. QED  BY <1>1, <2>2, <2>3 DEF CountInv
<1>9. ScanInv' /\ PlatformTrue'  BY <1>1 DEF ScanInv, PlatformTrue, RowsTrue, CountsAgree
<1>. QED  BY <1>2, <1>3, <1>6, <1>7, <1>8, <1>9 DEF ListInvs

\* The kernel's entries.
LEMMA EntriesAre ==
    ASSUME ListInvs
    PROVE  \A e : e \in Entries <=> /\ e \in Entry /\ e.pid \in Live /\ e.proc = kern[e.pid]
                                    /\ \/ e.lwp = 0
                                       \/ e.lwp = 1 /\ platform = "openbsd"
                                       \/ e.lwp = 2 /\ ListsThreads /\ e.proc.threads = 2
<1>1. kern \in [Live -> Proc] /\ Live \subseteq Pids  BY DEF ListInvs, KernInv
<1>2. ASSUME NEW e \in Entries
      PROVE  /\ e \in Entry /\ e.pid \in Live /\ e.proc = kern[e.pid]
             /\ \/ e.lwp = 0
                \/ e.lwp = 1 /\ platform = "openbsd"
                \/ e.lwp = 2 /\ ListsThreads /\ e.proc.threads = 2
  <2>1. PICK p \in Live : \E l \in Lwps(p) : e = [pid |-> p, lwp |-> l, proc |-> kern[p]]  BY <1>2 DEF Entries
  <2>0. PICK l \in Lwps(p) : e = [pid |-> p, lwp |-> l, proc |-> kern[p]]  BY <2>1
  <2>2. e.pid = p /\ e.lwp = l /\ e.proc = kern[p] /\ kern[p] \in Proc /\ p \in Pids  BY <1>1, <2>0
  <2>3. \/ l = 0
        \/ l = 1 /\ platform = "openbsd"
        \/ l = 2 /\ ListsThreads /\ kern[p].threads = 2
    BY <2>0 DEF Lwps
  <2>4. l \in 0 .. 2  BY <2>3
  <2>. QED  BY <2>1, <2>2, <2>3, <2>4 DEF Entry
<1>3. ASSUME NEW e \in Entry, e.pid \in Live, e.proc = kern[e.pid],
             \/ e.lwp = 0
             \/ e.lwp = 1 /\ platform = "openbsd"
             \/ e.lwp = 2 /\ ListsThreads /\ e.proc.threads = 2
      PROVE  e \in Entries
  <2>1. e.lwp \in Lwps(e.pid)  BY <1>3 DEF Lwps
  <2>2. e = [pid |-> e.pid, lwp |-> e.lwp, proc |-> kern[e.pid]]  BY <1>3 DEF Entry
  <2>. QED  BY <1>3, <2>1, <2>2 DEF Entries
<1>. QED  BY <1>2, <1>3

LEMMA GetProcsKeeps ==
    ASSUME ListInvs, GetProcs
    PROVE  ListInvs'
<1>1. /\ UNCHANGED <<platform, kern, births, had, option, rows, tasks>> /\ stage = "list" /\ stage' = "scan"
      /\ seen' \in {Entries, {}} /\ left' = seen'
  BY DEF GetProcs, kernVars
<1>2. KernInv'  BY <1>1 DEF ListInvs, KernInv, Live, ProcFits
<1>3. RowsInv'  BY <1>1 DEF ListInvs, RowsInv, Live, RowFits, PidOf
<1>4. ASSUME NEW e \in seen'
      PROVE  /\ e \in Entry /\ e.pid \in Live /\ e.proc = kern[e.pid]
             /\ \/ e.lwp = 0
                \/ e.lwp = 1 /\ platform = "openbsd"
                \/ e.lwp = 2 /\ ListsThreads /\ e.proc.threads = 2
  BY <1>1, <1>4, EntriesAre
<1>5. ASSUME NEW e \in seen' PROVE MainOf(e) \in seen' /\ (ListsThreads /\ e.proc.threads = 2 => ThreadOf(e) \in seen')
  <2>1. seen' = Entries /\ e \in Entry /\ e.pid \in Live /\ e.proc = kern[e.pid]  BY <1>1, <1>4, <1>5
  <2>2. MainOf(e) \in Entry /\ MainOf(e).pid = e.pid /\ MainOf(e).proc = e.proc /\ MainOf(e).lwp = 0
    BY <2>1 DEF MainOf, Entry
  <2>3. ThreadOf(e) \in Entry /\ ThreadOf(e).pid = e.pid /\ ThreadOf(e).proc = e.proc /\ ThreadOf(e).lwp = 2
    BY <2>1 DEF ThreadOf, Entry
  <2>4. MainOf(e) \in Entries  BY <2>1, <2>2, EntriesAre
  <2>5. ListsThreads /\ e.proc.threads = 2 => ThreadOf(e) \in Entries  BY <2>1, <2>3, EntriesAre
  <2>. QED  BY <2>1, <2>4, <2>5
<1>6. EntriesInv'
  <2>1. \A p \in Live : ProcFits(p, kern[p])  BY DEF ListInvs, KernInv
  <2>2. \A e \in seen' : ProcFits(e.pid, e.proc)  BY <1>4, <2>1
  <2>3. \A e \in seen' : ProcFits(e.pid, e.proc)'  BY <1>1, <2>2 DEF ProcFits
  <2>4. \A e \in seen' : e.pid \in Live' => kern'[e.pid].start = e.proc.start  BY <1>1, <1>4 DEF Live
  <2>5. \A e \in seen', d \in seen' : e.pid = d.pid => e.proc = d.proc  BY <1>4
  <2>6. seen' \subseteq Entry /\ left' \subseteq seen'  BY <1>1, <1>4
  <2>. QED  BY <1>5, <2>3, <2>4, <2>5, <2>6 DEF EntriesInv, MainOf
<1>7. Done' = {}  BY <1>1 DEF Done
<1>8. ScanInv'
  <2>1. Listing'
    <3>1. ListsThreads' = ListsThreads /\ (platform = "openbsd" => ListsThreads)  BY <1>1 DEF ListsThreads
    <3>2. platform' = platform  BY <1>1
    <3>3. ASSUME NEW e \in seen'
          PROVE  /\ e.lwp = 1 => platform = "openbsd"
                 /\ e.lwp = 2 => ListsThreads /\ e.proc.threads = 2
                 /\ platform = "openbsd" /\ e.proc.threads = 2 => ThreadOf(e) \in seen'
      BY <1>4, <1>5, <3>1
    <3>. QED  BY <3>1, <3>2, <3>3 DEF Listing, ThreadOf
  <2>2. ASSUME NEW e \in seen', RowKey(e) \in DOMAIN rows PROVE rows[RowKey(e)].start = e.proc.start
    <3>1. e \in Entry /\ e.pid \in Live /\ e.proc = kern[e.pid] /\ e.pid \in 1 .. MaxPid  BY <1>4 DEF Entry, Pids
    <3>2. PidOf(RowKey(e)) = e.pid  BY <3>1 DEF PidOf, RowKey
    <3>. QED  BY <2>2, <3>1, <3>2 DEF ListInvs, RowsInv
  <2>3. Rowed(Done)' = {} /\ Keys(Rowed(Done))' = {}  BY <1>7 DEF Rowed, Keys
  <2>4. \A k \in DOMAIN rows : ~rows[k].updated  BY <1>1 DEF ListInvs, ListInv
  <2>5. \A e \in seen' : RowKey(e)' = RowKey(e)  BY <1>1 DEF RowKey
  <2>. QED  BY <1>1, <1>7, <2>1, <2>2, <2>3, <2>4, <2>5 DEF ScanInv
<1>9. CountInv'
  <2>1. tasks \in TaskNumbers /\ Processes = IF platform = "solaris" THEN -1 ELSE 0  BY <1>1 DEF ListInvs, CountInv
  <2>2. Mains(Done)' = {} /\ KernelMains(Done)' = {}  BY <1>7 DEF Mains, KernelMains
  <2>3. Cardinality(Mains(Done)') = 0 /\ Cardinality(KernelMains(Done)') = 0  BY <2>2, FS_EmptySet
  <2>4. Processes' = Processes  BY <1>1 DEF Processes
  <2>. QED  BY <1>1, <2>1, <2>3, <2>4 DEF CountInv, CountFits
<1>10. ListInv' /\ PlatformTrue'  BY <1>1 DEF ListInv, PlatformTrue, RowsTrue, CountsAgree
<1>. QED  BY <1>2, <1>3, <1>6, <1>8, <1>9, <1>10 DEF ListInvs

LEMMA EndKeeps ==
    ASSUME ListInvs, EndScan
    PROVE  ListInvs'
<1>1. /\ UNCHANGED <<platform, kern, births, had, option, seen, left, tasks>>
      /\ stage = "scan" /\ stage' = "shown" /\ left = {}
      /\ rows' = [k \in {j \in DOMAIN rows : rows[j].updated} |-> rows[k]]
  BY DEF EndScan, kernVars
<1>2. KernInv'  BY <1>1 DEF ListInvs, KernInv, Live, ProcFits
<1>3. EntriesInv'  BY <1>1 DEF ListInvs, EntriesInv, Live, ProcFits, MainOf
<1>4. Done = seen /\ seen \subseteq Entry  BY <1>1 DEF Done, ListInvs, EntriesInv
<1>5. /\ Listing
      /\ \A e \in Done : MainOf(e) \in Done
      /\ Keys(Rowed(Done)) \subseteq DOMAIN rows
      /\ \A k \in DOMAIN rows : rows[k].updated <=> k \in Keys(Rowed(Done))
      /\ \A e \in Rowed(Done) : Shows(rows[RowKey(e)], e, Threads(e))
  BY <1>1 DEF ListInvs, ScanInv
<1>6. DOMAIN rows' = Keys(Rowed(seen)) /\ \A k \in DOMAIN rows' : k \in DOMAIN rows /\ rows'[k] = rows[k]
  BY <1>1, <1>4, <1>5
<1>7. RowsInv'
  <2>1. rows \in [DOMAIN rows -> TaskRow] /\ DOMAIN rows \subseteq 1 .. 2 * MaxPid
        /\ \A k \in DOMAIN rows : /\ RowFits(k, rows[k]) /\ PidOf(k) \in DOMAIN rows
                                  /\ PidOf(k) \in Live => kern[PidOf(k)].start = rows[k].start
    BY DEF ListInvs, RowsInv
  <2>2. rows' \in [DOMAIN rows' -> TaskRow]
    <3>1. rows' = [k \in DOMAIN rows' |-> rows'[k]]  BY <1>1
    <3>. QED  BY <1>6, <2>1, <3>1
  <2>3. ASSUME NEW k \in DOMAIN rows' PROVE PidOf(k) \in DOMAIN rows'
    <3>1. PICK e \in Rowed(seen) : k = RowKey(e)  BY <1>6 DEF Keys
    <3>2. e \in seen /\ e \in Entry /\ e.pid \in 1 .. MaxPid  BY <1>4, <3>1 DEF Rowed, Entry, Pids
    <3>3. PidOf(k) = e.pid  BY <3>1, <3>2 DEF PidOf, RowKey
    <3>4. MainOf(e) \in seen /\ RowKey(MainOf(e)) = e.pid /\ MainOf(e).lwp = 0  BY <1>4, <1>5, <3>2 DEF MainOf, RowKey
    <3>5. MainOf(e) \in Rowed(seen)  BY <3>4 DEF Rowed
    <3>. QED  BY <1>6, <3>3, <3>4, <3>5 DEF Keys
  <2>4. \A k \in DOMAIN rows' : RowFits(k, rows[k])'  BY <1>1, <1>6, <2>1 DEF RowFits, PidOf
  <2>. QED  BY <1>1, <1>6, <2>1, <2>2, <2>3, <2>4 DEF RowsInv, Live, PidOf
<1>8. RowsTrue'
  <2>1. WithRow = Rowed(seen) /\ WithRow' = WithRow /\ Keys(WithRow)' = Keys(WithRow)
    BY <1>1 DEF WithRow, Rowed, Keys, RowKey
  <2>2. ASSUME NEW e \in WithRow PROVE Shows(rows[RowKey(e)], e, e.proc.threads)'
    <3>1. RowKey(e) \in DOMAIN rows' /\ e \in Rowed(Done)  BY <1>4, <1>6, <2>1, <2>2 DEF Keys
    <3>2. rows'[RowKey(e)] = rows[RowKey(e)] /\ Shows(rows[RowKey(e)], e, Threads(e))  BY <1>5, <1>6, <3>1
    <3>3. RowKey(e)' = RowKey(e) /\ Hidden(e)' = Hidden(e)  BY <1>1 DEF RowKey, Hidden
    <3>4. Threads(e) = e.proc.threads
      <4>1. e \in seen /\ e.proc.threads \in {1, 2}  BY <1>4, <3>1 DEF Rowed, Entry, Proc
      <4>2. platform = "openbsd" => (ThreadOf(e) \in seen <=> e.proc.threads = 2)
        <5>1. ThreadOf(e).lwp = 2 /\ ThreadOf(e).proc = e.proc  BY DEF ThreadOf
        <5>. QED  BY <1>5, <4>1, <5>1 DEF Listing
      <4>. QED  BY <1>4, <4>1, <4>2 DEF Threads
    <3>. QED  BY <1>1, <3>2, <3>3, <3>4 DEF Shows
  <2>. QED  BY <1>6, <2>1, <2>2 DEF RowsTrue
<1>9. CountsAgree'
  <2>1. UserProcesses = Mains(Done)
    <3>1. ASSUME NEW e \in seen PROVE (e.proc.system <=> e.pid = 2) /\ MainOf(e) \in seen
      BY DEF ListInvs, EntriesInv, ProcFits
    <3>2. \A e \in seen : MainOf(e).pid = e.pid /\ MainOf(e).lwp = 0  BY DEF MainOf
    <3>3. ASSUME NEW p \in UserProcesses PROVE p \in Mains(seen)
      <4>1. PICK e \in seen : e.pid = p /\ ~e.proc.system  BY DEF UserProcesses
      <4>2. MainOf(e) \in {d \in seen : d.lwp = 0 /\ d.pid # 2}  BY <3>1, <3>2, <4>1
      <4>. QED  BY <3>2, <4>1, <4>2 DEF Mains
    <3>4. ASSUME NEW p \in Mains(seen) PROVE p \in UserProcesses
      <4>1. PICK e \in seen : e.pid = p /\ e.pid # 2  BY DEF Mains
      <4>. QED  BY <3>1, <4>1 DEF UserProcesses
    <3>. QED  BY <1>4, <3>3, <3>4
  <2>2. KernelProcesses = KernelMains(Done)
    <3>1. ASSUME NEW e \in seen PROVE (e.proc.system <=> e.pid = 2) /\ MainOf(e) \in seen
      BY DEF ListInvs, EntriesInv, ProcFits
    <3>2. \A e \in seen : MainOf(e).pid = e.pid /\ MainOf(e).lwp = 0  BY DEF MainOf
    <3>3. ASSUME NEW p \in KernelProcesses PROVE p \in KernelMains(seen)
      <4>1. PICK e \in seen : e.pid = p /\ e.proc.system  BY DEF KernelProcesses
      <4>2. MainOf(e) \in {d \in seen : d.lwp = 0 /\ d.pid = 2}  BY <3>1, <3>2, <4>1
      <4>. QED  BY <3>2, <4>1, <4>2 DEF KernelMains
    <3>4. ASSUME NEW p \in KernelMains(seen) PROVE p \in KernelProcesses
      <4>1. PICK e \in seen : e.pid = p /\ e.pid = 2  BY DEF KernelMains
      <4>. QED  BY <3>1, <4>1 DEF KernelProcesses
    <3>. QED  BY <1>4, <3>3, <3>4
  <2>3. /\ UserProcesses' = UserProcesses /\ KernelProcesses' = KernelProcesses /\ Processes' = Processes
    BY <1>1 DEF UserProcesses, KernelProcesses, Processes
  <2>. DEFINE users == Cardinality(UserProcesses)
              all == users + Cardinality(KernelProcesses)
  <2>4. /\ platform \in {"freebsd", "openbsd", "netbsd", "pcp"} => Processes = users
        /\ platform = "dragonfly" => Processes >= users /\ (option.user => Processes = users)
        /\ platform = "darwin" => Processes = all
        /\ platform = "solaris" => Processes \in {users - 1, all - 1}
    <3>1. CountFits(users, Cardinality(KernelProcesses))  BY <1>1, <2>1, <2>2 DEF ListInvs, CountInv
    <3>. QED  BY <3>1 DEF CountFits
  <2>6. Processes = tasks.total - tasks.kernel - tasks.user  BY DEF Processes
  <2>. HIDE DEF Processes
  <2>. QED  BY <1>1, <2>3, <2>4, <2>6 DEF CountsAgree
<1>10. CountInv'
  <2>1. tasks \in TaskNumbers  BY DEF ListInvs, CountInv
  <2>. QED  BY <1>1, <2>1 DEF CountInv
<1>11. ScanInv' /\ ListInv'  BY <1>1 DEF ScanInv, ListInv
<1>. QED  BY <1>2, <1>3, <1>7, <1>8, <1>9, <1>10, <1>11 DEF ListInvs, PlatformTrue


-----------------------------------------------------------------------------
(* PlatformScan: the row of an entry                                        *)

\* What there was for an entry, and what there is afterwards.
OldFits(old, new, e) ==
    /\ old \in TaskRow
    /\ IF new THEN old = Process_init ELSE RowFits(RowKey(e), old) /\ old.start = e.proc.start
RowIsOf(row, e, threads) ==
    /\ row \in TaskRow /\ row.updated /\ RowFits(RowKey(e), row) /\ Shows(row, e, threads)
    /\ platform = "dragonfly" => row.nlwp = threads

SameTask(a, b) ==
    /\ a.start = b.start /\ a.parent = b.parent /\ a.jail = b.jail /\ a.jname = b.jname
    /\ (a.system <=> b.system) /\ (a.thread <=> b.thread)
SameLabel(a, b) == a.uid = b.uid /\ a.user = b.user /\ a.name = b.name

LEMMA WordsAreLabels == Words \subseteq Labels  BY DEF Labels

\* The parts that the platforms share.
LEMMA WithUserIs ==
    ASSUME NEW row \in TaskRow, row.user = row.uid, NEW uid \in Int, NEW r, r = WithUser(row, uid)
    PROVE  /\ r \in TaskRow /\ SameTask(r, row) /\ r.uid = uid /\ r.user = uid /\ r.name = row.name /\ (r.show <=> row.show)
<1>1. CASE row.uid # uid
  <2>1. r = [row EXCEPT !.uid = uid, !.user = uid]  BY <1>1 DEF WithUser
  <2>2. r \in TaskRow  BY <2>1 DEF TaskRow
  <2>. QED  BY <2>1, <2>2 DEF TaskRow, SameTask
<1>2. CASE row.uid = uid  BY <1>2 DEF WithUser, SameTask
<1>. QED  BY <1>1, <1>2

LEMMA NamedIs ==
    ASSUME NEW row \in TaskRow, NEW new \in BOOLEAN, NEW name \in Words, NEW r, r = Named(row, new, name)
    PROVE  /\ r \in TaskRow /\ SameTask(r, row) /\ r.uid = row.uid /\ r.user = row.user
           /\ r.name \in {name, row.name} /\ (new => r.name = name) /\ (r.show <=> row.show)
<1>1. CASE new \/ option.names
  <2>1. r = [row EXCEPT !.name = name]  BY <1>1 DEF Named
  <2>2. r \in TaskRow  BY <2>1, WordsAreLabels DEF TaskRow
  <2>. QED  BY <2>1, <2>2 DEF TaskRow, SameTask
<1>2. CASE ~(new \/ option.names)  BY <1>2 DEF Named, SameTask
<1>. QED  BY <1>1, <1>2

LEMMA CurrentIs ==
    ASSUME NEW row \in TaskRow, NEW e \in Entry, NEW r, r = Current(row, e)
    PROVE  /\ r \in TaskRow /\ SameTask(r, row) /\ SameLabel(r, row)
           /\ r.nlwp = e.proc.threads /\ r.updated /\ (r.show <=> row.show)
<1>1. Runs(e) \in BOOLEAN /\ e.proc.threads \in Nat  BY DEF Runs, Entry, Proc
<1>2. r = [row EXCEPT !.nlwp = e.proc.threads, !.running = Runs(e), !.updated = TRUE]  BY DEF Current
<1>3. r \in TaskRow  BY <1>1, <1>2 DEF TaskRow
<1>. QED  BY <1>2, <1>3 DEF TaskRow, SameTask, SameLabel

LEMMA ShowIs ==
    ASSUME NEW row \in TaskRow, NEW b \in BOOLEAN, NEW r, r = [row EXCEPT !.show = b]
    PROVE  /\ r \in TaskRow /\ SameTask(r, row) /\ SameLabel(r, row)
           /\ r.nlwp = row.nlwp /\ (r.updated <=> row.updated) /\ (r.show <=> b)
<1>1. r \in TaskRow  BY DEF TaskRow
<1>. QED  BY <1>1 DEF TaskRow, SameTask, SameLabel

LEMMA ThreadsIs ==
    ASSUME NEW row \in TaskRow, NEW n \in Nat, NEW r, r = [row EXCEPT !.nlwp = n]
    PROVE  /\ r \in TaskRow /\ SameTask(r, row) /\ SameLabel(r, row)
           /\ r.nlwp = n /\ (r.updated <=> row.updated) /\ (r.show <=> row.show)
<1>1. r \in TaskRow  BY DEF TaskRow
<1>. QED  BY <1>1 DEF TaskRow, SameTask, SameLabel

\* In either order.
LEMMA CommonIs ==
    ASSUME NEW row \in TaskRow, row.user = row.uid, NEW e \in Entry, NEW new \in BOOLEAN, NEW name \in Words,
           NEW r, r \in {Current(Named(WithUser(row, e.proc.uid), new, name), e),
                         Current(WithUser(Named(row, new, name), e.proc.uid), e)}
    PROVE  /\ r \in TaskRow /\ SameTask(r, row) /\ r.uid = e.proc.uid /\ r.user = e.proc.uid
           /\ r.name \in {name, row.name} /\ (new => r.name = name)
           /\ r.nlwp = e.proc.threads /\ r.updated /\ (r.show <=> row.show)
<1>. DEFINE uid == e.proc.uid
            a == WithUser(row, uid)
            b == Named(a, new, name)
            c == Named(row, new, name)
            d == WithUser(c, uid)
<1>1. uid \in Int  BY DEF Entry, Proc
<1>2. r \in {Current(b, e), Current(d, e)}  OBVIOUS
<1>. HIDE DEF uid
<1>3. /\ a \in TaskRow /\ SameTask(a, row) /\ a.uid = uid /\ a.user = uid /\ a.name = row.name /\ (a.show <=> row.show)
  BY <1>1, WithUserIs
<1>4. /\ c \in TaskRow /\ SameTask(c, row) /\ c.uid = row.uid /\ c.user = row.user
      /\ c.name \in {name, row.name} /\ (new => c.name = name) /\ (c.show <=> row.show)
  BY NamedIs
<1>. HIDE DEF a, c
<1>5. /\ b \in TaskRow /\ SameTask(b, a) /\ b.uid = a.uid /\ b.user = a.user
      /\ b.name \in {name, a.name} /\ (new => b.name = name) /\ (b.show <=> a.show)
  BY <1>3, NamedIs
<1>6. /\ d \in TaskRow /\ SameTask(d, c) /\ d.uid = uid /\ d.user = uid /\ d.name = c.name /\ (d.show <=> c.show)
  BY <1>1, <1>4, WithUserIs
<1>. HIDE DEF b, d
<1>7. CASE r = Current(b, e)
  <2>1. /\ r \in TaskRow /\ SameTask(r, b) /\ SameLabel(r, b)
        /\ r.nlwp = e.proc.threads /\ r.updated /\ (r.show <=> b.show)
    BY <1>5, <1>7, CurrentIs
  <2>. QED  BY <1>3, <1>5, <2>1 DEF SameTask, SameLabel, uid
<1>8. CASE r = Current(d, e)
  <2>1. /\ r \in TaskRow /\ SameTask(r, d) /\ SameLabel(r, d)
        /\ r.nlwp = e.proc.threads /\ r.updated /\ (r.show <=> d.show)
    BY <1>6, <1>8, CurrentIs
  <2>. QED  BY <1>4, <1>6, <2>1 DEF SameTask, SameLabel, uid
<1>. QED  BY <1>2, <1>7, <1>8

LEMMA InitIsRow == Process_init \in TaskRow /\ Process_init.user = Process_init.uid  BY DEF Process_init, TaskRow, Labels, NoJail

\* A row as it is when the entry has been told from the others.
FirstFits(row, new, e) ==
    /\ row \in TaskRow /\ row.user = row.uid /\ row.start = e.proc.start
    /\ new \/ row.name \in had[e.proc.start]

\* It is new: what the entry says of the process is written into it.
LEMMA FirstOfProcess ==
    ASSUME NEW e \in Entry, NEW ofKernel \in BOOLEAN, NEW r,
           r \in {[Process_init EXCEPT !.start = e.proc.start, !.system = ofKernel],
                  [Process_init EXCEPT !.start = e.proc.start, !.parent = e.proc.parent, !.system = ofKernel]}
    PROVE  FirstFits(r, TRUE, e) /\ (r.system <=> ofKernel) /\ ~r.thread /\ r.jail = NoJail /\ r.jname = NoJail
<1>1. e.proc.start \in Nat /\ e.proc.parent \in Nat  BY DEF Entry, Proc
<1>2. CASE r = [Process_init EXCEPT !.start = e.proc.start, !.system = ofKernel]
  <2>1. r \in TaskRow  BY <1>1, <1>2, InitIsRow DEF TaskRow
  <2>. QED  BY <1>2, <2>1 DEF FirstFits, Process_init
<1>3. CASE r = [Process_init EXCEPT !.start = e.proc.start, !.parent = e.proc.parent, !.system = ofKernel]
  <2>1. r \in TaskRow  BY <1>1, <1>3, InitIsRow DEF TaskRow
  <2>. QED  BY <1>3, <2>1 DEF FirstFits, Process_init
<1>. QED  BY <1>2, <1>3

LEMMA FirstOfThread ==
    ASSUME NEW e \in Entry, NEW ofKernel \in BOOLEAN, NEW isThread \in BOOLEAN, NEW r,
           r \in {[Process_init EXCEPT !.start = e.proc.start, !.system = ofKernel, !.thread = isThread],
                  [Process_init EXCEPT !.start = e.proc.start, !.parent = e.proc.parent, !.system = ofKernel, !.thread = isThread]}
    PROVE  FirstFits(r, TRUE, e) /\ (r.system <=> ofKernel) /\ (r.thread <=> isThread) /\ r.jail = NoJail /\ r.jname = NoJail
<1>1. e.proc.start \in Nat /\ e.proc.parent \in Nat  BY DEF Entry, Proc
<1>2. CASE r = [Process_init EXCEPT !.start = e.proc.start, !.system = ofKernel, !.thread = isThread]
  <2>1. r \in TaskRow  BY <1>1, <1>2, InitIsRow DEF TaskRow
  <2>. QED  BY <1>2, <2>1 DEF FirstFits, Process_init
<1>3. CASE r = [Process_init EXCEPT !.start = e.proc.start, !.parent = e.proc.parent, !.system = ofKernel, !.thread = isThread]
  <2>1. r \in TaskRow  BY <1>1, <1>3, InitIsRow DEF TaskRow
  <2>. QED  BY <1>3, <2>1 DEF FirstFits, Process_init
<1>. QED  BY <1>2, <1>3

\* It is not: it already says so.
LEMMA FirstIsOld ==
    ASSUME NEW e \in Entry, NEW old, OldFits(old, FALSE, e)
    PROVE  FirstFits(old, FALSE, e) /\ RowFits(RowKey(e), old)
BY DEF OldFits, FirstFits, RowFits

\* The process of a key, and whether it is a thread's.
LEMMA KeyFacts ==
    ASSUME NEW e \in Entry
    PROVE  /\ PidOf(RowKey(e)) = e.pid /\ RowKey(e) \in 1 .. 2 * MaxPid
           /\ (RowKey(e) > MaxPid <=> e.lwp = 2 /\ platform # "dragonfly")
           /\ (e.lwp # 2 => RowKey(e) = e.pid)
BY DEF PidOf, RowKey, Entry, Pids

Options == [kernel : BOOLEAN, user : BOOLEAN, names : BOOLEAN]

LEMMA FreeBSDRow ==
    ASSUME platform = "freebsd", option \in Options,
           NEW e \in Entry, ProcFits(e.pid, e.proc), e.lwp = 0,
           NEW new \in BOOLEAN, NEW old, OldFits(old, new, e), NEW name \in Words, name \in had[e.proc.start]
    PROVE  RowIsOf(FreeBSD_row(old, new, e, name), e, e.proc.threads)
<1>. DEFINE p == e.proc
            first == IF new THEN [old EXCEPT !.start = p.start, !.system = p.system /\ e.pid # 1] ELSE old
            born == [first EXCEPT !.parent = p.parent]
            jailed == FreeBSD_jailed(born, e)
            row == Current(Named(WithUser(jailed, p.uid), new, name), e)
            last == [row EXCEPT !.show = Visible(row)]
<1>1. FreeBSD_row(old, new, e, name) = last  BY DEF FreeBSD_row
<1>2. p \in Proc /\ p.parent \in Nat /\ p.jail \in Nat /\ p.system \in BOOLEAN /\ p.start \in 1 .. births
      /\ (p.system <=> e.pid = 2)
  BY DEF Entry, Proc, ProcFits
<1>3. FirstFits(first, new, e) /\ (first.system <=> e.pid = 2) /\ ~first.thread
  <2>1. CASE new
    <3>. DEFINE s == p.system /\ e.pid # 1
    <3>1. s \in BOOLEAN  OBVIOUS
    <3>2. s <=> e.pid = 2
      <4>1. e.pid = 2 => e.pid # 1  OBVIOUS
      <4>. QED  BY <1>2, <4>1, Zenon
    <3>3. old = Process_init  BY <2>1 DEF OldFits
    <3>4. first = [Process_init EXCEPT !.start = p.start, !.system = s]  BY <2>1, <3>3
    <3>. HIDE DEF s, first
    <3>5. FirstFits(first, TRUE, e) /\ (first.system <=> s) /\ ~first.thread  BY <3>1, <3>4, FirstOfProcess
    <3>. QED  BY <2>1, <3>2, <3>5
  <2>2. CASE ~new
    <3>1. first = old /\ OldFits(old, FALSE, e)  BY <2>2
    <3>2. FirstFits(old, FALSE, e) /\ RowFits(RowKey(e), old)  BY <3>1, FirstIsOld
    <3>. QED  BY <2>2, <3>1, <3>2, KeyFacts DEF RowFits
  <2>. QED  BY <2>1, <2>2
<1>. HIDE DEF first
<1>4. born = [first EXCEPT !.parent = p.parent]  OBVIOUS
<1>5. /\ born \in TaskRow /\ born.start = p.start /\ born.user = born.uid /\ (new \/ born.name \in had[p.start])
      /\ (born.system <=> e.pid = 2) /\ ~born.thread /\ born.parent = p.parent
  BY <1>2, <1>3, <1>4 DEF FirstFits, TaskRow
<1>. HIDE DEF born
<1>6. /\ jailed \in TaskRow /\ jailed.start = p.start /\ jailed.user = jailed.uid /\ (new \/ jailed.name \in had[p.start])
      /\ (jailed.system <=> e.pid = 2) /\ ~jailed.thread /\ jailed.parent = p.parent /\ jailed.jname = p.jail
  BY <1>2, <1>5 DEF FreeBSD_jailed, TaskRow
<1>. HIDE DEF jailed
<1>7. /\ row \in TaskRow /\ SameTask(row, jailed) /\ row.uid = e.proc.uid /\ row.user = e.proc.uid
      /\ row.name \in {name, jailed.name} /\ (new => row.name = name)
      /\ row.nlwp = e.proc.threads /\ row.updated
  BY <1>6, CommonIs
<1>. HIDE DEF row
<1>8. Visible(row) \in BOOLEAN /\ (Visible(row) <=> ~Hidden(e))
  <2>1. (row.system <=> e.proc.system) /\ ~row.thread /\ e.lwp = 0  BY <1>2, <1>6, <1>7 DEF SameTask
  <2>. QED  BY <2>1 DEF Visible, Hidden
<1>9. /\ last \in TaskRow /\ SameTask(last, row) /\ SameLabel(last, row)
      /\ last.nlwp = row.nlwp /\ (last.updated <=> row.updated) /\ (last.show <=> Visible(row))
  BY <1>7, <1>8, ShowIs
<1>. HIDE DEF last
<1>10. /\ last \in TaskRow /\ last.updated /\ last.start = p.start /\ last.user = last.uid /\ last.uid = p.uid
       /\ (last.system <=> e.pid = 2) /\ ~last.thread /\ last.jname = p.jail /\ last.parent = p.parent
       /\ last.nlwp = p.threads /\ (last.show <=> ~Hidden(e))
  BY <1>6, <1>7, <1>8, <1>9 DEF SameTask, SameLabel
<1>11. last.name \in had[p.start]  BY <1>6, <1>7, <1>9 DEF SameLabel
<1>12. RowFits(RowKey(e), last)  BY <1>2, <1>10, <1>11, KeyFacts DEF RowFits
<1>13. Shows(last, e, p.threads)  BY <1>10, <1>11 DEF Shows
<1>. QED  BY <1>1, <1>10, <1>12, <1>13 DEF RowIsOf


LEMMA DragonFlyRow ==
    ASSUME platform = "dragonfly", option \in Options,
           NEW e \in Entry, ProcFits(e.pid, e.proc),
           NEW new \in BOOLEAN, NEW old, OldFits(old, new, e), NEW name \in Words, name \in had[e.proc.start]
    PROVE  RowIsOf(DragonFly_row(old, new, e, name), e, e.proc.threads)
<1>. DEFINE p == e.proc
            first == IF new THEN [old EXCEPT !.start = p.start, !.system = p.system, !.thread = p.threads > 1] ELSE old
            born == [first EXCEPT !.parent = p.parent]
            jailed == DragonFly_jailed(born, new, e)
            row == Current(Named(WithUser(jailed, p.uid), new, name), e)
            last == [row EXCEPT !.show = Visible(row)]
<1>1. DragonFly_row(old, new, e, name) = last  BY DEF DragonFly_row
<1>2. p \in Proc /\ p.parent \in Nat /\ p.jail \in Nat /\ p.system \in BOOLEAN /\ p.start \in 1 .. births
      /\ (p.system <=> e.pid = 2)
  BY DEF Entry, Proc, ProcFits
<1>3. FirstFits(first, new, e) /\ (first.system <=> e.pid = 2) /\ first.jname \in {NoJail, first.jail}
  <2>1. CASE new
    <3>. DEFINE s == p.system
                t == p.threads > 1
    <3>1. s \in BOOLEAN /\ t \in BOOLEAN  BY <1>2
    <3>2. old = Process_init  BY <2>1 DEF OldFits
    <3>3. first = [Process_init EXCEPT !.start = p.start, !.system = s, !.thread = t]  BY <2>1, <3>2
    <3>. HIDE DEF t, s, first
    <3>4. FirstFits(first, TRUE, e) /\ (first.system <=> s) /\ first.jname = NoJail  BY <3>1, <3>3, FirstOfThread
    <3>. QED  BY <1>2, <2>1, <3>4 DEF s
  <2>2. CASE ~new
    <3>1. first = old /\ OldFits(old, FALSE, e)  BY <2>2
    <3>2. FirstFits(old, FALSE, e) /\ RowFits(RowKey(e), old)  BY <3>1, FirstIsOld
    <3>. QED  BY <2>2, <3>1, <3>2, KeyFacts DEF RowFits
  <2>. QED  BY <2>1, <2>2
<1>. HIDE DEF first
<1>4. born = [first EXCEPT !.parent = p.parent]  OBVIOUS
<1>5. /\ born \in TaskRow /\ born.start = p.start /\ born.user = born.uid /\ (new \/ born.name \in had[p.start])
      /\ (born.system <=> e.pid = 2) /\ born.parent = p.parent /\ born.jname \in {NoJail, born.jail}
  BY <1>2, <1>3, <1>4 DEF FirstFits, TaskRow
<1>. HIDE DEF born
<1>6. /\ jailed \in TaskRow /\ jailed.start = p.start /\ jailed.user = jailed.uid /\ (new \/ jailed.name \in had[p.start])
      /\ (jailed.system <=> e.pid = 2) /\ jailed.parent = p.parent /\ jailed.jname \in {NoJail, p.jail} /\ jailed.jail = p.jail
  <2>1. CASE new \/ born.jail # p.jail
    <3>. DEFINE found == DragonFly_readJailName(p.jail)
    <3>1. found \in {NoJail, p.jail} /\ found \in Nat  BY <1>2 DEF DragonFly_readJailName, NoJail
    <3>2. jailed = [born EXCEPT !.jail = p.jail, !.jname = found]  BY <2>1 DEF DragonFly_jailed
    <3>. HIDE DEF jailed, found
    <3>. QED  BY <1>2, <1>5, <3>1, <3>2 DEF TaskRow
  <2>2. CASE ~(new \/ born.jail # p.jail)
    <3>1. jailed = born /\ born.jail = p.jail  BY <2>2 DEF DragonFly_jailed
    <3>. QED  BY <1>5, <3>1
  <2>. QED  BY <2>1, <2>2
<1>. HIDE DEF jailed
<1>7. /\ row \in TaskRow /\ SameTask(row, jailed) /\ row.uid = e.proc.uid /\ row.user = e.proc.uid
      /\ row.name \in {name, jailed.name} /\ (new => row.name = name)
      /\ row.nlwp = e.proc.threads /\ row.updated
  BY <1>6, CommonIs
<1>. HIDE DEF row
<1>8. Visible(row) \in BOOLEAN  BY DEF Visible
<1>9. /\ last \in TaskRow /\ SameTask(last, row) /\ SameLabel(last, row)
      /\ last.nlwp = row.nlwp /\ (last.updated <=> row.updated)
  BY <1>7, <1>8, ShowIs
<1>. HIDE DEF last
<1>10. /\ last \in TaskRow /\ last.updated /\ last.start = p.start /\ last.user = last.uid /\ last.uid = p.uid
       /\ (last.system <=> e.pid = 2) /\ last.jname \in {NoJail, p.jail} /\ last.jail = p.jail /\ last.parent = p.parent
       /\ last.nlwp = p.threads
  BY <1>6, <1>7, <1>8, <1>9 DEF SameTask, SameLabel
<1>11. last.name \in had[p.start]  BY <1>6, <1>7, <1>9 DEF SameLabel
<1>12. RowFits(RowKey(e), last)  BY <1>2, <1>10, <1>11, KeyFacts DEF RowFits
<1>13. Shows(last, e, p.threads)  BY <1>10, <1>11 DEF Shows
<1>. QED  BY <1>1, <1>10, <1>12, <1>13 DEF RowIsOf

LEMMA OpenBSDRow ==
    ASSUME platform = "openbsd", option \in Options,
           NEW e \in Entry, ProcFits(e.pid, e.proc), e.lwp # 1,
           NEW new \in BOOLEAN, NEW old, OldFits(old, new, e), NEW name \in Words, name \in had[e.proc.start]
    PROVE  RowIsOf(OpenBSD_row(old, new, e, name), e, 1)
<1>. DEFINE p == e.proc
            first == IF new THEN [old EXCEPT !.start = p.start, !.parent = p.parent, !.system = p.system,
                                             !.thread = e.lwp # 0] ELSE old
            known == Current(WithUser(Named(first, new, name), p.uid), e)
            row == [known EXCEPT !.nlwp = 1]
            last == [row EXCEPT !.show = Visible(row)]
<1>1. OpenBSD_row(old, new, e, name) = last  BY DEF OpenBSD_row
<1>2. p \in Proc /\ p.system \in BOOLEAN /\ p.start \in 1 .. births /\ (p.system <=> e.pid = 2)
      /\ (RowKey(e) > MaxPid <=> e.lwp # 0) /\ e.lwp \in {0, 2}
  BY KeyFacts DEF Entry, Proc, ProcFits
<1>3. FirstFits(first, new, e) /\ (first.system <=> e.pid = 2) /\ (first.thread <=> e.lwp # 0)
  <2>1. CASE new
    <3>. DEFINE s == p.system
                t == e.lwp # 0
    <3>1. s \in BOOLEAN /\ t \in BOOLEAN  BY <1>2
    <3>2. old = Process_init  BY <2>1 DEF OldFits
    <3>5. first = [old EXCEPT !.start = p.start, !.parent = p.parent, !.system = s, !.thread = t]  BY <2>1, Zenon
    <3>3. first = [Process_init EXCEPT !.start = p.start, !.parent = p.parent, !.system = s, !.thread = t]  BY <3>2, <3>5, Zenon
    <3>. HIDE DEF t, s, first
    <3>4. FirstFits(first, TRUE, e) /\ (first.system <=> s) /\ (first.thread <=> t)  BY <3>1, <3>3, FirstOfThread
    <3>. QED  BY <1>2, <2>1, <3>4 DEF s, t
  <2>2. CASE ~new
    <3>1. first = old /\ OldFits(old, FALSE, e)  BY <2>2
    <3>2. FirstFits(old, FALSE, e) /\ RowFits(RowKey(e), old)  BY <3>1, FirstIsOld
    <3>. QED  BY <1>2, <2>2, <3>1, <3>2, KeyFacts DEF RowFits
  <2>. QED  BY <2>1, <2>2
<1>. HIDE DEF first
<1>6. first \in TaskRow /\ first.user = first.uid /\ first.start = p.start /\ (new \/ first.name \in had[p.start])
  BY <1>3 DEF FirstFits
<1>7. /\ known \in TaskRow /\ SameTask(known, first) /\ known.uid = e.proc.uid /\ known.user = e.proc.uid
      /\ known.name \in {name, first.name} /\ (new => known.name = name) /\ known.updated
  BY <1>6, CommonIs
<1>. HIDE DEF known
<1>8. /\ row \in TaskRow /\ SameTask(row, known) /\ SameLabel(row, known) /\ row.nlwp = 1 /\ (row.updated <=> known.updated)
  BY <1>7, ThreadsIs
<1>. HIDE DEF row
<1>9. Visible(row) \in BOOLEAN /\ (Visible(row) <=> ~Hidden(e))
  <2>1. (row.system <=> e.proc.system) /\ (row.thread <=> e.lwp # 0)  BY <1>2, <1>3, <1>7, <1>8 DEF SameTask
  <2>. QED  BY <2>1 DEF Visible, Hidden
<1>10. /\ last \in TaskRow /\ SameTask(last, row) /\ SameLabel(last, row)
      /\ last.nlwp = row.nlwp /\ (last.updated <=> row.updated) /\ (last.show <=> Visible(row))
  BY <1>8, <1>9, ShowIs
<1>. HIDE DEF last
<1>11. /\ last \in TaskRow /\ last.updated /\ last.start = p.start /\ last.user = last.uid /\ last.uid = p.uid
       /\ (last.system <=> e.pid = 2) /\ (last.thread <=> e.lwp # 0) /\ last.nlwp = 1 /\ (last.show <=> ~Hidden(e))
  BY <1>3, <1>6, <1>7, <1>8, <1>9, <1>10 DEF SameTask, SameLabel
<1>12. last.name \in had[p.start]  BY <1>6, <1>7, <1>8, <1>10 DEF SameLabel
<1>13. RowFits(RowKey(e), last)  BY <1>2, <1>11, <1>12, KeyFacts DEF RowFits
<1>14. Shows(last, e, 1)  BY <1>11, <1>12 DEF Shows
<1>. QED  BY <1>1, <1>11, <1>13, <1>14 DEF RowIsOf

LEMMA NetBSDRow ==
    ASSUME platform = "netbsd", option \in Options,
           NEW e \in Entry, ProcFits(e.pid, e.proc), e.lwp = 0,
           NEW new \in BOOLEAN, NEW old, OldFits(old, new, e), NEW name \in Words, name \in had[e.proc.start]
    PROVE  RowIsOf(NetBSD_row(old, new, e, name), e, e.proc.threads)
<1>. DEFINE p == e.proc
            visible == [old EXCEPT !.show = Visible(old)]
            first == IF new THEN [visible EXCEPT !.start = p.start, !.parent = p.parent, !.system = p.system] ELSE visible
            last == Current(WithUser(Named(first, new, name), p.uid), e)
<1>1. NetBSD_row(old, new, e, name) = last  BY DEF NetBSD_row
<1>2. p \in Proc /\ p.system \in BOOLEAN /\ p.start \in 1 .. births /\ p.start \in Nat /\ p.parent \in Nat /\ (p.system <=> e.pid = 2)
  BY DEF Entry, Proc, ProcFits
<1>3. Visible(old) \in BOOLEAN /\ old \in TaskRow  BY DEF Visible, OldFits
<1>4. /\ visible \in TaskRow /\ SameTask(visible, old) /\ SameLabel(visible, old)
  BY <1>3, ShowIs
<1>. HIDE DEF visible
<1>5. old.user = old.uid /\ ~old.thread
      /\ (new \/ (old.start = p.start /\ (old.system <=> e.pid = 2) /\ old.name \in had[p.start]))
  <2>1. CASE new
    <3>1. old = Process_init  BY <2>1 DEF OldFits
    <3>2. ~Process_init.thread  BY DEF Process_init
    <3>. QED  BY <2>1, <3>1, <3>2, InitIsRow
  <2>2. CASE ~new  BY <2>2, KeyFacts DEF OldFits, RowFits
  <2>. QED  BY <2>1, <2>2
<1>6. /\ first \in TaskRow /\ first.user = first.uid /\ first.start = p.start /\ (first.system <=> e.pid = 2) /\ ~first.thread
      /\ (new \/ first.name \in had[p.start])
  <2>1. CASE new
    <3>1. first = [visible EXCEPT !.start = p.start, !.parent = p.parent, !.system = p.system]  BY <2>1
    <3>. HIDE DEF first
    <3>2. first \in TaskRow  BY <1>2, <1>4, <3>1 DEF TaskRow
    <3>3. first.user = visible.user /\ first.uid = visible.uid /\ first.start = p.start /\ (first.system <=> p.system)
          /\ (first.thread <=> visible.thread)
      BY <1>4, <3>1 DEF TaskRow
    <3>. QED  BY <1>2, <1>4, <1>5, <2>1, <3>2, <3>3 DEF SameTask, SameLabel
  <2>2. CASE ~new  BY <1>4, <1>5, <2>2 DEF SameTask, SameLabel
  <2>. QED  BY <2>1, <2>2
<1>. HIDE DEF first
<1>7. /\ last \in TaskRow /\ SameTask(last, first) /\ last.uid = e.proc.uid /\ last.user = e.proc.uid
      /\ last.name \in {name, first.name} /\ (new => last.name = name) /\ last.updated /\ last.nlwp = e.proc.threads
  BY <1>6, CommonIs
<1>. HIDE DEF last
<1>11. /\ last \in TaskRow /\ last.updated /\ last.start = p.start /\ last.user = last.uid /\ last.uid = p.uid
       /\ (last.system <=> e.pid = 2) /\ ~last.thread /\ last.nlwp = p.threads
  BY <1>6, <1>7 DEF SameTask
<1>12. last.name \in had[p.start]  BY <1>6, <1>7
<1>13. RowFits(RowKey(e), last)  BY <1>2, <1>11, <1>12, KeyFacts DEF RowFits
<1>14. Shows(last, e, p.threads)  BY <1>11, <1>12 DEF Shows
<1>. QED  BY <1>1, <1>11, <1>13, <1>14 DEF RowIsOf

LEMMA DarwinRow ==
    ASSUME platform = "darwin", KernInv,
           NEW e \in Entry, ProcFits(e.pid, e.proc), e.lwp = 0,
           NEW new \in BOOLEAN, NEW old, OldFits(old, new, e), NEW name \in Words, name \in had[e.proc.start],
           NEW access \in BOOLEAN
    PROVE  RowIsOf(Darwin_row(old, new, e, name, access), e, e.proc.threads)
<1>. DEFINE p == e.proc
            first == IF new THEN [old EXCEPT !.start = p.start, !.parent = p.parent, !.name = name] ELSE old
            known == WithUser(first, p.uid)
            granted == old.access /\ access /\ Pidinfo(e) # {}
            runs == granted /\ kern[e.pid].running # 0
            threads == IF Pidinfo(e) # {} THEN kern[e.pid].threads ELSE known.nlwp
            last == [known EXCEPT !.nlwp = threads, !.access = granted, !.updated = TRUE, !.running = runs]
<1>1. Darwin_row(old, new, e, name, access) = last  BY DEF Darwin_row
<1>2. p \in Proc /\ p.start \in 1 .. births /\ p.start \in Nat /\ p.parent \in Nat /\ p.uid \in Int
  BY DEF Entry, Proc, ProcFits
<1>3. old \in TaskRow /\ old.user = old.uid /\ (new \/ (old.start = p.start /\ old.name \in had[p.start]))
  <2>1. CASE new
    <3>1. old = Process_init  BY <2>1 DEF OldFits
    <3>. QED  BY <2>1, <3>1, InitIsRow
  <2>2. CASE ~new  BY <2>2 DEF OldFits, RowFits
  <2>. QED  BY <2>1, <2>2
<1>4. first \in TaskRow /\ first.user = first.uid /\ first.start = p.start /\ first.name \in had[p.start]
  <2>1. CASE new
    <3>1. first = [old EXCEPT !.start = p.start, !.parent = p.parent, !.name = name]  BY <2>1
    <3>. HIDE DEF first
    <3>2. first \in TaskRow  BY <1>2, <1>3, <3>1, WordsAreLabels DEF TaskRow
    <3>. QED  BY <1>3, <3>1, <3>2 DEF TaskRow
  <2>2. CASE ~new  BY <1>3, <2>2
  <2>. QED  BY <2>1, <2>2
<1>. HIDE DEF first
<1>5. known \in TaskRow /\ SameTask(known, first) /\ known.uid = p.uid /\ known.user = p.uid /\ known.name = first.name
  BY <1>2, <1>4, WithUserIs
<1>. HIDE DEF known
<1>6. granted \in BOOLEAN /\ runs \in BOOLEAN  BY <1>3 DEF TaskRow
<1>7. threads \in Nat
  <2>1. kern \in [Live -> Proc]  BY DEF KernInv
  <2>2. Pidinfo(e) # {} => kern[e.pid] \in Proc  BY <2>1 DEF Pidinfo
  <2>3. known.nlwp \in Nat  BY <1>5 DEF TaskRow
  <2>. QED  BY <2>2, <2>3 DEF Proc
<1>. HIDE DEF granted, runs, threads
<1>8. last \in TaskRow  BY <1>5, <1>6, <1>7 DEF TaskRow
<1>9. last.updated /\ last.start = known.start /\ last.user = known.user /\ last.uid = known.uid /\ last.name = known.name
  BY <1>5 DEF TaskRow
<1>. HIDE DEF last
<1>10. last.updated /\ last.start = p.start /\ last.user = last.uid /\ last.uid = p.uid /\ last.name \in had[p.start]
  BY <1>4, <1>5, <1>9 DEF SameTask
<1>11. RowFits(RowKey(e), last)  BY <1>2, <1>10 DEF RowFits
<1>12. Shows(last, e, p.threads)  BY <1>10 DEF Shows
<1>. QED  BY <1>1, <1>8, <1>10, <1>11, <1>12 DEF RowIsOf

LEMMA SolarisRow ==
    ASSUME platform = "solaris", option \in Options,
           NEW e \in Entry, ProcFits(e.pid, e.proc), e.lwp # 1,
           NEW new \in BOOLEAN, NEW old, OldFits(old, new, e), NEW name \in Words, name \in had[e.proc.start]
    PROVE  RowIsOf(Solaris_row(old, new, e, name), e, e.proc.threads)
<1>. DEFINE p == e.proc
            main == e.lwp = 0
            known == WithUser(old, p.uid)
            row == Current(known, e)
            start == IF new THEN p.start ELSE row.start
            word == IF new THEN name ELSE row.name
            parent == IF main THEN p.parent ELSE IF new THEN e.pid ELSE row.parent
            isThread == IF new THEN ~main ELSE row.thread
            ofKernel == IF new THEN main /\ p.parent <= 0 /\ e.pid > 1 ELSE row.system
            shown == IF main THEN ~(option.kernel /\ old.system)
                     ELSE IF old.system THEN ~option.kernel ELSE ~option.user
            last == [row EXCEPT !.start = start, !.name = word, !.parent = parent,
                                !.thread = isThread, !.system = ofKernel, !.show = shown]
<1>1. Solaris_row(old, new, e, name) = last  BY DEF Solaris_row
<1>2. p \in Proc /\ p.start \in 1 .. births /\ p.start \in Nat /\ p.parent \in Nat /\ p.uid \in Int
      /\ e.pid \in Nat /\ (p.parent = 0 <=> e.pid \in {1, 2})
  BY DEF Entry, Proc, ProcFits, Pids
<1>3. old \in TaskRow /\ old.user = old.uid
      /\ (new \/ (old.start = p.start /\ old.name \in had[p.start] /\ (old.system => RowKey(e) = 2)))
  <2>1. CASE new
    <3>1. old = Process_init  BY <2>1 DEF OldFits
    <3>. QED  BY <2>1, <3>1, InitIsRow
  <2>2. CASE ~new  BY <2>2 DEF OldFits, RowFits
  <2>. QED  BY <2>1, <2>2
<1>4. known \in TaskRow /\ SameTask(known, old) /\ known.uid = p.uid /\ known.user = p.uid /\ known.name = old.name
  BY <1>2, <1>3, WithUserIs
<1>. HIDE DEF known
<1>5. /\ row \in TaskRow /\ SameTask(row, known) /\ SameLabel(row, known)
      /\ row.nlwp = e.proc.threads /\ row.updated
  BY <1>4, CurrentIs
<1>. HIDE DEF row
<1>6. start = p.start  BY <1>3, <1>4, <1>5 DEF SameTask
<1>7. word \in had[p.start] /\ word \in Labels
  <2>1. row.name = old.name /\ old.name \in Labels  BY <1>3, <1>4, <1>5 DEF SameLabel, TaskRow
  <2>. QED  BY <1>3, <2>1, WordsAreLabels
<1>8. parent \in Nat /\ (main => parent = p.parent)  BY <1>2, <1>5 DEF TaskRow
<1>9. isThread \in BOOLEAN /\ shown \in BOOLEAN  BY <1>3, <1>5 DEF TaskRow, Options
<1>10. ofKernel \in BOOLEAN /\ (ofKernel => RowKey(e) = 2)
  <2>1. CASE new
    <3>1. ofKernel <=> main /\ p.parent <= 0 /\ e.pid > 1  BY <2>1
    <3>2. ofKernel \in BOOLEAN  BY <2>1
    <3>. HIDE DEF ofKernel
    <3>3. ASSUME ofKernel PROVE RowKey(e) = 2
      <4>1. e.lwp = 0 /\ p.parent = 0 /\ e.pid # 1  BY <1>2, <3>1, <3>3
      <4>2. e.pid = 2  BY <1>2, <4>1
      <4>. QED  BY <4>1, <4>2, KeyFacts
    <3>. QED  BY <3>2, <3>3
  <2>2. CASE ~new
    <3>1. (ofKernel <=> row.system) /\ ofKernel \in BOOLEAN  BY <1>5, <2>2 DEF TaskRow
    <3>2. row.system <=> old.system  BY <1>4, <1>5 DEF SameTask
    <3>. QED  BY <1>3, <2>2, <3>1, <3>2
  <2>. QED  BY <2>1, <2>2
<1>. HIDE DEF start, word, parent, isThread, ofKernel, shown
<1>11. last \in TaskRow
  <2>1. /\ start \in Nat /\ word \in Labels /\ parent \in Nat
        /\ isThread \in BOOLEAN /\ ofKernel \in BOOLEAN /\ shown \in BOOLEAN
    BY <1>2, <1>6, <1>7, <1>8, <1>9, <1>10
  <2>. QED  BY <1>5, <2>1 DEF TaskRow
<1>12. /\ last.start = start /\ last.name = word /\ last.parent = parent /\ (last.system <=> ofKernel)
       /\ last.uid = row.uid /\ last.user = row.user /\ last.nlwp = row.nlwp /\ (last.updated <=> row.updated)
  BY <1>5 DEF TaskRow
<1>. HIDE DEF last
<1>13. /\ last.updated /\ last.start = p.start /\ last.user = last.uid /\ last.uid = p.uid /\ last.name \in had[p.start]
       /\ (last.system => RowKey(e) = 2) /\ last.nlwp = p.threads /\ (e.lwp = 0 => last.parent = p.parent)
  BY <1>4, <1>5, <1>6, <1>7, <1>8, <1>10, <1>12 DEF SameLabel
<1>14. RowFits(RowKey(e), last)  BY <1>2, <1>13 DEF RowFits
<1>15. Shows(last, e, p.threads)  BY <1>13 DEF Shows
<1>. QED  BY <1>1, <1>11, <1>13, <1>14, <1>15 DEF RowIsOf

LEMMA PCPRow ==
    ASSUME platform = "pcp", option \in Options,
           NEW e \in Entry, ProcFits(e.pid, e.proc), e.lwp # 1,
           NEW new \in BOOLEAN, NEW old, OldFits(old, new, e), NEW name \in Words, name \in had[e.proc.start]
    PROVE  RowIsOf(PCP_row(old, new, e, name), e, e.proc.threads)
<1>. DEFINE p == e.proc
            runs == Runs(e)
            isThread == e.lwp # 0
            id == [old EXCEPT !.parent = p.parent, !.running = runs, !.thread = isThread, !.updated = TRUE]
            ofKernel == IF new \/ option.names THEN p.system ELSE old.system
            begun == [id EXCEPT !.start = p.start, !.system = ofKernel]
            row == Current(Named(WithUser(begun, p.uid), new, name), e)
            last == [row EXCEPT !.show = Visible(row)]
            skipped == [id EXCEPT !.show = FALSE]
<1>1. PCP_row(old, new, e, name) = IF ~new /\ ~Visible(id) THEN skipped ELSE last  BY DEF PCP_row
<1>2. p \in Proc /\ p.start \in 1 .. births /\ p.start \in Nat /\ p.parent \in Nat /\ p.uid \in Int
      /\ p.system \in BOOLEAN /\ (p.system <=> e.pid = 2) /\ (RowKey(e) > MaxPid <=> e.lwp # 0)
  BY KeyFacts DEF Entry, Proc, ProcFits, Pids
<1>3. old \in TaskRow /\ old.user = old.uid
      /\ (new \/ (old.start = p.start /\ old.name \in had[p.start] /\ (old.system <=> e.pid = 2)))
  <2>1. CASE new
    <3>1. old = Process_init  BY <2>1 DEF OldFits
    <3>. QED  BY <2>1, <3>1, InitIsRow
  <2>2. CASE ~new  BY <2>2, KeyFacts DEF OldFits, RowFits
  <2>. QED  BY <2>1, <2>2
<1>4. runs \in BOOLEAN /\ isThread \in BOOLEAN  BY DEF Runs
<1>5. /\ id \in TaskRow /\ id.parent = p.parent /\ (id.thread <=> e.lwp # 0) /\ id.updated
      /\ id.start = old.start /\ id.user = old.user /\ id.uid = old.uid /\ id.name = old.name /\ (id.system <=> old.system)
  <2>. HIDE DEF runs
  <2>1. id \in TaskRow  BY <1>2, <1>3, <1>4 DEF TaskRow
  <2>. QED  BY <1>3, <2>1 DEF TaskRow
<1>. HIDE DEF id, runs, isThread
<1>6. ofKernel \in BOOLEAN /\ (ofKernel <=> e.pid = 2)
  <2>1. old.system \in BOOLEAN  BY <1>3 DEF TaskRow
  <2>2. CASE new \/ option.names  BY <1>2, <2>2
  <2>3. CASE ~(new \/ option.names)  BY <1>3, <2>1, <2>3
  <2>. QED  BY <2>2, <2>3
<1>. HIDE DEF ofKernel
<1>7. /\ begun \in TaskRow /\ begun.start = p.start /\ begun.user = begun.uid /\ begun.parent = p.parent
      /\ (begun.system <=> e.pid = 2) /\ (begun.thread <=> e.lwp # 0) /\ (new \/ begun.name \in had[p.start])
  <2>1. begun \in TaskRow  BY <1>2, <1>5, <1>6 DEF TaskRow
  <2>2. begun.start = p.start /\ begun.user = id.user /\ begun.uid = id.uid /\ begun.parent = id.parent
        /\ (begun.system <=> ofKernel) /\ (begun.thread <=> id.thread) /\ begun.name = id.name
    BY <1>5 DEF TaskRow
  <2>. HIDE DEF begun
  <2>. QED  BY <1>3, <1>5, <1>6, <2>1, <2>2
<1>. HIDE DEF begun
<1>8. /\ row \in TaskRow /\ SameTask(row, begun) /\ row.uid = e.proc.uid /\ row.user = e.proc.uid
      /\ row.name \in {name, begun.name} /\ (new => row.name = name) /\ row.updated /\ row.nlwp = e.proc.threads
  BY <1>7, CommonIs
<1>. HIDE DEF row
<1>9. Visible(row) \in BOOLEAN /\ (Visible(row) <=> ~Hidden(e))
  <2>1. (row.system <=> e.proc.system) /\ (row.thread <=> e.lwp # 0)  BY <1>2, <1>7, <1>8 DEF SameTask
  <2>. QED  BY <2>1 DEF Visible, Hidden
<1>10. /\ last \in TaskRow /\ SameTask(last, row) /\ SameLabel(last, row)
       /\ last.nlwp = row.nlwp /\ (last.updated <=> row.updated) /\ (last.show <=> Visible(row))
  BY <1>8, <1>9, ShowIs
<1>. HIDE DEF last
<1>11. RowIsOf(last, e, p.threads)
  <2>1. /\ last \in TaskRow /\ last.updated /\ last.start = p.start /\ last.user = last.uid /\ last.uid = p.uid
        /\ (last.system <=> e.pid = 2) /\ (last.thread <=> e.lwp # 0) /\ last.nlwp = p.threads
        /\ (last.show <=> ~Hidden(e)) /\ last.parent = p.parent
    BY <1>7, <1>8, <1>9, <1>10 DEF SameTask, SameLabel
  <2>2. last.name \in had[p.start]  BY <1>7, <1>8, <1>10 DEF SameLabel
  <2>3. RowFits(RowKey(e), last)  BY <1>2, <2>1, <2>2, KeyFacts DEF RowFits
  <2>4. Shows(last, e, p.threads)  BY <2>1, <2>2 DEF Shows
  <2>. QED  BY <2>1, <2>3, <2>4 DEF RowIsOf
<1>12. ASSUME ~new, ~Visible(id) PROVE RowIsOf(skipped, e, p.threads)
  <2>1. Hidden(e)
    <3>1. (id.system <=> e.proc.system) /\ (id.thread <=> e.lwp # 0)  BY <1>2, <1>3, <1>5, <1>12
    <3>. QED  BY <1>12, <3>1 DEF Visible, Hidden
  <2>2. /\ skipped \in TaskRow /\ SameTask(skipped, id) /\ SameLabel(skipped, id)
        /\ (skipped.updated <=> id.updated) /\ ~skipped.show
    BY <1>5, ShowIs
  <2>. HIDE DEF skipped
  <2>3. /\ skipped.updated /\ skipped.start = p.start /\ skipped.user = skipped.uid
        /\ (skipped.system <=> e.pid = 2) /\ (skipped.thread <=> e.lwp # 0) /\ skipped.parent = p.parent
        /\ skipped.name \in had[p.start]
    BY <1>3, <1>5, <1>12, <2>2 DEF SameTask, SameLabel
  <2>4. RowFits(RowKey(e), skipped)  BY <1>2, <2>3, KeyFacts DEF RowFits
  <2>5. Shows(skipped, e, p.threads)  BY <2>1, <2>2, <2>3 DEF Shows
  <2>. QED  BY <2>2, <2>3, <2>4, <2>5 DEF RowIsOf
<1>. QED  BY <1>1, <1>11, <1>12

\* On each of the platforms.
LEMMA HandledIs ==
    ASSUME KernInv, NEW e \in Entry, ProcFits(e.pid, e.proc), e.lwp = 2 => ListsThreads, e.lwp # 1,
           NEW new \in BOOLEAN, NEW old, OldFits(old, new, e), NEW name \in Words, name \in had[e.proc.start],
           NEW access \in BOOLEAN
    PROVE  RowIsOf(HandledRow(old, new, e, name, access), e, IF platform = "openbsd" THEN 1 ELSE e.proc.threads)
<1>1. platform \in AllPlatforms /\ option \in Options  BY DEF KernInv, Options
<1>2. e.lwp \in {0, 2} /\ (platform \in {"freebsd", "netbsd", "darwin"} => e.lwp = 0)
  BY DEF Entry, ListsThreads
<1>3. CASE platform = "freebsd"  BY <1>1, <1>2, <1>3, FreeBSDRow DEF HandledRow
<1>4. CASE platform = "dragonfly"  BY <1>1, <1>4, DragonFlyRow DEF HandledRow
<1>5. CASE platform = "openbsd"  BY <1>1, <1>5, OpenBSDRow DEF HandledRow
<1>6. CASE platform = "netbsd"  BY <1>1, <1>2, <1>6, NetBSDRow DEF HandledRow
<1>7. CASE platform = "darwin"  BY <1>1, <1>2, <1>7, DarwinRow DEF HandledRow
<1>8. CASE platform = "solaris"  BY <1>1, <1>8, SolarisRow DEF HandledRow
<1>9. CASE platform = "pcp"  BY <1>1, <1>9, PCPRow DEF HandledRow
<1>. QED  BY <1>1, <1>3, <1>4, <1>5, <1>6, <1>7, <1>8, <1>9 DEF AllPlatforms

-----------------------------------------------------------------------------
(* PlatformScan: an entry is handled                                        *)

\* The processes among the entries, with one entry more.
LEMMA MainsGrow ==
    ASSUME seen \subseteq Entry, \A c, d \in seen : c.pid = d.pid => c.proc = d.proc,
           NEW S \in SUBSET seen, NEW e \in seen, e \notin S
    PROVE  /\ Cardinality(Mains(S)) \in Nat /\ Cardinality(KernelMains(S)) \in Nat
           /\ Cardinality(Mains(S \cup {e})) = Cardinality(Mains(S)) + (IF e.lwp = 0 /\ e.pid # 2 THEN 1 ELSE 0)
           /\ Cardinality(KernelMains(S \cup {e})) =
                 Cardinality(KernelMains(S)) + (IF e.lwp = 0 /\ e.pid = 2 THEN 1 ELSE 0)
           /\ e.lwp = 0 /\ e.pid = 2 => Cardinality(KernelMains(S)) = 0
<1>1. Mains(S) \subseteq Pids /\ KernelMains(S) \subseteq Pids  BY DEF Mains, KernelMains, Entry
<1>2. IsFiniteSet(Pids)  BY FS_Interval DEF Pids
<1>3. IsFiniteSet(Mains(S)) /\ IsFiniteSet(KernelMains(S))  BY <1>1, <1>2, FS_Subset
<1>4. ASSUME NEW d \in S, d.lwp = 0, d.pid = e.pid PROVE e.lwp # 0
  <2>1. d = [pid |-> d.pid, lwp |-> d.lwp, proc |-> d.proc] /\ e = [pid |-> e.pid, lwp |-> e.lwp, proc |-> e.proc]
    BY DEF Entry
  <2>. QED  BY <1>4, <2>1
<1>5. e.lwp = 0 => e.pid \notin Mains(S) /\ e.pid \notin KernelMains(S)  BY <1>4 DEF Mains, KernelMains
<1>6. Mains(S \cup {e}) = IF e.lwp = 0 /\ e.pid # 2 THEN Mains(S) \cup {e.pid} ELSE Mains(S)  BY DEF Mains
<1>7. KernelMains(S \cup {e}) = IF e.lwp = 0 /\ e.pid = 2 THEN KernelMains(S) \cup {e.pid} ELSE KernelMains(S)
  BY DEF KernelMains
<1>8. Cardinality(Mains(S)) \in Nat /\ Cardinality(KernelMains(S)) \in Nat  BY <1>3, FS_CardinalityType
<1>9. Cardinality(Mains(S \cup {e})) = Cardinality(Mains(S)) + (IF e.lwp = 0 /\ e.pid # 2 THEN 1 ELSE 0)
  <2>1. CASE e.lwp = 0 /\ e.pid # 2
    <3>1. Cardinality(Mains(S) \cup {e.pid}) = Cardinality(Mains(S)) + 1  BY <1>3, <1>5, <2>1, FS_AddElement
    <3>. QED  BY <1>6, <2>1, <3>1
  <2>2. CASE ~(e.lwp = 0 /\ e.pid # 2)  BY <1>6, <1>8, <2>2
  <2>. QED  BY <2>1, <2>2
<1>10. Cardinality(KernelMains(S \cup {e})) = Cardinality(KernelMains(S)) + (IF e.lwp = 0 /\ e.pid = 2 THEN 1 ELSE 0)
  <2>1. CASE e.lwp = 0 /\ e.pid = 2
    <3>1. Cardinality(KernelMains(S) \cup {e.pid}) = Cardinality(KernelMains(S)) + 1  BY <1>3, <1>5, <2>1, FS_AddElement
    <3>. QED  BY <1>7, <2>1, <3>1
  <2>2. CASE ~(e.lwp = 0 /\ e.pid = 2)  BY <1>7, <1>8, <2>2
  <2>. QED  BY <2>1, <2>2
<1>11. ASSUME e.lwp = 0, e.pid = 2 PROVE Cardinality(KernelMains(S)) = 0
  <2>1. KernelMains(S) \subseteq {2} /\ 2 \notin KernelMains(S)  BY <1>5, <1>11 DEF KernelMains
  <2>2. KernelMains(S) = {}  BY <2>1
  <2>. QED  BY <2>2, FS_EmptySet
<1>. QED  BY <1>8, <1>9, <1>10, <1>11

\* What an entry adds to the number of the processes.
LEMMA CountedIs ==
    ASSUME KernInv, tasks \in TaskNumbers, NEW e \in Entry, e.lwp # 1, e.lwp = 2 => ListsThreads,
           NEW new \in BOOLEAN, NEW old, OldFits(old, new, e), NEW row, NEW threads, RowIsOf(row, e, threads),
           tasks' = CountedTasks(old, row, e)
    PROVE  /\ tasks' \in TaskNumbers
           /\ platform \in {"freebsd", "openbsd", "netbsd", "pcp"} =>
                 Processes' = Processes + (IF e.lwp = 0 /\ e.pid # 2 THEN 1 ELSE 0)
           /\ platform = "dragonfly" => Processes' = Processes + (IF e.pid # 2 THEN 1 ELSE 0)
           /\ platform = "darwin" => e.lwp = 0 /\ Processes' = Processes + 1
           /\ platform = "solaris" =>
                 /\ e.lwp # 0 => Processes' = Processes
                 /\ e.lwp = 0 /\ e.pid # 2 => Processes' = Processes + 1
                 /\ Processes' \in {Processes, Processes + 1}
<1>. DEFINE Adds(k, u, t) == \E r \in Int : tasks' = Counted(k, u, t, r)
<1>1. row \in TaskRow /\ RowFits(RowKey(e), row) /\ row.nlwp \in Nat  BY DEF RowIsOf, TaskRow
<1>2. e.lwp \in {0, 2} /\ platform \in AllPlatforms /\ (platform \in {"freebsd", "netbsd", "darwin"} => e.lwp = 0)
  BY DEF Entry, ListsThreads, KernInv
<1>3. \A b : Truth(b) \in {0, 1}  BY DEF Truth
<1>4. ASSUME NEW k \in Int, NEW u \in Int, NEW t \in Int, Adds(k, u, t)
      PROVE  tasks' \in TaskNumbers /\ Processes' = Processes + (t - k - u)
  <2>1. PICK r \in Int : tasks' = Counted(k, u, t, r)  BY <1>4
  <2>2. tasks' = [kernel |-> tasks.kernel + k, user |-> tasks.user + u, total |-> tasks.total + t, running |-> tasks.running + r]
    BY <2>1 DEF Counted
  <2>3. tasks.kernel \in Int /\ tasks.user \in Int /\ tasks.total \in Int /\ tasks.running \in Int  BY DEF TaskNumbers
  <2>. QED  BY <2>2, <2>3 DEF TaskNumbers, Processes
<1>5. CASE platform \in {"openbsd", "netbsd", "pcp"}
  <2>. DEFINE k == Truth(row.system)
              u == Truth(~row.system /\ row.thread)
  <2>1. tasks' = Counted(k, u, 1, Truth(row.running))  BY <1>5 DEF CountedTasks, CountedRow
  <2>2. k \in Int /\ u \in Int /\ Adds(k, u, 1)  BY <1>3, <2>1
  <2>3. /\ row.system <=> e.pid = 2
        /\ row.thread <=> e.lwp # 0
    <3>1. platform = "netbsd" => ~row.thread /\ e.lwp = 0  BY <1>1, <1>2 DEF RowFits
    <3>2. platform # "netbsd" => (row.thread <=> e.lwp # 0)  BY <1>1, <1>2, <1>5, KeyFacts DEF RowFits
    <3>3. row.system <=> e.pid = 2  BY <1>1, <1>5, KeyFacts DEF RowFits
    <3>. QED  BY <3>1, <3>2, <3>3
  <2>4. 1 - k - u = IF e.lwp = 0 /\ e.pid # 2 THEN 1 ELSE 0  BY <2>3 DEF Truth
  <2>. HIDE DEF k, u, Adds
  <2>5. tasks' \in TaskNumbers /\ Processes' = Processes + (1 - k - u)  BY <1>4, <2>2
  <2>. QED  BY <1>5, <2>4, <2>5
<1>6. CASE platform \in {"freebsd", "dragonfly"}
  <2>. DEFINE k == Truth(row.system)
  <2>1. tasks' = Counted(k, 0, 1, Truth(row.running))  BY <1>6 DEF CountedTasks, CountedProcess
  <2>2. k \in Int /\ Adds(k, 0, 1)  BY <1>3, <2>1
  <2>3. row.system <=> e.pid = 2  BY <1>1, <1>6, KeyFacts DEF RowFits
  <2>4. 1 - k - 0 = IF e.pid # 2 THEN 1 ELSE 0  BY <2>3 DEF Truth
  <2>. HIDE DEF k, Adds
  <2>5. tasks' \in TaskNumbers /\ Processes' = Processes + (1 - k - 0)  BY <1>4, <2>2
  <2>. QED  BY <1>2, <1>6, <2>4, <2>5
<1>7. CASE platform = "darwin"
  <2>1. tasks' = Darwin_counted(e)  BY <1>7 DEF CountedTasks
  <2>2. CASE Pidinfo(e) = {}
    <3>1. Adds(0, 0, 1)  BY <2>1, <2>2 DEF Darwin_counted
    <3>. HIDE DEF Adds
    <3>. QED  BY <1>2, <1>4, <1>7, <3>1
  <2>3. CASE Pidinfo(e) # {}
    <3>. DEFINE n == kern[e.pid].threads
    <3>1. n \in Int  BY <2>3 DEF Pidinfo, KernInv, Proc
    <3>2. tasks' = Counted(0, n, n + 1, Truth(kern[e.pid].running # 0))  BY <2>1, <2>3 DEF Darwin_counted
    <3>3. Adds(0, n, n + 1)  BY <1>3, <3>2
    <3>. HIDE DEF Adds, n
    <3>4. n + 1 \in Int /\ (n + 1) - 0 - n = 1  BY <3>1
    <3>5. tasks' \in TaskNumbers /\ Processes' = Processes + ((n + 1) - 0 - n)  BY <1>4, <3>1, <3>3, <3>4
    <3>. QED  BY <1>2, <1>7, <3>4, <3>5
  <2>. QED  BY <2>2, <2>3
<1>8. CASE platform = "solaris"
  <2>. DEFINE n == row.nlwp
              r == Truth(row.running)
  <2>0. n \in Int /\ r \in Int /\ n + 1 \in Int /\ (n + 1) - n - 0 = 1 /\ (n + 1) - 0 - n = 1  BY <1>1, <1>3
  <2>1. tasks' = Solaris_counted(old, row, e)  BY <1>8 DEF CountedTasks
  <2>2. old.system => e.lwp # 0 \/ e.pid = 2
    <3>1. CASE new
      <4>1. old = Process_init  BY <3>1 DEF OldFits
      <4>. QED  BY <4>1 DEF Process_init
    <3>2. CASE ~new  BY <1>8, <3>2, KeyFacts DEF OldFits, RowFits
    <3>. QED  BY <3>1, <3>2
  <2>3. \/ tasks' = tasks /\ (e.lwp # 0 \/ e.pid = 2)
        \/ e.lwp = 0 /\ tasks' = Counted(n, 0, n + 1, r)
        \/ e.lwp = 0 /\ tasks' = Counted(0, 0, 1, r)
        \/ e.lwp = 0 /\ tasks' = Counted(0, n, n + 1, r)
    <3>1. CASE e.lwp # 0  BY <2>1, <3>1 DEF Solaris_counted
    <3>2. CASE e.lwp = 0 /\ old.system  BY <2>1, <2>2, <3>2 DEF Solaris_counted
    <3>3. CASE e.lwp = 0 /\ ~old.system  BY <2>1, <3>3 DEF Solaris_counted
    <3>. QED  BY <3>1, <3>2, <3>3
  <2>. HIDE DEF n, r
  <2>4. \/ tasks' = tasks /\ (e.lwp # 0 \/ e.pid = 2)
        \/ e.lwp = 0 /\ (Adds(n, 0, n + 1) \/ Adds(0, 0, 1) \/ Adds(0, n, n + 1))
    BY <2>0, <2>3
  <2>. HIDE DEF Adds
  <2>5. CASE tasks' = tasks /\ (e.lwp # 0 \/ e.pid = 2)
    <3>1. Processes' = Processes  BY <2>5 DEF Processes
    <3>. QED  BY <1>8, <2>5, <3>1
  <2>6. CASE e.lwp = 0 /\ (Adds(n, 0, n + 1) \/ Adds(0, 0, 1) \/ Adds(0, n, n + 1))
    <3>1. Adds(n, 0, n + 1) => tasks' \in TaskNumbers /\ Processes' = Processes + ((n + 1) - n - 0)  BY <1>4, <2>0
    <3>2. Adds(0, n, n + 1) => tasks' \in TaskNumbers /\ Processes' = Processes + ((n + 1) - 0 - n)  BY <1>4, <2>0
    <3>3. Adds(0, 0, 1) => tasks' \in TaskNumbers /\ Processes' = Processes + 1  BY <1>4
    <3>4. tasks' \in TaskNumbers /\ Processes' = Processes + 1  BY <2>0, <2>6, <3>1, <3>2, <3>3
    <3>. QED  BY <1>8, <2>6, <3>4
  <2>. QED  BY <2>4, <2>5, <2>6
<1>. QED  BY <1>2, <1>5, <1>6, <1>7, <1>8 DEF AllPlatforms

\* The table with a thread counted in the row of its process.
LEMMA WithThreadIs ==
    ASSUME rows \in [DOMAIN rows -> TaskRow], NEW e
    PROVE  /\ DOMAIN WithThread(e) = DOMAIN rows
           /\ \A k \in DOMAIN rows :
                 LET r == WithThread(e)[k]
                 IN  /\ r \in TaskRow /\ SameTask(r, rows[k]) /\ SameLabel(r, rows[k])
                     /\ (r.show <=> rows[k].show) /\ (r.updated <=> rows[k].updated)
                     /\ r.nlwp = IF platform = "openbsd" /\ e.lwp = 2 /\ k = e.pid THEN rows[k].nlwp + 1 ELSE rows[k].nlwp
<1>1. CASE platform = "openbsd" /\ e.lwp = 2 /\ e.pid \in DOMAIN rows
  <2>1. WithThread(e) = [rows EXCEPT ![e.pid].nlwp = @ + 1]  BY <1>1 DEF WithThread
  <2>2. DOMAIN WithThread(e) = DOMAIN rows  BY <2>1
  <2>3. ASSUME NEW k \in DOMAIN rows, k # e.pid PROVE WithThread(e)[k] = rows[k]  BY <2>1, <2>3
  <2>. DEFINE row == rows[e.pid]
              n == row.nlwp + 1
              r == WithThread(e)[e.pid]
  <2>4. r = [row EXCEPT !.nlwp = n]  BY <1>1, <2>1
  <2>5. row \in TaskRow /\ n \in Nat
    <3>1. row \in TaskRow  BY <1>1
    <3>. HIDE DEF row
    <3>2. row.nlwp \in Nat  BY <3>1 DEF TaskRow
    <3>. QED  BY <3>1, <3>2
  <2>. HIDE DEF row, r, n
  <2>6. /\ r \in TaskRow /\ SameTask(r, row) /\ SameLabel(r, row)
        /\ r.nlwp = n /\ (r.updated <=> row.updated) /\ (r.show <=> row.show)
    BY <2>4, <2>5, ThreadsIs
  <2>. QED  BY <1>1, <2>2, <2>3, <2>6 DEF SameTask, SameLabel, row, r, n
<1>2. CASE ~(platform = "openbsd" /\ e.lwp = 2 /\ e.pid \in DOMAIN rows)
  BY <1>2 DEF WithThread, SameTask, SameLabel
<1>. QED  BY <1>1, <1>2

\* What every step of an entry leaves true.
HandleFacts(e) ==
    /\ stage = "scan" /\ stage' = "scan" /\ e \in left /\ left' = left \ {e}
    /\ UNCHANGED <<platform, kern, births, had, option, seen>>
    /\ Done' = Done \cup {e} /\ e \notin Done /\ e \in seen /\ e \in Entry /\ ProcFits(e.pid, e.proc)
    /\ e.lwp = 2 => ListsThreads
    /\ e.lwp # 0 => MainOf(e) \in Done /\ e.pid \in DOMAIN rows

LEMMA HandleBegins ==
    ASSUME ListInvs, NEW e \in left, HandleEntry(e)
    PROVE  HandleFacts(e) /\ (e.lwp = 1 => IsFirstThread(e))
<1>1. /\ stage = "scan" /\ stage' = "scan" /\ left' = left \ {e} /\ IsNext(e)
      /\ UNCHANGED <<platform, kern, births, had, option, seen>>
  BY DEF HandleEntry, kernVars
<1>2. e \in seen /\ e \in Entry /\ ProcFits(e.pid, e.proc) /\ MainOf(e) \in seen
  BY DEF ListInvs, EntriesInv
<1>3. /\ e.lwp = 1 => platform = "openbsd"
      /\ e.lwp = 2 => ListsThreads
      /\ Keys(Rowed(Done)) \subseteq DOMAIN rows
  BY <1>1, <1>2 DEF ListInvs, ScanInv, Listing
<1>4. Done' = Done \cup {e} /\ e \notin Done  BY <1>1, <1>2 DEF Done
<1>5. ASSUME e.lwp # 0 PROVE MainOf(e) \in Done /\ e.pid \in DOMAIN rows
  <2>1. MainOf(e).pid = e.pid /\ MainOf(e).lwp = 0  BY DEF MainOf
  <2>2. ASSUME MainOf(e) \in left PROVE FALSE
    <3>1. e.lwp <= MainOf(e).lwp  BY <1>1, <2>1, <2>2 DEF IsNext
    <3>. QED  BY <1>2, <1>5, <2>1, <3>1 DEF Entry
  <2>3. MainOf(e) \in Done  BY <1>2, <2>2 DEF Done
  <2>4. MainOf(e) \in Rowed(Done) /\ RowKey(MainOf(e)) = e.pid  BY <2>1, <2>3 DEF Rowed, RowKey
  <2>. QED  BY <1>3, <2>3, <2>4 DEF Keys
<1>6. e.lwp = 1 => IsFirstThread(e)  BY <1>3, <1>5 DEF IsFirstThread
<1>. QED  BY <1>1, <1>2, <1>3, <1>4, <1>5, <1>6 DEF HandleFacts

\* The first thread of OpenBSD's processes, which is skipped.
LEMMA SkipKeeps ==
    ASSUME ListInvs, NEW e \in left, HandleFacts(e), IsFirstThread(e), UNCHANGED <<rows, tasks>>
    PROVE  ListInvs'
<1>1. /\ stage = "scan" /\ stage' = "scan" /\ left' = left \ {e}
      /\ UNCHANGED <<platform, kern, births, had, option, seen>>
      /\ Done' = Done \cup {e} /\ e.lwp = 1 /\ platform = "openbsd" /\ MainOf(e) \in Done
  BY DEF HandleFacts, IsFirstThread
<1>2. KernInv'  BY <1>1 DEF ListInvs, KernInv, Live, ProcFits
<1>3. EntriesInv'  BY <1>1 DEF ListInvs, EntriesInv, Live, ProcFits, MainOf
<1>4. RowsInv'  BY <1>1 DEF ListInvs, RowsInv, Live, RowFits, PidOf
<1>5. ScanInv'
  <2>1. /\ Listing
        /\ \A d \in seen : RowKey(d) \in DOMAIN rows => rows[RowKey(d)].start = d.proc.start
        /\ \A d \in Done : MainOf(d) \in Done
        /\ Keys(Rowed(Done)) \subseteq DOMAIN rows
        /\ \A k \in DOMAIN rows : rows[k].updated <=> k \in Keys(Rowed(Done))
        /\ \A d \in Rowed(Done) : Shows(rows[RowKey(d)], d, Threads(d))
    BY <1>1 DEF ListInvs, ScanInv
  <2>2. Rowed(Done)' = Rowed(Done)  BY <1>1 DEF Rowed
  <2>3. Listing' /\ Keys(Rowed(Done))' = Keys(Rowed(Done))
    BY <1>1, <2>1, <2>2 DEF Listing, ListsThreads, ThreadOf, Keys, RowKey
  <2>4. ASSUME NEW d \in Rowed(Done) PROVE Shows(rows[RowKey(d)], d, Threads(d))'
    <3>1. Shows(rows[RowKey(d)], d, Threads(d))  BY <2>1
    <3>2. RowKey(d)' = RowKey(d) /\ Hidden(d)' = Hidden(d)  BY <1>1 DEF RowKey, Hidden
    <3>3. ThreadOf(d).lwp = 2 /\ ThreadOf(d)' = ThreadOf(d)  BY DEF ThreadOf
    <3>4. ThreadOf(d) \in Done' <=> ThreadOf(d) \in Done  BY <1>1, <3>3
    <3>5. Threads(d)' = Threads(d)  BY <1>1, <3>3, <3>4 DEF Threads
    <3>. QED  BY <1>1, <3>1, <3>2, <3>5 DEF Shows
  <2>5. \A d \in seen : RowKey(d)' = RowKey(d)  BY <1>1 DEF RowKey
  <2>6. \A d \in Done' : MainOf(d) \in Done'  BY <1>1, <2>1
  <2>. QED  BY <1>1, <2>1, <2>2, <2>3, <2>4, <2>5, <2>6 DEF ScanInv, MainOf
<1>6. CountInv'
  <2>1. CountInv  BY DEF ListInvs
  <2>2. Processes' = Processes  BY <1>1 DEF Processes
  <2>3. Mains(Done)' = Mains(Done)  BY <1>1 DEF Mains
  <2>4. KernelMains(Done)' = KernelMains(Done)  BY <1>1 DEF KernelMains
  <2>. HIDE DEF Processes
  <2>. QED  BY <1>1, <2>1, <2>2, <2>3, <2>4 DEF CountInv, CountFits
<1>7. ListInv' /\ PlatformTrue'  BY <1>1 DEF ListInv, PlatformTrue, RowsTrue, CountsAgree
<1>. QED  BY <1>2, <1>3, <1>4, <1>5, <1>6, <1>7 DEF ListInvs

\* A row stays sound when only its count, its visibility or its mark changes.
LEMMA FitsStill ==
    ASSUME NEW k, NEW a, NEW b, SameTask(b, a), SameLabel(b, a), RowFits(k, a)
    PROVE  RowFits(k, b)
BY DEF SameTask, SameLabel, RowFits

\* Any other entry: its row is replaced, and its thread is counted on OpenBSD.
LEMMA RowKeeps ==
    ASSUME ListInvs, NEW e \in left, HandleFacts(e), e.lwp # 1,
           NEW row, RowIsOf(row, e, IF platform = "openbsd" THEN 1 ELSE e.proc.threads),
           rows' = Put(WithThread(e), RowKey(e), row)
    PROVE  RowsInv' /\ ScanInv'
<1>. DEFINE k == RowKey(e)
            counted == platform = "openbsd" /\ e.lwp = 2
<1>1. /\ stage = "scan" /\ stage' = "scan" /\ left' = left \ {e}
      /\ UNCHANGED <<platform, kern, births, had, option, seen>>
      /\ Done' = Done \cup {e} /\ e \notin Done /\ e \in seen /\ e \in Entry /\ ProcFits(e.pid, e.proc)
      /\ e.lwp = 2 => ListsThreads
      /\ e.lwp # 0 => MainOf(e) \in Done /\ e.pid \in DOMAIN rows
      /\ Done \subseteq seen
  BY DEF HandleFacts, Done
<1>2. /\ rows \in [DOMAIN rows -> TaskRow] /\ DOMAIN rows \subseteq 1 .. 2 * MaxPid
      /\ \A j \in DOMAIN rows : /\ RowFits(j, rows[j]) /\ PidOf(j) \in DOMAIN rows
                                /\ PidOf(j) \in Live => kern[PidOf(j)].start = rows[j].start
  BY DEF ListInvs, RowsInv
<1>3. /\ seen \subseteq Entry /\ (\A c, d \in seen : c.pid = d.pid => c.proc = d.proc)
      /\ e.pid \in Live => kern[e.pid].start = e.proc.start
  BY <1>1 DEF ListInvs, EntriesInv
<1>4. /\ row \in TaskRow /\ row.updated /\ RowFits(k, row) /\ row.start = e.proc.start
      /\ (platform = "dragonfly" => row.nlwp = e.proc.threads)
      /\ Shows(row, e, IF platform = "openbsd" THEN 1 ELSE e.proc.threads)
  BY DEF RowIsOf, Shows
<1>5. PidOf(k) = e.pid /\ k \in 1 .. 2 * MaxPid /\ (e.lwp # 2 => k = e.pid)  BY <1>1, KeyFacts
<1>6. DOMAIN rows' = DOMAIN rows \cup {k} /\ rows'[k] = row  BY WithThreadIs, <1>2 DEF Put
<1>. HIDE DEF k
<1>7. ASSUME NEW j \in DOMAIN rows, j # k
      PROVE  /\ rows'[j] \in TaskRow /\ SameTask(rows'[j], rows[j]) /\ SameLabel(rows'[j], rows[j])
             /\ (rows'[j].show <=> rows[j].show) /\ (rows'[j].updated <=> rows[j].updated)
             /\ rows'[j].nlwp = IF counted /\ j = e.pid THEN rows[j].nlwp + 1 ELSE rows[j].nlwp
  <2>. DEFINE table == WithThread(e)
  <2>1. rows'[j] = table[j]  BY <1>2, <1>7, WithThreadIs DEF Put, k
  <2>2. /\ table[j] \in TaskRow /\ SameTask(table[j], rows[j]) /\ SameLabel(table[j], rows[j])
        /\ (table[j].show <=> rows[j].show) /\ (table[j].updated <=> rows[j].updated)
        /\ table[j].nlwp = IF counted /\ j = e.pid THEN rows[j].nlwp + 1 ELSE rows[j].nlwp
    BY <1>2, <1>7, WithThreadIs
  <2>. HIDE DEF table
  <2>. QED  BY <2>1, <2>2
<1>. HIDE DEF counted
<1>8. RowsInv'
  <2>1. rows' \in [DOMAIN rows' -> TaskRow]
    <3>1. rows' = [j \in DOMAIN rows' |-> rows'[j]]  BY DEF Put
    <3>. QED  BY <1>4, <1>6, <1>7, <3>1
  <2>2. ASSUME NEW j \in DOMAIN rows'
        PROVE  /\ RowFits(j, rows'[j]) /\ PidOf(j) \in DOMAIN rows'
               /\ PidOf(j) \in Live => kern[PidOf(j)].start = rows'[j].start
    <3>1. CASE j = k
      <4>1. e.pid \in DOMAIN rows'
        <5>1. CASE e.lwp = 0  BY <1>5, <1>6, <5>1
        <5>2. CASE e.lwp # 0  BY <1>1, <1>6, <5>2
        <5>. QED  BY <5>1, <5>2
      <4>. QED  BY <1>3, <1>4, <1>5, <1>6, <3>1, <4>1
    <3>2. CASE j # k
      <4>1. j \in DOMAIN rows /\ SameTask(rows'[j], rows[j]) /\ SameLabel(rows'[j], rows[j])  BY <1>6, <1>7, <3>2
      <4>2. RowFits(j, rows'[j])  BY <1>2, <4>1, FitsStill
      <4>3. rows'[j].start = rows[j].start  BY <4>1 DEF SameTask
      <4>. QED  BY <1>2, <1>6, <4>1, <4>2, <4>3
    <3>. QED  BY <3>1, <3>2
  <2>3. \A j \in DOMAIN rows' : RowFits(j, rows[j])'  BY <1>1, <2>2 DEF RowFits, PidOf
  <2>4. DOMAIN rows' \subseteq 1 .. 2 * MaxPid  BY <1>2, <1>5, <1>6
  <2>. QED  BY <1>1, <2>1, <2>2, <2>3, <2>4 DEF RowsInv, Live, PidOf
<1>9. /\ Listing
      /\ \A d \in seen : RowKey(d) \in DOMAIN rows => rows[RowKey(d)].start = d.proc.start
      /\ \A d \in Done : MainOf(d) \in Done
      /\ Keys(Rowed(Done)) \subseteq DOMAIN rows
      /\ \A j \in DOMAIN rows : rows[j].updated <=> j \in Keys(Rowed(Done))
      /\ \A d \in Rowed(Done) : Shows(rows[RowKey(d)], d, Threads(d))
  BY <1>1 DEF ListInvs, ScanInv
<1>10. Rowed(Done)' = Rowed(Done) \cup {e}  BY <1>1 DEF Rowed
<1>11. Keys(Rowed(Done))' = Keys(Rowed(Done)) \cup {k}  BY <1>1, <1>10 DEF Keys, RowKey, k
<1>12. \A d : RowKey(d)' = RowKey(d) /\ Hidden(d)' = Hidden(d) /\ ThreadOf(d)' = ThreadOf(d) /\ MainOf(d)' = MainOf(d)
  BY <1>1 DEF RowKey, Hidden, ThreadOf, MainOf
\* Two entries with one row.
<1>13. ASSUME NEW d \in seen, RowKey(d) = k PROVE d.pid = e.pid /\ d.proc = e.proc
  <2>1. d.pid = PidOf(RowKey(d))  BY <1>3, KeyFacts
  <2>. QED  BY <1>1, <1>3, <1>5, <1>13, <2>1
<1>14. Listing'  BY <1>1, <1>9 DEF Listing, ListsThreads, ThreadOf
<1>15. ASSUME NEW d \in seen, RowKey(d) \in DOMAIN rows' PROVE rows'[RowKey(d)].start = d.proc.start
  <2>1. CASE RowKey(d) = k  BY <1>4, <1>6, <1>13, <2>1
  <2>2. CASE RowKey(d) # k
    <3>. DEFINE j == RowKey(d)
    <3>1. j \in DOMAIN rows /\ j # k /\ rows[j].start = d.proc.start  BY <1>6, <1>9, <1>15, <2>2
    <3>. HIDE DEF j
    <3>2. rows'[j].start = rows[j].start  BY <1>7, <3>1 DEF SameTask
    <3>. QED  BY <3>1, <3>2 DEF j
  <2>. QED  BY <2>1, <2>2
<1>16. ASSUME NEW d \in Done' PROVE MainOf(d) \in Done'
  <2>1. CASE d = e /\ e.lwp = 0
    <3>1. MainOf(e) = e  BY <1>1, <2>1 DEF MainOf, Entry
    <3>. QED  BY <1>1, <2>1, <3>1
  <2>2. CASE d # e \/ e.lwp # 0  BY <1>1, <1>9, <1>16, <2>2
  <2>. QED  BY <2>1, <2>2
<1>17. ASSUME NEW j \in DOMAIN rows' PROVE rows'[j].updated <=> j \in Keys(Rowed(Done))'
  <2>1. CASE j = k  BY <1>4, <1>6, <1>11, <2>1
  <2>2. CASE j # k
    <3>1. j \in DOMAIN rows /\ (rows'[j].updated <=> rows[j].updated)  BY <1>6, <1>7, <2>2
    <3>. QED  BY <1>9, <1>11, <2>2, <3>1
  <2>. QED  BY <2>1, <2>2
<1>18. ASSUME NEW d \in Rowed(Done)' PROVE Shows(rows'[RowKey(d)], d, Threads(d)')
  <2>0. d \in seen /\ d \in Entry /\ d.lwp \in {0, 2} /\ (d = e \/ d \in Rowed(Done))
    <3>1. d \in seen  BY <1>1, <1>10, <1>18 DEF Rowed
    <3>2. d.lwp # 1  BY <1>1, <1>9, <1>10, <1>18, <3>1 DEF Rowed, Listing
    <3>. QED  BY <1>3, <1>10, <1>18, <3>1, <3>2 DEF Entry
  <2>1. CASE d = e
    <3>1. e.lwp = 0 => Threads(e)' = IF platform = "openbsd" THEN 1 ELSE e.proc.threads
      <4>1. CASE platform = "openbsd" /\ e.lwp = 0
        <5>1. MainOf(ThreadOf(e)) = e /\ ThreadOf(e) # e  BY <1>1, <4>1 DEF MainOf, ThreadOf, Entry
        <5>2. ThreadOf(e) \notin Done'  BY <1>1, <1>9, <5>1
        <5>. QED  BY <1>1, <1>12, <4>1, <5>2 DEF Threads
      <4>2. CASE platform # "openbsd"  BY <1>1, <4>2 DEF Threads
      <4>. QED  BY <4>1, <4>2
    <3>. QED  BY <1>4, <1>6, <2>1, <3>1 DEF Shows, k
  <2>2. CASE d # e /\ RowKey(d) = k
    <3>1. d.pid = e.pid /\ d.proc = e.proc  BY <1>13, <2>0, <2>2
    <3>2. d.lwp # e.lwp  BY <1>1, <2>0, <2>2, <3>1 DEF Entry
    <3>3. platform = "dragonfly"
      <4>1. (k > MaxPid <=> e.lwp = 2 /\ platform # "dragonfly") /\ (k > MaxPid <=> d.lwp = 2 /\ platform # "dragonfly")
        BY <1>1, <2>0, <2>2, KeyFacts DEF k
      <4>2. e.lwp \in {0, 2}  BY <1>1 DEF Entry
      <4>. QED  BY <2>0, <3>2, <4>1, <4>2
    <3>4. Threads(d)' = e.proc.threads  BY <1>1, <3>1, <3>3 DEF Threads
    <3>. QED  BY <1>4, <1>6, <2>2, <3>1, <3>3, <3>4 DEF Shows
  <2>3. CASE d # e /\ RowKey(d) # k
    <3>. DEFINE j == RowKey(d)
    <3>1. j \in DOMAIN rows /\ j # k /\ Shows(rows[j], d, Threads(d))
      <4>1. d \in Rowed(Done)  BY <2>0, <2>3
      <4>. QED  BY <1>9, <2>3, <4>1 DEF Keys
    <3>2. d.lwp = 0 => j = d.pid  BY <2>0, KeyFacts
    <3>3. j = e.pid => d.pid = e.pid /\ d.proc = e.proc
      <4>1. PidOf(j) = d.pid  BY <2>0, KeyFacts
      <4>2. e.pid \in Nat /\ e.pid <= MaxPid  BY <1>1 DEF Entry, Pids
      <4>. HIDE DEF j
      <4>3. ASSUME j = e.pid PROVE d.pid = e.pid
        <5>1. PidOf(e.pid) = e.pid  BY <4>2 DEF PidOf
        <5>. QED  BY <4>1, <4>3, <5>1
      <4>. QED  BY <1>1, <1>3, <2>0, <4>3
    <3>. HIDE DEF j
    <3>4. /\ SameTask(rows'[j], rows[j]) /\ SameLabel(rows'[j], rows[j]) /\ (rows'[j].show <=> rows[j].show)
          /\ rows[j] \in TaskRow
          /\ rows'[j].nlwp = IF counted /\ j = e.pid THEN rows[j].nlwp + 1 ELSE rows[j].nlwp
      BY <1>2, <1>7, <3>1
    <3>5. ASSUME d.lwp = 0, rows[j].nlwp = Threads(d) PROVE rows'[j].nlwp = Threads(d)'
      <4>1. CASE counted /\ j = e.pid
        <5>1. platform = "openbsd" /\ e.lwp = 2 /\ d.pid = e.pid /\ d.proc = e.proc  BY <3>3, <4>1 DEF counted
        <5>2. ThreadOf(d) = e  BY <1>1, <5>1 DEF ThreadOf, Entry
        <5>3. Threads(d) = 1 /\ Threads(d)' = 2  BY <1>1, <1>12, <5>1, <5>2 DEF Threads
        <5>. QED  BY <3>4, <3>5, <4>1, <5>3
      <4>2. CASE ~(counted /\ j = e.pid)
        <5>1. platform = "openbsd" => ThreadOf(d) # e
          <6>1. ASSUME platform = "openbsd", ThreadOf(d) = e PROVE counted /\ j = e.pid
            BY <3>2, <3>5, <6>1 DEF ThreadOf, counted
          <6>. QED  BY <4>2, <6>1
        <5>2. Threads(d)' = Threads(d)  BY <1>1, <1>12, <5>1 DEF Threads
        <5>. QED  BY <3>4, <3>5, <4>2, <5>2
      <4>. QED  BY <4>1, <4>2
    <3>. DEFINE a == rows[j]
                b == rows'[j]
                m == Threads(d)
                n == Threads(d)'
    <3>6. /\ SameTask(b, a) /\ SameLabel(b, a) /\ (b.show <=> a.show) /\ Shows(a, d, m)
          /\ d.lwp = 0 /\ a.nlwp = m => b.nlwp = n
          /\ platform = "pcp" => b.nlwp = a.nlwp /\ n = m
      BY <1>1, <3>1, <3>4, <3>5 DEF Threads, counted
    <3>. HIDE DEF a, b, m, n
    <3>7. Shows(b, d, n)  BY <3>6 DEF Shows, SameTask, SameLabel
    <3>. QED  BY <3>7 DEF j, b, n
  <2>. QED  BY <2>1, <2>2, <2>3
<1>19. ASSUME NEW d \in Rowed(Done)' PROVE Shows(rows[RowKey(d)], d, Threads(d))'
  <2>. DEFINE r == rows'[RowKey(d)]
              n == Threads(d)'
  <2>1. Shows(r, d, n)  BY <1>18
  <2>2. rows'[RowKey(d)'] = r  BY <1>12
  <2>. HIDE DEF r, n
  <2>. QED  BY <1>1, <1>12, <2>1, <2>2 DEF Shows, n
<1>20. Keys(Rowed(Done))' \subseteq DOMAIN rows'  BY <1>6, <1>9, <1>11
<1>21. ScanInv'  BY <1>1, <1>12, <1>14, <1>15, <1>16, <1>17, <1>19, <1>20 DEF ScanInv
<1>. QED  BY <1>8, <1>21

\* The counters go on.
LEMMA CountKeeps ==
    ASSUME ListInvs, NEW e \in left, HandleFacts(e), e.lwp # 1,
           NEW new \in BOOLEAN, NEW old, OldFits(old, new, e), NEW row, NEW threads, RowIsOf(row, e, threads),
           tasks' = CountedTasks(old, row, e)
    PROVE  CountInv'
<1>1. /\ stage = "scan" /\ stage' = "scan" /\ platform' = platform /\ option' = option /\ seen' = seen
      /\ Done' = Done \cup {e} /\ e \notin Done /\ e \in seen /\ e \in Entry
      /\ e.lwp = 2 => ListsThreads
  BY DEF HandleFacts
<1>2. /\ seen \subseteq Entry /\ (\A c, d \in seen : c.pid = d.pid => c.proc = d.proc) /\ Done \in SUBSET seen
  BY DEF ListInvs, EntriesInv, Done
<1>. DEFINE users == Cardinality(Mains(Done))
            kernels == Cardinality(KernelMains(Done))
            users2 == Cardinality(Mains(Done)')
            kernels2 == Cardinality(KernelMains(Done)')
<1>3. Mains(Done)' = Mains(Done \cup {e}) /\ KernelMains(Done)' = KernelMains(Done \cup {e})
  BY <1>1 DEF Mains, KernelMains
<1>4. /\ users \in Nat /\ kernels \in Nat
      /\ users2 = users + (IF e.lwp = 0 /\ e.pid # 2 THEN 1 ELSE 0)
      /\ kernels2 = kernels + (IF e.lwp = 0 /\ e.pid = 2 THEN 1 ELSE 0)
      /\ e.lwp = 0 /\ e.pid = 2 => kernels = 0
  BY <1>1, <1>2, <1>3, MainsGrow
<1>5. /\ platform \in {"freebsd", "openbsd", "netbsd", "pcp"} => Processes = users
      /\ platform = "dragonfly" => Processes >= users /\ (option.user => Processes = users)
      /\ platform = "darwin" => Processes = users + kernels
      /\ platform = "solaris" => Processes \in {users - 1, (users + kernels) - 1}
  <2>1. CountFits(users, kernels)  BY <1>1 DEF ListInvs, CountInv
  <2>. HIDE DEF users, kernels
  <2>. QED  BY <2>1 DEF CountFits
<1>6. tasks \in TaskNumbers /\ Processes \in Int /\ KernInv  BY DEF ListInvs, CountInv, TaskNumbers, Processes
<1>7. /\ tasks' \in TaskNumbers
      /\ platform \in {"freebsd", "openbsd", "netbsd", "pcp"} =>
            Processes' = Processes + (IF e.lwp = 0 /\ e.pid # 2 THEN 1 ELSE 0)
      /\ platform = "dragonfly" => Processes' = Processes + (IF e.pid # 2 THEN 1 ELSE 0)
      /\ platform = "darwin" => e.lwp = 0 /\ Processes' = Processes + 1
      /\ platform = "solaris" =>
            /\ e.lwp # 0 => Processes' = Processes
            /\ e.lwp = 0 /\ e.pid # 2 => Processes' = Processes + 1
            /\ Processes' \in {Processes, Processes + 1}
  BY <1>1, <1>6, CountedIs
<1>. DEFINE prior == Processes
            later == Processes'
<1>. HIDE DEF users, kernels, users2, kernels2, prior, later
<1>8. platform \in {"freebsd", "openbsd", "netbsd", "pcp"} => later = users2  BY <1>4, <1>5, <1>7 DEF prior, later
<1>9. platform = "dragonfly" => later >= users2 /\ (option.user => later = users2)
  <2>. SUFFICES ASSUME platform = "dragonfly" PROVE later >= users2 /\ (option.user => later = users2)  OBVIOUS
  <2>1. option.user => e.lwp = 0
    <3>1. e.lwp \in {0, 2}  BY <1>1 DEF Entry
    <3>. QED  BY <1>1, <3>1 DEF ListsThreads
  <2>2. prior \in Int /\ prior >= users /\ (option.user => prior = users)
        /\ later = prior + (IF e.pid # 2 THEN 1 ELSE 0)
    BY <1>5, <1>6, <1>7 DEF prior, later
  <2>3. later >= users2  BY <1>4, <2>2
  <2>4. ASSUME option.user PROVE later = users2  BY <1>4, <2>1, <2>2, <2>4
  <2>. QED  BY <2>3, <2>4
<1>10. platform = "darwin" => later = users2 + kernels2
  <2>. SUFFICES ASSUME platform = "darwin" PROVE later = users2 + kernels2  OBVIOUS
  <2>1. prior = users + kernels /\ e.lwp = 0 /\ later = prior + 1  BY <1>5, <1>7 DEF prior, later
  <2>2. CASE e.pid = 2  BY <1>4, <2>1, <2>2
  <2>3. CASE e.pid # 2  BY <1>4, <2>1, <2>3
  <2>. QED  BY <2>2, <2>3
<1>11. platform = "solaris" => later \in {users2 - 1, (users2 + kernels2) - 1}
  <2>. SUFFICES ASSUME platform = "solaris" PROVE later \in {users2 - 1, (users2 + kernels2) - 1}  OBVIOUS
  <2>1. prior \in {users - 1, (users + kernels) - 1} /\ prior \in Int  BY <1>5, <1>6 DEF prior
  <2>2. /\ e.lwp # 0 => later = prior
        /\ e.lwp = 0 /\ e.pid # 2 => later = prior + 1
        /\ later \in {prior, prior + 1}
    BY <1>7 DEF prior, later
  <2>3. CASE e.lwp # 0
    <3>1. users2 = users /\ kernels2 = kernels /\ later = prior  BY <1>4, <2>2, <2>3
    <3>. QED  BY <2>1, <3>1
  <2>4. CASE e.lwp = 0 /\ e.pid # 2
    <3>1. users2 = users + 1 /\ kernels2 = kernels /\ later = prior + 1  BY <1>4, <2>2, <2>4
    <3>. QED  BY <1>4, <2>1, <3>1
  <2>5. CASE e.lwp = 0 /\ e.pid = 2
    <3>1. users2 = users /\ kernels2 = 1 /\ kernels = 0  BY <1>4, <2>5
    <3>. QED  BY <1>4, <2>1, <2>2, <3>1
  <2>. QED  BY <2>3, <2>4, <2>5
<1>12. CountFits(Cardinality(Mains(Done)), Cardinality(KernelMains(Done)))'
  <2>1. /\ platform' \in {"freebsd", "openbsd", "netbsd", "pcp"} => Processes' = users2
        /\ platform' = "dragonfly" => Processes' >= users2 /\ (option'.user => Processes' = users2)
        /\ platform' = "darwin" => Processes' = users2 + kernels2
        /\ platform' = "solaris" => Processes' \in {users2 - 1, (users2 + kernels2) - 1}
    BY <1>1, <1>8, <1>9, <1>10, <1>11 DEF later
  <2>. QED  BY <2>1 DEF CountFits, users2, kernels2
<1>. QED  BY <1>1, <1>7, <1>12 DEF CountInv

LEMMA HandleKeeps ==
    ASSUME ListInvs, NEW e \in left, HandleEntry(e)
    PROVE  ListInvs'
<1>1. HandleFacts(e) /\ (e.lwp = 1 => IsFirstThread(e))  BY HandleBegins
<1>. DEFINE new == RowKey(e) \notin DOMAIN rows
            old == IF new THEN Process_init ELSE rows[RowKey(e)]
<1>2. CASE IsFirstThread(e) /\ UNCHANGED <<rows, tasks>>  BY <1>1, <1>2, SkipKeeps
<1>3. ASSUME ~IsFirstThread(e), NEW name \in Names(e),
             NEW access \in IF platform = "darwin" THEN BOOLEAN ELSE {TRUE},
             rows' = Put(WithThread(e), RowKey(e), HandledRow(old, new, e, name, access)),
             tasks' = CountedTasks(old, HandledRow(old, new, e, name, access), e)
      PROVE  ListInvs'
  <2>. DEFINE row == HandledRow(old, new, e, name, access)
  <2>1. /\ stage = "scan" /\ stage' = "scan" /\ left' = left \ {e}
        /\ UNCHANGED <<platform, kern, births, had, option, seen>>
        /\ e \in seen /\ e \in Entry /\ ProcFits(e.pid, e.proc) /\ e.lwp # 1 /\ (e.lwp = 2 => ListsThreads)
    BY <1>1, <1>3 DEF HandleFacts
  <2>2. new \in BOOLEAN /\ access \in BOOLEAN  OBVIOUS
  <2>3. OldFits(old, new, e)
    <3>1. CASE new  BY <3>1, InitIsRow DEF OldFits
    <3>2. CASE ~new
      <4>1. rows[RowKey(e)] \in TaskRow /\ RowFits(RowKey(e), rows[RowKey(e)])  BY <3>2 DEF ListInvs, RowsInv
      <4>2. rows[RowKey(e)].start = e.proc.start  BY <2>1, <3>2 DEF ListInvs, ScanInv
      <4>. QED  BY <3>2, <4>1, <4>2 DEF OldFits
    <3>. QED  BY <3>1, <3>2
  <2>4. name \in Words /\ name \in had[e.proc.start]
    <3>1. e.proc.start \in 1 .. births /\ e.proc.comm \in had[e.proc.start] /\ had \in [1 .. births -> SUBSET Words]
      BY <2>1 DEF ListInvs, KernInv, ProcFits
    <3>2. e.pid \in Live => kern[e.pid].comm \in had[kern[e.pid].start] /\ kern[e.pid].start = e.proc.start
      BY <2>1 DEF ListInvs, KernInv, EntriesInv, ProcFits
    <3>3. name = e.proc.comm \/ (e.pid \in Live /\ name = kern[e.pid].comm)  BY <1>3 DEF Names
    <3>. QED  BY <3>1, <3>2, <3>3
  <2>. HIDE DEF old, new
  <2>5. RowIsOf(row, e, IF platform = "openbsd" THEN 1 ELSE e.proc.threads)
    BY <2>1, <2>2, <2>3, <2>4, HandledIs DEF ListInvs
  <2>6. rows' = Put(WithThread(e), RowKey(e), row) /\ tasks' = CountedTasks(old, row, e)  BY <1>3
  <2>. HIDE DEF row
  <2>7. RowsInv' /\ ScanInv'  BY <1>1, <2>1, <2>5, <2>6, RowKeeps
  <2>8. CountInv'  BY <1>1, <2>1, <2>2, <2>3, <2>5, <2>6, CountKeeps
  <2>9. KernInv'  BY <2>1 DEF ListInvs, KernInv, Live, ProcFits
  <2>10. EntriesInv'  BY <2>1 DEF ListInvs, EntriesInv, Live, ProcFits, MainOf
  <2>11. ListInv' /\ PlatformTrue'  BY <2>1 DEF ListInv, PlatformTrue, RowsTrue, CountsAgree
  <2>. QED  BY <2>7, <2>8, <2>9, <2>10, <2>11 DEF ListInvs
<1>. QED  BY <1>2, <1>3 DEF HandleEntry

LEMMA ListStep == ListInvs /\ [PlatformNext]_platformVars => ListInvs'
<1>. SUFFICES ASSUME ListInvs, [PlatformNext]_platformVars PROVE ListInvs'  OBVIOUS
<1>1. CASE StartScan  BY <1>1, StartKeeps
<1>2. CASE GetProcs  BY <1>2, GetProcsKeeps
<1>3. CASE EndScan  BY <1>3, EndKeeps
<1>4. ASSUME NEW e \in left, HandleEntry(e) PROVE ListInvs'  BY <1>4, HandleKeeps
<1>5. ASSUME NEW o \in {"kernel", "user", "names"}, Toggle(o) PROVE ListInvs'  BY <1>5, ToggleKeeps
<1>6. ASSUME NEW p \in Pids,
             \/ Exit(p) \/ Exec(p) \/ Setuid(p) \/ JailAttach(p) \/ Clone(p)
             \/ \E q \in Pids : Fork(p, q)
             \/ \E t \in 0 .. 2 : Dispatch(p, t)
      PROVE  ListInvs'
  <2>1. KernMoves  BY <1>6, KernelSteps
  <2>. QED  BY <2>1, KernKeeps
<1>7. CASE UNCHANGED platformVars
  <2>1. UNCHANGED <<platform, option, listed, seen, left, rows, tasks, stage, kern, births, had>>
    BY <1>7 DEF platformVars, kernVars
  <2>2. KernInv'  BY <2>1 DEF ListInvs, KernInv, Live, ProcFits
  <2>3. EntriesInv'  BY <2>1 DEF ListInvs, EntriesInv, Live, ProcFits, MainOf
  <2>4. RowsInv'  BY <2>1 DEF ListInvs, RowsInv, Live, RowFits, PidOf
  <2>5. ScanInv'
    BY <2>1 DEF ListInvs, ScanInv, Listing, ListsThreads, ThreadOf, MainOf, RowKey, Done, Rowed, Keys, Threads, Shows, Hidden
  <2>6. ListInv'  BY <2>1 DEF ListInvs, ListInv
  <2>7. CountInv'  BY <2>1 DEF ListInvs, CountInv, CountFits, Processes, Mains, KernelMains, Done
  <2>8. PlatformTrue'
    BY <2>1 DEF ListInvs, PlatformTrue, RowsTrue, CountsAgree, UserProcesses, KernelProcesses, WithRow, Keys, RowKey, Shows, Hidden
  <2>. QED  BY <2>2, <2>3, <2>4, <2>5, <2>6, <2>7, <2>8 DEF ListInvs
<1>. QED  BY <1>1, <1>2, <1>3, <1>4, <1>5, <1>6, <1>7 DEF PlatformNext

\* A finished scan of any of the systems shows the kernel's processes, each in its own
\* row, and counts what it shows.
THEOREM PlatformIsTrue == PlatformSpec => []PlatformTrue
<1>1. PlatformInit => ListInvs  BY ScanInit
<1>2. ListInvs /\ [PlatformNext]_platformVars => ListInvs'  BY ListStep
<1>3. ListInvs => PlatformTrue  BY DEF ListInvs
<1>. QED  BY <1>1, <1>2, <1>3, PTL DEF PlatformSpec
=============================================================================
