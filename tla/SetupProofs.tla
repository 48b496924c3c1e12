----------------------------- MODULE SetupProofs -----------------------------
(****************************************************************************)
(* Proofs about what the user sets up, and about the files that keep it.    *)
(* AffinityPanel: for any machine whose parts form a tree, with and without *)
(* hwloc.  HeaderSetup: for any meters, modes and layouts, with columns of  *)
(* any length.  SetupPanels: for any columns, colour schemes and options.   *)
(* Settings: for any settings, any number of columns, meters and lines, and *)
(* any files of other versions and editors.                                 *)
(****************************************************************************)
EXTENDS AffinityPanel, HeaderSetup, SetupPanels, Settings, FoldFacts, SequenceTheorems, TLAPS

-----------------------------------------------------------------------------
(* Operators *)

\* A sequence made of the members of a set that is not empty has an item.
LEMMA InOrderLength ==
    ASSUME NEW S, IsFiniteSet(S), S # {}
    PROVE  InOrder(S) = [i \in 1 .. Len(InOrder(S)) |-> InOrder(S)[i]] /\ Len(InOrder(S)) \in Nat \ {0}
<1>1. Cardinality(S) \in Nat \ {0}  BY FS_CardinalityType, FS_EmptySet
<1>2. Len(InOrder(S)) = Cardinality(S)  BY <1>1 DEF InOrder
<1>. QED  BY <1>1, <1>2 DEF InOrder

\* There is an item: the whole machine is always shown, and so is each CPU of the list.
LEMMA NodesForLength ==
    ASSUME NEW topo, NEW subtrees, NEW cpus \in SUBSET AllCpus, cpus # {}
    PROVE  Len(NodesFor(topo, subtrees, cpus)) \in Nat \ {0}
<1>1. CASE topo
  <2>. DEFINE shown == {node \in Nodes : \A m \in Nodes : subtrees[m] = 2 => node \notin Below(m)}
  <2>1. Cardinality(Nodes) \in Nat /\ IsFiniteSet(Nodes) /\ 1 \in Nodes
    BY AffinityPanelAssumption, FS_CardinalityType
  <2>2. \A m \in Nodes : 1 \notin Below(m)  BY <2>1, AffinityPanelAssumption DEF Below
  <2>3. 1 \in shown /\ shown \in SUBSET Nodes  BY <2>1, <2>2
  <2>. HIDE DEF shown
  <2>4. IsFiniteSet(shown) /\ shown # {}  BY <2>1, <2>3, FS_Subset
  <2>5. Len(InOrder(shown)) \in Nat \ {0}  BY <2>4, InOrderLength
  <2>. QED  BY <1>1, <2>5 DEF NodesFor, ShownNodes, shown
<1>2. CASE ~topo
  <2>1. IsFiniteSet(cpus)  BY AffinityPanelAssumption, FS_Subset
  <2>. DEFINE sorted == InOrder(cpus)
  <2>2. sorted = [i \in 1 .. Len(sorted) |-> sorted[i]] /\ Len(sorted) \in Nat \ {0}  BY <2>1, InOrderLength
  <2>. HIDE DEF sorted
  <2>3. DOMAIN sorted = 1 .. Len(sorted)  BY <2>2
  <2>4. Len([i \in 1 .. Len(sorted) |-> CpuNode(sorted[i])]) = Len(sorted)  BY <2>2
  <2>. QED  BY <1>2, <2>2, <2>3, <2>4 DEF NodesFor, ListNodes, sorted
<1>. QED  BY <1>1, <1>2

LEMMA ItemsFacts ==
    ASSUME NEW nodes, Len(nodes) \in Nat, NEW work
    PROVE  /\ Len(AffinityPanel_update(nodes, work)) = Len(nodes)
           /\ \A i \in DOMAIN AffinityPanel_update(nodes, work) :
                 AffinityPanel_update(nodes, work)[i].value
                    = ValueOf(Topology[AffinityPanel_update(nodes, work)[i].node].cpus, work)
BY DEF AffinityPanel_update, AffinityPanel_updateItem

LEMMA MinOfTwo ==
    ASSUME NEW a \in Int, NEW b \in Int
    PROVE  FX!Min({a, b}) = IF a < b THEN a ELSE b
<1>. DEFINE m == FX!Min({a, b})
<1>1. \E x \in {a, b} : \A y \in {a, b} : x <= y  OBVIOUS
<1>2. m \in {a, b} /\ \A y \in {a, b} : m <= y  BY <1>1 DEF FX!Min
<1>. HIDE DEF m
<1>3. m = IF a < b THEN a ELSE b  BY <1>2
<1>. QED  BY <1>3 DEF m

-----------------------------------------------------------------------------
(* The affinity panel: the invariant *)

\* The items are those of the list or the tree as it is open now, made from
\* the set as it is now, and one of them is selected.
ItemsInv ==
    shownPanel =>
        /\ cpuids \in SUBSET AllCpus /\ cpuids # {}
        /\ maskItems = AffinityPanel_update(NodesFor(topoView, sub_tree, cpuids), workCpuset)
        /\ selectedItem \in 0 .. Len(maskItems) - 1

\* Until a mark is changed the set is the answer of the kernel, if htop knew
\* the CPUs when it asked.
KeptInv == shownPanel /\ untouched => workCpuset = asked

AffinityInv ==
    /\ cpusOn \in SUBSET AllCpus /\ knownOnline \in SUBSET AllCpus
    /\ ItemsInv /\ KeptInv

LEMMA InvMarksAgree == AffinityInv => MarksAgree
<1>. SUFFICES ASSUME AffinityInv, shownPanel PROVE MarksAgree  BY DEF MarksAgree
<1>. DEFINE nodes == NodesFor(topoView, sub_tree, cpuids)
<1>1. /\ cpuids \in SUBSET AllCpus /\ cpuids # {} /\ selectedItem \in 0 .. Len(maskItems) - 1
      /\ maskItems = AffinityPanel_update(nodes, workCpuset)  BY DEF AffinityInv, ItemsInv
<1>2. Len(nodes) \in Nat \ {0}  BY <1>1, NodesForLength
<1>. HIDE DEF nodes
<1>3. Len(maskItems) = Len(nodes)
      /\ \A i \in DOMAIN maskItems : maskItems[i].value = ValueOf(Topology[maskItems[i].node].cpus, workCpuset)
  BY <1>1, <1>2, ItemsFacts
<1>4. selectedItem < Len(maskItems)  BY <1>1, <1>2, <1>3
<1>. QED  BY <1>3, <1>4 DEF MarksAgree

LEMMA InitAffinityInv == AffinityInit => AffinityInv
BY DEF AffinityInit, AffinityInv, ItemsInv, KeptInv

\* Steps that leave an open panel as it is, or that close it.
LEMMA OutsideStep ==
    ASSUME AffinityInv, cpusOn' \in SUBSET AllCpus, knownOnline' \in SUBSET AllCpus,
           UNCHANGED <<topoView, sub_tree, workCpuset, maskItems, selectedItem, cpuids, untouched, asked>>,
           shownPanel' => shownPanel
    PROVE  AffinityInv'
<1>1. ItemsInv'  BY DEF AffinityInv, ItemsInv
<1>2. KeptInv'  BY DEF AffinityInv, KeptInv
<1>. QED  BY <1>1, <1>2 DEF AffinityInv

\* If all CPUs of the answer are known, opening takes over the answer.
LEMMA OpenStep ==
    ASSUME AffinityInv, OpenAffinity
    PROVE  AffinityInv'
<1>. DEFINE nodes == NodesFor(topoView', sub_tree', knownOnline)
<1>1. /\ Cardinality(knownOnline) > 1 /\ cpuids' = knownOnline /\ selectedItem' = 0
      /\ UNCHANGED <<cpusOn, allowed, knownOnline>>
      /\ workCpuset' = SetAtOpening(Answer) /\ asked' = Answer /\ untouched' = (knownOnline = cpusOn)
      /\ maskItems' = AffinityPanel_update(nodes, workCpuset')
  BY DEF OpenAffinity, kernelVars
<1>2. cpusOn \in SUBSET AllCpus /\ knownOnline \in SUBSET AllCpus  BY DEF AffinityInv
<1>3. knownOnline # {}  BY <1>1, FS_EmptySet
<1>4. Len(nodes) \in Nat \ {0}  BY <1>2, <1>3, NodesForLength
<1>5. ItemsInv'
  <2>1. Len(maskItems') = Len(nodes)
    <3>. HIDE DEF nodes
    <3>. QED  BY <1>1, <1>4, ItemsFacts
  <2>2. selectedItem' \in 0 .. Len(maskItems') - 1  BY <1>1, <1>4, <2>1
  <2>. QED  BY <1>1, <1>2, <1>3, <2>2 DEF ItemsInv
<1>6. KeptInv'
  <2>1. SUFFICES ASSUME knownOnline = cpusOn PROVE SetAtOpening(Answer) = Answer  BY <1>1 DEF KeptInv
  <2>2. Answer \subseteq knownOnline  BY <2>1 DEF Answer
  <2>. QED  BY <2>2 DEF SetAtOpening
<1>. QED  BY <1>1, <1>2, <1>5, <1>6 DEF AffinityInv

\* Whatever is marked, opened or closed, all items are made again.
LEMMA UpdatedStep ==
    ASSUME AffinityInv, shownPanel, NEW topo, NEW subtrees, NEW work, NEW keep,
           Updated(topo, subtrees, work, keep),
           untouched' => untouched /\ work = workCpuset
    PROVE  AffinityInv'
<1>. DEFINE nodes == NodesFor(topo, subtrees, cpuids)
<1>1. /\ topoView' = topo /\ sub_tree' = subtrees /\ workCpuset' = work
      /\ maskItems' = AffinityPanel_update(nodes, work)
      /\ selectedItem' = (IF keep THEN FX!Min({selectedItem, Len(nodes) - 1}) ELSE 0)
      /\ UNCHANGED <<cpusOn, knownOnline, shownPanel, cpuids, asked>>
  BY DEF Updated, kernelVars
<1>2. cpuids \in SUBSET AllCpus /\ cpuids # {} /\ selectedItem \in Int /\ selectedItem >= 0
  BY DEF AffinityInv, ItemsInv
<1>3. Len(nodes) \in Nat \ {0}  BY <1>2, NodesForLength
<1>4. maskItems' = AffinityPanel_update(NodesFor(topoView', sub_tree', cpuids'), workCpuset')  BY <1>1
<1>. HIDE DEF nodes
<1>5. Len(maskItems') = Len(nodes)  BY <1>1, <1>3, ItemsFacts
<1>6. selectedItem' \in 0 .. Len(maskItems') - 1
  <2>1. FX!Min({selectedItem, Len(nodes) - 1}) =
           IF selectedItem < Len(nodes) - 1 THEN selectedItem ELSE Len(nodes) - 1
    BY <1>2, <1>3, MinOfTwo
  <2>. QED  BY <1>1, <1>2, <1>3, <1>5, <2>1
<1>7. ItemsInv'  BY <1>1, <1>2, <1>4, <1>6 DEF ItemsInv
<1>8. KeptInv'  BY <1>1 DEF AffinityInv, KeptInv
<1>. QED  BY <1>1, <1>7, <1>8 DEF AffinityInv

LEMMA AffinityStepInv == AffinityInv /\ [AffinityNext]_affinityVars => AffinityInv'
<1>. SUFFICES ASSUME AffinityInv, [AffinityNext]_affinityVars PROVE AffinityInv'  OBVIOUS
<1>1. cpusOn \in SUBSET AllCpus /\ knownOnline \in SUBSET AllCpus  BY DEF AffinityInv
<1>2. CASE SwitchCpu
  <2>1. PICK c \in AllCpus : cpusOn' = FX!SymDiff(cpusOn, {c})  BY <1>2 DEF SwitchCpu
  <2>2. cpusOn' \in SUBSET AllCpus  BY <1>1, <2>1 DEF FX!SymDiff
  <2>. QED  BY <1>1, <1>2, <2>2, OutsideStep DEF SwitchCpu, panelVars
<1>3. CASE EndOfProcess  BY <1>1, <1>3, OutsideStep DEF EndOfProcess, panelVars
<1>4. CASE ScanCpus  BY <1>1, <1>4, OutsideStep DEF ScanCpus, kernelVars, panelVars
<1>5. CASE OpenAffinity  BY <1>5, OpenStep
<1>6. CASE MoveSelection
  <2>1. /\ shownPanel /\ selectedItem' \in 0 .. Len(maskItems) - 1
        /\ UNCHANGED <<cpusOn, knownOnline, shownPanel, cpuids, untouched, asked, topoView, sub_tree, workCpuset, maskItems>>
    BY <1>6 DEF MoveSelection, AffinityKey, kernelVars
  <2>. QED  BY <2>1 DEF AffinityInv, ItemsInv, KeptInv
<1>7. CASE ToggleMask
  <2>1. shownPanel /\ ~untouched'  BY <1>7 DEF ToggleMask, AffinityKey
  <2>2. \E work : Updated(topoView, sub_tree, work, TRUE)  BY <1>7 DEF ToggleMask
  <2>. QED  BY <2>1, <2>2, UpdatedStep
<1>8. CASE SelectAll  BY <1>8, UpdatedStep DEF SelectAll, AffinityKey
<1>9. CASE ToggleTopology  BY <1>9, UpdatedStep DEF ToggleTopology, AffinityKey
<1>10. CASE ToggleSubtree
  <2>1. shownPanel /\ untouched' = untouched  BY <1>10 DEF ToggleSubtree, AffinityKey
  <2>2. \E subtrees : Updated(topoView, subtrees, workCpuset, TRUE)  BY <1>10 DEF ToggleSubtree
  <2>. QED  BY <2>1, <2>2, UpdatedStep
<1>11. CASE CancelAffinity \/ SetAffinity
  BY <1>1, <1>11, OutsideStep DEF CancelAffinity, SetAffinity, Closed, panelVars
<1>12. CASE UNCHANGED affinityVars  BY <1>1, <1>12, OutsideStep DEF affinityVars, kernelVars, panelVars
<1>. QED  BY <1>2, <1>3, <1>4, <1>5, <1>6, <1>7, <1>8, <1>9, <1>10, <1>11, <1>12 DEF AffinityNext

\* For any machine: what the panel shows is the set it will write, and if
\* nothing was marked, writing it leaves the process the CPUs it could use.
THEOREM AffinityIsSound == AffinitySpec => AffinitySound
<1>1. AffinityInit => AffinityInv  BY InitAffinityInv
<1>2. AffinityInv /\ [AffinityNext]_affinityVars => AffinityInv'  BY AffinityStepInv
<1>3. AffinityInv => MarksAgree  BY InvMarksAgree
<1>4. AffinityInv =>
         (SetAffinity /\ exists /\ untouched /\ MaskRead(asked) = asked /\ asked \cap cpusOn # {} => allowed' = asked)
  BY DEF AffinityInv, KeptInv, SetAffinity, AffinityKey
<1>5. AffinityInv /\ [AffinityNext]_affinityVars =>
         [SetAffinity /\ exists /\ untouched /\ MaskRead(asked) = asked /\ asked \cap cpusOn # {}
             => allowed' = asked]_affinityVars
  BY <1>4
<1>. QED  BY <1>1, <1>2, <1>3, <1>5, PTL DEF AffinitySpec, AffinitySound, AffinityKept

-----------------------------------------------------------------------------
(* Sequences *)

LEMMA SwapFacts ==
    ASSUME NEW S, NEW s \in Seq(S), NEW i \in 1 .. Len(s), NEW j \in 1 .. Len(s)
    PROVE  /\ Swap(s, i, j) \in Seq(S) /\ Len(Swap(s, i, j)) = Len(s)
           /\ \A k \in 1 .. Len(s) :
                 Swap(s, i, j)[k] = IF k = j THEN s[i] ELSE IF k = i THEN s[j] ELSE s[k]
<1>. DEFINE t == [s EXCEPT ![i] = s[j]]
<1>1. s[i] \in S /\ s[j] \in S  BY ElementOfSeq
<1>2. t \in Seq(S) /\ Len(t) = Len(s) /\ \A k \in 1 .. Len(s) : t[k] = IF k = i THEN s[j] ELSE s[k]
  BY <1>1, ExceptSeq
<1>. HIDE DEF t
<1>3. /\ [t EXCEPT ![j] = s[i]] \in Seq(S) /\ Len([t EXCEPT ![j] = s[i]]) = Len(s)
      /\ \A k \in 1 .. Len(s) : [t EXCEPT ![j] = s[i]][k] = IF k = j THEN s[i] ELSE t[k]
  BY <1>1, <1>2, ExceptSeq
<1>4. Swap(s, i, j) = [t EXCEPT ![j] = s[i]]  BY DEF Swap, t
<1>. QED  BY <1>2, <1>3, <1>4

\* What a panel shows of a column.
Shown == [meter : Meter, mode : DOMAIN Modes]

LEMMA SaveFacts ==
    ASSUME NEW s \in Seq(Meter), NEW md \in [Meter -> DOMAIN Modes]
    PROVE  /\ Save(s, md) \in Seq(Shown) /\ Len(Save(s, md)) = Len(s)
           /\ \A i \in 1 .. Len(s) : Save(s, md)[i] = Item(s[i], md)
<1>1. Len(s) \in Nat /\ DOMAIN s = 1 .. Len(s) /\ \A i \in 1 .. Len(s) : s[i] \in Meter
  BY ElementOfSeq, LenProperties
<1>2. \A i \in 1 .. Len(s) : Item(s[i], md) \in Shown  BY <1>1 DEF Item, Shown
<1>3. Save(s, md) = [i \in 1 .. Len(s) |-> Item(s[i], md)]  BY <1>1 DEF Save, Item
<1>. QED  BY <1>1, <1>2, <1>3

\* The meters of a column, and that each is there once.
Els(s) == {s[i] : i \in DOMAIN s}
Once(s) == \A i, j \in DOMAIN s : s[i] = s[j] => i = j

LEMMA RemoveOnce ==
    ASSUME NEW s \in Seq(Meter), Once(s), NEW i \in 1 .. Len(s)
    PROVE  Once(SX!RemoveAt(s, i)) /\ Els(SX!RemoveAt(s, i)) = Els(s) \ {s[i]}
<1>. DEFINE t == SX!RemoveAt(s, i)
<1>1. /\ t \in Seq(Meter) /\ Len(t) = Len(s) - 1
      /\ \A j \in 1 .. Len(s) - 1 : t[j] = IF j < i THEN s[j] ELSE s[j + 1]
  BY RemoveFacts
<1>. HIDE DEF t
<1>2. Len(s) \in Nat /\ DOMAIN s = 1 .. Len(s) /\ DOMAIN t = 1 .. Len(s) - 1  BY <1>1, LenProperties
<1>3. \A j \in DOMAIN t : \E k \in DOMAIN s : k # i /\ t[j] = s[k] /\ k = IF j < i THEN j ELSE j + 1
  BY <1>1, <1>2
<1>4. \A k \in DOMAIN s : k # i => \E j \in DOMAIN t : t[j] = s[k]
  <2>. SUFFICES ASSUME NEW k \in DOMAIN s, k # i PROVE \E j \in DOMAIN t : t[j] = s[k]  OBVIOUS
  <2>1. CASE k < i
    <3>1. k \in 1 .. Len(s) - 1  BY <1>2, <2>1
    <3>. QED  BY <1>1, <1>2, <2>1, <3>1
  <2>2. CASE k > i
    <3>1. PICK j \in 1 .. Len(s) - 1 : j = k - 1  BY <1>2, <2>2
    <3>2. ~(j < i) /\ j + 1 = k  BY <1>2, <2>2, <3>1
    <3>3. t[j] = s[k]  BY <1>1, <3>1, <3>2
    <3>. QED  BY <1>2, <3>3
  <2>. QED  BY <1>2, <2>1, <2>2
<1>5. Once(t)
  <2>. SUFFICES ASSUME NEW j \in DOMAIN t, NEW k \in DOMAIN t, t[j] = t[k] PROVE j = k  BY DEF Once
  <2>1. PICK a \in DOMAIN s : t[j] = s[a] /\ a = IF j < i THEN j ELSE j + 1  BY <1>3
  <2>2. PICK b \in DOMAIN s : t[k] = s[b] /\ b = IF k < i THEN k ELSE k + 1  BY <1>3
  <2>3. a = b  BY <2>1, <2>2 DEF Once
  <2>. QED  BY <1>2, <2>1, <2>2, <2>3
<1>6. Els(t) \subseteq Els(s) \ {s[i]}
  <2>. SUFFICES ASSUME NEW j \in DOMAIN t PROVE t[j] \in Els(s) \ {s[i]}  BY DEF Els
  <2>1. PICK k \in DOMAIN s : k # i /\ t[j] = s[k]  BY <1>3
  <2>2. s[k] # s[i]  BY <1>2, <2>1 DEF Once
  <2>. QED  BY <2>1, <2>2 DEF Els
<1>7. Els(s) \ {s[i]} \subseteq Els(t)
  <2>. SUFFICES ASSUME NEW k \in DOMAIN s, s[k] # s[i] PROVE s[k] \in Els(t)  BY DEF Els
  <2>1. PICK j \in DOMAIN t : t[j] = s[k]  BY <1>4
  <2>. QED  BY <2>1 DEF Els
<1>. QED  BY <1>5, <1>6, <1>7 DEF t

LEMMA InsertOnce ==
    ASSUME NEW s \in Seq(Meter), Once(s), NEW i \in 1 .. Len(s) + 1, NEW m \in Meter \ Els(s)
    PROVE  Once(SX!InsertAt(s, i, m)) /\ Els(SX!InsertAt(s, i, m)) = Els(s) \cup {m}
<1>. DEFINE t == SX!InsertAt(s, i, m)
<1>1. /\ t \in Seq(Meter) /\ Len(t) = Len(s) + 1
      /\ \A j \in 1 .. Len(s) + 1 : t[j] = IF j < i THEN s[j] ELSE IF j = i THEN m ELSE s[j - 1]
  <2>1. m \in Meter  OBVIOUS
  <2>. QED  BY <2>1, InsertFacts, SMTT(60)
<1>. HIDE DEF t
<1>2. Len(s) \in Nat /\ DOMAIN s = 1 .. Len(s) /\ DOMAIN t = 1 .. Len(s) + 1  BY <1>1, LenProperties
<1>3. \A j \in DOMAIN t : j # i => \E k \in DOMAIN s : t[j] = s[k] /\ k = IF j < i THEN j ELSE j - 1
  <2>. SUFFICES ASSUME NEW j \in DOMAIN t, j # i
                PROVE  \E k \in DOMAIN s : t[j] = s[k] /\ k = IF j < i THEN j ELSE j - 1
    OBVIOUS
  <2>1. CASE j < i
    <3>1. j \in DOMAIN s  BY <1>2, <2>1
    <3>. QED  BY <1>1, <1>2, <2>1, <3>1
  <2>2. CASE j > i
    <3>1. PICK k \in DOMAIN s : k = j - 1  BY <1>2, <2>2
    <3>2. t[j] = s[j - 1]  BY <1>1, <1>2, <2>2
    <3>. QED  BY <1>2, <2>2, <3>1, <3>2
  <2>. QED  BY <1>2, <2>1, <2>2
<1>4. i \in DOMAIN t /\ t[i] = m  BY <1>1, <1>2
<1>5. \A k \in DOMAIN s : \E j \in DOMAIN t : t[j] = s[k]
  <2>. SUFFICES ASSUME NEW k \in DOMAIN s PROVE \E j \in DOMAIN t : t[j] = s[k]  OBVIOUS
  <2>1. CASE k < i
    <3>1. k \in DOMAIN t  BY <1>2
    <3>. QED  BY <1>1, <1>2, <2>1, <3>1
  <2>2. CASE k >= i
    <3>1. PICK j \in DOMAIN t : j = k + 1  BY <1>2
    <3>2. ~(j < i) /\ j # i /\ j - 1 = k  BY <1>2, <2>2, <3>1
    <3>3. t[j] = s[j - 1]  BY <1>1, <1>2, <3>2
    <3>. QED  BY <3>2, <3>3
  <2>. QED  BY <1>2, <2>1, <2>2
<1>6. \A k \in DOMAIN s : s[k] # m  BY DEF Els
<1>7. Once(t)
  <2>. SUFFICES ASSUME NEW j \in DOMAIN t, NEW k \in DOMAIN t, t[j] = t[k] PROVE j = k  BY DEF Once
  <2>1. CASE j = i  BY <1>3, <1>4, <1>6, <2>1
  <2>2. CASE k = i  BY <1>3, <1>4, <1>6, <2>2
  <2>3. CASE j # i /\ k # i
    <3>1. PICK a \in DOMAIN s : t[j] = s[a] /\ a = IF j < i THEN j ELSE j - 1  BY <1>3, <2>3
    <3>2. PICK b \in DOMAIN s : t[k] = s[b] /\ b = IF k < i THEN k ELSE k - 1  BY <1>3, <2>3
    <3>3. a = b  BY <3>1, <3>2 DEF Once
    <3>. QED  BY <1>2, <2>3, <3>1, <3>2, <3>3
  <2>. QED  BY <2>1, <2>2, <2>3
<1>8. Els(t) \subseteq Els(s) \cup {m}  BY <1>3, <1>4 DEF Els
<1>9. Els(s) \cup {m} \subseteq Els(t)
  <2>1. m \in Els(t)  BY <1>4 DEF Els
  <2>2. Els(s) \subseteq Els(t)  BY <1>5 DEF Els
  <2>. QED  BY <2>1, <2>2
<1>. QED  BY <1>7, <1>8, <1>9 DEF t

LEMMA AppendOnce ==
    ASSUME NEW s \in Seq(Meter), Once(s), NEW m \in Meter \ Els(s)
    PROVE  Once(Append(s, m)) /\ Els(Append(s, m)) = Els(s) \cup {m}
<1>1. /\ Append(s, m) \in Seq(Meter) /\ Len(Append(s, m)) = Len(s) + 1
      /\ \A i \in 1 .. Len(s) : Append(s, m)[i] = s[i]
      /\ Append(s, m)[Len(s) + 1] = m
  BY AppendProperties
<1>. DEFINE t == Append(s, m)
<1>2. Len(s) \in Nat /\ DOMAIN s = 1 .. Len(s) /\ DOMAIN t = 1 .. Len(s) + 1  BY <1>1, LenProperties
<1>. HIDE DEF t
<1>3. t[Len(s) + 1] = m /\ \A i \in DOMAIN s : i \in DOMAIN t /\ t[i] = s[i] /\ s[i] # m
  BY <1>1, <1>2 DEF t, Els
<1>4. \A i \in DOMAIN t : i \in DOMAIN s \/ i = Len(s) + 1  BY <1>2
<1>5. Len(s) + 1 \in DOMAIN t  BY <1>2
<1>6. Once(t)  BY <1>3, <1>4 DEF Once
<1>7. Els(t) \subseteq Els(s) \cup {m}  BY <1>3, <1>4 DEF Els
<1>8. Els(s) \subseteq Els(t)  BY <1>3 DEF Els
<1>9. m \in Els(t)  BY <1>3, <1>5 DEF Els
<1>. QED  BY <1>6, <1>7, <1>8, <1>9 DEF t

LEMMA SwapOnce ==
    ASSUME NEW s \in Seq(Meter), Once(s), NEW i \in 1 .. Len(s), NEW j \in 1 .. Len(s)
    PROVE  Once(Swap(s, i, j)) /\ Els(Swap(s, i, j)) = Els(s)
<1>. DEFINE t == Swap(s, i, j)
<1>1. /\ t \in Seq(Meter) /\ Len(t) = Len(s)
      /\ \A k \in 1 .. Len(s) : t[k] = IF k = j THEN s[i] ELSE IF k = i THEN s[j] ELSE s[k]
  BY SwapFacts
<1>. HIDE DEF t
<1>2. DOMAIN s = 1 .. Len(s) /\ DOMAIN t = 1 .. Len(s)  BY <1>1, LenProperties
<1>3. \A k \in DOMAIN t : t[k] = s[IF k = j THEN i ELSE IF k = i THEN j ELSE k]  BY <1>1, <1>2
<1>4. Once(t)  BY <1>1, <1>2 DEF Once
<1>5. Els(t) \subseteq Els(s)  BY <1>1, <1>2 DEF Els
<1>6. t[j] = s[i] /\ t[i] = s[j] /\ \A k \in 1 .. Len(s) : k # i /\ k # j => t[k] = s[k]
  BY <1>1
<1>7. \A k \in DOMAIN s : \E l \in DOMAIN t : t[l] = s[k]  BY <1>2, <1>6
<1>8. Els(s) \subseteq Els(t)  BY <1>7 DEF Els
<1>. QED  BY <1>4, <1>5, <1>8 DEF t

\* What is done to a column and to the items of its panel alike.
LEMMA SaveRemove ==
    ASSUME NEW s \in Seq(Meter), NEW md \in [Meter -> DOMAIN Modes], NEW i \in 1 .. Len(s)
    PROVE  Save(SX!RemoveAt(s, i), md) = SX!RemoveAt(Save(s, md), i)
<1>. DEFINE v == Save(s, md)
            t == SX!RemoveAt(s, i)
            w == SX!RemoveAt(v, i)
            u == Save(t, md)
<1>1. v \in Seq(Shown) /\ Len(v) = Len(s) /\ \A j \in 1 .. Len(s) : v[j] = Item(s[j], md)  BY SaveFacts
<1>2. Len(s) \in Nat  BY LenProperties
<1>. HIDE DEF v
<1>3. /\ t \in Seq(Meter) /\ Len(t) = Len(s) - 1
      /\ \A j \in 1 .. Len(s) - 1 : t[j] = IF j < i THEN s[j] ELSE s[j + 1]
  BY RemoveFacts
<1>4. /\ w \in Seq(Shown) /\ Len(w) = Len(s) - 1
      /\ \A j \in 1 .. Len(s) - 1 : w[j] = IF j < i THEN v[j] ELSE v[j + 1]
  BY <1>1, RemoveFacts
<1>. HIDE DEF t, w
<1>5. u \in Seq(Shown) /\ Len(u) = Len(t) /\ \A j \in 1 .. Len(t) : u[j] = Item(t[j], md)
  BY <1>3, SaveFacts
<1>. HIDE DEF u
<1>6. ASSUME NEW j \in 1 .. Len(u) PROVE u[j] = w[j]
  <2>1. PICK k \in 1 .. Len(s) : k = IF j < i THEN j ELSE j + 1  BY <1>2, <1>3, <1>5
  <2>2. t[j] = s[k] /\ w[j] = v[k]  BY <1>3, <1>4, <1>5, <2>1
  <2>. QED  BY <1>1, <1>3, <1>5, <2>2
<1>7. u = w  BY <1>3, <1>4, <1>5, <1>6, SeqEqual
<1>. QED  BY <1>7 DEF u, w, t, v

LEMMA SaveInsert ==
    ASSUME NEW s \in Seq(Meter), NEW md \in [Meter -> DOMAIN Modes], NEW i \in 1 .. Len(s) + 1,
           NEW m \in Meter
    PROVE  Save(SX!InsertAt(s, i, m), md) = SX!InsertAt(Save(s, md), i, Item(m, md))
<1>. DEFINE v == Save(s, md)
            t == SX!InsertAt(s, i, m)
            x == Item(m, md)
            w == SX!InsertAt(v, i, x)
            u == Save(t, md)
<1>1. v \in Seq(Shown) /\ Len(v) = Len(s) /\ \A j \in 1 .. Len(s) : v[j] = Item(s[j], md)  BY SaveFacts
<1>2. Len(s) \in Nat  BY LenProperties
<1>3. x \in Shown  BY DEF Item, Shown
<1>. HIDE DEF v
<1>4. /\ t \in Seq(Meter) /\ Len(t) = Len(s) + 1
      /\ \A j \in 1 .. Len(s) + 1 : t[j] = IF j < i THEN s[j] ELSE IF j = i THEN m ELSE s[j - 1]
  BY InsertFacts
<1>. HIDE DEF x
<1>5. /\ w \in Seq(Shown) /\ Len(w) = Len(s) + 1
      /\ \A j \in 1 .. Len(s) + 1 : w[j] = IF j < i THEN v[j] ELSE IF j = i THEN x ELSE v[j - 1]
  BY <1>1, <1>3, InsertFacts
<1>. HIDE DEF t, w
<1>6. u \in Seq(Shown) /\ Len(u) = Len(t) /\ \A j \in 1 .. Len(t) : u[j] = Item(t[j], md)
  BY <1>4, SaveFacts
<1>. HIDE DEF u
<1>7. ASSUME NEW j \in 1 .. Len(u) PROVE u[j] = w[j]
  <2>1. CASE j = i  BY <1>4, <1>5, <1>6, <2>1 DEF x
  <2>2. CASE j # i
    <3>1. PICK k \in 1 .. Len(s) : k = IF j < i THEN j ELSE j - 1  BY <1>2, <1>4, <1>6, <2>2
    <3>2. t[j] = s[k] /\ w[j] = v[k]  BY <1>4, <1>5, <1>6, <2>2, <3>1
    <3>. QED  BY <1>1, <1>4, <1>6, <3>2
  <2>. QED  BY <2>1, <2>2
<1>8. u = w  BY <1>4, <1>5, <1>6, <1>7, SeqEqual
<1>. QED  BY <1>8 DEF u, w, t, v, x

LEMMA SaveAppend ==
    ASSUME NEW s \in Seq(Meter), NEW md \in [Meter -> DOMAIN Modes], NEW m \in Meter
    PROVE  Save(Append(s, m), md) = Append(Save(s, md), Item(m, md))
<1>. DEFINE v == Save(s, md)
            t == Append(s, m)
            x == Item(m, md)
            w == Append(v, x)
            u == Save(t, md)
<1>1. v \in Seq(Shown) /\ Len(v) = Len(s) /\ \A j \in 1 .. Len(s) : v[j] = Item(s[j], md)  BY SaveFacts
<1>2. Len(s) \in Nat  BY LenProperties
<1>3. x \in Shown  BY DEF Item, Shown
<1>. HIDE DEF v
<1>4. t \in Seq(Meter) /\ Len(t) = Len(s) + 1 /\ (\A j \in 1 .. Len(s) : t[j] = s[j]) /\ t[Len(s) + 1] = m
  BY AppendProperties
<1>. HIDE DEF x
<1>5. w \in Seq(Shown) /\ Len(w) = Len(v) + 1 /\ (\A j \in 1 .. Len(v) : w[j] = v[j]) /\ w[Len(v) + 1] = x
  BY <1>1, <1>3, AppendProperties
<1>. HIDE DEF t, w
<1>6. u \in Seq(Shown) /\ Len(u) = Len(t) /\ \A j \in 1 .. Len(t) : u[j] = Item(t[j], md)
  BY <1>4, SaveFacts
<1>. HIDE DEF u
<1>7. ASSUME NEW j \in 1 .. Len(u) PROVE u[j] = w[j]
  <2>1. j \in 1 .. Len(s) \/ j = Len(s) + 1  BY <1>2, <1>4, <1>6
  <2>2. CASE j = Len(s) + 1  BY <1>1, <1>4, <1>5, <1>6, <2>2 DEF x
  <2>3. CASE j \in 1 .. Len(s)  BY <1>1, <1>4, <1>5, <1>6, <2>3
  <2>. QED  BY <2>1, <2>2, <2>3
<1>8. u = w  BY <1>1, <1>4, <1>5, <1>6, <1>7, SeqEqual
<1>. QED  BY <1>8 DEF u, w, t, v, x

LEMMA SaveSwap ==
    ASSUME NEW s \in Seq(Meter), NEW md \in [Meter -> DOMAIN Modes],
           NEW i \in 1 .. Len(s), NEW j \in 1 .. Len(s)
    PROVE  Save(Swap(s, i, j), md) = Swap(Save(s, md), i, j)
<1>. DEFINE v == Save(s, md)
            t == Swap(s, i, j)
            w == Swap(v, i, j)
            u == Save(t, md)
<1>1. v \in Seq(Shown) /\ Len(v) = Len(s) /\ \A k \in 1 .. Len(s) : v[k] = Item(s[k], md)  BY SaveFacts
<1>. HIDE DEF v
<1>2. /\ t \in Seq(Meter) /\ Len(t) = Len(s)
      /\ \A k \in 1 .. Len(s) : t[k] = IF k = j THEN s[i] ELSE IF k = i THEN s[j] ELSE s[k]
  BY SwapFacts
<1>3. /\ w \in Seq(Shown) /\ Len(w) = Len(s)
      /\ \A k \in 1 .. Len(s) : w[k] = IF k = j THEN v[i] ELSE IF k = i THEN v[j] ELSE v[k]
  BY <1>1, SwapFacts
<1>. HIDE DEF t, w
<1>4. u \in Seq(Shown) /\ Len(u) = Len(t) /\ \A k \in 1 .. Len(t) : u[k] = Item(t[k], md)
  BY <1>2, SaveFacts
<1>. HIDE DEF u
<1>5. \A k \in 1 .. Len(u) : u[k] = w[k]  BY <1>1, <1>2, <1>3, <1>4
<1>6. u = w  BY <1>2, <1>3, <1>4, <1>5, SeqEqual
<1>. QED  BY <1>6 DEF u, w, t, v

\* Another style shows only in the item of the meter that has it.
LEMMA SaveOther ==
    ASSUME NEW s \in Seq(Meter), NEW md \in [Meter -> DOMAIN Modes], NEW m, m \notin Els(s), NEW x
    PROVE  Save(s, [md EXCEPT ![m] = x]) = Save(s, md)
<1>1. \A i \in DOMAIN s : s[i] \in Meter /\ s[i] # m  BY ElementOfSeq, LenProperties DEF Els
<1>. QED  BY <1>1 DEF Save

-----------------------------------------------------------------------------
(* The columns *)

ColumnsOK(cols) == cols \in Seq(Seq(Meter)) /\ Len(cols) \in Layouts /\ EachOnce(cols)

Apart(cols) == \A c, d \in DOMAIN cols : c # d => Els(cols[c]) \cap Els(cols[d]) = {}

LEMMA OnceByColumn ==
    ASSUME NEW cols
    PROVE  EachOnce(cols) <=> (\A c \in DOMAIN cols : Once(cols[c])) /\ Apart(cols)
<1>1. ASSUME EachOnce(cols) PROVE (\A c \in DOMAIN cols : Once(cols[c])) /\ Apart(cols)
  BY <1>1 DEF EachOnce, Once, Apart, Els
<1>2. ASSUME \A c \in DOMAIN cols : Once(cols[c]), Apart(cols) PROVE EachOnce(cols)
  <2>. SUFFICES ASSUME NEW c \in DOMAIN cols, NEW d \in DOMAIN cols, NEW i \in DOMAIN cols[c],
                       NEW j \in DOMAIN cols[d], cols[c][i] = cols[d][j]
                PROVE  c = d /\ i = j
    BY DEF EachOnce
  <2>1. cols[c][i] \in Els(cols[c]) \cap Els(cols[d])  BY DEF Els
  <2>2. c = d  BY <1>2, <2>1 DEF Apart
  <2>. QED  BY <1>2, <2>2 DEF Once
<1>. QED  BY <1>1, <1>2

LEMMA MetersByColumn ==
    ASSUME NEW cols, NEW m
    PROVE  m \in MetersOf(cols) <=> \E c \in DOMAIN cols : m \in Els(cols[c])
BY DEF MetersOf, Els

LEMMA ColumnsFacts ==
    ASSUME NEW cols, ColumnsOK(cols)
    PROVE  /\ Len(cols) \in Nat \ {0} /\ DOMAIN cols = 1 .. Len(cols)
           /\ \A c \in DOMAIN cols : cols[c] \in Seq(Meter) /\ Once(cols[c]) /\ Els(cols[c]) \subseteq Meter
           /\ Apart(cols)
<1>1. \A c \in 1 .. Len(cols) : cols[c] \in Seq(Meter)  BY ElementOfSeq DEF ColumnsOK
<1>2. Len(cols) \in Nat \ {0} /\ DOMAIN cols = 1 .. Len(cols)  BY HeaderAssumption, LenProperties DEF ColumnsOK
<1>3. \A c \in 1 .. Len(cols) : Els(cols[c]) \subseteq Meter
  <2>. SUFFICES ASSUME NEW c \in 1 .. Len(cols), NEW i \in DOMAIN cols[c] PROVE cols[c][i] \in Meter  BY DEF Els
  <2>. QED  BY <1>1, ElementOfSeq, LenProperties
<1>. QED  BY <1>1, <1>2, <1>3, OnceByColumn DEF ColumnsOK

\* A column is replaced by one with no meter of another column.
LEMMA ReplaceColumn ==
    ASSUME NEW cols, ColumnsOK(cols), NEW c \in DOMAIN cols, NEW s \in Seq(Meter), Once(s),
           \A m \in Els(s) : m \in Els(cols[c]) \/ m \notin MetersOf(cols)
    PROVE  LET cols2 == [cols EXCEPT ![c] = s]
           IN /\ ColumnsOK(cols2) /\ Len(cols2) = Len(cols) /\ DOMAIN cols2 = DOMAIN cols
              /\ \A d \in DOMAIN cols : cols2[d] = IF d = c THEN s ELSE cols[d]
              /\ MetersOf(cols2) = (MetersOf(cols) \ Els(cols[c])) \cup Els(s)
<1>. DEFINE cols2 == [cols EXCEPT ![c] = s]
<1>1. /\ Len(cols) \in Nat \ {0} /\ DOMAIN cols = 1 .. Len(cols)
      /\ \A d \in DOMAIN cols : cols[d] \in Seq(Meter) /\ Once(cols[d]) /\ Els(cols[d]) \subseteq Meter
      /\ Apart(cols)
  BY ColumnsFacts
<1>2. /\ cols2 \in Seq(Seq(Meter)) /\ Len(cols2) = Len(cols) /\ DOMAIN cols2 = DOMAIN cols
      /\ \A d \in DOMAIN cols : cols2[d] = IF d = c THEN s ELSE cols[d]
  BY <1>1, ExceptSeq DEF ColumnsOK
<1>. HIDE DEF cols2
<1>3. \A d \in DOMAIN cols2 : Once(cols2[d])  BY <1>1, <1>2
<1>4. \A d \in DOMAIN cols : d # c => Els(s) \cap Els(cols[d]) = {}
  BY <1>1, MetersByColumn DEF Apart
<1>5. Apart(cols2)
  <2>. SUFFICES ASSUME NEW d \in DOMAIN cols, NEW e \in DOMAIN cols, d # e
                PROVE  Els(cols2[d]) \cap Els(cols2[e]) = {}
    BY <1>2 DEF Apart
  <2>1. CASE d = c  BY <1>2, <1>4, <2>1
  <2>2. CASE e = c  BY <1>2, <1>4, <2>2
  <2>3. CASE d # c /\ e # c
    <3>1. cols2[d] = cols[d] /\ cols2[e] = cols[e]  BY <1>2, <2>3
    <3>. QED  BY <1>1, <3>1 DEF Apart
  <2>. QED  BY <2>1, <2>2, <2>3
<1>6. ColumnsOK(cols2)  BY <1>2, <1>3, <1>5, OnceByColumn DEF ColumnsOK
<1>7. ASSUME NEW m PROVE m \in MetersOf(cols2) <=> m \in (MetersOf(cols) \ Els(cols[c])) \cup Els(s)
  <2>1. m \in MetersOf(cols2) <=> \E d \in DOMAIN cols : m \in Els(cols2[d])  BY <1>2, MetersByColumn
  <2>2. m \in MetersOf(cols) <=> \E d \in DOMAIN cols : m \in Els(cols[d])  BY MetersByColumn
  <2>3. m \in Els(cols[c]) => \A d \in DOMAIN cols : d # c => m \notin Els(cols[d])  BY <1>1 DEF Apart
  <2>. QED  BY <1>2, <2>1, <2>2, <2>3
<1>8. MetersOf(cols2) = (MetersOf(cols) \ Els(cols[c])) \cup Els(s)  BY <1>7
<1>. QED  BY <1>2, <1>6, <1>8 DEF cols2

LEMMA ReverseOnce ==
    ASSUME NEW s \in Seq(Meter), Once(s)
    PROVE  SX!Reverse(s) \in Seq(Meter) /\ Once(SX!Reverse(s)) /\ Els(SX!Reverse(s)) = Els(s)
<1>. DEFINE t == SX!Reverse(s)
<1>1. Len(s) \in Nat /\ DOMAIN s = 1 .. Len(s) /\ \A i \in DOMAIN s : s[i] \in Meter
  BY ElementOfSeq, LenProperties
<1>2. \A i \in 1 .. Len(s) : (Len(s) - i) + 1 \in DOMAIN s  BY <1>1
<1>3. t = [i \in 1 .. Len(s) |-> s[(Len(s) - i) + 1]]  BY DEF SX!Reverse
<1>4. t \in Seq(Meter) /\ DOMAIN t = 1 .. Len(s)  BY <1>1, <1>2, <1>3
<1>5. \A i \in DOMAIN t : t[i] = s[(Len(s) - i) + 1]  BY <1>3
<1>. HIDE DEF t
<1>6. Once(t)
  <2>. SUFFICES ASSUME NEW i \in DOMAIN t, NEW j \in DOMAIN t, t[i] = t[j] PROVE i = j  BY DEF Once
  <2>1. (Len(s) - i) + 1 = (Len(s) - j) + 1  BY <1>2, <1>4, <1>5 DEF Once
  <2>. QED  BY <1>1, <1>4, <2>1
<1>7. Els(t) \subseteq Els(s)
  <2>. SUFFICES ASSUME NEW i \in DOMAIN t PROVE t[i] \in Els(s)  BY DEF Els
  <2>. QED  BY <1>2, <1>4, <1>5 DEF Els
<1>8. Els(s) \subseteq Els(t)
  <2>. SUFFICES ASSUME NEW i \in DOMAIN s PROVE s[i] \in Els(t)  BY DEF Els
  <2>1. PICK j \in DOMAIN t : j = (Len(s) - i) + 1  BY <1>1, <1>4
  <2>2. (Len(s) - j) + 1 = i  BY <1>1, <2>1
  <2>3. t[j] = s[i]  BY <1>5, <2>2
  <2>. QED  BY <2>3 DEF Els
<1>. QED  BY <1>4, <1>6, <1>7, <1>8 DEF t

LEMMA ConcatOnce ==
    ASSUME NEW s \in Seq(Meter), Once(s), NEW t \in Seq(Meter), Once(t), Els(s) \cap Els(t) = {}
    PROVE  s \o t \in Seq(Meter) /\ Once(s \o t) /\ Els(s \o t) = Els(s) \cup Els(t)
<1>. DEFINE u == s \o t
<1>1. /\ u \in Seq(Meter) /\ Len(u) = Len(s) + Len(t)
      /\ \A i \in 1 .. Len(s) + Len(t) : u[i] = IF i <= Len(s) THEN s[i] ELSE t[i - Len(s)]
  BY ConcatProperties
<1>2. /\ Len(s) \in Nat /\ DOMAIN s = 1 .. Len(s) /\ Len(t) \in Nat /\ DOMAIN t = 1 .. Len(t)
      /\ DOMAIN u = 1 .. Len(s) + Len(t)
  BY <1>1, LenProperties
<1>. HIDE DEF u
<1>3. \A i \in DOMAIN u : \/ i \in DOMAIN s /\ u[i] = s[i]
                          \/ \E j \in DOMAIN t : i = Len(s) + j /\ u[i] = t[j]
  <2>. SUFFICES ASSUME NEW i \in DOMAIN u, i \notin DOMAIN s
                PROVE  \E j \in DOMAIN t : i = Len(s) + j /\ u[i] = t[j]
    BY <1>1, <1>2
  <2>1. PICK j \in DOMAIN t : j = i - Len(s)  BY <1>2
  <2>2. u[i] = t[i - Len(s)] /\ i = Len(s) + j  BY <1>1, <1>2, <2>1
  <2>. QED  BY <2>1, <2>2
<1>4. \A i \in DOMAIN s : i \in DOMAIN u /\ u[i] = s[i]  BY <1>1, <1>2
<1>5. \A j \in DOMAIN t : \E i \in DOMAIN u : u[i] = t[j]
  <2>. SUFFICES ASSUME NEW j \in DOMAIN t PROVE \E i \in DOMAIN u : u[i] = t[j]  OBVIOUS
  <2>1. PICK i \in DOMAIN u : i = Len(s) + j  BY <1>2
  <2>2. ~(i <= Len(s)) /\ i - Len(s) = j  BY <1>2, <2>1
  <2>3. u[i] = t[i - Len(s)]  BY <1>1, <1>2, <2>2
  <2>. QED  BY <2>2, <2>3
<1>6. Once(u)
  <2>. SUFFICES ASSUME NEW i \in DOMAIN u, NEW j \in DOMAIN u, u[i] = u[j] PROVE i = j  BY DEF Once
  <2>1. CASE i \in DOMAIN s /\ u[i] = s[i] /\ j \in DOMAIN s /\ u[j] = s[j]  BY <2>1 DEF Once
  <2>2. ASSUME NEW k \in DOMAIN s, NEW l \in DOMAIN t, s[k] = t[l] PROVE FALSE  BY <2>2 DEF Els
  <2>3. ASSUME NEW k \in DOMAIN t, NEW l \in DOMAIN t, u[i] = t[k], u[j] = t[l] PROVE k = l
    BY <2>3 DEF Once
  <2>. QED  BY <1>3, <2>1, <2>2, <2>3
<1>7. Els(u) \subseteq Els(s) \cup Els(t)
  <2>. SUFFICES ASSUME NEW i \in DOMAIN u PROVE u[i] \in Els(s) \cup Els(t)  BY DEF Els
  <2>. QED  BY <1>3 DEF Els
<1>8. Els(s) \subseteq Els(u)  BY <1>4 DEF Els
<1>9. Els(t) \subseteq Els(u)
  <2>. SUFFICES ASSUME NEW j \in DOMAIN t PROVE t[j] \in Els(u)  BY DEF Els
  <2>1. PICK i \in DOMAIN u : u[i] = t[j]  BY <1>5
  <2>. QED  BY <2>1 DEF Els
<1>. QED  BY <1>1, <1>6, <1>7, <1>8, <1>9 DEF u

\* The element that FoldLeft takes last, as Max is opaque.
Last(s) == SX!Max(s)

LEMMA LastFacts ==
    ASSUME NEW k \in Nat, NEW s \in SUBSET (1 .. k), s # {}
    PROVE  Last(s) \in s
<1>1. s \in SUBSET Int /\ k \in Int /\ \A x \in s : x <= k  OBVIOUS
<1>2. \E x \in s : \A y \in s : x >= y  BY <1>1, GreatestExists
<1>. QED  BY <1>2 DEF Last, SX!Max

\* Columns that go away are added to the last one that stays.
LastColumn(cols, k) ==
    SX!FoldLeft(LAMBDA acc, d : acc \o SX!Reverse(cols[d]), cols[k], [i \in 1..(Len(cols) - k) |-> k + i])

LEMMA LayoutFold ==
    ASSUME NEW cols, ColumnsOK(cols), NEW k \in 1 .. Len(cols)
    PROVE  /\ LastColumn(cols, k) \in Seq(Meter) /\ Once(LastColumn(cols, k))
           /\ Els(LastColumn(cols, k)) = UNION {Els(cols[c]) : c \in k .. Len(cols)}
           /\ k = Len(cols) => LastColumn(cols, k) = cols[k]
<1>. DEFINE len == Len(cols) - k
            at == [i \in 1..len |-> k + i]
            I == 1 .. len
            V == Seq(Meter)
            pick == [s \in SUBSET I |-> Last(s)]
            op == [i \in I |-> [acc \in V |-> acc \o SX!Reverse(cols[k + i])]]
            Iter(g) == g = [s \in SUBSET DOMAIN at |->
                               IF s = {} THEN cols[k] ELSE g[s \ {Last(s)}] \o SX!Reverse(cols[at[Last(s)]])]
            last == LastColumn(cols, k)
<1>1. /\ Len(cols) \in Nat \ {0} /\ DOMAIN cols = 1 .. Len(cols)
      /\ \A d \in DOMAIN cols : cols[d] \in Seq(Meter) /\ Once(cols[d]) /\ Els(cols[d]) \subseteq Meter
      /\ Apart(cols)
  BY ColumnsFacts
<1>2. len \in Nat /\ DOMAIN at = I /\ \A i \in I : at[i] = k + i /\ k + i \in DOMAIN cols  BY <1>1
<1>3. last = (CHOOSE h : Iter(h))[DOMAIN at]  BY DEF LastColumn, SX!FoldLeft, SX!MapThenFoldSet, Last
<1>. HIDE DEF last, pick, op, len, at, V, I
<1>4. last = (CHOOSE h : Iter(h))[I]  BY <1>2, <1>3
<1>5. \A s \in SUBSET I : s # {} => Last(s) \in s /\ pick[s] = Last(s)  BY <1>2, LastFacts DEF pick, I
<1>6. \A c \in DOMAIN cols : SX!Reverse(cols[c]) \in Seq(Meter) /\ Once(SX!Reverse(cols[c]))
                             /\ Els(SX!Reverse(cols[c])) = Els(cols[c])
  BY <1>1, ReverseOnce
<1>7. op \in [I -> [V -> V]] /\ \A i \in I : \A acc \in V : op[i][acc] = acc \o SX!Reverse(cols[k + i])
  BY <1>2, <1>6 DEF op, V
<1>8. cols[k] \in V /\ IsFiniteSet(I)
  <2>1. cols[k] \in V  BY <1>1 DEF V
  <2>2. len \in Int  BY <1>2
  <2>. QED  BY <2>1, <2>2, FS_Interval DEF I
<1>9. PICK g \in [SUBSET I -> V] : Folding(g, I, cols[k], op, pick)
  <2>1. IsPick(pick, I)  BY <1>5 DEF IsPick
  <2>2. op \in [I -> [V -> V]]  BY <1>7
  <2>. DEFINE base == cols[k]
  <2>3. base \in V /\ IsFiniteSet(I)  BY <1>8
  <2>. HIDE DEF base
  <2>4. \E g \in [SUBSET I -> V] : Folding(g, I, base, op, pick)  BY <2>1, <2>2, <2>3, FoldExists
  <2>. QED  BY <2>4 DEF base
<1>10. Iter(g)
  <2>1. ASSUME NEW s \in SUBSET I
        PROVE  g[s] = IF s = {} THEN cols[k] ELSE g[s \ {Last(s)}] \o SX!Reverse(cols[at[Last(s)]])
    <3>1. CASE s = {}  BY <1>9, <3>1 DEF Folding
    <3>2. CASE s # {}
      <4>1. g[s] = op[Last(s)][g[s \ {Last(s)}]]  BY <1>5, <1>9, <3>2 DEF Folding
      <4>2. Last(s) \in I /\ g[s \ {Last(s)}] \in V  BY <1>5, <3>2
      <4>. QED  BY <1>2, <1>7, <3>2, <4>1, <4>2
    <3>. QED  BY <3>1, <3>2
  <2>. QED  BY <1>2, <2>1
<1>11. PICK h : Iter(h) /\ last = h[I]
  <2>. HIDE DEF Iter
  <2>. QED  BY <1>4, <1>10
<1>12. h[{}] = cols[k]  BY <1>2, <1>11
<1>13. \A s \in SUBSET I : s # {} => h[s] = h[s \ {Last(s)}] \o SX!Reverse(cols[k + Last(s)])
  BY <1>2, <1>5, <1>11
<1>. HIDE DEF Iter
<1>. DEFINE Sums(s) == /\ h[s] \in Seq(Meter) /\ Once(h[s])
                       /\ Els(h[s]) = Els(cols[k]) \cup UNION {Els(cols[k + i]) : i \in s}
            T == {s \in SUBSET I : Sums(s)}
<1>14. {} \in T  BY <1>1, <1>12
<1>15. ASSUME NEW s \in SUBSET I, s # {}, s \ {pick[s]} \in T PROVE s \in T
  <2>. DEFINE i == Last(s)
              rest == s \ {i}
  <2>1. i \in s /\ i \in I /\ rest = s \ {pick[s]}  BY <1>5, <1>15
  <2>2. Sums(rest)  BY <1>15, <2>1
  <2>3. h[s] = h[rest] \o SX!Reverse(cols[k + i])  BY <1>13, <1>15
  <2>4. i \notin rest /\ rest \cup {i} = s  BY <2>1
  <2>. HIDE DEF i, rest
  <2>5. k + i \in DOMAIN cols /\ k \in DOMAIN cols /\ k + i # k  BY <1>1, <1>2, <2>1 DEF I
  <2>6. \A j \in rest : k + j \in DOMAIN cols /\ k + j # k + i
    BY <1>1, <1>2, <2>1, <2>4 DEF I
  <2>7. Els(cols[k]) \cap Els(cols[k + i]) = {}  BY <1>1, <2>5 DEF Apart
  <2>8. \A j \in rest : Els(cols[k + j]) \cap Els(cols[k + i]) = {}  BY <1>1, <2>5, <2>6 DEF Apart
  <2>9. Els(h[rest]) \cap Els(SX!Reverse(cols[k + i])) = {}  BY <1>6, <2>2, <2>5, <2>7, <2>8
  <2>10. h[s] \in Seq(Meter) /\ Once(h[s]) /\ Els(h[s]) = Els(h[rest]) \cup Els(cols[k + i])
    BY <1>6, <2>2, <2>3, <2>5, <2>9, ConcatOnce
  <2>11. Els(h[s]) = Els(cols[k]) \cup UNION {Els(cols[k + j]) : j \in s}  BY <2>2, <2>4, <2>10
  <2>. QED  BY <2>10, <2>11
<1>16. T = SUBSET I
  <2>1. T \in SUBSET SUBSET I  OBVIOUS
  <2>2. IsPick(pick, I)  BY <1>5 DEF IsPick
  <2>3. {} \in T /\ Refills(T, pick, I)  BY <1>14, <1>15 DEF Refills
  <2>. HIDE DEF T
  <2>. QED  BY <1>8, <2>1, <2>2, <2>3, SubsetInduction
<1>17. Sums(I)  BY <1>16
<1>18. Els(cols[k]) \cup UNION {Els(cols[k + i]) : i \in I} = UNION {Els(cols[c]) : c \in k .. Len(cols)}
  <2>1. \A i \in I : k + i \in k .. Len(cols)  BY <1>1 DEF len, I
  <2>2. \A c \in k .. Len(cols) : c = k \/ \E i \in I : c = k + i
    <3>. SUFFICES ASSUME NEW c \in k .. Len(cols), c # k PROVE \E i \in I : c = k + i  OBVIOUS
    <3>1. c - k \in I /\ c = k + (c - k)  BY <1>1 DEF len, I
    <3>. QED  BY <3>1
  <2>3. k \in k .. Len(cols)  BY <1>1
  <2>. QED  BY <2>1, <2>2, <2>3
<1>19. last \in Seq(Meter) /\ Once(last) /\ Els(last) = UNION {Els(cols[c]) : c \in k .. Len(cols)}
  BY <1>11, <1>17, <1>18
<1>20. k = Len(cols) => last = cols[k]
  <2>1. k = Len(cols) => I = {}  BY <1>1 DEF I, len
  <2>. QED  BY <1>11, <1>12, <2>1
<1>. QED  BY <1>19, <1>20 DEF last, at, len

\* A layout loses no meter.
LEMMA LayoutFacts ==
    ASSUME NEW cols, ColumnsOK(cols), NEW k \in Layouts
    PROVE  LET cols2 == Header_setLayout(cols, k)
           IN /\ ColumnsOK(cols2) /\ Len(cols2) = k /\ MetersOf(cols2) = MetersOf(cols)
              /\ k = Len(cols) => cols2 = cols
<1>. DEFINE cols2 == Header_setLayout(cols, k)
            last == LastColumn(cols, k)
<1>1. /\ Len(cols) \in Nat \ {0} /\ DOMAIN cols = 1 .. Len(cols)
      /\ \A d \in DOMAIN cols : cols[d] \in Seq(Meter) /\ Once(cols[d]) /\ Els(cols[d]) \subseteq Meter
      /\ Apart(cols)
  BY ColumnsFacts
<1>2. k \in Nat \ {0}  BY HeaderAssumption
<1>3. k <= Len(cols) => /\ last \in Seq(Meter) /\ Once(last)
                        /\ Els(last) = UNION {Els(cols[c]) : c \in k .. Len(cols)}
                        /\ k = Len(cols) => last = cols[k]
  <2>1. k <= Len(cols) => k \in 1 .. Len(cols)  BY <1>1, <1>2
  <2>. HIDE DEF last
  <2>2. k \in 1 .. Len(cols) => /\ LastColumn(cols, k) \in Seq(Meter) /\ Once(LastColumn(cols, k))
                                /\ Els(LastColumn(cols, k)) = UNION {Els(cols[c]) : c \in k .. Len(cols)}
                                /\ k = Len(cols) => LastColumn(cols, k) = cols[k]
    BY LayoutFold
  <2>. QED  BY <2>1, <2>2 DEF last
<1>4. cols2 = [c \in 1..k |-> IF c > Len(cols) THEN <<>> ELSE IF c < k THEN cols[c] ELSE last]
  <2>1. \A c \in 1..k : ~(c < k) => c = k  BY <1>2
  <2>. QED  BY <2>1 DEF Header_setLayout, LastColumn
<1>. HIDE DEF last, cols2
<1>5. DOMAIN cols2 = 1 .. k /\ \A c \in 1 .. k : cols2[c] = IF c > Len(cols) THEN <<>> ELSE IF c < k THEN cols[c] ELSE last
  BY <1>4
<1>6. \A c \in 1 .. k : \/ c > Len(cols) /\ cols2[c] = <<>>
                        \/ c < k /\ c \in DOMAIN cols /\ cols2[c] = cols[c]
                        \/ c = k /\ c \in DOMAIN cols /\ cols2[c] = last
  <2>. SUFFICES ASSUME NEW c \in 1 .. k, ~(c > Len(cols))
                PROVE  c \in DOMAIN cols /\ ((c < k /\ cols2[c] = cols[c]) \/ (c = k /\ cols2[c] = last))
    BY <1>5
  <2>1. c \in DOMAIN cols /\ (c < k \/ (c = k /\ ~(c < k)))  BY <1>1, <1>2
  <2>2. cols2[c] = IF c < k THEN cols[c] ELSE last  BY <1>5
  <2>. QED  BY <2>1, <2>2
<1>7. <<>> \in Seq(Meter) /\ Once(<<>>) /\ Els(<<>>) = {}  BY DEF Once, Els
<1>8. ASSUME NEW c \in 1 .. k PROVE cols2[c] \in Seq(Meter) /\ Once(cols2[c])
  <2>1. CASE cols2[c] = <<>>  BY <1>7, <2>1
  <2>2. CASE c \in DOMAIN cols /\ cols2[c] = cols[c]  BY <1>1, <2>2
  <2>3. CASE c = k /\ c \in DOMAIN cols /\ cols2[c] = last  BY <1>1, <1>3, <2>3
  <2>. QED  BY <1>6, <2>1, <2>2, <2>3
<1>9. cols2 \in Seq(Seq(Meter)) /\ Len(cols2) = k  BY <1>2, <1>4, <1>8
<1>10. ASSUME NEW c \in 1 .. k, NEW d \in 1 .. k, c < d PROVE Els(cols2[c]) \cap Els(cols2[d]) = {}
  <2>1. CASE c > Len(cols) \/ d > Len(cols)
    <3>1. cols2[c] = <<>> \/ cols2[d] = <<>>  BY <1>5, <2>1
    <3>. QED  BY <1>7, <3>1
  <2>2. CASE ~(c > Len(cols) \/ d > Len(cols))
    <3>1. c < k /\ c \in DOMAIN cols /\ d \in DOMAIN cols /\ cols2[c] = cols[c]  BY <1>1, <1>2, <1>6, <1>10, <2>2
    <3>2. CASE d < k
      <4>1. cols2[d] = cols[d] /\ c # d  BY <1>2, <1>6, <1>10, <2>2, <3>2
      <4>. QED  BY <1>1, <3>1, <4>1 DEF Apart
    <3>3. CASE d = k
      <4>1. cols2[d] = last /\ k <= Len(cols)  BY <1>1, <1>2, <1>6, <2>2, <3>3
      <4>2. \A e \in k .. Len(cols) : e \in DOMAIN cols /\ e # c  BY <1>1, <1>2, <3>1
      <4>3. \A e \in k .. Len(cols) : Els(cols[c]) \cap Els(cols[e]) = {}  BY <1>1, <3>1, <4>2 DEF Apart
      <4>. QED  BY <1>3, <3>1, <4>1, <4>3
    <3>4. d < k \/ d = k  BY <1>2
    <3>. QED  BY <3>2, <3>3, <3>4
  <2>. QED  BY <2>1, <2>2
<1>11. Apart(cols2)
  <2>. SUFFICES ASSUME NEW c \in 1 .. k, NEW d \in 1 .. k, c # d PROVE Els(cols2[c]) \cap Els(cols2[d]) = {}
    BY <1>5 DEF Apart
  <2>1. c < d \/ d < c  OBVIOUS
  <2>. QED  BY <1>10, <2>1
<1>12. ColumnsOK(cols2)  BY <1>5, <1>8, <1>9, <1>11, OnceByColumn DEF ColumnsOK
<1>13. ASSUME NEW m PROVE m \in MetersOf(cols2) <=> m \in MetersOf(cols)
  <2>1. m \in MetersOf(cols2) <=> \E c \in 1 .. k : m \in Els(cols2[c])  BY <1>5, MetersByColumn
  <2>2. m \in MetersOf(cols) <=> \E d \in DOMAIN cols : m \in Els(cols[d])  BY MetersByColumn
  <2>3. ASSUME NEW c \in 1 .. k, m \in Els(cols2[c]) PROVE \E d \in DOMAIN cols : m \in Els(cols[d])
    <3>1. CASE c > Len(cols)  BY <1>6, <1>5, <1>7, <2>3, <3>1
    <3>2. CASE c < k /\ c \in DOMAIN cols /\ cols2[c] = cols[c]  BY <2>3, <3>2
    <3>3. CASE c = k /\ c \in DOMAIN cols /\ cols2[c] = last
      <4>1. k <= Len(cols) /\ \A e \in k .. Len(cols) : e \in DOMAIN cols  BY <1>1, <1>2, <3>3
      <4>. QED  BY <1>3, <2>3, <3>3, <4>1
    <3>. QED  BY <1>6, <3>1, <3>2, <3>3
  <2>4. ASSUME NEW d \in DOMAIN cols, m \in Els(cols[d]) PROVE \E c \in 1 .. k : m \in Els(cols2[c])
    <3>1. CASE d < k
      <4>1. d \in 1 .. k /\ cols2[d] = cols[d]  BY <1>1, <1>2, <1>5, <3>1
      <4>. QED  BY <2>4, <4>1
    <3>2. CASE d >= k
      <4>1. k <= Len(cols) /\ d \in k .. Len(cols)  BY <1>1, <1>2, <3>2
      <4>2. k \in 1 .. k /\ cols2[k] = last  BY <1>1, <1>2, <1>5, <4>1
      <4>. QED  BY <1>3, <2>4, <4>1, <4>2
    <3>. QED  BY <1>1, <1>2, <3>1, <3>2
  <2>. QED  BY <2>1, <2>2, <2>3, <2>4
<1>14. MetersOf(cols2) = MetersOf(cols)  BY <1>13
<1>15. k = Len(cols) => cols2 = cols
  <2>. SUFFICES ASSUME k = Len(cols) PROVE cols2 = cols  OBVIOUS
  <2>1. k <= Len(cols)  BY <1>1
  <2>2. \A c \in 1 .. k : cols2[c] = cols[c]  BY <1>1, <1>2, <1>3, <1>6, <2>1
  <2>3. cols \in Seq(Seq(Meter)) /\ cols2 \in Seq(Seq(Meter)) /\ Len(cols2) = Len(cols)  BY <1>9 DEF ColumnsOK
  <2>. QED  BY <2>2, <2>3, SeqEqual
<1>. QED  BY <1>9, <1>12, <1>14, <1>15 DEF cols2

-----------------------------------------------------------------------------
(* The lines of the header *)

\* A meter starts on some line.
LEMMA TopType ==
    ASSUME NEW s \in Seq(Meter), NEW md \in [Meter -> DOMAIN Modes], NEW i \in 1 .. Len(s) + 1
    PROVE  Top(s, md, i) \in Nat
<1>. DEFINE part == SubSeq(s, 1, i - 1)
            len == i - 1
            I == 1 .. len
            pick == [r \in SUBSET I |-> Last(r)]
            op == [j \in I |-> [y \in Nat |-> y + Modes[md[part[j]]].h]]
            Iter(g) == g = [r \in SUBSET DOMAIN part |->
                               IF r = {} THEN 0 ELSE g[r \ {Last(r)}] + Modes[md[part[Last(r)]]].h]
            top == Top(s, md, i)
<1>1. Len(s) \in Nat /\ \A j \in 1 .. Len(s) : s[j] \in Meter  BY ElementOfSeq, LenProperties
<1>2. len \in Nat /\ \A j \in 1 .. i - 1 : s[j] \in Meter  BY <1>1
<1>3. part \in Seq(Meter) /\ Len(part) = len  BY <1>1, <1>2, SubSeqProperties
<1>4. top = (CHOOSE h : Iter(h))[DOMAIN part]  BY DEF Top, SX!FoldLeft, SX!MapThenFoldSet, Last
<1>. HIDE DEF top, part, len
<1>5. DOMAIN part = I /\ \A j \in I : part[j] \in Meter  BY <1>3, ElementOfSeq, LenProperties
<1>6. \A j \in I : Modes[md[part[j]]].h \in Nat
  <2>1. \A j \in I : md[part[j]] \in DOMAIN Modes  BY <1>5
  <2>2. \A x \in DOMAIN Modes : Modes[x] \in [h : Nat \ {0}, text : BOOLEAN]
    <3>. DEFINE M == [h : Nat \ {0}, text : BOOLEAN]
    <3>1. Modes \in Seq(M)  BY HeaderAssumption
    <3>. HIDE DEF M
    <3>2. \A x \in DOMAIN Modes : Modes[x] \in M  BY <3>1, ElementOfSeq, LenProperties
    <3>. QED  BY <3>2 DEF M
  <2>. QED  BY <2>1, <2>2
<1>. HIDE DEF pick, op
<1>7. \A r \in SUBSET I : r # {} => Last(r) \in r /\ pick[r] = Last(r)  BY <1>2, LastFacts DEF pick
<1>8. IsPick(pick, I)  BY <1>7 DEF IsPick
<1>9. IsFiniteSet(I)
  <2>1. len \in Int  BY <1>2
  <2>. QED  BY <2>1, FS_Interval
<1>10. op \in [I -> [Nat -> Nat]] /\ \A j \in I : \A y \in Nat : op[j][y] = y + Modes[md[part[j]]].h
  BY <1>6 DEF op
<1>. HIDE DEF I
<1>11. PICK g \in [SUBSET I -> Nat] : Folding(g, I, 0, op, pick)
  <2>1. op \in [I -> [Nat -> Nat]]  BY <1>10
  <2>. QED  BY <1>8, <1>9, <2>1, FoldExists
<1>12. Iter(g)
  <2>1. ASSUME NEW r \in SUBSET I
        PROVE  g[r] = IF r = {} THEN 0 ELSE g[r \ {Last(r)}] + Modes[md[part[Last(r)]]].h
    <3>1. CASE r = {}  BY <1>11, <3>1 DEF Folding
    <3>2. CASE r # {}
      <4>1. g[r] = op[Last(r)][g[r \ {Last(r)}]]  BY <1>7, <1>11, <3>2 DEF Folding
      <4>2. Last(r) \in I /\ g[r \ {Last(r)}] \in Nat  BY <1>7, <3>2
      <4>. QED  BY <1>10, <3>2, <4>1, <4>2
    <3>. QED  BY <3>1, <3>2
  <2>. QED  BY <1>5, <2>1
<1>13. PICK h : Iter(h) /\ top = h[I]
  <2>. HIDE DEF Iter
  <2>. QED  BY <1>4, <1>5, <1>12
<1>14. h[{}] \in Nat /\ \A r \in SUBSET I : r # {} => h[r] = h[r \ {pick[r]}] + Modes[md[part[pick[r]]]].h
  <2>1. h = [r \in SUBSET I |-> IF r = {} THEN 0 ELSE h[r \ {Last(r)}] + Modes[md[part[Last(r)]]].h]
    BY <1>5, <1>13
  <2>2. h[{}] = 0  BY <2>1
  <2>3. \A r \in SUBSET I : r # {} => h[r] = h[r \ {Last(r)}] + Modes[md[part[Last(r)]]].h  BY <2>1
  <2>4. ASSUME NEW r \in SUBSET I, r # {} PROVE h[r] = h[r \ {pick[r]}] + Modes[md[part[pick[r]]]].h
    <3>1. pick[r] = Last(r)  BY <1>7, <2>4
    <3>. QED  BY <2>3, <2>4, <3>1
  <2>. QED  BY <2>2, <2>4
<1>. HIDE DEF Iter
<1>15. ASSUME NEW r \in SUBSET I, r # {}, h[r \ {pick[r]}] \in Nat PROVE h[r] \in Nat
  <2>1. pick[r] \in I  BY <1>7, <1>15
  <2>. QED  BY <1>6, <1>14, <1>15, <2>1
<1>16. \A r \in SUBSET I : h[r] \in Nat  BY <1>8, <1>9, <1>14, <1>15, FoldType
<1>. QED  BY <1>13, <1>16 DEF top

LEMMA BottomType ==
    ASSUME NEW s \in Seq(Meter), NEW md \in [Meter -> DOMAIN Modes], NEW i \in 0 .. Len(s)
    PROVE  Bottom(s, md, i) \in Nat
<1>1. i + 1 \in 1 .. Len(s) + 1  BY LenProperties
<1>. QED  BY <1>1, TopType DEF Bottom

\* The highest of some columns.
LEMMA HighestExists ==
    ASSUME NEW k \in Nat \ {0}, NEW b \in [1 .. k -> Nat]
    PROVE  \E c \in 1 .. k : \A d \in 1 .. k : b[c] >= b[d]
<1>. DEFINE T == {j \in Nat : j \in 1 .. k => \E c \in 1 .. j : \A d \in 1 .. j : b[c] >= b[d]}
<1>1. 0 \in T  OBVIOUS
<1>2. ASSUME NEW j \in T PROVE j + 1 \in T
  <2>. SUFFICES ASSUME j + 1 \in 1 .. k PROVE \E c \in 1 .. j + 1 : \A d \in 1 .. j + 1 : b[c] >= b[d]
    OBVIOUS
  <2>0. j \in Nat /\ b[j + 1] \in Nat /\ \A d \in 1 .. j : b[d] \in Nat  OBVIOUS
  <2>1. CASE j = 0
    <3>1. j + 1 \in 1 .. j + 1 /\ \A d \in 1 .. j + 1 : d = j + 1  BY <2>0, <2>1
    <3>2. \A d \in 1 .. j + 1 : b[j + 1] >= b[d]
      <4>. SUFFICES ASSUME NEW d \in 1 .. j + 1 PROVE b[j + 1] >= b[d]  OBVIOUS
      <4>1. d = j + 1  BY <3>1
      <4>. QED  BY <2>0, <4>1
    <3>. QED  BY <3>1, <3>2
  <2>2. CASE j # 0
    <3>1. PICK c \in 1 .. j : \A d \in 1 .. j : b[c] >= b[d]  BY <2>0, <2>2
    <3>2. \A d \in 1 .. j + 1 : d \in 1 .. j \/ d = j + 1  BY <2>0
    <3>3. c \in 1 .. j + 1 /\ j + 1 \in 1 .. j + 1 /\ b[c] \in Nat  BY <2>0
    <3>4. CASE b[c] >= b[j + 1]
      <4>1. \A d \in 1 .. j + 1 : b[c] >= b[d]  BY <3>1, <3>2, <3>4
      <4>. QED  BY <3>3, <4>1
    <3>5. CASE b[j + 1] > b[c]
      <4>1. ASSUME NEW d \in 1 .. j + 1 PROVE b[j + 1] >= b[d]
        <5>1. CASE d = j + 1  BY <2>0, <5>1
        <5>2. CASE d \in 1 .. j  BY <2>0, <3>1, <3>3, <3>5, <5>2
        <5>. QED  BY <3>2, <5>1, <5>2
      <4>. QED  BY <3>3, <4>1
    <3>. QED  BY <2>0, <3>3, <3>4, <3>5
  <2>. QED  BY <2>1, <2>2
<1>3. T = Nat
  <2>1. T \in SUBSET Nat  OBVIOUS
  <2>. HIDE DEF T
  <2>. QED  BY <1>1, <1>2, <2>1, NatSetInduction
<1>4. k \in T
  <2>. HIDE DEF T
  <2>. QED  BY <1>3
<1>. QED  BY <1>4

\* The header is as high as its highest column.
LEMMA HeightFacts ==
    ASSUME NEW cols, ColumnsOK(cols), NEW md \in [Meter -> DOMAIN Modes]
    PROVE  /\ Height(cols, md) \in Nat
           /\ \A c \in DOMAIN cols : Bottom(cols[c], md, Len(cols[c])) <= Height(cols, md)
<1>. DEFINE k == Len(cols)
            b == [c \in 1 .. k |-> Bottom(cols[c], md, Len(cols[c]))]
            bottoms == {Bottom(cols[c], md, Len(cols[c])) : c \in DOMAIN cols}
            P(h) == h \in bottoms /\ \A x \in bottoms : h >= x
<1>1. k \in Nat \ {0} /\ DOMAIN cols = 1 .. k /\ \A c \in DOMAIN cols : cols[c] \in Seq(Meter)  BY ColumnsFacts
<1>2. \A c \in DOMAIN cols : Bottom(cols[c], md, Len(cols[c])) \in Nat
  <2>. SUFFICES ASSUME NEW c \in DOMAIN cols PROVE Bottom(cols[c], md, Len(cols[c])) \in Nat  OBVIOUS
  <2>1. cols[c] \in Seq(Meter)  BY <1>1
  <2>2. Len(cols[c]) \in 0 .. Len(cols[c])  BY <2>1, LenProperties
  <2>. QED  BY <2>1, <2>2, BottomType
<1>3. b \in [1 .. k -> Nat]  BY <1>1, <1>2
<1>4. bottoms = {b[c] : c \in 1 .. k}  BY <1>1
<1>. HIDE DEF b, k
<1>5. PICK c \in 1 .. k : \A d \in 1 .. k : b[c] >= b[d]  BY <1>1, <1>3, HighestExists
<1>6. P(b[c])
  <2>. HIDE DEF bottoms
  <2>. QED  BY <1>4, <1>5
<1>. DEFINE h == CHOOSE h \in bottoms : \A x \in bottoms : h >= x
<1>7. Height(cols, md) = h  BY DEF Height
<1>8. P(h)
  <2>. HIDE DEF bottoms
  <2>. QED  BY <1>6
<1>9. h \in Nat  BY <1>2, <1>8
<1>10. \A d \in DOMAIN cols : h >= Bottom(cols[d], md, Len(cols[d]))  BY <1>8
<1>. HIDE DEF h
<1>. QED  BY <1>2, <1>7, <1>9, <1>10

\* A meter spans columns only as far as nothing is on its lines.
LEMMA WidthFacts ==
    ASSUME NEW cols, ColumnsOK(cols), NEW md \in [Meter -> DOMAIN Modes],
           NEW c \in DOMAIN cols, NEW i \in DOMAIN cols[c]
    PROVE  LET w == calcColumnWidthCount(cols, md, c, i)
           IN /\ w \in 1 .. Len(cols) + 1 - c
              /\ \A d \in (c + 1) .. (c + w - 1) :
                    ~Occupied(cols[d], md, Top(cols[c], md, i), Bottom(cols[c], md, i))
<1>. DEFINE taken == {d \in (c + 1)..Len(cols) :
                         Occupied(cols[d], md, Top(cols[c], md, i), Bottom(cols[c], md, i))}
            w == calcColumnWidthCount(cols, md, c, i)
            P(d) == d \in taken /\ \A e \in taken : d <= e
            first == CHOOSE d \in taken : \A e \in taken : d <= e
<1>1. Len(cols) \in Nat \ {0} /\ c \in 1 .. Len(cols)  BY ColumnsFacts
<1>2. w = IF taken = {} THEN Len(cols) + 1 - c ELSE first - c  BY DEF calcColumnWidthCount
<1>3. \A d \in (c + 1) .. Len(cols) : d \notin taken =>
         ~Occupied(cols[d], md, Top(cols[c], md, i), Bottom(cols[c], md, i))
  OBVIOUS
<1>4. taken \in SUBSET ((c + 1) .. Len(cols))  OBVIOUS
<1>5. taken # {} => P(first)
  <2>. HIDE DEF taken
  <2>. SUFFICES ASSUME taken # {} PROVE \E d \in taken : \A e \in taken : d <= e  OBVIOUS
  <2>1. taken \in SUBSET Nat  BY <1>1, <1>4
  <2>. QED  BY <2>1, LeastExists
<1>. HIDE DEF taken, first, w
<1>6. CASE taken = {}
  <2>1. w = Len(cols) + 1 - c  BY <1>2, <1>6
  <2>2. \A d \in (c + 1) .. (c + w - 1) : d \in (c + 1) .. Len(cols)  BY <1>1, <2>1
  <2>3. w \in 1 .. Len(cols) + 1 - c  BY <1>1, <2>1
  <2>. QED  BY <1>3, <1>6, <2>2, <2>3 DEF w
<1>7. CASE taken # {}
  <2>1. w = first - c /\ first \in (c + 1) .. Len(cols) /\ \A e \in taken : first <= e  BY <1>2, <1>4, <1>5, <1>7
  <2>2. \A d \in (c + 1) .. (c + w - 1) : d \in (c + 1) .. Len(cols) /\ ~(first <= d)  BY <1>1, <2>1
  <2>3. w \in 1 .. Len(cols) + 1 - c  BY <1>1, <2>1
  <2>4. \A d \in (c + 1) .. (c + w - 1) : d \notin taken  BY <2>1, <2>2
  <2>. QED  BY <1>3, <2>2, <2>3, <2>4 DEF w
<1>. QED  BY <1>6, <1>7

\* What is set for the meters that the header has.
LEMMA SpansFacts ==
    ASSUME NEW cols, ColumnsOK(cols), NEW md \in [Meter -> DOMAIN Modes]
    PROVE  /\ Spans(cols, md) \in [Meter -> 0 .. Len(cols)]
           /\ \A c \in DOMAIN cols : \A i \in DOMAIN cols[c] :
                 Spans(cols, md)[cols[c][i]] = calcColumnWidthCount(cols, md, c, i)
<1>. DEFINE places == UNION {{c} \X DOMAIN cols[c] : c \in DOMAIN cols}
            PlaceOf(m) == CHOOSE a \in places : cols[a[1]][a[2]] = m
<1>1. /\ Len(cols) \in Nat \ {0} /\ DOMAIN cols = 1 .. Len(cols)
      /\ \A d \in DOMAIN cols : cols[d] \in Seq(Meter) /\ Els(cols[d]) \subseteq Meter
  BY ColumnsFacts
<1>2. ASSUME NEW c \in DOMAIN cols, NEW i \in DOMAIN cols[c] PROVE PlaceOf(cols[c][i]) = <<c, i>>
  <2>1. <<c, i>> \in places /\ cols[<<c, i>>[1]][<<c, i>>[2]] = cols[c][i]  OBVIOUS
  <2>2. \A a \in places : \E d \in DOMAIN cols : \E j \in DOMAIN cols[d] : a = <<d, j>>  OBVIOUS
  <2>. DEFINE m == cols[c][i]
  <2>. HIDE DEF places, m
  <2>3. PlaceOf(m) \in places /\ cols[PlaceOf(m)[1]][PlaceOf(m)[2]] = m  BY <2>1 DEF m
  <2>. PICK d \in DOMAIN cols : \E j \in DOMAIN cols[d] : PlaceOf(m) = <<d, j>>  BY <2>2, <2>3
  <2>4. PICK j \in DOMAIN cols[d] : PlaceOf(m) = <<d, j>>  OBVIOUS
  <2>5. cols[d][j] = cols[c][i]  BY <2>3, <2>4 DEF m
  <2>6. d = c /\ j = i  BY <2>5 DEF ColumnsOK, EachOnce
  <2>. QED  BY <2>4, <2>6 DEF m
<1>3. Spans(cols, md) = [m \in Meter |-> IF m \notin MetersOf(cols) THEN 0
                                        ELSE calcColumnWidthCount(cols, md, PlaceOf(m)[1], PlaceOf(m)[2])]
  BY DEF Spans
<1>. HIDE DEF PlaceOf
<1>4. ASSUME NEW c \in DOMAIN cols, NEW i \in DOMAIN cols[c]
      PROVE  Spans(cols, md)[cols[c][i]] = calcColumnWidthCount(cols, md, c, i)
  <2>1. cols[c][i] \in Meter /\ cols[c][i] \in MetersOf(cols)  BY <1>1, MetersByColumn DEF Els
  <2>2. PlaceOf(cols[c][i])[1] = c /\ PlaceOf(cols[c][i])[2] = i  BY <1>2
  <2>. QED  BY <1>3, <2>1, <2>2
<1>5. ASSUME NEW m \in Meter PROVE Spans(cols, md)[m] \in 0 .. Len(cols)
  <2>1. CASE m \notin MetersOf(cols)  BY <1>1, <1>3, <2>1
  <2>2. CASE m \in MetersOf(cols)
    <3>1. PICK c \in DOMAIN cols : m \in Els(cols[c])  BY <2>2, MetersByColumn
    <3>2. PICK i \in DOMAIN cols[c] : m = cols[c][i]  BY <3>1 DEF Els
    <3>3. calcColumnWidthCount(cols, md, c, i) \in 1 .. Len(cols) + 1 - c  BY WidthFacts
    <3>4. 1 .. Len(cols) + 1 - c \subseteq 0 .. Len(cols)  BY <1>1
    <3>. QED  BY <1>4, <3>2, <3>3, <3>4
  <2>. QED  BY <2>1, <2>2
<1>. QED  BY <1>3, <1>4, <1>5

-----------------------------------------------------------------------------
(* The header and its setup: the invariant *)

PanelSet == [items : Seq(Shown), selected : Nat, moving : BOOLEAN]

\* A panel shows a column, and its selection is one of the meters, if any.
PanelFits(p, s, md) == p \in PanelSet /\ p.items = Save(s, md) /\ p.selected < larger(1, Len(s))

\* What is on the screen.
PageInv ==
    /\ page \in {"closed", "other", "layout", "meters"} /\ focus \in 0 .. Panels
    /\ panels \in Seq(PanelSet) /\ (page # "meters" => panels = <<>>)
    /\ page = "meters" => Len(panels) = n /\ \A c \in 1 .. n : PanelFits(panels[c], columns[c], mode)

\* What Header_calculateHeight sets is that of the columns as they are now.
LinesInv == spans = Spans(columns, mode) /\ height = Height(columns, mode)

\* Without a change, and outside the setup, the settings hold the header.
SavedInv ==
    /\ \A c \in DOMAIN hColumns : hColumns[c] \in Seq(Shown)
    /\ (page = "closed" \/ ~changed) => hColumns = Header_writeBackToSettings

HeaderInv ==
    /\ ColumnsOK(columns) /\ mode \in [Meter -> DOMAIN Modes]
    /\ changed \in BOOLEAN /\ failed \in BOOLEAN
    /\ PageInv /\ LinesInv /\ SavedInv

\* Columns written back are lists of meters with their modes.
LEMMA WrittenType ==
    ASSUME ColumnsOK(columns), mode \in [Meter -> DOMAIN Modes]
    PROVE  \A c \in DOMAIN Header_writeBackToSettings : Header_writeBackToSettings[c] \in Seq(Shown)
<1>1. \A c \in 1 .. n : columns[c] \in Seq(Meter)  BY ColumnsFacts DEF n
<1>2. \A c \in 1 .. n : Save(columns[c], mode) \in Seq(Shown)  BY <1>1, SaveFacts
<1>. QED  BY <1>2 DEF Header_writeBackToSettings

LEMMA InitHeaderInv == HeaderInit => HeaderInv
<1>. SUFFICES ASSUME HeaderInit PROVE HeaderInv  OBVIOUS
<1>1. PICK k \in Layouts :
         columns \in {cols \in [1..k -> UNION {[1..l -> Meter] : l \in 0..StartLength}] : EachOnce(cols)}
  BY DEF HeaderInit
<1>2. k \in Nat /\ StartLength \in Nat  BY HeaderAssumption
<1>3. \A c \in 1 .. k : columns[c] \in Seq(Meter)
  <2>. SUFFICES ASSUME NEW c \in 1 .. k PROVE columns[c] \in Seq(Meter)  OBVIOUS
  <2>1. PICK l \in 0 .. StartLength : columns[c] \in [1 .. l -> Meter]  BY <1>1
  <2>2. l \in Nat  BY <1>2
  <2>. QED  BY <2>1, <2>2
<1>4. columns \in Seq(Seq(Meter)) /\ Len(columns) = k  BY <1>1, <1>2, <1>3
<1>5. ColumnsOK(columns)  BY <1>1, <1>4 DEF ColumnsOK
<1>6. mode \in [Meter -> DOMAIN Modes] /\ changed = FALSE /\ failed = FALSE /\ page = "closed"
      /\ panels = <<>> /\ focus = 0 /\ hColumns = Header_writeBackToSettings
  BY DEF HeaderInit
<1>7. PageInv  BY <1>6 DEF PageInv, Panels
<1>8. LinesInv  BY DEF HeaderInit, LinesInv
<1>9. SavedInv  BY <1>5, <1>6, WrittenType DEF SavedInv
<1>. QED  BY <1>5, <1>6, <1>7, <1>8, <1>9 DEF HeaderInv

LEMMA InvHeaderSound == HeaderInv => HeaderSound
<1>. SUFFICES ASSUME HeaderInv PROVE HeaderSound  OBVIOUS
<1>1. /\ n \in Nat \ {0} /\ n \in Layouts /\ DOMAIN columns = 1 .. n
      /\ \A c \in 1 .. n : columns[c] \in Seq(Meter) /\ Els(columns[c]) \subseteq Meter
  BY ColumnsFacts DEF HeaderInv, ColumnsOK, n
<1>2. mode \in [Meter -> DOMAIN Modes] /\ ColumnsOK(columns)  BY DEF HeaderInv
<1>3. spans \in [Meter -> 0 .. n] /\ height \in Nat  BY <1>2, SpansFacts, HeightFacts DEF HeaderInv, LinesInv, n
<1>4. focus \in 0 .. n + 1  BY <1>1 DEF HeaderInv, PageInv, Panels
<1>5. \A c \in DOMAIN panels : panels[c] \in PanelSet  BY ElementOfSeq, LenProperties DEF HeaderInv, PageInv
<1>6. HeaderTypeOK
  BY <1>1, <1>2, <1>3, <1>4, <1>5 DEF HeaderInv, PageInv, SavedInv, HeaderTypeOK, PanelSet, Shown
<1>7. PanelsMatch
  <2>. SUFFICES ASSUME page = "meters", NEW c \in 1 .. n
                PROVE  /\ Len(panels) = n
                       /\ Len(panels[c].items) = Len(columns[c])
                       /\ \A i \in DOMAIN columns[c] :
                             /\ panels[c].items[i].meter = columns[c][i]
                             /\ panels[c].items[i].mode = mode[columns[c][i]]
                       /\ panels[c].selected < larger(1, Len(columns[c]))
    BY <1>1, <1>6 DEF PanelsMatch
  <2>1. Len(panels) = n /\ PanelFits(panels[c], columns[c], mode)  BY DEF HeaderInv, PageInv
  <2>2. Len(panels[c].items) = Len(columns[c])  BY <1>1, <1>2, <2>1, SaveFacts DEF PanelFits
  <2>. QED  BY <2>1, <2>2 DEF PanelFits, Save
<1>8. NoOverlap
  <2>. SUFFICES ASSUME NEW c \in 1 .. n PROVE
           /\ Bottom(columns[c], mode, Len(columns[c])) <= height
           /\ \A i \in DOMAIN columns[c] :
                 /\ c + spans[columns[c][i]] - 1 <= n
                 /\ \A d \in (c + 1)..(c + spans[columns[c][i]] - 1) :
                        \A j \in DOMAIN columns[d] :
                            \/ Bottom(columns[d], mode, j) <= Top(columns[c], mode, i)
                            \/ Top(columns[d], mode, j) >= Bottom(columns[c], mode, i)
    BY DEF NoOverlap
  <2>1. Bottom(columns[c], mode, Len(columns[c])) <= height  BY <1>1, <1>2, HeightFacts DEF HeaderInv, LinesInv
  <2>2. ASSUME NEW i \in DOMAIN columns[c]
        PROVE  /\ c + spans[columns[c][i]] - 1 <= n
               /\ \A d \in (c + 1)..(c + spans[columns[c][i]] - 1) :
                      \A j \in DOMAIN columns[d] :
                          \/ Bottom(columns[d], mode, j) <= Top(columns[c], mode, i)
                          \/ Top(columns[d], mode, j) >= Bottom(columns[c], mode, i)
    <3>. DEFINE w == spans[columns[c][i]]
    <3>1. w = calcColumnWidthCount(columns, mode, c, i)  BY <1>1, <1>2, SpansFacts DEF HeaderInv, LinesInv
    <3>2. c \in DOMAIN columns  BY <1>1
    <3>3. /\ w \in 1 .. n + 1 - c
          /\ \A d \in (c + 1) .. (c + w - 1) :
                ~Occupied(columns[d], mode, Top(columns[c], mode, i), Bottom(columns[c], mode, i))
      BY <1>2, <3>1, <3>2, WidthFacts DEF n
    <3>. HIDE DEF w
    <3>4. c + w - 1 <= n  BY <1>1, <3>3
    <3>5. columns[c] \in Seq(Meter) /\ Len(columns[c]) \in Nat /\ i \in 1 .. Len(columns[c])  BY <1>1, LenProperties
    <3>6. Top(columns[c], mode, i) \in Nat /\ Bottom(columns[c], mode, i) \in Nat
      <4>1. i \in 1 .. Len(columns[c]) + 1 /\ i \in 0 .. Len(columns[c])  BY <3>5
      <4>. QED  BY <1>2, <3>5, <4>1, TopType, BottomType
    <3>7. ASSUME NEW d \in (c + 1) .. (c + w - 1), NEW j \in DOMAIN columns[d]
          PROVE  \/ Bottom(columns[d], mode, j) <= Top(columns[c], mode, i)
                 \/ Top(columns[d], mode, j) >= Bottom(columns[c], mode, i)
      <4>1. d \in 1 .. n  BY <1>1, <3>4, <3>3
      <4>2. columns[d] \in Seq(Meter)  BY <1>1, <4>1
      <4>3. Len(columns[d]) \in Nat /\ j \in 1 .. Len(columns[d])  BY <4>2, LenProperties
      <4>4. j \in 1 .. Len(columns[d]) + 1 /\ j \in 0 .. Len(columns[d])  BY <4>3
      <4>5. Top(columns[d], mode, j) \in Nat /\ Bottom(columns[d], mode, j) \in Nat
        BY <1>2, <4>2, <4>4, TopType, BottomType
      <4>6. ~(Top(columns[d], mode, j) < Bottom(columns[c], mode, i) /\ Bottom(columns[d], mode, j) > Top(columns[c], mode, i))
        BY <3>3 DEF Occupied
      <4>. QED  BY <3>6, <4>5, <4>6
    <3>. QED  BY <3>4, <3>7 DEF w
  <2>. QED  BY <2>1, <2>2
<1>9. SavedAsShown  BY DEF HeaderInv, SavedInv, SavedAsShown, Header_writeBackToSettings
<1>. QED  BY <1>7, <1>8, <1>9 DEF HeaderSound

-----------------------------------------------------------------------------
(* The header and its setup: the steps *)

\* What stays true where nothing of the header is edited.
LEMMA QuietStep ==
    ASSUME HeaderInv, UNCHANGED <<headerVars, hColumns, changed, failed>>, PageInv',
           page' = "closed" => page = "closed"
    PROVE  HeaderInv'
<1>1. /\ columns' = columns /\ mode' = mode /\ spans' = spans /\ height' = height
      /\ hColumns' = hColumns /\ changed' = changed /\ failed' = failed
  BY DEF headerVars
<1>2. Header_writeBackToSettings' = Header_writeBackToSettings  BY <1>1 DEF Header_writeBackToSettings, n
<1>3. SavedInv'  BY <1>1, <1>2 DEF HeaderInv, SavedInv
<1>4. LinesInv'  BY <1>1 DEF HeaderInv, LinesInv
<1>. QED  BY <1>1, <1>3, <1>4 DEF HeaderInv

\* What an edit has to leave.
LEMMA EditStep ==
    ASSUME HeaderInv, ColumnsOK(columns'), mode' \in [Meter -> DOMAIN Modes], LinesInv',
           changed' = TRUE, failed' \in BOOLEAN, hColumns' = hColumns, PageInv', page' # "closed"
    PROVE  HeaderInv'
<1>1. SavedInv'  BY DEF HeaderInv, SavedInv
<1>. QED  BY <1>1 DEF HeaderInv

\* The meter that the keys act on.
LEMMA FocusFacts ==
    ASSUME HeaderInv, OnMeters
    PROVE  /\ n \in Nat \ {0} /\ focus \in 1 .. n /\ DOMAIN columns = 1 .. n /\ DOMAIN panels = 1 .. n
           /\ col \in Seq(Meter) /\ Once(col) /\ Els(col) \subseteq Meter
           /\ PanelFits(pn, col, mode) /\ Len(pn.items) = Len(col) /\ pn.items = Save(col, mode)
           /\ sel \in Nat \ {0} /\ (col # <<>> => sel \in 1 .. Len(col))
<1>1. /\ n \in Nat \ {0} /\ DOMAIN columns = 1 .. n
      /\ \A c \in 1 .. n : columns[c] \in Seq(Meter) /\ Once(columns[c]) /\ Els(columns[c]) \subseteq Meter
  BY ColumnsFacts DEF HeaderInv, n
<1>2. focus \in 1 .. n /\ page = "meters"  BY DEF OnMeters
<1>3. DOMAIN panels = 1 .. n /\ PanelFits(pn, col, mode)
  BY <1>2, LenProperties DEF HeaderInv, PageInv, pn, col
<1>4. col \in Seq(Meter) /\ Once(col) /\ Els(col) \subseteq Meter  BY <1>1, <1>2 DEF col
<1>5. Len(pn.items) = Len(col) /\ pn.items = Save(col, mode)  BY <1>3, <1>4, SaveFacts DEF PanelFits, HeaderInv
<1>6. pn.selected \in Nat /\ pn.selected < larger(1, Len(col))  BY <1>3 DEF PanelFits, PanelSet
<1>7. sel \in Nat \ {0}  BY <1>6 DEF sel
<1>8. col # <<>> => Len(col) \in Nat \ {0}  BY <1>4, EmptySeq
<1>9. col # <<>> => sel \in 1 .. Len(col)  BY <1>6, <1>8 DEF sel, larger
<1>. QED  BY <1>1, <1>2, <1>3, <1>4, <1>5, <1>7, <1>9

\* One panel is replaced.
LEMMA ReplacePanel ==
    ASSUME HeaderInv, page = "meters", NEW c \in 1 .. n, NEW p \in PanelSet
    PROVE  LET panels2 == [panels EXCEPT ![c] = p]
           IN /\ panels2 \in Seq(PanelSet) /\ Len(panels2) = n /\ DOMAIN panels2 = 1 .. n
              /\ \A d \in 1 .. n : panels2[d] = IF d = c THEN p ELSE panels[d]
<1>1. panels \in Seq(PanelSet) /\ Len(panels) = n  BY DEF HeaderInv, PageInv
<1>. QED  BY <1>1, ExceptSeq, LenProperties

\* A column and its panel are replaced, and with them perhaps the style of a
\* meter of that column, or of none.
LEMMA EditOne ==
    ASSUME HeaderInv, page = "meters", page' = page, hColumns' = hColumns, failed' \in BOOLEAN,
           NEW c \in 1 .. n, NEW s \in Seq(Meter), Once(s),
           \A m \in Els(s) : m \in Els(columns[c]) \/ m \notin MetersOf(columns),
           columns' = [columns EXCEPT ![c] = s],
           mode' \in [Meter -> DOMAIN Modes],
           \A d \in 1 .. n : d # c => Save(columns[d], mode') = Save(columns[d], mode),
           NEW p, PanelFits(p, s, mode'), panels' = [panels EXCEPT ![c] = p],
           focus' \in 0 .. n + 1, Recalculated(FALSE, columns', mode')
    PROVE  /\ HeaderInv' /\ EachOnce(columns')
           /\ MetersOf(columns) \ MetersOf(columns') \subseteq Els(columns[c]) \ Els(s)
<1>1. n \in Nat \ {0} /\ DOMAIN columns = 1 .. n /\ ColumnsOK(columns)  BY ColumnsFacts DEF HeaderInv, n
<1>2. c \in DOMAIN columns  BY <1>1
<1>. DEFINE cols2 == [columns EXCEPT ![c] = s]
<1>3. /\ ColumnsOK(cols2) /\ Len(cols2) = Len(columns)
      /\ \A d \in DOMAIN columns : cols2[d] = IF d = c THEN s ELSE columns[d]
      /\ MetersOf(cols2) = (MetersOf(columns) \ Els(columns[c])) \cup Els(s)
  BY <1>1, <1>2, ReplaceColumn
<1>4. cols2 = columns'  OBVIOUS
<1>. HIDE DEF cols2
<1>5. n' = n  BY <1>3, <1>4 DEF n
<1>. DEFINE panels2 == [panels EXCEPT ![c] = p]
<1>6. p \in PanelSet  BY DEF PanelFits
<1>7. /\ panels2 \in Seq(PanelSet) /\ Len(panels2) = n
      /\ \A d \in 1 .. n : panels2[d] = IF d = c THEN p ELSE panels[d]
  BY <1>6, ReplacePanel
<1>8. panels2 = panels'  OBVIOUS
<1>. HIDE DEF panels2
<1>9. ASSUME NEW d \in 1 .. n PROVE PanelFits(panels'[d], columns'[d], mode')
  <2>1. CASE d = c  BY <1>1, <1>3, <1>4, <1>7, <1>8, <2>1
  <2>2. CASE d # c
    <3>1. panels'[d] = panels[d] /\ columns'[d] = columns[d]  BY <1>1, <1>3, <1>4, <1>7, <1>8, <2>2
    <3>2. PanelFits(panels[d], columns[d], mode)  BY DEF HeaderInv, PageInv
    <3>. QED  BY <2>2, <3>1, <3>2 DEF PanelFits
  <2>. QED  BY <2>1, <2>2
<1>10. PageInv'
  <2>1. Panels' = n + 1  BY <1>5 DEF Panels
  <2>2. page' = "meters" /\ focus' \in 0 .. Panels' /\ panels' \in Seq(PanelSet) /\ Len(panels') = n'
    BY <1>5, <1>7, <1>8, <2>1
  <2>3. \A d \in 1 .. n' : PanelFits(panels'[d], columns'[d], mode')  BY <1>5, <1>9
  <2>. QED  BY <2>2, <2>3 DEF PageInv
<1>11. LinesInv' /\ changed' = TRUE  BY DEF Recalculated, Header_calculateHeight, LinesInv
<1>12. HeaderInv'  BY <1>3, <1>4, <1>10, <1>11, EditStep
<1>. QED  BY <1>3, <1>4, <1>12 DEF ColumnsOK

\* What MetersKept says of a step.
Kept ==
    /\ \A m \in MetersOf(columns) \ MetersOf(columns') :
          OnMeters /\ columns[focus][panels[focus].selected + 1] = m
    /\ EachOnce(columns')

\* EditOne for the panel that has the focus, which keeps it.
LEMMA EditFocused ==
    ASSUME HeaderInv, OnMeters, UnchangedOutside, failed' \in BOOLEAN, focus' = focus,
           NEW s \in Seq(Meter), Once(s), Els(s) \subseteq Els(col), Els(col) \ Els(s) \subseteq {col[sel]},
           columns' = [columns EXCEPT ![focus] = s],
           mode' \in [Meter -> DOMAIN Modes],
           \A d \in 1 .. n : d # focus => Save(columns[d], mode') = Save(columns[d], mode),
           NEW p, PanelFits(p, s, mode'), panels' = [panels EXCEPT ![focus] = p],
           Recalculated(FALSE, columns', mode')
    PROVE  HeaderInv' /\ Kept
<1>1. focus \in 1 .. n /\ page = "meters" /\ page' = page /\ hColumns' = hColumns /\ n \in Nat
  BY FocusFacts DEF OnMeters, UnchangedOutside
<1>2. focus' \in 0 .. n + 1  BY <1>1
<1>3. \A m \in Els(s) : m \in Els(columns[focus]) \/ m \notin MetersOf(columns)  BY DEF col
<1>4. /\ HeaderInv' /\ EachOnce(columns')
      /\ MetersOf(columns) \ MetersOf(columns') \subseteq Els(columns[focus]) \ Els(s)
  BY <1>1, <1>2, <1>3, EditOne
<1>5. \A m \in MetersOf(columns) \ MetersOf(columns') : columns[focus][panels[focus].selected + 1] = m
  BY <1>4 DEF col, sel, pn
<1>. QED  BY <1>4, <1>5 DEF Kept

\* The columns and their styles stay as they are.
LEMMA EditNothing ==
    ASSUME HeaderInv, OnMeters, UnchangedOutside, failed' \in BOOLEAN, focus' = focus,
           UNCHANGED <<columns, mode>>, Recalculated(FALSE, columns', mode'),
           NEW p, PanelFits(p, col, mode), panels' = [panels EXCEPT ![focus] = p]
    PROVE  HeaderInv' /\ Kept
<1>1. col \in Seq(Meter) /\ Once(col) /\ DOMAIN columns = 1 .. n /\ focus \in 1 .. n  BY FocusFacts
<1>2. columns \in Seq(Seq(Meter))  BY DEF HeaderInv, ColumnsOK
<1>3. columns' = [columns EXCEPT ![focus] = col]  BY <1>1, <1>2 DEF col
<1>4. mode' \in [Meter -> DOMAIN Modes] /\ PanelFits(p, col, mode')
  BY DEF HeaderInv, PanelFits
<1>5. \A d \in 1 .. n : d # focus => Save(columns[d], mode') = Save(columns[d], mode)  OBVIOUS
<1>6. Els(col) \subseteq Els(col) /\ Els(col) \ Els(col) \subseteq {col[sel]}  OBVIOUS
<1>. QED  BY <1>1, <1>3, <1>4, <1>5, <1>6, EditFocused

LEMMA ToggleMovingStep == HeaderInv /\ ToggleMoving => HeaderInv' /\ Kept
<1>. SUFFICES ASSUME HeaderInv, ToggleMoving PROVE HeaderInv' /\ Kept  OBVIOUS
<1>1. OnMeters /\ UnchangedOutside /\ UNCHANGED <<columns, mode>> /\ focus' = focus /\ failed' = failed
      /\ Recalculated(FALSE, columns, mode)
  BY DEF ToggleMoving
<1>. DEFINE p == SetMoving(pn, ~pn.moving)
<1>2. pn \in PanelSet /\ pn.items = Save(col, mode) /\ pn.selected < larger(1, Len(col))
  BY <1>1, FocusFacts DEF PanelFits
<1>3. PanelFits(p, col, mode)
  <2>1. pn.moving \in BOOLEAN  BY <1>2 DEF PanelSet
  <2>. QED  BY <1>2, <2>1 DEF PanelFits, PanelSet, SetMoving
<1>4. panels' = [panels EXCEPT ![focus] = p]  BY DEF ToggleMoving, pn
<1>5. failed' \in BOOLEAN  BY <1>1 DEF HeaderInv
<1>6. Recalculated(FALSE, columns', mode')  BY <1>1
<1>. HIDE DEF p
<1>. QED  BY <1>1, <1>3, <1>4, <1>5, <1>6, EditNothing

LEMMA LockedStep == HeaderInv /\ Locked => HeaderInv' /\ Kept
<1>. SUFFICES ASSUME HeaderInv, Locked PROVE HeaderInv' /\ Kept  OBVIOUS
<1>1. OnMeters /\ UnchangedOutside /\ UNCHANGED <<columns, mode, panels>> /\ focus' = focus /\ failed' = failed
      /\ Recalculated(FALSE, columns, mode)
  BY DEF Locked
<1>2. PanelFits(pn, col, mode) /\ focus \in 1 .. n /\ DOMAIN panels = 1 .. n  BY <1>1, FocusFacts
<1>3. panels \in Seq(PanelSet)  BY DEF HeaderInv, PageInv
<1>4. panels' = [panels EXCEPT ![focus] = pn]  BY <1>1, <1>2, <1>3 DEF pn
<1>5. failed' \in BOOLEAN /\ Recalculated(FALSE, columns', mode')  BY <1>1 DEF HeaderInv
<1>. QED  BY <1>1, <1>2, <1>4, <1>5, EditNothing

LEMMA MoveMeterStep == HeaderInv /\ MoveMeter => HeaderInv' /\ Kept
<1>. SUFFICES ASSUME HeaderInv, MoveMeter PROVE HeaderInv' /\ Kept  OBVIOUS
<1>1. OnMeters /\ UnchangedOutside /\ mode' = mode /\ focus' = focus /\ failed' \in BOOLEAN
      /\ Recalculated(FALSE, columns', mode)
  BY DEF MoveMeter, HeaderInv
<1>2. PICK to \in {pn.selected, pn.selected + 2} :
          IF to \in DOMAIN col
          THEN /\ columns' = [columns EXCEPT ![focus] = Swap(@, sel, to)]
               /\ panels' = [panels EXCEPT ![focus].items = Swap(@, sel, to), ![focus].selected = to - 1]
          ELSE UNCHANGED <<columns, panels>>
  BY DEF MoveMeter
<1>3. /\ focus \in 1 .. n /\ DOMAIN columns = 1 .. n /\ DOMAIN panels = 1 .. n
      /\ col \in Seq(Meter) /\ Once(col) /\ pn.items = Save(col, mode) /\ PanelFits(pn, col, mode)
      /\ (col # <<>> => sel \in 1 .. Len(col))
  BY <1>1, FocusFacts
<1>4. mode \in [Meter -> DOMAIN Modes] /\ mode' \in [Meter -> DOMAIN Modes]  BY <1>1 DEF HeaderInv
<1>5. CASE to \in DOMAIN col
  <2>1. to \in 1 .. Len(col) /\ sel \in 1 .. Len(col) /\ Len(col) \in Nat
    <3>1. DOMAIN col = 1 .. Len(col) /\ Len(col) \in Nat  BY <1>3, LenProperties
    <3>2. col # <<>>  BY <1>3, <1>5, EmptySeq, <3>1
    <3>. QED  BY <1>3, <1>5, <3>1, <3>2
  <2>. DEFINE s == Swap(col, sel, to)
              items == Swap(pn.items, sel, to)
              p == [pn EXCEPT !.items = items, !.selected = to - 1]
  <2>2. s \in Seq(Meter) /\ Len(s) = Len(col) /\ Once(s) /\ Els(s) = Els(col)
    BY <1>3, <2>1, SwapFacts, SwapOnce
  <2>3. items = Save(s, mode)  BY <1>3, <1>4, <2>1, SaveSwap
  <2>4. items \in Seq(Shown)  BY <1>4, <2>2, <2>3, SaveFacts
  <2>5. columns' = [columns EXCEPT ![focus] = s]  BY <1>2, <1>5 DEF col
  <2>6. panels' = [panels EXCEPT ![focus] = p]  BY <1>2, <1>3, <1>5 DEF pn
  <2>. HIDE DEF s, items
  <2>7. PanelFits(p, s, mode')
    <3>1. pn \in PanelSet /\ to - 1 \in Nat /\ to - 1 < larger(1, Len(s))
      BY <1>3, <2>1, <2>2 DEF PanelFits, larger
    <3>. QED  BY <1>1, <2>3, <2>4, <3>1 DEF PanelFits, PanelSet
  <2>. HIDE DEF p
  <2>8. \A d \in 1 .. n : d # focus => Save(columns[d], mode') = Save(columns[d], mode)  BY <1>1
  <2>9. Els(s) \subseteq Els(col) /\ Els(col) \ Els(s) \subseteq {col[sel]}  BY <2>2
  <2>10. Recalculated(FALSE, columns', mode')  BY <1>1
  <2>. QED  BY <1>1, <1>4, <2>2, <2>5, <2>6, <2>7, <2>8, <2>9, <2>10, EditFocused
<1>6. CASE to \notin DOMAIN col
  <2>1. UNCHANGED <<columns, panels>>  BY <1>2, <1>6
  <2>2. panels \in Seq(PanelSet)  BY DEF HeaderInv, PageInv
  <2>3. panels' = [panels EXCEPT ![focus] = pn]  BY <1>3, <2>1, <2>2 DEF pn
  <2>4. Recalculated(FALSE, columns', mode')  BY <1>1
  <2>. QED  BY <1>1, <1>3, <2>1, <2>3, <2>4, EditNothing
<1>. QED  BY <1>5, <1>6

\* A meter of the column that has the focus is in no other column.
LEMMA FocusedOnly ==
    ASSUME HeaderInv, OnMeters, NEW m \in Els(col), NEW x, mode' = [mode EXCEPT ![m] = x]
    PROVE  \A d \in 1 .. n : d # focus => Save(columns[d], mode') = Save(columns[d], mode)
<1>. SUFFICES ASSUME NEW d \in 1 .. n, d # focus PROVE Save(columns[d], mode') = Save(columns[d], mode)
  OBVIOUS
<1>1. /\ focus \in DOMAIN columns /\ d \in DOMAIN columns /\ columns[d] \in Seq(Meter) /\ Apart(columns)
  BY FocusFacts, ColumnsFacts DEF HeaderInv
<1>2. m \notin Els(columns[d])  BY <1>1 DEF Apart, col
<1>3. mode \in [Meter -> DOMAIN Modes]  BY DEF HeaderInv
<1>. QED  BY <1>1, <1>2, <1>3, SaveOther

LEMMA ModesFacts == Len(Modes) \in Nat \ {0} /\ DOMAIN Modes = 1 .. Len(Modes)
<1>. DEFINE M == [h : Nat \ {0}, text : BOOLEAN]
<1>1. Modes \in Seq(M) /\ Modes # <<>>  BY HeaderAssumption
<1>. HIDE DEF M
<1>. QED  BY <1>1, EmptySeq, LenProperties

LEMMA NextStyleStep == HeaderInv /\ NextStyle => HeaderInv' /\ Kept
<1>. SUFFICES ASSUME HeaderInv, NextStyle PROVE HeaderInv' /\ Kept  OBVIOUS
<1>1. /\ OnMeters /\ UnchangedOutside /\ col # <<>> /\ columns' = columns /\ focus' = focus /\ failed' \in BOOLEAN
      /\ mode' = [mode EXCEPT ![col[sel]] = 1 + (@ % Len(Modes))]
      /\ panels' = [panels EXCEPT ![focus].items[sel] = Item(col[sel], mode')]
      /\ Recalculated(FALSE, columns, mode')
  BY DEF NextStyle, HeaderInv
<1>2. /\ focus \in 1 .. n /\ DOMAIN columns = 1 .. n /\ DOMAIN panels = 1 .. n
      /\ col \in Seq(Meter) /\ Once(col) /\ Els(col) \subseteq Meter
      /\ pn.items = Save(col, mode) /\ PanelFits(pn, col, mode) /\ sel \in 1 .. Len(col)
  BY <1>1, FocusFacts
<1>3. mode \in [Meter -> DOMAIN Modes]  BY DEF HeaderInv
<1>. DEFINE m == col[sel]
            x == 1 + (mode[m] % Len(Modes))
<1>4. m \in Els(col) /\ m \in Meter  BY <1>2, LenProperties DEF Els
<1>5. x \in DOMAIN Modes
  <2>1. mode[m] \in 1 .. Len(Modes)  BY <1>3, <1>4, ModesFacts
  <2>. QED  BY <2>1, ModesFacts
<1>6. mode' = [mode EXCEPT ![m] = x]  BY <1>1, <1>3, <1>4
<1>. HIDE DEF x
<1>7. mode' \in [Meter -> DOMAIN Modes]  BY <1>3, <1>4, <1>5, <1>6
<1>8. Save(col, mode') = [Save(col, mode) EXCEPT ![sel] = Item(m, mode')]  
  <2>1. DOMAIN col = 1 .. Len(col) /\ \A j \in DOMAIN col : col[j] \in Meter /\ (j # sel => col[j] # m)
    BY <1>2, ElementOfSeq, LenProperties DEF Once
  <2>. HIDE DEF m
  <2>2. \A j \in DOMAIN col : j # sel => mode'[col[j]] = mode[col[j]]  BY <1>3, <1>6, <2>1
  <2>3. col[sel] = m  BY DEF m
  <2>. QED  BY <1>2, <2>1, <2>2, <2>3 DEF Save, Item
<1>9. Save(col, mode') \in Seq(Shown)  BY <1>2, <1>7, SaveFacts
<1>. DEFINE p == [pn EXCEPT !.items = Save(col, mode')]
<1>10. panels' = [panels EXCEPT ![focus] = p]
  <2>1. panels' = [panels EXCEPT ![focus].items = [panels[focus].items EXCEPT ![sel] = Item(m, mode')]]  BY <1>1
  <2>2. [panels[focus].items EXCEPT ![sel] = Item(m, mode')] = Save(col, mode')  BY <1>2, <1>8 DEF pn
  <2>. QED  BY <2>1, <2>2 DEF pn
<1>11. PanelFits(p, col, mode')
  <2>1. pn \in PanelSet /\ pn.selected < larger(1, Len(col))  BY <1>2 DEF PanelFits
  <2>. QED  BY <1>9, <2>1 DEF PanelFits, PanelSet
<1>. HIDE DEF p
<1>12. columns \in Seq(Seq(Meter))  BY DEF HeaderInv, ColumnsOK
<1>13. columns' = [columns EXCEPT ![focus] = col]  BY <1>1, <1>2, <1>12 DEF col
<1>14. \A d \in 1 .. n : d # focus => Save(columns[d], mode') = Save(columns[d], mode)
  BY <1>1, <1>4, <1>6, FocusedOnly
<1>15. Els(col) \subseteq Els(col) /\ Els(col) \ Els(col) \subseteq {col[sel]}  OBVIOUS
<1>16. Recalculated(FALSE, columns', mode')  BY <1>1
<1>. QED  BY <1>1, <1>2, <1>7, <1>10, <1>11, <1>13, <1>14, <1>15, <1>16, EditFocused

\* A meter is taken from the panel as it is from the column.
LEMMA RemoveFits ==
    ASSUME NEW s \in Seq(Meter), NEW md \in [Meter -> DOMAIN Modes], NEW p, PanelFits(p, s, md),
           NEW i \in 1 .. Len(s), i = p.selected + 1
    PROVE  LET q == Panel_remove(p, i)
           IN q \in PanelSet /\ q.items = Save(SX!RemoveAt(s, i), md) /\ q.selected < larger(1, Len(s) - 1)
<1>. DEFINE t == SX!RemoveAt(s, i)
            items == SX!RemoveAt(p.items, i)
            selected == IF p.selected > 0 /\ p.selected >= Len(p.items) - 1 THEN p.selected - 1 ELSE p.selected
            q == Panel_remove(p, i)
<1>1. p \in PanelSet /\ p.items = Save(s, md) /\ Len(p.items) = Len(s) /\ p.selected \in Nat /\ Len(s) \in Nat
  BY SaveFacts, LenProperties DEF PanelFits, PanelSet
<1>2. t \in Seq(Meter)  BY RemoveFacts
<1>3. items = Save(t, md)  BY <1>1, SaveRemove
<1>4. items \in Seq(Shown)  BY <1>2, <1>3, SaveFacts
<1>5. selected \in Nat /\ selected < larger(1, Len(s) - 1)  BY <1>1 DEF larger
<1>6. q = [p EXCEPT !.items = items, !.selected = selected]  BY <1>1 DEF Panel_remove, PanelSet
<1>. HIDE DEF items, selected, q
<1>7. q \in PanelSet /\ q.items = items /\ q.selected = selected  BY <1>1, <1>4, <1>5, <1>6 DEF PanelSet
<1>. QED  BY <1>3, <1>5, <1>7 DEF q

LEMMA DeleteMeterStep == HeaderInv /\ DeleteMeter => HeaderInv' /\ Kept
<1>. SUFFICES ASSUME HeaderInv, DeleteMeter PROVE HeaderInv' /\ Kept  OBVIOUS
<1>1. /\ OnMeters /\ UnchangedOutside /\ col # <<>> /\ focus' = focus /\ failed' \in BOOLEAN
      /\ mode' = [mode EXCEPT ![col[sel]] = 1]
      /\ Recalculated(FALSE, columns', mode')
  BY DEF DeleteMeter, HeaderInv
<1>2. /\ focus \in 1 .. n /\ DOMAIN columns = 1 .. n /\ DOMAIN panels = 1 .. n
      /\ col \in Seq(Meter) /\ Once(col) /\ PanelFits(pn, col, mode) /\ sel \in 1 .. Len(col)
  BY <1>1, FocusFacts
<1>3. mode \in [Meter -> DOMAIN Modes]  BY DEF HeaderInv
<1>. DEFINE m == col[sel]
            s == SX!RemoveAt(col, sel)
            q == Panel_remove(pn, sel)
            p == SetMoving(q, FALSE)
<1>4. m \in Els(col) /\ m \in Meter  BY <1>2, ElementOfSeq, LenProperties DEF Els
<1>5. mode' \in [Meter -> DOMAIN Modes]
  <2>1. 1 \in DOMAIN Modes  BY ModesFacts
  <2>. QED  BY <1>1, <1>3, <1>4, <2>1
<1>6. s \in Seq(Meter) /\ Len(s) = Len(col) - 1 /\ Once(s) /\ Els(s) = Els(col) \ {m}
  BY <1>2, RemoveFacts, RemoveOnce
<1>7. Save(s, mode') = Save(s, mode)  BY <1>1, <1>3, <1>6, SaveOther
<1>8. q \in PanelSet /\ q.items = Save(s, mode) /\ q.selected < larger(1, Len(col) - 1)
  BY <1>2, <1>3, RemoveFits DEF sel
<1>9. columns' = [columns EXCEPT ![focus] = s] /\ panels' = [panels EXCEPT ![focus] = p]
  BY DEF DeleteMeter, col, pn
<1>. HIDE DEF q, s
<1>10. PanelFits(p, s, mode')  BY <1>6, <1>7, <1>8 DEF PanelFits, PanelSet, SetMoving
<1>11. \A d \in 1 .. n : d # focus => Save(columns[d], mode') = Save(columns[d], mode)
  BY <1>1, <1>4, FocusedOnly
<1>12. Els(s) \subseteq Els(col) /\ Els(col) \ Els(s) \subseteq {col[sel]}  BY <1>6
<1>. HIDE DEF p
<1>. QED  BY <1>1, <1>5, <1>6, <1>9, <1>10, <1>11, <1>12, EditFocused

LEMMA AddMeterStep == HeaderInv /\ AddMeter => HeaderInv' /\ Kept
<1>. SUFFICES ASSUME HeaderInv, AddMeter PROVE HeaderInv' /\ Kept  OBVIOUS
<1>1. /\ page = "meters" /\ page' = page /\ hColumns' = hColumns /\ mode' = mode /\ failed' \in BOOLEAN
      /\ Recalculated(FALSE, columns', mode)
  BY DEF AddMeter, UnchangedOutside, HeaderInv
<1>. PICK m \in Meter \ MetersOf(columns), last \in BOOLEAN :
          LET c == IF last THEN n ELSE 1
              added == [panels[c] EXCEPT !.items = Append(@, Item(m, mode))]
          IN /\ columns' = [columns EXCEPT ![c] = Append(@, m)]
             /\ panels' = [panels EXCEPT ![c] = SetMoving(Panel_setSelected(added, Len(added.items) - 1), TRUE)]
             /\ focus' = IF last THEN n ELSE focus
  BY DEF AddMeter
<1>. DEFINE c == IF last THEN n ELSE 1
            s == Append(columns[c], m)
            items == Append(panels[c].items, Item(m, mode))
            added == [panels[c] EXCEPT !.items = items]
            p == SetMoving(Panel_setSelected(added, Len(added.items) - 1), TRUE)
<1>2. /\ n \in Nat \ {0} /\ DOMAIN columns = 1 .. n
      /\ \A d \in 1 .. n : columns[d] \in Seq(Meter) /\ Once(columns[d])
      /\ mode \in [Meter -> DOMAIN Modes]
  BY ColumnsFacts DEF HeaderInv, n
<1>3. c \in 1 .. n  BY <1>2
<1>4. DOMAIN panels = 1 .. n /\ PanelFits(panels[c], columns[c], mode)
  BY <1>1, <1>3, LenProperties DEF HeaderInv, PageInv
<1>5. columns' = [columns EXCEPT ![c] = s]  OBVIOUS
<1>6. panels' = [panels EXCEPT ![c] = p]  BY <1>4
<1>7. focus' \in 0 .. n + 1  BY <1>1, <1>2 DEF HeaderInv, PageInv, Panels
<1>. HIDE DEF c
<1>8. m \in Meter \ Els(columns[c])  BY <1>2, <1>3, MetersByColumn
<1>9. columns[c] \in Seq(Meter) /\ Once(columns[c]) /\ Len(columns[c]) \in Nat  BY <1>2, <1>3, LenProperties
<1>10. s \in Seq(Meter) /\ Len(s) = Len(columns[c]) + 1 /\ Once(s) /\ Els(s) = Els(columns[c]) \cup {m}
  BY <1>8, <1>9, AppendProperties, AppendOnce
<1>11. items = Save(s, mode)  BY <1>2, <1>4, <1>9, SaveAppend DEF PanelFits
<1>12. items \in Seq(Shown) /\ Len(items) = Len(s)  BY <1>2, <1>10, <1>11, SaveFacts
<1>. HIDE DEF s, items
<1>13. added \in PanelSet /\ added.items = items  BY <1>4, <1>12 DEF PanelFits, PanelSet
<1>. HIDE DEF added
<1>14. Len(s) \in Nat \ {0} /\ Len(added.items) = Len(s)  BY <1>9, <1>10, <1>12, <1>13
<1>15. PanelFits(p, s, mode')
  <2>1. p = [added EXCEPT !.selected = larger(0, smaller(Len(s) - 1, Len(s) - 1)), !.moving = TRUE]
    BY <1>14 DEF Panel_setSelected, SetMoving
  <2>2. larger(0, smaller(Len(s) - 1, Len(s) - 1)) = Len(s) - 1 /\ Len(s) - 1 \in Nat /\ Len(s) - 1 < larger(1, Len(s))
    BY <1>14 DEF larger, smaller
  <2>. QED  BY <1>1, <1>11, <1>13, <2>1, <2>2 DEF PanelFits, PanelSet
<1>. HIDE DEF p
<1>16. \A k \in Els(s) : k \in Els(columns[c]) \/ k \notin MetersOf(columns)  BY <1>10
<1>17. \A d \in 1 .. n : d # c => Save(columns[d], mode') = Save(columns[d], mode)  BY <1>1
<1>18. mode' \in [Meter -> DOMAIN Modes] /\ Recalculated(FALSE, columns', mode')  BY <1>1, <1>2
<1>19. /\ HeaderInv' /\ EachOnce(columns')
       /\ MetersOf(columns) \ MetersOf(columns') \subseteq Els(columns[c]) \ Els(s)
  BY <1>1, <1>3, <1>5, <1>6, <1>7, <1>10, <1>15, <1>16, <1>17, <1>18, EditOne
<1>20. Els(columns[c]) \ Els(s) = {}  BY <1>10
<1>. QED  BY <1>19, <1>20 DEF Kept

\* A meter is put into a panel as it is into the column.
LEMMA InsertFits ==
    ASSUME NEW s \in Seq(Meter), NEW md \in [Meter -> DOMAIN Modes], NEW p, PanelFits(p, s, md),
           NEW i \in Nat \ {0}, NEW m \in Meter
    PROVE  PanelFits(SetMoving(Panel_setSelected(Panel_insert(p, i, Item(m, md)), i - 1), TRUE),
                     Vector_insert(s, i, m), md)
<1>. DEFINE at == smaller(i, Len(s) + 1)
            t == Vector_insert(s, i, m)
            items == SX!InsertAt(p.items, at, Item(m, md))
            q == Panel_insert(p, i, Item(m, md))
            selected == larger(0, smaller(i - 1, Len(items) - 1))
            r == SetMoving(Panel_setSelected(q, i - 1), TRUE)
<1>1. p \in PanelSet /\ p.items = Save(s, md) /\ Len(p.items) = Len(s) /\ Len(s) \in Nat
  BY SaveFacts, LenProperties DEF PanelFits
<1>2. at \in 1 .. Len(s) + 1  BY <1>1 DEF smaller
<1>. HIDE DEF at
<1>3. t = SX!InsertAt(s, at, m)  BY DEF Vector_insert, at
<1>4. t \in Seq(Meter) /\ Len(t) = Len(s) + 1  BY <1>2, <1>3, InsertFacts
<1>5. items = Save(t, md)  BY <1>1, <1>2, <1>3, SaveInsert
<1>6. items \in Seq(Shown) /\ Len(items) = Len(t)  BY <1>4, <1>5, SaveFacts
<1>7. q = [p EXCEPT !.items = items]  BY <1>1 DEF Panel_insert, at
<1>. HIDE DEF items, q, t
<1>8. q \in PanelSet /\ q.items = items  BY <1>1, <1>6, <1>7 DEF PanelSet
<1>9. selected \in Nat /\ selected < larger(1, Len(t))  BY <1>1, <1>4, <1>6 DEF larger, smaller
<1>10. r = [q EXCEPT !.selected = selected, !.moving = TRUE]  BY <1>8 DEF Panel_setSelected, SetMoving
<1>. HIDE DEF selected, r
<1>11. r \in PanelSet /\ r.items = items /\ r.selected = selected  BY <1>8, <1>9, <1>10 DEF PanelSet
<1>12. PanelFits(r, t, md)  BY <1>5, <1>9, <1>11 DEF PanelFits
<1>. QED  BY <1>12 DEF r, q, t

LEMMA MoveToNeighborStep == HeaderInv /\ MoveToNeighbor => HeaderInv' /\ Kept
<1>. SUFFICES ASSUME HeaderInv, MoveToNeighbor PROVE HeaderInv' /\ Kept  OBVIOUS
<1>1. /\ OnMeters /\ UnchangedOutside /\ col # <<>> /\ mode' = mode /\ failed' \in BOOLEAN
      /\ Recalculated(TRUE, columns', mode)
  BY DEF MoveToNeighbor, HeaderInv
<1>. PICK d \in {focus - 1, focus + 1} \cap 1..n :
          /\ columns' = [columns EXCEPT ![focus] = SX!RemoveAt(@, sel),
                                        ![d] = Vector_insert(@, sel, col[sel])]
          /\ panels' = [panels EXCEPT
                ![focus] = Panel_remove(SetMoving(pn, FALSE), sel),
                ![d] = SetMoving(Panel_setSelected(Panel_insert(@, sel, Item(col[sel], mode)), sel - 1), TRUE)]
          /\ focus' = d
  BY DEF MoveToNeighbor
<1>2. /\ n \in Nat \ {0} /\ focus \in 1 .. n /\ DOMAIN columns = 1 .. n /\ DOMAIN panels = 1 .. n
      /\ col \in Seq(Meter) /\ Once(col) /\ PanelFits(pn, col, mode)
      /\ sel \in 1 .. Len(col) /\ sel \in Nat \ {0}
  BY <1>1, FocusFacts
<1>3. d \in 1 .. n /\ d # focus  BY <1>2
<1>4. mode \in [Meter -> DOMAIN Modes] /\ ColumnsOK(columns)  BY DEF HeaderInv
<1>5. columns[d] \in Seq(Meter) /\ Once(columns[d]) /\ Apart(columns)  BY <1>2, <1>3, <1>4, ColumnsFacts
<1>. DEFINE m == col[sel]
            at == smaller(sel, Len(columns[d]) + 1)
            s1 == SX!RemoveAt(col, sel)
            s2 == Vector_insert(columns[d], sel, m)
            mid == [columns EXCEPT ![focus] = s1]
            cols2 == [mid EXCEPT ![d] = s2]
            p1 == Panel_remove(SetMoving(pn, FALSE), sel)
            p2 == SetMoving(Panel_setSelected(Panel_insert(panels[d], sel, Item(m, mode)), sel - 1), TRUE)
<1>6. columns' = cols2  BY <1>2, <1>3 DEF col
<1>7. DOMAIN panels' = 1 .. n /\ panels'[focus] = p1 /\ panels'[d] = p2
      /\ \A c \in 1 .. n : c # focus /\ c # d => panels'[c] = panels[c]
  BY <1>2, <1>3
<1>8. m \in Meter /\ m \in Els(col) /\ m \notin Els(columns[d])
  <2>1. m \in Els(col)  BY <1>2, LenProperties DEF Els
  <2>2. m \in Meter  BY <1>2, ElementOfSeq
  <2>. QED  BY <1>2, <1>3, <1>5, <2>1, <2>2 DEF Apart, col
<1>. HIDE DEF m
<1>9. s1 \in Seq(Meter) /\ Len(s1) = Len(col) - 1 /\ Once(s1) /\ Els(s1) = Els(col) \ {m}
  BY <1>2, RemoveFacts, RemoveOnce DEF m
<1>. HIDE DEF s1
<1>10. s2 \in Seq(Meter) /\ Once(s2) /\ Els(s2) = Els(columns[d]) \cup {m}
  <2>1. at \in 1 .. Len(columns[d]) + 1
    <3>1. Len(columns[d]) \in Nat  BY <1>5, LenProperties
    <3>. QED  BY <1>2, <3>1 DEF smaller
  <2>2. s2 = SX!InsertAt(columns[d], at, m)  BY DEF Vector_insert
  <2>. HIDE DEF at
  <2>3. m \in Meter \ Els(columns[d])  BY <1>8
  <2>. QED  BY <1>5, <1>8, <2>1, <2>2, <2>3, InsertFacts, InsertOnce
<1>. HIDE DEF s2, at
<1>11. /\ ColumnsOK(mid) /\ Len(mid) = Len(columns) /\ DOMAIN mid = 1 .. n
       /\ \A c \in 1 .. n : mid[c] = IF c = focus THEN s1 ELSE columns[c]
       /\ MetersOf(mid) = (MetersOf(columns) \ Els(col)) \cup Els(s1)
  <2>1. focus \in DOMAIN columns /\ \A k \in Els(s1) : k \in Els(columns[focus]) \/ k \notin MetersOf(columns)
    BY <1>2, <1>9 DEF col
  <2>. QED  BY <1>2, <1>4, <1>9, <2>1, ReplaceColumn DEF col
<1>. HIDE DEF mid
<1>12. mid[d] = columns[d]  BY <1>3, <1>11
<1>13. /\ ColumnsOK(cols2) /\ Len(cols2) = Len(mid)
       /\ \A c \in 1 .. n : cols2[c] = IF c = d THEN s2 ELSE mid[c]
       /\ MetersOf(cols2) = (MetersOf(mid) \ Els(columns[d])) \cup Els(s2)
  <2>1. d \in DOMAIN mid /\ \A k \in Els(s2) : k \in Els(mid[d]) \/ k \notin MetersOf(mid)
    BY <1>3, <1>8, <1>9, <1>10, <1>11, <1>12
  <2>. QED  BY <1>10, <1>11, <1>12, <2>1, ReplaceColumn
<1>. HIDE DEF cols2
<1>14. MetersOf(columns) \subseteq MetersOf(columns')  BY <1>6, <1>9, <1>10, <1>11, <1>13
<1>15. PanelFits(p1, s1, mode)
  <2>1. PanelFits(SetMoving(pn, FALSE), col, mode) /\ sel = SetMoving(pn, FALSE).selected + 1
    BY <1>2 DEF PanelFits, PanelSet, SetMoving, sel
  <2>2. p1 \in PanelSet /\ p1.items = Save(s1, mode) /\ p1.selected < larger(1, Len(col) - 1)
    BY <1>2, <1>4, <2>1, RemoveFits DEF s1
  <2>. QED  BY <1>9, <2>2 DEF PanelFits
<1>16. PanelFits(p2, s2, mode)
  <2>1. PanelFits(panels[d], columns[d], mode)  BY <1>1, <1>3 DEF HeaderInv, PageInv, OnMeters
  <2>. QED  BY <1>2, <1>4, <1>5, <1>8, <2>1, InsertFits DEF s2
<1>. HIDE DEF p1, p2
<1>17. n' = n  BY <1>6, <1>11, <1>13 DEF n
<1>18. ASSUME NEW c \in 1 .. n PROVE PanelFits(panels'[c], columns'[c], mode)
  <2>1. CASE c = focus  BY <1>3, <1>6, <1>7, <1>11, <1>13, <1>15, <2>1
  <2>2. CASE c = d  BY <1>6, <1>7, <1>13, <1>16, <2>2
  <2>3. CASE c # focus /\ c # d
    <3>1. panels'[c] = panels[c] /\ columns'[c] = columns[c]  BY <1>6, <1>7, <1>11, <1>13, <2>3
    <3>. QED  BY <1>1, <3>1 DEF HeaderInv, PageInv, OnMeters
  <2>. QED  BY <2>1, <2>2, <2>3
<1>19. PageInv'
  <2>1. page' = "meters"  BY <1>1 DEF UnchangedOutside, OnMeters
  <2>2. focus' \in 0 .. Panels'  BY <1>2, <1>3, <1>17, <2>1 DEF Panels
  <2>3. panels' \in Seq(PanelSet) /\ Len(panels') = n
    <3>1. panels \in Seq(PanelSet) /\ Len(panels) = n  BY <1>1 DEF HeaderInv, PageInv, OnMeters
    <3>2. p1 \in PanelSet /\ p2 \in PanelSet  BY <1>15, <1>16 DEF PanelFits
    <3>3. panels' = [[panels EXCEPT ![focus] = p1] EXCEPT ![d] = p2]  BY <1>2, <1>3 DEF p1, p2, m
    <3>4. [panels EXCEPT ![focus] = p1] \in Seq(PanelSet) /\ Len([panels EXCEPT ![focus] = p1]) = n
      BY <1>2, <3>1, <3>2, ExceptSeq
    <3>. DEFINE half == [panels EXCEPT ![focus] = p1]
    <3>. HIDE DEF half
    <3>5. [half EXCEPT ![d] = p2] \in Seq(PanelSet) /\ Len([half EXCEPT ![d] = p2]) = n
      BY <1>3, <3>2, <3>4, ExceptSeq DEF half
    <3>. QED  BY <3>3, <3>5 DEF half
  <2>. QED  BY <1>1, <1>17, <1>18, <2>1, <2>2, <2>3 DEF PageInv
<1>20. LinesInv' /\ changed' = TRUE  BY <1>1 DEF Recalculated, Header_calculateHeight, LinesInv
<1>21. HeaderInv'
  <2>1. ColumnsOK(columns') /\ mode' \in [Meter -> DOMAIN Modes]  BY <1>1, <1>4, <1>6, <1>13
  <2>2. hColumns' = hColumns /\ page' # "closed"  BY <1>1 DEF UnchangedOutside, OnMeters
  <2>. QED  BY <1>1, <1>19, <1>20, <2>1, <2>2, EditStep
<1>. QED  BY <1>6, <1>13, <1>14, <1>21 DEF Kept, ColumnsOK

\* A step that leaves the columns keeps their meters.
LEMMA SameKept == HeaderInv /\ columns' = columns => Kept
BY DEF HeaderInv, ColumnsOK, Kept

LEMMA SelectFits ==
    ASSUME NEW s \in Seq(Meter), NEW md \in [Meter -> DOMAIN Modes], NEW p, PanelFits(p, s, md), NEW i \in Int
    PROVE  PanelFits(Panel_setSelected(p, i), s, md)
<1>. DEFINE selected == larger(0, smaller(i, Len(p.items) - 1))
            q == Panel_setSelected(p, i)
<1>1. p \in PanelSet /\ p.items = Save(s, md) /\ Len(p.items) = Len(s) /\ Len(s) \in Nat
  BY SaveFacts, LenProperties DEF PanelFits
<1>2. selected \in Nat /\ selected < larger(1, Len(s))  BY <1>1 DEF larger, smaller
<1>3. q = [p EXCEPT !.selected = selected]  BY DEF Panel_setSelected
<1>. HIDE DEF selected, q
<1>4. q \in PanelSet /\ q.items = p.items /\ q.selected = selected  BY <1>1, <1>2, <1>3 DEF PanelSet
<1>. QED  BY <1>1, <1>2, <1>4 DEF PanelFits, q

\* A selection moves in one panel.
LEMMA SelectStep ==
    ASSUME HeaderInv, page = "meters", NEW c \in 1 .. n, NEW i \in Int,
           panels' = [panels EXCEPT ![c] = Panel_setSelected(@, i)], focus' \in 0 .. n + 1,
           UNCHANGED <<headerVars, hColumns, changed, page, failed>>
    PROVE  HeaderInv' /\ Kept
<1>1. columns' = columns /\ mode' = mode /\ page' = page /\ n' = n  BY DEF headerVars, n
<1>2. n \in Nat /\ columns[c] \in Seq(Meter) /\ mode \in [Meter -> DOMAIN Modes]
      /\ \A d \in 1 .. n : PanelFits(panels[d], columns[d], mode)
  BY ColumnsFacts DEF HeaderInv, PageInv, n
<1>. DEFINE p == Panel_setSelected(panels[c], i)
            panels2 == [panels EXCEPT ![c] = p]
<1>3. PanelFits(p, columns[c], mode)  BY <1>2, SelectFits
<1>4. panels' = panels2  OBVIOUS
<1>. HIDE DEF p
<1>5. p \in PanelSet  BY <1>3 DEF PanelFits
<1>6. /\ panels2 \in Seq(PanelSet) /\ Len(panels2) = n
      /\ \A d \in 1 .. n : panels2[d] = IF d = c THEN p ELSE panels[d]
  BY <1>5, ReplacePanel
<1>. HIDE DEF panels2
<1>7. \A d \in 1 .. n : PanelFits(panels2[d], columns[d], mode)  BY <1>2, <1>3, <1>6
<1>8. Panels' = n + 1  BY <1>1 DEF Panels
<1>9. PageInv'  BY <1>1, <1>4, <1>6, <1>7, <1>8 DEF PageInv
<1>. QED  BY <1>1, <1>9, QuietStep, SameKept

LEMMA SelectMeterStep == HeaderInv /\ SelectMeter => HeaderInv' /\ Kept
<1>. SUFFICES ASSUME HeaderInv, SelectMeter PROVE HeaderInv' /\ Kept  OBVIOUS
<1>1. OnMeters /\ UNCHANGED <<headerVars, hColumns, changed, page, failed>> /\ focus' = focus  BY DEF SelectMeter
<1>2. n \in Nat \ {0} /\ focus \in 1 .. n /\ pn \in PanelSet  BY <1>1, FocusFacts DEF PanelFits
<1>3. PICK i \in (IF pn.moving THEN {0, n} ELSE {pn.selected - 1, pn.selected + 1, 0, n}) :
          panels' = [panels EXCEPT ![focus] = Panel_setSelected(@, i)]
  BY DEF SelectMeter
<1>4. i \in Int
  <2>1. pn.selected \in Nat  BY <1>2 DEF PanelSet
  <2>. QED  BY <1>2, <2>1
<1>5. focus' \in 0 .. n + 1 /\ page = "meters"  BY <1>1, <1>2 DEF OnMeters
<1>. QED  BY <1>1, <1>2, <1>3, <1>4, <1>5, SelectStep

LEMMA ClickStep == HeaderInv /\ Click => HeaderInv' /\ Kept
<1>. SUFFICES ASSUME HeaderInv, Click PROVE HeaderInv' /\ Kept  OBVIOUS
<1>1. /\ page \in {"meters", "other"} /\ focus' \in 1 .. Panels
      /\ UNCHANGED <<headerVars, hColumns, changed, page, failed>>
  BY DEF Click
<1>2. n \in Nat  BY ColumnsFacts DEF HeaderInv, n
<1>3. CASE page = "meters" /\ focus' \in 1 .. n
  <2>1. PICK i \in 0 .. Cardinality(Meter) : panels' = [panels EXCEPT ![focus'] = Panel_setSelected(@, i)]
    BY <1>3 DEF Click
  <2>2. i \in Int  BY HeaderAssumption, FS_CardinalityType
  <2>3. focus' \in 0 .. n + 1  BY <1>2, <1>3
  <2>. QED  BY <1>1, <1>3, <2>1, <2>2, <2>3, SelectStep
<1>4. CASE ~(page = "meters" /\ focus' \in 1 .. n)
  <2>1. panels' = panels  BY <1>1, <1>4 DEF Click
  <2>2. columns' = columns /\ mode' = mode /\ page' = page /\ n' = n  BY <1>1 DEF headerVars, n
  <2>3. Panels' = Panels /\ Panels \in Nat  BY <1>2, <2>2 DEF Panels
  <2>4. focus' \in 0 .. Panels'  BY <1>1, <2>3
  <2>5. PageInv'  BY <2>1, <2>2, <2>4 DEF HeaderInv, PageInv
  <2>. QED  BY <1>1, <2>2, <2>5, QuietStep, SameKept
<1>. QED  BY <1>3, <1>4

LEMMA MoveFocusStep == HeaderInv /\ MoveFocus => HeaderInv' /\ Kept
<1>. SUFFICES ASSUME HeaderInv, MoveFocus PROVE HeaderInv' /\ Kept  OBVIOUS
<1>1. focus' \in {Left, Right} /\ UNCHANGED <<headerVars, hColumns, changed, page, panels, failed>>
  BY DEF MoveFocus
<1>2. n \in Nat  BY ColumnsFacts DEF HeaderInv, n
<1>3. focus \in 0 .. Panels /\ Panels \in Nat  BY <1>2 DEF HeaderInv, PageInv, Panels
<1>4. Left \in 0 .. Panels
  <2>1. CASE focus = 0  BY <1>3, <2>1 DEF Left
  <2>2. CASE focus # 0
    <3>. DEFINE S == {f \in 0 .. (focus - 1) : Filled(f)}
                P(f) == f \in 0 .. (focus - 1) /\ Filled(f) /\ \A g \in (f + 1)..(focus - 1) : ~Filled(g)
    <3>1. 0 \in S  BY <1>3, <2>2 DEF Filled
    <3>2. S \in SUBSET Int /\ S # {} /\ focus \in Int /\ \A x \in S : x <= focus  BY <1>3, <3>1
    <3>3. PICK f \in S : \A g \in S : f >= g
      <4>. HIDE DEF S
      <4>. QED  BY <3>2, GreatestExists
    <3>4. P(f)
      <4>1. ASSUME NEW g \in (f + 1) .. (focus - 1), Filled(g) PROVE FALSE
        <5>1. f \in Int /\ f >= 0 /\ g \in 0 .. (focus - 1)  BY <1>3
        <5>2. g \in S  BY <4>1, <5>1
        <5>3. f >= g /\ g >= f + 1  BY <1>3, <3>3, <5>1, <5>2
        <5>. QED  BY <5>1, <5>3
      <4>. QED  BY <4>1
    <3>5. Left = CHOOSE g \in 0 .. (focus - 1) : Filled(g) /\ \A e \in (g + 1)..(focus - 1) : ~Filled(e)
      BY <2>2 DEF Left
    <3>6. Left \in 0 .. (focus - 1)  BY <3>4, <3>5
    <3>. QED  BY <1>3, <3>6
  <2>. QED  BY <2>1, <2>2
<1>5. Right \in 0 .. Panels
  <2>1. CASE focus = Panels  BY <1>3, <2>1 DEF Right
  <2>2. CASE focus # Panels
    <3>. DEFINE S == {f \in (focus + 1) .. Panels : Filled(f) \/ f = Panels}
                P(f) == /\ f \in (focus + 1) .. Panels /\ (Filled(f) \/ f = Panels)
                        /\ \A g \in (focus + 1)..(f - 1) : ~Filled(g)
    <3>1. Panels \in S  BY <1>3, <2>2
    <3>2. S \in SUBSET Nat /\ S # {}  BY <1>3, <3>1
    <3>3. PICK f \in S : \A g \in S : f <= g
      <4>. HIDE DEF S
      <4>. QED  BY <3>2, LeastExists
    <3>4. P(f)
      <4>1. ASSUME NEW g \in (focus + 1) .. (f - 1), Filled(g) PROVE FALSE
        <5>1. f \in Nat /\ f <= Panels /\ g \in (focus + 1) .. Panels  BY <1>3
        <5>2. g \in S  BY <4>1, <5>1
        <5>3. f <= g /\ g <= f - 1  BY <1>3, <3>3, <5>1, <5>2
        <5>. QED  BY <1>3, <5>1, <5>3
      <4>. QED  BY <4>1
    <3>5. Right = CHOOSE g \in (focus + 1)..Panels : /\ Filled(g) \/ g = Panels
                                                     /\ \A e \in (focus + 1)..(g - 1) : ~Filled(e)
      BY <2>2 DEF Right
    <3>6. Right \in (focus + 1) .. Panels  BY <3>4, <3>5
    <3>. QED  BY <1>3, <3>6
  <2>. QED  BY <2>1, <2>2
<1>6. columns' = columns /\ mode' = mode /\ page' = page /\ n' = n /\ panels' = panels  BY <1>1 DEF headerVars, n
<1>7. Panels' = Panels  BY <1>6 DEF Panels
<1>8. PageInv'  BY <1>1, <1>4, <1>5, <1>6, <1>7 DEF HeaderInv, PageInv
<1>. QED  BY <1>1, <1>6, <1>8, QuietStep, SameKept

LEMMA RunSetupStep == HeaderInv /\ Action_runSetup => HeaderInv' /\ Kept
<1>. SUFFICES ASSUME HeaderInv, Action_runSetup PROVE HeaderInv' /\ Kept  OBVIOUS
<1>1. /\ page = "closed" /\ page' = "other" /\ focus' = 0
      /\ UNCHANGED <<headerVars, hColumns, changed, panels, failed>>
  BY DEF Action_runSetup
<1>2. panels' \in Seq(PanelSet) /\ panels' = <<>>  BY <1>1 DEF HeaderInv, PageInv
<1>3. focus' \in 0 .. Panels'  BY <1>1 DEF Panels
<1>4. PageInv'  BY <1>1, <1>2, <1>3 DEF PageInv
<1>5. columns' = columns  BY <1>1 DEF headerVars
<1>. QED  BY <1>1, <1>4, <1>5, QuietStep, SameKept

LEMMA LeaveStep == HeaderInv /\ Leave => HeaderInv' /\ Kept
<1>. SUFFICES ASSUME HeaderInv, Leave PROVE HeaderInv' /\ Kept  OBVIOUS
<1>1. /\ page' = "closed" /\ panels' = <<>> /\ focus' = 0
      /\ hColumns' = IF changed THEN Header_writeBackToSettings ELSE hColumns
      /\ UNCHANGED <<headerVars, changed, failed>>
  BY DEF Leave
<1>2. columns' = columns /\ mode' = mode /\ spans' = spans /\ height' = height
  BY <1>1 DEF headerVars
<1>3. focus' \in 0 .. Panels'  BY <1>1 DEF Panels
<1>4. PageInv'  BY <1>1, <1>3 DEF PageInv
<1>5. Header_writeBackToSettings' = Header_writeBackToSettings  BY <1>2 DEF Header_writeBackToSettings, n
<1>6. SavedInv'
  <2>1. hColumns' = Header_writeBackToSettings  BY <1>1 DEF HeaderInv, SavedInv
  <2>2. \A c \in DOMAIN hColumns' : hColumns'[c] \in Seq(Shown)  BY <2>1, WrittenType DEF HeaderInv
  <2>. QED  BY <1>5, <2>1, <2>2 DEF SavedInv
<1>7. LinesInv'  BY <1>2 DEF HeaderInv, LinesInv
<1>8. HeaderInv'  BY <1>1, <1>2, <1>4, <1>6, <1>7 DEF HeaderInv
<1>. QED  BY <1>2, <1>8, SameKept

LEMMA SelectCategoryStep == HeaderInv /\ SelectCategory => HeaderInv' /\ Kept
<1>. SUFFICES ASSUME HeaderInv, SelectCategory PROVE HeaderInv' /\ Kept  OBVIOUS
<1>1. /\ focus' = 0 /\ page' \in {"other", "layout", "meters"}
      /\ panels' = IF page' = "meters" THEN [c \in 1..n |-> MetersPanel_new(columns[c])] ELSE <<>>
      /\ UNCHANGED <<headerVars, hColumns, changed, failed>>
  BY DEF SelectCategory
<1>2. columns' = columns /\ mode' = mode /\ n' = n  BY <1>1 DEF headerVars, n
<1>3. n \in Nat \ {0} /\ mode \in [Meter -> DOMAIN Modes] /\ \A c \in 1 .. n : columns[c] \in Seq(Meter)
  BY ColumnsFacts DEF HeaderInv, n
<1>4. ASSUME NEW c \in 1 .. n
      PROVE  MetersPanel_new(columns[c]) \in PanelSet /\ PanelFits(MetersPanel_new(columns[c]), columns[c], mode)
  <2>. DEFINE p == MetersPanel_new(columns[c])
  <2>1. p = [items |-> Save(columns[c], mode), selected |-> 0, moving |-> FALSE]
    BY DEF MetersPanel_new, Item, Save
  <2>2. Save(columns[c], mode) \in Seq(Shown)  BY <1>3, SaveFacts
  <2>. HIDE DEF p
  <2>3. p \in PanelSet /\ p.items = Save(columns[c], mode) /\ p.selected = 0  BY <2>1, <2>2 DEF PanelSet
  <2>4. 0 < larger(1, Len(columns[c]))
    <3>1. Len(columns[c]) \in Nat  BY <1>3, LenProperties
    <3>. QED  BY <3>1 DEF larger
  <2>. QED  BY <2>3, <2>4 DEF PanelFits, p
<1>5. focus' \in 0 .. Panels'  BY <1>1, <1>2, <1>3 DEF Panels
<1>6. ASSUME page' = "meters" PROVE PageInv'
  <2>. DEFINE panels2 == [c \in 1 .. n |-> MetersPanel_new(columns[c])]
  <2>1. panels2 \in Seq(PanelSet) /\ Len(panels2) = n /\ \A c \in 1 .. n : panels2[c] = MetersPanel_new(columns[c])
    BY <1>3, <1>4
  <2>2. panels' = panels2  BY <1>1, <1>6
  <2>. HIDE DEF panels2
  <2>3. \A c \in 1 .. n : PanelFits(panels2[c], columns[c], mode)  BY <1>4, <2>1
  <2>. QED  BY <1>2, <1>5, <1>6, <2>1, <2>2, <2>3 DEF PageInv
<1>7. ASSUME page' # "meters" PROVE PageInv'  BY <1>1, <1>5, <1>7 DEF PageInv
<1>8. PageInv'  BY <1>6, <1>7
<1>9. HeaderInv'  BY <1>1, <1>8, QuietStep
<1>. QED  BY <1>2, <1>9, SameKept

LEMMA ChooseLayoutStep == HeaderInv /\ ChooseLayout => HeaderInv' /\ Kept
<1>. SUFFICES ASSUME HeaderInv, ChooseLayout PROVE HeaderInv' /\ Kept  OBVIOUS
<1>1. /\ page = "layout" /\ focus' = 1 /\ changed' = TRUE
      /\ UNCHANGED <<mode, hColumns, page, panels, failed>>
  BY DEF ChooseLayout
<1>2. PICK k \in Layouts :
         /\ columns' = Header_setLayout(columns, k)
         /\ IF k = n THEN UNCHANGED <<spans, height>> ELSE Header_calculateHeight(columns', mode)
  BY DEF ChooseLayout
<1>3. /\ ColumnsOK(columns') /\ MetersOf(columns') = MetersOf(columns)
      /\ (k = n => columns' = columns)
  BY <1>2, LayoutFacts DEF HeaderInv, n
<1>4. LinesInv'
  <2>1. CASE k = n  BY <1>1, <1>2, <1>3, <2>1 DEF HeaderInv, LinesInv
  <2>2. CASE k # n  BY <1>1, <1>2, <2>2 DEF Header_calculateHeight, LinesInv
  <2>. QED  BY <2>1, <2>2
<1>5. focus' \in 0 .. Panels'  BY <1>1 DEF Panels
<1>6. PageInv'  BY <1>1, <1>5 DEF HeaderInv, PageInv
<1>7. HeaderInv'  BY <1>1, <1>3, <1>4, <1>6, EditStep DEF HeaderInv
<1>8. EachOnce(columns')  BY <1>3 DEF ColumnsOK
<1>. QED  BY <1>3, <1>7, <1>8 DEF Kept

LEMMA HeaderStep == HeaderInv /\ [HeaderNext]_headerSetupVars => HeaderInv' /\ [Kept]_headerSetupVars
<1>1. ASSUME HeaderInv, UNCHANGED headerSetupVars PROVE HeaderInv'
  <2>1. UNCHANGED <<headerVars, hColumns, changed, page, panels, focus, failed>>  BY <1>1 DEF headerSetupVars
  <2>2. columns' = columns /\ mode' = mode /\ n' = n  BY <2>1 DEF headerVars, n
  <2>3. Panels' = Panels  BY <2>1, <2>2 DEF Panels
  <2>4. PageInv'  BY <1>1, <2>1, <2>2, <2>3 DEF HeaderInv, PageInv
  <2>. QED  BY <1>1, <2>1, <2>4, QuietStep
<1>2. HeaderInv /\ HeaderNext => HeaderInv' /\ Kept
  BY RunSetupStep, LeaveStep, SelectCategoryStep, ChooseLayoutStep, MoveFocusStep, ToggleMovingStep,
     NextStyleStep, MoveMeterStep, MoveToNeighborStep, LockedStep, DeleteMeterStep, SelectMeterStep,
     ClickStep, AddMeterStep
  DEF HeaderNext
<1>. QED  BY <1>1, <1>2

-----------------------------------------------------------------------------
(* The header and its setup: the theorems *)

\* For any meters, modes and layouts: the panels of the setup show the columns
\* they edit, no meter is drawn over another, and outside the setup the
\* settings hold what the header shows.
THEOREM HeaderIsSound == HeaderSpec => []HeaderSound
<1>1. HeaderInv /\ [HeaderNext]_headerSetupVars => HeaderInv'  BY HeaderStep
<1>. QED  BY <1>1, InitHeaderInv, InvHeaderSound, PTL DEF HeaderSpec

\* For any meters, modes and layouts: a step of the setup takes no meter out of
\* the header but the selected one, and never has one in the header twice.
THEOREM NoMeterIsLost == HeaderSpec => MetersKept
<1>1. HeaderInv /\ [HeaderNext]_headerSetupVars => HeaderInv'  BY HeaderStep
<1>2. HeaderInv /\ [HeaderNext]_headerSetupVars =>
         [/\ \A m \in MetersOf(columns) \ MetersOf(columns') :
                OnMeters /\ columns[focus][panels[focus].selected + 1] = m
          /\ EachOnce(columns')]_headerSetupVars
  BY HeaderStep DEF Kept
<1>. QED  BY <1>1, <1>2, InitHeaderInv, PTL DEF HeaderSpec, MetersKept

-----------------------------------------------------------------------------
(* The pages of the setup: the invariant *)

ColumnKeys == DOMAIN FieldFlags \cup DynamicKeys
ColumnItem == [key : ColumnKeys, moving : BOOLEAN]

\* The cursor is on an item, if there is one.
OnItem(items, i) == i \in Nat /\ (i < Len(items) \/ (items = <<>> /\ i = 0))

\* The columns and the flags; on their page the items are those of the settings.
FieldsInv ==
    /\ shownFields \in Seq(ColumnKeys) /\ columnItems \in Seq(ColumnItem)
    /\ fieldFlags = FlagsOf(shownFields)
    /\ setupPage = "columns" => Keys(columnItems) = shownFields /\ OnItem(columnItems, columnSelected)
    /\ columnMoving \in BOOLEAN

\* The scheme in use is that of the settings, or monochrome for want of colours.
ColorsInv ==
    /\ crtScheme = scheme \/ (crtScheme = Monochrome /\ ~hasColors)
    /\ setupPage = "colors" => colorMarks = {scheme}

InRange(o) == Numbers[o].first \subseteq Numbers[o].min .. Numbers[o].max
NumbersInv ==
    /\ DOMAIN numbers = DOMAIN Numbers /\ numbers = [o \in DOMAIN Numbers |-> numbers[o]]
    /\ \A o \in DOMAIN Numbers : InRange(o) => numbers[o] \in Numbers[o].min .. Numbers[o].max

PagesInv == FieldsInv /\ ColorsInv /\ NumbersInv

LEMMA KeysFacts ==
    ASSUME NEW items \in Seq(ColumnItem)
    PROVE  /\ Len(items) \in Nat /\ Keys(items) \in Seq(ColumnKeys) /\ Len(Keys(items)) = Len(items)
           /\ DOMAIN Keys(items) = 1 .. Len(items)
           /\ \A i \in 1 .. Len(items) : Keys(items)[i] = items[i].key
           /\ items = <<>> <=> Len(items) = 0
<1>1. Len(items) \in Nat /\ DOMAIN items = 1 .. Len(items) /\ \A i \in 1 .. Len(items) : items[i] \in ColumnItem
  BY ElementOfSeq, LenProperties
<1>2. \A i \in 1 .. Len(items) : items[i].key \in ColumnKeys  BY <1>1 DEF ColumnItem
<1>3. Keys(items) = [i \in 1 .. Len(items) |-> items[i].key]  BY <1>1 DEF Keys
<1>4. items = <<>> <=> Len(items) = 0  BY <1>1
<1>. QED  BY <1>1, <1>2, <1>3, <1>4

LEMMA InitPagesInv == SetupInit => PagesInv
<1>. SUFFICES ASSUME SetupInit PROVE PagesInv  OBVIOUS
<1>1. shownFields \in Seq(ColumnKeys)  BY SetupPanelsAssumption DEF SetupInit, ColumnKeys
<1>2. fieldFlags = FlagsOf(shownFields)  BY DEF SetupInit, FlagsOf
<1>3. setupPage = "none" /\ columnItems = <<>> /\ columnMoving = FALSE  BY DEF SetupInit
<1>4. columnItems \in Seq(ColumnItem) /\ setupPage # "columns" /\ columnMoving \in BOOLEAN
  <2>1. <<>> \in Seq(ColumnItem)  OBVIOUS
  <2>2. columnItems \in Seq(ColumnItem)  BY <1>3, <2>1
  <2>. QED  BY <1>3, <2>2
<1>5. FieldsInv  BY <1>1, <1>2, <1>4, Zenon DEF FieldsInv
<1>6. NumbersInv  BY DEF SetupInit, NumbersInv, InRange
<1>. QED  BY <1>5, <1>6 DEF SetupInit, CRT_init, PagesInv, ColorsInv

LEMMA InvSettingsShown == PagesInv => SettingsShown
<1>. SUFFICES ASSUME PagesInv PROVE SettingsShown  OBVIOUS
<1>1. fieldFlags = UNION {FieldFlags[k] : k \in SX!ToSet(shownFields) \ DynamicKeys}
  <2>1. fieldFlags = UNION {FieldFlags[shownFields[i]] : i \in {j \in DOMAIN shownFields : shownFields[j] \notin DynamicKeys}}
    BY DEF PagesInv, FieldsInv, FlagsOf
  <2>2. {FieldFlags[shownFields[i]] : i \in {j \in DOMAIN shownFields : shownFields[j] \notin DynamicKeys}}
           = {FieldFlags[k] : k \in SX!ToSet(shownFields) \ DynamicKeys}
    BY DEF SX!ToSet
  <2>. QED  BY <2>1, <2>2
<1>2. setupPage = "columns" => Keys(columnItems) = shownFields /\ (columnSelected < Len(columnItems) \/ columnItems = <<>>)
  BY DEF PagesInv, FieldsInv, OnItem
<1>. QED  BY <1>1, <1>2 DEF PagesInv, ColorsInv, NumbersInv, InRange, SettingsShown

-----------------------------------------------------------------------------
(* The pages of the setup: the steps *)

\* The last column is still the last one.
LastKept == shownFields # <<>> => shownFields' # <<>> /\ SX!Last(shownFields') = SX!Last(shownFields)

\* The fields are made of other items, of which the last has the same column.
LEMMA UpdateStep ==
    ASSUME PagesInv, OnColumns, NEW items \in Seq(ColumnItem), ColumnsPanel_update(items),
           OnItem(items, columnSelected'), columnMoving' \in BOOLEAN,
           Size > 0 => Len(items) > 0 /\ items[Len(items)].key = columnItems[Size].key
    PROVE  PagesInv' /\ LastKept
<1>1. /\ columnItems' = items /\ shownFields' = Keys(items) /\ fieldFlags' = FlagsOf(Keys(items))
      /\ setupPage' = setupPage /\ setupPage = "columns"
      /\ UNCHANGED <<scheme, crtScheme, hasColors, colorMarks, numbers>>
  BY DEF ColumnsPanel_update, OnColumns, colorVars, optionVars
<1>2. columnItems \in Seq(ColumnItem) /\ Keys(columnItems) = shownFields  BY <1>1 DEF PagesInv, FieldsInv
<1>3. FieldsInv'  BY <1>1, KeysFacts DEF FieldsInv
<1>4. ColorsInv' /\ NumbersInv'  BY <1>1 DEF PagesInv, ColorsInv, NumbersInv
<1>5. LastKept
  <2>1. SUFFICES ASSUME shownFields # <<>>
                 PROVE  shownFields' # <<>> /\ SX!Last(shownFields') = SX!Last(shownFields)
    BY DEF LastKept
  <2>2. shownFields \in Seq(ColumnKeys) /\ shownFields' \in Seq(ColumnKeys)  BY <1>1, <1>3 DEF PagesInv, FieldsInv
  <2>3. Len(shownFields) = Size /\ Size \in Nat /\ \A i \in 1 .. Size : shownFields[i] = columnItems[i].key
    BY <1>2, KeysFacts DEF Size
  <2>4. Len(shownFields') = Len(items) /\ Len(items) \in Nat /\ \A i \in 1 .. Len(items) : shownFields'[i] = items[i].key
    BY <1>1, KeysFacts
  <2>5. Size > 0  BY <2>1, <2>2, <2>3
  <2>6. Len(items) > 0 /\ shownFields'[Len(items)] = shownFields[Size]  BY <2>3, <2>4, <2>5
  <2>7. shownFields' # <<>>  BY <2>2, <2>4, <2>6
  <2>. QED  BY <2>3, <2>4, <2>6, <2>7 DEF SX!Last
<1>. QED  BY <1>3, <1>4, <1>5 DEF PagesInv

\* The columns and the flags are as they were.
LEMMA CursorStep ==
    ASSUME PagesInv, OnColumns, UNCHANGED <<columnItems, shownFields, fieldFlags>>,
           OnItem(columnItems, columnSelected'), columnMoving' \in BOOLEAN
    PROVE  PagesInv' /\ LastKept
<1>1. setupPage' = setupPage /\ UNCHANGED <<scheme, crtScheme, hasColors, colorMarks, numbers>>
  BY DEF OnColumns, colorVars, optionVars
<1>2. FieldsInv'  BY <1>1 DEF PagesInv, FieldsInv
<1>3. ColorsInv' /\ NumbersInv'  BY <1>1 DEF PagesInv, ColorsInv, NumbersInv
<1>. QED  BY <1>2, <1>3 DEF PagesInv, LastKept

\* What is known on the page of the columns.
LEMMA ColumnsPage ==
    ASSUME PagesInv, OnColumns
    PROVE  /\ columnItems \in Seq(ColumnItem) /\ Size \in Nat /\ columnSelected \in Nat
           /\ \A i \in 1 .. Size : columnItems[i] \in ColumnItem
           /\ (columnSelected < Size \/ (Size = 0 /\ columnSelected = 0)) /\ (columnItems = <<>> <=> Size = 0)
           /\ columnMoving \in BOOLEAN /\ OnItem(columnItems, columnSelected)
<1>1. columnItems \in Seq(ColumnItem) /\ columnMoving \in BOOLEAN /\ OnItem(columnItems, columnSelected)
  BY DEF OnColumns, PagesInv, FieldsInv
<1>2. \A i \in 1 .. Size : columnItems[i] \in ColumnItem  BY <1>1, ElementOfSeq DEF Size
<1>3. Size \in Nat /\ (columnItems = <<>> <=> Size = 0)  BY <1>1, KeysFacts DEF Size
<1>. QED  BY <1>1, <1>2, <1>3 DEF OnItem, Size

\* Nothing but the fields' copy is made again.
LEMMA SameItemsStep ==
    ASSUME PagesInv, OnColumns, ColumnsPanel_update(columnItems), OnItem(columnItems, columnSelected'),
           UNCHANGED columnMoving
    PROVE  PagesInv' /\ LastKept
<1>1. columnItems \in Seq(ColumnItem) /\ columnMoving' \in BOOLEAN  BY ColumnsPage
<1>2. Size > 0 => Len(columnItems) > 0 /\ columnItems[Len(columnItems)].key = columnItems[Size].key  BY DEF Size
<1>. QED  BY <1>1, <1>2, UpdateStep

LEMMA SelectColumnStep == PagesInv /\ SelectColumn => PagesInv' /\ LastKept
<1>. SUFFICES ASSUME PagesInv, SelectColumn PROVE PagesInv' /\ LastKept  OBVIOUS
<1>1. OnColumns /\ Size > 0 /\ columnSelected' \in 0 .. Size - 1 /\ UNCHANGED columnMoving  BY DEF SelectColumn
<1>2. columnItems \in Seq(ColumnItem) /\ columnMoving' \in BOOLEAN /\ Size \in Nat  BY <1>1, ColumnsPage
<1>3. OnItem(columnItems, columnSelected')  BY <1>1, <1>2 DEF OnItem, Size
<1>4. \/ UNCHANGED <<columnItems, shownFields, fieldFlags>>
      \/ ColumnsPanel_update(columnItems)
  BY DEF SelectColumn
<1>. QED  BY <1>1, <1>2, <1>3, <1>4, SameItemsStep, CursorStep

LEMMA MoveOrDropStep == PagesInv /\ MoveOrDrop => PagesInv' /\ LastKept
<1>. SUFFICES ASSUME PagesInv, MoveOrDrop PROVE PagesInv' /\ LastKept  OBVIOUS
<1>1. PICK i \in 0 .. Size - 1 :
        /\ OnColumns
        /\ columnSelected' = i
        /\ IF i < Size - 1
           THEN /\ columnMoving' = ~columnMoving
                /\ ColumnsPanel_update([columnItems EXCEPT ![i + 1].moving = ~columnMoving])
           ELSE UNCHANGED <<columnMoving, columnItems, shownFields, fieldFlags, edited>>
  BY DEF MoveOrDrop
<1>2. columnItems \in Seq(ColumnItem) /\ columnMoving \in BOOLEAN /\ Size \in Nat
      /\ \A j \in 1 .. Size : columnItems[j] \in ColumnItem
  BY <1>1, ColumnsPage
<1>3. OnItem(columnItems, i)  BY <1>2 DEF OnItem, Size
<1>4. CASE i < Size - 1
  <2>. DEFINE e == [columnItems[i + 1] EXCEPT !.moving = ~columnMoving]
              items == [columnItems EXCEPT ![i + 1] = e]
  <2>1. i + 1 \in 1 .. Len(columnItems) /\ columnItems[i + 1] \in ColumnItem  BY <1>2 DEF Size
  <2>2. e \in ColumnItem /\ e.key = columnItems[i + 1].key  BY <1>2, <2>1 DEF ColumnItem
  <2>3. ColumnsPanel_update(items)  BY <1>1, <1>4
  <2>. HIDE DEF e
  <2>4. /\ items \in Seq(ColumnItem) /\ Len(items) = Len(columnItems)
        /\ \A j \in 1 .. Len(columnItems) : items[j] = IF j = i + 1 THEN e ELSE columnItems[j]
    BY <1>2, <2>1, <2>2, ExceptSeq
  <2>. HIDE DEF items
  <2>5. Len(items) = Size /\ OnItem(items, i) /\ items[Size].key = columnItems[Size].key
    <3>1. Len(items) = Size  BY <2>4 DEF Size
    <3>2. Size \in 1 .. Len(columnItems)  BY <1>2, <1>4 DEF Size
    <3>. QED  BY <1>2, <1>4, <2>2, <2>4, <3>1, <3>2 DEF OnItem
  <2>. QED  BY <1>1, <1>2, <1>4, <2>3, <2>4, <2>5, UpdateStep
<1>5. CASE ~(i < Size - 1)
  <2>1. UNCHANGED <<columnItems, shownFields, fieldFlags>> /\ columnMoving' \in BOOLEAN  BY <1>1, <1>2, <1>5
  <2>. QED  BY <1>1, <1>3, <2>1, CursorStep
<1>. QED  BY <1>4, <1>5

\* Two items that are not the last change places.
LEMMA ExchangeStep ==
    ASSUME PagesInv, OnColumns, NEW i \in 1 .. Size - 1, NEW j \in 1 .. Size - 1,
           ColumnsPanel_update(Exchanged(i, j)), columnSelected' \in 0 .. Size - 1, UNCHANGED columnMoving
    PROVE  PagesInv' /\ LastKept
<1>1. columnItems \in Seq(ColumnItem) /\ Size \in Nat /\ \A k \in 1 .. Size : columnItems[k] \in ColumnItem
  BY ColumnsPage
<1>. DEFINE t == [columnItems EXCEPT ![i] = columnItems[j]]
            items == [t EXCEPT ![j] = columnItems[i]]
<1>2. i \in 1 .. Size /\ j \in 1 .. Size /\ Len(columnItems) = Size  BY <1>1 DEF Size
<1>3. t \in Seq(ColumnItem) /\ Len(t) = Size /\ \A k \in 1 .. Size : t[k] = IF k = i THEN columnItems[j] ELSE columnItems[k]
  BY <1>1, <1>2, ExceptSeq
<1>4. Exchanged(i, j) = items  BY DEF Exchanged
<1>. HIDE DEF t
<1>5. /\ items \in Seq(ColumnItem) /\ Len(items) = Size
      /\ \A k \in 1 .. Size : items[k] = IF k = j THEN columnItems[i] ELSE t[k]
  BY <1>1, <1>2, <1>3, ExceptSeq
<1>. HIDE DEF items
<1>6. items[Size] = columnItems[Size]  BY <1>1, <1>2, <1>3, <1>5
<1>7. OnItem(items, columnSelected') /\ Size > 0  BY <1>1, <1>5 DEF OnItem
<1>8. columnMoving' \in BOOLEAN  BY ColumnsPage
<1>. QED  BY <1>4, <1>5, <1>6, <1>7, <1>8, UpdateStep

LEMMA MoveColumnUpStep == PagesInv /\ MoveColumnUp => PagesInv' /\ LastKept
<1>. SUFFICES ASSUME PagesInv, MoveColumnUp PROVE PagesInv' /\ LastKept  OBVIOUS
<1>1. OnColumns /\ UNCHANGED columnMoving  BY DEF MoveColumnUp
<1>2. Size \in Nat /\ columnSelected \in Nat /\ OnItem(columnItems, columnSelected)  BY <1>1, ColumnsPage
<1>3. CASE columnSelected < Size - 1 /\ columnSelected > 0
  <2>1. ColumnsPanel_update(Exchanged(At, At - 1)) /\ columnSelected' = columnSelected - 1  BY <1>3 DEF MoveColumnUp
  <2>2. At \in 1 .. Size - 1 /\ At - 1 \in 1 .. Size - 1 /\ columnSelected' \in 0 .. Size - 1
    BY <1>2, <1>3, <2>1 DEF At
  <2>. QED  BY <1>1, <2>1, <2>2, ExchangeStep
<1>4. CASE ~(columnSelected < Size - 1 /\ columnSelected > 0)
  <2>1. ColumnsPanel_update(columnItems) /\ columnSelected' = columnSelected  BY <1>4 DEF MoveColumnUp
  <2>. QED  BY <1>1, <1>2, <2>1, SameItemsStep
<1>. QED  BY <1>3, <1>4

LEMMA MoveColumnDownStep == PagesInv /\ MoveColumnDown => PagesInv' /\ LastKept
<1>. SUFFICES ASSUME PagesInv, MoveColumnDown PROVE PagesInv' /\ LastKept  OBVIOUS
<1>1. OnColumns /\ UNCHANGED columnMoving  BY DEF MoveColumnDown
<1>2. Size \in Nat /\ columnSelected \in Nat /\ OnItem(columnItems, columnSelected)  BY <1>1, ColumnsPage
<1>3. CASE columnSelected < Size - 2
  <2>1. ColumnsPanel_update(Exchanged(At, At + 1)) /\ columnSelected' = columnSelected + 1  BY <1>3 DEF MoveColumnDown
  <2>2. At \in 1 .. Size - 1 /\ At + 1 \in 1 .. Size - 1 /\ columnSelected' \in 0 .. Size - 1
    BY <1>2, <1>3, <2>1 DEF At
  <2>. QED  BY <1>1, <2>1, <2>2, ExchangeStep
<1>4. CASE ~(columnSelected < Size - 2)
  <2>1. ColumnsPanel_update(columnItems) /\ columnSelected' = columnSelected  BY <1>4 DEF MoveColumnDown
  <2>. QED  BY <1>1, <1>2, <2>1, SameItemsStep
<1>. QED  BY <1>3, <1>4

LEMMA RemoveColumnStep == PagesInv /\ RemoveColumn => PagesInv' /\ LastKept
<1>. SUFFICES ASSUME PagesInv, RemoveColumn PROVE PagesInv' /\ LastKept  OBVIOUS
<1>1. OnColumns /\ UNCHANGED columnMoving  BY DEF RemoveColumn
<1>2. /\ columnItems \in Seq(ColumnItem) /\ Size \in Nat /\ columnSelected \in Nat
      /\ columnMoving \in BOOLEAN /\ OnItem(columnItems, columnSelected) /\ Len(columnItems) = Size
  BY <1>1, ColumnsPage DEF Size
<1>3. CASE columnSelected < Size - 1
  <2>. DEFINE items == SX!RemoveAt(columnItems, At)
  <2>1. At \in 1 .. Len(columnItems) /\ At < Size /\ At = columnSelected + 1  BY <1>2, <1>3 DEF At
  <2>2. /\ items \in Seq(ColumnItem) /\ Len(items) = Size - 1
        /\ \A j \in 1 .. Size - 1 : items[j] = IF j < At THEN columnItems[j] ELSE columnItems[j + 1]
    BY <1>2, <2>1, RemoveFacts
  <2>3. ColumnsPanel_update(items) /\ columnSelected' = IF columnSelected > 0 /\ columnSelected >= Len(items)
                                                       THEN columnSelected - 1 ELSE columnSelected
    BY <1>3 DEF RemoveColumn
  <2>. HIDE DEF items
  <2>4. items[Size - 1] = columnItems[Size] /\ Size - 1 > 0
    <3>1. Size - 1 \in 1 .. Size - 1 /\ ~(Size - 1 < At) /\ Size - 1 + 1 = Size  BY <1>2, <2>1
    <3>. QED  BY <2>2, <3>1
  <2>5. OnItem(items, columnSelected')  BY <1>2, <1>3, <2>2, <2>3 DEF OnItem
  <2>. QED  BY <1>1, <1>2, <2>2, <2>3, <2>4, <2>5, UpdateStep
<1>4. CASE ~(columnSelected < Size - 1)
  <2>1. ColumnsPanel_update(columnItems) /\ columnSelected' = columnSelected  BY <1>4 DEF RemoveColumn
  <2>. QED  BY <1>1, <1>2, <2>1, SameItemsStep
<1>. QED  BY <1>3, <1>4

LEMMA AddColumnStep == PagesInv /\ AddColumn => PagesInv' /\ LastKept
<1>. SUFFICES ASSUME PagesInv, AddColumn PROVE PagesInv' /\ LastKept  OBVIOUS
<1>1. PICK key \in ColumnKeys :
        /\ OnColumns
        /\ LET items == SX!InsertAt(columnItems, At, [key |-> key, moving |-> FALSE])
           IN /\ ColumnsPanel_update(items)
              /\ columnSelected' = FX!Min({columnSelected + 1, Len(items) - 1})
        /\ UNCHANGED columnMoving
  BY DEF AddColumn, ColumnKeys
<1>2. /\ columnItems \in Seq(ColumnItem) /\ Size \in Nat /\ columnSelected \in Nat
      /\ (columnSelected < Size \/ (Size = 0 /\ columnSelected = 0))
      /\ columnMoving' \in BOOLEAN /\ Len(columnItems) = Size
  BY <1>1, ColumnsPage DEF Size
<1>. DEFINE e == [key |-> key, moving |-> FALSE]
            items == SX!InsertAt(columnItems, At, e)
<1>3. e \in ColumnItem  BY DEF ColumnItem
<1>4. ColumnsPanel_update(items) /\ columnSelected' = FX!Min({columnSelected + 1, Len(items) - 1})  BY <1>1
<1>5. At \in 1 .. Len(columnItems) + 1 /\ At = columnSelected + 1 /\ (Size > 0 => At <= Size)  BY <1>2 DEF At
<1>. HIDE DEF e
<1>6. /\ items \in Seq(ColumnItem) /\ Len(items) = Size + 1
      /\ \A j \in 1 .. Size + 1 :
            items[j] = IF j < At THEN columnItems[j] ELSE IF j = At THEN e ELSE columnItems[j - 1]
  <2>1. /\ items \in Seq(ColumnItem) /\ Len(items) = Len(columnItems) + 1
        /\ \A j \in 1 .. Len(columnItems) + 1 :
              items[j] = IF j < At THEN columnItems[j] ELSE IF j = At THEN e ELSE columnItems[j - 1]
    <3>1. columnItems \in Seq(ColumnItem) /\ At \in 1 .. Len(columnItems) + 1  BY <1>2, <1>5
    <3>. QED  BY <1>3, <3>1, InsertFacts
  <2>. HIDE DEF items
  <2>2. Len(columnItems) = Size  BY <1>2
  <2>. QED  BY <2>1, <2>2
<1>. HIDE DEF items
<1>7. ASSUME Size > 0 PROVE items[Size + 1] = columnItems[Size]
  <2>. DEFINE final == Size + 1
  <2>1. final \in 1 .. Size + 1 /\ ~(final < At) /\ final # At /\ final - 1 = Size  BY <1>2, <1>5, <1>7
  <2>. HIDE DEF final
  <2>2. items[final] = IF final < At THEN columnItems[final] ELSE IF final = At THEN e ELSE columnItems[final - 1]  BY <1>6, <2>1
  <2>3. items[final] = columnItems[Size]  BY <2>1, <2>2
  <2>. QED  BY <2>3 DEF final
<1>8. columnSelected' = IF columnSelected + 1 < Size THEN columnSelected + 1 ELSE Size
  <2>1. Len(items) - 1 = Size /\ columnSelected + 1 \in Int /\ Size \in Int  BY <1>2, <1>6
  <2>. QED  BY <1>4, <2>1, MinOfTwo
<1>9. OnItem(items, columnSelected')  BY <1>2, <1>6, <1>8 DEF OnItem
<1>10. Size > 0 => Len(items) > 0 /\ items[Len(items)].key = columnItems[Size].key  BY <1>2, <1>6, <1>7
<1>. QED  BY <1>1, <1>2, <1>4, <1>6, <1>9, <1>10, UpdateStep

\* Steps that keep the columns, except that a page is closed.
LEMMA OtherPageStep ==
    ASSUME PagesInv, UNCHANGED <<shownFields, fieldFlags>>, columnItems' \in Seq(ColumnItem), columnMoving' \in BOOLEAN,
           setupPage' = "columns" => Keys(columnItems') = shownFields /\ OnItem(columnItems', columnSelected'),
           ColorsInv', NumbersInv'
    PROVE  PagesInv' /\ LastKept
<1>1. FieldsInv'  BY DEF PagesInv, FieldsInv
<1>. QED  BY <1>1 DEF PagesInv, LastKept

LEMMA ShowPageStep == PagesInv /\ ShowPage => PagesInv' /\ LastKept
<1>. SUFFICES ASSUME PagesInv, ShowPage PROVE PagesInv' /\ LastKept  OBVIOUS
<1>1. /\ columnItems' = IF setupPage' = "columns" THEN [i \in DOMAIN shownFields |-> [key |-> shownFields[i], moving |-> FALSE]]
                      ELSE <<>>
      /\ columnSelected' = 0 /\ columnMoving' = FALSE
      /\ colorMarks' = IF setupPage' = "colors" THEN {scheme} ELSE {}
      /\ UNCHANGED <<shownFields, fieldFlags, scheme, crtScheme, hasColors, numbers>>
  BY DEF ShowPage, optionVars
<1>2. ColorsInv' /\ NumbersInv'  BY <1>1 DEF PagesInv, ColorsInv, NumbersInv
<1>3. shownFields \in Seq(ColumnKeys)  BY DEF PagesInv, FieldsInv
<1>4. DOMAIN shownFields = 1 .. Len(shownFields) /\ Len(shownFields) \in Nat
      /\ \A i \in 1 .. Len(shownFields) : shownFields[i] \in ColumnKeys
  BY <1>3, ElementOfSeq, LenProperties
<1>. DEFINE items == [i \in 1 .. Len(shownFields) |-> [key |-> shownFields[i], moving |-> FALSE]]
<1>5. \A i \in 1 .. Len(shownFields) : [key |-> shownFields[i], moving |-> FALSE] \in ColumnItem  BY <1>4 DEF ColumnItem
<1>6. items \in Seq(ColumnItem) /\ Len(items) = Len(shownFields)  BY <1>4, <1>5
<1>7. Keys(items) = shownFields
  <2>1. shownFields = [i \in 1 .. Len(shownFields) |-> shownFields[i]]  BY <1>3, <1>4
  <2>2. Keys(items) = [i \in 1 .. Len(shownFields) |-> shownFields[i]]  BY DEF Keys
  <2>. QED  BY <2>1, <2>2
<1>8. OnItem(items, 0)  BY <1>4, <1>6 DEF OnItem
<1>9. setupPage' = "columns" => columnItems' = items  BY <1>1, <1>4
<1>10. setupPage' # "columns" => columnItems' = <<>>  BY <1>1
<1>. HIDE DEF items
<1>11. columnItems' \in Seq(ColumnItem)
  <2>1. CASE setupPage' = "columns"  BY <1>6, <1>9, <2>1
  <2>2. CASE setupPage' # "columns"
    <3>1. columnItems' = <<>>  BY <1>10, <2>2
    <3>. QED  BY <3>1
  <2>. QED  BY <2>1, <2>2
<1>12. setupPage' = "columns" => Keys(columnItems') = shownFields /\ OnItem(columnItems', columnSelected')
  BY <1>1, <1>7, <1>8, <1>9
<1>. QED  BY <1>1, <1>2, <1>11, <1>12, OtherPageStep

LEMMA LeaveSetupStep == PagesInv /\ LeaveSetup => PagesInv' /\ LastKept
<1>. SUFFICES ASSUME PagesInv, LeaveSetup PROVE PagesInv' /\ LastKept  OBVIOUS
<1>1. /\ setupPage' = "none" /\ columnItems' = <<>> /\ columnMoving' = FALSE
      /\ UNCHANGED <<shownFields, fieldFlags, scheme, crtScheme, hasColors, numbers>>
  BY DEF LeaveSetup, optionVars
<1>2. ColorsInv' /\ NumbersInv'  BY <1>1 DEF PagesInv, ColorsInv, NumbersInv
<1>3. columnItems' \in Seq(ColumnItem)  BY <1>1
<1>. QED  BY <1>1, <1>2, <1>3, OtherPageStep

LEMMA ChooseColorsStep == PagesInv /\ ChooseColors => PagesInv' /\ LastKept
<1>. SUFFICES ASSUME PagesInv, ChooseColors PROVE PagesInv' /\ LastKept  OBVIOUS
<1>1. /\ scheme' = crtScheme' /\ colorMarks' = {scheme'} /\ UNCHANGED <<columnVars, numbers, setupPage>>
  BY DEF ChooseColors, optionVars
<1>2. UNCHANGED <<columnItems, columnSelected, columnMoving, shownFields, fieldFlags>>  BY <1>1 DEF columnVars
<1>3. ColorsInv' /\ NumbersInv'  BY <1>1 DEF PagesInv, ColorsInv, NumbersInv
<1>. QED  BY <1>1, <1>2, <1>3, OtherPageStep DEF PagesInv, FieldsInv

\* Changing a number that is in its range leaves it there.
LEMMA NumberKept ==
    ASSUME NEW o \in DOMAIN Numbers, NEW x \in Numbers[o].min .. Numbers[o].max
    PROVE  /\ NumberItem_decrease(o, x) \in Numbers[o].min .. Numbers[o].max
           /\ NumberItem_increase(o, x) \in Numbers[o].min .. Numbers[o].max
           /\ NumberItem_toggle(o, x) \in Numbers[o].min .. Numbers[o].max
<1>1. Numbers[o].min \in Int /\ Numbers[o].max \in Int  BY SetupPanelsAssumption
<1>. QED  BY <1>1 DEF NumberItem_decrease, NumberItem_increase, NumberItem_toggle, ClampTo

LEMMA OptionsStep ==
    ASSUME PagesInv, OnOptions, NumbersInv'
    PROVE  PagesInv' /\ LastKept
<1>1. UNCHANGED <<columnItems, columnSelected, columnMoving, shownFields, fieldFlags, scheme, crtScheme, hasColors, colorMarks, setupPage>>
  BY DEF OnOptions, columnVars, colorVars
<1>2. ColorsInv'  BY <1>1 DEF PagesInv, ColorsInv
<1>. QED  BY <1>1, <1>2, OtherPageStep DEF PagesInv, FieldsInv

LEMMA ChangeNumberStep == PagesInv /\ ChangeNumber => PagesInv' /\ LastKept
<1>. SUFFICES ASSUME PagesInv, ChangeNumber PROVE PagesInv' /\ LastKept  OBVIOUS
<1>1. PICK o \in DOMAIN Numbers :
        /\ OnOptions
        /\ numbers' \in {[numbers EXCEPT ![o] = NumberItem_decrease(o, @)],
                         [numbers EXCEPT ![o] = NumberItem_increase(o, @)],
                         [numbers EXCEPT ![o] = NumberItem_toggle(o, @)]}
  BY DEF ChangeNumber
<1>2. PICK x \in {NumberItem_decrease(o, numbers[o]), NumberItem_increase(o, numbers[o]), NumberItem_toggle(o, numbers[o])} :
         numbers' = [numbers EXCEPT ![o] = x]
  BY <1>1
<1>3. /\ DOMAIN numbers = DOMAIN Numbers /\ numbers = [p \in DOMAIN Numbers |-> numbers[p]]
      /\ \A p \in DOMAIN Numbers : InRange(p) => numbers[p] \in Numbers[p].min .. Numbers[p].max
  BY DEF PagesInv, NumbersInv
<1>4. InRange(o) => x \in Numbers[o].min .. Numbers[o].max  BY <1>3, <1>2, NumberKept
<1>5. DOMAIN numbers' = DOMAIN Numbers /\ \A p \in DOMAIN Numbers : numbers'[p] = IF p = o THEN x ELSE numbers[p]
  BY <1>2, <1>3
<1>6. numbers' = [p \in DOMAIN Numbers |-> numbers'[p]]  BY <1>2, <1>3
<1>7. NumbersInv'
  <2>1. \A p \in DOMAIN Numbers : InRange(p) => numbers'[p] \in Numbers[p].min .. Numbers[p].max  BY <1>3, <1>4, <1>5
  <2>. QED  BY <1>5, <1>6, <2>1 DEF NumbersInv, InRange
<1>. QED  BY <1>1, <1>7, OptionsStep

LEMMA CheckItemStep == PagesInv /\ CheckItem_toggle => PagesInv' /\ LastKept
<1>. SUFFICES ASSUME PagesInv, CheckItem_toggle PROVE PagesInv' /\ LastKept  OBVIOUS
<1>1. OnOptions /\ numbers' = numbers  BY DEF CheckItem_toggle
<1>2. NumbersInv'  BY <1>1 DEF PagesInv, NumbersInv
<1>. QED  BY <1>1, <1>2, OptionsStep

LEMMA PagesStep == PagesInv /\ [SetupNext]_setupVars => PagesInv' /\ [LastKept]_setupVars
<1>1. ASSUME PagesInv, UNCHANGED setupVars PROVE PagesInv'
  <2>1. UNCHANGED <<columnItems, columnSelected, columnMoving, shownFields, fieldFlags, scheme, crtScheme, hasColors,
                    colorMarks, numbers, setupPage>>
    BY <1>1 DEF setupVars, columnVars, colorVars, optionVars
  <2>. QED  BY <1>1, <2>1 DEF PagesInv, FieldsInv, ColorsInv, NumbersInv
<1>2. PagesInv /\ SetupNext => PagesInv' /\ LastKept
  BY ShowPageStep, SelectColumnStep, MoveOrDropStep, MoveColumnUpStep, MoveColumnDownStep, RemoveColumnStep,
     AddColumnStep, ChooseColorsStep, ChangeNumberStep, CheckItemStep, LeaveSetupStep
  DEF SetupNext
<1>. QED  BY <1>1, <1>2

LEMMA SchemeStep ==
    ASSUME SetupNext
    PROVE  crtScheme' # crtScheme \/ scheme' # scheme => crtScheme' = scheme' /\ colorMarks' = {scheme'} /\ edited'
<1>1. CASE ChooseColors  BY <1>1 DEF ChooseColors
<1>2. CASE ShowPage \/ LeaveSetup  BY <1>2 DEF ShowPage, LeaveSetup
<1>3. CASE \/ SelectColumn \/ MoveOrDrop \/ MoveColumnUp \/ MoveColumnDown \/ RemoveColumn \/ AddColumn
           \/ ChangeNumber \/ CheckItem_toggle
  <2>1. OnColumns \/ OnOptions
    BY <1>3 DEF SelectColumn, MoveOrDrop, MoveColumnUp, MoveColumnDown, RemoveColumn, AddColumn, ChangeNumber, CheckItem_toggle
  <2>2. UNCHANGED <<scheme, crtScheme>>  BY <2>1 DEF OnColumns, OnOptions, colorVars
  <2>. QED  BY <2>2
<1>. QED  BY <1>1, <1>2, <1>3 DEF SetupNext

\* For any columns, colour schemes and options, with or without colours: the
\* settings are what the pages show, the last column stays the last, and the
\* colours chosen are used, whatever keys were pressed.
THEOREM SetupIsSound == SetupSpec => SetupSound
<1>1. PagesInv /\ [SetupNext]_setupVars => PagesInv'  BY PagesStep
<1>2. PagesInv /\ [SetupNext]_setupVars =>
         [shownFields # <<>> => shownFields' # <<>> /\ SX!Last(shownFields') = SX!Last(shownFields)]_setupVars
  BY PagesStep DEF LastKept
<1>3. [SetupNext]_setupVars =>
         [crtScheme' # crtScheme \/ scheme' # scheme => crtScheme' = scheme' /\ colorMarks' = {scheme'} /\ edited']_setupVars
  BY SchemeStep
<1>. QED
  BY <1>1, <1>2, <1>3, InitPagesInv, InvSettingsShown, PTL DEF SetupSpec, SetupSound, LastColumnStays, ChosenIsUsed

-----------------------------------------------------------------------------
(* The reader *)

Meters == [names : Values, modes : Values]
Memory == [fields : Values \ {<<>>}, option : Nat, columns : Columns \ {<<>>}]
ReadState == [mem : Memory, newer : BOOLEAN, didReadMeters : BOOLEAN]

LEMMA StoredColumnsFacts ==
    ASSUME NEW cols \in Columns \ {<<>>}
    PROVE  /\ Len(cols) \in Nat \ {0} /\ DOMAIN cols = 1 .. Len(cols)
           /\ \A c \in 1 .. Len(cols) : cols[c] \in Meters
<1>1. cols \in Seq(Meters) /\ cols # <<>>  BY DEF Columns, Meters
<1>. QED  BY <1>1, ElementOfSeq, LenProperties

LEMMA NewColumnsFacts ==
    ASSUME NEW k \in Nat \ {0}
    PROVE  /\ NewColumns(k) \in Columns \ {<<>>} /\ Len(NewColumns(k)) = k /\ DOMAIN NewColumns(k) = 1 .. k
           /\ \A c \in 1 .. k : NewColumns(k)[c] = NoMeters
<1>1. NoMeters \in Meters
  <2>1. <<>> \in Values  BY DEF Values
  <2>. QED  BY <2>1 DEF NoMeters, Meters
<1>2. NewColumns(k) = [c \in 1 .. k |-> NoMeters]  BY DEF NewColumns
<1>3. NewColumns(k) \in Seq(Meters) /\ Len(NewColumns(k)) = k  BY <1>1, <1>2
<1>. QED  BY <1>2, <1>3 DEF Columns, Meters

\* A value that is not missing has a first word.
LEMMA ValueFacts ==
    ASSUME NEW line \in FileLines, line.value # <<>>
    PROVE  /\ line.value \in Values \ {<<>>}
           /\ line.key \in {"version", "option", "layout"} => line.value[1] \in Nat
           /\ line.key = "layout" => line.value[1] \in Nat \ {0}
<1>1. line.value \in Values  BY DEF FileLines
<1>2. 1 \in DOMAIN line.value  BY <1>1 DEF Values
<1>. QED  BY <1>1, <1>2 DEF FileLines

LEMMA ColumnType ==
    ASSUME NEW st \in ReadState, NEW number \in Nat \ {0}
    PROVE  Column(st, number) \in DOMAIN st.mem.columns
<1>1. st.mem.columns \in Columns \ {<<>>}  BY DEF ReadState, Memory
<1>2. Len(st.mem.columns) \in Nat \ {0} /\ DOMAIN st.mem.columns = 1 .. Len(st.mem.columns)  BY <1>1, StoredColumnsFacts
<1>. QED  BY <1>2 DEF Column, smallerOf

\* What a line does, one kind after the other.
LEMMA LineSkipped ==
    ASSUME NEW st, NEW line, st.newer \/ line.value = <<>>
    PROVE  ReadLine(st, line) = st
BY DEF ReadLine

LEMMA LineRead ==
    ASSUME NEW st \in ReadState, NEW line, ~st.newer, line.value # <<>>
    PROVE  /\ line.key = "version" => ReadLine(st, line) = [st EXCEPT !.newer = line.value[1] > ReaderVersion]
           /\ line.key = "fields" => ReadLine(st, line) = [st EXCEPT !.mem = [st.mem EXCEPT !.fields = line.value]]
           /\ line.key = "option" => ReadLine(st, line) = [st EXCEPT !.mem = [st.mem EXCEPT !.option = line.value[1]]]
           /\ line.key = "layout" =>
                 ReadLine(st, line) = [st EXCEPT !.mem = [st.mem EXCEPT !.columns = NewColumns(line.value[1])]]
BY DEF ReadLine, ReadState

\* One of the columns is replaced.
Put(st, c, column) ==
    [mem |-> [st.mem EXCEPT !.columns = [st.mem.columns EXCEPT ![c] = column]], newer |-> FALSE, didReadMeters |-> TRUE]

LEMMA ColumnRead ==
    ASSUME NEW st \in ReadState, NEW line, ~st.newer, line.value # <<>>, NEW c, c = Column(st, line.col)
    PROVE  /\ line.key = "meters" => ReadLine(st, line) = Put(st, c, [st.mem.columns[c] EXCEPT !.names = line.value])
           /\ line.key = "modes" => ReadLine(st, line) = Put(st, c, [st.mem.columns[c] EXCEPT !.modes = line.value])
<1>1. line.key = "meters" => ReadLine(st, line) = Put(st, c, [st.mem.columns[c] EXCEPT !.names = line.value])
  BY DEF ReadLine, ReadState, Memory, Put
<1>2. line.key = "modes" => ReadLine(st, line) = Put(st, c, [st.mem.columns[c] EXCEPT !.modes = line.value])
  BY DEF ReadLine, ReadState, Memory, Put
<1>. QED  BY <1>1, <1>2

LEMMA PutFacts ==
    ASSUME NEW st \in ReadState, NEW c \in DOMAIN st.mem.columns, NEW column \in Meters
    PROVE  /\ Put(st, c, column) \in ReadState
           /\ Put(st, c, column).mem.fields = st.mem.fields /\ Put(st, c, column).mem.option = st.mem.option
           /\ Len(Put(st, c, column).mem.columns) = Len(st.mem.columns)
           /\ \A d \in 1 .. Len(st.mem.columns) :
                 Put(st, c, column).mem.columns[d] = IF d = c THEN column ELSE st.mem.columns[d]
<1>. DEFINE cols == [st.mem.columns EXCEPT ![c] = column]
<1>1. st.mem \in Memory /\ st.mem.columns \in Columns \ {<<>>} /\ st.mem.columns \in Seq(Meters)
  BY DEF ReadState, Memory, Columns, Meters
<1>2. Len(st.mem.columns) \in Nat \ {0} /\ DOMAIN st.mem.columns = 1 .. Len(st.mem.columns)  BY <1>1, StoredColumnsFacts
<1>3. /\ cols \in Seq(Meters) /\ Len(cols) = Len(st.mem.columns)
      /\ \A d \in 1 .. Len(st.mem.columns) : cols[d] = IF d = c THEN column ELSE st.mem.columns[d]
  BY <1>1, <1>2, ExceptSeq
<1>. HIDE DEF cols
<1>4. cols \in Columns \ {<<>>}  BY <1>2, <1>3 DEF Columns, Meters
<1>5. [st.mem EXCEPT !.columns = cols] \in Memory  BY <1>1, <1>4 DEF Memory
<1>6. Put(st, c, column) = [mem |-> [st.mem EXCEPT !.columns = cols], newer |-> FALSE, didReadMeters |-> TRUE]
  BY DEF Put, cols
<1>7. /\ [st.mem EXCEPT !.columns = cols].columns = cols
      /\ [st.mem EXCEPT !.columns = cols].fields = st.mem.fields
      /\ [st.mem EXCEPT !.columns = cols].option = st.mem.option
  BY <1>1 DEF Memory
<1>. DEFINE memory == [st.mem EXCEPT !.columns = cols]
            p == Put(st, c, column)
<1>8. p.mem = memory /\ p \in ReadState  BY <1>5, <1>6 DEF ReadState
<1>9. memory.columns = cols /\ memory.fields = st.mem.fields /\ memory.option = st.mem.option  BY <1>7
<1>. HIDE DEF memory, p
<1>10. p.mem.columns = cols /\ p.mem.fields = st.mem.fields /\ p.mem.option = st.mem.option  BY <1>8, <1>9
<1>. QED  BY <1>3, <1>8, <1>10 DEF p

LEMMA ReadLineType ==
    ASSUME NEW st \in ReadState, NEW line \in FileLines
    PROVE  ReadLine(st, line) \in ReadState
<1>1. CASE st.newer \/ line.value = <<>>  BY <1>1, LineSkipped
<1>2. CASE ~st.newer /\ line.value # <<>>
  <2>1. st.mem \in Memory /\ st.newer \in BOOLEAN /\ st.didReadMeters \in BOOLEAN  BY DEF ReadState
  <2>2. /\ line.value \in Values \ {<<>>}
        /\ line.key \in {"version", "option", "layout"} => line.value[1] \in Nat
        /\ line.key = "layout" => line.value[1] \in Nat \ {0}
    BY <1>2, ValueFacts
  <2>3. CASE line.key = "version"
    <3>1. (line.value[1] > ReaderVersion) \in BOOLEAN  BY <2>2, <2>3 DEF ReaderVersion
    <3>2. ReadLine(st, line) = [st EXCEPT !.newer = line.value[1] > ReaderVersion]  BY <1>2, <2>3, LineRead
    <3>. QED  BY <2>1, <3>1, <3>2 DEF ReadState
  <2>4. CASE line.key = "fields"
    <3>1. ReadLine(st, line) = [st EXCEPT !.mem = [st.mem EXCEPT !.fields = line.value]]  BY <1>2, <2>4, LineRead
    <3>2. [st.mem EXCEPT !.fields = line.value] \in Memory  BY <2>1, <2>2 DEF Memory
    <3>. QED  BY <2>1, <3>1, <3>2 DEF ReadState
  <2>5. CASE line.key = "option"
    <3>1. ReadLine(st, line) = [st EXCEPT !.mem = [st.mem EXCEPT !.option = line.value[1]]]  BY <1>2, <2>5, LineRead
    <3>2. [st.mem EXCEPT !.option = line.value[1]] \in Memory  BY <2>1, <2>2, <2>5 DEF Memory
    <3>. QED  BY <2>1, <3>1, <3>2 DEF ReadState
  <2>6. CASE line.key = "layout"
    <3>1. ReadLine(st, line) = [st EXCEPT !.mem = [st.mem EXCEPT !.columns = NewColumns(line.value[1])]]
      BY <1>2, <2>6, LineRead
    <3>2. NewColumns(line.value[1]) \in Columns \ {<<>>}  BY <2>2, <2>6, NewColumnsFacts
    <3>3. [st.mem EXCEPT !.columns = NewColumns(line.value[1])] \in Memory  BY <2>1, <3>2 DEF Memory
    <3>. QED  BY <2>1, <3>1, <3>3 DEF ReadState
  <2>7. CASE line.key \in {"meters", "modes"}
    <3>. DEFINE c == Column(st, line.col)
    <3>1. c \in DOMAIN st.mem.columns  BY <2>7, ColumnType DEF FileLines
    <3>2. st.mem.columns[c] \in Meters  BY <2>1, <3>1, StoredColumnsFacts DEF Memory
    <3>. HIDE DEF c
    <3>3. /\ [st.mem.columns[c] EXCEPT !.names = line.value] \in Meters
          /\ [st.mem.columns[c] EXCEPT !.modes = line.value] \in Meters
      BY <2>2, <3>2 DEF Meters
    <3>4. c = Column(st, line.col)  BY DEF c
    <3>. QED  BY <1>2, <2>7, <3>1, <3>3, <3>4, ColumnRead, PutFacts
  <2>8. line.key \in {"version", "fields", "option", "layout", "meters", "modes"}  BY DEF FileLines
  <2>. QED  BY <2>3, <2>4, <2>5, <2>6, <2>7, <2>8
<1>. QED  BY <1>1, <1>2

-----------------------------------------------------------------------------
(* Reading a file line by line *)

Start0(m) == [mem |-> m, newer |-> FALSE, didReadMeters |-> FALSE]

\* st[i] is what was read after i lines.
Reads(st, m, file) ==
    /\ st = [i \in 0 .. Len(file) |-> st[i]] /\ st[0] = Start0(m)
    /\ \A i \in 1 .. Len(file) : st[i] = ReadLine(st[i - 1], file[i])

LastLine(s) == SX!Max(s)

LEMMA ReadFold ==
    ASSUME NEW m \in Memory, NEW file \in Seq(FileLines)
    PROVE  \E st : /\ Reads(st, m, file) /\ \A i \in 0 .. Len(file) : st[i] \in ReadState
                   /\ SX!FoldLeft(ReadLine, Start0(m), file) = st[Len(file)]
<1>. DEFINE I == 1 .. Len(file)
            pick == [s \in SUBSET I |-> LastLine(s)]
            op == [i \in I |-> [st \in ReadState |-> ReadLine(st, file[i])]]
            Iter(g) == g = [s \in SUBSET DOMAIN file |->
                               IF s = {} THEN Start0(m) ELSE ReadLine(g[s \ {LastLine(s)}], file[LastLine(s)])]
            read == SX!FoldLeft(ReadLine, Start0(m), file)
<1>1. Len(file) \in Nat /\ DOMAIN file = I /\ \A i \in I : file[i] \in FileLines  BY ElementOfSeq, LenProperties
<1>2. read = (CHOOSE h : Iter(h))[DOMAIN file]  BY DEF SX!FoldLeft, SX!MapThenFoldSet, LastLine
<1>3. \A s \in SUBSET I : s # {} => LastLine(s) \in s /\ \A i \in s : i <= LastLine(s)
  <2>1. SUFFICES ASSUME NEW s \in SUBSET I, s # {} PROVE LastLine(s) \in s /\ \A i \in s : i <= LastLine(s)  OBVIOUS
  <2>2. s \in SUBSET Int /\ Len(file) \in Int /\ \A i \in s : i <= Len(file)  BY <1>1, <2>1
  <2>3. \E i \in s : \A j \in s : i >= j  BY <2>1, <2>2, GreatestExists
  <2>. QED  BY <2>2, <2>3 DEF LastLine, SX!Max
<1>4. Start0(m) \in ReadState  BY DEF Start0, ReadState
<1>5. op \in [I -> [ReadState -> ReadState]] /\ \A i \in I : \A st \in ReadState : op[i][st] = ReadLine(st, file[i])
  BY <1>1, ReadLineType
<1>6. IsPick(pick, I) /\ \A s \in SUBSET I : s # {} => pick[s] = LastLine(s)  BY <1>3 DEF IsPick
<1>7. IsFiniteSet(I)
  <2>1. Len(file) \in Int  BY <1>1
  <2>. QED  BY <2>1, FS_Interval
<1>. HIDE DEF read, pick, op, I
<1>8. PICK g \in [SUBSET I -> ReadState] : Folding(g, I, Start0(m), op, pick)
  BY <1>4, <1>5, <1>6, <1>7, FoldExists
<1>9. Iter(g)
  <2>1. ASSUME NEW s \in SUBSET I
        PROVE  g[s] = IF s = {} THEN Start0(m) ELSE ReadLine(g[s \ {LastLine(s)}], file[LastLine(s)])
    <3>1. CASE s = {}  BY <1>8, <3>1 DEF Folding
    <3>2. CASE s # {}
      <4>1. g[s] = op[LastLine(s)][g[s \ {LastLine(s)}]]  BY <1>6, <1>8, <3>2 DEF Folding
      <4>2. LastLine(s) \in I /\ g[s \ {LastLine(s)}] \in ReadState  BY <1>3, <3>2
      <4>. QED  BY <1>5, <3>2, <4>1, <4>2
    <3>. QED  BY <3>1, <3>2
  <2>. QED  BY <1>1, <2>1
<1>10. PICK h : Iter(h) /\ read = h[I]
  <2>. HIDE DEF Iter
  <2>. QED  BY <1>1, <1>2, <1>9
<1>11. h[{}] = Start0(m) /\ \A s \in SUBSET I : s # {} => h[s] = ReadLine(h[s \ {LastLine(s)}], file[LastLine(s)])
  BY <1>1, <1>10
<1>. HIDE DEF Iter
<1>. DEFINE st == [i \in 0 .. Len(file) |-> h[1 .. i]]
<1>12. st[0] = Start0(m)
  <2>1. 1 .. 0 = {} /\ 0 \in 0 .. Len(file)  BY <1>1
  <2>. QED  BY <1>11, <2>1
<1>13. ASSUME NEW i \in 1 .. Len(file) PROVE st[i] = ReadLine(st[i - 1], file[i])
  <2>. DEFINE s == 1 .. i
  <2>1. s \in SUBSET I /\ s # {} /\ s \ {i} = 1 .. i - 1 /\ i \in s /\ \A j \in s : j <= i
    <3>1. i \in s /\ \A j \in s : j <= i  BY <1>1
    <3>2. \A j \in s : j \in I  BY <1>1 DEF I
    <3>3. \A j \in Int : j \in s \ {i} <=> j \in 1 .. i - 1  BY <1>1
    <3>4. s \subseteq Int /\ 1 .. i - 1 \subseteq Int  BY <1>1
    <3>. HIDE DEF s
    <3>5. s \ {i} = 1 .. i - 1  BY <3>3, <3>4
    <3>. QED  BY <3>1, <3>2, <3>5
  <2>2. i \in Nat /\ i \in 0 .. Len(file) /\ i - 1 \in 0 .. Len(file) /\ s \in SUBSET Nat  BY <1>1
  <2>3. st[i] = h[s] /\ st[i - 1] = h[s \ {i}]  BY <2>1, <2>2
  <2>. HIDE DEF s, st
  <2>4. LastLine(s) = i
    <3>1. LastLine(s) \in s /\ i <= LastLine(s) /\ LastLine(s) <= i  BY <1>3, <2>1
    <3>2. LastLine(s) \in Nat  BY <2>2, <3>1
    <3>. QED  BY <2>2, <3>1, <3>2
  <2>. QED  BY <1>11, <2>1, <2>3, <2>4
<1>14. \A i \in 0 .. Len(file) : st[i] \in ReadState
  <2>. DEFINE T == {i \in Nat : i <= Len(file) => st[i] \in ReadState}
  <2>. HIDE DEF st
  <2>1. 0 \in T  BY <1>4, <1>12
  <2>2. ASSUME NEW i \in T PROVE i + 1 \in T
    <3>1. SUFFICES ASSUME i + 1 <= Len(file) PROVE st[i + 1] \in ReadState  OBVIOUS
    <3>2. i + 1 \in 1 .. Len(file) /\ i + 1 - 1 = i /\ st[i] \in ReadState  BY <1>1, <3>1
    <3>3. st[i + 1] = ReadLine(st[i], file[i + 1])  BY <1>13, <3>2
    <3>4. file[i + 1] \in FileLines  BY <1>1, <3>2 DEF I
    <3>. QED  BY <3>2, <3>3, <3>4, ReadLineType
  <2>3. T = Nat
    <3>1. T \in SUBSET Nat  OBVIOUS
    <3>. HIDE DEF T
    <3>. QED  BY <2>1, <2>2, <3>1, NatSetInduction
  <2>. QED  BY <1>1, <2>3
<1>15. st = [i \in 0 .. Len(file) |-> st[i]]  OBVIOUS
<1>16. read = st[Len(file)]
  <2>1. Len(file) \in 0 .. Len(file)  BY <1>1
  <2>. QED  BY <1>10, <2>1 DEF I
<1>. HIDE DEF st
<1>. QED  BY <1>12, <1>13, <1>14, <1>15, <1>16 DEF Reads, read

\* What a start reads can be shown, and its header is whole.
LEMMA ReadType ==
    ASSUME NEW m \in Memory, NEW file \in Seq(FileLines) \cup {Absent}
    PROVE  /\ Settings_read(m, file).mem \in Memory
           /\ Settings_read(m, file).ok => Settings_validateMeters(Settings_read(m, file).mem.columns)
<1>1. CASE file = Absent  BY <1>1 DEF Settings_read
<1>2. CASE file # Absent
  <2>. DEFINE fold == SX!FoldLeft(ReadLine, Start0(m), file)
              valid == fold.didReadMeters /\ Settings_validateMeters(fold.mem.columns)
              result == IF fold.newer \/ valid THEN fold.mem ELSE [fold.mem EXCEPT !.columns = Defaults.columns]
  <2>1. fold \in ReadState
    <3>1. Len(file) \in 0 .. Len(file)  BY <1>2, LenProperties
    <3>. QED  BY <1>2, <3>1, ReadFold
  <2>2. Settings_read(m, file) = [ok |-> file # <<>> /\ ~fold.newer, mem |-> result]
    BY <1>2 DEF Settings_read, Start0
  <2>. HIDE DEF fold
  <2>3. Defaults.columns \in Columns \ {<<>>} /\ Settings_validateMeters(Defaults.columns)  BY SettingsAssumption
  <2>4. fold.mem \in Memory  BY <2>1 DEF ReadState
  <2>5. result \in Memory  BY <2>3, <2>4 DEF Memory
  <2>6. ~fold.newer => Settings_validateMeters(result.columns)
    <3>1. CASE valid  BY <3>1
    <3>2. CASE ~valid /\ ~fold.newer
      <4>1. result = [fold.mem EXCEPT !.columns = Defaults.columns]  BY <3>2
      <4>2. result.columns = Defaults.columns  BY <2>4, <4>1 DEF Memory
      <4>. QED  BY <2>3, <4>2
    <3>. QED  BY <3>1, <3>2
  <2>. HIDE DEF result
  <2>. DEFINE read == Settings_read(m, file)
  <2>7. read.mem = result /\ read.ok = (file # <<>> /\ ~fold.newer)
    <3>1. read.mem = result  BY <2>2
    <3>2. read.ok = (file # <<>> /\ ~fold.newer)  BY <2>2
    <3>. QED  BY <3>1, <3>2
  <2>. HIDE DEF read
  <2>8. read.mem \in Memory /\ (read.ok => Settings_validateMeters(read.mem.columns))  BY <2>5, <2>6, <2>7
  <2>. QED  BY <2>8 DEF read
<1>. QED  BY <1>1, <1>2

LEMMA WithColumns ==
    ASSUME NEW m \in Memory, NEW cols \in Columns \ {<<>>}
    PROVE  [m EXCEPT !.columns = cols] \in Memory /\ [m EXCEPT !.columns = cols].columns = cols
BY DEF Memory

\* What is set up, and what a start finds.
Whole(m) == m \in Memory /\ \A c \in DOMAIN m.columns : Len(m.columns[c].names) = Len(m.columns[c].modes)

LEMMA DefaultsFacts == Defaults \in Memory /\ Whole(Defaults) /\ Settings_validateMeters(Defaults.columns)
<1>1. Defaults \in Memory  BY SettingsAssumption DEF Memory
<1>. QED  BY <1>1, SettingsAssumption DEF Whole

Files == Seq(FileLines) \cup {Absent}

LEMMA LoadType ==
    ASSUME NEW old \in Files, NEW user \in Files, system \in Files
    PROVE  /\ Whole(Load(old, user).mem) /\ Settings_validateMeters(Load(old, user).mem.columns)
           /\ Load(old, user).changed \in BOOLEAN /\ Load(old, user).migrate \in BOOLEAN
<1>. DEFINE first == [Defaults EXCEPT !.columns = NewColumns(DefaultLayout)]
            fromOld == Settings_read(first, old)
            fromUser == Settings_read(fromOld.mem, user)
            fromSystem == Settings_read(fromUser.mem, system)
            cleared == [fromSystem.mem EXCEPT !.columns = Defaults.columns]
            loaded == Load(old, user)
<1>1. first \in Memory
  <2>1. NewColumns(DefaultLayout) \in Columns \ {<<>>}  BY NewColumnsFacts DEF DefaultLayout
  <2>. QED  BY <2>1, DefaultsFacts, WithColumns
<1>. HIDE DEF first
<1>2. fromOld.mem \in Memory /\ (fromOld.ok => Settings_validateMeters(fromOld.mem.columns))
  BY <1>1, ReadType DEF Files
<1>. HIDE DEF fromOld
<1>3. fromUser.mem \in Memory /\ (fromUser.ok => Settings_validateMeters(fromUser.mem.columns))
  BY <1>2, ReadType DEF Files
<1>. HIDE DEF fromUser
<1>4. fromSystem.mem \in Memory /\ (fromSystem.ok => Settings_validateMeters(fromSystem.mem.columns))
  BY <1>3, ReadType DEF Files
<1>. HIDE DEF fromSystem
<1>5. cleared \in Memory /\ Settings_validateMeters(cleared.columns)
  <2>1. Defaults.columns \in Columns \ {<<>>}  BY DefaultsFacts DEF Memory
  <2>2. cleared \in Memory /\ cleared.columns = Defaults.columns  BY <1>4, <2>1, WithColumns
  <2>. QED  BY <2>2, DefaultsFacts
<1>. HIDE DEF cleared
<1>6. loaded = IF fromOld.ok THEN [mem |-> fromOld.mem, changed |-> FALSE, migrate |-> TRUE]
              ELSE IF fromUser.ok THEN [mem |-> fromUser.mem, changed |-> FALSE, migrate |-> FALSE]
              ELSE [mem |-> IF fromSystem.ok THEN fromSystem.mem ELSE cleared, changed |-> TRUE, migrate |-> FALSE]
  BY DEF Load, first, fromOld, fromUser, fromSystem, cleared
<1>. HIDE DEF loaded
<1>7. loaded.mem \in Memory /\ Settings_validateMeters(loaded.mem.columns)  BY <1>2, <1>3, <1>4, <1>5, <1>6
<1>8. loaded.changed \in BOOLEAN /\ loaded.migrate \in BOOLEAN  BY <1>6
<1>9. Whole(loaded.mem)  BY <1>7 DEF Whole, Settings_validateMeters
<1>. QED  BY <1>7, <1>8, <1>9 DEF loaded

-----------------------------------------------------------------------------
(* The lines of a file                                                      *)

\* The items of pairs that are put one after the other.
LEMMA FlattenPairs ==
    ASSUME NEW V, NEW pairs \in Seq(Seq(V)), Len(pairs) > 0, \A c \in 1 .. Len(pairs) : Len(pairs[c]) = 2
    PROVE  /\ SX!FlattenSeq(pairs) \in Seq(V) /\ Len(SX!FlattenSeq(pairs)) = 2 * Len(pairs)
           /\ \A c \in 1 .. Len(pairs) : /\ SX!FlattenSeq(pairs)[2 * c - 1] = pairs[c][1]
                                         /\ SX!FlattenSeq(pairs)[2 * c] = pairs[c][2]
<1>. DEFINE count == Len(pairs)
            ItemAt(j) == IF j = 2 * ((j + 1) \div 2) - 1 THEN pairs[(j + 1) \div 2][1] ELSE pairs[(j + 1) \div 2][2]
            g == [i \in 1 .. count |-> [j \in 1 .. 2 * i |-> ItemAt(j)]]
            Iter(h) == h = [i \in 1 .. count |-> IF i = 1 THEN pairs[i] ELSE h[i - 1] \o pairs[i]]
            flat == SX!FlattenSeq(pairs)
<1>1. count \in Nat \ {0} /\ \A c \in 1 .. count : pairs[c] \in Seq(V) /\ Len(pairs[c]) = 2
  BY ElementOfSeq, LenProperties
<1>2. ASSUME NEW c \in 1 .. count
      PROVE  pairs[c][1] \in V /\ pairs[c][2] \in V /\ pairs[c] = [j \in 1 .. 2 |-> pairs[c][j]]
  <2>. DEFINE p == pairs[c]
  <2>1. p \in Seq(V) /\ Len(p) = 2  BY <1>1
  <2>. HIDE DEF p
  <2>2. p[1] \in V /\ p[2] \in V
    <3>1. 1 \in 1 .. Len(p) /\ 2 \in 1 .. Len(p)  BY <2>1
    <3>. QED  BY <2>1, <3>1, ElementOfSeq
  <2>3. p = [j \in 1 .. 2 |-> p[j]]
    <3>1. p = [j \in 1 .. Len(p) |-> p[j]]  BY <2>1
    <3>. QED  BY <2>1, <3>1
  <2>. QED  BY <2>2, <2>3 DEF p
<1>3. flat = (CHOOSE h : Iter(h))[count]  BY <1>1 DEF SX!FlattenSeq
<1>. HIDE DEF flat
<1>4. ASSUME NEW i \in 1 .. count, NEW j \in 1 .. 2 * i
      PROVE  /\ (j + 1) \div 2 \in 1 .. i
             /\ j = 2 * i - 1 => (j + 1) \div 2 = i
             /\ j = 2 * i => (j + 1) \div 2 = i
  BY <1>1
<1>5. ASSUME NEW i \in 1 .. count, NEW j \in 1 .. 2 * i PROVE ItemAt(j) \in V
  <2>1. (j + 1) \div 2 \in 1 .. count  BY <1>1, <1>4
  <2>. HIDE DEF count
  <2>. QED  BY <1>2, <2>1
<1>6. ASSUME NEW i \in 1 .. count PROVE ItemAt(2 * i - 1) = pairs[i][1] /\ ItemAt(2 * i) = pairs[i][2]
  <2>1. 2 * i - 1 \in 1 .. 2 * i /\ 2 * i \in 1 .. 2 * i /\ 2 * i # 2 * i - 1  BY <1>1
  <2>2. (2 * i - 1 + 1) \div 2 = i /\ (2 * i + 1) \div 2 = i  BY <1>4, <2>1
  <2>. QED  BY <2>1, <2>2
<1>. HIDE DEF ItemAt
<1>7. \A i \in 1 .. count : g[i] \in Seq(V) /\ Len(g[i]) = 2 * i /\ \A j \in 1 .. 2 * i : g[i][j] = ItemAt(j)
  <2>1. SUFFICES ASSUME NEW i \in 1 .. count
                 PROVE  g[i] \in Seq(V) /\ Len(g[i]) = 2 * i /\ \A j \in 1 .. 2 * i : g[i][j] = ItemAt(j)
    OBVIOUS
  <2>2. g[i] = [j \in 1 .. 2 * i |-> ItemAt(j)] /\ 2 * i \in Nat  BY <1>1
  <2>3. \A j \in 1 .. 2 * i : ItemAt(j) \in V  BY <1>5
  <2>. DEFINE k == 2 * i
              x == g[i]
  <2>4. x = [j \in 1 .. k |-> ItemAt(j)] /\ k \in Nat /\ \A j \in 1 .. k : ItemAt(j) \in V  BY <2>2, <2>3
  <2>. HIDE DEF g, k, x
  <2>5. x \in [1 .. k -> V] /\ \A j \in 1 .. k : x[j] = ItemAt(j)  BY <2>4
  <2>6. x \in Seq(V) /\ Len(x) = k  BY <2>4, <2>5
  <2>. QED  BY <2>5, <2>6 DEF x, k
<1>8. Iter(g)
  <2>1. ASSUME NEW i \in 1 .. count PROVE g[i] = IF i = 1 THEN pairs[i] ELSE g[i - 1] \o pairs[i]
    <3>1. /\ g[i] \in Seq(V) /\ Len(g[i]) = 2 * i /\ \A j \in 1 .. 2 * i : g[i][j] = ItemAt(j)
          /\ g[i] = [j \in 1 .. 2 * i |-> ItemAt(j)]
      BY <1>7
    <3>2. CASE i = 1
      <4>1. \A j \in 1 .. 2 : ItemAt(j) = pairs[1][j]
        <5>1. ItemAt(1) = pairs[1][1] /\ ItemAt(2) = pairs[1][2]  BY <1>6, <3>2
        <5>. QED  BY <5>1
      <4>2. pairs[1] = [j \in 1 .. 2 |-> pairs[1][j]]  BY <1>2, <3>2
      <4>3. g[i] = [j \in 1 .. 2 |-> ItemAt(j)]  BY <3>1, <3>2
      <4>. QED  BY <3>2, <4>1, <4>2, <4>3
    <3>3. CASE i # 1
      <4>. DEFINE w == g[i - 1] \o pairs[i]
      <4>1. i - 1 \in 1 .. count /\ i \in Nat /\ 2 * (i - 1) + 2 = 2 * i  BY <1>1, <3>3
      <4>2. g[i - 1] \in Seq(V) /\ Len(g[i - 1]) = 2 * (i - 1) /\ \A j \in 1 .. 2 * (i - 1) : g[i - 1][j] = ItemAt(j)
        BY <1>7, <4>1
      <4>3. pairs[i] \in Seq(V) /\ Len(pairs[i]) = 2  BY <1>1
      <4>. DEFINE u == g[i - 1]
                  v == pairs[i]
      <4>. HIDE DEF u, v, g, count
      <4>4. /\ u \o v \in Seq(V) /\ Len(u \o v) = 2 * i
            /\ \A j \in 1 .. 2 * i : (u \o v)[j] = IF j <= 2 * (i - 1) THEN u[j] ELSE v[j - 2 * (i - 1)]
        <5>1. u \in Seq(V) /\ v \in Seq(V) /\ Len(u) = 2 * (i - 1) /\ Len(v) = 2  BY <4>2, <4>3 DEF u, v
        <5>2. /\ u \o v \in Seq(V) /\ Len(u \o v) = Len(u) + Len(v)
              /\ \A j \in 1 .. Len(u) + Len(v) : (u \o v)[j] = IF j <= Len(u) THEN u[j] ELSE v[j - Len(u)]
          BY <5>1, ConcatProperties
        <5>3. Len(u) + Len(v) = 2 * i  BY <4>1, <5>1
        <5>. QED  BY <5>1, <5>2, <5>3
      <4>5. ASSUME NEW j \in 1 .. 2 * i PROVE (u \o v)[j] = ItemAt(j)
        <5>1. CASE j <= 2 * (i - 1)
          <6>1. j \in 1 .. 2 * (i - 1)  BY <4>1, <5>1
          <6>. QED  BY <4>2, <4>4, <5>1, <6>1 DEF u
        <5>2. CASE j = 2 * i - 1
          <6>1. ~(j <= 2 * (i - 1)) /\ j - 2 * (i - 1) = 1  BY <4>1, <5>2
          <6>2. (u \o v)[j] = v[1]  BY <4>4, <6>1
          <6>. QED  BY <1>6, <5>2, <6>2 DEF v
        <5>3. CASE j = 2 * i
          <6>1. ~(j <= 2 * (i - 1)) /\ j - 2 * (i - 1) = 2  BY <4>1, <5>3
          <6>2. (u \o v)[j] = v[2]  BY <4>4, <6>1
          <6>. QED  BY <1>6, <5>3, <6>2 DEF v
        <5>4. j <= 2 * (i - 1) \/ j = 2 * i - 1 \/ j = 2 * i  BY <4>1
        <5>. QED  BY <5>1, <5>2, <5>3, <5>4
      <4>6. g[i] = u \o v
        <5>1. u \o v = [j \in 1 .. 2 * i |-> (u \o v)[j]]
          <6>. DEFINE z == u \o v
          <6>1. z \in Seq(V) /\ Len(z) = 2 * i  BY <4>4
          <6>. HIDE DEF z
          <6>2. z = [j \in 1 .. Len(z) |-> z[j]]  BY <6>1
          <6>. QED  BY <6>1, <6>2 DEF z
        <5>2. [j \in 1 .. 2 * i |-> (u \o v)[j]] = [j \in 1 .. 2 * i |-> ItemAt(j)]  BY <4>5
        <5>. QED  BY <3>1, <5>1, <5>2
      <4>. QED  BY <3>3, <4>6 DEF u, v
    <3>. QED  BY <3>2, <3>3
  <2>2. g = [i \in 1 .. count |-> g[i]]  OBVIOUS
  <2>. HIDE DEF g
  <2>. QED  BY <2>1, <2>2
<1>. HIDE DEF g
<1>9. PICK h : Iter(h) /\ flat = h[count]
  <2>. HIDE DEF Iter
  <2>. QED  BY <1>3, <1>8
<1>14. \A i \in 1 .. count : /\ h[i] = IF i = 1 THEN pairs[i] ELSE h[i - 1] \o pairs[i]
                       /\ g[i] = IF i = 1 THEN pairs[i] ELSE g[i - 1] \o pairs[i]
  BY <1>8, <1>9
<1>10. \A i \in Nat : i \in 1 .. count => h[i] = g[i]
  <2>. DEFINE T == {i \in Nat : i \in 1 .. count => h[i] = g[i]}
  <2>1. 0 \in T  OBVIOUS
  <2>2. ASSUME NEW i \in T PROVE i + 1 \in T
    <3>1. SUFFICES ASSUME i + 1 \in 1 .. count PROVE h[i + 1] = g[i + 1]  OBVIOUS
    <3>. HIDE DEF count
    <3>2. i + 1 - 1 = i /\ (i + 1 # 1 => i \in 1 .. count)  BY <1>1, <3>1
    <3>. DEFINE k == i + 1
    <3>3. k \in 1 .. count /\ k - 1 = i /\ (k # 1 => h[i] = g[i])  BY <3>1, <3>2
    <3>. HIDE DEF k
    <3>4. h[k] = g[k]  BY <1>14, <3>3
    <3>. QED  BY <3>4 DEF k
  <2>3. T = Nat
    <3>1. T \in SUBSET Nat  OBVIOUS
    <3>. HIDE DEF T
    <3>. QED  BY <2>1, <2>2, <3>1, NatSetInduction
  <2>. QED  BY <2>3
<1>11. flat = g[count]
  <2>1. count \in Nat /\ count \in 1 .. count  BY <1>1
  <2>. HIDE DEF count, Iter
  <2>. QED  BY <1>9, <1>10, <2>1
<1>12. flat \in Seq(V) /\ Len(flat) = 2 * count /\ \A j \in 1 .. 2 * count : flat[j] = ItemAt(j)  BY <1>1, <1>7, <1>11
<1>13. ASSUME NEW c \in 1 .. count PROVE flat[2 * c - 1] = pairs[c][1] /\ flat[2 * c] = pairs[c][2]
  <2>1. 2 * c - 1 \in 1 .. 2 * count /\ 2 * c \in 1 .. 2 * count  BY <1>1
  <2>. QED  BY <1>6, <1>12, <2>1
<1>. QED  BY <1>12, <1>13 DEF flat

\* The lines of the column c are those after the first 2 * c + 2.
LEMMA LinesFacts ==
    ASSUME NEW s \in Memory
    PROVE  /\ Lines(s) \in Seq(FileLines) /\ Len(Lines(s)) = 4 + 2 * Len(s.columns)
           /\ Len(s.columns) \in Nat \ {0} /\ DOMAIN s.columns = 1 .. Len(s.columns)
           /\ Lines(s)[1] = Line("version", 0, <<ReaderVersion>>) /\ Lines(s)[2] = Line("fields", 0, s.fields)
           /\ Lines(s)[3] = Line("option", 0, <<s.option>>) /\ Lines(s)[4] = Line("layout", 0, <<Len(s.columns)>>)
           /\ \A c \in 1 .. Len(s.columns) : /\ Lines(s)[2 * c + 3] = Line("meters", c, s.columns[c].names)
                                             /\ Lines(s)[2 * c + 4] = Line("modes", c, s.columns[c].modes)
<1>. DEFINE count == Len(s.columns)
            meters(c) == Line("meters", c, s.columns[c].names)
            modes(c) == Line("modes", c, s.columns[c].modes)
            pairs == [c \in 1 .. count |-> <<meters(c), modes(c)>>]
            head == <<Line("version", 0, <<ReaderVersion>>), Line("fields", 0, s.fields),
                      Line("option", 0, <<s.option>>), Line("layout", 0, <<count>>)>>
            flat == SX!FlattenSeq(pairs)
<1>1. count \in Nat \ {0} /\ DOMAIN s.columns = 1 .. count /\ \A c \in 1 .. count : s.columns[c] \in Meters
  BY StoredColumnsFacts DEF Memory
<1>. HIDE DEF count
<1>2. s.fields \in Values /\ s.option \in Nat /\ \A c \in 1 .. count : s.columns[c].names \in Values /\ s.columns[c].modes \in Values
  BY <1>1 DEF Memory, Meters
<1>3. <<ReaderVersion>> \in Values /\ <<s.option>> \in Values /\ <<count>> \in Values
  BY <1>1, <1>2 DEF Values, ReaderVersion
<1>4. \A c \in 1 .. count : meters(c) \in FileLines /\ modes(c) \in FileLines
  BY <1>1, <1>2 DEF Line, FileLines
<1>5. /\ Line("version", 0, <<ReaderVersion>>) \in FileLines /\ Line("fields", 0, s.fields) \in FileLines
      /\ Line("option", 0, <<s.option>>) \in FileLines /\ Line("layout", 0, <<count>>) \in FileLines
  <2>1. Line("version", 0, <<ReaderVersion>>) \in FileLines  BY <1>3 DEF Line, FileLines, ReaderVersion
  <2>2. Line("fields", 0, s.fields) \in FileLines  BY <1>2 DEF Line, FileLines
  <2>3. Line("option", 0, <<s.option>>) \in FileLines  BY <1>2, <1>3 DEF Line, FileLines
  <2>4. Line("layout", 0, <<count>>) \in FileLines  BY <1>1, <1>3 DEF Line, FileLines
  <2>. QED  BY <2>1, <2>2, <2>3, <2>4
<1>6. head \in Seq(FileLines) /\ Len(head) = 4  BY <1>5
<1>. HIDE DEF meters, modes
<1>7. pairs \in Seq(Seq(FileLines)) /\ Len(pairs) = count
  <2>1. \A c \in 1 .. count : <<meters(c), modes(c)>> \in Seq(FileLines)  BY <1>4
  <2>. QED  BY <1>1, <2>1
<1>8. \A c \in 1 .. count : pairs[c] = <<meters(c), modes(c)>> /\ Len(pairs[c]) = 2
                        /\ pairs[c][1] = meters(c) /\ pairs[c][2] = modes(c)
  OBVIOUS
<1>9. Lines(s) = head \o flat
  <2>1. pairs = [c \in DOMAIN s.columns |-> <<Line("meters", c, s.columns[c].names), Line("modes", c, s.columns[c].modes)>>]
    BY <1>1 DEF meters, modes
  <2>. HIDE DEF pairs
  <2>. QED  BY <2>1 DEF Lines, count
<1>. HIDE DEF pairs
<1>10. /\ flat \in Seq(FileLines) /\ Len(flat) = 2 * count
       /\ \A c \in 1 .. count : flat[2 * c - 1] = meters(c) /\ flat[2 * c] = modes(c)
  <2>1. Len(pairs) > 0 /\ \A c \in 1 .. Len(pairs) : Len(pairs[c]) = 2  BY <1>1, <1>7, <1>8
  <2>2. /\ flat \in Seq(FileLines) /\ Len(flat) = 2 * Len(pairs)
        /\ \A c \in 1 .. Len(pairs) : flat[2 * c - 1] = pairs[c][1] /\ flat[2 * c] = pairs[c][2]
    BY <1>7, <2>1, FlattenPairs
  <2>. QED  BY <1>7, <1>8, <2>2
<1>. HIDE DEF flat
<1>. DEFINE a == head
<1>11. a[1] = Line("version", 0, <<ReaderVersion>>) /\ a[2] = Line("fields", 0, s.fields)
       /\ a[3] = Line("option", 0, <<s.option>>) /\ a[4] = Line("layout", 0, <<count>>)
  OBVIOUS
<1>. HIDE DEF a, head
<1>12. a \in Seq(FileLines) /\ Len(a) = 4 /\ Lines(s) = a \o flat  BY <1>6, <1>9 DEF a
<1>13. /\ Lines(s) \in Seq(FileLines) /\ Len(Lines(s)) = 4 + 2 * count
       /\ \A i \in 1 .. 4 + 2 * count : Lines(s)[i] = IF i <= 4 THEN a[i] ELSE flat[i - 4]
  <2>1. /\ a \o flat \in Seq(FileLines) /\ Len(a \o flat) = Len(a) + Len(flat)
        /\ \A i \in 1 .. Len(a) + Len(flat) : (a \o flat)[i] = IF i <= Len(a) THEN a[i] ELSE flat[i - Len(a)]
    BY <1>10, <1>12, ConcatProperties
  <2>2. Len(a) + Len(flat) = 4 + 2 * count  BY <1>1, <1>10, <1>12
  <2>. QED  BY <1>12, <2>1, <2>2
<1>14. \A c \in 1 .. count : Lines(s)[2 * c + 3] = meters(c) /\ Lines(s)[2 * c + 4] = modes(c)
  <2>1. SUFFICES ASSUME NEW c \in 1 .. count PROVE Lines(s)[2 * c + 3] = meters(c) /\ Lines(s)[2 * c + 4] = modes(c)
    OBVIOUS
  <2>. DEFINE i == 2 * c + 3
              j == 2 * c + 4
  <2>2. /\ i \in 1 .. 4 + 2 * count /\ ~(i <= 4) /\ i - 4 = 2 * c - 1
        /\ j \in 1 .. 4 + 2 * count /\ ~(j <= 4) /\ j - 4 = 2 * c
    BY <1>1
  <2>. HIDE DEF i, j
  <2>3. Lines(s)[i] = flat[2 * c - 1] /\ Lines(s)[j] = flat[2 * c]  BY <1>13, <2>2
  <2>. QED  BY <1>10, <2>3 DEF i, j
<1>15. Lines(s)[1] = a[1] /\ Lines(s)[2] = a[2] /\ Lines(s)[3] = a[3] /\ Lines(s)[4] = a[4]
  <2>1. \A i \in 1 .. 4 : i \in 1 .. 4 + 2 * count  BY <1>1
  <2>. QED  BY <1>13, <2>1
<1>. QED  BY <1>1, <1>11, <1>13, <1>14, <1>15 DEF count, meters, modes

\* What is left of a line is nothing or a line of the same kind.
LEMMA CutFacts ==
    ASSUME NEW line \in FileLines, NEW cut \in Cuts(line)
    PROVE  \/ cut = <<>>
           \/ \E x \in FileLines :
                 /\ cut = <<x>> /\ x.key = line.key /\ x.col = line.col
                 /\ line.key = "version" => x.value = <<>>
                 /\ line.key = "layout" => x.value = <<DefaultLayout>>
                 /\ line.key = "modes" => \E k \in 0 .. Len(line.value) : x.value = SubSeq(line.value, 1, k)
<1>. SUFFICES ASSUME cut # <<>>
              PROVE  \E x \in FileLines :
                        /\ cut = <<x>> /\ x.key = line.key /\ x.col = line.col
                        /\ line.key = "version" => x.value = <<>>
                        /\ line.key = "layout" => x.value = <<DefaultLayout>>
                        /\ line.key = "modes" => \E k \in 0 .. Len(line.value) : x.value = SubSeq(line.value, 1, k)
  OBVIOUS
<1>. DEFINE Cut(v) == [line EXCEPT !.value = v]
<1>1. line.value \in Values /\ Len(line.value) \in Nat  BY LenProperties DEF FileLines, Values
<1>2. \A v : Cut(v).key = line.key /\ Cut(v).col = line.col /\ Cut(v).value = v  BY DEF FileLines
<1>3. ASSUME NEW v \in Values, line.key \in {"version", "option", "layout"} => \A i \in DOMAIN v : v[i] \in Nat \ {0} \/
                                                                                   (line.key # "layout" /\ v[i] = 0)
      PROVE  Cut(v) \in FileLines
  <2>1. Cut(v) \in [key : {"version", "fields", "option", "layout", "meters", "modes"}, col : Nat, value : Values]
    BY DEF FileLines
  <2>2. /\ line.key \in {"version", "option", "layout"} => \A i \in DOMAIN v : v[i] \in Nat
        /\ line.key = "layout" => \A i \in DOMAIN v : v[i] > 0
    BY <1>3
  <2>3. line.key \in {"meters", "modes"} => line.col > 0  BY DEF FileLines
  <2>. HIDE DEF Cut
  <2>. QED  BY <1>2, <2>1, <2>2, <2>3 DEF FileLines
<1>4. ASSUME NEW k \in 0 .. Len(line.value) PROVE SubSeq(line.value, 1, k) \in Values
  BY <1>1, SubSeqProperties DEF Values
<1>5. CASE line.key \in {"fields", "modes"}
  <2>1. PICK k \in 0 .. Len(line.value) : cut = <<Cut(SubSeq(line.value, 1, k))>>  BY <1>5 DEF Cuts
  <2>. DEFINE v == SubSeq(line.value, 1, k)
  <2>2. v \in Values  BY <1>4
  <2>3. cut = <<Cut(v)>> /\ \E i \in 0 .. Len(line.value) : v = SubSeq(line.value, 1, i)  BY <2>1
  <2>. HIDE DEF v, Cut
  <2>. QED  BY <1>2, <1>3, <1>5, <2>2, <2>3
<1>6. CASE line.key = "meters"
  <2>1. \/ \E k \in 0 .. Len(line.value) : cut = <<Cut(SubSeq(line.value, 1, k))>>
        \/ \E k \in 1 .. Len(line.value) : cut = <<Cut(Append(SubSeq(line.value, 1, k - 1), Broken))>>
    BY <1>6 DEF Cuts
  <2>2. ASSUME NEW k \in 1 .. Len(line.value) PROVE Append(SubSeq(line.value, 1, k - 1), Broken) \in Values
    <3>1. k - 1 \in 0 .. Len(line.value)  BY <1>1
    <3>2. SubSeq(line.value, 1, k - 1) \in Values  BY <1>4, <3>1
    <3>. QED  BY <3>2, SettingsAssumption DEF Values
  <2>3. PICK v \in Values : cut = <<Cut(v)>>  BY <1>4, <2>1, <2>2
  <2>. HIDE DEF Cut
  <2>. QED  BY <1>2, <1>3, <1>6, <2>3
<1>7. CASE line.key = "layout"
  <2>1. cut = <<Cut(<<DefaultLayout>>)>>  BY <1>7 DEF Cuts
  <2>2. Cut(<<DefaultLayout>>) \in FileLines
    <3>1. <<DefaultLayout>> \in Values /\ \A i \in DOMAIN <<DefaultLayout>> : <<DefaultLayout>>[i] \in Nat \ {0}
      BY DEF Values, DefaultLayout
    <3>. HIDE DEF Cut
    <3>. QED  BY <1>3, <3>1
  <2>. HIDE DEF Cut
  <2>. QED  BY <1>2, <1>7, <2>1, <2>2
<1>8. CASE line.key = "option"
  <2>1. PICK s \in UserSettings : cut = <<Cut(<<s.option>>)>>  BY <1>8 DEF Cuts
  <2>2. s.option \in Nat  BY SettingsAssumption
  <2>3. Cut(<<s.option>>) \in FileLines
    <3>1. <<s.option>> \in Values /\ \A i \in DOMAIN <<s.option>> : <<s.option>>[i] \in Nat  BY <2>2 DEF Values
    <3>. HIDE DEF Cut
    <3>. QED  BY <1>3, <1>8, <3>1
  <2>. HIDE DEF Cut
  <2>. QED  BY <1>2, <1>8, <2>1, <2>3
<1>9. CASE line.key = "version"
  <2>1. cut = <<Cut(<<>>)>>  BY <1>9 DEF Cuts
  <2>2. Cut(<<>>) \in FileLines
    <3>1. <<>> \in Values /\ DOMAIN <<>> = {}  BY DEF Values
    <3>. HIDE DEF Cut
    <3>. QED  BY <1>3, <3>1
  <2>. HIDE DEF Cut
  <2>. QED  BY <1>2, <1>9, <2>1, <2>2
<1>. QED  BY <1>5, <1>6, <1>7, <1>8, <1>9 DEF FileLines

-----------------------------------------------------------------------------
(* Reading what was written                                                 *)

\* What was read of the column c after i lines.
ColumnAt(s, i, c) ==
    [names |-> IF 2 * c + 3 <= i THEN s.columns[c].names ELSE <<>>,
     modes |-> IF 2 * c + 4 <= i THEN s.columns[c].modes ELSE <<>>]

\* The state of the reader after i lines of the settings s.
ReadTo(st, s, i) ==
    /\ st \in ReadState /\ ~st.newer
    /\ i >= 2 => st.mem.fields = s.fields
    /\ i >= 3 => st.mem.option = s.option
    /\ i < 4 => st.mem.columns = NewColumns(DefaultLayout)
    /\ i >= 4 => /\ Len(st.mem.columns) = Len(s.columns)
                 /\ \A c \in 1 .. Len(s.columns) : st.mem.columns[c] = ColumnAt(s, i, c)
    /\ i >= 5 /\ s.columns[1].names # <<>> => st.didReadMeters

LEMMA ColumnAtFacts ==
    ASSUME NEW s, NEW i \in Nat, NEW c \in Nat \ {0}
    PROVE  /\ i + 1 = 2 * c + 3 =>
              \A d \in Nat : ColumnAt(s, i + 1, d) =
                 IF d = c THEN [ColumnAt(s, i, d) EXCEPT !.names = s.columns[c].names] ELSE ColumnAt(s, i, d)
           /\ i + 1 = 2 * c + 4 =>
              \A d \in Nat : ColumnAt(s, i + 1, d) =
                 IF d = c THEN [ColumnAt(s, i, d) EXCEPT !.modes = s.columns[c].modes] ELSE ColumnAt(s, i, d)
<1>1. ASSUME i + 1 = 2 * c + 3, NEW d \in Nat
      PROVE  ColumnAt(s, i + 1, d) =
                IF d = c THEN [ColumnAt(s, i, d) EXCEPT !.names = s.columns[c].names] ELSE ColumnAt(s, i, d)
  <2>1. (2 * d + 4 <= i + 1 <=> 2 * d + 4 <= i) /\ (d # c => (2 * d + 3 <= i + 1 <=> 2 * d + 3 <= i))
    BY <1>1
  <2>2. 2 * c + 3 <= i + 1  BY <1>1
  <2>. QED  BY <2>1, <2>2 DEF ColumnAt
<1>2. ASSUME i + 1 = 2 * c + 4, NEW d \in Nat
      PROVE  ColumnAt(s, i + 1, d) =
                IF d = c THEN [ColumnAt(s, i, d) EXCEPT !.modes = s.columns[c].modes] ELSE ColumnAt(s, i, d)
  <2>1. (2 * d + 3 <= i + 1 <=> 2 * d + 3 <= i) /\ (d # c => (2 * d + 4 <= i + 1 <=> 2 * d + 4 <= i))
    BY <1>2
  <2>2. 2 * c + 4 <= i + 1  BY <1>2
  <2>. QED  BY <2>1, <2>2 DEF ColumnAt
<1>. QED  BY <1>1, <1>2

\* Every line after the first four is about a column.
LEMMA WhichColumn ==
    ASSUME NEW count \in Nat, NEW i \in 5 .. 4 + 2 * count
    PROVE  \E c \in 1 .. count : i = 2 * c + 3 \/ i = 2 * c + 4
<1>. DEFINE c == (i - 3) \div 2
<1>1. c \in 1 .. count /\ (i = 2 * c + 3 \/ i = 2 * c + 4)  OBVIOUS
<1>. QED  BY <1>1

LEMMA ReadHead ==
    ASSUME NEW s \in Memory, NEW i \in 0 .. 3, NEW st, ReadTo(st, s, i)
    PROVE  ReadTo(ReadLine(st, Lines(s)[i + 1]), s, i + 1)
<1>. DEFINE line == Lines(s)[i + 1]
            next == ReadLine(st, line)
            count == Len(s.columns)
<1>1. st \in ReadState /\ ~st.newer /\ st.mem \in Memory /\ st.mem.columns = NewColumns(DefaultLayout)
  BY DEF ReadTo, ReadState
<1>2. count \in Nat \ {0} /\ DOMAIN s.columns = 1 .. count  BY LinesFacts
<1>3. CASE i = 0
  <2>1. line.key = "version" /\ line.value = <<ReaderVersion>>
    <3>1. i + 1 = 1  BY <1>3
    <3>2. line = Line("version", 0, <<ReaderVersion>>)  BY <3>1, LinesFacts
    <3>. HIDE DEF line
    <3>. QED  BY <3>2 DEF Line
  <2>. HIDE DEF line
  <2>2. next = [st EXCEPT !.newer = line.value[1] > ReaderVersion]
    <3>1. line.value # <<>>  BY <2>1
    <3>. QED  BY <1>1, <2>1, <3>1, LineRead
  <2>3. (line.value[1] > ReaderVersion) = FALSE  BY <2>1 DEF ReaderVersion
  <2>4. next \in ReadState /\ ~next.newer /\ next.mem = st.mem  BY <1>1, <2>2, <2>3 DEF ReadState
  <2>. HIDE DEF next
  <2>5. ReadTo(next, s, 1)  BY <1>1, <2>4 DEF ReadTo
  <2>. QED  BY <1>3, <2>5 DEF next, line
<1>4. CASE i = 1
  <2>1. line.key = "fields" /\ line.value = s.fields /\ s.fields \in Values \ {<<>>}
    <3>1. i + 1 = 2  BY <1>4
    <3>2. line = Line("fields", 0, s.fields)  BY <3>1, LinesFacts
    <3>. HIDE DEF line
    <3>. QED  BY <3>2 DEF Line, Memory
  <2>. HIDE DEF line
  <2>2. next = [st EXCEPT !.mem = [st.mem EXCEPT !.fields = line.value]]  BY <1>1, <2>1, LineRead
  <2>3. [st.mem EXCEPT !.fields = line.value] \in Memory  BY <1>1, <2>1 DEF Memory
  <2>4. next \in ReadState /\ ~next.newer /\ next.mem.fields = s.fields /\ next.mem.columns = st.mem.columns
    BY <1>1, <2>1, <2>2, <2>3 DEF ReadState, Memory
  <2>. HIDE DEF next
  <2>5. ReadTo(next, s, 2)  BY <1>1, <2>4 DEF ReadTo
  <2>. QED  BY <1>4, <2>5 DEF next, line
<1>5. CASE i = 2
  <2>1. line.key = "option" /\ line.value = <<s.option>> /\ s.option \in Nat
    <3>1. i + 1 = 3  BY <1>5
    <3>2. line = Line("option", 0, <<s.option>>)  BY <3>1, LinesFacts
    <3>. HIDE DEF line
    <3>. QED  BY <3>2 DEF Line, Memory
  <2>2. line.value # <<>> /\ line.value[1] = s.option  BY <2>1
  <2>. HIDE DEF line
  <2>3. next = [st EXCEPT !.mem = [st.mem EXCEPT !.option = line.value[1]]]  BY <1>1, <2>1, <2>2, LineRead
  <2>4. [st.mem EXCEPT !.option = line.value[1]] \in Memory  BY <1>1, <2>1, <2>2 DEF Memory
  <2>5. /\ next \in ReadState /\ ~next.newer /\ next.mem.option = s.option
        /\ next.mem.fields = st.mem.fields /\ next.mem.columns = st.mem.columns
    BY <1>1, <2>2, <2>3, <2>4 DEF ReadState, Memory
  <2>. HIDE DEF next
  <2>6. st.mem.fields = s.fields  BY <1>5 DEF ReadTo
  <2>7. ReadTo(next, s, 3)  BY <1>1, <2>5, <2>6 DEF ReadTo
  <2>. QED  BY <1>5, <2>7 DEF next, line
<1>6. CASE i = 3
  <2>1. line.key = "layout" /\ line.value = <<count>>
    <3>1. i + 1 = 4  BY <1>6
    <3>2. line = Line("layout", 0, <<count>>)  BY <3>1, LinesFacts
    <3>. HIDE DEF line
    <3>. QED  BY <3>2 DEF Line
  <2>2. line.value # <<>> /\ line.value[1] = count  BY <2>1
  <2>. HIDE DEF line, count
  <2>3. next = [st EXCEPT !.mem = [st.mem EXCEPT !.columns = NewColumns(count)]]  BY <1>1, <2>1, <2>2, LineRead
  <2>4. /\ NewColumns(count) \in Columns \ {<<>>} /\ Len(NewColumns(count)) = count
        /\ \A c \in 1 .. count : NewColumns(count)[c] = NoMeters
    BY <1>2, NewColumnsFacts
  <2>5. [st.mem EXCEPT !.columns = NewColumns(count)] \in Memory  BY <1>1, <2>4 DEF Memory
  <2>6. /\ next \in ReadState /\ ~next.newer /\ next.mem.option = st.mem.option
        /\ next.mem.fields = st.mem.fields /\ next.mem.columns = NewColumns(count)
    BY <1>1, <2>3, <2>5 DEF ReadState, Memory
  <2>. HIDE DEF next
  <2>7. st.mem.fields = s.fields /\ st.mem.option = s.option  BY <1>6 DEF ReadTo
  <2>8. \A c \in 1 .. count : NoMeters = ColumnAt(s, 4, c)
    <3>1. \A c \in 1 .. count : ~(2 * c + 3 <= 4) /\ ~(2 * c + 4 <= 4)  BY <1>2
    <3>. QED  BY <3>1 DEF NoMeters, ColumnAt
  <2>9. ReadTo(next, s, 4)  BY <2>4, <2>6, <2>7, <2>8 DEF ReadTo, count
  <2>. QED  BY <1>6, <2>9 DEF next, line
<1>. QED  BY <1>3, <1>4, <1>5, <1>6

LEMMA ReadColumn ==
    ASSUME NEW s \in Memory, NEW c \in 1 .. Len(s.columns), NEW i \in Nat, i + 1 \in {2 * c + 3, 2 * c + 4},
           NEW st, ReadTo(st, s, i)
    PROVE  ReadTo(ReadLine(st, Lines(s)[i + 1]), s, i + 1)
<1>. DEFINE line == Lines(s)[i + 1]
            next == ReadLine(st, line)
            count == Len(s.columns)
<1>1. count \in Nat \ {0} /\ DOMAIN s.columns = 1 .. count /\ c \in Nat \ {0} /\ c \in 1 .. count  BY LinesFacts
<1>2. i \in Nat /\ i >= 4 /\ i + 1 >= 5  BY <1>1
<1>3. /\ st \in ReadState /\ ~st.newer /\ st.mem.fields = s.fields /\ st.mem.option = s.option
      /\ Len(st.mem.columns) = count /\ \A d \in 1 .. count : st.mem.columns[d] = ColumnAt(s, i, d)
      /\ i >= 5 /\ s.columns[1].names # <<>> => st.didReadMeters
  BY <1>2 DEF ReadTo
<1>4. s.columns[c] \in Meters /\ s.columns[c].names \in Values /\ s.columns[c].modes \in Values
  <2>1. s.columns[c] \in Meters  BY <1>1, StoredColumnsFacts DEF Memory
  <2>. QED  BY <2>1 DEF Meters
<1>5. st.mem.columns[c] \in Meters /\ c \in DOMAIN st.mem.columns
  <2>1. st.mem.columns \in Columns \ {<<>>}  BY <1>3 DEF ReadState, Memory
  <2>. QED  BY <1>1, <1>3, <2>1, StoredColumnsFacts
\* The column of the line becomes the one that was written, the others stay.
<1>6. ASSUME NEW column \in Meters, next = Put(st, c, column) \/ (next = st /\ column = st.mem.columns[c]),
             \A d \in Nat : ColumnAt(s, i + 1, d) = IF d = c THEN column ELSE ColumnAt(s, i, d),
             s.columns[1].names # <<>> => next.didReadMeters
      PROVE  ReadTo(next, s, i + 1)
  <2>1. /\ next \in ReadState /\ ~next.newer /\ next.mem.fields = s.fields /\ next.mem.option = s.option
        /\ Len(next.mem.columns) = count
        /\ \A d \in 1 .. count : next.mem.columns[d] = IF d = c THEN column ELSE st.mem.columns[d]
    <3>1. CASE next = Put(st, c, column)
      <4>1. ~next.newer  BY <3>1 DEF Put
      <4>. HIDE DEF next, count
      <4>. QED  BY <1>3, <1>5, <3>1, <4>1, PutFacts DEF count
    <3>2. CASE next = st /\ column = st.mem.columns[c]
      <4>. HIDE DEF next, count
      <4>. QED  BY <1>3, <3>2
    <3>. QED  BY <1>6, <3>1, <3>2
  <2>. HIDE DEF next, count
  <2>2. \A d \in 1 .. count : next.mem.columns[d] = ColumnAt(s, i + 1, d)
    <3>1. SUFFICES ASSUME NEW d \in 1 .. count PROVE next.mem.columns[d] = ColumnAt(s, i + 1, d)  OBVIOUS
    <3>2. d \in Nat  BY <1>1
    <3>. QED  BY <1>3, <1>6, <2>1, <3>2
  <2>3. i + 1 >= 2 /\ i + 1 >= 3 /\ ~(i + 1 < 4)  BY <1>2
  <2>. QED  BY <1>6, <2>1, <2>2, <2>3 DEF ReadTo, count
<1>7. c \in Nat \ {0}  BY <1>1
<1>8. c = Column(st, c)  BY <1>1, <1>3 DEF Column, smallerOf
<1>9. i # 4 /\ s.columns[1].names # <<>> => st.didReadMeters  BY <1>2, <1>3
<1>10. CASE i + 1 = 2 * c + 3
  <2>. DEFINE column == [st.mem.columns[c] EXCEPT !.names = s.columns[c].names]
  <2>1. line.key = "meters" /\ line.col = c /\ line.value = s.columns[c].names
    <3>1. Lines(s)[2 * c + 3] = Line("meters", c, s.columns[c].names)  BY <1>1, LinesFacts
    <3>2. line = Line("meters", c, s.columns[c].names)  BY <1>10, <3>1
    <3>. HIDE DEF line
    <3>. QED  BY <3>2 DEF Line
  <2>2. \A d \in Nat : ColumnAt(s, i + 1, d) = IF d = c THEN column ELSE ColumnAt(s, i, d)
    <3>1. st.mem.columns[c] = ColumnAt(s, i, c)  BY <1>1, <1>3
    <3>2. \A d \in Nat : ColumnAt(s, i + 1, d) =
             IF d = c THEN [ColumnAt(s, i, d) EXCEPT !.names = s.columns[c].names] ELSE ColumnAt(s, i, d)
      BY <1>7, <1>10, ColumnAtFacts, Zenon
    <3>. QED  BY <3>1, <3>2
  <2>3. column \in Meters  BY <1>4, <1>5 DEF Meters
  <2>. HIDE DEF line
  <2>4. CASE line.value = <<>>
    <3>1. next = st  BY <2>4, LineSkipped
    <3>2. st.mem.columns[c].names = <<>>
      <4>1. st.mem.columns[c] = ColumnAt(s, i, c) /\ ~(2 * c + 3 <= i)  BY <1>1, <1>3, <1>10
      <4>. QED  BY <4>1 DEF ColumnAt
    <3>3. column = st.mem.columns[c]  BY <1>5, <2>1, <2>4, <3>2 DEF Meters
    <3>4. i = 4 => c = 1  BY <1>1, <1>10
    <3>5. s.columns[1].names # <<>> => next.didReadMeters  BY <1>9, <2>1, <2>4, <3>1, <3>4
    <3>. HIDE DEF next, column
    <3>. QED  BY <1>6, <2>2, <2>3, <3>1, <3>3, <3>5 DEF next, line
  <2>5. CASE line.value # <<>>
    <3>1. next = Put(st, c, [st.mem.columns[c] EXCEPT !.names = line.value])  BY <1>3, <1>8, <2>1, <2>5, ColumnRead
    <3>2. next.didReadMeters  BY <3>1 DEF Put
    <3>3. next = Put(st, c, column)  BY <2>1, <3>1
    <3>. HIDE DEF next, column
    <3>. QED  BY <1>6, <2>2, <2>3, <3>2, <3>3 DEF next, line
  <2>. QED  BY <2>4, <2>5
<1>11. CASE i + 1 = 2 * c + 4
  <2>. DEFINE column == [st.mem.columns[c] EXCEPT !.modes = s.columns[c].modes]
  <2>1. line.key = "modes" /\ line.col = c /\ line.value = s.columns[c].modes
    <3>1. Lines(s)[2 * c + 4] = Line("modes", c, s.columns[c].modes)  BY <1>1, LinesFacts
    <3>2. line = Line("modes", c, s.columns[c].modes)  BY <1>11, <3>1
    <3>. HIDE DEF line
    <3>. QED  BY <3>2 DEF Line
  <2>2. \A d \in Nat : ColumnAt(s, i + 1, d) = IF d = c THEN column ELSE ColumnAt(s, i, d)
    <3>1. st.mem.columns[c] = ColumnAt(s, i, c)  BY <1>1, <1>3
    <3>2. \A d \in Nat : ColumnAt(s, i + 1, d) =
             IF d = c THEN [ColumnAt(s, i, d) EXCEPT !.modes = s.columns[c].modes] ELSE ColumnAt(s, i, d)
      BY <1>7, <1>11, ColumnAtFacts, Zenon
    <3>. QED  BY <3>1, <3>2
  <2>3. column \in Meters  BY <1>4, <1>5 DEF Meters
  <2>4. i # 4  BY <1>1, <1>11
  <2>. HIDE DEF line
  <2>5. CASE line.value = <<>>
    <3>1. next = st  BY <2>5, LineSkipped
    <3>2. st.mem.columns[c].modes = <<>>
      <4>1. st.mem.columns[c] = ColumnAt(s, i, c) /\ ~(2 * c + 4 <= i)  BY <1>1, <1>3, <1>11
      <4>. QED  BY <4>1 DEF ColumnAt
    <3>3. column = st.mem.columns[c]  BY <1>5, <2>1, <2>5, <3>2 DEF Meters
    <3>4. s.columns[1].names # <<>> => next.didReadMeters  BY <1>9, <2>4, <3>1
    <3>. HIDE DEF next, column
    <3>. QED  BY <1>6, <2>2, <2>3, <3>1, <3>3, <3>4 DEF next, line
  <2>6. CASE line.value # <<>>
    <3>1. next = Put(st, c, [st.mem.columns[c] EXCEPT !.modes = line.value])  BY <1>3, <1>8, <2>1, <2>6, ColumnRead
    <3>2. next.didReadMeters  BY <3>1 DEF Put
    <3>3. next = Put(st, c, column)  BY <2>1, <3>1
    <3>. HIDE DEF next, column
    <3>. QED  BY <1>6, <2>2, <2>3, <3>2, <3>3 DEF next, line
  <2>. QED  BY <2>5, <2>6
<1>. QED  BY <1>10, <1>11

LEMMA ReadOne ==
    ASSUME NEW s \in Memory, NEW i \in 0 .. Len(Lines(s)) - 1, NEW st, ReadTo(st, s, i)
    PROVE  ReadTo(ReadLine(st, Lines(s)[i + 1]), s, i + 1)
<1>. DEFINE count == Len(s.columns)
<1>1. count \in Nat /\ Len(Lines(s)) = 4 + 2 * count  BY LinesFacts
<1>2. CASE i <= 3
  <2>1. i \in 0 .. 3  BY <1>1, <1>2
  <2>. QED  BY <2>1, ReadHead
<1>3. CASE i > 3
  <2>1. i + 1 \in 5 .. 4 + 2 * count /\ i \in Nat  BY <1>1, <1>3
  <2>. HIDE DEF count
  <2>2. PICK c \in 1 .. count : i + 1 = 2 * c + 3 \/ i + 1 = 2 * c + 4  BY <1>1, <2>1, WhichColumn
  <2>3. c \in 1 .. Len(s.columns) /\ i + 1 \in {2 * c + 3, 2 * c + 4}  BY <2>2 DEF count
  <2>. QED  BY <2>1, <2>3, ReadColumn
<1>. QED  BY <1>1, <1>2, <1>3

\* A file that begins with j lines of s is read like s up to there.
LEMMA ReadPrefix ==
    ASSUME NEW s \in Memory, NEW m \in Memory, m.columns = NewColumns(DefaultLayout),
           NEW file \in Seq(FileLines), NEW j \in 0 .. Len(Lines(s)), j <= Len(file),
           \A i \in 1 .. j : file[i] = Lines(s)[i], NEW st, Reads(st, m, file)
    PROVE  ReadTo(st[j], s, j)
<1>. DEFINE T == {i \in Nat : i <= j => ReadTo(st[i], s, i)}
<1>1. Len(Lines(s)) \in Nat /\ Len(file) \in Nat /\ j \in Nat  BY LinesFacts, LenProperties
<1>2. 0 \in T
  <2>1. st[0] = Start0(m)  BY DEF Reads
  <2>2. Start0(m) \in ReadState /\ ~Start0(m).newer /\ Start0(m).mem = m  BY DEF Start0, ReadState
  <2>3. ReadTo(st[0], s, 0)  BY <2>1, <2>2 DEF ReadTo
  <2>. QED  BY <2>3
<1>3. ASSUME NEW i \in T PROVE i + 1 \in T
  <2>1. SUFFICES ASSUME i + 1 <= j PROVE ReadTo(st[i + 1], s, i + 1)  OBVIOUS
  <2>2. i \in 0 .. Len(Lines(s)) - 1 /\ i + 1 \in 1 .. j /\ i + 1 \in 1 .. Len(file) /\ i + 1 - 1 = i /\ ReadTo(st[i], s, i)
    BY <1>1, <2>1
  <2>3. st[i + 1] = ReadLine(st[i + 1 - 1], file[i + 1])  BY <2>2 DEF Reads
  <2>4. st[i + 1] = ReadLine(st[i], Lines(s)[i + 1])  BY <2>2, <2>3
  <2>. QED  BY <2>2, <2>4, ReadOne
<1>4. T = Nat
  <2>1. T \in SUBSET Nat  OBVIOUS
  <2>. HIDE DEF T
  <2>. QED  BY <1>2, <1>3, <2>1, NatSetInduction
<1>. QED  BY <1>1, <1>4

\* The header of a file that is not complete has a column without modes.
LEMMA NotYetValid ==
    ASSUME NEW s \in Memory, NEW i \in 0 .. Len(Lines(s)) - 1, NEW st, ReadTo(st, s, i)
    PROVE  ~Settings_validateMeters(st.mem.columns)
<1>. DEFINE count == Len(s.columns)
            cols == st.mem.columns
<1>1. count \in Nat \ {0} /\ Len(Lines(s)) = 4 + 2 * count  BY LinesFacts
<1>2. CASE i < 4
  <2>1. cols = NewColumns(DefaultLayout)  BY <1>2 DEF ReadTo
  <2>2. 1 \in DOMAIN NewColumns(DefaultLayout) /\ NewColumns(DefaultLayout)[1] = NoMeters
    BY NewColumnsFacts DEF DefaultLayout
  <2>. HIDE DEF cols
  <2>3. 1 \in DOMAIN cols /\ cols[1].modes = <<>>  BY <2>1, <2>2 DEF NoMeters
  <2>. QED  BY <2>3 DEF Settings_validateMeters, cols
<1>3. CASE i >= 4
  <2>1. Len(cols) = count /\ \A c \in 1 .. count : cols[c] = ColumnAt(s, i, c)  BY <1>3 DEF ReadTo
  <2>2. ~(2 * count + 4 <= i) /\ count \in 1 .. count  BY <1>1
  <2>3. cols[count].modes = <<>>
    <3>1. cols[count] = ColumnAt(s, i, count)  BY <2>1, <2>2
    <3>. HIDE DEF cols, count
    <3>. QED  BY <2>2, <3>1 DEF ColumnAt
  <2>4. cols \in Columns \ {<<>>}  BY DEF ReadTo, ReadState, Memory
  <2>5. count \in DOMAIN cols  BY <2>1, <2>2, <2>4, StoredColumnsFacts
  <2>. HIDE DEF cols, count
  <2>. QED  BY <2>3, <2>5 DEF Settings_validateMeters, cols
<1>. QED  BY <1>1, <1>2, <1>3

\* A header that was read to the end is the one that was written.
LEMMA ReadComplete ==
    ASSUME NEW s \in Memory, NEW st, ReadTo(st, s, Len(Lines(s)))
    PROVE  st.mem = s
<1>. DEFINE count == Len(s.columns)
            cols == st.mem.columns
<1>1. count \in Nat \ {0} /\ Len(Lines(s)) = 4 + 2 * count  BY LinesFacts
<1>2. Len(Lines(s)) >= 4 /\ Len(Lines(s)) >= 3 /\ Len(Lines(s)) >= 2  BY <1>1
<1>3. st.mem.fields = s.fields /\ st.mem.option = s.option /\ Len(cols) = count
      /\ \A c \in 1 .. count : cols[c] = ColumnAt(s, Len(Lines(s)), c)
  BY <1>2 DEF ReadTo
<1>4. st.mem \in Memory  BY DEF ReadTo, ReadState
<1>5. cols \in Seq(Meters) /\ s.columns \in Seq(Meters)  BY <1>4 DEF Memory, Columns, Meters
<1>6. \A c \in 1 .. count : cols[c] = s.columns[c]
  <2>1. SUFFICES ASSUME NEW c \in 1 .. count PROVE cols[c] = s.columns[c]  OBVIOUS
  <2>2. 2 * c + 3 <= Len(Lines(s)) /\ 2 * c + 4 <= Len(Lines(s))  BY <1>1
  <2>3. cols[c] = [names |-> s.columns[c].names, modes |-> s.columns[c].modes]  BY <1>3, <2>2 DEF ColumnAt
  <2>4. s.columns[c] \in Meters  BY <1>5, ElementOfSeq
  <2>. QED  BY <2>3, <2>4 DEF Meters
<1>7. cols = s.columns
  <2>1. Len(cols) = Len(s.columns) /\ \A c \in 1 .. Len(cols) : cols[c] = s.columns[c]  BY <1>3, <1>6
  <2>. HIDE DEF cols
  <2>. QED  BY <1>5, <2>1, SeqEqual
<1>. QED  BY <1>3, <1>4, <1>7 DEF Memory

\* A part of a line, as far as the reader of a header can tell.
PartOf(x, line) ==
    /\ x \in FileLines /\ x.key = line.key /\ x.col = line.col
    /\ line.key = "version" => x.value = <<>>
    /\ line.key = "layout" => x.value = <<DefaultLayout>>
    /\ line.key = "modes" => \E k \in 0 .. Len(line.value) : x.value = SubSeq(line.value, 1, k)

\* A header is whole, or not valid, after a part of a line.
LEMMA ReadPart ==
    ASSUME NEW s, Whole(s), NEW j \in 0 .. Len(Lines(s)) - 1, NEW st, ReadTo(st, s, j),
           NEW x, PartOf(x, Lines(s)[j + 1])
    PROVE  /\ ~ReadLine(st, x).newer
           /\ Settings_validateMeters(ReadLine(st, x).mem.columns) => ReadLine(st, x).mem.columns = s.columns
<1>. DEFINE line == Lines(s)[j + 1]
            next == ReadLine(st, x)
            count == Len(s.columns)
            cols == next.mem.columns
<1>1. s \in Memory /\ count \in Nat \ {0} /\ Len(Lines(s)) = 4 + 2 * count /\ DOMAIN s.columns = 1 .. count
  BY LinesFacts DEF Whole
<1>2. st \in ReadState /\ ~st.newer /\ st.mem \in Memory /\ ~Settings_validateMeters(st.mem.columns)
  BY <1>1, NotYetValid DEF ReadTo, ReadState
<1>3. CASE x.value = <<>>
  <2>1. next = st  BY <1>3, LineSkipped
  <2>. HIDE DEF next
  <2>. QED  BY <1>2, <2>1 DEF next
<1>4. CASE j = 0
  <2>1. j + 1 = 1  BY <1>4
  <2>2. line = Line("version", 0, <<ReaderVersion>>)  BY <1>1, <2>1, LinesFacts
  <2>. HIDE DEF line
  <2>3. line.key = "version"  BY <2>2 DEF Line
  <2>4. x.value = <<>>  BY <2>3 DEF PartOf, line
  <2>. QED  BY <1>3, <2>4
<1>5. CASE j = 1 /\ x.value # <<>>
  <2>1. j + 1 = 2  BY <1>5
  <2>2. line = Line("fields", 0, s.fields)  BY <1>1, <2>1, LinesFacts
  <2>. HIDE DEF line
  <2>3. x.key = "fields"  BY <2>2 DEF Line, PartOf, line
  <2>4. next = [st EXCEPT !.mem = [st.mem EXCEPT !.fields = x.value]]  BY <1>2, <1>5, <2>3, LineRead
  <2>5. ~next.newer /\ cols = st.mem.columns  BY <1>2, <2>4 DEF ReadState, Memory
  <2>. QED  BY <1>2, <2>5
<1>6. CASE j = 2 /\ x.value # <<>>
  <2>1. j + 1 = 3  BY <1>6
  <2>2. line = Line("option", 0, <<s.option>>)  BY <1>1, <2>1, LinesFacts
  <2>. HIDE DEF line
  <2>3. x.key = "option"  BY <2>2 DEF Line, PartOf, line
  <2>4. next = [st EXCEPT !.mem = [st.mem EXCEPT !.option = x.value[1]]]  BY <1>2, <1>6, <2>3, LineRead
  <2>5. ~next.newer /\ cols = st.mem.columns  BY <1>2, <2>4 DEF ReadState, Memory
  <2>. QED  BY <1>2, <2>5
<1>7. CASE j = 3 /\ x.value # <<>>
  <2>1. j + 1 = 4  BY <1>7
  <2>2. line = Line("layout", 0, <<count>>)  BY <1>1, <2>1, LinesFacts
  <2>. HIDE DEF line
  <2>3. x.key = "layout" /\ x.value = <<DefaultLayout>>  BY <2>2 DEF Line, PartOf, line
  <2>4. next = [st EXCEPT !.mem = [st.mem EXCEPT !.columns = NewColumns(x.value[1])]]  BY <1>2, <1>7, <2>3, LineRead
  <2>5. x.value[1] = DefaultLayout  BY <2>3
  <2>6. ~next.newer /\ cols = NewColumns(DefaultLayout)  BY <1>2, <2>4, <2>5 DEF ReadState, Memory
  <2>7. 1 \in DOMAIN NewColumns(DefaultLayout) /\ NewColumns(DefaultLayout)[1] = NoMeters
    BY NewColumnsFacts DEF DefaultLayout
  <2>8. ~Settings_validateMeters(cols)
    <3>. HIDE DEF cols
    <3>. QED  BY <2>6, <2>7 DEF Settings_validateMeters, NoMeters
  <2>. QED  BY <2>6, <2>8
<1>8. CASE j > 3 /\ x.value # <<>>
  <2>1. j + 1 \in 5 .. 4 + 2 * count /\ count \in Nat /\ j \in Nat /\ j >= 4  BY <1>1, <1>8
  <2>2. PICK c \in 1 .. count : j + 1 = 2 * c + 3 \/ j + 1 = 2 * c + 4
    <3>. HIDE DEF count
    <3>. QED  BY <2>1, WhichColumn
  <2>3. Len(st.mem.columns) = count /\ \A d \in 1 .. count : st.mem.columns[d] = ColumnAt(s, j, d)
    BY <2>1 DEF ReadTo
  <2>4. c \in Nat \ {0} /\ c <= count  BY <1>1, <2>2
  <2>5. c = Column(st, c)  BY <1>1, <2>3, <2>4 DEF Column, smallerOf
  <2>6. st.mem.columns \in Columns \ {<<>>} /\ x.value \in Values  BY <1>2 DEF Memory, PartOf, FileLines
  <2>7. c \in DOMAIN st.mem.columns /\ st.mem.columns[c] \in Meters  BY <2>2, <2>3, <2>6, StoredColumnsFacts
  \* What is known when a column was replaced.
  <2>8. ASSUME NEW column \in Meters, next = Put(st, c, column)
        PROVE  /\ ~next.newer /\ next \in ReadState /\ cols \in Columns \ {<<>>} /\ DOMAIN cols = 1 .. count
               /\ \A d \in 1 .. count : cols[d] = IF d = c THEN column ELSE ColumnAt(s, j, d)
    <3>1. ~next.newer  BY <2>8 DEF Put
    <3>2. next \in ReadState /\ Len(cols) = count
          /\ \A d \in 1 .. count : cols[d] = IF d = c THEN column ELSE st.mem.columns[d]
      <4>. HIDE DEF next
      <4>. QED  BY <1>2, <2>3, <2>7, <2>8, PutFacts
    <3>3. cols \in Columns \ {<<>>}  BY <3>2 DEF ReadState, Memory
    <3>4. DOMAIN cols = 1 .. count  BY <3>2, <3>3, StoredColumnsFacts
    <3>. HIDE DEF next, count, cols
    <3>. QED  BY <2>3, <3>1, <3>2, <3>3, <3>4
  <2>9. CASE j + 1 = 2 * c + 3
    <3>. DEFINE column == [st.mem.columns[c] EXCEPT !.names = x.value]
    <3>1. line = Line("meters", c, s.columns[c].names)  BY <1>1, <2>2, <2>9, LinesFacts
    <3>. HIDE DEF line
    <3>2. x.key = "meters" /\ x.col = c  BY <3>1 DEF Line, PartOf, line
    <3>3. next = Put(st, c, column)  BY <1>2, <1>8, <2>5, <3>2, ColumnRead
    <3>4. column \in Meters  BY <2>6, <2>7 DEF Meters
    <3>5. column.modes = <<>>
      <4>1. st.mem.columns[c] = ColumnAt(s, j, c) /\ ~(2 * c + 4 <= j)  BY <2>1, <2>2, <2>3, <2>4, <2>9
      <4>2. st.mem.columns[c].modes = <<>>  BY <4>1 DEF ColumnAt
      <4>. QED  BY <2>7, <4>2 DEF Meters
    <3>. HIDE DEF next, column, count
    <3>6. ~next.newer /\ c \in DOMAIN cols /\ cols[c] = column  BY <2>2, <2>8, <3>3, <3>4
    <3>. HIDE DEF cols
    <3>7. ~Settings_validateMeters(cols)  BY <3>5, <3>6 DEF Settings_validateMeters
    <3>. QED  BY <3>6, <3>7 DEF cols, next
  <2>10. CASE j + 1 = 2 * c + 4
    <3>. DEFINE column == [st.mem.columns[c] EXCEPT !.modes = x.value]
    <3>1. line = Line("modes", c, s.columns[c].modes)  BY <1>1, <2>2, <2>10, LinesFacts
    <3>. HIDE DEF line
    <3>2. x.key = "modes" /\ x.col = c /\ line.value = s.columns[c].modes  BY <3>1 DEF Line, PartOf, line
    <3>3. next = Put(st, c, column)  BY <1>2, <1>8, <2>5, <3>2, ColumnRead
    <3>4. column \in Meters /\ column.modes = x.value /\ column.names = st.mem.columns[c].names
      BY <2>6, <2>7 DEF Meters
    <3>5. CASE c < count
      <4>1. ~(2 * count + 4 <= j) /\ count \in 1 .. count /\ count # c  BY <1>1, <2>1, <2>4, <2>10, <3>5
      <4>. HIDE DEF next, column, count
      <4>2. ~next.newer /\ count \in DOMAIN cols /\ cols[count] = ColumnAt(s, j, count)  BY <2>8, <3>3, <3>4, <4>1
      <4>. HIDE DEF cols
      <4>3. cols[count].modes = <<>>  BY <4>1, <4>2 DEF ColumnAt
      <4>4. ~Settings_validateMeters(cols)  BY <4>2, <4>3 DEF Settings_validateMeters
      <4>. QED  BY <4>2, <4>4 DEF cols, next
    <3>6. CASE c = count
      <4>1. 2 * c + 3 <= j  BY <2>1, <2>4, <2>10
      <4>2. column.names = s.columns[c].names
        <5>1. st.mem.columns[c] = ColumnAt(s, j, c)  BY <2>2, <2>3
        <5>2. st.mem.columns[c].names = s.columns[c].names  BY <4>1, <5>1 DEF ColumnAt
        <5>. QED  BY <3>4, <5>2
      <4>3. s.columns[c] \in Meters /\ Len(s.columns[c].names) = Len(s.columns[c].modes)
        <5>1. s.columns \in Columns \ {<<>>}  BY <1>1 DEF Memory
        <5>. HIDE DEF count
        <5>. QED  BY <1>1, <2>2, <5>1, StoredColumnsFacts DEF Whole, count
      <4>. DEFINE modes == s.columns[c].modes
      <4>4. PICK k \in 0 .. Len(modes) : x.value = SubSeq(modes, 1, k)  BY <3>1, <3>2 DEF PartOf, line, Line
      <4>5. modes \in Values /\ Len(modes) \in Nat /\ Len(SubSeq(modes, 1, k)) = k
        <5>1. modes \in Values  BY <4>3 DEF Meters
        <5>. HIDE DEF modes
        <5>2. modes \in Seq(Nat \cup Names)  BY <5>1 DEF Values
        <5>3. Len(modes) \in Nat  BY <5>2, LenProperties
        <5>4. Len(SubSeq(modes, 1, k)) = k  BY <5>2, <5>3, SubSeqProperties
        <5>. QED  BY <5>1, <5>3, <5>4
      <4>6. ~next.newer /\ c \in DOMAIN cols /\ cols[c] = column
        <5>. HIDE DEF next, column, count
        <5>. QED  BY <2>2, <2>8, <3>3, <3>4
      <4>7. ASSUME Settings_validateMeters(cols) PROVE cols = s.columns
        <5>1. Len(column.names) = Len(column.modes)
          <6>. HIDE DEF cols, column
          <6>. QED  BY <4>6, <4>7 DEF Settings_validateMeters
        <5>2. k = Len(modes)
          <6>. HIDE DEF column
          <6>. QED  BY <3>4, <4>2, <4>3, <4>4, <4>5, <5>1
        <5>3. x.value = modes
          <6>. HIDE DEF modes
          <6>1. modes \in Seq(Nat \cup Names)  BY <4>5 DEF Values
          <6>2. SubSeq(modes, 1, Len(modes)) = modes  BY <6>1
          <6>. QED  BY <4>4, <5>2, <6>2
        <5>4. x = line
          <6>1. x = [key |-> x.key, col |-> x.col, value |-> x.value]  BY DEF PartOf, FileLines
          <6>2. line = [key |-> "modes", col |-> c, value |-> modes]  BY <3>1 DEF Line
          <6>. HIDE DEF modes, line
          <6>. QED  BY <3>2, <5>3, <6>1, <6>2
        <5>5. ReadTo(next, s, j + 1)
          <6>1. ReadTo(ReadLine(st, Lines(s)[j + 1]), s, j + 1)  BY <1>1, ReadOne
          <6>. QED  BY <5>4, <6>1 DEF line
        <5>6. j + 1 = Len(Lines(s))  BY <1>1, <2>10, <3>6
        <5>. HIDE DEF next
        <5>7. next.mem = s  BY <1>1, <5>5, <5>6, ReadComplete
        <5>. QED  BY <5>7
      <4>. QED  BY <4>6, <4>7
    <3>. QED  BY <1>1, <2>4, <3>5, <3>6
  <2>. QED  BY <2>2, <2>9, <2>10
<1>9. j \in Nat  BY <1>1
<1>. QED  BY <1>3, <1>4, <1>5, <1>6, <1>7, <1>8, <1>9

\* A file of which the writing was begun with the settings s: some lines, and
\* perhaps a part of the next one.
BegunBy(file, s) ==
    /\ file \in Seq(FileLines)
    /\ \E j \in 0 .. Len(Lines(s)) :
          /\ \A i \in 1 .. j : file[i] = Lines(s)[i]
          /\ \/ Len(file) = j
             \/ j < Len(Lines(s)) /\ Len(file) = j + 1 /\ PartOf(file[j + 1], Lines(s)[j + 1])

\* What a start makes of such a file.
LEMMA ReadBegun ==
    ASSUME NEW s, Whole(s), NEW m \in Memory, m.columns = NewColumns(DefaultLayout), NEW file, BegunBy(file, s)
    PROVE  /\ Settings_read(m, file).ok = (file # <<>>)
           /\ Settings_read(m, file).mem.columns \in {s.columns, Defaults.columns}
<1>1. file \in Seq(FileLines) /\ Len(file) \in Nat /\ file # Absent  BY SettingsAssumption, LenProperties DEF BegunBy
<1>2. s \in Memory /\ Len(Lines(s)) \in Nat  BY LinesFacts DEF Whole
<1>3. PICK st : /\ Reads(st, m, file) /\ \A i \in 0 .. Len(file) : st[i] \in ReadState
                /\ SX!FoldLeft(ReadLine, Start0(m), file) = st[Len(file)]
  BY <1>1, ReadFold
<1>. DEFINE read == st[Len(file)]
            valid == read.didReadMeters /\ Settings_validateMeters(read.mem.columns)
            kept == IF read.newer \/ valid THEN read.mem ELSE [read.mem EXCEPT !.columns = Defaults.columns]
<1>4. ~read.newer /\ (Settings_validateMeters(read.mem.columns) => read.mem.columns = s.columns)
  <2>1. PICK j \in 0 .. Len(Lines(s)) :
           /\ \A i \in 1 .. j : file[i] = Lines(s)[i]
           /\ \/ Len(file) = j
              \/ j < Len(Lines(s)) /\ Len(file) = j + 1 /\ PartOf(file[j + 1], Lines(s)[j + 1])
    BY DEF BegunBy
  <2>2. j <= Len(file)  BY <1>2, <2>1
  <2>3. ReadTo(st[j], s, j)  BY <1>1, <1>2, <1>3, <2>1, <2>2, ReadPrefix
  <2>4. CASE Len(file) = j /\ j = Len(Lines(s))
    <3>1. read.mem = s  BY <1>2, <2>3, <2>4, ReadComplete
    <3>2. ~read.newer  BY <2>3, <2>4 DEF ReadTo
    <3>. QED  BY <3>1, <3>2
  <2>5. CASE Len(file) = j /\ j # Len(Lines(s))
    <3>1. j \in 0 .. Len(Lines(s)) - 1  BY <1>2, <2>5
    <3>2. ~Settings_validateMeters(st[j].mem.columns)  BY <1>2, <2>3, <3>1, NotYetValid
    <3>3. ~st[j].newer  BY <2>3 DEF ReadTo
    <3>4. Len(file) = j  BY <2>5
    <3>5. ~read.newer  BY <3>3, <3>4
    <3>6. ~Settings_validateMeters(read.mem.columns)  BY <3>2, <3>4
    <3>. QED  BY <3>5, <3>6
  <2>6. CASE j < Len(Lines(s)) /\ Len(file) = j + 1 /\ PartOf(file[j + 1], Lines(s)[j + 1])
    <3>1. j \in 0 .. Len(Lines(s)) - 1 /\ j + 1 \in 1 .. Len(file) /\ j + 1 - 1 = j  BY <1>2, <2>6
    <3>2. st[j + 1] = ReadLine(st[j + 1 - 1], file[j + 1])
      <4>1. \A i \in 1 .. Len(file) : st[i] = ReadLine(st[i - 1], file[i])  BY <1>3, Zenon DEF Reads
      <4>. QED  BY <3>1, <4>1, SMTT(30)
    <3>3. read = ReadLine(st[j], file[j + 1])  BY <2>6, <3>1, <3>2
    <3>. DEFINE x == file[j + 1]
                before == st[j]
    <3>4. ReadTo(before, s, j) /\ PartOf(x, Lines(s)[j + 1])  BY <2>3, <2>6
    <3>5. /\ ~ReadLine(before, x).newer
          /\ Settings_validateMeters(ReadLine(before, x).mem.columns) => ReadLine(before, x).mem.columns = s.columns
      <4>1. j \in 0 .. Len(Lines(s)) - 1 /\ ReadTo(before, s, j) /\ PartOf(x, Lines(s)[j + 1])  BY <3>1, <3>4
      <4>. HIDE DEF x, before
      <4>. QED  BY <4>1, ReadPart, SMTT(60)
    <3>. QED  BY <3>3, <3>5
  <2>. QED  BY <2>1, <2>4, <2>5, <2>6
<1>5. Settings_read(m, file) = [ok |-> file # <<>> /\ ~read.newer, mem |-> kept]
  BY <1>1, <1>3 DEF Settings_read, Start0
<1>6. read.mem \in Memory
  <2>1. Len(file) \in 0 .. Len(file)  BY <1>1
  <2>. QED  BY <1>3, <2>1 DEF ReadState
<1>. HIDE DEF read
<1>7. kept.columns \in {s.columns, Defaults.columns}
  <2>1. CASE valid  BY <1>4, <2>1
  <2>2. CASE ~valid
    <3>1. kept = [read.mem EXCEPT !.columns = Defaults.columns]  BY <1>4, <2>2
    <3>2. kept.columns = Defaults.columns  BY <1>6, <3>1 DEF Memory
    <3>. QED  BY <3>2
  <2>. QED  BY <2>1, <2>2
<1>. HIDE DEF kept
<1>. DEFINE found == Settings_read(m, file)
<1>8. found.mem = kept /\ found.ok = (file # <<>> /\ ~read.newer)
  <2>1. found.mem = kept  BY <1>5
  <2>2. found.ok = (file # <<>> /\ ~read.newer)  BY <1>5
  <2>. QED  BY <2>1, <2>2
<1>. HIDE DEF found
<1>9. found.ok = (file # <<>>)  BY <1>4, <1>8
<1>. QED  BY <1>7, <1>8, <1>9 DEF found

\* A file with all the lines of settings of which each column has meters.
LEMMA ReadWritten ==
    ASSUME NEW s, Whole(s), HasMeters(s), NEW m \in Memory, m.columns = NewColumns(DefaultLayout)
    PROVE  Settings_read(m, Lines(s)) = [ok |-> TRUE, mem |-> s]
<1>. DEFINE file == Lines(s)
            count == Len(s.columns)
<1>1. s \in Memory /\ file \in Seq(FileLines) /\ Len(file) = 4 + 2 * count /\ count \in Nat \ {0} /\ DOMAIN s.columns = 1 .. count
  BY LinesFacts DEF Whole
<1>. HIDE DEF file
<1>2. Len(file) \in Nat /\ file # Absent /\ file # <<>> /\ Len(file) \in 0 .. Len(file)  BY <1>1, SettingsAssumption
<1>3. PICK st : /\ Reads(st, m, file) /\ \A i \in 0 .. Len(file) : st[i] \in ReadState
                /\ SX!FoldLeft(ReadLine, Start0(m), file) = st[Len(file)]
  BY <1>1, ReadFold
<1>. DEFINE read == st[Len(file)]
            valid == read.didReadMeters /\ Settings_validateMeters(read.mem.columns)
            kept == IF read.newer \/ valid THEN read.mem ELSE [read.mem EXCEPT !.columns = Defaults.columns]
<1>4. ReadTo(read, s, Len(file))
  <2>1. Len(file) \in 0 .. Len(Lines(s)) /\ Len(file) <= Len(file) /\ \A i \in 1 .. Len(file) : file[i] = Lines(s)[i]
    BY <1>2 DEF file
  <2>. QED  BY <1>1, <1>3, <2>1, ReadPrefix
<1>5. Settings_read(m, file) = [ok |-> file # <<>> /\ ~read.newer, mem |-> kept]
  BY <1>2, <1>3 DEF Settings_read, Start0
<1>6. read.mem = s
  <2>1. ReadTo(read, s, Len(Lines(s)))  BY <1>4 DEF file
  <2>. HIDE DEF read
  <2>. QED  BY <1>1, <2>1, ReadComplete
<1>7. \A c \in DOMAIN s.columns : s.columns[c].names # <<>> /\ s.columns[c].modes # <<>>
  <2>1. SUFFICES ASSUME NEW c \in DOMAIN s.columns PROVE s.columns[c].names # <<>> /\ s.columns[c].modes # <<>>
    OBVIOUS
  <2>2. s.columns[c].names # <<>>  BY DEF HasMeters
  <2>3. s.columns[c] \in Meters /\ Len(s.columns[c].names) = Len(s.columns[c].modes)
    <3>1. s.columns \in Columns \ {<<>>}  BY <1>1 DEF Memory
    <3>. HIDE DEF count
    <3>. QED  BY <1>1, <3>1, StoredColumnsFacts DEF Whole, count
  <2>. DEFINE names == s.columns[c].names
              modes == s.columns[c].modes
  <2>4. names \in Seq(Nat \cup Names) /\ modes \in Seq(Nat \cup Names)  BY <2>3 DEF Meters, Values
  <2>5. Len(names) = Len(modes) /\ names # <<>>  BY <2>2, <2>3
  <2>. HIDE DEF names, modes
  <2>6. modes # <<>>  BY <2>4, <2>5
  <2>. QED  BY <2>2, <2>6 DEF modes
<1>8. Settings_validateMeters(s.columns)  BY <1>1, <1>7 DEF Whole, Settings_validateMeters
<1>9. read.didReadMeters /\ ~read.newer
  <2>1. Len(file) >= 5  BY <1>1
  <2>2. s.columns[1].names # <<>>  BY <1>1, <1>7
  <2>. HIDE DEF read
  <2>. QED  BY <1>4, <2>1, <2>2 DEF ReadTo
<1>10. kept = s  BY <1>6, <1>8, <1>9
<1>. HIDE DEF kept, read
<1>11. Settings_read(m, file) = [ok |-> TRUE, mem |-> s]  BY <1>2, <1>5, <1>9, <1>10
<1>. QED  BY <1>11 DEF file

\* A start that finds a file of the user only.
LEMMA LoadUser ==
    ASSUME NEW file
    PROVE  \E m \in Memory :
              /\ m.columns = NewColumns(DefaultLayout)
              /\ Settings_read(m, file).ok =>
                    Load(Absent, file) = [mem |-> Settings_read(m, file).mem, changed |-> FALSE, migrate |-> FALSE]
<1>. DEFINE first == [Defaults EXCEPT !.columns = NewColumns(DefaultLayout)]
            fromOld == Settings_read(first, Absent)
            fromUser == Settings_read(fromOld.mem, file)
<1>1. first \in Memory /\ first.columns = NewColumns(DefaultLayout)
  <2>1. NewColumns(DefaultLayout) \in Columns \ {<<>>}  BY NewColumnsFacts DEF DefaultLayout
  <2>. QED  BY <2>1, DefaultsFacts, WithColumns
<1>2. fromOld = [ok |-> FALSE, mem |-> first]  BY DEF Settings_read
<1>3. ~fromOld.ok /\ fromOld.mem = first  BY <1>2
<1>4. fromUser.ok => Load(Absent, file) = [mem |-> fromUser.mem, changed |-> FALSE, migrate |-> FALSE]
  <2>. DEFINE loaded == Load(Absent, file)
              fromSystem == Settings_read(fromUser.mem, system)
              cleared == IF fromSystem.ok THEN fromSystem.mem ELSE [fromSystem.mem EXCEPT !.columns = Defaults.columns]
  <2>1. loaded = IF fromOld.ok THEN [mem |-> fromOld.mem, changed |-> FALSE, migrate |-> TRUE]
                ELSE IF fromUser.ok THEN [mem |-> fromUser.mem, changed |-> FALSE, migrate |-> FALSE]
                ELSE [mem |-> cleared, changed |-> TRUE, migrate |-> FALSE]
    BY DEF Load
  <2>. HIDE DEF loaded, fromOld, fromUser, cleared
  <2>2. fromUser.ok => loaded = [mem |-> fromUser.mem, changed |-> FALSE, migrate |-> FALSE]  BY <1>3, <2>1
  <2>. QED  BY <2>2 DEF loaded
<1>5. fromUser = Settings_read(first, file)  BY <1>3
<1>. HIDE DEF first, fromUser
<1>. QED  BY <1>1, <1>4, <1>5

-----------------------------------------------------------------------------
(* The sessions: the invariant                                              *)

PlacesOK ==
    /\ legacy \in Files /\ main \in Files /\ system \in Files
    /\ settingsPc \in {"off", "running", "open", "write"} /\ task \in {"migrate", "quit"}
    /\ settingsChanged \in BOOLEAN /\ error \in BOOLEAN /\ Whole(mem)

\* While a file is written it holds the lines that are no longer to be written;
\* once a write failed there are none.
WriteInv ==
    /\ settingsPc = "write" => begun = <<mem>> /\ saved = <<>>
    /\ settingsPc = "write" /\ ~error => main \in Seq(FileLines) /\ out \in Seq(FileLines) /\ main \o out = Lines(mem)
    /\ settingsPc = "write" /\ error => out = <<>>
    /\ settingsPc # "write" => out = <<>>

\* What the histories say of the user's file.
BegunInv == begun # <<>> => \E s : Whole(s) /\ begun = <<s>> /\ BegunBy(main, s)
WrittenInv == saved # <<>> => \E s : Whole(s) /\ saved = <<s>> /\ main = Lines(s)

\* A legacy file that is moved was read, so the header is valid.
MigrateInv == settingsPc \in {"open", "write"} /\ task = "migrate" => Settings_validateMeters(mem.columns)

SettingsInv == PlacesOK /\ WriteInv /\ BegunInv /\ WrittenInv /\ MigrateInv

LEMMA WholeFacts ==
    ASSUME NEW s, Whole(s)
    PROVE  s \in Memory /\ s.columns # <<>> /\ Lines(s) \in Seq(FileLines) /\ Len(Lines(s)) \in Nat \ {0}
<1>1. s \in Memory /\ s.columns # <<>>  BY DEF Whole, Memory
<1>. DEFINE k == Len(s.columns)
            count == Len(Lines(s))
<1>2. Lines(s) \in Seq(FileLines) /\ count = 4 + 2 * k /\ k \in Nat \ {0}  BY <1>1, LinesFacts, Zenon
<1>. HIDE DEF k, count
<1>3. count \in Nat \ {0}  BY <1>2
<1>. QED  BY <1>1, <1>2, <1>3 DEF count

LEMMA InitSettingsInv == SettingsInit => SettingsInv
<1>. SUFFICES ASSUME SettingsInit PROVE SettingsInv  OBVIOUS
<1>1. legacy \in Files /\ main \in Files /\ system \in Files  BY SettingsAssumption DEF SettingsInit, Files
<1>2. Whole(mem)  BY DefaultsFacts DEF SettingsInit
<1>3. PlacesOK  BY <1>1, <1>2 DEF SettingsInit, PlacesOK
<1>. QED  BY <1>3 DEF SettingsInit, SettingsInv, WriteInv, BegunInv, WrittenInv, MigrateInv

\* The first of the second is next.
LEMMA NextOfConcat ==
    ASSUME NEW S, NEW a \in Seq(S), NEW b \in Seq(S), b # <<>>
    PROVE  (a \o b)[Len(a) + 1] = Head(b)
<1>1. Len(a) \in Nat /\ Len(b) \in Nat \ {0}  BY LenProperties
<1>2. Len(a) + 1 \in 1 .. Len(a) + Len(b) /\ ~(Len(a) + 1 <= Len(a)) /\ Len(a) + 1 - Len(a) = 1  BY <1>1
<1>3. Head(b) = b[1]  OBVIOUS
<1>. QED  BY <1>2, <1>3, ConcatProperties

\* What remains of the whole after some lines, and after a part of the next.
LEMMA BegunSoFar ==
    ASSUME NEW s, Whole(s), NEW file \in Seq(FileLines), NEW rest \in Seq(FileLines), file \o rest = Lines(s)
    PROVE  /\ BegunBy(file, s)
           /\ rest # <<>> => \A cut \in Cuts(Head(rest)) : BegunBy(file \o cut, s)
<1>. DEFINE j == Len(file)
            k == Len(rest)
<1>1. s \in Memory /\ Lines(s) \in Seq(FileLines)  BY WholeFacts
<1>2. j \in Nat /\ k \in Nat  BY LenProperties
<1>3. Len(Lines(s)) = j + k /\ \A i \in 1 .. j + k : Lines(s)[i] = IF i <= j THEN file[i] ELSE rest[i - j]
  <2>1. Len(file \o rest) = Len(file) + Len(rest)
        /\ \A i \in 1 .. Len(file) + Len(rest) : (file \o rest)[i] = IF i <= Len(file) THEN file[i] ELSE rest[i - Len(file)]
    BY ConcatProperties
  <2>. QED  BY <2>1
<1>. HIDE DEF j, k
<1>4. j \in 0 .. Len(Lines(s)) /\ \A i \in 1 .. j : file[i] = Lines(s)[i]
  <2>1. \A i \in 1 .. j : i \in 1 .. j + k /\ i <= j  BY <1>2
  <2>. QED  BY <1>2, <1>3, <2>1
<1>5. BegunBy(file, s)  BY <1>4 DEF BegunBy, j
<1>6. ASSUME rest # <<>>, NEW cut \in Cuts(Head(rest)) PROVE BegunBy(file \o cut, s)
  <2>1. k > 0 /\ Head(rest) = rest[1] /\ rest[1] \in FileLines
    <3>1. k > 0  BY <1>2, <1>6 DEF k
    <3>2. rest[1] \in FileLines  BY <3>1, ElementOfSeq DEF k
    <3>3. Head(rest) = rest[1]  BY <1>6
    <3>. QED  BY <3>1, <3>2, <3>3
  <2>2. Lines(s)[j + 1] = Head(rest)
    <3>1. j + 1 \in 1 .. j + k /\ ~(j + 1 <= j) /\ j + 1 - j = 1  BY <1>2, <2>1
    <3>2. (file \o rest)[Len(file) + 1] = Head(rest)  BY <1>6, NextOfConcat
    <3>. QED  BY <3>2 DEF j
  <2>3. CASE cut = <<>>
    <3>1. file \o cut = file  BY <2>3
    <3>. QED  BY <1>5, <3>1
  <2>4. CASE cut # <<>>
    <3>1. PICK x : PartOf(x, Head(rest)) /\ cut = <<x>>  BY <2>1, <2>4, CutFacts DEF PartOf
    <3>2. x \in FileLines /\ file \o cut = Append(file, x)  BY <3>1 DEF PartOf
    <3>. DEFINE grown == file \o cut
    <3>3. /\ grown \in Seq(FileLines) /\ Len(grown) = j + 1 /\ grown[j + 1] = x
          /\ \A i \in 1 .. j : grown[i] = file[i]
      BY <1>2, <3>2, AppendProperties DEF j
    <3>. HIDE DEF grown
    <3>4. j < Len(Lines(s)) /\ PartOf(grown[j + 1], Lines(s)[j + 1])  BY <1>2, <1>3, <2>1, <2>2, <3>1, <3>3
    <3>5. \A i \in 1 .. j : grown[i] = Lines(s)[i]  BY <1>4, <3>3
    <3>6. BegunBy(grown, s)  BY <1>4, <3>3, <3>4, <3>5 DEF BegunBy
    <3>. QED  BY <3>6 DEF grown
  <2>. QED  BY <2>3, <2>4
<1>. QED  BY <1>5, <1>6

\* A start without a legacy file finds the settings that were written.
LEMMA WrittenIsLoaded ==
    ASSUME NEW s, Whole(s), HasMeters(s)
    PROVE  Load(Absent, Lines(s)) = [mem |-> s, changed |-> FALSE, migrate |-> FALSE]
<1>1. PICK m \in Memory :
         /\ m.columns = NewColumns(DefaultLayout)
         /\ Settings_read(m, Lines(s)).ok =>
               Load(Absent, Lines(s)) = [mem |-> Settings_read(m, Lines(s)).mem, changed |-> FALSE, migrate |-> FALSE]
  BY LoadUser
<1>2. Settings_read(m, Lines(s)) = [ok |-> TRUE, mem |-> s]  BY <1>1, ReadWritten
<1>3. Settings_read(m, Lines(s)).ok /\ Settings_read(m, Lines(s)).mem = s  BY <1>2
<1>. QED  BY <1>1, <1>3

LEMMA InvFilesWhole == SettingsInv => FilesWhole
<1>. SUFFICES ASSUME SettingsInv PROVE FilesWhole  OBVIOUS
<1>1. SettingsTypeOK
  <2>1. mem \in Memory /\ mem.columns # <<>> /\ mem.columns \in Columns \ {<<>>}  BY WholeFacts DEF SettingsInv, PlacesOK, Memory
  <2>2. Lists(mem.columns)  BY <2>1, StoredColumnsFacts DEF Lists, Meters
  <2>3. DOMAIN mem = {"fields", "option", "columns"}  BY <2>1 DEF Memory
  <2>. QED  BY <2>1, <2>2, <2>3 DEF SettingsInv, PlacesOK, WriteInv, SettingsTypeOK
<1>2. RoundTrip
  <2>1. SUFFICES ASSUME saved # <<>>, legacy = Absent, HasMeters(saved[1]) PROVE Load(legacy, main).mem = saved[1]
    BY DEF RoundTrip
  <2>2. PICK s : Whole(s) /\ saved = <<s>> /\ main = Lines(s)  BY <2>1 DEF SettingsInv, WrittenInv
  <2>3. saved[1] = s  BY <2>2
  <2>4. Load(Absent, Lines(s)).mem = s  BY <2>1, <2>2, <2>3, WrittenIsLoaded
  <2>. QED  BY <2>1, <2>2, <2>3, <2>4
<1>3. begun # <<>> /\ main # <<>> => Load(Absent, main).mem.columns \in {begun[1].columns, Defaults.columns}
  <2>1. SUFFICES ASSUME begun # <<>>, main # <<>>
                 PROVE  Load(Absent, main).mem.columns \in {begun[1].columns, Defaults.columns}
    OBVIOUS
  <2>2. PICK s : Whole(s) /\ begun = <<s>> /\ BegunBy(main, s)  BY <2>1 DEF SettingsInv, BegunInv
  <2>3. PICK m \in Memory :
           /\ m.columns = NewColumns(DefaultLayout)
           /\ Settings_read(m, main).ok =>
                 Load(Absent, main) = [mem |-> Settings_read(m, main).mem, changed |-> FALSE, migrate |-> FALSE]
    BY LoadUser
  <2>4. Settings_read(m, main).ok /\ Settings_read(m, main).mem.columns \in {s.columns, Defaults.columns}
    BY <2>1, <2>2, <2>3, ReadBegun
  <2>5. Load(Absent, main).mem = Settings_read(m, main).mem  BY <2>3, <2>4
  <2>6. begun[1] = s  BY <2>2
  <2>. QED  BY <2>4, <2>5, <2>6
<1>. QED  BY <1>1, <1>2, <1>3 DEF FilesWhole, HeaderWhole

-----------------------------------------------------------------------------
(* The sessions: the steps                                                  *)

\* The legacy file is deleted only after its settings were written.
Moved ==
    legacy' # legacy => /\ main' = Lines(mem) /\ Settings_validateMeters(mem.columns)

\* Nothing is written.
LEMMA IdleStep ==
    ASSUME SettingsInv, UNCHANGED <<main, system, begun, saved>>, legacy' \in {Absent, legacy},
           settingsPc' \in {"off", "running", "open"}, task' \in {"migrate", "quit"}, out' = <<>>,
           settingsChanged' \in BOOLEAN, error' \in BOOLEAN, Whole(mem'), MigrateInv'
    PROVE  SettingsInv'
<1>1. PlacesOK'  BY DEF SettingsInv, PlacesOK, Files
<1>2. WriteInv'  BY DEF WriteInv
<1>3. BegunInv' /\ WrittenInv'  BY DEF SettingsInv, BegunInv, WrittenInv
<1>. QED  BY <1>1, <1>2, <1>3 DEF SettingsInv

LEMMA StartStep == SettingsInv /\ Start => SettingsInv' /\ Moved
<1>. SUFFICES ASSUME SettingsInv, Start PROVE SettingsInv' /\ Moved  OBVIOUS
<1>. DEFINE loaded == Load(legacy, main)
<1>1. /\ settingsPc = "off" /\ mem' = loaded.mem /\ settingsChanged' = loaded.changed
      /\ settingsPc' = (IF loaded.migrate THEN "open" ELSE "running")
      /\ task' = (IF loaded.migrate THEN "migrate" ELSE "quit")
      /\ UNCHANGED <<legacy, main, system, out, error, begun, saved>>
  BY DEF Start, files
<1>2. /\ Whole(loaded.mem) /\ Settings_validateMeters(loaded.mem.columns)
      /\ loaded.changed \in BOOLEAN /\ loaded.migrate \in BOOLEAN
  BY LoadType DEF SettingsInv, PlacesOK
<1>. HIDE DEF loaded
<1>3. MigrateInv'  BY <1>1, <1>2 DEF MigrateInv
<1>4. out' = <<>> /\ error' \in BOOLEAN  BY <1>1 DEF SettingsInv, WriteInv, PlacesOK
<1>5. SettingsInv'  BY <1>1, <1>2, <1>3, <1>4, IdleStep
<1>. QED  BY <1>1, <1>5 DEF Moved

LEMMA ChangeStep == SettingsInv /\ Change => SettingsInv' /\ Moved
<1>. SUFFICES ASSUME SettingsInv, Change PROVE SettingsInv' /\ Moved  OBVIOUS
<1>1. /\ settingsPc = "running" /\ mem' \in UserSettings /\ settingsChanged' = TRUE
      /\ UNCHANGED <<legacy, main, system, settingsPc, task, out, error, begun, saved>>
  BY DEF Change, files
<1>2. Whole(mem')
  <2>1. mem' \in Memory  BY <1>1, SettingsAssumption DEF Memory
  <2>. QED  BY <1>1, <2>1, SettingsAssumption DEF Whole
<1>3. MigrateInv'  BY <1>1 DEF MigrateInv
<1>4. out' = <<>> /\ error' \in BOOLEAN /\ task' \in {"migrate", "quit"}  BY <1>1 DEF SettingsInv, WriteInv, PlacesOK
<1>5. SettingsInv'  BY <1>1, <1>2, <1>3, <1>4, IdleStep
<1>. QED  BY <1>1, <1>5 DEF Moved

LEMMA QuitStep == SettingsInv /\ Quit => SettingsInv' /\ Moved
<1>. SUFFICES ASSUME SettingsInv, Quit PROVE SettingsInv' /\ Moved  OBVIOUS
<1>1. /\ settingsPc = "running" /\ settingsPc' \in {"open", "off"} /\ task' = "quit"
      /\ UNCHANGED <<legacy, main, system, mem, settingsChanged, out, error, begun, saved>>
  BY DEF Quit, files
<1>2. out' = <<>> /\ error' \in BOOLEAN /\ settingsChanged' \in BOOLEAN /\ Whole(mem')
  BY <1>1 DEF SettingsInv, WriteInv, PlacesOK
<1>3. MigrateInv'  BY <1>1 DEF MigrateInv
<1>4. SettingsInv'  BY <1>1, <1>2, <1>3, IdleStep
<1>. QED  BY <1>1, <1>4 DEF Moved

LEMMA OpenFileStep == SettingsInv /\ Open => SettingsInv' /\ Moved
<1>. SUFFICES ASSUME SettingsInv, Open PROVE SettingsInv' /\ Moved  OBVIOUS
<1>1. settingsPc = "open" /\ error' = FALSE /\ UNCHANGED <<system, mem, settingsChanged, task>> /\ out = <<>>
      /\ Whole(mem) /\ settingsChanged \in BOOLEAN /\ task \in {"migrate", "quit"}
  BY DEF Open, SettingsInv, PlacesOK, WriteInv
<1>2. CASE Ended(FALSE) /\ UNCHANGED <<main, out, begun, saved>>
  <2>1. settingsPc' \in {"running", "off"} /\ legacy' = legacy  BY <1>2 DEF Ended
  <2>2. MigrateInv'  BY <2>1 DEF MigrateInv
  <2>3. out' = <<>> /\ error' \in BOOLEAN /\ Whole(mem') /\ settingsChanged' \in BOOLEAN /\ task' \in {"migrate", "quit"}
    BY <1>1, <1>2
  <2>4. SettingsInv'  BY <1>1, <1>2, <2>1, <2>2, <2>3, IdleStep
  <2>. QED  BY <2>1, <2>4 DEF Moved
<1>3. CASE /\ settingsPc' = "write" /\ main' = <<>> /\ out' = Lines(mem)
           /\ begun' = <<mem>> /\ saved' = <<>> /\ UNCHANGED legacy
  <2>1. <<>> \in Seq(FileLines) /\ Lines(mem) \in Seq(FileLines) /\ <<>> \o Lines(mem) = Lines(mem)
    <3>1. Lines(mem) \in Seq(FileLines)  BY <1>1, WholeFacts
    <3>. QED  BY <3>1
  <2>2. main' \in Files  BY <1>3, <2>1 DEF Files
  <2>3. PlacesOK'  BY <1>1, <1>3, <2>2 DEF SettingsInv, PlacesOK
  <2>4. WriteInv'  BY <1>1, <1>3, <2>1 DEF WriteInv
  <2>5. BegunInv'
    <3>1. BegunBy(<<>>, mem)  BY <1>1, <2>1, BegunSoFar
    <3>. QED  BY <1>1, <1>3, <3>1 DEF BegunInv
  <2>6. WrittenInv' /\ MigrateInv'  BY <1>1, <1>3 DEF SettingsInv, WrittenInv, MigrateInv
  <2>. QED  BY <1>3, <2>3, <2>4, <2>5, <2>6 DEF SettingsInv, Moved
<1>. QED  BY <1>2, <1>3 DEF Open

\* To move the head of a sequence to the end of the one before it.
LEMMA MoveHead ==
    ASSUME NEW S, NEW a \in Seq(S), NEW b \in Seq(S), b # <<>>
    PROVE  /\ Append(a, Head(b)) \in Seq(S) /\ Tail(b) \in Seq(S)
           /\ Append(a, Head(b)) \o Tail(b) = a \o b
<1>. DEFINE h == Head(b)
            t == Tail(b)
<1>1. h \in S /\ t \in Seq(S) /\ <<h>> \in Seq(S)
  <2>1. h \in S /\ t \in Seq(S)  BY HeadTailProperties
  <2>. HIDE DEF h
  <2>. QED  BY <2>1
<1>2. <<h>> \o t = b
  <2>1. Len(b) \in Nat \ {0} /\ Len(t) = Len(b) - 1 /\ \A i \in 1 .. Len(t) : t[i] = b[i + 1]
    BY HeadTailProperties, LenProperties
  <2>2. h = b[1]  OBVIOUS
  <2>. QED  BY <1>1, <2>1, <2>2
<1>. HIDE DEF h, t
<1>3. Append(a, h) = a \o <<h>> /\ Append(a, h) \in Seq(S)  BY <1>1, AppendIsConcat, AppendProperties
<1>4. (a \o <<h>>) \o t = a \o (<<h>> \o t)
  <2>. DEFINE u == <<h>>
  <2>1. u \in Seq(S)  BY <1>1
  <2>. HIDE DEF u
  <2>2. (a \o u) \o t = a \o (u \o t)  BY <1>1, <2>1, ConcatAssociative
  <2>. QED  BY <2>2 DEF u
<1>5. Append(a, h) \in Seq(S) /\ t \in Seq(S) /\ Append(a, h) \o t = a \o b  BY <1>1, <1>2, <1>3, <1>4
<1>. QED  BY <1>5 DEF h, t

LEMMA WriteLineStep == SettingsInv /\ WriteLine => SettingsInv' /\ Moved
<1>. SUFFICES ASSUME SettingsInv, WriteLine PROVE SettingsInv' /\ Moved  OBVIOUS
<1>1. /\ settingsPc = "write" /\ out # <<>> /\ main' = Append(main, Head(out)) /\ out' = Tail(out)
      /\ UNCHANGED <<legacy, system, mem, settingsChanged, settingsPc, task, error, begun, saved>>
  BY DEF WriteLine
<1>2. /\ ~error /\ main \in Seq(FileLines) /\ out \in Seq(FileLines) /\ main \o out = Lines(mem)
      /\ begun = <<mem>> /\ saved = <<>> /\ Whole(mem)
  BY <1>1 DEF SettingsInv, WriteInv, PlacesOK
<1>3. main' \in Seq(FileLines) /\ out' \in Seq(FileLines) /\ main' \o out' = main \o out
  <2>1. /\ Append(main, Head(out)) \in Seq(FileLines) /\ Tail(out) \in Seq(FileLines)
        /\ Append(main, Head(out)) \o Tail(out) = main \o out
    BY <1>1, <1>2, MoveHead, Zenon
  <2>. QED  BY <1>1, <2>1
<1>4. PlacesOK'  BY <1>1, <1>3 DEF SettingsInv, PlacesOK, Files
<1>5. WriteInv'  BY <1>1, <1>2, <1>3 DEF WriteInv
<1>6. BegunInv'
  <2>1. main' \o out' = Lines(mem)  BY <1>2, <1>3
  <2>2. BegunBy(main', mem)  BY <1>2, <1>3, <2>1, BegunSoFar
  <2>. QED  BY <1>1, <1>2, <2>2 DEF BegunInv
<1>7. WrittenInv' /\ MigrateInv'  BY <1>1, <1>2 DEF SettingsInv, WrittenInv, MigrateInv
<1>. QED  BY <1>1, <1>4, <1>5, <1>6, <1>7 DEF SettingsInv, Moved

\* A line is cut off.
LEMMA CutStep ==
    ASSUME SettingsInv, settingsPc = "write", out # <<>>, NEW cut \in Cuts(Head(out)), main' = main \o cut,
           UNCHANGED <<begun, mem>>
    PROVE  main' \in Files /\ BegunInv'
<1>1. /\ ~error /\ main \in Seq(FileLines) /\ out \in Seq(FileLines) /\ main \o out = Lines(mem)
      /\ begun = <<mem>> /\ Whole(mem)
  BY DEF SettingsInv, WriteInv, PlacesOK
<1>2. BegunBy(main', mem)  BY <1>1, BegunSoFar
<1>3. main' \in Files  BY <1>2 DEF BegunBy, Files
<1>4. BegunInv'  BY <1>1, <1>2 DEF BegunInv
<1>. QED  BY <1>3, <1>4

LEMMA WriteFailsStep == SettingsInv /\ WriteFails => SettingsInv' /\ Moved
<1>. SUFFICES ASSUME SettingsInv, WriteFails PROVE SettingsInv' /\ Moved  OBVIOUS
<1>1. /\ settingsPc = "write" /\ out # <<>> /\ out' = <<>> /\ error' = TRUE
      /\ UNCHANGED <<legacy, system, mem, settingsChanged, settingsPc, task, begun, saved>>
  BY DEF WriteFails
<1>2. PICK cut \in Cuts(Head(out)) : main' = main \o cut  BY DEF WriteFails
<1>3. main' \in Files /\ BegunInv'  BY <1>1, <1>2, CutStep
<1>4. PlacesOK'  BY <1>1, <1>3 DEF SettingsInv, PlacesOK
<1>5. WriteInv'  BY <1>1 DEF SettingsInv, WriteInv
<1>6. WrittenInv' /\ MigrateInv'  BY <1>1 DEF SettingsInv, WriteInv, WrittenInv, MigrateInv
<1>. QED  BY <1>1, <1>3, <1>4, <1>5, <1>6 DEF SettingsInv, Moved

LEMMA CloseStep == SettingsInv /\ Close => SettingsInv' /\ Moved
<1>. SUFFICES ASSUME SettingsInv, Close PROVE SettingsInv' /\ Moved  OBVIOUS
<1>1. /\ settingsPc = "write" /\ out = <<>> /\ Ended(~error) /\ saved' = (IF error THEN saved ELSE <<mem>>)
      /\ UNCHANGED <<main, system, mem, settingsChanged, task, out, error, begun>>
  BY DEF Close
<1>2. /\ begun = <<mem>> /\ saved = <<>> /\ Whole(mem)
      /\ ~error => main = Lines(mem)
  <2>1. ~error => main \in Seq(FileLines) /\ main \o <<>> = Lines(mem)  BY <1>1 DEF SettingsInv, WriteInv
  <2>2. ~error => main = Lines(mem)  BY <2>1
  <2>. QED  BY <1>1, <2>2 DEF SettingsInv, WriteInv, PlacesOK
<1>3. settingsPc' \in {"running", "off"} /\ legacy' \in {Absent, legacy}
      /\ (legacy' # legacy => task = "migrate" /\ ~error)
  BY <1>1 DEF Ended
<1>4. PlacesOK'  BY <1>1, <1>3 DEF SettingsInv, PlacesOK, Files
<1>5. WriteInv'  BY <1>1, <1>3 DEF WriteInv
<1>6. BegunInv' /\ MigrateInv'  BY <1>1, <1>3 DEF SettingsInv, BegunInv, MigrateInv
<1>7. WrittenInv'  BY <1>1, <1>2 DEF WrittenInv
<1>8. Moved  BY <1>1, <1>2, <1>3 DEF Moved, SettingsInv, MigrateInv
<1>. QED  BY <1>4, <1>5, <1>6, <1>7, <1>8 DEF SettingsInv

LEMMA CrashStep == SettingsInv /\ Crash => SettingsInv' /\ Moved
<1>. SUFFICES ASSUME SettingsInv, Crash PROVE SettingsInv' /\ Moved  OBVIOUS
<1>1. /\ settingsPc' = "off" /\ out' = <<>>
      /\ UNCHANGED <<legacy, system, mem, settingsChanged, task, error, begun, saved>>
  BY DEF Crash
<1>2. MigrateInv' /\ WriteInv'  BY <1>1 DEF MigrateInv, WriteInv
<1>3. CASE settingsPc = "write" /\ out # <<>>
  <2>1. PICK cut \in Cuts(Head(out)) : main' = main \o cut  BY <1>3 DEF Crash
  <2>2. main' \in Files /\ BegunInv'  BY <1>1, <1>3, <2>1, CutStep
  <2>3. PlacesOK'  BY <1>1, <2>2 DEF SettingsInv, PlacesOK
  <2>4. WrittenInv'  BY <1>1, <1>3 DEF SettingsInv, WriteInv, WrittenInv
  <2>. QED  BY <1>1, <1>2, <2>2, <2>3, <2>4 DEF SettingsInv, Moved
<1>4. CASE ~(settingsPc = "write" /\ out # <<>>)
  <2>1. main' = main  BY <1>4 DEF Crash
  <2>2. settingsChanged' \in BOOLEAN /\ error' \in BOOLEAN /\ Whole(mem') /\ task' \in {"migrate", "quit"}
    BY <1>1 DEF SettingsInv, PlacesOK
  <2>3. SettingsInv'  BY <1>1, <1>2, <2>1, <2>2, IdleStep
  <2>. QED  BY <1>1, <2>3 DEF Moved
<1>. QED  BY <1>3, <1>4

LEMMA SettingsStep == SettingsInv /\ [SettingsNext]_settingsVars => SettingsInv' /\ [Moved]_settingsVars
<1>1. ASSUME SettingsInv, UNCHANGED settingsVars PROVE SettingsInv'
  <2>1. UNCHANGED <<legacy, main, system, mem, settingsChanged, settingsPc, task, out, error, begun, saved>>
    BY <1>1 DEF settingsVars, files
  <2>. QED  BY <1>1, <2>1 DEF SettingsInv, PlacesOK, WriteInv, BegunInv, WrittenInv, MigrateInv
<1>2. SettingsInv /\ SettingsNext => SettingsInv' /\ Moved
  BY StartStep, ChangeStep, QuitStep, OpenFileStep, WriteLineStep, WriteFailsStep, CloseStep, CrashStep DEF SettingsNext
<1>. QED  BY <1>1, <1>2

\* However often htop is started, interrupted or out of disk space: settings that
\* were written are read back, and a file of which only a part was written has
\* the header that was to be written or the default one.
THEOREM FilesAreWhole == SettingsSpec => []FilesWhole
<1>1. SettingsInv /\ [SettingsNext]_settingsVars => SettingsInv'  BY SettingsStep
<1>. QED  BY <1>1, InitSettingsInv, InvFilesWhole, PTL DEF SettingsSpec

\* The legacy file is deleted only when a start without it gives the settings it had.
THEOREM MigrationLosesNothing == SettingsSpec => MigrationSafe
<1>1. SettingsInv /\ [SettingsNext]_settingsVars => SettingsInv'  BY SettingsStep
<1>2. SettingsInv /\ [SettingsNext]_settingsVars =>
         [legacy' # legacy => Load(Absent, main') = [mem |-> mem, changed |-> FALSE, migrate |-> FALSE]]_settingsVars
  <2>1. SUFFICES ASSUME SettingsInv, [SettingsNext]_settingsVars, Moved, legacy' # legacy
                 PROVE  Load(Absent, main') = [mem |-> mem, changed |-> FALSE, migrate |-> FALSE]
    BY SettingsStep DEF settingsVars, files
  <2>2. main' = Lines(mem) /\ Settings_validateMeters(mem.columns) /\ Whole(mem)  BY <2>1 DEF Moved, SettingsInv, PlacesOK
  <2>3. HasMeters(mem)
    <3>1. SUFFICES ASSUME NEW c \in DOMAIN mem.columns, mem.columns[c].names = <<>> PROVE FALSE  BY DEF HasMeters
    <3>2. mem.columns[c].modes # <<>> /\ Len(mem.columns[c].names) = Len(mem.columns[c].modes)
      BY <2>2 DEF Settings_validateMeters
    <3>3. mem.columns \in Columns \ {<<>>}  BY <2>2 DEF Whole, Memory
    <3>4. mem.columns[c] \in Meters  BY <3>3, StoredColumnsFacts
    <3>5. mem.columns[c].modes \in Seq(Nat \cup Names)  BY <3>4 DEF Meters, Values
    <3>6. Len(<<>>) = 0  OBVIOUS
    <3>. DEFINE modes == mem.columns[c].modes
    <3>7. Len(modes) = 0 /\ modes \in Seq(Nat \cup Names) /\ modes # <<>>  BY <3>1, <3>2, <3>5, <3>6
    <3>. HIDE DEF modes
    <3>. QED  BY <3>7
  <2>. QED  BY <2>2, <2>3, WrittenIsLoaded
<1>. QED  BY <1>1, <1>2, InitSettingsInv, PTL DEF SettingsSpec, MigrationSafe
=============================================================================
