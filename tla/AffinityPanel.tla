------------------------- MODULE AffinityPanel -------------------------
(****************************************************************************)
(* The panel that sets the CPUs a process may use: it is filled from what   *)
(* the kernel says and what htop's last scan knew of the CPUs, edited as a  *)
(* list or as a tree of the machine's parts, and written back as one set.   *)
(* Both builds are modelled: with hwloc the panel edits one set of CPUs and *)
(* its items show it, without it every item has its own mark.               *)
(****************************************************************************)
EXTENDS Integers, Sequences, FiniteSets, Community

CONSTANTS
    AffinityBuilds,    \* "hwloc", "sched"
    Topology,          \* the parts of the machine: node |-> [cpus, children]; 1 is all of it
    LongBits,          \* bits of an unsigned long
    MaxAffinitySteps   \* bound: CPUs switched, processes bound, keys

Nodes == DOMAIN Topology
AllCpus == Topology[1].cpus
Children(n) == {Topology[n].children[i] : i \in DOMAIN Topology[n].children}
\* The parts of a part
Below(n) == {m \in Nodes : m > n /\ Topology[m].cpus \subseteq Topology[n].cpus}

\* The parts are numbered in the order in which hwloc visits them: each is
\* followed by those it consists of.
ASSUME AffinityPanelAssumption ==
    /\ AffinityBuilds \subseteq {"hwloc", "sched"}
    /\ LongBits \in Nat /\ MaxAffinitySteps \in Nat
    /\ 1 \in Nodes /\ IsFiniteSet(Nodes) /\ Nodes = 1 .. Cardinality(Nodes)
    /\ IsFiniteSet(AllCpus) /\ AllCpus \subseteq Nat
    /\ \A n \in Nodes : /\ Below(n) = Children(n) \cup UNION {Below(c) : c \in Children(n)}
                        /\ Below(n) = n + 1 .. n + Cardinality(Below(n))

VARIABLES
    build,
    cpusOn,         \* the CPUs that are online
    allowed,        \* those the process may use
    exists,         \* the process is still there
    knownOnline,    \* the CPUs that were online at htop's last scan
    topoView,       \* the tree is shown, not the list
    topologyDefault,\* settings->topologyAffinity
    sub_tree,       \* of each part: 0 none, 1 open, 2 closed
    workCpuset,     \* the set being edited; without hwloc the CPUs of the marked items
    maskItems,      \* the items shown: [node, value]
    selectedItem,   \* counted from 0
    shownPanel,     \* the panel is open
    cpuids,         \* the CPUs that have an item
    untouched,      \* history: the panel was opened when htop knew the CPUs, and nothing was marked since
    asked,          \* history: what the process could use when the panel was opened
    affinitySteps

kernelVars == <<cpusOn, allowed, exists>>
panelVars == <<topoView, sub_tree, workCpuset, maskItems, selectedItem, cpuids, untouched, asked>>
affinityVars == <<build, kernelVars, knownOnline, topologyDefault, panelVars, shownPanel, affinitySteps>>

CpuNode(c) == CHOOSE n \in Nodes : Topology[n].cpus = {c} /\ Topology[n].children = <<>>

AffinityInit ==
    /\ build \in AffinityBuilds
    /\ topologyDefault \in IF build = "hwloc" THEN BOOLEAN ELSE {FALSE}
    /\ cpusOn \in SUBSET AllCpus /\ cpusOn # {}
    /\ allowed \in SUBSET AllCpus /\ allowed \cap cpusOn # {}
    /\ exists = TRUE
    /\ knownOnline = cpusOn
    /\ topoView = FALSE
    /\ sub_tree = [n \in Nodes |-> 0]
    /\ workCpuset = {}
    /\ maskItems = <<>>
    /\ selectedItem = 0
    /\ shownPanel = FALSE
    /\ cpuids = {} /\ untouched = TRUE /\ asked = {}
    /\ affinitySteps = 0

AffinityStep == affinitySteps < MaxAffinitySteps /\ affinitySteps' = affinitySteps + 1

-----------------------------------------------------------------------------
(* The machine *)

SwitchCpu ==
    \E c \in AllCpus :
        /\ AffinityStep
        /\ cpusOn' = FX!SymDiff(cpusOn, {c}) /\ cpusOn' # {}
        \* A process that has lost all its CPUs may use any
        /\ allowed' = IF allowed \cap cpusOn' = {} THEN AllCpus ELSE allowed
        /\ UNCHANGED <<build, exists, knownOnline, topologyDefault, panelVars, shownPanel>>

EndOfProcess ==
    /\ AffinityStep
    /\ exists /\ exists' = FALSE
    /\ UNCHANGED <<build, cpusOn, allowed, knownOnline, topologyDefault, panelVars, shownPanel>>

\* The scan of the list, which goes on beside the panel
ScanCpus ==
    /\ knownOnline # cpusOn
    /\ knownOnline' = cpusOn
    /\ UNCHANGED <<build, kernelVars, topologyDefault, panelVars, shownPanel, affinitySteps>>

\* sched_getaffinity
Answer == allowed \cap cpusOn

\* sched_setaffinity reads as many bits as it is told there are
MaskRead(cpus) == IF build = "sched" THEN {c \in cpus : c < LongBits} ELSE cpus

-----------------------------------------------------------------------------
(* The panel *)

\* hwloc_bitmap_weight and the three states of a mark
ValueOf(cpus, work) == IF cpus \subseteq work THEN 2 ELSE IF cpus \cap work # {} THEN 1 ELSE 0

\* The members of a set, the least first
InOrder(S) == [i \in 1 .. Cardinality(S) |-> CHOOSE x \in S : Cardinality({y \in S : y < x}) = i - 1]

\* AffinityPanel_updateTopo: each part, and then, unless it is closed, those it consists of
ShownNodes(subtrees) == InOrder({n \in Nodes : \A m \in Nodes : subtrees[m] = 2 => n \notin Below(m)})

\* The items of the list, in the order of the CPUs
ListNodes(cpus) == LET sorted == InOrder(cpus) IN [i \in DOMAIN sorted |-> CpuNode(sorted[i])]

AffinityPanel_updateItem(n, work) == [node |-> n, value |-> ValueOf(Topology[n].cpus, work)]

AffinityPanel_update(nodes, work) == [i \in 1 .. Len(nodes) |-> AffinityPanel_updateItem(nodes[i], work)]

NodesFor(topo, subtrees, cpus) == IF topo THEN ShownNodes(subtrees) ELSE ListNodes(cpus)

ParentOf(n) == {p \in Nodes : n \in Children(p)}

\* AffinityPanel_addObject: parts that hold none of the CPUs are closed; the test for "all" is never true
Collapsed(n, work, closed) ==
    LET weight == Cardinality(Topology[n].cpus \cap work)
    IN /\ Cardinality(Topology[n].cpus) > 1
       /\ \E p \in ParentOf(n) : ~closed[p]
       /\ weight = 0 \/ weight = Cardinality(work) + Cardinality(Topology[n].cpus)

AffinityPanel_buildTopology(work) ==
    LET closed[n \in Nodes] == ParentOf(n) # {} /\ Collapsed(n, work, [p \in ParentOf(n) |-> closed[p]])
    IN [n \in Nodes |-> IF closed[n] THEN 2 ELSE IF Cardinality(Topology[n].cpus) > 1 THEN 1 ELSE 0]

\* Mutant: the first CPU is left out
SetAtOpening_FromOne(answer) == (answer \cap knownOnline) \ {0}

\* The loop over the CPUs of htop: one that is offline is left out before it is compared with the next of the answer
SetAtOpening(answer) == {c \in answer \cap knownOnline : \A m \in answer \ knownOnline : c < m}

\* actionSetAffinity, AffinityPanel_new
OpenAffinity ==
    LET work == SetAtOpening(Answer)
        trees == IF build = "hwloc" THEN AffinityPanel_buildTopology(work) ELSE [n \in Nodes |-> 0]
    IN /\ AffinityStep
       /\ ~shownPanel /\ exists
       /\ Cardinality(knownOnline) > 1
       /\ shownPanel' = TRUE
       /\ topoView' = topologyDefault
       /\ sub_tree' = trees
       /\ workCpuset' = work
       /\ cpuids' = knownOnline
       /\ maskItems' = AffinityPanel_update(NodesFor(topologyDefault, trees, knownOnline), work)
       /\ selectedItem' = 0
       /\ untouched' = (knownOnline = cpusOn) /\ asked' = Answer
       /\ UNCHANGED <<build, kernelVars, knownOnline, topologyDefault>>

SelectedNode == maskItems[selectedItem + 1].node

\* AffinityPanel_update after a key was handled
Updated(topo, subtrees, work, keepSelected) ==
    LET nodes == NodesFor(topo, subtrees, cpuids)
    IN /\ topoView' = topo /\ sub_tree' = subtrees /\ workCpuset' = work
       /\ maskItems' = AffinityPanel_update(nodes, work)
       /\ selectedItem' = IF keepSelected THEN FX!Min({selectedItem, Len(nodes) - 1}) ELSE 0
       /\ UNCHANGED <<build, kernelVars, knownOnline, topologyDefault, shownPanel, cpuids, asked>>

AffinityKey == AffinityStep /\ shownPanel

MoveSelection ==
    /\ AffinityKey
    /\ \E i \in 0 .. Len(maskItems) - 1 : i # selectedItem /\ selectedItem' = i
    /\ UNCHANGED <<build, kernelVars, knownOnline, topologyDefault, shownPanel, cpuids, untouched, asked,
                   topoView, sub_tree, workCpuset, maskItems>>

\* Space: what is wholly set is cleared, anything else is set
ToggleMask ==
    LET cpus == Topology[SelectedNode].cpus
    IN /\ AffinityKey
       /\ untouched' = FALSE
       /\ IF maskItems[selectedItem + 1].value = 2
          THEN Updated(topoView, sub_tree, workCpuset \ cpus, TRUE)
          ELSE Updated(topoView, sub_tree, workCpuset \cup cpus, TRUE)

\* F1
SelectAll ==
    /\ AffinityKey /\ build = "hwloc"
    /\ untouched' = FALSE
    /\ Updated(topoView, sub_tree, AllCpus, TRUE)

\* F2
ToggleTopology ==
    /\ AffinityKey /\ build = "hwloc"
    /\ Updated(~topoView, sub_tree, workCpuset, FALSE)
    /\ UNCHANGED untouched

\* F3
ToggleSubtree ==
    /\ AffinityKey /\ build = "hwloc"
    /\ Updated(topoView,
               IF sub_tree[SelectedNode] = 0 THEN sub_tree
               ELSE [sub_tree EXCEPT ![SelectedNode] = 3 - @], workCpuset, TRUE)
    /\ UNCHANGED untouched

Closed == shownPanel' = FALSE /\ UNCHANGED <<build, cpusOn, exists, knownOnline, topologyDefault, panelVars>>

CancelAffinity == AffinityKey /\ Closed /\ UNCHANGED allowed

\* Enter: Action_pickFromVector, AffinityPanel_getAffinity and Affinity_set; the kernel refuses a set without CPUs
SetAffinity ==
    /\ AffinityKey /\ Closed
    /\ allowed' = IF exists /\ MaskRead(workCpuset) \cap cpusOn # {} THEN MaskRead(workCpuset) ELSE allowed

AffinityNext ==
    \/ SwitchCpu \/ EndOfProcess \/ ScanCpus
    \/ OpenAffinity \/ MoveSelection \/ ToggleMask \/ SelectAll \/ ToggleTopology \/ ToggleSubtree
    \/ CancelAffinity \/ SetAffinity

AffinitySpec == AffinityInit /\ [][AffinityNext]_affinityVars

-----------------------------------------------------------------------------
(* Properties *)

(****************************************************************************)
(* While the panel is open, every item shows what the set that would be     *)
(* written says of its CPUs: "x" if all are in it, "o" if some are.  A CPU  *)
(* that is marked in the list is marked in the tree, and so are the parts   *)
(* above it, however the two were edited and folded.                        *)
(* (AffinityPanel.c:151-196)                                                *)
(****************************************************************************)
MarksAgree ==
    shownPanel =>
        /\ selectedItem < Len(maskItems)
        /\ \A i \in DOMAIN maskItems : maskItems[i].value = ValueOf(Topology[maskItems[i].node].cpus, workCpuset)

(****************************************************************************)
(* Opening the panel and confirming it without a mark being changed leaves  *)
(* the process the CPUs it could use, as far as they are still online: if   *)
(* htop knew which CPUs were online when the panel was opened, and if their *)
(* numbers fit into the bits of an unsigned long, which is all that         *)
(* Affinity_set hands to the kernel without hwloc.                          *)
(* (AffinityPanel.c:385-408, 423-442, Affinity.c:111)                       *)
(****************************************************************************)
AffinityKept ==
    [][SetAffinity /\ exists /\ untouched /\ MaskRead(asked) = asked /\ asked \cap cpusOn # {}
           => allowed' = asked]_affinityVars

(****************************************************************************)
(* "if obj is fully included or fully excluded, collapse the item"          *)
(* (AffinityPanel.c:303).  The code collapses only what is fully excluded:  *)
(* it compares the number of CPUs in both sets with the sum of the numbers  *)
(* of CPUs in each.                                                         *)
(****************************************************************************)
FullPartsCollapsed ==
    [][OpenAffinity => \A n \in Nodes :
          ParentOf(n) # {} /\ sub_tree'[n] = 1 => ValueOf(Topology[n].cpus, workCpuset') = 1]_affinityVars

(****************************************************************************)
(* Both: the marks are those of the set, and confirming it changes nothing. *)
(****************************************************************************)
AffinitySound == []MarksAgree /\ AffinityKept
=============================================================================
