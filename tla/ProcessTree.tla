---------------------------- MODULE ProcessTree ----------------------------
(****************************************************************************)
(* The tree view (ProcessList.c): ProcessList_buildTree makes a forest of   *)
(* the listed processes, kept as nested sets, and ProcessList_updateTreeSet *)
(* sorts the children of every process.                                     *)
(****************************************************************************)
EXTENDS Integers, Sequences, FiniteSets

LOCAL SX == INSTANCE SequencesExt

CONSTANTS
    Pid,           \* the listed processes
    Absent,        \* a pid that is not listed
    MaxSpecial     \* bound: hidden and collapsed processes, and odd parents

ASSUME PidAssumption ==
    /\ Pid \subseteq Nat \ {0} /\ IsFiniteSet(Pid) /\ Absent \in Nat \ (Pid \cup {0})
    /\ MaxSpecial \in Nat

VARIABLES
    pc,            \* "scanned", "built" or "sorted"
    parent,        \* Process_getParentPid
    visible,       \* the processes whose show is set by the scan
    showChildren,
    processes,     \* this->processes
    node,          \* the tree_* members, indent and show of each process
    displayTreeSet,
    rank,          \* the order of the last sort, by key and direction (history)
    failed         \* an assertion failed (history)

inputs == <<parent, visible, showChildren>>
vars == <<pc, inputs, processes, node, displayTreeSet, rank, failed>>

n == Cardinality(Pid)

\* indent: the levels at which a line is drawn, and whether the process is the
\* last child (a negative indent).
Blank == [left |-> 0, right |-> 0, index |-> 0, depth |-> 0, indent |-> {}, last |-> FALSE, show |-> TRUE]

Acyclic(par) ==
    \A S \in (SUBSET Pid) \ {{}} : \E p \in S : par[p] \notin S \/ par[p] = p

\* A process may be its own parent, or have one that is not listed.
Orphan(par, p) == par[p] \in {p, Absent}

Parents ==
    {par \in [Pid -> Pid \cup {0, Absent}] :
        Acyclic(par) /\ Cardinality({p \in Pid : Orphan(par, p)}) <= MaxSpecial}

Ranks == {r \in [Pid -> 1..n] : \A p, q \in Pid : r[p] = r[q] => p = q}

Init ==
    /\ pc = "scanned"
    /\ parent \in Parents /\ visible \in SUBSET Pid /\ showChildren \in [Pid -> BOOLEAN]
    /\ Cardinality({p \in Pid : Orphan(parent, p)}) + Cardinality(Pid \ visible)
          + Cardinality({p \in Pid : ~showChildren[p]}) <= MaxSpecial
    /\ processes = SX!SetToSortSeq(Pid, <)
    /\ node = [p \in Pid |-> [Blank EXCEPT !.show = p \in visible]]
    /\ displayTreeSet = <<>>
    /\ rank \in {r \in Ranks : \A p, q \in Pid : p < q => r[p] < r[q]}
    /\ failed = FALSE

-----------------------------------------------------------------------------
(* ProcessList_buildTree.                                                   *)

\* What the recursion works on: the vectors, the members, the two counters.
Start == [processes |-> processes, processes2 |-> <<>>, node |-> node,
          counter |-> 1, index |-> 0, set |-> <<>>]

Take(st, ps) == [st EXCEPT !.processes = SelectSeq(@, LAMBDA p : \A i \in DOMAIN ps : ps[i] # p)]

\* Where a child goes in processes2 (ProcessList_sort puts it right later).
Place(st, p, direction) ==
    [st EXCEPT !.processes2 = IF direction = 1 THEN Append(@, p) ELSE <<p>> \o @]

\* The members of p that are set when it is entered and when it is left.
Enter(st, p) ==
    [st EXCEPT !.node[p].left = st.counter, !.node[p].index = st.index,
               !.counter = @ + 1, !.index = @ + 1,
               !.set = Append(@, p)]

Leave(st, p) == [st EXCEPT !.node[p].right = st.counter, !.counter = @ + 1]

IsChild(st, p, pid) == st.node[p].show /\ parent[p] = pid

ShowBelow(p, show) == show /\ showChildren[p]

RECURSIVE Children(_, _, _, _, _, _, _)
RECURSIVE buildTreeBranch(_, _, _, _, _, _)

\* The loop over the children, from the i-th on.
Children(st, children, i, level, indent, direction, show) ==
    IF i > Len(children) THEN st
    ELSE LET p == children[i]
             last == i = Len(children)
             nextIndent == indent \cup {level}
             shown == [st EXCEPT !.node[p].show = @ /\ show,
                                 !.node[p].indent = nextIndent, !.node[p].last = last,
                                 !.node[p].depth = level + 1]
             below == buildTreeBranch(Place(Enter(shown, p), p, direction), p, level + 1,
                                      IF last THEN indent ELSE nextIndent,
                                      direction, ShowBelow(p, show))
         IN Children(Leave(below, p), children, i + 1, level, indent, direction, show)

\* The children of pid leave the vector from its end on.
buildTreeBranch(st, pid, level, indent, direction, show) ==
    LET children == SX!Reverse(SelectSeq(st.processes, LAMBDA p : IsChild(st, p, pid)))
    IN Children(Take(st, children), children, 1, level, indent, direction, show)

IsRoot(st, p) ==
    \/ ~st.node[p].show
    \/ parent[p] \in {0, p}
    \/ \A i \in DOMAIN st.processes : st.processes[i] # parent[p]

\* The first process that is hidden or has no parent in the vector starts a
\* tree; then the search starts anew.
RECURSIVE Roots(_, _)
Roots(st, direction) ==
    LET roots == {i \in DOMAIN st.processes : IsRoot(st, st.processes[i])}
        p == st.processes[CHOOSE i \in roots : \A j \in roots : i <= j]
        root == [Enter(Take(st, <<p>>), p) EXCEPT
                    !.node[p].indent = {}, !.node[p].last = FALSE, !.node[p].depth = 0,
                    !.processes2 = Append(@, p)]
    IN IF roots = {} THEN st
       ELSE Roots(Leave(buildTreeBranch(root, p, 0, {}, direction,
                                        st.node[p].show /\ showChildren[p]), p), direction)

buildTree ==
    /\ pc = "scanned"
    /\ \E direction \in {1, -1} :
          LET st == Roots(Start, direction)
          IN /\ processes' = st.processes2
             /\ node' = st.node
             /\ displayTreeSet' = st.set
             /\ failed' = (st.processes # <<>> \/ Len(st.processes2) # n)
    /\ pc' = "built"
    /\ UNCHANGED <<inputs, rank>>

-----------------------------------------------------------------------------
(* ProcessList_updateTreeSet.  set is displayTreeSet without what was       *)
(* removed, draft the draftingTreeSet; indent -1 stands for the roots.      *)

RECURSIVE updateTreeSetLayer(_, _, _, _, _, _, _, _)
RECURSIVE Layer(_, _, _, _, _, _)

\* The processes of a layer, in the order of their indices.
LayerAt(st, leftBound, rightBound, deep, left, right) ==
    {p \in {st.set[i + 1] : i \in leftBound..(rightBound - 1)} \ {0} :
        /\ st.node[p].depth = deep
        /\ st.node[p].left > left /\ st.node[p].right < right}

\* A process is followed by the next of its layer, or the layer ends.
RightBound(st, layer, p, rightBound) ==
    LET after == {st.node[q].index : q \in {r \in layer : st.node[r].index > st.node[p].index}}
    IN IF after = {} THEN rightBound ELSE CHOOSE i \in after : \A j \in after : i <= j

\* Mutant: a layer is not sorted.
Sorted_Not(layer, by, st) == SX!SetToSortSeq(layer, LAMBDA p, q : st.node[p].index < st.node[q].index)

Sorted(layer, by, st) == SX!SetToSortSeq(layer, LAMBDA p, q : by[p] < by[q])

updateTreeSetLayer(st, leftBound, rightBound, deep, left, right, indent, by) ==
    IF (right - left) \div 2 = 0 THEN st
    ELSE LET layer == LayerAt(st, leftBound, rightBound, deep, left, right)
             missing == \E i \in leftBound..(rightBound - 1) : st.set[i + 1] = 0
             bounded == [st EXCEPT !.failed = @ \/ missing,
                            !.node = [p \in Pid |->
                                IF p \in layer
                                THEN [@[p] EXCEPT !.depth = RightBound(st, layer, p, rightBound)]
                                ELSE @[p]]]
         IN Layer(bounded, Sorted(layer, by, st), 1, deep, indent, by)

\* Mutant: the lines of the last child go on below it.
NextIndent_Always(indent, currentIndent, last) == currentIndent

NextIndent(indent, currentIndent, last) == IF last THEN indent ELSE currentIndent

\* The loop over the sorted layer, from the i-th process on.
Layer(st, layer, i, deep, indent, by) ==
    IF i > Len(layer) THEN st
    ELSE LET p == layer[i]
             last == i = Len(layer)
             roots == deep = 0
             currentIndent == IF roots THEN {} ELSE indent \cup {deep - 1}
             below == updateTreeSetLayer(
                          [st EXCEPT !.index = @ + 1, !.treeIndex = @ + 1],
                          st.node[p].index, st.node[p].depth, deep + 1,
                          st.node[p].left, st.node[p].right,
                          IF roots THEN {} ELSE NextIndent(indent, currentIndent, last), by)
             done == [below EXCEPT
                         !.treeIndex = @ + 1,
                         !.node[p] = [@ EXCEPT !.left = st.treeIndex, !.right = below.treeIndex,
                                          !.index = st.index, !.depth = deep,
                                          !.indent = currentIndent, !.last = ~roots /\ last],
                         !.draft[st.index + 1] = p,
                         !.set[st.node[p].index + 1] = 0]
         IN Layer(done, layer, i + 1, deep, indent, by)

\* What a list that is sorted may be sorted by next, while it is paused: the
\* other direction, or another column.
Resorted ==
    {[p \in Pid |-> n + 1 - rank[p]], [p \in Pid |-> 1 + (rank[p] % n)]}

\* ProcessList_sort: by the sort key and its direction.
Sort ==
    /\ pc \in {"built", "sorted"}
    /\ rank' \in IF pc = "built" THEN Ranks ELSE Resorted
    /\ LET st == updateTreeSetLayer(
                    [node |-> node, set |-> displayTreeSet, draft |-> [i \in 1..n |-> 0],
                     index |-> 0, treeIndex |-> 1, failed |-> Len(displayTreeSet) # n],
                    0, n, 0, 0, 2 * n + 1, {}, rank')
       IN /\ node' = st.node
          /\ displayTreeSet' = st.draft
          /\ processes' = SX!SetToSortSeq(Pid, LAMBDA p, q : st.node[p].left < st.node[q].left)
          /\ failed' = (failed \/ st.failed \/ (\E i \in 1..n : st.set[i] # 0 \/ st.draft[i] = 0))
    /\ pc' = "sorted"
    /\ UNCHANGED inputs

Next == buildTree \/ Sort

Spec == Init /\ [][Next]_vars

-----------------------------------------------------------------------------
(* Properties.                                                              *)

TypeOK ==
    /\ pc \in {"scanned", "built", "sorted"}
    /\ parent \in [Pid -> Pid \cup {0, Absent}] /\ visible \subseteq Pid /\ showChildren \in [Pid -> BOOLEAN]
    /\ processes \in Seq(Pid) /\ rank \in Ranks /\ displayTreeSet \in [DOMAIN processes -> Pid] \cup {<<>>} /\ failed \in BOOLEAN
    /\ node \in [Pid -> [left : 0..(2 * n), right : 0..(2 * n), index : 0..(n - 1), depth : 0..(n - 1),
                         indent : SUBSET (0..(n - 1)), last : BOOLEAN, show : BOOLEAN]]

\* The forest the user should see: a visible process is under its parent if the
\* parent is listed, and all others are roots.
Under(q, p) == p # q /\ q \in visible /\ parent[q] = p

\* The processes above each process.
Above ==
    LET up[k \in Nat] ==
            IF k = 0 THEN [q \in Pid |-> {p \in Pid : Under(q, p)}]
            ELSE LET above == up[k - 1]
                 IN [q \in Pid |-> above[q] \cup UNION {above[p] : p \in above[q]}]
    IN up[n]

InTree == pc # "scanned"

\* The assertions of both algorithms: every process finds its place once, no
\* index is missing, and nothing is left in the set that was replaced.
NoAssertionFails == ~failed

\* The nested sets are those of the forest, after building it and after any
\* number of sorts: intervals nest as processes do, depth counts the ancestors,
\* and indices count the processes in the order of the list.  No assertion fails.
NestedSets ==
    /\ TypeOK /\ NoAssertionFails
    /\ InTree =>
        LET above == Above IN
        /\ {node[p].left : p \in Pid} \cup {node[p].right : p \in Pid} = 1..(2 * n)
        /\ \A p \in Pid : node[p].left < node[p].right
        /\ \A p, q \in Pid :
              p \in above[q] <=> node[p].left < node[q].left /\ node[q].right < node[p].right
        /\ \A p \in Pid :
              /\ node[p].depth = Cardinality(above[p])
              /\ node[p].index = Cardinality({q \in Pid : node[q].left < node[p].left})
              /\ displayTreeSet[node[p].index + 1] = p

Siblings(p, q) == p # q /\ \A r \in Pid : Under(p, r) <=> Under(q, r)

\* Sorting orders each set of siblings by the sort key, and the list is the
\* forest in depth-first order.
SortedForest ==
    pc = "sorted" =>
        /\ \A p, q \in Pid : Siblings(p, q) => (rank[p] < rank[q] <=> node[p].left < node[q].left)
        /\ \A i \in 1..n : node[processes[i]].index = i - 1

\* A process is shown if the scan shows it and every process above it is shown
\* and not collapsed.
ShownIfExpanded ==
    InTree => LET above == Above IN \A p \in Pid :
        node[p].show <=> p \in visible /\ \A q \in above[p] : q \in visible /\ showChildren[q]

\* The lines drawn in front of a process: its own, and one for each process
\* above it that has a later sibling; both algorithms agree.
LinesDrawn ==
    InTree => LET above == Above IN \A p \in Pid :
        LET Later(q) == \E r \in Pid : Siblings(q, r) /\ node[r].left > node[q].left
        IN /\ node[p].indent =
                  {node[q].depth - 1 : q \in {r \in above[p] \cup {p} :
                      node[r].depth > 0 /\ (r = p \/ Later(r))}}
           /\ node[p].last <=> node[p].depth > 0 /\ ~Later(p)

(****************************************************************************)
(* What is drawn is the forest: the nested sets of both algorithms are its  *)
(* intervals, the lines its branches, and the rows shown those that neither *)
(* a filter nor a collapsed ancestor hides (ProcessList.c:231-459).         *)
(****************************************************************************)
TreeDrawn == NestedSets /\ ShownIfExpanded /\ LinesDrawn
=============================================================================
