------------------------------- MODULE Vector -------------------------------
(****************************************************************************)
(* Vector.c: the growing array behind the list of processes, the panels,    *)
(* the meters and all menus, with its two sorting algorithms and the        *)
(* assertions of debug builds.  It implements List.                         *)
(****************************************************************************)
EXTENDS Integers, Sequences, FiniteSets

CONSTANTS
    Object,      \* the objects a vector may hold
    KeyOf,       \* [Object -> Nat]: what compare goes by
    Growth,      \* growthRate, the initial size (DEFAULT_SIZE, 10, in the code)
    MaxSplice,   \* bound: length of a vector that is spliced in
    NoObject     \* the content of an unused cell

ASSUME VectorAssumption ==
    /\ IsFiniteSet(Object) /\ NoObject \notin Object
    /\ KeyOf \in [Object -> Nat]
    /\ Growth \in Nat \ {0} /\ MaxSplice \in Nat

VARIABLES
    vectorOwner, \* the vector deletes what it drops
    array,       \* the cells, 1..arraySize
    vectorItems, \* how many of them are used
    held,        \* the objects that exist because of an owner (history)
    vectorFailed \* an assertion failed (history)

vectorVars == <<vectorOwner, array, vectorItems, held, vectorFailed>>

list == SubSeq(array, 1, vectorItems)
Used == {list[i] : i \in DOMAIN list}
Unused == Object \ Used

\* Vector_isConsistent, for n items.
Consistent(a, n) == n <= Len(a) /\ (vectorOwner => \A i \in 1..n : a[i] # NoObject)

VectorInit ==
    /\ vectorOwner \in BOOLEAN
    /\ array = [i \in 1..Growth |-> NoObject] /\ vectorItems = 0
    /\ held = {} /\ vectorFailed = FALSE

-----------------------------------------------------------------------------
\* Vector_checkArraySize: there is room for the item at n + 1.
Grown(a, n) ==
    IF n >= Len(a) THEN a \o [i \in 1..(n + Growth - Len(a)) |-> NoObject] ELSE a

\* The cells from idx on move by one (memmove).
Shifted(a, idx) ==
    [i \in DOMAIN a |-> IF i > idx /\ i <= vectorItems + 1 THEN a[i - 1] ELSE a[i]]

Closed(a, idx) ==
    [i \in DOMAIN a |-> IF i >= idx /\ i < vectorItems THEN a[i + 1] ELSE a[i]]

\* An index beyond the array is an access out of bounds.
Store(a, i, o) == IF i \in DOMAIN a THEN [a EXCEPT ![i] = o] ELSE a

\* What every operation ends with: the new cells, the new count.
Becomes(a, n) ==
    /\ array' = a /\ vectorItems' = n
    /\ vectorFailed' = (vectorFailed \/ ~Consistent(a, n))
    /\ vectorOwner' = vectorOwner

Hold(new, dropped) == held' = IF vectorOwner THEN (held \cup new) \ dropped ELSE held

Vector_insert ==
    \E idx \in 1..(vectorItems + 1), o \in Unused :
        LET a == Grown(array, vectorItems)
        IN /\ Becomes(Store(Shifted(a, idx), idx, o), vectorItems + 1)
           /\ Hold({o}, {})

\* Vector_remove deletes the object of an owner, Vector_take hands it out.
Vector_remove ==
    \E idx \in 1..vectorItems :
        /\ Becomes(Closed(array, idx), vectorItems - 1)
        /\ Hold({}, {array[idx]})

\* Vector_set of a used cell, and Vector_add, which is Vector_set of the next.
Vector_set ==
    \E idx \in 1..(vectorItems + 1), o \in Unused :
        /\ Becomes(Store(Grown(array, vectorItems), idx, o), IF idx > vectorItems THEN idx ELSE vectorItems)
        /\ Hold({o}, IF idx <= vectorItems THEN {array[idx]} ELSE {})

\* Vector_moveUp of idx + 1, Vector_moveDown of idx.
Vector_move ==
    \E idx \in 1..(vectorItems - 1) :
        /\ Becomes([array EXCEPT ![idx] = array[idx + 1], ![idx + 1] = array[idx]], vectorItems)
        /\ UNCHANGED held

Vector_prune ==
    /\ Becomes(array, 0)
    /\ Hold({}, Used)

\* The first check of Vector_checkArraySize comes after items has grown.  A
\* panel is pruned before it gets the items of another vector.
Vector_splice ==
    /\ ~vectorOwner /\ vectorItems = 0
    /\ \E n \in 0..MaxSplice : \E from \in [1..n -> Object] :
          /\ \A i, j \in 1..n : from[i] = from[j] => i = j
          /\ LET a == Grown(array, vectorItems + n)
             IN /\ array' = [i \in DOMAIN a |->
                                 IF i \in (vectorItems + 1)..(vectorItems + n) THEN from[i - vectorItems] ELSE a[i]]
                /\ vectorItems' = vectorItems + n
                /\ vectorFailed' = (vectorFailed \/ ~Consistent(array, vectorItems + n))
    /\ UNCHANGED <<vectorOwner, held>>

-----------------------------------------------------------------------------
(* Sorting.                                                                 *)

compare(o, p) == KeyOf[o] - KeyOf[p]

SwapCells(a, i, j) == [a EXCEPT ![i] = a[j], ![j] = a[i]]

\* The loop of partition has come to cell i: s has the cells and the place of
\* the next one that goes to the left of the pivot.
Advance(s, i, pivot) ==
    IF compare(s.cells[i], pivot) <= 0
    THEN [cells |-> SwapCells(s.cells, i, s.place), place |-> s.place + 1] ELSE s

\* Yields the cells and the pivot's place.
partition(a, left, right, pivotIndex) ==
    LET swept[i \in left .. right] ==
            IF i = left THEN [cells |-> SwapCells(a, pivotIndex, right), place |-> left]
            ELSE Advance(swept[i - 1], i - 1, a[pivotIndex])
    IN [swept[right] EXCEPT !.cells = SwapCells(@, swept[right].place, right)]

\* The cells left .. right of an array that is to be sorted.
Stretch(cells, left, right) == [cells |-> cells, left |-> left, right |-> right]
Stretches(n) == [cells : [1 .. n -> Object \cup {NoObject}], left : 1 .. n + 1, right : 0 .. n]

quickSort(a, left, right) ==
    LET sorted[s \in Stretches(Len(a))] ==
            IF s.left >= s.right THEN s.cells
            ELSE LET p == partition(s.cells, s.left, s.right, (s.left + s.right) \div 2)
                     lower == sorted[Stretch(p.cells, s.left, p.place - 1)]
                 IN sorted[Stretch(lower, p.place + 1, s.right)]
    IN sorted[Stretch(a, left, right)]

\* Mutant: an item goes before the equal ones.
Sink_BeforeEqual(a, j, t) == j >= 1 /\ compare(a[j], t) >= 0

\* The inner loop of insertionSort goes on over cell j.
Sink(a, j, t) == j >= 1 /\ compare(a[j], t) > 0

\* t, the item of cell i, goes to its place among the sorted cells before it.
Sunk(a, i) ==
    LET t == a[i]
        place == CHOOSE k \in 1..i :
                    /\ \A j \in k..(i - 1) : Sink(a, j, t)
                    /\ ~Sink(a, k - 1, t)
    IN [j \in DOMAIN a |-> IF j = place THEN t ELSE IF j \in (place + 1)..i THEN a[j - 1] ELSE a[j]]

\* Cell after cell goes to its place.
insertionSort(a) ==
    LET sorted[i \in 0 .. vectorItems] == IF i <= 1 THEN a ELSE Sunk(sorted[i - 1], i)
    IN sorted[vectorItems]

Vector_quickSortCustomCompare ==
    /\ Becomes(quickSort(array, 1, vectorItems), vectorItems)
    /\ UNCHANGED held

Vector_insertionSort ==
    /\ Becomes(insertionSort(array), vectorItems)
    /\ UNCHANGED held

VectorNext ==
    \/ Vector_insert \/ Vector_remove \/ Vector_set \/ Vector_move \/ Vector_prune
    \/ Vector_splice \/ Vector_quickSortCustomCompare \/ Vector_insertionSort

VectorSpec == VectorInit /\ [][VectorNext]_vectorVars

-----------------------------------------------------------------------------
(* Properties.                                                              *)

VectorTypeOK ==
    /\ vectorOwner \in BOOLEAN /\ vectorFailed \in BOOLEAN
    /\ array \in Seq(Object \cup {NoObject}) /\ Len(array) >= Growth
    /\ vectorItems \in 0..Len(array) /\ held \subseteq Object

\* Vector.c:50: "assert(this->items <= this->arraySize);", and the other
\* assertions of Vector_isConsistent.
VectorNoAssertionFails == ~vectorFailed

\* Without overflow, loss or a stale cell the array behaves as a list, and both
\* sorts put it in order.
ImplementsList == INSTANCE List

ListSpec == ImplementsList!Spec

\* An owner deletes what it drops, once, and nothing it still holds; no
\* assertion fails.
HoldsItsItems == VectorTypeOK /\ VectorNoAssertionFails /\ (vectorOwner => held = Used)

\* insertionSort keeps the order of equal items, quickSort need not.
PlaceOf(o, s) == CHOOSE i \in DOMAIN s : s[i] = o

StableSort ==
    [][Vector_insertionSort =>
          \A i, j \in DOMAIN list : i < j /\ compare(list[i], list[j]) <= 0 =>
              PlaceOf(list[i], list') < PlaceOf(list[j], list')]_vectorVars

\* The vector is a list, which one of its two sorts orders stably.
StableList == ListSpec /\ StableSort

(****************************************************************************)
(* The array is a list through insertions, removals, splices, moves and     *)
(* growth, its owner frees what it drops exactly once, and no assertion     *)
(* fails (Vector.c:165-299).                                                *)
(****************************************************************************)
VectorSound == []HoldsItsItems /\ StableList
=============================================================================
