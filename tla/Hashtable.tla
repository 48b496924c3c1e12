----------------------------- MODULE Hashtable -----------------------------
(****************************************************************************)
(* Hashtable.c: open addressing with Robin Hood insertion (the item that    *)
(* is further from its home bucket keeps the bucket), removal by shifting   *)
(* back, and a size that follows the load factor through a list of primes.  *)
(****************************************************************************)
EXTENDS Integers, FiniteSets, Sequences

CONSTANTS Key, NoValue,
          Value,       \* the objects that the caller may put at a key
          Primes,      \* the entries of OEISprimes that a table reaches
          NewSizes     \* the size arguments Hashtable_new is called with

ASSUME HashtableAssumption ==
    /\ Key \subseteq Nat /\ NoValue \notin Value
    /\ Primes \subseteq Nat \ {0} /\ NewSizes \subseteq Nat
    /\ 0 \in NewSizes => 13 \in Primes

VARIABLES
    tableSize,    \* number of buckets
    buckets,   \* [0..tableSize-1 -> TableItem or Empty]
    tableItems,   \* the counter the load factor is computed from
    tableOwner,   \* whether the table frees its values
    freed,        \* <<key, value>> of the objects that the last operation freed
    tableFailed   \* an assertion failed

tableVars == <<tableSize, buckets, tableItems, tableOwner, freed, tableFailed>>

TableItem == [key : Key, probe : Nat, value : Value]
Empty == [value |-> NoValue]
Occupied(b) == {i \in DOMAIN b : b[i] # Empty}

\* The program ends where there is no prime.
HasPrime(n) == \E p \in Primes : p >= n
nextPrime(n) == CHOOSE p \in Primes : p >= n /\ \A q \in Primes : q >= n => p <= q

Size(b) == Cardinality(DOMAIN b)
NewBuckets(n) == [i \in 0..(n - 1) |-> Empty]

TableInit ==
    /\ \E n \in NewSizes : HasPrime(n) /\ tableSize = IF n = 0 THEN 13 ELSE nextPrime(n)
    /\ buckets = NewBuckets(tableSize)
    /\ tableItems = 0
    /\ tableOwner \in BOOLEAN
    /\ freed = {} /\ tableFailed = FALSE

-----------------------------------------------------------------------------
(* insert                                                                   *)

Displaces(probe, there) == probe > there.probe

\* One iteration of the loop: the item looks for its place at bucket i, and a
\* displaced item goes on looking instead.
Probe(s, i) ==
    LET there == s.table[i]
        swap == Displaces(s.item.probe, there)
    IN  IF s.settled THEN s
        ELSE IF there = Empty THEN [s EXCEPT !.table = [@ EXCEPT ![i] = s.item], !.settled = TRUE]
        ELSE IF there.key = s.item.key
        THEN [s EXCEPT !.table = [@ EXCEPT ![i] = [there EXCEPT !.value = s.item.value]], !.settled = TRUE]
        ELSE [table |-> IF swap THEN [s.table EXCEPT ![i] = s.item] ELSE s.table,
              item |-> [(IF swap THEN there ELSE s.item) EXCEPT !.probe = @ + 1],
              settled |-> FALSE]

\* It starts at the home bucket and ends where it started at the latest, with a
\* full table, which Check finds.
TableInsert(b, k, v) ==
    LET probed[n \in 0 .. Size(b)] ==
            IF n = 0 THEN [table |-> b, item |-> [key |-> k, probe |-> 0, value |-> v], settled |-> FALSE]
            ELSE Probe(probed[n - 1], (k + (n - 1)) % Size(b))
    IN  probed[Size(b)].table

\* Rehashing takes the old buckets from the first to the last.
Rehash(b, n) ==
    LET filled[i \in 0 .. Size(b)] ==
            IF i = 0 THEN NewBuckets(n)
            ELSE IF b[i - 1] = Empty THEN filled[i - 1]
            ELSE TableInsert(filled[i - 1], b[i - 1].key, b[i - 1].value)
    IN  filled[Size(b)]

-----------------------------------------------------------------------------
(* get and the search of remove                                             *)

\* Mutant: an item as close to its home as k would be ends the search.
StopsAt_AtEqual(b, k, n) ==
    LET it == b[(k + n) % Size(b)]
    IN it = Empty \/ it.key = k \/ it.probe <= n

\* Whether the search for k ends at its n-th probe: there is nothing, there is
\* k, or there is an item that is closer to its home than k would be.
StopsAt(b, k, n) ==
    LET it == b[(k + n) % Size(b)]
    IN it = Empty \/ it.key = k \/ it.probe < n

\* The probes the search makes are counted from the home bucket; if none stops
\* it, it comes back there and an assertion fails.
Stops(b, k) == {n \in 0..(Size(b) - 1) : StopsAt(b, k, n)}

Find(b, k) ==
    LET stops == Stops(b, k)
        last == CHOOSE n \in stops : \A m \in stops : n <= m
        i == (k + last) % Size(b)
    IN IF stops # {} /\ b[i] # Empty /\ b[i].key = k THEN i ELSE -1

Get(b, k) == LET i == Find(b, k) IN IF i = -1 THEN NoValue ELSE b[i].value

-----------------------------------------------------------------------------
(* The operations.                                                          *)

\* What setSize makes of a table; it refuses a size that its items would fill.
Resized(b, count, n) == IF n <= count THEN b ELSE Rehash(b, nextPrime(n))

Check(b, count) ==
    tableFailed' = (tableFailed \/ count # Cardinality(Occupied(b))
                      \/ count >= Size(b)
                      \/ \E k \in Key : Stops(b, k) = {})

Free(I) == freed' = IF tableOwner THEN {<<buckets[i].key, buckets[i].value>> : i \in I} ELSE {}

NeedsGrowth == 10 * tableItems > 7 * tableSize

Hashtable_put(k, v) ==
    /\ NeedsGrowth => HasPrime(2 * tableSize)
    /\ LET room == IF NeedsGrowth THEN Resized(buckets, tableItems, 2 * tableSize) ELSE buckets
           after == TableInsert(room, k, v)
       IN /\ buckets' = after
          /\ tableSize' = Size(after)
          /\ tableItems' = tableItems + IF Cardinality(Occupied(after)) > Cardinality(Occupied(room))
                              THEN 1 ELSE 0
          /\ Check(after, tableItems')
    /\ Free({i \in {Find(buckets, k)} \ {-1} : buckets[i].value # v})
    /\ UNCHANGED tableOwner

\* The items that are shifted back: those after bucket i up to a gap or to an
\* item in its home bucket.
RunLength(b, i) ==
    CHOOSE n \in 0..Size(b) :
        LET at(j) == b[(i + j) % Size(b)]
            ends(j) == at(j) = Empty \/ at(j).probe = 0
        IN ends(n + 1) /\ \A j \in 1..n : ~ends(j)

Vacate(b, i) ==
    [p \in DOMAIN b |->
        LET far == (p - i) % Size(b)
            next == b[(p + 1) % Size(b)]
        IN  IF far < RunLength(b, i) THEN [next EXCEPT !.probe = @ - 1]
            ELSE IF far = RunLength(b, i) THEN Empty ELSE b[p]]

Hashtable_remove(k) ==
    /\ LET i == Find(buckets, k)
           left == IF i = -1 THEN buckets ELSE Vacate(buckets, i)
           count == IF i = -1 THEN tableItems ELSE tableItems - 1
           after == IF 8 * count < tableSize THEN Resized(left, count, tableSize \div 2) ELSE left
       IN /\ buckets' = after
          /\ tableSize' = Size(after)
          /\ tableItems' = count
          /\ Check(after, count)
    /\ Free({Find(buckets, k)} \ {-1})
    /\ UNCHANGED tableOwner

Hashtable_clear ==
    /\ Free(Occupied(buckets))
    /\ buckets' = NewBuckets(tableSize)
    /\ tableItems' = 0
    /\ UNCHANGED <<tableSize, tableOwner, tableFailed>>

TableNext == \/ \E k \in Key, v \in Value : Hashtable_put(k, v)
        \/ \E k \in Key : Hashtable_remove(k)
        \/ Hashtable_clear

TableSpec == TableInit /\ [][TableNext]_tableVars

-----------------------------------------------------------------------------
(* Properties.                                                              *)

TableTypeOK ==
    /\ tableSize \in Primes
    /\ buckets \in [0..(tableSize - 1) -> TableItem \cup {Empty}]
    /\ tableItems \in Nat /\ tableOwner \in BOOLEAN /\ freed \subseteq Key \X Value /\ tableFailed \in BOOLEAN

\* None of the assertions on consistency, free buckets and ended searches fails.
TableNoAssertionFails == ~tableFailed

\* Every bucket's item is as far from its home bucket as its probe count says,
\* and at most one bucket further than the item in the bucket before it: this
\* is what lets get and remove stop early, without a failing assertion.
RobinHood ==
    /\ TableTypeOK /\ TableNoAssertionFails
    /\ \A i \in Occupied(buckets) :
          LET before == buckets[(i - 1 + tableSize) % tableSize] IN
          /\ (buckets[i].key + buckets[i].probe) % tableSize = i
          /\ buckets[i].probe < tableSize
          /\ buckets[i].probe > 0 => before # Empty /\ buckets[i].probe <= before.probe + 1

\* The table implements the dictionary: whatever the collisions, the order of
\* the operations and the resizings, get returns what was last put, and an
\* owning table frees each value exactly when it drops it.
Dict == INSTANCE Dictionary WITH
    map <- [k \in Key |-> Get(buckets, k)], owner <- tableOwner
ImplementsDictionary == Dict!DictSpec

\* Both, where the map, which is costly to compute, is only looked at when the
\* table changes.
TableSound ==
    /\ []RobinHood
    /\ Dict!DictInit /\ [][tableVars' # tableVars => [Dict!DictNext]_(Dict!dictVars)]_tableVars
=============================================================================
