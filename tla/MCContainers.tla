---------------------------- MODULE MCContainers ----------------------------
(****************************************************************************)
(* Instances of the three data structures everything else stands on: the    *)
(* panel, the vector and the hash table.  They have nothing to do with one  *)
(* another here: a behaviour is about one of them, the subject.             *)
(*                                                                          *)
(* Panel: up to four items of two kinds and terminals of -1 to 3 lines.     *)
(* Vector: five objects, two pairs of them with equal keys, and a growth    *)
(* rate of two (10 in the source), so that the array grows twice.           *)
(* Hashtable: of htop's tables, those that remove items (processTable,      *)
(* displayTreeSet) are created with 200 and never shrink below 127, since   *)
(* nextPrime(127 / 2) is 127.  With the primes 5 and 11 an instance has     *)
(* the same floor, at 5, and five keys make it grow.                        *)
(****************************************************************************)
EXTENDS Panel, Vector, Hashtable

VARIABLE subject

HeightSet == -1..3

TheObjects == 1..5
TheKeys == <<1, 2, 1, 2, 0>>

\* Home buckets 0 0 0 1 4 at size 5, and 0 4 5 10 4 at size 11.
Keys == {0, 4, 5, 10, 26}
Values == {"v", "w"}
TwoPrimes == {5, 11}
Sizes == {5, 6}

\* Those that are not the subject stay in one of their initial states.
MCInit ==
    /\ subject \in {"panel", "vector", "table"}
    /\ Init /\ (subject # "panel" => h = 0 /\ ~barHidden /\ ~hasHeader)
    /\ VectorInit /\ (subject # "vector" => ~vectorOwner)
    /\ TableInit /\ (subject # "table" => ~tableOwner /\ tableSize = 5)

MCNext ==
    /\ \/ subject = "panel" /\ Next /\ UNCHANGED <<vectorVars, tableVars>>
       \/ subject = "vector" /\ VectorNext /\ UNCHANGED <<vars, tableVars>>
       \/ subject = "table" /\ TableNext /\ UNCHANGED <<vars, vectorVars>>
    /\ UNCHANGED subject

allVars == <<vars, vectorVars, tableVars, subject>>
MCSpec == MCInit /\ [][MCNext]_allVars
=============================================================================
