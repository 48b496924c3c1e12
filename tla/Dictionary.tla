----------------------------- MODULE Dictionary -----------------------------
(****************************************************************************)
(* What htop's callers rely on when they use a Hashtable: a partial map     *)
(* from keys to values.  In a table that owns its values, a value is freed  *)
(* exactly when it leaves the map.                                          *)
(****************************************************************************)
CONSTANTS Key, Value, NoValue

VARIABLES
    map,     \* [Key -> Value or NoValue]
    owner,   \* the table frees its values
    freed    \* <<key, value>> of the objects that the last operation freed

dictVars == <<map, owner, freed>>

\* The objects at the keys K leave the map.
Drop(K) == freed' = IF owner THEN {<<k, map[k]>> : k \in {l \in K : map[l] # NoValue}} ELSE {}

DictInit == /\ map = [k \in Key |-> NoValue]
            /\ owner \in BOOLEAN
            /\ freed = {}

DictPut(k, v) == /\ map' = [map EXCEPT ![k] = v]
                 /\ Drop({k} \ {l \in Key : map[l] = v})
                 /\ UNCHANGED owner

DictRemove(k) == /\ map' = [map EXCEPT ![k] = NoValue]
                 /\ Drop({k})
                 /\ UNCHANGED owner

DictClear == /\ map' = [k \in Key |-> NoValue]
             /\ Drop(Key)
             /\ UNCHANGED owner

DictNext == \/ \E k \in Key, v \in Value : DictPut(k, v)
            \/ \E k \in Key : DictRemove(k)
            \/ DictClear

DictSpec == DictInit /\ [][DictNext]_dictVars
=============================================================================
