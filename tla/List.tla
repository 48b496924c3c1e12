-------------------------------- MODULE List --------------------------------
(****************************************************************************)
(* What a Vector promises: a list of distinct objects, in which an owner    *)
(* holds every object that exists.                                          *)
(****************************************************************************)
EXTENDS Integers, Sequences

CONSTANTS Object, KeyOf

VARIABLE list

\* The list without its i-th element; with o before its i-th.
Without(s, i) == SubSeq(s, 1, i - 1) \o SubSeq(s, i + 1, Len(s))
With(s, i, o) == SubSeq(s, 1, i - 1) \o <<o>> \o SubSeq(s, i, Len(s))

Elements(s) == {s[i] : i \in DOMAIN s}
Distinct(s) == \A i, j \in DOMAIN s : s[i] = s[j] => i = j
InOrder(s) == \A i \in 1..(Len(s) - 1) : KeyOf[s[i]] <= KeyOf[s[i + 1]]

Init == list = <<>>

Insert == \E i \in 1..(Len(list) + 1), o \in Object \ Elements(list) : list' = With(list, i, o)
Remove == \E i \in DOMAIN list : list' = Without(list, i)
Replace == \E i \in DOMAIN list, o \in Object \ Elements(list) : list' = [list EXCEPT ![i] = o]
Swap == \E i \in 1..(Len(list) - 1) :
            list' = [list EXCEPT ![i] = list[i + 1], ![i + 1] = list[i]]
Sort == /\ Elements(list') = Elements(list) /\ Len(list') = Len(list)
        /\ InOrder(list')
Prune == list' = <<>>
AddAll == /\ Elements(list') \subseteq Object /\ Distinct(list')
          /\ SubSeq(list', 1, Len(list)) = list

Spec == Init /\ [][Insert \/ Remove \/ Replace \/ Swap \/ Sort \/ Prune \/ AddAll]_list
=============================================================================
