---------------------------- MODULE MCMainPanel ----------------------------
(* Three processes: FreeBSD's kernel, which is its own parent (0), init (1)  *)
(* and a child of it with two digits (12), so that 100 limits a search.     *)
EXTENDS MainPanel

ThePids == {0, 1, 12}
TheParents == [p \in ThePids |-> IF p = 12 THEN 1 ELSE 0]
=============================================================================
