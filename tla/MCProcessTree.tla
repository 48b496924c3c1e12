--------------------------- MODULE MCProcessTree ---------------------------
(* All forests of four processes, one hidden or collapsed at most.          *)
EXTENDS ProcessTree
=============================================================================
