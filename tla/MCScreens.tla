----------------------------- MODULE MCScreens -----------------------------
(****************************************************************************)
(* The screens about one process.  The user opens one of them: a behaviour  *)
(* is about the trace, one of the lists, or the command line.  The lists    *)
(* are one with a line twice, in an order that is not theirs, and none.     *)
(****************************************************************************)
EXTENDS TraceScreen, SnapshotScreen, CommandScreen

VARIABLE opened

TheLists == {<<>>, <<<<2>>, <<1>>>>, <<<<1, 2>>, <<2>>, <<1>>, <<2>>>>}
TheMessage == <<2, 1>>

\* What strace writes, and the filters typed while it does; nothing is written
\* any more once something was lost.  Lists are searched for texts, too.
Outputs == {<<1, 2, NewLine, 1, 2, NewLine, 1, 2, NewLine>>, <<NewLine, NewLine, 1>>}
Filters == {<<>>, <<1>>, <<2>>, <<1, 2>>}

TraceBound ==
    /\ \E text \in Outputs : SX!IsPrefix(output', text)
    /\ buffer'.filter \in Filters /\ active' # "search"
    /\ gap /\ gap' => output' = output

notTrace == <<kind, result, snapshot, reads, commandVars>>

\* What belongs to another screen stays in one of its initial states.
MCInit ==
    /\ opened \in {"trace", "list", "command"}
    /\ TraceInit
    /\ SnapshotInit /\ (opened # "list" => kind = "env" /\ result = [list |-> <<>>, ending |-> "ok"])
    /\ CommandInit /\ (opened # "command" => command = <<>>)

MCNext ==
    /\ \/ opened = "trace" /\ TraceNext /\ UNCHANGED notTrace /\ TraceBound
       \/ opened = "list" /\ SnapshotNext /\ UNCHANGED <<trace, commandVars>>
       \/ opened = "command" /\ CommandNext
          /\ UNCHANGED <<traceVars, kind, result, snapshot, reads>>
    /\ UNCHANGED opened

MCSpec == MCInit /\ [][MCNext]_<<traceVars, notTrace, opened>> /\ TraceFairness
=============================================================================
