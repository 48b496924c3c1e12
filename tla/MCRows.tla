------------------------------- MODULE MCRows -------------------------------
(****************************************************************************)
(* Instances of what makes a row of the list: what is read of a Linux       *)
(* process, its merged command on all systems, and the fields as they are   *)
(* drawn and compared.  A behaviour is about one of them, the subject.      *)
(*                                                                          *)
(* LinuxTask: a process with a thread, as init or another, three scans and  *)
(* two steps of the process, the kernel or the user, threads shown at first.*)
(* MergedCommand: short command lines of letters, slashes, blanks and a     *)
(* colon that lead to every branch of the heuristics, and names of one or   *)
(* two letters, the longest that fit; where updateProcessNames has no       *)
(* effect it is off at first.                                               *)
(* ProcessFields: sizes on both sides of every boundary between two units   *)
(* and times on both sides of every form, as <<low digits, unit>> (see      *)
(* there), pids and users that need more columns than are reserved, names   *)
(* shorter and longer than every column, numbers on both sides of theirs.   *)
(****************************************************************************)
EXTENDS LinuxTask, MergedCommand, ProcessFields, TLC

VARIABLE subject

AllColumns == {Columns}

TheArguments ==
    {<<<<"a">>>>, <<<<"/", "b", "/", "a">>>>, <<<<"b", "/", "a", "b", "b">>, <<"b">>>>,
     <<<<"a">>, <<"b", "/", "b">>>>, <<<<"a", " ", "b">>>>, <<<<"/", "b", "/", "a", " ", "b">>>>,
     <<<<"b", ":", " ", "a">>>>, <<<<>>, <<"b">>>>, <<<<"b", "/", "a", " ", "b", "/", "a">>>>, <<<<"/", "a">>, <<"a", "b">>>>}
ThePrograms == {<<"/", "a">>, <<"/", "b", "/", "a">>, None}
TheNames == {<<"a">>, <<"a", "b">>}
TheOptions == {[o \in Options |-> o # "threadNames"], [o \in Options |-> TRUE]}

TheSizes ==
    <<Invalid, <<0, 0>>, <<999, 0>>, <<1000, 0>>, <<99999, 0>>, <<100000, 0>>, <<1023999, 0>>,
      <<1000, 1>>, <<9999, 1>>, <<10000, 1>>, <<99999, 1>>, <<102399, 1>>, <<100000, 1>>,
      <<999, 2>>, <<1000, 2>>, <<9999, 2>>, <<10000, 2>>, <<99999, 2>>, <<100000, 2>>,
      <<9999, 3>>, <<10000, 3>>, <<102399, 3>>>>
TheCounts == <<1, 3, 10, 11, 14, 15, 17, 18, 20, 21>>
TheTimes ==
    <<<<0, 59, 99>>, <<0, 3599, 0>>, <<0, 3600, 0>>, <<0, 86399, 0>>, <<4, 14399, 0>>, <<4, 14400, 0>>,
      <<99, 86399, 0>>, <<100, 0, 0>>, <<364, 86399, 0>>, <<365, 0, 0>>, <<375, 0, 0>>, <<729, 0, 0>>, <<4000, 0, 0>>>>
ThePercents == <<NaN, 0, 998, 999, 9989, 9990, 99999>>
TheRates == <<Invalid, <<0, 0>>, <<1023, 0>>, <<1, 1>>, <<1023, 1>>, <<1, 2>>>>
TheNices == <<-20, 0, 5, 19>>
ThePriorities == <<-100, -51, 0, 39, 139>>
TheNumbers == <<0, 999, 1000, 9999, 10000, 99999, 100000>>
TheIOs == <<<<0, 0>>, <<1, 4>>, <<2, 0>>, <<3, 0>>>>

Pick(s, i) == s[1 + (i % Len(s))]
FigureOf(i) ==
    LET percent == Pick(ThePercents, i) IN
    [size |-> 1 + (i % Len(TheSizes)), count |-> Pick(TheCounts, i), cpu |-> Pick(TheTimes, i),
     percent |-> IF percent = NaN THEN 0 ELSE percent, delay |-> percent,
     read |-> Pick(TheRates, i), written |-> Pick(TheRates, i \div 2),
     small |-> Pick(TheNices, i), priority |-> Pick(ThePriorities, i), number |-> Pick(TheNumbers, i), io |-> Pick(TheIOs, i), name |-> (i * 5) % 40]
TheFigures == 1 :> {FigureOf(i) : i \in 0 .. 21} @@ 2 :> {FigureOf(0)} @@ 99999 :> {FigureOf(2)}
TheLongFigures == 1 :> {[FigureOf(0) EXCEPT !.name = 254]} @@ 2 :> {FigureOf(0)} @@ 99999 :> {FigureOf(2)}
TheUids == 1 :> {100001} @@ 2 :> {100000} @@ 99999 :> {1000}
TheColumns ==
    {{"M_VIRT", "M_PSSWP", "MINFLT", "TIME", "IO_RATE", "IO_READ_RATE", "PERCENT_CPU", "PERCENT_IO_DELAY",
      "PID", "ST_UID", "USER", "TTY", "CGROUP", "NLWP", "AUTOGROUP_ID", "PRIORITY", "IO_PRIORITY",
      "STATE", "STARTTIME", "ELAPSED"},
     {"PID", "ST_UID", "ELAPSED"}}
Forward == {1000000}
Back == {-5}

\* Those that are not the subject stay in one of their initial states.
MCInit ==
    /\ subject \in {"task", "command", "fields"}
    /\ IF subject = "task" THEN hideThreads = FALSE /\ TaskInit
       ELSE pid = 1 /\ columns = Columns /\ hideThreads = TRUE /\ highlightDeleted = TRUE /\ TaskInit
    /\ IF subject = "command" THEN CommandInit /\ (updateProcessNames => host \notin {"darwin", "solaris"})
       ELSE /\ host = "linux" /\ files = {}
            /\ life = [args |-> <<<<"a">>>>, comm |-> <<"a">>, exe |-> None, deleted |-> FALSE, zombie |-> FALSE]
            /\ row = NoRow /\ set = [o \in Options |-> TRUE] /\ updateProcessNames = TRUE /\ CommandInit
    /\ IF subject = "fields" THEN FieldsInit ELSE fields = {"PID", "ST_UID", "ELAPSED"} /\ FieldsInit

MCNext ==
    /\ \/ subject = "task" /\ TaskNext /\ UNCHANGED <<commandVars, fieldVars>>
       \/ subject = "command" /\ CommandNext /\ UNCHANGED <<taskVars, fieldVars>>
       \/ subject = "fields" /\ FieldsNext /\ UNCHANGED <<taskVars, commandVars>>
    /\ UNCHANGED subject

MCSpec == MCInit /\ [][MCNext]_<<taskVars, commandVars, fieldVars, subject>>
=============================================================================
