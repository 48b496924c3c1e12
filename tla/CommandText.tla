---------------------------- MODULE CommandText ----------------------------
(****************************************************************************)
(* From the arguments of a process to its command line, and from command    *)
(* line, executable and name to the merged command: the algorithms of       *)
(* Process.c and of the functions of each platform that call                *)
(* Process_updateCmdline.  Texts are sequences of characters, "0" is NUL,   *)
(* "|" the separator; offsets count from 0 as in the source.                *)
(****************************************************************************)
EXTENDS Integers, Sequences, FiniteSets
LOCAL SX == INSTANCE SequencesExt
LOCAL FX == INSTANCE FiniteSetsExt

CONSTANT TASK_COMM_LEN   \* the length of a name, with its NUL
ASSUME CommandTextAssumption == TASK_COMM_LEN \in Nat \ {0, 1}

None == <<"none">>
At(text, i) == IF i \in 0 .. Len(text) - 1 THEN text[i + 1] ELSE "0"
From(text, i) == SubSeq(text, i + 1, Len(text))
Part(text, i, j) == SubSeq(text, i + 1, j)
MaxOr(S, default) == IF S = {} THEN default ELSE FX!Max(S)
MinOr(S, default) == IF S = {} THEN default ELSE FX!Min(S)
AfterLastSlash(text, i, j) == MaxOr({k + 1 : k \in {k \in i .. j - 1 : At(text, k) = "/"}}, i)
Joined(args, sep) ==
    SX!FoldLeft(LAMBDA text, i : text \o (IF i = 1 THEN <<>> ELSE <<sep>>) \o args[i],
                <<>>, [i \in 1 .. Len(args) |-> i])
Prefix(a, b, n) == \A i \in 0 .. n - 1 : At(a, i) = At(b, i)

(****************************************************************************)
(* Command lines: a text, and where its basename starts and ends.           *)
(****************************************************************************)
Cmdline(text, start, end) == [text |-> text, start |-> start, end |-> end]

\* The arguments end in NULs, which become newlines.
Linux_tokens(args) ==
    LET bytes == Joined(args, "0") \o <<"0">>
        end == MinOr({i \in 1 .. Len(bytes) - 1 : At(bytes, i) = "0"}, 0)
        last == MaxOr({i \in 0 .. Len(bytes) - 1 : At(bytes, i) # "0"}, 0)
        text == [i \in 1 .. last + 1 |-> IF bytes[i] = "0" THEN "\n" ELSE bytes[i]]
    IN  [cmd |-> Cmdline(text, AfterLastSlash(bytes, 0, IF end = 0 THEN Len(bytes) ELSE end), end),
         last |-> last,
         flat |-> /\ end = 0 \/ \A i \in end .. Len(bytes) - 1 : At(bytes, i) = "0"
                  /\ \E i \in 0 .. Len(bytes) - 1 : At(bytes, i) = " "]

\* One character of a command line whose arguments are separated by spaces only:
\* the first argument ends where the text before is a file.
Linux_flatStep(files, s, i) ==
    LET c == At(s.text, i)
    IN  CASE c \in {" ", "\n"} /\ s.end = 0 ->
               LET found == Part(s.text, 0, i) \in files
               IN  [s EXCEPT !.text[i + 1] = IF found THEN "\n" ELSE c,
                             !.end = IF found THEN i ELSE 0,
                             !.arg0 = IF @ = 0 THEN s.start ELSE @]
          [] c \in {" ", "\n"} /\ s.end # 0 -> [s EXCEPT !.text[i + 1] = "\n"]
          [] c = "/" /\ s.end = 0 -> [s EXCEPT !.start = i + 1]
          [] c = ":" /\ s.end = 0 /\ At(s.text, i + 1) # "/" -> [s EXCEPT !.end = i]
          [] OTHER -> s

Linux_split(files, text) ==
    LET s == SX!FoldLeft(LAMBDA t, i : Linux_flatStep(files, t, i),
                         [text |-> text, start |-> 0, end |-> 0, arg0 |-> 0],
                         [i \in 1 .. Len(text) |-> i - 1])
        spaces == {i \in 0 .. Len(text) - 1 : At(text, i) \in {" ", "\n"}}
    IN  IF text \in files THEN Cmdline(text, 0, 0)
        ELSE IF s.end # 0 THEN Cmdline(s.text, s.start, s.end)
        ELSE Cmdline([i \in 1 .. Len(text) |-> IF text[i] = " " THEN "\n" ELSE text[i]], s.arg0,
                     MaxOr({i \in spaces : \A j \in spaces : j = 0 \/ i <= j}, 0))

LinuxProcessList_readCmdlineFile(files, args) ==
    LET tokens == Linux_tokens(args)
        split == Linux_split(files, tokens.cmd.text)
        sane == IF split.start >= split.end THEN Cmdline(split.text, 0, 0) ELSE split
        cmd == IF tokens.flat THEN sane ELSE tokens.cmd
    IN  IF cmd.end = 0 THEN [cmd EXCEPT !.end = tokens.last + 1] ELSE cmd

\* The first argument that is not empty is the command.
FreeBSDProcessList_updateProcessName(args) ==
    LET ends == {Len(Joined(SubSeq(args, 1, n), " ")) : n \in 1 .. Len(args)} \ {0}
    IN  Cmdline(Joined(args, " "), 0, MinOr(ends, 0))

\* "check if cmdline ended earlier, e.g 'kdeinit5: Running...'"
OpenBSDProcessList_updateProcessName(args) ==
    LET first == MinOr({j \in 1 .. Len(args[1]) - 1 : At(args[1], j) = " "}, Len(args[1]))
    IN  Cmdline(Joined(args, " "), 0,
                IF first < Len(args[1]) /\ At(args[1], first - 1) = ":" THEN first - 1 ELSE first)

\* The same functions once more.
DragonFlyBSDProcessList_updateProcessName(args) == FreeBSDProcessList_updateProcessName(args)
NetBSDProcessList_updateProcessName(args) == OpenBSDProcessList_updateProcessName(args)

\* NULs before the first argument are skipped, empty arguments with them; as
\* many strings follow as there were arguments, from the environment if need be.
DarwinProcess_updateCmdLine(args, env, comm) ==
    LET strings == args \o env
        given == {n \in DOMAIN strings : strings[n] # <<>>}
        first == FX!Min(given)
        taken == SubSeq(strings, first, FX!Min({Len(strings), first + Len(args) - 1}))
    IN  IF given = {} THEN Cmdline(comm, 0, Len(comm)) ELSE Cmdline(Joined(taken, " "), 0, Len(taken[1]))

\* The basename follows the last slash of all arguments.
PCPProcessList_updateCmdline(args) ==
    LET text == Joined(args, " ") IN Cmdline(text, AfterLastSlash(text, 0, Len(text)), Len(text))

Solaris_psargs(args) == Cmdline(Joined(args, " "), 0, 0)

(****************************************************************************)
(* Process_updateCmdline.                                                   *)
(****************************************************************************)
\* assert(basenameStart < strlen(cmdline)), and three more like it.
CmdlineAccepted(cmd) ==
    /\ cmd.start < Len(cmd.text) /\ cmd.end <= Len(cmd.text)
    /\ cmd.end > cmd.start \/ (cmd.end = 0 /\ cmd.start = 0)

skipPotentialPath(text, end) ==
    LET stop == MinOr({i \in 1 .. end - 1 : \/ At(text, i) = " "
                                            \/ At(text, i) = ":" /\ At(text, i + 1) = " "}, end)
        slashes == {i \in 1 .. stop - 1 : At(text, i) = "/" /\ i + 1 < Len(text)}
    IN  IF At(text, 0) # "/" THEN 0 ELSE MaxOr({i + 1 : i \in slashes}, 0)

Process_updateCmdline(cmd) ==
    IF cmd.start # 0 THEN cmd ELSE [cmd EXCEPT !.start = skipPotentialPath(cmd.text, cmd.end)]

\* Where the basename of an executable starts.
ExeBase(exe) ==
    LET i == AfterLastSlash(exe, 0, Len(exe)) IN IF i \in {0, 1, Len(exe)} THEN 0 ELSE i

(****************************************************************************)
(* Process_makeCommandStr.                                                  *)
(****************************************************************************)
\* The first argument whose basename is the name, which may be cut off.
findCommInCmdline(comm, text, start) ==
    LET Begins == {i \in start .. Len(text) - 1 :
                      i = start \/ (At(text, i - 1) = "\n" /\ At(text, i) # "\n")}
        End(i) == MinOr({j \in i .. Len(text) - 1 : At(text, j) = "\n"}, Len(text))
        Base(i) == AfterLastSlash(text, i, End(i))
        Length(i) == End(i) - Base(i)
        Found == {i \in Begins :
                    /\ \/ Length(i) = Len(comm)
                       \/ Length(i) > Len(comm) /\ Len(comm) = TASK_COMM_LEN - 1
                    /\ Prefix(From(text, Base(i)), comm, Len(comm))}
    IN  [found |-> Found # {},
         start |-> IF Found = {} THEN 0 ELSE Base(FX!Min(Found)),
         end |-> IF Found = {} THEN 0 ELSE End(FX!Min(Found))]

Delimited(text, i) == At(text, i) \in {"0", "\n", " "}

\* How many characters the command line begins with that are the end of the
\* path of the executable.
matchCmdlinePrefixWithExeSuffix(text, start, exe) ==
    LET base == ExeBase(exe)
        baseLen == Len(exe) - base
        MatchAt(b) == /\ b < base /\ Delimited(text, b + baseLen)
                      /\ Prefix(From(text, b), From(exe, base), baseLen)
                      /\ Prefix(text, From(exe, base - b), b)
                      /\ At(exe, base - b - 1) = "/"
        Delims(b) == {d \in 1 .. b - 2 : At(text, d) \in {" ", "\n"}}
        Before(b) == MaxOr({k \in 1 .. FX!Max(Delims(b)) - 1 : At(text, k - 1) = "/"}, 0)
        Match[b \in 0 .. Len(text)] ==
            IF MatchAt(b) THEN b + baseLen ELSE IF Delims(b) = {} THEN 0 ELSE Match[Before(b)]
    IN  IF At(text, 0) = "/"
        THEN IF Prefix(text, exe, Len(exe)) /\ Delimited(text, Len(exe)) THEN Len(exe) ELSE 0
        ELSE Match[start]

Spaced(text) == [i \in DOMAIN text |-> IF text[i] = "\n" THEN " " ELSE text[i]]
Mark(kind, at, len) == [kind |-> kind, at |-> at, len |-> len]
Merged(text, marks) == [text |-> text, marks |-> marks]

\* What is known of a process: cmd, comm, exe, deleted and thread.
NameShown(row, set) == ~row.thread \/ set.threadNames

\* The executable is marked as the basename, and when its file is gone.
BaseMarks(row, at, len) ==
    {Mark("basename", at, len)} \cup (IF row.deleted THEN {Mark("deleted", at, len)} ELSE {})

\* Without merging the command line is shown, after the name of a process that
\* has another one, and whose executable is unknown.
Unmerged(row, set) ==
    LET cmd == IF row.cmd.text = None THEN Cmdline(<<"(", "z", ")">>, 0, 0) ELSE row.cmd
        first == FX!Min({TASK_COMM_LEN - 1, Len(row.comm)})
        named == /\ set.merge /\ NameShown(row, set) /\ row.exe = None /\ row.comm \notin {None, <<>>}
                 /\ ~Prefix(From(cmd.text, cmd.start), row.comm, first)
        before == IF named THEN row.comm \o <<"|">> ELSE <<>>
        at == Len(before) + (IF set.path THEN cmd.start ELSE 0)
    IN  Merged(before \o Spaced(From(cmd.text, IF set.path THEN 0 ELSE cmd.start)),
               (IF named THEN {Mark("comm", 0, Len(row.comm)), Mark("separator", Len(row.comm), 1)} ELSE {})
               \cup BaseMarks(row, at, cmd.end - cmd.start))

\* Mutant: the start of the name stays where it was before the strip.
CommInCmdline_NoShift(before, comm, matched) ==
    Mark("comm", Len(before) + comm.start, comm.end - comm.start)

\* The name's place counts from the command line that was left.
CommInCmdline(before, comm, matched) ==
    Mark("comm", Len(before) + comm.start - matched, comm.end - comm.start)

\* The executable, the name unless it was found in another part, and the rest
\* of the command line.
MergedAll(row, set) ==
    LET cmd == IF row.cmd.text = None THEN Cmdline(<<"(", "z", ")">>, 0, 0) ELSE row.cmd
        base == ExeBase(row.exe)
        shift == IF set.path THEN base ELSE 0
        exe == From(row.exe, base - shift)
        inExe == NameShown(row, set) /\ Prefix(From(row.exe, base), row.comm, TASK_COMM_LEN - 1)
        comm == findCommInCmdline(row.comm, cmd.text, cmd.start)
        inCmd == set.find /\ NameShown(row, set) /\ comm.found
        field == NameShown(row, set) /\ ~inExe /\ ~inCmd
        matched == matchCmdlinePrefixWithExeSuffix(cmd.text, cmd.start, row.exe)
        rest == From(cmd.text, matched)
        front == exe \o (IF field THEN <<"|">> \o row.comm ELSE <<>>)
        apart == matched = 0 \/ (field /\ rest # <<>>)
        before == front \o (IF apart THEN <<"|">> ELSE <<>>)
        exeLen == Len(row.exe) - base
    IN  Merged(before \o Spaced(rest),
               BaseMarks(row, shift, exeLen)
               \cup (IF inExe THEN {Mark("comm", shift, exeLen)} ELSE {})
               \cup (IF field THEN {Mark("separator", Len(exe), 1), Mark("comm", Len(exe) + 1, Len(row.comm))} ELSE {})
               \cup (IF apart THEN {Mark("separator", Len(front), 1)} ELSE {})
               \cup (IF inCmd /\ ~inExe THEN {CommInCmdline(before, comm, matched)} ELSE {}))

MergedText(row, set) ==
    IF ~set.merge \/ None \in {row.exe, row.comm} THEN Unmerged(row, set) ELSE MergedAll(row, set)
=============================================================================
