--------------------------- MODULE MergedCommand ---------------------------
(****************************************************************************)
(* The Command column of one process: what each platform reads of it, on    *)
(* Linux file by file while the process renames itself, executes another    *)
(* program and loses its file, and the merged string that                   *)
(* Process_makeCommandStr keeps until something has changed.                *)
(****************************************************************************)
EXTENDS CommandText

CONSTANTS
    Hosts,              \* the platforms looked at
    Arguments,          \* what a process can be called with
    Programs,           \* executable files
    CommNames,          \* names of processes
    FirstOptions,       \* the options at the start
    MaxCommandSteps     \* bound: what the process and the user do
ASSUME MergedCommandAssumption ==
    Hosts \subseteq {"linux", "freebsd", "dragonfly", "openbsd", "netbsd", "darwin", "pcp", "solaris"} /\ MaxCommandSteps \in Nat

VARIABLES
    host,
    life,         \* the process: args, comm, exe, deleted, zombie
    files,        \* files whose names are the beginning of a command line
    commandSteps,
    row,          \* Process: cmd, comm, exe, deleted, thread, new
    changed,      \* cmdlineChanged, commChanged or exeChanged
    made,         \* mergedCommand: text, marks, room and the settings of then
    set,          \* showMergedCommand, showProgramPath, findCommInCmdline, showThreadNames
    updateProcessNames,
    reading,      \* what is read next, "make", or "shown"
    torn          \* history: the process took a step during the scan
lifeVars == <<host, life, files, commandSteps>>
commandVars == <<lifeVars, row, changed, made, set, updateProcessNames, reading, torn>>

Options == {"merge", "path", "find", "threadNames"}
NoRow == [cmd |-> Cmdline(None, 0, 0), comm |-> None, exe |-> None, deleted |-> FALSE, thread |-> FALSE, new |-> TRUE]
ProcessMergedCommand == [text |-> None, marks |-> {}, room |-> 0, set |-> [o \in Options |-> FALSE]]

CommandInit ==
    /\ host \in Hosts /\ commandSteps = 0
    /\ life \in [args : Arguments, comm : CommNames, exe : Programs,
                 deleted : {FALSE}, zombie : BOOLEAN]
    /\ files \in (IF host = "linux" THEN {{}, {<<"/", "b", "/", "a">>}, {<<"a", " ", "b">>}} ELSE {{}})
    /\ \E thread \in BOOLEAN : row = [NoRow EXCEPT !.thread = thread]
    /\ changed = FALSE /\ made = ProcessMergedCommand /\ set \in FirstOptions
    /\ updateProcessNames \in BOOLEAN /\ reading = "cmdline" /\ torn = FALSE

(****************************************************************************)
(* The process and the user.                                                *)
(****************************************************************************)
CommandStep ==
    /\ commandSteps < MaxCommandSteps /\ commandSteps' = commandSteps + 1
    /\ UNCHANGED <<host, files, row, changed, made>>

LifeStep(newLife) ==
    /\ CommandStep /\ ~life.zombie /\ newLife # life /\ life' = newLife
    /\ torn' = (torn \/ reading # "shown") /\ UNCHANGED <<set, updateProcessNames, reading>>

ExecProgram(args, exe) == LifeStep([life EXCEPT !.args = args, !.exe = exe, !.deleted = FALSE])
SetName(comm) == LifeStep([life EXCEPT !.comm = comm])
Unlink == LifeStep([life EXCEPT !.deleted = TRUE])
BecomeZombie == LifeStep([life EXCEPT !.zombie = TRUE])

ToggleOption(o) ==
    /\ CommandStep /\ reading = "shown" /\ set' = [set EXCEPT ![o] = ~@]
    /\ reading' = "cmdline" /\ torn' = FALSE /\ UNCHANGED <<life, updateProcessNames>>

ToggleUpdateNames ==
    /\ CommandStep /\ reading = "shown" /\ updateProcessNames' = ~updateProcessNames
    /\ reading' = "cmdline" /\ torn' = FALSE /\ UNCHANGED <<life, set>>

(****************************************************************************)
(* A scan.                                                                  *)
(****************************************************************************)
\* What each platform makes of the arguments.
CommandOf ==
    CASE host = "linux" -> LinuxProcessList_readCmdlineFile(files, life.args)
      [] host = "freebsd" -> FreeBSDProcessList_updateProcessName(life.args)
      [] host = "dragonfly" -> DragonFlyBSDProcessList_updateProcessName(life.args)
      [] host = "netbsd" -> NetBSDProcessList_updateProcessName(life.args)
      [] host = "openbsd" -> OpenBSDProcessList_updateProcessName(life.args)
      [] host = "darwin" -> DarwinProcess_updateCmdLine(life.args, <<<<"e">>>>, life.comm)
      [] host = "pcp" -> PCPProcessList_updateCmdline(life.args)
      [] host = "solaris" -> Solaris_psargs(life.args)

Take(newRow, next) ==
    /\ row' = newRow
    /\ changed' = (changed \/ newRow.cmd.text # row.cmd.text \/ newRow.comm # row.comm
                           \/ newRow.exe # row.exe \/ newRow.deleted # row.deleted)
    /\ reading' = next /\ UNCHANGED <<lifeVars, made, set, updateProcessNames, torn>>

\* The same text keeps the places it was stored with.
WithCommand(r, cmd) == IF r.cmd.text = cmd.text THEN r ELSE [r EXCEPT !.cmd = Process_updateCmdline(cmd)]
ByName == Cmdline(life.comm, 0, Len(life.comm))

\* Processes that were there before are read again only if the user asks for it,
\* and on two systems never.
NamesRead ==
    \/ row.new
    \/ /\ updateProcessNames /\ host \notin {"darwin", "solaris"}
       /\ host \in {"linux", "pcp"} => ~life.zombie

\* PCP shows threads by their names, which replace the command line.
Titled(r) == IF host = "pcp" /\ r.thread /\ set["threadNames"] THEN WithCommand(r, ByName) ELSE r

\* A zombie has no arguments and is shown by its name.
ReadCmdline ==
    /\ reading = "cmdline"
    /\ CASE ~NamesRead -> Take(Titled(row), "make")
         [] NamesRead /\ life.zombie /\ host \in {"linux", "pcp"} -> Take(WithCommand(row, ByName), "make")
         [] NamesRead /\ life.zombie /\ host \notin {"linux", "pcp", "solaris"} -> Take(WithCommand(row, ByName), "comm")
         [] OTHER -> Take(WithCommand(row, CommandOf), "comm")

ReadComm == reading = "comm" /\ Take([row EXCEPT !.comm = life.comm], "exe")

\* readlink appends a mark to the name of a file that is gone; a name shorter
\* than the mark is not searched for it.
MarkerLen == 2
Linux_readExe(exe, deleted) ==
    CASE exe = None /\ row.exe # None -> [row EXCEPT !.exe = None, !.deleted = FALSE]
      [] exe = None /\ row.exe = None -> row
      [] OTHER ->
           [row EXCEPT !.exe = exe,
                       !.deleted = IF deleted \/ Len(exe) > MarkerLen THEN deleted ELSE @]

\* The BSDs, macOS and Solaris look for the executable of new processes only,
\* OpenBSD never.
ReadExe ==
    /\ reading = "exe"
    /\ CASE host = "linux" -> Take(Linux_readExe(IF life.zombie THEN None ELSE life.exe, life.deleted), "make")
         [] host = "pcp" -> Take(Titled([row EXCEPT !.exe = life.exe]), "make")
         [] host = "openbsd" -> Take(row, "make")
         [] OTHER -> Take([row EXCEPT !.exe = IF row.new /\ ~life.zombie THEN life.exe ELSE @], "make")

Separators(text) == Cardinality({i \in DOMAIN text : text[i] = "|"})
Bytes(text) == Len(text) + 2 * Separators(text)
Room(r) ==
    2 * 3 + 1 + (IF r.cmd.text = None THEN 3 ELSE Len(r.cmd.text))
    + (IF r.comm = None THEN 0 ELSE Len(r.comm)) + (IF r.exe = None THEN 0 ELSE Len(r.exe))

\* Nothing is made for a thread whose name is shown, but after that option was
\* changed, and for a zombie that was not seen before.
SkippedThread == \/ row.thread /\ set["threadNames"] /\ made.set["threadNames"]
                 \/ life.zombie /\ made.text = None

UpToDate == made.set = set /\ ~changed

Process_makeCommandStr ==
    /\ reading = "make" /\ reading' = "shown"
    /\ row' = [row EXCEPT !.new = FALSE]
    /\ IF SkippedThread \/ UpToDate THEN UNCHANGED <<changed, made>>
       ELSE LET result == MergedText(row, set)
            IN  /\ changed' = FALSE
                /\ made' = [text |-> result.text, marks |-> result.marks, set |-> set,
                            room |-> IF changed THEN Room(row) ELSE made.room]
    /\ UNCHANGED <<lifeVars, set, updateProcessNames, torn>>

StartCommandScan ==
    /\ reading = "shown" /\ reading' = "cmdline" /\ torn' = FALSE
    /\ UNCHANGED <<lifeVars, row, changed, made, set, updateProcessNames>>

CommandNext ==
    \/ \E args \in Arguments, exe \in Programs : ExecProgram(args, exe)
    \/ \E comm \in CommNames : SetName(comm)
    \/ Unlink \/ BecomeZombie \/ (\E o \in Options : ToggleOption(o)) \/ ToggleUpdateNames
    \/ ReadCmdline \/ ReadComm \/ ReadExe \/ Process_makeCommandStr \/ StartCommandScan

CommandSpec == CommandInit /\ [][CommandNext]_commandVars

(****************************************************************************)
(* Properties.                                                              *)
(****************************************************************************)
SuffixOf(part, path) ==
    /\ Len(part) <= Len(path) /\ Prefix(From(path, Len(path) - Len(part)), part, Len(part))
    /\ Len(part) = Len(path) \/ At(path, Len(path) - Len(part) - 1) = "/"

\* The merged string is that of the present data and settings, whichever of
\* them changed since it was made, and fits the buffer, which is only allocated
\* when the data have changed ("needs updating only if its state or contents
\* changed").  Threads whose names are shown and zombies keep what they had.
CommandFresh ==
    reading = "shown" /\ made.text # None =>
        /\ Bytes(made.text) + 1 <= made.room
        /\ ~(row.thread /\ set["threadNames"]) /\ ~life.zombie =>
              LET now == MergedText(row, set) IN made.text = now.text /\ made.marks = now.marks

\* Arguments without what only a heuristic can tell.
Plain(args) ==
    \A n \in DOMAIN args : /\ args[n] # <<>> /\ args[n][Len(args[n])] # "/"
                           /\ \A i \in DOMAIN args[n] : args[n][i] \notin {" ", ":"}
BaseOf(arg) == From(arg, AfterLastSlash(arg, 0, Len(arg)))

\* What is taken for the basename when plain arguments were just read.  Only Linux
\* looks for it in all paths, the others in those of two parts at least; PCP
\* looks in all arguments and Solaris in none.
BasenameFound(cmd) ==
    LET basename == Part(cmd.text, cmd.start, cmd.end)
    IN  CASE host = "linux" -> basename = BaseOf(life.args[1])
          [] host = "pcp" -> \E n \in DOMAIN life.args :
                               basename = Joined([SubSeq(life.args, n, Len(life.args)) EXCEPT ![1] = BaseOf(@)], " ")
          [] host = "solaris" -> basename = <<>>
          [] OTHER -> basename = IF life.args[1][1] = "/" /\ ExeBase(life.args[1]) # 0
                                 THEN BaseOf(life.args[1]) ELSE life.args[1]

\* A scan that reads the names again shows those of now, on Linux and PCP with
\* the executable.  Where they are not read again (updateProcessNames is off at
\* first, macOS and Solaris never do), a process that has called exec keeps the
\* names it was first seen with; the BSDs that do keep its first executable, and
\* show it in front of the new command line.
NamesNow ==
    reading = "make" /\ ~torn /\ ~life.zombie /\ NamesRead =>
        /\ row.comm = life.comm
        /\ host \in {"linux", "pcp"} => row.exe = life.exe

\* All that is marked lies in the string, and is what it is marked as: the name
\* of the process begins with it, wherever it was found and whatever was
\* stripped before it; the basename is the last part of the path.  Nothing is
\* stripped from the command line but a path by which the executable, shown in
\* front, can be called.
MarksRight ==
    /\ reading = "comm" /\ ~torn /\ ~life.zombie /\ Plain(life.args) =>
          BasenameFound(row.cmd) /\ (host # "solaris" => CmdlineAccepted(row.cmd))
    /\ reading = "shown" /\ made.text # None =>
        /\ \A m \in made.marks :
             /\ m.at >= 0 /\ m.len >= 0 /\ m.at + m.len <= Len(made.text)
             /\ m.kind = "separator" => At(made.text, m.at) = "|"
             /\ m.kind = "comm" /\ ~(row.thread /\ set["threadNames"]) /\ ~life.zombie =>
                  Prefix(From(made.text, m.at), row.comm, Len(row.comm))
        /\ None \notin {row.exe, row.cmd.text} =>
             LET n == matchCmdlinePrefixWithExeSuffix(row.cmd.text, row.cmd.start, row.exe)
             IN  n # 0 => SuffixOf(Part(row.cmd.text, 0, n), row.exe)

(****************************************************************************)
(* The merged command is of now, fits its buffer, and its marks point at    *)
(* what they are named for (Process.c:302-681).                             *)
(****************************************************************************)
CommandSound == CommandFresh /\ NamesNow /\ MarksRight

\* Process.h: "Tells if the executable has been replaced in the filesystem
\* since start": the name of a program that is there is not marked as deleted.
DeletedTrue ==
    reading = "make" /\ ~torn /\ host = "linux" /\ ~life.zombie /\ NamesRead /\ life.exe # None =>
        row.deleted = life.deleted
=============================================================================
