------------------------------ MODULE Settings ------------------------------
(****************************************************************************)
(* The configuration file through the sessions of htop (Settings.c,         *)
(* CommandLine_run): which file a start reads, the move of ~/.htoprc to     *)
(* ~/.config/htop/htoprc, and the rewriting of the file at the end, which   *)
(* empties it first and may be interrupted or fail at any line.             *)
(****************************************************************************)
EXTENDS Integers, Sequences, FiniteSets, Community

CONSTANTS
    Names,          \* of meters and of dynamic columns
    UserSettings,   \* what the user may set up: [fields, option, columns]
    Defaults,       \* the settings that are built in
    Broken,         \* a meter's name of which only a part was written
    Absent,         \* the content of a file that does not exist
    OtherFiles      \* files that this version did not write: Seq of lines

\* Columns of the header, a Seq of [names, modes]; both are lists.
NoMeters == [names |-> <<>>, modes |-> <<>>]

\* A line of the file.  A number is a list of one; a value that is missing is <<>>.
Line(key, col, value) == [key |-> key, col |-> col, value |-> value]

Values == Seq(Nat \cup Names)
Columns == Seq([names : Values, modes : Values])

\* The lines that mean something to the reader.
FileLines ==
    {line \in [key : {"version", "fields", "option", "layout", "meters", "modes"}, col : Nat, value : Values] :
        /\ line.key \in {"version", "option", "layout"} => \A i \in DOMAIN line.value : line.value[i] \in Nat
        /\ line.key = "layout" => \A i \in DOMAIN line.value : line.value[i] > 0
        /\ line.key \in {"meters", "modes"} => line.col > 0}

\* Every column has meters, and each of them a name and a mode.
Settings_validateMeters(columns) ==
    \A c \in DOMAIN columns :
        columns[c].modes # <<>> /\ Len(columns[c].names) = Len(columns[c].modes)

ASSUME SettingsAssumption ==
    /\ Broken \in Names
    /\ \A s \in UserSettings \cup {Defaults} :
          /\ s \in [fields : Values, option : Nat, columns : Columns]
          /\ s.fields # <<>> /\ s.columns # <<>>
          /\ \A c \in DOMAIN s.columns : Len(s.columns[c].names) = Len(s.columns[c].modes)
    /\ Settings_validateMeters(Defaults.columns)
    /\ OtherFiles \subseteq Seq(FileLines) /\ Absent \notin Seq(FileLines)

VARIABLES
    legacy,      \* ~/.htoprc
    main,        \* ~/.config/htop/htoprc
    system,      \* SYSCONFDIR/htoprc
    mem,         \* the settings of the running htop
    settingsChanged,     \* settings->changed
    settingsPc,          \* "off", "running", "open" or "write"
    task,        \* what the file is written for: "migrate" or "quit"
    out,         \* the lines still to write
    error,       \* a write failed (ferror)
    begun,       \* the settings of the last write that emptied the file (history)
    saved        \* those of the last write, once it has succeeded (history)

files == <<legacy, main, system>>
settingsVars == <<files, mem, settingsChanged, settingsPc, task, out, error, begun, saved>>

ReaderVersion == 2          \* CONFIG_READER_MIN_VERSION
DefaultLayout == 2          \* the columns of HF_TWO_50_50

-----------------------------------------------------------------------------
(* Settings_read                                                            *)

NewColumns(k) == [c \in 1..k |-> NoMeters]

smallerOf(a, b) == IF a < b THEN a ELSE b

\* Mutant: the column before the last takes what the last one should.
Column_Short(st, col) == IF col < Len(st.mem.columns) THEN col ELSE Len(st.mem.columns) - 1

\* A column that the header does not have is the last one.
Column(st, col) == smallerOf(col, Len(st.mem.columns))

\* The effect of a line on what was read so far.  A line without a value is
\* skipped, and so is everything in a file for a newer htop.
ReadLine(st, line) ==
    IF st.newer \/ line.value = <<>> THEN st
    ELSE CASE line.key = "version" -> [st EXCEPT !.newer = line.value[1] > ReaderVersion]
           [] line.key = "fields"  -> [st EXCEPT !.mem.fields = line.value]
           [] line.key = "option"  -> [st EXCEPT !.mem.option = line.value[1]]
           [] line.key = "layout"  -> [st EXCEPT !.mem.columns = NewColumns(line.value[1])]
           [] line.key = "meters"  -> [st EXCEPT !.mem.columns[Column(st, line.col)].names = line.value,
                                                 !.didReadMeters = TRUE]
           [] line.key = "modes"   -> [st EXCEPT !.mem.columns[Column(st, line.col)].modes = line.value,
                                                 !.didReadMeters = TRUE]

Settings_read(m, file) ==
    IF file = Absent THEN [ok |-> FALSE, mem |-> m]
    ELSE LET st == SX!FoldLeft(ReadLine, [mem |-> m, newer |-> FALSE, didReadMeters |-> FALSE], file)
             valid == st.didReadMeters /\ Settings_validateMeters(st.mem.columns)
         IN [ok |-> file # <<>> /\ ~st.newer,
             mem |-> IF st.newer \/ valid THEN st.mem
                     ELSE [st.mem EXCEPT !.columns = Defaults.columns]]

\* Settings_new: the legacy file, else the user's, else the system's, else the
\* defaults.  Without a file of the user, the settings count as changed.
Load(old, user) ==
    LET fromOld == Settings_read([Defaults EXCEPT !.columns = NewColumns(DefaultLayout)], old)
        fromUser == Settings_read(fromOld.mem, user)
        fromSystem == Settings_read(fromUser.mem, system)
    IN IF fromOld.ok THEN [mem |-> fromOld.mem, changed |-> FALSE, migrate |-> TRUE]
       ELSE IF fromUser.ok THEN [mem |-> fromUser.mem, changed |-> FALSE, migrate |-> FALSE]
       ELSE [mem |-> IF fromSystem.ok THEN fromSystem.mem
                     ELSE [fromSystem.mem EXCEPT !.columns = Defaults.columns],
             changed |-> TRUE, migrate |-> FALSE]

-----------------------------------------------------------------------------
(* Settings_write                                                           *)

Lines(s) ==
    <<Line("version", 0, <<ReaderVersion>>), Line("fields", 0, s.fields),
      Line("option", 0, <<s.option>>), Line("layout", 0, <<Len(s.columns)>>)>>
    \o SX!FlattenSeq([c \in DOMAIN s.columns |-> <<Line("meters", c, s.columns[c].names),
                                                   Line("modes", c, s.columns[c].modes)>>])

\* What is left of a line that is written in part: nothing, or a shorter value;
\* the name of a layout is unknown then, and another number is read.
Cuts(line) ==
    {<<>>} \cup
    CASE line.key \in {"fields", "modes"} ->
            {<<[line EXCEPT !.value = SubSeq(@, 1, k)]>> : k \in 0..Len(line.value)}
      [] line.key = "meters" ->
            {<<[line EXCEPT !.value = SubSeq(@, 1, k)]>> : k \in 0..Len(line.value)} \cup
            {<<[line EXCEPT !.value = Append(SubSeq(@, 1, k - 1), Broken)]>> : k \in 1..Len(line.value)}
      [] line.key = "layout" -> {<<[line EXCEPT !.value = <<DefaultLayout>>]>>}
      [] line.key = "option" -> {<<[line EXCEPT !.value = <<s.option>>]>> : s \in UserSettings}
      [] line.key = "version" -> {<<[line EXCEPT !.value = <<>>]>>}

SettingsInit ==
    /\ legacy \in OtherFiles \cup {Absent} /\ main \in OtherFiles \cup {Absent}
    /\ system \in OtherFiles \cup {Absent}
    /\ mem = Defaults /\ settingsChanged = FALSE
    /\ settingsPc = "off" /\ task = "quit" /\ out = <<>> /\ error = FALSE
    /\ begun = <<>> /\ saved = <<>>

\* Mutant: the legacy file is deleted even if the new one was not written.
Ended_Unchecked(ok) ==
    /\ settingsPc' = (IF task = "migrate" THEN "running" ELSE "off")
    /\ legacy' \in (IF task = "migrate" THEN {Absent, legacy} ELSE {legacy})

\* What it was written for is over.  The legacy file is deleted once the new one
\* is written; unlink may fail, too, and the code does not look.
Ended(ok) ==
    /\ settingsPc' = (IF task = "migrate" THEN "running" ELSE "off")
    /\ legacy' \in (IF task = "migrate" /\ ok THEN {Absent, legacy} ELSE {legacy})

\* fopen(filename, "w") empties the file, or fails.
Open ==
    /\ settingsPc = "open"
    /\ \/ /\ settingsPc' = "write" /\ main' = <<>> /\ out' = Lines(mem)
          /\ begun' = <<mem>> /\ saved' = <<>>
          /\ UNCHANGED legacy
       \/ Ended(FALSE) /\ UNCHANGED <<main, out, begun, saved>>
    /\ error' = FALSE
    /\ UNCHANGED <<system, mem, settingsChanged, task>>

WriteLine ==
    /\ settingsPc = "write" /\ out # <<>>
    /\ main' = Append(main, Head(out)) /\ out' = Tail(out)
    /\ UNCHANGED <<legacy, system, mem, settingsChanged, settingsPc, task, error, begun, saved>>

\* The disk is full: the rest is lost.
WriteFails ==
    /\ settingsPc = "write" /\ out # <<>>
    /\ \E cut \in Cuts(Head(out)) : main' = main \o cut
    /\ out' = <<>> /\ error' = TRUE
    /\ UNCHANGED <<legacy, system, mem, settingsChanged, settingsPc, task, begun, saved>>

\* fclose; what ferror and fclose report decides.
Close ==
    /\ settingsPc = "write" /\ out = <<>>
    /\ Ended(~error)
    /\ saved' = IF error THEN saved ELSE <<mem>>
    /\ UNCHANGED <<main, system, mem, settingsChanged, task, out, error, begun>>

-----------------------------------------------------------------------------
(* A session.                                                               *)

Start ==
    /\ settingsPc = "off"
    /\ LET loaded == Load(legacy, main)
       IN /\ mem' = loaded.mem /\ settingsChanged' = loaded.changed
          /\ settingsPc' = (IF loaded.migrate THEN "open" ELSE "running")
          /\ task' = (IF loaded.migrate THEN "migrate" ELSE "quit")
    /\ UNCHANGED <<files, out, error, begun, saved>>

Change ==
    /\ settingsPc = "running"
    /\ mem' \in UserSettings /\ settingsChanged' = TRUE
    /\ UNCHANGED <<files, settingsPc, task, out, error, begun, saved>>

Quit ==
    /\ settingsPc = "running"
    /\ settingsPc' = (IF settingsChanged THEN "open" ELSE "off") /\ task' = "quit"
    /\ UNCHANGED <<files, mem, settingsChanged, out, error, begun, saved>>

\* htop is killed, or the machine stops: a line may be written in part.
Crash ==
    /\ settingsPc # "off" /\ settingsPc' = "off"
    /\ IF settingsPc = "write" /\ out # <<>>
       THEN \E cut \in Cuts(Head(out)) : main' = main \o cut
       ELSE UNCHANGED main
    /\ out' = <<>>
    /\ UNCHANGED <<legacy, system, mem, settingsChanged, task, error, begun, saved>>

SettingsNext == Start \/ Change \/ Quit \/ Open \/ WriteLine \/ WriteFails \/ Close \/ Crash

SettingsSpec == SettingsInit /\ [][SettingsNext]_settingsVars

-----------------------------------------------------------------------------
(* Properties.                                                              *)

Lists(f) == \A c \in DOMAIN f : DOMAIN f[c] = {"names", "modes"}

\* The user's settings are in memory with a header; what is still to write is
\* the rest of the settings.
SettingsTypeOK ==
    /\ settingsPc \in {"off", "running", "open", "write"} /\ task \in {"migrate", "quit"}
    /\ settingsChanged \in BOOLEAN /\ error \in BOOLEAN
    /\ DOMAIN mem = {"fields", "option", "columns"} /\ mem.columns # <<>> /\ Lists(mem.columns)
    /\ settingsPc = "write" /\ ~error => main \o out = Lines(mem)
    /\ settingsPc # "write" => out = <<>>

HasMeters(s) == \A c \in DOMAIN s.columns : s.columns[c].names # <<>>

\* Settings that were written without an error are those of the next start, if
\* no legacy file remains and no column is empty.
RoundTrip ==
    saved # <<>> /\ legacy = Absent /\ HasMeters(saved[1]) => Load(legacy, main).mem = saved[1]

\* The legacy file is deleted only when a start without it gives the same
\* settings: a crash or a full disk during the move loses none of them.
MigrationSafe ==
    [][legacy' # legacy => Load(Absent, main') = [mem |-> mem, changed |-> FALSE, migrate |-> FALSE]]_settingsVars

\* However a write was interrupted, the header read from the file is the one
\* that was to be written, or the default one, and never a mixture.
HeaderWhole ==
    /\ SettingsTypeOK
    /\ begun # <<>> /\ main # <<>> => Load(Absent, main).mem.columns \in {begun[1].columns, Defaults.columns}

\* "only settings that cannot be parsed properly are reset to their defaults"
\* (ChangeLog:52): no setting that htop wrote itself is reset, whatever the
\* columns of the header.
OnlyBrokenReset ==
    saved # <<>> /\ legacy = Absent => Load(legacy, main).mem = saved[1]

\* "reads its configuration from the XDG-compliant path" (htop.1.in:572): what
\* was written there is what the next start uses.
WrittenIsRead ==
    saved # <<>> /\ HasMeters(saved[1]) => Load(legacy, main).mem = saved[1]

(****************************************************************************)
(* A file that htop wrote is read back as it was, and one of which only a   *)
(* part was written gives a whole header (Settings.c:38-85, 191-343).       *)
(****************************************************************************)
FilesWhole == RoundTrip /\ HeaderWhole
=============================================================================
