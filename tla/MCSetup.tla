------------------------------ MODULE MCSetup ------------------------------
(****************************************************************************)
(* Instances of what the user edits and htop keeps: the header and the other*)
(* pages of the setup, the files the settings are kept in, and the CPUs of a*)
(* process.  A behaviour is about one of them, the subject.                 *)
(*                                                                          *)
(* HeaderSetup: two meters, a one-line text style and a two-line style, and *)
(* headers of two and three columns.                                        *)
(* SetupPanels: four columns of the process table, 1 of them the command,   *)
(* and one of the configuration; numbers that begin in and out of range.    *)
(* Settings: the user may have two or three columns, one of them empty;     *)
(* files of other versions and of editors lack lines, have lists of         *)
(* different lengths, name columns that do not exist, or are for a newer    *)
(* htop.                                                                    *)
(* AffinityPanel: four CPUs in two packages, and numbers of three bits.     *)
(****************************************************************************)
EXTENDS HeaderSetup, SetupPanels, Settings, AffinityPanel, TLC

VARIABLE subject

CONSTANTS m1, m2
TheMeters == {m1, m2}
Alike == Permutations(TheMeters)
TheModes == <<[h |-> 1, text |-> TRUE], [h |-> 2, text |-> FALSE]>>
TheLayouts == {2, 3}

TheFieldFlags == 1 :> {} @@ 2 :> {"io"} @@ 3 :> {"smaps"} @@ 4 :> {"io", "cwd"}
TheFirstFields == {<<>>, <<1>>, <<2, 1>>, <<3, 2, 1>>, <<2, 9, 1>>}
TheNumbers == [delay |-> [min |-> 1, max |-> 4, first |-> {1, 3}],
               hideFunctionBar |-> [min |-> 0, max |-> 2, first |-> {0, 5}]]

CONSTANTS cpu, mem0, tasks
Col(names, modes) == [names |-> names, modes |-> modes]
TheNames == {cpu, mem0, tasks, Broken}
TheDefaults ==
    [fields |-> <<1, 2>>, option |-> 0, columns |-> <<Col(<<cpu>>, <<1>>), Col(<<tasks>>, <<2>>)>>]
TheUserSettings ==
    {[fields |-> <<2, 1, 3>>, option |-> 1, columns |-> <<Col(<<cpu, mem0>>, <<1, 3>>), Col(<<tasks>>, <<1>>)>>],
     [fields |-> <<3>>, option |-> 0,
      columns |-> <<Col(<<mem0>>, <<1>>), Col(<<tasks>>, <<1>>), Col(<<cpu, cpu>>, <<2, 2>>)>>],
     [fields |-> <<1>>, option |-> 1, columns |-> <<Col(<<cpu>>, <<4>>), NoMeters>>]}
TheOtherFiles ==
    {<<>>,
     <<Line("version", 0, <<3>>), Line("option", 0, <<1>>)>>,
     \* two columns without a layout line
     <<Line("fields", 0, <<2>>), Line("meters", 1, <<mem0>>), Line("meters", 2, <<cpu>>),
       Line("modes", 1, <<2>>), Line("modes", 2, <<1>>)>>,
     \* the third column takes the place of the second
     <<Line("option", 0, <<1>>), Line("meters", 1, <<mem0>>), Line("modes", 1, <<2>>),
       Line("meters", 2, <<cpu>>), Line("modes", 2, <<1>>), Line("meters", 3, <<cpu, tasks>>)>>,
     <<Line("layout", 0, <<3>>), Line("meters", 1, <<mem0>>), Line("modes", 1, <<2>>)>>}

Node(cpus, children) == [cpus |-> cpus, children |-> children]
TheTopology == <<Node(0 .. 3, <<2, 5>>), Node({0, 1}, <<3, 4>>), Node({0}, <<>>), Node({1}, <<>>),
                 Node({2, 3}, <<6, 7>>), Node({2}, <<>>), Node({3}, <<>>)>>

\* Those that are not the subject stay in one of their initial states.
MCInit ==
    /\ subject \in {"header", "pages", "files", "affinity"}
    /\ IF subject = "header" THEN HeaderInit
       ELSE mode = [m \in Meter |-> 1] /\ columns = <<<<>>, <<>>>> /\ HeaderInit
    /\ IF subject = "pages" THEN SetupInit
       ELSE /\ shownFields = <<>> /\ scheme = 0 /\ hasColors = TRUE
            /\ numbers = [o \in DOMAIN Numbers |-> IF o = "delay" THEN 1 ELSE 0] /\ SetupInit
    /\ IF subject = "files" THEN SettingsInit ELSE legacy = Absent /\ main = Absent /\ system = Absent /\ SettingsInit
    /\ IF subject = "affinity" THEN AffinityInit ELSE build = "sched" /\ cpusOn = {0} /\ allowed = {0} /\ AffinityInit

MCNext ==
    /\ \/ subject = "header" /\ HeaderNext /\ UNCHANGED <<setupVars, settingsVars, affinityVars>>
       \/ subject = "pages" /\ SetupNext /\ UNCHANGED <<headerSetupVars, settingsVars, affinityVars>>
       \/ subject = "files" /\ SettingsNext /\ UNCHANGED <<headerSetupVars, setupVars, affinityVars>>
       \/ subject = "affinity" /\ AffinityNext /\ UNCHANGED <<headerSetupVars, setupVars, settingsVars>>
    /\ UNCHANGED subject

MCSpec == MCInit /\ [][MCNext]_<<headerSetupVars, setupVars, settingsVars, affinityVars, subject>>
=============================================================================
