--------------------------- MODULE SnapshotScreen ---------------------------
(****************************************************************************)
(* The screens that show a list read at one moment: the environment, the    *)
(* file locks and the open files of a process (EnvScreen.c,                 *)
(* ProcessLocksScreen.c, OpenFilesScreen.c).  F5 and a resize read it again.*)
(****************************************************************************)
EXTENDS InfoScreen

CONSTANTS
    Lists,       \* the lists that there may be to read, sequences of texts
    Message,     \* the line shown instead of a list
    MaxReads     \* bound: how often the list is read again

ASSUME SnapshotAssumption == Lists \subseteq Seq(Seq(Chars)) /\ Message \in Seq(Chars) /\ MaxReads \in Nat

VARIABLES
    kind,        \* which of the screens it is
    result,      \* what reading gives now: the list and how it ended
    snapshot,    \* the list that was to be shown at the last reading (history)
    reads        \* the number of readings

snapshotVars == <<screen, kind, result, snapshot, reads>>

\* How reading may end: Platform_getProcessEnv, Platform_getProcessLocks, or
\* lsof with what its exit status says.
Endings == [env   |-> {"ok", "failed"},
            locks |-> {"ok", "failed", "unsupported"},
            files |-> {"ok", "failed", "missing", "incomplete"}]

Results(k) == [list : Lists, ending : Endings[k]]

\* EnvScreen_scan, ProcessLocksScreen_scan, OpenFilesScreen_scan: the lines.
EnvScreen_lines(r) == IF r.ending = "ok" THEN r.list ELSE <<Message>>

ProcessLocksScreen_lines(r) ==
    IF r.ending = "ok" /\ r.list # <<>> THEN r.list ELSE <<Message>>

\* Exit statuses other than 1 and 127 are as good as 0.
OpenFilesScreen_lines(r) ==
    IF r.ending \in {"ok", "incomplete"} THEN r.list ELSE <<Message>>

Lines(k, r) == CASE k = "env"   -> EnvScreen_lines(r)
                 [] k = "locks" -> ProcessLocksScreen_lines(r)
                 [] k = "files" -> OpenFilesScreen_lines(r)

\* strcmp(a, b) < 0: the first difference, which may be the end of a.
Less(a, b) ==
    \E i \in 1..Len(b) : /\ i <= Len(a) + 1 /\ \A j \in 1..i - 1 : a[j] = b[j]
                         /\ i = Len(a) + 1 \/ a[i] < b[i]

\* The order of items that are read one after the other.
Precedes(texts, m, n) == Less(texts[m], texts[n]) \/ (texts[m] = texts[n] /\ m < n)

\* Vector_insertionSort of items, which is stable: each item is put where as many
\* are before it as come before it in the order.
Sorted(items, texts) ==
    LET place(m) == Cardinality({n \in SX!Range(items) : Precedes(texts, n, m)})
    IN [i \in DOMAIN items |-> CHOOSE m \in SX!Range(items) : place(m) = i - 1]

\* Mutant: the lines of before are still there.
Scan_Add(r) ==
    LET s == SX!FoldLeft(InfoScreen_addLine, [value |-> value, lines |-> lines, panel |-> <<>>], Lines(kind, r))
    IN /\ value' = s.value /\ lines' = Sorted(s.lines, s.value) /\ panel' = Sorted(s.panel, s.value)
       /\ selected' = Panel_setSelected(selected, s.panel)

\* Lines and panel are emptied, filled in the order read, and both sorted.
Scan(r) ==
    LET s == SX!FoldLeft(InfoScreen_addLine, [value |-> <<>>, lines |-> <<>>, panel |-> <<>>], Lines(kind, r))
    IN /\ value' = s.value /\ lines' = Sorted(s.lines, s.value) /\ panel' = Sorted(s.panel, s.value)
       /\ selected' = Panel_setSelected(selected, s.panel)

\* The screen is about to be opened: the first reading is still to come.
SnapshotInit ==
    /\ InfoScreen_init
    /\ kind \in DOMAIN Endings /\ result \in Results(kind)
    /\ snapshot = <<>> /\ reads = 0

\* The first reading, F5, or a resize while no mode is active.
Read ==
    /\ Waits /\ active = "none" /\ reads <= MaxReads
    /\ Scan(result)
    /\ snapshot' = Lines(kind, result) /\ reads' = reads + 1
    /\ UNCHANGED <<inc, kind, result>>

\* What there is to read changes.
WorldChanges ==
    /\ result' \in Results(kind)
    /\ UNCHANGED <<screen, kind, snapshot, reads>>

Key ==
    /\ reads > 0
    /\ \/ IncKeys
       \/ \E step \in {1, -1} : MoveSelection(step)
       \/ \E row \in -1..Len(panel) : Click(row)
    /\ UNCHANGED <<kind, result, snapshot, reads>>

ListFind == IncMode_find /\ UNCHANGED <<kind, result, snapshot, reads>>

SnapshotNext == Read \/ WorldChanges \/ Key \/ ListFind

SnapshotSpec == SnapshotInit /\ [][SnapshotNext]_snapshotVars

-----------------------------------------------------------------------------
(* Properties.                                                              *)

SnapshotTypeOK ==
    /\ ScreenTypeOK
    /\ kind \in DOMAIN Endings /\ result \in Results(kind) /\ reads \in 0..MaxReads + 1

Occurrences(texts, t) == Cardinality({i \in DOMAIN texts : texts[i] = t})

\* The panel shows the lines read last that pass the filter of now, each as
\* often as it was read, in their order, and nothing that was read earlier.
ShowsSnapshot ==
    LET texts == [i \in DOMAIN panel |-> value[panel[i]]]
    IN reads > 0 =>
       /\ SnapshotTypeOK
       /\ \A t \in SX!Range(texts) \cup SX!Range(snapshot) :
             Occurrences(texts, t) = (IF Matches(t) THEN Occurrences(snapshot, t) ELSE 0)
       /\ \A i \in 1..Len(texts) - 1 : ~Less(texts[i + 1], texts[i])

=============================================================================
