---------------------------- MODULE TraceScreen ----------------------------
(****************************************************************************)
(* Tracing a process with strace (TraceScreen.c): the child process writes  *)
(* into a pipe, stdio reads ahead of what the screen asks for, and pieces   *)
(* of lines are put together on the screen of InfoScreen.                   *)
(****************************************************************************)
EXTENDS InfoScreen

CONSTANTS
    PipeSize,    \* what the pipe can hold
    StdioSize,   \* what stdio reads from the pipe at once
    ChunkSize,   \* sizeof(buffer) - 1 in TraceScreen_updateTrace
    MaxOutput    \* bound: the length of strace's output

ASSUME TraceAssumption ==
    {PipeSize, StdioSize, ChunkSize, MaxOutput} \subseteq Nat \ {0} /\ ChunkSize < StdioSize

NewLine == 0
ASSUME NewLineAssumption == NewLine \notin Chars

VARIABLES
    pc,          \* "start", "open", "closing" or "closed"
    child,       \* strace: "none", "running" or "exited"
    output,      \* all it has written (history)
    pipe,        \* what is in the pipe
    stdio,       \* what is in the buffer of the FILE this->strace
    tracing, follow, contLine,
    gap,         \* output was dropped, by the pipe or the user (history)
    lastOfNone   \* the last line of an empty panel was asked for (history)

trace == <<pc, child, output, pipe, stdio, tracing, follow, contLine, gap, lastOfNone>>
traceVars == <<screen, trace>>

TraceInit ==
    /\ InfoScreen_init
    /\ pc = "start" /\ child = "none" /\ output = <<>> /\ pipe = <<>> /\ stdio = <<>>
    /\ tracing = TRUE /\ follow = FALSE /\ contLine = FALSE
    /\ gap = FALSE /\ lastOfNone = FALSE

\* Without a pipe, a child or a FILE the screen is not shown; in the last case
\* the child runs on and is not waited for.
TraceScreen_forkTracer ==
    /\ pc = "start"
    /\ \/ pc' = "open" /\ child' = "running"
       \/ pc' = "closed" /\ child' \in {"none", "running"}
    /\ UNCHANGED <<screen, output, pipe, stdio, tracing, follow, contLine, gap, lastOfNone>>

-----------------------------------------------------------------------------
(* strace                                                                   *)

\* The pipe does not block its writer: what does not fit is lost.
StraceWrites(c) ==
    /\ pc = "open" /\ child = "running" /\ Len(output) < MaxOutput
    /\ output' = Append(output, c)
    /\ IF Len(pipe) < PipeSize THEN pipe' = Append(pipe, c) /\ UNCHANGED gap
       ELSE gap' = TRUE /\ UNCHANGED pipe
    /\ UNCHANGED <<screen, pc, child, stdio, tracing, follow, contLine, lastOfNone>>

StraceExits ==
    /\ pc \in {"open", "closing"} /\ child = "running" /\ child' = "exited"
    /\ UNCHANGED <<screen, pc, output, pipe, stdio, tracing, follow, contLine, gap, lastOfNone>>

-----------------------------------------------------------------------------
(* TraceScreen_updateTrace: getch found no key.                             *)

\* fread: from the buffer of stdio, which is filled when it runs out.
least(a, b) == IF a < b THEN a ELSE b
Refill == IF Len(stdio) >= ChunkSize THEN 0 ELSE least(StdioSize, Len(pipe))
Available == stdio \o SubSeq(pipe, 1, Refill)
Chunk == SubSeq(Available, 1, least(ChunkSize, Len(Available)))

\* The rest of the chunk is a line, even if it continues an unfinished one.
LastPiece(s) ==
    IF s.piece = <<>> THEN s
    ELSE [InfoScreen_addLine(s, s.piece) EXCEPT !.piece = <<>>, !.contLine = TRUE]

\* A newline ends a line: an unfinished one is continued, or a new one added.
ReadChar(s, c) ==
    IF c # NewLine THEN [s EXCEPT !.piece = Append(@, c)]
    ELSE [IF s.contLine THEN InfoScreen_appendLine(s, s.piece) ELSE InfoScreen_addLine(s, s.piece)
          EXCEPT !.piece = <<>>, !.contLine = FALSE]

ShowChunk ==
    LET s == LastPiece(SX!FoldLeft(ReadChar,
                 [value |-> value, lines |-> lines, panel |-> panel, piece |-> <<>>,
                  contLine |-> contLine], Chunk))
    IN /\ value' = s.value /\ lines' = s.lines /\ panel' = s.panel /\ contLine' = s.contLine
       /\ selected' = IF follow THEN Panel_setSelected(Len(s.panel) - 1, s.panel) ELSE selected
       \* appendLine compares with the last line of the panel, whether there is one
       /\ lastOfNone' = (lastOfNone \/ (contLine /\ filtering /\ panel = <<>> /\ SX!Contains(Chunk, NewLine)))

\* Mutant: once strace has ended, what stdio holds is not looked at.
TraceScreen_updateTrace_NoEnd ==
    /\ pc = "open" /\ Waits /\ pipe # <<>> /\ Chunk # <<>>
    /\ pipe' = SubSeq(pipe, Refill + 1, Len(pipe))
    /\ stdio' = SubSeq(Available, Len(Chunk) + 1, Len(Available))
    /\ IF tracing THEN ShowChunk /\ UNCHANGED gap
       ELSE gap' = TRUE /\ UNCHANGED <<shown, contLine, lastOfNone>>
    /\ UNCHANGED <<inc, pc, child, output, tracing, follow>>

\* select reports a pipe that holds something, or that is closed.
TraceScreen_updateTrace ==
    /\ pc = "open" /\ Waits /\ (pipe # <<>> \/ child = "exited") /\ Chunk # <<>>
    /\ pipe' = SubSeq(pipe, Refill + 1, Len(pipe))
    /\ stdio' = SubSeq(Available, Len(Chunk) + 1, Len(Available))
    /\ IF tracing THEN ShowChunk /\ UNCHANGED gap
       ELSE gap' = TRUE /\ UNCHANGED <<shown, contLine, lastOfNone>>
    /\ UNCHANGED <<inc, pc, child, output, tracing, follow>>

-----------------------------------------------------------------------------
(* Keys.  The keys of IncSet leave follow alone while a mode is active.     *)

ToggleFollow ==
    /\ pc = "open" /\ Waits /\ active = "none" /\ follow' = ~follow
    /\ selected' = IF follow THEN selected ELSE Panel_setSelected(Len(panel) - 1, panel)
    /\ UNCHANGED <<value, lines, panel, inc, pc, child, output, pipe, stdio, tracing, contLine, gap, lastOfNone>>

ToggleTracing ==
    /\ pc = "open" /\ Waits /\ active = "none" /\ tracing' = ~tracing
    /\ UNCHANGED <<screen, pc, child, output, pipe, stdio, follow, contLine, gap, lastOfNone>>

IncKey ==
    /\ pc = "open" /\ IncKeys
    /\ UNCHANGED trace

TraceFind == IncMode_find /\ UNCHANGED trace

OtherKey ==
    /\ pc = "open"
    /\ \/ \E step \in {1, -1} : MoveSelection(step)
       \/ \E row \in -1..Len(panel) : Click(row)
    /\ follow' = (follow /\ active # "none")
    /\ UNCHANGED <<pc, child, output, pipe, stdio, tracing, contLine, gap, lastOfNone>>

\* The screen is left: TraceScreen_delete sends SIGTERM and waits for the child.
Leave ==
    /\ pc = "open" /\ Waits /\ active = "none" /\ pc' = "closing"
    /\ UNCHANGED <<screen, child, output, pipe, stdio, tracing, follow, contLine, gap, lastOfNone>>

Deleted ==
    /\ pc = "closing" /\ child = "exited" /\ pc' = "closed"
    /\ UNCHANGED <<screen, child, output, pipe, stdio, tracing, follow, contLine, gap, lastOfNone>>

TraceNext ==
    \/ TraceScreen_forkTracer \/ StraceExits \/ (\E c \in Chars \cup {NewLine} : StraceWrites(c))
    \/ TraceScreen_updateTrace \/ ToggleFollow \/ ToggleTracing \/ IncKey \/ TraceFind \/ OtherKey
    \/ Leave \/ Deleted

\* getch does not wait, so it finds no key again and again, and updateTrace runs,
\* also when F3 is pressed between; the loop of a search runs on; strace ends
\* when it is told to, and then waitpid returns.
TraceFairness ==
    /\ SF_traceVars(TraceScreen_updateTrace) /\ WF_traceVars(Deleted) /\ WF_traceVars(TraceFind)
    /\ WF_traceVars(StraceExits /\ pc = "closing")

TraceSpec == TraceInit /\ [][TraceNext]_traceVars
FairTraceSpec == TraceSpec /\ TraceFairness

-----------------------------------------------------------------------------
(* Properties.                                                              *)

TraceTypeOK ==
    /\ ScreenTypeOK
    /\ pc \in {"start", "open", "closing", "closed"} /\ child \in {"none", "running", "exited"}
    /\ Len(pipe) <= PipeSize /\ Len(stdio) <= StdioSize
    /\ {tracing, follow, contLine, gap, lastOfNone} \subseteq BOOLEAN

Text(s) == Only(s, Chars)

\* As long as nothing was dropped, the lines hold the output of strace in its
\* order, nothing twice and nothing left out, up to what is still to be read;
\* no line is made of two lines of the output, and the panel shows the lines
\* that the filter lets pass.
NothingLost ==
    /\ TraceTypeOK /\ PanelSound
    /\ pc # "start" /\ ~gap =>
          /\ Text(output) = SX!FlattenSeq(value) \o Text(stdio \o pipe)
          /\ \A i \in DOMAIN value : Contains(output, value[i])

\* All that an ended strace has written is read, a screen that is left is gone,
\* and the search that was begun came back.
Settled ==
    /\ pc = "open" /\ child = "exited" => pipe = <<>> /\ stdio = <<>>
    /\ pc # "closing"
    /\ Waits

\* Neither the output, the end of the child nor a search is waited for in vain.
NothingHeldBack == []<>Settled

\* "presenting a live update of system calls issued by the process"
\* (htop.1.in:142): what strace writes is shown, without waiting for more.
LiveUpdate == []<>((pipe = <<>> /\ stdio = <<>>) \/ pc # "open")

\* Vector_get(this, idx) asserts "idx >= 0 && idx < this->items" (Vector.c:75).
NoAssertionFails == ~lastOfNone

(****************************************************************************)
(* The output of strace is shown in its order and whole, and neither it,    *)
(* the end of the child nor a search in it is waited for in vain            *)
(* (TraceScreen.c:61-181, IncSet.c:127-149).                                *)
(****************************************************************************)
OutputShown == []NothingLost /\ NothingHeldBack
=============================================================================
