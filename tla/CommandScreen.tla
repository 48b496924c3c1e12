--------------------------- MODULE CommandScreen ---------------------------
(****************************************************************************)
(* How the command line of a process is cut into lines of the screen's      *)
(* width (CommandScreen.c), one character at each step.                     *)
(****************************************************************************)
EXTENDS Integers, Sequences, Community

CONSTANTS
    Cols,        \* COLS, the width of the screen
    MaxCommand   \* bound: the length of the command

ASSUME CommandAssumption == Cols \in Nat \ {0} /\ MaxCommand \in Nat

\* The characters of a command.
Space == "space"
CommandChars == {Space, "a", "b"}
Commands == UNION {[1..n -> CommandChars] : n \in 0..MaxCommand}

VARIABLES
    command,     \* what there is to show
    p,           \* how much of it was looked at
    line,        \* line[0 .. line_offset - 1]
    last_spc,    \* the offset of the last space in it, or -1
    wrapped,     \* the lines shown
    wrapping     \* "loop", "done", or "overrun" when line is too short

commandVars == <<command, p, line, last_spc, wrapped, wrapping>>

CommandInit ==
    /\ command \in Commands
    /\ p = 0 /\ line = <<>> /\ last_spc = -1 /\ wrapped = <<>> /\ wrapping = "loop"

line_offset == Len(line)

\* The line is full: what comes before its last space is shown, if it has one,
\* and the rest starts the next line.
Break(text, space) ==
    LET len == IF space = -1 THEN Cols ELSE space
    IN /\ wrapped' = Append(wrapped, SubSeq(text, 1, len))
       /\ line' = SubSeq(text, len + 1, Len(text))

\* Mutant: the space of the line before is taken for one of this line.
Step_Stale ==
    /\ wrapping = "loop" /\ p < Len(command) /\ line_offset <= Cols
    /\ LET c == command[p + 1]
           text == Append(line, c)
           space == IF c = Space THEN line_offset ELSE last_spc
       IN /\ IF line_offset = Cols THEN Break(text, space) ELSE line' = text /\ UNCHANGED wrapped
          /\ last_spc' = space
    /\ p' = p + 1
    /\ UNCHANGED <<wrapping, command>>

\* line has room for Cols + 1 characters, and the loop breaks it at this offset
\* only; after a break at a space that is the first of the line, it is too long.
Step ==
    /\ wrapping = "loop" /\ p < Len(command)
    /\ IF line_offset > Cols THEN wrapping' = "overrun" /\ UNCHANGED <<p, line, last_spc, wrapped>>
       ELSE LET c == command[p + 1]
                text == Append(line, c)
                space == IF c = Space THEN line_offset ELSE last_spc
            IN /\ p' = p + 1
               /\ IF line_offset = Cols THEN Break(text, space) /\ last_spc' = -1
                  ELSE line' = text /\ last_spc' = space /\ UNCHANGED wrapped
               /\ UNCHANGED wrapping
    /\ UNCHANGED command

\* The last line is ended by a zero, for which there must be room, too.
End ==
    /\ wrapping = "loop" /\ p = Len(command)
    /\ IF line_offset > Cols THEN wrapping' = "overrun" /\ UNCHANGED wrapped
       ELSE /\ wrapping' = "done"
            /\ wrapped' = IF line_offset > 0 THEN Append(wrapped, line) ELSE wrapped
    /\ UNCHANGED <<command, p, line, last_spc>>

CommandNext == Step \/ End

CommandSpec == CommandInit /\ [][CommandNext]_commandVars

-----------------------------------------------------------------------------
(* Properties.                                                              *)

\* The lines put together are the command: wrapping loses and doubles nothing.
TextKept ==
    wrapping # "overrun" =>
        SX!FlattenSeq(wrapped) \o (IF wrapping = "done" THEN <<>> ELSE line) = SubSeq(command, 1, p)

\* Lines fit the screen, and one that is shorter than it ends where a word
\* ends; together they are the command, of which wrapping loses nothing.
WrapsAtSpaces ==
    /\ TextKept
    /\ \A i \in DOMAIN wrapped :
          /\ Len(wrapped[i]) <= Cols
          /\ i < Len(wrapped) /\ Len(wrapped[i]) < Cols =>
                wrapped[i + 1] # <<>> /\ wrapped[i + 1][1] = Space

\* "assert(line_offset >= 0 && (size_t)line_offset < sizeof(line))"
\* (CommandScreen.c:23): a character of the command always has room in line.
LineFits == ~(wrapping = "overrun" /\ p < Len(command))
=============================================================================
