----------------------------- MODULE InfoScreen -----------------------------
(****************************************************************************)
(* The screen that shows lines of text about one process (InfoScreen.c),    *)
(* with the incremental search and filter (IncSet.c).  The panel holds      *)
(* references to some of the lines.  The screens that fill the lines are    *)
(* TraceScreen and SnapshotScreen.                                          *)
(****************************************************************************)
EXTENDS Integers, Sequences, FiniteSets, Community

CONSTANTS
    Chars,       \* the characters of a text; numbers in the order of strcmp
    IncModeMax   \* INCMODE_MAX: the longest text searched for

ASSUME InfoScreenAssumption == Chars \subseteq Nat /\ IncModeMax \in Nat \ {0}

VARIABLES
    value,       \* the list items that exist: item n has the text value[n]
    lines,       \* this->lines, a sequence of items
    panel,       \* this->display->items
    selected,    \* this->display->selected, from 0
    active,      \* inc->active: "none", "search" or "filter"
    buffer,      \* the text of both modes
    filtering,   \* inc->filtering
    found,       \* inc->found
    finding      \* step and i of IncMode_find; step is 0 when it does not run

shown == <<value, lines, panel, selected>>
inc == <<active, buffer, filtering, found, finding>>
screen == <<shown, inc>>

-----------------------------------------------------------------------------
Contains(text, part) ==
    \E i \in 0..Len(text) - Len(part) : SubSeq(text, i + 1, i + Len(part)) = part

Matches(text) == ~filtering \/ Contains(text, buffer.filter)

\* The items that are in keep, in their order.
Only(items, keep) == SX!FoldLeft(LAMBDA s, n : IF n \in keep THEN Append(s, n) ELSE s, <<>>, items)

Panel_setSelected(i, items) ==
    IF i < 0 \/ items = <<>> THEN 0 ELSE IF i >= Len(items) THEN Len(items) - 1 ELSE i

\* A screen is what a fold over new lines works on: [value, lines, panel].
InfoScreen_addLine(s, text) ==
    LET item == Len(s.value) + 1
    IN [s EXCEPT !.value = Append(@, text), !.lines = Append(@, item),
                 !.panel = IF Matches(text) THEN Append(@, item) ELSE @]

\* Only the new part of the line is compared with the filter.
InfoScreen_appendLine(s, text) ==
    LET item == s.lines[Len(s.lines)]
        isShown == s.panel # <<>> /\ s.panel[Len(s.panel)] = item
    IN [s EXCEPT !.value[item] = @ \o text,
                 !.panel = IF filtering /\ ~isShown /\ Contains(text, buffer.filter)
                           THEN Append(@, item) ELSE @]

\* IncMode_find does not run, and a key can be taken.
NotFinding == [step |-> 0, at |-> 0]
Waits == finding.step = 0

InfoScreen_init ==
    /\ value = <<>> /\ lines = <<>> /\ panel = <<>> /\ selected = 0
    /\ active = "none" /\ buffer = [search |-> <<>>, filter |-> <<>>]
    /\ filtering = FALSE /\ found = FALSE /\ finding = NotFinding

-----------------------------------------------------------------------------
(* IncSet_handleKey, for the keys that the active mode takes.               *)

Hits(text) == {i \in DOMAIN panel : Contains(value[panel[i]], text)}

\* Where search leaves the selection.
Search(text) ==
    IF Hits(text) = {} THEN selected ELSE (CHOOSE i \in Hits(text) : \A j \in Hits(text) : i <= j) - 1

\* The panel shows the lines that pass the filter; the selection stays on its
\* line (the one search has just selected), or goes to the first.
UpdateWeakPanel(on, text, sel) ==
    /\ panel' = Only(lines, {n \in DOMAIN value : ~on \/ Contains(value[n], text)})
    /\ selected' = IF panel # <<>> /\ SX!Contains(panel', panel[sel + 1])
                   THEN (CHOOSE i \in DOMAIN panel' : panel'[i] = panel[sel + 1]) - 1
                   ELSE 0

\* The text of the active mode becomes another one, and is searched for.
NewText(text) ==
    /\ buffer' = [buffer EXCEPT ![active] = text]
    /\ found' = (Hits(text) # {})
    /\ IF active = "filter"
       THEN /\ filtering' = (text # <<>>)
            /\ UpdateWeakPanel(text # <<>>, text, Search(text))
       ELSE selected' = Search(text) /\ UNCHANGED <<panel, filtering>>
    /\ UNCHANGED <<value, lines, active, finding>>

TypeChar(c) ==
    /\ active # "none" /\ Len(buffer[active]) < IncModeMax
    /\ NewText(Append(buffer[active], c))

\* There is no room for the character; the text is searched for again.
TypeFull ==
    /\ active # "none" /\ Len(buffer[active]) = IncModeMax
    /\ selected' = Search(buffer[active]) /\ found' = (Hits(buffer[active]) # {})
    /\ UNCHANGED <<value, lines, panel, active, buffer, filtering, finding>>

Backspace ==
    /\ active # "none" /\ buffer[active] # <<>>
    /\ NewText(SX!Front(buffer[active]))

\* F3 and Shift-F3: IncMode_find starts at the cursor.
FindKey(step) ==
    /\ active # "none" /\ panel # <<>>
    /\ finding' = [step |-> step, at |-> selected]
    /\ UNCHANGED <<shown, active, buffer, filtering, found>>

\* From either end of the panel to the other.
Around(i) == IF i = Len(panel) THEN 0 ELSE IF i = -1 THEN Len(panel) - 1 ELSE i

\* Mutant: the search goes on past the cursor.
IncMode_find_Endless ==
    /\ ~Waits
    /\ LET i == Around(finding.at + finding.step)
       IN IF i + 1 \in Hits(buffer[active]) THEN finding' = NotFinding /\ selected' = i
          ELSE finding' = [finding EXCEPT !.at = i] /\ UNCHANGED selected
    /\ UNCHANGED <<value, lines, panel, active, buffer, filtering, found>>

\* One pass of its loop: it ends back at the cursor, or on a line that matches.
IncMode_find ==
    /\ ~Waits
    /\ LET i == Around(finding.at + finding.step)
       IN \/ i = selected /\ finding' = NotFinding /\ UNCHANGED selected
          \/ i # selected /\ i + 1 \in Hits(buffer[active]) /\ finding' = NotFinding /\ selected' = i
          \/ i # selected /\ i + 1 \notin Hits(buffer[active])
             /\ finding' = [finding EXCEPT !.at = i] /\ UNCHANGED selected
    /\ UNCHANGED <<value, lines, panel, active, buffer, filtering, found>>

\* KEY_RESIZE only searches again while a mode is active.
ResizeActive ==
    /\ active # "none" /\ buffer[active] # <<>>
    /\ selected' = Search(buffer[active]) /\ found' = (Hits(buffer[active]) # {})
    /\ UNCHANGED <<value, lines, panel, active, buffer, filtering, finding>>

\* Any other key ends the mode; sel is where the selection was.
CloseMode(text, sel) ==
    /\ active # "none" /\ active' = "none"
    /\ buffer' = [buffer EXCEPT ![active] = text]
    /\ IF active = "filter"
       THEN /\ filtering' = (filtering /\ text # <<>>)
            /\ UpdateWeakPanel(filtering', text, sel)
       ELSE selected' = sel /\ UNCHANGED <<panel, filtering>>
    /\ UNCHANGED <<value, lines, found, finding>>

Enter == active # "none" /\ CloseMode(buffer[active], selected)
Escape == CloseMode(<<>>, selected)

-----------------------------------------------------------------------------
(* InfoScreen_run                                                           *)

IncSet_activate(mode) ==
    /\ active = "none" /\ active' = mode
    /\ UNCHANGED <<shown, buffer, filtering, found, finding>>

\* A click on a row, which may be beyond the lines, also ends the active mode.
Click(row) ==
    /\ Waits
    /\ LET sel == Panel_setSelected(row, panel)
       IN IF active # "none" THEN CloseMode(buffer[active], sel)
          ELSE selected' = sel /\ UNCHANGED <<value, lines, panel, inc>>

\* Panel_onKey: the keys that move the selection.
MoveSelection(step) ==
    /\ Waits /\ active = "none"
    /\ selected' = Panel_setSelected(selected + step, panel)
    /\ UNCHANGED <<value, lines, panel, inc>>

\* What the user may do on every such screen; the keys of Panel_onKey and the
\* mouse are passed on, so that TraceScreen can add what it does for them.
IncKeys ==
    /\ Waits
    /\ \/ \E c \in Chars : TypeChar(c)
       \/ TypeFull \/ Backspace \/ Enter \/ Escape \/ ResizeActive
       \/ \E step \in {1, -1} : FindKey(step)
       \/ \E mode \in {"search", "filter"} : IncSet_activate(mode)

-----------------------------------------------------------------------------
(* Properties of every screen.                                              *)

ScreenTypeOK ==
    /\ value \in Seq(Seq(Chars))
    /\ selected \in Nat /\ active \in {"none", "search", "filter"}
    /\ \A mode \in DOMAIN buffer : Len(buffer[mode]) <= IncModeMax
    /\ filtering = (buffer.filter # <<>>) /\ found \in BOOLEAN
    /\ selected <= (IF panel = <<>> THEN 0 ELSE Len(panel) - 1)
    /\ \/ finding = NotFinding
       \/ finding \in [step : {1, -1}, at : 0..Len(panel) - 1] /\ active # "none"

\* The panel shows lines that pass the filter, in their order and once each,
\* and all of them if there is no filter.
PanelSound ==
    /\ \A i \in DOMAIN panel : Matches(value[panel[i]])
    /\ \A i, j \in DOMAIN panel : i < j =>
          \E k, l \in DOMAIN lines : k < l /\ lines[k] = panel[i] /\ lines[l] = panel[j]
    /\ ~filtering => panel = lines

\* When the panel changes with the filter, the cursor stays on its line if that
\* is still shown; only a click moves it, to the line clicked on, or the text
\* typed, to the first line of the old panel that matches.
SelectionFollows ==
    [][active = "filter" /\ panel # <<>> /\ panel' # panel /\ value' = value
         => LET before == panel[selected + 1]
                now == panel'[selected' + 1]
            IN SX!Contains(panel', before) /\ now # before
               => \/ /\ active' = "filter"
                     /\ \E i \in DOMAIN panel : /\ panel[i] = now
                                               /\ \A j \in 1..i - 1 : ~Contains(value[panel[j]], buffer'.filter)
                  \/ \E row \in -1..Len(panel) :
                        Click(row) /\ now = panel[Panel_setSelected(row, panel) + 1]]_screen

\* The lines from the cursor to row i in the direction of the search.
Away(i) == ((i - selected) * finding.step) % Len(panel)

\* F3 pressed again and again visits every line that matches: it goes to a match
\* and skips none between, and stays only if no other line matches.
FindSkipsNone ==
    [][~Waits /\ Waits' =>
         LET others == Hits(buffer[active]) \ {selected + 1}
         IN IF selected' = selected THEN others = {}
            ELSE /\ selected' + 1 \in others
                 /\ \A i \in others : Away(i - 1) >= Away(selected')]_screen

\* The search does not go round the panel for ever: each line looked at that
\* does not match is one further away, of as many as there are in the panel.
FindEnds == [][~Waits /\ ~Waits' => Away(finding.at)' > Away(finding.at)]_screen

\* The cursor moves as the keys of filter and search say, and by nothing else.
CursorSound == SelectionFollows /\ FindSkipsNone /\ FindEnds
=============================================================================
