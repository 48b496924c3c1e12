---------------------------- MODULE MeterDrawing ----------------------------
(****************************************************************************)
(* Two of the ways a meter is drawn (Meter.c): the bar, which is divided    *)
(* among the values and has a text at its right end, and the graph, which   *)
(* remembers a value per delay.  The list is scanned, and the header drawn, *)
(* at any times; the clock may be set.                                      *)
(****************************************************************************)
EXTENDS Integers, Sequences, FiniteSets
LOCAL SX == INSTANCE SequencesExt
LOCAL FX == INSTANCE FiniteSetsExt

CONSTANTS
    BarWidths, BarTotals, BarValues, BarTexts, \* the bars looked at; a text is a sequence of "x" and " "
    GraphData,       \* METER_GRAPHDATA_SIZE
    GraphWidths,
    GraphLevels,     \* the values of the graph's meter
    GRAPH_HEIGHT, PIXPERROW,
    Delays,          \* values of the setting
    GraphSteps,      \* by how much the clock moves between two scans
    MaxGraphSteps    \* bound: scans, drawings and settings
ASSUME MeterDrawingAssumption ==
    /\ BarWidths \subseteq Int /\ BarTotals \subseteq Nat \ {0} /\ BarValues \subseteq Int
    /\ GraphData \in Nat \ {0} /\ GraphData % 2 = 0
    /\ {GRAPH_HEIGHT, PIXPERROW} \subseteq Nat \ {0} /\ MaxGraphSteps \in Nat

VARIABLES
    bar,          \* the last bar drawn: what it was given, and its cells
    realtime, level, delay, \* the list's clock, the meter's value, the setting
    graphData,    \* GraphData: time and values
    graph,        \* the last graph drawn: its width, and of each column the heights of two values, in lines
    graphSteps,
    samples       \* history: when each value was taken that the graph has, with the delay of then
drawingVars == <<bar, realtime, level, delay, graphData, graph, graphSteps, samples>>

Clamp(x, low, high) == IF x > high THEN high ELSE IF x > low THEN x ELSE low
Ceiling(a, b) == (a + b - 1) \div b
SumTo(s, n) == SX!FoldLeft(LAMBDA sum, v : sum + v, 0, SubSeq(s, 1, n))

(****************************************************************************)
(* The bar.                                                                 *)
(****************************************************************************)
\* Where in blanks and text the bar begins: a text that is too long is cut at its
\* last blank that leaves it short enough.
Blank(s, i) == s[i + 1] = " "
StartPos(buffer, w) ==
    LET length == Len(buffer) - w
        Cuts == {pos \in w + 1 .. 2 * w : Blank(buffer, pos)}
        Stripped(pos) == FX!Max({w} \cup {p \in w + 1 .. pos : ~Blank(buffer, p - 1)})
    IN  IF length <= w THEN length
        ELSE IF Cuts = {} THEN w ELSE Stripped(FX!Max(Cuts)) - w

BlockSize_Floor(value, total, w) == (Clamp(value, 0, total) * w) \div total
BlockSize(value, total, w) ==
    LET v == Clamp(value, 0, total) IN IF v > 0 THEN Ceiling(v * w, total) ELSE 0

\* Each block begins where the one before ended, or at the end of the bar.
Offset(values, total, w, i) ==
    SX!FoldLeft(LAMBDA offset, v : Clamp(offset + BlockSize(v, total, w), 0, w), 0, SubSeq(values, 1, i - 1))
Block(values, total, w, i) == Offset(values, total, w, i) .. Offset(values, total, w, i + 1) - 1

\* Marks are drawn into the blanks; then each block is printed in its colour (0 is
\* the shadow).
BarMeterMode_draw(values, total, text, w) ==
    LET buffer == [i \in 1 .. w |-> " "] \o text
        start == StartPos(buffer, w)
        Blocks(j) == {i \in DOMAIN values : j \in Block(values, total, w, i)}
    IN  [j \in 0 .. w - 1 |->
           [text |-> IF Blank(buffer, start + j) /\ Blocks(j) # {} THEN "|" ELSE buffer[start + j + 1],
            colour |-> IF Blocks(j) = {} THEN 0 ELSE FX!Max(Blocks(j))]]

DrawBar ==
    \E w \in BarWidths, total \in BarTotals, text \in BarTexts, values \in SX!BoundedSeq(BarValues, 3) :
        bar' = [w |-> w, total |-> total, text |-> text, values |-> values,
                cells |-> BarMeterMode_draw(values, total, text, w)]

(****************************************************************************)
(* The graph.                                                               *)
(****************************************************************************)
NewGraph == [time |-> 0, values |-> [i \in 1 .. GraphData |-> 0]]
Taken ==
    IF realtime < graphData.time THEN graphData
    ELSE [time |-> realtime + delay, values |-> Append(Tail(graphData.values), level)]

\* Two values to a column, each rounded to dots and cut into lines; no value is
\* less than one dot.
Pixels == PIXPERROW * GRAPH_HEIGHT
Top == FX!Max(GraphLevels)
Height(value) == Clamp((2 * value * Pixels + Top) \div (2 * Top), 1, Pixels)
LinesOf(value) ==
    [line \in 0 .. GRAPH_HEIGHT - 1 |-> Clamp(Height(value) - PIXPERROW * (GRAPH_HEIGHT - 1 - line), 0, PIXPERROW)]
GraphMeterMode_draw(values, w) ==
    LET first == GraphData - w * 2 + 2
        i == IF first < 0 THEN 0 ELSE first
        k == IF first < 0 THEN (-first) \div 2 ELSE 0
        Turns == {t \in 0 .. GraphData : i + 2 * t < GraphData - 1}
    IN  [column \in {k + t : t \in Turns} |->
           LET at == i + 2 * (column - k) IN <<LinesOf(values[at + 1]), LinesOf(values[at + 2])>>]

DrawGraph ==
    /\ graphData' = Taken
    /\ samples' = IF realtime < graphData.time THEN samples ELSE Append(samples, [at |-> realtime, level |-> level, delay |-> delay])
    /\ \E w \in GraphWidths : graph' = [w |-> w, columns |-> GraphMeterMode_draw(graphData'.values, w)]
    /\ UNCHANGED <<realtime, level, delay>>
Scan ==
    /\ \E d \in GraphSteps : realtime' = realtime + d
    /\ level' \in GraphLevels
    /\ UNCHANGED <<delay, graphData, graph, samples>>
ChangeDelay == delay' \in Delays \ {delay} /\ UNCHANGED <<realtime, level, graphData, graph, samples>>
\* Another style and back: the graph starts anew.
Meter_setMode ==
    /\ graphData' = NewGraph /\ samples' = <<>> /\ graph' = [w |-> 0, columns |-> <<>>]
    /\ UNCHANGED <<realtime, level, delay>>

NoBar == [w |-> 0, total |-> 1, text |-> <<>>, values |-> <<>>, cells |-> <<>>]
DrawingInit ==
    /\ bar = NoBar
    /\ realtime = 1 /\ level = Top /\ delay = FX!Min(Delays)
    /\ graphData = NewGraph /\ graph = [w |-> 0, columns |-> <<>>] /\ graphSteps = 0 /\ samples = <<>>

GraphStep ==
    /\ bar = NoBar /\ graphSteps < MaxGraphSteps
    /\ DrawGraph \/ Scan \/ ChangeDelay \/ Meter_setMode
    /\ graphSteps' = graphSteps + 1
    /\ UNCHANGED bar
BarStep ==
    /\ graphSteps = 0 /\ bar = NoBar
    /\ DrawBar
    /\ UNCHANGED <<realtime, level, delay, graphData, graph, graphSteps, samples>>
DrawingNext == BarStep \/ GraphStep
DrawingSpec == DrawingInit /\ [][DrawingNext]_drawingVars

(****************************************************************************)
(* Properties.                                                              *)
(****************************************************************************)
\* A bar shows no less than its values are of the total, and at most a column
\* more for each; every value that is not 0 has a column, unless those before it
\* fill the bar; the colours come in the order of the values.
BarExact ==
    LET w == bar.w
        Cells == 0 .. w - 1
        Filled == {j \in Cells : bar.cells[j].colour # 0}
        parts == [i \in DOMAIN bar.values |-> Clamp(bar.values[i], 0, bar.total)]
        n == Len(parts)
        exact == SumTo(parts, n) * w
    IN  /\ Cardinality(Filled) >= w \/ Cardinality(Filled) * bar.total >= exact
        /\ (Cardinality(Filled) - n) * bar.total <= exact
        /\ \A i \in DOMAIN parts :
             parts[i] > 0 /\ Cardinality({j \in Filled : bar.cells[j].colour < i}) < w =>
                \E j \in Filled : bar.cells[j].colour = i
        /\ \A j, k \in Filled : j < k => bar.cells[j].colour <= bar.cells[k].colour
        /\ \A j \in Cells : IF j \in Filled THEN bar.cells[j].text # " " ELSE bar.cells[j].text # "|"
        /\ \A j \in Filled, k \in Cells \ Filled : j < k

\* The text is whole at the right end, or, where it does not fit, its beginning
\* up to a blank if there is one: no character of it is changed by the bar.
BarText ==
    LET w == bar.w
        shown == SelectSeq([j \in 1 .. w |-> bar.cells[j - 1].text], LAMBDA c : c = "x")
        letters == SelectSeq(bar.text, LAMBDA c : c = "x")
        n == Len(bar.text)
    IN  w > 0 =>
          /\ SX!IsPrefix(shown, letters)
          /\ n <= w => /\ shown = letters
                       /\ n > 0 /\ bar.text[n] = "x" => bar.cells[w - 1].text = "x"
          /\ n > w /\ (\E i \in 2 .. w + 1 : bar.text[i] = " ") =>
                \E i \in 2 .. w + 1 : bar.text[i] = " " /\ shown = SelectSeq(SubSeq(bar.text, 1, i), LAMBDA c : c = "x")

\* The graph has the values in the order they were taken, the newest at its right
\* end: never two within a delay, and each is drawn as high as it is, on all lines
\* together.  Before the clock is set back nothing is left out that was due.
GraphRight ==
    LET n == Len(samples)
        ValueAt(i) == IF i > GraphData - n THEN samples[n - GraphData + i].level ELSE 0
        Dots(lines) == FX!FoldSet(LAMBDA line, sum : sum + lines[line], 0, DOMAIN lines)
    IN  /\ \A i \in 1 .. GraphData : graphData.values[i] = ValueAt(i)
        /\ \A i \in 2 .. n : samples[i].at >= samples[i - 1].at + samples[i - 1].delay
        /\ graph.w > 1 =>
             /\ graph.w - 2 \in DOMAIN graph.columns
             /\ \A c \in DOMAIN graph.columns :
                  /\ c \in 0 .. graph.w - 2
                  /\ \A half \in 1 .. 2 :
                       Dots(graph.columns[c][half]) = Height(ValueAt(GraphData - 2 * (graph.w - 1 - c) + half))

(****************************************************************************)
(* What is drawn is what the meter has (Meter.c:107-355).                   *)
(****************************************************************************)
DrawnRight == BarExact /\ BarText /\ GraphRight
=============================================================================
