---------------------------- MODULE ScreenProofs ----------------------------
(****************************************************************************)
(* Proofs about the screens of one process: how the command line is wrapped *)
(* at screens of any width, what the lists that are read at one moment show *)
(* under any filter, and where their cursor goes.                           *)
(****************************************************************************)
EXTENDS TraceScreen, SnapshotScreen, CommandScreen, FoldFacts, TLAPS

-----------------------------------------------------------------------------
(* Sequences put together                                                   *)

\* What FlattenSeq takes the last value of: all that is put together so far.
Putting(s, h) == h = [i \in 1 .. Len(s) |-> IF i = 1 THEN s[i] ELSE h[i - 1] \o s[i]]

\* Every value is what the sequences up to there give.
PutTogether(V, s, h) ==
    \A i \in 1 .. Len(s) : h[i] \in Seq(V) /\ h[i] = IF i = 1 THEN s[i] ELSE h[i - 1] \o s[i]

LEMMA PuttingExists ==
    ASSUME NEW V, NEW s \in Seq(Seq(V)), Len(s) > 0
    PROVE  \E h : Putting(s, h)
<1>. DEFINE n == Len(s)
            put == [i \in 1 .. n |-> [x \in Seq(V) |-> x \o s[i]]]
            type == [i \in 1 .. n |-> Seq(V)]
<1>1. n \in Nat \ {0} /\ \A i \in 1 .. n : s[i] \in Seq(V)  BY ElementOfSeq, LenProperties
<1>. HIDE DEF n
<1>2. \A i \in 1 .. n : i # n => \A x \in type[i] : put[i + 1][x] \in type[i + 1]
  <2>1. SUFFICES ASSUME NEW i \in 1 .. n, i # n, NEW x \in type[i] PROVE put[i + 1][x] \in type[i + 1]  OBVIOUS
  <2>2. i + 1 \in 1 .. n /\ x \in Seq(V)  BY <1>1, <2>1
  <2>3. put[i + 1][x] = x \o s[i + 1] /\ type[i + 1] = Seq(V)  BY <2>2
  <2>4. x \o s[i + 1] \in Seq(V)
    <3>1. s[i + 1] \in Seq(V)  BY <1>1, <2>2
    <3>. QED  BY <2>2, <3>1, ConcatProperties
  <2>. QED  BY <2>3, <2>4
<1>3. s[1] \in type[1] /\ 1 <= n /\ 1 \in Int /\ n \in Int  BY <1>1
<1>4. PICK g : Chain(g, 1, n, s[1], put)
  <2>. HIDE DEF put, type
  <2>. QED  BY <1>2, <1>3, ChainExists
<1>5. \A i \in 1 .. n : g[i] \in Seq(V) /\ (i # 1 => g[i] = put[i][g[i - 1]])
  <2>. DEFINE base == s[1]
  <2>1. base \in type[1] /\ Chain(g, 1, n, base, put) /\ 1 <= n /\ 1 \in Int /\ n \in Int  BY <1>3, <1>4
  <2>2. \A i \in 1 .. n : g[i] \in type[i]
    <3>. HIDE DEF put, type, base
    <3>. QED  BY <1>2, <2>1, ChainType
  <2>3. \A i \in 1 .. n : i # 1 => g[i] = put[i][g[i - 1]]
    <3>. HIDE DEF put, base
    <3>. QED  BY <2>1 DEF Chain
  <2>. QED  BY <2>2, <2>3
<1>6. g = [i \in 1 .. n |-> g[i]] /\ g[1] = s[1]
  <2>. HIDE DEF put
  <2>. QED  BY <1>1, <1>4 DEF Chain
<1>7. ASSUME NEW i \in 1 .. n PROVE g[i] = IF i = 1 THEN s[i] ELSE g[i - 1] \o s[i]
  <2>1. CASE i = 1  BY <1>6, <2>1
  <2>2. CASE i # 1
    <3>1. i - 1 \in 1 .. n  BY <2>2, <1>1
    <3>2. g[i - 1] \in Seq(V)  BY <1>5, <3>1
    <3>3. g[i] = put[i][g[i - 1]]  BY <1>5, <2>2
    <3>. QED  BY <2>2, <3>2, <3>3
  <2>. QED  BY <2>1, <2>2
<1>8. g = [i \in 1 .. n |-> IF i = 1 THEN s[i] ELSE g[i - 1] \o s[i]]  BY <1>6, <1>7
<1>. QED  BY <1>8 DEF Putting, n

LEMMA PuttingFacts ==
    ASSUME NEW V, NEW s \in Seq(Seq(V)), Len(s) > 0, NEW h, Putting(s, h)
    PROVE  PutTogether(V, s, h)
<1>. DEFINE n == Len(s)
            T == {i \in 1 .. n : h[i] \in Seq(V)}
<1>1. n \in Nat \ {0} /\ \A i \in 1 .. n : s[i] \in Seq(V)  BY ElementOfSeq, LenProperties
<1>2. \A i \in 1 .. n : h[i] = IF i = 1 THEN s[i] ELSE h[i - 1] \o s[i]  BY DEF Putting
<1>. HIDE DEF n
<1>3. 1 \in T  BY <1>1, <1>2
<1>4. ASSUME NEW i \in 1 .. n, i # n, i \in T PROVE i + 1 \in T
  <2>1. i + 1 \in 1 .. n /\ i + 1 # 1 /\ i + 1 - 1 = i  BY <1>1, <1>4
  <2>. DEFINE k == i + 1
  <2>2. k \in 1 .. n /\ k # 1 /\ k - 1 = i  BY <2>1
  <2>. HIDE DEF k
  <2>3. h[k] = h[i] \o s[k] /\ s[k] \in Seq(V) /\ h[i] \in Seq(V)  BY <1>1, <1>2, <1>4, <2>2
  <2>4. h[k] \in Seq(V)  BY <2>3, ConcatProperties
  <2>. QED  BY <2>2, <2>4 DEF k
<1>5. \A i \in 1 .. n : i \in T
  <2>. HIDE DEF T
  <2>1. 1 \in Int /\ n \in Int /\ 1 <= n  BY <1>1
  <2>. QED  BY <2>1, <1>3, <1>4, IntervalInduction
<1>. QED  BY <1>2, <1>5 DEF n, PutTogether

LEMMA FlattenIsPutting ==
    ASSUME NEW V, NEW s \in Seq(Seq(V)), Len(s) > 0
    PROVE  \E h : Putting(s, h) /\ SX!FlattenSeq(s) = h[Len(s)]
<1>1. \E h : Putting(s, h)  BY PuttingExists
<1>2. SX!FlattenSeq(s) = (CHOOSE h : Putting(s, h))[Len(s)]
  <2>1. Len(s) # 0  BY LenProperties
  <2>. QED  BY <2>1 DEF SX!FlattenSeq, Putting
<1>. QED  BY <1>1, <1>2

\* A sequence more is put behind the others.
LEMMA FlattenAppend ==
    ASSUME NEW V, NEW s \in Seq(Seq(V)), NEW x \in Seq(V)
    PROVE  SX!FlattenSeq(s) \in Seq(V) /\ SX!FlattenSeq(Append(s, x)) = SX!FlattenSeq(s) \o x
<1>. DEFINE n == Len(s)
            t == Append(s, x)
<1>1. n \in Nat /\ \A i \in 1 .. n : s[i] \in Seq(V)  BY ElementOfSeq, LenProperties
<1>2. t \in Seq(Seq(V)) /\ Len(t) = n + 1 /\ t[n + 1] = x /\ \A i \in 1 .. n : t[i] = s[i]
  BY AppendProperties
<1>. HIDE DEF t
<1>3. PICK h : Putting(t, h) /\ SX!FlattenSeq(t) = h[n + 1]
  <2>1. Len(t) > 0  BY <1>1, <1>2
  <2>2. \E h : Putting(t, h) /\ SX!FlattenSeq(t) = h[Len(t)]  BY <1>2, <2>1, FlattenIsPutting
  <2>. QED  BY <1>2, <2>2
<1>4. \A i \in 1 .. n + 1 : h[i] \in Seq(V) /\ h[i] = IF i = 1 THEN t[i] ELSE h[i - 1] \o t[i]
  <2>1. Len(t) > 0  BY <1>1, <1>2
  <2>2. t \in Seq(Seq(V)) /\ Putting(t, h)  BY <1>2, <1>3
  <2>3. PutTogether(V, t, h)  BY <2>1, <2>2, PuttingFacts
  <2>. QED  BY <1>2, <2>3 DEF PutTogether
<1>5. CASE n = 0
  <2>1. s = <<>>  BY <1>5
  <2>2. SX!FlattenSeq(s) = <<>>  BY <2>1, <1>5 DEF SX!FlattenSeq
  <2>3. h[1] = t[1] /\ t[1] = x  BY <1>2, <1>4, <1>5
  <2>4. <<>> \o x = x /\ <<>> \in Seq(V)  BY ConcatEmptySeq
  <2>. QED  BY <1>3, <1>5, <2>2, <2>3, <2>4 DEF t
<1>6. CASE n # 0
  <2>0. n > 0  BY <1>1, <1>6
  <2>1. PICK g : Putting(s, g) /\ SX!FlattenSeq(s) = g[n]  BY <2>0, FlattenIsPutting
  <2>2. \A i \in 1 .. n : g[i] \in Seq(V) /\ g[i] = IF i = 1 THEN s[i] ELSE g[i - 1] \o s[i]
    BY <2>0, <2>1, PuttingFacts DEF PutTogether
  <2>. DEFINE T == {i \in 1 .. n : g[i] = h[i]}
  <2>. HIDE DEF n
  <2>3. 1 \in T
    <3>1. 1 \in 1 .. n /\ 1 \in 1 .. n + 1  BY <1>1, <2>0
    <3>. QED  BY <1>2, <1>4, <2>2, <3>1
  <2>4. ASSUME NEW i \in 1 .. n, i # n, i \in T PROVE i + 1 \in T
    <3>. DEFINE k == i + 1
    <3>1. k \in 1 .. n /\ k \in 1 .. n + 1 /\ k # 1 /\ k - 1 = i  BY <1>1, <2>4
    <3>. HIDE DEF k
    <3>2. g[k] = g[i] \o s[k] /\ h[k] = h[i] \o t[k] /\ t[k] = s[k]  BY <1>2, <1>4, <2>2, <3>1
    <3>. QED  BY <2>4, <3>1, <3>2 DEF k
  <2>5. \A i \in 1 .. n : i \in T
    <3>. HIDE DEF T
    <3>1. 1 \in Int /\ n \in Int /\ 1 <= n  BY <1>1, <2>0
    <3>. QED  BY <3>1, <2>3, <2>4, IntervalInduction
  <2>6. n \in 1 .. n /\ n + 1 \in 1 .. n + 1 /\ n + 1 # 1 /\ n + 1 - 1 = n  BY <1>1, <2>0
  <2>7. g[n] = h[n] /\ g[n] \in Seq(V)  BY <2>2, <2>5, <2>6
  <2>8. h[n + 1] = h[n] \o x
    <3>. DEFINE k == n + 1
    <3>1. k \in 1 .. n + 1 /\ k # 1 /\ k - 1 = n /\ t[k] = x  BY <1>2, <2>6
    <3>. HIDE DEF k
    <3>2. h[k] = h[n] \o x  BY <1>4, <3>1
    <3>. QED  BY <3>2 DEF k
  <2>. QED  BY <1>3, <2>1, <2>7, <2>8 DEF t
<1>. QED  BY <1>5, <1>6


-----------------------------------------------------------------------------
(* The command line *)

WrapTypeInv ==
    /\ command \in Seq(CommandChars) /\ p \in 0 .. Len(command)
    /\ line \in Seq(CommandChars) /\ last_spc \in Int
    /\ wrapped \in Seq(Seq(CommandChars)) /\ wrapping \in {"loop", "done", "overrun"}

\* The space remembered is one of the line, and not the one it begins with unless
\* no line was shown yet: that one ended the line before.
SpaceInv ==
    wrapping = "loop" =>
        /\ last_spc = -1 \/ (last_spc \in 0 .. Len(line) - 1 /\ line[last_spc + 1] = Space)
        /\ wrapped # <<>> => line # <<>> /\ last_spc # 0

\* What comes after a line that is shorter than the screen begins with a space.
Continues(w, next) == w # <<>> /\ Len(w[Len(w)]) < Cols => next # <<>> /\ next[1] = Space

PiecesInv ==
    /\ \A i \in 1 .. Len(wrapped) : Len(wrapped[i]) <= Cols
    /\ \A i \in 1 .. Len(wrapped) - 1 :
          Len(wrapped[i]) < Cols => wrapped[i + 1] # <<>> /\ wrapped[i + 1][1] = Space
    /\ wrapping = "loop" => Continues(wrapped, line)

WrapInv == WrapTypeInv /\ TextKept /\ SpaceInv /\ PiecesInv

LEMMA WrapInit == CommandInit => WrapInv
<1>. SUFFICES ASSUME CommandInit PROVE WrapInv  OBVIOUS
<1>. USE DEF CommandInit
<1>1. command \in Seq(CommandChars)
  <2>1. PICK n \in 0 .. MaxCommand : command \in [1 .. n -> CommandChars]  BY DEF Commands
  <2>2. n \in Nat  BY CommandAssumption
  <2>. QED  BY <2>1, <2>2
<1>2. Len(command) \in Nat  BY <1>1
<1>3. TextKept
  <2>1. SX!FlattenSeq(wrapped) = <<>>  BY DEF SX!FlattenSeq
  <2>2. SubSeq(command, 1, 0) = <<>>  BY <1>1, <1>2
  <2>3. <<>> \o <<>> = <<>>  OBVIOUS
  <2>. QED  BY <2>1, <2>2, <2>3 DEF TextKept
<1>. QED  BY <1>1, <1>2, <1>3 DEF WrapInv, WrapTypeInv, SpaceInv, PiecesInv, Continues

\* A line more is shown: it is put behind the others.
LEMMA ShowPiece ==
    ASSUME NEW w \in Seq(Seq(CommandChars)), NEW piece \in Seq(CommandChars), Len(piece) <= Cols,
           \A i \in 1 .. Len(w) : Len(w[i]) <= Cols,
           \A i \in 1 .. Len(w) - 1 : Len(w[i]) < Cols => w[i + 1] # <<>> /\ w[i + 1][1] = Space,
           Continues(w, piece)
    PROVE  LET v == Append(w, piece)
           IN /\ v \in Seq(Seq(CommandChars)) /\ Len(v) = Len(w) + 1 /\ v[Len(v)] = piece
              /\ \A i \in 1 .. Len(v) : Len(v[i]) <= Cols
              /\ \A i \in 1 .. Len(v) - 1 : Len(v[i]) < Cols => v[i + 1] # <<>> /\ v[i + 1][1] = Space
              /\ SX!FlattenSeq(w) \in Seq(CommandChars) /\ SX!FlattenSeq(v) = SX!FlattenSeq(w) \o piece
<1>. DEFINE v == Append(w, piece)
            n == Len(w)
<1>1. n \in Nat /\ v \in Seq(Seq(CommandChars)) /\ Len(v) = n + 1 /\ v[n + 1] = piece /\ \A i \in 1 .. n : v[i] = w[i]
  BY AppendProperties, LenProperties
<1>2. SX!FlattenSeq(w) \in Seq(CommandChars) /\ SX!FlattenSeq(v) = SX!FlattenSeq(w) \o piece  BY FlattenAppend
<1>3. n # 0 => w # <<>>  OBVIOUS
<1>. HIDE DEF v, n
<1>4. ASSUME NEW i \in 1 .. n + 1 PROVE Len(v[i]) <= Cols
  <2>1. CASE i = n + 1  BY <1>1, <2>1
  <2>2. CASE i # n + 1
    <3>1. i \in 1 .. n  BY <1>1, <2>2
    <3>. QED  BY <1>1, <3>1 DEF n
  <2>. QED  BY <2>1, <2>2
<1>5. ASSUME NEW i \in 1 .. n, Len(v[i]) < Cols PROVE v[i + 1] # <<>> /\ v[i + 1][1] = Space
  <2>1. CASE i = n
    <3>1. w # <<>> /\ Len(w[n]) < Cols  BY <1>1, <1>3, <1>5, <2>1
    <3>2. piece # <<>> /\ piece[1] = Space  BY <3>1 DEF Continues, n
    <3>. QED  BY <1>1, <2>1, <3>2
  <2>2. CASE i # n
    <3>1. i \in 1 .. n - 1 /\ i + 1 \in 1 .. n  BY <1>1, <2>2
    <3>2. Len(w[i]) < Cols => w[i + 1] # <<>> /\ w[i + 1][1] = Space  BY <3>1 DEF n
    <3>3. v[i] = w[i] /\ v[i + 1] = w[i + 1]  BY <1>1, <3>1
    <3>. QED  BY <1>5, <3>2, <3>3
  <2>. QED  BY <2>1, <2>2
<1>6. Len(v) - 1 = n  BY <1>1
<1>. QED  BY <1>1, <1>2, <1>4, <1>5, <1>6 DEF v, n


LEMMA WrapStep == WrapInv /\ Step => WrapInv'
<1>. SUFFICES ASSUME WrapInv, Step PROVE WrapInv'  OBVIOUS
<1>. USE CommandAssumption
<1>1. /\ command \in Seq(CommandChars) /\ p \in 0 .. Len(command) /\ line \in Seq(CommandChars) /\ last_spc \in Int
      /\ wrapped \in Seq(Seq(CommandChars)) /\ wrapping = "loop" /\ p < Len(command) /\ Len(command) \in Nat
      /\ Len(line) \in Nat /\ command' = command
  BY LenProperties DEF WrapInv, WrapTypeInv, Step
<1>2. CASE line_offset > Cols
  <2>1. wrapping' = "overrun" /\ UNCHANGED <<p, line, last_spc, wrapped>>  BY <1>2 DEF Step
  <2>. QED  BY <1>1, <2>1 DEF WrapInv, WrapTypeInv, TextKept, SpaceInv, PiecesInv
<1>3. CASE ~(line_offset > Cols)
  <2>. DEFINE c == command[p + 1]
              text == Append(line, c)
              space == IF c = Space THEN line_offset ELSE last_spc
              flat == SX!FlattenSeq(wrapped)
  <2>1. /\ p' = p + 1 /\ wrapping' = wrapping /\ Len(line) <= Cols
        /\ IF line_offset = Cols THEN Break(text, space) /\ last_spc' = -1
           ELSE line' = text /\ last_spc' = space /\ wrapped' = wrapped
    BY <1>1, <1>3 DEF Step, line_offset
  <2>2. c \in CommandChars
    <3>1. p + 1 \in 1 .. Len(command)  BY <1>1
    <3>. QED  BY <1>1, <3>1, ElementOfSeq
  <2>. HIDE DEF c
  <2>3. /\ text \in Seq(CommandChars) /\ Len(text) = Len(line) + 1 /\ text[Len(line) + 1] = c
        /\ \A i \in 1 .. Len(line) : text[i] = line[i]
    BY <1>1, <2>2, AppendProperties
  <2>4. flat \in Seq(CommandChars)  BY <1>1, <2>2, FlattenAppend
  <2>5. flat \o text = SubSeq(command, 1, p + 1)
    <3>1. flat \o line = SubSeq(command, 1, p)  BY <1>1 DEF WrapInv, TextKept
    <3>2. <<c>> \in Seq(CommandChars) /\ text = line \o <<c>>  BY <1>1, <2>2, AppendIsConcat
    <3>3. flat \o (line \o <<c>>) = (flat \o line) \o <<c>>  BY <1>1, <2>4, <3>2, ConcatAssociative
    <3>4. SubSeq(command, 1, p + 1) = SubSeq(command, 1, p) \o <<c>>
      <4>1. SubSeq(command, 1, p) \in Seq(CommandChars)  BY <1>1, SubSeqProperties
      <4>2. SubSeq(command, 1, p) \o <<c>> = Append(SubSeq(command, 1, p), c)  BY <2>2, <4>1, AppendIsConcat
      <4>3. SubSeq(command, 1, p + 1) = Append(SubSeq(command, 1, p), c)  BY <1>1 DEF c
      <4>. QED  BY <4>2, <4>3
    <3>. QED  BY <3>1, <3>2, <3>3, <3>4
  <2>6. /\ space \in -1 .. Len(line)
        /\ space # -1 => text[space + 1] = Space
        /\ wrapped # <<>> => line # <<>> /\ space # 0
    <3>1. /\ last_spc = -1 \/ (last_spc \in 0 .. Len(line) - 1 /\ line[last_spc + 1] = Space)
          /\ wrapped # <<>> => line # <<>> /\ last_spc # 0
      BY <1>1 DEF WrapInv, SpaceInv
    <3>2. line # <<>> => Len(line) # 0  BY <1>1
    <3>3. CASE c = Space  BY <1>1, <2>3, <3>1, <3>2, <3>3 DEF line_offset
    <3>4. CASE c # Space
      <4>1. space = last_spc  BY <3>4
      <4>2. last_spc # -1 => last_spc + 1 \in 1 .. Len(line) /\ text[last_spc + 1] = Space  BY <1>1, <2>3, <3>1
      <4>3. last_spc \in -1 .. Len(line)  BY <1>1, <3>1
      <4>. QED  BY <3>1, <4>1, <4>2, <4>3
    <3>. QED  BY <3>3, <3>4
  <2>7. PiecesInv  BY DEF WrapInv
  <2>. HIDE DEF text, space, flat
  <2>8. CASE line_offset # Cols
    <3>1. line' = text /\ last_spc' = space /\ wrapped' = wrapped /\ p' = p + 1 /\ wrapping' = "loop"
      BY <1>1, <2>1, <2>8
    <3>2. WrapTypeInv'  BY <1>1, <2>3, <2>6, <3>1 DEF WrapTypeInv
    <3>3. TextKept'  BY <1>1, <2>5, <3>1 DEF TextKept, flat
    <3>4. text # <<>>  BY <1>1, <2>3
    <3>5. SpaceInv'
      <4>1. space \in -1 .. Len(text) - 1  BY <1>1, <2>3, <2>6
      <4>. QED  BY <2>6, <3>1, <3>4, <4>1 DEF SpaceInv
    <3>6. Continues(wrapped, text)
      <4>1. SUFFICES ASSUME wrapped # <<>>, Len(wrapped[Len(wrapped)]) < Cols PROVE text # <<>> /\ text[1] = Space
        BY DEF Continues
      <4>2. line # <<>> /\ line[1] = Space  BY <1>1, <2>7, <4>1 DEF PiecesInv, Continues
      <4>3. 1 \in 1 .. Len(line)  BY <1>1, <4>2
      <4>. QED  BY <2>3, <3>4, <4>2, <4>3
    <3>7. PiecesInv'  BY <2>7, <3>1, <3>6 DEF PiecesInv
    <3>. QED  BY <3>2, <3>3, <3>5, <3>7 DEF WrapInv
  <2>9. CASE line_offset = Cols
    <3>. DEFINE len == IF space = -1 THEN Cols ELSE space
                piece == SubSeq(text, 1, len)
                rest == SubSeq(text, len + 1, Len(text))
                v == Append(wrapped, piece)
    <3>1. wrapped' = v /\ line' = rest /\ last_spc' = -1 /\ p' = p + 1 /\ wrapping' = "loop"
      BY <1>1, <2>1, <2>9 DEF Break
    <3>2. Len(line) = Cols /\ len \in 0 .. Cols /\ Len(text) = Cols + 1  BY <2>3, <2>6, <2>9 DEF line_offset
    <3>. HIDE DEF len
    <3>3. /\ piece \in Seq(CommandChars) /\ Len(piece) = len /\ \A i \in 1 .. len : piece[i] = text[i]
          /\ rest \in Seq(CommandChars) /\ Len(rest) = Cols + 1 - len /\ rest[1] = text[len + 1]
          /\ text = piece \o rest
      <4>1. piece \in Seq(CommandChars) /\ Len(piece) = len /\ \A i \in 1 .. len : piece[i] = text[i]
        BY <2>3, <3>2, SubSeqProperties
      <4>2. rest \in Seq(CommandChars) /\ Len(rest) = Cols + 1 - len /\ rest[1] = text[len + 1]
        BY <2>3, <3>2, SubSeqProperties
      <4>3. text = piece \o rest
        <5>0. /\ text \in Seq(CommandChars) /\ 1 \in 1 .. Len(text) + 1
              /\ len \in 1 - 1 .. Len(text) /\ Len(text) \in len .. Len(text)
          BY <2>3, <3>2
        <5>1. SubSeq(text, 1, len) \o SubSeq(text, len + 1, Len(text)) = SubSeq(text, 1, Len(text))
          BY <5>0, ConcatAdjacentSubSeq
        <5>2. SubSeq(text, 1, Len(text)) = text  BY <2>3, SubSeqFull
        <5>. QED  BY <5>1, <5>2
      <4>. QED  BY <4>1, <4>2, <4>3
    <3>4. rest # <<>> /\ (len < Cols => rest[1] = Space)
      <4>1. len < Cols => len = space /\ space # -1  BY DEF len
      <4>. QED  BY <2>6, <3>2, <3>3, <4>1
    <3>5. Continues(wrapped, piece)
      <4>1. SUFFICES ASSUME wrapped # <<>>, Len(wrapped[Len(wrapped)]) < Cols PROVE piece # <<>> /\ piece[1] = Space
        BY DEF Continues
      <4>2. line # <<>> /\ line[1] = Space  BY <1>1, <2>7, <4>1 DEF PiecesInv, Continues
      <4>3. len # 0  BY <2>6, <4>1 DEF len
      <4>4. 1 \in 1 .. len /\ 1 \in 1 .. Len(line)  BY <3>2, <4>3
      <4>5. piece[1] = text[1] /\ text[1] = line[1]  BY <2>3, <3>3, <4>4
      <4>. QED  BY <3>3, <4>2, <4>3, <4>5
    <3>. HIDE DEF piece, rest, v
    <3>6. /\ v \in Seq(Seq(CommandChars)) /\ Len(v) = Len(wrapped) + 1 /\ v[Len(v)] = piece
          /\ \A i \in 1 .. Len(v) : Len(v[i]) <= Cols
          /\ \A i \in 1 .. Len(v) - 1 : Len(v[i]) < Cols => v[i + 1] # <<>> /\ v[i + 1][1] = Space
          /\ SX!FlattenSeq(v) = flat \o piece
      <4>1. /\ \A i \in 1 .. Len(wrapped) : Len(wrapped[i]) <= Cols
            /\ \A i \in 1 .. Len(wrapped) - 1 :
                  Len(wrapped[i]) < Cols => wrapped[i + 1] # <<>> /\ wrapped[i + 1][1] = Space
        BY <2>7 DEF PiecesInv
      <4>2. Len(piece) <= Cols  BY <3>2, <3>3
      <4>. QED  BY <1>1, <3>3, <3>5, <4>1, <4>2, ShowPiece DEF v, flat
    <3>7. WrapTypeInv'  BY <1>1, <3>1, <3>3, <3>6 DEF WrapTypeInv
    <3>8. TextKept'
      <4>1. SX!FlattenSeq(v) \o rest = flat \o text
        <5>0. piece \in Seq(CommandChars) /\ rest \in Seq(CommandChars)  BY <3>3
        <5>1. (flat \o piece) \o rest = flat \o (piece \o rest)  BY <2>4, <5>0, ConcatAssociative
        <5>. QED  BY <3>3, <3>6, <5>1
      <4>. QED  BY <1>1, <2>5, <3>1, <4>1 DEF TextKept
    <3>9. SpaceInv'  BY <3>1, <3>4 DEF SpaceInv
    <3>10. PiecesInv'
      <4>1. Continues(v, rest)  BY <3>3, <3>4, <3>6 DEF Continues
      <4>. QED  BY <3>1, <3>6, <4>1 DEF PiecesInv
    <3>. QED  BY <3>7, <3>8, <3>9, <3>10 DEF WrapInv
  <2>. QED  BY <2>8, <2>9
<1>. QED  BY <1>2, <1>3

LEMMA WrapEnd == WrapInv /\ End => WrapInv'
<1>. SUFFICES ASSUME WrapInv, End PROVE WrapInv'  OBVIOUS
<1>. USE CommandAssumption
<1>1. /\ command \in Seq(CommandChars) /\ p \in 0 .. Len(command) /\ line \in Seq(CommandChars) /\ last_spc \in Int
      /\ wrapped \in Seq(Seq(CommandChars)) /\ wrapping = "loop" /\ Len(line) \in Nat
      /\ UNCHANGED <<command, p, line, last_spc>>
  BY LenProperties DEF WrapInv, WrapTypeInv, End
<1>2. CASE line_offset > Cols
  <2>1. wrapping' = "overrun" /\ wrapped' = wrapped  BY <1>2 DEF End
  <2>. QED  BY <1>1, <2>1 DEF WrapInv, WrapTypeInv, TextKept, SpaceInv, PiecesInv
<1>3. CASE ~(line_offset > Cols) /\ line_offset = 0
  <2>1. wrapping' = "done" /\ wrapped' = wrapped /\ line = <<>>  BY <1>1, <1>3 DEF End, line_offset
  <2>2. TextKept'  BY <1>1, <2>1 DEF WrapInv, TextKept
  <2>. QED  BY <1>1, <2>1, <2>2 DEF WrapInv, WrapTypeInv, SpaceInv, PiecesInv
<1>4. CASE ~(line_offset > Cols) /\ line_offset # 0
  <2>. DEFINE v == Append(wrapped, line)
              flat == SX!FlattenSeq(wrapped)
  <2>1. wrapping' = "done" /\ wrapped' = v /\ Len(line) <= Cols  BY <1>1, <1>4 DEF End, line_offset
  <2>. HIDE DEF v
  <2>2. PiecesInv  BY DEF WrapInv
  <2>3. /\ v \in Seq(Seq(CommandChars)) /\ Len(v) = Len(wrapped) + 1 /\ v[Len(v)] = line
        /\ \A i \in 1 .. Len(v) : Len(v[i]) <= Cols
        /\ \A i \in 1 .. Len(v) - 1 : Len(v[i]) < Cols => v[i + 1] # <<>> /\ v[i + 1][1] = Space
        /\ flat \in Seq(CommandChars) /\ SX!FlattenSeq(v) = flat \o line
    <3>1. /\ \A i \in 1 .. Len(wrapped) : Len(wrapped[i]) <= Cols
          /\ \A i \in 1 .. Len(wrapped) - 1 :
                Len(wrapped[i]) < Cols => wrapped[i + 1] # <<>> /\ wrapped[i + 1][1] = Space
          /\ Continues(wrapped, line)
      BY <1>1, <2>2 DEF PiecesInv
    <3>. QED  BY <1>1, <2>1, <3>1, ShowPiece DEF v
  <2>4. TextKept'
    <3>1. flat \o line = SubSeq(command, 1, p)  BY <1>1 DEF WrapInv, TextKept
    <3>2. (flat \o line) \o <<>> = flat \o line
      <4>1. flat \o line \in Seq(CommandChars)  BY <1>1, <2>3, ConcatProperties
      <4>. QED  BY <4>1, ConcatEmptySeq
    <3>. QED  BY <1>1, <2>1, <2>3, <3>1, <3>2 DEF TextKept
  <2>. QED  BY <1>1, <2>1, <2>3, <2>4 DEF WrapInv, WrapTypeInv, SpaceInv, PiecesInv
<1>. QED  BY <1>2, <1>3, <1>4

\* At any width the lines of a command of any length are pieces of it that fit
\* the screen and end where a word ends, and wrapping loses nothing.
THEOREM WrappingIsRight == CommandSpec => []WrapsAtSpaces
<1>1. WrapInv /\ [CommandNext]_commandVars => WrapInv'
  <2>1. ASSUME WrapInv, CommandNext PROVE WrapInv'  BY <2>1, WrapStep, WrapEnd DEF CommandNext
  <2>2. ASSUME WrapInv, UNCHANGED commandVars PROVE WrapInv'
    BY <2>2 DEF commandVars, WrapInv, WrapTypeInv, TextKept, SpaceInv, PiecesInv
  <2>. QED  BY <2>1, <2>2
<1>2. WrapInv => WrapsAtSpaces
  <2>1. ASSUME WrapInv PROVE DOMAIN wrapped = 1 .. Len(wrapped) /\ Len(wrapped) \in Nat
    BY <2>1, LenProperties DEF WrapInv, WrapTypeInv
  <2>2. ASSUME WrapInv, NEW i \in 1 .. Len(wrapped), i < Len(wrapped) PROVE i \in 1 .. Len(wrapped) - 1
    BY <2>1, <2>2
  <2>. QED  BY <2>1, <2>2 DEF WrapInv, PiecesInv, WrapsAtSpaces
<1>. QED  BY <1>1, <1>2, WrapInit, PTL DEF CommandSpec


-----------------------------------------------------------------------------
(* What FoldLeft gives                                                      *)

\* The place that it takes last.
LastIn(s) == SX!Max(s)

LEMMA LastInFacts ==
    ASSUME NEW n \in Nat, NEW s \in SUBSET (1 .. n), s # {}
    PROVE  LastIn(s) \in s /\ \A i \in s : i <= LastIn(s)
<1>1. s \in SUBSET Int /\ n \in Int /\ \A x \in s : x <= n  OBVIOUS
<1>2. \E x \in s : \A y \in s : x >= y  BY <1>1, GreatestExists
<1>3. s \subseteq Int  BY <1>1
<1>. QED  BY <1>2, <1>3 DEF LastIn, SX!Max

Folded(g, n, base, op) ==
    \A s \in SUBSET (1 .. n) : g[s] = IF s = {} THEN base ELSE op[LastIn(s)][g[s \ {LastIn(s)}]]

LEMMA LastFolded ==
    ASSUME NEW n \in Nat, NEW V, NEW base \in V, NEW op \in [1 .. n -> [V -> V]]
    PROVE  \E g \in [SUBSET (1 .. n) -> V] : Folded(g, n, base, op)
<1>. DEFINE I == 1 .. n
            pick == [s \in SUBSET I |-> LastIn(s)]
<1>1. \A s \in SUBSET I : s # {} => LastIn(s) \in s /\ pick[s] = LastIn(s)  BY LastInFacts
<1>2. IsFiniteSet(I) /\ IsPick(pick, I)
  <2>1. n \in Int /\ 1 \in Int  OBVIOUS
  <2>2. IsFiniteSet(I)  BY <2>1, FS_Interval
  <2>. HIDE DEF I, pick
  <2>. QED  BY <1>1, <2>2 DEF IsPick
<1>. HIDE DEF I, pick
<1>3. op \in [I -> [V -> V]]  BY DEF I
<1>4. PICK g \in [SUBSET I -> V] : Folding(g, I, base, op, pick)  BY <1>2, <1>3, FoldExists
<1>5. \A s \in SUBSET I : g[s] = IF s = {} THEN base ELSE op[LastIn(s)][g[s \ {LastIn(s)}]]
  BY <1>1, <1>4 DEF Folding
<1>. QED  BY <1>5 DEF I, Folded

\* h folds op over n items in any way that does so on the values in V.
FoldsLeft(h, n, V, base, op) ==
    /\ h[{}] = base
    /\ \A s \in SUBSET (1 .. n) :
          s # {} /\ h[s \ {LastIn(s)}] \in V => h[s] = op[LastIn(s)][h[s \ {LastIn(s)}]]

\* The values on the way: one per item, each from the one before.
StepsOf(st, n, V, base, op) ==
    st \in [0 .. n -> V] /\ st[0] = base /\ \A i \in 1 .. n : st[i] = op[i][st[i - 1]]

LEMMA FoldSteps ==
    ASSUME NEW n \in Nat, NEW V, NEW base \in V, NEW op \in [1 .. n -> [V -> V]],
           NEW h, FoldsLeft(h, n, V, base, op)
    PROVE  \E st : StepsOf(st, n, V, base, op) /\ h[1 .. n] = st[n]
<1>. DEFINE st == [i \in 0 .. n |-> h[1 .. i]]
            T == {i \in 0 .. n : st[i] \in V}
<1>0. 1 .. 0 = {} /\ h[{}] = base  BY DEF FoldsLeft
<1>1. st[0] = base  BY <1>0
<1>2. ASSUME NEW i \in 1 .. n, st[i - 1] \in V PROVE st[i] = op[i][st[i - 1]] /\ st[i] \in V
  <2>. DEFINE s == 1 .. i
  <2>1. s \in SUBSET (1 .. n) /\ s # {} /\ s \ {i} = 1 .. i - 1 /\ i \in s /\ \A j \in s : j <= i
    <3>1. i \in s /\ \A j \in s : j <= i /\ j \in 1 .. n  OBVIOUS
    <3>2. \A j \in Int : j \in s \ {i} <=> j \in 1 .. i - 1  OBVIOUS
    <3>3. s \subseteq Int /\ 1 .. i - 1 \subseteq Int  OBVIOUS
    <3>. HIDE DEF s
    <3>4. s \ {i} = 1 .. i - 1  BY <3>2, <3>3
    <3>. QED  BY <3>1, <3>4
  <2>2. st[i] = h[s] /\ st[i - 1] = h[s \ {i}]
    <3>1. i \in 0 .. n /\ i - 1 \in 0 .. n  OBVIOUS
    <3>2. st[i] = h[1 .. i] /\ st[i - 1] = h[1 .. i - 1]  BY <3>1
    <3>. QED  BY <2>1, <3>2
  <2>3. s \in SUBSET Nat  OBVIOUS
  <2>. HIDE DEF s, st
  <2>4. LastIn(s) = i
    <3>1. LastIn(s) \in s /\ i <= LastIn(s) /\ LastIn(s) <= i  BY <2>1, LastInFacts
    <3>2. LastIn(s) \in Nat  BY <2>3, <3>1
    <3>3. i \in Nat  OBVIOUS
    <3>. QED  BY <3>1, <3>2, <3>3
  <2>5. st[i] = op[i][st[i - 1]]
    <3>1. h[s \ {LastIn(s)}] \in V  BY <1>2, <2>2, <2>4
    <3>2. h[s] = op[LastIn(s)][h[s \ {LastIn(s)}]]  BY <2>1, <3>1 DEF FoldsLeft
    <3>. QED  BY <2>2, <2>4, <3>2
  <2>. QED  BY <1>2, <2>5
<1>3. \A i \in 0 .. n : i \in T
  <2>1. 0 \in T  BY <1>1
  <2>2. ASSUME NEW i \in 0 .. n, i # n, i \in T PROVE i + 1 \in T
    <3>1. i + 1 \in 1 .. n /\ i + 1 - 1 = i /\ i + 1 \in 0 .. n  BY <2>2
    <3>. DEFINE k == i + 1
    <3>2. k \in 1 .. n /\ k - 1 = i /\ k \in 0 .. n  BY <3>1
    <3>3. st[i] \in V  BY <2>2
    <3>. HIDE DEF k, st
    <3>4. st[k] \in V  BY <1>2, <3>2, <3>3
    <3>. QED  BY <3>2, <3>4 DEF k
  <2>. HIDE DEF T
  <2>3. 0 \in Int /\ n \in Int /\ 0 <= n  OBVIOUS
  <2>. QED  BY <2>1, <2>2, <2>3, IntervalInduction
<1>4. st = [i \in 0 .. n |-> st[i]] /\ st[n] = h[1 .. n]  OBVIOUS
<1>. HIDE DEF st
<1>5. \A i \in 0 .. n : st[i] \in V  BY <1>3
<1>6. st \in [0 .. n -> V]  BY <1>4, <1>5
<1>7. \A i \in 1 .. n : st[i] = op[i][st[i - 1]]
  <2>1. \A i \in 1 .. n : i - 1 \in 0 .. n  OBVIOUS
  <2>. QED  BY <1>2, <1>5, <2>1
<1>8. StepsOf(st, n, V, base, op)  BY <1>1, <1>6, <1>7 DEF StepsOf
<1>. QED  BY <1>4, <1>8


-----------------------------------------------------------------------------
(* Some items of a sequence                                                 *)

\* st[i] are those of the first i items.
Picks(st, s, K, V) ==
    /\ st \in [0 .. Len(s) -> Seq(V)] /\ st[0] = <<>>
    /\ \A i \in 1 .. Len(s) : st[i] = IF s[i] \in K THEN Append(st[i - 1], s[i]) ELSE st[i - 1]

LEMMA OnlyPicks ==
    ASSUME NEW V, NEW s \in Seq(V), NEW K
    PROVE  \E st : Picks(st, s, K, V) /\ Only(s, K) = st[Len(s)]
<1>. DEFINE n == Len(s)
            op == [i \in 1 .. n |-> [t \in Seq(V) |-> IF s[i] \in K THEN Append(t, s[i]) ELSE t]]
            W == Seq(V)
            Iter(g) == g = [r \in SUBSET DOMAIN s |->
                              IF r = {} THEN <<>>
                              ELSE IF s[LastIn(r)] \in K THEN Append(g[r \ {LastIn(r)}], s[LastIn(r)])
                                   ELSE g[r \ {LastIn(r)}]]
            only == Only(s, K)
<1>1. n \in Nat /\ DOMAIN s = 1 .. n /\ \A i \in 1 .. n : s[i] \in V  BY ElementOfSeq, LenProperties
<1>2. only = (CHOOSE h : Iter(h))[DOMAIN s]  BY DEF Only, SX!FoldLeft, SX!MapThenFoldSet, LastIn
<1>3. <<>> \in W /\ op \in [1 .. n -> [W -> W]]
  <2>1. \A i \in 1 .. n : \A t \in Seq(V) : Append(t, s[i]) \in Seq(V)  BY <1>1, AppendProperties
  <2>. QED  BY <2>1
<1>4. \A i \in 1 .. n : \A t \in W : op[i][t] = IF s[i] \in K THEN Append(t, s[i]) ELSE t  OBVIOUS
<1>. HIDE DEF only, op, n, W
<1>. DEFINE base == <<>>
<1>5. base \in W  BY <1>3
<1>. HIDE DEF base
<1>6. PICK g \in [SUBSET (1 .. n) -> W] : Folded(g, n, base, op)
  <2>1. n \in Nat /\ op \in [1 .. n -> [W -> W]]  BY <1>1, <1>3
  <2>. QED  BY <1>5, <2>1, LastFolded
<1>7. Iter(g)
  <2>1. ASSUME NEW r \in SUBSET (1 .. n)
        PROVE  g[r] = IF r = {} THEN <<>>
                      ELSE IF s[LastIn(r)] \in K THEN Append(g[r \ {LastIn(r)}], s[LastIn(r)])
                           ELSE g[r \ {LastIn(r)}]
    <3>1. CASE r = {}  BY <1>6, <3>1 DEF base, Folded
    <3>2. CASE r # {}
      <4>1. g[r] = op[LastIn(r)][g[r \ {LastIn(r)}]]  BY <1>6, <3>2 DEF Folded
      <4>2. LastIn(r) \in 1 .. n  BY <1>1, <3>2, LastInFacts
      <4>3. g[r \ {LastIn(r)}] \in W  BY <1>6
      <4>. QED  BY <1>4, <3>2, <4>1, <4>2, <4>3
    <3>. QED  BY <3>1, <3>2
  <2>. QED  BY <1>1, <1>6, <2>1
<1>8. PICK h : Iter(h) /\ only = h[1 .. n]
  <2>. HIDE DEF Iter
  <2>. QED  BY <1>1, <1>2, <1>7
<1>9. FoldsLeft(h, n, W, base, op)
  <2>1. h[{}] = base  BY <1>8 DEF base
  <2>2. ASSUME NEW r \in SUBSET (1 .. n), r # {}, h[r \ {LastIn(r)}] \in W
        PROVE  h[r] = op[LastIn(r)][h[r \ {LastIn(r)}]]
    <3>1. h[r] = IF s[LastIn(r)] \in K THEN Append(h[r \ {LastIn(r)}], s[LastIn(r)]) ELSE h[r \ {LastIn(r)}]
      BY <1>1, <1>8, <2>2
    <3>2. LastIn(r) \in 1 .. n  BY <1>1, <2>2, LastInFacts
    <3>. HIDE DEF Iter
    <3>. QED  BY <1>4, <2>2, <3>1, <3>2
  <2>. HIDE DEF Iter
  <2>. QED  BY <2>1, <2>2 DEF FoldsLeft
<1>. HIDE DEF Iter
<1>10. PICK st : StepsOf(st, n, W, base, op) /\ h[1 .. n] = st[n]  BY <1>1, <1>3, <1>5, <1>9, FoldSteps
<1>11. ASSUME NEW i \in 1 .. n PROVE st[i] = IF s[i] \in K THEN Append(st[i - 1], s[i]) ELSE st[i - 1]
  <2>1. i - 1 \in 0 .. n  BY <1>1
  <2>2. st[i] = op[i][st[i - 1]] /\ st[i - 1] \in W  BY <1>10, <2>1 DEF StepsOf
  <2>. QED  BY <1>4, <2>2
<1>12. Picks(st, s, K, V)  BY <1>10, <1>11 DEF Picks, StepsOf, n, W, base
<1>. QED  BY <1>8, <1>10, <1>12 DEF only, n

LEMMA PicksAppend ==
    ASSUME NEW V, NEW s \in Seq(V), NEW x \in V, NEW K,
           NEW st, Picks(st, s, K, V), NEW su, Picks(su, Append(s, x), K, V)
    PROVE  su[Len(s) + 1] = IF x \in K THEN Append(st[Len(s)], x) ELSE st[Len(s)]
<1>. DEFINE n == Len(s)
            t == Append(s, x)
            T == {i \in 0 .. n : st[i] = su[i]}
<1>1. n \in Nat /\ Len(t) = n + 1 /\ t[n + 1] = x /\ \A i \in 1 .. n : t[i] = s[i]
  BY AppendProperties, LenProperties
<1>2. /\ st[0] = <<>> /\ su[0] = <<>>
      /\ \A i \in 1 .. n : st[i] = IF s[i] \in K THEN Append(st[i - 1], s[i]) ELSE st[i - 1]
      /\ \A i \in 1 .. n + 1 : su[i] = IF t[i] \in K THEN Append(su[i - 1], t[i]) ELSE su[i - 1]
  BY <1>1 DEF Picks
<1>. HIDE DEF n, t
<1>3. \A i \in 0 .. n : i \in T
  <2>1. 0 \in T  BY <1>1, <1>2
  <2>2. ASSUME NEW i \in 0 .. n, i # n, i \in T PROVE i + 1 \in T
    <3>. DEFINE k == i + 1
    <3>1. k \in 1 .. n /\ k \in 1 .. n + 1 /\ k - 1 = i /\ k \in 0 .. n  BY <1>1, <2>2
    <3>2. st[i] = su[i]  BY <2>2
    <3>. HIDE DEF k
    <3>3. st[k] = IF s[k] \in K THEN Append(st[i], s[k]) ELSE st[i]  BY <1>2, <3>1
    <3>4. su[k] = IF s[k] \in K THEN Append(su[i], s[k]) ELSE su[i]  BY <1>1, <1>2, <3>1
    <3>. QED  BY <3>1, <3>2, <3>3, <3>4 DEF k
  <2>. HIDE DEF T
  <2>3. 0 \in Int /\ n \in Int /\ 0 <= n  BY <1>1
  <2>. QED  BY <2>1, <2>2, <2>3, IntervalInduction
<1>4. st[n] = su[n]
  <2>1. n \in 0 .. n  BY <1>1
  <2>. QED  BY <1>3, <2>1
<1>5. su[n + 1] = IF x \in K THEN Append(su[n], x) ELSE su[n]
  <2>. DEFINE k == n + 1
  <2>1. k \in 1 .. n + 1 /\ k - 1 = n /\ t[k] = x  BY <1>1
  <2>. HIDE DEF k
  <2>2. su[k] = IF x \in K THEN Append(su[n], x) ELSE su[n]  BY <1>2, <2>1
  <2>. QED  BY <2>2 DEF k
<1>. QED  BY <1>4, <1>5 DEF n

LEMMA OnlyAppend ==
    ASSUME NEW V, NEW s \in Seq(V), NEW x \in V, NEW K
    PROVE  /\ Only(s, K) \in Seq(V)
           /\ Only(Append(s, x), K) = IF x \in K THEN Append(Only(s, K), x) ELSE Only(s, K)
<1>1. PICK st : Picks(st, s, K, V) /\ Only(s, K) = st[Len(s)]  BY OnlyPicks
<1>2. Append(s, x) \in Seq(V) /\ Len(Append(s, x)) = Len(s) + 1 /\ Len(s) \in Nat  BY AppendProperties, LenProperties
<1>3. PICK su : Picks(su, Append(s, x), K, V) /\ Only(Append(s, x), K) = su[Len(Append(s, x))]
  <2>. DEFINE t == Append(s, x)
  <2>1. t \in Seq(V)  BY <1>2
  <2>. HIDE DEF t
  <2>2. \E su : Picks(su, t, K, V) /\ Only(t, K) = su[Len(t)]  BY <2>1, OnlyPicks
  <2>. QED  BY <2>2 DEF t
<1>4. su[Len(s) + 1] = IF x \in K THEN Append(st[Len(s)], x) ELSE st[Len(s)]  BY <1>1, <1>3, PicksAppend
<1>5. st[Len(s)] \in Seq(V)
  <2>1. Len(s) \in 0 .. Len(s)  BY <1>2
  <2>. QED  BY <1>1, <2>1 DEF Picks
<1>. QED  BY <1>1, <1>2, <1>3, <1>4, <1>5

LEMMA OnlyEmpty == ASSUME NEW K PROVE Only(<<>>, K) = <<>>
<1>. DEFINE V == {}
            e == <<>>
<1>1. e \in Seq(V) /\ Len(e) = 0  OBVIOUS
<1>. HIDE DEF V, e
<1>2. PICK st : Picks(st, e, K, V) /\ Only(e, K) = st[Len(e)]  BY <1>1, OnlyPicks
<1>. QED  BY <1>1, <1>2 DEF Picks, e


ItemsIn(s) == {s[i] : i \in 1 .. Len(s)}

\* Each item stands in the relation R to all that come after it.
OrderedBy(s, R) == \A i, j \in 1 .. Len(s) : i < j => <<s[i], s[j]>> \in R

LEMMA AppendItems ==
    ASSUME NEW V, NEW s \in Seq(V), NEW x \in V
    PROVE  /\ ItemsIn(Append(s, x)) = ItemsIn(s) \cup {x}
           /\ \A R : OrderedBy(s, R) /\ (\A y \in ItemsIn(s) : <<y, x>> \in R) => OrderedBy(Append(s, x), R)
<1>. DEFINE t == Append(s, x)
            n == Len(s)
<1>1. n \in Nat /\ Len(t) = n + 1 /\ t[n + 1] = x /\ \A i \in 1 .. n : t[i] = s[i]
  BY AppendProperties, LenProperties
<1>. HIDE DEF t
<1>2. ItemsIn(t) = ItemsIn(s) \cup {x}
  <2>1. \A y \in ItemsIn(t) : y \in ItemsIn(s) \cup {x}
    <3>1. SUFFICES ASSUME NEW i \in 1 .. n + 1 PROVE t[i] \in ItemsIn(s) \cup {x}  BY <1>1 DEF ItemsIn
    <3>2. i = n + 1 \/ i \in 1 .. n  BY <1>1
    <3>. QED  BY <1>1, <3>2 DEF ItemsIn
  <2>2. \A y \in ItemsIn(s) : y \in ItemsIn(t)
    <3>1. SUFFICES ASSUME NEW i \in 1 .. n PROVE s[i] \in ItemsIn(t)  BY DEF ItemsIn
    <3>2. i \in 1 .. Len(t) /\ t[i] = s[i]  BY <1>1
    <3>. QED  BY <3>2 DEF ItemsIn
  <2>3. x \in ItemsIn(t)
    <3>1. n + 1 \in 1 .. Len(t)  BY <1>1
    <3>. QED  BY <1>1, <3>1 DEF ItemsIn
  <2>. QED  BY <2>1, <2>2, <2>3
<1>3. ASSUME NEW R, OrderedBy(s, R), \A y \in ItemsIn(s) : <<y, x>> \in R PROVE OrderedBy(t, R)
  <2>1. SUFFICES ASSUME NEW i \in 1 .. n + 1, NEW j \in 1 .. n + 1, i < j PROVE <<t[i], t[j]>> \in R
    BY <1>1 DEF OrderedBy
  <2>2. i \in 1 .. n  BY <1>1, <2>1
  <2>3. CASE j = n + 1
    <3>1. s[i] \in ItemsIn(s)  BY <2>2 DEF ItemsIn
    <3>2. <<s[i], x>> \in R  BY <1>3, <3>1
    <3>. QED  BY <1>1, <2>2, <2>3, <3>2
  <2>4. CASE j # n + 1
    <3>1. j \in 1 .. n  BY <1>1, <2>4
    <3>2. <<s[i], s[j]>> \in R  BY <1>3, <2>1, <2>2, <3>1 DEF OrderedBy
    <3>. QED  BY <1>1, <2>2, <3>1, <3>2
  <2>. QED  BY <2>3, <2>4
<1>. QED  BY <1>2, <1>3 DEF t

\* They are in the order of the sequence.
LEMMA OnlyFacts ==
    ASSUME NEW V, NEW s \in Seq(V), NEW K
    PROVE  /\ Only(s, K) \in Seq(V)
           /\ ItemsIn(Only(s, K)) = ItemsIn(s) \cap K
           /\ \A R : OrderedBy(s, R) => OrderedBy(Only(s, K), R)
<1>1. PICK st : Picks(st, s, K, V) /\ Only(s, K) = st[Len(s)]  BY OnlyPicks
<1>. DEFINE n == Len(s)
            Upto(i) == {s[j] : j \in 1 .. i}
            T == {i \in 0 .. n : /\ ItemsIn(st[i]) = Upto(i) \cap K
                                 /\ \A R : OrderedBy(s, R) => OrderedBy(st[i], R)}
<1>2. n \in Nat /\ \A i \in 1 .. n : s[i] \in V  BY ElementOfSeq, LenProperties
<1>3. /\ \A i \in 0 .. n : st[i] \in Seq(V)
      /\ st[0] = <<>> /\ \A i \in 1 .. n : st[i] = IF s[i] \in K THEN Append(st[i - 1], s[i]) ELSE st[i - 1]
  BY <1>1 DEF Picks
<1>4. 0 \in T
  <2>1. ItemsIn(<<>>) = {} /\ \A R : OrderedBy(<<>>, R)  BY DEF ItemsIn, OrderedBy
  <2>2. Upto(0) = {}  OBVIOUS
  <2>. QED  BY <1>2, <1>3, <2>1, <2>2
<1>5. ASSUME NEW i \in 0 .. n, i # n, i \in T PROVE i + 1 \in T
  <2>. DEFINE k == i + 1
  <2>1. k \in 1 .. n /\ k - 1 = i /\ k \in 0 .. n /\ \A j \in 1 .. k : j = k \/ j \in 1 .. i  BY <1>2, <1>5
  <2>2. st[i] \in Seq(V) /\ s[k] \in V /\ st[k] = IF s[k] \in K THEN Append(st[i], s[k]) ELSE st[i]
    BY <1>2, <1>3, <2>1
  <2>3. ItemsIn(st[i]) = Upto(i) \cap K /\ \A R : OrderedBy(s, R) => OrderedBy(st[i], R)  BY <1>5
  <2>4. Upto(k) = Upto(i) \cup {s[k]}
    <3>1. k \in 1 .. k /\ \A j \in 1 .. i : j \in 1 .. k  BY <1>2
    <3>. HIDE DEF k
    <3>. QED  BY <2>1, <3>1
  <2>5. ASSUME NEW R, OrderedBy(s, R) PROVE \A y \in Upto(i) : <<y, s[k]>> \in R
    <3>1. SUFFICES ASSUME NEW j \in 1 .. i PROVE <<s[j], s[k]>> \in R  OBVIOUS
    <3>2. j \in 1 .. n /\ j < k  BY <1>2, <2>1
    <3>. HIDE DEF k
    <3>. QED  BY <2>1, <2>5, <3>2 DEF OrderedBy
  <2>. HIDE DEF k, Upto
  <2>6. CASE s[k] \in K
    <3>1. st[k] = Append(st[i], s[k])  BY <2>2, <2>6
    <3>2. ItemsIn(st[k]) = ItemsIn(st[i]) \cup {s[k]}  BY <2>2, <3>1, AppendItems
    <3>3. ItemsIn(st[k]) = Upto(k) \cap K  BY <2>3, <2>4, <2>6, <3>2
    <3>4. ASSUME NEW R, OrderedBy(s, R) PROVE OrderedBy(st[k], R)
      <4>1. OrderedBy(st[i], R) /\ \A y \in ItemsIn(st[i]) : <<y, s[k]>> \in R  BY <2>3, <2>5, <3>4
      <4>. QED  BY <2>2, <3>1, <4>1, AppendItems
    <3>. QED  BY <2>1, <3>3, <3>4 DEF k
  <2>7. CASE s[k] \notin K
    <3>1. st[k] = st[i]  BY <2>2, <2>7
    <3>2. ItemsIn(st[k]) = Upto(k) \cap K  BY <2>3, <2>4, <2>7, <3>1
    <3>. QED  BY <2>1, <2>3, <3>1, <3>2 DEF k
  <2>. QED  BY <2>6, <2>7
<1>6. \A i \in 0 .. n : i \in T
  <2>. HIDE DEF T
  <2>1. 0 \in Int /\ n \in Int /\ 0 <= n  BY <1>2
  <2>. QED  BY <1>4, <1>5, <2>1, IntervalInduction
<1>7. n \in T /\ n \in 0 .. n
  <2>1. n \in 0 .. n  BY <1>2
  <2>. QED  BY <1>6, <2>1
<1>8. Upto(n) = ItemsIn(s)  BY DEF ItemsIn
<1>. HIDE DEF Upto
<1>. QED  BY <1>1, <1>3, <1>7, <1>8


-----------------------------------------------------------------------------
(* Orders                                                                   *)

StrictOrder(R, S) ==
    /\ \A m \in S : <<m, m>> \notin R
    /\ \A m, n \in S : m # n => <<m, n>> \in R \/ <<n, m>> \in R
    /\ \A l, m, n \in S : <<l, m>> \in R /\ <<m, n>> \in R => <<l, n>> \in R

PlaceIn(m, R, S) == Cardinality({n \in S : <<n, m>> \in R})

\* There is one item of S in each place.
LEMMA PlaceFacts ==
    ASSUME NEW S, IsFiniteSet(S), NEW R, StrictOrder(R, S)
    PROVE  /\ Cardinality(S) \in Nat
           /\ \A m \in S : PlaceIn(m, R, S) \in 0 .. Cardinality(S) - 1
           /\ \A m, n \in S : <<m, n>> \in R => PlaceIn(m, R, S) < PlaceIn(n, R, S)
           /\ \A m, n \in S : PlaceIn(m, R, S) = PlaceIn(n, R, S) => m = n
           /\ \A k \in 0 .. Cardinality(S) - 1 : \E m \in S : PlaceIn(m, R, S) = k
<1>. DEFINE N == Cardinality(S)
            P(m) == {n \in S : <<n, m>> \in R}
            I == 0 .. N - 1
            f == [m \in S |-> PlaceIn(m, R, S)]
<1>1. N \in Nat /\ \A T \in SUBSET S : IsFiniteSet(T) /\ Cardinality(T) \in Nat
  BY FS_Subset, FS_CardinalityType
<1>2. ASSUME NEW A \in SUBSET S, NEW B \in SUBSET S, A \subseteq B, NEW x \in B, x \notin A
      PROVE  Cardinality(A) < Cardinality(B)
  <2>1. Cardinality(A) <= Cardinality(B) /\ (Cardinality(A) = Cardinality(B) => A = B)
    BY <1>1, <1>2, FS_Subset
  <2>. QED  BY <1>1, <1>2, <2>1
<1>3. ASSUME NEW m \in S PROVE PlaceIn(m, R, S) \in I
  <2>1. P(m) \in SUBSET S /\ m \notin P(m)  BY DEF StrictOrder
  <2>2. Cardinality(P(m)) < N /\ Cardinality(P(m)) \in Nat  BY <1>1, <1>2, <2>1
  <2>. QED  BY <1>1, <2>2 DEF PlaceIn
<1>4. ASSUME NEW m \in S, NEW n \in S, <<m, n>> \in R PROVE PlaceIn(m, R, S) < PlaceIn(n, R, S)
  <2>1. P(m) \in SUBSET S /\ P(n) \in SUBSET S  OBVIOUS
  <2>2. P(m) \subseteq P(n)  BY <1>4 DEF StrictOrder
  <2>3. m \in P(n) /\ m \notin P(m)  BY <1>4 DEF StrictOrder
  <2>. HIDE DEF P
  <2>4. Cardinality(P(m)) < Cardinality(P(n))  BY <1>2, <2>1, <2>2, <2>3
  <2>. QED  BY <2>4 DEF PlaceIn, P
<1>5. ASSUME NEW m \in S, NEW n \in S, PlaceIn(m, R, S) = PlaceIn(n, R, S) PROVE m = n
  <2>1. ~(PlaceIn(m, R, S) < PlaceIn(n, R, S)) /\ ~(PlaceIn(n, R, S) < PlaceIn(m, R, S))
    BY <1>3, <1>5
  <2>. QED  BY <1>4, <2>1 DEF StrictOrder
<1>6. \A k \in I : \E m \in S : PlaceIn(m, R, S) = k
  <2>1. f \in [S -> I]  BY <1>3
  <2>2. f \in Injection(S, I)
    <3>1. \A m, n \in S : f[m] = f[n] => m = n  BY <1>5
    <3>. HIDE DEF f
    <3>. QED  BY <2>1, <3>1 DEF Injection, IsInjective
  <2>3. IsFiniteSet(I) /\ Cardinality(I) = N
    <3>1. 0 \in Int /\ N - 1 \in Int  BY <1>1
    <3>2. IsFiniteSet(I) /\ Cardinality(I) = IF 0 > N - 1 THEN 0 ELSE N - 1 - 0 + 1  BY <3>1, FS_Interval
    <3>. QED  BY <1>1, <3>2
  <2>. HIDE DEF f, I
  <2>4. f \in Surjection(S, I)  BY <2>2, <2>3, FS_Injection DEF N
  <2>5. \A k \in I : \E m \in S : f[m] = k  BY <2>4 DEF Surjection
  <2>. QED  BY <2>5 DEF f
<1>. QED  BY <1>1, <1>3, <1>4, <1>5, <1>6

\* The items of S in the order R.
InOrder(s, S, R) ==
    /\ s \in Seq(S) /\ Len(s) = Cardinality(S) /\ ItemsIn(s) = S /\ OrderedBy(s, R)
    /\ \A i \in 1 .. Len(s) : PlaceIn(s[i], R, S) = i - 1

LEMMA FunctionIsSeq == ASSUME NEW S, NEW N \in Nat, NEW s \in [1 .. N -> S] PROVE s \in Seq(S) /\ Len(s) = N
OBVIOUS

LEMMA PlacedInOrder ==
    ASSUME NEW S, IsFiniteSet(S), NEW R, StrictOrder(R, S),
           NEW s, s = [i \in 1 .. Cardinality(S) |-> CHOOSE m \in S : PlaceIn(m, R, S) = i - 1]
    PROVE  InOrder(s, S, R)
<1>. DEFINE N == Cardinality(S)
            P(m) == PlaceIn(m, R, S)
<1>1. /\ N \in Nat
      /\ \A m \in S : P(m) \in 0 .. N - 1
      /\ \A m, n \in S : <<m, n>> \in R => P(m) < P(n)
      /\ \A m, n \in S : P(m) = P(n) => m = n
      /\ \A k \in 0 .. N - 1 : \E m \in S : P(m) = k
  BY PlaceFacts
<1>2. ASSUME NEW i \in 1 .. N PROVE s[i] \in S /\ P(s[i]) = i - 1
  <2>1. i - 1 \in 0 .. N - 1  BY <1>1
  <2>2. \E m \in S : P(m) = i - 1  BY <1>1, <2>1
  <2>. QED  BY <2>2
<1>. HIDE DEF N, P
<1>3. s \in Seq(S) /\ Len(s) = N
  <2>1. s = [i \in 1 .. N |-> s[i]]  BY DEF N
  <2>2. s \in [1 .. N -> S]  BY <1>2, <2>1
  <2>3. N \in Nat  BY <1>1
  <2>. QED  BY <2>2, <2>3, FunctionIsSeq
<1>4. ItemsIn(s) = S
  <2>1. \A m \in S : \E i \in 1 .. N : s[i] = m
    <3>1. SUFFICES ASSUME NEW m \in S PROVE \E i \in 1 .. N : s[i] = m  OBVIOUS
    <3>. DEFINE i == P(m) + 1
    <3>2. i \in 1 .. N /\ i - 1 = P(m)  BY <1>1
    <3>. HIDE DEF i
    <3>3. s[i] \in S /\ P(s[i]) = P(m)  BY <1>2, <3>2
    <3>4. s[i] = m  BY <1>1, <3>3
    <3>. QED  BY <3>2, <3>4
  <2>2. \A i \in 1 .. N : s[i] \in S  BY <1>2
  <2>3. Len(s) = N  BY <1>3
  <2>4. ItemsIn(s) = {s[i] : i \in 1 .. N}  BY <2>3 DEF ItemsIn
  <2>. QED  BY <2>1, <2>2, <2>4
<1>5. OrderedBy(s, R)
  <2>1. SUFFICES ASSUME NEW i \in 1 .. N, NEW j \in 1 .. N, i < j PROVE <<s[i], s[j]>> \in R
    BY <1>3 DEF OrderedBy
  <2>2. s[i] \in S /\ s[j] \in S /\ P(s[i]) = i - 1 /\ P(s[j]) = j - 1  BY <1>2
  <2>3. ~(P(s[j]) < P(s[i])) /\ P(s[j]) # P(s[i])  BY <1>1, <2>1, <2>2
  <2>4. s[i] # s[j]  BY <2>3
  <2>. QED  BY <1>1, <2>2, <2>3, <2>4 DEF StrictOrder
<1>. QED  BY <1>2, <1>3, <1>4, <1>5 DEF InOrder, N, P

\* Whatever is in the order has its items in their places, so that there is one such sequence.
LEMMA OrderedPlaces ==
    ASSUME NEW S, NEW R, StrictOrder(R, S), NEW s \in Seq(S), ItemsIn(s) = S, OrderedBy(s, R)
    PROVE  IsFiniteSet(S) /\ InOrder(s, S, R)
<1>. DEFINE n == Len(s)
<1>1. n \in Nat /\ s \in [1 .. n -> S] /\ \A i \in 1 .. n : s[i] \in S  BY ElementOfSeq, LenProperties
<1>. HIDE DEF n
<1>2. ASSUME NEW i \in 1 .. n, NEW j \in 1 .. n PROVE (<<s[i], s[j]>> \in R <=> i < j) /\ (s[i] = s[j] => i = j)
  <2>1. i < j => <<s[i], s[j]>> \in R  BY DEF OrderedBy, n
  <2>2. j < i => <<s[j], s[i]>> \in R  BY DEF OrderedBy, n
  <2>3. i < j \/ j < i \/ i = j  BY <1>1
  <2>4. ~(i < j /\ j < i)  BY <1>1
  <2>. QED  BY <1>1, <2>1, <2>2, <2>3, <2>4 DEF StrictOrder
<1>3. ASSUME NEW k \in 0 .. n
      PROVE  LET T == {s[j] : j \in 1 .. k} IN IsFiniteSet(T) /\ Cardinality(T) = k
  <2>. DEFINE T == {s[j] : j \in 1 .. k}
              f == [j \in 1 .. k |-> s[j]]
  <2>1. k \in Nat /\ \A j \in 1 .. k : j \in 1 .. n  BY <1>1
  <2>2. f \in Bijection(1 .. k, T)
    <3>1. f \in [1 .. k -> T] /\ \A x \in T : \E j \in 1 .. k : f[j] = x  OBVIOUS
    <3>2. \A i, j \in 1 .. k : f[i] = f[j] => i = j  BY <1>2, <2>1
    <3>. HIDE DEF f, T
    <3>. QED  BY <3>1, <3>2 DEF Bijection, Injection, IsInjective, Surjection
  <2>. HIDE DEF f, T
  <2>3. ExistsBijection(1 .. k, T)  BY <2>2 DEF ExistsBijection
  <2>4. IsFiniteSet(1 .. k) /\ Cardinality(T) = k  BY <2>1, <2>3, FS_CountingElements, FS_Interval
  <2>5. IsFiniteSet(T)  BY <2>3, <2>4, FS_Bijection
  <2>. QED  BY <2>4, <2>5 DEF T
<1>4. IsFiniteSet(S) /\ Cardinality(S) = n
  <2>1. n \in 0 .. n  BY <1>1
  <2>. QED  BY <1>3, <2>1 DEF ItemsIn, n
<1>5. ASSUME NEW i \in 1 .. n PROVE PlaceIn(s[i], R, S) = i - 1
  <2>1. {x \in S : <<x, s[i]>> \in R} = {s[j] : j \in 1 .. i - 1}
    <3>1. S = {s[j] : j \in 1 .. n}  BY DEF ItemsIn, n
    <3>2. \A j \in 1 .. n : <<s[j], s[i]>> \in R <=> j < i  BY <1>2
    <3>3. \A j \in 1 .. i - 1 : j \in 1 .. n /\ j < i  BY <1>1
    <3>4. \A j \in 1 .. n : j < i => j \in 1 .. i - 1  BY <1>1
    <3>. QED  BY <3>1, <3>2, <3>3, <3>4
  <2>2. i - 1 \in 0 .. n  BY <1>1
  <2>. QED  BY <1>3, <2>1, <2>2 DEF PlaceIn
<1>. QED  BY <1>1, <1>4, <1>5 DEF InOrder, n

LEMMA OrderIsOne ==
    ASSUME NEW S, NEW R, StrictOrder(R, S), NEW s, InOrder(s, S, R), NEW t, InOrder(t, S, R), IsFiniteSet(S)
    PROVE  s = t
<1>. DEFINE n == Cardinality(S)
<1>1. s \in Seq(S) /\ t \in Seq(S) /\ Len(s) = n /\ Len(t) = n  BY DEF InOrder
<1>2. \A i \in 1 .. n : s[i] \in S /\ t[i] \in S  BY <1>1, ElementOfSeq
<1>3. \A i \in 1 .. n : PlaceIn(s[i], R, S) = i - 1 /\ PlaceIn(t[i], R, S) = i - 1  BY DEF InOrder
<1>4. \A l, m \in S : PlaceIn(l, R, S) = PlaceIn(m, R, S) => l = m  BY PlaceFacts
<1>5. \A i \in 1 .. n : s[i] = t[i]  BY <1>2, <1>3, <1>4
<1>. HIDE DEF n
<1>. QED  BY <1>1, <1>5, SeqEqual


-----------------------------------------------------------------------------
(* The order of texts                                                       *)

LEMMA LessFacts ==
    /\ \A a \in Seq(Nat) : ~Less(a, a)
    /\ \A a, b \in Seq(Nat) : a # b => Less(a, b) \/ Less(b, a)
    /\ \A a, b, c \in Seq(Nat) : Less(a, b) /\ Less(b, c) => Less(a, c)
<1>0. \A a \in Seq(Nat) : Len(a) \in Nat /\ \A i \in 1 .. Len(a) : a[i] \in Nat  BY ElementOfSeq, LenProperties
<1>1. ASSUME NEW a \in Seq(Nat) PROVE ~Less(a, a)
  <2>1. ASSUME NEW i \in 1 .. Len(a), i = Len(a) + 1 \/ a[i] < a[i] PROVE FALSE  BY <1>0, <2>1
  <2>. QED  BY <2>1 DEF Less
<1>2. ASSUME NEW a \in Seq(Nat), NEW b \in Seq(Nat), a # b PROVE Less(a, b) \/ Less(b, a)
  <2>. DEFINE Differs(i) == i = Len(a) + 1 \/ i = Len(b) + 1 \/ a[i] # b[i]
              D == {i \in Nat \ {0} : i <= Len(a) + 1 /\ i <= Len(b) + 1 /\ Differs(i)}
  <2>1. Len(a) \in Nat /\ Len(b) \in Nat  BY <1>0
  <2>2. D # {}
    <3>1. CASE Len(a) <= Len(b)
      <4>1. Len(a) + 1 \in D  BY <2>1, <3>1
      <4>. QED  BY <4>1
    <3>2. CASE Len(b) <= Len(a)
      <4>1. Len(b) + 1 \in D  BY <2>1, <3>2
      <4>. QED  BY <4>1
    <3>. QED  BY <2>1, <3>1, <3>2
  <2>3. PICK i \in D : \A j \in D : i <= j
    <3>1. D \in SUBSET Nat  OBVIOUS
    <3>. HIDE DEF D
    <3>. QED  BY <2>2, <3>1, LeastExists
  <2>4. i \in Nat \ {0} /\ i <= Len(a) + 1 /\ i <= Len(b) + 1 /\ Differs(i)  OBVIOUS
  <2>5. \A j \in 1 .. i - 1 : j \in 1 .. Len(a) /\ j \in 1 .. Len(b) /\ a[j] = b[j]
    <3>1. SUFFICES ASSUME NEW j \in 1 .. i - 1 PROVE j \in 1 .. Len(a) /\ j \in 1 .. Len(b) /\ a[j] = b[j]  OBVIOUS
    <3>2. j \in 1 .. Len(a) /\ j \in 1 .. Len(b) /\ j < i /\ j \in Nat \ {0}  BY <2>1, <2>4
    <3>3. j \notin D  BY <2>3, <2>4, <3>2
    <3>. QED  BY <2>1, <3>2, <3>3
  <2>. HIDE DEF D
  <2>6. CASE i = Len(a) + 1 /\ i = Len(b) + 1
    <3>1. Len(a) = Len(b) /\ \A j \in 1 .. Len(a) : a[j] = b[j]  BY <2>1, <2>5, <2>6
    <3>2. a = b  BY <3>1, SeqEqual
    <3>. QED  BY <1>2, <3>2
  <2>7. CASE i = Len(a) + 1 /\ i # Len(b) + 1
    <3>1. i \in 1 .. Len(b) /\ i <= Len(a) + 1  BY <2>1, <2>4, <2>7
    <3>. QED  BY <2>5, <2>7, <3>1 DEF Less
  <2>8. CASE i # Len(a) + 1 /\ i = Len(b) + 1
    <3>1. i \in 1 .. Len(a) /\ i <= Len(b) + 1  BY <2>1, <2>4, <2>8
    <3>. QED  BY <2>5, <2>8, <3>1 DEF Less
  <2>9. CASE i # Len(a) + 1 /\ i # Len(b) + 1
    <3>1. i \in 1 .. Len(a) /\ i \in 1 .. Len(b) /\ i <= Len(a) + 1 /\ i <= Len(b) + 1  BY <2>1, <2>4, <2>9
    <3>2. a[i] # b[i] /\ a[i] \in Nat /\ b[i] \in Nat  BY <1>0, <2>4, <2>9, <3>1
    <3>3. a[i] < b[i] \/ b[i] < a[i]  BY <3>2
    <3>. QED  BY <2>5, <3>1, <3>3 DEF Less
  <2>. QED  BY <2>6, <2>7, <2>8, <2>9
<1>3. ASSUME NEW a \in Seq(Nat), NEW b \in Seq(Nat), NEW c \in Seq(Nat), Less(a, b), Less(b, c) PROVE Less(a, c)
  <2>1. PICK i \in 1 .. Len(b) : /\ i <= Len(a) + 1 /\ \A j \in 1 .. i - 1 : a[j] = b[j]
                                 /\ i = Len(a) + 1 \/ a[i] < b[i]
    BY <1>3 DEF Less
  <2>2. PICK k \in 1 .. Len(c) : /\ k <= Len(b) + 1 /\ \A j \in 1 .. k - 1 : b[j] = c[j]
                                 /\ k = Len(b) + 1 \/ b[k] < c[k]
    BY <1>3 DEF Less
  <2>3. Len(a) \in Nat /\ Len(b) \in Nat /\ Len(c) \in Nat  BY <1>0
  <2>4. CASE i < k
    <3>1. i \in 1 .. Len(c) /\ b[i] = c[i] /\ \A j \in 1 .. i - 1 : j \in 1 .. k - 1  BY <2>2, <2>3, <2>4
    <3>2. \A j \in 1 .. i - 1 : a[j] = c[j]  BY <2>1, <2>2, <3>1
    <3>3. i = Len(a) + 1 \/ a[i] < c[i]  BY <2>1, <3>1
    <3>. QED  BY <2>1, <3>1, <3>2, <3>3 DEF Less
  <2>5. CASE i = k
    <3>1. \A j \in 1 .. i - 1 : a[j] = c[j]  BY <2>1, <2>2, <2>5
    <3>2. i = Len(a) + 1 \/ a[i] < c[i]
      <4>1. CASE i # Len(a) + 1
        <5>1. i \in 1 .. Len(a) /\ i \in 1 .. Len(c) /\ i # Len(b) + 1  BY <2>1, <2>3, <2>5, <4>1
        <5>2. a[i] < b[i] /\ b[i] < c[i]  BY <2>1, <2>2, <2>5, <4>1, <5>1
        <5>3. a[i] \in Nat /\ b[i] \in Nat /\ c[i] \in Nat  BY <1>0, <5>1
        <5>. QED  BY <5>2, <5>3
      <4>. QED  BY <4>1
    <3>. QED  BY <2>1, <2>5, <3>1, <3>2 DEF Less
  <2>6. CASE k < i
    <3>1. k \in 1 .. i - 1 /\ a[k] = b[k] /\ k <= Len(a) + 1 /\ \A j \in 1 .. k - 1 : j \in 1 .. i - 1
      BY <2>1, <2>3, <2>6
    <3>2. \A j \in 1 .. k - 1 : a[j] = c[j]  BY <2>1, <2>2, <3>1
    <3>3. k # Len(b) + 1  BY <2>1, <2>3, <2>6
    <3>4. a[k] < c[k]  BY <2>2, <3>1, <3>3
    <3>. QED  BY <3>1, <3>2, <3>4 DEF Less
  <2>7. i < k \/ i = k \/ k < i  BY <2>3
  <2>. QED  BY <2>4, <2>5, <2>6, <2>7
<1>. QED  BY <1>1, <1>2, <1>3

\* The order of all items.
OrderOf(texts) == {mn \in (DOMAIN texts) \X (DOMAIN texts) : Precedes(texts, mn[1], mn[2])}

LEMMA OrderOfTexts ==
    ASSUME NEW texts \in Seq(Seq(Chars)), NEW S \in SUBSET (DOMAIN texts)
    PROVE  StrictOrder(OrderOf(texts), S)
<1>1. \A m \in S : m \in Nat /\ texts[m] \in Seq(Nat)
  <2>1. SUFFICES ASSUME NEW m \in S PROVE m \in Nat /\ texts[m] \in Seq(Nat)  OBVIOUS
  <2>2. m \in 1 .. Len(texts) /\ Len(texts) \in Nat  BY LenProperties
  <2>3. texts[m] \in Seq(Chars)  BY <2>2, ElementOfSeq
  <2>4. Chars \subseteq Nat  BY InfoScreenAssumption
  <2>5. texts[m] \in Seq(Nat)  BY <2>3, <2>4, SeqMonotonic
  <2>. QED  BY <2>2, <2>5
<1>2. \A m, n \in S : <<m, n>> \in OrderOf(texts) <=> Precedes(texts, m, n)  BY DEF OrderOf
<1>3. ASSUME NEW m \in S PROVE ~Precedes(texts, m, m)  BY <1>1, LessFacts DEF Precedes
<1>4. ASSUME NEW m \in S, NEW n \in S, m # n PROVE Precedes(texts, m, n) \/ Precedes(texts, n, m)
  <2>1. m < n \/ n < m  BY <1>1, <1>4
  <2>. QED  BY <1>1, <2>1, LessFacts DEF Precedes
<1>5. ASSUME NEW l \in S, NEW m \in S, NEW n \in S, Precedes(texts, l, m), Precedes(texts, m, n)
      PROVE  Precedes(texts, l, n)
  <2>1. Less(texts[l], texts[m]) /\ Less(texts[m], texts[n]) => Less(texts[l], texts[n])  BY <1>1, LessFacts
  <2>2. l < m /\ m < n => l < n  BY <1>1
  <2>. HIDE DEF Less
  <2>. QED  BY <1>5, <2>1, <2>2 DEF Precedes
<1>. QED  BY <1>2, <1>3, <1>4, <1>5 DEF StrictOrder

NumberOrder == {mn \in Nat \X Nat : mn[1] < mn[2]}

LEMMA OrderOfNumbers == ASSUME NEW S \in SUBSET Nat PROVE StrictOrder(NumberOrder, S)
<1>1. \A m, n \in S : <<m, n>> \in NumberOrder <=> m < n  BY DEF NumberOrder
<1>2. \A m \in S : ~(m < m)  OBVIOUS
<1>3. \A m, n \in S : m # n => m < n \/ n < m  OBVIOUS
<1>4. \A l, m, n \in S : l < m /\ m < n => l < n  OBVIOUS
<1>. QED  BY <1>1, <1>2, <1>3, <1>4 DEF StrictOrder

LEMMA RangeIsItems ==
    ASSUME NEW V, NEW s \in Seq(V)
    PROVE  SX!Range(s) = ItemsIn(s) /\ ItemsIn(s) \in SUBSET V /\ DOMAIN s = 1 .. Len(s) /\ Len(s) \in Nat
<1>1. DOMAIN s = 1 .. Len(s) /\ Len(s) \in Nat /\ \A i \in 1 .. Len(s) : s[i] \in V  BY ElementOfSeq, LenProperties
<1>. QED  BY <1>1 DEF SX!Range, ItemsIn

\* Items that were added one after the other are put in the order of their texts.
LEMMA SortedFacts ==
    ASSUME NEW texts \in Seq(Seq(Chars)), NEW items \in Seq(DOMAIN texts), OrderedBy(items, NumberOrder)
    PROVE  InOrder(Sorted(items, texts), ItemsIn(items), OrderOf(texts)) /\ Len(Sorted(items, texts)) = Len(items)
<1>. DEFINE S == ItemsIn(items)
            R == OrderOf(texts)
            s == Sorted(items, texts)
            P(m) == Cardinality({n \in S : Precedes(texts, n, m)})
<1>1. SX!Range(items) = S /\ S \in SUBSET DOMAIN texts /\ DOMAIN items = 1 .. Len(items)  BY RangeIsItems
<1>2. DOMAIN texts \subseteq Nat
  <2>1. DOMAIN texts = 1 .. Len(texts)  BY LenProperties
  <2>. QED  BY <2>1
<1>3. StrictOrder(R, S)  BY <1>1, OrderOfTexts
<1>4. items \in Seq(S) /\ StrictOrder(NumberOrder, S)
  <2>1. items \in Seq(S)
    <3>1. items = [i \in 1 .. Len(items) |-> items[i]] /\ Len(items) \in Nat  BY <1>1, LenProperties
    <3>2. \A i \in 1 .. Len(items) : items[i] \in S  BY DEF ItemsIn
    <3>. HIDE DEF S
    <3>3. items \in [1 .. Len(items) -> S]  BY <3>1, <3>2
    <3>. QED  BY <3>1, <3>3, FunctionIsSeq
  <2>2. S \in SUBSET Nat  BY <1>1, <1>2
  <2>. HIDE DEF S
  <2>3. StrictOrder(NumberOrder, S)  BY <2>2, OrderOfNumbers
  <2>. QED  BY <2>1, <2>3
<1>5. IsFiniteSet(S) /\ Len(items) = Cardinality(S)
  <2>1. ItemsIn(items) = S  OBVIOUS
  <2>. HIDE DEF S
  <2>2. IsFiniteSet(S) /\ InOrder(items, S, NumberOrder)  BY <1>4, <2>1, OrderedPlaces
  <2>. QED  BY <2>2 DEF InOrder
<1>6. \A m \in S : P(m) = PlaceIn(m, R, S)
  <2>1. SUFFICES ASSUME NEW m \in S PROVE P(m) = PlaceIn(m, R, S)  OBVIOUS
  <2>2. \A n \in S : <<n, m>> \in R <=> Precedes(texts, n, m)  BY <1>1 DEF OrderOf
  <2>3. {n \in S : Precedes(texts, n, m)} = {n \in S : <<n, m>> \in R}
    <3>. HIDE DEF S, R
    <3>. QED  BY <2>2
  <2>. QED  BY <2>3 DEF PlaceIn
<1>7. s = [i \in 1 .. Cardinality(S) |-> CHOOSE m \in S : P(m) = i - 1]
  <2>1. s = [i \in DOMAIN items |-> CHOOSE m \in S : P(m) = i - 1]  BY <1>1 DEF Sorted
  <2>. HIDE DEF s, S, P
  <2>. QED  BY <1>1, <1>5, <2>1
<1>. HIDE DEF P, s, S, R
<1>8. s = [i \in 1 .. Cardinality(S) |-> CHOOSE m \in S : PlaceIn(m, R, S) = i - 1]
  <2>. DEFINE I == 1 .. Cardinality(S)
              A(i) == CHOOSE m \in S : P(m) = i - 1
              B(i) == CHOOSE m \in S : PlaceIn(m, R, S) = i - 1
  <2>1. \A i \in I : A(i) = B(i)  BY <1>6
  <2>2. s = [i \in I |-> A(i)]  BY <1>7
  <2>. HIDE DEF I, A, B
  <2>3. s = [i \in I |-> B(i)]  BY <2>1, <2>2
  <2>. QED  BY <2>3 DEF I, B
<1>9. InOrder(s, S, R)  BY <1>3, <1>5, <1>8, PlacedInOrder
<1>10. Len(s) = Len(items)  BY <1>5, <1>9 DEF InOrder
<1>. QED  BY <1>9, <1>10 DEF s, S, R


-----------------------------------------------------------------------------
(* Reading a list                                                           *)

\* What InfoScreen_addLine works on.
Screens == [value : Seq(Seq(Chars)), lines : Seq(Nat), panel : Seq(Nat)]

LEMMA AddLineFacts ==
    ASSUME NEW s \in Screens, NEW t \in Seq(Chars)
    PROVE  LET a == InfoScreen_addLine(s, t)
               n == Len(s.value) + 1
           IN /\ a \in Screens /\ a.value = Append(s.value, t) /\ a.lines = Append(s.lines, n)
              /\ a.panel = IF Matches(t) THEN Append(s.panel, n) ELSE s.panel
<1>. DEFINE n == Len(s.value) + 1
            v == Append(s.value, t)
            l == Append(s.lines, n)
            q == IF Matches(t) THEN Append(s.panel, n) ELSE s.panel
<1>1. /\ s.value \in Seq(Seq(Chars)) /\ s.lines \in Seq(Nat) /\ s.panel \in Seq(Nat)
      /\ s = [value |-> s.value, lines |-> s.lines, panel |-> s.panel]
  BY DEF Screens
<1>2. n \in Nat  BY <1>1, LenProperties
<1>3. v \in Seq(Seq(Chars)) /\ l \in Seq(Nat) /\ Append(s.panel, n) \in Seq(Nat)
  <2>. HIDE DEF n
  <2>. QED  BY <1>1, <1>2, AppendProperties
<1>4. q \in Seq(Nat)  BY <1>1, <1>3
<1>5. InfoScreen_addLine(s, t) = [s EXCEPT !.value = v, !.lines = l, !.panel = q]
  BY <1>1 DEF InfoScreen_addLine
<1>. HIDE DEF v, l, q, n
<1>6. InfoScreen_addLine(s, t) = [value |-> v, lines |-> l, panel |-> q]  BY <1>1, <1>5
<1>7. [value |-> v, lines |-> l, panel |-> q] \in Screens  BY <1>3, <1>4 DEF Screens
<1>. QED  BY <1>6, <1>7 DEF v, l, q, n

\* What shows the first i of the texts that pass the filter.
ShowsFirst(s, texts, i) ==
    /\ Len(s.value) = i /\ \A j \in 1 .. i : s.value[j] = texts[j]
    /\ ItemsIn(s.lines) = 1 .. i /\ OrderedBy(s.lines, NumberOrder)
    /\ ItemsIn(s.panel) = {j \in 1 .. i : Matches(texts[j])} /\ OrderedBy(s.panel, NumberOrder)

LEMMA ShowsNext ==
    ASSUME NEW texts \in Seq(Seq(Chars)), NEW i \in 0 .. Len(texts), i # Len(texts),
           NEW s \in Screens, ShowsFirst(s, texts, i)
    PROVE  ShowsFirst(InfoScreen_addLine(s, texts[i + 1]), texts, i + 1)
<1>. DEFINE n == i + 1
            t == texts[n]
            a == InfoScreen_addLine(s, t)
<1>1. n \in 1 .. Len(texts) /\ n \in Nat /\ i \in Nat /\ n = i + 1  BY LenProperties
<1>2. t \in Seq(Chars)
  <2>. HIDE DEF n
  <2>. QED  BY <1>1, ElementOfSeq
<1>3. /\ s.value \in Seq(Seq(Chars)) /\ s.lines \in Seq(Nat) /\ s.panel \in Seq(Nat) /\ Len(s.value) + 1 = n
      /\ \A j \in 1 .. i : s.value[j] = texts[j]
      /\ ItemsIn(s.lines) = 1 .. i /\ OrderedBy(s.lines, NumberOrder)
      /\ ItemsIn(s.panel) = {j \in 1 .. i : Matches(texts[j])} /\ OrderedBy(s.panel, NumberOrder)
  BY DEF ShowsFirst, Screens
<1>. HIDE DEF n, t
<1>4. /\ a.value = Append(s.value, t) /\ a.lines = Append(s.lines, n)
      /\ a.panel = IF Matches(t) THEN Append(s.panel, n) ELSE s.panel
  BY <1>2, <1>3, AddLineFacts
<1>. HIDE DEF a
<1>5. \A j \in 1 .. i : <<j, n>> \in NumberOrder
  <2>1. \A j \in 1 .. i : j \in Nat /\ j < n  BY <1>1
  <2>. QED  BY <1>1, <2>1 DEF NumberOrder
<1>6. 1 .. n = (1 .. i) \cup {n} /\ n \notin 1 .. i
  <2>1. \A j \in Int : j \in 1 .. n <=> j \in 1 .. i \/ j = n  BY <1>1
  <2>2. 1 .. n \subseteq Int /\ 1 .. i \subseteq Int /\ n \in Int  BY <1>1
  <2>3. n \notin 1 .. i  BY <1>1
  <2>. QED  BY <2>1, <2>2, <2>3
<1>7. Len(a.value) = n /\ \A j \in 1 .. n : a.value[j] = texts[j]
  <2>1. Len(Append(s.value, t)) = n /\ Append(s.value, t)[n] = t /\ \A j \in 1 .. i : Append(s.value, t)[j] = s.value[j]
    BY <1>1, <1>2, <1>3, AppendProperties
  <2>2. \A j \in 1 .. n : j = n \/ j \in 1 .. i  BY <1>6
  <2>. QED  BY <1>3, <1>4, <2>1, <2>2 DEF t
<1>8. ItemsIn(a.lines) = 1 .. n /\ OrderedBy(a.lines, NumberOrder)
  <2>0. s.lines \in Seq(Nat) /\ n \in Nat  BY <1>1, <1>3
  <2>1. ItemsIn(Append(s.lines, n)) = ItemsIn(s.lines) \cup {n}  BY <2>0, AppendItems
  <2>2. OrderedBy(Append(s.lines, n), NumberOrder)  BY <1>3, <1>5, <2>0, AppendItems
  <2>. QED  BY <1>3, <1>4, <1>6, <2>1, <2>2
<1>9. ItemsIn(a.panel) = {j \in 1 .. n : Matches(texts[j])} /\ OrderedBy(a.panel, NumberOrder)
  <2>1. CASE Matches(t)
    <3>1. ItemsIn(Append(s.panel, n)) = ItemsIn(s.panel) \cup {n}  BY <1>1, <1>3, AppendItems
    <3>2. \A y \in ItemsIn(s.panel) : <<y, n>> \in NumberOrder  BY <1>3, <1>5
    <3>3. OrderedBy(Append(s.panel, n), NumberOrder)  BY <1>1, <1>3, <3>2, AppendItems
    <3>4. {j \in 1 .. n : Matches(texts[j])} = {j \in 1 .. i : Matches(texts[j])} \cup {n}
      BY <1>6, <2>1 DEF t
    <3>. QED  BY <1>3, <1>4, <2>1, <3>1, <3>3, <3>4
  <2>2. CASE ~Matches(t)
    <3>1. {j \in 1 .. n : Matches(texts[j])} = {j \in 1 .. i : Matches(texts[j])}
      BY <1>6, <2>2 DEF t
    <3>. QED  BY <1>3, <1>4, <2>2, <3>1
  <2>. QED  BY <2>1, <2>2
<1>10. ShowsFirst(a, texts, n)  BY <1>7, <1>8, <1>9 DEF ShowsFirst
<1>. QED  BY <1>10 DEF a, t, n

NoLines == [value |-> <<>>, lines |-> <<>>, panel |-> <<>>]

\* All of them are read, in their order, and those that pass the filter are shown.
LEMMA ScanFold ==
    ASSUME NEW texts \in Seq(Seq(Chars))
    PROVE  /\ SX!FoldLeft(InfoScreen_addLine, NoLines, texts) \in Screens
           /\ SX!FoldLeft(InfoScreen_addLine, NoLines, texts).value = texts
           /\ ShowsFirst(SX!FoldLeft(InfoScreen_addLine, NoLines, texts), texts, Len(texts))
<1>. DEFINE n == Len(texts)
            W == Screens
            add == [i \in 1 .. n |-> [s \in W |-> InfoScreen_addLine(s, texts[i])]]
            Iter(g) == g = [r \in SUBSET DOMAIN texts |->
                              IF r = {} THEN NoLines ELSE InfoScreen_addLine(g[r \ {LastIn(r)}], texts[LastIn(r)])]
            all == SX!FoldLeft(InfoScreen_addLine, NoLines, texts)
<1>1. n \in Nat /\ DOMAIN texts = 1 .. n /\ \A i \in 1 .. n : texts[i] \in Seq(Chars)  BY ElementOfSeq, LenProperties
<1>2. all = (CHOOSE h : Iter(h))[DOMAIN texts]  BY DEF SX!FoldLeft, SX!MapThenFoldSet, LastIn
<1>3. NoLines \in W /\ ShowsFirst(NoLines, texts, 0)
  <2>1. <<>> \in Seq(Seq(Chars)) /\ <<>> \in Seq(Nat) /\ Len(<<>>) = 0  OBVIOUS
  <2>2. 1 .. 0 = {}  OBVIOUS
  <2>3. ItemsIn(<<>>) = {} /\ OrderedBy(<<>>, NumberOrder)  BY <2>1, <2>2 DEF ItemsIn, OrderedBy
  <2>4. NoLines.value = <<>> /\ NoLines.lines = <<>> /\ NoLines.panel = <<>>  BY DEF NoLines
  <2>5. NoLines \in W  BY <2>1 DEF NoLines, Screens
  <2>6. ShowsFirst(NoLines, texts, 0)  BY <2>1, <2>2, <2>3, <2>4 DEF ShowsFirst
  <2>. QED  BY <2>5, <2>6
<1>4. add \in [1 .. n -> [W -> W]]
  <2>1. \A i \in 1 .. n : \A s \in Screens : InfoScreen_addLine(s, texts[i]) \in Screens
    <3>1. SUFFICES ASSUME NEW i \in 1 .. n, NEW s \in Screens PROVE InfoScreen_addLine(s, texts[i]) \in Screens  OBVIOUS
    <3>. QED  BY <1>1, AddLineFacts
  <2>. QED  BY <2>1
<1>5. \A i \in 1 .. n : \A s \in W : add[i][s] = InfoScreen_addLine(s, texts[i])  OBVIOUS
<1>. HIDE DEF all, add, n, W
<1>6. PICK g \in [SUBSET (1 .. n) -> W] : Folded(g, n, NoLines, add)  BY <1>1, <1>3, <1>4, LastFolded
<1>7. Iter(g)
  <2>1. ASSUME NEW r \in SUBSET (1 .. n)
        PROVE  g[r] = IF r = {} THEN NoLines ELSE InfoScreen_addLine(g[r \ {LastIn(r)}], texts[LastIn(r)])
    <3>1. CASE r = {}  BY <1>6, <3>1 DEF Folded
    <3>2. CASE r # {}
      <4>1. g[r] = add[LastIn(r)][g[r \ {LastIn(r)}]]  BY <1>6, <3>2 DEF Folded
      <4>2. LastIn(r) \in 1 .. n  BY <1>1, <3>2, LastInFacts
      <4>3. g[r \ {LastIn(r)}] \in W  BY <1>6
      <4>. QED  BY <1>5, <3>2, <4>1, <4>2, <4>3
    <3>. QED  BY <3>1, <3>2
  <2>. QED  BY <1>1, <1>6, <2>1
<1>8. PICK h : Iter(h) /\ all = h[1 .. n]
  <2>. HIDE DEF Iter
  <2>. QED  BY <1>1, <1>2, <1>7
<1>9. FoldsLeft(h, n, W, NoLines, add)
  <2>1. h[{}] = NoLines  BY <1>8
  <2>2. ASSUME NEW r \in SUBSET (1 .. n), r # {}, h[r \ {LastIn(r)}] \in W
        PROVE  h[r] = add[LastIn(r)][h[r \ {LastIn(r)}]]
    <3>1. h[r] = InfoScreen_addLine(h[r \ {LastIn(r)}], texts[LastIn(r)])  BY <1>1, <1>8, <2>2
    <3>2. LastIn(r) \in 1 .. n  BY <1>1, <2>2, LastInFacts
    <3>. HIDE DEF Iter
    <3>. QED  BY <1>5, <2>2, <3>1, <3>2
  <2>. HIDE DEF Iter
  <2>. QED  BY <2>1, <2>2 DEF FoldsLeft
<1>. HIDE DEF Iter
<1>10. PICK st : StepsOf(st, n, W, NoLines, add) /\ h[1 .. n] = st[n]  BY <1>1, <1>3, <1>4, <1>9, FoldSteps
<1>. DEFINE T == {i \in 0 .. n : ShowsFirst(st[i], texts, i)}
<1>11. \A i \in 0 .. n : i \in T
  <2>1. 0 \in T  BY <1>1, <1>3, <1>10 DEF StepsOf
  <2>2. ASSUME NEW i \in 0 .. n, i # n, i \in T PROVE i + 1 \in T
    <3>. DEFINE k == i + 1
    <3>1. k \in 1 .. n /\ k - 1 = i /\ k \in 0 .. n  BY <1>1, <2>2
    <3>2. ShowsFirst(st[i], texts, i) /\ st[i] \in W  BY <1>10, <2>2 DEF StepsOf
    <3>3. ShowsFirst(InfoScreen_addLine(st[i], texts[k]), texts, k)  BY <2>2, <3>2, ShowsNext DEF n, W
    <3>. HIDE DEF k
    <3>4. st[k] = add[k][st[k - 1]]  BY <1>10, <3>1 DEF StepsOf
    <3>5. st[k] = InfoScreen_addLine(st[i], texts[k])  BY <1>5, <3>1, <3>2, <3>4
    <3>6. k \in T  BY <3>1, <3>3, <3>5
    <3>. QED  BY <3>6 DEF k
  <2>. HIDE DEF T
  <2>3. 0 \in Int /\ n \in Int /\ 0 <= n  BY <1>1
  <2>. QED  BY <2>1, <2>2, <2>3, IntervalInduction
<1>12. all \in W /\ ShowsFirst(all, texts, n)
  <2>1. n \in 0 .. n  BY <1>1
  <2>. QED  BY <1>8, <1>10, <1>11, <2>1 DEF StepsOf
<1>13. all.value = texts
  <2>1. all.value \in Seq(Seq(Chars)) /\ Len(all.value) = Len(texts) /\ \A j \in 1 .. Len(texts) : all.value[j] = texts[j]
    BY <1>12 DEF ShowsFirst, W, n, Screens
  <2>. QED  BY <2>1, SeqEqual
<1>. QED  BY <1>12, <1>13 DEF all, n, W


-----------------------------------------------------------------------------
(* The keys of search and filter                                            *)

Modes == {"search", "filter"}

\* A row of the panel, or the first of an empty one.
IsRow(i, items) == i \in Nat /\ i <= (IF items = <<>> THEN 0 ELSE Len(items) - 1)

\* The items that pass the filter.
Shown == {n \in DOMAIN value : Matches(value[n])}

TextsInv ==
    /\ buffer \in [Modes -> Seq(Chars)] /\ \A mode \in Modes : Len(buffer[mode]) <= IncModeMax
    /\ active \in Modes \cup {"none"} /\ found \in BOOLEAN
    /\ filtering = (buffer["filter"] # <<>>)

PanelInv ==
    /\ value \in Seq(Seq(Chars)) /\ lines \in Seq(DOMAIN value)
    /\ panel = Only(lines, Shown)

\* The search has looked at the lines from the cursor to where it is: those that
\* match are further away.
FindInv ==
    \/ finding = NotFinding
    \/ /\ finding \in [step : {1, -1}, at : 0 .. Len(panel) - 1]
       /\ active # "none" /\ panel # <<>>
       /\ \A i \in Hits(buffer[active]) \ {selected + 1} : Away(i - 1) > Away(finding.at)

ScreenInv == TextsInv /\ PanelInv /\ IsRow(selected, panel) /\ FindInv

LEMMA PanelFacts ==
    ASSUME PanelInv
    PROVE  panel \in Seq(DOMAIN value) /\ panel \in Seq(Nat) /\ Len(panel) \in Nat /\ DOMAIN panel = 1 .. Len(panel)
           /\ \A i \in DOMAIN panel : panel[i] \in DOMAIN value
<1>1. panel \in Seq(DOMAIN value)  BY OnlyFacts DEF PanelInv
<1>2. DOMAIN value \subseteq Nat
  <2>1. value \in Seq(Seq(Chars))  BY DEF PanelInv
  <2>2. DOMAIN value = 1 .. Len(value)  BY <2>1, LenProperties
  <2>. QED  BY <2>2
<1>3. panel \in Seq(Nat)  BY <1>1, <1>2, SeqMonotonic
<1>4. Len(panel) \in Nat /\ DOMAIN panel = 1 .. Len(panel)  BY <1>3, LenProperties
<1>5. \A i \in 1 .. Len(panel) : panel[i] \in DOMAIN value  BY <1>1, ElementOfSeq
<1>. QED  BY <1>1, <1>3, <1>4, <1>5

\* search goes to the first line that matches, if there is one.
LEMMA SearchFacts ==
    ASSUME panel \in Seq(Nat), IsRow(selected, panel), NEW text
    PROVE  /\ IsRow(Search(text), panel)
           /\ Hits(text) = {} => Search(text) = selected
           /\ Hits(text) # {} => /\ Search(text) + 1 \in Hits(text)
                                 /\ \A i \in Hits(text) : Search(text) + 1 <= i
<1>. DEFINE n == Len(panel)
<1>0. n \in Nat /\ Hits(text) \subseteq 1 .. n /\ Hits(text) \in SUBSET Nat
  <2>1. n \in Nat /\ DOMAIN panel = 1 .. n  BY LenProperties
  <2>. QED  BY <2>1 DEF Hits
<1>1. CASE Hits(text) = {}  BY <1>1 DEF Search
<1>2. CASE Hits(text) # {}
  <2>. DEFINE i == CHOOSE i \in Hits(text) : \A j \in Hits(text) : i <= j
  <2>1. i \in Hits(text) /\ \A j \in Hits(text) : i <= j
    <3>1. \E k \in Hits(text) : \A j \in Hits(text) : k <= j  BY <1>0, <1>2, LeastExists
    <3>. QED  BY <3>1
  <2>2. Search(text) = i - 1  BY <1>2 DEF Search
  <2>. HIDE DEF i
  <2>3. i \in 1 .. n /\ i - 1 + 1 = i  BY <1>0, <2>1
  <2>4. Search(text) + 1 = i /\ Search(text) \in Nat /\ Search(text) <= n - 1  BY <1>0, <2>2, <2>3
  <2>5. panel # <<>>  BY <1>0, <2>3
  <2>6. IsRow(Search(text), panel)  BY <2>4, <2>5 DEF IsRow
  <2>. QED  BY <1>2, <2>1, <2>4, <2>6
<1>. QED  BY <1>1, <1>2

\* The selection stays on its line if that is still shown.
LEMMA WeakPanelFacts ==
    ASSUME lines \in Seq(Nat), NEW on, NEW text, NEW sel, UpdateWeakPanel(on, text, sel)
    PROVE  /\ panel' \in Seq(Nat) /\ IsRow(selected, panel)'
           /\ panel # <<>> /\ SX!Contains(panel', panel[sel + 1]) => panel'[selected' + 1] = panel[sel + 1]
<1>1. panel' \in Seq(Nat)  BY OnlyFacts DEF UpdateWeakPanel
<1>2. Len(panel') \in Nat /\ DOMAIN panel' = 1 .. Len(panel')  BY <1>1, LenProperties
<1>3. CASE panel # <<>> /\ SX!Contains(panel', panel[sel + 1])
  <2>. DEFINE i == CHOOSE j \in DOMAIN panel' : panel'[j] = panel[sel + 1]
  <2>1. \E j \in DOMAIN panel' : panel'[j] = panel[sel + 1]  BY <1>2, <1>3 DEF SX!Contains
  <2>2. i \in DOMAIN panel' /\ panel'[i] = panel[sel + 1]  BY <2>1
  <2>3. selected' = i - 1  BY <1>3 DEF UpdateWeakPanel
  <2>. HIDE DEF i
  <2>4. selected' + 1 = i /\ selected' \in Nat /\ selected' <= Len(panel') - 1  BY <1>2, <2>2, <2>3
  <2>5. panel' # <<>>  BY <1>2, <2>2
  <2>6. IsRow(selected, panel)'  BY <2>4, <2>5 DEF IsRow
  <2>. QED  BY <1>1, <2>2, <2>4, <2>6
<1>4. CASE ~(panel # <<>> /\ SX!Contains(panel', panel[sel + 1]))
  <2>1. selected' = 0  BY <1>4 DEF UpdateWeakPanel
  <2>2. panel' # <<>> => 0 <= Len(panel') - 1
    <3>1. panel' # <<>> => Len(panel') # 0  BY <1>1, EmptySeq
    <3>. QED  BY <1>2, <3>1
  <2>3. IsRow(selected, panel)'  BY <2>1, <2>2 DEF IsRow
  <2>. QED  BY <1>1, <1>4, <2>3
<1>. QED  BY <1>3, <1>4

LEMMA LinesAreNumbers == ASSUME PanelInv PROVE lines \in Seq(Nat)
<1>1. value \in Seq(Seq(Chars)) /\ lines \in Seq(DOMAIN value)  BY DEF PanelInv
<1>2. DOMAIN value = 1 .. Len(value)  BY <1>1, LenProperties
<1>3. DOMAIN value \subseteq Nat  BY <1>2
<1>. QED  BY <1>1, <1>3, SeqMonotonic

\* The panel is right for the filter of the next state.
LEMMA FilterStep ==
    ASSUME PanelInv, UNCHANGED <<value, lines>>, NEW on, NEW text,
           panel' = Only(lines, {n \in DOMAIN value : ~on \/ Contains(value[n], text)}),
           filtering' = on, on => buffer'["filter"] = text
    PROVE  PanelInv'
<1>1. Shown' = {n \in DOMAIN value : ~on \/ Contains(value[n], text)}
  <2>1. Shown' = {n \in DOMAIN value : ~filtering' \/ Contains(value[n], buffer'.filter)}  BY DEF Shown, Matches, Contains
  <2>. QED  BY <2>1
<1>. QED  BY <1>1 DEF PanelInv


LEMMA TextsFacts ==
    ASSUME TextsInv, active # "none"
    PROVE  /\ active \in Modes /\ buffer[active] \in Seq(Chars) /\ Len(buffer[active]) <= IncModeMax
           /\ Len(buffer[active]) \in Nat /\ (active = "filter" => filtering = (buffer[active] # <<>>))
<1>1. active \in Modes /\ buffer[active] \in Seq(Chars) /\ Len(buffer[active]) <= IncModeMax  BY DEF TextsInv
<1>2. Len(buffer[active]) \in Nat  BY <1>1, LenProperties
<1>. QED  BY <1>1, <1>2 DEF TextsInv

\* The texts after one of them has become another.
LEMMA TextStep ==
    ASSUME TextsInv, active # "none", NEW text \in Seq(Chars), Len(text) <= IncModeMax,
           buffer' = [buffer EXCEPT ![active] = text], active' \in Modes \cup {"none"}, found' \in BOOLEAN,
           filtering' = IF active = "filter" THEN text # <<>> ELSE filtering
    PROVE  TextsInv' /\ (active = "filter" => buffer'["filter"] = text)
           /\ (active # "filter" => buffer'["filter"] = buffer["filter"])
<1>1. active \in Modes /\ buffer \in [Modes -> Seq(Chars)]  BY DEF TextsInv
<1>2. buffer' \in [Modes -> Seq(Chars)] /\ \A mode \in Modes : buffer'[mode] = IF mode = active THEN text ELSE buffer[mode]
  BY <1>1
<1>3. \A mode \in Modes : Len(buffer'[mode]) <= IncModeMax
  <2>1. SUFFICES ASSUME NEW mode \in Modes PROVE Len(buffer'[mode]) <= IncModeMax  OBVIOUS
  <2>2. buffer'[mode] = text \/ buffer'[mode] = buffer[mode]  BY <1>2
  <2>. QED  BY <2>2 DEF TextsInv
<1>4. "filter" \in Modes  BY DEF Modes
<1>5. buffer'["filter"] = IF active = "filter" THEN text ELSE buffer["filter"]  BY <1>2, <1>4
<1>6. filtering' = (buffer'["filter"] # <<>>)  BY <1>5 DEF TextsInv
<1>. QED  BY <1>2, <1>3, <1>5, <1>6 DEF TextsInv

LEMMA WaitsFacts == ASSUME ScreenInv PROVE Waits <=> finding = NotFinding
<1>1. FindInv  BY DEF ScreenInv
<1>. QED  BY <1>1 DEF FindInv, Waits, NotFinding

\* Only the selection changes, and whether a line was found.
LEMMA CursorStep ==
    ASSUME ScreenInv, UNCHANGED <<value, lines, panel, active, buffer, filtering>>,
           found' \in BOOLEAN, IsRow(selected', panel), finding' = NotFinding
    PROVE  ScreenInv'
<1>1. TextsInv'  BY DEF ScreenInv, TextsInv
<1>2. PanelInv'  BY DEF ScreenInv, PanelInv, Shown, Matches, Contains
<1>3. IsRow(selected, panel)'  BY DEF IsRow
<1>4. FindInv'  BY DEF FindInv, NotFinding
<1>. QED  BY <1>1, <1>2, <1>3, <1>4 DEF ScreenInv

LEMMA NewTextStep ==
    ASSUME ScreenInv, active # "none", NEW text \in Seq(Chars), Len(text) <= IncModeMax, NewText(text), Waits
    PROVE  ScreenInv'
<1>0. FindInv'
  <2>1. finding' = NotFinding  BY WaitsFacts DEF NewText
  <2>. QED  BY <2>1 DEF FindInv, NotFinding
<1>1. TextsInv /\ PanelInv /\ IsRow(selected, panel)  BY DEF ScreenInv
<1>2. /\ buffer' = [buffer EXCEPT ![active] = text] /\ found' \in BOOLEAN
      /\ UNCHANGED <<value, lines, active>>
  BY DEF NewText
<1>3. active' \in Modes \cup {"none"}  BY <1>1, <1>2 DEF TextsInv
<1>4. CASE active = "filter"
  <2>1. filtering' = (text # <<>>) /\ UpdateWeakPanel(text # <<>>, text, Search(text))  BY <1>4 DEF NewText
  <2>2. TextsInv' /\ buffer'["filter"] = text  BY <1>1, <1>2, <1>3, <1>4, <2>1, TextStep
  <2>3. panel' = Only(lines, {n \in DOMAIN value : ~(text # <<>>) \/ Contains(value[n], text)})
    BY <2>1 DEF UpdateWeakPanel
  <2>4. PanelInv'  BY <1>1, <1>2, <2>1, <2>2, <2>3, FilterStep
  <2>5. IsRow(selected, panel)'  BY <1>1, <2>1, LinesAreNumbers, WeakPanelFacts
  <2>. QED  BY <1>0, <2>2, <2>4, <2>5 DEF ScreenInv
<1>5. CASE active # "filter"
  <2>1. selected' = Search(text) /\ UNCHANGED <<panel, filtering>>  BY <1>5 DEF NewText
  <2>2. TextsInv' /\ buffer'["filter"] = buffer["filter"]  BY <1>1, <1>2, <1>3, <1>5, <2>1, TextStep
  <2>3. Shown' = Shown  BY <1>2, <2>1, <2>2 DEF Shown, Matches, Contains
  <2>4. PanelInv'  BY <1>1, <1>2, <2>1, <2>3 DEF PanelInv
  <2>5. IsRow(Search(text), panel)  BY <1>1, PanelFacts, SearchFacts
  <2>6. IsRow(selected, panel)'  BY <2>1, <2>5 DEF IsRow
  <2>. QED  BY <1>0, <2>2, <2>4, <2>6 DEF ScreenInv
<1>. QED  BY <1>4, <1>5

LEMMA CloseStep ==
    ASSUME ScreenInv, active # "none", NEW text \in {buffer[active], <<>>}, NEW sel, IsRow(sel, panel), CloseMode(text, sel), Waits
    PROVE  ScreenInv'
<1>0. FindInv'
  <2>1. finding' = NotFinding  BY WaitsFacts DEF CloseMode
  <2>. QED  BY <2>1 DEF FindInv, NotFinding
<1>1. TextsInv /\ PanelInv /\ IsRow(selected, panel)  BY DEF ScreenInv
<1>2. /\ buffer' = [buffer EXCEPT ![active] = text] /\ active' = "none"
      /\ UNCHANGED <<value, lines, found>>
  BY DEF CloseMode
<1>3. active' \in Modes \cup {"none"} /\ found' \in BOOLEAN  BY <1>1, <1>2 DEF TextsInv
<1>4. text \in Seq(Chars) /\ Len(text) <= IncModeMax
  <2>1. <<>> \in Seq(Chars) /\ Len(<<>>) = 0 /\ 0 <= IncModeMax  BY InfoScreenAssumption
  <2>. QED  BY <1>1, <2>1, TextsFacts
<1>5. CASE active = "filter"
  <2>1. filtering' = (filtering /\ text # <<>>) /\ UpdateWeakPanel(filtering', text, sel)  BY <1>5 DEF CloseMode
  <2>2. filtering' = (text # <<>>)  BY <1>1, <1>5, <2>1, TextsFacts
  <2>3. TextsInv' /\ buffer'["filter"] = text  BY <1>1, <1>2, <1>3, <1>4, <1>5, <2>2, TextStep
  <2>4. panel' = Only(lines, {n \in DOMAIN value : ~filtering' \/ Contains(value[n], text)})
    BY <2>1 DEF UpdateWeakPanel
  <2>5. PanelInv'  BY <1>1, <1>2, <2>3, <2>4, FilterStep
  <2>6. IsRow(selected, panel)'
    <3>. DEFINE on == filtering'
    <3>1. UpdateWeakPanel(on, text, sel)  BY <2>1
    <3>. HIDE DEF on
    <3>. QED  BY <1>1, <3>1, LinesAreNumbers, WeakPanelFacts
  <2>. QED  BY <1>0, <2>3, <2>5, <2>6 DEF ScreenInv
<1>6. CASE active # "filter"
  <2>1. selected' = sel /\ UNCHANGED <<panel, filtering>>  BY <1>6 DEF CloseMode
  <2>2. TextsInv' /\ buffer'["filter"] = buffer["filter"]  BY <1>1, <1>2, <1>3, <1>4, <1>6, <2>1, TextStep
  <2>3. Shown' = Shown  BY <1>2, <2>1, <2>2 DEF Shown, Matches, Contains
  <2>4. PanelInv'  BY <1>1, <1>2, <2>1, <2>3 DEF PanelInv
  <2>5. IsRow(selected, panel)'  BY <2>1 DEF IsRow
  <2>. QED  BY <1>0, <2>2, <2>4, <2>5 DEF ScreenInv
<1>. QED  BY <1>5, <1>6

\* Panel_setSelected stays in the panel.
LEMMA SetSelectedFacts ==
    ASSUME NEW items \in Seq(Nat), NEW i \in Int
    PROVE  IsRow(Panel_setSelected(i, items), items)
<1>1. Len(items) \in Nat /\ (items # <<>> => Len(items) # 0)  BY LenProperties, EmptySeq
<1>. QED  BY <1>1 DEF Panel_setSelected, IsRow

\* How far b is from a around a ring, in either direction.
LEMMA AwayIs ==
    ASSUME NEW N \in Nat \ {0}, NEW a \in 0 .. N - 1, NEW b \in 0 .. N - 1, NEW step \in {1, -1}
    PROVE  ((b - a) * step) % N =
              IF step = 1 THEN (IF b >= a THEN b - a ELSE b - a + N) ELSE (IF b <= a THEN a - b ELSE a - b + N)
<1>. DEFINE d == (b - a) * step
            k == IF step = 1 THEN (IF b >= a THEN b - a ELSE b - a + N) ELSE (IF b <= a THEN a - b ELSE a - b + N)
<1>0. \A x \in Int : x * 1 = x /\ x * (-1) = -x  OBVIOUS
<1>1. d = IF step = 1 THEN b - a ELSE a - b
  <2>. DEFINE e == b - a
  <2>1. e \in Int /\ -e = a - b  OBVIOUS
  <2>. HIDE DEF e
  <2>2. e * step = IF step = 1 THEN e ELSE -e  BY <1>0, <2>1
  <2>. QED  BY <2>1, <2>2 DEF e
<1>. HIDE DEF d
<1>2. k \in 0 .. N - 1 /\ d \in Int /\ (d = k \/ d = k - N)  BY <1>1
<1>. HIDE DEF k
<1>3. \E q \in Int : d = N * q + k
  <2>1. N * 0 = 0 /\ N * (-1) = -N  OBVIOUS
  <2>2. CASE d = k
    <3>1. d = N * 0 + k /\ 0 \in Int  BY <1>2, <2>1, <2>2
    <3>. QED  BY <3>1
  <2>3. CASE d = k - N
    <3>. DEFINE q == -1
    <3>1. d = N * q + k /\ q \in Int  BY <1>2, <2>1, <2>3
    <3>. HIDE DEF q
    <3>. QED  BY <3>1
  <2>. QED  BY <1>2, <2>2, <2>3
<1>4. d % N = k  BY <1>2, <1>3, ModUnique
<1>. QED  BY <1>4 DEF d, k

\* Going on from b leads one further away from a, or back to it from the last.
LEMMA StepAway ==
    ASSUME NEW N \in Nat \ {0}, NEW a \in 0 .. N - 1, NEW b \in 0 .. N - 1, NEW step \in {1, -1},
           NEW i \in Int, b + step = N => i = 0, b + step # N /\ b + step = -1 => i = N - 1,
           b + step # N /\ b + step # -1 => i = b + step
    PROVE  LET away(r) == ((r - a) * step) % N
           IN /\ i \in 0 .. N - 1
              /\ i # a => away(i) = away(b) + 1
              /\ i = a => away(b) = N - 1
<1>1. i \in 0 .. N - 1  OBVIOUS
<1>2. ((i - a) * step) % N = IF step = 1 THEN (IF i >= a THEN i - a ELSE i - a + N) ELSE (IF i <= a THEN a - i ELSE a - i + N)
  BY <1>1, AwayIs
<1>3. ((b - a) * step) % N = IF step = 1 THEN (IF b >= a THEN b - a ELSE b - a + N) ELSE (IF b <= a THEN a - b ELSE a - b + N)
  BY AwayIs
<1>. DEFINE x == ((i - a) * step) % N
            y == ((b - a) * step) % N
<1>. HIDE DEF x, y
<1>4. (i # a => x = y + 1) /\ (i = a => y = N - 1)  BY <1>1, <1>2, <1>3 DEF x, y
<1>. QED  BY <1>1, <1>4 DEF x, y

LEMMA AwayRange ==
    ASSUME NEW N \in Nat \ {0}, NEW a \in 0 .. N - 1, NEW b \in 0 .. N - 1, NEW step \in {1, -1}
    PROVE  LET k == ((b - a) * step) % N
           IN k \in 0 .. N - 1 /\ (b # a => k > 0) /\ (b = a => k = 0)
<1>. DEFINE k == ((b - a) * step) % N
<1>1. k = IF step = 1 THEN (IF b >= a THEN b - a ELSE b - a + N) ELSE (IF b <= a THEN a - b ELSE a - b + N)
  BY AwayIs
<1>. HIDE DEF k
<1>2. k \in 0 .. N - 1 /\ (b # a => k > 0) /\ (b = a => k = 0)  BY <1>1
<1>. QED  BY <1>2 DEF k

\* The rows of the panel, of which some match.
LEMMA RowsFacts ==
    ASSUME PanelInv, IsRow(selected, panel), panel # <<>>, NEW text
    PROVE  /\ Len(panel) \in Nat \ {0} /\ selected \in 0 .. Len(panel) - 1
           /\ Hits(text) \subseteq 1 .. Len(panel)
<1>1. panel \in Seq(Nat) /\ Len(panel) \in Nat /\ DOMAIN panel = 1 .. Len(panel)  BY PanelFacts
<1>2. Len(panel) # 0  BY <1>1, EmptySeq
<1>. QED  BY <1>1, <1>2 DEF IsRow, Hits

\* The search starts at the cursor.
LEMMA FindKeyStep ==
    ASSUME ScreenInv, NEW step \in {1, -1}, FindKey(step)
    PROVE  ScreenInv'
<1>1. TextsInv /\ PanelInv /\ IsRow(selected, panel)  BY DEF ScreenInv
<1>2. /\ active # "none" /\ panel # <<>> /\ finding' = [step |-> step, at |-> selected]
      /\ UNCHANGED <<value, lines, panel, selected, active, buffer, filtering, found>>
  BY DEF FindKey, shown
<1>3. TextsInv'  BY <1>1, <1>2 DEF TextsInv
<1>4. PanelInv'  BY <1>1, <1>2 DEF PanelInv, Shown, Matches, Contains
<1>5. IsRow(selected, panel)'  BY <1>1, <1>2 DEF IsRow
<1>. DEFINE H == Hits(buffer[active])
            N == Len(panel)
<1>6. N \in Nat \ {0} /\ selected \in 0 .. N - 1 /\ H \subseteq 1 .. N  BY <1>1, <1>2, RowsFacts
<1>7. H' = H /\ N' = N  BY <1>2 DEF Hits, Contains
<1>8. finding'.step = step /\ finding'.at = selected /\ finding' \in [step : {1, -1}, at : 0 .. N - 1]
  BY <1>2, <1>6
<1>9. \A r : Away(r)' = ((r - selected) * step) % N  BY <1>2, <1>7, <1>8 DEF Away
<1>. HIDE DEF H, N
<1>10. ASSUME NEW i \in H, i # selected + 1 PROVE Away(i - 1)' > Away(finding.at)'
  <2>. DEFINE b == i - 1
  <2>1. b \in 0 .. N - 1 /\ b # selected  BY <1>6, <1>10
  <2>. HIDE DEF b
  <2>2. ((b - selected) * step) % N > 0  BY <1>6, <2>1, AwayRange
  <2>3. ((selected - selected) * step) % N = 0  BY <1>6, AwayRange
  <2>4. Away(finding.at)' = ((selected - selected) * step) % N  BY <1>2, <1>7, <1>8 DEF Away, N
  <2>5. Away(b)' = ((b - selected) * step) % N  BY <1>9
  <2>6. Away(b)' > Away(finding.at)'  BY <2>2, <2>3, <2>4, <2>5
  <2>. QED  BY <2>6 DEF b
<1>11. FindInv'
  <2>1. \A i \in H' \ {selected' + 1} : Away(i - 1)' > Away(finding.at)'  BY <1>2, <1>7, <1>10
  <2>2. finding' \in [step : {1, -1}, at : 0 .. N' - 1] /\ active' # "none" /\ panel' # <<>>  BY <1>2, <1>7, <1>8
  <2>. QED  BY <2>1, <2>2 DEF FindInv, H, N
<1>. QED  BY <1>3, <1>4, <1>5, <1>11 DEF ScreenInv

\* What is known where the search looks at a line.
LEMMA FindFacts ==
    ASSUME ScreenInv, IncMode_find
    PROVE  LET i == Around(finding.at + finding.step)
               N == Len(panel)
               others == Hits(buffer[active]) \ {selected + 1}
           IN /\ N \in Nat \ {0} /\ selected \in 0 .. N - 1 /\ i \in 0 .. N - 1
              /\ others \subseteq 1 .. N
              /\ Away(finding.at) \in 0 .. N - 1
              /\ i # selected => Away(i) = Away(finding.at) + 1
              /\ i = selected => Away(finding.at) = N - 1
              /\ \A j \in others : Away(j - 1) > Away(finding.at) /\ Away(j - 1) \in 0 .. N - 1
              /\ finding \in [step : {1, -1}, at : 0 .. N - 1] /\ active # "none" /\ panel # <<>>
<1>. DEFINE N == Len(panel)
            i == Around(finding.at + finding.step)
            others == Hits(buffer[active]) \ {selected + 1}
            a == selected
            b == finding.at
            step == finding.step
<1>1. PanelInv /\ IsRow(selected, panel) /\ FindInv /\ finding # NotFinding
  BY WaitsFacts DEF ScreenInv, IncMode_find
<1>2. /\ finding \in [step : {1, -1}, at : 0 .. N - 1] /\ active # "none" /\ panel # <<>>
      /\ \A j \in others : Away(j - 1) > Away(finding.at)
  BY <1>1 DEF FindInv
<1>3. N \in Nat \ {0} /\ a \in 0 .. N - 1 /\ others \subseteq 1 .. N  BY <1>1, <1>2, RowsFacts
<1>4. b \in 0 .. N - 1 /\ step \in {1, -1}  BY <1>2
<1>5. /\ b + step = N => i = 0
      /\ b + step # N /\ b + step = -1 => i = N - 1
      /\ b + step # N /\ b + step # -1 => i = b + step
  BY DEF Around
<1>6. \A x : Away(x) = ((x - a) * step) % N  BY DEF Away
<1>. HIDE DEF N, a, b, step, i, others
<1>7. /\ i \in 0 .. N - 1
      /\ i # a => ((i - a) * step) % N = (((b - a) * step) % N) + 1
      /\ i = a => ((b - a) * step) % N = N - 1
  <2>1. a \in 0 .. N - 1  BY <1>3
  <2>2. N \in Nat \ {0}  BY <1>3
  <2>3. b \in 0 .. N - 1  BY <1>4
  <2>4. step \in {1, -1}  BY <1>4
  <2>5. i \in Int  BY <1>5, <2>2, <2>3, <2>4
  <2>. QED  BY <1>5, <2>1, <2>2, <2>3, <2>4, <2>5, StepAway
<1>8. ((b - a) * step) % N \in 0 .. N - 1  BY <1>3, <1>4, AwayRange
<1>9. ASSUME NEW j \in others PROVE Away(j - 1) \in 0 .. N - 1
  <2>. DEFINE c == j - 1
  <2>1. c \in 0 .. N - 1  BY <1>3
  <2>. HIDE DEF c
  <2>2. ((c - a) * step) % N \in 0 .. N - 1  BY <1>3, <1>4, <2>1, AwayRange
  <2>3. Away(c) \in 0 .. N - 1  BY <1>6, <2>2
  <2>. QED  BY <2>3 DEF c
<1>10. Away(i) = ((i - a) * step) % N /\ Away(b) = ((b - a) * step) % N  BY <1>6
<1>11. Away(b) \in 0 .. N - 1 /\ (i # a => Away(i) = Away(b) + 1) /\ (i = a => Away(b) = N - 1)  BY <1>7, <1>8, <1>10
<1>. QED  BY <1>2, <1>3, <1>7, <1>9, <1>11 DEF N, i, others, a, b

\* The search looks at a line.
LEMMA FindStep ==
    ASSUME ScreenInv, IncMode_find
    PROVE  ScreenInv'
<1>. DEFINE N == Len(panel)
            i == Around(finding.at + finding.step)
            H == Hits(buffer[active])
<1>0. /\ N \in Nat \ {0} /\ i \in 0 .. N - 1 /\ selected \in 0 .. N - 1 /\ H \ {selected + 1} \subseteq 1 .. N
      /\ i # selected => Away(i) = Away(finding.at) + 1
      /\ Away(finding.at) \in 0 .. N - 1
      /\ \A j \in H \ {selected + 1} : Away(j - 1) > Away(finding.at) /\ Away(j - 1) \in 0 .. N - 1
      /\ finding \in [step : {1, -1}, at : 0 .. N - 1] /\ active # "none" /\ panel # <<>>
  BY FindFacts
<1>1. TextsInv /\ PanelInv /\ IsRow(selected, panel)  BY DEF ScreenInv
<1>2. UNCHANGED <<value, lines, panel, active, buffer, filtering, found>>  BY DEF IncMode_find
<1>3. found' \in BOOLEAN  BY <1>1, <1>2 DEF TextsInv
<1>4. CASE finding' = NotFinding
  <2>1. selected' = selected \/ selected' = i  BY DEF IncMode_find
  <2>2. selected' \in 0 .. N - 1  BY <1>0, <2>1
  <2>. HIDE DEF N
  <2>3. selected' \in Nat /\ selected' <= N - 1  BY <1>0, <2>2
  <2>4. IsRow(selected', panel)  BY <1>0, <2>3 DEF IsRow, N
  <2>. QED  BY <1>2, <1>3, <1>4, <2>4, CursorStep
<1>5. CASE finding' # NotFinding
  <2>1. i # selected /\ i + 1 \notin H /\ finding' = [finding EXCEPT !.at = i] /\ selected' = selected
    BY <1>5 DEF IncMode_find
  <2>2. finding'.step = finding.step /\ finding'.at = i /\ finding' \in [step : {1, -1}, at : 0 .. N - 1]
    BY <1>0, <2>1
  <2>3. H' = H /\ N' = N  BY <1>2 DEF Hits, Contains
  <2>4. \A r : Away(r)' = Away(r)  BY <1>2, <2>1, <2>2 DEF Away
  <2>5. Away(finding.at)' = Away(i)  BY <1>2, <2>1, <2>2 DEF Away
  <2>6. ASSUME NEW j \in H \ {selected + 1} PROVE Away(j - 1)' > Away(finding.at)'
    <3>. DEFINE c == j - 1
    <3>1. c \in 0 .. N - 1 /\ c # selected /\ c # i /\ j = c + 1  BY <1>0, <2>1, <2>6
    <3>2. Away(c) > Away(finding.at) /\ Away(c) \in 0 .. N - 1  BY <1>0, <2>6
    <3>3. Away(c) # Away(i)
      <4>. DEFINE a == selected
                  step == finding.step
      <4>1. a \in 0 .. N - 1 /\ step \in {1, -1}  BY <1>0
      <4>2. \A x : Away(x) = ((x - a) * step) % N  BY DEF Away
      <4>. HIDE DEF c, i, N, a, step
      <4>0. N \in Nat \ {0} /\ c \in 0 .. N - 1 /\ i \in 0 .. N - 1  BY <1>0, <3>1
      <4>3. ((c - a) * step) % N =
               IF step = 1 THEN (IF c >= a THEN c - a ELSE c - a + N) ELSE (IF c <= a THEN a - c ELSE a - c + N)
        BY <4>0, <4>1, AwayIs
      <4>4. ((i - a) * step) % N =
               IF step = 1 THEN (IF i >= a THEN i - a ELSE i - a + N) ELSE (IF i <= a THEN a - i ELSE a - i + N)
        BY <4>0, <4>1, AwayIs
      <4>. DEFINE x == ((c - a) * step) % N
                  y == ((i - a) * step) % N
      <4>5. Away(c) = x /\ Away(i) = y  BY <4>2
      <4>. HIDE DEF x, y
      <4>6. x # y  BY <1>0, <3>1, <4>1, <4>3, <4>4 DEF x, y
      <4>. QED  BY <4>5, <4>6
    <3>. HIDE DEF c, i, N, H
    <3>4. Away(c) > Away(i)  BY <1>0, <2>1, <3>2, <3>3
    <3>5. Away(c)' > Away(finding.at)'  BY <2>4, <2>5, <3>4
    <3>. QED  BY <3>5 DEF c
  <2>7. FindInv'
    <3>1. \A j \in H' \ {selected' + 1} : Away(j - 1)' > Away(finding.at)'  BY <2>1, <2>3, <2>6
    <3>2. finding' \in [step : {1, -1}, at : 0 .. N' - 1] /\ active' # "none" /\ panel' # <<>>
      BY <1>0, <1>2, <2>2, <2>3
    <3>. HIDE DEF i
    <3>. QED  BY <3>1, <3>2 DEF FindInv
  <2>8. TextsInv'  BY <1>1, <1>2 DEF TextsInv
  <2>9. PanelInv'  BY <1>1, <1>2 DEF PanelInv, Shown, Matches, Contains
  <2>10. IsRow(selected, panel)'  BY <1>1, <1>2, <2>1 DEF IsRow
  <2>. QED  BY <2>7, <2>8, <2>9, <2>10 DEF ScreenInv
<1>. QED  BY <1>4, <1>5

\* What all keys leave true.
LEMMA KeysStep ==
    ASSUME ScreenInv,
           \/ IncKeys
           \/ \E step \in {1, -1} : MoveSelection(step)
           \/ \E row \in -1 .. Len(panel) : Click(row)
    PROVE  ScreenInv'
<1>0. TextsInv /\ PanelInv /\ IsRow(selected, panel) /\ panel \in Seq(Nat) /\ selected \in Nat
  BY PanelFacts DEF ScreenInv, IsRow
<1>w. Waits /\ finding = NotFinding  BY WaitsFacts DEF IncKeys, MoveSelection, Click
<1>1. ASSUME NEW c \in Chars, TypeChar(c) PROVE ScreenInv'
  <2>1. active # "none" /\ Len(buffer[active]) < IncModeMax /\ NewText(Append(buffer[active], c))  BY <1>1 DEF TypeChar
  <2>2. buffer[active] \in Seq(Chars) /\ Len(buffer[active]) \in Nat  BY <1>0, <2>1, TextsFacts
  <2>3. Append(buffer[active], c) \in Seq(Chars) /\ Len(Append(buffer[active], c)) = Len(buffer[active]) + 1
    BY <2>2, AppendProperties
  <2>4. Len(Append(buffer[active], c)) <= IncModeMax  BY <2>1, <2>2, <2>3, InfoScreenAssumption
  <2>. QED  BY <1>w, <2>1, <2>3, <2>4, NewTextStep
<1>2. ASSUME TypeFull \/ ResizeActive PROVE ScreenInv'
  <2>1. /\ selected' = Search(buffer[active]) /\ found' \in BOOLEAN
        /\ UNCHANGED <<value, lines, panel, active, buffer, filtering, finding>>
    BY <1>2 DEF TypeFull, ResizeActive
  <2>2. IsRow(selected', panel)  BY <1>0, <2>1, SearchFacts
  <2>. QED  BY <1>w, <2>1, <2>2, CursorStep
<1>3. ASSUME Backspace PROVE ScreenInv'
  <2>1. active # "none" /\ buffer[active] # <<>> /\ NewText(SX!Front(buffer[active]))  BY <1>3 DEF Backspace
  <2>2. /\ buffer[active] \in Seq(Chars) /\ Len(buffer[active]) \in Nat /\ Len(buffer[active]) <= IncModeMax
    BY <1>0, <2>1, TextsFacts
  <2>3. Len(buffer[active]) # 0  BY <2>1, <2>2, EmptySeq
  <2>4. SX!Front(buffer[active]) \in Seq(Chars) /\ Len(SX!Front(buffer[active])) <= IncModeMax
    <3>. DEFINE b == buffer[active]
                m == Len(b) - 1
    <3>1. b \in Seq(Chars) /\ m \in 0 .. Len(b) /\ Len(b) \in Nat /\ Len(b) <= IncModeMax  BY <2>2, <2>3
    <3>2. SX!Front(b) = SubSeq(b, 1, m)  BY DEF SX!Front
    <3>. HIDE DEF b, m
    <3>3. SubSeq(b, 1, m) \in Seq(Chars) /\ Len(SubSeq(b, 1, m)) = m
      <4>1. \A i \in 1 .. m : i \in 1 .. Len(b)  BY <3>1
      <4>2. 1 \in 1 .. Len(b) + 1 /\ m \in 1 - 1 .. Len(b) /\ m \in Nat  BY <3>1
      <4>3. SubSeq(b, 1, m) \in Seq(Chars) /\ Len(SubSeq(b, 1, m)) = m - 1 + 1  BY <3>1, <4>2, SubSeqProperties
      <4>. QED  BY <4>2, <4>3
    <3>4. m <= IncModeMax  BY <3>1, InfoScreenAssumption
    <3>. QED  BY <3>2, <3>3, <3>4 DEF b
  <2>. QED  BY <1>w, <2>1, <2>4, NewTextStep
<1>4. ASSUME Enter PROVE ScreenInv'  BY <1>0, <1>w, <1>4, CloseStep DEF Enter
<1>5. ASSUME Escape PROVE ScreenInv'
  <2>1. active # "none" /\ CloseMode(<<>>, selected)  BY <1>5 DEF Escape, CloseMode
  <2>. QED  BY <1>0, <1>w, <2>1, CloseStep
<1>6. ASSUME NEW step \in {1, -1}, FindKey(step) PROVE ScreenInv'  BY <1>6, FindKeyStep
<1>7. ASSUME NEW mode \in Modes, IncSet_activate(mode) PROVE ScreenInv'
  <2>1. active' = mode /\ UNCHANGED <<value, lines, panel, selected, buffer, filtering, found, finding>>
    BY <1>7 DEF IncSet_activate, shown
  <2>2. TextsInv'  BY <1>0, <2>1 DEF TextsInv
  <2>3. PanelInv'  BY <1>0, <2>1 DEF PanelInv, Shown, Matches, Contains
  <2>4. IsRow(selected, panel)'  BY <1>0, <2>1 DEF IsRow
  <2>5. FindInv'  BY <1>w, <2>1 DEF FindInv, NotFinding
  <2>. QED  BY <2>2, <2>3, <2>4, <2>5 DEF ScreenInv
<1>8. ASSUME NEW step \in {1, -1}, MoveSelection(step) PROVE ScreenInv'
  <2>1. selected' = Panel_setSelected(selected + step, panel) /\ UNCHANGED <<value, lines, panel, inc>>
    BY <1>8 DEF MoveSelection
  <2>2. IsRow(selected', panel)  BY <1>0, <2>1, SetSelectedFacts
  <2>. QED  BY <1>0, <1>w, <2>1, <2>2, CursorStep DEF inc, TextsInv
<1>9. ASSUME NEW row \in -1 .. Len(panel), Click(row) PROVE ScreenInv'
  <2>. DEFINE sel == Panel_setSelected(row, panel)
  <2>0. row \in Int  BY <1>0, LenProperties
  <2>1. IsRow(sel, panel)  BY <1>0, <2>0, SetSelectedFacts
  <2>2. CASE active # "none"
    <3>1. CloseMode(buffer[active], sel)  BY <1>9, <2>2 DEF Click
    <3>. HIDE DEF sel
    <3>. QED  BY <1>w, <2>1, <2>2, <3>1, CloseStep
  <2>3. CASE active = "none"
    <3>1. selected' = sel /\ UNCHANGED <<value, lines, panel, inc>>  BY <1>9, <2>3 DEF Click
    <3>. HIDE DEF sel
    <3>2. IsRow(selected', panel)  BY <2>1, <3>1
    <3>. QED  BY <1>0, <1>w, <3>1, <3>2, CursorStep DEF inc, TextsInv
  <2>. QED  BY <2>2, <2>3
<1>. QED  BY <1>1, <1>2, <1>3, <1>4, <1>5, <1>6, <1>7, <1>8, <1>9 DEF IncKeys, Modes


-----------------------------------------------------------------------------
(* The list that is shown                                                   *)

\* The lines are those read last, sorted, and the panel shows those that pass.
SnapInv ==
    /\ ScreenInv
    /\ value = snapshot /\ InOrder(lines, DOMAIN value, OrderOf(value))
    /\ kind \in DOMAIN Endings /\ result \in Results(kind) /\ reads \in 0 .. MaxReads + 1

LEMMA EmptyScreen == <<>> \in Seq(Seq(Chars)) /\ DOMAIN <<>> = {} /\ InOrder(<<>>, {}, OrderOf(<<>>))
<1>1. Cardinality({}) = 0  BY FS_EmptySet
<1>2. <<>> \in Seq({}) /\ Len(<<>>) = 0 /\ <<>> \in Seq(Seq(Chars)) /\ 1 .. 0 = {} /\ DOMAIN <<>> = {}  OBVIOUS
<1>3. ItemsIn(<<>>) = {} /\ OrderedBy(<<>>, OrderOf(<<>>))  BY <1>2 DEF ItemsIn, OrderedBy
<1>. QED  BY <1>1, <1>2, <1>3 DEF InOrder

LEMMA SnapInit == SnapshotInit => SnapInv
<1>1. SUFFICES ASSUME SnapshotInit PROVE SnapInv  OBVIOUS
<1>2. /\ value = <<>> /\ lines = <<>> /\ panel = <<>> /\ selected = 0
      /\ active = "none" /\ buffer = [search |-> <<>>, filter |-> <<>>]
      /\ filtering = FALSE /\ found = FALSE /\ finding = NotFinding /\ snapshot = <<>> /\ reads = 0
      /\ kind \in DOMAIN Endings /\ result \in Results(kind)
  BY <1>1 DEF SnapshotInit, InfoScreen_init
<1>3. TextsInv
  <2>1. \A mode \in Modes : buffer[mode] = <<>>  BY <1>2 DEF Modes
  <2>2. buffer \in [Modes -> Seq(Chars)]
    <3>1. DOMAIN buffer = Modes /\ buffer = [mode \in DOMAIN buffer |-> buffer[mode]]  BY <1>2 DEF Modes
    <3>2. <<>> \in Seq(Chars)  OBVIOUS
    <3>3. \A mode \in Modes : buffer[mode] \in Seq(Chars)  BY <2>1, <3>2
    <3>. QED  BY <3>1, <3>3
  <2>3. Len(<<>>) = 0 /\ 0 <= IncModeMax  BY InfoScreenAssumption
  <2>4. "filter" \in Modes  BY DEF Modes
  <2>. QED  BY <1>2, <2>1, <2>2, <2>3, <2>4 DEF TextsInv
<1>4. PanelInv
  <2>1. lines \in Seq(DOMAIN value)  BY <1>2
  <2>2. Only(<<>>, Shown) = <<>>
    <3>. DEFINE K == Shown
    <3>. HIDE DEF K
    <3>1. Only(<<>>, K) = <<>>  BY OnlyEmpty
    <3>. QED  BY <3>1 DEF K
  <2>. QED  BY <1>2, <2>1, <2>2, EmptyScreen DEF PanelInv
<1>5. IsRow(selected, panel)  BY <1>2 DEF IsRow
<1>6. reads \in 0 .. MaxReads + 1  BY <1>2, SnapshotAssumption
<1>7. FindInv  BY <1>2 DEF FindInv
<1>. QED  BY <1>7, <1>2, <1>3, <1>4, <1>5, <1>6, EmptyScreen DEF SnapInv, ScreenInv

LEMMA LinesAreTexts ==
    ASSUME NEW k \in DOMAIN Endings, NEW r \in Results(k)
    PROVE  Lines(k, r) \in Seq(Seq(Chars))
<1>1. r.list \in Seq(Seq(Chars)) /\ Message \in Seq(Chars)  BY SnapshotAssumption DEF Results
<1>2. <<Message>> \in Seq(Seq(Chars))  BY <1>1
<1>3. k = "env" \/ k = "locks" \/ k = "files"  BY DEF Endings
<1>4. k = "env" => Lines(k, r) = EnvScreen_lines(r)  BY DEF Lines
<1>5. k = "locks" => Lines(k, r) = ProcessLocksScreen_lines(r)  BY DEF Lines
<1>6. k = "files" => Lines(k, r) = OpenFilesScreen_lines(r)  BY DEF Lines
<1>7. /\ EnvScreen_lines(r) \in {r.list, <<Message>>}
      /\ ProcessLocksScreen_lines(r) \in {r.list, <<Message>>}
      /\ OpenFilesScreen_lines(r) \in {r.list, <<Message>>}
  BY DEF EnvScreen_lines, ProcessLocksScreen_lines, OpenFilesScreen_lines
<1>. QED  BY <1>1, <1>2, <1>3, <1>4, <1>5, <1>6, <1>7

\* The sorted panel is what passes the filter of the sorted lines.
LEMMA SortedPanel ==
    ASSUME NEW texts \in Seq(Seq(Chars)), NEW s \in Screens, ShowsFirst(s, texts, Len(texts))
    PROVE  LET l == Sorted(s.lines, texts)
               q == Sorted(s.panel, texts)
           IN /\ InOrder(l, DOMAIN texts, OrderOf(texts)) /\ l \in Seq(DOMAIN texts)
              /\ q = Only(l, {j \in DOMAIN texts : Matches(texts[j])})
              /\ Len(q) = Len(s.panel)
<1>. DEFINE D == DOMAIN texts
            R == OrderOf(texts)
            l == Sorted(s.lines, texts)
            q == Sorted(s.panel, texts)
            M == {j \in D : Matches(texts[j])}
<1>1. D = 1 .. Len(texts) /\ Len(texts) \in Nat /\ D \subseteq Nat
  <2>1. D = 1 .. Len(texts) /\ Len(texts) \in Nat  BY LenProperties
  <2>. QED  BY <2>1
<1>2. /\ s.lines \in Seq(Nat) /\ ItemsIn(s.lines) = D /\ OrderedBy(s.lines, NumberOrder)
      /\ s.panel \in Seq(Nat) /\ ItemsIn(s.panel) = M /\ OrderedBy(s.panel, NumberOrder)
  BY <1>1 DEF ShowsFirst, Screens
<1>. HIDE DEF D, M
<1>3. M \in SUBSET D  BY DEF M
<1>4. ASSUME NEW items \in Seq(Nat), ItemsIn(items) \subseteq D PROVE items \in Seq(D)
  <2>1. Len(items) \in Nat /\ items = [i \in 1 .. Len(items) |-> items[i]]  BY LenProperties
  <2>2. \A i \in 1 .. Len(items) : items[i] \in D  BY <1>4 DEF ItemsIn
  <2>3. items \in [1 .. Len(items) -> D]  BY <2>1, <2>2
  <2>. QED  BY <2>1, <2>3, FunctionIsSeq
<1>5. InOrder(l, D, R)
  <2>1. s.lines \in Seq(D)  BY <1>2, <1>4
  <2>. QED  BY <1>2, <2>1, SortedFacts DEF D
<1>6. InOrder(q, M, R) /\ Len(q) = Len(s.panel)
  <2>1. s.panel \in Seq(D)  BY <1>2, <1>3, <1>4
  <2>. QED  BY <1>2, <2>1, SortedFacts DEF D
<1>. HIDE DEF l, q, R
<1>7. l \in Seq(D) /\ ItemsIn(l) = D /\ OrderedBy(l, R)  BY <1>5 DEF InOrder
<1>8. Only(l, M) \in Seq(D) /\ ItemsIn(Only(l, M)) = M /\ OrderedBy(Only(l, M), R)
  <2>1. D \cap M = M  BY <1>3
  <2>. QED  BY <1>7, <2>1, OnlyFacts
<1>9. Only(l, M) \in Seq(M)
  <2>. DEFINE o == Only(l, M)
  <2>. HIDE DEF o
  <2>0. o \in Seq(D) /\ ItemsIn(o) = M  BY <1>8 DEF o
  <2>1. Len(o) \in Nat /\ o = [i \in 1 .. Len(o) |-> o[i]]  BY <2>0, LenProperties
  <2>2. \A i \in 1 .. Len(o) : o[i] \in M  BY <2>0 DEF ItemsIn
  <2>3. o \in [1 .. Len(o) -> M]  BY <2>1, <2>2
  <2>4. o \in Seq(M)  BY <2>1, <2>3, FunctionIsSeq
  <2>. QED  BY <2>4 DEF o
<1>10. StrictOrder(R, M)  BY <1>3, OrderOfTexts DEF D, R
<1>11. IsFiniteSet(M) /\ InOrder(Only(l, M), M, R)  BY <1>8, <1>9, <1>10, OrderedPlaces
<1>12. q = Only(l, M)  BY <1>6, <1>10, <1>11, OrderIsOne
<1>. QED  BY <1>5, <1>6, <1>7, <1>12 DEF l, q, R, M, D

LEMMA ReadStep == SnapInv /\ Read => SnapInv'
<1>1. SUFFICES ASSUME SnapInv, Read PROVE SnapInv'  OBVIOUS
<1>. DEFINE texts == Lines(kind, result)
            s == SX!FoldLeft(InfoScreen_addLine, NoLines, texts)
<1>2. texts \in Seq(Seq(Chars))  BY <1>1, LinesAreTexts DEF SnapInv
<1>3. s \in Screens /\ s.value = texts /\ ShowsFirst(s, texts, Len(texts))  BY <1>2, ScanFold
<1>4. /\ value' = texts /\ lines' = Sorted(s.lines, texts) /\ panel' = Sorted(s.panel, texts)
      /\ selected' = Panel_setSelected(selected, s.panel)
  <2>1. Scan(result)  BY <1>1 DEF Read
  <2>. QED  BY <1>3, <2>1 DEF Scan, NoLines
<1>5. /\ active' = active /\ buffer' = buffer /\ filtering' = filtering /\ found' = found /\ finding' = finding
      /\ kind' = kind /\ result' = result /\ snapshot' = texts /\ reads' = reads + 1 /\ reads <= MaxReads
  BY <1>1 DEF Read, inc
<1>. HIDE DEF texts, s
<1>6. /\ InOrder(lines', DOMAIN texts, OrderOf(texts)) /\ lines' \in Seq(DOMAIN texts)
      /\ panel' = Only(lines', {j \in DOMAIN texts : Matches(texts[j])}) /\ Len(panel') = Len(s.panel)
  BY <1>2, <1>3, <1>4, SortedPanel
<1>7. Shown' = {j \in DOMAIN texts : Matches(texts[j])}  BY <1>4, <1>5 DEF Shown, Matches, Contains
<1>8. PanelInv'  BY <1>2, <1>4, <1>6, <1>7 DEF PanelInv
<1>9. TextsInv'  BY <1>1, <1>5 DEF SnapInv, ScreenInv, TextsInv
<1>10. IsRow(selected, panel)'
  <2>1. s.panel \in Seq(Nat)  BY <1>3 DEF Screens
  <2>2. selected \in Int  BY <1>1 DEF SnapInv, ScreenInv, IsRow
  <2>3. IsRow(selected', s.panel)  BY <1>4, <2>1, <2>2, SetSelectedFacts
  <2>4. panel' \in Seq(DOMAIN texts)  BY <1>6, OnlyFacts
  <2>5. panel' = <<>> <=> s.panel = <<>>  BY <1>6, <2>1, <2>4, EmptySeq
  <2>. QED  BY <1>6, <2>3, <2>5 DEF IsRow
<1>11. InOrder(lines', DOMAIN value', OrderOf(texts))  BY <1>4, <1>6
<1>12. OrderOf(texts) = OrderOf(value)'  BY <1>4 DEF OrderOf, Precedes, Less
<1>13. InOrder(lines, DOMAIN value, OrderOf(value))'  BY <1>11, <1>12 DEF InOrder, ItemsIn, OrderedBy, PlaceIn
<1>14. reads' \in 0 .. MaxReads + 1  BY <1>1, <1>5, SnapshotAssumption DEF SnapInv
<1>15. kind' \in DOMAIN Endings /\ result' \in Results(kind')  BY <1>1, <1>5 DEF SnapInv
<1>16. FindInv'
  <2>1. finding = NotFinding
    <3>1. Waits /\ ScreenInv  BY <1>1 DEF Read, SnapInv
    <3>. QED  BY <3>1, WaitsFacts
  <2>. QED  BY <1>5, <2>1 DEF FindInv, NotFinding
<1>. QED  BY <1>16, <1>4, <1>5, <1>8, <1>9, <1>10, <1>13, <1>14, <1>15 DEF SnapInv, ScreenInv, Results

LEMMA SnapStep == SnapInv /\ [SnapshotNext]_snapshotVars => SnapInv'
<1>1. SUFFICES ASSUME SnapInv, [SnapshotNext]_snapshotVars PROVE SnapInv'  OBVIOUS
<1>2. CASE Read  BY <1>1, <1>2, ReadStep
<1>3. CASE Key \/ ListFind
  <2>1. /\ \/ IncKeys
           \/ \E step \in {1, -1} : MoveSelection(step)
           \/ \E row \in -1 .. Len(panel) : Click(row)
           \/ IncMode_find
        /\ UNCHANGED <<kind, result, snapshot, reads>>
    BY <1>3 DEF Key, ListFind
  <2>2. ScreenInv'
    <3>1. ScreenInv  BY <1>1 DEF SnapInv
    <3>2. CASE IncMode_find  BY <3>1, <3>2, FindStep
    <3>3. CASE ~IncMode_find  BY <2>1, <3>1, <3>3, KeysStep
    <3>. QED  BY <3>2, <3>3
  <2>3. UNCHANGED <<value, lines>>
    BY <2>1 DEF IncKeys, TypeChar, NewText, TypeFull, Backspace, Enter, Escape, CloseMode, ResizeActive,
                FindKey, IncMode_find, IncSet_activate, MoveSelection, Click, shown
  <2>4. (OrderOf(value))' = OrderOf(value)  BY <2>3 DEF OrderOf, Precedes, Less
  <2>5. InOrder(lines, DOMAIN value, OrderOf(value))'
    BY <1>1, <2>3, <2>4 DEF SnapInv, InOrder, ItemsIn, OrderedBy, PlaceIn
  <2>. QED  BY <1>1, <2>1, <2>2, <2>3, <2>5 DEF SnapInv, Results
<1>4. CASE WorldChanges \/ UNCHANGED snapshotVars
  <2>1. UNCHANGED <<value, lines, panel, selected, active, buffer, filtering, found, finding, kind, snapshot, reads>>
    BY <1>4 DEF WorldChanges, snapshotVars, screen, shown, inc
  <2>2. result' \in Results(kind)  BY <1>1, <1>4 DEF WorldChanges, snapshotVars, SnapInv
  <2>3. ScreenInv'
    <3>1. TextsInv' /\ PanelInv' /\ IsRow(selected, panel)'
      BY <1>1, <2>1 DEF SnapInv, ScreenInv, TextsInv, PanelInv, Shown, Matches, Contains, IsRow
    <3>2. Hits(buffer[active])' = Hits(buffer[active])  BY <2>1 DEF Hits, Contains
    <3>3. \A i : Away(i)' = Away(i)  BY <2>1 DEF Away
    <3>4. Away(finding.at)' = Away(finding.at)  BY <2>1 DEF Away
    <3>5. FindInv  BY <1>1 DEF SnapInv, ScreenInv
    <3>6. FindInv'
      <4>1. CASE finding = NotFinding  BY <2>1, <4>1 DEF FindInv, NotFinding
      <4>2. CASE finding # NotFinding
        <5>1. \A i \in Hits(buffer[active]) \ {selected + 1} : Away(i - 1) > Away(finding.at)
          BY <3>5, <4>2 DEF FindInv
        <5>2. \A i \in Hits(buffer[active])' \ {selected' + 1} : Away(i - 1)' > Away(finding.at)'
          BY <2>1, <3>2, <3>3, <3>4, <5>1
        <5>. QED  BY <2>1, <3>5, <4>2, <5>2 DEF FindInv
      <4>. QED  BY <4>1, <4>2
    <3>. QED  BY <3>1, <3>6 DEF ScreenInv
  <2>4. (OrderOf(value))' = OrderOf(value)  BY <2>1 DEF OrderOf, Precedes, Less
  <2>5. InOrder(lines, DOMAIN value, OrderOf(value))'
    BY <1>1, <2>1, <2>4 DEF SnapInv, InOrder, ItemsIn, OrderedBy, PlaceIn
  <2>. QED  BY <1>1, <2>1, <2>2, <2>3, <2>5 DEF SnapInv, Results
<1>. QED  BY <1>1, <1>2, <1>3, <1>4 DEF SnapshotNext


\* The items shown and their order.
LEMMA ShownFacts ==
    ASSUME SnapInv
    PROVE  /\ DOMAIN panel = 1 .. Len(panel) /\ Len(panel) \in Nat
           /\ ItemsIn(panel) = Shown
           /\ \A i, j \in 1 .. Len(panel) : i < j => Precedes(value, panel[i], panel[j])
           /\ \A i, j \in 1 .. Len(panel) : panel[i] = panel[j] => i = j
           /\ \A i \in 1 .. Len(panel) : panel[i] \in Shown /\ value[panel[i]] \in Seq(Nat)
<1>. DEFINE D == DOMAIN value
            R == OrderOf(value)
<1>1. value \in Seq(Seq(Chars)) /\ lines \in Seq(D) /\ panel = Only(lines, Shown) /\ ItemsIn(lines) = D /\ OrderedBy(lines, R)
  BY DEF SnapInv, ScreenInv, PanelInv, InOrder
<1>2. DOMAIN panel = 1 .. Len(panel) /\ Len(panel) \in Nat  BY PanelFacts DEF SnapInv, ScreenInv
<1>3. ItemsIn(panel) = Shown /\ OrderedBy(panel, R)
  <2>. DEFINE K == Shown
  <2>1. K \subseteq D  BY DEF Shown
  <2>. HIDE DEF K, D, R
  <2>2. ItemsIn(Only(lines, K)) = ItemsIn(lines) \cap K /\ OrderedBy(Only(lines, K), R)  BY <1>1, OnlyFacts
  <2>. QED  BY <1>1, <2>1, <2>2 DEF K
<1>4. \A i \in 1 .. Len(panel) : panel[i] \in Shown  BY <1>3 DEF ItemsIn
<1>5. ASSUME NEW i \in 1 .. Len(panel) PROVE value[panel[i]] \in Seq(Nat)
  <2>. DEFINE m == panel[i]
  <2>1. m \in 1 .. Len(value)
    <3>1. panel[i] \in D  BY <1>4 DEF Shown
    <3>2. D = 1 .. Len(value)  BY <1>1, LenProperties
    <3>. QED  BY <3>1, <3>2
  <2>. HIDE DEF m
  <2>2. value[m] \in Seq(Chars)  BY <1>1, <2>1, ElementOfSeq
  <2>3. Chars \subseteq Nat  BY InfoScreenAssumption
  <2>4. value[m] \in Seq(Nat)  BY <2>2, <2>3, SeqMonotonic
  <2>. QED  BY <2>4 DEF m
<1>6. \A i, j \in 1 .. Len(panel) : i < j => Precedes(value, panel[i], panel[j])
  <2>1. \A i, j \in 1 .. Len(panel) : i < j => <<panel[i], panel[j]>> \in R  BY <1>3 DEF OrderedBy
  <2>. QED  BY <2>1 DEF OrderOf
<1>7. StrictOrder(R, Shown)
  <2>1. Shown \subseteq D  BY DEF Shown
  <2>. QED  BY <1>1, <2>1, OrderOfTexts
<1>8. ASSUME NEW i \in 1 .. Len(panel), NEW j \in 1 .. Len(panel), panel[i] = panel[j] PROVE i = j
  <2>1. <<panel[i], panel[i]>> \notin R  BY <1>4, <1>7 DEF StrictOrder
  <2>2. ~(i < j) /\ ~(j < i)
    <3>. HIDE DEF R
    <3>. QED  BY <1>3, <1>8, <2>1 DEF OrderedBy
  <2>. QED  BY <1>2, <2>2
<1>. QED  BY <1>2, <1>3, <1>4, <1>5, <1>6, <1>8

LEMMA SnapShows == SnapInv => ShowsSnapshot
<1>1. SUFFICES ASSUME SnapInv PROVE ShowsSnapshot  OBVIOUS
<1>. DEFINE n == Len(panel)
            texts == [i \in DOMAIN panel |-> value[panel[i]]]
<1>2. /\ DOMAIN panel = 1 .. n /\ n \in Nat /\ ItemsIn(panel) = Shown
      /\ \A i, j \in 1 .. n : i < j => Precedes(value, panel[i], panel[j])
      /\ \A i, j \in 1 .. n : panel[i] = panel[j] => i = j
      /\ \A i \in 1 .. n : panel[i] \in Shown /\ value[panel[i]] \in Seq(Nat)
  BY <1>1, ShownFacts
<1>3. SnapshotTypeOK
  <2>1. DOMAIN buffer = Modes /\ "filter" \in Modes  BY <1>1 DEF SnapInv, ScreenInv, TextsInv, Modes
  <2>2. ScreenTypeOK
    BY <1>1, <2>1 DEF ScreenTypeOK, SnapInv, ScreenInv, TextsInv, PanelInv, FindInv, IsRow, Modes
  <2>. QED  BY <1>1, <2>2 DEF SnapshotTypeOK, SnapInv
<1>4. DOMAIN texts = 1 .. n /\ \A i \in 1 .. n : texts[i] = value[panel[i]]  BY <1>2
<1>. HIDE DEF texts, n
<1>5. value = snapshot  BY <1>1 DEF SnapInv
<1>6. ASSUME NEW t PROVE Occurrences(texts, t) = (IF Matches(t) THEN Occurrences(snapshot, t) ELSE 0)
  <2>. DEFINE A == {i \in DOMAIN texts : texts[i] = t}
              B == {m \in DOMAIN value : value[m] = t}
              f == [i \in A |-> panel[i]]
  <2>0. A \subseteq 1 .. n /\ \A i \in A : value[panel[i]] = t  BY <1>4
  <2>1. CASE Matches(t)
    <3>1. \A i \in A : panel[i] \in B  BY <1>2, <2>0 DEF Shown
    <3>2. \A m \in B : \E i \in A : panel[i] = m
      <4>1. SUFFICES ASSUME NEW m \in B PROVE \E i \in A : panel[i] = m  OBVIOUS
      <4>2. m \in Shown  BY <2>1 DEF Shown
      <4>3. PICK i \in 1 .. n : panel[i] = m  BY <1>2, <4>2 DEF ItemsIn, n
      <4>4. i \in A  BY <1>4, <4>3
      <4>. QED  BY <4>3, <4>4
    <3>3. \A i, j \in A : panel[i] = panel[j] => i = j  BY <1>2, <2>0
    <3>4. f \in Bijection(A, B)
      <4>. HIDE DEF A, B
      <4>1. f \in [A -> B] /\ \A m \in B : \E i \in A : f[i] = m  BY <3>1, <3>2
      <4>2. \A i, j \in A : f[i] = f[j] => i = j  BY <3>3
      <4>. HIDE DEF f
      <4>. QED  BY <4>1, <4>2 DEF Bijection, Injection, IsInjective, Surjection
    <3>5. IsFiniteSet(A)
      <4>1. IsFiniteSet(1 .. n)
        <5>1. 1 \in Int /\ n \in Int  BY <1>2
        <5>. QED  BY <5>1, FS_Interval
      <4>. QED  BY <2>0, <4>1, FS_Subset
    <3>. HIDE DEF A, B, f
    <3>6. Cardinality(A) = Cardinality(B)  BY <3>4, <3>5, FS_Bijection DEF ExistsBijection
    <3>. QED  BY <1>5, <2>1, <3>6 DEF Occurrences, A, B
  <2>2. CASE ~Matches(t)
    <3>1. A = {}
      <4>1. SUFFICES ASSUME NEW i \in A PROVE FALSE  OBVIOUS
      <4>2. panel[i] \in Shown /\ value[panel[i]] = t  BY <1>2, <2>0
      <4>. QED  BY <2>2, <4>2 DEF Shown
    <3>2. Cardinality(A) = 0  BY <3>1, FS_EmptySet
    <3>. QED  BY <2>2, <3>2 DEF Occurrences
  <2>. QED  BY <2>1, <2>2
<1>7. ASSUME NEW i \in 1 .. n - 1 PROVE ~Less(texts[i + 1], texts[i])
  <2>. DEFINE k == i + 1
              a == value[panel[i]]
              b == value[panel[k]]
  <2>1. i \in 1 .. n /\ k \in 1 .. n /\ i < k  BY <1>2
  <2>. HIDE DEF k
  <2>2. a \in Seq(Nat) /\ b \in Seq(Nat) /\ texts[i] = a /\ texts[k] = b /\ Precedes(value, panel[i], panel[k])
    BY <1>2, <1>4, <2>1
  <2>3. Less(a, b) \/ a = b  BY <2>2 DEF Precedes
  <2>. HIDE DEF a, b
  <2>4. ~Less(b, a)  BY <2>2, <2>3, LessFacts
  <2>. QED  BY <2>2, <2>4 DEF k
<1>8. Len(texts) = n
  <2>1. n \in Nat /\ DOMAIN texts = 1 .. n /\ texts = [i \in 1 .. n |-> texts[i]]  BY <1>2, <1>4 DEF texts
  <2>. DEFINE V == {texts[i] : i \in 1 .. n}
  <2>2. texts \in [1 .. n -> V]
    <3>1. \A i \in 1 .. n : texts[i] \in V  OBVIOUS
    <3>. HIDE DEF V
    <3>. QED  BY <2>1, <3>1
  <2>. QED  BY <2>1, <2>2, FunctionIsSeq
<1>. QED  BY <1>3, <1>6, <1>7, <1>8 DEF ShowsSnapshot, texts

\* The environment, the file locks and the open files of a process are shown as
\* they were read last: each line that passes the filter of now as often as it
\* was read, sorted, whatever the user typed before and how often he read them.
THEOREM SnapshotIsShown == SnapshotSpec => []ShowsSnapshot
<1>1. SnapshotInit => SnapInv  BY SnapInit
<1>2. SnapInv /\ [SnapshotNext]_snapshotVars => SnapInv'  BY SnapStep
<1>3. SnapInv => ShowsSnapshot  BY SnapShows
<1>. QED  BY <1>1, <1>2, <1>3, PTL DEF SnapshotSpec


-----------------------------------------------------------------------------
(* The cursor                                                               *)

\* The actions of the properties of the cursor.
LineIsFollowed ==
    active = "filter" /\ panel # <<>> /\ panel' # panel /\ value' = value
         => LET before == panel[selected + 1]
                now == panel'[selected' + 1]
            IN SX!Contains(panel', before) /\ now # before
               => \/ /\ active' = "filter"
                     /\ \E i \in DOMAIN panel : /\ panel[i] = now
                                               /\ \A j \in 1..i - 1 : ~Contains(value[panel[j]], buffer'.filter)
                  \/ \E row \in -1..Len(panel) :
                        Click(row) /\ now = panel[Panel_setSelected(row, panel) + 1]

NoneIsSkipped ==
    ~Waits /\ Waits' =>
         LET others == Hits(buffer[active]) \ {selected + 1}
         IN IF selected' = selected THEN others = {}
            ELSE /\ selected' + 1 \in others
                 /\ \A i \in others : Away(i - 1) >= Away(selected')

OneFurther == ~Waits /\ ~Waits' => Away(finding.at)' > Away(finding.at)

\* Only the search itself goes on while it runs.
LEMMA OnlyFindRuns ==
    ASSUME SnapInv, SnapshotNext, ~Waits, UNCHANGED screen => FALSE
    PROVE  IncMode_find
<1>1. ~Read /\ ~WorldChanges  BY DEF Read, WorldChanges, screen
<1>2. ~Key  BY DEF Key, IncKeys, MoveSelection, Click
<1>. QED  BY <1>1, <1>2 DEF SnapshotNext, ListFind

LEMMA FindSkips ==
    ASSUME ScreenInv, IncMode_find
    PROVE  NoneIsSkipped /\ OneFurther
<1>. DEFINE N == Len(panel)
            i == Around(finding.at + finding.step)
            H == Hits(buffer[active])
            others == H \ {selected + 1}
<1>0. /\ N \in Nat \ {0} /\ selected \in 0 .. N - 1 /\ i \in 0 .. N - 1 /\ others \subseteq 1 .. N
      /\ Away(finding.at) \in 0 .. N - 1
      /\ i # selected => Away(i) = Away(finding.at) + 1
      /\ i = selected => Away(finding.at) = N - 1
      /\ \A j \in others : Away(j - 1) > Away(finding.at) /\ Away(j - 1) \in 0 .. N - 1
      /\ finding \in [step : {1, -1}, at : 0 .. N - 1]
  BY FindFacts
<1>. HIDE DEF N
<1>1. CASE i = selected /\ finding' = NotFinding /\ UNCHANGED selected
  <2>1. others = {}
    <3>1. SUFFICES ASSUME NEW j \in others PROVE FALSE  OBVIOUS
    <3>2. Away(j - 1) > Away(finding.at) /\ Away(j - 1) \in 0 .. N - 1 /\ Away(finding.at) = N - 1
      BY <1>0, <1>1, <3>1
    <3>. HIDE DEF others, i
    <3>. QED  BY <1>0, <3>2
  <2>2. Waits'  BY <1>1 DEF Waits, NotFinding
  <2>. QED  BY <1>1, <2>1, <2>2 DEF NoneIsSkipped, OneFurther
<1>2. CASE i # selected /\ i + 1 \in H /\ finding' = NotFinding /\ selected' = i
  <2>1. i + 1 \in others
    <3>. HIDE DEF i, H
    <3>1. i + 1 # selected + 1  BY <1>0, <1>2
    <3>. QED  BY <1>2, <3>1
  <2>2. \A j \in others : Away(j - 1) >= Away(i)
    <3>1. SUFFICES ASSUME NEW j \in others PROVE Away(j - 1) >= Away(i)  OBVIOUS
    <3>. HIDE DEF others, i, H
    <3>2. Away(j - 1) > Away(finding.at) /\ Away(j - 1) \in 0 .. N - 1 /\ Away(i) = Away(finding.at) + 1
      BY <1>0, <1>2, <3>1
    <3>. QED  BY <1>0, <3>2
  <2>3. Waits'  BY <1>2 DEF Waits, NotFinding
  <2>. QED  BY <1>2, <2>1, <2>2, <2>3 DEF NoneIsSkipped, OneFurther
<1>3. CASE i # selected /\ finding' = [finding EXCEPT !.at = i] /\ UNCHANGED selected
  <2>1. UNCHANGED panel  BY DEF IncMode_find
  <2>2. finding'.step = finding.step /\ finding'.at = i  BY <1>0, <1>3
  <2>3. ~Waits'  BY <1>0, <2>2 DEF Waits
  <2>4. Away(finding.at)' = Away(i)  BY <1>3, <2>1, <2>2 DEF Away
  <2>5. Away(finding.at)' > Away(finding.at)
    <3>. HIDE DEF i
    <3>. QED  BY <1>0, <1>3, <2>4
  <2>. QED  BY <2>3, <2>5 DEF NoneIsSkipped, OneFurther
<1>. QED  BY <1>1, <1>2, <1>3 DEF IncMode_find

LEMMA FollowStep == SnapInv /\ SnapshotNext => LineIsFollowed
<1>. DEFINE before == panel[selected + 1]
            now == panel'[selected' + 1]
<1>1. SUFFICES ASSUME SnapInv, SnapshotNext, active = "filter", panel # <<>>, panel' # panel,
                      SX!Contains(panel', before), now # before
               PROVE  /\ active' = "filter"
                      /\ \E i \in DOMAIN panel : /\ panel[i] = now
                                                /\ \A j \in 1..i - 1 : ~Contains(value[panel[j]], buffer'.filter)
  BY DEF LineIsFollowed
<1>2. ScreenInv /\ TextsInv /\ PanelInv /\ IsRow(selected, panel) /\ panel \in Seq(Nat) /\ lines \in Seq(Nat)
  BY <1>1, PanelFacts, LinesAreNumbers DEF SnapInv, ScreenInv
<1>3. /\ reads > 0
      /\ \/ IncKeys
         \/ \E step \in {1, -1} : MoveSelection(step)
         \/ \E row \in -1 .. Len(panel) : Click(row)
  <2>1. ~WorldChanges /\ ~ListFind /\ ~Read
    BY <1>1 DEF Read, WorldChanges, ListFind, IncMode_find, screen, shown
  <2>. QED  BY <1>1, <2>1 DEF SnapshotNext, Key
\* The text changes.
<1>4. ASSUME NEW text, NewText(text) PROVE
         /\ active' = "filter"
         /\ \E i \in DOMAIN panel : /\ panel[i] = now
                                   /\ \A j \in 1..i - 1 : ~Contains(value[panel[j]], buffer'.filter)
  <2>1. UpdateWeakPanel(text # <<>>, text, Search(text)) /\ active' = "filter" /\ buffer' = [buffer EXCEPT !["filter"] = text]
    BY <1>1, <1>4 DEF NewText
  <2>2. buffer'.filter = text  BY <1>2, <2>1 DEF TextsInv, Modes
  <2>. DEFINE on == text # <<>>
              row == Search(text)
              K == {n \in DOMAIN value : ~on \/ Contains(value[n], text)}
  <2>3. panel' = Only(lines, K)  BY <2>1 DEF UpdateWeakPanel
  <2>4. SX!Contains(panel', panel[row + 1]) => panel'[selected' + 1] = panel[row + 1]
    <3>1. UpdateWeakPanel(on, text, row)  BY <2>1
    <3>. HIDE DEF on, row
    <3>. QED  BY <1>1, <1>2, <3>1, WeakPanelFacts
  <2>5. Hits(text) # {}
    <3>1. SUFFICES ASSUME Hits(text) = {} PROVE FALSE  OBVIOUS
    <3>2. row = selected  BY <1>2, <3>1, SearchFacts
    <3>. QED  BY <1>1, <2>4, <3>2
  <2>6. row + 1 \in Hits(text) /\ \A i \in Hits(text) : row + 1 <= i  BY <1>2, <2>5, SearchFacts
  <2>. DEFINE i == row + 1
  <2>7. i \in DOMAIN panel /\ Contains(value[panel[i]], text) /\ DOMAIN panel = 1 .. Len(panel) /\ Len(panel) \in Nat
    BY <1>2, <2>6, PanelFacts DEF Hits
  <2>8. \A j \in 1 .. i - 1 : ~Contains(value[panel[j]], text)
    <3>1. SUFFICES ASSUME NEW j \in 1 .. i - 1, Contains(value[panel[j]], text) PROVE FALSE  OBVIOUS
    <3>. HIDE DEF row
    <3>2. j \in DOMAIN panel /\ j < i /\ ~(i <= j)  BY <2>7
    <3>. HIDE DEF i
    <3>3. j \in Hits(text)  BY <3>1, <3>2 DEF Hits
    <3>. QED  BY <2>6, <3>2, <3>3 DEF i
  <2>9. SX!Contains(panel', panel[i])
    <3>. DEFINE m == panel[i]
    <3>1. m \in DOMAIN value  BY <1>2, <2>7, PanelFacts
    <3>2. m \in K  BY <2>7, <3>1
    <3>3. m \in ItemsIn(lines)
      <4>1. ItemsIn(panel) = ItemsIn(lines) \cap Shown
        <5>. DEFINE S == Shown
        <5>1. panel = Only(lines, S)  BY <1>2 DEF PanelInv
        <5>. HIDE DEF S
        <5>2. ItemsIn(Only(lines, S)) = ItemsIn(lines) \cap S  BY <1>2, OnlyFacts
        <5>. QED  BY <5>1, <5>2 DEF S
      <4>2. m \in ItemsIn(panel)  BY <2>7 DEF ItemsIn
      <4>. QED  BY <4>1, <4>2
    <3>. HIDE DEF K, m
    <3>4. ItemsIn(panel') = ItemsIn(lines) \cap K  BY <1>2, <2>3, OnlyFacts
    <3>5. m \in ItemsIn(panel')  BY <3>2, <3>3, <3>4
    <3>. QED  BY <3>5 DEF SX!Contains, ItemsIn, m
  <2>. HIDE DEF i, K
  <2>10. panel[i] = now  BY <2>4, <2>9 DEF i
  <2>. QED  BY <2>1, <2>2, <2>7, <2>8, <2>10
\* The mode ends, with its text or without.
<1>5. ASSUME NEW sel, CloseMode(buffer[active], sel) PROVE FALSE
  <2>1. filtering' = (filtering /\ buffer["filter"] # <<>>) /\ UpdateWeakPanel(filtering', buffer["filter"], sel)
    BY <1>1, <1>5 DEF CloseMode
  <2>2. filtering' = filtering  BY <1>2, <2>1 DEF TextsInv
  <2>3. panel' = Only(lines, {n \in DOMAIN value : ~filtering \/ Contains(value[n], buffer["filter"])})
    <3>. DEFINE K == {n \in DOMAIN value : ~filtering' \/ Contains(value[n], buffer["filter"])}
                S == {n \in DOMAIN value : ~filtering \/ Contains(value[n], buffer["filter"])}
    <3>1. panel' = Only(lines, K)  BY <2>1 DEF UpdateWeakPanel
    <3>2. K = S  BY <2>2
    <3>. HIDE DEF K, S
    <3>3. panel' = Only(lines, S)  BY <3>1, <3>2
    <3>. QED  BY <3>3 DEF S
  <2>4. panel' = panel  BY <1>2, <2>3 DEF PanelInv, Shown, Matches
  <2>. QED  BY <1>1, <2>4
<1>6. ASSUME CloseMode(<<>>, selected) PROVE FALSE
  <2>1. UpdateWeakPanel(filtering', <<>>, selected)  BY <1>1, <1>6 DEF CloseMode
  <2>. DEFINE on == filtering'
              text == <<>>
              sel == selected
  <2>2. UpdateWeakPanel(on, text, sel)  BY <2>1
  <2>. HIDE DEF on, text
  <2>3. SX!Contains(panel', panel[sel + 1]) => panel'[selected' + 1] = panel[sel + 1]  BY <1>1, <1>2, <2>2, WeakPanelFacts
  <2>. QED  BY <1>1, <2>3
<1>7. ASSUME NEW c \in Chars, TypeChar(c) PROVE NewText(Append(buffer[active], c))  BY <1>7 DEF TypeChar
<1>8. ASSUME Backspace PROVE NewText(SX!Front(buffer[active]))  BY <1>8 DEF Backspace
<1>9. ~TypeFull /\ ~ResizeActive /\ (\A step \in {1, -1} : ~FindKey(step) /\ ~MoveSelection(step))
      /\ \A mode \in Modes : ~IncSet_activate(mode)
  BY <1>1 DEF TypeFull, ResizeActive, FindKey, MoveSelection, IncSet_activate, shown
<1>10. ~Enter /\ ~Escape /\ \A row \in -1 .. Len(panel) : ~Click(row)
  BY <1>1, <1>5, <1>6 DEF Enter, Escape, Click
<1>. QED  BY <1>3, <1>4, <1>7, <1>8, <1>9, <1>10 DEF IncKeys, Modes

\* On the screens of the environment, the file locks and the open files the
\* cursor stays on its line when the filter changes, unless the text typed or a
\* click finds another; F3 passes over no line that matches, and its search
\* comes nearer to its end with every line it looks at.
THEOREM CursorIsSound == SnapshotSpec => CursorSound
<1>1. SnapshotInit => SnapInv  BY SnapInit
<1>2. SnapInv /\ [SnapshotNext]_snapshotVars => SnapInv'  BY SnapStep
<1>3. SnapInv /\ [SnapshotNext]_snapshotVars
         => [LineIsFollowed]_screen /\ [NoneIsSkipped]_screen /\ [OneFurther]_screen
  <2>1. SUFFICES ASSUME SnapInv, [SnapshotNext]_snapshotVars, ~(UNCHANGED screen)
                 PROVE  LineIsFollowed /\ NoneIsSkipped /\ OneFurther
    OBVIOUS
  <2>2. SnapshotNext  BY <2>1 DEF snapshotVars
  <2>3. ScreenInv  BY <2>1 DEF SnapInv
  <2>4. CASE Waits  BY <2>1, <2>2, <2>4, FollowStep DEF NoneIsSkipped, OneFurther
  <2>5. CASE ~Waits
    <3>1. IncMode_find  BY <2>1, <2>2, <2>5, OnlyFindRuns
    <3>2. NoneIsSkipped /\ OneFurther  BY <2>3, <3>1, FindSkips
    <3>. QED  BY <2>1, <2>2, <3>2, FollowStep
  <2>. QED  BY <2>4, <2>5
<1>4. SnapshotSpec => [][LineIsFollowed]_screen /\ [][NoneIsSkipped]_screen /\ [][OneFurther]_screen
  BY <1>1, <1>2, <1>3, PTL DEF SnapshotSpec
<1>. QED  BY <1>4, PTL DEF CursorSound, SelectionFollows, FindSkipsNone, FindEnds,
                           LineIsFollowed, NoneIsSkipped, OneFurther
=============================================================================
