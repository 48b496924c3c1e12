-------------------------- MODULE MainPanelProofs --------------------------
(****************************************************************************)
(* Theorems about the commands of the main panel, for every set of pids and *)
(* every forest of processes.                                               *)
(****************************************************************************)
EXTENDS MainPanel, FiniteSetTheorems, TLAPS

\* The rows of the panel are of the list, the cursor is on the followed one,
\* and tagAllChildren has a call to work at while it runs.
Calling == pc = "tagging" <=> calls # <<>>
PanelInv == FollowedSelected /\ Rows \subseteq listed /\ Calling

\* What tagAllChildren was called for and what it has tagged.
TaggedFamily == (tagged \ before) \cup {calls[1].pid}

\* The calls are of different rows of the family, whose children have a tag
\* unless a call has still to come to them.
CallsInv ==
    /\ \A k \in DOMAIN calls : calls[k].pid \in Rows \cap tagged /\ calls[k].row \in 1..(Len(order) + 1)
    /\ \A j, k \in DOMAIN calls : calls[j].pid = calls[k].pid => j = k
    /\ \A k \in DOMAIN calls : k > 1 => calls[k].pid \notin before
    /\ calls # <<>> =>
          /\ calls[1].pid = MainPanel_selectedPid /\ before \subseteq tagged
          /\ \A q \in TaggedFamily \ {calls[1].pid} : q \in Rows /\ Parent[q] \in TaggedFamily
          /\ \A p \in TaggedFamily : \A i \in DOMAIN order : Parent[order[i]] = p =>
                \/ order[i] \in tagged
                \/ \E k \in DOMAIN calls : calls[k].pid = p /\ calls[k].row <= i

\* The digits typed since the last reset, unless they were too many.
SearchInv == pidSearch = typed * 10 \/ typed * 10 > SearchLimit

-----------------------------------------------------------------------------
(* The rows and the cursor.                                                 *)

LEMMA ClampType ==
    ASSUME NEW i \in Int, NEW k \in Nat
    PROVE  Clamp(i, k) \in 0..(IF k = 0 THEN 0 ELSE k - 1)
BY DEF Clamp

LEMMA RowsType ==
    ASSUME TypeOK
    PROVE  /\ Len(order) \in Nat /\ Rows \subseteq Pid
           /\ order # <<>> <=> Len(order) # 0
           /\ order # <<>> => MainPanel_selectedPid \in Rows
           /\ MainPanel_selectedPid \in Pid \cup {NoPid}
<1>1. order \in Seq(Pid) /\ selected \in 0..(IF order = <<>> THEN 0 ELSE Len(order) - 1)
  BY DEF TypeOK
<1>2. Len(order) \in Nat /\ DOMAIN order = 1..Len(order) /\ (order # <<>> <=> Len(order) # 0)
  BY <1>1
<1>3. \A i \in DOMAIN order : order[i] \in Pid
  BY <1>1
<1>4. order # <<>> => selected + 1 \in DOMAIN order
  BY <1>1, <1>2
<1> QED
  BY <1>2, <1>3, <1>4 DEF Rows, MainPanel_selectedPid

\* An order of a set of pids is a sequence of exactly its members.
LEMMA OrdersType ==
    ASSUME NEW S \in SUBSET Pid, NEW q \in Orders(S)
    PROVE  q \in Seq(Pid) /\ \A i \in DOMAIN q : q[i] \in S
<1>1. Cardinality(S) \in Nat
  BY PidAssumption, FS_Subset, FS_CardinalityType
<1>2. q \in [1..Cardinality(S) -> S]
  BY DEF Orders
<1> QED
  BY <1>1, <1>2

-----------------------------------------------------------------------------
(* The cursor goes with the followed process.                               *)

LEMMA PassStep ==
    ASSUME PanelInv, Pass
    PROVE  PanelInv'
<1>0. TypeOK /\ NoPid \notin Pid
  BY PidAssumption DEF PanelInv, FollowedSelected, NoPid
<1>1. listed' \subseteq Pid /\ tagged' \subseteq listed'
  BY <1>0 DEF Pass, TypeOK
<1> DEFINE f == IF following \in listed' THEN following ELSE NoPid
<1>2. rebuildPanel(f) /\ f \in Pid \cup {NoPid}
  BY <1>1 DEF Pass
<1>3. order' \in Seq(Pid) /\ \A i \in DOMAIN order' : order'[i] \in listed'
  BY <1>1, <1>2, OrdersType DEF rebuildPanel
<1> HIDE DEF f
<1>4. following' \in Pid \cup {NoPid} /\ following' \in {f, NoPid}
  BY <1>2 DEF rebuildPanel, FollowDisplayed
<1>5. CASE \E i \in DOMAIN order' : order'[i] = following'
  <2>1. PICK j \in DOMAIN order' : order'[j] = following' /\ selected' = j - 1
    BY <1>2, <1>5 DEF rebuildPanel
  <2>2. j \in 1..Len(order') /\ order' # <<>>
    BY <1>3, <2>1
  <2>3. selected' \in 0..(Len(order') - 1) /\ order'[selected' + 1] = following'
    BY <2>1, <2>2
  <2> QED
    BY <1>0, <1>1, <1>3, <1>4, <2>2, <2>3
       DEF Pass, PanelInv, FollowedSelected, TypeOK, MainPanel_selectedPid, Rows, searchVars, callVars, Calling
<1>6. CASE ~ \E i \in DOMAIN order' : order'[i] = following'
  <2>1. following' = NoPid
    BY <1>2, <1>6 DEF rebuildPanel, FollowDisplayed
  <2>2. selected' \in 0..(IF order' = <<>> THEN 0 ELSE Len(order') - 1)
    <3>1. PICK i \in Int : selected' = Clamp(i, Len(order'))
      <4>1. Len(order') \in Nat /\ selected \in Int
        BY <1>0, <1>3 DEF TypeOK
      <4> QED
        BY <1>2, <1>6, <4>1 DEF rebuildPanel
    <3>2. Len(order') \in Nat /\ (Len(order') = 0 <=> order' = <<>>)
      BY <1>3
    <3> QED
      BY <3>1, <3>2, ClampType
  <2> QED
    BY <1>0, <1>1, <1>3, <2>1, <2>2
       DEF Pass, PanelInv, FollowedSelected, TypeOK, Rows, searchVars, callVars, Calling
<1> QED
  BY <1>5, <1>6

\* The keys change the selection only when they end following.
LEMMA CursorStep ==
    ASSUME PanelInv, order' = order, listed' = listed, TypeOK', Calling',
           \/ selected' = selected /\ following' \in {following, NoPid, MainPanel_selectedPid}
           \/ following' = NoPid
    PROVE  PanelInv'
BY DEF PanelInv, FollowedSelected, MainPanel_selectedPid, Rows


LEMMA KeyType ==
    ASSUME TypeOK, Rows \subseteq listed, \/ Move \/ MainPanel_pidSearch \/ actionTag \/ actionUntagAll
                   \/ Action_follow \/ Filter \/ changePriority \/ OpenMenu
    PROVE  TypeOK' /\ order' = order /\ listed' = listed /\ pc = "getch" /\ pc' = "check" /\ calls' = calls
<1>0. /\ Len(order) \in Nat /\ Rows \subseteq Pid /\ (order # <<>> <=> Len(order) # 0)
      /\ order # <<>> => MainPanel_selectedPid \in Rows
      /\ MainPanel_selectedPid \in Pid \cup {NoPid}
      /\ selected \in Int
  BY RowsType DEF TypeOK
<1> DEFINE last == IF order = <<>> THEN 0 ELSE Len(order) - 1
<1>1. \A i \in Int : Clamp(i, Len(order)) \in 0..last
  BY <1>0, ClampType
<1>2. Key /\ pc = "getch" /\ pc' = "check" /\ UNCHANGED <<alive, listed, order, calls, before>>
  BY DEF Move, MainPanel_pidSearch, actionTag, actionUntagAll,
         Action_follow, Filter, changePriority, OpenMenu, Key, KeyOf, callVars
<1>3. pc' \in {"check", "getch", "tagging"}
  BY <1>2
<1>4. following' \in Pid \cup {NoPid}
  BY <1>0 DEF Move, MainPanel_pidSearch, actionTag, actionUntagAll,
         Action_follow, Filter, changePriority, OpenMenu, MayFollow, TypeOK
<1>5. selected' \in 0..last
  <2>1. CASE Move
    BY <1>0, <1>1, <2>1 DEF Move
  <2>2. CASE actionTag
    BY <1>0, <1>1, <2>2 DEF actionTag
  <2>3. CASE MainPanel_pidSearch
    <3>1. \/ selected' = selected
          \/ \E i \in DOMAIN order : selected' = i - 1
      BY <2>3 DEF MainPanel_pidSearch
    <3>2. DOMAIN order = 1..Len(order) /\ selected \in 0..last
      BY DEF TypeOK
    <3> QED
      BY <1>0, <3>1, <3>2
  <2>4. CASE selected' = selected
    BY <2>4 DEF TypeOK
  <2> QED
    BY <2>1, <2>2, <2>3, <2>4
       DEF actionUntagAll, Action_follow, Filter, changePriority, OpenMenu
<1>6. tagged' \subseteq listed'
  BY <1>0, <1>2 DEF TypeOK, Move, MainPanel_pidSearch, actionTag, actionTagAllChildren,
         actionUntagAll, Action_follow, Filter, changePriority, OpenMenu
<1>7. hidden' \subseteq Pid
  BY DEF TypeOK, Move, MainPanel_pidSearch, actionTag, actionUntagAll,
         Action_follow, Filter, changePriority, OpenMenu
<1>8. pidSearch' \in 0..SearchLimit /\ typed' \in 0..MaxTyped
  <2>1. CASE MainPanel_pidSearch
    <3>1. PICK d \in 0..9 : /\ pidSearch' = NextSearch(d + pidSearch)
                            /\ typed' = typed * 10 + d /\ typed * 10 + d <= MaxTyped
      BY <2>1 DEF MainPanel_pidSearch
    <3>2. (d + pidSearch) * 10 \in Nat /\ typed * 10 + d \in Nat
      BY PidAssumption DEF TypeOK
    <3> QED
      BY <3>1, <3>2, PidAssumption DEF NextSearch
  <2>2. CASE pidSearch' = 0 /\ typed' = 0
    BY <2>2, PidAssumption
  <2>3. CASE UNCHANGED searchVars
    BY <2>3 DEF searchVars, TypeOK
  <2> QED
    BY <2>1, <2>2, <2>3 DEF Move, actionTag, actionUntagAll,
         Action_follow, Filter, changePriority, OpenMenu
<1>9. menu' \in [open : BOOLEAN, follow : BOOLEAN, pid : Pid \cup {NoPid}]
  <2>1. CASE OpenMenu
    <3>1. PICK follow \in BOOLEAN :
             menu' = [open |-> TRUE, follow |-> follow,
                      pid |-> IF follow THEN MainPanel_selectedPid ELSE NoPid]
      BY <2>1 DEF OpenMenu
    <3> QED
      BY <1>0, <3>1
  <2>2. CASE menu' = menu
    BY <2>2 DEF TypeOK
  <2> QED
    BY <2>1, <2>2 DEF Move, MainPanel_pidSearch, actionTag, actionUntagAll,
         Action_follow, Filter, changePriority
<1>10. signalled' \subseteq Pid
  BY <1>0 DEF Move, MainPanel_pidSearch, actionTag, actionUntagAll,
         Action_follow, Filter, changePriority, OpenMenu, foreachProcess
<1> QED
  BY <1>2, <1>3, <1>4, <1>5, <1>6, <1>7, <1>8, <1>9, <1>10 DEF TypeOK

LEMMA KeyStep ==
    ASSUME PanelInv, \/ Move \/ MainPanel_pidSearch \/ actionTag \/ actionUntagAll
                     \/ Action_follow \/ Filter \/ changePriority \/ OpenMenu
    PROVE  PanelInv'
<1>1. TypeOK' /\ order' = order /\ listed' = listed /\ Calling'
  BY KeyType DEF PanelInv, FollowedSelected, Calling
<1>2. \/ selected' = selected /\ following' \in {following, NoPid, MainPanel_selectedPid}
      \/ following' = NoPid
  <2>1. CASE OpenMenu
    BY <2>1 DEF OpenMenu
  <2> QED
    BY <2>1 DEF Move, MainPanel_pidSearch, actionTag, actionUntagAll,
         Action_follow, Filter, changePriority, MayFollow
<1> QED
  BY <1>1, <1>2, CursorStep

\* The last call looks at a row, goes into it or returns.
LEMMA TopType ==
    ASSUME TypeOK, calls # <<>>
    PROVE  /\ Len(calls) \in Nat \ {0} /\ Len(calls) \in DOMAIN calls /\ DOMAIN calls = 1..Len(calls)
           /\ Top \in CallRecord /\ Top.pid \in Pid /\ Top.row \in Nat \ {0}
           /\ \A k \in DOMAIN calls : calls[k] \in CallRecord /\ calls[k].pid \in Pid /\ calls[k].row \in Nat \ {0}
<1>1. calls \in Seq(CallRecord)
  BY DEF TypeOK
<1>2. Len(calls) \in Nat /\ DOMAIN calls = 1..Len(calls) /\ Len(calls) # 0
  BY <1>1
<1>3. \A k \in DOMAIN calls : calls[k] \in CallRecord
  BY <1>1, <1>2
<1>4. Len(calls) \in Nat \ {0} /\ Len(calls) \in DOMAIN calls
  BY <1>2
<1>5. \A c \in CallRecord : c.pid \in Pid /\ c.row \in Nat \ {0}
  BY DEF CallRecord
<1> QED
  BY <1>2, <1>3, <1>4, <1>5 DEF Top

\* Seen: the last call has looked at its row.
Seen(c) == [c EXCEPT ![Len(c)].row = @ + 1]

LEMMA SeenType ==
    ASSUME NEW c \in Seq(CallRecord), c # <<>>
    PROVE  /\ Seen(c) \in Seq(CallRecord) /\ Len(Seen(c)) = Len(c) /\ DOMAIN Seen(c) = 1..Len(c)
           /\ Seen(c)[Len(c)].pid = c[Len(c)].pid /\ Seen(c)[Len(c)].row = c[Len(c)].row + 1
           /\ \A k \in 1..(Len(c) - 1) : Seen(c)[k] = c[k]
           /\ \A k \in 1..Len(c) : Seen(c)[k].pid = c[k].pid
<1> DEFINE n == Len(c)
           last == [c[n] EXCEPT !.row = @ + 1]
<1>1. n \in Nat /\ n # 0 /\ DOMAIN c = 1..n /\ \A k \in 1..n : c[k] \in CallRecord
  BY DEF n
<1>2. last \in CallRecord /\ last.pid = c[n].pid /\ last.row = c[n].row + 1
  BY <1>1 DEF CallRecord
<1>3. Seen(c) = [c EXCEPT ![n] = last]
  BY DEF Seen
<1> HIDE DEF n, last
<1>4. /\ DOMAIN Seen(c) = 1..n /\ Seen(c)[n] = last
      /\ \A k \in 1..(n - 1) : Seen(c)[k] = c[k]
      /\ \A k \in 1..n : Seen(c)[k] \in CallRecord
  BY <1>1, <1>2, <1>3
<1>5. Seen(c) = [k \in 1..n |-> Seen(c)[k]]
  BY <1>1, <1>3
<1>6. Seen(c) \in Seq(CallRecord)
  <2>1. Seen(c) \in [1..n -> CallRecord]
    BY <1>4, <1>5
  <2> QED
    BY <1>1, <2>1
<1>7. Len(Seen(c)) = n
  BY <1>1, <1>4, <1>6
<1>8. \A k \in 1..n : k = n \/ k \in 1..(n - 1)
  BY <1>1
<1> QED
  BY <1>2, <1>4, <1>6, <1>7, <1>8 DEF n

LEMMA FrontType ==
    ASSUME NEW S, NEW c \in Seq(S), c # <<>>
    PROVE  SubSeq(c, 1, Len(c) - 1) \in Seq(S) /\ Len(SubSeq(c, 1, Len(c) - 1)) = Len(c) - 1
<1>1. Len(c) \in Nat /\ Len(c) # 0 /\ \A k \in 1..Len(c) : c[k] \in S
  OBVIOUS
<1> DEFINE m == Len(c) - 1
           d == [k \in 1..m |-> c[k]]
<1>2. SubSeq(c, 1, m) = d
  BY <1>1
<1>3. m \in Nat /\ d \in [1..m -> S]
  BY <1>1
<1> HIDE DEF m, d
<1>4. d \in Seq(S)
  BY <1>3
<1>5. DOMAIN d = 1..m
  BY <1>3
<1>6. Len(d) = m
  BY <1>3, <1>4, <1>5
<1> QED
  BY <1>2, <1>4, <1>6 DEF m

LEMMA RowsFinite ==
    ASSUME TypeOK
    PROVE  IsFiniteSet(Rows) /\ Cardinality(Rows) \in Nat
<1>1. Rows \in SUBSET Pid /\ IsFiniteSet(Pid)
  BY RowsType, PidAssumption
<1>2. IsFiniteSet(Rows)
  BY <1>1, FS_Subset
<1> QED
  BY <1>2, FS_CardinalityType

LEMMA CallStep ==
    ASSUME PanelInv, actionTagAllChildren \/ TagRow \/ TagReturn
    PROVE  PanelInv'
<1>0. /\ TypeOK /\ Calling /\ Rows \subseteq listed /\ Rows \subseteq Pid
      /\ order # <<>> => MainPanel_selectedPid \in Rows
  BY RowsType DEF PanelInv, FollowedSelected
<1>1. /\ UNCHANGED <<alive, listed, hidden, order, selected, searchVars, menu>>
      /\ signalled' = {} /\ following' \in {following, NoPid}
  BY DEF actionTagAllChildren, TagRow, TagReturn, KeyOf, MayFollow, listVars
<1>2. /\ tagged' \subseteq listed' /\ before' \subseteq Pid
      /\ calls' \in Seq(CallRecord) /\ pc' \in {"check", "tagging"} /\ Calling'
  <2>1. CASE actionTagAllChildren
    <3>1. calls' = <<Call(MainPanel_selectedPid)>> /\ MainPanel_selectedPid \in Rows /\ pc' = "tagging"
      BY <1>0, <2>1 DEF actionTagAllChildren, KeyOf
    <3>2. Call(MainPanel_selectedPid) \in CallRecord
      BY <1>0, <3>1 DEF Call, CallRecord
    <3>3. tagged' \subseteq listed' /\ before' \subseteq Pid
      BY <1>0, <1>1, <2>1, <3>1 DEF actionTagAllChildren, TypeOK
    <3>4. calls' \in Seq(CallRecord) /\ calls' # <<>>
      BY <3>1, <3>2
    <3> QED
      BY <3>1, <3>3, <3>4 DEF Calling
  <2>2. CASE TagRow
    <3>1. calls # <<>> /\ pc' = "tagging" /\ before' = before /\ Top.row <= Len(order)
      BY <1>0, <2>2 DEF TagRow, Calling
    <3> DEFINE looked == Seen(calls)
               q == order[Top.row]
    <3>2. looked \in Seq(CallRecord) /\ looked # <<>>
      <4>1. looked \in Seq(CallRecord) /\ Len(looked) = Len(calls)
        BY <1>0, <3>1, SeenType DEF TypeOK
      <4> QED
        BY <1>0, <3>1, <4>1, TopType
    <3>3. \/ Into(q) /\ calls' = Append(looked, Call(q)) /\ tagged' = tagged \cup {q}
          \/ calls' = looked /\ tagged' = tagged
      BY <2>2 DEF TagRow, Seen
    <3> HIDE DEF looked
    <3>4. CASE Into(q) /\ calls' = Append(looked, Call(q)) /\ tagged' = tagged \cup {q}
      <4>1. q \in Rows
        <5>1. Top.row \in DOMAIN order
          BY <1>0, <3>1, TopType DEF TypeOK
        <5> QED
          BY <5>1 DEF Rows
      <4>2. q \in Pid /\ Call(q) \in CallRecord
        BY <1>0, <4>1 DEF Call, CallRecord
      <4> HIDE DEF q
      <4>3. calls' \in Seq(CallRecord) /\ calls' # <<>>
        BY <3>2, <3>4, <4>2
      <4>4. tagged' \subseteq listed' /\ before' \subseteq Pid
        BY <1>0, <1>1, <3>1, <3>4, <4>1 DEF TypeOK
      <4> QED
        BY <3>1, <4>3, <4>4 DEF Calling
    <3> QED
      BY <1>0, <1>1, <3>1, <3>2, <3>3, <3>4 DEF Calling, TypeOK
  <2>3. CASE TagReturn
    <3>1. calls # <<>> /\ tagged' = tagged /\ before' \in {before, {}}
      BY <1>0, <2>3 DEF TagReturn, Calling, listVars
    <3>2. calls' = SubSeq(calls, 1, Len(calls) - 1) /\ pc' = IF Len(calls) = 1 THEN "check" ELSE "tagging"
      BY <2>3 DEF TagReturn
    <3>3. calls' \in Seq(CallRecord) /\ Len(calls') = Len(calls) - 1
      <4>1. calls \in Seq(CallRecord) /\ Len(calls) \in Nat \ {0}
        BY <1>0, <3>1, TopType DEF TypeOK
      <4> QED
        BY <3>1, <3>2, <4>1, FrontType
    <3>4. calls' = <<>> <=> Len(calls) = 1
      BY <1>0, <3>1, <3>3, TopType
    <3> QED
      BY <1>0, <1>1, <3>1, <3>2, <3>3, <3>4 DEF Calling, TypeOK
  <2> QED
    BY <2>1, <2>2, <2>3
<1>3. TypeOK'
  BY <1>0, <1>1, <1>2 DEF TypeOK, searchVars
<1> QED
  BY <1>1, <1>2, <1>3, CursorStep

LEMMA CloseMenuStep ==
    ASSUME PanelInv, CloseMenu
    PROVE  PanelInv'
<1>0. TypeOK /\ Rows \subseteq Pid /\ MainPanel_selectedPid \in Pid \cup {NoPid}
  BY RowsType DEF PanelInv, FollowedSelected
<1>1. /\ UNCHANGED <<alive, listed, tagged, order, selected, searchVars>>
      /\ menu' = NoMenu /\ pc' = "check"
  BY DEF CloseMenu
<1>2. following' \in {following, NoPid} /\ signalled' \subseteq Pid /\ hidden' \subseteq Pid
  <2>1. foreachProcess \subseteq Pid
    BY <1>0 DEF foreachProcess
  <2>2. following' \in {following, NoPid}
    BY DEF CloseMenu, MayFollow
  <2>3. signalled' \in {foreachProcess, {}} /\ (hidden' = hidden \/ hidden' \in SUBSET Pid)
    BY DEF CloseMenu
  <2> QED
    BY <1>0, <2>1, <2>2, <2>3 DEF TypeOK
<1>3. TypeOK' /\ Calling'
  <2>1. calls' = calls /\ before' = before /\ pc = "getch"
    BY DEF CloseMenu, callVars
  <2> QED
    BY <1>0, <1>1, <1>2, <2>1 DEF TypeOK, NoMenu, searchVars, Calling, PanelInv
<1> QED
  BY <1>1, <1>2, <1>3, CursorStep

LEMMA PanelStep ==
    ASSUME PanelInv, [Next]_vars
    PROVE  PanelInv'
<1>0. TypeOK /\ Calling
  BY DEF PanelInv, FollowedSelected
<1>1. CASE ForkOrExit \/ Timeout \/ UNCHANGED vars
  <2>1. /\ UNCHANGED <<listVars, selected, following, searchVars, callVars, menu>>
        /\ alive' \subseteq Pid /\ signalled' \in {{}, signalled}
        /\ pc' = pc \/ (pc = "getch" /\ pc' = "check")
    <3>1. CASE ForkOrExit
      BY <1>0, <3>1 DEF ForkOrExit, TypeOK
    <3>2. CASE Timeout
      BY <1>0, <3>2 DEF Timeout, TypeOK
    <3>3. CASE UNCHANGED vars
      BY <1>0, <3>3 DEF vars, TypeOK
    <3> QED
      BY <1>1, <3>1, <3>2, <3>3
  <2>2. TypeOK' /\ order' = order /\ listed' = listed /\ Calling'
    BY <1>0, <2>1 DEF TypeOK, listVars, searchVars, callVars, Calling
  <2> QED
    BY <2>1, <2>2, CursorStep
<1>2. CASE Pass
  BY <1>2, PassStep
<1>3. CASE CloseMenu
  BY <1>3, CloseMenuStep
<1>4. CASE \/ Move \/ MainPanel_pidSearch \/ actionTag \/ actionUntagAll
           \/ Action_follow \/ Filter \/ changePriority \/ OpenMenu
  BY <1>4, KeyStep
<1>5. CASE actionTagAllChildren \/ TagRow \/ TagReturn
  BY <1>5, CallStep
<1> QED
  BY <1>1, <1>2, <1>3, <1>4, <1>5 DEF Next

LEMMA PanelInvariant == Spec => []PanelInv
<1>1. Init => PanelInv
  <2> SUFFICES ASSUME Init PROVE PanelInv
    OBVIOUS
  <2>1. Rows = {}
    BY DEF Init, Rows
  <2>2. TypeOK
    BY PidAssumption DEF Init, TypeOK, NoMenu
  <2> QED
    BY <2>1, <2>2 DEF Init, PanelInv, FollowedSelected, Calling
<1> QED
  BY <1>1, PanelStep, PTL DEF Spec

\* The cursor is on the process that is followed, whatever exits, is hidden,
\* tagged or chosen from a menu.
THEOREM FollowedIsSelected == Spec => []FollowedSelected
<1>1. PanelInv => FollowedSelected
  BY DEF PanelInv
<1> QED
  BY <1>1, PanelInvariant, PTL

-----------------------------------------------------------------------------
(* Menus.                                                                   *)

LEMMA MenuStep ==
    ASSUME [Next]_vars
    PROVE  \/ UNCHANGED vars
           \/ menu.open /\ signalled' # {} =>
                 signalled' = tagged \cap Rows \/ signalled' = {menu.pid}
<1>1. CASE ForkOrExit \/ Timeout \/ Pass \/ TagRow \/ TagReturn
  BY <1>1 DEF ForkOrExit, Timeout, Pass, TagRow, TagReturn
<1>2. CASE \/ Move \/ MainPanel_pidSearch \/ actionTag \/ actionTagAllChildren
           \/ actionUntagAll \/ Action_follow \/ Filter \/ changePriority \/ OpenMenu
  BY <1>2 DEF Move, MainPanel_pidSearch, actionTag, actionTagAllChildren, actionUntagAll,
         Action_follow, Filter, changePriority, OpenMenu, Key, KeyOf
<1>3. CASE CloseMenu
  <2> SUFFICES ASSUME signalled' # {}
               PROVE  signalled' = tagged \cap Rows \/ signalled' = {menu.pid}
    OBVIOUS
  <2>1. StillSelected /\ signalled' = foreachProcess
    BY <1>3 DEF CloseMenu
  <2>2. signalled' = tagged \cap Rows \/ signalled' = {menu.pid} \ {NoPid}
    BY <2>1 DEF foreachProcess, StillSelected
  <2> QED
    BY <2>2
<1> QED
  BY <1>1, <1>2, <1>3 DEF Next

\* A choice made in a menu goes to the tagged rows or to the process that was
\* selected when the menu was opened, whatever passes ran in between.
THEOREM MenusHitTheirTarget == Spec => MenuHitsTarget
BY MenuStep, PTL DEF Spec, MenuHitsTarget

-----------------------------------------------------------------------------
(* Families.                                                                *)

LEMMA StartCalls ==
    ASSUME PanelInv, actionTagAllChildren
    PROVE  CallsInv'
<1> DEFINE sel == MainPanel_selectedPid
<1>1. /\ calls' = <<Call(sel)>> /\ tagged' = tagged \cup {sel} /\ before' = tagged /\ sel \in Rows
      /\ order' = order /\ selected' = selected
  BY RowsType DEF actionTagAllChildren, KeyOf, PanelInv, FollowedSelected
<1>2. Len(order) \in Nat /\ DOMAIN order = 1..Len(order)
  BY RowsType DEF PanelInv, FollowedSelected, TypeOK
<1>3. MainPanel_selectedPid' = sel /\ Rows' = Rows
  BY <1>1 DEF MainPanel_selectedPid, Rows
<1> HIDE DEF sel
<1>4. DOMAIN calls' = {1} /\ calls'[1].pid = sel /\ calls'[1].row = 1
  BY <1>1 DEF Call
<1>5. TaggedFamily' = {sel}
  BY <1>1, <1>4 DEF TaggedFamily
<1> QED
  BY <1>1, <1>2, <1>3, <1>4, <1>5 DEF CallsInv

LEMMA RowCalls ==
    ASSUME PanelInv, CallsInv, TagRow
    PROVE  CallsInv'
<1> DEFINE n == Len(calls)
           q == order[Top.row]
           looked == Seen(calls)
<1>1. /\ pc = "tagging" /\ Top.row <= Len(order) /\ before' = before /\ order' = order /\ selected' = selected
      /\ \/ Into(q) /\ calls' = Append(looked, Call(q)) /\ tagged' = tagged \cup {q}
         \/ ~Into(q) /\ calls' = looked /\ tagged' = tagged
  BY DEF TagRow, Seen
<1>2. TypeOK /\ calls # <<>> /\ Len(order) \in Nat /\ DOMAIN order = 1..Len(order)
  BY <1>1 DEF PanelInv, FollowedSelected, Calling, TypeOK
<1>3. /\ n \in Nat \ {0} /\ DOMAIN calls = 1..n
      /\ Top = calls[n]
      /\ \A k \in DOMAIN calls : calls[k] \in CallRecord /\ calls[k].pid \in Pid /\ calls[k].row \in Nat \ {0}
  BY <1>2, TopType DEF Top
<1>4. MainPanel_selectedPid' = MainPanel_selectedPid /\ Rows' = Rows
  BY <1>1 DEF MainPanel_selectedPid, Rows
<1>5. /\ looked \in Seq(CallRecord) /\ Len(looked) = n /\ DOMAIN looked = 1..n
      /\ looked[n].pid = calls[n].pid /\ looked[n].row = calls[n].row + 1
      /\ \A k \in 1..(n - 1) : looked[k] = calls[k]
      /\ \A k \in 1..n : looked[k].pid = calls[k].pid
  BY <1>2, SeenType DEF TypeOK
<1>6. Top.row \in DOMAIN order /\ q \in Rows
  BY <1>1, <1>2, <1>3 DEF Rows
<1> HIDE DEF n, looked, q
<1>7. calls[1].pid \in TaggedFamily /\ Top.pid \in TaggedFamily
  BY <1>2, <1>3 DEF CallsInv, TaggedFamily
<1>8. \A k \in 1..n : looked[k].pid \in Rows \cap tagged /\ looked[k].row \in 1..(Len(order) + 1)
  <2> TAKE k \in 1..n
  <2>1. calls[k].pid \in Rows \cap tagged /\ calls[k].row \in 1..(Len(order) + 1)
    BY <1>3 DEF CallsInv
  <2>2. CASE k = n
    BY <1>1, <1>2, <1>3, <1>5, <2>1, <2>2
  <2>3. CASE k \in 1..(n - 1)
    BY <1>5, <2>1, <2>3
  <2> QED
    BY <1>3, <2>2, <2>3
\* What a call had still to come to is the row it looks at, or still to come.
<1>9. \A p \in TaggedFamily : \A i \in DOMAIN order : Parent[order[i]] = p =>
         \/ order[i] \in tagged
         \/ i = Top.row /\ p = Top.pid
         \/ \E k \in 1..n : looked[k].pid = p /\ looked[k].row <= i
  <2> TAKE p \in TaggedFamily
  <2> TAKE i \in DOMAIN order
  <2> HAVE Parent[order[i]] = p
  <2> SUFFICES ASSUME order[i] \notin tagged
               PROVE  \/ i = Top.row /\ p = Top.pid
                      \/ \E k \in 1..n : looked[k].pid = p /\ looked[k].row <= i
    OBVIOUS
  <2>1. PICK k \in 1..n : calls[k].pid = p /\ calls[k].row <= i
    BY <1>2, <1>3 DEF CallsInv
  <2>2. CASE k = n
    BY <1>2, <1>3, <1>5, <2>1, <2>2
  <2>3. CASE k \in 1..(n - 1)
    BY <1>5, <2>1, <2>3
  <2> QED
    BY <1>3, <2>2, <2>3
<1>10. CASE Into(q) /\ calls' = Append(looked, Call(q)) /\ tagged' = tagged \cup {q}
  <2>1. /\ DOMAIN calls' = 1..(n + 1) /\ calls' # <<>>
        /\ calls'[n + 1].pid = q /\ calls'[n + 1].row = 1 /\ \A k \in 1..n : calls'[k] = looked[k]
    BY <1>3, <1>5, <1>10 DEF Call
  <2>2. q \notin tagged /\ Parent[q] = Top.pid /\ q \notin before
    BY <1>2, <1>10 DEF Into, CallsInv
  <2>3. TaggedFamily' = TaggedFamily \cup {q} /\ calls'[1].pid = calls[1].pid
    <3>1. calls'[1].pid = calls[1].pid
      BY <1>3, <1>5, <2>1
    <3> QED
      BY <1>1, <1>10, <2>2, <3>1 DEF TaggedFamily
  <2>4. \A k \in DOMAIN calls' : calls'[k].pid \in Rows' \cap tagged' /\ calls'[k].row \in 1..(Len(order') + 1)
    BY <1>1, <1>2, <1>3, <1>4, <1>6, <1>8, <1>10, <2>1
  <2>5. \A k \in 1..n : calls'[k].pid = calls[k].pid /\ calls'[k].pid # q
    BY <1>3, <1>5, <2>1, <2>2 DEF CallsInv
  <2>6. \A j, k \in DOMAIN calls' : calls'[j].pid = calls'[k].pid => j = k
    BY <1>3, <2>1, <2>5 DEF CallsInv
  <2>7. \A k \in DOMAIN calls' : k > 1 => calls'[k].pid \notin before'
    BY <1>1, <1>3, <2>1, <2>2, <2>5 DEF CallsInv
  <2>8. \A r \in TaggedFamily' \ {calls'[1].pid} : r \in Rows' /\ Parent[r] \in TaggedFamily'
    BY <1>2, <1>4, <1>6, <1>7, <2>2, <2>3 DEF CallsInv
  <2>9. \A p \in TaggedFamily' : \A i \in DOMAIN order' : Parent[order'[i]] = p =>
           \/ order'[i] \in tagged'
           \/ \E k \in DOMAIN calls' : calls'[k].pid = p /\ calls'[k].row <= i
    <3> TAKE p \in TaggedFamily'
    <3> TAKE i \in DOMAIN order'
    <3> HAVE Parent[order'[i]] = p
    <3>1. CASE p = q
      BY <1>1, <1>2, <1>3, <2>1, <3>1
    <3>2. CASE p \in TaggedFamily /\ i = Top.row
      BY <1>1, <1>10, <3>2 DEF q
    <3>3. CASE p \in TaggedFamily /\ i # Top.row
      <4>1. \/ order[i] \in tagged
            \/ \E k \in 1..n : looked[k].pid = p /\ looked[k].row <= i
        BY <1>1, <1>9, <3>3
      <4>2. 1..n \subseteq DOMAIN calls'
        BY <1>3, <2>1
      <4> QED
        BY <1>1, <1>10, <2>1, <4>1, <4>2
    <3> QED
      BY <2>3, <3>1, <3>2, <3>3
  <2>10. calls'[1].pid = MainPanel_selectedPid' /\ before' \subseteq tagged'
    BY <1>1, <1>2, <1>4, <1>10, <2>3 DEF CallsInv
  <2> QED
    BY <2>4, <2>6, <2>7, <2>8, <2>9, <2>10 DEF CallsInv
<1>11. CASE ~Into(q) /\ calls' = looked /\ tagged' = tagged
  <2>1. DOMAIN calls' = 1..n /\ calls' # <<>> /\ calls'[1].pid = calls[1].pid
    BY <1>3, <1>5, <1>11
  <2>2. TaggedFamily' = TaggedFamily
    BY <1>1, <1>11, <2>1 DEF TaggedFamily
  <2>3. \A k \in 1..n : calls'[k].pid = calls[k].pid
    BY <1>5, <1>11
  <2>4. \A k \in DOMAIN calls' : calls'[k].pid \in Rows' \cap tagged' /\ calls'[k].row \in 1..(Len(order') + 1)
    BY <1>1, <1>4, <1>8, <1>11, <2>1
  <2>5. \A j, k \in DOMAIN calls' : calls'[j].pid = calls'[k].pid => j = k
    BY <1>3, <2>1, <2>3 DEF CallsInv
  <2>6. \A k \in DOMAIN calls' : k > 1 => calls'[k].pid \notin before'
    BY <1>1, <1>3, <2>1, <2>3 DEF CallsInv
  <2>7. \A r \in TaggedFamily' \ {calls'[1].pid} : r \in Rows' /\ Parent[r] \in TaggedFamily'
    BY <1>2, <1>4, <2>1, <2>2 DEF CallsInv
  <2>8. \A p \in TaggedFamily' : \A i \in DOMAIN order' : Parent[order'[i]] = p =>
           \/ order'[i] \in tagged'
           \/ \E k \in DOMAIN calls' : calls'[k].pid = p /\ calls'[k].row <= i
    <3> TAKE p \in TaggedFamily'
    <3> TAKE i \in DOMAIN order'
    <3> HAVE Parent[order'[i]] = p
    <3>1. CASE i = Top.row /\ p = Top.pid
      BY <1>1, <1>11, <3>1 DEF Into, q
    <3>2. CASE ~(i = Top.row /\ p = Top.pid)
      BY <1>1, <1>9, <1>11, <2>1, <2>2, <3>2
    <3> QED
      BY <3>1, <3>2
  <2>9. calls'[1].pid = MainPanel_selectedPid' /\ before' \subseteq tagged'
    BY <1>1, <1>2, <1>4, <1>11, <2>1 DEF CallsInv
  <2> QED
    BY <2>4, <2>5, <2>6, <2>7, <2>8, <2>9 DEF CallsInv
<1> QED
  BY <1>1, <1>10, <1>11

LEMMA ReturnCalls ==
    ASSUME PanelInv, CallsInv, TagReturn
    PROVE  CallsInv'
<1> DEFINE n == Len(calls)
<1>1. /\ pc = "tagging" /\ Top.row > Len(order) /\ order' = order /\ selected' = selected /\ tagged' = tagged
      /\ calls' = SubSeq(calls, 1, n - 1) /\ (n # 1 => before' = before)
  BY DEF TagReturn, listVars
<1>2. TypeOK /\ calls # <<>> /\ Len(order) \in Nat /\ DOMAIN order = 1..Len(order)
  BY <1>1 DEF PanelInv, FollowedSelected, Calling, TypeOK
<1>3. /\ n \in Nat \ {0} /\ DOMAIN calls = 1..n
      /\ Top = calls[n]
      /\ \A k \in DOMAIN calls : calls[k] \in CallRecord /\ calls[k].pid \in Pid /\ calls[k].row \in Nat \ {0}
  BY <1>2, TopType DEF Top
<1>4. MainPanel_selectedPid' = MainPanel_selectedPid /\ Rows' = Rows
  BY <1>1 DEF MainPanel_selectedPid, Rows
<1>5. DOMAIN calls' = 1..(n - 1) /\ \A k \in 1..(n - 1) : calls'[k] = calls[k]
  BY <1>1, <1>2, <1>3 DEF TypeOK
<1>6. CASE n = 1
  <2>1. calls' = <<>>
    BY <1>1, <1>2, <1>6 DEF TypeOK
  <2> QED
    BY <2>1 DEF CallsInv
<1>7. CASE n # 1
  <2>1. calls'[1] = calls[1] /\ TaggedFamily' = TaggedFamily /\ before' = before /\ 1..(n - 1) \subseteq 1..n
    BY <1>1, <1>3, <1>5, <1>7 DEF TaggedFamily
  <2>2. /\ \A k \in DOMAIN calls' : calls'[k].pid \in Rows' \cap tagged' /\ calls'[k].row \in 1..(Len(order') + 1)
        /\ \A j, k \in DOMAIN calls' : calls'[j].pid = calls'[k].pid => j = k
        /\ \A k \in DOMAIN calls' : k > 1 => calls'[k].pid \notin before'
    BY <1>1, <1>3, <1>4, <1>5, <2>1 DEF CallsInv
  <2>3. \A p \in TaggedFamily' : \A i \in DOMAIN order' : Parent[order'[i]] = p =>
           \/ order'[i] \in tagged'
           \/ \E k \in DOMAIN calls' : calls'[k].pid = p /\ calls'[k].row <= i
    <3> TAKE p \in TaggedFamily'
    <3> TAKE i \in DOMAIN order'
    <3> HAVE Parent[order'[i]] = p
    <3> SUFFICES ASSUME order[i] \notin tagged
                 PROVE  \E k \in DOMAIN calls' : calls'[k].pid = p /\ calls'[k].row <= i
      BY <1>1
    <3>0. i \in 1..Len(order) /\ Parent[order[i]] = p /\ p \in TaggedFamily
      BY <1>1, <1>2, <2>1
    <3>1. PICK k \in 1..n : calls[k].pid = p /\ calls[k].row <= i
      BY <1>2, <1>3, <3>0 DEF CallsInv
    <3>2. calls[n].row \in Nat /\ calls[n].row > Len(order)
      BY <1>1, <1>3
    <3>3. k # n
      BY <1>2, <3>0, <3>1, <3>2
    <3>4. k \in 1..(n - 1)
      BY <1>3, <3>3
    <3> HIDE DEF n
    <3>5. k \in DOMAIN calls' /\ calls'[k] = calls[k]
      BY <1>5, <3>4
    <3> QED
      BY <3>1, <3>5
  <2> QED
    BY <1>1, <1>2, <1>4, <2>1, <2>2, <2>3 DEF CallsInv
<1> QED
  BY <1>6, <1>7

LEMMA CallsStep ==
    ASSUME PanelInv, PanelInv', CallsInv, [Next]_vars
    PROVE  CallsInv'
<1>1. CASE actionTagAllChildren
  BY <1>1, StartCalls
<1>2. CASE TagRow
  BY <1>2, RowCalls
<1>3. CASE TagReturn
  BY <1>3, ReturnCalls
<1>4. CASE ForkOrExit \/ UNCHANGED vars
  BY <1>4 DEF ForkOrExit, vars, listVars, callVars, CallsInv, TaggedFamily, Rows, MainPanel_selectedPid
<1>5. CASE \/ Pass \/ Timeout \/ CloseMenu \/ Move \/ MainPanel_pidSearch \/ actionTag \/ actionUntagAll
           \/ Action_follow \/ Filter \/ changePriority \/ OpenMenu
  <2>1. pc # "tagging" /\ calls' = calls
    BY <1>5 DEF Pass, Timeout, CloseMenu, Move, MainPanel_pidSearch, actionTag, actionUntagAll, Action_follow,
           Filter, changePriority, OpenMenu, Key, KeyOf, callVars
  <2>2. calls' = <<>>
    BY <2>1 DEF PanelInv, Calling
  <2> QED
    BY <2>2 DEF CallsInv
<1> QED
  BY <1>1, <1>2, <1>3, <1>4, <1>5 DEF Next

\* The calls are of different rows, so there are no more of them than rows.
LEMMA CallsFewer ==
    ASSUME TypeOK, CallsInv
    PROVE  Len(calls) <= Cardinality(Rows)
<1> DEFINE n == Len(calls)
           f == [k \in 1..n |-> calls[k].pid]
<1>1. n \in Nat /\ DOMAIN calls = 1..n
  BY DEF TypeOK
<1>2. IsFiniteSet(Rows) /\ Cardinality(Rows) \in Nat
  BY RowsFinite
<1>4. f \in [1..n -> Rows] /\ \A j, k \in 1..n : j # k => f[j] # f[k]
  BY <1>1 DEF CallsInv
<1> HIDE DEF f, n
<1>3. IsFiniteSet(1..n) /\ Cardinality(1..n) = n
  <2>1. 1 \in Int /\ n \in Int
    BY <1>1
  <2>2. IsFiniteSet(1..n) /\ Cardinality(1..n) = IF 1 > n THEN 0 ELSE n - 1 + 1
    BY <2>1, FS_Interval
  <2> QED
    BY <1>1, <2>2
<1>5. ~(Cardinality(Rows) < Cardinality(1..n))
  BY <1>2, <1>3, <1>4, FS_PigeonHole
<1> QED
  BY <1>1, <1>2, <1>3, <1>5 DEF n

LEMMA ReachedStep ==
    ASSUME PanelInv, CallsInv, TagReturn, pc' = "check"
    PROVE  LET family == (tagged \ before) \cup {Top.pid}
           IN /\ \A q \in Rows : Parent[q] \in family => q \in tagged
              /\ \A q \in family \ {Top.pid} : q \in Rows /\ Parent[q] \in family
              /\ Top.pid = MainPanel_selectedPid /\ before \cup family = tagged
<1>1. pc = "tagging" /\ Top.row > Len(order) /\ Len(calls) = 1
  BY DEF TagReturn
<1>2. TypeOK /\ calls # <<>> /\ Len(order) \in Nat /\ DOMAIN order = 1..Len(order) /\ DOMAIN calls = {1}
  BY <1>1 DEF PanelInv, FollowedSelected, Calling, TypeOK
<1>3. Top = calls[1] /\ calls[1].row \in Nat
  BY <1>1, <1>2, TopType DEF Top
<1>4. TaggedFamily = (tagged \ before) \cup {Top.pid}
  BY <1>3 DEF TaggedFamily
<1>5. \A q \in Rows : Parent[q] \in TaggedFamily => q \in tagged
  <2> SUFFICES ASSUME NEW i \in DOMAIN order, Parent[order[i]] \in TaggedFamily, order[i] \notin tagged
               PROVE  FALSE
    BY DEF Rows
  <2>1. calls[1].row <= i
    BY <1>2 DEF CallsInv
  <2> QED
    BY <1>1, <1>2, <1>3, <2>1
<1>6. \A q \in TaggedFamily \ {Top.pid} : q \in Rows /\ Parent[q] \in TaggedFamily
  BY <1>2, <1>3 DEF CallsInv
<1>7. Top.pid = MainPanel_selectedPid /\ before \subseteq tagged /\ Top.pid \in tagged
  BY <1>2, <1>3 DEF CallsInv
<1> QED
  BY <1>4, <1>5, <1>6, <1>7

\* Tagging a process and its children leaves no row of the family untagged and
\* tags no other, and never nests deeper than there are rows: whatever was
\* tagged before, and whatever loops the parents form.
THEOREM FamiliesAreTagged == Spec => FamilyReached
<1>1. Init => CallsInv
  BY DEF Init, CallsInv
<1>2. PanelInv /\ CallsInv /\ [Next]_vars => CallsInv'
  BY PanelStep, CallsStep
<1> DEFINE Reached ==
             TagReturn /\ pc' = "check" =>
             LET family == (tagged \ before) \cup {Top.pid}
             IN /\ \A q \in Rows : Parent[q] \in family => q \in tagged
                /\ \A q \in family \ {Top.pid} : q \in Rows /\ Parent[q] \in family
                /\ Top.pid = MainPanel_selectedPid /\ before \cup family = tagged
<1>3. PanelInv /\ CallsInv /\ PanelInv' /\ CallsInv' /\ [Next]_vars => [Len(calls') <= Cardinality(Rows) /\ Reached]_vars
  <2> SUFFICES ASSUME PanelInv, CallsInv, PanelInv', CallsInv', Next
               PROVE  Len(calls') <= Cardinality(Rows) /\ Reached
    OBVIOUS
  <2>1. Reached
    BY ReachedStep
  <2> HIDE DEF Reached
  <2>2. Pass => Len(calls') <= Cardinality(Rows)
    <3> SUFFICES ASSUME Pass PROVE Len(calls') <= Cardinality(Rows)
      OBVIOUS
    <3>1. calls' = <<>>
      BY DEF Pass, callVars, PanelInv, Calling
    <3>2. Cardinality(Rows) \in Nat
      BY RowsFinite DEF PanelInv, FollowedSelected
    <3> QED
      BY <3>1, <3>2
  <2>3. ~Pass => Len(calls') <= Cardinality(Rows)
    <3> SUFFICES ASSUME ~Pass PROVE Len(calls') <= Cardinality(Rows)
      OBVIOUS
    <3>1. Rows' = Rows
      <4>1. order' = order
        BY DEF Next, ForkOrExit, Timeout, CloseMenu, Move, MainPanel_pidSearch, actionTag, actionUntagAll,
               Action_follow, Filter, changePriority, OpenMenu, Key, KeyOf, listVars, actionTagAllChildren,
               TagRow, TagReturn
      <4> QED
        BY <4>1 DEF Rows
    <3>2. (Len(calls) <= Cardinality(Rows))'
      BY CallsFewer, PTL DEF PanelInv, FollowedSelected
    <3>3. Cardinality(Rows)' = Cardinality(Rows)
      BY <3>1
    <3> QED
      BY <3>2, <3>3
  <2> QED
    BY <2>1, <2>2, <2>3
<1> QED
  BY <1>1, <1>2, <1>3, PanelInvariant, PTL DEF Spec, FamilyReached

-----------------------------------------------------------------------------
(* Search by pid.                                                           *)

LEMMA SearchStep ==
    ASSUME TypeOK, SearchInv, [Next]_vars
    PROVE  SearchInv'
<1>1. CASE MainPanel_pidSearch
  <2>1. PICK d \in 0..9 : pidSearch' = NextSearch(d + pidSearch) /\ typed' = typed * 10 + d
    BY <1>1 DEF MainPanel_pidSearch
  <2>2. pidSearch \in Nat /\ typed \in Nat /\ SearchLimit \in Nat
    BY PidAssumption DEF TypeOK
  <2>3. CASE pidSearch = typed * 10
    BY <2>1, <2>2, <2>3 DEF NextSearch, SearchInv
  <2>4. CASE typed * 10 > SearchLimit
    BY <2>1, <2>2, <2>4 DEF SearchInv
  <2> QED
    BY <2>3, <2>4 DEF SearchInv
<1>2. CASE pidSearch' = 0 /\ typed' = 0
  BY <1>2 DEF SearchInv
<1>3. CASE UNCHANGED searchVars
  BY <1>3 DEF SearchInv, searchVars
<1> QED
  BY <1>1, <1>2, <1>3 DEF Next, vars, ForkOrExit, Timeout, Pass, CloseMenu, Move, actionTag,
     actionTagAllChildren, TagRow, TagReturn, actionUntagAll, Action_follow, Filter, changePriority, OpenMenu

LEMMA FoundStep ==
    ASSUME TypeOK, SearchInv, MainPanel_pidSearch, typed' \in Rows
    PROVE  order[selected' + 1] = typed'
<1>1. PICK d \in 0..9 :
         /\ selected' = IF \E i \in DOMAIN order : order[i] = d + pidSearch
                        THEN (CHOOSE i \in DOMAIN order : order[i] = d + pidSearch) - 1
                        ELSE selected
         /\ typed' = typed * 10 + d
  BY DEF MainPanel_pidSearch
<1>2. typed' <= SearchLimit
  BY RowsType, SearchAssumption
<1>3. typed' = d + pidSearch
  <2>1. pidSearch \in Nat /\ typed \in Nat /\ SearchLimit \in Nat
    BY PidAssumption DEF TypeOK
  <2> QED
    BY <1>1, <1>2, <2>1 DEF SearchInv
<1>4. PICK i \in DOMAIN order : order[i] = typed'
  BY DEF Rows
<1> DEFINE at == CHOOSE j \in DOMAIN order : order[j] = typed'
<1>5. at \in DOMAIN order /\ order[at] = typed'
  BY <1>4
<1>6. selected' = at - 1 /\ at \in Int
  <2>1. DOMAIN order = 1..Len(order) /\ Len(order) \in Nat
    BY DEF TypeOK
  <2>2. selected' = at - 1
    BY <1>1, <1>3, <1>4
  <2> QED
    BY <1>5, <2>1, <2>2
<1> HIDE DEF at
<1> QED
  BY <1>5, <1>6

\* When the number typed so far is the pid of a row, the cursor is on that row,
\* however many digits were typed and whatever was typed before.
THEOREM TypedPidIsFound == Spec => PidSearchFinds
<1>1. Init => SearchInv
  BY DEF Init, SearchInv
<1>2. PanelInv /\ SearchInv /\ [Next]_vars => SearchInv'
  BY SearchStep DEF PanelInv, FollowedSelected
<1>3. PanelInv /\ SearchInv /\ [Next]_vars =>
         [MainPanel_pidSearch /\ typed' \in Rows => order[selected' + 1] = typed']_vars
  BY FoundStep DEF PanelInv, FollowedSelected
<1> QED
  BY <1>1, <1>2, <1>3, PanelInvariant, PTL DEF Spec, PidSearchFinds
=============================================================================
