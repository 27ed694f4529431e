-------------------------- MODULE BlockStatProofs --------------------------
(***************************************************************************)
(* Proofs about BlockStat for every set of groups, every chain and every   *)
(* configuration: type correctness, that ids follow numbers, that cycles   *)
(* are exact unless a pull outlived its group, and that the statistics of  *)
(* a group are a window of its blocks as BlockMirror describes it.         *)
(***************************************************************************)
EXTENDS BlockStat, TLAPS

\* The rows carry the numbers from lo to hi.
Spans(g, lo, hi) == lo <= hi /\ Numbers[g] = lo..hi

Windows == \A g \in Groups :
    stat[g] = {} \/ \E lo \in Heights, hi \in Heights : Spans(g, lo, hi)

\* Ids are given out in ascending order.
IdsBelowNext == \A g \in Groups : \A r \in stat[g] : r.id < nextId[g]

\* A pull that knows where to go on is right above the newest row, unless the
\* rows were removed meanwhile.
UnderWay == \A g \in Groups :
    /\ pc[g] = "zero" => stat[g] = {} /\ next[g] = 1
    /\ pc[g] = "save" => next[g] <= MaxHeight
    /\ pc[g] \in {"height", "loop", "save"} =>
          /\ \A r \in stat[g] : r.num < next[g]
          /\ stat[g] = {} \/ \E r \in stat[g] : r.num = next[g] - 1

\* Of a group whose removal met no pull: the pull holds the time of the block
\* before the next one, and while the group is not listed nothing is left of it.
Intact == \A g \in Groups \ torn :
    /\ pc[g] \in {"height", "loop", "save"} => last[g] = <<chain[g], next[g] - 1>>
    /\ pc[g] = "save" => fetched[g] = chain[g]
    /\ g \notin listed => pc[g] = "idle" /\ stat[g] = {}

IInv ==
    /\ TypeOK
    /\ Windows
    /\ IdsBelowNext
    /\ IdsFollowNumbers
    /\ UnderWay
    /\ Intact
    /\ CycleIsExact

LEMMA NumbersAt ==
    ASSUME NEW g \in Groups
    PROVE  Numbers[g] = {r.num : r \in stat[g]}
BY DEF Numbers

LEMMA InitInv == Init => IInv
<1> SUFFICES ASSUME Init PROVE IInv
    OBVIOUS
<1>1. TypeOK
    <2>1. 0 \in Chains /\ <<0, 0>> \in Times /\ 1 \in 1..(MaxHeight + 1)
        BY BlockStatAssumption DEF Heights, Chains, Times
    <2>2. /\ chain \in [Groups -> Chains] /\ last \in [Groups -> Times]
          /\ fetched \in [Groups -> Chains] /\ next \in [Groups -> 1..(MaxHeight + 1)]
        BY <2>1 DEF Init
    <2>3. pc \in [Groups -> PullStates] /\ stat \in [Groups -> SUBSET Rows]
        BY DEF Init, PullStates
    <2>4. nextId \in [Groups -> Nat] /\ bound \in [Groups -> Nat]
        BY DEF Init
    <2>5. height \in [Groups -> Heights] /\ fails \in 0..MaxFail /\ removals \in 0..MaxRemovals
        BY BlockStatAssumption DEF Init
    <2>6. QED
        BY <2>2, <2>3, <2>4, <2>5 DEF Init, TypeOK
<1>2. QED
    BY <1>1 DEF Init, IInv, Windows, IdsBelowNext, IdsFollowNumbers, UnderWay, Intact, CycleIsExact

-----------------------------------------------------------------------------
LEMMA TypeStep == ASSUME TypeOK, UnderWay, [Next]_vars PROVE TypeOK'
<1> USE BlockStatAssumption DEF Heights, Chains, Times, PullStates
<1>1. CASE BlockStatStart
    BY <1>1 DEF TypeOK, BlockStatStart, world
<1>2. CASE BlockStatEnd
    BY <1>2 DEF TypeOK, BlockStatEnd, world, locals
<1>3. CASE Crash
    <2>1. pc' \in [Groups -> PullStates] /\ fails' \in 0..MaxFail
        BY <1>3 DEF TypeOK, Crash
    <2>2. QED
        BY <1>3, <2>1 DEF TypeOK, Crash, world
<1>4. ASSUME NEW g \in Groups, ChainGrows(g) PROVE TypeOK'
    BY <1>4 DEF TypeOK, ChainGrows, locals
<1>5. ASSUME NEW g \in Groups, NewChain(g) PROVE TypeOK'
    BY <1>5 DEF TypeOK, NewChain, locals
<1>6. ASSUME NEW g \in Groups, ListGroup(g) PROVE TypeOK'
    BY <1>6 DEF TypeOK, ListGroup, locals
<1>7. ASSUME NEW g \in Groups, RemoveGroup(g) PROVE TypeOK'
    BY <1>7 DEF TypeOK, RemoveGroup, locals
<1>8. ASSUME NEW g \in Groups, ReadLatest(g) PROVE TypeOK'
    BY <1>8 DEF TypeOK, ReadLatest, world, Rows
<1>9. ASSUME NEW g \in Groups, ReadNone(g) PROVE TypeOK'
    BY <1>9 DEF TypeOK, ReadNone, world
<1>10. ASSUME NEW g \in Groups, FetchZero(g) PROVE TypeOK'
    BY <1>10 DEF TypeOK, FetchZero, world
<1>11. ASSUME NEW g \in Groups, ReadHeight(g) PROVE TypeOK'
    BY <1>11 DEF TypeOK, ReadHeight, Return, PageEnd, Reported, world
<1>12. ASSUME NEW g \in Groups, FetchBlock(g) PROVE TypeOK'
    BY <1>12 DEF TypeOK, FetchBlock, world
<1>13. ASSUME NEW g \in Groups, FetchNothing(g) PROVE TypeOK'
    BY <1>13 DEF TypeOK, FetchNothing, Return, world
<1>14. ASSUME NEW g \in Groups, ExitLoop(g) PROVE TypeOK'
    BY <1>14 DEF TypeOK, ExitLoop, Return, world
<1>15. ASSUME NEW g \in Groups, SaveStat(g) PROVE TypeOK'
    <2> DEFINE row == [id |-> nextId[g], num |-> next[g],
                       chain |-> fetched[g], last |-> last[g]]
    <2>1. next[g] \in 1..MaxHeight
        BY <1>15 DEF TypeOK, UnderWay, SaveStat
    <2>2. row \in Rows
        BY <2>1 DEF TypeOK, Rows
    <2>3. stat' \in [Groups -> SUBSET Rows]
        BY <1>15, <2>2 DEF TypeOK, SaveStat
    <2>4. QED
        BY <1>15, <2>1, <2>3 DEF TypeOK, SaveStat, world
<1>16. ASSUME NEW g \in Groups, PullFails(g) PROVE TypeOK'
    BY <1>16 DEF TypeOK, PullFails, Return, world
<1>17. ASSUME NEW g \in Groups, DeleteBlockStat(g) PROVE TypeOK'
    BY <1>17 DEF TypeOK, DeleteBlockStat, world, locals
<1>18. CASE UNCHANGED vars
    BY <1>18 DEF TypeOK, vars, world, locals
<1>19. QED
    BY <1>1, <1>2, <1>3, <1>4, <1>5, <1>6, <1>7, <1>8, <1>9, <1>10, <1>11, <1>12,
       <1>13, <1>14, <1>15, <1>16, <1>17, <1>18 DEF Next, PullStep

-----------------------------------------------------------------------------
(***************************************************************************)
(* The two actions that change the rows of a group that stays.             *)
(***************************************************************************)

\* SaveStat adds a row on top.
LEMMA SaveStatRows ==
    ASSUME IInv, NEW g \in Groups, SaveStat(g)
    PROVE  /\ stat'[g] = stat[g] \cup {[id |-> nextId[g], num |-> next[g],
                                        chain |-> fetched[g], last |-> last[g]]}
           /\ \A h \in Groups \ {g} : stat'[h] = stat[h]
           /\ next[g] \in Heights
           /\ \A r \in stat[g] : r.num < next[g] /\ r.id < nextId[g]
           /\ Numbers'[g] = Numbers[g] \cup {next[g]}
           /\ Numbers' = [Numbers EXCEPT ![g] = @ \cup {next[g]}]
<1> USE BlockStatAssumption
<1>1. \A r \in stat[g] : r.num < next[g] /\ r.id < nextId[g]
    BY DEF IInv, UnderWay, IdsBelowNext, SaveStat
<1>2. next[g] \in Heights
    BY DEF IInv, UnderWay, SaveStat, TypeOK, Heights
<1>3. ~\E r \in stat[g] : r.num = next[g]
    BY <1>1, <1>2 DEF Heights
<1>4. /\ stat'[g] = stat[g] \cup {[id |-> nextId[g], num |-> next[g],
                                   chain |-> fetched[g], last |-> last[g]]}
      /\ \A h \in Groups \ {g} : stat'[h] = stat[h]
    BY <1>3 DEF SaveStat, IInv, TypeOK
<1> DEFINE row == [id |-> nextId[g], num |-> next[g],
                   chain |-> fetched[g], last |-> last[g]]
<1>5. Numbers'[g] = Numbers[g] \cup {next[g]}
    <2>1. row.num = next[g] /\ stat'[g] = stat[g] \cup {row}
        BY <1>4
    <2>2. {r.num : r \in stat[g] \cup {row}} = {r.num : r \in stat[g]} \cup {next[g]}
        BY <2>1
    <2>3. QED
        BY <2>1, <2>2 DEF Numbers
<1>6. Numbers' = [Numbers EXCEPT ![g] = @ \cup {next[g]}]
    BY <1>4, <1>5 DEF Numbers
<1>7. QED
    BY <1>1, <1>2, <1>4, <1>5, <1>6

\* The clean-up keeps the upper part of the window, and the newest row in it.
LEMMA DeleteRows ==
    ASSUME IInv, NEW g \in Groups, DeleteBlockStat(g)
    PROVE  /\ stat'[g] \subseteq stat[g]
           /\ \A h \in Groups \ {g} : stat'[h] = stat[h]
           /\ \E lo \in Heights, hi \in Heights, low \in Heights :
                 /\ Spans(g, lo, hi)
                 /\ low \in lo..hi
                 /\ Numbers'[g] = low..hi
                 /\ Numbers' = [Numbers EXCEPT ![g] = {b \in @ : b >= low}]
           /\ \A r \in stat[g] : (\A q \in stat[g] : q.num <= r.num) => r \in stat'[g]
<1> USE BlockStatAssumption
<1>1. PICK top \in stat[g] :
         /\ \A r \in stat[g] : r.num <= top.num
         /\ stat' = [stat EXCEPT ![g] = {r \in @ : ~(r.num <= top.num - RetainMax)}]
    BY DEF DeleteBlockStat
<1>2. /\ stat'[g] = {r \in stat[g] : ~(r.num <= top.num - RetainMax)}
      /\ \A h \in Groups \ {g} : stat'[h] = stat[h]
    BY <1>1 DEF IInv, TypeOK
<1>3. \A r \in stat[g] : r.num \in Nat
    BY DEF IInv, TypeOK, Rows, Heights
<1>4. \A r \in stat[g] : (\A q \in stat[g] : q.num <= r.num) => r \in stat'[g]
    BY <1>1, <1>2, <1>3
<1>5. PICK lo \in Heights, hi \in Heights : Spans(g, lo, hi)
    BY <1>1 DEF IInv, Windows
<1>6. lo \in Int /\ hi \in Int /\ lo <= hi /\ Numbers[g] = lo..hi
    BY <1>5 DEF Spans, Heights
<1>7. top.num = hi
    <2>1. hi \in Numbers[g] /\ top.num \in lo..hi
        BY <1>1, <1>6 DEF Numbers
    <2>2. hi <= top.num
        BY <1>1, <2>1 DEF Numbers
    <2>3. QED
        BY <1>6, <2>1, <2>2
<1> DEFINE low == IF hi - RetainMax < lo THEN lo ELSE hi - RetainMax + 1
<1>8. low \in Heights /\ low \in lo..hi
    BY <1>5, <1>6 DEF Heights
<1>9. Numbers'[g] = {n \in Numbers[g] : ~(n <= hi - RetainMax)}
    BY <1>2, <1>7 DEF Numbers
<1>10. Numbers'[g] = low..hi /\ Numbers'[g] = {b \in Numbers[g] : b >= low}
    BY <1>6, <1>9
<1>11. Numbers' = [Numbers EXCEPT ![g] = {b \in @ : b >= low}]
    BY <1>2, <1>10 DEF Numbers
<1>12. \E l \in Heights, h \in Heights, m \in Heights :
          /\ Spans(g, l, h)
          /\ m \in l..h
          /\ Numbers'[g] = m..h
          /\ Numbers' = [Numbers EXCEPT ![g] = {b \in @ : b >= m}]
    <2> HIDE DEF low
    <2>1. QED
        BY <1>5, <1>8, <1>10, <1>11
<1>13. stat'[g] \subseteq stat[g]
    BY <1>2
<1>14. QED
    BY <1>2, <1>4, <1>12, <1>13

-----------------------------------------------------------------------------
(***************************************************************************)
(* Every step keeps the rest of the invariant.                             *)
(***************************************************************************)
Rest == Windows /\ IdsBelowNext /\ IdsFollowNumbers /\ UnderWay /\ Intact /\ CycleIsExact

\* The parts that speak of the rows alone.
LEMMA SameRows ==
    ASSUME IInv, stat' = stat, nextId' = nextId
    PROVE  Windows' /\ IdsBelowNext' /\ IdsFollowNumbers'
<1>1. Numbers' = Numbers
    BY DEF Numbers
<1>2. QED
    BY <1>1 DEF IInv, Windows, Spans, IdsBelowNext, IdsFollowNumbers

LEMMA RestStep == ASSUME IInv, [Next]_vars PROVE Rest'
<1> USE BlockStatAssumption DEF IInv
<1>1. CASE BlockStatStart
    <2>1. Windows' /\ IdsBelowNext' /\ IdsFollowNumbers'
        BY <1>1, SameRows DEF BlockStatStart
    <2>2. QED
        BY <1>1, <2>1 DEF BlockStatStart, Rest, UnderWay, Intact, CycleIsExact, TypeOK, world
<1>2. CASE BlockStatEnd
    <2>1. Windows' /\ IdsBelowNext' /\ IdsFollowNumbers'
        BY <1>2, SameRows DEF BlockStatEnd
    <2>2. QED
        BY <1>2, <2>1 DEF BlockStatEnd, Rest, UnderWay, Intact, CycleIsExact, TypeOK, world, locals
<1>3. CASE Crash
    <2>1. Windows' /\ IdsBelowNext' /\ IdsFollowNumbers'
        BY <1>3, SameRows DEF Crash
    <2>2. QED
        BY <1>3, <2>1 DEF Crash, Rest, UnderWay, Intact, CycleIsExact, TypeOK, world
<1>4. ASSUME NEW g \in Groups, ChainGrows(g) PROVE Rest'
    <2>1. Windows' /\ IdsBelowNext' /\ IdsFollowNumbers'
        BY <1>4, SameRows DEF ChainGrows
    <2>2. QED
        BY <1>4, <2>1 DEF ChainGrows, Rest, UnderWay, Intact, CycleIsExact, TypeOK, Heights, locals, world
<1>5. ASSUME NEW g \in Groups, NewChain(g) PROVE Rest'
    <2>1. Windows' /\ IdsBelowNext' /\ IdsFollowNumbers'
        BY <1>5, SameRows DEF NewChain
    <2>2. QED
        BY <1>5, <2>1 DEF NewChain, Rest, UnderWay, Intact, CycleIsExact, TypeOK, Heights, locals, world
<1>6. ASSUME NEW g \in Groups, ListGroup(g) PROVE Rest'
    <2>1. Windows' /\ IdsBelowNext' /\ IdsFollowNumbers'
        BY <1>6, SameRows DEF ListGroup
    <2>2. QED
        BY <1>6, <2>1 DEF ListGroup, Rest, UnderWay, Intact, CycleIsExact, TypeOK, Heights, locals, world
<1>7. ASSUME NEW g \in Groups, ReadNone(g) PROVE Rest'
    <2>1. Windows' /\ IdsBelowNext' /\ IdsFollowNumbers'
        BY <1>7, SameRows DEF ReadNone
    <2>2. QED
        BY <1>7, <2>1 DEF ReadNone, Rest, UnderWay, Intact, CycleIsExact, TypeOK, Heights, world
<1>8. ASSUME NEW g \in Groups, FetchZero(g) PROVE Rest'
    <2>1. Windows' /\ IdsBelowNext' /\ IdsFollowNumbers'
        BY <1>8, SameRows DEF FetchZero
    <2>2. QED
        BY <1>8, <2>1 DEF FetchZero, Rest, UnderWay, Intact, CycleIsExact, TypeOK, Heights, world
<1>9. ASSUME NEW g \in Groups, ReadHeight(g) PROVE Rest'
    <2>1. Windows' /\ IdsBelowNext' /\ IdsFollowNumbers'
        BY <1>9, SameRows DEF ReadHeight
    <2>2. QED
        BY <1>9, <2>1 DEF ReadHeight, Rest, UnderWay, Intact, CycleIsExact, TypeOK, Heights, world, Return
<1>10. ASSUME NEW g \in Groups, FetchBlock(g) PROVE Rest'
    <2>1. Windows' /\ IdsBelowNext' /\ IdsFollowNumbers'
        BY <1>10, SameRows DEF FetchBlock
    <2>2. QED
        BY <1>10, <2>1 DEF FetchBlock, Rest, UnderWay, Intact, CycleIsExact, TypeOK, Heights, world
<1>11. ASSUME NEW g \in Groups, FetchNothing(g) PROVE Rest'
    <2>1. Windows' /\ IdsBelowNext' /\ IdsFollowNumbers'
        BY <1>11, SameRows DEF FetchNothing
    <2>2. QED
        BY <1>11, <2>1 DEF FetchNothing, Rest, UnderWay, Intact, CycleIsExact, TypeOK, Heights, world, Return
<1>12. ASSUME NEW g \in Groups, ExitLoop(g) PROVE Rest'
    <2>1. Windows' /\ IdsBelowNext' /\ IdsFollowNumbers'
        BY <1>12, SameRows DEF ExitLoop
    <2>2. QED
        BY <1>12, <2>1 DEF ExitLoop, Rest, UnderWay, Intact, CycleIsExact, TypeOK, Heights, world, Return
<1>13. ASSUME NEW g \in Groups, PullFails(g) PROVE Rest'
    <2>1. Windows' /\ IdsBelowNext' /\ IdsFollowNumbers'
        BY <1>13, SameRows DEF PullFails
    <2>2. QED
        BY <1>13, <2>1 DEF PullFails, Rest, UnderWay, Intact, CycleIsExact, TypeOK, Heights, world, Return
<1>14. ASSUME NEW g \in Groups, ReadLatest(g) PROVE Rest'
    <2>1. Windows' /\ IdsBelowNext' /\ IdsFollowNumbers'
        BY <1>14, SameRows DEF ReadLatest
    <2>2. PICK r \in stat[g] : /\ IsLatest(r, g)
                              /\ next' = [next EXCEPT ![g] = r.num + 1]
                              /\ last' = [last EXCEPT ![g] = <<r.chain, r.num>>]
        BY <1>14 DEF ReadLatest
    <2>3. \A q \in stat[g] : q.num \in Nat /\ q.id \in Nat
        BY DEF TypeOK, Rows, Heights
    <2>4. \A q \in stat[g] : q.num <= r.num
        BY <2>2, <2>3 DEF IsLatest, IdsFollowNumbers
    <2>5. /\ pc[g] = "latest" /\ pc' = [pc EXCEPT ![g] = "height"]
          /\ UNCHANGED <<chain, listed, stat, fetched, torn>>
        BY <1>14 DEF ReadLatest, world
    <2>6. UnderWay'
        BY <2>2, <2>3, <2>4, <2>5 DEF UnderWay, TypeOK
    <2>7. g \notin torn => r.chain = chain[g]
        BY DEF CycleIsExact
    <2>8. Intact' /\ CycleIsExact'
        BY <2>2, <2>3, <2>5, <2>7 DEF Intact, CycleIsExact, TypeOK
    <2>9. QED
        BY <2>1, <2>6, <2>8 DEF Rest
<1>15. ASSUME NEW g \in Groups, RemoveGroup(g) PROVE Rest'
    <2>1. stat'[g] = {} /\ \A h \in Groups \ {g} : stat'[h] = stat[h] /\ Numbers'[h] = Numbers[h]
        BY <1>15 DEF RemoveGroup, TypeOK, Numbers
    <2>2. Windows'
        BY <2>1 DEF Windows, Spans
    <2>3. IdsBelowNext' /\ IdsFollowNumbers'
        BY <1>15, <2>1 DEF RemoveGroup, IdsBelowNext, IdsFollowNumbers
    <2>4. UnderWay'
        BY <1>15, <2>1 DEF RemoveGroup, UnderWay, locals
    <2>5. Intact' /\ CycleIsExact'
        BY <1>15, <2>1 DEF RemoveGroup, Intact, CycleIsExact, locals
    <2>6. QED
        BY <2>2, <2>3, <2>4, <2>5 DEF Rest
<1>16. ASSUME NEW g \in Groups, SaveStat(g) PROVE Rest'
    <2> DEFINE row == [id |-> nextId[g], num |-> next[g],
                       chain |-> fetched[g], last |-> last[g]]
    <2>1. /\ stat'[g] = stat[g] \cup {row}
          /\ \A h \in Groups \ {g} : stat'[h] = stat[h]
          /\ next[g] \in Heights
          /\ \A r \in stat[g] : r.num < next[g] /\ r.id < nextId[g]
          /\ Numbers'[g] = Numbers[g] \cup {next[g]}
        BY <1>16, SaveStatRows
    <2>2. /\ pc[g] = "save" /\ pc' = [pc EXCEPT ![g] = "loop"]
          /\ next' = [next EXCEPT ![g] = @ + 1]
          /\ nextId' = [nextId EXCEPT ![g] = @ + 1]
          /\ last' = [last EXCEPT ![g] = <<fetched[g], next[g]>>]
          /\ UNCHANGED <<chain, listed, fetched, torn>>
        BY <1>16 DEF SaveStat, world
    <2>3. /\ \A r \in stat[g] : r.num \in Nat /\ r.id \in Nat
          /\ nextId[g] \in Nat /\ next[g] \in Nat
        BY <2>1 DEF TypeOK, Rows, Heights
    <2>4. Windows'
        <3>1. ASSUME NEW h \in Groups \ {g}
              PROVE  stat'[h] = {} \/ \E lo \in Heights, hi \in Heights : Spans(h, lo, hi)'
            BY <2>1 DEF Windows, Spans, Numbers
        <3>2. CASE stat[g] = {}
            <4>1. Numbers'[g] = next[g]..next[g]
                BY <2>1, <2>3, <3>2 DEF Numbers
            <4>2. \E lo \in Heights, hi \in Heights : lo <= hi /\ Numbers'[g] = lo..hi
                BY <4>1, <2>1, <2>3
            <4>3. QED
                BY <3>1, <4>2 DEF Windows, Spans
        <3>3. CASE stat[g] # {}
            <4>1. PICK lo \in Heights, hi \in Heights : lo <= hi /\ Numbers[g] = lo..hi
                BY <3>3 DEF Windows, Spans
            <4>2. next[g] - 1 \in Numbers[g]
                BY <3>3, <2>2 DEF UnderWay, Numbers
            <4>3. \A n \in Numbers[g] : n < next[g]
                BY <2>1 DEF Numbers
            <4>4. hi = next[g] - 1
                BY <4>1, <4>2, <4>3, <2>3 DEF Heights
            <4>5. Numbers'[g] = lo..next[g] /\ lo <= next[g]
                BY <4>1, <4>4, <2>1, <2>3 DEF Heights
            <4>6. QED
                BY <3>1, <4>1, <4>5, <2>1 DEF Windows, Spans
        <3>4. QED
            BY <3>2, <3>3
    <2>5. IdsBelowNext'
        BY <2>1, <2>2, <2>3 DEF IdsBelowNext, TypeOK
    <2>6. IdsFollowNumbers'
        <3>1. ASSUME NEW r \in stat'[g], NEW q \in stat'[g]
              PROVE  r.id < q.id <=> r.num < q.num
            BY <2>1, <2>3 DEF IdsFollowNumbers
        <3>2. QED
            BY <2>1, <3>1 DEF IdsFollowNumbers
    <2>7. UnderWay'
        <3>1. \A r \in stat'[g] : r.num < next[g] + 1
            BY <2>1, <2>3
        <3>2. row \in stat'[g] /\ row.num = (next[g] + 1) - 1
            BY <2>1, <2>3
        <3>3. QED
            BY <2>1, <2>2, <2>3, <3>1, <3>2 DEF UnderWay, TypeOK
    <2>8. Intact'
        BY <2>1, <2>2, <2>3 DEF Intact, TypeOK
    <2>9. CycleIsExact'
        <3>1. g \notin torn => row.chain = chain[g] /\ row.last = <<row.chain, row.num - 1>>
            BY <2>2 DEF Intact
        <3>2. QED
            BY <2>1, <2>2, <3>1 DEF CycleIsExact
    <2>10. QED
        BY <2>4, <2>5, <2>6, <2>7, <2>8, <2>9 DEF Rest
<1>17. ASSUME NEW g \in Groups, DeleteBlockStat(g) PROVE Rest'
    <2>1. /\ stat'[g] \subseteq stat[g]
          /\ \A h \in Groups \ {g} : stat'[h] = stat[h]
          /\ \E low \in Heights, hi \in Heights : low <= hi /\ Numbers'[g] = low..hi
          /\ \A r \in stat[g] : (\A q \in stat[g] : q.num <= r.num) => r \in stat'[g]
        BY <1>17, DeleteRows DEF Heights
    <2>2. Windows'
        <3>1. \A h \in Groups \ {g} : Numbers'[h] = Numbers[h]
            BY <2>1 DEF Numbers
        <3>2. QED
            BY <2>1, <3>1 DEF Windows, Spans
    <2>3. UNCHANGED <<nextId, pc, next, last, fetched, chain, listed, torn>>
        BY <1>17 DEF DeleteBlockStat, locals, world
    <2>4. IdsBelowNext' /\ IdsFollowNumbers'
        BY <2>1, <2>3 DEF IdsBelowNext, IdsFollowNumbers
    <2>5. UnderWay'
        <3>1. \A r \in stat[g] : r.num \in Nat
            BY DEF TypeOK, Rows, Heights
        <3>2. next[g] \in Nat
            BY DEF TypeOK
        <3>3. ASSUME NEW r \in stat[g], r.num = next[g] - 1, \A q \in stat[g] : q.num < next[g]
              PROVE  r \in stat'[g]
            BY <2>1, <3>1, <3>2, <3>3
        <3>4. QED
            BY <2>1, <2>3, <3>3 DEF UnderWay
    <2>6. Intact' /\ CycleIsExact'
        BY <2>1, <2>3 DEF Intact, CycleIsExact
    <2>7. QED
        BY <2>2, <2>4, <2>5, <2>6 DEF Rest
<1>18. CASE UNCHANGED vars
    <2>1. Windows' /\ IdsBelowNext' /\ IdsFollowNumbers'
        BY <1>18, SameRows DEF vars
    <2>2. QED
        BY <1>18, <2>1 DEF Rest, UnderWay, Intact, CycleIsExact, vars, world, locals
<1>19. QED
    BY <1>1, <1>2, <1>3, <1>4, <1>5, <1>6, <1>7, <1>8, <1>9, <1>10, <1>11, <1>12, <1>13, <1>14, <1>15, <1>16, <1>17, <1>18 DEF Next, PullStep

-----------------------------------------------------------------------------
(***************************************************************************)
(* The theorems.                                                           *)
(***************************************************************************)
LEMMA Invariance == Spec => []IInv
<1>1. IInv /\ [Next]_vars => IInv'
    BY TypeStep, RestStep DEF IInv, Rest
<1>2. QED
    BY InitInv, <1>1, PTL DEF Spec

\* Every row, number and time is one of a chain the group belonged to, whatever
\* rounds, failures, clean-ups and removals meet.
THEOREM StatTypeCorrect == Spec => []TypeOK
<1>1. IInv => TypeOK
    BY DEF IInv
<1>2. QED
    BY Invariance, <1>1, PTL

\* The row with the greatest id, from which a pull goes on, is the row with the
\* greatest number, which the clean-up keeps.
THEOREM IdsAgree == Spec => []IdsFollowNumbers
<1>1. IInv => IdsFollowNumbers
    BY DEF IInv
<1>2. QED
    BY Invariance, <1>1, PTL

\* Unless a pull outlived the removal of its group, each row's cycle is the time
\* since the block right before it.
THEOREM CyclesExact == Spec => []CycleIsExact
<1>1. IInv => CycleIsExact
    BY DEF IInv
<1>2. QED
    BY Invariance, <1>1, PTL

\* A saved row opens the window or extends it by the next number.
LEMMA SaveGrows ==
    ASSUME IInv, NEW g \in Groups, SaveStat(g)
    PROVE  Mirror!OpenWindow(g) \/ Mirror!ExtendWindow(g)
<1>1. /\ next[g] \in Heights
      /\ \A r \in stat[g] : r.num < next[g]
      /\ Numbers' = [Numbers EXCEPT ![g] = @ \cup {next[g]}]
    BY SaveStatRows
<1>2. Mirror!Heights = Heights
    BY DEF Mirror!Heights, Heights
<1>3. next[g] \in Nat
    BY <1>1, BlockStatAssumption DEF Heights
<1>4. CASE stat[g] = {}
    <2>1. Numbers[g] = {}
        BY <1>4 DEF Numbers
    <2>2. Numbers' = [Numbers EXCEPT ![g] = {next[g]}]
        BY <1>1, <2>1
    <2>3. QED
        BY <1>1, <1>2, <2>1, <2>2 DEF Mirror!OpenWindow
<1>5. CASE stat[g] # {}
    <2>1. next[g] - 1 \in Numbers[g]
        BY <1>5 DEF IInv, UnderWay, SaveStat, Numbers
    <2>2. \A b \in Numbers[g] : b < next[g] /\ b \in Nat
        BY <1>1, BlockStatAssumption DEF Numbers, IInv, TypeOK, Rows, Heights
    <2>3. \A b \in Numbers[g] : b <= next[g] - 1
        BY <1>3, <2>2
    <2>4. (next[g] - 1) + 1 = next[g]
        BY <1>3
    <2>5. QED
        BY <1>1, <1>2, <2>1, <2>3, <2>4 DEF Mirror!ExtendWindow
<1>6. QED
    BY <1>4, <1>5

\* The clean-up trims the window at its lower end.
LEMMA DeleteTrims ==
    ASSUME IInv, NEW g \in Groups, DeleteBlockStat(g)
    PROVE  Mirror!TrimWindow(g)
<1>1. PICK lo \in Heights, hi \in Heights, low \in Heights :
         /\ Spans(g, lo, hi)
         /\ low \in lo..hi
         /\ Numbers' = [Numbers EXCEPT ![g] = {b \in @ : b >= low}]
    BY DeleteRows
<1>2. low \in Numbers[g]
    BY <1>1 DEF Spans
<1>3. QED
    BY <1>1, <1>2 DEF Mirror!TrimWindow

\* Every step that leaves the rows alone leaves the window alone.
LEMMA OthersStutter ==
    ASSUME Next,
           \A h \in Groups : ~SaveStat(h) /\ ~DeleteBlockStat(h) /\ ~RemoveGroup(h)
    PROVE  Numbers' = Numbers
<1>1. stat' = stat
    BY DEF Next, PullStep, BlockStatStart, BlockStatEnd, Crash, ChainGrows, NewChain,
           ListGroup, ReadLatest, ReadNone, FetchZero, ReadHeight, FetchBlock,
           FetchNothing, ExitLoop, PullFails
<1>2. QED
    BY <1>1 DEF Numbers

\* The statistics of a group implement the window of BlockMirror, but for the
\* removal of the group.
THEOREM StatImplementsMirror == Spec => StatMirrors
<1>1. Init => Mirror!MirrorInit
    BY DEF Init, Numbers, Mirror!MirrorInit
<1>2. ASSUME IInv, [Next]_vars
      PROVE  [Mirror!MirrorNext \/ GroupDropped]_Numbers
    <2>1. ASSUME NEW g \in Groups, SaveStat(g) PROVE Mirror!MirrorNext
        BY <1>2, <2>1, SaveGrows DEF Mirror!MirrorNext
    <2>2. ASSUME NEW g \in Groups, DeleteBlockStat(g) PROVE Mirror!MirrorNext
        BY <1>2, <2>2, DeleteTrims DEF Mirror!MirrorNext
    <2>3. ASSUME NEW g \in Groups, RemoveGroup(g) PROVE GroupDropped
        <3>1. stat'[g] = {} /\ \A h \in Groups \ {g} : stat'[h] = stat[h]
            BY <1>2, <2>3 DEF RemoveGroup, IInv, TypeOK
        <3>2. Numbers' = [Numbers EXCEPT ![g] = {}]
            BY <3>1 DEF Numbers
        <3>3. g \in listed \ listed'
            BY <2>3 DEF RemoveGroup
        <3>4. QED
            BY <3>2, <3>3 DEF GroupDropped
    <2>4. CASE UNCHANGED vars
        BY <2>4 DEF vars, Numbers
    <2>5. CASE /\ Next
               /\ \A h \in Groups : ~SaveStat(h) /\ ~DeleteBlockStat(h) /\ ~RemoveGroup(h)
        BY <2>5, OthersStutter
    <2>6. QED
        BY <1>2, <2>1, <2>2, <2>3, <2>4, <2>5
<1>3. QED
    BY <1>1, <1>2, Invariance, PTL DEF Spec, StatMirrors
=============================================================================
