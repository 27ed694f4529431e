-------------------------- MODULE TransDailyProofs --------------------------
(***************************************************************************)
(* Theorems of TransDaily, for any chain whose days do not go back, any    *)
(* groups and any number of failures.                                      *)
(***************************************************************************)
EXTENDS TransDaily, TLAPS, WellFoundedInduction, FiniteSetTheorems

(***************************************************************************)
(* Least and greatest members of sets of numbers.                          *)
(***************************************************************************)
LEMMA LeastMember ==
    ASSUME NEW S \in SUBSET Nat, S # {}
    PROVE  \E m \in S : \A y \in S : m <= y
<1>1. IsWellFoundedOn(OpToRel(<, Nat), Nat)
  BY NatLessThanWellFounded
<1>2. PICK m \in S : \A y \in S : ~ (<<y, m>> \in OpToRel(<, Nat))
  BY <1>1, WFMin
<1>3. ASSUME NEW y \in S PROVE m <= y
  <2>1. y \in Nat /\ m \in Nat
    OBVIOUS
  <2>2. ~(y < m)
    BY <1>2, <2>1, Zenon DEF OpToRel
  <2> QED
    BY <2>1, <2>2
<1> QED
  BY <1>3

LEMMA MinMember ==
    ASSUME NEW S \in SUBSET Nat, S # {}
    PROVE  Min(S) \in S /\ \A y \in S : Min(S) <= y
BY LeastMember DEF Min

LEMMA MaxMember ==
    ASSUME NEW S \in SUBSET Nat, S # {}, NEW u \in Nat, \A y \in S : y <= u
    PROVE  Max(S) \in S /\ \A y \in S : y <= Max(S)
<1> DEFINE Above == {n \in Nat : \A y \in S : y <= n}
<1>1. PICK m \in Above : \A n \in Above : m <= n
  <2>1. Above \in SUBSET Nat /\ u \in Above
    OBVIOUS
  <2> QED
    BY <2>1, LeastMember
<1>2. m \in Nat /\ \A y \in S : y \in Nat /\ y <= m
  OBVIOUS
<1>3. m \in S
  <2>1. SUFFICES ASSUME m \notin S PROVE FALSE
    OBVIOUS
  <2>2. PICK s \in S : TRUE
    OBVIOUS
  <2>3. \A y \in S : y < m
    BY <1>2, <2>1
  <2>4. m - 1 \in Nat
    BY <1>2, <2>2, <2>3
  <2>5. \A y \in S : y <= m - 1
    BY <1>2, <2>3
  <2>6. m - 1 \in Above
    BY <2>4, <2>5
  <2>7. m <= m - 1
    BY <1>1, <2>6
  <2> QED
    BY <1>2, <2>7
<1>4. \E x \in S : \A y \in S : x >= y
  BY <1>2, <1>3
<1> QED
  BY <1>4 DEF Max

LEMMA CommonBound ==
    ASSUME NEW u \in Nat, NEW v \in Nat
    PROVE  \E w \in Nat : u <= w /\ v <= w
<1>1. u + v \in Nat /\ u <= u + v /\ v <= u + v
  OBVIOUS
<1> QED
  BY <1>1

LEMMA AtMostTransitive ==
    ASSUME NEW u \in Nat, NEW v \in Nat, NEW w \in Nat, u <= v, v <= w
    PROVE  u <= w
OBVIOUS

\* There is a last day: were there none, take the least block up to which the
\* days have no bound.
LEMMA LastDay == \E u \in Nat : \A d \in Days : d <= u
<1> USE TransDailyAssumption
<1> DEFINE Bounded(n) == \E u \in Nat : \A b \in 0..n : DayOf[b] <= u
           Bad == {n \in Heights : ~Bounded(n)}
<1>1. Bad = {}
  <2>1. SUFFICES ASSUME Bad # {} PROVE FALSE
    OBVIOUS
  <2>2. Bad \in SUBSET Nat
    BY DEF Heights
  <2>3. PICK n \in Bad : \A k \in Bad : n <= k
    BY <2>1, <2>2, LeastMember
  <2>4. n \in Heights /\ ~Bounded(n)
    OBVIOUS
  <2>5. \A b \in Heights : DayOf[b] \in Nat
    BY DEF Heights
  <2>6. n # 0
    <3>1. ASSUME n = 0 PROVE FALSE
      <4>1. DayOf[0] \in Nat
        BY <2>5 DEF Heights
      <4>2. \A b \in 0..n : DayOf[b] <= DayOf[0]
        BY <3>1, <4>1
      <4> QED
        BY <2>4, <4>1, <4>2
    <3> QED
      BY <3>1
  <2>7. n - 1 \in Heights
    BY <2>4, <2>6 DEF Heights
  <2>8. n - 1 \notin Bad
    <3>1. ~(n <= n - 1)
      BY <2>4 DEF Heights
    <3> QED
      BY <2>3, <3>1
  <2>9. PICK u \in Nat : \A b \in 0..(n - 1) : DayOf[b] <= u
    BY <2>7, <2>8
  <2>10. DayOf[n] \in Nat
    BY <2>4, <2>5
  <2>11. PICK w \in Nat : u <= w /\ DayOf[n] <= w
    BY <2>9, <2>10, CommonBound
  <2>12. ASSUME NEW b \in 0..n PROVE DayOf[b] <= w
    <3>1. b \in Heights
      BY <2>4 DEF Heights
    <3>2. b \in 0..(n - 1) \/ b = n
      BY <2>4 DEF Heights
    <3>3. CASE b = n
      BY <2>11, <3>3
    <3>4. CASE b \in 0..(n - 1)
      <4>1. DayOf[b] <= u /\ DayOf[b] \in Nat
        BY <2>5, <2>9, <3>1, <3>4
      <4>2. u \in Nat /\ w \in Nat /\ u <= w
        BY <2>9, <2>11
      <4> QED
        BY <4>1, <4>2, AtMostTransitive
    <3> QED
      BY <3>2, <3>3, <3>4
  <2>13. Bounded(n)
    BY <2>11, <2>12
  <2> QED
    BY <2>4, <2>13
<1>2. MaxHeight \in Heights
  BY DEF Heights
<1>3. PICK u \in Nat : \A b \in 0..MaxHeight : DayOf[b] <= u
  BY <1>1, <1>2
<1>4. ASSUME NEW d \in Days PROVE d <= u
  <2>1. PICK b \in Heights : d = DayOf[b]
    BY DEF Days
  <2> QED
    BY <1>3, <2>1 DEF Heights
<1> QED
  BY <1>4

LEMMA DaysAreNumbers == Days \subseteq Nat \ {0}
BY TransDailyAssumption DEF Days, Heights

LEMMA HeightsAreNumbers == Heights \subseteq Nat /\ 0 \in Heights /\ None \notin Heights
BY TransDailyAssumption DEF Heights, None

\* What is known of a block.
LEMMA BlockFacts ==
    ASSUME NEW b \in Heights
    PROVE  b \in Nat /\ DayOf[b] \in Days /\ DayOf[b] \in Nat \ {0} /\ TxCount[b] \in Nat
BY TransDailyAssumption DEF Days, Heights

LEMMA LatestSaved ==
    ASSUME NEW g \in Groups, SavedDays(g) # {}
    PROVE  /\ Max(SavedDays(g)) \in SavedDays(g)
           /\ \A d \in SavedDays(g) : d <= Max(SavedDays(g))
<1>1. PICK u \in Nat : \A d \in Days : d <= u
  BY LastDay
<1>2. SavedDays(g) \in SUBSET Nat /\ \A d \in SavedDays(g) : d <= u
  BY <1>1, DaysAreNumbers DEF SavedDays
<1> QED
  BY <1>2, MaxMember

(***************************************************************************)
(* Types.                                                                  *)
(***************************************************************************)
\* A row is written for a day; the first block of a run starts a row.
Shape ==
    /\ pc = "add" => list # {}
    /\ pc = "blocks" /\ day = 0 => list # {}

LEMMA FirstListed ==
    ASSUME TypeOK, list # {}
    PROVE  /\ Min(list) \in list /\ \A y \in list : Min(list) <= y
           /\ Min(list) \in Heights
<1>1. list \in SUBSET Nat /\ list \subseteq Heights
  BY HeightsAreNumbers DEF TypeOK
<1> QED
  BY <1>1, MinMember

LEMMA LatestType ==
    ASSUME TypeOK, NEW g \in Groups
    PROVE  Latest(g) \in [day : Days \cup {0}, block : Heights, count : Nat]
<1>1. CASE SavedDays(g) = {}
  BY <1>1, HeightsAreNumbers DEF Latest
<1>2. CASE SavedDays(g) # {}
  <2> DEFINE d == Max(SavedDays(g))
  <2>1. d \in Days /\ upto[g][d] # None
    BY <1>2, LatestSaved DEF SavedDays
  <2>2. upto[g][d] \in Heights /\ count[g][d] \in Nat
    BY <2>1 DEF TypeOK
  <2>3. Latest(g) = [day |-> d, block |-> upto[g][d], count |-> count[g][d]]
    BY <1>2 DEF Latest
  <2> HIDE DEF d
  <2> QED
    BY <2>1, <2>2, <2>3
<1> QED
  BY <1>1, <1>2

LEMMA TypeInit == Init => TypeOK /\ Shape
BY HeightsAreNumbers, TransDailyAssumption DEF Init, MirrorInit, TypeOK, Shape, NoInfo

\* A change of one row of a group, of which blocks become counted.
LEMMA RowType ==
    ASSUME TypeOK, NEW d \in Days, NEW n \in Nat, NEW b \in Heights,
           NEW S \in SUBSET Heights, cur \in Groups,
           count' = [count EXCEPT ![cur][d] = n],
           upto' = [upto EXCEPT ![cur][d] = b],
           counted' = [counted EXCEPT ![cur] = @ \cup S]
    PROVE  /\ count' \in [Groups -> [Days -> Nat]]
           /\ upto' \in [Groups -> [Days -> Heights \cup {None}]]
           /\ counted' \in [Groups -> SUBSET Heights]
BY DEF TypeOK

LEMMA UpdateType ==
    ASSUME TypeOK, cur \in Groups, day # 0, UpdateTransDaily
    PROVE  /\ count' \in [Groups -> [Days -> Nat]]
           /\ upto' \in [Groups -> [Days -> Heights \cup {None}]]
           /\ counted' \in [Groups -> SUBSET Heights]
<1>1. day \in Days /\ net \in Nat /\ top \in Heights /\ pending \in SUBSET Heights
  BY DEF TypeOK
<1>2. CASE upto[cur][day] = from
  BY <1>1, <1>2, RowType DEF UpdateTransDaily
<1>3. CASE upto[cur][day] # from
  BY <1>3 DEF UpdateTransDaily, tables, TypeOK
<1> QED
  BY <1>2, <1>3

LEMMA MirrorType ==
    ASSUME TypeOK, MirrorNext
    PROVE  blocks' \in [Groups -> SUBSET Heights]
<1>1. PICK g \in Groups : OpenWindow(g) \/ ExtendWindow(g) \/ TrimWindow(g)
  BY DEF MirrorNext
<1>2. blocks \in [Groups -> SUBSET Heights]
  BY DEF TypeOK
<1>3. CASE OpenWindow(g)
  BY <1>2, <1>3 DEF OpenWindow
<1>4. CASE ExtendWindow(g)
  BY <1>2, <1>4 DEF ExtendWindow
<1>5. CASE TrimWindow(g)
  <2>1. PICK low \in blocks[g] : blocks' = [blocks EXCEPT ![g] = {b \in @ : b >= low}]
    BY <1>5 DEF TrimWindow
  <2> QED
    BY <1>2, <2>1
<1> QED
  BY <1>1, <1>3, <1>4, <1>5

LEMMA TypeNext == TypeOK /\ Shape /\ [Next]_vars => TypeOK' /\ Shape'
<1> SUFFICES ASSUME TypeOK, Shape, [Next]_vars PROVE TypeOK' /\ Shape'
    OBVIOUS
<1> USE DEF tables, traversal
<1>1. CASE MirrorMoves
  <2>1. blocks' \in [Groups -> SUBSET Heights]
    BY <1>1, MirrorType DEF MirrorMoves
  <2> QED
    BY <1>1, <2>1 DEF MirrorMoves, TypeOK, Shape
<1>2. CASE StartStatistics
  <2>1. info' \in [Groups -> [day : Days \cup {0}, block : Heights, count : Nat]]
    BY <1>2, LatestType DEF StartStatistics
  <2> QED
    BY <1>2, <2>1 DEF StartStatistics, TypeOK, Shape
<1>3. CASE EndStatistics
  BY <1>3 DEF EndStatistics, TypeOK, Shape
<1>4. ASSUME NEW g \in Groups, QueryBlockList(g) PROVE TypeOK' /\ Shape'
  <2>1. info[g].day \in Days \cup {0} /\ info[g].block \in Heights /\ info[g].count \in Nat
    BY DEF TypeOK
  <2>2. NewBlocks(g) \subseteq Heights
    BY DEF NewBlocks, TypeOK
  <2>3. /\ todo' = todo \ {g} /\ cur' = g /\ list' = NewBlocks(g)
        /\ day' = info[g].day /\ from' = info[g].block /\ top' = info[g].block
        /\ net' = info[g].count /\ pending' = {}
        /\ pc' = IF NewBlocks(g) = {} THEN "groups" ELSE "blocks"
        /\ UNCHANGED <<blocks, count, upto, counted, info, fails>>
    BY <1>4 DEF QueryBlockList
  <2>4. Shape'
    BY <2>3 DEF Shape
  <2> QED
    BY <2>1, <2>2, <2>3, <2>4 DEF TypeOK
<1>5. CASE AddToDay
  <2>1. /\ list # {} /\ pc = "blocks" /\ DayOf[Min(list)] = day
        /\ net' = net + TxCount[Min(list)] /\ top' = Min(list)
        /\ pending' = pending \cup {Min(list)} /\ list' = list \ {Min(list)}
        /\ UNCHANGED <<blocks, count, upto, counted, info, todo, cur, day, from, pc, fails>>
    BY <1>5 DEF AddToDay
  <2>2. Min(list) \in Heights
    BY <2>1, FirstListed
  <2>3. net' \in Nat /\ day # 0
    BY <2>1, <2>2, BlockFacts DEF TypeOK
  <2> QED
    BY <2>1, <2>2, <2>3 DEF TypeOK, Shape
<1>6. CASE UpdateOldDay
  <2>1. /\ count' \in [Groups -> [Days -> Nat]]
        /\ upto' \in [Groups -> [Days -> Heights \cup {None}]]
        /\ counted' \in [Groups -> SUBSET Heights]
    <3>1. CASE net > 0 /\ day # 0
      BY <1>6, <3>1, UpdateType DEF UpdateOldDay, TypeOK
    <3>2. CASE ~(net > 0 /\ day # 0)
      BY <1>6, <3>2 DEF UpdateOldDay, TypeOK
    <3> QED
      BY <3>1, <3>2
  <2> QED
    BY <1>6, <2>1 DEF UpdateOldDay, TypeOK, Shape
<1>7. CASE AddDay
  <2> DEFINE b == Min(list)
             d == DayOf[b]
  <2>1. b \in Heights /\ d \in Days /\ d # 0 /\ TxCount[b] \in Nat /\ cur \in Groups
    BY <1>7, FirstListed, BlockFacts DEF AddDay, TypeOK, Shape
  <2>2. \/ /\ count' = [count EXCEPT ![cur][d] = TxCount[b]]
           /\ upto' = [upto EXCEPT ![cur][d] = b]
           /\ counted' = [counted EXCEPT ![cur] = @ \cup {b}]
        \/ UNCHANGED <<count, upto, counted>>
    BY <1>7 DEF AddDay
  <2>3. /\ day' = d /\ from' = b /\ top' = b /\ net' = TxCount[b] /\ pending' = {b}
        /\ list' \subseteq list /\ pc' = "blocks"
        /\ UNCHANGED <<blocks, info, todo, cur, fails>>
    BY <1>7 DEF AddDay
  <2>4. TxCount[b] \in Nat /\ {b} \in SUBSET Heights /\ list \subseteq Heights
    BY <2>1 DEF TypeOK
  <2> HIDE DEF b, d
  <2>5. /\ count' \in [Groups -> [Days -> Nat]]
        /\ upto' \in [Groups -> [Days -> Heights \cup {None}]]
        /\ counted' \in [Groups -> SUBSET Heights]
    <3>1. CASE UNCHANGED <<count, upto, counted>>
      BY <3>1 DEF TypeOK
    <3>2. CASE /\ count' = [count EXCEPT ![cur][d] = TxCount[b]]
               /\ upto' = [upto EXCEPT ![cur][d] = b]
               /\ counted' = [counted EXCEPT ![cur] = @ \cup {b}]
      BY <2>1, <2>4, <3>2, RowType
    <3> QED
      BY <2>2, <3>1, <3>2
  <2> QED
    BY <2>1, <2>3, <2>4, <2>5 DEF TypeOK, Shape
<1>8. CASE UpdateLastDay
  <2>1. cur \in Groups /\ day # 0
    BY <1>8 DEF UpdateLastDay, TypeOK, Shape
  <2> QED
    BY <1>8, <2>1, UpdateType DEF UpdateLastDay, TypeOK, Shape
<1>9. CASE Abort
  <2>1. fails' \in 0..MaxFail
    BY <1>9, TransDailyAssumption DEF Abort, TypeOK
  <2> QED
    BY <1>9, <2>1 DEF Abort, TypeOK, Shape
<1>10. CASE UNCHANGED vars
  BY <1>10 DEF vars, TypeOK, Shape
<1> QED
  BY <1>1, <1>2, <1>3, <1>4, <1>5, <1>6, <1>7, <1>8, <1>9, <1>10 DEF Next, Statistics

\* Rows, lists and sums keep their types; Min and Max are only taken of sets that
\* have members.
THEOREM DailyTypeCorrect == Spec => []TypeOK
BY TypeInit, TypeNext, PTL DEF Spec

(***************************************************************************)
(* The strengthening.  A row stands at a block of its day, below a block   *)
(* of the table; what lies up to a row is counted; the rows read at the    *)
(* start still hold for the groups not yet traversed; and the traversal    *)
(* is a position in the block table of its group.                          *)
(***************************************************************************)
Below(g, n) == \E h \in blocks[g] : n <= h

Rows ==
    \A g \in Groups, d \in Days :
        /\ upto[g][d] = None => count[g][d] = 0
        /\ upto[g][d] # None =>
              upto[g][d] > 0 /\ DayOf[upto[g][d]] = d /\ Below(g, upto[g][d])

RowsComplete ==
    \A g \in Groups, d \in Days : upto[g][d] # None =>
        \A b \in blocks[g] :
            b > 0 /\ b <= upto[g][d] /\ TxCount[b] > 0 => b \in counted[g]

InfoHolds == pc # "idle" => cur \notin todo /\ \A g \in todo : info[g] = Latest(g)

\* top is a block of the day under way, or there is no day yet.
Position ==
    /\ day = 0 => top = 0 /\ pending = {}
    /\ day # 0 => top > 0 /\ DayOf[top] = day
    /\ Below(cur, top)

\* The list holds every block above top that was there when it was read.
Ahead ==
    /\ \A y \in list : y > top /\ Below(cur, y)
    /\ \A x \in blocks[cur] : x > top => x \in list \/ \A y \in list : y < x

\* No row is of a later day; the one of this day is the one the sum started at.
ThisDay ==
    /\ \A d \in Days : upto[cur][d] # None => d <= day
    /\ pc = "blocks" /\ day # 0 =>
          upto[cur][day] = from /\ count[cur][day] <= net /\ from <= top
    /\ pc = "add" => DayOf[Min(list)] # day

\* What lies up to top is counted, or waits in the sum.
Behind ==
    /\ \A b \in blocks[cur] :
          b > 0 /\ b <= top /\ TxCount[b] > 0 =>
              b \in counted[cur] \/ (pc = "blocks" /\ b \in pending)
    /\ \A b \in pending : TxCount[b] <= net

Walk == pc \in {"blocks", "add"} => Position /\ Ahead /\ ThisDay /\ Behind

IInv == TypeOK /\ Shape /\ Rows /\ RowsComplete /\ InfoHolds /\ Walk

\* The moves of the block tables: no newest block is lost, new ones are on top.
LEMMA MirrorStep ==
    ASSUME TypeOK, MirrorNext, NEW g \in Groups
    PROVE  /\ \A h \in blocks[g] : \E k \in blocks'[g] : h <= k
           /\ \A x \in blocks'[g] : x \in blocks[g] \/ \A y \in blocks[g] : y < x
<1>1. PICK c \in Groups : OpenWindow(c) \/ ExtendWindow(c) \/ TrimWindow(c)
  BY DEF MirrorNext
<1>2. blocks \in [Groups -> SUBSET Heights] /\ blocks[g] \subseteq Nat
  BY HeightsAreNumbers DEF TypeOK
<1>3. CASE c # g
  <2>1. blocks'[g] = blocks[g]
    BY <1>1, <1>2, <1>3 DEF OpenWindow, ExtendWindow, TrimWindow
  <2>2. \A h \in blocks[g] : h <= h
    BY <1>2
  <2> QED
    BY <2>1, <2>2
<1>4. CASE c = g
  <2>1. CASE OpenWindow(g)
    BY <1>2, <2>1 DEF OpenWindow
  <2>2. CASE ExtendWindow(g)
    <3>1. PICK t \in blocks[g] :
             (\A b \in blocks[g] : b <= t) /\ blocks'[g] = blocks[g] \cup {t + 1}
      BY <1>2, <2>2 DEF ExtendWindow
    <3> QED
      BY <1>2, <3>1
  <2>3. CASE TrimWindow(g)
    <3>1. PICK low \in blocks[g] : blocks'[g] = {b \in blocks[g] : b >= low}
      BY <1>2, <2>3 DEF TrimWindow
    <3> QED
      BY <1>2, <3>1
  <2> QED
    BY <1>1, <1>4, <2>1, <2>2, <2>3
<1> QED
  BY <1>3, <1>4

LEMMA BelowKept ==
    ASSUME TypeOK, MirrorNext, NEW g \in Groups, NEW n \in Heights, Below(g, n)
    PROVE  Below(g, n)'
<1>1. PICK h \in blocks[g] : n <= h
  BY DEF Below
<1>2. PICK k \in blocks'[g] : h <= k
  BY <1>1, MirrorStep
<1>3. n \in Nat /\ h \in Nat /\ k \in Nat
  BY MirrorType, HeightsAreNumbers DEF TypeOK
<1> QED
  BY <1>1, <1>2, <1>3, AtMostTransitive DEF Below

\* A new block lies above whatever lies below a block of the table.
LEMMA NewIsAbove ==
    ASSUME TypeOK, MirrorNext, NEW g \in Groups, NEW n \in Heights, Below(g, n),
           NEW x \in blocks'[g], x \notin blocks[g]
    PROVE  n < x
<1>1. PICK h \in blocks[g] : n <= h
  BY DEF Below
<1>2. h < x
  BY MirrorStep
<1>3. n \in Nat /\ h \in Nat /\ x \in Nat
  BY MirrorType, HeightsAreNumbers DEF TypeOK
<1> QED
  BY <1>1, <1>2, <1>3

\* The latest row is read from the rows of the group alone.
LEMMA LatestKept ==
    ASSUME NEW g \in Groups, upto'[g] = upto[g], count'[g] = count[g]
    PROVE  Latest(g)' = Latest(g)
BY DEF Latest, SavedDays

LEMMA InvInit == Init => IInv
<1> SUFFICES ASSUME Init PROVE IInv
  OBVIOUS
<1>1. TypeOK /\ Shape
  BY TypeInit
<1>2. Rows /\ RowsComplete
  BY DEF Init, Rows, RowsComplete
<1> QED
  BY <1>1, <1>2 DEF Init, IInv, InfoHolds, Walk

LEMMA MirrorKeeps == IInv /\ MirrorMoves => Rows' /\ RowsComplete' /\ InfoHolds' /\ Walk'
<1> SUFFICES ASSUME IInv, MirrorMoves
             PROVE  Rows' /\ RowsComplete' /\ InfoHolds' /\ Walk'
  OBVIOUS
<1>1. MirrorNext /\ TypeOK /\ UNCHANGED <<count, upto, counted, info, todo, cur, list, day,
                                          from, net, top, pending, pc, fails>>
  BY DEF MirrorMoves, tables, traversal, IInv
<1>2. ASSUME NEW g \in Groups, NEW n \in Heights, Below(g, n)
      PROVE  \E h \in blocks'[g] : n <= h
  BY <1>1, <1>2, BelowKept DEF Below
<1>3. ASSUME NEW g \in Groups, NEW n \in Heights, Below(g, n), NEW x \in blocks'[g],
             x <= n
      PROVE  x \in blocks[g]
  <2>1. x \in Nat /\ n \in Nat
    BY <1>1, MirrorType, HeightsAreNumbers
  <2>2. x \notin blocks[g] => n < x
    BY <1>1, <1>3, NewIsAbove
  <2> QED
    BY <1>3, <2>1, <2>2
<1>4. \A g \in Groups, d \in Days : upto[g][d] # None => upto[g][d] \in Heights
  BY <1>1 DEF TypeOK
<1>5. Rows'
  BY <1>1, <1>2, <1>4 DEF IInv, Rows, Below
<1>6. RowsComplete'
  BY <1>1, <1>3, <1>4 DEF IInv, Rows, RowsComplete
<1>7. InfoHolds'
  BY <1>1, LatestKept DEF IInv, InfoHolds, TypeOK
<1>8. ASSUME pc \in {"blocks", "add"} PROVE Position' /\ Ahead' /\ ThisDay' /\ Behind'
  <2>1. Position /\ Ahead /\ ThisDay /\ Behind /\ cur \in Groups
    BY <1>1, <1>8 DEF IInv, Walk, TypeOK
  <2>2. top \in Heights /\ list \subseteq Heights
    BY <1>1 DEF TypeOK
  <2>3. Position'
    BY <1>1, <1>2, <2>1, <2>2 DEF Position, Below
  <2>4. Ahead'
    <3>1. ASSUME NEW x \in blocks'[cur], x > top, x \notin list, NEW y \in list PROVE y < x
      <4>1. CASE x \in blocks[cur]
        BY <2>1, <3>1, <4>1 DEF Ahead
      <4>2. CASE x \notin blocks[cur]
        BY <1>1, <2>1, <2>2, <4>2, NewIsAbove DEF Ahead
      <4> QED
        BY <4>1, <4>2
    <3>2. \A y \in list : y > top /\ \E h \in blocks'[cur] : y <= h
      BY <1>2, <2>1, <2>2 DEF Ahead
    <3>3. \A x \in blocks'[cur] : x > top => x \in list \/ \A y \in list : y < x
      BY <3>1
    <3>4. cur' = cur /\ top' = top /\ list' = list
      BY <1>1
    <3> QED
      BY <3>2, <3>3, <3>4 DEF Ahead, Below
  <2>5. ThisDay'
    BY <1>1, <2>1 DEF ThisDay
  <2>6. Behind'
    BY <1>1, <1>3, <2>1, <2>2 DEF Behind, Position
  <2> QED
    BY <2>3, <2>4, <2>5, <2>6
<1>9. Walk'
  BY <1>1, <1>8 DEF Walk
<1> QED
  BY <1>5, <1>6, <1>7, <1>9

\* Starting, ending and aborting a run leave the rows alone.
LEMMA RunKeeps ==
    IInv /\ (StartStatistics \/ EndStatistics \/ Abort \/ UNCHANGED vars)
        => Rows' /\ RowsComplete' /\ InfoHolds' /\ Walk'
<1> SUFFICES ASSUME IInv, StartStatistics \/ EndStatistics \/ Abort \/ UNCHANGED vars
             PROVE  Rows' /\ RowsComplete' /\ InfoHolds' /\ Walk'
  OBVIOUS
<1>1. UNCHANGED <<blocks, count, upto, counted>>
  BY DEF StartStatistics, EndStatistics, Abort, vars, tables
<1>2. Rows' /\ RowsComplete'
  BY <1>1 DEF IInv, Rows, RowsComplete, Below
<1>3. \A g \in Groups : Latest(g)' = Latest(g)
  BY <1>1, LatestKept
<1>4. CASE StartStatistics
  <2>1. InfoHolds'
    BY <1>3, <1>4, TransDailyAssumption DEF StartStatistics, InfoHolds
  <2>2. Walk'
    BY <1>4 DEF StartStatistics, Walk
  <2> QED
    BY <1>2, <2>1, <2>2
<1>5. CASE EndStatistics \/ Abort
  BY <1>2, <1>5 DEF EndStatistics, Abort, InfoHolds, Walk
<1>6. CASE UNCHANGED vars
  <2>1. InfoHolds'
    BY <1>3, <1>6 DEF vars, IInv, InfoHolds, TypeOK
  <2>2. Walk'
    BY <1>6 DEF vars, IInv, Walk, Position, Ahead, ThisDay, Behind, Below
  <2> QED
    BY <1>2, <2>1, <2>2
<1> QED
  BY <1>4, <1>5, <1>6

\* The rows read at the start are where the traversal of a group begins.
LEMMA LatestRow ==
    ASSUME IInv, NEW g \in Groups
    PROVE  LET i == Latest(g) IN
           /\ SavedDays(g) = {} => i = NoInfo
           /\ SavedDays(g) # {} => /\ i.day \in Days /\ i.day > 0
                                   /\ upto[g][i.day] = i.block /\ upto[g][i.day] # None
                                   /\ count[g][i.day] = i.count
                                   /\ i.block > 0 /\ DayOf[i.block] = i.day
                                   /\ Below(g, i.block)
                                   /\ \A d \in SavedDays(g) : d <= i.day
<1>1. CASE SavedDays(g) = {}
  BY <1>1 DEF Latest, NoInfo
<1>2. CASE SavedDays(g) # {}
  <2> DEFINE d == Max(SavedDays(g))
  <2>1. d \in Days /\ upto[g][d] # None /\ \A e \in SavedDays(g) : e <= d
    BY <1>2, LatestSaved DEF SavedDays
  <2>2. Latest(g) = [day |-> d, block |-> upto[g][d], count |-> count[g][d]]
    BY <1>2 DEF Latest
  <2> HIDE DEF d
  <2>3. d > 0
    BY <2>1, DaysAreNumbers
  <2>4. upto[g][d] > 0 /\ DayOf[upto[g][d]] = d /\ Below(g, upto[g][d])
    BY <2>1 DEF IInv, Rows
  <2> QED
    BY <1>2, <2>1, <2>2, <2>3, <2>4
<1> QED
  BY <1>1, <1>2

LEMMA QueryKeeps ==
    ASSUME DaysInOrder, IInv, NEW g \in Groups, QueryBlockList(g)
    PROVE  Rows' /\ RowsComplete' /\ InfoHolds' /\ Walk'
<1> DEFINE i == info[g]
<1>1. /\ pc = "groups" /\ g \in todo /\ todo' = todo \ {g} /\ cur' = g
      /\ list' = NewBlocks(g) /\ day' = i.day /\ from' = i.block /\ top' = i.block
      /\ net' = i.count /\ pending' = {}
      /\ pc' = IF NewBlocks(g) = {} THEN "groups" ELSE "blocks"
      /\ UNCHANGED <<blocks, count, upto, counted, info>>
  BY DEF QueryBlockList, tables
<1>2. TypeOK /\ i = Latest(g) /\ i \in [day : Days \cup {0}, block : Heights, count : Nat]
  BY <1>1 DEF IInv, InfoHolds, TypeOK
<1>3. Rows' /\ RowsComplete'
  BY <1>1 DEF IInv, Rows, RowsComplete, Below
<1>4. InfoHolds'
  <2>1. \A c \in Groups : Latest(c)' = Latest(c)
    BY <1>1, LatestKept
  <2> QED
    BY <1>1, <1>2, <2>1 DEF IInv, InfoHolds, TypeOK
<1>5. ASSUME pc' \in {"blocks", "add"} PROVE Position' /\ Ahead' /\ ThisDay' /\ Behind'
  <2>1. NewBlocks(g) # {} /\ pc' = "blocks"
    BY <1>1, <1>5
  <2>2. /\ i.day = 0 => i.block = 0 /\ i.count = 0 /\ SavedDays(g) = {}
        /\ i.day # 0 => /\ i.day \in Days /\ i.day > 0
                        /\ upto[g][i.day] = i.block /\ upto[g][i.day] # None
                        /\ count[g][i.day] = i.count
                        /\ i.block > 0 /\ DayOf[i.block] = i.day
                        /\ Below(g, i.block)
                        /\ \A d \in SavedDays(g) : d <= i.day
    <3>1. CASE SavedDays(g) = {}
      BY <1>2, <3>1, LatestRow DEF NoInfo
    <3>2. CASE SavedDays(g) # {}
      BY <1>2, <3>2, LatestRow
    <3> QED
      BY <3>1, <3>2
  <2>3. \A x \in blocks[g] : x \in Heights /\ x \in Nat /\ DayOf[x] \in Nat
    BY <1>2, BlockFacts DEF TypeOK
  <2>4. i.block \in Heights /\ i.block \in Nat /\ i.day \in Nat
    BY <1>2, HeightsAreNumbers, DaysAreNumbers
  <2> HIDE DEF i
  <2>5. Position'
    <3>1. \E h \in blocks[g] : i.block <= h
      BY <2>1, <2>2, <2>3, <2>4 DEF NewBlocks, Below
    <3> QED
      BY <1>1, <2>2, <3>1 DEF Position, Below
  <2>6. Ahead'
    <3>1. \A y \in NewBlocks(g) : y > i.block /\ y \in blocks[g]
      BY DEF NewBlocks, i
    <3>2. ASSUME NEW x \in blocks[g], x > i.block PROVE x \in NewBlocks(g)
      <4>1. DayOf[x] >= i.day
        BY <2>2, <2>3, <2>4, <3>2 DEF DaysInOrder
      <4> QED
        BY <3>2, <4>1 DEF NewBlocks, i
    <3>3. \A y \in blocks[g] : \E h \in blocks[g] : y <= h
      BY <2>3
    <3> QED
      BY <1>1, <3>1, <3>2, <3>3 DEF Ahead, Below
  <2>7. ThisDay'
    <3>1. \A d \in Days : upto[g][d] # None => d <= i.day
      BY <2>2 DEF SavedDays
    <3>2. i.day # 0 => upto[g][i.day] = i.block /\ count[g][i.day] <= i.count /\ i.block <= i.block
      BY <1>2, <2>2, <2>4 DEF i
    <3> QED
      BY <1>1, <2>1, <3>1, <3>2 DEF ThisDay
  <2>8. Behind'
    <3>1. ASSUME NEW b \in blocks[g], b > 0, b <= i.block, TxCount[b] > 0
          PROVE  b \in counted[g]
      <4>1. i.day # 0
        BY <2>2, <2>3, <3>1
      <4> QED
        BY <2>2, <3>1, <4>1 DEF IInv, RowsComplete
    <3> QED
      BY <1>1, <3>1 DEF Behind
  <2> QED
    BY <2>5, <2>6, <2>7, <2>8
<1>6. Walk'
  BY <1>5 DEF Walk
<1> QED
  BY <1>3, <1>4, <1>6

\* The next block of the list: nothing of the table lies between it and top.
LEMMA NextBlock ==
    ASSUME IInv, pc \in {"blocks", "add"}, list # {}
    PROVE  LET m == Min(list) IN
           /\ m \in list /\ m \in Heights /\ m \in Nat /\ m > top /\ m > 0
           /\ DayOf[m] \in Days /\ DayOf[m] \in Nat \ {0} /\ TxCount[m] \in Nat
           /\ Below(cur, m)
           /\ \A y \in list \ {m} : y > m
           /\ \A x \in blocks[cur] : x <= m => x <= top \/ x = m
           /\ \A x \in blocks[cur] : x > m => x \in list \ {m} \/ \A y \in list \ {m} : y < x
<1> DEFINE m == Min(list)
<1>1. TypeOK /\ Ahead /\ cur \in Groups
  BY DEF IInv, Walk, TypeOK
<1>2. m \in list /\ m \in Heights /\ \A y \in list : m <= y
  BY <1>1, FirstListed
<1> HIDE DEF m
<1>3. top \in Nat /\ list \subseteq Nat /\ blocks[cur] \subseteq Nat /\ m \in Nat
  BY <1>1, <1>2, HeightsAreNumbers DEF TypeOK
<1>4. m > top /\ Below(cur, m)
  BY <1>1, <1>2 DEF Ahead
<1>5. DayOf[m] \in Days /\ DayOf[m] \in Nat \ {0} /\ TxCount[m] \in Nat
  BY <1>2, BlockFacts
<1>6. \A y \in list \ {m} : y > m
  BY <1>2, <1>3
<1>7. ASSUME NEW x \in blocks[cur], x <= m PROVE x <= top \/ x = m
  BY <1>1, <1>2, <1>3, <1>6, <1>7 DEF Ahead
<1>8. ASSUME NEW x \in blocks[cur], x > m
      PROVE  x \in list \ {m} \/ \A y \in list \ {m} : y < x
  BY <1>1, <1>3, <1>4, <1>8 DEF Ahead
<1>9. m > 0
  BY <1>3, <1>4
<1> QED
  BY <1>2, <1>3, <1>4, <1>5, <1>6, <1>7, <1>8, <1>9 DEF m

LEMMA AddToDayKeeps ==
    ASSUME IInv, AddToDay
    PROVE  Rows' /\ RowsComplete' /\ InfoHolds' /\ Walk'
<1> DEFINE m == Min(list)
<1>1. /\ list # {} /\ pc = "blocks" /\ DayOf[m] = day
      /\ net' = net + TxCount[m] /\ top' = m
      /\ pending' = pending \cup {m} /\ list' = list \ {m}
      /\ UNCHANGED <<blocks, count, upto, counted, info, todo, cur, day, from, pc>>
  BY DEF AddToDay, tables
<1>2. TypeOK /\ Position /\ Ahead /\ ThisDay /\ Behind /\ cur \in Groups
  BY <1>1 DEF IInv, Walk, TypeOK
<1>3. Rows' /\ RowsComplete'
  BY <1>1 DEF IInv, Rows, RowsComplete, Below
<1>4. InfoHolds'
  BY <1>1, LatestKept DEF IInv, InfoHolds, TypeOK
<1>5. /\ m \in list /\ m \in Heights /\ m \in Nat /\ m > top /\ m > 0
      /\ DayOf[m] \in Nat \ {0} /\ TxCount[m] \in Nat
      /\ Below(cur, m)
      /\ \A y \in list \ {m} : y > m
      /\ \A x \in blocks[cur] : x <= m => x <= top \/ x = m
      /\ \A x \in blocks[cur] : x > m => x \in list \ {m} \/ \A y \in list \ {m} : y < x
  BY <1>1, NextBlock
<1>6. /\ net \in Nat /\ from \in Nat /\ top \in Nat
      /\ \A b \in pending : TxCount[b] \in Nat
      /\ \A g \in Groups, d \in Days : count[g][d] \in Nat
  BY <1>2, HeightsAreNumbers, BlockFacts DEF TypeOK
<1>7. day # 0 => day \in Days /\ count[cur][day] \in Nat
  BY <1>2, <1>6 DEF TypeOK
<1> HIDE DEF m
<1>8. Position'
  BY <1>1, <1>5 DEF Position, Below
<1>9. Ahead'
  BY <1>1, <1>2, <1>5 DEF Ahead, Below
<1>10. ThisDay'
  <2>1. \A d \in Days : upto[cur][d] # None => d <= day
    BY <1>2 DEF ThisDay
  <2>2. day # 0 => upto[cur][day] = from /\ count[cur][day] <= net /\ from <= top
    BY <1>1, <1>2 DEF ThisDay
  <2>3. day # 0 => count[cur][day] <= net + TxCount[m] /\ from <= m
    BY <1>5, <1>6, <1>7, <2>2
  <2> QED
    BY <1>1, <2>1, <2>2, <2>3 DEF ThisDay
<1>11. Behind'
  <2>1. \A b \in pending \cup {m} : TxCount[b] <= net + TxCount[m]
    BY <1>2, <1>5, <1>6 DEF Behind
  <2>2. ASSUME NEW b \in blocks[cur], b > 0, b <= m, TxCount[b] > 0
        PROVE  b \in counted[cur] \/ b \in pending \cup {m}
    BY <1>2, <1>5, <2>2 DEF Behind
  <2> QED
    BY <1>1, <2>1, <2>2 DEF Behind
<1>12. Walk'
  BY <1>8, <1>9, <1>10, <1>11 DEF Walk
<1> QED
  BY <1>3, <1>4, <1>12

\* The row of the day under way is the one the sum was started from: the update
\* matches it, and moves it up to top with all that waits in the sum.
LEMMA UpdateMatches ==
    ASSUME IInv, pc = "blocks", day # 0, UpdateTransDaily
    PROVE  /\ cur \in Groups /\ day \in Days
           /\ count' = [count EXCEPT ![cur][day] = net]
           /\ upto' = [upto EXCEPT ![cur][day] = top]
           /\ counted' = [counted EXCEPT ![cur] = @ \cup pending]
           /\ upto[cur][day] # None
           /\ count[cur][day] <= net /\ upto[cur][day] <= top
<1>1. TypeOK /\ ThisDay /\ cur \in Groups /\ day \in Days /\ from \in Heights
  BY DEF IInv, Walk, TypeOK
<1>2. upto[cur][day] = from /\ count[cur][day] <= net /\ from <= top /\ from # None
  BY <1>1, HeightsAreNumbers DEF ThisDay
<1> QED
  BY <1>1, <1>2 DEF UpdateTransDaily

LEMMA UpdatedRows ==
    ASSUME IInv, pc = "blocks", day # 0, UpdateTransDaily, blocks' = blocks
    PROVE  Rows' /\ RowsComplete'
<1>1. TypeOK /\ Position /\ Behind
  BY DEF IInv, Walk
<1>2. /\ cur \in Groups /\ day \in Days
      /\ count' = [count EXCEPT ![cur][day] = net]
      /\ upto' = [upto EXCEPT ![cur][day] = top]
      /\ counted' = [counted EXCEPT ![cur] = @ \cup pending]
  BY UpdateMatches
<1>3. /\ top > 0 /\ DayOf[top] = day /\ Below(cur, top) /\ top \in Heights /\ top # None
  BY <1>1, HeightsAreNumbers DEF Position, TypeOK
<1>4. /\ count \in [Groups -> [Days -> Nat]]
      /\ upto \in [Groups -> [Days -> Heights \cup {None}]]
      /\ counted \in [Groups -> SUBSET Heights]
  BY <1>1 DEF TypeOK
<1>5. ASSUME NEW g \in Groups, NEW d \in Days, g # cur \/ d # day
      PROVE  count'[g][d] = count[g][d] /\ upto'[g][d] = upto[g][d]
  BY <1>2, <1>4, <1>5
<1>6. count'[cur][day] = net /\ upto'[cur][day] = top
  BY <1>2, <1>4
<1>7. /\ counted'[cur] = counted[cur] \cup pending
      /\ \A g \in Groups : counted[g] \subseteq counted'[g]
  BY <1>2, <1>4
<1>8. ASSUME NEW g \in Groups, NEW d \in Days
      PROVE  /\ upto'[g][d] = None => count'[g][d] = 0
             /\ upto'[g][d] # None =>
                   /\ upto'[g][d] > 0 /\ DayOf[upto'[g][d]] = d
                   /\ \E h \in blocks[g] : upto'[g][d] <= h
  <2>1. CASE g = cur /\ d = day
    BY <1>3, <1>6, <2>1 DEF Below
  <2>2. CASE g # cur \/ d # day
    BY <1>5, <2>2 DEF IInv, Rows, Below
  <2> QED
    BY <2>1, <2>2
<1>9. ASSUME NEW g \in Groups, NEW d \in Days, upto'[g][d] # None, NEW b \in blocks[g],
             b > 0, b <= upto'[g][d], TxCount[b] > 0
      PROVE  b \in counted'[g]
  <2>1. CASE g = cur /\ d = day
    BY <1>1, <1>6, <1>7, <1>9, <2>1 DEF Behind
  <2>2. CASE g # cur \/ d # day
    BY <1>5, <1>7, <1>9, <2>2 DEF IInv, RowsComplete
  <2> QED
    BY <2>1, <2>2
<1>10. Rows'
  BY <1>8 DEF Rows, Below
<1>11. RowsComplete'
  BY <1>9 DEF RowsComplete
<1> QED
  BY <1>10, <1>11

\* Only rows of the group under way are written, which is off the list.
LEMMA InfoKept ==
    ASSUME IInv, pc # "idle", info' = info, todo' = todo, cur' = cur,
           \A g \in Groups \ {cur} : upto'[g] = upto[g] /\ count'[g] = count[g]
    PROVE  InfoHolds'
<1>1. cur \notin todo /\ (\A g \in todo : info[g] = Latest(g)) /\ todo \subseteq Groups
  BY DEF IInv, InfoHolds, TypeOK
<1>2. \A g \in todo : Latest(g)' = Latest(g)
  BY <1>1, LatestKept
<1> QED
  BY <1>1, <1>2 DEF InfoHolds

LEMMA UpdateLastDayKeeps ==
    ASSUME IInv, UpdateLastDay
    PROVE  Rows' /\ RowsComplete' /\ InfoHolds' /\ Walk'
<1>1. /\ pc = "blocks" /\ list = {} /\ UpdateTransDaily /\ pc' = "groups"
      /\ UNCHANGED <<blocks, info, todo, cur>>
  BY DEF UpdateLastDay
<1>2. day # 0 /\ TypeOK
  BY <1>1 DEF IInv, Shape
<1>3. Rows' /\ RowsComplete'
  BY <1>1, <1>2, UpdatedRows
<1>4. \A g \in Groups \ {cur} : upto'[g] = upto[g] /\ count'[g] = count[g]
  BY <1>1, <1>2, UpdateMatches DEF TypeOK
<1>5. InfoHolds'
  BY <1>1, <1>4, InfoKept
<1>6. Walk'
  BY <1>1 DEF Walk
<1> QED
  BY <1>3, <1>5, <1>6

LEMMA UpdateOldDayKeeps ==
    ASSUME IInv, UpdateOldDay
    PROVE  Rows' /\ RowsComplete' /\ InfoHolds' /\ Walk'
<1>1. /\ pc = "blocks" /\ list # {} /\ DayOf[Min(list)] # day /\ pc' = "add"
      /\ UNCHANGED <<blocks, info, todo, cur, list, day, from, net, top, pending>>
  BY DEF UpdateOldDay, traversal
<1>2. TypeOK /\ Position /\ Ahead /\ ThisDay /\ Behind /\ cur \in Groups
  BY <1>1 DEF IInv, Walk, TypeOK
<1>3. Position'
  BY <1>1, <1>2 DEF Position, Below
<1>4. Ahead'
  BY <1>1, <1>2 DEF Ahead, Below
<1>5. \A b \in pending : TxCount[b] <= net
  BY <1>2 DEF Behind
<1>6. CASE net > 0 /\ day # 0
  <2>1. /\ UpdateTransDaily
        /\ count' = [count EXCEPT ![cur][day] = net]
        /\ upto' = [upto EXCEPT ![cur][day] = top]
        /\ counted' = [counted EXCEPT ![cur] = @ \cup pending]
        /\ upto[cur][day] # None /\ day \in Days
    BY <1>1, <1>6, UpdateMatches DEF UpdateOldDay
  <2>2. Rows' /\ RowsComplete'
    BY <1>1, <1>6, <2>1, UpdatedRows
  <2>3. \A g \in Groups \ {cur} : upto'[g] = upto[g] /\ count'[g] = count[g]
    BY <1>2, <2>1 DEF TypeOK
  <2>4. InfoHolds'
    BY <1>1, <2>3, InfoKept
  <2>5. ThisDay'
    <3>1. \A d \in Days : upto'[cur][d] # None => upto[cur][d] # None
      BY <1>2, <2>1 DEF TypeOK
    <3>2. \A d \in Days : upto'[cur][d] # None => d <= day
      BY <1>2, <3>1 DEF ThisDay
    <3> QED
      BY <1>1, <3>2 DEF ThisDay
  <2>6. Behind'
    <3>1. counted'[cur] = counted[cur] \cup pending
      BY <1>2, <2>1 DEF TypeOK
    <3> QED
      BY <1>1, <1>2, <1>5, <3>1 DEF Behind
  <2>7. Walk'
    BY <1>3, <1>4, <2>5, <2>6 DEF Walk
  <2> QED
    BY <2>2, <2>4, <2>7
<1>7. CASE ~(net > 0 /\ day # 0)
  <2>1. UNCHANGED <<count, upto, counted>>
    BY <1>7 DEF UpdateOldDay, tables
  <2>2. Rows' /\ RowsComplete'
    BY <1>1, <2>1 DEF IInv, Rows, RowsComplete, Below
  <2>3. InfoHolds'
    BY <1>1, <2>1, InfoKept
  <2>4. ThisDay'
    BY <1>1, <1>2, <2>1 DEF ThisDay
  <2>5. Behind'
    <3>1. \A b \in pending : ~(TxCount[b] > 0)
      <4>1. CASE day = 0
        BY <1>2, <4>1 DEF Position
      <4>2. CASE ~(net > 0)
        <5>1. net \in Nat /\ \A b \in pending : TxCount[b] \in Nat
          BY <1>2, BlockFacts DEF TypeOK
        <5> QED
          BY <1>5, <4>2, <5>1
      <4> QED
        BY <1>7, <4>1, <4>2
    <3> QED
      BY <1>1, <1>2, <2>1, <3>1 DEF Behind
  <2>6. Walk'
    BY <1>3, <1>4, <2>4, <2>5 DEF Walk
  <2> QED
    BY <2>2, <2>3, <2>6
<1> QED
  BY <1>6, <1>7

\* The first block of a new day finds no row of its day: rows are of days up to
\* the one under way, and the days do not go back.
LEMMA NewDay ==
    ASSUME DaysInOrder, IInv, AddDay
    PROVE  LET b == Min(list)
               d == DayOf[b]
           IN  /\ cur \in Groups /\ d \in Days /\ b \in Heights /\ TxCount[b] \in Nat
               /\ d > day /\ upto[cur][d] = None /\ count[cur][d] = 0
               /\ count' = [count EXCEPT ![cur][d] = TxCount[b]]
               /\ upto' = [upto EXCEPT ![cur][d] = b]
               /\ counted' = [counted EXCEPT ![cur] = @ \cup {b}]
<1> DEFINE b == Min(list)
           d == DayOf[b]
<1>1. /\ pc = "add" /\ list # {} /\ TypeOK /\ Position /\ ThisDay /\ cur \in Groups
      /\ IF upto[cur][d] = None
         THEN /\ count' = [count EXCEPT ![cur][d] = TxCount[b]]
              /\ upto' = [upto EXCEPT ![cur][d] = b]
              /\ counted' = [counted EXCEPT ![cur] = @ \cup {b}]
         ELSE UNCHANGED <<count, upto, counted>>
  BY DEF AddDay, IInv, Walk, Shape, TypeOK, tables
<1>2. /\ b \in Heights /\ b \in Nat /\ b > top /\ d \in Days /\ d \in Nat \ {0}
      /\ TxCount[b] \in Nat
  BY <1>1, NextBlock
<1>3. d # day
  BY <1>1 DEF ThisDay
<1> HIDE DEF b, d
<1>4. day \in Nat /\ top \in Heights /\ top \in Nat
  BY <1>1, DaysAreNumbers, HeightsAreNumbers DEF TypeOK
<1>5. day # 0 => day <= d
  BY <1>1, <1>2, <1>4 DEF Position, DaysInOrder, d
<1>6. d > day
  BY <1>2, <1>3, <1>4, <1>5
<1>7. upto[cur][d] = None
  <2>1. ~(d <= day)
    BY <1>2, <1>4, <1>6
  <2> QED
    BY <1>1, <1>2, <2>1 DEF ThisDay
<1>8. count[cur][d] = 0
  BY <1>1, <1>2, <1>7 DEF IInv, Rows
<1> QED
  BY <1>1, <1>2, <1>6, <1>7, <1>8 DEF b, d

LEMMA AddDayKeeps ==
    ASSUME DaysInOrder, IInv, AddDay
    PROVE  Rows' /\ RowsComplete' /\ InfoHolds' /\ Walk'
<1> DEFINE m == Min(list)
           e == DayOf[m]
<1>1. /\ pc = "add" /\ list # {} /\ pc' = "blocks"
      /\ day' = e /\ from' = m /\ top' = m /\ net' = TxCount[m] /\ pending' = {m}
      /\ list' = list \ {m}
      /\ UNCHANGED <<blocks, info, todo, cur>>
  BY DEF AddDay, IInv, Shape
<1>2. TypeOK /\ Position /\ Ahead /\ ThisDay /\ Behind
  BY <1>1 DEF IInv, Walk
<1>3. /\ cur \in Groups /\ e \in Days /\ e > day /\ upto[cur][e] = None
      /\ count' = [count EXCEPT ![cur][e] = TxCount[m]]
      /\ upto' = [upto EXCEPT ![cur][e] = m]
      /\ counted' = [counted EXCEPT ![cur] = @ \cup {m}]
  BY NewDay
<1>4. /\ m \in list /\ m \in Heights /\ m \in Nat /\ m > top /\ m > 0
      /\ e \in Nat \ {0} /\ TxCount[m] \in Nat
      /\ Below(cur, m)
      /\ \A y \in list \ {m} : y > m
      /\ \A x \in blocks[cur] : x <= m => x <= top \/ x = m
      /\ \A x \in blocks[cur] : x > m => x \in list \ {m} \/ \A y \in list \ {m} : y < x
  BY <1>1, NextBlock
<1>5. DayOf[m] = e
  OBVIOUS
<1>6. m # None
  BY <1>4, HeightsAreNumbers
<1>7. day \in Nat /\ \A d \in Days : d \in Nat
  BY <1>2, DaysAreNumbers DEF TypeOK
<1>8. /\ count \in [Groups -> [Days -> Nat]]
      /\ upto \in [Groups -> [Days -> Heights \cup {None}]]
      /\ counted \in [Groups -> SUBSET Heights]
  BY <1>2 DEF TypeOK
<1> HIDE DEF m, e
<1>9. ASSUME NEW g \in Groups, NEW d \in Days, g # cur \/ d # e
      PROVE  count'[g][d] = count[g][d] /\ upto'[g][d] = upto[g][d]
  BY <1>3, <1>8, <1>9
<1>10. count'[cur][e] = TxCount[m] /\ upto'[cur][e] = m
  BY <1>3, <1>8
<1>11. /\ counted'[cur] = counted[cur] \cup {m}
       /\ \A g \in Groups : counted[g] \subseteq counted'[g]
  BY <1>3, <1>8
<1>12. Rows'
  <2>1. ASSUME NEW g \in Groups, NEW d \in Days
        PROVE  /\ upto'[g][d] = None => count'[g][d] = 0
               /\ upto'[g][d] # None =>
                     /\ upto'[g][d] > 0 /\ DayOf[upto'[g][d]] = d
                     /\ \E h \in blocks[g] : upto'[g][d] <= h
    <3>1. CASE g = cur /\ d = e
      BY <1>4, <1>5, <1>6, <1>10, <3>1 DEF Below
    <3>2. CASE g # cur \/ d # e
      BY <1>9, <3>2 DEF IInv, Rows, Below
    <3> QED
      BY <3>1, <3>2
  <2> QED
    BY <1>1, <2>1 DEF Rows, Below
\* What lies up to the new row: what lay up to top, and the block of the row.
<1>13. ASSUME NEW x \in blocks[cur], x > 0, x <= m, TxCount[x] > 0
       PROVE  x \in counted'[cur]
  BY <1>1, <1>2, <1>4, <1>11, <1>13 DEF Behind
<1>14. RowsComplete'
  <2>1. ASSUME NEW g \in Groups, NEW d \in Days, upto'[g][d] # None, NEW b \in blocks[g],
               b > 0, b <= upto'[g][d], TxCount[b] > 0
        PROVE  b \in counted'[g]
    <3>1. CASE g = cur /\ d = e
      BY <1>10, <1>13, <2>1, <3>1
    <3>2. CASE g # cur \/ d # e
      BY <1>9, <1>11, <2>1, <3>2 DEF IInv, RowsComplete
    <3> QED
      BY <3>1, <3>2
  <2> QED
    BY <1>1, <2>1 DEF RowsComplete
<1>15. InfoHolds'
  <2>1. \A g \in Groups \ {cur} : upto'[g] = upto[g] /\ count'[g] = count[g]
    BY <1>3, <1>8
  <2> QED
    BY <1>1, <2>1, InfoKept
<1>16. Position'
  BY <1>1, <1>4, <1>5 DEF Position, Below
<1>17. Ahead'
  BY <1>1, <1>2, <1>4 DEF Ahead, Below
<1>18. ThisDay'
  <2>1. ASSUME NEW d \in Days, upto'[cur][d] # None PROVE d <= e
    <3>1. CASE d = e
      BY <1>4, <3>1
    <3>2. CASE d # e
      <4>1. d <= day
        BY <1>2, <1>3, <1>9, <2>1, <3>2 DEF ThisDay
      <4> QED
        BY <1>3, <1>4, <1>7, <4>1
    <3> QED
      BY <3>1, <3>2
  <2>2. upto'[cur][e] = m /\ count'[cur][e] <= TxCount[m] /\ m <= m
    BY <1>4, <1>10
  <2> QED
    BY <1>1, <2>1, <2>2 DEF ThisDay
<1>19. Behind'
  <2>1. \A b \in {m} : TxCount[b] <= TxCount[m]
    BY <1>4
  <2> QED
    BY <1>1, <1>13, <2>1 DEF Behind
<1>20. Walk'
  BY <1>16, <1>17, <1>18, <1>19 DEF Walk
<1> QED
  BY <1>12, <1>14, <1>15, <1>20

LEMMA InvNext == ASSUME DaysInOrder PROVE IInv /\ [Next]_vars => IInv'
<1> SUFFICES ASSUME IInv, [Next]_vars PROVE IInv'
  OBVIOUS
<1>1. TypeOK' /\ Shape'
  BY TypeNext DEF IInv
<1>2. Rows' /\ RowsComplete' /\ InfoHolds' /\ Walk'
  <2>1. CASE MirrorMoves
    BY <2>1, MirrorKeeps
  <2>2. CASE StartStatistics \/ EndStatistics \/ Abort \/ UNCHANGED vars
    BY <2>2, RunKeeps
  <2>3. CASE AddToDay
    BY <2>3, AddToDayKeeps
  <2>4. CASE UpdateOldDay
    BY <2>4, UpdateOldDayKeeps
  <2>5. CASE AddDay
    BY <2>5, AddDayKeeps
  <2>6. CASE UpdateLastDay
    BY <2>6, UpdateLastDayKeeps
  <2>7. CASE \E g \in Groups : QueryBlockList(g)
    BY <2>7, QueryKeeps
  <2> QED
    BY <2>1, <2>2, <2>3, <2>4, <2>5, <2>6, <2>7 DEF Next, Statistics
<1> QED
  BY <1>1, <1>2 DEF IInv

(***************************************************************************)
(* What is below the latest row, and what a step may do to a row.          *)
(***************************************************************************)
LEMMA InvCovers == ASSUME DaysInOrder PROVE IInv => NothingJumpedOver
<1> SUFFICES ASSUME IInv, NEW g \in Groups, NEW b \in blocks[g],
                    b > 0, b <= Latest(g).block, TxCount[b] > 0
             PROVE  b \in counted[g]
  BY DEF NothingJumpedOver
<1>1. b \in Nat
  BY HeightsAreNumbers DEF IInv, TypeOK
<1>2. CASE SavedDays(g) = {}
  BY <1>1, <1>2, LatestRow DEF NoInfo
<1>3. CASE SavedDays(g) # {}
  BY <1>3, LatestRow DEF IInv, RowsComplete
<1> QED
  BY <1>2, <1>3

\* In a chain whose days do not go back, no block is left out of the counts: runs
\* that fail between two statements, runs that go on from a row that an earlier
\* run wrote, blocks that arrive or are cleaned up meanwhile.
THEOREM NothingIsJumpedOver == ASSUME DaysInOrder PROVE Spec => []NothingJumpedOver
BY InvInit, InvNext, InvCovers, PTL DEF Spec

LEMMA StepRaises ==
    ASSUME DaysInOrder, IInv, [Next]_vars, NEW g \in Groups, NEW d \in Days
    PROVE  count'[g][d] >= count[g][d] /\ upto'[g][d] >= upto[g][d]
<1>1. /\ count \in [Groups -> [Days -> Nat]]
      /\ upto \in [Groups -> [Days -> Heights \cup {None}]]
      /\ counted \in [Groups -> SUBSET Heights]
  BY DEF IInv, TypeOK
<1>2. count[g][d] \in Nat /\ upto[g][d] \in Int
  <2>1. upto[g][d] \in Heights \cup {None} /\ count[g][d] \in Nat
    BY <1>1
  <2>2. \A x \in Heights : x \in Int
    BY TransDailyAssumption DEF Heights
  <2>3. None \in Int
    BY DEF None
  <2>4. upto[g][d] \in Int
    BY <2>1, <2>2, <2>3, Zenon
  <2> QED
    BY <2>1, <2>4
<1>3. CASE UNCHANGED <<count, upto>>
  BY <1>2, <1>3
<1>4. ASSUME pc = "blocks", day # 0, UpdateTransDaily
      PROVE  count'[g][d] >= count[g][d] /\ upto'[g][d] >= upto[g][d]
  <2>1. /\ cur \in Groups /\ day \in Days
        /\ count' = [count EXCEPT ![cur][day] = net]
        /\ upto' = [upto EXCEPT ![cur][day] = top]
        /\ count[cur][day] <= net /\ upto[cur][day] <= top
    BY <1>4, UpdateMatches
  <2>2. net \in Nat /\ top \in Nat
    BY HeightsAreNumbers DEF IInv, TypeOK
  <2>3. CASE g = cur /\ d = day
    <3>1. count'[g][d] = net /\ upto'[g][d] = top
      BY <1>1, <2>1, <2>3
    <3> QED
      BY <1>2, <2>1, <2>2, <2>3, <3>1
  <2>4. CASE g # cur \/ d # day
    <3>1. count'[g][d] = count[g][d] /\ upto'[g][d] = upto[g][d]
      BY <1>1, <2>1, <2>4
    <3> QED
      BY <1>2, <3>1
  <2> QED
    BY <2>3, <2>4
<1>5. CASE UpdateLastDay
  BY <1>4, <1>5 DEF UpdateLastDay, IInv, Shape
<1>6. CASE UpdateOldDay
  BY <1>3, <1>4, <1>6 DEF UpdateOldDay, tables
<1>7. CASE AddDay
  <2> DEFINE b == Min(list)
             e == DayOf[b]
  <2>1. /\ cur \in Groups /\ e \in Days /\ b \in Heights /\ TxCount[b] \in Nat
        /\ upto[cur][e] = None /\ count[cur][e] = 0
        /\ count' = [count EXCEPT ![cur][e] = TxCount[b]]
        /\ upto' = [upto EXCEPT ![cur][e] = b]
    BY <1>7, NewDay
  <2>2. b \in Nat
    BY <2>1, HeightsAreNumbers
  <2> HIDE DEF b, e
  <2>3. CASE g = cur /\ d = e
    <3>1. count'[g][d] = TxCount[b] /\ upto'[g][d] = b
      BY <1>1, <2>1, <2>3
    <3> QED
      BY <2>1, <2>2, <2>3, <3>1 DEF None
  <2>4. CASE g # cur \/ d # e
    <3>1. count'[g][d] = count[g][d] /\ upto'[g][d] = upto[g][d]
      BY <1>1, <2>1, <2>4
    <3> QED
      BY <1>2, <3>1
  <2> QED
    BY <2>3, <2>4
<1>8. CASE ~(AddDay \/ UpdateOldDay \/ UpdateLastDay)
  BY <1>3, <1>8
     DEF Next, Statistics, MirrorMoves, StartStatistics, EndStatistics, AddToDay,
         QueryBlockList, Abort, vars, tables
<1> QED
  BY <1>5, <1>6, <1>7, <1>8

\* No step takes back what a row says, neither its count nor the block up to
\* which it counts.
THEOREM CountsNeverFall == ASSUME DaysInOrder PROVE Spec => NeverLowered
<1>1. IInv /\ [Next]_vars
        => [\A g \in Groups, d \in Days :
               count'[g][d] >= count[g][d] /\ upto'[g][d] >= upto[g][d]]_vars
  BY StepRaises
<1> QED
  BY <1>1, InvInit, InvNext, PTL DEF Spec, NeverLowered

(***************************************************************************)
(* Sums over finite sets.  SumFunctionOnSet adds members in the order of   *)
(* CHOOSE; that it adds one member more, whichever it is, rests on there   *)
(* being a function of the subsets that does.                              *)
(***************************************************************************)
Additive(G, F, S) ==
    /\ G \in [SUBSET S -> Nat]
    /\ G[{}] = 0
    /\ \A s \in SUBSET S : \A x \in s : G[s] = F[x] + G[s \ {x}]

\* Where a set without one of its members has such a function, the set has one.
LEMMA AdditiveExtends ==
    ASSUME NEW T, NEW b \in T, NEW F, \A x \in T : F[x] \in Nat,
           NEW G, Additive(G, F, T \ {b})
    PROVE  \E H : Additive(H, F, T)
<1> DEFINE H == [s \in SUBSET T |-> G[s \ {b}] + (IF b \in s THEN F[b] ELSE 0)]
<1>1. /\ G \in [SUBSET (T \ {b}) -> Nat] /\ G[{}] = 0
      /\ \A s \in SUBSET (T \ {b}) : \A x \in s : G[s] = F[x] + G[s \ {x}]
  BY DEF Additive
<1>2. \A s \in SUBSET T : G[s \ {b}] \in Nat
  <2>1. \A s \in SUBSET T : s \ {b} \in SUBSET (T \ {b})
    OBVIOUS
  <2> QED
    BY <1>1, <2>1
<1>3. H \in [SUBSET T -> Nat]
  <2>1. ASSUME NEW s \in SUBSET T
        PROVE  G[s \ {b}] + (IF b \in s THEN F[b] ELSE 0) \in Nat
    <3>1. G[s \ {b}] \in Nat /\ F[b] \in Nat
      BY <1>2
    <3> QED
      BY <3>1
  <2> QED
    BY <2>1
<1>4. H[{}] = 0
  <2>1. {} \in SUBSET T /\ {} \ {b} = {}
    OBVIOUS
  <2> QED
    BY <1>1, <2>1
<1>5. ASSUME NEW s \in SUBSET T, NEW x \in s PROVE H[s] = F[x] + H[s \ {x}]
  <2>1. /\ H[s] = G[s \ {b}] + (IF b \in s THEN F[b] ELSE 0)
        /\ H[s \ {x}] = G[(s \ {x}) \ {b}] + (IF b \in s \ {x} THEN F[b] ELSE 0)
        /\ F[x] \in Nat /\ F[b] \in Nat
    <3>1. s \ {x} \in SUBSET T /\ x \in T
      OBVIOUS
    <3>2. F[x] \in Nat /\ F[b] \in Nat
      BY <3>1
    <3>3. H[s \ {x}] = G[(s \ {x}) \ {b}] + (IF b \in s \ {x} THEN F[b] ELSE 0)
      BY <3>1
    <3> QED
      BY <3>2, <3>3
  <2>2. CASE x = b
    <3>1. (s \ {x}) \ {b} = s \ {b} /\ b \in s /\ b \notin s \ {x}
      BY <2>2
    <3>2. G[s \ {b}] \in Nat
      BY <1>2
    <3> HIDE DEF H
    <3>3. H[s] = G[s \ {b}] + F[b] /\ H[s \ {x}] = G[s \ {b}]
      <4>1. G[(s \ {x}) \ {b}] = G[s \ {b}]
        BY <3>1
      <4> QED
        BY <2>1, <3>1, <3>2, <4>1
    <3> QED
      BY <2>1, <2>2, <3>2, <3>3
  <2>3. CASE x # b
    <3>1. s \ {b} \in SUBSET (T \ {b}) /\ x \in s \ {b} /\ (s \ {x}) \ {b} = (s \ {b}) \ {x}
      BY <2>3
    <3>2. G[s \ {b}] = F[x] + G[(s \ {x}) \ {b}]
      BY <1>1, <3>1
    <3>3. G[(s \ {x}) \ {b}] \in Nat
      <4>1. s \ {x} \in SUBSET T
        OBVIOUS
      <4> QED
        BY <1>2, <4>1
    <3>4. b \in s <=> b \in s \ {x}
      BY <2>3
    <3> HIDE DEF H
    <3>5. CASE b \in s
      BY <2>1, <3>2, <3>3, <3>4, <3>5
    <3>6. CASE b \notin s
      BY <2>1, <3>2, <3>3, <3>4, <3>6
    <3> QED
      BY <3>5, <3>6
  <2> QED
    BY <2>2, <2>3
<1> HIDE DEF H
<1> QED
  BY <1>3, <1>4, <1>5 DEF Additive

\* Else take the smallest subset that has none, and a member from it.
LEMMA AdditiveExists ==
    ASSUME NEW S, IsFiniteSet(S), NEW F, \A x \in S : F[x] \in Nat
    PROVE  \E G : Additive(G, F, S)
<1> DEFINE Without == {T \in SUBSET S : ~\E G : Additive(G, F, T)}
           Sizes == {Cardinality(T) : T \in Without}
<1>1. SUFFICES ASSUME Without # {} PROVE FALSE
  OBVIOUS
<1>2. Sizes \in SUBSET Nat /\ Sizes # {}
  <2>1. ASSUME NEW T \in Without PROVE Cardinality(T) \in Nat
    BY FS_Subset, FS_CardinalityType
  <2> QED
    BY <1>1, <2>1
<1>3. PICK n \in Sizes : \A k \in Sizes : n <= k
  BY <1>2, LeastMember
<1>4. PICK T \in Without : n = Cardinality(T)
  OBVIOUS
<1>5. T # {}
  <2>1. ASSUME T = {} PROVE Additive([s \in SUBSET T |-> 0], F, T)
    BY <2>1 DEF Additive
  <2> QED
    BY <1>4, <2>1
<1>6. PICK b \in T : TRUE
  BY <1>5
<1>7. IsFiniteSet(T) /\ Cardinality(T \ {b}) = n - 1 /\ n \in Nat
  BY <1>2, <1>4, <1>6, FS_Subset, FS_RemoveElement
<1>8. T \ {b} \notin Without
  <2>1. ASSUME T \ {b} \in Without PROVE FALSE
    <3>1. n - 1 \in Sizes
      BY <1>7, <2>1
    <3>2. n <= n - 1
      BY <1>3, <3>1
    <3> QED
      BY <1>7, <3>2
  <2> QED
    BY <2>1
<1>9. PICK G : Additive(G, F, T \ {b})
  BY <1>8
<1>10. \E H : Additive(H, F, T)
  BY <1>6, <1>9, AdditiveExtends
<1> QED
  BY <1>4, <1>10

\* The recursion of SumFunctionOnSet.
Unfolds(I, F, S) ==
    I = [s \in SUBSET S |-> IF s = {} THEN 0
                            ELSE F[CHOOSE x \in s : TRUE] + I[s \ {CHOOSE x \in s : TRUE}]]

LEMMA SumUnfolds ==
    ASSUME NEW F, NEW S
    PROVE  SumFunctionOnSet(F, S) = (CHOOSE I : Unfolds(I, F, S))[S]
BY DEF SumFunctionOnSet, FoldFunctionOnSet, MapThenFoldSet, Unfolds

\* The additive function satisfies the recursion, and nothing else does.
LEMMA SumIsAdditive ==
    ASSUME NEW T, IsFiniteSet(T), NEW F, NEW G, Additive(G, F, T), NEW S \in SUBSET T,
           \A x \in T : F[x] \in Nat
    PROVE  SumFunctionOnSet(F, S) = G[S]
<1> DEFINE c(s) == CHOOSE x \in s : TRUE
           I == CHOOSE J : Unfolds(J, F, S)
<1>1. /\ G \in [SUBSET T -> Nat] /\ G[{}] = 0
      /\ \A s \in SUBSET T : \A x \in s : G[s] = F[x] + G[s \ {x}]
  BY DEF Additive
<1>2. \A s : s # {} => c(s) \in s
  OBVIOUS
<1> DEFINE H == [s \in SUBSET S |-> G[s]]
<1>3. Unfolds(H, F, S)
  <2>1. ASSUME NEW s \in SUBSET S
        PROVE  H[s] = IF s = {} THEN 0 ELSE F[c(s)] + H[s \ {c(s)}]
    <3>1. CASE s = {}
      BY <1>1, <3>1
    <3>2. CASE s # {}
      <4>1. c(s) \in s /\ s \in SUBSET T /\ s \ {c(s)} \in SUBSET S
        BY <1>2, <3>2
      <4> HIDE DEF c
      <4> QED
        BY <1>1, <3>2, <4>1
    <3> QED
      BY <3>1, <3>2
  <2> QED
    BY <2>1 DEF Unfolds
<1>4. Unfolds(I, F, S)
  BY <1>3
<1>5. \A s \in SUBSET S : I[s] = IF s = {} THEN 0 ELSE F[c(s)] + I[s \ {c(s)}]
  BY <1>4 DEF Unfolds
<1> HIDE DEF c, I, H
<1> DEFINE Wrong == {s \in SUBSET S : I[s] # G[s]}
           Sizes == {Cardinality(s) : s \in Wrong}
<1>6. Wrong = {}
  <2>1. SUFFICES ASSUME Wrong # {} PROVE FALSE
    OBVIOUS
  <2>2. Sizes \in SUBSET Nat /\ Sizes # {}
    <3>1. ASSUME NEW s \in Wrong PROVE Cardinality(s) \in Nat
      BY FS_Subset, FS_CardinalityType
    <3> QED
      BY <2>1, <3>1
  <2>3. PICK n \in Sizes : \A k \in Sizes : n <= k
    BY <2>2, LeastMember
  <2>4. PICK s \in Wrong : n = Cardinality(s)
    OBVIOUS
  <2>5. s # {}
    BY <1>1, <1>5, <2>4
  <2>6. c(s) \in s /\ s \ {c(s)} \in SUBSET S /\ s \in SUBSET T
    BY <1>2, <2>5
  <2>7. Cardinality(s \ {c(s)}) = n - 1 /\ n \in Nat
    BY <2>2, <2>4, <2>6, FS_Subset, FS_RemoveElement
  <2>8. s \ {c(s)} \notin Wrong
    <3>1. ASSUME s \ {c(s)} \in Wrong PROVE FALSE
      <4>1. n - 1 \in Sizes
        BY <2>7, <3>1
      <4>2. n <= n - 1
        BY <2>3, <4>1
      <4> QED
        BY <2>7, <4>2
    <3> QED
      BY <3>1
  <2>9. I[s \ {c(s)}] = G[s \ {c(s)}]
    BY <2>6, <2>8
  <2>10. I[s] = G[s]
    BY <1>1, <1>5, <2>5, <2>6, <2>9
  <2> QED
    BY <2>4, <2>10
<1>7. I[S] = G[S]
  BY <1>6
<1> QED
  BY <1>7, SumUnfolds DEF I

\* The sum over no block, and over one block more.
LEMMA SumNone == ASSUME NEW F PROVE SumFunctionOnSet(F, {}) = 0
<1> DEFINE G == [s \in SUBSET {} |-> 0]
<1>1. Additive(G, F, {})
  BY DEF Additive
<1>2. {} \in SUBSET {} /\ IsFiniteSet({}) /\ G[{}] = 0
  BY FS_EmptySet
<1> HIDE DEF G
<1> QED
  BY <1>1, <1>2, SumIsAdditive

LEMMA SumOneMore ==
    ASSUME NEW F, NEW S, IsFiniteSet(S), NEW b, b \notin S,
           \A x \in S \cup {b} : F[x] \in Nat
    PROVE  SumFunctionOnSet(F, S \cup {b}) = SumFunctionOnSet(F, S) + F[b]
<1> DEFINE T == S \cup {b}
<1>1. IsFiniteSet(T)
  BY FS_AddElement
<1>2. PICK G : Additive(G, F, T)
  BY <1>1, AdditiveExists
<1>3. SumFunctionOnSet(F, T) = G[T] /\ SumFunctionOnSet(F, S) = G[S]
  BY <1>1, <1>2, SumIsAdditive
<1>4. T \in SUBSET T /\ b \in T /\ T \ {b} = S /\ S \in SUBSET T
  OBVIOUS
<1>5. G[T] = F[b] + G[S] /\ G[S] \in Nat /\ F[b] \in Nat
  BY <1>2, <1>4 DEF Additive
<1> QED
  BY <1>3, <1>5

(***************************************************************************)
(* The counts.  The blocks counted for a day lie up to its row, and those  *)
(* that wait in the sum between the row and top: none is added twice.      *)
(***************************************************************************)
DaySum(S, d) == SumFunctionOnSet(TxCount, {b \in S : DayOf[b] = d})

LEMMA DaySumMore ==
    ASSUME NEW S \in SUBSET Heights, NEW b \in Heights, b \notin S
    PROVE  DaySum(S \cup {b}, DayOf[b]) = DaySum(S, DayOf[b]) + TxCount[b]
<1> DEFINE D == {c \in S : DayOf[c] = DayOf[b]}
<1>1. IsFiniteSet(Heights)
  BY FS_Interval, TransDailyAssumption DEF Heights
<1>2. IsFiniteSet(D) /\ b \notin D
  BY <1>1, FS_Subset
<1>3. \A x \in D \cup {b} : TxCount[x] \in Nat
  BY BlockFacts
<1>4. {c \in S \cup {b} : DayOf[c] = DayOf[b]} = D \cup {b}
  OBVIOUS
<1> HIDE DEF D
<1>5. SumFunctionOnSet(TxCount, D \cup {b}) = SumFunctionOnSet(TxCount, D) + TxCount[b]
  BY <1>2, <1>3, SumOneMore
<1> QED
  BY <1>4, <1>5 DEF DaySum, D

\* Blocks of other days do not matter.
LEMMA DaySumOther ==
    ASSUME NEW S, NEW P, NEW d, \A b \in P : DayOf[b] # d
    PROVE  DaySum(S \cup P, d) = DaySum(S, d)
<1>1. {b \in S \cup P : DayOf[b] = d} = {b \in S : DayOf[b] = d}
  OBVIOUS
<1> QED
  BY <1>1 DEF DaySum

LEMMA DaySumNone == ASSUME NEW S, NEW d, \A b \in S : DayOf[b] # d PROVE DaySum(S, d) = 0
<1>1. {b \in S : DayOf[b] = d} = {}
  OBVIOUS
<1> QED
  BY <1>1, SumNone DEF DaySum

CountedUpToRow ==
    \A g \in Groups, d \in Days : \A b \in counted[g] :
        DayOf[b] = d => upto[g][d] # None /\ b <= upto[g][d]

RowsExact == \A g \in Groups, d \in Days : count[g][d] = DaySum(counted[g], d)

NetExact ==
    pc = "blocks" => /\ \A b \in pending : DayOf[b] = day /\ b <= top
                     /\ net = DaySum(counted[cur] \cup pending, day)

CInv == IInv /\ CountedUpToRow /\ RowsExact /\ NetExact

LEMMA CInvInit == Init => CInv
<1> SUFFICES ASSUME Init PROVE CInv
  OBVIOUS
<1>1. IInv
  BY InvInit
<1>2. CountedUpToRow /\ NetExact
  BY DEF Init, CountedUpToRow, NetExact
<1>3. RowsExact
  BY DaySumNone DEF Init, RowsExact
<1> QED
  BY <1>1, <1>2, <1>3 DEF CInv

LEMMA RowsUntouched ==
    ASSUME CInv, UNCHANGED <<count, upto, counted>>
    PROVE  CountedUpToRow' /\ RowsExact'
BY DEF CInv, CountedUpToRow, RowsExact, DaySum

LEMMA QueryExact ==
    ASSUME DaysInOrder, CInv, NEW g \in Groups, QueryBlockList(g)
    PROVE  NetExact'
<1>1. /\ g \in todo /\ pc = "groups" /\ cur' = g /\ pending' = {} /\ counted' = counted
      /\ day' = info[g].day /\ net' = info[g].count
  BY DEF QueryBlockList, tables
<1>2. info[g] = Latest(g)
  BY <1>1 DEF CInv, IInv, InfoHolds
<1>3. IInv
  BY DEF CInv
<1>4. info[g].count = DaySum(counted[g], info[g].day)
  <2>1. CASE SavedDays(g) = {}
    <3>1. info[g].day = 0 /\ info[g].count = 0
      BY <1>2, <1>3, <2>1, LatestRow DEF NoInfo
    <3>2. \A b \in counted[g] : DayOf[b] # 0
      BY <1>3, BlockFacts DEF IInv, TypeOK
    <3> QED
      BY <3>1, <3>2, DaySumNone
  <2>2. CASE SavedDays(g) # {}
    <3>1. info[g].day \in Days /\ info[g].count = count[g][info[g].day]
      BY <1>2, <1>3, <2>2, LatestRow
    <3> QED
      BY <3>1 DEF CInv, RowsExact
  <2> QED
    BY <2>1, <2>2
<1>5. counted'[cur'] \cup pending' = counted[g]
  BY <1>1
<1> QED
  BY <1>1, <1>4, <1>5 DEF NetExact, DaySum

\* The next block is above all that is counted for its day or waits in the sum.
LEMMA AddToDayExact ==
    ASSUME CInv, AddToDay
    PROVE  NetExact'
<1> DEFINE m == Min(list)
           S == counted[cur] \cup pending
<1>1. /\ list # {} /\ pc = "blocks" /\ DayOf[m] = day
      /\ net' = net + TxCount[m] /\ top' = m /\ pending' = pending \cup {m}
      /\ UNCHANGED <<counted, cur, day, pc>>
  BY DEF AddToDay, tables
<1>2. IInv /\ TypeOK /\ ThisDay /\ cur \in Groups /\ day \in Days \cup {0}
  BY <1>1 DEF CInv, IInv, Walk, TypeOK
<1>3. /\ m \in Heights /\ m \in Nat /\ m > top /\ top \in Nat /\ day \in Days /\ day # 0
  BY <1>1, <1>2, NextBlock, HeightsAreNumbers DEF TypeOK
<1>4. /\ \A b \in pending : DayOf[b] = day /\ b <= top
      /\ net = DaySum(S, day)
  BY <1>1 DEF CInv, NetExact
<1>5. S \in SUBSET Heights /\ pending \subseteq Heights /\ counted[cur] \subseteq Heights
  BY <1>2 DEF TypeOK
<1>6. m \notin pending
  BY <1>3, <1>4
<1>7. m \notin counted[cur]
  <2>1. ASSUME m \in counted[cur] PROVE m <= from
    BY <1>1, <1>2, <1>3, <2>1 DEF CInv, CountedUpToRow, ThisDay
  <2>2. from <= top /\ from \in Nat
    BY <1>1, <1>2, <1>3, HeightsAreNumbers DEF ThisDay, TypeOK
  <2> QED
    BY <1>3, <2>1, <2>2
<1> HIDE DEF m
<1>8. DaySum(S \cup {m}, day) = DaySum(S, day) + TxCount[m]
  BY <1>1, <1>3, <1>5, <1>6, <1>7, DaySumMore
<1>9. counted[cur] \cup (pending \cup {m}) = S \cup {m}
  OBVIOUS
<1>10. net' = DaySum(counted[cur] \cup (pending \cup {m}), day)
  BY <1>1, <1>4, <1>8, <1>9
<1>11. \A b \in pending \cup {m} : DayOf[b] = day /\ b <= m
  <2>1. \A b \in pending : b \in Nat
    BY <1>5, HeightsAreNumbers
  <2> QED
    BY <1>1, <1>3, <1>4, <2>1
<1> QED
  BY <1>1, <1>10, <1>11 DEF NetExact, DaySum

LEMMA UpdateExact ==
    ASSUME CInv, pc = "blocks", day # 0, UpdateTransDaily
    PROVE  CountedUpToRow' /\ RowsExact'
<1>1. /\ cur \in Groups /\ day \in Days
      /\ count' = [count EXCEPT ![cur][day] = net]
      /\ upto' = [upto EXCEPT ![cur][day] = top]
      /\ counted' = [counted EXCEPT ![cur] = @ \cup pending]
      /\ upto[cur][day] # None /\ upto[cur][day] <= top
  BY UpdateMatches DEF CInv
<1>2. /\ count \in [Groups -> [Days -> Nat]]
      /\ upto \in [Groups -> [Days -> Heights \cup {None}]]
      /\ counted \in [Groups -> SUBSET Heights]
      /\ top \in Nat /\ top # None /\ pending \subseteq Heights
  BY HeightsAreNumbers DEF CInv, IInv, TypeOK
<1>3. /\ \A b \in pending : DayOf[b] = day /\ b <= top
      /\ net = DaySum(counted[cur] \cup pending, day)
  BY DEF CInv, NetExact
<1>4. ASSUME NEW g \in Groups, NEW d \in Days
      PROVE  /\ g = cur /\ d = day => count'[g][d] = net /\ upto'[g][d] = top
             /\ g # cur \/ d # day => count'[g][d] = count[g][d] /\ upto'[g][d] = upto[g][d]
             /\ g = cur => counted'[g] = counted[g] \cup pending
             /\ g # cur => counted'[g] = counted[g]
  BY <1>1, <1>2
<1>5. ASSUME NEW g \in Groups, NEW d \in Days, NEW b \in counted'[g], DayOf[b] = d
      PROVE  upto'[g][d] # None /\ b <= upto'[g][d]
  <2>1. CASE g = cur /\ d = day
    <3>1. CASE b \in pending
      BY <1>2, <1>3, <1>4, <2>1, <3>1
    <3>2. CASE b \in counted[g]
      <4>1. b <= upto[cur][day] /\ upto[cur][day] \in Nat /\ b \in Nat
        BY <1>1, <1>2, <1>5, <2>1, <3>2, HeightsAreNumbers DEF CInv, CountedUpToRow
      <4>2. upto'[g][d] = top
        BY <1>4, <2>1
      <4> QED
        BY <1>1, <1>2, <4>1, <4>2
    <3> QED
      BY <1>4, <1>5, <2>1, <3>1, <3>2
  <2>2. CASE g # cur \/ d # day
    <3>1. b \in counted[g] /\ upto'[g][d] = upto[g][d]
      BY <1>3, <1>4, <1>5, <2>2
    <3> QED
      BY <1>5, <3>1 DEF CInv, CountedUpToRow
  <2> QED
    BY <2>1, <2>2
<1>6. ASSUME NEW g \in Groups, NEW d \in Days
      PROVE  count'[g][d] = DaySum(counted'[g], d)
  <2>1. CASE g = cur /\ d = day
    BY <1>3, <1>4, <2>1
  <2>2. CASE g # cur
    BY <1>4, <2>2 DEF CInv, RowsExact
  <2>3. CASE g = cur /\ d # day
    <3>1. DaySum(counted[g] \cup pending, d) = DaySum(counted[g], d)
      BY <1>3, <2>3, DaySumOther
    <3> QED
      BY <1>4, <2>3, <3>1 DEF CInv, RowsExact
  <2> QED
    BY <2>1, <2>2, <2>3
<1> QED
  BY <1>5, <1>6 DEF CountedUpToRow, RowsExact, DaySum

LEMMA AddDayExact ==
    ASSUME DaysInOrder, CInv, AddDay
    PROVE  CountedUpToRow' /\ RowsExact' /\ NetExact'
<1> DEFINE m == Min(list)
           e == DayOf[m]
<1>1. /\ day' = e /\ top' = m /\ net' = TxCount[m] /\ pending' = {m} /\ cur' = cur
  BY DEF AddDay
<1>2. /\ cur \in Groups /\ e \in Days /\ m \in Heights /\ TxCount[m] \in Nat
      /\ upto[cur][e] = None
      /\ count' = [count EXCEPT ![cur][e] = TxCount[m]]
      /\ upto' = [upto EXCEPT ![cur][e] = m]
      /\ counted' = [counted EXCEPT ![cur] = @ \cup {m}]
  BY NewDay DEF CInv
<1>3. DayOf[m] = e /\ m \in Nat /\ m # None
  BY <1>2, HeightsAreNumbers
<1>4. /\ count \in [Groups -> [Days -> Nat]]
      /\ upto \in [Groups -> [Days -> Heights \cup {None}]]
      /\ counted \in [Groups -> SUBSET Heights]
  BY DEF CInv, IInv, TypeOK
<1> HIDE DEF m, e
<1>5. ASSUME NEW g \in Groups, NEW d \in Days
      PROVE  /\ g = cur /\ d = e => count'[g][d] = TxCount[m] /\ upto'[g][d] = m
             /\ g # cur \/ d # e => count'[g][d] = count[g][d] /\ upto'[g][d] = upto[g][d]
             /\ g = cur => counted'[g] = counted[g] \cup {m}
             /\ g # cur => counted'[g] = counted[g]
  BY <1>2, <1>4
\* The day has no row, so nothing of it is counted yet.
<1>6. \A b \in counted[cur] : DayOf[b] # e
  BY <1>2 DEF CInv, CountedUpToRow
<1>7. DaySum(counted[cur] \cup {m}, e) = TxCount[m]
  <2>1. m \notin counted[cur] /\ counted[cur] \in SUBSET Heights
    BY <1>2, <1>3, <1>4, <1>6
  <2>2. DaySum(counted[cur], e) = 0
    BY <1>6, DaySumNone
  <2>3. DaySum(counted[cur] \cup {m}, e) = DaySum(counted[cur], e) + TxCount[m]
    BY <1>2, <1>3, <2>1, DaySumMore
  <2> QED
    BY <1>2, <2>2, <2>3
<1>8. ASSUME NEW g \in Groups, NEW d \in Days, NEW b \in counted'[g], DayOf[b] = d
      PROVE  upto'[g][d] # None /\ b <= upto'[g][d]
  <2>1. CASE g = cur /\ d = e
    <3>1. b = m
      BY <1>5, <1>6, <1>8, <2>1
    <3> QED
      BY <1>3, <1>5, <2>1, <3>1
  <2>2. CASE g # cur \/ d # e
    <3>1. b \in counted[g] /\ upto'[g][d] = upto[g][d]
      BY <1>3, <1>5, <1>8, <2>2
    <3> QED
      BY <1>8, <3>1 DEF CInv, CountedUpToRow
  <2> QED
    BY <2>1, <2>2
<1>9. ASSUME NEW g \in Groups, NEW d \in Days
      PROVE  count'[g][d] = DaySum(counted'[g], d)
  <2>1. CASE g = cur /\ d = e
    BY <1>5, <1>7, <2>1
  <2>2. CASE g # cur
    BY <1>5, <2>2 DEF CInv, RowsExact
  <2>3. CASE g = cur /\ d # e
    <3>1. \A b \in {m} : DayOf[b] # d
      BY <1>3, <2>3
    <3>2. DaySum(counted[g] \cup {m}, d) = DaySum(counted[g], d)
      BY <3>1, DaySumOther
    <3> QED
      BY <1>5, <2>3, <3>2 DEF CInv, RowsExact
  <2> QED
    BY <2>1, <2>2, <2>3
<1>10. NetExact'
  <2>1. counted'[cur] \cup {m} = counted[cur] \cup {m}
    BY <1>2, <1>5
  <2>2. TxCount[m] = DaySum(counted'[cur] \cup {m}, e)
    BY <1>7, <2>1
  <2>3. \A b \in {m} : DayOf[b] = e /\ b <= m
    BY <1>3
  <2> QED
    BY <1>1, <2>2, <2>3 DEF NetExact, DaySum
<1> QED
  BY <1>8, <1>9, <1>10 DEF CountedUpToRow, RowsExact, DaySum

LEMMA CInvNext == ASSUME DaysInOrder PROVE CInv /\ [Next]_vars => CInv'
<1> SUFFICES ASSUME CInv, [Next]_vars PROVE CInv'
  OBVIOUS
<1>1. IInv'
  BY InvNext DEF CInv
<1>2. CountedUpToRow' /\ RowsExact' /\ NetExact'
  <2>1. CASE MirrorMoves \/ UNCHANGED vars
    <3>1. UNCHANGED <<count, upto, counted, cur, day, net, top, pc, pending>>
      BY <2>1 DEF MirrorMoves, tables, traversal, vars
    <3>2. NetExact'
      BY <3>1 DEF CInv, NetExact, DaySum
    <3> QED
      BY <3>1, <3>2, RowsUntouched
  <2>2. CASE StartStatistics \/ EndStatistics \/ Abort
    <3>1. UNCHANGED <<count, upto, counted>> /\ pc' # "blocks"
      BY <2>2 DEF StartStatistics, EndStatistics, Abort, tables
    <3>2. NetExact'
      BY <3>1 DEF NetExact
    <3> QED
      BY <3>1, <3>2, RowsUntouched
  <2>3. CASE AddToDay
    <3>1. UNCHANGED <<count, upto, counted>>
      BY <2>3 DEF AddToDay, tables
    <3> QED
      BY <2>3, <3>1, RowsUntouched, AddToDayExact
  <2>4. CASE UpdateOldDay
    <3>1. pc = "blocks" /\ pc' = "add"
      BY <2>4 DEF UpdateOldDay
    <3>2. NetExact'
      BY <3>1 DEF NetExact
    <3>3. CASE net > 0 /\ day # 0
      <4>1. UpdateTransDaily
        BY <2>4, <3>3 DEF UpdateOldDay
      <4> QED
        BY <3>1, <3>2, <3>3, <4>1, UpdateExact
    <3>4. CASE ~(net > 0 /\ day # 0)
      <4>1. UNCHANGED <<count, upto, counted>>
        BY <2>4, <3>4 DEF UpdateOldDay, tables
      <4> QED
        BY <3>2, <4>1, RowsUntouched
    <3> QED
      BY <3>3, <3>4
  <2>5. CASE AddDay
    BY <2>5, AddDayExact
  <2>6. CASE UpdateLastDay
    <3>1. pc = "blocks" /\ list = {} /\ UpdateTransDaily /\ pc' = "groups"
      BY <2>6 DEF UpdateLastDay
    <3>2. day # 0
      BY <3>1 DEF CInv, IInv, Shape
    <3>3. NetExact'
      BY <3>1 DEF NetExact
    <3> QED
      BY <3>1, <3>2, <3>3, UpdateExact
  <2>7. ASSUME NEW g \in Groups, QueryBlockList(g)
        PROVE  CountedUpToRow' /\ RowsExact' /\ NetExact'
    <3>1. UNCHANGED <<count, upto, counted>>
      BY <2>7 DEF QueryBlockList, tables
    <3> QED
      BY <2>7, <3>1, RowsUntouched, QueryExact
  <2> QED
    BY <2>1, <2>2, <2>3, <2>4, <2>5, <2>6, <2>7 DEF Next, Statistics
<1> QED
  BY <1>1, <1>2 DEF CInv

\* In a chain whose days do not go back, a day's count is at all times the number
\* of transactions of the blocks counted for it, each block once: through runs
\* that end between two statements, runs that go on from the rows of earlier
\* ones, and blocks that arrive or are cleaned up while a run adds.
THEOREM CountsAreExact == ASSUME DaysInOrder PROVE Spec => []CountsExact
<1>1. CInv => CountsExact
  BY DEF CInv, RowsExact, CountsExact, DaySum
<1> QED
  BY <1>1, CInvInit, CInvNext, PTL DEF Spec
=============================================================================
