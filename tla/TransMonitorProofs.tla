------------------------- MODULE TransMonitorProofs -------------------------
(***************************************************************************)
(* Theorems of TransMonitor, for any transactions, users, methods and      *)
(* limits, and any number of restarts.                                     *)
(***************************************************************************)
EXTENDS TransMonitor, TLAPS, WellFoundedInduction, FiniteSetTheorems

(***************************************************************************)
(* Sets of transactions.                                                   *)
(***************************************************************************)
LEMMA LeastTrans ==
    ASSUME NEW S \in SUBSET Trans, S # {}
    PROVE  \E m \in S : \A y \in S : m <= y
<1>1. Trans \subseteq Nat
  BY TransMonitorAssumption DEF Trans
<1>2. IsWellFoundedOn(OpToRel(<, Nat), Nat)
  BY NatLessThanWellFounded
<1>3. S \subseteq Nat
  BY <1>1
<1>4. PICK m \in S : \A y \in S : ~ (<<y, m>> \in OpToRel(<, Nat))
  BY <1>2, <1>3, WFMin
<1>5. ASSUME NEW y \in S PROVE m <= y
  <2>1. y \in Nat /\ m \in Nat
    BY <1>3
  <2>2. ~(y < m)
    BY <1>4, <2>1, Zenon DEF OpToRel
  <2> QED
    BY <2>1, <2>2
<1> QED
  BY <1>5

LEMMA MinTrans ==
    ASSUME NEW S \in SUBSET Trans, S # {}
    PROVE  Min(S) \in S /\ \A y \in S : Min(S) <= y
BY LeastTrans DEF Min

LEMMA TransFinite ==
    /\ IsFiniteSet(Trans)
    /\ Cardinality(Trans) = NumTx
    /\ \A S \in SUBSET Trans : IsFiniteSet(S) /\ Cardinality(S) \in Nat
<1>1. NumTx \in Nat
  BY TransMonitorAssumption
<1>2. IsFiniteSet(Trans) /\ Cardinality(Trans) = NumTx
  BY <1>1, FS_Interval DEF Trans
<1> QED
  BY <1>2, FS_Subset, FS_CardinalityType

\* The k smallest members: some when there are any, and no more than k.  Each has
\* a rank below k, the number of those before it, and no two have the same.
LEMMA OldestSome ==
    ASSUME NEW S \in SUBSET Trans, NEW k \in Nat \ {0}, S # {}
    PROVE  Oldest(S, k) # {}
<1>1. PICK m \in S : \A y \in S : m <= y
  BY LeastTrans
<1>2. S \subseteq Nat
  BY TransMonitorAssumption DEF Trans
<1>3. {s \in S : s < m} = {}
  <2>1. ASSUME NEW s \in S, s < m PROVE FALSE
    <3>1. s \in Nat /\ m \in Nat /\ m <= s
      BY <1>1, <1>2
    <3> QED
      BY <2>1, <3>1
  <2> QED
    BY <2>1
<1>4. Cardinality({s \in S : s < m}) < k
  <2>1. Cardinality({}) = 0
    BY FS_EmptySet
  <2>2. 0 < k
    OBVIOUS
  <2> QED
    BY <1>3, <2>1, <2>2, Zenon
<1>5. m \in Oldest(S, k)
  BY <1>4 DEF Oldest
<1> QED
  BY <1>5

LEMMA OldestCount ==
    ASSUME NEW S \in SUBSET Trans, NEW k \in Nat
    PROVE  IsFiniteSet(Oldest(S, k)) /\ Cardinality(Oldest(S, k)) <= k
<1> DEFINE Before(t) == {s \in S : s < t}
           rank == [t \in Oldest(S, k) |-> Cardinality(Before(t))]
<1>1. S \subseteq Nat /\ Oldest(S, k) \subseteq S
  BY TransMonitorAssumption DEF Trans, Oldest
<1>2. ASSUME NEW t \in Oldest(S, k) PROVE rank[t] \in 0..(k - 1)
  <2>1. Cardinality(Before(t)) < k
    BY DEF Oldest
  <2>2. Before(t) \in SUBSET Trans
    OBVIOUS
  <2>3. Cardinality(Before(t)) \in Nat
    BY <2>2, TransFinite
  <2>4. rank[t] = Cardinality(Before(t))
    OBVIOUS
  <2> HIDE DEF Before, rank
  <2> QED
    BY <2>1, <2>3, <2>4
<1>3. ASSUME NEW a \in Oldest(S, k), NEW b \in Oldest(S, k), a < b
      PROVE  rank[a] < rank[b]
  <2>1. Before(a) \cup {a} \in SUBSET Before(b) /\ a \notin Before(a)
    <3>1. a \in S /\ a \in Nat /\ b \in Nat
      BY <1>1
    <3>2. ASSUME NEW s \in S, s < a PROVE s < b
      <4>1. s \in Nat
        BY <1>1
      <4> QED
        BY <1>3, <3>1, <3>2, <4>1
    <3>3. ~(a < a)
      BY <3>1
    <3> QED
      BY <1>3, <3>1, <3>2, <3>3
  <2>2. Before(a) \in SUBSET Trans /\ Before(b) \in SUBSET Trans
    OBVIOUS
  <2>3. /\ IsFiniteSet(Before(a)) /\ IsFiniteSet(Before(b))
        /\ Cardinality(Before(a)) \in Nat /\ Cardinality(Before(b)) \in Nat
    BY <2>2, TransFinite
  <2>6. rank[a] = Cardinality(Before(a)) /\ rank[b] = Cardinality(Before(b))
    OBVIOUS
  <2> HIDE DEF Before, rank
  <2>4. Cardinality(Before(a) \cup {a}) = Cardinality(Before(a)) + 1
    BY <2>1, <2>3, FS_AddElement
  <2>5. Cardinality(Before(a) \cup {a}) <= Cardinality(Before(b))
    BY <2>1, <2>3, FS_Subset
  <2> QED
    BY <2>3, <2>4, <2>5, <2>6
<1>4. rank \in [Oldest(S, k) -> 0..(k - 1)]
  BY <1>2
<1> HIDE DEF rank
<1>5. ASSUME NEW a \in Oldest(S, k), NEW b \in Oldest(S, k), rank[a] = rank[b]
      PROVE  a = b
  <2>1. a \in Nat /\ b \in Nat
    BY <1>1
  <2>3. rank[a] \in 0..(k - 1) /\ rank[b] \in 0..(k - 1)
    BY <1>4
  <2>2. ~(a < b) /\ ~(b < a)
    BY <1>3, <1>5, <2>1, <2>3
  <2> QED
    BY <2>1, <2>2
<1>6. rank \in Injection(Oldest(S, k), 0..(k - 1))
  BY <1>4, <1>5 DEF Injection, IsInjective
<1>7. IsFiniteSet(0..(k - 1)) /\ Cardinality(0..(k - 1)) = k
  BY FS_Interval
<1> QED
  BY <1>6, <1>7, FS_Injection

(***************************************************************************)
(* What a step does to the rows.                                           *)
(***************************************************************************)
LEMMA CurrentListed ==
    ASSUME TypeOK, list # {}
    PROVE  Current \in list /\ Current \in Trans
BY MinTrans DEF TypeOK, Current

\* The new row, or the rows of the key with one more.
NewRow(t) == [user |-> From[t], named |-> result.named, iface |-> Method[t],
              known |-> result.known, time |-> createTime, count |-> 1]

LEMMA NewRowType == ASSUME TypeOK, NEW t \in Trans PROVE NewRow(t) \in Rows
<1>1. /\ From[t] \in Users /\ Method[t] \in Methods /\ createTime \in Nat
      /\ result.named \in BOOLEAN /\ result.known \in BOOLEAN
  BY TransMonitorAssumption DEF TypeOK
<1> QED
  BY <1>1 DEF NewRow, Rows

LEMMA WriteUpdates ==
    ASSUME TypeOK, NEW t \in Trans, Write(t), result.found
    PROVE  /\ lastRow' = lastRow /\ DOMAIN rows' = DOMAIN rows
           /\ rows' \in [DOMAIN rows -> Rows]
           /\ Reached(t) \subseteq DOMAIN rows
           /\ home' = [home EXCEPT ![t] = @ \cup Reached(t)]
           /\ \A i \in DOMAIN rows :
                 /\ rows'[i].count = rows[i].count + (IF i \in Reached(t) THEN 1 ELSE 0)
                 /\ rows'[i].user = rows[i].user /\ rows'[i].named = rows[i].named
                 /\ rows'[i].iface = rows[i].iface /\ rows'[i].known = rows[i].known
                 /\ rows'[i].time = rows[i].time
<1>1. /\ lastRow' = lastRow /\ home' = [home EXCEPT ![t] = @ \cup Reached(t)]
      /\ rows' = [i \in DOMAIN rows |->
                    IF i \in Reached(t) THEN [rows[i] EXCEPT !.count = @ + 1]
                    ELSE rows[i]]
  BY DEF Write
<1>2. ASSUME NEW i \in DOMAIN rows
      PROVE  /\ rows'[i] \in Rows
             /\ rows'[i].count = rows[i].count + (IF i \in Reached(t) THEN 1 ELSE 0)
             /\ rows'[i].user = rows[i].user /\ rows'[i].named = rows[i].named
             /\ rows'[i].iface = rows[i].iface /\ rows'[i].known = rows[i].known
             /\ rows'[i].time = rows[i].time
  <2>1. rows[i] \in Rows
    BY DEF TypeOK
  <2>2. CASE i \in Reached(t)
    <3>1. rows'[i] = [rows[i] EXCEPT !.count = @ + 1]
      BY <1>1, <2>2
    <3> QED
      BY <2>1, <2>2, <3>1 DEF Rows
  <2>3. CASE i \notin Reached(t)
    <3>1. rows'[i] = rows[i]
      BY <1>1, <2>3
    <3> QED
      BY <2>1, <2>3, <3>1 DEF Rows
  <2> QED
    BY <2>2, <2>3
<1>3. DOMAIN rows' = DOMAIN rows /\ rows' \in [DOMAIN rows -> Rows]
  BY <1>1, <1>2
<1> QED
  BY <1>1, <1>2, <1>3 DEF Reached

LEMMA WriteInserts ==
    ASSUME TypeOK, NEW t \in Trans, Write(t), ~result.found
    PROVE  /\ lastRow' = lastRow + 1 /\ lastRow' \notin DOMAIN rows
           /\ DOMAIN rows' = DOMAIN rows \cup {lastRow'}
           /\ rows' \in [DOMAIN rows' -> Rows]
           /\ home' = [home EXCEPT ![t] = @ \cup {lastRow'}]
           /\ \A i \in DOMAIN rows : rows'[i] = rows[i] /\ i # lastRow'
           /\ rows'[lastRow'] = NewRow(t)
<1>1. /\ lastRow' = lastRow + 1 /\ home' = [home EXCEPT ![t] = @ \cup {lastRow'}]
      /\ rows' = [i \in DOMAIN rows \cup {lastRow'} |->
                    IF i # lastRow' THEN rows[i] ELSE NewRow(t)]
  BY DEF Write, NewRow
<1>2. lastRow' \notin DOMAIN rows
  BY <1>1 DEF TypeOK
<1>3. NewRow(t) \in Rows /\ \A i \in DOMAIN rows : rows[i] \in Rows
  BY NewRowType DEF TypeOK
<1> QED
  BY <1>1, <1>2, <1>3

LEMMA WriteType ==
    ASSUME TypeOK, NEW t \in Trans, Write(t)
    PROVE  /\ lastRow' \in Nat /\ DOMAIN rows' \subseteq 1..lastRow'
           /\ rows' \in [DOMAIN rows' -> Rows]
           /\ home' \in [Trans -> SUBSET (1..lastRow')]
<1>1. /\ lastRow \in Nat /\ DOMAIN rows \subseteq 1..lastRow
      /\ home \in [Trans -> SUBSET (1..lastRow)]
  BY DEF TypeOK
<1>2. CASE result.found
  BY <1>1, <1>2, WriteUpdates
<1>3. CASE ~result.found
  <2>1. /\ lastRow' = lastRow + 1 /\ DOMAIN rows' = DOMAIN rows \cup {lastRow'}
        /\ rows' \in [DOMAIN rows' -> Rows]
        /\ home' = [home EXCEPT ![t] = @ \cup {lastRow'}]
    BY <1>3, WriteInserts
  <2>2. 1..lastRow \subseteq 1..lastRow' /\ lastRow' \in 1..lastRow' /\ lastRow' \in Nat
    BY <1>1, <2>1
  <2>3. home \in [Trans -> SUBSET (1..lastRow')]
    BY <1>1, <2>2
  <2> QED
    BY <1>1, <2>1, <2>2, <2>3
<1> QED
  BY <1>2, <1>3

\* The other steps insert and count nothing; they rename rows or remove some.
RowsKept ==
    /\ UNCHANGED <<lastRow, home>>
    /\ DOMAIN rows' \subseteq DOMAIN rows
    /\ rows' \in [DOMAIN rows' -> Rows]
    /\ \A i \in DOMAIN rows' :
          /\ rows'[i].user = rows[i].user /\ rows'[i].time = rows[i].time
          /\ rows'[i].count = rows[i].count
          /\ rows[i].named => rows'[i].named

LEMMA SameRows == TypeOK /\ UNCHANGED <<rows, lastRow, home>> => RowsKept
BY DEF TypeOK, RowsKept

LEMMA AddUserRows == ASSUME TypeOK, NEW u \in Users, AddUser(u) PROVE RowsKept
<1>1. /\ UNCHANGED <<lastRow, home>>
      /\ rows' = [i \in DOMAIN rows |-> IF rows[i].user = u
                                         THEN [rows[i] EXCEPT !.named = TRUE] ELSE rows[i]]
  BY DEF AddUser
<1>2. ASSUME NEW i \in DOMAIN rows
      PROVE  /\ rows'[i].user = rows[i].user /\ rows'[i].time = rows[i].time
             /\ rows'[i].count = rows[i].count /\ rows'[i] \in Rows
             /\ rows[i].named => rows'[i].named
  <2>1. rows[i] \in Rows
    BY DEF TypeOK
  <2>2. rows'[i] = IF rows[i].user = u THEN [rows[i] EXCEPT !.named = TRUE] ELSE rows[i]
    BY <1>1
  <2>3. CASE rows[i].user = u
    BY <2>1, <2>2, <2>3 DEF Rows
  <2>4. CASE rows[i].user # u
    BY <2>1, <2>2, <2>4 DEF Rows
  <2> QED
    BY <2>3, <2>4
<1>3. DOMAIN rows' = DOMAIN rows
  BY <1>1
<1>4. rows' \in [DOMAIN rows' -> Rows]
  BY <1>1, <1>2, <1>3
<1> QED
  BY <1>1, <1>2, <1>3, <1>4 DEF RowsKept

LEMMA RenameRows == ASSUME TypeOK, UpdateUnusualContract PROVE RowsKept
<1>1. /\ UNCHANGED <<lastRow, home>>
      /\ rows' = [i \in DOMAIN rows |->
                    IF rows[i].known THEN rows[i]
                    ELSE [rows[i] EXCEPT !.known = TRUE, !.iface = iface]]
  BY DEF UpdateUnusualContract
<1>2. ASSUME NEW i \in DOMAIN rows
      PROVE  /\ rows'[i].user = rows[i].user /\ rows'[i].time = rows[i].time
             /\ rows'[i].count = rows[i].count /\ rows'[i] \in Rows
             /\ rows[i].named => rows'[i].named
  <2>1. rows[i] \in Rows /\ iface \in Methods
    BY DEF TypeOK
  <2>2. rows'[i] = IF rows[i].known THEN rows[i]
                   ELSE [rows[i] EXCEPT !.known = TRUE, !.iface = iface]
    BY <1>1
  <2>3. CASE rows[i].known
    BY <2>1, <2>2, <2>3 DEF Rows
  <2>4. CASE ~rows[i].known
    BY <2>1, <2>2, <2>4 DEF Rows
  <2> QED
    BY <2>3, <2>4
<1>3. DOMAIN rows' = DOMAIN rows
  BY <1>1
<1>4. rows' \in [DOMAIN rows' -> Rows]
  BY <1>1, <1>2, <1>3
<1> QED
  BY <1>1, <1>2, <1>3, <1>4 DEF RowsKept

LEMMA DeleteRows ==
    ASSUME TypeOK, DeleteTransMonitor
    PROVE  RowsKept /\ \A i \in DOMAIN rows' : rows'[i] = rows[i]
<1>1. PICK kept \in SUBSET DOMAIN rows : rows' = Restrict(rows, kept)
  BY DEF DeleteTransMonitor
<1>2. UNCHANGED <<lastRow, home>>
  BY DEF DeleteTransMonitor
<1>3. DOMAIN rows' = kept /\ \A i \in kept : rows'[i] = rows[i]
  BY <1>1 DEF Restrict
<1>4. \A i \in DOMAIN rows : rows[i] \in Rows
  BY DEF TypeOK
<1>5. rows' \in [DOMAIN rows' -> Rows]
  BY <1>1, <1>3, <1>4 DEF Restrict
<1> QED
  BY <1>2, <1>3, <1>5 DEF RowsKept

LEMMA OtherRows ==
    ASSUME TypeOK, [Next]_vars, ~\E t \in Trans : DataAddAndUpdate(t)
    PROVE  RowsKept
<1>1. CASE \E u \in Users : AddUser(u)
  BY <1>1, AddUserRows
<1>2. CASE UpdateUnusualContract
  BY <1>2, RenameRows
<1>3. CASE DeleteTransMonitor
  BY <1>3, DeleteRows
<1>4. CASE ~((\E u \in Users : AddUser(u)) \/ UpdateUnusualContract \/ DeleteTransMonitor)
  <2>1. UNCHANGED <<rows, lastRow, home>>
    BY <1>4 DEF Next, Audit, vars, monitor, StartMonitor, QueryUnStat, CheckUnusualMax,
       NextTrans, EndList, JumpOver, Crash, Pull, MonitorUser, MonitorContract,
       QueryTbMonitor, SaveContract, QueryUnusualTxhash, UpdateUnusualFails,
       DailyAdvances, CountTrans, RemoveTrans
  <2> QED
    BY <2>1, SameRows
<1> QED
  BY <1>1, <1>2, <1>3, <1>4

(***************************************************************************)
(* What a step does to the flags: only dataAddAndUpdate flags.             *)
(***************************************************************************)
FlagsKept ==
    /\ flag' \in [Trans -> {"none", "unstat", "stat", "gone"}]
    /\ \A t \in Trans : /\ flag[t] = "unstat" => flag'[t] = "unstat"
                        /\ flag'[t] \in {"stat", "gone"} <=> flag[t] \in {"stat", "gone"}

LEMMA OtherFlags ==
    ASSUME TypeOK, [Next]_vars, ~\E t \in Trans : DataAddAndUpdate(t)
    PROVE  FlagsKept
<1>1. flag \in [Trans -> {"none", "unstat", "stat", "gone"}]
  BY DEF TypeOK
<1>2. ASSUME NEW t \in Trans, Pull(t) PROVE FlagsKept
  BY <1>1, <1>2 DEF Pull, FlagsKept
<1>3. CASE RemoveTrans
  <2>1. PICK removed \in SUBSET {t \in Trans : flag[t] = "stat"} :
           flag' = [t \in Trans |-> IF t \in removed THEN "gone" ELSE flag[t]]
    BY <1>3 DEF RemoveTrans, Oldest
  <2> QED
    BY <1>1, <2>1 DEF FlagsKept
<1>4. CASE ~((\E t \in Trans : Pull(t)) \/ RemoveTrans)
  <2>1. UNCHANGED flag
    BY <1>4 DEF Next, Audit, vars, StartMonitor, QueryUnStat, CheckUnusualMax,
       NextTrans, EndList, JumpOver, Crash, MonitorUser, MonitorContract,
       QueryTbMonitor, AddUser, SaveContract, QueryUnusualTxhash,
       UpdateUnusualContract, UpdateUnusualFails, DailyAdvances, CountTrans,
       DeleteTransMonitor
  <2> QED
    BY <1>1, <2>1 DEF FlagsKept
<1> QED
  BY <1>2, <1>3, <1>4

(***************************************************************************)
(* Types.                                                                  *)
(***************************************************************************)
TablesOK ==
    /\ flag \in [Trans -> {"none", "unstat", "stat", "gone"}]
    /\ lastRow \in Nat
    /\ DOMAIN rows \subseteq 1..lastRow
    /\ rows \in [DOMAIN rows -> Rows]
    /\ home \in [Trans -> SUBSET (1..lastRow)]

NamesOK ==
    /\ daily \in 0..NumTx
    /\ users \subseteq Users
    /\ contract \in {"unknown", "saved", "renaming", "done"}
    /\ iface \in Methods
    /\ sub \in 0..NumTx
    /\ crashes \in 0..MaxCrash
    /\ disturbed \in BOOLEAN
    /\ stale \in BOOLEAN

AuditOK ==
    /\ pc \in {"idle", "query", "max", "trans", "user", "contract", "row", "write"}
    /\ list \subseteq Trans
    /\ Auditing => list # {}
    /\ createTime \in Nat
    /\ result \in [named : BOOLEAN, known : BOOLEAN, found : BOOLEAN]

LEMMA TypeParts == TypeOK <=> TablesOK /\ NamesOK /\ AuditOK
BY DEF TypeOK, TablesOK, NamesOK, AuditOK

LEMMA TypeInit == Init => TypeOK
<1> SUFFICES ASSUME Init PROVE TypeOK
  OBVIOUS
<1>2. TablesOK
  BY DEF Init, TablesOK
<1>3. AuditOK
  BY DEF Init, AuditOK, Auditing
<1>4. NamesOK
  <2>1. (CHOOSE m \in Methods : TRUE) \in Methods
    BY TransMonitorAssumption
  <2>2. iface \in Methods
    BY <2>1 DEF Init
  <2>3. NumTx \in Nat /\ MaxCrash \in Nat
    BY TransMonitorAssumption
  <2>4. /\ daily = 0 /\ users = {} /\ contract = "unknown" /\ sub = 0 /\ crashes = 0
        /\ disturbed = FALSE /\ stale = FALSE
    BY DEF Init
  <2>5. 0 \in 0..NumTx /\ 0 \in 0..MaxCrash
    BY <2>3
  <2>6. /\ daily \in 0..NumTx /\ sub \in 0..NumTx /\ crashes \in 0..MaxCrash
        /\ disturbed \in BOOLEAN /\ stale \in BOOLEAN
    BY <2>4, <2>5, Zenon
  <2> QED
    BY <2>2, <2>4, <2>6 DEF NamesOK
<1> QED
  BY <1>2, <1>3, <1>4, TypeParts

LEMMA TypeNext == TypeOK /\ [Next]_vars => TypeOK'
<1> SUFFICES ASSUME TypeOK, [Next]_vars PROVE TypeOK'
  OBVIOUS
<1>1. TablesOK /\ NamesOK /\ AuditOK
  BY TypeParts
<1>2. TablesOK'
  <2>1. ASSUME NEW t \in Trans, DataAddAndUpdate(t) PROVE TablesOK'
    <3>1. Write(t) /\ flag' = [flag EXCEPT ![t] = "stat"]
      BY <2>1 DEF DataAddAndUpdate
    <3>2. flag' \in [Trans -> {"none", "unstat", "stat", "gone"}]
      BY <1>1, <3>1 DEF TablesOK
    <3> QED
      BY <3>1, <3>2, WriteType DEF TablesOK
  <2>2. CASE ~\E t \in Trans : DataAddAndUpdate(t)
    BY <1>1, <2>2, OtherRows, OtherFlags DEF TablesOK, RowsKept, FlagsKept
  <2> QED
    BY <2>1, <2>2
<1>3. NamesOK'
  <2>1. CASE CountTrans
    <3>1. InTable \in SUBSET Trans /\ TransRetain \in Nat
      BY TransMonitorAssumption DEF InTable
    <3>2. Cardinality(InTable) <= NumTx /\ Cardinality(InTable) \in Nat /\ NumTx \in Nat
      BY <3>1, TransFinite, FS_Subset, TransMonitorAssumption
    <3>3. sub' \in 0..NumTx
      BY <2>1, <3>1, <3>2 DEF CountTrans
    <3> QED
      BY <1>1, <2>1, <3>3 DEF CountTrans, NamesOK, monitor, names
  <2>2. CASE Crash
    BY <1>1, <2>2, TransMonitorAssumption DEF Crash, NamesOK, monitor
  <2>3. CASE QueryUnusualTxhash
    <3>1. iface' \in Methods
      <4>1. CASE UNCHANGED iface
        BY <1>1, <4>1 DEF NamesOK
      <4>2. ASSUME NEW i \in DOMAIN rows, iface' = rows[i].iface PROVE iface' \in Methods
        BY <1>1, <4>2 DEF TablesOK, Rows
      <4> QED
        BY <2>3, <4>1, <4>2 DEF QueryUnusualTxhash
    <3> QED
      BY <1>1, <2>3, <3>1 DEF QueryUnusualTxhash, NamesOK, monitor
  <2>4. ASSUME NEW u \in Users, AddUser(u) PROVE NamesOK'
    BY <1>1, <2>4 DEF AddUser, NamesOK
  <2>5. CASE UpdateUnusualContract
    BY <1>1, <2>5 DEF UpdateUnusualContract, NamesOK
  <2>6. CASE DeleteTransMonitor
    BY <1>1, <2>6 DEF DeleteTransMonitor, NamesOK, names
  <2>7. CASE DailyAdvances
    BY <1>1, <2>7 DEF DailyAdvances, NamesOK, names, monitor, Trans
  <2>8. CASE SaveContract \/ UpdateUnusualFails \/ RemoveTrans
    BY <1>1, <2>8, TransMonitorAssumption
       DEF SaveContract, UpdateUnusualFails, RemoveTrans, NamesOK, names, monitor
  <2>9. CASE UNCHANGED <<daily, names, sub, crashes, disturbed, stale>>
    BY <1>1, <2>9 DEF NamesOK, names
  <2> QED
    BY <2>1, <2>2, <2>3, <2>4, <2>5, <2>6, <2>7, <2>8, <2>9
       DEF Next, Audit, vars, monitor, names, StartMonitor, QueryUnStat, CheckUnusualMax,
           NextTrans, EndList, JumpOver, Pull, MonitorUser, MonitorContract,
           QueryTbMonitor, DataAddAndUpdate
<1>4. AuditOK'
  <2>1. CASE QueryUnStat
    <3>1. Oldest(UnStat, ListLimit) \subseteq Trans
      BY DEF Oldest, UnStat
    <3> QED
      BY <1>1, <2>1, <3>1 DEF QueryUnStat, AuditOK, Auditing
  <2>2. CASE NextTrans
    <3>1. Stamp[Current] \in Nat
      BY <2>2, CurrentListed, TransMonitorAssumption DEF NextTrans
    <3> QED
      BY <1>1, <2>2, <3>1 DEF NextTrans, AuditOK, Auditing
  <2>3. ASSUME NEW t \in Trans, MonitorUser(t) \/ MonitorContract(t) \/ QueryTbMonitor(t)
        PROVE  AuditOK'
    <3>1. \/ result' = [result EXCEPT !.named = From[t] \in users]
          \/ result' = [result EXCEPT !.known = contract # "unknown"]
          \/ result' = [result EXCEPT !.found = \E i \in DOMAIN rows : Key(rows[i]) = KeyOf(t)]
      BY <2>3 DEF MonitorUser, MonitorContract, QueryTbMonitor
    <3>2. result' \in [named : BOOLEAN, known : BOOLEAN, found : BOOLEAN]
      <4> DEFINE Results == [named : BOOLEAN, known : BOOLEAN, found : BOOLEAN]
      <4>1. ASSUME NEW b \in BOOLEAN
            PROVE  /\ [result EXCEPT !.named = b] \in Results
                   /\ [result EXCEPT !.known = b] \in Results
                   /\ [result EXCEPT !.found = b] \in Results
        BY <1>1 DEF AuditOK
      <4>2. /\ (From[t] \in users) \in BOOLEAN /\ (contract # "unknown") \in BOOLEAN
            /\ (\E i \in DOMAIN rows : Key(rows[i]) = KeyOf(t)) \in BOOLEAN
        OBVIOUS
      <4> QED
        BY <3>1, <4>1, <4>2
    <3> QED
      BY <1>1, <2>3, <3>2
         DEF MonitorUser, MonitorContract, QueryTbMonitor, AuditOK, Auditing
  <2>4. ASSUME NEW t \in Trans, DataAddAndUpdate(t) PROVE AuditOK'
    BY <1>1, <2>4 DEF DataAddAndUpdate, AuditOK, Auditing
  <2>5. CASE StartMonitor \/ CheckUnusualMax \/ EndList \/ JumpOver \/ Crash
    BY <1>1, <2>5
       DEF StartMonitor, CheckUnusualMax, EndList, JumpOver, Crash, AuditOK, Auditing
  <2>6. CASE UNCHANGED audit
    BY <1>1, <2>6 DEF audit, AuditOK, Auditing
  <2> QED
    BY <2>1, <2>2, <2>3, <2>4, <2>5, <2>6
       DEF Next, Audit, vars, audit, Pull, AddUser, SaveContract, QueryUnusualTxhash,
           UpdateUnusualContract, UpdateUnusualFails, DailyAdvances, CountTrans,
           RemoveTrans, DeleteTransMonitor
<1> QED
  BY <1>2, <1>3, <1>4, TypeParts, PTL

\* Rows, flags and what the audit holds keep their types; Min is only taken of a
\* list that has members, since a step of the analysis always has a transaction.
THEOREM AuditTypeCorrect == Spec => []TypeOK
BY TypeInit, TypeNext, PTL DEF Spec

(***************************************************************************)
(* Counts.  What the audit has on its list is not flagged, even a list     *)
(* that a restart has left behind: so the transaction it writes has not    *)
(* been counted before.                                                    *)
(***************************************************************************)
Waiting == list \subseteq UnStat

LEMMA WaitingNext ==
    ASSUME TypeOK, Waiting, [Next]_vars
    PROVE  Waiting'
<1>1. ASSUME NEW t \in Trans, DataAddAndUpdate(t) PROVE Waiting'
  <2>1. t = Current /\ flag' = [flag EXCEPT ![t] = "stat"] /\ list' = list \ {Current}
    BY <1>1 DEF DataAddAndUpdate
  <2> QED
    BY <2>1 DEF Waiting, UnStat, TypeOK
<1>2. CASE QueryUnStat
  <2>1. list' \subseteq UnStat /\ flag' = flag
    BY <1>2 DEF QueryUnStat, Oldest
  <2> QED
    BY <2>1 DEF Waiting, UnStat
<1>3. CASE ~QueryUnStat /\ ~\E t \in Trans : DataAddAndUpdate(t)
  <2>1. FlagsKept
    BY <1>3, OtherFlags
  <2>2. list' \subseteq list
    BY <1>3 DEF Next, Audit, vars, audit, StartMonitor, CheckUnusualMax, NextTrans,
       EndList, JumpOver, Crash, Pull, MonitorUser, MonitorContract, QueryTbMonitor,
       AddUser, SaveContract, QueryUnusualTxhash, UpdateUnusualContract,
       UpdateUnusualFails, DailyAdvances, CountTrans, RemoveTrans, DeleteTransMonitor
  <2> QED
    BY <2>1, <2>2 DEF Waiting, UnStat, FlagsKept
<1> QED
  BY <1>1, <1>2, <1>3

\* The transaction that is written: on the list, hence neither flagged nor counted.
LEMMA WrittenIsNew ==
    ASSUME TypeOK, Waiting, \A s \in Trans \ Counted : home[s] = {},
           NEW t \in Trans, DataAddAndUpdate(t)
    PROVE  /\ t = Current /\ t \in list /\ t \notin Counted /\ home[t] = {} /\ Write(t)
           /\ flag' = [flag EXCEPT ![t] = "stat"] /\ Counted' = Counted \cup {t}
<1>1. /\ pc = "write" /\ t = Current /\ Write(t) /\ flag' = [flag EXCEPT ![t] = "stat"]
  BY DEF DataAddAndUpdate
<1>2. t \in list
  BY <1>1, CurrentListed DEF TypeOK, Auditing
<1>3. t \notin Counted
  BY <1>2 DEF Waiting, UnStat, Counted
<1>4. Counted' = Counted \cup {t}
  BY <1>1 DEF Counted, TypeOK
<1> QED
  BY <1>1, <1>2, <1>3, <1>4

RowsAddUp ==
    /\ \A i \in DOMAIN rows : rows[i].count = Cardinality(CountedIn(i))
    /\ \A t \in Trans \ Counted : home[t] = {}

LEMMA RowsAddUpNext ==
    ASSUME TypeOK, Waiting, RowsAddUp, [Next]_vars
    PROVE  RowsAddUp'
<1>1. ASSUME NEW t \in Trans, DataAddAndUpdate(t) PROVE RowsAddUp'
  <2>1. t \notin Counted /\ home[t] = {} /\ Write(t) /\ Counted' = Counted \cup {t}
    BY <1>1, WrittenIsNew DEF RowsAddUp
  <2>2. /\ home \in [Trans -> SUBSET (1..lastRow)] /\ lastRow \in Nat
        /\ \A i \in DOMAIN rows : rows[i] \in Rows /\ rows[i].count \in Nat
    BY DEF TypeOK, Rows
  <2>3. \A i : IsFiniteSet(CountedIn(i)) /\ t \notin CountedIn(i)
    BY <2>1, TransFinite DEF CountedIn
  <2>4. \A s \in Trans \ Counted' : home'[s] = {}
    BY <2>1, <2>2, WriteUpdates, WriteInserts DEF RowsAddUp
  <2>5. ASSUME NEW i \in DOMAIN rows' PROVE rows'[i].count = Cardinality(CountedIn(i)')
    <3>1. CASE result.found
      <4>1. /\ i \in DOMAIN rows /\ home' = [home EXCEPT ![t] = @ \cup Reached(t)]
            /\ rows'[i].count = rows[i].count + (IF i \in Reached(t) THEN 1 ELSE 0)
        BY <2>1, <2>5, <3>1, WriteUpdates
      <4>2. rows[i].count = Cardinality(CountedIn(i)) /\ rows[i].count \in Nat
        BY <2>2, <4>1 DEF RowsAddUp
      <4>3. CASE i \in Reached(t)
        <5>1. CountedIn(i)' = CountedIn(i) \cup {t}
          BY <2>2, <4>1, <4>3 DEF CountedIn
        <5>2. Cardinality(CountedIn(i) \cup {t}) = Cardinality(CountedIn(i)) + 1
          BY <2>3, FS_AddElement
        <5> QED
          BY <4>1, <4>2, <4>3, <5>1, <5>2
      <4>4. CASE i \notin Reached(t)
        <5>1. CountedIn(i)' = CountedIn(i)
          BY <2>1, <2>2, <4>1, <4>4 DEF CountedIn
        <5> QED
          BY <4>1, <4>2, <4>4, <5>1
      <4> QED
        BY <4>3, <4>4
    <3>2. CASE ~result.found
      <4>1. /\ home' = [home EXCEPT ![t] = @ \cup {lastRow'}] /\ lastRow' = lastRow + 1
            /\ i \in DOMAIN rows => rows'[i] = rows[i] /\ i # lastRow'
            /\ i \notin DOMAIN rows => i = lastRow' /\ rows'[i] = NewRow(t)
        BY <2>1, <2>5, <3>2, WriteInserts
      <4>5. NewRow(t).count = 1
        BY DEF NewRow
      <4>2. CASE i \in DOMAIN rows
        <5>1. CountedIn(i)' = CountedIn(i)
          BY <2>1, <2>2, <4>1, <4>2 DEF CountedIn
        <5> QED
          BY <4>1, <4>2, <5>1 DEF RowsAddUp
      <4>3. CASE i \notin DOMAIN rows
        <5>1. \A s \in Trans : lastRow' \notin home[s]
          BY <2>2, <4>1
        <5>2. CountedIn(i)' = {t}
          BY <2>2, <4>1, <4>3, <5>1 DEF CountedIn
        <5>3. Cardinality({t}) = 1
          BY FS_Singleton
        <5> QED
          BY <4>1, <4>3, <4>5, <5>2, <5>3
      <4> QED
        BY <4>2, <4>3
    <3> QED
      BY <3>1, <3>2
  <2> QED
    BY <2>4, <2>5 DEF RowsAddUp
<1>2. CASE ~\E t \in Trans : DataAddAndUpdate(t)
  <2>1. RowsKept /\ FlagsKept
    BY <1>2, OtherRows, OtherFlags
  <2>2. home' = home /\ Counted' = Counted
    BY <2>1 DEF RowsKept, FlagsKept, Counted
  <2>3. \A i : CountedIn(i)' = CountedIn(i)
    BY <2>2 DEF CountedIn
  <2> QED
    BY <2>1, <2>2, <2>3 DEF RowsAddUp, RowsKept
<1> QED
  BY <1>1, <1>2

(***************************************************************************)
(* While nothing disturbs it, the audit finds the row it is to update: no  *)
(* two rows have the same key, and what the query found is so still when   *)
(* the write comes.                                                        *)
(***************************************************************************)
Steady ==
    ~disturbed => /\ ~HasTwins(rows)
                  /\ pc = "write" => (result.found <=> Reached(Current) # {})
                  /\ FlaggedIsCounted

LEMMA SteadyWrite ==
    ASSUME TypeOK, Waiting, RowsAddUp, Steady, NEW t \in Trans, DataAddAndUpdate(t)
    PROVE  Steady'
<1> SUFFICES ASSUME ~disturbed' PROVE ~HasTwins(rows)' /\ FlaggedIsCounted'
  BY DEF Steady, DataAddAndUpdate
<1>1. ~disturbed /\ pc = "write" /\ t = Current
  BY DEF DataAddAndUpdate
<1>2. /\ ~HasTwins(rows) /\ FlaggedIsCounted
      /\ result.found <=> Reached(t) # {}
  BY <1>1 DEF Steady
<1>3. home[t] = {} /\ Write(t) /\ Counted' = Counted \cup {t}
  BY WrittenIsNew DEF RowsAddUp
<1>4. /\ lastRow \in Nat /\ DOMAIN rows \subseteq 1..lastRow
      /\ home \in [Trans -> SUBSET (1..lastRow)] /\ Counted \subseteq Trans
  BY DEF TypeOK, Counted
<1>5. CASE result.found
  <2>1. /\ lastRow' = lastRow /\ DOMAIN rows' = DOMAIN rows
        /\ home' = [home EXCEPT ![t] = @ \cup Reached(t)]
        /\ Reached(t) \subseteq DOMAIN rows
        /\ \A i \in DOMAIN rows : Key(rows'[i]) = Key(rows[i])
    BY <1>3, <1>5, WriteUpdates DEF Key
  <2>2. ~HasTwins(rows)'
    BY <1>2, <2>1 DEF HasTwins
  <2>3. PICK i \in DOMAIN rows : Reached(t) = {i}
    <3>1. PICK i \in Reached(t) : TRUE
      BY <1>2, <1>5
    <3>2. \A j \in Reached(t) : j = i
      BY <1>2, <3>1 DEF HasTwins, Reached
    <3> QED
      BY <2>1, <3>1, <3>2
  <2>4. home'[t] = {i} /\ \A s \in Trans : s # t => home'[s] = home[s]
    BY <1>3, <1>4, <2>1, <2>3
  <2>5. FlaggedIsCounted'
    BY <1>2, <1>3, <1>4, <2>1, <2>3, <2>4 DEF FlaggedIsCounted
  <2> QED
    BY <2>2, <2>5
<1>6. CASE ~result.found
  <2>1. /\ lastRow' = lastRow + 1 /\ lastRow' \notin DOMAIN rows
        /\ DOMAIN rows' = DOMAIN rows \cup {lastRow'}
        /\ home' = [home EXCEPT ![t] = @ \cup {lastRow'}]
        /\ \A i \in DOMAIN rows : rows'[i] = rows[i] /\ i # lastRow'
        /\ rows'[lastRow'] = NewRow(t)
    BY <1>3, <1>6, WriteInserts
  <2>2. Key(rows'[lastRow']) = KeyOf(t)
    BY <2>1 DEF NewRow, Key, KeyOf
  <2>3. \A i \in DOMAIN rows : Key(rows'[i]) # KeyOf(t) /\ Key(rows'[i]) = Key(rows[i])
    BY <1>2, <1>6, <2>1 DEF Reached
  <2>4. ~HasTwins(rows)'
    BY <1>2, <2>1, <2>2, <2>3 DEF HasTwins
  <2>5. home'[t] = {lastRow'} /\ \A s \in Trans : s # t => home'[s] = home[s]
    BY <1>3, <1>4, <2>1
  <2>6. 1..lastRow \subseteq 1..lastRow' /\ lastRow' \in 1..lastRow'
    BY <1>4, <2>1
  <2>7. FlaggedIsCounted'
    BY <1>2, <1>3, <1>4, <2>5, <2>6 DEF FlaggedIsCounted
  <2> QED
    BY <2>4, <2>7
<1> QED
  BY <1>5, <1>6

\* A step that keeps the rows, and does not come to the write.
LEMMA SteadyKept ==
    ASSUME TypeOK, Steady, RowsKept, FlagsKept, ~disturbed' => ~disturbed,
           ~disturbed' => ~HasTwins(rows)',
           ~disturbed' /\ pc' = "write" => /\ pc = "write"
                                           /\ UNCHANGED <<rows, result, list, createTime>>
    PROVE  Steady'
<1>1. Counted' = Counted /\ home' = home /\ lastRow' = lastRow
  BY DEF RowsKept, FlagsKept, Counted
<1>2. ~disturbed' => FlaggedIsCounted'
  BY <1>1 DEF Steady, FlaggedIsCounted
<1>3. ~disturbed' /\ pc' = "write" => (result.found' <=> Reached(Current)' # {})
  BY DEF Steady, Reached, Current, Key, KeyOf
<1> QED
  BY <1>2, <1>3 DEF Steady

LEMMA SteadyNext ==
    ASSUME TypeOK, Waiting, RowsAddUp, Steady, [Next]_vars
    PROVE  Steady'
<1>1. CASE \E t \in Trans : DataAddAndUpdate(t)
  BY <1>1, SteadyWrite
<1>2. ASSUME ~\E t \in Trans : DataAddAndUpdate(t) PROVE Steady'
  <2>1. RowsKept /\ FlagsKept
    BY <1>2, OtherRows, OtherFlags
  <2>2. ASSUME NEW t \in Trans, QueryTbMonitor(t) PROVE Steady'
    <3>1. /\ t = Current /\ pc' = "write" /\ UNCHANGED <<rows, home, lastRow, flag, list,
                                                        createTime, disturbed>>
          /\ result' = [result EXCEPT !.found =
                           \E i \in DOMAIN rows : Key(rows[i]) = KeyOf(t)]
      BY <2>2 DEF QueryTbMonitor, monitor
    <3>2. /\ result'.named = result.named /\ result'.known = result.known
          /\ result'.found <=> Reached(t) # {}
      BY <3>1 DEF TypeOK, Reached
    <3>3. Reached(Current)' = Reached(t)
      BY <3>1, <3>2 DEF Reached, Current, KeyOf
    <3> QED
      BY <3>1, <3>2, <3>3 DEF Steady, HasTwins, FlaggedIsCounted, Counted
  <2>3. CASE (\E u \in Users : AddUser(u)) \/ UpdateUnusualContract
    <3>1. /\ disturbed' = (disturbed \/ HasTwins(rows') \/ (pc = "write" /\ rows' # rows))
          /\ UNCHANGED <<pc, result, list, createTime>>
      BY <2>3 DEF AddUser, UpdateUnusualContract, audit
    <3> QED
      BY <2>1, <3>1, SteadyKept
  <2>4. CASE DeleteTransMonitor
    <3>1. disturbed' = (disturbed \/ pc = "write") /\ pc' = pc
      BY <2>4 DEF DeleteTransMonitor, audit
    <3>2. DOMAIN rows' \subseteq DOMAIN rows /\ \A i \in DOMAIN rows' : rows'[i] = rows[i]
      BY <2>4, DeleteRows DEF RowsKept
    <3>3. HasTwins(rows') => HasTwins(rows)
      BY <3>2 DEF HasTwins
    <3> QED
      BY <2>1, <3>1, <3>3, SteadyKept DEF Steady
  <2>5. CASE ~(\/ \E t \in Trans : QueryTbMonitor(t)
               \/ (\E u \in Users : AddUser(u)) \/ UpdateUnusualContract
               \/ DeleteTransMonitor)
    <3>1. /\ UNCHANGED <<rows, disturbed>>
          /\ pc' = "write" => UNCHANGED <<pc, result, list, createTime>>
      BY <1>2, <2>5 DEF Next, Audit, vars, audit, monitor, StartMonitor, QueryUnStat,
         CheckUnusualMax, NextTrans, EndList, JumpOver, Crash, Pull, MonitorUser,
         MonitorContract, SaveContract, QueryUnusualTxhash, UpdateUnusualFails,
         DailyAdvances, CountTrans, RemoveTrans
    <3> QED
      BY <2>1, <3>1, SteadyKept DEF Steady, HasTwins
  <2> QED
    BY <2>2, <2>3, <2>4, <2>5
<1> QED
  BY <1>1, <1>2

CountsInv == TypeOK /\ Waiting /\ RowsAddUp /\ Steady

LEMMA CountsInvInit == Init => CountsInv
<1> SUFFICES ASSUME Init PROVE CountsInv
  OBVIOUS
<1>1. TypeOK
  BY TypeInit
<1>2. Waiting /\ RowsAddUp
  BY DEF Init, Waiting, RowsAddUp
<1>3. Steady
  BY DEF Init, Steady, HasTwins, FlaggedIsCounted, Counted
<1> QED
  BY <1>1, <1>2, <1>3 DEF CountsInv

\* Every transaction that is flagged is counted once, and only those: through
\* failures, restarts, clean-up and transactions that are analysed again, as long
\* as no renaming or clean-up comes between the two statements of the write or
\* makes two rows alike; and even then no row counts a transaction twice.
THEOREM CountsAlwaysAddUp == Spec => []CountsAddUp
<1>1. CountsInv /\ [Next]_vars => CountsInv'
  BY TypeNext, WaitingNext, RowsAddUpNext, SteadyNext DEF CountsInv
<1>2. CountsInv => CountsAddUp
  BY DEF CountsInv, RowsAddUp, Steady, CountsAddUp
<1> QED
  BY <1>1, <1>2, CountsInvInit, PTL DEF Spec

(***************************************************************************)
(* Days.  createTime is of the day of the transaction under analysis, and  *)
(* it is part of the key by which a row is found.                          *)
(***************************************************************************)
DayUnderWay == Auditing => DayOfYear(createTime) = DayOfYear(Stamp[Current])

LEMMA DayUnderWayNext == DayUnderWay /\ [Next]_vars => DayUnderWay'
<1> SUFFICES ASSUME DayUnderWay, [Next]_vars PROVE DayUnderWay'
  OBVIOUS
<1>1. CASE NextTrans
  <2>1. /\ Current' = Current
        /\ \/ createTime' = Stamp[Current]
           \/ createTime' = createTime /\ DayOfYear(createTime) = DayOfYear(Stamp[Current])
    BY <1>1 DEF NextTrans, Current
  <2>2. DayOfYear(createTime') = DayOfYear(Stamp[Current])
    BY <2>1
  <2> QED
    BY <2>1, <2>2 DEF DayUnderWay, DayOfYear
<1>2. CASE ~NextTrans
  <2>1. Auditing' => Auditing /\ UNCHANGED <<list, createTime>>
    BY <1>2 DEF Next, Audit, vars, audit, Auditing, StartMonitor, QueryUnStat,
       CheckUnusualMax, EndList, JumpOver, Crash, Pull, MonitorUser, MonitorContract,
       QueryTbMonitor, DataAddAndUpdate, AddUser, SaveContract, QueryUnusualTxhash,
       UpdateUnusualContract, UpdateUnusualFails, DailyAdvances, CountTrans,
       RemoveTrans, DeleteTransMonitor
  <2> QED
    BY <2>1 DEF DayUnderWay, Current, DayOfYear
<1> QED
  BY <1>1, <1>2

LEMMA RowsDayNext ==
    ASSUME TypeOK, DayUnderWay, RowsAreOfOneDay, [Next]_vars
    PROVE  RowsAreOfOneDay'
<1>1. ASSUME NEW t \in Trans, DataAddAndUpdate(t) PROVE RowsAreOfOneDay'
  <2>1. Write(t) /\ pc = "write" /\ t = Current
    BY <1>1 DEF DataAddAndUpdate
  <2>2. DayOfYear(createTime) = DayOfYear(Stamp[t])
    BY <2>1 DEF DayUnderWay, Auditing
  <2>3. /\ home \in [Trans -> SUBSET (1..lastRow)] /\ lastRow \in Nat
        /\ DOMAIN rows \subseteq 1..lastRow
    BY DEF TypeOK
  <2>4. ASSUME NEW i \in DOMAIN rows', NEW s \in Trans, i \in home'[s]
        PROVE  rows'[i].user = From[s] /\ DayOfYear(rows'[i].time) = DayOfYear(Stamp[s])
    <3>1. CASE result.found
      <4>1. /\ i \in DOMAIN rows /\ home' = [home EXCEPT ![t] = @ \cup Reached(t)]
            /\ rows'[i].user = rows[i].user /\ rows'[i].time = rows[i].time
        BY <2>1, <2>4, <3>1, WriteUpdates
      <4>2. CASE i \in home[s]
        BY <4>1, <4>2 DEF RowsAreOfOneDay, CountedIn
      <4>3. CASE i \notin home[s]
        <5>1. s = t /\ i \in Reached(t)
          BY <2>3, <2>4, <4>1, <4>3
        <5>2. Key(rows[i]) = KeyOf(t)
          BY <5>1 DEF Reached
        <5>3. rows[i].user = From[t] /\ rows[i].time = createTime
          BY <5>2 DEF Key, KeyOf
        <5> QED
          BY <2>2, <4>1, <5>1, <5>3
      <4> QED
        BY <4>2, <4>3
    <3>2. CASE ~result.found
      <4>1. /\ home' = [home EXCEPT ![t] = @ \cup {lastRow'}] /\ lastRow' = lastRow + 1
            /\ i \in DOMAIN rows => rows'[i] = rows[i] /\ i # lastRow'
            /\ i \notin DOMAIN rows => i = lastRow' /\ rows'[i] = NewRow(t)
        BY <2>1, <2>4, <3>2, WriteInserts
      <4>2. CASE i \in DOMAIN rows
        <5>1. i \in home[s]
          BY <2>3, <2>4, <4>1, <4>2
        <5> QED
          BY <4>1, <4>2, <5>1 DEF RowsAreOfOneDay, CountedIn
      <4>3. CASE i \notin DOMAIN rows
        <5>1. i \notin home[s]
          BY <2>3, <4>1, <4>3
        <5>2. s = t
          BY <2>3, <2>4, <4>1, <5>1
        <5>3. NewRow(t).user = From[t] /\ NewRow(t).time = createTime
          BY DEF NewRow
        <5> QED
          BY <2>2, <4>1, <4>3, <5>2, <5>3
      <4> QED
        BY <4>2, <4>3
    <3> QED
      BY <3>1, <3>2
  <2> QED
    BY <2>4 DEF RowsAreOfOneDay, CountedIn, DayOfYear
<1>2. CASE ~\E t \in Trans : DataAddAndUpdate(t)
  <2>1. RowsKept
    BY <1>2, OtherRows
  <2> QED
    BY <2>1 DEF RowsKept, RowsAreOfOneDay, CountedIn, DayOfYear
<1> QED
  BY <1>1, <1>2

DaysInv == TypeOK /\ DayUnderWay /\ RowsAreOfOneDay

\* Whatever fails, restarts or is renamed meanwhile, a row counts transactions of
\* one sender and one day.
THEOREM RowsKeepToOneDay == Spec => []RowsAreOfOneDay
<1>1. Init => DaysInv
  BY TypeInit DEF Init, DaysInv, DayUnderWay, Auditing, RowsAreOfOneDay
<1>2. DaysInv /\ [Next]_vars => DaysInv'
  BY TypeNext, DayUnderWayNext, RowsDayNext DEF DaysInv
<1>3. DaysInv => RowsAreOfOneDay
  BY DEF DaysInv
<1> QED
  BY <1>1, <1>2, <1>3, PTL DEF Spec

(***************************************************************************)
(* Users.  Unless a registration came after the audit had looked the       *)
(* sender up, what it is about to write still holds.                       *)
(***************************************************************************)
LookedUp ==
    ~stale => \/ pc \notin {"contract", "row", "write"}
              \/ result.named
              \/ From[Current] \notin users

UsersInv == TypeOK /\ LookedUp /\ UnusualIsUnregistered

LEMMA UnusualNext ==
    ASSUME UsersInv, [Next]_vars
    PROVE  LookedUp' /\ UnusualIsUnregistered'
<1>1. TypeOK /\ LookedUp /\ UnusualIsUnregistered
  BY DEF UsersInv
<1>2. ASSUME NEW t \in Trans, DataAddAndUpdate(t) PROVE LookedUp' /\ UnusualIsUnregistered'
  <2>1. /\ Write(t) /\ pc = "write" /\ pc' = "trans" /\ t = Current
        /\ UNCHANGED <<users, stale>>
    BY <1>2 DEF DataAddAndUpdate, names
  <2>2. ASSUME ~stale, NEW i \in DOMAIN rows', ~rows'[i].named
        PROVE  rows'[i].user \notin users
    <3>1. CASE result.found
      <4>1. /\ i \in DOMAIN rows /\ rows'[i].user = rows[i].user
            /\ rows'[i].named = rows[i].named
        BY <1>1, <2>1, <2>2, <3>1, WriteUpdates
      <4> QED
        BY <1>1, <2>2, <4>1 DEF UnusualIsUnregistered
    <3>2. CASE ~result.found
      <4>1. /\ i \in DOMAIN rows => rows'[i] = rows[i]
            /\ i \notin DOMAIN rows => rows'[i] = NewRow(t)
        BY <1>1, <2>1, <2>2, <3>2, WriteInserts
      <4>2. CASE i \in DOMAIN rows
        BY <1>1, <2>2, <4>1, <4>2 DEF UnusualIsUnregistered
      <4>3. CASE i \notin DOMAIN rows
        <5>1. NewRow(t).named = result.named /\ NewRow(t).user = From[t]
          BY DEF NewRow
        <5>2. From[t] \notin users
          BY <1>1, <2>1, <2>2, <4>1, <4>3, <5>1 DEF LookedUp
        <5> QED
          BY <4>1, <4>3, <5>1, <5>2
      <4> QED
        BY <4>2, <4>3
    <3> QED
      BY <3>1, <3>2
  <2> QED
    BY <2>1, <2>2 DEF LookedUp, UnusualIsUnregistered
<1>3. ASSUME NEW u \in Users, AddUser(u) PROVE LookedUp' /\ UnusualIsUnregistered'
  <2>1. /\ users' = users \cup {u}
        /\ stale' = (stale \/ (pc \in {"contract", "row", "write"} /\ From[Current] = u))
        /\ UNCHANGED <<pc, list, result>>
        /\ rows' = [i \in DOMAIN rows |-> IF rows[i].user = u
                                           THEN [rows[i] EXCEPT !.named = TRUE] ELSE rows[i]]
    BY <1>3 DEF AddUser, audit
  <2>2. LookedUp'
    BY <1>1, <2>1 DEF LookedUp, Current
  <2>3. ASSUME ~stale', NEW i \in DOMAIN rows', ~rows'[i].named
        PROVE  rows'[i].user \notin users'
    <3>1. i \in DOMAIN rows /\ rows[i] \in Rows
      BY <1>1, <2>1, <2>3 DEF TypeOK
    <3>2. rows[i].user # u
      <4>1. ASSUME rows[i].user = u PROVE FALSE
        <5>1. rows'[i] = [rows[i] EXCEPT !.named = TRUE]
          BY <2>1, <3>1, <4>1
        <5>2. rows'[i].named
          BY <3>1, <5>1 DEF Rows
        <5> QED
          BY <2>3, <5>2
      <4> QED
        BY <4>1
    <3>3. rows'[i] = rows[i]
      BY <2>1, <3>1, <3>2
    <3> QED
      BY <1>1, <2>1, <2>3, <3>1, <3>2, <3>3 DEF UnusualIsUnregistered
  <2> QED
    BY <2>2, <2>3 DEF UnusualIsUnregistered
<1>4. CASE ~((\E t \in Trans : DataAddAndUpdate(t)) \/ \E u \in Users : AddUser(u))
  <2>1. RowsKept
    BY <1>1, <1>4, OtherRows
  <2>2. UNCHANGED <<users, stale>>
    BY <1>4 DEF Next, Audit, vars, names, monitor, StartMonitor, QueryUnStat,
       CheckUnusualMax, NextTrans, EndList, JumpOver, Crash, Pull, MonitorUser,
       MonitorContract, QueryTbMonitor, SaveContract, QueryUnusualTxhash,
       UpdateUnusualContract, UpdateUnusualFails, DailyAdvances, CountTrans,
       RemoveTrans, DeleteTransMonitor
  <2>3. UnusualIsUnregistered'
    BY <1>1, <2>1, <2>2 DEF UnusualIsUnregistered, RowsKept
  <2>4. LookedUp'
    <3>1. ASSUME NEW t \in Trans, MonitorUser(t) PROVE LookedUp'
      <4>1. /\ t = Current /\ list' = list
            /\ result' = [result EXCEPT !.named = From[t] \in users]
        BY <3>1 DEF MonitorUser
      <4>2. result'.named <=> From[t] \in users
        BY <1>1, <4>1 DEF TypeOK
      <4> QED
        BY <2>2, <4>1, <4>2 DEF LookedUp, Current
    <3>2. ASSUME NEW t \in Trans, MonitorContract(t) \/ QueryTbMonitor(t) PROVE LookedUp'
      <4>1. list' = list /\ pc \in {"contract", "row", "write"}
        BY <3>2 DEF MonitorContract, QueryTbMonitor
      <4>2. result'.named = result.named
        BY <1>1, <3>2 DEF MonitorContract, QueryTbMonitor, TypeOK
      <4> QED
        BY <1>1, <2>2, <4>1, <4>2 DEF LookedUp, Current
    <3>3. CASE ~\E t \in Trans : MonitorUser(t) \/ MonitorContract(t) \/ QueryTbMonitor(t)
      <4>1. \/ pc' \notin {"contract", "row", "write"}
            \/ UNCHANGED <<pc, list, result>>
        BY <1>4, <3>3 DEF Next, Audit, vars, audit, StartMonitor, QueryUnStat,
           CheckUnusualMax, NextTrans, EndList, JumpOver, Crash, Pull, SaveContract,
           QueryUnusualTxhash, UpdateUnusualContract, UpdateUnusualFails,
           DailyAdvances, CountTrans, RemoveTrans, DeleteTransMonitor
      <4> QED
        BY <1>1, <2>2, <4>1 DEF LookedUp, Current
    <3> QED
      BY <3>1, <3>2, <3>3
  <2> QED
    BY <2>3, <2>4
<1> QED
  BY <1>2, <1>3, <1>4

\* Once a user is registered it has no abnormal row, whichever of the audit and
\* the registration came first, unless the audit was in the middle of one of its
\* transactions.
THEOREM UnusualStaysUnregistered == Spec => []UnusualIsUnregistered
<1>1. Init => UsersInv
  BY TypeInit DEF Init, UsersInv, LookedUp, UnusualIsUnregistered
<1>2. UsersInv /\ [Next]_vars => UsersInv'
  BY TypeNext, UnusualNext DEF UsersInv
<1>3. UsersInv => UnusualIsUnregistered
  BY DEF UsersInv
<1> QED
  BY <1>1, <1>2, <1>3, PTL DEF Spec

(***************************************************************************)
(* Clean-up.  Between its two statements the table only grows.             *)
(***************************************************************************)
Surplus == sub > 0 => Cardinality(InTable) - sub >= TransRetain

CleanInv == TypeOK /\ Surplus

LEMMA InTableFacts ==
    /\ InTable \in SUBSET Trans /\ IsFiniteSet(InTable) /\ Cardinality(InTable) \in Nat
    /\ InTable' \in SUBSET Trans /\ IsFiniteSet(InTable') /\ Cardinality(InTable') \in Nat
    /\ InTable \subseteq InTable' => Cardinality(InTable) <= Cardinality(InTable')
<1>1. InTable \in SUBSET Trans /\ InTable' \in SUBSET Trans
  BY DEF InTable
<1>2. /\ IsFiniteSet(InTable) /\ Cardinality(InTable) \in Nat
      /\ IsFiniteSet(InTable') /\ Cardinality(InTable') \in Nat
  BY <1>1, TransFinite
<1>3. ASSUME InTable \subseteq InTable' PROVE Cardinality(InTable) <= Cardinality(InTable')
  BY <1>2, <1>3, FS_Subset
<1> QED
  BY <1>1, <1>2, <1>3

LEMMA RemoveKeeps ==
    ASSUME CleanInv, RemoveTrans
    PROVE  /\ \A t \in Trans : flag[t] # "gone" /\ flag'[t] = "gone" => flag[t] = "stat"
           /\ Cardinality(InTable') >= TransRetain
<1> DEFINE old == {t \in Trans : flag[t] = "stat" /\ t <= daily}
           removed == Oldest(old, sub)
<1>1. /\ sub > 0 /\ sub \in Nat
      /\ flag' = [t \in Trans |-> IF t \in removed THEN "gone" ELSE flag[t]]
  BY DEF RemoveTrans, CleanInv, TypeOK
<1>2. old \in SUBSET Trans /\ removed \subseteq old
  BY DEF Oldest
<1>3. IsFiniteSet(removed) /\ Cardinality(removed) <= sub
  BY <1>1, <1>2, OldestCount
<1> HIDE DEF removed
<1>4. removed \in SUBSET InTable
  BY <1>2 DEF InTable
<1> HIDE DEF old
<1>5. InTable' = InTable \ removed
  BY <1>1, <1>2 DEF InTable
<1>6. Cardinality(InTable') = Cardinality(InTable) - Cardinality(removed)
  <2>1. InTable \cap removed = removed
    BY <1>4
  <2>2. Cardinality(InTable \ removed) = Cardinality(InTable) - Cardinality(InTable \cap removed)
    BY InTableFacts, FS_Difference
  <2> QED
    BY <1>5, <2>1, <2>2
<1>7. Cardinality(InTable) - sub >= TransRetain
  BY <1>1 DEF CleanInv, Surplus
<1>8. /\ Cardinality(removed) \in Nat /\ Cardinality(InTable) \in Nat
      /\ Cardinality(InTable') \in Nat /\ TransRetain \in Nat
  BY <1>3, FS_CardinalityType, InTableFacts, TransMonitorAssumption
<1>9. Cardinality(InTable') >= TransRetain
  BY <1>1, <1>3, <1>6, <1>7, <1>8
<1>10. \A t \in removed : flag[t] = "stat"
  BY <1>2 DEF old
<1> QED
  BY <1>1, <1>9, <1>10

LEMMA OnlyRemoveTakes ==
    ASSUME TypeOK, [Next]_vars, ~RemoveTrans
    PROVE  InTable \subseteq InTable' /\ \A t \in Trans : flag'[t] = "gone" => flag[t] = "gone"
<1>1. ASSUME NEW t \in Trans, Pull(t)
      PROVE  InTable \subseteq InTable' /\ \A s \in Trans : flag'[s] = "gone" => flag[s] = "gone"
  BY <1>1 DEF Pull, InTable, TypeOK
<1>2. ASSUME NEW t \in Trans, DataAddAndUpdate(t)
      PROVE  InTable \subseteq InTable' /\ \A s \in Trans : flag'[s] = "gone" => flag[s] = "gone"
  BY <1>2 DEF DataAddAndUpdate, InTable, TypeOK
<1>3. CASE ~\E t \in Trans : Pull(t) \/ DataAddAndUpdate(t)
  <2>1. UNCHANGED flag
    BY <1>3 DEF Next, Audit, vars, StartMonitor, QueryUnStat, CheckUnusualMax,
       NextTrans, EndList, JumpOver, Crash, MonitorUser, MonitorContract,
       QueryTbMonitor, AddUser, SaveContract, QueryUnusualTxhash,
       UpdateUnusualContract, UpdateUnusualFails, DailyAdvances, CountTrans,
       DeleteTransMonitor
  <2> QED
    BY <2>1 DEF InTable
<1> QED
  BY <1>1, <1>2, <1>3

LEMMA SurplusNext ==
    ASSUME CleanInv, [Next]_vars
    PROVE  Surplus'
<1>1. sub \in Nat /\ TransRetain \in Nat /\ TypeOK
  BY TransMonitorAssumption DEF CleanInv, TypeOK
<1>2. CASE CountTrans
  <2>1. /\ Cardinality(InTable) > TransRetain /\ sub' = Cardinality(InTable) - TransRetain
        /\ InTable' = InTable
    BY <1>2 DEF CountTrans, InTable
  <2> QED
    BY <1>1, <2>1, InTableFacts DEF Surplus
<1>3. CASE RemoveTrans \/ Crash
  BY <1>3 DEF RemoveTrans, Crash, Surplus
<1>4. CASE ~(CountTrans \/ RemoveTrans \/ Crash)
  <2>1. sub' = sub
    BY <1>4 DEF Next, Audit, vars, StartMonitor, QueryUnStat, CheckUnusualMax,
       NextTrans, EndList, JumpOver, Pull, MonitorUser, MonitorContract,
       QueryTbMonitor, DataAddAndUpdate, AddUser, SaveContract, QueryUnusualTxhash,
       UpdateUnusualContract, UpdateUnusualFails, DailyAdvances, DeleteTransMonitor
  <2>2. Cardinality(InTable) <= Cardinality(InTable')
    BY <1>1, <1>4, OnlyRemoveTakes, InTableFacts
  <2>3. Cardinality(InTable) \in Nat /\ Cardinality(InTable') \in Nat
    BY InTableFacts
  <2>4. sub > 0 => Cardinality(InTable) - sub >= TransRetain
    BY DEF CleanInv, Surplus
  <2>5. sub' > 0 => Cardinality(InTable') - sub' >= TransRetain
    BY <1>1, <2>1, <2>2, <2>3, <2>4
  <2> QED
    BY <2>5 DEF Surplus
<1> QED
  BY <1>2, <1>3, <1>4

\* The clean-up takes only what the audit has counted, and leaves transRetainMax
\* transactions: what comes between the count and the removal does no harm, since
\* the removal asks for the flag again and the table has only grown.
THEOREM CleanUpIsSafe == Spec => CleanUpKeeps
<1>1. Init => CleanInv
  BY TypeInit DEF Init, CleanInv, Surplus
<1>2. CleanInv /\ [Next]_vars => CleanInv'
  BY TypeNext, SurplusNext DEF CleanInv
<1>3. CleanInv /\ [Next]_vars
        => [\A t \in Trans : flag[t] # "gone" /\ flag'[t] = "gone" =>
               flag[t] = "stat" /\ Cardinality(InTable') >= TransRetain]_vars
  <2>1. CASE RemoveTrans
    BY <2>1, RemoveKeeps
  <2>2. CASE ~RemoveTrans
    BY <2>2, OnlyRemoveTakes DEF CleanInv
  <2> QED
    BY <2>1, <2>2
<1> QED
  BY <1>1, <1>2, <1>3, PTL DEF Spec, CleanUpKeeps
=============================================================================
