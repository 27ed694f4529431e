----------------------------- MODULE TransDaily -----------------------------
(***************************************************************************)
(* The daily transaction counts: StatisticsTransdailyTask adds up the      *)
(* trans_count of the rows of tb_block, day by day, into tb_trans_daily.   *)
(*                                                                         *)
(* The block tables move underneath as BlockMirror allows: the pull adds   *)
(* blocks, the clean-up removes old ones.  A run (synchronized, hence one  *)
(* at a time) reads the latest daily row of all groups in one query, then  *)
(* for each group one list of blocks; after that each statement is         *)
(* committed by itself, and any failure ends the run for all groups.       *)
(***************************************************************************)
EXTENDS BlockMirror, FiniteSets, FiniteSetsExt

CONSTANTS
    TxCount,      \* trans_count of each block
    DayOf,        \* day of each block's timestamp
    NoGroup,      \* no group is being traversed
    MaxFail       \* bound: failures and restarts considered

ASSUME TransDailyAssumption ==
    /\ MaxHeight \in Nat
    /\ TxCount \in [0..MaxHeight -> Nat]
    /\ DayOf \in [0..MaxHeight -> Nat \ {0}]
    /\ NoGroup \notin Groups
    /\ MaxFail \in Nat

VARIABLES
    count,        \* [Groups -> [Days -> trans_count of the row]]
    upto,         \* [Groups -> [Days -> block_number of the row; None: no row]]
    info,         \* groupStatisticalList: latest row of each group
    todo,         \* groups of the list still to be traversed
    cur,          \* the group whose blocks are traversed, or NoGroup
    list,         \* blockList, from the block under consideration on
    day,          \* latestSaveDay; 0: null
    from,         \* latestSaveBlockNumber
    net,          \* netTransCount
    top,          \* maxBlockNumber
    pc,           \* "idle", "groups", "blocks" or "add"
    fails,        \* failures so far
    pending,      \* history: blocks in net that no statement has written yet
    counted       \* history: [Groups -> blocks written to tb_trans_daily]

tables == <<count, upto, counted>>
traversal == <<list, day, from, net, top, pending>>
vars == <<blocks, count, upto, info, todo, cur, list, day, from, net, top, pc,
          fails, pending, counted>>

Days == {DayOf[b] : b \in Heights}
None == -1

\* Days do not go back along the chain.
DaysInOrder == \A a \in Heights, b \in Heights : a < b => DayOf[a] <= DayOf[b]

SavedDays(g) == {d \in Days : upto[g][d] # None}

\* queryLatestStatisticalTrans: the row of the last day; null when none.
Latest(g) ==
    IF SavedDays(g) = {} THEN [day |-> 0, block |-> 0, count |-> 0]
    ELSE LET d == Max(SavedDays(g))
         IN  [day |-> d, block |-> upto[g][d], count |-> count[g][d]]

NoInfo == [day |-> 0, block |-> 0, count |-> 0]

Init ==
    /\ MirrorInit
    /\ count = [g \in Groups |-> [d \in Days |-> 0]]
    /\ upto = [g \in Groups |-> [d \in Days |-> None]]
    /\ info = [g \in Groups |-> NoInfo]
    /\ todo = {}
    /\ cur = NoGroup
    /\ list = {}
    /\ day = 0 /\ from = 0 /\ net = 0 /\ top = 0
    /\ pc = "idle"
    /\ fails = 0
    /\ pending = {}
    /\ counted = [g \in Groups |-> {}]

-----------------------------------------------------------------------------
\* A statement of updateTransDaily: no row matches, no row changes.
UpdateTransDaily ==
    IF upto[cur][day] = from
    THEN /\ count' = [count EXCEPT ![cur][day] = net]
         /\ upto' = [upto EXCEPT ![cur][day] = top]
         /\ counted' = [counted EXCEPT ![cur] = @ \cup pending]
    ELSE UNCHANGED tables

\* The block tables move (modules BlockMirror and BlockPull).
MirrorMoves ==
    /\ MirrorNext
    /\ UNCHANGED <<tables, info, todo, cur, traversal, pc, fails>>

\* updateTransdailyData: the latest rows of all groups.
StartStatistics ==
    /\ pc = "idle"
    /\ info' = [g \in Groups |-> Latest(g)]
    /\ todo' = Groups
    /\ cur' = NoGroup
    /\ pc' = "groups"
    /\ UNCHANGED <<blocks, tables, traversal, fails>>

EndStatistics ==
    /\ pc = "groups"
    /\ todo = {}
    /\ pc' = "idle"
    /\ UNCHANGED <<blocks, tables, info, todo, cur, traversal, fails>>

\* The blocks of g that queryBlockList returns.
NewBlocks(g) == {b \in blocks[g] : b > info[g].block /\ DayOf[b] >= info[g].day}

\* Mutant of QueryBlockList: the last block counted is listed once more.
QueryBlockListFromLast(g) ==
    /\ pc = "groups"
    /\ g \in todo
    /\ todo' = todo \ {g}
    /\ cur' = g
    /\ list' = {b \in blocks[g] : b >= info[g].block /\ DayOf[b] >= info[g].day}
    /\ day' = info[g].day
    /\ from' = info[g].block
    /\ top' = info[g].block
    /\ net' = info[g].count
    /\ pending' = {}
    /\ pc' = IF list' = {} THEN "groups" ELSE "blocks"
    /\ UNCHANGED <<blocks, tables, info, fails>>

\* The next group of the list, and its new blocks; none: on to the next.
QueryBlockList(g) ==
    /\ pc = "groups"
    /\ g \in todo
    /\ todo' = todo \ {g}
    /\ cur' = g
    /\ list' = NewBlocks(g)
    /\ day' = info[g].day
    /\ from' = info[g].block
    /\ top' = info[g].block
    /\ net' = info[g].count
    /\ pending' = {}
    /\ pc' = IF NewBlocks(g) = {} THEN "groups" ELSE "blocks"
    /\ UNCHANGED <<blocks, tables, info, fails>>

\* A block of the day under way is added to the sum.
AddToDay ==
    /\ pc = "blocks"
    /\ list # {}
    /\ LET b == Min(list)
       IN  /\ DayOf[b] = day
           /\ net' = net + TxCount[b]
           /\ top' = b
           /\ pending' = pending \cup {b}
           /\ list' = list \ {b}
    /\ UNCHANGED <<blocks, tables, info, todo, cur, day, from, pc, fails>>

\* Mutant of UpdateOldDay: the sum of the day that ends is not written.
UpdateOldDaySkipped ==
    /\ pc = "blocks"
    /\ list # {}
    /\ DayOf[Min(list)] # day
    /\ pc' = "add"
    /\ UNCHANGED <<blocks, tables, info, todo, cur, traversal, fails>>

\* A block of another day: first the sum of the day under way is written.
UpdateOldDay ==
    /\ pc = "blocks"
    /\ list # {}
    /\ DayOf[Min(list)] # day
    /\ IF net > 0 /\ day # 0 THEN UpdateTransDaily ELSE UNCHANGED tables
    /\ pc' = "add"
    /\ UNCHANGED <<blocks, info, todo, cur, traversal, fails>>

\* Mutant of AddDay: the new sum starts without the block of the new row.
AddDayFromZero ==
    /\ pc = "add"
    /\ LET b == Min(list)
           d == DayOf[b]
       IN  /\ IF upto[cur][d] = None
              THEN /\ count' = [count EXCEPT ![cur][d] = TxCount[b]]
                   /\ upto' = [upto EXCEPT ![cur][d] = b]
                   /\ counted' = [counted EXCEPT ![cur] = @ \cup {b}]
              ELSE UNCHANGED tables
           /\ day' = d
           /\ from' = b
           /\ top' = b
           /\ net' = 0
           /\ pending' = {b}
           /\ list' = list \ {b}
    /\ pc' = "blocks"
    /\ UNCHANGED <<blocks, info, todo, cur, fails>>

\* Mutant of AddDay: the position is the block to go on with.
AddDayNext ==
    /\ pc = "add"
    /\ LET b == Min(list)
           d == DayOf[b]
       IN  /\ IF upto[cur][d] = None
              THEN /\ count' = [count EXCEPT ![cur][d] = TxCount[b]]
                   /\ upto' = [upto EXCEPT ![cur][d] = b]
                   /\ counted' = [counted EXCEPT ![cur] = @ \cup {b}]
              ELSE UNCHANGED tables
           /\ day' = d
           /\ from' = b
           /\ top' = b + 1
           /\ net' = TxCount[b]
           /\ pending' = {b}
           /\ list' = list \ {b}
    /\ pc' = "blocks"
    /\ UNCHANGED <<blocks, info, todo, cur, fails>>

\* addTbTransDailyInfo: insert ignore; the block starts the new sum.
AddDay ==
    /\ pc = "add"
    /\ LET b == Min(list)
           d == DayOf[b]
       IN  /\ IF upto[cur][d] = None
              THEN /\ count' = [count EXCEPT ![cur][d] = TxCount[b]]
                   /\ upto' = [upto EXCEPT ![cur][d] = b]
                   /\ counted' = [counted EXCEPT ![cur] = @ \cup {b}]
              ELSE UNCHANGED tables
           /\ day' = d
           /\ from' = b
           /\ top' = b
           /\ net' = TxCount[b]
           /\ pending' = {b}
           /\ list' = list \ {b}
    /\ pc' = "blocks"
    /\ UNCHANGED <<blocks, info, todo, cur, fails>>

\* Mutant of UpdateLastDay: sums are written only when the day changes.
UpdateLastDayNever ==
    /\ pc = "blocks"
    /\ list = {}
    /\ pc' = "groups"
    /\ UNCHANGED <<blocks, tables, info, todo, cur, traversal, fails>>

\* After the last block the sum of its day is written.
UpdateLastDay ==
    /\ pc = "blocks"
    /\ list = {}
    /\ UpdateTransDaily
    /\ pc' = "groups"
    /\ UNCHANGED <<blocks, info, todo, cur, traversal, fails>>

\* A statement fails, which ends the run for all groups, or the process dies.
Abort ==
    /\ pc # "idle"
    /\ fails < MaxFail
    /\ fails' = fails + 1
    /\ pc' = "idle"
    /\ UNCHANGED <<blocks, tables, info, todo, cur, traversal>>

-----------------------------------------------------------------------------
Statistics ==
    \/ StartStatistics \/ EndStatistics \/ AddToDay \/ UpdateOldDay \/ AddDay
    \/ UpdateLastDay \/ \E g \in Groups : QueryBlockList(g)

Next == MirrorMoves \/ Statistics \/ Abort

Spec == Init /\ [][Next]_vars

\* The scheduler starts a run every minute and its thread is not stopped.
FairSpec == Spec /\ WF_vars(Statistics)

-----------------------------------------------------------------------------
\* Type invariant.
TypeOK ==
    /\ blocks \in [Groups -> SUBSET Heights]
    /\ count \in [Groups -> [Days -> Nat]]
    /\ upto \in [Groups -> [Days -> Heights \cup {None}]]
    /\ info \in [Groups -> [day : Days \cup {0}, block : Heights, count : Nat]]
    /\ todo \subseteq Groups
    /\ cur \in Groups \cup {NoGroup}
    /\ list \subseteq Heights
    /\ day \in Days \cup {0}
    /\ from \in Heights
    /\ net \in Nat
    /\ top \in Heights
    /\ pc \in {"idle", "groups", "blocks", "add"}
    /\ pc \in {"blocks", "add"} => cur \in Groups
    /\ fails \in 0..MaxFail
    /\ pending \subseteq Heights
    /\ counted \in [Groups -> SUBSET Heights]

\* A day's count is the sum over the blocks counted for it, each once, although
\* the sum is kept across runs in the row and in the locals of an aborted run,
\* and rows are updated by matching the block number read at the start.
CountsExact ==
    DaysInOrder =>
        \A g \in Groups, d \in Days :
            count[g][d] = SumFunctionOnSet(TxCount, {b \in counted[g] : DayOf[b] = d})

\* The statistics never jump over a block: what lies below the latest row and
\* is still in the block table has been counted, or has no transactions.  (The
\* list starts above block 0, so the genesis block is never counted.)
NothingJumpedOver ==
    DaysInOrder =>
        \A g \in Groups : \A b \in blocks[g] :
            b > 0 /\ b <= Latest(g).block /\ TxCount[b] > 0 => b \in counted[g]

\* What is counted stays counted: a run that resumes from stale locals, or an
\* update that matches too little, would take a count back.
NeverLowered ==
    [][\A g \in Groups, d \in Days :
          count'[g][d] >= count[g][d] /\ upto'[g][d] >= upto[g][d]]_vars

\* A block that enters the table is counted at last, unless the clean-up
\* removes it first or it has nothing to count.
CountedAtLast ==
    DaysInOrder =>
        \A g \in Groups, b \in Heights \ {0} :
            TxCount[b] > 0 =>
                (b \in blocks[g] ~> (b \in counted[g] \/ b \notin blocks[g]))
=============================================================================
