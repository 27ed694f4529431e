----------------------------- MODULE BlockStat -----------------------------
(***************************************************************************)
(* The performance statistics of every block (tb_stat): the rounds of      *)
(* TransMonitorTask.blockStatStart, StatService.pullBlockStatistic, the    *)
(* statistics part of DeleteInfoTask, and the removal of a whole group     *)
(* while a pull of it is under way.                                        *)
(*                                                                         *)
(* A row holds the time between its block and the block before it, and a   *)
(* pull takes the time of the block before from the row with the greatest  *)
(* id.  A time is modelled by the block it belongs to, <<chain, number>>:  *)
(* a group that is removed may come back as the group of another chain.    *)
(* Fronts are asked one by one, at random, and may lag.                    *)
(***************************************************************************)
EXTENDS Integers

CONSTANTS
    Groups,       \* the groups of tb_group
    MaxHeight,    \* bound: no chain grows above this height
    LastHeight,   \* bound: where the chains of each group stop growing
    PageSize,     \* constant.statBlockPageSize
    RetainMax,    \* constant.statBlockRetainMax
    Lag,          \* a front may report a height this many blocks too low
    MaxFail,      \* bound: failed calls and crashes considered
    MaxRemovals   \* bound: removals of groups considered

ASSUME BlockStatAssumption ==
    /\ MaxHeight \in Nat
    /\ LastHeight \in [Groups -> 0..MaxHeight]
    /\ PageSize \in Nat
    /\ RetainMax \in Nat \ {0}
    /\ Lag \in Nat
    /\ MaxFail \in Nat
    /\ MaxRemovals \in Nat

VARIABLES
    chain,     \* [Groups -> which chain the group belongs to]
    height,    \* [Groups -> highest block of that chain]
    listed,    \* the groups in tb_group with status NORMAL
    stat,      \* [Groups -> rows of tb_stat]
    nextId,    \* [Groups -> an id greater than those given to its rows so far]
    waiting,   \* TRUE while blockStatStart waits on its latch
    pc,        \* [Groups -> where the group's pull is; "idle": counted down]
    next,      \* [Groups -> the loop's height; localBlockNum + 1 before it]
    bound,     \* [Groups -> blockNumOnChain]
    last,      \* [Groups -> the block lastBlockTimestamp belongs to]
    fetched,   \* [Groups -> the chain that chainBlockStat belongs to]
    fails,     \* failures so far
    removals,  \* removals so far
    torn       \* history: groups last removed under a running pull

locals == <<pc, next, bound, last, fetched>>
world == <<chain, height, listed>>
vars == <<world, stat, nextId, waiting, locals, fails, removals, torn>>

Heights == 0..MaxHeight
Chains == 0..MaxRemovals
Times == Chains \X Heights
PullStates == {"idle", "latest", "zero", "height", "loop", "save"}
Rows == [id : Nat, num : Heights, chain : Chains, last : Times]

\* getMaxByGroupId: the row with the greatest id.
IsLatest(r, g) == r \in stat[g] /\ \A q \in stat[g] : q.id <= r.id

\* The heights a front of group g may answer with.
Reported(g) == {h \in 0..height[g] : h >= height[g] - Lag}

Init ==
    /\ chain = [g \in Groups |-> 0]
    /\ height \in [Groups -> Heights]
    /\ \A g \in Groups : height[g] <= LastHeight[g]
    /\ listed = Groups
    /\ stat = [g \in Groups |-> {}]
    /\ nextId = [g \in Groups |-> 1]
    /\ waiting = FALSE
    /\ pc = [g \in Groups |-> "idle"]
    /\ next = [g \in Groups |-> 1]
    /\ bound = [g \in Groups |-> 0]
    /\ last = [g \in Groups |-> <<0, 0>>]
    /\ fetched = [g \in Groups |-> 0]
    /\ fails = 0
    /\ removals = 0
    /\ torn = {}

-----------------------------------------------------------------------------
\* The chain (external): a group's consensus appends a block.
ChainGrows(g) ==
    /\ height[g] < LastHeight[g]
    /\ height' = [height EXCEPT ![g] = @ + 1]
    /\ UNCHANGED <<chain, listed, stat, nextId, waiting, locals, fails, removals, torn>>

\* External: the fronts of a removed group are replaced by those of a new chain.
NewChain(g) ==
    /\ g \notin listed
    /\ chain[g] < removals
    /\ chain' = [chain EXCEPT ![g] = @ + 1]
    /\ height' = [height EXCEPT ![g] = 0]
    /\ UNCHANGED <<listed, stat, nextId, waiting, locals, fails, removals, torn>>

\* resetGroupList finds the group on a front and saves it (see GroupSync).
ListGroup(g) ==
    /\ g \notin listed
    /\ listed' = listed \cup {g}
    /\ UNCHANGED <<chain, height, stat, nextId, waiting, locals, fails, removals, torn>>

\* removeAllDataByGroupId, one transaction: the group and its statistics.
RemoveGroup(g) ==
    /\ g \in listed
    /\ removals < MaxRemovals
    /\ removals' = removals + 1
    /\ listed' = listed \ {g}
    /\ stat' = [stat EXCEPT ![g] = {}]
    /\ torn' = IF pc[g] = "idle" THEN torn \ {g} ELSE torn \cup {g}
    /\ UNCHANGED <<chain, height, nextId, waiting, locals, fails>>

\* blockStatStart: one pull for each group listed, then wait for all of them.
BlockStatStart ==
    /\ ~waiting
    /\ listed # {}
    /\ waiting' = TRUE
    /\ pc' = [g \in Groups |-> IF g \in listed THEN "latest" ELSE "idle"]
    /\ UNCHANGED <<world, stat, nextId, next, bound, last, fetched, fails, removals, torn>>

\* latch.await() returns; the task runs again at its fixed rate.
BlockStatEnd ==
    /\ waiting
    /\ \A g \in Groups : pc[g] = "idle"
    /\ waiting' = FALSE
    /\ UNCHANGED <<world, stat, nextId, locals, fails, removals, torn>>

\* A pull returns, by a return statement or by an exception: its finally
\* block counts the latch down.
Return(g) == pc' = [pc EXCEPT ![g] = "idle"]

\* Mutant of ReadLatest: one is added for the row and again for the loop.
ReadLatestPlusOne(g) ==
    /\ pc[g] = "latest"
    /\ \E r \in stat[g] :
          /\ IsLatest(r, g)
          /\ next' = [next EXCEPT ![g] = r.num + 2]
          /\ last' = [last EXCEPT ![g] = <<r.chain, r.num>>]
    /\ pc' = [pc EXCEPT ![g] = "height"]
    /\ UNCHANGED <<world, stat, nextId, waiting, bound, fetched, fails, removals, torn>>

\* The group has rows: go on after the latest of them.
ReadLatest(g) ==
    /\ pc[g] = "latest"
    /\ \E r \in stat[g] :
          /\ IsLatest(r, g)
          /\ next' = [next EXCEPT ![g] = r.num + 1]
          /\ last' = [last EXCEPT ![g] = <<r.chain, r.num>>]
    /\ pc' = [pc EXCEPT ![g] = "height"]
    /\ UNCHANGED <<world, stat, nextId, waiting, bound, fetched, fails, removals, torn>>

\* Mutant of ReadNone: every pull starts from block 0.
ReadNoneAlways(g) ==
    /\ pc[g] = "latest"
    /\ next' = [next EXCEPT ![g] = 1]
    /\ pc' = [pc EXCEPT ![g] = "zero"]
    /\ UNCHANGED <<world, stat, nextId, waiting, bound, last, fetched, fails, removals, torn>>

\* The group has no row: localBlockNum = 0.
ReadNone(g) ==
    /\ pc[g] = "latest"
    /\ stat[g] = {}
    /\ next' = [next EXCEPT ![g] = 1]
    /\ pc' = [pc EXCEPT ![g] = "zero"]
    /\ UNCHANGED <<world, stat, nextId, waiting, bound, last, fetched, fails, removals, torn>>

\* The time of block 0 comes from the chain.
FetchZero(g) ==
    /\ pc[g] = "zero"
    /\ last' = [last EXCEPT ![g] = <<chain[g], 0>>]
    /\ pc' = [pc EXCEPT ![g] = "height"]
    /\ UNCHANGED <<world, stat, nextId, waiting, next, bound, fetched, fails, removals, torn>>

\* blockNumOnChain, when the front asked for it answers h: a group that is far
\* behind adds the page size to the height of the chain.
PageEnd(g, h) == IF h - (next[g] - 1) > PageSize THEN h + PageSize ELSE h

\* getLatestBlockNumber; nothing to do when the local number has reached it.
ReadHeight(g) ==
    /\ pc[g] = "height"
    /\ \E h \in Reported(g) :
          IF next[g] - 1 >= h
          THEN Return(g) /\ UNCHANGED bound
          ELSE /\ bound' = [bound EXCEPT ![g] = PageEnd(g, h)]
               /\ pc' = [pc EXCEPT ![g] = "loop"]
    /\ UNCHANGED <<world, stat, nextId, waiting, next, last, fetched, fails, removals, torn>>

\* Mutant of FetchBlock: the page bound is taken for the chain's end.
FetchBlockBelowBound(g) ==
    /\ pc[g] = "loop"
    /\ next[g] < bound[g]
    /\ next[g] <= height[g]
    /\ fetched' = [fetched EXCEPT ![g] = chain[g]]
    /\ pc' = [pc EXCEPT ![g] = "save"]
    /\ UNCHANGED <<world, stat, nextId, waiting, next, bound, last, fails, removals, torn>>

\* getBlockStatisticByNumber finds the block.
FetchBlock(g) ==
    /\ pc[g] = "loop"
    /\ next[g] <= bound[g]
    /\ next[g] <= height[g]
    /\ fetched' = [fetched EXCEPT ![g] = chain[g]]
    /\ pc' = [pc EXCEPT ![g] = "save"]
    /\ UNCHANGED <<world, stat, nextId, waiting, next, bound, last, fails, removals, torn>>

\* getBlockStatisticByNumber swallows every error and returns null; for block 0
\* the null is dereferenced and the exception caught.  Either ends the pull.
FetchNothing(g) ==
    /\ pc[g] = "zero" \/ (pc[g] = "loop" /\ next[g] <= bound[g])
    /\ Return(g)
    /\ UNCHANGED <<world, stat, nextId, waiting, next, bound, last, fetched, fails, removals, torn>>

\* The loop has reached its bound.
ExitLoop(g) ==
    /\ pc[g] = "loop"
    /\ next[g] > bound[g]
    /\ Return(g)
    /\ UNCHANGED <<world, stat, nextId, waiting, next, bound, last, fetched, fails, removals, torn>>

\* Mutant of SaveStat: lastBlockTimestamp is not brought forward.
SaveStatKeepsTime(g) ==
    /\ pc[g] = "save"
    /\ stat' = [stat EXCEPT ![g] =
          IF \E r \in @ : r.num = next[g] THEN @
          ELSE @ \cup {[id |-> nextId[g], num |-> next[g],
                        chain |-> fetched[g], last |-> last[g]]}]
    /\ nextId' = [nextId EXCEPT ![g] = @ + 1]
    /\ next' = [next EXCEPT ![g] = @ + 1]
    /\ pc' = [pc EXCEPT ![g] = "loop"]
    /\ UNCHANGED <<world, waiting, bound, last, fetched, fails, removals, torn>>

\* saveStat inserts the row unless the number has one, and the loop goes on
\* with the next height.
SaveStat(g) ==
    /\ pc[g] = "save"
    /\ stat' = [stat EXCEPT ![g] =
          IF \E r \in @ : r.num = next[g] THEN @
          ELSE @ \cup {[id |-> nextId[g], num |-> next[g],
                        chain |-> fetched[g], last |-> last[g]]}]
    /\ nextId' = [nextId EXCEPT ![g] = @ + 1]
    /\ last' = [last EXCEPT ![g] = <<fetched[g], next[g]>>]
    /\ next' = [next EXCEPT ![g] = @ + 1]
    /\ pc' = [pc EXCEPT ![g] = "loop"]
    /\ UNCHANGED <<world, waiting, bound, fetched, fails, removals, torn>>

\* A call to a front or to the database throws: caught, latch counted down.
PullFails(g) ==
    /\ pc[g] \in {"latest", "height", "save"}
    /\ fails < MaxFail
    /\ fails' = fails + 1
    /\ Return(g)
    /\ UNCHANGED <<world, stat, nextId, waiting, next, bound, last, fetched, removals, torn>>

\* The process dies and restarts: only the table survives.
Crash ==
    /\ waiting
    /\ fails < MaxFail
    /\ fails' = fails + 1
    /\ pc' = [g \in Groups |-> "idle"]
    /\ waiting' = FALSE
    /\ UNCHANGED <<world, stat, nextId, next, bound, last, fetched, removals, torn>>

\* Mutant of DeleteBlockStat: the comparison is turned round.
DeleteBlockStatNewest(g) ==
    /\ g \in listed
    /\ \E top \in stat[g] :
          /\ \A r \in stat[g] : r.num <= top.num
          /\ stat' = [stat EXCEPT ![g] =
                         {r \in @ : r.num <= top.num - RetainMax}]
    /\ UNCHANGED <<world, nextId, waiting, locals, fails, removals, torn>>

\* DeleteInfoTask.deleteBlockStat: keep the newest statBlockRetainMax numbers.
DeleteBlockStat(g) ==
    /\ g \in listed
    /\ \E top \in stat[g] :
          /\ \A r \in stat[g] : r.num <= top.num
          /\ stat' = [stat EXCEPT ![g] =
                         {r \in @ : ~(r.num <= top.num - RetainMax)}]
    /\ UNCHANGED <<world, nextId, waiting, locals, fails, removals, torn>>

-----------------------------------------------------------------------------
\* One step of g's pull, as long as the calls it makes succeed.
PullStep(g) ==
    \/ ReadLatest(g) \/ ReadNone(g) \/ ReadHeight(g) \/ ExitLoop(g) \/ SaveStat(g)

Next ==
    \/ BlockStatStart \/ BlockStatEnd \/ Crash
    \/ \E g \in Groups :
          \/ ChainGrows(g) \/ NewChain(g) \/ ListGroup(g) \/ RemoveGroup(g)
          \/ PullStep(g) \/ FetchZero(g) \/ FetchBlock(g) \/ FetchNothing(g)
          \/ PullFails(g) \/ DeleteBlockStat(g)

Spec == Init /\ [][Next]_vars

\* The scheduler and the pool keep running; a question for an existing block
\* that is asked again and again is answered at last, and a pull always goes on
\* or ends.
Fairness ==
    /\ WF_vars(BlockStatStart) /\ WF_vars(BlockStatEnd)
    /\ \A g \in Groups :
          /\ WF_vars(PullStep(g) \/ FetchNothing(g))
          /\ SF_vars(FetchZero(g)) /\ SF_vars(FetchBlock(g))

FairSpec == Spec /\ Fairness

-----------------------------------------------------------------------------
\* Type invariant: numbers and times are those of blocks some chain had.
TypeOK ==
    /\ chain \in [Groups -> Chains]
    /\ height \in [Groups -> Heights]
    /\ listed \subseteq Groups
    /\ stat \in [Groups -> SUBSET Rows]
    /\ nextId \in [Groups -> Nat]
    /\ waiting \in BOOLEAN
    /\ pc \in [Groups -> PullStates]
    /\ next \in [Groups -> 1..(MaxHeight + 1)]
    /\ bound \in [Groups -> Nat]
    /\ last \in [Groups -> Times]
    /\ fetched \in [Groups -> Chains]
    /\ fails \in 0..MaxFail
    /\ removals \in 0..MaxRemovals
    /\ torn \subseteq Groups

\* The pull goes on after the row with the greatest id (getMaxByGroupId), the
\* clean-up keeps the rows with the greatest numbers: the two agree at every
\* point of a pull, a clean-up, a failure or a removal, so the clean-up never
\* takes away the row the next pull starts from.
IdsFollowNumbers ==
    \A g \in Groups : \A r, q \in stat[g] : r.id < q.id <=> r.num < q.num

\* The cycle of a row is the time since the block right before it, on the chain
\* the group now belongs to, wherever pulls began, failed or met the clean-up.
\* A pull that outlives the removal of its group is the exception: it writes
\* rows that a later chain of the same group takes for its own.
CycleIsExact ==
    \A g \in Groups \ torn : \A r \in stat[g] :
        /\ r.chain = chain[g]
        /\ r.last = <<r.chain, r.num - 1>>

\* The numbers of the rows implement the sliding window of BlockMirror, but for
\* the removal of the whole group: the page of the statistics reads the rows as
\* neighbours, which they are only if none is missing in between.
Numbers == [g \in Groups |-> {r.num : r \in stat[g]}]
Mirror == INSTANCE BlockMirror WITH blocks <- Numbers
GroupDropped == \E g \in Groups : g \in listed \ listed' /\ Numbers' = [Numbers EXCEPT ![g] = {}]
StatMirrors ==
    Mirror!MirrorInit /\ [][Mirror!MirrorNext \/ GroupDropped]_Numbers

\* Although all groups share one round and its latch, although one that is far
\* behind asks for blocks beyond the end, and wherever a round is cut short, the
\* rows of a group that stays listed reach its chain again and again, up to the
\* lag of the fronts.
StatCatchesUp ==
    \A g \in Groups :
        <>[](g \in listed) =>
            []<>( \/ g \in torn
                  \/ height[g] <= Lag
                  \/ \E r \in stat[g] :
                        r.chain = chain[g] /\ r.num >= height[g] - Lag )
=============================================================================
