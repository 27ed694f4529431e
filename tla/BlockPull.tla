----------------------------- MODULE BlockPull -----------------------------
(***************************************************************************)
(* Pulling blocks and transactions of every group from the chain into the  *)
(* database: PullBlockTransTask, BlockService.pullBlockByGroupId and the   *)
(* clean-up of both tables by DeleteInfoTask.                              *)
(*                                                                         *)
(* A scheduled round starts one asynchronous pull per group and waits on a *)
(* latch until the last of them has counted down.  A pull alternates calls *)
(* to a front (any front of the group, picked at random, so the height it  *)
(* reports may lag behind) with single SQL statements, each committed by   *)
(* itself: saveBLockInfo is called on "this", hence its @Transactional has *)
(* no effect and a failure between two statements leaves what was written. *)
(***************************************************************************)
EXTENDS Integers, FiniteSets, FiniteSetsExt

CONSTANTS
    Groups,       \* groups with status NORMAL
    MaxHeight,    \* bound: no chain grows above this height
    LastHeight,   \* bound: where the chain of each group stops growing
    TxCount,      \* number of transactions of each block
    FromZero,     \* constant.isBlockPullFromZero
    InitCnts,     \* constant.pullBlockInitCnts
    RetainMax,    \* constant.blockRetainMax
    TransRetain,  \* constant.transRetainMax
    Lag,          \* a front may report a height this many blocks too low
    MaxFail       \* bound: number of failed calls and crashes considered

ASSUME BlockPullAssumption ==
    /\ MaxHeight \in Nat
    /\ LastHeight \in [Groups -> 0..MaxHeight]
    /\ TxCount \in [0..MaxHeight -> Nat]
    /\ FromZero \in BOOLEAN
    /\ InitCnts \in Nat \ {0}
    /\ RetainMax \in Nat \ {0}
    /\ TransRetain \in Nat \ {0}
    /\ Lag \in Nat
    /\ MaxFail \in Nat

VARIABLES
    height,       \* [Groups -> highest block of the chain]
    blocks,       \* [Groups -> block numbers in tb_block_<group>]
    trans,        \* [Groups -> transactions in tb_trans_hash_<group>]
    waiting,      \* TRUE while pullBlockStart waits on its latch
    pc,           \* [Groups -> where the group's pull is; "idle": counted down]
    maxChain,     \* [Groups -> maxChainBlock of the pull]
    nextBlock,    \* [Groups -> nextBlock of the pull]
    saved,        \* [Groups -> transactions of nextBlock already stored]
    fails,        \* failures so far
    cut,          \* history: blocks whose save was left unfinished
    gone          \* history: [Groups -> transactions the clean-up removed]

tables == <<blocks, trans>>
locals == <<maxChain, nextBlock, saved>>
vars == <<height, blocks, trans, waiting, pc, maxChain, nextBlock, saved,
          fails, cut, gone>>

Heights == 0..MaxHeight
PullStates == {"idle", "height", "next", "loop", "save", "txs", "refresh"}

\* The i-th transaction of block b, and all transactions of b.
Txs(b) == {<<b, i>> : i \in 1..TxCount[b]}
AllTxs == UNION {Txs(b) : b \in Heights}

\* The heights a front of group g may answer with.
Reported(g) == {h \in 0..height[g] : h >= height[g] - Lag}

\* getNextBlockNumber, when the front asked for the height answers h.
NextBlockNumber(g, h) ==
    IF blocks[g] # {} THEN Max(blocks[g]) + 1
    ELSE IF FromZero THEN 0
    ELSE IF h > InitCnts THEN h - (InitCnts - 1)
    ELSE 0

Init ==
    /\ height \in [Groups -> Heights]
    /\ \A g \in Groups : height[g] <= LastHeight[g]
    /\ blocks = [g \in Groups |-> {}]
    /\ trans = [g \in Groups |-> {}]
    /\ waiting = FALSE
    /\ pc = [g \in Groups |-> "idle"]
    /\ maxChain = [g \in Groups |-> 0]
    /\ nextBlock = [g \in Groups |-> 0]
    /\ saved = [g \in Groups |-> 0]
    /\ fails = 0
    /\ cut = [g \in Groups |-> {}]
    /\ gone = [g \in Groups |-> {}]

-----------------------------------------------------------------------------
\* The chain (external): a group's consensus appends a block.
ChainGrows(g) ==
    /\ height[g] < LastHeight[g]
    /\ height' = [height EXCEPT ![g] = @ + 1]
    /\ UNCHANGED <<tables, waiting, pc, locals, fails, cut, gone>>

\* pullBlockStart: one pull per group, then wait for all of them.
PullBlockStart ==
    /\ ~waiting
    /\ waiting' = TRUE
    /\ pc' = [g \in Groups |-> "height"]
    /\ UNCHANGED <<height, tables, locals, fails, cut, gone>>

\* latch.await() returns; the task runs again after its fixed delay.
PullBlockEnd ==
    /\ waiting
    /\ \A g \in Groups : pc[g] = "idle"
    /\ waiting' = FALSE
    /\ UNCHANGED <<height, tables, pc, locals, fails, cut, gone>>

\* maxChainBlock = frontInterface.getLatestBlockNumber(groupId).
ReadHeight(g) ==
    /\ pc[g] = "height"
    /\ \E h \in Reported(g) : maxChain' = [maxChain EXCEPT ![g] = h]
    /\ pc' = [pc EXCEPT ![g] = "next"]
    /\ UNCHANGED <<height, tables, waiting, nextBlock, saved, fails, cut, gone>>

\* nextBlock = getNextBlockNumber(groupId), before the loop.
ReadNext(g) ==
    /\ pc[g] = "next"
    /\ \E h \in Reported(g) :
          nextBlock' = [nextBlock EXCEPT ![g] = NextBlockNumber(g, h)]
    /\ pc' = [pc EXCEPT ![g] = "loop"]
    /\ UNCHANGED <<height, tables, waiting, maxChain, saved, fails, cut, gone>>

\* The loop condition fails: the pull counts the latch down and returns.
ExitLoop(g) ==
    /\ pc[g] = "loop"
    /\ maxChain[g] < nextBlock[g]
    /\ pc' = [pc EXCEPT ![g] = "idle"]
    /\ UNCHANGED <<height, tables, waiting, locals, fails, cut, gone>>

\* Mutant of FetchBlock: the loop condition excludes the newest block.
FetchBlockBelowTop(g) ==
    /\ pc[g] = "loop"
    /\ maxChain[g] > nextBlock[g]
    /\ nextBlock[g] <= height[g]
    /\ pc' = [pc EXCEPT ![g] = "save"]
    /\ UNCHANGED <<height, tables, waiting, locals, fails, cut, gone>>

\* getBlockByNumber finds the block.
FetchBlock(g) ==
    /\ pc[g] = "loop"
    /\ maxChain[g] >= nextBlock[g]
    /\ nextBlock[g] <= height[g]
    /\ pc' = [pc EXCEPT ![g] = "save"]
    /\ UNCHANGED <<height, tables, waiting, locals, fails, cut, gone>>

\* getBlockByNumber swallows every error and returns null: jump over.
FetchNothing(g) ==
    /\ pc[g] = "loop"
    /\ maxChain[g] >= nextBlock[g]
    /\ pc' = [pc EXCEPT ![g] = "refresh"]
    /\ UNCHANGED <<height, tables, waiting, locals, fails, cut, gone>>

\* addBlockInfo: the row is added only on top of the newest one; a refusal
\* returns silently and the transactions are stored all the same.
AddBlockInfo(g) ==
    /\ pc[g] = "save"
    /\ blocks' =
          IF blocks[g] = {} \/ nextBlock[g] = Max(blocks[g]) + 1
          THEN [blocks EXCEPT ![g] = @ \cup {nextBlock[g]}]
          ELSE blocks
    /\ saved' = [saved EXCEPT ![g] = 0]
    /\ pc' = [pc EXCEPT ![g] = "txs"]
    /\ UNCHANGED <<height, trans, waiting, maxChain, nextBlock, fails, cut, gone>>

\* Mutant of AddTransInfo: the loop runs once too often.
AddTransInfoOneMore(g) ==
    /\ pc[g] = "txs"
    /\ saved[g] <= TxCount[nextBlock[g]]
    /\ trans' = [trans EXCEPT ![g] = @ \cup {<<nextBlock[g], saved[g] + 1>>}]
    /\ saved' = [saved EXCEPT ![g] = @ + 1]
    /\ UNCHANGED <<height, blocks, waiting, pc, maxChain, nextBlock, fails, cut, gone>>

\* One turn of saveBLockInfo's loop: fetch the receipt, insert ignore.
AddTransInfo(g) ==
    /\ pc[g] = "txs"
    /\ saved[g] < TxCount[nextBlock[g]]
    /\ trans' = [trans EXCEPT ![g] = @ \cup {<<nextBlock[g], saved[g] + 1>>}]
    /\ saved' = [saved EXCEPT ![g] = @ + 1]
    /\ UNCHANGED <<height, blocks, waiting, pc, maxChain, nextBlock, fails, cut, gone>>

\* Mutant of SaveDone: the last transaction of a block is left out.
SaveDoneEarly(g) ==
    /\ pc[g] = "txs"
    /\ saved[g] + 1 >= TxCount[nextBlock[g]]
    /\ pc' = [pc EXCEPT ![g] = "refresh"]
    /\ UNCHANGED <<height, tables, waiting, locals, fails, cut, gone>>

\* saveBLockInfo returns.
SaveDone(g) ==
    /\ pc[g] = "txs"
    /\ saved[g] = TxCount[nextBlock[g]]
    /\ pc' = [pc EXCEPT ![g] = "refresh"]
    /\ UNCHANGED <<height, tables, waiting, locals, fails, cut, gone>>

\* Mutant of Refresh: the next number is counted up instead of read again.
RefreshByCounting(g) ==
    /\ pc[g] = "refresh"
    /\ \E top \in Reported(g) :
          /\ nextBlock' = [nextBlock EXCEPT ![g] = @ + 1]
          /\ maxChain' = [maxChain EXCEPT ![g] =
                             IF @ < nextBlock[g] + 1 THEN top ELSE @]
    /\ pc' = [pc EXCEPT ![g] = "loop"]
    /\ UNCHANGED <<height, tables, waiting, saved, fails, cut, gone>>

\* End of the loop body: the next number is read again from the table, the
\* chain's height only when it is used up.
Refresh(g) ==
    /\ pc[g] = "refresh"
    /\ \E h \in Reported(g), top \in Reported(g) :
          LET next == NextBlockNumber(g, h) IN
          /\ nextBlock' = [nextBlock EXCEPT ![g] = next]
          /\ maxChain' = [maxChain EXCEPT ![g] =
                             IF @ < next THEN top ELSE @]
    /\ pc' = [pc EXCEPT ![g] = "loop"]
    /\ UNCHANGED <<height, tables, waiting, saved, fails, cut, gone>>

-----------------------------------------------------------------------------
\* The blocks whose transactions would stay incomplete if g's pull ended now.
Unfinished(g) ==
    IF pc[g] = "txs" /\ saved[g] < TxCount[nextBlock[g]]
    THEN {nextBlock[g]} ELSE {}

\* A call to a front or to the database throws: caught in
\* pullBlockByGroupId, whose finally counts the latch down.
PullFails(g) ==
    /\ pc[g] \notin {"idle", "loop"}
    /\ fails < MaxFail
    /\ fails' = fails + 1
    /\ cut' = [cut EXCEPT ![g] = @ \cup Unfinished(g)]
    /\ pc' = [pc EXCEPT ![g] = "idle"]
    /\ UNCHANGED <<height, tables, waiting, locals, gone>>

\* The process dies and restarts: only the tables survive.
Crash ==
    /\ waiting
    /\ fails < MaxFail
    /\ fails' = fails + 1
    /\ cut' = [g \in Groups |-> cut[g] \cup Unfinished(g)]
    /\ pc' = [g \in Groups |-> "idle"]
    /\ waiting' = FALSE
    /\ UNCHANGED <<height, tables, locals, gone>>

\* Mutant of DeleteBlock: "=" for "<=" in the statement.
DeleteBlockAtBound(g) ==
    /\ blocks[g] # {}
    /\ blocks' = [blocks EXCEPT ![g] =
                     {b \in @ : b # Max(blocks[g]) - RetainMax}]
    /\ UNCHANGED <<height, trans, waiting, pc, locals, fails, cut, gone>>

\* Mutant of DeleteBlock: the comparison is turned round.
DeleteBlockNewest(g) ==
    /\ blocks[g] # {}
    /\ blocks' = [blocks EXCEPT ![g] =
                     {b \in @ : b <= Max(blocks[g]) - RetainMax}]
    /\ UNCHANGED <<height, trans, waiting, pc, locals, fails, cut, gone>>

\* DeleteInfoTask.deleteBlock: keep the newest blockRetainMax rows.
DeleteBlock(g) ==
    /\ blocks[g] # {}
    /\ blocks' = [blocks EXCEPT ![g] =
                     {b \in @ : ~(b <= Max(blocks[g]) - RetainMax)}]
    /\ UNCHANGED <<height, trans, waiting, pc, locals, fails, cut, gone>>

\* DeleteInfoTask.deleteTransHash: when there are more than transRetainMax
\* transactions, the surplus is removed among those that are audited and of
\* counted days.  Which ones these are is up to the audit and the daily
\* statistics, so any will do, also some of a block that stays or is being
\* saved.  Count and removal are one step: the table only grows between them.
DeleteTransHash(g) ==
    /\ \E counted \in SUBSET trans[g] \ {{}} :
          /\ Cardinality(counted) <= Cardinality(trans[g]) - TransRetain
          /\ trans' = [trans EXCEPT ![g] = @ \ counted]
          /\ gone' = [gone EXCEPT ![g] = @ \cup counted]
    /\ UNCHANGED <<height, blocks, waiting, pc, locals, fails, cut>>

-----------------------------------------------------------------------------
\* One step of g's pull, as long as the calls it makes succeed.
PullStep(g) ==
    \/ ReadHeight(g) \/ ReadNext(g) \/ ExitLoop(g) \/ FetchBlock(g)
    \/ AddBlockInfo(g) \/ AddTransInfo(g) \/ SaveDone(g) \/ Refresh(g)

Next ==
    \/ PullBlockStart \/ PullBlockEnd \/ Crash
    \/ \E g \in Groups :
          ChainGrows(g) \/ PullStep(g) \/ FetchNothing(g) \/ PullFails(g)
          \/ DeleteBlock(g) \/ DeleteTransHash(g)

Spec == Init /\ [][Next]_vars

\* The scheduler and the pool keep running; a front of the group answers a
\* request for an existing block infinitely often if it is asked so often.
Fairness ==
    /\ WF_vars(PullBlockStart) /\ WF_vars(PullBlockEnd)
    /\ \A g \in Groups : WF_vars(PullStep(g)) /\ SF_vars(FetchBlock(g))

FairSpec == Spec /\ Fairness

-----------------------------------------------------------------------------
\* Type invariant: the rows are blocks and transactions of the chain, and
\* the locals of a pull stay within what the chain has reported.
TypeOK ==
    /\ height \in [Groups -> Heights]
    /\ blocks \in [Groups -> SUBSET Heights]
    /\ trans \in [Groups -> SUBSET AllTxs]
    /\ waiting \in BOOLEAN
    /\ pc \in [Groups -> PullStates]
    /\ maxChain \in [Groups -> Heights]
    /\ nextBlock \in [Groups -> 0..(MaxHeight + 1)]
    /\ saved \in [Groups -> Nat]
    /\ fails \in 0..MaxFail
    /\ cut \in [Groups -> SUBSET Heights]
    /\ gone \in [Groups -> SUBSET AllTxs]

\* The block count shown to the user is max - min + 1 (queryCountOfBlockByMinus,
\* getBlockCountByMinMax): it is exact only while the table has no gap, whatever
\* the clean-up removes and wherever a pull was interrupted.
CountByMinMax ==
    \A g \in Groups : blocks[g] # {} =>
        Cardinality(blocks[g]) = Max(blocks[g]) - Min(blocks[g]) + 1

\* A stored transaction belongs to a block that has been stored: addBlockInfo
\* may refuse a block without stopping saveBLockInfo, so this rests on the pull
\* asking for exactly the block that the table is ready to take.
TransOfStoredBlocks ==
    \A g \in Groups : \A t \in trans[g] :
        blocks[g] # {} /\ t[1] <= Max(blocks[g])

\* The transactions of group g that were ever stored.
Stored(g) == trans[g] \cup gone[g]

\* A block row whose save was neither cut short nor is under way had all its
\* transactions stored: a null answer, a refused row or a lagging front loses
\* none of them, only a failure or a crash between two statements of
\* saveBLockInfo does.  From then on only the clean-up takes them, audited as
\* they are, and what it took is never inserted once more ("insert ignore" is
\* no help there) for the audit to count it twice.
SavedInFull ==
    \A g \in Groups :
        /\ trans[g] \cap gone[g] = {}
        /\ \A b \in blocks[g] :
              \/ b \in cut[g]
              \/ pc[g] = "txs" /\ b = nextBlock[g]
              \/ Txs(b) \subseteq Stored(g)

\* What saveBLockInfo announces ("save report block info and save tx in block",
\* @Transactional): outside a running save, the transactions of a stored block
\* have been stored too.
SaveIsAtomic ==
    \A g \in Groups : pc[g] # "txs" =>
        \A b \in blocks[g] : Txs(b) \subseteq Stored(g)

\* The table of every group implements the sliding window of BlockMirror.
Mirror == INSTANCE BlockMirror
MirrorsChain == Mirror!MirrorSpec

\* The mirror catches up: a block of the chain is eventually pulled, up to the
\* lag of the fronts, although all groups share one round and its latch.  (A
\* front that lags by pullBlockInitCnts can hide the first block for ever.)
CatchesUp ==
    FromZero \/ Lag < InitCnts =>
        \A g \in Groups, n \in Heights :
            height[g] >= n ~> (blocks[g] # {} /\ Max(blocks[g]) >= n - Lag)
=============================================================================
