-------------------------- MODULE BlockPullProofs --------------------------
(***************************************************************************)
(* Proofs about BlockPull for every set of groups, every chain and every   *)
(* configuration: type correctness, that stored transactions belong to     *)
(* stored blocks, that every transaction of a block is stored once unless  *)
(* its save is interrupted, that the count by max - min is exact, and that *)
(* every block table implements the window of BlockMirror.                 *)
(***************************************************************************)
EXTENDS BlockPull, FiniteSetTheorems, TLAPS

\* The newest row of a window is its upper end, the oldest its lower end.
LEMMA WindowEnds ==
    ASSUME NEW lo \in Int, NEW hi \in Int, lo <= hi
    PROVE  Max(lo..hi) = hi /\ Min(lo..hi) = lo
<1>1. hi \in lo..hi /\ \A y \in lo..hi : hi >= y
    OBVIOUS
<1>2. lo \in lo..hi /\ \A y \in lo..hi : lo =< y
    OBVIOUS
<1>3. Max(lo..hi) = hi
    <2>1. \E x \in lo..hi : \A y \in lo..hi : x >= y
        BY <1>1
    <2>2. Max(lo..hi) \in lo..hi /\ \A y \in lo..hi : Max(lo..hi) >= y
        BY <2>1 DEF Max
    <2>3. QED
        BY <1>1, <2>2
<1>4. Min(lo..hi) = lo
    <2>1. \E x \in lo..hi : \A y \in lo..hi : x =< y
        BY <1>2
    <2>2. Min(lo..hi) \in lo..hi /\ \A y \in lo..hi : Min(lo..hi) =< y
        BY <2>1 DEF Min
    <2>3. QED
        BY <1>2, <2>2
<1>5. QED
    BY <1>3, <1>4

-----------------------------------------------------------------------------
(***************************************************************************)
(* The inductive invariant.                                                *)
(***************************************************************************)

\* S is a gap-free window of the chain.
IsWindow(S) == \E lo, hi \in Heights : lo <= hi /\ S = lo..hi

Windows == \A g \in Groups : blocks[g] = {} \/ IsWindow(blocks[g])

\* Outside a round no pull is running.
LatchCovers == waiting \/ \A g \in Groups : pc[g] = "idle"

\* A block about to be saved exists and is the one the table is ready for.
Ready ==
    \A g \in Groups :
        /\ pc[g] \in {"save", "txs"} => nextBlock[g] <= height[g]
        /\ pc[g] \in {"loop", "save"} =>
              \/ blocks[g] = {}
              \/ blocks[g] # {} /\ nextBlock[g] = Max(blocks[g]) + 1

\* A transaction that was ever stored belongs to a block the table has taken.
EverStored ==
    \A g \in Groups : \A t \in Stored(g) :
        blocks[g] # {} /\ t[1] <= Max(blocks[g])

\* While its transactions are stored the block is the newest row, and exactly
\* the first "saved" of its transactions have been stored.
Saving ==
    \A g \in Groups : pc[g] = "txs" =>
        /\ blocks[g] # {}
        /\ nextBlock[g] = Max(blocks[g])
        /\ saved[g] <= TxCount[nextBlock[g]]
        /\ \A i \in 1..saved[g] : <<nextBlock[g], i>> \in Stored(g)
        /\ \A i \in Nat : i > saved[g] => <<nextBlock[g], i>> \notin Stored(g)

IInv ==
    /\ TypeOK
    /\ Windows
    /\ LatchCovers
    /\ Ready
    /\ Saving
    /\ EverStored
    /\ SavedInFull

\* The newest row of a non-empty table.
LEMMA Newest ==
    ASSUME NEW S, IsWindow(S)
    PROVE  /\ S # {}
           /\ Max(S) \in S
           /\ Max(S) \in Heights
           /\ \A b \in S : b <= Max(S)
<1>1. PICK lo \in Heights, hi \in Heights : lo <= hi /\ S = lo..hi
    BY DEF IsWindow
<1>2. lo \in Int /\ hi \in Int
    BY <1>1, BlockPullAssumption DEF Heights
<1>3. Max(S) = hi
    BY <1>1, <1>2, WindowEnds
<1>4. QED
    BY <1>1, <1>2, <1>3

\* Adding the next block on top of a window gives a window.
LEMMA Grown ==
    ASSUME NEW S, IsWindow(S), Max(S) + 1 \in Heights
    PROVE  /\ IsWindow(S \cup {Max(S) + 1})
           /\ Max(S \cup {Max(S) + 1}) = Max(S) + 1
<1>1. PICK lo \in Heights, hi \in Heights : lo <= hi /\ S = lo..hi
    BY DEF IsWindow
<1>2. lo \in Int /\ hi \in Int
    BY <1>1, BlockPullAssumption DEF Heights
<1>3. Max(S) = hi
    BY <1>1, <1>2, WindowEnds
<1>4. S \cup {Max(S) + 1} = lo..(hi + 1)
    BY <1>1, <1>2, <1>3
<1>5. hi + 1 \in Heights /\ hi + 1 \in Int /\ lo <= hi + 1
    BY <1>1, <1>2, <1>3
<1>6. QED
    BY <1>3, <1>4, <1>5, <1>2, WindowEnds DEF IsWindow

\* A single block is a window.
LEMMA Opened ==
    ASSUME NEW n \in Heights
    PROVE  IsWindow({n}) /\ Max({n}) = n
<1>1. n \in Int /\ {n} = n..n
    BY BlockPullAssumption DEF Heights
<1>2. Max(n..n) = n
    BY <1>1, WindowEnds
<1>3. IsWindow(n..n)
    BY <1>1 DEF IsWindow
<1>4. QED
    BY <1>1, <1>2, <1>3

\* The clean-up leaves a window with the same newest row.
LEMMA Trimmed ==
    ASSUME NEW S, IsWindow(S)
    PROVE  LET T == {b \in S : ~(b <= Max(S) - RetainMax)}
           IN  /\ T \subseteq S
               /\ IsWindow(T)
               /\ Max(T) = Max(S)
               /\ \E low \in S : T = {b \in S : b >= low}
<1>1. PICK lo \in Heights, hi \in Heights : lo <= hi /\ S = lo..hi
    BY DEF IsWindow
<1>2. lo \in Int /\ hi \in Int /\ RetainMax \in Int /\ RetainMax >= 1
    BY <1>1, BlockPullAssumption DEF Heights
<1>3. Max(S) = hi
    BY <1>1, <1>2, WindowEnds
<1> DEFINE T == {b \in S : ~(b <= Max(S) - RetainMax)}
           low == IF hi - RetainMax < lo THEN lo ELSE hi - RetainMax + 1
<1>4. low \in Int /\ lo <= low /\ low <= hi
    BY <1>1, <1>2
<1>5. T = low..hi /\ T = {b \in S : b >= low}
    BY <1>1, <1>2, <1>3, <1>4
<1>6. low \in Heights
    BY <1>1, <1>4, BlockPullAssumption DEF Heights
<1>7. Max(T) = hi
    BY <1>2, <1>4, <1>5, WindowEnds
<1>8. IsWindow(T)
    BY <1>1, <1>4, <1>5, <1>6 DEF IsWindow
<1>9. low \in S
    BY <1>1, <1>2, <1>4
<1>10. QED
    BY <1>3, <1>5, <1>7, <1>8, <1>9

\* A block number that getNextBlockNumber returns.
LEMMA NextIsNext ==
    ASSUME TypeOK, Windows, NEW g \in Groups, NEW h \in Reported(g)
    PROVE  /\ h \in Heights
           /\ NextBlockNumber(g, h) \in 0..(MaxHeight + 1)
           /\ blocks[g] # {} => NextBlockNumber(g, h) = Max(blocks[g]) + 1
<1>1. h \in Heights
    BY BlockPullAssumption DEF Reported, TypeOK, Heights
<1>2. CASE blocks[g] # {}
    <2>1. Max(blocks[g]) \in Heights
        BY <1>2, Newest DEF Windows
    <2>2. QED
        BY <1>1, <1>2, <2>1, BlockPullAssumption DEF NextBlockNumber, Heights
<1>3. CASE blocks[g] = {}
    BY <1>1, <1>3, BlockPullAssumption DEF NextBlockNumber, Heights
<1>4. QED
    BY <1>2, <1>3

-----------------------------------------------------------------------------
\* The invariant holds initially.
LEMMA InitIInv == Init => IInv
<1> SUFFICES ASSUME Init PROVE IInv
    OBVIOUS
<1>1. TypeOK
    <2>1. 0 \in Heights /\ 0 \in 0..(MaxHeight + 1) /\ 0 \in 0..MaxFail
        BY BlockPullAssumption DEF Heights
    <2>2. "idle" \in PullStates
        BY DEF PullStates
    <2>3. QED
        BY <2>1, <2>2 DEF Init, TypeOK
<1>2. Windows /\ LatchCovers /\ Ready /\ Saving
    BY DEF Init, Windows, LatchCovers, Ready, Saving, Stored
<1>3. EverStored /\ SavedInFull
    BY DEF Init, EverStored, SavedInFull, Stored
<1>4. QED
    BY <1>1, <1>2, <1>3 DEF IInv

\* A step that leaves the tables, the saving pulls and what they save alone
\* keeps what the invariant says of them.
LEMMA TablesKept ==
    ASSUME IInv, UNCHANGED <<tables, nextBlock, saved, cut, gone>>,
           \A g \in Groups : pc'[g] = "txs" <=> pc[g] = "txs"
    PROVE  Windows' /\ Saving' /\ EverStored' /\ SavedInFull'
BY DEF IInv, Windows, Saving, EverStored, SavedInFull, tables, Stored

\* A growing chain keeps the invariant.
LEMMA StepChainGrows ==
    ASSUME IInv, NEW g \in Groups, ChainGrows(g)
    PROVE  IInv'
<1>1. height[g] \in Nat /\ height[g] + 1 \in Heights
    <2>1. height[g] \in 0..MaxHeight /\ LastHeight[g] \in 0..MaxHeight
        BY BlockPullAssumption DEF IInv, TypeOK, Heights
    <2>2. height[g] < LastHeight[g]
        BY DEF ChainGrows
    <2>3. QED
        BY <2>1, <2>2, BlockPullAssumption DEF Heights
<1>2. TypeOK'
    BY <1>1 DEF IInv, TypeOK, ChainGrows, tables, locals
<1>3. Ready'
    <2>1. \A k \in Groups : height'[k] \in Int /\ height[k] \in Int
                            /\ height[k] <= height'[k]
        <3>1. \A k \in Groups : height[k] \in Int
            BY BlockPullAssumption DEF IInv, TypeOK, Heights
        <3>2. \A k \in Groups : height'[k] = IF k = g THEN height[g] + 1 ELSE height[k]
            BY DEF IInv, TypeOK, ChainGrows
        <3>3. QED
            BY <3>1, <3>2
    <2>2. \A k \in Groups : nextBlock[k] \in Int
        BY DEF IInv, TypeOK
    <2>3. QED
        BY <2>1, <2>2 DEF IInv, Ready, ChainGrows, tables, locals
<1>4. LatchCovers'
    BY DEF IInv, LatchCovers, ChainGrows
<1>5. QED
    BY <1>2, <1>3, <1>4, TablesKept DEF IInv, ChainGrows, locals

\* Reading the height keeps the invariant.
LEMMA StepReadHeight ==
    ASSUME IInv, NEW g \in Groups, ReadHeight(g)
    PROVE  IInv'
<1>1. PICK h \in Reported(g) : maxChain' = [maxChain EXCEPT ![g] = h]
    BY DEF ReadHeight
<1>2. h \in Heights
    BY NextIsNext DEF IInv
<1>3. TypeOK'
    BY <1>1, <1>2 DEF IInv, TypeOK, ReadHeight, tables, PullStates
<1>4. Ready' /\ LatchCovers'
    BY DEF IInv, TypeOK, Ready, LatchCovers, ReadHeight, tables
<1>5. \A k \in Groups : pc'[k] = "txs" <=> pc[k] = "txs"
    BY DEF IInv, TypeOK, ReadHeight
<1>6. QED
    BY <1>3, <1>4, <1>5, TablesKept DEF IInv, ReadHeight

\* Reading the next number keeps the invariant: it is the one the table takes.
LEMMA StepReadNext ==
    ASSUME IInv, NEW g \in Groups, ReadNext(g)
    PROVE  IInv'
<1>1. PICK h \in Reported(g) :
          nextBlock' = [nextBlock EXCEPT ![g] = NextBlockNumber(g, h)]
    BY DEF ReadNext
<1>2. TypeOK'
    BY <1>1, NextIsNext DEF IInv, TypeOK, ReadNext, tables, PullStates
<1>3. Ready'
    BY <1>1, NextIsNext DEF IInv, TypeOK, Ready, ReadNext, tables
<1>4. Saving' /\ LatchCovers'
    BY <1>1 DEF IInv, TypeOK, Saving, LatchCovers, ReadNext, tables, Stored
<1>5. Windows' /\ EverStored'
    BY DEF IInv, Windows, EverStored, ReadNext, tables, Stored
<1>6. SavedInFull'
    BY <1>1 DEF IInv, TypeOK, SavedInFull, ReadNext, tables, Stored
<1>7. QED
    BY <1>2, <1>3, <1>4, <1>5, <1>6 DEF IInv

\* Leaving the loop keeps the invariant.
LEMMA StepExitLoop ==
    ASSUME IInv, NEW g \in Groups, ExitLoop(g)
    PROVE  IInv'
<1>1. TypeOK'
    BY DEF IInv, TypeOK, ExitLoop, tables, locals, PullStates
<1>2. Ready' /\ LatchCovers'
    BY DEF IInv, TypeOK, Ready, LatchCovers, ExitLoop, tables, locals
<1>3. \A k \in Groups : pc'[k] = "txs" <=> pc[k] = "txs"
    BY DEF IInv, TypeOK, ExitLoop
<1>4. QED
    BY <1>1, <1>2, <1>3, TablesKept DEF IInv, ExitLoop, locals

\* Fetching an existing block keeps the invariant.
LEMMA StepFetchBlock ==
    ASSUME IInv, NEW g \in Groups, FetchBlock(g)
    PROVE  IInv'
<1>1. TypeOK'
    BY DEF IInv, TypeOK, FetchBlock, tables, locals, PullStates
<1>2. Ready' /\ LatchCovers'
    BY DEF IInv, TypeOK, Ready, LatchCovers, FetchBlock, tables, locals
<1>3. \A k \in Groups : pc'[k] = "txs" <=> pc[k] = "txs"
    BY DEF IInv, TypeOK, FetchBlock
<1>4. QED
    BY <1>1, <1>2, <1>3, TablesKept DEF IInv, FetchBlock, locals

\* Jumping over an unanswered block keeps the invariant.
LEMMA StepFetchNothing ==
    ASSUME IInv, NEW g \in Groups, FetchNothing(g)
    PROVE  IInv'
<1>1. TypeOK'
    BY DEF IInv, TypeOK, FetchNothing, tables, locals, PullStates
<1>2. Ready' /\ LatchCovers'
    BY DEF IInv, TypeOK, Ready, LatchCovers, FetchNothing, tables, locals
<1>3. \A k \in Groups : pc'[k] = "txs" <=> pc[k] = "txs"
    BY DEF IInv, TypeOK, FetchNothing
<1>4. QED
    BY <1>1, <1>2, <1>3, TablesKept DEF IInv, FetchNothing, locals

\* The statement of addBlockInfo: the row is added and becomes the newest one.
LEMMA RowAdded ==
    ASSUME IInv, NEW g \in Groups, AddBlockInfo(g)
    PROVE  /\ nextBlock[g] \in Heights
           /\ blocks' = [blocks EXCEPT ![g] = @ \cup {nextBlock[g]}]
           /\ IsWindow(blocks'[g])
           /\ Max(blocks'[g]) = nextBlock[g]
           /\ blocks[g] # {} => nextBlock[g] = Max(blocks[g]) + 1
<1>1. nextBlock[g] \in Heights
    BY BlockPullAssumption DEF IInv, TypeOK, Ready, AddBlockInfo, Heights
<1>2. blocks[g] = {} \/ (blocks[g] # {} /\ nextBlock[g] = Max(blocks[g]) + 1)
    BY DEF IInv, Ready, AddBlockInfo
<1>3. blocks' = [blocks EXCEPT ![g] = @ \cup {nextBlock[g]}]
    BY <1>2 DEF AddBlockInfo
<1>4. blocks'[g] = blocks[g] \cup {nextBlock[g]}
    BY <1>3 DEF IInv, TypeOK
<1>5. CASE blocks[g] = {}
    <2>1. blocks'[g] = {nextBlock[g]}
        BY <1>4, <1>5
    <2>2. QED
        BY <1>1, <1>3, <1>5, <2>1, Opened
<1>6. CASE blocks[g] # {}
    <2>1. IsWindow(blocks[g]) /\ nextBlock[g] = Max(blocks[g]) + 1
        BY <1>2, <1>6 DEF IInv, Windows
    <2>2. Max(blocks[g]) + 1 \in Heights
        BY <1>1, <2>1
    <2>3. /\ IsWindow(blocks[g] \cup {Max(blocks[g]) + 1})
          /\ Max(blocks[g] \cup {Max(blocks[g]) + 1}) = Max(blocks[g]) + 1
        BY <2>1, <2>2, Grown
    <2>4. blocks'[g] = blocks[g] \cup {Max(blocks[g]) + 1}
        BY <1>4, <2>1
    <2>5. IsWindow(blocks'[g]) /\ Max(blocks'[g]) = nextBlock[g]
        BY <2>1, <2>3, <2>4
    <2>6. QED
        BY <1>1, <1>3, <2>1, <2>5
<1>7. QED
    BY <1>5, <1>6

\* Adding the row keeps the invariant: it moves the newest row to the block
\* whose transactions are stored next.
LEMMA StepAddBlockInfo ==
    ASSUME IInv, NEW g \in Groups, AddBlockInfo(g)
    PROVE  IInv'
<1> USE RowAdded
<1>1. \A k \in Groups : blocks'[k] = IF k = g THEN blocks[g] \cup {nextBlock[g]}
                                     ELSE blocks[k]
    BY DEF IInv, TypeOK
<1>2. \A k \in Groups : /\ pc'[k] = IF k = g THEN "txs" ELSE pc[k]
                        /\ saved'[k] = IF k = g THEN 0 ELSE saved[k]
    BY DEF IInv, TypeOK, AddBlockInfo
<1>3. TypeOK'
    <2>1. blocks' \in [Groups -> SUBSET Heights]
        BY DEF IInv, TypeOK
    <2>2. pc' \in [Groups -> PullStates] /\ saved' \in [Groups -> Nat]
        BY DEF IInv, TypeOK, AddBlockInfo, PullStates
    <2>3. QED
        BY <2>1, <2>2 DEF IInv, TypeOK, AddBlockInfo
<1>4. Windows'
    BY <1>1 DEF IInv, Windows
<1>5. LatchCovers'
    BY <1>2 DEF IInv, LatchCovers, AddBlockInfo
<1>6. Ready'
    BY <1>1, <1>2 DEF IInv, Ready, AddBlockInfo
<1>7. Saving'
    <2> SUFFICES ASSUME NEW k \in Groups, pc'[k] = "txs"
                 PROVE  /\ blocks'[k] # {}
                        /\ nextBlock[k] = Max(blocks'[k])
                        /\ saved'[k] <= TxCount[nextBlock[k]]
                        /\ \A i \in 1..saved'[k] : <<nextBlock[k], i>> \in Stored(k)
                        /\ \A i \in Nat : i > saved'[k] =>
                              <<nextBlock[k], i>> \notin Stored(k)
        BY DEF Saving, AddBlockInfo, Stored
    <2>1. CASE k = g
        <3>1. 0 <= TxCount[nextBlock[g]]
            BY BlockPullAssumption DEF Heights
        <3>2. saved'[k] = 0 /\ 1..0 = {}
            BY <1>2, <2>1
        <3>3. blocks'[k] # {}
            BY <1>1, <2>1
        <3>4. ASSUME NEW i \in Nat, <<nextBlock[g], i>> \in Stored(g)
              PROVE  FALSE
            <4>1. blocks[g] # {} /\ nextBlock[g] <= Max(blocks[g])
                BY <3>4 DEF IInv, EverStored
            <4>2. nextBlock[g] = Max(blocks[g]) + 1
                BY <4>1
            <4>3. Max(blocks[g]) \in Int
                BY <4>1, Newest, BlockPullAssumption DEF IInv, Windows, Heights
            <4>4. QED
                BY <4>1, <4>2, <4>3
        <3>5. QED
            BY <2>1, <3>1, <3>2, <3>3, <3>4
    <2>2. CASE k # g
        BY <1>1, <1>2, <2>2 DEF IInv, Saving, Stored
    <2>3. QED
        BY <2>1, <2>2
<1>8. EverStored'
    <2> SUFFICES ASSUME NEW t \in Stored(g)
                 PROVE  blocks'[g] # {} /\ t[1] <= Max(blocks'[g])
        BY <1>1 DEF IInv, EverStored, AddBlockInfo, Stored
    <2>1. blocks[g] # {} /\ t[1] <= Max(blocks[g])
        BY DEF IInv, EverStored, Stored
    <2>2. t[1] \in Int /\ Max(blocks[g]) \in Int
        <3>1. Max(blocks[g]) \in Heights
            BY <2>1, Newest DEF IInv, Windows
        <3>2. t \in AllTxs
            BY DEF IInv, TypeOK, Stored
        <3>3. t[1] \in Heights
            BY <3>2 DEF AllTxs, Txs
        <3>4. QED
            BY <3>1, <3>3, BlockPullAssumption DEF Heights
    <2>3. QED
        BY <1>1, <2>1, <2>2
<1>9. SavedInFull'
    BY <1>1, <1>2 DEF IInv, SavedInFull, AddBlockInfo, Stored
<1>10. QED
    BY <1>3, <1>4, <1>5, <1>6, <1>7, <1>8, <1>9 DEF IInv

\* Storing one transaction keeps the invariant.
LEMMA StepAddTransInfo ==
    ASSUME IInv, NEW g \in Groups, AddTransInfo(g)
    PROVE  IInv'
<1> DEFINE n == nextBlock[g]
           t == <<n, saved[g] + 1>>
<1>1. n \in Heights /\ saved[g] \in Nat /\ TxCount[n] \in Nat /\ saved[g] < TxCount[n]
    BY BlockPullAssumption DEF IInv, TypeOK, Ready, AddTransInfo, Heights
<1>2. t \in Txs(n) /\ t \in AllTxs
    BY <1>1 DEF Txs, AllTxs
<1>3. \A k \in Groups : /\ trans'[k] = IF k = g THEN trans[g] \cup {t} ELSE trans[k]
                        /\ saved'[k] = IF k = g THEN saved[g] + 1 ELSE saved[k]
    BY DEF IInv, TypeOK, AddTransInfo
<1>10. \A k \in Groups :
          Stored(k)' = IF k = g THEN Stored(g) \cup {t} ELSE Stored(k)
    BY <1>3 DEF AddTransInfo, Stored
<1>4. TypeOK'
    <2>1. trans' \in [Groups -> SUBSET AllTxs]
        BY <1>2 DEF IInv, TypeOK, AddTransInfo
    <2>2. saved' \in [Groups -> Nat]
        BY <1>1 DEF IInv, TypeOK, AddTransInfo
    <2>3. QED
        BY <2>1, <2>2 DEF IInv, TypeOK, AddTransInfo
<1>5. Windows' /\ LatchCovers' /\ Ready'
    BY DEF IInv, Windows, LatchCovers, Ready, AddTransInfo
<1>6. Saving'
    <2>1. \A i \in 1..(saved[g] + 1) : i \in 1..saved[g] \/ i = saved[g] + 1
        BY <1>1
    <2>2. saved[g] + 1 <= TxCount[n]
        BY <1>1
    <2>3. pc[g] = "txs" /\ blocks[g] # {} /\ n = Max(blocks[g])
        BY DEF IInv, Saving, AddTransInfo, Stored
    <2>4. \A i \in 1..(saved[g] + 1) : <<n, i>> \in Stored(g)'
        BY <1>3, <1>10, <2>1, <2>3 DEF IInv, Saving
    <2>5. \A i \in Nat : i > saved[g] + 1 => <<n, i>> \notin Stored(g)'
        BY <1>1, <1>10, <2>3 DEF IInv, Saving
    <2>6. QED
        BY <1>3, <1>10, <2>2, <2>3, <2>4, <2>5 DEF IInv, Saving, AddTransInfo
<1>7. EverStored'
    <2>1. blocks[g] # {} /\ n = Max(blocks[g]) /\ t[1] = n /\ n <= n
        BY <1>1, BlockPullAssumption DEF IInv, Saving, AddTransInfo, Heights, Stored
    <2>2. QED
        BY <1>3, <2>1 DEF IInv, EverStored, AddTransInfo, Stored
<1>8. SavedInFull'
    <2>1. t \notin Stored(g)
        BY <1>1 DEF IInv, Saving, AddTransInfo
    <2>2. \A k \in Groups : trans'[k] \cap gone'[k] = {}
        BY <1>3, <2>1 DEF IInv, SavedInFull, AddTransInfo, Stored
    <2>3. QED
        BY <1>10, <2>2 DEF IInv, SavedInFull, AddTransInfo
<1>9. QED
    BY <1>4, <1>5, <1>6, <1>7, <1>8 DEF IInv

\* The end of a save keeps the invariant: all transactions are stored.
LEMMA StepSaveDone ==
    ASSUME IInv, NEW g \in Groups, SaveDone(g)
    PROVE  IInv'
<1>1. \A k \in Groups : pc'[k] = IF k = g THEN "refresh" ELSE pc[k]
    BY DEF IInv, TypeOK, SaveDone
<1>2. TypeOK'
    BY DEF IInv, TypeOK, SaveDone, tables, locals, PullStates
<1>3. Windows' /\ EverStored'
    BY DEF IInv, Windows, EverStored, SaveDone, tables, Stored
<1>4. LatchCovers' /\ Ready' /\ Saving'
    BY <1>1 DEF IInv, LatchCovers, Ready, Saving, SaveDone, tables, locals, Stored
<1>5. Txs(nextBlock[g]) \subseteq Stored(g)
    BY DEF IInv, Saving, SaveDone, Txs, Stored
<1>6. SavedInFull'
    BY <1>1, <1>5 DEF IInv, SavedInFull, SaveDone, tables, locals, Stored
<1>7. QED
    BY <1>2, <1>3, <1>4, <1>6 DEF IInv

\* The end of the loop body keeps the invariant.
LEMMA StepRefresh ==
    ASSUME IInv, NEW g \in Groups, Refresh(g)
    PROVE  IInv'
<1>1. PICK h \in Reported(g), top \in Reported(g) :
          /\ nextBlock' = [nextBlock EXCEPT ![g] = NextBlockNumber(g, h)]
          /\ maxChain' = [maxChain EXCEPT ![g] =
                             IF @ < NextBlockNumber(g, h) THEN top ELSE @]
    BY DEF Refresh
<1>2. \A k \in Groups : /\ nextBlock'[k] = IF k = g THEN NextBlockNumber(g, h)
                                           ELSE nextBlock[k]
                        /\ pc'[k] = IF k = g THEN "loop" ELSE pc[k]
    BY <1>1 DEF IInv, TypeOK, Refresh
<1>3. TypeOK'
    <2>1. top \in Heights /\ NextBlockNumber(g, h) \in 0..(MaxHeight + 1)
        BY NextIsNext DEF IInv
    <2>2. nextBlock' \in [Groups -> 0..(MaxHeight + 1)]
        BY <1>1, <2>1 DEF IInv, TypeOK
    <2>3. maxChain' \in [Groups -> Heights]
        BY <1>1, <2>1 DEF IInv, TypeOK
    <2>4. pc' \in [Groups -> PullStates]
        BY DEF IInv, TypeOK, Refresh, PullStates
    <2>5. QED
        BY <2>2, <2>3, <2>4 DEF IInv, TypeOK, Refresh, tables
<1>4. Ready'
    <2>1. blocks[g] # {} => NextBlockNumber(g, h) = Max(blocks[g]) + 1
        BY NextIsNext DEF IInv
    <2>2. QED
        BY <1>2, <2>1 DEF IInv, Ready, Refresh, tables
<1>5. LatchCovers' /\ Saving'
    BY <1>2 DEF IInv, LatchCovers, Saving, Refresh, tables, Stored
<1>6. Windows' /\ EverStored'
    BY DEF IInv, Windows, EverStored, Refresh, tables, Stored
<1>7. SavedInFull'
    BY <1>2 DEF IInv, SavedInFull, Refresh, tables, Stored
<1>8. QED
    BY <1>3, <1>4, <1>5, <1>6, <1>7 DEF IInv

\* An interrupted save is recorded: what g leaves behind is in cut afterwards.
LEMMA Interrupted ==
    ASSUME IInv, NEW g \in Groups, pc[g] = "txs",
           nextBlock[g] \notin Unfinished(g)
    PROVE  Txs(nextBlock[g]) \subseteq Stored(g)
<1>1. nextBlock[g] \in Heights
    BY BlockPullAssumption DEF IInv, TypeOK, Ready, Heights
<1>2. TxCount[nextBlock[g]] \in Nat /\ saved[g] \in Nat
    BY <1>1, BlockPullAssumption DEF IInv, TypeOK, Heights
<1>3. saved[g] = TxCount[nextBlock[g]]
    BY <1>2 DEF IInv, Saving, Unfinished, Stored
<1>4. QED
    BY <1>3 DEF IInv, Saving, Txs, Stored

\* What an interruption leaves behind are blocks of the chain.
LEMMA UnfinishedType ==
    ASSUME IInv, NEW g \in Groups
    PROVE  Unfinished(g) \subseteq Heights
BY BlockPullAssumption DEF IInv, TypeOK, Ready, Unfinished, Heights

\* A failing call keeps the invariant.
LEMMA StepPullFails ==
    ASSUME IInv, NEW g \in Groups, PullFails(g)
    PROVE  IInv'
<1>1. \A k \in Groups : /\ pc'[k] = IF k = g THEN "idle" ELSE pc[k]
                        /\ cut'[k] = IF k = g THEN cut[g] \cup Unfinished(g)
                                     ELSE cut[k]
    BY DEF IInv, TypeOK, PullFails
<1>2. TypeOK'
    <2>1. cut' \in [Groups -> SUBSET Heights]
        BY UnfinishedType DEF IInv, TypeOK, PullFails
    <2>2. fails' \in 0..MaxFail
        BY BlockPullAssumption DEF IInv, TypeOK, PullFails
    <2>3. pc' \in [Groups -> PullStates]
        BY DEF IInv, TypeOK, PullFails, PullStates
    <2>4. QED
        BY <2>1, <2>2, <2>3 DEF IInv, TypeOK, PullFails, tables, locals
<1>3. Windows' /\ EverStored'
    BY DEF IInv, Windows, EverStored, PullFails, tables, Stored
<1>4. LatchCovers' /\ Ready' /\ Saving'
    BY <1>1 DEF IInv, LatchCovers, Ready, Saving, PullFails, tables, locals, Stored
<1>5. SavedInFull'
    BY <1>1, Interrupted DEF IInv, SavedInFull, PullFails, tables, locals, Stored
<1>6. QED
    BY <1>2, <1>3, <1>4, <1>5 DEF IInv

\* A crash keeps the invariant.
LEMMA StepCrash ==
    ASSUME IInv, Crash
    PROVE  IInv'
<1>1. \A k \in Groups : /\ pc'[k] = "idle"
                        /\ cut'[k] = cut[k] \cup Unfinished(k)
    BY DEF Crash
<1>2. TypeOK'
    <2>1. cut' \in [Groups -> SUBSET Heights]
        BY UnfinishedType DEF IInv, TypeOK, Crash
    <2>2. fails' \in 0..MaxFail
        BY BlockPullAssumption DEF IInv, TypeOK, Crash
    <2>3. pc' \in [Groups -> PullStates] /\ waiting' \in BOOLEAN
        BY DEF Crash, PullStates
    <2>4. QED
        BY <2>1, <2>2, <2>3 DEF IInv, TypeOK, Crash, tables, locals
<1>3. Windows' /\ EverStored'
    BY DEF IInv, Windows, EverStored, Crash, tables, Stored
<1>4. LatchCovers' /\ Ready' /\ Saving'
    BY <1>1 DEF LatchCovers, Ready, Saving, Stored
<1>5. SavedInFull'
    BY <1>1, Interrupted DEF IInv, SavedInFull, Crash, tables, Stored
<1>6. QED
    BY <1>2, <1>3, <1>4, <1>5 DEF IInv

\* The start of a round keeps the invariant.
LEMMA StepPullBlockStart ==
    ASSUME IInv, PullBlockStart
    PROVE  IInv'
<1>1. \A k \in Groups : pc[k] = "idle" /\ pc'[k] = "height"
    BY DEF IInv, LatchCovers, PullBlockStart
<1>2. TypeOK'
    BY DEF IInv, TypeOK, PullBlockStart, tables, locals, PullStates
<1>3. LatchCovers' /\ Ready'
    BY <1>1 DEF LatchCovers, Ready, PullBlockStart
<1>4. \A k \in Groups : pc'[k] = "txs" <=> pc[k] = "txs"
    BY <1>1
<1>5. QED
    BY <1>2, <1>3, <1>4, TablesKept DEF IInv, PullBlockStart, locals

\* The end of a round keeps the invariant.
LEMMA StepPullBlockEnd ==
    ASSUME IInv, PullBlockEnd
    PROVE  IInv'
<1>1. TypeOK'
    BY DEF IInv, TypeOK, PullBlockEnd, tables, locals
<1>2. LatchCovers' /\ Ready'
    BY DEF IInv, LatchCovers, Ready, PullBlockEnd, tables, locals
<1>3. QED
    BY <1>1, <1>2, TablesKept DEF IInv, PullBlockEnd, locals

\* The clean-up keeps the invariant: the newest row stays.
LEMMA StepDeleteBlock ==
    ASSUME IInv, NEW g \in Groups, DeleteBlock(g)
    PROVE  IInv'
<1> DEFINE T == {b \in blocks[g] : ~(b <= Max(blocks[g]) - RetainMax)}
<1>1. IsWindow(blocks[g])
    BY DEF IInv, Windows, DeleteBlock
<1>2. T \subseteq blocks[g] /\ IsWindow(T) /\ Max(T) = Max(blocks[g])
    BY <1>1, Trimmed
<1>3. blocks[g] # {} /\ T # {}
    BY <1>1, <1>2, Newest
<1>4. blocks' = [blocks EXCEPT ![g] = T]
    BY DEF DeleteBlock
<1> HIDE DEF T
<1>5. \A k \in Groups : blocks'[k] = IF k = g THEN T ELSE blocks[k]
    BY <1>4 DEF IInv, TypeOK
<1>6. TypeOK'
    <2>1. blocks' \in [Groups -> SUBSET Heights]
        BY <1>2, <1>4 DEF IInv, TypeOK
    <2>2. QED
        BY <2>1 DEF IInv, TypeOK, DeleteBlock, locals
<1>7. Windows'
    BY <1>2, <1>5 DEF IInv, Windows
<1>8. \A k \in Groups : /\ blocks'[k] = {} <=> blocks[k] = {}
                        /\ Max(blocks'[k]) = Max(blocks[k])
                        /\ blocks'[k] \subseteq blocks[k]
    BY <1>2, <1>3, <1>5
<1>9. LatchCovers' /\ Ready' /\ Saving'
    BY <1>8 DEF IInv, LatchCovers, Ready, Saving, DeleteBlock, locals, Stored
<1>10. EverStored' /\ SavedInFull'
    BY <1>8 DEF IInv, EverStored, SavedInFull, DeleteBlock, locals, Stored
<1>11. QED
    BY <1>6, <1>7, <1>9, <1>10 DEF IInv

\* Trimming the transactions keeps the invariant: what is taken stays stored
\* in the sense of Stored, and what is taken was in the table.
LEMMA StepDeleteTransHash ==
    ASSUME IInv, NEW g \in Groups, DeleteTransHash(g)
    PROVE  IInv'
<1>1. PICK counted \in SUBSET trans[g] :
          /\ trans' = [trans EXCEPT ![g] = @ \ counted]
          /\ gone' = [gone EXCEPT ![g] = @ \cup counted]
    BY DEF DeleteTransHash
<1>2. \A k \in Groups :
          /\ trans'[k] = IF k = g THEN trans[g] \ counted ELSE trans[k]
          /\ gone'[k] = IF k = g THEN gone[g] \cup counted ELSE gone[k]
    BY <1>1 DEF IInv, TypeOK
<1>3. \A k \in Groups : Stored(k)' = Stored(k)
    BY <1>2 DEF Stored
<1>4. TypeOK'
    <2>1. trans' \in [Groups -> SUBSET AllTxs] /\ gone' \in [Groups -> SUBSET AllTxs]
        BY <1>1 DEF IInv, TypeOK
    <2>2. QED
        BY <2>1 DEF IInv, TypeOK, DeleteTransHash, locals
<1>5. Windows' /\ LatchCovers' /\ Ready'
    BY DEF IInv, Windows, LatchCovers, Ready, DeleteTransHash, locals
<1>6. Saving' /\ EverStored'
    BY <1>3 DEF IInv, Saving, EverStored, DeleteTransHash, locals
<1>7. SavedInFull'
    <2>1. \A k \in Groups : trans'[k] \cap gone'[k] = {}
        BY <1>2 DEF IInv, SavedInFull
    <2>2. QED
        BY <1>3, <2>1 DEF IInv, SavedInFull, DeleteTransHash, locals
<1>8. QED
    BY <1>4, <1>5, <1>6, <1>7 DEF IInv

\* Every step keeps the invariant.
LEMMA NextIInv == IInv /\ [Next]_vars => IInv'
<1> SUFFICES ASSUME IInv, [Next]_vars PROVE IInv'
    OBVIOUS
<1>1. CASE PullBlockStart
    BY <1>1, StepPullBlockStart
<1>2. CASE PullBlockEnd
    BY <1>2, StepPullBlockEnd
<1>3. CASE Crash
    BY <1>3, StepCrash
<1>4. ASSUME NEW g \in Groups, PullStep(g) PROVE IInv'
    BY <1>4, StepReadHeight, StepReadNext, StepExitLoop, StepFetchBlock,
       StepAddBlockInfo, StepAddTransInfo, StepSaveDone, StepRefresh
    DEF PullStep
<1>5. ASSUME NEW g \in Groups,
             \/ ChainGrows(g) \/ FetchNothing(g) \/ PullFails(g)
             \/ DeleteBlock(g) \/ DeleteTransHash(g)
      PROVE  IInv'
    BY <1>5, StepChainGrows, StepFetchNothing, StepPullFails, StepDeleteBlock,
       StepDeleteTransHash
<1>6. CASE UNCHANGED vars
    BY <1>6 DEF vars, IInv, TypeOK, Windows, LatchCovers, Ready, Saving,
                EverStored, SavedInFull, Unfinished, Stored
<1>7. QED
    BY <1>1, <1>2, <1>3, <1>4, <1>5, <1>6 DEF Next

\* The invariant holds in every reachable state.
THEOREM Inductive == Spec => []IInv
BY InitIInv, NextIInv, PTL DEF Spec

-----------------------------------------------------------------------------
(***************************************************************************)
(* What follows from the invariant.                                        *)
(***************************************************************************)

\* Type correctness of the pull and the clean-up.
THEOREM TypeCorrect == Spec => []TypeOK
<1>1. IInv => TypeOK
    BY DEF IInv
<1>2. QED
    BY <1>1, Inductive, PTL

\* Stored transactions belong to blocks the table has taken.
THEOREM TransStored == Spec => []TransOfStoredBlocks
<1>1. IInv => TransOfStoredBlocks
    BY DEF IInv, EverStored, Stored, TransOfStoredBlocks
<1>2. QED
    BY <1>1, Inductive, PTL

\* Only an interrupted save leaves transactions of a stored block unstored, and
\* none that the clean-up took is stored again.
THEOREM SavedFull == Spec => []SavedInFull
<1>1. IInv => SavedInFull
    BY DEF IInv
<1>2. QED
    BY <1>1, Inductive, PTL

\* The count by max - min + 1 is the number of rows.
THEOREM CountExact == Spec => []CountByMinMax
<1>1. IInv => CountByMinMax
    <2> SUFFICES ASSUME IInv, NEW g \in Groups, blocks[g] # {}
                 PROVE  Cardinality(blocks[g])
                            = Max(blocks[g]) - Min(blocks[g]) + 1
        BY DEF CountByMinMax
    <2>1. PICK lo \in Heights, hi \in Heights : lo <= hi /\ blocks[g] = lo..hi
        BY DEF IInv, Windows, IsWindow
    <2>2. lo \in Int /\ hi \in Int
        BY <2>1, BlockPullAssumption DEF Heights
    <2>3. Max(blocks[g]) = hi /\ Min(blocks[g]) = lo
        BY <2>1, <2>2, WindowEnds
    <2>4. Cardinality(lo..hi) = hi - lo + 1
        BY <2>1, <2>2, FS_Interval
    <2>5. QED
        BY <2>1, <2>3, <2>4
<1>2. QED
    BY <1>1, Inductive, PTL

\* Every step of the pull is a step of the window or leaves the window alone.
LEMMA StepMirrors == IInv /\ [Next]_vars => [Mirror!MirrorNext]_blocks
<1> SUFFICES ASSUME IInv, [Next]_vars, blocks' # blocks
             PROVE  Mirror!MirrorNext
    OBVIOUS
<1>1. CASE \E g \in Groups : AddBlockInfo(g)
    <2>1. PICK g \in Groups : AddBlockInfo(g)
        BY <1>1
    <2>2. /\ nextBlock[g] \in Heights
          /\ blocks' = [blocks EXCEPT ![g] = @ \cup {nextBlock[g]}]
          /\ blocks[g] # {} => nextBlock[g] = Max(blocks[g]) + 1
        BY <2>1, RowAdded
    <2>3. CASE blocks[g] = {}
        <3>1. blocks' = [blocks EXCEPT ![g] = {nextBlock[g]}]
            BY <2>2, <2>3
        <3>2. Mirror!OpenWindow(g)
            BY <2>2, <2>3, <3>1 DEF Mirror!OpenWindow, Mirror!Heights, Heights
        <3>3. QED
            BY <3>2 DEF Mirror!MirrorNext
    <2>4. CASE blocks[g] # {}
        <3>1. Max(blocks[g]) \in blocks[g]
              /\ \A b \in blocks[g] : b <= Max(blocks[g])
            BY <2>4, Newest DEF IInv, Windows
        <3>2. Mirror!ExtendWindow(g)
            BY <2>2, <2>4, <3>1 DEF Mirror!ExtendWindow, Mirror!Heights, Heights
        <3>3. QED
            BY <3>2 DEF Mirror!MirrorNext
    <2>5. QED
        BY <2>3, <2>4
<1>2. CASE \E g \in Groups : DeleteBlock(g)
    <2>1. PICK g \in Groups : DeleteBlock(g)
        BY <1>2
    <2>2. IsWindow(blocks[g])
        BY <2>1 DEF IInv, Windows, DeleteBlock
    <2>3. PICK low \in blocks[g] :
              {b \in blocks[g] : ~(b <= Max(blocks[g]) - RetainMax)}
                  = {b \in blocks[g] : b >= low}
        BY <2>2, Trimmed
    <2>4. blocks' = [blocks EXCEPT ![g] = {b \in blocks[g] : b >= low}]
        BY <2>1, <2>3 DEF DeleteBlock
    <2>5. Mirror!TrimWindow(g)
        BY <2>3, <2>4 DEF Mirror!TrimWindow
    <2>6. QED
        BY <2>5 DEF Mirror!MirrorNext
<1>3. QED
    BY <1>1, <1>2
    DEF Next, PullStep, PullBlockStart, PullBlockEnd, Crash, ChainGrows,
        ReadHeight, ReadNext, ExitLoop, FetchBlock, FetchNothing,
        AddTransInfo, SaveDone, Refresh, PullFails, DeleteTransHash, tables, vars

\* The block table of every group implements BlockMirror.
THEOREM Refinement == Spec => MirrorsChain
<1>1. Init => Mirror!MirrorInit
    BY DEF Init, Mirror!MirrorInit
<1>2. QED
    BY <1>1, StepMirrors, Inductive, PTL DEF Spec, MirrorsChain, Mirror!MirrorSpec
=============================================================================
