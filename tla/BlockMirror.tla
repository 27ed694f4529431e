---------------------------- MODULE BlockMirror ----------------------------
(***************************************************************************)
(* What the local block tables (tb_block_<group>) promise to their readers *)
(* (the daily statistics, the page that counts blocks as max - min + 1):   *)
(* the rows of a group are a gap-free window of the chain.  The window     *)
(* appears with one block, grows by exactly one block at its upper end and *)
(* is only ever trimmed at its lower end, never down to nothing.           *)
(*                                                                         *)
(* This is the abstract specification that BlockPull implements, and the   *)
(* environment on which TransDaily is built.                               *)
(***************************************************************************)
EXTENDS Integers

CONSTANTS Groups,    \* the groups of the chain whose blocks are mirrored
          MaxHeight  \* bound: the chains stop growing at this height

VARIABLE blocks      \* [Groups -> set of block numbers with a row in tb_block]

Heights == 0..MaxHeight

MirrorInit == blocks = [g \in Groups |-> {}]

\* The first block pulled of a group opens the window, wherever that is.
OpenWindow(g) ==
    /\ blocks[g] = {}
    /\ \E n \in Heights : blocks' = [blocks EXCEPT ![g] = {n}]

\* The block after the newest row is added (addBlockInfo's dbMaxBLock + 1).
ExtendWindow(g) ==
    \E top \in blocks[g] :
        /\ \A b \in blocks[g] : b <= top
        /\ top + 1 \in Heights
        /\ blocks' = [blocks EXCEPT ![g] = @ \cup {top + 1}]

\* The clean-up task removes the oldest rows; at least one row stays.
TrimWindow(g) ==
    \E low \in blocks[g] :
        blocks' = [blocks EXCEPT ![g] = {b \in @ : b >= low}]

MirrorNext == \E g \in Groups : OpenWindow(g) \/ ExtendWindow(g) \/ TrimWindow(g)

MirrorSpec == MirrorInit /\ [][MirrorNext]_blocks
=============================================================================
