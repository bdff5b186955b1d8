---------------------------- MODULE ChainSelection ----------------------------
(***************************************************************************)
(* What the node promises about its active chain, without the index, the   *)
(* statuses and the slots: the chain is a path of blocks from a genesis    *)
(* block, and it is only ever replaced by a path with strictly more work.  *)
(***************************************************************************)
EXTENDS Naturals, Sequences

CONSTANTS
    Hash,      \* the block hashes of the universe
    NullHash,  \* no block
    Block      \* hash -> [hashPrevBlock, proof, ...]

VARIABLE chain   \* the selected path, the genesis block first

\* The path from the genesis block to tip.
RECURSIVE PathTo(_)
PathTo(tip) ==
    IF tip = NullHash THEN <<>> ELSE Append(PathTo(Block[tip].hashPrevBlock), tip)

RECURSIVE Work(_)
Work(path) ==
    IF path = <<>> THEN 0
    ELSE Block[path[Len(path)]].proof + Work(SubSeq(path, 1, Len(path) - 1))

Init == chain = <<>>

\* The node moves to the branch of tip, which has more work.
Select(tip) ==
    /\ Work(PathTo(tip)) > Work(chain)
    /\ chain' = PathTo(tip)

Next == \E tip \in Hash : Select(tip)

Spec == Init /\ [][Next]_chain
=============================================================================
