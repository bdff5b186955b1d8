---------------------------- MODULE BlockFileInfo ----------------------------
(***************************************************************************)
(* class CBlockFileInfo of chain.h: what the node knows of one block file, *)
(* the number of blocks in it and the range of their heights and times.    *)
(* The sizes nSize and nUndoSize are kept by the code that writes the      *)
(* file, not by AddBlock, and are left out.                                *)
(***************************************************************************)
EXTENDS Naturals

\* class CBlockFileInfo: the number of blocks stored in the file, and the
\* lowest and highest height and the earliest and latest time of a block in
\* it.
FileInfo ==
    [nBlocks : Nat, nHeightFirst : Nat, nHeightLast : Nat,
     nTimeFirst : Nat, nTimeLast : Nat]

\* void SetNull(), and the constructor.
NullFileInfo ==
    [nBlocks |-> 0, nHeightFirst |-> 0, nHeightLast |-> 0,
     nTimeFirst |-> 0, nTimeLast |-> 0]

\* AddBlock that takes the zeros of SetNull for the range of an empty file.
AddBlockToRangeFromZero(info, nHeightIn, nTimeIn) ==
    [nBlocks      |-> info.nBlocks + 1,
     nHeightFirst |-> IF info.nHeightFirst > nHeightIn THEN nHeightIn ELSE info.nHeightFirst,
     nTimeFirst   |-> IF info.nTimeFirst > nTimeIn THEN nTimeIn ELSE info.nTimeFirst,
     nHeightLast  |-> IF nHeightIn > info.nHeightLast THEN nHeightIn ELSE info.nHeightLast,
     nTimeLast    |-> IF nTimeIn > info.nTimeLast THEN nTimeIn ELSE info.nTimeLast]

\* void AddBlock(nHeightIn, nTimeIn): update statistics.
AddBlock(info, nHeightIn, nTimeIn) ==
    LET empty == info.nBlocks = 0
    IN [nBlocks      |-> info.nBlocks + 1,
        nHeightFirst |-> IF empty \/ info.nHeightFirst > nHeightIn
                         THEN nHeightIn ELSE info.nHeightFirst,
        nTimeFirst   |-> IF empty \/ info.nTimeFirst > nTimeIn
                         THEN nTimeIn ELSE info.nTimeFirst,
        nHeightLast  |-> IF nHeightIn > info.nHeightLast THEN nHeightIn ELSE info.nHeightLast,
        nTimeLast    |-> IF nTimeIn > info.nTimeLast THEN nTimeIn ELSE info.nTimeLast]

=============================================================================
