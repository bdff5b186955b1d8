--------------------------- MODULE BlockIndexEntry ---------------------------
(***************************************************************************)
(* One entry of the block index: enum BlockStatus and the methods of class *)
(* CBlockIndex in chain.h that read or change a single entry.              *)
(*                                                                         *)
(* An entry is a record; a method that changes the entry is an operator    *)
(* from the entry to the changed entry.  nStatus and nFlags stay the bit   *)
(* fields they are in the code.  An operator reads only the fields its     *)
(* method reads, so the modules that keep fewer fields can use it.         *)
(***************************************************************************)
EXTENDS Integers, Bitwise

\* enum BlockStatus
BLOCK_VALID_UNKNOWN      == 0
BLOCK_VALID_RESERVED     == 1
BLOCK_VALID_TREE         == 2
BLOCK_VALID_TRANSACTIONS == 3
BLOCK_VALID_CHAIN        == 4
BLOCK_VALID_SCRIPTS      == 5
BLOCK_VALID_MASK         == 7
BLOCK_HAVE_DATA          == 8
BLOCK_HAVE_UNDO          == 16
BLOCK_HAVE_MASK          == 24
BLOCK_FAILED_VALID       == 32
BLOCK_FAILED_CHILD       == 64
BLOCK_FAILED_MASK        == 96
BLOCK_OPT_WITNESS        == 128

\* The validity levels a caller may pass as nUpTo.
ValidityLevel ==
    {BLOCK_VALID_TREE, BLOCK_VALID_TRANSACTIONS, BLOCK_VALID_CHAIN, BLOCK_VALID_SCRIPTS}

\* The anonymous enum of nFlags.
BLOCK_PROOF_OF_STAKE == 1
BLOCK_STAKE_ENTROPY  == 2
BLOCK_STAKE_MODIFIER == 4
BLOCK_STAKE_MOD_V2   == 8
BLOCK_TREASURY_AWARD == 16

\* Every bit the two enums define lies in the low byte of nStatus and of
\* nFlags.  The operators & and | of Bitwise work bit by bit; their values
\* on bytes are tabulated here, once.
Byte == 0..255

AndOfBytes == [x \in Byte |-> [y \in Byte |-> x & y]]

OrOfBytes == [x \in Byte |-> [y \in Byte |-> x | y]]

\* x & y
BitAnd(x, y) == AndOfBytes[x][y]

\* x | y
BitOr(x, y) == OrOfBytes[x][y]

\* bits & ~mask
ClearBits(bits, mask) == bits - BitAnd(bits, mask)

HasAny(bits, mask) == BitAnd(bits, mask) # 0

-----------------------------------------------------------------------------
(* Mutations of the methods below.                                         *)

\* IsValid() that tests BLOCK_FAILED_VALID where it has to test the mask.
IsValidIgnoringFailedChild(pindex, nUpTo) ==
    /\ ~HasAny(pindex.nStatus, BLOCK_FAILED_VALID)
    /\ BitAnd(pindex.nStatus, BLOCK_VALID_MASK) >= nUpTo

\* RaiseValidity() that stores the level without comparing it.
RaiseValiditySetsLevel(pindex, nUpTo) ==
    IF HasAny(pindex.nStatus, BLOCK_FAILED_MASK) THEN pindex
    ELSE [pindex EXCEPT !.nStatus = BitOr(ClearBits(@, BLOCK_VALID_MASK), nUpTo)]

\* RaiseValidity() that ORs the level into the status.
RaiseValidityOrsLevel(pindex, nUpTo) ==
    IF HasAny(pindex.nStatus, BLOCK_FAILED_MASK) THEN pindex
    ELSE [pindex EXCEPT !.nStatus = BitOr(@, nUpTo)]

-----------------------------------------------------------------------------

\* bool IsValid(nUpTo)
IsValid(pindex, nUpTo) ==
    /\ ~HasAny(pindex.nStatus, BLOCK_FAILED_MASK)
    /\ BitAnd(pindex.nStatus, BLOCK_VALID_MASK) >= nUpTo

\* bool RaiseValidity(nUpTo): the entry after the call; the call returns true
\* iff the entry changed.
RaiseValidity(pindex, nUpTo) ==
    IF ~HasAny(pindex.nStatus, BLOCK_FAILED_MASK)
          /\ BitAnd(pindex.nStatus, BLOCK_VALID_MASK) < nUpTo
    THEN [pindex EXCEPT !.nStatus = BitOr(ClearBits(@, BLOCK_VALID_MASK), nUpTo)]
    ELSE pindex

HaveTxsDownloaded(pindex) == pindex.nChainTx # 0

GetBlockTime(pindex) == pindex.nTime

GetBlockTimeMax(pindex) == pindex.nTimeMax

-----------------------------------------------------------------------------
(* peercoin: the proof-of-stake flags                                      *)

IsProofOfStake(pindex) == HasAny(pindex.nFlags, BLOCK_PROOF_OF_STAKE)

IsProofOfWork(pindex) == ~IsProofOfStake(pindex)

SetProofOfStake(pindex) == [pindex EXCEPT !.nFlags = BitOr(@, BLOCK_PROOF_OF_STAKE)]

GetStakeEntropyBit(pindex) == BitAnd(pindex.nFlags, BLOCK_STAKE_ENTROPY) \div 2

\* bool SetStakeEntropyBit(nEntropyBit): the entry after the call.  The bit
\* is ORed in: a set bit is never cleared.
SetStakeEntropyBit(pindex, nEntropyBit) ==
    IF nEntropyBit > 1 THEN pindex
    ELSE [pindex EXCEPT !.nFlags = BitOr(@, IF nEntropyBit # 0 THEN BLOCK_STAKE_ENTROPY ELSE 0)]

GeneratedStakeModifier(pindex) == HasAny(pindex.nFlags, BLOCK_STAKE_MODIFIER)

UsesStakeModifierV2(pindex) == HasAny(pindex.nFlags, BLOCK_STAKE_MOD_V2)

SetStakeModifier(pindex, nModifier, fGeneratedStakeModifier) ==
    [pindex EXCEPT
        !.nStakeModifier = nModifier,
        !.nFlags = IF fGeneratedStakeModifier THEN BitOr(@, BLOCK_STAKE_MODIFIER) ELSE @]

SetStakeModifierV2(pindex, nModifier, fGeneratedStakeModifier) ==
    [pindex EXCEPT
        !.nStakeModifierV2 = nModifier,
        !.nFlags = IF fGeneratedStakeModifier
                   THEN BitOr(@, BitOr(BLOCK_STAKE_MODIFIER, BLOCK_STAKE_MOD_V2)) ELSE @]

IsTreasuryBlock(pindex) == HasAny(pindex.nFlags, BLOCK_TREASURY_AWARD)

SetTreasuryBlock(pindex) == [pindex EXCEPT !.nFlags = BitOr(@, BLOCK_TREASURY_AWARD)]

=============================================================================
