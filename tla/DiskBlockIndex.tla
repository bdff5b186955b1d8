---------------------------- MODULE DiskBlockIndex ----------------------------
(***************************************************************************)
(* The persistence codec of the block index: class CDiskBlockIndex of      *)
(* chain.h, and the life of one index entry between memory and disk.       *)
(*                                                                         *)
(* The entry is changed in memory by the setters of CBlockIndex as the     *)
(* block is stored and its proof-of-stake fields are computed; a flush     *)
(* writes the record SERIALIZE_METHODS produces; after a restart the entry *)
(* is what the record reads back into a fresh CBlockIndex.                 *)
(*                                                                         *)
(* A record is the sequence of the values written, in order: which fields  *)
(* follow is decided, when reading, by the nStatus and nFlags read before  *)
(* them.  The encoding of a single value (VARINT, fixed width) is not      *)
(* modelled.  The fields written unconditionally before nStatus are one    *)
(* value, nHeight, and those of the block header one value, header.        *)
(***************************************************************************)
EXTENDS BlockIndexEntry, Sequences

CONSTANTS
    Modifier,   \* the non-zero stake modifiers, legacy and V2
    Payment,    \* the non-zero treasury payments
    StakeHash,  \* the non-null hashes of a proof of stake
    Position    \* the non-zero offsets into a block or undo file

VARIABLES
    index,  \* the CBlockIndex in memory
    disk    \* the record in the database: <<>> before the first flush

diskVars == <<index, disk>>

\* FlatFilePos(): nFile -1, nPos 0.
NullPos == [nFile |-> -1, nPos |-> 0]

\* The fields of an entry the codec is about, as the constructor leaves them.
\* nHeight and header belong to the block and never change.
NullIndex ==
    [nHeight |-> 1, header |-> 1, nStatus |-> 0, nTx |-> 0,
     nFile |-> 0, nDataPos |-> 0, nUndoPos |-> 0,
     nFlags |-> 0, nStakeModifier |-> 0, nStakeModifierV2 |-> 0,
     nTreasuryPayment |-> 0, hashProofOfStake |-> 0]

DiskTypeOK ==
    /\ index \in [nHeight : {1}, header : {1}, nStatus : {0, 8, 24}, nTx : {0, 1},
                  nFile : {0, 1}, nDataPos : Position \cup {0}, nUndoPos : Position \cup {0},
                  nFlags : 0..31, nStakeModifier : Modifier \cup {0},
                  nStakeModifierV2 : Modifier \cup {0},
                  nTreasuryPayment : Payment \cup {0},
                  hashProofOfStake : StakeHash \cup {0}]
    /\ disk \in Seq(Nat)

DiskInit ==
    /\ index = NullIndex
    /\ disk = <<>>

-----------------------------------------------------------------------------
(* Mutations of the codec.                                                 *)

\* A writer from before the second modifier: the legacy one, always.
LegacyModifierWritten(obj) == obj.nStakeModifier

\* Pruning that forgets the undo data of the block.
PrunedKeepsUndo(pindex) ==
    [pindex EXCEPT !.nStatus = ClearBits(@, BLOCK_HAVE_DATA),
                   !.nFile = 0, !.nDataPos = 0, !.nUndoPos = 0]

-----------------------------------------------------------------------------
(* CBlockIndex: the positions                                              *)

GetBlockPos(pindex) ==
    IF HasAny(pindex.nStatus, BLOCK_HAVE_DATA)
    THEN [nFile |-> pindex.nFile, nPos |-> pindex.nDataPos] ELSE NullPos

GetUndoPos(pindex) ==
    IF HasAny(pindex.nStatus, BLOCK_HAVE_UNDO)
    THEN [nFile |-> pindex.nFile, nPos |-> pindex.nUndoPos] ELSE NullPos

-----------------------------------------------------------------------------
(* SERIALIZE_METHODS(CDiskBlockIndex, obj)                                 *)

\* READWRITE under a condition: the value, or nothing.
If(present, value) == IF present THEN <<value>> ELSE <<>>

\* nFile is in the record of an entry with block or undo data.
FileWritten(obj) == HasAny(obj.nStatus, BLOCK_HAVE_MASK)

\* Exactly one of the two stake modifiers is in the record.
StakeModifierWritten(obj) ==
    IF UsesStakeModifierV2(obj) THEN obj.nStakeModifierV2 ELSE obj.nStakeModifier

\* Writing: the values of the record, in order.
Serialize(obj) ==
    <<obj.nHeight, obj.nStatus, obj.nTx>>
    \o If(FileWritten(obj), obj.nFile)
    \o If(HasAny(obj.nStatus, BLOCK_HAVE_DATA), obj.nDataPos)
    \o If(HasAny(obj.nStatus, BLOCK_HAVE_UNDO), obj.nUndoPos)
    \o <<obj.nFlags>>
    \o <<StakeModifierWritten(obj)>>
    \o If(IsTreasuryBlock(obj), obj.nTreasuryPayment)
    \o If(IsProofOfStake(obj), obj.hashProofOfStake)
    \o <<obj.header>>

\* Reading: the same READWRITE calls on a default-constructed object, each
\* taking the next value of the record; at1 .. at8 are where the calls after
\* nTx read.
Unserialize(record) ==
    LET nStatus == record[2]
        at1 == 4
        at2 == at1 + (IF HasAny(nStatus, BLOCK_HAVE_MASK) THEN 1 ELSE 0)
        at3 == at2 + (IF HasAny(nStatus, BLOCK_HAVE_DATA) THEN 1 ELSE 0)
        at4 == at3 + (IF HasAny(nStatus, BLOCK_HAVE_UNDO) THEN 1 ELSE 0)
        nFlags == record[at4]
        at5 == at4 + 1
        at6 == at5 + 1
        at7 == at6 + (IF HasAny(nFlags, BLOCK_TREASURY_AWARD) THEN 1 ELSE 0)
        at8 == at7 + (IF HasAny(nFlags, BLOCK_PROOF_OF_STAKE) THEN 1 ELSE 0)
        usesV2 == HasAny(nFlags, BLOCK_STAKE_MOD_V2)
    IN [NullIndex EXCEPT
          !.nHeight  = record[1],
          !.nStatus  = nStatus,
          !.nTx      = record[3],
          !.nFile    = IF at2 > at1 THEN record[at1] ELSE @,
          !.nDataPos = IF at3 > at2 THEN record[at2] ELSE @,
          !.nUndoPos = IF at4 > at3 THEN record[at3] ELSE @,
          !.nFlags   = nFlags,
          !.nStakeModifierV2 = IF usesV2 THEN record[at5] ELSE @,
          !.nStakeModifier   = IF usesV2 THEN @ ELSE record[at5],
          !.nTreasuryPayment = IF at7 > at6 THEN record[at6] ELSE @,
          !.hashProofOfStake = IF at8 > at7 THEN record[at7] ELSE @,
          !.header   = record[at8]]

-----------------------------------------------------------------------------
(* The entry in memory.  Each action is one update of the entry made under *)
(* cs_main by the code that stores or connects the block.                  *)

\* The block is written to a block file at pos.
BlockWritten(nFile, pos) ==
    /\ ~HasAny(index.nStatus, BLOCK_HAVE_DATA)
    /\ index' = [index EXCEPT !.nFile = nFile, !.nDataPos = pos, !.nTx = 1,
                              !.nStatus = BitOr(@, BLOCK_HAVE_DATA)]
    /\ UNCHANGED disk

\* Its undo data is written to the undo file of the same number.
UndoWritten(pos) ==
    /\ HasAny(index.nStatus, BLOCK_HAVE_DATA)
    /\ ~HasAny(index.nStatus, BLOCK_HAVE_UNDO)
    /\ index' = [index EXCEPT !.nUndoPos = pos, !.nStatus = BitOr(@, BLOCK_HAVE_UNDO)]
    /\ UNCHANGED disk

\* What pruning the file leaves of the entry.
Pruned(pindex) ==
    [pindex EXCEPT !.nStatus = ClearBits(@, BLOCK_HAVE_MASK),
                   !.nFile = 0, !.nDataPos = 0, !.nUndoPos = 0]

\* The file of the block is pruned.
PruneBlockFile ==
    /\ HasAny(index.nStatus, BLOCK_HAVE_DATA)
    /\ index' = Pruned(index)
    /\ UNCHANGED disk

\* The block is found to be a proof-of-stake block with the proof's hash.
ProofOfStakeFound(hash) ==
    /\ IsProofOfWork(index)
    /\ index' = [SetProofOfStake(index) EXCEPT !.hashProofOfStake = hash]
    /\ UNCHANGED disk

EntropyBitComputed(nEntropyBit) ==
    /\ index' = SetStakeEntropyBit(index, nEntropyBit)
    /\ UNCHANGED disk

StakeModifierComputed(nModifier, fGeneratedStakeModifier) ==
    /\ index' = SetStakeModifier(index, nModifier, fGeneratedStakeModifier)
    /\ UNCHANGED disk

StakeModifierV2Computed(nModifier, fGeneratedStakeModifier) ==
    /\ index' = SetStakeModifierV2(index, nModifier, fGeneratedStakeModifier)
    /\ UNCHANGED disk

\* The block pays the treasury.
TreasuryPaymentFound(payment) ==
    /\ ~IsTreasuryBlock(index)
    /\ index' = [SetTreasuryBlock(index) EXCEPT !.nTreasuryPayment = payment]
    /\ UNCHANGED disk

\* CDiskBlockIndex(pindex) is written to the database, in one batch.
Flush ==
    /\ disk' = Serialize(index)
    /\ disk' # disk
    /\ UNCHANGED index

\* The node stops, with or without warning, and loads the index again: the
\* entry is a new CBlockIndex with the fields of the record.
Restart ==
    /\ disk # <<>>
    /\ index' = Unserialize(disk)
    /\ index' # index
    /\ UNCHANGED disk

DiskNext ==
    \/ \E nFile \in {0, 1}, pos \in Position : BlockWritten(nFile, pos)
    \/ \E pos \in Position : UndoWritten(pos)
    \/ PruneBlockFile
    \/ \E hash \in StakeHash : ProofOfStakeFound(hash)
    \/ \E nEntropyBit \in 0..2 : EntropyBitComputed(nEntropyBit)
    \/ \E nModifier \in Modifier, f \in BOOLEAN : StakeModifierComputed(nModifier, f)
    \/ \E nModifier \in Modifier, f \in BOOLEAN : StakeModifierV2Computed(nModifier, f)
    \/ \E payment \in Payment : TreasuryPaymentFound(payment)
    \/ Flush
    \/ Restart

DiskSpec == DiskInit /\ [][DiskNext]_diskVars

-----------------------------------------------------------------------------
(* Properties                                                              *)

\* The entry a restart would find if the entry in memory were flushed now.
Reloaded == Unserialize(Serialize(index))

\* What of an entry the node works with after a restart: where the block and
\* its undo data are, and the proof-of-stake values its flags announce.
Restored(pindex) ==
    [pos     |-> GetBlockPos(pindex),
     undo    |-> GetUndoPos(pindex),
     block   |-> <<pindex.nHeight, pindex.header, pindex.nStatus, pindex.nTx, pindex.nFlags>>,
     stake   |-> StakeModifierWritten(pindex),
     payment |-> IF IsTreasuryBlock(pindex) THEN pindex.nTreasuryPayment ELSE 0,
     proof   |-> IF IsProofOfStake(pindex) THEN pindex.hashProofOfStake ELSE 0]

\* Whatever sequence of updates made the entry, flushing it and loading it
\* again gives an entry with the same positions (GetBlockPos, GetUndoPos),
\* status, flags and announced proof-of-stake values: the conditions under
\* which SERIALIZE_METHODS writes a field are those under which it reads it,
\* so that no value is read into another field.
ReloadRestoresEntry == Restored(Reloaded) = Restored(index)

=============================================================================
