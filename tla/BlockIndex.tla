------------------------------ MODULE BlockIndex ------------------------------
(***************************************************************************)
(* The block index: the tree of every block header the node knows, keyed   *)
(* by block hash (mapBlockIndex), and the steps that insert an entry and   *)
(* change its status as validation advances.  Every step runs with cs_main *)
(* held, so a step is one action.                                          *)
(*                                                                         *)
(* chain.h declares the entry and its methods (see BlockIndexEntry).  The  *)
(* tree operations whose bodies are outside the files at hand (insertion,  *)
(* BuildSkip, GetAncestor, the callers that raise validity, record block   *)
(* data and mark failures) follow the system's specification.              *)
(*                                                                         *)
(* The universe of blocks is the constant Block: a hash determines its     *)
(* header and its transactions.  What TLC explores is the order in which   *)
(* headers and bodies arrive and checks pass or fail.                      *)
(***************************************************************************)
EXTENDS BlockIndexEntry, FiniteSets, Sequences, TLC

CONSTANTS
    Hash,        \* the block hashes of the universe
    NullHash,    \* uint256(): no block; a null pprev or pskip
    Block,       \* hash -> [hashPrevBlock, nTime, proof (GetBlockProof of its nBits), nTx (vtx.size())]
    UintModulus  \* 2^w for the unsigned int nChainTx (w = 32 in the build)

ASSUME NullHash \notin Hash
ASSUME Block \in [Hash -> [hashPrevBlock : Hash \cup {NullHash}, nTime : Nat,
                           proof : Nat \ {0}, nTx : Nat \ {0}]]
ASSUME UintModulus \in Nat \ {0}

VARIABLES
    mapBlockIndex,     \* BlockMap: hash -> CBlockIndex, for the hashes inserted so far
    nBlockSequenceId   \* the next arrival-sequence id

indexVars == <<mapBlockIndex, nBlockSequenceId>>

Known == DOMAIN mapBlockIndex

Level(pindex) == BitAnd(pindex.nStatus, BLOCK_VALID_MASK)

IsFailed(pindex) == HasAny(pindex.nStatus, BLOCK_FAILED_MASK)

HaveData(pindex) == HasAny(pindex.nStatus, BLOCK_HAVE_DATA)

\* Every value nStatus takes here: a level, BLOCK_HAVE_DATA, the failure flags.
StatusValue ==
    {level + data + failed :
        level \in {BLOCK_VALID_UNKNOWN} \cup ValidityLevel,
        data \in {0, BLOCK_HAVE_DATA},
        failed \in {0, BLOCK_FAILED_VALID, BLOCK_FAILED_CHILD, BLOCK_FAILED_MASK}}

IndexEntry ==
    [pprev : Hash \cup {NullHash}, pskip : Hash \cup {NullHash}, nHeight : Nat,
     nChainWork : Nat, nTx : Nat, nChainTx : 0..(UintModulus - 1),
     nStatus : StatusValue, nTime : Nat, nTimeMax : Nat, nSequenceId : Nat]

IndexTypeOK ==
    /\ Known \subseteq Hash
    /\ \A hash \in Known : mapBlockIndex[hash] \in IndexEntry
    /\ nBlockSequenceId \in Nat

IndexInit ==
    /\ mapBlockIndex = <<>>
    /\ nBlockSequenceId = 1

-----------------------------------------------------------------------------
(* Walking the tree                                                        *)

\* The entry reached from hash by following pprev n times (NullHash past genesis).
RECURSIVE NthParent(_, _)
NthParent(hash, n) ==
    IF n = 0 \/ hash = NullHash THEN hash
    ELSE NthParent(mapBlockIndex[hash].pprev, n - 1)

\* hash and all its ancestors.
RECURSIVE Branch(_)
Branch(hash) ==
    IF hash = NullHash THEN {} ELSE {hash} \cup Branch(mapBlockIndex[hash].pprev)

IsAncestor(ancestor, hash) == ancestor \in Branch(hash) \ {hash}

\* Turn the lowest '1' bit in the binary representation of a number into a '0'.
\* (n & (n - 1); 0 stays 0.)
InvertLowestOne(n) == IF n = 0 THEN 0 ELSE BitAnd(n, n - 1)

\* Compute what height to jump back to with the CBlockIndex::pskip pointer.
GetSkipHeight(height) ==
    IF height < 2 THEN 0
    ELSE IF height % 2 = 1 THEN InvertLowestOne(InvertLowestOne(height - 1)) + 1
    ELSE InvertLowestOne(height)

\* The loop of GetAncestor: at pindexWalk, of height heightWalk, on the way
\* down to height.
RECURSIVE AncestorWalk(_, _, _)
AncestorWalk(pindexWalk, heightWalk, height) ==
    IF heightWalk <= height THEN pindexWalk
    ELSE LET heightSkip     == GetSkipHeight(heightWalk)
             heightSkipPrev == GetSkipHeight(heightWalk - 1)
             walk           == mapBlockIndex[pindexWalk]
             followSkip     ==
                 /\ walk.pskip # NullHash
                 /\ \/ heightSkip = height
                    \/ /\ heightSkip > height
                       /\ ~(heightSkipPrev < heightSkip - 2 /\ heightSkipPrev >= height)
         IN IF followSkip
            THEN AncestorWalk(walk.pskip, heightSkip, height)
            ELSE AncestorWalk(walk.pprev, heightWalk - 1, height)

\* CBlockIndex* GetAncestor(height): nullptr outside [0, nHeight].
GetAncestor(hash, height) ==
    IF height > mapBlockIndex[hash].nHeight \/ height < 0 THEN NullHash
    ELSE AncestorWalk(hash, mapBlockIndex[hash].nHeight, height)

\* BuildSkip() that aims one block above the height GetAncestor assumes.
BuildSkipOffByOne(pprev, nHeight) ==
    IF pprev = NullHash THEN NullHash
    ELSE GetAncestor(pprev, GetSkipHeight(nHeight) + 1)

\* void BuildSkip(), for the entry of height nHeight above pprev.
BuildSkip(pprev, nHeight) ==
    IF pprev = NullHash THEN NullHash
    ELSE GetAncestor(pprev, GetSkipHeight(nHeight))

\* const CBlockIndex* LastCommonAncestor(pa, pb)
RECURSIVE WalkTogether(_, _)
WalkTogether(pa, pb) ==
    IF pa = pb \/ pa = NullHash \/ pb = NullHash THEN pa
    ELSE WalkTogether(mapBlockIndex[pa].pprev, mapBlockIndex[pb].pprev)

LastCommonAncestor(pa, pb) ==
    LET ha == mapBlockIndex[pa].nHeight
        hb == mapBlockIndex[pb].nHeight
    IN WalkTogether(IF ha > hb THEN GetAncestor(pa, hb) ELSE pa,
                    IF hb > ha THEN GetAncestor(pb, ha) ELSE pb)

nMedianTimeSpan == 1

\* The timestamps GetMedianTimePast collects: of hash and its ancestors, at
\* most n of them, the oldest first.
RECURSIVE BlockTimes(_, _)
BlockTimes(hash, n) ==
    IF n = 0 \/ hash = NullHash THEN <<>>
    ELSE Append(BlockTimes(mapBlockIndex[hash].pprev, n - 1),
                GetBlockTime(mapBlockIndex[hash]))

\* int64_t GetMedianTimePast()
GetMedianTimePast(hash) ==
    LET sorted == SortSeq(BlockTimes(hash, nMedianTimeSpan), <)
    IN sorted[(Len(sorted) \div 2) + 1]


-----------------------------------------------------------------------------
(* Mutations of the steps below.                                           *)

\* The nChainTx cascade that stops at the entry whose data arrived.
LinkChainTxOnlyFirst(map, unlinked) ==
    IF unlinked = {} THEN map
    ELSE LET hash == CHOOSE h \in unlinked : TRUE
             prevTx == IF map[hash].pprev = NullHash THEN 0
                       ELSE map[map[hash].pprev].nChainTx
         IN [map EXCEPT ![hash].nChainTx = (prevTx + map[hash].nTx) % UintModulus]

\* A failure that marks the children of the failed block and stops there.
FailedChildrenOnly(failed, hash) == mapBlockIndex[hash].pprev = failed

-----------------------------------------------------------------------------
(* Insertion                                                               *)

\* The entry insertion builds for a block whose parent is known (or null).
NewBlockIndex(hash) ==
    LET block   == Block[hash]
        pprev   == block.hashPrevBlock
        hasPrev == pprev # NullHash
        nHeight == IF hasPrev THEN mapBlockIndex[pprev].nHeight + 1 ELSE 0
        prevTimeMax == IF hasPrev THEN mapBlockIndex[pprev].nTimeMax ELSE 0
    IN [pprev       |-> pprev,
        pskip       |-> BuildSkip(pprev, nHeight),
        nHeight     |-> nHeight,
        nChainWork  |-> (IF hasPrev THEN mapBlockIndex[pprev].nChainWork ELSE 0) + block.proof,
        nTx         |-> 0,
        nChainTx    |-> 0,
        nStatus     |-> BLOCK_VALID_UNKNOWN,
        nTime       |-> block.nTime,
        nTimeMax    |-> IF block.nTime > prevTimeMax THEN block.nTime ELSE prevTimeMax,
        nSequenceId |-> nBlockSequenceId]

\* Insertion of a header seen for the first time.
AddToBlockIndex(hash) ==
    /\ hash \notin Known
    /\ Block[hash].hashPrevBlock \in Known \cup {NullHash}
    /\ mapBlockIndex' = mapBlockIndex @@ (hash :> NewBlockIndex(hash))
    /\ nBlockSequenceId' = nBlockSequenceId + 1

\* Insertion of a header that has an entry: the entry is returned as it is.
AlreadyInBlockIndex(hash) ==
    /\ hash \in Known
    /\ UNCHANGED indexVars

\* Insertion of a header whose parent is unknown: MissingParent, no change.
MissingParent(hash) ==
    /\ hash \notin Known
    /\ Block[hash].hashPrevBlock \notin Known \cup {NullHash}
    /\ UNCHANGED indexVars

-----------------------------------------------------------------------------
(* Validation advances                                                     *)

\* What a level of an entry implies of its parents (enum BlockStatus):
\* TRANSACTIONS implies TREE, every other level implies itself.
ImpliedOfParents(nUpTo) ==
    IF nUpTo = BLOCK_VALID_TRANSACTIONS THEN BLOCK_VALID_TREE ELSE nUpTo

\* The header check the index itself supports: "timestamp >= median previous".
TimestampOK(hash) ==
    LET pprev == mapBlockIndex[hash].pprev
    IN pprev # NullHash => GetBlockTime(mapBlockIndex[hash]) >= GetMedianTimePast(pprev)

\* The checks of level nUpTo passed for the entry: its validity is raised.
\* The header checks need the parent chain, the checks of CHAIN and SCRIPTS
\* the transactions of the block and of every block before it.
CheckPassed(hash, nUpTo) ==
    /\ hash \in Known
    /\ nUpTo \in ValidityLevel \ {BLOCK_VALID_TRANSACTIONS}
    /\ LET pindex == mapBlockIndex[hash] IN
          /\ pindex.pprev # NullHash =>
                IsValid(mapBlockIndex[pindex.pprev], ImpliedOfParents(nUpTo))
          /\ nUpTo = BLOCK_VALID_TREE => TimestampOK(hash)
          /\ nUpTo > BLOCK_VALID_TRANSACTIONS => HaveTxsDownloaded(pindex)
          /\ mapBlockIndex' = [mapBlockIndex EXCEPT ![hash] = RaiseValidity(pindex, nUpTo)]
    /\ UNCHANGED nBlockSequenceId

\* The entries that have their data and wait for a parent's nChainTx.
WaitingFor(map, hash) ==
    {child \in DOMAIN map : map[child].pprev = hash /\ HaveData(map[child])}

\* Set nChainTx of the entries in unlinked and of every entry that waited
\* for one of them.
RECURSIVE LinkChainTx(_, _)
LinkChainTx(map, unlinked) ==
    IF unlinked = {} THEN map
    ELSE LET hash == CHOOSE h \in unlinked : TRUE
             prevTx == IF map[hash].pprev = NullHash THEN 0
                       ELSE map[map[hash].pprev].nChainTx
             linked == [map EXCEPT ![hash].nChainTx = (prevTx + map[hash].nTx) % UintModulus]
         IN LinkChainTx(linked, (unlinked \ {hash}) \cup WaitingFor(linked, hash))

\* The body of a block with an accepted header was stored: it has its
\* transactions, and nChainTx is set for it and for the descendants that
\* waited for it, if every block before it has its transactions.
ReceivedBlockTransactions(hash) ==
    /\ hash \in Known
    /\ IsValid(mapBlockIndex[hash], BLOCK_VALID_TREE)
    /\ ~HaveData(mapBlockIndex[hash])
    /\ LET pindex   == mapBlockIndex[hash]
           received == RaiseValidity([pindex EXCEPT !.nTx = Block[hash].nTx,
                                                    !.nStatus = BitOr(@, BLOCK_HAVE_DATA)],
                                     BLOCK_VALID_TRANSACTIONS)
           stored   == [mapBlockIndex EXCEPT ![hash] = received]
           linkable == \/ pindex.pprev = NullHash
                       \/ HaveTxsDownloaded(mapBlockIndex[pindex.pprev])
       IN mapBlockIndex' = IF linkable THEN LinkChainTx(stored, {hash}) ELSE stored
    /\ UNCHANGED nBlockSequenceId

\* The entries a failure of `failed` reaches: its descendants.
FailedChild(failed, hash) == IsAncestor(failed, hash)

\* A check of the stage after the last one reached failed for the entry:
\* BLOCK_FAILED_VALID for it, BLOCK_FAILED_CHILD for what descends from it.
InvalidBlockFound(failed) ==
    /\ failed \in Known
    /\ ~IsFailed(mapBlockIndex[failed])
    /\ Level(mapBlockIndex[failed]) < BLOCK_VALID_SCRIPTS
    /\ mapBlockIndex' =
          [hash \in Known |->
              IF hash = failed
              THEN [mapBlockIndex[hash] EXCEPT !.nStatus = BitOr(@, BLOCK_FAILED_VALID)]
              ELSE IF FailedChild(failed, hash)
              THEN [mapBlockIndex[hash] EXCEPT !.nStatus = BitOr(@, BLOCK_FAILED_CHILD)]
              ELSE mapBlockIndex[hash]]
    /\ UNCHANGED nBlockSequenceId

IndexNext ==
    \/ \E hash \in Hash :
          \/ AddToBlockIndex(hash)
          \/ AlreadyInBlockIndex(hash)
          \/ MissingParent(hash)
          \/ ReceivedBlockTransactions(hash)
          \/ InvalidBlockFound(hash)
    \/ \E hash \in Hash, nUpTo \in ValidityLevel : CheckPassed(hash, nUpTo)

IndexSpec == IndexInit /\ [][IndexNext]_indexVars


-----------------------------------------------------------------------------
(* Properties                                                              *)

\* What enum BlockStatus promises of every level ("implies all parents are
\* also at least ..."), read through IsValid as the callers read it: an entry
\* that is valid up to a level has a parent that is valid up to the level
\* implied.  It is kept by the order in which checks pass together
\* with the propagation of a failure to the descendants that were already
\* valid; an entry inserted below a failed block starts unknown and stays so.
ValidImpliesParentsValid ==
    \A hash \in Known, nUpTo \in ValidityLevel :
        LET pindex == mapBlockIndex[hash] IN
        (IsValid(pindex, nUpTo) /\ pindex.pprev # NullHash)
            => IsValid(mapBlockIndex[pindex.pprev], ImpliedOfParents(nUpTo))

\* The comment on CBlockIndex::nChainTx: it is non-zero if and only if the
\* transactions of the block and of all its parents are available, whatever
\* the order in which the bodies arrived; and then it is their number.
RECURSIVE BranchTx(_)
BranchTx(hash) ==
    IF hash = NullHash THEN 0
    ELSE mapBlockIndex[hash].nTx + BranchTx(mapBlockIndex[hash].pprev)

ChainTxIffBranchHasData ==
    \A hash \in Known :
        /\ HaveTxsDownloaded(mapBlockIndex[hash])
              <=> \A ancestor \in Branch(hash) : HaveData(mapBlockIndex[ancestor])
        /\ HaveTxsDownloaded(mapBlockIndex[hash])
              => mapBlockIndex[hash].nChainTx = BranchTx(hash)

\* RaiseValidity and the failure flags over the life of an entry: the level
\* never decreases, a failure flag is never cleared, and a failed entry
\* keeps the level it had reached when it failed, whatever checks are
\* reported for it afterwards.
ValidityOnlyEscalates ==
    [][\A hash \in Known :
          /\ Level(mapBlockIndex'[hash]) >= Level(mapBlockIndex[hash])
          /\ IsFailed(mapBlockIndex[hash]) =>
                /\ IsFailed(mapBlockIndex'[hash])
                /\ Level(mapBlockIndex'[hash]) = Level(mapBlockIndex[hash])]_indexVars

\* GetAncestor over the skip pointers BuildSkip stored returns, for every
\* height up to the entry's, the entry that following pprev reaches, and
\* nullptr above it.
SkipListFindsAncestors ==
    \A hash \in Known :
        LET nHeight == mapBlockIndex[hash].nHeight IN
        /\ \A height \in 0..nHeight :
              GetAncestor(hash, height) = NthParent(hash, nHeight - height)
        /\ GetAncestor(hash, nHeight + 1) = NullHash

=============================================================================
