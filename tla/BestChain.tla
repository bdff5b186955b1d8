------------------------------ MODULE BestChain ------------------------------
(***************************************************************************)
(* The index and the active chain together, as the node drives them:       *)
(* headers and block bodies arrive in any order, checks pass or fail, and  *)
(* whenever an entry that can be connected has more work than the tip, the *)
(* chain moves to it.  A body that is stored goes into the block file,     *)
(* whose statistics the node keeps.  All of it runs under cs_main, one     *)
(* step at a time.                                                         *)
(***************************************************************************)
EXTENDS ActiveChain, BlockFileInfo

LOCAL SetExt == INSTANCE FiniteSetsExt

VARIABLE vinfoBlockFile  \* the CBlockFileInfo of the block file

nodeVars == <<vars, vinfoBlockFile>>

NodeTypeOK ==
    /\ ChainTypeOK
    /\ vinfoBlockFile \in FileInfo

NodeInit ==
    /\ ChainInit
    /\ vinfoBlockFile = NullFileInfo

-----------------------------------------------------------------------------
(* Mutations of the definitions below.                                     *)

\* A candidate test that lets an entry of equal work replace the tip.
IsCandidateOnEqualWork(pindex) ==
    /\ IsValid(mapBlockIndex[pindex], BLOCK_VALID_TRANSACTIONS)
    /\ HaveTxsDownloaded(mapBlockIndex[pindex])
    /\ vChain # <<>> => mapBlockIndex[pindex].nChainWork >= mapBlockIndex[Tip(vChain)].nChainWork

-----------------------------------------------------------------------------

\* nChainWork of the tip; 0 for the empty chain.
TipWork == IF vChain = <<>> THEN 0 ELSE mapBlockIndex[Tip(vChain)].nChainWork

\* An entry the chain may move to: valid as far as it was checked, with the
\* transactions of its whole branch, and with more work than the tip.
IsCandidate(pindex) ==
    /\ IsValid(mapBlockIndex[pindex], BLOCK_VALID_TRANSACTIONS)
    /\ HaveTxsDownloaded(mapBlockIndex[pindex])
    /\ mapBlockIndex[pindex].nChainWork > TipWork

\* The chain moves to a candidate: the blocks of its branch are connected,
\* which checks them up to BLOCK_VALID_SCRIPTS, and the tip is set.
ActivateBestChain(pindex) ==
    /\ pindex \in Known
    /\ IsCandidate(pindex)
    /\ mapBlockIndex' =
          [hash \in Known |->
              IF hash \in Branch(pindex)
              THEN RaiseValidity(mapBlockIndex[hash], BLOCK_VALID_SCRIPTS)
              ELSE mapBlockIndex[hash]]
    /\ SetTip(pindex)
    /\ UNCHANGED nBlockSequenceId

\* The body of a block arrives: it is written to the block file, which
\* counts it, and the index records its transactions.
AcceptBlock(hash) ==
    /\ ReceivedBlockTransactions(hash)
    /\ vinfoBlockFile' = AddBlock(vinfoBlockFile, mapBlockIndex[hash].nHeight,
                                  mapBlockIndex[hash].nTime)

\* The steps of the index leave the chain alone; only ActivateBestChain
\* moves it.  Only AcceptBlock writes to the block file.
NodeNext ==
    \/ \E hash \in Hash :
          \/ AddToBlockIndex(hash) /\ UNCHANGED <<chainVars, vinfoBlockFile>>
          \/ AlreadyInBlockIndex(hash) /\ UNCHANGED <<chainVars, vinfoBlockFile>>
          \/ MissingParent(hash) /\ UNCHANGED <<chainVars, vinfoBlockFile>>
          \/ AcceptBlock(hash) /\ UNCHANGED chainVars
          \/ InvalidBlockFound(hash) /\ UNCHANGED <<chainVars, vinfoBlockFile>>
          \/ ActivateBestChain(hash) /\ UNCHANGED vinfoBlockFile
    \/ \E hash \in Hash, nUpTo \in ValidityLevel :
          CheckPassed(hash, nUpTo) /\ UNCHANGED <<chainVars, vinfoBlockFile>>

\* The node looks for a better chain after every block it accepts.
Fairness == WF_nodeVars(\E pindex \in Hash : ActivateBestChain(pindex) /\ UNCHANGED vinfoBlockFile)

NodeSpec == NodeInit /\ [][NodeNext]_nodeVars /\ Fairness

-----------------------------------------------------------------------------
(* Properties                                                              *)

\* Every block of the active chain was connected and stays so: it is valid
\* up to BLOCK_VALID_SCRIPTS, carries no failure flag and has its data,
\* whatever fails elsewhere in the tree afterwards.
ChainIsConnected ==
    \A i \in 1..Len(vChain) :
        /\ IsValid(mapBlockIndex[vChain[i]], BLOCK_VALID_SCRIPTS)
        /\ HaveData(mapBlockIndex[vChain[i]])

\* The index and the slots implement the choice of a chain: the active
\* chain is always a path from the genesis block and is replaced only by a
\* path with strictly more work, in steps that change the chain as a whole.
Selection == INSTANCE ChainSelection WITH chain <- vChain

ImplementsChainSelection == Selection!Spec

\* The chain does not stay behind.  Whatever the order in which headers and
\* bodies arrived, in the end the tip has at least the work of every entry
\* whose branch is all there: no block of it failed and each has its data.
BranchWork(pindex) == Selection!Work(Selection!PathTo(pindex))

Connectable(pindex) ==
    \A hash \in Branch(pindex) :
        HaveData(mapBlockIndex[hash]) /\ ~IsFailed(mapBlockIndex[hash])

BestChainIsReached ==
    <>[](\A pindex \in Known :
            Connectable(pindex) => BranchWork(pindex) <= BranchWork(Tip(vChain)))

\* The statistics of the block file are those of the blocks stored in it,
\* whatever the order in which the bodies arrived: their number, and the
\* lowest and highest of their heights and of their times.  This is about
\* AddBlock, which starts the range of an empty file at the first block
\* whereas SetNull left zeros.
FileInfoCoversStoredBlocks ==
    LET stored  == {hash \in Known : HaveData(mapBlockIndex[hash])}
        heights == {mapBlockIndex[hash].nHeight : hash \in stored}
        times   == {mapBlockIndex[hash].nTime : hash \in stored}
    IN /\ vinfoBlockFile.nBlocks = Cardinality(stored)
       /\ stored # {} =>
              /\ vinfoBlockFile.nHeightFirst = SetExt!Min(heights)
              /\ vinfoBlockFile.nHeightLast = SetExt!Max(heights)
              /\ vinfoBlockFile.nTimeFirst = SetExt!Min(times)
              /\ vinfoBlockFile.nTimeLast = SetExt!Max(times)

=============================================================================
