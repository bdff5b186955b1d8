----------------------------- MODULE ActiveChain -----------------------------
(***************************************************************************)
(* class CChain of chain.h: the active chain, a vector of index entries in *)
(* which slot nHeight holds the entry of that height on the path from the  *)
(* genesis block to the tip.  The accessors are the inline methods of the  *)
(* class; SetTip, FindFork, GetLocator and FindEarliestAtLeast, whose      *)
(* bodies are outside the files at hand, follow the specification.         *)
(*                                                                         *)
(* vChain is a sequence of hashes: vChain[nHeight + 1] is slot nHeight.    *)
(* A tip change tells the components that keep state per block (wallet,    *)
(* token layer) which blocks left the chain and which entered it; the      *)
(* variable notified holds what the last tip change told them.             *)
(***************************************************************************)
EXTENDS BlockIndex

LOCAL SeqExt == INSTANCE SequencesExt
LOCAL SetExt == INSTANCE FiniteSetsExt

VARIABLES
    vChain,    \* std::vector<CBlockIndex*>
    notified   \* the events of the last SetTip: <<"disconnect" | "connect", hash>>

chainVars == <<vChain, notified>>

vars == <<mapBlockIndex, nBlockSequenceId, vChain, notified>>

Event == {"disconnect", "connect"} \X Hash

ChainTypeOK ==
    /\ IndexTypeOK
    /\ vChain \in Seq(Known)
    /\ notified \in Seq(Event)

\* The latest timestamp of the universe.
MaxTime == SetExt!Max({Block[hash].nTime : hash \in Hash})

ChainInit ==
    /\ IndexInit
    /\ vChain = <<>>
    /\ notified = <<>>

-----------------------------------------------------------------------------
(* Mutations of the methods below.                                         *)

\* operator[] that reads the slot above the one asked for.
AtOffByOne(chain, nHeight) ==
    IF nHeight < 0 \/ nHeight + 1 >= Len(chain) THEN NullHash ELSE chain[nHeight + 2]

\* Contains() that asks whether the chain has a block of that height.
ContainsHeight(chain, pindex) ==
    mapBlockIndex[pindex].nHeight < Len(chain)

\* A SetTip loop that stores the new tip and leaves the slots below it.
RewireStopsAtTip(chain, pindex) ==
    IF pindex = NullHash THEN chain
    ELSE [chain EXCEPT ![mapBlockIndex[pindex].nHeight + 1] = pindex]

\* A resize that only ever grows the vector.
ResizeGrowsOnly(chain, size) ==
    IF size <= Len(chain) THEN chain
    ELSE chain \o [i \in 1..(size - Len(chain)) |-> NullHash]

-----------------------------------------------------------------------------
(* The accessors of CChain                                                 *)

Genesis(chain) == IF Len(chain) > 0 THEN chain[1] ELSE NullHash

Tip(chain) == IF Len(chain) > 0 THEN chain[Len(chain)] ELSE NullHash

\* CBlockIndex* operator[](int nHeight)
At(chain, nHeight) ==
    IF nHeight < 0 \/ nHeight >= Len(chain) THEN NullHash ELSE chain[nHeight + 1]

Contains(chain, pindex) == At(chain, mapBlockIndex[pindex].nHeight) = pindex

\* CBlockIndex* Next(pindex)
Next(chain, pindex) ==
    IF Contains(chain, pindex) THEN At(chain, mapBlockIndex[pindex].nHeight + 1)
    ELSE NullHash

Height(chain) == Len(chain) - 1

-----------------------------------------------------------------------------
(* SetTip and the queries over the chain                                   *)

\* vChain.resize(size): cut, or filled up with nullptr.
Resize(chain, size) ==
    IF size <= Len(chain) THEN SubSeq(chain, 1, size)
    ELSE chain \o [i \in 1..(size - Len(chain)) |-> NullHash]

\* The loop of SetTip: store pindex and its ancestors in their slots, down to
\* the first slot that already holds the right entry.
RECURSIVE Rewire(_, _)
Rewire(chain, pindex) ==
    IF pindex = NullHash \/ chain[mapBlockIndex[pindex].nHeight + 1] = pindex THEN chain
    ELSE Rewire([chain EXCEPT ![mapBlockIndex[pindex].nHeight + 1] = pindex],
                mapBlockIndex[pindex].pprev)

\* The chain after SetTip(pindex).
WithTip(chain, pindex) ==
    IF pindex = NullHash THEN <<>>
    ELSE Rewire(Resize(chain, mapBlockIndex[pindex].nHeight + 1), pindex)

\* The loop of FindFork: down from pindex to the first entry in the chain.
RECURSIVE DownToChain(_, _)
DownToChain(chain, pindex) ==
    IF pindex = NullHash \/ Contains(chain, pindex) THEN pindex
    ELSE DownToChain(chain, mapBlockIndex[pindex].pprev)

\* const CBlockIndex* FindFork(pindex)
FindFork(chain, pindex) ==
    IF pindex = NullHash THEN NullHash
    ELSE IF mapBlockIndex[pindex].nHeight > Height(chain)
    THEN DownToChain(chain, GetAncestor(pindex, Height(chain)))
    ELSE DownToChain(chain, pindex)

\* What a tip change from chain to pindex tells the listeners: a disconnect
\* for every entry above the fork, the tip first, then a connect for every
\* entry from the fork up to pindex.
TipChangeEvents(chain, pindex) ==
    LET fork       == FindFork(chain, pindex)
        forkHeight == IF fork = NullHash THEN -1 ELSE mapBlockIndex[fork].nHeight
        tipHeight  == IF pindex = NullHash THEN -1 ELSE mapBlockIndex[pindex].nHeight
        leaving    == SubSeq(chain, forkHeight + 2, Len(chain))
        entering   == [i \in 1..(tipHeight - forkHeight) |-> GetAncestor(pindex, forkHeight + i)]
    IN [i \in 1..Len(leaving) |-> <<"disconnect", SeqExt!Reverse(leaving)[i]>>]
       \o [i \in 1..Len(entering) |-> <<"connect", entering[i]>>]

\* void SetTip(CBlockIndex* pindex), pindex an entry of the index or nullptr.
SetTip(pindex) ==
    /\ vChain' = WithTip(vChain, pindex)
    /\ notified' = TipChangeEvents(vChain, pindex)

\* The loop of GetLocator: pindex is pushed, then the walk goes nStep blocks
\* back, through the chain's slots when pindex is in the chain and through
\* GetAncestor when it is not; the step doubles after every second entry.
RECURSIVE LocatorFrom(_, _, _, _)
LocatorFrom(chain, pindex, nStep, vHave) ==
    LET have    == Append(vHave, pindex)
        back    == mapBlockIndex[pindex].nHeight - nStep
        nHeight == IF back > 0 THEN back ELSE 0
    IN IF mapBlockIndex[pindex].nHeight = 0 THEN have
       ELSE LocatorFrom(chain,
                        IF Contains(chain, pindex) THEN At(chain, nHeight)
                        ELSE GetAncestor(pindex, nHeight),
                        IF Len(have) % 2 = 0 THEN nStep * 2 ELSE nStep,
                        have)

\* CBlockLocator GetLocator(pindex = nullptr): of the tip by default.
GetLocator(chain, pindex) ==
    LET from == IF pindex = NullHash THEN Tip(chain) ELSE pindex
    IN IF from = NullHash THEN <<>> ELSE LocatorFrom(chain, from, 1, <<>>)

TooEarly(chain, nTime, height, pos) ==
    \/ GetBlockTimeMax(mapBlockIndex[chain[pos]]) < nTime
    \/ mapBlockIndex[chain[pos]].nHeight < height

\* std::lower_bound over count slots from first.
RECURSIVE LowerBound(_, _, _, _, _)
LowerBound(chain, nTime, height, first, count) ==
    IF count = 0 THEN first
    ELSE LET step == count \div 2
             it   == first + step
         IN IF TooEarly(chain, nTime, height, it)
            THEN LowerBound(chain, nTime, height, it + 1, count - (step + 1))
            ELSE LowerBound(chain, nTime, height, first, step)

\* CBlockIndex* FindEarliestAtLeast(nTime, height)
FindEarliestAtLeast(chain, nTime, height) ==
    LET pos == LowerBound(chain, nTime, height, 1, Len(chain))
    IN IF pos > Len(chain) THEN NullHash ELSE chain[pos]

-----------------------------------------------------------------------------

\* CChain on its own: headers enter the index and a caller sets any entry,
\* or nullptr, as the tip.
ChainNext ==
    \/ \E hash \in Hash : AddToBlockIndex(hash) /\ UNCHANGED chainVars
    \/ \E pindex \in Known \cup {NullHash} : SetTip(pindex) /\ UNCHANGED indexVars

ChainSpec == ChainInit /\ [][ChainNext]_vars

-----------------------------------------------------------------------------
(* Properties                                                              *)

\* After any sequence of SetTip calls, to higher, lower and forked tips, the
\* chain is the path from the genesis block to the tip: slot h holds the
\* ancestor of the tip at height h, Contains(e) says whether e is on that
\* path, and Next(e) is the block of the path built on e.
ChainIsBranchOfTip ==
    /\ \A nHeight \in 0..Height(vChain) :
          At(vChain, nHeight) = NthParent(Tip(vChain), Height(vChain) - nHeight)
    /\ \A pindex \in Known :
          /\ Contains(vChain, pindex) <=> (vChain # <<>> /\ pindex \in Branch(Tip(vChain)))
          /\ Next(vChain, pindex) # NullHash =>
                mapBlockIndex[Next(vChain, pindex)].pprev = pindex

\* The events of a tip change, applied one by one by a listener that keeps
\* its own copy of the chain: a disconnect removes the listener's tip, a
\* connect adds a block built on it.  An event that fits neither breaks the
\* copy.
ApplyEvent(chain, event) ==
    IF event[1] = "disconnect" /\ chain # <<>> /\ Tip(chain) = event[2]
    THEN SeqExt!Front(chain)
    ELSE IF event[1] = "connect" /\ mapBlockIndex[event[2]].pprev = Tip(chain)
    THEN Append(chain, event[2])
    ELSE <<NullHash>>

\* What SetTip tells the listeners is in an order they can apply (blocks
\* leave from the tip down, then enter from the fork up), and brings a
\* listener that had the old chain to the new one.
EventsRebuildChain ==
    [][mapBlockIndex' = mapBlockIndex
          => SeqExt!FoldLeft(ApplyEvent, vChain, notified') = vChain']_vars

\* The deepest entry on the branches of both pa and pb.
DeepestCommon(pa, pb) ==
    CHOOSE fork \in Branch(pa) \cap Branch(pb) :
        \A other \in Branch(pa) \cap Branch(pb) :
            mapBlockIndex[other].nHeight <= mapBlockIndex[fork].nHeight

\* FindFork, through the slots of the chain, and LastCommonAncestor, through
\* the tree, find the same block: the deepest one on both branches.
ForkIsDeepestCommon ==
    \A pa, pb \in Known :
        /\ LastCommonAncestor(pa, pb) = DeepestCommon(pa, pb)
        /\ Tip(vChain) = pa => FindFork(vChain, pb) = DeepestCommon(pa, pb)

\* A locator of any entry starts at the entry, names ancestors of it only,
\* each lower than the one before, ends with the genesis block, and its gaps
\* do not shrink on the way back, the last one (cut at height 0) apart.
LocatorShape ==
    \A pindex \in Known :
        LET vHave  == GetLocator(vChain, pindex)
            h(i)   == mapBlockIndex[vHave[i]].nHeight
            gap(i) == h(i) - h(i + 1)
        IN /\ vHave[1] = pindex
           /\ h(Len(vHave)) = 0
           /\ \A i \in 1..(Len(vHave) - 1) :
                 /\ gap(i) > 0
                 /\ vHave[i + 1] = NthParent(pindex, h(1) - h(i + 1))
           /\ \A i \in 1..(Len(vHave) - 3) : gap(i) <= gap(i + 1)

=============================================================================
