SPECIFICATION Spec
CONSTANTS
    Hash <- MCHash
    NullHash <- MCNullHash
    Block <- MCBlock
    UintModulus <- MCUintModulus
INVARIANT TypeOK
INVARIANT SkipListFindsAncestors
INVARIANT ChainIsBranchOfTip
INVARIANT ForkIsDeepestCommon
INVARIANT LocatorShape
 
PROPERTY EventsRebuildChain
