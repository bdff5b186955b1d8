SPECIFICATION Spec
CONSTANTS
    G = G
    A = A
    B = B
    D = D
    F = F
    null = null
    Hash <- MCHash
    NullHash = null
    Block <- MCBlock
    UintModulus <- MCUintModulus
INVARIANT TypeOK
INVARIANT ChainIsConnected
INVARIANT ValidImpliesParentsValid
INVARIANT ChainTxIffBranchHasData
INVARIANT FileInfoCoversStoredBlocks
PROPERTY ValidityOnlyEscalates
PROPERTY BestChainIsReached
PROPERTY ImplementsChainSelection
