SPECIFICATION Spec
CONSTANTS
    Txid <- MCTxid
    Tx <- MCTx
    Address <- MCAddress
    FirstSPID = 3
    FirstTestSPID = 13
    MaxProperties = 1
    MaxBlocks = 3
    TxPerBlock = 2
    UpdatesPerBlock = 2
    MaxCount = 1
    Bad = Bad
    MaxCallBlocks = 2
INVARIANT RollbackRestoresEntries
