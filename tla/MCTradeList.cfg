SPECIFICATION Spec
CONSTANTS
    a1 = a1
    a2 = a2
    Txid <- MCTxid
    Tx <- MCTx
    Amount <- MCAmount
    Fee = {1}
    FirstBlock = 9
    LastBlock = 11
    MaxCount = 4
INVARIANT TypeOK
INVARIANT NoTradeAboveTip
INVARIANT TradesForAddressSorted
INVARIANT TradesForPairAreLatest
INVARIANT QueriesAgreeOnMatches
PROPERTY RollbackKeepsEarlierRecords
