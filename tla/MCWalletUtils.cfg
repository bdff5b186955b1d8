SPECIFICATION Spec
CONSTANTS
    Tx <- MCTx
    Address <- MCAddress
    NoDestination = "none"
    Mine <- MCMine
    Spendable <- MCSpendable
    Wallets <- MCWallets
    minRelayTxFee = 3000
    payTxFee = 1000
    nSize = 182
    FeeEstimate = {0, 40000}
    AmountRequired = {1, 90000, 150000, 150001, 300000}
    MaxLocked = 1
INVARIANT TypeOK
INVARIANT SelectCoinsTakesJustEnough
INVARIANT SelectAllCoinsCoversSelectCoins
INVARIANT SelectedCoinsAreOfMyAddress
