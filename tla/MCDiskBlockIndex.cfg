SPECIFICATION Spec
CONSTANTS
    Modifier <- MCModifier
    Payment <- MCPayment
    StakeHash <- MCStakeHash
    Position <- MCPosition
INVARIANT TypeOK
INVARIANT ReloadRestoresEntry
