SPECIFICATION Spec
CONSTANTS
    t1 = t1
    t2 = t2
    t3 = t3
    empty = empty
    Result <- BlockValidationResult
    RESULT_UNSET = "BLOCK_RESULT_UNSET"
    Text <- MCText
    EMPTY = empty
INVARIANT ValidCarriesNothing
PROPERTY ErrorDominates
