-------------------------- MODULE MCValidationState --------------------------
(* ValidationState for TLC: BlockValidationState, the instance over the    *)
(* results of enum BlockValidationResult, with three distinct strings.     *)
EXTENDS ValidationState

CONSTANTS t1, t2, t3, empty

MCText == {t1, t2, t3}
=============================================================================
