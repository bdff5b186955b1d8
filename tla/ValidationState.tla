--------------------------- MODULE ValidationState ---------------------------
(***************************************************************************)
(* The outcome tracker of consensus/validation.h: template                 *)
(* ValidationState<Result>, instantiated as TxValidationState and          *)
(* BlockValidationState.  One object records one validation attempt; the   *)
(* callers that own it call Invalid() and Error() any number of times, in  *)
(* any order, before they read it.                                         *)
(*                                                                         *)
(* Strings are abstracted to members of Text, the empty string to EMPTY;   *)
(* ToString keeps which of the strings it concatenates.                    *)
(***************************************************************************)
EXTENDS Naturals, Sequences

CONSTANTS
    Result,        \* the values of the Result enum (TxValidationResult, BlockValidationResult)
    RESULT_UNSET,  \* its value-initialised member (TX_RESULT_UNSET, BLOCK_RESULT_UNSET)
    Text,          \* the non-empty strings callers pass as reject reason or debug message
    EMPTY          \* the empty string, default of both string arguments

ASSUME RESULT_UNSET \in Result
ASSUME EMPTY \notin Text

\* enum class TxValidationResult
TxValidationResult ==
    {"TX_RESULT_UNSET", "TX_CONSENSUS", "TX_RECENT_CONSENSUS_CHANGE",
     "TX_INPUTS_NOT_STANDARD", "TX_NOT_STANDARD", "TX_MISSING_INPUTS",
     "TX_PREMATURE_SPEND", "TX_WITNESS_MUTATED", "TX_CONFLICT", "TX_MEMPOOL_POLICY"}

\* enum class BlockValidationResult
BlockValidationResult ==
    {"BLOCK_RESULT_UNSET", "BLOCK_CONSENSUS", "BLOCK_RECENT_CONSENSUS_CHANGE",
     "BLOCK_CACHED_INVALID", "BLOCK_INVALID_HEADER", "BLOCK_MUTATED",
     "BLOCK_MISSING_PREV", "BLOCK_INVALID_PREV", "BLOCK_TIME_FUTURE",
     "BLOCK_CHECKPOINT"}

VARIABLES
    m_mode,           \* mode_state
    m_result,         \* Result
    m_reject_reason,  \* std::string
    m_debug_message   \* std::string

vars == <<m_mode, m_result, m_reject_reason, m_debug_message>>

mode_state == {"MODE_VALID", "MODE_INVALID", "MODE_ERROR"}

String == Text \cup {EMPTY}

TypeOK ==
    /\ m_mode \in mode_state
    /\ m_result \in Result
    /\ m_reject_reason \in String
    /\ m_debug_message \in String

\* A default-constructed ValidationState.
Init ==
    /\ m_mode = "MODE_VALID"
    /\ m_result = RESULT_UNSET
    /\ m_reject_reason = EMPTY
    /\ m_debug_message = EMPTY

IsValid   == m_mode = "MODE_VALID"
IsInvalid == m_mode = "MODE_INVALID"
IsError   == m_mode = "MODE_ERROR"

-----------------------------------------------------------------------------
(* Mutations of the operations, used to show that the properties below     *)
(* depend on them.                                                         *)

\* Invalid() without its `m_mode != MODE_ERROR` guard.
InvalidDowngradesError(result, reject_reason, debug_message) ==
    /\ m_result' = result
    /\ m_reject_reason' = reject_reason
    /\ m_debug_message' = debug_message
    /\ m_mode' = "MODE_INVALID"

\* Error() that records the reason and forgets to change the mode.
ErrorKeepsMode(reject_reason) ==
    /\ m_reject_reason' = IF m_mode = "MODE_VALID" THEN reject_reason ELSE m_reject_reason
    /\ UNCHANGED <<m_mode, m_result, m_debug_message>>

-----------------------------------------------------------------------------

\* bool Invalid(Result, reject_reason = "", debug_message = "")
Invalid(result, reject_reason, debug_message) ==
    /\ m_result' = result
    /\ m_reject_reason' = reject_reason
    /\ m_debug_message' = debug_message
    /\ m_mode' = IF m_mode # "MODE_ERROR" THEN "MODE_INVALID" ELSE m_mode

\* bool Error(reject_reason)
Error(reject_reason) ==
    /\ m_reject_reason' = IF m_mode = "MODE_VALID" THEN reject_reason ELSE m_reject_reason
    /\ m_mode' = "MODE_ERROR"
    /\ UNCHANGED <<m_result, m_debug_message>>

\* std::string ToString(): "Valid", the reason, or the reason and the debug
\* message joined by ", " (a pair here).
ToString ==
    IF IsValid THEN <<"Valid">>
    ELSE IF m_debug_message # EMPTY THEN <<m_reject_reason, m_debug_message>>
    ELSE <<m_reject_reason>>

Next ==
    \/ \E result \in Result, reject_reason, debug_message \in String :
          Invalid(result, reject_reason, debug_message)
    \/ \E reject_reason \in String : Error(reject_reason)

Spec == Init /\ [][Next]_vars

-----------------------------------------------------------------------------

\* A run-time error dominates: once Error() was called, no later Invalid() of
\* the same attempt turns the state back into a peer-attributable rejection
\* (the `m_mode != MODE_ERROR` guard of Invalid).
ErrorDominates ==
    [][IsError => IsError']_vars

\* What the callers' `if (state.IsValid())` relies on: a state that still
\* says valid carries no rejection, whatever calls were made, and prints as
\* "Valid"; every Invalid() and every Error() leaves the valid mode.
ValidCarriesNothing ==
    IsValid => /\ m_result = RESULT_UNSET
               /\ m_reject_reason = EMPTY
               /\ m_debug_message = EMPTY

=============================================================================
