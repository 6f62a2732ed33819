------------------------------ MODULE Reconnect ------------------------------
(***************************************************************************)
(* The back-off of src/main/network/reconnect.c: the delay after a failed  *)
(* attempt is base * 2^retry in 32 bit arithmetic, cut at a maximum, plus  *)
(* a random jitter that is left out here.  Times are in units of 8 ms, the *)
(* largest in which both delays are whole; the 32 bit word then has 2^29   *)
(* values.  retry_count only counts as far as it can still change the      *)
(* delay.                                                                  *)
(***************************************************************************)
EXTENDS Integers

CONSTANTS
    BaseDelay,    \* RECONNECT_BASE_DELAY_MS / 8
    MaxDelay,     \* RECONNECT_MAX_DELAY_MS / 8
    MaxShift,     \* the largest shift, 30 in the code
    Modulus       \* the number of delays that fit the word

ASSUME ReconnectAssumption ==
    /\ BaseDelay \in Nat \ {0} /\ MaxDelay \in Nat \ {0}
    /\ MaxShift \in Nat
    /\ Modulus \in Nat \ {0}

(* retry_count as far as reconnect_delay looks at it. *)
Retry == 0..MaxShift

(* base_delay_ms * (1U << shift), bit by bit. *)
Shifted[shift \in Retry] ==
    IF shift = 0 THEN BaseDelay % Modulus ELSE (2 * Shifted[shift - 1]) % Modulus

(* Mutant of Backoff: the cap is looked up one attempt late. *)
BackoffLate(retry) ==
    IF retry > 0 /\ Shifted[retry - 1] > MaxDelay THEN MaxDelay ELSE Shifted[retry]

(* reconnect_delay without the jitter. *)
Backoff(retry) == IF Shifted[retry] > MaxDelay THEN MaxDelay ELSE Shifted[retry]

(* Mutant of Counted: no limit on the shift. *)
CountedOn(retry) == retry + 1

(* retry_count++ *)
Counted(retry) == IF retry = MaxShift THEN MaxShift ELSE retry + 1

MaxRetries == -1          \* RECONNECT_INFINITE_RETRIES

(* Mutant of ShouldRetry: a limit on the number of attempts. *)
ShouldRetryAFewTimes(retry) == retry < MaxShift

(* reconnect_should_retry *)
ShouldRetry(retry) == MaxRetries < 0 \/ retry < MaxRetries
=============================================================================
