------------------------------ MODULE Backoff ------------------------------
(***************************************************************************)
(* ExponentialBackoff of src/ft_system/common/retry.py, as the LFD uses    *)
(* it: next_delay after a failed heartbeat, reset after an acknowledged    *)
(* one.  Delays are whole units of time, so that the arithmetic is exact;  *)
(* the code's floats add a rounding error of the last place.               *)
(***************************************************************************)
EXTENDS Integers

CONSTANTS
    MaxDelay,       \* bound: the largest configured delay
    MaxAttempt      \* bound: consecutive failures

VARIABLES
    initial, maximum, attempt,  \* the fields of the same names
    delay                       \* what next_delay last returned

vars == <<initial, maximum, attempt, delay>>

Smaller(a, b) == IF a <= b THEN a ELSE b

TypeOK ==
    /\ initial \in 1..MaxDelay
    /\ maximum \in initial..MaxDelay
    /\ attempt \in 0..MaxAttempt
    /\ delay \in 0..maximum

\* There is no ExponentialBackoff yet.
Init ==
    /\ initial = 0
    /\ maximum = 0
    /\ attempt = 0
    /\ delay = 0

\* __post_init__ raises ValueError for anything else.
Accepts(low, high) == 0 < low /\ low <= high

Create(low, high) ==
    /\ Accepts(low, high)
    /\ initial' = low
    /\ maximum' = high
    /\ attempt' = 0
    /\ delay' = 0

\* Mutation of MaxExponent: the logarithm is rounded down.
MaxExponentFloor ==
    CHOOSE e \in 0..MaxDelay :
        initial * 2^e <= maximum /\ maximum < initial * 2^(e + 1)

\* ceil(log2(maximum / initial)): the first power that reaches the maximum.
MaxExponent ==
    CHOOSE e \in 0..MaxDelay :
        /\ initial * 2^e >= maximum
        /\ \A d \in 0..(e - 1) : initial * 2^d < maximum

Exponent == Smaller(attempt, MaxExponent)

NextDelay ==
    /\ attempt < MaxAttempt
    /\ delay' = Smaller(initial * 2^Exponent, maximum)
    /\ attempt' = attempt + 1
    /\ UNCHANGED <<initial, maximum>>

Reset ==
    /\ attempt' = 0
    /\ UNCHANGED <<initial, maximum, delay>>

Next == NextDelay \/ Reset
=============================================================================
