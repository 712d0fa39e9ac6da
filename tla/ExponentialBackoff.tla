-------------------------- MODULE ExponentialBackoff --------------------------
(***************************************************************************)
(* The delays of remote/exponential_backoff.cc, in whole milliseconds.     *)
(***************************************************************************)
EXTENDS Naturals, Integers

CONSTANTS
    InitialDelay,   \* initial_delay_
    MaxDelay        \* max_delay_

ASSUME ExponentialBackoffAssumption ==
    /\ InitialDelay \in Nat /\ MaxDelay \in Nat
    /\ InitialDelay <= MaxDelay

ClampDelay(delay) ==
    IF delay < InitialDelay THEN InitialDelay ELSE IF delay > MaxDelay THEN MaxDelay ELSE delay

\* Mutant: a jitter of the whole base.
WideJitter(base) == -base .. base
\* GetDelayWithJitter: the values of (r - 0.5) * base for 0 <= r < 1, cut towards zero.
DelayWithJitter(base) == -(base \div 2) .. (IF base = 0 THEN 0 ELSE (base - 1) \div 2)

\* The time that is left to wait, when some of it has passed since the last attempt.
RemainingDelay(desired, soFar) == IF desired > soFar THEN desired - soFar ELSE 0

\* kBackoffFactor is 1.5; duration_cast cuts the product towards zero.
NextBase(base) == ClampDelay((base * 3) \div 2)
===============================================================================
