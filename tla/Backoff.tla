------------------------------- MODULE Backoff -------------------------------
(***************************************************************************)
(* compute_backoff (hookbox/src/transitions.rs) and what dispatch_one does *)
(* with its result (hookbox-server/src/worker.rs).                         *)
(*                                                                         *)
(* The code computes with f64: beyond MaxFloat a product is Inf, Inf times *)
(* 0 is NaN, and min ignores a NaN.  Here an f64 is counted in hundredths: *)
(* a multiplier of 150 is 1.5, one of 50 halves the delay, and a product   *)
(* is rounded down.  So are durations, in hundredths of a second, and the  *)
(* random draw.                                                            *)
(***************************************************************************)
EXTENDS Integers

CONSTANTS
  NaN, Inf,      \* of f64
  MaxFloat,      \* the largest finite f64
  DateRange,     \* how far ahead of now a DateTime<Utc> reaches
  DeltaRange,    \* the largest chrono::Duration
  OneDay         \* the worker's fallback

ASSUME BackoffAssumption ==
  /\ NaN \notin Int /\ Inf \notin Int /\ NaN # Inf
  /\ MaxFloat \in Nat /\ DateRange \in Nat /\ DeltaRange \in Nat /\ OneDay \in Nat
  /\ OneDay <= DateRange

One == 100  \* 1.0

\* RetryPolicy.
Policies ==
  [max_attempts : Int, initial_backoff : Nat, max_backoff : Nat,
   backoff_multiplier : Int \cup {NaN, Inf}, jitter : Int \cup {NaN}]

\* The product of two f64.
Times(a, b) ==
  CASE a = NaN \/ b = NaN -> NaN
    [] a = Inf /\ b # NaN -> IF b = 0 THEN NaN ELSE Inf
    [] b = Inf /\ a \notin {NaN, Inf} -> IF a = 0 THEN NaN ELSE Inf
    [] a \notin {NaN, Inf} /\ b \notin {NaN, Inf} ->
         IF (a * b) \div One > MaxFloat THEN Inf ELSE (a * b) \div One

\* f64::powi of a finite positive multiplier.
Powi(m) == LET pow[n \in Nat] == IF n = 0 THEN One ELSE Times(pow[n - 1], m) IN pow

\* f64::min with a finite second argument.
FMin(a, b) == IF a \in {NaN, Inf} \/ a > b THEN b ELSE a

\* Mutant: the cap is put on the base and not on the jittered delay.
JitteredUncapped(base, policy, draw) ==
  LET factor == IF policy.jitter # NaN THEN One - policy.jitter + (2 * policy.jitter * draw) \div One
                ELSE One
  IN (base * factor) \div One

\* The jitter, drawn from -jitter..jitter; the comparison with NaN is false.
Jittered(base, policy, draw) ==
  LET factor == IF policy.jitter # NaN THEN One - policy.jitter + (2 * policy.jitter * draw) \div One
                ELSE One
  IN FMin((base * factor) \div One, policy.max_backoff)

\* compute_backoff for the attempt-th failure and the random number draw.
ComputeBackoff(attempt, policy, draw) ==
  LET m == policy.backoff_multiplier
      base == FMin(Times(policy.initial_backoff, Powi(m)[attempt - 1]), policy.max_backoff)
  IN
  IF attempt <= 0 THEN policy.initial_backoff
  ELSE IF m \in {NaN, Inf} \/ m <= 0 THEN FMin(policy.initial_backoff, policy.max_backoff)
  ELSE Jittered(base, policy, draw)

\* Duration::from_std, and its fallback.
FromStd(backoff) == IF backoff > DeltaRange THEN OneDay ELSE backoff

\* Utc::now() + next_delta panics where no DateTime is left.
Panics(backoff) == FromStd(backoff) > DateRange
=============================================================================
