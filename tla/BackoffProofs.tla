---------------------------- MODULE BackoffProofs ----------------------------
(***************************************************************************)
(* What compute_backoff returns, for every policy that passes the          *)
(* validation, every attempt and every draw.                               *)
(*                                                                         *)
(* Powi is a recursive function, and what is known of one is only that it  *)
(* satisfies its equation if some function does.  That one does, from its  *)
(* values up to n for every n, and that all its values are numbers that    *)
(* are not negative, or NaN or Inf, is shown by the least exception.       *)
(***************************************************************************)
EXTENDS Backoff, TLAPS, WellFoundedInduction, NaturalsInduction

\* A set of numbers with a member has a least one.
LEMMA Least ==
  ASSUME NEW S, S \subseteq Nat, S # {}
  PROVE  \E n \in S : \A k \in S : n <= k
<1>. DEFINE Less == {p \in Nat \X Nat : p[1] < p[2]}
<1>1. IsWellFoundedOn(Less, Nat)
  BY NatLessThanWellFounded, Zenon DEF OpToRel
<1>2. PICK n \in S : \A k \in S : ~ (<<k, n>> \in Less)
  <2>. HIDE DEF Less
  <2>. QED BY <1>1, WFMin
<1>3. ASSUME NEW k \in S
      PROVE  n <= k
  <2>1. k \in Nat /\ n \in Nat
    OBVIOUS
  <2>2. k < n => <<k, n>> \in Less
    BY <2>1
  <2>. QED BY <1>2, <2>1, <2>2
<1>. QED BY <1>3

\* The values of powi up to the exponent n.
Powers(g, m, n) ==
  /\ g[0] = One
  /\ \A i \in 1..n : g[i] = Times(g[i - 1], m)

\* Two such tables agree as far as both go.
LEMMA PowersUnique ==
  ASSUME NEW m, NEW n \in Nat, NEW g, NEW h, Powers(g, m, n), Powers(h, m, n)
  PROVE  \A i \in 0..n : g[i] = h[i]
<1>. DEFINE Bad == {i \in 0..n : g[i] # h[i]}
<1>1. ASSUME Bad # {}
      PROVE  FALSE
  <2>1. PICK k \in Bad : \A j \in Bad : k <= j
    <3>1. Bad \subseteq Nat
      OBVIOUS
    <3>. HIDE DEF Bad
    <3>. QED BY <1>1, <3>1, Least
  <2>2. k \in 1..n /\ k - 1 \in 0..n /\ k - 1 \notin Bad
    <3>1. k # 0
      BY DEF Powers
    <3>. QED BY <2>1, <3>1
  <2>3. g[k - 1] = h[k - 1]
    BY <2>2
  <2>4. g[k] = Times(g[k - 1], m) /\ h[k] = Times(h[k - 1], m)
    BY <2>2 DEF Powers
  <2>. QED BY <2>3, <2>4
<1>. QED BY <1>1

\* There is one for every exponent.
LEMMA PowersExist ==
  ASSUME NEW m, NEW n \in Nat
  PROVE  \E g : Powers(g, m, n)
<1>. DEFINE Bad == {i \in Nat : ~ \E g : Powers(g, m, i)}
<1>1. ASSUME Bad # {}
      PROVE  FALSE
  <2>1. PICK k \in Bad : \A j \in Bad : k <= j
    <3>1. Bad \subseteq Nat
      OBVIOUS
    <3>. HIDE DEF Bad
    <3>. QED BY <1>1, <3>1, Least
  <2>2. CASE k = 0
    <3>1. Powers([i \in {0} |-> One], m, 0)
      BY DEF Powers
    <3>. QED BY <2>1, <2>2, <3>1
  <2>3. CASE k # 0
    <3>1. k \in Nat /\ k - 1 \in Nat /\ k - 1 \notin Bad
      BY <2>1, <2>3
    <3>2. PICK g : Powers(g, m, k - 1)
      BY <3>1
    <3>. DEFINE h == [i \in 0..k |-> IF i = k THEN Times(g[k - 1], m) ELSE g[i]]
    <3>3. h[0] = One
      BY <2>3, <3>1, <3>2 DEF Powers
    <3>4. ASSUME NEW i \in 1..k
          PROVE  h[i] = Times(h[i - 1], m)
      <4>1. i - 1 \in 0..k /\ i - 1 # k /\ i \in 0..k
        BY <3>1
      <4>2. h[i - 1] = g[i - 1]
        BY <4>1
      <4>3. CASE i = k
        BY <4>1, <4>2, <4>3
      <4>4. CASE i # k
        <5>1. i \in 1..(k - 1)
          BY <3>1, <4>4
        <5>2. g[i] = Times(g[i - 1], m)
          BY <3>2, <5>1 DEF Powers
        <5>3. h[i] = g[i]
          BY <4>1, <4>4
        <5>. QED BY <4>2, <5>2, <5>3
      <4>. QED BY <4>3, <4>4
    <3>. HIDE DEF h
    <3>5. Powers(h, m, k)
      BY <3>3, <3>4 DEF Powers
    <3>. QED BY <2>1, <3>5
  <2>. QED BY <2>2, <2>3
<1>. QED BY <1>1

\* Powi satisfies its equation.
LEMMA PowiEquation ==
  ASSUME NEW m
  PROVE  /\ Powi(m)[0] = One
         /\ \A n \in Nat : Powi(m)[n + 1] = Times(Powi(m)[n], m)
<1>. DEFINE Table(n) == CHOOSE g : Powers(g, m, n)
            f == [n \in Nat |-> Table(n)[n]]
            Eq(p) == p = [n \in Nat |-> IF n = 0 THEN One ELSE Times(p[n - 1], m)]
<1>1. \A n \in Nat : Powers(Table(n), m, n)
  BY PowersExist, Zenon
<1>2. f[0] = One
  BY <1>1 DEF Powers
<1>3. ASSUME NEW n \in Nat, n # 0
      PROVE  f[n] = Times(f[n - 1], m)
  <2>1. n - 1 \in Nat /\ n \in 1..n /\ n - 1 \in 0..(n - 1)
    BY <1>3
  <2>. HIDE DEF Table
  <2>2. Table(n)[n] = Times(Table(n)[n - 1], m)
    BY <1>1, <2>1 DEF Powers
  <2>3. Powers(Table(n), m, n - 1)
    BY <1>1, <2>1 DEF Powers
  <2>4. Table(n)[n - 1] = Table(n - 1)[n - 1]
    BY <1>1, <2>1, <2>3, PowersUnique
  <2>. QED BY <2>1, <2>2, <2>4
<1>4. Eq(f)
  <2>1. f = [n \in Nat |-> f[n]]
    OBVIOUS
  <2>. HIDE DEF f
  <2>2. \A n \in Nat : f[n] = IF n = 0 THEN One ELSE Times(f[n - 1], m)
    BY <1>2, <1>3
  <2>. QED BY <2>1, <2>2, Zenon
<1>5. Powi(m) = CHOOSE p : Eq(p)
  BY DEF Powi
<1>6. Eq(CHOOSE p : Eq(p))
  <2>. HIDE DEF f
  <2>. QED BY <1>4, Zenon
<1>. DEFINE p == Powi(m)
<1>7. p = [n \in Nat |-> IF n = 0 THEN One ELSE Times(p[n - 1], m)]
  BY <1>5, <1>6, Zenon
<1>. HIDE DEF p
<1>8. \A n \in Nat : p[n] = IF n = 0 THEN One ELSE Times(p[n - 1], m)
  BY <1>7, Zenon
<1>9. \A n \in Nat : n + 1 \in Nat /\ n + 1 # 0 /\ (n + 1) - 1 = n
  OBVIOUS
<1>10. p[0] = One /\ \A n \in Nat : p[n + 1] = Times(p[n], m)
  BY <1>8, <1>9
<1>. QED BY <1>10 DEF p

-----------------------------------------------------------------------------
\* An f64 that is not negative.
Floats == Nat \cup {NaN, Inf}

\* A finite product, rounded down, does not get smaller when a factor grows.
LEMMA ProductType ==
  ASSUME NEW a \in Nat, NEW b \in Nat
  PROVE  (a * b) \div One \in Nat
<1>1. a * b \in Nat
  OBVIOUS
<1>2. \A x \in Nat : x \div 100 \in Nat
  OBVIOUS
<1>. QED BY <1>1, <1>2 DEF One

LEMMA ProductGrows ==
  ASSUME NEW a \in Nat, NEW b \in Nat, NEW c \in Nat, b <= c
  PROVE  (a * b) \div One <= (a * c) \div One
<1>1. a * b \in Nat /\ a * c \in Nat /\ a * b <= a * c
  OBVIOUS
<1>2. \A x, y \in Nat : x <= y => x \div 100 <= y \div 100
  OBVIOUS
<1>. QED BY <1>1, <1>2 DEF One

\* One is neutral.
LEMMA ProductOne ==
  ASSUME NEW a \in Nat
  PROVE  (a * One) \div One = a
BY DEF One

\* A product of two of them is one of them.
LEMMA TimesType ==
  ASSUME NEW a \in Floats, NEW b \in Floats
  PROVE  Times(a, b) \in Floats
<1>1. CASE a \in {NaN, Inf} \/ b \in {NaN, Inf}
  BY <1>1, BackoffAssumption DEF Times, Floats
<1>2. CASE a \notin {NaN, Inf} /\ b \notin {NaN, Inf}
  <2>1. a \in Nat /\ b \in Nat
    BY <1>2 DEF Floats
  <2>2. (a * b) \div One \in Nat
    BY <2>1, ProductType
  <2>3. Times(a, b) = IF (a * b) \div One > MaxFloat THEN Inf ELSE (a * b) \div One
    BY <1>2 DEF Times
  <2>. QED BY <2>2, <2>3 DEF Floats
<1>. QED BY <1>1, <1>2

\* min with a finite bound is a number up to the bound, also of NaN and Inf.
LEMMA FMinBounded ==
  ASSUME NEW a \in Floats, NEW b \in Nat
  PROVE  FMin(a, b) \in 0..b
BY BackoffAssumption DEF FMin, Floats

\* So are the powers of a positive multiplier, at every exponent.
LEMMA PowiType ==
  ASSUME NEW m \in Nat, NEW n \in Nat
  PROVE  Powi(m)[n] \in Floats
<1>. DEFINE p == Powi(m)
            Bad == {i \in Nat : p[i] \notin Floats}
<1>1. p[0] = One /\ \A i \in Nat : p[i + 1] = Times(p[i], m)
  BY PowiEquation
<1>. HIDE DEF p
<1>2. ASSUME Bad # {}
      PROVE  FALSE
  <2>1. PICK k \in Bad : \A j \in Bad : k <= j
    <3>1. Bad \subseteq Nat
      OBVIOUS
    <3>. HIDE DEF Bad
    <3>. QED BY <1>2, <3>1, Least
  <2>2. k # 0
    BY <1>1, <2>1 DEF Floats, One
  <2>3. k - 1 \in Nat /\ (k - 1) + 1 = k /\ k - 1 \notin Bad
    BY <2>1, <2>2
  <2>4. p[k - 1] \in Floats /\ p[k] = Times(p[k - 1], m) /\ m \in Floats
    BY <1>1, <2>3 DEF Floats
  <2>5. p[k] \in Floats
    BY <2>4, TimesType
  <2>. QED BY <2>1, <2>5
<1>. QED BY <1>2 DEF p

\* The factor of the jitter is not negative.
LEMMA FactorType ==
  ASSUME NEW j \in 0..100, NEW d \in 0..100
  PROVE  One - j + (2 * j * d) \div One \in Nat
<1>1. j * d \in Nat
  OBVIOUS
<1>2. 2 * j * d \in Nat
  BY <1>1
<1>3. \A x \in Nat : x \div 100 \in Nat
  OBVIOUS
<1>4. (2 * j * d) \div 100 \in Nat
  BY <1>2, <1>3
<1>. QED BY <1>4 DEF One

\* The policies that validate_emitter_entries lets through, as far as the delay goes.
ValidPolicies == {policy \in Policies : policy.jitter # NaN => policy.jitter \in 0..100}

(***************************************************************************)
(* compute_backoff, from the first failure on: whatever policy passes the  *)
(* validation, the delay is a number of seconds and at most the policy's   *)
(* maximum, also where the power overflows to Inf, where Inf meets 0 and   *)
(* after the jitter.                                                       *)
(***************************************************************************)
THEOREM ComputeBackoffBounded ==
  ASSUME NEW policy \in ValidPolicies, NEW attempt \in Nat \ {0}, NEW draw \in 0..100
  PROVE  ComputeBackoff(attempt, policy, draw) \in 0..policy.max_backoff
<1>. DEFINE m == policy.backoff_multiplier
            max == policy.max_backoff
            initial == policy.initial_backoff
            base == FMin(Times(initial, Powi(m)[attempt - 1]), max)
<1>1. /\ m \in Int \cup {NaN, Inf} /\ max \in Nat /\ initial \in Nat
      /\ policy.jitter # NaN => policy.jitter \in 0..100
  BY DEF ValidPolicies, Policies
<1>2. CASE m \in {NaN, Inf} \/ m <= 0
  <2>1. ComputeBackoff(attempt, policy, draw) = FMin(initial, max)
    BY <1>2 DEF ComputeBackoff
  <2>. QED BY <1>1, <2>1, FMinBounded DEF Floats
<1>3. CASE ~(m \in {NaN, Inf} \/ m <= 0)
  <2>1. ComputeBackoff(attempt, policy, draw) = Jittered(base, policy, draw)
    BY <1>3 DEF ComputeBackoff
  <2>2. m \in Nat /\ attempt - 1 \in Nat
    BY <1>1, <1>3
  <2>3. base \in Nat
    <3>1. Powi(m)[attempt - 1] \in Floats
      BY <2>2, PowiType
    <3>2. Times(initial, Powi(m)[attempt - 1]) \in Floats
      BY <1>1, <3>1, TimesType DEF Floats
    <3>. QED BY <1>1, <3>2, FMinBounded
  <2>. HIDE DEF base
  <2>. DEFINE factor == IF policy.jitter # NaN
                        THEN One - policy.jitter + (2 * policy.jitter * draw) \div One
                        ELSE One
  <2>4. factor \in Nat
    <3>1. One \in Nat
      BY DEF One
    <3>. QED BY <1>1, <3>1, FactorType
  <2>5. Jittered(base, policy, draw) = FMin((base * factor) \div One, max)
    BY DEF Jittered
  <2>. HIDE DEF factor
  <2>7. (base * factor) \div One \in Nat
    BY <2>3, <2>4, ProductType
  <2>8. FMin((base * factor) \div One, max) \in 0..max
    BY <1>1, <2>7, FMinBounded DEF Floats
  <2>. QED BY <2>1, <2>5, <2>8
<1>. QED BY <1>2, <1>3

(***************************************************************************)
(* dispatch_one: a delay within the range of dates is added to the clock   *)
(* without a panic, and so is one that from_std refuses, for the fallback  *)
(* of a day is within the range.                                           *)
(***************************************************************************)
THEOREM OnlyFarDatesPanic ==
  ASSUME NEW backoff \in Nat, Panics(backoff)
  PROVE  backoff > DateRange /\ backoff <= DeltaRange
BY BackoffAssumption DEF Panics, FromStd

-----------------------------------------------------------------------------
\* The powers of a multiplier of at least one are at least one until they
\* overflow, and then Inf.
AtLeastOne == {x \in Nat : x >= One} \cup {Inf}

\* A factor of at least one does not make a product smaller.
LEMMA TimesGrows ==
  ASSUME NEW x \in AtLeastOne, NEW m \in Nat, m >= One
  PROVE  /\ Times(x, m) \in AtLeastOne
         /\ Times(x, m) # Inf => x # Inf /\ x <= Times(x, m)
<1>0. One \in Nat
  BY DEF One
<1>1. CASE x = Inf
  BY <1>1, BackoffAssumption DEF Times, AtLeastOne, One
<1>2. CASE x # Inf
  <2>. DEFINE y == (x * m) \div One
  <2>1. x \in Nat /\ x >= One
    BY <1>2 DEF AtLeastOne
  <2>2. (x * One) \div One <= y /\ y \in Nat
    BY <1>0, <2>1, ProductGrows, ProductType
  <2>3. x <= y
    BY <2>1, <2>2, ProductOne
  <2>4. Times(x, m) = IF y > MaxFloat THEN Inf ELSE y
    BY <1>2, <2>1, BackoffAssumption DEF Times
  <2>. HIDE DEF y
  <2>. QED BY <1>0, <1>2, <2>1, <2>2, <2>3, <2>4, BackoffAssumption DEF AtLeastOne
<1>. QED BY <1>1, <1>2

LEMMA PowiAtLeastOne ==
  ASSUME NEW m \in Nat, m >= One, NEW n \in Nat
  PROVE  Powi(m)[n] \in AtLeastOne
<1>. DEFINE p == Powi(m)
            Bad == {i \in Nat : p[i] \notin AtLeastOne}
<1>1. p[0] = One /\ \A i \in Nat : p[i + 1] = Times(p[i], m)
  BY PowiEquation
<1>. HIDE DEF p
<1>2. ASSUME Bad # {}
      PROVE  FALSE
  <2>1. PICK k \in Bad : \A j \in Bad : k <= j
    <3>1. Bad \subseteq Nat
      OBVIOUS
    <3>. HIDE DEF Bad
    <3>. QED BY <1>2, <3>1, Least
  <2>2. k # 0
    BY <1>1, <2>1 DEF AtLeastOne, One
  <2>3. k - 1 \in Nat /\ (k - 1) + 1 = k /\ k - 1 \notin Bad
    BY <2>1, <2>2
  <2>4. p[k - 1] \in AtLeastOne /\ p[k] = Times(p[k - 1], m)
    BY <1>1, <2>3
  <2>5. p[k] \in AtLeastOne
    BY <2>4, TimesGrows
  <2>. QED BY <2>1, <2>5
<1>. QED BY <1>2 DEF p

\* The powers of a multiplier below one get no larger, and never overflow.
LEMMA PowiShrinks ==
  ASSUME NEW m \in Nat, m <= One, One <= MaxFloat, NEW n \in Nat
  PROVE  /\ Powi(m)[n] \in 0..One
         /\ Powi(m)[n + 1] \in 0..Powi(m)[n]
<1>. DEFINE p == Powi(m)
            Bad == {i \in Nat : p[i] \notin 0..One}
<1>0. One \in Nat
  BY DEF One
<1>1. p[0] = One /\ \A i \in Nat : p[i + 1] = Times(p[i], m)
  BY PowiEquation
<1>. HIDE DEF p
<1>2. ASSUME NEW x \in 0..One
      PROVE  Times(x, m) \in 0..x
  <2>. DEFINE y == (x * m) \div One
  <2>1. x \in Nat /\ y \in Nat
    BY <1>0, ProductType
  <2>2. y <= (x * One) \div One
    BY <1>0, <2>1, ProductGrows
  <2>3. y <= x
    BY <2>1, <2>2, ProductOne
  <2>4. Times(x, m) = IF y > MaxFloat THEN Inf ELSE y
    BY <2>1, BackoffAssumption DEF Times
  <2>. HIDE DEF y
  <2>. QED BY <1>0, <2>1, <2>3, <2>4, BackoffAssumption
<1>3. ASSUME Bad # {}
      PROVE  FALSE
  <2>1. PICK k \in Bad : \A j \in Bad : k <= j
    <3>1. Bad \subseteq Nat
      OBVIOUS
    <3>. HIDE DEF Bad
    <3>. QED BY <1>3, <3>1, Least
  <2>2. k # 0
    BY <1>0, <1>1, <2>1
  <2>3. k - 1 \in Nat /\ (k - 1) + 1 = k /\ k - 1 \notin Bad
    BY <2>1, <2>2
  <2>4. p[k - 1] \in 0..One /\ p[k] = Times(p[k - 1], m)
    BY <1>1, <2>3
  <2>5. p[k] \in 0..One
    BY <1>0, <1>2, <2>4
  <2>. QED BY <2>1, <2>5
<1>4. p[n] \in 0..One /\ p[n + 1] = Times(p[n], m)
  BY <1>1, <1>3
<1>. QED BY <1>2, <1>4 DEF p

\* The policies of prop_backoff_monotonic_under_no_jitter.
Unjittered == {policy \in ValidPolicies : policy.jitter \in {0, NaN}}

\* Without jitter the delay is the base.
LEMMA UnjitteredDelay ==
  ASSUME NEW policy \in Unjittered, NEW draw \in 0..100, NEW base \in 0..policy.max_backoff
  PROVE  Jittered(base, policy, draw) = base
<1>1. policy.max_backoff \in Nat /\ policy.jitter \in {0, NaN}
  BY DEF Unjittered, ValidPolicies, Policies
<1>. DEFINE factor == IF policy.jitter # NaN
                      THEN One - policy.jitter + (2 * policy.jitter * draw) \div One
                      ELSE One
<1>2. factor = One
  <2>1. 2 * 0 * draw = 0 /\ 0 \div One = 0
    BY DEF One
  <2>. QED BY <1>1, <2>1 DEF One
<1>3. Jittered(base, policy, draw) = FMin((base * factor) \div One, policy.max_backoff)
  BY DEF Jittered
<1>. HIDE DEF factor
<1>4. base \in Nat /\ (base * One) \div One = base
  BY <1>1, ProductOne
<1>5. FMin(base, policy.max_backoff) = base
  BY <1>1, <1>4, BackoffAssumption DEF FMin
<1>. QED BY <1>2, <1>3, <1>4, <1>5

\* The delay before jitter: it grows with the power.
Base(policy, power) == FMin(Times(policy.initial_backoff, power), policy.max_backoff)

LEMMA BaseType ==
  ASSUME NEW policy \in ValidPolicies, NEW x \in Floats
  PROVE  Base(policy, x) \in 0..policy.max_backoff
<1>1. policy.initial_backoff \in Nat /\ policy.max_backoff \in Nat
  BY DEF ValidPolicies, Policies
<1>2. Times(policy.initial_backoff, x) \in Floats
  BY <1>1, TimesType DEF Floats
<1>. QED BY <1>1, <1>2, FMinBounded DEF Base

LEMMA BaseGrows ==
  ASSUME NEW policy \in ValidPolicies, NEW x \in Floats, NEW y \in Floats,
         y = Inf \/ (x \in Nat /\ y \in Nat /\ x <= y)
  PROVE  Base(policy, x) <= Base(policy, y)
<1>. DEFINE initial == policy.initial_backoff
            max == policy.max_backoff
<1>1. initial \in Nat /\ max \in Nat
  BY DEF ValidPolicies, Policies
<1>2. CASE y = Inf
  <2>1. Times(initial, y) \in {NaN, Inf}
    BY <1>1, <1>2, BackoffAssumption DEF Times
  <2>2. Base(policy, y) = max
    BY <2>1 DEF Base, FMin
  <2>3. Base(policy, x) \in 0..max
    BY BaseType
  <2>. QED BY <1>1, <2>2, <2>3
<1>3. CASE y # Inf
  <2>. DEFINE b == (initial * x) \div One
              c == (initial * y) \div One
  <2>1. x \in Nat /\ y \in Nat /\ x <= y
    BY <1>3
  <2>2. b \in Nat /\ c \in Nat /\ b <= c
    BY <1>1, <2>1, ProductType, ProductGrows
  <2>3. /\ Times(initial, x) = IF b > MaxFloat THEN Inf ELSE b
        /\ Times(initial, y) = IF c > MaxFloat THEN Inf ELSE c
    BY <1>1, <2>1, BackoffAssumption DEF Times
  <2>. HIDE DEF b, c
  <2>. QED BY <1>1, <2>2, <2>3, BackoffAssumption DEF Base, FMin
<1>. QED BY <1>2, <1>3

\* compute_backoff without jitter, from the first failure on.
LEMMA UnjitteredBackoff ==
  ASSUME NEW policy \in Unjittered, NEW attempt \in Nat \ {0}, NEW draw \in 0..100,
         policy.backoff_multiplier \in Nat \ {0}
  PROVE  ComputeBackoff(attempt, policy, draw)
           = Base(policy, Powi(policy.backoff_multiplier)[attempt - 1])
<1>. DEFINE m == policy.backoff_multiplier
            x == Powi(m)[attempt - 1]
<1>1. policy \in ValidPolicies
  BY DEF Unjittered
<1>2. ~(m \in {NaN, Inf} \/ m <= 0) /\ ~(attempt <= 0) /\ attempt - 1 \in Nat /\ m \in Nat
  BY BackoffAssumption
<1>3. ComputeBackoff(attempt, policy, draw) = Jittered(Base(policy, x), policy, draw)
  BY <1>2 DEF ComputeBackoff, Base
<1>4. x \in Floats
  BY <1>2, PowiType
<1>. HIDE DEF x
<1>5. Base(policy, x) \in 0..policy.max_backoff
  BY <1>1, <1>4, BaseType
<1>6. Jittered(Base(policy, x), policy, draw) = Base(policy, x)
  BY <1>5, UnjitteredDelay
<1>. QED BY <1>3, <1>6 DEF x

\* The multipliers that prop_backoff_monotonic_under_no_jitter draws, and those
\* for which compute_backoff falls back to initial_backoff.
Growing ==
  {policy \in Unjittered : policy.backoff_multiplier \in Int =>
                             policy.backoff_multiplier <= 0 \/ policy.backoff_multiplier >= One}

(***************************************************************************)
(* prop_backoff_monotonic_under_no_jitter: without jitter, and with a      *)
(* multiplier of at least 1.0 or one that compute_backoff refuses, a later *)
(* failure is never retried sooner, also where the power overflows on the  *)
(* way.                                                                    *)
(***************************************************************************)
THEOREM BackoffMonotonic ==
  ASSUME NEW policy \in Growing, NEW attempt \in Nat \ {0},
         NEW draw \in 0..100, NEW next \in 0..100
  PROVE  ComputeBackoff(attempt, policy, draw) <= ComputeBackoff(attempt + 1, policy, next)
<1>. DEFINE m == policy.backoff_multiplier
            max == policy.max_backoff
            initial == policy.initial_backoff
<1>1. policy \in Unjittered /\ policy \in ValidPolicies
  BY DEF Growing, Unjittered
<1>2. /\ m \in Int \cup {NaN, Inf} /\ max \in Nat /\ initial \in Nat
      /\ m \in Int => m <= 0 \/ m >= One
  BY <1>1 DEF Growing, ValidPolicies, Policies
<1>3. /\ attempt - 1 \in Nat /\ (attempt - 1) + 1 = attempt /\ (attempt + 1) - 1 = attempt
      /\ attempt + 1 \in Nat \ {0} /\ attempt > 0 /\ attempt + 1 > 0
  OBVIOUS
<1>4. CASE m \in {NaN, Inf} \/ m <= 0
  <2>1. /\ ComputeBackoff(attempt, policy, draw) = FMin(initial, max)
        /\ ComputeBackoff(attempt + 1, policy, next) = FMin(initial, max)
    BY <1>3, <1>4 DEF ComputeBackoff
  <2>2. FMin(initial, max) \in 0..max
    BY <1>2, FMinBounded DEF Floats
  <2>. QED BY <1>2, <2>1, <2>2
<1>5. CASE ~(m \in {NaN, Inf} \/ m <= 0)
  <2>. DEFINE x == Powi(m)[attempt - 1]
              y == Powi(m)[attempt]
  <2>1. m \in Nat /\ m \in Nat \ {0} /\ m >= One
    BY <1>2, <1>5
  <2>2. x \in AtLeastOne /\ y = Times(x, m)
    <3>1. Powi(m)[(attempt - 1) + 1] = Times(x, m)
      BY <1>3, PowiEquation
    <3>. QED BY <1>3, <2>1, <3>1, PowiAtLeastOne
  <2>3. /\ ComputeBackoff(attempt, policy, draw) = Base(policy, x)
        /\ ComputeBackoff(attempt + 1, policy, next) = Base(policy, y)
    BY <1>1, <1>3, <2>1, UnjitteredBackoff, SMTT(30)
  <2>. HIDE DEF x, y
  <2>4. y \in AtLeastOne /\ (y # Inf => x # Inf /\ x <= y)
    BY <2>1, <2>2, TimesGrows
  <2>5. /\ x \in Floats /\ y \in Floats
        /\ y = Inf \/ (x \in Nat /\ y \in Nat /\ x <= y)
    BY <2>2, <2>4 DEF AtLeastOne, Floats
  <2>6. Base(policy, x) <= Base(policy, y)
    BY <1>1, <2>5, BaseGrows
  <2>. QED BY <2>3, <2>6
<1>. QED BY <1>4, <1>5

(***************************************************************************)
(* What the test leaves out and the validation lets through: with a        *)
(* multiplier of at most 1.0 the delay never grows, so that each further   *)
(* failure is retried at least as soon as the one before.                  *)
(***************************************************************************)
THEOREM SmallMultipliersShrink ==
  ASSUME NEW policy \in Unjittered, policy.backoff_multiplier \in 1..One, One <= MaxFloat,
         NEW attempt \in Nat \ {0}, NEW draw \in 0..100, NEW next \in 0..100
  PROVE  ComputeBackoff(attempt + 1, policy, next) <= ComputeBackoff(attempt, policy, draw)
<1>. DEFINE m == policy.backoff_multiplier
            x == Powi(m)[attempt - 1]
            y == Powi(m)[attempt]
<1>1. policy \in ValidPolicies
  BY DEF Unjittered
<1>2. m \in Nat /\ m \in Nat \ {0} /\ m <= One /\ One \in Nat
  BY DEF One
<1>3. /\ attempt - 1 \in Nat /\ (attempt - 1) + 1 = attempt /\ (attempt + 1) - 1 = attempt
      /\ attempt + 1 \in Nat \ {0}
  OBVIOUS
<1>4. x \in 0..One /\ y \in 0..x
  <2>1. x \in 0..One /\ Powi(m)[(attempt - 1) + 1] \in 0..x
    BY <1>2, <1>3, PowiShrinks
  <2>. QED BY <1>3, <2>1
<1>5. /\ ComputeBackoff(attempt, policy, draw) = Base(policy, x)
      /\ ComputeBackoff(attempt + 1, policy, next) = Base(policy, y)
  BY <1>2, <1>3, UnjitteredBackoff
<1>. HIDE DEF x, y
<1>6. x \in Nat /\ y \in Nat /\ y <= x /\ x \in Floats /\ y \in Floats
  BY <1>2, <1>4 DEF Floats
<1>7. Base(policy, y) <= Base(policy, x)
  BY <1>1, <1>6, BaseGrows
<1>. QED BY <1>5, <1>7

(***************************************************************************)
(* prop_backoff_first_failure_is_initial_under_no_jitter: the first        *)
(* failure waits for initial_backoff, or for the maximum if that is less.  *)
(* A Duration is within the finite f64.                         *)
(***************************************************************************)
THEOREM FirstBackoffIsInitial ==
  ASSUME NEW policy \in Unjittered, policy.initial_backoff <= MaxFloat, NEW draw \in 0..100
  PROVE  ComputeBackoff(1, policy, draw) = FMin(policy.initial_backoff, policy.max_backoff)
<1>. DEFINE m == policy.backoff_multiplier
            max == policy.max_backoff
            initial == policy.initial_backoff
<1>1. /\ m \in Int \cup {NaN, Inf} /\ max \in Nat /\ initial \in Nat
  BY DEF Unjittered, ValidPolicies, Policies
<1>2. CASE m \in {NaN, Inf} \/ m <= 0
  BY <1>2 DEF ComputeBackoff
<1>3. CASE ~(m \in {NaN, Inf} \/ m <= 0)
  <2>1. Powi(m)[1 - 1] = One
    BY PowiEquation
  <2>2. Times(initial, One) = initial
    BY <1>1, ProductOne, BackoffAssumption DEF Times, One
  <2>3. FMin(initial, max) \in 0..max
    BY <1>1, FMinBounded DEF Floats
  <2>4. ComputeBackoff(1, policy, draw) = Jittered(FMin(initial, max), policy, draw)
    BY <1>3, <2>1, <2>2 DEF ComputeBackoff
  <2>. QED BY <2>3, <2>4, UnjitteredDelay
<1>. QED BY <1>2, <1>3
=============================================================================
