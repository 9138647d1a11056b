------------------------------ MODULE MCBoot ------------------------------
(***************************************************************************)
(* Instances of Boot for TLC: files with one or two entries, each entry    *)
(* with at most one thing wrong with it, and providers of every type.       *)
(***************************************************************************)
EXTENDS Boot, TLC

\* The durations in seconds, the multiplier and the jitter in hundredths.
Policy(initial, max, multiplier, jitter, attempts) ==
  [max_attempts |-> attempts, initial_backoff |-> initial * One, max_backoff |-> max * One,
   backoff_multiplier |-> multiplier, jitter |-> jitter]
Entry(n, policy) ==
  [name |-> n, emitter_type |-> "channel", section |-> FALSE, concurrency |-> 1,
   poll_interval |-> 1, lease |-> NoLease, retry |-> policy]

Good == Policy(3, 10, 150, 50, 6)
a == Entry("a", Good)
Flawed ==
  {[a EXCEPT !.name = "a b"], [a EXCEPT !.concurrency = 0], [a EXCEPT !.poll_interval = 0],
   [a EXCEPT !.lease = 0], [a EXCEPT !.emitter_type = "kafka"], [a EXCEPT !.emitter_type = "pulsar"],
   Entry("a", Policy(3, 10, 150, 101, 6)), Entry("a", Policy(3, 10, 150, -1, 6)),
   Entry("a", Policy(3, 10, 150, 50, 0))}
\* Policies that pass the validation and are strange.
Strange ==
  {Policy(3, 10, m, NaN, 3) : m \in {NaN, Inf, -One, 0, 50, One}}
    \cup {Policy(0, 10, 2000, 0, 4), Policy(15, 10, 200, 100, 3),
            Policy(30, 30, 200, 50, 3), Policy(50, 50, 200, 50, 3)}

File(es, legacy, interval, attempts, provider) ==
  [entries |-> es, legacy |-> legacy, interval |-> interval, max_attempts |-> attempts,
   provider |-> provider]
Provider(type, secret) == [type |-> type, secret |-> secret, tolerance |-> 1]
Legacy == [emitter_type |-> "channel", section |-> FALSE]

MCFiles ==
  {File(<<Entry("a", Policy(3, 10, 200, 50, 1))>>, {}, 1, 5, {Provider(type, "ok")}) : type \in TimedTypes \cup BodyTypes}
    \cup {File(es, {}, 1, 5, {}) :
            es \in {<<>>, <<a, a>>, <<a, Entry("b", Good)>>}
              \cup {<<e>> : e \in Flawed} \cup {<<Entry("a", p)>> : p \in Strange}}
    \cup {File(es, {Legacy}, interval, attempts, {}) :
            es \in {<<>>, <<a>>}, interval \in {0, 1}, attempts \in {0, 3}}
    \cup {File(<<a>>, {}, 0, 5, {}), File(<<a>>, {}, 1, 0, {})}
    \cup {File(<<a>>, {}, 1, 5, {Provider(type, secret)}) :
            type \in {"adyen", "svix"}, secret \in {"empty", "malformed"}}
=============================================================================
