------------------------------- MODULE Config -------------------------------
(***************************************************************************)
(* hookbox.toml: normalisation and validation of the emitters              *)
(* (hookbox-server/src/config.rs), of the retry section and of the         *)
(* providers (bootstrap.rs).                                               *)
(*                                                                         *)
(* A file is a record of what these look at: legacy, the [emitter] section *)
(* as a set of at most one; entries, the [[emitters]]; the [retry]         *)
(* section; and provider, the sections of the one provider the model has.  *)
(***************************************************************************)
EXTENDS Integers, Sequences, FiniteSets

CONSTANTS
  BadNames,   \* names that do not match [a-zA-Z0-9_-]{1,64}
  NotANumber  \* a jitter of nan

NoLease == -1
EmitterTypes == {"channel", "kafka", "nats", "sqs", "redis"}

\* RetryPolicyConfig::default(), in hundredths (see Backoff).
DefaultRetry ==
  [max_attempts |-> 5, initial_backoff |-> 3000, max_backoff |-> 360000,
   backoff_multiplier |-> 200, jitter |-> 20]

\* from_legacy: the entry "default" keeps the tuning of the [retry] section.
FromLegacy(legacy, file) ==
  [name |-> "default", emitter_type |-> legacy.emitter_type, section |-> legacy.section,
   concurrency |-> 1, poll_interval |-> file.interval, lease |-> NoLease,
   retry |-> [DefaultRetry EXCEPT !.max_attempts = file.max_attempts]]

\* Mutant: the names are not compared.
ValidateEmitterEntriesDuplicate(entries) ==
  \A i \in DOMAIN entries : entries[i].name \notin BadNames /\ entries[i].concurrency > 0

\* validate_emitter_entries; jitter < 0 and jitter > 1 are both false of nan.
ValidateEmitterEntries(entries) ==
  \A i \in DOMAIN entries :
    LET e == entries[i] IN
    /\ e.name \notin BadNames
    /\ \A j \in 1..(i - 1) : entries[j].name # e.name
    /\ e.concurrency # 0
    /\ e.poll_interval # 0
    /\ e.retry.jitter # NotANumber => e.retry.jitter >= 0 /\ e.retry.jitter <= 100
    /\ e.retry.max_attempts >= 1
    /\ e.lease # 0
    /\ e.emitter_type \in EmitterTypes
    /\ e.emitter_type # "channel" => e.section

\* normalize: the entries of a file that has the one section or the other.
Normalize(file) ==
  IF file.legacy = {} THEN file.entries
  ELSE <<FromLegacy(CHOOSE legacy \in file.legacy : TRUE, file)>>
NormalizeOk(file) ==
  /\ (file.legacy = {}) # (file.entries = <<>>)
  /\ ValidateEmitterEntries(Normalize(file))

\* validate_retry_config.
ValidateRetryConfig(file) == file.interval >= 1 /\ file.max_attempts >= 1

\* build_one_verifier: an unknown type falls back to GenericHmacVerifier.
KeyFormats == {"adyen", "walapay", "triplea-fiat"}
BuildOk(provider) ==
  /\ provider.secret # "empty"
  /\ provider.type \in KeyFormats => provider.secret # "malformed"
KnownTypes ==
  {"stripe", "adyen", "bvnk", "triplea-fiat", "triplea-crypto", "walapay", "checkout", "hmac-sha256"}
BuildOneVerifier(provider) ==
  [type |-> IF provider.type \in KnownTypes THEN provider.type ELSE "hmac-sha256",
   key |-> "own", tolerance |-> provider.tolerance]
=============================================================================
