------------------------------ MODULE Verifiers ------------------------------
(***************************************************************************)
(* The signature verifiers (hookbox-providers).  A signature is the record *)
(* of what was signed and with which key: two are equal if and only if     *)
(* their keys and contents are, which is what HMAC-SHA256 and RSA give.    *)
(*                                                                         *)
(* The headers of a request are the sequence of what a verifier finds in   *)
(* them: timestamps ("t"), signatures in the version and the encoding it   *)
(* reads ("v1"), and parts that it skips or cannot decode ("v0").          *)
(***************************************************************************)
EXTENDS Integers, Sequences

CONSTANTS
  NonUtf8,  \* bodies that are no UTF-8
  Garbled   \* a timestamp that is no number

ASSUME VerifiersAssumption == Garbled \notin Int

\* The verifiers that sign a timestamp with the body, and those of the body alone.
TimedTypes == {"stripe", "triplea-crypto", "walapay"}
BodyTypes == {"adyen", "bvnk", "triplea-fiat", "checkout", "hmac-sha256"}

Signature(key, ts, body) == [key |-> key, ts |-> ts, body |-> body]

\* Where the timestamps are, and what the signatures are.
Timestamps(items) == {i \in DOMAIN items : items[i].tag = "t"}
Signatures(items) == {items[i].sig : i \in {i \in DOMAIN items : items[i].tag = "v1"}}

\* Mutant: a timestamp ahead of the clock is let through.
WithinPast(now, ts, tolerance) == now - ts <= tolerance

\* now.abs_diff(timestamp) <= tolerance
Within(now, ts, tolerance) == now - ts <= tolerance /\ ts - now <= tolerance

\* The timestamp ts is a number, in time, and signed with the body; one of
\* several signatures is enough.
SignedInTime(v, request, now, ts) ==
  /\ ts # Garbled
  /\ Within(now, ts, v.tolerance)
  /\ Signature(v.key, ts, request.body) \in Signatures(request.items)

\* StripeVerifier::verify: of several t= parts the last one counts, and the
\* body has to be text.
VerifyStripe(v, request, now) ==
  /\ request.body \notin NonUtf8
  /\ \E i \in Timestamps(request.items) :
       /\ \A j \in Timestamps(request.items) : j <= i
       /\ SignedInTime(v, request, now, request.items[i].at)

\* TripleACryptoVerifier::verify: the same of bytes.
VerifyTripleACrypto(v, request, now) ==
  \E i \in Timestamps(request.items) :
    /\ \A j \in Timestamps(request.items) : j <= i
    /\ SignedInTime(v, request, now, request.items[i].at)

\* WalapayVerifier::verify: of several headers of one name the first counts.
\* What is signed holds the svix-id too, which the body stands for here.
VerifyWalapay(v, request, now) ==
  \E i \in Timestamps(request.items) :
    /\ \A j \in Timestamps(request.items) : i <= j
    /\ SignedInTime(v, request, now, request.items[i].at)

\* GenericHmacVerifier::verify: one header with one signature, of the body.
VerifyGenericHmac(v, request) ==
  /\ request.items # <<>>
  /\ Head(request.items).tag = "v1"
  /\ Head(request.items).sig = Signature(v.key, 0, request.body)

\* AdyenVerifier, BvnkVerifier and TripleAFiatVerifier::verify, with base64 for
\* hex, and RSA for the HMAC of the last: the header and the comparison are the
\* same.
VerifyAdyen(v, request) == VerifyGenericHmac(v, request)
VerifyBvnk(v, request) == VerifyGenericHmac(v, request)
VerifyTripleAFiat(v, request) == VerifyGenericHmac(v, request)

\* SignatureVerifier::verify; the headers may be missing or no text.
Verify(v, request, now) ==
  /\ request.readable
  /\ CASE v.type = "stripe" -> VerifyStripe(v, request, now)
       [] v.type = "triplea-crypto" -> VerifyTripleACrypto(v, request, now)
       [] v.type = "walapay" -> VerifyWalapay(v, request, now)
       [] v.type = "adyen" -> VerifyAdyen(v, request)
       [] v.type = "bvnk" -> VerifyBvnk(v, request)
       [] v.type = "triplea-fiat" -> VerifyTripleAFiat(v, request)
       [] v.type \in {"checkout", "hmac-sha256"} -> VerifyGenericHmac(v, request)
=============================================================================
