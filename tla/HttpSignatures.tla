---------------------------- MODULE HttpSignatures ----------------------------
(***************************************************************************)
(* HTTP signatures: what signRequest puts on an outgoing request and what   *)
(* parseRequest, fetchKey and verifySignature require of an incoming one.   *)
(* Strings are abstracted to the set of header names that they cover: the   *)
(* signing string is the function from the covered names to their values.   *)
(* Dates are seconds; both sides read one clock.  A key pair is a number:   *)
(* its private half signs, its public half verifies.                        *)
(***************************************************************************)
EXTENDS Integers

CONSTANTS KeyIds, Never     \* Never: a parameter that is absent

ASSUME HttpSignaturesAssumption == Never \notin Int

ClockSkew == 300

Pseudo == {"request-line", "(request-target)", "(keyid)", "(algorithm)", "(opaque)", "(created)",
           "(expires)"}
DateHeaders == {"date", "x-date", "(created)"}

\* A request: the values of its headers, and the parameters of its signature header.
HasHeader(r, h) == h \in DOMAIN r.headers

-----------------------------------------------------------------------------
(* Keys. *)

\* The private half is encrypted with a key that is derived from the instance's KEK.
WrapCryptoKey(pair, kek) == [pair |-> pair, kek |-> kek]

GenerateUserKey(pair, kek) == [public |-> pair, private |-> WrapCryptoKey(pair, kek)]

\* With any other KEK the decryption throws.
UnwrapPrivateKey(wrapped, kek) == IF wrapped.kek = kek THEN {wrapped.pair} ELSE {}

-----------------------------------------------------------------------------
(* Sending. *)

\* signRequest fills in Date and Host; a POST covers the digest that deliver.ts has set.
WithDateAndHost(r, now) ==
    [h \in DOMAIN r.headers \cup {"date", "host"} |->
        IF HasHeader(r, h) THEN r.headers[h]
        ELSE IF h = "date" THEN now ELSE 0]

SigningComponents(r) ==
    {"(request-target)", "date", "host"} \cup (IF r.method = "POST" THEN {"digest"} ELSE {})

\* The signing string: the covered names with their values.
BuildSignedData(target, headers, covered) ==
    [h \in covered |-> IF h = "(request-target)" THEN target ELSE headers[h]]

SignatureParams(keyId, covered) ==
    [scheme |-> "Signature", keyId |-> keyId, algorithm |-> "hs2019", headers |-> covered,
     created |-> Never, expires |-> Never, opaque |-> Never]

SignRequest(r, pair, keyId, now) ==
    LET headers == WithDateAndHost(r, now)
        covered == SigningComponents(r) IN
    [method |-> r.method, target |-> r.target, body |-> r.body, headers |-> headers,
     params |-> SignatureParams(keyId, covered),
     signature |-> [pair |-> pair,
                    over |-> BuildSignedData(r.target, headers, covered)]]

-----------------------------------------------------------------------------
(* Receiving. *)

\* "hs2019" stands for rsa-sha256.
ValidAlgorithm(algorithm) ==
    algorithm \in {"hs2019"} \cup {"rsa-sha1", "rsa-sha256", "rsa-sha512", "dsa-sha1", "dsa-sha256",
        "dsa-sha512", "ecdsa-sha1", "ecdsa-sha256", "ecdsa-sha512", "hmac-sha1", "hmac-sha256",
        "hmac-sha512"}

SignedHeaders(r) ==
    IF r.params.headers # {} THEN r.params.headers
    ELSE {IF HasHeader(r, "x-date") THEN "x-date" ELSE "date"}

RequiredHeaders(r) ==
    {"host", "(request-target)"} \cup (IF r.method = "POST" THEN {"digest"} ELSE {})

Within(a, b) == a - b <= ClockSkew /\ b - a <= ClockSkew

\* X-Date counts before Date; without either only (created) and (expires) are compared.
FreshDate(r, now) ==
    /\ HasHeader(r, "x-date") => Within(now, r.headers["x-date"])
    /\ (HasHeader(r, "date") /\ ~HasHeader(r, "x-date")) => Within(now, r.headers["date"])
    /\ r.params.created # Never => Within(r.params.created, now)
    /\ r.params.expires # Never => now - r.params.expires <= ClockSkew

\* parseRequest throws unless every conjunct holds.
ParseRequest(r, now) ==
    /\ r.params.scheme = "Signature"
    /\ r.params.keyId \in KeyIds
    /\ SignedHeaders(r) \cap DateHeaders # {}
    /\ ValidAlgorithm(r.params.algorithm)
    /\ "(opaque)" \in SignedHeaders(r) => r.params.opaque # Never
    /\ \A h \in SignedHeaders(r) \ Pseudo : HasHeader(r, h)
    /\ FreshDate(r, now)
    /\ RequiredHeaders(r) \subseteq SignedHeaders(r)

SigningString(r) ==
    [h \in SignedHeaders(r) |->
        CASE h \in {"(request-target)", "request-line"} -> r.target
          [] h = "(created)" -> r.params.created
          [] h = "(expires)" -> r.params.expires
          [] h = "(opaque)"  -> r.params.opaque
          [] h \in {"(keyid)", "(algorithm)"} -> r.params
          [] OTHER -> r.headers[h]]

\* The key is fetched for every request, from the document at keyId, if one is served.
FetchKey(keyId, served) == {served[k] : k \in DOMAIN served \cap {keyId}}

VerifySignature(r, public) == r.signature = [pair |-> public, over |-> SigningString(r)]

\* The inbox also compares the digest of a POST with that of the body.
InboxAccepts(r, served, now) ==
    /\ ParseRequest(r, now)
    /\ \E public \in FetchKey(r.params.keyId, served) : VerifySignature(r, public)
    /\ r.method = "POST" => HasHeader(r, "digest") /\ r.headers["digest"] = r.body
=============================================================================
