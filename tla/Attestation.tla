----------------------------- MODULE Attestation -----------------------------
(***************************************************************************)
(* What a verified attestation says (attestation.py).  A caller draws      *)
(* nonces, makes a policy, and verifies a token by the live, the document  *)
(* or the receipt-key check.  Tokens are minted by attested workloads: the *)
(* published gateway, which names the nonce it was asked with, its own     *)
(* connection and its certificate, and others, which name what they like.  *)
(* The caller is connected to the gateway ("direct"), or to somebody       *)
(* ("front") who has a connection of his own to it ("back").               *)
(*                                                                         *)
(* Hex values are what they stand for: <<"nonce", i>>, <<"exporter", c>>,  *)
(* <<"cert", who>>, <<"key">>.  Encodings and the signature are right or   *)
(* wrong; a nonce is not known before it is drawn.                         *)
(***************************************************************************)
EXTENDS Naturals, FiniteSets

CONSTANTS Images,       \* of workloads: [digest, reference, published]
          Releases,     \* trust releases a caller can be given: see Release
          MaxNonces     \* bound: nonces drawn

Release == [digest : SUBSET {i.digest : i \in Images},
            digests : SUBSET {i.digest : i \in Images},
            reference : SUBSET {i.reference : i \in Images},
            references : SUBSET {i.reference : i \in Images}]

(* A release names published images only; an absent string is {}. *)
ASSUME AttestationAssumption ==
    /\ MaxNonces \in Nat \ {0}
    /\ Releases \subseteq Release
    /\ \A release \in Releases, i \in Images :
          /\ Cardinality(release.digest) <= 1 /\ Cardinality(release.reference) <= 1
          /\ ~i.published => /\ i.digest \notin release.digest \cup release.digests
                             /\ i.reference \notin release.reference \cup release.references

VARIABLES drawn,      \* nonces drawn so far
          policy,     \* the caller's policy, or how there came to be none
          token,      \* the token at hand
          verdict     \* of the check of it

vars == <<drawn, policy, token, verdict>>

Links == {"direct", "front", "back"}

Exporter(link) == <<"exporter", link>>

Cert(link) == <<"cert", IF link = "front" THEN "other" ELSE "gateway">>

(* The SHA-256 shaped values there are, once n nonces are drawn. *)
Values(n) == {<<"nonce", i>> : i \in 1..n} \cup {Exporter(c) : c \in Links}
                 \cup {Cert(c) : c \in Links} \cup {<<"key">>}

Init ==
    /\ drawn = 0
    /\ policy = [how |-> "none"]
    /\ token = [how |-> "none"]
    /\ verdict = [how |-> "none"]

-----------------------------------------------------------------------------
PinsImageIdentity(p) ==
    p.digest \cup p.digests \cup p.reference \cup p.references # {}

Default(list, one) == IF list = {} THEN one ELSE list

(* policy_from_trust_release; a release without a pin makes no policy.     *)
PolicyFromRelease(release, cert) ==
    IF PinsImageIdentity(release)
    THEN [how |-> "release", release |-> release, cert |-> cert, debug |-> FALSE,
          digest |-> release.digest, reference |-> release.reference,
          digests |-> Default(release.digests, release.digest),
          references |-> Default(release.references, release.reference)]
    ELSE [how |-> "refused"]

(* A policy of the caller's own making can be anything. *)
OwnPolicy(pins, cert, debug) ==
    [how |-> "own", release |-> pins, cert |-> cert, debug |-> debug,
     digest |-> pins.digest, reference |-> pins.reference,
     digests |-> pins.digests, references |-> pins.references]

MakePolicy ==
    /\ policy.how = "none" /\ verdict.how = "none"
    /\ \E release \in Releases, cert \in {{}, {Cert("direct")}}, debug \in BOOLEAN :
          policy' \in {PolicyFromRelease(release, cert), OwnPolicy(release, cert, debug)}
    /\ UNCHANGED <<drawn, token, verdict>>

DrawNonce ==
    /\ verdict.how = "none" /\ drawn < MaxNonces
    /\ drawn' = drawn + 1
    /\ UNCHANGED <<policy, token, verdict>>

(* The nonces a token lists, and where: in eat_nonce or in the old nonces  *)
(* claim.  A labelled certificate has a claim of its own.                  *)
TokenForms == {"eat", "labelled", "legacy"}

Flaws == {"none", "debug", "claims"}

(* The gateway answers on one of its connections. *)
GatewayToken(image, link, asked, form, flaw) ==
    [how |-> "minted", image |-> image, link |-> link, born |-> drawn,
     form |-> form, flaw |-> flaw,
     label |-> IF form = "labelled" THEN {Cert(link)} ELSE {},
     nonces |-> asked \cup {Exporter(link)}
                    \cup (IF form = "labelled" THEN {} ELSE {Cert(link)})]

(* Another workload's token, with everything known in it. *)
ForeignToken(image, form) ==
    [how |-> "minted", image |-> image, link |-> "front", born |-> drawn,
     form |-> form, flaw |-> "none",
     label |-> IF form = "labelled" THEN {Cert("front")} ELSE {},
     nonces |-> Values(drawn)]

(* The caller asks with a nonce of his or none, who stands between with    *)
(* any value he knows.                                                     *)
Mint ==
    /\ verdict.how = "none"
    /\ \E image \in Images, link \in Links \ {"front"}, form \in TokenForms, flaw \in Flaws :
          \E asked \in {{}} \cup {{v} : v \in IF link = "back" THEN Values(drawn)
                                       ELSE {<<"nonce", i>> : i \in 1..drawn}} :
              token' = IF image.published THEN GatewayToken(image, link, asked, form, flaw)
                       ELSE ForeignToken(image, form)
    /\ UNCHANGED <<drawn, policy, verdict>>

(* From its expiry on a token's claims do not hold. *)
Expire ==
    /\ verdict.how = "none" /\ token.how = "minted"
    /\ token' = [token EXCEPT !.flaw = "claims"]
    /\ UNCHANGED <<drawn, policy, verdict>>

-----------------------------------------------------------------------------
(* _check_claims. *)

(* Mutant: what is not pinned is fine, and so is a policy without pins. *)
ImageUnlessPinned(image) ==
    /\ policy.digests = {} \/ image.digest \in policy.digests
    /\ policy.references = {} \/ image.reference \in policy.references

ImageAccepted(image) ==
    LET digests == Default(policy.digests, policy.digest)
        references == Default(policy.references, policy.reference)
    IN  /\ PinsImageIdentity(policy)
        /\ digests = {} \/ image.digest \in digests
        /\ references = {} \/ image.reference \in references

ClaimsHold ==
    /\ token.flaw # "claims"
    /\ token.flaw = "debug" => policy.debug
    /\ ImageAccepted(token.image)

(* Mutant: the exporter will do, where there is a connection. *)
NonceInDocumentsOnly(document, nonce, upper) ==
    document => nonce \subseteq token.nonces /\ token.form # "legacy"

(* Mutant: the old claim will do for a document. *)
NonceInAnyClaim(document, nonce, upper) == nonce \subseteq token.nonces

(* What is asked for is listed; a document's nonce in eat_nonce itself,    *)
(* compared without case.                                                  *)
NonceListed(document, nonce, upper) ==
    /\ nonce \subseteq token.nonces
    /\ document => token.form # "legacy"
    /\ upper /\ nonce # {} => document

ExporterBound(nonce, exporter) ==
    exporter # {} => nonce # {} /\ exporter # nonce /\ exporter \subseteq token.nonces

(* Mutant: only a labelled certificate counts. *)
CommittedByLabel(cert) == token.label

(* The certificate a token commits to: labelled, or the connection's own   *)
(* among the nonces.                                                       *)
Committed(cert) == Default(token.label, cert \cap token.nonces)

CertBound(cert) ==
    /\ Committed(cert) # {}
    /\ cert # {} => Committed(cert) = cert
    /\ policy.cert # {} => Committed(cert) = policy.cert

Binding(cert, exporter) ==
    IF exporter # {} THEN "tls-exporter" ELSE IF cert # {} THEN "tls-cert" ELSE "none"

Conclude(mode, holds, link, nonce, upper, cert, exporter) ==
    /\ verdict' = [how |-> IF ClaimsHold /\ holds THEN "verified" ELSE "refused",
                   mode |-> mode, link |-> link, nonce |-> nonce, upper |-> upper,
                   cert |-> cert, binding |-> Binding(cert, exporter)]
    /\ UNCHANGED <<drawn, policy, token>>

Checkable == verdict.how = "none" /\ token.how = "minted" /\ policy.how \in {"release", "own"}

OwnNonces == {{<<"nonce", i>>} : i \in 1..drawn}

(* verify_gateway_attestation, with what the caller has of his connection. *)
VerifyLive ==
    /\ Checkable
    /\ \E link \in {"direct", "front"}, nonce \in {{}} \cup OwnNonces, upper \in BOOLEAN :
       \E cert \in {{}, {Cert(link)}}, exporter \in {{}, {Exporter(link)}} :
          Conclude("live",
                   /\ NonceListed(FALSE, nonce, upper)
                   /\ ExporterBound(nonce, exporter)
                   /\ CertBound(cert),
                   link, nonce, upper, cert, exporter)

(* verify_gateway_attestation_document: a nonce, and no connection.        *)
VerifyDocument ==
    /\ Checkable
    /\ \E link \in {"direct", "front"}, nonce \in OwnNonces, upper \in BOOLEAN :
          Conclude("document", NonceListed(TRUE, nonce, upper), link, nonce, upper, {}, {})

(* verify_receipt_key_attestation: the nonce is a key's commitment.        *)
VerifyReceiptKey ==
    /\ Checkable
    /\ Conclude("receipt key", NonceListed(TRUE, {<<"key">>}, FALSE),
                "front", {<<"key">>}, FALSE, {}, {})

Next ==
    \/ MakePolicy \/ DrawNonce \/ Mint \/ Expire
    \/ VerifyLive \/ VerifyDocument \/ VerifyReceiptKey

Spec == Init /\ [][Next]_vars

-----------------------------------------------------------------------------
AttestationTypeOK ==
    /\ drawn \in 0..MaxNonces
    /\ policy.how \in {"none", "refused", "release", "own"}
    /\ policy.how = "release" => ~policy.debug /\ PinsImageIdentity(policy)
    /\ token.how = "minted" =>
          /\ token.image \in Images /\ token.born <= drawn
          /\ token.nonces \subseteq Values(token.born)
    /\ verdict.how \in {"none", "verified", "refused"}
    /\ verdict.how # "none" => verdict.binding \in {"none", "tls-cert", "tls-exporter"}

Verified == verdict.how = "verified"

(* No policy, however degraded the release or the caller's own pins were   *)
(* that it was made from, ever accepts a workload that was not published,  *)
(* nor one that misses a kind of pin the release has.                      *)
OnlyPublishedImages ==
    /\ AttestationTypeOK
    /\ Verified =>
        LET pins == policy.release  image == token.image IN
        /\ image.published
        /\ pins.digest \cup pins.digests # {} =>
              image.digest \in pins.digest \cup pins.digests
        /\ pins.reference \cup pins.references # {} =>
              image.reference \in pins.reference \cup pins.references

(* A result that claims a binding, for a caller who gave a fresh nonce, is *)
(* evidence of the caller's own connection: the gateway made the token at  *)
(* its other end, after the nonce was drawn; who stands between cannot     *)
(* pass on a token of his own connection, whatever he had it made with.    *)
BindingIsEndToEnd ==
    Verified /\ verdict.mode = "live" /\ verdict.binding # "none" /\ verdict.nonce # {} =>
        /\ Cert(token.link) = Cert(verdict.link)
        /\ verdict.binding = "tls-exporter" => token.link = verdict.link
        /\ \A v \in verdict.nonce : token.born >= v[2]

(* Whoever verifies without a connection is promised none, and has at      *)
(* least a token made for his challenge.                                   *)
DocumentIsOnlyFresh ==
    Verified /\ verdict.mode # "live" =>
        /\ verdict.binding = "none"
        /\ token.form # "legacy"
        /\ verdict.mode = "document" =>
              \A v \in verdict.nonce : v \in token.nonces /\ token.born >= v[2]

(* Images whose every pin the release names. *)
Named(image) ==
    /\ policy.release.digests \cup policy.release.digest # {} =>
          image.digest \in Default(policy.release.digests, policy.release.digest)
    /\ policy.release.references \cup policy.release.reference # {} =>
          image.reference \in Default(policy.release.references, policy.release.reference)

(* The gateway the release names, asked on the caller's own connection     *)
(* with the nonce he verifies, is never refused by a caller who shows his  *)
(* certificate and gives the nonce as it is echoed; as a document its      *)
(* token is refused only if it lists its nonces in the old claim.          *)
HonestIsVerified ==
    /\ verdict.how = "refused" /\ policy.how = "release"
    /\ token.flaw = "none" /\ Named(token.image)
    /\ token.link = "direct" /\ verdict.link = "direct"
    /\ verdict.nonce \subseteq token.nonces
    =>
    CASE verdict.mode = "live" -> verdict.cert = {} \/ verdict.nonce = {} \/ verdict.upper
      [] verdict.mode = "document" -> token.form = "legacy"
      [] OTHER -> TRUE
=============================================================================
