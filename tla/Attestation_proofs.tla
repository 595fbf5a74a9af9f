-------------------------- MODULE Attestation_proofs --------------------------
(***************************************************************************)
(* Proofs about Attestation, for every set of workloads, every set of      *)
(* trust releases that names published ones only, and any number of        *)
(* nonces.  A policy and a token are settled once there is a verdict, so   *)
(* what a verdict says is shown where it is given, from two facts about    *)
(* what it was given on: how a policy comes from its release or its        *)
(* maker's pins (PolicyIsMade), and what the gateway puts into a token     *)
(* and what it never puts there (TokenIsMinted).                           *)
(***************************************************************************)
EXTENDS Attestation, TLAPS

(* Who holds a policy has it from a release or from pins of his own; a     *)
(* release's policy pins what the release names, and a certificate, where  *)
(* it pins one, is the gateway's.                                          *)
PolicyIsMade ==
    policy.how \in {"release", "own"} =>
        /\ policy.release \in Releases
        /\ policy.cert \in {{}, {Cert("direct")}}
        /\ policy.digest = policy.release.digest
        /\ policy.reference = policy.release.reference
        /\ policy.how = "release" =>
              /\ PinsImageIdentity(policy.release)
              /\ policy.debug = FALSE
              /\ policy.digests = Default(policy.release.digests, policy.release.digest)
              /\ policy.references = Default(policy.release.references, policy.release.reference)
        /\ policy.how = "own" =>
              /\ policy.digests = policy.release.digests
              /\ policy.references = policy.release.references

(* The certificate a token lists among its nonces, or labels.              *)
ListedCert(t) == IF t.form = "labelled" THEN {} ELSE {Cert(t.link)}

LabelledCert(t) == IF t.form = "labelled" THEN {Cert(t.link)} ELSE {}

(* The gateway echoes at most one value, known when it is asked, and adds  *)
(* what is its own connection's; on the caller's connection the value is   *)
(* a nonce of his.                                                         *)
GatewayMinted(t) ==
    /\ t.link \in {"direct", "back"}
    /\ t.label = LabelledCert(t)
    /\ \E asked \in {{}} \cup {{v} : v \in Values(t.born)} :
          t.nonces = asked \cup {Exporter(t.link)} \cup ListedCert(t)

Token == [how : {"minted"}, image : Images, link : Links, born : 0..MaxNonces,
          form : TokenForms, flaw : Flaws,
          label : SUBSET Values(MaxNonces), nonces : SUBSET Values(MaxNonces)]

TokenIsMinted ==
    token.how = "minted" =>
        /\ token \in Token
        /\ token.born \in 0..drawn
        /\ token.nonces \subseteq Values(token.born)
        /\ token.image.published => GatewayMinted(token)
        /\ ~token.image.published => token.link = "front"

VerdictIsRight ==
    /\ OnlyPublishedImages
    /\ BindingIsEndToEnd
    /\ DocumentIsOnlyFresh
    /\ HonestIsVerified

AttestationInv ==
    /\ AttestationTypeOK
    /\ PolicyIsMade
    /\ TokenIsMinted
    /\ VerdictIsRight

-----------------------------------------------------------------------------
(* Among the values there are when n nonces are drawn, the nonces are      *)
(* those drawn.                                                            *)
LEMMA NonceIsDrawn ==
    ASSUME NEW n \in Nat, NEW i \in Nat, <<"nonce", i>> \in Values(n)
    PROVE  i <= n
  BY DEF Values, Exporter, Cert, Links

(* What stands for different things differs.                               *)
LEMMA ValuesApart ==
    ASSUME NEW i \in Nat, NEW c \in Links, NEW d \in Links
    PROVE  /\ <<"nonce", i>> # Exporter(c) /\ <<"nonce", i>> # Cert(c)
           /\ Exporter(c) # Cert(d)
           /\ Exporter(c) = Exporter(d) => c = d
  BY DEF Exporter, Cert, Links

(* A policy accepts published images only, and asks for every kind of pin  *)
(* its release has: a list that is absent is made good by the single pin,  *)
(* in the policy or in the check.                                          *)
LEMMA AcceptedIsPublished ==
    ASSUME PolicyIsMade, policy.how \in {"release", "own"}, NEW image \in Images,
           ImageAccepted(image)
    PROVE  /\ image.published
           /\ policy.release.digest \cup policy.release.digests # {} =>
                 image.digest \in policy.release.digest \cup policy.release.digests
           /\ policy.release.reference \cup policy.release.references # {} =>
                 image.reference \in policy.release.reference \cup policy.release.references
<1> DEFINE pins == policy.release
<1>1. /\ pins \in Releases
      /\ policy.digest = pins.digest /\ policy.reference = pins.reference
      /\ policy.digests \in {pins.digests, Default(pins.digests, pins.digest)}
      /\ policy.references \in {pins.references, Default(pins.references, pins.reference)}
  BY DEF PolicyIsMade
<1>2. /\ Default(policy.digests, policy.digest) = Default(pins.digests, pins.digest)
      /\ Default(policy.references, policy.reference)
            = Default(pins.references, pins.reference)
  BY <1>1 DEF Default
<1>3. /\ pins.digest \cup pins.digests # {} =>
            image.digest \in pins.digest \cup pins.digests
      /\ pins.reference \cup pins.references # {} =>
            image.reference \in pins.reference \cup pins.references
  BY <1>2 DEF ImageAccepted, Default
<1>4. pins.digest \cup pins.digests \cup pins.reference \cup pins.references # {}
  BY <1>1 DEF ImageAccepted, PinsImageIdentity, Default
<1>5. image.published
  BY <1>1, <1>3, <1>4, AttestationAssumption
<1>6. QED BY <1>3, <1>5

(* A release's policy accepts every image the release names.               *)
LEMMA NamedIsAccepted ==
    ASSUME PolicyIsMade, policy.how = "release", NEW image, Named(image)
    PROVE  ImageAccepted(image)
<1> DEFINE pins == policy.release
<1>1. /\ policy.digest = pins.digest /\ policy.reference = pins.reference
      /\ policy.digests = Default(pins.digests, pins.digest)
      /\ policy.references = Default(pins.references, pins.reference)
      /\ pins.digest \cup pins.digests \cup pins.reference \cup pins.references # {}
  BY DEF PolicyIsMade, PinsImageIdentity
<1>2. PinsImageIdentity(policy)
  BY <1>1 DEF PinsImageIdentity, Default
<1>3. /\ Default(policy.digests, policy.digest) = Default(pins.digests, pins.digest)
      /\ Default(policy.references, policy.reference)
            = Default(pins.references, pins.reference)
  BY <1>1 DEF Default
<1>4. /\ \/ Default(pins.digests, pins.digest) = {}
         \/ image.digest \in Default(pins.digests, pins.digest)
      /\ \/ Default(pins.references, pins.reference) = {}
         \/ image.reference \in Default(pins.references, pins.reference)
  BY DEF Named, Default
<1>5. QED BY <1>2, <1>3, <1>4 DEF ImageAccepted

-----------------------------------------------------------------------------
LEMMA InitAttestation == Init => AttestationInv
  BY AttestationAssumption
  DEF Init, AttestationInv, AttestationTypeOK, PolicyIsMade, TokenIsMinted, VerdictIsRight,
      OnlyPublishedImages, BindingIsEndToEnd, DocumentIsOnlyFresh, HonestIsVerified, Verified

(* Before the verdict nothing is claimed of it.                            *)
LEMMA NoVerdictYet == AttestationTypeOK' /\ verdict'.how = "none" => VerdictIsRight'
  BY DEF VerdictIsRight, OnlyPublishedImages, BindingIsEndToEnd, DocumentIsOnlyFresh,
         HonestIsVerified, Verified

LEMMA MakePolicyKeeps == AttestationInv /\ MakePolicy => AttestationInv'
<1> SUFFICES ASSUME AttestationInv, MakePolicy PROVE AttestationInv'
  OBVIOUS
<1>1. PICK release \in Releases, cert \in {{}, {Cert("direct")}}, debug \in BOOLEAN :
          policy' \in {PolicyFromRelease(release, cert), OwnPolicy(release, cert, debug)}
  BY DEF MakePolicy
<1>2. /\ verdict.how = "none" /\ UNCHANGED <<drawn, token, verdict>>
      /\ AttestationTypeOK /\ TokenIsMinted
  BY DEF MakePolicy, AttestationInv
<1>3. CASE policy' = PolicyFromRelease(release, cert) /\ ~PinsImageIdentity(release)
  <2>1. policy' = [how |-> "refused"]
    BY <1>3 DEF PolicyFromRelease
  <2>2. AttestationTypeOK' /\ PolicyIsMade' /\ TokenIsMinted'
    BY <1>2, <2>1 DEF AttestationTypeOK, PolicyIsMade, TokenIsMinted
  <2>3. VerdictIsRight'
    BY <1>2, <2>2, NoVerdictYet
  <2>4. QED BY <2>2, <2>3 DEF AttestationInv
<1>4. CASE policy' = PolicyFromRelease(release, cert) /\ PinsImageIdentity(release)
  <2>1. /\ policy'.how = "release" /\ policy'.release = release /\ policy'.cert = cert
        /\ policy'.debug = FALSE
        /\ policy'.digest = release.digest /\ policy'.reference = release.reference
        /\ policy'.digests = Default(release.digests, release.digest)
        /\ policy'.references = Default(release.references, release.reference)
    BY <1>4 DEF PolicyFromRelease
  <2>2. PinsImageIdentity(policy')
    BY <1>4, <2>1 DEF PinsImageIdentity, Default
  <2>3. AttestationTypeOK'
    BY <1>2, <2>1, <2>2 DEF AttestationTypeOK
  <2>4. PolicyIsMade'
    BY <1>1, <1>4, <2>1 DEF PolicyIsMade
  <2>5. TokenIsMinted'
    BY <1>2 DEF TokenIsMinted
  <2>6. VerdictIsRight'
    BY <1>2, <2>3, NoVerdictYet
  <2>7. QED BY <2>3, <2>4, <2>5, <2>6 DEF AttestationInv
<1>5. CASE policy' = OwnPolicy(release, cert, debug)
  <2>1. /\ policy'.how = "own" /\ policy'.release = release /\ policy'.cert = cert
        /\ policy'.digest = release.digest /\ policy'.reference = release.reference
        /\ policy'.digests = release.digests /\ policy'.references = release.references
    BY <1>5 DEF OwnPolicy
  <2>2. AttestationTypeOK' /\ TokenIsMinted'
    BY <1>2, <2>1 DEF AttestationTypeOK, TokenIsMinted
  <2>3. PolicyIsMade'
    BY <1>1, <2>1 DEF PolicyIsMade
  <2>4. VerdictIsRight'
    BY <1>2, <2>2, NoVerdictYet
  <2>5. QED BY <2>2, <2>3, <2>4 DEF AttestationInv
<1>6. QED BY <1>1, <1>3, <1>4, <1>5

LEMMA DrawNonceKeeps == AttestationInv /\ DrawNonce => AttestationInv'
<1> SUFFICES ASSUME AttestationInv, DrawNonce PROVE AttestationInv'
  OBVIOUS
<1>1. /\ verdict.how = "none" /\ drawn' = drawn + 1 /\ drawn < MaxNonces
      /\ UNCHANGED <<policy, token, verdict>>
      /\ AttestationTypeOK /\ PolicyIsMade /\ TokenIsMinted
      /\ drawn \in Nat /\ MaxNonces \in Nat
  BY AttestationAssumption DEF DrawNonce, AttestationInv, AttestationTypeOK
<1>2. PolicyIsMade'
  BY <1>1 DEF PolicyIsMade
<1>3. TokenIsMinted'
  BY <1>1 DEF TokenIsMinted
<1>4. AttestationTypeOK'
  BY <1>1, <1>3 DEF AttestationTypeOK, TokenIsMinted
<1>5. VerdictIsRight'
  BY <1>1, <1>4, NoVerdictYet
<1>6. QED BY <1>2, <1>3, <1>4, <1>5 DEF AttestationInv

LEMMA MintKeeps == AttestationInv /\ Mint => AttestationInv'
<1> SUFFICES ASSUME AttestationInv, Mint PROVE AttestationInv'
  OBVIOUS
<1>1. PICK image \in Images, link \in Links \ {"front"}, form \in TokenForms, flaw \in Flaws :
        \E asked \in {{}} \cup {{v} : v \in IF link = "back" THEN Values(drawn)
                                     ELSE {<<"nonce", i>> : i \in 1..drawn}} :
            token' = IF image.published THEN GatewayToken(image, link, asked, form, flaw)
                     ELSE ForeignToken(image, form)
  BY DEF Mint
<1>2. PICK asked \in {{}} \cup {{v} : v \in IF link = "back" THEN Values(drawn)
                                     ELSE {<<"nonce", i>> : i \in 1..drawn}} :
            token' = IF image.published THEN GatewayToken(image, link, asked, form, flaw)
                     ELSE ForeignToken(image, form)
  BY <1>1
<1>3. /\ verdict.how = "none" /\ UNCHANGED <<drawn, policy, verdict>>
      /\ AttestationTypeOK /\ PolicyIsMade
      /\ drawn \in Nat
  BY AttestationAssumption DEF Mint, AttestationInv, AttestationTypeOK
<1>4. asked \in {{}} \cup {{v} : v \in Values(drawn)}
  BY <1>2 DEF Values
<1>5. link \in {"direct", "back"} /\ form \in TokenForms
  BY <1>1 DEF Links
<1>6. Exporter(link) \in Values(drawn) /\ Cert(link) \in Values(drawn)
  BY <1>5 DEF Values, Links
<1> DEFINE all == Values(drawn)
<1>7. /\ all \subseteq Values(MaxNonces) /\ Cert("front") \in all
       /\ drawn \in 0..MaxNonces
  BY <1>3, AttestationAssumption DEF AttestationTypeOK, Values, Links
<1> HIDE DEF all
<1>8. TokenIsMinted'
  <2>1. CASE image.published
    <3>1. /\ token'.how = "minted" /\ token'.image = image /\ token'.link = link
          /\ token'.form = form /\ token'.born = drawn
          /\ token'.label = LabelledCert(token')
          /\ token'.nonces = asked \cup {Exporter(link)} \cup ListedCert(token')
      BY <1>2, <2>1 DEF GatewayToken, LabelledCert, ListedCert
    <3>2. GatewayMinted(token')
      BY <1>4, <1>5, <3>1 DEF GatewayMinted
    <3>3. token'.nonces \subseteq all /\ token'.label \subseteq all
      BY <1>4, <1>6, <3>1 DEF ListedCert, LabelledCert, all
    <3>4. token' \in Token
      BY <1>1, <1>2, <1>7, <2>1, <3>1, <3>3 DEF GatewayToken, Token
    <3>5. QED BY <1>1, <1>3, <2>1, <3>1, <3>2, <3>3, <3>4 DEF TokenIsMinted, all
  <2>2. CASE ~image.published
    <3>1. /\ token'.how = "minted" /\ token'.image = image /\ token'.link = "front"
          /\ token'.form = form /\ token'.born = drawn /\ token'.nonces = Values(drawn)
      BY <1>2, <2>2 DEF ForeignToken
    <3>2. token' \in Token
      BY <1>1, <1>2, <1>7, <2>2 DEF ForeignToken, Token, Flaws, Links, all
    <3>3. QED BY <1>1, <1>3, <2>2, <3>1, <3>2 DEF TokenIsMinted
  <2>3. QED BY <2>1, <2>2
<1>9. PolicyIsMade'
  BY <1>3 DEF PolicyIsMade
<1>10. token'.how = "minted" =>
          /\ token'.image \in Images /\ token'.born <= drawn
          /\ token'.nonces \subseteq Values(token'.born)
  BY <1>3, <1>8 DEF TokenIsMinted, Token
<1>11. AttestationTypeOK'
  BY <1>3, <1>10 DEF AttestationTypeOK
<1>12. VerdictIsRight'
  BY <1>3, <1>11, NoVerdictYet
<1>13. QED BY <1>8, <1>9, <1>11, <1>12 DEF AttestationInv

LEMMA ExpireKeeps == AttestationInv /\ Expire => AttestationInv'
<1> SUFFICES ASSUME AttestationInv, Expire PROVE AttestationInv'
  OBVIOUS
<1>1. /\ verdict.how = "none" /\ UNCHANGED <<drawn, policy, verdict>>
      /\ AttestationTypeOK /\ PolicyIsMade /\ TokenIsMinted /\ token.how = "minted"
      /\ token' = [token EXCEPT !.flaw = "claims"]
  BY DEF Expire, AttestationInv
<1>2. token \in Token
  BY <1>1 DEF TokenIsMinted
<1>3. /\ token' \in Token
      /\ token'.image = token.image /\ token'.link = token.link
      /\ token'.form = token.form /\ token'.born = token.born
      /\ token'.label = token.label /\ token'.nonces = token.nonces
  BY <1>1, <1>2 DEF Token, Flaws
<1>4. TokenIsMinted'
  BY <1>1, <1>3 DEF TokenIsMinted, GatewayMinted, LabelledCert, ListedCert
<1>5. PolicyIsMade'
  BY <1>1 DEF PolicyIsMade
<1>6. AttestationTypeOK'
  BY <1>1, <1>2, <1>3 DEF AttestationTypeOK
<1>7. QED BY <1>1, <1>4, <1>5, <1>6, NoVerdictYet DEF AttestationInv

-----------------------------------------------------------------------------
(* A verdict is given on the policy and the token at hand, which stay;     *)
(* it is "verified" only for claims that hold, of an image the policy      *)
(* accepts.                                                                *)
LEMMA ConcludeKeeps ==
    ASSUME AttestationInv, Checkable, NEW mode, NEW holds \in BOOLEAN, NEW link, NEW nonce,
           NEW upper, NEW cert, NEW exporter,
           Conclude(mode, holds, link, nonce, upper, cert, exporter)
    PROVE  /\ AttestationTypeOK' /\ PolicyIsMade' /\ TokenIsMinted'
           /\ OnlyPublishedImages'
           /\ verdict'.how = "verified" <=> ClaimsHold /\ holds
           /\ verdict'.how \in {"verified", "refused"}
           /\ verdict'.mode = mode /\ verdict'.link = link /\ verdict'.nonce = nonce
           /\ verdict'.upper = upper /\ verdict'.cert = cert
           /\ verdict'.binding = Binding(cert, exporter)
           /\ UNCHANGED <<drawn, policy, token>>
<1>1. /\ verdict' = [how |-> IF ClaimsHold /\ holds THEN "verified" ELSE "refused",
                     mode |-> mode, link |-> link, nonce |-> nonce, upper |-> upper,
                     cert |-> cert, binding |-> Binding(cert, exporter)]
      /\ UNCHANGED <<drawn, policy, token>>
  BY DEF Conclude
<1> DEFINE how == IF ClaimsHold /\ holds THEN "verified" ELSE "refused"
           binding == Binding(cert, exporter)
<1>2. /\ how \in {"verified", "refused"}
      /\ how = "verified" <=> ClaimsHold /\ holds
      /\ binding \in {"none", "tls-cert", "tls-exporter"}
  BY DEF Binding
<1>3. /\ verdict'.how = how
      /\ verdict'.mode = mode /\ verdict'.link = link /\ verdict'.nonce = nonce
      /\ verdict'.upper = upper /\ verdict'.cert = cert
      /\ verdict'.binding = binding
  BY <1>1
<1> HIDE DEF how, binding
<1>4. AttestationTypeOK /\ PolicyIsMade /\ TokenIsMinted
  BY DEF AttestationInv
<1>5. AttestationTypeOK' /\ PolicyIsMade' /\ TokenIsMinted'
  BY <1>1, <1>2, <1>3, <1>4 DEF AttestationTypeOK, PolicyIsMade, TokenIsMinted
<1>6. ClaimsHold =>
        /\ token.image.published
        /\ policy.release.digest \cup policy.release.digests # {} =>
              token.image.digest \in policy.release.digest \cup policy.release.digests
        /\ policy.release.reference \cup policy.release.references # {} =>
              token.image.reference \in policy.release.reference \cup policy.release.references
  BY <1>4, AcceptedIsPublished DEF ClaimsHold, Checkable, AttestationTypeOK
<1>7. OnlyPublishedImages'
  BY <1>1, <1>2, <1>3, <1>5, <1>6 DEF OnlyPublishedImages, Verified
<1>8. QED BY <1>1, <1>2, <1>3, <1>5, <1>7 DEF how, binding

(* What a token can list of a caller's nonces was asked for; the gateway   *)
(* lists no other connection's exporter beside it, and no other            *)
(* certificate.                                                            *)
LEMMA EchoIsOwn ==
    ASSUME GatewayMinted(token), token.form \in TokenForms, NEW i \in Nat,
           <<"nonce", i>> \in token.nonces, NEW c \in Links
    PROVE  /\ Exporter(c) \in token.nonces => c = token.link
           /\ Cert(c) \in token.nonces \cup token.label => Cert(c) = Cert(token.link)
<1>1. PICK asked \in {{}} \cup {{v} : v \in Values(token.born)} :
          token.nonces = asked \cup {Exporter(token.link)} \cup ListedCert(token)
  BY DEF GatewayMinted
<1>2. token.link \in Links /\ token.label = LabelledCert(token)
  BY DEF GatewayMinted, Links
<1>3. /\ <<"nonce", i>> # Exporter(token.link) /\ <<"nonce", i>> # Cert(token.link)
      /\ <<"nonce", i>> # Exporter(c) /\ <<"nonce", i>> # Cert(c)
      /\ Exporter(c) # Cert(token.link) /\ Cert(c) # Exporter(token.link)
      /\ Exporter(c) = Exporter(token.link) => c = token.link
  BY <1>2, ValuesApart
<1>4. asked = {<<"nonce", i>>}
  BY <1>1, <1>3 DEF ListedCert
<1>5. QED BY <1>1, <1>2, <1>3, <1>4 DEF ListedCert, LabelledCert

LEMMA VerifyLiveKeeps == AttestationInv /\ VerifyLive => AttestationInv'
<1> SUFFICES ASSUME AttestationInv, VerifyLive PROVE AttestationInv'
  OBVIOUS
<1>1. PICK link \in {"direct", "front"}, nonce \in {{}} \cup OwnNonces, upper \in BOOLEAN :
        \E cert \in {{}, {Cert(link)}}, exporter \in {{}, {Exporter(link)}} :
          Conclude("live",
                   /\ NonceListed(FALSE, nonce, upper)
                   /\ ExporterBound(nonce, exporter)
                   /\ CertBound(cert),
                   link, nonce, upper, cert, exporter)
  BY DEF VerifyLive
<1>2. PICK cert \in {{}, {Cert(link)}}, exporter \in {{}, {Exporter(link)}} :
          Conclude("live",
                   /\ NonceListed(FALSE, nonce, upper)
                   /\ ExporterBound(nonce, exporter)
                   /\ CertBound(cert),
                   link, nonce, upper, cert, exporter)
  BY <1>1
<1> DEFINE holds == NonceListed(FALSE, nonce, upper) /\ ExporterBound(nonce, exporter)
                       /\ CertBound(cert)
<1>3. /\ AttestationTypeOK' /\ PolicyIsMade' /\ TokenIsMinted' /\ OnlyPublishedImages'
      /\ verdict'.how = "verified" <=> ClaimsHold /\ holds
      /\ verdict'.how \in {"verified", "refused"}
      /\ verdict'.mode = "live" /\ verdict'.link = link /\ verdict'.nonce = nonce
      /\ verdict'.upper = upper /\ verdict'.cert = cert
      /\ verdict'.binding = Binding(cert, exporter)
      /\ UNCHANGED <<drawn, policy, token>>
  <2>1. holds \in BOOLEAN
    BY DEF NonceListed, ExporterBound, CertBound
  <2>2. Checkable
    BY DEF VerifyLive
  <2>3. Conclude("live", holds, link, nonce, upper, cert, exporter)
    BY <1>2
  <2> HIDE DEF holds
  <2>4. QED BY <2>1, <2>2, <2>3, ConcludeKeeps
<1>4. /\ PolicyIsMade /\ policy.how \in {"release", "own"}
      /\ TokenIsMinted /\ token \in Token
      /\ token.born \in Nat /\ drawn \in Nat /\ token.nonces \subseteq Values(token.born)
      /\ token.image.published => GatewayMinted(token)
      /\ ~token.image.published => token.link = "front"
  BY AttestationAssumption
  DEF AttestationInv, AttestationTypeOK, TokenIsMinted, VerifyLive, Checkable
<1>5. link \in Links
  BY DEF Links
<1>6. ASSUME verdict'.how = "verified", Binding(cert, exporter) # "none", nonce # {}
      PROVE  /\ Cert(token.link) = Cert(link)
             /\ Binding(cert, exporter) = "tls-exporter" => token.link = link
             /\ \A v \in nonce : token.born >= v[2]
  <2>1. PICK i \in 1..drawn : nonce = {<<"nonce", i>>}
    BY <1>6 DEF OwnNonces
  <2>2. i \in Nat /\ <<"nonce", i>> \in token.nonces
    BY <1>3, <1>4, <1>6, <2>1 DEF NonceListed
  <2>3. i <= token.born
    BY <1>4, <2>2, NonceIsDrawn
  <2>4. token.image.published /\ token.form \in TokenForms
    BY <1>3, <1>4, <1>6, AcceptedIsPublished DEF ClaimsHold, Token
  <2>5. /\ Exporter(link) \in token.nonces => link = token.link
        /\ Cert(link) \in token.nonces \cup token.label => Cert(link) = Cert(token.link)
    BY <1>4, <1>5, <2>2, <2>4, EchoIsOwn
  <2>6. exporter # {} => Exporter(link) \in token.nonces
    BY <1>3, <1>6 DEF ExporterBound
  <2>7. cert # {} => Cert(link) \in token.nonces \cup token.label
    <3>1. cert # {} => Default(token.label, cert \cap token.nonces) = {Cert(link)}
      BY <1>3, <1>6 DEF CertBound, Committed
    <3>2. QED BY <3>1 DEF Default
  <2>8. \A v \in nonce : token.born >= v[2]
    BY <1>4, <2>1, <2>3
  <2>9. QED BY <1>6, <2>5, <2>6, <2>7, <2>8 DEF Binding
<1>7. BindingIsEndToEnd'
  BY <1>3, <1>6 DEF BindingIsEndToEnd, Verified
<1>8. DocumentIsOnlyFresh'
  BY <1>3 DEF DocumentIsOnlyFresh
<1>9. ASSUME verdict'.how = "refused", policy.how = "release", token.flaw = "none",
             Named(token.image), token.link = "direct", link = "direct",
             nonce \subseteq token.nonces, cert # {}, nonce # {}, ~upper
      PROVE  FALSE
  <2>1. ClaimsHold
    BY <1>4, <1>9, NamedIsAccepted DEF ClaimsHold
  <2>2. NonceListed(FALSE, nonce, upper)
    BY <1>9 DEF NonceListed
  <2>3. PICK asked \in {{}} \cup {{v} : v \in Values(token.born)} :
            token.nonces = asked \cup {Exporter("direct")} \cup ListedCert(token)
    BY <1>4, <1>9 DEF GatewayMinted
  <2>4. token.label = LabelledCert(token)
    BY <1>4, <1>9 DEF GatewayMinted
  <2>5. ExporterBound(nonce, exporter)
    <3>1. PICK i \in 1..drawn : nonce = {<<"nonce", i>>}
      BY <1>9 DEF OwnNonces
    <3>2. i \in Nat
      BY <1>4
    <3>3. <<"nonce", i>> # Exporter("direct")
      BY <3>2, ValuesApart DEF Links
    <3>4. QED BY <1>9, <2>3, <3>1, <3>3 DEF ExporterBound
  <2>6. CertBound(cert)
    <3>1. cert = {Cert("direct")}
      BY <1>9
    <3>2. Committed(cert) = cert
      BY <1>9, <2>3, <2>4, <3>1 DEF Committed, Default, ListedCert, LabelledCert
    <3>3. policy.cert # {} => policy.cert = cert
      BY <1>4, <3>1 DEF PolicyIsMade
    <3>4. QED BY <3>1, <3>2, <3>3 DEF CertBound
  <2>7. QED BY <1>3, <1>9, <2>1, <2>2, <2>5, <2>6
<1>10. HonestIsVerified'
  <2>1. Named(token.image)' <=> Named(token.image)
    BY <1>3 DEF Named
  <2>2. QED BY <1>3, <1>9, <2>1 DEF HonestIsVerified
<1>11. QED BY <1>3, <1>7, <1>8, <1>10 DEF AttestationInv, VerdictIsRight

LEMMA VerifyDocumentKeeps == AttestationInv /\ VerifyDocument => AttestationInv'
<1> SUFFICES ASSUME AttestationInv, VerifyDocument PROVE AttestationInv'
  OBVIOUS
<1>1. PICK link \in {"direct", "front"}, nonce \in OwnNonces, upper \in BOOLEAN :
        Conclude("document", NonceListed(TRUE, nonce, upper), link, nonce, upper, {}, {})
  BY DEF VerifyDocument
<1> DEFINE holds == NonceListed(TRUE, nonce, upper)
<1>2. /\ AttestationTypeOK' /\ PolicyIsMade' /\ TokenIsMinted' /\ OnlyPublishedImages'
      /\ verdict'.how = "verified" <=> ClaimsHold /\ holds
      /\ verdict'.how \in {"verified", "refused"}
      /\ verdict'.mode = "document" /\ verdict'.link = link /\ verdict'.nonce = nonce
      /\ verdict'.binding = Binding({}, {})
      /\ UNCHANGED <<drawn, policy, token>>
  <2>1. holds \in BOOLEAN /\ Checkable
    BY DEF NonceListed, VerifyDocument
  <2>2. Conclude("document", holds, link, nonce, upper, {}, {})
    BY <1>1
  <2> HIDE DEF holds
  <2>3. QED BY <2>1, <2>2, ConcludeKeeps
<1>3. /\ PolicyIsMade /\ token.born \in Nat /\ drawn \in Nat
      /\ token.nonces \subseteq Values(token.born)
  BY AttestationAssumption
  DEF AttestationInv, AttestationTypeOK, TokenIsMinted, VerifyDocument, Checkable
<1>4. BindingIsEndToEnd'
  BY <1>2 DEF BindingIsEndToEnd
<1>5. DocumentIsOnlyFresh'
  <2>1. ASSUME verdict'.how = "verified"
        PROVE  /\ token.form # "legacy"
               /\ \A v \in nonce : v \in token.nonces /\ token.born >= v[2]
    <3>1. PICK i \in 1..drawn : nonce = {<<"nonce", i>>}
      BY <1>1 DEF OwnNonces
    <3>2. token.form # "legacy" /\ <<"nonce", i>> \in token.nonces
      BY <1>2, <2>1, <3>1 DEF NonceListed
    <3>3. i \in Nat /\ i <= token.born
      BY <1>3, <3>2, NonceIsDrawn
    <3>4. QED BY <1>3, <3>1, <3>2, <3>3
  <2>2. QED BY <1>2, <2>1 DEF DocumentIsOnlyFresh, Verified, Binding
<1>6. HonestIsVerified'
  <2>1. Named(token.image)' <=> Named(token.image)
    BY <1>2 DEF Named
  <2>2. ASSUME verdict'.how = "refused", policy.how = "release", token.flaw = "none",
               Named(token.image), nonce \subseteq token.nonces
        PROVE  token.form = "legacy"
    <3>1. ClaimsHold
      BY <1>3, <2>2, NamedIsAccepted DEF ClaimsHold
    <3>2. QED BY <1>2, <2>2, <3>1 DEF NonceListed
  <2>3. QED BY <1>2, <2>1, <2>2 DEF HonestIsVerified
<1>7. QED BY <1>2, <1>4, <1>5, <1>6 DEF AttestationInv, VerdictIsRight

LEMMA VerifyReceiptKeyKeeps == AttestationInv /\ VerifyReceiptKey => AttestationInv'
<1> SUFFICES ASSUME AttestationInv, VerifyReceiptKey PROVE AttestationInv'
  OBVIOUS
<1> DEFINE key == {<<"key">>}
           mode == "receipt key"
           upper == FALSE
           holds == NonceListed(TRUE, key, upper)
<1>1. Conclude(mode, holds, "front", key, upper, {}, {}) /\ Checkable
  BY DEF VerifyReceiptKey
<1>2. holds \in BOOLEAN
  BY DEF NonceListed
<1>3. mode # "live" /\ mode # "document"
  OBVIOUS
<1> HIDE DEF key, mode, upper, holds
<1>4. /\ AttestationTypeOK' /\ PolicyIsMade' /\ TokenIsMinted' /\ OnlyPublishedImages'
      /\ verdict'.how = "verified" <=> ClaimsHold /\ holds
      /\ verdict'.mode = mode /\ verdict'.link = "front"
      /\ verdict'.binding = Binding({}, {})
      /\ UNCHANGED <<drawn, policy, token>>
  BY <1>1, <1>2, ConcludeKeeps
<1>5. BindingIsEndToEnd' /\ HonestIsVerified'
  BY <1>3, <1>4 DEF BindingIsEndToEnd, HonestIsVerified
<1>6. DocumentIsOnlyFresh'
  BY <1>3, <1>4 DEF DocumentIsOnlyFresh, Verified, Binding, NonceListed, holds
<1>7. QED BY <1>4, <1>5, <1>6 DEF AttestationInv, VerdictIsRight

LEMMA StepAttestation == AttestationInv /\ [Next]_vars => AttestationInv'
<1> SUFFICES ASSUME AttestationInv, [Next]_vars PROVE AttestationInv'
  OBVIOUS
<1>1. CASE UNCHANGED vars
  BY <1>1
  DEF vars, AttestationInv, AttestationTypeOK, PolicyIsMade, TokenIsMinted, VerdictIsRight,
      OnlyPublishedImages, BindingIsEndToEnd, DocumentIsOnlyFresh, HonestIsVerified,
      Verified, Named
<1>2. QED
  BY <1>1, MakePolicyKeeps, DrawNonceKeeps, MintKeeps, ExpireKeeps, VerifyLiveKeeps,
     VerifyDocumentKeeps, VerifyReceiptKeyKeeps
  DEF Next

LEMMA AttestationInvariance == Spec => []AttestationInv
  BY InitAttestation, StepAttestation, PTL DEF Spec

-----------------------------------------------------------------------------
(* For whatever releases name published images only, no policy made from   *)
(* one, or from pins however few, accepts another workload's token or one  *)
(* that misses a kind of pin (_check_claims and policy_from_trust_release).*)
THEOREM ImagesArePublished == Spec => []OnlyPublishedImages
<1>1. AttestationInv => OnlyPublishedImages
  BY DEF AttestationInv, VerdictIsRight
<1>2. QED BY <1>1, AttestationInvariance, PTL

(* Whatever who stands between can have the gateway attest to, a binding   *)
(* for a fresh nonce is the caller's own connection's                      *)
(* (verify_gateway_attestation).                                           *)
THEOREM BoundToTheConnection == Spec => []BindingIsEndToEnd
<1>1. AttestationInv => BindingIsEndToEnd
  BY DEF AttestationInv, VerdictIsRight
<1>2. QED BY <1>1, AttestationInvariance, PTL

(* The check of a document claims no connection, and is of a token made    *)
(* for the challenge (verify_gateway_attestation_document and              *)
(* verify_receipt_key_attestation).                                        *)
THEOREM DocumentsAreFresh == Spec => []DocumentIsOnlyFresh
<1>1. AttestationInv => DocumentIsOnlyFresh
  BY DEF AttestationInv, VerdictIsRight
<1>2. QED BY <1>1, AttestationInvariance, PTL

(* The gateway a release names, asked on the caller's own connection, is   *)
(* refused for the caller's omissions only.                                *)
THEOREM HonestGatewayPasses == Spec => []HonestIsVerified
<1>1. AttestationInv => HonestIsVerified
  BY DEF AttestationInv, VerdictIsRight
<1>2. QED BY <1>1, AttestationInvariance, PTL
=============================================================================
