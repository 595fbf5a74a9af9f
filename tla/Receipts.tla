------------------------------ MODULE Receipts ------------------------------
(***************************************************************************)
(* Inference receipts (receipts.py).  ReceiptCapture keeps the bytes of a  *)
(* raw SSE stream, however they are cut into chunks, and the receipt it    *)
(* finds in them; verify() then holds the stream against the receipt.      *)
(* verify_receipt is also called without a capture, with bodies, evidence  *)
(* and options of the caller's choice.                                     *)
(*                                                                         *)
(* Signatures, claims and evidence are right or wrong.  A digest is the    *)
(* sequence of lines it was fed: no field of an event holds a line end.    *)
(***************************************************************************)
EXTENDS Naturals, Sequences, SequencesExt

CONSTANTS Issued,        \* what was signed: see Signed
          Payloads,      \* JSON texts of data events
          MaxEvents,     \* bound: events of one stream
          MaxPerChunk    \* bound: events one chunk completes

(* Two receipts, of two responses.  A receipt signs the lines and the      *)
(* number of its response's data events, and the request it answers.       *)
(* sse-data-v1 signs streams without event names only.                     *)
ReceiptIds == {"one", "two"}

Names == {"", "named"}

DataEvents == [what : {"data"}, name : Names, payload : Payloads]

Signed ==
    {s \in [domain : {"sse-data-v1", "sse-events-v1"}, data : Seq(DataEvents), mine : BOOLEAN] :
        s.domain = "sse-data-v1" => \A k \in DOMAIN s.data : s.data[k].name = ""}

ASSUME ReceiptsAssumption ==
    /\ Issued \subseteq [ReceiptIds -> Signed]
    /\ MaxEvents \in Nat /\ MaxPerChunk \in Nat \ {0}

(* Any event whose object has a receipt is a receipt event, whatever other *)
(* members (choices, usage) stand beside it.                               *)
ReceiptEvents == [what : {"receipt"}, id : ReceiptIds, name : Names,
                  others : {"as sent", "altered"}]

(* Events of a stream: data, a receipt, [DONE], a receipt that is no JWS   *)
(* object, data that is no JSON, and what is no well-formed event at all   *)
(* (two data fields, a comment, an id).                                    *)
Events == DataEvents \cup ReceiptEvents \cup [what : {"done"}, name : Names]
             \cup [what : {"shapeless", "junk", "misframed"}]

VARIABLES issued,     \* what the two receipts sign
          wire,       \* the complete events captured
          tail,       \* behind them stands the beginning of another
          receipt,    \* the capture's _receipt
          verdict     \* of verify() or verify_receipt(), when it was called

vars == <<issued, wire, tail, receipt, verdict>>

Init ==
    /\ issued \in Issued
    /\ wire = <<>>
    /\ tail = FALSE
    /\ receipt = "none"
    /\ verdict = [how |-> "none"]

-----------------------------------------------------------------------------

(* _refresh_receipt: over all bytes again; what is no receipt is skipped.  *)
ReceiptsIn(events) == {k \in DOMAIN events : events[k].what = "receipt"}

RefreshReceipt(events) ==
    IF ReceiptsIn(events) = {} THEN receipt ELSE events[Max(ReceiptsIn(events))].id

(* __next__: a chunk ends, begins or completes events. *)
NextChunk ==
    /\ verdict.how = "none"
    /\ \E n \in 0..MaxPerChunk : \E new \in [1..n -> Events], cut \in BOOLEAN :
          /\ Len(wire) + n <= MaxEvents
          /\ tail /\ n = 0 => cut
          /\ wire' = wire \o new
          /\ tail' = cut
    /\ receipt' = RefreshReceipt(wire')
    /\ UNCHANGED <<issued, verdict>>

-----------------------------------------------------------------------------
(* _stream_digest, as the walk over the events it is: a failed check ends  *)
(* it with ok = FALSE.  Of [DONE] and of the event with the receipt        *)
(* neither the name nor any other member is looked at.                     *)
Start == [ok |-> TRUE, done |-> FALSE, receipt |-> FALSE, lines |-> <<>>, events |-> 0]

(* Mutant: data behind the receipt is hashed like any other. *)
MisplacedAfterDone(d) == d.done

Misplaced(d) == d.done \/ d.receipt

DigestData(d, e, domain) ==
    IF Misplaced(d) \/ (domain = "sse-data-v1" /\ e.name # "")
    THEN [d EXCEPT !.ok = FALSE]
    ELSE [d EXCEPT !.events = @ + 1,
                   !.lines = @ \o (IF domain = "sse-data-v1" THEN <<e.payload>>
                                   ELSE <<e.name, e.payload>>)]

DigestEvent(d, e, domain, expected) ==
    IF ~d.ok \/ e.what \in {"shapeless", "junk", "misframed"} \/ d.done
    THEN [d EXCEPT !.ok = FALSE]
    ELSE IF e.what = "done" THEN [d EXCEPT !.done = TRUE]
    ELSE IF e.what = "receipt"
    THEN IF d.receipt \/ e.id # expected
         THEN [d EXCEPT !.ok = FALSE] ELSE [d EXCEPT !.receipt = TRUE]
    ELSE DigestData(d, e, domain)

StreamDigest(events, domain, expected) ==
    LET Add(d, e) == DigestEvent(d, e, domain, expected)
    IN  FoldLeft(Add, Start, events)

(* What the issuer hashed: each event's payload, or its name before it.    *)
SignedLines(s) ==
    IF s.domain = "sse-data-v1"
    THEN [k \in DOMAIN s.data |-> s.data[k].payload]
    ELSE [k \in 1..(2 * Len(s.data)) |->
             LET e == s.data[(k + 1) \div 2] IN IF k % 2 = 1 THEN e.name ELSE e.payload]

StreamMatches(id) ==
    LET s == issued[id]
        d == StreamDigest(wire, s.domain, id)
    IN  /\ ~tail
        /\ d.ok /\ d.receipt /\ d.done
        /\ d.lines = SignedLines(s) /\ d.events = Len(s.data)

(* ReceiptCapture.verify, at any moment, with the caller's request: the    *)
(* receipt's own claims, signature and evidence are right.                 *)
VerifyCapture ==
    /\ verdict.how = "none"
    /\ verdict' = [how |-> IF receipt # "none" /\ issued[receipt].mine /\ StreamMatches(receipt)
                           THEN "capture_verified" ELSE "capture_rejected"]
    /\ UNCHANGED <<issued, wire, tail, receipt>>

-----------------------------------------------------------------------------
(* A receipt as its holder has it, and what he gives with it. *)
Forms ==
    [form : {"compact"}, pinned : {"none", "doc"}, kind : {"none"}, embedded : {"none"}]
    \cup
    [form : {"flattened"}, pinned : {"none"}, kind : {"none", "gcp", "other"},
     embedded : {"none", "doc", "wrong"}]

Given == {"none", "right", "wrong"}

Receipt == [envelope : Forms, claims : {"right", "wrong"}, of : {"body", "stream"}]

Options == [attestation : {"none", "doc", "wrong"}, requireAttestation : BOOLEAN,
            requireBindings : BOOLEAN, request : Given, body : Given, stream : Given]

(* Mutant: what is not asked for is not missing. *)
BindingsPresentUnchecked(o) == TRUE

BindingsPresent(o) ==
    o.requireBindings => o.request # "none" /\ (o.body # "none" \/ o.stream # "none")

(* Only the document "doc" attests the key that signed. *)
Evidence(r, o) ==
    IF r.envelope.form = "compact" THEN o.attestation ELSE r.envelope.embedded

(* Mutant: the option excuses any receipt from evidence. *)
MaySkipAnyEvidence(r, o) == o.attestation = "none" /\ ~o.requireAttestation

(* Whether evidence may be missing: for a compact receipt, on request.     *)
MaySkipEvidence(r, o) ==
    r.envelope.form = "compact" /\ o.attestation = "none" /\ ~o.requireAttestation

(* _attestation_status; "raised" stands for its exceptions. *)
AttestationStatus(r, o) ==
    IF MaySkipEvidence(r, o) THEN "unverified_by_this_sdk"
    ELSE IF /\ Evidence(r, o) = "doc"
            /\ r.envelope.form = "compact" => r.envelope.pinned = "doc"
            /\ r.envelope.form = "flattened" =>
                  r.envelope.kind = "gcp" /\ o.attestation \in {"none", "doc"}
    THEN "verified"
    ELSE "raised"

ClaimsHold(r) ==
    r.claims = "right" /\ (r.envelope.form = "compact" => r.envelope.pinned # "none")

(* A stream carries its receipt, so a compact one matches no stream.       *)
ResponseMatches(r, o) ==
    /\ o.body = "none" \/ o.stream = "none"
    /\ o.body # "none" => r.of = "body" /\ o.body = "right"
    /\ o.stream # "none" =>
          r.of = "stream" /\ o.stream = "right" /\ r.envelope.form = "flattened"

VerifyReceipt ==
    /\ verdict.how = "none" /\ wire = <<>> /\ ~tail
    /\ \E r \in Receipt, o \in Options :
          verdict' = [how |-> IF /\ BindingsPresent(o)
                                 /\ ClaimsHold(r)
                                 /\ AttestationStatus(r, o) # "raised"
                                 /\ o.request # "wrong"
                                 /\ ResponseMatches(r, o)
                              THEN "verified" ELSE "rejected",
                      status |-> AttestationStatus(r, o), of |-> r, with |-> o]
    /\ UNCHANGED <<issued, wire, tail, receipt>>

Next == NextChunk \/ VerifyCapture \/ VerifyReceipt

Spec == Init /\ [][Next]_vars

-----------------------------------------------------------------------------
ReceiptsTypeOK ==
    /\ issued \in Issued
    /\ wire \in Seq(Events) /\ Len(wire) <= MaxEvents
    /\ tail \in BOOLEAN
    /\ receipt \in ReceiptIds \cup {"none"}
    /\ receipt = IF ReceiptsIn(wire) = {} THEN "none" ELSE wire[Max(ReceiptsIn(wire))].id
    /\ verdict.how \in {"none", "capture_verified", "capture_rejected",
                        "verified", "rejected"}

(* What the digest covers of a stream: its data events, their order and    *)
(* number, that the event with this receipt comes next and [DONE] last.    *)
CoveredAsSigned(id) ==
    LET data == issued[id].data
        n == Len(data)
    IN  /\ Len(wire) = n + 2
        /\ \A k \in 1..n : wire[k] = data[k]
        /\ wire[n + 1].what = "receipt" /\ wire[n + 1].id = id
        /\ wire[n + 2].what = "done"

(* A captured stream verifies exactly when its data events are what was    *)
(* signed for the caller's own request, the receipt's event follows them   *)
(* and [DONE] ends it: whatever event is added, dropped, moved, repeated,  *)
(* altered or taken from another response, and wherever the capture        *)
(* stopped or chunks were cut, it does not.  Nothing is said of the other  *)
(* members of the receipt's event (its choices) and of the names of that   *)
(* event and [DONE]: no hash covers them, and with others in their place   *)
(* the stream still verifies.                                              *)
VerifiedIsUntouched ==
    /\ ReceiptsTypeOK
    /\ verdict.how = "capture_verified" =>
          receipt # "none" /\ issued[receipt].mine /\ CoveredAsSigned(receipt) /\ ~tail
    /\ verdict.how = "capture_rejected" =>
          \A id \in ReceiptIds : issued[id].mine => ~CoveredAsSigned(id) \/ tail

(* With the default options a verified receipt is bound to the caller's    *)
(* traffic: his request and exactly one form of the response, the one that *)
(* was signed; and never is there a second form nobody looked at.          *)
VerifiedIsBound ==
    verdict.how = "verified" =>
        LET o == verdict.with IN
        /\ o.requireBindings =>
              /\ o.request = "right"
              /\ <<o.body, o.stream>> \in {<<"right", "none">>, <<"none", "right">>}
        /\ o.body # "none" => verdict.of.of = "body"
        /\ o.stream # "none" => verdict.of.of = "stream"

(* Nothing but a compact receipt whose holder has no evidence and says so  *)
(* goes unattested, and the result says it; evidence that is supplied is   *)
(* never ignored, embedded evidence never excused.                         *)
EvidenceIsNeverAssumed ==
    verdict.how = "verified" =>
        IF verdict.status = "verified"
        THEN /\ "doc" \in {verdict.with.attestation, verdict.of.envelope.embedded}
             /\ "wrong" \notin {verdict.with.attestation, verdict.of.envelope.embedded}
        ELSE /\ verdict.of.envelope.form = "compact"
             /\ verdict.with.attestation = "none"
             /\ ~verdict.with.requireAttestation
=============================================================================
