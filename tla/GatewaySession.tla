--------------------------- MODULE GatewaySession ---------------------------
(***************************************************************************)
(* An attested TLS session (session.py): verify_gateway_session opens a    *)
(* connection, fetches one attestation over it and hands the connection    *)
(* over pinned; fetch_attestation_again repeats the fetch on the same      *)
(* connection.  A fetch sends a request with a fresh nonce and reads one   *)
(* HTTP response out of a byte stream, of which a receive returns any      *)
(* nonempty prefix, under a deadline that can pass at every operation.     *)
(*                                                                         *)
(* The stream is cut at the places the reader tells apart: an answer is    *)
(* its status line, its headers (with the blank line) and two halves of    *)
(* its body.  The nonce of the n-th fetch is n: a gateway can only say a   *)
(* nonce it has been sent.                                                 *)
(***************************************************************************)
EXTENDS Naturals, Sequences, SequencesExt

CONSTANT MaxFetches     \* bound: attestations fetched over one connection

ASSUME SessionAssumption == MaxFetches \in Nat \ {0}

(* What can be wrong with an answer: its status, its Content-Length, a     *)
(* request to close, its signature or claims, the channel it names.        *)
Flaws == {"none", "status", "framing", "close", "claims", "exporter"}

(* An answer: the nonce it carries (0: none of this connection's), what is *)
(* wrong with it, and the fetch that was the latest when it was made.      *)
Answers == [nonce : 0..MaxFetches, flaw : Flaws, born : 1..MaxFetches]

Parts == {"status", "headers", "half", "rest"}

VARIABLES link,      \* the client's end of the connection
          pinned,    \* a GatewaySession was returned
          pc,        \* where the fetch in progress is
          fetch,     \* number of the last fetch begun
          got,       \* what the fetch in progress has received
          inbox,     \* what the gateway sent and nobody has received
          asked,     \* requests the gateway has and did not answer
          results    \* how each fetch ended, and on what evidence

vars == <<link, pinned, pc, fetch, got, inbox, asked, results>>

Init ==
    /\ link = "none"
    /\ pinned = FALSE
    /\ pc = "connect"
    /\ fetch = 1
    /\ got = <<>>
    /\ inbox = <<>>
    /\ asked = <<>>
    /\ results = <<>>

-----------------------------------------------------------------------------
(* Mutant: a failed first fetch is left to the garbage collector. *)
LinkKeptAfterFailure == link

(* verify_gateway_session closes what it opened; fetch_attestation_again   *)
(* leaves the caller's connection alone.                                   *)
LinkAfterFailure == IF pinned \/ link = "none" THEN link ELSE "closed"

Raise ==
    /\ results' = Append(results, [how |-> "raised"])
    /\ link' = LinkAfterFailure
    /\ pc' = IF pinned THEN "idle" ELSE "end"
    /\ got' = <<>>
    /\ UNCHANGED <<pinned, fetch>>

Accept(answer) ==
    /\ results' = Append(results, [how |-> "accepted", answer |-> answer])
    /\ pinned' = TRUE
    /\ pc' = "idle"
    /\ got' = <<>>
    /\ UNCHANGED <<link, fetch>>

(* create_connection, then the handshake and the certificate's name.       *)
Connect ==
    /\ pc = "connect"
    /\ \/ /\ link' = "open" /\ pc' = "handshake"
          /\ UNCHANGED <<pinned, fetch, got, results>>
       \/ Raise
    /\ UNCHANGED <<inbox, asked>>

Handshake ==
    /\ pc = "handshake"
    /\ \/ /\ pc' = "send"
          /\ UNCHANGED <<link, pinned, fetch, got, results>>
       \/ Raise
    /\ UNCHANGED <<inbox, asked>>

(* The caller of a pinned session asks for another attestation. *)
FetchAgain ==
    /\ pc = "idle" /\ fetch < MaxFetches
    /\ fetch' = fetch + 1
    /\ pc' = "send"
    /\ UNCHANGED <<link, pinned, got, inbox, asked, results>>

(* A request behind one that was cut off is part of that one's garbage.    *)
Asking(request) ==
    IF asked # <<>> /\ Last(asked) = "torn"
    THEN Append(Front(asked), IF request = "whole" THEN "garbled" ELSE "torn")
    ELSE Append(asked, request)

Send ==
    /\ pc = "send" /\ link = "open"
    /\ \/ /\ asked' = Asking("whole")
          /\ pc' = "head"
          /\ UNCHANGED <<link, pinned, fetch, got, results>>
       \/ /\ asked' \in {asked, Asking("torn")}     \* the deadline, or an error
          /\ Raise
    /\ UNCHANGED inbox

-----------------------------------------------------------------------------
(* _read_http_response, over what a fetch received: up to the first blank  *)
(* line is the header, whatever is in it; the body follows.                *)
HeadEnd(s) == SelectInSeq(s, LAMBDA t : t.part = "headers")

(* Mutant: the body's length is one short. *)
HasHalfBody(s) == Len(s) >= HeadEnd(s) + 1

HasBody(s) == Len(s) >= HeadEnd(s) + 2

(* The first line of the header has " 200 " in it.  Behind the rest of an  *)
(* earlier body it still has, unless that rest brings a line end.          *)
StatusLineIs200(s, lineEnd) ==
    LET first == s[1]
        status == SelectInSeq(SubSeq(s, 1, HeadEnd(s)), LAMBDA t : t.part = "status")
    IN  /\ first.part = "status" \/ (first.part \in {"half", "rest"} /\ ~lineEnd)
        /\ status > 0 /\ s[status].answer.flaw # "status"

(* Mutant: any nonce of the session is good enough. *)
VerifiesAnyNonce(answer, n) ==
    answer.flaw \notin {"claims", "exporter"} /\ answer.nonce \in 1..n

(* verify_gateway_attestation: signature, claims and the exporter of the   *)
(* connection, and the nonce of this fetch.                                *)
Verifies(answer, n) ==
    answer.flaw \notin {"claims", "exporter"} /\ answer.nonce = n

(* The whole response is there: what remains to be checked. *)
Conclude(s, headers, body) ==
    \E lineEnd \in BOOLEAN :
        IF /\ StatusLineIs200(s, lineEnd)
           /\ headers.flaw # "close"
           /\ Verifies(body, fetch)
        THEN Accept(body)
        ELSE Raise

(* A receive: any nonempty prefix of what is there.  The header is parsed  *)
(* as soon as it is complete, and everything else is looked at when the    *)
(* body is; what was received beyond it is thrown away.                    *)
Receive ==
    /\ pc = "head"
    /\ \E n \in 1..Len(inbox) :
          LET s == got \o SubSeq(inbox, 1, n)
              headers == s[HeadEnd(s)].answer
              GoOn == got' = s /\ UNCHANGED <<link, pinned, pc, fetch, results>>
          IN  /\ inbox' = SubSeq(inbox, n + 1, Len(inbox))
              /\ \/ HeadEnd(s) = 0 /\ GoOn
                 \/ HeadEnd(s) > 0 /\ headers.flaw = "framing" /\ Raise
                 \/ HeadEnd(s) > 0 /\ headers.flaw # "framing"
                    /\ IF HasBody(s)
                       THEN Conclude(s, headers, s[HeadEnd(s) + 1].answer)
                       ELSE GoOn
    /\ UNCHANGED asked

(* Mutant: a receive waits for the gateway as long as it takes. *)
ReceiveFailsOnlyOnEOF == pc = "head" /\ link = "closed" /\ Raise /\ UNCHANGED <<inbox, asked>>

(* The deadline, a reset, or the end of the stream. *)
ReceiveFails ==
    /\ pc = "head"
    /\ Raise
    /\ UNCHANGED <<inbox, asked>>

(* KeyboardInterrupt and the like are not caught: nothing is closed.       *)
Interrupt ==
    /\ pc \in {"connect", "handshake", "send", "head"}
    /\ results' = Append(results, [how |-> "interrupted"])
    /\ pc' = IF pinned THEN "idle" ELSE "end"
    /\ got' = <<>>
    /\ asked' \in {asked} \cup (IF pc = "send" THEN {Asking("torn")} ELSE {})
    /\ UNCHANGED <<link, pinned, fetch, inbox>>

-----------------------------------------------------------------------------
(* The gateway answers whole requests in order, with any nonce it has been *)
(* told; what it makes of garbage is no attestation anybody asked for.     *)
GatewayAnswers ==
    /\ asked # <<>> /\ Head(asked) # "torn"
    /\ \E answer \in Answers :
          /\ answer.nonce <= fetch /\ answer.born = fetch
          /\ Head(asked) = "garbled" => answer.flaw = "status"
          /\ inbox' = inbox \o <<[part |-> "status", answer |-> answer],
                                 [part |-> "headers", answer |-> answer],
                                 [part |-> "half", answer |-> answer],
                                 [part |-> "rest", answer |-> answer]>>
    /\ asked' = Tail(asked)
    /\ UNCHANGED <<link, pinned, pc, fetch, got, results>>

Client == Connect \/ Handshake \/ Send \/ Receive \/ ReceiveFails

Next == Client \/ FetchAgain \/ Interrupt \/ GatewayAnswers

Spec == Init /\ [][Next]_vars

(* Every operation of a fetch has a deadline; the gateway owes nothing.    *)
FairSpec == Spec /\ WF_vars(Client)

-----------------------------------------------------------------------------
SessionTypeOK ==
    /\ link \in {"none", "open", "closed"} /\ pinned \in BOOLEAN
    /\ pc \in {"connect", "handshake", "send", "head", "idle", "end"}
    /\ fetch \in 1..MaxFetches
    /\ got \in Seq([part : Parts, answer : Answers])
    /\ inbox \in Seq([part : Parts, answer : Answers])
    /\ asked \in Seq({"whole", "torn", "garbled"})
    /\ Len(results) = IF pc \in {"idle", "end"} THEN fetch ELSE fetch - 1
    /\ pinned => link = "open" /\ results[1].how = "accepted"

(* Evidence is accepted only if the gateway made it after the fetch that   *)
(* accepts it began, for this channel: an answer that came late, stayed in *)
(* the stream and is read by a later fetch is never taken for that one's.  *)
AcceptedIsFresh ==
    \A n \in DOMAIN results :
        results[n].how = "accepted" =>
            /\ results[n].answer.born >= n
            /\ results[n].answer.flaw = "none"

(* While every fetch was accepted the stream is in step: nothing of an     *)
(* answer is left in it, so the request that is pinned to the connection   *)
(* next reads its own response.                                            *)
PinnedStreamIsInStep ==
    pc = "idle" /\ (\A n \in DOMAIN results : results[n].how = "accepted") =>
        inbox = <<>> /\ asked = <<>> /\ link = "open"

(* A connection nobody was given is closed when its call raises. *)
NothingLeaks ==
    /\ SessionTypeOK
    /\ pc = "end" /\ results[1].how = "raised" => link # "open"

(* Every fetch ends, though the gateway may never answer. *)
FetchesEnd == (pc \notin {"idle", "end"}) ~> (pc \in {"idle", "end"})
=============================================================================
