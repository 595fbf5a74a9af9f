------------------------------ MODULE Transport ------------------------------
(***************************************************************************)
(* One logical request through the transport engine: the buffered driver   *)
(* request_with_retry and the stream driver stream_events (and their async *)
(* twins, which differ only in what can interrupt them) around a           *)
(* RetryController, against hosts that may never be reached, may work on a *)
(* request after the client gave up on it, and may lose their answer.      *)
(*                                                                         *)
(* tries is the history of the sends, in order.  A try's fate is what      *)
(* happened to it at the other end:                                        *)
(*    dialing   no byte of the HTTP request has left the client            *)
(*    lost      the connection failed while dialing                        *)
(*    queued    sent; the gateway has not decided what to do with it       *)
(*    ran       the provider ran and the gateway charges for it            *)
(*    refused   answered without running the provider                      *)
(* and its outcome (kind, status, verdict) is what the client observed.    *)
(***************************************************************************)
EXTENDS Naturals, Sequences, RetryPolicy

CONSTANTS MaxRetries,   \* the client's max_retries
          NumBases,     \* candidate hosts of an inference call
          Statuses,     \* HTTP statuses a gateway answers with
          MaxItems      \* bound: items surfaced from one stream body

ASSUME TransportAssumption ==
    /\ MaxRetries \in Nat
    /\ NumBases \in Nat \ {0}
    /\ Statuses \subseteq Nat
    /\ MaxItems \in Nat

VARIABLES call,      \* what the facade built: see Calls
          pc,        \* where the driver is
          ctl,       \* the RetryController's [attempt, baseIndex]
          tries,     \* history of the sends
          items,     \* body items yielded to the caller
          result     \* how the call ended

vars == <<call, pc, ctl, tries, items, result>>

-----------------------------------------------------------------------------
(* The calls the facade can make.  Streams are inference POSTs and always  *)
(* carry a key, the caller's or a minted one.  Buffered calls come from    *)
(* request(), which never mints: a POST without a key is possible.  A      *)
(* control-plane call has a single candidate.                              *)
Calls ==
    [mode : {"buffered"}, method : {"safe", "unsafe"}, key : {"none", "key"},
     failover : BOOLEAN, bases : {1, NumBases}]
    \cup
    [mode : {"stream"}, method : {"unsafe"}, key : {"key"},
     failover : BOOLEAN, bases : {1, NumBases}]

Budget == [maxRetries |-> MaxRetries, failover |-> call.failover,
           bases |-> call.bases]

Replayable == RequestIsReplayable(call.method, call.key)

Last == Len(tries)

(* Mutant: a retry mints a key of its own. *)
RequestKeyReminted(n) ==
    IF n = 1 \/ call.key = "none" THEN call.key ELSE "another key"

(* The key on the n-th send: minted once, at the facade, before the loop.  *)
RequestKey(n) == call.key

Fates == {"dialing", "lost", "queued", "ran", "refused"}

Try == [host : Nat, key : {"none", "key"}, fate : Fates,
        kind : {"pending", "before_send", "transport", "response"},
        status : Statuses \cup {0}, verdict : Verdicts]

NewTry == [host |-> ctl.baseIndex, key |-> RequestKey(Last + 1),
           fate |-> "dialing", kind |-> "pending",
           status |-> 0, verdict |-> "absent"]

WithFate(i, fate) == [tries EXCEPT ![i].fate = fate]

Answered == tries[Last].fate \in {"ran", "refused"}

(* What a gateway may say about a request.  Only a request that ran can    *)
(* succeed, and a request that ran without a key is never labelled as one  *)
(* to re-send: the verdict is the gateway's knowledge of exactly that.     *)
HonestReply(t, status, verdict) ==
    /\ IsSuccess(status) => t.fate = "ran"
    /\ verdict = "true" /\ t.key = "none" => t.fate # "ran"

Init ==
    /\ call \in Calls
    /\ pc = "attempt"
    /\ ctl = [attempt |-> 0, baseIndex |-> 0]
    /\ tries = <<>>
    /\ items = 0
    /\ result = "none"

Finish(r) ==
    /\ pc' = "done"
    /\ result' = r

-----------------------------------------------------------------------------
(* The loop's head: read the candidate list, build the request, send.      *)
SendAttempt ==
    /\ pc = "attempt"
    /\ tries' = Append(tries, NewTry)
    /\ pc' = "wait"
    /\ UNCHANGED <<call, ctl, items, result>>

(* Act on the controller's decision d: nxt is where the driver goes to     *)
(* retry, r how it ends when the controller gives up.                      *)
Obey(d, nxt, r) ==
    /\ ctl' = d.next
    /\ \/ d.action = "retry" /\ pc' = nxt /\ UNCHANGED result
       \/ d.action = "give_up" /\ Finish(r)

(* ConnectError, ConnectTimeout, PoolTimeout: no byte was sent.            *)
ConnectionFails ==
    /\ pc = "wait"
    /\ tries[Last].fate = "dialing"
    /\ tries' = [tries EXCEPT ![Last].fate = "lost",
                              ![Last].kind = "before_send"]
    /\ Obey(OnTransportError(ctl, Budget, FALSE), "sleep", "raised_transport")
    /\ UNCHANGED <<call, items>>

(* Any other TransportError before the response is open: the request may   *)
(* be waiting at the gateway, may have run, or its answer may be lost.     *)
TransportFails ==
    /\ pc = "wait"
    /\ tries[Last].fate \in {"queued", "ran", "refused"}
    /\ tries' = [tries EXCEPT ![Last].kind = "transport"]
    /\ \/ /\ Replayable
          /\ Obey(OnTransportError(ctl, Budget, FALSE), "sleep", "raised_transport")
       \/ /\ ~Replayable
          /\ Finish("raised_transport")
          /\ UNCHANGED ctl
    /\ UNCHANGED <<call, items>>

ObserveResponse(status, verdict) ==
    tries' = [tries EXCEPT ![Last].kind = "response",
                           ![Last].status = status,
                           ![Last].verdict = verdict]

MustNotResend(status, verdict) ==
    Retryable(status, verdict)
        /\ ~ResponseRetryIsSafe(call.method, call.key, verdict)

(* The buffered driver has the whole response.                             *)
BufferedResponse(status, verdict) ==
    /\ pc = "wait" /\ call.mode = "buffered" /\ Answered
    /\ HonestReply(tries[Last], status, verdict)
    /\ ObserveResponse(status, verdict)
    /\ \/ /\ MustNotResend(status, verdict)
          /\ Finish("response")
          /\ UNCHANGED ctl
       \/ /\ ~MustNotResend(status, verdict)
          /\ Obey(OnResponse(ctl, Budget, status, verdict), "sleep", "response")
    /\ UNCHANGED <<call, items>>

(* The stream driver has 2xx headers.  No verdict is consulted.            *)
StreamOpens(status, verdict) ==
    /\ pc = "wait" /\ call.mode = "stream" /\ Answered
    /\ IsSuccess(status)
    /\ HonestReply(tries[Last], status, verdict)
    /\ ObserveResponse(status, verdict)
    /\ pc' = "body"
    /\ UNCHANGED <<call, ctl, items, result>>

(* The stream driver has the headers of an error response: it decides, and *)
(* then reads the body, to discard it ("drain") or to raise it ("raise").  *)
StreamErrorStatus(status, verdict) ==
    /\ pc = "wait" /\ call.mode = "stream" /\ Answered
    /\ ~IsSuccess(status)
    /\ HonestReply(tries[Last], status, verdict)
    /\ ObserveResponse(status, verdict)
    /\ IF MustNotResend(status, verdict)
       THEN pc' = "raise" /\ UNCHANGED ctl
       ELSE LET d == OnResponse(ctl, Budget, status, verdict) IN
            /\ ctl' = d.next
            /\ pc' = IF d.action = "retry" THEN "drain" ELSE "raise"
    /\ UNCHANGED <<call, items, result>>

(* The retry path's read: a TransportError in it is swallowed.             *)
DrainErrorBody ==
    /\ pc = "drain"
    /\ pc' = "sleep"
    /\ UNCHANGED <<call, ctl, tries, items, result>>

RaiseErrorStatus ==
    /\ pc = "raise"
    /\ Finish("raised_status")
    /\ UNCHANGED <<call, ctl, tries, items>>

YieldItem ==
    /\ pc = "body"
    /\ items < MaxItems
    /\ items' = items + 1
    /\ UNCHANGED <<call, pc, ctl, tries, result>>

EndOfStream ==
    /\ pc = "body"
    /\ Finish("completed")
    /\ UNCHANGED <<call, ctl, tries, items>>

(* A TransportError while an open response is read.                        *)
OpenResponseBreaks ==
    /\ pc \in {"body", "raise"}
    /\ Obey(OnTransportError(ctl, Budget, TRUE), "sleep", "raised_transport")
    /\ UNCHANGED <<call, tries, items>>

(* Anything that is not a TransportError passes through: the SSE codec's   *)
(* protocol errors in a body, a content-decoding error in any read.        *)
OtherErrorEscapes ==
    /\ \/ pc \in {"body", "drain", "raise"}
       \/ pc = "wait" /\ call.mode = "buffered" /\ Answered
    /\ Finish("raised_other")
    /\ UNCHANGED <<call, ctl, tries, items>>

Wake ==
    /\ pc = "sleep"
    /\ pc' = "attempt"
    /\ UNCHANGED <<call, ctl, tries, items, result>>

(* KeyboardInterrupt, CancelledError, or the caller closing the generator. *)
Abort ==
    /\ pc # "done"
    /\ Finish("aborted")
    /\ UNCHANGED <<call, ctl, tries, items>>

-----------------------------------------------------------------------------
(* The other end.  Requests reach a gateway and are worked on there in any *)
(* order, also after the client stopped waiting for them.                  *)
Deliver ==
    /\ pc = "wait"
    /\ tries[Last].fate = "dialing"
    /\ tries' = WithFate(Last, "queued")
    /\ UNCHANGED <<call, pc, ctl, items, result>>

GatewayRuns(i) ==
    /\ tries[i].fate = "queued"
    /\ tries' = WithFate(i, "ran")
    /\ UNCHANGED <<call, pc, ctl, items, result>>

GatewayRefuses(i) ==
    /\ tries[i].fate = "queued"
    /\ tries' = WithFate(i, "refused")
    /\ UNCHANGED <<call, pc, ctl, items, result>>

-----------------------------------------------------------------------------
ResponseArrives ==
    \E status \in Statuses, verdict \in Verdicts :
        \/ BufferedResponse(status, verdict)
        \/ StreamOpens(status, verdict)
        \/ StreamErrorStatus(status, verdict)

Driver ==
    \/ SendAttempt
    \/ ConnectionFails
    \/ TransportFails
    \/ ResponseArrives
    \/ DrainErrorBody
    \/ RaiseErrorStatus
    \/ YieldItem
    \/ EndOfStream
    \/ OpenResponseBreaks
    \/ OtherErrorEscapes
    \/ Wake

Gateway ==
    \/ Deliver
    \/ \E i \in 1..Len(tries) : GatewayRuns(i) \/ GatewayRefuses(i)

Next == Driver \/ Abort \/ Gateway

Spec == Init /\ [][Next]_vars

-----------------------------------------------------------------------------
TypeOK ==
    /\ call \in Calls
    /\ pc \in {"attempt", "wait", "sleep", "drain", "raise", "body", "done"}
    /\ ctl \in [attempt : Nat, baseIndex : Nat]
    /\ tries \in Seq(Try)
    /\ items \in Nat
    /\ result \in {"none", "response", "raised_status", "raised_transport",
                   "raised_other", "completed", "aborted"}

(* The identity of the charge a try that ran causes.  The gateway settles  *)
(* once per Idempotency-Key; without one, every run is a charge.           *)
ChargeId(i) == [key |-> tries[i].key,
                try |-> IF tries[i].key = "none" THEN i ELSE 0]

Ran == {i \in 1..Len(tries) : tries[i].fate = "ran"}

(* A caller is never charged twice for one logical mutation, whatever is   *)
(* retried, moved, lost or answered late (_retry.py invariant 5; README    *)
(* "You are not charged twice").                                           *)
ChargedAtMostOnce ==
    call.method = "unsafe" =>
        \A i, j \in Ran : ChargeId(i) = ChargeId(j)

(* A mutation without a key is sent again only while no earlier send of it *)
(* can have run or can still run: at every moment at most one of its sends *)
(* is live at a gateway, and it is the last one.                           *)
KeylessResendIsDead ==
    call.method = "unsafe" /\ call.key = "none" =>
        \A i \in 1..Len(tries) :
            i < Len(tries) => tries[i].fate \in {"lost", "refused"}

(* A response that says the provider already ran is the last thing that    *)
(* happens to a call: it is re-sent nowhere (invariant 4).                 *)
SpentResponseIsFinal ==
    \A i \in 1..Len(tries) :
        i < Len(tries) /\ tries[i].kind = "response" => tries[i].verdict # "false"

(* A request changes host only to the next candidate, only when the caller *)
(* allowed it, and after an answer only for 502, 503 and 504: a gateway    *)
(* that answered 500 keeps the call (invariants 1, 2, 7 and 8).            *)
MovesAreJustified ==
    \A i \in 1..Len(tries) :
        i < Len(tries) =>
            \/ tries[i+1].host = tries[i].host
            \/ /\ tries[i+1].host = tries[i].host + 1
               /\ call.failover
               /\ tries[i].kind = "response" => tries[i].status \in {502, 503, 504}

(* The candidate list is never indexed past its end, also after the last   *)
(* decision, when no send follows that would show it.                      *)
HostInRange == ctl.baseIndex < call.bases

(* An outcome the policy retries: whatever the flag and the candidates.    *)
RetryableOutcome(t) ==
    \/ t.kind = "before_send"
    \/ t.kind = "transport" /\ Replayable
    \/ /\ t.kind = "response"
       /\ Retryable(t.status, t.verdict)
       /\ ResponseRetryIsSafe(call.method, call.key, t.verdict)
       /\ call.mode = "stream" => ~IsSuccess(t.status)

(* regional_failover and the candidate list govern where a call retries,   *)
(* never whether (invariant 7): a call that ends on an outcome the policy  *)
(* retries has made all of its 1 + max_retries sends, and none more.       *)
BudgetIsSpentExactly ==
    /\ Len(tries) <= MaxRetries + 1
    /\ result \in {"response", "raised_status", "raised_transport"}
       /\ RetryableOutcome(tries[Len(tries)])
         => Len(tries) = MaxRetries + 1

(* When nothing can be reached, failover walks the candidates in order and *)
(* no host is tried twice before the list or the budget ends: a dead       *)
(* primary domain reaches an alias.                                        *)
DeadHostsAreWalked ==
    call.failover /\ (\A i \in 1..Len(tries) : tries[i].fate = "lost") =>
        \A i \in 1..Len(tries) :
            tries[i].host = IF i <= call.bases THEN i - 1 ELSE call.bases - 1

(* What a call does after a failure, taken together.                       *)
ResendsAreJustified == SpentResponseIsFinal /\ MovesAreJustified /\ DeadHostsAreWalked

(* Once the caller was given an item of the answer, the call never sends   *)
(* again: a broken open stream ends, it does not reconnect (invariant 6).  *)
NeverReconnects == [][items > 0 => Len(tries') = Len(tries)]_vars

-----------------------------------------------------------------------------
(* What _retry.py says of a transport error, that no server saw the        *)
(* request, which is why moving host after one is always safe: no provider *)
(* ran a mutation that is then sent to another host.                       *)
MovedOnlyIfUnseen ==
    call.method = "unsafe" =>
        \A i \in 1..Len(tries) :
            /\ i < Len(tries)
            /\ tries[i+1].host # tries[i].host
            /\ tries[i].kind # "response"
            => tries[i].fate # "ran"

(* The abstract promise, and what in this module fulfils it.  A safe call  *)
(* causes no charge.                                                       *)
ChargeIds == [key : {"none", "key"}, try : 0..MaxRetries + 1]

Charged == IF call.method = "safe" THEN {} ELSE {ChargeId(i) : i \in Ran}

Promise == INSTANCE LogicalCall WITH
    MaxSends <- MaxRetries + 1,
    open     <- pc # "done",
    sends    <- Len(tries),
    surfaced <- items,
    charged  <- Charged

(* Every behaviour of the engine is one the promise allows.                *)
PromiseKept == Promise!Spec
=============================================================================
