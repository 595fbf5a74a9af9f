---------------------------- MODULE RecordedCall ----------------------------
(***************************************************************************)
(* A Transport call with its RequestRecorder (_telemetry.py): what the     *)
(* recorder stores at each hook the drivers call, the x-tr-client header   *)
(* it puts on each send, and the event it hands to the reporter at the     *)
(* end.  Durations, models and request ids are left out, so of the reasons *)
(* that retain an event "slow" is not modelled.  The recorder of this      *)
(* module is active: telemetry is on, the host is a TrustedRouter host and *)
(* the endpoint and method are recordable.                                 *)
(***************************************************************************)
EXTENDS Transport, RetryDelay

CONSTANT Hints      \* what retry-after-ms and retry-after can say

ASSUME HintsAssumption == Hints \subseteq [ms : RawHeaders, s : RawHeaders]

VARIABLES recs,          \* attempts: what was recorded of each try
          cur,           \* _current_index + 1; 0 before the first attempt
          failoverUsed,
          exhausted,     \* the driver's local, passed to finish()
          headers,       \* x-tr-client of every send, in order
          events,        \* what was handed to the sink
          sleep          \* the sleep decided on, and the headers it obeys

recorder == <<recs, cur, failoverUsed, exhausted, headers, events, sleep>>

allVars == <<vars, recorder>>

Outcomes == {"ok", "http_error", "transport_error", "timeout",
             "stream_broken", "aborted"}

HeaderOutcomes == {"none", "http_error", "transport_error", "timeout",
                   "stream_broken"}

AttemptRecord(host, outcome, moved) ==
    [host |-> host, outcome |-> outcome, moved |-> moved]

Silent == [ms |-> [kind |-> "absent", value |-> 0],
           s  |-> [kind |-> "absent", value |-> 0]]

Awake == [for |-> 0, says |-> Silent]

RecInit ==
    /\ Init
    /\ recs = <<>>
    /\ cur = 0
    /\ failoverUsed = FALSE
    /\ exhausted = FALSE
    /\ headers = <<>>
    /\ events = <<>>
    /\ sleep = Awake

-----------------------------------------------------------------------------

(* header_value, for an attempt that is about to be sent at index c.       *)
HeaderValue(c) ==
    [a  |-> c - 1,
     po |-> IF c > 1 /\ recs[Len(recs)].outcome \in HeaderOutcomes
            THEN recs[Len(recs)].outcome ELSE "none",
     ph |-> IF c > 1 THEN recs[Len(recs)].host ELSE 0,
     fo |-> c > 1 /\ failoverUsed]

(* Mutant: every stored attempt is a new one. *)
AppendAttempt(r) == Append(recs, r)

StoreAttempt(r) ==
    IF cur <= Len(recs) THEN [recs EXCEPT ![cur] = r] ELSE Append(recs, r)

Moves == ctl'.baseIndex # ctl.baseIndex

(* Mutant: a move is noted on the record only. *)
RecordHalfMove(rs) ==
    /\ recs' = IF Moves THEN [rs EXCEPT ![Len(rs)].moved = TRUE] ELSE rs
    /\ UNCHANGED failoverUsed

(* Store what was observed, then note the move the controller decided.     *)
RecordAndMove(rs) ==
    /\ recs' = IF Moves THEN [rs EXCEPT ![Len(rs)].moved = TRUE] ELSE rs
    /\ failoverUsed' = (failoverUsed \/ Moves)

EventOf(rs, fo, ex) ==
    [attempts |-> rs, failoverUsed |-> fo,
     final |-> IF ex /\ Len(rs) > 1 /\ rs[Len(rs)].outcome # "ok"
               THEN "exhausted" ELSE rs[Len(rs)].outcome]

(* Mutant: an interrupted call is not finished. *)
FinishUnlessAborted ==
    events' = IF pc' = "done" /\ result' # "aborted" /\ recs' # <<>>
              THEN Append(events, EventOf(recs', failoverUsed', exhausted'))
              ELSE events

(* finish(), in the drivers' finally: nothing without a recorded attempt.  *)
FinishIfDone ==
    events' = IF pc' = "done" /\ recs' # <<>>
              THEN Append(events, EventOf(recs', failoverUsed', exhausted'))
              ELSE events

-----------------------------------------------------------------------------
(* The decision to retry comes with its sleep, drawn for the attempt that  *)
(* failed; nothing but an answer has headers.                              *)
DecideSleep(says) ==
    sleep' \in IF pc' \in {"sleep", "drain"}
              THEN {[for |-> RetrySleep(jitter, RetryAfter(says)), says |-> says] :
                       jitter \in {0, BaseDelay(ctl.attempt)}}
              ELSE {Awake}

RecSendAttempt ==
    /\ SendAttempt
    /\ cur' = Len(recs) + 1
    /\ headers' = Append(headers, HeaderValue(cur'))
    /\ UNCHANGED <<recs, failoverUsed, exhausted, events, sleep>>

(* exhausted, when the loop ends on a transport error before a response.   *)
RecTransportError ==
    /\ ConnectionFails \/ TransportFails
    /\ \E outcome \in {"timeout", "transport_error"} :
          RecordAndMove(StoreAttempt(AttemptRecord(tries[Last].host, outcome, FALSE)))
    /\ exhausted' = (/\ pc' = "done"
                     /\ ctl.attempt > 0
                     /\ tries[Last].fate = "dialing" \/ Replayable)
    /\ DecideSleep(Silent)
    /\ FinishIfDone
    /\ UNCHANGED <<cur, headers>>

StatusOutcome(status) == IF status < 400 THEN "ok" ELSE "http_error"

(* Mutant: every last response after a retry counts as exhaustion. *)
ExhaustsOnAnyResponse(status, verdict) == ctl.attempt > 0

ExhaustsOnResponse(status, verdict) ==
    /\ ctl.attempt > 0
    /\ Retryable(status, verdict)
    /\ ~MustNotResend(status, verdict)

RecResponse ==
    /\ \E status \in Statuses, verdict \in Verdicts :
          /\ \/ BufferedResponse(status, verdict)
             \/ StreamOpens(status, verdict)
             \/ StreamErrorStatus(status, verdict)
          /\ RecordAndMove(StoreAttempt(
                AttemptRecord(tries[Last].host, StatusOutcome(status), FALSE)))
          /\ exhausted' = (pc' \in {"done", "raise"} /\ ExhaustsOnResponse(status, verdict))
    /\ \E says \in Hints : DecideSleep(says)
    /\ FinishIfDone
    /\ UNCHANGED <<cur, headers>>

(* A break of an open response overwrites the record of its headers; it is *)
(* never exhaustion.                                                       *)
RecOpenResponseBreaks ==
    /\ OpenResponseBreaks
    /\ \E outcome \in {"timeout", IF items > 0 THEN "stream_broken" ELSE "transport_error"} :
          RecordAndMove(StoreAttempt(AttemptRecord(tries[Last].host, outcome, FALSE)))
    /\ exhausted' = FALSE
    /\ FinishIfDone
    /\ UNCHANGED <<cur, headers, sleep>>

RecQuietStep ==
    /\ \/ DrainErrorBody
       \/ RaiseErrorStatus
       \/ YieldItem
       \/ EndOfStream
       \/ OtherErrorEscapes
       \/ Wake
    /\ sleep' = IF pc' = "sleep" THEN sleep ELSE Awake
    /\ UNCHANGED <<recs, cur, failoverUsed, exhausted, headers>>
    /\ FinishIfDone

(* on_aborted: the current attempt becomes "aborted", and keeps its move.  *)
RecAbort ==
    /\ Abort
    /\ recs' = IF cur = 0 THEN recs
               ELSE StoreAttempt(AttemptRecord(tries[Last].host, "aborted",
                        cur <= Len(recs) /\ recs[cur].moved))
    /\ sleep' = Awake
    /\ UNCHANGED <<cur, failoverUsed, exhausted, headers>>
    /\ FinishIfDone

RecDriver ==
    \/ RecSendAttempt
    \/ RecTransportError
    \/ RecResponse
    \/ RecOpenResponseBreaks
    \/ RecQuietStep

RecNext ==
    \/ RecDriver
    \/ RecAbort
    \/ Gateway /\ UNCHANGED recorder

RecSpec == RecInit /\ [][RecNext]_allVars

-----------------------------------------------------------------------------

(* A send whose failure no hook saw: an error in a buffered read that is   *)
(* not a TransportError (a body that does not decode).                     *)
Unseen ==
    result = "raised_other" /\ tries[Len(tries)].kind = "pending"

(* A call that sent anything hands over one event, when it ends and not    *)
(* before; only a call whose single send went unseen hands over none.  The *)
(* event describes the wire: an attempt per send, in order, at its host,   *)
(* marked as moved exactly when the next send went elsewhere.  Only a call *)
(* cut short between the decision and the next send says it moved without  *)
(* having sent.                                                            *)
EventMatchesWire ==
    /\ Len(events) = IF pc = "done" /\ Len(tries) > (IF Unseen THEN 1 ELSE 0)
                     THEN 1 ELSE 0
    /\ \A k \in 1..Len(events) :
        LET e == events[k]  n == Len(e.attempts) IN
        /\ n = Len(tries) - (IF Unseen THEN 1 ELSE 0)
        /\ \A i \in 1..n : e.attempts[i].host = tries[i].host
        /\ \A i \in 1..Len(tries) - 1 :
              e.attempts[i].moved <=> tries[i+1].host # tries[i].host
        /\ n = Len(tries) /\ e.attempts[n].moved => result \in {"aborted", "raised_other"}
        /\ e.failoverUsed <=> \E i \in 1..n : e.attempts[i].moved

(* "exhausted" means what it says: the call made every send of a budget    *)
(* above one and the last was an outcome the policy retries, and no        *)
(* success unless its reading was cut short.  Nothing else that ends a     *)
(* call normally is reported as such.                                      *)
ExhaustedMeansBudgetSpent ==
    \A k \in 1..Len(events) :
        LET spent == /\ Len(tries) = MaxRetries + 1
                     /\ Len(tries) > 1
                     /\ RetryableOutcome(tries[Len(tries)])
                     /\ tries[Len(tries)].kind = "response" =>
                           tries[Len(tries)].status >= 400 \/ result = "aborted"
        IN  /\ events[k].final = "exhausted" => spent
            /\ spent /\ result \in {"response", "raised_status"} =>
                  events[k].final = "exhausted"

(* The header of a send tells the gateway the truth about the send before  *)
(* it, in the vocabulary the gateway accepts.                              *)
HeaderTellsPreviousTry ==
    \A n \in 1..Len(headers) :
        /\ headers[n].a = n - 1 /\ headers[n].po \in HeaderOutcomes
        /\ n > 1 =>
            /\ headers[n].ph = tries[n-1].host
            /\ headers[n].po = "http_error" <=>
                  tries[n-1].kind = "response" /\ tries[n-1].status >= 400
            /\ headers[n].po \in {"timeout", "transport_error"} <=>
                  tries[n-1].kind \in {"before_send", "transport"}
        /\ headers[n].fo <=> \E i \in 1..n-1 : tries[i+1].host # tries[i].host

(* Whatever an answer's headers say, no sleep is longer than a minute, and *)
(* one that obeys no header is at most half a second doubled by each send  *)
(* before the last, and half a minute.  A usable header is a floor, also   *)
(* when it stands beside one that is not usable, and the precise one is    *)
(* preferred.                                                              *)
Usable(raw) == raw.kind = "number" /\ raw.value >= 0

JitterAfter(sends) == IF sends <= 6 THEN 500 * 2^(sends - 1) ELSE 30000

SleepsAreBounded ==
    pc \in {"sleep", "drain"} =>
        LET ms == sleep.says.ms  s == sleep.says.s
            floor == IF Usable(ms) THEN ms.value ELSE IF Usable(s) THEN s.value ELSE 0
        IN  /\ 0 <= sleep.for /\ sleep.for <= 60000
            /\ sleep.for >= floor \/ (floor > 60000 /\ sleep.for = 60000)
            /\ sleep.for <= JitterAfter(Len(tries)) \/ sleep.for <= floor

(* _sample_reason, durations aside: what is kept whatever the sample rate. *)
AlwaysRetained(e) ==
    e.final # "ok" \/ Len(e.attempts) > 1 \/ e.failoverUsed

(* The constructor's documentation: "failures, retries, and slow calls are *)
(* always retained".  A call that raised is a failure.                     *)
FailuresAreRetained ==
    result \in {"raised_status", "raised_transport", "raised_other"} =>
        \E k \in 1..Len(events) : AlwaysRetained(events[k])
=============================================================================
