----------------------------- MODULE RetryPolicy -----------------------------
(***************************************************************************)
(* The retry and failover decisions of one logical request                 *)
(* (src/trustedrouter/_retry.py, and the replay rules of _transport.py).   *)
(* A response is a status and the gateway's x-should-retry verdict; the    *)
(* verdict is "absent" when the header is missing or unparseable.          *)
(***************************************************************************)
EXTENDS Naturals

Verdicts == {"absent", "true", "false"}

IsSuccess(status) == status \in 200..299

(* Mutant: an explicit "false" is read as "absent". *)
RetryableDespiteFalse(status, verdict) ==
    verdict = "true" \/ status = 429 \/ status >= 500

(* The verdict overrides the status in both directions. *)
Retryable(status, verdict) ==
    \/ verdict = "true"
    \/ verdict = "absent" /\ (status = 429 \/ status >= 500)

(* Mutant: every server error moves to another host. *)
FailoverableOnAny5xx(status, verdict) == verdict # "false" /\ status >= 500

(* Which retried responses may also move to another host. *)
RegionalFailoverable(status, verdict) ==
    verdict # "false" /\ status \in {502, 503, 504}

(* Whether sending the same request again is harmless: a safe method, or   *)
(* an Idempotency-Key the gateway recognises.                              *)
RequestIsReplayable(method, key) == method = "safe" \/ key # "none"

(* Mutant: the replay rule is not consulted. *)
ResponseRetryAlwaysSafe(method, key, verdict) == TRUE

ResponseRetryIsSafe(method, key, verdict) ==
    RequestIsReplayable(method, key) \/ verdict = "true"

(***************************************************************************)
(* The RetryController.  c is its state [attempt, baseIndex]; b is what it *)
(* was built with: [maxRetries, failover, bases], where bases is the       *)
(* length of the candidate list.                                           *)
(***************************************************************************)
GiveUp(c) == [action |-> "give_up", moved |-> FALSE, next |-> c]

Retry(c, moves) ==
    [action |-> "retry",
     moved  |-> moves,
     next   |-> [attempt   |-> c.attempt + 1,
                 baseIndex |-> IF moves THEN c.baseIndex + 1 ELSE c.baseIndex]]

MayMove(c, b) == b.failover /\ c.baseIndex + 1 < b.bases

(* Mutant: a failoverable status is given up when there is nowhere to move. *)
OnResponseNeedsHost(c, b, status, verdict) ==
    IF \/ c.attempt >= b.maxRetries
       \/ ~Retryable(status, verdict)
       \/ RegionalFailoverable(status, verdict) /\ ~MayMove(c, b)
    THEN GiveUp(c)
    ELSE Retry(c, MayMove(c, b) /\ RegionalFailoverable(status, verdict))

OnResponse(c, b, status, verdict) ==
    IF c.attempt >= b.maxRetries \/ ~Retryable(status, verdict)
    THEN GiveUp(c)
    ELSE Retry(c, MayMove(c, b) /\ RegionalFailoverable(status, verdict))

(* Mutant: an open response that breaks is retried. *)
OnTransportErrorReconnects(c, b, responseOpened) ==
    IF c.attempt >= b.maxRetries THEN GiveUp(c) ELSE Retry(c, MayMove(c, b))

(* Mutant: a transport error never moves host. *)
OnTransportErrorStays(c, b, responseOpened) ==
    IF responseOpened \/ c.attempt >= b.maxRetries
    THEN GiveUp(c)
    ELSE Retry(c, FALSE)

OnTransportError(c, b, responseOpened) ==
    IF responseOpened \/ c.attempt >= b.maxRetries
    THEN GiveUp(c)
    ELSE Retry(c, MayMove(c, b))
=============================================================================
