-------------------------- MODULE RecordedCall_proofs --------------------------
(***************************************************************************)
(* Theorems about a call and what is recorded of it, for every             *)
(* max_retries, list of candidates and set of statuses.                    *)
(*                                                                         *)
(* The first part is about Transport.  Its inductive invariant IInv says,  *)
(* beyond the types: the attempt counter counts the sends (CountInv),      *)
(* every send carries the key of the call (KeyInv), and a keyless mutation *)
(* that may be sent again has no live send anywhere (DeadInv).  EngineInv  *)
(* adds what led from each send to the next.                               *)
(*                                                                         *)
(* The second part is about the recorder.  A recorded call is a Transport  *)
(* call, so what the first part shows holds of it too                      *)
(* (RecordingChangesNothing).  RecorderInv ties the recorder's state to    *)
(* the history of the sends: which records there are, and at which hosts   *)
(* (RecordsInv), what they observed (OutcomeInv), which of them moved      *)
(* (MovedInv), what the headers said (HeadersInv), what exhausted stands   *)
(* for (ExhaustedInv), and which sleep was decided on (SleepInv).          *)
(***************************************************************************)
EXTENDS RecordedCall, TLAPS

CountInv ==
    /\ ctl.attempt <= MaxRetries
    /\ ctl.baseIndex < call.bases
    /\ pc \in {"attempt", "sleep", "drain"} => Len(tries) = ctl.attempt
    /\ pc \in {"wait", "raise", "body"} => Len(tries) = ctl.attempt + 1
    /\ Len(tries) <= MaxRetries + 1
    /\ items > 0 => pc \in {"body", "done"}

KeyInv == \A i \in 1..Len(tries) : tries[i].key = call.key

Dead(i) == tries[i].fate \in {"lost", "refused"}

DeadInv ==
    call.method = "unsafe" /\ call.key = "none" =>
        \A i \in 1..Len(tries) :
            i < Len(tries) \/ pc \in {"attempt", "sleep", "drain"} => Dead(i)

IInv == TypeOK /\ CountInv /\ KeyInv /\ DeadInv

-----------------------------------------------------------------------------
(* What a decision of the controller can be: it gives up and changes       *)
(* nothing, or counts one attempt and moves at most one host, in range.    *)
Decides(d, c, b) ==
    \/ d.action = "give_up" /\ d.next = c
    \/ /\ d.action = "retry"
       /\ c.attempt < b.maxRetries
       /\ d.next \in [attempt : Nat, baseIndex : Nat]
       /\ d.next.attempt = c.attempt + 1
       /\ \/ d.next.baseIndex = c.baseIndex
          \/ d.next.baseIndex = c.baseIndex + 1 /\ c.baseIndex + 1 < b.bases

Controllers == [attempt : Nat, baseIndex : Nat]

Budgets == [maxRetries : Nat, failover : BOOLEAN, bases : Nat]

LEMMA RetryDecides ==
    ASSUME NEW c \in Controllers, NEW b \in Budgets, NEW m \in BOOLEAN,
           c.attempt < b.maxRetries, m => c.baseIndex + 1 < b.bases
    PROVE  Decides(Retry(c, m), c, b)
  BY DEF Decides, Retry, Controllers, Budgets

LEMMA OnResponseDecides ==
    ASSUME NEW c \in Controllers, NEW b \in Budgets,
           NEW s \in Nat, NEW v \in Verdicts
    PROVE  /\ Decides(OnResponse(c, b, s, v), c, b)
           /\ OnResponse(c, b, s, v).action = "retry" => Retryable(s, v)
  <1> DEFINE m == MayMove(c, b) /\ RegionalFailoverable(s, v)
  <1>1. m \in BOOLEAN /\ (m => c.baseIndex + 1 < b.bases)
    BY DEF MayMove, RegionalFailoverable
  <1>2. CASE c.attempt >= b.maxRetries \/ ~Retryable(s, v)
    BY <1>2 DEF OnResponse, GiveUp, Decides
  <1>3. CASE c.attempt < b.maxRetries /\ Retryable(s, v)
    <2>1. OnResponse(c, b, s, v) = Retry(c, m)
      BY <1>3 DEF OnResponse, Controllers, Budgets
    <2>2. QED BY <1>1, <1>3, <2>1, RetryDecides
  <1>4. QED BY <1>2, <1>3 DEF Controllers, Budgets

LEMMA OnTransportErrorDecides ==
    ASSUME NEW c \in Controllers, NEW b \in Budgets, NEW o \in BOOLEAN
    PROVE  /\ Decides(OnTransportError(c, b, o), c, b)
           /\ o => OnTransportError(c, b, o).action = "give_up"
  <1>1. MayMove(c, b) \in BOOLEAN /\ (MayMove(c, b) => c.baseIndex + 1 < b.bases)
    BY DEF MayMove, Budgets
  <1>2. CASE o \/ c.attempt >= b.maxRetries
    BY <1>2 DEF OnTransportError, GiveUp, Decides
  <1>3. CASE ~o /\ c.attempt < b.maxRetries
    <2>1. OnTransportError(c, b, o) = Retry(c, MayMove(c, b))
      BY <1>3 DEF OnTransportError, Controllers, Budgets
    <2>2. QED BY <1>1, <1>3, <2>1, RetryDecides
  <1>4. QED BY <1>2, <1>3 DEF Controllers, Budgets

-----------------------------------------------------------------------------
(* Updating one element of a sequence of tries.                            *)
LEMMA UpdateTry ==
    ASSUME NEW s \in Seq(Try), NEW i \in 1..Len(s), NEW t \in Try
    PROVE  /\ [s EXCEPT ![i] = t] \in Seq(Try)
           /\ Len([s EXCEPT ![i] = t]) = Len(s)
           /\ \A j \in 1..Len(s) :
                [s EXCEPT ![i] = t][j] = IF j = i THEN t ELSE s[j]
  OBVIOUS

LEMMA AppendTry ==
    ASSUME NEW s \in Seq(Try), NEW t \in Try
    PROVE  /\ Append(s, t) \in Seq(Try)
           /\ Len(Append(s, t)) = Len(s) + 1
           /\ \A j \in 1..Len(s) : Append(s, t)[j] = s[j]
           /\ Append(s, t)[Len(s) + 1] = t
  OBVIOUS

LEMMA BudgetType ==
    ASSUME TypeOK
    PROVE  /\ Budget \in Budgets /\ ctl \in Controllers
           /\ Budget.maxRetries = MaxRetries /\ Budget.bases = call.bases
           /\ Len(tries) \in Nat /\ Replayable \in BOOLEAN
  BY TransportAssumption
     DEF TypeOK, Budget, Budgets, Controllers, Calls, Replayable, RequestIsReplayable

LEMMA InitInv == Init => IInv
  BY TransportAssumption
     DEF Init, IInv, TypeOK, CountInv, KeyInv, DeadInv, Calls

LEMMA SendAttemptInv == IInv /\ SendAttempt => IInv'
  <1> SUFFICES ASSUME IInv, SendAttempt PROVE IInv'
    OBVIOUS
  <1> USE TransportAssumption DEF IInv, TypeOK
  <1>1. NewTry \in Try /\ NewTry.key = call.key
    BY DEF NewTry, Try, Fates, Verdicts, RequestKey, Calls
  <1>2. /\ tries' \in Seq(Try)
        /\ Len(tries') = Len(tries) + 1
        /\ \A j \in 1..Len(tries) : tries'[j] = tries[j]
        /\ tries'[Len(tries) + 1] = NewTry
    BY <1>1, AppendTry DEF SendAttempt
  <1>3. TypeOK'
    BY <1>2 DEF SendAttempt
  <1>4. CountInv'
    BY <1>2 DEF SendAttempt, CountInv
  <1>5. KeyInv'
    BY <1>1, <1>2 DEF SendAttempt, KeyInv
  <1>6. DeadInv'
    BY <1>2 DEF SendAttempt, DeadInv, Dead
  <1>7. QED BY <1>3, <1>4, <1>5, <1>6

(* What an action that rewrites the last try, and nothing else of tries,   *)
(* leaves true of it; t is the rewritten try.                              *)
Rewrites(t) ==
    /\ Last \in 1..Len(tries)
    /\ t \in Try
    /\ t.key = tries[Last].key
    /\ tries' = [tries EXCEPT ![Last] = t]

LEMMA RewriteLast ==
    ASSUME NEW t, TypeOK, Rewrites(t)
    PROVE  /\ tries' \in Seq(Try)
           /\ Len(tries') = Len(tries)
           /\ \A j \in 1..Len(tries) : tries'[j] = IF j = Last THEN t ELSE tries[j]
  BY UpdateTry DEF Rewrites, TypeOK

(* A driver step that rewrites the last try, keeps the call and the items, *)
(* and either ends the call or goes on to retry, preserves the invariant,  *)
(* if a keyless mutation is retried only when its last send is dead.       *)
LEMMA RewriteInv ==
    ASSUME IInv, NEW t, Rewrites(t),
           pc = "wait", UNCHANGED <<call, items>>, TypeOK',
           \/ ctl' = ctl /\ pc' \in {"done", "body", "raise"}
           \/ /\ ctl'.attempt = ctl.attempt + 1
              /\ ctl.attempt < MaxRetries
              /\ ctl'.baseIndex < call.bases
              /\ pc' \in {"sleep", "drain"}
              /\ call.method = "unsafe" /\ call.key = "none" =>
                    t.fate \in {"lost", "refused"}
    PROVE  IInv'
  <1> USE TransportAssumption
  <1>1. /\ Len(tries') = Len(tries)
        /\ \A j \in 1..Len(tries) : tries'[j] = IF j = Last THEN t ELSE tries[j]
    BY RewriteLast DEF IInv
  <1>2. Last = Len(tries) /\ Last \in 1..Len(tries) /\ t.key = tries[Last].key
    BY DEF Rewrites, Last
  <1>3. CountInv'
    BY <1>1, <1>2 DEF IInv, TypeOK, CountInv
  <1>4. KeyInv'
    BY <1>1, <1>2 DEF IInv, TypeOK, KeyInv
  <1>5. DeadInv'
    BY <1>1, <1>2 DEF IInv, TypeOK, DeadInv, Dead
  <1>6. QED BY <1>3, <1>4, <1>5 DEF IInv

(* What Obey does with a decision of the controller.                       *)
LEMMA ObeyFacts ==
    ASSUME TypeOK, CountInv, NEW d, NEW nxt, NEW r,
           Decides(d, ctl, Budget), Obey(d, nxt, r)
    PROVE  \/ /\ d.action = "give_up" /\ ctl' = ctl
              /\ pc' = "done" /\ result' = r
           \/ /\ d.action = "retry"
              /\ ctl' \in [attempt : Nat, baseIndex : Nat]
              /\ ctl'.attempt = ctl.attempt + 1
              /\ ctl.attempt < MaxRetries
              /\ ctl'.baseIndex < call.bases
              /\ pc' = nxt /\ result' = result
  BY BudgetType DEF Obey, Finish, Decides, CountInv, Controllers

LEMMA ConnectionFailsInv == IInv /\ ConnectionFails => IInv'
  <1> SUFFICES ASSUME IInv, ConnectionFails PROVE IInv'
    OBVIOUS
  <1> DEFINE t == [tries[Last] EXCEPT !.fate = "lost", !.kind = "before_send"]
  <1>1. Last \in 1..Len(tries) /\ tries[Last] \in Try
    BY DEF IInv, TypeOK, CountInv, Last, ConnectionFails
  <1>2. Rewrites(t)
    <2>1. t \in Try /\ t.key = tries[Last].key
      BY <1>1 DEF Try, Fates
    <2>2. tries' = [tries EXCEPT ![Last] = t]
      BY <1>1 DEF ConnectionFails, IInv, TypeOK
    <2>3. QED BY <1>1, <2>1, <2>2 DEF Rewrites
  <1>3. Decides(OnTransportError(ctl, Budget, FALSE), ctl, Budget)
    BY OnTransportErrorDecides, BudgetType DEF IInv
  <1>4. \/ ctl' = ctl /\ pc' = "done" /\ result' = "raised_transport"
        \/ /\ ctl' \in [attempt : Nat, baseIndex : Nat]
           /\ ctl'.attempt = ctl.attempt + 1
           /\ ctl.attempt < MaxRetries
           /\ ctl'.baseIndex < call.bases
           /\ pc' = "sleep" /\ result' = result
    BY <1>3, ObeyFacts DEF ConnectionFails, IInv
  <1>5. TypeOK'
    BY <1>2, <1>4, RewriteLast DEF TypeOK, IInv, ConnectionFails
  <1>6. t.fate = "lost"
    BY <1>1 DEF Try
  <1>7. QED BY <1>2, <1>4, <1>5, <1>6, RewriteInv DEF ConnectionFails

LEMMA TransportFailsInv == IInv /\ TransportFails => IInv'
  <1> SUFFICES ASSUME IInv, TransportFails PROVE IInv'
    OBVIOUS
  <1> DEFINE t == [tries[Last] EXCEPT !.kind = "transport"]
  <1>1. Last \in 1..Len(tries) /\ tries[Last] \in Try
    BY DEF IInv, TypeOK, CountInv, Last, TransportFails
  <1>2. Rewrites(t)
    <2>1. t \in Try /\ t.key = tries[Last].key
      BY <1>1 DEF Try
    <2>2. tries' = [tries EXCEPT ![Last] = t]
      BY <1>1 DEF TransportFails, IInv, TypeOK
    <2>3. QED BY <1>1, <2>1, <2>2 DEF Rewrites
  <1>3. Decides(OnTransportError(ctl, Budget, FALSE), ctl, Budget)
    BY OnTransportErrorDecides, BudgetType DEF IInv
  <1>4. \/ ctl' = ctl /\ pc' = "done" /\ result' = "raised_transport"
        \/ /\ ctl' \in [attempt : Nat, baseIndex : Nat]
           /\ ctl'.attempt = ctl.attempt + 1
           /\ ctl.attempt < MaxRetries
           /\ ctl'.baseIndex < call.bases
           /\ pc' = "sleep" /\ result' = result /\ Replayable
    <2>1. CASE Replayable
      BY <1>3, <2>1, ObeyFacts DEF TransportFails, IInv
    <2>2. CASE ~Replayable
      BY <2>2 DEF TransportFails, Finish
    <2>3. QED BY <2>1, <2>2
  <1>5. TypeOK'
    BY <1>2, <1>4, RewriteLast DEF TypeOK, IInv, TransportFails
  <1>6. ~(Replayable /\ call.method = "unsafe" /\ call.key = "none")
    BY DEF Replayable, RequestIsReplayable
  <1>7. QED BY <1>2, <1>4, <1>5, <1>6, RewriteInv DEF TransportFails

(* The last try, once its response was observed.                           *)
Observed(status, verdict) ==
    [tries[Last] EXCEPT !.kind = "response", !.status = status, !.verdict = verdict]

LEMMA ObserveRewrites ==
    ASSUME IInv, pc = "wait", NEW status \in Statuses, NEW verdict \in Verdicts,
           ObserveResponse(status, verdict)
    PROVE  /\ Rewrites(Observed(status, verdict))
           /\ Observed(status, verdict).fate = tries[Last].fate
           /\ tries[Last].key = call.key
  <1>1. Last \in 1..Len(tries) /\ tries[Last] \in Try
    BY DEF IInv, TypeOK, CountInv, Last
  <1>2. /\ Observed(status, verdict) \in Try
        /\ Observed(status, verdict).key = tries[Last].key
        /\ Observed(status, verdict).fate = tries[Last].fate
    BY <1>1 DEF Try, Observed
  <1>3. tries' = [tries EXCEPT ![Last] = Observed(status, verdict)]
    BY <1>1 DEF ObserveResponse, IInv, TypeOK, Observed
  <1>4. tries[Last].key = call.key
    BY <1>1 DEF IInv, KeyInv
  <1>5. QED BY <1>1, <1>2, <1>3, <1>4 DEF Rewrites

(* A keyless mutation is sent again after a response only if the gateway   *)
(* labelled the response so, and then it did not run it.                   *)
LEMMA ResendIsHonest ==
    ASSUME TypeOK, Answered, NEW status \in Statuses, NEW verdict \in Verdicts,
           tries[Last].key = call.key,
           HonestReply(tries[Last], status, verdict),
           Retryable(status, verdict), ~MustNotResend(status, verdict),
           call.method = "unsafe", call.key = "none"
    PROVE  tries[Last].fate \in {"lost", "refused"}
  BY DEF Answered, HonestReply, MustNotResend, ResponseRetryIsSafe, RequestIsReplayable

LEMMA BufferedResponseInv ==
    ASSUME NEW status \in Statuses, NEW verdict \in Verdicts
    PROVE  IInv /\ BufferedResponse(status, verdict) => IInv'
  <1> SUFFICES ASSUME IInv, BufferedResponse(status, verdict) PROVE IInv'
    OBVIOUS
  <1> DEFINE t == Observed(status, verdict)
             d == OnResponse(ctl, Budget, status, verdict)
  <1>1. Rewrites(t) /\ t.fate = tries[Last].fate /\ tries[Last].key = call.key
    BY ObserveRewrites DEF BufferedResponse
  <1>2. Decides(d, ctl, Budget) /\ (d.action = "retry" => Retryable(status, verdict))
    BY OnResponseDecides, BudgetType, TransportAssumption DEF IInv
  <1>3. \/ ctl' = ctl /\ pc' = "done" /\ result' = "response"
        \/ /\ ctl' \in [attempt : Nat, baseIndex : Nat]
           /\ ctl'.attempt = ctl.attempt + 1
           /\ ctl.attempt < MaxRetries
           /\ ctl'.baseIndex < call.bases
           /\ pc' = "sleep" /\ result' = result
           /\ Retryable(status, verdict) /\ ~MustNotResend(status, verdict)
    <2>1. CASE MustNotResend(status, verdict)
      BY <2>1 DEF BufferedResponse, Finish
    <2>2. CASE ~MustNotResend(status, verdict)
      <3>1. Obey(d, "sleep", "response")
        BY <2>2 DEF BufferedResponse
      <3>2. QED BY <1>2, <2>2, <3>1, ObeyFacts DEF IInv
    <2>3. QED BY <2>1, <2>2
  <1>4. TypeOK'
    BY <1>1, <1>3, RewriteLast DEF TypeOK, IInv, BufferedResponse
  <1>5. pc' = "sleep" /\ call.method = "unsafe" /\ call.key = "none"
          => t.fate \in {"lost", "refused"}
    BY <1>1, <1>3, ResendIsHonest DEF BufferedResponse, IInv
  <1>6. pc = "wait" /\ UNCHANGED <<call, items>>
    BY DEF BufferedResponse
  <1>7. QED BY <1>1, <1>3, <1>4, <1>5, <1>6, RewriteInv

LEMMA StreamOpensInv ==
    ASSUME NEW status \in Statuses, NEW verdict \in Verdicts
    PROVE  IInv /\ StreamOpens(status, verdict) => IInv'
  <1> SUFFICES ASSUME IInv, StreamOpens(status, verdict) PROVE IInv'
    OBVIOUS
  <1>1. Rewrites(Observed(status, verdict))
    BY ObserveRewrites DEF StreamOpens
  <1>2. TypeOK'
    BY <1>1, RewriteLast DEF TypeOK, IInv, StreamOpens
  <1>3. QED BY <1>1, <1>2, RewriteInv DEF StreamOpens

LEMMA StreamErrorStatusInv ==
    ASSUME NEW status \in Statuses, NEW verdict \in Verdicts
    PROVE  IInv /\ StreamErrorStatus(status, verdict) => IInv'
  <1> SUFFICES ASSUME IInv, StreamErrorStatus(status, verdict) PROVE IInv'
    OBVIOUS
  <1> DEFINE t == Observed(status, verdict)
             d == OnResponse(ctl, Budget, status, verdict)
  <1>1. Rewrites(t)
    BY ObserveRewrites DEF StreamErrorStatus
  <1>2. Decides(d, ctl, Budget)
    BY OnResponseDecides, BudgetType, TransportAssumption DEF IInv
  <1>3. result' = result /\ UNCHANGED <<call, items>> /\ pc = "wait" /\ call.mode = "stream"
    BY DEF StreamErrorStatus
  <1>4. \/ ctl' = ctl /\ pc' = "raise"
        \/ /\ ctl' \in [attempt : Nat, baseIndex : Nat]
           /\ ctl'.attempt = ctl.attempt + 1
           /\ ctl.attempt < MaxRetries
           /\ ctl'.baseIndex < call.bases
           /\ pc' = "drain"
    <2>1. CASE MustNotResend(status, verdict)
      BY <2>1 DEF StreamErrorStatus
    <2>2. CASE ~MustNotResend(status, verdict)
      <3>1. ctl' = d.next /\ pc' = IF d.action = "retry" THEN "drain" ELSE "raise"
        BY <2>2 DEF StreamErrorStatus
      <3>2. QED BY <1>2, <3>1, BudgetType DEF Decides, IInv, CountInv, Controllers
    <2>3. QED BY <2>1, <2>2
  <1>5. TypeOK'
    BY <1>1, <1>3, <1>4, RewriteLast DEF TypeOK, IInv
  <1>6. call.key # "none"
    BY <1>3 DEF IInv, TypeOK, Calls
  <1>7. QED BY <1>1, <1>3, <1>4, <1>5, <1>6, RewriteInv

-----------------------------------------------------------------------------
(* The steps that leave tries alone.                                       *)
LEMMA StutterTriesInv ==
    ASSUME IInv, TypeOK', UNCHANGED <<call, ctl, tries>>,
           items' = items \/ pc = "body",
           \/ pc' = "done" /\ items' = items
           \/ pc' = pc
           \/ pc = "drain" /\ pc' = "sleep" /\ items' = items
           \/ pc = "sleep" /\ pc' = "attempt" /\ items' = items
    PROVE  IInv'
  <1>1. CountInv'
    BY DEF IInv, TypeOK, CountInv
  <1>2. KeyInv'
    BY DEF IInv, KeyInv
  <1>3. DeadInv'
    BY DEF IInv, DeadInv, Dead
  <1>4. QED BY <1>1, <1>2, <1>3 DEF IInv

(* A controller never retries once a response is open.                     *)
LEMMA OpenBreakGivesUp ==
    ASSUME IInv, OpenResponseBreaks
    PROVE  ctl' = ctl /\ pc' = "done" /\ result' = "raised_transport"
  <1> DEFINE d == OnTransportError(ctl, Budget, TRUE)
  <1>1. Decides(d, ctl, Budget) /\ d.action = "give_up"
    BY OnTransportErrorDecides, BudgetType DEF IInv
  <1>2. Obey(d, "sleep", "raised_transport")
    BY DEF OpenResponseBreaks
  <1>3. QED BY <1>1, <1>2, ObeyFacts DEF IInv

LEMMA QuietStepInv ==
    ASSUME IInv,
           \/ DrainErrorBody \/ RaiseErrorStatus \/ YieldItem \/ EndOfStream
           \/ OpenResponseBreaks \/ OtherErrorEscapes \/ Wake \/ Abort
           \/ UNCHANGED vars
    PROVE  IInv'
  <1> USE DEF IInv
  <1>1. CASE DrainErrorBody
    BY <1>1, StutterTriesInv DEF DrainErrorBody, TypeOK
  <1>2. CASE RaiseErrorStatus
    BY <1>2, StutterTriesInv DEF RaiseErrorStatus, Finish, TypeOK
  <1>3. CASE YieldItem
    BY <1>3, StutterTriesInv DEF YieldItem, TypeOK
  <1>4. CASE EndOfStream
    BY <1>4, StutterTriesInv DEF EndOfStream, Finish, TypeOK
  <1>5. CASE OpenResponseBreaks
    BY <1>5, OpenBreakGivesUp, StutterTriesInv DEF OpenResponseBreaks, TypeOK
  <1>6. CASE OtherErrorEscapes
    BY <1>6, StutterTriesInv DEF OtherErrorEscapes, Finish, TypeOK
  <1>7. CASE Wake
    BY <1>7, StutterTriesInv DEF Wake, TypeOK
  <1>8. CASE Abort
    BY <1>8, StutterTriesInv DEF Abort, Finish, TypeOK
  <1>9. CASE UNCHANGED vars
    BY <1>9, StutterTriesInv DEF vars, TypeOK
  <1>10. QED BY <1>1, <1>2, <1>3, <1>4, <1>5, <1>6, <1>7, <1>8, <1>9

(* The steps of the other end: a fate changes, and a dead try stays dead.  *)
LEMMA FateInv ==
    ASSUME IInv, NEW i \in 1..Len(tries), NEW fate \in Fates,
           tries[i].fate \in {"dialing", "queued"},
           tries' = WithFate(i, fate),
           UNCHANGED <<call, pc, ctl, items, result>>
    PROVE  IInv'
  <1> DEFINE t == [tries[i] EXCEPT !.fate = fate]
  <1>1. tries[i] \in Try
    BY DEF IInv, TypeOK
  <1>2. t \in Try /\ t.key = tries[i].key /\ t.fate = fate
    BY <1>1 DEF Try
  <1>3. tries' = [tries EXCEPT ![i] = t]
    BY <1>1 DEF WithFate, IInv, TypeOK
  <1>4. /\ tries' \in Seq(Try)
        /\ Len(tries') = Len(tries)
        /\ \A j \in 1..Len(tries) : tries'[j] = IF j = i THEN t ELSE tries[j]
    BY <1>2, <1>3, UpdateTry DEF IInv, TypeOK
  <1>5. TypeOK'
    BY <1>4 DEF IInv, TypeOK
  <1>6. CountInv'
    BY <1>4 DEF IInv, CountInv
  <1>7. KeyInv'
    <2>1. \A j \in 1..Len(tries) : tries'[j].key = tries[j].key
      BY <1>2, <1>4
    <2>2. QED BY <1>4, <2>1 DEF IInv, KeyInv
  <1>8. DeadInv'
    BY <1>2, <1>4 DEF IInv, TypeOK, DeadInv, Dead
  <1>9. QED BY <1>5, <1>6, <1>7, <1>8 DEF IInv

LEMMA GatewayInv == IInv /\ Gateway => IInv'
  <1> SUFFICES ASSUME IInv, Gateway PROVE IInv'
    OBVIOUS
  <1>1. CASE Deliver
    <2>1. Last \in 1..Len(tries)
      BY <1>1 DEF Deliver, IInv, TypeOK, CountInv, Last
    <2>2. QED BY <1>1, <2>1, FateInv DEF Deliver, Fates
  <1>2. ASSUME NEW i \in 1..Len(tries), GatewayRuns(i) PROVE IInv'
    BY <1>2, FateInv DEF GatewayRuns, Fates
  <1>3. ASSUME NEW i \in 1..Len(tries), GatewayRefuses(i) PROVE IInv'
    BY <1>3, FateInv DEF GatewayRefuses, Fates
  <1>4. QED BY <1>1, <1>2, <1>3 DEF Gateway

LEMMA StepInv == IInv /\ [Next]_vars => IInv'
  <1> SUFFICES ASSUME IInv, [Next]_vars PROVE IInv'
    OBVIOUS
  <1>1. CASE SendAttempt
    BY <1>1, SendAttemptInv
  <1>2. CASE ConnectionFails
    BY <1>2, ConnectionFailsInv
  <1>3. CASE TransportFails
    BY <1>3, TransportFailsInv
  <1>4. CASE ResponseArrives
    BY <1>4, BufferedResponseInv, StreamOpensInv, StreamErrorStatusInv
       DEF ResponseArrives
  <1>5. CASE Gateway
    BY <1>5, GatewayInv
  <1>6. CASE \/ DrainErrorBody \/ RaiseErrorStatus \/ YieldItem \/ EndOfStream
             \/ OpenResponseBreaks \/ OtherErrorEscapes \/ Wake \/ Abort
             \/ UNCHANGED vars
    BY <1>6, QuietStepInv
  <1>7. QED BY <1>1, <1>2, <1>3, <1>4, <1>5, <1>6 DEF Next, Driver

THEOREM Invariance == Spec => []IInv
  BY InitInv, StepInv, PTL DEF Spec

-----------------------------------------------------------------------------
(* Types.                                                                  *)
THEOREM TypeCorrect == Spec => []TypeOK
  <1>1. IInv => TypeOK
    BY DEF IInv
  <1>2. QED BY <1>1, Invariance, PTL

(* A mutation without a key is sent again only when no earlier send of it  *)
(* ran or can still run.                                                   *)
THEOREM KeylessResend == Spec => []KeylessResendIsDead
  <1>1. IInv => KeylessResendIsDead
    BY DEF IInv, DeadInv, Dead, KeylessResendIsDead
  <1>2. QED BY <1>1, Invariance, PTL

(* One logical mutation causes at most one charge: with a key, all its     *)
(* charges are that key's; without one, only the last send can have run.   *)
LEMMA ChargesAgree ==
    ASSUME IInv, call.method = "unsafe", NEW i \in Ran, NEW j \in Ran
    PROVE  ChargeId(i) = ChargeId(j)
  <1>1. /\ i \in 1..Len(tries) /\ tries[i].fate = "ran" /\ tries[i].key = call.key
        /\ j \in 1..Len(tries) /\ tries[j].fate = "ran" /\ tries[j].key = call.key
    BY DEF Ran, IInv, KeyInv
  <1>2. CASE call.key = "none"
    <2>1. i = Len(tries) /\ j = Len(tries)
      BY <1>1, <1>2 DEF IInv, TypeOK, DeadInv, Dead
    <2>2. QED BY <2>1
  <1>3. CASE call.key # "none"
    BY <1>1, <1>3 DEF ChargeId
  <1>4. QED BY <1>2, <1>3

THEOREM ChargedOnce == Spec => []ChargedAtMostOnce
  <1>1. IInv => ChargedAtMostOnce
    BY ChargesAgree DEF ChargedAtMostOnce
  <1>2. QED BY <1>1, Invariance, PTL

(* The candidate list is never indexed past its end.                       *)
THEOREM HostsInRange == Spec => []HostInRange
  <1>1. IInv => HostInRange
    BY DEF IInv, CountInv, HostInRange
  <1>2. QED BY <1>1, Invariance, PTL

(* An open stream that breaks is never reconnected: no step sends once an  *)
(* item was surfaced.                                                      *)
THEOREM NoReconnect == Spec => NeverReconnects
  <1>1. ASSUME IInv, [Next]_vars, items > 0 PROVE Len(tries') = Len(tries)
    <2>1. pc \in {"body", "done"}
      BY <1>1 DEF IInv, CountInv
    <2>2. tries \in Seq(Try)
      BY <1>1 DEF IInv, TypeOK
    <2>3. CASE Gateway
      BY <2>1, <2>2, <2>3
         DEF Gateway, Deliver, GatewayRuns, GatewayRefuses, WithFate
    <2>4. CASE Driver
      BY <2>1, <2>4
         DEF Driver, SendAttempt, ConnectionFails, TransportFails, ResponseArrives,
             BufferedResponse, StreamOpens, StreamErrorStatus, DrainErrorBody,
             RaiseErrorStatus, YieldItem, EndOfStream, OpenResponseBreaks,
             OtherErrorEscapes, Wake
    <2>5. CASE Abort \/ UNCHANGED vars
      BY <2>5 DEF Abort, vars
    <2>6. QED BY <1>1, <2>3, <2>4, <2>5 DEF Next
  <1>2. IInv /\ [Next]_vars => [items > 0 => Len(tries') = Len(tries)]_vars
    BY <1>1
  <1>3. QED BY <1>2, Invariance, PTL DEF Spec, NeverReconnects

-----------------------------------------------------------------------------
(* The refinement.  Every step of the engine is a step of the promise or   *)
(* leaves what the promise talks about unchanged.                          *)

(* The charges do not change unless a try starts having run.               *)
LEMMA ChargesUnchanged ==
    ASSUME UNCHANGED call, Len(tries) \in Nat, Len(tries') \in Nat,
           Len(tries') >= Len(tries),
           \A j \in 1..Len(tries) :
               /\ tries'[j].key = tries[j].key
               /\ tries'[j].fate = "ran" <=> tries[j].fate = "ran",
           \A j \in 1..Len(tries') : j > Len(tries) => tries'[j].fate # "ran"
    PROVE  UNCHANGED Charged
  <1>1. Ran' = Ran
    BY DEF Ran
  <1>2. \A j \in Ran : ChargeId(j)' = ChargeId(j)
    BY DEF Ran, ChargeId
  <1>3. QED BY <1>1, <1>2 DEF Charged

LEMMA RewriteKeepsCharges ==
    ASSUME TypeOK, NEW t, Rewrites(t), t.fate = "ran" <=> tries[Last].fate = "ran",
           UNCHANGED call
    PROVE  UNCHANGED <<Charged, Len(tries)>>
  <1>1. /\ Len(tries') = Len(tries)
        /\ \A j \in 1..Len(tries) : tries'[j] = IF j = Last THEN t ELSE tries[j]
        /\ t.key = tries[Last].key
    BY RewriteLast DEF Rewrites
  <1>2. Len(tries) \in Nat
    BY DEF TypeOK
  <1>3. UNCHANGED Charged
    BY <1>1, <1>2, ChargesUnchanged
  <1>4. QED BY <1>1, <1>3

(* A step that keeps the sends, the items and the charges is a Close or a  *)
(* stutter, since a call that is done stays done.                          *)
LEMMA CloseOrStutter ==
    ASSUME UNCHANGED <<Charged, Len(tries), items>>, pc = "done" => pc' = "done"
    PROVE  [Promise!Next]_(Promise!vars)
  BY DEF Promise!Next, Promise!Close, Promise!vars

LEMMA SendIsSend ==
    ASSUME IInv, SendAttempt
    PROVE  [Promise!Next]_(Promise!vars)
  <1>1. NewTry \in Try /\ NewTry.fate = "dialing"
    BY TransportAssumption
       DEF IInv, TypeOK, NewTry, Try, Fates, Verdicts, RequestKey, Calls
  <1>2. /\ Len(tries') = Len(tries) + 1
        /\ \A j \in 1..Len(tries) : tries'[j] = tries[j]
        /\ tries'[Len(tries) + 1] = NewTry
    BY <1>1, AppendTry DEF SendAttempt, IInv, TypeOK
  <1>3. Len(tries) \in Nat
    BY DEF IInv, TypeOK
  <1>4. UNCHANGED Charged
    BY <1>1, <1>2, <1>3, ChargesUnchanged DEF SendAttempt
  <1>5. items = 0 /\ Len(tries) < MaxRetries + 1
    BY <1>3, TransportAssumption DEF SendAttempt, IInv, TypeOK, CountInv
  <1>6. Promise!Send
    BY <1>2, <1>4, <1>5 DEF SendAttempt, Promise!Send
  <1>7. QED BY <1>6 DEF Promise!Next

LEMMA RunIsCharge ==
    ASSUME IInv, (ChargedAtMostOnce)', NEW i \in 1..Len(tries), GatewayRuns(i)
    PROVE  [Promise!Next]_(Promise!vars)
  <1> DEFINE t == [tries[i] EXCEPT !.fate = "ran"]
  <1>0. tries[i] \in Try
    BY DEF IInv, TypeOK
  <1>1. t \in Try /\ t.key = tries[i].key /\ t.fate = "ran"
    BY <1>0 DEF Try, Fates
  <1>2. tries' = [tries EXCEPT ![i] = t]
    BY <1>0 DEF GatewayRuns, WithFate, IInv, TypeOK
  <1>3. /\ Len(tries') = Len(tries)
        /\ \A j \in 1..Len(tries) : tries'[j] = IF j = i THEN t ELSE tries[j]
    BY <1>1, <1>2, UpdateTry DEF IInv, TypeOK
  <1>4. /\ Ran' = Ran \cup {i}
        /\ \A j \in 1..Len(tries) : ChargeId(j)' = ChargeId(j)
    BY <1>1, <1>3 DEF Ran, ChargeId
  <1>5. UNCHANGED <<call, pc, items, Len(tries)>>
    BY <1>3 DEF GatewayRuns
  <1>6. CASE call.method = "safe"
    BY <1>5, <1>6, CloseOrStutter DEF Charged
  <1>7. CASE call.method = "unsafe" /\ Ran = {}
    <2>1. Charged = {} /\ Charged' = {ChargeId(i)}
      BY <1>4, <1>5, <1>7 DEF Charged
    <2>2. ChargeId(i) \in ChargeIds
      <3>1. tries[i].key \in {"none", "key"}
        BY <1>0 DEF Try
      <3>2. i \in 0..MaxRetries + 1 /\ 0 \in 0..MaxRetries + 1
        BY TransportAssumption DEF IInv, TypeOK, CountInv
      <3>3. QED BY <3>1, <3>2 DEF ChargeId, ChargeIds
    <2>3. Len(tries) > 0
      BY DEF IInv, TypeOK
    <2>4. Promise!Charge
      BY <1>5, <2>1, <2>2, <2>3 DEF Promise!Charge
    <2>5. QED BY <2>4 DEF Promise!Next
  <1>8. CASE call.method = "unsafe" /\ Ran # {}
    <2>1. PICK j \in Ran : TRUE
      BY <1>8
    <2>2. i \in Ran' /\ j \in Ran' /\ j \in 1..Len(tries)
      BY <1>4, <2>1 DEF Ran
    <2>3. ChargeId(i)' = ChargeId(j)'
      BY <1>5, <1>8, <2>2 DEF ChargedAtMostOnce
    <2>4. ChargeId(i) = ChargeId(j)
      BY <1>4, <2>2, <2>3
    <2>5. UNCHANGED Charged
      BY <1>4, <1>5, <1>8, <2>1, <2>4 DEF Charged, Ran
    <2>6. QED BY <1>5, <2>5, CloseOrStutter
  <1>9. QED BY <1>6, <1>7, <1>8 DEF IInv, TypeOK, Calls

(* The other fates change no charge.                                       *)
LEMMA OtherFatesAreQuiet ==
    ASSUME IInv, NEW i \in 1..Len(tries), NEW fate \in Fates \ {"ran"},
           tries[i].fate # "ran", tries' = WithFate(i, fate),
           UNCHANGED <<call, pc, items>>
    PROVE  [Promise!Next]_(Promise!vars)
  <1> DEFINE t == [tries[i] EXCEPT !.fate = fate]
  <1>1. tries[i] \in Try
    BY DEF IInv, TypeOK
  <1>2. t \in Try /\ t.key = tries[i].key /\ t.fate = fate
    BY <1>1 DEF Try
  <1>3. tries' = [tries EXCEPT ![i] = t]
    BY <1>1 DEF WithFate, IInv, TypeOK
  <1>4. /\ Len(tries') = Len(tries)
        /\ \A j \in 1..Len(tries) : tries'[j] = IF j = i THEN t ELSE tries[j]
    BY <1>2, <1>3, UpdateTry DEF IInv, TypeOK
  <1>5. Len(tries) \in Nat
    BY DEF IInv, TypeOK
  <1>6. \A j \in 1..Len(tries) :
            /\ tries'[j].key = tries[j].key
            /\ tries'[j].fate = "ran" <=> tries[j].fate = "ran"
    BY <1>2, <1>4
  <1>7. UNCHANGED Charged
    BY <1>4, <1>5, <1>6, ChargesUnchanged
  <1>8. QED BY <1>4, <1>7, CloseOrStutter

LEMMA GatewayRefines ==
    ASSUME IInv, (ChargedAtMostOnce)', Gateway
    PROVE  [Promise!Next]_(Promise!vars)
  <1>1. CASE Deliver
    <2>1. Last \in 1..Len(tries)
      BY <1>1 DEF Deliver, IInv, TypeOK, CountInv, Last
    <2>2. QED BY <1>1, <2>1, OtherFatesAreQuiet DEF Deliver, Fates
  <1>2. ASSUME NEW i \in 1..Len(tries), GatewayRuns(i)
        PROVE  [Promise!Next]_(Promise!vars)
    BY <1>2, RunIsCharge
  <1>3. ASSUME NEW i \in 1..Len(tries), GatewayRefuses(i)
        PROVE  [Promise!Next]_(Promise!vars)
    BY <1>3, OtherFatesAreQuiet DEF GatewayRefuses, Fates
  <1>4. QED BY <1>1, <1>2, <1>3 DEF Gateway

(* The client's observations of a try change no charge either.             *)
LEMMA ObservationRefines ==
    ASSUME IInv, ConnectionFails \/ TransportFails \/ ResponseArrives
    PROVE  [Promise!Next]_(Promise!vars)
  <1>0. pc = "wait" /\ TypeOK
    BY DEF IInv, ConnectionFails, TransportFails,
           ResponseArrives, BufferedResponse, StreamOpens, StreamErrorStatus
  <1>1. Last \in 1..Len(tries) /\ tries[Last] \in Try
    BY <1>0 DEF IInv, TypeOK, CountInv, Last
  <1>2. ASSUME NEW t, Rewrites(t), t.fate = "ran" <=> tries[Last].fate = "ran",
               UNCHANGED <<call, items>>
        PROVE  [Promise!Next]_(Promise!vars)
    BY <1>0, <1>1, <1>2, RewriteKeepsCharges, CloseOrStutter
  <1>3. CASE ConnectionFails
    <2> DEFINE t == [tries[Last] EXCEPT !.fate = "lost", !.kind = "before_send"]
    <2>1. t \in Try /\ t.key = tries[Last].key /\ t.fate = "lost"
      BY <1>1 DEF Try, Fates
    <2>2. tries' = [tries EXCEPT ![Last] = t] /\ tries[Last].fate # "ran"
      BY <1>0, <1>1, <1>3 DEF ConnectionFails, TypeOK
    <2>3. Rewrites(t)
      BY <1>1, <2>1, <2>2 DEF Rewrites
    <2>4. QED BY <1>2, <1>3, <2>1, <2>2, <2>3 DEF ConnectionFails
  <1>4. CASE TransportFails
    <2> DEFINE t == [tries[Last] EXCEPT !.kind = "transport"]
    <2>1. t \in Try /\ t.key = tries[Last].key /\ t.fate = tries[Last].fate
      BY <1>1 DEF Try
    <2>2. tries' = [tries EXCEPT ![Last] = t]
      BY <1>0, <1>1, <1>4 DEF TransportFails, TypeOK
    <2>3. Rewrites(t)
      BY <1>1, <2>1, <2>2 DEF Rewrites
    <2>4. QED BY <1>2, <1>4, <2>1, <2>3 DEF TransportFails
  <1>5. CASE ResponseArrives
    <2>1. PICK status \in Statuses, verdict \in Verdicts :
             \/ BufferedResponse(status, verdict)
             \/ StreamOpens(status, verdict)
             \/ StreamErrorStatus(status, verdict)
      BY <1>5 DEF ResponseArrives
    <2>2. ObserveResponse(status, verdict) /\ UNCHANGED <<call, items>>
      BY <2>1 DEF BufferedResponse, StreamOpens, StreamErrorStatus
    <2>3. /\ Rewrites(Observed(status, verdict))
          /\ Observed(status, verdict).fate = tries[Last].fate
      BY <1>0, <2>2, ObserveRewrites
    <2>4. QED BY <1>2, <2>2, <2>3
  <1>6. QED BY <1>3, <1>4, <1>5

LEMMA QuietStepRefines ==
    ASSUME IInv,
           \/ DrainErrorBody \/ RaiseErrorStatus \/ YieldItem \/ EndOfStream
           \/ OpenResponseBreaks \/ OtherErrorEscapes \/ Wake \/ Abort
           \/ UNCHANGED vars
    PROVE  [Promise!Next]_(Promise!vars)
  <1>1. UNCHANGED <<call, tries>>
    BY DEF DrainErrorBody, RaiseErrorStatus, YieldItem, EndOfStream,
           OpenResponseBreaks, OtherErrorEscapes, Wake, Abort, vars
  <1>2. UNCHANGED <<Charged, Len(tries)>>
    BY <1>1 DEF Charged, Ran, ChargeId
  <1>3. CASE YieldItem
    <2>1. Len(tries) > 0
      BY <1>3 DEF YieldItem, IInv, TypeOK, CountInv
    <2>2. Promise!Surface
      BY <1>2, <1>3, <2>1 DEF YieldItem, Promise!Surface
    <2>3. QED BY <2>2 DEF Promise!Next
  <1>4. CASE ~YieldItem
    <2>1. items' = items /\ (pc = "done" => pc' = "done")
      BY <1>4 DEF DrainErrorBody, RaiseErrorStatus, EndOfStream, OpenResponseBreaks,
                  OtherErrorEscapes, Wake, Abort, Finish, vars
    <2>2. QED BY <1>2, <2>1, CloseOrStutter
  <1>5. QED BY <1>3, <1>4

LEMMA StepRefines ==
    IInv /\ (ChargedAtMostOnce)' /\ [Next]_vars => [Promise!Next]_(Promise!vars)
  <1> SUFFICES ASSUME IInv, (ChargedAtMostOnce)', [Next]_vars
               PROVE  [Promise!Next]_(Promise!vars)
    OBVIOUS
  <1>1. CASE SendAttempt
    BY <1>1, SendIsSend
  <1>2. CASE ConnectionFails \/ TransportFails \/ ResponseArrives
    BY <1>2, ObservationRefines
  <1>3. CASE Gateway
    BY <1>3, GatewayRefines
  <1>4. CASE \/ DrainErrorBody \/ RaiseErrorStatus \/ YieldItem \/ EndOfStream
             \/ OpenResponseBreaks \/ OtherErrorEscapes \/ Wake \/ Abort
             \/ UNCHANGED vars
    BY <1>4, QuietStepRefines
  <1>5. QED BY <1>1, <1>2, <1>3, <1>4 DEF Next, Driver

LEMMA InitRefines == Init => Promise!Init
  BY DEF Init, Promise!Init, Charged, Ran

(* The transport engine implements the promise of LogicalCall.             *)
THEOREM EngineKeepsPromise == Spec => PromiseKept
  <1>1. Spec => []IInv /\ []ChargedAtMostOnce
    BY Invariance, ChargedOnce, PTL
  <1>2. QED
    BY <1>1, InitRefines, StepRefines, PTL DEF Spec, PromiseKept, Promise!Spec

-----------------------------------------------------------------------------
(* Why a call is sent again, where, and how often.  To IInv the invariant  *)
(* EngineInv adds what the controller's index means: before a send, the    *)
(* host that the last outcome leads to (ResendInv); and what is true of    *)
(* the last outcome once the driver stopped retrying (SettledInv).         *)
Again == pc \in {"attempt", "sleep", "drain"}

(* A call with outcome t may be sent to host next. *)
Follows(failover, t, host) ==
    \/ host = t.host
    \/ /\ host = t.host + 1
       /\ failover
       /\ t.kind = "response" => t.status \in {502, 503, 504}

Spent(t) == t.kind = "response" /\ t.verdict = "false"

Unreached == \A i \in 1..Len(tries) : tries[i].fate \in {"lost", "dialing"}

(* The host of the i-th send when none is reached. *)
Walk(i) == IF i <= call.bases THEN i - 1 ELSE call.bases - 1

OrderInv ==
    /\ \A i \in 1..Len(tries) : i < Len(tries) => Follows(call.failover, tries[i], tries[i + 1].host)
    /\ Again /\ Len(tries) > 0 => Follows(call.failover, tries[Len(tries)], ctl.baseIndex)
    /\ pc = "wait" => ctl.baseIndex = tries[Len(tries)].host

SpentInv ==
    \A i \in 1..Len(tries) : i < Len(tries) \/ Again => ~Spent(tries[i])

WalkInv ==
    call.failover /\ Unreached =>
        /\ \A i \in 1..Len(tries) : tries[i].host = Walk(i)
        /\ Again => ctl.baseIndex = Walk(Len(tries) + 1)

ResendInv == OrderInv /\ SpentInv /\ WalkInv

GaveUp == {"response", "raised_status", "raised_transport"}

LastIsSettled ==
    Len(tries) > 0 /\ (RetryableOutcome(tries[Len(tries)]) => Len(tries) = MaxRetries + 1)

SettledInv ==
    /\ pc # "done" => result = "none"
    /\ pc \in {"body", "raise"} \/ result \in GaveUp => LastIsSettled

EngineInv == IInv /\ ResendInv /\ SettledInv

-----------------------------------------------------------------------------
(* What the decisions are, beyond Decides. *)
LEMMA OnResponseMoves ==
    ASSUME NEW c \in Controllers, NEW b \in Budgets,
           NEW s \in Nat, NEW v \in Verdicts
    PROVE  LET d == OnResponse(c, b, s, v) IN
           /\ d.action = "retry" =>
                /\ v # "false"
                /\ \/ d.next.baseIndex = c.baseIndex
                   \/ /\ d.next.baseIndex = c.baseIndex + 1
                      /\ b.failover
                      /\ s \in {502, 503, 504}
           /\ d.action # "retry" => c.attempt >= b.maxRetries \/ ~Retryable(s, v)
<1>1. CASE c.attempt >= b.maxRetries \/ ~Retryable(s, v)
  BY <1>1 DEF OnResponse, GiveUp
<1>2. CASE c.attempt < b.maxRetries /\ Retryable(s, v)
  <2> DEFINE m == MayMove(c, b) /\ RegionalFailoverable(s, v)
  <2>1. OnResponse(c, b, s, v) = Retry(c, m)
    BY <1>2 DEF OnResponse, Controllers, Budgets
  <2>2. v # "false"
    BY <1>2 DEF Retryable
  <2>3. m => b.failover /\ s \in {502, 503, 504}
    BY DEF MayMove, RegionalFailoverable
  <2>4. QED BY <2>1, <2>2, <2>3 DEF Retry, Controllers
<1>3. QED BY <1>1, <1>2 DEF Controllers, Budgets

LEMMA OnTransportErrorMoves ==
    ASSUME NEW c \in Controllers, NEW b \in Budgets
    PROVE  LET d == OnTransportError(c, b, FALSE) IN
           /\ d.action = "retry" =>
                d.next.baseIndex = IF MayMove(c, b) THEN c.baseIndex + 1 ELSE c.baseIndex
           /\ d.action # "retry" => c.attempt >= b.maxRetries
  BY DEF OnTransportError, GiveUp, Retry, Controllers, Budgets

-----------------------------------------------------------------------------
LEMMA InitEngine == Init => EngineInv
<1> SUFFICES ASSUME Init PROVE EngineInv
  OBVIOUS
<1>1. IInv
  BY InitInv
<1>2. tries = <<>> /\ Len(tries) = 0 /\ ctl.baseIndex = 0 /\ call \in Calls
  BY DEF Init
<1>3. call.bases \in Nat \ {0}
  BY <1>2, TransportAssumption DEF Calls
<1>4. ResendInv
  BY <1>2, <1>3 DEF Init, ResendInv, OrderInv, SpentInv, WalkInv, Walk
<1>5. SettledInv
  BY DEF Init, SettledInv, GaveUp
<1>6. QED BY <1>1, <1>4, <1>5 DEF EngineInv

LEMMA SendAttemptEngine == EngineInv /\ SendAttempt => ResendInv' /\ SettledInv'
<1> SUFFICES ASSUME EngineInv, SendAttempt PROVE ResendInv' /\ SettledInv'
  OBVIOUS
<1>1. /\ TypeOK /\ CountInv /\ pc = "attempt" /\ pc' = "wait"
      /\ UNCHANGED <<call, ctl, items, result>>
  BY DEF EngineInv, IInv, SendAttempt
<1>2. /\ NewTry \in Try /\ NewTry.host = ctl.baseIndex
  BY <1>1 DEF NewTry, Try, Fates, Verdicts, RequestKey, Calls, TypeOK
<1>3. /\ Len(tries) \in Nat
      /\ Len(tries') = Len(tries) + 1
      /\ \A j \in 1..Len(tries) : tries'[j] = tries[j]
      /\ tries'[Len(tries) + 1] = NewTry
  BY <1>1, <1>2, AppendTry DEF SendAttempt, TypeOK
<1>4. OrderInv'
  BY <1>1, <1>2, <1>3 DEF EngineInv, ResendInv, OrderInv, Again, Follows
<1>5. SpentInv'
  BY <1>1, <1>3 DEF EngineInv, ResendInv, SpentInv, Again, Spent
<1>6. WalkInv'
  <2> SUFFICES ASSUME call.failover, Unreached' PROVE WalkInv'
    BY <1>1 DEF WalkInv
  <2>1. Unreached
    BY <1>3 DEF Unreached
  <2>2. /\ \A i \in 1..Len(tries) : tries[i].host = Walk(i)
        /\ ctl.baseIndex = Walk(Len(tries) + 1)
    BY <1>1, <2>1 DEF EngineInv, ResendInv, WalkInv, Again
  <2>3. \A i \in 1..Len(tries') : tries'[i].host = Walk(i)
    BY <1>2, <1>3, <2>2
  <2>4. QED BY <1>1, <2>3 DEF WalkInv, Walk, Again
<1>7. SettledInv'
  BY <1>1 DEF EngineInv, SettledInv, GaveUp
<1>8. QED BY <1>4, <1>5, <1>6, <1>7 DEF ResendInv

(* A step of the driver that observes t as the outcome of the last send:   *)
(* it is done with retrying, or t leads to the controller's next host.     *)
LEMMA RewriteEngine ==
    ASSUME EngineInv, NEW t, Rewrites(t), pc = "wait", call' = call,
           t.host = tries[Last].host,
           \/ /\ pc' \in {"done", "body", "raise"}
              /\ pc' # "done" => result' = result
              /\ RetryableOutcome(t) => Len(tries) = MaxRetries + 1
           \/ /\ pc' \in {"sleep", "drain"}
              /\ result' = result
              /\ ~Spent(t)
              /\ Follows(call.failover, t, ctl'.baseIndex)
              /\ call.failover /\ t.fate \in {"lost", "dialing"} =>
                    /\ tries[Last].fate \in {"lost", "dialing"}
                    /\ ctl'.baseIndex = IF ctl.baseIndex + 1 < call.bases
                                        THEN ctl.baseIndex + 1 ELSE ctl.baseIndex,
           t.fate \in {"lost", "dialing"} => tries[Last].fate \in {"lost", "dialing"}
    PROVE  ResendInv' /\ SettledInv'
<1>1. TypeOK /\ CountInv /\ ResendInv /\ SettledInv
  BY DEF EngineInv, IInv
<1>2. /\ Len(tries') = Len(tries) /\ Len(tries) \in Nat \ {0}
      /\ Last = Len(tries)
      /\ \A j \in 1..Len(tries) : tries'[j] = IF j = Len(tries) THEN t ELSE tries[j]
  BY <1>1, RewriteLast DEF Rewrites, Last, TypeOK
<1>3. tries'[Len(tries)] = t
  BY <1>2
<1>4. \A j \in 1..Len(tries) : tries'[j].host = tries[j].host
  BY <1>2
<1>5. OrderInv'
  <2>1. ASSUME NEW i \in 1..Len(tries), i < Len(tries)
        PROVE  Follows(call.failover, tries'[i], tries'[i + 1].host)
    <3>1. tries'[i] = tries[i] /\ tries'[i + 1].host = tries[i + 1].host
      BY <1>2, <1>4, <2>1
    <3>2. Follows(call.failover, tries[i], tries[i + 1].host)
      BY <1>1, <2>1 DEF ResendInv, OrderInv
    <3>3. QED BY <3>1, <3>2 DEF Follows
  <2>2. Again' => Follows(call.failover, t, ctl'.baseIndex)
    BY DEF Again
  <2>3. pc' # "wait"
    OBVIOUS
  <2>4. QED BY <1>2, <1>3, <2>1, <2>2, <2>3 DEF OrderInv
<1>6. SpentInv'
  BY <1>1, <1>2 DEF ResendInv, SpentInv, Again, Spent
<1>7. WalkInv'
  <2> SUFFICES ASSUME call.failover, Unreached'
               PROVE  /\ \A i \in 1..Len(tries) : tries[i].host = Walk(i)
                      /\ Again' => ctl'.baseIndex = Walk(Len(tries) + 1)
    BY <1>2, <1>4 DEF WalkInv, Walk
  <2>1. t.fate \in {"lost", "dialing"}
    BY <1>2, <1>3 DEF Unreached
  <2>2. Unreached
    BY <1>2, <2>1 DEF Unreached
  <2>3. \A i \in 1..Len(tries) : tries[i].host = Walk(i)
    BY <1>1, <2>2 DEF ResendInv, WalkInv
  <2>4. ctl.baseIndex = Walk(Len(tries))
    BY <1>1, <1>2, <2>3 DEF ResendInv, OrderInv
  <2>5. call.bases \in Nat \ {0}
    BY <1>1, TransportAssumption DEF TypeOK, Calls
  <2>6. ASSUME Again' PROVE ctl'.baseIndex = Walk(Len(tries) + 1)
    <3>1. ctl'.baseIndex = IF ctl.baseIndex + 1 < call.bases
                           THEN ctl.baseIndex + 1 ELSE ctl.baseIndex
      BY <2>1, <2>6 DEF Again
    <3>2. QED BY <1>2, <2>4, <2>5, <3>1 DEF Walk
  <2>7. QED BY <2>3, <2>6
<1>8. SettledInv'
  <2>1. pc' # "done" => result' = "none"
    BY <1>1 DEF SettledInv
  <2>2. pc' \in {"done", "body", "raise"} => LastIsSettled'
    BY <1>2, <1>3 DEF LastIsSettled, RetryableOutcome, Replayable
  <2>3. QED BY <2>1, <2>2 DEF SettledInv, GaveUp
<1>9. QED BY <1>5, <1>6, <1>7, <1>8 DEF ResendInv

(* After a transport error: the next host, whatever the call, or the end   *)
(* of the budget.                                                          *)
LEMMA TransportDecision ==
    ASSUME EngineInv, pc = "wait",
           Obey(OnTransportError(ctl, Budget, FALSE), "sleep", "raised_transport")
    PROVE  \/ pc' = "done" /\ Len(tries) = MaxRetries + 1
           \/ /\ pc' = "sleep" /\ result' = result
              /\ ctl'.baseIndex = IF call.failover /\ ctl.baseIndex + 1 < call.bases
                                  THEN ctl.baseIndex + 1 ELSE ctl.baseIndex
<1> DEFINE d == OnTransportError(ctl, Budget, FALSE)
<1>1. TypeOK /\ CountInv
  BY DEF EngineInv, IInv
<1>2. /\ d.action = "retry" =>
           d.next.baseIndex = IF MayMove(ctl, Budget) THEN ctl.baseIndex + 1 ELSE ctl.baseIndex
      /\ d.action # "retry" => ctl.attempt >= MaxRetries
  BY <1>1, BudgetType, OnTransportErrorMoves
<1>3. CASE d.action = "retry"
  BY <1>2, <1>3 DEF Obey, MayMove, Budget
<1>4. CASE d.action # "retry"
  <2>1. pc' = "done"
    BY <1>4 DEF Obey, Finish
  <2>2. Len(tries) = ctl.attempt + 1 /\ ctl.attempt <= MaxRetries /\ ctl.attempt \in Nat
    BY <1>1 DEF TypeOK, CountInv
  <2>3. ctl.attempt >= MaxRetries
    BY <1>2, <1>4
  <2>4. QED BY <2>1, <2>2, <2>3, TransportAssumption
<1>5. QED BY <1>3, <1>4

LEMMA ConnectionFailsEngine == EngineInv /\ ConnectionFails => ResendInv' /\ SettledInv'
<1> SUFFICES ASSUME EngineInv, ConnectionFails PROVE ResendInv' /\ SettledInv'
  OBVIOUS
<1> DEFINE t == [tries[Last] EXCEPT !.fate = "lost", !.kind = "before_send"]
<1>1. /\ pc = "wait" /\ call' = call /\ tries[Last].fate = "dialing"
      /\ Last \in 1..Len(tries) /\ tries[Last] \in Try
  BY DEF EngineInv, IInv, TypeOK, CountInv, Last, ConnectionFails
<1>2. /\ t \in Try /\ t.key = tries[Last].key /\ t.host = tries[Last].host
      /\ t.fate = "lost" /\ t.kind = "before_send"
  BY <1>1 DEF Try, Fates
<1>3. Rewrites(t)
  BY <1>1, <1>2 DEF Rewrites, ConnectionFails, EngineInv, IInv, TypeOK
<1>4. \/ pc' = "done" /\ Len(tries) = MaxRetries + 1
      \/ /\ pc' = "sleep" /\ result' = result
         /\ ctl'.baseIndex = IF call.failover /\ ctl.baseIndex + 1 < call.bases
                             THEN ctl.baseIndex + 1 ELSE ctl.baseIndex
  BY TransportDecision DEF ConnectionFails
<1>5. ~Spent(t)
  BY <1>2 DEF Spent
<1>6. pc' = "sleep" => Follows(call.failover, t, ctl'.baseIndex)
  BY <1>1, <1>2, <1>4 DEF Follows, EngineInv, ResendInv, OrderInv, Last
<1>7. QED BY <1>1, <1>2, <1>3, <1>4, <1>5, <1>6, RewriteEngine

LEMMA TransportFailsEngine == EngineInv /\ TransportFails => ResendInv' /\ SettledInv'
<1> SUFFICES ASSUME EngineInv, TransportFails PROVE ResendInv' /\ SettledInv'
  OBVIOUS
<1> DEFINE t == [tries[Last] EXCEPT !.kind = "transport"]
<1>1. /\ pc = "wait" /\ call' = call /\ tries[Last].fate \in {"queued", "ran", "refused"}
      /\ Last \in 1..Len(tries) /\ tries[Last] \in Try
  BY DEF EngineInv, IInv, TypeOK, CountInv, Last, TransportFails
<1>2. /\ t \in Try /\ t.key = tries[Last].key /\ t.host = tries[Last].host
      /\ t.fate = tries[Last].fate /\ t.kind = "transport"
  BY <1>1 DEF Try
<1>3. Rewrites(t)
  BY <1>1, <1>2 DEF Rewrites, TransportFails, EngineInv, IInv, TypeOK
<1>4. ~Spent(t) /\ t.fate \notin {"lost", "dialing"}
  BY <1>1, <1>2 DEF Spent
<1>5. CASE Replayable
  <2>1. \/ pc' = "done" /\ Len(tries) = MaxRetries + 1
        \/ /\ pc' = "sleep" /\ result' = result
           /\ ctl'.baseIndex = IF call.failover /\ ctl.baseIndex + 1 < call.bases
                               THEN ctl.baseIndex + 1 ELSE ctl.baseIndex
    BY <1>5, TransportDecision DEF TransportFails
  <2>2. pc' = "sleep" => Follows(call.failover, t, ctl'.baseIndex)
    BY <1>1, <1>2, <2>1 DEF Follows, EngineInv, ResendInv, OrderInv, Last
  <2>3. QED BY <1>1, <1>2, <1>3, <1>4, <2>1, <2>2, RewriteEngine
<1>6. CASE ~Replayable
  <2>1. pc' = "done" /\ ~RetryableOutcome(t)
    BY <1>2, <1>6 DEF TransportFails, Finish, RetryableOutcome
  <2>2. QED BY <1>1, <1>2, <1>3, <1>4, <2>1, RewriteEngine
<1>7. QED BY <1>5, <1>6

(* After a response.                                                       *)
LEMMA ResponseDecision ==
    ASSUME EngineInv, pc = "wait", NEW status \in Statuses, NEW verdict \in Verdicts
    PROVE  LET d == OnResponse(ctl, Budget, status, verdict)
               t == Observed(status, verdict) IN
           /\ d.action = "retry" => ~Spent(t) /\ Follows(call.failover, t, d.next.baseIndex)
           /\ d.action # "retry" =>
                Len(tries) = MaxRetries + 1 \/ ~Retryable(status, verdict)
<1> DEFINE d == OnResponse(ctl, Budget, status, verdict)
           t == Observed(status, verdict)
<1>1. TypeOK /\ CountInv /\ ctl.baseIndex = tries[Last].host
  BY DEF EngineInv, IInv, ResendInv, OrderInv, Last
<1>2. Last \in 1..Len(tries) /\ tries[Last] \in Try
  BY <1>1 DEF TypeOK, CountInv, Last
<1>3. /\ t.kind = "response" /\ t.status = status /\ t.verdict = verdict
      /\ t.host = ctl.baseIndex
  BY <1>1, <1>2 DEF Observed, Try
<1>4. /\ d.action = "retry" =>
           /\ verdict # "false"
           /\ \/ d.next.baseIndex = ctl.baseIndex
              \/ /\ d.next.baseIndex = ctl.baseIndex + 1
                 /\ call.failover
                 /\ status \in {502, 503, 504}
      /\ d.action # "retry" => ctl.attempt >= MaxRetries \/ ~Retryable(status, verdict)
  <2>1. Budget.failover = call.failover /\ status \in Nat
    BY TransportAssumption DEF Budget
  <2>2. QED BY <1>1, <2>1, BudgetType, OnResponseMoves
<1>5. d.action = "retry" => ~Spent(t) /\ Follows(call.failover, t, d.next.baseIndex)
  BY <1>3, <1>4 DEF Spent, Follows
<1>6. d.action # "retry" => Len(tries) = MaxRetries + 1 \/ ~Retryable(status, verdict)
  BY <1>1, <1>4, TransportAssumption DEF TypeOK, CountInv
<1>7. QED BY <1>5, <1>6

(* What an observed response is, as an outcome.                            *)
LEMMA ObservedOutcome ==
    ASSUME EngineInv, pc = "wait", NEW status \in Statuses, NEW verdict \in Verdicts,
           Answered
    PROVE  /\ Observed(status, verdict).host = tries[Last].host
           /\ Observed(status, verdict).fate \notin {"lost", "dialing"}
           /\ RetryableOutcome(Observed(status, verdict)) =>
                /\ Retryable(status, verdict) /\ ~MustNotResend(status, verdict)
                /\ call.mode = "stream" => ~IsSuccess(status)
<1>1. tries[Last] \in Try
  BY DEF EngineInv, IInv, TypeOK, CountInv, Last
<1>2. QED BY <1>1 DEF Observed, Try, Answered, RetryableOutcome, MustNotResend

LEMMA ResponseArrivesEngine ==
    EngineInv /\ ResponseArrives => ResendInv' /\ SettledInv'
<1> SUFFICES ASSUME EngineInv, NEW status \in Statuses, NEW verdict \in Verdicts,
                    \/ BufferedResponse(status, verdict)
                    \/ StreamOpens(status, verdict)
                    \/ StreamErrorStatus(status, verdict)
             PROVE  ResendInv' /\ SettledInv'
  BY DEF ResponseArrives
<1> DEFINE t == Observed(status, verdict)
           d == OnResponse(ctl, Budget, status, verdict)
<1>1. pc = "wait" /\ call' = call /\ Answered /\ ObserveResponse(status, verdict)
  BY DEF BufferedResponse, StreamOpens, StreamErrorStatus
<1>2. Rewrites(t)
  BY <1>1, ObserveRewrites DEF EngineInv
<1>3. /\ t.host = tries[Last].host
      /\ t.fate \notin {"lost", "dialing"}
      /\ RetryableOutcome(t) =>
           /\ Retryable(status, verdict) /\ ~MustNotResend(status, verdict)
           /\ call.mode = "stream" => ~IsSuccess(status)
  BY <1>1, ObservedOutcome
<1>4. /\ d.action = "retry" => ~Spent(t) /\ Follows(call.failover, t, d.next.baseIndex)
      /\ d.action # "retry" => Len(tries) = MaxRetries + 1 \/ ~Retryable(status, verdict)
  BY <1>1, ResponseDecision
<1>5. CASE BufferedResponse(status, verdict)
  <2>1. \/ pc' = "done" /\ MustNotResend(status, verdict)
        \/ pc' = "done" /\ d.action # "retry"
        \/ pc' = "sleep" /\ result' = result /\ d.action = "retry" /\ ctl' = d.next
    BY <1>5 DEF BufferedResponse, Obey, Finish
  <2>2. QED BY <1>1, <1>2, <1>3, <1>4, <2>1, RewriteEngine
<1>6. CASE StreamOpens(status, verdict)
  <2>1. pc' = "body" /\ result' = result /\ call.mode = "stream" /\ IsSuccess(status)
    BY <1>6 DEF StreamOpens
  <2>2. QED BY <1>1, <1>2, <1>3, <2>1, RewriteEngine
<1>7. CASE StreamErrorStatus(status, verdict)
  <2>1. result' = result /\
        \/ pc' = "raise" /\ MustNotResend(status, verdict)
        \/ pc' = "raise" /\ d.action # "retry"
        \/ pc' = "drain" /\ d.action = "retry" /\ ctl' = d.next
    BY <1>7 DEF StreamErrorStatus
  <2>2. QED BY <1>1, <1>2, <1>3, <1>4, <2>1, RewriteEngine
<1>8. QED BY <1>5, <1>6, <1>7

-----------------------------------------------------------------------------
(* The steps that send nothing and observe nothing of a send.              *)
LEMMA QuietEngine ==
    ASSUME EngineInv,
           \/ DrainErrorBody \/ RaiseErrorStatus \/ YieldItem \/ EndOfStream
           \/ OpenResponseBreaks \/ OtherErrorEscapes \/ Wake \/ Abort
           \/ UNCHANGED vars
    PROVE  ResendInv' /\ SettledInv'
<1>1. /\ UNCHANGED <<call, ctl, tries>>
      /\ \/ pc' \in {pc, "done"}
         \/ pc = "drain" /\ pc' = "sleep"
         \/ pc = "sleep" /\ pc' = "attempt"
  <2>1. CASE OpenResponseBreaks
    BY <2>1, OpenBreakGivesUp DEF OpenResponseBreaks, EngineInv
  <2>2. QED BY <2>1 DEF DrainErrorBody, RaiseErrorStatus, YieldItem, EndOfStream,
                        OtherErrorEscapes, Wake, Abort, Finish, vars
<1>2. ResendInv'
  <2>1. Again' => Again
    BY <1>1 DEF Again
  <2>2. pc' = "wait" => pc = "wait"
    BY <1>1
  <2>3. OrderInv' /\ SpentInv' /\ WalkInv'
    BY <1>1, <2>1, <2>2
       DEF EngineInv, ResendInv, OrderInv, SpentInv, WalkInv, Unreached, Walk, Spent, Follows
  <2>4. QED BY <2>3 DEF ResendInv
<1>3. /\ pc' # "done" => pc # "done" /\ result' = result
      /\ pc' \in {"body", "raise"} => pc' = pc
      /\ result' \in GaveUp => result' = result \/ pc \in {"body", "raise"}
  <2>1. CASE OpenResponseBreaks
    BY <2>1, OpenBreakGivesUp DEF OpenResponseBreaks, EngineInv
  <2>2. QED BY <2>1 DEF DrainErrorBody, RaiseErrorStatus, YieldItem, EndOfStream,
                        OtherErrorEscapes, Wake, Abort, Finish, vars, GaveUp
<1>4. LastIsSettled => LastIsSettled'
  BY <1>1 DEF LastIsSettled, RetryableOutcome, Replayable
<1>5. SettledInv'
  BY <1>3, <1>4 DEF EngineInv, SettledInv
<1>6. QED BY <1>2, <1>5

(* The other end moves a fate, of a send that was not lost.                *)
LEMMA FateEngine ==
    ASSUME EngineInv, NEW i \in 1..Len(tries), NEW fate \in {"queued", "ran", "refused"},
           tries' = WithFate(i, fate),
           UNCHANGED <<call, pc, ctl, result>>
    PROVE  ResendInv' /\ SettledInv'
<1> DEFINE t == [tries[i] EXCEPT !.fate = fate]
<1>1. TypeOK /\ tries[i] \in Try
  BY DEF EngineInv, IInv, TypeOK
<1>2. /\ t \in Try /\ t.fate = fate /\ t.host = tries[i].host /\ t.kind = tries[i].kind
      /\ t.status = tries[i].status /\ t.verdict = tries[i].verdict
  BY <1>1 DEF Try, Fates
<1>3. /\ Len(tries') = Len(tries)
      /\ \A j \in 1..Len(tries) : tries'[j] = IF j = i THEN t ELSE tries[j]
  BY <1>1, <1>2, UpdateTry DEF WithFate, TypeOK
<1>4. \A j \in 1..Len(tries) :
         /\ tries'[j].host = tries[j].host /\ tries'[j].kind = tries[j].kind
         /\ tries'[j].status = tries[j].status /\ tries'[j].verdict = tries[j].verdict
  BY <1>2, <1>3
<1>5. Len(tries) \in Nat
  BY <1>1 DEF TypeOK
<1>6. OrderInv'
  <2>1. \A j \in 1..Len(tries) : \A h :
           Follows(call.failover, tries[j], h) => Follows(call.failover, tries'[j], h)
    BY <1>4 DEF Follows
  <2>2. \A j \in 1..Len(tries) : j < Len(tries) => j + 1 \in 1..Len(tries)
    BY <1>5
  <2>3. Len(tries) > 0 => Len(tries) \in 1..Len(tries)
    BY <1>5
  <2>4. pc = "wait" => Len(tries) > 0
    BY <1>1 DEF EngineInv, IInv, CountInv, TypeOK
  <2>5. QED BY <1>3, <1>4, <2>1, <2>2, <2>3, <2>4 DEF EngineInv, ResendInv, OrderInv, Again
<1>7. SpentInv'
  BY <1>3, <1>4 DEF EngineInv, ResendInv, SpentInv, Spent, Again
<1>8. WalkInv'
  <2>1. ~Unreached'
    BY <1>2, <1>3 DEF Unreached
  <2>2. QED BY <2>1 DEF WalkInv
<1>9. SettledInv'
  <2>1. LastIsSettled => LastIsSettled'
    BY <1>3, <1>4, <1>5 DEF LastIsSettled, RetryableOutcome, Replayable
  <2>2. QED BY <2>1 DEF EngineInv, SettledInv
<1>10. QED BY <1>6, <1>7, <1>8, <1>9 DEF ResendInv

LEMMA GatewayEngine == EngineInv /\ Gateway => ResendInv' /\ SettledInv'
<1> SUFFICES ASSUME EngineInv, Gateway PROVE ResendInv' /\ SettledInv'
  OBVIOUS
<1>1. CASE Deliver
  <2>1. Last \in 1..Len(tries)
    BY <1>1 DEF Deliver, EngineInv, IInv, TypeOK, CountInv, Last
  <2>2. QED BY <1>1, <2>1, FateEngine DEF Deliver
<1>2. ASSUME NEW i \in 1..Len(tries), GatewayRuns(i) PROVE ResendInv' /\ SettledInv'
  BY <1>2, FateEngine DEF GatewayRuns
<1>3. ASSUME NEW i \in 1..Len(tries), GatewayRefuses(i) PROVE ResendInv' /\ SettledInv'
  BY <1>3, FateEngine DEF GatewayRefuses
<1>4. QED BY <1>1, <1>2, <1>3 DEF Gateway

LEMMA StepEngine == EngineInv /\ [Next]_vars => EngineInv'
<1> SUFFICES ASSUME EngineInv, [Next]_vars PROVE EngineInv'
  OBVIOUS
<1>1. IInv'
  BY StepInv DEF EngineInv
<1>2. ResendInv' /\ SettledInv'
  <2>1. CASE SendAttempt
    BY <2>1, SendAttemptEngine
  <2>2. CASE ConnectionFails
    BY <2>2, ConnectionFailsEngine
  <2>3. CASE TransportFails
    BY <2>3, TransportFailsEngine
  <2>4. CASE ResponseArrives
    BY <2>4, ResponseArrivesEngine
  <2>5. CASE Gateway
    BY <2>5, GatewayEngine
  <2>6. CASE \/ DrainErrorBody \/ RaiseErrorStatus \/ YieldItem \/ EndOfStream
             \/ OpenResponseBreaks \/ OtherErrorEscapes \/ Wake \/ Abort
             \/ UNCHANGED vars
    BY <2>6, QuietEngine
  <2>7. QED BY <2>1, <2>2, <2>3, <2>4, <2>5, <2>6 DEF Next, Driver
<1>3. QED BY <1>1, <1>2 DEF EngineInv

LEMMA EngineInvariance == Spec => []EngineInv
  BY InitEngine, StepEngine, PTL DEF Spec

-----------------------------------------------------------------------------
(* A spent response is the last of a call; a call changes host only to the *)
(* next one, with leave, and after 502, 503, 504 or no answer; and a call  *)
(* none of whose sends arrive tries every host in order before one twice   *)
(* (the decisions of RetryController, in whatever order they fall).        *)
THEOREM JustifiedResends == Spec => []ResendsAreJustified
<1>1. EngineInv => ResendsAreJustified
  <2> SUFFICES ASSUME EngineInv PROVE ResendsAreJustified
    OBVIOUS
  <2>1. SpentResponseIsFinal
    BY DEF EngineInv, ResendInv, SpentInv, Spent, SpentResponseIsFinal
  <2>2. MovesAreJustified
    BY DEF EngineInv, ResendInv, OrderInv, Follows, MovesAreJustified
  <2>3. DeadHostsAreWalked
    BY DEF EngineInv, ResendInv, WalkInv, Unreached, Walk, DeadHostsAreWalked
  <2>4. QED BY <2>1, <2>2, <2>3 DEF ResendsAreJustified
<1>2. QED BY <1>1, EngineInvariance, PTL

(* A call whose last outcome the policy retries ends only when the budget  *)
(* is spent, whether or not there was another host to move to.             *)
THEOREM ExactBudget == Spec => []BudgetIsSpentExactly
<1>1. EngineInv => BudgetIsSpentExactly
  BY DEF EngineInv, IInv, CountInv, SettledInv, GaveUp, LastIsSettled, BudgetIsSpentExactly
<1>2. QED BY <1>1, EngineInvariance, PTL

-----------------------------------------------------------------------------
(* The recorder, from here on.                                             *)
Record == [host : Nat, outcome : Outcomes, moved : BOOLEAN]

(* The send that is not recorded: the one that is waited for, and the one  *)
(* whose failure no hook saw.                                              *)
Unrecorded == pc = "wait" \/ Unseen

Recorded == Len(tries) - (IF Unrecorded THEN 1 ELSE 0)

RecordsInv ==
    /\ recs \in Seq(Record) /\ Len(recs) = Recorded
    /\ cur = Len(tries)
    /\ failoverUsed \in BOOLEAN
    /\ pc = "wait" => Len(tries) > 0 /\ tries[Len(tries)].kind = "pending"
    /\ pc \in {"drain", "raise", "body"} =>
          Len(tries) > 0 /\ tries[Len(tries)].kind = "response"
    /\ \A i \in 1..Len(recs) : recs[i].host = tries[i].host

(* What a record says of a send whose outcome it holds.                    *)
Describes(r, t) ==
    \/ t.kind = "response" /\ r.outcome = StatusOutcome(t.status)
    \/ t.kind \in {"before_send", "transport"}
          /\ r.outcome \in {"timeout", "transport_error"}

OutcomeInv ==
    /\ Again \/ pc = "raise" \/ result \in {"response", "raised_status"}
    /\ Len(recs) > 0
    => Describes(recs[Len(recs)], tries[Len(recs)])

(* The last record moved when the controller did after it.                 *)
MovedInv ==
    /\ \A i \in 1..Len(tries) - 1 : recs[i].moved <=> tries[i + 1].host # tries[i].host
    /\ Again /\ Len(tries) > 0 =>
          (recs[Len(tries)].moved <=> ctl.baseIndex # tries[Len(tries)].host)
    /\ pc \in {"body", "raise"} \/ (pc = "done" /\ result \notin {"aborted", "raised_other"}) =>
          ~recs[Len(tries)].moved
    /\ pc \in {"body", "raise"} => ctl.baseIndex = tries[Len(tries)].host
    /\ failoverUsed <=> \E i \in 1..Len(recs) : recs[i].moved

Header == [a : Nat, po : HeaderOutcomes, ph : Nat, fo : BOOLEAN]

HeadersInv ==
    headers \in Seq(Header) /\ Len(headers) = Len(tries) /\ HeaderTellsPreviousTry

(* The last outcome is one the policy retries, after at least one retry.   *)
RetriesRanOut == ctl.attempt > 0 /\ RetryableOutcome(tries[Len(tries)])

ExhaustedInv ==
    /\ exhausted \in BOOLEAN
    /\ exhausted =>
        /\ pc \in {"raise", "done"}
        /\ Len(tries) = MaxRetries + 1 /\ Len(tries) > 1
        /\ RetryableOutcome(tries[Len(tries)])
        /\ tries[Len(tries)].kind = "response" /\ result # "aborted" =>
              recs[Len(recs)].outcome = StatusOutcome(tries[Len(tries)].status)
    /\ pc = "raise" \/ result \in {"response", "raised_status"} =>
        /\ Len(tries) = ctl.attempt + 1 /\ tries[Len(tries)].kind = "response"
        /\ exhausted <=> RetriesRanOut

EventsInv ==
    events = IF pc = "done" /\ recs # <<>>
             THEN <<EventOf(recs, failoverUsed, exhausted)>> ELSE <<>>

SleepInv ==
    pc \in {"sleep", "drain"} =>
        /\ Len(tries) > 0 /\ sleep.says \in Hints \cup {Silent}
        /\ \E jitter \in {0, BaseDelay(Len(tries) - 1)} :
              sleep.for = RetrySleep(jitter, RetryAfter(sleep.says))

RecorderInv ==
    /\ EngineInv /\ RecordsInv /\ OutcomeInv /\ MovedInv /\ HeadersInv
    /\ ExhaustedInv /\ EventsInv /\ SleepInv

-----------------------------------------------------------------------------
(* A hint is none, or a delay of at most a minute. *)
LEMMA BoundedHint ==
    ASSUME NEW raw \in RawHeaders
    PROVE  /\ BoundedRetryAfter(raw) \in Nat \cup {NoHint}
           /\ BoundedRetryAfter(raw) <= MaxRetryAfter
           /\ raw.kind = "number" /\ raw.value >= 0 =>
                 BoundedRetryAfter(raw) = Smaller(raw.value, MaxRetryAfter)
BY DEF RawHeaders, BoundedRetryAfter, NoHint, Smaller, MaxRetryAfter

(* The jitter's bound, also for attempts no table lists. *)
LEMMA BaseInRange ==
    ASSUME NEW attempt \in Nat
    PROVE  BaseDelay(attempt) \in Nat /\ BaseDelay(attempt) <= MaxJitter
<1>1. CASE attempt >= 6
    BY <1>1 DEF BaseDelay, MaxJitter
<1>2. CASE attempt < 6
    <2>1. attempt \in {0, 1, 2, 3, 4, 5}
        BY <1>2
    <2>2. Bases[attempt + 1] \in Nat /\ Bases[attempt + 1] <= MaxJitter
        BY <2>1 DEF Bases, MaxJitter
    <2> QED BY <1>2, <2>2 DEF BaseDelay
<1> QED BY <1>1, <1>2

LEMMA JitterInRange ==
    ASSUME NEW attempt \in Nat, NEW jitter \in 0..BaseDelay(attempt)
    PROVE  jitter \in Nat /\ jitter <= MaxJitter
<1>1. BaseDelay(attempt) \in Nat /\ BaseDelay(attempt) <= MaxJitter
    BY BaseInRange
<1>2. MaxJitter \in Nat
    BY DEF MaxJitter
<1> QED BY <1>1, <1>2

(* No sleep of the engine is longer than a minute, whatever the headers    *)
(* and however many attempts came before (_retry_sleep is bounded twice,   *)
(* in the parser and where the value is used).                             *)
THEOREM SleepIsShort ==
    ASSUME NEW h \in [ms : RawHeaders, s : RawHeaders], NEW attempt \in Nat,
           NEW jitter \in 0..BaseDelay(attempt)
    PROVE  /\ RetrySleep(jitter, RetryAfter(h)) \in Nat
           /\ RetrySleep(jitter, RetryAfter(h)) <= MaxRetryAfter
<1>1. RetryAfter(h) \in Nat \cup {NoHint} /\ RetryAfter(h) <= MaxRetryAfter
    BY BoundedHint DEF RetryAfter
<1>2. jitter \in Nat /\ jitter <= MaxJitter
    BY JitterInRange
<1> QED BY <1>1, <1>2 DEF RetrySleep, Smaller, Larger, NoHint, MaxRetryAfter, MaxJitter

(* Both headers are floors: a usable retry-after-ms before any retry-after,*)
(* and a usable retry-after whenever the other is not (_retry_after_seconds*)
(* falls through from a value it cannot use).                              *)
THEOREM HintIsAFloor ==
    ASSUME NEW h \in [ms : RawHeaders, s : RawHeaders], NEW attempt \in Nat,
           NEW jitter \in 0..BaseDelay(attempt),
           NEW raw \in RawHeaders,
           raw.kind = "number", raw.value >= 0,
           \/ raw = h.ms
           \/ raw = h.s /\ (h.ms.kind # "number" \/ h.ms.value < 0)
    PROVE  RetrySleep(jitter, RetryAfter(h)) >= Smaller(raw.value, MaxRetryAfter)
<1>1. raw.value \in Int /\ jitter \in Nat /\ jitter <= MaxJitter
    BY JitterInRange DEF RawHeaders
<1>2. RetryAfter(h) = Smaller(raw.value, MaxRetryAfter)
    <2>1. BoundedRetryAfter(raw) = Smaller(raw.value, MaxRetryAfter)
        BY BoundedHint
    <2>2. BoundedRetryAfter(raw) # NoHint
        BY <1>1, <2>1 DEF Smaller, MaxRetryAfter, NoHint
    <2>3. CASE raw = h.ms
        BY <2>1, <2>2, <2>3 DEF RetryAfter
    <2>4. CASE raw = h.s /\ (h.ms.kind # "number" \/ h.ms.value < 0)
        BY <2>1, <2>4 DEF RetryAfter, BoundedRetryAfter
    <2> QED BY <2>3, <2>4
<1> QED BY <1>1, <1>2 DEF RetrySleep, Smaller, Larger, MaxRetryAfter, MaxJitter

-----------------------------------------------------------------------------
(* The recorder only watches: every recorded step is one of the engine's,  *)
(* so everything shown of the engine holds of a recorded call.             *)
LEMMA RecordingSteps == RecNext => [Next]_vars
<1>1. RecDriver => Driver
  <2>1. RecResponse => ResponseArrives
    BY DEF RecResponse, ResponseArrives
  <2>2. RecTransportError => ConnectionFails \/ TransportFails
    BY DEF RecTransportError
  <2>3. RecQuietStep => \/ DrainErrorBody \/ RaiseErrorStatus \/ YieldItem \/ EndOfStream
                        \/ OtherErrorEscapes \/ Wake
    BY DEF RecQuietStep
  <2>4. RecSendAttempt => SendAttempt
    BY DEF RecSendAttempt
  <2>5. RecOpenResponseBreaks => OpenResponseBreaks
    BY DEF RecOpenResponseBreaks
  <2>6. QED BY <2>1, <2>2, <2>3, <2>4, <2>5 DEF RecDriver, Driver
<1>2. RecAbort => Abort
  BY DEF RecAbort
<1>3. QED BY <1>1, <1>2 DEF RecNext, Next

(* RecordedCall refines Transport: the recorder never changes what is      *)
(* sent, when, or how the call ends (_transport.py calls its hooks and     *)
(* uses nothing they return).                                              *)
THEOREM RecordingChangesNothing == RecSpec => Spec
<1>1. RecInit => Init
  BY DEF RecInit
<1>2. [RecNext]_allVars => [Next]_vars
  BY RecordingSteps DEF allVars
<1>3. QED BY <1>1, <1>2, PTL DEF RecSpec, Spec

LEMMA RecordedEngine == RecSpec => []EngineInv
  BY RecordingChangesNothing, EngineInvariance, PTL

-----------------------------------------------------------------------------
(* What an invariant of the engine says of the send at hand.               *)
LEMMA AtHand ==
    ASSUME EngineInv
    PROVE  /\ tries \in Seq(Try) /\ Len(tries) \in Nat /\ Last = Len(tries)
           /\ ctl.attempt \in Nat /\ ctl.baseIndex \in Nat
           /\ pc = "wait" => /\ ctl.baseIndex = tries[Len(tries)].host
                             /\ Len(tries) = ctl.attempt + 1
           /\ pc # "done" => result = "none"
           /\ pc \in {"raise", "body"} => Len(tries) = ctl.attempt + 1
           /\ Again => Len(tries) = ctl.attempt
  BY DEF EngineInv, IInv, TypeOK, CountInv, ResendInv, OrderInv, SettledInv, Last, Again

(* Updating one record.                                                    *)
LEMMA UpdateRecord ==
    ASSUME NEW s \in Seq(Record), NEW i \in 1..Len(s), NEW r \in Record
    PROVE  /\ [s EXCEPT ![i] = r] \in Seq(Record)
           /\ Len([s EXCEPT ![i] = r]) = Len(s)
           /\ \A j \in 1..Len(s) :
                [s EXCEPT ![i] = r][j] = IF j = i THEN r ELSE s[j]
  OBVIOUS

(* A first record of the send at hand, and the move noted on it.           *)
Noted(s, r, m) ==
    IF m THEN [Append(s, r) EXCEPT ![Len(Append(s, r))].moved = TRUE] ELSE Append(s, r)

LEMMA StoredAndMoved ==
    ASSUME NEW s \in Seq(Record), NEW r \in Record, r.moved = FALSE, NEW m \in BOOLEAN
    PROVE  /\ Noted(s, r, m) \in Seq(Record) /\ Len(Noted(s, r, m)) = Len(s) + 1
           /\ \A i \in 1..Len(s) : Noted(s, r, m)[i] = s[i]
           /\ Noted(s, r, m)[Len(s) + 1].host = r.host
           /\ Noted(s, r, m)[Len(s) + 1].outcome = r.outcome
           /\ Noted(s, r, m)[Len(s) + 1].moved = m
<1> DEFINE t == Noted(s, r, m)
           a == Append(s, r)
           n == Len(s) + 1
           q == [r EXCEPT !.moved = TRUE]
<1>1. a \in Seq(Record) /\ Len(a) = n /\ a[n] = r /\ n \in 1..Len(a) /\ n \in Nat
      /\ \A i \in 1..Len(s) : a[i] = s[i] /\ i # n
  OBVIOUS
<1>2. q \in Record /\ q.host = r.host /\ q.outcome = r.outcome /\ q.moved = TRUE
  BY DEF Record
<1>3. CASE m
  <2>1. t = [a EXCEPT ![n] = q]
    BY <1>1, <1>3 DEF Noted
  <2> HIDE DEF a, q, n, t
  <2>2. /\ t \in Seq(Record) /\ Len(t) = Len(a)
        /\ \A i \in 1..Len(a) : t[i] = IF i = n THEN q ELSE a[i]
    <3>1. /\ [a EXCEPT ![n] = q] \in Seq(Record) /\ Len([a EXCEPT ![n] = q]) = Len(a)
          /\ \A i \in 1..Len(a) : [a EXCEPT ![n] = q][i] = IF i = n THEN q ELSE a[i]
      BY <1>1, <1>2, UpdateRecord
    <3>2. QED BY <2>1, <3>1
  <2>3. \A i \in 1..Len(s) : t[i] = s[i]
    BY <1>1, <2>2 DEF n
  <2>4. QED BY <1>1, <1>2, <1>3, <2>2, <2>3 DEF n, t
<1>4. CASE ~m
  BY <1>1, <1>4 DEF Noted
<1>5. QED BY <1>3, <1>4

(* A step that observes the outcome of the send that is waited for, and    *)
(* decides: the record is new, and the move is the controller's.           *)
Observes(r, t) ==
    /\ pc = "wait" /\ Rewrites(t) /\ t.host = tries[Last].host
    /\ r \in Record /\ r.host = tries[Last].host /\ r.moved = FALSE /\ Describes(r, t)
    /\ RecordAndMove(StoreAttempt(r))
    /\ pc' \in {"done", "sleep", "drain", "body", "raise"}
    /\ pc' \in {"drain", "raise", "body"} => t.kind = "response"
    /\ pc' \in {"done", "body", "raise"} => ctl'.baseIndex = ctl.baseIndex
    /\ result' \notin {"aborted", "raised_other"}
    /\ UNCHANGED <<call, cur, headers>>

LEMMA RecordIsAdded ==
    ASSUME RecorderInv, EngineInv', NEW r, NEW t, Observes(r, t)
    PROVE  /\ Len(tries') = Len(tries) /\ Len(tries) \in Nat \ {0}
           /\ \A j \in (1..Len(tries)) \ {Len(tries)} : tries'[j] = tries[j]
           /\ tries'[Len(tries)] = t
           /\ recs' \in Seq(Record) /\ Len(recs') = Len(tries)
           /\ \A i \in (1..Len(tries)) \ {Len(tries)} : recs'[i] = recs[i]
           /\ recs'[Len(tries)].host = r.host
           /\ recs'[Len(tries)].outcome = r.outcome
           /\ recs'[Len(tries)].moved <=> Moves
           /\ failoverUsed' = (failoverUsed \/ Moves)
           /\ Len(recs) = Len(tries) - 1
           /\ ctl.baseIndex = tries[Len(tries)].host
<1> DEFINE n == Len(tries)
           m == Moves
<1>1. /\ tries \in Seq(Try) /\ n \in Nat /\ Last = n /\ ctl.baseIndex = tries[n].host
      /\ n > 0 /\ recs \in Seq(Record) /\ cur = n
      /\ pc = "wait" /\ Unrecorded /\ Len(recs) = n - 1
  BY AtHand DEF RecorderInv, RecordsInv, Recorded, Unrecorded, Observes
<1>2. /\ Len(tries') = n
      /\ \A j \in 1..n : tries'[j] = IF j = n THEN t ELSE tries[j]
  BY <1>1, RewriteLast DEF RecorderInv, EngineInv, IInv, Observes
<1>3. StoreAttempt(r) = Append(recs, r)
  BY <1>1 DEF StoreAttempt
<1>4. recs' = Noted(recs, r, m) /\ failoverUsed' = (failoverUsed \/ Moves)
  BY <1>3 DEF Observes, RecordAndMove, Noted
<1>5. m \in BOOLEAN /\ r \in Record /\ r.moved = FALSE
  BY DEF Moves, Observes
<1> HIDE DEF n, m
<1>6. /\ recs' \in Seq(Record) /\ Len(recs') = Len(recs) + 1
      /\ \A i \in 1..Len(recs) : recs'[i] = recs[i]
      /\ recs'[Len(recs) + 1].host = r.host /\ recs'[Len(recs) + 1].outcome = r.outcome
      /\ recs'[Len(recs) + 1].moved = m
  <2>1. recs \in Seq(Record) /\ r \in Record /\ r.moved = FALSE /\ m \in BOOLEAN
    BY <1>1, <1>5
  <2> DEFINE t1 == Noted(recs, r, m)
  <2>2. /\ t1 \in Seq(Record) /\ Len(t1) = Len(recs) + 1
        /\ \A i \in 1..Len(recs) : t1[i] = recs[i]
        /\ t1[Len(recs) + 1].host = r.host
        /\ t1[Len(recs) + 1].outcome = r.outcome
        /\ t1[Len(recs) + 1].moved = m
    BY <2>1, StoredAndMoved
  <2>3. QED BY <1>4, <2>2
<1>7. Len(recs) + 1 = n /\ n \in Nat \ {0}
  BY <1>1
<1>8. \A i \in (1..n) \ {n} : i \in 1..Len(recs)
  BY <1>1
<1>9. QED BY <1>1, <1>2, <1>4, <1>6, <1>7, <1>8 DEF n, m

LEMMA HeadersUntouched ==
    ASSUME HeadersInv, UNCHANGED <<headers, tries>>
    PROVE  HeadersInv'
<1>1. headers' = headers /\ tries' = tries
  OBVIOUS
<1>2. HeaderTellsPreviousTry' <=> HeaderTellsPreviousTry
  BY <1>1 DEF HeaderTellsPreviousTry
<1>3. Len(headers) = Len(tries) /\ headers \in Seq(Header) /\ HeaderTellsPreviousTry
  BY DEF HeadersInv
<1>4. QED BY <1>1, <1>2, <1>3 DEF HeadersInv

(* What the headers say is of sends before the last, and of hosts, which   *)
(* do not change.                                                          *)
LEMMA HeadersStay ==
    ASSUME HeadersInv, Len(tries) \in Nat, headers' = headers, Len(tries') = Len(tries),
           \A i \in 1..Len(tries) : tries'[i].host = tries[i].host,
           \A i \in (1..Len(tries)) \ {Len(tries)} :
               tries'[i].kind = tries[i].kind /\ tries'[i].status = tries[i].status
    PROVE  HeadersInv'
<1> DEFINE n == Len(tries)
<1>1. ASSUME NEW k \in 1..n
      PROVE  /\ headers[k].a = k - 1 /\ headers[k].po \in HeaderOutcomes
             /\ k > 1 =>
                 /\ headers[k].ph = tries'[k-1].host
                 /\ headers[k].po = "http_error" <=>
                       tries'[k-1].kind = "response" /\ tries'[k-1].status >= 400
                 /\ headers[k].po \in {"timeout", "transport_error"} <=>
                       tries'[k-1].kind \in {"before_send", "transport"}
             /\ headers[k].fo <=> \E i \in 1..k-1 : tries'[i+1].host # tries'[i].host
  <2>1. /\ headers[k].a = k - 1 /\ headers[k].po \in HeaderOutcomes
        /\ k > 1 =>
            /\ headers[k].ph = tries[k-1].host
            /\ headers[k].po = "http_error" <=>
                  tries[k-1].kind = "response" /\ tries[k-1].status >= 400
            /\ headers[k].po \in {"timeout", "transport_error"} <=>
                  tries[k-1].kind \in {"before_send", "transport"}
        /\ headers[k].fo <=> \E i \in 1..k-1 : tries[i+1].host # tries[i].host
    BY DEF HeadersInv, HeaderTellsPreviousTry
  <2>2. k > 1 => k - 1 \in (1..n) \ {n} /\ k - 1 \in 1..n
    OBVIOUS
  <2>3. \A i \in 1..k-1 : i \in 1..n /\ i + 1 \in 1..n
    OBVIOUS
  <2>4. \A i \in 1..k-1 : tries'[i+1].host = tries[i+1].host /\ tries'[i].host = tries[i].host
    BY <2>3
  <2>5. QED BY <2>1, <2>2, <2>4
<1>2. Len(headers') = n
  BY DEF HeadersInv
<1>3. QED BY <1>1, <1>2 DEF HeadersInv, HeaderTellsPreviousTry

LEMMA ObservesKeeps ==
    ASSUME RecorderInv, EngineInv', NEW r, NEW t, Observes(r, t)
    PROVE  RecordsInv' /\ OutcomeInv' /\ MovedInv' /\ HeadersInv'
<1> DEFINE n == Len(tries)
<1>1. /\ Len(tries') = n /\ n \in Nat \ {0}
      /\ \A j \in (1..n) \ {n} : tries'[j] = tries[j]
      /\ tries'[n] = t
      /\ recs' \in Seq(Record) /\ Len(recs') = n
      /\ \A i \in (1..n) \ {n} : recs'[i] = recs[i]
      /\ recs'[n].host = r.host
      /\ recs'[n].outcome = r.outcome
      /\ recs'[n].moved <=> Moves
      /\ failoverUsed' = (failoverUsed \/ Moves)
      /\ Len(recs) = n - 1
      /\ ctl.baseIndex = tries[n].host
  BY RecordIsAdded
<1>2. /\ t.host = tries[n].host /\ r.host = t.host /\ Describes(r, t)
      /\ pc = "wait" /\ pc' \in {"done", "sleep", "drain", "body", "raise"}
      /\ pc' \in {"drain", "raise", "body"} => t.kind = "response"
      /\ pc' \in {"done", "body", "raise"} => ctl'.baseIndex = ctl.baseIndex
      /\ result' \notin {"aborted", "raised_other"}
      /\ UNCHANGED <<call, cur, headers>>
  BY DEF Observes, Last
<1>3. /\ RecordsInv /\ MovedInv /\ HeaderTellsPreviousTry /\ Len(headers) = n /\ cur = n
      /\ failoverUsed \in BOOLEAN
  BY DEF RecorderInv, HeadersInv, RecordsInv
<1>4. RecordsInv'
  <2>1. Recorded' = n
    BY <1>1, <1>2 DEF Recorded, Unrecorded, Unseen
  <2>2. ASSUME NEW i \in 1..n PROVE recs'[i].host = tries'[i].host
    <3>1. CASE i = n
      BY <1>1, <1>2, <3>1
    <3>2. CASE i # n
      BY <1>1, <1>3, <3>2 DEF RecordsInv
    <3>3. QED BY <3>1, <3>2
  <2>3. QED BY <1>1, <1>2, <1>3, <2>1, <2>2 DEF RecordsInv, Moves
<1>5. OutcomeInv'
  BY <1>1, <1>2 DEF OutcomeInv, Describes
<1>6. \A i \in 1..n : tries'[i].host = tries[i].host
  BY <1>1, <1>2
<1>7. MovedInv'
  <2>1. ASSUME NEW i \in 1..n - 1
        PROVE  recs'[i].moved <=> tries'[i + 1].host # tries'[i].host
    <3>1. i \in (1..n) \ {n} /\ i \in 1..n /\ i + 1 \in 1..n
      BY <1>1
    <3>2. recs[i].moved <=> tries[i + 1].host # tries[i].host
      BY <1>3 DEF MovedInv
    <3>3. recs'[i] = recs[i] /\ tries'[i].host = tries[i].host
          /\ tries'[i + 1].host = tries[i + 1].host
      BY <1>1, <1>6, <3>1
    <3>4. QED BY <3>2, <3>3
  <2>2. recs'[n].moved <=> ctl'.baseIndex # tries'[n].host
    BY <1>1, <1>2 DEF Moves
  <2>3. failoverUsed' <=> \E i \in 1..n : recs'[i].moved
    <3>1. failoverUsed <=> \E i \in 1..n - 1 : recs[i].moved
      BY <1>1, <1>3 DEF MovedInv
    <3>2. \A i \in 1..n : i = n \/ i \in 1..n - 1
      BY <1>1
    <3>3. \A i \in 1..n - 1 : recs'[i].moved <=> recs[i].moved
      BY <1>1
    <3>4. n \in 1..n /\ \A i \in 1..n - 1 : i \in 1..n
      BY <1>1
    <3>5. QED BY <1>1, <3>1, <3>2, <3>3, <3>4
  <2>4. pc' \in {"done", "body", "raise"} => ~recs'[n].moved /\ ctl'.baseIndex = tries'[n].host
    BY <1>1, <1>2 DEF Moves
  <2>5. QED BY <1>1, <1>2, <2>1, <2>2, <2>3, <2>4 DEF MovedInv, Again
<1>8. HeadersInv'
  BY <1>1, <1>2, <1>6, HeadersStay DEF RecorderInv
<1>9. QED BY <1>4, <1>5, <1>7, <1>8

-----------------------------------------------------------------------------
(* finish(): one event, when the call ends, of what is recorded then.      *)
LEMMA FinishKeeps ==
    ASSUME EventsInv, pc # "done", FinishIfDone PROVE EventsInv'
  BY DEF EventsInv, FinishIfDone

LEMMA SleepDecided ==
    ASSUME NEW says \in Hints \cup {Silent}, DecideSleep(says),
           Len(tries') = ctl.attempt + 1, ctl.attempt \in Nat
    PROVE  SleepInv'
<1>1. CASE pc' \in {"sleep", "drain"}
  <2>1. PICK jitter \in {0, BaseDelay(ctl.attempt)} :
            sleep' = [for |-> RetrySleep(jitter, RetryAfter(says)), says |-> says]
    BY <1>1 DEF DecideSleep
  <2>2. /\ sleep'.says = says /\ sleep'.for = RetrySleep(jitter, RetryAfter(says))
        /\ Len(tries') - 1 = ctl.attempt /\ Len(tries') > 0
    BY <2>1
  <2>3. jitter \in {0, BaseDelay(Len(tries') - 1)}
    BY <2>1, <2>2
  <2>4. QED BY <2>2, <2>3 DEF SleepInv
<1>2. CASE pc' \notin {"sleep", "drain"}
  BY <1>2 DEF SleepInv
<1>3. QED BY <1>1, <1>2

(* What is left of a step that observes: exhausted must mean that the      *)
(* budget is spent on an outcome the policy retries.                       *)
LEMMA RecTransportErrorKeeps ==
    ASSUME RecorderInv, EngineInv', RecTransportError
    PROVE  RecorderInv'
<1> DEFINE n == Len(tries)
           lost == [tries[Last] EXCEPT !.fate = "lost", !.kind = "before_send"]
           broken == [tries[Last] EXCEPT !.kind = "transport"]
           d == OnTransportError(ctl, Budget, FALSE)
<1>1. /\ EngineInv /\ IInv /\ TypeOK /\ CountInv /\ EventsInv
      /\ ctl \in Controllers /\ Budget \in Budgets
  BY BudgetType DEF RecorderInv, EngineInv, IInv
<1>2. /\ n \in Nat /\ Last = n /\ n > 0 /\ tries[n] \in Try /\ pc = "wait"
      /\ n = ctl.attempt + 1 /\ ctl.attempt \in Nat /\ result = "none"
      /\ ctl.baseIndex = tries[n].host
  <2>1. pc = "wait"
    BY DEF RecTransportError, ConnectionFails, TransportFails
  <2>2. QED BY <1>1, <2>1, AtHand DEF TypeOK
<1>3. Decides(d, ctl, Budget)
  BY <1>1, OnTransportErrorDecides
<1>4. PICK outcome \in {"timeout", "transport_error"} :
        RecordAndMove(StoreAttempt(AttemptRecord(tries[Last].host, outcome, FALSE)))
  BY DEF RecTransportError
<1> DEFINE r == AttemptRecord(tries[Last].host, outcome, FALSE)
<1>5. /\ r \in Record /\ r.host = tries[Last].host /\ r.moved = FALSE /\ r.outcome = outcome
  BY <1>2 DEF AttemptRecord, Record, Outcomes, Try
<1>6. /\ exhausted' = (pc' = "done" /\ ctl.attempt > 0
                         /\ (tries[Last].fate = "dialing" \/ Replayable))
      /\ DecideSleep(Silent) /\ FinishIfDone /\ UNCHANGED <<cur, headers, call>>
  BY DEF RecTransportError, ConnectionFails, TransportFails
<1>7. \E t : /\ Rewrites(t) /\ t.host = tries[Last].host
             /\ t.kind \in {"before_send", "transport"}
             /\ pc' \in {"done", "sleep"} /\ result' \in {"none", "raised_transport"}
             /\ pc' = "done" => ctl'.baseIndex = ctl.baseIndex /\ result' = "raised_transport"
             /\ exhausted' => pc' = "done" /\ ctl.attempt > 0 /\ RetryableOutcome(t)
  <2>1. CASE ConnectionFails
    <3>1. lost \in Try /\ lost.host = tries[Last].host /\ lost.kind = "before_send"
          /\ lost.key = tries[Last].key
      BY <1>2 DEF Try, Fates
    <3>2. Rewrites(lost)
      <4>1. tries' = [tries EXCEPT ![Last] = lost]
        BY <1>1, <1>2, <2>1 DEF ConnectionFails, TypeOK
      <4>2. Last \in 1..Len(tries)
        BY <1>2
      <4>3. QED BY <3>1, <4>1, <4>2 DEF Rewrites
    <3>3. /\ pc' \in {"done", "sleep"} /\ result' \in {"none", "raised_transport"}
          /\ pc' = "done" => ctl'.baseIndex = ctl.baseIndex /\ result' = "raised_transport"
      <4>1. Obey(d, "sleep", "raised_transport")
        BY <2>1 DEF ConnectionFails
      <4>2. \/ ctl' = ctl /\ pc' = "done" /\ result' = "raised_transport"
            \/ pc' = "sleep" /\ result' = result
        BY <1>1, <1>3, <4>1, ObeyFacts
      <4>3. QED BY <1>2, <4>2
    <3>4. RetryableOutcome(lost)
      BY <3>1 DEF RetryableOutcome
    <3>5. QED BY <1>6, <3>1, <3>2, <3>3, <3>4
  <2>2. CASE TransportFails
    <3>1. broken \in Try /\ broken.host = tries[Last].host /\ broken.kind = "transport"
          /\ broken.key = tries[Last].key
      BY <1>2 DEF Try
    <3>2. Rewrites(broken)
      <4>1. tries' = [tries EXCEPT ![Last] = broken]
        BY <1>1, <1>2, <2>2 DEF TransportFails, TypeOK
      <4>2. Last \in 1..Len(tries)
        BY <1>2
      <4>3. QED BY <3>1, <4>1, <4>2 DEF Rewrites
    <3>3. /\ pc' \in {"done", "sleep"} /\ result' \in {"none", "raised_transport"}
          /\ pc' = "done" => ctl'.baseIndex = ctl.baseIndex /\ result' = "raised_transport"
      <4>1. CASE Replayable
        <5>1. Obey(d, "sleep", "raised_transport")
          BY <2>2, <4>1 DEF TransportFails
        <5>2. \/ ctl' = ctl /\ pc' = "done" /\ result' = "raised_transport"
              \/ pc' = "sleep" /\ result' = result
          BY <1>1, <1>3, <5>1, ObeyFacts
        <5>3. QED BY <1>2, <5>2
      <4>2. CASE ~Replayable
        BY <2>2, <4>2 DEF TransportFails, Finish
      <4>3. QED BY <4>1, <4>2
    <3>4. exhausted' => pc' = "done" /\ ctl.attempt > 0 /\ RetryableOutcome(broken)
      BY <1>6, <2>2, <3>1 DEF RetryableOutcome, TransportFails
    <3>5. QED BY <3>1, <3>2, <3>3, <3>4
  <2>3. QED BY <2>1, <2>2 DEF RecTransportError
<1>8. PICK t : /\ Rewrites(t) /\ t.host = tries[Last].host
               /\ t.kind \in {"before_send", "transport"}
               /\ pc' \in {"done", "sleep"} /\ result' \in {"none", "raised_transport"}
               /\ pc' = "done" => ctl'.baseIndex = ctl.baseIndex /\ result' = "raised_transport"
               /\ exhausted' => pc' = "done" /\ ctl.attempt > 0 /\ RetryableOutcome(t)
  BY <1>7
<1> HIDE DEF r, lost, broken, d
<1>9. Observes(r, t)
  <2>1. Describes(r, t)
    BY <1>4, <1>5, <1>8 DEF Describes
  <2>2. RecordAndMove(StoreAttempt(r))
    BY <1>4 DEF r
  <2>3. QED BY <1>2, <1>5, <1>6, <1>8, <2>1, <2>2 DEF Observes
<1>10. RecordsInv' /\ OutcomeInv' /\ MovedInv' /\ HeadersInv'
  BY <1>9, ObservesKeeps
<1>11. Len(tries') = n /\ tries'[n] = t
  BY <1>9, RecordIsAdded
<1>12. ExhaustedInv'
  <2>1. exhausted' => LastIsSettled'
    BY <1>8 DEF EngineInv, SettledInv, GaveUp
  <2>2. RetryableOutcome(tries[Len(tries)])' <=> RetryableOutcome(t)
    BY <1>6, <1>11 DEF RetryableOutcome, Replayable
  <2>3. QED BY <1>2, <1>6, <1>8, <1>11, <2>1, <2>2 DEF ExhaustedInv, LastIsSettled
<1>13. EventsInv'
  BY <1>1, <1>2, <1>6, FinishKeeps
<1>14. SleepInv'
  BY <1>2, <1>6, <1>11, SleepDecided
<1>15. QED BY <1>10, <1>12, <1>13, <1>14 DEF RecorderInv

(* What a response leads to: the end, or a retry, of a call that keeps its *)
(* host and its count unless it retries.                                   *)
LEMMA ResponseLeads ==
    ASSUME EngineInv, NEW status \in Statuses, NEW verdict \in Verdicts,
           \/ BufferedResponse(status, verdict)
           \/ StreamOpens(status, verdict)
           \/ StreamErrorStatus(status, verdict)
    PROVE  /\ pc' \in {"done", "sleep", "drain", "raise", "body"}
           /\ pc' \in {"done", "raise", "body"} => ctl' = ctl
           /\ pc' = "done" => result' = "response"
           /\ pc' # "done" => result' = "none"
           /\ pc' \in {"done", "raise"} /\ call.mode = "stream" => ~IsSuccess(status)
           /\ call' = call /\ pc = "wait" /\ Answered /\ ObserveResponse(status, verdict)
<1> DEFINE d == OnResponse(ctl, Budget, status, verdict)
<1>1. TypeOK /\ CountInv /\ ctl \in Controllers /\ Budget \in Budgets /\ status \in Nat
  BY BudgetType, TransportAssumption DEF EngineInv, IInv
<1>2. Decides(d, ctl, Budget)
  BY <1>1, OnResponseDecides
<1>3. pc = "wait" /\ call' = call /\ Answered /\ ObserveResponse(status, verdict)
  BY DEF BufferedResponse, StreamOpens, StreamErrorStatus
<1>4. result = "none"
  BY <1>3, AtHand
<1>5. CASE BufferedResponse(status, verdict)
  <2>1. call.mode = "buffered"
    BY <1>5 DEF BufferedResponse
  <2>2. CASE MustNotResend(status, verdict)
    BY <1>3, <1>5, <2>1, <2>2 DEF BufferedResponse, Finish
  <2>3. CASE ~MustNotResend(status, verdict)
    <3>1. Obey(d, "sleep", "response")
      BY <1>5, <2>3 DEF BufferedResponse
    <3>2. \/ ctl' = ctl /\ pc' = "done" /\ result' = "response"
          \/ pc' = "sleep" /\ result' = result
      BY <1>1, <1>2, <3>1, ObeyFacts
    <3>3. QED BY <1>3, <1>4, <2>1, <3>2
  <2>4. QED BY <2>2, <2>3
<1>6. CASE StreamOpens(status, verdict)
  BY <1>3, <1>4, <1>6 DEF StreamOpens
<1>7. CASE StreamErrorStatus(status, verdict)
  <2>1. ~IsSuccess(status) /\ result' = "none" /\ pc' \in {"raise", "drain"}
    BY <1>4, <1>7 DEF StreamErrorStatus
  <2>2. pc' = "raise" => ctl' = ctl
    <3>1. CASE MustNotResend(status, verdict)
      BY <1>7, <3>1 DEF StreamErrorStatus
    <3>2. CASE ~MustNotResend(status, verdict)
      BY <1>2, <1>7, <3>2 DEF StreamErrorStatus, Decides
    <3>3. QED BY <3>1, <3>2
  <2>3. QED BY <1>3, <2>1, <2>2
<1>8. QED BY <1>5, <1>6, <1>7

LEMMA RecResponseKeeps ==
    ASSUME RecorderInv, EngineInv', RecResponse
    PROVE  RecorderInv'
<1> DEFINE n == Len(tries)
<1>1. PICK status \in Statuses, verdict \in Verdicts :
          /\ \/ BufferedResponse(status, verdict)
             \/ StreamOpens(status, verdict)
             \/ StreamErrorStatus(status, verdict)
          /\ RecordAndMove(StoreAttempt(
                AttemptRecord(tries[Last].host, StatusOutcome(status), FALSE)))
          /\ exhausted' = (pc' \in {"done", "raise"} /\ ExhaustsOnResponse(status, verdict))
  BY DEF RecResponse
<1>2. PICK says \in Hints : DecideSleep(says)
  BY DEF RecResponse
<1>3. FinishIfDone /\ UNCHANGED <<cur, headers>> /\ EngineInv /\ IInv /\ EventsInv
  BY DEF RecResponse, RecorderInv, EngineInv
<1>4. /\ pc' \in {"done", "sleep", "drain", "raise", "body"}
      /\ pc' \in {"done", "raise", "body"} => ctl' = ctl
      /\ pc' = "done" => result' = "response"
      /\ pc' # "done" => result' = "none"
      /\ pc' \in {"done", "raise"} /\ call.mode = "stream" => ~IsSuccess(status)
      /\ call' = call /\ pc = "wait" /\ Answered /\ ObserveResponse(status, verdict)
  BY <1>1, <1>3, ResponseLeads
<1> DEFINE r == AttemptRecord(tries[Last].host, StatusOutcome(status), FALSE)
           t == Observed(status, verdict)
<1>5. /\ n \in Nat /\ Last = n /\ n > 0 /\ tries[n] \in Try
      /\ n = ctl.attempt + 1 /\ ctl.attempt \in Nat
  BY <1>3, <1>4, AtHand
<1>6. /\ Rewrites(t) /\ t.host = tries[Last].host
      /\ t.kind = "response" /\ t.status = status /\ t.verdict = verdict
  <2>1. Rewrites(t)
    BY <1>3, <1>4, ObserveRewrites
  <2>2. QED BY <1>5, <2>1 DEF Observed, Try
<1>7. /\ r \in Record /\ r.host = tries[Last].host /\ r.moved = FALSE
      /\ r.outcome = StatusOutcome(status)
  BY <1>5 DEF AttemptRecord, Record, Outcomes, Try, StatusOutcome
<1>8. exhausted' = (pc' \in {"done", "raise"} /\ ctl.attempt > 0 /\ RetryableOutcome(t))
  <2>1. pc' \in {"done", "raise"} =>
            (RetryableOutcome(t) <=>
                /\ Retryable(status, verdict)
                /\ ResponseRetryIsSafe(call.method, call.key, verdict))
    BY <1>4, <1>6 DEF RetryableOutcome
  <2>2. ExhaustsOnResponse(status, verdict) <=>
            /\ ctl.attempt > 0 /\ Retryable(status, verdict)
            /\ ResponseRetryIsSafe(call.method, call.key, verdict)
    BY DEF ExhaustsOnResponse, MustNotResend
  <2>3. QED BY <1>1, <2>1, <2>2
<1> HIDE DEF t, r
<1>9. Observes(r, t)
  <2>1. RecordAndMove(StoreAttempt(r))
    BY <1>1 DEF r
  <2>2. Describes(r, t)
    BY <1>6, <1>7 DEF Describes
  <2>3. QED BY <1>3, <1>4, <1>6, <1>7, <2>1, <2>2 DEF Observes
<1>10. RecordsInv' /\ OutcomeInv' /\ MovedInv' /\ HeadersInv'
  BY <1>9, ObservesKeeps
<1>11. /\ Len(tries') = n /\ tries'[n] = t /\ Len(recs') = n
       /\ recs'[n].outcome = StatusOutcome(status)
  BY <1>7, <1>9, RecordIsAdded
<1>12. ExhaustedInv'
  <2>1. pc' \in {"raise", "done"} => LastIsSettled'
    BY <1>4 DEF EngineInv, SettledInv, GaveUp
  <2>2. RetryableOutcome(tries[Len(tries)])' <=> RetryableOutcome(t)
    BY <1>4, <1>11 DEF RetryableOutcome, Replayable
  <2>3. RetriesRanOut' <=> ctl'.attempt > 0 /\ RetryableOutcome(t)
    BY <2>2 DEF RetriesRanOut
  <2>4. exhausted' =>
          /\ pc' \in {"raise", "done"}
          /\ Len(tries') = MaxRetries + 1 /\ Len(tries') > 1
          /\ RetryableOutcome(tries[Len(tries)])'
          /\ recs'[Len(recs')].outcome = StatusOutcome(tries'[Len(tries')].status)
    <3> SUFFICES ASSUME exhausted'
                 PROVE  /\ pc' \in {"raise", "done"}
                        /\ Len(tries') = MaxRetries + 1 /\ Len(tries') > 1
                        /\ RetryableOutcome(tries[Len(tries)])'
                        /\ recs'[Len(recs')].outcome = StatusOutcome(tries'[Len(tries')].status)
      OBVIOUS
    <3>1. pc' \in {"raise", "done"} /\ RetryableOutcome(t) /\ ctl.attempt > 0
      BY <1>8
    <3>2. RetryableOutcome(tries[Len(tries)])'
      BY <2>2, <3>1
    <3>3. Len(tries') = MaxRetries + 1
      BY <2>1, <3>1, <3>2 DEF LastIsSettled
    <3>4. Len(tries') > 1
      BY <1>5, <1>11, <3>1
    <3>5. recs'[Len(recs')].outcome = StatusOutcome(tries'[Len(tries')].status)
      BY <1>6, <1>11
    <3>6. QED BY <3>1, <3>2, <3>3, <3>4, <3>5
  <2>5. pc' = "raise" \/ result' \in {"response", "raised_status"} =>
          /\ Len(tries') = ctl'.attempt + 1 /\ tries'[Len(tries')].kind = "response"
          /\ exhausted' <=> RetriesRanOut'
    BY <1>4, <1>5, <1>6, <1>8, <1>11, <2>3
  <2>6. exhausted' \in BOOLEAN
    BY <1>8
  <2>7. QED BY <2>4, <2>5, <2>6 DEF ExhaustedInv
<1>13. EventsInv'
  BY <1>3, <1>4, FinishKeeps
<1>14. SleepInv'
  BY <1>2, <1>5, <1>11, SleepDecided
<1>15. QED BY <1>10, <1>12, <1>13, <1>14 DEF RecorderInv

-----------------------------------------------------------------------------
(* A send: the record before it is what its header tells.                  *)
LEMMA RecSendAttemptKeeps ==
    ASSUME RecorderInv, EngineInv', RecSendAttempt
    PROVE  RecorderInv'
<1> DEFINE n == Len(tries)
           h == HeaderValue(n + 1)
<1>1. /\ EngineInv /\ RecordsInv /\ OutcomeInv /\ MovedInv /\ HeadersInv /\ EventsInv
      /\ ExhaustedInv
  BY DEF RecorderInv
<1>2. /\ pc = "attempt" /\ pc' = "wait" /\ UNCHANGED <<call, ctl, items, result>>
      /\ tries' = Append(tries, NewTry)
      /\ cur' = Len(recs) + 1 /\ headers' = Append(headers, HeaderValue(cur'))
      /\ UNCHANGED <<recs, failoverUsed, exhausted, events, sleep>>
  BY DEF RecSendAttempt, SendAttempt
<1>3. /\ tries \in Seq(Try) /\ n \in Nat /\ result = "none" /\ n = ctl.attempt
      /\ TypeOK
  BY <1>1, <1>2, AtHand DEF Again, EngineInv, IInv
<1>4. /\ recs \in Seq(Record) /\ Len(recs) = n /\ failoverUsed \in BOOLEAN
      /\ \A i \in 1..n : recs[i].host = tries[i].host
  BY <1>1, <1>2, <1>3 DEF RecordsInv, Recorded, Unrecorded, Unseen
<1>5. /\ NewTry \in Try /\ NewTry.host = ctl.baseIndex /\ NewTry.kind = "pending"
  BY <1>3 DEF NewTry, Try, Fates, Verdicts, RequestKey, Calls, TypeOK
<1>6. /\ Len(tries') = n + 1
      /\ \A j \in 1..n : tries'[j] = tries[j]
      /\ tries'[n + 1] = NewTry
  BY <1>2, <1>3, <1>5, AppendTry
<1>7. RecordsInv'
  <2>1. Recorded' = n
    BY <1>2, <1>3, <1>6 DEF Recorded, Unrecorded
  <2>2. \A i \in 1..n : recs'[i].host = tries'[i].host
    BY <1>2, <1>4, <1>6
  <2>3. tries'[Len(tries')].kind = "pending" /\ Len(tries') > 0
    BY <1>3, <1>5, <1>6
  <2>4. cur' = Len(tries') /\ Len(recs') = n /\ recs' \in Seq(Record)
    BY <1>2, <1>4, <1>6
  <2>5. QED BY <1>2, <1>4, <2>1, <2>2, <2>3, <2>4 DEF RecordsInv
<1>8. OutcomeInv'
  BY <1>2, <1>3 DEF OutcomeInv, Again
<1>9. ASSUME NEW i \in 1..n PROVE recs[i].moved <=> tries'[i + 1].host # tries'[i].host
  <2>1. CASE i = n
    BY <1>1, <1>2, <1>3, <1>5, <1>6, <2>1 DEF MovedInv, Again
  <2>2. CASE i # n
    <3>1. i \in 1..n - 1 /\ i + 1 \in 1..n
      BY <1>3, <2>2
    <3>2. recs[i].moved <=> tries[i + 1].host # tries[i].host
      BY <1>1, <3>1 DEF MovedInv
    <3>3. QED BY <1>6, <3>1, <3>2
  <2>3. QED BY <2>1, <2>2
<1>10. failoverUsed <=> \E i \in 1..n : tries'[i + 1].host # tries'[i].host
  <2>1. failoverUsed <=> \E i \in 1..n : recs[i].moved
    BY <1>1, <1>4 DEF MovedInv
  <2>2. QED BY <1>9, <2>1
<1>11. MovedInv'
  <2>1. Len(tries') - 1 = n /\ Len(recs') = n
    BY <1>2, <1>3, <1>4, <1>6
  <2>2. failoverUsed' <=> \E i \in 1..Len(recs') : recs'[i].moved
    BY <1>1, <1>2 DEF MovedInv
  <2>3. QED BY <1>2, <1>3, <1>9, <2>1, <2>2 DEF MovedInv, Again
<1>12. HeadersInv'
  <2>1. h = [a |-> n,
             po |-> IF n > 0 /\ recs[n].outcome \in HeaderOutcomes THEN recs[n].outcome
                    ELSE "none",
             ph |-> IF n > 0 THEN recs[n].host ELSE 0,
             fo |-> n > 0 /\ failoverUsed]
    <3>1. (n + 1) - 1 = n /\ (n + 1 > 1 <=> n > 0)
      BY <1>3
    <3>2. QED BY <1>4, <3>1 DEF HeaderValue
  <2>2. n > 0 => Describes(recs[n], tries[n]) /\ recs[n].host = tries[n].host
    BY <1>1, <1>2, <1>3, <1>4 DEF OutcomeInv, Again
  <2>3. n > 0 => tries[n] \in Try /\ tries[n].status \in Nat /\ tries[n].host \in Nat
    <3>1. n > 0 => tries[n] \in Try
      BY <1>3
    <3>2. ASSUME NEW x \in Try PROVE x.status \in Nat /\ x.host \in Nat
      <4>1. (x.status \in Statuses \/ x.status = 0) /\ x.host \in Nat
        BY DEF Try
      <4>2. \A status \in Statuses : status \in Nat
        BY TransportAssumption
      <4>3. x.status \in Nat
        BY <4>1, <4>2
      <4>4. QED BY <4>1, <4>3
    <3>3. QED BY <3>1, <3>2
  <2>4. /\ h \in Header /\ h.a = n
        /\ n > 0 =>
             /\ h.ph = tries[n].host
             /\ h.po = "http_error" <=> tries[n].kind = "response" /\ tries[n].status >= 400
             /\ h.po \in {"timeout", "transport_error"} <=>
                   tries[n].kind \in {"before_send", "transport"}
        /\ h.fo <=> n > 0 /\ failoverUsed
    <3>1. /\ h.a = n /\ h.fo = (n > 0 /\ failoverUsed)
          /\ h.po = IF n > 0 /\ recs[n].outcome \in HeaderOutcomes THEN recs[n].outcome
                    ELSE "none"
          /\ h.ph = IF n > 0 THEN recs[n].host ELSE 0
      BY <2>1
    <3>2. h.po \in HeaderOutcomes /\ h.ph \in Nat /\ h.fo \in BOOLEAN
      <4>1. h.po \in HeaderOutcomes
        BY <3>1 DEF HeaderOutcomes
      <4>2. h.ph \in Nat
        BY <2>2, <2>3, <3>1
      <4>3. h.fo \in BOOLEAN
        BY <3>1
      <4>4. QED BY <4>1, <4>2, <4>3
    <3>3. h \in Header
      BY <1>3, <2>1, <3>1, <3>2 DEF Header
    <3>4. n > 0 => /\ h.po = "http_error" <=> tries[n].kind = "response" /\ tries[n].status >= 400
                   /\ h.po \in {"timeout", "transport_error"} <=>
                         tries[n].kind \in {"before_send", "transport"}
      BY <2>2, <2>3, <3>1 DEF Describes, HeaderOutcomes, StatusOutcome
    <3>5. QED BY <2>2, <3>1, <3>3, <3>4
  <2> HIDE DEF h
  <2>5. /\ headers' \in Seq(Header) /\ Len(headers') = n + 1 /\ headers'[n + 1] = h
        /\ \A k \in 1..n : headers'[k] = headers[k]
    BY <1>1, <1>2, <1>3, <1>4, <2>4 DEF HeadersInv, h
  <2>6. ASSUME NEW k \in 1..n + 1
        PROVE  /\ headers'[k].a = k - 1 /\ headers'[k].po \in HeaderOutcomes
               /\ k > 1 =>
                   /\ headers'[k].ph = tries'[k-1].host
                   /\ headers'[k].po = "http_error" <=>
                         tries'[k-1].kind = "response" /\ tries'[k-1].status >= 400
                   /\ headers'[k].po \in {"timeout", "transport_error"} <=>
                         tries'[k-1].kind \in {"before_send", "transport"}
               /\ headers'[k].fo <=> \E i \in 1..k-1 : tries'[i+1].host # tries'[i].host
    <3>1. CASE k = n + 1
      <4>1. k - 1 = n /\ (k > 1 => n > 0 /\ tries'[n] = tries[n])
        BY <1>3, <1>6, <3>1
      <4>2. h.fo <=> \E i \in 1..n : tries'[i+1].host # tries'[i].host
        BY <1>3, <1>10, <2>4
      <4>3. QED BY <2>4, <2>5, <3>1, <4>1, <4>2 DEF Header
    <3>2. CASE k # n + 1
      <4>1. k \in 1..n
        BY <1>3, <3>2
      <4>2. /\ headers[k].a = k - 1 /\ headers[k].po \in HeaderOutcomes
            /\ k > 1 =>
                /\ headers[k].ph = tries[k-1].host
                /\ headers[k].po = "http_error" <=>
                      tries[k-1].kind = "response" /\ tries[k-1].status >= 400
                /\ headers[k].po \in {"timeout", "transport_error"} <=>
                      tries[k-1].kind \in {"before_send", "transport"}
            /\ headers[k].fo <=> \E i \in 1..k-1 : tries[i+1].host # tries[i].host
        BY <1>1, <4>1 DEF HeadersInv, HeaderTellsPreviousTry
      <4>3. /\ k > 1 => tries'[k-1] = tries[k-1]
            /\ \A i \in 1..k-1 : tries'[i+1] = tries[i+1] /\ tries'[i] = tries[i]
        BY <1>3, <1>6, <4>1
      <4>4. headers'[k] = headers[k]
        BY <2>5, <4>1
      <4>5. QED BY <4>2, <4>3, <4>4
    <3>3. QED BY <3>1, <3>2
  <2>7. QED BY <1>6, <2>5, <2>6 DEF HeadersInv, HeaderTellsPreviousTry
<1>13. ExhaustedInv'
  BY <1>1, <1>2, <1>3 DEF ExhaustedInv
<1>14. EventsInv'
  BY <1>1, <1>2 DEF EventsInv
<1>15. SleepInv'
  BY <1>2 DEF SleepInv
<1>16. QED BY <1>7, <1>8, <1>11, <1>12, <1>13, <1>14, <1>15 DEF RecorderInv

-----------------------------------------------------------------------------
(* A record that is written again keeps its place and its host; whether it *)
(* moved is what decides how often the call did.                           *)
Rewrote(r) ==
    /\ Len(tries) > 0 /\ pc # "wait"
    /\ r \in Record /\ r.host = tries[Last].host
    /\ r.moved = recs[Len(tries)].moved
    /\ recs' = [recs EXCEPT ![Len(tries)] = r]
    /\ UNCHANGED <<call, tries, ctl, cur, headers, failoverUsed>>
    /\ pc' = "done" /\ result' # "raised_other"
    /\ result' \notin {"response", "raised_status"}

LEMMA RewroteKeeps ==
    ASSUME RecorderInv, NEW r, Rewrote(r), pc # "done",
           result' = "aborted" \/ ~recs[Len(tries)].moved
    PROVE  RecordsInv' /\ OutcomeInv' /\ MovedInv' /\ HeadersInv'
<1> DEFINE n == Len(tries)
<1>1. /\ EngineInv /\ RecordsInv /\ MovedInv /\ HeadersInv
  BY DEF RecorderInv
<1>2. /\ n \in Nat /\ Last = n /\ n > 0 /\ result = "none"
  BY <1>1, AtHand DEF Rewrote
<1>3. /\ recs \in Seq(Record) /\ Len(recs) = n /\ n \in 1..Len(recs) /\ cur = n
      /\ failoverUsed \in BOOLEAN
      /\ \A i \in 1..n : recs[i].host = tries[i].host
  BY <1>1, <1>2 DEF RecordsInv, Recorded, Unrecorded, Unseen, Rewrote
<1>4. /\ recs' \in Seq(Record) /\ Len(recs') = n
      /\ \A i \in 1..n : recs'[i] = IF i = n THEN r ELSE recs[i]
  <2>1. r \in Record /\ recs' = [recs EXCEPT ![n] = r]
    BY DEF Rewrote
  <2>2. /\ [recs EXCEPT ![n] = r] \in Seq(Record) /\ Len([recs EXCEPT ![n] = r]) = Len(recs)
        /\ \A i \in 1..Len(recs) : [recs EXCEPT ![n] = r][i] = IF i = n THEN r ELSE recs[i]
    BY <1>3, <2>1, UpdateRecord
  <2>3. QED BY <1>3, <2>1, <2>2
<1>5. /\ r.host = tries[n].host /\ r.moved = recs[n].moved
      /\ UNCHANGED <<call, tries, ctl, cur, headers, failoverUsed>>
      /\ pc' = "done" /\ result' # "raised_other"
      /\ result' \notin {"response", "raised_status"}
  BY <1>2 DEF Rewrote
<1>6. \A i \in 1..n : recs'[i].moved = recs[i].moved /\ recs'[i].host = recs[i].host
  BY <1>3, <1>4, <1>5
<1>7. RecordsInv'
  <2>1. Recorded' = n
    BY <1>5 DEF Recorded, Unrecorded, Unseen
  <2>2. QED BY <1>3, <1>4, <1>5, <1>6, <2>1 DEF RecordsInv
<1>8. OutcomeInv'
  BY <1>5 DEF OutcomeInv, Again
<1>9. MovedInv'
  <2>1. ASSUME NEW i \in 1..n - 1
        PROVE  recs'[i].moved <=> tries'[i + 1].host # tries'[i].host
    <3>1. i \in 1..n
      BY <1>2
    <3>2. recs[i].moved <=> tries[i + 1].host # tries[i].host
      BY <1>1 DEF MovedInv
    <3>3. QED BY <1>5, <1>6, <3>1, <3>2
  <2>2. failoverUsed <=> \E i \in 1..n : recs[i].moved
    BY <1>1, <1>3 DEF MovedInv
  <2>3. failoverUsed' <=> \E i \in 1..n : recs'[i].moved
    BY <1>5, <1>6, <2>2
  <2>4. result' = "aborted" \/ ~recs'[n].moved
    BY <1>2, <1>6
  <2>5. QED BY <1>4, <1>5, <2>1, <2>3, <2>4 DEF MovedInv, Again
<1>10. HeadersInv'
  BY <1>1, <1>5, HeadersUntouched
<1>11. QED BY <1>7, <1>8, <1>9, <1>10

LEMMA RecOpenResponseBreaksKeeps ==
    ASSUME RecorderInv, EngineInv', RecOpenResponseBreaks
    PROVE  RecorderInv'
<1>1. /\ EngineInv /\ RecordsInv /\ MovedInv /\ IInv /\ EventsInv
  BY DEF RecorderInv, EngineInv
<1>2. /\ pc \in {"body", "raise"} /\ exhausted' = FALSE /\ FinishIfDone
      /\ UNCHANGED <<cur, headers, sleep, call, tries, items>>
  BY DEF RecOpenResponseBreaks, OpenResponseBreaks
<1>3. pc' = "done" /\ result' = "raised_transport" /\ ctl' = ctl
  BY <1>1, OpenBreakGivesUp DEF RecOpenResponseBreaks
<1>4. PICK outcome \in {"timeout", IF items > 0 THEN "stream_broken" ELSE "transport_error"} :
          RecordAndMove(StoreAttempt(AttemptRecord(tries[Last].host, outcome, FALSE)))
  BY DEF RecOpenResponseBreaks
<1> DEFINE r == AttemptRecord(tries[Last].host, outcome, FALSE)
           n == Len(tries)
<1>5. n \in Nat /\ Last = n /\ n > 0 /\ tries[n] \in Try
  BY <1>1, <1>2, AtHand DEF RecordsInv
<1>6. r \in Record /\ r.host = tries[Last].host /\ r.moved = FALSE
  BY <1>4, <1>5 DEF AttemptRecord, Record, Outcomes, Try
<1>7. /\ recs \in Seq(Record) /\ Len(recs) = n /\ cur = n /\ failoverUsed \in BOOLEAN
      /\ recs[n] \in Record /\ ~recs[n].moved
  BY <1>1, <1>2, <1>5, AtHand
  DEF RecordsInv, Recorded, Unrecorded, Unseen, MovedInv
<1>8. Rewrote(r)
  <2>1. ~Moves
    BY <1>3 DEF Moves
  <2>2. recs' = [recs EXCEPT ![n] = r]
    BY <1>4, <1>5, <1>7, <2>1 DEF RecordAndMove, StoreAttempt
  <2>3. failoverUsed' = failoverUsed
    BY <1>4, <1>7, <2>1 DEF RecordAndMove
  <2>4. r.moved = recs[n].moved
    BY <1>6, <1>7 DEF Record
  <2> HIDE DEF r
  <2>5. QED BY <1>2, <1>3, <1>5, <1>6, <2>2, <2>3, <2>4 DEF Rewrote
<1>9. RecordsInv' /\ OutcomeInv' /\ MovedInv' /\ HeadersInv'
  BY <1>2, <1>7, <1>8, RewroteKeeps
<1>10. ExhaustedInv'
  BY <1>2, <1>3 DEF ExhaustedInv
<1>11. EventsInv'
  BY <1>1, <1>2, FinishKeeps
<1>12. SleepInv'
  BY <1>3 DEF SleepInv
<1>13. QED BY <1>9, <1>10, <1>11, <1>12 DEF RecorderInv

(* on_aborted keeps the move that was noted.                               *)
LEMMA RecAbortKeeps ==
    ASSUME RecorderInv, EngineInv', RecAbort
    PROVE  RecorderInv'
<1> DEFINE n == Len(tries)
           moved == cur <= Len(recs) /\ recs[cur].moved
           r == AttemptRecord(tries[Last].host, "aborted", moved)
<1>1. /\ EngineInv /\ RecordsInv /\ OutcomeInv /\ MovedInv /\ HeadersInv /\ EventsInv
      /\ ExhaustedInv
  BY DEF RecorderInv
<1>2. /\ pc # "done" /\ pc' = "done" /\ result' = "aborted"
      /\ UNCHANGED <<call, ctl, tries, items, cur, failoverUsed, exhausted, headers>>
      /\ recs' = IF cur = 0 THEN recs ELSE StoreAttempt(r)
      /\ FinishIfDone
  BY DEF RecAbort, Abort, Finish
<1>3. /\ n \in Nat /\ Last = n /\ result = "none" /\ cur = n /\ recs \in Seq(Record)
      /\ failoverUsed \in BOOLEAN
      /\ Len(recs) = IF pc = "wait" THEN n - 1 ELSE n
      /\ pc = "wait" => n > 0
      /\ tries \in Seq(Try)
  BY <1>1, <1>2, AtHand DEF RecordsInv, Recorded, Unrecorded, Unseen
<1>4. n > 0 => r \in Record /\ r.host = tries[n].host /\ r.moved = moved
  <2>1. n > 0 => tries[n] \in Try
    BY <1>3
  <2>2. moved \in BOOLEAN
    OBVIOUS
  <2> HIDE DEF moved
  <2>3. QED BY <1>3, <2>1, <2>2 DEF AttemptRecord, Record, Outcomes, Try
<1>5. RecordsInv' /\ OutcomeInv' /\ MovedInv' /\ HeadersInv'
  <2>1. CASE n = 0
    <3>1. recs' = recs /\ Len(recs) = 0
      BY <1>2, <1>3, <2>1
    <3>2. Recorded' = 0
      BY <1>2, <2>1 DEF Recorded, Unrecorded, Unseen
    <3>3. RecordsInv'
      BY <1>1, <1>2, <1>3, <2>1, <3>1, <3>2 DEF RecordsInv
    <3>4. OutcomeInv' /\ MovedInv'
      BY <1>1, <1>2, <2>1, <3>1 DEF OutcomeInv, MovedInv, Again
    <3>5. HeadersInv'
      BY <1>1, <1>2, HeadersUntouched
    <3>6. QED BY <3>3, <3>4, <3>5
  <2>2. CASE n > 0 /\ pc # "wait"
    <3>1. recs' = [recs EXCEPT ![n] = r] /\ n \in 1..Len(recs) /\ recs[n] \in Record
      BY <1>2, <1>3, <2>2 DEF StoreAttempt
    <3>2. r.moved = recs[n].moved
      BY <1>3, <1>4, <2>2, <3>1 DEF Record
    <3> HIDE DEF r
    <3>3. Rewrote(r)
      BY <1>2, <1>3, <1>4, <2>2, <3>1, <3>2 DEF Rewrote
    <3>4. QED BY <1>2, <3>3, RewroteKeeps
  <2>3. CASE n > 0 /\ pc = "wait"
    <3>1. recs' = Append(recs, r) /\ Len(recs) = n - 1 /\ moved = FALSE
      BY <1>2, <1>3, <2>3 DEF StoreAttempt
    <3>2. r \in Record /\ r.host = tries[n].host /\ r.moved = FALSE
      BY <1>4, <2>3, <3>1
    <3> HIDE DEF r, moved
    <3>3. /\ recs' \in Seq(Record) /\ Len(recs') = n
          /\ recs'[n] = r /\ \A i \in 1..n - 1 : recs'[i] = recs[i]
      BY <1>3, <2>3, <3>1, <3>2
    <3>4. RecordsInv'
      <4>1. Recorded' = n
        BY <1>2 DEF Recorded, Unrecorded, Unseen
      <4>2. \A i \in 1..n - 1 : recs[i].host = tries[i].host
        BY <1>1, <3>1 DEF RecordsInv
      <4>3. ASSUME NEW i \in 1..n PROVE recs'[i].host = tries[i].host
        BY <1>3, <3>2, <3>3, <4>2
      <4>4. QED BY <1>1, <1>2, <1>3, <3>3, <4>1, <4>3 DEF RecordsInv
    <3>5. OutcomeInv'
      BY <1>2 DEF OutcomeInv, Again
    <3>6. MovedInv'
      <4>1. \A i \in 1..n - 1 : recs'[i].moved <=> tries[i + 1].host # tries[i].host
        BY <1>1, <3>3 DEF MovedInv
      <4>2. failoverUsed <=> \E i \in 1..n - 1 : recs[i].moved
        BY <1>1, <3>1 DEF MovedInv
      <4>3. \A i \in 1..n : recs'[i].moved <=> i \in 1..n - 1 /\ recs[i].moved
        BY <1>3, <3>2, <3>3
      <4>4. \A i \in 1..n - 1 : i \in 1..n
        BY <1>3
      <4>5. failoverUsed <=> \E i \in 1..n : recs'[i].moved
        BY <4>2, <4>3, <4>4
      <4>6. QED BY <1>2, <3>3, <4>1, <4>5 DEF MovedInv, Again
    <3>7. HeadersInv'
      BY <1>1, <1>2, HeadersUntouched
    <3>8. QED BY <3>4, <3>5, <3>6, <3>7
  <2>4. QED BY <1>3, <2>1, <2>2, <2>3
<1>6. ExhaustedInv'
  <2>1. RetryableOutcome(tries[Len(tries)])' <=> RetryableOutcome(tries[Len(tries)])
    BY <1>2 DEF RetryableOutcome, Replayable
  <2>2. QED BY <1>1, <1>2, <2>1 DEF ExhaustedInv
<1>7. EventsInv'
  BY <1>1, <1>2, FinishKeeps
<1>8. SleepInv'
  BY <1>2 DEF SleepInv
<1>9. QED BY <1>5, <1>6, <1>7, <1>8 DEF RecorderInv

-----------------------------------------------------------------------------
(* What the gateway does changes no host and no outcome, and neither is    *)
(* anything recorded then.                                                 *)
LEMMA SameOutcomesKeep ==
    ASSUME RecorderInv, UNCHANGED recorder, UNCHANGED <<call, pc, ctl, result>>,
           tries' \in Seq(Try), Len(tries') = Len(tries),
           \A j \in 1..Len(tries) :
               /\ tries'[j].host = tries[j].host /\ tries'[j].kind = tries[j].kind
               /\ tries'[j].status = tries[j].status /\ tries'[j].verdict = tries[j].verdict
    PROVE  RecordsInv' /\ OutcomeInv' /\ MovedInv' /\ HeadersInv' /\ ExhaustedInv'
           /\ EventsInv' /\ SleepInv'
<1> DEFINE n == Len(tries)
<1>1. /\ EngineInv /\ RecordsInv /\ OutcomeInv /\ MovedInv /\ HeadersInv /\ EventsInv
      /\ ExhaustedInv /\ SleepInv
  BY DEF RecorderInv
<1>2. UNCHANGED <<recs, cur, failoverUsed, exhausted, headers, events, sleep>>
  BY DEF recorder
<1>3. n \in Nat /\ (n > 0 => n \in 1..n) /\ Len(recs) \in 0..n
  BY <1>1, AtHand DEF RecordsInv, Recorded, Unrecorded, Unseen
<1>4. RecordsInv'
  <2>1. Unseen' <=> Unseen
    <3>1. CASE n = 0
      <4>1. tries \in Seq(Try)
        BY <1>1, AtHand
      <4>2. tries = <<>> /\ tries' = <<>>
        BY <3>1, <4>1
      <4>3. QED BY <4>2 DEF Unseen
    <3>2. CASE n > 0
      BY <1>3, <3>2 DEF Unseen
    <3>3. QED BY <1>3, <3>1, <3>2
  <2>2. Recorded' = Recorded
    BY <2>1 DEF Recorded, Unrecorded
  <2>3. \A i \in 1..Len(recs) : recs[i].host = tries'[i].host
    BY <1>1, <1>3 DEF RecordsInv
  <2>4. n > 0 => tries'[n].kind = tries[n].kind
    BY <1>3
  <2>5. QED BY <1>1, <1>2, <2>2, <2>3, <2>4 DEF RecordsInv
<1>5. OutcomeInv'
  <2>1. ASSUME NEW r, NEW i \in 1..n, Describes(r, tries[i]) PROVE Describes(r, tries'[i])
    BY <2>1 DEF Describes
  <2>2. Len(recs) > 0 => Len(recs) \in 1..n
    BY <1>3
  <2>3. QED BY <1>1, <1>2, <2>1, <2>2 DEF OutcomeInv, Again
<1>6. MovedInv'
  <2>1. ASSUME NEW i \in 1..n - 1
        PROVE  recs'[i].moved <=> tries'[i + 1].host # tries'[i].host
    <3>1. i \in 1..n /\ i + 1 \in 1..n
      BY <1>3
    <3>2. recs[i].moved <=> tries[i + 1].host # tries[i].host
      BY <1>1 DEF MovedInv
    <3>3. QED BY <1>2, <3>1, <3>2
  <2>2. n > 0 => tries'[n].host = tries[n].host
    BY <1>3
  <2>3. pc \in {"body", "raise"} => n > 0
    BY <1>1, <1>3 DEF RecordsInv
  <2>4. QED BY <1>1, <1>2, <1>3, <2>1, <2>2, <2>3 DEF MovedInv, Again
<1>7. HeadersInv'
  BY <1>1, <1>2, <1>3, HeadersStay
<1>8. ExhaustedInv'
  <2>1. n > 0 => (RetryableOutcome(tries[Len(tries)])' <=> RetryableOutcome(tries[Len(tries)]))
    BY <1>3 DEF RetryableOutcome, Replayable
  <2>2. n > 0 => tries'[n].kind = tries[n].kind /\ tries'[n].status = tries[n].status
    BY <1>3
  <2>3. exhausted => n > 0
    BY <1>1, <1>3 DEF ExhaustedInv
  <2>4. ctl.attempt \in Nat
    BY <1>1, AtHand
  <2>5. exhausted' =>
          /\ pc' \in {"raise", "done"}
          /\ Len(tries') = MaxRetries + 1 /\ Len(tries') > 1
          /\ RetryableOutcome(tries[Len(tries)])'
          /\ tries'[Len(tries')].kind = "response" /\ result' # "aborted" =>
                recs'[Len(recs')].outcome = StatusOutcome(tries'[Len(tries')].status)
    BY <1>1, <1>2, <2>1, <2>2, <2>3 DEF ExhaustedInv
  <2>6. pc' = "raise" \/ result' \in {"response", "raised_status"} =>
          /\ Len(tries') = ctl'.attempt + 1 /\ tries'[Len(tries')].kind = "response"
          /\ exhausted' <=> RetriesRanOut'
    <3>1. pc = "raise" \/ result \in {"response", "raised_status"} =>
            /\ n = ctl.attempt + 1 /\ tries[n].kind = "response"
            /\ exhausted <=> RetriesRanOut
      BY <1>1 DEF ExhaustedInv
    <3>2. n = ctl.attempt + 1 => n > 0
      BY <1>3, <2>4
    <3>3. n > 0 => (RetriesRanOut' <=> RetriesRanOut)
      BY <2>1 DEF RetriesRanOut
    <3>4. QED BY <1>2, <2>2, <3>1, <3>2, <3>3
  <2>7. QED BY <1>1, <1>2, <2>5, <2>6 DEF ExhaustedInv
<1>9. EventsInv'
  BY <1>1, <1>2 DEF EventsInv
<1>10. SleepInv'
  BY <1>1, <1>2 DEF SleepInv
<1>11. QED BY <1>4, <1>5, <1>6, <1>7, <1>8, <1>9, <1>10

LEMMA GatewayKeeps ==
    ASSUME RecorderInv, EngineInv', Gateway, UNCHANGED recorder
    PROVE  RecorderInv'
<1>1. \E i \in 1..Len(tries), fate \in Fates :
          tries' = WithFate(i, fate) /\ UNCHANGED <<call, pc, ctl, result>>
  <2>1. CASE Deliver
    <3>1. Len(tries) \in 1..Len(tries) /\ Last = Len(tries)
      BY <2>1, AtHand DEF Deliver, RecorderInv, RecordsInv
    <3>2. "queued" \in Fates
      BY DEF Fates
    <3>3. QED BY <2>1, <3>1, <3>2 DEF Deliver
  <2>2. ASSUME NEW i \in 1..Len(tries), GatewayRuns(i) \/ GatewayRefuses(i)
        PROVE  \E fate \in Fates :
                  tries' = WithFate(i, fate) /\ UNCHANGED <<call, pc, ctl, result>>
    BY <2>2 DEF GatewayRuns, GatewayRefuses, Fates
  <2>3. QED BY <2>1, <2>2 DEF Gateway
<1>2. PICK i \in 1..Len(tries), fate \in Fates :
          tries' = WithFate(i, fate) /\ UNCHANGED <<call, pc, ctl, result>>
  BY <1>1
<1> DEFINE t == [tries[i] EXCEPT !.fate = fate]
<1>3. tries \in Seq(Try) /\ tries[i] \in Try
  BY <1>2, AtHand DEF RecorderInv
<1>4. /\ t \in Try /\ t.host = tries[i].host /\ t.kind = tries[i].kind
      /\ t.status = tries[i].status /\ t.verdict = tries[i].verdict
  BY <1>2, <1>3 DEF Try
<1>5. tries' = [tries EXCEPT ![i] = t]
  BY <1>2, <1>3 DEF WithFate
<1> HIDE DEF t
<1>6. /\ tries' \in Seq(Try) /\ Len(tries') = Len(tries)
      /\ \A j \in 1..Len(tries) : tries'[j] = IF j = i THEN t ELSE tries[j]
  <2>1. /\ [tries EXCEPT ![i] = t] \in Seq(Try)
        /\ Len([tries EXCEPT ![i] = t]) = Len(tries)
        /\ \A j \in 1..Len(tries) : [tries EXCEPT ![i] = t][j] = IF j = i THEN t ELSE tries[j]
    BY <1>2, <1>3, <1>4, UpdateTry
  <2>2. QED BY <1>5, <2>1
<1>7. \A j \in 1..Len(tries) :
          /\ tries'[j].host = tries[j].host /\ tries'[j].kind = tries[j].kind
          /\ tries'[j].status = tries[j].status /\ tries'[j].verdict = tries[j].verdict
  BY <1>4, <1>6
<1>8. QED BY <1>2, <1>6, <1>7, SameOutcomesKeep DEF RecorderInv

-----------------------------------------------------------------------------
(* Steps without a hook: nothing is recorded but the end of the call.      *)
LEMMA RecQuietStepKeeps ==
    ASSUME RecorderInv, EngineInv', RecQuietStep
    PROVE  RecorderInv'
<1> DEFINE n == Len(tries)
<1>1. /\ EngineInv /\ RecordsInv /\ OutcomeInv /\ MovedInv /\ HeadersInv /\ EventsInv
      /\ ExhaustedInv /\ SleepInv
  BY DEF RecorderInv
<1>2. /\ UNCHANGED <<call, ctl, tries, recs, cur, failoverUsed, exhausted, headers>>
      /\ sleep' = (IF pc' = "sleep" THEN sleep ELSE Awake)
      /\ FinishIfDone /\ pc # "done"
      /\ \/ pc = "drain" /\ pc' = "sleep" /\ result' = result
         \/ pc = "sleep" /\ pc' = "attempt" /\ result' = result
         \/ pc = "body" /\ pc' = "body" /\ result' = result
         \/ pc = "body" /\ pc' = "done" /\ result' = "completed"
         \/ pc = "raise" /\ pc' = "done" /\ result' = "raised_status"
         \/ /\ pc \in {"body", "drain", "raise", "wait"}
            /\ pc' = "done" /\ result' = "raised_other"
  BY DEF RecQuietStep, DrainErrorBody, RaiseErrorStatus, YieldItem, EndOfStream,
         OtherErrorEscapes, Wake, Finish
<1>3. n \in Nat /\ result = "none"
  BY <1>1, <1>2, AtHand
<1>4. RecordsInv'
  <2>1. Recorded' = Recorded
    <3>1. pc = "wait" => tries[n].kind = "pending"
      BY <1>1 DEF RecordsInv
    <3>2. pc \in {"drain", "raise", "body"} => tries[n].kind = "response"
      BY <1>1 DEF RecordsInv
    <3>3. Unrecorded' <=> Unrecorded
      BY <1>2, <1>3, <3>1, <3>2 DEF Unrecorded, Unseen
    <3>4. QED BY <1>2, <3>3 DEF Recorded
  <2>2. QED BY <1>1, <1>2, <2>1 DEF RecordsInv
<1>5. OutcomeInv'
  BY <1>1, <1>2, <1>3 DEF OutcomeInv, Again
<1>6. MovedInv'
  BY <1>1, <1>2, <1>3 DEF MovedInv, Again
<1>7. HeadersInv'
  BY <1>1, <1>2, HeadersUntouched
<1>8. ExhaustedInv'
  <2>1. RetryableOutcome(tries[Len(tries)])' <=> RetryableOutcome(tries[Len(tries)])
    BY <1>2 DEF RetryableOutcome, Replayable
  <2>2. RetriesRanOut' <=> RetriesRanOut
    BY <1>2, <2>1 DEF RetriesRanOut
  <2>3. QED BY <1>1, <1>2, <1>3, <2>1, <2>2 DEF ExhaustedInv
<1>9. EventsInv'
  BY <1>1, <1>2, FinishKeeps
<1>10. SleepInv'
  BY <1>1, <1>2 DEF SleepInv
<1>11. QED BY <1>4, <1>5, <1>6, <1>7, <1>8, <1>9, <1>10 DEF RecorderInv

LEMMA InitRecorder == RecInit => RecorderInv
<1> SUFFICES ASSUME RecInit PROVE RecorderInv
  OBVIOUS
<1>1. EngineInv
  BY InitEngine DEF RecInit
<1>2. /\ pc = "attempt" /\ ctl.attempt = 0 /\ tries = <<>> /\ result = "none"
      /\ recs = <<>> /\ cur = 0 /\ failoverUsed = FALSE /\ exhausted = FALSE
      /\ headers = <<>> /\ events = <<>>
  BY DEF RecInit, Init
<1>3. RecordsInv
  <2>1. ~Unrecorded
    BY <1>2 DEF Unrecorded, Unseen
  <2>2. Recorded = 0 /\ Len(recs) = 0 /\ Len(tries) = 0 /\ recs \in Seq(Record)
    BY <1>2, <2>1 DEF Recorded
  <2>3. QED BY <1>2, <2>2 DEF RecordsInv
<1>4. OutcomeInv /\ ExhaustedInv /\ EventsInv /\ SleepInv
  <2>1. OutcomeInv
    BY <1>2 DEF OutcomeInv
  <2>2. ExhaustedInv
    BY <1>2 DEF ExhaustedInv
  <2>3. EventsInv
    BY <1>2 DEF EventsInv
  <2>4. SleepInv
    BY <1>2 DEF SleepInv
  <2>5. QED BY <2>1, <2>2, <2>3, <2>4
<1>5. MovedInv /\ HeadersInv
  BY <1>2 DEF MovedInv, Again, HeadersInv, HeaderTellsPreviousTry
<1>6. QED BY <1>1, <1>3, <1>4, <1>5 DEF RecorderInv

LEMMA StepRecorder == RecorderInv /\ EngineInv' /\ [RecNext]_allVars => RecorderInv'
<1> SUFFICES ASSUME RecorderInv, EngineInv', [RecNext]_allVars PROVE RecorderInv'
  OBVIOUS
<1>1. CASE RecSendAttempt
  BY <1>1, RecSendAttemptKeeps
<1>2. CASE RecTransportError
  BY <1>2, RecTransportErrorKeeps
<1>3. CASE RecResponse
  BY <1>3, RecResponseKeeps
<1>4. CASE RecOpenResponseBreaks
  BY <1>4, RecOpenResponseBreaksKeeps
<1>5. CASE RecQuietStep
  BY <1>5, RecQuietStepKeeps
<1>6. CASE RecAbort
  BY <1>6, RecAbortKeeps
<1>7. CASE Gateway /\ UNCHANGED recorder
  BY <1>7, GatewayKeeps
<1>8. CASE UNCHANGED allVars
  <2>1. UNCHANGED recorder /\ UNCHANGED <<call, pc, ctl, result>> /\ tries' = tries
    BY <1>8 DEF allVars, vars
  <2>2. tries \in Seq(Try)
    BY AtHand DEF RecorderInv
  <2>3. QED BY <2>1, <2>2, SameOutcomesKeep DEF RecorderInv
<1>9. QED BY <1>1, <1>2, <1>3, <1>4, <1>5, <1>6, <1>7, <1>8 DEF RecNext, RecDriver

LEMMA RecorderInvariance == RecSpec => []RecorderInv
  BY InitRecorder, StepRecorder, RecordedEngine, PTL DEF RecSpec

-----------------------------------------------------------------------------
(* The event of a call is what was sent: an attempt for every send a hook  *)
(* saw, at its host, moved when the next one went elsewhere (finish()).    *)
THEOREM EventsMatchTheWire == RecSpec => []EventMatchesWire
<1>1. RecorderInv => EventMatchesWire
  <2> SUFFICES ASSUME RecorderInv PROVE EventMatchesWire
    OBVIOUS
  <2> DEFINE n == Len(tries)
             unseen == IF Unseen THEN 1 ELSE 0
  <2>1. /\ EngineInv /\ RecordsInv /\ MovedInv /\ EventsInv
    BY DEF RecorderInv
  <2>2. n \in Nat /\ recs \in Seq(Record) /\ Len(recs) \in Nat
        /\ (recs # <<>> <=> Len(recs) > 0)
    BY <2>1, AtHand DEF RecordsInv
  <2>3. pc = "done" => Len(recs) = n - unseen
    BY <2>1, <2>2 DEF RecordsInv, Recorded, Unrecorded
  <2>4. Len(events) = IF pc = "done" /\ n > unseen THEN 1 ELSE 0
    <3>1. pc = "done" => (recs # <<>> <=> n > unseen)
      BY <2>2, <2>3
    <3>2. Len(events) = IF pc = "done" /\ recs # <<>> THEN 1 ELSE 0
      BY <2>1 DEF EventsInv
    <3>3. QED BY <3>1, <3>2
  <2>5. ASSUME NEW k \in 1..Len(events)
        PROVE  /\ pc = "done" /\ events[k].attempts = recs
               /\ events[k].failoverUsed = failoverUsed
    BY <2>1, <2>5 DEF EventsInv, EventOf
  <2>6. pc = "done" =>
          /\ \A i \in 1..Len(recs) : recs[i].host = tries[i].host
          /\ \A i \in 1..n - 1 : recs[i].moved <=> tries[i + 1].host # tries[i].host
          /\ recs[n].moved => result \in {"aborted", "raised_other"}
          /\ failoverUsed <=> \E i \in 1..Len(recs) : recs[i].moved
    BY <2>1 DEF RecordsInv, MovedInv
  <2>7. ASSUME NEW k \in 1..Len(events)
        PROVE  LET e == events[k]  m == Len(e.attempts) IN
               /\ m = n - unseen
               /\ \A i \in 1..m : e.attempts[i].host = tries[i].host
               /\ \A i \in 1..n - 1 :
                     e.attempts[i].moved <=> tries[i+1].host # tries[i].host
               /\ m = n /\ e.attempts[m].moved => result \in {"aborted", "raised_other"}
               /\ e.failoverUsed <=> \E i \in 1..m : e.attempts[i].moved
    BY <2>3, <2>5, <2>6
  <2>8. QED BY <2>4, <2>7 DEF EventMatchesWire
<1>2. QED BY <1>1, RecorderInvariance, PTL

(* What x-tr-client says of the send before is what that send came to.     *)
THEOREM HeadersTellTheTruth == RecSpec => []HeaderTellsPreviousTry
<1>1. RecorderInv => HeaderTellsPreviousTry
  BY DEF RecorderInv, HeadersInv
<1>2. QED BY <1>1, RecorderInvariance, PTL

(* A call reported as exhausted spent its budget, and one that spent it    *)
(* and ended with an answer is reported so.                                *)
THEOREM ExhaustionIsTrue == RecSpec => []ExhaustedMeansBudgetSpent
<1>1. RecorderInv => ExhaustedMeansBudgetSpent
  <2> SUFFICES ASSUME RecorderInv, NEW k \in 1..Len(events)
               PROVE  LET spent == /\ Len(tries) = MaxRetries + 1
                                   /\ Len(tries) > 1
                                   /\ RetryableOutcome(tries[Len(tries)])
                                   /\ tries[Len(tries)].kind = "response" =>
                                         \/ tries[Len(tries)].status >= 400
                                         \/ result = "aborted"
                      IN  /\ events[k].final = "exhausted" => spent
                          /\ spent /\ result \in {"response", "raised_status"} =>
                                events[k].final = "exhausted"
    BY DEF ExhaustedMeansBudgetSpent
  <2> DEFINE n == Len(tries)
             last == tries[n]
             outcome == recs[Len(recs)].outcome
  <2>1. EngineInv /\ RecordsInv /\ OutcomeInv /\ ExhaustedInv /\ EventsInv
    BY DEF RecorderInv
  <2>2. /\ pc = "done" /\ Len(recs) > 0 /\ recs \in Seq(Record) /\ Len(recs) \in Nat
        /\ n \in Nat /\ ctl.attempt \in Nat /\ tries \in Seq(Try)
    <3>1. pc = "done" /\ recs # <<>>
      BY <2>1 DEF EventsInv
    <3>2. QED BY <2>1, <3>1, AtHand DEF RecordsInv
  <2>3. events[k].final = IF exhausted /\ Len(recs) > 1 /\ outcome # "ok"
                          THEN "exhausted" ELSE outcome
    BY <2>1, <2>2 DEF EventsInv, EventOf
  <2>4. outcome # "exhausted"
    <3>1. recs[Len(recs)] \in Record
      BY <2>2
    <3>2. QED BY <3>1 DEF Record, Outcomes
  <2>5. ASSUME events[k].final = "exhausted"
        PROVE  /\ n = MaxRetries + 1 /\ n > 1 /\ RetryableOutcome(last)
               /\ last.kind = "response" => last.status >= 400 \/ result = "aborted"
    <3>1. exhausted /\ outcome # "ok"
      BY <2>3, <2>4, <2>5
    <3>2. /\ n = MaxRetries + 1 /\ n > 1 /\ RetryableOutcome(last)
          /\ last.kind = "response" /\ result # "aborted" =>
                outcome = StatusOutcome(last.status)
      BY <2>1, <3>1 DEF ExhaustedInv
    <3>3. last \in Try
      BY <2>2, <3>2
    <3>4. last.status \in Nat
      <4>1. \A s \in Statuses : s \in Nat
        BY TransportAssumption
      <4>2. last.status \in Statuses \/ last.status = 0
        BY <3>3 DEF Try
      <4>3. QED BY <4>1, <4>2
    <3>5. QED BY <3>1, <3>2, <3>4 DEF StatusOutcome
  <2>6. ASSUME n > 1, RetryableOutcome(last), result \in {"response", "raised_status"},
               last.kind = "response" => last.status >= 400 \/ result = "aborted"
        PROVE  events[k].final = "exhausted"
    <3>1. n = ctl.attempt + 1 /\ last.kind = "response" /\ (exhausted <=> RetriesRanOut)
      BY <2>1, <2>6 DEF ExhaustedInv
    <3>2. exhausted
      BY <2>2, <2>6, <3>1 DEF RetriesRanOut
    <3>3. Len(recs) = n
      BY <2>1, <2>2, <2>6 DEF RecordsInv, Recorded, Unrecorded, Unseen
    <3>4. Describes(recs[Len(recs)], last)
      BY <2>1, <2>2, <2>6, <3>3 DEF OutcomeInv
    <3>5. outcome = "http_error"
      <4>1. last \in Try
        BY <2>2, <2>6
      <4>2. last.status >= 400
        BY <2>6, <3>1
      <4>3. \A s \in Statuses : s \in Nat
        BY TransportAssumption
      <4>4. last.status \in Statuses \/ last.status = 0
        BY <4>1 DEF Try
      <4>5. last.status \in Nat
        BY <4>3, <4>4
      <4>6. outcome = StatusOutcome(last.status)
        BY <3>1, <3>4 DEF Describes
      <4>7. QED BY <4>2, <4>5, <4>6 DEF StatusOutcome
    <3>6. QED BY <2>3, <2>6, <3>2, <3>3, <3>5
  <2>7. QED BY <2>5, <2>6
<1>2. QED BY <1>1, RecorderInvariance, PTL

-----------------------------------------------------------------------------
(* One decision's sleep, from its two headers and its jitter.              *)
Floor(h) == IF Usable(h.ms) THEN h.ms.value ELSE IF Usable(h.s) THEN h.s.value ELSE 0

Obeys(for, h, jitter) ==
    /\ 0 <= for /\ for <= 60000
    /\ for >= Floor(h) \/ (Floor(h) > 60000 /\ for = 60000)
    /\ for <= jitter \/ for <= Floor(h)

LEMMA SleepObeys ==
    ASSUME NEW h \in [ms : RawHeaders, s : RawHeaders], NEW attempt \in Nat,
           NEW jitter \in {0, BaseDelay(attempt)}
    PROVE  Obeys(RetrySleep(jitter, RetryAfter(h)), h, BaseDelay(attempt))
<1> DEFINE for == RetrySleep(jitter, RetryAfter(h))
<1>1. /\ BaseDelay(attempt) \in Nat /\ BaseDelay(attempt) <= MaxJitter
      /\ jitter \in 0..BaseDelay(attempt)
  BY BaseInRange
<1>2. for \in Nat /\ for <= MaxRetryAfter
  BY <1>1, SleepIsShort
<1>3. \A raw \in {h.ms, h.s} : raw \in RawHeaders /\ raw.value \in Int
  BY DEF RawHeaders
<1>4. Usable(h.ms) \/ Usable(h.s) => for >= Smaller(Floor(h), MaxRetryAfter)
  <2>1. CASE Usable(h.ms)
    BY <1>1, <1>3, <2>1, HintIsAFloor DEF Usable, Floor
  <2>2. CASE ~Usable(h.ms) /\ Usable(h.s)
    BY <1>1, <1>3, <2>2, HintIsAFloor DEF Usable, Floor
  <2>3. QED BY <2>1, <2>2
<1>5. Floor(h) \in Nat
  BY <1>3 DEF Floor, Usable
<1>6. for >= Floor(h) \/ (Floor(h) > 60000 /\ for = 60000)
  <2>1. CASE Usable(h.ms) \/ Usable(h.s)
    BY <1>2, <1>4, <1>5, <2>1 DEF Smaller, MaxRetryAfter
  <2>2. CASE ~Usable(h.ms) /\ ~Usable(h.s)
    BY <1>2, <2>2 DEF Floor
  <2>3. QED BY <2>1, <2>2
<1>7. for <= BaseDelay(attempt) \/ for <= Floor(h)
  <2>1. RetryAfter(h) \in Int /\ (RetryAfter(h) = NoHint \/ RetryAfter(h) <= Floor(h))
    <3>1. /\ Usable(h.ms) => BoundedRetryAfter(h.ms) = Smaller(h.ms.value, MaxRetryAfter)
          /\ ~Usable(h.ms) => BoundedRetryAfter(h.ms) = NoHint
          /\ Usable(h.s) => BoundedRetryAfter(h.s) = Smaller(h.s.value, MaxRetryAfter)
          /\ ~Usable(h.s) => BoundedRetryAfter(h.s) = NoHint
      BY <1>3 DEF Usable, BoundedRetryAfter
    <3>2. QED BY <1>3, <3>1 DEF RetryAfter, Floor, Usable, Smaller, MaxRetryAfter, NoHint
  <2>2. QED BY <1>1, <1>5, <2>1 DEF RetrySleep, Smaller, Larger, MaxRetryAfter, MaxJitter, NoHint
<1> HIDE DEF for
<1>8. Obeys(for, h, BaseDelay(attempt))
  BY <1>2, <1>6, <1>7 DEF Obeys, MaxRetryAfter
<1>9. QED BY <1>8 DEF for

(* The bound on the jitter, written as the documentation of the retry      *)
(* schedule does.                                                          *)
LEMMA BasesDouble ==
    ASSUME NEW attempt \in Nat
    PROVE  BaseDelay(attempt) = JitterAfter(attempt + 1)
<1>0. attempt > 5 => JitterAfter(attempt + 1) = 30000
  BY DEF JitterAfter
<1>1. CASE attempt > 5
  BY <1>0, <1>1 DEF BaseDelay, MaxJitter
<1>2. CASE attempt = 0
  BY <1>2 DEF BaseDelay, Bases, JitterAfter
<1>3. CASE attempt = 1
  BY <1>3 DEF BaseDelay, Bases, JitterAfter
<1>4. CASE attempt = 2
  BY <1>4 DEF BaseDelay, Bases, JitterAfter
<1>5. CASE attempt = 3
  BY <1>5 DEF BaseDelay, Bases, JitterAfter
<1>6. CASE attempt = 4
  BY <1>6 DEF BaseDelay, Bases, JitterAfter
<1>7. CASE attempt = 5
  BY <1>7 DEF BaseDelay, Bases, JitterAfter
<1>8. QED BY <1>1, <1>2, <1>3, <1>4, <1>5, <1>6, <1>7

(* Every sleep the engine decides on is short, obeys a usable header, and  *)
(* is otherwise within the jitter's schedule (_retry_sleep).               *)
THEOREM EverySleepIsBounded == RecSpec => []SleepsAreBounded
<1>1. RecorderInv => SleepsAreBounded
  <2> SUFFICES ASSUME RecorderInv PROVE SleepsAreBounded
    OBVIOUS
  <2>0. CASE pc \notin {"sleep", "drain"}
    BY <2>0 DEF SleepsAreBounded
  <2> SUFFICES ASSUME pc \in {"sleep", "drain"} PROVE SleepsAreBounded
    BY <2>0
  <2> DEFINE h == sleep.says
             attempt == Len(tries) - 1
  <2>1. PICK jitter \in {0, BaseDelay(attempt)} : sleep.for = RetrySleep(jitter, RetryAfter(h))
    BY DEF RecorderInv, SleepInv
  <2>2. Len(tries) \in Nat /\ Len(tries) > 0 /\ attempt \in Nat
    BY AtHand DEF RecorderInv, SleepInv
  <2>3. h \in [ms : RawHeaders, s : RawHeaders]
    <3>1. Silent \in [ms : RawHeaders, s : RawHeaders]
      BY DEF Silent, RawHeaders
    <3>2. QED BY <3>1, HintsAssumption DEF RecorderInv, SleepInv
  <2> HIDE DEF h, attempt
  <2>4. Obeys(sleep.for, h, BaseDelay(attempt))
    <3>1. Obeys(RetrySleep(jitter, RetryAfter(h)), h, BaseDelay(attempt))
      BY <2>1, <2>2, <2>3, SleepObeys
    <3>2. QED BY <2>1, <3>1
  <2>5. BaseDelay(attempt) = JitterAfter(Len(tries))
    <3>1. attempt + 1 = Len(tries)
      BY <2>2 DEF attempt
    <3>2. BaseDelay(attempt) = JitterAfter(attempt + 1)
      BY <2>2, BasesDouble
    <3>3. QED BY <3>1, <3>2
  <2>6. QED BY <2>4, <2>5 DEF SleepsAreBounded, Obeys, Floor, h
<1>2. QED BY <1>1, RecorderInvariance, PTL
=============================================================================
