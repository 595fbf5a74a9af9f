-------------------------- MODULE TelemetryReporter --------------------------
(***************************************************************************)
(* The reporter that buffers what finished requests recorded and delivers  *)
(* it in batches (_telemetry.py): request threads append under the lock, a *)
(* worker thread and the thread close() starts flush, one at a time under  *)
(* the flush lock but with the lock released while a batch is on the wire, *)
(* and each of them reads the clock before it takes the lock.              *)
(*                                                                         *)
(* Time is counted in minutes.  A row of a window, like an event, is known *)
(* by the requests it counts; its size is one.                             *)
(***************************************************************************)
EXTENDS Integers, CounterFold

CONSTANTS Kinds,            \* of event: "ok", "failure"; "none" if not sampled
          MaxEvents,        \* TELEMETRY_MAX_EVENTS
          MaxBatchEvents,   \* TELEMETRY_MAX_BATCH_EVENTS
          MaxBatchRows,     \* TELEMETRY_MAX_BATCH_COUNTERS
          UrgentSize,       \* buffered items that ask for a flush at once
          Retention,        \* TELEMETRY_RETENTION_SECONDS, in minutes
          MaxRetained,      \* TELEMETRY_RETENTION_BYTES, in rows
          FlushMinutes, MinBackoff, MaxBackoff,
          MaxTime           \* bound: minutes that pass

ASSUME ReporterAssumption ==
    /\ Kinds \subseteq {"none", "ok", "failure"}
    /\ MaxEvents \in Nat \ {0} /\ MaxBatchEvents \in Nat \ {0}
    /\ MaxBatchRows \in Nat \ {0} /\ UrgentSize \in Nat
    /\ Retention \in Nat /\ MaxRetained \in Nat /\ FlushMinutes \in Nat
    /\ MinBackoff \in Nat /\ MaxBackoff \in Nat /\ MaxTime \in Nat

Flushers == {"worker", "final"}

VARIABLES now,
          request,     \* each request: [pc, at, kind, key]
          events,      \* _events
          store,       \* windows: [start, current, closed, retained, dropped]
          timing,      \* [nextFlush, paused, backoffUntil, backoff]
          urgent, wake, stop, disabled, closed,
          flushLock,
          flusher,     \* each flusher: [pc, at, batch]
          acked,       \* requests whose event or count the server confirmed
          reported     \* dropped items the server confirmed it was told of

vars == <<now, request, events, store, timing, urgent, wake, stop, disabled,
          closed, flushLock, flusher, acked, reported>>

NoBatch == [events |-> {}, rows |-> {}, dropped |-> 0]

(* A reporter without threads that has recorded nothing. *)
NoItems == [start |-> -1, current |-> <<>>, closed |-> <<>>,
            retained |-> 0, dropped |-> 0]

NoTimes == [nextFlush |-> 0, paused |-> 0, backoffUntil |-> 0, backoff |-> MinBackoff]

NoThreads == [f \in Flushers |-> [pc |-> "none", at |-> 0, batch |-> NoBatch]]

Init ==
    /\ now = 0
    /\ request = [r \in Requests |-> [pc |-> "running", at |-> 0]]
    /\ events = <<>> /\ store = NoItems /\ timing = NoTimes
    /\ urgent = FALSE /\ wake = FALSE /\ stop = FALSE
    /\ disabled = FALSE /\ closed = FALSE
    /\ flushLock = "free" /\ flusher = NoThreads
    /\ acked = [events |-> {}, counts |-> {}]
    /\ reported = 0

-----------------------------------------------------------------------------
(* The windows.  Each operator is one _locked method, on the store. *)
RowsOf(windows) == UNION {ToSet(windows[i].rows) : i \in DOMAIN windows}

Size(windows) == Cardinality(RowsOf(windows))

(* From the oldest: windows past their age, then as many as the cap asks.  *)
PruneWindows(s, t) ==
    LET Old(n)   == \A i \in 1..n : t - s.closed[i].start > Retention
        Fits(n)  == s.retained - Size(SubSeq(s.closed, 1, n)) <= MaxRetained
        aged     == CHOOSE n \in 0..Len(s.closed) :
                       Old(n) /\ \A m \in n+1..Len(s.closed) : ~Old(m)
        gone     == CHOOSE n \in aged..Len(s.closed) :
                       /\ Fits(n) \/ n = Len(s.closed)
                       /\ \A m \in aged..n-1 : ~Fits(m)
        rows     == Size(SubSeq(s.closed, 1, gone))
    IN  [s EXCEPT !.closed = SubSeq(@, gone + 1, Len(@)),
                  !.retained = @ - rows,
                  !.dropped = @ + rows]

CloseWindow(s, t) ==
    IF s.current = <<>> THEN s
    ELSE PruneWindows(
            [s EXCEPT !.closed = Append(@, [start |-> s.start, rows |-> s.current]),
                      !.retained = @ + Len(s.current),
                      !.current = <<>>,
                      !.start = t], t)

(* Mutant: a request does not look whether its minute began. *)
RollOnlyWhenFlushed(s, t) == IF s.start = -1 THEN [s EXCEPT !.start = t] ELSE s

(* start = -1 stands for None. *)
RollWindow(s, t) ==
    IF t > s.start THEN [CloseWindow(s, t) EXCEPT !.start = t] ELSE s

-----------------------------------------------------------------------------
(* on_request *)
FinishRequest(r) ==
    /\ request[r].pc = "running"
    /\ \E kind \in Kinds, key \in Keys :
          request' = [request EXCEPT ![r] =
              [pc |-> "recording", at |-> now, kind |-> kind, key |-> key]]
    /\ UNCHANGED <<now, events, store, timing, urgent, wake, stop, disabled,
                   closed, flushLock, flusher, acked, reported>>

Overflow == Len(events) >= MaxEvents

(* Mutant: the oldest event goes. *)
DropOldest == Tail(events)

(* The oldest success goes, or else the oldest event. *)
DropBuffered ==
    LET success == SelectInSeq(events, LAMBDA e : e.kind = "ok")
    IN  RemoveAt(events, IF success > 0 THEN success ELSE 1)

(* _append_event_locked, on a deque that holds MaxEvents. *)
AppendEvent(e) ==
    LET all == Append(IF Overflow THEN DropBuffered ELSE events, e)
    IN  IF Len(all) > MaxEvents THEN Tail(all) ELSE all

Record(r) ==
    LET e == request[r]
        s == RollWindow(store, e.at)
        counted == [s EXCEPT !.current = Count(@, e.key, {r})]
    IN  IF e.kind = "none"
        THEN store' = counted /\ UNCHANGED events
        ELSE /\ events' = AppendEvent([request |-> r, kind |-> e.kind])
             /\ store' = IF Overflow THEN [counted EXCEPT !.dropped = @ + 1] ELSE counted

Accepts == ~disabled /\ ~closed

(* Mutant: asking for a flush does not wake the worker. *)
WakesNobody(flushNow) == FALSE

WakesWorker(flushNow) == flushNow

RecordRequest(r) ==
    /\ request[r].pc = "recording"
    /\ request' = [request EXCEPT ![r].pc = IF Accepts THEN "recorded" ELSE "ignored"]
    /\ IF Accepts
       THEN /\ Record(r)
            /\ LET starts == flusher["worker"].pc = "none"
                   flushNow == Len(events') + store'.retained + Len(store'.current)
                                 >= UrgentSize
               IN  /\ flusher' = IF starts
                                 THEN [flusher EXCEPT !["worker"].pc = "top"]
                                 ELSE flusher
                   /\ timing' = IF starts
                                THEN [timing EXCEPT !.nextFlush = request[r].at + FlushMinutes]
                                ELSE timing
                   /\ urgent' = (urgent \/ flushNow)
                   /\ wake' = (wake \/ WakesWorker(flushNow))
       ELSE UNCHANGED <<events, store, flusher, timing, urgent, wake>>
    /\ UNCHANGED <<now, stop, disabled, closed, flushLock, acked, reported>>

-----------------------------------------------------------------------------
BlockedUntil == IF timing.paused > timing.backoffUntil
                THEN timing.paused ELSE timing.backoffUntil

Deadline == IF timing.nextFlush > BlockedUntil
            THEN timing.nextFlush ELSE BlockedUntil

(* The worker's loop: look at the deadlines, and flush or wait. *)
WorkerTop ==
    LET isUrgent == urgent /\ now >= BlockedUntil
    IN  /\ flusher["worker"].pc = "top"
        /\ \/ /\ stop
              /\ flusher' = [flusher EXCEPT !["worker"].pc = "exited"]
              /\ UNCHANGED urgent
           \/ /\ ~stop
              /\ urgent' = (urgent /\ ~isUrgent)
              /\ flusher' = [flusher EXCEPT
                    !["worker"].pc = IF isUrgent \/ now >= Deadline THEN "want" ELSE "wait",
                    !["worker"].at = Deadline]
        /\ UNCHANGED <<now, request, events, store, timing, wake, stop, disabled,
                       closed, flushLock, acked, reported>>

WorkerWakes ==
    /\ flusher["worker"].pc = "wait"
    /\ wake \/ now >= flusher["worker"].at
    /\ flusher' = [flusher EXCEPT !["worker"].pc = "clear"]
    /\ UNCHANGED <<now, request, events, store, timing, urgent, wake, stop, disabled,
                   closed, flushLock, acked, reported>>

WorkerClears ==
    /\ flusher["worker"].pc = "clear"
    /\ wake' = FALSE
    /\ flusher' = [flusher EXCEPT !["worker"].pc = "top"]
    /\ UNCHANGED <<now, request, events, store, timing, urgent, stop, disabled,
                   closed, flushLock, acked, reported>>

WorkerRests ==
    /\ flusher["worker"].pc = "rest"
    /\ timing' = [timing EXCEPT !.nextFlush = now + FlushMinutes]
    /\ flusher' = [flusher EXCEPT !["worker"].pc = "top"]
    /\ UNCHANGED <<now, request, events, store, urgent, wake, stop, disabled,
                   closed, flushLock, acked, reported>>

-----------------------------------------------------------------------------
(* _flush_once, by either flusher f. *)
After(f) == IF f = "worker" THEN "rest" ELSE "exited"

Leave(f) ==
    /\ flushLock' = "free"
    /\ flusher' = [flusher EXCEPT ![f].pc = After(f), ![f].batch = NoBatch]

(* Mutant: the thread of close() does not wait for a flush that is going on. *)
LockIsFreeFor(f) == flushLock = "free" \/ f = "final"

MayLock(f) == flushLock = "free"

(* Mutant: a backoff is forgotten when the reporter is closing. *)
BlockedUnlessClosing == disabled \/ (now < BlockedUntil /\ ~closed)

MustNotFlush == disabled \/ now < BlockedUntil

(* Take the flush lock, read the clock, see whether flushing is allowed.   *)
BeginFlush(f) ==
    /\ flusher[f].pc = "want"
    /\ MayLock(f)
    /\ IF MustNotFlush
       THEN Leave(f)
       ELSE /\ flushLock' = f
            /\ flusher' = [flusher EXCEPT ![f].pc = "select", ![f].at = now]
    /\ UNCHANGED <<now, request, events, store, timing, urgent, wake, stop, disabled,
                   closed, acked, reported>>

PrefixesUpTo(seq, limit) == {p \in Prefixes(seq) : Len(p) <= limit}

(* Windows are closed and pruned at the time read before the lock.  A      *)
(* batch too long to send loses events from its end, and counters only     *)
(* when it has no event left.  Without an API key there is no flush.       *)
SelectBatch(f) ==
    LET rolled == RollWindow(store, flusher[f].at)
        ready  == PruneWindows(CloseWindow(rolled, flusher[f].at), flusher[f].at)
        rows   == FlattenSeq([i \in DOMAIN ready.closed |-> ready.closed[i].rows])
        allRows == IF Len(rows) > MaxBatchRows THEN MaxBatchRows ELSE Len(rows)
    IN  /\ flusher[f].pc = "select"
        /\ \/ Leave(f) /\ UNCHANGED store
           \/ /\ store' = ready
              /\ \/ /\ events = <<>> /\ rows = <<>>
                    /\ Leave(f)
                 \/ /\ \E es \in PrefixesUpTo(events, MaxBatchEvents),
                          rs \in PrefixesUpTo(rows, MaxBatchRows) :
                          /\ es # <<>> => Len(rs) = allRows
                          /\ es # <<>> \/ rs # <<>>
                          /\ flusher' = [flusher EXCEPT
                                ![f].pc = "flight",
                                ![f].batch = [events  |-> {es[i].request : i \in DOMAIN es},
                                              rows    |-> ToSet(rs),
                                              dropped |-> ready.dropped]]
                    /\ UNCHANGED flushLock
        /\ UNCHANGED <<now, request, events, timing, urgent, wake, stop, disabled,
                       closed, acked, reported>>

-----------------------------------------------------------------------------
(* _handle_response, when the answer to f's batch is there. *)
Without(seq, gone) ==
    FlattenSeq([i \in DOMAIN seq |-> IF seq[i] \in gone THEN <<>> ELSE <<seq[i]>>])

WithoutRows(windows, rows) ==
    LET left == [i \in DOMAIN windows |-> [windows[i] EXCEPT !.rows = Without(@, rows)]]
    IN  Without(left, {left[i] : i \in {j \in DOMAIN windows : left[j].rows = <<>>}})

(* _remove_selected_locked, in two parts.  The size of every selected      *)
(* window is taken from retained again, also of one that was pruned in the *)
(* meantime.                                                               *)
EventsWithout(batch) ==
    Without(events, {e \in ToSet(events) : e.request \in batch.events})

StoreWithout(batch) ==
    [store EXCEPT !.closed = WithoutRows(@, batch.rows),
                  !.retained = @ - Cardinality(batch.rows)]

(* Mutant: what was dropped while the batch was on its way is forgotten. *)
DroppedIsReset(batch) == 0

DroppedAfter(batch) ==
    IF store.dropped > batch.dropped THEN store.dropped - batch.dropped ELSE 0

(* 202; the server's policy may ask for a pause. *)
Accepted(f) ==
    LET batch == flusher[f].batch IN
    /\ flusher[f].pc = "flight"
    /\ events' = EventsWithout(batch)
    /\ store' = [StoreWithout(batch) EXCEPT !.dropped = DroppedAfter(batch)]
    /\ \E pause \in 0..1 :
          timing' = [timing EXCEPT !.backoff = MinBackoff, !.backoffUntil = 0,
                        !.paused = IF @ > now + pause THEN @ ELSE now + pause]
    /\ acked' = [events |-> acked.events \cup batch.events,
                 counts |-> acked.counts \cup UNION {row.requests : row \in batch.rows}]
    /\ reported' = reported + batch.dropped
    /\ Leave(f)
    /\ UNCHANGED <<now, request, urgent, wake, stop, disabled, closed>>

(* "off" in a header, or 400, 401, 403, 404, 410. *)
Disable(f) ==
    /\ flusher[f].pc = "flight"
    /\ disabled' = TRUE /\ stop' = TRUE /\ wake' = TRUE
    /\ events' = <<>>
    /\ store' = [store EXCEPT !.current = <<>>, !.closed = <<>>,
                              !.retained = 0, !.dropped = 0]
    /\ Leave(f)
    /\ UNCHANGED <<now, request, timing, urgent, closed, acked, reported>>

(* 413: the batch is given up. *)
TooLarge(f) ==
    LET batch == flusher[f].batch IN
    /\ flusher[f].pc = "flight"
    /\ events' = EventsWithout(batch)
    /\ store' = [StoreWithout(batch) EXCEPT
                    !.dropped = @ + Cardinality(batch.events) + Cardinality(batch.rows)]
    /\ Leave(f)
    /\ UNCHANGED <<now, request, timing, urgent, wake, stop, disabled, closed,
                   acked, reported>>

(* Any other status, perhaps with Retry-After, or no answer at all.  (A    *)
(* longer Retry-After than MaxBackoff is cut to it.)                       *)
BackOff(f) ==
    /\ flusher[f].pc = "flight"
    /\ \E retryAfter \in 0..MaxBackoff :
          LET delay == IF retryAfter > timing.backoff THEN retryAfter ELSE timing.backoff
          IN  timing' = [timing EXCEPT
                 !.backoffUntil = now + (IF delay > MaxBackoff THEN MaxBackoff ELSE delay),
                 !.backoff = IF 2 * @ > MaxBackoff THEN MaxBackoff
                             ELSE IF 2 * @ < MinBackoff THEN MinBackoff ELSE 2 * @]
    /\ wake' = TRUE
    /\ Leave(f)
    /\ UNCHANGED <<now, request, events, store, urgent, stop, disabled, closed,
                   acked, reported>>

-----------------------------------------------------------------------------
(* Mutant: a worker that waits is not woken by close(). *)
CloseWithoutWaking ==
    /\ ~closed
    /\ closed' = TRUE /\ stop' = TRUE
    /\ flusher' = [flusher EXCEPT !["final"].pc = "want"]
    /\ UNCHANGED <<now, request, events, store, timing, urgent, wake, disabled,
                   flushLock, acked, reported>>

Close ==
    /\ ~closed
    /\ closed' = TRUE /\ stop' = TRUE /\ wake' = TRUE
    /\ flusher' = [flusher EXCEPT !["final"].pc = "want"]
    /\ UNCHANGED <<now, request, events, store, timing, urgent, disabled,
                   flushLock, acked, reported>>

(* The child of a fork (_reset_after_fork): the reporter starts anew,      *)
(* whatever the parent's was doing, and what the parent recorded is the    *)
(* parent's to deliver.  Of the requests at most the forking thread's own  *)
(* goes on in the child.                                                   *)
Fork ==
    /\ events' = <<>> /\ store' = NoItems /\ timing' = NoTimes
    /\ urgent' = FALSE /\ wake' = FALSE /\ stop' = FALSE
    /\ disabled' = FALSE /\ closed' = FALSE
    /\ flushLock' = "free" /\ flusher' = NoThreads
    /\ \E survivor \in Requests :
          request' = [r \in Requests |->
              IF request[r].pc = "recorded" \/ (r = survivor /\ request[r].pc = "running")
              THEN request[r]
              ELSE [request[r] EXCEPT !.pc = "ignored"]]
    /\ acked' = LET parents == {r \in Requests : request[r].pc = "recorded"}
                IN  [events |-> parents, counts |-> parents]
    /\ UNCHANGED <<now, reported>>

Tick ==
    /\ now < MaxTime
    /\ now' = now + 1
    /\ UNCHANGED <<request, events, store, timing, urgent, wake, stop, disabled,
                   closed, flushLock, flusher, acked, reported>>

Flush(f) ==
    \/ BeginFlush(f)
    \/ SelectBatch(f)
    \/ Accepted(f)
    \/ Disable(f)
    \/ TooLarge(f)
    \/ BackOff(f)

Worker == WorkerTop \/ WorkerWakes \/ WorkerClears \/ WorkerRests \/ Flush("worker")

Next ==
    \/ \E r \in Requests : FinishRequest(r) \/ RecordRequest(r)
    \/ Worker
    \/ Flush("final")
    \/ Close
    \/ Fork
    \/ Tick

Spec == Init /\ [][Next]_vars

(* The reporter's threads are scheduled, and its HTTP client times out.    *)
(* Neither requests, nor close(), nor the passing of time is promised.     *)
FairSpec == Spec /\ WF_vars(Worker) /\ WF_vars(Flush("final"))

-----------------------------------------------------------------------------
Buffered == {events[i].request : i \in DOMAIN events}

Rows == RowsOf(store.closed) \cup ToSet(store.current)

Counted == UNION {row.requests : row \in Rows}

Recorded == {r \in Requests : request[r].pc = "recorded"}

ReporterTypeOK ==
    /\ now \in 0..MaxTime
    /\ \A r \in Requests : request[r].pc \in {"running", "recording", "recorded", "ignored"}
    /\ Len(events) <= MaxEvents /\ Buffered \subseteq Recorded
    /\ Counted \subseteq Recorded
    /\ store.start \in -1..MaxTime /\ store.dropped \in Nat
    /\ flushLock \in Flushers \cup {"free"}
    /\ \A f \in Flushers : flusher[f].pc \in
          {"none", "top", "wait", "clear", "want", "select", "flight", "rest", "exited"}

(* What is recorded is delivered, still held, or counted as dropped: when  *)
(* nothing was switched off, a lost item is one the server is or will be   *)
(* told of, also when it was lost while a report was on its way.           *)
LossIsReported ==
    ~disabled =>
        LET lostEvents == {r \in Recorded : request[r].kind # "none"}
                             \ (Buffered \cup acked.events)
            lostCounts == Recorded \ (Counted \cup acked.counts)
        IN  Cardinality(lostEvents) + (IF lostCounts = {} THEN 0 ELSE 1)
               <= reported + store.dropped

(* What the server confirmed is neither held nor on its way a second time, *)
(* and no request is counted in two rows.                                  *)
ConfirmedIsDone ==
    /\ acked.events \cap Buffered = {} /\ acked.counts \cap Counted = {}
    /\ \A f \in Flushers :
          /\ flusher[f].batch.events \cap acked.events = {}
          /\ \A row \in flusher[f].batch.rows : row.requests \cap acked.counts = {}
    /\ \A one, other \in Rows : one # other => one.requests \cap other.requests = {}

(* Though a flusher and every request read the clock before they take the  *)
(* lock, no request is counted in a minute before the one it ended in.     *)
NotBackdated ==
    /\ ReporterTypeOK
    /\ \A row \in ToSet(store.current) : \A r \in row.requests :
          request[r].at <= store.start
    /\ \A i \in DOMAIN store.closed : \A row \in ToSet(store.closed[i].rows) :
          \A r \in row.requests : request[r].at <= store.closed[i].start

(* No batch leaves during a pause or a backoff, nor after the server       *)
(* switched telemetry off, nor while another is on its way; the last one,  *)
(* of close(), included (README, "sends one bounded batch at a time").     *)
PausesAreHonoured ==
    [][\A f \in Flushers :
          flusher[f].pc # "flight" /\ flusher'[f].pc = "flight" =>
              /\ now >= BlockedUntil /\ ~disabled
              /\ \A g \in Flushers : flusher[g].pc # "flight"]_vars

(* When the buffer is full a failure is dropped only if no success is left *)
(* to drop: what diagnoses an outage survives the traffic around it.       *)
FailuresOutliveSuccesses ==
    [][\A i, j \in DOMAIN events :
          /\ \E r \in Requests : request[r].pc # request'[r].pc /\ request'[r].pc = "recorded"
          /\ events[i].kind = "failure" /\ events[i].request \notin Buffered'
          => events[j].kind = "failure"]_vars

(* After close() both threads end, whatever they were waiting for.         *)
ThreadsStop ==
    closed ~> \A f \in Flushers : flusher[f].pc \in {"none", "exited"}

(* What is full is flushed at once: when a request finished after the last *)
(* pause and the buffers are at the urgent size, the worker flushes        *)
(* without waiting for time to pass, unless the server or the shutdown     *)
(* forbids it by then.  A flush asked for during a pause waits for the     *)
(* worker's deadline, which is the next regular flush when that is later:  *)
(* nothing wakes the worker when a pause is over.                          *)
Served ==
    flusher["worker"].pc \in {"want", "none"} \/ stop \/ now < BlockedUntil

FullSincePause ==
    /\ Len(events) + store.retained + Len(store.current) >= UrgentSize
    /\ \E r \in Recorded : request[r].at >= BlockedUntil

UrgentIsServed ==
    /\ urgent /\ FullSincePause ~> Served
    /\ urgent /\ now >= Deadline ~> Served

-----------------------------------------------------------------------------
(* What the README says: counters are retained for up to 512 KiB.          *)
RetentionIsBounded == Size(store.closed) <= MaxRetained
=============================================================================
