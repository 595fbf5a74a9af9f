# Verification of the TrustedRouter Python client

TLA+ models of `src/src/trustedrouter/` (paths below are relative to that
directory unless they start with `src/`), the TLC configurations that check
them, and TLAPS proofs about the core. `PROJECT.json` maps every definition that
models code to the lines it models.

The client is a library: application threads (or asyncio tasks) call it, and it
talks to gateways it does not control. What is hard about it is not any single
function but the promises it makes over *sequences*: a mutation that is retried
over several hosts is charged once; a stream is never silently repeated; a
telemetry event is made once whatever interrupts the call; evidence is never
taken from an earlier request on the same connection.

## 1. The system

| Component | Code | State it keeps | Operations | Talks to |
|---|---|---|---|---|
| Retry and failover policy | `_retry.py`, `_headers.py` | `RetryController`: attempt counter, candidate index | `on_response`, `on_transport_error`, `current_base_url` | asked by the transport |
| Transport engine | `_transport.py` | the loop of one logical call | `request_with_retry`, `stream_events` and async twins | policy, hosts, recorder, SSE codec |
| Request recorder | `_telemetry.py` (`RequestRecorder`) | attempt records, moved and exhausted flags | `begin_attempt`, `on_response`, `on_transport_error`, `on_moved`, `on_aborted`, `finish`, `header_value` | called by the drivers; hands one event to the reporter |
| Candidate hosts | `_routing.py` | base URL list, "race pending" flag, lock | `current()`, the health race | read by every attempt, shared by all callers of a client |
| Telemetry reporter | `_telemetry.py` (`TelemetryReporter`) | event buffer, counter windows, backoff, pause, disable; worker thread | `on_request`, `_flush_once`, `_worker`, `close`, `_reset_after_fork` | request threads, worker, closing thread, telemetry endpoint |
| SSE codecs, collector | `_sse.py`, `_collect.py` | pending frame, `[DONE]` flag, completion under construction | chunk and event codec, text stream, collector | fed by the transport |
| Attested session | `session.py` | one TLS connection and its byte stream | `verify_gateway_session`, `fetch_attestation_again` | gateway, attestation check |
| Attestation | `attestation.py` | policies (immutable) | `policy_from_trust_release`, live, document and receipt-key checks | session, receipts, application |
| Receipts | `receipts.py` | bytes of a captured stream, the receipt found in it | `ReceiptCapture`, `verify_receipt` | application, attestation |
| Client facades | `_client_sync.py`, `_client_async.py`, `client.py` | the pool, the reporter, the httpx client | one method per endpoint, `close` | everything above, and the application when it lent the httpx client |
| Errors | `_errors.py` | none | which exception a failure becomes | transport |
| Request building | `_requests.py` | the request hooks of an httpx client | headers, bodies, credentials, `_install_reserved_header_hook` | facades, hosts' health race, OAuth |
| OAuth, orchestration, models, CLI | `oauth.py`, `_orchestration.py`, `models.py`, `__main__.py` | none | helpers | application |

What is hard, by component:

* **Transport, policy.** A send whose answer was lost may have run, or may run
  after the retry. Retrying, moving to another host and giving up are three
  decisions drawn from one state; a `x-should-retry` header overrides the status;
  a stream must not be re-opened once something was yielded. Correct means: one
  charge per mutation, an exact budget, justified moves.
* **Recorder.** Hooks are called from inside the loop; an interrupt can fall
  between any two. Correct means: at most one event, and one that says what the
  wire saw.
* **Candidate hosts.** Shared by threads; a race replaces the list under a lock
  while others start. Correct means: an index keeps its meaning and its bound
  during a call, and no caller hangs.
* **Shared client.** First calls race to make the reporter; a lent httpx client is
  also the application's, and both write its list of hooks; `close()`, a fork and
  an assignment of another client come at any time. Correct means: one reporter,
  which `close()` finds; no credential and no foreign `x-tr-client` on the wire.
* **Reporter.** Many request threads, a worker, a closing thread; the lock is
  released while a batch is on the wire, and the clock is read before a lock is
  taken. Correct means: loss is bounded and reported, confirmed items are not
  sent again, pauses are honoured, threads stop.
* **Codecs.** A stream can be cut, broken or reported failed at any line. Correct
  means: a cut answer never looks whole.
* **Session, attestation, receipts.** Bytes cut anywhere, late answers, evidence
  made for somebody else, options that switch checks off. Correct means: what is
  accepted is fresh, bound to the caller, and whole.

`PROJECT.json`, `hazards`, lists the places where this bites, each with the
property that covers it or the reason none does.

## 2. The modules

| Module | Models | Role |
|---|---|---|
| `RetryPolicy` | `_retry.py`, the replay rules of `_transport.py` | operators: decisions as functions of (controller, budget, outcome) |
| `Transport` | both drivers, gateways | state machine of one call |
| `LogicalCall` | what a caller is promised | abstract specification, refined by `Transport` |
| `RecordedCall`, `MC_RecordedCall` | `RequestRecorder` | composition: every driver action with the hooks it calls and the sleep it decides |
| `RetryDelay` | the sleep of `_retry.py`, `_headers.py` | operators: from the hints of an answer to a delay |
| `RecordedCall_proofs` | | theorems about a call and its resends, the refinement, the sleep, and what is recorded of a call |
| `BaseUrlPool` | `_routing.py` and its use by the facades | several callers, one pool |
| `RequestHeaders` | the headers and hooks of `_requests.py` | operators: who wrote which header on the wire |
| `SharedClient`, `MC_SharedClient` | `_client_sync.py`, `_client_async.py` | composition of the last two with the reporter's making, `close()`, lent clients and forks |
| `SharedClient_proofs` | | theorems about its reporter, its hosts, its hooks and what reaches the wire |
| `CounterFold` | the counter windows' folding | operators shared by the next two |
| `CounterWindow` | one window | all orders of counting |
| `CounterWindow_proofs` | | lemmas about folding, and theorems about a window |
| `TelemetryReporter`, `MC_TelemetryReporter` | `TelemetryReporter` | request threads, worker, final flusher, server, clock |
| `TelemetryReporter_proofs` | | theorems about the reporter, and the sequence lemmas they need |
| `StreamCodec` | `_sse.py` | both codecs over the lines of a response |
| `Completion`, `MC_Completion` | `_collect.py`, `chat_completions`, the text stream | composition over `StreamCodec` |
| `Completion_proofs` | | theorems about the codecs, the collector and the text stream |
| `GatewaySession` | `session.py` | a connection and its fetches |
| `GatewaySession_proofs` | | theorems about them |
| `Attestation`, `MC_Attestation` | `attestation.py` | tokens, policies and checks |
| `Attestation_proofs` | | theorems about them |
| `Receipts`, `MC_Receipts` | `receipts.py` | captures and verification |
| `Receipts_proofs` | | theorems about both |

Operators whose comment begins with *Mutant* stand before the definition they
distort; they are plausible bugs of the code, not part of the model. Each
checked property of a passing run names one that violates it.

### How state and actions correspond to the code

**Transport.** `ctl` is the `RetryController`; `tries` is a history the code does
not keep (each send, its host and key, what happened to it at the other end and
what the client saw of it). `pc` is the place in the loop: `attempt` (head of the
loop), `wait` (sending), `drain` and `raise` (reading the body of an error
response, to discard or to raise it), `body` (yielding), `sleep`, `done`.
`ConnectionFails` is the three httpx errors that `_transport_failed_before_send`
names; `TransportFails` is every other `TransportError` before the response is
open, which may leave the request queued at a gateway, where `GatewayRuns` and
`GatewayRefuses` act on it at any later time. The async drivers have the same
actions; a cancellation is `Abort`.

**RecordedCall** conjoins to each action of `Transport` the hooks the driver calls
in it, and to each that ends a call the `finish()` of the driver's `finally`. Every
decision to retry draws a sleep: `DecideSleep` takes the smallest or the largest
jitter of the attempt and the hints the answer carried.

**RetryDelay.** Milliseconds. A header is what `float()` makes of it: a number, not
finite, junk (dates and joined duplicates among it) or absent.

**BaseUrlPool.** A caller's `pc` follows `BaseUrlPool.current`: read the client,
look at `pending`, wait for the lock, look again, race. The race is modelled by
its outcome (a region or none, each possible). `SwapClient` is the assignment of
another httpx client, after which the list is static (except that a race still
running replaces it).

**RequestHeaders.** A header is known by who wrote it. `OnTheWire` is httpx's
order: its own defaults below the request's headers, the `Auth` flow unless it was
switched off, then the request hooks one after the other. Any hook and any `Auth`
that is not the SDK's may write anything.

**SharedClient.** Each caller makes one call: over the pool and recorded
(`inference`), to the control host (`control`), without credentials (`metadata`),
or without the SDK's marker (`unmarked`: the application's own traffic, and
`fetch_userinfo`). `facade[c].stage` is where a caller is in `_recorder`
(`fresh`, `making`, `owning`) or that he began to install the hook; then
`BaseUrlPool`'s actions take over. `installs` has, for each thread that can be inside
`_install_reserved_header_hook` (callers, and the race's threads: `StartProbe`), which
of its unlocked accesses comes next: `look` (take the list and look for the hook),
`append` (to the list it took, which may have been replaced since: `stale`), `copy`,
`assign`. A race sends any number of probes, also late ones that go on when it is over. The sync client looks for its reporter and then reads the pool, which
is the order modelled; the async one reads the pool first. Threads are modelled;
asyncio tasks have fewer interleavings. `Fork` keeps the memory and drops the threads.

**TelemetryReporter.** One action is one critical section or one network call.
`FinishRequest` reads the clock, `RecordRequest` takes the lock; a flusher goes
through `top`, `wait`, `clear` (the worker's event), `want` (the flush lock),
`select`, `flight` (no lock held) and the treatment of the answer. Rows and events
are known by the set of requests they stand for, which lets properties speak of
loss and repetition where the code keeps numbers. `Fork` is
`_reset_after_fork` in the child: what is buffered or on the wire there is gone,
what was confirmed stays confirmed, and a closed or disabled reporter is open
again.

**StreamCodec.** A line is known by its position in the stream, and is a blank, `[DONE]`,
a data line of some kind, an event name, a comment or `data:` alone. `frame` is the list
the event codec collects, as the set of its lines; an item of `surfaced` names the
lines it is made of and the line its event name came from. `ChunkLine` and `EventLine`
are the bodies of the two loops, `EndOfLines` what stands behind them.

**Completion.** A piece of text is known by where it was said: `<<line, ordinal>>`. The
collector's loops are actions: `TakeChunk` is the head of the loop over chunks,
`TakeEntry` one round of the loop over a chunk's choices, `Return` what follows them;
`work` has their locals (`choices_by_index`, `usage`, and how far they are). They begin
once the list of chunks is complete, and `StreamRaises` is a list that never is. `Listen`
is conjoined to each step of the codec: `chat_completions_stream` hands `_delta_text`
every chunk as it comes.

**GatewaySession.** An answer is cut where the reader tells parts apart (status
line, headers, two halves of a body); `Receive` takes any nonempty prefix of what
was sent, and every operation may find its deadline passed.

**Attestation.** Hex strings are what they stand for. The gateway puts the nonce,
its connection's exporter and its certificate in a token; another workload puts
what it likes. The caller's connection ends at the gateway or at somebody who has
one of his own to it.

**Receipts.** A digest is the sequence of lines it was fed, so that two digests are
equal only for equal lines; the lines of a stream are cut into chunks anywhere.

### Assumptions about the outside

* A gateway answers 2xx only for a request that ran, and never says
  `x-should-retry: true` of a keyless request that ran (`HonestReply`); it settles
  once per `Idempotency-Key` (`ChargeId`). Without the first the client cannot
  know; the second is what the header means to the client (`_retry.py:96`).
* Nothing is assumed about *when* a gateway acts, or whether it ever does.
* Nonces are not guessed, and digests and signatures are not forged.

## 3. Runs

| Run | Bounds | What it shows |
|---|---|---|
| `RecordedCall` | budget of 3 sends, 2 hosts, 1 stream item, statuses 200, 302, 400, 500, 502; five pairs of `retry-after` headers; 0.6 million states | all kinds of call against all behaviours of gateways and interrupts, and every sleep in between |
| `Transport_unseen` | the same | finding 1 |
| `RecordedCall_retained` | budget of 2 sends | finding 2 |
| `SharedClient` | 2 callers, five mixes of kinds of call, 1 region, 1 alias, 2 sends, 1 thread of the race; 1.0 million states | concurrent first use, interrupts in the race, swapped and lent clients, two threads that install the hook, `close()`, a fork |
| `CounterWindow` | 4 requests, 2 rows, 2 endpoints, 3 error classes, 2 families | every order of folding |
| `TelemetryReporter` | 3 requests, 2 buffered events, batches of 1 event and 1 row, 1 retained row, 2 minutes; 1.2 million states | every interleaving of request threads, worker, close, a fork and answers |
| `TelemetryReporter_live` | 2 requests, 1 event, 2 minutes, a flush every 2, pauses of 1 and 2 | progress |
| `TelemetryReporter_retention` | 3 requests, 3 minutes | finding 3 |
| `Completion` | streams of 4 lines; 1.2 million states | both codecs, collector and text stream |
| `GatewaySession` | 3 fetches over one connection | lateness, cuts, failures |
| `Receipts` | streams of 4 events, at most 2 in a chunk, 2 receipts; 1.5 million states | captures, and all options of `verify_receipt` |
| `Attestation` | 2 nonces, 3 builds, 5 releases | all tokens against all checks |

Why the bounds suffice. The policy separates statuses into success, not
retried, retried in place and retried with a move: 200, 400, 500 and 502 are one
of each; 302 is an answer that is neither an error nor final where a
`x-should-retry` header says so. Three sends over two hosts give a retry in place, a move, and a retry at
the end of the list. Two callers are enough for a client because what they share
is two locks, each taken by one at a time, a flag, a list of hosts and a list
of hooks. The mixes of kinds are those that meet in one of these; two installations
overlap as that of a call and that of a race's thread, and as those of two calls. Two sends over
a list of one to three hosts give a move and the end of the budget, and a list that is
shorter than, as long as and longer than the sends. The hints are
one of each kind, alone, in conflict, and one that the other must replace.
The reporter meets each of its limits: the buffer, the batch, the retained bytes and the retention time are all smaller than what
three requests produce (counters retained for zero minutes, so that one minute
ages a window). Two rows with three error classes in two families reach every
branch of the folding. Four lines are the smallest stream with a frame before and
one behind `[DONE]` and a chunk on each side of an error; two entries in a chunk
give every interleaving of two choices. A third fetch can read the late answer of
the first after the second failed.

Of the live run: a pause of one minute ends before the next regular flush is due, so
that a flush asked for during it waits beyond its end; one of two minutes does not.
In `Receipts` the event that carries the receipt has any name and other members as
they were sent or others, and `[DONE]` any name.

Deadlock checking is off in every run: all of these systems stop, a call when it
returns, a reporter when it is closed. That a shared client, the reporter's threads and
a session's fetches do not stop early is what the liveness properties say.

### What the properties say

* *Calls:* `ChargedAtMostOnce`, `KeylessResendIsDead`,
  `ResendsAreJustified` (a spent response is final, moves are justified, dead hosts
  are walked in order), `BudgetIsSpentExactly`, `SleepsAreBounded`, `PromiseKept`
  (the refinement of `LogicalCall`).
* *Recorder:* `EventMatchesWire`, `ExhaustedMeansBudgetSpent`,
  `HeaderTellsPreviousTry`.
* *Shared client:* `ListIsWalked`, `SharedStateIsStable`, `OneReporter`,
  `WireIsOurs`, `CallsEnd`.
* *Reporter:* `LossIsReported`, `ConfirmedIsDone`, `NotBackdated`,
  `PausesAreHonoured`, `FailuresOutliveSuccesses`, `ThreadsStop`, `UrgentIsServed`;
  for its windows `CountedOnce` and `FoldsStayInTheFamily`.
* *Streams:* `SurfacedInOrder`, `CompletedIsWhole`, `CollectedIsSaid`,
  `TextStreamAgrees`.
* *Evidence:* `AcceptedIsFresh`, `PinnedStreamIsInStep`, `NothingLeaks`,
  `FetchesEnd`; `OnlyPublishedImages`, `BindingIsEndToEnd`, `DocumentIsOnlyFresh`,
  `HonestIsVerified`; `VerifiedIsUntouched`, `VerifiedIsBound`,
  `EvidenceIsNeverAssumed`.

Three of them claim less than one might read into them. `UrgentIsServed`: a flush that is asked for
outside a pause comes at once; one asked for during a pause comes at the worker's
deadline, the latest of pause, backoff and regular flush (`_telemetry.py:1173-1186`),
because nothing wakes the worker when a pause is over. `SharedStateIsStable`: the SDK's
hook may stand in a list several times (two threads look before either appends, which
changes nothing on the wire), and a list the application assigned can be replaced by
the one an installation copied before. `VerifiedIsUntouched`: a receipt covers the
data events before it, their number and order, and that it and `[DONE]` end the stream.
The other members of the event that carries it (its `choices`) and the names of these
two events are in no hash, and a stream in which they were changed verifies.

Each is stated in words above its definition. A module's type invariant is
checked with one of its state invariants (`ListIsWalked`, `CountedOnce`,
`NotBackdated`, `SurfacedInOrder`, `NothingLeaks`, `VerifiedIsUntouched`,
`OnlyPublishedImages`); that of `Transport` is checked, and proved, by itself.

## 4. Fairness

* `Transport`, `RecordedCall`: none. That one call ends is not claimed: httpx's
  timeouts are per read, so that a body which drips on never meets one, and a
  streaming generator moves when its consumer asks for the next item. What the code
  does bound is the number of sends (`BudgetIsSpentExactly`, `PromiseKept`).
* `SharedClient`: weak fairness of each caller. It assumes that a request is answered
  or fails in the end, which a body that drips on would not do; the property is about
  the client's locks and its race. Each lock is waited for at most once in a call, so
  that who gets it does not matter. Probes of the race need no fairness: nobody waits
  for one that goes on. Nobody has to close, swap, fork or write hooks. `CallsEnd` has
  one exception, `HeldByNobody`: the child of a fork made while another thread held
  one of the client's locks. `register_at_fork` renews the locks of the reporter,
  not those of the client.
* `TelemetryReporter`: weak fairness of the worker and of the final flusher, which
  are threads; none of requests, of `close()` or of time. `Event.wait` has a
  timeout, and a POST has one.
* `GatewaySession`: weak fairness of the client: every operation has a deadline.
  None of the gateway.

## 5. Findings

1. **Moving host after a transport error** (`Transport_unseen`). `_retry.py:44` and
   `:308` say that no server saw the request, so that moving is always safe. The
   policy is asked for every `TransportError` of a request that may be replayed,
   read and write errors included: the run shows a mutation that one host ran and
   that is then sent to another. With an `Idempotency-Key` this is one charge as
   long as hosts share their settlement (`ChargedAtMostOnce`); what is wrong is the
   reason the comment gives.
2. **Failures that are not retained** (`RecordedCall_retained`).
   `_client_sync.py:116` says failures are always retained. A buffered body that
   does not decode leaves no attempt behind and no event; a protocol error of the
   codec leaves an attempt recorded as "ok", which is sampled like a success.
3. **Retention cap** (`TelemetryReporter_retention`). A window that is pruned while
   its batch is on the wire is subtracted from `_retained_window_bytes` twice
   (`_telemetry.py:893` and `:1032`), and from then on more than the 512 KiB of
   `src/README.md:281` can be retained.

Observed, and not counted as findings:

* Engine: with a region pinned the default budget ends before the first alias; an
  interrupt while the last body is read is reported as "exhausted", also for a 302; a
  streamed call reads `api_key` and `workspace_id` again for each attempt, under one
  idempotency key, where a buffered call merges its headers once.
* Shared client: a race in progress when the client is swapped overwrites the list
  afterwards. A swapped client has no hook of the SDK's until a request without
  credentials installs one, and assigning `event_hooks` drops it
  (`WireIsOurs` names both cases). `_requests.py:117` says the list of hooks is
  touched once at construction; each request without credentials and each health
  probe copies and assigns it again: a hook the application appends in between
  can be lost, and on a client without the SDK's hook two threads can both append it (`SharedStateIsStable` allows exactly this). `fetch_userinfo` through a
  lent client is not marked: that client's `x-tr-client` goes out and its `Auth` may
  replace the bearer, although `_requests.py:24` says "on every path".
* Closing and forking: a `close()` during a first call does not see the reporter that
  call makes (`atexit` closes it); after a swap it closes the new client and not the
  one the SDK made; the child of a fork opens a closed or disabled reporter again
  and can wait for ever for a client's lock that a lost thread held.
* Receipts: text put into the event that carries the receipt is not covered by it
  (`receipts.py:522-537` goes on to the next event before anything is hashed).
* Others: the event codec drops data that shares a frame with `[DONE]`
  (`CompletedIsWhole` names that case); `KeyboardInterrupt` leaves a session's
  connection open; a session refuses its follow-ups after a rotation of keys.

## 6. Proofs

### A call

The first part of `RecordedCall_proofs` is about `Transport` and holds for every `MaxRetries`, `NumBases`, `Statuses` and
`MaxItems` allowed by `TransportAssumption` (naturals, at least one host).

| Theorem | States |
|---|---|
| `Invariance` | `Spec => []IInv` |
| `TypeCorrect` | the type invariant |
| `KeylessResend` | a keyless mutation is sent again only if every earlier send is dead |
| `ChargedOnce` | one logical mutation, one charge |
| `HostsInRange` | the candidate index stays in the list |
| `NoReconnect` | nothing is sent after an item was surfaced |
| `EngineKeepsPromise` | `Transport` implements `LogicalCall` |

The inductive invariant is `IInv == TypeOK /\ CountInv /\ KeyInv /\ DeadInv`.

* `CountInv` ties the attempt counter to the history: as many sends as the counter
  says, one more while a send is under way. Without it the bound on sends does not
  follow from the bound on the counter. It also keeps the candidate index in range
  and says that items are surfaced only by a stream's body.
* `KeyInv`: every send carries the key of its call. A keyed mutation then has one
  charge identity whatever runs.
* `DeadInv`: when a keyless mutation may be sent again, no earlier send ran or can
  still run. `KeylessResendIsDead` alone is not inductive: it says nothing of the
  last send at the moment the driver decides to retry.

Per action one lemma shows that it preserves `IInv`; what the controller can decide
(`RetryDecides`, `OnResponseDecides`, `OnTransportErrorDecides`) is proved once and
cited. `ResendIsHonest` is where the assumption about gateways enters. The
refinement maps `charged` to the set of charge identities of the sends that ran: a
step of a gateway that runs the first live send is `Charge`, one that runs a
further send of the same key is a stutter.

### Resends

It goes on from `IInv`, under the same assumption:

| Theorem | States |
|---|---|
| `JustifiedResends` | `ResendsAreJustified`: a spent response is the last, a host is left only with leave and for the next one, and dead hosts are all tried, in order |
| `ExactBudget` | `BudgetIsSpentExactly`: a call with a retryable last outcome ends only on a spent budget |

Both speak of the history of sends; the decisions speak of the controller's index.
`EngineInv == IInv /\ ResendInv /\ SettledInv` joins them:

* `OrderInv`: before a send the index is a host that the last outcome leads to, and
  while one is under way it is the host of that send. `MovesAreJustified` compares two
  sends that are past; without this nothing is known of the next one.
* `SpentInv`: no send but the last had a spent response, and not even the last once
  the driver is on its way to another.
* `WalkInv`: while no send reached a gateway, the i-th went to the i-th host, or to the
  last one when there are no more.
* `SettledInv`: in the states where the driver hands out or raises the last outcome,
  that outcome was not retryable or the budget was spent. The result alone, set later,
  does not say so of the steps on the way there.

### The shared client

`SharedClient_proofs` proves, for any set of callers and any mix of their kinds, any
lists of regions and aliases:

| Theorem | States |
|---|---|
| `ReporterIsOne` | `OneReporter`, whatever `close()`, a swap or a fork comes between |
| `PoolIsWalked` | `ListIsWalked`: the index stays in the list, and every host is seen before one is seen again |
| `WireIsTheSdks` | `WireIsOurs`: what leaves a client is what the SDK decided |
| `SharedStateHolds` | `SharedStateIsStable`: no list is replaced under a call, no list of hooks is one nobody made |

The invariant is `SharedInv`, of three parts, and `HooksInv`, which is shown given it.

`ReporterInv` is about the reporter. `MakerInv` says that there are as many reporters as
`sink` says, none or one, and that a reporter that was made and is not yet owned has a
caller inside `_recorder` who will own it; such a caller has not left the beginning of
his call, unless the process forked. That is what `close()` between calls needs: no call
is going on, so nobody is inside, so the reporter is owned and is closed. The proof
makes no use of `makerLock`: the second look at `_telemetry_sink` and the making are one
step of the model, as the lock makes them in the code.

`PoolInv` is about the hosts. `CallSound` says of each call that only the holder of the
lock runs the race; that before the race is over nobody, on a client that was not
swapped, has a list or sent anything, so that the list all calls have is the final one;
and, with `Walks`, that the n-th send went to the n-th host, or to the last when there
is none left. The index stays inside although a race replaces the list because a race's
list is no shorter than the first (`RaceList`): `Dedup` returns a list without
duplicates that has the same items (`DedupIs`), and such a list is no longer than
another with those items (`ShorterThan`). One assumption on a constant is used: `"free"`,
the mark of the unlocked lock, is not a caller.

`FacadeInv` says which stages a call of which kind can be in, and through which client.

`HooksInv` is about the hooks. `Listed` names the lists a client can have: one the
application made, with the SDK's hook anywhere in it and any number of times, since
every thread that is about to append may find it there. A copy that is about to be
assigned is such a list too, and an installation on the swapped client that has
appended, copied, or found its list replaced, knows that the hook is in the client's list
(`InstallSound`); a request without credentials that has installed it knows so until it
is sent (`CameInto`). On the client that was lent only the list the application assigned
can lack the hook (`OnlyLateLacksIt`).

For the wire, the fold over a list of hooks is unrolled first (`HooksRun`), by
induction over the table it is defined by; `ListDoes` then says what any list makes of
any request, however long, and `WireIs` of which request. `WireIsTheSdks` adds that who
comes to wait for a server has just sent (`WaitsBySending`), and a request without
credentials by a client whose list had the hook put in (`HookCameFirst`).

### The sleep and the recorder

The second part of `RecordedCall_proofs` has the sleep. For every pair of headers, every attempt
number and every draw of the jitter, `SleepIsShort` (a sleep is at most a minute) and
`HintIsAFloor` (a usable hint is waited for, up to that minute, whichever of the two
headers holds it). They rest on `BoundedHint`, `BaseInRange` and `JitterInRange`, one
for each part a sleep is made of.

| Theorem | States |
|---|---|
| `RecordingChangesNothing` | `RecSpec => Spec`: the recorded call refines the call, so the theorems above hold of it |
| `EventsMatchTheWire` | `EventMatchesWire`: one event at the end, with an attempt for each send a hook saw |
| `HeadersTellTheTruth` | `HeaderTellsPreviousTry`: what a send says of the one before |
| `ExhaustionIsTrue` | `ExhaustedMeansBudgetSpent` |
| `EverySleepIsBounded` | `SleepsAreBounded`: the sleep of every call, not of the operator only |

`RecorderInv` is `EngineInv` and, for each piece of the recorder's state, what it is in
terms of the history of sends. The records are the sends but one that is under way or
that no hook saw (`RecordsInv`); the last record has the outcome of its send when a
decision or a header reads it (`OutcomeInv`); a record is marked as moved when the next
send went elsewhere, and between a decision and the next send when the *index* did
(`MovedInv`: this is the part an interrupt leaves behind in the event); `exhausted`
is set only with the budget spent on an outcome that is retried (`ExhaustedInv`).
The attempt to prove the last one showed that a 302 with `x-should-retry: true`, which
no run contained, ends as "exhausted" with a status that is no error when reading it is
interrupted; the property now says so, and the runs have a 302.

### The reporter

`CounterWindow_proofs` holds for every set of requests, keys and any limit on rows.

| Theorem | States |
|---|---|
| `EachIsCountedOnce` | `CountedOnce` |
| `FamilyIsKept` | `FoldsStayInTheFamily` |

`Sound(s, K)` is the invariant: it adds to `CountedOnce` that rows are of disjoint,
nonempty sets and that nothing is in a row that was not counted. Folding renames a row
and may put it at another place; `Placed` follows the new request through that.

`TelemetryReporter_proofs` holds for every set of requests and every value of the
limits allowed by `ReporterAssumption`, with any number of windows.

| Theorem | States |
|---|---|
| `LossesAreTold` | `LossIsReported`: delivered, held, or in a count the server is told |
| `DeliveredIsDone` | `ConfirmedIsDone`: nothing confirmed is held or sent again, nobody is counted twice |
| `MinutesAreTrue` | `NotBackdated`, and the types |
| `PausesHold` | `PausesAreHonoured`, an action property |
| `FailuresAreKept` | `FailuresOutliveSuccesses`, an action property |

`ReporterInv == TypesInv /\ LockInv /\ StoreInv /\ AckInv /\ LossInv`:

* `LockInv`: a flusher that selects or has a batch on the wire holds the flush lock, and
  between the look at the deadlines and the sending nothing moves them. Without it
  `PausesAreHonoured` has no reason, and two batches could overlap.
* `StoreInv`: the rows of closed windows are of disjoint requests, and of others than
  those of the current one, which is `Sound`; no request of a row ended after the
  minute its window is of (`Punctual`). `ConfirmedIsDone` does not say where a row is, and
  a roll-over moves it.
* `AckInv`, with `OnItsWay`: a batch is recorded and not confirmed, and *a row it shares
  a request with is a row of the batch itself*. So taking the batch's rows out after a
  202 takes out exactly the requests that were sent, although the lock was released in
  between, a window was closed or pruned, and new requests were counted: a closed
  window's rows never change, only go.
* `LossInv` is `LossIsReported`, inductive given the others.

Aging (`Ages`: rows go, and are counted when they do) is shown once for pruning, closing
and rolling, whatever `PruneWindows` chooses. What the folds of the community modules
return (`FlattenHas`, `WithoutIs`) is proved by induction over a set of naturals
(`SetInduction`), which needs no operator as a parameter. `SelectSeq` has no definition
that the prover can open, so the model removes the items of a sequence by flattening
(`Without`).

### Streams

`Completion_proofs` holds for streams of any length and for all chunks of the shape
`ChunksAssumption` gives them, which is what the code looks at: any number of entries,
indices and slots, in any order.

| Theorem | States |
|---|---|
| `GivenIsSaid` | `SurfacedInOrder`, and the types |
| `CompleteIsWhole` | `CompletedIsWhole` |
| `CollectionIsFaithful` | `CollectedIsSaid`: a returned completion is what was sent, choice by choice |
| `StreamTellsTheSame` | `TextStreamAgrees`: the text stream yields the content that is returned |

`CodecInv == CodecTypeOK /\ GivenOK /\ OpenOK /\ ChunkItems /\ CompletedIsWhole`.
`GivenOK` is `SurfacedInOrder` without the types; it says nothing of a line that
waits in a frame. `OpenOK` does: while the stream is open the frame is all that was not
handled, `sawDone` tells of the `[DONE]`s outside it, and a line outside it was given to
the caller or dropped with a `[DONE]` (`Handled`). That the name of an item already given
never changes is a lemma (`NamesStay`): the blank line behind it keeps later names
away.

`CompletionInv == CodecInv /\ WorkOK /\ TextOK /\ AnswerOK` follows the collector:

* `WorkOK`: at each place of its walk the collector holds exactly what was said up to
  there (`TakenUpTo`): per choice the two texts, each slot's arguments, the fields it saw
  and the last finish (`ChoiceOK`), and the last usage. `CollectedIsSaid` speaks of the end
  only. `Lists(s, P)` is the heart of it: the text `s` is the pieces `P`, each once, in
  order. A piece that comes after all of `P` can be appended (`ListsAppend`); the chunks'
  lines increase (from `CodecInv`), so the next entry always does.
* `TextOK`: the text stream lists the pieces of the entries that stood first in the
  chunks yielded so far, or one of these was misshapen.
* `AnswerOK` is what the two properties ask, for one answer and one text.

`CompletedIsWhole` is used here: the collector sees the chunks that were yielded, and
only because a complete chunk stream yields every object are they all there are. That
the text and the content are *equal* follows because a set of pieces has one list
(`ListsAreOne`). `Sorted`, a `CHOOSE`, exists for every finite set of numbers by
induction on its size (`AllSortable`).

### Evidence

`GatewaySession_proofs` holds for any number of fetches.

| Theorem | States |
|---|---|
| `EvidenceIsFresh` | `AcceptedIsFresh` |
| `NothingIsLeftOver` | `PinnedStreamIsInStep` |
| `NoConnectionLeaks` | `NothingLeaks`, and the types |

What a fetch reads depends on where it stands in the stream, so `SessionInv` is about
the stream: what was received and what is to come are together whole answers of which
only the beginning can be missing (`WellFormed`). The first blank line is then that of
the answer whose status line comes before it and whose body follows, however late it
is, and its nonce decides. `InStep` says that with every fetch accepted there is at most
the one answer that is waited for; `PinnedStreamIsInStep`, which speaks of the idle
session only, is not inductive.

`Attestation_proofs` holds for every set of images and releases and any number of nonces,
if releases name published images only (`AttestationAssumption`).

| Theorem | States |
|---|---|
| `ImagesArePublished` | `OnlyPublishedImages` |
| `BoundToTheConnection` | `BindingIsEndToEnd` |
| `DocumentsAreFresh` | `DocumentIsOnlyFresh` |
| `HonestGatewayPasses` | `HonestIsVerified` |

`PolicyIsMade` says what a policy has of the release or the pins it was made from,
`TokenIsMinted` what the gateway puts into a token and never puts there: at most one
value that is not its own connection's. Who stands between would need two: the caller's
nonce, and a binding of the caller's connection.

### Receipts

`Receipts_proofs` holds for every set of payloads, every pair of receipts that can be
issued, and streams and chunks of any length, if `sse-data-v1` signs streams without
event names only (`Signed`: the digest refuses names in that domain).

| Theorem | States |
|---|---|
| `UntouchedVerifies` | `VerifiedIsUntouched`: a capture verifies exactly when the data events, their order and the end are as signed |
| `VerifiedBinds` | `VerifiedIsBound` |
| `EvidenceHolds` | `EvidenceIsNeverAssumed` |

`VerifiedIsUntouched` is inductive; what is hard is one step, `verify()`, which hashes
the whole stream. The digest is a fold, unrolled into its steps by induction over the
table the fold is defined by (`DigestRuns`). `Walked` says where the walk over the
events stands as long as no check failed: how many data events it has passed, that a
receipt stands behind them and `[DONE]` last, and which lines they fed (`LinesOf`).
`FitsIsHonest` reads what is covered (`CoveredAsSigned`) off the end of such a walk, event by event;
`HonestFits` shows that no check fails on any stream that is covered as signed, whatever
its last two events are called and carry besides, because up to each event
the walk cannot yet have met a receipt or `[DONE]` that is not there.

### Only model-checked

* All liveness (`CallsEnd`, `ThreadsStop`, `UrgentIsServed`,
  `FetchesEnd`): fairness and ENABLED are beyond the prover.

Every invariant and action property of a passing run is a theorem.

## 7. Not modelled

* Request bodies and paths. Redirects are off in every request.
* The names and parsing of numbers in headers: `float()` is a choice of four kinds.
* In the reporter: the wire format, the policy's sample rate and interval, and the
  HTTP client's own life. Sizes are counted in rows.
* In the collector: roles, the envelope, the legacy `function_call`, TrustedRouter
  metadata.
* Signatures, JWKS documents and single claims: right or wrong as one.
* The facade's endpoints that only name a path and a body; OAuth's URLs, state
  and PKCE helpers; orchestration helpers; data classes; the command line. They keep
  no state.

## 8. Plan

In this order; done items are the modules above.

1. `RetryPolicy`, `Transport`, `LogicalCall`, `RecordedCall`, and their proofs: done.
2. `BaseUrlPool`, `CounterFold`, `CounterWindow`, `TelemetryReporter`: done; the windows
   and the reporter with proofs.
3. `StreamCodec`, `Completion`, `GatewaySession`, `Receipts`, `Attestation`: done, with
   proofs.
4. `RetryDelay` with its proofs, `RequestHeaders`, `SharedClient`, `SharedClient_proofs`, forks:
   done.
5. An abstract queue that the reporter implements: recorded items leave by
   delivery or by a counted drop, and by nothing else.
6. Which calls have a key, endpoint by endpoint: today every combination of method,
   key and plane is an initial state of `Transport`.
