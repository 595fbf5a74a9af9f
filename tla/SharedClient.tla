---------------------------- MODULE SharedClient ----------------------------
(***************************************************************************)
(* One TrustedRouter object used by several threads (_client_sync.py, and  *)
(* _client_async.py with tasks for threads): its candidate hosts           *)
(* (BaseUrlPool), the httpx client it owns or was lent, with the hook list *)
(* both sides write (RequestHeaders), the reporter its first recorded call *)
(* makes, and close() and fork, which can come at any time.                *)
(*                                                                         *)
(* Each caller makes one call of some kind:                                *)
(*    inference   over the pool, recorded                                  *)
(*    control     over the control host, not recorded                      *)
(*    metadata    without credentials: status, attestation, trust_release, *)
(*                the OAuth exchange                                       *)
(*    unmarked    the caller's own traffic on the client he lent, and      *)
(*                fetch_userinfo                                           *)
(***************************************************************************)
EXTENDS BaseUrlPool, RequestHeaders, FiniteSets

CONSTANTS Mixes,     \* who makes which kind of call
          Probes     \* the threads of the race's pool

ASSUME MixesAssumption ==
    Mixes \subseteq [Callers -> {"inference", "control", "metadata", "unmarked"}]

ASSUME ProbesAssumption == Probes \cap Callers = {}

(* Who can be inside _install_reserved_header_hook. *)
Installers == Callers \cup Probes

VARIABLES lent,        \* the httpx client was passed to the constructor
          hooks,       \* the request hooks of the own and the swapped client
          installs,    \* where each installer is with which client
          open,        \* which of the two were not closed
          reporters,   \* each reporter made so far: "open" or "closed"
          sink,        \* _telemetry_sink, as an index; 0 is None
          owns,        \* _owns_telemetry_reporter
          makerLock,   \* who holds _telemetry_lock, if anyone
          closer,      \* close(): "none", "flushed", "done"
          quiet,       \* close() began with a reporter and no call going on
          forked,      \* this is the child of a fork
          facade       \* each caller's part of the above

clientVars == <<lent, hooks, installs, open, reporters, sink, owns, makerLock, closer,
                quiet, forked, facade>>

allVars == <<vars, clientVars>>

-----------------------------------------------------------------------------
(* The constructor's headers=, which may hold anything. *)
DefaultHeaders == StripReserved(Ambient)

(* A client of somebody else's has headers, an Auth flow and hooks that    *)
(* write what they like.                                                   *)
IsLent(id) == lent \/ id = "swapped"

HttpxClient(id, hookList) ==
    [defaults |-> IF IsLent(id) THEN Ambient ELSE DefaultHeaders,
     auth     |-> IsLent(id),
     hooks    |-> hookList]

(* resolve_telemetry_enabled, when neither an argument nor the environment *)
(* decides.                                                                *)
TelemetryEnabled == setup.base = Default

NewFacade(kind) ==
    [kind |-> kind, stage |-> "fresh", reporter |-> 0, via |-> "own", resent |-> 0]

NoInstall == [stage |-> "idle", via |-> "own", stale |-> FALSE, copied |-> <<>>]

ClientInit ==
    /\ Init
    /\ lent \in BOOLEAN
    /\ hooks = [own     |-> Install(IF lent THEN <<"early">> ELSE <<>>),
                swapped |-> <<"early">>]
    /\ installs = [i \in Installers |-> NoInstall]
    /\ open = [own |-> TRUE, swapped |-> TRUE]
    /\ reporters = <<>>
    /\ sink = 0
    /\ owns = FALSE
    /\ makerLock = "free"
    /\ closer = "none"
    /\ quiet = FALSE
    /\ forked = FALSE
    /\ \E kinds \in Mixes :
          /\ \A c \in Callers : kinds[c] = "unmarked" => lent
          /\ facade = [c \in Callers |-> NewFacade(kinds[c])]

Is(c, kind) == facade[c].kind = kind

Stage(c, stage) == facade[c].stage = stage

-----------------------------------------------------------------------------
(* _recorder: look at the sink, take the lock, look again, make, own.  The *)
(* driver is then given the httpx client of that moment.                   *)
Ready(c, reporter) ==
    facade' = [facade EXCEPT ![c].stage = "ready", ![c].reporter = reporter,
                             ![c].via = client]

LookForSink(c) ==
    /\ Is(c, "inference") /\ Stage(c, "fresh")
    /\ IF ~TelemetryEnabled \/ sink # 0
       THEN Ready(c, IF TelemetryEnabled THEN sink ELSE 0)
       ELSE facade' = [facade EXCEPT ![c].stage = "making"]
    /\ UNCHANGED <<vars, lent, hooks, installs, open, reporters, sink, owns, makerLock,
                   closer, quiet, forked>>

(* Mutant: the second look is left out. *)
MakesAlways == TRUE

MustMake == sink = 0

MakeReporter(c) ==
    /\ Stage(c, "making")
    /\ makerLock = "free"
    /\ IF MustMake
       THEN /\ reporters' = Append(reporters, "open")
            /\ sink' = Len(reporters')
            /\ makerLock' = c
            /\ facade' = [facade EXCEPT ![c].stage = "owning"]
       ELSE Ready(c, sink) /\ UNCHANGED <<reporters, sink, makerLock>>
    /\ UNCHANGED <<vars, lent, hooks, installs, open, owns, closer, quiet, forked>>

OwnReporter(c) ==
    /\ Stage(c, "owning")
    /\ owns' = TRUE
    /\ makerLock' = "free"
    /\ Ready(c, sink)
    /\ UNCHANGED <<vars, lent, hooks, installs, open, reporters, sink, closer, quiet, forked>>

-----------------------------------------------------------------------------
(* _install_reserved_header_hook, which nothing guards: i takes the list   *)
(* the client has, looks for the hook, appends to the list it took, copies *)
(* the list the client has then, and makes the copy the client's.  (To     *)
(* take and to look is one step, and so is to copy: what others do to a    *)
(* list between the two, and after it was replaced, they could have done   *)
(* before.)                                                                *)
InstallIs(i, stage) == installs[i].stage = stage

LookForHook(i, id) ==
    installs' = [installs EXCEPT
        ![i].stage = IF "sdk" \in ToSet(hooks[id]) THEN "copy" ELSE "append",
        ![i].via = id]

BeginToLook(i) ==
    /\ InstallIs(i, "look")
    /\ LookForHook(i, installs[i].via)
    /\ UNCHANGED hooks

(* Mutant: the hook is assigned alone, without those the client had. *)
AssignHookAlone(i) ==
    /\ InstallIs(i, "append")
    /\ hooks' = [hooks EXCEPT ![installs[i].via] = <<"sdk">>]
    /\ installs' = [installs EXCEPT ![i].stage = "copy", ![i].stale = FALSE]

(* What is appended to a list that was replaced is seen by nobody. *)
AppendHook(i) ==
    /\ InstallIs(i, "append")
    /\ hooks' = IF installs[i].stale THEN hooks
                ELSE [hooks EXCEPT ![installs[i].via] = Append(@, "sdk")]
    /\ installs' = [installs EXCEPT ![i].stage = "copy", ![i].stale = FALSE]

CopyHooks(i) ==
    /\ InstallIs(i, "copy")
    /\ installs' = [installs EXCEPT ![i].stage = "assign", ![i].copied = hooks[installs[i].via]]
    /\ UNCHANGED hooks

(* The client gets another list; who took the one it had still has that. *)
Replace(id, list) == hooks' = [hooks EXCEPT ![id] = list]

Outdated(j, id) ==
    IF InstallIs(j, "append") /\ installs[j].via = id
    THEN [installs[j] EXCEPT !.stale = TRUE]
    ELSE installs[j]

AssignHooks(i) ==
    /\ InstallIs(i, "assign")
    /\ Replace(installs[i].via, installs[i].copied)
    /\ installs' = [j \in Installers |->
                      IF j = i THEN NoInstall ELSE Outdated(j, installs[i].via)]

InstallStep(i) ==
    /\ BeginToLook(i) \/ AppendHook(i) \/ CopyHooks(i) \/ AssignHooks(i)
    /\ UNCHANGED <<vars, lent, open, reporters, sink, owns, makerLock, closer,
                   quiet, forked, facade>>

SendsBy(c, id) == facade' = [facade EXCEPT ![c].stage = "ready", ![c].via = id]

(* The calls' way over the pool. *)
ChooseHost(c) ==
    /\ Is(c, "inference") /\ Stage(c, "ready")
    /\ ReadClient(c) \/ CheckPending(c) \/ Acquire(c)
    /\ UNCHANGED clientVars

(* A request of the race, without credentials like every probe, installs   *)
(* the hook in its thread, which goes on when the race is over.  How many  *)
(* a race sends is not counted.                                            *)
StartProbe(p) ==
    /\ InstallIs(p, "idle")
    /\ \E c \in Callers :
          /\ At(c, "race")
          /\ installs' = [installs EXCEPT ![p].stage = "look", ![p].via = calls[c].saw]
    /\ UNCHANGED <<vars, lent, hooks, open, reporters, sink, owns, makerLock, closer,
                   quiet, forked, facade>>

(* A probe on a closed client raises what the race does not expect. *)
EndRace(c) ==
    /\ RaceEnds(c) \/ (~open[calls[c].saw] /\ RaceIsInterrupted(c))
    /\ UNCHANGED clientVars

InterruptRace(c) == RaceIsInterrupted(c) /\ UNCHANGED clientVars

-----------------------------------------------------------------------------
(* What the application can pass, and what the facade passes. *)
Given == [n \in Names |-> "caller"]

Arguments == [key |-> "sdk", workspace |-> "sdk", apiKey |-> "sdk"]

ReservedValue(c) == IF facade[c].reporter = 0 THEN Absent ELSE "recorder"

(* On either plane; no recorder looks at the control plane. *)
AuthorizedRequest(c, httpx) ==
    Merged(httpx, ApplyReserved(
        AuthorizedHeaders(DefaultHeaders, Given, Arguments), ReservedValue(c)))

MetadataRequest(httpx) == CredentialFree(httpx, NoHeaders)

RequestOf(c, httpx) ==
    CASE facade[c].kind \in {"inference", "control"} -> AuthorizedRequest(c, httpx)
      [] Is(c, "metadata")                           -> MetadataRequest(httpx)
      [] OTHER                                       -> Unmarked(httpx, Given)

(* What reaches a server when c's request leaves its client now, and what  *)
(* would if these were the hooks.                                          *)
WireWith(c, hookList) ==
    OnTheWire(HttpxClient(facade[c].via, hookList),
              RequestOf(c, HttpxClient(facade[c].via, hookList)))

Wire(c) == WireWith(c, hooks[facade[c].via])

SendInference(c) ==
    /\ Is(c, "inference") /\ Send(c)
    /\ open[facade[c].via]
    /\ UNCHANGED clientVars

(* A request without credentials installs the hook, builds and sends. *)
InstallFirst(c) ==
    /\ Is(c, "metadata") /\ At(c, "start") /\ Stage(c, "fresh")
    /\ InstallIs(c, "idle") /\ LookForHook(c, client)
    /\ facade' = [facade EXCEPT ![c].stage = "installing", ![c].via = client]
    /\ UNCHANGED <<vars, lent, hooks, open, reporters, sink, owns, makerLock, closer,
                   quiet, forked>>

(* On a closed client nothing is sent. *)
SendVia(c, id) ==
    /\ SendsBy(c, id)
    /\ IF open[id] THEN Goto(c, "wait") ELSE End(c)
    /\ UNCHANGED <<setup, client, pending, urls, lock, lent, hooks, installs, open,
                   reporters, sink, owns, makerLock, closer, quiet, forked>>

SendMetadata(c) ==
    /\ Is(c, "metadata") /\ At(c, "start") /\ Stage(c, "installing")
    /\ InstallIs(c, "idle")
    /\ SendVia(c, facade[c].via)

(* A control call keeps the client it began with. *)
SendElsewhere(c) ==
    /\ facade[c].kind \in {"control", "unmarked"} /\ At(c, "start")
    /\ SendVia(c, IF Stage(c, "fresh") THEN client ELSE facade[c].via)

(* A closed httpx client raises before anything is sent. *)
FindClosed(c) ==
    /\ Is(c, "inference") /\ At(c, "send") /\ ~open[facade[c].via]
    /\ End(c)
    /\ UNCHANGED <<setup, client, pending, urls, lock, clientVars>>

Answer(c) == Answered(c) /\ UNCHANGED clientVars

(* Control calls are reads or have a key. *)
MayResend(c) == Is(c, "control") /\ facade[c].resent < MaxRetries

(* No answer: an inference call may move, a control call may be sent       *)
(* again, the rest raise.                                                  *)
NoAnswer(c) ==
    \/ Is(c, "inference") /\ HostIsDead(c) /\ UNCHANGED clientVars
    \/ /\ ~Is(c, "inference") /\ At(c, "wait")
       /\ IF MayResend(c)
          THEN /\ Goto(c, "start")
               /\ facade' = [facade EXCEPT ![c].resent = @ + 1]
          ELSE End(c) /\ UNCHANGED facade
       /\ UNCHANGED <<setup, client, pending, urls, lock, lent, hooks, installs, open,
                      reporters, sink, owns, makerLock, closer, quiet, forked>>

-----------------------------------------------------------------------------
Idle(c) == calls[c].pc \in Ended \/ Stage(c, "fresh")

ClosesReporter == owns /\ sink # 0

(* After the last call only close() is of interest. *)
Busy == \E c \in Callers : calls[c].pc \notin Ended

(* close(), in its two parts. *)
CloseReporter ==
    /\ closer = "none"
    /\ reporters' = IF ClosesReporter THEN [reporters EXCEPT ![sink] = "closed"]
                                      ELSE reporters
    /\ quiet' = (sink # 0 /\ \A c \in Callers : Idle(c))
    /\ closer' = "flushed"
    /\ UNCHANGED <<vars, lent, hooks, installs, open, sink, owns, makerLock, forked, facade>>

(* It closes the client it has now, if it made the one it had first. *)
CloseHttpx ==
    /\ closer = "flushed"
    /\ open' = [open EXCEPT ![client] = lent]
    /\ closer' = "done"
    /\ UNCHANGED <<vars, lent, hooks, installs, reporters, sink, owns, makerLock, quiet,
                   forked, facade>>

(* The application appends a request hook to the client it lent, or        *)
(* assigns a list of its own.                                              *)
WriteHooks ==
    /\ Busy /\ lent /\ "late" \notin ToSet(hooks.own)
    /\ \/ hooks' = [hooks EXCEPT !.own = Append(@, "late")] /\ UNCHANGED installs
       \/ /\ Replace("own", <<"late">>)
          /\ installs' = [j \in Installers |-> Outdated(j, "own")]
    /\ UNCHANGED <<vars, lent, open, reporters, sink, owns, makerLock, closer,
                   quiet, forked, facade>>

Swap == Busy /\ SwapClient /\ UNCHANGED clientVars

(* A thread outside the client forks.  The child has the memory of all     *)
(* threads and none of them; its reporters start anew.                     *)
Fork ==
    /\ Busy /\ ~forked
    /\ forked' = TRUE
    /\ calls' = [c \in Callers |-> IF Idle(c) THEN calls[c]
                                             ELSE [NewCall EXCEPT !.pc = "gone"]]
    /\ installs' = [i \in Installers |-> NoInstall]
    /\ reporters' = [i \in DOMAIN reporters |-> "open"]
    /\ UNCHANGED <<setup, client, pending, urls, lock, lent, hooks, open, sink,
                   owns, makerLock, closer, quiet, facade>>

-----------------------------------------------------------------------------
ClientStep(c) ==
    \/ At(c, "start") /\ (LookForSink(c) \/ MakeReporter(c) \/ OwnReporter(c))
    \/ ChooseHost(c)
    \/ EndRace(c)
    \/ SendInference(c)
    \/ InstallFirst(c)
    \/ InstallStep(c)
    \/ SendMetadata(c)
    \/ SendElsewhere(c)
    \/ FindClosed(c)
    \/ Answer(c)
    \/ NoAnswer(c)

ClientNext ==
    \/ \E c \in Callers : ClientStep(c) \/ InterruptRace(c)
    \/ \E p \in Probes : StartProbe(p) \/ InstallStep(p)
    \/ CloseReporter
    \/ CloseHttpx
    \/ WriteHooks
    \/ Swap
    \/ Fork

ClientSpec == ClientInit /\ [][ClientNext]_allVars

(* As in BaseUrlPool; nobody has to close, to swap, to write or to fork.   *)
FairClientSpec == ClientSpec /\ \A c \in Callers : WF_allVars(ClientStep(c))

-----------------------------------------------------------------------------
ClientTypeOK ==
    /\ PoolTypeOK
    /\ hooks \in [{"own", "swapped"} -> Seq({"early", "late", "sdk"})]
    /\ \A i \in Installers :
          /\ installs[i].stage \in {"idle", "look", "append", "copy", "assign"}
          /\ installs[i].via \in {"own", "swapped"}
          /\ installs[i].copied \in Seq({"early", "late", "sdk"})
    /\ open \in [{"own", "swapped"} -> BOOLEAN]
    /\ reporters \in Seq({"open", "closed"})
    /\ sink \in 0..Len(reporters)
    /\ closer \in {"none", "flushed", "done"}
    /\ \A c \in Callers :
          /\ facade[c].stage \in {"fresh", "making", "owning", "installing", "ready"}
          /\ facade[c].via \in {"own", "swapped"}

(* A call's index stays inside the list although the list can be replaced  *)
(* between two of its sends; and while the client is not swapped, a call   *)
(* whose hosts are dead goes back to none before it has seen them all.     *)
ListIsWalked == ClientTypeOK /\ IndexInList /\ NoHostTwice

(* The hooks that the application gave a client, whichever of its lists,   *)
(* and what becomes of such a list when the SDK's is put in some places.   *)
ApplicationLists(id) ==
    IF id = "swapped" THEN {<<"early">>}
    ELSE IF lent THEN {<<"early">>, <<"early", "late">>, <<"late">>}
    ELSE {<<>>}

Adds(list, more) ==
    \E place \in [DOMAIN list -> DOMAIN more] :
        /\ \A i, j \in DOMAIN list : i < j => place[i] < place[j]
        /\ \A i \in DOMAIN list : more[place[i]] = list[i]
        /\ \A k \in DOMAIN more : (\A i \in DOMAIN list : place[i] # k) => more[k] = "sdk"

(* What reaches a server is what the SDK decided, whatever the headers,    *)
(* the Auth flow and the hooks of the httpx client, as long as none of     *)
(* those hooks stands behind the SDK's: x-tr-client is the recorder's or   *)
(* absent, and a request without credentials has none.  The caller's own   *)
(* traffic is as with his hooks alone.  On a client the SDK made the       *)
(* call's arguments are not overridden.  And the SDK's hook does stand     *)
(* last, unless the application wrote to the list after the constructor,   *)
(* or swapped the client and no request without credentials came since.    *)
AsWithout(c, wire) ==
    \E list \in ApplicationLists(facade[c].via) :
        /\ Adds(list, hooks[facade[c].via])
        /\ wire = WireWith(c, list)

Ours(c, wire, terminal) ==
    /\ Is(c, "unmarked") => AsWithout(c, wire)
    /\ ~Is(c, "unmarked") /\ terminal => wire["x-tr-client"] = ReservedValue(c)
    /\ Is(c, "metadata") /\ terminal => wire = NoHeaders
    /\ facade[c].kind \in {"inference", "control"} /\ ~IsLent(facade[c].via) =>
          \A n \in {"authorization", "idempotency-key", "workspace"} : wire[n] = "sdk"
    /\ "late" \notin ToSet(hooks[facade[c].via]) =>
          terminal \/ (facade[c].via = "swapped" /\ ~Is(c, "metadata"))

WireIsOurs ==
    [][\A c \in Callers : ~At(c, "wait") /\ At(c, "wait")' =>
          Ours(c, Wire(c), Terminal(hooks[facade[c].via]))'
      ]_allVars

(* However many first calls race, the client has one reporter, which all   *)
(* of them report to; close() between calls leaves neither it nor the      *)
(* client's own httpx client open, and nothing closed that was lent.  (A   *)
(* close() during a first call can miss the reporter that call makes, and  *)
(* the child of a fork opens it again.)                                    *)
OneReporter ==
    /\ Len(reporters) <= 1
    /\ \A c \in Callers : facade[c].reporter \in {0, sink}
    /\ quiet /\ ~forked => reporters[sink] = "closed"
    /\ IF lent THEN open.own /\ open.swapped
       ELSE closer = "done" => ~open.own \/ ~open.swapped

(* While nobody swaps the client, the list a call started with is the list *)
(* it ends with: its index means the same host throughout.  And whoever    *)
(* installs at once, the hooks of a client stay a list the application     *)
(* made, to which only the SDK's hook was added (more than once, when two  *)
(* look before either appends); that hook goes only when the list the      *)
(* application assigned comes, or comes back.  (Not the list it made last: *)
(* an installation puts back the one it copied.)                           *)
SharedStateIsStable ==
    [][ /\ client = "own" /\ (\E c \in Callers : calls[c].list # <<>>) => urls' = urls
        /\ \A id \in {"own", "swapped"} : hooks'[id] # hooks[id] =>
              /\ \E list \in ApplicationLists(id) : Adds(list, hooks'[id])
              /\ "sdk" \in ToSet(hooks[id]) =>
                    "sdk" \in ToSet(hooks'[id]) \/ hooks'[id] = <<"late">>
      ]_allVars

(* Every call ends: no caller is left waiting for a lock or for the race.  *)
(* Except in a child that was forked while a thread it does not have held  *)
(* a lock: there the first call that needs the lock waits for ever.        *)
HeldByNobody ==
    forked /\ \E c \in Callers : calls[c].pc = "gone" /\ c \in {lock, makerLock}

CallsEnd == <>(\A c \in Callers : calls[c].pc \in Ended \/ HeldByNobody)
=============================================================================
