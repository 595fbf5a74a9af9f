----------------------------- MODULE BaseUrlPool -----------------------------
(***************************************************************************)
(* The candidate hosts of inference calls (_routing.py): the pool every    *)
(* call of a client shares, its health race, which the first reader runs   *)
(* under a lock, and the calls that walk its list by index, reading it     *)
(* again before each send.  AsyncBaseUrlPool is the same machine with      *)
(* tasks for threads: the snapshot() its calls read after the first await  *)
(* is the read a thread makes once the race is over.                       *)
(*                                                                         *)
(* Each caller makes one call, and its sends fail until one is answered.   *)
(***************************************************************************)
EXTENDS Naturals, FiniteSets, Sequences, SequencesExt

CONSTANTS Callers,     \* threads or tasks using one client
          Regions,     \* REGION_BASE_URLS
          Aliases,     \* ALIAS_API_BASE_URLS
          MaxRetries

ASSUME PoolAssumption ==
    /\ Regions \in Seq(STRING)
    /\ Aliases \in Seq(STRING)
    /\ MaxRetries \in Nat
    /\ "free" \notin Callers

Default == "api"        \* DEFAULT_API_BASE_URL
Custom  == "custom"     \* any other base_url

VARIABLES setup,     \* the client's [base, failover]
          client,    \* whose httpx client get_client() returns
          pending,   \* the health race has still to be run
          urls,      \* the list current() returns
          lock,      \* who holds the pool's lock, if anyone
          calls      \* each caller's call

vars == <<setup, client, pending, urls, lock, calls>>

-----------------------------------------------------------------------------
(* dict.fromkeys: the first occurrence of each, in their order. *)
Dedup(s) ==
    LET firsts == {i \in 1..Len(s) : \A j \in 1..i-1 : s[j] # s[i]}
        Place(i) == Cardinality({j \in firsts : j <= i})
    IN  [k \in 1..Cardinality(firsts) |-> s[CHOOSE i \in firsts : Place(i) = k]]

InferenceBaseUrls(base) ==
    IF base # Default THEN <<base>> ELSE Dedup(<<base>> \o Aliases)

RegionCandidates(base) == Dedup(Append(Regions, base))

(* Mutant: the winner is put in front and not looked for further down. *)
OrderedWithDuplicates(base, winner) ==
    IF winner = "none"
    THEN InferenceBaseUrls(base)
    ELSE <<winner, base>> \o RegionCandidates(base) \o InferenceBaseUrls(base)

(* What the race makes of a base, by its winner. *)
Orders ==
    [base \in {Default, Custom} |->
        [winner \in ToSet(RegionCandidates(base)) |->
            Dedup(<<winner, base>> \o RegionCandidates(base) \o InferenceBaseUrls(base))]]

OrderedRegions(base, winner) ==
    IF winner = "none" THEN InferenceBaseUrls(base) ELSE Orders[base][winner]

(* The client's default is affinity; a custom base or no failover rules it *)
(* out.  (The caller can also turn it off: see Init.)                      *)
AffinityAllowed(s) == s.base = Default /\ s.failover

NewCall == [pc |-> "start", saw |-> "own", list |-> <<>>, index |-> 0, sent |-> <<>>]

Init ==
    /\ setup \in [base : {Default, Custom}, failover : BOOLEAN]
    /\ pending \in {FALSE, AffinityAllowed(setup)}
    /\ client = "own"
    /\ urls = InferenceBaseUrls(setup.base)
    /\ lock = "free"
    /\ calls = [c \in Callers |-> NewCall]

At(c, pc) == calls[c].pc = pc

Goto(c, pc) == calls' = [calls EXCEPT ![c].pc = pc]

(* A call that returns or raises leaves nothing behind. *)
End(c) == calls' = [calls EXCEPT ![c] = [NewCall EXCEPT !.pc = "ended"]]

Return(c, list) == calls' = [calls EXCEPT ![c].pc = "send", ![c].saw = "own",
                                         ![c].list = list]

-----------------------------------------------------------------------------
(* current(), one shared access at a time. *)
ReadClient(c) ==
    /\ At(c, "start")
    /\ calls' = [calls EXCEPT ![c].pc = "check", ![c].saw = client]
    /\ UNCHANGED <<setup, client, pending, urls, lock>>

(* Mutant: a reader does not wait for a race that is being run. *)
CheckWithoutWaiting(c) == ~pending \/ lock # "free"

MayReadNow(c) == ~pending

CheckPending(c) ==
    /\ At(c, "check")
    /\ \/ /\ calls[c].saw # "own"
          /\ pending' = FALSE
          /\ Return(c, urls)
       \/ /\ calls[c].saw = "own"
          /\ IF MayReadNow(c) THEN Return(c, urls) ELSE Goto(c, "lock")
          /\ UNCHANGED pending
    /\ UNCHANGED <<setup, client, urls, lock>>

MustRace == pending

Acquire(c) ==
    /\ At(c, "lock")
    /\ lock = "free"
    /\ IF MustRace
       THEN lock' = c /\ Goto(c, "race")
       ELSE Return(c, urls) /\ UNCHANGED lock
    /\ UNCHANGED <<setup, client, pending, urls>>

(* The first healthy answer wins the race; nobody may answer. *)
RaceEnds(c) ==
    /\ At(c, "race")
    /\ \E winner \in ToSet(RegionCandidates(setup.base)) \cup {"none"} :
          urls' = OrderedRegions(setup.base, winner)
    /\ pending' = FALSE
    /\ lock' = "free"
    /\ Return(c, urls')
    /\ UNCHANGED <<setup, client>>

(* Mutant: an interrupted race leaves the lock taken. *)
InterruptKeepsLock(c) ==
    /\ At(c, "race")
    /\ End(c)
    /\ UNCHANGED <<setup, client, pending, urls, lock>>

(* An interrupt or a cancellation while the race is awaited. *)
RaceIsInterrupted(c) ==
    /\ At(c, "race")
    /\ lock' = "free"
    /\ End(c)
    /\ UNCHANGED <<setup, client, pending, urls>>

-----------------------------------------------------------------------------
Send(c) ==
    /\ At(c, "send")
    /\ calls' = [calls EXCEPT ![c].pc = "wait",
                              ![c].sent = Append(@, calls[c].list[calls[c].index + 1])]
    /\ UNCHANGED <<setup, client, pending, urls, lock>>

Answered(c) ==
    /\ At(c, "wait")
    /\ End(c)
    /\ UNCHANGED <<setup, client, pending, urls, lock>>

(* The host was not reached: the controller counts the attempt and moves   *)
(* to the next candidate, if there is one.                                 *)
HostIsDead(c) ==
    /\ At(c, "wait")
    /\ IF Len(calls[c].sent) > MaxRetries
       THEN End(c)
       ELSE calls' = [calls EXCEPT
                ![c].pc = "start",
                ![c].index = IF setup.failover /\ @ + 1 < Len(urls) THEN @ + 1 ELSE @]
    /\ UNCHANGED <<setup, client, pending, urls, lock>>

(* Somebody assigns another httpx client to the facade. *)
SwapClient ==
    /\ client = "own"
    /\ client' = "swapped"
    /\ UNCHANGED <<setup, pending, urls, lock, calls>>

-----------------------------------------------------------------------------
Hosts == {Default, Custom} \cup ToSet(Regions) \cup ToSet(Aliases)

(* A caller is "gone" in a child it was not forked with. *)
Ended == {"ended", "gone"}

PoolTypeOK ==
    /\ setup \in [base : {Default, Custom}, failover : BOOLEAN]
    /\ client \in {"own", "swapped"}
    /\ pending \in BOOLEAN
    /\ urls \in Seq(Hosts)
    /\ lock \in Callers \cup {"free"}
    /\ \A c \in Callers :
          /\ calls[c].pc \in {"start", "check", "lock", "race", "send", "wait"} \cup Ended
          /\ calls[c].sent \in Seq(Hosts)

(* A call's index stays inside the list although the list can be replaced  *)
(* between two of its sends, and what the list holds are the hosts the     *)
(* client knows.                                                           *)
IndexInList ==
    /\ PoolTypeOK
    /\ \A c \in Callers :
        /\ calls[c].index < Len(urls)
        /\ At(c, "send") => calls[c].index < Len(calls[c].list)

(* While the list is stable, a call whose hosts are dead does not go back  *)
(* to one before it has seen them all.                                     *)
NoHostTwice ==
    client = "own" /\ setup.failover =>
        \A c \in Callers :
            \A i, j \in 1..Len(calls[c].sent) :
                i < j /\ calls[c].sent[i] = calls[c].sent[j] =>
                    ToSet(urls) \subseteq ToSet(SubSeq(calls[c].sent, 1, j - 1))
=============================================================================
