------------------------- MODULE SharedClient_proofs -------------------------
(***************************************************************************)
(* The client and its pool, for any number of callers, of calls of any     *)
(* kind, of threads of the race, and any lists of hosts.  In six parts:    *)
(*                                                                         *)
(*    the reporter   ReporterInv: whoever is between the two accesses of   *)
(*                   _recorder that make the reporter is still in his call *)
(*    the lists      what Dedup returns, and the lists a race can make     *)
(*    the pool       PoolInv: where every call stands in the list          *)
(*    the facade     FacadeInv: at what stage of what kind of call each is *)
(*    the hooks      HooksInv: which lists of hooks a client can have, and *)
(*                   what each installer has seen of them                  *)
(*    the wire       what those hooks make of a request, in their order    *)
(*                                                                         *)
(* The first, third and fourth are one invariant, SharedInv; the fifth is  *)
(* one given it.                                                           *)
(***************************************************************************)
EXTENDS SharedClient, FiniteSetTheorems, FunctionTheorems, SequenceTheorems,
        WellFoundedInduction, TLAPS

Fields == {"kind", "stage", "reporter", "via", "resent"}

Shape ==
    /\ DOMAIN calls = Callers
    /\ DOMAIN facade = Callers
    /\ \A c \in Callers : DOMAIN facade[c] = Fields
    /\ reporters \in Seq({"open", "closed"})
    /\ lent \in BOOLEAN
    /\ open \in [{"own", "swapped"} -> BOOLEAN]
    /\ closer \in {"none", "flushed", "done"}
    /\ client \in {"own", "swapped"}

MakerInv ==
    /\ sink \in {0, 1} /\ Len(reporters) = sink
    /\ \A c \in Callers :
          /\ facade[c].reporter \in {0, sink}
          /\ facade[c].stage \in {"making", "owning"} =>
                facade[c].kind = "inference" /\ (~forked => calls[c].pc = "start")
    /\ sink # 0 /\ ~owns /\ ~forked => \E c \in Callers : facade[c].stage = "owning"

ClosedInv ==
    /\ quiet => sink # 0
    /\ quiet /\ ~forked => reporters[sink] = "closed"
    /\ lent => open.own /\ open.swapped
    /\ ~lent /\ closer = "done" => ~open.own \/ ~open.swapped

ReporterInv == Shape /\ MakerInv /\ ClosedInv

-----------------------------------------------------------------------------
(* A step of somebody who installs, or of a probe that begins to. *)
Installing ==
    \/ \E i \in Installers : InstallStep(i)
    \/ \E p \in Probes : StartProbe(p)

(* A step of c that leaves the other callers' part alone. *)
OnlyCaller(c) ==
    /\ DOMAIN calls' = Callers
    /\ \A d \in Callers \ {c} : calls'[d] = calls[d]

(* A step of c that is neither before nor after it in _recorder. *)
OutOfRecorder(c) ==
    /\ DOMAIN facade' = Callers
    /\ \A d \in Callers \ {c} : facade'[d] = facade[d]
    /\ DOMAIN facade'[c] = Fields
    /\ facade'[c].reporter = facade[c].reporter
    /\ facade'[c].kind = facade[c].kind
    /\ facade'[c].stage \in {facade[c].stage, "installing", "ready"}

ClientUnchanged ==
    UNCHANGED <<lent, open, reporters, sink, owns, makerLock, closer, quiet, forked>>

(* A step of c's over the pool. *)
LEMMA PoolStep ==
    ASSUME Shape, NEW c \in Callers,
           \/ ReadClient(c) \/ CheckPending(c) \/ Acquire(c) \/ RaceEnds(c)
           \/ RaceIsInterrupted(c) \/ Send(c) \/ Answered(c) \/ HostIsDead(c)
    PROVE  /\ OnlyCaller(c)
           /\ client' = client
<1>1. \E r : calls' = [calls EXCEPT ![c] = r]
  BY DEF ReadClient, CheckPending, Acquire, RaceEnds, RaceIsInterrupted, Send, Answered,
         HostIsDead, Goto, Return, End
<1>2. client' = client
  BY DEF ReadClient, CheckPending, Acquire, RaceEnds, RaceIsInterrupted, Send, Answered,
         HostIsDead
<1>3. OnlyCaller(c)
  BY <1>1 DEF OnlyCaller, Shape
<1>4. QED BY <1>2, <1>3

LEMMA OutOfRecorderStep ==
    ASSUME ReporterInv, NEW c \in Callers, OnlyCaller(c), OutOfRecorder(c),
           ClientUnchanged, client' = client,
           facade[c].stage \in {"making", "owning"} => forked
    PROVE  ReporterInv'
<1>1. Shape'
  BY DEF ReporterInv, Shape, OnlyCaller, OutOfRecorder, ClientUnchanged
<1>2. MakerInv'
  BY DEF ReporterInv, MakerInv, OnlyCaller, OutOfRecorder, ClientUnchanged
<1>3. ClosedInv'
  BY DEF ReporterInv, ClosedInv, ClientUnchanged
<1>4. QED BY <1>1, <1>2, <1>3 DEF ReporterInv

LEMMA InitReporter == ClientInit => ReporterInv
<1> SUFFICES ASSUME ClientInit PROVE ReporterInv
  OBVIOUS
<1>1. PICK kinds : facade = [c \in Callers |-> NewFacade(kinds[c])]
  BY DEF ClientInit
<1>2. Shape
  <2>1. /\ open = [own |-> TRUE, swapped |-> TRUE] /\ lent \in BOOLEAN
        /\ reporters = <<>> /\ closer = "none" /\ client = "own"
        /\ DOMAIN calls = Callers
    BY DEF ClientInit, Init
  <2>2. open \in [{"own", "swapped"} -> BOOLEAN]
    <3>1. /\ DOMAIN open = {"own", "swapped"} /\ open["own"] = TRUE /\ open["swapped"] = TRUE
          /\ open = [id \in {"own", "swapped"} |-> open[id]]
      BY <2>1
    <3>2. QED BY <3>1
  <2>3. DOMAIN facade = Callers /\ \A c \in Callers : DOMAIN facade[c] = Fields
    BY <1>1 DEF NewFacade, Fields
  <2>4. reporters \in Seq({"open", "closed"})
    BY <2>1
  <2>5. QED BY <2>1, <2>2, <2>3, <2>4 DEF Shape
<1>3. MakerInv
  BY <1>1 DEF ClientInit, MakerInv, NewFacade
<1>4. ClosedInv
  BY DEF ClientInit, ClosedInv
<1>5. QED BY <1>2, <1>3, <1>4 DEF ReporterInv

(* The three steps of _recorder. *)
LEMMA RecorderStep ==
    ASSUME ReporterInv, NEW c \in Callers, At(c, "start"),
           LookForSink(c) \/ MakeReporter(c) \/ OwnReporter(c)
    PROVE  ReporterInv'
<1>1. /\ Shape /\ MakerInv /\ ClosedInv
      /\ calls[c].pc = "start"
      /\ UNCHANGED <<calls, client, lent, open, closer, quiet, forked>>
  BY DEF ReporterInv, At, LookForSink, MakeReporter, OwnReporter, vars
<1>2. CASE LookForSink(c)
  <2>1. /\ UNCHANGED <<reporters, sink, owns>>
        /\ facade[c].kind = "inference" /\ facade[c].stage = "fresh"
    BY <1>2 DEF LookForSink, Is, Stage
  <2>2. /\ DOMAIN facade' = Callers
        /\ \A d \in Callers \ {c} : facade'[d] = facade[d]
        /\ DOMAIN facade'[c] = Fields /\ facade'[c].kind = facade[c].kind
        /\ facade'[c].reporter \in {facade[c].reporter, 0, sink}
        /\ facade'[c].stage \in {"making", "ready"}
    BY <1>1, <1>2 DEF LookForSink, Ready, Shape, Fields
  <2>3. Shape'
    BY <1>1, <2>1, <2>2 DEF Shape
  <2>4. MakerInv'
    BY <1>1, <2>1, <2>2 DEF MakerInv
  <2>5. ClosedInv'
    BY <1>1, <2>1 DEF ClosedInv
  <2>6. QED BY <2>3, <2>4, <2>5 DEF ReporterInv
<1>3. CASE MakeReporter(c)
  <2>1. facade[c].stage = "making" /\ facade[c].kind = "inference" /\ owns' = owns
    BY <1>1, <1>3 DEF MakeReporter, Stage, MakerInv
  <2>2. CASE sink = 0
    <3>1. /\ reporters' = Append(reporters, "open") /\ sink' = Len(reporters')
          /\ facade' = [facade EXCEPT ![c].stage = "owning"]
      BY <1>3, <2>2 DEF MakeReporter, MustMake
    <3>2. /\ DOMAIN facade' = Callers
          /\ \A d \in Callers \ {c} : facade'[d] = facade[d]
          /\ DOMAIN facade'[c] = Fields /\ facade'[c].kind = facade[c].kind
          /\ facade'[c].reporter = facade[c].reporter
          /\ facade'[c].stage = "owning"
      BY <1>1, <3>1 DEF Shape, Fields
    <3>3. sink' = 1 /\ Len(reporters') = 1 /\ reporters' \in Seq({"open", "closed"})
      BY <1>1, <2>2, <3>1 DEF MakerInv, Shape
    <3>4. Shape'
      BY <1>1, <3>2, <3>3 DEF Shape
    <3>5. MakerInv'
      BY <1>1, <2>1, <2>2, <3>2, <3>3 DEF MakerInv
    <3>6. ClosedInv'
      BY <1>1, <2>2, <3>3 DEF ClosedInv
    <3>7. QED BY <3>4, <3>5, <3>6 DEF ReporterInv
  <2>3. CASE sink # 0
    <3>1. UNCHANGED <<reporters, sink>> /\ Ready(c, sink)
      BY <1>3, <2>3 DEF MakeReporter, MustMake
    <3>2. /\ DOMAIN facade' = Callers
          /\ \A d \in Callers \ {c} : facade'[d] = facade[d]
          /\ DOMAIN facade'[c] = Fields /\ facade'[c].kind = facade[c].kind
          /\ facade'[c].reporter = sink
          /\ facade'[c].stage = "ready"
      BY <1>1, <3>1 DEF Ready, Shape, Fields
    <3>3. Shape'
      BY <1>1, <3>1, <3>2 DEF Shape
    <3>4. MakerInv'
      BY <1>1, <2>1, <2>3, <3>1, <3>2 DEF MakerInv
    <3>5. ClosedInv'
      BY <1>1, <3>1 DEF ClosedInv
    <3>6. QED BY <3>3, <3>4, <3>5 DEF ReporterInv
  <2>4. QED BY <2>2, <2>3
<1>4. CASE OwnReporter(c)
  <2>1. UNCHANGED <<reporters, sink>> /\ owns' = TRUE /\ Ready(c, sink)
    BY <1>4 DEF OwnReporter
  <2>2. /\ DOMAIN facade' = Callers
        /\ \A d \in Callers \ {c} : facade'[d] = facade[d]
        /\ DOMAIN facade'[c] = Fields /\ facade'[c].kind = facade[c].kind
        /\ facade'[c].reporter = sink
        /\ facade'[c].stage = "ready"
    BY <1>1, <2>1 DEF Ready, Shape, Fields
  <2>3. Shape'
    BY <1>1, <2>1, <2>2 DEF Shape
  <2>4. MakerInv'
    BY <1>1, <2>1, <2>2 DEF MakerInv
  <2>5. ClosedInv'
    BY <1>1, <2>1 DEF ClosedInv
  <2>6. QED BY <2>3, <2>4, <2>5 DEF ReporterInv
<1>5. QED BY <1>2, <1>3, <1>4

(* A facade's record after a change of some fields. *)
LEMMA SendsByStep ==
    ASSUME Shape, NEW c \in Callers, NEW id, SendsBy(c, id)
    PROVE  OutOfRecorder(c)
  BY DEF Shape, Fields, SendsBy, OutOfRecorder

LEMMA InstallsByStep ==
    ASSUME Shape, NEW c \in Callers, NEW id,
           facade' = [facade EXCEPT ![c].stage = "installing", ![c].via = id]
    PROVE  OutOfRecorder(c)
  BY DEF Shape, Fields, OutOfRecorder

LEMMA SameFacade ==
    ASSUME Shape, NEW c \in Callers, facade' = facade
    PROVE  OutOfRecorder(c)
  BY DEF Shape, OutOfRecorder

LEMMA SameCalls ==
    ASSUME Shape, NEW c \in Callers, calls' = calls
    PROVE  OnlyCaller(c)
  BY DEF Shape, OnlyCaller

LEMMA CallsExcept ==
    ASSUME Shape, NEW c \in Callers, NEW r, calls' = [calls EXCEPT ![c] = r]
    PROVE  OnlyCaller(c)
  BY DEF Shape, OnlyCaller

(* A caller inside _recorder, of a client that was not forked, is at the   *)
(* start of an inference call.                                             *)
LEMMA InRecorder ==
    ASSUME ReporterInv, NEW c \in Callers,
           \/ calls[c].pc # "start"
           \/ facade[c].kind # "inference"
           \/ facade[c].stage \notin {"making", "owning"}
    PROVE  facade[c].stage \in {"making", "owning"} => forked
  BY DEF ReporterInv, MakerInv

(* On the way over the pool, and in the race. *)
LEMMA ChooseHostStep ==
    ASSUME ReporterInv, NEW c \in Callers, ChooseHost(c)
    PROVE  ReporterInv'
<1>1. facade[c].stage = "ready" /\ Shape
  BY DEF ChooseHost, Stage, ReporterInv
<1>2. ClientUnchanged
  BY DEF ChooseHost, ClientUnchanged, clientVars
<1>3. OnlyCaller(c) /\ client' = client
  BY <1>1, PoolStep DEF ChooseHost
<1>4. OutOfRecorder(c)
  BY <1>1, SameFacade DEF ChooseHost, clientVars
<1>5. QED BY <1>1, <1>2, <1>3, <1>4, OutOfRecorderStep

LEMMA RaceStep ==
    ASSUME ReporterInv, NEW c \in Callers, EndRace(c) \/ InterruptRace(c)
    PROVE  ReporterInv'
<1>1. (RaceEnds(c) \/ RaceIsInterrupted(c)) /\ UNCHANGED clientVars
  BY DEF EndRace, InterruptRace
<1>2. Shape /\ calls[c].pc = "race"
  BY <1>1 DEF ReporterInv, RaceEnds, RaceIsInterrupted, At
<1>3. ClientUnchanged /\ OutOfRecorder(c)
  BY <1>1, <1>2, SameFacade DEF ClientUnchanged, clientVars
<1>4. OnlyCaller(c) /\ client' = client
  BY <1>1, <1>2, PoolStep
<1>5. QED BY <1>2, <1>3, <1>4, InRecorder, OutOfRecorderStep

(* Installing the hook, and every way to send. *)
LEMMA SendStep ==
    ASSUME ReporterInv, NEW c \in Callers,
           \/ SendInference(c) \/ InstallFirst(c) \/ SendMetadata(c)
           \/ SendElsewhere(c) \/ FindClosed(c)
    PROVE  ReporterInv'
<1>1. Shape
  BY DEF ReporterInv
<1>2. CASE SendInference(c)
  <2>1. calls[c].pc = "send" /\ ClientUnchanged /\ facade' = facade
    BY <1>2 DEF SendInference, Send, At, clientVars, ClientUnchanged
  <2>2. OnlyCaller(c) /\ client' = client
    BY <1>1, <1>2, PoolStep DEF SendInference
  <2>3. QED BY <1>1, <2>1, <2>2, SameFacade, InRecorder, OutOfRecorderStep
<1>3. CASE InstallFirst(c)
  <2>1. facade[c].kind = "metadata" /\ ClientUnchanged /\ calls' = calls /\ client' = client
    BY <1>3 DEF InstallFirst, Is, vars, ClientUnchanged
  <2>2. OutOfRecorder(c)
    BY <1>1, <1>3, InstallsByStep DEF InstallFirst
  <2>3. QED BY <1>1, <2>1, <2>2, SameCalls, InRecorder, OutOfRecorderStep
<1>4. CASE SendMetadata(c) \/ SendElsewhere(c)
  <2>1. PICK id : SendVia(c, id)
    BY <1>4 DEF SendMetadata, SendElsewhere
  <2>2. facade[c].kind # "inference"
    BY <1>4 DEF SendMetadata, SendElsewhere, Is
  <2>3. ClientUnchanged /\ client' = client /\ SendsBy(c, id)
    BY <2>1 DEF SendVia, ClientUnchanged
  <2>4. \E r : calls' = [calls EXCEPT ![c] = r]
    BY <2>1 DEF SendVia, Goto, End
  <2>5. QED BY <1>1, <2>2, <2>3, <2>4, SendsByStep, CallsExcept, InRecorder, OutOfRecorderStep
<1>5. CASE FindClosed(c)
  <2>1. /\ calls[c].pc = "send" /\ ClientUnchanged /\ facade' = facade /\ client' = client
        /\ \E r : calls' = [calls EXCEPT ![c] = r]
    BY <1>5 DEF FindClosed, At, End, clientVars, ClientUnchanged
  <2>2. QED BY <1>1, <2>1, SameFacade, CallsExcept, InRecorder, OutOfRecorderStep
<1>6. QED BY <1>2, <1>3, <1>4, <1>5

(* An answer, or none. *)
LEMMA AnswerStep ==
    ASSUME ReporterInv, NEW c \in Callers, Answer(c) \/ NoAnswer(c)
    PROVE  ReporterInv'
<1>1. Shape /\ calls[c].pc = "wait" /\ ClientUnchanged /\ client' = client
  BY DEF ReporterInv, Answer, NoAnswer, Answered, HostIsDead, At, clientVars, ClientUnchanged
<1>2. OnlyCaller(c)
  <2>1. CASE Answered(c) \/ HostIsDead(c)
    BY <1>1, <2>1, PoolStep
  <2>2. CASE ~(Answered(c) \/ HostIsDead(c))
    <3>1. \E r : calls' = [calls EXCEPT ![c] = r]
      BY <2>2 DEF Answer, NoAnswer, Goto, End
    <3>2. QED BY <1>1, <3>1, CallsExcept
  <2>3. QED BY <2>1, <2>2
<1>3. OutOfRecorder(c)
  <2>1. \/ facade' = facade
        \/ facade' = [facade EXCEPT ![c].resent = @ + 1]
    BY DEF Answer, NoAnswer, clientVars
  <2>2. QED BY <1>1, <2>1, SameFacade DEF Shape, Fields, OutOfRecorder
<1>4. QED BY <1>1, <1>2, <1>3, InRecorder, OutOfRecorderStep

-----------------------------------------------------------------------------
LEMMA CloseReporterStep ==
    ASSUME ReporterInv, CloseReporter
    PROVE  ReporterInv'
<1>1. /\ Shape /\ MakerInv /\ ClosedInv
      /\ UNCHANGED <<calls, client, lent, open, sink, owns, forked, facade>>
      /\ closer = "none" /\ closer' = "flushed"
  BY DEF ReporterInv, CloseReporter, vars
<1>2. /\ reporters' = IF owns /\ sink # 0 THEN [reporters EXCEPT ![sink] = "closed"]
                                          ELSE reporters
      /\ quiet' = (sink # 0 /\ \A c \in Callers : Idle(c))
  BY DEF CloseReporter, ClosesReporter
<1>3. /\ reporters' \in Seq({"open", "closed"}) /\ Len(reporters') = sink
      /\ owns /\ sink # 0 => reporters'[sink] = "closed"
  <2>1. reporters \in Seq({"open", "closed"}) /\ Len(reporters) = sink /\ sink \in {0, 1}
    BY <1>1 DEF Shape, MakerInv
  <2>2. CASE owns /\ sink # 0
    <3>1. DOMAIN reporters = 1..1 /\ sink = 1
      BY <2>1, <2>2
    <3>2. reporters' = [reporters EXCEPT ![1] = "closed"]
      BY <1>2, <2>2, <3>1
    <3>3. reporters' = <<"closed">>
      BY <2>1, <3>1, <3>2
    <3>4. QED BY <3>1, <3>3
  <2>3. CASE ~(owns /\ sink # 0)
    BY <1>2, <2>1, <2>3
  <2>4. QED BY <2>2, <2>3
<1>4. ASSUME quiet', ~forked PROVE owns
  <2>1. SUFFICES ASSUME ~owns PROVE FALSE
    OBVIOUS
  <2>2. PICK c \in Callers : facade[c].stage = "owning"
    BY <1>1, <1>2, <1>4, <2>1 DEF MakerInv
  <2>3. calls[c].pc = "start"
    BY <1>1, <1>4, <2>2 DEF MakerInv
  <2>4. ~Idle(c)
    BY <2>2, <2>3 DEF Idle, Ended, Stage
  <2>5. QED BY <1>2, <1>4, <2>4
<1>5. Shape'
  BY <1>1, <1>3 DEF Shape
<1>6. MakerInv'
  BY <1>1, <1>3 DEF MakerInv
<1>7. ClosedInv'
  <2>1. quiet' => sink' # 0
    BY <1>1, <1>2
  <2>2. quiet' /\ ~forked' => reporters'[sink'] = "closed"
    BY <1>1, <1>3, <1>4, <2>1
  <2>3. QED BY <1>1, <2>1, <2>2 DEF ClosedInv
<1>8. QED BY <1>5, <1>6, <1>7 DEF ReporterInv

LEMMA OutsideStep ==
    ASSUME ReporterInv,
           Installing \/ CloseHttpx \/ WriteHooks \/ Swap \/ Fork \/ UNCHANGED allVars
    PROVE  ReporterInv'
<1>1. Shape /\ MakerInv /\ ClosedInv
  BY DEF ReporterInv
<1>2. CASE CloseHttpx
  <2>1. /\ UNCHANGED <<calls, client, lent, reporters, sink, owns, quiet, forked, facade>>
        /\ open' = [open EXCEPT ![client] = lent] /\ closer' = "done"
    BY <1>2 DEF CloseHttpx, vars
  <2>2. Shape'
    BY <1>1, <2>1 DEF Shape
  <2>3. MakerInv'
    BY <1>1, <2>1 DEF MakerInv
  <2>4. open'[client] = lent /\ \A id \in {"own", "swapped"} \ {client} : open'[id] = open[id]
    BY <1>1, <2>1 DEF Shape
  <2>5. client = "own" \/ client = "swapped"
    BY <1>1 DEF Shape
  <2>6. ClosedInv'
    <3>1. CASE client = "own"
      BY <1>1, <2>1, <2>4, <3>1 DEF ClosedInv
    <3>2. CASE client = "swapped"
      BY <1>1, <2>1, <2>4, <3>2 DEF ClosedInv
    <3>3. QED BY <2>5, <3>1, <3>2
  <2>7. QED BY <2>2, <2>3, <2>6 DEF ReporterInv
<1>3. CASE Installing \/ WriteHooks \/ UNCHANGED allVars
  <2>1. UNCHANGED <<calls, client, lent, open, reporters, sink, owns, closer, quiet, forked, facade>>
    BY <1>3 DEF Installing, InstallStep, StartProbe, WriteHooks, allVars, vars, clientVars
  <2>2. QED BY <1>1, <2>1 DEF ReporterInv, Shape, MakerInv, ClosedInv
<1>4. CASE Swap
  <2>1. /\ UNCHANGED <<calls, lent, open, reporters, sink, owns, closer, quiet, forked, facade>>
        /\ client' = "swapped"
    BY <1>4 DEF Swap, SwapClient, clientVars
  <2>2. QED BY <1>1, <2>1 DEF ReporterInv, Shape, MakerInv, ClosedInv
<1>5. CASE Fork
  <2>1. /\ UNCHANGED <<client, lent, open, sink, owns, closer, quiet, facade>>
        /\ forked' = TRUE /\ DOMAIN calls' = Callers
        /\ reporters' = [i \in DOMAIN reporters |-> "open"]
    BY <1>5 DEF Fork
  <2>2. reporters' \in Seq({"open", "closed"}) /\ Len(reporters') = Len(reporters)
    BY <1>1, <2>1 DEF Shape
  <2>3. Shape'
    BY <1>1, <2>1, <2>2 DEF Shape
  <2>4. MakerInv'
    BY <1>1, <2>1, <2>2 DEF MakerInv
  <2>5. ClosedInv'
    BY <1>1, <2>1 DEF ClosedInv
  <2>6. QED BY <2>3, <2>4, <2>5 DEF ReporterInv
<1>6. QED BY <1>2, <1>3, <1>4, <1>5

LEMMA StepReporter == ReporterInv /\ [ClientNext]_allVars => ReporterInv'
<1> SUFFICES ASSUME ReporterInv, [ClientNext]_allVars PROVE ReporterInv'
  OBVIOUS
<1>1. ASSUME NEW c \in Callers, ClientStep(c) \/ InterruptRace(c), ~Installing
      PROVE  ReporterInv'
  <2>1. ~InstallStep(c)
    BY <1>1 DEF Installing, Installers
  <2>2. QED BY <1>1, <2>1, RecorderStep, ChooseHostStep, RaceStep, SendStep, AnswerStep DEF ClientStep
<1>2. CASE CloseReporter
  BY <1>2, CloseReporterStep
<1>3. CASE Installing \/ CloseHttpx \/ WriteHooks \/ Swap \/ Fork \/ UNCHANGED allVars
  BY <1>3, OutsideStep
<1>4. Installing \/ ~\E p \in Probes : StartProbe(p) \/ InstallStep(p)
  BY DEF Installing, Installers
<1>5. QED BY <1>1, <1>2, <1>3, <1>4 DEF ClientNext

(* One reporter, which every recorded call reports to; close() between     *)
(* calls closes it and the client's own httpx client, and nothing lent     *)
(* (_recorder's two looks at the sink, and close()).                       *)
THEOREM ReporterIsOne == ClientSpec => []OneReporter
<1>1. ReporterInv => OneReporter
  BY DEF ReporterInv, MakerInv, ClosedInv, OneReporter
<1>2. ClientSpec => []ReporterInv
  BY InitReporter, StepReporter, PTL DEF ClientSpec
<1>3. QED BY <1>1, <1>2, PTL

-----------------------------------------------------------------------------
(***************************************************************************)
(* The lists.                                                              *)
(***************************************************************************)
(* A set of numbers has a least one. *)
LEMMA LeastExists ==
    ASSUME NEW I \in SUBSET Nat, I # {}
    PROVE  \E m \in I : \A i \in I : m <= i
<1> DEFINE R == {ss \in Nat \X Nat : ss[1] < ss[2]}
<1>1. IsWellFoundedOn(R, Nat)
  BY Zenon, NatLessThanWellFounded DEF OpToRel
<1>2. PICK m \in I : \A i \in I : <<i, m>> \notin R
  <2> HIDE DEF R
  <2> QED BY <1>1, WFMin
<1>3. ASSUME NEW i \in I PROVE m <= i
  <2>1. i \in Nat /\ m \in Nat /\ <<i, m>> \in Nat \X Nat /\ <<i, m>> \notin R
    BY <1>2
  <2>2. ~(i < m)
    BY <2>1
  <2>3. QED BY <2>1, <2>2
<1>4. QED BY <1>3

Distinct(s) == \A i, j \in 1..Len(s) : s[i] = s[j] => i = j

(* A sequence without duplicates is no longer than one that has its items. *)
LEMMA ShorterThan ==
    ASSUME NEW s, NEW t, Len(s) \in Nat, Len(t) \in Nat, Distinct(s),
           \A i \in 1..Len(s) : \E j \in 1..Len(t) : t[j] = s[i]
    PROVE  Len(s) <= Len(t)
<1> DEFINE f == [i \in 1..Len(s) |-> CHOOSE j \in 1..Len(t) : t[j] = s[i]]
<1>1. \A i \in 1..Len(s) : f[i] \in 1..Len(t) /\ t[f[i]] = s[i]
  OBVIOUS
<1>2. f \in [1..Len(s) -> 1..Len(t)]
  BY <1>1
<1> HIDE DEF f
<1>3. \A i, j \in 1..Len(s) : f[i] = f[j] => i = j
  BY <1>1 DEF Distinct
<1>4. f \in Injection(1..Len(s), 1..Len(t))
  BY <1>2, <1>3 DEF Injection, IsInjective
<1>5. /\ IsFiniteSet(1..Len(s)) /\ Cardinality(1..Len(s)) = Len(s)
      /\ IsFiniteSet(1..Len(t)) /\ Cardinality(1..Len(t)) = Len(t)
  <2>1. 1 \in Int /\ Len(s) \in Int /\ Len(t) \in Int
    OBVIOUS
  <2>2. /\ IsFiniteSet(1..Len(s)) /\ Cardinality(1..Len(s)) = IF 1 > Len(s) THEN 0 ELSE Len(s) - 1 + 1
        /\ IsFiniteSet(1..Len(t)) /\ Cardinality(1..Len(t)) = IF 1 > Len(t) THEN 0 ELSE Len(t) - 1 + 1
    BY <2>1, FS_Interval
  <2>3. QED BY <2>2
<1>6. Cardinality(1..Len(s)) <= Cardinality(1..Len(t))
  BY <1>4, <1>5, FS_Injection
<1>7. QED BY <1>5, <1>6

(* The first occurrences in s, and how manieth each is. *)
Firsts(s) == {i \in 1..Len(s) : \A j \in 1..i-1 : s[j] # s[i]}

Place(s, i) == Cardinality({j \in Firsts(s) : j <= i})

(* The first occurrences are numbered from 1, each with its own number. *)
LEMMA PlacesAre ==
    ASSUME NEW S, NEW s \in Seq(S)
    PROVE  /\ IsFiniteSet(Firsts(s)) /\ Cardinality(Firsts(s)) \in Nat
           /\ \A i \in Firsts(s) : Place(s, i) \in 1..Cardinality(Firsts(s))
           /\ \A i, j \in Firsts(s) : Place(s, i) = Place(s, j) => i = j
           /\ \A k \in 1..Cardinality(Firsts(s)) : \E i \in Firsts(s) : Place(s, i) = k
<1> DEFINE F == Firsts(s)
           Upto(i) == {j \in F : j <= i}
<1>1. F \in SUBSET Nat /\ F \subseteq 1..Len(s) /\ Len(s) \in Nat
  BY DEF Firsts
<1>2. IsFiniteSet(1..Len(s))
  <2>1. 1 \in Int /\ Len(s) \in Int
    BY <1>1
  <2>2. QED BY <2>1, FS_Interval
<1>3. IsFiniteSet(F) /\ Cardinality(F) \in Nat
  BY <1>1, <1>2, FS_Subset, FS_CardinalityType
<1>4. \A i \in F : Place(s, i) = Cardinality(Upto(i))
  BY DEF Place
<1> HIDE DEF F
<1>5. ASSUME NEW i \in F
      PROVE  /\ IsFiniteSet(Upto(i)) /\ Cardinality(Upto(i)) \in Nat
             /\ Cardinality(Upto(i)) <= Cardinality(F)
             /\ Cardinality(Upto(i)) # 0
  <2>1. Upto(i) \subseteq F /\ i \in Upto(i)
    BY <1>1
  <2> HIDE DEF Upto
  <2>2. IsFiniteSet(Upto(i)) /\ Cardinality(Upto(i)) \in Nat /\ Cardinality(Upto(i)) <= Cardinality(F)
    BY <1>3, <2>1, FS_Subset, FS_CardinalityType
  <2>3. Cardinality(Upto(i)) # 0
    BY <2>1, <2>2, FS_EmptySet
  <2>4. QED BY <2>2, <2>3
<1>6. ASSUME NEW i \in F PROVE Place(s, i) \in 1..Cardinality(F)
  <2> DEFINE p == Cardinality(Upto(i))
             n == Cardinality(F)
  <2>1. n \in Nat /\ p \in Nat /\ p <= n /\ p # 0 /\ Place(s, i) = p
    BY <1>3, <1>4, <1>5
  <2> HIDE DEF p, n
  <2>2. Place(s, i) \in 1..n
    BY <2>1
  <2>3. QED BY <2>2 DEF n
<1>7. ASSUME NEW i \in F, NEW j \in F, i < j PROVE Place(s, i) # Place(s, j)
  <2>1. i \in Nat /\ j \in Nat
    BY <1>1
  <2>2. Upto(i) \subseteq Upto(j) /\ j \in Upto(j) /\ j \notin Upto(i)
    <3>1. \A k \in F : k \in Nat
      BY <1>1
    <3>2. \A k \in F : k <= i => k <= j
      BY <1>7, <2>1, <3>1
    <3>3. j <= j /\ ~(j <= i)
      BY <1>7, <2>1
    <3>4. QED BY <3>2, <3>3
  <2>3. IsFiniteSet(Upto(j))
    BY <1>5
  <2>4. Place(s, i) = Cardinality(Upto(i)) /\ Place(s, j) = Cardinality(Upto(j))
    BY <1>4
  <2> HIDE DEF Upto
  <2>5. Upto(i) # Upto(j)
    BY <2>2
  <2>6. QED BY <2>2, <2>3, <2>4, <2>5, FS_Subset
<1>8. ASSUME NEW i \in F, NEW j \in F, Place(s, i) = Place(s, j) PROVE i = j
  <2>1. i \in Nat /\ j \in Nat
    BY <1>1
  <2>2. i < j \/ j < i \/ i = j
    BY <2>1
  <2>3. QED BY <1>7, <1>8, <2>2
<1> DEFINE f == [i \in F |-> Place(s, i)]
<1>9. f \in Injection(F, 1..Cardinality(F))
  <2>1. f \in [F -> 1..Cardinality(F)]
    BY <1>6
  <2>2. IsInjective(f)
    BY <1>8 DEF IsInjective
  <2>3. QED BY <2>1, <2>2 DEF Injection
<1>10. IsFiniteSet(1..Cardinality(F)) /\ Cardinality(1..Cardinality(F)) = Cardinality(F)
  <2>1. 1 \in Int /\ Cardinality(F) \in Int
    BY <1>3
  <2>2. /\ IsFiniteSet(1..Cardinality(F))
        /\ Cardinality(1..Cardinality(F)) =
              IF 1 > Cardinality(F) THEN 0 ELSE Cardinality(F) - 1 + 1
    BY <2>1, FS_Interval
  <2>3. QED BY <1>3, <2>2
<1>11. f \in Surjection(F, 1..Cardinality(F))
  <2> HIDE DEF f
  <2>1. QED BY <1>9, <1>10, FS_Injection
<1>12. ASSUME NEW k \in 1..Cardinality(F) PROVE \E i \in F : Place(s, i) = k
  <2>1. \E i \in F : f[i] = k
    <3> HIDE DEF f
    <3> QED BY <1>11 DEF Surjection
  <2>2. QED BY <2>1
<1>13. QED BY <1>3, <1>6, <1>8, <1>12 DEF F

(* Dedup leaves out duplicates and nothing else. *)
LEMMA DedupIs ==
    ASSUME NEW S, NEW s \in Seq(S)
    PROVE  /\ Dedup(s) \in Seq(S)
           /\ Distinct(Dedup(s))
           /\ \A i \in 1..Len(s) : \E k \in 1..Len(Dedup(s)) : Dedup(s)[k] = s[i]
           /\ \A k \in 1..Len(Dedup(s)) : \E i \in 1..Len(s) : s[i] = Dedup(s)[k]
<1> DEFINE F == Firsts(s)
           n == Cardinality(F)
           Nth(k) == CHOOSE i \in F : Place(s, i) = k
           d == [k \in 1..n |-> s[Nth(k)]]
<1>1. Dedup(s) = d
  BY DEF Dedup, Firsts, Place
<1>2. /\ n \in Nat /\ F \subseteq 1..Len(s)
      /\ \A i \in F : Place(s, i) \in 1..n
      /\ \A i, j \in F : Place(s, i) = Place(s, j) => i = j
      /\ \A k \in 1..n : \E i \in F : Place(s, i) = k
      /\ \A i, j \in F : s[i] = s[j] => i = j
  <2>1. F \subseteq 1..Len(s)
    BY DEF Firsts
  <2>2. ASSUME NEW i \in F, NEW j \in F, s[i] = s[j] PROVE i = j
    BY <2>2 DEF Firsts
  <2> HIDE DEF F
  <2>3. QED BY <2>1, <2>2, PlacesAre DEF F
<1>3. ASSUME NEW i \in 1..Len(s) PROVE \E j \in F : s[j] = s[i]
  <2> DEFINE I == {j \in 1..Len(s) : s[j] = s[i]}
  <2>1. I \in SUBSET Nat /\ I # {}
    OBVIOUS
  <2>2. PICK m \in I : \A j \in I : m <= j
    <3> HIDE DEF I
    <3> QED BY <2>1, LeastExists
  <2>3. m \in F
    BY <2>2 DEF Firsts
  <2>4. QED BY <2>2, <2>3
<1> HIDE DEF F, n
<1>4. \A k \in 1..n : Nth(k) \in F /\ Place(s, Nth(k)) = k
  BY <1>2
<1> HIDE DEF Nth
<1>5. \A k \in 1..n : d[k] = s[Nth(k)] /\ d[k] \in S
  BY <1>2, <1>4, ElementOfSeq
<1>6. d \in Seq(S) /\ Len(d) = n
  BY <1>2, <1>5
<1> HIDE DEF d
<1>7. Distinct(d)
  <2>1. ASSUME NEW k \in 1..n, NEW l \in 1..n, d[k] = d[l] PROVE k = l
    <3>1. s[Nth(k)] = s[Nth(l)] /\ Nth(k) \in F /\ Nth(l) \in F
      BY <1>4, <1>5, <2>1
    <3>2. Nth(k) = Nth(l)
      BY <1>2, <3>1
    <3>3. Place(s, Nth(k)) = k /\ Place(s, Nth(l)) = l
      BY <1>4
    <3>4. QED BY <3>2, <3>3
  <2>2. QED BY <1>6, <2>1 DEF Distinct
<1>8. ASSUME NEW i \in 1..Len(s) PROVE \E k \in 1..n : d[k] = s[i]
  <2>1. PICK j \in F : s[j] = s[i]
    BY <1>3
  <2>2. Place(s, j) \in 1..n /\ Nth(Place(s, j)) = j
    BY <1>2, <1>4
  <2>3. QED BY <1>5, <2>1, <2>2
<1>9. ASSUME NEW k \in 1..n PROVE \E i \in 1..Len(s) : s[i] = d[k]
  BY <1>2, <1>4, <1>5
<1>10. QED BY <1>1, <1>6, <1>7, <1>8, <1>9

-----------------------------------------------------------------------------
(* The lists that the pool can have: what InferenceBaseUrls makes, and     *)
(* what a race makes of it, which is no shorter.                           *)
LEMMA FirstList ==
    ASSUME NEW base \in {Default, Custom}
    PROVE  /\ InferenceBaseUrls(base) \in Seq(Hosts)
           /\ Distinct(InferenceBaseUrls(base))
           /\ Len(InferenceBaseUrls(base)) # 0
<1>1. CASE base # Default
  <2>1. InferenceBaseUrls(base) = <<base>> /\ base \in Hosts
    BY <1>1 DEF InferenceBaseUrls, Hosts
  <2> DEFINE u == <<base>>
  <2>2. u \in Seq(Hosts) /\ Len(u) = 1 /\ Distinct(u)
    BY <2>1 DEF Distinct
  <2>3. QED BY <2>1, <2>2
<1>2. CASE base = Default
  <2> DEFINE s == <<base>> \o Aliases
  <2>1. Aliases \in Seq(Hosts) /\ <<base>> \in Seq(Hosts) /\ Len(<<base>>) = 1
    <3>1. \A i \in 1..Len(Aliases) : Aliases[i] \in Hosts
      BY PoolAssumption DEF Hosts, ToSet
    <3>2. Aliases \in Seq(Hosts)
      BY <3>1, PoolAssumption
    <3>3. QED BY <3>2 DEF Hosts
  <2>2. s \in Seq(Hosts) /\ Len(s) # 0
    BY <2>1, ConcatProperties
  <2>3. InferenceBaseUrls(base) = Dedup(s)
    BY <1>2 DEF InferenceBaseUrls
  <2> HIDE DEF s
  <2>4. /\ Dedup(s) \in Seq(Hosts) /\ Distinct(Dedup(s))
        /\ \A i \in 1..Len(s) : \E k \in 1..Len(Dedup(s)) : Dedup(s)[k] = s[i]
    BY <2>2, DedupIs
  <2>5. Len(Dedup(s)) # 0
    <3>1. 1 \in 1..Len(s)
      BY <2>2
    <3>2. QED BY <2>4, <3>1
  <2>6. QED BY <2>3, <2>4, <2>5
<1>3. QED BY <1>1, <1>2

(* What a race makes of the first list. *)
LEMMA RaceList ==
    ASSUME NEW base \in {Default, Custom},
           NEW winner \in ToSet(RegionCandidates(base)) \cup {"none"}
    PROVE  /\ OrderedRegions(base, winner) \in Seq(Hosts)
           /\ Distinct(OrderedRegions(base, winner))
           /\ Len(InferenceBaseUrls(base)) <= Len(OrderedRegions(base, winner))
<1> DEFINE u == InferenceBaseUrls(base)
           r == RegionCandidates(base)
<1>1. u \in Seq(Hosts) /\ Distinct(u) /\ Len(u) \in Nat
  BY FirstList
<1>2. CASE winner = "none"
  BY <1>1, <1>2 DEF OrderedRegions
<1>3. CASE winner # "none"
  <2>1. r \in Seq(Hosts)
    <3>1. \A i \in 1..Len(Regions) : Regions[i] \in Hosts
      BY PoolAssumption DEF Hosts, ToSet
    <3>2. Regions \in Seq(Hosts) /\ base \in Hosts
      BY <3>1, PoolAssumption DEF Hosts
    <3>3. Append(Regions, base) \in Seq(Hosts)
      BY <3>2, AppendProperties
    <3>4. QED BY <3>3, DedupIs DEF RegionCandidates
  <2>2. winner \in ToSet(r) /\ winner \in Hosts
    <3>1. winner \in ToSet(r)
      BY <1>3
    <3> HIDE DEF r
    <3>2. QED BY <2>1, <3>1, ElementOfSeq DEF ToSet
  <2> DEFINE a == <<winner, base>> \o r
             s == a \o u
  <2>3. OrderedRegions(base, winner) = Dedup(s)
    <3>1. OrderedRegions(base, winner) = Orders[base][winner]
      BY <1>3 DEF OrderedRegions
    <3>2. Orders[base] = [w \in ToSet(r) |-> Dedup(<<w, base>> \o r \o u)]
      BY DEF Orders
    <3>3. Orders[base][winner] = Dedup(<<winner, base>> \o r \o u)
      <4> HIDE DEF r, u
      <4> QED BY <2>2, <3>2
    <3>4. QED BY <3>1, <3>3
  <2> HIDE DEF u, r
  <2>4. a \in Seq(Hosts)
    <3>1. <<winner, base>> \in Seq(Hosts)
      BY <2>2 DEF Hosts
    <3>2. QED BY <2>1, <3>1, ConcatProperties
  <2> HIDE DEF a
  <2>5. /\ s \in Seq(Hosts) /\ Len(s) = Len(a) + Len(u)
        /\ \A i \in 1..(Len(a) + Len(u)) : s[i] = IF i <= Len(a) THEN a[i] ELSE u[i - Len(a)]
    BY <1>1, <2>4, ConcatProperties
  <2> HIDE DEF s
  <2> DEFINE d == Dedup(s)
  <2>6. /\ d \in Seq(Hosts) /\ Distinct(d)
        /\ \A i \in 1..Len(s) : \E k \in 1..Len(d) : d[k] = s[i]
    BY <2>5, DedupIs
  <2> HIDE DEF d
  <2>7. ASSUME NEW i \in 1..Len(u) PROVE \E k \in 1..Len(d) : d[k] = u[i]
    <3>1. Len(a) \in Nat /\ Len(u) \in Nat
      BY <1>1, <2>4
    <3>2. /\ Len(a) + i \in 1..(Len(a) + Len(u)) /\ ~(Len(a) + i <= Len(a))
          /\ (Len(a) + i) - Len(a) = i
      BY <3>1
    <3>3. s[Len(a) + i] = u[i]
      BY <2>5, <3>2
    <3>4. QED BY <2>5, <2>6, <3>2, <3>3
  <2>8. Len(u) <= Len(d)
    BY <1>1, <2>6, <2>7, ShorterThan
  <2>9. QED BY <2>3, <2>6, <2>8 DEF d, u
<1>4. QED BY <1>2, <1>3

-----------------------------------------------------------------------------
(***************************************************************************)
(* The pool.                                                               *)
(***************************************************************************)
Pcs == {"start", "check", "lock", "race", "send", "wait"} \cup Ended

CallRecords ==
    [pc : Pcs, saw : {"own", "swapped"}, list : Seq(Hosts), index : Nat, sent : Seq(Hosts)]

FirstUrls == InferenceBaseUrls(setup.base)

(* The index of a call that has seen n dead hosts of list u. *)
Reached(n, u) == IF n < Len(u) THEN n ELSE Len(u) - 1

(* Call r of this kind walks list u from its beginning. *)
Walks(r, kind, u) ==
    /\ \A i \in 1..Len(r.sent) : r.sent[i] = u[Reached(i - 1, u) + 1]
    /\ r.pc = "wait" /\ kind = "inference" =>
          Len(r.sent) # 0 /\ r.index = Reached(Len(r.sent) - 1, u)
    /\ r.pc \in {"start", "check", "lock", "race", "send"} =>
          r.index = Reached(Len(r.sent), u)

(* What holds of c's call r: only the holder of the lock runs the race,    *)
(* and the list is still the first one; while the client is not swapped,   *)
(* nothing is sent before the race is over, and then all have one list.    *)
CallSound(c, r, kind, u, holder, race) ==
    /\ r.pc = "race" => holder = c /\ u = FirstUrls
    /\ r.index < Len(u)
    /\ r.pc = "send" => r.index < Len(r.list)
    /\ kind # "inference" =>
          r.pc \in {"start", "wait"} \cup Ended /\ r.sent = <<>> /\ r.index = 0
    /\ client = "own" =>
          /\ r.saw = "own"
          /\ r.pc = "race" => race
          /\ race => /\ r.pc # "send" /\ r.sent = <<>> /\ r.list = <<>> /\ r.index = 0
                     /\ kind = "inference" => r.pc # "wait"
          /\ r.pc = "send" => r.list = u
          /\ setup.failover => Walks(r, kind, u)

PoolTypes ==
    /\ setup \in [base : {Default, Custom}, failover : BOOLEAN]
    /\ client \in {"own", "swapped"}
    /\ pending \in BOOLEAN
    /\ lock \in Callers \cup {"free"}
    /\ urls \in Seq(Hosts)
    /\ calls \in [Callers -> CallRecords]

PoolInv ==
    /\ PoolTypes
    /\ Distinct(urls) /\ Len(urls) # 0
    /\ pending => urls = FirstUrls
    /\ \A c \in Callers : CallSound(c, calls[c], facade[c].kind, urls, lock, pending)

KindsStay == \A c \in Callers : facade'[c].kind = facade[c].kind

-----------------------------------------------------------------------------
(* A step of c's call that leaves the list alone, and takes or gives the   *)
(* lock or leaves it.                                                      *)
LEMMA CallStep ==
    ASSUME PoolInv, KindsStay, NEW c \in Callers, NEW r \in CallRecords,
           calls' = [calls EXCEPT ![c] = r],
           UNCHANGED <<setup, client, urls>>,
           \/ lock' = lock
           \/ lock = "free" /\ lock' = c
           \/ lock = c /\ lock' = "free",
           pending' = pending \/ (~pending' /\ client = "swapped"),
           pending' \in BOOLEAN,
           CallSound(c, r, facade[c].kind, urls, lock', pending')
    PROVE  PoolInv'
<1>1. /\ calls' \in [Callers -> CallRecords] /\ calls'[c] = r
      /\ \A d \in Callers \ {c} : calls'[d] = calls[d]
  BY DEF PoolInv, PoolTypes
<1>2. PoolTypes'
  BY <1>1 DEF PoolInv, PoolTypes
<1>3. ASSUME NEW d \in Callers
      PROVE  CallSound(d, calls[d], facade[d].kind, urls, lock, pending)
  BY DEF PoolInv
<1>4. ASSUME NEW d \in Callers \ {c}
      PROVE  CallSound(d, calls[d], facade[d].kind, urls, lock', pending')
  <2>1. lock = d => lock' = d
    BY PoolAssumption
  <2>2. client = "own" => pending' = pending
    OBVIOUS
  <2>3. QED BY <1>3, <2>1, <2>2 DEF CallSound
<1>5. ASSUME NEW d \in Callers
      PROVE  CallSound(d, calls[d], facade[d].kind, urls, lock, pending)'
  <2>1. CallSound(d, calls'[d], facade[d].kind, urls, lock', pending')
    BY <1>1, <1>4
  <2>2. facade'[d].kind = facade[d].kind
    BY DEF KindsStay
  <2>3. QED BY <2>1, <2>2 DEF CallSound, FirstUrls
<1>6. pending' => urls' = FirstUrls'
  BY DEF PoolInv, FirstUrls
<1>7. QED BY <1>2, <1>5, <1>6 DEF PoolInv, Distinct

(* The records that the steps of a call make. *)
LEMMA RecordIs ==
    ASSUME PoolTypes, NEW c \in Callers
    PROVE  /\ \A pc \in Pcs :
                 /\ [calls[c] EXCEPT !.pc = pc] \in CallRecords
                 /\ Goto(c, pc) => calls' = [calls EXCEPT ![c] = [calls[c] EXCEPT !.pc = pc]]
           /\ \A list \in Seq(Hosts) :
                 /\ [calls[c] EXCEPT !.pc = "send", !.saw = "own", !.list = list] \in CallRecords
                 /\ Return(c, list) =>
                      calls' = [calls EXCEPT ![c] =
                                   [calls[c] EXCEPT !.pc = "send", !.saw = "own", !.list = list]]
           /\ [NewCall EXCEPT !.pc = "ended"] \in CallRecords
           /\ NewCall \in CallRecords /\ [NewCall EXCEPT !.pc = "gone"] \in CallRecords
<1>1. calls[c] \in CallRecords
  BY DEF PoolTypes
<1>2. ASSUME NEW pc \in Pcs PROVE [calls[c] EXCEPT !.pc = pc] \in CallRecords
  BY <1>1 DEF CallRecords
<1>3. ASSUME NEW pc \in Pcs, Goto(c, pc)
      PROVE  calls' = [calls EXCEPT ![c] = [calls[c] EXCEPT !.pc = pc]]
  BY <1>3 DEF Goto
<1>4. ASSUME NEW list \in Seq(Hosts)
      PROVE  [calls[c] EXCEPT !.pc = "send", !.saw = "own", !.list = list] \in CallRecords
  BY <1>1 DEF CallRecords, Pcs
<1>5. ASSUME NEW list \in Seq(Hosts), Return(c, list)
      PROVE  calls' = [calls EXCEPT ![c] =
                          [calls[c] EXCEPT !.pc = "send", !.saw = "own", !.list = list]]
  BY <1>5 DEF Return
<1>6. \A pc \in Pcs : [NewCall EXCEPT !.pc = pc] \in CallRecords
  <2> DEFINE nothing == <<>>
             zero == 0
  <2>1. nothing \in Seq(Hosts) /\ zero \in Nat
    OBVIOUS
  <2>2. ASSUME NEW pc \in Pcs PROVE [NewCall EXCEPT !.pc = pc] \in CallRecords
    <3>1. [NewCall EXCEPT !.pc = pc] =
             [pc |-> pc, saw |-> "own", list |-> nothing, index |-> zero, sent |-> nothing]
      BY DEF NewCall
    <3> HIDE DEF nothing, zero
    <3>2. QED BY <2>1, <3>1 DEF CallRecords
  <2>3. QED BY <2>2
<1>7. NewCall \in CallRecords
  BY DEF NewCall, CallRecords, Pcs
<1>8. "ended" \in Pcs /\ "gone" \in Pcs
  BY DEF Pcs, Ended
<1>9. QED BY <1>2, <1>3, <1>4, <1>5, <1>6, <1>7, <1>8

(* Ending a call is sound whatever the list and the lock. *)
LEMMA EndedIsSound ==
    ASSUME PoolInv, NEW c \in Callers, NEW pc \in Ended, NEW kind, NEW holder, NEW race
    PROVE  CallSound(c, [NewCall EXCEPT !.pc = pc], kind, urls, holder, race)
<1> DEFINE r == [NewCall EXCEPT !.pc = pc]
<1>1. r.pc = pc /\ r.saw = "own" /\ r.index = 0 /\ r.sent = <<>> /\ r.list = <<>>
  BY DEF NewCall
<1>2. pc \notin {"start", "check", "lock", "race", "send", "wait"}
  BY DEF Ended
<1> HIDE DEF r
<1>3. 0 < Len(urls)
  BY DEF PoolInv, PoolTypes
<1>4. Len(r.sent) = 0
  BY <1>1
<1>5. Walks(r, kind, urls)
  BY <1>1, <1>2, <1>4 DEF Walks
<1>6. CallSound(c, r, kind, urls, holder, race)
  BY <1>1, <1>2, <1>3, <1>5 DEF CallSound
<1>7. QED BY <1>6 DEF r

(* A call that ends. *)
LEMMA EndStep ==
    ASSUME PoolInv, KindsStay, NEW c \in Callers, End(c),
           UNCHANGED <<setup, client, pending, urls>>,
           lock' = lock \/ (calls[c].pc = "race" /\ lock' = "free")
    PROVE  PoolInv'
<1> DEFINE r == [NewCall EXCEPT !.pc = "ended"]
<1>1. r \in CallRecords /\ calls' = [calls EXCEPT ![c] = r]
  BY RecordIs DEF End, PoolInv
<1>2. "ended" \in Ended
  BY DEF Ended
<1>3. CallSound(c, r, facade[c].kind, urls, lock', pending')
  BY <1>2, EndedIsSound
<1>4. CallSound(c, calls[c], facade[c].kind, urls, lock, pending) /\ pending' \in BOOLEAN
  BY DEF PoolInv, PoolTypes
<1>5. calls[c].pc = "race" => lock = c
  BY <1>4 DEF CallSound
<1> HIDE DEF r
<1>6. QED BY <1>1, <1>3, <1>4, <1>5, CallStep

(* current(): a caller reads the client, and looks at the race.            *)
LEMMA ReadClientStep ==
    ASSUME PoolInv, KindsStay, NEW c \in Callers, ReadClient(c), facade[c].kind = "inference"
    PROVE  PoolInv'
<1> DEFINE r == [calls[c] EXCEPT !.pc = "check", !.saw = client]
<1>1. calls[c] \in CallRecords /\ client \in {"own", "swapped"} /\ pending \in BOOLEAN
  BY DEF PoolInv, PoolTypes
<1>2. /\ calls[c].pc = "start" /\ calls' = [calls EXCEPT ![c] = r]
      /\ UNCHANGED <<setup, client, pending, urls, lock>>
  BY DEF ReadClient, At
<1>3. /\ r.pc = "check" /\ r.saw = client /\ r.list = calls[c].list
      /\ r.index = calls[c].index /\ r.sent = calls[c].sent /\ r \in CallRecords
  BY <1>1 DEF CallRecords, Pcs
<1>4. CallSound(c, calls[c], facade[c].kind, urls, lock, pending)
  BY DEF PoolInv
<1> HIDE DEF r
<1>5. Walks(calls[c], facade[c].kind, urls) => Walks(r, facade[c].kind, urls)
  BY <1>2, <1>3 DEF Walks
<1>6. CallSound(c, r, facade[c].kind, urls, lock', pending')
  BY <1>2, <1>3, <1>4, <1>5 DEF CallSound
<1>7. QED BY <1>1, <1>2, <1>3, <1>6, CallStep

(* A caller leaves with the list there is, when no race is to come that    *)
(* could still change it for him.                                          *)
LEMMA ReturnStep ==
    ASSUME PoolInv, KindsStay, NEW c \in Callers, Return(c, urls),
           facade[c].kind = "inference", calls[c].pc \in {"check", "lock"},
           UNCHANGED <<setup, client, urls, lock>>,
           ~pending', pending => client = "swapped", pending' \in BOOLEAN
    PROVE  PoolInv'
<1> DEFINE r == [calls[c] EXCEPT !.pc = "send", !.saw = "own", !.list = urls]
<1>1. calls[c] \in CallRecords /\ urls \in Seq(Hosts) /\ pending \in BOOLEAN /\ PoolTypes
  BY DEF PoolInv, PoolTypes
<1>2. calls' = [calls EXCEPT ![c] = r] /\ r \in CallRecords
  BY <1>1, RecordIs
<1>3. /\ r.pc = "send" /\ r.saw = "own" /\ r.list = urls
      /\ r.index = calls[c].index /\ r.sent = calls[c].sent
  BY <1>1 DEF CallRecords
<1>4. CallSound(c, calls[c], facade[c].kind, urls, lock, pending)
  BY DEF PoolInv
<1> HIDE DEF r
<1>5. Walks(calls[c], facade[c].kind, urls) => Walks(r, facade[c].kind, urls)
  BY <1>3 DEF Walks
<1>6. CallSound(c, r, facade[c].kind, urls, lock', pending')
  BY <1>3, <1>4, <1>5 DEF CallSound
<1>7. pending' = pending \/ (~pending' /\ client = "swapped")
  BY <1>1
<1>8. QED BY <1>2, <1>6, <1>7, CallStep

(* A caller goes on to the lock, or with it into the race. *)
LEMMA ForwardStep ==
    ASSUME PoolInv, KindsStay, NEW c \in Callers, facade[c].kind = "inference", pending,
           UNCHANGED <<setup, client, pending, urls>>,
           \/ calls[c].pc = "check" /\ Goto(c, "lock") /\ lock' = lock
           \/ calls[c].pc = "lock" /\ lock = "free" /\ lock' = c /\ Goto(c, "race")
    PROVE  PoolInv'
<1> DEFINE next == IF calls[c].pc = "check" THEN "lock" ELSE "race"
           r == [calls[c] EXCEPT !.pc = next]
<1>1. calls[c] \in CallRecords /\ pending \in BOOLEAN /\ PoolTypes
  BY DEF PoolInv, PoolTypes
<1>2. next \in Pcs /\ Goto(c, next)
  BY DEF Pcs
<1>3. /\ (next = "race" => lock' = c) /\ next \in {"lock", "race"}
      /\ lock' = lock \/ (lock = "free" /\ lock' = c)
      /\ calls[c].pc \in {"check", "lock"}
  OBVIOUS
<1> HIDE DEF next
<1>4. calls' = [calls EXCEPT ![c] = r] /\ r \in CallRecords
  BY <1>1, <1>2, RecordIs
<1>5. /\ r.pc = next /\ r.saw = calls[c].saw /\ r.list = calls[c].list
      /\ r.index = calls[c].index /\ r.sent = calls[c].sent
  BY <1>1 DEF CallRecords
<1>6. CallSound(c, calls[c], facade[c].kind, urls, lock, pending) /\ urls = FirstUrls
  BY DEF PoolInv
<1> HIDE DEF r
<1>7. /\ r.pc \in {"lock", "race"} /\ (r.pc = "race" => lock' = c)
      /\ calls[c].pc \in {"start", "check", "lock", "race", "send"}
  BY <1>3, <1>5
<1>8. Walks(calls[c], facade[c].kind, urls) => Walks(r, facade[c].kind, urls)
  BY <1>5, <1>7 DEF Walks
<1>9. CallSound(c, r, facade[c].kind, urls, lock', pending')
  BY <1>5, <1>6, <1>7, <1>8 DEF CallSound
<1>10. QED BY <1>1, <1>3, <1>4, <1>9, CallStep

(* current(), up to the race. *)
LEMMA CurrentStep ==
    ASSUME PoolInv, KindsStay, NEW c \in Callers, facade[c].kind = "inference",
           ReadClient(c) \/ CheckPending(c) \/ Acquire(c)
    PROVE  PoolInv'
<1>1. CASE ReadClient(c)
  BY <1>1, ReadClientStep
<1>2. CallSound(c, calls[c], facade[c].kind, urls, lock, pending) /\ PoolTypes
  BY DEF PoolInv
<1>3. CASE CheckPending(c)
  <2>1. calls[c].pc = "check" /\ UNCHANGED <<setup, client, urls, lock>>
    BY <1>3 DEF CheckPending, At
  <2>2. CASE calls[c].saw # "own"
    <3>1. pending' = FALSE /\ Return(c, urls)
      BY <1>3, <2>2 DEF CheckPending
    <3>2. client = "swapped"
      BY <1>2, <2>2 DEF CallSound, PoolTypes
    <3>3. QED BY <1>2, <2>1, <3>1, <3>2, ReturnStep
  <2>3. CASE calls[c].saw = "own"
    <3>1. pending' = pending /\ IF ~pending THEN Return(c, urls) ELSE Goto(c, "lock")
      BY <1>3, <2>3 DEF CheckPending, MayReadNow
    <3>2. QED BY <1>2, <2>1, <3>1, ReturnStep, ForwardStep DEF PoolTypes
  <2>4. QED BY <2>2, <2>3
<1>4. CASE Acquire(c)
  <2>1. /\ calls[c].pc = "lock" /\ lock = "free" /\ UNCHANGED <<setup, client, pending, urls>>
        /\ IF pending THEN lock' = c /\ Goto(c, "race") ELSE Return(c, urls) /\ lock' = lock
    BY <1>4 DEF Acquire, At, MustRace
  <2>2. QED BY <1>2, <2>1, ReturnStep, ForwardStep DEF PoolTypes
<1>5. QED BY <1>1, <1>3, <1>4

(* One sends, and waits. *)
LEMMA SendPoolStep ==
    ASSUME PoolInv, KindsStay, NEW c \in Callers, Send(c)
    PROVE  PoolInv'
<1> DEFINE host == calls[c].list[calls[c].index + 1]
           r == [calls[c] EXCEPT !.pc = "wait", !.sent = Append(calls[c].sent, host)]
           kind == facade[c].kind
<1>1. calls[c] \in CallRecords /\ pending \in BOOLEAN /\ urls \in Seq(Hosts)
  BY DEF PoolInv, PoolTypes
<1>2. calls[c].pc = "send" /\ UNCHANGED <<setup, client, pending, urls, lock>>
  BY DEF Send, At
<1>3. /\ CallSound(c, calls[c], kind, urls, lock, pending)
      /\ calls[c].index < Len(calls[c].list)
      /\ kind = "inference"
  BY <1>2 DEF PoolInv, CallSound, Ended
<1>4. calls[c].list \in Seq(Hosts) /\ calls[c].sent \in Seq(Hosts) /\ calls[c].index \in Nat
  BY <1>1 DEF CallRecords
<1>5. host \in Hosts
  <2>1. calls[c].index + 1 \in 1..Len(calls[c].list)
    BY <1>3, <1>4
  <2>2. QED BY <1>4, <2>1, ElementOfSeq
<1>6. calls' = [calls EXCEPT ![c] = r]
  BY DEF Send
<1> HIDE DEF host, kind
<1> DEFINE sent == Append(calls[c].sent, host)
<1>7. /\ sent \in Seq(Hosts) /\ Len(sent) = Len(calls[c].sent) + 1
      /\ \A i \in 1..Len(calls[c].sent) : sent[i] = calls[c].sent[i]
      /\ sent[Len(calls[c].sent) + 1] = host
  BY <1>4, <1>5, AppendProperties
<1>8. r = [calls[c] EXCEPT !.pc = "wait", !.sent = sent]
  OBVIOUS
<1> HIDE DEF sent, r
<1>9. /\ r.pc = "wait" /\ r.saw = calls[c].saw /\ r.list = calls[c].list
      /\ r.index = calls[c].index /\ r.sent = sent /\ r \in CallRecords
  BY <1>1, <1>7, <1>8 DEF CallRecords, Pcs
<1>10. ASSUME client = "own", setup.failover PROVE Walks(r, kind, urls)
  <2>1. Walks(calls[c], kind, urls) /\ calls[c].list = urls
    BY <1>2, <1>3, <1>10 DEF CallSound
  <2>2. calls[c].index = Reached(Len(calls[c].sent), urls)
    BY <1>2, <2>1 DEF Walks
  <2>3. Len(calls[c].sent) \in Nat /\ Len(sent) - 1 = Len(calls[c].sent) /\ Len(sent) # 0
    BY <1>4, <1>7
  <2>4. ASSUME NEW i \in 1..Len(sent) PROVE sent[i] = urls[Reached(i - 1, urls) + 1]
    <3>1. CASE i \in 1..Len(calls[c].sent)
      BY <1>7, <2>1, <3>1 DEF Walks
    <3>2. CASE i \notin 1..Len(calls[c].sent)
      <4>1. i = Len(calls[c].sent) + 1 /\ i - 1 = Len(calls[c].sent)
        BY <1>7, <2>3, <3>2
      <4>2. QED BY <1>7, <2>1, <2>2, <4>1 DEF host
    <3>3. QED BY <3>1, <3>2
  <2>5. QED BY <1>9, <2>2, <2>3, <2>4 DEF Walks
<1>11. client = "own" => ~pending
  BY <1>2, <1>3 DEF CallSound
<1>12. CallSound(c, r, kind, urls, lock', pending')
  BY <1>2, <1>3, <1>9, <1>10, <1>11 DEF CallSound
<1>13. QED BY <1>1, <1>2, <1>6, <1>9, <1>12, CallStep DEF kind

(* The host is dead, and the call goes on with the next one. *)
LEMMA DeadStep ==
    ASSUME PoolInv, KindsStay, NEW c \in Callers, HostIsDead(c), facade[c].kind = "inference"
    PROVE  PoolInv'
<1> DEFINE n == calls[c].index
           m == IF setup.failover /\ n + 1 < Len(urls) THEN n + 1 ELSE n
           r == [calls[c] EXCEPT !.pc = "start", !.index = m]
<1>1. calls[c] \in CallRecords /\ pending \in BOOLEAN /\ urls \in Seq(Hosts)
  BY DEF PoolInv, PoolTypes
<1>2. calls[c].pc = "wait" /\ UNCHANGED <<setup, client, pending, urls, lock>>
  BY DEF HostIsDead, At
<1>3. CASE Len(calls[c].sent) > MaxRetries
  <2>1. End(c)
    BY <1>3 DEF HostIsDead
  <2>2. QED BY <1>2, <2>1, EndStep
<1>4. CASE ~(Len(calls[c].sent) > MaxRetries)
  <2>1. calls' = [calls EXCEPT ![c] = r]
    BY <1>4 DEF HostIsDead
  <2>2. /\ CallSound(c, calls[c], "inference", urls, lock, pending)
        /\ n < Len(urls) /\ n \in Nat /\ Len(urls) \in Nat
        /\ calls[c].sent \in Seq(Hosts)
    BY <1>1 DEF PoolInv, CallSound, CallRecords
  <2>3. m \in Nat /\ m < Len(urls)
    BY <2>2
  <2>4. setup.failover => m = IF n + 1 < Len(urls) THEN n + 1 ELSE n
    OBVIOUS
  <2> HIDE DEF m
  <2>5. /\ r.pc = "start" /\ r.saw = calls[c].saw /\ r.list = calls[c].list
        /\ r.index = m /\ r.sent = calls[c].sent /\ r \in CallRecords
    BY <1>1, <2>3 DEF CallRecords, Pcs
  <2> HIDE DEF r
  <2>6. ASSUME client = "own", setup.failover PROVE Walks(r, "inference", urls)
    <3>1. Walks(calls[c], "inference", urls)
      BY <2>2, <2>6 DEF CallSound
    <3>2. Len(calls[c].sent) # 0 /\ n = Reached(Len(calls[c].sent) - 1, urls)
      BY <1>2, <3>1 DEF Walks
    <3>3. m = Reached(Len(calls[c].sent), urls)
      BY <2>2, <2>4, <2>6, <3>2 DEF Reached
    <3>4. QED BY <2>5, <3>1, <3>3 DEF Walks
  <2>7. client = "own" => ~pending
    BY <1>2, <2>2 DEF CallSound
  <2>8. CallSound(c, r, "inference", urls, lock', pending')
    BY <1>2, <2>2, <2>3, <2>5, <2>6, <2>7 DEF CallSound
  <2>9. QED BY <1>1, <1>2, <2>1, <2>5, <2>8, CallStep
<1>5. QED BY <1>3, <1>4

(* A call that is not over the pool is sent, or goes back to be. *)
LEMMA ElsewhereStep ==
    ASSUME PoolInv, KindsStay, NEW c \in Callers, facade[c].kind # "inference",
           NEW pc \in {"start", "wait"}, Goto(c, pc),
           UNCHANGED <<setup, client, pending, urls, lock>>
    PROVE  PoolInv'
<1> DEFINE r == [calls[c] EXCEPT !.pc = pc]
<1>1. calls[c] \in CallRecords /\ pending \in BOOLEAN /\ PoolTypes /\ urls \in Seq(Hosts)
  BY DEF PoolInv, PoolTypes
<1>2. calls' = [calls EXCEPT ![c] = r] /\ r \in CallRecords
  BY <1>1, RecordIs DEF Pcs
<1>3. /\ r.pc = pc /\ r.saw = calls[c].saw /\ r.list = calls[c].list
      /\ r.index = calls[c].index /\ r.sent = calls[c].sent
  BY <1>1 DEF CallRecords
<1>4. /\ CallSound(c, calls[c], facade[c].kind, urls, lock, pending)
      /\ calls[c].sent = <<>> /\ calls[c].index = 0 /\ Len(urls) # 0
  BY DEF PoolInv, CallSound
<1> HIDE DEF r
<1>5. Walks(r, facade[c].kind, urls)
  <2>1. Len(r.sent) = 0 /\ Len(urls) \in Nat
    BY <1>1, <1>3, <1>4
  <2>2. Reached(0, urls) = 0
    BY <1>4, <2>1 DEF Reached
  <2>3. QED BY <1>3, <1>4, <2>1, <2>2 DEF Walks
<1>6. CallSound(c, r, facade[c].kind, urls, lock', pending')
  BY <1>3, <1>4, <1>5 DEF CallSound
<1>7. QED BY <1>1, <1>2, <1>6, CallStep

(* The race ends: its list is no shorter, and nobody is on his way.        *)
LEMMA RaceEndsStep ==
    ASSUME PoolInv, KindsStay, NEW c \in Callers, RaceEnds(c)
    PROVE  PoolInv'
<1> DEFINE r == [calls[c] EXCEPT !.pc = "send", !.saw = "own", !.list = urls']
<1>1. PoolTypes /\ calls[c] \in CallRecords /\ calls[c].pc = "race"
  BY DEF PoolInv, PoolTypes, RaceEnds, At
<1>2. /\ UNCHANGED <<setup, client>> /\ pending' = FALSE /\ lock' = "free"
      /\ Return(c, urls')
  BY DEF RaceEnds
<1>3. urls' \in Seq(Hosts) /\ Distinct(urls') /\ Len(FirstUrls) <= Len(urls')
  <2>1. PICK winner \in ToSet(RegionCandidates(setup.base)) \cup {"none"} :
            urls' = OrderedRegions(setup.base, winner)
    BY DEF RaceEnds
  <2>2. setup.base \in {Default, Custom}
    BY <1>1 DEF PoolTypes
  <2>3. QED BY <2>1, <2>2, RaceList DEF FirstUrls
<1>4. CallSound(c, calls[c], facade[c].kind, urls, lock, pending)
  BY DEF PoolInv
<1>5. /\ lock = c /\ urls = FirstUrls /\ (client = "own" => pending)
      /\ facade[c].kind = "inference"
  BY <1>1, <1>4 DEF CallSound, Ended
<1>6. calls' = [calls EXCEPT ![c] = r] /\ r \in CallRecords
  BY <1>1, <1>2, <1>3, RecordIs
<1>7. /\ r.pc = "send" /\ r.saw = "own" /\ r.list = urls'
      /\ r.index = calls[c].index /\ r.sent = calls[c].sent
  BY <1>1 DEF CallRecords
<1> HIDE DEF r
<1>8. /\ calls' \in [Callers -> CallRecords] /\ calls'[c] = r
      /\ \A d \in Callers \ {c} : calls'[d] = calls[d]
  BY <1>1, <1>6 DEF PoolTypes
<1>9. PoolTypes'
  BY <1>1, <1>2, <1>3, <1>8 DEF PoolTypes
<1>10. Len(urls) \in Nat /\ Len(urls') \in Nat /\ Len(urls) <= Len(urls') /\ Len(urls) # 0
  BY <1>1, <1>3, <1>5 DEF PoolTypes, PoolInv
<1>11. ASSUME NEW d \in Callers
       PROVE  CallSound(d, calls'[d], facade[d].kind, urls', lock', pending')
  <2>1. CallSound(d, calls[d], facade[d].kind, urls, lock, pending)
    BY DEF PoolInv
  <2>2. calls[d] \in CallRecords
    BY <1>1 DEF PoolTypes
  <2>3. calls[d].index \in Nat /\ calls[d].index < Len(urls) /\ Len(calls[d].sent) \in Nat
    BY <2>1, <2>2 DEF CallSound, CallRecords
  <2>4. calls[d].index < Len(urls')
    BY <1>10, <2>3
  <2>5. ASSUME client = "own"
        PROVE  /\ calls[d].pc # "send" /\ calls[d].sent = <<>> /\ calls[d].index = 0
               /\ facade[d].kind = "inference" => calls[d].pc # "wait"
               /\ calls[d].saw = "own"
    BY <1>5, <2>1, <2>5 DEF CallSound
  <2>6. Reached(0, urls') = 0
    BY <1>10 DEF Reached
  <2>7. CASE d = c
    <3>1. client = "own" => Walks(r, "inference", urls')
      <4>1. SUFFICES ASSUME client = "own" PROVE Walks(r, "inference", urls')
        OBVIOUS
      <4>2. Len(r.sent) = 0 /\ r.index = 0
        BY <1>7, <2>5, <2>7, <4>1
      <4>3. QED BY <1>7, <2>6, <4>2 DEF Walks
    <3>2. CallSound(c, r, "inference", urls', lock', pending')
      BY <1>2, <1>7, <2>4, <2>7, <3>1 DEF CallSound
    <3>3. QED BY <1>5, <1>8, <2>7, <3>2
  <2>8. CASE d # c
    <3>1. calls[d].pc # "race"
      BY <1>5, <2>1, <2>8 DEF CallSound
    <3>2. client = "own" => Walks(calls[d], facade[d].kind, urls')
      <4>1. SUFFICES ASSUME client = "own" PROVE Walks(calls[d], facade[d].kind, urls')
        OBVIOUS
      <4>2. Len(calls[d].sent) = 0 /\ calls[d].index = 0
        BY <2>5, <4>1
      <4>3. QED BY <2>5, <2>6, <4>1, <4>2 DEF Walks
    <3>3. CallSound(d, calls[d], facade[d].kind, urls', lock', pending')
      BY <1>2, <2>1, <2>4, <2>5, <3>1, <3>2 DEF CallSound
    <3>4. QED BY <1>8, <2>8, <3>3
  <2>9. QED BY <2>7, <2>8
<1>12. ASSUME NEW d \in Callers
       PROVE  CallSound(d, calls[d], facade[d].kind, urls, lock, pending)'
  <2>1. CallSound(d, calls'[d], facade[d].kind, urls', lock', pending')
    BY <1>11
  <2>2. facade'[d].kind = facade[d].kind
    BY DEF KindsStay
  <2>3. QED BY <1>2, <2>1, <2>2 DEF CallSound, FirstUrls
<1>13. ~pending' /\ Len(urls') # 0
  BY <1>2, <1>10
<1>14. Distinct(urls)'
  BY <1>3 DEF Distinct
<1>15. QED BY <1>9, <1>12, <1>13, <1>14 DEF PoolInv

(* What comes from outside: another httpx client, and a fork. *)
LEMMA OutsidePoolStep ==
    ASSUME PoolInv, KindsStay, Swap \/ Fork \/ UNCHANGED vars
    PROVE  PoolInv'
<1>1. \A c \in Callers : CallSound(c, calls[c], facade[c].kind, urls, lock, pending)
  BY DEF PoolInv
<1>2. UNCHANGED <<setup, pending, urls, lock>> /\ PoolTypes
  BY DEF Swap, SwapClient, Fork, vars, PoolInv
<1>3. (Distinct(urls) /\ Len(urls) # 0 /\ (pending => urls = FirstUrls))'
  BY <1>2 DEF PoolInv, Distinct, FirstUrls
<1>4. CASE Swap \/ UNCHANGED vars
  <2>1. calls' = calls /\ client' \in {client, "swapped"}
    BY <1>4 DEF Swap, SwapClient, vars
  <2>2. PoolTypes'
    BY <1>2, <2>1 DEF PoolTypes
  <2>3. ASSUME NEW c \in Callers
        PROVE  CallSound(c, calls[c], facade[c].kind, urls, lock, pending)'
    <3>1. facade'[c].kind = facade[c].kind
      BY DEF KindsStay
    <3>2. QED BY <1>1, <1>2, <2>1, <3>1 DEF CallSound, FirstUrls, Walks, Reached
  <2>4. QED BY <1>3, <2>2, <2>3 DEF PoolInv
<1>5. CASE Fork
  <2> DEFINE gone == [NewCall EXCEPT !.pc = "gone"]
  <2>1. /\ calls' = [c \in Callers |-> IF Idle(c) THEN calls[c] ELSE gone]
        /\ client' = client
    BY <1>5 DEF Fork
  <2>2. \A c \in Callers : gone \in CallRecords
    BY <1>2, RecordIs
  <2>3. "gone" \in Ended
    BY DEF Ended
  <2>4. ASSUME NEW c \in Callers
        PROVE  CallSound(c, gone, facade[c].kind, urls, lock, pending)
    BY <2>3, EndedIsSound
  <2> HIDE DEF gone
  <2>5. PoolTypes'
    BY <1>2, <2>1, <2>2 DEF PoolTypes
  <2>6. ASSUME NEW c \in Callers
        PROVE  CallSound(c, calls[c], facade[c].kind, urls, lock, pending)'
    <3>1. facade'[c].kind = facade[c].kind
      BY DEF KindsStay
    <3>2. calls'[c] = calls[c] \/ calls'[c] = gone
      BY <2>1
    <3>3. CallSound(c, calls'[c], facade[c].kind, urls, lock, pending)
      BY <1>1, <2>4, <3>2
    <3>4. QED BY <1>2, <2>1, <3>1, <3>3 DEF CallSound, FirstUrls
  <2>7. QED BY <1>3, <2>5, <2>6 DEF PoolInv
<1>6. QED BY <1>4, <1>5

(* No call has begun. *)
LEMMA InitPool == ClientInit => PoolInv
<1> SUFFICES ASSUME ClientInit PROVE PoolInv
  OBVIOUS
<1>1. /\ Init /\ setup \in [base : {Default, Custom}, failover : BOOLEAN]
      /\ urls = FirstUrls /\ lock = "free" /\ client = "own"
      /\ pending \in BOOLEAN /\ calls = [c \in Callers |-> NewCall]
  BY DEF ClientInit, Init, FirstUrls, AffinityAllowed
<1>2. urls \in Seq(Hosts) /\ Distinct(urls) /\ Len(urls) # 0
  BY <1>1, FirstList DEF FirstUrls
<1>3. /\ NewCall.pc = "start" /\ NewCall.saw = "own"
      /\ NewCall.index = 0 /\ NewCall.sent = <<>> /\ NewCall.list = <<>>
  BY DEF NewCall
<1>4. NewCall \in CallRecords
  <2> DEFINE nothing == <<>>
             zero == 0
  <2>1. nothing \in Seq(Hosts) /\ zero \in Nat
    OBVIOUS
  <2>2. NewCall = [pc |-> "start", saw |-> "own", list |-> nothing, index |-> zero,
                   sent |-> nothing]
    BY DEF NewCall
  <2> HIDE DEF nothing, zero
  <2>3. QED BY <2>1, <2>2 DEF CallRecords, Pcs
<1>5. PoolTypes
  BY <1>1, <1>2, <1>4 DEF PoolTypes
<1>6. ASSUME NEW c \in Callers
      PROVE  CallSound(c, calls[c], facade[c].kind, urls, lock, pending)
  <2>1. calls[c] = NewCall
    BY <1>1
  <2>2. 0 < Len(urls) /\ Reached(0, urls) = 0 /\ Len(NewCall.sent) = 0
    BY <1>2, <1>3 DEF Reached
  <2>3. Walks(NewCall, facade[c].kind, urls)
    BY <1>3, <2>2 DEF Walks
  <2>4. QED BY <1>3, <2>1, <2>2, <2>3 DEF CallSound
<1>7. QED BY <1>1, <1>2, <1>5, <1>6 DEF PoolInv

-----------------------------------------------------------------------------
(***************************************************************************)
(* The facade.                                                             *)
(***************************************************************************)
HookNames == {"early", "late", "sdk"}

FacadeRecords ==
    [kind : {"inference", "control", "metadata", "unmarked"},
     stage : {"fresh", "making", "owning", "installing", "ready"},
     reporter : {0, 1}, via : {"own", "swapped"}, resent : Nat]

FacadeInv ==
    /\ facade \in [Callers -> FacadeRecords]
    /\ \A c \in Callers :
          /\ facade[c].kind # "inference" => facade[c].reporter = 0
          /\ facade[c].stage = "installing" => facade[c].kind = "metadata"

-----------------------------------------------------------------------------
(* A step in which c's facade becomes r. *)
LEMMA FacadePut ==
    ASSUME FacadeInv, NEW c \in Callers, NEW r \in FacadeRecords,
           facade' = [facade EXCEPT ![c] = r],
           r.kind = facade[c].kind,
           r.kind # "inference" => r.reporter = 0,
           r.stage = "installing" => r.kind = "metadata"
    PROVE  FacadeInv' /\ KindsStay
<1>1. /\ facade' \in [Callers -> FacadeRecords] /\ facade'[c] = r
      /\ \A d \in Callers \ {c} : facade'[d] = facade[d]
  BY DEF FacadeInv
<1>2. KindsStay
  BY <1>1 DEF KindsStay
<1>3. ASSUME NEW d \in Callers
      PROVE  /\ facade'[d].kind # "inference" => facade'[d].reporter = 0
             /\ facade'[d].stage = "installing" => facade'[d].kind = "metadata"
  BY <1>1 DEF FacadeInv
<1>4. QED BY <1>1, <1>2, <1>3 DEF FacadeInv

LEMMA FacadeStays ==
    ASSUME FacadeInv, facade' = facade
    PROVE  FacadeInv' /\ KindsStay
  BY DEF FacadeInv, KindsStay

(* In the three steps of _recorder; and one call is sent again.            *)
LEMMA RecordFacade ==
    ASSUME FacadeInv, NEW c \in Callers,
           NEW stage \in {"making", "owning", "ready"},
           NEW reporter \in {0, 1}, NEW via \in {"own", "swapped"}, NEW resent \in Nat,
           facade[c].kind = "inference" \/ reporter = 0,
           facade' = [facade EXCEPT ![c] = [facade[c] EXCEPT
                !.stage = stage, !.reporter = reporter, !.via = via, !.resent = resent]]
    PROVE  FacadeInv' /\ KindsStay
<1> DEFINE r == [facade[c] EXCEPT
                    !.stage = stage, !.reporter = reporter, !.via = via, !.resent = resent]
<1>1. facade[c] \in FacadeRecords
  BY DEF FacadeInv
<1>2. /\ r \in FacadeRecords /\ r.kind = facade[c].kind /\ r.stage = stage
      /\ r.reporter = reporter
  BY <1>1 DEF FacadeRecords
<1> HIDE DEF r
<1>3. facade' = [facade EXCEPT ![c] = r]
  BY DEF r
<1>4. r.kind # "inference" => r.reporter = 0
  BY <1>2
<1>5. r.stage # "installing"
  BY <1>2
<1>6. QED BY <1>2, <1>3, <1>4, <1>5, FacadePut

(* One begins to install, or sends by a client. *)
LEMMA ViaFacade ==
    ASSUME FacadeInv, NEW c \in Callers, NEW id \in {"own", "swapped"},
           NEW stage \in {"installing", "ready"},
           stage = "installing" => facade[c].kind = "metadata",
           facade' = [facade EXCEPT ![c].stage = stage, ![c].via = id]
    PROVE  FacadeInv' /\ KindsStay
<1> DEFINE r == [facade[c] EXCEPT !.stage = stage, !.via = id]
<1>1. facade[c] \in FacadeRecords
  BY DEF FacadeInv
<1>2. facade' = [facade EXCEPT ![c] = r]
  OBVIOUS
<1>3. /\ r \in FacadeRecords /\ r.kind = facade[c].kind /\ r.stage = stage
      /\ r.reporter = facade[c].reporter
  BY <1>1 DEF FacadeRecords
<1> HIDE DEF r
<1>4. r.kind # "inference" => r.reporter = 0
  BY <1>3 DEF FacadeInv
<1>5. QED BY <1>2, <1>3, <1>4, FacadePut

SharedInv == ReporterInv /\ PoolInv /\ FacadeInv

(* One case per kind of action: _recorder's, *)
LEMMA RecorderKeeps ==
    ASSUME SharedInv, NEW c \in Callers, At(c, "start"),
           LookForSink(c) \/ MakeReporter(c) \/ OwnReporter(c)
    PROVE  PoolInv' /\ FacadeInv'
<1>1. /\ facade[c] \in FacadeRecords /\ client \in {"own", "swapped"} /\ sink \in {0, 1}
      /\ Len(reporters) = sink /\ reporters \in Seq({"open", "closed"})
      /\ FacadeInv /\ PoolInv
  BY DEF SharedInv, FacadeInv, PoolInv, PoolTypes, ReporterInv, MakerInv, Shape
<1>2. facade[c].kind = "inference"
  <2>1. CASE LookForSink(c)
    BY <2>1 DEF LookForSink, Is
  <2>2. CASE MakeReporter(c) \/ OwnReporter(c)
    BY <2>2 DEF MakeReporter, OwnReporter, Stage, SharedInv, ReporterInv, MakerInv
  <2>3. QED BY <2>1, <2>2
<1>3. UNCHANGED vars
  BY DEF LookForSink, MakeReporter, OwnReporter
<1>4. \E stage \in {"making", "owning", "ready"}, reporter \in {0, 1},
         via \in {"own", "swapped"} :
         facade' = [facade EXCEPT ![c] = [facade[c] EXCEPT
                      !.stage = stage, !.reporter = reporter, !.via = via,
                      !.resent = facade[c].resent]]
  <2> DEFINE New(stage, reporter, via) ==
                [facade[c] EXCEPT !.stage = stage, !.reporter = reporter, !.via = via,
                                  !.resent = facade[c].resent]
  <2>1. \/ facade' = [facade EXCEPT ![c].stage = "making"]
        \/ facade' = [facade EXCEPT ![c].stage = "owning"]
        \/ \E reporter \in {0, 1} :
              facade' = [facade EXCEPT ![c].stage = "ready", ![c].reporter = reporter,
                                       ![c].via = client]
    BY <1>1 DEF LookForSink, MakeReporter, OwnReporter, Ready
  <2>2. ASSUME NEW stage \in {"making", "owning"}, facade' = [facade EXCEPT ![c].stage = stage]
        PROVE  facade' = [facade EXCEPT ![c] = New(stage, facade[c].reporter, facade[c].via)]
    <3>1. [facade[c] EXCEPT !.stage = stage] = New(stage, facade[c].reporter, facade[c].via)
      BY <1>1 DEF FacadeRecords
    <3>2. facade' = [facade EXCEPT ![c] = [facade[c] EXCEPT !.stage = stage]]
      BY <2>2
    <3>3. QED BY <3>1, <3>2
  <2>3. ASSUME NEW reporter \in {0, 1},
               facade' = [facade EXCEPT ![c].stage = "ready", ![c].reporter = reporter,
                                        ![c].via = client]
        PROVE  facade' = [facade EXCEPT ![c] = New("ready", reporter, client)]
    <3>1. [facade[c] EXCEPT !.stage = "ready", !.reporter = reporter, !.via = client]
             = New("ready", reporter, client)
      BY <1>1 DEF FacadeRecords
    <3>2. facade' = [facade EXCEPT ![c] =
             [facade[c] EXCEPT !.stage = "ready", !.reporter = reporter, !.via = client]]
      BY <2>3
    <3>3. QED BY <3>1, <3>2
  <2>4. facade[c].reporter \in {0, 1} /\ facade[c].via \in {"own", "swapped"}
    BY <1>1 DEF FacadeRecords
  <2> HIDE DEF New
  <2>5. \E stage \in {"making", "owning", "ready"}, reporter \in {0, 1},
           via \in {"own", "swapped"} :
           facade' = [facade EXCEPT ![c] = New(stage, reporter, via)]
    BY <1>1, <2>1, <2>2, <2>3, <2>4
  <2>6. QED BY <2>5 DEF New
<1>5. facade[c].resent \in Nat
  BY <1>1 DEF FacadeRecords
<1>6. FacadeInv' /\ KindsStay
  <2>1. PICK stage \in {"making", "owning", "ready"}, reporter \in {0, 1},
             via \in {"own", "swapped"} :
             facade' = [facade EXCEPT ![c] = [facade[c] EXCEPT
                          !.stage = stage, !.reporter = reporter, !.via = via,
                          !.resent = facade[c].resent]]
    BY <1>4
  <2> DEFINE resent == facade[c].resent
  <2>2. facade' = [facade EXCEPT ![c] = [facade[c] EXCEPT
                     !.stage = stage, !.reporter = reporter, !.via = via, !.resent = resent]]
    BY <2>1
  <2>3. resent \in Nat
    BY <1>5
  <2> HIDE DEF resent
  <2>4. QED BY <1>1, <1>2, <2>2, <2>3, RecordFacade
<1>7. PoolInv'
  BY <1>1, <1>3, <1>6, OutsidePoolStep
<1>8. QED BY <1>6, <1>7

(* the way over the pool and the send, *)
LEMMA OverPoolKeeps ==
    ASSUME SharedInv, NEW c \in Callers,
           ChooseHost(c) \/ EndRace(c) \/ InterruptRace(c) \/ SendInference(c) \/ FindClosed(c)
    PROVE  PoolInv' /\ FacadeInv'
<1>1. FacadeInv /\ PoolInv /\ facade' = facade
  BY DEF SharedInv, ChooseHost, EndRace, InterruptRace, SendInference, FindClosed, clientVars
<1>2. FacadeInv' /\ KindsStay
  BY <1>1, FacadeStays
<1>3. CASE ChooseHost(c)
  <2>1. facade[c].kind = "inference" /\ (ReadClient(c) \/ CheckPending(c) \/ Acquire(c))
    BY <1>3 DEF ChooseHost, Is
  <2>2. QED BY <1>1, <1>2, <2>1, CurrentStep
<1>4. CASE EndRace(c) \/ InterruptRace(c)
  <2>1. CASE RaceEnds(c)
    BY <1>1, <1>2, <2>1, RaceEndsStep
  <2>2. CASE RaceIsInterrupted(c)
    <3>1. /\ calls[c].pc = "race" /\ lock' = "free" /\ End(c)
          /\ UNCHANGED <<setup, client, pending, urls>>
      BY <2>2 DEF RaceIsInterrupted, At
    <3>2. QED BY <1>1, <1>2, <3>1, EndStep
  <2>3. QED BY <1>4, <2>1, <2>2 DEF EndRace, InterruptRace
<1>5. CASE SendInference(c)
  BY <1>1, <1>2, <1>5, SendPoolStep DEF SendInference
<1>6. CASE FindClosed(c)
  <2>1. End(c) /\ UNCHANGED <<setup, client, pending, urls, lock>>
    BY <1>6 DEF FindClosed
  <2>2. QED BY <1>1, <1>2, <2>1, EndStep
<1>7. QED BY <1>3, <1>4, <1>5, <1>6

(* the calls that do not go over the pool, *)
LEMMA ElsewhereKeeps ==
    ASSUME SharedInv, NEW c \in Callers,
           InstallFirst(c) \/ SendMetadata(c) \/ SendElsewhere(c)
    PROVE  PoolInv' /\ FacadeInv'
<1>1. /\ FacadeInv /\ PoolInv /\ facade[c] \in FacadeRecords
      /\ client \in {"own", "swapped"} /\ facade[c].via \in {"own", "swapped"}
  BY DEF SharedInv, FacadeInv, PoolInv, PoolTypes, FacadeRecords
<1>2. CASE InstallFirst(c)
  <2>1. /\ facade' = [facade EXCEPT ![c].stage = "installing", ![c].via = client]
        /\ UNCHANGED vars /\ facade[c].kind = "metadata"
    BY <1>2 DEF InstallFirst, Is
  <2>2. FacadeInv' /\ KindsStay
    BY <1>1, <2>1, ViaFacade
  <2>3. QED BY <1>1, <2>1, <2>2, OutsidePoolStep
<1>3. CASE SendMetadata(c) \/ SendElsewhere(c)
  <2>1. PICK id \in {"own", "swapped"} : SendVia(c, id)
    BY <1>1, <1>3 DEF SendMetadata, SendElsewhere
  <2>2. facade[c].kind # "inference"
    BY <1>3 DEF SendMetadata, SendElsewhere, Is
  <2>3. /\ facade' = [facade EXCEPT ![c].stage = "ready", ![c].via = id]
        /\ Goto(c, "wait") \/ End(c)
        /\ UNCHANGED <<setup, client, pending, urls, lock>>
    BY <2>1 DEF SendVia, SendsBy
  <2>4. FacadeInv' /\ KindsStay
    BY <1>1, <2>3, ViaFacade
  <2>5. QED BY <1>1, <2>2, <2>3, <2>4, ElsewhereStep, EndStep
<1>4. QED BY <1>2, <1>3

(* what comes back, or does not, *)
LEMMA AnswerKeeps ==
    ASSUME SharedInv, NEW c \in Callers, Answer(c) \/ NoAnswer(c)
    PROVE  PoolInv' /\ FacadeInv'
<1>1. FacadeInv /\ PoolInv /\ facade[c] \in FacadeRecords
  BY DEF SharedInv, FacadeInv
<1>2. FacadeInv' /\ KindsStay
  <2>1. CASE facade' = facade
    BY <1>1, <2>1, FacadeStays
  <2>2. CASE facade' # facade
    <3>1. facade' = [facade EXCEPT ![c].resent = facade[c].resent + 1]
      BY <2>2 DEF Answer, NoAnswer, clientVars
    <3> DEFINE r == [facade[c] EXCEPT !.resent = facade[c].resent + 1]
    <3>2. facade' = [facade EXCEPT ![c] = r]
      BY <3>1
    <3>3. /\ r \in FacadeRecords /\ r.kind = facade[c].kind /\ r.reporter = facade[c].reporter
          /\ r.stage = facade[c].stage
      BY <1>1 DEF FacadeRecords
    <3> HIDE DEF r
    <3>4. /\ r.kind # "inference" => r.reporter = 0
          /\ r.stage = "installing" => r.kind = "metadata"
      BY <1>1, <3>3 DEF FacadeInv
    <3>5. QED BY <1>1, <3>2, <3>3, <3>4, FacadePut
  <2>3. QED BY <2>1, <2>2
<1>3. CASE Answer(c)
  <2>1. End(c) /\ UNCHANGED <<setup, client, pending, urls, lock>>
    BY <1>3 DEF Answer, Answered
  <2>2. QED BY <1>1, <1>2, <2>1, EndStep
<1>4. CASE NoAnswer(c)
  <2>1. CASE facade[c].kind = "inference"
    <3>1. HostIsDead(c)
      BY <1>4, <2>1 DEF NoAnswer, Is
    <3>2. QED BY <1>1, <1>2, <2>1, <3>1, DeadStep
  <2>2. CASE facade[c].kind # "inference"
    <3>1. /\ Goto(c, "start") \/ End(c)
          /\ UNCHANGED <<setup, client, pending, urls, lock>>
      BY <1>4, <2>2 DEF NoAnswer, Is
    <3>2. QED BY <1>1, <1>2, <2>2, <3>1, ElsewhereStep, EndStep
  <2>3. QED BY <2>1, <2>2
<1>5. QED BY <1>3, <1>4

(* and close(), the application and the fork. *)
LEMMA OutsideKeeps ==
    ASSUME SharedInv,
           \/ Installing \/ CloseReporter \/ CloseHttpx \/ WriteHooks \/ Swap \/ Fork
           \/ UNCHANGED allVars
    PROVE  PoolInv' /\ FacadeInv'
<1>1. /\ FacadeInv /\ PoolInv /\ facade' = facade
      /\ UNCHANGED vars \/ Swap \/ Fork
  BY DEF SharedInv, Installing, InstallStep, StartProbe, CloseReporter, CloseHttpx,
         WriteHooks, Swap, Fork, allVars, clientVars
<1>2. FacadeInv' /\ KindsStay
  BY <1>1, FacadeStays
<1>3. PoolInv'
  BY <1>1, <1>2, OutsidePoolStep
<1>4. QED BY <1>2, <1>3

LEMMA InitFacade == ClientInit => FacadeInv
<1> SUFFICES ASSUME ClientInit PROVE FacadeInv
  OBVIOUS
<1>1. PICK kinds \in Mixes : facade = [c \in Callers |-> NewFacade(kinds[c])]
  BY DEF ClientInit
<1>2. kinds \in [Callers -> {"inference", "control", "metadata", "unmarked"}]
  BY MixesAssumption
<1>3. ASSUME NEW kind \in {"inference", "control", "metadata", "unmarked"}
      PROVE  /\ NewFacade(kind) \in FacadeRecords
             /\ NewFacade(kind).stage = "fresh" /\ NewFacade(kind).reporter = 0
  <2> DEFINE zero == 0
  <2>1. zero \in Nat /\ zero \in {0, 1}
    OBVIOUS
  <2>2. NewFacade(kind) = [kind |-> kind, stage |-> "fresh", reporter |-> zero, via |-> "own",
                           resent |-> zero]
    BY DEF NewFacade
  <2>3. zero = 0
    OBVIOUS
  <2> HIDE DEF zero
  <2>4. QED BY <2>1, <2>2, <2>3 DEF FacadeRecords
<1>4. /\ facade \in [Callers -> FacadeRecords]
      /\ \A c \in Callers : facade[c].stage = "fresh" /\ facade[c].reporter = 0
  BY <1>1, <1>2, <1>3
<1>5. QED BY <1>4 DEF FacadeInv

LEMMA InitShared == ClientInit => SharedInv
  BY InitReporter, InitPool, InitFacade DEF SharedInv

LEMMA StepShared == SharedInv /\ [ClientNext]_allVars => SharedInv'
<1> SUFFICES ASSUME SharedInv, [ClientNext]_allVars PROVE SharedInv'
  OBVIOUS
<1>1. ReporterInv'
  BY StepReporter DEF SharedInv
<1>2. ASSUME NEW c \in Callers, ClientStep(c) \/ InterruptRace(c), ~Installing
      PROVE  PoolInv' /\ FacadeInv'
  <2>1. ~InstallStep(c)
    BY <1>2 DEF Installing, Installers
  <2>2. QED BY <1>2, <2>1, RecorderKeeps, OverPoolKeeps, ElsewhereKeeps, AnswerKeeps DEF ClientStep
<1>3. ASSUME \/ Installing \/ CloseReporter \/ CloseHttpx \/ WriteHooks \/ Swap \/ Fork
             \/ UNCHANGED allVars
      PROVE  PoolInv' /\ FacadeInv'
  BY <1>3, OutsideKeeps
<1>4. PoolInv' /\ FacadeInv'
  <2>1. Installing \/ ~\E p \in Probes : StartProbe(p) \/ InstallStep(p)
    BY DEF Installing, Installers
  <2>2. QED BY <1>2, <1>3, <2>1 DEF ClientNext
<1>5. QED BY <1>1, <1>4 DEF SharedInv

LEMMA SharedHolds == ClientSpec => []SharedInv
  BY InitShared, StepShared, PTL DEF ClientSpec

-----------------------------------------------------------------------------
(***************************************************************************)
(* The hooks.                                                              *)
(***************************************************************************)
Has(list) == "sdk" \in ToSet(list)

OnlySdk(list) == \A k \in 1..Len(list) : list[k] = "sdk"

(* A list on the client that was lent: the constructor's, to which the     *)
(* application has appended, or one the application assigned.              *)
OnLent(list) ==
    /\ list[1] \in {"early", "late"}
    /\ \A k \in 2..Len(list) : list[k] # "early"
    /\ \A j, k \in 1..Len(list) : list[j] = "late" /\ list[k] = "late" => j = k
    /\ list[1] = "early" => Has(list)

(* The lists that a client can have. *)
Listed(borrowed, id, list) ==
    /\ list \in Seq(HookNames) /\ Len(list) # 0
    /\ id = "own" /\ borrowed => OnLent(list)
    /\ id = "own" /\ ~borrowed => OnlySdk(list)
    /\ id = "swapped" => list[1] = "early" /\ \A k \in 2..Len(list) : list[k] = "sdk"

InstallRecords ==
    [stage : {"idle", "look", "append", "copy", "assign"}, via : {"own", "swapped"},
     stale : BOOLEAN, copied : Seq(HookNames)]

(* What installer's record r has seen: who has put the hook into the       *)
(* swapped client's list, or found that list replaced, knows it is there.  *)
InstallSound(borrowed, list, r) ==
    /\ r.stale => r.stage = "append"
    /\ r.stage = "assign" => Listed(borrowed, r.via, r.copied)
    /\ r.via = "swapped" /\ (r.stage \in {"copy", "assign"} \/ r.stale) => Has(list)
    /\ r.via = "swapped" /\ r.stage = "assign" => Has(r.copied)

(* So does a request without credentials that has installed it.            *)
CameInto(c) ==
    facade[c].stage = "installing" =>
        /\ installs[c].stage # "idle" => installs[c].via = facade[c].via
        /\ installs[c].stage = "idle" /\ calls[c].pc = "start" /\ facade[c].via = "swapped" =>
              Has(hooks["swapped"])

HooksInv ==
    /\ lent \in BOOLEAN
    /\ hooks \in [{"own", "swapped"} -> Seq(HookNames)]
    /\ installs \in [Installers -> InstallRecords]
    /\ \A id \in {"own", "swapped"} : Listed(lent, id, hooks[id])
    /\ \A i \in Installers : InstallSound(lent, hooks["swapped"], installs[i])
    /\ \A c \in Callers : CameInto(c)

-----------------------------------------------------------------------------
(* Who is in a list, and who when one is appended. *)
LEMMA HasIs ==
    ASSUME NEW list \in Seq(HookNames), NEW hook
    PROVE  hook \in ToSet(list) <=> \E k \in 1..Len(list) : list[k] = hook
  BY DEF ToSet

(* A list that a client can have stays one when a hook is appended: the    *)
(* SDK's, and the application's on a client it lent that has it not.       *)
LEMMA AppendKeeps ==
    ASSUME NEW borrowed \in BOOLEAN, NEW id \in {"own", "swapped"}, NEW list,
           Listed(borrowed, id, list), NEW hook \in {"sdk", "late"},
           hook = "late" => id = "own" /\ borrowed /\ "late" \notin ToSet(list)
    PROVE  /\ Listed(borrowed, id, Append(list, hook))
           /\ Has(list) \/ hook = "sdk" => Has(Append(list, hook))
<1> DEFINE n == Len(list)
           more == Append(list, hook)
<1>1. list \in Seq(HookNames) /\ hook \in HookNames /\ n \in Nat /\ n # 0
  BY DEF Listed, HookNames
<1>2. /\ more \in Seq(HookNames) /\ Len(more) = n + 1 /\ more[n + 1] = hook
      /\ \A k \in 1..n : more[k] = list[k]
  BY <1>1, AppendProperties
<1> HIDE DEF more
<1>3. /\ 1..(n + 1) = (1..n) \cup {n + 1} /\ 2..(n + 1) = (2..n) \cup {n + 1}
      /\ 1 \in 1..n /\ n + 1 \notin 1..n /\ 2..n \subseteq 1..n
  BY <1>1
<1>4. Has(list) \/ hook = "sdk" => Has(more)
  <2>1. CASE hook = "sdk"
    BY <1>2, <1>3, <2>1, HasIs DEF Has
  <2>2. CASE Has(list)
    <3>1. PICK k \in 1..n : list[k] = "sdk"
      BY <1>1, <2>2, HasIs DEF Has
    <3>2. QED BY <1>2, <1>3, <3>1, HasIs DEF Has
  <2>3. QED BY <2>1, <2>2
<1>5. ASSUME id = "own", borrowed PROVE OnLent(more)
  <2>1. OnLent(list)
    BY <1>5 DEF Listed
  <2>2. more[1] = list[1]
    BY <1>2, <1>3
  <2>3. \A k \in 2..Len(more) : more[k] # "early"
    BY <1>2, <1>3, <2>1 DEF OnLent
  <2>4. ASSUME NEW j \in 1..Len(more), NEW k \in 1..Len(more), more[j] = "late", more[k] = "late"
        PROVE  j = k
    <3>1. hook = "late" => \A l \in 1..n : list[l] # "late"
      BY <1>1, HasIs
    <3>2. QED BY <1>2, <1>3, <2>1, <2>4, <3>1 DEF OnLent
  <2>5. QED BY <1>4, <2>1, <2>2, <2>3, <2>4 DEF OnLent
<1>6. ASSUME id = "own", ~borrowed PROVE OnlySdk(more)
  <2>1. OnlySdk(list) /\ hook = "sdk"
    BY <1>6 DEF Listed
  <2>2. QED BY <1>2, <1>3, <2>1 DEF OnlySdk
<1>7. ASSUME id = "swapped"
      PROVE  more[1] = "early" /\ \A k \in 2..Len(more) : more[k] = "sdk"
  <2>1. list[1] = "early" /\ (\A k \in 2..n : list[k] = "sdk") /\ hook = "sdk"
    BY <1>7 DEF Listed
  <2>2. QED BY <1>2, <1>3, <2>1
<1>8. Listed(borrowed, id, more)
  BY <1>1, <1>2, <1>5, <1>6, <1>7 DEF Listed
<1>9. QED BY <1>4, <1>8 DEF more

(* The application's own list is one that the client it lent can have. *)
LEMMA LateIsListed == Listed(TRUE, "own", <<"late">>)
<1> DEFINE s == <<"late">>
<1>1. s \in Seq(HookNames) /\ Len(s) = 1 /\ s[1] = "late"
  BY DEF HookNames
<1> HIDE DEF s
<1>2. \A k \in 2..Len(s) : FALSE
  BY <1>1
<1>3. \A k \in 1..Len(s) : k = 1
  BY <1>1
<1>4. OnLent(s)
  BY <1>1, <1>2, <1>3 DEF OnLent
<1>5. Listed(TRUE, "own", s)
  BY <1>1, <1>4 DEF Listed
<1>6. QED BY <1>5 DEF s

(* A list without the SDK's hook is that one, or the swapped client's. *)
LEMMA OnlyLateLacksIt ==
    ASSUME NEW borrowed \in BOOLEAN, NEW id \in {"own", "swapped"}, NEW list,
           Listed(borrowed, id, list), id = "swapped" => Has(list)
    PROVE  Has(list) \/ list = <<"late">>
<1>1. list \in Seq(HookNames) /\ Len(list) \in Nat /\ Len(list) # 0
  BY DEF Listed
<1>2. SUFFICES ASSUME ~Has(list), id = "own" PROVE list = <<"late">>
  OBVIOUS
<1>3. \A k \in 1..Len(list) : list[k] \in {"early", "late"}
  BY <1>1, <1>2, HasIs DEF Has, HookNames
<1>4. borrowed /\ OnLent(list)
  <2>1. ASSUME ~borrowed PROVE FALSE
    <3>1. OnlySdk(list) /\ 1 \in 1..Len(list)
      BY <1>1, <1>2, <2>1 DEF Listed
    <3>2. list[1] = "sdk"
      BY <3>1 DEF OnlySdk
    <3>3. QED BY <1>3, <3>1, <3>2
  <2>2. QED BY <1>2, <2>1 DEF Listed
<1>5. list[1] = "late"
  BY <1>2, <1>4 DEF OnLent
<1>6. Len(list) = 1
  <2>1. SUFFICES ASSUME Len(list) # 1 PROVE FALSE
    OBVIOUS
  <2>2. 2 \in 2..Len(list) /\ 2 \in 1..Len(list) /\ 1 \in 1..Len(list)
    <3>1. \A n \in Nat : n # 0 /\ n # 1 => 2 \in 2..n /\ 2 \in 1..n /\ 1 \in 1..n
      OBVIOUS
    <3>2. QED BY <1>1, <2>1, <3>1
  <2>3. list[2] = "late"
    BY <1>3, <1>4, <2>2 DEF OnLent
  <2>4. QED BY <1>4, <1>5, <2>2, <2>3 DEF OnLent
<1>7. QED BY <1>1, <1>5, <1>6

-----------------------------------------------------------------------------
(* A step in which the lists stay such, and i's part of an installation    *)
(* becomes r.                                                              *)
LEMMA InstallPut ==
    ASSUME HooksInv, NEW i \in Installers, NEW r \in InstallRecords,
           installs' = [installs EXCEPT ![i] = r], lent' = lent,
           hooks' \in [{"own", "swapped"} -> Seq(HookNames)],
           \A id \in {"own", "swapped"} : Listed(lent, id, hooks'[id]),
           Has(hooks["swapped"]) => Has(hooks'["swapped"]),
           InstallSound(lent, hooks'["swapped"], r),
           \A c \in Callers : CameInto(c)'
    PROVE  HooksInv'
<1>1. /\ installs' \in [Installers -> InstallRecords] /\ installs'[i] = r
      /\ \A j \in Installers \ {i} : installs'[j] = installs[j]
  BY DEF HooksInv
<1>2. ASSUME NEW j \in Installers PROVE InstallSound(lent, hooks'["swapped"], installs'[j])
  BY <1>1 DEF HooksInv, InstallSound
<1>3. QED BY <1>1, <1>2 DEF HooksInv

(* An installer looks for the hook. *)
LEMMA LookIs ==
    ASSUME HooksInv, NEW i \in Installers, NEW id \in {"own", "swapped"}, LookForHook(i, id),
           installs[i].stage \in {"idle", "look"}
    PROVE  \E r \in InstallRecords :
              /\ installs' = [installs EXCEPT ![i] = r]
              /\ r.stage # "idle" /\ r.via = id
              /\ InstallSound(lent, hooks["swapped"], r)
<1> DEFINE stage == IF Has(hooks[id]) THEN "copy" ELSE "append"
           r == [installs[i] EXCEPT !.stage = stage, !.via = id]
<1>1. installs[i] \in InstallRecords /\ installs[i].stage \in {"idle", "look"}
  BY DEF HooksInv
<1>2. stage \in {"copy", "append"} /\ (stage = "copy" => Has(hooks[id]))
  OBVIOUS
<1>3. installs' = [installs EXCEPT ![i] = r]
  BY DEF LookForHook, Has
<1> HIDE DEF stage
<1>4. /\ r \in InstallRecords /\ r.stage = stage /\ r.via = id /\ r.stale = installs[i].stale
  BY <1>1, <1>2 DEF InstallRecords
<1>5. ~r.stale
  BY <1>1, <1>4 DEF HooksInv, InstallSound
<1> HIDE DEF r
<1>6. InstallSound(lent, hooks["swapped"], r)
  BY <1>2, <1>4, <1>5 DEF InstallSound
<1>7. QED BY <1>2, <1>3, <1>4, <1>6

(* Who was about to append to a list that is replaced. *)
LEMMA OutdatedIs ==
    ASSUME NEW j \in Installers, installs[j] \in InstallRecords, NEW id \in {"own", "swapped"},
           NEW list, InstallSound(lent, hooks["swapped"], installs[j]),
           Has(hooks["swapped"]) => Has(list), id = "swapped" => Has(list)
    PROVE  /\ Outdated(j, id) \in InstallRecords
           /\ Outdated(j, id).stage = installs[j].stage
           /\ Outdated(j, id).via = installs[j].via
           /\ InstallSound(lent, list, Outdated(j, id))
<1>1. CASE installs[j].stage = "append" /\ installs[j].via = id
  <2> DEFINE r == [installs[j] EXCEPT !.stale = TRUE]
  <2>1. /\ r \in InstallRecords /\ r.stage = "append" /\ r.via = id
    BY <1>1 DEF InstallRecords
  <2>2. Outdated(j, id) = r
    BY <1>1 DEF Outdated, InstallIs
  <2> HIDE DEF r
  <2>3. InstallSound(lent, list, r)
    BY <2>1 DEF InstallSound
  <2>4. QED BY <1>1, <2>1, <2>2, <2>3
<1>2. CASE ~(installs[j].stage = "append" /\ installs[j].via = id)
  <2>1. Outdated(j, id) = installs[j]
    BY <1>2 DEF Outdated, InstallIs
  <2>2. QED BY <2>1 DEF InstallSound
<1>3. QED BY <1>1, <1>2

(* The swapped client's list does not lose the hook. *)
HookStays == lent' = lent /\ (Has(hooks["swapped"]) => Has(hooks'["swapped"]))

(* An installer, in one of the steps that follow. *)
LEMMA InstallKeeps ==
    ASSUME HooksInv, NEW i \in Installers, InstallStep(i)
    PROVE  HooksInv' /\ HookStays
<1> DEFINE via == installs[i].via
           old == hooks["swapped"]
<1>1. /\ installs[i] \in InstallRecords /\ via \in {"own", "swapped"}
      /\ installs[i].copied \in Seq(HookNames) /\ installs[i].stale \in BOOLEAN
      /\ InstallSound(lent, old, installs[i])
      /\ hooks \in [{"own", "swapped"} -> Seq(HookNames)] /\ lent \in BOOLEAN
      /\ \A id \in {"own", "swapped"} : Listed(lent, id, hooks[id])
  BY DEF HooksInv, InstallRecords
<1>2. calls' = calls /\ facade' = facade /\ lent' = lent
  BY DEF InstallStep, vars
<1>3. ASSUME NEW r \in InstallRecords, installs' = [installs EXCEPT ![i] = r],
             r.via = via, r.stage # "idle", installs[i].stage # "idle",
             Has(old) => Has(hooks'["swapped"])
      PROVE  \A c \in Callers : CameInto(c)'
  <2>1. TAKE c \in Callers
  <2>2. CameInto(c) /\ c \in Installers
    BY DEF HooksInv, Installers
  <2>3. /\ installs'[c].via = installs[c].via
        /\ installs'[c].stage = "idle" <=> installs[c].stage = "idle"
    BY <1>3, <2>2 DEF HooksInv
  <2>4. QED BY <1>2, <1>3, <2>2, <2>3 DEF CameInto
<1>4. CASE AppendHook(i)
  <2> DEFINE r == [installs[i] EXCEPT !.stage = "copy", !.stale = FALSE]
  <2>1. /\ installs[i].stage = "append"
        /\ hooks' = IF installs[i].stale THEN hooks
                    ELSE [hooks EXCEPT ![via] = Append(hooks[via], "sdk")]
        /\ installs' = [installs EXCEPT ![i] = r]
    BY <1>4 DEF AppendHook, InstallIs
  <2>2. /\ r \in InstallRecords /\ r.stage = "copy" /\ r.via = via /\ ~r.stale
    BY <1>1 DEF InstallRecords
  <2> HIDE DEF r
  <2>3. /\ \A id \in {"own", "swapped"} :
              Listed(lent, id, hooks'[id]) /\ (Has(hooks[id]) => Has(hooks'[id]))
        /\ hooks' \in [{"own", "swapped"} -> Seq(HookNames)]
        /\ via = "swapped" => Has(hooks'["swapped"])
    <3>1. CASE installs[i].stale
      BY <1>1, <2>1, <3>1 DEF InstallSound
    <3>2. CASE ~installs[i].stale
      <4> DEFINE more == Append(hooks[via], "sdk")
      <4>1. Listed(lent, via, more) /\ Has(more)
        BY <1>1, AppendKeeps
      <4> HIDE DEF more
      <4>2. hooks' = [hooks EXCEPT ![via] = more] /\ more \in Seq(HookNames)
        BY <2>1, <3>2, <4>1 DEF more, Listed
      <4>3. QED BY <1>1, <4>1, <4>2
    <3>3. QED BY <1>1, <3>1, <3>2
  <2>4. InstallSound(lent, hooks'["swapped"], r)
    BY <2>2, <2>3 DEF InstallSound
  <2>5. \A c \in Callers : CameInto(c)'
    BY <1>3, <2>1, <2>2, <2>3
  <2>6. HookStays
    BY <1>2, <2>3 DEF HookStays
  <2>7. QED BY <1>2, <2>1, <2>2, <2>3, <2>4, <2>5, <2>6, InstallPut DEF HookStays
<1>5. CASE CopyHooks(i)
  <2> DEFINE list == hooks[via]
             r == [installs[i] EXCEPT !.stage = "assign", !.copied = list]
  <2>1. /\ installs[i].stage = "copy" /\ hooks' = hooks
        /\ installs' = [installs EXCEPT ![i] = r]
    BY <1>5 DEF CopyHooks, InstallIs
  <2>2. list \in Seq(HookNames) /\ Listed(lent, via, list) /\ (via = "swapped" => list = old)
    BY <1>1
  <2> HIDE DEF list
  <2>3. /\ r \in InstallRecords /\ r.stage = "assign" /\ r.via = via /\ r.copied = list
        /\ r.stale = installs[i].stale
    BY <1>1, <2>2 DEF InstallRecords
  <2> HIDE DEF r
  <2>4. InstallSound(lent, hooks'["swapped"], r)
    BY <1>1, <2>1, <2>2, <2>3 DEF InstallSound
  <2>5. \A c \in Callers : CameInto(c)'
    BY <1>3, <2>1, <2>3
  <2>6. QED BY <1>1, <1>2, <2>1, <2>3, <2>4, <2>5, InstallPut DEF HookStays
<1>6. CASE AssignHooks(i)
  <2> DEFINE list == installs[i].copied
  <2>1. /\ installs[i].stage = "assign" /\ hooks' = [hooks EXCEPT ![via] = list]
        /\ installs' = [j \in Installers |->
                           IF j = i THEN NoInstall ELSE Outdated(j, via)]
    BY <1>6 DEF AssignHooks, InstallIs, Replace
  <2>2. list \in Seq(HookNames) /\ Listed(lent, via, list) /\ (via = "swapped" => Has(list))
    BY <1>1, <2>1 DEF InstallSound
  <2> HIDE DEF list
  <2>3. /\ hooks' \in [{"own", "swapped"} -> Seq(HookNames)]
        /\ \A id \in {"own", "swapped"} : Listed(lent, id, hooks'[id])
        /\ via = "swapped" => Has(hooks'["swapped"])
        /\ Has(old) => Has(hooks'["swapped"])
    BY <1>1, <2>1, <2>2
  <2>4. NoInstall \in InstallRecords /\ NoInstall.stage = "idle" /\ ~NoInstall.stale
    <3> DEFINE nothing == <<>>
    <3>1. nothing \in Seq(HookNames)
      OBVIOUS
    <3>2. NoInstall = [stage |-> "idle", via |-> "own", stale |-> FALSE, copied |-> nothing]
      BY DEF NoInstall
    <3> HIDE DEF nothing
    <3>3. QED BY <3>1, <3>2 DEF InstallRecords
  <2>5. ASSUME NEW j \in Installers \ {i}
        PROVE  /\ Outdated(j, via) \in InstallRecords
               /\ Outdated(j, via).stage = installs[j].stage
               /\ Outdated(j, via).via = installs[j].via
               /\ InstallSound(lent, hooks'["swapped"], Outdated(j, via))
    <3>1. installs[j] \in InstallRecords /\ InstallSound(lent, old, installs[j])
      BY DEF HooksInv
    <3>2. PICK new : new = hooks'["swapped"]
      OBVIOUS
    <3>3. (via = "swapped" => Has(new)) /\ (Has(old) => Has(new))
      BY <2>3, <3>2
    <3>4. PICK id \in {"own", "swapped"} : id = via
      BY <1>1
    <3>5. /\ Outdated(j, id) \in InstallRecords
          /\ Outdated(j, id).stage = installs[j].stage
          /\ Outdated(j, id).via = installs[j].via
          /\ InstallSound(lent, new, Outdated(j, id))
      BY <3>1, <3>3, <3>4, OutdatedIs
    <3>6. QED BY <3>2, <3>4, <3>5
  <2>6. ASSUME NEW j \in Installers
        PROVE  /\ installs'[j] \in InstallRecords
               /\ InstallSound(lent, hooks'["swapped"], installs'[j])
    BY <2>1, <2>4, <2>5 DEF InstallSound
  <2>7. installs' \in [Installers -> InstallRecords]
    BY <2>1, <2>6
  <2>8. ASSUME NEW c \in Callers PROVE CameInto(c)'
    <3>1. CameInto(c) /\ c \in Installers
      BY DEF HooksInv, Installers
    <3>2. CASE c = i
      <4>1. installs'[c].stage = "idle" /\ installs[c].stage # "idle"
        BY <2>1, <2>4, <3>1, <3>2
      <4>2. QED BY <1>2, <2>3, <3>1, <3>2, <4>1 DEF CameInto
    <3>3. CASE c # i
      <4>1. installs'[c].stage = installs[c].stage /\ installs'[c].via = installs[c].via
        BY <2>1, <2>5, <3>1, <3>3
      <4>2. QED BY <1>2, <2>3, <3>1, <4>1 DEF CameInto
    <3>4. QED BY <3>2, <3>3
  <2>9. QED BY <1>1, <1>2, <2>3, <2>6, <2>7, <2>8 DEF HooksInv, HookStays
<1>7. CASE BeginToLook(i)
  <2>1. installs[i].stage = "look" /\ hooks' = hooks /\ LookForHook(i, via)
    BY <1>7 DEF BeginToLook, InstallIs
  <2>2. PICK id \in {"own", "swapped"} : id = via
    BY <1>1
  <2>3. PICK r \in InstallRecords :
          /\ installs' = [installs EXCEPT ![i] = r] /\ r.stage # "idle" /\ r.via = id
          /\ InstallSound(lent, old, r)
    BY <2>1, <2>2, LookIs
  <2>4. \A c \in Callers : CameInto(c)'
    BY <1>3, <2>1, <2>2, <2>3
  <2>5. QED BY <1>1, <1>2, <2>1, <2>3, <2>4, InstallPut DEF HookStays
<1>8. QED BY <1>4, <1>5, <1>6, <1>7 DEF InstallStep

(* A probe of the race begins. *)
LEMMA ProbeKeeps ==
    ASSUME SharedInv, HooksInv, NEW p \in Probes, StartProbe(p)
    PROVE  HooksInv'
<1>1. PICK c \in Callers :
        installs' = [installs EXCEPT ![p].stage = "look", ![p].via = calls[c].saw]
  BY DEF StartProbe
<1>2. /\ UNCHANGED <<calls, facade, lent, hooks>> /\ p \in Installers
      /\ calls[c].saw \in {"own", "swapped"}
      /\ installs[p] \in InstallRecords /\ ~installs[p].stale
  BY DEF StartProbe, vars, Installers, SharedInv, PoolInv, PoolTypes, CallRecords,
         HooksInv, InstallSound, InstallIs
<1> DEFINE r == [installs[p] EXCEPT !.stage = "look", !.via = calls[c].saw]
<1>3. r \in InstallRecords /\ r.stage = "look" /\ ~r.stale /\ installs' = [installs EXCEPT ![p] = r]
  BY <1>1, <1>2 DEF InstallRecords
<1> HIDE DEF r
<1>4. installs' = [installs EXCEPT ![p] = r] /\ InstallSound(lent, hooks["swapped"], r)
  BY <1>3 DEF InstallSound
<1>5. ASSUME NEW d \in Callers PROVE CameInto(d)'
  <2>1. d \in Installers /\ d # p /\ CameInto(d)
    BY ProbesAssumption DEF Installers, HooksInv
  <2>2. installs'[d] = installs[d]
    BY <1>4, <2>1 DEF HooksInv
  <2>3. QED BY <1>2, <2>1, <2>2 DEF CameInto
<1>6. QED BY <1>2, <1>3, <1>4, <1>5, InstallPut DEF HooksInv

(* A request without credentials begins. *)
LEMMA InstallFirstKeeps ==
    ASSUME SharedInv, HooksInv, NEW c \in Callers, InstallFirst(c)
    PROVE  HooksInv'
<1>1. /\ LookForHook(c, client) /\ UNCHANGED <<calls, lent, hooks>> /\ c \in Installers
      /\ facade' = [facade EXCEPT ![c].stage = "installing", ![c].via = client]
      /\ client \in {"own", "swapped"} /\ facade \in [Callers -> FacadeRecords]
      /\ installs[c].stage = "idle"
  BY DEF InstallFirst, InstallIs, vars, Installers, SharedInv, PoolInv, PoolTypes, FacadeInv
<1>2. PICK id \in {"own", "swapped"} : id = client
  BY <1>1
<1>3. PICK r \in InstallRecords :
        /\ installs' = [installs EXCEPT ![c] = r] /\ r.stage # "idle" /\ r.via = id
        /\ InstallSound(lent, hooks["swapped"], r)
  BY <1>1, <1>2, LookIs
<1>4. /\ facade'[c].via = id
      /\ \A d \in Callers \ {c} : facade'[d] = facade[d]
  BY <1>1, <1>2 DEF FacadeRecords
<1>5. ASSUME NEW d \in Callers PROVE CameInto(d)'
  <2>1. CASE d = c
    <3>1. installs'[c] = r
      BY <1>1, <1>3 DEF HooksInv
    <3>2. QED BY <1>3, <1>4, <2>1, <3>1 DEF CameInto
  <2>2. CASE d # c
    <3>1. installs'[d] = installs[d] /\ d \in Installers /\ CameInto(d)
      BY <1>3, <2>2 DEF HooksInv, Installers
    <3>2. QED BY <1>1, <1>4, <2>2, <3>1 DEF CameInto
  <2>3. QED BY <2>1, <2>2
<1>6. QED BY <1>1, <1>3, <1>5, InstallPut DEF HooksInv

(* The application writes to the client it lent. *)
LEMMA WriteKeeps ==
    ASSUME HooksInv, WriteHooks
    PROVE  HooksInv' /\ HookStays
<1>1. /\ lent /\ "late" \notin ToSet(hooks["own"]) /\ UNCHANGED <<calls, facade, lent>>
      /\ hooks \in [{"own", "swapped"} -> Seq(HookNames)]
      /\ \A id \in {"own", "swapped"} : Listed(TRUE, id, hooks[id])
      /\ installs \in [Installers -> InstallRecords]
      /\ lent = TRUE
  BY DEF WriteHooks, HooksInv, vars
<1>2. PICK list : /\ hooks' = [hooks EXCEPT !["own"] = list]
                  /\ Listed(TRUE, "own", list)
  <2> DEFINE more == Append(hooks["own"], "late")
  <2>1. Listed(TRUE, "own", more)
    BY <1>1, AppendKeeps
  <2>2. \/ hooks' = [hooks EXCEPT !["own"] = more]
        \/ hooks' = [hooks EXCEPT !["own"] = <<"late">>]
    BY DEF WriteHooks, Replace
  <2> HIDE DEF more
  <2>3. QED BY <2>1, <2>2, LateIsListed
<1>3. /\ hooks' \in [{"own", "swapped"} -> Seq(HookNames)]
      /\ hooks'["swapped"] = hooks["swapped"]
      /\ \A id \in {"own", "swapped"} : Listed(lent, id, hooks'[id])
  BY <1>1, <1>2 DEF Listed
<1>4. ASSUME NEW j \in Installers
      PROVE  /\ installs'[j] \in InstallRecords
             /\ installs'[j].stage = installs[j].stage
             /\ installs'[j].via = installs[j].via
             /\ InstallSound(lent, hooks["swapped"], installs'[j])
  <2>1. installs[j] \in InstallRecords /\ InstallSound(lent, hooks["swapped"], installs[j])
    BY DEF HooksInv
  <2>2. CASE installs' = installs
    BY <2>1, <2>2
  <2>3. CASE installs' = [k \in Installers |-> Outdated(k, "own")]
    <3>1. /\ Outdated(j, "own") \in InstallRecords
          /\ Outdated(j, "own").stage = installs[j].stage
          /\ Outdated(j, "own").via = installs[j].via
          /\ InstallSound(lent, hooks["swapped"], Outdated(j, "own"))
      BY <2>1, OutdatedIs
    <3>2. QED BY <2>3, <3>1
  <2>4. QED BY <2>2, <2>3 DEF WriteHooks
<1>5. installs' \in [Installers -> InstallRecords]
  <2>1. installs' = [j \in Installers |-> installs'[j]]
    BY <1>1 DEF WriteHooks
  <2>2. QED BY <1>4, <2>1
<1>6. ASSUME NEW c \in Callers PROVE CameInto(c)'
  <2>1. CameInto(c) /\ c \in Installers
    BY DEF HooksInv, Installers
  <2>2. QED BY <1>1, <1>3, <1>4, <2>1 DEF CameInto
<1>7. QED BY <1>1, <1>3, <1>4, <1>5, <1>6 DEF HooksInv, HookStays

(* In the child nobody is at it, and whose request was has no thread.      *)
LEMMA ForkKeeps ==
    ASSUME SharedInv, HooksInv, Fork
    PROVE  HooksInv'
<1>1. /\ UNCHANGED <<lent, hooks, facade>>
      /\ installs' = [i \in Installers |-> NoInstall]
      /\ calls' = [c \in Callers |-> IF Idle(c) THEN calls[c]
                                                ELSE [NewCall EXCEPT !.pc = "gone"]]
  BY DEF Fork
<1>2. /\ NoInstall \in InstallRecords
      /\ \A list : InstallSound(lent, list, NoInstall)
  <2> DEFINE nothing == <<>>
  <2>1. nothing \in Seq(HookNames)
    OBVIOUS
  <2>2. NoInstall = [stage |-> "idle", via |-> "own", stale |-> FALSE, copied |-> nothing]
    BY DEF NoInstall
  <2> HIDE DEF nothing
  <2>3. QED BY <2>1, <2>2 DEF InstallRecords, InstallSound
<1>3. \A i \in Installers : installs'[i] = NoInstall
  BY <1>1
<1>4. installs' \in [Installers -> InstallRecords]
  BY <1>1, <1>2
<1>5. ASSUME NEW c \in Callers PROVE CameInto(c)'
  <2>1. SUFFICES ASSUME facade'[c].stage = "installing"
                 PROVE  installs'[c].stage = "idle" /\ calls'[c].pc # "start"
    BY DEF CameInto
  <2>2. installs'[c].stage = "idle"
    BY <1>3 DEF Installers, NoInstall
  <2>3. ASSUME Idle(c) PROVE calls'[c].pc # "start"
    <3>1. calls'[c] = calls[c] /\ facade[c].stage = "installing"
      BY <1>1, <2>1, <2>3
    <3>2. calls[c].pc \in Ended
      BY <2>3, <3>1 DEF Idle, Stage
    <3>3. QED BY <3>1, <3>2 DEF Ended
  <2>4. ASSUME ~Idle(c) PROVE calls'[c].pc # "start"
    <3>1. calls'[c] = [NewCall EXCEPT !.pc = "gone"]
      BY <1>1, <2>4
    <3>2. QED BY <3>1 DEF NewCall
  <2>5. QED BY <2>2, <2>3, <2>4
<1>6. QED BY <1>1, <1>2, <1>3, <1>4, <1>5 DEF HooksInv

(* All other steps leave the lists alone, and who installs.                *)
Elsewhere ==
    /\ UNCHANGED <<lent, hooks, installs>>
    /\ \A c \in Callers : facade'[c].stage = "installing" =>
          /\ facade[c].stage = "installing" /\ facade'[c].via = facade[c].via
          /\ calls'[c].pc = "start" => calls[c].pc = "start"

LEMMA ElsewhereInstalls ==
    ASSUME HooksInv, Elsewhere
    PROVE  HooksInv'
<1>1. ASSUME NEW c \in Callers PROVE CameInto(c)'
  BY DEF HooksInv, Elsewhere, CameInto
<1>2. QED BY <1>1 DEF HooksInv, Elsewhere

(* A step of c's is one if it takes c no nearer to its request.            *)
LEMMA CallerElsewhere ==
    ASSUME NEW c \in Callers, UNCHANGED <<lent, hooks, installs>>,
           \A d \in Callers \ {c} : calls'[d] = calls[d] /\ facade'[d] = facade[d],
           \/ facade'[c].stage # "installing"
           \/ /\ facade'[c].stage = facade[c].stage /\ facade'[c].via = facade[c].via
              /\ calls'[c].pc # "start"
    PROVE  Elsewhere
  BY DEF Elsewhere

LEMMA RecorderElsewhere ==
    ASSUME SharedInv, NEW c \in Callers,
           LookForSink(c) \/ MakeReporter(c) \/ OwnReporter(c)
    PROVE  Elsewhere
<1>1. /\ UNCHANGED <<calls, lent, hooks, installs>>
      /\ facade \in [Callers -> FacadeRecords] /\ facade[c] \in FacadeRecords
  BY DEF LookForSink, MakeReporter, OwnReporter, vars, SharedInv, FacadeInv
<1>2. PICK stage \in {"making", "owning", "ready"} :
        \/ facade' = [facade EXCEPT ![c].stage = stage]
        \/ \E reporter : facade' = [facade EXCEPT ![c].stage = stage,
                                       ![c].reporter = reporter, ![c].via = client]
  BY DEF LookForSink, MakeReporter, OwnReporter, Ready
<1>3. /\ facade'[c].stage = stage
      /\ \A d \in Callers \ {c} : facade'[d] = facade[d]
  <2>1. CASE facade' = [facade EXCEPT ![c].stage = stage]
    BY <1>1, <2>1 DEF FacadeRecords
  <2>2. CASE \E reporter : facade' = [facade EXCEPT ![c].stage = stage,
                                         ![c].reporter = reporter, ![c].via = client]
    <3>1. PICK reporter : facade' = [facade EXCEPT ![c].stage = stage,
                                         ![c].reporter = reporter, ![c].via = client]
      BY <2>2
    <3>2. QED BY <1>1, <3>1 DEF FacadeRecords
  <2>3. QED BY <1>2, <2>1, <2>2
<1>4. facade'[c].stage # "installing" /\ UNCHANGED <<lent, hooks, installs>>
  BY <1>1, <1>3
<1>5. \A d \in Callers \ {c} : calls'[d] = calls[d] /\ facade'[d] = facade[d]
  BY <1>1, <1>3
<1>6. QED BY <1>4, <1>5, CallerElsewhere

LEMMA PoolElsewhere ==
    ASSUME SharedInv, NEW c \in Callers,
           ChooseHost(c) \/ EndRace(c) \/ InterruptRace(c) \/ SendInference(c) \/ FindClosed(c)
    PROVE  Elsewhere
<1>1. /\ UNCHANGED <<facade, lent, hooks, installs>> /\ Shape
      /\ \A d \in Callers : CallSound(d, calls[d], facade[d].kind, urls, lock, pending)
      /\ facade[c].stage = "installing" => facade[c].kind = "metadata"
  BY DEF ChooseHost, EndRace, InterruptRace, SendInference, FindClosed, clientVars,
         SharedInv, ReporterInv, PoolInv, FacadeInv
<1>2. OnlyCaller(c)
  <2>1. CASE FindClosed(c)
    BY <1>1, <2>1, CallsExcept DEF FindClosed, End
  <2>2. CASE ~FindClosed(c)
    BY <1>1, <2>2, PoolStep DEF ChooseHost, EndRace, InterruptRace, SendInference
  <2>3. QED BY <2>1, <2>2
<1>3. facade[c].stage # "installing"
  <2>1. CASE ChooseHost(c) \/ SendInference(c) \/ FindClosed(c)
    BY <1>1, <2>1 DEF ChooseHost, SendInference, FindClosed, Is
  <2>2. CASE EndRace(c) \/ InterruptRace(c)
    <3>1. calls[c].pc = "race"
      BY <2>2 DEF EndRace, InterruptRace, RaceEnds, RaceIsInterrupted, At
    <3>2. facade[c].kind = "inference"
      BY <1>1, <3>1 DEF CallSound, Ended
    <3>3. QED BY <1>1, <3>2
  <2>3. QED BY <2>1, <2>2
<1>4. QED BY <1>1, <1>2, <1>3, CallerElsewhere DEF OnlyCaller

LEMMA SendsElsewhere ==
    ASSUME SharedInv, NEW c \in Callers, SendMetadata(c) \/ SendElsewhere(c)
    PROVE  Elsewhere
<1>1. PICK id : SendVia(c, id)
  BY DEF SendMetadata, SendElsewhere
<1>2. /\ UNCHANGED <<lent, hooks, installs>> /\ Shape
      /\ facade' = [facade EXCEPT ![c].stage = "ready", ![c].via = id]
      /\ facade \in [Callers -> FacadeRecords] /\ facade[c] \in FacadeRecords
      /\ \E r : calls' = [calls EXCEPT ![c] = r]
  BY <1>1 DEF SendVia, SendsBy, Goto, End, SharedInv, ReporterInv, FacadeInv
<1>3. OnlyCaller(c)
  BY <1>2, CallsExcept
<1>4. /\ facade'[c].stage = "ready"
      /\ \A d \in Callers \ {c} : facade'[d] = facade[d]
  BY <1>2 DEF FacadeRecords
<1>5. QED BY <1>2, <1>3, <1>4, CallerElsewhere DEF OnlyCaller

LEMMA AnswersElsewhere ==
    ASSUME SharedInv, NEW c \in Callers, Answer(c) \/ NoAnswer(c)
    PROVE  Elsewhere
<1>1. /\ UNCHANGED <<lent, hooks, installs>> /\ Shape /\ PoolTypes
      /\ facade \in [Callers -> FacadeRecords] /\ facade[c] \in FacadeRecords
      /\ facade[c].stage = "installing" => facade[c].kind = "metadata"
  BY DEF Answer, NoAnswer, clientVars, SharedInv, ReporterInv, PoolInv, FacadeInv
<1>2. /\ \A d \in Callers \ {c} : facade'[d] = facade[d]
      /\ facade'[c].stage = facade[c].stage /\ facade'[c].via = facade[c].via
  <2>1. facade' = facade \/ facade' = [facade EXCEPT ![c].resent = facade[c].resent + 1]
    BY DEF Answer, NoAnswer, clientVars
  <2>2. QED BY <1>1, <2>1 DEF FacadeRecords
<1>3. OnlyCaller(c)
  <2>1. CASE Answered(c) \/ HostIsDead(c)
    BY <1>1, <2>1, PoolStep
  <2>2. CASE ~(Answered(c) \/ HostIsDead(c))
    <3>1. \E r : calls' = [calls EXCEPT ![c] = r]
      BY <2>2 DEF Answer, NoAnswer, Goto, End
    <3>2. QED BY <1>1, <3>1, CallsExcept
  <2>3. QED BY <2>1, <2>2
<1>4. facade[c].kind = "metadata" => calls'[c].pc # "start"
  <2>1. facade[c].kind = "metadata" => End(c)
    BY DEF Answer, Answered, NoAnswer, MayResend, Is
  <2>2. End(c) => calls'[c].pc = "ended"
    BY <1>1 DEF End, PoolTypes, NewCall
  <2>3. QED BY <2>1, <2>2
<1>5. QED BY <1>1, <1>2, <1>3, <1>4, CallerElsewhere DEF OnlyCaller

(* One hook appended to none or to one. *)
LEMMA AppendOne ==
    ASSUME NEW list \in Seq(HookNames), NEW hook \in HookNames
    PROVE  /\ Append(list, hook) \in Seq(HookNames)
           /\ Len(list) = 0 => /\ Len(Append(list, hook)) = 1
                               /\ Append(list, hook)[1] = hook
           /\ Len(list) = 1 => /\ Len(Append(list, hook)) = 2
                               /\ Append(list, hook)[1] = list[1]
                               /\ Append(list, hook)[2] = hook
<1>1. Len(list) \in Nat
  OBVIOUS
<1>2. /\ Append(list, hook) \in Seq(HookNames)
      /\ Len(Append(list, hook)) = Len(list) + 1
      /\ Append(list, hook)[Len(list) + 1] = hook
      /\ \A k \in 1..Len(list) : Append(list, hook)[k] = list[k]
  BY <1>1, AppendProperties
<1> DEFINE more == Append(list, hook)
<1> HIDE DEF more
<1>3. Len(list) = 1 => 1 \in 1..Len(list) /\ Len(list) + 1 = 2
  OBVIOUS
<1>4. Len(list) = 0 => Len(list) + 1 = 1
  OBVIOUS
<1>5. QED BY <1>2, <1>3, <1>4 DEF more

LEMMA InitHooks == ClientInit => HooksInv
<1> SUFFICES ASSUME ClientInit PROVE HooksInv
  OBVIOUS
<1>1. /\ lent \in BOOLEAN /\ installs = [i \in Installers |-> NoInstall]
      /\ hooks = [own     |-> Install(IF lent THEN <<"early">> ELSE <<>>),
                  swapped |-> <<"early">>]
      /\ \E kinds : facade = [c \in Callers |-> NewFacade(kinds[c])]
  BY DEF ClientInit
<1>2. /\ NoInstall \in InstallRecords
      /\ \A list : InstallSound(lent, list, NoInstall)
  <2> DEFINE nothing == <<>>
  <2>1. nothing \in Seq(HookNames)
    OBVIOUS
  <2>2. NoInstall = [stage |-> "idle", via |-> "own", stale |-> FALSE, copied |-> nothing]
    BY DEF NoInstall
  <2> HIDE DEF nothing
  <2>3. QED BY <2>1, <2>2 DEF InstallRecords, InstallSound
<1> DEFINE early == <<"early">>
           nothing == <<>>
           first == IF lent THEN Append(early, "sdk") ELSE Append(nothing, "sdk")
<1>3. hooks = [own |-> first, swapped |-> early]
  <2>1. "sdk" \notin ToSet(<<"early">>) /\ "sdk" \notin ToSet(<<>>)
    BY DEF ToSet
  <2>2. QED BY <1>1, <2>1 DEF Install
<1>4. /\ early \in Seq(HookNames) /\ Len(early) = 1 /\ early[1] = "early"
      /\ nothing \in Seq(HookNames) /\ Len(nothing) = 0 /\ "sdk" \in HookNames
  BY DEF HookNames
<1> HIDE DEF early, nothing
<1>5. Listed(lent, "swapped", early)
  <2>1. \A k \in 2..Len(early) : FALSE
    BY <1>4
  <2>2. QED BY <1>4, <2>1 DEF Listed
<1>6. Listed(lent, "own", first)
  <2>1. CASE lent
    <3> DEFINE s == Append(early, "sdk")
    <3>1. /\ s \in Seq(HookNames) /\ Len(s) = 2 /\ s[1] = "early" /\ s[2] = "sdk"
      BY <1>4, AppendOne
    <3> HIDE DEF s
    <3>2. 2..Len(s) = {2} /\ 1..Len(s) = {1, 2}
      BY <3>1
    <3>3. OnLent(s)
      BY <3>1, <3>2, HasIs DEF OnLent, Has
    <3>4. Listed(lent, "own", s)
      BY <2>1, <3>1, <3>3 DEF Listed
    <3>5. QED BY <2>1, <3>4 DEF s
  <2>2. CASE ~lent
    <3> DEFINE s == Append(nothing, "sdk")
    <3>1. s \in Seq(HookNames) /\ Len(s) = 1 /\ s[1] = "sdk"
      BY <1>4, AppendOne
    <3> HIDE DEF s
    <3>2. 1..Len(s) = {1}
      BY <3>1
    <3>3. Listed(lent, "own", s)
      BY <2>2, <3>1, <3>2 DEF Listed, OnlySdk
    <3>4. QED BY <2>2, <3>3 DEF s
  <2>3. QED BY <2>1, <2>2
<1> HIDE DEF first
<1>7. /\ hooks["own"] = first /\ hooks["swapped"] = early
      /\ DOMAIN hooks = {"own", "swapped"}
      /\ hooks = [id \in {"own", "swapped"} |-> hooks[id]]
  BY <1>3
<1>8. hooks \in [{"own", "swapped"} -> Seq(HookNames)]
  BY <1>5, <1>6, <1>7 DEF Listed
<1>9. \A id \in {"own", "swapped"} : Listed(lent, id, hooks[id])
  BY <1>5, <1>6, <1>7
<1>10. ASSUME NEW c \in Callers PROVE CameInto(c)
  BY <1>1 DEF CameInto, NewFacade
<1>11. QED BY <1>1, <1>2, <1>8, <1>9, <1>10 DEF HooksInv

LEMMA StepHooks == SharedInv /\ HooksInv /\ [ClientNext]_allVars => HooksInv' /\ HookStays
<1> SUFFICES ASSUME SharedInv, HooksInv, [ClientNext]_allVars PROVE HooksInv' /\ HookStays
  OBVIOUS
<1>1. ASSUME NEW i \in Installers, InstallStep(i) PROVE HooksInv' /\ HookStays
  BY <1>1, InstallKeeps
<1>2. ASSUME NEW p \in Probes, StartProbe(p) PROVE HooksInv' /\ HookStays
  BY <1>2, ProbeKeeps DEF StartProbe, HookStays
<1>3. ASSUME NEW c \in Callers, ClientStep(c) \/ InterruptRace(c), ~InstallStep(c)
      PROVE  HooksInv' /\ HookStays
  <2>1. CASE InstallFirst(c)
    BY <2>1, InstallFirstKeeps DEF InstallFirst, HookStays
  <2>2. CASE ~InstallFirst(c)
    <3>1. Elsewhere
      BY <1>3, <2>2, RecorderElsewhere, PoolElsewhere, SendsElsewhere, AnswersElsewhere
         DEF ClientStep
    <3>2. QED BY <3>1, ElsewhereInstalls DEF Elsewhere, HookStays
  <2>3. QED BY <2>1, <2>2
<1>4. ASSUME CloseReporter \/ CloseHttpx \/ Swap \/ UNCHANGED allVars PROVE HooksInv' /\ HookStays
  <2>1. UNCHANGED <<calls, facade, lent, hooks, installs>>
    BY <1>4 DEF CloseReporter, CloseHttpx, Swap, SwapClient, vars, clientVars, allVars
  <2>2. Elsewhere
    BY <2>1 DEF Elsewhere
  <2>3. QED BY <2>2, ElsewhereInstalls DEF Elsewhere, HookStays
<1>5. CASE WriteHooks
  BY <1>5, WriteKeeps
<1>6. CASE Fork
  BY <1>6, ForkKeeps DEF Fork, HookStays
<1>7. \A c \in Callers \cup Probes : c \in Installers
  BY DEF Installers
<1>8. QED BY <1>1, <1>2, <1>3, <1>4, <1>5, <1>6, <1>7 DEF ClientNext

LEMMA HooksHold == ClientSpec => []HooksInv
  BY SharedHolds, InitHooks, StepHooks, PTL DEF ClientSpec

-----------------------------------------------------------------------------
(* Whatever the callers do, a call's index is in the list, and a call      *)
(* whose hosts are dead sees all of them before it comes to one again      *)
(* (BaseUrlPool.current and next_base_index).                              *)
THEOREM PoolIsWalked == ClientSpec => []ListIsWalked
<1> SUFFICES ASSUME SharedInv, HooksInv PROVE ListIsWalked
  BY SharedHolds, HooksHold, PTL
<1>1. /\ PoolInv /\ PoolTypes /\ FacadeInv
      /\ \A c \in Callers : calls[c] \in CallRecords
      /\ \A c \in Callers : facade[c] \in FacadeRecords
  BY DEF SharedInv, PoolInv, FacadeInv, PoolTypes
<1>2. PoolTypeOK
  BY <1>1 DEF PoolTypes, PoolTypeOK, CallRecords, Pcs
<1>3. ClientTypeOK
  <2>1. /\ hooks \in [{"own", "swapped"} -> Seq({"early", "late", "sdk"})]
        /\ \A i \in Installers : installs[i] \in InstallRecords
    BY DEF HooksInv, HookNames
  <2>2. open \in [{"own", "swapped"} -> BOOLEAN] /\ closer \in {"none", "flushed", "done"}
    BY DEF SharedInv, ReporterInv, ClosedInv, Shape
  <2>3. reporters \in Seq({"open", "closed"}) /\ sink \in 0..Len(reporters)
    BY DEF SharedInv, ReporterInv, MakerInv, Shape
  <2>4. \A c \in Callers :
          /\ facade[c].stage \in {"fresh", "making", "owning", "installing", "ready"}
          /\ facade[c].via \in {"own", "swapped"}
    BY <1>1 DEF FacadeRecords
  <2>5. \A i \in Installers :
          /\ installs[i].stage \in {"idle", "look", "append", "copy", "assign"}
          /\ installs[i].via \in {"own", "swapped"}
          /\ installs[i].copied \in Seq({"early", "late", "sdk"})
    BY <2>1 DEF InstallRecords, HookNames
  <2>6. QED BY <1>2, <2>1, <2>2, <2>3, <2>4, <2>5 DEF ClientTypeOK
<1>4. IndexInList
  <2>1. \A c \in Callers : CallSound(c, calls[c], facade[c].kind, urls, lock, pending)
    BY <1>1 DEF PoolInv
  <2>2. QED BY <1>2, <2>1 DEF IndexInList, CallSound, At
<1>5. NoHostTwice
  <2>1. SUFFICES ASSUME client = "own", setup.failover, NEW c \in Callers,
                        NEW i \in 1..Len(calls[c].sent), NEW j \in 1..Len(calls[c].sent),
                        i < j, calls[c].sent[i] = calls[c].sent[j]
                 PROVE  ToSet(urls) \subseteq ToSet(SubSeq(calls[c].sent, 1, j - 1))
    BY DEF NoHostTwice
  <2> DEFINE sent == calls[c].sent
             n == Len(urls)
  <2>2. /\ sent \in Seq(Hosts) /\ urls \in Seq(Hosts) /\ n \in Nat /\ n # 0 /\ Distinct(urls)
        /\ i \in Nat /\ j \in Nat
    BY <1>1 DEF PoolTypes, PoolInv, CallRecords
  <2>3. \A k \in 1..Len(sent) : sent[k] = urls[Reached(k - 1, urls) + 1]
    BY <1>1, <2>1 DEF PoolInv, CallSound, Walks
  <2>4. ASSUME j <= n PROVE FALSE
    <3>1. Reached(i - 1, urls) + 1 = i /\ Reached(j - 1, urls) + 1 = j
      BY <2>1, <2>2, <2>4 DEF Reached
    <3>2. urls[i] = urls[j]
      BY <2>1, <2>3, <3>1
    <3>3. QED BY <2>1, <2>2, <2>4, <3>2 DEF Distinct
  <2>5. n <= j - 1
    BY <2>2, <2>4
  <2> DEFINE front == SubSeq(sent, 1, j - 1)
  <2>6. /\ DOMAIN front = 1..(j - 1)
        /\ \A k \in 1..(j - 1) : front[k] = sent[k] /\ k \in 1..Len(sent)
    <3>1. j - 1 \in 0..Len(sent) /\ Len(sent) \in Nat
      BY <2>1, <2>2
    <3>2. /\ front \in Seq(Hosts) /\ Len(front) = j - 1
          /\ \A k \in 1..(j - 1) : front[k] = sent[k]
      BY <2>2, <3>1
    <3>3. QED BY <3>1, <3>2
  <2>7. ASSUME NEW k \in 1..n PROVE urls[k] \in ToSet(front)
    <3>1. Reached(k - 1, urls) + 1 = k /\ k \in 1..(j - 1)
      BY <2>2, <2>5 DEF Reached
    <3>2. front[k] = urls[k]
      BY <2>3, <2>6, <3>1
    <3> HIDE DEF front
    <3>3. QED BY <2>6, <3>1, <3>2 DEF ToSet
  <2>8. QED BY <2>2, <2>7 DEF ToSet
<1>6. QED BY <1>3, <1>4, <1>5 DEF ListIsWalked

-----------------------------------------------------------------------------
(***************************************************************************)
(* The wire.                                                               *)
(***************************************************************************)
LEMMA SetInduction ==
    ASSUME NEW T \in SUBSET Nat, 0 \in T, \A n \in T : n + 1 \in T
    PROVE  T = Nat
<1> SUFFICES ASSUME Nat \ T # {} PROVE FALSE
  OBVIOUS
<1>1. PICK m \in Nat \ T : \A n \in Nat \ T : m <= n
  BY LeastExists
<1>2. m # 0 /\ m - 1 \in Nat /\ (m - 1) + 1 = m /\ ~(m <= m - 1)
  BY <1>1
<1>3. m - 1 \in T
  BY <1>1, <1>2
<1>4. m \in T
  BY <1>2, <1>3
<1>5. QED BY <1>1, <1>4

(* I[T] is what the hooks at the places T, of the first n, make of r. *)
HookTable(I, r, list, n) ==
    I = [T \in SUBSET (1..n) |->
            IF T = {} THEN r ELSE RunHook(I[T \ {Max(T)}], list[Max(T)])]

LEMMA LastIsMax ==
    ASSUME NEW n \in Nat, NEW T \in SUBSET (1..n), n \in T
    PROVE  Max(T) = n
<1>1. \A i \in T : i \in Nat /\ n >= i
  OBVIOUS
<1>2. Max(T) \in T /\ \A i \in T : Max(T) >= i
  <2>1. \E x \in T : \A y \in T : x >= y
    BY <1>1
  <2>2. QED BY <2>1 DEF Max
<1> DEFINE m == Max(T)
<1>3. m \in Nat /\ m >= n /\ n >= m
  BY <1>1, <1>2
<1> HIDE DEF m
<1>4. m = n
  BY <1>3
<1>5. QED BY <1>4 DEF m

(* There is such a table, row by row. *)
LEMMA TableExists ==
    ASSUME NEW r, NEW list, NEW n \in Nat
    PROVE  \E I : HookTable(I, r, list, n)
<1> DEFINE N == {m \in Nat : \E I : HookTable(I, r, list, m)}
<1>1. 0 \in N
  <2> DEFINE I == [T \in SUBSET (1..0) |-> r]
  <2>1. \A T \in SUBSET (1..0) : T = {}
    OBVIOUS
  <2>2. I = [T \in SUBSET (1..0) |->
               IF T = {} THEN r ELSE RunHook(I[T \ {Max(T)}], list[Max(T)])]
    BY <2>1
  <2> HIDE DEF I
  <2>3. QED BY <2>2 DEF HookTable
<1>2. ASSUME NEW m \in N PROVE m + 1 \in N
  <2>1. m \in Nat
    OBVIOUS
  <2>2. PICK I : HookTable(I, r, list, m)
    OBVIOUS
  <2> DEFINE H == [T \in SUBSET (1..(m + 1)) |->
                      IF m + 1 \in T THEN RunHook(I[T \ {m + 1}], list[m + 1]) ELSE I[T]]
             Value(T) == IF T = {} THEN r ELSE RunHook(H[T \ {Max(T)}], list[Max(T)])
  <2>3. \A T \in SUBSET (1..m) : I[T] = IF T = {} THEN r ELSE RunHook(I[T \ {Max(T)}], list[Max(T)])
    BY <2>2 DEF HookTable
  <2>4. \A T \in SUBSET (1..(m + 1)) : m + 1 \notin T => T \in SUBSET (1..m)
    BY <2>1
  <2>5. \A T \in SUBSET (1..(m + 1)) : H[T] =
            IF m + 1 \in T THEN RunHook(I[T \ {m + 1}], list[m + 1]) ELSE I[T]
    OBVIOUS
  <2> HIDE DEF H
  <2>6. ASSUME NEW T \in SUBSET (1..(m + 1)) PROVE H[T] = Value(T)
    <3>1. CASE m + 1 \in T
      <4>1. Max(T) = m + 1 /\ T # {}
        BY <2>1, <3>1, LastIsMax
      <4>2. T \ {m + 1} \in SUBSET (1..(m + 1)) /\ m + 1 \notin T \ {m + 1}
        OBVIOUS
      <4>3. H[T \ {m + 1}] = I[T \ {m + 1}]
        BY <2>5, <4>2
      <4>4. H[T] = RunHook(I[T \ {m + 1}], list[m + 1])
        BY <2>5, <3>1
      <4>5. QED BY <4>1, <4>3, <4>4
    <3>2. CASE m + 1 \notin T
      <4>1. H[T] = I[T] /\ T \in SUBSET (1..m)
        BY <2>4, <2>5, <3>2
      <4>2. CASE T = {}
        BY <2>3, <4>1, <4>2
      <4>3. CASE T # {}
        <5> DEFINE S == T \ {Max(T)}
        <5>1. S \in SUBSET (1..(m + 1)) /\ m + 1 \notin S
          BY <3>2
        <5>2. H[S] = I[S]
          BY <2>5, <5>1
        <5>3. I[T] = RunHook(I[S], list[Max(T)])
          BY <2>3, <4>1, <4>3
        <5>4. QED BY <4>1, <4>3, <5>2, <5>3
      <4>4. QED BY <4>2, <4>3
    <3>3. QED BY <3>1, <3>2
  <2>7. H = [T \in SUBSET (1..(m + 1)) |-> H[T]]
    BY DEF H
  <2>8. H = [T \in SUBSET (1..(m + 1)) |-> Value(T)]
    <3> HIDE DEF Value
    <3> QED BY <2>6, <2>7
  <2>9. HookTable(H, r, list, m + 1)
    BY <2>8 DEF HookTable
  <2>10. QED BY <2>1, <2>9
<1> HIDE DEF N
<1>3. N = Nat
  <2>1. N \in SUBSET Nat
    BY DEF N
  <2>2. QED BY <1>1, <1>2, <2>1, SetInduction
<1>4. QED BY <1>3 DEF N

(* The hooks run in the order of the list, each on what the last has made. *)
Runs(G, r, list) ==
    /\ G[0] = r
    /\ \A k \in 1..Len(list) : G[k] = RunHook(G[k - 1], list[k])

(* That is what the fold over the list computes. *)
LEMMA HooksRun ==
    ASSUME NEW r, NEW S, NEW list \in Seq(S)
    PROVE  \E G : Runs(G, r, list) /\ FoldLeft(RunHook, r, list) = G[Len(list)]
<1> DEFINE n == Len(list)
<1>1. n \in Nat /\ DOMAIN list = 1..n
  OBVIOUS
<1>2. \E I : HookTable(I, r, list, n)
  BY <1>1, TableExists
<1>3. PICK I : HookTable(I, r, list, n) /\ FoldLeft(RunHook, r, list) = I[1..n]
  <2>1. FoldLeft(RunHook, r, list) =
           (CHOOSE I : HookTable(I, r, list, n))[1..n]
    BY Zenon, <1>1 DEF FoldLeft, MapThenFoldSet, HookTable
  <2>2. QED BY <1>2, <2>1
<1> DEFINE G == [k \in 0..n |-> I[1..k]]
<1>4. G[0] = r
  <2>1. 1..0 = {} /\ {} \in SUBSET (1..n) /\ 0 \in 0..n
    BY <1>1
  <2>2. I[{}] = r
    BY <1>3, <2>1 DEF HookTable
  <2>3. QED BY <2>1, <2>2
<1>5. ASSUME NEW k \in 1..n PROVE G[k] = RunHook(G[k - 1], list[k])
  <2>0. \A m \in Nat : \A i \in 1..m :
           /\ i \in Nat /\ i \in 1..i /\ (1..i) \ {i} = 1..(i - 1)
           /\ i \in 0..m /\ i - 1 \in 0..m /\ \A j \in 1..i : j \in 1..m
    OBVIOUS
  <2>1. /\ k \in Nat /\ k \in 1..k /\ 1..k # {} /\ 1..k \in SUBSET (1..n)
        /\ (1..k) \ {k} = 1..(k - 1) /\ k \in 0..n /\ k - 1 \in 0..n
    <3> HIDE DEF n, G
    <3>1. n \in Nat
      BY <1>1
    <3>2. QED BY <2>0, <3>1
  <2>2. Max(1..k) = k
    BY <2>1, LastIsMax
  <2>3. I[1..k] = RunHook(I[(1..k) \ {k}], list[k])
    BY <1>3, <2>1, <2>2 DEF HookTable
  <2>4. QED BY <2>1, <2>3
<1>6. G[n] = I[1..n]
  BY <1>1
<1> HIDE DEF G
<1>7. Runs(G, r, list)
  BY <1>4, <1>5 DEF Runs
<1>8. QED BY <1>3, <1>6, <1>7

(* Who can have written a header; the headers and requests of any client.  *)
Values == {"absent", "ambient", "sdk", "recorder", "caller"}

HeaderSets == [Names -> Values]

Requests == [headers : HeaderSets, marked : BOOLEAN, expected : Values, free : BOOLEAN]

(* No hook touches the two markers. *)
SameMarks(r, q) == r.marked = q.marked /\ r.expected = q.expected /\ r.free = q.free

(* The operators on headers make headers. *)
LEMMA HeadersAre ==
    ASSUME NEW h \in HeaderSets, NEW g \in HeaderSets, NEW names, NEW name \in Names,
           NEW value \in Values
    PROVE  /\ Update(h, g) \in HeaderSets /\ Put(h, name, value) \in HeaderSets
           /\ Without(h, names) \in HeaderSets
           /\ NoHeaders \in HeaderSets /\ Ambient \in HeaderSets
<1>1. Update(h, g) \in HeaderSets
  BY DEF Update, HeaderSets
<1>2. Put(h, name, value) \in HeaderSets
  BY DEF Put, HeaderSets
<1>3. Without(h, names) \in HeaderSets
  BY DEF Without, HeaderSets, Values, Absent
<1>4. NoHeaders \in HeaderSets /\ Ambient \in HeaderSets
  BY DEF NoHeaders, Ambient, HeaderSets, Values, Absent
<1>5. QED BY <1>1, <1>2, <1>3, <1>4

(* What the SDK's hook does to a request, and any other. *)
LEMMA EnforceIs ==
    ASSUME NEW r \in Requests
    PROVE  /\ Enforce(r) \in Requests /\ SameMarks(Enforce(r), r)
           /\ r.marked => Enforce(r).headers["x-tr-client"] = r.expected
           /\ r.marked /\ r.free /\ r.expected = Absent => Enforce(r).headers = NoHeaders
           /\ ~r.free => \A n \in CredentialHeaders : Enforce(r).headers[n] = r.headers[n]
           /\ ~r.free /\ ~r.marked => Enforce(r).headers = r.headers
<1> DEFINE own == IF r.marked THEN Put(StripReserved(r.headers), "x-tr-client", r.expected)
                              ELSE r.headers
           headers == IF r.free THEN StripCredentials(own) ELSE own
<1>1. r.headers \in HeaderSets /\ r.expected \in Values /\ r.marked \in BOOLEAN /\ r.free \in BOOLEAN
  BY DEF Requests
<1>2. "x-tr-client" \in Names /\ "x-tr-client" \notin CredentialHeaders /\ CredentialHeaders \subseteq Names
  BY DEF Names, CredentialHeaders, ReservedHeaders
<1>3. own \in HeaderSets
  BY <1>1, <1>2, HeadersAre DEF StripReserved
<1>4. r.marked => own["x-tr-client"] = r.expected
  BY <1>1, <1>2, HeadersAre DEF StripReserved, Without, Put, ReservedHeaders, HeaderSets
<1>5. \A n \in CredentialHeaders : own[n] = r.headers[n]
  BY <1>1, <1>2 DEF StripReserved, Without, Put, ReservedHeaders, HeaderSets
<1>6. ~r.marked => own = r.headers
  OBVIOUS
<1>7. Enforce(r) = [r EXCEPT !.headers = headers]
  BY DEF Enforce
<1> HIDE DEF own
<1>8. headers \in HeaderSets
  BY <1>3 DEF StripCredentials, Without, HeaderSets, Values, Absent
<1>9. r.marked => headers["x-tr-client"] = r.expected
  BY <1>2, <1>4 DEF StripCredentials, Without
<1>10. ASSUME r.marked, r.free, r.expected = Absent PROVE headers = NoHeaders
  <2>1. headers = [n \in Names |-> IF n \in CredentialHeaders THEN Absent ELSE own[n]]
    BY <1>10 DEF StripCredentials, Without
  <2>2. \A n \in Names : n \notin CredentialHeaders => n = "x-tr-client"
    BY DEF CredentialHeaders, ReservedHeaders
  <2>3. \A n \in Names : headers[n] = Absent
    BY <1>4, <1>10, <2>1, <2>2
  <2>4. QED BY <2>1, <2>3 DEF NoHeaders
<1>11. ~r.free => headers = own
  OBVIOUS
<1> HIDE DEF headers
<1>12. Enforce(r) \in Requests /\ SameMarks(Enforce(r), r) /\ Enforce(r).headers = headers
  BY <1>7, <1>8 DEF Requests, SameMarks
<1>13. QED BY <1>5, <1>6, <1>9, <1>10, <1>11, <1>12

(* Any other hook overwrites everything. *)
LEMMA AnyWriterIs ==
    ASSUME NEW r \in Requests
    PROVE  /\ AnyWriter(r) \in Requests /\ SameMarks(AnyWriter(r), r)
           /\ AnyWriter(r).headers = Ambient
<1>1. Ambient \in HeaderSets
  BY DEF Ambient, HeaderSets, Values
<1>2. QED BY <1>1 DEF AnyWriter, Requests, SameMarks

(* The SDK's hook, however often it runs, overrides no argument of a call  *)
(* and leaves the caller's own traffic alone.                              *)
LikeEnforced(w, r) ==
    /\ ~r.free => \A n \in CredentialHeaders : w.headers[n] = r.headers[n]
    /\ ~r.free /\ ~r.marked => w.headers = r.headers

(* What a list of hooks does to a request. *)
LEMMA ListDoes ==
    ASSUME NEW r \in Requests, NEW list \in Seq(HookNames)
    PROVE  LET w == FoldLeft(RunHook, r, list)
           IN  /\ w \in Requests /\ SameMarks(w, r)
               /\ ~r.marked /\ ~r.free /\ r.headers = Ambient => w.headers = Ambient
               /\ OnlySdk(list) => LikeEnforced(w, r)
               /\ Terminal(list) => \E p \in Requests : SameMarks(p, r) /\ w = Enforce(p)
<1> DEFINE n == Len(list)
           Same(w) == /\ w \in Requests /\ SameMarks(w, r)
                      /\ ~r.marked /\ ~r.free /\ r.headers = Ambient => w.headers = Ambient
                      /\ OnlySdk(list) => LikeEnforced(w, r)
<1>1. PICK G : Runs(G, r, list) /\ FoldLeft(RunHook, r, list) = G[n]
  BY HooksRun
<1>2. n \in Nat /\ G[0] = r /\ \A k \in 1..n : G[k] = RunHook(G[k - 1], list[k])
  BY <1>1 DEF Runs
<1>3. Same(r)
  BY DEF SameMarks, LikeEnforced
<1>4. ASSUME NEW w, Same(w), NEW hook, OnlySdk(list) => hook = "sdk"
      PROVE  Same(RunHook(w, hook))
  <2>1. w \in Requests /\ SameMarks(w, r)
    BY <1>4
  <2>2. CASE hook = "sdk"
    <3>1. RunHook(w, hook) = Enforce(w)
      BY <2>2 DEF RunHook
    <3>2. /\ Enforce(w) \in Requests /\ SameMarks(Enforce(w), w) /\ LikeEnforced(Enforce(w), w)
      BY <2>1, EnforceIs DEF LikeEnforced
    <3>3. /\ OnlySdk(list) => LikeEnforced(w, r)
          /\ ~r.marked /\ ~r.free /\ r.headers = Ambient => w.headers = Ambient
      BY <1>4
    <3> DEFINE q == Enforce(w)
    <3> HIDE DEF q
    <3>4. SameMarks(q, r) /\ q \in Requests
      BY <2>1, <3>2 DEF SameMarks, q
    <3>5. ~r.marked /\ ~r.free /\ r.headers = Ambient => q.headers = Ambient
      BY <2>1, <3>2, <3>3 DEF SameMarks, LikeEnforced, q
    <3>6. OnlySdk(list) => LikeEnforced(q, r)
      BY <2>1, <3>2, <3>3 DEF SameMarks, LikeEnforced, q
    <3>7. QED BY <3>1, <3>4, <3>5, <3>6 DEF q
  <2>3. CASE hook # "sdk"
    <3>1. RunHook(w, hook) = AnyWriter(w)
      BY <2>3 DEF RunHook
    <3>2. ~OnlySdk(list)
      BY <1>4, <2>3
    <3>3. QED BY <2>1, <3>1, <3>2, AnyWriterIs DEF SameMarks
  <2>4. QED BY <2>2, <2>3
<1> HIDE DEF Same
<1> DEFINE T == {k \in Nat : k <= n => Same(G[k])}
<1>5. 0 \in T
  BY <1>2, <1>3
<1>6. ASSUME NEW k \in T PROVE k + 1 \in T
  <2>1. SUFFICES ASSUME k + 1 <= n PROVE Same(G[k + 1])
    OBVIOUS
  <2>2. k \in Nat /\ Same(G[k])
    BY <1>2, <2>1
  <2>3. k + 1 \in 1..n /\ (k + 1) - 1 = k
    BY <1>2, <2>1, <2>2
  <2>4. G[k + 1] = RunHook(G[k], list[k + 1])
    BY <1>2, <2>3
  <2>5. OnlySdk(list) => list[k + 1] = "sdk"
    BY <2>3 DEF OnlySdk
  <2>6. QED BY <1>4, <2>2, <2>4, <2>5
<1> HIDE DEF T
<1>7. T = Nat
  <2>1. T \in SUBSET Nat
    BY DEF T
  <2>2. QED BY <1>5, <1>6, <2>1, SetInduction
<1>8. \A k \in 0..n : Same(G[k])
  BY <1>2, <1>7 DEF T
<1>9. Same(G[n])
  BY <1>2, <1>8
<1>10. ASSUME Terminal(list) PROVE \E p \in Requests : SameMarks(p, r) /\ G[n] = Enforce(p)
  <2>1. n # 0 /\ list[n] = "sdk"
    BY <1>10 DEF Terminal, Last
  <2>2. n \in 1..n /\ n - 1 \in 0..n
    BY <1>2, <2>1
  <2>3. G[n] = Enforce(G[n - 1])
    BY <1>2, <2>1, <2>2 DEF RunHook
  <2>4. G[n - 1] \in Requests /\ SameMarks(G[n - 1], r)
    BY <1>8, <2>2 DEF Same
  <2>5. QED BY <2>3, <2>4
<1>11. QED BY <1>1, <1>9, <1>10 DEF Same

(* The requests that the calls build. *)
LEMMA RequestsAre ==
    ASSUME FacadeInv, NEW c \in Callers, NEW list
    PROVE  LET httpx == HttpxClient(facade[c].via, list)
               r == RequestOf(c, httpx)
           IN  /\ r \in Requests
               /\ facade[c].kind \in {"inference", "control"} =>
                     /\ r.marked /\ ~r.free /\ r.expected = ReservedValue(c)
                     /\ \A n \in {"authorization", "idempotency-key", "workspace"} :
                           r.headers[n] = "sdk"
               /\ facade[c].kind = "metadata" =>
                     r.marked /\ r.free /\ r.expected = Absent /\ ReservedValue(c) = Absent
               /\ facade[c].kind = "unmarked" => ~r.marked /\ ~r.free /\ r.headers = Given
<1> DEFINE httpx == HttpxClient(facade[c].via, list)
           r == RequestOf(c, httpx)
<1>1. facade[c] \in FacadeRecords
  BY DEF FacadeInv
<1>2. /\ Ambient \in HeaderSets /\ NoHeaders \in HeaderSets /\ Given \in HeaderSets
  BY DEF Ambient, NoHeaders, Given, HeaderSets, Values, Absent
<1>3. DefaultHeaders \in HeaderSets
  BY <1>2, HeadersAre DEF DefaultHeaders, StripReserved, Values, Names
<1>4. httpx.defaults \in HeaderSets
  BY <1>2, <1>3 DEF HttpxClient
<1> HIDE DEF httpx
<1>5. ReservedValue(c) \in Values
  BY DEF ReservedValue, Values, Absent
<1>6. CASE facade[c].kind \in {"inference", "control"}
  <2> DEFINE u == Update(DefaultHeaders, Given)
             h == AuthorizedHeaders(DefaultHeaders, Given, Arguments)
             q == ApplyReserved(h, ReservedValue(c))
             s == Put(StripReserved(h), "x-tr-client", ReservedValue(c))
  <2>1. u \in HeaderSets
    BY <1>2, <1>3 DEF Update, HeaderSets
  <2>2. h = [[[u EXCEPT !["idempotency-key"] = "sdk"] EXCEPT !["workspace"] = "sdk"]
                EXCEPT !["authorization"] = "sdk"]
    BY DEF AuthorizedHeaders, Put, Arguments, Absent
  <2> HIDE DEF u, h
  <2>3. /\ h \in HeaderSets
        /\ \A n \in {"authorization", "idempotency-key", "workspace"} : h[n] = "sdk"
    BY <2>1, <2>2 DEF HeaderSets, Names, Values
  <2>4. /\ s \in HeaderSets
        /\ \A n \in {"authorization", "idempotency-key", "workspace"} : s[n] = "sdk"
    <3>1. StripReserved(h) = [n \in Names |-> IF n = "x-tr-client" THEN Absent ELSE h[n]]
      BY DEF StripReserved, Without, ReservedHeaders
    <3>2. /\ StripReserved(h) \in HeaderSets
          /\ \A n \in {"authorization", "idempotency-key", "workspace"} : StripReserved(h)[n] = "sdk"
      BY <2>3, <3>1 DEF HeaderSets, Names, Values, Absent
    <3> DEFINE b == StripReserved(h)
               value == ReservedValue(c)
    <3>3. b \in HeaderSets /\ value \in Values /\ s = Put(b, "x-tr-client", value)
      BY <1>5, <3>2
    <3>4. \A n \in {"authorization", "idempotency-key", "workspace"} :
             b[n] = "sdk" /\ n \in Names /\ n # "x-tr-client"
      BY <3>2 DEF Names
    <3> HIDE DEF b, value, s
    <3>5. QED BY <3>3, <3>4 DEF Put, HeaderSets
  <2>5. q = [headers |-> s, marked |-> TRUE, expected |-> ReservedValue(c), free |-> FALSE]
    BY DEF ApplyReserved
  <2> HIDE DEF s
  <2> DEFINE m == Update(httpx.defaults, s)
  <2>6. /\ m \in HeaderSets
        /\ \A n \in {"authorization", "idempotency-key", "workspace"} : m[n] = "sdk"
    BY <1>4, <2>4 DEF Update, HeaderSets, Names, Absent
  <2>7. r = [headers |-> m, marked |-> TRUE, expected |-> ReservedValue(c), free |-> FALSE]
    <3>1. RequestOf(c, httpx) = AuthorizedRequest(c, httpx)
      <4> HIDE DEF q, m, r
      <4>1. QED BY <1>6 DEF RequestOf, Is
    <3>2. r = Merged(httpx, q)
      BY <3>1 DEF AuthorizedRequest, h
    <3> HIDE DEF q, r
    <3>3. QED BY <2>5, <3>2 DEF Merged
  <2> HIDE DEF m, r
  <2>8. QED BY <1>5, <1>6, <2>6, <2>7 DEF Requests, r, httpx
<1>7. CASE facade[c].kind = "metadata"
  <2> DEFINE h == StripReserved(StripCredentials(Update(httpx.defaults, NoHeaders)))
  <2>1. h \in HeaderSets
    BY <1>2, <1>4 DEF StripReserved, StripCredentials, Without, Update, HeaderSets, Values, Absent
  <2>2. r = [headers |-> h, marked |-> TRUE, expected |-> Absent, free |-> TRUE]
    BY <1>7 DEF RequestOf, MetadataRequest, CredentialFree, Is
  <2>3. ReservedValue(c) = Absent
    BY <1>7 DEF ReservedValue, FacadeInv
  <2> HIDE DEF h, r
  <2>4. QED BY <1>7, <2>1, <2>2, <2>3 DEF Requests, Values, Absent, r, httpx
<1>8. CASE facade[c].kind = "unmarked"
  <2> DEFINE h == Update(httpx.defaults, Given)
  <2>1. h = Given
    BY DEF Update, Given, Absent
  <2>2. r = [headers |-> h, marked |-> FALSE, expected |-> Absent, free |-> FALSE]
    BY <1>8 DEF RequestOf, Unmarked, Is
  <2> HIDE DEF h, r
  <2>3. QED BY <1>2, <1>8, <2>1, <2>2 DEF Requests, Values, Absent, r, httpx
<1>9. QED BY <1>1, <1>6, <1>7, <1>8 DEF FacadeRecords

(* Lists to which only the SDK's hook was added. *)
LEMMA AddsNone ==
    ASSUME NEW list \in Seq(HookNames), OnlySdk(list)
    PROVE  Adds(<<>>, list)
<1> DEFINE none == <<>>
<1>1. DOMAIN none = {} /\ DOMAIN list = 1..Len(list)
  OBVIOUS
<1> HIDE DEF none
<1> DEFINE place == [i \in DOMAIN none |-> 1]
<1>2. place \in [DOMAIN none -> DOMAIN list]
  BY <1>1
<1> HIDE DEF place
<1>3. Adds(none, list)
  BY <1>1, <1>2 DEF Adds, OnlySdk
<1>4. QED BY <1>3 DEF none

LEMMA AddsOne ==
    ASSUME NEW list \in Seq(HookNames), NEW a, NEW j \in 1..Len(list), list[j] = a,
           \A k \in 1..Len(list) : k # j => list[k] = "sdk"
    PROVE  Adds(<<a>>, list)
<1> DEFINE one == <<a>>
           place == [i \in {1} |-> j]
<1>1. DOMAIN one = {1} /\ one[1] = a /\ DOMAIN list = 1..Len(list)
  OBVIOUS
<1>2. place \in [{1} -> 1..Len(list)] /\ place[1] = j
  OBVIOUS
<1> HIDE DEF one, place
<1>3. \A i, k \in DOMAIN one : i < k => place[i] < place[k]
  BY <1>1
<1>4. \A i \in DOMAIN one : list[place[i]] = one[i]
  BY <1>1, <1>2
<1>5. \A k \in DOMAIN list : (\A i \in DOMAIN one : place[i] # k) => list[k] = "sdk"
  BY <1>1, <1>2
<1>6. Adds(one, list)
  BY <1>1, <1>2, <1>3, <1>4, <1>5 DEF Adds
<1>7. QED BY <1>6 DEF one

LEMMA AddsTwo ==
    ASSUME NEW list \in Seq(HookNames), NEW a, NEW b,
           NEW j \in 1..Len(list), NEW l \in 1..Len(list), j < l, list[j] = a, list[l] = b,
           \A k \in 1..Len(list) : k # j /\ k # l => list[k] = "sdk"
    PROVE  Adds(<<a, b>>, list)
<1> DEFINE two == <<a, b>>
           place == [i \in {1, 2} |-> IF i = 1 THEN j ELSE l]
<1>1. DOMAIN two = {1, 2} /\ two[1] = a /\ two[2] = b /\ DOMAIN list = 1..Len(list)
  OBVIOUS
<1>2. place \in [{1, 2} -> 1..Len(list)] /\ place[1] = j /\ place[2] = l
  OBVIOUS
<1> HIDE DEF two, place
<1>3. \A i, k \in DOMAIN two : i < k => place[i] < place[k]
  BY <1>1, <1>2
<1>4. \A i \in DOMAIN two : list[place[i]] = two[i]
  BY <1>1, <1>2
<1>5. \A k \in DOMAIN list : (\A i \in DOMAIN two : place[i] # k) => list[k] = "sdk"
  BY <1>1, <1>2
<1>6. Adds(two, list)
  BY <1>1, <1>2, <1>3, <1>4, <1>5 DEF Adds
<1>7. QED BY <1>6 DEF two

(* A list that a client can have is one the application made, with the     *)
(* SDK's hook added.                                                       *)
LEMMA ListsAreMade ==
    ASSUME NEW id \in {"own", "swapped"}, lent \in BOOLEAN, NEW list, Listed(lent, id, list)
    PROVE  \E made \in ApplicationLists(id) : Adds(made, list)
<1> DEFINE n == Len(list)
<1>1. /\ list \in Seq(HookNames) /\ n \in Nat /\ 1 \in 1..n
      /\ \A k \in 1..n : list[k] \in HookNames
      /\ \A k \in 1..n : k # 1 => k \in 2..n /\ 1 < k
  BY DEF Listed
<1>2. CASE id = "swapped"
  <2>1. list[1] = "early" /\ \A k \in 2..n : list[k] = "sdk"
    BY <1>2 DEF Listed
  <2>2. Adds(<<"early">>, list)
    BY <1>1, <2>1, AddsOne
  <2>3. QED BY <1>2, <2>2 DEF ApplicationLists
<1>3. CASE id = "own" /\ ~lent
  <2>1. Adds(<<>>, list)
    BY <1>1, <1>3, AddsNone DEF Listed
  <2>2. QED BY <1>3, <2>1 DEF ApplicationLists
<1>4. CASE id = "own" /\ lent
  <2>1. /\ list[1] \in {"early", "late"}
        /\ \A k \in 1..n : k # 1 => list[k] # "early"
        /\ \A j, k \in 1..n : list[j] = "late" /\ list[k] = "late" => j = k
    BY <1>1, <1>4 DEF Listed, OnLent
  <2>2. \/ Adds(<<"early">>, list) \/ Adds(<<"late">>, list) \/ Adds(<<"early", "late">>, list)
    <3>1. CASE list[1] = "late"
      <4>1. \A k \in 1..n : k # 1 => list[k] = "sdk"
        BY <1>1, <2>1, <3>1 DEF HookNames
      <4>2. QED BY <1>1, <3>1, <4>1, AddsOne
    <3>2. CASE list[1] = "early" /\ \A k \in 1..n : list[k] # "late"
      <4>1. \A k \in 1..n : k # 1 => list[k] = "sdk"
        BY <1>1, <2>1, <3>2 DEF HookNames
      <4>2. QED BY <1>1, <3>2, <4>1, AddsOne
    <3>3. ASSUME list[1] = "early", NEW j \in 1..n, list[j] = "late"
          PROVE  Adds(<<"early", "late">>, list)
      <4>1. 1 < j
        BY <1>1, <3>3
      <4>2. \A k \in 1..n : k # 1 /\ k # j => list[k] = "sdk"
        BY <1>1, <2>1, <3>3 DEF HookNames
      <4>3. QED BY <1>1, <3>3, <4>1, <4>2, AddsTwo
    <3>4. QED BY <2>1, <3>1, <3>2, <3>3
  <2>3. QED BY <1>4, <2>2 DEF ApplicationLists
<1>5. QED BY <1>2, <1>3, <1>4

(* What c's request is when it leaves, with the hooks of this list. *)
LEMMA WireIs ==
    ASSUME FacadeInv, NEW c \in Callers, NEW list \in Seq(HookNames)
    PROVE  LET wire == WireWith(c, list)
               via == facade[c].via
               kind == facade[c].kind
           IN  /\ kind = "unmarked" /\ IsLent(via) => wire = Ambient
               /\ kind = "unmarked" /\ ~IsLent(via) /\ OnlySdk(list) => wire = Given
               /\ kind # "unmarked" /\ Terminal(list) =>
                     wire["x-tr-client"] = ReservedValue(c)
               /\ kind = "metadata" /\ Terminal(list) => wire = NoHeaders
               /\ kind \in {"inference", "control"} /\ ~IsLent(via) /\ OnlySdk(list) =>
                     \A n \in {"authorization", "idempotency-key", "workspace"} : wire[n] = "sdk"
<1> DEFINE via == facade[c].via
           kind == facade[c].kind
           httpx == HttpxClient(via, list)
           r == RequestOf(c, httpx)
           p == IF httpx.auth /\ ~r.free THEN AnyWriter(r) ELSE r
           w == FoldLeft(RunHook, p, list)
           wire == WireWith(c, list)
<1>1. /\ r \in Requests
      /\ kind \in {"inference", "control"} =>
            /\ r.marked /\ ~r.free /\ r.expected = ReservedValue(c)
            /\ \A n \in {"authorization", "idempotency-key", "workspace"} : r.headers[n] = "sdk"
      /\ kind = "metadata" =>
            r.marked /\ r.free /\ r.expected = Absent /\ ReservedValue(c) = Absent
      /\ kind = "unmarked" => ~r.marked /\ ~r.free /\ r.headers = Given
  BY RequestsAre
<1>2. kind \in {"inference", "control", "metadata", "unmarked"}
  BY DEF FacadeInv, FacadeRecords
<1>3. httpx.auth = IsLent(via) /\ httpx.hooks = list
  BY DEF HttpxClient
<1>4. wire = w.headers
  BY <1>3 DEF WireWith, OnTheWire
<1> HIDE DEF httpx, r
<1>5. /\ AnyWriter(r) \in Requests /\ SameMarks(AnyWriter(r), r)
      /\ AnyWriter(r).headers = Ambient
  BY <1>1, AnyWriterIs
<1>6. /\ p \in Requests /\ SameMarks(p, r)
      /\ IsLent(via) /\ ~r.free => p.headers = Ambient
      /\ ~IsLent(via) => p = r
  BY <1>1, <1>3, <1>5 DEF SameMarks
<1> HIDE DEF p
<1>7. /\ w \in Requests /\ SameMarks(w, p)
      /\ ~p.marked /\ ~p.free /\ p.headers = Ambient => w.headers = Ambient
      /\ OnlySdk(list) => LikeEnforced(w, p)
      /\ Terminal(list) => \E q \in Requests : SameMarks(q, p) /\ w = Enforce(q)
  BY <1>6, ListDoes
<1> HIDE DEF w, wire
<1>9. kind = "unmarked" /\ IsLent(via) => wire = Ambient
  BY <1>1, <1>4, <1>6, <1>7 DEF SameMarks
<1>10. kind = "unmarked" /\ ~IsLent(via) /\ OnlySdk(list) => wire = Given
  BY <1>1, <1>4, <1>6, <1>7 DEF LikeEnforced
<1>11. ASSUME kind # "unmarked", Terminal(list)
       PROVE  /\ wire["x-tr-client"] = ReservedValue(c)
              /\ kind = "metadata" => wire = NoHeaders
  <2>1. PICK q \in Requests : SameMarks(q, p) /\ w = Enforce(q)
    BY <1>7, <1>11
  <2>2. /\ q.marked /\ q.expected = ReservedValue(c)
        /\ kind = "metadata" => q.free /\ q.expected = Absent
    BY <1>1, <1>2, <1>6, <1>11, <2>1 DEF SameMarks
  <2>3. /\ q.marked => Enforce(q).headers["x-tr-client"] = q.expected
        /\ q.marked /\ q.free /\ q.expected = Absent => Enforce(q).headers = NoHeaders
    BY EnforceIs
  <2>4. QED BY <1>4, <2>1, <2>2, <2>3
<1>12. ASSUME kind \in {"inference", "control"}, ~IsLent(via), OnlySdk(list)
       PROVE  \A n \in {"authorization", "idempotency-key", "workspace"} : wire[n] = "sdk"
  <2>1. {"authorization", "idempotency-key", "workspace"} \subseteq CredentialHeaders
    BY DEF CredentialHeaders, Names, ReservedHeaders
  <2>2. LikeEnforced(w, p) /\ p = r /\ ~r.free
    BY <1>1, <1>6, <1>7, <1>12
  <2>3. QED BY <1>1, <1>4, <1>12, <2>1, <2>2 DEF LikeEnforced
<1>13. QED BY <1>9, <1>10, <1>11, <1>12 DEF wire

(* Which lists end with the SDK's hook. *)
LEMMA ListsEnd ==
    ASSUME NEW borrowed \in BOOLEAN, NEW id \in {"own", "swapped"}, NEW list,
           Listed(borrowed, id, list)
    PROVE  /\ "late" \notin ToSet(list) => Terminal(list) \/ id = "swapped"
           /\ id = "swapped" /\ Has(list) => Terminal(list)
<1> DEFINE n == Len(list)
<1>1. /\ list \in Seq(HookNames) /\ n \in Nat /\ 1 \in 1..n /\ n \in 1..n
      /\ \A k \in 1..n : list[k] \in HookNames
      /\ \A k \in 1..n : k # 1 => k \in 2..n
  BY DEF Listed
<1>2. list[n] = "sdk" => Terminal(list)
  BY <1>1 DEF Terminal, Last
<1>3. ASSUME "late" \notin ToSet(list), id = "own" PROVE list[n] = "sdk"
  <2>1. \A k \in 1..n : list[k] \in {"early", "sdk"}
    BY <1>1, <1>3, HasIs DEF HookNames
  <2>2. CASE ~borrowed
    BY <1>1, <1>3, <2>2 DEF Listed, OnlySdk
  <2>3. CASE borrowed
    <3>1. OnLent(list)
      BY <1>3, <2>3 DEF Listed
    <3>2. list[1] = "early" /\ Has(list)
      BY <1>1, <2>1, <3>1 DEF OnLent
    <3>3. PICK k \in 1..n : list[k] = "sdk"
      BY <1>1, <3>2, HasIs DEF Has
    <3>4. n # 1
      BY <1>1, <3>2, <3>3
    <3>5. n \in 2..n
      BY <1>1, <3>4
    <3>6. QED BY <1>1, <2>1, <3>1, <3>5 DEF OnLent
  <2>4. QED BY <2>2, <2>3
<1>4. ASSUME id = "swapped", Has(list) PROVE list[n] = "sdk"
  <2>1. list[1] = "early" /\ \A k \in 2..n : list[k] = "sdk"
    BY <1>4 DEF Listed
  <2>2. PICK k \in 1..n : list[k] = "sdk"
    BY <1>1, <1>4, HasIs DEF Has
  <2>3. n # 1
    BY <1>1, <2>1, <2>2
  <2>4. QED BY <1>1, <2>1, <2>3
<1>5. QED BY <1>2, <1>3, <1>4

(* A request without credentials leaves a swapped client that has the hook. *)
HookCame(c) ==
    Is(c, "metadata") /\ facade[c].via = "swapped" => Has(hooks["swapped"])

WireSound ==
    \A c \in Callers : HookCame(c) => Ours(c, Wire(c), Terminal(hooks[facade[c].via]))

(* So what leaves then is the SDK's. *)
LEMMA WireIsSound == SharedInv /\ HooksInv => WireSound
<1> SUFFICES ASSUME SharedInv, HooksInv, NEW c \in Callers, HookCame(c)
             PROVE  Ours(c, Wire(c), Terminal(hooks[facade[c].via]))
  BY DEF WireSound
<1> DEFINE via == facade[c].via
           kind == facade[c].kind
           list == hooks[via]
           wire == WireWith(c, list)
<1>1. /\ FacadeInv /\ lent \in BOOLEAN /\ via \in {"own", "swapped"} /\ Listed(lent, via, list)
      /\ kind \in {"inference", "control", "metadata", "unmarked"}
      /\ list \in Seq(HookNames)
  BY DEF SharedInv, HooksInv, FacadeInv, FacadeRecords
<1>2. Wire(c) = wire
  BY DEF Wire
<1>3. /\ kind = "unmarked" /\ IsLent(via) => wire = Ambient
      /\ kind = "unmarked" /\ ~IsLent(via) /\ OnlySdk(list) => wire = Given
      /\ kind # "unmarked" /\ Terminal(list) => wire["x-tr-client"] = ReservedValue(c)
      /\ kind = "metadata" /\ Terminal(list) => wire = NoHeaders
      /\ kind \in {"inference", "control"} /\ ~IsLent(via) /\ OnlySdk(list) =>
            \A n \in {"authorization", "idempotency-key", "workspace"} : wire[n] = "sdk"
  BY <1>1, WireIs
<1> HIDE DEF wire
<1>4. ~IsLent(via) => OnlySdk(list)
  BY <1>1 DEF IsLent, Listed
<1>5. kind = "unmarked" => AsWithout(c, wire)
  <2>1. SUFFICES ASSUME kind = "unmarked" PROVE AsWithout(c, wire)
    OBVIOUS
  <2>2. PICK made \in ApplicationLists(via) : Adds(made, list)
    BY <1>1, ListsAreMade
  <2>3. made \in Seq(HookNames)
    <3>1. /\ <<"early">> \in Seq(HookNames) /\ <<"late">> \in Seq(HookNames)
          /\ <<>> \in Seq(HookNames)
      BY DEF HookNames
    <3>2. <<"early", "late">> \in Seq(HookNames)
      BY DEF HookNames
    <3>3. made \in {<<"early">>, <<"late">>, <<>>, <<"early", "late">>}
      BY DEF ApplicationLists
    <3>4. QED BY <3>1, <3>2, <3>3
  <2>4. ~IsLent(via) => OnlySdk(made)
    <3>1. ~IsLent(via) => made = <<>>
      BY <1>1 DEF IsLent, ApplicationLists
    <3>2. QED BY <3>1 DEF OnlySdk
  <2>5. /\ IsLent(via) => WireWith(c, made) = Ambient
        /\ ~IsLent(via) /\ OnlySdk(made) => WireWith(c, made) = Given
    BY <1>1, <2>1, <2>3, WireIs
  <2>6. wire = WireWith(c, made)
    BY <1>3, <1>4, <2>1, <2>4, <2>5
  <2>7. QED BY <2>2, <2>6 DEF AsWithout
<1>6. "late" \notin ToSet(list) => Terminal(list) \/ (via = "swapped" /\ kind # "metadata")
  <2>1. kind = "metadata" /\ via = "swapped" => Has(list)
    BY DEF HookCame, Is
  <2>2. QED BY <1>1, <2>1, ListsEnd
<1>7. Ours(c, wire, Terminal(list))
  BY <1>3, <1>4, <1>5, <1>6 DEF Ours, Is
<1>8. QED BY <1>2, <1>7

(* A step that makes nobody wait for a server, but for the caller it is of. *)
LEMMA NobodyWaits ==
    ASSUME PoolTypes, NEW d \in Callers,
           \/ UNCHANGED calls
           \/ Goto(d, "check") \/ Goto(d, "lock") \/ Goto(d, "race") \/ Goto(d, "start")
           \/ End(d)
           \/ \E list : Return(d, list)
           \/ ReadClient(d)
           \/ HostIsDead(d),
           NEW c \in Callers, At(c, "wait")'
    PROVE  At(c, "wait")
<1>1. calls \in [Callers -> CallRecords] /\ calls[d] \in CallRecords
  BY DEF PoolTypes
<1>2. SUFFICES ASSUME calls' # calls PROVE At(c, "wait")
  BY DEF At
<1>3. \E r : calls' = [calls EXCEPT ![d] = r] /\ r.pc # "wait"
  <2>1. CASE \E pc \in {"check", "lock", "race", "start"} : Goto(d, pc)
    <3>1. PICK pc \in {"check", "lock", "race", "start"} : Goto(d, pc)
      BY <2>1
    <3>2. calls' = [calls EXCEPT ![d] = [calls[d] EXCEPT !.pc = pc]]
      BY <3>1 DEF Goto
    <3>3. [calls[d] EXCEPT !.pc = pc].pc # "wait"
      BY <1>1 DEF CallRecords
    <3>4. QED BY <3>2, <3>3
  <2>2. CASE End(d)
    <3>1. [NewCall EXCEPT !.pc = "ended"].pc # "wait"
      BY DEF NewCall
    <3>2. QED BY <2>2, <3>1 DEF End
  <2>3. CASE \E list : Return(d, list)
    <3>1. PICK list : Return(d, list)
      BY <2>3
    <3>2. calls' = [calls EXCEPT ![d] =
                      [calls[d] EXCEPT !.pc = "send", !.saw = "own", !.list = list]]
      BY <3>1 DEF Return
    <3>3. [calls[d] EXCEPT !.pc = "send", !.saw = "own", !.list = list].pc # "wait"
      BY <1>1 DEF CallRecords
    <3>4. QED BY <3>2, <3>3
  <2>4. CASE ReadClient(d)
    <3>1. calls' = [calls EXCEPT ![d] = [calls[d] EXCEPT !.pc = "check", !.saw = client]]
      BY <2>4 DEF ReadClient
    <3>2. [calls[d] EXCEPT !.pc = "check", !.saw = client].pc # "wait"
      BY <1>1 DEF CallRecords
    <3>3. QED BY <3>1, <3>2
  <2>5. CASE HostIsDead(d) /\ ~End(d)
    <3> DEFINE index == IF setup.failover /\ calls[d].index + 1 < Len(urls)
                        THEN calls[d].index + 1 ELSE calls[d].index
    <3>1. calls' = [calls EXCEPT ![d] = [calls[d] EXCEPT !.pc = "start", !.index = index]]
      BY <2>5 DEF HostIsDead
    <3> HIDE DEF index
    <3>2. [calls[d] EXCEPT !.pc = "start", !.index = index].pc # "wait"
      BY <1>1 DEF CallRecords
    <3>3. QED BY <3>1, <3>2
  <2>6. QED BY <1>2, <2>1, <2>2, <2>3, <2>4, <2>5
<1>4. QED BY <1>1, <1>3 DEF At

(* Who comes to wait for a server has just sent something. *)
LEMMA WaitsBySending ==
    ASSUME SharedInv, [ClientNext]_allVars, NEW c \in Callers, ~At(c, "wait"), At(c, "wait")'
    PROVE  SendInference(c) \/ SendMetadata(c) \/ SendElsewhere(c)
<1>1. PoolTypes /\ calls \in [Callers -> CallRecords]
  BY DEF SharedInv, PoolInv, PoolTypes
<1>2. ASSUME NEW d \in Callers, InterruptRace(d) \/ EndRace(d) \/ ChooseHost(d) PROVE FALSE
  <2>1. \/ ReadClient(d) \/ Goto(d, "lock") \/ Goto(d, "race") \/ End(d)
        \/ \E list : Return(d, list)
    BY <1>2 DEF InterruptRace, EndRace, ChooseHost, CheckPending, Acquire, RaceEnds,
                RaceIsInterrupted
  <2>2. QED BY <1>1, <2>1, NobodyWaits
<1>3. ASSUME NEW d \in Callers,
             \/ LookForSink(d) \/ MakeReporter(d) \/ OwnReporter(d) \/ InstallFirst(d)
             \/ FindClosed(d) \/ Answer(d) \/ NoAnswer(d)
      PROVE  FALSE
  <2>1. \/ UNCHANGED calls \/ End(d) \/ Goto(d, "start") \/ HostIsDead(d)
    BY <1>3 DEF LookForSink, MakeReporter, OwnReporter, InstallFirst, FindClosed, Answer,
                Answered, NoAnswer, vars
  <2>2. QED BY <1>1, <2>1, NobodyWaits
<1>4. ASSUME NEW d \in Callers, SendInference(d) \/ SendMetadata(d) \/ SendElsewhere(d)
      PROVE  d = c
  <2>1. \E r : calls' = [calls EXCEPT ![d] = r]
    BY <1>4 DEF SendInference, Send, SendMetadata, SendElsewhere, SendVia, Goto, End
  <2>2. QED BY <1>1, <2>1 DEF At
<1>5. ASSUME \/ Installing \/ CloseReporter \/ CloseHttpx \/ WriteHooks \/ Swap
             \/ UNCHANGED allVars
      PROVE  FALSE
  BY <1>5 DEF Installing, InstallStep, StartProbe, CloseReporter, CloseHttpx, WriteHooks,
              Swap, SwapClient, vars, allVars, At
<1>6. ASSUME Fork PROVE FALSE
  BY <1>1, <1>6 DEF Fork, At, NewCall
<1>7. \A i \in Callers \cup Probes : InstallStep(i) \/ (i \in Probes /\ StartProbe(i)) => Installing
  BY DEF Installing, Installers
<1>8. QED BY <1>2, <1>3, <1>4, <1>5, <1>6, <1>7 DEF ClientNext, ClientStep

(* SendMetadata comes after the installation that InstallFirst began. *)
LEMMA HookCameFirst ==
    ASSUME SharedInv, HooksInv, NEW c \in Callers,
           SendInference(c) \/ SendMetadata(c) \/ SendElsewhere(c)
    PROVE  HookCame(c)'
<1>1. facade \in [Callers -> FacadeRecords] /\ facade[c] \in FacadeRecords
  BY DEF SharedInv, FacadeInv
<1>2. CASE SendInference(c)
  BY <1>2 DEF SendInference, clientVars, HookCame, Is
<1>3. CASE SendElsewhere(c)
  <2>1. facade[c].kind # "metadata" /\ \E id : SendsBy(c, id)
    BY <1>3 DEF SendElsewhere, SendVia
  <2>2. facade'[c].kind = facade[c].kind
    BY <1>1, <2>1 DEF SendsBy, FacadeRecords
  <2>3. QED BY <2>1, <2>2 DEF HookCame, Is
<1>4. CASE SendMetadata(c)
  <2>1. /\ facade[c].stage = "installing" /\ calls[c].pc = "start" /\ installs[c].stage = "idle"
        /\ SendsBy(c, facade[c].via) /\ hooks' = hooks
    BY <1>4 DEF SendMetadata, SendVia, Stage, At, InstallIs
  <2>2. facade[c].via = "swapped" => Has(hooks["swapped"])
    BY <2>1 DEF HooksInv, CameInto
  <2>3. facade'[c].via = facade[c].via
    BY <1>1, <2>1 DEF SendsBy, FacadeRecords
  <2>4. QED BY <2>1, <2>2, <2>3 DEF HookCame
<1>5. QED BY <1>2, <1>3, <1>4

-----------------------------------------------------------------------------
(* What leaves a client is what the SDK decided, for any number of         *)
(* callers, whoever writes the client's headers, Auth flow and hooks       *)
(* (_install_reserved_header_hook, _enforce_reserved_header).              *)
THEOREM WireIsTheSdks == ClientSpec => WireIsOurs
<1>1. WireSound' /\ SharedInv /\ HooksInv /\ [ClientNext]_allVars =>
      [\A c \in Callers : ~At(c, "wait") /\ At(c, "wait")' =>
          Ours(c, Wire(c), Terminal(hooks[facade[c].via]))']_allVars
  <2>1. SUFFICES ASSUME WireSound', SharedInv, HooksInv, [ClientNext]_allVars,
                        NEW c \in Callers, ~At(c, "wait"), At(c, "wait")'
                 PROVE  Ours(c, Wire(c), Terminal(hooks[facade[c].via]))'
    OBVIOUS
  <2>2. HookCame(c)'
    BY <2>1, WaitsBySending, HookCameFirst
  <2>3. QED BY <2>1, <2>2 DEF WireSound
<1>2. QED BY <1>1, SharedHolds, HooksHold, WireIsSound, PTL DEF ClientSpec, WireIsOurs

-----------------------------------------------------------------------------
(* Nobody has a list before the race is over, and the race is run once. *)
LEMMA ListIsStable ==
    ASSUME SharedInv, [ClientNext]_allVars, client = "own",
           NEW c \in Callers, calls[c].list # <<>>
    PROVE  urls' = urls
<1>1. ASSUME NEW d \in Callers, RaceEnds(d) PROVE FALSE
  <2>1. /\ CallSound(d, calls[d], facade[d].kind, urls, lock, pending)
        /\ CallSound(c, calls[c], facade[c].kind, urls, lock, pending)
    BY DEF SharedInv, PoolInv
  <2>2. calls[d].pc = "race"
    BY <1>1 DEF RaceEnds, At
  <2>3. pending
    BY <2>1, <2>2 DEF CallSound
  <2>4. QED BY <2>1, <2>3 DEF CallSound
<1>2. ASSUME NEW d \in Callers, ClientStep(d) \/ InterruptRace(d), ~RaceEnds(d), ~InstallStep(d)
      PROVE  urls' = urls
  <2>1. CASE LookForSink(d) \/ MakeReporter(d) \/ OwnReporter(d) \/ InstallFirst(d)
    BY <2>1 DEF LookForSink, MakeReporter, OwnReporter, InstallFirst, vars
  <2>2. CASE ChooseHost(d) \/ EndRace(d) \/ InterruptRace(d)
    BY <1>2, <2>2 DEF ChooseHost, EndRace, InterruptRace, ReadClient, CheckPending, Acquire,
                      RaceIsInterrupted
  <2>3. CASE SendInference(d) \/ SendMetadata(d) \/ SendElsewhere(d) \/ FindClosed(d)
    BY <2>3 DEF SendInference, Send, SendMetadata, SendElsewhere, SendVia, FindClosed
  <2>4. CASE Answer(d) \/ NoAnswer(d)
    BY <2>4 DEF Answer, Answered, NoAnswer, HostIsDead
  <2>5. QED BY <1>2, <2>1, <2>2, <2>3, <2>4 DEF ClientStep
<1>3. ASSUME \/ Installing \/ CloseReporter \/ CloseHttpx \/ WriteHooks \/ Swap \/ Fork
             \/ UNCHANGED allVars
      PROVE  urls' = urls
  BY <1>3 DEF Installing, InstallStep, StartProbe, CloseReporter, CloseHttpx, WriteHooks,
              Swap, SwapClient, Fork, vars, allVars
<1>4. \A i \in Callers \cup Probes : InstallStep(i) \/ (i \in Probes /\ StartProbe(i)) => Installing
  BY DEF Installing, Installers
<1>5. QED BY <1>1, <1>2, <1>3, <1>4 DEF ClientNext

-----------------------------------------------------------------------------
(* While nobody swaps the client, the list a call began with is not        *)
(* replaced; and however many install at once, a client's hooks are always *)
(* a list the application made, with the SDK's hook added, which goes only *)
(* when the list the application assigned comes or comes back (current's   *)
(* race, _install_reserved_header_hook).                                   *)
THEOREM SharedStateHolds == ClientSpec => SharedStateIsStable
<1>1. SharedInv /\ HooksInv /\ HooksInv' /\ [ClientNext]_allVars =>
        [ /\ client = "own" /\ (\E c \in Callers : calls[c].list # <<>>) => urls' = urls
          /\ \A id \in {"own", "swapped"} : hooks'[id] # hooks[id] =>
                /\ \E list \in ApplicationLists(id) : Adds(list, hooks'[id])
                /\ "sdk" \in ToSet(hooks[id]) =>
                      "sdk" \in ToSet(hooks'[id]) \/ hooks'[id] = <<"late">>
        ]_allVars
  <2>1. SUFFICES ASSUME SharedInv, HooksInv, HooksInv', [ClientNext]_allVars,
                        NEW id \in {"own", "swapped"}
                 PROVE  /\ client = "own" /\ (\E c \in Callers : calls[c].list # <<>>) =>
                              urls' = urls
                        /\ \E list \in ApplicationLists(id) : Adds(list, hooks'[id])
                        /\ Has(hooks[id]) => Has(hooks'[id]) \/ hooks'[id] = <<"late">>
    BY DEF Has
  <2>2. client = "own" /\ (\E c \in Callers : calls[c].list # <<>>) => urls' = urls
    BY <2>1, ListIsStable
  <2>3. lent' = lent /\ (Has(hooks["swapped"]) => Has(hooks'["swapped"]))
    BY <2>1, StepHooks DEF HookStays
  <2>4. PICK list : list = hooks'[id]
    OBVIOUS
  <2>5. lent \in BOOLEAN /\ Listed(lent, id, list)
    BY <2>1, <2>3, <2>4 DEF HooksInv
  <2>6. \E made \in ApplicationLists(id) : Adds(made, list)
    BY <2>5, ListsAreMade
  <2>7. ASSUME Has(hooks[id]) PROVE Has(list) \/ list = <<"late">>
    <3>1. id = "swapped" => Has(list)
      BY <2>3, <2>4, <2>7
    <3>2. QED BY <2>5, <3>1, OnlyLateLacksIt
  <2>8. QED BY <2>2, <2>4, <2>6, <2>7
<1>2. QED BY <1>1, SharedHolds, HooksHold, PTL DEF ClientSpec, SharedStateIsStable
=============================================================================
