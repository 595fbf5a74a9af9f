----------------------------- MODULE Completion -----------------------------
(***************************************************************************)
(* chat_completions: the chunk codec's items are gathered into a list and  *)
(* walked, chunk by chunk and entry by entry, into one completion          *)
(* (_collect.py); and the text stream made of the same items.  A chunk     *)
(* lists entries for choices: [index, field, slot, null, finish], where    *)
(* index -1 stands for one that is missing or no integer (no server sends  *)
(* negative indices), and slot is the index of a tool call.  What an entry *)
(* adds to a text, its piece, is known by where it was said:               *)
(* <<line, ordinal>>.                                                      *)
(* Roles, ids, models and TrustedRouter metadata are left out.             *)
(***************************************************************************)
EXTENDS StreamCodec, Integers, FiniteSets

(* "misshapen": the entry, or its delta, is no object. *)
Fields == {"nothing", "content", "refusal", "tool_calls", "misshapen"}

ASSUME ChunksAssumption ==
    Chunks \subseteq
        [choices : Seq([index : Nat \cup {-1}, field : Fields, slot : Nat,
                        null : BOOLEAN, finish : BOOLEAN]),
         usage   : BOOLEAN]

VARIABLES work,    \* the collector's locals, and how far it has walked
          answer,  \* what chat_completions returned, if it did
          text     \* what chat_completions_stream yields for the same items

allVars == <<vars, work, answer, text>>

CompletionInit ==
    /\ Init
    /\ work = [chunk |-> 0, entry |-> 0, choices |-> <<>>, usage |-> 0]
    /\ answer = [status |-> "none", choices |-> <<>>, usage |-> 0]
    /\ text = [raised |-> FALSE, pieces |-> <<>>]

-----------------------------------------------------------------------------
NewChoice == [parts |-> [f \in {"content", "refusal"} |-> <<>>],
              seen |-> {}, tools |-> <<>>, finish |-> <<>>]

(* tools: from a slot to the pieces of its arguments. *)
MergeToolCall(tools, slot, piece) ==
    [s \in DOMAIN tools \cup {slot} |->
        IF s # slot THEN tools[s]
        ELSE Append(IF s \in DOMAIN tools THEN tools[s] ELSE <<>>, piece)]

AddEntry(choice, e, piece) ==
    [parts  |-> [f \in {"content", "refusal"} |->
                    IF e.field = f /\ ~e.null THEN Append(choice.parts[f], piece)
                    ELSE choice.parts[f]],
     seen   |-> choice.seen \cup ({e.field} \ {"nothing"}),
     tools  |-> IF e.field = "tool_calls" /\ ~e.null
                THEN MergeToolCall(choice.tools, e.slot, piece) ELSE choice.tools,
     finish |-> IF e.finish THEN piece ELSE choice.finish]

(* choices_by_index: the entry is added to the choice i, new or not. *)
AddToChoices(choices, i, e, piece) ==
    [c \in DOMAIN choices \cup {i} |->
        IF c # i THEN choices[c]
        ELSE AddEntry(IF i \in DOMAIN choices THEN choices[i] ELSE NewChoice, e, piece)]

(* Mutant: the place in the list is taken for the index. *)
IndexIsOrdinal(index, ordinal) == ordinal

IndexOr(index, ordinal) == IF index >= 0 THEN index ELSE ordinal

-----------------------------------------------------------------------------
(* The items were gathered, and are being walked. *)
Collecting ==
    codec = "chunks" /\ outcome = "completed" /\ answer.status = "none"

(* The line of the chunk that is the item k, and what it lists. *)
LineOf(k) == CHOOSE line \in surfaced[k].data : TRUE

Listed(k) == IF k = 0 THEN <<>> ELSE said[LineOf(k)].chunk.choices

TakeChunk ==
    /\ Collecting
    /\ work.entry = Len(Listed(work.chunk)) /\ work.chunk < Len(surfaced)
    /\ work' = [work EXCEPT
                   !.chunk = @ + 1,
                   !.entry = 0,
                   !.usage = IF said[LineOf(work.chunk + 1)].chunk.usage
                             THEN LineOf(work.chunk + 1) ELSE @]
    /\ UNCHANGED <<vars, answer, text>>

Raise == answer' = [answer EXCEPT !.status = "raised"]

TakeEntry ==
    /\ Collecting
    /\ work.entry < Len(Listed(work.chunk))
    /\ LET n == work.entry + 1
           e == Listed(work.chunk)[n]
       IN  \/ /\ e.field = "misshapen"
              /\ Raise /\ UNCHANGED work
           \/ /\ e.field # "misshapen"
              /\ work' = [work EXCEPT
                     !.entry = n,
                     !.choices = AddToChoices(@, IndexOr(e.index, n - 1), e,
                                              <<LineOf(work.chunk), n>>)]
              /\ UNCHANGED answer
    /\ UNCHANGED <<vars, text>>

(* The numbers of a finite set, smallest first. *)
Increasing(s) == \A j, k \in DOMAIN s : j < k => s[j] < s[k]

Sorted(S) == CHOOSE s \in [1..Cardinality(S) -> S] : Increasing(s)

Text(is, pieces) == [is |-> is, pieces |-> pieces]

ContentOf(choice) ==
    IF choice.parts["content"] # <<>> THEN Text("text", choice.parts["content"])
    ELSE IF \/ "content" \in choice.seen \/ "refusal" \in choice.seen
            \/ DOMAIN choice.tools # {}
    THEN Text("null", <<>>) ELSE Text("empty", <<>>)

CallsOf(tools) ==
    LET slots == Sorted(DOMAIN tools)
    IN  [k \in DOMAIN slots |-> [slot |-> slots[k], pieces |-> tools[slots[k]]]]

MessageOf(index, choice) ==
    [index      |-> index,
     content    |-> ContentOf(choice),
     refusal    |-> choice.parts["refusal"],
     tool_calls |-> CallsOf(choice.tools),
     finish     |-> choice.finish]

(* The walk is over: the choices are returned by index, if there are any.  *)
Return ==
    /\ Collecting
    /\ work.entry = Len(Listed(work.chunk)) /\ work.chunk = Len(surfaced)
    /\ \/ DOMAIN work.choices = {} /\ Raise
       \/ /\ DOMAIN work.choices # {}
          /\ LET order == Sorted(DOMAIN work.choices) IN
             answer' = [status  |-> "returned",
                        choices |-> [k \in DOMAIN order |->
                                        MessageOf(order[k], work.choices[order[k]])],
                        usage   |-> work.usage]
    /\ UNCHANGED <<vars, work, text>>

(* What the stream raises, the call raises. *)
StreamRaises ==
    /\ codec = "chunks" /\ outcome \notin {"open", "completed"}
    /\ answer.status = "none"
    /\ Raise
    /\ UNCHANGED <<vars, work, text>>

-----------------------------------------------------------------------------
(* Mutant: the last listed choice is taken. *)
DeltaOfLast(listed) == DOMAIN listed \cap {Len(listed)}

(* _delta_text: which of the listed choices it looks at. *)
DeltaOf(listed) == DOMAIN listed \cap {1}

(* The text stream's reader, after the chunk of a line. *)
Heard(listed, line) ==
    LET read == DeltaOf(listed) IN
    [raised |-> \E n \in read : listed[n].field = "misshapen",
     pieces |-> IF \E n \in read : listed[n].field = "content" /\ ~listed[n].null
                THEN Append(text.pieces, <<line, CHOOSE n \in read : TRUE>>)
                ELSE text.pieces]

(* Every chunk is heard as it comes, until one makes _delta_text raise.    *)
Listen ==
    LET hears == codec = "chunks" /\ surfaced' # surfaced /\ ~text.raised
    IN  \/ hears /\ text' = Heard(said'[Len(said')].chunk.choices, Len(said'))
        \/ ~hears /\ UNCHANGED text

CompletionNext ==
    \/ Next /\ Listen /\ UNCHANGED <<work, answer>>
    \/ TakeChunk \/ TakeEntry \/ Return \/ StreamRaises

CompletionSpec == CompletionInit /\ [][CompletionNext]_allVars

-----------------------------------------------------------------------------
Returned == answer.status = "returned"

(* Every entry the server sent, from the lines themselves. *)
ObjectLines == {i \in DOMAIN said : said[i].kind = "object"}

SaidPieces ==
    UNION {{<<i, n>> : n \in DOMAIN said[i].chunk.choices} : i \in ObjectLines}

Entry(p) == said[p[1]].chunk.choices[p[2]]

ChoiceOf(p) == IF Entry(p).index >= 0 THEN Entry(p).index ELSE p[2] - 1

Before(p, q) == p[1] < q[1] \/ (p[1] = q[1] /\ p[2] < q[2])

(* The text s is made of the pieces P, each once, in the order they came.  *)
Lists(s, P) ==
    /\ s \in Seq(P) /\ \A p \in P : \E k \in DOMAIN s : s[k] = p
    /\ \A j, k \in DOMAIN s : j < k => Before(s[j], s[k])

(* x is the last of the pieces P, or nothing. *)
IsLast(x, P) ==
    \/ P = {} /\ x = <<>>
    \/ x \in P /\ \A p \in P \ {x} : Before(p, x)

Of(pieces, index) == {p \in pieces : ChoiceOf(p) = index}

Told(pieces, field) == {p \in pieces : Entry(p).field = field}

Voiced(pieces, field) == {p \in Told(pieces, field) : ~Entry(p).null}

InSlot(pieces, slot) == {p \in pieces : Entry(p).slot = slot}

(* What the message m of a choice must be when pieces were sent for it.    *)
SaysAll(m, pieces) ==
    LET calls == Voiced(pieces, "tool_calls") IN
    /\ Lists(m.content.pieces, Voiced(pieces, "content"))
    /\ m.content.is = "text" <=> Voiced(pieces, "content") # {}
    /\ m.content.is = "empty" <=>
          Told(pieces, "content") \cup Told(pieces, "refusal") \cup calls = {}
    /\ Lists(m.refusal, Voiced(pieces, "refusal"))
    /\ {m.tool_calls[k].slot : k \in DOMAIN m.tool_calls} = {Entry(p).slot : p \in calls}
    /\ Increasing([k \in DOMAIN m.tool_calls |-> m.tool_calls[k].slot])
    /\ \A k \in DOMAIN m.tool_calls :
          Lists(m.tool_calls[k].pieces, InSlot(calls, m.tool_calls[k].slot))
    /\ IsLast(m.finish, {p \in pieces : Entry(p).finish})

(* A completion is returned only for a stream that said [DONE], and then   *)
(* every choice the server spoke of is there once, in order, with each of  *)
(* its texts and tool calls made of exactly the pieces sent for it and the *)
(* finish that was sent last: how the choices and calls were interleaved,  *)
(* numbered or cut does not show.  An empty content is never made up: it   *)
(* is "" only for a choice that said nothing at all, and null when null, a *)
(* refusal or a tool call was said.  The usage is the last one sent.       *)
CollectedIsSaid ==
    Returned =>
        /\ Dones # {}
        /\ {answer.choices[k].index : k \in DOMAIN answer.choices} =
              {ChoiceOf(p) : p \in SaidPieces}
        /\ Increasing([k \in DOMAIN answer.choices |-> answer.choices[k].index])
        /\ \A k \in DOMAIN answer.choices :
              SaysAll(answer.choices[k], Of(SaidPieces, answer.choices[k].index))
        /\ answer.usage = LastOf({i \in ObjectLines : said[i].chunk.usage})

(* While the server lists choice 0 first, who reads the text stream and    *)
(* who waits for the completion are told the same.                         *)
TextStreamAgrees ==
    Returned /\ (\A p \in SaidPieces : p[2] = 1 <=> ChoiceOf(p) = 0) =>
        ~text.raised /\ text.pieces = answer.choices[1].content.pieces
=============================================================================
