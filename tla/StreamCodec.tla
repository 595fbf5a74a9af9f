----------------------------- MODULE StreamCodec -----------------------------
(***************************************************************************)
(* The two SSE codecs (_sse.py) over the lines of an open response: the    *)
(* chunk codec of chat completions, which takes each data line by itself,  *)
(* and the event codec of responses and messages, which collects lines     *)
(* into frames.  A line is known by its position in the stream, and its    *)
(* text by the kind a codec can tell apart.                                *)
(***************************************************************************)
EXTENDS Naturals, Sequences, FiniteSetsExt

CONSTANTS Chunks,     \* what a JSON object on a data line can be
          MaxLines    \* bound: lines of one stream

ASSUME CodecAssumption == MaxLines \in Nat

(* Data lines with something on them, "[DONE]" aside: an object, an object *)
(* that reports an error, another JSON value, no JSON at all, and the two  *)
(* halves of an object broken over two data lines of one frame.            *)
DataKinds == {"object", "fault", "value", "broken", "head", "tail"}

(* The others: a separator, a comment, an event's name, "data:" alone.     *)
Kinds == DataKinds \cup {"done", "blank", "comment", "name", "empty"}

Lines == [kind : {"object"}, chunk : Chunks] \cup [kind : Kinds \ {"object"}]

VARIABLES codec,      \* "chunks" or "events"
          said,       \* the lines the server sent
          frame,      \* the lines of the event codec's frame
          sawDone,
          surfaced,   \* items yielded: [data, name], the lines they are made of
          outcome     \* how the iteration ended

vars == <<codec, said, frame, sawDone, surfaced, outcome>>

Init ==
    /\ codec \in {"chunks", "events"}
    /\ said = <<>>
    /\ frame = {}
    /\ sawDone = FALSE
    /\ surfaced = <<>>
    /\ outcome = "open"

End(o) == outcome' = o

-----------------------------------------------------------------------------
(* The chunk codec takes the next line. *)
ChunkLine(line) ==
    /\ codec = "chunks"
    /\ \/ /\ line.kind = "done"
          /\ sawDone' = TRUE
          /\ UNCHANGED <<surfaced, outcome>>
       \/ /\ line.kind \in DataKinds
          /\ sawDone \/ line.kind # "object"
          /\ End("protocol_error")
          /\ UNCHANGED <<sawDone, surfaced>>
       \/ /\ line.kind = "object" /\ ~sawDone
          /\ surfaced' = Append(surfaced, [data |-> {Len(said) + 1}, name |-> 0])
          /\ UNCHANGED <<sawDone, outcome>>
       \/ /\ line.kind \notin DataKinds \cup {"done"}
          /\ UNCHANGED <<sawDone, surfaced, outcome>>
    /\ UNCHANGED frame

-----------------------------------------------------------------------------
InFrame(kinds) == {i \in frame : said[i].kind \in kinds}

(* Whether the data lines of a frame are, joined, one JSON text.           *)
IsJson(data) ==
    \/ \E i \in data : data = {i} /\ said[i].kind \in {"object", "fault", "value"}
    \/ \E i, j \in data : /\ i < j /\ data = {i, j}
                          /\ said[i].kind = "head" /\ said[j].kind = "tail"

LastOf(lines) == IF lines = {} THEN 0 ELSE Max(lines)

(* A frame without data has no event; the last name given to one counts.   *)
SurfaceFrame ==
    \/ InFrame(DataKinds) = {} /\ UNCHANGED surfaced
    \/ /\ InFrame(DataKinds) # {}
       /\ surfaced' = Append(surfaced, [data |-> InFrame(DataKinds),
                                        name |-> LastOf(InFrame({"name"}))])

(* Mutant: a frame is not checked for data after [DONE]. *)
FrameDecodesAtAnyTime == InFrame(DataKinds) = {} \/ IsJson(InFrame(DataKinds))

FrameDecodes ==
    InFrame(DataKinds) = {} \/ (~sawDone /\ IsJson(InFrame(DataKinds)))

(* A complete frame without [DONE]. *)
TakeFrame ==
    /\ InFrame({"done"}) = {}
    /\ \/ /\ FrameDecodes
          /\ SurfaceFrame
          /\ frame' = {}
          /\ UNCHANGED outcome
       \/ /\ ~FrameDecodes
          /\ End("protocol_error")
          /\ UNCHANGED <<frame, surfaced>>
    /\ UNCHANGED sawDone

(* A frame with [DONE] in it is dropped, with whatever else it holds.      *)
FinishFrame ==
    /\ InFrame({"done"}) # {}
    /\ sawDone' = TRUE
    /\ frame' = {}
    /\ UNCHANGED <<surfaced, outcome>>

EventLine(line) ==
    /\ codec = "events"
    /\ \/ /\ line.kind # "blank"
          /\ frame' = frame \cup {Len(said) + 1}
          /\ UNCHANGED <<sawDone, surfaced, outcome>>
       \/ /\ line.kind = "blank"
          /\ FinishFrame \/ TakeFrame

(* The server sends a line, and the codec handles it. *)
NextLine ==
    /\ outcome = "open"
    /\ Len(said) < MaxLines
    /\ \E line \in Lines :
          /\ said' = Append(said, line)
          /\ ChunkLine(line) \/ EventLine(line)
    /\ UNCHANGED codec

-----------------------------------------------------------------------------
(* Mutant: a stream that just ends is a stream that is complete. *)
EndWithoutDone(done) == End("completed")

EndWith(done) == End(IF done THEN "completed" ELSE "protocol_error")

(* The response ends: the rest of a frame counts as one, and [DONE] must   *)
(* have come.                                                              *)
EndOfLines ==
    /\ outcome = "open"
    /\ \/ /\ InFrame({"done"}) # {}
          /\ sawDone' = TRUE
          /\ EndWith(TRUE)
          /\ UNCHANGED surfaced
       \/ /\ InFrame({"done"}) = {} /\ FrameDecodes
          /\ SurfaceFrame
          /\ EndWith(sawDone)
          /\ UNCHANGED sawDone
       \/ /\ InFrame({"done"}) = {} /\ ~FrameDecodes
          /\ End("protocol_error")
          /\ UNCHANGED <<sawDone, surfaced>>
    /\ frame' = {}
    /\ UNCHANGED <<codec, said>>

(* The connection breaks, or times out, between two lines. *)
LinesBreak ==
    /\ outcome = "open"
    /\ End("transport_error")
    /\ UNCHANGED <<codec, said, frame, sawDone, surfaced>>

Next == NextLine \/ EndOfLines \/ LinesBreak

Spec == Init /\ [][Next]_vars

-----------------------------------------------------------------------------
Codecs == {"chunks", "events"}

(* The lines of the frame that is being collected. *)
SinceBlank ==
    {i \in DOMAIN said :
        codec = "events" /\ \A j \in i..Len(said) : said[j].kind # "blank"}

CodecTypeOK ==
    /\ codec \in Codecs
    /\ said \in Seq(Lines) /\ Len(said) <= MaxLines
    /\ frame \subseteq DOMAIN said
    /\ outcome = "open" => frame = SinceBlank
    /\ sawDone \in BOOLEAN
    /\ surfaced \in Seq([data : SUBSET (1..Len(said)), name : 0..Len(said)])
    /\ outcome \in {"open", "completed", "protocol_error", "transport_error"}

DataLines == {i \in DOMAIN said : said[i].kind \in DataKinds}

Dones == {i \in DOMAIN said : said[i].kind = "done"}

SurfacedLines == UNION {surfaced[k].data : k \in DOMAIN surfaced}

(* Lines of one frame: no blank line stands between them. *)
SameFrame(i, j) ==
    /\ codec = "events"
    /\ \A k \in DOMAIN said :
          (i < k /\ k < j) \/ (j < k /\ k < i) => said[k].kind # "blank"

(* The names that stand in the frame of an item. *)
NamesFor(item) ==
    {n \in DOMAIN said :
        said[n].kind = "name" /\ \E i \in item.data : SameFrame(n, i)}

(* What the caller is given, also by a stream that fails later, is what    *)
(* the server sent: in its order, no line twice, no line left out before   *)
(* the last one given, nothing from after [DONE]; and an event has the     *)
(* last name of its own frame, never of another.                           *)
SurfacedInOrder ==
    /\ CodecTypeOK
    /\ \A j, k \in DOMAIN surfaced :
          j < k => \A a \in surfaced[j].data, b \in surfaced[k].data : a < b
    /\ \A given \in SurfacedLines :
          /\ {i \in DataLines : i < given} \subseteq SurfacedLines
          /\ \A d \in Dones : given < d
    /\ \A k \in DOMAIN surfaced : surfaced[k].name = LastOf(NamesFor(surfaced[k]))

(* A stream that completes had a [DONE], and every data line of it that    *)
(* did not share [DONE]'s frame was given to the caller: a cut, broken or  *)
(* reported-as-failed answer never looks like a complete one.              *)
CompletedIsWhole ==
    outcome = "completed" =>
        /\ Dones # {}
        /\ \A i \in DataLines :
              i \in SurfacedLines \/ \E d \in Dones : SameFrame(i, d)
=============================================================================
