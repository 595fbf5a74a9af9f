---------------------------- MODULE MC_Completion ----------------------------
(* Completion for TLC: chunks with one entry or two, for two choices that  *)
(* are numbered, unnumbered or listed the wrong way round, each field, a   *)
(* null, a finish, a usage without choices and a malformed entry.          *)
EXTENDS Completion

Say(index, field, slot) ==
    [index |-> index, field |-> field, slot |-> slot, null |-> FALSE, finish |-> FALSE]

Silent(index, field) == [Say(index, field, 0) EXCEPT !.null = TRUE]

Chunk(entries) == [choices |-> entries, usage |-> FALSE]

MCChunks ==
    {[choices |-> <<>>, usage |-> TRUE],
     Chunk(<<Say(0, "content", 0)>>),
     Chunk(<<Say(1, "content", 0)>>),
     Chunk(<<Say(1, "content", 0), Say(0, "content", 0)>>),
     Chunk(<<Say(-1, "content", 0), Say(-1, "content", 0)>>),
     Chunk(<<Silent(0, "content")>>),
     Chunk(<<Say(0, "refusal", 0)>>),
     Chunk(<<Silent(0, "tool_calls"), Silent(1, "refusal")>>),
     Chunk(<<Say(0, "tool_calls", 1)>>),
     Chunk(<<Say(0, "tool_calls", 0), Say(1, "tool_calls", 0)>>),
     Chunk(<<[Say(0, "nothing", 0) EXCEPT !.finish = TRUE]>>),
     Chunk(<<Say(0, "misshapen", 0)>>)}
=============================================================================
