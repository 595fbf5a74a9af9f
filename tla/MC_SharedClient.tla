-------------------------- MODULE MC_SharedClient --------------------------
(* SharedClient for TLC.  A region and an alias: without a winner the list *)
(* is as long as a call has sends, with one it is longer.  The mixes are   *)
(* those of kinds that meet in a lock, a list of hooks or a client; two    *)
(* installers meet in a list where one of them is the race's thread, or    *)
(* where both are requests without credentials.                            *)
EXTENDS SharedClient

MCRegions == <<"r1">>
MCAliases == <<"a1">>

Mix(kind1, kind2) == [c \in Callers |-> IF c = "c1" THEN kind1 ELSE kind2]

MCMixes ==
    {Mix("inference", "inference"), Mix("inference", "metadata")}
        \cup {Mix("metadata", kind) : kind \in {"metadata", "control", "unmarked"}}
=============================================================================
