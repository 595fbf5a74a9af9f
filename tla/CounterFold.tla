----------------------------- MODULE CounterFold -----------------------------
(***************************************************************************)
(* The counters of one minute (_telemetry.py, TelemetryReporter): rows in  *)
(* insertion order, at most MaxWindowKeys of them.  A full window folds a  *)
(* new key into a row of its kin, forgetting the error class first and the *)
(* endpoint next.  In a key, rest stands for the fields no fold forgets    *)
(* (level, host, outcome, ...).  A row keeps the set of requests it counts *)
(* where the code keeps their number.                                      *)
(***************************************************************************)
EXTENDS Naturals, Sequences, SequencesExt

CONSTANTS Requests,         \* finished inference calls, in any order
          Endpoints, Errors, Families,   \* what keys are made of
          MaxWindowKeys     \* TELEMETRY_MAX_WINDOW_KEYS

ASSUME WindowKeysAssumption == MaxWindowKeys \in Nat \ {0}

Keys == [endpoint : Endpoints, error : Errors, rest : Families]

FoldError(key) == [key EXCEPT !.error = "unknown"]

FoldEndpoint(key) ==
    [key EXCEPT !.error = "unknown", !.endpoint = "inference_other"]

(* The first row with a key P accepts; 0 if there is none. *)
FirstRow(rows, P(_)) == SelectInSeq(rows, LAMBDA row : P(row.key))

AddTo(rows, i, requests) == [rows EXCEPT ![i].requests = @ \cup requests]

NewRow(rows, key, requests) ==
    Append(rows, [key |-> key, requests |-> requests])

(* Row i is popped and put back under another key, as the newest row. *)
Rename(rows, i, key, requests) ==
    NewRow(RemoveAt(rows, i), key, rows[i].requests \cup requests)

(* Mutant: an endpoint fold does not look for the row it folds into. *)
CountWithoutFolded(rows, key, requests) ==
    LET kin == FirstRow(rows, LAMBDA k : k.rest = key.rest)
        own == FirstRow(rows, LAMBDA k : k = key)
    IN  IF own > 0 THEN AddTo(rows, own, requests)
        ELSE IF Len(rows) < MaxWindowKeys THEN NewRow(rows, key, requests)
        ELSE IF kin > 0 THEN Rename(rows, kin, FoldEndpoint(rows[kin].key), requests)
        ELSE AddTo(rows, 1, requests)

(* Mutant: a full window counts everything new in its first row. *)
CountInFirst(rows, key, requests) ==
    LET own == FirstRow(rows, LAMBDA k : k = key)
    IN  IF own > 0 THEN AddTo(rows, own, requests)
        ELSE IF Len(rows) < MaxWindowKeys THEN NewRow(rows, key, requests)
        ELSE AddTo(rows, 1, requests)

Count(rows, key, requests) ==
    LET own            == FirstRow(rows, LAMBDA k : k = key)
        errorFolded    == FirstRow(rows, LAMBDA k : k = FoldError(key))
        sibling        == FirstRow(rows, LAMBDA k : k.endpoint = key.endpoint
                                                    /\ k.rest = key.rest)
        endpointFolded == FirstRow(rows, LAMBDA k : k = FoldEndpoint(key))
        kin            == FirstRow(rows, LAMBDA k : k.rest = key.rest)
    IN  IF own > 0 THEN AddTo(rows, own, requests)
        ELSE IF Len(rows) < MaxWindowKeys THEN NewRow(rows, key, requests)
        ELSE IF errorFolded > 0 THEN AddTo(rows, errorFolded, requests)
        ELSE IF sibling > 0
             THEN Rename(rows, sibling, FoldError(rows[sibling].key), requests)
        ELSE IF endpointFolded > 0 THEN AddTo(rows, endpointFolded, requests)
        ELSE IF kin > 0
             THEN Rename(rows, kin, FoldEndpoint(rows[kin].key), requests)
        ELSE AddTo(rows, 1, requests)
=============================================================================
