---------------------------- MODULE CounterWindow ----------------------------
(***************************************************************************)
(* One window of CounterFold that requests with any keys are counted in,   *)
(* in any order.  countedAs[r] is the key request r was counted under.     *)
(***************************************************************************)
EXTENDS CounterFold

VARIABLES window, countedAs

windowVars == <<window, countedAs>>

WindowInit ==
    /\ window = <<>>
    /\ countedAs = <<>>

(* _merge_counters_locked, for one increment. *)
CountRequest(r, k) ==
    /\ r \notin DOMAIN countedAs
    /\ countedAs' = [q \in DOMAIN countedAs \cup {r} |-> IF q = r THEN k ELSE countedAs[q]]
    /\ window' = Count(window, k, {r})

WindowNext == \E r \in Requests, k \in Keys : CountRequest(r, k)

WindowSpec == WindowInit /\ [][WindowNext]_windowVars

RowOf(r) == CHOOSE i \in DOMAIN window : r \in window[i].requests

WindowTypeOK ==
    /\ Len(window) <= MaxWindowKeys
    /\ \A i \in DOMAIN window : window[i].requests # {}

(* Folding loses no request and counts none twice: each counted request is *)
(* in one row of a window that keeps its bound, and renaming a row never   *)
(* collides with one that exists: a window is a dict, and a second row     *)
(* under a key would replace the first.                                    *)
CountedOnce ==
    /\ WindowTypeOK
    /\ \A i, j \in DOMAIN window : window[i].key = window[j].key => i = j
    /\ \A r \in DOMAIN countedAs :
        \E i \in DOMAIN window :
            /\ r \in window[i].requests
            /\ \A j \in DOMAIN window : r \in window[j].requests => j = i

(* A full window forgets the error class and the endpoint, never the rest, *)
(* as long as it has a row with the same rest: a failure of one host is    *)
(* not counted as another host's while its own has a row.                  *)
FoldsStayInTheFamily ==
    [][\A r \in DOMAIN countedAs' \ DOMAIN countedAs :
          (\E i \in DOMAIN window : window[i].key.rest = countedAs'[r].rest)
            => window'[RowOf(r)'].key.rest = countedAs'[r].rest]_windowVars
=============================================================================
