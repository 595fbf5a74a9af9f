----------------------------- MODULE LogicalCall -----------------------------
(***************************************************************************)
(* What the transport engine promises the caller of one logical request,   *)
(* with hosts, verdicts, keys and sleeps left out: a bounded number of     *)
(* sends, none of them after the caller was given a piece of the answer,   *)
(* at most one charge (which may still arrive after the call returned,     *)
(* because a request can be in flight), and exactly one end.               *)
(***************************************************************************)
EXTENDS Naturals

CONSTANTS MaxSends,   \* sends one call may make
          ChargeIds   \* identities a charge can have

VARIABLES open,       \* the call has not returned or raised yet
          sends,      \* requests put on the wire
          surfaced,   \* pieces of the answer the caller was given
          charged     \* identities under which the call was charged

vars == <<open, sends, surfaced, charged>>

Init ==
    /\ open = TRUE
    /\ sends = 0
    /\ surfaced = 0
    /\ charged = {}

Send ==
    /\ open
    /\ surfaced = 0
    /\ sends < MaxSends
    /\ sends' = sends + 1
    /\ UNCHANGED <<open, surfaced, charged>>

Charge ==
    /\ sends > 0
    /\ charged = {}
    /\ \E c \in ChargeIds : charged' = {c}
    /\ UNCHANGED <<open, sends, surfaced>>

Surface ==
    /\ open
    /\ sends > 0
    /\ surfaced' = surfaced + 1
    /\ UNCHANGED <<open, sends, charged>>

Close ==
    /\ open
    /\ open' = FALSE
    /\ UNCHANGED <<sends, surfaced, charged>>

Next == Send \/ Charge \/ Surface \/ Close

Spec == Init /\ [][Next]_vars
=============================================================================
