----------------------------- MODULE RetryDelay -----------------------------
(***************************************************************************)
(* How long the engine sleeps before it sends again (_retry.py): full      *)
(* jitter below a growing bound, with what the answer's headers say as a   *)
(* floor.  Everything is in milliseconds.  A raw header is what float()    *)
(* makes of it: a number (of either sign and any size), not finite, junk   *)
(* (a date, two values joined, no number), or absent (or empty).           *)
(***************************************************************************)
EXTENDS Integers, Sequences

Number(n) == [kind |-> "number", value |-> n]

RawHeaders == [kind : {"number", "nonfinite", "junk", "absent"}, value : Int]

MaxRetryAfter == 60000

(* None: below every delay. *)
NoHint == -1

Larger(a, b) == IF a > b THEN a ELSE b

Smaller(a, b) == IF a < b THEN a ELSE b

(* Clamp a hint, or reject it: what is not finite or negative is no hint.  *)
BoundedRetryAfter(raw) ==
    IF raw.kind # "number" \/ raw.value < 0
    THEN NoHint
    ELSE Smaller(raw.value, MaxRetryAfter)

(* Mutant: retry-after is read only when retry-after-ms is absent. *)
RetryAfterWithoutFallback(h) ==
    IF h.ms.kind # "absent" THEN BoundedRetryAfter(h.ms) ELSE BoundedRetryAfter(h.s)

(* retry-after-ms wins when it is usable. *)
RetryAfter(h) ==
    IF BoundedRetryAfter(h.ms) # NoHint
    THEN BoundedRetryAfter(h.ms)
    ELSE BoundedRetryAfter(h.s)

(* 0.5 s doubled by each attempt, and 30 s from the sixth on. *)
Bases == <<500, 1000, 2000, 4000, 8000, 16000>>

MaxJitter == 30000

BaseDelay(attempt) == IF attempt < 6 THEN Bases[attempt + 1] ELSE MaxJitter

(* The sleep for a jitter drawn from 0..BaseDelay(attempt). *)
RetrySleep(jitter, hint) ==
    Smaller(Larger(jitter, hint), Larger(MaxJitter, MaxRetryAfter))
=============================================================================
