-------------------------- MODULE MC_RecordedCall --------------------------
(* RecordedCall for TLC: headers of each kind, alone and together. *)
EXTENDS RecordedCall

Odd(kind) == [kind |-> kind, value |-> 0]

MCHints ==
    { [ms |-> Odd("absent"),    s |-> Odd("absent")],
      [ms |-> Number(1500),     s |-> Number(7000)],
      [ms |-> Number(-1),       s |-> Number(7000)],
      [ms |-> Odd("nonfinite"), s |-> Number(100000000)],
      [ms |-> Odd("junk"),      s |-> Odd("nonfinite")] }
=============================================================================
