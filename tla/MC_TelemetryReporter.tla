------------------------ MODULE MC_TelemetryReporter ------------------------
(* TelemetryReporter for TLC.  One counter key suffices: what several keys *)
(* do to a window is CounterWindow's question.                             *)
EXTENDS TelemetryReporter

(* Requests are told apart by nothing but their identity. *)
RequestSymmetry == Permutations(Requests)
=============================================================================
