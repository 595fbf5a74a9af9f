--------------------------- MODULE MC_Attestation ---------------------------
(* Attestation for TLC: two published builds under one reference, and a    *)
(* workload of somebody else; releases with lists, with single pins, in a  *)
(* rollout, with pins of one kind, and with none.                          *)
EXTENDS Attestation

Build(digest, reference, published) ==
    [digest |-> digest, reference |-> reference, published |-> published]

MCImages == {Build("d1", "gateway", TRUE), Build("d2", "gateway", TRUE),
             Build("d3", "somebody", FALSE)}

Pins(digest, digests, reference, references) ==
    [digest |-> digest, digests |-> digests,
     reference |-> reference, references |-> references]

MCReleases ==
    {Pins({"d1"}, {}, {"gateway"}, {}),
     Pins({"d2"}, {"d1", "d2"}, {"gateway"}, {"gateway"}),
     Pins({}, {"d2"}, {}, {}),
     Pins({}, {}, {"gateway"}, {}),
     Pins({}, {}, {}, {})}
=============================================================================
