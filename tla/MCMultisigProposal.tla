------------------------- MODULE MCMultisigProposal -------------------------
(* Small instances of MultisigProposal: signers, inputs, processes. *)
EXTENDS MultisigProposal

CONSTANTS a, b, i1, p1, p2
TwoSigners == {a, b}
BothSign == {TwoSigners}
OneInput == {i1}
TwoProcs == {p1, p2}
=============================================================================
