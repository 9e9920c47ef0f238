---------------------------- MODULE MCP2POrder ----------------------------
(* Small instances of P2POrder: processes as model values, sets of handlers. *)
EXTENDS P2POrder, TLC

CONSTANTS r1, r2, w1, w2
OneRequest == {r1}
TwoRequests == {r1, r2}
OneWorker == {w1}
TwoWorkers == {w1, w2}
AllHandlers == Ops
\* An order nobody cancels.
NoCancel == Ops \ {"cancel", "cancel_expired_orders"}
Symmetry == Permutations(Requests) \cup Permutations(Workers)
=============================================================================
