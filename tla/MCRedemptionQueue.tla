------------------------- MODULE MCRedemptionQueue -------------------------
(* A small instance of RedemptionQueue: two requests that want one coin.    *)
EXTENDS RedemptionQueue

CONSTANTS r1, r2, c1, k1, deposit, inject

TwoRequests == {r1, r2}
OneCoin == {c1}
OneContract == {k1}
TwoKinds == {deposit, inject}
=============================================================================
