---------------------------- MODULE MCGiftClaim ----------------------------
(* Small instances of GiftClaim: two gifts, of which one is swept.          *)
EXTENDS GiftClaim

CONSTANTS g1, g2, w1, w2, q1, back, both

TwoGifts == {g1, g2}
TwoWallets == {w1, w2}
OneRequest == {q1}

\* Two sweeps of one gift, by its creator and by both; for the other gift each
\* is a transaction that has nothing to do with it.
TwoTxs == {back, both}
TwoSpends == [tx \in TwoTxs |-> {g1}]
TwoPays == [tx \in TwoTxs |-> IF tx = back THEN {w1} ELSE {w1, w2}]
=============================================================================
