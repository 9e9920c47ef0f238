---------------------------- MODULE MCUtxoIndex ----------------------------
(* Small chains for UtxoIndex.  A wallet has two addresses, ax and ay.      *)
EXTENDS UtxoIndex

CONSTANTS P, S, p1, p2, s1, ax, ay, w1, w2

\* P pays two coins of the wallet.
OneTxs == {P}
PayCoins == {p1, p2}
OneOutputs == P :> <<p1, p2>>
OneInputs == P :> << >>

\* S spends the first and keeps nothing: all its outputs pay strangers.
PairTxs == {P, S}
PairInputs == (P :> << >>) @@ (S :> <<p1>>)
PayOutputs == (P :> <<p1, p2>>) @@ (S :> << >>)

\* P pays one coin; S spends it and keeps change.
ChainCoins == {p1, s1}
ChainOutputs == (P :> <<p1>>) @@ (S :> <<s1>>)

BothAddresses == {ax, ay}
Address == [c \in Coins |-> IF c = p1 THEN ax ELSE ay]

OneWorker == {w1}
TwoWorkers == {w1, w2}
Alike == Permutations(TwoWorkers)

Mempool == {"listener", "view"}
Queues == {"listener", "block"}
All == {"listener", "view", "block", "scan"}
=============================================================================
