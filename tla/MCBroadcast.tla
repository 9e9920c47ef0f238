---------------------------- MODULE MCBroadcast ----------------------------
(* Small instances of Broadcast: two requests that contend for inputs.      *)
EXTENDS Broadcast

CONSTANTS r1, r2, A

TwoRequests == {r1, r2}
OneWorker == {1}

\* One transaction of two inputs, sent by both requests.
OneTx == {A}
TwoOutpoints == {1, 2}
OneTxInputs == [tx \in OneTx |-> {1, 2}]
=============================================================================
