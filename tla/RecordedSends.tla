--------------------------- MODULE RecordedSends ---------------------------
(***************************************************************************)
(* What a broadcast promises, with no lock, retry or process: a transaction *)
(* is sent only once it is on record, the node takes no two that spend the  *)
(* same outpoint, a record succeeds once the node has its transaction and   *)
(* stays so, and the caller is told once: success with the record, "busy"   *)
(* only if nothing is, or will be, on record.                               *)
(***************************************************************************)
CONSTANTS Requests, Txs, Inputs, Unset

VARIABLES mempool,  \* what the node has
          want,     \* want[r]: the transaction of request r, or Unset
          record,   \* record[r]: "none", "pending" or "succeeded"
          answer    \* answer[r]: "none", "success", "busy" or "error"

vars == <<mempool, want, record, answer>>

Init ==
  /\ mempool = {}
  /\ want = [r \in Requests |-> Unset]
  /\ record = [r \in Requests |-> "none"]
  /\ answer = [r \in Requests |-> "none"]

Ask(r, tx) ==
  /\ want[r] = Unset
  /\ want' = [want EXCEPT ![r] = tx]
  /\ UNCHANGED <<mempool, record, answer>>

\* Only a request that was told nothing yet.
Save(r) ==
  /\ want[r] # Unset /\ record[r] = "none" /\ answer[r] = "none"
  /\ record' = [record EXCEPT ![r] = "pending"]
  /\ UNCHANGED <<mempool, want, answer>>

Enter(r) ==
  /\ record[r] = "pending"
  /\ \A tx \in mempool : tx = want[r] \/ Inputs[tx] \cap Inputs[want[r]] = {}
  /\ mempool' = mempool \cup {want[r]}
  /\ UNCHANGED <<want, record, answer>>

Succeed(r) ==
  /\ record[r] = "pending" /\ want[r] \in mempool
  /\ record' = [record EXCEPT ![r] = "succeeded"]
  /\ UNCHANGED <<mempool, want, answer>>

TellSuccess(r) ==
  /\ record[r] # "none" /\ answer[r] = "none" /\ want[r] \in mempool
  /\ record' = [record EXCEPT ![r] = "succeeded"]
  /\ answer' = [answer EXCEPT ![r] = "success"]
  /\ UNCHANGED <<mempool, want>>

\* An error says nothing of what the node will have; "busy" does.
TellFailure(r, why) ==
  /\ want[r] # Unset /\ answer[r] = "none"
  /\ why = "busy" => record[r] = "none"
  /\ answer' = [answer EXCEPT ![r] = why]
  /\ UNCHANGED <<mempool, want, record>>

Next ==
  \E r \in Requests :
    \/ \E tx \in Txs : Ask(r, tx)
    \/ Save(r) \/ Enter(r) \/ Succeed(r) \/ TellSuccess(r)
    \/ \E why \in {"busy", "error"} : TellFailure(r, why)

Spec == Init /\ [][Next]_vars
=============================================================================
