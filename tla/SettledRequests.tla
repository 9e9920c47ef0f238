-------------------------- MODULE SettledRequests --------------------------
(***************************************************************************)
(* What the queue of StableHedge promises, with no process, index or price: *)
(* a request that was taken in is settled once, with a transaction of the   *)
(* chain that trades its coin as it asked, or as failed; and what is        *)
(* settled stays so.                                                        *)
(***************************************************************************)
CONSTANTS Requests, Ask, Tx, None

VARIABLES chain,     \* the transactions there are
          ask,       \* ask[r]: what a request that was taken in asks
          standing,  \* standing[r]: "none", "pending", "success" or "failed"
          txid       \* txid[r]: what it was settled with

vars == <<chain, ask, standing, txid>>

Init ==
  /\ chain = {}
  /\ ask = [r \in Requests |-> None]
  /\ standing = [r \in Requests |-> "none"]
  /\ txid = [r \in Requests |-> None]

Serves(tx, a) == tx.coin = a.coin /\ tx.contract = a.contract /\ tx.kind = a.kind

\* Anyone trades, the queue included.
Transact(tx) ==
  /\ chain' = chain \cup {tx}
  /\ UNCHANGED <<ask, standing, txid>>

TakeIn(r, a) ==
  /\ standing[r] = "none"
  /\ ask' = [ask EXCEPT ![r] = a]
  /\ standing' = [standing EXCEPT ![r] = "pending"]
  /\ UNCHANGED <<chain, txid>>

Settle(r, tx) ==
  /\ standing[r] = "pending" /\ tx \in chain /\ Serves(tx, ask[r])
  /\ standing' = [standing EXCEPT ![r] = "success"]
  /\ txid' = [txid EXCEPT ![r] = tx]
  /\ UNCHANGED <<chain, ask>>

GiveUp(r) ==
  /\ standing[r] = "pending"
  /\ standing' = [standing EXCEPT ![r] = "failed"]
  /\ UNCHANGED <<chain, ask, txid>>

Next ==
  \/ \E tx \in Tx : Transact(tx)
  \/ \E r \in Requests : (\E a \in Ask : TakeIn(r, a)) \/ (\E tx \in Tx : Settle(r, tx)) \/ GiveUp(r)

Spec == Init /\ [][Next]_vars
=============================================================================
