--------------------------- MODULE RedemptionQueue ---------------------------
(***************************************************************************)
(* The queue of StableHedge: wallets post deposits, injections and          *)
(* redemptions, each with a coin that it alone may spend, and one process   *)
(* builds, tests and sends their transactions against the reserve coin of   *)
(* the redemption contract.  Every transaction of a contract spends its     *)
(* reserve and makes the next one, the index of coins learns of them late,  *)
(* and anyone may trade with the contract or spend the coin elsewhere.      *)
(***************************************************************************)
EXTENDS Naturals, Sequences

CONSTANTS
  Requests,    \* RedemptionContractTransaction rows
  Coins, Contracts, Kinds,
  Known,       \* coins that have a row in the index of coins
  None,        \* no coin, contract, transaction or request
  NodeFails,   \* whether a call of the node may raise, done or not
  MaxRetries,  \* retry_count at which the reserve is given up: 3
  MaxReserve,  \* bound: reserves spent, per contract
  MaxCrashes   \* bound: kills of the process

ASSUME RedemptionAssumption ==
  /\ Known \subseteq Coins
  /\ None \notin Requests \cup Coins \cup Contracts \cup Kinds
  /\ NodeFails \in BOOLEAN
  /\ MaxRetries \in Nat /\ MaxReserve \in Nat /\ MaxCrashes \in Nat

Ask == [coin : Coins, contract : Contracts, kind : Kinds]

\* A transaction, by the coin and the reserve it spends: the n-th reserve of a
\* contract is spent by the transaction that makes the next one.
Trade == [coin : Coins, contract : Contracts, kind : Kinds, reserve : 0..MaxReserve]
OtherTrade == [coin : {None}, contract : Contracts, kind : {None}, reserve : 0..MaxReserve]
Transfer == [coin : Coins, contract : {None}, kind : {None}, reserve : {0}]
Tx == Trade \cup OtherTrade \cup Transfer

VARIABLES
  net,            \* transactions the node has, in its mempool or in blocks
  indexed,        \* those the index of coins has processed
  post, ask,      \* the request of a wallet: "new", "checked", "saved", "refused"
  arrivals,       \* rows by created_at
  status, txid, retries,           \* the row
  old,            \* rows whose price message is older than 120 s
  pc, cur, built, \* what the process does, for which row, with which transaction
  failure,        \* the error it has met
  crashes

chain == <<net, indexed>>
wallet == <<post, ask, arrivals, old>>
row == <<status, txid, retries>>
process == <<pc, cur, built, failure>>
vars == <<chain, wallet, row, process, crashes>>

Reasons == {"none", "old", "unbuilt", "short", "conflict", "missing"}

TypeOK ==
  /\ net \subseteq Tx /\ indexed \subseteq Tx
  /\ post \in [Requests -> {"new", "checked", "saved", "refused"}]
  /\ ask \in [Requests -> Ask \cup {None}]
  /\ \A r \in Requests : post[r] \in {"checked", "saved"} => ask[r] \in Ask
  /\ arrivals \in Seq(Requests)
  /\ status \in [Requests -> {"none", "pending", "success", "failed"}]
  /\ \A r \in Requests : status[r] # "none" <=> post[r] = "saved"
  /\ txid \in [Requests -> Tx \cup {None}]
  /\ retries \in [Requests -> 0..MaxRetries]
  /\ old \subseteq Requests
  /\ pc \in {"idle", "testing", "sending", "sent", "saving", "failing", "resolving"}
  /\ cur \in Requests \cup {None}
  /\ pc # "idle" => cur \in Requests /\ post[cur] = "saved"
  /\ built \in Tx \cup {None}
  /\ pc \in {"testing", "sending", "sent", "saving"} => built \in Tx
  /\ failure \in Reasons
  /\ crashes \in 0..MaxCrashes

Init ==
  /\ net = {} /\ indexed = {}
  /\ post = [r \in Requests |-> "new"] /\ ask = [r \in Requests |-> None]
  /\ arrivals = << >> /\ old = {}
  /\ status = [r \in Requests |-> "none"] /\ txid = [r \in Requests |-> None]
  /\ retries = [r \in Requests |-> 0]
  /\ pc = "idle" /\ cur = None /\ built = None /\ failure = "none"
  /\ crashes = 0
-----------------------------------------------------------------------------
(* The chain and its index.                                                 *)

\* The transactions that took one of the two inputs of tx.
Spenders(tx) ==
  {t \in net : \/ t.coin # None /\ t.coin = tx.coin
               \/ t.contract # None /\ t.contract = tx.contract /\ t.reserve = tx.reserve}

\* The reserve to spend exists.
HasReserve(contract, n) == n = 0 \/ \E t \in net : t.contract = contract /\ t.reserve + 1 = n

Accept(tx) == net' = net \cup {tx}

\* Somebody trades with the contract, with a coin of a request or one unknown
\* to the queue, or the owner spends the coin elsewhere.
Outside(tx) ==
  /\ Spenders(tx) = {}
  /\ tx.contract # None => HasReserve(tx.contract, tx.reserve)
  /\ Accept(tx)
  /\ UNCHANGED <<indexed, wallet, row, process, crashes>>

Index(tx) ==
  /\ tx \in net \ indexed
  /\ indexed' = indexed \cup {tx}
  /\ UNCHANGED <<net, wallet, row, process, crashes>>
-----------------------------------------------------------------------------
(* The serializer: validate, then create in a database transaction.         *)

\* The coin is not spent, and no pending row uses it.
ValidateRequest(a) ==
  /\ ~ \E t \in indexed : a.coin \in Known /\ t.coin = a.coin
  /\ ~ \E s \in Requests : status[s] = "pending" /\ ask[s].coin = a.coin

Check(r, a) ==
  /\ post[r] = "new"
  /\ post' = [post EXCEPT ![r] = IF ValidateRequest(a) THEN "checked" ELSE "refused"]
  /\ ask' = [ask EXCEPT ![r] = IF ValidateRequest(a) THEN a ELSE None]
  /\ UNCHANGED <<chain, arrivals, old, row, process, crashes>>

Create(r) ==
  /\ post[r] = "checked"
  /\ post' = [post EXCEPT ![r] = "saved"]
  /\ arrivals' = Append(arrivals, r)
  /\ status' = [status EXCEPT ![r] = "pending"]
  /\ UNCHANGED <<chain, ask, old, txid, retries, process, crashes>>

\* 120 s after the message of the oracle.
PriceAges(r) ==
  /\ post[r] = "saved" /\ r \notin old
  /\ old' = old \cup {r}
  /\ UNCHANGED <<chain, post, ask, arrivals, row, process, crashes>>
-----------------------------------------------------------------------------
(* run_pending_transactions and resolve_transaction.                        *)

\* The oldest pending row of its contract.
IsHead(r) ==
  \E i \in DOMAIN arrivals :
    /\ arrivals[i] = r /\ status[r] = "pending"
    /\ \A j \in 1..(i - 1) :
         status[arrivals[j]] = "pending" => ask[arrivals[j]].contract # ask[r].contract

\* find_fiat_token_utxos: unspent rows of the index.
Reserves(contract) ==
  {n \in 0..MaxReserve :
     /\ n = 0 \/ \E t \in indexed : t.contract = contract /\ t.reserve + 1 = n
     /\ ~ \E t \in indexed : t.contract = contract /\ t.reserve = n}

TradeOf(r, n) ==
  [coin |-> ask[r].coin, contract |-> ask[r].contract, kind |-> ask[r].kind, reserve |-> n]

\* The row it loaded and what it knows of it are gone.
Idle == pc' = "idle" /\ cur' = None /\ built' = None /\ failure' = "none"

Fail(why) == pc' = "failing" /\ failure' = why

\* create_*_tx: no reserve is found, the script refuses, as when the funds are
\* short, or there is something to test.
Take_AnyAge(r) ==
  /\ pc = "idle" /\ IsHead(r)
  /\ cur' = r
  /\ \/ Fail("unbuilt") /\ UNCHANGED built
     \/ \E n \in Reserves(ask[r].contract) :
          built' = TradeOf(r, n) /\ pc' = "testing" /\ UNCHANGED failure
  /\ UNCHANGED <<chain, wallet, row, crashes>>

Take(r) ==
  /\ pc = "idle" /\ IsHead(r)
  /\ cur' = r
  /\ \/ r \in old /\ Fail("old") /\ UNCHANGED built
     \/ r \notin old /\ (Fail("unbuilt") \/ Fail("short")) /\ UNCHANGED built
     \/ /\ r \notin old
        /\ \E n \in Reserves(ask[r].contract) : built' = TradeOf(r, n)
        /\ pc' = "testing" /\ UNCHANGED failure
  /\ UNCHANGED <<chain, wallet, row, crashes>>

\* testmempoolaccept: an input is gone, to the mempool or to a block.
Test ==
  /\ pc = "testing"
  /\ \/ Spenders(built) = {} /\ pc' = "sending" /\ UNCHANGED failure
     \/ Spenders(built) # {} /\ (Fail("conflict") \/ Fail("missing"))
  /\ UNCHANGED <<chain, wallet, row, cur, built, crashes>>

Send ==
  /\ pc = "sending" /\ Spenders(built) = {}
  /\ pc' = "sent"
  /\ Accept(built)
  /\ UNCHANGED <<indexed, wallet, row, cur, built, failure, crashes>>

\* process_mempool_transaction_fast, called inline.
ProcessSent ==
  /\ pc = "sent"
  /\ indexed' = indexed \cup {built}
  /\ pc' = "saving"
  /\ UNCHANGED <<net, wallet, row, cur, built, failure, crashes>>

\* Any other exception is logged and the row stays as it is: the node refuses
\* what it had accepted in the test, a call fails, its effect there or not.
Raise ==
  /\ \/ pc = "sending" /\ Spenders(built) # {} /\ UNCHANGED net
     \/ NodeFails /\ pc \in {"testing", "sent"} /\ UNCHANGED net
     \/ NodeFails /\ pc = "sending" /\ UNCHANGED net
     \/ NodeFails /\ pc = "sending" /\ Spenders(built) = {} /\ Accept(built)
  /\ Idle
  /\ UNCHANGED <<indexed, wallet, row, crashes>>

SaveSuccess ==
  /\ pc = "saving"
  /\ status' = [status EXCEPT ![cur] = "success"]
  /\ txid' = [txid EXCEPT ![cur] = built]
  /\ Idle
  /\ UNCHANGED <<chain, wallet, retries, crashes>>

SaveFailed ==
  /\ pc = "failing"
  /\ status' = [status EXCEPT ![cur] = "failed"]
  /\ pc' = "resolving"
  /\ UNCHANGED <<chain, wallet, txid, retries, cur, built, failure, crashes>>

CoinUnspent(c) == \A t \in net : t.coin # c

Retry_Unlimited ==
  /\ pc = "resolving" /\ failure = "missing" /\ CoinUnspent(ask[cur].coin)
  /\ retries' = [retries EXCEPT ![cur] = @ + 1]
  /\ status' = [status EXCEPT ![cur] = "pending"]
  /\ Idle
  /\ UNCHANGED <<chain, wallet, txid, crashes>>

\* resolve_failed_redemption_tx: with the own coin unspent, it is the reserve
\* that was gone, and the row is tried again.
Retry ==
  /\ pc = "resolving" /\ failure = "missing" /\ CoinUnspent(ask[cur].coin)
  /\ retries[cur] < MaxRetries
  /\ retries' = [retries EXCEPT ![cur] = @ + 1]
  /\ status' = [status EXCEPT ![cur] = "pending"]
  /\ Idle
  /\ UNCHANGED <<chain, wallet, txid, crashes>>

\* The transaction that the index says has spent the coin counts as the row's
\* own when it is of its contract and type.
IsTradeOf_AnyKind(t, a) == t.coin = a.coin /\ t.contract = a.contract
IsTradeOf(t, a) == t.coin = a.coin /\ t.contract = a.contract /\ t.kind = a.kind

\* The failures after which the coin may be spent by the row's transaction.
LookedUp == {"conflict", "missing", "short"}

\* check_existing_txid_for_redemption_contract_tx.
Recover(t) ==
  /\ pc = "resolving" /\ failure \in LookedUp
  /\ ask[cur].coin \in Known /\ t \in indexed /\ IsTradeOf(t, ask[cur])
  /\ status' = [status EXCEPT ![cur] = "success"]
  /\ txid' = [txid EXCEPT ![cur] = t]
  /\ Idle
  /\ UNCHANGED <<chain, wallet, retries, crashes>>

LeaveFailed ==
  /\ pc = "resolving"
  /\ \/ NodeFails \/ failure \notin LookedUp
     \/ failure = "missing" /\ CoinUnspent(ask[cur].coin) /\ retries[cur] >= MaxRetries
     \/ /\ ~ (failure = "missing" /\ CoinUnspent(ask[cur].coin))
        /\ ~ \E t \in indexed : ask[cur].coin \in Known /\ IsTradeOf(t, ask[cur])
  /\ Idle
  /\ UNCHANGED <<chain, wallet, row, crashes>>

\* The process is killed, and supervisor starts it again.
Crash ==
  /\ crashes < MaxCrashes /\ pc # "idle"
  /\ crashes' = crashes + 1
  /\ Idle
  /\ UNCHANGED <<chain, wallet, row>>

Step ==
  \/ Test \/ Send \/ ProcessSent \/ Raise \/ SaveSuccess \/ SaveFailed
  \/ Retry \/ (\E t \in indexed : Recover(t)) \/ LeaveFailed

Next ==
  \/ \E tx \in Tx : Outside(tx) \/ Index(tx)
  \/ \E r \in Requests : (\E a \in Ask : Check(r, a)) \/ Create(r) \/ PriceAges(r) \/ Take(r)
  \/ Step \/ Crash

Spec == Init /\ [][Next]_vars

\* The process runs its loop and takes the head of every contract in each
\* round; time passes.
FairSpec ==
  /\ Spec
  /\ WF_vars(Step)
  /\ \A r \in Requests : SF_vars(Take(r)) /\ WF_vars(PriceAges(r))
-----------------------------------------------------------------------------
(* Properties.                                                              *)

\* A row is only ever marked successful with a transaction the node has, that
\* spends the coin of the request through its contract, in its direction,
\* though the coin may be spent elsewhere and the row be resolved after the
\* fact (queue 77-81, transaction.py 214-240).
SuccessIsOnChain ==
  \A r \in Requests : status[r] = "success" =>
    /\ txid[r] \in net /\ txid[r].coin = ask[r].coin
    /\ txid[r].contract = ask[r].contract /\ txid[r].kind = ask[r].kind

\* A row marked failed that the process still resolves counts as pending, and
\* what a request asks counts once it is saved.
Standing(r) == IF pc = "resolving" /\ r = cur THEN "pending" ELSE status[r]
AskOf(r) == IF status[r] = "none" THEN None ELSE ask[r]

Book == INSTANCE SettledRequests WITH
  chain <- net, ask <- [r \in Requests |-> AskOf(r)], standing <- [r \in Requests |-> Standing(r)]

\* The queue implements SettledRequests: however the process, its restarts, the
\* node, the index and strangers interleave, no row is settled twice, taken
\* back, or settled with a transaction that is not on chain and its own.
BookSpec == Book!Spec

\* Every request is settled for good, with the node failing as often as it
\* likes, others taking the reserve, and the process killed: it stops being
\* pending and is not put back.
SettledForGood ==
  \A r \in Requests : status[r] = "pending" ~> [](status[r] \in {"success", "failed"})
=============================================================================
