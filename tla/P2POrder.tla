------------------------------ MODULE P2POrder ------------------------------
(***************************************************************************)
(* The life of one P2P order once its escrow contract exists: the REST     *)
(* handlers of buyer, seller and arbiter, the expiry job, the listener     *)
(* that sees contract transactions and the celery task that validates      *)
(* them.  A handler reads the status log, decides, and writes later; no    *)
(* lock or isolation level orders two handlers, so every handler is split  *)
(* where its reads end and at each of its separate commits.                *)
(***************************************************************************)
EXTENDS OrderStatus

CONSTANTS
  Requests,    \* web threads, and the thread of the expiry job
  Workers,     \* celery workers of the queue rampp2p__contract_execution
  Handlers,    \* the handlers that are called in a behaviour
  CashIn,      \* order.is_cash_in
  MaxQueued,   \* bound: validation messages of one action in flight
  MaxCrashes   \* bound: processes killed, and tasks that give up, in one behaviour

\* Transaction.ActionType: the three kinds of contract transaction.
Actions == {"ESCROW", "RELEASE", "REFUND"}

\* What a request may be, named after the handler it runs.
Ops == {"pending_escrow", "cancel", "buyer_confirm_payment",
        "seller_confirm_payment", "appeal", "pending_release",
        "pending_refund", "cancel_expired_orders"}

ASSUME ConstantsAssumption ==
  /\ Requests \cap Workers = {}
  /\ Handlers \subseteq Ops
  /\ CashIn \in BOOLEAN
  /\ MaxQueued \in Nat
  /\ MaxCrashes \in Nat

Procs == Requests \cup Workers

\* Variants named X_Y are X with the slip Y; the properties below tell them
\* from the code.  Here: a REFUND validation that adds the wrong status.
StatusOf_RefundAsRelease ==
  [pending_escrow |-> "ESCRW_PN", cancel |-> "CNCL", cancel_expired_orders |-> "CNCL",
   buyer_confirm_payment |-> "PD_PN", seller_confirm_payment |-> "PD",
   appeal |-> "APL", pending_release |-> "RLS_PN", pending_refund |-> "RFN_PN",
   ESCROW |-> "ESCRW", RELEASE |-> "RLS", REFUND |-> "RLS"]

\* The status a handler, or the validation of an action, adds.
StatusOf ==
  [pending_escrow |-> "ESCRW_PN", cancel |-> "CNCL", cancel_expired_orders |-> "CNCL",
   buyer_confirm_payment |-> "PD_PN", seller_confirm_payment |-> "PD",
   appeal |-> "APL", pending_release |-> "RLS_PN", pending_refund |-> "RFN_PN",
   ESCROW |-> "ESCRW", RELEASE |-> "RLS", REFUND |-> "RFN"]

VARIABLES
  log,         \* Status rows of the order, oldest first
  row,         \* Transaction rows of the contract: absent, pending (txid null), valid
  appeal,      \* the Appeal row: none, open, or resolved (resolved_at set)
  appealable,  \* order.appealable_at: unset (null), cooling (ahead), passed
  subscribed,  \* the contract address is still watched
  chain,       \* the escrow coin: unfunded, funded, released, refunded
  queue,       \* validation messages waiting, per action
  pc, job,     \* where each process is and what it is doing
  crashes      \* processes killed, and tasks that gave up, so far

\* The order's rows in the database.
data == <<log, row, appeal, appealable, subscribed>>
vars == <<log, row, appeal, appealable, subscribed, chain, queue, pc, job, crashes>>

\* Where a process may stand.  A buyer's request that has loaded its Order
\* remembers whether appealable_at was null ("loaded_null") or not ("loaded").
\* "dropped": the address is no longer watched.
Steps == {"idle", "loaded", "loaded_null", "checked", "saved", "dropped"}

TypeOK ==
  /\ log \in Seq(StatusType) /\ log # << >>
  /\ row \in [Actions -> {"absent", "pending", "valid"}]
  /\ appeal \in {"none", "open", "resolved"}
  /\ appealable \in {"unset", "cooling", "passed"}
  /\ subscribed \in BOOLEAN
  /\ chain \in {"unfunded", "funded", "released", "refunded"}
  /\ queue \in [Actions -> 0..MaxQueued]
  /\ pc \in [Procs -> Steps]
  /\ job \in [Procs -> Ops \cup Actions \cup {"none"}]
  /\ crashes \in 0..MaxCrashes

\* Order creation commits SUBMITTED and CONFIRMED together; the seller has
\* then created the contract and its address is watched.
Init ==
  /\ log = <<"SBM", "CNF">>
  /\ row = [a \in Actions |-> "absent"]
  /\ appeal = "none"
  /\ appealable = "unset"
  /\ subscribed = TRUE
  /\ chain = "unfunded"
  /\ queue = [a \in Actions |-> 0]
  /\ pc = [p \in Procs |-> "idle"]
  /\ job = [p \in Procs |-> "none"]
  /\ crashes = 0
-----------------------------------------------------------------------------
(* Requests: the reads.  A request that fails its first checks changes      *)
(* nothing, so only the requests that pass them appear.                     *)

Start(p, op, step) ==
  /\ pc[p] = "idle"
  /\ pc' = [pc EXCEPT ![p] = step]
  /\ job' = [job EXCEPT ![p] = op]

Goto(p, step) == pc' = [pc EXCEPT ![p] = step] /\ job' = job

Finish(p) ==
  /\ pc' = [pc EXCEPT ![p] = "idle"]
  /\ job' = [job EXCEPT ![p] = "none"]

Request(r, op, step) ==
  /\ op \in Handlers
  /\ Start(r, op, step)
  /\ UNCHANGED <<data, chain, queue, crashes>>

PendingEscrow(r) ==                                  \* seller
  /\ Latest(log) = "CNF"
  /\ MayFollow(log, "ESCRW_PN")
  /\ Request(r, "pending_escrow", "checked")

Cancel(r) ==                                         \* order or ad owner
  /\ MayFollow(log, "CNCL")
  /\ Request(r, "cancel", "checked")

SellerConfirmPayment(r) ==
  /\ MayFollow(log, "PD")
  /\ Request(r, "seller_confirm_payment", "checked")

CreateAppeal_NoCooldown(r) ==
  MayFollow(log, "APL") /\ Request(r, "appeal", "checked")

CreateAppeal(r) ==                                   \* buyer, seller or arbiter
  /\ CashIn \/ appealable = "passed"
  /\ MayFollow(log, "APL")
  /\ Request(r, "appeal", "checked")

PendingRelease_NoAppeal(r) ==
  MayFollow(log, "RLS_PN") /\ Request(r, "pending_release", "checked")

PendingRelease(r) ==                                 \* arbiter
  /\ appeal # "none"
  /\ MayFollow(log, "RLS_PN")
  /\ Request(r, "pending_release", "checked")

PendingRefund(r) ==                                  \* arbiter
  /\ appeal # "none"
  /\ MayFollow(log, "RFN_PN")
  /\ Request(r, "pending_refund", "checked")

\* The buyer's handler loads the Order object first and saves it whole later.
BuyerLoadOrder(r) ==
  Request(r, "buyer_confirm_payment",
          IF appealable = "unset" THEN "loaded_null" ELSE "loaded")

\* Checks, then order.save() with the payment methods (not for cash-in
\* orders): every column is written back, the loaded appealable_at with them,
\* null or a time.  The time may be older than the one in the row; whether it
\* has passed is left open.
BuyerConfirmPayment(r) ==
  /\ pc[r] \in {"loaded", "loaded_null"} /\ job[r] = "buyer_confirm_payment"
  /\ MayFollow(log, "PD_PN")
  /\ Goto(r, "checked")
  /\ appealable' \in IF CashIn THEN {appealable}
                     ELSE IF pc[r] = "loaded_null" THEN {"unset"} ELSE {"cooling", "passed"}
  /\ UNCHANGED <<log, row, appeal, subscribed, chain, queue, crashes>>

\* The expiry job picks the expired orders (any time may be past expires_at,
\* which nothing else reads) in one query, and checks each one later.
SelectExpired(r) ==
  /\ Latest(log) \in {"SBM", "CNF"}
  /\ Request(r, "cancel_expired_orders", "loaded")

CancelExpired(r) ==
  /\ pc[r] = "loaded" /\ job[r] = "cancel_expired_orders"
  /\ MayFollow(log, "CNCL")
  /\ Goto(r, "checked")
  /\ UNCHANGED <<data, chain, queue, crashes>>

\* The checks after a load refuse: the handler answers 400 and is done.
Refuse(r) ==
  /\ pc[r] \in {"loaded", "loaded_null"}
  /\ ~MayFollow(log, StatusOf[job[r]])
  /\ Finish(r)
  /\ UNCHANGED <<data, chain, queue, crashes>>
-----------------------------------------------------------------------------
(* The writes. *)

AddStatus(s) == log' = Append(log, s)

\* Transaction.objects.get_or_create(contract, action)
GetOrCreate(a) ==
  row' = [row EXCEPT ![a] = IF @ = "absent" THEN "pending" ELSE @]

SaveAppeal_Unguarded(r) ==
  /\ pc[r] = "checked" /\ job[r] = "appeal"
  /\ appeal' = "open" /\ AddStatus("APL")
  /\ Finish(r)
  /\ UNCHANGED <<row, appealable, subscribed, chain, queue, crashes>>

\* The appeal and its status are one transaction; the one-to-one constraint
\* on Appeal.order undoes both for a second appeal.
SaveAppeal(r) ==
  /\ pc[r] = "checked" /\ job[r] = "appeal"
  /\ IF appeal = "none"
     THEN appeal' = "open" /\ AddStatus("APL")
     ELSE UNCHANGED <<appeal, log>>
  /\ Finish(r)
  /\ UNCHANGED <<row, appealable, subscribed, chain, queue, crashes>>

\* The arbiter's decision: status and transaction row in one transaction.
SaveDecision(r) ==
  /\ pc[r] = "checked" /\ job[r] \in {"pending_release", "pending_refund"}
  /\ AddStatus(StatusOf[job[r]])
  /\ GetOrCreate(IF job[r] = "pending_release" THEN "RELEASE" ELSE "REFUND")
  /\ Finish(r)
  /\ UNCHANGED <<appeal, appealable, subscribed, chain, queue, crashes>>

\* Handlers that have one more row to write after the status.
HasRowToWrite(op) == op \in {"pending_escrow", "seller_confirm_payment"} \cup Actions

\* Every other handler commits the status by itself.
SaveStatus(p) ==
  /\ pc[p] = "checked"
  /\ job[p] \notin {"appeal", "pending_release", "pending_refund"}
  /\ AddStatus(StatusOf[job[p]])
  /\ IF HasRowToWrite(job[p]) THEN Goto(p, "saved") ELSE Finish(p)
  /\ UNCHANGED <<row, appeal, appealable, subscribed, chain, queue, crashes>>

\* pending_escrow and seller_confirm_payment add their transaction row last.
SaveRequestRow(r) ==
  /\ pc[r] = "saved" /\ job[r] \in {"pending_escrow", "seller_confirm_payment"}
  /\ GetOrCreate(IF job[r] = "pending_escrow" THEN "ESCROW" ELSE "RELEASE")
  /\ Finish(r)
  /\ UNCHANGED <<log, appeal, appealable, subscribed, chain, queue, crashes>>
-----------------------------------------------------------------------------
(* Contract transactions: the chain, the listener, the validation task. *)

VerifyTxn_AnyRecipient(a) ==
  IF a = "ESCROW" THEN chain # "unfunded" ELSE chain \in {"released", "refunded"}

\* verify_txn against the transaction's own inputs and outputs.  The covenant
\* lets the coin be spent once, to the buyer (release) or the seller (refund).
VerifyTxn(a) ==
  /\ a = "ESCROW" => chain # "unfunded"
  /\ a = "RELEASE" => chain = "released"
  /\ a = "REFUND" => chain = "refunded"

\* validate_transaction: fetch the details, queue the task.  The verdict on
\* the details is fixed once they are fetched, and a message that fails it
\* changes nothing, so only the messages that pass are kept.
ValidateTransaction(a) ==
  /\ VerifyTxn(a)
  /\ queue[a] < MaxQueued
  /\ queue' = [queue EXCEPT ![a] = @ + 1]
  /\ UNCHANGED <<data, chain, pc, job, crashes>>

PendingRows == {a \in Actions : row[a] = "pending"}

\* process_transaction, for an output to the contract address: any pending
\* row of the contract makes it an escrow candidate.  The funding output
\* comes by again as an input of the spending transaction and on rescans.
ProcessEscrowOutput ==
  /\ subscribed
  /\ PendingRows # {}
  /\ ValidateTransaction("ESCROW")

\* process_transaction, for an input at the contract address: the action is
\* the one of the first pending row.  Which row is first is left open.
ProcessSpendInput(a) ==
  /\ subscribed
  /\ a \in PendingRows \ {"ESCROW"}
  /\ ValidateTransaction(a)

\* verify_escrow, verify_release, verify_refund: the manual fallbacks.
VerifyEscrow ==
  /\ Latest(log) = "ESCRW_PN"
  /\ MayFollow(log, "ESCRW")
  /\ ValidateTransaction("ESCROW")

VerifyRelease_NoStatusCheck ==
  ~Logged(log, "RFN") /\ MayFollow(log, "RLS") /\ ValidateTransaction("RELEASE")

VerifyRelease ==
  /\ Latest(log) \in {"RLS_PN", "PD"}
  /\ ~Logged(log, "RFN") /\ MayFollow(log, "RLS")
  /\ ValidateTransaction("RELEASE")

VerifyRefund ==
  /\ ~Logged(log, "RLS") /\ MayFollow(log, "RFN")
  /\ ValidateTransaction("REFUND")

RecordTransaction_NoMessage(w, a) ==
  /\ Start(w, a, "loaded")
  /\ queue' = [queue EXCEPT ![a] = @ - 1]
  /\ UNCHANGED <<data, chain, crashes>>

\* handle_order_status up to the validators: a missing row is created valid,
\* the appeal is resolved, appealable_at is set - before the order is asked.
RecordTransaction(w, a) ==
  /\ queue[a] > 0
  /\ Start(w, a, "loaded")
  /\ queue' = [queue EXCEPT ![a] = @ - 1]
  /\ row' = [row EXCEPT ![a] = IF @ = "absent" THEN "valid" ELSE @]
  /\ appeal' = IF a # "ESCROW" /\ appeal = "open" THEN "resolved" ELSE appeal
  /\ appealable' = IF a = "ESCROW" THEN "cooling" ELSE appealable
  /\ UNCHANGED <<log, subscribed, chain, crashes>>

\* handle_order_status gives up, and says so to nobody, when RecipientSerializer
\* refuses an output: 100 BCH or more have too many digits.
GiveUpRecording(w, a) ==
  /\ pc[w] = "idle" /\ queue[a] > 0 /\ crashes < MaxCrashes
  /\ crashes' = crashes + 1
  /\ queue' = [queue EXCEPT ![a] = @ - 1]
  /\ row' = [row EXCEPT ![a] = IF @ = "absent" THEN "valid" ELSE @]
  /\ UNCHANGED <<log, appeal, appealable, subscribed, chain, pc, job>>

\* update_order_status: the validators accept.  Refuse is the other case.
AcceptTransaction(w) ==
  /\ pc[w] = "loaded" /\ job[w] \in Actions
  /\ MayFollow(log, StatusOf[job[w]])
  /\ Goto(w, "checked")
  /\ UNCHANGED <<data, chain, queue, crashes>>

DropSubscription_KeepWatching(w) ==
  /\ pc[w] = "saved" /\ job[w] \in {"RELEASE", "REFUND"}
  /\ Goto(w, "dropped")
  /\ UNCHANGED <<data, chain, queue, crashes>>

DropSubscription_Always(w) ==
  /\ pc[w] = "saved" /\ job[w] \in Actions
  /\ subscribed' = FALSE
  /\ Goto(w, "dropped")
  /\ UNCHANGED <<log, row, appeal, appealable, chain, queue, crashes>>

\* remove_subscription, once the order is complete.
DropSubscription(w) ==
  /\ pc[w] = "saved" /\ job[w] \in {"RELEASE", "REFUND"}
  /\ subscribed' = FALSE
  /\ Goto(w, "dropped")
  /\ UNCHANGED <<log, row, appeal, appealable, chain, queue, crashes>>

\* transaction.save() comes last.
SaveTransaction(w) ==
  /\ pc[w] = "dropped" \/ (pc[w] = "saved" /\ job[w] = "ESCROW")
  /\ row' = [row EXCEPT ![job[w]] = "valid"]
  /\ Finish(w)
  /\ UNCHANGED <<log, appeal, appealable, subscribed, chain, queue, crashes>>
-----------------------------------------------------------------------------
(* The world: the parties' wallets, the clock, killed processes. *)

\* The seller's wallet pays the contract once the order is ESCROW_PENDING.
FundEscrow ==
  /\ chain = "unfunded" /\ Logged(log, "ESCRW_PN")
  /\ chain' = "funded"
  /\ UNCHANGED <<data, queue, pc, job, crashes>>

\* escrow.cash: release by arbiter or seller, refund by the arbiter, at any time.
SpendEscrow ==
  /\ chain = "funded"
  /\ chain' \in {"released", "refunded"}
  /\ UNCHANGED <<data, queue, pc, job, crashes>>

CooldownPasses ==
  /\ appealable = "cooling"
  /\ appealable' = "passed"
  /\ UNCHANGED <<log, row, appeal, subscribed, chain, queue, pc, job, crashes>>

\* A process is killed between two steps.  A request is lost.  The message of
\* a task comes back when the worker dies before it acknowledges (tasks
\* acknowledge late), and is lost when only the child running it dies.
Crash(p) ==
  /\ crashes < MaxCrashes /\ pc[p] # "idle"
  /\ crashes' = crashes + 1
  /\ \/ UNCHANGED queue
     \/ /\ job[p] \in Actions /\ queue[job[p]] < MaxQueued
        /\ queue' = [queue EXCEPT ![job[p]] = @ + 1]
  /\ Finish(p)
  /\ UNCHANGED <<data, chain>>
-----------------------------------------------------------------------------
RequestStep(r) ==
  \/ PendingEscrow(r) \/ Cancel(r) \/ BuyerLoadOrder(r) \/ BuyerConfirmPayment(r)
  \/ SellerConfirmPayment(r) \/ CreateAppeal(r)
  \/ PendingRelease(r) \/ PendingRefund(r)
  \/ SelectExpired(r) \/ CancelExpired(r) \/ Refuse(r)
  \/ SaveAppeal(r) \/ SaveDecision(r) \/ SaveRequestRow(r) \/ SaveStatus(r)

\* What a worker does with the message it has taken.
WorkerStep(w) ==
  AcceptTransaction(w) \/ Refuse(w) \/ SaveStatus(w) \/ DropSubscription(w) \/ SaveTransaction(w)

Listen ==
  \/ ProcessEscrowOutput \/ \E a \in Actions : ProcessSpendInput(a)
  \/ VerifyEscrow \/ VerifyRelease \/ VerifyRefund

Environment == FundEscrow \/ SpendEscrow \/ CooldownPasses

Next ==
  \/ \E r \in Requests : RequestStep(r)
  \/ \E w \in Workers :
       WorkerStep(w) \/ \E a \in Actions : RecordTransaction(w, a) \/ GiveUpRecording(w, a)
  \/ Listen
  \/ Environment
  \/ \E p \in Procs : Crash(p)

Spec == Init /\ [][Next]_vars

\* A request that has started is carried through.
RequestProgress(r) ==
  \/ BuyerConfirmPayment(r) \/ CancelExpired(r) \/ Refuse(r)
  \/ SaveAppeal(r) \/ SaveDecision(r) \/ SaveStatus(r) \/ SaveRequestRow(r)

\* Threads and workers keep running, and the broker hands out a queue in
\* order, so no message waits for ever.  Nobody has to call or pay anything.
Fairness ==
  /\ \A r \in Requests : WF_vars(RequestProgress(r))
  /\ \A w \in Workers : WF_vars(WorkerStep(w))
  /\ \A a \in Actions : SF_vars(\E w \in Workers : RecordTransaction(w, a))

FairSpec == Spec /\ Fairness
-----------------------------------------------------------------------------
(* What holds whatever the interleaving. *)

\* An on-chain outcome is never recorded before it happened: ESCROWED,
\* RELEASED and REFUNDED rows, and transaction rows marked valid, are backed
\* by the coin's own state, through late, repeated and redelivered messages.
ChainBacked ==
  /\ Logged(log, "ESCRW") \/ row["ESCROW"] = "valid" => chain # "unfunded"
  /\ Logged(log, "RLS") \/ row["RELEASE"] = "valid" => chain = "released"
  /\ Logged(log, "RFN") \/ row["REFUND"] = "valid" => chain = "refunded"

\* An order is RELEASED only after the seller confirmed the payment or the
\* arbiter decided for release: no listener or manual fallback skips both.
ReleaseJustified ==
  Logged(log, "RLS") => Logged(log, "PD") \/ Logged(log, "RLS_PN")

\* The Appeal row and the APPEALED status stand and fall together, and an
\* order is appealed at most once, however many requests race for it.
OneAppeal ==
  /\ appeal # "none" <=> Logged(log, "APL")
  /\ \A i, j \in Rows(log, "APL") : i = j

\* The arbiter decides appealed orders only.
ArbiterActsOnlyOnAppeal ==
  Logged(log, "RLS_PN") \/ Logged(log, "RFN_PN") => Logged(log, "APL")

\* An appeal on an order that is not cash-in is about coins that are, or
\* were, in escrow: appealable_at is set by an escrow validation only.
AppealAboutEscrow == ~CashIn /\ Logged(log, "APL") => chain # "unfunded"

\* The address is dropped only after the order's end was recorded.
WatchedUntilDone == subscribed \/ Logged(log, "RLS") \/ Logged(log, "RFN")

\* The trade as EscrowTrade promises it: the coins move once, the recorded
\* outcome is theirs, and it never changes.  A race may log it twice.
Outcome ==
  IF Logged(log, "RLS") THEN "released"
  ELSE IF Logged(log, "RFN") THEN "refunded" ELSE "open"

Trade == INSTANCE EscrowTrade WITH funds <- chain, outcome <- Outcome

\* P2POrder implements EscrowTrade.
TradeSpec == Trade!Spec
-----------------------------------------------------------------------------
(* Liveness, with Fairness, as long as no process is killed and no task     *)
(* gives up.                                                                *)

\* validators.py "duplicate status": no status is logged twice.
NoDuplicateStatus == \A i, j \in 1..Len(log) : log[i] = log[j] => i = j

\* A verified release of a PAID or RELEASE_PENDING order is recorded, unless
\* an appeal gets in before it, the order was cancelled and goes on, or a race
\* doubles a status and takes the order back to where a release is refused.
ReleaseRecorded ==
  queue["RELEASE"] > 0 /\ Latest(log) \in {"PD", "RLS_PN"}
    ~> \/ Logged(log, "RLS")
       \/ Latest(log) = "APL" \/ Logged(log, "CNCL") \/ ~NoDuplicateStatus
       \/ crashes > 0

\* Once RELEASED, the RELEASE row becomes valid and the address is dropped
\* ("Remove address subscription once order is complete").
ReleaseCleanedUp ==
  Logged(log, "RLS") ~> (row["RELEASE"] = "valid" /\ ~subscribed) \/ crashes > 0
-----------------------------------------------------------------------------
(* What the repository says of an order and its handlers do not keep.       *)

\* validators.py "Cannot change a completed order's status".
CompletedIsFinal == [][(\E s \in {"RLS", "RFN"} : Logged(log, s)) => log' = log]_vars
=============================================================================
