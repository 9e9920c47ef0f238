# A TLA+ model of watchtower-cash

Watchtower is a Django and Celery service for Bitcoin Cash wallets. It watches
addresses, keeps an index of their coins, broadcasts transactions, and carries
a peer-to-peer exchange whose coins sit in escrow contracts. This directory
holds TLA+ modules of its core, the TLC configurations that check them, and
TLAPS proofs. `PROJECT.json` maps every definition to the lines it stands for
and lists the runs, the findings, the hazards and the theorems.

What makes the code hard is the same everywhere: web threads (gunicorn, three
workers of four threads), some thirty Celery queues, a beat scheduler and
long-running listeners all read and write the same Postgres rows and Redis
keys. Reads and writes of one handler are separate statements, almost never
under a lock; several handlers commit in several steps; tasks acknowledge late
and may run again; processes are recycled and killed.

## 1. The system

| Part | State | Operations | Correct when |
|---|---|---|---|
| **P2P order** (`rampp2p`: validators, order/appeal/contract views, `task_transaction`) | Status log, Transaction rows, Appeal, `appealable_at`, subscription | handlers of buyer, seller, arbiter; expiry job; listener; validation task | what is recorded is what the coin did; the arbiter acts only on appeals; the end is recorded and cleaned up |
| **Index of coins** (`main.tasks`, `main.signals`, `mempool_listener`) | one Transaction row per output with `spent`, acknowledgements | mempool tasks (fast, throttled), block scan, address scan, post-save task | each output has its row, each spend its flag, each payment is reported once |
| **Broadcast** (`main.utils.broadcast`, `bulk_rebroadcast`) | Redis lock per input, TransactionBroadcast row | synchronous request, rebroadcast job | no two requests over one input at the node while its key lives, success is real, rows settle |
| **Block scan** (`get_latest_block`, `manage_blocks`) | BlockHeight rows, Redis keys PENDING-BLOCKS, READY | record, scan, admin rescan, reset at start | recorded blocks are scanned, only scanned blocks count |
| **Escrow contract** (`view_contract.create`, `task_contract`) | Contract row, subscription | create, run script, save address | the address kept is of the last parameters |
| **Ads** (`view_order.update_ad_trade_amount`) | amount left of an ad | order creation | an ad sells no more than it offers |
| **Balance and history cache** (`view_balance`, `utils.cache`) | Redis keys | fill by readers, delete by writers | no stale balance outlives its time to live |
| **Redemption queue** (`stablehedge`: serializers, `redemption_contract_txs_queue`, `functions.transaction`) | request rows with status, txid, retries; the reserve coin of a contract | post a request; build, test, send, record; retry and recover | success is on chain, every request is settled for good |
| **Hedge positions** (`anyhedge`: views, serializers, tasks) | position row, funding and settlement rows | propose, fund, cancel, validate, liquidate, settle | what is recorded is on chain; a matured position is settled |
| **Gifts** (`paytacagifts`) | Gift, Campaign, Claim | create, claim, recover; jobs that mark funded and claimed gifts | marks and replies are true, a swept gift is marked |
| **Multisig proposals** (`multisig`: views, serializers, `tasks`, `signals`) | proposal row, PSBTs | propose, submit a PSBT, view the status, edit, delete; task after a broadcast | the row tells nothing untrue and comes right |
| **JSON payment protocol** (`jpp`) | Invoice, InvoicePayment | pay | paid once, and iff sent |
| **Webhooks** (`main.utils.webhook`) | recipients | sign, post | delivered |
| CashToken identities, point of sale, ramp, smartBCH, nostr, chat, memos, authentication, notifications | their own tables | mostly record keeping, or clients of external services | - |

How they meet: the node's messages reach the mempool listener, which queues
mempool tasks; these write the index, and the post-save signal of an indexed
output leads, for contract addresses, to `rampp2p.process_transaction` and so to the
validation task of an order. A broadcast request, when it succeeds, queues the
same mempool task at once. The block scan meets the same transactions again.
All of them use the node through `NODE.BCH`. The gift jobs, the retries of the redemption
queue and the status view of a proposal learn from the index what was spent, so its delay is part
of their models; a broadcast row starts the task that updates a proposal.

## 2. Modules

| Module | Models | Extends |
|---|---|---|
| `OrderStatus` | the status log and the two validators | |
| `EscrowTrade` | abstract: the coins move once, the outcome recorded is theirs | |
| `P2POrder` | one order from its contract on | `OrderStatus`, instantiates `EscrowTrade` |
| `CoinLedger` | abstract: one row per coin, flagged when it is gone, reported once | |
| `UtxoIndex` | the index of coins | instantiates `CoinLedger` |
| `RecordedSends` | abstract: sent once on record, recorded and told as it is | |
| `Broadcast` | locks, request, rebroadcast | instantiates `RecordedSends` |
| `BlockScan` | the block scan | |
| `SettledRequests` | abstract: a request is settled once, with a trade on chain or as failed | |
| `RedemptionQueue` | requests to a redemption contract and the process that trades | instantiates `SettledRequests` |
| `HedgeFunding` | one position from proposal to settlement | |
| `GiftClaim` | gifts of one creator, a campaign, the index seen late | |
| `MultisigProposal` | the proposals of one unsigned transaction | |
| `...Proofs` | theorems and proofs about the module they are named after | that module, `TLAPS` |
| `MC...` | small instances for TLC | the module they are named after |

Definitions named `X_Slip` are a definition `X` with a plausible mistake; each
property is checked to fail when one of them takes the place of `X`.

### 2.1 P2POrder

State: the Status rows as a sequence `log`, the three Transaction rows `row`,
the Appeal, `appealable`, `subscribed`, the escrow coin `chain`, and validation
messages in flight `queue`. `pc` and `job` say where each web thread and worker
stands. A handler is split where its reads end and at each of its commits:
checks (`Cancel`, `CreateAppeal`, ...), `SaveStatus`, `SaveRequestRow`. The
handlers that commit once (`SaveAppeal`, `SaveDecision`) have one write. The
buyer's handler loads its Order first (`BuyerLoadOrder`) and writes all of it
back, the loaded time included (`BuyerConfirmPayment`). The validation task is `RecordTransaction`
(what it saves before it asks), `AcceptTransaction` or `Refuse` (the
validators), `SaveStatus`, `DropSubscription` and `SaveTransaction`. `GiveUpRecording` is the same
task when the rows of recipients do not fit their field (100 BCH and more, `task_transaction.py:175`): it saves
the txid and returns. It counts as one of the upsets that `MaxCrashes` bounds.

Abstractions: the reads of one handler happen at one instant; an arbiter's view and
`update_order_status` check the same log twice in a row, which is one check here;
`get_or_create` is atomic; an order may expire at any time; which pending row
`.first()` returns is left open, and so is what `confirm` could do (it cannot
succeed: creation commits SUBMITTED and CONFIRMED together). A message whose
transaction fails `verify_txn` changes nothing and is not queued. The contract
address is stable. CANCELED has no clause in `validate_status_progression`, so
`Successors` lets everything follow it.

### 2.2 UtxoIndex

A task is the list of database calls it has left (`agenda`), so two tasks
interleave call by call. `Start` takes a task from the broker and `Begin` gives its
list, from what the task reads first (`ProcessMempoolTransaction`, `SaveTransaction`,
`TransactionPostSaveTask`, `GetBchUtxos`); each call is an action
(`MarkInputsAsSpent`, `CreateRow`, `LoadRow`, `SaveRow`, `Committed`, ...) that
may put further calls in front; `ListNext` goes through the outputs a scan was given.
`save_record` is `CreateRow` for a new row
(insert and save are one database transaction) and `LoadRow` then `SaveRow` for
an old one, which is loaded without a lock and saved whole. `Committed` is what
follows the commit: the `on_commit` hook queues the post-save task, then the
caller acknowledges.

`LedgerSpec` maps it to `CoinLedger`: the fate of a coin is read off the node's transactions,
rows and reports are the model's own. The ledger allows a flag to be lost, since
`save_record` loses it, and holds while addresses are not rescanned: a rescan flags
coins that arrive while it runs.

Abstractions: rows of subscribed wallet addresses only; a coin has at most one spender
(no double spends, no reorganisations), so `spending_txid` is left out; amounts, tokens, SLP and
caches are left out; identical tasks that wait are one task; also left out are
the retry of a rescan that raised, the cache of raw transactions (60 s), and a row that `parse_tx_wallet_histories` makes for an
output nobody watches; whether
a WalletHistory row stops `parse_tx_wallet_histories` early is left open. The
listener looks at output addresses only, as `decoderawtransaction` gives no
address for an input. The order in which a scan meets transactions is left open:
inside a block they are ordered by txid, and blocks may be queued late.

### 2.3 Broadcast

One request is the steps of `broadcast_transaction_sync`: lock each input in
ascending order (`Acquire`, `Refused` when a key is taken, `RedisFails`), `TestAccepted`, `SaveRecord`,
`Send`, `RecordResult`, `ReleaseOne` for each key. The rebroadcast job is
`BulkRebroadcast`, `Resend`, `RecordResend`. The model knows who set a key; the
code does not (the value is `'1'`), so `ReleaseOne` deletes by name only. A key may
expire at any time, as three calls of the node may take three times its 30 s; one that expires under a
request at work is counted, with the kills, by `MaxUpsets` and remembered in `outlived`. When
`NodeFails`, `SendRaw` may lose the reply after the node took the transaction, a
key may be set though the call that sets it raises, and a delete may not happen.
The answer `"busy"` is the refusal because of a key; the code gives it the same
words as a failure of Redis. A row may be sent
again at any age, which stands for the age of 30 s; the mempool keeps what it has.
A request that ends before it takes a key (a node that is unavailable, a transaction that does not parse) does not begin here.
The address rescan at the third retry and the mempool task that follows a success
are outside this module.

`RecordsSpec` refines `RecordedSends`, which knows the mempool, each request's transaction,
row and answer, and nothing else: the row comes before the node has the transaction, so
whatever dies the job can find it; a row that succeeded stays so; the caller is told once, success
only with the row, and after "busy" nothing is ever recorded.

### 2.4 BlockScan

`ReadPending`, `BlockSetter`, `CommitRow` are one `get_or_create` of a
BlockHeight row: the signal handler rewrites the list before the row commits.
`ReadBlocks`, `Refill`, `Choose`, `Discard`/`Take`, `ScanBlock` or `ScanFails`,
`ReadyToAccept` and `Finally` are one run of `manage_blocks`. `Start` is
`MainConfig.ready`, which every process runs that loads the application. A
scan of a block is one step that succeeds or fails: what it does to the index
is `UtxoIndex`. The key's existence and its value are read at one instant.

### 2.5 RedemptionQueue

A wallet's request is `Check` (serializer) and `Create` (row), apart. The one queue process
takes the oldest pending row of a contract, fails it when its price is older than 120 s,
builds it against an unspent reserve of the index (`Take`), tests it (`Test`), sends it (`Send`,
or `Raise`, where the reply is lost though the node took it), has it indexed (`ProcessSent`) and
writes the row (`SaveSuccess`, or `SaveFailed`); `Raise` is any call of the node that
raises, which leaves the row as it was. `Retry` and `Recover` are
`resolve_failed_redemption_tx`: the row goes back to pending, or takes the transaction that the index
says has spent its coin. A
transaction is the coin and the reserve it spends, so two for one reserve exclude each
other. Others trade with the contract and spend the coin elsewhere (`Outside`). The reason of a failure is
kept as far as `resolve_failed_redemption_tx` reads it: with `conflict`, `missing` and `short` (the funds do not
suffice, which a coin spent elsewhere also looks like) it goes on to look the coin up (`LookedUp`).
The index knows the node's transactions late.

`BookSpec` maps it to `SettledRequests`. A row that is marked failed while the process still
resolves it counts as pending there (`Standing`): `Retry` and `Recover` then take nothing back, and a
kill between the save and the resolution is what makes the failure final.

### 2.6 HedgeFunding

Each request and task loads the whole position row (`mine`, `copy`), talks to the node, and
saves the whole row; each of these is an action. The view that takes a second proposal calls
`complete_contract_funding` itself, and validation is both called and queued, so a process
may hold two copies of the row, one of the view and one of the task, saved one after the other.
A position may have an external settlement service (`served`): when it has matured its task asks the service
(`AskService`) and settles nothing itself, a liquidation asks it and goes on. The service tells what has been
settled and settles when it likes; its token and its formats are left out.
Prices, oracle messages, payouts and fees are left out: a liquidation may start whenever the
position has a funding hash and no settlement row. One funding of the joint proposals and any others by the parties or a liquidity
provider may be on chain.

### 2.7 GiftClaim

A gift is a coin whose key is in a link, so anyone may send a transaction of it past the server (`SendPast`).
Transactions are data: `Spends` says which gifts each spends and `Pays` which wallets it pays. A view sends the
`transaction_hex` it is given and looks at none of its inputs and outputs, so a claim of one gift may come with any
transaction at all, and the caller may be told "success" for one that has nothing to do with the gift.
`Claim` checks the limit and the earlier claim, `Send` and `Resend` broadcast (one that the node got meanwhile counts as
sent), `SaveClaim` records; `Recover` is the creator's. `Create` makes a blank row and `Fill` fills it; a request
that dies between leaves a row that `get_or_create` finds and nobody fills, which can be claimed but is never
marked funded. `Match`, `UpdateGifts` and `UpdateClaims` are one run of
`check_unclaimed_gifts`; `CheckUnfundedGifts` is the other job. The index learns of the
funding, of the spend, of the row of each payment, and of its timestamp one by one and in any order. Every gift is
worth one unit and has one coin (the job keeps one funding row for each address). The check in `Claim` and
its early returns happen at one instant.

### 2.8 MultisigProposal

All rows are proposals of one unsigned transaction, made again after a deletion (the
constraint allows one that is not deleted). A request holds what it has loaded in `doing`. The status
view is `ViewStatus` (row), `ReadPsbts`, `SaveProgress`, and for each input `ReadInput` (the
index, then the node, which may fail), `SaveStatus`, `SaveTxid`, each save writing some columns.
`SubmitPsbt` loads the proposal, `StorePsbt` is the database transaction
that stores the PSBT, by a hash that is unique over all proposals, and saves the combined one.
`Change` loads the row that `update` saves whole or `soft_delete` marks.
`update_proposal_status_on_broadcast` runs after a broadcast row was made, which is
before the node is asked, takes the lowest key, and may give up or be lost.
Signatures by input, wallets and authentication are left out, and a proposal
is unsigned when it is made. Each signer has one PSBT and all fit together: two that do not (`pst.js:271`, `320`) make
the combination fail, and with it every later status view, as long as the two are stored. The index only
learns: the spent flag that `save_record` may lose (`VSpentStaysSpent`) is left out here, since with it no row would be final.

## 3. Runs

Bounds are in the configurations; state counts are of distinct states.

| Run | States | Question and bounds |
|---|---|---|
| `P2PRaces` | 1,900,357 | Two request threads (interchangeable) and a worker, an order that nobody cancels, one kill at any step, the message lost or delivered again. `ChainBacked`, `ReleaseJustified`, `OneAppeal`, `WatchedUntilDone` hold in whatever order the log ends up. |
| `P2PLive` | 191,045 | One request thread with every handler, cancellation and expiry included, and a worker, fair, one upset: a kill, or a task that gives up. `ArbiterActsOnlyOnAppeal` and `AppealAboutEscrow` though a cancelled order may go on; the refinement `TradeSpec`; and without the upset a verified release is recorded (`ReleaseRecorded`) and cleaned up after (`ReleaseCleanedUp`). |
| `UtxoCrash` | 1,455,029 | A payment of two coins and a spend of one that pays strangers, met by listener and block scan on two workers (interchangeable), one kill. `SpentRowsAreSpent`, `AnnouncedOnce`; at rest at most one coin per kill is unreported (`RecordedIsAnnounced`) and one transaction per kill partly indexed (`IndexedWhole`); the refinement `LedgerSpec`. |
| `UtxoScan` | 19,748 | A transaction that pays two addresses, scans of both, the listener, a broadcast view and the block scan, one worker that takes the tasks in any order, fair. Each output of a mined transaction gets its row (`MinedIsRecorded`). |
| `Broadcast` | 163,056 | Two requests for one transaction of two inputs, failing calls, one upset (a kill, or a key that expires under a request at work), one retry, fair. `OnlyExpiryLetsTwoIn`, `SomeoneGetsThrough`, the refinement `RecordsSpec` (which implies `SuccessIsInMempool`), `LocksAreFreed`, `BroadcastsSettle`. |
| `BlockLive` | 20,280 | Two blocks of which the first always fails to be scanned, one recorder, one use of the admin action, one kill, processes that start at any time, fair. `ProcessedIsScanned`, `OnlyKillsStopScanning`, `KnownIsProcessed`. |
| `Redemption` | 251,272 | Two requests that want one coin, in two directions, others that trade and spend, a node that fails at will, an index that lags, one retry and one kill, fair. The refinement `BookSpec`: a row is settled once, with its own transaction on chain (`SuccessIsOnChain`) or as failed; and `SettledForGood`. |
| `Hedge` | 1,278,954 | Two processes that serve requests, one of them also the tasks, one funding transaction, a settlement service or none, one kill, fair. `FundingIsReal`, `RecordedIsSettled`. |
| `Gifts` | 214,311 | Two gifts of a campaign with limit one, two wallets, two transactions that sweep the same gift, for the creator and for both wallets, and have nothing to do with the other, one request at a time, the jobs, one coin, one kill, fair. `MarksAreTrue`, `SentIsTrue`, `SweptIsClaimed`. |
| `Multisig` | 886,540 | Two signers who both must sign, one input, two rows, two processes, one of: an edit, a deletion, a request that dies, a node call that fails; fair. `RowIsTrue`, `StatusSettles`, `ProgressSettles`. |

Why the bounds are enough to mean something: two processes of each kind are what
an interleaving of read and write needs; one kill at any step reaches every
partial commit, two reach a kill during the recovery; two transactions that are parent and
child are what the order of arrival is about, and a transaction with two outputs what a
partly indexed one is. One message of each kind in flight, together with
redelivery, gives a repeated and a late message. Two requests that want the same two
inputs are the smallest contention in which each could refuse the other. One
retry reaches the give-up of a row, as seven (broadcasts) and three (redemptions) do in the code.
Two web processes are what a stale save needs, and one upset each leaves
time for the rest to come right. Two rows of a proposal let a deleted one be the one with the
lowest key. No P2P run has two
requests with cancellation, or two workers: the proofs cover any number of both. Two
blocks let one be lost, overtaken or skipped while another is scanned, or wait behind one that always fails. `Gifts` has one
request at a time, so that two views act at once on a gift is left to the proofs, which cover any number; others
act at the same time through `SendPast`.

Deadlock is checked in every run but those of P2POrder, RedemptionQueue, HedgeFunding and
GiftClaim: an order, a request, a position or a gift that has ended, with nobody asking for
anything more, has no further step.

### Runs that show a disagreement

Each states what a comment, an error message or a document of the repository says, and
TLC finds an execution of the code against it; `findings` in PROJECT.json quotes
the line.

| Run | What happens |
|---|---|
| `VCompletedIsFinal` | A request passes the validators, the release is recorded, the request then adds its status after RELEASED. |
| `VSpentStaysSpent` | `save_record` loads an unspent row, another task flags it, and the save writes the old flag back. |

Others were met while modelling. The modules have the behaviour, no run is kept:

- A cancelled order goes on: `validate_status_progression` (`validators.py:31`) has no clause for CANCELED.
- Two requests save the same status: the duplicate check (`validators.py:16`) and the save are apart.
- A release seen while the order is APPEALED resolves the appeal (`task_transaction.py:204`) and is then refused.
- `buyer_confirm_payment` saves a whole Order loaded before the escrow was validated (`view_order.py:1075`) and erases `appealable_at`.
- A refund is recorded for an order marked for release (`view_contract.py:358`).
- A worker killed before `transaction.save()` (`task_transaction.py:217`) leaves the address watched: the redelivered message is a duplicate.
- A coin received while `get_bch_utxos` runs is flagged spent by its last query (`tasks.py:1025`).
- A spend that pays strangers and is mined before its throttled task runs is never flagged (`tasks.py:3021`).
- A block scan that meets a child before its parent leaves the parent's coin unspent (`tasks.py:922`).
- `parse_tx_wallet_histories` creates missing input rows after it has marked the inputs (`tasks.py:2524`): they stay unspent.
- A broadcast reported as failed is sent later by the job (`tasks.py:1523`).
- Of two blocks between two polls only the second is recorded (`tasks.py:949`).
- A request runs longer than its keys live (30 s, three calls of the node may take three times that); another gets the keys and both use the node, though the keys are to "prevent concurrent double-spends" (`broadcast.py:21`, `36`). `OnlyExpiryLetsTwoIn` is what is left of that; without its exception TLC finds the two.
- The request that outlived its keys deletes the keys of the other by name (`broadcast.py:66`), so a third gets in as well.
- A block that always fails can hold up the others if processes start for ever: each start empties the list and the lowest block comes first again (`apps.py`).
- A claim is answered with success for a transaction that neither spends the gift nor pays the wallet: the hex is not looked at (`gift.py:218`, `313`).
- A gift whose creation died between its two statements is answered with 200 when it is made again, and stays blank (`gift.py:194`): it can be claimed but is never marked funded or claimed.
- A wallet claims gifts of a campaign beyond its limit: only claims marked succeeded count, a minute or more after the sweep (`gift.py:273`).
- A gift is swept by `claim`, which dies before it records the claim; asked again, the node refuses, and the gift never gets its date (`gift.py:323`).
- A cancellation that loaded the position earlier erases its funding hash, and the view's save erases the cancellation (`anyhedge/serializers.py:496`).
- A position funded twice has two funding rows, and the validated flag stays with a hash that nobody validated (`anyhedge/tasks.py:557`).
- A redemption whose process died after the broadcast is failed once its price is old, though on chain (`redemption_contract_txs_queue.py:76`).
- A status view that finds the index behind saves no transaction over the one the task recorded (`multisig/views/transaction.py:438`), until it is asked again.
- A proposal is "broadcasted" before the node is asked, and stays so when the node refuses (`multisig/signals.py:13`). The model calls it "Sent to node" and "searchable on block explorers" (`multisig/models/transaction.py:101`, `82`), which is false then; the clause of `RowIsTrue` about it says only what is true: a broadcast was asked for, or the transaction is on chain.
- A PSBT handed in again for a proposal that was deleted and made anew is answered with 201 and never counted (`multisig/serializers/transaction.py:295`): its hash is taken by the deleted one.
- An edit saves the whole row it loaded and may undo a deletion (`multisig/serializers/transaction.py:223`).
- The second of two creations of one proposal fails: it queries after an `IntegrityError` inside the same `atomic` block (`multisig/serializers/transaction.py:158`).

## 4. Fairness

`P2POrder!Fairness`: a web thread carries a started request through and a worker
its message (weak); the broker hands out a queue in order, so a message that
waits is taken in the end though workers are taken for others in between
(strong). Nobody has to call, pay or spend anything. The two liveness properties
hold as long as no process is killed and no task gives up, since a killed child loses its message, and
`ReleaseRecorded` makes an exception of orders that were appealed first or cancelled,
which any status may revive.

`UtxoIndex!FairSpec`: workers run, tasks of the block scan and of saved rows (`OwedTask`) that wait are taken (strong), and
`manage_blocks` reaches every transaction of a mined block, which is what
`BlockScan` is about. The listener owes nothing: MQTT messages may be missed.

`Broadcast!FairSpec`: requests go on, Redis expires keys, beat calls the job every
30 s, a queued rebroadcast is taken (strong), a worker finishes.

`BlockScan!FairSpec`: beat calls both tasks; a scan of a sound block succeeds if
it is tried again and again (strong: it is not enabled all the time). No process has to start, and
`KnownIsProcessed` says two things of starts: they end at last (`StartsEnd`), since each empties the list and a block
that always fails would come first again; and scanning is not left `Halted` by a kill after the last of them, since
only a start frees READY.

`RedemptionQueue!FairSpec`: the queue process goes on with its row and is started again by
supervisor (weak), looks at every head that keeps coming back (strong), and prices age.

`HedgeFunding!FairSpec`: a process goes on with what it has begun (weak); beat queues the
settlement of matured positions every minute, so it is tried again when a
worker that was busy or killed is free (strong). Nobody has to fund, cancel or ask.

`GiftClaim!FairSpec`: the index catches up in each of its parts, beat starts both jobs every minute
(the first strong, as the worker is not always free), and the second job goes on. Requests need not.

`MultisigProposal!FairSpec`: requests that have begun are served, spends get indexed, the
task of a broadcast is taken (weak); and while a proposal is not deleted a wallet that shows it asks
for its status again (strong, as a web process is not always free). The last is the only thing asked of a
client in this project: the status view is the only code that repairs a row.

## 5. Proofs

All theorems are for every value of the constants that the named assumptions
allow: any number of processes, messages, transactions, blocks, kills.

**P2POrderProofs.** `TypeCorrect` first: the type invariant with the
correspondence of `pc` and `job`. The safety properties are not inductive: that
a RELEASED row is backed by the coin depends on what a worker between its
checks and its write has established. `IInv` therefore adds, for each
process in the middle of a handler, what its checks have made true
and the coin cannot take back: the messages in flight and the workers that hold one are
backed by the coin, a handler that still has its row to write has its status logged,
a release on the way has a payment or decision behind it, decisions on the
way have an appeal, `appealable` that has passed has coins behind it. Lemmas say once
for every action what it adds to the log and how the coin moves, and `IStep`
uses them conjunct by conjunct. From `IInv` follow
`ChainBackedAlways`, `ReleaseJustifiedAlways`, `OneAppealAlways`,
`ArbiterActsOnlyOnAppealAlways`, `AppealAboutEscrowAlways`,
`WatchedUntilDoneAlways`, and the refinement `ImplementsEscrowTrade`: every step
of P2POrder is a step of EscrowTrade or leaves it alone.

**BroadcastProofs.** `TypeCorrect` needs `RowsBegun`: a row belongs to a request
that has begun, so the transaction it names exists. `OnlyExpiryLetsTwoInAlways` rests on
`LockInv`: of the keys a live request counts as its own, each is the one it set or has expired under somebody, and
it uses the node only with all of them; one that has returned counts none. Slow requests are included, and no assumption is made:
that no two hold one key at any time is false. `SuccessIsInMempoolAlways` rests on `AcceptedInMempool`: each
"accepted" that a process still remembers is true, and stays true as the
transaction of a row never changes. `SomeoneGetsThroughAlways` needs no assumption either. `PassInv`: a request sets its keys in ascending order (`Ascending`), and unless some request
is through, each key still set by one that was refused lies below a key of a request that is still
locking (`Chase`). A refusal keeps this, as the key that refuses is of such a request or below one's;
so whenever one is refused another is still locking, and no induction over the keys is needed.
The refinement `ImplementsRecordedSends` needs no assumption either. `Stage` says which requests have a row and which have
been answered, by the step they are at; a send, by whoever makes it, then enters a transaction that is on
record or changes nothing (`SendEnters`), and a resend that was accepted makes its row succeed.

**BlockScanProofs.** `TypeCorrect`, with `WorkOK`: the block a task works on is on the
chain, and has a row once it is scanned. `ProcessedIsScannedAlways` adds that a
block about to be accepted was scanned. `OnlyKillsStopScanningAlways` is
inductive by itself.

**UtxoIndexProofs.** Every call still to be made is data, so the invariant speaks of agendas.
`Shape` says that each call and each task is about a coin or transaction the node has
(`GoodCall`, `GoodTask`), that a `commit` comes only first on an agenda (all that follow are `Quiet`), and, while
addresses are not rescanned (`NoScan`), that a call which will set a flag is of a coin that is
gone. `Reports` says that a reported coin has a row, and that a worker who owes a report (`Owes`: it
is about to commit a row it created) is the only one and nobody has made it. `Flags` is
`SpentRowsAreSpent` under `NoScan`. Each action is shown to keep `Shape` and `Reports` and to change the rows only as `RowStep`
says; `SpentRowsAreSpentAlways`, `AnnouncedOnceAlways` and the refinement
`ImplementsCoinLedger` follow from that. `NoScan` is needed: a rescan flags
fresh coins, as the list above says.

`RecordedIsAnnouncedAlways` and `IndexedWholeAlways` need to know who will still report a row or
save the other outputs of its transaction. `Prepared` says that no call comes before the rows it awaits
(`Awaits`: there is a row, or an earlier call of the same list makes it): a post-save task
marks its row processed after it has saved the other outputs, and one that parses histories, which saves
silently, runs after those that report. `OneJob` says that the calls a worker has left are about
its task, so all rows a worker has in hand are of one transaction. `Owed` counts: the
transactions with a row that is neither processed nor followed by a task or worker (`Forgotten`), and
the rows that were not reported and that nobody is about to report (`Untold`), are at most
as many as workers were killed. `OwedKept` says that no step but a kill adds to either set, `OneMore` that
a kill adds one. For the reports `NoScan` is needed: `get_bch_utxos` calls
`parse_tx_wallet_histories`, which saves a transaction's other outputs and tells nobody.

**RedemptionQueueProofs.** `SuccessIsOnChainAlways` needs `InHand`: the transaction in hand
trades what the row in hand asks, the node has it once it was sent, and the index knows
no others. The refinement `ImplementsSettledRequests` adds `Turn`: the row in hand is pending, and failed while it is resolved.
Each step of the queue then settles the row in hand (`BookSettled`), takes one in, adds to the
chain, or leaves the book alone (`BookUnmoved`).

**HedgeFundingProofs.** `FundingIsRealAlways`: `RealRow` says what makes a row real given
what is funded, settled and recorded, all of which only grow, and `RealDoing` that every row
a process holds is real, however old.

**GiftClaimProofs.** Transactions at the node and claims only become more (`BothGrow`), and a sweep that paid a wallet
has paid it for ever (`PaidStays`). So what is in hand stays true until it is written: `RequestsKnow` (the node
has the transaction of a claim about to be saved, who sends again has a claim), `MonitorKnows` (matched pairs were paid,
only their gifts are dated, and before their claims are marked), `IndexIsTrue`. `MarksAreTrueAlways` and `SentIsTrueAlways`
follow, for any number of requests at once, any transactions and whatever they spend and pay.

**MultisigProposalProofs.** `RowIsTrueAlways`: the statuses, transactions and rows that are true
form sets that only grow (`StatusesGrow`, `RowsGrow`, `RequestsGrow`), so what a request loaded is
still true when it saves it. `IInv` says that rows and requests hold true values only.

Every type invariant is proved. That of `MultisigProposal` is a theorem only and no
property of its run, the largest of all.

Only model-checked: every liveness property, as liveness under fairness and ENABLED are beyond the
prover. Every invariant and every refinement that a run checks is a theorem.

## 6. Not modelled, and the plan

Not modelled: parsing and formats, prices, tokens, pushes, websockets, HTTP
delivery, reorganisations of the chain, and the applications marked so in
PROJECT.json, which keep records one request at a time or forward to services
outside this repository. Large parts of the source are of that kind: serializers, list views,
admin pages and generated code change no state that two actors share.

Not yet modelled, though they have state worth it: the creation of an escrow contract
(`EscrowContract`: two requests and two `contract_handler` tasks over one Contract row, under
`P2POrder`, whose assumption of a stable address it would examine); the amount
left of an ad (`AdLiquidity`: read, reduced and saved without a lock); the balance cache
(`BalanceCache` over `UtxoIndex`); the payment of a JPP invoice, a broadcast inside a
database transaction; mutual redemption and the offers of AnyHedge; the treasury contracts of StableHedge.

Next to be proved. Among the properties of the runs only liveness has no theorem. Gifts,
hedges, proposals and the block scan have invariants and no abstract specification yet; the one worth most
is that of `GiftClaim` (a gift is swept once, marked once and for the payee, and stays marked), then
that of `MultisigProposal` (a signature that counts was handed in). The safety that liveness leans
on could be stated too: for `LocksAreFreed`, that a key no request will
delete is one whose request has returned or died, so that only time can free it.
