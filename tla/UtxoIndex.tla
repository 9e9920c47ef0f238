----------------------------- MODULE UtxoIndex -----------------------------
(***************************************************************************)
(* The index of coins that main keeps: one main.models.Transaction row per *)
(* output that pays a subscribed address, with its spent flag.  Four paths *)
(* write it at once, each in celery tasks of its own queue: mempool        *)
(* messages, the scan of mined blocks, the scan of an address's UTXOs and  *)
(* the task every saved row triggers.  A task is the list of database      *)
(* calls it still has to make, so that other tasks run in between.         *)
(***************************************************************************)
EXTENDS Naturals, Sequences, FiniteSets, SequencesExt

CONSTANTS
  Txs, Coins,      \* transactions of the chain, outputs to subscribed addresses
  Addresses,       \* the subscribed addresses, all of wallets
  Outputs,         \* Outputs[tx]: the coins a transaction creates, by index
  Inputs,          \* Inputs[tx]: the coins it spends, by index
  AddressOf,       \* AddressOf[c]: the address a coin pays
  Workers,         \* celery worker processes
  Sources,         \* who asks for work: "listener", "view", "block", "scan"
  MaxCrashes       \* bound: workers killed in one behaviour

ASSUME TopologyAssumption ==
  /\ Outputs \in [Txs -> Seq(Coins)] /\ Inputs \in [Txs -> Seq(Coins)]
  /\ AddressOf \in [Coins -> Addresses]
  /\ \A c \in Coins : \E tx \in Txs : c \in ToSet(Outputs[tx])
  /\ \A tx, other \in Txs : tx # other =>
       /\ ToSet(Outputs[tx]) \cap ToSet(Outputs[other]) = {}
       /\ ToSet(Inputs[tx]) \cap ToSet(Inputs[other]) = {}

ASSUME BoundsAssumption ==
  MaxCrashes \in Nat /\ Sources \subseteq {"listener", "view", "block", "scan"}

\* The transaction whose txid a row of coin c carries.
Creator(c) == CHOOSE tx \in Txs : c \in ToSet(Outputs[tx])

VARIABLES
  net, mined,  \* transactions the node knows, and those in a block
  row,         \* row[c]: no row, or its spent flag
  processed,   \* coins whose row has post_save_processed set
  announced,   \* client acknowledgements made for a coin
  tasks,       \* tasks waiting in the broker
  job, agenda, \* what each worker runs, and the calls it has left
  crashes

chain == <<net, mined>>
vars == <<net, mined, row, processed, announced, tasks, job, agenda, crashes>>

Task == [kind : {"fast", "throttled", "histories", "block"}, tx : Txs]
          \cup [kind : {"scan"}, addr : Addresses] \cup [kind : {"post"}, coin : Coins]
NoTask == [kind |-> "none"]

\* One database call of a task; see Step.
Call == [do : {"mark", "histories", "histories_later"}, tx : Txs]
          \cup [do : {"save", "save_missing"}, coin : Coins, spent : BOOLEAN, ack : BOOLEAN, fresh : BOOLEAN]
          \cup [do : {"write"}, coin : Coins, spent : BOOLEAN]
          \cup [do : {"commit"}, coin : Coins, ack : BOOLEAN]
          \cup [do : {"reset", "unspend", "processed"}, coin : Coins]
          \cup [do : {"list"}, addr : Addresses, left : SUBSET Coins, keep : SUBSET Coins]
          \cup [do : {"sweep"}, addr : Addresses, keep : SUBSET Coins]
          \cup [do : {"flag"}, coins : SUBSET Coins]

TypeOK ==
  /\ net \subseteq Txs /\ mined \subseteq net
  /\ row \in [Coins -> {"absent", "unspent", "spent"}]
  /\ processed \subseteq Coins
  /\ announced \in [Coins -> Nat]
  /\ tasks \subseteq Task
  /\ job \in [Workers -> Task \cup {NoTask}]
  /\ agenda \in [Workers -> Seq(Call)]
  /\ crashes \in 0..MaxCrashes

Init ==
  /\ net = {} /\ mined = {}
  /\ row = [c \in Coins |-> "absent"]
  /\ processed = {}
  /\ announced = [c \in Coins |-> 0]
  /\ tasks = {}
  /\ job = [w \in Workers |-> NoTask]
  /\ agenda = [w \in Workers |-> << >>]
  /\ crashes = 0
-----------------------------------------------------------------------------
(* The chain, and the requests for work.                                    *)

Ask(task) ==
  /\ tasks' = tasks \cup {task}
  /\ UNCHANGED <<chain, row, processed, announced, job, agenda, crashes>>

NodeAccepts(tx) ==
  /\ tx \notin net
  /\ \A c \in ToSet(Inputs[tx]) : Creator(c) \in net
  /\ net' = net \cup {tx}
  /\ UNCHANGED <<mined, row, processed, announced, tasks, job, agenda, crashes>>

Mine(tx) ==
  /\ tx \in net \ mined
  /\ \A c \in ToSet(Inputs[tx]) : Creator(c) \in mined
  /\ mined' = mined \cup {tx}
  /\ UNCHANGED <<net, row, processed, announced, tasks, job, agenda, crashes>>

\* The node publishes a transaction when it enters the mempool and again
\* with its block; the listener looks only at the addresses of its outputs.
OnMessage(tx) ==
  /\ "listener" \in Sources /\ tx \in net
  /\ Ask([kind |-> IF Outputs[tx] # << >> THEN "fast" ELSE "throttled", tx |-> tx])

BroadcastView(tx) ==
  /\ "view" \in Sources /\ tx \in net
  /\ Ask([kind |-> "fast", tx |-> tx])

\* manage_blocks reaches a transaction of a mined block, in no fixed order:
\* in a block a child may precede its parent, and a block may be queued late.
ScanBlock(tx) ==
  /\ "block" \in Sources /\ tx \in mined
  /\ Ask([kind |-> "block", tx |-> tx])

\* A subscription, or a rescan of the wallet.
ScanAddress(a) ==
  /\ "scan" \in Sources
  /\ Ask([kind |-> "scan", addr |-> a])
-----------------------------------------------------------------------------
(* The tasks, as the calls they make.                                       *)

Has(c) == row[c] # "absent"
HasOutput(tx) == \E c \in ToSet(Outputs[tx]) : Has(c)

Saves(cs, spent, ack) ==
  [i \in DOMAIN cs |-> [do |-> "save", coin |-> cs[i], spent |-> spent, ack |-> ack, fresh |-> FALSE]]
SavesOfMissing(cs, ack) ==
  [i \in DOMAIN cs |-> [do |-> "save_missing", coin |-> cs[i], spent |-> FALSE, ack |-> ack, fresh |-> FALSE]]
Mark(tx) == <<[do |-> "mark", tx |-> tx]>>
Histories(tx, immediate) ==
  <<[do |-> IF immediate THEN "histories" ELSE "histories_later", tx |-> tx]>>

\* The node's UTXO set of an address.
NodeUtxos(a) ==
  {c \in Coins : /\ AddressOf[c] = a /\ Creator(c) \in net
                 /\ \A tx \in net : c \notin ToSet(Inputs[tx])}

\* A transaction with a row already is done; one sent with its hex is skipped
\* when it pays nobody and spends nothing known; a throttled one is skipped
\* when a block has it.  parse_tx_wallet_histories ends it: inline or queued.
ProcessMempoolTransaction(tx, immediate) ==
  IF \/ HasOutput(tx)
     \/ immediate /\ Outputs[tx] = << >>
          /\ ~ \E c \in ToSet(Inputs[tx]) : HasOutput(Creator(c))
     \/ ~immediate /\ tx \in mined
  THEN << >>
  ELSE Mark(tx) \o Saves(Inputs[tx], TRUE, TRUE)
         \o Saves(Outputs[tx], FALSE, TRUE) \o Histories(tx, immediate)

SaveTransaction_Silent(tx) ==
  IF HasOutput(tx) THEN << >> ELSE Saves(Outputs[tx], FALSE, FALSE)

SaveTransaction_AsInputs(tx) ==
  IF HasOutput(tx) THEN << >> ELSE Saves(Outputs[tx], TRUE, TRUE)

SaveTransaction_AsCoinbase(tx) ==
  IF HasOutput(tx) \/ Inputs[tx] = << >> THEN << >> ELSE Saves(Outputs[tx], FALSE, TRUE)

\* Block scan: only outputs, and none if the transaction has a row.
SaveTransaction(tx) ==
  IF HasOutput(tx) THEN << >> ELSE Saves(Outputs[tx], FALSE, TRUE)

\* One WalletHistory row of the transaction makes it return at once: whether
\* there is one is left open.
ParseTxWalletHistories(tx) ==
  {<< >>, Mark(tx) \o SavesOfMissing(Inputs[tx], FALSE) \o Saves(Outputs[tx], FALSE, FALSE)}

TransactionPostSaveTask_OwnRow(c) ==
  IF c \in processed THEN << >>
  ELSE Mark(Creator(c)) \o <<[do |-> "processed", coin |-> c]>>

TransactionPostSaveTask_MarksRow(c) ==
  IF c \in processed THEN << >> ELSE Mark(c) \o <<[do |-> "processed", coin |-> c]>>

TransactionPostSaveTask(c) ==
  IF c \in processed THEN << >>
  ELSE Mark(Creator(c)) \o SavesOfMissing(Outputs[Creator(c)], TRUE)
         \o <<[do |-> "processed", coin |-> c]>>

\* The coins of the answer come in any order.
GetBchUtxos(a) == <<[do |-> "list", addr |-> a, left |-> NodeUtxos(a), keep |-> NodeUtxos(a)]>>

Begin(w, task, calls) ==
  /\ tasks' = tasks \ {task}
  /\ agenda' = [agenda EXCEPT ![w] = calls]
  /\ job' = [job EXCEPT ![w] = IF calls = << >> THEN NoTask ELSE task]
  /\ UNCHANGED <<chain, row, processed, announced, crashes>>

\* The broker hands a task out; the queue manage_blocks has one worker.
Start(w, task) ==
  /\ agenda[w] = << >> /\ task \in tasks
  /\ \/ /\ task.kind \in {"fast", "throttled"}
        /\ Begin(w, task, ProcessMempoolTransaction(task.tx, task.kind = "fast"))
     \/ task.kind = "histories" /\ Begin(w, task, Histories(task.tx, TRUE))
     \/ /\ task.kind = "block" /\ \A v \in Workers : job[v].kind # "block"
        /\ Begin(w, task, SaveTransaction(task.tx))
     \/ task.kind = "post" /\ Begin(w, task, TransactionPostSaveTask(task.coin))
     \/ task.kind = "scan" /\ Begin(w, task, GetBchUtxos(task.addr))
-----------------------------------------------------------------------------
(* The calls.  Each takes the first call of the agenda and leaves the rest, *)
(* with the calls it leads to in front.                                     *)

Next1(w) == Head(agenda[w])

Runs(w, do) == agenda[w] # << >> /\ Next1(w).do = do

Continue(w, more) ==
  /\ agenda' = [agenda EXCEPT ![w] = more \o Tail(@)]
  /\ job' = [job EXCEPT ![w] = IF more \o Tail(agenda[w]) = << >> THEN NoTask ELSE @]
  /\ UNCHANGED <<chain, crashes>>

SetRows(cs, flag) == row' = [c \in Coins |-> IF c \in cs /\ Has(c) THEN flag ELSE row[c]]

MarkInputsAsSpent_Outputs(w) ==
  /\ Runs(w, "mark")
  /\ SetRows(ToSet(Outputs[Next1(w).tx]), "spent")
  /\ Continue(w, << >>)
  /\ UNCHANGED <<processed, announced, tasks>>

\* mark_transaction_inputs_as_spent: one UPDATE of the rows there are.
MarkInputsAsSpent(w) ==
  /\ Runs(w, "mark")
  /\ SetRows(ToSet(Inputs[Next1(w).tx]), "spent")
  /\ Continue(w, << >>)
  /\ UNCHANGED <<processed, announced, tasks>>

Wrote(c, ack) == <<[do |-> "commit", coin |-> c, ack |-> ack]>>
Unspend(c) == <<[do |-> "unspend", coin |-> c]>>

\* save_record when there is no row: get_or_create inserts it, and the commit
\* is what others see of it (the unique key makes them wait and find it).
CreateRow(w) ==
  LET call == Next1(w) IN
  /\ Runs(w, "save") /\ ~Has(call.coin)
  /\ row' = [row EXCEPT ![call.coin] = IF call.spent THEN "spent" ELSE "unspent"]
  /\ Continue(w, Wrote(call.coin, call.ack) \o IF call.fresh THEN Unspend(call.coin) ELSE << >>)
  /\ UNCHANGED <<processed, announced, tasks>>

\* save_record when there is one: it is loaded now and saved whole later; the
\* flag is set for an input, and otherwise written back as it was loaded.
LoadRow(w) ==
  LET call == Next1(w) IN
  /\ Runs(w, "save") /\ Has(call.coin)
  /\ Continue(w, <<[do |-> "write", coin |-> call.coin,
                    spent |-> call.spent \/ row[call.coin] = "spent"]>>)
  /\ UNCHANGED <<row, processed, announced, tasks>>

SaveRow_Acknowledged(w) ==
  LET call == Next1(w) IN
  /\ Runs(w, "write")
  /\ SetRows({call.coin}, IF call.spent THEN "spent" ELSE "unspent")
  /\ Continue(w, Wrote(call.coin, TRUE))
  /\ UNCHANGED <<processed, announced, tasks>>

SaveRow(w) ==
  LET call == Next1(w) IN
  /\ Runs(w, "write")
  /\ SetRows({call.coin}, IF call.spent THEN "spent" ELSE "unspent")
  /\ Continue(w, Wrote(call.coin, FALSE))
  /\ UNCHANGED <<processed, announced, tasks>>

\* on_commit queues transaction_post_save_task; process_output then
\* acknowledges a row it created.
Committed(w) ==
  LET call == Next1(w) IN
  /\ Runs(w, "commit")
  /\ tasks' = tasks \cup {[kind |-> "post", coin |-> call.coin]}
  /\ announced' = [announced EXCEPT ![call.coin] = @ + IF call.ack THEN 1 ELSE 0]
  /\ Continue(w, << >>)
  /\ UNCHANGED <<row, processed>>

\* if not txn_check.exists(): process_output(...)
SaveIfMissing(w) ==
  /\ Runs(w, "save_missing")
  /\ Continue(w, IF Has(Next1(w).coin) THEN << >> ELSE <<[Next1(w) EXCEPT !.do = "save"]>>)
  /\ UNCHANGED <<row, processed, announced, tasks>>

Parse(w) ==
  /\ Runs(w, "histories")
  /\ \E calls \in ParseTxWalletHistories(Next1(w).tx) : Continue(w, calls)
  /\ UNCHANGED <<row, processed, announced, tasks>>

ParseLater(w) ==
  /\ Runs(w, "histories_later")
  /\ tasks' = tasks \cup {[kind |-> "histories", tx |-> Next1(w).tx]}
  /\ Continue(w, << >>)
  /\ UNCHANGED <<row, processed, announced>>

\* get_bch_utxos goes through the node's answer, then looks for what is not
\* in it.
ListNext(w) ==
  LET call == Next1(w) IN
  /\ Runs(w, "list")
  /\ \/ \E c \in call.left :
          Continue(w, <<[do |-> "reset", coin |-> c]>> \o Histories(Creator(c), TRUE)
                        \o <<[call EXCEPT !.left = @ \ {c}]>>)
     \/ /\ call.left = {}
        /\ Continue(w, <<[do |-> "sweep", addr |-> call.addr, keep |-> call.keep]>>)
  /\ UNCHANGED <<row, processed, announced, tasks>>

\* get_bch_utxos meets a coin of the node's answer: UPDATE spent=False, or a
\* new row that is then updated too.
ResetRow(w) ==
  LET c == Next1(w).coin IN
  /\ Runs(w, "reset")
  /\ SetRows({c}, "unspent")
  /\ Continue(w, IF Has(c) THEN << >>
       ELSE <<[do |-> "save", coin |-> c, spent |-> FALSE, ack |-> TRUE, fresh |-> TRUE]>>)
  /\ UNCHANGED <<processed, announced, tasks>>

UnspendRow(w) ==
  /\ Runs(w, "unspend")
  /\ SetRows({Next1(w).coin}, "unspent")
  /\ Continue(w, << >>)
  /\ UNCHANGED <<processed, announced, tasks>>

\* get_bch_utxos reads the unspent rows of the address that the node's answer
\* did not list, then updates those still unspent.
ReadUnlisted(w) ==
  LET call == Next1(w) IN
  /\ Runs(w, "sweep")
  /\ Continue(w, <<[do |-> "flag", coins |->
       {c \in Coins : AddressOf[c] = call.addr /\ row[c] = "unspent"} \ call.keep]>>)
  /\ UNCHANGED <<row, processed, announced, tasks>>

FlagUnlisted(w) ==
  /\ Runs(w, "flag")
  /\ SetRows(Next1(w).coins, "spent")
  /\ Continue(w, << >>)
  /\ UNCHANGED <<processed, announced, tasks>>

PostSaveDone(w) ==
  /\ Runs(w, "processed")
  /\ processed' = processed \cup {Next1(w).coin}
  /\ Continue(w, << >>)
  /\ UNCHANGED <<row, announced, tasks>>

Step(w) ==
  \/ MarkInputsAsSpent(w) \/ CreateRow(w) \/ LoadRow(w) \/ SaveRow(w)
  \/ Committed(w) \/ SaveIfMissing(w) \/ Parse(w) \/ ParseLater(w)
  \/ ListNext(w) \/ ResetRow(w) \/ UnspendRow(w) \/ ReadUnlisted(w) \/ FlagUnlisted(w) \/ PostSaveDone(w)

\* A worker process dies: its task, acknowledged late, is lost with a child
\* process or delivered again with the whole worker.
Crash(w) ==
  /\ crashes < MaxCrashes /\ agenda[w] # << >>
  /\ crashes' = crashes + 1
  /\ agenda' = [agenda EXCEPT ![w] = << >>]
  /\ job' = [job EXCEPT ![w] = NoTask]
  /\ tasks' \in {tasks, tasks \cup {job[w]}}
  /\ UNCHANGED <<chain, row, processed, announced>>

Next ==
  \/ \E tx \in Txs : NodeAccepts(tx) \/ Mine(tx) \/ OnMessage(tx) \/ BroadcastView(tx) \/ ScanBlock(tx)
  \/ \E a \in Addresses : ScanAddress(a)
  \/ \E w \in Workers : (\E task \in tasks : Start(w, task)) \/ Step(w) \/ Crash(w)

Spec == Init /\ [][Next]_vars

\* The tasks that the recording of a mined transaction waits for.
OwedTask == [kind : {"block"}, tx : Txs] \cup [kind : {"post"}, coin : Coins]

\* Those queues deliver, workers run, and manage_blocks gets to every block.
FairSpec ==
  /\ Spec
  /\ \A w \in Workers : WF_vars(Step(w))
  /\ \A task \in OwedTask : SF_vars(\E w \in Workers : Start(w, task))
  /\ \A tx \in Txs : WF_vars(ScanBlock(tx))
-----------------------------------------------------------------------------
(* Properties.                                                              *)

\* No path flags a coin the node still lists (tasks.py 459 takes a flag to
\* mean just that): without address scans, however tasks overlap or die.
SpentRowsAreSpent ==
  \A c \in Coins : row[c] = "spent" => \E tx \in net : c \in ToSet(Inputs[tx])

\* Of the paths that meet an output, exactly one creates its row, and it
\* alone tells the subscribers: no payment is reported twice.
AnnouncedOnce == \A c \in Coins : announced[c] <= 1

Idle == tasks = {} /\ \A w \in Workers : agenda[w] = << >>

\* When nothing is left to do, every recorded coin has been reported but for
\* at most one per worker killed, without address scans: the path that finds
\* the row made tells nobody, and a kill loses no more than the report then due.
RecordedIsAnnounced ==
  Idle => Cardinality({c \in Coins : Has(c) /\ announced[c] = 0}) <= crashes

\* When nothing is left to do, a transaction is indexed whole or not at all but
\* for at most one per worker killed, though every path skips one that has a
\* row already.
IndexedWhole ==
  Idle => Cardinality({tx \in Txs : HasOutput(tx) /\ \E c \in ToSet(Outputs[tx]) : ~ Has(c)}) <= crashes

\* What the chain has done with a coin.
Fate(c) ==
  IF \A tx \in net : c \notin ToSet(Outputs[tx]) THEN "unknown"
  ELSE IF \E tx \in net : c \in ToSet(Inputs[tx]) THEN "gone" ELSE "live"

Ledger == INSTANCE CoinLedger WITH fate <- [c \in Coins |-> Fate(c)], reports <- announced

\* Without address scans the index implements CoinLedger: whatever tasks
\* overlap, run twice or die between two calls, a row is made once and of a
\* coin there is, stays, is flagged only when the coin is gone, and is
\* reported at most once, after it is there.
LedgerSpec == Ledger!Spec

\* save_record never undoes a spent flag (its comment, tasks.py 457-459).
SpentStaysSpent == [][\A c \in Coins : row[c] = "spent" => row'[c] = "spent"]_vars

\* Every output of a mined transaction is recorded in the end.
MinedIsRecorded ==
  \A tx \in Txs : \A c \in ToSet(Outputs[tx]) : tx \in mined ~> Has(c)
=============================================================================
