-------------------------- MODULE UtxoIndexProofs --------------------------
(***************************************************************************)
(* Proofs about UtxoIndex.  The invariant IInv says of every task and every *)
(* call still to be made that it is about a transaction or coin the node    *)
(* has (Shape, over GoodCall and GoodTask), that a call which will set a    *)
(* spent flag is of a coin that is gone (GoodCall again, with Flags), and   *)
(* that the report of a row is owed by the worker that created it and by no *)
(* other (Reports).  Each action keeps Shape and Reports and changes the    *)
(* rows only as RowStep says, from which the flags and the refinement       *)
(* follow.  Who will report a row or save the other outputs of its          *)
(* transaction is the second invariant: no call comes before the rows it    *)
(* awaits (Prepared), the rows a worker has in hand are of one transaction  *)
(* (OneJob), so that a kill forgets one transaction and one report (Owed).  *)
(***************************************************************************)
EXTENDS UtxoIndex, SequenceTheorems, FiniteSetTheorems, TLAPS

-----------------------------------------------------------------------------
(* Sequences of calls.                                                      *)

LEMMA OneCall ==
  ASSUME NEW S, NEW e \in S
  PROVE  /\ <<e>> \in Seq(S) /\ <<e>> # << >>
         /\ Head(<<e>>) = e /\ Tail(<<e>>) = << >>
  OBVIOUS

\* Calls put in front of the others, where all but the first are of T.
LEMMA InFront ==
  ASSUME NEW S, NEW T, T \subseteq S,
         NEW more \in Seq(S), more # << >> => Tail(more) \in Seq(T),
         NEW rest \in Seq(T)
  PROVE  /\ more \o rest \in Seq(S)
         /\ more \o rest # << >> => Tail(more \o rest) \in Seq(T)
         /\ more # << >> => more \o rest # << >> /\ Head(more \o rest) = Head(more)
         /\ more = << >> => more \o rest = rest
<1>1. rest \in Seq(S)
  BY SeqMonotonic
<1>2. more \o rest \in Seq(S)
  BY <1>1, ConcatProperties
<1>3. CASE more = << >>
  <2>1. more \o rest = rest
    BY <1>3, ConcatEmptySeq
  <2>2. rest # << >> => Tail(rest) \in Seq(T)
    BY HeadTailProperties
  <2> QED
    BY <1>2, <1>3, <2>1, <2>2
<1>4. CASE more # << >>
  <2> DEFINE all == more \o rest
  <2>1. Len(more) \in Nat \ {0} /\ Len(rest) \in Nat
    BY <1>4, EmptySeq, LenProperties
  <2>2. /\ all \in Seq(S) /\ Len(all) = Len(more) + Len(rest)
        /\ \A i \in 1..Len(all) : all[i] = IF i <= Len(more) THEN more[i] ELSE rest[i - Len(more)]
    BY <1>1, ConcatProperties
  <2>3. all # << >>
    BY <2>1, <2>2, EmptySeq
  <2>4. Head(all) = Head(more)
    BY <2>1, <2>2
  <2>5. Tail(more) \in Seq(T) /\ Len(Tail(more)) = Len(more) - 1
        /\ \A i \in 1..Len(Tail(more)) : Tail(more)[i] = more[i + 1]
    BY <1>4, HeadTailProperties
  <2>6. Tail(all) \in Seq(S) /\ Len(Tail(all)) = Len(all) - 1
        /\ \A i \in 1..Len(Tail(all)) : Tail(all)[i] = all[i + 1]
    BY <2>2, <2>3, HeadTailProperties
  <2>7. Tail(more) \o rest \in Seq(T)
    BY <2>5, ConcatProperties
  <2>8. ASSUME NEW i \in 1..Len(Tail(all)) PROVE Tail(all)[i] \in T
    <3>1. Tail(all)[i] = all[i + 1] /\ i + 1 \in 1..Len(all) /\ i \in Nat
      BY <2>1, <2>2, <2>6
    <3>2. CASE i + 1 <= Len(more)
      <4>1. Tail(all)[i] = Tail(more)[i] /\ i \in 1..Len(Tail(more))
        BY <3>1, <3>2, <2>1, <2>2, <2>5
      <4> QED
        BY <4>1, <2>5, ElementOfSeq
    <3>3. CASE ~ (i + 1 <= Len(more))
      <4>1. Tail(all)[i] = rest[i + 1 - Len(more)] /\ i + 1 - Len(more) \in 1..Len(rest)
        BY <3>1, <3>3, <2>1, <2>2
      <4> QED
        BY <4>1, ElementOfSeq
    <3> QED
      BY <3>2, <3>3
  <2>9. Tail(all) \in Seq(T)
    <3> DEFINE n == Len(Tail(all))
    <3>1. n \in Nat /\ Tail(all) \in [1..n -> S] /\ DOMAIN Tail(all) = 1..n
      BY <2>6, LenProperties
    <3>2. Tail(all) \in [1..n -> T]
      BY <3>1, <2>8
    <3> QED
      BY <3>1, <3>2, SeqDef
  <2> QED
    BY <1>4, <2>2, <2>3, <2>4, <2>9
<1> QED
  BY <1>3, <1>4
-----------------------------------------------------------------------------
(* The chain.                                                               *)

Gone(N, c) == \E tx \in N : c \in ToSet(Inputs[tx])
NoScan == "scan" \notin Sources

\* What the node knows is closed under parents.
Closed(N) == \A tx \in N : \A c \in ToSet(Inputs[tx]) : Creator(c) \in N

LEMMA CoinsOf ==
  ASSUME NEW tx \in Txs
  PROVE  /\ Outputs[tx] \in Seq(Coins) /\ Inputs[tx] \in Seq(Coins)
         /\ ToSet(Outputs[tx]) \subseteq Coins /\ ToSet(Inputs[tx]) \subseteq Coins
<1>1. Outputs[tx] \in Seq(Coins) /\ Inputs[tx] \in Seq(Coins)
  BY TopologyAssumption
<1> QED
  BY <1>1, LenProperties, ElementOfSeq DEF ToSet

LEMMA CreatorExists ==
  ASSUME NEW c \in Coins
  PROVE  Creator(c) \in Txs /\ c \in ToSet(Outputs[Creator(c)])
<1>1. \E tx \in Txs : c \in ToSet(Outputs[tx])
  BY TopologyAssumption
<1> QED
  BY <1>1 DEF Creator

LEMMA CreatorOfOutput ==
  ASSUME NEW tx \in Txs, NEW c \in ToSet(Outputs[tx])
  PROVE  c \in Coins /\ Creator(c) = tx
<1>1. c \in Coins
  BY CoinsOf
<1>2. Creator(c) \in Txs /\ c \in ToSet(Outputs[Creator(c)])
  BY <1>1, CreatorExists
<1>3. Creator(c) # tx => ToSet(Outputs[tx]) \cap ToSet(Outputs[Creator(c)]) = {}
  BY <1>2, TopologyAssumption
<1> QED
  BY <1>1, <1>2, <1>3
-----------------------------------------------------------------------------
(* What tasks and calls may be about, once the node knows N.                *)

\* A call is of a transaction or coin the node has; one that will set a
\* flag is of a coin that is gone, and only address scans compare lists.
GoodCall(N, call) ==
  /\ call.do \in {"mark", "histories", "histories_later"} => call.tx \in N
  /\ call.do \in {"save", "save_missing", "write", "commit", "reset"} => Creator(call.coin) \in N
  /\ NoScan /\ call.do \in {"save", "save_missing", "write"} /\ call.spent => Gone(N, call.coin)
  /\ call.do = "list" => \A c \in call.left : Creator(c) \in N
  /\ NoScan => call.do \notin {"list", "sweep", "flag"}

Good(N) == {call \in Call : GoodCall(N, call)}

\* All but the one that commits a row, which comes first on an agenda.
Quiet(N) == {call \in Good(N) : call.do # "commit"}

GoodTask(N, t) ==
  /\ t.kind \in {"fast", "throttled", "histories", "block"} => t.tx \in N
  /\ t.kind = "post" => Creator(t.coin) \in N
  /\ NoScan => t.kind # "scan"

GoodTasks(N) == {t \in Task : GoodTask(N, t)}

LEMMA GoodStays ==
  ASSUME NEW N, NEW M, N \subseteq M
  PROVE  Good(N) \subseteq Good(M) /\ Quiet(N) \subseteq Quiet(M) /\ GoodTasks(N) \subseteq GoodTasks(M)
  BY DEF Good, Quiet, GoodTasks, GoodCall, GoodTask, Gone

\* The fields of a call.
LEMMA CallFields ==
  ASSUME NEW call \in Call
  PROVE  /\ call.do \in {"mark", "histories", "histories_later"} => call.tx \in Txs
         /\ call.do \in {"save", "save_missing"} =>
              call \in [do : {"save", "save_missing"}, coin : Coins, spent : BOOLEAN, ack : BOOLEAN, fresh : BOOLEAN]
         /\ call.do = "write" => call.coin \in Coins /\ call.spent \in BOOLEAN
         /\ call.do = "commit" => call.coin \in Coins /\ call.ack \in BOOLEAN
         /\ call.do \in {"reset", "unspend", "processed"} => call.coin \in Coins
         /\ call.do = "list" =>
              call \in [do : {"list"}, addr : Addresses, left : SUBSET Coins, keep : SUBSET Coins]
         /\ call.do = "sweep" => call.addr \in Addresses /\ call.keep \in SUBSET Coins
         /\ call.do = "flag" => call.coins \in SUBSET Coins
  BY DEF Call

LEMMA TaskFields ==
  ASSUME NEW t \in Task
  PROVE  /\ t.kind \in {"fast", "throttled", "histories", "block"} => t.tx \in Txs
         /\ t.kind = "post" => t.coin \in Coins
         /\ t.kind = "scan" => t.addr \in Addresses
  BY DEF Task

LEMMA SaveIsGood ==
  ASSUME NEW N, NEW c \in Coins, Creator(c) \in N,
         NEW spent \in BOOLEAN, NEW ack \in BOOLEAN, NEW fresh \in BOOLEAN,
         NEW do \in {"save", "save_missing"}, spent => Gone(N, c)
  PROVE  [do |-> do, coin |-> c, spent |-> spent, ack |-> ack, fresh |-> fresh] \in Quiet(N)
<1> DEFINE call == [do |-> do, coin |-> c, spent |-> spent, ack |-> ack, fresh |-> fresh]
<1>1. call \in Call
  BY DEF Call
<1>2. GoodCall(N, call)
  BY DEF GoodCall
<1> QED
  BY <1>1, <1>2 DEF Good, Quiet

LEMMA SavesAreGood ==
  ASSUME NEW N, NEW cs \in Seq(Coins), \A c \in ToSet(cs) : Creator(c) \in N,
         NEW spent \in BOOLEAN, NEW ack \in BOOLEAN, spent => \A c \in ToSet(cs) : Gone(N, c)
  PROVE  Saves(cs, spent, ack) \in Seq(Quiet(N)) /\ SavesOfMissing(cs, ack) \in Seq(Quiet(N))
<1>1. Len(cs) \in Nat /\ DOMAIN cs = 1..Len(cs) /\ \A i \in 1..Len(cs) : cs[i] \in Coins /\ cs[i] \in ToSet(cs)
  BY LenProperties, ElementOfSeq DEF ToSet
<1>2. \A i \in 1..Len(cs) :
        /\ [do |-> "save", coin |-> cs[i], spent |-> spent, ack |-> ack, fresh |-> FALSE] \in Quiet(N)
        /\ [do |-> "save_missing", coin |-> cs[i], spent |-> FALSE, ack |-> ack, fresh |-> FALSE] \in Quiet(N)
  BY <1>1, SaveIsGood
<1>3. Saves(cs, spent, ack) \in [1..Len(cs) -> Quiet(N)]
  BY <1>1, <1>2 DEF Saves
<1>4. SavesOfMissing(cs, ack) \in [1..Len(cs) -> Quiet(N)]
  BY <1>1, <1>2 DEF SavesOfMissing
<1> QED
  BY <1>1, <1>3, <1>4, SeqDef

LEMMA MarkIsGood ==
  ASSUME NEW N, NEW tx \in Txs, tx \in N
  PROVE  /\ Mark(tx) \in Seq(Quiet(N))
         /\ \A immediate \in BOOLEAN : Histories(tx, immediate) \in Seq(Quiet(N))
<1>1. \A do \in {"mark", "histories", "histories_later"} : [do |-> do, tx |-> tx] \in Quiet(N)
  BY DEF Call, Quiet, Good, GoodCall
<1> QED
  BY <1>1, OneCall DEF Mark, Histories
-----------------------------------------------------------------------------
(* The tasks are made of such calls.                                        *)

\* What the lists of calls below are put together from.
LEMMA PartsAreGood ==
  ASSUME net \subseteq Txs, Closed(net), NEW tx \in net
  PROVE  /\ << >> \in Seq(Quiet(net))
         /\ Mark(tx) \in Seq(Quiet(net))
         /\ \A immediate \in BOOLEAN : Histories(tx, immediate) \in Seq(Quiet(net))
         /\ \A ack \in BOOLEAN :
              /\ Saves(Inputs[tx], TRUE, ack) \in Seq(Quiet(net))
              /\ SavesOfMissing(Inputs[tx], ack) \in Seq(Quiet(net))
              /\ Saves(Outputs[tx], FALSE, ack) \in Seq(Quiet(net))
              /\ SavesOfMissing(Outputs[tx], ack) \in Seq(Quiet(net))
<1>1. tx \in Txs /\ Outputs[tx] \in Seq(Coins) /\ Inputs[tx] \in Seq(Coins)
  BY CoinsOf
<1>2. \A c \in ToSet(Inputs[tx]) : Creator(c) \in net /\ Gone(net, c)
  BY DEF Closed, Gone
<1>3. \A c \in ToSet(Outputs[tx]) : Creator(c) \in net
  BY <1>1, CreatorOfOutput
<1>4. \A ack \in BOOLEAN : /\ Saves(Inputs[tx], TRUE, ack) \in Seq(Quiet(net))
                           /\ SavesOfMissing(Inputs[tx], ack) \in Seq(Quiet(net))
  BY <1>1, <1>2, SavesAreGood
<1>5. \A ack \in BOOLEAN : /\ Saves(Outputs[tx], FALSE, ack) \in Seq(Quiet(net))
                           /\ SavesOfMissing(Outputs[tx], ack) \in Seq(Quiet(net))
  BY <1>1, <1>3, SavesAreGood
<1> QED
  BY <1>1, <1>4, <1>5, MarkIsGood, EmptySeq

LEMMA ProgramsAreGood ==
  ASSUME net \subseteq Txs, Closed(net), NEW tx \in net
  PROVE  /\ \A immediate \in BOOLEAN : ProcessMempoolTransaction(tx, immediate) \in Seq(Quiet(net))
         /\ SaveTransaction(tx) \in Seq(Quiet(net))
         /\ \A calls \in ParseTxWalletHistories(tx) : calls \in Seq(Quiet(net))
         /\ Histories(tx, TRUE) \in Seq(Quiet(net))
<1> DEFINE S == Seq(Quiet(net))
<1>1. \A s, t \in S : s \o t \in S
  BY ConcatProperties
<1>2. ASSUME NEW immediate \in BOOLEAN PROVE ProcessMempoolTransaction(tx, immediate) \in S
  <2> DEFINE mark == Mark(tx)  spends == Saves(Inputs[tx], TRUE, TRUE)
             pays == Saves(Outputs[tx], FALSE, TRUE)  rest == Histories(tx, immediate)
  <2>1. mark \in S /\ spends \in S /\ pays \in S /\ rest \in S /\ << >> \in S
    BY PartsAreGood
  <2> HIDE DEF mark, spends, pays, rest, S
  <2>2. mark \o spends \o pays \o rest \in S
    BY <1>1, <2>1
  <2> QED
    BY <2>1, <2>2 DEF ProcessMempoolTransaction, mark, spends, pays, rest
<1>3. SaveTransaction(tx) \in S
  BY PartsAreGood DEF SaveTransaction
<1>4. ASSUME NEW calls \in ParseTxWalletHistories(tx) PROVE calls \in S
  <2> DEFINE mark == Mark(tx)  spends == SavesOfMissing(Inputs[tx], FALSE)
             pays == Saves(Outputs[tx], FALSE, FALSE)
  <2>1. mark \in S /\ spends \in S /\ pays \in S /\ << >> \in S
    BY PartsAreGood
  <2> HIDE DEF mark, spends, pays, S
  <2>2. mark \o spends \o pays \in S
    BY <1>1, <2>1
  <2> QED
    BY <2>1, <2>2 DEF ParseTxWalletHistories, mark, spends, pays
<1> QED
  BY <1>2, <1>3, <1>4, PartsAreGood

LEMMA PostSaveIsGood ==
  ASSUME net \subseteq Txs, Closed(net), NEW c \in Coins, Creator(c) \in net
  PROVE  TransactionPostSaveTask(c) \in Seq(Quiet(net))
<1> DEFINE S == Seq(Quiet(net))
           mark == Mark(Creator(c))  pays == SavesOfMissing(Outputs[Creator(c)], TRUE)
           last == <<[do |-> "processed", coin |-> c]>>
<1>1. \A s, t \in S : s \o t \in S
  BY ConcatProperties
<1>2. mark \in S /\ pays \in S /\ << >> \in S
  BY PartsAreGood
<1>3. [do |-> "processed", coin |-> c] \in Quiet(net)
  BY DEF Call, Quiet, Good, GoodCall
<1>4. last \in S
  BY <1>3, OneCall
<1> HIDE DEF S, mark, pays, last
<1>5. mark \o pays \o last \in S
  BY <1>1, <1>2, <1>4
<1> QED
  BY <1>2, <1>5 DEF TransactionPostSaveTask, mark, pays, last, S

LEMMA ScanIsGood ==
  ASSUME NEW a \in Addresses, ~ NoScan
  PROVE  GetBchUtxos(a) \in Seq(Quiet(net))
<1> DEFINE call == [do |-> "list", addr |-> a, left |-> NodeUtxos(a), keep |-> NodeUtxos(a)]
<1>1. NodeUtxos(a) \in SUBSET Coins /\ \A c \in NodeUtxos(a) : Creator(c) \in net
  BY DEF NodeUtxos
<1>2. call \in Call
  BY <1>1 DEF Call
<1>3. GoodCall(net, call)
  BY <1>1 DEF GoodCall
<1> QED
  BY <1>2, <1>3, OneCall DEF GetBchUtxos, Quiet, Good
-----------------------------------------------------------------------------
(* The inductive invariant.                                                 *)

\* All calls of an agenda are good, and only the first may be a commit.
AgendaOK(N, list) ==
  /\ list \in Seq(Good(N))
  /\ list # << >> => Tail(list) \in Seq(Quiet(N))

Shape ==
  /\ net \subseteq Txs /\ mined \subseteq net /\ Closed(net)
  /\ row \in [Coins -> {"absent", "unspent", "spent"}]
  /\ processed \subseteq Coins
  /\ tasks \subseteq GoodTasks(net)
  /\ job \in [Workers -> GoodTasks(net) \cup {NoTask}]
  /\ agenda \in [Workers -> Seq(Good(net))]
  /\ \A w \in Workers : AgendaOK(net, agenda[w])
  /\ \A w \in Workers : agenda[w] # << >> => job[w] \in GoodTasks(net)

\* Worker w is about to commit the row of c that it created, and to report it.
Owes(w, c) ==
  /\ agenda[w] # << >>
  /\ Head(agenda[w]).do = "commit" /\ Head(agenda[w]).coin = c /\ Head(agenda[w]).ack

\* What was reported has a row, and who still owes the report of a coin is
\* the only one, and nobody has made it.
Reports ==
  /\ announced \in [Coins -> 0..1]
  /\ \A c \in Coins : row[c] = "absent" => announced[c] = 0 /\ \A w \in Workers : ~ Owes(w, c)
  /\ \A c \in Coins, w \in Workers : Owes(w, c) =>
       announced[c] = 0 /\ \A v \in Workers : Owes(v, c) => v = w

Flags == NoScan => SpentRowsAreSpent

IInv == Shape /\ Reports /\ Flags /\ crashes \in 0..MaxCrashes

\* How a step may change the rows.
RowStep ==
  \/ row' = row
  \/ \E c \in Coins :
       /\ row[c] = "absent" /\ Creator(c) \in net
       /\ \/ row' = [row EXCEPT ![c] = "unspent"]
          \/ (NoScan => Gone(net, c)) /\ row' = [row EXCEPT ![c] = "spent"]
  \/ \E cs \in SUBSET Coins :
       /\ \A c \in cs : row[c] # "absent" /\ (NoScan => Gone(net, c))
       /\ row' = [c \in Coins |-> IF c \in cs THEN "spent" ELSE row[c]]
  \/ \E c \in Coins : row[c] = "spent" /\ row' = [row EXCEPT ![c] = "unspent"]

\* The head of an agenda.
LEMMA HeadIsGood ==
  ASSUME Shape, NEW w \in Workers, agenda[w] # << >>
  PROVE  /\ Next1(w) \in Call /\ GoodCall(net, Next1(w))
         /\ Tail(agenda[w]) \in Seq(Quiet(net))
<1>1. agenda[w] \in Seq(Good(net))
  BY DEF Shape
<1>2. Head(agenda[w]) \in Good(net)
  BY <1>1, HeadTailProperties
<1> QED
  BY <1>2 DEF Shape, AgendaOK, Next1, Good

\* A worker that goes on with the calls `more` in front.
LEMMA ContinueKeepsAgendas ==
  ASSUME Shape, NEW w \in Workers, agenda[w] # << >>,
         NEW more \in Seq(Good(net)), more # << >> => Tail(more) \in Seq(Quiet(net)),
         Continue(w, more)
  PROVE  /\ net' = net /\ mined' = mined /\ crashes' = crashes
         /\ (agenda \in [Workers -> Seq(Good(net))])'
         /\ (\A v \in Workers : AgendaOK(net, agenda[v]))'
         /\ (job \in [Workers -> GoodTasks(net) \cup {NoTask}])'
         /\ (\A v \in Workers : agenda[v] # << >> => job[v] \in GoodTasks(net))'
         /\ \A v \in Workers : v # w => agenda'[v] = agenda[v]
         /\ more # << >> => agenda'[w] # << >> /\ Head(agenda'[w]) = Head(more)
         /\ more = << >> => agenda'[w] = Tail(agenda[w])
<1> DEFINE rest == Tail(agenda[w])  all == more \o rest
<1>1. Quiet(net) \subseteq Good(net) /\ rest \in Seq(Quiet(net))
  BY HeadIsGood DEF Quiet
<1>2. /\ all \in Seq(Good(net))
      /\ all # << >> => Tail(all) \in Seq(Quiet(net))
      /\ more # << >> => all # << >> /\ Head(all) = Head(more)
      /\ more = << >> => all = rest
  BY <1>1, InFront
<1>3. /\ agenda' = [agenda EXCEPT ![w] = all]
      /\ job' = [job EXCEPT ![w] = IF all = << >> THEN NoTask ELSE job[w]]
      /\ net' = net /\ mined' = mined /\ crashes' = crashes
  BY DEF Continue, chain, Shape
<1> HIDE DEF all, rest
<1>4. agenda' \in [Workers -> Seq(Good(net))] /\ agenda'[w] = all
      /\ \A v \in Workers : v # w => agenda'[v] = agenda[v]
  BY <1>2, <1>3 DEF Shape
<1>5. \A v \in Workers : AgendaOK(net, agenda'[v])
  BY <1>2, <1>4 DEF Shape, AgendaOK
<1>6. /\ job' \in [Workers -> GoodTasks(net) \cup {NoTask}]
      /\ \A v \in Workers : agenda'[v] # << >> => job'[v] \in GoodTasks(net)
  BY <1>3, <1>4 DEF Shape
<1> QED
  BY <1>2, <1>3, <1>4, <1>5, <1>6 DEF rest

\* Nobody owes a report that was not owed before.
LEMMA QuietOwesNothing ==
  ASSUME Shape, NEW w \in Workers, agenda[w] # << >>,
         NEW more \in Seq(Quiet(net)), Continue(w, more)
  PROVE  \A c \in Coins, v \in Workers : Owes(v, c)' => v # w /\ Owes(v, c)
<1>1. Quiet(net) \subseteq Good(net)
  BY DEF Quiet
<1>2. more \in Seq(Good(net)) /\ (more # << >> => Head(more) \in Quiet(net) /\ Tail(more) \in Seq(Quiet(net)))
  BY <1>1, SeqMonotonic, HeadTailProperties
<1>3. /\ \A v \in Workers : v # w => agenda'[v] = agenda[v]
      /\ more # << >> => Head(agenda'[w]) = Head(more)
      /\ more = << >> => agenda'[w] = Tail(agenda[w])
  BY <1>2, ContinueKeepsAgendas
<1>4. Tail(agenda[w]) \in Seq(Quiet(net))
  BY HeadIsGood
<1>5. agenda'[w] # << >> => Head(agenda'[w]) \in Quiet(net)
  BY <1>2, <1>3, <1>4, HeadTailProperties
<1>6. \A c \in Coins : ~ Owes(w, c)'
  BY <1>5 DEF Owes, Quiet
<1> QED
  BY <1>3, <1>6 DEF Owes

\* Any step of a worker that neither creates a row nor commits one.
LEMMA QuietStep ==
  ASSUME Shape, Reports, NEW w \in Workers, agenda[w] # << >>,
         NEW more \in Seq(Quiet(net)), Continue(w, more),
         row' \in [Coins -> {"absent", "unspent", "spent"}],
         \A c \in Coins : row'[c] = "absent" => row[c] = "absent",
         announced' = announced, processed' \subseteq Coins, tasks' \subseteq GoodTasks(net)
  PROVE  Shape' /\ Reports'
<1>1. more \in Seq(Good(net)) /\ (more # << >> => Tail(more) \in Seq(Quiet(net)))
  <2>1. Quiet(net) \subseteq Good(net)
    BY DEF Quiet
  <2> QED
    BY <2>1, SeqMonotonic, HeadTailProperties
<1>2. Shape'
  BY <1>1, ContinueKeepsAgendas DEF Shape
<1>3. \A c \in Coins, v \in Workers : Owes(v, c)' => Owes(v, c)
  BY QuietOwesNothing
<1>4. Reports'
  BY <1>3 DEF Reports
<1> QED
  BY <1>2, <1>4
-----------------------------------------------------------------------------
(* The calls.                                                               *)

LEMMA SetRowsKeepsRows ==
  ASSUME Shape, NEW cs \in SUBSET Coins, NEW flag \in {"spent", "unspent"}, SetRows(cs, flag)
  PROVE  /\ row' \in [Coins -> {"absent", "unspent", "spent"}]
         /\ \A c \in Coins : row'[c] = "absent" => row[c] = "absent"
  BY DEF Shape, SetRows, Has

LEMMA FlagIsRowStep ==
  ASSUME Shape, NEW cs \in SUBSET Coins, SetRows(cs, "spent"),
         NoScan => \A c \in cs : Gone(net, c)
  PROVE  RowStep
<1> DEFINE there == {c \in cs : row[c] # "absent"}
<1>1. /\ there \in SUBSET Coins
      /\ \A c \in there : row[c] # "absent" /\ (NoScan => Gone(net, c))
  OBVIOUS
<1>2. row' = [c \in Coins |-> IF c \in there THEN "spent" ELSE row[c]]
  BY DEF SetRows, Has
<1> HIDE DEF there
<1> QED
  BY <1>1, <1>2 DEF RowStep

LEMMA UnflagIsRowStep ==
  ASSUME Shape, NEW c \in Coins, SetRows({c}, "unspent")
  PROVE  RowStep
<1>1. CASE row[c] = "spent"
  <2>1. row' = [row EXCEPT ![c] = "unspent"]
    BY <1>1 DEF SetRows, Has, Shape
  <2> QED
    BY <1>1, <2>1 DEF RowStep
<1>2. CASE row[c] # "spent"
  <2>1. row' = row
    BY <1>2 DEF SetRows, Has, Shape
  <2> QED
    BY <2>1 DEF RowStep
<1> QED
  BY <1>1, <1>2

\* What a call may change of the chain, the rows and the reports.
ReportStep ==
  /\ row' = row
  /\ \E c \in Coins : row[c] # "absent" /\ announced[c] = 0 /\ announced' = [announced EXCEPT ![c] = 1]

Keeps == Shape' /\ Reports' /\ crashes' = crashes
CallStep == net' = net /\ ((RowStep /\ announced' = announced) \/ ReportStep)

LEMMA QuietCall ==
  ASSUME Shape, Reports, NEW w \in Workers, agenda[w] # << >>,
         NEW more \in Seq(Quiet(net)), Continue(w, more),
         row' \in [Coins -> {"absent", "unspent", "spent"}],
         \A c \in Coins : row'[c] = "absent" => row[c] = "absent",
         RowStep, UNCHANGED announced, processed' \subseteq Coins, tasks' \subseteq GoodTasks(net)
  PROVE  Keeps /\ CallStep
<1>1. Shape' /\ Reports'
  BY QuietStep
<1>2. net' = net /\ crashes' = crashes
  BY DEF Continue, chain
<1> QED
  BY <1>1, <1>2 DEF Keeps, CallStep

LEMMA NothingIsQuiet ==
  ASSUME NEW N
  PROVE  << >> \in Seq(Quiet(N))
  BY EmptySeq

LEMMA MarkInputsAsSpentKeeps ==
  ASSUME Shape, Reports, NEW w \in Workers, MarkInputsAsSpent(w)
  PROVE  Keeps /\ CallStep
<1> DEFINE tx == Next1(w).tx  cs == ToSet(Inputs[tx])
<1>1. agenda[w] # << >> /\ Next1(w).do = "mark"
  BY DEF MarkInputsAsSpent, Runs
<1>2. tx \in Txs /\ tx \in net
  BY <1>1, HeadIsGood, CallFields DEF GoodCall
<1>3. cs \in SUBSET Coins /\ \A c \in cs : Gone(net, c)
  BY <1>2, CoinsOf DEF Gone
<1>4. SetRows(cs, "spent") /\ Continue(w, << >>) /\ UNCHANGED <<processed, announced, tasks>>
  BY DEF MarkInputsAsSpent
<1> HIDE DEF tx, cs
<1>5. RowStep
  BY <1>3, <1>4, FlagIsRowStep
<1>6. processed' \subseteq Coins /\ tasks' \subseteq GoodTasks(net)
  BY <1>4 DEF Shape
<1> QED
  BY <1>1, <1>3, <1>4, <1>5, <1>6, SetRowsKeepsRows, NothingIsQuiet, QuietCall

\* A call that changes neither rows nor reports.
LEMMA ReadingCall ==
  ASSUME Shape, Reports, NEW w \in Workers, agenda[w] # << >>,
         NEW more \in Seq(Quiet(net)), Continue(w, more),
         UNCHANGED <<row, announced>>, processed' \subseteq Coins, tasks' \subseteq GoodTasks(net)
  PROVE  Keeps /\ CallStep
<1>1. row' = row /\ RowStep /\ row' \in [Coins -> {"absent", "unspent", "spent"}]
  BY DEF RowStep, Shape
<1> QED
  BY <1>1, QuietCall

LEMMA LoadRowKeeps ==
  ASSUME Shape, Reports, Flags, NEW w \in Workers, LoadRow(w)
  PROVE  Keeps /\ CallStep
<1> DEFINE call == Next1(w)
           spent == call.spent \/ row[call.coin] = "spent"
           write == [do |-> "write", coin |-> call.coin, spent |-> spent]
<1>1. agenda[w] # << >> /\ call.do = "save" /\ Has(call.coin)
  BY DEF LoadRow, Runs
<1>2. call.coin \in Coins /\ call.spent \in BOOLEAN /\ Creator(call.coin) \in net
      /\ (NoScan /\ call.spent => Gone(net, call.coin))
  BY <1>1, HeadIsGood, CallFields DEF GoodCall
<1>3. Continue(w, <<write>>) /\ UNCHANGED <<row, processed, announced, tasks>>
  BY DEF LoadRow
<1>4. NoScan /\ spent => Gone(net, call.coin)
  BY <1>2 DEF Flags, SpentRowsAreSpent, Gone
<1>5. spent \in BOOLEAN
  OBVIOUS
<1> HIDE DEF spent, call
<1>6. write \in Call /\ GoodCall(net, write) /\ write.do # "commit"
  BY <1>2, <1>4, <1>5 DEF Call, GoodCall
<1>7. write \in Quiet(net)
  BY <1>6 DEF Quiet, Good
<1>8. <<write>> \in Seq(Quiet(net))
  BY <1>7, OneCall
<1>9. processed' \subseteq Coins /\ tasks' \subseteq GoodTasks(net)
  BY <1>3 DEF Shape
<1> QED
  BY <1>1, <1>3, <1>8, <1>9, ReadingCall

LEMMA SaveRowKeeps ==
  ASSUME Shape, Reports, NEW w \in Workers, SaveRow(w)
  PROVE  Keeps /\ CallStep
<1> DEFINE call == Next1(w)  more == Wrote(call.coin, FALSE)
           flag == IF call.spent THEN "spent" ELSE "unspent"
<1>1. agenda[w] # << >> /\ call.do = "write"
  BY DEF SaveRow, Runs
<1>2. call.coin \in Coins /\ call.spent \in BOOLEAN /\ Creator(call.coin) \in net
      /\ (NoScan /\ call.spent => Gone(net, call.coin))
  BY <1>1, HeadIsGood, CallFields DEF GoodCall
<1>3. SetRows({call.coin}, flag) /\ Continue(w, more) /\ UNCHANGED <<processed, announced, tasks>>
  BY DEF SaveRow
<1> HIDE DEF call
<1>4. [do |-> "commit", coin |-> call.coin, ack |-> FALSE] \in Good(net)
  BY <1>2 DEF Good, GoodCall, Call
<1>5. /\ more \in Seq(Good(net)) /\ more # << >> /\ Head(more).do = "commit"
      /\ Head(more).coin = call.coin /\ Head(more).ack = FALSE /\ Tail(more) \in Seq(Quiet(net))
  BY <1>4, OneCall, NothingIsQuiet DEF Wrote
<1>6. RowStep
  <2>1. CASE call.spent
    BY <1>2, <1>3, <2>1, FlagIsRowStep
  <2>2. CASE ~ call.spent
    BY <1>2, <1>3, <2>2, UnflagIsRowStep
  <2> QED
    BY <2>1, <2>2
<1>7. /\ row' \in [Coins -> {"absent", "unspent", "spent"}]
      /\ \A c \in Coins : row'[c] = "absent" => row[c] = "absent"
  BY <1>2, <1>3, SetRowsKeepsRows
<1>8. processed' \subseteq Coins /\ tasks' \subseteq GoodTasks(net)
  BY <1>3 DEF Shape
<1> HIDE DEF more, flag
<1>9. Shape' /\ net' = net /\ crashes' = crashes
  BY <1>1, <1>3, <1>5, <1>7, <1>8, ContinueKeepsAgendas DEF Shape
<1>10. \A c \in Coins, v \in Workers : Owes(v, c)' => Owes(v, c)
  <2>1. /\ \A v \in Workers : v # w => agenda'[v] = agenda[v]
        /\ Head(agenda'[w]) = Head(more)
    BY <1>1, <1>3, <1>5, ContinueKeepsAgendas
  <2> QED
    BY <1>5, <2>1 DEF Owes
<1>11. Reports'
  BY <1>3, <1>7, <1>10 DEF Reports
<1> QED
  BY <1>3, <1>6, <1>9, <1>11 DEF Keeps, CallStep

LEMMA CreateRowKeeps ==
  ASSUME Shape, Reports, NEW w \in Workers, CreateRow(w)
  PROVE  Keeps /\ CallStep
<1>1. agenda[w] # << >> /\ Next1(w).do = "save" /\ ~ Has(Next1(w).coin)
  BY DEF CreateRow, Runs
<1>2. PICK coin \in Coins, spent \in BOOLEAN, ack \in BOOLEAN, fresh \in BOOLEAN :
        coin = Next1(w).coin /\ spent = Next1(w).spent /\ ack = Next1(w).ack /\ fresh = Next1(w).fresh
  BY <1>1, HeadIsGood, CallFields
<1>3. Creator(coin) \in net /\ (NoScan /\ spent => Gone(net, coin)) /\ row[coin] = "absent"
  BY <1>1, <1>2, HeadIsGood DEF GoodCall, Has
<1> DEFINE commit == [do |-> "commit", coin |-> coin, ack |-> ack]
           first == <<commit>>
           after == IF fresh THEN Unspend(coin) ELSE << >>
           more == first \o after
<1>4. /\ row' = [row EXCEPT ![coin] = IF spent THEN "spent" ELSE "unspent"]
      /\ Continue(w, more) /\ UNCHANGED <<processed, announced, tasks>>
  BY <1>2 DEF CreateRow, Wrote
<1>5. after \in Seq(Quiet(net))
  <2>1. [do |-> "unspend", coin |-> coin] \in Quiet(net)
    BY <1>3 DEF Quiet, Good, GoodCall, Call
  <2> QED
    BY <2>1, OneCall, NothingIsQuiet DEF Unspend
<1>6. commit \in Good(net)
  BY <1>3 DEF Good, GoodCall, Call
<1>7. first \in Seq(Good(net)) /\ first # << >> /\ Head(first) = commit /\ Tail(first) \in Seq(Quiet(net))
  BY <1>6, OneCall, NothingIsQuiet
<1>8. Quiet(net) \subseteq Good(net)
  BY DEF Quiet
<1>9. commit.do = "commit" /\ commit.coin = coin /\ commit.ack = ack
  OBVIOUS
<1> HIDE DEF after, commit, first
<1>10. more \in Seq(Good(net)) /\ more # << >> /\ Head(more) = commit /\ Tail(more) \in Seq(Quiet(net))
  BY <1>5, <1>7, <1>8, InFront
<1> HIDE DEF more
<1>11. RowStep
  BY <1>3, <1>4 DEF RowStep
<1>12. /\ row' \in [Coins -> {"absent", "unspent", "spent"}]
       /\ row'[coin] # "absent" /\ \A c \in Coins : row'[c] = "absent" => row[c] = "absent"
  BY <1>4 DEF Shape
<1>13. processed' \subseteq Coins /\ tasks' \subseteq GoodTasks(net)
  BY <1>4 DEF Shape
<1>14. Shape' /\ net' = net /\ crashes' = crashes
  BY <1>1, <1>4, <1>10, <1>12, <1>13, ContinueKeepsAgendas DEF Shape
<1>15. /\ \A v \in Workers : v # w => agenda'[v] = agenda[v]
       /\ Head(agenda'[w]) = commit
  BY <1>1, <1>4, <1>10, ContinueKeepsAgendas
<1>16. \A c \in Coins : Owes(w, c)' => c = coin
  BY <1>9, <1>15 DEF Owes
<1>17. \A c \in Coins, v \in Workers : v # w => (Owes(v, c)' <=> Owes(v, c))
  BY <1>15 DEF Owes
<1>18. announced[coin] = 0 /\ \A v \in Workers : ~ Owes(v, coin)
  BY <1>3 DEF Reports
<1>19. \A c \in Coins : row'[c] = "absent" => c # coin /\ row[c] = "absent"
  BY <1>12
<1>20. Reports'
  <2>1. announced' \in [Coins -> 0..1] /\ announced' = announced
    BY <1>4 DEF Reports
  <2>2. \A c \in Coins : row'[c] = "absent" => announced'[c] = 0
    BY <1>19, <2>1 DEF Reports
  <2>3. \A c \in Coins : row'[c] = "absent" => \A v \in Workers : ~ Owes(v, c)'
    BY <1>16, <1>17, <1>19 DEF Reports
  <2>4. ASSUME NEW c \in Coins, NEW v \in Workers, Owes(v, c)'
        PROVE  announced'[c] = 0 /\ \A u \in Workers : Owes(u, c)' => u = v
    <3>1. CASE v = w
      BY <1>16, <1>17, <1>18, <2>1, <2>4, <3>1
    <3>2. CASE v # w
      <4>1. Owes(v, c) /\ c # coin
        BY <1>17, <1>18, <2>4, <3>2
      <4>2. announced[c] = 0 /\ \A u \in Workers : Owes(u, c) => u = v
        BY <4>1 DEF Reports
      <4> QED
        BY <1>16, <1>17, <2>1, <4>1, <4>2
    <3> QED
      BY <3>1, <3>2
  <2> QED
    BY <2>1, <2>2, <2>3, <2>4 DEF Reports
<1> QED
  BY <1>4, <1>11, <1>14, <1>20 DEF Keeps, CallStep

LEMMA CommittedKeeps ==
  ASSUME Shape, Reports, NEW w \in Workers, Committed(w)
  PROVE  Keeps /\ CallStep
<1>1. agenda[w] # << >> /\ Next1(w).do = "commit"
  BY DEF Committed, Runs
<1>2. PICK coin \in Coins, ack \in BOOLEAN : coin = Next1(w).coin /\ ack = Next1(w).ack
  BY <1>1, HeadIsGood, CallFields
<1>3. Creator(coin) \in net
  BY <1>1, <1>2, HeadIsGood DEF GoodCall
<1>4. /\ tasks' = tasks \cup {[kind |-> "post", coin |-> coin]}
      /\ announced' = [announced EXCEPT ![coin] = @ + IF ack THEN 1 ELSE 0]
      /\ Continue(w, << >>) /\ UNCHANGED <<row, processed>>
  BY <1>2 DEF Committed
<1>5. Owes(w, coin) <=> ack
  BY <1>1, <1>2 DEF Owes, Next1
<1>6. tasks' \subseteq GoodTasks(net) /\ processed' \subseteq Coins
  BY <1>3, <1>4 DEF Shape, GoodTasks, GoodTask, Task
<1>7. << >> \in Seq(Good(net)) /\ << >> \in Seq(Quiet(net))
  BY EmptySeq
<1>8. Shape' /\ net' = net /\ crashes' = crashes
  BY <1>1, <1>4, <1>6, <1>7, ContinueKeepsAgendas DEF Shape
<1>9. \A c \in Coins, v \in Workers : Owes(v, c)' => v # w /\ Owes(v, c)
  BY <1>1, <1>4, <1>7, QuietOwesNothing
<1>10. CASE ~ ack
  <2>1. announced' = announced
    BY <1>4, <1>10 DEF Reports
  <2>2. Reports'
    BY <1>4, <1>9, <2>1 DEF Reports
  <2> QED
    BY <1>4, <1>8, <2>1, <2>2 DEF Keeps, CallStep, RowStep
<1>11. CASE ack
  <2>1. /\ announced[coin] = 0 /\ row[coin] # "absent"
        /\ \A v \in Workers : Owes(v, coin) => v = w
    BY <1>5, <1>11 DEF Reports
  <2>2. announced' = [announced EXCEPT ![coin] = 1]
    BY <1>4, <1>11, <2>1 DEF Reports
  <2>3. ReportStep
    BY <1>4, <2>1, <2>2 DEF ReportStep
  <2>4. announced' \in [Coins -> 0..1] /\ \A c \in Coins : c # coin => announced'[c] = announced[c]
    BY <2>2 DEF Reports
  <2>5. \A v \in Workers : ~ Owes(v, coin)'
    BY <1>9, <2>1
  <2>6. \A c \in Coins : row'[c] = "absent" => announced'[c] = 0 /\ \A v \in Workers : ~ Owes(v, c)'
    BY <1>4, <1>9, <2>1, <2>4 DEF Reports
  <2>7. ASSUME NEW c \in Coins, NEW v \in Workers, Owes(v, c)'
        PROVE  announced'[c] = 0 /\ \A u \in Workers : Owes(u, c)' => u = v
    <3>1. c # coin /\ Owes(v, c)
      BY <1>9, <2>5, <2>7
    <3>2. announced[c] = 0 /\ \A u \in Workers : Owes(u, c) => u = v
      BY <3>1 DEF Reports
    <3> QED
      BY <1>9, <2>4, <3>1, <3>2
  <2>8. Reports'
    BY <2>4, <2>6, <2>7 DEF Reports
  <2> QED
    BY <1>8, <2>3, <2>8 DEF Keeps, CallStep
<1> QED
  BY <1>10, <1>11

LEMMA SaveIfMissingKeeps ==
  ASSUME Shape, Reports, NEW w \in Workers, SaveIfMissing(w)
  PROVE  Keeps /\ CallStep
<1>1. agenda[w] # << >> /\ Next1(w).do = "save_missing"
  BY DEF SaveIfMissing, Runs
<1>2. PICK call \in Call : call = Next1(w)
  BY <1>1, HeadIsGood
<1>3. /\ call \in [do : {"save", "save_missing"}, coin : Coins, spent : BOOLEAN, ack : BOOLEAN, fresh : BOOLEAN]
      /\ GoodCall(net, call) /\ call.do = "save_missing"
  BY <1>1, <1>2, HeadIsGood, CallFields
<1> DEFINE save == [call EXCEPT !.do = "save"]
<1>4. save \in Quiet(net)
  BY <1>3 DEF Quiet, Good, GoodCall, Call
<1>5. <<save>> \in Seq(Quiet(net)) /\ << >> \in Seq(Quiet(net))
  BY <1>4, OneCall, NothingIsQuiet
<1> HIDE DEF save
<1>6. PICK more \in Seq(Quiet(net)) : Continue(w, more)
  BY <1>2, <1>5 DEF SaveIfMissing, save
<1>7. UNCHANGED <<row, announced>> /\ processed' \subseteq Coins /\ tasks' \subseteq GoodTasks(net)
  BY DEF SaveIfMissing, Shape
<1> QED
  BY <1>1, <1>6, <1>7, ReadingCall

LEMMA ParseKeeps ==
  ASSUME Shape, Reports, NEW w \in Workers, Parse(w)
  PROVE  Keeps /\ CallStep
<1>1. agenda[w] # << >> /\ Next1(w).do = "histories"
  BY DEF Parse, Runs
<1>2. Next1(w).tx \in net
  BY <1>1, HeadIsGood DEF GoodCall
<1>3. PICK more \in Seq(Quiet(net)) : Continue(w, more)
  BY <1>2, ProgramsAreGood DEF Parse, Shape
<1>4. UNCHANGED <<row, announced>> /\ processed' \subseteq Coins /\ tasks' \subseteq GoodTasks(net)
  BY DEF Parse, Shape
<1> QED
  BY <1>1, <1>3, <1>4, ReadingCall

LEMMA ParseLaterKeeps ==
  ASSUME Shape, Reports, NEW w \in Workers, ParseLater(w)
  PROVE  Keeps /\ CallStep
<1>1. agenda[w] # << >> /\ Next1(w).do = "histories_later"
  BY DEF ParseLater, Runs
<1>2. Next1(w).tx \in net /\ Next1(w).tx \in Txs
  BY <1>1, HeadIsGood, CallFields DEF GoodCall
<1>3. tasks' \subseteq GoodTasks(net)
  BY <1>2 DEF ParseLater, Shape, GoodTasks, GoodTask, Task
<1>4. UNCHANGED <<row, announced>> /\ processed' \subseteq Coins /\ Continue(w, << >>)
  BY DEF ParseLater, Shape
<1> QED
  BY <1>1, <1>3, <1>4, NothingIsQuiet, ReadingCall

LEMMA ListNextKeeps ==
  ASSUME Shape, Reports, NEW w \in Workers, ListNext(w)
  PROVE  Keeps /\ CallStep
<1>1. agenda[w] # << >> /\ Next1(w).do = "list"
  BY DEF ListNext, Runs
<1>2. PICK call \in Call : call = Next1(w)
  BY <1>1, HeadIsGood
<1>3. /\ call \in [do : {"list"}, addr : Addresses, left : SUBSET Coins, keep : SUBSET Coins]
      /\ \A c \in call.left : Creator(c) \in net
      /\ ~ NoScan
  BY <1>1, <1>2, HeadIsGood, CallFields DEF GoodCall
<1> DEFINE S == Seq(Quiet(net))
           reset(c) == [do |-> "reset", coin |-> c]
           again(c) == [call EXCEPT !.left = @ \ {c}]
           sweep == [do |-> "sweep", addr |-> call.addr, keep |-> call.keep]
<1>4. \A s, t \in S : s \o t \in S
  BY ConcatProperties
<1>5. ASSUME NEW c \in call.left
      PROVE  <<reset(c)>> \o Histories(Creator(c), TRUE) \o <<again(c)>> \in S
  <2>1. c \in Coins /\ Creator(c) \in net /\ Creator(c) \in Txs
    BY <1>3, CreatorExists
  <2>2. reset(c) \in Quiet(net)
    BY <2>1 DEF Quiet, Good, GoodCall, Call
  <2>3. again(c) \in Call
    BY <1>3 DEF Call
  <2>4. GoodCall(net, again(c)) /\ again(c).do # "commit"
    BY <1>3 DEF GoodCall
  <2>5. again(c) \in Quiet(net)
    BY <2>3, <2>4 DEF Quiet, Good
  <2>6. <<reset(c)>> \in S /\ <<again(c)>> \in S
    BY <2>2, <2>5, OneCall
  <2>7. Histories(Creator(c), TRUE) \in S
    BY <2>1, MarkIsGood
  <2> HIDE DEF reset, again, S
  <2> QED
    BY <1>4, <2>6, <2>7
<1>6. <<sweep>> \in S
  <2>1. sweep \in Quiet(net)
    BY <1>3 DEF Quiet, Good, GoodCall, Call
  <2> QED
    BY <2>1, OneCall
<1>7. PICK more \in Seq(Quiet(net)) : Continue(w, more)
  <2>1. \/ \E c \in call.left : Continue(w, <<reset(c)>> \o Histories(Creator(c), TRUE) \o <<again(c)>>)
        \/ Continue(w, <<sweep>>)
    BY <1>2 DEF ListNext
  <2> HIDE DEF reset, again, sweep
  <2> QED
    BY <1>5, <1>6, <2>1
<1>8. UNCHANGED <<row, announced>> /\ processed' \subseteq Coins /\ tasks' \subseteq GoodTasks(net)
  BY DEF ListNext, Shape
<1> QED
  BY <1>1, <1>7, <1>8, ReadingCall

LEMMA ResetRowKeeps ==
  ASSUME Shape, Reports, NEW w \in Workers, ResetRow(w)
  PROVE  Keeps /\ CallStep
<1>1. agenda[w] # << >> /\ Next1(w).do = "reset"
  BY DEF ResetRow, Runs
<1>2. PICK c \in Coins : c = Next1(w).coin
  BY <1>1, HeadIsGood, CallFields
<1>3. Creator(c) \in net
  BY <1>1, <1>2, HeadIsGood DEF GoodCall
<1> DEFINE save == [do |-> "save", coin |-> c, spent |-> FALSE, ack |-> TRUE, fresh |-> TRUE]
<1>4. save \in Quiet(net)
  BY <1>3, SaveIsGood
<1>5. <<save>> \in Seq(Quiet(net)) /\ << >> \in Seq(Quiet(net))
  BY <1>4, OneCall, NothingIsQuiet
<1> HIDE DEF save
<1>6. PICK more \in Seq(Quiet(net)) : Continue(w, more)
  BY <1>2, <1>5 DEF ResetRow, save
<1>7. SetRows({c}, "unspent") /\ UNCHANGED <<processed, announced, tasks>>
  BY <1>2 DEF ResetRow
<1>8. processed' \subseteq Coins /\ tasks' \subseteq GoodTasks(net)
  BY <1>7 DEF Shape
<1>9. /\ row' \in [Coins -> {"absent", "unspent", "spent"}]
      /\ \A d \in Coins : row'[d] = "absent" => row[d] = "absent"
  BY <1>7, SetRowsKeepsRows
<1>10. RowStep
  BY <1>7, UnflagIsRowStep
<1> QED
  BY <1>1, <1>6, <1>7, <1>8, <1>9, <1>10, QuietCall

LEMMA UnspendRowKeeps ==
  ASSUME Shape, Reports, NEW w \in Workers, UnspendRow(w)
  PROVE  Keeps /\ CallStep
<1>1. agenda[w] # << >> /\ Next1(w).do = "unspend"
  BY DEF UnspendRow, Runs
<1>2. PICK c \in Coins : c = Next1(w).coin
  BY <1>1, HeadIsGood, CallFields
<1>3. SetRows({c}, "unspent") /\ Continue(w, << >>) /\ UNCHANGED <<processed, announced, tasks>>
  BY <1>2 DEF UnspendRow
<1>4. processed' \subseteq Coins /\ tasks' \subseteq GoodTasks(net)
  BY <1>3 DEF Shape
<1>5. /\ row' \in [Coins -> {"absent", "unspent", "spent"}]
      /\ \A d \in Coins : row'[d] = "absent" => row[d] = "absent"
  BY <1>3, SetRowsKeepsRows
<1>6. RowStep
  BY <1>3, UnflagIsRowStep
<1> QED
  BY <1>1, <1>3, <1>4, <1>5, <1>6, NothingIsQuiet, QuietCall

LEMMA ReadUnlistedKeeps ==
  ASSUME Shape, Reports, NEW w \in Workers, ReadUnlisted(w)
  PROVE  Keeps /\ CallStep
<1> DEFINE flag(cs) == [do |-> "flag", coins |-> cs]
<1>1. agenda[w] # << >> /\ Next1(w).do = "sweep"
  BY DEF ReadUnlisted, Runs
<1>2. ~ NoScan
  BY <1>1, HeadIsGood DEF GoodCall
<1>3. ASSUME NEW cs \in SUBSET Coins PROVE <<flag(cs)>> \in Seq(Quiet(net))
  <2>1. flag(cs) \in Quiet(net)
    BY <1>2 DEF Quiet, Good, GoodCall, Call
  <2> QED
    BY <2>1, OneCall
<1>4. PICK cs \in SUBSET Coins : Continue(w, <<flag(cs)>>)
  BY DEF ReadUnlisted
<1>5. UNCHANGED <<row, announced>> /\ processed' \subseteq Coins /\ tasks' \subseteq GoodTasks(net)
  BY DEF ReadUnlisted, Shape
<1> HIDE DEF flag
<1> QED
  BY <1>1, <1>3, <1>4, <1>5, ReadingCall

LEMMA FlagUnlistedKeeps ==
  ASSUME Shape, Reports, NEW w \in Workers, FlagUnlisted(w)
  PROVE  Keeps /\ CallStep
<1>1. agenda[w] # << >> /\ Next1(w).do = "flag"
  BY DEF FlagUnlisted, Runs
<1>2. ~ NoScan
  BY <1>1, HeadIsGood DEF GoodCall
<1>3. PICK cs \in SUBSET Coins : cs = Next1(w).coins
  BY <1>1, HeadIsGood, CallFields
<1>4. SetRows(cs, "spent") /\ Continue(w, << >>) /\ UNCHANGED <<processed, announced, tasks>>
  BY <1>3 DEF FlagUnlisted
<1>5. processed' \subseteq Coins /\ tasks' \subseteq GoodTasks(net)
  BY <1>4 DEF Shape
<1>6. /\ row' \in [Coins -> {"absent", "unspent", "spent"}]
      /\ \A d \in Coins : row'[d] = "absent" => row[d] = "absent"
  BY <1>4, SetRowsKeepsRows
<1>7. RowStep
  BY <1>2, <1>4, FlagIsRowStep
<1> QED
  BY <1>1, <1>4, <1>5, <1>6, <1>7, NothingIsQuiet, QuietCall

LEMMA PostSaveDoneKeeps ==
  ASSUME Shape, Reports, NEW w \in Workers, PostSaveDone(w)
  PROVE  Keeps /\ CallStep
<1>1. agenda[w] # << >> /\ Next1(w).do = "processed"
  BY DEF PostSaveDone, Runs
<1>2. Next1(w).coin \in Coins
  BY <1>1, HeadIsGood, CallFields
<1>3. UNCHANGED <<row, announced>> /\ processed' \subseteq Coins /\ tasks' \subseteq GoodTasks(net)
      /\ Continue(w, << >>)
  BY <1>2 DEF PostSaveDone, Shape
<1> QED
  BY <1>1, <1>3, NothingIsQuiet, ReadingCall

LEMMA StepKeeps ==
  ASSUME Shape, Reports, Flags, NEW w \in Workers, Step(w)
  PROVE  Keeps /\ CallStep
  BY MarkInputsAsSpentKeeps, CreateRowKeeps, LoadRowKeeps, SaveRowKeeps, CommittedKeeps,
     SaveIfMissingKeeps, ParseKeeps, ParseLaterKeeps, ListNextKeeps, ResetRowKeeps,
     UnspendRowKeeps, ReadUnlistedKeeps, FlagUnlistedKeeps, PostSaveDoneKeeps
     DEF Step
-----------------------------------------------------------------------------
(* The other actions.                                                       *)

\* A worker whose agenda is replaced by calls that owe nothing.
LEMMA NewAgenda ==
  ASSUME Shape, Reports, NEW w \in Workers, NEW calls \in Seq(Quiet(net)),
         NEW running \in GoodTasks(net) \cup {NoTask}, calls # << >> => running \in GoodTasks(net),
         agenda' = [agenda EXCEPT ![w] = calls], job' = [job EXCEPT ![w] = running],
         tasks' \subseteq GoodTasks(net), UNCHANGED <<chain, row, processed, announced>>
  PROVE  Shape' /\ Reports' /\ CallStep
<1>1. calls \in Seq(Good(net))
  <2>1. Quiet(net) \subseteq Good(net)
    BY DEF Quiet
  <2> QED
    BY <2>1, SeqMonotonic
<1>2. calls # << >> => Head(calls) \in Quiet(net) /\ Tail(calls) \in Seq(Quiet(net))
  BY HeadTailProperties
<1>3. net' = net /\ mined' = mined /\ row' = row /\ processed' = processed /\ announced' = announced
  BY DEF chain
<1>4. agenda' \in [Workers -> Seq(Good(net))] /\ agenda'[w] = calls
      /\ \A v \in Workers : v # w => agenda'[v] = agenda[v]
  BY <1>1 DEF Shape
<1>5. \A v \in Workers : AgendaOK(net, agenda'[v])
  BY <1>1, <1>2, <1>4 DEF Shape, AgendaOK
<1>6. /\ job' \in [Workers -> GoodTasks(net) \cup {NoTask}]
      /\ \A v \in Workers : agenda'[v] # << >> => job'[v] \in GoodTasks(net)
  BY <1>4 DEF Shape
<1>7. Shape'
  BY <1>3, <1>4, <1>5, <1>6 DEF Shape
<1>8. \A c \in Coins, v \in Workers : Owes(v, c)' => Owes(v, c)
  BY <1>2, <1>4 DEF Owes, Quiet
<1>9. Reports'
  BY <1>3, <1>8 DEF Reports
<1> QED
  BY <1>3, <1>7, <1>9 DEF CallStep, RowStep

LEMMA BeginKeeps ==
  ASSUME Shape, Reports, NEW w \in Workers, NEW task \in tasks,
         NEW calls \in Seq(Quiet(net)), Begin(w, task, calls)
  PROVE  Keeps /\ CallStep
<1> DEFINE running == IF calls = << >> THEN NoTask ELSE task
<1>1. task \in GoodTasks(net) /\ tasks' \subseteq GoodTasks(net)
  BY DEF Begin, Shape
<1>2. running \in GoodTasks(net) \cup {NoTask} /\ (calls # << >> => running \in GoodTasks(net))
  BY <1>1
<1>3. /\ agenda' = [agenda EXCEPT ![w] = calls] /\ job' = [job EXCEPT ![w] = running]
      /\ UNCHANGED <<chain, row, processed, announced, crashes>>
  BY DEF Begin
<1> HIDE DEF running
<1> QED
  BY <1>1, <1>2, <1>3, NewAgenda DEF Keeps

LEMMA StartKeeps ==
  ASSUME Shape, Reports, NEW w \in Workers, NEW task \in tasks, Start(w, task)
  PROVE  Keeps /\ CallStep
<1>1. task \in Task /\ GoodTask(net, task) /\ net \subseteq Txs /\ Closed(net)
  BY DEF Shape, GoodTasks
<1>2. CASE /\ task.kind \in {"fast", "throttled"}
           /\ Begin(w, task, ProcessMempoolTransaction(task.tx, task.kind = "fast"))
  <2>1. ProcessMempoolTransaction(task.tx, task.kind = "fast") \in Seq(Quiet(net))
    BY <1>1, <1>2, ProgramsAreGood DEF GoodTask
  <2> QED
    BY <1>2, <2>1, BeginKeeps
<1>3. CASE task.kind = "histories" /\ Begin(w, task, Histories(task.tx, TRUE))
  <2>1. Histories(task.tx, TRUE) \in Seq(Quiet(net))
    BY <1>1, <1>3, ProgramsAreGood DEF GoodTask
  <2> QED
    BY <1>3, <2>1, BeginKeeps
<1>4. CASE task.kind = "block" /\ Begin(w, task, SaveTransaction(task.tx))
  <2>1. SaveTransaction(task.tx) \in Seq(Quiet(net))
    BY <1>1, <1>4, ProgramsAreGood DEF GoodTask
  <2> QED
    BY <1>4, <2>1, BeginKeeps
<1>5. CASE task.kind = "post" /\ Begin(w, task, TransactionPostSaveTask(task.coin))
  <2>1. TransactionPostSaveTask(task.coin) \in Seq(Quiet(net))
    BY <1>1, <1>5, TaskFields, PostSaveIsGood DEF GoodTask
  <2> QED
    BY <1>5, <2>1, BeginKeeps
<1>6. CASE task.kind = "scan" /\ Begin(w, task, GetBchUtxos(task.addr))
  <2>1. GetBchUtxos(task.addr) \in Seq(Quiet(net))
    BY <1>1, <1>6, TaskFields, ScanIsGood DEF GoodTask
  <2> QED
    BY <1>6, <2>1, BeginKeeps
<1> QED
  BY <1>2, <1>3, <1>4, <1>5, <1>6 DEF Start

LEMMA CrashKeeps ==
  ASSUME Shape, Reports, NEW w \in Workers, Crash(w)
  PROVE  Shape' /\ Reports' /\ CallStep
<1>1. job[w] \in GoodTasks(net)
  BY DEF Crash, Shape
<1>2. tasks' \subseteq GoodTasks(net)
  BY <1>1 DEF Crash, Shape
<1>3. /\ agenda' = [agenda EXCEPT ![w] = << >>] /\ job' = [job EXCEPT ![w] = NoTask]
      /\ UNCHANGED <<chain, row, processed, announced>>
  BY DEF Crash
<1> QED
  BY <1>2, <1>3, NothingIsQuiet, NewAgenda

LEMMA AskKeeps ==
  ASSUME Shape, Reports, NEW task \in GoodTasks(net), Ask(task)
  PROVE  Keeps /\ CallStep
<1>1. UNCHANGED <<net, mined, row, processed, announced, job, agenda, crashes>>
  BY DEF Ask, chain
<1>2. tasks' \subseteq GoodTasks(net)
  BY DEF Ask, Shape
<1>3. Shape'
  BY <1>1, <1>2 DEF Shape
<1>4. Reports'
  BY <1>1 DEF Reports, Owes
<1> QED
  BY <1>1, <1>3, <1>4 DEF Keeps, CallStep, RowStep

\* What the node does to the coins: it takes a transaction whose parents it has.
ChainStep ==
  /\ UNCHANGED <<row, announced>>
  /\ \E tx \in Txs : /\ \A c \in ToSet(Inputs[tx]) : Creator(c) \in net
                     /\ net' = net \cup {tx}

LEMMA NodeAcceptsKeeps ==
  ASSUME Shape, Reports, NEW tx \in Txs, NodeAccepts(tx)
  PROVE  Keeps /\ ChainStep
<1>1. /\ net' = net \cup {tx} /\ \A c \in ToSet(Inputs[tx]) : Creator(c) \in net
      /\ UNCHANGED <<mined, row, processed, announced, tasks, job, agenda, crashes>>
  BY DEF NodeAccepts
<1>2. net \subseteq net'
  BY <1>1
<1>3. /\ Good(net) \subseteq Good(net') /\ Quiet(net) \subseteq Quiet(net')
      /\ GoodTasks(net) \subseteq GoodTasks(net')
  BY <1>2, GoodStays
<1>4. \A list \in Seq(Good(net)) : list \in Seq(Good(net'))
  BY <1>3, SeqMonotonic
<1>5. \A list \in Seq(Quiet(net)) : list \in Seq(Quiet(net'))
  BY <1>3, SeqMonotonic
<1>6. net' \subseteq Txs /\ mined' \subseteq net' /\ Closed(net')
  BY <1>1 DEF Shape, Closed
<1>7. /\ agenda' \in [Workers -> Seq(Good(net'))]
      /\ \A w \in Workers : AgendaOK(net', agenda'[w])
  BY <1>1, <1>4, <1>5 DEF Shape, AgendaOK
<1>8. /\ tasks' \subseteq GoodTasks(net')
      /\ job' \in [Workers -> GoodTasks(net') \cup {NoTask}]
      /\ \A w \in Workers : agenda'[w] # << >> => job'[w] \in GoodTasks(net')
  BY <1>1, <1>3 DEF Shape
<1>9. Shape'
  BY <1>1, <1>6, <1>7, <1>8 DEF Shape
<1>10. Reports'
  BY <1>1 DEF Reports, Owes
<1> QED
  BY <1>1, <1>9, <1>10 DEF Keeps, ChainStep

LEMMA MineKeeps ==
  ASSUME Shape, Reports, NEW tx \in Txs, Mine(tx)
  PROVE  Keeps /\ CallStep
<1>1. UNCHANGED <<net, row, processed, announced, tasks, job, agenda, crashes>> /\ mined' \subseteq net
  BY DEF Mine, Shape
<1>2. Shape'
  BY <1>1 DEF Shape
<1>3. Reports'
  BY <1>1 DEF Reports, Owes
<1> QED
  BY <1>1, <1>2, <1>3 DEF Keeps, CallStep, RowStep

LEMMA RequestKeeps ==
  ASSUME Shape, Reports, NEW tx \in Txs, OnMessage(tx) \/ BroadcastView(tx) \/ ScanBlock(tx)
  PROVE  Keeps /\ CallStep
<1>1. tx \in net
  BY DEF OnMessage, BroadcastView, ScanBlock, Shape
<1>2. \A kind \in {"fast", "throttled", "block"} : [kind |-> kind, tx |-> tx] \in GoodTasks(net)
  BY <1>1 DEF GoodTasks, GoodTask, Task
<1>3. \E kind \in {"fast", "throttled", "block"} : Ask([kind |-> kind, tx |-> tx])
  BY DEF OnMessage, BroadcastView, ScanBlock
<1> QED
  BY <1>2, <1>3, AskKeeps

LEMMA ScanAddressKeeps ==
  ASSUME Shape, Reports, NEW a \in Addresses, ScanAddress(a)
  PROVE  Keeps /\ CallStep
<1>1. [kind |-> "scan", addr |-> a] \in GoodTasks(net)
  BY DEF ScanAddress, NoScan, GoodTasks, GoodTask, Task
<1> QED
  BY <1>1, AskKeeps DEF ScanAddress

LEMMA StutterKeeps ==
  ASSUME Shape, Reports, UNCHANGED vars
  PROVE  Keeps /\ CallStep
<1>1. UNCHANGED <<net, mined, row, processed, announced, tasks, job, agenda, crashes>>
  BY DEF vars
<1>2. Shape'
  BY <1>1 DEF Shape
<1>3. Reports'
  BY <1>1 DEF Reports, Owes
<1> QED
  BY <1>1, <1>2, <1>3 DEF Keeps, CallStep, RowStep

LEMMA SomeStep ==
  ASSUME IInv, [Next]_vars
  PROVE  /\ Shape' /\ Reports' /\ (CallStep \/ ChainStep)
         /\ crashes' = crashes \/ \E w \in Workers : Crash(w)
<1>1. CASE \E w \in Workers : Crash(w)
  BY <1>1, CrashKeeps DEF IInv
<1>2. CASE Keeps /\ (CallStep \/ ChainStep)
  BY <1>2 DEF Keeps
<1>3. CASE \E tx \in Txs : NodeAccepts(tx) \/ Mine(tx) \/ OnMessage(tx) \/ BroadcastView(tx) \/ ScanBlock(tx)
  BY <1>2, <1>3, NodeAcceptsKeeps, MineKeeps, RequestKeeps DEF IInv
<1>4. CASE \E a \in Addresses : ScanAddress(a)
  BY <1>2, <1>4, ScanAddressKeeps DEF IInv
<1>5. CASE \E w \in Workers : (\E task \in tasks : Start(w, task)) \/ Step(w)
  BY <1>2, <1>5, StartKeeps, StepKeeps DEF IInv
<1>6. CASE UNCHANGED vars
  BY <1>2, <1>6, StutterKeeps DEF IInv
<1> QED
  BY <1>1, <1>3, <1>4, <1>5, <1>6 DEF Next
-----------------------------------------------------------------------------
(* The theorems.                                                            *)

LEMMA InitIInv == Init => IInv
<1> SUFFICES ASSUME Init PROVE IInv
  OBVIOUS
<1> USE DEF Init
<1>1. << >> \in Seq(Good(net))
  BY EmptySeq
<1>2. Shape
  BY <1>1 DEF Shape, AgendaOK, Closed
<1>3. Reports
  BY DEF Reports, Owes
<1>4. Flags
  BY DEF Flags, SpentRowsAreSpent
<1>5. crashes \in 0..MaxCrashes
  BY BoundsAssumption
<1> QED
  BY <1>2, <1>3, <1>4, <1>5 DEF IInv

LEMMA CrashesBounded ==
  ASSUME crashes \in 0..MaxCrashes, crashes' = crashes \/ \E w \in Workers : Crash(w)
  PROVE  crashes' \in 0..MaxCrashes
<1>1. CASE crashes' = crashes
  BY <1>1
<1>2. CASE \E w \in Workers : Crash(w)
  <2>1. crashes < MaxCrashes /\ crashes' = crashes + 1
    BY <1>2 DEF Crash
  <2> QED
    BY <2>1, BoundsAssumption
<1> QED
  BY <1>1, <1>2

LEMMA FlagsKept ==
  ASSUME Shape, Flags, CallStep \/ ChainStep
  PROVE  Flags'
<1> SUFFICES ASSUME NoScan, NEW c \in Coins, row'[c] = "spent" PROVE Gone(net', c)
  BY DEF Flags, SpentRowsAreSpent, Gone, NoScan
<1>1. row[c] = "spent" => Gone(net, c)
  BY DEF Flags, SpentRowsAreSpent, Gone
<1>2. Gone(net, c) => Gone(net', c)
  BY DEF CallStep, ChainStep, Gone
<1>3. row'[c] = row[c] \/ Gone(net, c)
  BY DEF CallStep, ChainStep, ReportStep, RowStep, Shape
<1> QED
  BY <1>1, <1>2, <1>3

LEMMA NextIInv == IInv /\ [Next]_vars => IInv'
<1> SUFFICES ASSUME IInv, [Next]_vars PROVE IInv'
  OBVIOUS
<1>1. Shape' /\ Reports' /\ (CallStep \/ ChainStep)
  BY SomeStep
<1>2. Flags'
  BY <1>1, FlagsKept DEF IInv
<1>3. (crashes \in 0..MaxCrashes)'
  BY SomeStep, CrashesBounded DEF IInv
<1> QED
  BY <1>1, <1>2, <1>3 DEF IInv

LEMMA IInvImplies ==
  ASSUME IInv
  PROVE  TypeOK /\ AnnouncedOnce /\ (NoScan => SpentRowsAreSpent)
<1>1. Good(net) \subseteq Call /\ GoodTasks(net) \subseteq Task
  BY DEF Good, GoodTasks
<1>2. \A list \in Seq(Good(net)) : list \in Seq(Call)
  BY <1>1, SeqMonotonic
<1>3. TypeOK
  <2>1. net \subseteq Txs /\ mined \subseteq net /\ processed \subseteq Coins
        /\ row \in [Coins -> {"absent", "unspent", "spent"}]
    BY DEF IInv, Shape
  <2>2. announced \in [Coins -> Nat]
    BY DEF IInv, Reports
  <2>3. tasks \subseteq Task /\ job \in [Workers -> Task \cup {NoTask}]
    BY <1>1 DEF IInv, Shape
  <2>4. agenda \in [Workers -> Seq(Call)]
    BY <1>2 DEF IInv, Shape
  <2>5. crashes \in 0..MaxCrashes
    BY DEF IInv
  <2> QED
    BY <2>1, <2>2, <2>3, <2>4, <2>5 DEF TypeOK
<1>4. AnnouncedOnce
  BY DEF IInv, Reports, AnnouncedOnce
<1>5. NoScan => SpentRowsAreSpent
  BY DEF IInv, Flags
<1> QED
  BY <1>3, <1>4, <1>5

LEMMA Inductive == Spec => []IInv
  BY InitIInv, NextIInv, PTL DEF Spec

\* Every row, task and call is of its type, for every chain, every number of
\* workers and all overlaps of the paths that write the index.
THEOREM TypeCorrect == Spec => []TypeOK
<1>1. IInv => TypeOK
  BY IInvImplies
<1> QED
  BY <1>1, Inductive, PTL

\* However many tasks meet an output at once, of whatever path, and whenever
\* workers die, at most one of them tells the subscribers (process_output).
THEOREM AnnouncedOnceAlways == Spec => []AnnouncedOnce
<1>1. IInv => AnnouncedOnce
  BY IInvImplies
<1> QED
  BY <1>1, Inductive, PTL

\* While addresses are not rescanned, no path flags a coin that the node
\* still lists (mark_transaction_inputs_as_spent, save_record).
THEOREM SpentRowsAreSpentAlways ==
  ASSUME NoScan
  PROVE  Spec => []SpentRowsAreSpent
<1>1. IInv => SpentRowsAreSpent
  BY IInvImplies
<1> QED
  BY <1>1, Inductive, PTL

\* A coin is made by the transaction whose txid its row carries.
LEMMA Unmade ==
  ASSUME NEW N \in SUBSET Txs, NEW c \in Coins
  PROVE  (\A tx \in N : c \notin ToSet(Outputs[tx])) <=> Creator(c) \notin N
  BY CreatorExists, CreatorOfOutput

LEMMA LedgerInit == Init => Ledger!Init
  BY DEF Init, Ledger!Init, Fate

LEMMA FateOfCall ==
  ASSUME net' = net
  PROVE  [c \in Coins |-> Fate(c)]' = [c \in Coins |-> Fate(c)]
  BY DEF Fate

LEMMA FateOfTransaction ==
  ASSUME IInv, ChainStep, NEW c \in Coins
  PROVE  \/ Fate(c)' = Fate(c)
         \/ Fate(c) = "unknown" /\ Fate(c)' = "live"
         \/ Fate(c) = "live" /\ Fate(c)' = "gone"
<1>1. PICK tx \in Txs : /\ \A d \in ToSet(Inputs[tx]) : Creator(d) \in net
                        /\ net' = net \cup {tx}
  BY DEF ChainStep
<1>2. Creator(c) \notin net => ~ Gone(net, c) /\ ~ Gone(net', c)
  BY <1>1 DEF IInv, Shape, Closed, Gone
<1>3. Gone(net, c) => Gone(net', c)
  BY <1>1 DEF Gone
<1>4. Creator(c) \in net => Creator(c) \in net'
  BY <1>1
<1>5. net \in SUBSET Txs /\ net' \in SUBSET Txs
  BY <1>1 DEF IInv, Shape
<1>6. /\ Fate(c) = IF Creator(c) \notin net THEN "unknown" ELSE IF Gone(net, c) THEN "gone" ELSE "live"
      /\ Fate(c)' = IF Creator(c) \notin net' THEN "unknown" ELSE IF Gone(net', c) THEN "gone" ELSE "live"
  BY <1>5, Unmade DEF Fate, Gone
<1> QED
  BY <1>2, <1>3, <1>4, <1>6

LEMMA LedgerStep ==
  ASSUME NoScan, IInv, CallStep \/ ChainStep
  PROVE  [Ledger!Next]_(Ledger!vars)
<1> DEFINE fate == [c \in Coins |-> Fate(c)]
<1>1. \A c \in Coins : /\ Creator(c) \in net => fate[c] # "unknown"
                       /\ Creator(c) \in net /\ Gone(net, c) => fate[c] = "gone"
                       /\ Gone(net, c) => Creator(c) \in net
  BY Unmade DEF Fate, Gone, IInv, Shape, Closed
<1>2. CASE ChainStep
  <2>1. Ledger!Transact
    BY <1>2, FateOfTransaction DEF Ledger!Transact, ChainStep
  <2> QED
    BY <2>1 DEF Ledger!Next
<1>3. CASE CallStep
  <2>1. fate' = fate
    BY <1>3, FateOfCall DEF CallStep
  <2>2. CASE ReportStep
    <3>1. \E c \in Coins : Ledger!Report(c)
      BY <2>1, <2>2 DEF ReportStep, Ledger!Report
    <3> QED
      BY <3>1 DEF Ledger!Next
  <2>3. CASE RowStep /\ announced' = announced
    <3>1. CASE row' = row
      BY <2>1, <2>3, <3>1 DEF Ledger!vars
    <3>2. CASE \E c \in Coins :
                 /\ row[c] = "absent" /\ Creator(c) \in net
                 /\ \/ row' = [row EXCEPT ![c] = "unspent"]
                    \/ (NoScan => Gone(net, c)) /\ row' = [row EXCEPT ![c] = "spent"]
      <4>1. \E c \in Coins : Ledger!Record(c)
        BY <1>1, <2>1, <2>3, <3>2 DEF Ledger!Record
      <4> QED
        BY <4>1 DEF Ledger!Next
    <3>3. CASE \E cs \in SUBSET Coins :
                 /\ \A c \in cs : row[c] # "absent" /\ (NoScan => Gone(net, c))
                 /\ row' = [c \in Coins |-> IF c \in cs THEN "spent" ELSE row[c]]
      <4>1. \E cs \in SUBSET Coins : Ledger!Flag(cs)
        BY <1>1, <2>1, <2>3, <3>3 DEF Ledger!Flag
      <4> QED
        BY <4>1 DEF Ledger!Next
    <3>4. CASE \E c \in Coins : row[c] = "spent" /\ row' = [row EXCEPT ![c] = "unspent"]
      <4>1. \E c \in Coins : Ledger!LoseFlag(c)
        BY <2>1, <2>3, <3>4 DEF Ledger!LoseFlag
      <4> QED
        BY <4>1 DEF Ledger!Next
    <3> QED
      BY <2>3, <3>1, <3>2, <3>3, <3>4 DEF RowStep
  <2> QED
    BY <1>3, <2>2, <2>3 DEF CallStep
<1> QED
  BY <1>2, <1>3

\* While addresses are not rescanned, the tasks of all workers together do
\* what CoinLedger says: one row per coin there is, flagged only when the
\* coin is gone, reported at most once and after it is there.
THEOREM ImplementsCoinLedger ==
  ASSUME NoScan
  PROVE  Spec => LedgerSpec
<1>1. IInv /\ [Next]_vars => [Ledger!Next]_(Ledger!vars)
  BY SomeStep, LedgerStep
<1> QED
  BY <1>1, LedgerInit, Inductive, PTL DEF Spec, LedgerSpec, Ledger!Spec
-----------------------------------------------------------------------------
(* Calls that rely on earlier ones.                                         *)

\* After such a call the coin has a row, unless its worker dies.
Makes(call) == {c \in Coins : call.do \in {"save", "save_missing"} /\ call.coin = c}
MadeBy(list) == {c \in Coins : \E i \in 1..Len(list) : c \in Makes(list[i])}

\* The coins that must have a row when the call is made: a row is marked
\* processed after all outputs of its transaction were saved, and histories
\* are parsed after all of its coins were, so that what is saved without an
\* acknowledgement is there.
Awaits(call) ==
  {c \in Coins :
     \/ call.do = "processed" /\ c \in ToSet(Outputs[Creator(call.coin)])
     \/ NoScan /\ \/ /\ call.do \in {"histories", "histories_later"}
                     /\ c \in ToSet(Inputs[call.tx]) \cup ToSet(Outputs[call.tx])
                  \/ call.do \in {"save", "save_missing"} /\ call.coin = c /\ ~ call.ack}

\* With rows of the coins R, each call finds the rows it awaits: they are
\* there, or an earlier call of the list makes them.
Ready(R, list) ==
  \A i \in 1..Len(list) : \A c \in Awaits(list[i]) :
    c \in R \/ \E j \in 1..(i - 1) : c \in Makes(list[j])

LEMMA ReadyConcat ==
  ASSUME NEW S, NEW R, NEW s \in Seq(S), NEW t \in Seq(S), Ready(R, s), Ready(R \cup MadeBy(s), t)
  PROVE  Ready(R, s \o t) /\ MadeBy(s) \cup MadeBy(t) \subseteq MadeBy(s \o t)
<1> DEFINE st == s \o t  n == Len(s)  m == Len(t)
<1>1. /\ n \in Nat /\ m \in Nat /\ Len(st) = n + m
      /\ \A i \in 1..n : st[i] = s[i]
      /\ \A i \in 1..m : st[n + i] = t[i]
  <2>1. n \in Nat /\ m \in Nat
    BY LenProperties
  <2>2. /\ Len(st) = n + m
        /\ \A i \in 1..n + m : st[i] = IF i <= n THEN s[i] ELSE t[i - n]
    BY ConcatProperties
  <2> HIDE DEF st, n, m
  <2> QED
    BY <2>1, <2>2
<1> HIDE DEF st, n, m
<1>2. ASSUME NEW i \in 1..Len(st), NEW c \in Awaits(st[i])
      PROVE  c \in R \/ \E j \in 1..(i - 1) : c \in Makes(st[j])
  <2>1. CASE i <= n
    <3>1. i \in 1..n /\ st[i] = s[i]
      BY <1>1, <2>1
    <3>2. c \in R \/ \E j \in 1..(i - 1) : c \in Makes(s[j])
      BY <1>2, <3>1 DEF Ready, n
    <3>3. ASSUME NEW j \in 1..(i - 1), c \in Makes(s[j]) PROVE c \in Makes(st[j])
      BY <1>1, <3>1, <3>3
    <3> QED
      BY <3>2, <3>3
  <2>2. CASE ~ (i <= n)
    <3>1. i - n \in 1..m /\ st[i] = t[i - n] /\ i \in Nat
      <4>1. i - n \in 1..m /\ n + (i - n) = i /\ i \in Nat
        BY <1>1, <2>2
      <4> QED
        BY <1>1, <4>1
    <3>2. c \in R \cup MadeBy(s) \/ \E j \in 1..(i - n - 1) : c \in Makes(t[j])
      BY <1>2, <3>1 DEF Ready, m
    <3>3. CASE c \in MadeBy(s)
      <4>1. PICK j \in 1..n : c \in Makes(s[j])
        BY <3>3 DEF MadeBy, n
      <4>2. j \in 1..(i - 1) /\ st[j] = s[j]
        BY <1>1, <2>2, <3>1
      <4> QED
        BY <4>1, <4>2
    <3>4. ASSUME NEW j \in 1..(i - n - 1), c \in Makes(t[j])
          PROVE  \E k \in 1..(i - 1) : c \in Makes(st[k])
      <4>1. n + j \in 1..(i - 1) /\ j \in 1..m
        BY <1>1, <3>1
      <4>2. st[n + j] = t[j]
        BY <1>1, <4>1
      <4> QED
        BY <3>4, <4>1, <4>2
    <3> QED
      BY <3>2, <3>3, <3>4
  <2> QED
    BY <2>1, <2>2
<1>3. ASSUME NEW c \in MadeBy(s) \cup MadeBy(t) PROVE c \in MadeBy(st)
  <2>1. CASE c \in MadeBy(s)
    <3>1. PICK i \in 1..n : c \in Makes(s[i])
      BY <2>1 DEF MadeBy, n
    <3>2. i \in 1..Len(st) /\ st[i] = s[i]
      BY <1>1
    <3> QED
      BY <2>1, <3>1, <3>2 DEF MadeBy
  <2>2. CASE c \in MadeBy(t)
    <3>1. PICK i \in 1..m : c \in Makes(t[i])
      BY <2>2 DEF MadeBy, m
    <3>2. n + i \in 1..Len(st) /\ st[n + i] = t[i]
      BY <1>1
    <3> QED
      BY <2>2, <3>1, <3>2 DEF MadeBy
  <2> QED
    BY <2>1, <2>2
<1> QED
  BY <1>2, <1>3 DEF Ready, st

LEMMA ReadyMore ==
  ASSUME NEW R, NEW Q, R \subseteq Q, NEW list, Ready(R, list)
  PROVE  Ready(Q, list)
  BY DEF Ready

\* The first call finds its rows, and the others find theirs after it.
LEMMA ReadyHeadTail ==
  ASSUME NEW S, NEW R, NEW s \in Seq(S), s # << >>, Ready(R, s)
  PROVE  Awaits(Head(s)) \subseteq R /\ Ready(R \cup Makes(Head(s)), Tail(s))
<1>1. /\ Len(s) \in Nat \ {0} /\ Head(s) = s[1]
      /\ Len(Tail(s)) = Len(s) - 1 /\ \A i \in 1..Len(Tail(s)) : Tail(s)[i] = s[i + 1]
  BY EmptySeq, HeadTailProperties
<1>2. Awaits(Head(s)) \subseteq R
  <2>1. 1 \in 1..Len(s) /\ 1..(1 - 1) = {}
    BY <1>1
  <2> QED
    BY <1>1, <2>1 DEF Ready
<1>3. ASSUME NEW i \in 1..Len(Tail(s)), NEW c \in Awaits(Tail(s)[i])
      PROVE  c \in R \cup Makes(Head(s)) \/ \E j \in 1..(i - 1) : c \in Makes(Tail(s)[j])
  <2>1. i + 1 \in 1..Len(s) /\ c \in Awaits(s[i + 1]) /\ (i + 1) - 1 = i /\ i \in Nat
    BY <1>1, <1>3
  <2>2. c \in R \/ \E j \in 1..i : c \in Makes(s[j])
    BY <2>1 DEF Ready
  <2>3. ASSUME NEW j \in 1..i, c \in Makes(s[j])
        PROVE  c \in Makes(Head(s)) \/ \E k \in 1..(i - 1) : c \in Makes(Tail(s)[k])
    <3>1. CASE j = 1
      BY <1>1, <2>3, <3>1
    <3>2. CASE j # 1
      <4>1. j - 1 \in 1..(i - 1) /\ j - 1 \in 1..Len(Tail(s)) /\ (j - 1) + 1 = j
        BY <1>1, <2>1, <3>2
      <4>2. Tail(s)[j - 1] = s[j]
        BY <1>1, <4>1
      <4> QED
        BY <2>3, <4>1, <4>2
    <3> QED
      BY <3>1, <3>2
  <2> QED
    BY <2>2, <2>3
<1> QED
  BY <1>2, <1>3 DEF Ready

\* Lists whose calls await nothing that is not there.
LEMMA ReadyNow ==
  ASSUME NEW R, NEW list, \A i \in 1..Len(list) : Awaits(list[i]) \subseteq R
  PROVE  Ready(R, list)
  BY DEF Ready

LEMMA ReadyEmpty ==
  ASSUME NEW R
  PROVE  Ready(R, << >>)
<1>1. Len(<< >>) = 0
  BY EmptySeq
<1> QED
  BY <1>1, ReadyNow

LEMMA ReadyOne ==
  ASSUME NEW R, NEW call, Awaits(call) \subseteq R
  PROVE  Ready(R, <<call>>) /\ Makes(call) \subseteq MadeBy(<<call>>)
<1>1. Len(<<call>>) = 1 /\ <<call>>[1] = call
  OBVIOUS
<1>2. Makes(call) \subseteq Coins
  BY DEF Makes
<1> QED
  BY <1>1, <1>2, ReadyNow DEF MadeBy

\* Saves make the rows of their coins; those that acknowledge await nothing.
LEMMA ReadySaves ==
  ASSUME NEW R, NEW cs \in Seq(Coins), NEW spent \in BOOLEAN, NEW ack \in BOOLEAN,
         NoScan /\ ~ ack => ToSet(cs) \subseteq R
  PROVE  /\ Ready(R, Saves(cs, spent, ack)) /\ MadeBy(Saves(cs, spent, ack)) = ToSet(cs)
         /\ Ready(R, SavesOfMissing(cs, ack)) /\ MadeBy(SavesOfMissing(cs, ack)) = ToSet(cs)
<1>1. Len(cs) \in Nat /\ DOMAIN cs = 1..Len(cs) /\ \A i \in 1..Len(cs) : cs[i] \in Coins /\ cs[i] \in ToSet(cs)
  BY LenProperties, ElementOfSeq DEF ToSet
<1>2. ToSet(cs) = {cs[i] : i \in 1..Len(cs)}
  BY <1>1 DEF ToSet
<1>3. ASSUME NEW list, NEW do \in {"save", "save_missing"}, NEW flag,
             list = [i \in DOMAIN cs |->
                       [do |-> do, coin |-> cs[i], spent |-> flag, ack |-> ack, fresh |-> FALSE]]
      PROVE  Ready(R, list) /\ MadeBy(list) = ToSet(cs)
  <2>1. /\ Len(list) = Len(cs)
        /\ \A i \in 1..Len(cs) : list[i].do = do /\ list[i].coin = cs[i] /\ list[i].ack = ack
    BY <1>1, <1>3
  <2>2. \A i \in 1..Len(list) : Makes(list[i]) = {cs[i]} /\ Awaits(list[i]) \subseteq R
    BY <1>1, <2>1 DEF Makes, Awaits
  <2>3. \A c \in Coins : c \in MadeBy(list) <=> \E i \in 1..Len(cs) : c = cs[i]
    BY <2>1, <2>2 DEF MadeBy
  <2>4. MadeBy(list) \subseteq Coins /\ ToSet(cs) \subseteq Coins
    BY <1>1, <1>2 DEF MadeBy
  <2>5. MadeBy(list) = ToSet(cs)
    BY <1>2, <2>3, <2>4
  <2> QED
    BY <2>2, <2>5, ReadyNow
<1> QED
  BY <1>3 DEF Saves, SavesOfMissing

LEMMA SavesAreCalls ==
  ASSUME NEW cs \in Seq(Coins), NEW spent \in BOOLEAN, NEW ack \in BOOLEAN
  PROVE  Saves(cs, spent, ack) \in Seq(Call) /\ SavesOfMissing(cs, ack) \in Seq(Call)
<1>1. Len(cs) \in Nat /\ DOMAIN cs = 1..Len(cs) /\ \A i \in 1..Len(cs) : cs[i] \in Coins
  BY LenProperties, ElementOfSeq
<1>2. \A i \in 1..Len(cs), do \in {"save", "save_missing"}, flag \in BOOLEAN :
        [do |-> do, coin |-> cs[i], spent |-> flag, ack |-> ack, fresh |-> FALSE] \in Call
  BY <1>1 DEF Call
<1>3. Saves(cs, spent, ack) \in [1..Len(cs) -> Call] /\ SavesOfMissing(cs, ack) \in [1..Len(cs) -> Call]
  BY <1>1, <1>2 DEF Saves, SavesOfMissing
<1> QED
  BY <1>1, <1>3, SeqDef

\* What each task's calls rely on, when it begins.
LEMMA ProgramsAreReady ==
  ASSUME NEW R, NEW tx \in Txs
  PROVE  /\ \A immediate \in BOOLEAN : Ready(R, ProcessMempoolTransaction(tx, immediate))
         /\ Ready(R, SaveTransaction(tx))
         /\ (NoScan => ToSet(Inputs[tx]) \cup ToSet(Outputs[tx]) \subseteq R) => Ready(R, Histories(tx, TRUE))
         /\ \A c \in ToSet(Outputs[tx]) : Ready(R, TransactionPostSaveTask(c))
         /\ \A a \in Addresses : Ready(R, GetBchUtxos(a))
<1>1. Outputs[tx] \in Seq(Coins) /\ Inputs[tx] \in Seq(Coins)
      /\ ToSet(Outputs[tx]) \subseteq Coins /\ ToSet(Inputs[tx]) \subseteq Coins
  BY CoinsOf
<1>2. \A Q : /\ Ready(Q, << >>)
             /\ Ready(Q, Mark(tx)) /\ Mark(tx) \in Seq(Call)
             /\ \A spent \in BOOLEAN : Ready(Q, Saves(Outputs[tx], spent, TRUE))
             /\ Ready(Q, Saves(Inputs[tx], TRUE, TRUE))
             /\ Ready(Q, SavesOfMissing(Outputs[tx], TRUE))
  <2>1. [do |-> "mark", tx |-> tx] \in Call
    BY DEF Call
  <2>2. Mark(tx) \in Seq(Call)
    BY <2>1, OneCall DEF Mark
  <2>3. \A Q : Ready(Q, Mark(tx))
    BY ReadyOne DEF Mark, Awaits
  <2> QED
    BY <1>1, <2>2, <2>3, ReadyEmpty, ReadySaves
<1>3. /\ MadeBy(Saves(Inputs[tx], TRUE, TRUE)) = ToSet(Inputs[tx])
      /\ MadeBy(Saves(Outputs[tx], FALSE, TRUE)) = ToSet(Outputs[tx])
      /\ MadeBy(SavesOfMissing(Outputs[tx], TRUE)) = ToSet(Outputs[tx])
  BY <1>1, ReadySaves
<1>4. /\ Saves(Inputs[tx], TRUE, TRUE) \in Seq(Call) /\ Saves(Outputs[tx], FALSE, TRUE) \in Seq(Call)
      /\ SavesOfMissing(Outputs[tx], TRUE) \in Seq(Call)
  BY <1>1, SavesAreCalls
<1>5. ASSUME NEW Q, NoScan => ToSet(Inputs[tx]) \cup ToSet(Outputs[tx]) \subseteq Q, NEW immediate \in BOOLEAN
      PROVE  Ready(Q, Histories(tx, immediate)) /\ Histories(tx, immediate) \in Seq(Call)
  <2> DEFINE call == [do |-> IF immediate THEN "histories" ELSE "histories_later", tx |-> tx]
  <2>1. Awaits(call) \subseteq Q
    BY <1>5 DEF Awaits
  <2>2. call \in Call
    BY DEF Call
  <2> HIDE DEF call
  <2>3. Ready(Q, <<call>>) /\ <<call>> \in Seq(Call)
    BY <2>1, <2>2, ReadyOne, OneCall
  <2> QED
    BY <2>3 DEF Histories, call
<1>6. ASSUME NEW immediate \in BOOLEAN
      PROVE  Ready(R, ProcessMempoolTransaction(tx, immediate))
  <2> DEFINE mark == Mark(tx)  spends == Saves(Inputs[tx], TRUE, TRUE)
             pays == Saves(Outputs[tx], FALSE, TRUE)  rest == Histories(tx, immediate)
             first == mark \o spends  second == mark \o spends \o pays
  <2>1. mark \in Seq(Call) /\ spends \in Seq(Call) /\ pays \in Seq(Call) /\ rest \in Seq(Call)
    <3>1. Histories(tx, immediate) \in Seq(Call)
      BY <1>5, <1>1
    <3> QED
      BY <1>2, <1>4, <3>1
  <2>2. /\ \A Q : Ready(Q, mark) /\ Ready(Q, spends) /\ Ready(Q, pays)
        /\ \A Q : ToSet(Inputs[tx]) \cup ToSet(Outputs[tx]) \subseteq Q => Ready(Q, rest)
        /\ MadeBy(spends) = ToSet(Inputs[tx]) /\ MadeBy(pays) = ToSet(Outputs[tx])
    BY <1>2, <1>3, <1>5
  <2> HIDE DEF mark, spends, pays, rest
  <2>3. first \in Seq(Call) /\ Ready(R, first) /\ ToSet(Inputs[tx]) \subseteq MadeBy(first)
    <3>1. first \in Seq(Call)
      BY <2>1, ConcatProperties
    <3>2. Ready(R, mark \o spends) /\ MadeBy(mark) \cup MadeBy(spends) \subseteq MadeBy(mark \o spends)
      BY <2>1, <2>2, ReadyConcat
    <3> QED
      BY <2>2, <3>1, <3>2
  <2> HIDE DEF first
  <2>4. /\ first \o pays \in Seq(Call) /\ Ready(R, first \o pays)
        /\ ToSet(Inputs[tx]) \cup ToSet(Outputs[tx]) \subseteq MadeBy(first \o pays)
    <3>1. first \o pays \in Seq(Call)
      BY <2>1, <2>3, ConcatProperties
    <3>2. Ready(R, first \o pays) /\ MadeBy(first) \cup MadeBy(pays) \subseteq MadeBy(first \o pays)
      BY <2>1, <2>2, <2>3, ReadyConcat
    <3> QED
      BY <2>2, <2>3, <3>1, <3>2
  <2>5. second = first \o pays
    BY DEF first
  <2> HIDE DEF second
  <2>6. Ready(R, second \o rest)
    BY <2>1, <2>2, <2>4, <2>5, ReadyConcat
  <2> QED
    BY <1>2, <2>6 DEF ProcessMempoolTransaction, second, mark, spends, pays, rest
<1>7. Ready(R, SaveTransaction(tx))
  BY <1>2 DEF SaveTransaction
<1>8. ASSUME NEW c \in ToSet(Outputs[tx]) PROVE Ready(R, TransactionPostSaveTask(c))
  <2> DEFINE mark == Mark(tx)  pays == SavesOfMissing(Outputs[tx], TRUE)  first == mark \o pays
             done == [do |-> "processed", coin |-> c]
  <2>1. Creator(c) = tx /\ c \in Coins
    BY CreatorOfOutput
  <2>2. mark \in Seq(Call) /\ pays \in Seq(Call) /\ (\A Q : Ready(Q, mark) /\ Ready(Q, pays))
        /\ MadeBy(pays) = ToSet(Outputs[tx])
    BY <1>2, <1>3, <1>4
  <2>3. Awaits(done) \subseteq ToSet(Outputs[tx]) /\ done \in Call
    BY <2>1 DEF Awaits, Call
  <2> HIDE DEF mark, pays, done
  <2>4. first \in Seq(Call) /\ Ready(R, first) /\ ToSet(Outputs[tx]) \subseteq MadeBy(first)
    <3>1. first \in Seq(Call)
      BY <2>2, ConcatProperties
    <3>2. Ready(R, mark \o pays) /\ MadeBy(mark) \cup MadeBy(pays) \subseteq MadeBy(mark \o pays)
      BY <2>2, ReadyConcat
    <3> QED
      BY <2>2, <3>1, <3>2
  <2> HIDE DEF first
  <2>5. <<done>> \in Seq(Call) /\ Ready(R \cup MadeBy(first), <<done>>)
    BY <2>3, <2>4, OneCall, ReadyOne
  <2>6. Ready(R, first \o <<done>>)
    BY <2>4, <2>5, ReadyConcat
  <2> QED
    BY <1>2, <2>1, <2>6 DEF TransactionPostSaveTask, first, mark, pays, done
<1>9. ASSUME NEW a \in Addresses PROVE Ready(R, GetBchUtxos(a))
  BY ReadyOne DEF GetBchUtxos, Awaits
<1> QED
  BY <1>5, <1>6, <1>7, <1>8, <1>9

LEMMA ParsingIsReady ==
  ASSUME NEW R, NEW tx \in Txs, NoScan => ToSet(Inputs[tx]) \cup ToSet(Outputs[tx]) \subseteq R,
         NEW calls \in ParseTxWalletHistories(tx)
  PROVE  Ready(R, calls) /\ calls \in Seq(Call)
<1> DEFINE mark == Mark(tx)  spends == SavesOfMissing(Inputs[tx], FALSE)
           pays == Saves(Outputs[tx], FALSE, FALSE)  first == mark \o spends
<1>1. Outputs[tx] \in Seq(Coins) /\ Inputs[tx] \in Seq(Coins)
  BY CoinsOf
<1>2. [do |-> "mark", tx |-> tx] \in Call
  BY DEF Call
<1>3. mark \in Seq(Call) /\ spends \in Seq(Call) /\ pays \in Seq(Call)
  BY <1>1, <1>2, OneCall, SavesAreCalls DEF Mark
<1>4. \A Q : R \subseteq Q => Ready(Q, mark) /\ Ready(Q, spends) /\ Ready(Q, pays)
  <2>1. \A Q : Ready(Q, mark)
    BY ReadyOne DEF Mark, Awaits
  <2>2. \A Q : R \subseteq Q => Ready(Q, spends) /\ Ready(Q, pays)
    BY <1>1, ReadySaves
  <2> QED
    BY <2>1, <2>2
<1> HIDE DEF mark, spends, pays
<1>5. first \in Seq(Call) /\ Ready(R, first)
  BY <1>3, <1>4, ConcatProperties, ReadyConcat
<1> HIDE DEF first
<1>6. first \o pays \in Seq(Call) /\ Ready(R, first \o pays)
  BY <1>3, <1>4, <1>5, ConcatProperties, ReadyConcat
<1> QED
  BY <1>6, ReadyEmpty, EmptySeq DEF ParseTxWalletHistories, first, mark, spends, pays
-----------------------------------------------------------------------------
(* What a worker has left to do is about its task.                          *)

\* The calls of a post-save task are about the transaction of its row, and no
\* other task marks a row processed.
CallsOf(task) ==
  {call \in Call :
     IF task.kind = "post"
     THEN /\ call.do \in {"mark", "save", "save_missing", "write", "commit", "unspend", "processed"}
          /\ call.do # "mark" => Creator(call.coin) = Creator(task.coin)
     ELSE call.do # "processed"}

OneJob == \A w \in Workers : agenda[w] \in Seq(CallsOf(job[w]))

\* Worker w is about to commit the row of c, or to mark it processed.
Commits(w, c) == Runs(w, "commit") /\ Next1(w).coin = c
Finishes(w, c) ==
  \E i \in 1..Len(agenda[w]) : agenda[w][i].do = "processed" /\ agenda[w][i].coin = c

\* The rows a worker has in hand are of one transaction.
LEMMA OneTransactionEach ==
  ASSUME OneJob, NEW w \in Workers
  PROVE  \E tx : \A c \in Coins : Commits(w, c) \/ Finishes(w, c) => Creator(c) = tx
<1>1. agenda[w] \in Seq(CallsOf(job[w]))
  BY DEF OneJob
<1>2. \A i \in 1..Len(agenda[w]) : agenda[w][i] \in CallsOf(job[w])
  BY <1>1, ElementOfSeq
<1>3. agenda[w] # << >> => Next1(w) \in CallsOf(job[w])
  BY <1>1, HeadTailProperties DEF Next1
<1>4. CASE job[w].kind = "post"
  <2>1. ASSUME NEW c \in Coins, Commits(w, c) PROVE Creator(c) = Creator(job[w].coin)
    BY <1>3, <1>4, <2>1 DEF Commits, Runs, CallsOf
  <2>2. ASSUME NEW c \in Coins, Finishes(w, c) PROVE Creator(c) = Creator(job[w].coin)
    BY <1>2, <1>4, <2>2 DEF Finishes, CallsOf
  <2> QED
    BY <2>1, <2>2
<1>5. CASE job[w].kind # "post"
  <2>1. \A c \in Coins : ~ Finishes(w, c)
    BY <1>2, <1>5 DEF Finishes, CallsOf
  <2>2. \A c \in Coins : Commits(w, c) => Creator(c) = Creator(Next1(w).coin)
    BY DEF Commits
  <2> QED
    BY <2>1, <2>2
<1> QED
  BY <1>4, <1>5

LEMMA CallsOfOther ==
  ASSUME NEW task, task.kind # "post"
  PROVE  CallsOf(task) = {call \in Call : call.do # "processed"}
  BY DEF CallsOf

LEMMA SavesAreIn ==
  ASSUME NEW S, NEW cs \in Seq(Coins), NEW spent \in BOOLEAN, NEW ack \in BOOLEAN,
         \A c \in ToSet(cs), do \in {"save", "save_missing"}, flag \in BOOLEAN :
           [do |-> do, coin |-> c, spent |-> flag, ack |-> ack, fresh |-> FALSE] \in S
  PROVE  Saves(cs, spent, ack) \in Seq(S) /\ SavesOfMissing(cs, ack) \in Seq(S)
<1>1. Len(cs) \in Nat /\ DOMAIN cs = 1..Len(cs) /\ \A i \in 1..Len(cs) : cs[i] \in ToSet(cs)
  BY LenProperties, ElementOfSeq DEF ToSet
<1>2. \A i \in 1..Len(cs) :
        /\ [do |-> "save", coin |-> cs[i], spent |-> spent, ack |-> ack, fresh |-> FALSE] \in S
        /\ [do |-> "save_missing", coin |-> cs[i], spent |-> FALSE, ack |-> ack, fresh |-> FALSE] \in S
  BY <1>1
<1>3. Saves(cs, spent, ack) \in [1..Len(cs) -> S]
  BY <1>1, <1>2 DEF Saves
<1>4. SavesOfMissing(cs, ack) \in [1..Len(cs) -> S]
  BY <1>1, <1>2 DEF SavesOfMissing
<1> QED
  BY <1>1, <1>3, <1>4, SeqDef

\* No list of calls but that of a post-save task marks a row processed.
LEMMA OtherPrograms ==
  ASSUME NEW tx \in Txs, NEW S, S = {call \in Call : call.do # "processed"}
  PROVE  /\ \A immediate \in BOOLEAN : /\ ProcessMempoolTransaction(tx, immediate) \in Seq(S)
                                       /\ Histories(tx, immediate) \in Seq(S)
         /\ SaveTransaction(tx) \in Seq(S)
         /\ \A calls \in ParseTxWalletHistories(tx) : calls \in Seq(S)
<1> DEFINE Q == Seq(S)
<1>1. \A s, t \in Q : s \o t \in Q
  BY ConcatProperties
<1>2. << >> \in Q /\ \A do \in {"mark", "histories", "histories_later"} : <<[do |-> do, tx |-> tx]>> \in Q
  <2>1. \A do \in {"mark", "histories", "histories_later"} : [do |-> do, tx |-> tx] \in S
    BY DEF Call
  <2> QED
    BY <2>1, OneCall, EmptySeq
<1>3. ASSUME NEW cs \in {Inputs[tx], Outputs[tx]}, NEW spent \in BOOLEAN, NEW ack \in BOOLEAN
      PROVE  Saves(cs, spent, ack) \in Q /\ SavesOfMissing(cs, ack) \in Q
  <2>1. cs \in Seq(Coins) /\ ToSet(cs) \subseteq Coins
    BY CoinsOf
  <2>2. \A c \in Coins, do \in {"save", "save_missing"}, flag \in BOOLEAN :
          [do |-> do, coin |-> c, spent |-> flag, ack |-> ack, fresh |-> FALSE] \in S
    BY DEF Call
  <2> QED
    BY <2>1, <2>2, SavesAreIn
<1>4. Mark(tx) \in Q /\ \A immediate \in BOOLEAN : Histories(tx, immediate) \in Q
  BY <1>2 DEF Mark, Histories
<1>5. ASSUME NEW immediate \in BOOLEAN PROVE ProcessMempoolTransaction(tx, immediate) \in Q
  <2> DEFINE mark == Mark(tx)  spends == Saves(Inputs[tx], TRUE, TRUE)
             pays == Saves(Outputs[tx], FALSE, TRUE)  rest == Histories(tx, immediate)
  <2>1. mark \in Q /\ spends \in Q /\ pays \in Q /\ rest \in Q
    BY <1>3, <1>4
  <2> HIDE DEF mark, spends, pays, rest, Q
  <2>2. mark \o spends \o pays \o rest \in Q
    BY <1>1, <2>1
  <2> QED
    BY <1>2, <2>2 DEF ProcessMempoolTransaction, mark, spends, pays, rest
<1>6. SaveTransaction(tx) \in Q
  BY <1>2, <1>3 DEF SaveTransaction
<1>7. ASSUME NEW calls \in ParseTxWalletHistories(tx) PROVE calls \in Q
  <2> DEFINE mark == Mark(tx)  spends == SavesOfMissing(Inputs[tx], FALSE)
             pays == Saves(Outputs[tx], FALSE, FALSE)
  <2>1. mark \in Q /\ spends \in Q /\ pays \in Q
    BY <1>3, <1>4
  <2> HIDE DEF mark, spends, pays, Q
  <2>2. mark \o spends \o pays \in Q
    BY <1>1, <2>1
  <2> QED
    BY <1>2, <2>2 DEF ParseTxWalletHistories, mark, spends, pays
<1> QED
  BY <1>4, <1>5, <1>6, <1>7

LEMMA ListingProgram ==
  ASSUME NEW a \in Addresses, NEW S, S = {call \in Call : call.do # "processed"}
  PROVE  GetBchUtxos(a) \in Seq(S)
<1>1. NodeUtxos(a) \in SUBSET Coins
  BY DEF NodeUtxos
<1>2. [do |-> "list", addr |-> a, left |-> NodeUtxos(a), keep |-> NodeUtxos(a)] \in S
  BY <1>1 DEF Call
<1> QED
  BY <1>2, OneCall DEF GetBchUtxos

LEMMA PostSaveIsItsOwn ==
  ASSUME NEW task, task.kind = "post", task.coin \in Coins
  PROVE  TransactionPostSaveTask(task.coin) \in Seq(CallsOf(task))
<1> DEFINE c == task.coin  S == CallsOf(task)  Q == Seq(S)
           mark == Mark(Creator(c))  pays == SavesOfMissing(Outputs[Creator(c)], TRUE)
           last == <<[do |-> "processed", coin |-> c]>>
<1>1. \A s, t \in Q : s \o t \in Q
  BY ConcatProperties
<1>2. Creator(c) \in Txs
  BY CreatorExists
<1>3. mark \in Q /\ last \in Q /\ << >> \in Q
  <2>1. [do |-> "mark", tx |-> Creator(c)] \in S /\ [do |-> "processed", coin |-> c] \in S
    BY <1>2 DEF CallsOf, Call
  <2> QED
    BY <2>1, OneCall, EmptySeq DEF Mark
<1>4. pays \in Q
  <2>1. Outputs[Creator(c)] \in Seq(Coins)
    BY <1>2, CoinsOf
  <2>2. ASSUME NEW d \in ToSet(Outputs[Creator(c)]), NEW do \in {"save", "save_missing"}, NEW flag \in BOOLEAN
        PROVE  [do |-> do, coin |-> d, spent |-> flag, ack |-> TRUE, fresh |-> FALSE] \in S
    <3> DEFINE call == [do |-> do, coin |-> d, spent |-> flag, ack |-> TRUE, fresh |-> FALSE]
    <3>1. d \in Coins /\ Creator(d) = Creator(c)
      BY <1>2, CreatorOfOutput
    <3>2. call \in Call /\ call.do \in {"save", "save_missing"} /\ call.coin = d
      BY <3>1 DEF Call
    <3> HIDE DEF call
    <3>3. call \in S
      BY <3>1, <3>2 DEF CallsOf
    <3> QED
      BY <3>3 DEF call
  <2> QED
    BY <2>1, <2>2, SavesAreIn
<1> HIDE DEF Q, mark, pays, last
<1>5. mark \o pays \o last \in Q
  BY <1>1, <1>3, <1>4
<1> QED
  BY <1>3, <1>5 DEF TransactionPostSaveTask, mark, pays, last, Q

LEMMA OneJobByCall ==
  ASSUME Shape, OneJob, NEW w \in Workers, agenda[w] # << >>,
         NEW more \in Seq(CallsOf(job[w])), Continue(w, more)
  PROVE  OneJob'
<1> DEFINE all == more \o Tail(agenda[w])
<1>1. agenda[w] \in Seq(CallsOf(job[w]))
  BY DEF OneJob
<1>2. all \in Seq(CallsOf(job[w])) /\ << >> \in Seq(CallsOf(NoTask))
  BY <1>1, HeadTailProperties, ConcatProperties, EmptySeq
<1>3. /\ agenda' = [agenda EXCEPT ![w] = all]
      /\ job' = [job EXCEPT ![w] = IF all = << >> THEN NoTask ELSE job[w]]
  BY DEF Continue, Shape
<1> HIDE DEF all
<1>4. ASSUME NEW v \in Workers PROVE agenda'[v] \in Seq(CallsOf(job'[v]))
  <2>1. CASE v = w
    <3>1. agenda'[w] = all /\ job'[w] = IF all = << >> THEN NoTask ELSE job[w]
      BY <1>3 DEF Shape
    <3>2. CASE all = << >>
      BY <1>2, <2>1, <3>1, <3>2
    <3>3. CASE all # << >>
      BY <1>2, <2>1, <3>1, <3>3
    <3> QED
      BY <3>2, <3>3
  <2>2. CASE v # w
    <3>1. agenda'[v] = agenda[v] /\ job'[v] = job[v]
      BY <1>3, <2>2 DEF Shape
    <3> QED
      BY <3>1 DEF OneJob
  <2> QED
    BY <2>1, <2>2
<1> QED
  BY <1>4 DEF OneJob, CallsOf, Creator

\* A call leads to calls about the same coin, and those of a post-save task
\* neither parse nor list.
LEMMA StepKeepsOneJob ==
  ASSUME Shape, OneJob, NEW w \in Workers, Step(w)
  PROVE  OneJob'
<1> DEFINE S == CallsOf(job[w])  call == Next1(w)
<1>1. agenda[w] # << >>
  BY DEF Step, MarkInputsAsSpent, CreateRow, LoadRow, SaveRow, Committed, SaveIfMissing, Parse,
         ParseLater, ListNext, ResetRow, UnspendRow, ReadUnlisted, FlagUnlisted, PostSaveDone, Runs
<1>2. call \in S /\ call \in Call
  <2>1. agenda[w] \in Seq(CallsOf(job[w]))
    BY DEF OneJob
  <2>2. call \in S
    BY <1>1, <2>1, HeadTailProperties DEF Next1
  <2> QED
    BY <2>2 DEF CallsOf
<1>3. /\ call.do \in {"histories", "histories_later", "list", "reset", "sweep", "flag"} => job[w].kind # "post"
      /\ job[w].kind # "post" => S = {d \in Call : d.do # "processed"}
  BY <1>2 DEF CallsOf
<1>4. << >> \in Seq(S) /\ \A more \in S : <<more>> \in Seq(S)
  BY EmptySeq, OneCall
<1>5. ASSUME NEW c \in Coins, call.coin = c, call.do \in {"save", "save_missing", "write"}, NEW ack \in BOOLEAN
      PROVE  Wrote(c, ack) \in Seq(S) /\ Unspend(c) \in Seq(S)
  <2>1. [do |-> "commit", coin |-> c, ack |-> ack] \in S /\ [do |-> "unspend", coin |-> c] \in S
    <3> DEFINE d == [do |-> "commit", coin |-> c, ack |-> ack]  e == [do |-> "unspend", coin |-> c]
    <3>1. d \in Call /\ d.do = "commit" /\ d.coin = c /\ e \in Call /\ e.do = "unspend" /\ e.coin = c
      BY DEF Call
    <3> HIDE DEF d, e
    <3>2. d \in S /\ e \in S
      BY <1>2, <1>5, <3>1 DEF CallsOf
    <3> QED
      BY <3>2 DEF d, e
  <2> QED
    BY <1>4, <2>1 DEF Wrote, Unspend
<1>6. CASE MarkInputsAsSpent(w) \/ Committed(w) \/ ParseLater(w) \/ UnspendRow(w) \/ FlagUnlisted(w) \/ PostSaveDone(w)
  <2>1. Continue(w, << >>)
    BY <1>6 DEF MarkInputsAsSpent, Committed, ParseLater, UnspendRow, FlagUnlisted, PostSaveDone
  <2> QED
    BY <1>1, <1>4, <2>1, OneJobByCall
<1>7. CASE CreateRow(w)
  <2> DEFINE wrote == Wrote(call.coin, call.ack)  again == IF call.fresh THEN Unspend(call.coin) ELSE << >>
  <2>1. /\ Continue(w, wrote \o again) /\ call.do = "save"
        /\ call.coin \in Coins /\ call.ack \in BOOLEAN
    BY <1>2, <1>7, CallFields DEF CreateRow, Runs
  <2>2. wrote \in Seq(S) /\ again \in Seq(S)
    BY <1>4, <1>5, <2>1
  <2> HIDE DEF wrote, again
  <2>3. wrote \o again \in Seq(S)
    BY <2>2, ConcatProperties
  <2> QED
    BY <1>1, <2>1, <2>3, OneJobByCall
<1>8. CASE LoadRow(w)
  <2> DEFINE save == [do |-> "write", coin |-> call.coin, spent |-> call.spent \/ row[call.coin] = "spent"]
  <2>1. Continue(w, <<save>>) /\ call.do = "save" /\ call.coin \in Coins /\ call.spent \in BOOLEAN
    BY <1>2, <1>8, CallFields DEF LoadRow, Runs
  <2>2. save \in Call /\ save.do = "write" /\ save.coin = call.coin
    BY <2>1 DEF Call
  <2> HIDE DEF save
  <2>3. save \in S
    BY <1>2, <2>1, <2>2 DEF CallsOf
  <2> QED
    BY <1>1, <1>4, <2>1, <2>3, OneJobByCall
<1>9. CASE SaveRow(w)
  <2>1. Continue(w, Wrote(call.coin, FALSE)) /\ call.do = "write" /\ call.coin \in Coins
    BY <1>2, <1>9, CallFields DEF SaveRow, Runs
  <2>2. Wrote(call.coin, FALSE) \in Seq(S)
    BY <1>5, <2>1
  <2> QED
    BY <1>1, <2>1, <2>2, OneJobByCall
<1>10. CASE SaveIfMissing(w)
  <2> DEFINE save == [call EXCEPT !.do = "save"]
  <2>1. call.do = "save_missing" /\ Continue(w, IF Has(call.coin) THEN << >> ELSE <<save>>)
    BY <1>10 DEF SaveIfMissing, Runs
  <2>2. call \in [do : {"save", "save_missing"}, coin : Coins, spent : BOOLEAN, ack : BOOLEAN, fresh : BOOLEAN]
    BY <1>2, <2>1, CallFields
  <2>3. save \in Call /\ save.do = "save" /\ save.coin = call.coin
    BY <2>2 DEF Call
  <2> HIDE DEF save
  <2>4. save \in S
    BY <1>2, <2>1, <2>3 DEF CallsOf
  <2>5. CASE Has(call.coin)
    BY <1>1, <1>4, <2>1, <2>5, OneJobByCall
  <2>6. CASE ~ Has(call.coin)
    BY <1>1, <1>4, <2>1, <2>4, <2>6, OneJobByCall
  <2> QED
    BY <2>5, <2>6
<1>11. CASE Parse(w)
  <2>1. call.do = "histories" /\ \E calls \in ParseTxWalletHistories(call.tx) : Continue(w, calls)
    BY <1>11 DEF Parse, Runs
  <2>2. \A calls \in ParseTxWalletHistories(call.tx) : calls \in Seq(S)
    BY <1>2, <1>3, <2>1, CallFields, OtherPrograms
  <2> QED
    BY <1>1, <2>1, <2>2, OneJobByCall
<1>12. CASE ListNext(w)
  <2>1. /\ call.do = "list"
        /\ call \in [do : {"list"}, addr : Addresses, left : SUBSET Coins, keep : SUBSET Coins]
    BY <1>2, <1>12, CallFields DEF ListNext, Runs
  <2>2. S = {d \in Call : d.do # "processed"}
    BY <1>3, <2>1
  <2>3. CASE \E c \in call.left :
               Continue(w, <<[do |-> "reset", coin |-> c]>> \o Histories(Creator(c), TRUE)
                             \o <<[call EXCEPT !.left = @ \ {c}]>>)
    <3>1. PICK c \in call.left :
               Continue(w, <<[do |-> "reset", coin |-> c]>> \o Histories(Creator(c), TRUE)
                             \o <<[call EXCEPT !.left = @ \ {c}]>>)
      BY <2>3
    <3> DEFINE reset == <<[do |-> "reset", coin |-> c]>>  parse == Histories(Creator(c), TRUE)
               others == <<[call EXCEPT !.left = @ \ {c}]>>
    <3>2. c \in Coins /\ Creator(c) \in Txs
      BY <2>1, CreatorExists
    <3>3. reset \in Seq(S)
      <4>1. [do |-> "reset", coin |-> c] \in S
        BY <2>2, <3>2 DEF Call
      <4> QED
        BY <1>4, <4>1
    <3>4. others \in Seq(S)
      <4>1. [call EXCEPT !.left = @ \ {c}] \in [do : {"list"}, addr : Addresses, left : SUBSET Coins, keep : SUBSET Coins]
        BY <2>1
      <4>2. [call EXCEPT !.left = @ \ {c}] \in S
        BY <2>2, <4>1 DEF Call
      <4> QED
        BY <1>4, <4>2
    <3>5. parse \in Seq(S)
      BY <2>2, <3>2, OtherPrograms
    <3>6. Continue(w, reset \o parse \o others)
      BY <3>1
    <3> HIDE DEF reset, parse, others
    <3>7. reset \o parse \o others \in Seq(S)
      BY <3>3, <3>4, <3>5, ConcatProperties
    <3> QED
      BY <1>1, <3>6, <3>7, OneJobByCall
  <2>4. CASE Continue(w, <<[do |-> "sweep", addr |-> call.addr, keep |-> call.keep]>>)
    <3>1. [do |-> "sweep", addr |-> call.addr, keep |-> call.keep] \in S
      BY <2>1, <2>2 DEF Call
    <3> QED
      BY <1>1, <1>4, <2>4, <3>1, OneJobByCall
  <2> QED
    BY <1>12, <2>3, <2>4 DEF ListNext
<1>13. CASE ResetRow(w)
  <2> DEFINE save == [do |-> "save", coin |-> call.coin, spent |-> FALSE, ack |-> TRUE, fresh |-> TRUE]
  <2>1. call.do = "reset" /\ Continue(w, IF Has(call.coin) THEN << >> ELSE <<save>>)
    BY <1>13 DEF ResetRow, Runs
  <2>2. save \in S
    BY <1>2, <1>3, <2>1, CallFields DEF Call
  <2> HIDE DEF save
  <2>3. CASE Has(call.coin)
    BY <1>1, <1>4, <2>1, <2>3, OneJobByCall
  <2>4. CASE ~ Has(call.coin)
    BY <1>1, <1>4, <2>1, <2>2, <2>4, OneJobByCall
  <2> QED
    BY <2>3, <2>4
<1>14. CASE ReadUnlisted(w)
  <2> DEFINE cs == {c \in Coins : AddressOf[c] = call.addr /\ row[c] = "unspent"} \ call.keep
  <2>1. call.do = "sweep" /\ Continue(w, <<[do |-> "flag", coins |-> cs]>>)
    BY <1>14 DEF ReadUnlisted, Runs
  <2>2. cs \in SUBSET Coins
    OBVIOUS
  <2> HIDE DEF cs
  <2>3. [do |-> "flag", coins |-> cs] \in S
    BY <1>3, <2>1, <2>2 DEF Call
  <2> QED
    BY <1>1, <1>4, <2>1, <2>3, OneJobByCall
<1> QED
  BY <1>6, <1>7, <1>8, <1>9, <1>10, <1>11, <1>12, <1>13, <1>14 DEF Step

LEMMA StartKeepsOneJob ==
  ASSUME Shape, OneJob, NEW w \in Workers, NEW task \in tasks, Start(w, task)
  PROVE  OneJob'
<1>1. task \in Task
  BY DEF Shape, GoodTasks
<1>2. PICK calls : calls \in Seq(CallsOf(task)) /\ Begin(w, task, calls)
  <2>1. CASE task.kind = "post" /\ Begin(w, task, TransactionPostSaveTask(task.coin))
    BY <1>1, <2>1, TaskFields, PostSaveIsItsOwn
  <2>2. CASE task.kind # "post"
    <3>1. CallsOf(task) = {call \in Call : call.do # "processed"}
      BY <2>2, CallsOfOther
    <3>2. CASE task.kind \in {"fast", "throttled", "histories", "block"}
      <4>1. task.tx \in Txs
        BY <1>1, <3>2, TaskFields
      <4>2. /\ \A immediate \in BOOLEAN : /\ ProcessMempoolTransaction(task.tx, immediate) \in Seq(CallsOf(task))
                                          /\ Histories(task.tx, immediate) \in Seq(CallsOf(task))
            /\ SaveTransaction(task.tx) \in Seq(CallsOf(task))
        BY <3>1, <4>1, OtherPrograms
      <4> QED
        BY <3>2, <4>2 DEF Start
    <3>3. CASE task.kind = "scan"
      <4>1. task.addr \in Addresses
        BY <1>1, <3>3, TaskFields
      <4>2. GetBchUtxos(task.addr) \in Seq(CallsOf(task))
        BY <3>1, <4>1, ListingProgram
      <4> QED
        BY <3>3, <4>2 DEF Start
    <3> QED
      BY <2>2, <3>2, <3>3 DEF Start
  <2> QED
    BY <2>1, <2>2 DEF Start
<1>3. agenda' = [agenda EXCEPT ![w] = calls] /\ job' = [job EXCEPT ![w] = IF calls = << >> THEN NoTask ELSE task]
  BY <1>2 DEF Begin
<1>4. << >> \in Seq(CallsOf(NoTask))
  BY EmptySeq
<1>5. ASSUME NEW v \in Workers PROVE agenda'[v] \in Seq(CallsOf(job'[v]))
  <2>1. v # w => agenda'[v] = agenda[v] /\ job'[v] = job[v]
    BY <1>3 DEF Shape
  <2>2. v = w => agenda'[v] = calls /\ job'[v] = IF calls = << >> THEN NoTask ELSE task
    BY <1>3 DEF Shape
  <2>3. v # w => agenda[v] \in Seq(CallsOf(job[v]))
    BY DEF OneJob
  <2>4. CASE v # w
    BY <2>1, <2>3, <2>4
  <2>5. CASE v = w /\ calls = << >>
    BY <1>4, <2>2, <2>5
  <2>6. CASE v = w /\ calls # << >>
    BY <1>2, <2>2, <2>6
  <2> QED
    BY <2>4, <2>5, <2>6
<1> QED
  BY <1>5 DEF OneJob, CallsOf, Creator

LEMMA OneJobAlways == Spec => []OneJob
<1>1. Init => OneJob
  BY EmptySeq DEF Init, OneJob
<1>2. ASSUME IInv, OneJob, [Next]_vars PROVE OneJob'
  <2>1. CASE \E w \in Workers : (\E task \in tasks : Start(w, task)) \/ Step(w)
    BY <1>2, <2>1, StartKeepsOneJob, StepKeepsOneJob DEF IInv
  <2>2. ASSUME NEW w \in Workers, Crash(w) PROVE OneJob'
    <3>1. agenda' = [agenda EXCEPT ![w] = << >>] /\ job' = [job EXCEPT ![w] = NoTask]
      BY <2>2 DEF Crash
    <3>2. << >> \in Seq(CallsOf(NoTask))
      BY EmptySeq
    <3>3. \A v \in Workers : agenda'[v] \in Seq(CallsOf(job'[v]))
      BY <1>2, <3>1, <3>2 DEF OneJob, IInv, Shape
    <3> QED
      BY <3>3 DEF OneJob, CallsOf, Creator
  <2>3. CASE UNCHANGED <<job, agenda>>
    <3>1. \A v \in Workers : agenda'[v] \in Seq(CallsOf(job'[v]))
      BY <1>2, <2>3 DEF OneJob
    <3> QED
      BY <3>1 DEF OneJob, CallsOf, Creator
  <2>4. CASE \/ \E tx \in Txs : NodeAccepts(tx) \/ Mine(tx) \/ OnMessage(tx) \/ BroadcastView(tx) \/ ScanBlock(tx)
             \/ \E a \in Addresses : ScanAddress(a)
    <3>1. UNCHANGED <<job, agenda>>
      BY <2>4 DEF NodeAccepts, Mine, OnMessage, BroadcastView, ScanBlock, ScanAddress, Ask
    <3> QED
      BY <2>3, <3>1
  <2>5. CASE UNCHANGED vars
    BY <2>3, <2>5 DEF vars
  <2> QED
    BY <1>2, <2>1, <2>2, <2>4, <2>5 DEF Next
<1> QED
  BY <1>1, <1>2, Inductive, PTL DEF Spec
-----------------------------------------------------------------------------
(* Who still owes what.                                                     *)

Rows == {c \in Coins : Has(c)}

\* A parsing task waits only once all coins of its transaction were saved.
TaskReady(R, task) ==
  NoScan /\ task.kind = "histories" => ToSet(Inputs[task.tx]) \cup ToSet(Outputs[task.tx]) \subseteq R

Prepared ==
  /\ \A w \in Workers : Ready(Rows, agenda[w]) /\ TaskReady(Rows, job[w])
  /\ \A task \in tasks : TaskReady(Rows, task)
  /\ \A c \in processed : ToSet(Outputs[Creator(c)]) \subseteq Rows

Underway(c) ==
  \/ [kind |-> "post", coin |-> c] \in tasks
  \/ \E w \in Workers : Commits(w, c) \/ Finishes(w, c)

\* At most n elements.
AtMost(S, n) == IsFiniteSet(S) /\ Cardinality(S) <= n

\* Every row has had its post-save task or will have it, but for the rows of
\* one transaction per worker killed; and while addresses are not rescanned it
\* was reported or will be, but for one row per worker killed.
Followed(c) == c \in processed \/ Underway(c)
Told(c) == announced[c] = 1 \/ \E w \in Workers : Owes(w, c)

Forgotten == {tx \in Txs : \E c \in Rows : Creator(c) = tx /\ ~ Followed(c)}
Untold == {c \in Rows : ~ Told(c)}
Owed == crashes \in Nat /\ AtMost(Forgotten, crashes) /\ (NoScan => AtMost(Untold, crashes))

OwedInv == Prepared /\ Owed

\* The agenda of a worker that goes on, call by call.
LEMMA ContinueAgenda ==
  ASSUME Shape, NEW w \in Workers, agenda[w] # << >>, NEW more \in Seq(Call), Continue(w, more)
  PROVE  /\ agenda'[w] = more \o Tail(agenda[w])
         /\ agenda[w] \in Seq(Call) /\ Tail(agenda[w]) \in Seq(Call)
         /\ \A v \in Workers : v # w => agenda'[v] = agenda[v]
         /\ \A v \in Workers : job'[v] \in {job[v], NoTask}
         /\ Next1(w) = agenda[w][1] /\ crashes' = crashes
         /\ more # << >> => agenda'[w] # << >> /\ Head(agenda'[w]) = Head(more)
         /\ \A i \in 1..Len(agenda[w]) : i # 1 =>
              \E j \in 1..Len(agenda'[w]) : agenda'[w][j] = agenda[w][i]
<1> DEFINE rest == Tail(agenda[w])  all == more \o rest  n == Len(agenda[w])  m == Len(more)
<1>1. agenda[w] \in Seq(Call)
  <2>1. agenda[w] \in Seq(Good(net)) /\ Good(net) \subseteq Call
    BY DEF Shape, Good
  <2> QED
    BY <2>1, SeqMonotonic
<1>2. /\ rest \in Seq(Call) /\ n \in Nat \ {0} /\ Len(rest) = n - 1
      /\ \A i \in 1..Len(rest) : rest[i] = agenda[w][i + 1]
  BY <1>1, EmptySeq, HeadTailProperties
<1>3. /\ agenda' = [agenda EXCEPT ![w] = all] /\ crashes' = crashes
      /\ job' = [job EXCEPT ![w] = IF all = << >> THEN NoTask ELSE job[w]]
  BY DEF Continue, Shape
<1>4. m \in Nat /\ Len(all) = m + (n - 1) /\ \A i \in 1..(n - 1) : all[m + i] = rest[i]
  <2>1. m \in Nat /\ Len(rest) = n - 1
    BY <1>2, LenProperties
  <2>2. /\ Len(all) = m + Len(rest)
        /\ \A i \in 1..m + Len(rest) : all[i] = IF i <= m THEN more[i] ELSE rest[i - m]
    BY <1>2, ConcatProperties
  <2> HIDE DEF all, m, n, rest
  <2> QED
    BY <1>2, <2>1, <2>2
<1>5. more # << >> => all # << >> /\ Head(all) = Head(more)
  BY <1>2, InFront
<1>6. agenda'[w] = all /\ (\A v \in Workers : v # w => agenda'[v] = agenda[v])
      /\ \A v \in Workers : job'[v] \in {job[v], NoTask}
  <2> HIDE DEF all
  <2> QED
    BY <1>3 DEF Shape
<1>7. ASSUME NEW i \in 1..Len(agenda[w]), i # 1
      PROVE  \E j \in 1..Len(agenda'[w]) : agenda'[w][j] = agenda[w][i]
  <2> HIDE DEF all, m, n, rest
  <2>1. i - 1 \in 1..(n - 1) /\ i - 1 \in 1..Len(rest) /\ (i - 1) + 1 = i /\ m + (i - 1) \in 1..Len(all)
    BY <1>2, <1>4, <1>7 DEF n
  <2>2. all[m + (i - 1)] = agenda[w][i]
    BY <1>2, <1>4, <2>1
  <2> QED
    BY <1>6, <2>1, <2>2
<1>8. Next1(w) = agenda[w][1]
  BY <1>1, HeadTailProperties DEF Next1
<1> QED
  BY <1>1, <1>2, <1>3, <1>5, <1>6, <1>7, <1>8 DEF all, rest

\* Any call keeps the lists prepared, if what it leads to is.
LEMMA PreparedByCall ==
  ASSUME Shape, Prepared, NEW w \in Workers, agenda[w] # << >>,
         NEW more \in Seq(Call), Continue(w, more),
         Rows \subseteq Rows', Ready(Rows', more),
         Makes(Next1(w)) \subseteq Rows' \cup MadeBy(more),
         \A task \in tasks' : task \in tasks \/ TaskReady(Rows', task),
         \A c \in processed' : c \in processed \/ ToSet(Outputs[Creator(c)]) \subseteq Rows'
  PROVE  Prepared'
<1>1. /\ agenda'[w] = more \o Tail(agenda[w])
      /\ agenda[w] \in Seq(Call) /\ Tail(agenda[w]) \in Seq(Call)
      /\ \A v \in Workers : v # w => agenda'[v] = agenda[v]
      /\ \A v \in Workers : job'[v] \in {job[v], NoTask}
  BY ContinueAgenda
<1>2. Ready(Rows', agenda'[w])
  <2>1. Ready(Rows, agenda[w])
    BY DEF Prepared
  <2>2. Ready(Rows \cup Makes(Next1(w)), Tail(agenda[w]))
    BY <1>1, <2>1, ReadyHeadTail DEF Next1
  <2>3. Ready(Rows' \cup MadeBy(more), Tail(agenda[w]))
    BY <2>2, ReadyMore
  <2> QED
    BY <1>1, <2>3, ReadyConcat
<1>3. ASSUME NEW v \in Workers PROVE Ready(Rows', agenda'[v]) /\ TaskReady(Rows', job'[v])
  <2>1. Ready(Rows, agenda[v]) /\ TaskReady(Rows, job[v])
    BY DEF Prepared
  <2>2. v # w => Ready(Rows', agenda'[v])
    BY <1>1, <2>1, ReadyMore
  <2>3. TaskReady(Rows', job'[v])
    BY <1>1, <2>1 DEF TaskReady, NoTask
  <2> QED
    BY <1>2, <2>2, <2>3
<1>4. \A task \in tasks' : TaskReady(Rows', task)
  BY DEF Prepared, TaskReady
<1>5. \A c \in processed' : ToSet(Outputs[Creator(c)]) \subseteq Rows'
  BY DEF Prepared
<1> QED
  BY <1>3, <1>4, <1>5 DEF Prepared, TaskReady, NoScan, Creator

LEMMA Fewer ==
  ASSUME NEW S, NEW n \in Nat, AtMost(S, n), NEW T, T \subseteq S
  PROVE  AtMost(T, n)
<1>1. IsFiniteSet(T) /\ Cardinality(T) <= Cardinality(S)
  BY FS_Subset DEF AtMost
<1>2. Cardinality(S) \in Nat /\ Cardinality(T) \in Nat
  BY <1>1, FS_CardinalityType DEF AtMost
<1> QED
  BY <1>1, <1>2 DEF AtMost

LEMMA OneMore ==
  ASSUME NEW S, NEW n \in Nat, AtMost(S, n), NEW x, NEW T, T \subseteq S \cup {x}
  PROVE  AtMost(T, n + 1)
<1>1. Cardinality(S) \in Nat /\ Cardinality(S) <= n
  BY FS_CardinalityType DEF AtMost
<1>2. IsFiniteSet(S \cup {x}) /\ Cardinality(S \cup {x}) <= Cardinality(S) + 1
  <2>1. IsFiniteSet(S)
    BY DEF AtMost
  <2>2. /\ IsFiniteSet(S \cup {x})
        /\ Cardinality(S \cup {x}) = IF x \in S THEN Cardinality(S) ELSE Cardinality(S) + 1
    BY <2>1, FS_AddElement
  <2> QED
    BY <1>1, <2>2
<1>3. Cardinality(S \cup {x}) \in Nat
  BY <1>2, FS_CardinalityType
<1>4. AtMost(S \cup {x}, n + 1)
  BY <1>1, <1>2, <1>3 DEF AtMost
<1> QED
  BY <1>4, Fewer

\* A step that is no kill and forgets no row.
LEMMA OwedKept ==
  ASSUME Owed, crashes' = crashes,
         \A c \in Rows' : /\ (c \in Rows => Followed(c)) => Followed(c)'
                          /\ NoScan /\ (c \in Rows => Told(c)) => Told(c)'
  PROVE  Owed'
<1>1. Forgotten' \subseteq Forgotten
  BY DEF Forgotten, Creator
<1>2. NoScan => Untold' \subseteq Untold
  BY DEF Untold
<1>3. AtMost(Forgotten', crashes) /\ (NoScan => AtMost(Untold', crashes))
  BY <1>1, <1>2, Fewer DEF Owed
<1> QED
  BY <1>3 DEF Owed, AtMost, NoScan

\* A row that is followed up or reported stays so, or is about to be.
LEMMA OwedByCall ==
  ASSUME Shape, Owed, NEW w \in Workers, agenda[w] # << >>,
         NEW more \in Seq(Call), Continue(w, more),
         tasks \subseteq tasks', processed \subseteq processed',
         Next1(w).do = "commit" => [kind |-> "post", coin |-> Next1(w).coin] \in tasks',
         Next1(w).do = "processed" => Next1(w).coin \in processed',
         \A c \in Coins : announced[c] = 1 \/ Owes(w, c) => announced'[c] = 1,
         \A c \in Rows' : c \notin Rows => /\ more # << >> /\ Head(more).do = "commit"
                                           /\ Head(more).coin = c /\ (NoScan => Head(more).ack)
  PROVE  Owed'
<1>1. /\ \A v \in Workers : v # w => agenda'[v] = agenda[v]
      /\ Next1(w) = agenda[w][1] /\ crashes' = crashes
      /\ more # << >> => agenda'[w] # << >> /\ Head(agenda'[w]) = Head(more)
      /\ \A i \in 1..Len(agenda[w]) : i # 1 =>
           \E j \in 1..Len(agenda'[w]) : agenda'[w][j] = agenda[w][i]
  BY ContinueAgenda
<1> SUFFICES ASSUME NEW c \in Rows'
             PROVE  /\ (c \in Rows => Followed(c)) => Followed(c)'
                    /\ NoScan /\ (c \in Rows => Told(c)) => Told(c)'
  BY <1>1, OwedKept
<1>2. CASE c \notin Rows
  <2>1. /\ agenda'[w] # << >> /\ Head(agenda'[w]).do = "commit"
        /\ Head(agenda'[w]).coin = c /\ (NoScan => Head(agenda'[w]).ack)
    BY <1>1, <1>2
  <2>2. Commits(w, c)' /\ (NoScan => Owes(w, c)')
    BY <2>1 DEF Commits, Runs, Next1, Owes
  <2> QED
    BY <2>2 DEF Followed, Underway, Told
<1>3. CASE c \in Rows
  <2>1. c \in Coins
    BY <1>3 DEF Rows
  <2>2. ASSUME Followed(c) PROVE Followed(c)'
    <3>1. CASE c \in processed \/ [kind |-> "post", coin |-> c] \in tasks
      BY <3>1 DEF Followed, Underway
    <3>2. CASE \E v \in Workers : Commits(v, c)
      <4>1. PICK v \in Workers : Commits(v, c)
        BY <3>2
      <4>2. CASE v = w
        BY <4>1, <4>2 DEF Commits, Runs, Followed, Underway
      <4>3. CASE v # w
        <5>1. Commits(v, c)'
          BY <1>1, <4>1, <4>3 DEF Commits, Runs, Next1
        <5> QED
          BY <5>1 DEF Followed, Underway
      <4> QED
        BY <4>2, <4>3
    <3>3. CASE \E v \in Workers : Finishes(v, c)
      <4>1. PICK v \in Workers : Finishes(v, c)
        BY <3>3
      <4>2. CASE v # w
        <5>1. Finishes(v, c)'
          BY <1>1, <4>1, <4>2 DEF Finishes
        <5> QED
          BY <5>1 DEF Followed, Underway
      <4>3. CASE v = w
        <5>1. PICK i \in 1..Len(agenda[w]) : agenda[w][i].do = "processed" /\ agenda[w][i].coin = c
          BY <4>1, <4>3 DEF Finishes
        <5>2. CASE i = 1
          BY <1>1, <5>1, <5>2 DEF Followed
        <5>3. CASE i # 1
          <6>1. PICK j \in 1..Len(agenda'[w]) : agenda'[w][j] = agenda[w][i]
            BY <1>1, <5>3
          <6>2. Finishes(w, c)'
            BY <5>1, <6>1 DEF Finishes
          <6> QED
            BY <6>2 DEF Followed, Underway
        <5> QED
          BY <5>2, <5>3
      <4> QED
        BY <4>2, <4>3
    <3> QED
      BY <2>2, <3>1, <3>2, <3>3 DEF Followed, Underway
  <2>3. ASSUME Told(c) PROVE Told(c)'
    <3>1. CASE announced[c] = 1 \/ Owes(w, c)
      BY <2>1, <3>1 DEF Told
    <3>2. ASSUME NEW v \in Workers, v # w, Owes(v, c) PROVE Told(c)'
      <4>1. Owes(v, c)'
        BY <1>1, <3>2 DEF Owes
      <4> QED
        BY <4>1 DEF Told
    <3> QED
      BY <2>3, <3>1, <3>2 DEF Told
  <2> QED
    BY <1>3, <2>2, <2>3
<1> QED
  BY <1>2, <1>3

\* The calls that neither create, commit nor finish a row.
LEMMA OtherCall ==
  ASSUME Shape, OwedInv, NEW w \in Workers, agenda[w] # << >>,
         NEW more \in Seq(Call), Continue(w, more),
         Next1(w).do \notin {"commit", "processed"},
         Rows' = Rows, Ready(Rows, more), Makes(Next1(w)) \subseteq Rows \cup MadeBy(more),
         UNCHANGED <<processed, announced>>, tasks \subseteq tasks',
         \A task \in tasks' : task \in tasks \/ TaskReady(Rows, task)
  PROVE  OwedInv'
<1>1. Prepared'
  BY PreparedByCall DEF OwedInv
<1>2. \A c \in Coins : ~ Owes(w, c)
  BY DEF Owes, Next1
<1>3. Owed'
  BY <1>2, OwedByCall DEF OwedInv
<1> QED
  BY <1>1, <1>3 DEF OwedInv

LEMMA SetRowsKeepsWhich ==
  ASSUME Shape, NEW cs \in SUBSET Coins, NEW flag \in {"spent", "unspent"}, SetRows(cs, flag)
  PROVE  Rows' = Rows
  BY DEF Shape, SetRows, Rows, Has

\* A call that ends without leading to another.
LEMMA LastCall ==
  ASSUME Shape, OwedInv, NEW w \in Workers, agenda[w] # << >>, Continue(w, << >>),
         Next1(w).do \notin {"commit", "processed", "save", "save_missing"},
         Rows' = Rows, UNCHANGED <<processed, announced>>, tasks \subseteq tasks',
         \A task \in tasks' : task \in tasks \/ TaskReady(Rows, task)
  PROVE  OwedInv'
<1>1. << >> \in Seq(Call) /\ Ready(Rows, << >>)
  BY EmptySeq, ReadyEmpty
<1>2. Makes(Next1(w)) = {}
  BY DEF Makes
<1> QED
  BY <1>1, <1>2, OtherCall

\* A call that leads to one other, which awaits nothing.
LEMMA OneMoreCall ==
  ASSUME Shape, OwedInv, NEW w \in Workers, agenda[w] # << >>,
         NEW more \in Call, Continue(w, <<more>>), Awaits(more) \subseteq Rows,
         Next1(w).do \notin {"commit", "processed"},
         Rows' = Rows, Makes(Next1(w)) \subseteq Rows \cup Makes(more),
         UNCHANGED <<processed, announced, tasks>>
  PROVE  OwedInv'
<1>1. <<more>> \in Seq(Call) /\ Ready(Rows, <<more>>) /\ Makes(more) \subseteq MadeBy(<<more>>)
  BY OneCall, ReadyOne
<1>2. /\ Makes(Next1(w)) \subseteq Rows \cup MadeBy(<<more>>) /\ tasks \subseteq tasks'
      /\ \A task \in tasks' : task \in tasks
  BY <1>1
<1> QED
  BY <1>1, <1>2, OtherCall

LEMMA SpentFlagsKeepOwed ==
  ASSUME Shape, OwedInv, NEW w \in Workers,
         MarkInputsAsSpent(w) \/ UnspendRow(w) \/ FlagUnlisted(w)
  PROVE  OwedInv'
<1>1. /\ agenda[w] # << >> /\ Next1(w).do \in {"mark", "unspend", "flag"}
      /\ Continue(w, << >>) /\ UNCHANGED <<processed, announced, tasks>>
  BY DEF MarkInputsAsSpent, UnspendRow, FlagUnlisted, Runs
<1>2. Next1(w) \in Call
  BY <1>1, HeadIsGood
<1>3. \E cs \in SUBSET Coins, flag \in {"spent", "unspent"} : SetRows(cs, flag)
  <2>1. CASE MarkInputsAsSpent(w)
    <3>1. ToSet(Inputs[Next1(w).tx]) \in SUBSET Coins
      BY <1>2, <2>1, CallFields, CoinsOf DEF MarkInputsAsSpent, Runs
    <3> QED
      BY <2>1, <3>1 DEF MarkInputsAsSpent
  <2>2. CASE UnspendRow(w)
    <3>1. {Next1(w).coin} \in SUBSET Coins
      BY <1>2, <2>2, CallFields DEF UnspendRow, Runs
    <3> QED
      BY <2>2, <3>1 DEF UnspendRow
  <2>3. CASE FlagUnlisted(w)
    <3>1. Next1(w).coins \in SUBSET Coins
      BY <1>2, <2>3, CallFields DEF FlagUnlisted, Runs
    <3> QED
      BY <2>3, <3>1 DEF FlagUnlisted
  <2> QED
    BY <2>1, <2>2, <2>3
<1>4. Rows' = Rows
  BY <1>3, SetRowsKeepsWhich
<1> QED
  BY <1>1, <1>4, LastCall

LEMMA CreateRowKeepsOwed ==
  ASSUME Shape, OwedInv, NEW w \in Workers, CreateRow(w)
  PROVE  OwedInv'
<1>1. agenda[w] # << >> /\ Next1(w).do = "save" /\ ~ Has(Next1(w).coin)
  BY DEF CreateRow, Runs
<1>2. PICK coin \in Coins, ack \in BOOLEAN, fresh \in BOOLEAN :
        coin = Next1(w).coin /\ ack = Next1(w).ack /\ fresh = Next1(w).fresh
  BY <1>1, HeadIsGood, CallFields
<1> DEFINE commit == [do |-> "commit", coin |-> coin, ack |-> ack]
           after == IF fresh THEN Unspend(coin) ELSE << >>
           more == <<commit>> \o after
<1>3. /\ Continue(w, more) /\ UNCHANGED <<processed, announced, tasks>>
      /\ Rows' = Rows \cup {coin}
  BY <1>2 DEF CreateRow, Wrote, Rows, Has, Shape
<1>4. NoScan => ack
  <2>1. agenda[w] \in Seq(Good(net)) /\ Ready(Rows, agenda[w])
    BY DEF Shape, OwedInv, Prepared
  <2>2. Awaits(Next1(w)) \subseteq Rows
    BY <1>1, <2>1, ReadyHeadTail DEF Next1
  <2> QED
    BY <1>1, <1>2, <2>2 DEF Awaits, Rows
<1>5. /\ <<commit>> \in Seq(Call) /\ after \in Seq(Call)
      /\ \A Q : Ready(Q, <<commit>>) /\ Ready(Q, after)
  <2>1. commit \in Call /\ Awaits(commit) = {}
    BY DEF Call, Awaits
  <2>2. [do |-> "unspend", coin |-> coin] \in Call /\ Awaits([do |-> "unspend", coin |-> coin]) = {}
    BY DEF Call, Awaits
  <2>3. after \in Seq(Call) /\ \A Q : Ready(Q, after)
    BY <2>2, OneCall, EmptySeq, ReadyOne, ReadyEmpty DEF Unspend
  <2> HIDE DEF commit
  <2> QED
    BY <2>1, <2>3, OneCall, ReadyOne
<1>6. commit.do = "commit" /\ commit.coin = coin /\ commit.ack = ack
  OBVIOUS
<1> HIDE DEF commit, after
<1>7. /\ more \in Seq(Call) /\ Ready(Rows', more)
      /\ more # << >> /\ Head(more) = commit
  <2>1. more \in Seq(Call) /\ Ready(Rows', more)
    BY <1>5, ConcatProperties, ReadyConcat
  <2>2. <<commit>> # << >> /\ Head(<<commit>>) = commit /\ Tail(<<commit>>) = << >>
    OBVIOUS
  <2>3. more # << >> /\ Head(more) = Head(<<commit>>)
    BY <1>5, <2>2, InFront, EmptySeq
  <2> QED
    BY <2>1, <2>2, <2>3
<1> HIDE DEF more
<1>8. Makes(Next1(w)) \subseteq {coin}
  BY <1>2 DEF Makes
<1>9. Prepared'
  BY <1>1, <1>3, <1>7, <1>8, PreparedByCall DEF OwedInv
<1>10. \A c \in Coins : ~ Owes(w, c)
  BY <1>1 DEF Owes, Next1
<1>11. Owed'
  BY <1>1, <1>3, <1>4, <1>6, <1>7, <1>10, OwedByCall DEF OwedInv
<1> QED
  BY <1>9, <1>11 DEF OwedInv

LEMMA LoadRowKeepsOwed ==
  ASSUME Shape, OwedInv, NEW w \in Workers, LoadRow(w)
  PROVE  OwedInv'
<1>1. agenda[w] # << >> /\ Next1(w).do = "save" /\ Has(Next1(w).coin)
  BY DEF LoadRow, Runs
<1>2. Next1(w).coin \in Coins /\ Next1(w).spent \in BOOLEAN
  BY <1>1, HeadIsGood, CallFields
<1> DEFINE write == [do |-> "write", coin |-> Next1(w).coin,
                     spent |-> Next1(w).spent \/ row[Next1(w).coin] = "spent"]
<1>3. write \in Call /\ Awaits(write) = {}
  BY <1>2 DEF Call, Awaits
<1>4. Continue(w, <<write>>) /\ UNCHANGED <<processed, announced, tasks>> /\ Rows' = Rows
  BY DEF LoadRow, Rows, Has
<1>5. Makes(Next1(w)) \subseteq Rows
  BY <1>1 DEF Makes, Rows
<1> HIDE DEF write
<1> QED
  BY <1>1, <1>3, <1>4, <1>5, OneMoreCall

LEMMA SaveRowKeepsOwed ==
  ASSUME Shape, OwedInv, NEW w \in Workers, SaveRow(w)
  PROVE  OwedInv'
<1>1. agenda[w] # << >> /\ Next1(w).do = "write"
  BY DEF SaveRow, Runs
<1>2. Next1(w).coin \in Coins
  BY <1>1, HeadIsGood, CallFields
<1> DEFINE commit == [do |-> "commit", coin |-> Next1(w).coin, ack |-> FALSE]
<1>3. commit \in Call /\ Awaits(commit) = {}
  BY <1>2 DEF Call, Awaits
<1>4. Continue(w, <<commit>>) /\ UNCHANGED <<processed, announced, tasks>>
  BY DEF SaveRow, Wrote
<1>5. Rows' = Rows
  BY <1>2, SetRowsKeepsWhich DEF SaveRow
<1>6. Makes(Next1(w)) = {}
  BY <1>1 DEF Makes
<1> HIDE DEF commit
<1> QED
  BY <1>1, <1>3, <1>4, <1>5, <1>6, OneMoreCall

LEMMA CommittedKeepsOwed ==
  ASSUME Shape, Reports, OwedInv, NEW w \in Workers, Committed(w)
  PROVE  OwedInv'
<1>1. agenda[w] # << >> /\ Next1(w).do = "commit"
  BY DEF Committed, Runs
<1>2. PICK coin \in Coins, ack \in BOOLEAN : coin = Next1(w).coin /\ ack = Next1(w).ack
  BY <1>1, HeadIsGood, CallFields
<1>3. /\ tasks' = tasks \cup {[kind |-> "post", coin |-> coin]}
      /\ announced' = [announced EXCEPT ![coin] = @ + IF ack THEN 1 ELSE 0]
      /\ Continue(w, << >>) /\ UNCHANGED <<row, processed>>
  BY <1>2 DEF Committed
<1>4. << >> \in Seq(Call) /\ Ready(Rows, << >>) /\ Makes(Next1(w)) = {}
  BY <1>1, EmptySeq, ReadyEmpty DEF Makes
<1>5. Rows' = Rows
  BY <1>3 DEF Rows, Has
<1>6. \A task \in tasks' : task \in tasks \/ TaskReady(Rows', task)
  BY <1>3 DEF TaskReady
<1>7. Prepared'
  BY <1>1, <1>3, <1>4, <1>5, <1>6, PreparedByCall DEF OwedInv
<1>8. ASSUME NEW c \in Coins, announced[c] = 1 \/ Owes(w, c) PROVE announced'[c] = 1
  <2>1. Owes(w, coin) <=> ack
    BY <1>1, <1>2 DEF Owes, Next1
  <2>2. Owes(w, c) => c = coin
    BY <1>2 DEF Owes, Next1
  <2>3. Owes(w, coin) => announced[coin] = 0
    BY DEF Reports
  <2>4. announced \in [Coins -> 0..1]
    BY DEF Reports
  <2> QED
    BY <1>3, <1>8, <2>1, <2>2, <2>3, <2>4
<1>9. Owed'
  BY <1>1, <1>2, <1>3, <1>4, <1>5, <1>8, OwedByCall DEF OwedInv
<1> QED
  BY <1>7, <1>9 DEF OwedInv

LEMMA SaveIfMissingKeepsOwed ==
  ASSUME Shape, OwedInv, NEW w \in Workers, SaveIfMissing(w)
  PROVE  OwedInv'
<1>1. /\ agenda[w] # << >> /\ Next1(w).do = "save_missing"
      /\ Rows' = Rows /\ UNCHANGED <<processed, announced, tasks>>
  BY DEF SaveIfMissing, Runs, Rows, Has
<1>2. PICK call \in [do : {"save", "save_missing"}, coin : Coins, spent : BOOLEAN, ack : BOOLEAN, fresh : BOOLEAN] :
        call = Next1(w)
  BY <1>1, HeadIsGood, CallFields
<1> DEFINE save == [call EXCEPT !.do = "save"]
<1>3. save \in Call /\ Makes(save) = Makes(call) /\ Awaits(save) \subseteq Awaits(call)
  <2>1. save.do = "save" /\ save.coin = call.coin /\ save.ack = call.ack /\ call.do = "save_missing"
    BY <1>1, <1>2
  <2>2. save \in Call
    BY <1>2 DEF Call
  <2>3. Makes(save) = Makes(call)
    BY <2>1 DEF Makes
  <2>4. Awaits(save) \subseteq Awaits(call)
    BY <2>1 DEF Awaits
  <2> QED
    BY <2>2, <2>3, <2>4
<1>4. Awaits(call) \subseteq Rows
  <2>1. agenda[w] \in Seq(Good(net)) /\ Ready(Rows, agenda[w])
    BY DEF Shape, OwedInv, Prepared
  <2> QED
    BY <1>1, <1>2, <2>1, ReadyHeadTail DEF Next1
<1> HIDE DEF save
<1>5. CASE Has(call.coin)
  <2>1. Continue(w, << >>)
    BY <1>2, <1>5 DEF SaveIfMissing
  <2>2. Makes(call) \subseteq Rows
    BY <1>5 DEF Makes, Rows
  <2>3. << >> \in Seq(Call) /\ Ready(Rows, << >>)
    BY EmptySeq, ReadyEmpty
  <2>4. Makes(Next1(w)) \subseteq Rows \cup MadeBy(<< >>)
    BY <1>2, <2>2
  <2> QED
    BY <1>1, <2>1, <2>3, <2>4, OtherCall
<1>6. CASE ~ Has(call.coin)
  <2>1. Continue(w, <<save>>)
    BY <1>2, <1>6 DEF SaveIfMissing, save
  <2>2. Awaits(save) \subseteq Rows /\ Makes(Next1(w)) \subseteq Rows \cup Makes(save)
    BY <1>2, <1>3, <1>4
  <2> QED
    BY <1>1, <1>3, <2>1, <2>2, OneMoreCall
<1> QED
  BY <1>5, <1>6

LEMMA ParsingKeepsOwed ==
  ASSUME Shape, OwedInv, NEW w \in Workers, Parse(w) \/ ParseLater(w)
  PROVE  OwedInv'
<1>1. agenda[w] # << >> /\ Next1(w).do \in {"histories", "histories_later"}
  BY DEF Parse, ParseLater, Runs
<1>2. PICK tx \in Txs : tx = Next1(w).tx
  BY <1>1, HeadIsGood, CallFields
<1>3. NoScan => ToSet(Inputs[tx]) \cup ToSet(Outputs[tx]) \subseteq Rows
  <2>1. agenda[w] \in Seq(Good(net)) /\ Ready(Rows, agenda[w])
    BY DEF Shape, OwedInv, Prepared
  <2>2. Awaits(Next1(w)) \subseteq Rows
    BY <1>1, <2>1, ReadyHeadTail DEF Next1
  <2>3. ToSet(Inputs[tx]) \subseteq Coins /\ ToSet(Outputs[tx]) \subseteq Coins
    BY CoinsOf
  <2> QED
    BY <1>1, <1>2, <2>2, <2>3 DEF Awaits
<1>4. Makes(Next1(w)) = {} /\ Next1(w).do \notin {"commit", "processed"}
  BY <1>1 DEF Makes
<1>5. CASE Parse(w)
  <2>1. PICK calls \in ParseTxWalletHistories(tx) : Continue(w, calls)
    BY <1>2, <1>5 DEF Parse
  <2>2. calls \in Seq(Call) /\ Ready(Rows, calls)
    BY <1>3, ParsingIsReady
  <2>3. Rows' = Rows /\ UNCHANGED <<processed, announced, tasks>>
    BY <1>5 DEF Parse, Rows, Has
  <2> QED
    BY <1>1, <1>4, <2>1, <2>2, <2>3, OtherCall
<1>6. CASE ParseLater(w)
  <2>1. /\ tasks' = tasks \cup {[kind |-> "histories", tx |-> tx]} /\ Continue(w, << >>)
        /\ Rows' = Rows /\ UNCHANGED <<processed, announced>>
    BY <1>2, <1>6 DEF ParseLater, Rows, Has
  <2>2. \A task \in tasks' : task \in tasks \/ TaskReady(Rows, task)
    BY <1>3, <2>1 DEF TaskReady
  <2> QED
    BY <1>1, <2>1, <2>2, LastCall
<1> QED
  BY <1>5, <1>6

LEMMA ListNextKeepsOwed ==
  ASSUME Shape, OwedInv, NEW w \in Workers, ListNext(w)
  PROVE  OwedInv'
<1>1. /\ agenda[w] # << >> /\ Next1(w).do = "list"
      /\ Rows' = Rows /\ UNCHANGED <<processed, announced, tasks>>
  BY DEF ListNext, Runs, Rows, Has
<1>2. ~ NoScan
  BY <1>1, HeadIsGood DEF GoodCall
<1>3. PICK call \in [do : {"list"}, addr : Addresses, left : SUBSET Coins, keep : SUBSET Coins] :
        call = Next1(w)
  BY <1>1, HeadIsGood, CallFields
<1>4. Makes(Next1(w)) = {}
  BY <1>1 DEF Makes
<1> DEFINE reset(c) == [do |-> "reset", coin |-> c]
           parse(c) == [do |-> "histories", tx |-> Creator(c)]
           again(c) == [call EXCEPT !.left = @ \ {c}]
           sweep == [do |-> "sweep", addr |-> call.addr, keep |-> call.keep]
<1>5. ASSUME NEW c \in call.left, Continue(w, <<reset(c)>> \o <<parse(c)>> \o <<again(c)>>)
      PROVE  OwedInv'
  <2>1. c \in Coins /\ Creator(c) \in Txs
    BY CreatorExists
  <2>2. /\ reset(c) \in Call /\ Awaits(reset(c)) = {}
        /\ parse(c) \in Call /\ Awaits(parse(c)) = {}
        /\ again(c) \in Call /\ Awaits(again(c)) = {}
    BY <1>2, <2>1 DEF Call, Awaits
  <2> DEFINE r == <<reset(c)>>  p == <<parse(c)>>  a == <<again(c)>>  rp == r \o p
  <2>3. /\ r \in Seq(Call) /\ p \in Seq(Call) /\ a \in Seq(Call)
        /\ \A Q : Ready(Q, r) /\ Ready(Q, p) /\ Ready(Q, a)
    <3> HIDE DEF reset, parse, again
    <3> QED
      BY <2>2, OneCall, ReadyOne
  <2> HIDE DEF r, p, a
  <2>4. rp \in Seq(Call) /\ Ready(Rows, rp)
    BY <2>3, ConcatProperties, ReadyConcat
  <2> HIDE DEF rp
  <2>5. rp \o a \in Seq(Call) /\ Ready(Rows, rp \o a)
    BY <2>3, <2>4, ConcatProperties, ReadyConcat
  <2>6. Continue(w, rp \o a)
    BY <1>5 DEF rp, r, p, a
  <2> QED
    BY <1>1, <1>4, <2>5, <2>6, OtherCall
<1>6. ASSUME Continue(w, <<sweep>>) PROVE OwedInv'
  <2>1. sweep \in Call /\ Awaits(sweep) = {}
    BY DEF Call, Awaits
  <2> HIDE DEF sweep
  <2> QED
    BY <1>1, <1>4, <1>6, <2>1, OneMoreCall
<1> QED
  BY <1>3, <1>5, <1>6 DEF ListNext, Histories

LEMMA ResetRowKeepsOwed ==
  ASSUME Shape, OwedInv, NEW w \in Workers, ResetRow(w)
  PROVE  OwedInv'
<1>1. agenda[w] # << >> /\ Next1(w).do = "reset" /\ UNCHANGED <<processed, announced, tasks>>
  BY DEF ResetRow, Runs
<1>2. PICK c \in Coins : c = Next1(w).coin
  BY <1>1, HeadIsGood, CallFields
<1>3. Rows' = Rows
  BY <1>2, SetRowsKeepsWhich DEF ResetRow
<1> DEFINE save == [do |-> "save", coin |-> c, spent |-> FALSE, ack |-> TRUE, fresh |-> TRUE]
<1>4. save \in Call /\ Awaits(save) = {} /\ Makes(Next1(w)) = {}
  BY <1>1 DEF Call, Awaits, Makes
<1>5. Continue(w, << >>) \/ Continue(w, <<save>>)
  BY <1>2 DEF ResetRow
<1> HIDE DEF save
<1>6. CASE Continue(w, << >>)
  BY <1>1, <1>3, <1>6, LastCall
<1>7. CASE Continue(w, <<save>>)
  BY <1>1, <1>3, <1>4, <1>7, OneMoreCall
<1> QED
  BY <1>5, <1>6, <1>7

LEMMA ReadUnlistedKeepsOwed ==
  ASSUME Shape, OwedInv, NEW w \in Workers, ReadUnlisted(w)
  PROVE  OwedInv'
<1> DEFINE cs == {c \in Coins : AddressOf[c] = Next1(w).addr /\ row[c] = "unspent"} \ Next1(w).keep
           flag == [do |-> "flag", coins |-> cs]
<1>1. /\ agenda[w] # << >> /\ Next1(w).do = "sweep" /\ UNCHANGED <<processed, announced, tasks>>
      /\ Rows' = Rows /\ Continue(w, <<flag>>)
  BY DEF ReadUnlisted, Runs, Rows, Has
<1>2. flag \in Call /\ Awaits(flag) = {} /\ Makes(Next1(w)) = {}
  <2>1. cs \in SUBSET Coins
    OBVIOUS
  <2> HIDE DEF cs
  <2> QED
    BY <1>1, <2>1 DEF Call, Awaits, Makes
<1> HIDE DEF flag
<1> QED
  BY <1>1, <1>2, OneMoreCall

LEMMA PostSaveDoneKeepsOwed ==
  ASSUME Shape, OwedInv, NEW w \in Workers, PostSaveDone(w)
  PROVE  OwedInv'
<1>1. /\ agenda[w] # << >> /\ Next1(w).do = "processed" /\ Continue(w, << >>)
      /\ processed' = processed \cup {Next1(w).coin} /\ UNCHANGED <<row, announced, tasks>>
  BY DEF PostSaveDone, Runs
<1>2. PICK c \in Coins : c = Next1(w).coin
  BY <1>1, HeadIsGood, CallFields
<1>3. Rows' = Rows
  BY <1>1 DEF Rows, Has
<1>4. << >> \in Seq(Call) /\ Ready(Rows, << >>) /\ Makes(Next1(w)) = {}
  BY <1>1, EmptySeq, ReadyEmpty DEF Makes
<1>5. ToSet(Outputs[Creator(c)]) \subseteq Rows
  <2>1. agenda[w] \in Seq(Good(net)) /\ Ready(Rows, agenda[w])
    BY DEF Shape, OwedInv, Prepared
  <2>2. Awaits(Next1(w)) \subseteq Rows
    BY <1>1, <2>1, ReadyHeadTail DEF Next1
  <2>3. ToSet(Outputs[Creator(c)]) \subseteq Coins
    BY CreatorExists, CoinsOf
  <2> QED
    BY <1>1, <1>2, <2>2, <2>3 DEF Awaits
<1>6. Prepared'
  BY <1>1, <1>2, <1>3, <1>4, <1>5, PreparedByCall DEF OwedInv
<1>7. \A d \in Coins : ~ Owes(w, d)
  BY <1>1 DEF Owes, Next1
<1>8. Owed'
  BY <1>1, <1>2, <1>3, <1>4, <1>7, OwedByCall DEF OwedInv
<1> QED
  BY <1>6, <1>8 DEF OwedInv

LEMMA StepKeepsOwed ==
  ASSUME Shape, Reports, OwedInv, NEW w \in Workers, Step(w)
  PROVE  OwedInv'
  BY SpentFlagsKeepOwed, CreateRowKeepsOwed, LoadRowKeepsOwed, SaveRowKeepsOwed,
     CommittedKeepsOwed, SaveIfMissingKeepsOwed, ParsingKeepsOwed, ListNextKeepsOwed,
     ResetRowKeepsOwed, ReadUnlistedKeepsOwed, PostSaveDoneKeepsOwed
     DEF Step
-----------------------------------------------------------------------------
(* The tasks.                                                               *)

\* The last call of a post-save task marks its row processed.
LEMMA PostSaveFinishes ==
  ASSUME NEW c \in Coins, c \notin processed
  PROVE  \E i \in 1..Len(TransactionPostSaveTask(c)) :
           /\ TransactionPostSaveTask(c)[i].do = "processed"
           /\ TransactionPostSaveTask(c)[i].coin = c
<1> DEFINE tx == Creator(c)  mark == Mark(tx)  pays == SavesOfMissing(Outputs[tx], TRUE)
           done == [do |-> "processed", coin |-> c]  first == mark \o pays  last == <<done>>
<1>1. tx \in Txs /\ Outputs[tx] \in Seq(Coins)
  BY CreatorExists, CoinsOf
<1>2. mark \in Seq(Call) /\ pays \in Seq(Call)
  <2>1. [do |-> "mark", tx |-> tx] \in Call
    BY <1>1 DEF Call
  <2> QED
    BY <1>1, <2>1, OneCall, SavesAreCalls DEF Mark
<1>3. done \in Call /\ done.do = "processed" /\ done.coin = c
  BY DEF Call
<1>4. last \in Seq(Call) /\ Len(last) = 1 /\ last[1] = done
  <2> HIDE DEF done
  <2> QED
    BY <1>3, OneCall
<1>5. TransactionPostSaveTask(c) = first \o last
  BY DEF TransactionPostSaveTask
<1> HIDE DEF mark, pays, done, last
<1>6. first \in Seq(Call)
  BY <1>2, ConcatProperties
<1> HIDE DEF first
<1>7. Len(first) \in Nat
  BY <1>6, LenProperties
<1>8. /\ Len(first \o last) = Len(first) + 1
      /\ (first \o last)[Len(first) + 1] = last[(Len(first) + 1) - Len(first)]
  <2>1. /\ Len(first \o last) = Len(first) + Len(last)
        /\ \A i \in 1..Len(first) + Len(last) :
             (first \o last)[i] = IF i <= Len(first) THEN first[i] ELSE last[i - Len(first)]
    BY <1>4, <1>6, ConcatProperties
  <2>2. Len(first) + 1 \in 1..Len(first) + Len(last) /\ ~ (Len(first) + 1 <= Len(first))
    BY <1>4, <1>7
  <2> QED
    BY <1>4, <2>1, <2>2
<1>9. Len(first) + 1 \in 1..Len(first \o last) /\ (first \o last)[Len(first) + 1] = done
  <2>1. (Len(first) + 1) - Len(first) = 1
    BY <1>7
  <2> QED
    BY <1>4, <1>7, <1>8, <2>1
<1> QED
  BY <1>3, <1>5, <1>9

\* A task that begins with calls that are ready, and that follows its row up
\* if it is a post-save task.
LEMMA BeginKeepsOwed ==
  ASSUME Shape, OwedInv, NEW w \in Workers, agenda[w] = << >>, NEW task \in tasks,
         NEW calls, Begin(w, task, calls), Ready(Rows, calls),
         task.kind = "post" => \/ task.coin \in processed
                               \/ \E i \in 1..Len(calls) :
                                    calls[i].do = "processed" /\ calls[i].coin = task.coin
  PROVE  OwedInv'
<1>1. /\ UNCHANGED <<row, processed, announced, crashes>> /\ tasks' = tasks \ {task}
      /\ agenda'[w] = calls /\ \A v \in Workers : v # w => agenda'[v] = agenda[v]
      /\ \A v \in Workers : job'[v] \in {job[v], NoTask, task}
  BY DEF Begin, Shape
<1>2. Rows' = Rows
  BY <1>1 DEF Rows, Has
<1>3. Prepared'
  <2>1. \A v \in Workers : Ready(Rows, agenda'[v])
    BY <1>1 DEF OwedInv, Prepared
  <2>2. \A v \in Workers : TaskReady(Rows, job'[v])
    BY <1>1 DEF OwedInv, Prepared, TaskReady, NoTask
  <2>3. \A t \in tasks' : TaskReady(Rows, t)
    BY <1>1 DEF OwedInv, Prepared
  <2>4. \A c \in processed' : ToSet(Outputs[Creator(c)]) \subseteq Rows
    BY <1>1 DEF OwedInv, Prepared
  <2> QED
    BY <1>2, <2>1, <2>2, <2>3, <2>4 DEF Prepared, TaskReady, NoScan, Creator
<1>4. ASSUME NEW c \in Rows PROVE (Followed(c) => Followed(c)') /\ (Told(c) => Told(c)')
  <2>2. \A v \in Workers : /\ Commits(v, c) \/ Finishes(v, c) \/ Owes(v, c) => v # w
                           /\ Commits(v, c) => Commits(v, c)'
                           /\ Finishes(v, c) => Finishes(v, c)'
                           /\ Owes(v, c) => Owes(v, c)'
    <3>1. Len(agenda[w]) = 0
      BY EmptySeq
    <3>2. ~ Commits(w, c) /\ ~ Finishes(w, c) /\ ~ Owes(w, c)
      BY <3>1 DEF Commits, Runs, Finishes, Owes
    <3>3. ASSUME NEW v \in Workers, v # w
          PROVE  /\ Commits(v, c) => Commits(v, c)'
                 /\ Finishes(v, c) => Finishes(v, c)'
                 /\ Owes(v, c) => Owes(v, c)'
      BY <1>1, <3>3 DEF Commits, Runs, Next1, Finishes, Owes
    <3> QED
      BY <3>2, <3>3
  <2>3. Told(c) => Told(c)'
    BY <1>1, <2>2 DEF Told
  <2>4. CASE task = [kind |-> "post", coin |-> c]
    <3>1. CASE c \in processed
      BY <1>1, <2>3, <3>1 DEF Followed
    <3>2. CASE c \notin processed
      <4>1. Finishes(w, c)'
        BY <1>1, <2>4, <3>2 DEF Finishes
      <4> QED
        BY <2>3, <4>1 DEF Followed, Underway
    <3> QED
      BY <3>1, <3>2
  <2>5. CASE task # [kind |-> "post", coin |-> c]
    BY <1>1, <2>2, <2>3, <2>5 DEF Followed, Underway
  <2> QED
    BY <2>4, <2>5
<1>5. Owed'
  BY <1>1, <1>2, <1>4, OwedKept DEF OwedInv
<1> QED
  BY <1>3, <1>5 DEF OwedInv

LEMMA StartKeepsOwed ==
  ASSUME Shape, OwedInv, NEW w \in Workers, NEW task \in tasks, Start(w, task)
  PROVE  OwedInv'
<1>1. task \in Task /\ GoodTask(net, task) /\ agenda[w] = << >>
  BY DEF Shape, GoodTasks, Start
<1>2. CASE /\ task.kind \in {"fast", "throttled"}
           /\ Begin(w, task, ProcessMempoolTransaction(task.tx, task.kind = "fast"))
  <2>1. Ready(Rows, ProcessMempoolTransaction(task.tx, task.kind = "fast"))
    BY <1>1, <1>2, TaskFields, ProgramsAreReady
  <2>2. task.kind # "post"
    BY <1>2
  <2> QED
    BY <1>1, <1>2, <2>1, <2>2, BeginKeepsOwed
<1>3. CASE task.kind = "histories" /\ Begin(w, task, Histories(task.tx, TRUE))
  <2>1. TaskReady(Rows, task)
    BY DEF OwedInv, Prepared
  <2>2. Ready(Rows, Histories(task.tx, TRUE))
    BY <1>1, <1>3, <2>1, TaskFields, ProgramsAreReady DEF TaskReady
  <2>3. task.kind # "post"
    BY <1>3
  <2> QED
    BY <1>1, <1>3, <2>2, <2>3, BeginKeepsOwed
<1>4. CASE task.kind = "block" /\ Begin(w, task, SaveTransaction(task.tx))
  <2>1. Ready(Rows, SaveTransaction(task.tx)) /\ task.kind # "post"
    BY <1>1, <1>4, TaskFields, ProgramsAreReady
  <2> QED
    BY <1>1, <1>4, <2>1, BeginKeepsOwed
<1>5. CASE task.kind = "post" /\ Begin(w, task, TransactionPostSaveTask(task.coin))
  <2>1. task.coin \in Coins
    BY <1>1, <1>5, TaskFields
  <2>2. Ready(Rows, TransactionPostSaveTask(task.coin))
    BY <2>1, CreatorExists, ProgramsAreReady
  <2>3. \/ task.coin \in processed
        \/ \E i \in 1..Len(TransactionPostSaveTask(task.coin)) :
             /\ TransactionPostSaveTask(task.coin)[i].do = "processed"
             /\ TransactionPostSaveTask(task.coin)[i].coin = task.coin
    BY <2>1, PostSaveFinishes
  <2> QED
    BY <1>1, <1>5, <2>2, <2>3, BeginKeepsOwed
<1>6. CASE task.kind = "scan" /\ Begin(w, task, GetBchUtxos(task.addr))
  <2>1. Ready(Rows, GetBchUtxos(task.addr)) /\ task.kind # "post"
    BY <1>1, <1>6, TaskFields, ReadyOne DEF GetBchUtxos, Awaits
  <2> QED
    BY <1>1, <1>6, <2>1, BeginKeepsOwed
<1> QED
  BY <1>2, <1>3, <1>4, <1>5, <1>6 DEF Start

\* A kill loses the report of the row in hand and the tasks of the rows of one
\* transaction; what waits is still prepared.
LEMMA CrashKeepsOwed ==
  ASSUME Shape, OneJob, OwedInv, NEW w \in Workers, Crash(w)
  PROVE  OwedInv'
<1>1. /\ UNCHANGED <<row, processed, announced>> /\ tasks' \subseteq tasks \cup {job[w]}
      /\ tasks \subseteq tasks'
      /\ agenda'[w] = << >> /\ \A v \in Workers : v # w => agenda'[v] = agenda[v]
      /\ \A v \in Workers : job'[v] \in {job[v], NoTask}
      /\ crashes' = crashes + 1
  BY DEF Crash, Shape
<1>2. Rows' = Rows
  BY <1>1 DEF Rows, Has
<1>3. \A v \in Workers : Ready(Rows, agenda'[v]) /\ TaskReady(Rows, job'[v])
  BY <1>1, ReadyEmpty DEF OwedInv, Prepared, TaskReady, NoTask
<1>4. \A t \in tasks' : TaskReady(Rows, t)
  BY <1>1 DEF OwedInv, Prepared
<1>5. \A c \in processed' : ToSet(Outputs[Creator(c)]) \subseteq Rows
  BY <1>1 DEF OwedInv, Prepared
<1>6. Prepared'
  BY <1>2, <1>3, <1>4, <1>5 DEF Prepared, TaskReady, NoScan, Creator
<1>7. ASSUME NEW v \in Workers, v # w, NEW c \in Coins
      PROVE  /\ Commits(v, c) => Commits(v, c)'
             /\ Finishes(v, c) => Finishes(v, c)'
             /\ Owes(v, c) => Owes(v, c)'
  BY <1>1, <1>7 DEF Commits, Runs, Next1, Finishes, Owes
<1>8. PICK d : \A c \in Coins : Owes(w, c) => c = d
  BY DEF Owes
<1>9. Untold' \subseteq Untold \cup {d}
  BY <1>1, <1>2, <1>7, <1>8 DEF Untold, Told, Rows
<1>10. PICK tx : \A c \in Coins : Commits(w, c) \/ Finishes(w, c) => Creator(c) = tx
  BY OneTransactionEach
<1>11. Forgotten' \subseteq Forgotten \cup {tx}
  <2>1. ASSUME NEW c \in Rows, ~ Followed(c)', Creator(c) # tx PROVE ~ Followed(c)
    BY <1>1, <1>7, <1>10, <2>1 DEF Followed, Underway, Rows
  <2> QED
    BY <1>2, <2>1 DEF Forgotten, Creator
<1>12. AtMost(Forgotten', crashes + 1) /\ (NoScan => AtMost(Untold', crashes + 1))
  BY <1>9, <1>11, OneMore DEF OwedInv, Owed
<1>13. Owed'
  BY <1>1, <1>12 DEF OwedInv, Owed, AtMost, NoScan
<1> QED
  BY <1>6, <1>13 DEF OwedInv

\* The chain, and requests for work.
LEMMA OutsideKeepsOwed ==
  ASSUME OwedInv, UNCHANGED <<row, processed, announced, job, agenda, crashes>>,
         tasks \subseteq tasks', \A task \in tasks' : task \in tasks \/ task.kind # "histories"
  PROVE  OwedInv'
<1>1. Rows' = Rows
  BY DEF Rows, Has
<1>2. Prepared'
  BY <1>1 DEF OwedInv, Prepared, TaskReady, NoScan, Creator
<1>3. \A c \in Rows : (Followed(c) => Followed(c)') /\ (Told(c) => Told(c)')
  BY DEF Followed, Underway, Commits, Runs, Next1, Finishes, Told, Owes
<1>4. Owed'
  BY <1>1, <1>3, OwedKept DEF OwedInv
<1> QED
  BY <1>2, <1>4 DEF OwedInv

LEMMA NextKeepsOwed ==
  ASSUME IInv, OneJob, OwedInv, [Next]_vars
  PROVE  OwedInv'
<1>1. CASE \E w \in Workers : (\E task \in tasks : Start(w, task)) \/ Step(w) \/ Crash(w)
  BY <1>1, StartKeepsOwed, StepKeepsOwed, CrashKeepsOwed DEF IInv
<1>2. CASE \/ \E tx \in Txs : NodeAccepts(tx) \/ Mine(tx) \/ OnMessage(tx) \/ BroadcastView(tx) \/ ScanBlock(tx)
           \/ \E a \in Addresses : ScanAddress(a)
  <2>1. CASE \E tx \in Txs : NodeAccepts(tx) \/ Mine(tx)
    BY <2>1, OutsideKeepsOwed DEF NodeAccepts, Mine
  <2>2. ASSUME NEW task, task.kind # "histories", Ask(task) PROVE OwedInv'
    BY <2>2, OutsideKeepsOwed DEF Ask
  <2>3. CASE \E tx \in Txs : OnMessage(tx) \/ BroadcastView(tx) \/ ScanBlock(tx)
    <3>1. \E tx \in Txs, kind \in {"fast", "throttled", "block"} : Ask([kind |-> kind, tx |-> tx])
      BY <2>3 DEF OnMessage, BroadcastView, ScanBlock
    <3> QED
      BY <2>2, <3>1
  <2>4. CASE \E a \in Addresses : ScanAddress(a)
    BY <2>2, <2>4 DEF ScanAddress
  <2> QED
    BY <1>2, <2>1, <2>3, <2>4
<1>3. CASE UNCHANGED vars
  BY <1>3, OutsideKeepsOwed DEF vars
<1> QED
  BY <1>1, <1>2, <1>3 DEF Next

LEMMA OwedInductive == Spec => []OwedInv
<1>1. Init => OwedInv
  <2> SUFFICES ASSUME Init PROVE OwedInv
    OBVIOUS
  <2>1. Rows = {} /\ processed = {} /\ tasks = {}
    BY DEF Init, Rows, Has
  <2>2. \A w \in Workers : Ready(Rows, agenda[w]) /\ TaskReady(Rows, job[w])
    BY ReadyEmpty DEF Init, TaskReady, NoTask
  <2>3. crashes = 0 /\ Forgotten = {} /\ Untold = {}
    BY <2>1 DEF Init, Forgotten, Untold
  <2>4. Owed
    BY <2>3, FS_EmptySet DEF Owed, AtMost
  <2> QED
    BY <2>1, <2>2, <2>4 DEF OwedInv, Prepared
<1>2. IInv /\ OneJob /\ OwedInv /\ [Next]_vars => OwedInv'
  BY NextKeepsOwed
<1> QED
  BY <1>1, <1>2, Inductive, OneJobAlways, PTL DEF Spec

\* While addresses are not rescanned, once all tasks are done every recorded
\* coin has been reported but for one per worker killed: of the paths that meet
\* an output, those that stay silent (process_output without an
\* acknowledgement) come only after one that does not.
THEOREM RecordedIsAnnouncedAlways ==
  ASSUME NoScan
  PROVE  Spec => []RecordedIsAnnounced
<1>1. OwedInv => RecordedIsAnnounced
  <2> SUFFICES ASSUME OwedInv, Idle
               PROVE  Cardinality({c \in Coins : Has(c) /\ announced[c] = 0}) <= crashes
    BY DEF RecordedIsAnnounced
  <2>1. {c \in Coins : Has(c) /\ announced[c] = 0} \subseteq Untold
    BY DEF Untold, Told, Rows, Owes, Idle
  <2> QED
    BY <2>1, Fewer DEF OwedInv, Owed, AtMost
<1> QED
  BY <1>1, OwedInductive, PTL

\* Once all tasks are done, a transaction is indexed whole or not at all but
\* for one per worker killed, rescans of addresses included: the task of any row
\* saves the other outputs before it marks the row (transaction_post_save_task).
THEOREM IndexedWholeAlways == Spec => []IndexedWhole
<1>1. OwedInv => IndexedWhole
  <2> DEFINE partly == {tx \in Txs : HasOutput(tx) /\ \E c \in ToSet(Outputs[tx]) : ~ Has(c)}
  <2> SUFFICES ASSUME OwedInv, Idle
               PROVE  Cardinality(partly) <= crashes
    BY DEF IndexedWhole
  <2>1. ASSUME NEW c \in Coins PROVE ~ Underway(c)
    <3>1. \A w \in Workers : Len(agenda[w]) = 0 /\ ~ Commits(w, c)
      BY EmptySeq DEF Idle, Commits, Runs
    <3> QED
      BY <3>1 DEF Underway, Finishes, Idle
  <2>2. ASSUME NEW tx \in Txs, tx \notin Forgotten,
               NEW c \in ToSet(Outputs[tx]), Has(c), NEW d \in ToSet(Outputs[tx])
        PROVE  Has(d)
    <3>1. c \in Rows /\ c \in Coins /\ Creator(c) = tx
      BY <2>2, CreatorOfOutput DEF Rows
    <3>2. c \in processed
      BY <2>1, <2>2, <3>1 DEF Forgotten, Followed
    <3> QED
      BY <3>1, <3>2 DEF OwedInv, Prepared, Rows
  <2>3. partly \subseteq Forgotten
    BY <2>2 DEF HasOutput
  <2> QED
    BY <2>3, Fewer DEF OwedInv, Owed, AtMost
<1> QED
  BY <1>1, OwedInductive, PTL
=============================================================================
