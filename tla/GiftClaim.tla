------------------------------ MODULE GiftClaim ------------------------------
(***************************************************************************)
(* Paytaca gifts.  A gift is a coin whose key is shared by a link: whoever  *)
(* has it may sweep the coin.  Views record who asks for a gift, and may    *)
(* send a transaction that they are given, whatever it does; one worker     *)
(* later compares the gifts with the index of coins and marks them funded   *)
(* and claimed.  Every gift is worth one unit and the gifts of Campaign     *)
(* share a limit per wallet.                                                *)
(***************************************************************************)
EXTENDS Naturals, FiniteSets

CONSTANTS
  Gifts, Wallets,
  Creator,    \* the wallet that makes the gifts
  Campaign,   \* the gifts of the campaign
  Limit,      \* Campaign.limit_per_wallet
  Txs,        \* signed transactions
  Spends,     \* Spends[tx]: the gifts whose coins it spends
  Pays,       \* Pays[tx]: the wallets of the index that it pays
  None,
  Requests,   \* requests served at a time
  MaxCoins,   \* bound: gifts that get their coin
  MaxKills    \* bound: kills of a request or of the worker

ASSUME GiftAssumption ==
  /\ Campaign \subseteq Gifts /\ Creator \in Wallets /\ Limit \in Nat
  /\ Spends \in [Txs -> SUBSET Gifts] /\ Pays \in [Txs -> SUBSET Wallets]
  /\ MaxCoins \in Nat /\ MaxKills \in Nat
  /\ None \notin Gifts \cup Wallets \cup Txs

VARIABLES
  coin, sent,                     \* gifts with a coin, transactions the node has
  fundSeen, spendSeen, paySeen, stamped, \* what the index has of coin and sweep
  row, dateFunded, dateClaimed, claimTxid, \* Gift rows
  claims, counted, succeeded,     \* Claim rows (gift and wallet), with campaign, with succeeded
  pc, req,                        \* the requests
  mpc, matched, dated,            \* the monitor worker
  kills

chain == <<coin, sent>>
index == <<fundSeen, spendSeen, paySeen, stamped>>
gift == <<row, dateFunded, dateClaimed, claimTxid>>
claim == <<claims, counted, succeeded>>
web == <<pc, req>>
monitor == <<mpc, matched, dated>>
vars == <<chain, index, gift, claim, web, monitor, kills>>

Pairs == Gifts \X Wallets
NoRequest == [gift |-> None, wallet |-> None, tx |-> None, campaign |-> FALSE]

TypeOK ==
  /\ coin \subseteq Gifts /\ sent \subseteq Txs
  /\ fundSeen \subseteq Gifts /\ spendSeen \subseteq Gifts
  /\ paySeen \subseteq Txs \X Wallets /\ stamped \subseteq Txs \X Wallets
  /\ row \in [Gifts -> {"none", "blank", "filled"}]
  /\ dateFunded \subseteq Gifts /\ dateClaimed \subseteq Gifts /\ claimTxid \subseteq Gifts
  /\ claims \subseteq Pairs /\ counted \subseteq claims /\ succeeded \subseteq claims
  /\ pc \in [Requests -> {"idle", "filling", "sending", "resending", "saving", "telling"}]
  /\ req \in [Requests ->
       [gift : Gifts \cup {None}, wallet : Wallets \cup {None}, tx : Txs \cup {None}, campaign : BOOLEAN]]
  /\ \A p \in Requests : pc[p] # "idle" => req[p].gift \in Gifts
  /\ \A p \in Requests : pc[p] \notin {"idle", "filling"} => req[p].wallet \in Wallets
  /\ \A p \in Requests : pc[p] \in {"sending", "resending", "telling"} => req[p].tx \in Txs
  /\ mpc \in {"idle", "matched", "claiming"}
  /\ matched \subseteq claims /\ dated \subseteq Gifts
  /\ kills \in 0..MaxKills

Init ==
  /\ coin = {} /\ sent = {}
  /\ fundSeen = {} /\ spendSeen = {} /\ paySeen = {} /\ stamped = {}
  /\ row = [g \in Gifts |-> "none"]
  /\ dateFunded = {} /\ dateClaimed = {} /\ claimTxid = {}
  /\ claims = {} /\ counted = {} /\ succeeded = {}
  /\ pc = [p \in Requests |-> "idle"] /\ req = [p \in Requests |-> NoRequest]
  /\ mpc = "idle" /\ matched = {} /\ dated = {}
  /\ kills = 0
-----------------------------------------------------------------------------
(* The chain and the index.                                                 *)

Fund(g) ==
  /\ g \notin coin /\ Cardinality(coin) < MaxCoins
  /\ coin' = coin \cup {g}
  /\ UNCHANGED <<sent, index, gift, claim, web, monitor, kills>>

\* The transactions that have swept the gift: one at most.
Sweeps(g) == {tx \in sent : g \in Spends[tx]}

Paid(g, w) == \E tx \in Sweeps(g) : w \in Pays[tx]

\* The node takes a transaction of coins that exist and are not spent.
Take(tx) ==
  /\ tx \notin sent /\ \A g \in Spends[tx] : g \in coin /\ Sweeps(g) = {}
  /\ sent' = sent \cup {tx}

\* Somebody who has the key sends a transaction without the server.
SendPast(tx) ==
  /\ Take(tx)
  /\ UNCHANGED <<coin, index, gift, claim, web, monitor, kills>>

\* The row of the coin, its spent flag, the rows of the outputs of the sweep,
\* and their timestamps come at different times.
SeeFund(g) ==
  /\ g \in coin \ fundSeen
  /\ fundSeen' = fundSeen \cup {g}
  /\ UNCHANGED <<chain, spendSeen, paySeen, stamped, gift, claim, web, monitor, kills>>

SeeSpend(g) ==
  /\ g \in fundSeen \ spendSeen /\ Sweeps(g) # {}
  /\ spendSeen' = spendSeen \cup {g}
  /\ UNCHANGED <<chain, fundSeen, paySeen, stamped, gift, claim, web, monitor, kills>>

SeePay(tx, w) ==
  /\ tx \in sent /\ w \in Pays[tx] /\ <<tx, w>> \notin paySeen
  /\ paySeen' = paySeen \cup {<<tx, w>>}
  /\ UNCHANGED <<chain, fundSeen, spendSeen, stamped, gift, claim, web, monitor, kills>>

Stamp(tx, w) ==
  /\ <<tx, w>> \in paySeen \ stamped
  /\ stamped' = stamped \cup {<<tx, w>>}
  /\ UNCHANGED <<chain, fundSeen, spendSeen, paySeen, gift, claim, web, monitor, kills>>
-----------------------------------------------------------------------------
(* The views.                                                               *)

Goto(p, at, g, w, tx) ==
  /\ pc' = [pc EXCEPT ![p] = at]
  /\ req' = [req EXCEPT ![p] = [gift |-> g, wallet |-> w, tx |-> tx,
                                campaign |-> row[g] = "filled" /\ g \in Campaign]]

\* The caller is told that its transaction was sent.
TellSent(p) == pc' = [pc EXCEPT ![p] = "telling"] /\ UNCHANGED req

End(p) ==
  /\ pc' = [pc EXCEPT ![p] = "idle"]
  /\ req' = [req EXCEPT ![p] = NoRequest]

Return(p) ==
  /\ pc[p] = "telling"
  /\ End(p)
  /\ UNCHANGED <<chain, index, gift, claim, monitor, kills>>

\* get_or_create, and a save of the other fields when it created: asked again
\* for a row that was not filled, the view answers and leaves it so.
Create(p, g) ==
  /\ pc[p] = "idle" /\ row[g] = "none"
  /\ row' = [row EXCEPT ![g] = "blank"]
  /\ Goto(p, "filling", g, None, None)
  /\ UNCHANGED <<chain, index, dateFunded, dateClaimed, claimTxid, claim, monitor, kills>>

Fill(p) ==
  /\ pc[p] = "filling"
  /\ row' = [row EXCEPT ![req[p].gift] = "filled"]
  /\ End(p)
  /\ UNCHANGED <<chain, index, dateFunded, dateClaimed, claimTxid, claim, monitor, kills>>

\* The succeeded claims of the wallet in the campaign, and this gift.  A row
\* that was not filled is in no campaign.
WithinLimit(g, w) ==
  row[g] = "filled" /\ g \in Campaign =>
    Cardinality({c \in counted \cap succeeded : c[2] = w}) + 1 <= Limit

\* A claim of a wallet that has one, and sends nothing, changes nothing.
Claim(p, g, w, tx) ==
  /\ pc[p] = "idle" /\ row[g] # "none"
  /\ \/ <<g, w>> \in claims /\ tx # None /\ Goto(p, "resending", g, w, tx)
     \/ /\ <<g, w>> \notin claims /\ WithinLimit(g, w)
        /\ Goto(p, IF tx # None THEN "sending" ELSE "saving", g, w, tx)
     \/ <<g, w>> \notin claims /\ ~ WithinLimit(g, w) /\ End(p)
  /\ UNCHANGED <<chain, index, gift, claim, monitor, kills>>

Recover(p, g, tx) ==
  /\ pc[p] = "idle" /\ row[g] # "none" /\ g \notin dateClaimed
  /\ Goto(p, IF tx # None THEN "sending" ELSE "saving", g, Creator, tx)
  /\ UNCHANGED <<chain, index, gift, claim, monitor, kills>>

\* broadcast_transaction_sync.  The transaction is sent as it is, also one that
\* has nothing to do with the gift.  The node takes it or, if it was sent in
\* the meantime, has it already.
Accepted(p) == Take(req[p].tx) \/ (req[p].tx \in sent /\ UNCHANGED sent)

\* The node refuses, or its answer is lost.
Refused(p) == Take(req[p].tx) \/ UNCHANGED sent

Send(p) ==
  /\ pc[p] = "sending"
  /\ \/ Accepted(p) /\ pc' = [pc EXCEPT ![p] = "saving"] /\ UNCHANGED req
     \/ Refused(p) /\ End(p)
  /\ UNCHANGED <<coin, index, gift, claim, monitor, kills>>

Resend_Trusting(p) ==
  /\ pc[p] = "resending"
  /\ Refused(p) /\ (TellSent(p) \/ End(p))
  /\ UNCHANGED <<coin, index, gift, claim, monitor, kills>>

\* A wallet that has a claim already may send a transaction again.
Resend(p) ==
  /\ pc[p] = "resending"
  /\ \/ Accepted(p) /\ TellSent(p)
     \/ Refused(p) /\ End(p)
  /\ UNCHANGED <<coin, index, gift, claim, monitor, kills>>

\* get_or_create: the campaign is that of the gift as it was loaded.
SaveClaim(p) ==
  LET c == <<req[p].gift, req[p].wallet>> IN
  /\ pc[p] = "saving"
  /\ claims' = claims \cup {c}
  /\ counted' = counted \cup IF c \notin claims /\ req[p].campaign THEN {c} ELSE {}
  /\ IF req[p].tx # None THEN TellSent(p) ELSE End(p)
  /\ UNCHANGED <<chain, index, gift, succeeded, monitor, kills>>

\* The request is killed, or the parsing of the sent transaction raises.
KillRequest(p) ==
  /\ kills < MaxKills /\ pc[p] # "idle"
  /\ kills' = kills + 1
  /\ End(p)
  /\ UNCHANGED <<chain, index, gift, claim, monitor>>
-----------------------------------------------------------------------------
(* The worker of queue monitor-gifts, one task at a time.                   *)

CheckUnfundedGifts ==
  /\ mpc = "idle"
  /\ dateFunded' = dateFunded \cup {g \in fundSeen : row[g] = "filled"}
  /\ UNCHANGED <<chain, index, row, dateClaimed, claimTxid, claim, web, monitor, kills>>

\* The gifts check_unclaimed_gifts looks at: its worker alone changes the dates.
Watched_Unmarked == dateFunded \ claimTxid

Watched == dateFunded \ dateClaimed

\* The rows of the index that pay a wallet from the gift.
PayRows(g, w) == {r \in paySeen : r[1] \in Sweeps(g) /\ r[2] = w}

Match_NoClaim ==
  /\ mpc = "idle" /\ Watched # {} /\ mpc' = "matched"
  /\ matched' = {c \in Pairs : c[1] \in Watched \cap spendSeen /\ PayRows(c[1], c[2]) # {}}
  /\ dated' = {g \in Watched : \E c \in matched' : c[1] = g /\ PayRows(g, c[2]) \subseteq stamped}
  /\ UNCHANGED <<chain, index, gift, claim, web, kills>>

Match_AnyWallet ==
  /\ mpc = "idle" /\ Watched # {} /\ mpc' = "matched"
  /\ matched' = {c \in claims : c[1] \in Watched \cap spendSeen /\ \E w \in Wallets : PayRows(c[1], w) # {}}
  /\ dated' = {g \in Watched : \E c \in matched' : c[1] = g /\ PayRows(g, c[2]) \subseteq stamped}
  /\ UNCHANGED <<chain, index, gift, claim, web, kills>>

\* Every wallet with a claim that the sweep pays is matched.  The date is the
\* timestamp of the row of one of them, which may be missing.
Match ==
  /\ mpc = "idle" /\ Watched # {} /\ mpc' = "matched"
  /\ matched' = {c \in claims : c[1] \in Watched \cap spendSeen /\ PayRows(c[1], c[2]) # {}}
  /\ \E last \in SUBSET matched' :
       /\ \A c \in matched' : \E d \in last : d[1] = c[1]
       /\ \A c, d \in last : c[1] = d[1] => c = d
       /\ dated' = {c[1] : c \in {d \in last : PayRows(d[1], d[2]) \subseteq stamped}}
  /\ UNCHANGED <<chain, index, gift, claim, web, kills>>

MatchedGifts == {c[1] : c \in matched}

UpdateGifts ==
  /\ mpc = "matched"
  /\ mpc' = "claiming"
  /\ dateClaimed' = dateClaimed \cup dated
  /\ claimTxid' = claimTxid \cup MatchedGifts
  /\ UNCHANGED <<chain, index, row, dateFunded, claim, web, matched, dated, kills>>

UpdateClaims ==
  /\ mpc = "claiming"
  /\ succeeded' = succeeded \cup matched
  /\ mpc' = "idle" /\ matched' = {} /\ dated' = {}
  /\ UNCHANGED <<chain, index, gift, claims, counted, web, kills>>

KillMonitor ==
  /\ kills < MaxKills /\ mpc # "idle"
  /\ kills' = kills + 1
  /\ mpc' = "idle" /\ matched' = {} /\ dated' = {}
  /\ UNCHANGED <<chain, index, gift, claim, web>>

CheckUnclaimedGifts == Match \/ UpdateGifts \/ UpdateClaims

Serve(p) ==
  \/ \E g \in Gifts : Create(p, g)
  \/ \E g \in Gifts, w \in Wallets, tx \in Txs \cup {None} : Claim(p, g, w, tx)
  \/ \E g \in Gifts, tx \in Txs \cup {None} : Recover(p, g, tx)
  \/ Fill(p) \/ Send(p) \/ Resend(p) \/ SaveClaim(p) \/ Return(p) \/ KillRequest(p)

Next ==
  \/ \E g \in Gifts : Fund(g) \/ SeeFund(g) \/ SeeSpend(g)
  \/ \E tx \in Txs : SendPast(tx) \/ \E w \in Wallets : SeePay(tx, w) \/ Stamp(tx, w)
  \/ \E p \in Requests : Serve(p)
  \/ CheckUnfundedGifts \/ CheckUnclaimedGifts \/ KillMonitor

Spec == Init /\ [][Next]_vars

\* The index catches up (UtxoIndex), and beat starts both tasks every minute.
FairSpec ==
  /\ Spec
  /\ \A g \in Gifts : WF_vars(SeeFund(g)) /\ WF_vars(SeeSpend(g))
  /\ \A tx \in Txs, w \in Wallets : WF_vars(SeePay(tx, w)) /\ WF_vars(Stamp(tx, w))
  /\ SF_vars(CheckUnfundedGifts) /\ WF_vars(CheckUnclaimedGifts)
-----------------------------------------------------------------------------
(* Properties.                                                              *)

\* "The gift is only marked as claimed if the broadcast succeeds"
\* (PAYTACA_GIFTS.md 257): a gift with a date was swept by a transaction that
\* pays a wallet with a claim, and a claim succeeds only for a wallet that the
\* sweep pays, once the gift names the sweep, whatever transactions the views
\* were given and told "success" for.
MarksAreTrue ==
  /\ \A g \in dateClaimed : g \in claimTxid /\ \E c \in claims : c[1] = g /\ Paid(g, c[2])
  /\ \A c \in succeeded : Paid(c[1], c[2]) /\ c[1] \in claimTxid

\* "This prevents false-positive success responses when the actual broadcast
\* fails" (gift.py 312): who is told that its transaction was sent has a
\* transaction the node has, and a claim on record, though replies are lost and
\* somebody with the key sends the same or another one meanwhile.
SentIsTrue ==
  \A p \in Requests :
    pc[p] = "telling" => req[p].tx \in sent /\ <<req[p].gift, req[p].wallet>> \in claims

\* A filled gift whose sweep pays a wallet with a claim gets its date, though
\* claim and sweep come in either order, the index is late and tasks are killed.
SweptIsClaimed ==
  \A g \in Gifts, w \in Wallets :
    (row[g] = "filled" /\ <<g, w>> \in claims /\ Paid(g, w)) ~> g \in dateClaimed
=============================================================================
