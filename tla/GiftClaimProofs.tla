--------------------------- MODULE GiftClaimProofs ---------------------------
(***************************************************************************)
(* Proofs about GiftClaim: types, that gifts and claims are marked only for *)
(* a wallet that the sweep paid, and that a "sent" was sent.  The argument  *)
(* is that transactions and claims only become more, so what a request or   *)
(* the monitor has found of them stays true until it is written.            *)
(***************************************************************************)
EXTENDS GiftClaim, TLAPS

\* What a request has in hand is true: the node has the transaction of a claim
\* that is about to be saved, and who sends again has a claim.
RequestsKnow ==
  \A p \in Requests :
    /\ pc[p] = "saving" /\ req[p].tx # None => req[p].tx \in sent
    /\ pc[p] = "resending" => <<req[p].gift, req[p].wallet>> \in claims

\* What the monitor has in hand is true: the pairs it matched were paid, it
\* dates only their gifts, and marks these before their claims.
MonitorKnows ==
  /\ \A c \in matched : Paid(c[1], c[2])
  /\ dated \subseteq MatchedGifts
  /\ mpc = "claiming" => MatchedGifts \subseteq claimTxid

\* The index has only payments that were made.
IndexIsTrue == \A r \in paySeen : r[1] \in sent /\ r[2] \in Pays[r[1]]

Inv == TypeOK /\ IndexIsTrue /\ RequestsKnow /\ MonitorKnows /\ MarksAreTrue /\ SentIsTrue

\* One step, action by action.
SomeStep ==
  \/ \E g \in Gifts : Fund(g)
  \/ \E g \in Gifts : SeeFund(g)
  \/ \E g \in Gifts : SeeSpend(g)
  \/ \E tx \in Txs : SendPast(tx)
  \/ \E tx \in Txs, w \in Wallets : SeePay(tx, w)
  \/ \E tx \in Txs, w \in Wallets : Stamp(tx, w)
  \/ \E p \in Requests, g \in Gifts : Create(p, g)
  \/ \E p \in Requests, g \in Gifts, w \in Wallets, tx \in Txs \cup {None} : Claim(p, g, w, tx)
  \/ \E p \in Requests, g \in Gifts, tx \in Txs \cup {None} : Recover(p, g, tx)
  \/ \E p \in Requests : Fill(p)
  \/ \E p \in Requests : Send(p)
  \/ \E p \in Requests : Resend(p)
  \/ \E p \in Requests : SaveClaim(p)
  \/ \E p \in Requests : Return(p)
  \/ \E p \in Requests : KillRequest(p)
  \/ CheckUnfundedGifts
  \/ Match
  \/ UpdateGifts
  \/ UpdateClaims
  \/ KillMonitor

LEMMA NextIsSomeStep == Next => SomeStep
  BY DEF Next, SomeStep, Serve, CheckUnclaimedGifts

\* Transactions and claims only become more.
LEMMA BothGrow ==
  ASSUME TypeOK, [Next]_vars
  PROVE  sent \subseteq sent' /\ claims \subseteq claims'
<1>1. CASE UNCHANGED vars
  BY <1>1 DEF vars, chain, claim
<1>2. CASE SomeStep
  BY <1>2 DEF SomeStep, chain, claim, Fund, SeeFund, SeeSpend, SendPast, SeePay, Stamp, Create, Claim,
     Recover, Fill, Send, Resend, SaveClaim, Return, KillRequest, Take, Accepted, Refused,
     CheckUnfundedGifts, Match, UpdateGifts, UpdateClaims, KillMonitor
<1> QED
  BY <1>1, <1>2, NextIsSomeStep

\* So a wallet that a sweep paid stays paid.
LEMMA PaidStays ==
  ASSUME TypeOK, [Next]_vars, NEW g, NEW w, Paid(g, w)
  PROVE  Paid(g, w)'
  BY BothGrow DEF Paid, Sweeps

\* Only the two updates of the monitor write the marks.
LEMMA OnlyUpdatesMark ==
  ASSUME [Next]_vars, ~ UpdateGifts, ~ UpdateClaims
  PROVE  UNCHANGED <<dateClaimed, claimTxid, succeeded>>
<1>1. CASE UNCHANGED vars
  BY <1>1 DEF vars, gift, claim
<1>2. CASE SomeStep
  BY <1>2 DEF SomeStep, gift, claim, Fund, SeeFund, SeeSpend, SendPast, SeePay, Stamp, Create, Claim,
     Recover, Fill, Send, Resend, SaveClaim, Return, KillRequest, CheckUnfundedGifts, Match, KillMonitor
<1> QED
  BY <1>1, <1>2, NextIsSomeStep

\* Only its own steps change what the monitor has in hand.
LEMMA OnlyMonitorMatches ==
  ASSUME [Next]_vars, ~ Match, ~ UpdateGifts, ~ UpdateClaims, ~ KillMonitor
  PROVE  UNCHANGED monitor
<1>1. CASE UNCHANGED vars
  BY <1>1 DEF vars
<1>2. CASE SomeStep
  BY <1>2 DEF SomeStep, monitor, Fund, SeeFund, SeeSpend, SendPast, SeePay, Stamp, Create, Claim,
     Recover, Fill, Send, Resend, SaveClaim, Return, KillRequest, CheckUnfundedGifts
<1> QED
  BY <1>1, <1>2, NextIsSomeStep

LEMMA InitInv == Init => Inv
  BY GiftAssumption DEF Init, Inv, TypeOK, IndexIsTrue, RequestsKnow, MonitorKnows, MarksAreTrue, SentIsTrue,
     NoRequest, MatchedGifts

LEMMA TypeStep == TypeOK /\ [Next]_vars => TypeOK'
<1> SUFFICES ASSUME TypeOK, [Next]_vars PROVE TypeOK'
  OBVIOUS
<1> USE GiftAssumption DEF Pairs
<1>1. CASE UNCHANGED vars
  BY <1>1 DEF TypeOK, vars, chain, index, gift, claim, web, monitor
<1>2. CASE \E g \in Gifts : Fund(g)
  BY <1>2 DEF TypeOK, Fund, index, gift, claim, web, monitor
<1>3. CASE \E g \in Gifts : SeeFund(g)
  BY <1>3 DEF TypeOK, SeeFund, chain, gift, claim, web, monitor
<1>4. CASE \E g \in Gifts : SeeSpend(g)
  BY <1>4 DEF TypeOK, SeeSpend, chain, gift, claim, web, monitor
<1>5. CASE \E tx \in Txs : SendPast(tx)
  BY <1>5 DEF TypeOK, SendPast, Take, index, gift, claim, web, monitor
<1>6. CASE \E tx \in Txs, w \in Wallets : SeePay(tx, w)
  BY <1>6 DEF TypeOK, SeePay, chain, gift, claim, web, monitor
<1>7. CASE \E tx \in Txs, w \in Wallets : Stamp(tx, w)
  BY <1>7 DEF TypeOK, Stamp, chain, gift, claim, web, monitor
<1>8. CASE \E p \in Requests, g \in Gifts : Create(p, g)
  BY <1>8 DEF TypeOK, Create, Goto, chain, index, claim, monitor
<1>9. CASE \E p \in Requests, g \in Gifts, w \in Wallets, tx \in Txs \cup {None} : Claim(p, g, w, tx)
  <2> PICK p \in Requests, g \in Gifts, w \in Wallets, tx \in Txs \cup {None} : Claim(p, g, w, tx)
    BY <1>9
  <2>1. CASE tx # None /\ \E at \in {"resending", "sending"} : Goto(p, at, g, w, tx)
    BY <2>1 DEF TypeOK, Claim, Goto, chain, index, gift, claim, monitor
  <2>2. CASE Goto(p, "saving", g, w, tx)
    BY <2>2 DEF TypeOK, Claim, Goto, chain, index, gift, claim, monitor
  <2>3. CASE End(p)
    BY <2>3 DEF TypeOK, Claim, End, NoRequest, chain, index, gift, claim, monitor
  <2> QED
    BY <2>1, <2>2, <2>3 DEF Claim
<1>10. CASE \E p \in Requests, g \in Gifts, tx \in Txs \cup {None} : Recover(p, g, tx)
  <2> PICK p \in Requests, g \in Gifts, tx \in Txs \cup {None} : Recover(p, g, tx)
    BY <1>10
  <2>1. CASE tx # None /\ Goto(p, "sending", g, Creator, tx)
    BY <2>1 DEF TypeOK, Recover, Goto, chain, index, gift, claim, monitor
  <2>2. CASE Goto(p, "saving", g, Creator, tx)
    BY <2>2 DEF TypeOK, Recover, Goto, chain, index, gift, claim, monitor
  <2> QED
    BY <2>1, <2>2 DEF Recover
<1>11. CASE \E p \in Requests : Fill(p)
  BY <1>11 DEF TypeOK, Fill, End, NoRequest, chain, index, claim, monitor
<1>12. CASE \E p \in Requests : Send(p)
  <2> PICK p \in Requests : Send(p)
    BY <1>12
  <2>1. sent' \subseteq Txs /\ req[p] \in [gift : Gifts \cup {None}, wallet : Wallets \cup {None},
                                        tx : Txs \cup {None}, campaign : BOOLEAN]
    BY DEF TypeOK, Send, Accepted, Refused, Take
  <2>2. CASE pc' = [pc EXCEPT ![p] = "saving"] /\ UNCHANGED req
    BY <2>1, <2>2 DEF TypeOK, Send, index, gift, claim, monitor
  <2>3. CASE End(p)
    BY <2>1, <2>3 DEF TypeOK, Send, End, NoRequest, index, gift, claim, monitor
  <2> QED
    BY <2>2, <2>3 DEF Send
<1>13. CASE \E p \in Requests : Resend(p)
  <2> PICK p \in Requests : Resend(p)
    BY <1>13
  <2>1. sent' \subseteq Txs
    BY DEF TypeOK, Resend, Accepted, Refused, Take
  <2>2. CASE TellSent(p)
    BY <2>1, <2>2 DEF TypeOK, Resend, TellSent, index, gift, claim, monitor
  <2>3. CASE End(p)
    BY <2>1, <2>3 DEF TypeOK, Resend, End, NoRequest, index, gift, claim, monitor
  <2> QED
    BY <2>2, <2>3 DEF Resend
<1>14. CASE \E p \in Requests : SaveClaim(p)
  <2> PICK p \in Requests : SaveClaim(p)
    BY <1>14
  <2>1. req[p].gift \in Gifts /\ req[p].wallet \in Wallets
    BY DEF TypeOK, SaveClaim
  <2>2. claims' \subseteq Pairs /\ counted' \subseteq claims' /\ succeeded' \subseteq claims' /\ matched' \subseteq claims'
    BY <2>1 DEF TypeOK, SaveClaim, monitor
  <2>3. CASE TellSent(p) /\ req[p].tx # None
    BY <2>2, <2>3 DEF TypeOK, SaveClaim, TellSent, chain, index, gift, monitor
  <2>4. CASE End(p)
    BY <2>2, <2>4 DEF TypeOK, SaveClaim, End, NoRequest, chain, index, gift, monitor
  <2> QED
    BY <2>3, <2>4 DEF SaveClaim
<1>15. CASE \E p \in Requests : Return(p)
  BY <1>15 DEF TypeOK, Return, End, NoRequest, chain, index, gift, claim, monitor
<1>16. CASE \E p \in Requests : KillRequest(p)
  <2>1. kills' \in 0..MaxKills
    BY <1>16 DEF TypeOK, KillRequest
  <2> QED
    BY <1>16, <2>1 DEF TypeOK, KillRequest, End, NoRequest, chain, index, gift, claim, monitor
<1>17. CASE CheckUnfundedGifts
  BY <1>17 DEF TypeOK, CheckUnfundedGifts, chain, index, claim, web, monitor
<1>18. CASE Match
  <2>1. matched' \subseteq claims /\ \A c \in matched' : c[1] \in Gifts
    BY <1>18 DEF TypeOK, Match
  <2>2. dated' \subseteq Gifts
    BY <1>18, <2>1 DEF Match
  <2> QED
    BY <1>18, <2>1, <2>2 DEF TypeOK, Match, chain, index, gift, claim, web
<1>19. CASE UpdateGifts
  <2>1. MatchedGifts \subseteq Gifts
    BY DEF TypeOK, MatchedGifts
  <2> QED
    BY <1>19, <2>1 DEF TypeOK, UpdateGifts, chain, index, claim, web
<1>20. CASE UpdateClaims
  BY <1>20 DEF TypeOK, UpdateClaims, chain, index, gift, web
<1>21. CASE KillMonitor
  <2>1. kills' \in 0..MaxKills
    BY <1>21 DEF TypeOK, KillMonitor
  <2> QED
    BY <1>21, <2>1 DEF TypeOK, KillMonitor, chain, index, gift, claim, web
<1> QED
  BY <1>1, <1>2, <1>3, <1>4, <1>5, <1>6, <1>7, <1>8, <1>9, <1>10, <1>11, <1>12, <1>13, <1>14,
     <1>15, <1>16, <1>17, <1>18, <1>19, <1>20, <1>21, NextIsSomeStep DEF SomeStep

LEMMA IndexStep == TypeOK /\ IndexIsTrue /\ [Next]_vars => IndexIsTrue'
<1> SUFFICES ASSUME TypeOK, IndexIsTrue, [Next]_vars PROVE IndexIsTrue'
  OBVIOUS
<1>1. sent \subseteq sent'
  BY BothGrow
<1>2. CASE UNCHANGED paySeen
  BY <1>1, <1>2 DEF IndexIsTrue
<1>3. CASE \E tx \in Txs, w \in Wallets : SeePay(tx, w)
  BY <1>1, <1>3 DEF IndexIsTrue, SeePay
<1>4. CASE SomeStep
  BY <1>4, <1>2, <1>3 DEF SomeStep, index, Fund, SeeFund, SeeSpend, SendPast, Stamp, Create, Claim,
     Recover, Fill, Send, Resend, SaveClaim, Return, KillRequest, CheckUnfundedGifts, Match, UpdateGifts,
     UpdateClaims, KillMonitor
<1> QED
  BY <1>2, <1>4, NextIsSomeStep DEF vars, index

\* The steps of a request that set what it has in hand: the node has a
\* transaction that it accepted.
LEMMA RequestsStep == Inv /\ [Next]_vars => RequestsKnow' /\ SentIsTrue'
<1> SUFFICES ASSUME Inv, [Next]_vars PROVE RequestsKnow' /\ SentIsTrue'
  OBVIOUS
<1>0. sent \subseteq sent' /\ claims \subseteq claims'
  BY BothGrow DEF Inv
<1> USE <1>0 DEF Inv, RequestsKnow, SentIsTrue
<1>1. CASE UNCHANGED web
  BY <1>1 DEF web
<1>2. CASE \E p \in Requests, g \in Gifts : Create(p, g)
  BY <1>2 DEF TypeOK, Create, Goto
<1>3. CASE \E p \in Requests, g \in Gifts, w \in Wallets, tx \in Txs \cup {None} : Claim(p, g, w, tx)
  <2> PICK p \in Requests, g \in Gifts, w \in Wallets, tx \in Txs \cup {None} : Claim(p, g, w, tx)
    BY <1>3
  <2>1. CASE <<g, w>> \in claims /\ Goto(p, "resending", g, w, tx)
    <3>1. pc'[p] = "resending" /\ req'[p].gift = g /\ req'[p].wallet = w
      BY <2>1 DEF TypeOK, Goto
    <3>2. \A q \in Requests \ {p} : pc'[q] = pc[q] /\ req'[q] = req[q]
      BY <2>1 DEF TypeOK, Goto
    <3> QED
      BY <2>1, <3>1, <3>2
  <2>2. CASE (tx = None /\ Goto(p, "saving", g, w, tx)) \/ Goto(p, "sending", g, w, tx)
    <3>1. pc'[p] \in {"saving", "sending"} /\ (pc'[p] = "saving" => req'[p].tx = None)
      BY <2>2 DEF TypeOK, Goto
    <3>2. \A q \in Requests \ {p} : pc'[q] = pc[q] /\ req'[q] = req[q]
      BY <2>2 DEF TypeOK, Goto
    <3> QED
      BY <3>1, <3>2
  <2>3. CASE End(p)
    BY <2>3 DEF TypeOK, End
  <2> QED
    BY <2>1, <2>2, <2>3 DEF Claim
<1>4. CASE \E p \in Requests, g \in Gifts, tx \in Txs \cup {None} : Recover(p, g, tx)
  BY <1>4 DEF TypeOK, Recover, Goto
<1>5. CASE \E p \in Requests : Send(p)
  <2> PICK p \in Requests : Send(p)
    BY <1>5
  <2>1. CASE Accepted(p) /\ pc' = [pc EXCEPT ![p] = "saving"] /\ UNCHANGED req
    <3>1. req[p].tx \in sent'
      BY <2>1 DEF Accepted, Take
    <3> QED
      BY <2>1, <3>1 DEF TypeOK
  <2>2. CASE End(p)
    BY <2>2 DEF TypeOK, End
  <2> QED
    BY <2>1, <2>2 DEF Send
<1>6. CASE \E p \in Requests : Resend(p)
  <2> PICK p \in Requests : Resend(p)
    BY <1>6
  <2>1. CASE Accepted(p) /\ TellSent(p)
    <3>1. req[p].tx \in sent'
      BY <2>1 DEF Accepted, Take
    <3> QED
      BY <2>1, <3>1 DEF TypeOK, TellSent, Resend
  <2>2. CASE End(p)
    BY <2>2 DEF TypeOK, End
  <2> QED
    BY <2>1, <2>2 DEF Resend
<1>7. CASE \E p \in Requests : SaveClaim(p)
  <2> PICK p \in Requests : SaveClaim(p)
    BY <1>7
  <2>1. CASE req[p].tx # None /\ TellSent(p)
    <3>1. <<req[p].gift, req[p].wallet>> \in claims'
      BY DEF SaveClaim
    <3>2. pc[p] = "saving"
      BY DEF SaveClaim
    <3> QED
      BY <2>1, <3>1, <3>2 DEF TypeOK, TellSent
  <2>2. CASE End(p)
    BY <2>2 DEF TypeOK, End
  <2> QED
    BY <2>1, <2>2 DEF SaveClaim
<1>8. CASE \E p \in Requests : Fill(p) \/ Return(p) \/ KillRequest(p)
  BY <1>8 DEF TypeOK, Fill, Return, KillRequest, End
<1>9. CASE SomeStep
  BY <1>9, <1>1, <1>2, <1>3, <1>4, <1>5, <1>6, <1>7, <1>8 DEF SomeStep, Fund, SeeFund, SeeSpend, SendPast,
     SeePay, Stamp, CheckUnfundedGifts, Match, UpdateGifts, UpdateClaims, KillMonitor
<1> QED
  BY <1>1, <1>9, NextIsSomeStep DEF vars

LEMMA MonitorStep == Inv /\ [Next]_vars => MonitorKnows'
<1> SUFFICES ASSUME Inv, [Next]_vars PROVE MonitorKnows'
  OBVIOUS
<1>1. CASE Match
  <2>1. \A c \in matched' : Paid(c[1], c[2])
    <3> SUFFICES ASSUME NEW c \in matched' PROVE Paid(c[1], c[2])
      OBVIOUS
    <3>1. PICK r \in paySeen : r[1] \in Sweeps(c[1]) /\ r[2] = c[2]
      BY <1>1 DEF Match, PayRows
    <3>2. r[1] \in sent /\ r[2] \in Pays[r[1]]
      BY <3>1 DEF Inv, IndexIsTrue
    <3> QED
      BY <3>1, <3>2 DEF Paid
  <2>2. \A c \in matched' : Paid(c[1], c[2])'
    BY <2>1, PaidStays DEF Inv
  <2>3. dated' \subseteq MatchedGifts'
    BY <1>1 DEF Match, MatchedGifts
  <2> QED
    BY <1>1, <2>2, <2>3 DEF MonitorKnows, Match
<1>2. CASE UpdateGifts
  <2>1. \A c \in matched' : Paid(c[1], c[2])'
    BY <1>2, PaidStays DEF Inv, MonitorKnows, UpdateGifts
  <2> QED
    BY <1>2, <2>1 DEF Inv, MonitorKnows, MatchedGifts, UpdateGifts
<1>3. CASE UpdateClaims \/ KillMonitor
  BY <1>3 DEF MonitorKnows, MatchedGifts, UpdateClaims, KillMonitor
<1>4. CASE ~ Match /\ ~ UpdateGifts /\ ~ UpdateClaims /\ ~ KillMonitor
  <2>1. UNCHANGED monitor /\ UNCHANGED claimTxid
    BY <1>4, OnlyMonitorMatches, OnlyUpdatesMark
  <2>2. \A c \in matched' : Paid(c[1], c[2])'
    BY <2>1, PaidStays DEF Inv, MonitorKnows, monitor
  <2> QED
    BY <2>1, <2>2 DEF Inv, MonitorKnows, MatchedGifts, monitor
<1> QED
  BY <1>1, <1>2, <1>3, <1>4

LEMMA MarksStep == Inv /\ [Next]_vars => MarksAreTrue'
<1> SUFFICES ASSUME Inv, [Next]_vars PROVE MarksAreTrue'
  OBVIOUS
<1>1. claims \subseteq claims'
  BY BothGrow DEF Inv
<1>2. \A g \in dateClaimed : g \in claimTxid /\ \E c \in claims' : c[1] = g /\ Paid(g, c[2])'
  BY <1>1, PaidStays DEF Inv, MarksAreTrue
<1>3. \A c \in succeeded : Paid(c[1], c[2])' /\ c[1] \in claimTxid
  BY PaidStays DEF Inv, MarksAreTrue
<1>4. \A c \in matched : c \in claims' /\ Paid(c[1], c[2])'
  BY <1>1, PaidStays DEF Inv, TypeOK, MonitorKnows
<1>5. CASE UpdateGifts
  <2>1. \A g \in dated : \E c \in claims' : c[1] = g /\ Paid(g, c[2])'
    BY <1>4 DEF Inv, MonitorKnows, MatchedGifts
  <2>2. dated \subseteq MatchedGifts
    BY DEF Inv, MonitorKnows
  <2> QED
    BY <1>5, <1>2, <1>3, <2>1, <2>2 DEF UpdateGifts, MarksAreTrue, claim
<1>6. CASE UpdateClaims
  <2>1. \A c \in matched : c[1] \in claimTxid
    BY <1>6 DEF Inv, MonitorKnows, MatchedGifts, UpdateClaims
  <2> QED
    BY <1>6, <1>2, <1>3, <1>4, <2>1 DEF UpdateClaims, MarksAreTrue, gift
<1>7. CASE ~ UpdateGifts /\ ~ UpdateClaims
  BY <1>7, <1>2, <1>3, OnlyUpdatesMark DEF MarksAreTrue
<1> QED
  BY <1>5, <1>6, <1>7

\* The invariant holds in every reachable state.
THEOREM Invariance == Spec => []Inv
<1>1. Inv /\ [Next]_vars => Inv'
  BY TypeStep, IndexStep, RequestsStep, MonitorStep, MarksStep DEF Inv
<1> QED
  BY <1>1, InitInv, PTL DEF Spec

\* Every variable of GiftClaim keeps its type: in particular only claims that
\* are on record succeed or are matched.
THEOREM TypeCorrect == Spec => []TypeOK
<1>1. Inv => TypeOK
  BY DEF Inv
<1> QED
  BY <1>1, Invariance, PTL

\* Gifts and claims are marked only for wallets that the sweep paid, for any
\* gifts, wallets, transactions and requests and any number of kills.
THEOREM MarksAreTrueAlways == Spec => []MarksAreTrue
<1>1. Inv => MarksAreTrue
  BY DEF Inv
<1> QED
  BY <1>1, Invariance, PTL

\* Whoever is told that a transaction was sent has one that the node has, and
\* a claim, for any number of requests at a time and whatever they send.
THEOREM SentIsTrueAlways == Spec => []SentIsTrue
<1>1. Inv => SentIsTrue
  BY DEF Inv
<1> QED
  BY <1>1, Invariance, PTL
=============================================================================
