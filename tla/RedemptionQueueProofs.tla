----------------------- MODULE RedemptionQueueProofs -----------------------
(***************************************************************************)
(* Proofs about RedemptionQueue: types, that success is on chain, and that  *)
(* the queue implements SettledRequests.                                    *)
(***************************************************************************)
EXTENDS RedemptionQueue, TLAPS

\* The transaction in hand is a trade for the row in hand, and the node has it
\* once it was sent; the index knows no other transactions than the node.
InHand ==
  /\ indexed \subseteq net
  /\ pc \in {"testing", "sending", "sent", "saving"} => IsTradeOf(built, ask[cur])
  /\ pc \in {"sent", "saving"} => built \in net

Inv == TypeOK /\ InHand /\ SuccessIsOnChain

\* One step, action by action.
SomeStep ==
  \/ \E tx \in Tx : Outside(tx)
  \/ \E tx \in Tx : Index(tx)
  \/ \E r \in Requests, a \in Ask : Check(r, a)
  \/ \E r \in Requests : Create(r)
  \/ \E r \in Requests : PriceAges(r)
  \/ \E r \in Requests : Take(r)
  \/ Test \/ Send \/ ProcessSent \/ Raise \/ SaveSuccess \/ SaveFailed \/ Retry
  \/ \E t \in indexed : Recover(t)
  \/ LeaveFailed \/ Crash

LEMMA NextIsSomeStep == Next => SomeStep
  BY DEF Next, SomeStep, Step

\* A trade for a request is a transaction of its contract and type.
LEMMA TradeOfIsTrade ==
  ASSUME TypeOK, NEW r \in Requests, ask[r] \in Ask, NEW n \in 0..MaxReserve
  PROVE  TradeOf(r, n) \in Tx /\ IsTradeOf(TradeOf(r, n), ask[r])
  BY DEF TypeOK, TradeOf, Tx, Trade, Ask, IsTradeOf

LEMMA InitInv == Init => Inv
  BY RedemptionAssumption DEF Init, Inv, TypeOK, InHand, SuccessIsOnChain, Reasons

LEMMA TypeStep == TypeOK /\ [Next]_vars => TypeOK'
<1> SUFFICES ASSUME TypeOK, [Next]_vars PROVE TypeOK'
  OBVIOUS
<1> USE RedemptionAssumption
<1>1. CASE UNCHANGED vars
  BY <1>1 DEF TypeOK, vars, chain, wallet, row, process
<1>2. CASE \E tx \in Tx : Outside(tx)
  BY <1>2 DEF TypeOK, Outside, Accept, wallet, row, process
<1>3. CASE \E tx \in Tx : Index(tx)
  BY <1>3 DEF TypeOK, Index, wallet, row, process
<1>4. CASE \E r \in Requests, a \in Ask : Check(r, a)
  <2> PICK r \in Requests, a \in Ask : Check(r, a)
    BY <1>4
  <2>1. post' = [post EXCEPT ![r] = "checked"] \/ post' = [post EXCEPT ![r] = "refused"]
    BY DEF Check
  <2>2. post' \in [Requests -> {"new", "checked", "saved", "refused"}] /\ ask' \in [Requests -> Ask \cup {None}]
    BY <2>1 DEF TypeOK, Check
  <2>3. \A s \in Requests : post'[s] \in {"checked", "saved"} => ask'[s] \in Ask
    BY DEF TypeOK, Check
  <2>4. \A s \in Requests : status'[s] # "none" <=> post'[s] = "saved"
    BY <2>1 DEF TypeOK, Check, row
  <2>5. pc' # "idle" => cur' \in Requests /\ post'[cur'] = "saved"
    BY <2>1 DEF TypeOK, Check, process
  <2> QED
    BY <2>2, <2>3, <2>4, <2>5 DEF TypeOK, Check, chain, row, process
<1>5. CASE \E r \in Requests : Create(r)
  <2> PICK r \in Requests : Create(r)
    BY <1>5
  <2>1. arrivals' \in Seq(Requests)
    BY DEF TypeOK, Create
  <2> QED
    BY <2>1 DEF TypeOK, Create, chain, process
<1>6. CASE \E r \in Requests : PriceAges(r)
  BY <1>6 DEF TypeOK, PriceAges, chain, row, process
<1>7. CASE \E r \in Requests : Take(r)
  <2> PICK r \in Requests : Take(r)
    BY <1>7
  <2>1. status[r] = "pending" /\ ask[r] \in Ask /\ post[r] = "saved"
    BY DEF Take, IsHead, TypeOK
  <2>2. CASE pc' = "failing"
    BY <2>1, <2>2 DEF TypeOK, Take, Fail, chain, wallet, row, Reasons
  <2>3. CASE pc' = "testing"
    <3>1. PICK n \in 0..MaxReserve : built' = TradeOf(r, n)
      BY <2>3 DEF Take, Fail, Reserves
    <3>2. built' \in Tx
      BY <3>1, <2>1, TradeOfIsTrade
    <3> QED
      BY <2>1, <2>3, <3>2 DEF TypeOK, Take, Fail, chain, wallet, row, Reasons
  <2> QED
    BY <2>2, <2>3 DEF Take, Fail
<1>8. CASE Test
  BY <1>8 DEF TypeOK, Test, Fail, chain, wallet, row, Reasons
<1>9. CASE Send
  BY <1>9 DEF TypeOK, Send, Accept, wallet, row
<1>10. CASE ProcessSent
  BY <1>10 DEF TypeOK, ProcessSent, wallet, row
<1>11. CASE Raise
  BY <1>11 DEF TypeOK, Raise, Idle, Accept, wallet, row, Reasons
<1>12. CASE SaveSuccess
  BY <1>12 DEF TypeOK, SaveSuccess, Idle, chain, wallet, Reasons
<1>13. CASE SaveFailed
  BY <1>13 DEF TypeOK, SaveFailed, chain, wallet
<1>14. CASE Retry
  BY <1>14 DEF TypeOK, Retry, Idle, chain, wallet, Reasons
<1>15. CASE \E t \in indexed : Recover(t)
  <2> PICK t \in indexed : Recover(t)
    BY <1>15
  <2>1. status' \in [Requests -> {"none", "pending", "success", "failed"}] /\ txid' \in [Requests -> Tx \cup {None}]
    BY DEF TypeOK, Recover
  <2>2. \A r \in Requests : status'[r] # "none" <=> post'[r] = "saved"
    BY DEF TypeOK, Recover, wallet
  <2> QED
    BY <2>1, <2>2 DEF TypeOK, Recover, Idle, chain, wallet, Reasons
<1>16. CASE LeaveFailed
  BY <1>16 DEF TypeOK, LeaveFailed, Idle, chain, wallet, row, Reasons
<1>17. CASE Crash
  <2>1. crashes' \in 0..MaxCrashes
    BY <1>17 DEF TypeOK, Crash
  <2> QED
    BY <1>17, <2>1 DEF TypeOK, Crash, Idle, chain, wallet, row, Reasons
<1> QED
  BY <1>1, <1>2, <1>3, <1>4, <1>5, <1>6, <1>7, <1>8, <1>9, <1>10, <1>11, <1>12, <1>13, <1>14,
     <1>15, <1>16, <1>17, NextIsSomeStep DEF SomeStep

LEMMA InHandStep == Inv /\ [Next]_vars => InHand'
<1> SUFFICES ASSUME Inv, [Next]_vars PROVE InHand'
  OBVIOUS
<1> USE DEF Inv
<1>1. CASE UNCHANGED vars
  BY <1>1 DEF InHand, vars, chain, wallet, row, process
<1>2. CASE \E tx \in Tx : Outside(tx)
  BY <1>2 DEF InHand, Outside, Accept, wallet, row, process
<1>3. CASE \E tx \in Tx : Index(tx)
  BY <1>3 DEF InHand, Index, wallet, row, process
<1>4. CASE \E r \in Requests, a \in Ask : Check(r, a)
  <2> PICK r \in Requests, a \in Ask : Check(r, a)
    BY <1>4
  <2>1. pc # "idle" => cur # r
    BY DEF TypeOK, Check
  <2>2. pc # "idle" => ask'[cur] = ask[cur]
    BY <2>1 DEF TypeOK, Check
  <2> QED
    BY <2>2 DEF InHand, Check, chain, row, process
<1>5. CASE \E r \in Requests : Create(r)
  BY <1>5 DEF InHand, Create, chain, process
<1>6. CASE \E r \in Requests : PriceAges(r)
  BY <1>6 DEF InHand, PriceAges, chain, row, process
<1>7. CASE \E r \in Requests : Take(r)
  <2> PICK r \in Requests : Take(r)
    BY <1>7
  <2>1. status[r] = "pending" /\ ask[r] \in Ask
    BY DEF Take, IsHead, TypeOK
  <2>2. CASE pc' = "failing"
    BY <2>2 DEF InHand, Take, chain, wallet, row
  <2>3. CASE pc' = "testing"
    <3>1. PICK n \in 0..MaxReserve : built' = TradeOf(r, n)
      BY <2>3 DEF Take, Fail, Reserves
    <3>2. IsTradeOf(built', ask[r])
      BY <3>1, <2>1, TradeOfIsTrade
    <3> QED
      BY <3>2, <2>3 DEF InHand, Take, chain, wallet, row
  <2> QED
    BY <2>2, <2>3 DEF Take, Fail
<1>8. CASE Test
  BY <1>8 DEF InHand, Test, Fail, chain, wallet, row
<1>9. CASE Send
  BY <1>9 DEF InHand, Send, Accept, wallet, row
<1>10. CASE ProcessSent
  BY <1>10 DEF InHand, ProcessSent, wallet, row
<1>11. CASE Raise
  BY <1>11 DEF InHand, Raise, Idle, Accept, wallet, row
<1>12. CASE SaveSuccess
  BY <1>12 DEF InHand, SaveSuccess, Idle, chain, wallet
<1>13. CASE SaveFailed
  BY <1>13 DEF InHand, SaveFailed, chain, wallet
<1>14. CASE Retry
  BY <1>14 DEF InHand, Retry, Idle, chain, wallet
<1>15. CASE \E t \in indexed : Recover(t)
  BY <1>15 DEF InHand, Recover, Idle, chain, wallet
<1>16. CASE LeaveFailed
  BY <1>16 DEF InHand, LeaveFailed, Idle, chain, wallet, row
<1>17. CASE Crash
  BY <1>17 DEF InHand, Crash, Idle, chain, wallet, row
<1> QED
  BY <1>1, <1>2, <1>3, <1>4, <1>5, <1>6, <1>7, <1>8, <1>9, <1>10, <1>11, <1>12, <1>13, <1>14,
     <1>15, <1>16, <1>17, NextIsSomeStep DEF SomeStep

LEMMA SuccessStep == Inv /\ [Next]_vars => SuccessIsOnChain'
<1> SUFFICES ASSUME Inv, [Next]_vars PROVE SuccessIsOnChain'
  OBVIOUS
<1> USE DEF Inv
<1>1. CASE UNCHANGED vars
  BY <1>1 DEF SuccessIsOnChain, vars, chain, wallet, row
<1>2. CASE \E tx \in Tx : Outside(tx)
  BY <1>2 DEF SuccessIsOnChain, Outside, Accept, wallet, row
<1>3. CASE \E tx \in Tx : Index(tx)
  BY <1>3 DEF SuccessIsOnChain, Index, wallet, row
<1>4. CASE \E r \in Requests, a \in Ask : Check(r, a)
  <2> PICK r \in Requests, a \in Ask : Check(r, a)
    BY <1>4
  <2>1. status[r] = "none"
    BY DEF TypeOK, Check
  <2>2. \A s \in Requests : s # r => ask'[s] = ask[s]
    BY DEF TypeOK, Check
  <2> QED
    BY <2>1, <2>2 DEF SuccessIsOnChain, Check, chain, row
<1>5. CASE \E r \in Requests : Create(r)
  BY <1>5 DEF SuccessIsOnChain, TypeOK, Create, chain
<1>6. CASE \E r \in Requests : PriceAges(r)
  BY <1>6 DEF SuccessIsOnChain, PriceAges, chain, row
<1>7. CASE \E r \in Requests : Take(r)
  BY <1>7 DEF SuccessIsOnChain, Take, chain, wallet, row
<1>8. CASE Test
  BY <1>8 DEF SuccessIsOnChain, Test, chain, wallet, row
<1>9. CASE Send
  BY <1>9 DEF SuccessIsOnChain, Send, Accept, wallet, row
<1>10. CASE ProcessSent
  BY <1>10 DEF SuccessIsOnChain, ProcessSent, wallet, row
<1>11. CASE Raise
  BY <1>11 DEF SuccessIsOnChain, Raise, Accept, wallet, row
<1>12. CASE SaveSuccess
  BY <1>12 DEF SuccessIsOnChain, TypeOK, InHand, IsTradeOf, SaveSuccess, chain, wallet
<1>13. CASE SaveFailed
  BY <1>13 DEF SuccessIsOnChain, TypeOK, SaveFailed, chain, wallet
<1>14. CASE Retry
  BY <1>14 DEF SuccessIsOnChain, TypeOK, Retry, chain, wallet
<1>15. CASE \E t \in indexed : Recover(t)
  BY <1>15 DEF SuccessIsOnChain, TypeOK, InHand, IsTradeOf, Recover, chain, wallet
<1>16. CASE LeaveFailed
  BY <1>16 DEF SuccessIsOnChain, LeaveFailed, chain, wallet, row
<1>17. CASE Crash
  BY <1>17 DEF SuccessIsOnChain, Crash, chain, wallet, row
<1> QED
  BY <1>1, <1>2, <1>3, <1>4, <1>5, <1>6, <1>7, <1>8, <1>9, <1>10, <1>11, <1>12, <1>13, <1>14,
     <1>15, <1>16, <1>17, NextIsSomeStep DEF SomeStep

\* The invariant holds in every reachable state.
THEOREM Invariance == Spec => []Inv
<1>1. Inv /\ [Next]_vars => Inv'
  BY TypeStep, InHandStep, SuccessStep DEF Inv
<1> QED
  BY <1>1, InitInv, PTL DEF Spec

\* Every variable of RedemptionQueue keeps its type: in particular a row that
\* is put back is put back at most MaxRetries times.
THEOREM TypeCorrect == Spec => []TypeOK
<1>1. Inv => TypeOK
  BY DEF Inv
<1> QED
  BY <1>1, Invariance, PTL

\* A row marked successful carries a transaction of the node that trades its
\* coin: for any number of requests, contracts, failures and kills.
THEOREM SuccessIsOnChainAlways == Spec => []SuccessIsOnChain
<1>1. Inv => SuccessIsOnChain
  BY DEF Inv
<1> QED
  BY <1>1, Invariance, PTL
-----------------------------------------------------------------------------
(* The queue implements SettledRequests.                                    *)

\* Whose turn it is has a pending row, and a failed one while it is resolved.
Turn ==
  /\ pc \in {"testing", "sending", "sent", "saving", "failing"} => status[cur] = "pending"
  /\ pc = "resolving" => status[cur] = "failed"

LEMMA TurnStep == Inv /\ Turn /\ [Next]_vars => Turn'
<1> SUFFICES ASSUME Inv, Turn, [Next]_vars PROVE Turn'
  OBVIOUS
<1> USE DEF Inv, Turn
<1>1. CASE UNCHANGED vars
  BY <1>1 DEF vars, row, process
<1>2. CASE \E tx \in Tx : Outside(tx) \/ Index(tx)
  BY <1>2 DEF Outside, Index, row, process
<1>3. CASE \E r \in Requests : (\E a \in Ask : Check(r, a)) \/ PriceAges(r)
  BY <1>3 DEF Check, PriceAges, row, process
<1>4. CASE \E r \in Requests : Create(r)
  BY <1>4 DEF Create, TypeOK, process
<1>5. CASE \E r \in Requests : Take(r)
  BY <1>5 DEF Take, IsHead, Fail, TypeOK, row
<1>6. CASE Test \/ Send \/ ProcessSent \/ Raise \/ LeaveFailed \/ Crash
  BY <1>6 DEF Test, Fail, Send, ProcessSent, Raise, LeaveFailed, Crash, Idle, row
<1>7. CASE SaveFailed
  BY <1>7 DEF SaveFailed, TypeOK
<1>8. CASE SaveSuccess \/ Retry \/ \E t \in indexed : Recover(t)
  BY <1>8 DEF SaveSuccess, Retry, Recover, Idle
<1> QED
  BY <1>1, <1>2, <1>3, <1>4, <1>5, <1>6, <1>7, <1>8, NextIsSomeStep DEF SomeStep

asks == [r \in Requests |-> AskOf(r)]
standings == [r \in Requests |-> Standing(r)]

LEMMA BookInit == Init => Book!Init
  BY DEF Init, Book!Init, AskOf, Standing

\* Steps that leave the rows as they look to everyone else.
LEMMA BookUnmoved ==
  ASSUME txid' = txid, \A r \in Requests : AskOf(r)' = AskOf(r) /\ Standing(r)' = Standing(r),
         net' = net \/ \E tx \in Tx : Accept(tx)
  PROVE  [Book!Next]_(Book!vars)
<1>1. asks' = asks /\ standings' = standings
  BY DEF asks, standings
<1>2. CASE net' = net
  BY <1>1, <1>2 DEF Book!vars, asks, standings
<1>3. CASE \E tx \in Tx : Accept(tx)
  <2>1. \E tx \in Tx : Book!Transact(tx)
    BY <1>1, <1>3 DEF Book!Transact, Accept, asks, standings
  <2> QED
    BY <2>1 DEF Book!Next
<1> QED
  BY <1>2, <1>3

\* Steps that settle the row in hand, for good or not.
LEMMA BookSettled ==
  ASSUME TypeOK, pc # "idle", pc' = "idle", Standing(cur) = "pending",
         UNCHANGED <<net, ask>>, NEW how \in {"success", "failed"},
         status' = [status EXCEPT ![cur] = how],
         how = "failed" => txid' = txid,
         how = "success" => \E tx \in net : IsTradeOf(tx, ask[cur]) /\ txid' = [txid EXCEPT ![cur] = tx]
  PROVE  [Book!Next]_(Book!vars)
<1>1. cur \in Requests /\ status[cur] # "none"
  BY DEF TypeOK
<1>2. asks' = asks /\ asks[cur] = ask[cur]
  BY <1>1 DEF asks, AskOf, TypeOK
<1>3. standings' = [standings EXCEPT ![cur] = how] /\ standings[cur] = "pending"
  BY <1>1 DEF standings, Standing, TypeOK
<1>4. CASE how = "success"
  <2>1. PICK tx \in net : IsTradeOf(tx, ask[cur]) /\ txid' = [txid EXCEPT ![cur] = tx]
    BY <1>4
  <2>2. Book!Settle(cur, tx)
    BY <1>2, <1>3, <1>4, <2>1 DEF Book!Settle, Book!Serves, IsTradeOf, asks, standings
  <2> QED
    BY <1>1, <2>2 DEF Book!Next, TypeOK
<1>5. CASE how = "failed"
  <2>1. Book!GiveUp(cur)
    BY <1>2, <1>3, <1>5 DEF Book!GiveUp, asks, standings
  <2> QED
    BY <1>1, <2>1 DEF Book!Next
<1> QED
  BY <1>4, <1>5

LEMMA BookStep == Inv /\ Turn /\ [Next]_vars => [Book!Next]_(Book!vars)
<1> SUFFICES ASSUME Inv, Turn, [Next]_vars PROVE [Book!Next]_(Book!vars)
  OBVIOUS
<1>0. TypeOK /\ InHand
  BY DEF Inv
<1>1. CASE UNCHANGED vars
  BY <1>1, BookUnmoved DEF vars, chain, wallet, row, process, AskOf, Standing
<1>2. CASE \E tx \in Tx : Outside(tx) \/ Index(tx)
  BY <1>2, BookUnmoved DEF Outside, Index, wallet, row, process, AskOf, Standing
<1>3. CASE \E r \in Requests : (\E a \in Ask : Check(r, a)) \/ PriceAges(r)
  <2>1. CASE \E r \in Requests : PriceAges(r)
    BY <2>1, BookUnmoved DEF PriceAges, chain, row, process, AskOf, Standing
  <2>2. CASE \E r \in Requests, a \in Ask : Check(r, a)
    <3>1. PICK r \in Requests, a \in Ask : Check(r, a)
      BY <2>2
    <3>2. status[r] = "none" /\ \A s \in Requests : s # r => ask'[s] = ask[s]
      BY <1>0, <3>1 DEF Check, TypeOK
    <3> QED
      BY <3>1, <3>2, BookUnmoved DEF Check, chain, row, process, AskOf, Standing
  <2> QED
    BY <1>3, <2>1, <2>2
<1>4. CASE \E r \in Requests : Create(r)
  <2>1. PICK r \in Requests : Create(r)
    BY <1>4
  <2>2. status[r] = "none" /\ ask[r] \in Ask /\ (pc # "idle" => cur # r)
    BY <1>0, <2>1 DEF Create, TypeOK
  <2>3. standings' = [standings EXCEPT ![r] = "pending"] /\ standings[r] = "none"
    BY <1>0, <2>1, <2>2 DEF standings, Standing, Create, TypeOK, process
  <2>4. asks' = [asks EXCEPT ![r] = ask[r]]
    BY <1>0, <2>1, <2>2 DEF asks, AskOf, Create, TypeOK
  <2>5. Book!TakeIn(r, ask[r])
    BY <2>1, <2>3, <2>4 DEF Book!TakeIn, asks, standings, Create, chain
  <2> QED
    BY <2>2, <2>5 DEF Book!Next
<1>5. CASE \E r \in Requests : Take(r)
  BY <1>5, BookUnmoved DEF Take, Fail, chain, wallet, row, AskOf, Standing
<1>6. CASE Test \/ ProcessSent
  BY <1>6, BookUnmoved DEF Test, Fail, ProcessSent, chain, wallet, row, AskOf, Standing
<1>7. CASE Send \/ Raise
  BY <1>0, <1>7, BookUnmoved DEF Send, Raise, Idle, wallet, row, AskOf, Standing, TypeOK
<1>8. CASE SaveFailed
  <2>1. \A r \in Requests : AskOf(r)' = AskOf(r) /\ Standing(r)' = Standing(r)
    BY <1>0, <1>8 DEF SaveFailed, Turn, TypeOK, wallet, AskOf, Standing
  <2> QED
    BY <1>8, <2>1, BookUnmoved DEF SaveFailed, chain
<1>9. CASE Retry
  <2>1. \A r \in Requests : AskOf(r)' = AskOf(r) /\ Standing(r)' = Standing(r)
    BY <1>0, <1>9 DEF Retry, Idle, Turn, TypeOK, wallet, AskOf, Standing
  <2> QED
    BY <1>9, <2>1, BookUnmoved DEF Retry, chain
<1>10. CASE SaveSuccess
  <2>1. pc # "idle" /\ pc' = "idle" /\ Standing(cur) = "pending"
    BY <1>10 DEF SaveSuccess, Idle, Turn, Standing
  <2>2. built \in net /\ IsTradeOf(built, ask[cur])
    BY <1>0, <1>10 DEF SaveSuccess, InHand
  <2> QED
    BY <1>0, <1>10, <2>1, <2>2, BookSettled DEF SaveSuccess, chain, wallet
<1>11. CASE \E t \in indexed : Recover(t)
  <2>1. PICK t \in indexed : Recover(t)
    BY <1>11
  <2>2. pc # "idle" /\ pc' = "idle" /\ Standing(cur) = "pending"
    BY <2>1 DEF Recover, Idle, Standing
  <2>3. t \in net /\ IsTradeOf(t, ask[cur])
    BY <1>0, <2>1 DEF Recover, InHand
  <2> QED
    BY <1>0, <2>1, <2>2, <2>3, BookSettled DEF Recover, chain, wallet
<1>12. CASE LeaveFailed \/ (Crash /\ pc = "resolving")
  <2>1. pc = "resolving" /\ pc' = "idle" /\ Standing(cur) = "pending" /\ UNCHANGED <<net, ask, txid>>
    BY <1>12 DEF LeaveFailed, Crash, Idle, Standing, chain, wallet, row
  <2>2. status' = [status EXCEPT ![cur] = "failed"]
    BY <1>0, <1>12, <2>1 DEF LeaveFailed, Crash, Turn, TypeOK, row
  <2> QED
    BY <1>0, <2>1, <2>2, BookSettled
<1>13. CASE Crash /\ pc # "resolving"
  BY <1>13, BookUnmoved DEF Crash, Idle, chain, wallet, row, AskOf, Standing
<1> QED
  BY <1>1, <1>2, <1>3, <1>4, <1>5, <1>6, <1>7, <1>8, <1>9, <1>10, <1>11, <1>12, <1>13,
     NextIsSomeStep DEF SomeStep

\* The queue with its process, retries and kills does what SettledRequests
\* says: each row taken in is settled once, with its own transaction on chain
\* or as failed (resolve_transaction, resolve_failed_redemption_tx).
THEOREM ImplementsSettledRequests == Spec => BookSpec
<1>1. Init => Turn
  BY DEF Init, Turn
<1> QED
  BY <1>1, TurnStep, BookStep, BookInit, Invariance, PTL DEF Spec, BookSpec, Book!Spec
=============================================================================
