-------------------------- MODULE BroadcastProofs --------------------------
(***************************************************************************)
(* Proofs about Broadcast for any requests, workers, transactions and      *)
(* bounds: the locks exclude but for keys that expired under a request, a  *)
(* success that is reported or recorded is real whatever fails, and the    *)
(* requests that contend for keys never all refuse each other.             *)
(***************************************************************************)
EXTENDS Broadcast, TLAPS

\* The keys a request counts as its own are the ones it set, or have expired
\* under some request ...
HeldAreOwn == \A r \in Requests : \A o \in held[r] : lock[o] = r \/ o \in outlived

\* ... and it uses the node only with a key for every input.
SendingHolds == \A r \in Requests : Sending(r) => Inputs[want[r]] \subseteq held[r]

\* A request that has not begun has no keys.
NewHoldsNone == \A r \in Requests : pc[r] = "new" => held[r] = {}

LockInv == HeldAreOwn /\ SendingHolds /\ NewHoldsNone

\* Nothing is recorded for a request that has not begun, so the transaction
\* of a row never changes.
RowsBegun ==
  /\ \A r \in Requests : pc[r] = "new" => sent[r] = "none" /\ answer[r] = "none" /\ record[r] = "none"
  /\ \A r \in due : record[r] # "none"
  /\ \A w \in Workers : work[w] # Unset => record[work[w]] # "none"

\* Every "accepted" a process remembers is in the mempool.
AcceptedInMempool ==
  /\ \A r \in Requests : sent[r] = "accepted" => want[r] \in mempool
  /\ \A w \in Workers : work[w] # Unset /\ reply[w] = "accepted" => want[work[w]] \in mempool

SuccessInv == RowsBegun /\ AcceptedInMempool /\ SuccessIsInMempool
-----------------------------------------------------------------------------
\* One step, with the disjunctions of Next flattened.
SomeStep ==
  \/ \E r \in Requests : \/ \E tx \in Txs : Begin(r, tx)
                         \/ Acquire(r) \/ Locked(r) \/ Refused(r) \/ RedisFails(r)
                         \/ TestAccepted(r) \/ TestRejected(r)
                         \/ SaveRecord(r) \/ Send(r) \/ RecordResult(r)
                         \/ ReleaseOne(r) \/ Return(r) \/ CrashRequest(r)
  \/ \E o \in Outpoints : Expire(o)
  \/ BulkRebroadcast
  \/ \E w \in Workers : \E r \in due : Resend(w, r)
  \/ \E w \in Workers : RecordResend(w) \/ CrashWorker(w)

LEMMA NextIsSomeStep == Next => SomeStep
  BY DEF Next, SomeStep, Advance

\* sendrawtransaction only adds to the mempool, and "accepted" is true.
LEMMA SendRawGrows ==
  ASSUME NEW tx \in Txs, NEW result, SendRaw(tx, result), mempool \subseteq Txs
  PROVE  /\ mempool \subseteq mempool' /\ mempool' \subseteq Txs
         /\ result = "accepted" => tx \in mempool'
  BY DEF SendRaw

LEMMA TypeStep == ASSUME TypeOK, RowsBegun, Next PROVE TypeOK'
  <1> USE BroadcastAssumption DEF TypeOK, Steps, locks, request, worker, Goto, Tell
  <1>0. SomeStep
    BY NextIsSomeStep
  <1>1. ASSUME NEW r \in Requests, NEW tx \in Txs, Begin(r, tx) PROVE TypeOK'
    BY <1>1 DEF Begin
  <1>2. ASSUME NEW r \in Requests, Acquire(r) PROVE TypeOK'
    BY <1>2 DEF Acquire, SetNX
  <1>3. ASSUME NEW r \in Requests, Locked(r) \/ Return(r) PROVE TypeOK'
    <2>1. UNCHANGED <<mempool, lock, outlived, want, held, sent, answer, record, retries, due, work, reply, crashes>>
      BY <1>3 DEF Locked, Return
    <2>2. pc' \in [Requests -> Steps]
      BY <1>3 DEF Locked, Return
    <2>3. pc'[r] # "new" /\ \A s \in Requests : s # r => pc'[s] = pc[s]
      BY <1>3 DEF Locked, Return
    <2>4. want[r] \in Txs
      BY <1>3 DEF Locked, Return
    <2> QED
      BY <2>1, <2>2, <2>3, <2>4
  <1>15. ASSUME NEW r \in Requests, CrashRequest(r) PROVE TypeOK'
    BY <1>15 DEF CrashRequest
  <1>4. ASSUME NEW r \in Requests, Refused(r) \/ TestRejected(r) PROVE TypeOK'
    <2>1. CASE Refused(r)
      BY <2>1 DEF Refused
    <2>2. CASE TestRejected(r)
      BY <2>2 DEF TestRejected
    <2> QED
      BY <1>4, <2>1, <2>2
  <1>14. ASSUME NEW r \in Requests, RedisFails(r) PROVE TypeOK'
    <2>1. lock' \in [Outpoints -> Requests \cup {Unset}]
      BY <1>14 DEF RedisFails, NextKey
    <2> QED
      BY <1>14, <2>1 DEF RedisFails
  <1>5. ASSUME NEW r \in Requests, TestAccepted(r) \/ SaveRecord(r) PROVE TypeOK'
    <2>1. CASE TestAccepted(r)
      BY <2>1 DEF TestAccepted
    <2>2. CASE SaveRecord(r)
      BY <2>2 DEF SaveRecord
    <2> QED
      BY <1>5, <2>1, <2>2
  <1>6. ASSUME NEW r \in Requests, Send(r) PROVE TypeOK'
    <2>1. mempool' \subseteq Txs
      BY <1>6, SendRawGrows DEF Send
    <2> QED
      BY <1>6, <2>1 DEF Send
  <1>7. ASSUME NEW r \in Requests, RecordResult(r) PROVE TypeOK'
    BY <1>7 DEF RecordResult
  <1>8. ASSUME NEW r \in Requests, ReleaseOne(r) PROVE TypeOK'
    BY <1>8 DEF ReleaseOne
  <1>9. ASSUME NEW o \in Outpoints, Expire(o) PROVE TypeOK'
    BY <1>9 DEF Expire
  <1>10. CASE BulkRebroadcast
    BY <1>10 DEF BulkRebroadcast
  <1>11. ASSUME NEW w \in Workers, NEW r \in due, Resend(w, r) PROVE TypeOK'
    <2>1. want[r] \in Txs
      BY DEF RowsBegun
    <2>2. mempool' \subseteq Txs
      BY <1>11, <2>1, SendRawGrows DEF Resend
    <2>3. work' \in [Workers -> Requests \cup {Unset}] /\ reply' \in [Workers -> {"none", "accepted", "failed"}]
      BY <1>11 DEF Resend
    <2> QED
      BY <1>11, <2>2, <2>3 DEF Resend
  <1>12. ASSUME NEW w \in Workers, RecordResend(w) PROVE TypeOK'
    BY <1>12 DEF RecordResend
  <1>13. ASSUME NEW w \in Workers, CrashWorker(w) PROVE TypeOK'
    BY <1>13 DEF CrashWorker
  <1> QED
    BY <1>0, <1>1, <1>2, <1>3, <1>4, <1>5, <1>6, <1>7, <1>8, <1>9, <1>10,
       <1>11, <1>12, <1>13, <1>14, <1>15 DEF SomeStep

\* A row is saved by a request that has begun, and only saved rows are sent
\* again.
LEMMA BegunStep == ASSUME TypeOK, RowsBegun, Next PROVE RowsBegun'
  <1> USE BroadcastAssumption DEF TypeOK, RowsBegun, locks, request, worker, Goto, Tell
  <1>0. SomeStep
    BY NextIsSomeStep
  <1>1. ASSUME NEW r \in Requests, NEW tx \in Txs, Begin(r, tx) PROVE RowsBegun'
    BY <1>1 DEF Begin
  <1>2. ASSUME NEW r \in Requests,
               \/ Acquire(r) \/ Locked(r) \/ Refused(r) \/ RedisFails(r)
               \/ TestAccepted(r) \/ TestRejected(r)
        PROVE RowsBegun'
    BY <1>2 DEF Acquire, SetNX, Locked, Refused, RedisFails, TestAccepted, TestRejected
  <1>3. ASSUME NEW r \in Requests, SaveRecord(r) \/ Send(r) PROVE RowsBegun'
    BY <1>3 DEF SaveRecord, Send
  <1>4. ASSUME NEW r \in Requests, RecordResult(r) PROVE RowsBegun'
    BY <1>4 DEF RecordResult
  <1>5. ASSUME NEW r \in Requests, ReleaseOne(r) \/ Return(r) \/ CrashRequest(r) PROVE RowsBegun'
    BY <1>5 DEF ReleaseOne, Return, CrashRequest
  <1>6. ASSUME NEW o \in Outpoints, Expire(o) PROVE RowsBegun'
    BY <1>6 DEF Expire
  <1>7. CASE BulkRebroadcast
    BY <1>7 DEF BulkRebroadcast
  <1>8. ASSUME NEW w \in Workers, NEW r \in due, Resend(w, r) PROVE RowsBegun'
    <2>1. \A v \in Workers : work'[v] \in {work[v], r}
      BY <1>8 DEF Resend
    <2> QED
      BY <1>8, <2>1 DEF Resend
  <1>9. ASSUME NEW w \in Workers, RecordResend(w) PROVE RowsBegun'
    BY <1>9 DEF RecordResend
  <1>10. ASSUME NEW w \in Workers, CrashWorker(w) PROVE RowsBegun'
    BY <1>10 DEF CrashWorker
  <1> QED
    BY <1>0, <1>1, <1>2, <1>3, <1>4, <1>5, <1>6, <1>7, <1>8, <1>9, <1>10 DEF SomeStep

\* Every variable of Broadcast keeps its type.
THEOREM TypeCorrect == Spec => []TypeOK
  <1> DEFINE Begun == TypeOK /\ RowsBegun
  <1>1. Init => Begun
    BY BroadcastAssumption DEF Init, TypeOK, RowsBegun, Steps
  <1>2. Begun /\ [Next]_vars => Begun'
    <2> SUFFICES ASSUME Begun, [Next]_vars PROVE Begun'
      OBVIOUS
    <2>1. CASE Next
      BY <2>1, TypeStep, BegunStep
    <2>2. CASE UNCHANGED vars
      BY <2>2 DEF TypeOK, RowsBegun, vars, locks, request, worker
    <2> QED
      BY <2>1, <2>2
  <1> QED
    BY <1>1, <1>2, PTL DEF Spec
-----------------------------------------------------------------------------
\* Nobody but its owner deletes a key that has not expired under a request.
LEMMA LockStep == ASSUME TypeOK, LockInv, Next PROVE LockInv'
  <1> USE BroadcastAssumption DEF TypeOK, HeldAreOwn, SendingHolds, NewHoldsNone, Sending, locks, request, worker, Goto, Tell
  <1>0. SomeStep
    BY NextIsSomeStep
  <1>1. ASSUME NEW r \in Requests, NEW tx \in Txs, Begin(r, tx) PROVE LockInv'
    <2>1. UNCHANGED <<lock, outlived, held>> /\ pc' = [pc EXCEPT ![r] = "locking"] /\ want' = [want EXCEPT ![r] = tx]
      BY <1>1 DEF Begin
    <2> QED
      BY <2>1 DEF LockInv
  <1>2. ASSUME NEW r \in Requests, Acquire(r) PROVE LockInv'
    <2>1. PICK o \in Outpoints : /\ lock[o] = Unset
                                /\ lock' = [lock EXCEPT ![o] = r]
                                /\ held' = [held EXCEPT ![r] = @ \cup {o}]
      BY <1>2 DEF Acquire, SetNX
    <2>2. pc' = pc /\ want' = want /\ outlived' = outlived /\ pc[r] = "locking"
      BY <1>2 DEF Acquire
    <2>3. HeldAreOwn'
      BY <2>1, <2>2 DEF LockInv
    <2>4. SendingHolds' /\ NewHoldsNone'
      BY <2>1, <2>2 DEF LockInv
    <2> QED
      BY <2>3, <2>4 DEF LockInv
  <1>3. ASSUME NEW r \in Requests, Locked(r) PROVE LockInv'
    BY <1>3 DEF Locked, Missing, LockInv
  <1>4. ASSUME NEW r \in Requests,
               \/ Refused(r) \/ TestAccepted(r) \/ TestRejected(r) \/ SaveRecord(r)
               \/ RecordResult(r) \/ Return(r)
        PROVE LockInv'
    <2>1. UNCHANGED <<lock, outlived, held, want>>
      BY <1>4 DEF Refused, TestAccepted, TestRejected, SaveRecord, RecordResult, Return
    <2>2. \A s \in Requests : (Sending(s)' => Sending(s)) /\ (pc'[s] = "new" => pc[s] = "new")
      BY <1>4 DEF Refused, TestAccepted, TestRejected, SaveRecord, RecordResult, Return
    <2> QED
      BY <2>1, <2>2 DEF LockInv
  <1>5. ASSUME NEW r \in Requests, Send(r) PROVE LockInv'
    BY <1>5 DEF Send, LockInv
  <1>6. ASSUME NEW r \in Requests, ReleaseOne(r) PROVE LockInv'
    <2>1. PICK o \in held[r] : /\ lock' \in {[lock EXCEPT ![o] = Unset], lock}
                              /\ held' = [held EXCEPT ![r] = @ \ {o}]
      BY <1>6 DEF ReleaseOne
    <2>2. pc' = pc /\ want' = want /\ outlived' = outlived /\ pc[r] = "releasing"
      BY <1>6 DEF ReleaseOne
    <2>3. \A s \in Requests : s # r /\ o \in held[s] => o \in outlived
      BY DEF LockInv
    <2>4. HeldAreOwn'
      BY <2>1, <2>2, <2>3 DEF LockInv
    <2>5. SendingHolds' /\ NewHoldsNone'
      BY <2>1, <2>2 DEF LockInv
    <2> QED
      BY <2>4, <2>5 DEF LockInv
  <1>7. ASSUME NEW o \in Outpoints, Expire(o) PROVE LockInv'
    <2>1. lock' = [lock EXCEPT ![o] = Unset] /\ UNCHANGED <<pc, want, held>>
      BY <1>7 DEF Expire
    <2>2. outlived \subseteq outlived' /\ (o \in held[lock[o]] => o \in outlived')
      BY <1>7 DEF Expire
    <2>3. HeldAreOwn'
      BY <2>1, <2>2 DEF LockInv
    <2>4. SendingHolds' /\ NewHoldsNone'
      BY <2>1 DEF LockInv
    <2> QED
      BY <2>3, <2>4 DEF LockInv
  <1>8. ASSUME NEW r \in Requests, RedisFails(r) PROVE LockInv'
    <2>1. PICK o \in Outpoints : lock' \in {lock, [lock EXCEPT ![o] = IF @ = Unset THEN r ELSE @]}
      BY <1>8 DEF RedisFails
    <2>2. UNCHANGED <<outlived, held, want>> /\ pc' = [pc EXCEPT ![r] = "releasing"] /\ pc[r] = "locking"
      BY <1>8 DEF RedisFails
    <2>3. \A q \in Outpoints : lock[q] # Unset => lock'[q] = lock[q]
      BY <2>1
    <2>4. HeldAreOwn'
      BY <2>2, <2>3 DEF LockInv
    <2>5. SendingHolds' /\ NewHoldsNone'
      BY <2>2 DEF LockInv
    <2> QED
      BY <2>4, <2>5 DEF LockInv
  <1>9. ASSUME NEW r \in Requests, CrashRequest(r) PROVE LockInv'
    <2>1. /\ UNCHANGED <<lock, outlived, want>>
          /\ pc' = [pc EXCEPT ![r] = "dead"] /\ held' = [held EXCEPT ![r] = {}]
      BY <1>9 DEF CrashRequest
    <2> QED
      BY <2>1 DEF LockInv
  <1>10. ASSUME NEW w \in Workers,
                (\E r \in due : Resend(w, r)) \/ RecordResend(w) \/ CrashWorker(w)
         PROVE LockInv'
    BY <1>10 DEF Resend, RecordResend, CrashWorker, LockInv
  <1>11. CASE BulkRebroadcast
    BY <1>11 DEF BulkRebroadcast, LockInv
  <1> QED
    BY <1>0, <1>1, <1>2, <1>3, <1>4, <1>5, <1>6, <1>7, <1>8, <1>9, <1>10, <1>11 DEF SomeStep

\* Two requests use the node over one outpoint at once only if its key has
\* expired under a request at work: nothing else, neither a kill nor a failed
\* call nor a refusal, lets a second one past _acquire_broadcast_locks.
THEOREM OnlyExpiryLetsTwoInAlways == Spec => []OnlyExpiryLetsTwoIn
  <1>1. Init => LockInv
    BY DEF Init, LockInv, HeldAreOwn, SendingHolds, NewHoldsNone, Sending
  <1>2. TypeOK /\ LockInv /\ [Next]_vars => LockInv'
    <2> SUFFICES ASSUME TypeOK, LockInv, [Next]_vars PROVE LockInv'
      OBVIOUS
    <2>1. CASE Next
      BY <2>1, LockStep
    <2>2. CASE UNCHANGED vars
      BY <2>2 DEF LockInv, HeldAreOwn, SendingHolds, NewHoldsNone, Sending, vars, locks, request
    <2> QED
      BY <2>1, <2>2
  <1>3. LockInv => OnlyExpiryLetsTwoIn
    <2> SUFFICES ASSUME LockInv, NEW r \in Requests, NEW s \in Requests, r # s,
                        Sending(r), Sending(s), NEW o \in Inputs[want[r]] \cap Inputs[want[s]]
                 PROVE o \in outlived
      BY DEF OnlyExpiryLetsTwoIn
    <2>1. o \in held[r] /\ o \in held[s]
      BY DEF LockInv, SendingHolds
    <2> QED
      BY <2>1 DEF LockInv, HeldAreOwn
  <1> QED
    BY <1>1, <1>2, <1>3, TypeCorrect, PTL DEF Spec
-----------------------------------------------------------------------------
\* The transaction of a request that has an answer, a row or a resend stays.
LEMMA SuccessStep == ASSUME TypeOK, SuccessInv, Next PROVE SuccessInv'
  <1> USE BroadcastAssumption
      DEF TypeOK, SuccessInv, AcceptedInMempool, SuccessIsInMempool, locks, request, worker, Goto, Tell
  <1>0. SomeStep
    BY NextIsSomeStep
  <1>a. RowsBegun'
    BY BegunStep
  <1>1. ASSUME NEW r \in Requests, NEW tx \in Txs, Begin(r, tx) PROVE SuccessInv'
    <2>1. /\ \A s \in Requests : s # r => want'[s] = want[s]
          /\ UNCHANGED <<mempool, sent, answer, record, work, reply>>
      BY <1>1 DEF Begin
    <2>2. /\ sent[r] = "none" /\ answer[r] = "none" /\ record[r] = "none"
          /\ \A w \in Workers : work[w] # r
      BY <1>1 DEF Begin, RowsBegun
    <2> QED
      BY <1>a, <2>1, <2>2
  <1>2. ASSUME NEW r \in Requests,
               Acquire(r) \/ Locked(r) \/ ReleaseOne(r) \/ Return(r) \/ CrashRequest(r)
        PROVE SuccessInv'
    BY <1>2, <1>a DEF Acquire, SetNX, Locked, ReleaseOne, Return, CrashRequest
  <1>3. ASSUME NEW r \in Requests,
               Refused(r) \/ RedisFails(r) \/ TestAccepted(r) \/ TestRejected(r)
        PROVE SuccessInv'
    BY <1>3, <1>a DEF Refused, RedisFails, TestAccepted, TestRejected
  <1>4. ASSUME NEW r \in Requests, SaveRecord(r) PROVE SuccessInv'
    BY <1>4, <1>a DEF SaveRecord
  <1>5. ASSUME NEW r \in Requests, Send(r) PROVE SuccessInv'
    <2>1. PICK result \in {"accepted", "failed"} :
            SendRaw(want[r], result) /\ sent' = [sent EXCEPT ![r] = result]
      BY <1>5 DEF Send
    <2>2. want[r] \in Txs
      BY <1>5 DEF Send
    <2>3. mempool \subseteq mempool' /\ (result = "accepted" => want[r] \in mempool')
      BY <2>1, <2>2, SendRawGrows
    <2>4. UNCHANGED <<want, answer, record, work, reply>>
      BY <1>5 DEF Send
    <2> QED
      BY <1>a, <2>1, <2>3, <2>4
  <1>6. ASSUME NEW r \in Requests, RecordResult(r) PROVE SuccessInv'
    BY <1>6, <1>a DEF RecordResult
  <1>7. ASSUME NEW o \in Outpoints, Expire(o) PROVE SuccessInv'
    BY <1>7, <1>a DEF Expire
  <1>8. CASE BulkRebroadcast
    BY <1>8, <1>a DEF BulkRebroadcast
  <1>9. ASSUME NEW w \in Workers, NEW r \in due, Resend(w, r) PROVE SuccessInv'
    <2>1. want[r] \in Txs
      BY DEF RowsBegun
    <2>2. UNCHANGED <<want, sent, answer, record>>
      BY <1>9 DEF Resend
    <2>3. \/ UNCHANGED <<mempool, work, reply>>
          \/ \E result \in {"accepted", "failed"} :
               /\ mempool \subseteq mempool' /\ (result = "accepted" => want[r] \in mempool')
               /\ work' = [work EXCEPT ![w] = r]
               /\ reply' = [reply EXCEPT ![w] = result]
      BY <1>9, <2>1, SendRawGrows DEF Resend
    <2> QED
      BY <1>a, <2>2, <2>3
  <1>10. ASSUME NEW w \in Workers, RecordResend(w) PROVE SuccessInv'
    BY <1>10, <1>a DEF RecordResend
  <1>11. ASSUME NEW w \in Workers, CrashWorker(w) PROVE SuccessInv'
    BY <1>11, <1>a DEF CrashWorker
  <1> QED
    BY <1>0, <1>1, <1>2, <1>3, <1>4, <1>5, <1>6, <1>7, <1>8, <1>9, <1>10, <1>11 DEF SomeStep

\* A success told to the caller or recorded in a row is in the mempool,
\* whatever calls fail and whatever is killed.
THEOREM SuccessIsInMempoolAlways == Spec => []SuccessIsInMempool
  <1>1. Init => SuccessInv
    BY BroadcastAssumption DEF Init, SuccessInv, RowsBegun, AcceptedInMempool, SuccessIsInMempool
  <1>2. TypeOK /\ SuccessInv /\ [Next]_vars => SuccessInv'
    <2> SUFFICES ASSUME TypeOK, SuccessInv, [Next]_vars PROVE SuccessInv'
      OBVIOUS
    <2>1. CASE Next
      BY <2>1, SuccessStep
    <2>2. CASE UNCHANGED vars
      BY <2>2 DEF SuccessInv, RowsBegun, AcceptedInMempool, SuccessIsInMempool, vars, locks, request, worker
    <2> QED
      BY <2>1, <2>2
  <1> QED
    BY <1>1, <1>2, TypeCorrect, PTL DEF Spec, SuccessInv
-----------------------------------------------------------------------------
(* Contention for the keys.                                                 *)

\* A request that was refused and still lives, and one that no key stops.
Lost(r) == answer[r] = "busy" /\ pc[r] # "dead"
Through(r) ==
  \/ pc[r] \in {"testing", "saving", "sending", "recording", "dead"}
  \/ pc[r] \in {"releasing", "done"} /\ answer[r] # "busy"

\* The keys set so far are below those still to be set.
Ascending ==
  \A r \in Requests : pc[r] = "locking" => \A o \in held[r], m \in Missing(r) : o < m

\* Whoever set a key has begun, and counts it as its own while it sets others;
\* nobody is answered before it gives up its keys.
OwnerHolds ==
  \A o \in Outpoints, r \in Requests :
    lock[o] = r => pc[r] # "new" /\ (pc[r] = "locking" => o \in held[r])
AnswersLate == \A r \in Requests : answer[r] # "none" => pc[r] \in {"releasing", "done", "dead"}

\* Unless someone is through, a key of a request that lost was passed by one
\* that has not: it holds a higher key.
Chase ==
  \/ \E r \in Requests : Through(r)
  \/ \A o \in Outpoints, r \in Requests :
       lock[o] = r /\ Lost(r) => \E s \in Requests : pc[s] = "locking" /\ \E p \in held[s] : o < p

SomeoneIsNotLost == Requests # {} => \E r \in Requests : ~ Lost(r)

OrderInv == Ascending /\ OwnerHolds /\ NewHoldsNone /\ AnswersLate
PassInv == OrderInv /\ Chase /\ SomeoneIsNotLost

\* The order of the keys, whatever expires or is deleted.
LEMMA OrderStep == ASSUME TypeOK, OrderInv, Next PROVE OrderInv'
  <1> USE BroadcastAssumption
      DEF TypeOK, OrderInv, Ascending, OwnerHolds, NewHoldsNone, AnswersLate, Missing,
          locks, request, worker, Goto, Tell
  <1>0. SomeStep
    BY NextIsSomeStep
  <1>1. ASSUME NEW r \in Requests, NEW tx \in Txs, Begin(r, tx) PROVE OrderInv'
    <2>1. /\ pc[r] = "new" /\ held[r] = {} /\ \A o \in Outpoints : lock[o] # r
          /\ pc' = [pc EXCEPT ![r] = "locking"] /\ want' = [want EXCEPT ![r] = tx]
          /\ UNCHANGED <<lock, held, answer>>
      BY <1>1 DEF Begin
    <2> QED
      BY <2>1
  <1>2. ASSUME NEW r \in Requests, Acquire(r) PROVE OrderInv'
    <2>1. PICK o \in Outpoints : /\ o \in Missing(r) /\ \A other \in Missing(r) : o <= other
                                /\ lock' = [lock EXCEPT ![o] = r]
                                /\ held' = [held EXCEPT ![r] = @ \cup {o}]
      BY <1>2 DEF Acquire, SetNX, NextKey
    <2>2. UNCHANGED <<pc, want, answer>> /\ pc[r] = "locking"
      BY <1>2 DEF Acquire
    <2>3. Ascending'
      <3> SUFFICES ASSUME NEW s \in Requests, pc[s] = "locking",
                          NEW p \in held'[s], NEW m \in Inputs[want[s]] \ held'[s]
                   PROVE  p < m
        BY <2>2
      <3>1. CASE s # r
        BY <2>1, <3>1
      <3>2. CASE s = r /\ p \in held[r]
        BY <2>1, <3>2
      <3>3. CASE s = r /\ p = o
        <4>1. m \in Missing(r) /\ m # o /\ m \in Nat /\ o \in Nat
          BY <2>1, <2>2, <3>3
        <4> QED
          BY <2>1, <3>3, <4>1
      <3> QED
        BY <2>1, <3>1, <3>2, <3>3
    <2>4. OwnerHolds' /\ NewHoldsNone' /\ AnswersLate'
      BY <2>1, <2>2
    <2> QED
      BY <2>3, <2>4
  <1>3. ASSUME NEW r \in Requests,
               \/ Locked(r) \/ Refused(r) \/ TestAccepted(r) \/ TestRejected(r)
               \/ SaveRecord(r) \/ Send(r) \/ RecordResult(r) \/ Return(r) \/ CrashRequest(r)
        PROVE OrderInv'
    <2>1. /\ UNCHANGED <<lock, want>>
          /\ \A s \in Requests : held'[s] = held[s] \/ pc'[s] = "dead"
      BY <1>3 DEF Locked, Refused, TestAccepted, TestRejected, SaveRecord, Send, RecordResult,
                  Return, CrashRequest
    <2>2. \A s \in Requests : pc'[s] \in {"new", "locking"} => pc'[s] = pc[s]
      BY <1>3 DEF Locked, Refused, TestAccepted, TestRejected, SaveRecord, Send, RecordResult,
                  Return, CrashRequest
    <2>3. \A s \in Requests : pc'[s] = "new" => pc[s] = "new"
      BY <2>2
    <2>4. AnswersLate'
      BY <1>3 DEF Locked, Refused, TestAccepted, TestRejected, SaveRecord, Send, RecordResult,
                  Return, CrashRequest
    <2> QED
      BY <2>1, <2>2, <2>3, <2>4
  <1>4. ASSUME NEW r \in Requests, RedisFails(r) PROVE OrderInv'
    <2>0. PICK q \in Outpoints : lock' \in {lock, [lock EXCEPT ![q] = IF @ = Unset THEN r ELSE @]}
      BY <1>4 DEF RedisFails
    <2>1. \A o \in Outpoints : lock'[o] \in {lock[o], r}
      BY <2>0
    <2>2. UNCHANGED <<held, want>> /\ pc' = [pc EXCEPT ![r] = "releasing"]
          /\ answer' = [answer EXCEPT ![r] = "error"]
      BY <1>4 DEF RedisFails
    <2>3. Ascending' /\ NewHoldsNone'
      BY <2>2
    <2>4. OwnerHolds'
      BY <2>1, <2>2
    <2>5. AnswersLate'
      BY <2>2
    <2> QED
      BY <2>3, <2>4, <2>5
  <1>5. ASSUME NEW r \in Requests, ReleaseOne(r) PROVE OrderInv'
    <2>1. /\ UNCHANGED <<pc, want, answer>> /\ pc[r] = "releasing"
          /\ \A o \in Outpoints : lock'[o] \in {lock[o], Unset}
          /\ \A s \in Requests : s # r => held'[s] = held[s]
          /\ held' \in [Requests -> SUBSET Outpoints]
      BY <1>5 DEF ReleaseOne
    <2>2. Ascending'
      BY <2>1
    <2>3. OwnerHolds'
      <3> SUFFICES ASSUME NEW o \in Outpoints, NEW s \in Requests, lock'[o] = s
                   PROVE  pc[s] # "new" /\ (pc[s] = "locking" => o \in held'[s])
        BY <2>1
      <3>1. lock[o] = s
        BY <2>1
      <3>2. pc[s] # "new" /\ (pc[s] = "locking" => o \in held[s] /\ s # r)
        BY <2>1, <3>1
      <3> QED
        BY <2>1, <3>2
    <2>4. NewHoldsNone' /\ AnswersLate'
      BY <2>1
    <2> QED
      BY <2>2, <2>3, <2>4
  <1>6. ASSUME NEW o \in Outpoints, Expire(o) PROVE OrderInv'
    BY <1>6 DEF Expire
  <1>7. CASE BulkRebroadcast
    BY <1>7 DEF BulkRebroadcast
  <1>8. ASSUME NEW w \in Workers,
               (\E r \in due : Resend(w, r)) \/ RecordResend(w) \/ CrashWorker(w)
        PROVE OrderInv'
    BY <1>8 DEF Resend, RecordResend, CrashWorker
  <1> QED
    BY <1>0, <1>1, <1>2, <1>3, <1>4, <1>5, <1>6, <1>7, <1>8 DEF SomeStep

\* Who is through stays so, and only a refusal makes a request lose.
LEMMA ThroughStays ==
  ASSUME TypeOK, AnswersLate, Next
  PROVE  /\ \A s \in Requests : Through(s) => Through(s)'
         /\ (\A r \in Requests : ~ Refused(r)) => \A s \in Requests : Lost(s)' => Lost(s)
  <1> USE DEF TypeOK, AnswersLate, Through, Lost, locks, request, worker, Goto, Tell
  <1> DEFINE Stays == /\ \A s \in Requests : Through(s) => Through(s)'
                      /\ (\A r \in Requests : ~ Refused(r)) => \A s \in Requests : Lost(s)' => Lost(s)
  <1>0. SomeStep
    BY NextIsSomeStep
  <1>1. ASSUME NEW r \in Requests, NEW tx \in Txs, Begin(r, tx) PROVE Stays
    BY <1>1 DEF Begin
  <1>2. ASSUME NEW r \in Requests,
               Acquire(r) \/ Locked(r) \/ TestAccepted(r) \/ SaveRecord(r) \/ Send(r)
        PROVE Stays
    BY <1>2 DEF Acquire, Locked, TestAccepted, SaveRecord, Send
  <1>3. ASSUME NEW r \in Requests, RedisFails(r) \/ TestRejected(r) \/ RecordResult(r) PROVE Stays
    BY <1>3 DEF RedisFails, TestRejected, RecordResult
  <1>4. ASSUME NEW r \in Requests, ReleaseOne(r) \/ Return(r) \/ CrashRequest(r) PROVE Stays
    BY <1>4 DEF ReleaseOne, Return, CrashRequest
  <1>5. ASSUME NEW r \in Requests, Refused(r) PROVE Stays
    BY <1>5 DEF Refused
  <1>6. ASSUME UNCHANGED <<pc, answer>> PROVE Stays
    BY <1>6
  <1>7. (\E o \in Outpoints : Expire(o)) \/ BulkRebroadcast => UNCHANGED <<pc, answer>>
    BY DEF Expire, BulkRebroadcast
  <1>8. ASSUME NEW w \in Workers,
               (\E r \in due : Resend(w, r)) \/ RecordResend(w) \/ CrashWorker(w)
        PROVE UNCHANGED <<pc, answer>>
    BY <1>8 DEF Resend, RecordResend, CrashWorker
  <1> QED
    BY <1>0, <1>1, <1>2, <1>3, <1>4, <1>5, <1>6, <1>7, <1>8 DEF SomeStep

LEMMA Between ==
  ASSUME NEW a \in Nat, NEW b \in Nat, NEW c \in Nat, a < b, b < c \/ b <= c
  PROVE  a < c
  OBVIOUS

\* A refused request was stopped by a key of another; if that one has lost,
\* someone passed it, and that is not the refused one, whose keys are lower.
LEMMA RefusedKeepsChase ==
  ASSUME TypeOK, PassInv, NEW r \in Requests, Refused(r)
  PROVE  Chase' /\ SomeoneIsNotLost'
  <1> USE BroadcastAssumption DEF TypeOK, locks, request, worker, Goto, Tell
  <1>1. PICK o \in Outpoints : o \in Missing(r) /\ lock[o] # Unset /\ \A m \in Missing(r) : o <= m
    BY DEF Refused, NextKey
  <1>2. /\ pc[r] = "locking" /\ UNCHANGED <<lock, held>>
        /\ pc' = [pc EXCEPT ![r] = "releasing"] /\ answer' = [answer EXCEPT ![r] = "busy"]
    BY DEF Refused
  <1>3. CASE \E s \in Requests : Through(s)
    <2>1. PICK s \in Requests : Through(s)
      BY <1>3
    <2>2. s # r /\ pc'[s] = pc[s] /\ answer'[s] = answer[s]
      BY <1>2, <2>1 DEF Through
    <2>3. Through(s)' /\ ~ Lost(s)'
      BY <2>1, <2>2 DEF Through, Lost, PassInv, OrderInv, AnswersLate
    <2> QED
      BY <2>3 DEF Chase, SomeoneIsNotLost
  <1>4. CASE ~ \E s \in Requests : Through(s)
    \* Everyone's key at o or above is passed by someone else than r.
    <2>1. \A p \in held[r] : p < o /\ p \in Nat
      BY <1>1, <1>2 DEF PassInv, OrderInv, Ascending
    <2>2. \E s \in Requests : s # r /\ pc[s] = "locking" /\ \E p \in held[s] : o <= p
      <3>1. PICK u \in Requests : lock[o] = u
        BY <1>1
      <3>2. u # r
        BY <1>1, <1>2, <3>1 DEF PassInv, OrderInv, OwnerHolds, Missing
      <3>3. pc[u] # "new"
        BY <3>1 DEF PassInv, OrderInv, OwnerHolds
      <3>4. CASE pc[u] = "locking"
        <4>1. o \in held[u] /\ o <= o
          BY <3>1, <3>4 DEF PassInv, OrderInv, OwnerHolds
        <4> QED
          BY <3>2, <3>4, <4>1
      <3>5. CASE pc[u] # "locking"
        <4>1. Lost(u)
          BY <1>4, <3>3, <3>5 DEF Through, Lost, Steps
        <4>2. PICK s \in Requests : pc[s] = "locking" /\ \E p \in held[s] : o < p
          BY <1>4, <3>1, <4>1 DEF PassInv, Chase
        <4>3. PICK p \in held[s] : o < p
          BY <4>2
        <4>4. o \in Nat /\ p \in Nat
          BY <4>3
        <4>5. s # r
          BY <2>1, <4>3, <4>4
        <4> QED
          BY <4>2, <4>3, <4>4, <4>5
      <3> QED
        BY <3>4, <3>5
    <2>3. PICK s \in Requests : s # r /\ pc[s] = "locking" /\ \E p \in held[s] : o <= p
      BY <2>2
    <2>4. PICK p \in held[s] : o <= p
      BY <2>3
    <2>5. o \in Nat /\ p \in Nat /\ pc'[s] = "locking" /\ p \in held'[s] /\ answer'[s] = answer[s]
      BY <1>2, <2>3, <2>4
    <2>6. ~ Lost(s)'
      BY <2>3, <2>5 DEF PassInv, OrderInv, AnswersLate, Lost
    <2>7. ASSUME NEW q \in Outpoints, NEW t \in Requests, lock'[q] = t, Lost(t)'
          PROVE  \E x \in Requests : pc'[x] = "locking" /\ \E y \in held'[x] : q < y
      <3>0. q \in Nat
        OBVIOUS
      <3>1. CASE t = r
        <4>1. q \in held[r]
          BY <1>2, <2>7, <3>1 DEF PassInv, OrderInv, OwnerHolds
        <4>2. q < o
          BY <2>1, <4>1
        <4>3. q < p
          BY <2>4, <2>5, <3>0, <4>2, Between
        <4> QED
          BY <2>5, <4>3
      <3>2. CASE t # r
        <4>1. lock[q] = t /\ Lost(t)
          BY <1>2, <2>7, <3>2 DEF Lost
        <4>2. PICK x \in Requests : pc[x] = "locking" /\ \E y \in held[x] : q < y
          BY <1>4, <4>1 DEF PassInv, Chase
        <4>3. CASE x # r
          BY <1>2, <4>2, <4>3
        <4>4. CASE x = r
          <5>1. PICK y \in held[r] : q < y
            BY <4>2, <4>4
          <5>2. y < o /\ y \in Nat
            BY <2>1, <5>1
          <5>3. q < o
            BY <2>5, <3>0, <5>1, <5>2, Between
          <5>4. q < p
            BY <2>4, <2>5, <3>0, <5>3, Between
          <5> QED
            BY <2>5, <5>4
        <4> QED
          BY <4>3, <4>4
      <3> QED
        BY <3>1, <3>2
    <2>8. Chase'
      BY <2>7 DEF Chase
    <2>9. SomeoneIsNotLost'
      BY <2>6 DEF SomeoneIsNotLost
    <2> QED
      BY <2>8, <2>9
  <1> QED
    BY <1>3, <1>4

\* Before anyone is through, keys go to those that set more, and whoever has
\* not lost keeps its own.
LEMMA ChaseGoesOn ==
  ASSUME TypeOK, OrderInv, Next, ~ \E r \in Requests : Refused(r),
         ~ \E r \in Requests : Through(r), ~ \E r \in Requests : Through(r)'
  PROVE  /\ \A o \in Outpoints, s \in Requests : lock'[o] = s /\ Lost(s)' => lock[o] = s
         /\ \A s \in Requests : pc[s] = "locking" => pc'[s] = "locking" /\ held[s] \subseteq held'[s]
  <1> USE BroadcastAssumption DEF TypeOK, Through, Lost, locks, request, worker, Goto, Tell
  <1> DEFINE GoesOn ==
        /\ \A o \in Outpoints, s \in Requests : lock'[o] = s /\ Lost(s)' => lock[o] = s
        /\ \A s \in Requests : pc[s] = "locking" => pc'[s] = "locking" /\ held[s] \subseteq held'[s]
  <1>0. SomeStep
    BY NextIsSomeStep
  <1>1. ASSUME NEW r \in Requests, NEW tx \in Txs, Begin(r, tx) PROVE GoesOn
    BY <1>1 DEF Begin
  <1>2. ASSUME NEW r \in Requests, Acquire(r) PROVE GoesOn
    <2>1. PICK o \in Outpoints : /\ lock' = [lock EXCEPT ![o] = r]
                                /\ held' = [held EXCEPT ![r] = @ \cup {o}]
      BY <1>2 DEF Acquire, SetNX
    <2>2. UNCHANGED <<pc, answer>> /\ pc[r] = "locking"
      BY <1>2 DEF Acquire
    <2>3. answer[r] = "none"
      BY <2>2 DEF OrderInv, AnswersLate
    <2> QED
      BY <2>1, <2>2, <2>3
  <1>3. ASSUME NEW r \in Requests, Locked(r) PROVE FALSE
    <2>1. pc'[r] = "testing"
      BY <1>3 DEF Locked
    <2> QED
      BY <2>1
  <1>4. ASSUME NEW r \in Requests, RedisFails(r) PROVE FALSE
    <2>1. pc'[r] = "releasing" /\ answer'[r] = "error"
      BY <1>4 DEF RedisFails
    <2> QED
      BY <2>1
  <1>5. ASSUME NEW r \in Requests, CrashRequest(r) PROVE FALSE
    <2>1. pc'[r] = "dead"
      BY <1>5 DEF CrashRequest
    <2> QED
      BY <2>1
  <1>6. ASSUME NEW r \in Requests,
               TestAccepted(r) \/ TestRejected(r) \/ SaveRecord(r) \/ Send(r) \/ RecordResult(r)
        PROVE FALSE
    <2>1. pc[r] \in {"testing", "saving", "sending", "recording"}
      BY <1>6 DEF TestAccepted, TestRejected, SaveRecord, Send, RecordResult
    <2> QED
      BY <2>1
  <1>7. ASSUME NEW r \in Requests, ReleaseOne(r) PROVE GoesOn
    <2>1. /\ UNCHANGED <<pc, answer>> /\ pc[r] = "releasing"
          /\ \A o \in Outpoints : lock'[o] \in {lock[o], Unset}
          /\ \A s \in Requests : s # r => held'[s] = held[s]
      BY <1>7 DEF ReleaseOne
    <2> QED
      BY <2>1
  <1>8. ASSUME NEW r \in Requests, Return(r) PROVE GoesOn
    BY <1>8 DEF Return
  <1>9. ASSUME NEW o \in Outpoints, Expire(o) PROVE GoesOn
    BY <1>9 DEF Expire
  <1>10. CASE BulkRebroadcast
    BY <1>10 DEF BulkRebroadcast
  <1>11. ASSUME NEW w \in Workers,
                (\E r \in due : Resend(w, r)) \/ RecordResend(w) \/ CrashWorker(w)
         PROVE GoesOn
    BY <1>11 DEF Resend, RecordResend, CrashWorker
  <1> QED
    BY <1>0, <1>1, <1>2, <1>3, <1>4, <1>5, <1>6, <1>7, <1>8, <1>9, <1>10, <1>11 DEF SomeStep

LEMMA PassStep == ASSUME TypeOK, PassInv, Next PROVE PassInv'
  <1>1. OrderInv'
    BY OrderStep DEF PassInv
  <1>2. CASE \E r \in Requests : Refused(r)
    BY <1>1, <1>2, RefusedKeepsChase DEF PassInv
  <1>3. CASE ~ \E r \in Requests : Refused(r)
    <2>1. \A s \in Requests : (Through(s) => Through(s)') /\ (Lost(s)' => Lost(s))
      BY <1>3, ThroughStays DEF PassInv, OrderInv
    <2>2. SomeoneIsNotLost'
      BY <2>1 DEF PassInv, SomeoneIsNotLost
    <2>3. CASE (\E s \in Requests : Through(s)) \/ \E s \in Requests : Through(s)'
      BY <1>1, <2>1, <2>2, <2>3 DEF Chase, PassInv
    <2>4. CASE ~ ((\E s \in Requests : Through(s)) \/ \E s \in Requests : Through(s)')
      <3>1. /\ \A o \in Outpoints, s \in Requests : lock'[o] = s /\ Lost(s)' => lock[o] = s
            /\ \A s \in Requests : pc[s] = "locking" => pc'[s] = "locking" /\ held[s] \subseteq held'[s]
        BY <1>3, <2>4, ChaseGoesOn DEF PassInv, OrderInv
      <3>2. Chase'
        BY <2>1, <2>4, <3>1 DEF PassInv, Chase
      <3> QED
        BY <1>1, <2>2, <3>2 DEF PassInv
    <2> QED
      BY <1>1, <2>2, <2>3, <2>4 DEF PassInv
  <1> QED
    BY <1>2, <1>3

\* Requests that contend for outpoints do not all refuse each other, whatever
\* fails, dies or expires, for any number of requests and any inputs: the
\* ascending order of _acquire_broadcast_locks.
THEOREM SomeoneGetsThroughAlways == Spec => []SomeoneGetsThrough
  <1>1. Init => PassInv
    BY BroadcastAssumption DEF Init, PassInv, OrderInv, Ascending, OwnerHolds, NewHoldsNone,
       AnswersLate, Chase, SomeoneIsNotLost, Lost
  <1>2. TypeOK /\ PassInv /\ [Next]_vars => PassInv'
    <2> SUFFICES ASSUME TypeOK, PassInv, [Next]_vars PROVE PassInv'
      OBVIOUS
    <2>1. CASE Next
      BY <2>1, PassStep
    <2>2. CASE UNCHANGED vars
      BY <2>2 DEF PassInv, OrderInv, Ascending, OwnerHolds, NewHoldsNone, AnswersLate, Chase,
         SomeoneIsNotLost, Lost, Through, Missing, vars, locks, request
    <2> QED
      BY <2>1, <2>2
  <1>3. PassInv => SomeoneGetsThrough
    BY DEF PassInv, SomeoneIsNotLost, SomeoneGetsThrough, Lost
  <1> QED
    BY <1>1, <1>2, <1>3, TypeCorrect, PTL DEF Spec
-----------------------------------------------------------------------------
(* Broadcast implements RecordedSends.                                      *)

\* A request saves its row before it sends and is answered after that.
Stage ==
  \A r \in Requests :
    /\ pc[r] = "new" <=> want[r] = Unset
    /\ pc[r] \in {"new", "locking", "testing", "saving"} => record[r] = "none" /\ answer[r] = "none"
    /\ pc[r] \in {"sending", "recording"} => record[r] # "none" /\ answer[r] = "none"

LEMMA StageStep == ASSUME TypeOK, RowsBegun, Stage, Next PROVE Stage'
  <1> USE BroadcastAssumption DEF TypeOK, Stage, RowsBegun, locks, request, worker, Goto, Tell
  <1>0. SomeStep
    BY NextIsSomeStep
  <1>1. ASSUME NEW r \in Requests, NEW tx \in Txs, Begin(r, tx) PROVE Stage'
    BY <1>1 DEF Begin
  <1>2. ASSUME NEW r \in Requests,
               \/ Acquire(r) \/ Locked(r) \/ Refused(r) \/ RedisFails(r)
               \/ TestAccepted(r) \/ TestRejected(r)
        PROVE Stage'
    BY <1>2 DEF Acquire, SetNX, Locked, Refused, RedisFails, TestAccepted, TestRejected
  <1>3. ASSUME NEW r \in Requests, SaveRecord(r) \/ Send(r) PROVE Stage'
    BY <1>3 DEF SaveRecord, Send
  <1>4. ASSUME NEW r \in Requests, RecordResult(r) PROVE Stage'
    BY <1>4 DEF RecordResult
  <1>5. ASSUME NEW r \in Requests, ReleaseOne(r) \/ Return(r) \/ CrashRequest(r) PROVE Stage'
    BY <1>5 DEF ReleaseOne, Return, CrashRequest
  <1>6. ASSUME NEW o \in Outpoints, Expire(o) PROVE Stage'
    BY <1>6 DEF Expire
  <1>7. CASE BulkRebroadcast
    BY <1>7 DEF BulkRebroadcast
  <1>8. ASSUME NEW w \in Workers, (\E r \in due : Resend(w, r)) \/ CrashWorker(w) PROVE Stage'
    BY <1>8 DEF Resend, CrashWorker
  <1>9. ASSUME NEW w \in Workers, RecordResend(w) PROVE Stage'
    <2>1. CASE reply[w] = "accepted"
      BY <1>9, <2>1 DEF RecordResend
    <2>2. CASE reply[w] # "accepted"
      BY <1>9, <2>2 DEF RecordResend
    <2> QED
      BY <2>1, <2>2
  <1> QED
    BY <1>0, <1>1, <1>2, <1>3, <1>4, <1>5, <1>6, <1>7, <1>8, <1>9 DEF SomeStep

\* sendrawtransaction, whoever calls it for a row, is Enter or changes nothing.
LEMMA SendEnters ==
  ASSUME TypeOK, SuccessInv, NEW r \in Requests, record[r] # "none", want[r] \in Txs,
         NEW result, SendRaw(want[r], result) \/ UNCHANGED mempool,
         UNCHANGED <<want, record, answer>>
  PROVE  [Records!Next]_(Records!vars)
  <1>1. CASE mempool' = mempool
    BY <1>1 DEF Records!vars
  <1>2. CASE mempool' # mempool
    <2>1. Acceptable(want[r]) /\ mempool' = mempool \cup {want[r]}
      BY <1>2 DEF SendRaw
    <2>2. record[r] = "pending"
      BY <1>2, <2>1 DEF TypeOK, SuccessInv, SuccessIsInMempool
    <2>3. \A tx \in mempool : tx = want[r] \/ Inputs[tx] \cap Inputs[want[r]] = {}
      BY <2>1 DEF Acceptable, Conflicts
    <2>4. Records!Enter(r)
      BY <2>1, <2>2, <2>3 DEF Records!Enter
    <2> QED
      BY <2>4 DEF Records!Next
  <1> QED
    BY <1>1, <1>2

LEMMA RecordsStep ==
  ASSUME TypeOK, SuccessInv, Stage, Next PROVE [Records!Next]_(Records!vars)
  <1> USE BroadcastAssumption DEF TypeOK, locks, request, worker, Goto, Tell
  <1>0. SomeStep
    BY NextIsSomeStep
  <1>1. ASSUME NEW r \in Requests, NEW tx \in Txs, Begin(r, tx) PROVE Records!Next
    <2>1. Records!Ask(r, tx)
      BY <1>1 DEF Begin, Stage, Records!Ask
    <2> QED
      BY <2>1 DEF Records!Next
  <1>2. ASSUME NEW r \in Requests,
               \/ Acquire(r) \/ Locked(r) \/ TestAccepted(r)
               \/ ReleaseOne(r) \/ Return(r) \/ CrashRequest(r)
        PROVE UNCHANGED Records!vars
    BY <1>2 DEF Acquire, Locked, TestAccepted, ReleaseOne, Return, CrashRequest, Records!vars
  <1>3. ASSUME NEW r \in Requests, Refused(r) \/ RedisFails(r) \/ TestRejected(r) PROVE Records!Next
    <2>1. PICK why \in {"busy", "error"} : answer' = [answer EXCEPT ![r] = why]
      BY <1>3 DEF Refused, RedisFails, TestRejected
    <2>2. /\ pc[r] \in {"locking", "testing"}
          /\ UNCHANGED <<mempool, want, record>>
      BY <1>3 DEF Refused, RedisFails, TestRejected
    <2>3. Records!TellFailure(r, why)
      BY <2>1, <2>2 DEF Stage, Records!TellFailure
    <2> QED
      BY <2>3 DEF Records!Next
  <1>4. ASSUME NEW r \in Requests, SaveRecord(r) PROVE Records!Next
    <2>1. Records!Save(r)
      BY <1>4 DEF SaveRecord, Stage, Records!Save
    <2> QED
      BY <2>1 DEF Records!Next
  <1>5. ASSUME NEW r \in Requests, Send(r) PROVE [Records!Next]_(Records!vars)
    <2>1. record[r] # "none" /\ want[r] \in Txs /\ UNCHANGED <<want, record, answer>>
      BY <1>5 DEF Send, Stage
    <2>2. PICK result : SendRaw(want[r], result)
      BY <1>5 DEF Send
    <2> QED
      BY <2>1, <2>2, SendEnters
  <1>6. ASSUME NEW r \in Requests, RecordResult(r) PROVE Records!Next
    <2>1. record[r] # "none" /\ answer[r] = "none" /\ want[r] # Unset /\ UNCHANGED <<mempool, want>>
      BY <1>6 DEF RecordResult, Stage
    <2>2. CASE sent[r] = "accepted"
      <3>1. Records!TellSuccess(r)
        BY <1>6, <2>1, <2>2 DEF RecordResult, SuccessInv, AcceptedInMempool, Records!TellSuccess
      <3> QED
        BY <3>1 DEF Records!Next
    <2>3. CASE sent[r] # "accepted"
      <3>1. record' = record /\ answer' = [answer EXCEPT ![r] = "error"]
        BY <1>6, <2>3 DEF RecordResult
      <3>2. Records!TellFailure(r, "error")
        BY <2>1, <3>1 DEF Records!TellFailure
      <3> QED
        BY <3>2 DEF Records!Next
    <2> QED
      BY <2>2, <2>3
  <1>7. ASSUME NEW o \in Outpoints, Expire(o) PROVE UNCHANGED Records!vars
    BY <1>7 DEF Expire, Records!vars
  <1>8. ASSUME BulkRebroadcast PROVE UNCHANGED Records!vars
    BY <1>8 DEF BulkRebroadcast, Records!vars
  <1>9. ASSUME NEW w \in Workers, NEW r \in due, Resend(w, r) PROVE [Records!Next]_(Records!vars)
    <2>1. r \in Requests /\ record[r] # "none" /\ want[r] \in Txs /\ UNCHANGED <<want, record, answer>>
      BY <1>9 DEF Resend, SuccessInv, RowsBegun
    <2>2. PICK result \in {"accepted", "failed"} : SendRaw(want[r], result) \/ UNCHANGED mempool
      BY <1>9 DEF Resend
    <2> QED
      BY <2>1, <2>2, SendEnters
  <1>10. ASSUME NEW w \in Workers, RecordResend(w) PROVE [Records!Next]_(Records!vars)
    <2> DEFINE r == work[w]
    <2>1. r \in Requests /\ record[r] # "none" /\ UNCHANGED <<mempool, want, answer>>
      BY <1>10 DEF RecordResend, SuccessInv, RowsBegun
    <2>2. CASE reply[w] = "accepted" /\ record[r] = "pending"
      <3>1. record' = [record EXCEPT ![r] = "succeeded"] /\ want[r] \in mempool
        BY <1>10, <2>2 DEF RecordResend, SuccessInv, AcceptedInMempool
      <3>2. Records!Succeed(r)
        BY <2>1, <2>2, <3>1 DEF Records!Succeed
      <3> QED
        BY <2>1, <3>2 DEF Records!Next
    <2>3. CASE ~ (reply[w] = "accepted" /\ record[r] = "pending")
      <3>1. record' = record
        BY <1>10, <2>1, <2>3 DEF RecordResend
      <3> QED
        BY <2>1, <3>1 DEF Records!vars
    <2> QED
      BY <2>2, <2>3
  <1>11. ASSUME NEW w \in Workers, CrashWorker(w) PROVE UNCHANGED Records!vars
    BY <1>11 DEF CrashWorker, Records!vars
  <1> QED
    BY <1>0, <1>1, <1>2, <1>3, <1>4, <1>5, <1>6, <1>7, <1>8, <1>9, <1>10, <1>11 DEF SomeStep

\* A transaction is on record before the node has it, and what is on record,
\* in the mempool and told never contradict each other, for any number of
\* requests, workers, lost replies and kills, and whether or not requests
\* outlive their keys (broadcast_transaction_sync, broadcast_transaction).
THEOREM ImplementsRecordedSends == Spec => RecordsSpec
  <1> DEFINE IInv == TypeOK /\ SuccessInv /\ Stage
  <1>1. Init => IInv /\ Records!Init
    BY BroadcastAssumption DEF Init, TypeOK, Steps, SuccessInv, RowsBegun, AcceptedInMempool,
       SuccessIsInMempool, Stage, Records!Init
  <1>2. IInv /\ [Next]_vars => IInv' /\ [Records!Next]_(Records!vars)
    <2> SUFFICES ASSUME IInv, [Next]_vars PROVE IInv' /\ [Records!Next]_(Records!vars)
      OBVIOUS
    <2>1. CASE Next
      <3>1. TypeOK' /\ SuccessInv'
        BY <2>1, TypeStep, SuccessStep DEF SuccessInv
      <3> QED
        BY <2>1, <3>1, StageStep, RecordsStep DEF SuccessInv
    <2>2. CASE UNCHANGED vars
      BY <2>2 DEF TypeOK, SuccessInv, RowsBegun, AcceptedInMempool, SuccessIsInMempool, Stage,
         vars, locks, request, worker, Records!vars
    <2> QED
      BY <2>1, <2>2
  <1> QED
    BY <1>1, <1>2, PTL DEF Spec, RecordsSpec, Records!Spec
=============================================================================
