----------------------------- MODULE Broadcast -----------------------------
(***************************************************************************)
(* Broadcasting a wallet's transaction: web requests that lock the inputs  *)
(* in Redis, test, record and send the transaction, and the job that sends *)
(* again what was recorded but not seen to succeed.  The locks are plain   *)
(* keys with a time to live; who set a key is known to this model only.    *)
(***************************************************************************)
EXTENDS Integers, FiniteSets

CONSTANTS
  Requests,      \* calls of broadcast_transaction_sync
  Workers,       \* celery workers of the queue broadcast
  Txs,           \* signed transactions
  Inputs,        \* Inputs[tx]: the outpoints it spends
  Unset,         \* no transaction, no request
  Outpoints,     \* as numbers, for their order
  MaxRetries,    \* num_retries at which a row is given up: 7
  NodeFails,     \* whether a call of the node or of Redis may fail
  MaxUpsets      \* bound: processes killed and keys that expire under a request at work

ASSUME BroadcastAssumption ==
  /\ Outpoints \subseteq Nat
  /\ Inputs \in [Txs -> (SUBSET Outpoints) \ {{}}]
  /\ Unset \notin Requests \cup Txs
  /\ MaxRetries \in Nat /\ MaxUpsets \in Nat
  /\ NodeFails \in BOOLEAN

VARIABLES
  mempool,     \* transactions the node has accepted
  lock,        \* lock[o]: the request that set the key of o, or Unset
  outlived,    \* history: outpoints whose key expired under a request at work
  pc, want,    \* where a request is, and its transaction
  held,        \* lock_keys: the outpoints whose keys it has set
  sent,        \* what the node answered it: "none", "accepted", "failed"
  answer,      \* what its caller was told; "busy": a key was taken
  record,      \* the TransactionBroadcast row it saved
  retries,     \* num_retries of that row
  due,         \* rebroadcasts queued, by row
  work, reply, \* the row a worker sends again, and the node's answer
  crashes

request == <<pc, want, held, sent, answer>>
worker == <<due, work, reply>>
locks == <<lock, outlived>>
vars == <<mempool, locks, request, record, retries, worker, crashes>>

Steps == {"new", "locking", "testing", "saving", "sending", "recording", "releasing", "done", "dead"}

TypeOK ==
  /\ mempool \subseteq Txs
  /\ lock \in [Outpoints -> Requests \cup {Unset}]
  /\ outlived \subseteq Outpoints
  /\ pc \in [Requests -> Steps]
  /\ want \in [Requests -> Txs \cup {Unset}]
  /\ \A r \in Requests : pc[r] # "new" => want[r] \in Txs
  /\ held \in [Requests -> SUBSET Outpoints]
  /\ sent \in [Requests -> {"none", "accepted", "failed"}]
  /\ answer \in [Requests -> {"none", "success", "busy", "error"}]
  /\ record \in [Requests -> {"none", "pending", "succeeded"}]
  /\ retries \in [Requests -> Nat]
  /\ due \subseteq Requests
  /\ work \in [Workers -> Requests \cup {Unset}]
  /\ reply \in [Workers -> {"none", "accepted", "failed"}]
  /\ crashes \in Nat

Init ==
  /\ mempool = {}
  /\ lock = [o \in Outpoints |-> Unset] /\ outlived = {}
  /\ pc = [r \in Requests |-> "new"] /\ want = [r \in Requests |-> Unset]
  /\ held = [r \in Requests |-> {}]
  /\ sent = [r \in Requests |-> "none"] /\ answer = [r \in Requests |-> "none"]
  /\ record = [r \in Requests |-> "none"] /\ retries = [r \in Requests |-> 0]
  /\ due = {}
  /\ work = [w \in Workers |-> Unset] /\ reply = [w \in Workers |-> "none"]
  /\ crashes = 0
-----------------------------------------------------------------------------
(* The node.                                                                *)

Conflicts(tx, other) == tx # other /\ Inputs[tx] \cap Inputs[other] # {}

Acceptable(tx) == \A other \in mempool : ~Conflicts(tx, other)

\* sendrawtransaction, three tries: the reply may be lost, the effect not.
\* A transaction the node has is accepted again.
SendRaw(tx, result) ==
  \/ /\ Acceptable(tx) /\ result = "accepted"
     /\ mempool' = mempool \cup {tx}
  \/ /\ ~Acceptable(tx) /\ result = "failed"
     /\ UNCHANGED mempool
  \/ /\ NodeFails /\ result = "failed"
     /\ mempool' \in {mempool, IF Acceptable(tx) THEN mempool \cup {tx} ELSE mempool}
-----------------------------------------------------------------------------
(* broadcast_transaction_sync.                                              *)

Calm == crashes + Cardinality(outlived) < MaxUpsets

Goto(r, step) == pc' = [pc EXCEPT ![r] = step]
Tell(r, told) == answer' = [answer EXCEPT ![r] = told]

Begin(r, tx) ==
  /\ pc[r] = "new"
  /\ Goto(r, "locking")
  /\ want' = [want EXCEPT ![r] = tx]
  /\ UNCHANGED <<mempool, locks, held, sent, answer, record, retries, worker, crashes>>

Missing(r) == Inputs[want[r]] \ held[r]

SetNX_Overwrites(r, o) ==
  /\ lock' = [lock EXCEPT ![o] = r]
  /\ held' = [held EXCEPT ![r] = @ \cup {o}]

SetNX(r, o) ==
  /\ lock[o] = Unset
  /\ lock' = [lock EXCEPT ![o] = r]
  /\ held' = [held EXCEPT ![r] = @ \cup {o}]

NextKey_Unsorted(r, o) == o \in Missing(r)

\* The outpoints are locked in ascending order.
NextKey(r, o) == o \in Missing(r) /\ \A other \in Missing(r) : o <= other

Acquire(r) ==
  /\ pc[r] = "locking"
  /\ \E o \in Outpoints : NextKey(r, o) /\ SetNX(r, o)
  /\ UNCHANGED <<mempool, outlived, pc, want, sent, answer, record, retries, worker, crashes>>

Locked(r) ==
  /\ pc[r] = "locking" /\ Missing(r) = {}
  /\ Goto(r, "testing")
  /\ UNCHANGED <<mempool, locks, want, held, sent, answer, record, retries, worker, crashes>>

\* A key is taken: the keys set so far are deleted.
Refused(r) ==
  /\ pc[r] = "locking"
  /\ \E o \in Outpoints : NextKey(r, o) /\ lock[o] # Unset
  /\ Goto(r, "releasing")
  /\ Tell(r, "busy")
  /\ UNCHANGED <<mempool, locks, want, held, sent, record, retries, worker, crashes>>

\* The call that sets a key raises; the key may be set all the same.
RedisFails(r) ==
  /\ NodeFails /\ pc[r] = "locking"
  /\ \E o \in Outpoints : /\ NextKey(r, o)
                          /\ lock' \in {lock, [lock EXCEPT ![o] = IF @ = Unset THEN r ELSE @]}
  /\ Goto(r, "releasing")
  /\ Tell(r, "error")
  /\ UNCHANGED <<mempool, outlived, want, held, sent, record, retries, worker, crashes>>

TestAccepted_SendsFirst(r) ==
  /\ pc[r] = "testing"
  /\ Acceptable(want[r]) /\ want[r] \notin mempool
  /\ Goto(r, "sending")
  /\ UNCHANGED <<mempool, locks, want, held, sent, answer, record, retries, worker, crashes>>

\* testmempoolaccept rejects a conflict and a transaction the node has.
TestAccepted(r) ==
  /\ pc[r] = "testing"
  /\ Acceptable(want[r]) /\ want[r] \notin mempool
  /\ Goto(r, "saving")
  /\ UNCHANGED <<mempool, locks, want, held, sent, answer, record, retries, worker, crashes>>

TestRejected(r) ==
  /\ pc[r] = "testing"
  /\ NodeFails \/ ~Acceptable(want[r]) \/ want[r] \in mempool
  /\ Goto(r, "releasing")
  /\ Tell(r, "error")
  /\ UNCHANGED <<mempool, locks, want, held, sent, record, retries, worker, crashes>>

SaveRecord(r) ==
  /\ pc[r] = "saving"
  /\ record' = [record EXCEPT ![r] = "pending"]
  /\ Goto(r, "sending")
  /\ UNCHANGED <<mempool, locks, want, held, sent, answer, retries, worker, crashes>>

Send(r) ==
  /\ pc[r] = "sending"
  /\ \E result \in {"accepted", "failed"} :
       SendRaw(want[r], result) /\ sent' = [sent EXCEPT ![r] = result]
  /\ Goto(r, "recording")
  /\ UNCHANGED <<locks, want, held, answer, record, retries, worker, crashes>>

RecordResult(r) ==
  /\ pc[r] = "recording"
  /\ record' = [record EXCEPT ![r] = IF sent[r] = "accepted" THEN "succeeded" ELSE @]
  /\ Tell(r, IF sent[r] = "accepted" THEN "success" ELSE "error")
  /\ Goto(r, "releasing")
  /\ UNCHANGED <<mempool, locks, want, held, sent, retries, worker, crashes>>

\* The keys in lock_keys are deleted one by one, whoever set them; a delete
\* that raises is passed over.
ReleaseOne(r) ==
  /\ pc[r] = "releasing"
  /\ \E o \in held[r] : /\ lock' \in {[lock EXCEPT ![o] = Unset]} \cup IF NodeFails THEN {lock} ELSE {}
                        /\ held' = [held EXCEPT ![r] = @ \ {o}]
  /\ UNCHANGED <<mempool, outlived, pc, want, sent, answer, record, retries, worker, crashes>>

Return(r) ==
  /\ pc[r] = "releasing" /\ held[r] = {}
  /\ Goto(r, "done")
  /\ UNCHANGED <<mempool, locks, want, held, sent, answer, record, retries, worker, crashes>>

Expire_NoTimeout(o) == FALSE

\* ex=BROADCAST_LOCK_TIMEOUT, 30 s.  With its keys set a request asks the node
\* twice, each time in up to three calls of 30 s (bchn.py 65): a key may expire
\* under a request that counts it as its own.
Expire(o) ==
  /\ lock[o] # Unset
  /\ lock' = [lock EXCEPT ![o] = Unset]
  /\ \/ o \notin held[lock[o]] /\ UNCHANGED outlived
     \/ o \in held[lock[o]] /\ Calm /\ outlived' = outlived \cup {o}
  /\ UNCHANGED <<mempool, request, record, retries, worker, crashes>>
-----------------------------------------------------------------------------
(* bulk_rebroadcast, every 30 s, over rows 30 s old: a slow request may     *)
(* still be sending its own.                                                *)

BulkRebroadcast_Failed ==
  /\ due' = due \cup {r \in Requests : record[r] = "pending" /\ answer[r] = "error" /\ retries[r] < MaxRetries}
  /\ UNCHANGED <<mempool, locks, request, record, retries, work, reply, crashes>>

BulkRebroadcast ==
  /\ due' = due \cup {r \in Requests : record[r] = "pending" /\ retries[r] < MaxRetries}
  /\ UNCHANGED <<mempool, locks, request, record, retries, work, reply, crashes>>

\* broadcast_transaction: nothing is sent for a row that was given up, and a
\* transaction that is indexed counts as sent.
Resend(w, r) ==
  /\ work[w] = Unset /\ r \in due
  /\ due' = due \ {r}
  /\ \/ retries[r] >= MaxRetries /\ UNCHANGED <<mempool, work, reply>>
     \/ /\ retries[r] < MaxRetries
        /\ work' = [work EXCEPT ![w] = r]
        /\ \E result \in {"accepted", "failed"} :
             SendRaw(want[r], result) /\ reply' = [reply EXCEPT ![w] = result]
     \/ /\ want[r] \in mempool /\ UNCHANGED mempool
        /\ work' = [work EXCEPT ![w] = r]
        /\ reply' = [reply EXCEPT ![w] = "accepted"]
  /\ UNCHANGED <<locks, request, record, retries, crashes>>

RecordResend_CountDown(w) ==
  /\ work[w] # Unset
  /\ record' = [record EXCEPT ![work[w]] = IF reply[w] = "accepted" THEN "succeeded" ELSE @]
  /\ retries' = [retries EXCEPT ![work[w]] = @ - IF reply[w] = "accepted" THEN 0 ELSE 1]
  /\ work' = [work EXCEPT ![w] = Unset] /\ reply' = [reply EXCEPT ![w] = "none"]
  /\ UNCHANGED <<mempool, locks, request, due, crashes>>

RecordResend(w) ==
  /\ work[w] # Unset
  /\ record' = [record EXCEPT ![work[w]] = IF reply[w] = "accepted" THEN "succeeded" ELSE @]
  /\ retries' = [retries EXCEPT ![work[w]] = @ + IF reply[w] = "accepted" THEN 0 ELSE 1]
  /\ work' = [work EXCEPT ![w] = Unset] /\ reply' = [reply EXCEPT ![w] = "none"]
  /\ UNCHANGED <<mempool, locks, request, due, crashes>>

CrashRequest(r) ==
  /\ Calm /\ pc[r] \notin {"new", "done", "dead"}
  /\ crashes' = crashes + 1
  /\ Goto(r, "dead")
  /\ held' = [held EXCEPT ![r] = {}] /\ sent' = [sent EXCEPT ![r] = "none"]
  /\ UNCHANGED <<mempool, locks, want, answer, record, retries, worker>>

CrashWorker(w) ==
  /\ Calm /\ work[w] # Unset
  /\ crashes' = crashes + 1
  /\ due' \in {due, due \cup {work[w]}}
  /\ work' = [work EXCEPT ![w] = Unset] /\ reply' = [reply EXCEPT ![w] = "none"]
  /\ UNCHANGED <<mempool, locks, request, record, retries>>

Advance(r) ==
  \/ Acquire(r) \/ Locked(r) \/ Refused(r) \/ RedisFails(r) \/ TestAccepted(r) \/ TestRejected(r)
  \/ SaveRecord(r) \/ Send(r) \/ RecordResult(r) \/ ReleaseOne(r) \/ Return(r)

Next ==
  \/ \E r \in Requests : (\E tx \in Txs : Begin(r, tx)) \/ Advance(r) \/ CrashRequest(r)
  \/ \E o \in Outpoints : Expire(o)
  \/ BulkRebroadcast
  \/ \E w \in Workers : (\E r \in due : Resend(w, r)) \/ RecordResend(w) \/ CrashWorker(w)

Spec == Init /\ [][Next]_vars

\* Threads and workers run, Redis expires keys, beat calls the job.
FairSpec ==
  /\ Spec
  /\ \A r \in Requests : WF_vars(Advance(r))
  /\ \A o \in Outpoints : WF_vars(Expire(o))
  /\ WF_vars(BulkRebroadcast)
  /\ \A r \in Requests : SF_vars(\E w \in Workers : Resend(w, r))
  /\ \A w \in Workers : WF_vars(RecordResend(w))
-----------------------------------------------------------------------------
(* Properties.                                                              *)

\* A request that has all its keys and may still use the node.
Sending(r) == pc[r] \in {"testing", "saving", "sending", "recording"}

\* Two requests use the node over one outpoint at once only if its key has
\* expired under a request at work, at any time before: with that exception,
\* whatever is lost, refused or killed, the keys "prevent concurrent
\* double-spends" (broadcast.py 36).  A slow request deletes keys by name, so
\* the two need not be the ones that the key expired under.
OnlyExpiryLetsTwoIn ==
  \A r, s \in Requests :
    r # s /\ Sending(r) /\ Sending(s) => Inputs[want[r]] \cap Inputs[want[s]] \subseteq outlived

\* The caller is told success only once the node has the transaction, and a
\* row is marked succeeded only then, by the request or by a rebroadcast.
SuccessIsInMempool ==
  \A r \in Requests :
    answer[r] = "success" \/ record[r] = "succeeded" => want[r] \in mempool

\* What a transaction goes through for its caller and its row is a behaviour
\* of RecordedSends, whatever the locks, the rebroadcasts, lost replies and
\* kills do: it is on record before the node has it, and told once.
Records == INSTANCE RecordedSends
RecordsSpec == Records!Spec

\* Requests that contend for outpoints do not all refuse each other: in the
\* fixed order of locking, one of them gets past the locks or fails for a
\* reason other than a taken key (an error of Redis is "error" here).
SomeoneGetsThrough ==
  Requests # {} => \E r \in Requests : ~ (pc[r] = "done" /\ answer[r] = "busy")

\* A lock does not outlive its request, however that ended.
LocksAreFreed == \A o \in Outpoints : lock[o] # Unset ~> lock[o] = Unset

\* A recorded broadcast is settled in the end, though its request or the
\* worker that retries it dies.
BroadcastsSettle ==
  \A r \in Requests :
    record[r] = "pending" ~> record[r] = "succeeded" \/ retries[r] >= MaxRetries
=============================================================================
