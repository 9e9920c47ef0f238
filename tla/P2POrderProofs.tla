--------------------------- MODULE P2POrderProofs ---------------------------
(***************************************************************************)
(* Theorems about P2POrder for every number of request threads and         *)
(* workers, every set of handlers and every bound.  IInv collects what a   *)
(* step needs to know: the state of the processes (JobOK, SavedLogged) and *)
(* what stands behind every message and every pending write.               *)
(***************************************************************************)
EXTENDS P2POrder, TLAPS

\* A process that is not idle has a job.
JobOK == \A p \in Procs : pc[p] = "idle" <=> job[p] = "none"

TypeInv == TypeOK /\ JobOK

LEMMA StatusOfType ==
  ASSUME NEW op \in Ops \cup Actions
  PROVE  StatusOf[op] \in StatusType
BY DEF Ops, Actions, StatusOf, StatusType

\* Adding a row to the status log.
LEMMA AppendType ==
  ASSUME NEW l \in Seq(StatusType), NEW s \in StatusType
  PROVE  Append(l, s) \in Seq(StatusType) /\ Append(l, s) # << >>
<1>1. Append(l, s) \in Seq(StatusType) /\ Len(Append(l, s)) = Len(l) + 1
  OBVIOUS
<1>2. Len(l) \in Nat /\ Len(<< >>) = 0
  OBVIOUS
<1> QED
  BY <1>1, <1>2

LEMMA LoggedAppend ==
  ASSUME NEW l \in Seq(StatusType), NEW s \in StatusType, NEW t
  PROVE  Logged(Append(l, s), t) <=> Logged(l, t) \/ t = s
<1>1. /\ Len(Append(l, s)) = Len(l) + 1
      /\ \A i \in 1..Len(l) : Append(l, s)[i] = l[i]
      /\ Append(l, s)[Len(l) + 1] = s
  OBVIOUS
<1>2. 1..(Len(l) + 1) = (1..Len(l)) \cup {Len(l) + 1}
  OBVIOUS
<1> QED
  BY <1>1, <1>2 DEF Logged

LEMMA TypeInit == Init => TypeInv
<1> SUFFICES ASSUME Init PROVE TypeInv
  OBVIOUS
<1>1. <<"SBM", "CNF">> \in Seq(StatusType) /\ <<"SBM", "CNF">> # << >>
  BY DEF StatusType
<1> QED
  BY <1>1, ConstantsAssumption DEF Init, TypeInv, TypeOK, JobOK, Steps, Ops, Actions

LEMMA TypeStep == TypeInv /\ [Next]_vars => TypeInv'
<1> SUFFICES ASSUME TypeInv, [Next]_vars PROVE TypeInv'
  OBVIOUS
<1> USE DEF TypeInv, TypeOK, JobOK, Procs, Steps
<1>0. ASSUME NEW p \in Procs, SaveStatus(p) PROVE TypeInv'
  <2>1. StatusOf[job[p]] \in StatusType
    BY <1>0, StatusOfType DEF SaveStatus
  <2>2. /\ log' \in Seq(StatusType) /\ log' # << >>
        /\ UNCHANGED <<row, appeal, appealable, subscribed, chain, queue, crashes>>
    BY <1>0, <2>1, AppendType DEF SaveStatus, AddStatus
  <2>3. CASE HasRowToWrite(job[p])
    BY <1>0, <2>2, <2>3 DEF SaveStatus, Goto
  <2>4. CASE ~HasRowToWrite(job[p])
    BY <1>0, <2>2, <2>4 DEF SaveStatus, Finish
  <2> QED
    BY <2>3, <2>4
<1>1. ASSUME NEW r \in Procs, NEW op \in Ops, NEW step \in Steps \ {"idle"}, Request(r, op, step)
      PROVE  TypeInv'
  BY <1>1 DEF Request, Start, data, Ops, Actions
<1>2. ASSUME NEW r \in Requests, RequestStep(r) PROVE TypeInv'
  <2>1. CASE PendingEscrow(r) \/ Cancel(r) \/ BuyerLoadOrder(r) \/ SellerConfirmPayment(r)
             \/ CreateAppeal(r) \/ PendingRelease(r) \/ PendingRefund(r) \/ SelectExpired(r)
    BY <1>1, <2>1 DEF PendingEscrow, Cancel, BuyerLoadOrder, SellerConfirmPayment,
      CreateAppeal, PendingRelease, PendingRefund, SelectExpired, Ops
  <2>2. CASE BuyerConfirmPayment(r)
    BY <1>2, <2>2 DEF BuyerConfirmPayment, Goto
  <2>3. CASE CancelExpired(r) \/ Refuse(r)
    BY <1>2, <2>3 DEF CancelExpired, Refuse, Goto, Finish, data
  <2>4. CASE SaveAppeal(r)
    <3>1. "APL" \in StatusType
      BY DEF StatusType
    <3>2. log' \in Seq(StatusType) /\ log' # << >>
      <4>1. Append(log, "APL") \in Seq(StatusType) /\ Append(log, "APL") # << >>
        BY <3>1, AppendType
      <4>2. log' = log \/ log' = Append(log, "APL")
        BY <2>4 DEF SaveAppeal, AddStatus
      <4> QED
        BY <4>1, <4>2
    <3>3. appeal' \in {"none", "open", "resolved"}
      BY <2>4 DEF SaveAppeal
    <3> QED
      BY <1>2, <2>4, <3>2, <3>3 DEF SaveAppeal, Finish
  <2>5. CASE SaveDecision(r)
    <3>1. StatusOf[job[r]] \in StatusType
      BY <2>5, StatusOfType DEF SaveDecision, Ops
    <3>2. log' \in Seq(StatusType) /\ log' # << >>
      BY <2>5, <3>1, AppendType DEF SaveDecision, AddStatus
    <3>3. row' \in [Actions -> {"absent", "pending", "valid"}]
      BY <2>5 DEF SaveDecision, GetOrCreate, Actions
    <3> QED
      BY <1>2, <2>5, <3>2, <3>3 DEF SaveDecision, Finish
  <2>6. CASE SaveStatus(r)
    BY <1>2, <2>6, <1>0
  <2>7. CASE SaveRequestRow(r)
    BY <1>2, <2>7 DEF SaveRequestRow, GetOrCreate, Finish, Actions
  <2> QED
    BY <1>2, <2>1, <2>2, <2>3, <2>4, <2>5, <2>6, <2>7 DEF RequestStep
<1>3. ASSUME NEW w \in Workers, WorkerStep(w) PROVE TypeInv'
  <2>1. CASE AcceptTransaction(w) \/ Refuse(w)
    BY <1>3, <2>1 DEF AcceptTransaction, Refuse, Goto, Finish, data
  <2>2. CASE SaveStatus(w)
    BY <1>3, <2>2, <1>0
  <2>3. CASE SaveTransaction(w)
    BY <1>3, <2>3 DEF SaveTransaction, Finish, Actions
  <2>4. CASE DropSubscription(w)
    BY <1>3, <2>4 DEF DropSubscription, Goto
  <2> QED
    BY <1>3, <2>1, <2>2, <2>3, <2>4 DEF WorkerStep
<1>4. ASSUME NEW w \in Workers, NEW a \in Actions, RecordTransaction(w, a) PROVE TypeInv'
  BY <1>4, ConstantsAssumption DEF RecordTransaction, Start, Actions
<1>5. CASE Listen
  <2>1. ASSUME NEW a \in Actions, ValidateTransaction(a) PROVE TypeInv'
    BY <2>1, ConstantsAssumption DEF ValidateTransaction, data
  <2> QED
    BY <1>5, <2>1 DEF Listen, ProcessEscrowOutput, ProcessSpendInput, VerifyEscrow,
      VerifyRelease, VerifyRefund, Actions
<1>6. CASE Environment
  BY <1>6 DEF Environment, FundEscrow, SpendEscrow, CooldownPasses, data
<1>7. ASSUME NEW p \in Procs, Crash(p) PROVE TypeInv'
  BY <1>7, ConstantsAssumption DEF Crash, Finish, data
<1>8. CASE UNCHANGED vars
  BY <1>8 DEF vars
<1>9. ASSUME NEW w \in Workers, NEW a \in Actions, GiveUpRecording(w, a) PROVE TypeInv'
  BY <1>9, ConstantsAssumption DEF GiveUpRecording, Actions
<1> QED
  BY <1>2, <1>3, <1>4, <1>5, <1>6, <1>7, <1>8, <1>9 DEF Next

\* Every variable keeps its type, and a process has a job exactly while it
\* is not idle.
THEOREM TypeCorrect == Spec => []TypeOK
<1>1. Spec => []TypeInv
  BY TypeInit, TypeStep, PTL DEF Spec
<1> QED
  BY <1>1, PTL DEF TypeInv
-----------------------------------------------------------------------------
(* What one step can do to the log, the coin, the messages and the rows. *)

\* A validation message for action a is queued, or a worker has one in hand.
Evidence(a) == queue[a] > 0 \/ \E p \in Procs : job[p] = a

LEMMA SomeStep ==
  ASSUME [Next]_vars
  PROVE  \/ \E p \in Procs, op \in Ops, step \in {"loaded", "loaded_null", "checked"} :
              /\ Request(p, op, step)
              /\ op = "appeal" => CashIn \/ appealable = "passed"
              /\ op \in {"pending_release", "pending_refund"} => appeal # "none"
              /\ op = "buyer_confirm_payment" /\ step = "loaded" => appealable # "unset"
         \/ \E p \in Procs :
              \/ BuyerConfirmPayment(p) \/ CancelExpired(p) \/ Refuse(p)
              \/ SaveAppeal(p) \/ SaveDecision(p) \/ SaveStatus(p)
              \/ SaveRequestRow(p) \/ AcceptTransaction(p) \/ DropSubscription(p)
              \/ SaveTransaction(p) \/ Crash(p)
         \/ \E w \in Procs, a \in Actions : RecordTransaction(w, a) \/ GiveUpRecording(w, a)
         \/ \E a \in Actions :
              /\ ValidateTransaction(a)
              /\ a = "RELEASE" => row[a] = "pending" \/ Latest(log) \in {"PD", "RLS_PN"}
         \/ FundEscrow \/ SpendEscrow \/ CooldownPasses
         \/ UNCHANGED vars
<1> USE DEF Procs
<1>1. ASSUME NEW r \in Requests, RequestStep(r)
      PROVE  \/ \E p \in Procs, op \in Ops, step \in {"loaded", "loaded_null", "checked"} :
                  /\ Request(p, op, step)
                  /\ op = "appeal" => CashIn \/ appealable = "passed"
                  /\ op \in {"pending_release", "pending_refund"} => appeal # "none"
                  /\ op = "buyer_confirm_payment" /\ step = "loaded" => appealable # "unset"
             \/ BuyerConfirmPayment(r) \/ CancelExpired(r) \/ Refuse(r)
             \/ SaveAppeal(r) \/ SaveDecision(r) \/ SaveStatus(r) \/ SaveRequestRow(r)
  BY <1>1 DEF RequestStep, PendingEscrow, Cancel, BuyerLoadOrder, SellerConfirmPayment,
    CreateAppeal, PendingRelease, PendingRefund, SelectExpired, Ops
<1>2. ASSUME Listen
      PROVE  \E a \in Actions :
               /\ ValidateTransaction(a)
               /\ a = "RELEASE" => row[a] = "pending" \/ Latest(log) \in {"PD", "RLS_PN"}
  BY <1>2 DEF Listen, ProcessEscrowOutput, ProcessSpendInput, VerifyEscrow, VerifyRelease,
    VerifyRefund, PendingRows, Actions
<1> QED
  BY <1>1, <1>2 DEF Next, WorkerStep, Environment

\* A step adds at most one row to the log: the status of a job whose checks
\* are done; an APPEALED row only with the Appeal row.
LEMMA LogStep ==
  ASSUME TypeInv, [Next]_vars
  PROVE  \/ log' = log
         \/ /\ \E p \in Procs : /\ pc[p] = "checked" /\ job[p] # "none"
                                /\ log' = Append(log, StatusOf[job[p]])
                                /\ job[p] = "appeal" => appeal = "none" /\ appeal' = "open"
            /\ chain' = chain
<1> USE DEF TypeInv, JobOK
<1>1. StatusOf["appeal"] = "APL"
  BY DEF StatusOf
<1>2. ASSUME NEW p \in Procs, SaveAppeal(p) \/ SaveDecision(p) \/ SaveStatus(p)
      PROVE  \/ log' = log
             \/ /\ pc[p] = "checked" /\ job[p] # "none"
                /\ log' = Append(log, StatusOf[job[p]])
                /\ job[p] = "appeal" => appeal = "none" /\ appeal' = "open"
                /\ chain' = chain
  BY <1>1, <1>2 DEF SaveAppeal, SaveDecision, SaveStatus, AddStatus
<1>3. CASE \E p \in Procs : SaveAppeal(p) \/ SaveDecision(p) \/ SaveStatus(p)
  BY <1>2, <1>3
<1>4. CASE ~\E p \in Procs : SaveAppeal(p) \/ SaveDecision(p) \/ SaveStatus(p)
  <2>1. log' = log
    BY <1>4, SomeStep DEF Request, BuyerConfirmPayment, CancelExpired, Refuse,
      SaveRequestRow, AcceptTransaction, DropSubscription, SaveTransaction, Crash, RecordTransaction, GiveUpRecording,
      ValidateTransaction, FundEscrow, SpendEscrow, CooldownPasses, data, vars
  <2> QED
    BY <2>1
<1> QED
  BY <1>3, <1>4

\* No status leaves the log, and what enters it is some job's status.
LEMMA LoggedStep ==
  ASSUME TypeInv, [Next]_vars, NEW t
  PROVE  /\ Logged(log, t) => Logged(log', t)
         /\ Logged(log', t) =>
              \/ Logged(log, t)
              \/ /\ \E p \in Procs : /\ pc[p] = "checked" /\ job[p] \in Ops \cup Actions
                                     /\ StatusOf[job[p]] = t
                                     /\ job[p] = "appeal" => appeal = "none" /\ appeal' = "open"
                 /\ chain' = chain
<1>1. CASE log' = log
  BY <1>1
<1>2. CASE log' # log
  <2>1. PICK p \in Procs : /\ pc[p] = "checked" /\ job[p] # "none"
                           /\ log' = Append(log, StatusOf[job[p]])
                           /\ job[p] = "appeal" => appeal = "none" /\ appeal' = "open"
    BY <1>2, LogStep
  <2>2. job[p] \in Ops \cup Actions
    BY <2>1 DEF TypeInv, TypeOK
  <2>3. StatusOf[job[p]] \in StatusType /\ log \in Seq(StatusType)
    BY <2>2, StatusOfType DEF TypeInv, TypeOK
  <2>4. Logged(log', t) <=> Logged(log, t) \/ t = StatusOf[job[p]]
    BY <2>1, <2>3, LoggedAppend
  <2>5. chain' = chain
    BY <1>2, LogStep
  <2> QED
    BY <2>1, <2>2, <2>4, <2>5
<1> QED
  BY <1>1, <1>2

\* A verdict on the coin stays true: it is spent once.
LEMMA ChainStep ==
  ASSUME [Next]_vars, NEW a \in Actions, VerifyTxn(a)
  PROVE  VerifyTxn(a)'
<1>1. \/ chain' = chain
      \/ chain = "unfunded" /\ chain' = "funded"
      \/ chain = "funded" /\ chain' \in {"released", "refunded"}
  BY SomeStep DEF Request, BuyerConfirmPayment, CancelExpired, Refuse, SaveAppeal,
    SaveDecision, SaveStatus, SaveRequestRow, AcceptTransaction, DropSubscription, SaveTransaction, Crash,
    RecordTransaction, GiveUpRecording, ValidateTransaction, FundEscrow, SpendEscrow, CooldownPasses, vars
<1> QED
  BY <1>1 DEF VerifyTxn

\* Jobs: a step gives at most one process a new job.
LEMMA JobStep ==
  ASSUME TypeInv, [Next]_vars, NEW p \in Procs
  PROVE  \/ job'[p] = job[p] \/ job'[p] = "none"
         \/ /\ job'[p] \in Actions
            /\ queue[job'[p]] > 0
         \/ /\ job'[p] \in Ops
            /\ job'[p] = "appeal" => CashIn \/ appealable = "passed"
            /\ job'[p] \in {"pending_release", "pending_refund"} => appeal # "none"
<1> USE DEF TypeInv, TypeOK
<1>1. ASSUME NEW q \in Procs, NEW op \in Ops, NEW step, Request(q, op, step)
      PROVE  job'[p] = job[p] \/ job'[p] = op
  BY <1>1 DEF Request, Start
<1>2. ASSUME NEW q \in Procs, NEW a \in Actions, RecordTransaction(q, a)
      PROVE  job'[p] = job[p] \/ (job'[p] = a /\ queue[a] > 0)
  BY <1>2 DEF RecordTransaction, Start
<1>3. ASSUME NEW q \in Procs, Goto(q, "checked") \/ Goto(q, "saved") \/ Goto(q, "dropped") \/ Finish(q)
      PROVE  job'[p] = job[p] \/ job'[p] = "none"
  BY <1>3 DEF Goto, Finish
<1>4. ASSUME NEW q \in Procs,
             \/ BuyerConfirmPayment(q) \/ CancelExpired(q) \/ Refuse(q)
             \/ SaveAppeal(q) \/ SaveDecision(q) \/ SaveStatus(q)
             \/ SaveRequestRow(q) \/ AcceptTransaction(q) \/ DropSubscription(q)
             \/ SaveTransaction(q) \/ Crash(q)
      PROVE  job'[p] = job[p] \/ job'[p] = "none"
  BY <1>3, <1>4 DEF BuyerConfirmPayment, CancelExpired, Refuse, SaveAppeal, SaveDecision,
    SaveStatus, SaveRequestRow, AcceptTransaction, DropSubscription, SaveTransaction, Crash
<1>5. CASE \/ \E a \in Actions : ValidateTransaction(a)
           \/ \E w \in Procs, a \in Actions : GiveUpRecording(w, a)
           \/ FundEscrow \/ SpendEscrow \/ CooldownPasses \/ UNCHANGED vars
  BY <1>5 DEF ValidateTransaction, GiveUpRecording, FundEscrow, SpendEscrow, CooldownPasses, vars
<1> QED
  BY <1>1, <1>2, <1>4, <1>5, SomeStep

\* Messages: a new one is verified, and a new release was waited for.
LEMMA EvidenceStep ==
  ASSUME TypeInv, [Next]_vars, NEW a \in Actions, Evidence(a)'
  PROVE  \/ Evidence(a)
         \/ /\ VerifyTxn(a)
            /\ a = "RELEASE" => row[a] = "pending" \/ Latest(log) \in {"PD", "RLS_PN"}
<1> USE DEF TypeInv, TypeOK
<1>1. CASE \E p \in Procs : job'[p] = a
  <2>1. PICK p \in Procs : job'[p] = a
    BY <1>1
  <2>2. a \notin Ops /\ a # "none"
    BY DEF Ops, Actions
  <2>3. job[p] = a \/ queue[a] > 0
    BY <2>1, <2>2, JobStep
  <2> QED
    BY <2>3 DEF Evidence
<1>2. CASE queue'[a] > 0 /\ ~(queue[a] > 0)
  <2>1. queue' # queue
    BY <1>2
  <2>2. \/ \E p \in Procs : Crash(p)
        \/ \E w \in Procs, b \in Actions : RecordTransaction(w, b) \/ GiveUpRecording(w, b)
        \/ \E b \in Actions :
             /\ ValidateTransaction(b)
             /\ b = "RELEASE" => row[b] = "pending" \/ Latest(log) \in {"PD", "RLS_PN"}
    BY <2>1, SomeStep DEF Request, BuyerConfirmPayment, CancelExpired, Refuse, SaveAppeal,
      SaveDecision, SaveStatus, SaveRequestRow, AcceptTransaction, DropSubscription, SaveTransaction,
      FundEscrow, SpendEscrow, CooldownPasses, vars
  <2>3. ASSUME NEW p \in Procs, Crash(p) PROVE Evidence(a)
    BY <1>2, <2>3 DEF Crash, Evidence
  <2>4. ASSUME NEW w \in Procs, NEW b \in Actions, RecordTransaction(w, b) \/ GiveUpRecording(w, b)
        PROVE  FALSE
    BY <1>2, <2>4 DEF RecordTransaction, GiveUpRecording
  <2>5. ASSUME NEW b \in Actions, ValidateTransaction(b) PROVE a = b
    BY <1>2, <2>5 DEF ValidateTransaction
  <2> QED
    BY <2>2, <2>3, <2>4, <2>5 DEF ValidateTransaction
<1> QED
  BY <1>1, <1>2 DEF Evidence

\* Transaction rows: made valid on evidence, and a RELEASE row is made on
\* evidence, by a decision, or after a payment the seller confirmed.
LEMMA RowStep ==
  ASSUME TypeInv, [Next]_vars, NEW a \in Actions
  PROVE  /\ row'[a] = "valid" => row[a] = "valid" \/ Evidence(a)
         /\ row'[a] # "absent" /\ a = "RELEASE" =>
              \/ row[a] # "absent" \/ Evidence(a)
              \/ \E p \in Procs : pc[p] = "saved" /\ job[p] = "seller_confirm_payment"
              \/ \E p \in Procs : /\ pc[p] = "checked" /\ job[p] = "pending_release"
                                  /\ log' = Append(log, StatusOf[job[p]])
<1> USE DEF TypeInv, TypeOK
<1>1. CASE row' = row
  BY <1>1
<1>2. CASE row' # row
  <2>1. \/ \E p \in Procs : SaveDecision(p) \/ SaveRequestRow(p) \/ SaveTransaction(p)
        \/ \E w \in Procs, b \in Actions : RecordTransaction(w, b) \/ GiveUpRecording(w, b)
    BY <1>2, SomeStep DEF Request, BuyerConfirmPayment, CancelExpired, Refuse, SaveAppeal,
      SaveStatus, AcceptTransaction, DropSubscription, Crash, ValidateTransaction, FundEscrow, SpendEscrow,
      CooldownPasses, data, vars
  <2>2. ASSUME NEW p \in Procs, SaveDecision(p)
        PROVE  /\ row'[a] = "valid" => row[a] = "valid"
               /\ row'[a] # "absent" /\ a = "RELEASE" => row[a] # "absent" \/
                    (/\ pc[p] = "checked" /\ job[p] = "pending_release"
                     /\ log' = Append(log, StatusOf[job[p]]))
    BY <2>2 DEF SaveDecision, GetOrCreate, AddStatus
  <2>3. ASSUME NEW p \in Procs, SaveRequestRow(p)
        PROVE  /\ row'[a] = "valid" => row[a] = "valid"
               /\ row'[a] # "absent" /\ a = "RELEASE" => row[a] # "absent" \/
                    (pc[p] = "saved" /\ job[p] = "seller_confirm_payment")
    BY <2>3 DEF SaveRequestRow, GetOrCreate
  <2>4. ASSUME NEW p \in Procs, SaveTransaction(p)
        PROVE  row'[a] = row[a] \/ Evidence(a)
    BY <2>4 DEF SaveTransaction, Evidence
  <2>5. ASSUME NEW w \in Procs, NEW b \in Actions, RecordTransaction(w, b) \/ GiveUpRecording(w, b)
        PROVE  row'[a] = row[a] \/ Evidence(a)
    BY <2>5 DEF RecordTransaction, GiveUpRecording, Evidence
  <2> QED
    BY <2>1, <2>2, <2>3, <2>4, <2>5
<1> QED
  BY <1>1, <1>2

\* A process whose status is saved has saved it.
LEMMA SavedStep ==
  ASSUME TypeInv, [Next]_vars, NEW p \in Procs, pc'[p] = "saved"
  PROVE  /\ job'[p] = job[p]
         /\ pc[p] = "saved" \/ log' = Append(log, StatusOf[job[p]])
<1> USE DEF TypeInv, TypeOK
<1>1. ASSUME NEW q \in Procs, NEW op \in Ops, NEW step \in {"loaded", "loaded_null", "checked"},
             Request(q, op, step)
      PROVE  pc[p] = "saved" /\ job'[p] = job[p]
  BY <1>1 DEF Request, Start
<1>2. ASSUME NEW q \in Procs, Goto(q, "checked") \/ Goto(q, "dropped") \/ Finish(q)
      PROVE  pc[p] = "saved" /\ job'[p] = job[p]
  BY <1>2 DEF Goto, Finish
<1>3. ASSUME NEW q \in Procs,
             \/ BuyerConfirmPayment(q) \/ CancelExpired(q) \/ Refuse(q)
             \/ SaveAppeal(q) \/ SaveDecision(q)
             \/ SaveRequestRow(q) \/ AcceptTransaction(q) \/ DropSubscription(q)
             \/ SaveTransaction(q) \/ Crash(q)
      PROVE  pc[p] = "saved" /\ job'[p] = job[p]
  BY <1>2, <1>3 DEF BuyerConfirmPayment, CancelExpired, Refuse, SaveAppeal, SaveDecision,
    SaveRequestRow, AcceptTransaction, DropSubscription, SaveTransaction, Crash
<1>4. ASSUME NEW q \in Procs, SaveStatus(q)
      PROVE  job'[p] = job[p] /\ (pc[p] = "saved" \/ log' = Append(log, StatusOf[job[p]]))
  <2>1. CASE Finish(q)
    BY <1>2, <2>1
  <2>2. CASE Goto(q, "saved") /\ AddStatus(StatusOf[job[q]])
    BY <2>2 DEF Goto, AddStatus
  <2> QED
    BY <1>4, <2>1, <2>2 DEF SaveStatus
<1>5. ASSUME NEW w \in Procs, NEW a \in Actions, RecordTransaction(w, a)
      PROVE  pc[p] = "saved" /\ job'[p] = job[p]
  BY <1>5 DEF RecordTransaction, Start
<1>6. CASE \/ \E a \in Actions : ValidateTransaction(a)
           \/ \E w \in Procs, a \in Actions : GiveUpRecording(w, a)
           \/ FundEscrow \/ SpendEscrow \/ CooldownPasses \/ UNCHANGED vars
  BY <1>6 DEF ValidateTransaction, GiveUpRecording, FundEscrow, SpendEscrow, CooldownPasses, vars
<1> QED
  BY <1>1, <1>3, <1>4, <1>5, <1>6, SomeStep

\* The Appeal row: made with its status, resolved without one.
LEMMA AppealStep ==
  ASSUME TypeInv, [Next]_vars
  PROVE  \/ appeal' = appeal
         \/ appeal = "open" /\ appeal' = "resolved"
         \/ appeal = "none" /\ appeal' = "open" /\ log' = Append(log, "APL")
BY SomeStep DEF Request, BuyerConfirmPayment, CancelExpired, Refuse, SaveAppeal,
  SaveDecision, SaveStatus, SaveRequestRow, AcceptTransaction, DropSubscription, SaveTransaction, Crash,
  RecordTransaction, GiveUpRecording, ValidateTransaction, FundEscrow, SpendEscrow, CooldownPasses,
  AddStatus, data, vars

\* A request of the buyer that loaded a time, rather than null.
LoadedTime(p) == pc[p] = "loaded" /\ job[p] = "buyer_confirm_payment"

LEMMA LoadedStep ==
  ASSUME TypeInv, [Next]_vars, NEW p \in Procs, LoadedTime(p)'
  PROVE  LoadedTime(p) \/ appealable # "unset"
<1> USE DEF TypeInv, TypeOK, LoadedTime
<1>1. ASSUME NEW q \in Procs, NEW op \in Ops, NEW step \in {"loaded", "loaded_null", "checked"},
             Request(q, op, step), op = "buyer_confirm_payment" /\ step = "loaded" => appealable # "unset"
      PROVE  LoadedTime(p) \/ appealable # "unset"
  BY <1>1 DEF Request, Start
<1>2. ASSUME NEW q \in Procs, Goto(q, "checked") \/ Goto(q, "saved") \/ Goto(q, "dropped") \/ Finish(q)
      PROVE  LoadedTime(p)
  BY <1>2 DEF Goto, Finish
<1>3. ASSUME NEW q \in Procs,
             \/ BuyerConfirmPayment(q) \/ CancelExpired(q) \/ Refuse(q)
             \/ SaveAppeal(q) \/ SaveDecision(q) \/ SaveStatus(q)
             \/ SaveRequestRow(q) \/ AcceptTransaction(q) \/ DropSubscription(q)
             \/ SaveTransaction(q) \/ Crash(q)
      PROVE  LoadedTime(p)
  BY <1>2, <1>3 DEF BuyerConfirmPayment, CancelExpired, Refuse, SaveAppeal, SaveDecision,
    SaveStatus, SaveRequestRow, AcceptTransaction, DropSubscription, SaveTransaction, Crash
<1>4. ASSUME NEW q \in Procs, NEW a \in Actions, RecordTransaction(q, a)
      PROVE  LoadedTime(p)
  BY <1>4 DEF RecordTransaction, Start, Actions
<1>5. CASE \/ \E a \in Actions : ValidateTransaction(a)
           \/ \E w \in Procs, a \in Actions : GiveUpRecording(w, a)
           \/ FundEscrow \/ SpendEscrow \/ CooldownPasses \/ UNCHANGED vars
  BY <1>5 DEF ValidateTransaction, GiveUpRecording, FundEscrow, SpendEscrow, CooldownPasses, vars
<1> QED
  BY <1>1, <1>3, <1>4, <1>5, SomeStep

\* order.appealable_at: set from null by an ESCROW validation, or by a buyer's
\* request that loaded a time before another one wrote null.
LEMMA AppealableStep ==
  ASSUME TypeInv, [Next]_vars, appealable' # "unset"
  PROVE  appealable # "unset" \/ Evidence("ESCROW") \/ \E p \in Procs : LoadedTime(p)
BY SomeStep DEF Request, BuyerConfirmPayment, CancelExpired, Refuse, SaveAppeal,
  SaveDecision, SaveStatus, SaveRequestRow, AcceptTransaction, DropSubscription, SaveTransaction, Crash,
  RecordTransaction, GiveUpRecording, ValidateTransaction, FundEscrow, SpendEscrow, CooldownPasses,
  Evidence, LoadedTime, data, vars

\* The address is dropped by the worker that saved RELEASED or REFUNDED.
LEMMA WatchStep ==
  ASSUME TypeInv, [Next]_vars, subscribed, ~subscribed'
  PROVE  \E p \in Procs : pc[p] = "saved" /\ job[p] \in {"RELEASE", "REFUND"}
BY SomeStep DEF Request, BuyerConfirmPayment, CancelExpired, Refuse, SaveAppeal,
  SaveDecision, SaveStatus, SaveRequestRow, AcceptTransaction, DropSubscription, SaveTransaction, Crash,
  RecordTransaction, GiveUpRecording, ValidateTransaction, FundEscrow, SpendEscrow, CooldownPasses,
  Actions, data, vars
-----------------------------------------------------------------------------
(* The inductive invariant.  ChainBacked alone is not inductive: a message *)
(* queued long ago may be recorded next, so the messages and jobs in       *)
(* flight must be backed by the coin as well.  In the same way a RELEASED  *)
(* row is justified because whatever may lead to one already was.          *)

SavedLogged == \A p \in Procs : pc[p] = "saved" => Logged(log, StatusOf[job[p]])

MessagesBacked == \A a \in Actions : Evidence(a) => VerifyTxn(a)

ReleaseAwaited ==
  Evidence("RELEASE") \/ row["RELEASE"] # "absent" \/ Logged(log, "RLS")
    => Logged(log, "PD") \/ Logged(log, "RLS_PN")

DecisionsOnAppeal ==
  \A p \in Procs : job[p] \in {"pending_release", "pending_refund"} => appeal # "none"

CoinsBehindAppeals ==
  ~CashIn /\ (appealable # "unset" \/ appeal # "none"
              \/ \E p \in Procs : job[p] = "appeal" \/ LoadedTime(p))
    => chain # "unfunded"

IInv ==
  /\ TypeInv
  /\ SavedLogged
  /\ MessagesBacked /\ ChainBacked
  /\ ReleaseAwaited
  /\ OneAppeal /\ DecisionsOnAppeal /\ ArbiterActsOnlyOnAppeal
  /\ CoinsBehindAppeals
  /\ WatchedUntilDone

\* Which job adds which status.
LEMMA StatusJobs ==
  ASSUME NEW op \in Ops \cup Actions
  PROVE  /\ StatusOf[op] = "ESCRW" <=> op = "ESCROW"
         /\ StatusOf[op] = "RLS" <=> op = "RELEASE"
         /\ StatusOf[op] = "RFN" <=> op = "REFUND"
         /\ StatusOf[op] = "APL" <=> op = "appeal"
         /\ StatusOf[op] = "PD" <=> op = "seller_confirm_payment"
         /\ StatusOf[op] = "RLS_PN" <=> op = "pending_release"
         /\ StatusOf[op] = "RFN_PN" <=> op = "pending_refund"
BY DEF Ops, Actions, StatusOf

LEMMA IInit == Init => IInv
<1> SUFFICES ASSUME Init PROVE IInv
  OBVIOUS
<1>1. TypeInv
  BY TypeInit
<1>2. \A s \in StatusType \ {"SBM", "CNF"} : ~Logged(log, s)
  BY DEF Init, Logged
<1>3. Rows(log, "APL") = {}
  BY DEF Init, Rows
<1>4. \A a \in Actions : ~Evidence(a)
  BY DEF Init, Evidence, Actions
<1> QED
  BY <1>1, <1>2, <1>3, <1>4 DEF Init, IInv, SavedLogged, MessagesBacked, ChainBacked,
    ReleaseAwaited, OneAppeal, DecisionsOnAppeal, ArbiterActsOnlyOnAppeal,
    CoinsBehindAppeals, LoadedTime, WatchedUntilDone, StatusType, Actions, Ops

LEMMA IStep == IInv /\ [Next]_vars => IInv'
<1> SUFFICES ASSUME IInv, [Next]_vars PROVE IInv'
  OBVIOUS
<1>0. TypeInv /\ TypeInv'
  BY TypeStep DEF IInv
<1>1. SavedLogged'
  <2> SUFFICES ASSUME NEW p \in Procs, pc'[p] = "saved"
               PROVE  Logged(log', StatusOf[job'[p]])
    BY DEF SavedLogged
  <2>1. job'[p] = job[p] /\ job[p] \in Ops \cup Actions
    BY <1>0, SavedStep DEF TypeInv, TypeOK, JobOK
  <2>2. CASE pc[p] = "saved"
    BY <1>0, <2>1, <2>2, LoggedStep DEF IInv, SavedLogged
  <2>3. CASE log' = Append(log, StatusOf[job[p]])
    BY <1>0, <2>1, <2>3, LoggedAppend, StatusOfType DEF TypeInv, TypeOK
  <2> QED
    BY <1>0, <2>2, <2>3, SavedStep
<1>2. MessagesBacked'
  BY <1>0, EvidenceStep, ChainStep DEF IInv, MessagesBacked
<1>3. ChainBacked'
  <2>1. ASSUME NEW a \in Actions, row'[a] = "valid" PROVE VerifyTxn(a)'
    <3>1. row[a] = "valid" => VerifyTxn(a)
      BY DEF IInv, ChainBacked, VerifyTxn, Actions
    <3>2. Evidence(a) => VerifyTxn(a)
      BY DEF IInv, MessagesBacked
    <3> QED
      BY <1>0, <2>1, <3>1, <3>2, RowStep, ChainStep
  <2>2. ASSUME NEW a \in Actions, Logged(log', StatusOf[a]) PROVE VerifyTxn(a)'
    <3>1. CASE Logged(log, StatusOf[a])
      <4>1. VerifyTxn(a)
        BY <3>1 DEF IInv, ChainBacked, VerifyTxn, Actions, StatusOf
      <4> QED
        BY <4>1, ChainStep
    <3>2. CASE \E p \in Procs : job[p] \in Ops \cup Actions /\ StatusOf[job[p]] = StatusOf[a]
      <4>1. PICK p \in Procs : job[p] = a
        BY <3>2, StatusJobs DEF Actions
      <4>2. VerifyTxn(a)
        BY <4>1 DEF IInv, MessagesBacked, Evidence
      <4> QED
        BY <4>2, ChainStep
    <3> QED
      BY <1>0, <2>2, <3>1, <3>2, LoggedStep
  <2>3. /\ "ESCROW" \in Actions /\ StatusOf["ESCROW"] = "ESCRW"
        /\ "RELEASE" \in Actions /\ StatusOf["RELEASE"] = "RLS"
        /\ "REFUND" \in Actions /\ StatusOf["REFUND"] = "RFN"
    BY DEF Actions, StatusOf
  <2>4. /\ VerifyTxn("ESCROW")' => chain' # "unfunded"
        /\ VerifyTxn("RELEASE")' => chain' = "released"
        /\ VerifyTxn("REFUND")' => chain' = "refunded"
    BY DEF VerifyTxn
  <2> QED
    BY <2>1, <2>2, <2>3, <2>4 DEF ChainBacked
<1>4. ReleaseAwaited'
  <2> DEFINE Ground == Logged(log, "PD") \/ Logged(log, "RLS_PN")
  <2>1. Ground => Ground'
    BY <1>0, LoggedStep
  <2>2. "RELEASE" \in Actions
    BY DEF Actions
  <2>3. Latest(log) \in {"PD", "RLS_PN"} => Ground
    <3>1. Len(log) \in 1..Len(log)
      BY <1>0 DEF TypeInv, TypeOK
    <3> QED
      BY <3>1 DEF Latest, Logged
  <2>4. Evidence("RELEASE")' => Ground
    BY <1>0, <2>2, <2>3, EvidenceStep DEF IInv, ReleaseAwaited
  <2>5. row'["RELEASE"] # "absent" => Ground \/ Ground'
    <3>1. CASE row["RELEASE"] # "absent" \/ Evidence("RELEASE")
      BY <3>1 DEF IInv, ReleaseAwaited
    <3>2. ASSUME NEW p \in Procs, pc[p] = "saved", job[p] = "seller_confirm_payment"
          PROVE  Ground
      BY <3>2 DEF IInv, SavedLogged, StatusOf
    <3>3. ASSUME NEW p \in Procs, job[p] = "pending_release", log' = Append(log, StatusOf[job[p]])
          PROVE  Ground'
      <4>1. StatusOf[job[p]] = "RLS_PN" /\ "RLS_PN" \in StatusType
        BY <3>3 DEF StatusOf, StatusType
      <4> QED
        BY <1>0, <3>3, <4>1, LoggedAppend DEF TypeInv, TypeOK
    <3> QED
      BY <1>0, <2>2, <3>1, <3>2, <3>3, RowStep
  <2>6. Logged(log', "RLS") => Ground
    <3>1. CASE Logged(log, "RLS")
      BY <3>1 DEF IInv, ReleaseAwaited
    <3>2. CASE \E p \in Procs : job[p] \in Ops \cup Actions /\ StatusOf[job[p]] = "RLS"
      BY <3>2, StatusJobs DEF IInv, ReleaseAwaited, Evidence
    <3> QED
      BY <1>0, <3>1, <3>2, LoggedStep
  <2> QED
    BY <2>1, <2>4, <2>5, <2>6 DEF ReleaseAwaited
<1>5. OneAppeal'
  <2>1. "APL" \in StatusType /\ log \in Seq(StatusType)
    BY <1>0 DEF TypeInv, TypeOK, StatusType
  <2>2. CASE appeal = "none" /\ appeal' = "open" /\ log' = Append(log, "APL")
    <3>1. Logged(log', "APL")
      BY <2>1, <2>2, LoggedAppend
    <3>2. Rows(log, "APL") = {}
      BY <2>2 DEF IInv, OneAppeal, Rows, Logged
    <3>3. Rows(log', "APL") \subseteq Rows(log, "APL") \cup {Len(log) + 1}
      BY <2>1, <2>2 DEF Rows
    <3> QED
      BY <2>2, <3>1, <3>2, <3>3 DEF OneAppeal
  <2>3. CASE \/ appeal' = appeal
             \/ appeal = "open" /\ appeal' = "resolved"
    <3>1. Logged(log', "APL") <=> Logged(log, "APL")
      BY <1>0, <2>3, LoggedStep, StatusJobs
    <3>2. Rows(log', "APL") \subseteq Rows(log, "APL")
      <4>1. CASE log' = log
        BY <4>1
      <4>2. CASE log' # log
        <5>1. PICK p \in Procs : /\ pc[p] = "checked" /\ job[p] # "none"
                                 /\ log' = Append(log, StatusOf[job[p]])
                                 /\ job[p] = "appeal" => appeal = "none" /\ appeal' = "open"
          BY <1>0, <4>2, LogStep
        <5>2. job[p] \in Ops \cup Actions
          BY <1>0, <5>1 DEF TypeInv, TypeOK
        <5>3. StatusOf[job[p]] \in StatusType /\ StatusOf[job[p]] # "APL"
          BY <2>3, <5>1, <5>2, StatusJobs, StatusOfType
        <5> QED
          BY <2>1, <5>1, <5>3 DEF Rows
      <4> QED
        BY <4>1, <4>2
    <3> QED
      BY <2>3, <3>1, <3>2 DEF IInv, OneAppeal
  <2> QED
    BY <1>0, <2>2, <2>3, AppealStep
<1>6. appeal # "none" => appeal' # "none"
  BY <1>0, AppealStep
<1>7. DecisionsOnAppeal'
  <2> SUFFICES ASSUME NEW p \in Procs, job'[p] \in {"pending_release", "pending_refund"}
               PROVE  appeal' # "none"
    BY DEF DecisionsOnAppeal
  <2>1. job'[p] \notin Actions /\ job'[p] # "none"
    BY DEF Actions
  <2> QED
    BY <1>0, <1>6, <2>1, JobStep DEF IInv, DecisionsOnAppeal
<1>8. ArbiterActsOnlyOnAppeal'
  <2> SUFFICES ASSUME NEW s \in {"RLS_PN", "RFN_PN"}, Logged(log', s)
               PROVE  Logged(log', "APL")
    BY DEF ArbiterActsOnlyOnAppeal
  <2>1. CASE Logged(log, s)
    BY <1>0, <2>1, LoggedStep DEF IInv, ArbiterActsOnlyOnAppeal
  <2>2. CASE \E p \in Procs : job[p] \in Ops \cup Actions /\ StatusOf[job[p]] = s
    <3>1. appeal # "none"
      BY <2>2, StatusJobs DEF IInv, DecisionsOnAppeal
    <3> QED
      BY <1>0, <3>1, LoggedStep DEF IInv, OneAppeal
  <2> QED
    BY <1>0, <2>1, <2>2, LoggedStep
<1>9. CoinsBehindAppeals'
  <2> SUFFICES ASSUME ~CashIn,
                      \/ appealable' # "unset" \/ appeal' # "none"
                      \/ \E p \in Procs : job'[p] = "appeal" \/ LoadedTime(p)'
               PROVE  chain' # "unfunded"
    BY DEF CoinsBehindAppeals
  <2>1. "ESCROW" \in Actions /\ (VerifyTxn("ESCROW") <=> chain # "unfunded")
    BY DEF Actions, VerifyTxn
  <2>2. chain # "unfunded" => chain' # "unfunded"
    <3>1. VerifyTxn("ESCROW")' => chain' # "unfunded"
      BY DEF VerifyTxn
    <3> QED
      BY <2>1, <3>1, ChainStep
  <2>3. CASE appealable' # "unset"
    BY <1>0, <2>1, <2>2, <2>3, AppealableStep DEF IInv, CoinsBehindAppeals, MessagesBacked
  <2>4. CASE \E p \in Procs : job'[p] = "appeal"
    <3>1. PICK p \in Procs : job'[p] = "appeal"
      BY <2>4
    <3>2. job[p] = "appeal" \/ appealable = "passed"
      BY <1>0, <3>1, JobStep DEF Actions
    <3> QED
      BY <2>2, <3>2 DEF IInv, CoinsBehindAppeals
  <2>5. CASE appeal' # "none"
    <3>1. CASE appeal # "none"
      BY <2>2, <3>1 DEF IInv, CoinsBehindAppeals
    <3>2. CASE appeal = "none"
      <4>1. Logged(log', "APL") /\ ~Logged(log, "APL")
        BY <1>5, <2>5, <3>2 DEF IInv, OneAppeal
      <4>2. \E p \in Procs : job[p] = "appeal"
        BY <1>0, <4>1, LoggedStep, StatusJobs
      <4> QED
        BY <2>2, <4>2 DEF IInv, CoinsBehindAppeals
    <3> QED
      BY <3>1, <3>2
  <2>6. CASE \E p \in Procs : LoadedTime(p)'
    BY <1>0, <2>2, <2>6, LoadedStep DEF IInv, CoinsBehindAppeals
  <2> QED
    BY <2>3, <2>4, <2>5, <2>6
<1>10. WatchedUntilDone'
  <2>1. subscribed \in BOOLEAN /\ subscribed' \in BOOLEAN
    BY <1>0 DEF TypeInv, TypeOK
  <2>2. CASE subscribed /\ ~subscribed'
    <3>1. PICK p \in Procs : pc[p] = "saved" /\ job[p] \in {"RELEASE", "REFUND"}
      BY <1>0, <2>2, WatchStep
    <3>2. Logged(log, StatusOf[job[p]])
      BY <3>1 DEF IInv, SavedLogged
    <3>3. StatusOf[job[p]] \in {"RLS", "RFN"}
      BY <3>1 DEF StatusOf
    <3> QED
      BY <1>0, <3>2, <3>3, LoggedStep DEF WatchedUntilDone
  <2>3. CASE subscribed'
    BY <2>3 DEF WatchedUntilDone
  <2>4. CASE ~subscribed
    BY <1>0, <2>4, LoggedStep DEF IInv, WatchedUntilDone
  <2> QED
    BY <2>1, <2>2, <2>3, <2>4
<1> QED
  BY <1>0, <1>1, <1>2, <1>3, <1>4, <1>5, <1>7, <1>8, <1>9, <1>10 DEF IInv

LEMMA Invariant == Spec => []IInv
BY IInit, IStep, PTL DEF Spec
-----------------------------------------------------------------------------
(* The theorems. *)

\* ESCROWED, RELEASED, REFUNDED and valid transaction rows are always backed
\* by the coin, however often messages are repeated or processes are killed.
THEOREM ChainBackedAlways == Spec => []ChainBacked
BY Invariant, PTL DEF IInv

\* No order is RELEASED without a confirmed payment or a decision to release.
THEOREM ReleaseJustifiedAlways == Spec => []ReleaseJustified
<1>1. IInv => ReleaseJustified
  BY DEF IInv, ReleaseAwaited, ReleaseJustified
<1> QED
  BY <1>1, Invariant, PTL

\* Appeal row and APPEALED status agree and an order is appealed at most once.
THEOREM OneAppealAlways == Spec => []OneAppeal
BY Invariant, PTL DEF IInv

\* The arbiter decides appealed orders only.
THEOREM ArbiterActsOnlyOnAppealAlways == Spec => []ArbiterActsOnlyOnAppeal
BY Invariant, PTL DEF IInv

\* Unless it is a cash-in order, an appealed order has or had its coins in escrow.
THEOREM AppealAboutEscrowAlways == Spec => []AppealAboutEscrow
<1>1. IInv => AppealAboutEscrow
  BY DEF IInv, CoinsBehindAppeals, OneAppeal, AppealAboutEscrow
<1> QED
  BY <1>1, Invariant, PTL

\* The contract address is watched until RELEASED or REFUNDED is recorded.
THEOREM WatchedUntilDoneAlways == Spec => []WatchedUntilDone
BY Invariant, PTL DEF IInv

\* The exchange keeps EscrowTrade's promise: coins move once, and the outcome
\* recorded is theirs and never changes.
THEOREM ImplementsEscrowTrade == Spec => TradeSpec
<1>1. Init => Trade!Init
  <2> SUFFICES ASSUME Init PROVE Trade!Init
    OBVIOUS
  <2>1. ~Logged(log, "RLS") /\ ~Logged(log, "RFN")
    BY DEF Init, Logged
  <2> QED
    BY <2>1 DEF Init, Trade!Init, Outcome
<1>2. IInv /\ [Next]_vars => [Trade!Next]_(Trade!vars)
  <2> SUFFICES ASSUME IInv, [Next]_vars PROVE [Trade!Next]_(Trade!vars)
    OBVIOUS
  <2>1. TypeInv /\ ChainBacked /\ ChainBacked'
    BY IStep DEF IInv
  <2>2. CASE chain' = chain
    <3>1. Outcome' = Outcome \/ (Outcome = "open" /\ Outcome' = chain)
      <4>1. /\ Logged(log, "RLS") => Logged(log', "RLS")
            /\ Logged(log, "RFN") => Logged(log', "RFN")
        BY <2>1, LoggedStep
      <4> QED
        BY <2>1, <2>2, <4>1 DEF ChainBacked, Outcome
    <3>2. Outcome' # Outcome => chain \in {"released", "refunded"}
      BY <2>1, <2>2, <3>1 DEF ChainBacked, Outcome
    <3> QED
      BY <2>2, <3>1, <3>2 DEF Trade!Next, Trade!Record, Trade!vars
  <2>3. CASE chain' # chain
    <3>1. log' = log
      BY <2>1, <2>3, LogStep
    <3>2. Outcome' = Outcome
      BY <3>1 DEF Outcome
    <3>3. \/ chain = "unfunded" /\ chain' = "funded"
          \/ chain = "funded" /\ chain' \in {"released", "refunded"}
      BY <2>3, SomeStep DEF Request, BuyerConfirmPayment, CancelExpired, Refuse, SaveAppeal,
        SaveDecision, SaveStatus, SaveRequestRow, AcceptTransaction, DropSubscription, SaveTransaction, Crash,
        RecordTransaction, GiveUpRecording, ValidateTransaction, FundEscrow, SpendEscrow, CooldownPasses, vars
    <3> QED
      BY <3>2, <3>3 DEF Trade!Next, Trade!Lock, Trade!Pay
  <2> QED
    BY <2>2, <2>3
<1> QED
  BY <1>1, <1>2, Invariant, PTL DEF Spec, TradeSpec, Trade!Spec
=============================================================================
