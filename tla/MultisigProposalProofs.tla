----------------------- MODULE MultisigProposalProofs -----------------------
(***************************************************************************)
(* Proofs about MultisigProposal.  What a row may truly tell only grows:    *)
(* coins stay spent, a broadcast row and a stored PSBT are never removed.   *)
(* So what a request loaded while it was true is still true when it saves   *)
(* it, however late.  The invariant IInv says that every row, and every     *)
(* value a request has loaded, is among the true ones.                      *)
(***************************************************************************)
EXTENDS MultisigProposal, TLAPS

TrueStatuses ==
  {s \in Status : /\ s = "conflicted" => SpentBy("other")
                  /\ s = "broadcasted" => sent \/ SpentBy("own")}

TrueTxids ==
  {t \in Txids : /\ t = "own" => sent \/ SpentBy("own")
                 /\ t = "other" => SpentBy("other")}

\* What the row with a key may hold.
TrueRows ==
  [r \in Rows |->
     {old \in Proposal :
        /\ old.status \in TrueStatuses /\ old.txid \in TrueTxids
        /\ old.combined_psbt \subseteq psbts[r]
        /\ old.progress = "fully-signed" => psbts[r] \in Enough}]

\* What a request may have loaded.
TrueRequests ==
  {d \in Request :
     /\ d.op \in {"submit", "psbts"} => d.combined \subseteq psbts[d.row]
     /\ d.op \in {"psbts", "progress", "inputs", "status", "txid"} => d.old \in TrueStatuses
     /\ d.op \in {"psbts", "progress"} => (d.progress = "fully-signed" => psbts[d.row] \in Enough)
     /\ d.op \in {"inputs", "status", "txid"} => d.new \in TrueStatuses
     /\ d.op \in {"status", "txid"} => d.txid \in TrueTxids
     /\ d.op = "update" => d.old \in TrueRows[d.row]}

Rest ==
  /\ spent \in [Inputs -> Txids] /\ indexed \subseteq Inputs
  /\ sent \in BOOLEAN /\ queued \in BOOLEAN
  /\ made \in 0..MaxRows
  /\ psbts \in [Rows -> SUBSET Signers]
  /\ upsets \in 0..MaxUpsets

IInv ==
  /\ Rest /\ (queued => sent)
  /\ row \in [Rows -> Proposal] /\ \A r \in Rows : row[r] \in TrueRows[r]
  /\ doing \in [Procs -> Request] /\ \A p \in Procs : doing[p] \in TrueRequests

\* Nothing that was true ceases to be.
Grows ==
  /\ sent => sent'
  /\ \A i \in Inputs : spent[i] # "none" => spent'[i] = spent[i]
  /\ \A r \in Rows : psbts[r] \subseteq psbts'[r]

LEMMA Typed == IInv => TypeOK
  BY DEF IInv, TypeOK, Rest

LEMMA NothingYet == Init => IInv
<1> SUFFICES ASSUME Init PROVE IInv
  OBVIOUS
<1>1. Rest /\ (queued => sent)
  <2>1. made \in 0..MaxRows /\ upsets \in 0..MaxUpsets
    BY BoundsAssumption DEF Init
  <2>2. spent \in [Inputs -> Txids] /\ psbts \in [Rows -> SUBSET Signers]
    BY DEF Init, Txids
  <2> QED
    BY <2>1, <2>2 DEF Init, Rest
<1>2. New \in Proposal /\ "pending" \in TrueStatuses /\ "none" \in TrueTxids
  BY DEF New, Proposal, Status, Progresses, Txids, TrueStatuses, TrueTxids
<1>3. ASSUME NEW r \in Rows PROVE row[r] \in TrueRows[r]
  <2>1. row[r] = New
    BY DEF Init
  <2>2. New \in TrueRows[r]
    BY <1>2 DEF TrueRows, New
  <2> QED
    BY <2>1, <2>2
<1>4. Idle \in TrueRequests
  BY DEF TrueRequests, Request, Idle
<1> QED
  BY <1>1, <1>2, <1>3, <1>4 DEF Init, IInv, TrueRequests

-----------------------------------------------------------------------------
(* What is true stays true.                                                 *)

LEMMA StatusesGrow ==
  ASSUME IInv, Grows
  PROVE  TrueStatuses \subseteq TrueStatuses' /\ TrueTxids \subseteq TrueTxids'
<1>1. SpentBy("own") => SpentBy("own")'
  BY DEF SpentBy, Grows
<1>2. SpentBy("other") => SpentBy("other")'
  BY DEF SpentBy, Grows
<1> QED
  BY <1>1, <1>2 DEF TrueStatuses, TrueTxids, Grows

LEMMA EnoughGrows ==
  ASSUME IInv, Rest', Grows, NEW r \in Rows, psbts[r] \in Enough
  PROVE  psbts'[r] \in Enough
  BY SignersAssumption DEF Rest, Grows

LEMMA RowsGrow ==
  ASSUME IInv, Rest', Grows, NEW r \in Rows
  PROVE  TrueRows[r] \subseteq TrueRows'[r]
<1> SUFFICES ASSUME NEW old \in TrueRows[r] PROVE old \in TrueRows'[r]
  OBVIOUS
<1>1. /\ old \in Proposal /\ old.status \in TrueStatuses /\ old.txid \in TrueTxids
      /\ old.combined_psbt \subseteq psbts[r]
      /\ old.progress = "fully-signed" => psbts[r] \in Enough
  BY DEF TrueRows
<1>2. /\ old.status \in TrueStatuses' /\ old.txid \in TrueTxids'
  BY <1>1, StatusesGrow
<1>3. old.combined_psbt \subseteq psbts'[r]
  BY <1>1 DEF Grows
<1>4. old.progress = "fully-signed" => psbts'[r] \in Enough
  BY <1>1, EnoughGrows
<1> QED
  BY <1>1, <1>2, <1>3, <1>4 DEF TrueRows

LEMMA HasRow ==
  ASSUME NEW d \in Request, d.op # "none"
  PROVE  d.row \in Rows
  BY DEF Request, Idle

LEMMA RequestsGrow ==
  ASSUME IInv, Rest', Grows
  PROVE  TrueRequests \subseteq TrueRequests'
<1> SUFFICES ASSUME NEW d \in TrueRequests PROVE d \in TrueRequests'
  OBVIOUS
<1>1. d \in Request
  BY DEF TrueRequests
<1>2. d.op # "none" => d.row \in Rows
  BY <1>1, HasRow
<1>3. d.op \in {"submit", "psbts"} => d.combined \subseteq psbts'[d.row]
  BY <1>2 DEF TrueRequests, Grows
<1>4. /\ d.op \in {"psbts", "progress", "inputs", "status", "txid"} => d.old \in TrueStatuses'
      /\ d.op \in {"inputs", "status", "txid"} => d.new \in TrueStatuses'
      /\ d.op \in {"status", "txid"} => d.txid \in TrueTxids'
  BY StatusesGrow DEF TrueRequests
<1>5. d.op \in {"psbts", "progress"} => (d.progress = "fully-signed" => psbts'[d.row] \in Enough)
  BY <1>2, EnoughGrows DEF TrueRequests
<1>6. d.op = "update" => d.old \in TrueRows'[d.row]
  BY <1>2, RowsGrow DEF TrueRequests
<1> QED
  BY <1>1, <1>3, <1>4, <1>5, <1>6 DEF TrueRequests

\* A step keeps IInv if the rows it leaves are true and so is what it loads.
LEMMA StepKeeps ==
  ASSUME IInv, Rest', queued' => sent', Grows,
         NEW p \in Procs, NEW d \in TrueRequests',
         doing' = doing \/ doing' = [doing EXCEPT ![p] = d],
         NEW r \in Rows, NEW new \in TrueRows'[r],
         row' = row \/ row' = [row EXCEPT ![r] = new]
  PROVE  IInv'
<1>1. \A q \in Rows : TrueRows[q] \subseteq TrueRows'[q]
  BY RowsGrow
<1>2. TrueRequests \subseteq TrueRequests'
  BY RequestsGrow
<1>3. d \in Request /\ new \in Proposal
  BY DEF TrueRequests, TrueRows
<1>4. row' \in [Rows -> Proposal] /\ \A q \in Rows : row'[q] \in TrueRows'[q]
  BY <1>1, <1>3 DEF IInv
<1>5. doing' \in [Procs -> Request] /\ \A q \in Procs : doing'[q] \in TrueRequests'
  BY <1>2, <1>3 DEF IInv
<1> QED
  BY <1>4, <1>5 DEF IInv
-----------------------------------------------------------------------------
(* The actions.                                                             *)

LEMMA IdleIsTrue == Idle \in TrueRequests'
  BY DEF TrueRequests, Request, Idle

\* What a process that does something holds.
LEMMA Holds ==
  ASSUME IInv, NEW p \in Procs
  PROVE  /\ doing[p] \in TrueRequests /\ doing[p] \in Request
         /\ doing[p].op # "none" => doing[p].row \in Rows
  BY HasRow DEF IInv

LEMMA MadeRow ==
  ASSUME IInv, NEW r \in 1..made
  PROVE  r \in Rows
  BY BoundsAssumption DEF IInv, Rest, Rows

\* Steps that leave the rows and the requests alone.
LEMMA ChainSteps ==
  ASSUME IInv, Rest', queued' => sent', Grows, UNCHANGED <<row, doing>>
  PROVE  IInv'
  BY RowsGrow, RequestsGrow DEF IInv

LEMMA NodeAcceptsOwnKeeps == ASSUME IInv, NodeAcceptsOwn PROVE IInv'
<1>1. Rest' /\ Grows
  BY DEF IInv, Rest, Grows, NodeAcceptsOwn, Txids
<1> QED
  BY <1>1, ChainSteps DEF IInv, NodeAcceptsOwn

LEMMA NodeAcceptsOtherKeeps ==
  ASSUME IInv, NEW i \in Inputs, NodeAcceptsOther(i) PROVE IInv'
<1>1. Rest' /\ Grows
  BY DEF IInv, Rest, Grows, NodeAcceptsOther, Txids
<1> QED
  BY <1>1, ChainSteps DEF IInv, NodeAcceptsOther

LEMMA IndexSpendKeeps ==
  ASSUME IInv, NEW i \in Inputs, IndexSpend(i) PROVE IInv'
<1>1. Rest' /\ Grows
  BY DEF IInv, Rest, Grows, IndexSpend
<1> QED
  BY <1>1, ChainSteps DEF IInv, IndexSpend

LEMMA BroadcastRowKeeps == ASSUME IInv, transaction_broadcast_post_save PROVE IInv'
<1>1. Rest' /\ Grows
  BY DEF IInv, Rest, Grows, transaction_broadcast_post_save
<1> QED
  BY <1>1, ChainSteps DEF IInv, transaction_broadcast_post_save

\* Steps that leave the coins and the stored PSBTs alone.
LEMMA Quiet ==
  ASSUME IInv, UNCHANGED <<chain, psbts>>
  PROVE  /\ Grows
         /\ TrueStatuses' = TrueStatuses /\ TrueTxids' = TrueTxids
         /\ TrueRows' = TrueRows /\ TrueRequests' = TrueRequests
<1>1. TrueStatuses' = TrueStatuses /\ TrueTxids' = TrueTxids
  BY DEF chain, TrueStatuses, TrueTxids, SpentBy
<1>2. TrueRows' = TrueRows
  BY <1>1 DEF TrueRows
<1>3. TrueRequests' = TrueRequests
  BY <1>1, <1>2 DEF TrueRequests
<1>4. Grows
  BY DEF Grows, chain, IInv, Rest
<1> QED
  BY <1>1, <1>2, <1>3, <1>4

\* A request that leaves all rows, or saves one, true, and holds what is true.
LEMMA QuietKeeps ==
  ASSUME IInv, UNCHANGED <<chain, queued, made, psbts>>, upsets' \in 0..MaxUpsets,
         NEW p \in Procs, NEW d \in TrueRequests, doing' = [doing EXCEPT ![p] = d],
         NEW r \in Rows, NEW new \in TrueRows[r],
         row' = row \/ row' = [row EXCEPT ![r] = new]
  PROVE  IInv'
<1>1. Grows /\ TrueRows' = TrueRows /\ TrueRequests' = TrueRequests
  BY Quiet
<1>2. Rest' /\ (queued' => sent')
  BY DEF IInv, Rest, chain
<1> QED
  BY <1>1, <1>2, StepKeeps

LEMMA TaskKeeps == ASSUME IInv, update_proposal_status_on_broadcast PROVE IInv'
<1>1. Rest' /\ (queued' => sent') /\ sent
  BY DEF IInv, Rest, chain, update_proposal_status_on_broadcast
<1>2. Grows /\ TrueRows' = TrueRows /\ TrueRequests' = TrueRequests
  BY Quiet DEF update_proposal_status_on_broadcast
<1>3. CASE row' = row
  BY <1>1, <1>3, ChainSteps, <1>2 DEF update_proposal_status_on_broadcast
<1>4. CASE row' # row
  <2> DEFINE new == [row[1] EXCEPT !.status = "broadcasted", !.txid = "own"]
  <2>1. 1 \in Rows
    BY BoundsAssumption DEF Rows
  <2>2. row' = [row EXCEPT ![1] = new]
    BY <1>4, <2>1 DEF update_proposal_status_on_broadcast, IInv, Proposal
  <2>3. "broadcasted" \in TrueStatuses /\ "own" \in TrueTxids
    BY <1>1 DEF TrueStatuses, TrueTxids, Status, Txids
  <2>4. row[1] \in TrueRows[1]
    BY <2>1 DEF IInv
  <2>5. /\ new \in Proposal /\ new.status = "broadcasted" /\ new.txid = "own"
        /\ new.combined_psbt = row[1].combined_psbt /\ new.progress = row[1].progress
    BY <2>1, <2>3 DEF IInv, Proposal, TrueStatuses, TrueTxids
  <2>6. new \in TrueRows[1]
    BY <2>1, <2>3, <2>4, <2>5 DEF TrueRows
  <2> HIDE DEF new
  <2>7. row' \in [Rows -> Proposal] /\ \A r \in Rows : row'[r] \in TrueRows'[r]
    BY <1>2, <2>1, <2>2, <2>5, <2>6 DEF IInv
  <2> QED
    BY <1>1, <1>2, <2>7 DEF IInv, update_proposal_status_on_broadcast
<1> QED
  BY <1>3, <1>4

LEMMA NewIsTrue == \A r \in Rows : New \in TrueRows[r]
  BY DEF New, TrueRows, TrueStatuses, TrueTxids, Proposal, Status, Progresses, Txids

LEMMA CreateKeeps == ASSUME IInv, Create PROVE IInv'
<1>1. made' \in 0..MaxRows /\ made + 1 \in Rows
  BY BoundsAssumption DEF IInv, Rest, Create, Rows
<1>2. Rest' /\ (queued' => sent')
  BY <1>1 DEF IInv, Rest, chain, Create
<1>3. Grows /\ TrueRows' = TrueRows /\ TrueRequests' = TrueRequests
  BY Quiet DEF Create
<1>4. row' \in [Rows -> Proposal] /\ \A r \in Rows : row'[r] \in TrueRows[r]
  BY <1>1, NewIsTrue DEF IInv, Create, TrueRows
<1> QED
  BY <1>2, <1>3, <1>4 DEF IInv, Create

\* A request that begins, and loads what the row it names tells.
LEMMA BeginsKeeps ==
  ASSUME IInv, NEW p \in Procs, NEW d \in TrueRequests, Begins(p, d), upsets' \in 0..MaxUpsets
  PROVE  IInv'
<1>1. Rest' /\ (queued' => sent')
  BY DEF IInv, Rest, chain, Begins
<1>2. Grows /\ TrueRows' = TrueRows /\ TrueRequests' = TrueRequests
  BY Quiet DEF Begins
<1>3. d \in Request
  BY DEF TrueRequests
<1> QED
  BY <1>1, <1>2, <1>3 DEF IInv, Begins

\* A request that goes on, and saves at most one row.
LEMMA ContinuesKeeps ==
  ASSUME IInv, NEW p \in Procs, NEW d \in TrueRequests, Continues(p, d),
         UNCHANGED psbts, upsets' \in 0..MaxUpsets,
         NEW r \in Rows, NEW new \in TrueRows[r],
         row' = row \/ row' = [row EXCEPT ![r] = new]
  PROVE  IInv'
  BY QuietKeeps DEF Continues

\* A request that goes on, and saves nothing.
LEMMA ContinuesOnly ==
  ASSUME IInv, NEW p \in Procs, NEW d \in TrueRequests, Continues(p, d),
         UNCHANGED <<row, psbts>>, upsets' \in 0..MaxUpsets
  PROVE  IInv'
<1>1. PICK r \in Rows : TRUE
  BY BoundsAssumption DEF Rows
<1> QED
  BY <1>1, ContinuesKeeps DEF IInv

LEMMA IdleNow == Idle \in TrueRequests
  BY DEF TrueRequests, Request, Idle

LEMMA SubmitPsbtKeeps ==
  ASSUME IInv, NEW p \in Procs, NEW r \in Rows, NEW s \in Signers, SubmitPsbt(p, r, s) PROVE IInv'
<1> DEFINE d == [op |-> "submit", row |-> r, signer |-> s, combined |-> row[r].combined_psbt]
<1>1. row[r] \in Proposal /\ row[r].combined_psbt \subseteq psbts[r]
  BY DEF IInv, TrueRows
<1>2. d \in Request
  BY <1>1 DEF Request, Proposal
<1>3. d \in TrueRequests
  BY <1>1, <1>2 DEF TrueRequests
<1>4. upsets' \in 0..MaxUpsets
  BY DEF IInv, Rest, SubmitPsbt
<1> QED
  BY <1>3, <1>4, BeginsKeeps DEF SubmitPsbt

LEMMA ViewStatusKeeps ==
  ASSUME IInv, NEW p \in Procs, NEW r \in Rows, ViewStatus(p, r) PROVE IInv'
<1> DEFINE d == [op |-> "psbts", row |-> r, old |-> row[r].status,
                 progress |-> row[r].progress, combined |-> row[r].combined_psbt]
<1>1. row[r] \in Proposal /\ row[r] \in TrueRows[r]
  BY DEF IInv
<1>2. d \in Request
  BY <1>1 DEF Request, Proposal
<1>3. d \in TrueRequests
  BY <1>1, <1>2 DEF TrueRequests, TrueRows
<1>4. upsets' \in 0..MaxUpsets
  BY DEF IInv, Rest, ViewStatus
<1> QED
  BY <1>3, <1>4, BeginsKeeps DEF ViewStatus

LEMMA ChangeKeeps ==
  ASSUME IInv, NEW p \in Procs, NEW r \in Rows, Change(p, r) PROVE IInv'
<1>1. upsets' \in 0..MaxUpsets
  BY BoundsAssumption DEF IInv, Rest, Change
<1>2. row[r] \in Proposal /\ row[r] \in TrueRows[r]
  BY DEF IInv
<1>3. [op |-> "delete", row |-> r, old |-> row[r].status] \in TrueRequests
  BY <1>2 DEF TrueRequests, Request, Proposal
<1>4. [op |-> "update", row |-> r, old |-> row[r]] \in TrueRequests
  BY <1>2 DEF TrueRequests, Request
<1> QED
  BY <1>1, <1>3, <1>4, BeginsKeeps DEF Change

LEMMA StorePsbtKeeps ==
  ASSUME IInv, NEW p \in Procs, StorePsbt(p) PROVE IInv'
<1> DEFINE r == doing[p].row
           signed == doing[p].combined \cup {doing[p].signer}
           new == [row[r] EXCEPT !.combined_psbt = signed, !.progress = Progress(signed)]
<1>1. doing[p] \in TrueRequests /\ doing[p] \in Request /\ r \in Rows
  BY Holds DEF StorePsbt
<1>2. doing[p].signer \in Signers /\ doing[p].combined \subseteq psbts[r]
  BY <1>1 DEF StorePsbt, Request, Idle, TrueRequests
<1>3. row[r] \in Proposal /\ row[r] \in TrueRows[r] /\ psbts[r] \subseteq Signers
  BY <1>1 DEF IInv, Rest
<1>4. CASE UNCHANGED <<row, psbts>>
  <2>1. upsets' \in 0..MaxUpsets
    BY DEF IInv, Rest, StorePsbt
  <2> QED
    BY <1>4, <2>1, IdleNow, ContinuesOnly DEF StorePsbt
<1>5. CASE /\ psbts' = [psbts EXCEPT ![r] = @ \cup {doing[p].signer}]
           /\ row' = [row EXCEPT ![r].combined_psbt = signed, ![r].progress = Progress(signed)]
  <2>1. psbts' \in [Rows -> SUBSET Signers] /\ psbts'[r] = psbts[r] \cup {doing[p].signer}
    BY <1>1, <1>2, <1>3, <1>5 DEF IInv, Rest
  <2>2. Rest' /\ (queued' => sent')
    BY <2>1 DEF IInv, Rest, chain, StorePsbt, Continues
  <2>3. Grows
    BY <1>1, <1>5, <2>1 DEF Grows, IInv, Rest, chain, StorePsbt, Continues
  <2>4. signed \subseteq psbts'[r] /\ signed \subseteq Signers
    BY <1>2, <1>3, <2>1
  <2>5. Progress(signed) \in Progresses /\ (Progress(signed) = "fully-signed" => signed \in Enough)
    BY DEF Progress, Progresses
  <2>6. /\ new \in Proposal /\ new.status = row[r].status /\ new.txid = row[r].txid
        /\ new.combined_psbt = signed /\ new.progress = Progress(signed)
    BY <1>3, <2>4, <2>5 DEF Proposal
  <2>7. row[r].status \in TrueStatuses' /\ row[r].txid \in TrueTxids'
    BY <1>3, <1>1, <2>3, StatusesGrow DEF TrueRows
  <2>8. psbts'[r] \in SUBSET Signers
    BY <2>1, <1>1
  <2>9. new.progress = "fully-signed" => psbts'[r] \in Enough
    BY <2>4, <2>5, <2>6, <2>8, SignersAssumption
  <2>10. new \in TrueRows'[r]
    BY <1>1, <2>4, <2>6, <2>7, <2>9 DEF TrueRows
  <2>11. row' = [row EXCEPT ![r] = new]
    BY <1>1, <1>3, <1>5 DEF IInv, Proposal
  <2> HIDE DEF new, r
  <2>12. doing' = [doing EXCEPT ![p] = Idle]
    BY DEF StorePsbt, Continues
  <2> QED
    BY <1>1, <2>2, <2>3, <2>10, <2>11, <2>12, IdleIsTrue, StepKeeps
<1> QED
  BY <1>4, <1>5 DEF StorePsbt

LEMMA FailKeeps ==
  ASSUME IInv, NEW p \in Procs, Fail(p) PROVE IInv'
<1>1. upsets' \in 0..MaxUpsets
  BY BoundsAssumption DEF IInv, Rest, Fail
<1> QED
  BY <1>1, IdleNow, ContinuesOnly DEF Fail

\* What is handed on to the next input is true if it was.
LEMMA InspectIsTrue ==
  ASSUME NEW d, d.row \in Rows, d.old \in TrueStatuses,
         NEW new \in TrueStatuses, NEW left \in SUBSET Inputs
  PROVE  Inspect(d, new, left) \in TrueRequests
<1>1. d.old \in Status /\ new \in Status
  BY DEF TrueStatuses
<1>2. Inspect(d, new, left) \in Request
  BY <1>1 DEF Inspect, Request
<1> QED
  BY <1>2 DEF Inspect, TrueRequests

LEMMA NextInputIsTrue ==
  ASSUME NEW d, d.row \in Rows, d.old \in TrueStatuses,
         d.new \in TrueStatuses, d.left \in SUBSET Inputs
  PROVE  NextInput(d) \in TrueRequests
  BY InspectIsTrue, IdleNow DEF NextInput

LEMMA ReadPsbtsKeeps ==
  ASSUME IInv, NEW p \in Procs, ReadPsbts(p) PROVE IInv'
<1>1. PICK d \in Request : d = doing[p] /\ d \in TrueRequests /\ d.op = "psbts" /\ d.row \in Rows
  BY Holds DEF ReadPsbts
<1>2. PICK progress : progress = Progress(d.combined \cup psbts[d.row])
  OBVIOUS
<1> DEFINE save == [op |-> "progress", row |-> d.row, old |-> d.old, progress |-> progress]
<1>3. d.combined \subseteq psbts[d.row] /\ d.old \in TrueStatuses
  BY <1>1 DEF TrueRequests
<1>4. progress \in Progresses /\ (progress = "fully-signed" => psbts[d.row] \in Enough)
  <2>1. d.combined \cup psbts[d.row] = psbts[d.row]
    BY <1>3
  <2> QED
    BY <1>2, <2>1 DEF Progress, Progresses
<1>5. save \in TrueRequests
  <2>1. save \in Request
    BY <1>1, <1>3, <1>4 DEF Request, TrueStatuses
  <2> QED
    BY <1>3, <1>4, <2>1 DEF TrueRequests
<1>6. Inspect(d, d.old, Inputs) \in TrueRequests
  BY <1>1, <1>3, InspectIsTrue
<1>7. Continues(p, Inspect(d, d.old, Inputs)) \/ Continues(p, save)
  BY <1>1, <1>2 DEF ReadPsbts
<1>8. UNCHANGED <<row, psbts>> /\ upsets' \in 0..MaxUpsets
  BY DEF ReadPsbts, IInv, Rest
<1> HIDE DEF save
<1> QED
  BY <1>5, <1>6, <1>7, <1>8, ContinuesOnly

LEMMA SaveProgressKeeps ==
  ASSUME IInv, NEW p \in Procs, SaveProgress(p) PROVE IInv'
<1>1. PICK d \in Request : d = doing[p] /\ d \in TrueRequests /\ d.op = "progress" /\ d.row \in Rows
  BY Holds DEF SaveProgress
<1>2. /\ d.old \in TrueStatuses /\ d.progress \in Progresses
      /\ d.progress = "fully-signed" => psbts[d.row] \in Enough
  BY <1>1 DEF TrueRequests, Request, Idle
<1>3. Inspect(d, d.old, Inputs) \in TrueRequests
  BY <1>1, <1>2, InspectIsTrue
<1> DEFINE new == [row[d.row] EXCEPT !.progress = d.progress]
<1>4. row[d.row] \in Proposal /\ row[d.row] \in TrueRows[d.row]
  BY <1>1 DEF IInv
<1>5. new \in TrueRows[d.row]
  BY <1>1, <1>2, <1>4 DEF TrueRows, Proposal
<1>6. row' = [row EXCEPT ![d.row] = new]
  BY <1>1 DEF SaveProgress, IInv
<1>7. Continues(p, Inspect(d, d.old, Inputs)) /\ UNCHANGED psbts /\ upsets' \in 0..MaxUpsets
  BY <1>1 DEF SaveProgress, IInv, Rest
<1> HIDE DEF new
<1> QED
  BY <1>1, <1>3, <1>5, <1>6, <1>7, ContinuesKeeps

LEMMA ReadInputKeeps ==
  ASSUME IInv, NEW p \in Procs, ReadInput(p) PROVE IInv'
<1>1. PICK d \in Request : d = doing[p] /\ d \in TrueRequests /\ d.op = "inputs" /\ d.row \in Rows
  BY Holds DEF ReadInput
<1>2. d.old \in TrueStatuses /\ d.new \in TrueStatuses /\ d.left \in SUBSET Inputs
  BY <1>1 DEF TrueRequests, Request, Idle
<1>3. PICK i \in d.left, txid \in Txids, hash \in Txids :
         /\ txid = IF i \in indexed THEN spent[i] ELSE "none"
         /\ hash \in {txid, "none"}
         /\ hash # txid => upsets < MaxUpsets
         /\ upsets' = IF hash = txid THEN upsets ELSE upsets + 1
         /\ Continues(p, [op |-> "status", row |-> d.row, old |-> d.old,
                          new |-> Judged(d.new, hash), left |-> d.left \ {i}, txid |-> txid])
  <2>1. \A i \in d.left : (IF i \in indexed THEN spent[i] ELSE "none") \in Txids
    BY <1>2 DEF IInv, Rest, Txids
  <2>2. PICK i \in d.left :
          LET txid == IF i \in indexed THEN spent[i] ELSE "none" IN
          \E hash \in {txid, "none"} :
            /\ hash # txid => upsets < MaxUpsets
            /\ upsets' = IF hash = txid THEN upsets ELSE upsets + 1
            /\ Continues(p, [op |-> "status", row |-> d.row, old |-> d.old,
                             new |-> Judged(d.new, hash), left |-> d.left \ {i}, txid |-> txid])
    BY <1>1 DEF ReadInput
  <2>3. "none" \in Txids
    BY DEF Txids
  <2> QED
    BY <2>1, <2>2, <2>3
<1>4. txid \in TrueTxids /\ hash \in TrueTxids
  <2>1. i \in Inputs /\ spent[i] \in Txids
    BY <1>2, <1>3 DEF IInv, Rest
  <2>2. spent[i] \in TrueTxids /\ "none" \in TrueTxids
    BY <2>1 DEF TrueTxids, SpentBy, Txids
  <2> QED
    BY <1>3, <2>2
<1>5. Judged(d.new, hash) \in TrueStatuses
  BY <1>2, <1>4 DEF Judged, TrueStatuses, TrueTxids, Status
<1> DEFINE new == [op |-> "status", row |-> d.row, old |-> d.old,
                   new |-> Judged(d.new, hash), left |-> d.left \ {i}, txid |-> txid]
<1>6. new \in TrueRequests
  <2>1. new \in Request
    BY <1>1, <1>2, <1>4, <1>5 DEF Request, TrueStatuses, TrueTxids
  <2> QED
    BY <1>2, <1>4, <1>5, <2>1 DEF TrueRequests
<1>7. Continues(p, new)
  BY <1>3
<1>8. upsets' \in 0..MaxUpsets
  BY <1>3, BoundsAssumption DEF IInv, Rest
<1>9. UNCHANGED <<row, psbts>>
  BY DEF ReadInput
<1> HIDE DEF new
<1> QED
  BY <1>6, <1>7, <1>8, <1>9, ContinuesOnly

\* What a view of the status holds while it judges an input.
LEMMA Judging ==
  ASSUME IInv, NEW p \in Procs, doing[p].op \in {"status", "txid"}
  PROVE  \E d \in TrueRequests :
           /\ d = doing[p] /\ d \in Request /\ d.row \in Rows
           /\ d.old \in TrueStatuses /\ d.new \in TrueStatuses
           /\ d.left \in SUBSET Inputs /\ d.txid \in TrueTxids
<1>1. doing[p] \in TrueRequests /\ doing[p] \in Request /\ doing[p].row \in Rows
  BY Holds
<1>2. doing[p].left \in SUBSET Inputs
  BY <1>1 DEF Request, Idle
<1> QED
  BY <1>1, <1>2 DEF TrueRequests

LEMMA SaveStatusKeeps ==
  ASSUME IInv, NEW p \in Procs, SaveStatus(p) PROVE IInv'
<1>1. PICK d \in TrueRequests :
         /\ d = doing[p] /\ d \in Request /\ d.row \in Rows
         /\ d.old \in TrueStatuses /\ d.new \in TrueStatuses
         /\ d.left \in SUBSET Inputs /\ d.txid \in TrueTxids
  BY Judging DEF SaveStatus
<1>2. d.op = "status"
  BY <1>1 DEF SaveStatus
<1>3. NextInput(d) \in TrueRequests
  BY <1>1, NextInputIsTrue
<1>4. [d EXCEPT !.op = "txid"] \in TrueRequests
  <2>1. [d EXCEPT !.op = "txid"] \in Request
    BY <1>1, <1>2 DEF Request, Idle
  <2>2. d \in [op : {"status", "txid"}, row : Rows, old : Status, new : Status,
                left : SUBSET Inputs, txid : Txids]
    BY <1>1, <1>2 DEF Request, Idle
  <2> QED
    BY <1>1, <2>1, <2>2 DEF TrueRequests
<1> DEFINE new == [row[d.row] EXCEPT !.status = d.new]
<1>5. row[d.row] \in Proposal /\ row[d.row] \in TrueRows[d.row]
  BY <1>1 DEF IInv
<1>6. new \in TrueRows[d.row]
  BY <1>1, <1>5 DEF TrueRows, Proposal, TrueStatuses
<1>7. row' = row \/ row' = [row EXCEPT ![d.row] = new]
  BY <1>1 DEF SaveStatus, IInv
<1>8. /\ Continues(p, [d EXCEPT !.op = "txid"]) \/ Continues(p, NextInput(d))
      /\ UNCHANGED psbts /\ upsets' \in 0..MaxUpsets
  BY <1>1 DEF SaveStatus, IInv, Rest
<1> HIDE DEF new
<1> QED
  BY <1>1, <1>3, <1>4, <1>6, <1>7, <1>8, ContinuesKeeps

LEMMA SaveTxidKeeps ==
  ASSUME IInv, NEW p \in Procs, SaveTxid(p) PROVE IInv'
<1>1. PICK d \in TrueRequests :
         /\ d = doing[p] /\ d \in Request /\ d.row \in Rows
         /\ d.old \in TrueStatuses /\ d.new \in TrueStatuses
         /\ d.left \in SUBSET Inputs /\ d.txid \in TrueTxids
  BY Judging DEF SaveTxid
<1>2. NextInput(d) \in TrueRequests
  BY <1>1, NextInputIsTrue
<1> DEFINE new == [row[d.row] EXCEPT !.txid = d.txid]
<1>3. row[d.row] \in Proposal /\ row[d.row] \in TrueRows[d.row]
  BY <1>1 DEF IInv
<1>4. new \in TrueRows[d.row]
  BY <1>1, <1>3 DEF TrueRows, Proposal, TrueTxids
<1>5. row' = [row EXCEPT ![d.row] = new]
  BY <1>1 DEF SaveTxid, IInv
<1>6. Continues(p, NextInput(d)) /\ UNCHANGED psbts /\ upsets' \in 0..MaxUpsets
  BY <1>1 DEF SaveTxid, IInv, Rest
<1> HIDE DEF new
<1> QED
  BY <1>1, <1>2, <1>4, <1>5, <1>6, ContinuesKeeps

LEMMA soft_deleteKeeps ==
  ASSUME IInv, NEW p \in Procs, soft_delete(p) PROVE IInv'
<1>1. PICK d \in Request : d = doing[p] /\ d.row \in Rows
  BY Holds DEF soft_delete
<1> DEFINE new == [row[d.row] EXCEPT !.deleted = TRUE,
                     !.status = IF d.old = "pending" THEN "cancelled" ELSE @]
<1>2. row[d.row] \in Proposal /\ row[d.row] \in TrueRows[d.row]
  BY <1>1 DEF IInv
<1>3. new \in Proposal /\ new.status \in {row[d.row].status, "cancelled"}
      /\ new.txid = row[d.row].txid /\ new.combined_psbt = row[d.row].combined_psbt
      /\ new.progress = row[d.row].progress
  BY <1>2 DEF Proposal, Status
<1>4. "cancelled" \in TrueStatuses
  BY DEF TrueStatuses, Status
<1>5. new \in TrueRows[d.row]
  BY <1>1, <1>2, <1>3, <1>4 DEF TrueRows
<1>6. row' = [row EXCEPT ![d.row] = new]
  BY <1>1, <1>2 DEF soft_delete, IInv, Proposal
<1>7. Continues(p, Idle) /\ UNCHANGED psbts /\ upsets' \in 0..MaxUpsets
  BY DEF soft_delete, IInv, Rest
<1> HIDE DEF new
<1> QED
  BY <1>1, <1>5, <1>6, <1>7, IdleNow, ContinuesKeeps

LEMMA updateKeeps ==
  ASSUME IInv, NEW p \in Procs, update(p) PROVE IInv'
<1>1. PICK d \in Request : d = doing[p] /\ d \in TrueRequests /\ d.op = "update" /\ d.row \in Rows
  BY Holds DEF update
<1>2. d.old \in TrueRows[d.row]
  BY <1>1 DEF TrueRequests
<1>3. row' = row \/ row' = [row EXCEPT ![d.row] = d.old]
  BY <1>1 DEF update
<1>4. Continues(p, Idle) /\ UNCHANGED psbts /\ upsets' \in 0..MaxUpsets
  BY DEF update, IInv, Rest
<1> QED
  BY <1>1, <1>2, <1>3, <1>4, IdleNow, ContinuesKeeps
-----------------------------------------------------------------------------
(* The theorems.                                                            *)

LEMMA NextKeeps == ASSUME IInv, [Next]_vars PROVE IInv'
<1>1. CASE UNCHANGED vars
  <2>1. TrueRows' = TrueRows /\ TrueRequests' = TrueRequests
    BY <1>1, Quiet DEF vars, chain
  <2> QED
    BY <1>1, <2>1 DEF IInv, Rest, vars
<1>2. CASE \E p \in Procs : \E r \in Rows :
         ViewStatus(p, r) \/ Change(p, r) \/ \E s \in Signers : SubmitPsbt(p, r, s)
  BY <1>2, ViewStatusKeeps, ChangeKeeps, SubmitPsbtKeeps
<1>3. CASE \E p \in Procs : GoOn(p) \/ Fail(p)
  BY <1>3, StorePsbtKeeps, ReadPsbtsKeeps, SaveProgressKeeps, ReadInputKeeps, SaveStatusKeeps,
     SaveTxidKeeps, soft_deleteKeeps, updateKeeps, FailKeeps DEF GoOn
<1>4. CASE \E i \in Inputs : NodeAcceptsOther(i) \/ IndexSpend(i)
  BY <1>4, NodeAcceptsOtherKeeps, IndexSpendKeeps
<1>5. CASE NodeAcceptsOwn \/ transaction_broadcast_post_save \/ update_proposal_status_on_broadcast \/ Create
  BY <1>5, NodeAcceptsOwnKeeps, BroadcastRowKeeps, TaskKeeps, CreateKeeps
<1> QED
  BY <1>1, <1>2, <1>3, <1>4, <1>5 DEF Next

LEMMA IInvAlways == Spec => []IInv
  BY NothingYet, NextKeeps, PTL DEF Spec

\* Every variable keeps its type, whatever requests save over each other.
THEOREM TypeCorrect == Spec => []TypeOK
  BY IInvAlways, Typed, PTL

LEMMA TellsTruth == IInv => RowIsTrue
<1> SUFFICES ASSUME IInv, NEW r \in 1..made
             PROVE  /\ row[r].status = "conflicted" => SpentBy("other")
                    /\ row[r].status = "broadcasted" => sent \/ SpentBy("own")
                    /\ row[r].txid = "own" => sent \/ SpentBy("own")
                    /\ row[r].txid = "other" => SpentBy("other")
                    /\ row[r].progress = "fully-signed" => psbts[r] \in Enough
  BY DEF RowIsTrue
<1>1. r \in Rows
  BY MadeRow
<1>2. row[r] \in TrueRows[r]
  BY <1>1 DEF IInv
<1> QED
  BY <1>1, <1>2 DEF TrueRows, TrueStatuses, TrueTxids

\* What a proposal tells of a conflict, its spender and its signatures is so,
\* and of a broadcast that it was asked for or made, though every request saves
\* what it loaded before others saved: for any signers, inputs, processes, rows.
THEOREM RowIsTrueAlways == Spec => []RowIsTrue
  BY IInvAlways, TellsTruth, PTL
=============================================================================
