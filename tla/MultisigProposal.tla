-------------------------- MODULE MultisigProposal --------------------------
(***************************************************************************)
(* multisig keeps a proposal of a transaction while its signers hand in    *)
(* PSBTs, and what became of it.  No request locks the row: each loads it,  *)
(* asks the JS server or the node, and saves some of its columns, or, for   *)
(* an edit, all of them.  What the row tells is put right by the status     *)
(* view, which compares it with the stored PSBTs and the index of coins.    *)
(* All rows here are of one unsigned transaction, proposed again after a    *)
(* deletion.  A proposal is unsigned when it is made, and all PSBTs fit     *)
(* together: one that does not makes every later status view fail.          *)
(***************************************************************************)
EXTENDS Naturals, FiniteSets

CONSTANTS
  Signers,      \* the cosigners; the PSBT of each is one content
  Enough,       \* the sets of signers whose signatures complete the transaction
  Inputs,       \* its inputs, by outpoint
  MaxRows,      \* bound: rows made for it
  Procs,        \* web processes
  MaxUpsets     \* bound: edits, deletions, requests that die, node calls that fail

ASSUME SignersAssumption ==
  /\ Enough \subseteq SUBSET Signers /\ {} \notin Enough
  /\ \A some \in Enough, more \in SUBSET Signers : some \subseteq more => more \in Enough

ASSUME BoundsAssumption ==
  Inputs # {} /\ MaxRows \in Nat \ {0} /\ MaxUpsets \in Nat

Rows == 1..MaxRows  \* primary keys

Status == {"pending", "cancelled", "broadcasted", "conflicted"}
Progresses == {"null", "unsigned", "partially-signed", "fully-signed"}
Txids == {"none", "own", "other"}

Proposal == [deleted : BOOLEAN, status : Status, progress : Progresses,
             combined_psbt : SUBSET Signers, txid : Txids]
New == [deleted |-> FALSE, status |-> "pending", progress |-> "null",
        combined_psbt |-> {}, txid |-> "none"]

VARIABLES
  spent,     \* spent[i]: by what transaction the coin of input i is spent
  indexed,   \* inputs whose coin has its spending_txid in the index
  sent,      \* a TransactionBroadcast row of the transaction exists
  queued,    \* update_proposal_status_on_broadcast waits in the broker
  made,      \* how many proposals were made; their keys are 1..made
  row,       \* row[r]: the proposal with key r
  psbts,     \* psbts[r]: signers with a stored PSBT of proposal r
  doing,     \* doing[p]: the request of a web process, and what it loaded
  upsets

chain == <<spent, indexed, sent>>
vars == <<spent, indexed, sent, queued, made, row, psbts, doing, upsets>>

Idle == [op |-> "none"]
Request ==
  {Idle}
    \cup [op : {"submit"}, row : Rows, signer : Signers, combined : SUBSET Signers]
    \cup [op : {"psbts"}, row : Rows, old : Status, progress : Progresses, combined : SUBSET Signers]
    \cup [op : {"progress"}, row : Rows, old : Status, progress : Progresses]
    \cup [op : {"inputs"}, row : Rows, old : Status, new : Status, left : SUBSET Inputs]
    \cup [op : {"status", "txid"}, row : Rows, old : Status, new : Status, left : SUBSET Inputs, txid : Txids]
    \cup [op : {"delete"}, row : Rows, old : Status]
    \cup [op : {"update"}, row : Rows, old : Proposal]

TypeOK ==
  /\ spent \in [Inputs -> Txids] /\ indexed \subseteq Inputs
  /\ sent \in BOOLEAN /\ queued \in BOOLEAN
  /\ made \in 0..MaxRows
  /\ row \in [Rows -> Proposal]
  /\ psbts \in [Rows -> SUBSET Signers]
  /\ doing \in [Procs -> Request]
  /\ upsets \in 0..MaxUpsets

Init ==
  /\ spent = [i \in Inputs |-> "none"] /\ indexed = {}
  /\ sent = FALSE /\ queued = FALSE
  /\ made = 0
  /\ row = [r \in Rows |-> New]
  /\ psbts = [r \in Rows |-> {}]
  /\ doing = [p \in Procs |-> Idle]
  /\ upsets = 0
-----------------------------------------------------------------------------
(* The chain, the index of coins, and the broadcast of the transaction.     *)

NodeAcceptsOwn ==
  /\ \A i \in Inputs : spent[i] = "none"
  /\ spent' = [i \in Inputs |-> "own"]
  /\ UNCHANGED <<indexed, sent, queued, made, row, psbts, doing, upsets>>

NodeAcceptsOther(i) ==
  /\ spent[i] = "none"
  /\ spent' = [spent EXCEPT ![i] = "other"]
  /\ UNCHANGED <<indexed, sent, queued, made, row, psbts, doing, upsets>>

\* The index only catches up here; that save_record may write an old state of
\* a coin back is in UtxoIndex.
IndexSpend(i) ==
  /\ spent[i] # "none"
  /\ indexed' = indexed \cup {i}
  /\ UNCHANGED <<spent, sent, queued, made, row, psbts, doing, upsets>>

\* The row is created before the node is asked, and its commit queues the task.
transaction_broadcast_post_save ==
  /\ ~sent
  /\ sent' = TRUE /\ queued' = TRUE
  /\ UNCHANGED <<spent, indexed, made, row, psbts, doing, upsets>>

\* .first() takes the lowest key, deleted or not.  The task gives up when the
\* JS server fails, and a killed worker loses it.
update_proposal_status_on_broadcast ==
  /\ queued /\ queued' = FALSE
  /\ row' \in {row} \cup
       IF made = 0 THEN {}
       ELSE {[row EXCEPT ![1].status = "broadcasted", ![1].txid = "own"]}
  /\ UNCHANGED <<chain, made, psbts, doing, upsets>>
-----------------------------------------------------------------------------
(* The requests.                                                            *)

Progress(signed) ==
  IF signed \in Enough THEN "fully-signed"
  ELSE IF signed = {} THEN "unsigned" ELSE "partially-signed"

Active == {r \in 1..made : ~row[r].deleted}

\* ProposalSerializer.create, in one transaction: the constraint admits one
\* proposal that is not deleted, and the second request ends in an error.
Create ==
  /\ made < MaxRows /\ Active = {}
  /\ made' = made + 1
  /\ row' = [row EXCEPT ![made + 1] = New]
  /\ UNCHANGED <<chain, queued, psbts, doing, upsets>>

Begins(p, request) ==
  /\ doing[p] = Idle
  /\ doing' = [doing EXCEPT ![p] = request]
  /\ UNCHANGED <<chain, queued, made, row, psbts>>

Continues(p, request) ==
  /\ doing' = [doing EXCEPT ![p] = request]
  /\ UNCHANGED <<chain, queued, made>>

\* A request names any row: include_deleted, and the status, are its parameters.
SubmitPsbt(p, r, s) ==
  /\ r \in 1..made
  /\ Begins(p, [op |-> "submit", row |-> r, signer |-> s, combined |-> row[r].combined_psbt])
  /\ UNCHANGED upsets

\* PsbtSerializer.create, in one transaction: get_or_create on the hash of
\* the content, whatever proposal has it; then the loaded combined PSBT with
\* this one is saved.
StorePsbt(p) ==
  LET r == doing[p].row  signed == doing[p].combined \cup {doing[p].signer} IN
  /\ doing[p].op = "submit"
  /\ IF \E q \in Rows : doing[p].signer \in psbts[q]
     THEN UNCHANGED <<row, psbts>>
     ELSE /\ psbts' = [psbts EXCEPT ![r] = @ \cup {doing[p].signer}]
          /\ row' = [row EXCEPT ![r].combined_psbt = signed, ![r].progress = Progress(signed)]
  /\ Continues(p, Idle)
  /\ UNCHANGED upsets

\* ProposalStatusView.get loads the row.
ViewStatus(p, r) ==
  /\ r \in 1..made
  /\ Begins(p, [op |-> "psbts", row |-> r, old |-> row[r].status,
                progress |-> row[r].progress, combined |-> row[r].combined_psbt])
  /\ UNCHANGED upsets

Inspect(d, new, left) == [op |-> "inputs", row |-> d.row, old |-> d.old, new |-> new, left |-> left]

ReadPsbts_Combined(p) ==
  LET d == doing[p]  progress == Progress(d.combined) IN
  /\ d.op = "psbts"
  /\ Continues(p, IF psbts[d.row] = {} \/ progress = d.progress THEN Inspect(d, d.old, Inputs)
                  ELSE [op |-> "progress", row |-> d.row, old |-> d.old, progress |-> progress])
  /\ UNCHANGED <<row, psbts, upsets>>

\* It combines the PSBTs that are stored, if any, with the combined one.
ReadPsbts(p) ==
  LET d == doing[p]  progress == Progress(d.combined \cup psbts[d.row]) IN
  /\ d.op = "psbts"
  /\ Continues(p, IF psbts[d.row] = {} \/ progress = d.progress THEN Inspect(d, d.old, Inputs)
                  ELSE [op |-> "progress", row |-> d.row, old |-> d.old, progress |-> progress])
  /\ UNCHANGED <<row, psbts, upsets>>

\* A progress that differs from the loaded one is saved.
SaveProgress(p) ==
  LET d == doing[p] IN
  /\ d.op = "progress"
  /\ row' = [row EXCEPT ![d.row].progress = d.progress]
  /\ Continues(p, Inspect(d, d.old, Inputs))
  /\ UNCHANGED <<psbts, upsets>>

Judged_AnySpender(status, hash) == IF hash # "none" THEN "broadcasted" ELSE status

\* What the unsigned hash of an input's spender says of the proposal.
Judged(status, hash) ==
  IF hash = "own" THEN "broadcasted" ELSE IF hash = "other" THEN "conflicted" ELSE status

\* It takes the spender of the next input from the index, and its unsigned
\* hash from a TransactionBroadcast row or from the node, which may fail.
ReadInput(p) ==
  /\ doing[p].op = "inputs"
  /\ \E i \in doing[p].left :
       LET txid == IF i \in indexed THEN spent[i] ELSE "none" IN
       \E hash \in {txid, "none"} :
         /\ hash # txid => upsets < MaxUpsets /\ ~(txid = "own" /\ sent)
         /\ upsets' = IF hash = txid THEN upsets ELSE upsets + 1
         /\ Continues(p, [op |-> "status", row |-> doing[p].row, old |-> doing[p].old,
                          new |-> Judged(doing[p].new, hash), left |-> doing[p].left \ {i}, txid |-> txid])
  /\ UNCHANGED <<row, psbts>>

\* The next input's turn, or the response.
NextInput(d) == IF d.left = {} THEN Idle ELSE Inspect(d, d.new, d.left)

SaveStatus_OfPending(p) ==
  LET d == doing[p] IN
  /\ d.op = "status"
  /\ row' = IF d.new = d.old \/ d.old # "pending" THEN row ELSE [row EXCEPT ![d.row].status = d.new]
  /\ Continues(p, IF d.new = "broadcasted" THEN [d EXCEPT !.op = "txid"] ELSE NextInput(d))
  /\ UNCHANGED <<psbts, upsets>>

\* A status that differs from the loaded one is saved.
SaveStatus(p) ==
  LET d == doing[p] IN
  /\ d.op = "status"
  /\ row' = IF d.new = d.old THEN row ELSE [row EXCEPT ![d.row].status = d.new]
  /\ Continues(p, IF d.new = "broadcasted" THEN [d EXCEPT !.op = "txid"] ELSE NextInput(d))
  /\ UNCHANGED <<psbts, upsets>>

\* For a broadcast one so is the spender of this input, if there is none too.
SaveTxid(p) ==
  LET d == doing[p] IN
  /\ d.op = "txid"
  /\ row' = [row EXCEPT ![d.row].txid = d.txid]
  /\ Continues(p, NextInput(d))
  /\ UNCHANGED <<psbts, upsets>>

\* ProposalDetailView: delete, and put or patch.
Change(p, r) ==
  /\ r \in 1..made /\ upsets < MaxUpsets
  /\ \/ Begins(p, [op |-> "delete", row |-> r, old |-> row[r].status])
     \/ Begins(p, [op |-> "update", row |-> r, old |-> row[r]])
  /\ upsets' = upsets + 1

soft_delete(p) ==
  LET d == doing[p] IN
  /\ d.op = "delete"
  /\ row' = [row EXCEPT ![d.row].deleted = TRUE,
                        ![d.row].status = IF d.old = "pending" THEN "cancelled" ELSE @]
  /\ Continues(p, Idle)
  /\ UNCHANGED <<psbts, upsets>>

\* The loaded row is saved whole, unless the constraint refuses it.
update(p) ==
  LET d == doing[p] IN
  /\ d.op = "update"
  /\ row' = IF ~d.old.deleted /\ Active \ {d.row} # {} THEN row
            ELSE [row EXCEPT ![d.row] = d.old]
  /\ Continues(p, Idle)
  /\ UNCHANGED <<psbts, upsets>>

\* The process is killed, or the JS server does not answer.
Fail(p) ==
  /\ doing[p] # Idle /\ upsets < MaxUpsets
  /\ upsets' = upsets + 1
  /\ Continues(p, Idle)
  /\ UNCHANGED <<row, psbts>>

GoOn(p) ==
  \/ StorePsbt(p) \/ ReadPsbts(p) \/ SaveProgress(p) \/ ReadInput(p) \/ SaveStatus(p)
  \/ SaveTxid(p) \/ soft_delete(p) \/ update(p)

Next ==
  \/ NodeAcceptsOwn \/ transaction_broadcast_post_save \/ update_proposal_status_on_broadcast \/ Create
  \/ \E i \in Inputs : NodeAcceptsOther(i) \/ IndexSpend(i)
  \/ \E p \in Procs :
       \/ \E r \in Rows : ViewStatus(p, r) \/ Change(p, r) \/ \E s \in Signers : SubmitPsbt(p, r, s)
       \/ GoOn(p) \/ Fail(p)

Spec == Init /\ [][Next]_vars

\* Requests are served, spends get indexed, and while a proposal is not
\* deleted a wallet asks for its status again.
FairSpec ==
  /\ Spec
  /\ \A p \in Procs : WF_vars(GoOn(p))
  /\ \A i \in Inputs : WF_vars(IndexSpend(i))
  /\ WF_vars(update_proposal_status_on_broadcast)
  /\ \A r \in Rows : SF_vars(~row[r].deleted /\ \E p \in Procs : ViewStatus(p, r))
-----------------------------------------------------------------------------
(* Properties.                                                              *)

SpentBy(tx) == \E i \in Inputs : spent[i] = tx

\* Whatever was loaded before whatever else was saved, no row tells of a
\* conflict, another transaction or signatures that are not there.  Of its own
\* broadcast it tells less than its comments say, "Sent to node"
\* (models/transaction.py 101): only that one was asked for, or that the
\* transaction is on the chain.  The row of a broadcast is made before the node
\* is asked, and what it set stays when the node refuses.
RowIsTrue ==
  \A r \in 1..made :
    /\ row[r].status = "conflicted" => SpentBy("other")
    /\ row[r].status = "broadcasted" => sent \/ SpentBy("own")
    /\ row[r].txid = "own" => sent \/ SpentBy("own")
    /\ row[r].txid = "other" => SpentBy("other")
    /\ row[r].progress = "fully-signed" => psbts[r] \in Enough

\* Stale saves may erase the status or the transaction, and a view may find
\* the index behind; in the end a row that is not deleted tells how its
\* inputs were spent, and goes on telling it.
StatusSettles ==
  \A r \in Rows : <>[](
    r \in Active =>
      /\ SpentBy("other") => row[r].status = "conflicted"
      /\ SpentBy("own") => row[r].status = "broadcasted" /\ row[r].txid = "own")

\* Two PSBTs stored at once leave one out of the combined PSBT; in the end
\* a row that is not deleted is fully signed if the stored ones suffice.
ProgressSettles ==
  \A r \in Rows : <>[](r \in Active /\ psbts[r] \in Enough => row[r].progress = "fully-signed")
=============================================================================
