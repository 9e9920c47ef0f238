---------------------------- MODULE HedgeFunding ----------------------------
(***************************************************************************)
(* An AnyHedge position from its funding proposals to its settlement.       *)
(* Views and tasks each load the whole HedgePosition row, talk to the node, *)
(* and save the whole row, none of them under a lock: a save brings back    *)
(* every field as it was loaded.                                            *)
(***************************************************************************)
EXTENDS Naturals

CONSTANTS
  Requests, \* views served at a time
  Workers,  \* processes of the settlement and validation queues
  FundTxs,  \* transactions that pay the contract address
  Joint,    \* the one made of the two proposals
  None,
  MaxKills  \* bound: processes killed

ASSUME HedgeAssumption ==
  /\ Joint \in FundTxs /\ None \notin FundTxs
  /\ MaxKills \in Nat

Procs == Requests \cup Workers
Sides == {"short", "long"}
Hashes == FundTxs \cup {None}
Row == [hash : Hashes, valid : BOOLEAN, short : BOOLEAN, long : BOOLEAN, cancelled : BOOLEAN]

VARIABLES
  funded, spent,  \* funding transactions the node has; those settled
  matured,        \* maturity has passed
  served,         \* the position has a row of an external settlement service
  pos,            \* the HedgePosition row
  fundings,       \* HedgePositionFunding rows
  settlements,    \* HedgeSettlement rows, by the funding they settle
  at,             \* what a process does, the row of the request (mine), that
                  \* of the task it runs (copy), and the hash it found
  kills

chain == <<funded, spent, matured, served>>
tables == <<pos, fundings, settlements>>
vars == <<chain, tables, at, kills>>

Points == {"idle", "checked", "loaded", "complete", "searching", "building", "saving",
           "finishing", "setting", "cancelling", "validate", "recording", "marking",
           "asking", "looking", "settling", "settled"}

\* "next" is where a called task returns to.
Doing == [pc : Points, next : {"idle", "finishing", "settling"}, side : Sides,
          mine : Row, copy : Row, found : Hashes]

NewRow == [hash |-> None, valid |-> FALSE, short |-> FALSE, long |-> FALSE, cancelled |-> FALSE]
Idle == [pc |-> "idle", next |-> "idle", side |-> "short",
         mine |-> NewRow, copy |-> NewRow, found |-> None]

TypeOK ==
  /\ funded \subseteq FundTxs /\ spent \subseteq FundTxs
  /\ matured \in BOOLEAN /\ served \in BOOLEAN
  /\ pos \in Row
  /\ fundings \subseteq FundTxs /\ settlements \subseteq FundTxs
  /\ at \in [Procs -> Doing]
  /\ kills \in 0..MaxKills

Init ==
  /\ funded = {} /\ spent = {} /\ matured = FALSE /\ served \in BOOLEAN
  /\ pos = NewRow /\ fundings = {} /\ settlements = {}
  /\ at = [p \in Procs |-> Idle]
  /\ kills = 0
-----------------------------------------------------------------------------
(* The chain.                                                               *)

\* The parties, or a liquidity provider, fund the contract by themselves.
Pay(f) ==
  /\ f \notin funded
  /\ funded' = funded \cup {f}
  /\ UNCHANGED <<spent, matured, served, tables, at, kills>>

\* The parties, or a settlement service, settle a funding by themselves.
Settle(f) ==
  /\ f \in funded \ spent
  /\ spent' = spent \cup {f}
  /\ UNCHANGED <<funded, matured, served, tables, at, kills>>

Mature ==
  /\ ~ matured /\ matured' = TRUE
  /\ UNCHANGED <<funded, spent, served, tables, at, kills>>
-----------------------------------------------------------------------------
(* The two proposals.                                                       *)

At(p, pc) == at[p].pc = pc
Set(p, r) == at' = [at EXCEPT ![p] = r]
Goto(p, pc) == Set(p, [at[p] EXCEPT !.pc = pc])
Done(p) == Set(p, Idle)

\* What a task does when it ends.
Return(p) == IF at[p].next = "idle" THEN Done(p) ELSE Goto(p, at[p].next)

\* submit_funding_proposal: validate_hedge_address, then the row is loaded
\* again, then saved with the new proposal.
CheckProposal(p, s) ==
  /\ At(p, "idle")
  /\ pos.hash = None /\ settlements = {} /\ ~ matured /\ ~ pos.cancelled
  /\ Set(p, [at[p] EXCEPT !.pc = "checked", !.side = s])
  /\ UNCHANGED <<chain, tables, kills>>

LoadProposal(p) ==
  /\ At(p, "checked")
  /\ Set(p, [at[p] EXCEPT !.pc = "loaded", !.mine = pos])
  /\ UNCHANGED <<chain, tables, kills>>

\* A second proposal of one side changes the proposal, not the position.
SaveProposal(p) ==
  LET old == at[p].mine
      new == [old EXCEPT ![at[p].side] = TRUE]
  IN
  /\ At(p, "loaded")
  /\ pos' = IF old[at[p].side] THEN pos ELSE new
  /\ IF new.short /\ new.long
     THEN Set(p, [at[p] EXCEPT !.pc = "complete", !.next = "finishing", !.mine = new])
     ELSE Done(p)
  /\ UNCHANGED <<chain, fundings, settlements, kills>>

\* The request saves its own row over that of the task it has called.
FinishProposal(p) ==
  /\ At(p, "finishing")
  /\ pos' = [at[p].mine EXCEPT !.hash = at[p].found]
  /\ Done(p)
  /\ UNCHANGED <<chain, fundings, settlements, kills>>
-----------------------------------------------------------------------------
(* The funding transaction.                                                 *)

CompleteFunding(p) ==
  /\ At(p, "idle")
  /\ Goto(p, "complete")
  /\ UNCHANGED <<chain, tables, kills>>

\* complete_contract_funding: the row has a hash, or the address has a
\* transaction, or the proposals make one.
LoadContract(p) ==
  /\ At(p, "complete")
  /\ IF pos.hash = None THEN Set(p, [at[p] EXCEPT !.pc = "searching", !.copy = pos])
     ELSE IF at[p].next = "idle" THEN Done(p)
     ELSE Set(p, [at[p] EXCEPT !.pc = "finishing", !.found = pos.hash])
  /\ UNCHANGED <<chain, tables, kills>>

SearchFunding(p) ==
  /\ At(p, "searching")
  /\ IF funded = {} THEN Goto(p, "building")
     ELSE \E f \in funded : Set(p, [at[p] EXCEPT !.pc = "saving", !.found = f])
  /\ UNCHANGED <<chain, tables, kills>>

\* The node takes the transaction, or has it already.
Build(p) ==
  /\ At(p, "building") /\ at[p].copy.short /\ at[p].copy.long
  /\ funded' = funded \cup {Joint}
  /\ Set(p, [at[p] EXCEPT !.pc = "saving", !.found = Joint])
  /\ UNCHANGED <<spent, matured, served, tables, kills>>

\* A proposal is missing, or the node refuses the transaction.
CannotBuild(p) ==
  /\ At(p, "building")
  /\ Done(p)
  /\ UNCHANGED <<chain, tables, kills>>

SaveHash(p) ==
  /\ At(p, "saving")
  /\ pos' = [at[p].copy EXCEPT !.hash = at[p].found]
  /\ Return(p)
  /\ UNCHANGED <<chain, fundings, settlements, kills>>

SetFundingTx_Unchecked(p, f) ==
  /\ At(p, "idle")
  /\ Set(p, [at[p] EXCEPT !.pc = "setting", !.copy = pos, !.found = f])
  /\ UNCHANGED <<chain, tables, kills>>

\* set_funding_tx, of a hash the node knows to pay the address.
SetFundingTx(p, f) ==
  /\ At(p, "idle") /\ f \in funded
  /\ Set(p, [at[p] EXCEPT !.pc = "setting", !.copy = pos, !.found = f])
  /\ UNCHANGED <<chain, tables, kills>>

SaveFundingTx(p) ==
  LET row == at[p].copy IN
  /\ At(p, "setting")
  /\ pos' = [row EXCEPT !.hash = at[p].found, !.valid = row.valid /\ row.hash = at[p].found]
  /\ Done(p)
  /\ UNCHANGED <<chain, fundings, settlements, kills>>

Cancel(p) ==
  /\ At(p, "idle") /\ pos.hash = None /\ ~ pos.cancelled
  /\ Set(p, [at[p] EXCEPT !.pc = "cancelling", !.copy = pos])
  /\ UNCHANGED <<chain, tables, kills>>

SaveCancel(p) ==
  /\ At(p, "cancelling")
  /\ pos' = [at[p].copy EXCEPT !.cancelled = TRUE]
  /\ Done(p)
  /\ UNCHANGED <<chain, fundings, settlements, kills>>
-----------------------------------------------------------------------------
(* validate_contract_funding, from its queue, its view or the settlement.   *)

StartValidation(p) ==
  /\ At(p, "idle")
  /\ Goto(p, "validate")
  /\ UNCHANGED <<chain, tables, kills>>

Validate(p) ==
  /\ At(p, "validate")
  /\ IF pos.hash \in funded THEN Set(p, [at[p] EXCEPT !.pc = "recording", !.copy = pos]) ELSE Done(p)
  /\ UNCHANGED <<chain, tables, kills>>

RecordFunding(p) ==
  /\ At(p, "recording")
  /\ fundings' = fundings \cup {at[p].copy.hash}
  /\ Goto(p, "marking")
  /\ UNCHANGED <<chain, pos, settlements, kills>>

MarkValid(p) ==
  /\ At(p, "marking")
  /\ pos' = [at[p].copy EXCEPT !.valid = TRUE]
  /\ Return(p)
  /\ UNCHANGED <<chain, fundings, settlements, kills>>
-----------------------------------------------------------------------------
(* settle_contract_maturity and liquidate_contract, queued every minute or   *)
(* two for what has matured or whose price has crossed a limit, save the    *)
(* settlement they find, on chain or with the position's service, and make  *)
(* one if there is none.  A matured position that has a service is left to  *)
(* it: its task asks, and makes none.                                       *)

StartSettlement(p) ==
  /\ At(p, "idle") /\ matured /\ pos.hash # None /\ settlements = {}
  /\ Goto(p, IF served THEN "asking" ELSE "looking")
  /\ UNCHANGED <<chain, tables, kills>>

\* update_contract_settlement_from_service, of a service that tells what has
\* been settled.
AskService(p) ==
  /\ At(p, "asking")
  /\ settlements' = settlements \cup spent
  /\ Done(p)
  /\ UNCHANGED <<chain, pos, fundings, kills>>

\* The price crosses a limit when it will.
StartLiquidation(p) ==
  /\ At(p, "idle") /\ pos.hash # None /\ settlements = {}
  /\ Set(p, [at[p] EXCEPT !.pc = "looking", !.found = pos.hash])
  /\ UNCHANGED <<chain, tables, kills>>

\* A liquidation goes by the row it began with, a settlement loads it now.
HashOf(p) == IF at[p].found # None THEN at[p].found ELSE pos.hash

LookForSettlement_NoValidation(p) ==
  /\ At(p, "looking")
  /\ settlements' = settlements \cup spent
  /\ IF spent = {} /\ HashOf(p) \in fundings
     THEN Set(p, [Idle EXCEPT !.pc = "settling", !.next = "settling"])
     ELSE Done(p)
  /\ UNCHANGED <<chain, pos, fundings, kills>>

LookForSettlement(p) ==
  /\ At(p, "looking")
  /\ settlements' = settlements \cup spent
  /\ IF spent # {} THEN Done(p)
     ELSE Set(p, [Idle EXCEPT !.pc = IF HashOf(p) \in fundings THEN "settling" ELSE "validate",
                             !.next = "settling"])
  /\ UNCHANGED <<chain, pos, fundings, kills>>

\* The helper is given every funding row of the position, and settles the
\* first, in no order.
SettleMaturity(p) ==
  /\ At(p, "settling")
  /\ \E f \in fundings :
       IF f \in spent THEN UNCHANGED spent /\ Done(p)
       ELSE spent' = spent \cup {f} /\ Set(p, [Idle EXCEPT !.pc = "settled", !.found = f])
  /\ UNCHANGED <<funded, matured, served, tables, kills>>

SaveSettlement_OfRow(p) ==
  /\ At(p, "settled")
  /\ settlements' = settlements \cup {at[p].copy.hash}
  /\ Done(p)
  /\ UNCHANGED <<chain, pos, fundings, kills>>

SaveSettlement(p) ==
  /\ At(p, "settled")
  /\ settlements' = settlements \cup {at[p].found}
  /\ Done(p)
  /\ UNCHANGED <<chain, pos, fundings, kills>>
-----------------------------------------------------------------------------
\* The process is killed, or a call of the node or the helper raises.
Kill(p) ==
  /\ kills < MaxKills /\ ~ At(p, "idle")
  /\ kills' = kills + 1
  /\ Done(p)
  /\ UNCHANGED <<chain, tables>>

\* The views call complete_contract_funding and validate_contract_funding
\* themselves; validations are queued too.
Request(p) ==
  \/ \E s \in Sides : CheckProposal(p, s)
  \/ \E f \in FundTxs : SetFundingTx(p, f)
  \/ CompleteFunding(p) \/ Cancel(p) \/ StartValidation(p)

Task(p) == StartValidation(p) \/ StartSettlement(p) \/ StartLiquidation(p)

GoOn(p) ==
  \/ LoadProposal(p) \/ SaveProposal(p) \/ FinishProposal(p)
  \/ LoadContract(p) \/ SearchFunding(p) \/ Build(p) \/ CannotBuild(p) \/ SaveHash(p)
  \/ SaveFundingTx(p) \/ SaveCancel(p)
  \/ Validate(p) \/ RecordFunding(p) \/ MarkValid(p)
  \/ AskService(p) \/ LookForSettlement(p) \/ SettleMaturity(p) \/ SaveSettlement(p)

Next ==
  \/ \E f \in FundTxs : Pay(f) \/ Settle(f)
  \/ Mature
  \/ \E p \in Requests : Request(p)
  \/ \E p \in Workers : Task(p)
  \/ \E p \in Procs : GoOn(p) \/ Kill(p)

Spec == Init /\ [][Next]_vars

\* The beat queues the settlement of a matured position every minute, and a
\* worker that has started a task goes on.
FairSpec ==
  /\ Spec
  /\ \A p \in Procs : WF_vars(GoOn(p))
  /\ SF_vars(\E p \in Workers : StartSettlement(p))
-----------------------------------------------------------------------------
\* Whatever rows are saved over each other, a hash the position or a funding
\* row holds is of a transaction the node has, a position marked validated has
\* one and the row of some funding, and a settlement row is of one that is
\* settled on chain.
FundingIsReal ==
  /\ pos.hash \in funded \cup {None}
  /\ pos.valid => pos.hash # None /\ fundings # {}
  /\ fundings \subseteq funded
  /\ settlements \subseteq spent

\* A matured position that keeps its funding hash is settled and the
\* settlement recorded, though tasks are killed, the parties settle first, or
\* no one has validated the funding.  If it has a settlement service, what is
\* settled is recorded: settling is then the service's.
RecordedIsSettled ==
  <>[](matured /\ pos.hash # None /\ (served => spent # {})) => <>(settlements # {})
=============================================================================
