------------------------- MODULE HedgeFundingProofs -------------------------
(***************************************************************************)
(* Proofs about HedgeFunding: types, and that what rows hold of fundings    *)
(* and settlements is real, for any number of requests and workers that     *)
(* save whole rows over each other.                                         *)
(***************************************************************************)
EXTENDS HedgeFunding, TLAPS

\* A row that is real when F are funded and R have funding rows.
RealRow(r, F, R) ==
  /\ r \in Row /\ r.hash \in F \cup {None}
  /\ r.valid => r.hash # None /\ R # {}

\* What a process has in hand is real when moreover S are settled: any row it
\* may save, and what it is about to write into one.
RealDoing(d, F, S, R) ==
  /\ d \in Doing
  /\ RealRow(d.mine, F, R) /\ RealRow(d.copy, F, R) /\ d.found \in F \cup {None}
  /\ d.pc \in {"recording", "marking"} => d.copy.hash \in F
  /\ d.pc = "marking" => R # {}
  /\ d.pc \in {"saving", "finishing", "setting"} => d.found \in F
  /\ d.pc = "settled" => d.found \in S
  /\ d.pc \in {"idle", "validate", "recording", "marking"} => d.next # "finishing"

Tables(F, S, R, r, T) ==
  /\ F \subseteq FundTxs /\ S \subseteq FundTxs /\ R \subseteq F /\ T \subseteq S
  /\ RealRow(r, F, R)

Inv ==
  /\ matured \in BOOLEAN /\ served \in BOOLEAN /\ kills \in 0..MaxKills
  /\ Tables(funded, spent, fundings, pos, settlements)
  /\ at \in [Procs -> Doing]
  /\ \A p \in Procs : RealDoing(at[p], funded, spent, fundings)

LEMMA InvIsReal == Inv => TypeOK /\ FundingIsReal
  BY HedgeAssumption DEF Inv, Tables, RealRow, Row, TypeOK, FundingIsReal

LEMMA NewRowIsReal ==
  ASSUME NEW F, NEW R
  PROVE  RealRow(NewRow, F, R)
  BY DEF RealRow, NewRow, Row, Hashes

LEMMA IdleIsReal ==
  ASSUME NEW F, NEW S, NEW R
  PROVE  RealDoing(Idle, F, S, R)
<1>1. Idle \in Doing
  BY DEF Idle, Doing, NewRow, Row, Hashes, Points, Sides
<1> QED
  BY <1>1, NewRowIsReal DEF RealDoing, Idle

\* The node, and the funding rows, only gain transactions; so what was real
\* stays real.
LEMMA RealStays ==
  ASSUME NEW F, NEW S, NEW R, NEW F2, NEW S2, NEW R2,
         F \subseteq F2, S \subseteq S2, R \subseteq R2, NEW d, RealDoing(d, F, S, R)
  PROVE  RealDoing(d, F2, S2, R2)
<1>1. RealRow(d.mine, F2, R2) /\ RealRow(d.copy, F2, R2)
  BY DEF RealDoing, RealRow
<1> QED
  BY <1>1 DEF RealDoing

LEMMA RowStays ==
  ASSUME NEW F, NEW R, NEW F2, NEW R2, F \subseteq F2, R \subseteq R2, NEW r, RealRow(r, F, R)
  PROVE  RealRow(r, F2, R2)
  BY DEF RealRow

\* A process in Procs takes a step to doing r: if r is real, all are.
LEMMA OneMoves ==
  ASSUME Inv, NEW p \in Procs, NEW r, Set(p, r),
         funded \subseteq funded', spent \subseteq spent', fundings \subseteq fundings',
         RealDoing(r, funded', spent', fundings')
  PROVE  at' \in [Procs -> Doing] /\ \A q \in Procs : RealDoing(at[q], funded, spent, fundings)'
<1>1. r \in Doing
  BY DEF RealDoing
<1>2. at' \in [Procs -> Doing] /\ \A q \in Procs : at'[q] = IF q = p THEN r ELSE at[q]
  BY <1>1 DEF Inv, Set
<1>3. \A q \in Procs : RealDoing(at[q], funded', spent', fundings')
  BY RealStays DEF Inv
<1> QED
  BY <1>2, <1>3

LEMMA InitInv == Init => Inv
<1> SUFFICES ASSUME Init PROVE Inv
  OBVIOUS
<1>1. \A p \in Procs : at[p] = Idle
  BY DEF Init
<1>2. at \in [Procs -> Doing]
  BY IdleIsReal DEF Init, RealDoing
<1>3. Tables(funded, spent, fundings, pos, settlements)
  BY NewRowIsReal DEF Init, Tables
<1>4. kills \in 0..MaxKills
  BY HedgeAssumption DEF Init
<1>5. matured \in BOOLEAN /\ served \in BOOLEAN
  BY DEF Init
<1> QED
  BY <1>1, <1>2, <1>3, <1>4, <1>5, IdleIsReal DEF Inv

\* What is common to steps of a process: the chain is the same or grows.
Moves(p, r) ==
  /\ Set(p, r)
  /\ matured' = matured /\ served' = served /\ kills' \in 0..MaxKills
  /\ funded \subseteq funded' /\ spent \subseteq spent' /\ fundings \subseteq fundings'
  /\ Tables(funded', spent', fundings', pos', settlements')
  /\ RealDoing(r, funded', spent', fundings')

LEMMA MovesKeepsInv ==
  ASSUME Inv, NEW p \in Procs, NEW r, Moves(p, r)
  PROVE  Inv'
  BY OneMoves DEF Inv, Moves

LEMMA DoneKeepsInv ==
  ASSUME Inv, NEW p \in Procs, Done(p), matured' = matured, served' = served, kills' \in 0..MaxKills,
         funded \subseteq funded', spent \subseteq spent', fundings \subseteq fundings',
         Tables(funded', spent', fundings', pos', settlements')
  PROVE  Inv'
  BY IdleIsReal, MovesKeepsInv DEF Moves, Done

LEMMA CheckProposalStep ==
  ASSUME Inv, NEW p \in Procs, NEW s \in Sides, CheckProposal(p, s)
  PROVE  Inv'
<1> DEFINE r == [at[p] EXCEPT !.pc = "checked", !.side = s]
<1>1. RealDoing(r, funded, spent, fundings)
  BY DEF Inv, Tables, RealRow, RealDoing, Doing, Points, CheckProposal, At
<1>2. Moves(p, r)
  BY <1>1 DEF Inv, CheckProposal, Goto, Moves, chain, tables
<1> QED
  BY <1>2, MovesKeepsInv

LEMMA LoadProposalStep ==
  ASSUME Inv, NEW p \in Procs, LoadProposal(p)
  PROVE  Inv'
<1> DEFINE r == [at[p] EXCEPT !.pc = "loaded", !.mine = pos]
<1>1. RealDoing(r, funded, spent, fundings)
  BY DEF Inv, Tables, RealRow, RealDoing, Doing, Points, LoadProposal, At
<1>2. Moves(p, r)
  BY <1>1 DEF Inv, LoadProposal, Goto, Moves, chain, tables
<1> QED
  BY <1>2, MovesKeepsInv

LEMMA SaveProposalStep ==
  ASSUME Inv, NEW p \in Procs, SaveProposal(p)
  PROVE  Inv'
<1> DEFINE old == at[p].mine
<1> DEFINE new == [old EXCEPT ![at[p].side] = TRUE]
<1> DEFINE r == [at[p] EXCEPT !.pc = "complete", !.next = "finishing", !.mine = new]
<1>1. RealRow(new, funded, fundings)
  BY DEF Inv, RealDoing, RealRow, Doing, Row, Sides
<1>2. RealDoing(r, funded, spent, fundings)
  BY <1>1 DEF Inv, RealDoing, RealRow, Doing, Points
<1>3. Tables(funded', spent', fundings', pos', settlements')
  BY <1>1 DEF Inv, SaveProposal, Tables, chain
<1>4. CASE Set(p, r)
  BY <1>2, <1>3, <1>4, MovesKeepsInv DEF Inv, SaveProposal, Moves, chain
<1>5. CASE Done(p)
  BY <1>3, <1>5, DoneKeepsInv DEF Inv, SaveProposal, chain
<1> QED
  BY <1>4, <1>5 DEF SaveProposal

LEMMA FinishProposalStep ==
  ASSUME Inv, NEW p \in Procs, FinishProposal(p)
  PROVE  Inv'
<1>1. RealRow(pos', funded, fundings)
  BY HedgeAssumption DEF Inv, RealDoing, RealRow, Doing, Row, Hashes, Tables, FinishProposal, At
<1>2. Tables(funded', spent', fundings', pos', settlements')
  BY <1>1 DEF Inv, FinishProposal, Tables, chain
<1> QED
  BY <1>2, DoneKeepsInv DEF Inv, FinishProposal, chain

LEMMA CompleteFundingStep ==
  ASSUME Inv, NEW p \in Procs, CompleteFunding(p)
  PROVE  Inv'
<1> DEFINE r == [at[p] EXCEPT !.pc = "complete"]
<1>1. RealDoing(r, funded, spent, fundings)
  BY DEF Inv, Tables, RealRow, RealDoing, Doing, Points, CompleteFunding, At
<1>2. Moves(p, r)
  BY <1>1 DEF Inv, CompleteFunding, Goto, Moves, chain, tables
<1> QED
  BY <1>2, MovesKeepsInv

LEMMA LoadContractStep ==
  ASSUME Inv, NEW p \in Procs, LoadContract(p)
  PROVE  Inv'
<1> DEFINE r == [at[p] EXCEPT !.pc = "searching", !.copy = pos]
           f == [at[p] EXCEPT !.pc = "finishing", !.found = pos.hash]
<1>1. RealDoing(r, funded, spent, fundings)
  BY DEF Inv, Tables, RealRow, RealDoing, Doing, Points
<1>2. pos.hash # None => RealDoing(f, funded, spent, fundings)
  BY DEF Inv, Tables, RealRow, Row, RealDoing, Doing, Points
<1>3. CASE Set(p, r)
  BY <1>1, <1>3, MovesKeepsInv DEF Inv, LoadContract, Moves, chain, tables
<1>4. CASE Set(p, f) /\ pos.hash # None
  BY <1>2, <1>4, MovesKeepsInv DEF Inv, LoadContract, Moves, chain, tables
<1>5. CASE Done(p)
  BY <1>5, DoneKeepsInv DEF Inv, LoadContract, chain, tables
<1> QED
  BY <1>3, <1>4, <1>5 DEF LoadContract

LEMMA SearchFundingStep ==
  ASSUME Inv, NEW p \in Procs, SearchFunding(p)
  PROVE  Inv'
<1> DEFINE r == [at[p] EXCEPT !.pc = "building"]
           s(f) == [at[p] EXCEPT !.pc = "saving", !.found = f]
<1>1. RealDoing(r, funded, spent, fundings)
  BY DEF Inv, RealDoing, Doing, Points
<1>2. \A f \in funded : RealDoing(s(f), funded, spent, fundings)
  BY DEF Inv, Tables, RealRow, RealDoing, Doing, Points, Hashes
<1>3. CASE Set(p, r)
  BY <1>1, <1>3, MovesKeepsInv DEF Inv, SearchFunding, Moves, chain, tables
<1>4. CASE \E f \in funded : Set(p, s(f))
  BY <1>2, <1>4, MovesKeepsInv DEF Inv, SearchFunding, Moves, chain, tables
<1> QED
  BY <1>3, <1>4 DEF SearchFunding, Goto

LEMMA BuildStep ==
  ASSUME Inv, NEW p \in Procs, Build(p)
  PROVE  Inv'
<1> DEFINE r == [at[p] EXCEPT !.pc = "saving", !.found = Joint]
<1>1. RealDoing(at[p], funded', spent, fundings)
  BY RealStays DEF Inv, Build
<1>2. RealDoing(r, funded', spent, fundings)
  BY <1>1, HedgeAssumption DEF Build, RealDoing, Doing, Points, Hashes
<1>3. Tables(funded', spent', fundings', pos', settlements')
  BY HedgeAssumption, RowStays DEF Inv, Tables, Build, tables
<1> QED
  BY <1>2, <1>3, MovesKeepsInv DEF Inv, Build, Moves, tables

LEMMA CannotBuildStep ==
  ASSUME Inv, NEW p \in Procs, CannotBuild(p)
  PROVE  Inv'
  BY DoneKeepsInv DEF Inv, CannotBuild, chain, tables

LEMMA SaveHashStep ==
  ASSUME Inv, NEW p \in Procs, SaveHash(p)
  PROVE  Inv'
<1>1. RealRow(pos', funded, fundings)
  BY HedgeAssumption DEF Inv, RealDoing, RealRow, Doing, Row, Hashes, Tables, SaveHash, At
<1>2. Tables(funded', spent', fundings', pos', settlements')
  BY <1>1 DEF Inv, SaveHash, Tables, chain
<1>3. CASE Done(p)
  BY <1>2, <1>3, DoneKeepsInv DEF Inv, SaveHash, chain
<1> DEFINE r == [at[p] EXCEPT !.pc = at[p].next]
<1>4. CASE Set(p, r) /\ at[p].next # "idle"
  <2>1. RealDoing(r, funded, spent, fundings)
    BY <1>4 DEF Inv, RealDoing, Doing, Points, SaveHash, At
  <2> QED
    BY <1>2, <1>4, <2>1, MovesKeepsInv DEF Inv, SaveHash, Moves, chain
<1> QED
  BY <1>3, <1>4 DEF SaveHash, Return, Goto

LEMMA SetFundingTxStep ==
  ASSUME Inv, NEW p \in Procs, NEW f \in FundTxs, SetFundingTx(p, f)
  PROVE  Inv'
<1> DEFINE r == [at[p] EXCEPT !.pc = "setting", !.copy = pos, !.found = f]
<1>1. RealDoing(r, funded, spent, fundings)
  BY DEF Inv, Tables, RealRow, RealDoing, Doing, Points, Hashes, SetFundingTx, At
<1>2. Moves(p, r)
  BY <1>1 DEF Inv, SetFundingTx, Goto, Moves, chain, tables
<1> QED
  BY <1>2, MovesKeepsInv

LEMMA SaveFundingTxStep ==
  ASSUME Inv, NEW p \in Procs, SaveFundingTx(p)
  PROVE  Inv'
<1>1. RealRow(pos', funded, fundings)
  BY HedgeAssumption DEF Inv, RealDoing, RealRow, Doing, Row, Hashes, Tables, SaveFundingTx, At
<1>2. Tables(funded', spent', fundings', pos', settlements')
  BY <1>1 DEF Inv, SaveFundingTx, Tables, chain
<1> QED
  BY <1>2, DoneKeepsInv DEF Inv, SaveFundingTx, chain

LEMMA CancelStep ==
  ASSUME Inv, NEW p \in Procs, Cancel(p)
  PROVE  Inv'
<1> DEFINE r == [at[p] EXCEPT !.pc = "cancelling", !.copy = pos]
<1>1. RealDoing(r, funded, spent, fundings)
  BY DEF Inv, Tables, RealRow, RealDoing, Doing, Points, Cancel, At
<1>2. Moves(p, r)
  BY <1>1 DEF Inv, Cancel, Goto, Moves, chain, tables
<1> QED
  BY <1>2, MovesKeepsInv

LEMMA SaveCancelStep ==
  ASSUME Inv, NEW p \in Procs, SaveCancel(p)
  PROVE  Inv'
<1>1. RealRow(pos', funded, fundings)
  BY HedgeAssumption DEF Inv, RealDoing, RealRow, Doing, Row, Hashes, Tables, SaveCancel, At
<1>2. Tables(funded', spent', fundings', pos', settlements')
  BY <1>1 DEF Inv, SaveCancel, Tables, chain
<1> QED
  BY <1>2, DoneKeepsInv DEF Inv, SaveCancel, chain

LEMMA StartValidationStep ==
  ASSUME Inv, NEW p \in Procs, StartValidation(p)
  PROVE  Inv'
<1> DEFINE r == [at[p] EXCEPT !.pc = "validate"]
<1>1. RealDoing(r, funded, spent, fundings)
  BY DEF Inv, Tables, RealRow, RealDoing, Doing, Points, StartValidation, At
<1>2. Moves(p, r)
  BY <1>1 DEF Inv, StartValidation, Goto, Moves, chain, tables
<1> QED
  BY <1>2, MovesKeepsInv

LEMMA ValidateStep ==
  ASSUME Inv, NEW p \in Procs, Validate(p)
  PROVE  Inv'
<1> DEFINE r == [at[p] EXCEPT !.pc = "recording", !.copy = pos]
<1>1. pos.hash \in funded => RealDoing(r, funded, spent, fundings)
  BY DEF Inv, Tables, RealRow, RealDoing, Doing, Points, Validate, At
<1>2. CASE Set(p, r) /\ pos.hash \in funded
  BY <1>1, <1>2, MovesKeepsInv DEF Inv, Validate, Moves, chain, tables
<1>3. CASE Done(p)
  BY <1>3, DoneKeepsInv DEF Inv, Validate, chain, tables
<1> QED
  BY <1>2, <1>3 DEF Validate

LEMMA RecordFundingStep ==
  ASSUME Inv, NEW p \in Procs, RecordFunding(p)
  PROVE  Inv'
<1> DEFINE r == [at[p] EXCEPT !.pc = "marking"]
<1>1. at[p].copy.hash \in funded
  BY DEF Inv, RealDoing, RecordFunding, At
<1>2. RealDoing(at[p], funded, spent, fundings')
  BY RealStays DEF Inv, RecordFunding
<1>3. RealDoing(r, funded, spent, fundings')
  BY <1>1, <1>2 DEF RecordFunding, At, RealDoing, Doing, Points
<1>4. Tables(funded', spent', fundings', pos', settlements')
  BY <1>1, RowStays DEF Inv, Tables, RecordFunding, chain
<1> QED
  BY <1>3, <1>4, MovesKeepsInv DEF Inv, RecordFunding, Moves, chain, Goto

LEMMA MarkValidStep ==
  ASSUME Inv, NEW p \in Procs, MarkValid(p)
  PROVE  Inv'
<1>1. RealRow(pos', funded, fundings)
  BY HedgeAssumption DEF Inv, RealDoing, RealRow, Doing, Row, Hashes, Tables, MarkValid, At
<1>2. Tables(funded', spent', fundings', pos', settlements')
  BY <1>1 DEF Inv, MarkValid, Tables, chain
<1>3. CASE Done(p)
  BY <1>2, <1>3, DoneKeepsInv DEF Inv, MarkValid, chain
<1> DEFINE r == [at[p] EXCEPT !.pc = at[p].next]
<1>4. CASE Set(p, r) /\ at[p].next # "idle"
  <2>1. RealDoing(r, funded, spent, fundings)
    BY <1>4 DEF Inv, RealDoing, Doing, Points, MarkValid, At
  <2> QED
    BY <1>2, <1>4, <2>1, MovesKeepsInv DEF Inv, MarkValid, Moves, chain
<1> QED
  BY <1>3, <1>4 DEF MarkValid, Return, Goto

LEMMA StartSettlementStep ==
  ASSUME Inv, NEW p \in Procs, StartSettlement(p)
  PROVE  Inv'
<1> DEFINE r(pc) == [at[p] EXCEPT !.pc = pc]
<1>1. \A pc \in {"asking", "looking"} : RealDoing(r(pc), funded, spent, fundings)
  BY DEF Inv, Tables, RealRow, RealDoing, Doing, Points, StartSettlement, At
<1>2. \E pc \in {"asking", "looking"} : Set(p, r(pc))
  BY DEF StartSettlement, Goto
<1>3. \E pc \in {"asking", "looking"} : Moves(p, r(pc))
  BY <1>1, <1>2 DEF Inv, StartSettlement, Moves, chain, tables
<1> QED
  BY <1>3, MovesKeepsInv

LEMMA AskServiceStep ==
  ASSUME Inv, NEW p \in Procs, AskService(p)
  PROVE  Inv'
<1>1. Tables(funded', spent', fundings', pos', settlements')
  BY DEF Inv, Tables, AskService, chain
<1> QED
  BY <1>1, DoneKeepsInv DEF Inv, AskService, chain

LEMMA StartLiquidationStep ==
  ASSUME Inv, NEW p \in Procs, StartLiquidation(p)
  PROVE  Inv'
<1> DEFINE r == [at[p] EXCEPT !.pc = "looking", !.found = pos.hash]
<1>1. RealDoing(r, funded, spent, fundings)
  BY DEF Inv, Tables, RealRow, Row, RealDoing, Doing, Points, StartLiquidation, At
<1>2. Moves(p, r)
  BY <1>1 DEF Inv, StartLiquidation, Goto, Moves, chain, tables
<1> QED
  BY <1>2, MovesKeepsInv

LEMMA LookForSettlementStep ==
  ASSUME Inv, NEW p \in Procs, LookForSettlement(p)
  PROVE  Inv'
<1> DEFINE r(pc) == [Idle EXCEPT !.pc = pc, !.next = "settling"]
<1>1. \A pc \in {"settling", "validate"} : RealDoing(r(pc), funded, spent, fundings)
  BY IdleIsReal DEF RealDoing, Doing, Points, Idle
<1>2. Tables(funded', spent', fundings', pos', settlements')
  BY DEF Inv, Tables, LookForSettlement, chain
<1>3. CASE \E pc \in {"settling", "validate"} : Set(p, r(pc))
  BY <1>1, <1>2, <1>3, MovesKeepsInv DEF Inv, LookForSettlement, Moves, chain
<1>4. CASE Done(p)
  BY <1>2, <1>4, DoneKeepsInv DEF Inv, LookForSettlement, chain
<1> QED
  BY <1>3, <1>4 DEF LookForSettlement

LEMMA SettleMaturityStep ==
  ASSUME Inv, NEW p \in Procs, SettleMaturity(p)
  PROVE  Inv'
<1> DEFINE r(f) == [Idle EXCEPT !.pc = "settled", !.found = f]
<1>1. \A f \in fundings : RealDoing(r(f), funded, spent \cup {f}, fundings)
  BY IdleIsReal DEF Inv, Tables, RealRow, RealDoing, Doing, Points, Idle, Hashes
<1>2. Tables(funded', spent', fundings', pos', settlements')
  BY DEF Inv, Tables, SettleMaturity, tables
<1>3. CASE \E f \in fundings : spent' = spent \cup {f} /\ Set(p, r(f))
  BY <1>1, <1>2, <1>3, MovesKeepsInv DEF Inv, SettleMaturity, Moves, tables
<1>4. CASE UNCHANGED spent /\ Done(p)
  BY <1>2, <1>4, DoneKeepsInv DEF Inv, SettleMaturity, tables
<1> QED
  BY <1>3, <1>4 DEF SettleMaturity

LEMMA SaveSettlementStep ==
  ASSUME Inv, NEW p \in Procs, SaveSettlement(p)
  PROVE  Inv'
<1>1. at[p].found \in spent
  BY DEF Inv, RealDoing, SaveSettlement, At
<1>2. Tables(funded', spent', fundings', pos', settlements')
  BY <1>1 DEF Inv, Tables, SaveSettlement, chain
<1> QED
  BY <1>2, DoneKeepsInv DEF Inv, SaveSettlement, chain

LEMMA KillStep ==
  ASSUME Inv, NEW p \in Procs, Kill(p)
  PROVE  Inv'
<1>1. kills' \in 0..MaxKills
  BY HedgeAssumption DEF Inv, Kill
<1> QED
  BY <1>1, DoneKeepsInv DEF Inv, Kill, chain, tables

LEMMA ChainStep ==
  ASSUME Inv, (\E f \in FundTxs : Pay(f) \/ Settle(f)) \/ Mature
  PROVE  Inv'
<1>1. Tables(funded', spent', fundings', pos', settlements')
  BY RowStays DEF Inv, Tables, Pay, Settle, Mature, tables
<1>2. \A p \in Procs : RealDoing(at[p], funded', spent', fundings')
  BY RealStays DEF Inv, Pay, Settle, Mature, tables
<1> QED
  BY <1>1, <1>2 DEF Inv, Pay, Settle, Mature, tables

LEMMA InvStep == Inv /\ [Next]_vars => Inv'
<1> SUFFICES ASSUME Inv, [Next]_vars PROVE Inv'
  OBVIOUS
<1>1. CASE UNCHANGED vars
  BY <1>1 DEF Inv, Tables, vars, chain, tables
<1>2. CASE (\E f \in FundTxs : Pay(f) \/ Settle(f)) \/ Mature
  BY <1>2, ChainStep
<1>3. CASE \E p \in Requests : Request(p)
  BY <1>3, CheckProposalStep, SetFundingTxStep, CompleteFundingStep, CancelStep, StartValidationStep
     DEF Request, Procs
<1>4. CASE \E p \in Workers : Task(p)
  BY <1>4, StartValidationStep, StartSettlementStep, StartLiquidationStep DEF Task, Procs
<1>5. CASE \E p \in Procs : GoOn(p)
  BY <1>5, LoadProposalStep, SaveProposalStep, FinishProposalStep, LoadContractStep,
     SearchFundingStep, BuildStep, CannotBuildStep, SaveHashStep, SaveFundingTxStep,
     SaveCancelStep, ValidateStep, RecordFundingStep, MarkValidStep,
     AskServiceStep, LookForSettlementStep, SettleMaturityStep, SaveSettlementStep DEF GoOn
<1>6. CASE \E p \in Procs : Kill(p)
  BY <1>6, KillStep
<1> QED
  BY <1>1, <1>2, <1>3, <1>4, <1>5, <1>6 DEF Next

\* The invariant holds in every behaviour.
THEOREM Invariance == Spec => []Inv
  BY InitInv, InvStep, PTL DEF Spec

\* Every variable of HedgeFunding keeps its type.
THEOREM TypeCorrect == Spec => []TypeOK
  BY Invariance, InvIsReal, PTL

\* What the position, its funding rows and its settlement rows record exists
\* on chain, however many processes save stale rows over each other, and
\* whichever of them are killed.
THEOREM FundingIsRealAlways == Spec => []FundingIsReal
  BY Invariance, InvIsReal, PTL
=============================================================================
