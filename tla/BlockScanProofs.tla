-------------------------- MODULE BlockScanProofs --------------------------
(***************************************************************************)
(* Proofs about BlockScan for any height of the chain, any recorders and   *)
(* any number of kills, rescans and starts of processes.                   *)
(***************************************************************************)
EXTENDS BlockScan, TLAPS

\* The block a process works on is a block of the chain, and manage_blocks
\* scans only blocks that have a row.
WorkOK ==
  /\ \A w \in Writers : read[w] \subseteq 1..tip /\ at[w] \in 0..tip
  /\ \A w \in Writers : pc[w] # "idle" => at[w] \in 1..tip
  /\ pc[Admin] # "idle" => at[Admin] \in known
  /\ active \in 0..tip
  /\ step = "discard" => active \in 1..tip
  /\ step \in {"take", "scan", "accept"} => active \in known

TypeInv == TypeOK /\ WorkOK

\* What is about to be accepted was scanned.
ScanInv == ProcessedIsScanned /\ (step = "accept" => active \in scanned)
-----------------------------------------------------------------------------
\* One step, by who makes it.
SomeStep ==
  \/ NewBlock
  \/ \E r \in Recorders : GetLatestBlock(r) \/ \E b \in Blocks : GetBchUtxos(r, b)
  \/ \E r \in Recorders : BlockSetter(r)
  \/ \E r \in Recorders : CommitRow(r)
  \/ \E b \in Blocks : AdminRead(b)
  \/ AdminUnmark \/ AdminWrite
  \/ ReadBlocks \/ Refill \/ Choose \/ Discard \/ Take
  \/ \E b \in Blocks : ScanBlock(b)
  \/ ScanFails \/ ReadyToAccept \/ Finally
  \/ \E w \in Writers : CrashRecorder(w)
  \/ CrashScan \/ Start

LEMMA NextIsSomeStep == Next => SomeStep
  BY DEF Next, SomeStep, ManageBlocks, RecordStep

LEMMA TypeStep == ASSUME TypeInv, Next PROVE TypeInv'
  <1> USE BlockAssumption DEF TypeInv, TypeOK, WorkOK, Blocks, Writers, record, scan, Pending
  <1>0. SomeStep
    BY NextIsSomeStep
  <1>1. CASE NewBlock
    BY <1>1 DEF NewBlock
  <1>2. ASSUME NEW r \in Recorders, NEW b \in 1..tip, ReadPending(r, b) PROVE TypeInv'
    BY <1>2 DEF ReadPending
  <1>3. ASSUME NEW r \in Recorders, BlockSetter(r) PROVE TypeInv'
    BY <1>3 DEF BlockSetter
  <1>4. ASSUME NEW r \in Recorders, CommitRow(r) PROVE TypeInv'
    <2>1. at[r] \in 1..tip /\ pc[r] # "idle"
      BY <1>4 DEF CommitRow
    <2>2. /\ pc' = [pc EXCEPT ![r] = "idle"] /\ read' = [read EXCEPT ![r] = {}] /\ at' = [at EXCEPT ![r] = 0]
          /\ known' = known \cup {at[r]}
          /\ UNCHANGED <<tip, processed, pending, ready, scanned, scan, crashes, rescans>>
      BY <1>4 DEF CommitRow, Forget
    <2>3. known' \subseteq 1..tip /\ processed \subseteq known'
      BY <2>1, <2>2
    <2>4. 0 \in 0..MaxHeight
      OBVIOUS
    <2>8. TypeOK'
      BY <2>2, <2>3, <2>4
    <2>9. WorkOK'
      BY <1>4 DEF CommitRow, Forget
    <2> QED
      BY <2>8, <2>9
  <1>5. ASSUME NEW b \in Blocks, AdminRead(b) PROVE TypeInv'
    <2>1. pending \subseteq 1..tip /\ b \in 1..tip /\ Admin \in Writers
      BY <1>5 DEF AdminRead
    <2>8. TypeOK'
      BY <1>5, <2>1 DEF AdminRead
    <2>2. \A w \in Writers : (read'[w] = read[w] /\ at'[w] = at[w] /\ pc'[w] = pc[w])
                              \/ (read'[w] = pending /\ at'[w] = b)
      BY <1>5 DEF AdminRead
    <2>3. at'[Admin] = b /\ b \in known
      BY <1>5, <2>1 DEF AdminRead
    <2>4. UNCHANGED <<tip, known, scan>>
      BY <1>5 DEF AdminRead
    <2>5. ASSUME NEW w \in Writers PROVE read'[w] \subseteq 1..tip /\ at'[w] \in 0..tip
      <3>1. CASE read'[w] = read[w] /\ at'[w] = at[w]
        BY <3>1
      <3>2. CASE read'[w] = pending /\ at'[w] = b
        BY <3>2, <2>1
      <3> QED
        BY <2>2, <3>1, <3>2
    <2>6. \A w \in Writers : pc'[w] # "idle" => at'[w] \in 1..tip
      BY <2>1, <2>2
    <2>9. WorkOK'
      BY <2>3, <2>4, <2>5, <2>6
    <2> QED
      BY <2>8, <2>9
  <1>6. CASE AdminUnmark
    BY <1>6 DEF AdminUnmark
  <1>7. CASE AdminWrite
    BY <1>7 DEF AdminWrite, Forget
  <1>8. CASE ReadBlocks
    BY <1>8 DEF ReadBlocks, Rest
  <1>9. CASE Refill
    BY <1>9 DEF Refill, Rest
  <1>10. CASE Choose
    <2>1. blocks' \subseteq 1..tip /\ active' \in 0..tip /\ step' \in {"idle", "take", "discard"}
      <3>1. CASE ~ready \/ blocks = {}
        BY <1>10, <3>1 DEF Choose, Finish
      <3>2. CASE ~(~ready \/ blocks = {})
        <4>1. PICK b \in blocks : /\ active' = b /\ blocks' = blocks
                                 /\ step' = IF b \in known THEN "take" ELSE "discard"
          BY <1>10, <3>2 DEF Choose
        <4> QED
          BY <4>1
      <3> QED
        BY <3>1, <3>2
    <2>2. UNCHANGED <<tip, known, processed, pending, ready, scanned, record, crashes, rescans>>
      BY <1>10 DEF Choose, Rest
    <2>8. TypeOK'
      BY <2>1, <2>2
    <2>9. WorkOK'
      BY <1>10 DEF Choose, Rest, Finish
    <2> QED
      BY <2>8, <2>9
  <1>11. CASE Discard
    BY <1>11 DEF Discard, Rest, Finish
  <1>17. CASE Take
    BY <1>17 DEF Take, Rest
  <1>12. ASSUME NEW b \in Blocks, ScanBlock(b) PROVE TypeInv'
    BY <1>12 DEF ScanBlock, Rest
  <1>13. CASE ScanFails \/ ReadyToAccept
    BY <1>13 DEF ScanFails, ReadyToAccept, Rest
  <1>18. CASE Finally \/ CrashScan
    <2>1. /\ blocks' = {} /\ active' = 0 /\ step' = "idle" /\ crashes' \in 0..MaxCrashes
          /\ ready' \in BOOLEAN
          /\ UNCHANGED <<tip, known, processed, pending, scanned, record, rescans>>
      <3>1. CASE Finally
        BY <3>1 DEF Finally, Rest, Finish
      <3>2. CASE CrashScan
        BY <3>2 DEF CrashScan, Finish
      <3> QED
        BY <1>18, <3>1, <3>2
    <2> QED
      BY <2>1
  <1>14. ASSUME NEW w \in Writers, CrashRecorder(w) PROVE TypeInv'
    BY <1>14 DEF CrashRecorder, Forget
  <1>15. CASE Start
    BY <1>15 DEF Start
  <1>16. ASSUME NEW r \in Recorders, GetLatestBlock(r) \/ \E b \in Blocks : GetBchUtxos(r, b)
         PROVE TypeInv'
    <2>1. PICK b \in 1..tip : ReadPending(r, b)
      BY <1>16 DEF GetLatestBlock, GetBchUtxos
    <2> QED
      BY <1>2, <2>1
  <1> QED
    BY <1>0, <1>1, <1>3, <1>4, <1>5, <1>6, <1>7, <1>8, <1>9, <1>10, <1>11,
       <1>12, <1>13, <1>14, <1>15, <1>16, <1>17, <1>18 DEF SomeStep

\* Every variable of BlockScan keeps its type.
THEOREM TypeCorrect == Spec => []TypeOK
  <1>1. Init => TypeInv
    BY BlockAssumption DEF Init, TypeInv, TypeOK, WorkOK, Blocks, Writers
  <1>2. TypeInv /\ [Next]_vars => TypeInv'
    <2> SUFFICES ASSUME TypeInv, [Next]_vars PROVE TypeInv'
      OBVIOUS
    <2>1. CASE Next
      BY <2>1, TypeStep
    <2>2. CASE UNCHANGED vars
      BY <2>2 DEF TypeInv, TypeOK, WorkOK, vars, record, scan
    <2> QED
      BY <2>1, <2>2
  <1> QED
    BY <1>1, <1>2, PTL DEF Spec, TypeInv
-----------------------------------------------------------------------------
LEMMA ScanStep == ASSUME ScanInv, Next PROVE ScanInv'
  <1> USE DEF ScanInv, ProcessedIsScanned, record, scan
  <1>0. SomeStep
    BY NextIsSomeStep
  <1>1. CASE \/ NewBlock \/ AdminWrite
             \/ \E r \in Recorders : \/ GetLatestBlock(r) \/ (\E b \in Blocks : GetBchUtxos(r, b))
                                     \/ BlockSetter(r) \/ CommitRow(r)
             \/ \E b \in Blocks : AdminRead(b)
             \/ \E w \in Writers : CrashRecorder(w)
    BY <1>1 DEF NewBlock, AdminWrite, GetLatestBlock, GetBchUtxos, ReadPending, BlockSetter,
                CommitRow, AdminRead, CrashRecorder, Forget
  <1>2. CASE AdminUnmark \/ Start \/ CrashScan
    BY <1>2 DEF AdminUnmark, Start, CrashScan, Finish
  <1>3. CASE ReadBlocks \/ Refill \/ Choose \/ Discard \/ Take
    BY <1>3 DEF ReadBlocks, Refill, Choose, Discard, Take, Rest, Finish
  <1>4. ASSUME NEW b \in Blocks, ScanBlock(b) PROVE ScanInv'
    BY <1>4 DEF ScanBlock, Rest
  <1>5. CASE ScanFails \/ ReadyToAccept \/ Finally
    BY <1>5 DEF ScanFails, ReadyToAccept, Finally, Rest, Finish
  <1> QED
    BY <1>0, <1>1, <1>2, <1>3, <1>4, <1>5 DEF SomeStep

\* A block counts as processed only once all its transactions were saved,
\* whatever fails, is killed, or is asked for again.
THEOREM ProcessedIsScannedAlways == Spec => []ProcessedIsScanned
  <1>1. Init => ScanInv
    BY DEF Init, ScanInv, ProcessedIsScanned
  <1>2. ScanInv /\ [Next]_vars => ScanInv'
    <2> SUFFICES ASSUME ScanInv, [Next]_vars PROVE ScanInv'
      OBVIOUS
    <2>1. CASE Next
      BY <2>1, ScanStep
    <2>2. CASE UNCHANGED vars
      BY <2>2 DEF ScanInv, ProcessedIsScanned, vars, scan
    <2> QED
      BY <2>1, <2>2
  <1> QED
    BY <1>1, <1>2, PTL DEF Spec, ScanInv
-----------------------------------------------------------------------------
LEMMA ReadyStep == ASSUME TypeOK, OnlyKillsStopScanning, Next PROVE OnlyKillsStopScanning'
  <1> USE DEF OnlyKillsStopScanning, record, scan
  <1>0. SomeStep
    BY NextIsSomeStep
  <1>1. CASE \/ NewBlock \/ AdminUnmark \/ AdminWrite
             \/ \E r \in Recorders : \/ GetLatestBlock(r) \/ (\E b \in Blocks : GetBchUtxos(r, b))
                                     \/ BlockSetter(r) \/ CommitRow(r)
             \/ \E b \in Blocks : AdminRead(b)
    BY <1>1 DEF NewBlock, AdminUnmark, AdminWrite, GetLatestBlock, GetBchUtxos, ReadPending,
                BlockSetter, CommitRow, AdminRead, Forget
  <1>2. CASE (\E w \in Writers : CrashRecorder(w)) \/ CrashScan
    <2>1. crashes' # 0
      BY <1>2, BlockAssumption DEF CrashRecorder, CrashScan, TypeOK
    <2> QED
      BY <2>1
  <1>3. CASE ReadBlocks \/ Refill \/ Choose \/ Discard \/ Take
    BY <1>3 DEF ReadBlocks, Refill, Choose, Discard, Take, Rest, Finish
  <1>4. CASE (\E b \in Blocks : ScanBlock(b)) \/ ScanFails \/ ReadyToAccept
    BY <1>4 DEF ScanBlock, ScanFails, ReadyToAccept, Rest
  <1>5. CASE Finally \/ Start
    BY <1>5 DEF Finally, Start, Finish
  <1> QED
    BY <1>0, <1>1, <1>2, <1>3, <1>4, <1>5 DEF SomeStep

\* Without a kill READY is cleared only while a block is being scanned.
THEOREM OnlyKillsStopScanningAlways == Spec => []OnlyKillsStopScanning
  <1>1. Init => OnlyKillsStopScanning
    BY DEF Init, OnlyKillsStopScanning
  <1>2. TypeOK /\ OnlyKillsStopScanning /\ [Next]_vars => OnlyKillsStopScanning'
    <2> SUFFICES ASSUME TypeOK, OnlyKillsStopScanning, [Next]_vars PROVE OnlyKillsStopScanning'
      OBVIOUS
    <2>1. CASE Next
      BY <2>1, ReadyStep
    <2>2. CASE UNCHANGED vars
      BY <2>2 DEF OnlyKillsStopScanning, vars, scan
    <2> QED
      BY <2>1, <2>2
  <1> QED
    BY <1>1, <1>2, TypeCorrect, PTL DEF Spec
=============================================================================
