----------------------------- MODULE BlockScan -----------------------------
(***************************************************************************)
(* How main gets every recorded block scanned: the tasks that record new   *)
(* blocks and put their numbers in the Redis key PENDING-BLOCKS, and the   *)
(* periodic task manage_blocks that takes one number at a time.  The key   *)
(* holds a whole list that each of them reads, changes and writes back     *)
(* without a lock, and every start of a process deletes it.                *)
(***************************************************************************)
EXTENDS Naturals

CONSTANTS
  MaxHeight,   \* bound: height of the chain
  Recorders,   \* workers that record blocks: get_latest_block, get_bch_utxos
  Broken,      \* blocks whose scan fails every time
  Restarts,    \* whether web and worker processes start in a behaviour
  Absent,      \* PENDING-BLOCKS when the key does not exist
  MaxCrashes,  \* bound: tasks killed in one behaviour
  MaxRescans   \* bound: uses of the admin action "process"

Blocks == 1..MaxHeight   \* all from START_BLOCK on: they require a full scan

Admin == "admin"
Writers == Recorders \cup {Admin}

ASSUME BlockAssumption ==
  /\ Admin \notin Recorders
  /\ MaxHeight \in Nat /\ MaxCrashes \in Nat /\ MaxRescans \in Nat
  /\ Broken \subseteq Blocks
  /\ Restarts \in BOOLEAN
  /\ \A S \in SUBSET Blocks : Absent # S

VARIABLES
  tip,                   \* height of the node's chain
  known, processed,      \* BlockHeight rows, and those with processed set
  pending, ready,        \* the Redis keys PENDING-BLOCKS and READY
  scanned,               \* blocks all of whose transactions were saved
  pc, read, at,          \* recorders and the admin: step, list read, block
  step, blocks, active,  \* manage_blocks: the same
  crashes, rescans

record == <<pc, read, at>>
scan == <<step, blocks, active>>
vars == <<tip, known, processed, pending, ready, scanned, record, scan, crashes, rescans>>

TypeOK ==
  /\ tip \in 0..MaxHeight
  /\ known \subseteq 1..tip /\ processed \subseteq known
  /\ pending = Absent \/ pending \subseteq 1..tip
  /\ ready \in BOOLEAN
  /\ scanned \subseteq 1..tip
  /\ pc \in [Writers -> {"idle", "read", "written", "unmarked"}]
  /\ read \in [Writers -> SUBSET Blocks]
  /\ at \in [Writers -> 0..MaxHeight]
  /\ step \in {"idle", "refill", "choose", "discard", "take", "scan", "accept", "finally"}
  /\ blocks \subseteq 1..tip
  /\ active \in 0..MaxHeight
  /\ crashes \in 0..MaxCrashes /\ rescans \in 0..MaxRescans

Init ==
  /\ tip = 0
  /\ known = {} /\ processed = {} /\ scanned = {}
  /\ pending = Absent /\ ready = TRUE
  /\ pc = [w \in Writers |-> "idle"]
  /\ read = [w \in Writers |-> {}] /\ at = [w \in Writers |-> 0]
  /\ step = "idle" /\ blocks = {} /\ active = 0
  /\ crashes = 0 /\ rescans = 0

\* A writer that is done keeps nothing, and neither does manage_blocks.
Forget(w) ==
  /\ pc' = [pc EXCEPT ![w] = "idle"]
  /\ read' = [read EXCEPT ![w] = {}]
  /\ at' = [at EXCEPT ![w] = 0]

Finish == step' = "idle" /\ blocks' = {} /\ active' = 0

\* A key that is missing is created as the empty list before it is read.
Pending == IF pending = Absent THEN {} ELSE pending

NewBlock ==
  /\ tip < MaxHeight
  /\ tip' = tip + 1
  /\ UNCHANGED <<known, processed, pending, ready, scanned, record, scan, crashes, rescans>>
-----------------------------------------------------------------------------
(* Recording a block: get_or_create inserts the row in a transaction, and   *)
(* the post_save handler runs block_setter before it commits.               *)

ReadPending(r, b) ==
  /\ pc[r] = "idle" /\ b \notin known
  /\ pc' = [pc EXCEPT ![r] = "read"]
  /\ read' = [read EXCEPT ![r] = Pending]
  /\ at' = [at EXCEPT ![r] = b]
  /\ UNCHANGED <<tip, known, processed, pending, ready, scanned, scan, crashes, rescans>>

GetLatestBlock_Next(r) == ReadPending(r, tip + 1)

\* Only the tip is asked for, not what came since the last time.
GetLatestBlock(r) == tip > 0 /\ ReadPending(r, tip)

\* A coin of the address was mined in a block that has no row yet.
GetBchUtxos(r, b) == b <= tip /\ ReadPending(r, b)

BlockSetter(r) ==
  /\ pc[r] = "read"
  /\ pending' = read[r] \cup {at[r]}
  /\ pc' = [pc EXCEPT ![r] = "written"]
  /\ UNCHANGED <<tip, known, processed, ready, scanned, read, at, scan, crashes, rescans>>

CommitRow(r) ==
  /\ pc[r] = "written"
  /\ known' = known \cup {at[r]}
  /\ Forget(r)
  /\ UNCHANGED <<tip, processed, pending, ready, scanned, scan, crashes, rescans>>

\* The admin action "process": scan the block again.  It needs the key.
AdminRead(b) ==
  /\ rescans < MaxRescans /\ pc[Admin] = "idle" /\ b \in known /\ pending # Absent
  /\ rescans' = rescans + 1
  /\ pc' = [pc EXCEPT ![Admin] = "read"]
  /\ read' = [read EXCEPT ![Admin] = pending]
  /\ at' = [at EXCEPT ![Admin] = b]
  /\ UNCHANGED <<tip, known, processed, pending, ready, scanned, scan, crashes>>

AdminUnmark ==
  /\ pc[Admin] = "read"
  /\ processed' = processed \ {at[Admin]}
  /\ pc' = [pc EXCEPT ![Admin] = "unmarked"]
  /\ UNCHANGED <<tip, known, pending, ready, scanned, read, at, scan, crashes, rescans>>

AdminWrite ==
  /\ pc[Admin] = "unmarked"
  /\ pending' = read[Admin] \cup {at[Admin]}
  /\ Forget(Admin)
  /\ UNCHANGED <<tip, known, processed, ready, scanned, scan, crashes, rescans>>
-----------------------------------------------------------------------------
(* manage_blocks, one at a time: its queue has a single worker.             *)

Rest == UNCHANGED <<tip, known, record, crashes, rescans>>

ReadBlocks_AlwaysRefill ==
  /\ step = "idle"
  /\ blocks' = known \ processed /\ step' = "refill"
  /\ UNCHANGED <<processed, pending, ready, scanned, active>> /\ Rest

\* An empty list is filled with what is still unprocessed.
ReadBlocks ==
  /\ step = "idle"
  /\ IF Pending # {} THEN blocks' = Pending /\ step' = "choose"
                     ELSE blocks' = known \ processed /\ step' = "refill"
  /\ UNCHANGED <<processed, pending, ready, scanned, active>> /\ Rest

Refill ==
  /\ step = "refill"
  /\ pending' = blocks
  /\ step' = "choose"
  /\ UNCHANGED <<processed, ready, scanned, blocks, active>> /\ Rest

\* Nothing is done without READY; the lowest number is next.
Choose ==
  /\ step = "choose"
  /\ IF ~ready \/ blocks = {} THEN Finish
     ELSE \E b \in blocks :
            /\ \A other \in blocks : b <= other
            /\ active' = b
            /\ step' = IF b \in known THEN "take" ELSE "discard"
            /\ UNCHANGED blocks
  /\ UNCHANGED <<processed, pending, ready, scanned>> /\ Rest

Discard ==
  /\ step = "discard"
  /\ pending' = blocks \ {active}
  /\ Finish
  /\ UNCHANGED <<processed, ready, scanned>> /\ Rest

Take ==
  /\ step = "take"
  /\ pending' = blocks \ {active}
  /\ ready' = FALSE
  /\ step' = "scan" /\ blocks' = {}
  /\ UNCHANGED <<processed, scanned, active>> /\ Rest

\* save_transaction for every transaction of the block.
ScanBlock(b) ==
  /\ step = "scan" /\ active = b /\ b \notin Broken
  /\ scanned' = scanned \cup {b}
  /\ step' = "accept"
  /\ UNCHANGED <<processed, pending, ready, blocks, active>> /\ Rest

\* ready_to_accept
ReadyToAccept ==
  /\ step = "accept"
  /\ processed' = processed \cup {active}
  /\ step' = "finally"
  /\ UNCHANGED <<pending, ready, scanned, blocks, active>> /\ Rest

ScanFails_Accepted ==
  /\ step = "scan"
  /\ step' = "accept"
  /\ UNCHANGED <<processed, pending, ready, scanned, blocks, active>> /\ Rest

ScanFails_NotReady ==
  /\ step = "scan"
  /\ Finish
  /\ UNCHANGED <<processed, pending, ready, scanned>> /\ Rest

\* The node fails somewhere in the block.
ScanFails ==
  /\ step = "scan"
  /\ step' = "finally"
  /\ UNCHANGED <<processed, pending, ready, scanned, blocks, active>> /\ Rest

Finally ==
  /\ step = "finally"
  /\ ready' = TRUE
  /\ Finish
  /\ UNCHANGED <<processed, pending, scanned>> /\ Rest
-----------------------------------------------------------------------------
(* Kills and starts.                                                        *)

CrashRecorder(r) ==
  /\ crashes < MaxCrashes /\ pc[r] # "idle"
  /\ crashes' = crashes + 1
  /\ Forget(r)
  /\ UNCHANGED <<tip, known, processed, pending, ready, scanned, scan, rescans>>

CrashScan ==
  /\ crashes < MaxCrashes /\ step # "idle"
  /\ crashes' = crashes + 1
  /\ Finish
  /\ UNCHANGED <<tip, known, processed, pending, ready, scanned, record, rescans>>

\* MainConfig.ready, in every process that loads the application: web
\* workers are recycled, so it runs while tasks are at work.
Start ==
  /\ Restarts
  /\ pending' = Absent
  /\ ready' = TRUE
  /\ UNCHANGED <<tip, known, processed, scanned, record, scan, crashes, rescans>>
-----------------------------------------------------------------------------
RecordStep(r) == BlockSetter(r) \/ CommitRow(r)

ManageBlocks ==
  \/ ReadBlocks \/ Refill \/ Choose \/ Discard \/ Take
  \/ (\E b \in Blocks : ScanBlock(b)) \/ ScanFails \/ ReadyToAccept \/ Finally

Next ==
  \/ NewBlock
  \/ \E r \in Recorders : GetLatestBlock(r) \/ (\E b \in Blocks : GetBchUtxos(r, b)) \/ RecordStep(r)
  \/ (\E b \in Blocks : AdminRead(b)) \/ AdminUnmark \/ AdminWrite
  \/ ManageBlocks
  \/ \E w \in Writers : CrashRecorder(w)
  \/ CrashScan \/ Start

Spec == Init /\ [][Next]_vars

\* Tasks run on and beat calls manage_blocks and get_latest_block; the scan
\* of a sound block succeeds if it is tried again and again.
FairSpec ==
  /\ Spec
  /\ WF_vars(ManageBlocks)
  /\ \A b \in Blocks : SF_vars(ScanBlock(b))
  /\ \A r \in Recorders : WF_vars(RecordStep(r)) /\ WF_vars(GetLatestBlock(r))
  /\ WF_vars(AdminUnmark) /\ WF_vars(AdminWrite)
-----------------------------------------------------------------------------
(* Properties.                                                              *)

\* A block counts as processed only once all its transactions were saved,
\* though scans fail halfway, are killed, or run again for the admin.
ProcessedIsScanned == processed \subseteq scanned

\* READY is given back by every end of a scan but a kill: nothing else can
\* stop the scanning.
OnlyKillsStopScanning == crashes = 0 /\ ~ready => step \in {"scan", "accept", "finally"}

\* Processes start now and then, but not for ever: each start empties the list.
StartsEnd == <>[][~Start]_vars

\* A scan was killed after it cleared READY, and no process has started since.
Halted == ~ready /\ step \notin {"scan", "accept", "finally"}

\* Every sound block that is recorded is processed in the end: numbers lost
\* from PENDING-BLOCKS by overlapping writes, by a discard before the row was
\* committed, or by a start of a process come back, and a block that always
\* fails does not keep the others waiting, once no more processes start and
\* unless the scanning was killed after the last of them.
KnownIsProcessed ==
  StartsEnd /\ <>[]~Halted => \A b \in Blocks \ Broken : b \in known ~> b \in processed
=============================================================================
