----------------------------- MODULE CoinLedger -----------------------------
(***************************************************************************)
(* What the index of coins promises while addresses are not rescanned, with *)
(* no tasks, calls or queues: a coin the chain has gets one row, which      *)
(* stays, is flagged spent only once the coin is, and is reported to the    *)
(* subscribers at most once, after it is there.  A flag may be lost.        *)
(***************************************************************************)
EXTENDS Naturals

CONSTANT Coins

VARIABLES fate,     \* fate[c]: what has become of the coin on chain
          row,      \* row[c]: no row, or its spent flag
          reports   \* reports[c]: how often it was reported

vars == <<fate, row, reports>>

Init ==
  /\ fate = [c \in Coins |-> "unknown"]
  /\ row = [c \in Coins |-> "absent"]
  /\ reports = [c \in Coins |-> 0]

\* A transaction makes coins and spends others.
Transact ==
  /\ \A c \in Coins : \/ fate'[c] = fate[c]
                      \/ fate[c] = "unknown" /\ fate'[c] = "live"
                      \/ fate[c] = "live" /\ fate'[c] = "gone"
  /\ UNCHANGED <<row, reports>>

Record(c) ==
  /\ fate[c] # "unknown" /\ row[c] = "absent"
  /\ \/ row' = [row EXCEPT ![c] = "unspent"]
     \/ fate[c] = "gone" /\ row' = [row EXCEPT ![c] = "spent"]
  /\ UNCHANGED <<fate, reports>>

Flag(cs) ==
  /\ \A c \in cs : row[c] # "absent" /\ fate[c] = "gone"
  /\ row' = [c \in Coins |-> IF c \in cs THEN "spent" ELSE row[c]]
  /\ UNCHANGED <<fate, reports>>

LoseFlag(c) ==
  /\ row[c] = "spent"
  /\ row' = [row EXCEPT ![c] = "unspent"]
  /\ UNCHANGED <<fate, reports>>

Report(c) ==
  /\ row[c] # "absent" /\ reports[c] = 0
  /\ reports' = [reports EXCEPT ![c] = 1]
  /\ UNCHANGED <<fate, row>>

Next ==
  \/ Transact
  \/ \E cs \in SUBSET Coins : Flag(cs)
  \/ \E c \in Coins : Record(c) \/ LoseFlag(c) \/ Report(c)

Spec == Init /\ [][Next]_vars
=============================================================================
