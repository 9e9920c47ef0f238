---------------------------- MODULE EscrowTrade ----------------------------
(***************************************************************************)
(* What the P2P exchange promises about one trade, with no rows, queues or *)
(* handlers: the escrowed coins move at most once, and the outcome the     *)
(* exchange records is the one the coins had, recorded at most once and    *)
(* never taken back.                                                       *)
(***************************************************************************)
VARIABLES funds,     \* where the escrowed coins are
          outcome    \* what the exchange has recorded

vars == <<funds, outcome>>

Funds == {"unfunded", "funded", "released", "refunded"}
Outcomes == {"open", "released", "refunded"}

Init == funds = "unfunded" /\ outcome = "open"

Lock == funds = "unfunded" /\ funds' = "funded" /\ UNCHANGED outcome

Pay(to) == funds = "funded" /\ funds' = to /\ UNCHANGED outcome

Record ==
  /\ outcome = "open"
  /\ funds \in {"released", "refunded"}
  /\ outcome' = funds
  /\ UNCHANGED funds

Next == Lock \/ Pay("released") \/ Pay("refunded") \/ Record

Spec == Init /\ [][Next]_vars
=============================================================================
