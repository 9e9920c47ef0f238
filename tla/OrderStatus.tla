---------------------------- MODULE OrderStatus ----------------------------
(***************************************************************************)
(* The status log of a P2P order: the rows of rampp2p's Status table that  *)
(* belong to one order, oldest first, and the validators every handler     *)
(* calls before it adds a row.  The table has no uniqueness constraint, so *)
(* these validators are the only thing that shapes the log.                *)
(***************************************************************************)
EXTENDS Naturals, Sequences

StatusType ==
  {"SBM", "CNF", "ESCRW_PN", "ESCRW", "PD_PN", "PD",
   "APL", "RLS_PN", "RLS", "RFN_PN", "RFN", "CNCL"}

\* Status.objects.filter(order=..., status=s).count() > 0
Logged(log, s) == \E i \in 1..Len(log) : log[i] = s

\* Status.objects.filter(order=...).latest('created_at').status
Latest(log) == log[Len(log)]

\* The rows of the log that carry status s.
Rows(log, s) == {i \in 1..Len(log) : log[i] = s}

\* Successors with the target of the PAID clause mistaken.
Successors_PaidToPending(log) ==
  CASE Latest(log) = "CNF"      -> {"ESCRW_PN", "CNCL"}
    [] Latest(log) = "ESCRW_PN" -> {"ESCRW", "CNCL"}
    [] Latest(log) = "ESCRW"    -> {"PD_PN", "APL"}
    [] Latest(log) = "PD_PN"    -> {"PD", "APL"}
    [] Latest(log) = "PD"       -> {"RLS_PN", "APL"}
    [] OTHER                    -> {}

(***************************************************************************)
(* validate_status_progression, clause by clause: the statuses that may    *)
(* follow the latest one.  CANCELED has no clause in the code, so nothing  *)
(* is refused after it; RELEASED and REFUNDED refuse everything.           *)
(***************************************************************************)
Successors(log) ==
  CASE Latest(log) = "SBM"      -> {"CNF", "CNCL"}
    [] Latest(log) = "CNF"      -> {"ESCRW_PN", "CNCL"}
    [] Latest(log) = "ESCRW_PN" -> {"ESCRW", "CNCL"}
    [] Latest(log) = "ESCRW"    -> {"PD_PN", "APL"}
    [] Latest(log) = "PD_PN"    -> {"PD", "APL"}
    [] Latest(log) = "PD"       -> {"RLS", "APL"}
    [] Latest(log) = "APL"      -> IF Logged(log, "PD") THEN {"RLS_PN"}
                                   ELSE {"RLS_PN", "RFN_PN"}
    [] Latest(log) = "RLS_PN"   -> {"RLS", "RFN"}
    [] Latest(log) = "RFN_PN"   -> {"RLS", "RFN"}
    [] Latest(log) = "CNCL"     -> StatusType
    [] OTHER                    -> {}

\* validate_status_inst_count then validate_status_progression: the pair of
\* reads every handler makes before it saves a status.
MayFollow(log, s) == ~Logged(log, s) /\ s \in Successors(log)
=============================================================================
