--------------------------- MODULE WorkRefinement ---------------------------
(***************************************************************************)
(* WorkLifecycle implements WorkContract: the ledger is a reading of the   *)
(* sessions and attempts tables, in which stages, leases, routes and the   *)
(* difference between queued and blocked Work do not appear.               *)
(***************************************************************************)
EXTENDS WorkLifecycle

(* What a state of the sessions table says in the ledger.                  *)
Reading(state) ==
    IF state \in {"blocked", "queued"} THEN "waiting"
    ELSE IF state \in Active THEN "held"
    ELSE IF state = "needs-input" THEN "asking"
    ELSE IF state \in {"ready", "succeeded", "no-change"} THEN "delivered"
    ELSE IF state \in {"failed", "cancelled"} THEN "stopped"
    ELSE "absent"

Status(s) == Reading(session[s].state)

Attempted(s) == {n \in AttemptNo : attempt[s][n].state # "none"}
Holding(s) == {n \in AttemptNo : attempt[s][n].state \in Active}
Holder(s) == IF Holding(s) = {} THEN 0 ELSE CHOOSE n \in Holding(s) : TRUE
Stopping(s) == session[s].state \in Active /\ session[s].cancel

Contract == INSTANCE WorkContract WITH
    Work <- Session,
    NoWork <- NoSession,
    Rivals <- [s \in Session |-> Matching(s)],
    status <- [s \in Session |-> Status(s)],
    attempts <- [s \in Session |-> Cardinality(Attempted(s))],
    holder <- [s \in Session |-> Holder(s)],
    stopping <- [s \in Session |-> Stopping(s)],
    replaces <- [s \in Session |-> session[s].predecessor]

(* No interleaving of claims, completions, sweeps, answers, cancellations, *)
(* retries, replacements, outages and disabled repositories does to Work   *)
(* what the ledger does not: two holders, a delivery after a cancellation, *)
(* an attempt number given twice, a second replacement, a live rival       *)
(* (ARCHITECTURE.md, "Invariants").                                        *)
KeepsContract == Contract!Spec
=============================================================================
