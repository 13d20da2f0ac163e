---------------------------- MODULE WorkContract ----------------------------
(***************************************************************************)
(* What the control plane promises about Work, to the workers that hold    *)
(* it and to the operator who waits for it, whatever tables, transactions, *)
(* leases and stages it takes: a ledger with one line for each Work.       *)
(*                                                                         *)
(* Work waits, is held by one numbered attempt, and is delivered, stopped  *)
(* or asks a question.  WorkRefinement shows that WorkLifecycle, the model *)
(* of the handlers, implements it.                                         *)
(***************************************************************************)
EXTENDS Naturals, FiniteSets

CONSTANTS Work,
          NoWork,       \* Work that replaces no other
          Rivals        \* Rivals[w]: the Work about the same thing in the same place

VARIABLES status,       \* the state of each Work
          attempts,     \* the attempts each Work was given so far
          holder,       \* the attempt that holds it, or 0
          stopping,     \* a cancellation was promised to the operator
          replaces      \* the Work it replaces

vars == <<status, attempts, holder, stopping, replaces>>

Live == {"waiting", "held", "asking"}
Ended == {"delivered", "stopped"}

Init ==
    /\ status = [w \in Work |-> "absent"]
    /\ attempts = [w \in Work |-> 0]
    /\ holder = [w \in Work |-> 0]
    /\ stopping = [w \in Work |-> FALSE]
    /\ replaces = [w \in Work |-> NoWork]

Replaced(w) == \E x \in Work : replaces[x] = w
RivalsAtRest(w) == \A x \in Rivals[w] : status[x] \notin Live

(* Work that is admitted together has no rivals alive and none among it;   *)
(* each takes the place of at most one Work that has ended, and nothing    *)
(* else did.                                                               *)
Admit(S) ==
    /\ S # {}
    /\ \A w \in S : status[w] = "absent" /\ RivalsAtRest(w) /\ Rivals[w] \cap S = {}
    /\ \E p \in [S -> Work \cup {NoWork}] :
        /\ \A w \in S : p[w] # NoWork =>
               p[w] \in Rivals[w] /\ status[p[w]] \in Ended /\ ~Replaced(p[w])
        /\ \A w, x \in S : p[w] = p[x] /\ p[w] # NoWork => w = x
        /\ replaces' = [w \in Work |-> IF w \in S THEN p[w] ELSE replaces[w]]
    /\ status' = [w \in Work |-> IF w \in S THEN "waiting" ELSE status[w]]
    /\ UNCHANGED <<attempts, holder, stopping>>

(* Waiting Work is given to its next attempt.                              *)
Grant(w) ==
    /\ status[w] = "waiting"
    /\ status' = [status EXCEPT ![w] = "held"]
    /\ attempts' = [attempts EXCEPT ![w] = @ + 1]
    /\ holder' = [holder EXCEPT ![w] = attempts[w] + 1]
    /\ UNCHANGED <<stopping, replaces>>

(* Its holder delivers it, or leaves a question, unless it is to stop.     *)
Deliver(w, result) ==
    /\ status[w] = "held" /\ ~stopping[w]
    /\ status' = [status EXCEPT ![w] = result]
    /\ holder' = [holder EXCEPT ![w] = 0]
    /\ UNCHANGED <<attempts, stopping, replaces>>

(* Its holders fail, stop as they were asked to, or are not heard of.      *)
Stop(S) ==
    /\ S # {} /\ \A w \in S : status[w] = "held"
    /\ status' = [w \in Work |-> IF w \in S THEN "stopped" ELSE status[w]]
    /\ holder' = [w \in Work |-> IF w \in S THEN 0 ELSE holder[w]]
    /\ stopping' = [w \in Work |-> stopping[w] /\ w \notin S]
    /\ UNCHANGED <<attempts, replaces>>

(* The operator cancels: Work that nobody holds stops, the rest will.      *)
Cancel(S) ==
    /\ \E w \in S : status[w] \in Live
    /\ status' = [w \in Work |->
           IF w \in S /\ status[w] \in {"waiting", "asking"} THEN "stopped" ELSE status[w]]
    /\ stopping' = [w \in Work |-> stopping[w] \/ (w \in S /\ status[w] = "held")]
    /\ UNCHANGED <<attempts, holder, replaces>>

(* An answer is given to the question, once.                               *)
Answer(w) ==
    /\ status[w] = "asking" /\ status' = [status EXCEPT ![w] = "waiting"]
    /\ UNCHANGED <<attempts, holder, stopping, replaces>>

(* Stopped Work is tried again, as long as nothing took its place.         *)
Retry(w) ==
    /\ status[w] = "stopped" /\ ~Replaced(w) /\ RivalsAtRest(w)
    /\ status' = [status EXCEPT ![w] = "waiting"]
    /\ UNCHANGED <<attempts, holder, stopping, replaces>>

Next ==
    \/ \E S \in SUBSET Work : Admit(S) \/ Stop(S) \/ Cancel(S)
    \/ \E w \in Work : Grant(w) \/ Deliver(w, "delivered") \/ Deliver(w, "asking")
    \/ \E w \in Work : Answer(w) \/ Retry(w)

Spec == Init /\ [][Next]_vars
=============================================================================
