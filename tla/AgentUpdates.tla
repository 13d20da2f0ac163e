---------------------------- MODULE AgentUpdates ----------------------------
(***************************************************************************)
(* How an agent reports progress and the outcome of its Work: the `factory *)
(* update` commands it runs, the worker's endpoint that looks a request up,*)
(* checks the evidence and forwards it, the control plane that keeps one   *)
(* outcome for an attempt, and the end of the attempt, where the worker    *)
(* checks the evidence again once the agent has been stopped.              *)
(*                                                                         *)
(* Commits are numbered; 0 is the commit the worktree was made from, and a *)
(* remote branch at 0 does not exist.  The pull request shows the remote   *)
(* branch.  Attempts of the process_exit contract accept no updates and    *)
(* are left out.                                                           *)
(***************************************************************************)
EXTENDS Naturals, Sequences

CONSTANTS Requests,    \* request IDs, one for each command
          AgentWaits,  \* the agent exits only when its commands have ended
          MaxSends,    \* sends of a command
          MaxProgress, \* MaxProgressPerAttempt
          MaxHead,     \* bound: commits of the agent
          MaxLosses,   \* bound: requests and answers that are lost
          None         \* no status

ASSUME SendsAssumption == MaxSends \in Nat \ {0}
ASSUME ProgressAssumption == MaxProgress \in Nat

VARIABLES head, pushed,   \* the worktree's commit and the publish branch's
          command,        \* each command of the agent and the handler that serves it
          agent,          \* the process group of the runtime
          updates,        \* work_updates of the attempt, in their sequence
          stored,         \* agent_update_requests: the update a request stands for
          attempt, cancel, work,    \* the control plane's rows
          outcome,        \* the outcome the worker knows of
          reason,         \* why the worker stops the attempt
          finish,         \* the end of the attempt on the worker
          tree,           \* the worktree
          losses

git == <<head, pushed>>
server == <<updates, stored, attempt, cancel, work>>
worker == <<outcome, reason, finish, tree>>
vars == <<git, command, agent, server, worker, losses>>

Outcomes == {"ready", "needs-input", "failed", "no-change"}
Checked == {"ready", "needs-input"}
Statuses == {"running"} \cup Outcomes
Update == [status : Statuses, evidence : 0 .. MaxHead]
Results == {"succeeded", "failed", "cancelled"}
InFlight == {"lookup", "check", "append"}

TypeOK ==
    /\ head \in 0 .. MaxHead /\ pushed \in 0 .. MaxHead
    /\ command \in [Requests -> [status : Statuses \cup {None}, sends : 0 .. MaxSends,
                                 phase : {"unsent", "accepted", "refused", "gaveup"} \cup InFlight,
                                 evidence : 0 .. MaxHead]]
    /\ agent \in {"running", "stopping", "exited", "failed", "stopped", "killed"}
    /\ updates \in Seq(Update) /\ Len(updates) <= MaxProgress + 1
    /\ stored \in [Requests -> 0 .. Len(updates)]
    /\ attempt \in {"running", "lost"} \cup Results /\ cancel \in BOOLEAN
    /\ work \in {"running", "cancelled"} \cup Outcomes
    /\ outcome \in 0 .. Len(updates)
    /\ reason \in {"none", "cancelled", "timeout"}
    /\ finish \in [phase : {"none", "checked", "decided", "accepted", "unknown"}, result : Results]
    /\ tree \in {"present", "cleaned", "retained"}
    /\ losses \in 0 .. MaxLosses

NoCommand == [status |-> None, sends |-> 0, phase |-> "unsent", evidence |-> 0]

Init ==
    /\ head = 0 /\ pushed = 0
    /\ command = [r \in Requests |-> NoCommand]
    /\ agent = "running"
    /\ updates = <<>> /\ stored = [r \in Requests |-> 0]
    /\ attempt = "running" /\ cancel = FALSE /\ work = "running"
    /\ outcome = 0 /\ reason = "none"
    /\ finish = [phase |-> "none", result |-> "failed"] /\ tree = "present"
    /\ losses = 0

Alive == agent \in {"running", "stopping"}
Serving(r, phase) == command[r].phase = phase
Loss == losses < MaxLosses /\ losses' = losses + 1
Idle == \A r \in Requests : command[r].phase \notin InFlight

-----------------------------------------------------------------------------
(* The agent.                                                              *)

Commit ==
    /\ Alive /\ head < MaxHead /\ head' = head + 1
    /\ UNCHANGED <<pushed, command, agent, server, worker, losses>>

Push ==
    /\ Alive /\ pushed # head /\ pushed' = head
    /\ UNCHANGED <<head, command, agent, server, worker, losses>>

Report(r, status) ==
    /\ Alive /\ Serving(r, "unsent")
    /\ command' = [command EXCEPT ![r] = [@ EXCEPT !.status = status, !.phase = "lookup", !.sends = 1]]
    /\ UNCHANGED <<git, agent, server, worker, losses>>

(* The runtime ends, with exit code zero or another one.                   *)
AgentExits(end) ==
    /\ Alive /\ (AgentWaits => Idle) /\ agent' = end
    /\ UNCHANGED <<git, command, server, worker, losses>>

(* The supervisor stops the group after an outcome, or for a reason.       *)
AgentStopped ==
    /\ Alive
    /\ \/ agent = "stopping" /\ reason = "none" /\ agent' = "stopped"
       \/ reason # "none" /\ agent' = "killed"
    /\ UNCHANGED <<git, command, server, worker, losses>>

-----------------------------------------------------------------------------
(* One request on its way through the worker.                              *)

Goes(r, phase) == command' = [command EXCEPT ![r].phase = phase]

(* Mistake: a command repeats a request for as long as there is no answer. *)
AgainForever(r) == command' = [command EXCEPT ![r] = [@ EXCEPT !.phase = "lookup", !.sends = @ + 1]]
(* A retriable error, or none at all: the same request again.              *)
Again(r) ==
    IF command[r].sends < MaxSends
    THEN command' = [command EXCEPT ![r].phase = "lookup", ![r].sends = @ + 1, ![r].evidence = 0]
    ELSE command' = [command EXCEPT ![r].phase = "gaveup", ![r].evidence = 0]

(* respondAcceptedAgentUpdate, for the update u at place i.                *)
Accept(r, i, u) ==
    /\ command' = [command EXCEPT ![r] = [@ EXCEPT !.phase = "accepted", !.evidence = 0]]
    /\ outcome' = IF outcome = 0 /\ u.status # "running" THEN i ELSE outcome
    /\ agent' = IF agent = "running" /\ u.status # "running" THEN "stopping" ELSE agent
    /\ UNCHANGED <<reason, finish, tree>>

Lookup(r) ==
    /\ Serving(r, "lookup")
    /\ IF stored[r] # 0 THEN Accept(r, stored[r], updates[stored[r]])
       ELSE /\ Goes(r, IF command[r].status \in Checked THEN "check" ELSE "append")
            /\ UNCHANGED <<agent, worker>>
    /\ UNCHANGED <<git, server, losses>>

(* validateReadyDelivery and validateNeedsInputCheckpoint: the pull request*)
(* or publish branch and the worktree are at one commit; a question may    *)
(* leave the worktree as it was made.                                      *)
Valid(status) ==
    CASE status = "ready" -> pushed # 0 /\ head = pushed
      [] status = "needs-input" -> IF pushed = 0 THEN head = 0 ELSE head = pushed
      [] OTHER -> TRUE

Check(r) ==
    /\ Serving(r, "check")
    /\ IF Valid(command[r].status)
       THEN command' = [command EXCEPT ![r] = [@ EXCEPT !.phase = "append", !.evidence = head]]
       ELSE Goes(r, "refused")
    /\ UNCHANGED <<git, agent, server, worker, losses>>

(* Git or GitHub cannot be asked, or a request does not arrive.            *)
Unavailable(r) ==
    /\ command[r].phase \in InFlight /\ Again(r) /\ Loss
    /\ UNCHANGED <<git, agent, server, worker>>

(* The command is gone with the process group: so is its handler.          *)
Abandon(r) ==
    /\ command[r].phase \in InFlight /\ ~Alive
    /\ command' = [command EXCEPT ![r] = [@ EXCEPT !.phase = "gaveup", !.evidence = 0]]
    /\ UNCHANGED <<git, agent, server, worker, losses>>

-----------------------------------------------------------------------------
(* AppendAgentUpdate.                                                      *)

(* attemptOutcome: the place of the outcome in work_updates, or 0.         *)
OutcomeAt ==
    IF \E i \in DOMAIN updates : updates[i].status \in Outcomes
    THEN CHOOSE i \in DOMAIN updates : updates[i].status \in Outcomes ELSE 0

Wanted(r) == [status |-> command[r].status, evidence |-> command[r].evidence]
ProgressCount == Len(SelectSeq(updates, LAMBDA u : u.status = "running"))

(* Mistake: an outcome is no reason to refuse what comes after it.         *)
NewThoughReported(r) ==
    /\ attempt = "running" /\ ~cancel
    /\ command[r].status = "running" => ProgressCount < MaxProgress
(* A new update: the attempt is active and has no outcome yet.             *)
New(r) ==
    /\ attempt = "running" /\ ~cancel /\ OutcomeAt = 0
    /\ command[r].status = "running" => ProgressCount < MaxProgress

(* Mistake: a second outcome is answered with the first.                   *)
AnyOutcome(r) == attempt = "running" /\ ~cancel /\ OutcomeAt # 0
(* Another request that reports the outcome there is.                      *)
SameOutcome(r) ==
    attempt = "running" /\ ~cancel /\ OutcomeAt # 0 /\ updates[OutcomeAt] = Wanted(r)

Store(r, i) == stored' = [stored EXCEPT ![r] = i]

(* The update is stored, and the answer arrives or does not.               *)
AppendUpdate(r) ==
    /\ Serving(r, "append")
    /\ LET place == IF New(r) THEN Len(updates) + 1 ELSE OutcomeAt IN
        /\ New(r) \/ SameOutcome(r)
        /\ updates' = IF New(r) THEN Append(updates, Wanted(r)) ELSE updates
        /\ Store(r, place)
        /\ \/ Accept(r, place, Wanted(r)) /\ UNCHANGED losses
           \/ Again(r) /\ Loss /\ UNCHANGED <<agent, worker>>
    /\ UNCHANGED <<git, attempt, cancel, work>>

RefuseUpdate(r) ==
    /\ Serving(r, "append") /\ ~New(r) /\ ~SameOutcome(r)
    /\ Goes(r, "refused")
    /\ UNCHANGED <<git, agent, server, worker, losses>>

-----------------------------------------------------------------------------
(* Stops, and the end of the attempt.                                      *)

RequestCancel ==
    /\ attempt = "running" /\ ~cancel /\ cancel' = TRUE
    /\ UNCHANGED <<git, command, agent, updates, stored, attempt, work, worker, losses>>

Sweep ==
    /\ attempt = "running" /\ attempt' = "lost" /\ work' = "failed"
    /\ UNCHANGED <<git, command, agent, updates, stored, cancel, worker, losses>>

(* The first reason wins: a cancellation the heartbeat hears of, or one of *)
(* the deadline, the lease, the shutdown and the supervisor, as "timeout". *)
StopFor(why) ==
    /\ reason = "none" /\ finish.phase \in {"none", "checked", "decided"}
    /\ why = "cancelled" => cancel
    /\ reason' = why
    /\ UNCHANGED <<git, command, agent, server, outcome, finish, tree, losses>>

(* Mistake: an outcome that was accepted before the stop stands.           *)
ReasonUnlessReported == IF outcome # 0 THEN "none" ELSE reason
(* stopReasonAt.                                                           *)
StopReason == reason

TerminalState ==
    CASE agent = "killed" /\ reason = "cancelled" -> "cancelled"
      [] agent \in {"exited", "stopped"} -> "succeeded"
      [] OTHER -> "failed"

(* Mistake: what was checked when it was reported is not checked again.    *)
ValidOnce == TRUE
(* The reported evidence holds after the process group has been stopped.   *)
StillValid == Valid(updates[outcome].status) /\
              (updates[outcome].status \in Checked => updates[outcome].evidence = head)

(* finishWithWorktree, up to the second look at the stop reason.           *)
FinishCheck ==
    /\ ~Alive /\ finish.phase = "none"
    /\ finish' = [phase |-> "checked",
                  result |-> IF outcome # 0 /\ StopReason = "none"
                             THEN IF StillValid THEN "succeeded" ELSE "failed"
                             ELSE TerminalState]
    /\ UNCHANGED <<git, command, agent, server, outcome, reason, tree, losses>>

(* terminalForFinalStop.                                                   *)
FinishDecide ==
    /\ finish.phase = "checked"
    /\ finish' = [phase |-> "decided",
                  result |-> CASE StopReason = "cancelled" -> "cancelled"
                               [] StopReason = "timeout" -> "failed"
                               [] OTHER -> finish.result]
    /\ UNCHANGED <<git, command, agent, server, outcome, reason, tree, losses>>

(* CompleteAttempt's decision about the attempt and about its Work.        *)
FinalResult ==
    IF cancel THEN "cancelled"
    ELSE IF finish.result = "succeeded" /\ OutcomeAt = 0 THEN "failed" ELSE finish.result
WorkResult ==
    IF FinalResult = "succeeded" THEN updates[OutcomeAt].status ELSE FinalResult

(* A completion arrives, for the first time or again; its answer may not.  *)
Complete ==
    /\ finish.phase = "decided"
    /\ IF attempt = "running"
       THEN attempt' = FinalResult /\ work' = WorkResult
       ELSE UNCHANGED <<attempt, work>>
    /\ \/ attempt # "lost" /\ finish' = [finish EXCEPT !.phase = "accepted"]
       \/ UNCHANGED finish
    /\ UNCHANGED <<git, command, agent, updates, stored, cancel, outcome, reason, tree, losses>>

(* No answer by the end of the lease, or one that says it is lost.         *)
CompleteGivesUp ==
    /\ finish.phase = "decided" /\ finish' = [finish EXCEPT !.phase = "unknown"]
    /\ UNCHANGED <<git, command, agent, server, outcome, reason, tree, losses>>

(* Mistake: the result that was sent decides, not the one that was stored. *)
CleansAsSent ==
    /\ finish.phase = "accepted" /\ finish.result = "succeeded"
    /\ ~(outcome # 0 /\ updates[outcome].status = "failed")
(* Mistake: a success is cleaned up, whatever outcome was reported.        *)
CleansSucceeded == finish.phase = "accepted" /\ attempt = "succeeded"
(* shouldCleanCompletedWorktree.                                           *)
Cleans ==
    /\ finish.phase = "accepted" /\ attempt = "succeeded"
    /\ ~(outcome # 0 /\ updates[outcome].status = "failed")

(* Automatic cleanup keeps a worktree with commits that are not published. *)
Dispose ==
    /\ finish.phase \in {"accepted", "unknown"} /\ tree = "present"
    /\ tree' = IF Cleans /\ head \in {0, pushed} THEN "cleaned" ELSE "retained"
    /\ UNCHANGED <<git, command, agent, server, outcome, reason, finish, losses>>

(* The attempt is over.                                                    *)
Done == tree # "present" /\ Idle /\ UNCHANGED vars

Serves ==
    \E r \in Requests :
        Lookup(r) \/ Check(r) \/ Unavailable(r) \/ Abandon(r) \/ AppendUpdate(r) \/ RefuseUpdate(r)

Finishes == FinishCheck \/ FinishDecide \/ Complete \/ CompleteGivesUp \/ Dispose

Next ==
    \/ Commit \/ Push \/ AgentStopped
    \/ \E r \in Requests, status \in Statuses : Report(r, status)
    \/ \E end \in {"exited", "failed"} : AgentExits(end)
    \/ Serves \/ Finishes
    \/ RequestCancel \/ Sweep
    \/ \E why \in {"cancelled", "timeout"} : StopFor(why)
    \/ Done

Spec == Init /\ [][Next]_vars

-----------------------------------------------------------------------------
(* Properties.                                                             *)

(* An agent that was told its outcome is accepted is not contradicted: if  *)
(* its attempt succeeds, its Work ends in that outcome, however often the  *)
(* command was sent and whatever others said (work.go:136-154).            *)
ToldIsOutcome ==
    \A r \in Requests :
        command[r].phase = "accepted" /\ command[r].status # "running" /\ attempt = "succeeded"
            => work = command[r].status

(* An attempt has at most one outcome and it is the last thing it said.    *)
OutcomeIsLast ==
    \A i \in DOMAIN updates : updates[i].status \in Outcomes => i = Len(updates)

(* A stop that ended the agent wins over an outcome it had reported: the   *)
(* Work is not delivered by an attempt that was cancelled or timed out     *)
(* (attempt_lifecycle.go:799, 871).                                        *)
StopWins == agent = "killed" => work \notin {"ready", "needs-input", "no-change"}

(* A worktree is cleaned only when the control plane has accepted the      *)
(* success, never because of what the worker sent or believes              *)
(* (attempt_lifecycle.go:813).                                             *)
CleanedWasAccepted == tree = "cleaned" => attempt = "succeeded"

(* Delivered Work and a question have evidence that was true after the     *)
(* agent had stopped (ARCHITECTURE.md:487-489 "The Worker repeats ready or *)
(* checkpoint validation after verified process stop").                    *)
DeliveredIsChecked ==
    work \in Checked => ~Alive /\ updates[OutcomeAt].evidence = head /\ Valid(work)

(* docs/software-factory/design.md:666: a succeeded attempt whose reported *)
(* outcome is failed retains its worktree.                                 *)
FailedIsRetained == work = "failed" => tree # "cleaned"

(* The agent, the worker and the control plane agree on how the attempt    *)
(* ended, whichever answers were lost and whatever stopped it.             *)
OutcomeAgreed == ToldIsOutcome /\ OutcomeIsLast /\ StopWins /\ CleanedWasAccepted
=============================================================================
