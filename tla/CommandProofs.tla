---------------------------- MODULE CommandProofs ----------------------------
(***************************************************************************)
(* Theorems about the three components whose commands are run again when   *)
(* they fail, for any number of commands, requests and keys and any bound: *)
(* the parts of MCCommands, each with the inductive invariant its property *)
(* needs.                                                                  *)
(***************************************************************************)
EXTENDS MCCommands, FiniteSetTheorems, TLAPS

commandVars == <<part, vars, admitting, publishing>>

(* A step of the composition is a step of one part, and a stutter of the   *)
(* others.                                                                 *)
LEMMA EachPartSteps ==
  ASSUME [CommandsNext]_commandVars
  PROVE  /\ [Next]_vars
         /\ Journal!Next \/ UNCHANGED admitting
         /\ Publication!Next \/ UNCHANGED publishing
BY DEF CommandsNext, commandVars

-----------------------------------------------------------------------------
(* The updates.  What a command was told is in the history, an outcome is  *)
(* the end of it, and the end of the attempt follows from both.            *)

CommandRow == [status : Statuses \cup {None}, sends : Nat, evidence : Nat,
               phase : {"unsent", "accepted", "refused", "gaveup"} \cup InFlight]
UpdateRow == [status : Statuses, evidence : Nat]

UpdateRows ==
    /\ command \in [Requests -> CommandRow]
    /\ updates \in Seq(UpdateRow)
    /\ stored \in [Requests -> Nat]
    /\ head \in Nat

(* A command's place in the history has what it says.                      *)
Recorded ==
    \A r \in Requests :
        /\ stored[r] # 0 => /\ stored[r] \in DOMAIN updates
                            /\ updates[stored[r]].status = command[r].status
        /\ command[r].phase = "accepted" => stored[r] # 0
        /\ command[r].phase = "unsent" => stored[r] = 0
        /\ command[r].phase # "unsent" => command[r].status \in Statuses

LEMMA UpdatesInit == Init => UpdateRows /\ Recorded /\ OutcomeIsLast
BY DEF Init, UpdateRows, Recorded, OutcomeIsLast, NoCommand, CommandRow, Statuses, InFlight

(* The one outcome of the history, if it has one.                          *)
LEMMA OneOutcome ==
  ASSUME UpdateRows, OutcomeIsLast
  PROVE  /\ OutcomeAt # 0 => /\ OutcomeAt \in DOMAIN updates /\ OutcomeAt = Len(updates)
                             /\ updates[OutcomeAt].status \in Outcomes
         /\ OutcomeAt = 0 => \A i \in DOMAIN updates : updates[i].status \notin Outcomes
<1>1. CASE \E i \in DOMAIN updates : updates[i].status \in Outcomes
  <2>1. /\ OutcomeAt \in DOMAIN updates /\ updates[OutcomeAt].status \in Outcomes
    BY <1>1 DEF OutcomeAt
  <2>2. DOMAIN updates = 1 .. Len(updates) /\ Len(updates) \in Nat
    BY DEF UpdateRows
  <2>3. QED
    BY <2>1, <2>2 DEF OutcomeIsLast
<1>2. CASE ~\E i \in DOMAIN updates : updates[i].status \in Outcomes
  BY <1>2 DEF OutcomeAt
<1> QED
  BY <1>1, <1>2

(* The end of the attempt: the control plane's rows agree with each other  *)
(* and with the history, and an agent that was killed had not succeeded.   *)
Ended ==
    /\ attempt = "running" => work = "running"
    /\ attempt = "succeeded" => OutcomeAt # 0 /\ work = updates[OutcomeAt].status
    /\ attempt = "lost" => work = "failed"
    /\ attempt \in {"failed", "cancelled"} => work = attempt
    /\ attempt \in {"running", "lost"} \cup Results

Stopped ==
    /\ agent = "killed" => reason # "none"
    /\ finish.phase # "none" => ~Alive
    /\ agent = "killed" /\ finish.phase # "none" => finish.result # "succeeded"
    /\ reason \in {"none", "cancelled", "timeout"}
    /\ finish \in [phase : {"none", "checked", "decided", "accepted", "unknown"}, result : Results]

Delivered == work \in {"ready", "needs-input", "no-change"} => ~Alive /\ agent # "killed"

OutcomeInv ==
    UpdateRows /\ Recorded /\ OutcomeIsLast /\ Ended /\ Stopped /\ Delivered /\ CleanedWasAccepted

LEMMA OutcomeInit == Init => OutcomeInv
<1> SUFFICES ASSUME Init PROVE OutcomeInv
  OBVIOUS
<1>1. Ended /\ Stopped /\ Delivered /\ CleanedWasAccepted
  BY DEF Init, Ended, Stopped, Delivered, CleanedWasAccepted, Alive, Results
<1> QED
  BY <1>1, UpdatesInit DEF OutcomeInv

(* A command moves and nothing else does.                                  *)
LEMMA PhaseKeeps ==
  ASSUME UpdateRows, Recorded, UNCHANGED <<updates, stored, head>>,
         NEW r \in Requests,
         command' \in [Requests -> CommandRow],
         \A q \in Requests : q # r => command'[q] = command[q],
         command[r].phase # "unsent",
         command'[r].status = command[r].status,
         command'[r].phase # "unsent",
         command'[r].phase = "accepted" => stored[r] # 0
  PROVE  UpdateRows' /\ Recorded'
<1>1. UpdateRows'
  BY DEF UpdateRows
<1>2. ASSUME NEW q \in Requests
      PROVE  /\ stored'[q] # 0 => /\ stored'[q] \in DOMAIN updates'
                                  /\ updates'[stored'[q]].status = command'[q].status
             /\ command'[q].phase = "accepted" => stored'[q] # 0
             /\ command'[q].phase = "unsent" => stored'[q] = 0
             /\ command'[q].phase # "unsent" => command'[q].status \in Statuses
  <2>1. CASE q = r
    BY <2>1 DEF Recorded
  <2>2. CASE q # r
    BY <2>2 DEF Recorded
  <2> QED
    BY <2>1, <2>2
<1> QED
  BY <1>1, <1>2 DEF Recorded

(* What a command becomes when its request is sent again or answered.      *)
LEMMA AgainMoves ==
  ASSUME UpdateRows, NEW r \in Requests, Again(r)
  PROVE  /\ command' \in [Requests -> CommandRow]
         /\ \A q \in Requests : q # r => command'[q] = command[q]
         /\ command'[r].status = command[r].status
         /\ command'[r].phase \in {"lookup", "gaveup"}
<1>1. CASE command[r].sends < MaxSends
  <2>1. command' = [command EXCEPT ![r].phase = "lookup", ![r].sends = @ + 1, ![r].evidence = 0]
    BY <1>1 DEF Again
  <2>2. command[r] \in CommandRow /\ command[r].sends + 1 \in Nat
    BY DEF UpdateRows, CommandRow
  <2>3. /\ command' = [command EXCEPT ![r] = command'[r]]
        /\ command'[r] = [status |-> command[r].status, sends |-> command[r].sends + 1,
                          evidence |-> 0, phase |-> "lookup"]
    BY <2>1, <2>2 DEF UpdateRows, CommandRow
  <2>4. command'[r] \in CommandRow
    BY <2>2, <2>3 DEF CommandRow, InFlight
  <2> QED
    BY <2>3, <2>4 DEF UpdateRows
<1>2. CASE ~(command[r].sends < MaxSends)
  <2>1. command' = [command EXCEPT ![r].phase = "gaveup", ![r].evidence = 0]
    BY <1>2 DEF Again
  <2> QED
    BY <2>1 DEF UpdateRows, CommandRow, InFlight
<1> QED
  BY <1>1, <1>2

LEMMA AcceptMoves ==
  ASSUME UpdateRows, NEW r \in Requests, NEW i, NEW u, Accept(r, i, u)
  PROVE  /\ command' \in [Requests -> CommandRow]
         /\ \A q \in Requests : q # r => command'[q] = command[q]
         /\ command'[r].status = command[r].status
         /\ command'[r].phase = "accepted"
BY DEF Accept, UpdateRows, CommandRow, InFlight

LEMMA GoesMoves ==
  ASSUME UpdateRows, NEW r \in Requests,
         NEW next \in {"accepted", "refused", "gaveup"} \cup InFlight, Goes(r, next)
  PROVE  /\ command' \in [Requests -> CommandRow]
         /\ \A q \in Requests : q # r => command'[q] = command[q]
         /\ command'[r].status = command[r].status
         /\ command'[r].phase = next
BY DEF Goes, UpdateRows, CommandRow, InFlight

LEMMA AppendRows ==
  ASSUME UpdateRows, Recorded, OutcomeIsLast, NEW r \in Requests, AppendUpdate(r)
  PROVE  UpdateRows' /\ Recorded' /\ OutcomeIsLast'
<1> DEFINE place == IF New(r) THEN Len(updates) + 1 ELSE OutcomeAt
<1>1. /\ command[r].phase = "append"
      /\ New(r) \/ SameOutcome(r)
      /\ updates' = IF New(r) THEN Append(updates, Wanted(r)) ELSE updates
      /\ stored' = [stored EXCEPT ![r] = place]
      /\ head' = head
  BY DEF AppendUpdate, Serving, Store, git
<1>2. /\ command' \in [Requests -> CommandRow]
      /\ \A q \in Requests : q # r => command'[q] = command[q]
      /\ command'[r].status = command[r].status
      /\ command'[r].phase \in {"accepted", "lookup", "gaveup"}
  <2>1. (\E i, u : Accept(r, i, u)) \/ Again(r)
    BY DEF AppendUpdate
  <2> QED
    BY <2>1, AgainMoves, AcceptMoves
<1>3. command[r].status \in Statuses /\ Wanted(r) \in UpdateRow
  BY <1>1 DEF Recorded, UpdateRows, CommandRow, UpdateRow, Wanted
<1>4. /\ DOMAIN updates = 1 .. Len(updates) /\ Len(updates) \in Nat
      /\ updates' \in Seq(UpdateRow)
      /\ place \in DOMAIN updates' /\ place \in Nat \ {0}
      /\ updates'[place].status = command[r].status
  <2>1. CASE New(r)
    BY <2>1, <1>1, <1>3 DEF UpdateRows, Wanted
  <2>2. CASE ~New(r)
    BY <2>2, <1>1, OneOutcome DEF UpdateRows, Wanted, SameOutcome
  <2> QED
    BY <2>1, <2>2
<1>5. \A i \in DOMAIN updates : i \in DOMAIN updates' /\ updates'[i] = updates[i]
  BY <1>1, <1>4 DEF UpdateRows
<1>6. UpdateRows'
  BY <1>1, <1>2, <1>4 DEF UpdateRows
<1>7. Recorded'
  <2>1. ASSUME NEW q \in Requests
        PROVE  /\ stored'[q] # 0 => /\ stored'[q] \in DOMAIN updates'
                                    /\ updates'[stored'[q]].status = command'[q].status
               /\ command'[q].phase = "accepted" => stored'[q] # 0
               /\ command'[q].phase = "unsent" => stored'[q] = 0
               /\ command'[q].phase # "unsent" => command'[q].status \in Statuses
    <3>1. CASE q = r
      <4>1. stored'[r] = place
        BY <1>1 DEF UpdateRows
      <4> QED
        BY <3>1, <4>1, <1>2, <1>3, <1>4
    <3>2. CASE q # r
      <4>1. stored'[q] = stored[q] /\ command'[q] = command[q]
        BY <3>2, <1>1, <1>2 DEF UpdateRows
      <4> QED
        BY <4>1, <1>5 DEF Recorded
    <3> QED
      BY <3>1, <3>2
  <2> QED
    BY <2>1 DEF Recorded
<1>8. OutcomeIsLast'
  <2>1. CASE New(r)
    <3>1. OutcomeAt = 0
      BY <2>1 DEF New
    <3>2. \A i \in DOMAIN updates : updates[i].status \notin Outcomes
      BY <3>1, OneOutcome
    <3> QED
      BY <2>1, <1>1, <1>3, <1>4, <3>2 DEF OutcomeIsLast, UpdateRows
  <2>2. CASE ~New(r)
    BY <2>2, <1>1 DEF OutcomeIsLast
  <2> QED
    BY <2>1, <2>2
<1> QED
  BY <1>6, <1>7, <1>8

(* Every step keeps the history and what the commands were told of it.     *)
LEMMA RowsStep ==
  ASSUME UpdateRows, Recorded, OutcomeIsLast, [Next]_vars
  PROVE  UpdateRows' /\ Recorded' /\ OutcomeIsLast'
<1>1. ASSUME NEW r \in Requests, NEW status \in Statuses, Report(r, status)
      PROVE  UpdateRows' /\ Recorded' /\ OutcomeIsLast'
  <2>1. /\ command[r].phase = "unsent"
        /\ command' = [command EXCEPT ![r] = [@ EXCEPT !.status = status, !.phase = "lookup", !.sends = 1]]
        /\ updates' = updates /\ stored' = stored /\ head' = head
    BY <1>1 DEF Report, Serving, git, server
  <2>2. /\ command' \in [Requests -> CommandRow]
        /\ \A q \in Requests : q # r => command'[q] = command[q]
        /\ command'[r].status = status /\ command'[r].phase = "lookup"
    BY <2>1 DEF UpdateRows, CommandRow, InFlight
  <2>3. stored[r] = 0
    BY <2>1 DEF Recorded
  <2>4. UpdateRows' /\ OutcomeIsLast'
    BY <2>1, <2>2 DEF UpdateRows, OutcomeIsLast
  <2>5. Recorded'
    BY <2>1, <2>2, <2>3 DEF Recorded
  <2> QED
    BY <2>4, <2>5
<1>2. ASSUME NEW r \in Requests,
             Lookup(r) \/ Check(r) \/ Unavailable(r) \/ Abandon(r) \/ RefuseUpdate(r)
      PROVE  UpdateRows' /\ Recorded' /\ OutcomeIsLast'
  <2>1. UNCHANGED <<updates, stored, head>> /\ command[r].phase \in InFlight
    BY <1>2 DEF Lookup, Check, Unavailable, Abandon, RefuseUpdate, git, server, Serving, InFlight
  <2>2. /\ command' \in [Requests -> CommandRow]
        /\ \A q \in Requests : q # r => command'[q] = command[q]
        /\ command'[r].status = command[r].status
        /\ command'[r].phase # "unsent"
        /\ command'[r].phase = "accepted" => stored[r] # 0
    <3>1. CASE Lookup(r)
      <4>1. CASE stored[r] # 0
        BY <3>1, <4>1, AcceptMoves DEF Lookup
      <4>2. CASE stored[r] = 0
        BY <3>1, <4>2, GoesMoves DEF Lookup, InFlight
      <4> QED
        BY <4>1, <4>2
    <3>2. CASE Check(r)
      <4>1. CASE Valid(command[r].status)
        <5>1. command' = [command EXCEPT ![r] = [@ EXCEPT !.phase = "append", !.evidence = head]]
          BY <3>2, <4>1 DEF Check
        <5> QED
          BY <5>1 DEF UpdateRows, CommandRow, InFlight
      <4>2. CASE ~Valid(command[r].status)
        BY <3>2, <4>2, GoesMoves DEF Check
      <4> QED
        BY <4>1, <4>2
    <3>3. CASE Unavailable(r)
      BY <3>3, AgainMoves DEF Unavailable
    <3>4. CASE Abandon(r)
      BY <3>4 DEF Abandon, UpdateRows, CommandRow
    <3>5. CASE RefuseUpdate(r)
      BY <3>5, GoesMoves DEF RefuseUpdate
    <3> QED
      BY <1>2, <3>1, <3>2, <3>3, <3>4, <3>5
  <2>3. UpdateRows' /\ Recorded'
    BY <2>1, <2>2, PhaseKeeps DEF InFlight
  <2> QED
    BY <2>1, <2>3 DEF OutcomeIsLast
<1>3. CASE Commit
  <2>1. UNCHANGED <<command, updates, stored>> /\ head' = head + 1
    BY <1>3 DEF Commit, server
  <2> QED
    BY <2>1 DEF UpdateRows, Recorded, OutcomeIsLast
<1>4. CASE UNCHANGED <<command, updates, stored, head>>
  BY <1>4 DEF UpdateRows, Recorded, OutcomeIsLast
<1>5. CASE \/ Push \/ AgentStopped \/ Finishes \/ RequestCancel \/ Sweep \/ Done
           \/ \E end \in {"exited", "failed"} : AgentExits(end)
           \/ \E why \in {"cancelled", "timeout"} : StopFor(why)
           \/ UNCHANGED vars
  BY <1>4, <1>5 DEF Push, AgentStopped, Finishes, FinishCheck, FinishDecide, Complete,
                    CompleteGivesUp, Dispose, RequestCancel, Sweep, Done, AgentExits, StopFor,
                    git, server, vars
<1> QED
  BY <1>1, <1>2, <1>3, <1>5, AppendRows DEF Next, Serves

(* The history is only written while the attempt runs.                     *)
LEMMA HistoryFrozen ==
  ASSUME [Next]_vars
  PROVE  \/ attempt = "running" /\ UNCHANGED <<attempt, work, tree>>
         \/ UNCHANGED updates
<1>1. ASSUME NEW r \in Requests, AppendUpdate(r)
      PROVE  attempt = "running" /\ UNCHANGED <<attempt, work, tree>>
  BY <1>1 DEF AppendUpdate, New, SameOutcome, Accept, worker
<1>2. ASSUME NEW r \in Requests,
             Lookup(r) \/ Check(r) \/ Unavailable(r) \/ Abandon(r) \/ RefuseUpdate(r)
      PROVE  UNCHANGED updates
  BY <1>2 DEF Lookup, Check, Unavailable, Abandon, RefuseUpdate, server
<1>3. ASSUME NEW r \in Requests, NEW status \in Statuses, Report(r, status)
      PROVE  UNCHANGED updates
  BY <1>3 DEF Report, server
<1>4. CASE \/ Commit \/ Push \/ AgentStopped \/ Finishes \/ RequestCancel \/ Sweep \/ Done
           \/ \E end \in {"exited", "failed"} : AgentExits(end)
           \/ \E why \in {"cancelled", "timeout"} : StopFor(why)
           \/ UNCHANGED vars
  BY <1>4 DEF Commit, Push, AgentStopped, Finishes, FinishCheck, FinishDecide, Complete,
              CompleteGivesUp, Dispose, RequestCancel, Sweep, Done, AgentExits, StopFor,
              server, vars
<1> QED
  BY <1>1, <1>2, <1>3, <1>4 DEF Next, Serves

(* A step of a request moves the agent only to stop it, and touches        *)
(* neither the end of the attempt nor the control plane's verdict.         *)
LEMMA ServingKeeps ==
  ASSUME NEW r \in Requests,
         \/ Lookup(r) \/ Check(r) \/ Unavailable(r) \/ Abandon(r)
         \/ AppendUpdate(r) \/ RefuseUpdate(r)
  PROVE  /\ UNCHANGED <<attempt, work, cancel, reason, finish, tree>>
         /\ agent' = agent \/ (agent = "running" /\ agent' = "stopping")
<1>1. CASE Lookup(r)
  BY <1>1 DEF Lookup, Accept, worker, server
<1>2. CASE AppendUpdate(r)
  BY <1>2 DEF AppendUpdate, Accept, worker
<1>3. CASE Check(r) \/ Unavailable(r) \/ Abandon(r) \/ RefuseUpdate(r)
  BY <1>3 DEF Check, Unavailable, Abandon, RefuseUpdate, worker, server
<1> QED
  BY <1>1, <1>2, <1>3

(* What a step does to the agent and to the rows, action by action.        *)
LEMMA StoppedStep ==
  ASSUME Stopped, [Next]_vars
  PROVE  Stopped'
<1>1. ASSUME NEW r \in Requests,
             \/ Lookup(r) \/ Check(r) \/ Unavailable(r) \/ Abandon(r)
             \/ AppendUpdate(r) \/ RefuseUpdate(r)
      PROVE  Stopped'
  BY <1>1, ServingKeeps DEF Stopped, Alive
<1>2. CASE FinishCheck
  BY <1>2 DEF FinishCheck, StopReason, TerminalState, Stopped, Alive, Results
<1>3. CASE FinishDecide
  BY <1>3 DEF FinishDecide, StopReason, Stopped, Alive, Results
<1>4. CASE Complete \/ CompleteGivesUp
  BY <1>4 DEF Complete, CompleteGivesUp, Stopped, Alive, Results
<1>5. CASE AgentStopped \/ \E end \in {"exited", "failed"} : AgentExits(end)
  BY <1>5 DEF AgentStopped, AgentExits, Stopped, Alive, worker
<1>6. ASSUME NEW why \in {"cancelled", "timeout"}, StopFor(why)
      PROVE  Stopped'
  BY <1>6 DEF StopFor, Stopped, Alive
<1>7. CASE UNCHANGED <<agent, reason, finish>>
  BY <1>7 DEF Stopped, Alive
<1>8. CASE Commit \/ Push \/ RequestCancel \/ Sweep \/ Dispose \/ Done \/ UNCHANGED vars
  BY <1>7, <1>8 DEF Commit, Push, RequestCancel, Sweep, Dispose, Done, vars, worker
<1>9. ASSUME NEW r \in Requests, NEW status \in Statuses, Report(r, status)
      PROVE  Stopped'
  BY <1>7, <1>9 DEF Report, worker
<1> QED
  BY <1>1, <1>2, <1>3, <1>4, <1>5, <1>6, <1>8, <1>9 DEF Next, Serves, Finishes

(* The completion decides the Work's row by the history.                   *)
LEMMA CompleteRows ==
  ASSUME Ended, Stopped, Complete
  PROVE  /\ UNCHANGED <<updates, agent, tree, finish.result>>
         /\ \/ UNCHANGED <<attempt, work>>
            \/ /\ attempt = "running" /\ attempt' \in Results
               /\ attempt' = "succeeded" =>
                    /\ OutcomeAt # 0 /\ finish.result = "succeeded"
                    /\ work' = updates[OutcomeAt].status
               /\ attempt' # "succeeded" => work' = attempt'
<1>1. /\ UNCHANGED <<updates, agent, tree>> /\ finish'.result = finish.result
      /\ IF attempt = "running" THEN attempt' = FinalResult /\ work' = WorkResult
                                ELSE UNCHANGED <<attempt, work>>
  BY DEF Complete, Stopped
<1>2. FinalResult \in Results
  BY DEF FinalResult, Stopped, Results
<1>3. FinalResult = "succeeded" => OutcomeAt # 0 /\ finish.result = "succeeded"
  BY DEF FinalResult
<1> QED
  BY <1>1, <1>2, <1>3 DEF WorkResult

LEMMA VerdictStep ==
  ASSUME UpdateRows, OutcomeIsLast, Ended, Stopped, Delivered, CleanedWasAccepted, [Next]_vars
  PROVE  Ended' /\ Delivered' /\ CleanedWasAccepted'
<1>1. CASE Complete
  <2>1. updates' = updates /\ agent' = agent /\ tree' = tree /\ OutcomeAt' = OutcomeAt
    BY <1>1, CompleteRows DEF OutcomeAt
  <2>2. ~Alive /\ (agent = "killed" => finish.result # "succeeded")
    BY <1>1 DEF Complete, Stopped
  <2>3. CASE UNCHANGED <<attempt, work>>
    BY <2>1, <2>3 DEF Ended, Delivered, CleanedWasAccepted, Alive
  <2>4. CASE attempt = "running" /\ attempt' = "succeeded"
    <3>1. OutcomeAt # 0 /\ finish.result = "succeeded" /\ work' = updates[OutcomeAt].status
      BY <1>1, <2>4, CompleteRows
    <3> QED
      BY <2>1, <2>2, <2>4, <3>1 DEF Ended, Delivered, CleanedWasAccepted, Alive, Results
  <2>5. CASE attempt = "running" /\ attempt' \in Results \ {"succeeded"}
    <3>1. work' = attempt'
      BY <1>1, <2>5, CompleteRows DEF Results
    <3> QED
      BY <2>1, <2>5, <3>1 DEF Ended, Delivered, CleanedWasAccepted, Alive, Results
  <2> QED
    BY <1>1, <2>3, <2>4, <2>5, CompleteRows
<1>2. CASE Sweep
  <2>1. /\ attempt = "running" /\ attempt' = "lost" /\ work' = "failed" /\ tree' = tree
    BY <1>2 DEF Sweep, worker
  <2> QED
    BY <2>1 DEF Ended, Delivered, CleanedWasAccepted, Results
<1>3. CASE Dispose
  <2>1. /\ UNCHANGED <<attempt, work, updates, agent>>
        /\ tree' = "cleaned" => attempt = "succeeded"
    BY <1>3 DEF Dispose, Cleans, server
  <2> QED
    BY <2>1 DEF Ended, Delivered, CleanedWasAccepted, OutcomeAt, Alive
<1>4. CASE UNCHANGED <<attempt, work, tree>> /\ (agent' = agent \/ Alive)
  <2>1. Ended'
    <3>1. CASE attempt = "running"
      BY <1>4, <3>1 DEF Ended
    <3>2. CASE attempt # "running"
      BY <1>4, <3>2, HistoryFrozen DEF Ended, OutcomeAt
    <3> QED
      BY <3>1, <3>2
  <2> QED
    BY <1>4, <2>1 DEF Delivered, CleanedWasAccepted, Alive
<1>5. ASSUME NEW r \in Requests,
             \/ Lookup(r) \/ Check(r) \/ Unavailable(r) \/ Abandon(r)
             \/ AppendUpdate(r) \/ RefuseUpdate(r)
      PROVE  UNCHANGED <<attempt, work, tree>> /\ (agent' = agent \/ Alive)
  BY <1>5, ServingKeeps DEF Alive
<1>6. ASSUME NEW r \in Requests, NEW status \in Statuses, Report(r, status)
      PROVE  UNCHANGED <<attempt, work, tree>> /\ (agent' = agent \/ Alive)
  BY <1>6 DEF Report, server, worker
<1>7. CASE \/ Commit \/ Push \/ AgentStopped \/ FinishCheck \/ FinishDecide \/ CompleteGivesUp
           \/ RequestCancel \/ Done
           \/ \E end \in {"exited", "failed"} : AgentExits(end)
           \/ \E why \in {"cancelled", "timeout"} : StopFor(why)
           \/ UNCHANGED vars
  <2>1. UNCHANGED <<attempt, work, tree>> /\ (agent' = agent \/ Alive)
    BY <1>7 DEF Commit, Push, AgentStopped, FinishCheck, FinishDecide, CompleteGivesUp,
                RequestCancel, Done, AgentExits, StopFor, server, worker, vars
  <2> QED
    BY <1>4, <2>1
<1> QED
  BY <1>1, <1>2, <1>3, <1>4, <1>5, <1>6, <1>7 DEF Next, Serves, Finishes

(* Together they say what the property says.                               *)
LEMMA OutcomeFollows == OutcomeInv => OutcomeAgreed
<1> SUFFICES ASSUME OutcomeInv PROVE OutcomeAgreed
  OBVIOUS
<1>1. ToldIsOutcome
  <2>1. SUFFICES ASSUME NEW r \in Requests, command[r].phase = "accepted",
                        command[r].status # "running", attempt = "succeeded"
                 PROVE  work = command[r].status
    BY DEF ToldIsOutcome
  <2>2. /\ stored[r] \in DOMAIN updates
        /\ updates[stored[r]].status = command[r].status
        /\ command[r].status \in Outcomes
    BY <2>1 DEF OutcomeInv, Recorded, Statuses
  <2>3. stored[r] = OutcomeAt
    BY <2>2, OneOutcome DEF OutcomeInv, OutcomeIsLast
  <2> QED
    BY <2>1, <2>2, <2>3 DEF OutcomeInv, Ended
<1> QED
  BY <1>1 DEF OutcomeAgreed, OutcomeInv, StopWins, Delivered

(* The agent, the worker and the control plane agree on how the attempt    *)
(* ended, whatever was sent twice, lost or stopped (work.go:136-154,       *)
(* attempt_lifecycle.go:799-871).                                          *)
THEOREM OutcomeAgreedCorrect == CommandsSpec => []OutcomeAgreed
<1>1. CommandsInit => OutcomeInv
  BY OutcomeInit DEF CommandsInit
<1>2. OutcomeInv /\ [CommandsNext]_commandVars => OutcomeInv'
  BY EachPartSteps, RowsStep, StoppedStep, VerdictStep DEF OutcomeInv
<1> QED
  BY <1>1, <1>2, OutcomeFollows, PTL DEF CommandsSpec, commandVars

-----------------------------------------------------------------------------
(* The journal of request keys.  The holder of a scope's lock is the only  *)
(* command with its key, the entry stays until an answer was flushed, and  *)
(* a Run without such an answer is the Run of the entry.                   *)

Busy(c) == cmd[c].pc \in {"send", "sent", "answered", "waiting", "print", "clear"}
Drawn(c) == Busy(c) /\ Journal!Implicit(c)

Flush == [key : Journal!Keys, scope : Journal!Scopes, result : Journal!Results \cup {None}]

JournalRows ==
    /\ cmd \in [Commands -> Journal!Invocation \cup {Journal!Idle}]
    /\ lock \in [Journal!Scopes -> Commands \cup {None}]
    /\ journal \subseteq Journal!Entry
    /\ requests \subseteq Journal!Request
    /\ runs \subseteq Journal!Run /\ IsFiniteSet(runs)
    /\ used \subseteq RandomKeys
    /\ reported \subseteq Flush /\ IsFiniteSet(reported)

LockHeld == \A c \in Commands : cmd[c].pc = "load" \/ Drawn(c) => lock[cmd[c].scope] = c

EntryFound == \A c \in Commands : Drawn(c) => cmd[c].key \in RandomKeys /\ Journal!Pending(c) \in journal

EntriesApart ==
    /\ \A e \in journal : e.key \in used
    /\ \A e, f \in journal : e.scope = f.scope \/ e.key = f.key => e = f

(* A request that still has its command is the one the command waits for.  *)
AnswerAwaited ==
    \A r \in requests : r.from # None =>
        cmd[r.from].pc = "sent" /\ cmd[r.from].key = r.key /\ cmd[r.from].scope = r.scope

Answered(k, s) == \E p \in reported : p.key = k /\ p.scope = s

KeyAccounted ==
    \A x \in requests \cup runs : x.key \in RandomKeys =>
        Answered(x.key, x.scope) \/ [scope |-> x.scope, key |-> x.key] \in journal

Flushed == \A c \in Commands : cmd[c].pc = "clear" => Answered(cmd[c].key, cmd[c].scope)

OneRunPerKey == \A x, y \in runs : x.key = y.key => x = y

JournalInv ==
    /\ JournalRows /\ LockHeld /\ EntryFound /\ EntriesApart /\ AnswerAwaited
    /\ KeyAccounted /\ Flushed /\ OneRunPerKey

LEMMA JournalInit == Journal!Init => JournalInv
<1> SUFFICES ASSUME Journal!Init PROVE JournalInv
  OBVIOUS
<1>1. JournalRows
  BY FS_EmptySet DEF Journal!Init, JournalRows
<1>2. LockHeld /\ EntryFound /\ Flushed
  BY DEF Journal!Init, Journal!Idle, LockHeld, EntryFound, Flushed, Drawn, Busy
<1>3. EntriesApart /\ AnswerAwaited /\ KeyAccounted /\ OneRunPerKey
  BY DEF Journal!Init, EntriesApart, AnswerAwaited, KeyAccounted, OneRunPerKey
<1> QED
  BY <1>1, <1>2, <1>3 DEF JournalInv

(* A command that goes on keeps what it was asked.                         *)
LEMMA GoRow ==
  ASSUME JournalRows, NEW c \in Commands, cmd[c].pc # "idle",
         NEW next \in {"load", "send", "sent", "answered", "waiting", "print", "clear"},
         Journal!Go(c, next)
  PROVE  /\ cmd' \in [Commands -> Journal!Invocation \cup {Journal!Idle}]
         /\ \A d \in Commands : d # c => cmd'[d] = cmd[d]
         /\ cmd'[c].pc = next /\ cmd'[c].key = cmd[c].key /\ cmd'[c].scope = cmd[c].scope
<1>1. cmd[c] \in Journal!Invocation
  BY DEF JournalRows, Journal!Idle
<1>2. cmd' = [cmd EXCEPT ![c].pc = next]
  BY DEF Journal!Go
<1>3. cmd'[c] = [cmd[c] EXCEPT !.pc = next]
  BY <1>2 DEF JournalRows
<1>4. cmd'[c] \in Journal!Invocation
  BY <1>1, <1>3 DEF Journal!Invocation
<1>5. cmd'[c].pc = next /\ cmd'[c].key = cmd[c].key /\ cmd'[c].scope = cmd[c].scope
  BY <1>1, <1>3 DEF Journal!Invocation
<1>6. \A d \in Commands : d # c => cmd'[d] = cmd[d]
  BY <1>2 DEF JournalRows
<1>7. cmd' \in [Commands -> Journal!Invocation \cup {Journal!Idle}]
  <2>1. cmd' = [d \in Commands |-> IF d = c THEN cmd'[c] ELSE cmd[d]]
    BY <1>2, <1>6 DEF JournalRows
  <2>2. \A d \in Commands : cmd'[d] \in Journal!Invocation \cup {Journal!Idle}
    BY <1>4, <1>6 DEF JournalRows
  <2> QED
    BY <2>1, <2>2
<1> QED
  BY <1>5, <1>6, <1>7

(* A command that ends gives its lock back and leaves its request alone.   *)
LEMMA ExitRow ==
  ASSUME JournalRows, NEW c \in Commands, Journal!Exit(c)
  PROVE  /\ cmd' \in [Commands -> Journal!Invocation \cup {Journal!Idle}]
         /\ \A d \in Commands : d # c => cmd'[d] = cmd[d]
         /\ cmd'[c].pc = "idle"
         /\ lock' \in [Journal!Scopes -> Commands \cup {None}]
         /\ \A s \in Journal!Scopes : lock[s] # c => lock'[s] = lock[s]
         /\ requests' \subseteq Journal!Request
         /\ \A q \in requests' : q.from # None => q \in requests /\ q.from # c
         /\ \A q \in requests' : \E r \in requests : q.key = r.key /\ q.scope = r.scope
<1>1. /\ cmd' = [cmd EXCEPT ![c] = Journal!Idle]
      /\ lock' = [s \in Journal!Scopes |-> IF lock[s] = c THEN None ELSE lock[s]]
      /\ requests' = {IF r.from = c THEN [r EXCEPT !.from = None] ELSE r : r \in requests}
  BY DEF Journal!Exit
<1>2. /\ cmd' \in [Commands -> Journal!Invocation \cup {Journal!Idle}]
      /\ \A d \in Commands : d # c => cmd'[d] = cmd[d]
      /\ cmd'[c].pc = "idle"
  BY <1>1 DEF JournalRows, Journal!Idle
<1>3. /\ lock' \in [Journal!Scopes -> Commands \cup {None}]
      /\ \A s \in Journal!Scopes : lock[s] # c => lock'[s] = lock[s]
  BY <1>1 DEF JournalRows
<1>4. ASSUME NEW q \in requests'
      PROVE  /\ q \in Journal!Request
             /\ q.from # None => q \in requests /\ q.from # c
             /\ \E r \in requests : q.key = r.key /\ q.scope = r.scope
  <2>1. PICK r \in requests : q = IF r.from = c THEN [r EXCEPT !.from = None] ELSE r
    BY <1>1
  <2>2. r \in Journal!Request
    BY DEF JournalRows
  <2>3. CASE r.from = c
    <3>1. q = [r EXCEPT !.from = None]
      BY <2>1, <2>3
    <3> QED
      BY <2>2, <3>1 DEF Journal!Request
  <2>4. CASE r.from # c
    BY <2>1, <2>2, <2>4
  <2> QED
    BY <2>3, <2>4
<1> QED
  BY <1>2, <1>3, <1>4

(* A command ends, whatever else the step does to the journal and to the   *)
(* answers: what it leaves to the others is what matters.                  *)
LEMMA ExitKeeps ==
  ASSUME JournalInv, NEW c \in Commands, Journal!Exit(c),
         UNCHANGED runs, reported \subseteq reported',
         reported' \subseteq Flush, IsFiniteSet(reported'),
         used' \subseteq RandomKeys, journal' \subseteq Journal!Entry,
         EntriesApart',
         \A e \in journal \ journal' : Answered(e.key, e.scope),
         \A d \in Commands : d # c /\ Drawn(d) => Journal!Pending(d) \in journal'
  PROVE  JournalInv'
<1>1. JournalRows'
  BY ExitRow DEF JournalInv, JournalRows
<1>2. LockHeld' /\ EntryFound' /\ Flushed'
  <2>1. ASSUME NEW d \in Commands
        PROVE  /\ cmd'[d].pc = "load" \/ Drawn(d)' => lock'[cmd'[d].scope] = d
               /\ Drawn(d)' => cmd'[d].key \in RandomKeys /\ Journal!Pending(d)' \in journal'
               /\ cmd'[d].pc = "clear" => Answered(cmd[d].key, cmd[d].scope)'
    <3>1. CASE d = c
      BY <3>1, ExitRow DEF JournalInv, Drawn, Busy
    <3>2. CASE d # c
      <4>1. cmd'[d] = cmd[d]
        BY <3>2, ExitRow DEF JournalInv
      <4>2. Drawn(d)' = Drawn(d) /\ Journal!Pending(d)' = Journal!Pending(d)
        BY <4>1 DEF Drawn, Busy, Journal!Implicit, Journal!Pending
      <4>3. cmd[d].pc = "load" \/ Drawn(d) => lock'[cmd[d].scope] = d
        <5>1. SUFFICES ASSUME cmd[d].pc = "load" \/ Drawn(d) PROVE lock'[cmd[d].scope] = d
          OBVIOUS
        <5>2. cmd[d].scope \in Journal!Scopes
          BY <5>1 DEF JournalInv, JournalRows, Journal!Invocation, Journal!Idle, Drawn, Busy
        <5>3. lock[cmd[d].scope] = d
          BY <5>1 DEF JournalInv, LockHeld
        <5> QED
          BY <3>2, <5>2, <5>3, ExitRow DEF JournalInv
      <4>4. cmd[d].pc = "clear" => Answered(cmd[d].key, cmd[d].scope)'
        BY <4>1 DEF JournalInv, Flushed, Answered
      <4> QED
        BY <3>2, <4>1, <4>2, <4>3, <4>4 DEF JournalInv, EntryFound
    <3> QED
      BY <3>1, <3>2
  <2> QED
    BY <2>1 DEF LockHeld, EntryFound, Flushed
<1>3. AnswerAwaited'
  BY ExitRow DEF JournalInv, JournalRows, Journal!Request, AnswerAwaited
<1>4. KeyAccounted'
  <2>1. SUFFICES ASSUME NEW x \in requests' \cup runs', x.key \in RandomKeys
                 PROVE  \/ Answered(x.key, x.scope)'
                        \/ [scope |-> x.scope, key |-> x.key] \in journal'
    BY DEF KeyAccounted
  <2>2. PICK y \in requests \cup runs : x.key = y.key /\ x.scope = y.scope
    BY ExitRow DEF JournalInv
  <2>3. Answered(x.key, x.scope) \/ [scope |-> x.scope, key |-> x.key] \in journal
    BY <2>1, <2>2 DEF JournalInv, KeyAccounted
  <2>4. [scope |-> x.scope, key |-> x.key] \in journal \ journal' => Answered(x.key, x.scope)
    OBVIOUS
  <2> QED
    BY <2>3, <2>4 DEF Answered
<1>5. OneRunPerKey'
  BY DEF JournalInv, OneRunPerKey
<1> QED
  BY <1>1, <1>2, <1>3, <1>4, <1>5 DEF JournalInv

(* A command ends and the journal stays.                                   *)
LEMMA ExitOnly ==
  ASSUME JournalInv, NEW c \in Commands, Journal!Exit(c), UNCHANGED <<journal, used, runs, reported>>
  PROVE  JournalInv'
<1>1. EntriesApart'
  BY DEF JournalInv, EntriesApart
<1> QED
  BY <1>1, ExitKeeps DEF JournalInv, JournalRows, EntryFound

(* A command goes on, and its key, its scope and the journal stay.         *)
LEMMA GoKeeps ==
  ASSUME JournalInv, NEW c \in Commands,
         NEW next \in {"send", "sent", "answered", "waiting", "print", "clear"},
         Busy(c), Journal!Go(c, next),
         UNCHANGED <<lock, journal, used, runs>>,
         requests' \subseteq Journal!Request,
         \A q \in requests' : q \in requests \/ (q.key = cmd[c].key /\ q.scope = cmd[c].scope),
         AnswerAwaited',
         reported \subseteq reported', reported' \subseteq Flush, IsFiniteSet(reported'),
         next = "clear" => Answered(cmd[c].key, cmd[c].scope)'
  PROVE  JournalInv'
<1>1. /\ cmd' \in [Commands -> Journal!Invocation \cup {Journal!Idle}]
      /\ \A d \in Commands : d # c => cmd'[d] = cmd[d]
      /\ cmd'[c].pc = next /\ cmd'[c].key = cmd[c].key /\ cmd'[c].scope = cmd[c].scope
  BY GoRow DEF JournalInv, Busy
<1>2. \A d \in Commands : cmd'[d].key = cmd[d].key /\ cmd'[d].scope = cmd[d].scope
  BY <1>1
<1>3. \A d \in Commands : Journal!Pending(d)' = Journal!Pending(d) /\ (Drawn(d)' => Drawn(d))
  BY <1>1, <1>2 DEF Drawn, Busy, Journal!Implicit, Journal!Pending
<1>4. JournalRows'
  BY <1>1 DEF JournalInv, JournalRows
<1>5. LockHeld'
  BY <1>1, <1>2, <1>3 DEF JournalInv, LockHeld
<1>6. EntryFound' /\ EntriesApart'
  BY <1>2, <1>3 DEF JournalInv, EntryFound, EntriesApart
<1>7. Flushed'
  BY <1>1, <1>2 DEF JournalInv, Flushed, Answered
<1>8. KeyAccounted'
  <2>1. SUFFICES ASSUME NEW x \in requests' \cup runs', x.key \in RandomKeys
                 PROVE  \/ Answered(x.key, x.scope)'
                        \/ [scope |-> x.scope, key |-> x.key] \in journal'
    BY DEF KeyAccounted
  <2>2. CASE x \in requests \cup runs
    BY <2>1, <2>2 DEF JournalInv, KeyAccounted, Answered
  <2>3. CASE x.key = cmd[c].key /\ x.scope = cmd[c].scope
    BY <2>1, <2>3, KeysAssumption DEF JournalInv, EntryFound, Drawn, Journal!Implicit, Journal!Pending
  <2> QED
    BY <2>2, <2>3
<1>9. OneRunPerKey'
  BY DEF JournalInv, OneRunPerKey
<1> QED
  BY <1>4, <1>5, <1>6, <1>7, <1>8, <1>9 DEF JournalInv

(* Two requests of one command are one.                                    *)
LEMMA OneAwaited ==
  ASSUME JournalInv, NEW r \in requests, NEW q \in requests, r.from # None, q.from = r.from
  PROVE  q = r
<1>1. q \in Journal!Request /\ r \in Journal!Request
  BY DEF JournalInv, JournalRows
<1>2. q.key = r.key /\ q.scope = r.scope
  BY DEF JournalInv, AnswerAwaited
<1> QED
  BY <1>1, <1>2 DEF Journal!Request

(* An answer: the command goes on with it, has ended before, or ends       *)
(* without it.                                                             *)
LEMMA ReplyKeeps ==
  ASSUME JournalInv, NEW r \in requests, NEW result \in Journal!Results, Journal!Reply(r, result),
         UNCHANGED <<journal, used, reported>>,
         runs' \subseteq Journal!Run, IsFiniteSet(runs'), OneRunPerKey',
         \A x \in runs' : \E y \in requests \cup runs : x.key = y.key /\ x.scope = y.scope
  PROVE  JournalInv'
<1> DEFINE c == r.from
<1>1. requests' = requests \ {r} /\ requests' \subseteq Journal!Request
  BY DEF Journal!Reply, Journal!Take, JournalInv, JournalRows
<1>2. KeyAccounted' /\ EntriesApart'
  BY <1>1 DEF JournalInv, KeyAccounted, Answered, EntriesApart
<1>3. CASE UNCHANGED <<cmd, lock>> /\ c = None
  <2>1. JournalRows' /\ LockHeld' /\ EntryFound' /\ Flushed' /\ AnswerAwaited'
    BY <1>1, <1>3 DEF JournalInv, JournalRows, LockHeld, EntryFound, Flushed, Answered,
          AnswerAwaited, Drawn, Busy, Journal!Implicit, Journal!Pending
  <2> QED
    BY <1>2, <2>1 DEF JournalInv
<1>4. ASSUME c # None
      PROVE  /\ c \in Commands /\ cmd[c].pc = "sent"
             /\ \A q \in requests' : q.from # c
             /\ cmd[c] \in Journal!Invocation
  <2>1. r \in Journal!Request
    BY DEF JournalInv, JournalRows
  <2>2. c \in Commands
    BY <1>4, <2>1 DEF Journal!Request
  <2>3. cmd[c].pc = "sent"
    BY <1>4 DEF JournalInv, AnswerAwaited
  <2>4. cmd[c] \in Journal!Invocation
    BY <2>2, <2>3 DEF JournalInv, JournalRows, Journal!Idle
  <2> QED
    BY <1>1, <1>4, <2>2, <2>3, <2>4, OneAwaited
<1>5. CASE /\ c # None /\ UNCHANGED lock
           /\ cmd' = [cmd EXCEPT ![c].pc = "answered", ![c].result = result]
  <2>1. /\ \A d \in Commands : d # c => cmd'[d] = cmd[d]
        /\ cmd'[c] = [cmd[c] EXCEPT !.pc = "answered", !.result = result]
    BY <1>4, <1>5 DEF JournalInv, JournalRows
  <2>2. /\ cmd'[c] \in Journal!Invocation
        /\ cmd'[c].pc = "answered" /\ cmd'[c].key = cmd[c].key /\ cmd'[c].scope = cmd[c].scope
    <3>0. cmd[c] \in Journal!Invocation
      BY <1>4, <1>5
    <3>1. cmd'[c] = [pc |-> "answered", scope |-> cmd[c].scope, key |-> cmd[c].key,
                     wait |-> cmd[c].wait, result |-> result]
      BY <3>0, <2>1 DEF Journal!Invocation
    <3> QED
      BY <3>0, <3>1 DEF Journal!Invocation
  <2>3. cmd' \in [Commands -> Journal!Invocation \cup {Journal!Idle}]
    <3>1. cmd' = [d \in Commands |-> IF d = c THEN cmd'[c] ELSE cmd[d]]
      BY <1>4, <1>5, <2>1 DEF JournalInv, JournalRows
    <3>2. \A d \in Commands : cmd'[d] \in Journal!Invocation \cup {Journal!Idle}
      BY <2>1, <2>2 DEF JournalInv, JournalRows
    <3> QED
      BY <3>1, <3>2
  <2>4. \A d \in Commands : cmd'[d].key = cmd[d].key /\ cmd'[d].scope = cmd[d].scope
    BY <2>1, <2>2
  <2>5. \A d \in Commands : Journal!Pending(d)' = Journal!Pending(d) /\ (Drawn(d)' => Drawn(d))
    BY <1>4, <1>5, <2>1, <2>2, <2>4 DEF Drawn, Busy, Journal!Implicit, Journal!Pending
  <2>6. JournalRows'
    BY <1>1, <1>5, <2>3 DEF JournalInv, JournalRows
  <2>7. LockHeld'
    BY <1>5, <2>1, <2>2, <2>4, <2>5 DEF JournalInv, LockHeld
  <2>8. EntryFound' /\ Flushed'
    <3>1. EntryFound'
      BY <2>4, <2>5 DEF JournalInv, EntryFound
    <3>2. ASSUME NEW d \in Commands, cmd'[d].pc = "clear"
          PROVE  Answered(cmd[d].key, cmd[d].scope)'
      <4>1. d # c /\ cmd'[d] = cmd[d]
        BY <2>1, <2>2, <3>2
      <4>2. Answered(cmd[d].key, cmd[d].scope)
        BY <3>2, <4>1 DEF JournalInv, Flushed
      <4> QED
        BY <4>1, <4>2 DEF Answered
    <3> QED
      BY <3>1, <3>2 DEF Flushed
  <2>9. AnswerAwaited'
    BY <1>1, <1>4, <1>5, <2>1 DEF JournalInv, JournalRows, Journal!Request, AnswerAwaited
  <2> QED
    BY <1>2, <2>6, <2>7, <2>8, <2>9 DEF JournalInv
<1>6. CASE /\ c # None /\ cmd' = [cmd EXCEPT ![c] = Journal!Idle]
           /\ lock' = [s \in Journal!Scopes |-> IF lock[s] = c THEN None ELSE lock[s]]
  <2>1. /\ \A d \in Commands : d # c => cmd'[d] = cmd[d]
        /\ cmd'[c].pc = "idle"
        /\ cmd' \in [Commands -> Journal!Invocation \cup {Journal!Idle}]
    BY <1>4, <1>6 DEF JournalInv, JournalRows, Journal!Idle
  <2>2. lock' \in [Journal!Scopes -> Commands \cup {None}]
    BY <1>6 DEF JournalInv, JournalRows
  <2>3. JournalRows'
    BY <1>1, <2>1, <2>2 DEF JournalInv, JournalRows
  <2>4. ASSUME NEW d \in Commands
        PROVE  /\ cmd'[d].pc = "load" \/ Drawn(d)' => lock'[cmd'[d].scope] = d
               /\ Drawn(d)' => cmd'[d].key \in RandomKeys /\ Journal!Pending(d)' \in journal'
               /\ cmd'[d].pc = "clear" => Answered(cmd[d].key, cmd[d].scope)'
    <3>1. CASE d = c
      BY <3>1, <2>1 DEF Drawn, Busy
    <3>2. CASE d # c
      <4>1. cmd'[d] = cmd[d]
        BY <3>2, <2>1
      <4>2. Drawn(d)' = Drawn(d) /\ Journal!Pending(d)' = Journal!Pending(d)
        BY <4>1 DEF Drawn, Busy, Journal!Implicit, Journal!Pending
      <4>3. cmd[d].pc = "load" \/ Drawn(d) => lock'[cmd[d].scope] = d
        <5>1. SUFFICES ASSUME cmd[d].pc = "load" \/ Drawn(d) PROVE lock'[cmd[d].scope] = d
          OBVIOUS
        <5>2. cmd[d].scope \in Journal!Scopes
          BY <5>1 DEF JournalInv, JournalRows, Journal!Invocation, Journal!Idle, Drawn, Busy
        <5>3. lock[cmd[d].scope] = d
          BY <5>1 DEF JournalInv, LockHeld
        <5> QED
          BY <3>2, <5>2, <5>3, <1>6
      <4>4. cmd[d].pc = "clear" => Answered(cmd[d].key, cmd[d].scope)'
        BY <4>1 DEF JournalInv, Flushed, Answered
      <4> QED
        BY <4>1, <4>2, <4>3, <4>4 DEF JournalInv, EntryFound
    <3> QED
      BY <3>1, <3>2
  <2>5. LockHeld' /\ EntryFound' /\ Flushed'
    BY <2>1, <2>4 DEF LockHeld, EntryFound, Flushed
  <2>6. AnswerAwaited'
    BY <1>1, <1>4, <1>6, <2>1 DEF JournalInv, JournalRows, Journal!Request, AnswerAwaited
  <2> QED
    BY <1>2, <2>3, <2>5, <2>6 DEF JournalInv
<1> QED
  BY <1>3, <1>5, <1>6 DEF Journal!Reply

(* A command is started: it has no lock, no entry and no request yet.      *)
LEMMA StartKeeps ==
  ASSUME JournalInv, NEW c \in Commands, NEW s \in Journal!Scopes,
         NEW k \in ExplicitKeys \cup {None}, NEW w \in BOOLEAN, Journal!Start(c, s, k, w)
  PROVE  JournalInv'
<1>1. /\ cmd[c].pc = "idle"
      /\ UNCHANGED <<lock, journal, used, requests, runs, reported>>
      /\ cmd' = [cmd EXCEPT ![c] = [pc |-> IF k = None THEN "lock" ELSE "send",
                                    scope |-> s, key |-> k, wait |-> w, result |-> None]]
  BY DEF Journal!Start, Journal!disk, Journal!server
<1>2. PICK next \in {"lock", "send"} :
        /\ next = "send" => k \in ExplicitKeys
        /\ cmd' = [cmd EXCEPT ![c] = [pc |-> next, scope |-> s, key |-> k, wait |-> w, result |-> None]]
  BY <1>1
<1>3. /\ \A d \in Commands : d # c => cmd'[d] = cmd[d]
      /\ cmd'[c] = [pc |-> next, scope |-> s, key |-> k, wait |-> w, result |-> None]
  BY <1>2 DEF JournalInv, JournalRows
<1>4. cmd'[c] \in Journal!Invocation /\ cmd'[c].pc = next /\ cmd'[c].key = k
  BY <1>3 DEF Journal!Invocation, Journal!Keys
<1>5. JournalRows'
  <2>1. cmd' = [d \in Commands |-> IF d = c THEN cmd'[c] ELSE cmd[d]]
    BY <1>2, <1>3 DEF JournalInv, JournalRows
  <2>2. \A d \in Commands : cmd'[d] \in Journal!Invocation \cup {Journal!Idle}
    BY <1>3, <1>4 DEF JournalInv, JournalRows
  <2> QED
    BY <1>1, <2>1, <2>2 DEF JournalInv, JournalRows
<1>6. cmd'[c].pc # "load" /\ cmd'[c].pc # "clear" /\ ~Drawn(c)'
  BY <1>2, <1>4 DEF Drawn, Busy, Journal!Implicit
<1>7. \A d \in Commands : d # c => Drawn(d)' = Drawn(d) /\ Journal!Pending(d)' = Journal!Pending(d)
  BY <1>3 DEF Drawn, Busy, Journal!Implicit, Journal!Pending
<1>8. LockHeld' /\ EntryFound'
  BY <1>1, <1>3, <1>6, <1>7 DEF JournalInv, LockHeld, EntryFound
<1>9. Flushed' /\ AnswerAwaited'
  BY <1>1, <1>3, <1>6 DEF JournalInv, JournalRows, Journal!Request, Flushed, Answered, AnswerAwaited
<1>10. KeyAccounted' /\ EntriesApart' /\ OneRunPerKey'
  BY <1>1 DEF JournalInv, KeyAccounted, Answered, EntriesApart, OneRunPerKey
<1> QED
  BY <1>5, <1>8, <1>9, <1>10 DEF JournalInv

(* The lock of a scope is taken by one command.                            *)
LEMMA LockKeeps ==
  ASSUME JournalInv, NEW c \in Commands, Journal!LockScope(c)
  PROVE  JournalInv'
<1>1. CASE Journal!Exit(c)
  BY <1>1, ExitOnly DEF Journal!LockScope, Journal!disk
<1>2. CASE /\ lock[cmd[c].scope] = None /\ lock' = [lock EXCEPT ![cmd[c].scope] = c]
           /\ Journal!Go(c, "load") /\ UNCHANGED requests
  <2>1. cmd[c].pc = "lock" /\ UNCHANGED <<journal, used, requests, runs, reported>>
    BY <1>2 DEF Journal!LockScope, Journal!disk
  <2>2. /\ cmd' \in [Commands -> Journal!Invocation \cup {Journal!Idle}]
        /\ \A d \in Commands : d # c => cmd'[d] = cmd[d]
        /\ cmd'[c].pc = "load" /\ cmd'[c].key = cmd[c].key /\ cmd'[c].scope = cmd[c].scope
    BY <1>2, <2>1, GoRow DEF JournalInv
  <2>3. cmd[c].scope \in Journal!Scopes
    BY <2>1 DEF JournalInv, JournalRows, Journal!Invocation, Journal!Idle
  <2>4. \A d \in Commands : d # c => Drawn(d)' = Drawn(d) /\ Journal!Pending(d)' = Journal!Pending(d)
    BY <2>2 DEF Drawn, Busy, Journal!Implicit, Journal!Pending
  <2>5. ~Drawn(c)'
    BY <2>2 DEF Drawn, Busy
  <2>6. JournalRows'
    BY <1>2, <2>1, <2>2, <2>3 DEF JournalInv, JournalRows
  <2>7. LockHeld'
    <3>1. SUFFICES ASSUME NEW d \in Commands, cmd'[d].pc = "load" \/ Drawn(d)'
                   PROVE  lock'[cmd'[d].scope] = d
      BY DEF LockHeld
    <3>2. CASE d = c
      BY <1>2, <2>2, <2>3, <3>2 DEF JournalInv, JournalRows
    <3>3. CASE d # c
      <4>1. cmd'[d] = cmd[d] /\ lock[cmd[d].scope] = d
        BY <2>2, <2>4, <3>1, <3>3 DEF JournalInv, LockHeld
      <4>2. cmd[d].scope # cmd[c].scope
        BY <1>2, <4>1, CommandsAssumption
      <4>3. cmd[d].scope \in Journal!Scopes
        BY <3>1, <4>1 DEF JournalInv, JournalRows, Journal!Invocation, Journal!Idle, Drawn, Busy
      <4> QED
        BY <1>2, <4>1, <4>2, <4>3 DEF JournalInv, JournalRows
    <3> QED
      BY <3>2, <3>3
  <2>8. EntryFound'
    BY <2>1, <2>2, <2>4, <2>5 DEF JournalInv, EntryFound
  <2>9. Flushed' /\ AnswerAwaited'
    BY <2>1, <2>2 DEF JournalInv, JournalRows, Journal!Request, Flushed, Answered, AnswerAwaited
  <2>10. KeyAccounted' /\ EntriesApart' /\ OneRunPerKey'
    BY <2>1 DEF JournalInv, KeyAccounted, Answered, EntriesApart, OneRunPerKey
  <2> QED
    BY <2>6, <2>7, <2>8, <2>9, <2>10 DEF JournalInv
<1> QED
  BY <1>1, <1>2 DEF Journal!LockScope

LEMMA KeyedRow ==
  ASSUME NEW row \in Journal!Invocation, NEW k \in RandomKeys,
         NEW to, to = [row EXCEPT !.pc = "send", !.key = k]
  PROVE  to = [pc |-> "send", scope |-> row.scope, key |-> k, wait |-> row.wait, result |-> row.result]
<1>1. to = [f \in {"pc", "scope", "key", "wait", "result"} |->
              IF f = "pc" THEN "send" ELSE IF f = "key" THEN k ELSE row[f]]
  BY DEF Journal!Invocation
<1> QED
  BY <1>1

(* The holder of the lock takes a key: the one its scope has, or a new one *)
(* that is written before it is used.                                      *)
LEMMA TakeKeeps ==
  ASSUME JournalInv, NEW c \in Commands, cmd[c].pc = "load", NEW k \in RandomKeys,
         cmd' = [cmd EXCEPT ![c].pc = "send", ![c].key = k],
         UNCHANGED <<lock, requests, runs, reported>>,
         journal \subseteq journal', journal' \subseteq Journal!Entry, used' \subseteq RandomKeys,
         EntriesApart', [scope |-> cmd[c].scope, key |-> k] \in journal'
  PROVE  JournalInv'
<1>1. cmd[c] \in Journal!Invocation
  BY DEF JournalInv, JournalRows, Journal!Idle
<1>2. /\ \A d \in Commands : d # c => cmd'[d] = cmd[d]
      /\ cmd'[c] = [cmd[c] EXCEPT !.pc = "send", !.key = k]
  BY DEF JournalInv, JournalRows
<1>3. cmd'[c] = [pc |-> "send", scope |-> cmd[c].scope, key |-> k,
                 wait |-> cmd[c].wait, result |-> cmd[c].result]
  BY <1>1, <1>2, KeyedRow
<1>4. /\ cmd'[c] \in Journal!Invocation
      /\ cmd'[c].pc = "send" /\ cmd'[c].key = k /\ cmd'[c].scope = cmd[c].scope
  BY <1>1, <1>3 DEF Journal!Invocation, Journal!Keys
<1>5. JournalRows'
  <2>1. cmd' = [d \in Commands |-> IF d = c THEN cmd'[c] ELSE cmd[d]]
    BY <1>2 DEF JournalInv, JournalRows
  <2>2. \A d \in Commands : cmd'[d] \in Journal!Invocation \cup {Journal!Idle}
    BY <1>2, <1>4 DEF JournalInv, JournalRows
  <2> QED
    BY <2>1, <2>2 DEF JournalInv, JournalRows
<1>6. \A d \in Commands : d # c => Drawn(d)' = Drawn(d) /\ Journal!Pending(d)' = Journal!Pending(d)
  BY <1>2 DEF Drawn, Busy, Journal!Implicit, Journal!Pending
<1>7. Journal!Pending(c)' = [scope |-> cmd[c].scope, key |-> k]
  BY <1>4 DEF Journal!Pending
<1>8. LockHeld'
  <2>1. lock[cmd[c].scope] = c
    BY DEF JournalInv, LockHeld
  <2>2. lock'[cmd'[c].scope] = c
    BY <1>4, <2>1
  <2> QED
    BY <1>2, <1>6, <2>2 DEF JournalInv, LockHeld
<1>9. EntryFound'
  BY <1>2, <1>4, <1>6, <1>7 DEF JournalInv, EntryFound
<1>10. Flushed' /\ AnswerAwaited'
  BY <1>2, <1>4 DEF JournalInv, JournalRows, Journal!Request, Flushed, Answered, AnswerAwaited
<1>11. KeyAccounted' /\ OneRunPerKey'
  BY DEF JournalInv, KeyAccounted, Answered, OneRunPerKey
<1> QED
  BY <1>5, <1>8, <1>9, <1>10, <1>11 DEF JournalInv

LEMMA ReuseKeeps ==
  ASSUME JournalInv, NEW c \in Commands, Journal!ReusePending(c)
  PROVE  JournalInv'
<1>1. PICK e \in journal : e.scope = cmd[c].scope
                           /\ cmd' = [cmd EXCEPT ![c].pc = "send", ![c].key = e.key]
  BY DEF Journal!ReusePending
<1>2. e.key \in RandomKeys /\ e = [scope |-> e.scope, key |-> e.key]
  BY DEF JournalInv, JournalRows, Journal!Entry
<1>3. UNCHANGED <<lock, requests, runs, reported, journal, used>> /\ cmd[c].pc = "load"
  BY DEF Journal!ReusePending, Journal!disk, Journal!server
<1>4. EntriesApart'
  BY <1>3 DEF JournalInv, EntriesApart
<1> QED
  BY <1>1, <1>2, <1>3, <1>4, TakeKeeps DEF JournalInv, JournalRows

LEMMA CreateKeeps ==
  ASSUME JournalInv, NEW c \in Commands, Journal!CreatePending(c)
  PROVE  JournalInv'
<1>1. PICK k \in RandomKeys \ used :
        LET entries == journal \cup {[scope |-> cmd[c].scope, key |-> k]}
        IN  /\ used' = used \cup {k}
            /\ \/ /\ Journal!WriteSucceeds(entries)
                  /\ cmd' = [cmd EXCEPT ![c].pc = "send", ![c].key = k]
                  /\ UNCHANGED <<lock, requests>>
               \/ Journal!WriteFails(entries) /\ Journal!Exit(c)
  BY DEF Journal!CreatePending
<1> DEFINE entry == [scope |-> cmd[c].scope, key |-> k]
<1>2. /\ cmd[c].pc = "load" /\ UNCHANGED <<runs, reported>>
      /\ \A e \in journal : e.scope # cmd[c].scope
  BY DEF Journal!CreatePending
<1>3. entry \in Journal!Entry /\ entry.scope = cmd[c].scope /\ entry.key = k
  BY <1>2 DEF JournalInv, JournalRows, Journal!Invocation, Journal!Idle, Journal!Entry
<1>4. used' = used \cup {k} /\ journal' \in {journal, journal \cup {entry}}
  BY <1>1 DEF Journal!WriteSucceeds, Journal!WriteFails
<1>5. EntriesApart'
  <2>1. \A e \in journal : e.key \in used /\ e.key # k /\ e.scope # entry.scope
    BY <1>2, <1>3 DEF JournalInv, EntriesApart
  <2> QED
    BY <1>3, <1>4, <2>1 DEF JournalInv, EntriesApart
<1>6. journal \subseteq journal' /\ journal' \subseteq Journal!Entry /\ used' \subseteq RandomKeys
  BY <1>3, <1>4 DEF JournalInv, JournalRows
<1>7. CASE Journal!Exit(c)
  BY <1>2, <1>5, <1>6, <1>7, ExitKeeps DEF JournalInv, JournalRows, EntryFound
<1>8. CASE /\ Journal!WriteSucceeds(journal \cup {entry})
           /\ cmd' = [cmd EXCEPT ![c].pc = "send", ![c].key = k]
           /\ UNCHANGED <<lock, requests>>
  BY <1>2, <1>5, <1>6, <1>8, TakeKeeps DEF Journal!WriteSucceeds
<1> QED
  BY <1>1, <1>7, <1>8

LEMMA SendKeeps ==
  ASSUME JournalInv, NEW c \in Commands, Journal!Send(c)
  PROVE  JournalInv'
<1> DEFINE sent == [from |-> c, key |-> cmd[c].key, scope |-> cmd[c].scope]
<1>1. /\ cmd[c].pc = "send" /\ Busy(c)
      /\ requests' = requests \cup {sent}
      /\ Journal!Go(c, "sent")
      /\ UNCHANGED <<lock, journal, used, runs, reported>>
  BY DEF Journal!Send, Journal!disk, Busy
<1>2. cmd[c] \in Journal!Invocation
  BY <1>1 DEF JournalInv, JournalRows, Journal!Idle
<1>3. cmd[c].key \in Journal!Keys /\ cmd[c].scope \in Journal!Scopes
  BY <1>1, <1>2 DEF JournalInv, EntryFound, Drawn, Journal!Implicit, Journal!Keys, Journal!Invocation
<1>4. sent \in Journal!Request
  BY <1>3 DEF Journal!Request
<1>5. /\ cmd'[c].pc = "sent" /\ cmd'[c].key = cmd[c].key /\ cmd'[c].scope = cmd[c].scope
      /\ \A d \in Commands : d # c => cmd'[d] = cmd[d]
  BY <1>1, GoRow DEF JournalInv
<1>6. AnswerAwaited'
  <2>1. SUFFICES ASSUME NEW r \in requests', r.from # None
                 PROVE  cmd'[r.from].pc = "sent" /\ cmd'[r.from].key = r.key
                        /\ cmd'[r.from].scope = r.scope
    BY DEF AnswerAwaited
  <2>2. CASE r \in requests
    BY <1>1, <1>5, <2>1, <2>2 DEF JournalInv, JournalRows, Journal!Request, AnswerAwaited
  <2>3. CASE r = sent
    BY <1>5, <2>3
  <2> QED
    BY <1>1, <2>2, <2>3
<1>7. requests' \subseteq Journal!Request
  BY <1>1, <1>4 DEF JournalInv, JournalRows
<1>8. \A q \in requests' : q \in requests \/ (q.key = cmd[c].key /\ q.scope = cmd[c].scope)
  BY <1>1
<1> QED
  BY <1>1, <1>6, <1>7, <1>8, GoKeeps DEF JournalInv, JournalRows

(* A command that only moves on.                                           *)
LEMMA MoveKeeps ==
  ASSUME JournalInv, NEW c \in Commands, NEW next \in {"waiting", "print"},
         cmd[c].pc \in {"answered", "waiting"}, Journal!Go(c, next),
         UNCHANGED <<lock, journal, used, requests, runs, reported>>
  PROVE  JournalInv'
<1>1. /\ cmd'[c].pc = next /\ \A d \in Commands : d # c => cmd'[d] = cmd[d]
  BY GoRow DEF JournalInv
<1>2. AnswerAwaited'
  BY <1>1 DEF JournalInv, JournalRows, Journal!Request, AnswerAwaited
<1> QED
  BY <1>2, GoKeeps DEF JournalInv, JournalRows, Busy

LEMMA PrintKeeps ==
  ASSUME JournalInv, NEW c \in Commands, Journal!PrintAnswer(c)
  PROVE  JournalInv'
<1>1. cmd[c].pc = "print" /\ UNCHANGED <<journal, used, runs>>
  BY DEF Journal!PrintAnswer, Journal!disk
<1>2. CASE Journal!Exit(c) /\ UNCHANGED reported
  BY <1>1, <1>2, ExitOnly
<1> DEFINE answer == [key |-> cmd[c].key, scope |-> cmd[c].scope, result |-> cmd[c].result]
<1>3. CASE /\ reported' = reported \cup {answer}
           /\ Journal!Go(c, "clear") /\ UNCHANGED <<lock, requests>>
  <2>1. /\ cmd'[c].pc = "clear" /\ cmd'[c].key = cmd[c].key /\ cmd'[c].scope = cmd[c].scope
        /\ \A d \in Commands : d # c => cmd'[d] = cmd[d]
    BY <1>1, <1>3, GoRow DEF JournalInv
  <2>2. AnswerAwaited'
    BY <1>1, <1>3, <2>1 DEF JournalInv, JournalRows, Journal!Request, AnswerAwaited
  <2>3. answer \in Flush
    <3>1. cmd[c].key \in Journal!Keys
      BY <1>1 DEF JournalInv, JournalRows, EntryFound, Drawn, Busy, Journal!Implicit,
                  Journal!Keys, Journal!Invocation, Journal!Idle
    <3>2. cmd[c].scope \in Journal!Scopes
      BY <1>1 DEF JournalInv, JournalRows, Journal!Invocation, Journal!Idle
    <3>3. cmd[c].result \in Journal!Results \cup {None}
      BY <1>1 DEF JournalInv, JournalRows, Journal!Invocation, Journal!Idle
    <3> QED
      BY <3>1, <3>2, <3>3 DEF Flush
  <2>4. reported' \subseteq Flush /\ IsFiniteSet(reported')
    BY <1>3, <2>3, FS_AddElement DEF JournalInv, JournalRows
  <2>5. Answered(cmd[c].key, cmd[c].scope)'
    <3>1. answer \in reported' /\ answer.key = cmd'[c].key /\ answer.scope = cmd'[c].scope
      BY <1>3, <2>1
    <3> QED
      BY <3>1 DEF Answered
  <2> QED
    BY <1>1, <1>3, <2>2, <2>4, <2>5, GoKeeps DEF JournalInv, JournalRows, Busy
<1> QED
  BY <1>2, <1>3 DEF Journal!PrintAnswer

(* The entry goes when its answer was flushed; nobody else works with it.  *)
LEMMA CompleteKeeps ==
  ASSUME JournalInv, NEW c \in Commands, Journal!Complete(c)
  PROVE  JournalInv'
<1>1. /\ cmd[c].pc = "clear" /\ Journal!Exit(c) /\ UNCHANGED <<used, runs, reported>>
      /\ journal' = journal \/ (journal' = journal \ {Journal!Pending(c)} /\ Journal!Implicit(c))
  BY DEF Journal!Complete, Journal!WriteSucceeds, Journal!WriteFails
<1>2. CASE journal' = journal
  BY <1>1, <1>2, ExitOnly
<1>3. CASE journal' = journal \ {Journal!Pending(c)} /\ Journal!Implicit(c)
  <2>1. EntriesApart'
    BY <1>1, <1>3 DEF JournalInv, EntriesApart
  <2>2. \A e \in journal \ journal' : Answered(e.key, e.scope)
    BY <1>1, <1>3 DEF JournalInv, Flushed, Journal!Pending
  <2>3. ASSUME NEW d \in Commands, d # c, Drawn(d)
        PROVE  Journal!Pending(d) \in journal'
    <3>1. Drawn(c)
      BY <1>1, <1>3 DEF Drawn, Busy
    <3>2. cmd[d].scope # cmd[c].scope
      BY <2>3, <3>1 DEF JournalInv, LockHeld
    <3>3. Journal!Pending(d) # Journal!Pending(c)
      BY <3>2 DEF Journal!Pending
    <3> QED
      BY <1>3, <2>3, <3>3 DEF JournalInv, EntryFound
  <2> QED
    BY <1>1, <1>3, <2>1, <2>2, <2>3, ExitKeeps DEF JournalInv, JournalRows
<1> QED
  BY <1>1, <1>2, <1>3

(* The control plane: a key admits once.                                   *)
LEMMA AdmitKeeps ==
  ASSUME JournalInv, NEW r \in requests, Journal!Admit(r)
  PROVE  JournalInv'
<1> DEFINE admitted == [key |-> r.key, scope |-> r.scope, state |-> "active"]
<1>1. /\ runs' = runs \cup {admitted} /\ Journal!Reply(r, "admitted")
      /\ \A x \in runs : x.key # r.key
      /\ UNCHANGED <<journal, used, reported>>
  BY DEF Journal!Admit, Journal!Known, Journal!disk
<1>2. admitted \in Journal!Run
  BY DEF JournalInv, JournalRows, Journal!Request, Journal!Run, Journal!Live
<1>3. runs' \subseteq Journal!Run /\ IsFiniteSet(runs')
  BY <1>1, <1>2, FS_AddElement DEF JournalInv, JournalRows
<1>4. OneRunPerKey'
  BY <1>1 DEF JournalInv, OneRunPerKey
<1>5. \A x \in runs' : \E y \in requests \cup runs : x.key = y.key /\ x.scope = y.scope
  BY <1>1
<1> QED
  BY <1>1, <1>3, <1>4, <1>5, ReplyKeeps DEF Journal!Results

LEMMA AnswerKeeps ==
  ASSUME JournalInv, NEW r \in requests, Journal!Replay(r) \/ Journal!Reject(r)
  PROVE  JournalInv'
<1>1. UNCHANGED <<journal, used, reported, runs>>
  BY DEF Journal!Replay, Journal!Reject, Journal!disk
<1>2. PICK result \in Journal!Results : Journal!Reply(r, result)
  BY DEF Journal!Replay, Journal!Reject, Journal!Results
<1>3. OneRunPerKey'
  BY <1>1 DEF JournalInv, OneRunPerKey
<1> QED
  BY <1>1, <1>2, <1>3, ReplyKeeps DEF JournalInv, JournalRows

LEMMA WorkMovesKeeps ==
  ASSUME JournalInv, Journal!WorkMoves
  PROVE  JournalInv'
<1>1. PICK x \in runs, st \in Journal!Live \cup Journal!Terminal :
        runs' = (runs \ {x}) \cup {[x EXCEPT !.state = st]}
  BY DEF Journal!WorkMoves
<1>2. UNCHANGED <<cmd, lock, journal, used, requests, reported>>
  BY DEF Journal!WorkMoves, Journal!disk
<1> DEFINE moved == [x EXCEPT !.state = st]
<1>3. moved \in Journal!Run /\ moved.key = x.key /\ moved.scope = x.scope
  BY DEF JournalInv, JournalRows, Journal!Run
<1>4. runs' \subseteq Journal!Run /\ IsFiniteSet(runs')
  BY <1>1, <1>3, FS_AddElement, FS_RemoveElement DEF JournalInv, JournalRows
<1>5. OneRunPerKey'
  BY <1>1, <1>3 DEF JournalInv, OneRunPerKey
<1>6. KeyAccounted'
  BY <1>1, <1>2, <1>3 DEF JournalInv, KeyAccounted, Answered
<1>7. JournalRows'
  BY <1>2, <1>4 DEF JournalInv, JournalRows
<1>8. LockHeld' /\ EntryFound' /\ EntriesApart' /\ AnswerAwaited' /\ Flushed'
  BY <1>2 DEF JournalInv, LockHeld, EntryFound, EntriesApart, AnswerAwaited, Flushed, Answered,
              Drawn, Busy, Journal!Implicit, Journal!Pending
<1> QED
  BY <1>5, <1>6, <1>7, <1>8 DEF JournalInv

(* A request whose command is gone may be dropped.                         *)
LEMMA QuietKeeps ==
  ASSUME JournalInv, requests' \subseteq requests,
         UNCHANGED <<cmd, lock, journal, used, runs, reported>>
  PROVE  JournalInv'
<1>1. JournalRows'
  BY DEF JournalInv, JournalRows
<1>2. LockHeld' /\ EntryFound' /\ EntriesApart' /\ Flushed'
  BY DEF JournalInv, LockHeld, EntryFound, EntriesApart, Flushed, Answered,
         Drawn, Busy, Journal!Implicit, Journal!Pending
<1>3. AnswerAwaited' /\ KeyAccounted' /\ OneRunPerKey'
  BY DEF JournalInv, AnswerAwaited, KeyAccounted, Answered, OneRunPerKey
<1> QED
  BY <1>1, <1>2, <1>3 DEF JournalInv

LEMMA JournalStep == JournalInv /\ (Journal!Next \/ UNCHANGED admitting) => JournalInv'
<1> SUFFICES ASSUME JournalInv, Journal!Next \/ UNCHANGED admitting PROVE JournalInv'
  OBVIOUS
<1>1. ASSUME NEW c \in Commands,
             Journal!RefuseFullJournal(c) \/ Journal!GiveUp(c) \/ Journal!Kill(c)
      PROVE  JournalInv'
  BY <1>1, ExitOnly DEF Journal!RefuseFullJournal, Journal!GiveUp, Journal!Kill, Journal!disk
<1>2. ASSUME NEW c \in Commands, Journal!ReadAnswer(c)
      PROVE  JournalInv'
  <2>1. PICK next \in {"waiting", "print"} : Journal!Go(c, next)
    BY <1>2 DEF Journal!ReadAnswer
  <2> QED
    BY <1>2, <2>1, MoveKeeps DEF Journal!ReadAnswer, Journal!disk, Journal!server
<1>3. ASSUME NEW c \in Commands, Journal!Settled(c)
      PROVE  JournalInv'
  BY <1>3, MoveKeeps DEF Journal!Settled, Journal!disk, Journal!server
<1>4. ASSUME NEW r \in requests, Journal!Abandon(r)
      PROVE  JournalInv'
  BY <1>4, QuietKeeps DEF Journal!Abandon, Journal!Take, Journal!disk
<1>5. CASE Journal!ToggleRepository \/ UNCHANGED admitting
  BY <1>5, QuietKeeps DEF Journal!ToggleRepository, Journal!disk, admitting
<1> QED
  BY <1>1, <1>2, <1>3, <1>4, <1>5, StartKeeps, LockKeeps, ReuseKeeps, CreateKeeps, SendKeeps,
     PrintKeeps, CompleteKeeps, AdmitKeeps, AnswerKeeps, WorkMovesKeeps DEF Journal!Next

LEMMA SameCount == \A S : Journal!Cardinality(S) = Cardinality(S)
BY Zenon DEF Journal!Cardinality, Cardinality

(* What the answers do not cover is at most the Run of the one entry.      *)
LEMMA OneRunEach == JournalInv => Journal!OneRunPerAnswer
<1> SUFFICES ASSUME JournalInv, NEW s \in Journal!Scopes
             PROVE  Cardinality({x \in runs : x.scope = s /\ x.key \in RandomKeys})
                      <= Cardinality({p.key : p \in {q \in reported : q.scope = s}}) + 1
  BY SameCount DEF Journal!OneRunPerAnswer
<1> DEFINE mine == {x \in runs : x.scope = s /\ x.key \in RandomKeys}
           answers == {q \in reported : q.scope = s}
           told == {p.key : p \in answers}
<1>1. IsFiniteSet(mine) /\ IsFiniteSet(answers)
  BY FS_Subset DEF JournalInv, JournalRows
<1>2. IsFiniteSet(told)
  <2> DEFINE f == [p \in answers |-> p.key]
  <2>1. f \in Surjection(answers, told)
    BY DEF Surjection
  <2> QED
    BY <1>1, <2>1, FS_Surjection
<1>3. PICK k : \A x \in mine : x.key \in told \cup {k}
  <2>1. CASE \E e \in journal : e.scope = s
    <3>1. PICK e \in journal : e.scope = s
      BY <2>1
    <3>2. ASSUME NEW x \in mine PROVE x.key \in told \cup {e.key}
      <4>1. CASE Answered(x.key, x.scope)
        BY <4>1 DEF Answered
      <4>2. CASE [scope |-> x.scope, key |-> x.key] \in journal
        BY <3>1, <4>2 DEF JournalInv, EntriesApart
      <4> QED
        BY <4>1, <4>2 DEF JournalInv, KeyAccounted
    <3> QED
      BY <3>2
  <2>2. CASE ~\E e \in journal : e.scope = s
    <3>1. ASSUME NEW x \in mine PROVE x.key \in told
      <4>1. Answered(x.key, x.scope)
        BY <2>2 DEF JournalInv, KeyAccounted
      <4> QED
        BY <4>1 DEF Answered
    <3> QED
      BY <3>1
  <2> QED
    BY <2>1, <2>2
<1>4. Cardinality(told) \in Nat /\ Cardinality(mine) \in Nat
  BY <1>1, <1>2, FS_CardinalityType
<1>5. IsFiniteSet(told \cup {k}) /\ Cardinality(told \cup {k}) <= Cardinality(told) + 1
      /\ Cardinality(told \cup {k}) \in Nat
  <2> HIDE DEF told, mine
  <2>1. CASE k \in told
    <3>1. told \cup {k} = told
      BY <2>1
    <3> QED
      BY <1>2, <1>4, <3>1
  <2>2. CASE k \notin told
    BY <1>2, <1>4, <2>2, FS_AddElement
  <2> QED
    BY <2>1, <2>2
<1>6. Cardinality(mine) <= Cardinality(told \cup {k})
  <2> DEFINE f == [x \in mine |-> x.key]
  <2>1. f \in [mine -> told \cup {k}]
    BY <1>3
  <2>2. f \in Injection(mine, told \cup {k})
    BY <2>1 DEF Injection, IsInjective, JournalInv, OneRunPerKey
  <2> HIDE DEF f
  <2> QED
    BY <1>5, <2>2, FS_Injection
<1> QED
  BY <1>4, <1>5, <1>6

LEMMA RepeatFollows == JournalInv => RepeatIsSafe
<1> SUFFICES ASSUME JournalInv PROVE RepeatIsSafe
  OBVIOUS
<1>1. Journal!KeyKept
  BY DEF JournalInv, KeyAccounted, Answered, Journal!KeyKept, Journal!Told
<1>2. Journal!HolderFindsEntry
  BY DEF JournalInv, EntryFound, Drawn, Busy, Journal!HolderFindsEntry
<1> QED
  BY <1>1, <1>2, OneRunEach DEF RepeatIsSafe, Journal!RepeatIsSafe

(* A command that was killed, could not write or lost its answer can be    *)
(* run again: its key is kept until an answer was flushed, the holder of   *)
(* the scope finds it, and no two Runs stand for one answer                *)
(* (admission_journal.go:193, build.go:83).  The machine keeps its power:  *)
(* the configuration AdmissionDurable shows what a loss of it may cost.    *)
THEOREM RepeatIsSafeCorrect == CommandsSpec => []RepeatIsSafe
<1>1. CommandsInit => JournalInv
  BY JournalInit DEF CommandsInit
<1>2. JournalInv /\ [CommandsNext]_commandVars => JournalInv'
  BY EachPartSteps, JournalStep
<1> QED
  BY <1>1, <1>2, RepeatFollows, PTL DEF CommandsSpec, commandVars

-----------------------------------------------------------------------------
(* Backup and restore, when commands for one destination do not overlap.   *)
(* What a loss of power may bring back is at every moment as good as what  *)
(* is there: WasGood holds of every state of the directories in past.      *)

DirectoryRow ==
    [db : Commands \cup {None}, marker : Commands \cup {None},
     staging : [Commands -> SUBSET Publication!Names]]

(* The phases before a command has linked anything.                        *)
Prelink ==
    {"unstarted", "open", "look", "recover", "unlink", "clear", "sync", "fresh", "stage",
     "validate", "syncStaged", "linkDb"}
Reported == {"tidyPublished", "published"}

PublicationRows ==
    /\ db \in Commands \cup {None} /\ marker \in Commands \cup {None}
    /\ staging \in [Commands -> SUBSET Publication!Names]
    /\ Publication!Here \in past /\ past \subseteq DirectoryRow
    /\ solid \subseteq Commands /\ torn \subseteq Commands /\ solid \cap torn = {}
    /\ unremoved \subseteq Commands
    /\ phase \in [Commands -> Publication!Phases] /\ round \in [Commands -> 1 .. 2]
    /\ DOMAIN seen = Commands /\ DOMAIN target = Commands
    /\ DOMAIN identity = Commands /\ DOMAIN opened = Commands

(* The snapshot of a command is that of the database it validated.         *)
Good(c) == opened[c] = identity[c] /\ opened[c] \in Sound

(* Half a publication of c: its files are staged, or a name stayed.        *)
HalfOf(c, d, m, files) ==
    {d, m} = {c, None} /\ (files = Publication!Names \/ c \in unremoved)

WasGood(w) ==
    /\ w.db = w.marker \/ \E c \in Commands : HalfOf(c, w.db, w.marker, w.staging[c])
    /\ \A c \in Commands :
         w.db = c \/ w.marker = c => Good(c) /\ c \in solid /\ phase[c] \notin Prelink
    /\ \A c \in Commands : phase[c] \in Reported => w.db = c /\ w.marker = c

PastGood == \A w \in past : WasGood(w)

UnstartedWhole == \A c \in Commands : phase[c] = "unstarted" => c \notin torn /\ round[c] = 1

OneRuns ==
    \A c, d \in Commands : Publication!Running(c) /\ Publication!Running(d) => c = d

(* What the running command knows of the destination.                      *)
Place(c) ==
    /\ c \notin torn
    /\ IF phase[c] = "open" THEN round[c] = 1 ELSE Good(c)
    /\ phase[c] \in {"recover", "unlink"} =>
         seen[c].db = db /\ seen[c].marker = marker /\ Publication!Partial(db, marker)
    /\ phase[c] = "unlink" => target[c] \in Commands \ {c}
    /\ phase[c] \in {"clear", "sync"} => db = None /\ marker = None /\ target[c] \in Commands \ {c}
    /\ phase[c] \in Publication!Recovering /\ round[c] = 2 =>
         staging[c] = Publication!Names /\ c \in solid
    /\ phase[c] \in {"validate", "syncStaged"} => staging[c] = Publication!Names
    /\ phase[c] = "linkDb" =>
         staging[c] = Publication!Names /\ c \in solid /\ db = None /\ marker = None
    /\ phase[c] \in {"linkMarker", "undoDb"} =>
         /\ staging[c] = Publication!Names /\ c \in solid /\ db = c
         /\ marker = None \/ (phase[c] = "undoDb" /\ marker = c /\ c \in unremoved)
    /\ phase[c] \in {"syncParent", "undoMarker"} =>
         staging[c] = Publication!Names /\ c \in solid /\ db = c /\ marker = c
    /\ phase[c] = "tidy" => c \in unremoved \/ (db # c /\ marker # c)

Places == \A c \in Commands : Publication!Running(c) => Place(c)

PublicationInv ==
    PublicationRows /\ PastGood /\ UnstartedWhole /\ OneRuns /\ Places

LEMMA PublicationInit == Publication!Init => PublicationInv
<1> SUFFICES ASSUME Publication!Init PROVE PublicationInv
  OBVIOUS
<1>1. Publication!Here = [db |-> None, marker |-> None, staging |-> [c \in Commands |-> {}]]
  BY DEF Publication!Init, Publication!Here
<1>2. past = {Publication!Here} /\ Publication!Here \in DirectoryRow
  BY <1>1 DEF Publication!Init, DirectoryRow
<1>3. PublicationRows
  BY <1>2 DEF Publication!Init, PublicationRows, Publication!Phases
<1>4. PastGood
  BY <1>1, <1>2, CommandsAssumption DEF Publication!Init, PastGood, WasGood, Reported
<1>5. UnstartedWhole /\ OneRuns /\ Places
  BY DEF Publication!Init, UnstartedWhole, OneRuns, Places, Publication!Running
<1> QED
  BY <1>3, <1>4, <1>5 DEF PublicationInv

(* A step that leaves the directories alone, or makes them durable.  What  *)
(* it has to establish is what its own command knows next.                 *)
LEMMA PlaceStep ==
  ASSUME PublicationInv, NEW c \in Commands, NEW to \in Publication!Phases,
         \A d \in Commands : d # c => ~Publication!Running(d),
         phase' = [phase EXCEPT ![c] = to],
         phase[c] \in Prelink \/ to \notin Prelink,
         to # "unstarted",
         to \in Reported => phase[c] \in Reported \/ \A w \in past' : w.db = c /\ w.marker = c,
         past' \subseteq past, Publication!Here \in past',
         UNCHANGED <<db, marker, staging, torn, unremoved>>,
         solid \subseteq solid', solid' \subseteq Commands, solid' \cap torn = {},
         round' \in [Commands -> 1 .. 2], \A d \in Commands : d # c => round'[d] = round[d],
         DOMAIN seen' = Commands, DOMAIN target' = Commands,
         DOMAIN identity' = Commands, DOMAIN opened' = Commands,
         \A d \in Commands : d # c \/ phase[c] \notin Prelink =>
            identity'[d] = identity[d] /\ opened'[d] = opened[d],
         Publication!Running(c)' => Place(c)'
  PROVE  PublicationInv'
<1>1. /\ phase'[c] = to /\ \A d \in Commands : d # c => phase'[d] = phase[d]
      /\ phase' \in [Commands -> Publication!Phases]
  BY DEF PublicationInv, PublicationRows
<1>2. Publication!Here' = Publication!Here
  BY DEF Publication!Here
<1>3. PublicationRows'
  BY <1>1, <1>2 DEF PublicationInv, PublicationRows
<1>4. PastGood'
  <2>1. SUFFICES ASSUME NEW w \in past' PROVE WasGood(w)'
    BY DEF PastGood
  <2>2. WasGood(w)
    BY DEF PublicationInv, PastGood
  <2>3. ASSUME NEW d \in Commands, w.db = d \/ w.marker = d
        PROVE  Good(d)' /\ d \in solid' /\ phase'[d] \notin Prelink
    <3>1. Good(d) /\ d \in solid /\ phase[d] \notin Prelink
      BY <2>2, <2>3 DEF WasGood
    <3>2. identity'[d] = identity[d] /\ opened'[d] = opened[d]
      BY <3>1
    <3> QED
      BY <1>1, <3>1, <3>2 DEF Good
  <2>4. ASSUME NEW d \in Commands, phase'[d] \in Reported
        PROVE  w.db = d /\ w.marker = d
    <3>1. CASE phase[d] \in Reported
      BY <2>2, <3>1 DEF WasGood
    <3>2. CASE phase[d] \notin Reported
      BY <1>1, <2>4, <3>2
    <3> QED
      BY <3>1, <3>2
  <2> QED
    BY <2>2, <2>3, <2>4 DEF WasGood, HalfOf
<1>5. \A d \in Commands : d # c => ~Publication!Running(d)'
  BY <1>1 DEF Publication!Running
<1>6. UnstartedWhole' /\ OneRuns' /\ Places'
  BY <1>1, <1>5 DEF PublicationInv, UnstartedWhole, OneRuns, Places
<1> QED
  BY <1>3, <1>4, <1>6 DEF PublicationInv

(* A step that changes the directories: they are as good after it.         *)
LEMMA LinkStep ==
  ASSUME PublicationInv, NEW c \in Commands, NEW to \in Publication!Phases, Publication!Running(c),
         NEW d \in Commands \cup {None}, NEW m \in Commands \cup {None},
         NEW s \in [Commands -> SUBSET Publication!Names], Publication!Linked(d, m, s),
         Publication!Changes(c, to),
         phase[c] \in Prelink \/ to \notin Prelink,
         to # "unstarted", to \in Reported => phase[c] \in Reported,
         d = m \/ \E e \in Commands : HalfOf(e, d, m, s[e]),
         \A e \in Commands : d = e \/ m = e =>
            \/ db = e \/ marker = e
            \/ e = c /\ Good(c) /\ c \in solid /\ to \notin Prelink,
         \/ d = db /\ m = marker
         \/ \A e \in Commands : phase[e] \notin Reported,
         Publication!Running(c)' => Place(c)'
  PROVE  PublicationInv'
<1> DEFINE now == [db |-> d, marker |-> m, staging |-> s]
<1>1. /\ phase' = [phase EXCEPT ![c] = to]
      /\ UNCHANGED <<solid, torn, unremoved, round, identity, opened, seen, target>>
      /\ db' = d /\ marker' = m /\ staging' = s /\ past' = past \cup {now}
  BY DEF Publication!Changes, Publication!Goes, Publication!Linked, Publication!content
<1>2. /\ phase'[c] = to /\ \A e \in Commands : e # c => phase'[e] = phase[e]
      /\ phase' \in [Commands -> Publication!Phases]
  BY <1>1 DEF PublicationInv, PublicationRows
<1>3. Publication!Here' = now /\ now \in DirectoryRow
  BY <1>1 DEF Publication!Here, DirectoryRow
<1>4. PublicationRows'
  BY <1>1, <1>2, <1>3 DEF PublicationInv, PublicationRows
<1>5. \A e \in Commands : phase'[e] \in Reported => phase[e] \in Reported
  BY <1>2
<1>6. \A e \in Commands : phase[e] \notin Prelink => phase'[e] \notin Prelink
  BY <1>2
<1>7. \A e \in Commands : Good(e)' = Good(e)
  BY <1>1 DEF Good
<1>8. ASSUME NEW w \in past PROVE WasGood(w)'
  <2>1. WasGood(w)
    BY DEF PublicationInv, PastGood
  <2> QED
    BY <1>1, <1>5, <1>6, <1>7, <2>1 DEF WasGood, HalfOf
<1>9. WasGood(now)'
  <2>1. WasGood(Publication!Here)
    BY DEF PublicationInv, PublicationRows, PastGood
  <2>2. \A e \in Commands : db = e \/ marker = e => Good(e) /\ e \in solid /\ phase[e] \notin Prelink
    BY <2>1 DEF WasGood, Publication!Here
  <2>3. \A e \in Commands : phase[e] \in Reported => db = e /\ marker = e
    BY <2>1 DEF WasGood, Publication!Here
  <2>4. \A e \in Commands : d = e \/ m = e => Good(e)' /\ e \in solid' /\ phase'[e] \notin Prelink
    BY <1>1, <1>2, <1>6, <1>7, <2>2
  <2>5. \A e \in Commands : phase'[e] \in Reported => d = e /\ m = e
    BY <1>5, <2>3
  <2>6. d = m \/ \E e \in Commands : HalfOf(e, d, m, s[e])'
    BY <1>1 DEF HalfOf
  <2> QED
    BY <2>4, <2>5, <2>6 DEF WasGood
<1>10. PastGood'
  BY <1>1, <1>8, <1>9 DEF PastGood
<1>11. \A e \in Commands : e # c => ~Publication!Running(e)'
  BY <1>2 DEF PublicationInv, OneRuns, Publication!Running
<1>12. UnstartedWhole' /\ OneRuns' /\ Places'
  BY <1>1, <1>2, <1>11 DEF PublicationInv, UnstartedWhole, OneRuns, Places
<1> QED
  BY <1>4, <1>10, <1>12 DEF PublicationInv

(* The destination as it is now.                                           *)
LEMMA HereGood ==
  ASSUME PublicationInv
  PROVE  /\ db = marker \/ \E c \in Commands : HalfOf(c, db, marker, staging[c])
         /\ \A c \in Commands : db = c \/ marker = c => Good(c) /\ c \in solid /\ phase[c] \notin Prelink
         /\ \A c \in Commands : phase[c] \in Reported => db = c /\ marker = c
<1>1. WasGood(Publication!Here)
  BY DEF PublicationInv, PublicationRows, PastGood
<1> QED
  BY <1>1 DEF WasGood, Publication!Here

(* A command is the only one that runs.                                    *)
LEMMA AloneNow ==
  ASSUME PublicationInv, NEW c \in Commands, Publication!Running(c)
  PROVE  Place(c) /\ \A d \in Commands : d # c => ~Publication!Running(d)
BY DEF PublicationInv, Places, OneRuns

(* A command moves to another place and knows there what it knew before.   *)
LEMMA OnlyStep ==
  ASSUME PublicationInv, NEW c \in Commands, NEW to \in Publication!Phases, Publication!Running(c),
         phase' = [phase EXCEPT ![c] = to],
         UNCHANGED <<db, marker, staging, past, solid, torn, unremoved, round, identity, opened, seen, target>>,
         phase[c] \in Prelink \/ to \notin Prelink,
         to # "unstarted", to \in Reported => phase[c] \in Reported,
         Publication!Running(c)' => Place(c)'
  PROVE  PublicationInv'
<1>1. /\ solid \subseteq Commands /\ solid \cap torn = {} /\ round \in [Commands -> 1 .. 2]
      /\ DOMAIN seen = Commands /\ DOMAIN target = Commands
      /\ DOMAIN identity = Commands /\ DOMAIN opened = Commands /\ Publication!Here \in past
  BY DEF PublicationInv, PublicationRows
<1> QED
  BY <1>1, AloneNow, PlaceStep

(* The source is validated and read by one command at a time.              *)
LEMMA SourceKeeps ==
  ASSUME PublicationInv, ~Rivals, NEW c \in Commands,
         Publication!Begin(c) \/ Publication!OpenSource(c)
  PROVE  PublicationInv'
<1> USE DEF Publication!Running, Publication!Ends, Publication!Phases, Prelink, Reported
<1>1. CASE Publication!Begin(c)
  <2>1. /\ phase[c] = "unstarted" /\ \A d \in Commands : ~Publication!Running(d)
        /\ phase' = [phase EXCEPT ![c] = "open"]
        /\ identity' = [identity EXCEPT ![c] = source]
        /\ UNCHANGED <<db, marker, staging, past, solid, torn, unremoved, round, opened, seen, target>>
    BY <1>1 DEF Publication!Begin, Publication!Quiet, Publication!Goes, Publication!directory,
                Publication!content
  <2>2. phase'[c] = "open"
    BY <2>1 DEF PublicationInv, PublicationRows
  <2>3. Place(c)'
    BY <2>1, <2>2 DEF Place, Publication!Recovering, PublicationInv, UnstartedWhole
  <2>4. /\ \A d \in Commands : d # c \/ phase[c] \notin Prelink =>
              identity'[d] = identity[d] /\ opened'[d] = opened[d]
        /\ DOMAIN identity' = Commands /\ DOMAIN opened' = Commands
        /\ DOMAIN seen' = Commands /\ DOMAIN target' = Commands
        /\ solid' \subseteq Commands /\ solid' \cap torn = {} /\ round' \in [Commands -> 1 .. 2]
        /\ Publication!Here \in past'
    BY <2>1 DEF PublicationInv, PublicationRows
  <2> QED
    BY <2>1, <2>3, <2>4, PlaceStep
<1>2. CASE Publication!OpenSource(c)
  <2>1. PICK to \in {"look", "failed"} :
          /\ phase[c] = "open" /\ phase' = [phase EXCEPT ![c] = to]
          /\ to = "look" => identity[c] = source /\ source \in Sound
    BY <1>2 DEF Publication!OpenSource, Publication!Goes, Publication!Unchanged,
                Publication!Compatible
  <2>2. /\ opened' = [opened EXCEPT ![c] = source]
        /\ UNCHANGED <<db, marker, staging, past, solid, torn, unremoved, round, identity, seen, target>>
    BY <1>2 DEF Publication!OpenSource, Publication!directory, Publication!content
  <2>3. phase'[c] = to
    BY <2>1 DEF PublicationInv, PublicationRows
  <2>4. Publication!Running(c)' => Place(c)'
    <3>1. SUFFICES ASSUME to = "look" PROVE Place(c)'
      BY <2>1, <2>3
    <3>2. Good(c)'
      BY <2>1, <2>2, <3>1 DEF Good, PublicationInv, PublicationRows
    <3>3. Place(c)
      BY <2>1 DEF PublicationInv, Places
    <3>4. round[c] = 1
      BY <2>1, <3>3 DEF Place
    <3> QED
      BY <2>2, <2>3, <3>1, <3>2, <3>3, <3>4 DEF Place
  <2>5. /\ \A d \in Commands : d # c \/ phase[c] \notin Prelink =>
              identity'[d] = identity[d] /\ opened'[d] = opened[d]
        /\ DOMAIN identity' = Commands /\ DOMAIN opened' = Commands
        /\ DOMAIN seen' = Commands /\ DOMAIN target' = Commands
        /\ solid' \subseteq Commands /\ solid' \cap torn = {} /\ round' \in [Commands -> 1 .. 2]
        /\ Publication!Here \in past'
    BY <2>1, <2>2 DEF PublicationInv, PublicationRows
  <2>6. \A d \in Commands : d # c => ~Publication!Running(d)
    BY <2>1 DEF PublicationInv, OneRuns
  <2> QED
    BY <2>1, <2>2, <2>4, <2>5, <2>6, PlaceStep
<1> QED
  BY <1>1, <1>2

(* A command looks at the destination, and clears what it finds half made. *)
LEMMA LookKeeps ==
  ASSUME PublicationInv, NEW c \in Commands, Publication!Look(c) \/ Publication!Recover(c)
  PROVE  PublicationInv'
<1> USE DEF Publication!Running, Publication!Ends, Publication!Phases, Prelink, Reported
<1>1. phase[c] \in {"look", "recover"} /\ Publication!Running(c)
  BY DEF Publication!Look, Publication!Recover
<1>2. Place(c) /\ \A d \in Commands : d # c => ~Publication!Running(d)
  BY <1>1, AloneNow
<1>3. Good(c) /\ c \notin torn /\ (round[c] = 2 => staging[c] = Publication!Names /\ c \in solid)
  BY <1>1, <1>2 DEF Place, Publication!Recovering
<1>4. CASE Publication!Look(c)
  <2>1. PICK to \in {"recover", "fresh"} :
          phase' = [phase EXCEPT ![c] = to] /\ (to = "recover" => Publication!Partial(db, marker))
    BY <1>4 DEF Publication!Look, Publication!Goes
  <2>2. /\ seen' = [seen EXCEPT ![c] = [db |-> db, marker |-> marker]]
        /\ UNCHANGED <<db, marker, staging, past, solid, torn, unremoved, round, identity, opened, target>>
    BY <1>4 DEF Publication!Look, Publication!directory, Publication!content
  <2>3. phase'[c] = to /\ seen'[c].db = db /\ seen'[c].marker = marker
    BY <2>1, <2>2 DEF PublicationInv, PublicationRows
  <2>4. Place(c)'
    BY <1>3, <2>1, <2>2, <2>3 DEF Place, Good, Publication!Partial
  <2>5. /\ DOMAIN identity = Commands /\ DOMAIN opened = Commands
        /\ DOMAIN seen' = Commands /\ DOMAIN target = Commands
        /\ solid \subseteq Commands /\ solid \cap torn = {} /\ round \in [Commands -> 1 .. 2]
        /\ Publication!Here \in past
    BY <2>2 DEF PublicationInv, PublicationRows
  <2> QED
    BY <1>1, <1>2, <2>1, <2>2, <2>4, <2>5, PlaceStep
<1>5. CASE Publication!Recover(c)
  <2>1. /\ phase[c] = "recover" /\ seen[c].db = db /\ seen[c].marker = marker
        /\ Publication!Partial(db, marker)
    BY <1>2, <1>5 DEF Publication!Recover, Place
  <2>2. CASE \E d \in Commands : Publication!Origin(c, d)
    <3>1. PICK d \in Commands : /\ Publication!Origin(c, d) /\ target' = [target EXCEPT ![c] = d]
                                /\ phase' = [phase EXCEPT ![c] = "unlink"]
      BY <1>5, <2>2 DEF Publication!Recover, Publication!Goes
    <3>2. UNCHANGED <<db, marker, staging, past, solid, torn, unremoved, round, identity, opened, seen>>
      BY <1>5, <2>2 DEF Publication!Recover, Publication!directory, Publication!content
    <3>3. d # c
      BY <2>1, <3>1, HereGood DEF Publication!Origin
    <3>4. phase'[c] = "unlink" /\ target'[c] = d
      BY <3>1 DEF PublicationInv, PublicationRows
    <3>5. Place(c)'
      BY <1>3, <2>1, <3>2, <3>3, <3>4 DEF Place, Good, Publication!Partial
    <3>6. /\ DOMAIN identity = Commands /\ DOMAIN opened = Commands
          /\ DOMAIN seen = Commands /\ DOMAIN target' = Commands
          /\ solid \subseteq Commands /\ solid \cap torn = {} /\ round \in [Commands -> 1 .. 2]
          /\ Publication!Here \in past
      BY <3>1 DEF PublicationInv, PublicationRows
    <3> QED
      BY <1>1, <1>2, <3>1, <3>2, <3>5, <3>6, PlaceStep
  <2>3. CASE ~\E d \in Commands : Publication!Origin(c, d)
    <3>1. /\ phase' = [phase EXCEPT ![c] = "fresh"]
          /\ UNCHANGED <<db, marker, staging, past, solid, torn, unremoved, round, identity, opened, seen, target>>
      BY <1>5, <2>3 DEF Publication!Recover, Publication!Only, Publication!Goes,
                        Publication!directory, Publication!content
    <3>2. phase'[c] = "fresh"
      BY <3>1 DEF PublicationInv, PublicationRows
    <3>3. Place(c)'
      BY <1>3, <3>1, <3>2 DEF Place, Good
    <3> QED
      BY <1>1, <3>1, <3>3, OnlyStep
  <2> QED
    BY <2>2, <2>3
<1> QED
  BY <1>4, <1>5

(* Nothing has been reported while a name is missing.                      *)
LEMMA NoneReported ==
  ASSUME PublicationInv, db = None \/ marker = None
  PROVE  \A e \in Commands : phase[e] \notin Reported
BY HereGood, CommandsAssumption

LEMMA UnlinkKeeps ==
  ASSUME PublicationInv, NEW c \in Commands, Publication!Unlink(c)
  PROVE  PublicationInv'
<1> USE DEF Publication!Running, Publication!Ends, Publication!Phases, Prelink
<1>1. phase[c] = "unlink" /\ Publication!Running(c)
  BY DEF Publication!Unlink
<1>2. Place(c)
  BY <1>1, AloneNow
<1>3. Publication!Linked(None, None, staging) /\ Publication!Changes(c, "clear")
  BY <1>1, <1>2 DEF Publication!Unlink, Place, Publication!Partial
<1>4. /\ phase'[c] = "clear" /\ db' = None /\ marker' = None
      /\ UNCHANGED <<staging, solid, torn, unremoved, round, identity, opened, seen, target>>
  BY <1>3 DEF Publication!Linked, Publication!Changes, Publication!Goes, Publication!content,
              PublicationInv, PublicationRows
<1>5. Place(c)'
  BY <1>1, <1>2, <1>4 DEF Place, Good, Publication!Recovering
<1>6. \A e \in Commands : phase[e] \notin Reported
  BY <1>1, <1>2, NoneReported DEF Place, Publication!Partial
<1>7. staging \in [Commands -> SUBSET Publication!Names]
  BY DEF PublicationInv, PublicationRows
<1> QED
  BY <1>1, <1>3, <1>5, <1>6, <1>7, LinkStep, CommandsAssumption DEF Reported

(* A directory is removed file by file: one the destination does not need. *)
LEMMA RemoveStep ==
  ASSUME PublicationInv, NEW c \in Commands, Publication!Running(c), NEW d \in Commands,
         db = marker \/ d \in unremoved \/ (db # d /\ marker # d),
         NEW n \in staging[d],
         Publication!Linked(db, marker, [staging EXCEPT ![d] = @ \ {n}]),
         Publication!Changes(c, phase[c]), Place(c)'
  PROVE  PublicationInv'
<1> DEFINE s == [staging EXCEPT ![d] = @ \ {n}]
<1>1. /\ s \in [Commands -> SUBSET Publication!Names]
      /\ db \in Commands \cup {None} /\ marker \in Commands \cup {None}
      /\ phase[c] \in Publication!Phases
  BY DEF PublicationInv, PublicationRows
<1>2. db = marker \/ \E e \in Commands : HalfOf(e, db, marker, s[e])
  <2>1. CASE db # marker
    <3>1. PICK e \in Commands : HalfOf(e, db, marker, staging[e])
      BY <2>1, HereGood
    <3>2. e # d \/ e \in unremoved
      BY <2>1, <3>1 DEF HalfOf
    <3>3. e # d => s[e] = staging[e]
      BY DEF PublicationInv, PublicationRows
    <3>4. HalfOf(e, db, marker, s[e])
      BY <3>1, <3>2, <3>3 DEF HalfOf
    <3> QED
      BY <3>4
  <2> QED
    BY <2>1
<1>3. phase[c] # "unstarted"
  BY DEF Publication!Running
<1> HIDE DEF s
<1>4. Publication!Linked(db, marker, s)
  BY DEF s
<1> QED
  BY <1>1, <1>2, <1>3, <1>4, LinkStep

LEMMA ClearKeeps ==
  ASSUME PublicationInv, NEW c \in Commands, Publication!Clear(c) \/ Publication!SyncCleared(c)
  PROVE  PublicationInv'
<1> USE DEF Publication!Running, Publication!Ends, Publication!Phases, Prelink
<1>1. phase[c] \in {"clear", "sync"} /\ Publication!Running(c)
  BY DEF Publication!Clear, Publication!SyncCleared
<1>2. Place(c) /\ \A d \in Commands : d # c => ~Publication!Running(d)
  BY <1>1, AloneNow
<1>3. db = None /\ marker = None /\ target[c] \in Commands \ {c} /\ Good(c) /\ c \notin torn
  BY <1>1, <1>2 DEF Place
<1>4. CASE Publication!Clear(c) /\ Publication!Only(c, "sync")
  <2>1. /\ phase[c] = "clear" /\ phase' = [phase EXCEPT ![c] = "sync"]
        /\ UNCHANGED <<db, marker, staging, past, solid, torn, unremoved, round, identity, opened, seen, target>>
    BY <1>4 DEF Publication!Clear, Publication!Only, Publication!Goes, Publication!directory,
                Publication!content
  <2>2. phase'[c] = "sync"
    BY <2>1 DEF PublicationInv, PublicationRows
  <2>3. Place(c)'
    BY <1>2, <2>1, <2>2 DEF Place, Good, Publication!Recovering
  <2> QED
    BY <1>1, <2>1, <2>3, OnlyStep DEF Reported
<1>5. CASE Publication!Clear(c) /\ ~Publication!Only(c, "sync")
  <2>1. PICK n \in staging[target[c]] :
          /\ Publication!Linked(db, marker, [staging EXCEPT ![target[c]] = @ \ {n}])
          /\ Publication!Changes(c, phase[c])
    BY <1>5 DEF Publication!Clear, Publication!Removes
  <2>2. /\ phase'[c] = phase[c] /\ db' = db /\ marker' = marker /\ staging'[c] = staging[c]
        /\ UNCHANGED <<solid, torn, unremoved, round, identity, opened, seen, target>>
    BY <1>3, <2>1 DEF Publication!Linked, Publication!Changes, Publication!Goes,
                      Publication!content, PublicationInv, PublicationRows
  <2>3. Place(c)'
    BY <1>1, <1>2, <2>2 DEF Place, Good, Publication!Recovering
  <2> QED
    BY <1>1, <1>3, <2>1, <2>3, RemoveStep
<1>6. CASE Publication!SyncCleared(c)
  <2>1. /\ phase' = [phase EXCEPT ![c] = "fresh"] /\ past' = {Publication!Here}
        /\ UNCHANGED <<db, marker, staging, solid, torn, unremoved, round, identity, opened, seen, target>>
    BY <1>6 DEF Publication!SyncCleared, Publication!Goes, Publication!Durable, Publication!content
  <2>2. /\ phase'[c] = "fresh"
        /\ solid \subseteq Commands /\ solid \cap torn = {} /\ round \in [Commands -> 1 .. 2]
        /\ DOMAIN seen = Commands /\ DOMAIN target = Commands /\ Publication!Here \in past
        /\ DOMAIN identity = Commands /\ DOMAIN opened = Commands
    BY <2>1 DEF PublicationInv, PublicationRows
  <2>3. Place(c)'
    BY <1>1, <1>2, <2>1, <2>2 DEF Place, Good, Publication!Recovering
  <2> QED
    BY <1>1, <1>2, <2>1, <2>2, <2>3, PlaceStep DEF Reported
<1> QED
  BY <1>4, <1>5, <1>6

LEMMA FreshKeeps ==
  ASSUME PublicationInv, NEW c \in Commands, Publication!Fresh(c) \/ Publication!Validate(c)
  PROVE  PublicationInv'
<1> USE DEF Publication!Running, Publication!Ends, Publication!Phases, Prelink
<1>1. phase[c] \in {"fresh", "validate"} /\ Publication!Running(c)
  BY DEF Publication!Fresh, Publication!Validate
<1>2. Place(c)
  BY <1>1, AloneNow
<1>3. PICK to \in {"stage", "linkDb", "refused", "tidy", "syncStaged"} :
        /\ Publication!Only(c, to)
        /\ to = "linkDb" => phase[c] = "fresh" /\ round[c] = 2 /\ db = None /\ marker = None
        /\ to = "syncStaged" => phase[c] = "validate"
  <2>1. CASE Publication!Fresh(c)
    BY <2>1 DEF Publication!Fresh, PublicationInv, PublicationRows
  <2>2. CASE Publication!Validate(c)
    BY <2>2 DEF Publication!Validate
  <2> QED
    BY <2>1, <2>2
<1>4. /\ phase' = [phase EXCEPT ![c] = to]
      /\ UNCHANGED <<db, marker, staging, past, solid, torn, unremoved, round, identity, opened, seen, target>>
  BY <1>3 DEF Publication!Only, Publication!Goes, Publication!directory, Publication!content
<1>5. phase'[c] = to
  BY <1>4 DEF PublicationInv, PublicationRows
<1>6. db # c /\ marker # c
  BY <1>1, HereGood
<1>7. Place(c)'
  BY <1>1, <1>2, <1>3, <1>4, <1>5, <1>6 DEF Place, Good, Publication!Recovering
<1> QED
  BY <1>1, <1>4, <1>7, OnlyStep DEF Reported

LEMMA StageKeeps ==
  ASSUME PublicationInv, NEW c \in Commands, Publication!Stage(c) \/ Publication!SyncStaged(c)
  PROVE  PublicationInv'
<1> USE DEF Publication!Running, Publication!Ends, Publication!Phases, Prelink
<1>1. phase[c] \in {"stage", "syncStaged"} /\ Publication!Running(c)
  BY DEF Publication!Stage, Publication!SyncStaged
<1>2. Place(c) /\ \A d \in Commands : d # c => ~Publication!Running(d)
  BY <1>1, AloneNow
<1>3. CASE Publication!Stage(c)
  <2>1. PICK s : /\ s = [staging EXCEPT ![c] = Publication!Names]
                 /\ Publication!Linked(db, marker, s) /\ Publication!Changes(c, "validate")
    BY <1>3 DEF Publication!Stage, Publication!Snapshot
  <2>2. /\ phase'[c] = "validate" /\ staging'[c] = Publication!Names
        /\ UNCHANGED <<db, marker, solid, torn, unremoved, round, identity, opened, seen, target>>
    BY <2>1 DEF Publication!Linked, Publication!Changes, Publication!Goes, Publication!content,
                PublicationInv, PublicationRows
  <2>3. Place(c)'
    BY <1>1, <1>2, <2>2 DEF Place, Good, Publication!Recovering
  <2>4. /\ s \in [Commands -> SUBSET Publication!Names]
        /\ db \in Commands \cup {None} /\ marker \in Commands \cup {None}
        /\ \A e \in Commands : staging[e] = Publication!Names => s[e] = Publication!Names
    BY <2>1 DEF PublicationInv, PublicationRows
  <2>5. db = marker \/ \E e \in Commands : HalfOf(e, db, marker, s[e])
    <3>1. ASSUME NEW e \in Commands, HalfOf(e, db, marker, staging[e])
          PROVE  HalfOf(e, db, marker, s[e])
      BY <2>4, <3>1 DEF HalfOf
    <3> QED
      BY <3>1, HereGood
  <2>6. Publication!Linked(db, marker, s) /\ Publication!Changes(c, "validate")
    BY <2>1
  <2>7. /\ phase[c] \in Prelink /\ "validate" \in Publication!Phases \ Reported
        /\ "validate" # "unstarted"
    BY <1>1 DEF Reported
  <2>8. /\ \A e \in Commands : db = e \/ marker = e => db = e \/ marker = e
        /\ s \in [Commands -> SUBSET Publication!Names]
        /\ db \in Commands \cup {None} /\ marker \in Commands \cup {None}
        /\ Publication!Running(c)
    BY <1>1, <2>4
  <2> QED
    <3> HIDE DEF Publication!Running, Publication!Ends, Publication!Phases, Prelink
    <3> QED
      BY <2>3, <2>5, <2>6, <2>7, <2>8, LinkStep
<1>4. CASE Publication!SyncStaged(c)
  <2>1. /\ phase[c] = "syncStaged" /\ phase' = [phase EXCEPT ![c] = "look"]
        /\ solid' = solid \cup {c} /\ round' = [round EXCEPT ![c] = 2]
        /\ UNCHANGED <<db, marker, staging, past, torn, unremoved, identity, opened, seen, target>>
    BY <1>4 DEF Publication!SyncStaged, Publication!Synced, Publication!Goes, Publication!directory
  <2>2. c \notin torn /\ Good(c) /\ staging[c] = Publication!Names
    BY <1>2, <2>1 DEF Place
  <2>3. /\ phase'[c] = "look" /\ solid' \subseteq Commands /\ solid' \cap torn = {}
        /\ round' \in [Commands -> 1 .. 2] /\ \A d \in Commands : d # c => round'[d] = round[d]
        /\ DOMAIN seen = Commands /\ DOMAIN target = Commands /\ Publication!Here \in past
        /\ DOMAIN identity = Commands /\ DOMAIN opened = Commands
    BY <2>1, <2>2 DEF PublicationInv, PublicationRows
  <2>4. Place(c)'
    BY <2>1, <2>2, <2>3 DEF Place, Good, Publication!Recovering
  <2> QED
    BY <1>1, <1>2, <2>1, <2>3, <2>4, PlaceStep DEF Reported
<1> QED
  BY <1>3, <1>4

(* The two names are linked to what was validated and synced.              *)
LEMMA LinkDbKeeps ==
  ASSUME PublicationInv, NEW c \in Commands, Publication!LinkDb(c)
  PROVE  PublicationInv'
<1> USE DEF Publication!Running, Publication!Ends, Publication!Phases, Prelink
<1>1. phase[c] = "linkDb" /\ Publication!Running(c)
  BY DEF Publication!LinkDb
<1>2. Place(c)
  BY <1>1, AloneNow
<1>3. /\ db = None /\ marker = None /\ staging[c] = Publication!Names /\ c \in solid
      /\ Good(c) /\ c \notin torn
  BY <1>1, <1>2 DEF Place
<1>4. Publication!Linked(c, None, staging) /\ Publication!Changes(c, "linkMarker")
  BY <1>3 DEF Publication!LinkDb, Publication!Names
<1>5. /\ phase'[c] = "linkMarker" /\ db' = c /\ marker' = None
      /\ UNCHANGED <<staging, solid, torn, unremoved, round, identity, opened, seen, target>>
  BY <1>4 DEF Publication!Linked, Publication!Changes, Publication!Goes, Publication!content,
              PublicationInv, PublicationRows
<1>6. Place(c)'
  BY <1>3, <1>5 DEF Place, Good, Publication!Recovering
<1>7. staging \in [Commands -> SUBSET Publication!Names]
  BY DEF PublicationInv, PublicationRows
<1>8. HalfOf(c, c, None, staging[c])
  BY <1>3 DEF HalfOf
<1> QED
  BY <1>1, <1>3, <1>4, <1>6, <1>7, <1>8, NoneReported, LinkStep, CommandsAssumption DEF Reported

LEMMA LinkMarkerKeeps ==
  ASSUME PublicationInv, NEW c \in Commands,
         Publication!LinkMarker(c) \/ Publication!UndoMarker(c) \/ Publication!UndoDb(c)
  PROVE  PublicationInv'
<1> USE DEF Publication!Running, Publication!Ends, Publication!Phases
<1>1. phase[c] \in {"linkMarker", "undoMarker", "undoDb"} /\ Publication!Running(c)
  BY DEF Publication!LinkMarker, Publication!UndoMarker, Publication!UndoDb
<1>2. Place(c) /\ \A d \in Commands : d # c => ~Publication!Running(d)
  BY <1>1, AloneNow
<1>3. /\ db = c /\ staging[c] = Publication!Names /\ c \in solid /\ Good(c) /\ c \notin torn
      /\ phase[c] = "linkMarker" => marker = None
      /\ phase[c] = "undoDb" => marker = None \/ (marker = c /\ c \in unremoved)
  BY <1>1, <1>2 DEF Place
<1>4. \A e \in Commands : phase[e] \notin Reported
  BY <1>1, <1>3, HereGood DEF Reported
<1>5. staging \in [Commands -> SUBSET Publication!Names]
  BY DEF PublicationInv, PublicationRows
<1>6. CASE Publication!LinkMarker(c)
  <2>1. Publication!Linked(c, c, staging) /\ Publication!Changes(c, "syncParent")
    BY <1>3, <1>6 DEF Publication!LinkMarker, Publication!Names
  <2>2. /\ phase'[c] = "syncParent" /\ db' = c /\ marker' = c
        /\ UNCHANGED <<staging, solid, torn, unremoved, round, identity, opened, seen, target>>
    BY <2>1 DEF Publication!Linked, Publication!Changes, Publication!Goes, Publication!content,
                PublicationInv, PublicationRows
  <2>3. Place(c)'
    BY <1>3, <2>2 DEF Place, Good, Publication!Recovering
  <2> QED
    BY <1>1, <1>3, <1>4, <1>5, <2>1, <2>3, LinkStep DEF Reported, Prelink
<1>7. CASE Publication!UndoMarker(c)
  <2>1. Publication!Linked(c, None, staging) /\ Publication!Changes(c, "undoDb")
    BY <1>3, <1>7 DEF Publication!UndoMarker
  <2>2. /\ phase'[c] = "undoDb" /\ db' = c /\ marker' = None
        /\ UNCHANGED <<staging, solid, torn, unremoved, round, identity, opened, seen, target>>
    BY <2>1 DEF Publication!Linked, Publication!Changes, Publication!Goes, Publication!content,
                PublicationInv, PublicationRows
  <2>3. Place(c)'
    BY <1>3, <2>2 DEF Place, Good, Publication!Recovering
  <2>4. HalfOf(c, c, None, staging[c])
    BY <1>3 DEF HalfOf
  <2> QED
    BY <1>1, <1>3, <1>4, <1>5, <2>1, <2>3, <2>4, LinkStep, CommandsAssumption DEF Reported, Prelink
<1>8. CASE Publication!UndoDb(c)
  <2>1. /\ Publication!Linked(None, marker, staging) /\ Publication!Changes(c, "tidy")
        /\ marker = None \/ (marker = c /\ c \in unremoved)
    BY <1>3, <1>8 DEF Publication!UndoDb, Publication!RemovesDb
  <2>2. /\ phase'[c] = "tidy" /\ db' = None /\ marker' = marker
        /\ UNCHANGED <<staging, solid, torn, unremoved, round, identity, opened, seen, target>>
    BY <2>1 DEF Publication!Linked, Publication!Changes, Publication!Goes, Publication!content,
                PublicationInv, PublicationRows
  <2>3. Place(c)'
    BY <1>3, <2>1, <2>2, CommandsAssumption DEF Place, Good, Publication!Recovering
  <2>4. None = marker \/ HalfOf(c, None, marker, staging[c])
    BY <1>3, <2>1 DEF HalfOf
  <2>5. \A e \in Commands : None = e \/ marker = e => db = e \/ marker = e
    BY CommandsAssumption
  <2>6. marker \in Commands \cup {None}
    BY <2>1
  <2> QED
    BY <1>1, <1>3, <1>4, <1>5, <2>1, <2>3, <2>4, <2>5, <2>6, LinkStep DEF Reported, Prelink
<1> QED
  BY <1>6, <1>7, <1>8

(* The publication is durable before it is reported.                       *)
LEMMA SyncParentKeeps ==
  ASSUME PublicationInv, NEW c \in Commands, Publication!SyncParent(c)
  PROVE  PublicationInv'
<1> USE DEF Publication!Running, Publication!Ends, Publication!Phases
<1>1. /\ phase[c] = "syncParent" /\ Publication!Running(c)
      /\ phase' = [phase EXCEPT ![c] = "tidyPublished"] /\ past' = {Publication!Here}
      /\ UNCHANGED <<db, marker, staging, solid, torn, unremoved, round, identity, opened, seen, target>>
  BY DEF Publication!SyncParent, Publication!Goes, Publication!Durable, Publication!content
<1>2. Place(c) /\ \A d \in Commands : d # c => ~Publication!Running(d)
  BY <1>1, AloneNow
<1>3. db = c /\ marker = c /\ Good(c) /\ c \notin torn
  BY <1>1, <1>2 DEF Place
<1>4. /\ phase'[c] = "tidyPublished"
      /\ solid \subseteq Commands /\ solid \cap torn = {} /\ round \in [Commands -> 1 .. 2]
      /\ DOMAIN seen = Commands /\ DOMAIN target = Commands /\ Publication!Here \in past
      /\ DOMAIN identity = Commands /\ DOMAIN opened = Commands
  BY <1>1 DEF PublicationInv, PublicationRows
<1>5. Place(c)'
  BY <1>1, <1>3, <1>4 DEF Place, Good, Publication!Recovering
<1>6. \A w \in past' : w.db = c /\ w.marker = c
  BY <1>1, <1>3 DEF Publication!Here
<1> QED
  BY <1>1, <1>2, <1>4, <1>5, <1>6, PlaceStep DEF Prelink

(* The staging directory goes when the destination does not link to it     *)
(* alone.                                                                  *)
LEMMA TidyKeeps ==
  ASSUME PublicationInv, NEW c \in Commands, Publication!Tidy(c)
  PROVE  PublicationInv'
<1> USE DEF Publication!Running, Publication!Ends, Publication!Phases
<1>1. phase[c] \in {"tidy", "tidyPublished"} /\ Publication!Running(c)
  BY DEF Publication!Tidy
<1>2. Place(c)
  BY <1>1, AloneNow
<1>3. /\ Good(c) /\ c \notin torn
      /\ phase[c] = "tidy" => c \in unremoved \/ (db # c /\ marker # c)
      /\ phase[c] = "tidyPublished" => db = marker
  BY <1>1, <1>2, HereGood DEF Place, Reported
<1>4. PICK to \in {"failed", "published"} :
        /\ Publication!Removes(c, c, to)
        /\ to = "published" <=> phase[c] = "tidyPublished"
  BY DEF Publication!Tidy
<1>5. CASE Publication!Only(c, to)
  <2>1. /\ phase' = [phase EXCEPT ![c] = to]
        /\ UNCHANGED <<db, marker, staging, past, solid, torn, unremoved, round, identity, opened, seen, target>>
    BY <1>5 DEF Publication!Only, Publication!Goes, Publication!directory, Publication!content
  <2>2. phase'[c] = to
    BY <2>1 DEF PublicationInv, PublicationRows
  <2> QED
    BY <1>1, <1>4, <2>1, <2>2, OnlyStep DEF Prelink, Reported
<1>6. CASE ~Publication!Only(c, to)
  <2>1. PICK n \in staging[c] :
          /\ Publication!Linked(db, marker, [staging EXCEPT ![c] = @ \ {n}])
          /\ Publication!Changes(c, phase[c])
    BY <1>4, <1>6 DEF Publication!Removes
  <2>2. /\ phase'[c] = phase[c] /\ db' = db /\ marker' = marker
        /\ UNCHANGED <<solid, torn, unremoved, round, identity, opened, seen, target>>
    BY <2>1 DEF Publication!Linked, Publication!Changes, Publication!Goes,
                Publication!content, PublicationInv, PublicationRows
  <2>3. Place(c)'
    BY <1>1, <1>3, <2>2 DEF Place, Good, Publication!Recovering
  <2> QED
    BY <1>1, <1>3, <2>1, <2>3, RemoveStep
<1> QED
  BY <1>5, <1>6

(* Calls that fail, and kills: what was done is undone, or left as it is.  *)
LEMMA FailKeeps ==
  ASSUME PublicationInv, NEW c \in Commands, Publication!Fails(c) \/ Publication!Killed(c)
  PROVE  PublicationInv'
<1> USE DEF Publication!Running, Publication!Ends, Publication!Phases, Prelink
<1>1. PICK to \in {"failed", "tidy", "undoDb", "undoMarker", "killed", "published"} :
        /\ phase' = [phase EXCEPT ![c] = to] /\ Publication!Running(c)
        /\ to = "tidy" => phase[c] \in Prelink
        /\ to = "undoDb" => phase[c] = "linkMarker"
        /\ to = "undoMarker" => phase[c] = "syncParent"
        /\ UNCHANGED <<db, marker, staging, past, solid, torn, unremoved, round, identity, opened, seen, target>>
        /\ to = "tidy" => phase[c] # "open"
        /\ to = "published" => phase[c] = "tidyPublished"
  <2>1. CASE Publication!Fails(c)
    BY <2>1 DEF Publication!Fails, Publication!Goes, Publication!Recovering, Publication!directory,
                Publication!content
  <2>2. CASE Publication!Killed(c)
    BY <2>2 DEF Publication!Killed, Publication!Goes, Publication!directory, Publication!content
  <2> QED
    BY <2>1, <2>2
<1>2. phase'[c] = to
  BY <1>1 DEF PublicationInv, PublicationRows
<1>3. Place(c)
  BY <1>1, AloneNow
<1>4. phase[c] \in Prelink => db # c /\ marker # c
  BY HereGood
<1>5. Publication!Running(c)' => Place(c)'
  <2>1. CASE to \in {"undoDb", "undoMarker"}
    <3>1. phase[c] \in {"linkMarker", "syncParent"}
      BY <1>1, <2>1
    <3> QED
      BY <1>1, <1>2, <1>3, <2>1, <3>1 DEF Place, Good, Publication!Recovering
  <2>2. CASE to = "tidy"
    <3>1. Good(c) /\ c \notin torn
      BY <1>1, <1>3, <2>2 DEF Place
    <3> QED
      BY <1>1, <1>2, <1>4, <2>2, <3>1 DEF Place, Good, Publication!Recovering
  <2>3. CASE to \in {"failed", "killed", "published"}
    BY <1>2, <2>3
  <2> QED
    BY <1>1, <2>1, <2>2, <2>3
<1>6. phase[c] \in Prelink \/ to \notin Prelink
  BY <1>1
<1> QED
  BY <1>1, <1>5, <1>6, OnlyStep DEF Reported

(* A name that cannot be taken back is remembered, and nothing is undone.  *)
LEMMA RemoveFailKeeps ==
  ASSUME PublicationInv, NEW c \in Commands, Publication!RemoveFails(c)
  PROVE  PublicationInv'
<1> USE DEF Publication!Running, Publication!Ends, Publication!Phases, Prelink, Reported
<1>1. PICK to \in {"undoDb", "tidy"} :
        /\ phase[c] = IF to = "undoDb" THEN "undoMarker" ELSE "undoDb"
        /\ phase' = [phase EXCEPT ![c] = to] /\ unremoved' = unremoved \cup {c}
        /\ UNCHANGED <<db, marker, staging, past, solid, torn, round, identity, opened, seen, target>>
  BY DEF Publication!RemoveFails, Publication!Goes, Publication!directory
<1>2. phase'[c] = to /\ \A d \in Commands : d # c => phase'[d] = phase[d]
  BY <1>1 DEF PublicationInv, PublicationRows
<1>3. Place(c) /\ \A d \in Commands : d # c => ~Publication!Running(d)
  BY <1>1, AloneNow
<1>4. PublicationRows'
  BY <1>1 DEF PublicationInv, PublicationRows, Publication!Here
<1>5. PastGood'
  <2>1. \A d \in Commands : Good(d)' = Good(d)
    BY <1>1 DEF Good
  <2>2. \A d \in Commands : phase[d] \notin Prelink => phase'[d] \notin Prelink
    BY <1>1, <1>2
  <2>3. \A d \in Commands : phase'[d] \in Reported => phase[d] \in Reported
    BY <1>2
  <2>4. solid' = solid /\ past' = past
    BY <1>1
  <2>5. ASSUME NEW w \in past PROVE WasGood(w)'
    <3> HIDE DEF Publication!Running, Publication!Ends, Publication!Phases, Prelink, Reported
    <3>1. WasGood(w)
      BY DEF PublicationInv, PastGood
    <3>2. \A d \in Commands : HalfOf(d, w.db, w.marker, w.staging[d])
                               => HalfOf(d, w.db, w.marker, w.staging[d])'
      BY <1>1 DEF HalfOf
    <3>3. w.db = w.marker \/ \E d \in Commands : HalfOf(d, w.db, w.marker, w.staging[d])'
      BY <3>1, <3>2 DEF WasGood
    <3>4. \A d \in Commands :
             w.db = d \/ w.marker = d => Good(d)' /\ d \in solid' /\ phase'[d] \notin Prelink
      BY <2>1, <2>2, <2>4, <3>1 DEF WasGood
    <3>5. \A d \in Commands : phase'[d] \in Reported => w.db = d /\ w.marker = d
      BY <2>3, <3>1 DEF WasGood
    <3> QED
      BY <3>3, <3>4, <3>5 DEF WasGood
  <2> QED
    BY <2>4, <2>5 DEF PastGood
<1>6. Place(c)'
  BY <1>1, <1>2, <1>3 DEF Place, Good, Publication!Recovering
<1>7. UnstartedWhole' /\ OneRuns' /\ Places'
  BY <1>1, <1>2, <1>3, <1>6 DEF PublicationInv, UnstartedWhole, OneRuns, Places
<1> QED
  BY <1>4, <1>5, <1>7 DEF PublicationInv

(* After a loss of power the directories are what they were at some moment *)
(* since the last sync, and nothing runs.                                  *)
LEMMA OutageKeeps ==
  ASSUME PublicationInv, Publication!Outage
  PROVE  PublicationInv'
<1> USE DEF Publication!Running, Publication!Ends, Publication!Phases
<1>1. PICK was \in past :
        db' = was.db /\ marker' = was.marker /\ staging' = was.staging /\ past' = {was}
  BY DEF Publication!Outage
<1>2. /\ torn' = torn \cup {c \in Commands : phase[c] # "unstarted" /\ c \notin solid}
      /\ phase' = [c \in Commands |-> IF Publication!Running(c) THEN "killed" ELSE phase[c]]
      /\ UNCHANGED <<solid, unremoved, round, identity, opened, seen, target>>
  BY DEF Publication!Outage
<1>3. was \in DirectoryRow /\ WasGood(was)
  BY DEF PublicationInv, PublicationRows, PastGood
<1>4. Publication!Here' = was
  BY <1>1, <1>3 DEF Publication!Here, DirectoryRow
<1>5. phase' \in [Commands -> Publication!Phases]
  BY <1>2 DEF PublicationInv, PublicationRows
<1>6. PublicationRows'
  BY <1>1, <1>2, <1>3, <1>4, <1>5 DEF PublicationInv, PublicationRows, DirectoryRow
<1>7. ASSUME NEW c \in Commands
      PROVE  /\ ~Publication!Running(c)'
             /\ phase[c] \notin Prelink => phase'[c] \notin Prelink
             /\ phase'[c] \in Reported => phase[c] \in Reported
             /\ phase'[c] = "unstarted" => phase[c] = "unstarted"
  BY <1>2 DEF Prelink, Reported
<1>8. PastGood'
  <2>1. \A c \in Commands : Good(c)' = Good(c)
    BY <1>2 DEF Good
  <2>2. WasGood(was)'
    BY <1>2, <1>3, <1>7, <2>1 DEF WasGood, HalfOf
  <2> QED
    BY <1>1, <2>2 DEF PastGood
<1>9. UnstartedWhole' /\ OneRuns' /\ Places'
  BY <1>2, <1>7 DEF PublicationInv, UnstartedWhole, OneRuns, Places
<1> QED
  BY <1>6, <1>8, <1>9 DEF PublicationInv

LEMMA PublicationStep ==
  ~Rivals /\ PublicationInv /\ (Publication!Next \/ UNCHANGED publishing) => PublicationInv'
<1> SUFFICES ASSUME ~Rivals, PublicationInv, Publication!Next \/ UNCHANGED publishing
             PROVE  PublicationInv'
  OBVIOUS
<1>1. CASE Publication!ReplaceSource \/ Publication!Done \/ UNCHANGED publishing
  <2>1. UNCHANGED <<db, marker, staging, past, solid, torn, unremoved, phase, round, identity, opened, seen,
                    target>>
    BY <1>1 DEF Publication!ReplaceSource, Publication!Done, Publication!vars,
                Publication!directory, Publication!content, Publication!command, publishing
  <2>2. PublicationRows'
    BY <2>1 DEF PublicationInv, PublicationRows, Publication!Here
  <2>3. PastGood' /\ UnstartedWhole'
    BY <2>1 DEF PublicationInv, PastGood, WasGood, HalfOf, Good, UnstartedWhole
  <2>4. OneRuns' /\ Places'
    BY <2>1 DEF PublicationInv, OneRuns, Places, Place, Good, Publication!Running
  <2> QED
    BY <2>2, <2>3, <2>4 DEF PublicationInv
<1>2. ASSUME NEW c \in Commands, Publication!Recovers(c)
      PROVE  PublicationInv'
  BY <1>2, LookKeeps, UnlinkKeeps, ClearKeeps, FreshKeeps DEF Publication!Recovers
<1>3. ASSUME NEW c \in Commands, Publication!Publishes(c)
      PROVE  PublicationInv'
  BY <1>3, SourceKeeps, StageKeeps, FreshKeeps, LinkDbKeeps, LinkMarkerKeeps, SyncParentKeeps,
     TidyKeeps DEF Publication!Publishes
<1> QED
  BY <1>1, <1>2, <1>3, FailKeeps, RemoveFailKeeps, OutageKeeps DEF Publication!Next

LEMMA PublicationFollows == PublicationInv => PublicationHolds
<1> SUFFICES ASSUME PublicationInv PROVE PublicationHolds
  OBVIOUS
<1>1. db \in Commands \cup {None} /\ marker \in Commands \cup {None} /\ solid \cap torn = {}
      /\ torn \subseteq Commands
  BY DEF PublicationInv, PublicationRows
<1>2. Publication!SnapshotOfValidated
  BY <1>1, HereGood DEF Publication!SnapshotOfValidated, Good
<1>3. Publication!WholeIsSolid
  BY <1>1, HereGood, CommandsAssumption DEF Publication!WholeIsSolid
<1>4. Publication!PublishedKept
  BY HereGood DEF Publication!PublishedKept, Reported
<1>5. Publication!Recoverable
  <2>1. CASE db # marker
    <3>1. PICK c \in Commands : HalfOf(c, db, marker, staging[c])
      BY <2>1, HereGood
    <3>2. c \notin torn
      BY <1>1, <3>1, HereGood DEF HalfOf
    <3> QED
      BY <3>1, <3>2 DEF Publication!Recoverable, HalfOf
  <2> QED
    BY <2>1 DEF Publication!Recoverable
<1> QED
  BY <1>2, <1>3, <1>4, <1>5 DEF PublicationHolds, Publication!PublicationHolds

(* When commands for one destination do not overlap, a backup or a restore *)
(* that was reported is whole, of the database that was validated, and     *)
(* there to stay, whatever failed, was killed or lost power; and half a    *)
(* publication can be told from a foreign file (recovery.go:253-410),      *)
(* unless it is of a command that could not remove a name it had linked    *)
(* (recovery.go:153-158).  The configuration PublicationRivals shows that  *)
(* the condition is needed.                                                *)
THEOREM PublicationHoldsCorrect == ASSUME ~Rivals PROVE CommandsSpec => []PublicationHolds
<1>1. CommandsInit => PublicationInv
  BY PublicationInit DEF CommandsInit
<1>2. PublicationInv /\ [CommandsNext]_commandVars => PublicationInv'
  BY EachPartSteps, PublicationStep
<1> QED
  BY <1>1, <1>2, PublicationFollows, PTL DEF CommandsSpec, commandVars

=============================================================================
