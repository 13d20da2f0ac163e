---------------------------- MODULE WorkerProofs ----------------------------
(***************************************************************************)
(* Theorems about what a worker exchanges with others, for any number of   *)
(* requests, attempts, tokens and credentials and any bound: the parts of  *)
(* MCWorker, each with the inductive invariant its property needs.         *)
(***************************************************************************)
EXTENDS MCWorker, Sequences, FiniteSetTheorems, TLAPS

allVars == <<part, vars, enrolling, supervising, reporting>>

(* A step of the composition is a step of one part, and a stutter of the   *)
(* others.                                                                 *)
LEMMA EachPartSteps ==
  ASSUME [WorkerNext]_allVars
  PROVE  /\ [Next]_vars
         /\ Enrollment!Next \/ UNCHANGED enrolling
         /\ Supervision!Next \/ UNCHANGED supervising
         /\ Events!Next \/ UNCHANGED reporting
BY DEF WorkerNext, allVars

-----------------------------------------------------------------------------
(* The supervisor.  A group that is dead stays dead, and nothing says that *)
(* it has been stopped before it is.                                       *)

StopReports == {m \in Supervision!Message : m.type = "exit" /\ ~m.unverified}

(* What travels down the control pipe, and becomes a cause.                *)
Reasoned ==
    /\ reason \in Supervision!Reasons \cup {None}
    /\ control \in Seq(Supervision!Commands)
    /\ why \in Supervision!Causes \cup {None}

StopInv ==
    /\ messages \in Seq(Supervision!Message)
    /\ marked => group = "dead"
    /\ group # "dead" => messages \in Seq(Supervision!Message \ StopReports)
    /\ sup = "reporting" => group = "dead"
    /\ sup = "boot" => group = "none"

(* A stop without a cause comes before there is a runtime.                 *)
Staged ==
    /\ sup = "idle" => group \in {"anchor", "dead"}
    /\ sup = "stopping" => why \in Supervision!Causes \/ group \in {"anchor", "dead"}

LEMMA StopInit == Supervision!Init => StopInv /\ Reasoned /\ Staged
BY DEF Supervision!Init, StopInv, Reasoned, Staged

LEMMA EmergencyKeepsDead ==
  ASSUME Supervision!EmergencyStop
  PROVE  /\ group' = group \/ group' = "dead"
         /\ marked' = marked \/ group' = "dead"
         /\ group \in {"none", "dead"} => group' = group
BY DEF Supervision!EmergencyStop


(* What a message does to the marks of the loop that reads it.             *)
LEMMA HandleKeepsDead ==
  ASSUME NEW m, Supervision!Handle(m)
  PROVE  \/ marked' = TRUE /\ group' = group /\ m.type = "exit" /\ ~m.unverified
         \/ Supervision!EmergencyStop
         \/ marked' = marked /\ group' = group
<1>1. CASE m.type = "exit"
  BY <1>1 DEF Supervision!Handle
<1>2. CASE m.type # "exit"
  BY <1>2 DEF Supervision!Handle, Supervision!worker
<1> QED
  BY <1>1, <1>2

LEMMA TellKeepsTyped ==
  ASSUME StopInv, NEW m \in Supervision!Message, Supervision!Tell(m),
         m \in StopReports => group = "dead"
  PROVE  /\ messages' \in Seq(Supervision!Message)
         /\ group # "dead" => messages' \in Seq(Supervision!Message \ StopReports)
BY DEF StopInv, Supervision!Tell

LEMMA PlainMessages ==
  ASSUME NEW t \in {"ready", "started", "output"}
  PROVE  /\ Supervision!Plain(t) \in Supervision!Message
         /\ Supervision!Plain(t) \notin StopReports
BY DEF Supervision!Plain, Supervision!Message, StopReports

LEMMA TakenMessage ==
  ASSUME StopInv, messages # <<>>
  PROVE  /\ Head(messages) \in Supervision!Message
         /\ group # "dead" => Head(messages) \notin StopReports
         /\ Tail(messages) \in Seq(Supervision!Message)
         /\ group # "dead" => Tail(messages) \in Seq(Supervision!Message \ StopReports)
BY DEF StopInv

(* What the loop of the worker does to the group and the marks.            *)
LEMMA ReadKeepsStopInv ==
  ASSUME StopInv, messages # <<>>, messages' = Tail(messages),
         Supervision!Handle(Head(messages)), sup' = sup
  PROVE  StopInv'
<1>1. /\ Head(messages) \in Supervision!Message
      /\ group # "dead" => Head(messages) \notin StopReports
      /\ messages' \in Seq(Supervision!Message)
      /\ group # "dead" => messages' \in Seq(Supervision!Message \ StopReports)
  BY TakenMessage, Zenon
<1>2. /\ marked' = marked \/ group' = "dead"
      /\ group' = group \/ group' = "dead"
      /\ group \in {"none", "dead"} => group' = group
  <2>1. CASE marked' = TRUE /\ group' = group /\ Head(messages).type = "exit" /\ ~Head(messages).unverified
    BY <1>1, <2>1 DEF StopReports
  <2>2. CASE Supervision!EmergencyStop
    BY <2>2, EmergencyKeepsDead
  <2> QED
    BY <2>1, <2>2, HandleKeepsDead
<1>3. QED
  BY <1>1, <1>2 DEF StopInv

LEMMA LoopKeepsStopInv ==
  ASSUME StopInv, Supervision!Loop
  PROVE  StopInv'
<1>1. CASE Supervision!Ready
  BY <1>1, TakenMessage
     DEF StopInv, Supervision!Ready, Supervision!process
<1>2. CASE Supervision!NotReady \/ Supervision!Attach \/ Supervision!Prepare
           \/ Supervision!SendStart \/ Supervision!Acknowledge
  BY <1>2 DEF StopInv, Supervision!NotReady, Supervision!Attach, Supervision!Prepare,
     Supervision!SendStart, Supervision!Acknowledge, Supervision!process
<1>3. CASE Supervision!ManifestFails \/ Supervision!SendStartFails
  <2>1. Supervision!EmergencyStop /\ messages' = messages /\ sup' = sup
    BY <1>3 DEF Supervision!ManifestFails, Supervision!SendStartFails
  <2>2. QED
    BY <2>1, EmergencyKeepsDead DEF StopInv
<1>4. CASE Supervision!Receive
  BY <1>4, ReadKeepsStopInv DEF Supervision!Receive
<1>5. CASE Supervision!ReceiveError
  <2>1. CASE messages # <<>> /\ messages' = Tail(messages) /\ Supervision!Handle(Head(messages))
    BY <1>5, <2>1, ReadKeepsStopInv DEF Supervision!ReceiveError
  <2>2. CASE Supervision!EmergencyStop /\ messages' = messages
    <3>1. sup' = sup
      BY <1>5 DEF Supervision!ReceiveError
    <3>2. QED
      BY <2>2, <3>1, EmergencyKeepsDead DEF StopInv
  <2> QED
    BY <1>5, <2>1, <2>2 DEF Supervision!ReceiveError
<1> QED
  BY <1>1, <1>2, <1>3, <1>4, <1>5 DEF Supervision!Loop

LEMMA SupervisorKeepsStopInv ==
  ASSUME StopInv, Reasoned, Supervision!Supervisor
  PROVE  StopInv'
<1>1. CASE Supervision!Boot
  <2>1. group # "dead" /\ group' \in {group, "anchor"} /\ sup' \in {"idle", "gone"} /\ marked' = marked
    BY <1>1 DEF StopInv, Supervision!Boot, Supervision!Gone, Supervision!worker
  <2>2. /\ messages' \in Seq(Supervision!Message)
        /\ messages' \in Seq(Supervision!Message \ StopReports)
    BY <1>1, <2>1, TellKeepsTyped, PlainMessages DEF StopInv, Supervision!Boot
  <2>3. QED
    BY <2>1, <2>2 DEF StopInv
<1>2. CASE Supervision!Command
  <2>1. /\ marked' = marked /\ sup' \in {sup, "stopping", "running", "gone"}
        /\ sup' \in {"boot", "reporting"} => sup' = sup
        /\ sup \in {"idle", "running"}
    BY <1>2 DEF Supervision!Command, Supervision!Leave, Supervision!Gone, Supervision!worker
  <2>2. CASE messages' = messages /\ group' = group
    BY <2>1, <2>2 DEF StopInv
  <2>3. CASE group = "anchor" /\ group' = "runtime"
    <3>1. messages' = messages \/ Supervision!Tell(Supervision!Plain("started"))
      BY <1>2 DEF Supervision!Command
    <3>2. messages' \in Seq(Supervision!Message \ StopReports) /\ messages' \in Seq(Supervision!Message)
      BY <2>3, <3>1, TellKeepsTyped, PlainMessages DEF StopInv
    <3>3. QED
      BY <2>1, <2>3, <3>2 DEF StopInv
  <2> QED
    BY <1>2, <2>2, <2>3 DEF Supervision!Command
<1>3. CASE Supervision!EndOfControl \/ Supervision!LeaseStops \/ Supervision!NoticeExit
  BY <1>3 DEF StopInv, Supervision!EndOfControl, Supervision!LeaseStops, Supervision!NoticeExit,
     Supervision!Leave, Supervision!worker, Supervision!pipes
<1>4. CASE Supervision!StopGroup
  BY <1>4 DEF StopInv, Supervision!StopGroup, Supervision!worker, Supervision!pipes
<1>5. CASE Supervision!Report
  <2>1. sup = "reporting" /\ sup' = "gone" /\ marked' = marked /\ group' = group /\ group = "dead"
    BY <1>5 DEF StopInv, Supervision!Report, Supervision!Gone, Supervision!worker
  <2>2. messages' \in Seq(Supervision!Message)
    <3>1. why # None => [type |-> "exit", cause |-> why, unverified |-> FALSE] \in Supervision!Message
      BY DEF StopInv, Reasoned, Supervision!Message, Supervision!Exit
    <3>2. QED
      BY <1>5, <2>1, <3>1, TellKeepsTyped DEF StopInv, Supervision!Report
  <2>3. QED
    BY <2>1, <2>2 DEF StopInv
<1> QED
  BY <1>1, <1>2, <1>3, <1>4, <1>5 DEF Supervision!Supervisor

LEMMA OthersKeepStopInv ==
  ASSUME StopInv, Reasoned, Staged, Supervision!Others
  PROVE  StopInv'
<1>1. CASE \/ Supervision!Renew \/ Supervision!AgentReports \/ Supervision!WorkerCrashes
           \/ Supervision!LeaseFires \/ Supervision!WorkTimer \/ Supervision!StageOver
  BY <1>1 DEF StopInv, Supervision!Renew, Supervision!AgentReports, Supervision!WorkerCrashes,
     Supervision!LeaseFires, Supervision!WorkTimer, Supervision!StageOver, Supervision!Leave,
     Supervision!worker, Supervision!pipes, Supervision!process, Supervision!vars
<1>2. CASE Supervision!StopGroupUnverified
  <2>1. why \in Supervision!Causes \cup {None} /\ sup' = "gone" /\ marked' = marked /\ group' = group
    BY <1>2 DEF Reasoned, Supervision!StopGroupUnverified, Supervision!Gone, Supervision!worker
  <2>2. messages' \in Seq(Supervision!Message)
        /\ (group # "dead" => messages' \in Seq(Supervision!Message \ StopReports))
    <3>1. PICK cause : /\ cause = IF why = "outcome_reported" THEN "supervisor_error" ELSE why
                       /\ Supervision!Tell([type |-> "exit", cause |-> cause, unverified |-> TRUE])
      BY <1>2 DEF Supervision!StopGroupUnverified
    <3>2. why \in Supervision!Causes
      BY <1>2 DEF Staged, Supervision!StopGroupUnverified
    <3>3. [type |-> "exit", cause |-> cause, unverified |-> TRUE] \in Supervision!Message \ StopReports
      BY <3>1, <3>2 DEF Supervision!Message, Supervision!Exit, Supervision!Causes, StopReports
    <3>4. QED
      BY <3>1, <3>3, TellKeepsTyped
  <2>3. QED
    BY <2>1, <2>2 DEF StopInv
<1>3. CASE Supervision!SupervisorKilled
  BY <1>3 DEF StopInv, Supervision!SupervisorKilled, Supervision!Gone, Supervision!worker
<1>4. CASE Supervision!Output
  <2>1. sup' \in {sup, "gone"} /\ marked' = marked /\ group' = group
    BY <1>4 DEF Supervision!Output, Supervision!Gone, Supervision!worker
  <2>2. messages' = messages \/ Supervision!Tell(Supervision!Plain("output"))
    BY <1>4 DEF Supervision!Output
  <2>3. QED
    BY <2>1, <2>2, TellKeepsTyped, PlainMessages DEF StopInv
<1>5. CASE Supervision!RuntimeExits
  BY <1>5 DEF StopInv, Supervision!RuntimeExits, Supervision!worker, Supervision!pipes
<1>6. ASSUME NEW r, Supervision!HeartbeatStops(r) \/ Supervision!Interrupt(r) PROVE StopInv'
  BY <1>6 DEF StopInv, Supervision!HeartbeatStops, Supervision!Interrupt, Supervision!worker,
     Supervision!process
<1> QED
  BY <1>1, <1>2, <1>3, <1>4, <1>5, <1>6 DEF Supervision!Others

LEMMA SendKeepsReasoned ==
  ASSUME Reasoned, NEW c \in Supervision!Commands, Supervision!Send(c)
  PROVE  control' \in Seq(Supervision!Commands)
BY DEF Reasoned, Supervision!Send

LEMMA StopKeepsReasoned ==
  ASSUME Reasoned, NEW r \in Supervision!Reasons, Supervision!Stop(r)
  PROVE  /\ reason' \in Supervision!Reasons \cup {None}
         /\ control' \in Seq(Supervision!Commands)
<1>1. Supervision!StopCommand(r) \in Supervision!Commands
  BY DEF Supervision!StopCommand, Supervision!Commands, Supervision!Reasons
<1>2. QED
  BY <1>1, SendKeepsReasoned DEF Reasoned, Supervision!Stop

LEMMA StepKeepsReasoned ==
  ASSUME Reasoned, Supervision!Next
  PROVE  Reasoned'
<1>1. CASE Supervision!Attach
  <2>1. PICK c \in {"renew", "lease_lost"} :
           Supervision!Send(IF reason # None THEN Supervision!StopCommand(reason) ELSE c)
    BY <1>1 DEF Supervision!Attach
  <2>2. (IF reason # None THEN Supervision!StopCommand(reason) ELSE c) \in Supervision!Commands
    BY DEF Reasoned, Supervision!StopCommand, Supervision!Commands, Supervision!Reasons
  <2>3. control' \in Seq(Supervision!Commands)
    BY <2>1, <2>2, SendKeepsReasoned
  <2>4. QED
    BY <1>1, <2>3 DEF Reasoned, Supervision!Attach, Supervision!process
<1>2. CASE \/ Supervision!Prepare \/ Supervision!ManifestFails \/ Supervision!Acknowledge
           \/ \E r \in {"cancelled", "lease_lost", "failed"} : Supervision!HeartbeatStops(r)
           \/ \E r \in {"cancelled", "timeout"} : Supervision!Interrupt(r)
  <2>1. \/ reason' = reason /\ control' = control
        \/ \E r \in Supervision!Reasons : Supervision!Stop(r)
    BY <1>2 DEF Supervision!Reasons, Supervision!Prepare, Supervision!ManifestFails,
       Supervision!Acknowledge, Supervision!HeartbeatStops, Supervision!Interrupt
  <2>2. why' = why
    BY <1>2 DEF Supervision!Prepare, Supervision!ManifestFails, Supervision!Acknowledge,
       Supervision!HeartbeatStops, Supervision!Interrupt, Supervision!process
  <2>3. QED
    BY <2>1, <2>2, StopKeepsReasoned DEF Reasoned
<1>3. CASE \/ Supervision!SendStart \/ Supervision!Renew \/ Supervision!AgentReports
  <2>1. \/ control' = control
        \/ \E c \in Supervision!Commands : Supervision!Send(c)
    BY <1>3 DEF Supervision!Commands, Supervision!SendStart, Supervision!Renew, Supervision!AgentReports
  <2>2. why' = why /\ reason' = reason
    BY <1>3 DEF Supervision!SendStart, Supervision!Renew, Supervision!AgentReports,
       Supervision!handle, Supervision!process
  <2>3. QED
    BY <2>1, <2>2, SendKeepsReasoned DEF Reasoned
<1>4. CASE Supervision!Command
  <2>1. Head(control) \in Supervision!Commands /\ control' \in Seq(Supervision!Commands)
    BY <1>4 DEF Reasoned, Supervision!Command
  <2>2. reason' = reason
    BY <1>4 DEF Supervision!Command, Supervision!handle
  <2>3. \/ why' = why
        \/ ~Supervision!Stays(Head(control))
           /\ why' = IF Head(control) = "start" THEN "supervisor_error"
                     ELSE Supervision!CauseOf(Head(control))
    BY <1>4 DEF Supervision!Command, Supervision!Leave
  <2>4. why' \in Supervision!Causes \cup {None}
    BY <2>1, <2>3 DEF Reasoned, Supervision!Commands, Supervision!Causes, Supervision!CauseOf,
       Supervision!OutcomeReason, Supervision!Stays
  <2>5. QED
    BY <2>1, <2>2, <2>4 DEF Reasoned
<1>5. CASE \/ Supervision!EndOfControl \/ Supervision!LeaseStops \/ Supervision!NoticeExit
           \/ Supervision!WorkTimer
  BY <1>5 DEF Reasoned, Supervision!EndOfControl, Supervision!LeaseStops, Supervision!NoticeExit,
     Supervision!WorkTimer, Supervision!Leave, Supervision!Causes, Supervision!handle, Supervision!pipes
<1>6. CASE \/ Supervision!Ready \/ Supervision!NotReady \/ Supervision!SendStartFails
           \/ Supervision!Receive \/ Supervision!ReceiveError \/ Supervision!Boot
           \/ Supervision!StopGroup \/ Supervision!Report \/ Supervision!WorkerCrashes
           \/ Supervision!LeaseFires \/ Supervision!StopGroupUnverified
           \/ Supervision!SupervisorKilled \/ Supervision!Output \/ Supervision!RuntimeExits
           \/ Supervision!StageOver
  <2>1. reason' = reason /\ control' = control /\ why' = why
    BY <1>6 DEF Supervision!Ready, Supervision!NotReady, Supervision!SendStartFails,
       Supervision!Receive, Supervision!ReceiveError, Supervision!Boot, Supervision!StopGroup,
       Supervision!Report, Supervision!WorkerCrashes, Supervision!LeaseFires,
       Supervision!StopGroupUnverified, Supervision!SupervisorKilled, Supervision!Output,
       Supervision!RuntimeExits, Supervision!StageOver, Supervision!handle, Supervision!process,
       Supervision!pipes, Supervision!vars
  <2>2. QED
    BY <2>1 DEF Reasoned
<1> QED
  BY <1>1, <1>2, <1>3, <1>4, <1>5, <1>6
     DEF Supervision!Next, Supervision!Loop, Supervision!Supervisor, Supervision!Others

LEMMA StepKeepsStaged ==
  ASSUME StopInv, Reasoned, Staged, Supervision!Next
  PROVE  Staged'
<1>1. CASE Supervision!Loop
  <2>1. sup' = sup /\ why' = why
    BY <1>1 DEF Supervision!Loop, Supervision!Ready, Supervision!NotReady, Supervision!Attach,
       Supervision!Prepare, Supervision!ManifestFails, Supervision!SendStart,
       Supervision!SendStartFails, Supervision!Acknowledge, Supervision!Receive,
       Supervision!ReceiveError, Supervision!process
  <2>2. group' = group \/ Supervision!EmergencyStop
    BY <1>1, HandleKeepsDead DEF Supervision!Loop, Supervision!Ready, Supervision!NotReady,
       Supervision!Attach, Supervision!Prepare, Supervision!ManifestFails, Supervision!SendStart,
       Supervision!SendStartFails, Supervision!Acknowledge, Supervision!Receive,
       Supervision!ReceiveError, Supervision!process
  <2>3. QED
    BY <2>1, <2>2, EmergencyKeepsDead DEF Staged
<1>2. CASE Supervision!Boot
  BY <1>2 DEF Staged, StopInv, Supervision!Boot, Supervision!Gone
<1>3. CASE Supervision!Command
  <2>1. CASE sup' = sup /\ group' = group /\ why' = why
    BY <2>1 DEF Staged
  <2>2. CASE /\ sup' = "stopping" /\ group' = group
             /\ why' = IF Head(control) = "start" THEN "supervisor_error"
                       ELSE Supervision!CauseOf(Head(control))
             /\ ~Supervision!Stays(Head(control))
    <3>1. Head(control) \in Supervision!Commands
      BY <1>3 DEF Reasoned, Supervision!Command
    <3>2. why' \in Supervision!Causes
      BY <2>2, <3>1 DEF Supervision!Commands, Supervision!Causes, Supervision!CauseOf,
         Supervision!OutcomeReason, Supervision!Stays
    <3>3. QED
      BY <2>2, <3>2 DEF Staged
  <2>3. CASE sup' \in {"running", "gone"}
    BY <2>3 DEF Staged
  <2> QED
    BY <1>3, <2>1, <2>2, <2>3 DEF Supervision!Command, Supervision!Leave, Supervision!Gone
<1>4. CASE \/ Supervision!EndOfControl \/ Supervision!LeaseStops \/ Supervision!NoticeExit
           \/ Supervision!WorkTimer
  BY <1>4 DEF Staged, Supervision!EndOfControl, Supervision!LeaseStops, Supervision!NoticeExit,
     Supervision!WorkTimer, Supervision!Leave, Supervision!Causes
<1>5. CASE \/ Supervision!StopGroup \/ Supervision!Report \/ Supervision!StopGroupUnverified
           \/ Supervision!SupervisorKilled
  BY <1>5 DEF Staged, Supervision!StopGroup, Supervision!Report, Supervision!StopGroupUnverified,
     Supervision!SupervisorKilled, Supervision!Gone
<1>6. CASE Supervision!Output
  BY <1>6 DEF Staged, Supervision!Output, Supervision!Gone
<1>7. CASE Supervision!RuntimeExits
  BY <1>7 DEF Staged, Supervision!RuntimeExits
<1>8. CASE \/ Supervision!Renew \/ Supervision!AgentReports \/ Supervision!WorkerCrashes
           \/ Supervision!LeaseFires \/ Supervision!StageOver
           \/ \E r \in {"cancelled", "lease_lost", "failed"} : Supervision!HeartbeatStops(r)
           \/ \E r \in {"cancelled", "timeout"} : Supervision!Interrupt(r)
  BY <1>8 DEF Staged, Supervision!Renew, Supervision!AgentReports, Supervision!WorkerCrashes,
     Supervision!LeaseFires, Supervision!StageOver, Supervision!HeartbeatStops,
     Supervision!Interrupt, Supervision!process, Supervision!vars
<1> QED
  BY <1>1, <1>2, <1>3, <1>4, <1>5, <1>6, <1>7, <1>8
     DEF Supervision!Next, Supervision!Supervisor, Supervision!Others

StopIInv == StopInv /\ Reasoned /\ Staged

LEMMA StopStep == StopIInv /\ [WorkerNext]_allVars => StopIInv'
<1> SUFFICES ASSUME StopIInv, [WorkerNext]_allVars PROVE StopIInv'
  OBVIOUS
<1>1. CASE Supervision!Next
  BY <1>1, LoopKeepsStopInv, SupervisorKeepsStopInv, OthersKeepStopInv, StepKeepsReasoned,
     StepKeepsStaged DEF StopIInv, Supervision!Next
<1>2. CASE UNCHANGED supervising
  BY <1>2 DEF supervising, StopIInv, StopInv, Reasoned, Staged
<1> QED
  BY <1>1, <1>2, EachPartSteps

\* A process marked as stopped is dead: by the worker's own stop of the group
\* or by the report of a supervisor that has stopped it before, whatever is
\* killed on the way, in whatever order messages and errors are read
\* (attempt_lifecycle.go:670).
THEOREM StoppedIsDeadCorrect == WorkerSpec => []StoppedIsDead
<1>1. WorkerInit => StopIInv
  BY StopInit DEF WorkerInit, StopIInv
<1>2. StopIInv => StoppedIsDead
  BY DEF StopIInv, StopInv, StoppedIsDead, Supervision!StoppedIsDead
<1>3. QED
  BY <1>1, <1>2, StopStep, PTL DEF WorkerSpec, allVars

-----------------------------------------------------------------------------
(* The events.  A sender that waits for one answer at a time has nothing   *)
(* on the wire that is ahead of the history: what is refused for its order *)
(* is old, and what is appended is the next.                               *)

Numbered == {e \in [sequence : Nat, line : Nat] : e.line = e.sequence + 1}

EventRows ==
    /\ lines \in Nat /\ next \in Nat
    /\ queue \in Seq(Numbered) /\ sending \in Seq(Numbered) /\ events \in Seq(Numbered)
    /\ packets \subseteq Numbered /\ response \in {"none", "ok", "refused"}

(* As long as lines are recorded every one is.                             *)
EveryLine == disabled \/ closed \/ next = lines

(* The queue ends with the last event that was numbered, and the sender    *)
(* has the one before its head.                                            *)
InTurn ==
    /\ \A i \in DOMAIN queue : queue[i].sequence + Len(queue) + 1 = next + i
    /\ ~ended /\ sending = <<>> => Len(events) + Len(queue) >= next
    /\ ~ended /\ sending # <<>> => /\ sending[1].sequence + Len(queue) + 1 = next
                                   /\ sending[1].sequence <= Len(events)
    /\ response = "ok" /\ sending # <<>> => sending[1].sequence < Len(events)

NeverAhead == \A e \in packets : e.sequence <= Len(events)

Contiguous == \A i \in DOMAIN events : events[i].sequence = i - 1

EventInv == EventRows /\ EveryLine /\ InTurn /\ NeverAhead /\ Contiguous

LEMMA EventInit == Events!Init => EventInv
BY DEF Events!Init, EventInv, EventRows, EveryLine, InTurn, NeverAhead, Contiguous

LEMMA AppendedAt ==
  ASSUME NEW S, NEW s \in Seq(S), NEW e \in S
  PROVE  /\ Append(s, e) \in Seq(S) /\ Len(Append(s, e)) = Len(s) + 1
         /\ DOMAIN Append(s, e) = 1 .. Len(s) + 1 /\ DOMAIN s = 1 .. Len(s) /\ Len(s) \in Nat
         /\ Append(s, e)[Len(s) + 1] = e
         /\ \A i \in DOMAIN s : Append(s, e)[i] = s[i]
OBVIOUS

LEMMA TailAt ==
  ASSUME NEW S, NEW s \in Seq(S), s # <<>>
  PROVE  /\ Head(s) \in S /\ Head(s) = s[1] /\ Tail(s) \in Seq(S)
         /\ Len(s) \in Nat /\ DOMAIN s = 1 .. Len(s) /\ Len(s) > 0
         /\ Len(Tail(s)) = Len(s) - 1 /\ DOMAIN Tail(s) = 1 .. Len(s) - 1
         /\ \A i \in 1 .. Len(s) - 1 : Tail(s)[i] = s[i + 1]
OBVIOUS

LEMMA EnqueueKeepsEventInv == EventInv /\ Events!Enqueue => EventInv'
<1> SUFFICES ASSUME EventInv, Events!Enqueue PROVE EventInv'
  OBVIOUS
<1> USE DEF EventInv
<1>1. /\ lines' = lines + 1 /\ closed' = closed
      /\ UNCHANGED <<sending, ended, packets, response, events>>
  BY DEF Events!Enqueue, Events!sender, Events!network, Events!server
<1>2. CASE UNCHANGED <<queue, next>> /\ (disabled' \/ closed')
  BY <1>1, <1>2 DEF EventRows, EveryLine, InTurn, NeverAhead, Contiguous
<1>3. CASE /\ ~disabled /\ ~closed /\ disabled' = disabled
           /\ queue' = Append(queue, [sequence |-> next, line |-> lines']) /\ next' = next + 1
  <2>1. [sequence |-> next, line |-> lines'] \in Numbered
    BY <1>1, <1>3 DEF EventRows, EveryLine, Numbered
  <2>2. EventRows' /\ EveryLine'
    BY <1>1, <1>3, <2>1 DEF EventRows, EveryLine
  <2>3. InTurn'
    <3>1. Append(queue, [sequence |-> next, line |-> lines'])[Len(queue) + 1].sequence = next
      BY <2>1, AppendedAt DEF EventRows
    <3>2. \A i \in DOMAIN queue' : queue'[i].sequence + Len(queue') + 1 = next' + i
      <4> SUFFICES ASSUME NEW i \in DOMAIN queue'
                   PROVE  queue'[i].sequence + Len(queue') + 1 = next' + i
        OBVIOUS
      <4>1. i \in 1 .. Len(queue) + 1 /\ Len(queue') = Len(queue) + 1 /\ Len(queue) \in Nat
        BY <1>3, <2>1, AppendedAt DEF EventRows
      <4>2. CASE i = Len(queue) + 1
        BY <1>3, <3>1, <4>1, <4>2 DEF EventRows
      <4>3. CASE i # Len(queue) + 1
        <5>1. i \in DOMAIN queue /\ queue'[i] = queue[i] /\ queue[i].sequence \in Nat
          BY <1>3, <2>1, <4>1, <4>3, AppendedAt DEF EventRows, Numbered
        <5>2. QED
          BY <1>3, <4>1, <5>1 DEF InTurn, EventRows
      <4> QED
        BY <4>2, <4>3
    <3>3. Len(queue') = Len(queue) + 1 /\ Len(queue) \in Nat /\ Len(events) \in Nat
      BY <1>3, <2>1, AppendedAt DEF EventRows
    <3>4. sending # <<>> => sending[1].sequence \in Nat
      BY DEF EventRows, Numbered
    <3>5. ended' = ended
      BY DEF Events!Enqueue, Events!sender
    <3>6. QED
      BY <1>1, <1>3, <3>2, <3>3, <3>4, <3>5 DEF InTurn, EventRows
  <2>4. QED
    BY <1>1, <2>2, <2>3 DEF NeverAhead, Contiguous
<1> QED
  BY <1>1, <1>2, <1>3 DEF Events!Enqueue, Events!Full

LEMMA TakeKeepsEventInv == EventInv /\ Events!Take => EventInv'
<1> SUFFICES ASSUME EventInv, Events!Take PROVE EventInv'
  OBVIOUS
<1> USE DEF EventInv
<1>1. /\ ~ended /\ sending = <<>> /\ queue # <<>>
      /\ sending' = <<Head(queue)>> /\ queue' = Tail(queue)
      /\ packets' \subseteq packets \cup {Head(queue)}
      /\ response' = "none"
      /\ UNCHANGED <<lines, next, disabled, closed, ended, events>>
  BY DEF Events!Take, Events!server
<1>2. Head(queue) \in Numbered /\ Head(queue) = queue[1] /\ 1 \in DOMAIN queue
  BY <1>1 DEF EventRows
<1>3. Head(queue).sequence + Len(queue) = next /\ Head(queue).sequence <= Len(events)
  <2>1. queue[1].sequence + Len(queue) + 1 = next + 1 /\ Len(events) + Len(queue) >= next
    BY <1>1, <1>2 DEF InTurn
  <2>2. queue[1].sequence \in Nat /\ Len(queue) \in Nat /\ Len(events) \in Nat /\ next \in Nat
    BY <1>2 DEF EventRows, Numbered
  <2>3. QED
    BY <1>2, <2>1, <2>2
<1>4. EventRows' /\ EveryLine'
  BY <1>1, <1>2 DEF EventRows, EveryLine
<1>5. InTurn'
  <2>1. /\ Len(queue) \in Nat /\ Len(queue') = Len(queue) - 1 /\ DOMAIN queue' = 1 .. Len(queue) - 1
        /\ DOMAIN queue = 1 .. Len(queue)
        /\ \A i \in 1 .. Len(queue) - 1 : queue'[i] = queue[i + 1]
    BY <1>1, TailAt DEF EventRows
  <2>2. \A i \in DOMAIN queue' : queue'[i].sequence + Len(queue') + 1 = next' + i
    <3> SUFFICES ASSUME NEW i \in 1 .. Len(queue) - 1
                 PROVE  queue'[i].sequence + Len(queue') + 1 = next + i
      BY <1>1, <2>1
    <3>1. i + 1 \in DOMAIN queue /\ queue'[i] = queue[i + 1] /\ queue[i + 1].sequence \in Nat
      BY <2>1 DEF EventRows, Numbered
    <3>2. queue[i + 1].sequence + Len(queue) + 1 = next + (i + 1)
      BY <3>1 DEF InTurn
    <3>3. Len(queue) \in Nat /\ Len(queue') = Len(queue) - 1 /\ next \in Nat /\ i \in Nat
      BY <2>1 DEF EventRows
    <3>4. queue'[i].sequence = queue[i + 1].sequence /\ queue[i + 1].sequence \in Nat
      BY <3>1
    <3>5. queue[i + 1].sequence + Len(queue) = next + i
      BY <3>2, <3>3, <3>4
    <3>6. Len(queue') + 1 = Len(queue)
      BY <3>3
    <3>7. queue'[i].sequence + Len(queue') + 1 = queue'[i].sequence + Len(queue)
      BY <3>3, <3>4, <3>6
    <3>8. QED
      BY <3>4, <3>5, <3>7
  <2>3. sending' # <<>> /\ sending'[1] = Head(queue) /\ Head(queue).sequence \in Nat
    BY <1>1, <1>2 DEF Numbered
  <2>4. QED
    BY <1>1, <1>3, <2>1, <2>2, <2>3 DEF InTurn, EventRows
<1>6. NeverAhead' /\ Contiguous'
  BY <1>1, <1>3 DEF NeverAhead, Contiguous
<1> QED
  BY <1>4, <1>5, <1>6

LEMMA SendingKeepsEventInv ==
  EventInv /\ (Events!SendAgain \/ Events!Answered \/ Events!Return) => EventInv'
<1> USE DEF EventInv
<1>1. ASSUME EventInv, Events!SendAgain PROVE EventInv'
  BY <1>1 DEF Events!SendAgain, EventRows, EveryLine, InTurn, NeverAhead, Contiguous,
     Events!channel, Events!sender, Events!server
<1>2. ASSUME EventInv, Events!Answered PROVE EventInv'
  <2>1. /\ ~ended /\ sending # <<>> /\ sending' = <<>>
        /\ response # "ok" => ended' = TRUE
        /\ ended' = (response = "refused")
        /\ disabled => disabled'
        /\ response' = "none"
        /\ UNCHANGED <<lines, queue, next, closed, packets, events>>
    BY <1>2 DEF Events!Answered, EventRows, Events!server
  <2>2. sending[1] \in Numbered
    BY <1>2, <2>1 DEF EventRows
  <2>3. QED
    BY <1>2, <2>1, <2>2 DEF EventRows, EveryLine, InTurn, NeverAhead, Contiguous, Numbered
<1>3. ASSUME EventInv, Events!Return PROVE EventInv'
  BY <1>3 DEF Events!Return, EventRows, EveryLine, InTurn, NeverAhead, Contiguous,
     Events!channel, Events!network, Events!server
<1> QED
  BY <1>1, <1>2, <1>3

(* The answer to an event that is in the history, or a refusal.            *)
LEMMA AppendKeepsEventInv ==
  ASSUME EventInv, NEW e \in packets, Events!AppendEvent(e)
  PROVE  EventInv'
<1> USE DEF EventInv
<1>1. /\ packets' \subseteq packets
      /\ UNCHANGED <<lines, queue, next, disabled, closed, sending, ended>>
  BY DEF Events!AppendEvent, Events!channel, Events!sender
<1>2. e \in Numbered /\ e.sequence \in Nat /\ e.sequence <= Len(events) /\ Len(events) \in Nat
      /\ DOMAIN events = 1 .. Len(events)
  BY DEF EventRows, NeverAhead, Numbered
<1>3. CASE Events!Reply(e, "refused") /\ events' = events
  BY <1>1, <1>3 DEF EventRows, EveryLine, InTurn, NeverAhead, Contiguous, Events!Reply
<1>4. CASE Events!Known(e) /\ Events!Reply(e, "ok") /\ events' = events
  <2>1. e.sequence < Len(events)
    BY <1>2, <1>4 DEF Contiguous, Events!Known
  <2>2. QED
    BY <1>1, <1>4, <2>1 DEF EventRows, EveryLine, InTurn, NeverAhead, Contiguous, Events!Reply
<1>5. CASE Events!InOrder(e) /\ Events!Reply(e, "ok") /\ events' = Append(events, e)
  <2>1. e.sequence = Len(events)
    <3>1. CASE events = <<>>
      BY <1>2, <3>1
    <3>2. CASE events # <<>>
      <4>1. events[Len(events)].sequence = Len(events) - 1
        BY <1>2, <3>2 DEF Contiguous, EventRows
      <4>2. QED
        BY <1>2, <1>5, <3>2, <4>1 DEF Events!InOrder, Events!Last
    <3> QED
      BY <3>1, <3>2
  <2>2. /\ events' \in Seq(Numbered) /\ Len(events') = Len(events) + 1
        /\ DOMAIN events' = 1 .. Len(events) + 1 /\ events'[Len(events) + 1] = e
        /\ \A i \in DOMAIN events : events'[i] = events[i]
    BY <1>2, <1>5, AppendedAt DEF EventRows
  <2>3. Contiguous'
    BY <1>2, <2>1, <2>2 DEF Contiguous
  <2>4. NeverAhead'
    BY <1>1, <1>2, <2>2 DEF NeverAhead, EventRows, Numbered
  <2>5. InTurn'
    <3>1. sending # <<>> => sending[1].sequence \in Nat
      BY DEF EventRows, Numbered
    <3>2. Len(queue) \in Nat /\ next \in Nat
      BY DEF EventRows
    <3>3. response' = response \/ (sending # <<>> /\ sending[1] = e)
      BY <1>5 DEF Events!Reply
    <3>4. QED
      BY <1>1, <1>2, <2>1, <2>2, <3>1, <3>2, <3>3 DEF InTurn
  <2>6. EventRows' /\ EveryLine'
    BY <1>1, <1>5, <2>2 DEF EventRows, EveryLine, Events!Reply
  <2> QED
    BY <2>3, <2>4, <2>5, <2>6
<1> QED
  BY <1>3, <1>4, <1>5 DEF Events!AppendEvent

LEMMA EventStep == EventInv /\ [WorkerNext]_allVars => EventInv'
<1> SUFFICES ASSUME EventInv, [WorkerNext]_allVars PROVE EventInv'
  OBVIOUS
<1>1. CASE Events!Enqueue
  BY <1>1, EnqueueKeepsEventInv
<1>2. CASE Events!Take \/ Events!SendAgain \/ Events!Answered \/ Events!Return
  BY <1>2, TakeKeepsEventInv, SendingKeepsEventInv
<1>3. CASE Events!Close \/ Events!Cancel \/ Events!AttemptEnds
  BY <1>3 DEF EventInv, EventRows, EveryLine, InTurn, NeverAhead, Contiguous, Events!Close,
     Events!Cancel, Events!AttemptEnds, Events!channel, Events!sender, Events!network, Events!server
<1>4. ASSUME NEW e \in packets, Events!AppendEvent(e) PROVE EventInv'
  BY <1>4, AppendKeepsEventInv
<1>5. ASSUME NEW e \in packets, Events!LoseRequest(e) PROVE EventInv'
  BY <1>5 DEF EventInv, EventRows, EveryLine, InTurn, NeverAhead, Contiguous, Events!LoseRequest,
     Events!channel, Events!sender, Events!server
<1>6. CASE UNCHANGED reporting
  BY <1>6 DEF reporting, EventInv, EventRows, EveryLine, InTurn, NeverAhead, Contiguous
<1>7. CASE Events!Done
  BY <1>7 DEF Events!Done, Events!vars, Events!channel, Events!sender, Events!network,
     Events!server, EventInv, EventRows, EveryLine, InTurn, NeverAhead, Contiguous
<1> QED
  BY <1>1, <1>2, <1>3, <1>4, <1>5, <1>6, <1>7, EachPartSteps DEF Events!Next

\* The event history of an attempt is a beginning of what its runtime wrote,
\* line by line: no request that is lost, repeated or late, and no overflow,
\* makes a gap, a duplicate or another order (events.go:35-50,
\* state.go:573-594).
THEOREM HistoryIsPrefixCorrect == WorkerSpec => []HistoryIsPrefix
<1>1. WorkerInit => EventInv
  BY EventInit DEF WorkerInit
<1>2. ASSUME EventInv PROVE HistoryIsPrefix
  <2> SUFFICES ASSUME NEW i \in DOMAIN events
               PROVE  events[i] = [sequence |-> i - 1, line |-> i]
    BY DEF HistoryIsPrefix, Events!HistoryIsPrefix
  <2>1. i \in Nat /\ events[i] \in Numbered /\ events[i].sequence = i - 1
    BY <1>2 DEF EventInv, EventRows, Contiguous
  <2>2. events[i] = [sequence |-> events[i].sequence, line |-> events[i].line]
        /\ events[i].line = i
    BY <2>1 DEF Numbered
  <2>3. QED
    BY <2>1, <2>2, Zenon
<1>3. QED
  BY <1>1, <1>2, EventStep, PTL DEF WorkerSpec, allVars

-----------------------------------------------------------------------------
(* The claims.                                                             *)

AttemptRow == [state : States, ack : BOOLEAN]
MadeBy(a) == {r \in Requests : requests[r] = a}

ClaimRows ==
    /\ requests \in [Requests -> {"unknown", "empty", "forgotten"} \cup Attempts]
    /\ attempts \in [Attempts -> AttemptRow]

OneRequest ==
    /\ \A a \in Attempts : attempts[a].state # "none" => \E r \in Requests : MadeBy(a) = {r}
    /\ \A a \in Attempts : attempts[a].state = "none" => MadeBy(a) = {}

FewLeases == IsFiniteSet(Active) /\ LeasesWithinCapacity

ClaimInv == ClaimRows /\ OneRequest /\ FewLeases

LEMMA ClaimInit == Init => ClaimInv
<1> SUFFICES ASSUME Init PROVE ClaimInv
  OBVIOUS
<1>1. ClaimRows /\ OneRequest
  BY AttemptsAssumption DEF Init, ClaimRows, OneRequest, MadeBy, AttemptRow, States
<1>2. Active = {}
  BY DEF Init, Active
<1>3. FewLeases
  BY <1>2, FS_EmptySet, CapacityAssumption DEF FewLeases, LeasesWithinCapacity
<1> QED
  BY <1>1, <1>3 DEF ClaimInv

(* A step after which no attempt is new, and no request has changed what   *)
(* it made.                                                                *)
LEMMA NoClaimKeepsClaimInv ==
  ASSUME ClaimInv, ClaimRows',
         \A a \in Attempts : MadeBy(a)' = MadeBy(a),
         \A a \in Attempts : /\ attempts'[a].state = "active" => attempts[a].state = "active"
                             /\ attempts'[a].state = "none" <=> attempts[a].state = "none"
  PROVE  ClaimInv'
<1>1. OneRequest'
  BY DEF ClaimInv, OneRequest
<1>2. Active' \subseteq Active
  BY DEF Active
<1>3. FewLeases'
  <2>1. IsFiniteSet(Active') /\ Cardinality(Active') <= Cardinality(Active)
    BY <1>2, FS_Subset DEF ClaimInv, FewLeases
  <2>2. Cardinality(Active) <= Capacity /\ Cardinality(Active) \in Nat /\ Cardinality(Active') \in Nat
    BY <2>1, FS_CardinalityType DEF ClaimInv, FewLeases, LeasesWithinCapacity
  <2>3. QED
    BY <2>1, <2>2, CapacityAssumption DEF FewLeases, LeasesWithinCapacity
<1> QED
  BY <1>1, <1>3 DEF ClaimInv

(* An attempt that ends, is lost, or is acknowledged.                      *)
LEMMA EndKeepsClaimInv ==
  ASSUME ClaimInv, requests' = requests, attempts' \in [Attempts -> AttemptRow],
         \A a \in Attempts : \/ attempts'[a].state = attempts[a].state
                             \/ /\ attempts[a].state = "active"
                                /\ attempts'[a].state \in {"ended", "lost"}
  PROVE  ClaimInv'
BY NoClaimKeepsClaimInv DEF ClaimInv, ClaimRows, MadeBy

(* An answer that made no attempt is kept, or forgotten.                   *)
LEMMA EmptyKeepsClaimInv ==
  ASSUME ClaimInv, attempts' = attempts, NEW r \in Requests, requests[r] \notin Attempts,
         NEW x \in {"empty", "forgotten"}, requests' = [requests EXCEPT ![r] = x]
  PROVE  ClaimInv'
<1>1. ClaimRows' /\ \A a \in Attempts : MadeBy(a)' = MadeBy(a)
  BY AttemptsAssumption DEF ClaimInv, ClaimRows, MadeBy
<1> QED
  BY <1>1, NoClaimKeepsClaimInv

LEMMA ClaimAttemptKeepsClaimInv ==
  ASSUME ClaimInv, NEW r \in Requests, NEW a \in Attempts, ClaimAttempt(r, a)
  PROVE  ClaimInv'
<1>1. /\ requests[r] \notin Attempts /\ attempts[a].state = "none" /\ Room
      /\ requests' = [requests EXCEPT ![r] = a]
      /\ attempts' = [attempts EXCEPT ![a].state = "active"]
  BY AttemptsAssumption DEF ClaimAttempt, Unknown, ClaimInv, ClaimRows
<1>2. ClaimRows'
  <2>1. attempts[a] \in AttemptRow
    BY DEF ClaimInv, ClaimRows
  <2>2. [attempts[a] EXCEPT !.state = "active"] \in AttemptRow
    BY <2>1 DEF AttemptRow, States
  <2>3. attempts' \in [Attempts -> AttemptRow]
    BY <1>1, <2>2 DEF ClaimInv, ClaimRows
  <2>4. QED
    BY <1>1, <2>3 DEF ClaimInv, ClaimRows
<1>3. /\ attempts'[a].state = "active"
      /\ \A b \in Attempts \ {a} : attempts'[b] = attempts[b]
  BY <1>1 DEF ClaimInv, ClaimRows, AttemptRow
<1>4. MadeBy(a)' = {r} /\ \A b \in Attempts \ {a} : MadeBy(b)' = MadeBy(b)
  BY <1>1 DEF ClaimInv, ClaimRows, OneRequest, MadeBy
<1>5. OneRequest'
  BY <1>3, <1>4 DEF ClaimInv, OneRequest
<1>6. FewLeases'
  <2>1. Active' = Active \cup {a} /\ a \notin Active
    BY <1>1, <1>3 DEF Active
  <2>2. IsFiniteSet(Active') /\ Cardinality(Active') = Cardinality(Active) + 1
    BY <2>1, FS_AddElement DEF ClaimInv, FewLeases
  <2>3. Cardinality(Active) \in Nat /\ Cardinality(Active) < Capacity
    BY <1>1, FS_CardinalityType DEF ClaimInv, FewLeases, Room
  <2>4. QED
    BY <2>2, <2>3, CapacityAssumption DEF FewLeases, LeasesWithinCapacity
<1> QED
  BY <1>2, <1>5, <1>6 DEF ClaimInv

LEMMA ClaimStep == ClaimInv /\ [WorkerNext]_allVars => ClaimInv'
<1> SUFFICES ASSUME ClaimInv, [WorkerNext]_allVars PROVE ClaimInv'
  OBVIOUS
<1>1. CASE UNCHANGED <<requests, attempts>>
  BY <1>1, EndKeepsClaimInv DEF ClaimInv, ClaimRows
<1>2. ASSUME NEW r \in Requests, NEW a \in Attempts, ClaimAttempt(r, a) PROVE ClaimInv'
  BY <1>2, ClaimAttemptKeepsClaimInv
<1>3. ASSUME NEW r \in Requests, ForgetEmpty(r) \/ ClaimNothing(r) PROVE ClaimInv'
  <2>1. \E x \in {"empty", "forgotten"} :
           /\ attempts' = attempts /\ requests[r] \notin Attempts
           /\ requests' = [requests EXCEPT ![r] = x]
    BY <1>3, AttemptsAssumption DEF ForgetEmpty, ClaimNothing, Unknown
  <2>2. QED
    BY <2>1, EmptyKeepsClaimInv
<1>4. ASSUME NEW a, NEW to \in {"ended", "lost"}, requests' = requests,
             attempts' = [attempts EXCEPT ![a].state = IF attempts[a].state = "active" THEN to
                                                       ELSE attempts[a].state]
      PROVE  ClaimInv'
  <2>1. \A b \in Attempts : attempts[b] \in AttemptRow
    BY DEF ClaimInv, ClaimRows
  <2>2. CASE a \notin Attempts
    BY <1>4, <2>2, EndKeepsClaimInv DEF ClaimInv, ClaimRows
  <2>3. CASE a \in Attempts /\ attempts[a].state = "active"
    <3>1. attempts' = [attempts EXCEPT ![a] = [attempts[a] EXCEPT !.state = to]]
      BY <1>4, <2>3
    <3>2. [attempts[a] EXCEPT !.state = to] \in AttemptRow /\ [attempts[a] EXCEPT !.state = to].state = to
      BY <2>1, <2>3 DEF AttemptRow, States
    <3>3. QED
      BY <1>4, <2>3, <3>1, <3>2, EndKeepsClaimInv DEF ClaimInv, ClaimRows
  <2>4. CASE a \in Attempts /\ attempts[a].state # "active"
    <3>1. attempts' = attempts
      BY <1>4, <2>1, <2>4 DEF ClaimInv, ClaimRows, AttemptRow
    <3>2. QED
      BY <1>1, <1>4, <3>1
  <2> QED
    BY <2>2, <2>3, <2>4
<1>5. CASE RegisterSend
  <2>1. requests' = requests /\ attempts' = Acks
    BY <1>5 DEF RegisterSend
  <2>2. \A a \in Attempts : attempts'[a] \in AttemptRow /\ attempts'[a].state = attempts[a].state
    BY <2>1 DEF Acks, ClaimInv, ClaimRows, AttemptRow
  <2>3. attempts' \in [Attempts -> AttemptRow]
    BY <2>1, <2>2 DEF Acks
  <2>4. QED
    BY <2>1, <2>2, <2>3, EndKeepsClaimInv
<1>6. ASSUME NEW a \in Attempts, EndAttempt(a) PROVE ClaimInv'
  <2>1. \/ UNCHANGED <<requests, attempts>>
        \/ /\ requests' = requests
           /\ attempts' = [attempts EXCEPT ![a].state = IF attempts[a].state = "active" THEN "ended"
                                                        ELSE attempts[a].state]
    BY <1>6 DEF EndAttempt
  <2>2. QED
    BY <1>1, <1>4, <2>1
<1>7. CASE Forgo
  <2>1. \/ UNCHANGED <<requests, attempts>>
        \/ /\ requests' = requests
           /\ attempts' = [attempts EXCEPT ![reply.attempt].state =
                             IF attempts[reply.attempt].state = "active" THEN "ended"
                             ELSE attempts[reply.attempt].state]
    BY <1>7 DEF Forgo
  <2>2. QED
    BY <1>1, <1>4, <2>1
<1>8. ASSUME NEW a \in Attempts, Sweep(a) PROVE ClaimInv'
  <2>1. /\ requests' = requests
        /\ attempts' = [attempts EXCEPT ![a].state = IF attempts[a].state = "active" THEN "lost"
                                                     ELSE attempts[a].state]
    BY <1>8 DEF Sweep, Owned
  <2>2. QED
    BY <1>4, <2>1
<1>9. CASE \/ Reserve \/ NoLongerEligible \/ Repeat \/ Cancelled \/ Answered \/ NothingToDo
           \/ EndClaim \/ StartAttempt \/ RegisterDone \/ RegisterFails \/ RegisterRefused
           \/ Heartbeat \/ BeginCheck \/ Checks \/ MarkUnhealthy \/ LoseReply \/ Crash
           \/ \E r \in Requests : BeginClaim(r) \/ Replay(r) \/ LoseRequest(r)
  <2>1. UNCHANGED <<requests, attempts>>
    BY <1>9 DEF Reserve, NoLongerEligible, Repeat, Cancelled, Answered, NothingToDo, EndClaim,
       StartAttempt, RegisterDone, RegisterFails, RegisterRefused, Heartbeat, BeginCheck, Checks,
       SetHealth, MarkUnhealthy, LoseReply, Crash, BeginClaim, Replay, LoseRequest, server
  <2>2. QED
    BY <1>1, <2>1
<1>10. Next \/ UNCHANGED <<requests, attempts>>
  BY EachPartSteps DEF vars, server
<1> QED
  BY <1>1, <1>2, <1>3, <1>5, <1>6, <1>7, <1>8, <1>9, <1>10 DEF Next, Claims, Serves, Registers

\* A request that is repeated, late or forgotten makes at most one attempt,
\* and a worker is never given more leases than it has capacity, for any
\* number of requests (state.go:52-102).
THEOREM ClaimsAgreeCorrect == WorkerSpec => []ClaimsAgree
<1>1. WorkerInit => ClaimInv
  BY ClaimInit DEF WorkerInit
<1>2. ASSUME ClaimInv PROVE ClaimsAgree
  <2>1. ASSUME NEW a \in Attempts, attempts[a].state # "none"
        PROVE  Cardinality({r \in Requests : requests[r] = a}) = 1
    <3>1. PICK r \in Requests : MadeBy(a) = {r}
      BY <1>2, <2>1 DEF ClaimInv, OneRequest
    <3>2. QED
      BY <3>1, FS_Singleton DEF MadeBy
  <2>2. QED
    BY <1>2, <2>1 DEF ClaimInv, FewLeases, ClaimsAgree, OneAttemptPerRequest
<1>3. QED
  BY <1>1, <1>2, ClaimStep, PTL DEF WorkerSpec, allVars

(* Disposals.  What is over is no longer what the claim has asked for.      *)

Asks == claimer.phase \in {"asking", "answered", "eligible", "forgo"}
Offered(a) == Asks /\ requests[claimer.req] = a
IsOver(a) == a \in running \cup disposed \/ attempts[a].ack

ClaimerRows ==
    /\ claimer \in [phase : {"idle", "reserved", "asking", "answered", "eligible", "forgo"},
                    req : Requests \cup {None}]
    /\ Asks => claimer.req \in Requests
    /\ reply \in [req : Requests \cup {None}, answer : {"none", "empty", "conflict", "claim"},
                  attempt : Attempts \cup {None}]
    /\ running \subseteq Attempts /\ disposed \subseteq Attempts

(* The attempt in an answer is the one its request made.                   *)
OfferedIt ==
    /\ reply.attempt # None => Offered(reply.attempt)
    /\ reply.answer = "claim" \/ claimer.phase \in {"eligible", "forgo"} => reply.attempt # None

Disposals ==
    \A a \in Attempts :
        /\ IsOver(a) => attempts[a].state # "none" /\ ~Offered(a)
        /\ a \in running => a \notin disposed /\ ~attempts[a].ack

OverInv == ClaimInv /\ ClaimerRows /\ OfferedIt /\ Disposals

LEMMA OverInit == Init => OverInv
BY ClaimInit, NoneAssumption
   DEF Init, OverInv, ClaimerRows, OfferedIt, Disposals, IsOver, Offered, Asks, Idle, NoReply

(* A step that leaves the requests, the attempts and what runs as they are.*)
ClaimerSteps ==
    \/ Reserve \/ NoLongerEligible \/ Cancelled \/ Answered \/ NothingToDo \/ EndClaim \/ LoseReply
    \/ \E r \in Requests : BeginClaim(r)

LEMMA ClaimerKeepsOverInv ==
  ASSUME OverInv, ClaimInv', ClaimerSteps
  PROVE  OverInv'
<1> USE DEF OverInv
<1>1. UNCHANGED <<requests, attempts, running, disposed>>
  BY DEF ClaimerSteps, Reserve, NoLongerEligible, Cancelled, Answered, NothingToDo, EndClaim,
     LoseReply, BeginClaim, server, local
<1>2. /\ (Asks' => Asks /\ claimer'.req = claimer.req) \/ \E r \in Requests : BeginClaim(r)
      /\ ClaimerRows' /\ OfferedIt'
  <2>1. CASE Reserve \/ NoLongerEligible \/ Cancelled \/ NothingToDo
    BY <1>1, <2>1, NoneAssumption DEF Reserve, NoLongerEligible, Cancelled, NothingToDo, EndedClaim,
       network, ClaimerRows, OfferedIt, Offered, Asks, Idle, NoReply
  <2>2. CASE Answered \/ EndClaim
    BY <1>1, <2>2 DEF Answered, EndClaim, EndedClaim, network, ClaimerRows, OfferedIt, Offered, Asks
  <2>3. CASE LoseReply
    BY <1>1, <2>3 DEF LoseReply, claiming, ClaimerRows, OfferedIt, Offered, Asks, NoReply
  <2>4. ASSUME NEW r \in Requests, BeginClaim(r) PROVE ClaimerRows' /\ OfferedIt'
    BY <1>1, <2>4, NoneAssumption DEF BeginClaim, ClaimerRows, OfferedIt, Offered, Asks, NoReply
  <2> QED
    BY <2>1, <2>2, <2>3, <2>4 DEF ClaimerSteps
<1>3. Disposals'
  <2>1. CASE Asks' => Asks /\ claimer'.req = claimer.req
    BY <1>1, <2>1 DEF Disposals, IsOver, Offered
  <2>2. ASSUME NEW r \in Requests, BeginClaim(r) PROVE Disposals'
    <3>1. claimer'.req = r /\ requests[r] = "unknown"
      BY <2>2 DEF BeginClaim, Drawn
    <3>2. \A a \in Attempts : ~Offered(a)'
      BY <1>1, <3>1, AttemptsAssumption DEF Offered
    <3>3. QED
      BY <1>1, <3>2 DEF Disposals, IsOver
  <2> QED
    BY <1>2, <2>1, <2>2
<1> QED
  BY <1>2, <1>3

(* An answer of the control plane.                                         *)
LEMMA AnswerKeepsOverInv ==
  ASSUME OverInv, ClaimInv', NEW r \in Requests,
         Replay(r) \/ ClaimNothing(r) \/ ForgetEmpty(r) \/ \E a \in Attempts : ClaimAttempt(r, a)
  PROVE  OverInv'
<1> USE DEF OverInv
<1>1. UNCHANGED <<claimer, running, disposed>>
  BY DEF Replay, ClaimNothing, ForgetEmpty, ClaimAttempt, claiming, local
<1>2. CASE Replay(r)
  <2>1. UNCHANGED <<requests, attempts>>
    BY <1>2 DEF Replay, server
  <2>2. \/ reply' = reply
        \/ /\ claimer.phase = "asking" /\ claimer.req = r
           /\ \/ reply' = [req |-> r, answer |-> "empty", attempt |-> None]
              \/ reply' = [req |-> r, answer |-> "conflict", attempt |-> None]
              \/ /\ requests[r] \in Attempts
                 /\ reply' = [req |-> r, answer |-> "claim", attempt |-> requests[r]]
    BY <1>2 DEF Replay, Answer
  <2>3. ClaimerRows' /\ OfferedIt'
    BY <1>1, <2>1, <2>2, NoneAssumption DEF ClaimerRows, OfferedIt, Offered, Asks
  <2>4. QED
    BY <1>1, <2>1, <2>3 DEF Disposals, IsOver, Offered, Asks
<1>3. CASE ClaimNothing(r) \/ ForgetEmpty(r)
  <2>1. /\ attempts' = attempts /\ requests[r] \notin Attempts
        /\ \A q \in Requests : requests'[q] # requests[q] => q = r
        /\ requests'[r] \in {"empty", "forgotten"}
    BY <1>3, AttemptsAssumption DEF ClaimNothing, ForgetEmpty, Unknown, ClaimInv, ClaimRows
  <2>2. reply' = reply \/ (/\ claimer.phase = "asking"
                           /\ reply' = [req |-> r, answer |-> "empty", attempt |-> None])
    BY <1>3 DEF ClaimNothing, ForgetEmpty, Answer, network
  <2>3. \A a \in Attempts : Offered(a)' <=> Offered(a)
    BY <1>1, <2>1, AttemptsAssumption DEF Offered, Asks, ClaimerRows
  <2>4. ClaimerRows' /\ OfferedIt'
    BY <1>1, <2>2, <2>3, NoneAssumption DEF ClaimerRows, OfferedIt, Asks
  <2>5. QED
    BY <1>1, <2>1, <2>3, <2>4 DEF Disposals, IsOver
<1>4. ASSUME NEW a \in Attempts, ClaimAttempt(r, a) PROVE OverInv'
  <2>1. /\ requests[r] \notin Attempts /\ attempts[a].state = "none" /\ requests'[r] = a
        /\ \A q \in Requests : q # r => requests'[q] = requests[q]
        /\ \A b \in Attempts : b # a => attempts'[b] = attempts[b]
        /\ attempts'[a].state = "active" /\ attempts'[a].ack = attempts[a].ack
    BY <1>4, AttemptsAssumption DEF ClaimAttempt, Unknown, ClaimInv, ClaimRows, AttemptRow
  <2>2. reply' = reply \/ (/\ claimer.phase = "asking" /\ claimer.req = r
                           /\ reply' = [req |-> r, answer |-> "claim", attempt |-> a])
    BY <1>4 DEF ClaimAttempt, Answer
  <2>3. ~IsOver(a) /\ ~IsOver(a)'
    BY <1>1, <2>1 DEF Disposals, IsOver
  <2>4. \A b \in Attempts : b # a => (Offered(b)' <=> Offered(b))
    BY <1>1, <2>1 DEF Offered, Asks, ClaimerRows
  <2>5. Disposals'
    BY <1>1, <2>1, <2>3, <2>4 DEF Disposals, IsOver
  <2>6. \A b \in Attempts : Offered(b) => Offered(b)'
    BY <1>1, <2>1 DEF Offered, Asks, ClaimerRows
  <2>7. ClaimerRows' /\ OfferedIt'
    BY <1>1, <2>1, <2>2, <2>6, NoneAssumption DEF ClaimerRows, OfferedIt, Offered, Asks
  <2> QED
    BY <2>5, <2>7
<1> QED
  BY <1>2, <1>3, <1>4

(* The worker gives up what it has claimed, runs it, or ends it.           *)
LEMMA LocalKeepsOverInv ==
  ASSUME OverInv, ClaimInv',
         StartAttempt \/ Forgo \/ Crash \/ \E a \in Attempts : EndAttempt(a)
  PROVE  OverInv'
<1> USE DEF OverInv
<1>1. /\ requests' = requests
      /\ \A a \in Attempts : /\ attempts'[a].ack = attempts[a].ack
                             /\ attempts'[a].state = "none" => attempts[a].state = "none"
  <2>1. \/ attempts' = attempts
        \/ \E b : attempts' = [attempts EXCEPT ![b].state = IF @ = "active" THEN "ended" ELSE @]
    BY DEF StartAttempt, Forgo, Crash, EndAttempt, server
  <2>2. QED
    BY <2>1 DEF StartAttempt, Forgo, Crash, EndAttempt, server, ClaimInv, ClaimRows, AttemptRow
<1>2. CASE StartAttempt
  <2> DEFINE a == reply.attempt
  <2>1. a \in Attempts /\ Offered(a) /\ ~IsOver(a)
    BY <1>2 DEF StartAttempt, OfferedIt, ClaimerRows, Disposals
  <2>2. attempts[a].state # "none"
    BY <2>1 DEF Offered, Asks, ClaimerRows, ClaimInv, OneRequest, MadeBy
  <2>3. ~Asks' /\ reply' = NoReply /\ running' = running \cup {a} /\ disposed' = disposed
    BY <1>2 DEF StartAttempt, Asks, Idle
  <2>4. ClaimerRows' /\ OfferedIt'
    BY <1>2, <2>1, <2>3 DEF StartAttempt, ClaimerRows, OfferedIt, Offered, Asks, Idle, NoReply
  <2>5. Disposals'
    BY <1>1, <2>1, <2>2, <2>3 DEF Disposals, IsOver, Offered
  <2> QED
    BY <2>4, <2>5
<1>3. CASE Forgo
  <2> DEFINE a == reply.attempt
  <2>1. a \in Attempts /\ Offered(a) /\ ~IsOver(a)
    BY <1>3 DEF Forgo, OfferedIt, ClaimerRows, Disposals
  <2>2. attempts[a].state # "none"
    BY <2>1 DEF Offered, Asks, ClaimerRows, ClaimInv, OneRequest, MadeBy
  <2>3. claimer' = Idle /\ reply' = NoReply /\ running' = running /\ disposed' = disposed \cup {a}
    BY <1>3 DEF Forgo
  <2>4. ~Asks' /\ ClaimerRows' /\ OfferedIt'
    BY <2>1, <2>3 DEF ClaimerRows, OfferedIt, Offered, Asks, Idle, NoReply
  <2>5. Disposals'
    BY <1>1, <2>1, <2>2, <2>3, <2>4 DEF Disposals, IsOver, Offered
  <2> QED
    BY <2>4, <2>5
<1>4. CASE Crash
  <2>1. /\ claimer' = Idle /\ reply' = NoReply /\ running' = {}
        /\ disposed' \subseteq disposed \cup running
    BY <1>4 DEF Crash
  <2>2. ~Asks' /\ ClaimerRows' /\ OfferedIt'
    BY <2>1 DEF ClaimerRows, OfferedIt, Offered, Asks, Idle, NoReply
  <2>3. QED
    BY <1>1, <2>1, <2>2 DEF Disposals, IsOver, Offered
<1>5. ASSUME NEW a \in Attempts, EndAttempt(a) PROVE OverInv'
  <2>1. /\ reply' = reply /\ a \in running /\ running' = running \ {a}
        /\ disposed' = disposed \cup {a}
        /\ claimer' = claimer \/ (~Asks /\ claimer' = [Idle EXCEPT !.phase = "reserved"])
    BY <1>5 DEF EndAttempt, network, Asks, Idle
  <2>2. \A b : Offered(b)' <=> Offered(b)
    BY <1>1, <2>1 DEF Offered, Asks, Idle
  <2>3. ClaimerRows' /\ OfferedIt'
    BY <2>1, <2>2 DEF ClaimerRows, OfferedIt, Asks, Idle
  <2>4. QED
    BY <1>1, <2>1, <2>2, <2>3 DEF Disposals, IsOver
<1> QED
  BY <1>2, <1>3, <1>4, <1>5

(* A lease that expires, and what a registration acknowledges.             *)
LEMMA ServerKeepsOverInv ==
  ASSUME OverInv, ClaimInv', RegisterSend \/ \E a \in Attempts : Sweep(a)
  PROVE  OverInv'
<1> USE DEF OverInv
<1>1. UNCHANGED <<requests, claimer, reply, running, disposed>>
  BY DEF RegisterSend, Sweep, network, claiming, local
<1>2. \A a \in Attempts : /\ attempts'[a].state = "none" => attempts[a].state = "none"
                          /\ attempts'[a].ack => attempts[a].ack \/ a \in disposed
  BY DEF RegisterSend, Acks, Sweep, ClaimInv, ClaimRows, AttemptRow
<1>3. ClaimerRows' /\ OfferedIt'
  BY <1>1 DEF ClaimerRows, OfferedIt, Offered, Asks
<1>4. Disposals'
  BY <1>1, <1>2 DEF Disposals, IsOver, Offered, Asks
<1> QED
  BY <1>3, <1>4

LEMMA OverStep == OverInv /\ [WorkerNext]_allVars => OverInv'
<1> SUFFICES ASSUME OverInv, [WorkerNext]_allVars PROVE OverInv'
  OBVIOUS
<1>1. ClaimInv' /\ [Next]_vars
  BY ClaimStep, EachPartSteps DEF OverInv
<1>2. CASE UNCHANGED <<requests, attempts, claimer, reply, running, disposed>>
  BY <1>1, <1>2 DEF OverInv, ClaimerRows, OfferedIt, Disposals, IsOver, Offered, Asks
<1>3. CASE Repeat \/ RegisterDone \/ RegisterFails \/ RegisterRefused \/ Heartbeat \/ BeginCheck
           \/ Checks \/ MarkUnhealthy \/ \E r \in Requests : LoseRequest(r)
  <2>1. UNCHANGED <<requests, attempts, claimer, reply, running, disposed>>
    BY <1>3 DEF Repeat, RegisterDone, RegisterFails, RegisterRefused, Heartbeat, BeginCheck, Checks,
       SetHealth, MarkUnhealthy, LoseRequest, server, network, claiming, local
  <2>2. QED
    BY <1>2, <2>1
<1>4. CASE ClaimerSteps
  BY <1>1, <1>4, ClaimerKeepsOverInv
<1>5. ASSUME NEW r \in Requests,
             Replay(r) \/ ClaimNothing(r) \/ ForgetEmpty(r) \/ \E a \in Attempts : ClaimAttempt(r, a)
      PROVE  OverInv'
  BY <1>1, <1>5, AnswerKeepsOverInv
<1>6. CASE StartAttempt \/ Forgo \/ Crash \/ \E a \in Attempts : EndAttempt(a)
  BY <1>1, <1>6, LocalKeepsOverInv
<1>7. CASE RegisterSend \/ \E a \in Attempts : Sweep(a)
  BY <1>1, <1>7, ServerKeepsOverInv
<1>8. CASE UNCHANGED vars
  BY <1>2, <1>8 DEF vars, server, network, claiming, local
<1> QED
  BY <1>1, <1>3, <1>4, <1>5, <1>6, <1>7, <1>8 DEF Next, Claims, Serves, Registers, ClaimerSteps

\* What the control plane has been told is disposed of is neither run nor
\* offered to the worker again, for any number of requests and attempts
\* (claiming.go:68-94, store.go:1773-1833).
THEOREM AcknowledgedIsOverCorrect == WorkerSpec => []AcknowledgedIsOver
<1>1. WorkerInit => OverInv
  BY OverInit DEF WorkerInit
<1>2. ASSUME OverInv PROVE AcknowledgedIsOver
  BY <1>2, NoneAssumption DEF OverInv, OfferedIt, Disposals, IsOver, AcknowledgedIsOver
<1>3. QED
  BY <1>1, <1>2, OverStep, PTL DEF WorkerSpec, allVars

-----------------------------------------------------------------------------
(* The enrollment.  A credential that may reach the server is durable      *)
(* before it does, and stays in the worker's files until it is installed;  *)
(* so there is never a second one that the server could accept.            *)

(* What the server has accepted or may still be asked to.                  *)
Known ==
    Credentials \cap ({digest} \cup {m[2] : m \in exchanges}
                      \cup IF phase \in {"send", "wait", "save", "clear"} THEN {credential} ELSE {})

Holds(f, known) == known \subseteq IF f.saved = None THEN {f.pending} ELSE {f.saved}
Reliable == kills = 0 \/ outages = 0

FileRows ==
    /\ file \in Enrollment!Directory /\ past \subseteq Enrollment!Directory /\ file \in past
    /\ kills \in Nat /\ outages \in Nat
    /\ \A m \in exchanges : m[2] \in Enrollment!All

Kept ==
    /\ Reliable => Holds(file, Known)
    /\ kills = 0 => \A f \in past : Holds(f, Known)

(* Without a kill a start finds what is durable.                           *)
Settled ==
    kills = 0 /\ phase \in {"down", "adoptSaved", "adoptPending", "load", "forget", "enroll",
                            "send", "wait", "save", "enrolled"}
        => past = {file}

OneSaved == \A f \in past : f.saved # None => f.saved = file.saved

(* What the place of the worker says of its files.                         *)
Places ==
    /\ phase \in {"enroll", "create", "sync", "send", "wait", "save"} => file.saved = None
    /\ phase = "clear" => file.saved = credential /\ credential # None
    /\ phase = "create" => file.pending = None
    /\ phase \in {"sync", "send", "wait", "save"} => credential = file.pending /\ credential # None
    /\ phase \in {"dropSaved", "forget"} => file.saved # None
    /\ phase \notin {"down", "adoptSaved"} => file.saved # None \/ file.legacySaved = None

(* A credential of an older worker is adopted before anything is asked.    *)
LegacyFirst ==
    /\ \A f \in past : f.legacySaved \in {None, Legacy} /\ f.legacyPending \in {None, Legacy}
    /\ (\E f \in past : f.legacySaved # None) =>
          /\ digest = Legacy /\ Known = {}
          /\ \A f \in past : f.saved = Legacy \/ (f.saved = None /\ f.legacySaved = Legacy)

AnswersTrue ==
    /\ phase = "wait" /\ answer = "regenerate" => credential = Legacy
    /\ Reliable /\ (phase \in {"save", "clear"} \/ (phase = "wait" /\ answer = "ok"))
          => credential = digest

SavedKnown == Reliable /\ file.saved # None => file.saved = digest

AnswerRow == answer \in {"none", "ok", "refused", "regenerate"}

EnrollInv ==
    FileRows /\ Kept /\ Settled /\ OneSaved /\ Places /\ LegacyFirst /\ AnswersTrue /\ SavedKnown

LEMMA EnrollInit == Enrollment!Init => EnrollInv
<1> SUFFICES ASSUME Enrollment!Init PROVE EnrollInv
  OBVIOUS
<1>1. /\ past = {file} /\ phase = "down" /\ exchanges = {} /\ kills = 0 /\ outages = 0
      /\ digest \in {None, Legacy}
  BY DEF Enrollment!Init
<1>2. Known = {}
  BY <1>1, CredentialsAssumption DEF Known
<1>3. /\ file \in Enrollment!Directory /\ file.saved = None
      /\ file.legacySaved \in {None, Legacy} /\ file.legacyPending \in {None, Legacy}
      /\ file.legacySaved # None => digest = Legacy
  BY CredentialsAssumption DEF Enrollment!Init, Enrollment!Nothing, Enrollment!Directory,
     Enrollment!Some, Enrollment!All
<1>4. QED
  BY <1>1, <1>2, <1>3 DEF EnrollInv, FileRows, Kept, Settled, OneSaved, Places, LegacyFirst,
     AnswersTrue, SavedKnown, Holds, Reliable

(* The files stay, and nothing is asked that was not known.                *)
LEMMA FilesStay ==
  ASSUME EnrollInv, UNCHANGED <<file, past, digest, kills, outages>>, Known' \subseteq Known
  PROVE  (Kept /\ OneSaved /\ LegacyFirst /\ SavedKnown)'
<1>1. Kept'
  BY DEF EnrollInv, Kept, Holds, Reliable
<1>2. (OneSaved /\ LegacyFirst /\ SavedKnown)'
  BY DEF EnrollInv, OneSaved, LegacyFirst, SavedKnown, Reliable
<1> QED
  BY <1>1, <1>2

LEMMA PlainStep ==
  ASSUME EnrollInv, \/ Enrollment!Start \/ Enrollment!Load \/ Enrollment!Retry \/ Enrollment!Kill
                    \/ \E t \in Tokens : Enrollment!Issue(t) \/ Enrollment!Expire(t)
  PROVE  EnrollInv'
<1>1. CASE Enrollment!Start
  <2>1. UNCHANGED <<file, past, digest, exchanges, kills, outages>> /\ phase = "down" /\ phase' = "adoptSaved"
    BY <1>1 DEF Enrollment!Start, Enrollment!Goes, Enrollment!server, Enrollment!files, Enrollment!faults
  <2>2. Known' \subseteq Known
    BY <2>1 DEF Known
  <2>3. QED
    BY <2>1, <2>2, FilesStay DEF EnrollInv, FileRows, Settled, Places, AnswersTrue, Reliable
<1>2. CASE Enrollment!Load
  <2>1. /\ UNCHANGED <<file, past, digest, exchanges, kills, outages>> /\ phase = "load"
        /\ phase' = IF file.saved = None THEN "enroll" ELSE "forget"
    BY <1>2 DEF Enrollment!Load, Enrollment!Goes, Enrollment!server, Enrollment!files, Enrollment!faults
  <2>2. Known' \subseteq Known
    BY <2>1 DEF Known
  <2>3. QED
    BY <2>1, <2>2, FilesStay DEF EnrollInv, FileRows, Settled, Places, AnswersTrue, Reliable
<1>3. CASE Enrollment!Retry
  <2>1. /\ UNCHANGED <<file, past, digest, exchanges, kills, outages>> /\ phase = "wait"
        /\ phase' = "enroll"
    BY <1>3 DEF Enrollment!Retry, Enrollment!Goes, Enrollment!server, Enrollment!files, Enrollment!faults
  <2>2. Known' \subseteq Known
    BY <2>1 DEF Known
  <2>3. QED
    BY <2>1, <2>2, FilesStay DEF EnrollInv, FileRows, Settled, Places, AnswersTrue, Reliable
<1>4. CASE Enrollment!Kill
  <2>1. /\ UNCHANGED <<file, past, digest, exchanges, outages>> /\ phase' = "down"
        /\ kills' = kills + 1
    BY <1>4 DEF Enrollment!Kill, Enrollment!Goes, Enrollment!server, Enrollment!files
  <2>2. Known' \subseteq Known
    BY <2>1 DEF Known
  <2>3. kills' \in Nat /\ kills' # 0 /\ (Reliable' => Reliable)
    BY <2>1 DEF EnrollInv, FileRows, Reliable
  <2>4. QED
    BY <2>1, <2>2, <2>3 DEF EnrollInv, FileRows, Kept, Holds, Settled, OneSaved, Places,
       LegacyFirst, AnswersTrue, SavedKnown
<1>5. ASSUME NEW t, Enrollment!Issue(t) \/ Enrollment!Expire(t) PROVE EnrollInv'
  <2>1. UNCHANGED <<file, past, digest, exchanges, kills, outages, phase, credential, answer>>
    BY <1>5 DEF Enrollment!Issue, Enrollment!Expire, Enrollment!files, Enrollment!worker, Enrollment!faults
  <2>2. Known' \subseteq Known
    BY <2>1 DEF Known
  <2>3. QED
    BY <2>1, <2>2, FilesStay DEF EnrollInv, FileRows, Settled, Places, AnswersTrue, Reliable
<1> QED
  BY <1>1, <1>2, <1>3, <1>4, <1>5

(* The directory after a change of one file, and after it is synced.       *)
LEMMA NewSaved ==
  ASSUME file \in Enrollment!Directory, NEW c \in Enrollment!Some
  PROVE  /\ [file EXCEPT !.saved = c] \in Enrollment!Directory
         /\ [file EXCEPT !.saved = c].saved = c
         /\ [file EXCEPT !.saved = c].pending = file.pending
         /\ [file EXCEPT !.saved = c].legacySaved = file.legacySaved
         /\ [file EXCEPT !.saved = c].legacyPending = file.legacyPending
BY DEF Enrollment!Directory

LEMMA NewPending ==
  ASSUME file \in Enrollment!Directory, NEW c \in Enrollment!Some
  PROVE  /\ [file EXCEPT !.pending = c] \in Enrollment!Directory
         /\ [file EXCEPT !.pending = c].saved = file.saved
         /\ [file EXCEPT !.pending = c].pending = c
         /\ [file EXCEPT !.pending = c].legacySaved = file.legacySaved
         /\ [file EXCEPT !.pending = c].legacyPending = file.legacyPending
BY DEF Enrollment!Directory

LEMMA NoLegacy ==
  ASSUME file \in Enrollment!Directory
  PROVE  /\ [file EXCEPT !.legacySaved = None] \in Enrollment!Directory
         /\ [file EXCEPT !.legacySaved = None].saved = file.saved
         /\ [file EXCEPT !.legacySaved = None].pending = file.pending
         /\ [file EXCEPT !.legacySaved = None].legacySaved = None
         /\ [file EXCEPT !.legacySaved = None].legacyPending = file.legacyPending
         /\ [file EXCEPT !.legacyPending = None] \in Enrollment!Directory
         /\ [file EXCEPT !.legacyPending = None].saved = file.saved
         /\ [file EXCEPT !.legacyPending = None].pending = file.pending
         /\ [file EXCEPT !.legacyPending = None].legacySaved = file.legacySaved
         /\ [file EXCEPT !.legacyPending = None].legacyPending = None
BY DEF Enrollment!Directory, Enrollment!Some

(* A change of the files that keeps what is held and what is saved.        *)
LEMMA FilesChange ==
  ASSUME EnrollInv, UNCHANGED <<digest, kills, outages>>, Known' \subseteq Known,
         file' \in Enrollment!Directory, past' \subseteq past \cup {file'}, file' \in past',
         file'.saved = file.saved,
         file'.pending = file.pending \/ file.saved # None \/ Known' = {},
         file'.legacySaved = file.legacySaved \/ (file'.legacySaved = None /\ file.saved # None),
         file'.legacyPending \in {file.legacyPending, None}
  PROVE  (Kept /\ OneSaved /\ LegacyFirst /\ SavedKnown)'
<1>1. Kept'
  BY DEF EnrollInv, FileRows, Kept, Holds, Reliable
<1>2. OneSaved' /\ SavedKnown'
  BY DEF EnrollInv, OneSaved, SavedKnown, Reliable
<1>3. LegacyFirst'
  <2>1. file \in past
    BY DEF EnrollInv, FileRows
  <2>2. \A f \in past' : f.legacySaved \in {None, Legacy} /\ f.legacyPending \in {None, Legacy}
    BY <2>1 DEF EnrollInv, LegacyFirst
  <2>3. ASSUME NEW f \in past', f.legacySaved # None
        PROVE  /\ digest' = Legacy /\ Known' = {}
               /\ \A g \in past' : g.saved = Legacy \/ (g.saved = None /\ g.legacySaved = Legacy)
    <3>1. \E g \in past : g.legacySaved # None
      BY <2>1, <2>3
    <3>2. digest' = Legacy /\ Known' = {}
      BY <3>1 DEF EnrollInv, LegacyFirst
    <3>3. file.saved = Legacy \/ (file.saved = None /\ file.legacySaved = Legacy)
      BY <2>1, <3>1 DEF EnrollInv, LegacyFirst
    <3>4. file'.saved = Legacy \/ (file'.saved = None /\ file'.legacySaved = Legacy)
      BY <2>2, <3>3, CredentialsAssumption
    <3>5. QED
      BY <3>1, <3>2, <3>4 DEF EnrollInv, LegacyFirst
  <2>4. QED
    BY <2>2, <2>3 DEF LegacyFirst
<1> QED
  BY <1>1, <1>2, <1>3

LEMMA AdoptStep ==
  ASSUME EnrollInv, Enrollment!AdoptFiles
  PROVE  EnrollInv'
<1> USE DEF Enrollment!Goes
<1>1. UNCHANGED <<digest, exchanges, kills, outages, credential, answer>>
      /\ file \in Enrollment!Directory /\ file \in past
  BY DEF Enrollment!AdoptFiles, Enrollment!Adopt, Enrollment!OnlyFiles, Enrollment!server,
     Enrollment!faults, EnrollInv, FileRows
<1>2. phase \in {"adoptSaved", "dropSaved", "adoptPending", "dropPending"}
      /\ phase' \in {"dropSaved", "adoptPending", "dropPending", "load"}
  BY DEF Enrollment!AdoptFiles, Enrollment!Adopt
<1>3. Known' \subseteq Known
  BY <1>1, <1>2 DEF Known
<1>4. CASE UNCHANGED <<file, past>>
           /\ \/ phase = "adoptSaved" /\ phase' = "adoptPending"
                 /\ (file.saved # None \/ file.legacySaved = None)
              \/ phase = "adoptPending" /\ phase' = "load"
  BY <1>1, <1>3, <1>4, FilesStay DEF EnrollInv, FileRows, Settled, Places, AnswersTrue, Reliable
<1>5. CASE /\ phase = "adoptSaved" /\ phase' = "dropSaved"
           /\ file.saved = None /\ file.legacySaved # None
           /\ Enrollment!Writes([file EXCEPT !.saved = file.legacySaved])
  <2>1. file.legacySaved = Legacy /\ digest = Legacy /\ Known = {}
    BY <1>1, <1>5 DEF EnrollInv, LegacyFirst
  <2>2. /\ file' \in Enrollment!Directory /\ file'.saved = Legacy /\ file'.pending = file.pending
        /\ file'.legacySaved = Legacy /\ file'.legacyPending = file.legacyPending
        /\ past' = past \cup {file'}
    BY <1>1, <1>5, <2>1, NewSaved DEF Enrollment!Writes, Enrollment!Some, Enrollment!All
  <2>3. \A f \in past : f.saved = None
    BY <1>5 DEF EnrollInv, OneSaved
  <2>4. LegacyFirst'
    BY <1>1, <1>3, <1>5, <2>1, <2>2 DEF EnrollInv, LegacyFirst
  <2>5. Kept' /\ OneSaved' /\ SavedKnown'
    BY <1>1, <1>3, <2>1, <2>2, <2>3 DEF Kept, Holds, OneSaved, SavedKnown
  <2>6. QED
    BY <1>1, <1>5, <2>2, <2>4, <2>5, CredentialsAssumption DEF EnrollInv, FileRows, Settled, Places, AnswersTrue
<1>6. CASE /\ phase = "adoptPending" /\ phase' = "dropPending"
           /\ file.pending = None /\ file.legacyPending # None
           /\ Enrollment!Writes([file EXCEPT !.pending = file.legacyPending])
  <2>1. file.legacyPending = Legacy
    BY <1>1, <1>6 DEF EnrollInv, LegacyFirst
  <2>2. /\ file' \in Enrollment!Directory /\ file'.saved = file.saved /\ file'.pending = Legacy
        /\ file'.legacySaved = file.legacySaved /\ file'.legacyPending = Legacy
        /\ past' = past \cup {file'}
    BY <1>1, <1>6, <2>1, NewPending DEF Enrollment!Writes, Enrollment!Some, Enrollment!All
  <2>3. Reliable /\ file.saved = None => Known = {}
    BY <1>6, CredentialsAssumption DEF EnrollInv, Kept, Holds, Known
  <2>4. Kept'
    BY <1>1, <1>3, <2>2, <2>3 DEF EnrollInv, FileRows, Kept, Holds, Reliable
  <2>5. (OneSaved /\ LegacyFirst /\ SavedKnown)'
    BY <1>1, <1>3, <2>2 DEF EnrollInv, OneSaved, LegacyFirst, SavedKnown, Reliable
  <2>6. QED
    BY <1>1, <1>6, <2>2, <2>4, <2>5 DEF EnrollInv, FileRows, Settled, Places, AnswersTrue
<1>7. CASE /\ phase \in {"dropSaved", "dropPending"} /\ phase' = phase
           /\ \/ Enrollment!SyncsThenWrites([file EXCEPT !.legacySaved = None]) /\ phase = "dropSaved"
              \/ Enrollment!SyncsThenWrites([file EXCEPT !.legacyPending = None])
  <2>1. /\ file' \in Enrollment!Directory /\ file'.saved = file.saved /\ file'.pending = file.pending
        /\ past' = {file, file'} /\ past' \subseteq past \cup {file'}
        /\ \/ file'.legacySaved = None /\ file.saved # None /\ file'.legacyPending = file.legacyPending
           \/ file'.legacySaved = file.legacySaved /\ file'.legacyPending = None
    BY <1>1, <1>7, NoLegacy DEF Enrollment!SyncsThenWrites, EnrollInv, Places
  <2>2. (Kept /\ OneSaved /\ LegacyFirst /\ SavedKnown)'
    BY <1>1, <1>3, <2>1, FilesChange
  <2>3. QED
    BY <1>1, <1>7, <2>1, <2>2 DEF EnrollInv, FileRows, Settled, Places, AnswersTrue
<1>8. CASE /\ Enrollment!Syncs
           /\ \/ phase = "dropSaved" /\ phase' = "adoptPending"
              \/ phase = "dropPending" /\ phase' = "load"
  <2>1. file' = file /\ past' = {file}
    BY <1>8 DEF Enrollment!Syncs
  <2>2. (Kept /\ OneSaved /\ LegacyFirst /\ SavedKnown)'
    BY <1>1, <1>3, <2>1 DEF EnrollInv, Kept, Holds, Reliable, OneSaved, LegacyFirst, SavedKnown
  <2>3. QED
    BY <1>1, <1>8, <2>1, <2>2 DEF EnrollInv, FileRows, Settled, Places, AnswersTrue
<1> QED
  BY <1>4, <1>5, <1>6, <1>7, <1>8 DEF Enrollment!AdoptFiles, Enrollment!Adopt, Enrollment!files

LEMMA AskStep ==
  ASSUME EnrollInv, Enrollment!Enroll \/ Enrollment!Create \/ Enrollment!SyncPending \/ Enrollment!Send
  PROVE  EnrollInv'
<1> USE DEF Enrollment!Goes, Enrollment!server, Enrollment!files, Enrollment!faults
<1>1. UNCHANGED <<digest, kills, outages>> /\ file \in Enrollment!Directory /\ file \in past
  BY DEF Enrollment!Enroll, Enrollment!Create, Enrollment!SyncPending, Enrollment!Send,
     Enrollment!DurableFirst, Enrollment!Syncs, Enrollment!OnlyFiles, EnrollInv, FileRows
<1>2. file.saved = None /\ file.legacySaved = None
  BY DEF Enrollment!Enroll, Enrollment!Create, Enrollment!SyncPending, Enrollment!Send, EnrollInv, Places
<1>3. \A f \in past : f.saved = None /\ f.legacySaved = None
  BY <1>1, <1>2, CredentialsAssumption DEF EnrollInv, OneSaved, LegacyFirst
<1>4. CASE Enrollment!Enroll /\ file.pending = None
  <2>1. /\ UNCHANGED <<file, past, exchanges, answer>> /\ phase = "enroll" /\ phase' = "create"
    BY <1>4 DEF Enrollment!Enroll
  <2>2. Known' \subseteq Known
    BY <1>1, <2>1 DEF Known
  <2>3. QED
    BY <1>1, <1>4, <2>1, <2>2, FilesStay DEF EnrollInv, FileRows, Settled, Places, AnswersTrue, Reliable
<1>5. CASE Enrollment!Enroll /\ file.pending # None
  <2>1. /\ UNCHANGED <<file, past, exchanges, answer>> /\ phase = "enroll" /\ phase' = "send"
        /\ credential' = file.pending
    BY <1>5 DEF Enrollment!Enroll
  <2>2. Known' \subseteq Known \cup {file.pending}
    BY <1>1, <2>1 DEF Known
  <2>3. kills = 0 => past = {file}
    BY <2>1 DEF EnrollInv, Settled
  <2>4. Kept'
    BY <1>1, <1>2, <2>1, <2>2, <2>3 DEF EnrollInv, Kept, Holds, Reliable
  <2>5. (OneSaved /\ LegacyFirst /\ SavedKnown)'
    BY <1>1, <1>2, <1>3, <2>1 DEF EnrollInv, OneSaved, LegacyFirst, SavedKnown
  <2>6. QED
    BY <1>1, <1>2, <1>5, <2>1, <2>3, <2>4, <2>5 DEF EnrollInv, FileRows, Settled, Places, AnswersTrue
<1>6. CASE Enrollment!Create
  <2>1. PICK c \in Credentials :
           /\ credential' = c /\ Enrollment!SyncsThenWrites([file EXCEPT !.pending = c])
           /\ UNCHANGED <<exchanges, answer>> /\ phase = "create" /\ phase' = "sync"
    BY <1>6 DEF Enrollment!Create
  <2>2. /\ file' \in Enrollment!Directory /\ file'.saved = None /\ file'.pending = c /\ c # None
        /\ file'.legacySaved = None /\ file'.legacyPending = file.legacyPending
        /\ past' = {file, file'}
    BY <1>1, <1>2, <2>1, NewPending, CredentialsAssumption
       DEF Enrollment!SyncsThenWrites, Enrollment!Some, Enrollment!All
  <2>3. Known' \subseteq Known
    BY <1>1, <2>1 DEF Known
  <2>4. Reliable => Known = {}
    BY <1>2, <2>1, CredentialsAssumption DEF EnrollInv, Kept, Holds, Places, Known
  <2>5. Kept'
    BY <1>1, <2>2, <2>3, <2>4 DEF Kept, Holds, Reliable
  <2>6. (OneSaved /\ LegacyFirst /\ SavedKnown)'
    BY <1>1, <1>2, <2>2 DEF EnrollInv, OneSaved, LegacyFirst, SavedKnown
  <2>7. QED
    BY <1>1, <1>2, <2>1, <2>2, <2>5, <2>6 DEF EnrollInv, FileRows, Settled, Places, AnswersTrue
<1>7. CASE Enrollment!SyncPending
  <2>1. /\ UNCHANGED <<exchanges, answer, credential>> /\ phase = "sync" /\ phase' = "send"
        /\ file' = file /\ past' = {file}
    BY <1>7 DEF Enrollment!SyncPending, Enrollment!DurableFirst, Enrollment!Syncs, Enrollment!OnlyFiles
  <2>2. credential = file.pending
    BY <2>1 DEF EnrollInv, Places
  <2>3. Known' \subseteq Known \cup {file.pending}
    BY <1>1, <2>1, <2>2 DEF Known
  <2>4. Kept'
    BY <1>1, <1>2, <2>1, <2>3 DEF EnrollInv, Kept, Holds, Reliable
  <2>5. (OneSaved /\ LegacyFirst /\ SavedKnown)'
    BY <1>1, <1>2, <1>3, <2>1 DEF EnrollInv, OneSaved, LegacyFirst, SavedKnown
  <2>6. QED
    BY <1>1, <2>1, <2>4, <2>5 DEF EnrollInv, FileRows, Settled, Places, AnswersTrue
<1>8. CASE Enrollment!Send
  <2>1. /\ UNCHANGED <<file, past, credential>> /\ phase = "send" /\ phase' = "wait"
        /\ exchanges' = exchanges \cup {<<using, credential>>} /\ answer' = "none"
    BY <1>8 DEF Enrollment!Send
  <2>2. credential \in Enrollment!All
    BY <1>1, <2>1 DEF EnrollInv, Places, Enrollment!Directory, Enrollment!Some
  <2>3. Known' \subseteq Known
    BY <1>1, <2>1 DEF Known
  <2>4. QED
    BY <1>1, <2>1, <2>2, <2>3, FilesStay DEF EnrollInv, FileRows, Settled, Places, AnswersTrue
<1> QED
  BY <1>4, <1>5, <1>6, <1>7, <1>8

LEMMA SaveStep ==
  ASSUME EnrollInv, AnswerRow,
                    \/ Enrollment!Answered \/ Enrollment!Save \/ Enrollment!Clear
                    \/ Enrollment!Forget \/ Enrollment!End
  PROVE  EnrollInv'
<1> USE DEF Enrollment!Goes, Enrollment!server, Enrollment!files, Enrollment!faults, Enrollment!OnlyFiles
<1>1. UNCHANGED <<digest, kills, outages, exchanges, credential>>
      /\ file \in Enrollment!Directory /\ file \in past
  BY DEF Enrollment!Answered, Enrollment!Save, Enrollment!Clear, Enrollment!Forget, Enrollment!End,
     EnrollInv, FileRows
<1>2. CASE Enrollment!Answered /\ answer # "regenerate"
  <2>1. /\ phase = "wait" /\ UNCHANGED <<file, past>>
        /\ (answer = "ok" /\ phase' = "save") \/ phase' = "down"
    BY <1>2 DEF Enrollment!Answered, AnswerRow
  <2>2. Known' \subseteq Known
    BY <1>1, <2>1 DEF Known
  <2>3. QED
    BY <1>1, <2>1, <2>2, FilesStay DEF EnrollInv, FileRows, Settled, Places, AnswersTrue, Reliable
<1>3. CASE Enrollment!Answered /\ answer = "regenerate"
  <2>1. /\ phase = "wait" /\ phase' = "create" /\ Enrollment!Writes([file EXCEPT !.pending = None])
    BY <1>3 DEF Enrollment!Answered
  <2>2. /\ file' \in Enrollment!Directory /\ file'.saved = file.saved /\ file'.pending = None
        /\ file'.legacySaved = file.legacySaved /\ file'.legacyPending = file.legacyPending
        /\ past' = past \cup {file'}
    BY <1>1, <2>1, NewPending DEF Enrollment!Writes, Enrollment!Some
  <2>3. file.saved = None /\ file.pending = Legacy
    BY <1>3, <2>1 DEF EnrollInv, Places, AnswersTrue
  <2>4. Known' \subseteq Known
    BY <1>1, <2>1 DEF Known
  <2>5. Reliable => Known = {}
    BY <2>3, CredentialsAssumption DEF EnrollInv, Kept, Holds, Known
  <2>6. Kept'
    BY <1>1, <2>2, <2>4, <2>5 DEF Kept, Holds, Reliable
  <2>7. (OneSaved /\ LegacyFirst /\ SavedKnown)'
    BY <1>1, <2>2, <2>4 DEF EnrollInv, OneSaved, LegacyFirst, SavedKnown, Reliable
  <2>8. QED
    BY <1>1, <2>1, <2>2, <2>3, <2>6, <2>7 DEF EnrollInv, FileRows, Settled, Places, AnswersTrue
<1>4. CASE Enrollment!Save
  <2>1. /\ phase = "save" /\ phase' = "clear" /\ UNCHANGED answer
        /\ Enrollment!Writes([file EXCEPT !.saved = credential])
    BY <1>4 DEF Enrollment!Save
  <2>2. /\ file.saved = None /\ file.legacySaved = None /\ credential = file.pending /\ credential # None
        /\ credential \in Enrollment!Some
    BY <1>1, <2>1 DEF EnrollInv, Places, Enrollment!Directory
  <2>3. /\ file' \in Enrollment!Directory /\ file'.saved = credential /\ file'.pending = file.pending
        /\ file'.legacySaved = file.legacySaved /\ file'.legacyPending = file.legacyPending
        /\ past' = past \cup {file'}
    BY <1>1, <2>1, <2>2, NewSaved DEF Enrollment!Writes
  <2>4. \A f \in past : f.saved = None /\ f.legacySaved = None
    BY <1>1, <2>2, CredentialsAssumption DEF EnrollInv, OneSaved, LegacyFirst
  <2>5. Known' = Known
    BY <1>1, <2>1 DEF Known
  <2>6. Kept'
    BY <1>1, <2>2, <2>3, <2>5 DEF EnrollInv, Kept, Holds, Reliable
  <2>7. OneSaved' /\ LegacyFirst'
    BY <1>1, <2>2, <2>3, <2>4 DEF EnrollInv, OneSaved, LegacyFirst
  <2>8. SavedKnown'
    BY <1>1, <2>1, <2>3 DEF EnrollInv, AnswersTrue, SavedKnown, Reliable
  <2>9. QED
    BY <1>1, <2>1, <2>2, <2>3, <2>6, <2>7, <2>8 DEF EnrollInv, FileRows, Settled, Places, AnswersTrue, Reliable
<1>5. CASE \/ Enrollment!Clear
           \/ Enrollment!Forget /\ file.pending # None
  <2>1. /\ phase \in {"clear", "forget"} /\ phase' = "end"
        /\ \/ Enrollment!SyncsThenWrites([file EXCEPT !.pending = None])
           \/ Enrollment!Writes([file EXCEPT !.pending = None])
    BY <1>5 DEF Enrollment!Clear, Enrollment!Forget
  <2>2. /\ file' \in Enrollment!Directory /\ file'.saved = file.saved /\ file'.pending = None
        /\ file'.legacySaved = file.legacySaved /\ file'.legacyPending = file.legacyPending
        /\ past' \subseteq past \cup {file'} /\ file' \in past'
    <3>1. None \in Enrollment!Some /\ file' = [file EXCEPT !.pending = None]
      BY <2>1 DEF Enrollment!Writes, Enrollment!SyncsThenWrites, Enrollment!Some
    <3>2. past' \subseteq past \cup {file'} /\ file' \in past'
      BY <1>1, <2>1, <3>1 DEF Enrollment!Writes, Enrollment!SyncsThenWrites
    <3>3. QED
      BY <1>1, <3>1, <3>2, NewPending
  <2>3. Known' \subseteq Known
    BY <1>1, <2>1 DEF Known
  <2>4. file.saved # None
    BY <2>1 DEF EnrollInv, Places
  <2>5. (Kept /\ OneSaved /\ LegacyFirst /\ SavedKnown)'
    BY <1>1, <2>2, <2>3, <2>4, FilesChange
  <2>6. QED
    BY <1>1, <2>1, <2>2, <2>5 DEF EnrollInv, FileRows, Settled, Places, AnswersTrue
<1>6. CASE Enrollment!Forget /\ file.pending = None
  <2>1. phase = "forget" /\ phase' = "enrolled" /\ UNCHANGED <<file, past, answer>>
    BY <1>6 DEF Enrollment!Forget
  <2>2. Known' \subseteq Known
    BY <1>1, <2>1 DEF Known
  <2>3. QED
    BY <1>1, <2>1, <2>2, FilesStay DEF EnrollInv, FileRows, Settled, Places, AnswersTrue
<1>7. CASE Enrollment!End
  <2>1. phase = "end" /\ phase' = "enrolled" /\ file' = file /\ past' = {file} /\ UNCHANGED answer
    BY <1>7 DEF Enrollment!End, Enrollment!Syncs
  <2>2. Known' \subseteq Known
    BY <1>1, <2>1 DEF Known
  <2>3. (Kept /\ OneSaved /\ LegacyFirst /\ SavedKnown)'
    BY <1>1, <2>1, <2>2, FilesChange
  <2>4. QED
    BY <1>1, <2>1, <2>3 DEF EnrollInv, FileRows, Settled, Places, AnswersTrue
<1> QED
  BY <1>2, <1>3, <1>4, <1>5, <1>6, <1>7

(* The server accepts what is held, and nothing else.                      *)
LEMMA ExchangeStep ==
  ASSUME EnrollInv, NEW t, NEW c, Enrollment!Exchange(t, c)
  PROVE  EnrollInv'
<1>1. /\ UNCHANGED <<file, past, kills, outages, phase, credential, using>>
      /\ <<t, c>> \in exchanges /\ exchanges' \subseteq exchanges
      /\ file \in past
  BY DEF Enrollment!Exchange, Enrollment!files, Enrollment!worker, EnrollInv, FileRows
<1>2. c \in Enrollment!All
  <2>1. \A m \in exchanges : m[2] \in Enrollment!All
    BY DEF EnrollInv, FileRows
  <2>2. <<t, c>>[2] \in Enrollment!All
    BY <1>1, <2>1, Zenon
  <2>3. QED
    BY <2>2
<1>3. CASE digest' = digest
  <2>1. Known' \subseteq Known
    BY <1>1, <1>3 DEF Known
  <2>2. AnswersTrue'
    <3>1. \/ answer' = answer
          \/ /\ phase = "wait" /\ c = credential
             /\ answer' = "ok" => c = digest'
             /\ answer' = "regenerate" => c = Legacy
      BY <1>3 DEF Enrollment!Exchange, Enrollment!Installs, Enrollment!Install, Enrollment!Repeated
    <3>2. QED
      BY <1>1, <1>3, <3>1 DEF EnrollInv, AnswersTrue, Reliable
  <2>3. QED
    BY <1>1, <1>3, <2>1, <2>2, FilesStay DEF EnrollInv, FileRows, Settled, Places
<1>4. CASE digest' # digest
  <2>1. digest' = c /\ c # Legacy
    BY <1>4 DEF Enrollment!Exchange, Enrollment!Installs, Enrollment!Install
  <2>2. c \in Known
    <3>1. <<t, c>>[2] \in {m[2] : m \in exchanges}
      BY <1>1, Zenon
    <3>2. c \in {m[2] : m \in exchanges}
      BY <3>1
    <3>3. QED
      BY <1>2, <2>1, <3>2 DEF Known, Enrollment!All
  <2>3. Known' \subseteq Known
    BY <1>1, <2>1, <2>2 DEF Known
  <2>4. Kept' /\ OneSaved'
    BY <1>1, <2>3 DEF EnrollInv, Kept, Holds, Reliable, OneSaved
  <2>5. LegacyFirst'
    BY <1>1, <2>2, <2>3 DEF EnrollInv, LegacyFirst
  <2>6. SavedKnown'
    BY <1>1, <2>1, <2>2 DEF EnrollInv, Kept, Holds, SavedKnown, Reliable
  <2>7. AnswersTrue'
    <3>1. Reliable /\ phase \in {"wait", "save", "clear"} => c = credential
      BY <2>2 DEF EnrollInv, Kept, Holds, Places
    <3>2. phase = "wait" /\ answer' = "regenerate" => credential = Legacy
      <4>1. Enrollment!Installs(t, c)
        BY <1>4 DEF Enrollment!Exchange
      <4>2. answer' \in {answer, "ok"}
        <5>1. \/ answer' = answer
              \/ answer' = CASE Enrollment!Installs(t, c) \/ Enrollment!Repeated(t, c) -> "ok"
                             [] c = Legacy /\ ~used[t] -> "regenerate"
                             [] OTHER -> "refused"
          BY DEF Enrollment!Exchange
        <5>2. Enrollment!Installs(t, c) => c # Legacy
          BY DEF Enrollment!Installs
        <5>3. QED
          BY <4>1, <5>1, <5>2
      <4>3. QED
        BY <4>2 DEF EnrollInv, AnswersTrue
    <3>3. QED
      BY <1>1, <2>1, <3>1, <3>2 DEF AnswersTrue, Reliable
  <2>8. QED
    BY <1>1, <2>4, <2>5, <2>6, <2>7 DEF EnrollInv, FileRows, Settled, Places
<1> QED
  BY <1>3, <1>4

LEMMA OutageStep ==
  ASSUME EnrollInv, Enrollment!Outage
  PROVE  EnrollInv'
<1>1. PICK was \in past :
         /\ file' = was /\ past' = {was} /\ phase' = "down"
         /\ UNCHANGED <<digest, exchanges, kills>> /\ outages' = outages + 1
  BY DEF Enrollment!Outage, Enrollment!Goes, Enrollment!server
<1>2. Known' \subseteq Known
  BY <1>1 DEF Known
<1>3. outages' \in Nat /\ (Reliable' => kills = 0 /\ Reliable)
  BY <1>1 DEF EnrollInv, FileRows, Reliable
<1>4. Kept'
  BY <1>1, <1>2, <1>3 DEF EnrollInv, Kept, Holds
<1>5. OneSaved' /\ LegacyFirst'
  BY <1>1, <1>2 DEF EnrollInv, OneSaved, LegacyFirst
<1>6. SavedKnown'
  BY <1>1, <1>3 DEF EnrollInv, OneSaved, SavedKnown
<1>7. QED
  BY <1>1, <1>3, <1>4, <1>5, <1>6 DEF EnrollInv, FileRows, Settled, Places, AnswersTrue

LEMMA AnswerStep == AnswerRow /\ Enrollment!Next => AnswerRow'
<1> SUFFICES ASSUME AnswerRow, Enrollment!Next PROVE AnswerRow'
  OBVIOUS
<1>1. answer' = answer \/ answer' \in {"none", "ok", "refused", "regenerate"}
  BY DEF Enrollment!Next, Enrollment!Runs, Enrollment!Start, Enrollment!AdoptFiles, Enrollment!Adopt,
     Enrollment!OnlyFiles, Enrollment!Load, Enrollment!Forget, Enrollment!Enroll, Enrollment!Create,
     Enrollment!SyncPending, Enrollment!Send, Enrollment!Retry, Enrollment!Answered,
     Enrollment!Save, Enrollment!Clear, Enrollment!End, Enrollment!Exchanges, Enrollment!Exchange,
     Enrollment!Kill, Enrollment!Outage, Enrollment!Issue, Enrollment!Expire, Enrollment!Done,
     Enrollment!vars
<1>2. QED
  BY <1>1 DEF AnswerRow

EnrollIInv == EnrollInv /\ AnswerRow

LEMMA EnrollStep == EnrollIInv /\ [WorkerNext]_allVars => EnrollIInv'
<1> SUFFICES ASSUME EnrollInv, AnswerRow, [WorkerNext]_allVars PROVE EnrollIInv'
  BY DEF EnrollIInv
<1>1. ASSUME Enrollment!Next PROVE EnrollInv'
  <2>1. CASE Enrollment!Runs
    BY <2>1, PlainStep, AdoptStep, AskStep, SaveStep DEF Enrollment!Runs
  <2>2. CASE Enrollment!Exchanges
    BY <2>2, ExchangeStep DEF Enrollment!Exchanges
  <2>3. CASE Enrollment!Outage
    BY <2>3, OutageStep
  <2>4. CASE Enrollment!Kill \/ \E t \in Tokens : Enrollment!Issue(t) \/ Enrollment!Expire(t)
    BY <2>4, PlainStep
  <2>5. CASE Enrollment!Done
    <3>1. UNCHANGED <<file, past, digest, exchanges, kills, outages, phase, credential, answer>>
      BY <2>5 DEF Enrollment!Done, Enrollment!vars, Enrollment!server, Enrollment!files,
         Enrollment!worker, Enrollment!faults
    <3>2. Known' = Known
      BY <3>1 DEF Known
    <3>3. QED
      BY <3>1, <3>2, FilesStay DEF EnrollInv, FileRows, Settled, Places, AnswersTrue, Reliable
  <2>6. QED
    BY <1>1, <2>1, <2>2, <2>3, <2>4, <2>5 DEF Enrollment!Next
<1>2. CASE UNCHANGED enrolling
  <2>1. UNCHANGED <<file, past, digest, exchanges, kills, outages, phase, credential, answer>>
    BY <1>2 DEF enrolling
  <2>2. Known' = Known
    BY <2>1 DEF Known
  <2>3. QED
    BY <2>1, <2>2, FilesStay DEF EnrollIInv, EnrollInv, AnswerRow, FileRows, Settled, Places, AnswersTrue, Reliable
<1> QED
  BY <1>1, <1>2, AnswerStep, EachPartSteps DEF EnrollIInv

\* The credential the server accepted is in the worker's files, whatever kills
\* leave or losses of power do to them, and an installed one is accepted: for
\* any number of tokens, of lost answers and of stops of either kind
\* (client.go:85-139, worker_auth.go:91-130).
THEOREM CredentialsAgreeCorrect == WorkerSpec => []CredentialsAgree
<1>1. WorkerInit => EnrollIInv
  BY EnrollInit DEF WorkerInit, EnrollIInv, AnswerRow, Enrollment!Init
<1>2. ASSUME EnrollIInv PROVE CredentialsAgree
  <2>1. ASSUME NEW f, Holds(f, Known) PROVE Enrollment!Keeps(f)
    BY <2>1 DEF Holds, Known, Enrollment!Keeps
  <2>2. Enrollment!NeverLockedOut
    BY <1>2, <2>1 DEF EnrollIInv, EnrollInv, Kept, Reliable, Enrollment!NeverLockedOut
  <2>3. Enrollment!SavedIsAccepted
    BY <1>2 DEF EnrollIInv, EnrollInv, OneSaved, SavedKnown, Reliable, Enrollment!SavedIsAccepted
  <2>4. QED
    BY <2>2, <2>3 DEF CredentialsAgree, Enrollment!CredentialsAgree
<1>3. QED
  BY <1>1, <1>2, EnrollStep, PTL DEF WorkerSpec, allVars

=============================================================================
