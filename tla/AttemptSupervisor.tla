------------------------- MODULE AttemptSupervisor --------------------------
(***************************************************************************)
(* One stage of an attempt: the goroutines of the worker that run it, the  *)
(* supervisor process, and the process group of the runtime it owns.  The  *)
(* worker sends commands down a control pipe whose end of file means that  *)
(* it is gone; the supervisor answers with messages on its output, whose   *)
(* end is a decode error for the worker.  Either process may be killed.    *)
(***************************************************************************)
EXTENDS Naturals, Sequences, SequencesExt

CONSTANTS MaxOutputs,  \* bound: output messages of the runtime
          MaxFaults,   \* bound: kills, crashes and unverified stops
          None         \* no reason

VARIABLES loop,       \* where runAttempt is in this stage
          reason,     \* attemptHandle.reason: the first stop wins
          attached,   \* the handle has its supervisor
          heart,      \* heartbeatAttempt renews the lease
          outcome,    \* the agent has reported an outcome
          unhealthy,  \* the worker reported a process it could not stop
          marked,     \* supervisorProcess.stoppedVerified
          control,    \* commands in the control pipe
          open,       \* the worker holds its end of the control pipe
          messages,   \* messages the worker has not read
          decode,     \* decodeErrors: none, pending or taken
          sup,        \* where the supervisor is
          why,        \* its reason to stop
          group,      \* the process group: anchor and runtime
          fired,      \* the lease timer of the supervisor
          broken,     \* it died of writing to a worker that is gone
          outputs, faults

handle == <<reason, attached, heart, outcome>>
worker == <<loop, unhealthy, marked>>
pipes == <<control, open, messages, decode>>
process == <<sup, why, group, fired, broken>>
bounds == <<outputs, faults>>
vars == <<handle, worker, pipes, process, bounds>>

Reasons == {"cancelled", "timeout", "lease_lost", "failed"}
Commands == {"start", "renew", "outcome_reported", "cancel", "timeout", "lease_lost", "fail"}
Causes == {"exited", "cancelled", "timeout", "lease_lost", "supervisor_error", "parent_lost",
           "outcome_reported"}
Exit == [type : {"exit"}, cause : Causes, unverified : BOOLEAN]
Plain(t) == [type |-> t]
Message == Exit \cup {Plain(t) : t \in {"ready", "started", "output"}}
Over == {"done", "crashed"}

TypeOK ==
    /\ loop \in {"ready", "attach", "prepare", "send", "started", "acknowledge", "wait"} \cup Over
    /\ reason \in Reasons \cup {None}
    /\ attached \in BOOLEAN /\ heart \in BOOLEAN /\ outcome \in BOOLEAN
    /\ unhealthy \in BOOLEAN /\ marked \in BOOLEAN /\ open \in BOOLEAN /\ fired \in BOOLEAN
    /\ control \in Seq(Commands) /\ messages \in Seq(Message)
    /\ decode \in {"none", "pending", "taken"}
    /\ sup \in {"boot", "idle", "running", "stopping", "reporting", "gone"}
    /\ why \in Causes \cup {None}
    /\ group \in {"none", "anchor", "runtime", "exited", "dead"}
    /\ broken \in BOOLEAN /\ outputs \in 0 .. MaxOutputs /\ faults \in 0 .. MaxFaults

Init ==
    /\ loop = "ready" /\ reason = None
    /\ attached = FALSE /\ heart = TRUE /\ outcome = FALSE
    /\ unhealthy = FALSE /\ marked = FALSE
    /\ control = <<>> /\ open = TRUE /\ messages = <<>> /\ decode = "none"
    /\ sup = "boot" /\ why = None /\ group = "none" /\ fired = FALSE /\ broken = FALSE
    /\ outputs = 0 /\ faults = 0

-----------------------------------------------------------------------------
(* The worker.                                                             *)

StopCommand(r) ==
    CASE r = "cancelled" -> "cancel" [] r = "failed" -> "fail" [] OTHER -> r

(* process.send: without a reader, or a pipe, the command is lost.         *)
Send(c) == control' = IF open /\ sup # "gone" THEN Append(control, c) ELSE control

(* attemptHandle.stop: the first reason stays, and is sent once there is a *)
(* supervisor to send it to.                                               *)
Stop(r) ==
    IF reason # None THEN UNCHANGED <<reason, control>>
    ELSE /\ reason' = r
         /\ IF attached THEN Send(StopCommand(r)) ELSE UNCHANGED control

(* emergencyStop: the pipe is closed and the group stopped, unless its     *)
(* identity cannot be verified.                                            *)
EmergencyStop ==
    /\ open' = FALSE
    /\ \/ /\ group \notin {"none", "dead"}
          /\ group' = "dead" /\ marked' = TRUE /\ UNCHANGED <<unhealthy, faults>>
       \/ /\ group \in {"none", "dead"}
          /\ unhealthy' = TRUE /\ UNCHANGED <<group, marked, faults>>
       \/ /\ group \notin {"none", "dead"} /\ faults < MaxFaults
          /\ faults' = faults + 1 /\ unhealthy' = TRUE /\ UNCHANGED <<group, marked>>

(* awaitReady; without readiness data the group cannot be named, and only  *)
(* the pipe is closed.                                                     *)
Ready ==
    /\ loop = "ready"
    /\ messages # <<>> /\ Head(messages).type = "ready"
    /\ messages' = Tail(messages)
    /\ loop' = "attach"
    /\ UNCHANGED <<handle, unhealthy, marked, control, open, decode, process, bounds>>

NotReady ==
    /\ loop = "ready"
    /\ open' = FALSE
    /\ loop' = "done"
    /\ UNCHANGED <<handle, unhealthy, marked, control, messages, decode, process, bounds>>

(* setSupervisor, once the manifest names the process.                     *)
Attach ==
    /\ loop = "attach"
    /\ attached' = TRUE
    /\ \E c \in {"renew", "lease_lost"} : Send(IF reason # None THEN StopCommand(reason) ELSE c)
    /\ loop' = "prepare"
    /\ UNCHANGED <<reason, heart, outcome, unhealthy, marked, open, messages, decode, process,
                   bounds>>

(* The attempt and its stage are started at the server and the manifest is *)
(* written, or the start is refused or fails and the stage is stopped.     *)
Prepare ==
    /\ loop = "prepare"
    /\ \/ loop' = "send" /\ UNCHANGED <<reason, control>>
       \/ \E r \in {"failed", "lease_lost"} : Stop(r) /\ loop' = "wait"
    /\ UNCHANGED <<attached, heart, outcome, unhealthy, marked, open, messages, decode, process,
                   bounds>>

(* The manifest cannot be written, before or after setSupervisor.          *)
ManifestFails ==
    /\ loop \in {"attach", "prepare"}
    /\ IF loop = "prepare" THEN Stop("failed") ELSE UNCHANGED <<reason, control>>
    /\ EmergencyStop
    /\ loop' = "done"
    /\ UNCHANGED <<attached, heart, outcome, messages, decode, sup, why, fired, broken, outputs>>

SendStart ==
    /\ loop = "send"
    /\ sup # "gone"
    /\ Send("start")
    /\ loop' = "started"
    /\ UNCHANGED <<handle, unhealthy, marked, open, messages, decode, process, bounds>>

SendStartFails ==
    /\ loop = "send"
    /\ sup = "gone"
    /\ EmergencyStop
    /\ loop' = "done"
    /\ UNCHANGED <<handle, control, messages, decode, sup, why, fired, broken, outputs>>

(* The server acknowledges that the runtime runs.                          *)
Acknowledge ==
    /\ loop = "acknowledge"
    /\ loop' = "wait"
    /\ \/ UNCHANGED <<reason, control>>
       \/ Stop("failed")
    /\ UNCHANGED <<attached, heart, outcome, unhealthy, marked, open, messages, decode, process,
                   bounds>>

(* What a message means to the loop that reads it.                         *)
Handle(m) ==
    CASE m.type = "exit" ->
           /\ loop' = "done"
           /\ IF m.unverified THEN EmergencyStop
              ELSE marked' = TRUE /\ open' = FALSE /\ UNCHANGED <<unhealthy, group, faults>>
      [] m.type = "started" ->
           /\ loop' = IF loop = "started" THEN "acknowledge" ELSE "done"
           /\ UNCHANGED <<unhealthy, marked, open, group, faults>>
      [] m.type = "output" ->
           /\ loop' = IF loop = "started" THEN "done" ELSE loop
           /\ UNCHANGED <<unhealthy, marked, open, group, faults>>
      [] OTHER -> UNCHANGED <<worker, open, group, faults>>

(* waitForSupervisorMessage: the select takes a message or the error.      *)
Receive ==
    /\ loop \in {"started", "wait"}
    /\ messages # <<>>
    /\ messages' = Tail(messages)
    /\ Handle(Head(messages))
    /\ UNCHANGED <<handle, control, decode, sup, why, fired, broken, outputs>>

(* The error gives way to one message that is there, and is then gone.     *)
ReceiveError ==
    /\ loop \in {"started", "wait"}
    /\ decode = "pending"
    /\ decode' = "taken"
    /\ \/ /\ messages # <<>> /\ Head(messages).type # "ready"
          /\ messages' = Tail(messages)
          /\ Handle(Head(messages))
       \/ /\ messages = <<>>
          /\ EmergencyStop
          /\ loop' = "done"
          /\ UNCHANGED messages
    /\ UNCHANGED <<handle, control, sup, why, fired, broken, outputs>>

(* heartbeatAttempt.  While the supervisor waits for the next command one  *)
(* renewal in the pipe stands for any number of them.                      *)
Renew ==
    /\ heart /\ loop \notin Over
    /\ IF attached /\ "renew" \notin ToSet(control) /\ "lease_lost" \notin ToSet(control)
       THEN \E c \in {"renew", "lease_lost"} : Send(c) ELSE UNCHANGED control
    /\ UNCHANGED <<handle, worker, open, messages, decode, process, bounds>>

(* Cancellation was requested, the lease is lost, or the manifest failed.  *)
HeartbeatStops(r) ==
    /\ heart /\ loop \notin Over
    /\ heart' = FALSE
    /\ Stop(r)
    /\ UNCHANGED <<attached, outcome, worker, open, messages, decode, process, bounds>>

(* The session deadline passes, or the worker shuts down.                  *)
Interrupt(r) ==
    /\ loop \notin Over /\ reason = None
    /\ Stop(r)
    /\ UNCHANGED <<attached, heart, outcome, worker, open, messages, decode, process, bounds>>

(* The agent of the runtime reports an outcome the server accepts.         *)
AgentReports ==
    /\ group = "runtime" /\ attached /\ loop \notin Over /\ ~outcome
    /\ outcome' = TRUE
    /\ Send("outcome_reported")
    /\ UNCHANGED <<reason, attached, heart, worker, open, messages, decode, process, bounds>>

WorkerCrashes ==
    /\ loop \notin Over /\ faults < MaxFaults
    /\ faults' = faults + 1
    /\ loop' = "crashed" /\ open' = FALSE /\ heart' = FALSE
    /\ UNCHANGED <<reason, attached, outcome, unhealthy, marked, control, messages, decode,
                   process, outputs>>

-----------------------------------------------------------------------------
(* The supervisor.                                                         *)

(* The output of the supervisor is its standard output: once the worker is *)
(* gone, writing to it ends the supervisor (SIGPIPE).                      *)
Gone == sup' = "gone" /\ decode' = "pending"
Tell(m) == messages' = Append(messages, m)

Boot ==
    /\ sup = "boot"
    /\ IF loop = "crashed" THEN sup' = "gone" /\ group' = "anchor" /\ UNCHANGED <<messages, decode>>
       ELSE \/ /\ group' = "anchor" /\ sup' = "idle"
               /\ Tell(Plain("ready")) /\ UNCHANGED decode
            \/ Gone /\ UNCHANGED <<group, messages>>
    /\ UNCHANGED <<handle, worker, control, open, why, fired, broken, bounds>>

Leave(cause) == sup' = "stopping" /\ why' = cause

(* supervisorOutcomeReason: a lease that has run out is not overruled.     *)
OutcomeReason == IF fired THEN "lease_lost" ELSE "outcome_reported"

CauseOf(c) ==
    CASE c = "cancel" -> "cancelled" [] c = "fail" -> "supervisor_error"
      [] c = "outcome_reported" -> OutcomeReason [] OTHER -> c

(* Mistake: a running supervisor leaves the timeout to its own timer.      *)
StaysAtTimeout(c) == c = "renew" \/ (c \in {"start", "timeout"} /\ sup = "running")
                                 \/ (c = "outcome_reported" /\ sup = "idle")

Stays(c) == c = "renew" \/ (c = "start" /\ sup = "running")
                        \/ (c = "outcome_reported" /\ sup = "idle")

(* One command.  Before the start an outcome is ignored; a runtime that    *)
(* cannot be started ends the supervisor like a stop.                      *)
Command ==
    /\ sup \in {"idle", "running"} /\ control # <<>>
    /\ control' = Tail(control)
    /\ LET c == Head(control)
       IN  /\ fired' = (IF c = "renew" THEN FALSE ELSE fired)
           /\ \/ Stays(c) /\ UNCHANGED <<sup, why, group, messages, decode, broken>>
              \/ /\ ~Stays(c)
                 /\ Leave(IF c = "start" THEN "supervisor_error" ELSE CauseOf(c))
                 /\ UNCHANGED <<group, messages, decode, broken>>
              \/ /\ ~Stays(c) /\ c = "start" /\ group = "anchor"
                 /\ group' = "runtime" /\ UNCHANGED why
                 /\ \/ /\ loop # "crashed"
                       /\ sup' = "running" /\ Tell(Plain("started")) /\ UNCHANGED <<decode, broken>>
                    \/ /\ loop = "crashed"
                       /\ broken' = TRUE /\ Gone /\ UNCHANGED messages
    /\ UNCHANGED <<handle, worker, open, bounds>>

(* The end of the control pipe; before the start nothing is reported.      *)
EndOfControl ==
    /\ sup \in {"idle", "running"} /\ ~open
    /\ Leave(IF sup = "running" THEN "parent_lost" ELSE None)
    /\ UNCHANGED <<handle, worker, pipes, group, fired, broken, bounds>>

LeaseFires ==
    /\ sup \in {"idle", "running"} /\ ~fired
    /\ fired' = TRUE
    /\ UNCHANGED <<handle, worker, pipes, sup, why, group, broken, bounds>>

LeaseStops ==
    /\ sup \in {"idle", "running"} /\ fired
    /\ Leave("lease_lost")
    /\ UNCHANGED <<handle, worker, pipes, group, fired, broken, bounds>>

WorkTimer ==
    /\ sup = "running"
    /\ Leave("timeout")
    /\ UNCHANGED <<handle, worker, pipes, group, fired, broken, bounds>>

NoticeExit ==
    /\ sup = "running" /\ group \in {"exited", "dead"}
    /\ Leave("exited")
    /\ UNCHANGED <<handle, worker, pipes, group, fired, broken, bounds>>

(* Mistake: the exit is reported before the group is stopped.              *)
StopGroupLater ==
    /\ sup = "stopping"
    /\ sup' = "reporting"
    /\ UNCHANGED <<handle, worker, pipes, why, group, fired, broken, bounds>>

(* stopStartedSupervisorGroup and the reaping of the runtime, the anchor   *)
(* and the readers.                                                        *)
StopGroup ==
    /\ sup = "stopping"
    /\ group' = "dead" /\ sup' = "reporting"
    /\ UNCHANGED <<handle, worker, pipes, why, fired, broken, bounds>>

(* The group, or what is reaped after it, does not stop in time.           *)
StopGroupUnverified ==
    /\ sup = "stopping" /\ group \in {"runtime", "exited"} /\ faults < MaxFaults
    /\ faults' = faults + 1
    /\ Tell([type |-> "exit", cause |-> IF why = "outcome_reported" THEN "supervisor_error"
                                        ELSE why, unverified |-> TRUE])
    /\ Gone
    /\ UNCHANGED <<handle, worker, control, open, why, group, fired, broken, outputs>>

Report ==
    /\ sup = "reporting"
    /\ Gone
    /\ IF loop = "crashed" \/ why = None THEN UNCHANGED messages
       ELSE Tell([type |-> "exit", cause |-> why, unverified |-> FALSE])
    /\ UNCHANGED <<handle, worker, control, open, why, group, fired, broken, bounds>>

SupervisorKilled ==
    /\ sup # "gone" /\ faults < MaxFaults
    /\ faults' = faults + 1
    /\ Gone
    /\ UNCHANGED <<handle, worker, control, open, messages, why, group, fired, broken, outputs>>

-----------------------------------------------------------------------------
(* The runtime.                                                            *)

Output ==
    /\ group = "runtime" /\ sup \in {"running", "stopping"} /\ outputs < MaxOutputs
    /\ outputs' = outputs + 1
    /\ \/ loop # "crashed" /\ Tell(Plain("output")) /\ UNCHANGED <<sup, decode, broken>>
       \/ /\ loop = "crashed"
          /\ broken' = TRUE /\ Gone /\ UNCHANGED messages
    /\ UNCHANGED <<handle, worker, control, open, why, group, fired, faults>>

RuntimeExits ==
    /\ group = "runtime"
    /\ group' = "exited"
    /\ UNCHANGED <<handle, worker, pipes, sup, why, fired, broken, bounds>>

(* Without its supervisor the stage may have nothing left to do.           *)
StageOver == sup = "gone" /\ UNCHANGED vars

Loop ==
    \/ Ready \/ NotReady \/ Attach \/ Prepare \/ ManifestFails \/ SendStart \/ SendStartFails
    \/ Acknowledge \/ Receive \/ ReceiveError
Supervisor ==
    \/ Boot \/ Command \/ EndOfControl \/ LeaseStops \/ NoticeExit \/ StopGroup \/ Report
Others ==
    \/ Renew \/ AgentReports \/ WorkerCrashes \/ LeaseFires \/ WorkTimer \/ StopGroupUnverified
    \/ SupervisorKilled \/ Output \/ RuntimeExits \/ StageOver
    \/ \E r \in {"cancelled", "lease_lost", "failed"} : HeartbeatStops(r)
    \/ \E r \in {"cancelled", "timeout"} : Interrupt(r)

Next == Loop \/ Supervisor \/ Others

(* Requests, Git and the stop of a group run under timeouts.  The lease    *)
(* timer runs out once nobody renews it.                                   *)
Fairness ==
    /\ WF_vars(Loop)
    /\ WF_vars(Supervisor)
    /\ WF_vars((~heart \/ loop \in Over) /\ LeaseFires)

Spec == Init /\ [][Next]_vars /\ Fairness

-----------------------------------------------------------------------------
(* Properties.                                                             *)

(* A worktree may be handed over, cleaned or reported on only when its     *)
(* runtime cannot change it: a process marked as stopped is dead, whoever  *)
(* stopped it (attempt_lifecycle.go:670).                                  *)
StoppedIsDead == marked => group = "dead"

(* The reported outcome never hides that the lease ran out while it was on *)
(* its way (supervisor.go:513).                                            *)
OutcomeUnderLease ==
    [][why' = "outcome_reported" /\ why # why' => ~fired /\ outcome]_vars

(* docs/worker.md:208: "Cancellation is cooperative but enforced": once    *)
(* the attempt is to stop, for whatever reason, its loop comes to its end. *)
StopEndsAttempt == reason # None ~> loop \in Over

(* The worker waits for an error it has taken a message for.               *)
Waits == decode = "taken" /\ loop \in {"started", "wait"}

(* A runtime that is to stop is stopped, or the worker says that it is     *)
(* not, whichever process dies and in whatever order messages and errors   *)
(* come (attempt_lifecycle.go:671-721, supervisor.go:346-420).  Two cases  *)
(* are not kept: the supervisor writes to a worker that is gone, and       *)
(* the loop waits for ever (StopEndsAttempt).                              *)
RuntimeIsStopped ==
    group = "runtime" /\ (reason # None \/ loop = "crashed")
      ~> group # "runtime" \/ unhealthy \/ broken \/ Waits

(* ARCHITECTURE.md:271: "The supervisor owns its process group and         *)
(* enforces cancellation, timeout, lease loss, and parent loss".           *)
ParentLossStops == group = "runtime" /\ loop = "crashed" ~> group # "runtime"

=============================================================================
