------------------------------ MODULE MCWorker ------------------------------
(***************************************************************************)
(* Instances of what a worker exchanges with others: ClaimProtocol and     *)
(* WorkerEnrollment, what it asks of the control plane once it is          *)
(* registered and before; AttemptSupervisor and AttemptEvents, the pipes   *)
(* between it, its supervisors and the control plane while an attempt      *)
(* runs.  They share no variable, so one run explores them all: in a       *)
(* behaviour one part moves while the others stay where they started.      *)
(***************************************************************************)
EXTENDS ClaimProtocol

CONSTANTS Tokens, Credentials, Legacy, MaxStops, MaxLost,
          MaxOutputs, MaxFaults,
          QueueSize, Budget, MaxLines, MaxMissed

(* A worker's credentials and those of older workers have prefixes of      *)
(* their own.                                                              *)
ASSUME CredentialsAssumption ==
    Legacy \notin Credentials /\ None \notin Credentials \cup {Legacy}

VARIABLES part,    \* the part that moves
          token, used, digest, config, using, file, past, made, phase, credential, client,
          exchanges, answer, kills, outages, lost,
          loop, reason, attached, heart, outcome, unhealthy, marked, control, open,
          messages, decode, sup, why, group, fired, broken, outputs, faults,
          lines, large, queue, next, disabled, closed, overflow, sending, ended,
          packets, response, events, active, cancelled, missed

Enrollment == INSTANCE WorkerEnrollment WITH wire <- exchanges, losses <- lost, MaxLosses <- MaxLost
Supervision == INSTANCE AttemptSupervisor
Events == INSTANCE AttemptEvents
              WITH wire <- packets, answer <- response, losses <- missed, MaxLosses <- MaxMissed

enrolling == <<token, used, digest, config, using, file, past, made, phase, credential, client,
               exchanges, answer, kills, outages, lost>>
supervising == <<loop, reason, attached, heart, outcome, unhealthy, marked, control, open,
                 messages, decode, sup, why, group, fired, broken, outputs, faults>>
reporting == <<lines, large, queue, next, disabled, closed, overflow, sending, ended,
               packets, response, events, active, cancelled, missed>>

WorkerInit ==
    /\ Init /\ Enrollment!Init /\ Supervision!Init /\ Events!Init
    /\ part \in {"claims", "enrollment", "supervisor", "events"}
    /\ part # "enrollment" => file = Enrollment!Nothing /\ config = CHOOSE t \in Tokens : TRUE

WorkerNext ==
    \/ part = "claims" /\ Next /\ UNCHANGED <<part, enrolling, supervising, reporting>>
    \/ part = "enrollment" /\ Enrollment!Next
       /\ UNCHANGED <<part, vars, supervising, reporting>>
    \/ part = "supervisor" /\ Supervision!Next /\ UNCHANGED <<part, vars, enrolling, reporting>>
    \/ part = "events" /\ Events!Next /\ UNCHANGED <<part, vars, enrolling, supervising>>

(* The part that moves is fair as its module says.                         *)
WorkerFairness ==
    /\ WF_vars(part = "claims" /\ Repeat)
    /\ WF_vars(part = "claims" /\ Cancelled)
    /\ WF_vars(part = "claims" /\ Answered)
    /\ WF_vars(part = "claims" /\ NothingToDo)
    /\ WF_vars(part = "claims" /\ EndClaim)
    /\ WF_vars(part = "claims" /\ StartAttempt)
    /\ WF_vars(part = "claims" /\ Forgo)
    /\ WF_vars(part = "claims" /\ NoLongerEligible)
    /\ WF_vars(part = "claims" /\ Serves)
    /\ WF_vars(part = "claims" /\ RegisterSend)
    /\ WF_vars(part = "claims" /\ RegisterDone)
    /\ WF_vars(part = "claims" /\ Checks)
    /\ \A a \in Attempts : /\ WF_vars(part = "claims" /\ Sweep(a))
                            /\ WF_vars(part = "claims" /\ EndAttempt(a))
    /\ WF_enrolling(part = "enrollment" /\ Enrollment!Runs)
    /\ SF_enrolling(part = "enrollment" /\ Enrollment!Answers)
    /\ WF_supervising(part = "supervisor" /\ Supervision!Loop)
    /\ WF_supervising(part = "supervisor" /\ Supervision!Supervisor)
    /\ WF_supervising(part = "supervisor" /\ (~heart \/ loop \in Supervision!Over) /\ Supervision!LeaseFires)
    /\ WF_reporting(part = "events" /\ Events!Take)
    /\ WF_reporting(part = "events" /\ Events!SendAgain)
    /\ WF_reporting(part = "events" /\ Events!Answered)
    /\ WF_reporting(part = "events" /\ Events!Return)
    /\ WF_reporting(part = "events" /\ Events!Serves)

WorkerSpec ==
    /\ WorkerInit /\ [][WorkerNext]_<<part, vars, enrolling, supervising, reporting>>
    /\ WorkerFairness

(* Their properties, where a cfg can name them.                            *)
CredentialsAgree == Enrollment!CredentialsAgree
AcceptedIsSaved == Enrollment!AcceptedIsSaved
StoppedIsDead == Supervision!StoppedIsDead
RuntimeIsStopped == Supervision!RuntimeIsStopped
HistoryIsPrefix == Events!HistoryIsPrefix
QueuedArrives == Events!QueuedArrives
=============================================================================
