---------------------------- MODULE ClaimProtocol ----------------------------
(***************************************************************************)
(* How a worker asks for work: one request at a time, with an ID and a     *)
(* lease token of its own that are sent again until an answer comes, while *)
(* a health check, a registration, a worker heartbeat or a crash takes the *)
(* right to claim away.  The control plane keeps the answer of every       *)
(* request, so that a repeated one finds the same attempt.                 *)
(*                                                                         *)
(* An attempt is only claimed, run, and disposed of; what it does on disk  *)
(* is in WorkerRecovery.  Requests and answers can be lost or late.        *)
(***************************************************************************)
EXTENDS Naturals, FiniteSets

CONSTANTS Requests,    \* request IDs; each is drawn once
          Attempts,    \* attempt IDs
          Capacity,    \* max_concurrent
          MaxLosses,   \* bound: requests, answers and registrations that fail
          MaxChecks,   \* bound: health checks
          MaxCrashes,  \* bound: restarts of the worker
          None         \* no request, no attempt, the empty answer

ASSUME CapacityAssumption == Capacity \in Nat \ {0}
ASSUME NoneAssumption == None \notin Requests \cup Attempts
ASSUME AttemptsAssumption == Attempts \cap {"unknown", "empty", "forgotten"} = {}

VARIABLES requests,   \* claim_requests: unknown, empty, forgotten, or an attempt
          attempts,   \* state and acknowledgement of each attempt
          rollHealthy, \* the health the last full registration reported
          wire,       \* requests under way to the control plane
          reply,      \* the answer under way to the worker
          health, checking,           \* the worker's health and its running check
          fatal,      \* an error no health check takes back
          registered, advertised,     \* may claim; the server knows this generation
          sent,       \* the registration under way: none, current or stale
          claimer,    \* the goroutine that claims
          pending,    \* the requests that have not been cancelled
          running, disposed,          \* attempts on the worker
          unsaved,    \* the disposals the journal does not have
          losses, checks, crashes

server == <<requests, attempts, rollHealthy>>
network == <<wire, reply>>
healthy == <<health, checking, fatal>>
right == <<registered, advertised, sent>>
claiming == <<claimer, pending>>
local == <<running, disposed, unsaved>>
bounds == <<losses, checks, crashes>>
vars == <<server, network, healthy, right, claiming, local, bounds>>

Idle == [phase |-> "idle", req |-> None]
NoReply == [req |-> None, answer |-> "none", attempt |-> None]
States == {"none", "active", "ended", "lost"}

TypeOK ==
    /\ requests \in [Requests -> {"unknown", "empty", "forgotten"} \cup Attempts]
    /\ attempts \in [Attempts -> [state : States, ack : BOOLEAN]]
    /\ rollHealthy \in BOOLEAN
    /\ wire \subseteq Requests
    /\ reply \in [req : Requests \cup {None}, answer : {"none", "empty", "conflict", "claim"},
                  attempt : Attempts \cup {None}]
    /\ health \in {"healthy", "unhealthy"} /\ checking \in BOOLEAN /\ fatal \in BOOLEAN
    /\ registered \in BOOLEAN /\ advertised \in BOOLEAN
    /\ sent \in {"none", "current", "stale"}
    /\ claimer \in [phase : {"idle", "reserved", "asking", "answered", "eligible", "forgo"},
                    req : Requests \cup {None}]
    /\ pending \subseteq Requests
    /\ running \subseteq Attempts /\ unsaved \subseteq disposed /\ disposed \subseteq Attempts
    /\ losses \in 0 .. MaxLosses /\ checks \in 0 .. MaxChecks /\ crashes \in 0 .. MaxCrashes

Init ==
    /\ requests = [r \in Requests |-> "unknown"]
    /\ attempts = [a \in Attempts |-> [state |-> "none", ack |-> FALSE]]
    /\ rollHealthy = FALSE
    /\ wire = {} /\ reply = NoReply
    /\ health = "healthy" /\ checking = FALSE /\ fatal = FALSE
    /\ registered = FALSE /\ advertised = FALSE /\ sent = "none"
    /\ claimer = Idle /\ pending = {}
    /\ running = {} /\ disposed = {} /\ unsaved = {}
    /\ losses = 0 /\ checks = 0 /\ crashes = 0

Active == {a \in Attempts : attempts[a].state = "active"}
Loss == losses < MaxLosses /\ losses' = losses + 1 /\ UNCHANGED <<checks, crashes>>
NoLoss == UNCHANGED bounds

-----------------------------------------------------------------------------
(* The worker's side of a claim.                                           *)

MayClaim == health = "healthy" /\ registered /\ ~checking
InUse == Cardinality(running) + (IF claimer.phase = "idle" THEN 0 ELSE 1)

(* The poll, and the refill after a claim or an attempt.                   *)
Reserve ==
    /\ claimer.phase = "idle" /\ MayClaim /\ InUse < Capacity
    /\ claimer' = [Idle EXCEPT !.phase = "reserved"]
    /\ UNCHANGED <<server, network, healthy, right, pending, local, bounds>>

(* Mistake: an ID is drawn again once nobody waits for its answer.         *)
DrawnOpen == wire \cup pending
Drawn == {r \in Requests : requests[r] # "unknown"} \cup wire \cup pending

BeginClaim(r) ==
    /\ claimer.phase = "reserved" /\ MayClaim /\ r \notin Drawn
    /\ claimer' = [phase |-> "asking", req |-> r]
    /\ pending' = pending \cup {r} /\ wire' = wire \cup {r} /\ reply' = NoReply
    /\ UNCHANGED <<server, healthy, right, local, bounds>>

NoLongerEligible ==
    /\ claimer.phase = "reserved" /\ ~MayClaim /\ claimer' = Idle
    /\ UNCHANGED <<server, network, healthy, right, pending, local, bounds>>

(* No answer within requestTimeout, or a failing one: the same request.    *)
Repeat ==
    /\ claimer.phase = "asking" /\ claimer.req \in pending /\ reply = NoReply
    /\ wire' = wire \cup {claimer.req}
    /\ UNCHANGED <<server, reply, healthy, right, claiming, local, bounds>>

(* Mistake: the context is looked at only when there is an answer.         *)
CancelledWithAnswer ==
    /\ claimer.phase = "asking" /\ claimer.req \notin pending /\ reply # NoReply
    /\ claimer' = Idle /\ reply' = NoReply
    /\ UNCHANGED <<server, wire, healthy, right, pending, local, bounds>>

(* The claim's context was cancelled before an answer was read.            *)
Cancelled ==
    /\ claimer.phase = "asking" /\ claimer.req \notin pending
    /\ claimer' = Idle /\ reply' = NoReply
    /\ UNCHANGED <<server, wire, healthy, right, pending, local, bounds>>

Answered ==
    /\ claimer.phase = "asking" /\ reply.req = claimer.req
    /\ claimer' = [claimer EXCEPT !.phase = "answered"]
    /\ UNCHANGED <<server, network, healthy, right, pending, local, bounds>>

(* endClaim waits for a health check that runs, unless it was cancelled.   *)
EndedClaim == claimer.phase = "answered" /\ (checking => claimer.req \notin pending)
Eligible == claimer.req \in pending /\ health = "healthy"

NothingToDo ==
    /\ EndedClaim /\ reply.answer # "claim"
    /\ claimer' = Idle /\ reply' = NoReply /\ pending' = pending \ {claimer.req}
    /\ UNCHANGED <<server, wire, healthy, right, local, bounds>>

EndClaim ==
    /\ EndedClaim /\ reply.answer = "claim"
    /\ pending' = pending \ {claimer.req}
    /\ claimer' = [claimer EXCEPT !.phase = IF Eligible THEN "eligible" ELSE "forgo"]
    /\ UNCHANGED <<server, network, healthy, right, local, bounds>>

(* Health may have gone since endClaim looked at it; the attempt starts.   *)
StartAttempt ==
    /\ claimer.phase = "eligible"
    /\ running' = running \cup {reply.attempt} /\ reply' = NoReply
    /\ claimer' = IF MayClaim /\ Cardinality(running') < Capacity
                  THEN [Idle EXCEPT !.phase = "reserved"] ELSE Idle
    /\ UNCHANGED <<server, wire, healthy, right, pending, disposed, unsaved, bounds>>

(* markUnhealthy: a new generation, and no claim may go on.                *)
Condemned ==
    /\ fatal' = TRUE /\ health' = "unhealthy"
    /\ registered' = FALSE /\ advertised' = FALSE /\ pending' = {}

(* finishWithoutWorktree: a disposal and a completion that may be lost;    *)
(* the disposal is only remembered, and nothing completed, if the journal  *)
(* cannot be written.                                                      *)
Forgo ==
    LET a == reply.attempt IN
    /\ claimer.phase = "forgo" /\ claimer' = Idle /\ reply' = NoReply
    /\ disposed' = disposed \cup {a}
    /\ \/ /\ NoLoss /\ UNCHANGED <<healthy, right, pending, unsaved>>
          /\ attempts' = [attempts EXCEPT ![a].state = IF @ = "active" THEN "ended" ELSE @]
       \/ Loss /\ UNCHANGED <<attempts, healthy, right, pending, unsaved>>
       \/ /\ Loss /\ Condemned /\ unsaved' = unsaved \cup {a}
          /\ sent' = IF sent = "none" THEN "none" ELSE "stale"
          /\ UNCHANGED <<attempts, checking>>
    /\ UNCHANGED <<requests, rollHealthy, wire, running>>

(* The attempt ends; its worktree is gone, or retained and reported.       *)
EndAttempt(a) ==
    /\ a \in running /\ running' = running \ {a} /\ disposed' = disposed \cup {a}
    /\ \/ /\ NoLoss
          /\ attempts' = [attempts EXCEPT ![a].state = IF @ = "active" THEN "ended" ELSE @]
       \/ Loss /\ UNCHANGED attempts
    /\ claimer' = IF claimer = Idle /\ MayClaim THEN [Idle EXCEPT !.phase = "reserved"] ELSE claimer
    /\ UNCHANGED <<requests, rollHealthy, network, healthy, right, pending, unsaved>>

-----------------------------------------------------------------------------
(* The control plane's side.                                               *)

Answer(r, what, a) ==
    reply' = IF claimer.phase = "asking" /\ claimer.req = r
             THEN [req |-> r, answer |-> what, attempt |-> a] ELSE reply

Owned(a) == attempts[a].state = "active"

(* Mistake: a repeated request is not recognised.                          *)
UnknownAlways(r) == TRUE
Unknown(r) == requests[r] \in {"unknown", "forgotten"}

Replay(r) ==
    /\ r \in wire /\ ~Unknown(r) /\ wire' = wire \ {r}
    /\ \/ requests[r] = "empty" /\ Answer(r, "empty", None)
       \/ requests[r] \in Attempts /\ Owned(requests[r]) /\ Answer(r, "claim", requests[r])
       \/ requests[r] \in Attempts /\ ~Owned(requests[r]) /\ Answer(r, "conflict", None)
    /\ UNCHANGED <<server, healthy, right, claiming, local, bounds>>

(* An empty answer is kept for EmptyClaimTTL.                              *)
ForgetEmpty(r) ==
    /\ requests[r] = "empty" /\ requests' = [requests EXCEPT ![r] = "forgotten"]
    /\ UNCHANGED <<attempts, rollHealthy, network, healthy, right, claiming, local, bounds>>

(* The worker is unhealthy or full, or there is no work for it.            *)
ClaimNothing(r) ==
    /\ r \in wire /\ Unknown(r) /\ wire' = wire \ {r}
    /\ requests' = [requests EXCEPT ![r] = "empty"] /\ Answer(r, "empty", None)
    /\ UNCHANGED <<attempts, rollHealthy, healthy, right, claiming, local, bounds>>

Room == Cardinality(Active) < Capacity

ClaimAttempt(r, a) ==
    /\ r \in wire /\ Unknown(r) /\ wire' = wire \ {r}
    /\ rollHealthy /\ Room /\ attempts[a].state = "none"
    /\ attempts' = [attempts EXCEPT ![a].state = "active"]
    /\ requests' = [requests EXCEPT ![r] = a] /\ Answer(r, "claim", a)
    /\ UNCHANGED <<rollHealthy, healthy, right, claiming, local, bounds>>

LoseRequest(r) ==
    /\ r \in wire /\ wire' = wire \ {r} /\ Loss
    /\ UNCHANGED <<server, reply, healthy, right, claiming, local>>

LoseReply ==
    /\ claimer.phase = "asking" /\ reply # NoReply /\ reply' = NoReply /\ Loss
    /\ UNCHANGED <<server, wire, healthy, right, claiming, local>>

Sweep(a) ==
    /\ Owned(a) /\ attempts' = [attempts EXCEPT ![a].state = "lost"]
    /\ UNCHANGED <<requests, rollHealthy, network, healthy, right, claiming, local, bounds>>

-----------------------------------------------------------------------------
(* Health, registration and the worker's heartbeat.                        *)

BeginCheck ==
    /\ ~checking /\ checks < MaxChecks /\ checks' = checks + 1 /\ checking' = TRUE
    /\ UNCHANGED <<server, network, health, fatal, right, claiming, local, losses, crashes>>

(* setHealth: a changed result is a new generation of the registration; an *)
(* unhealthy one cancels the claims.  Capabilities may change as well.     *)
SetHealth(h) ==
    LET changed == health # h IN
    /\ checking /\ checking' = FALSE /\ health' = h /\ (fatal => h = "unhealthy")
    /\ \E new \in {TRUE, changed} :
          IF new THEN /\ registered' = FALSE /\ advertised' = FALSE
                      /\ sent' = IF sent = "none" THEN "none" ELSE "stale"
                 ELSE UNCHANGED right
    /\ pending' = IF h = "healthy" THEN pending ELSE {}
    /\ UNCHANGED <<server, network, fatal, claimer, local, bounds>>

(* Something an attempt does fails in a way no health check takes back.    *)
MarkUnhealthy ==
    /\ running # {} /\ ~fatal /\ Loss /\ Condemned
    /\ sent' = IF sent = "none" THEN "none" ELSE "stale"
    /\ UNCHANGED <<server, network, checking, claimer, local>>

Acks == [a \in Attempts |-> [attempts[a] EXCEPT !.ack = @ \/ a \in disposed]]

RegisterSend ==
    /\ sent = "none" /\ sent' = "current"
    /\ rollHealthy' = (health = "healthy") /\ attempts' = Acks
    /\ UNCHANGED <<requests, network, healthy, registered, advertised, claiming, local, bounds>>

(* completeRegistrationLocked compares the generations.                    *)
Current == sent = "current"

RegisterDone ==
    /\ sent # "none" /\ sent' = "none"
    /\ IF Current THEN registered' = TRUE /\ advertised' = TRUE /\ UNCHANGED pending
       ELSE registered' = FALSE /\ pending' = {} /\ UNCHANGED advertised
    /\ UNCHANGED <<server, network, healthy, claimer, local, bounds>>

(* The request or its answer is lost.                                      *)
RegisterFails ==
    /\ sent' = "none" /\ Loss
    /\ registered' = FALSE /\ pending' = {}
    /\ UNCHANGED <<server, network, healthy, advertised, claimer, local>>

(* It is rejected, or the disposals it has reported cannot be cleared.     *)
RegisterRefused ==
    /\ sent' = "none" /\ Loss /\ Condemned
    /\ UNCHANGED <<server, network, checking, claimer, local>>

(* During a hand-over a heartbeat takes the place of the registration.     *)
Heartbeat ==
    /\ sent = "none" /\ advertised
    /\ \/ NoLoss /\ registered' = TRUE /\ UNCHANGED pending
       \/ Loss /\ registered' = FALSE /\ pending' = {}
    /\ UNCHANGED <<server, network, healthy, advertised, sent, claimer, local>>

(* The restarted worker disposes of what it has a manifest of.             *)
Crash ==
    /\ crashes < MaxCrashes /\ crashes' = crashes + 1
    /\ health' = "healthy" /\ checking' = FALSE /\ fatal' = FALSE
    /\ registered' = FALSE /\ advertised' = FALSE /\ sent' = "none"
    /\ claimer' = Idle /\ pending' = {} /\ reply' = NoReply
    /\ disposed' = (disposed \ unsaved) \cup running /\ running' = {} /\ unsaved' = {}
    /\ UNCHANGED <<server, wire, losses, checks>>

Claims ==
    \/ Reserve \/ NoLongerEligible \/ Repeat \/ Cancelled \/ Answered \/ NothingToDo
    \/ EndClaim \/ StartAttempt \/ Forgo
    \/ \E r \in Requests : BeginClaim(r)

Serves ==
    \E r \in Requests : Replay(r) \/ ClaimNothing(r) \/ \E a \in Attempts : ClaimAttempt(r, a)

Registers == RegisterSend \/ RegisterDone

Checks == \E h \in {"healthy", "unhealthy"} : SetHealth(h)

Next ==
    \/ Claims \/ Serves \/ Registers \/ RegisterFails \/ RegisterRefused \/ Heartbeat
    \/ BeginCheck \/ Checks \/ MarkUnhealthy
    \/ \E a \in Attempts : EndAttempt(a) \/ Sweep(a)
    \/ \E r \in Requests : LoseRequest(r) \/ ForgetEmpty(r)
    \/ LoseReply \/ Crash

Spec == Init /\ [][Next]_vars

(* The claim goroutine and the control plane go on, a health check comes   *)
(* to an end, a registration is answered and comes again, a lease expires. *)
Fairness ==
    /\ WF_vars(Repeat) /\ WF_vars(Cancelled) /\ WF_vars(Answered) /\ WF_vars(NothingToDo)
    /\ WF_vars(EndClaim) /\ WF_vars(StartAttempt) /\ WF_vars(Forgo) /\ WF_vars(NoLongerEligible)
    /\ WF_vars(Serves)
    /\ WF_vars(RegisterSend) /\ WF_vars(RegisterDone) /\ WF_vars(Checks)
    /\ \A a \in Attempts : WF_vars(Sweep(a)) /\ WF_vars(EndAttempt(a))

FairSpec == Spec /\ Fairness

-----------------------------------------------------------------------------
(* Properties.                                                             *)

(* A request makes at most one attempt, however often it is sent, and an   *)
(* attempt belongs to one request (state.go:52-90).                        *)
OneAttemptPerRequest ==
    \A a \in Attempts :
        attempts[a].state # "none" => Cardinality({r \in Requests : requests[r] = a}) = 1

(* Lost answers and restarts never let a worker own more leases than it    *)
(* has capacity (state.go:96-102).                                         *)
LeasesWithinCapacity == Cardinality(Active) <= Capacity

(* What claims leave on the control plane is what the worker has room for. *)
ClaimsAgree == OneAttemptPerRequest /\ LeasesWithinCapacity

(* What the control plane has been told is disposed of                     *)
(* (store.go:1773-1833) is over: the worker neither runs it nor has it     *)
(* offered again, though its completion was lost, its lease goes on and    *)
(* the request that made it would find it (claiming.go:68-94).             *)
AcknowledgedIsOver ==
    \A a \in Attempts :
        attempts[a].ack => a \notin running /\ ~(claimer.phase # "idle" /\ reply.attempt = a)

(* A claim does not hold its slot for ever: no lost answer, cancelled      *)
(* context or health check leaves the goroutine waiting (client.go:427).   *)
ClaimReturns ==
    claimer.phase \in {"asking", "answered", "eligible", "forgo"} ~>
        claimer.phase \in {"idle", "reserved"}

(* What the worker has been given is disposed of: an attempt that ends on  *)
(* the control plane does not count against the repository for ever        *)
(* (docs/worker.md:151-152 "terminal attempts awaiting a local disposition *)
(* on that worker").                                                       *)
ClaimsAreSettled == \A a \in Attempts : attempts[a].state # "none" ~> attempts[a].ack
=============================================================================
