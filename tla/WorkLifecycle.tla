---------------------------- MODULE WorkLifecycle ----------------------------
(***************************************************************************)
(* The life of Work in the Agent Factory control plane: the sessions,      *)
(* executions, attempts, session_stages and runs tables of its SQLite      *)
(* store, and every handler of src/internal/controlplane that writes them. *)
(* Each handler is one immediate transaction, so each is one action.       *)
(*                                                                         *)
(* A Run is admitted with a fixed set of sessions (Work).  A session is    *)
(* queued to a worker, claimed by it as an attempt under a lease, run      *)
(* stage by stage, and settled by the attempt's completion, by the sweeper *)
(* or by the operator, who can also answer, retry, cancel or replace it.   *)
(*                                                                         *)
(* Commits, questions and outcome updates are named by the attempt that    *)
(* reported them: the checkpoint of attempt n is n, and 0 is the empty     *)
(* string.  The callers are arbitrary: a worker may be slow, crash, answer *)
(* late or twice; the control plane cannot tell.                           *)
(*                                                                         *)
(* An operator commented "Mistake" is no part of the specification: it is  *)
(* a wrong form of the operator after it, and some property must reject it *)
(* when it takes that operator's place.                                    *)
(***************************************************************************)
EXTENDS Integers, FiniteSets

CONSTANTS
    Session,          \* identities of Work, admitted or not yet
    Run,              \* identities of runs
    Worker,
    Repository,
    Source,           \* what a session works on: a work item, or a lineage of
                      \* replacements of one repository target
    NoSession,        \* no predecessor, or no candidate
    NoWorker,         \* NULL in assigned_worker_id
    RunOf,            \* the run a session belongs to
    RepoOf,           \* the repository a session targets
    SourceOf,         \* the source a session targets
    AgentUpdateRuns,  \* runs whose outcome_contract is agent_update
    ConcurrencyLimit, \* the limit frozen in each run's task snapshot
    Capacity,         \* attempts a worker runs at once
    StageCount,       \* stages of the frozen pipeline
    LeaseTicks,       \* LeaseDuration, in clock ticks
    MaxAttempts       \* bound: attempts modelled per session

ASSUME SessionAssumption ==
    /\ IsFiniteSet(Session)
    /\ NoSession \notin Session
    /\ RunOf \in [Session -> Run]
    /\ RepoOf \in [Session -> Repository]
    /\ SourceOf \in [Session -> Source]
    /\ AgentUpdateRuns \subseteq Run

\* One run cannot contain a duplicate target.
ASSUME TargetAssumption ==
    \A s, t \in Session :
        RunOf[s] = RunOf[t] /\ RepoOf[s] = RepoOf[t] /\ SourceOf[s] = SourceOf[t] => s = t

ASSUME WorkerAssumption == NoWorker \notin Worker

ASSUME BoundAssumption ==
    /\ ConcurrencyLimit \in [Run -> Nat \ {0}]
    /\ Capacity \in [Worker -> Nat \ {0}]
    /\ StageCount \in Nat \ {0}
    /\ LeaseTicks \in Nat \ {0}
    /\ MaxAttempts \in Nat \ {0}

VARIABLES
    session,      \* the sessions table, "unadmitted" where there is no row
    execution,    \* the executions table, "none" where there is no row
    attempt,      \* the attempts table, by session and attempt_number
    stage,        \* the session_stages table, by session and position
    runTerminal,  \* is runs.terminal_at set
    enabled,      \* the managed repositories that are enabled
    routes        \* <<w, r>>: selectRunRoute would accept worker w for r

vars == <<session, execution, attempt, stage, runTerminal, enabled, routes>>

-----------------------------------------------------------------------------
(* The values of the columns. *)

Active == {"preparing", "running"}
Materialized == {"queued"} \cup Active
Nonterminal == {"blocked", "needs-input"} \cup Materialized
Terminal == {"ready", "succeeded", "failed", "no-change", "cancelled"}
SessionState == {"unadmitted"} \cup Nonterminal \cup Terminal

Result == {"succeeded", "failed", "cancelled"}
ExecutionState == {"none"} \cup Materialized \cup Result
AttemptTerminal == Result \cup {"lost"}
AttemptState == {"none"} \cup Active \cup AttemptTerminal
Outcome == {"ready", "needs-input", "failed", "no-change"}

OpenStage == {"pending", "running"}
StageState == OpenStage \cup Result

AttemptNo == 1 .. MaxAttempts
Commit == 0 .. MaxAttempts
Lease == 0 .. LeaseTicks
StageNo == 1 .. StageCount

SessionRow ==
    [state : SessionState,
     owner : {"none", "worker_attempt"},        \* execution_owner
     cancel : BOOLEAN,                          \* cancellation_requested
     pending : Commit,                          \* pending_resume_sha
     started : BOOLEAN,                         \* started_at is set
     mayRepeat : BOOLEAN,                       \* retry_may_repeat_effects
     predecessor : Session \cup {NoSession}]    \* predecessor_work_id

ExecutionRow ==
    [state : ExecutionState,
     worker : Worker \cup {NoWorker},           \* assigned_worker_id
     cancel : BOOLEAN]                          \* cancellation_requested

AttemptRow ==
    [state : AttemptState,
     worker : Worker \cup {NoWorker},
     lease : Lease,               \* ticks to lease_expires_at
     started : BOOLEAN,           \* started_at is set
     outcome : Outcome \cup {"none"},           \* its outcome in work_updates
     answered : BOOLEAN,          \* work_answers has an answer to its question
     \* What its worker knows, which is of no account once the attempt has ended:
     known : Lease,               \* ticks to the expiry it was last told
     from : Commit,               \* the pending commit its claim carried
     silent : BOOLEAN]            \* its heartbeats have stopped

NewSession ==
    [state |-> "unadmitted", owner |-> "none", cancel |-> FALSE, pending |-> 0,
     started |-> FALSE, mayRepeat |-> FALSE, predecessor |-> NoSession]

NoExecution == [state |-> "none", worker |-> NoWorker, cancel |-> FALSE]

NoAttempt ==
    [state |-> "none", worker |-> NoWorker, lease |-> 0, started |-> FALSE,
     outcome |-> "none", answered |-> FALSE, known |-> 0, from |-> 0, silent |-> FALSE]

Init ==
    /\ session = [s \in Session |-> NewSession]
    /\ execution = [s \in Session |-> NoExecution]
    /\ attempt = [s \in Session |-> [n \in AttemptNo |-> NoAttempt]]
    /\ stage = [s \in Session |-> [i \in StageNo |-> "pending"]]
    /\ runTerminal = [r \in Run |-> FALSE]
    /\ enabled = Repository
    /\ routes = {}

-----------------------------------------------------------------------------
(* Queries the handlers share. *)

SessionsOf(r) == {s \in Session : RunOf[s] = r}

InState(r, states) == {s \in SessionsOf(r) : session[s].state \in states}

\* Mistake: count the sessions that run, as the claim query does, and not those queued.
SlotFreeBesideQueued(r) == Cardinality(InState(r, Active)) < ConcurrencyLimit[r]

\* The run has room for one more materialized session.
SlotFree(r) == Cardinality(InState(r, Materialized)) < ConcurrencyLimit[r]

\* selectSessionRoute would return worker w for s.
Routable(s, w) == RepoOf[s] \in enabled /\ <<w, RepoOf[s]>> \in routes

\* Sessions about the same thing in the same repository.
Matching(s) == {t \in Session \ {s} : RepoOf[t] = RepoOf[s] /\ SourceOf[t] = SourceOf[s]}

Children(s) == {t \in Session : session[t].predecessor = s}

\* Mistake: overlook that the session was replaced.
ReplaceableTwice(s) == \A t \in Matching(s) : session[t].state \notin Nonterminal

\* validateWorkRetryGuards: never replaced, and no other live Work about the same thing.
Replaceable(s) ==
    /\ Children(s) = {}
    /\ \A t \in Matching(s) : session[t].state \notin Nonterminal

\* loadLease and verifyActiveLease: the caller's token owns an active, unexpired attempt.
LeaseHeld(s, n) == attempt[s][n].state \in Active /\ attempt[s][n].lease > 0

\* The sweeper's query.
Expired(s, n) == attempt[s][n].state \in Active /\ attempt[s][n].lease = 0

\* Attempts made so far by all sessions of a run: the fairness key of claiming.
RunAttempts(r) ==
    Cardinality({a \in SessionsOf(r) \X AttemptNo : attempt[a[1]][a[2]].state # "none"})

Fairest(S) == {s \in S : \A t \in S : RunAttempts(RunOf[s]) <= RunAttempts(RunOf[t])}

\* A query with LIMIT 1.  Admission times and random ids break its ties.
FirstOf(S) == IF S = {} THEN {NoSession} ELSE S

\* Mistake: clear the pending resume commit with the rest of the row.
SettledWithoutCommit(row, state) ==
    [row EXCEPT !.state = state, !.owner = "none", !.pending = 0]

\* The row of a session that an attempt or the operator has settled.
Settled(row, state) == [row EXCEPT !.state = state, !.owner = "none"]

\* An attempt row once terminal: every later request of its worker is refused.
Ended(row, state) ==
    [row EXCEPT !.state = state, !.lease = 0, !.known = 0, !.from = 0, !.silent = FALSE]

\* The execution row of an attempt that ends.
ExecutionEnded(row, state) == IF row.state \in Active THEN [row EXCEPT !.state = state] ELSE row

\* Mistake: keep the checkpoint of an earlier question that was never resumed from.
CheckpointIfUnset(row, n, outcome) ==
    [row EXCEPT !.pending = IF outcome = "needs-input" /\ @ = 0 THEN n ELSE @]

\* The checkpoint of an attempt that asked for input becomes the pending resume commit.
Checkpoint(row, n, outcome) ==
    [row EXCEPT !.pending = IF outcome = "needs-input" THEN n ELSE @]

\* The stages of a pipeline that stops: a running stage takes the result, the rest is cancelled.
StagesStopped(stages, result) ==
    [i \in StageNo |->
        CASE stages[i] = "running" -> result
          [] stages[i] = "pending" -> "cancelled"
          [] OTHER -> stages[i]]

\* Mistake: look at the sessions that changed only.
UpdateRunLifecycleOfChanged(S) ==
    runTerminal' = [r \in Run |->
        IF \E s \in S : RunOf[s] = r
        THEN \A t \in S : session'[t].state \notin Nonterminal
        ELSE runTerminal[r]]

\* updateRunLifecycle for the runs of S: terminal_at is set iff every session is terminal.
UpdateRunLifecycle(S) ==
    runTerminal' = [r \in Run |->
        IF \E s \in S : RunOf[s] = r
        THEN \A t \in SessionsOf(r) : session'[t].state \notin Nonterminal
        ELSE runTerminal[r]]

-----------------------------------------------------------------------------
(* Admission. *)

\* Insert the sessions S as rows, those of Q queued on a worker they can be routed to
\* and the rest blocked, each replacing the predecessor p names.
Admit(S, Q, p) ==
    /\ \E w \in [Q -> Worker] :
        /\ \A s \in Q : Routable(s, w[s])
        /\ execution' = [s \in Session |->
               IF s \in Q THEN [state |-> "queued", worker |-> w[s], cancel |-> FALSE]
               ELSE execution[s]]
    /\ session' = [s \in Session |->
           IF s \in S
           THEN [NewSession EXCEPT !.state = IF s \in Q THEN "queued" ELSE "blocked",
                                   !.predecessor = p[s]]
           ELSE session[s]]
    /\ UNCHANGED <<attempt, stage, runTerminal, enabled, routes>>

\* The terminal Work a rebuild of s would replace.
Leaves(s) == {t \in Matching(s) : session[t].state \in Terminal /\ Children(t) = {}}

\* selectBuildPredecessors and selectProcedurePredecessors: no live Work about the same
\* things, and every target is rebuilt or none is.
PredecessorsSelected(S) ==
    \A s \in S :
        /\ \A t \in Matching(s) : session[t].state \notin Nonterminal
        /\ \A t \in S : Leaves(s) = {} <=> Leaves(t) = {}

\* admitBuild, admitTask and AdmitProcedureRun: all sessions of a run, or none.  Sessions
\* are queued in target order while the limit lasts; the order is arbitrary here.  Work of
\* a task, or of a procedure that is not rebuilt, starts a lineage, a source of its own.
AdmitRun(r) ==
    LET S == SessionsOf(r)
        Ready == {s \in S : \E w \in Worker : Routable(s, w)}
    IN  /\ S # {}
        /\ \A s \in S :
            /\ session[s].state = "unadmitted"
            /\ RepoOf[s] \in enabled
        /\ PredecessorsSelected(S)
        /\ \E Q \in SUBSET Ready :
            /\ Cardinality(Q) <= ConcurrencyLimit[r]
            /\ Q = Ready \/ Cardinality(Q) = ConcurrencyLimit[r]
            /\ Admit(S, Q, [s \in S |-> IF Leaves(s) = {} THEN NoSession
                                        ELSE CHOOSE t \in Leaves(s) : TRUE])

\* ReplaceWork: a new run of the single session s, in place of the terminal session p.
ReplaceWork(p, s) ==
    /\ SessionsOf(RunOf[s]) = {s}
    /\ session[s].state = "unadmitted"
    /\ p \in Matching(s)
    /\ session[p].state \in Terminal
    /\ Replaceable(p)
    /\ RepoOf[s] \in enabled
    /\ Admit({s}, IF \E w \in Worker : Routable(s, w) THEN {s} ELSE {}, [t \in {s} |-> p])

-----------------------------------------------------------------------------
(* Claiming. *)

\* materializeBlockedSessionForWorker: the blocked sessions worker w could be given.
Materializable(w) ==
    {s \in Session : session[s].state = "blocked" /\ SlotFree(RunOf[s]) /\ Routable(s, w)}

\* Mistake: move the executions of a lost worker in any state.
ReroutableInAnyState(w) ==
    {s \in Session :
        /\ execution[s].state \in Materialized
        /\ execution[s].worker # w
        /\ ~Routable(s, execution[s].worker)
        /\ Routable(s, w)}

\* rerouteQueuedSessionForWorker: sessions queued on a worker that can no longer run them.
Reroutable(w) ==
    {s \in Session :
        /\ session[s].state = "queued"
        /\ execution[s].state = "queued"
        /\ execution[s].worker # w
        /\ ~Routable(s, execution[s].worker)
        /\ Routable(s, w)}

\* The executions queued on worker w, those just assigned to it in Assigned included,
\* that it may start.
Claimable(w, Assigned) ==
    {s \in Session :
        /\ s \in Assigned \/ (execution[s].state = "queued" /\ execution[s].worker = w)
        /\ Routable(s, w)
        /\ Cardinality(InState(RunOf[s], Active)) < ConcurrencyLimit[RunOf[s]]}

ActiveAttempts(w) ==
    {a \in Session \X AttemptNo :
        attempt[a[1]][a[2]].worker = w /\ attempt[a[1]][a[2]].state \in Active}

\* The attempt by which worker w claims s; its claim carries the pending resume commit.
ClaimedAttempt(s, w) ==
    [NoAttempt EXCEPT !.state = "preparing", !.worker = w, !.lease = LeaseTicks,
                      !.known = LeaseTicks, !.from = session[s].pending]

\* The claim takes the next attempt_number of its execution.
InsertAttempt(s, w) ==
    \E n \in AttemptNo :
        /\ attempt[s][n].state = "none"
        /\ \A i \in 1 .. (n - 1) : attempt[s][i].state # "none"
        /\ attempt' = [attempt EXCEPT ![s][n] = ClaimedAttempt(s, w)]

\* The rows of a claim that assigned w the blocked session m and the stranded session q,
\* and starts c; each may be NoSession.
ClaimRows(w, m, q, c) ==
    /\ execution' = [s \in Session |->
           IF s = c THEN [execution[s] EXCEPT !.state = "preparing", !.worker = w,
                                              !.cancel = FALSE]
           ELSE IF s = m THEN [state |-> "queued", worker |-> w, cancel |-> FALSE]
           ELSE IF s = q THEN [execution[s] EXCEPT !.worker = w]
           ELSE execution[s]]
    /\ session' = [s \in Session |->
           IF s = c /\ (s = m \/ session[s].state = "queued")
           THEN [session[s] EXCEPT !.state = "preparing", !.owner = "worker_attempt"]
           ELSE IF s = m THEN Settled(session[s], "queued")
           ELSE session[s]]
    /\ IF c = NoSession THEN UNCHANGED attempt ELSE InsertAttempt(c, w)

\* Claim of a fresh request: the worker may be assigned one blocked and one stranded session,
\* then starts the fairest session it has.  With nothing assigned and nothing to start, only
\* an empty claim is stored.
Claim(w) ==
    /\ Cardinality(ActiveAttempts(w)) < Capacity[w]
    /\ \E m \in FirstOf(Fairest(Materializable(w))), q \in FirstOf(Reroutable(w)) :
       \E c \in FirstOf(Fairest(Claimable(w, {m, q}))) :
        /\ {m, q, c} # {NoSession}
        /\ ClaimRows(w, m, q, c)
    /\ UNCHANGED <<stage, runTerminal, enabled, routes>>

-----------------------------------------------------------------------------
(* The requests of the worker that holds attempt n of session s. *)

\* The attempt may only run from the pending resume commit, if there is one.
FromPending(s, n) == session[s].pending # 0 => attempt[s][n].from = session[s].pending

\* StartAttempt before the runtime starts.
StartAttempt(s, n) ==
    /\ LeaseHeld(s, n)
    /\ attempt[s][n].state = "preparing"
    /\ FromPending(s, n)
    /\ attempt' = [attempt EXCEPT ![s][n].state = "running", ![s][n].started = TRUE]
    /\ IF execution[s].state = "preparing"
       THEN execution' = [execution EXCEPT ![s].state = "running"]
       ELSE UNCHANGED execution
    /\ IF session[s].state = "preparing"
       THEN session' = [session EXCEPT ![s].state = "running", ![s].started = TRUE,
                                       ![s].owner = "worker_attempt"]
       ELSE UNCHANGED session
    /\ UNCHANGED <<stage, runTerminal, enabled, routes>>

\* StartAttempt with RuntimeStarted: the pending resume commit is consumed.
RuntimeStarted(s, n) ==
    /\ LeaseHeld(s, n)
    /\ attempt[s][n].state = "running"
    /\ FromPending(s, n)
    /\ session[s].state = "running"
    /\ session' = [session EXCEPT ![s].pending = 0]
    /\ UNCHANGED <<execution, attempt, stage, runTerminal, enabled, routes>>

\* Mistake: a worker whose answers are lost keeps renewing.
RenewedUnanswered(row, cancel, answered) ==
    [row EXCEPT !.lease = LeaseTicks, !.silent = answered /\ cancel]

\* An attempt row after a heartbeat that was answered or not.
Renewed(row, cancel, answered) ==
    [row EXCEPT !.lease = LeaseTicks,
                !.known = IF answered THEN LeaseTicks ELSE @,
                !.silent = IF answered THEN cancel ELSE row.known = 0]

\* Heartbeat renews the lease and answers whether cancellation is requested.  The worker
\* stops renewing once it was, or when the answer is lost and the expiry it knows has passed.
Heartbeat(s, n) ==
    /\ LeaseHeld(s, n)
    /\ ~attempt[s][n].silent
    /\ \E answered \in BOOLEAN :
        attempt' = [attempt EXCEPT ![s][n] = Renewed(@, execution[s].cancel, answered)]
    /\ UNCHANGED <<session, execution, stage, runTerminal, enabled, routes>>

PipelineRunning(s, n) ==
    /\ LeaseHeld(s, n)
    /\ attempt[s][n].state = "running"
    /\ execution[s].state = "running"

PredecessorsSucceeded(s, i) == \A j \in 1 .. (i - 1) : stage[s][j] = "succeeded"

StartStage(s, n, i) ==
    /\ PipelineRunning(s, n)
    /\ ~execution[s].cancel
    /\ stage[s][i] \in OpenStage
    /\ PredecessorsSucceeded(s, i)
    /\ stage' = [stage EXCEPT ![s][i] = "running"]
    /\ UNCHANGED <<session, execution, attempt, runTerminal, enabled, routes>>

CompleteStage(s, n, i, result) ==
    /\ PipelineRunning(s, n)
    /\ stage[s][i] = "running"
    /\ stage' = [stage EXCEPT ![s] = [j \in StageNo |->
           IF j = i THEN result
           ELSE IF j > i /\ result # "succeeded" /\ stage[s][j] = "pending" THEN "cancelled"
           ELSE stage[s][j]]]
    /\ UNCHANGED <<session, execution, attempt, runTerminal, enabled, routes>>

\* AppendAgentUpdate with an outcome, the first of its attempt.
ReportOutcome(s, n, outcome) ==
    /\ PipelineRunning(s, n)
    /\ RunOf[s] \in AgentUpdateRuns
    /\ ~execution[s].cancel
    /\ session[s].state = "running" /\ session[s].owner = "worker_attempt"
    /\ attempt[s][n].outcome = "none"
    /\ attempt' = [attempt EXCEPT ![s][n].outcome = outcome]
    /\ UNCHANGED <<session, execution, stage, runTerminal, enabled, routes>>

\* The outcome CompleteAttempt loads.
OutcomeOf(s, n) == IF RunOf[s] \in AgentUpdateRuns THEN attempt[s][n].outcome ELSE "none"

\* An agent_update attempt that exits without reporting an outcome has failed.
MissingOutcome(s, n, result) ==
    /\ ~execution[s].cancel
    /\ RunOf[s] \in AgentUpdateRuns
    /\ result = "succeeded"
    /\ OutcomeOf(s, n) = "none"

\* Mistake: store the Work's state as the attempt's.
FinalResultOfWork(s, n, result) ==
    IF execution[s].cancel THEN "cancelled"
    ELSE IF result = "succeeded" /\ OutcomeOf(s, n) # "none" THEN OutcomeOf(s, n)
    ELSE result

\* The state the attempt ends in: a requested cancellation overrides the worker's result.
FinalResult(s, n, result) ==
    IF execution[s].cancel THEN "cancelled"
    ELSE IF MissingOutcome(s, n, result) THEN "failed"
    ELSE result

\* The state its Work ends in: that, or the outcome the agent reported.
WorkResult(s, n, result) ==
    IF FinalResult(s, n, result) = "succeeded" /\ RunOf[s] \in AgentUpdateRuns
    THEN OutcomeOf(s, n)
    ELSE FinalResult(s, n, result)

\* The stages when an attempt completes; the last one fails with a missing outcome.
StagesCompleted(s, n, result) ==
    IF FinalResult(s, n, result) = "succeeded" THEN [i \in StageNo |-> "succeeded"]
    ELSE StagesStopped(
             IF MissingOutcome(s, n, result) /\ stage[s][StageCount] = "succeeded"
             THEN [stage[s] EXCEPT ![StageCount] = "failed"] ELSE stage[s],
             FinalResult(s, n, result))

\* The session states a completion settles: a reported outcome needs running Work.
Settles(s, n, result) ==
    IF FinalResult(s, n, result) = "succeeded" /\ OutcomeOf(s, n) # "none"
    THEN {"running"} ELSE Active

\* CompleteAttempt of an active attempt.  It can only succeed once all its stages have; a
\* pipeline of one stage may leave that to the completion.
CompleteAttempt(s, n, result) ==
    /\ LeaseHeld(s, n)
    /\ FinalResult(s, n, result) = "succeeded" =>
        /\ attempt[s][n].state = "running"
        /\ \/ \A i \in StageNo : stage[s][i] = "succeeded"
           \/ StageCount = 1 /\ stage[s][1] \in OpenStage
    /\ stage' = [stage EXCEPT ![s] = StagesCompleted(s, n, result)]
    /\ attempt' = [attempt EXCEPT ![s][n] = Ended(@, FinalResult(s, n, result))]
    /\ execution' = [execution EXCEPT ![s] = ExecutionEnded(@, FinalResult(s, n, result))]
    /\ session' = [session EXCEPT ![s] =
           IF @.state \notin Settles(s, n, result) THEN @
           ELSE Checkpoint(Settled(@, WorkResult(s, n, result)), n, OutcomeOf(s, n))]
    /\ UpdateRunLifecycle({s})
    /\ UNCHANGED <<enabled, routes>>

-----------------------------------------------------------------------------
(* Time and the sweeper. *)

\* Lowered by a tick.
Less(ticks) == IF ticks = 0 THEN 0 ELSE ticks - 1

\* An attempt row after a tick.
Aged(row) == [row EXCEPT !.lease = Less(@), !.known = Less(@)]

\* A tick of the clock brings every active lease closer to its expiry.
Tick ==
    /\ \E s \in Session, n \in AttemptNo : LeaseHeld(s, n)
    /\ attempt' = [s \in Session |-> [n \in AttemptNo |->
           IF LeaseHeld(s, n) THEN Aged(attempt[s][n]) ELSE attempt[s][n]]]
    /\ UNCHANGED <<session, execution, stage, runTerminal, enabled, routes>>

\* SweepExpired: every expired attempt is lost and its Work failed, keeping its checkpoint.
SweepExpired ==
    LET Lapsed == {s \in Session : \E n \in AttemptNo : Expired(s, n)}
    IN  /\ Lapsed # {}
        /\ attempt' = [s \in Session |-> [n \in AttemptNo |->
               IF Expired(s, n) THEN Ended(attempt[s][n], "lost") ELSE attempt[s][n]]]
        /\ execution' = [s \in Session |->
               IF s \in Lapsed THEN ExecutionEnded(execution[s], "failed") ELSE execution[s]]
        /\ session' = [s \in Session |->
               IF s \in Lapsed /\ session[s].state \in Active
               THEN LET n == CHOOSE i \in AttemptNo : Expired(s, i)
                    IN  Checkpoint(Settled(session[s], "failed"), n, attempt[s][n].outcome)
               ELSE session[s]]
        /\ stage' = [s \in Session |->
               IF s \in Lapsed THEN StagesStopped(stage[s], "failed") ELSE stage[s]]
        /\ UpdateRunLifecycle(Lapsed)
        /\ UNCHANGED <<enabled, routes>>

-----------------------------------------------------------------------------
(* The requests of the operator. *)

\* The session row of cancelled Work: unowned Work ends, active Work gets a request.
CancelledSession(row) ==
    IF row.state \in Active THEN [row EXCEPT !.cancel = TRUE]
    ELSE IF row.state \in Nonterminal THEN Settled(row, "cancelled")
    ELSE row

\* Mistake: leave the queued execution for a claim to find.
CancelledIfActive(row) == IF row.state \in Active THEN [row EXCEPT !.cancel = TRUE] ELSE row

\* Mistake: leave the request out of the row the worker's heartbeat reads.
CancelledIfQueued(row) == IF row.state = "queued" THEN [row EXCEPT !.state = "cancelled"] ELSE row

\* Its execution row.
CancelledExecution(row) ==
    IF row.state = "queued" THEN [row EXCEPT !.state = "cancelled"]
    ELSE IF row.state \in Active THEN [row EXCEPT !.cancel = TRUE]
    ELSE row

\* Cancel the sessions S of one run.
Cancel(S) ==
    /\ session' = [s \in Session |->
           IF s \in S THEN CancelledSession(session[s]) ELSE session[s]]
    /\ execution' = [s \in Session |->
           IF s \in S THEN CancelledExecution(execution[s]) ELSE execution[s]]
    /\ stage' = [s \in Session |->
           IF s \in S /\ session'[s].state = "cancelled"
           THEN StagesStopped(stage[s], "cancelled") ELSE stage[s]]
    /\ UpdateRunLifecycle(S)
    /\ UNCHANGED <<attempt, enabled, routes>>

CancelSession(s) == session[s].state \in Nonterminal /\ Cancel({s})

CancelRun(r) ==
    /\ \E s \in SessionsOf(r) : session[s].state # "unadmitted"
    /\ Cancel(SessionsOf(r))

Retryable == {"failed", "cancelled"}

\* Mistake: forget what earlier retries knew.
RepeatSinceLastRetry(row) == row.started

\* Does a retry of the session repeat an attempt that may have had effects?
MayRepeat(row) == row.started \/ row.mayRepeat

RetrySession(s) ==
    /\ session[s].state \in Retryable /\ session[s].owner = "none"
    /\ Replaceable(s)
    /\ SlotFree(RunOf[s])
    /\ \E w \in Worker :
        /\ Routable(s, w)
        /\ execution' = [execution EXCEPT ![s] =
               [state |-> "queued", worker |-> w, cancel |-> FALSE]]
    /\ session' = [session EXCEPT ![s] =
           [Settled(@, "queued") EXCEPT !.cancel = FALSE, !.started = FALSE,
                                        !.mayRepeat = MayRepeat(session[s])]]
    /\ stage' = [stage EXCEPT ![s] = [i \in StageNo |-> "pending"]]
    /\ runTerminal' = [runTerminal EXCEPT ![RunOf[s]] = FALSE]
    /\ UNCHANGED <<attempt, enabled, routes>>

\* The attempts that left a question, of which the latest is the current one.
Questions(s) == {n \in AttemptNo : attempt[s][n].outcome = "needs-input"}

LatestQuestion(s, n) == n \in Questions(s) /\ \A i \in Questions(s) : i <= n

\* AnswerWork: the latest question gets its one answer, and the last stage runs again, now
\* if a slot and a worker are free.
AnswerWork(s, n) ==
    /\ session[s].state = "needs-input" /\ session[s].owner = "none"
    /\ session[s].pending # 0
    /\ LatestQuestion(s, n)
    /\ ~attempt[s][n].answered
    /\ attempt' = [attempt EXCEPT ![s][n].answered = TRUE]
    /\ IF SlotFree(RunOf[s]) /\ \E w \in Worker : Routable(s, w)
       THEN /\ \E w \in Worker :
                /\ Routable(s, w)
                /\ execution' = [execution EXCEPT ![s] =
                       [state |-> "queued", worker |-> w, cancel |-> FALSE]]
            /\ session' = [session EXCEPT ![s] = [Settled(@, "queued") EXCEPT !.cancel = FALSE]]
       ELSE /\ session' = [session EXCEPT ![s] = [Settled(@, "blocked") EXCEPT !.cancel = FALSE]]
            /\ UNCHANGED execution
    /\ stage' = [stage EXCEPT ![s][StageCount] = "pending"]
    /\ runTerminal' = [runTerminal EXCEPT ![RunOf[s]] = FALSE]
    /\ UNCHANGED <<enabled, routes>>

-----------------------------------------------------------------------------
(* Repositories and workers. *)

EnableRepository(p) ==
    /\ p \notin enabled
    /\ enabled' = enabled \cup {p}
    /\ UNCHANGED <<session, execution, attempt, stage, runTerminal, routes>>

\* SetManagedRepositoryEnabled(false): queued Work loses its execution and is blocked.
\* An attempt row references its execution, so the delete of an execution that ever had one
\* is refused by the database, and the whole request with it.
DisableRepository(p) ==
    LET queued == {s \in Session : RepoOf[s] = p /\ session[s].state = "queued"}
        deleted == {s \in queued : execution[s].state = "queued"}
    IN  /\ p \in enabled
        /\ \A s \in deleted, n \in AttemptNo : attempt[s][n].state = "none"
        /\ enabled' = enabled \ {p}
        /\ execution' = [s \in Session |-> IF s \in deleted THEN NoExecution ELSE execution[s]]
        /\ session' = [s \in Session |->
               IF s \in queued THEN Settled(session[s], "blocked") ELSE session[s]]
        /\ UNCHANGED <<attempt, stage, runTerminal, routes>>

\* A worker registers, changes health, goes offline, or fills its retained worktrees.
ChangeRoutes(w) ==
    /\ \E R \in SUBSET Repository :
        routes' = {x \in routes : x[1] # w} \cup {w} \X R
    /\ UNCHANGED <<session, execution, attempt, stage, runTerminal, enabled>>

-----------------------------------------------------------------------------

WorkerRequest(s, n) ==
    \/ StartAttempt(s, n)
    \/ RuntimeStarted(s, n)
    \/ Heartbeat(s, n)
    \/ \E i \in StageNo : StartStage(s, n, i)
    \/ \E i \in StageNo, result \in Result : CompleteStage(s, n, i, result)
    \/ \E outcome \in Outcome : ReportOutcome(s, n, outcome)
    \/ \E result \in Result : CompleteAttempt(s, n, result)

OperatorRequest ==
    \/ \E r \in Run : AdmitRun(r) \/ CancelRun(r)
    \/ \E p, s \in Session : ReplaceWork(p, s)
    \/ \E s \in Session : CancelSession(s) \/ RetrySession(s)
    \/ \E s \in Session, n \in AttemptNo : AnswerWork(s, n)
    \/ \E p \in Repository : EnableRepository(p) \/ DisableRepository(p)

Next ==
    \/ OperatorRequest
    \/ \E w \in Worker : Claim(w) \/ ChangeRoutes(w)
    \/ \E s \in Session, n \in AttemptNo : WorkerRequest(s, n)
    \/ Tick
    \/ SweepExpired

Spec == Init /\ [][Next]_vars

\* The sweeper runs every five seconds and at startup, and time passes.
FairSpec == Spec /\ WF_vars(Tick) /\ WF_vars(SweepExpired)

-----------------------------------------------------------------------------
(* Properties. *)

\* The tables hold rows of their schema.
TypeOK ==
    /\ session \in [Session -> SessionRow]
    /\ execution \in [Session -> ExecutionRow]
    /\ attempt \in [Session -> [AttemptNo -> AttemptRow]]
    /\ stage \in [Session -> [StageNo -> StageState]]
    /\ runTerminal \in [Run -> BOOLEAN]
    /\ enabled \in SUBSET Repository
    /\ routes \in SUBSET (Worker \X Repository)

\* The unique index one_active_attempt_per_execution never has to reject a claim: no
\* interleaving of claims, sweeps, retries and answers makes a second active attempt.
OneActiveAttempt ==
    \A s \in Session, i, n \in AttemptNo :
        attempt[s][i].state \in Active /\ attempt[s][n].state \in Active => i = n

\* The three rows that say who runs a session agree: an active attempt is its session's
\* owner, on the worker its execution is assigned to, and all three are in one state.
AttemptOwnsWork ==
    \A s \in Session, n \in AttemptNo :
        attempt[s][n].state \in Active =>
            /\ session[s].state = attempt[s][n].state
            /\ session[s].owner = "worker_attempt"
            /\ execution[s].state = attempt[s][n].state
            /\ execution[s].worker = attempt[s][n].worker

\* No Work is stranded: active Work has an active attempt, which the sweeper will end if its
\* worker does not, and Work is queued exactly when a claim can find its execution.
NoStrandedWork ==
    \A s \in Session :
        /\ session[s].state \in Active => \E n \in AttemptNo : attempt[s][n].state \in Active
        /\ session[s].state = "queued" <=> execution[s].state = "queued"
        /\ session[s].owner = "worker_attempt" => session[s].state \in Active

\* A cancellation is recorded on the session and on its execution or on neither, and waiting
\* Work never inherits one, so a retried or answered session is not stopped by an old request.
CancellationAgrees ==
    \A s \in Session :
        /\ session[s].state \in Active => session[s].cancel = execution[s].cancel
        /\ session[s].state \in Nonterminal \ Active => ~session[s].cancel

\* The frozen concurrency limit holds over admission, claims, retries and answers alike.
RunConcurrency ==
    \A r \in Run : Cardinality(InState(r, Materialized)) <= ConcurrencyLimit[r]

\* INV-7: a run has terminal_at exactly while all its sessions are terminal, though retries
\* and answers reopen it and cancellations and sweeps close it several sessions at a time.
RunTerminalAgrees ==
    \A r \in Run :
        runTerminal[r] <=> /\ SessionsOf(r) # {}
                           /\ \A s \in SessionsOf(r) : session[s].state \in Terminal

\* A stage is only reached over succeeded predecessors, whichever attempts ran them, and one
\* stage runs at a time.
StagesInOrder ==
    \A s \in Session, i, j \in StageNo :
        j < i /\ stage[s][i] \in {"running", "succeeded"} => stage[s][j] = "succeeded"

\* The pipeline a session shows fits its state: delivered or asking Work has run all its
\* stages, settled Work has none open, and waiting Work has its last stage to run.
StagesFitWork ==
    \A s \in Session :
        /\ session[s].state \in {"ready", "succeeded", "no-change", "needs-input"} =>
               \A i \in StageNo : stage[s][i] = "succeeded"
        /\ session[s].state \in Terminal => \A i \in StageNo : stage[s][i] \notin OpenStage
        /\ session[s].state \in {"blocked", "queued", "preparing"} =>
               stage[s][StageCount] = "pending" /\ \A i \in StageNo : stage[s][i] # "running"

\* No two live sessions work on the same source in the same repository, through any mix of
\* builds, rebuilds, replacements and retries.
OneLiveWork ==
    \A s \in Session : \A t \in Matching(s) :
        ~(session[s].state \in Nonterminal /\ session[t].state \in Nonterminal)

\* Replacements form a line: no session is replaced twice, and each replaces terminal Work.
OneReplacement ==
    \A s \in Session :
        /\ Cardinality(Children(s)) <= 1
        /\ Children(s) # {} => session[s].state \in Terminal

\* The authoritative resume commit of active Work is the one its claim told the worker, so
\* StartAttempt never refuses a worker that started from what it was given.
ResumesFromPending ==
    \A s \in Session, n \in AttemptNo :
        attempt[s][n].state \in Active => FromPending(s, n)

\* Work that asks for input can be answered: it has the checkpoint of its latest question,
\* and that question has no answer yet.
QuestionAnswerable ==
    \A s \in Session :
        session[s].state = "needs-input" =>
            \E n \in AttemptNo :
                LatestQuestion(s, n) /\ session[s].pending = n /\ ~attempt[s][n].answered

\* What a session hands to its next attempt is sound: the stages that are done, the commit to
\* go on from and the question to answer, through any mix of failures, retries and answers.
Resumable == StagesInOrder /\ StagesFitWork /\ ResumesFromPending /\ QuestionAnswerable

\* Once any attempt of a session has started, its effects may repeat, and the session says so
\* for ever, over any number of retries, some of which may never start.
RepeatWarned ==
    \A s \in Session :
        (\E n \in AttemptNo : attempt[s][n].started) => session[s].started \/ session[s].mayRepeat

\* A disabled repository has no queued Work, so none is claimed from it.
DisabledNotQueued ==
    \A s \in Session : session[s].state = "queued" => RepoOf[s] \in enabled

\* What an attempt did is final: no late heartbeat, completion or sweep changes its state,
\* worker or outcome.
AttemptsFinal ==
    [][\A s \in Session, n \in AttemptNo :
           attempt[s][n].state \in AttemptTerminal =>
               /\ attempt'[s][n].state = attempt[s][n].state
               /\ attempt'[s][n].worker = attempt[s][n].worker
               /\ attempt'[s][n].outcome = attempt[s][n].outcome]_vars

\* Delivered Work is final, and failed or cancelled Work only ever reopens into the queue,
\* with its attempt still to be made.
TerminalWorkFinal ==
    [][\A s \in Session :
           session[s].state \in Terminal /\ session'[s].state # session[s].state =>
               /\ session[s].state \in {"failed", "cancelled"}
               /\ session'[s].state = "queued"
               /\ attempt'[s] = attempt[s]]_vars

\* Active Work with a requested cancellation ends cancelled, or failed if its lease lapses
\* first; no report of its worker makes it delivered or asking.
CancellationPrevails ==
    [][\A s \in Session :
           session[s].state \in Active /\ session[s].cancel /\ session'[s].state \notin Active =>
               session'[s].state \in {"failed", "cancelled"}]_vars

\* Invariant 15 of ARCHITECTURE.md: the pending resume commit is only ever consumed by a
\* running attempt that started from it, or superseded by the checkpoint of a later attempt.
PendingCommitKept ==
    [][\A s \in Session :
           LET old == session[s].pending
               new == session'[s].pending
           IN  old # 0 /\ new # old =>
                   \/ new > old
                   \/ /\ new = 0
                      /\ \E n \in AttemptNo :
                             /\ attempt[s][n].state = "running"
                             /\ attempt[s][n].from = old]_vars

\* What was decided stays decided: the end of an attempt, delivered Work, a cancellation and
\* a checkpoint that waits for its answer.
DecidedStays ==
    AttemptsFinal /\ TerminalWorkFinal /\ CancellationPrevails /\ PendingCommitKept

\* Cancelled active Work ends, whatever its worker does and however many answers are lost: the
\* worker stops renewing once told or cut off, and an attempt nobody renews expires and is swept.
CancelledWorkEnds ==
    \A s \in Session :
        session[s].state \in Active /\ session[s].cancel ~> session[s].state \in Terminal

\* docs/tasks/design.md: "If a Repository becomes unavailable after admission, its Session
\* becomes Blocked with a reason".  The operator can disable any enabled repository.
DisableAccepted == \A p \in enabled : ENABLED DisableRepository(p)
=============================================================================
