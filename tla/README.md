# Verification of Agent Factory

TLA+ models of the control logic of Agent Factory, TLC configurations that
check them on small instances, and TLAPS proofs of what matters most for every
instance. Everything here is derived from `src/`; `PROJECT.json` maps each
definition to the lines it models.

1. [The system](#1-the-system)
2. [What is modelled](#2-what-is-modelled)
3. [Runs, bounds and fairness](#3-runs-bounds-and-fairness)
4. [Where code and documents disagree](#4-where-code-and-documents-disagree)
5. [What is proved](#5-what-is-proved)
6. [Not modelled, and what is left](#6-not-modelled-and-what-is-left)

## 1. The system

Agent Factory turns tasks, procedures, GitHub issues and pull requests into
*Work* for coding agents. It has these processes:

| Process | Code | State |
|---|---|---|
| control plane | `src/internal/controlplane`, schema in `src/migrations` | one SQLite database; every handler is one immediate transaction; background loops for the sweeper, the task scheduler and GitHub polling |
| worker | `src/internal/worker` | a manager with its claims, attempts, locks and cache reservations in memory; manifests, worktrees and a disposal registry on disk; one supervisor process per attempt |
| operator command | `src/internal/factorycli` | a durable journal of admissions that may or may not have reached the server |
| browser console | `src/web` | none of its own |

Workers poll: they register, heartbeat and claim over HTTP, and the control
plane never calls them. All coordination is by rows in the database and by the
lease of an attempt.

### Components

**Work lifecycle** (`state.go`, `task_claim.go`, `tasks.go`, `work.go`,
`resume.go`, `stage_runs.go`). Tables `runs`, `sessions`, `executions`,
`attempts`, `session_stages`, `work_updates`, `work_answers`. Operations: admit,
claim, start, heartbeat, stage start and end, report an outcome, complete,
sweep, cancel, retry, answer, replace. Hard because a session, its execution
and its attempts are separate rows with states of their own, rewritten by the
worker, the operator and the sweeper in any order, and because the caller of a
worker request may have lost its lease. Correct when the rows agree, no Work is
stranded or runs twice, cancellations end it, what ended stays ended, and the
checkpoint of a question is never lost.

**Run admission** (`tasks.go`, `procedures.go`, `build.go`, `work.go`). Freezes a
snapshot and inserts all sessions of a run or none, with duplicate and
predecessor checks and the concurrency limit. Correct when one source never has
two live sessions and replacements form a line.

**Managed repositories and routing** (`store.go`, `task_claim.go`, `resume.go`).
`managed_repositories`, `worker_repositories`, `workers`. A session can be placed
on a worker that is healthy, recent, advertises or can clone the repository, and
has cache and retained-worktree room. Hard because the check of a route and the
query of a claim are two pieces of SQL, over rows that each registration
rewrites. Correct when Work that stays queued is found by its worker's claim,
and no cache is promised twice.

**Sweeper** (`server.go`, `state.go`). Every five seconds and at startup: expired
leases become `lost` attempts.

**Claim protocol** (`state.go` `Claim`; worker `claiming.go`, `registration.go`).
Requests carry an identifier; a repeated request returns the claim it made.
Empty claims are remembered for a while. The worker gives up its claims when a
health check begins or its registration is lost. Correct when a request makes
one attempt, a worker never owns more than its capacity, what is acknowledged as
disposed of is over, and no claim waits for ever.

**Capacity handoff** (worker `attempt_lifecycle.go`, `registration.go`,
`reconcile.go`; control plane `store.go`). A terminal attempt occupies a retained
worktree slot until a registration that counts it is acknowledged. Correct when
slots are neither given twice nor lost.

**Agent updates and events** (`work.go`, `state.go`; worker `agent_update.go`,
`events.go`; `factorycli/update.go`). Replayed requests, one outcome per attempt,
a progress limit, a second validation after the process stopped; numbered events.
Correct when agent, worker and control plane agree on the outcome, and the history
of an attempt is what its runtime wrote.

**Task scheduler** (`task_scheduler.go`, `tasks.go`). The schedule columns of the
table `tasks`. Claim of a due occurrence, freezing of its workflow, admission and
finish are four transactions; edits, pauses, discards and stops may come
between. Correct when an instant starts one Run, no occurrence is forgotten and
no schedule falls silent.

**GitHub intake** (`github_intake.go`, `repository_workflows.go`, `replace.go`).
Issue visits and pull-request wakes are edge triggers over polls that can fail
between their transactions. Correct when one visit runs once and a wake is not
lost.

**Worker attempt and supervisor** (`attempt_lifecycle.go`, `supervisor.go`). Two
processes and two pipes per stage; stop reasons race, either process may die.
Correct when a process reported as stopped is dead and a runtime that is to stop
is stopped.

**Worker recovery and cleanup** (`reconcile.go`, `cleanup.go`, `manifest.go`).
A crash may fall between any two steps. Correct when no work is destroyed, no
worktree is forgotten, and every slot comes back or the worker says it cannot.

**Repository cache and coordination** (`repository_coordination.go`,
`repository_cache.go`). Keyed locks with reference counts and poisoning, cache
reservations up to a limit.

**Admission journal** (`admission_journal.go` of the operator command). A request
key is durable before the request and removed after its answer is flushed.

**Backup and restore** (`recovery.go`). A snapshot is published under two names,
by links, with the leftovers of an interrupted command cleared by the next.

**Worker enrollment** (`worker_auth.go`; worker `client.go`). A one-time token is
exchanged for a credential the worker made; the credential must survive lost
answers, kills and power failures.

**Configuration, command line and protocol types**, **web console**, **release
builder**: section 6.

`PROJECT.json` lists each hazard of this code at its line, with the property
that covers it.

## 2. What is modelled

| Module | Component | Kind |
|---|---|---|
| `WorkLifecycle` | work lifecycle, run admission, sweeper | one action per transaction |
| `WorkContract`, `WorkRefinement` | what the control plane promises about Work; the refinement mapping | abstract specification |
| `Routing` | repositories, registration's effect on routes, rerouting | one action per transaction |
| `TaskScheduler` | task scheduler | transactions and the scheduler's local variables |
| `TaskPolling` | the loop around them | extends it: calls, batches, a clock without end |
| `GitHubIntake` | GitHub intake | one action per call or transaction of a poll |
| `ClaimProtocol` | claims, health, registration | goroutines and messages |
| `WorkerEnrollment` | enrollment | calls, files and a loss of power |
| `AttemptSupervisor`, `AttemptEvents` | attempt and supervisor; events | processes, pipes, messages |
| `AgentUpdates` | agent updates and the end of an attempt | commands, messages, transactions |
| `WorkerRecovery` | recovery, cleanup, capacity handoff | steps on disk, crashes |
| `RepositoryCoordination` | locks and cache | goroutines |
| `AdmissionJournal` | operator command | processes, files, messages |
| `RecoveryPublication` | backup and restore | calls, directories and a loss of power |

`MCWorkLifecycle`, `MCTaskScheduler`, `MCTaskPolling` and `MCRouting` give constants
their values. `MCWorker` (claims, enrollment, supervisor, events) and `MCCommands`
(agent updates, admission journal, backup and restore) put components that share
no variable into one run: `part`, chosen at the start, says which of them moves, so
the states of the run are those of the parts together and every property keeps
its meaning. The fairness of a part is stated for its turn only.

The components meet in places where one module takes what another shows:

- `WorkLifecycle` lets any worker send any request for any attempt, so what the
  other worker-side modules do is among its behaviours. They in turn keep of the
  control plane the guards that decide their answers.
- `WorkLifecycle` has one relation `routes` for the route check and for the claim
  query. `Routing` models both and the rows they read; `RoutesAgree` is what
  justifies the single relation, and where it fails (section 4) the relation is
  too generous.
- `AgentUpdates` and `AttemptSupervisor` share the stop reasons; the second has
  the processes, the first the outcome and the completion. `WorkerRecovery`
  starts where they end: with what the attempt leaves on disk.
- `ClaimProtocol` ends with an attempt that starts; `WorkerRecovery` begins with
  it, and has the acknowledgement of its slot.

### WorkLifecycle

The work lifecycle and run admission, with repositories, routing and the sweeper
as far as they touch it. One action per handler, because each handler is one
immediate transaction on one SQLite connection.

| Variable | Code |
|---|---|
| `session`, `execution`, `attempt`, `stage` | the tables of those names, the columns the handlers decide on |
| `runTerminal` | `runs.terminal_at` is set |
| `enabled` | `managed_repositories.enabled` |
| `routes` | the pairs of worker and repository `selectRunRoute` accepts |

| Action | Handler |
|---|---|
| `AdmitRun` | `admitBuild`, `admitTask`, `AdmitProcedureRun` |
| `ReplaceWork` | `ReplaceWork` |
| `Claim` | `Claim`: materialise a blocked session, reroute a stranded one, start the fairest |
| `StartAttempt`, `RuntimeStarted` | `StartAttempt` without and with `RuntimeStarted` |
| `Heartbeat` | `HeartbeatAttempt` and the worker's heartbeat loop |
| `StartStage`, `CompleteStage` | `StartStage`, `CompleteStage` |
| `ReportOutcome` | `AppendAgentUpdate` with an outcome |
| `CompleteAttempt` | `CompleteAttempt` |
| `SweepExpired`, `Tick` | `SweepExpired`, the clock |
| `CancelSession`, `CancelRun`, `RetrySession`, `AnswerWork` | the operator's handlers |
| `EnableRepository`, `DisableRepository` | `SetManagedRepositoryEnabled` |
| `ChangeRoutes` | registration, health, going offline |

The callers are arbitrary. A worker may send any request for any attempt at any
time, so slow, crashed, restarted and repeating workers and late answers are
all there; the guards of the handlers are what keeps the tables right. The one
thing a worker is held to is its heartbeat loop (`attempt_lifecycle.go`
489-533), for the liveness property: it stops renewing once an answer says the
attempt is cancelled, or once the last expiry it was told of has passed. Any
heartbeat's answer may be lost.

Abstractions:

- **Names.** The checkpoint, question and outcome of attempt *n* are named *n*; 0
  is the empty commit.
- **Tokens.** A request with a wrong lease token is refused and changes nothing,
  so only requests of the token's owner are steps.
- **Time.** An attempt holds the ticks to its expiry, not two timestamps. The
  clocks of worker and server are taken to run at the same rate.
- **Routing.** `routes` changes arbitrarily, a worker at a time.
- **Order.** Queries with `LIMIT 1` order by attempts of the run, then by times and
  random identifiers. The first key is modelled, the others are a free choice.
- **Sources.** `SourceOf` says what a session is about: a work item, or the lineage
  of replacements it belongs to. A task run, or a procedure run that is not a
  rebuild, starts a lineage. The code's guard on a procedure rebuild looks at
  all lineages of the procedure, so the model allows more than the code.
- **Left out.** Progress updates, evidence and request replay (in `AgentUpdates`);
  events (in `AttemptEvents`); the columns `sessions.assigned_worker_id` and the
  reasons shown to users; retained worktrees; repositories that are not managed;
  ownership by an operator, which no code sets. The persistent runtime is the
  only backend (`execution_profiles.go` always reports it ready).

| Property | Why it can go wrong |
|---|---|
| `TypeOK` | the agent's outcome and the worker's result are one variable in the code; the wrong one violates the schema of a table |
| `AttemptOwnsWork` | three rows say who runs a session |
| `NoStrandedWork` | an execution without its session, or the reverse, is found by no query |
| `CancellationAgrees` | the request is stored twice; a leftover stops the next attempt |
| `RunConcurrency` | four handlers count against the limit |
| `RunTerminalAgrees` | `terminal_at` is a cached aggregate |
| `Resumable` | what a session hands to its next attempt survives failures, retries and answers: `StagesInOrder`, `StagesFitWork` (the stages that are done), `ResumesFromPending` (the commit), `QuestionAnswerable` (the question) |
| `RepeatWarned` | a retry clears the column the warning is computed from |
| `DecidedStays` | late requests after a sweep, a completion or a cancellation: `AttemptsFinal`, `TerminalWorkFinal`, `CancellationPrevails`, `PendingCommitKept` |
| `CancelledWorkEnds` | a cancelled worker may keep its lease alive without ever hearing of the cancellation |
| `KeepsContract` | see below |

`OneActiveAttempt` is proved on the way to `AttemptOwnsWork`. `OneLiveWork` and
`OneReplacement` are proved from `KeepsContract`, whose `Admit` and `Retry` ask for
rivals at rest and for Work that nothing replaced; `DisabledNotQueued` is a
companion of `NoStrandedWork`. No run lists these three.

### WorkContract and WorkRefinement

`WorkContract` is what the operator and the workers are promised of Work, whatever
tables, leases, stages and routes it takes: a ledger with one line for each
Work, its state (waiting, held, asking, delivered, stopped), the number of its
attempts, the attempt that holds it, whether it is to stop, and the Work it
replaces. It has seven actions. `WorkRefinement` reads the ledger off the tables:

| Ledger | Tables |
|---|---|
| `status` | `sessions.state`: blocked and queued wait, the active states are held |
| `attempts` | the number of attempts |
| `holder` | the active attempt, 0 if none |
| `stopping` | the session is active and its cancellation is requested |
| `replaces` | `sessions.predecessor_session_id` |

`KeepsContract == Contract!Spec` says that every step of `WorkLifecycle` is a step
of the ledger or leaves it alone. In particular an attempt number is never given
twice, a cancellation that was promised excludes a delivery, and no late request
changes a line. The ledger has no fairness of its own: TLC cannot evaluate
`ENABLED` of the abstract actions under the substitution, so the one liveness
property is stated of `WorkLifecycle` itself.

### Routing

| Variable | Code |
|---|---|
| `repository` | `managed_repositories`: enabled, centrally managed |
| `worker` | `workers`: healthy and heard of, accepts managed repositories, cached identifiers |
| `row` | `worker_repositories`: static or dynamic, advertised |
| `session` | `sessions` and their `executions` |
| `checkouts` | `[repositories.<key>]` of each worker's configuration |
| `clones`, `cloning` | the worker's cache, and clones of attempts that lost their lease |

`Accepts` is `selectRunRoute`, `Found` the claim query; `Registered` is what a
registration does to the rows, `Claim` the scan for a blocked or stranded session,
its rerouting and the claim, in one transaction. `Restarted` puts a worker back
with the same or other checkouts and clones. Two constants admit the two ways in
which a worker changes under the control plane's feet: `DropsCheckouts` (restarted
with fewer checkouts) and `LateClones` (an attempt that lost its lease finishes
its clone). Runtimes, source access, display keys, loads and the sum of retained
worktrees are left out: both pieces of SQL ask for them in the same words.

`RoutesAgree` has the types and two parts. `AcceptedIsFound`: a session that the
route check leaves on its worker is found by that worker's claim; otherwise it
would stay there for ever, for a claim only moves sessions of other workers.
`ClonesFit`: what is queued or active on a worker has a place in its cache.

### TaskScheduler

The schedule of a Task. Its scheduler is one loop (`RunTaskScheduler`) that takes
one occurrence at a time through four transactions and keeps what it read in
local variables; `scheduler` says at which step it is and what it remembers. A
stop before any step forgets that and leaves the tables.

| Variable | Code |
|---|---|
| `task` | the table `tasks`: generation, schedule, `next_due_at`, `pending_due_at` and its snapshot, retry time and count, discard token, health |
| `runs` | the runs admitted by the scheduler; their request key is task, generation and instant |
| `available` | the repositories `validateFrozenRepositories` accepts |
| `catalog` | the version of the workflow catalog, 0 while it is not healthy |
| `scheduler` | `AdmitDueTasks` and its local variables |
| `edit` | a save between `normalizeTask` and its transaction |
| `now` | the clock, in ticks |

| Action | Handler |
|---|---|
| `NormalizeTask`, then `CreateTask`, `UpdateTask` or `EditRefused` | saving a Task: the next instant is computed before `BeginTx` |
| `SetTaskArchived`, `SetTaskOutcomeContract`, `DiscardTaskOccurrence` | the operator's handlers |
| `DisableRepository`, `EnableRepository` | `SetManagedRepositoryEnabled`, as far as it writes Tasks |
| `RefreshCatalog`, `Tick` | a worker's catalog, the clock |
| `ClaimPending`, `ClaimInstant` | `claimDueTask` on a retry and on a due instant |
| `KeepSnapshot`, `FreezePendingTaskWorkflows`, `FreezeRefused` | `freezePendingTaskWorkflows` |
| `AdmitReplay`, `AdmitTask`, `AdmitRefused` | `admitTask` with the frozen snapshot |
| `FinishTaskOccurrence` | `finishTaskOccurrence` |
| `SchedulerStops` | a stop of the server, or an error that ends `AdmitDueTasks` |

Abstractions: `NextInstant` is any function that returns a later instant, which is
what `cronSchedule.Next` promises; the grammar and time zones are left out.
Repositories are all centrally managed and share one catalog version; a snapshot
records that version. Prompts, profiles and legacy snapshots are left out. Manual
runs of a Task touch none of these columns. Failures of the store, of a validation
or of the workflow are free choices of the refusing actions, within what
`permanentTaskAdmissionError` makes of them. The backoff grows by a tick with each
retry up to `MaxDelay`, as it grows by a minute up to fifteen in the code.
`EditMayWait` says whether the clock may move while a save waits for its
transaction. In the code it may, for as long as another writer holds the
database; one property depends on it.

| Property | Why it can go wrong |
|---|---|
| `OccurrenceRunsOnce` | an admission is repeated after a stop; an edit makes another generation, and thus another request key, of the same instant |
| `ScheduleAlive` | seven statements write the columns that decide whether a Task is looked at again or can be discarded |
| `PendingKept` | refusals, edits and pauses must not lose an occurrence |
| `FrozenSnapshotKept` | the catalog moves on between two attempts |

`OneRunPerGeneration`, `PendingHasCron` and `AdmittedWhilePending` are proved.

`admitTask` reads the Run back after its commit (`tasks.go:732`, 1008). `AdmitTask` and
`AdmitReplay` may fail there: the Run exists, and the occurrence is retried as if the
admission had failed.

`TaskPolling` extends `TaskScheduler` by what is around its transactions: the ticker,
the call of `AdmitDueTasks` with the number of occurrences it handles at most
(`Batch`), and the end of a call by a failure. Its clock does not stop: at `Horizon`,
the clock and every instant of the state move back by `Shift` together, a multiple
of every cron period, so distances stay what they were. `Failing` are the Tasks
whose admissions may fail at every attempt.

| Property | Why it can go wrong |
|---|---|
| `DueClaimed` | retries go before new instants, and one that fails for ever comes back for ever; what lets the others in is that its delay grows |
| `PendingSettles` | an occurrence that does not fail for ever is settled beside one that does, though the server stops again and again |

### GitHubIntake

A poll is one loop through its listing, each issue, the clearing of visits, each pull
request and the clearing of wakes; `poll` holds the step it is at and what it has read.
Each call of GitHub and each transaction is a step: `ListIssues`, `RefreshCatalog`,
`BlockRoute`, `SkipIssue` or `FailIssue`, `TouchVisit` or `StartVisit`, `AdmitIssue`
(with `admitBuild` and its choice of a predecessor), `ReleaseVisit`, `ClearVisits`,
`ListPulls`, `SkipPull`, `NeedWake`, `WakeWork` (`ReplaceWork`), `RecordWake`,
`ClearWakes`. An issue is routed by the labels of the list (`routed`), its project
status is read when its turn comes. `Fault` lets a call or a write fail as `Faults`
permits, `Miss` is one that leaves an active visit behind (`FailIssue`: a malformed
reference, a status, a visit that cannot be read or touched; a Run that cannot be read
back after its commit), and `Restart` is a stop between any two. `Others` are labels,
project status, routing and pull requests that change (`Moves`), workers that finish
Work, and operators that build or replace. `visits`, `wakes` and `diag` are the tables;
`works` the sessions of an issue in order; `period` numbers the periods in which an
issue matches without a break, so that the promise of GOAL.md ("one continuous visit ...
runs once") can be stated of what happened on GitHub, not of the row.

`OneWorkPerVisit`: a period runs once, although a failed admission deletes the
visit and the next poll makes another, and once more only for each failure that left
the visit behind (`missed`): GOAL.md promises one Work per period without that exception
(`OneWorkPerPeriod`, section 4). `OneChain`: visits, wakes, builds and
replacements never branch an issue's Work. `WakeRuns`: a labelled pull request
whose Work has ended gets new Work or its wake is recorded. After each such Work
has ended it is woken again for as long as the label is there, which the model
allows as the code does. The parsing of answers, the issue comment and the limit
of 100 issues are left out.

### ClaimProtocol and WorkerEnrollment

`ClaimProtocol` has the goroutine that claims (`claimer`: `Reserve`, `BeginClaim`,
`Repeat`, `Cancelled`, `Answered`, then `NothingToDo` or `EndClaim` and after it
`StartAttempt` or `Forgo`), the health check (`BeginCheck`, `Checks`), the registration
under way (`RegisterSend`, `RegisterDone`, `RegisterFails`, `RegisterRefused`,
`Heartbeat`), the transaction of `Claim` in its four outcomes (`Replay`,
`ClaimNothing`, `ClaimAttempt`, refused), `ForgetEmpty`, and messages that are lost or
repeated. A crash forgets what is in memory. `EndClaim` decides under the lock
(`claiming.go:115-133`), and `StartAttempt` comes after it (94), so an attempt may
start though health was lost in between. Health is lost by a check, and for good
(`fatal`) by what `markUnhealthy` is called for: `MarkUnhealthy` within an attempt,
`RegisterRefused`, and `Forgo` when the disposal cannot be journalled (`unsaved`).

`ClaimsAgree`: one attempt per request and never more leases than the capacity.
`AcknowledgedIsOver`: an attempt the control plane was told is disposed of is neither
run nor offered to the worker again. The request that made it still finds it while
its lease goes on; what excludes the offer is that no one asks it any more, and that
no identifier is drawn twice. `ClaimReturns`: the claim's slot comes back.

`WorkerEnrollment` has one worker and one server. `Start` adopts the files of older
workers, loads or creates a credential; `SyncPending`, `Send`, `Answered`, `Save`,
`Clear` are the steps of `enroll`; `Exchange` is the server's transaction. `past` is the
set of directories a loss of power may leave: those since the last sync.
`CredentialsAgree`: the credential the server knows is in one of the worker's files
after any number of kills, or after a loss of power, and a credential under its final
name is accepted (`SavedIsAccepted`, as long as not both have happened). A kill between
a link and its sync, a restart that takes the file as durable, and then a loss of power
are too much for the code; the property excludes the combination. `AcceptedIsSaved`: an
accepted enrollment comes to its end although the token expires. A second token issued
while the answer to the first exchange is lost makes the credential of the first
unusable; the worker's token then decides, as long as it stays configured.

### AttemptSupervisor and AttemptEvents

`AttemptSupervisor` is one stage of one attempt: the worker's loop (`Ready`, `Attach`,
`Prepare`, `SendStart`, `Acknowledge`, `Handle`, `Receive`, `ReceiveError`), the handle that
stops it (`Stop`, `EmergencyStop`: the first reason wins), the heartbeat, the control
pipe and the message pipe with their ends, and the supervisor (`Boot`, `Command`,
`EndOfControl`, `LeaseFires`, `WorkTimer`, `NoticeExit`, `StopGroup`, `Report`) over a process
group that is the anchor alone, the anchor and the runtime, or dead. Either process
may be killed. `StoppedIsDead`: what is marked as stopped is dead, whoever stopped it.
`RuntimeIsStopped`: a runtime that is to stop, or whose worker died, is stopped or
the worker says that it is not. The code keeps this with two exceptions, which the
property names and section 4 describes: a supervisor that writes to a worker that is
gone dies of it (`broken`), and the loop may wait for ever for an error it has
taken (`Waits`). Both occur within the bounds of the run.

`AttemptEvents` is the path of a line of output: `Enqueue` into the sender's bounded
channel, `Take`, `SendAgain`, `Answered` in its goroutine, `AppendEvents` on the server
with its check of numbers and its limits of bytes, lost requests and answers. The
worker bounds a line before it encodes it (`events.go:104`) and `json.Marshal` makes
it longer, so a line may be `large` for the server (`state.go:538`), whose refusal
ends the sender. `HistoryIsPrefix`: what is stored is a beginning of what was
written, without a gap, a repetition or a swap. `QueuedArrives`: what was queued
arrives, up to the first such line, unless the attempt ended, was stopped or is
full (section 4).

### AgentUpdates

The commands `factory update` of an agent, the handler that serves each on the
worker, the transaction `AppendAgentUpdate`, and the end of the attempt on the
worker: `StopReason`, `FinishCheck` (the second validation), `FinishDecide`,
`Complete`, `Dispose`. `head` and `pushed` are the worktree's commit and the published
one, `outcome` what the worker knows of the outcome, `updates` and `stored` the tables.
A command is sent again after a lost answer with the same request identifier.
`OutcomeAgreed` joins four parts: an agent that was told its outcome is not
contradicted (`ToldIsOutcome`), an attempt's outcome is the last thing it says
(`OutcomeIsLast`), a stop wins over a report (`StopWins`), and a worktree is cleaned
only after the control plane accepted the success (`CleanedWasAccepted`).

### WorkerRecovery

The manifest, the worktree (its Git entry and its directory), its branch and the
disposal registry of each attempt of one worker in one repository, with the worker's
memory of them. Actions: the steps of `runAttempt` that touch them (`CreateManifest`,
`GitAdds`, `WorktreeCreated`, `StartSupervisor`, then `ReadyFails`, `SupervisorReady` or
`ReadyUnwritten`, `StartStage`, `StageEnds`, `Handoff`, `Complete`, `CleanBegins`,
`Retain`, `NotCreated`, `Dispose`, `Release`), the removal (`Remove`, `Unlist`,
`ReadBranch`, `DeleteBranch`, `Cleaned`), `reconcile` of a restarted worker by what it
finds (`StopProcesses`, `SameIdentity`, `CleanupResumes`, `WorktreeDisagrees`,
`WorktreeAbsent`, `WorktreePresent`), the registration that reports and then clears
disposals, the operator's `Cleanup`, and edits by hand. A crash falls between any two
steps; each write, command or request may fail. The control plane's side of the slots is
in `SlotsInUse` and `Acknowledges`.

`SlotsAccounted`: never more worktrees than slots (`SlotsBound`), no worktree that a
healthy worker does not report (`RetainedKnown`), no slot given back while the attempt
goes on (`AckAfterEnd`). `group` tells a live process group its manifest names from one
it does not: the supervisor is started (`attempt_lifecycle.go:255`) before its group can
be written down (275), and when it is not ready in time or the write fails, the attempt
goes on to its end without knowing of it. `StoppedBeforeCleanup`: nothing is removed
under a group that is named; one that is not holds its anchor only, since `start` is
sent later (340), and its worktree goes to a confirmed cleanup at most. `WorkKept`: an
unpublished commit keeps its branch, uncommitted changes fall only to a confirmed
cleanup. `SlotReturned`: the slot of an ended attempt comes back or the worker asks for
help.

### RepositoryCoordination

Users of repositories, goroutines of the worker, and the lock entries they share:
`Acquire` takes a reference, `GiveUp` is a cancelled wait, `Take` the token, `Enter` or
`Refuse` the look at the poison, `Release` and `Drop` two steps between which the entry
may be found by others. A user inside may `Poison`, `Inspect`, `Reserve`, clone
(`CloneFails`, `Install`), `Finish` and `Resolve`. `Restart` sweeps unfinished clones.
`ExclusiveUse`: one user per repository, and nobody enters a poisoned one.
`CacheAccounted`: clones, reservations and advertised identifiers account for each
other and for the limit. `WaitersServed`: nobody waits for ever.

### AdmissionJournal

Processes of `factory build` and `factory run` with their scope lock, the journal file
(`journal`) and what of it a power loss would leave (`durable`), requests, the
server's replay, admission and rejection, answers that are printed or not. A
process is killed at any step and any write may fail. `RepeatIsSafe`: a key that was
sent is in the journal until an answer for it was flushed (`KeyKept`), its holder
finds it (`HolderFindsEntry`), and there is at most one Run more than answers the
operator has read (`OneRunPerAnswer`). A printed rejection is such an answer: the
key is given up then, though an earlier request with it that was late may still
admit its Run. A loss of power of the client's machine is not a step and no part of
the property; `durable` says what it would cost (`AdmissionDurable.cfg`, section 4).

### RecoveryPublication

Commands that back up or restore to one destination: validation and opening of the
source, the look at the destination, the clearing of what an interrupted command
left (`Recover`, `Unlink`, `Clear`), staging, validation, syncs, the two links, and
their undoing (`UndoDb`, `UndoMarker`) when the second or the sync fails. `past` is as in
`WorkerEnrollment`; `torn` are files whose content a loss of power took. Any call may
fail (`Fails`), the removals of an undo too (`RemoveFails`): the code drops their
errors (`recovery.go:153-158`) and removes the staging directory all the same.
`PublicationHolds`: a name links to a snapshot of the database that was validated
(`SnapshotOfValidated`), with its content (`WholeIsSolid`), and stays once it was
reported (`PublishedKept`); and what an interruption leaves is nothing, all, or a
half the next command recognises (`Recoverable`), or a half one of whose names could
not be removed (`unremoved`), which no command clears.

Commands for one destination do not overlap in the run (`Rivals`): what they do to
each other is in section 4. A source is never replaced by a file that was there
before: `recoveryIdentity` compares inodes at two moments (`recovery.go:397`) and does not
see a file that was away in between. A server that starts at the destination during
a restore, and SQLite's side files, are not modelled.

## 3. Runs, bounds and fairness

| Run | Module, configuration | Question |
|---|---|---|
| `work_retries` | `MCWorkLifecycle`, `WorkRetries.cfg` | what one Work carries from attempt to attempt, and whether its cancellation ends it |
| `work_fleet` | `MCWorkLifecycle`, `WorkFleet.cfg` | whether Runs that compete for a worker, a limit and a source keep the contract |
| `routing` | `MCRouting`, `Routing.cfg` | whether the route check, the claim query and registrations agree |
| `schedule_edits` | `MCTaskScheduler`, `ScheduleEdits.cfg` | edits between any two transactions of the scheduler |
| `schedule_fairness` | `MCTaskPolling`, `ScheduleFairness.cfg` | whether an occurrence that fails for ever lets the others in, under a clock without end |
| `intake_polls` | `GitHubIntake`, `IntakePolls.cfg` | polls that fail half-way, beside operators and workers |
| `recovery_cleanup` | `WorkerRecovery`, `RecoveryCleanup.cfg` | crashes and failures between any two steps of attempts that share a slot |
| `repository_users` | `RepositoryCoordination`, `RepositoryUsers.cfg` | three users, two repositories, a cache of one |
| `worker_exchanges` | `MCWorker`, `Worker.cfg` | lost answers and stops in what a worker exchanges with the control plane and its supervisors |
| `commands` | `MCCommands`, `Commands.cfg` | commands that are repeated after they failed |
| `intake_crash`, `supervisor_hang` | `GitHubIntake` (`IntakeCrash.cfg`), `AttemptSupervisor` (`SupervisorHang.cfg`) | violations, section 4 |

Every property of a passing run comes with a wrong form of one operator of the
code's model (the operators commented "Mistake", which no specification uses) under
which TLC finds it violated.

Deadlock is checked in all runs. Where a component may really come to its end,
a step `Done` leaves it there. Symmetry is used in `routing` and `commands`, which have
invariants only, over sets whose elements the modules treat alike.

### Bounds

- `work_retries`: one session of two stages, two attempts, two workers, leases of two
  ticks, so that a heartbeat within the lease renews it and a worker that hears no
  answer may go on renewing. Two attempts let a question be answered and its successor fail, and a
  retry follow; two stages show an order, and the completion treats the last stage
  apart; two workers let the Work move while an old worker still sends requests.
  A claim beyond `MaxAttempts` is not modelled.
- `work_fleet`: three sessions of two runs, two of them about one source, a limit of
  one, a worker of capacity one. Two sessions of a run suffice for its limit and
  its aggregate; a third, rival session for rebuild, replacement and retry to
  compete. One attempt each: numbers and histories of attempts are the matter of
  `work_retries` and of the proofs.
- `routing`: two of everything, one checkout, a cache of one clone: one place too few
  for two repositories, and somewhere else to go.
- `schedule_edits`: one Task, four ticks, a cron of every second tick, three
  generations, two catalog versions: two instants with retries between them, a
  Task that is created, edited and paused or archived, and a catalog that differs
  from the frozen one. `MaxDelay` of two lets the backoff reach its limit.
- `schedule_fairness`: two Tasks whose cron fires every tick, one of which may fail at
  every attempt, and calls that handle one occurrence each: the least room there is
  for the other Task. The clock has no end: a window of two ticks moves by one. What is due
  keeps its distance as long as it lies ahead; what lies behind the window is due
  alike, in any order the code could take it.
- `intake_polls`: one issue with its pull request, three sessions, three changes on
  GitHub, one failure of any kind. Three sessions are a first one, its successor and one
  more that could branch off. Issues share only the listing, which one issue leaves as
  well.
- `recovery_cleanup`: two attempts of two stages, one slot, two starts of the worker,
  one failure, one edit by hand on one attempt (`Edited`; the attempts are alike, so with
  one edit this is no restriction). One slot makes each worktree that is left out
  of the count visible.
- `repository_users`: three users and two entry objects, so that one waits while
  another comes and an entry is dropped and made anew; one restart.
- `worker_exchanges`: two requests and attempts, capacity one, one loss, one check, one
  crash; two tokens and credentials, one stop of each kind, one lost answer; two
  outputs and one fault of worker or supervisor, so that an output after the death of
  the worker is among the behaviours; a queue of two, a history of three events, four
  lines, any of them large, and two losses. Queue and history are smaller than what is
  written, so both overflow.
- `commands`: two agent commands of two sends each, one progress update, one commit,
  one loss; two processes, three invocations, a journal of one entry; two recovery
  commands, two sound databases and one that is not, two faults and one loss of power.

### Fairness

- `WorkLifecycle`: `WF` of `Tick` and `SweepExpired` only: time passes, and `RunSweeper`
  sweeps at startup and every five seconds. Nothing is assumed of workers,
  operators or the network.
- `TaskPolling`: `WF` of the ticker (`NextPoll`) and of the transactions, `SF` of the
  claims and of each later step for one Task: the ticker of `RunTaskScheduler` calls
  `AdmitDueTasks` again after every stop, and a server that comes to a step of one
  Task again and again is not stopped before it every time. A `Failing` Task may be
  refused every time; of the others some attempt is decided on its merits, without a
  failure of the store. Operators are not fair.
- `GitHubIntake`: `WF(Poll)`, the ticker of `RunGitHubIssueIntake`; `WF` of the end of each Work,
  which the lease and the sweeper bring about.
- `ClaimProtocol`: `WF` of the claim goroutine's steps (`EndClaim` and what follows it
  are local), of the server's answers, of health
  checks and registrations, which run under timeouts and on tickers, and of the end
  of attempts by worker or sweeper. `WorkerEnrollment`: `WF` of the worker, which `Run`
  repeats, and `SF` of the answers, as an answer within the timeout is possible again
  with each repeat.
- `AttemptSupervisor`: `WF` of the loop and of the supervisor: each step is local or has a
  timeout; `WF` of the lease timer once nobody renews. `AttemptEvents`: `WF` of sender and
  server.
- `WorkerRecovery`: `WF` of the steps of removal, reconciliation, registration and of the
  worker's start (its service manager starts it again); `SF` of an attempt's steps:
  several need the registration lock, and Go's `sync.Mutex` passes nobody over for
  ever.
- `RepositoryCoordination`: `WF` of holders, whose Git commands have timeouts; `SF` of taking
  a token, as a channel serves its waiters in turn.

The modules without a temporal property (`Routing`, `AgentUpdates`, `AdmissionJournal`,
`RecoveryPublication`) have no fairness.

## 4. Where code and documents disagree

Two findings are runs of their own and listed in `PROJECT.json`.

**`supervisor_hang`** (`StopEndsAttempt`). When the supervisor is killed, its end arrives once
on `decodeErrors`. `waitForSupervisorMessage` may take that error while messages are
still buffered; its inner `select` then returns one of them and the error is gone.
The next call waits on two channels nobody writes to: the attempt never ends, the
runtime's group is never stopped, and neither a cancellation nor the timeout nor a
shutdown has any effect while the heartbeat renews the lease
(`attempt_lifecycle.go:686`). `src/docs/worker.md:208` promises that cancellation is
"cooperative but enforced".

**`intake_crash`** (`VisitRuns`). `startGitHubIssueVisit` commits the visit before the admission. A
server that stops in between finds the visit active at every later poll and only
touches it: the issue is not run as long as it keeps matching
(`github_intake.go:241`; `src/GOAL.md:38`).

The others are reproduced by a configuration that is no run of `PROJECT.json`; each
checks one property and TLC finds it violated (`tlc -config X.cfg M`).

| Configuration, module | Property | What the code does |
|---|---|---|
| `WorkDisable.cfg`, `MCWorkLifecycle` | `DisableAccepted` | `src/docs/tasks/design.md` says that when a repository becomes unavailable its session becomes blocked. `SetManagedRepositoryEnabled` deletes the queued executions, but `attempts.execution_id` references `executions` without a cascade (`001_controlplane.sql:62`) and foreign keys are enforced. Once a queued session had an attempt, the request fails and the repository stays enabled. |
| `ScheduleTwice.cfg`, `MCTaskScheduler` | `OccurrenceRunsOnce` | `UpdateTask` computes the next instant and then waits for its transaction. If the scheduler admits and finishes that instant meanwhile, the edit puts it back under a new generation, thus a new request key: a second Run, which `src/ARCHITECTURE.md:415` excludes. `OccurrenceOnceCorrect` proves that the wait is the only way. |
| `ScheduleDiscard.cfg`, `MCTaskScheduler` | `DiscardedNeverRan` | Between the admission of its Run and its end, a paused or blocked occurrence can be discarded and is recorded as one that never started. |
| `ScheduleNext.cfg`, `MCTaskScheduler` | `NextIsUnclaimed` | `src/docs/tasks/design.md:506` says the claim advances `next_due_at`; the code does so when the occurrence ends. |
| `IntakeStatus.cfg`, `GitHubIntake` | `OneWorkPerPeriod` | A poll that cannot read one issue's project status skips it without touching its visit and then clears every visit it did not touch. The next poll starts another visit, which admits a second Work once the first has ended (`github_intake.go:224`; `src/GOAL.md:38`). With `Faults = {"reread"}` in its place, a poll that cannot read the Run it has admitted releases the visit, with the same outcome. |
| `IntakeDiagnostics.cfg`, `GitHubIntake` | `DiagnosticsNameBlocked` | A failed catalog refresh records a diagnostic also for issues whose visit is running; only a later admission deletes it (`github_intake.go:192`). |
| `ClaimSettled.cfg`, `ClaimProtocol` | `ClaimsAreSettled` | A claim whose context is cancelled returns without looking whether the control plane has made an attempt for it. Nothing names that attempt afterwards: it is swept, and its slot is never acknowledged; ten of them and the repository accepts no claim on that worker (`claiming.go:62`; `src/docs/worker.md:151`). |
| `UpdatesUnchecked.cfg`, `AgentUpdates` | `DeliveredIsChecked` | The worker repeats its validation only if it knows of an outcome. One whose every answer was lost is unknown to it, so commits made since leave the Work ready with evidence that no longer holds (`attempt_lifecycle.go:773`; `src/docs/software-factory/design.md:836`). |
| `UpdatesFailed.cfg`, `AgentUpdates` | `FailedIsRetained` | For the same reason the worktree of an attempt whose failed outcome was stored unheard is cleaned (`attempt_lifecycle.go:812`; `design.md:665`). |
| `SupervisorParentLoss.cfg`, `AttemptSupervisor` | `ParentLossStops` | When the worker is gone, an output of the runtime makes the supervisor write to a broken pipe on file descriptor 1, which ends a Go program. The runtime and the anchor live on until a worker starts again (`supervisor.go:678`; `src/ARCHITECTURE.md:271`). |
| `RecoveryStage.cfg`, `WorkerRecovery` | `HandoffRecovers` | Between two stages the manifest names the next supervisor while the control plane has the one before. A worker that comes back after the sweep takes its own manifest for a foreign one and stays unhealthy (`reconcile.go:298`); a refused `StartStage` leaves the same state. |
| `RecoveryDisposal.cfg`, `WorkerRecovery` | `DisposalsRemovable` | `finishWithoutWorktree` journals the disposal before it sets the manifest to `not_created`. A crash between the two makes `removeDisposedManifests` refuse the manifest, and the worker is unhealthy after every restart (`attempt_lifecycle.go:737`). |
| `AdmissionDurable.cfg`, `AdmissionJournal` | `DurableBeforeSend` | An entry whose writer failed at the sync of the directory is reused without a sync, so a power loss can lose the key of an admitted Run (`admission_journal.go:171`; `src/ARCHITECTURE.md:421`). |
| `PublicationRivals.cfg`, `RecoveryPublication` | `PublishedKept` | A command that finds half a publication clears it by path and without a lock; when another command is still publishing, it reports success and is left without its database (`recovery.go:318`; `src/docs/local.md:297`). |
| `RoutingStranded.cfg`, `Routing` | `AcceptedIsFound` | A worker that accepts managed repositories is restarted without a checkout whose repository has queued Work. Its row is kept but no longer advertised. Once the repository is enabled as a managed one, the route check accepts the worker, the claim query does not find the session, and nothing moves it until a claim of another worker advertises the row again (`store.go:2234`). |
| `RoutingLateClone.cfg`, `Routing` | `ClonesFit` | An attempt that lost its lease finishes its clone after a registration has given its place away: the worker's cache is then too small for what is queued on it. |

Five smaller observations came with the models. A failed re-read after a committed
admission is reported as a failure of the admission. A line of output within the
limit that grows beyond it when it is encoded is refused, and the sender ends with
everything behind it (`events.go:82-86`), where `src/docs/worker.md:186-187` says that
oversized output is truncated; `QueuedArrives` excepts it. A backup that cannot remove a
name it linked leaves half a publication that every later command refuses, and
reports the first error only; `Recoverable` excepts it. A labelled pull request is woken
again after each Work that ends. And a worker's credential is lost by a kill between
a link and its sync, a restart and a loss of power, in this order.

## 5. What is proved

Proofs hold for every value of the constants that satisfies the assumptions of the
module: any number of sessions, runs, workers, attempts, stages, commands, keys,
users, tokens and ticks, and any bound. TLC checked each inductive invariant before
it was proved. Every safety invariant and action property of the passing runs is a
theorem; what is only model-checked is named at the end of this section.

| Module of proofs | About | Theorems |
|---|---|---|
| `WorkProofs` | `WorkLifecycle`, `WorkRefinement` | `TypeOK`, `OneActiveAttempt`, `AttemptOwnsWork`, `NoStrandedWork`, `CancellationAgrees`, `KeepsContract`, `OneLiveWork`, `OneReplacement`, `RepeatWarned`, `DecidedStays`, `RunConcurrency`, `RunTerminalAgrees`, `Resumable` |
| `TaskSchedulerProofs` | `TaskScheduler` | `TypeOK`, `PendingHasCron`, `ScheduleAlive`, `PendingKept`, `FrozenSnapshotKept`, `OneRunPerGeneration`, `AdmittedWhilePending`, `OccurrenceRunsOnce` |
| `RoutingProofs` | `Routing` | `RoutesAgree` |
| `GitHubIntakeProofs` | `GitHubIntake` | `OneChain`, `OneWorkPerVisit` |
| `WorkerRecoveryProofs` | `WorkerRecovery` | `SlotsAccounted`, `StoppedBeforeCleanup`, `WorkKept` |
| `RepositoryCoordinationProofs` | `RepositoryCoordination` | `TypeOK`, `ExclusiveUse`, `CacheAccounted` |
| `WorkerProofs` | `MCWorker` | `ClaimsAgree`, `AcknowledgedIsOver`, `CredentialsAgree`, `StoppedIsDead`, `HistoryIsPrefix` |
| `CommandProofs` | `MCCommands` | `OutcomeAgreed`, `RepeatIsSafe`, `PublicationHolds` |

`MCWorker` and `MCCommands` put modules without common state side by side. `EachPartSteps`
says that a step of the composition is a step of one part and leaves the others
alone, so each part has an invariant of its own.

### The control plane

`WorkProofs`: `TypeCorrect`, `Spec => []TypeOK`, by one lemma per group of
actions over lemmas for each row operator; then `Spec => []` of `OneActiveAttempt`,
`AttemptOwnsWork`, `NoStrandedWork` and `CancellationAgrees`. None is inductive alone. A
claim keeps attempts unique only because a queued session has no active one; a
completion keeps the session from being stranded only because its attempt was the
only one; a retry starts uncancelled only because what waits never is. The
inductive invariant `Agreement` says, of each session, what `Agree` lists: at most one
active attempt, its agreement with session and execution in state, owner and
worker, the equivalence of a queued session and a queued execution, and where a
cancellation may stand. It is stated one session at a time, so that each
action's lemma looks only at the sessions the action rewrites.

Then `KeepsContractCorrect`, `Spec => KeepsContract`: initial states map to
initial states and every step to a step of the ledger or a stutter. The invariant
`LInv` adds to `Agreement` that the attempts of a session are numbered without gaps,
which makes the number of attempts and the next number the same thing. `OneLine`
says that a session's line follows from its row as long as no attempt is made, so
that each handler has only its sessions to account for. What the ledger promises then
holds of the tables: `Lined` is an invariant of its steps and gives
`OneLiveWorkCorrect` and `OneReplacementCorrect` without another look at the handlers,
which write one row and read others. The rest of the
module is what holds over the history of Work. `RowMoves` lists the ten ways in which a
step changes a session row, `AttemptMoves` the five for an attempt; `Moves` shows that
every action is among them. From these lists follow
- `RepeatWarnedCorrect`, with the invariant that an attempt which was not yet admitted
  has started nothing;
- `DecidedStaysCorrect`, an action property, with `Ordered`: the attempt of a pending
  commit has ended, and the active attempt is the last one, so a checkpoint that
  replaces another is of a later attempt;
- `RunConcurrencyCorrect` and `RunTerminalAgreesCorrect`, with `RInv`: `LInv`, the limit, that
  the sessions of a run are admitted together, and that `terminal_at` is set exactly
  on closed runs; the count rests on the library's facts on cardinality;
- `ResumableCorrect`, with `HInv`: `Ordered` and, of each session, `Piped` and `Questioned`.
  `Piped` says that the stages are done in order and fit the state of the session;
  that unadmitted Work has all its stages pending is part of it, and what makes an
  admission keep it. `Questioned` says that an active attempt runs from the pending
  commit and has no answer yet, so the question with which it may end is open. `Noted`
  and `Asks` list what a step may do to the columns of an attempt that the next
  attempt reads.

`TaskSchedulerProofs`: for `TypeOK`, `PendingHasCron` and `ScheduleAlive`, the inductive
invariant adds to the types what the columns of one row owe each other (`Sound`):
an occurrence that has no retry time carries a code, because an edit decides by
it whether to restore the status, and a pause overwrites the status alone; and
the schedule a save has computed has a cron and an instant. For the others, `SInv`
relates the scheduler's local variables to the row: as long as the row holds the
occurrence the scheduler handles, it holds the same snapshot, and after an
admission the Run of that snapshot is there. Since no other handler changes an
occurrence except by ending it (`OperatorKeeps`), this gives `PendingKept`,
`FrozenSnapshotKept`, `AdmittedWhilePending` and `OneRunPerGeneration`.
`OccurrenceRunsOnce` is proved from `~ EditMayWait`, with a further invariant, `AInv`: the
schedule never goes back, so what is next lies ahead of all Runs, and a Run of the
pending instant has its generation.

`RoutingProofs`: `RoutesAgreeCorrect`, `Spec => []RoutesAgree`, from `~DropsCheckouts` and
`~LateClones`; the two configurations of section 4 show that neither can be dropped.
The invariant `Good` is stated of any table of rows and any sessions, because a claim
passes through several of both in one transaction: a scan may place reservations
and move sessions before the claim itself is decided. Its parts: `RowsAgree` (static
rows are the configured checkouts and advertised), `Placed` (what is queued or active
has a row, hidden at most while its worker accepts no managed repository),
`Counted` (the server counts every clone of a worker it may still give one), `Fits`
(places taken and promised do not exceed the cache) and `Named`. A scan that moves
other workers' sessions keeps the property by an argument over the least session
that would break it.

`GitHubIntakeProofs`: `OneChainCorrect`, `Spec => []OneChain`, for every choice of
`Faults` and `Moves`. `ChainInv` has the types, what the poll has read (`Reading`: the
predecessor it may replace is a session) and `Followed`: a session follows an earlier
one of its issue. `Joins` is what every admission owes: it begins the chain of an issue
without Work, or continues it at a session nobody follows. `OneWorkPerVisitCorrect`
needs no assumption: `missed` counts the failures after which a period is built again,
whatever `Faults` holds, and only those (`IntakeStatus.cfg` shows one, section 4).
`Periods` and `Counted` relate the sessions to the periods and the failures of their
issue. `AllHeld` says why a period that was built is not built again: its visit is
active, the poll is not about to admit or to release it, and a poll that will clear
visits has seen it or still comes to it. It holds across failed polls and restarts
because a visit is cleared only at the end of a list that was worked off.

### The worker

`WorkerRecoveryProofs`: the invariant `RecoveryInv` is a row per attempt and two facts
the rows share. The row relates what four places say of one attempt, at every point
where a crash may come: `Where` (what the worker program does decides where it can be
with an attempt), `Untouched` (what nobody claimed left no trace), `Recorded` (the
manifest comes before the worktree and names the reason for its end), `Trees` (what is
disposed is gone; the head to be deleted was found to be safe), `Groups` (a named group
runs under an active manifest; the attempt of an unnamed one fails, so it is never the
attempt itself that removes its worktree), `Ended` (a disposal or a retained worktree is
on record only between the end of the attempt and the release of its hand-over, or
after), `Advertised` and `Worked`. `Locked` says that no registration is built during a
hand-over, `OneCleanup` that the operator cleans one attempt at a time. `OthersKeep`
leaves each action with the row of its own attempt.
- `StoppedBeforeCleanupCorrect` is `Groups`.
- `WorkKeptCorrect`: a branch is deleted by one action only, with the head it read; the
  head is safe by `Trees`, so a local commit made since then is not that head. A
  worktree is removed only at a point where, by `Recorded`, the manifest says why.
- `SlotsAccountedCorrect`: `CountInv` bounds the attempts that have a worktree or may be
  about to get one. It is kept by the check of `ClaimAttempt`, since each of these is
  in one of the three sets counted there: a worktree whose attempt was acknowledged
  is in the last healthy roll. That holds because the registration that
  acknowledged it found no hand-over under way, and by `Ended` and `Advertised` what is
  at rest then is either gone or retained. The set of attempts need not be finite.

`RepositoryCoordinationProofs`: `LockInv` has `Attached` (whoever is in the lock has the entry
that is there), `OwnEntries`, `Counted` (the references of an entry are the users that
refer to it), `OneToken` and `Closed`. An entry is deleted when its count is zero, so
the exact count is what keeps all users of a repository on one token. `CacheInv` counts
clones and reservations together; a reservation becomes a clone under the lock of
its repository.

`WorkerProofs`:
- `StoppedIsDeadCorrect`: `StopInv`, a report of a verified stop is in the pipe only if the
  group is dead; `Staged`, a stop without a cause comes before there is a runtime.
- `HistoryIsPrefixCorrect`: `EventInv`, the sender has one event on its way, whose number is
  at most one more than the history is long (`NeverAhead`), the queue goes on where it
  ends (`InTurn`), and every event carries the line of its number.
- `ClaimsAgreeCorrect`: `ClaimInv`, an attempt has the one request that made it and the active
  ones are at most the capacity, because a request looks first for its own answer.
- `AcknowledgedIsOverCorrect`: `OverInv`. An attempt is offered while the claimer has the
  request that made it in hand, whether the answer is there or on its way. What was
  disposed of or acknowledged is not offered, and what runs is neither (`Disposals`):
  the goroutine that gives an attempt up or starts it lets go of its request in the
  same step, and a request that was sent before is never drawn again.
- `CredentialsAgreeCorrect`: `EnrollInv`. A credential that may have reached the server is
  in every directory a loss of power may leave (`Kept`), and if it was accepted stays
  until it is installed (`SavedKnown`); the files of older workers are adopted
  before anything is asked (`LegacyFirst`). The property has two halves, each under
  the condition of section 3: without kills for a loss of power, and for a credential
  under its final name without one of the two.

### The commands

`CommandProofs`:
- `OutcomeAgreedCorrect`: `OutcomeInv`. An outcome the worker has stored is the last update
  (`OutcomeIsLast`), what was answered is recorded on both sides (`Recorded`), and the
  completion that was accepted is of that outcome (`Ended`, `Delivered`). A repeated
  command keeps its identifier, so it finds its own row.
- `RepeatIsSafeCorrect`: `JournalInv`. The holder of the scope's lock finds the entry of
  the key it works with (`EntryFound`), entries of different scopes have different
  keys (`EntriesApart`, `OneRunPerKey`), and a key is given up only after its answer was
  flushed (`AnswerAwaited`, `Flushed`). It rests on `KeysAssumption`: a random key is never
  one that somebody wrote by hand (16 random bytes, `admission_journal.go:290`). It says
  nothing of a loss of power, which the module has no step for.
- `PublicationHoldsCorrect`, from `~Rivals` (commands for one destination do not overlap;
  `PublicationRivals.cfg` shows what happens otherwise): `PublicationInv`. A database under
  its final name is linked to the validated one and synced before the command
  reports (`Places`), also in every directory a loss of power may leave (`PastGood`). Half
  a publication has its staged files beside it until the command undoes it, or is one
  that could not be undone (`HalfOf`).

### What the proofs assume

Besides what the constants are (numbers, finite sets, distinct values for "none"):
`TargetAssumption`, `SessionAssumption` and `ScheduleAssumption` describe the configuration the
server validates; `UsersAssumption` says that a worker has finitely many goroutines;
`CredentialsAssumption` and `KeysAssumption` that what is drawn at random is new. The
theorems on `OccurrenceRunsOnce`, `RoutesAgree` and `PublicationHolds` state
their conditions in the theorem. `IssuesAssumption` says that issues have numbers: the
poll goes by their order. Every assumption of a module is evaluated by the run of that module.

Model-checked only: liveness (`CancelledWorkEnds`, `PendingSettles`, `DueClaimed`, `WakeRuns`,
`SlotReturned`, `WaitersServed`, `ClaimReturns`, `AcceptedIsSaved`, `RuntimeIsStopped`,
`QueuedArrives`) and `DisableAccepted`: fairness and `ENABLED` are beyond the prover.

## 6. Not modelled, and what is left

Not modelled:

- **Configuration, command line and protocol types** (`config.go`, `factorycli` apart
  from the journal and `update`, `protocol`): parsing, validation and layout, with
  no state that outlives a command. What they reject never reaches the models.
- **Web console** (`src/web`): it displays what the API returns and sends the requests
  modelled as the operator's.
- **Release builder** (`releasebuilder`): a sequential build of archives.
- **Parts of the components** that `PROJECT.json` calls partly modelled: the editing of
  Tasks and Procedures apart from the schedule, prompts, snapshots and request-key
  replay of manual runs; pull-request evidence and the text of updates; runtimes,
  source access, loads and display keys in the choice of a route; the cron grammar;
  the parsing of GitHub's answers, the catalog's files and the issue comment; the
  capture of output, and planning and review inside an attempt. They change data that
  no modelled guard reads, or are pure functions of one input.

Worth doing next, in this order:

1. The retained-worktree sum in `Routing`, which would join it with `WorkerRecovery`.
2. Pure algorithms against definitions of what they compute: the run aggregate, the
   choice between routes, the history of a continued Work.
