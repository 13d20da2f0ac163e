---------------------------- MODULE TaskScheduler ----------------------------
(***************************************************************************)
(* The schedule of a Task: the schedule columns of the tasks table, the    *)
(* scheduler loop that turns a due cron instant into a Run, and the        *)
(* operator's edits that race with it (src/internal/controlplane,          *)
(* task_scheduler.go, tasks.go and store.go).                              *)
(*                                                                         *)
(* An occurrence is a due instant with the snapshot frozen when it was     *)
(* claimed.  The scheduler handles one occurrence at a time in four        *)
(* transactions, claim, freeze, admit and finish, and remembers it in      *)
(* local variables in between; the process may stop between any two.       *)
(* Every other handler is one transaction, except that saving a Task       *)
(* computes its next instant before its transaction begins.                *)
(*                                                                         *)
(* An instant is a positive number of ticks; 0 is NULL, for an instant     *)
(* and for a generation.  The workflow of a snapshot is the version of the *)
(* repository catalog it was read from, 0 while it is not read yet.        *)
(*                                                                         *)
(* An operator commented "Mistake" is no part of the specification: it is  *)
(* a wrong form of the operator after it.                                  *)
(***************************************************************************)
EXTENDS Integers, FiniteSets

CONSTANTS
    Task,           \* identities of Tasks, created or not yet
    Repository,
    Cron,           \* the cron expressions, each with its timezone
    NoCron,         \* NULL in tasks.cron
    NextInstant,    \* cronSchedule.Next: first instant strictly after another
    WorkflowTasks,  \* Tasks that follow a repository workflow
    MaxDelay,       \* longest retry backoff, in ticks
    EditMayWait,    \* may the clock move while a save waits for its transaction
    Horizon,        \* bound: the last tick modelled
    MaxGeneration,  \* bound: generations modelled per Task
    MaxVersion      \* bound: versions of the workflow catalog

ASSUME ScheduleAssumption ==
    /\ NoCron \notin Cron
    /\ NextInstant \in [Cron -> [0 .. Horizon -> Nat]]
    /\ \A c \in Cron, n \in 0 .. Horizon : NextInstant[c][n] > n
    /\ WorkflowTasks \subseteq Task
    /\ MaxDelay \in Nat \ {0}
    /\ EditMayWait \in BOOLEAN
    /\ Horizon \in Nat \ {0} /\ MaxGeneration \in Nat /\ MaxVersion \in Nat

VARIABLES
    task,       \* the tasks table; generation 0 where there is no row
    runs,       \* the scheduled rows of the runs table
    available,  \* the repositories validateFrozenRepositories accepts
    catalog,    \* version of the workflow catalog, 0 while it is not healthy
    scheduler,  \* where AdmitDueTasks is, with its local variables
    edit,       \* a save between normalizeTask and its transaction
    now         \* s.now()

vars == <<task, runs, available, catalog, scheduler, edit, now>>

-----------------------------------------------------------------------------
(* Types. *)

Instant == Nat
Health == {"disabled", "healthy", "blocked", "error"}
HealthCode == {"", "transient", "permanent", "repository_disabled"}

Snapshot == [generation : Nat, repositories : SUBSET Repository, workflow : Nat]
NoSnapshot == [generation |-> 0, repositories |-> {}, workflow |-> 0]

TaskRow ==
    [generation : Nat, enabled : BOOLEAN, archived : BOOLEAN,
     cron : Cron \cup {NoCron}, repositories : SUBSET Repository,
     next : Instant, pending : Instant, snapshot : Snapshot,
     retryAt : Instant, retries : Nat, discarded : Instant,
     health : Health, code : HealthCode]

NoTask ==
    [generation |-> 0, enabled |-> FALSE, archived |-> FALSE,
     cron |-> NoCron, repositories |-> {}, next |-> 0, pending |-> 0,
     snapshot |-> NoSnapshot, retryAt |-> 0, retries |-> 0, discarded |-> 0,
     health |-> "disabled", code |-> ""]

\* A scheduled run; its request key is made of task, generation and due.
ScheduledRun ==
    [task : Task, generation : Nat, due : Instant, workflow : Nat, admittedAt : Instant]

Idle == [at |-> "idle"]
Step == [at : {"freeze", "admit"}, task : Task, due : Instant \ {0}, snapshot : Snapshot]
Finish == [at : {"finish"}, task : Task, due : Instant \ {0},
           outcome : {"admitted", "transient", "permanent"}]

NoEdit == [task |-> "none"]
Edit == [task : Task, expected : Nat, enabled : BOOLEAN, cron : Cron \cup {NoCron},
         repositories : SUBSET Repository, next : Instant]

TypeOK ==
    /\ task \in [Task -> TaskRow]
    /\ runs \subseteq ScheduledRun
    /\ available \subseteq Repository
    /\ catalog \in Nat
    /\ scheduler \in {Idle} \cup Step \cup Finish
    /\ edit \in {NoEdit} \cup Edit
    /\ now \in 1 .. Horizon

Init ==
    /\ task = [t \in Task |-> NoTask]
    /\ runs = {}
    /\ available = Repository
    /\ catalog = 1
    /\ scheduler = Idle
    /\ edit = NoEdit
    /\ now = 1

Exists(t) == task[t].generation > 0
Pending(t) == task[t].pending > 0

TaskUnchanged == UNCHANGED <<task, runs>>
WorldUnchanged == UNCHANGED <<available, catalog, now>>

-----------------------------------------------------------------------------
(* The operator saves a Task: normalizeTask runs when the request arrives, *)
(* the transaction of CreateTask or UpdateTask later.                      *)

\* A schedule that is on names a cron and a repository; next is computed from
\* the cron.
NormalizeTask(t, on, c, R) ==
    /\ edit = NoEdit
    /\ on => c # NoCron /\ R # {}
    /\ task[t].generation < MaxGeneration
    /\ edit' = [task |-> t, expected |-> task[t].generation, enabled |-> on, cron |-> c,
                repositories |-> R,
                next |-> IF c = NoCron THEN 0 ELSE NextInstant[c][now]]
    /\ TaskUnchanged
    /\ WorldUnchanged
    /\ UNCHANGED scheduler

\* validateTaskRepositories and validateTaskWorkflow
Valid(t, R) ==
    /\ R \subseteq available
    /\ t \in WorkflowTasks /\ R # {} => catalog > 0

TaskScheduleHealth(on) == IF on THEN "healthy" ELSE "disabled"

CreateTask(t) ==
    /\ edit # NoEdit
    /\ edit.task = t
    /\ edit.expected = 0
    /\ ~ Exists(t)
    /\ Valid(t, edit.repositories)
    /\ task' = [task EXCEPT ![t] =
                  [NoTask EXCEPT !.generation = 1,
                                 !.enabled = edit.enabled,
                                 !.cron = edit.cron,
                                 !.repositories = edit.repositories,
                                 !.next = IF edit.enabled THEN edit.next ELSE 0,
                                 !.health = TaskScheduleHealth(edit.enabled)]]
    /\ edit' = NoEdit
    /\ WorldUnchanged
    /\ UNCHANGED <<runs, scheduler>>

\* Mistake: an occurrence that waits for the operator is recognised by its
\* status alone, which a pause has overwritten.
PreservesStatusOnly(row) == row.pending > 0 /\ row.retryAt = 0 /\ row.health = "blocked"

\* preserveBlockedOccurrence
PreservesBlocked(row) ==
    row.pending > 0 /\ row.retryAt = 0 /\ (row.health = "blocked" \/ row.code # "")

\* The schedule columns an edit leaves: a pending occurrence keeps its instant
\* and, while the schedule is off, the cron that will follow it.
EditedRow(row, on, c, R, n) ==
    [row EXCEPT !.generation = @ + 1,
                !.enabled = on,
                !.cron = IF row.pending > 0 /\ ~ on THEN @ ELSE c,
                !.repositories = R,
                !.next = IF row.pending > 0 THEN @ ELSE IF on THEN n ELSE 0,
                !.health = IF on /\ PreservesBlocked(row) THEN "blocked"
                           ELSE TaskScheduleHealth(on),
                !.code = IF PreservesBlocked(row) THEN @ ELSE ""]

UpdateTask(t) ==
    /\ edit # NoEdit
    /\ edit.task = t
    /\ Exists(t)
    /\ edit.expected = task[t].generation
    /\ Valid(t, edit.repositories)
    /\ task[t].archived => ~ edit.enabled
    /\ task' = [task EXCEPT ![t] =
                  EditedRow(@, edit.enabled, edit.cron, edit.repositories, edit.next)]
    /\ edit' = NoEdit
    /\ WorldUnchanged
    /\ UNCHANGED <<runs, scheduler>>

\* The transaction refuses: a repository or the workflow is not available, the
\* Task is archived, or its generation is no longer the expected one.
EditRefused ==
    /\ edit # NoEdit
    /\ \/ ~ Valid(edit.task, edit.repositories)
       \/ edit.expected # task[edit.task].generation
       \/ task[edit.task].archived /\ edit.enabled
    /\ edit' = NoEdit
    /\ TaskUnchanged
    /\ WorldUnchanged
    /\ UNCHANGED scheduler

ArchivedRow(row, archive) ==
    [row EXCEPT !.generation = @ + 1,
                !.archived = archive,
                !.enabled = IF archive THEN FALSE ELSE @,
                !.next = IF archive THEN 0 ELSE @,
                !.health = IF archive THEN "disabled" ELSE @]

SetTaskArchived(t, archive) ==
    /\ Exists(t)
    /\ task[t].generation < MaxGeneration
    /\ task' = [task EXCEPT ![t] = ArchivedRow(@, archive)]
    /\ WorldUnchanged
    /\ UNCHANGED <<runs, scheduler, edit>>

\* A change of the outcome contract only makes a new generation.
SetTaskOutcomeContract(t) ==
    /\ Exists(t)
    /\ ~ task[t].archived
    /\ task[t].generation < MaxGeneration
    /\ task' = [task EXCEPT ![t].generation = @ + 1]
    /\ WorldUnchanged
    /\ UNCHANGED <<runs, scheduler, edit>>

-----------------------------------------------------------------------------
(* What the Tasks depend on. *)

\* SetManagedRepositoryEnabled: the health of the schedules that select r.
DisableRepository(r) ==
    /\ r \in available
    /\ available' = available \ {r}
    /\ task' = [t \in Task |->
                  IF task[t].enabled /\ r \in task[t].repositories
                  THEN [task[t] EXCEPT !.health = "blocked", !.code = "repository_disabled"]
                  ELSE task[t]]
    /\ UNCHANGED <<runs, catalog, scheduler, edit, now>>

EnableRepository(r) ==
    /\ r \notin available
    /\ available' = available \cup {r}
    /\ task' = [t \in Task |->
                  IF task[t].enabled /\ ~ Pending(t) /\ r \in task[t].repositories
                  THEN [task[t] EXCEPT !.health = "healthy", !.code = ""]
                  ELSE task[t]]
    /\ UNCHANGED <<runs, catalog, scheduler, edit, now>>

\* A worker publishes another catalog, or the catalog stops being healthy.
RefreshCatalog(v) ==
    /\ v \in 0 .. MaxVersion
    /\ v # catalog
    /\ catalog' = v
    /\ TaskUnchanged
    /\ UNCHANGED <<available, scheduler, edit, now>>

Tick ==
    /\ now < Horizon
    /\ edit = NoEdit \/ EditMayWait
    /\ now' = now + 1
    /\ TaskUnchanged
    /\ UNCHANGED <<available, catalog, scheduler, edit>>

-----------------------------------------------------------------------------
(* AdmitDueTasks. *)

Scheduled(t) == Exists(t) /\ task[t].enabled /\ ~ task[t].archived
RetryDue(t) == Scheduled(t) /\ Pending(t) /\ task[t].retryAt \in 1 .. now
InstantDue(t) == Scheduled(t) /\ ~ Pending(t) /\ task[t].next \in 1 .. now

\* ORDER BY: pending occurrences first, each kind by the time it is due since.
Precedes(t, u) ==
    \/ RetryDue(t) /\ InstantDue(u)
    \/ RetryDue(t) /\ RetryDue(u) /\ task[t].retryAt < task[u].retryAt
    \/ InstantDue(t) /\ InstantDue(u) /\ task[t].next < task[u].next

ClaimedFirst(t) == \A u \in Task : ~ Precedes(u, t)

CurrentSnapshot(t) ==
    [generation |-> task[t].generation, repositories |-> task[t].repositories, workflow |-> 0]

At(step) == scheduler.at = step

\* claimDueTask resumes a pending occurrence with the snapshot it froze ...
ClaimPending(t) ==
    /\ At("idle")
    /\ RetryDue(t)
    /\ ClaimedFirst(t)
    /\ scheduler' = [at |-> "freeze", task |-> t, due |-> task[t].pending,
                     snapshot |-> task[t].snapshot]
    /\ TaskUnchanged
    /\ WorldUnchanged
    /\ UNCHANGED edit

\* ... or makes the due instant the pending occurrence.  next_due_at stays.
ClaimInstant(t) ==
    /\ At("idle")
    /\ InstantDue(t)
    /\ ClaimedFirst(t)
    /\ task' = [task EXCEPT ![t] = [@ EXCEPT !.pending = task[t].next,
                                            !.snapshot = CurrentSnapshot(t),
                                            !.retryAt = now,
                                            !.retries = 0]]
    /\ scheduler' = [at |-> "freeze", task |-> t, due |-> task[t].next,
                     snapshot |-> CurrentSnapshot(t)]
    /\ WorldUnchanged
    /\ UNCHANGED <<runs, edit>>

Finishing(outcome) ==
    [at |-> "finish", task |-> scheduler.task, due |-> scheduler.due, outcome |-> outcome]

PendingIs(t, due) == task[t].pending = due

\* Mistake: a retry reads the catalog again.
ReadsCatalogAgain(t, snapshot) == t \in WorkflowTasks

\* freezePendingTaskWorkflows returns early for a snapshot it froze before.
ReadsCatalog(t, snapshot) == t \in WorkflowTasks /\ snapshot.workflow = 0

KeepSnapshot ==
    /\ At("freeze")
    /\ ~ ReadsCatalog(scheduler.task, scheduler.snapshot)
    /\ scheduler' = [scheduler EXCEPT !.at = "admit"]
    /\ TaskUnchanged
    /\ WorldUnchanged
    /\ UNCHANGED edit

FreezePendingTaskWorkflows ==
    LET frozen == [scheduler.snapshot EXCEPT !.workflow = catalog] IN
    /\ At("freeze")
    /\ ReadsCatalog(scheduler.task, scheduler.snapshot)
    /\ catalog > 0
    /\ PendingIs(scheduler.task, scheduler.due)
    /\ task' = [task EXCEPT ![scheduler.task].snapshot = frozen]
    /\ scheduler' = [scheduler EXCEPT !.at = "admit", !.snapshot = frozen]
    /\ WorldUnchanged
    /\ UNCHANGED <<runs, edit>>

\* The workflow is not in the catalog or the occurrence changed, conflicts
\* both, or the store fails: nothing is permanent here.
FreezeRefused ==
    /\ At("freeze")
    /\ ReadsCatalog(scheduler.task, scheduler.snapshot)
    /\ scheduler' = Finishing("transient")
    /\ TaskUnchanged
    /\ WorldUnchanged
    /\ UNCHANGED edit

\* Mistake: the request key is built from the Task as it is now.
CurrentKey(t, due, snapshot) ==
    [task |-> t, generation |-> task[t].generation, due |-> due]

RequestKey(t, due, snapshot) ==
    [task |-> t, generation |-> snapshot.generation, due |-> due]

Admitted(key) ==
    \E run \in runs :
        [task |-> run.task, generation |-> run.generation, due |-> run.due] = key

SchedulerKey == RequestKey(scheduler.task, scheduler.due, scheduler.snapshot)

\* admitTask rereads the Task: a frozen snapshot must not start a paused,
\* archived or changed occurrence.
Startable(t, due) ==
    ~ task[t].archived /\ task[t].enabled /\ PendingIs(t, due)

\* After the commit the Run is read again to be the answer; when that read
\* fails, so does the admission, of an occurrence that was admitted.
RunRead == \E outcome \in {"admitted", "transient"} : scheduler' = Finishing(outcome)

\* The request key was used: the Run it started is the answer.
AdmitReplay ==
    /\ At("admit")
    /\ Admitted(SchedulerKey)
    /\ RunRead
    /\ TaskUnchanged
    /\ WorldUnchanged
    /\ UNCHANGED edit

AdmitTask ==
    /\ At("admit")
    /\ ~ Admitted(SchedulerKey)
    /\ Startable(scheduler.task, scheduler.due)
    /\ scheduler.snapshot.repositories \subseteq available
    /\ runs' = runs \cup {[task |-> SchedulerKey.task,
                           generation |-> SchedulerKey.generation,
                           due |-> SchedulerKey.due,
                           workflow |-> scheduler.snapshot.workflow,
                           admittedAt |-> now]}
    /\ RunRead
    /\ WorldUnchanged
    /\ UNCHANGED <<task, edit>>

\* permanentTaskAdmissionError: what is wrong with the Task or its snapshot
\* (archived, a repository not available, an invalid profile) is permanent;
\* a paused or changed occurrence and a failure of the store are not.
AdmitRefused(outcome) ==
    /\ At("admit")
    /\ ~ Admitted(SchedulerKey)
    /\ outcome = "permanent" =>
         task[scheduler.task].archived \/ Startable(scheduler.task, scheduler.due)
    /\ scheduler' = Finishing(outcome)
    /\ TaskUnchanged
    /\ WorldUnchanged
    /\ UNCHANGED edit

Delay(n) == IF n > MaxDelay THEN MaxDelay ELSE n

Settled(row) ==
    [row EXCEPT !.pending = 0, !.snapshot = NoSnapshot, !.retryAt = 0, !.retries = 0,
                !.code = ""]

\* Mistake: a permanent failure gives the occurrence up.
GivenUpRow(row) ==
    [Settled(row) EXCEPT !.next = NextInstant[row.cron][now], !.health = "blocked"]

\* Mistake: the retry time of an occurrence that is blocked is not cleared.
BlockedRowDue(row) == [row EXCEPT !.health = "blocked", !.code = "permanent"]

BlockedRow(row) ==
    [row EXCEPT !.retryAt = 0, !.health = "blocked", !.code = "permanent"]

AdmittedRow(row) ==
    [Settled(row) EXCEPT !.next = NextInstant[row.cron][now], !.health = "healthy"]

\* Mistake: the failures are not counted, so that the delay does not grow.
RetriedRowUncounted(row) ==
    [row EXCEPT !.retryAt = now + 1, !.health = "error", !.code = "transient"]

\* The count of retries is kept as far as the delay tells them apart.
RetriedRow(row) ==
    [row EXCEPT !.retryAt = now + Delay(row.retries + 1), !.retries = Delay(@ + 1),
                !.health = "error", !.code = "transient"]

FinishedRow(row, outcome) ==
    CASE outcome = "admitted" -> AdmittedRow(row)
      [] outcome = "permanent" -> BlockedRow(row)
      [] outcome = "transient" -> RetriedRow(row)

\* A refused occurrence of a paused or archived Task keeps its row.
Finishable(t, due, outcome) ==
    /\ PendingIs(t, due)
    /\ outcome # "admitted" => task[t].enabled /\ ~ task[t].archived

FinishTaskOccurrence ==
    /\ At("finish")
    /\ LET t == scheduler.task IN
       task' = IF Finishable(t, scheduler.due, scheduler.outcome)
               THEN [task EXCEPT ![t] = FinishedRow(@, scheduler.outcome)]
               ELSE task
    /\ scheduler' = Idle
    /\ WorldUnchanged
    /\ UNCHANGED <<runs, edit>>

\* The server stops and starts again, or a transaction of the loop fails and
\* AdmitDueTasks returns.  A request in flight is lost with the server.
SchedulerStops ==
    /\ ~ At("idle")
    /\ scheduler' = Idle
    /\ edit' \in {edit, NoEdit}
    /\ TaskUnchanged
    /\ WorldUnchanged

\* DiscardTaskOccurrence for the pending instant; another token conflicts, and
\* the token discarded last is answered again without a change.
DiscardedRow(row) ==
    [Settled(row) EXCEPT !.next = IF row.enabled THEN NextInstant[row.cron][now] ELSE 0,
                         !.discarded = row.pending,
                         !.health = TaskScheduleHealth(row.enabled)]

DiscardTaskOccurrence(t) ==
    /\ Pending(t)
    /\ task[t].health \in {"blocked", "disabled"}
    /\ task' = [task EXCEPT ![t] = DiscardedRow(@)]
    /\ WorldUnchanged
    /\ UNCHANGED <<runs, scheduler, edit>>

-----------------------------------------------------------------------------
OperatorStep ==
    \/ \E t \in Task, on \in BOOLEAN, c \in Cron \cup {NoCron}, R \in SUBSET Repository :
          NormalizeTask(t, on, c, R)
    \/ \E t \in Task : CreateTask(t) \/ UpdateTask(t)
    \/ EditRefused
    \/ \E t \in Task, archive \in BOOLEAN : SetTaskArchived(t, archive)
    \/ \E t \in Task : SetTaskOutcomeContract(t) \/ DiscardTaskOccurrence(t)
    \/ \E r \in Repository : DisableRepository(r) \/ EnableRepository(r)

ClaimDueTask == \E t \in Task : ClaimPending(t) \/ ClaimInstant(t)

FreezeStep == KeepSnapshot \/ FreezePendingTaskWorkflows \/ FreezeRefused

AdmitStep ==
    \/ AdmitReplay
    \/ AdmitTask
    \/ \E outcome \in {"transient", "permanent"} : AdmitRefused(outcome)

SchedulerStep ==
    \/ ClaimDueTask
    \/ FreezeStep
    \/ AdmitStep
    \/ FinishTaskOccurrence
    \/ SchedulerStops

Next ==
    \/ OperatorStep
    \/ SchedulerStep
    \/ \E v \in 0 .. MaxVersion : RefreshCatalog(v)
    \/ Tick

Spec == Init /\ [][Next]_vars

-----------------------------------------------------------------------------
(* Safety. *)

\* INV-5 of docs/tasks/design.md: one Task generation and scheduled instant
\* start at most one Run, whatever crashes, retries and edits come between the
\* claim of the occurrence, its admission and its end.
OneRunPerGeneration ==
    \A r1, r2 \in runs :
        r1.task = r2.task /\ r1.generation = r2.generation /\ r1.due = r2.due => r1 = r2

\* A scheduled occurrence cannot admit duplicate Runs (ARCHITECTURE.md:415):
\* one Task and instant, under whatever generation, start at most one Run.
OccurrenceRunsOnce ==
    \A r1, r2 \in runs : r1.task = r2.task /\ r1.due = r2.due => r1 = r2

\* No schedule falls silent: one that is on has a next instant or a pending
\* occurrence, and a pending occurrence is retried at some time or shows that
\* it waits for the operator, in a status in which it can be discarded.
\* (next_due_at, schedule_retry_at and the health columns are written by seven
\* different statements.)
ScheduleAlive ==
    \A t \in Task :
        /\ Scheduled(t) => Pending(t) \/ task[t].next > 0
        /\ Pending(t) /\ (task[t].retryAt = 0 \/ ~ Scheduled(t)) =>
              task[t].health = IF Scheduled(t) THEN "blocked" ELSE "disabled"

\* finishTaskOccurrence and DiscardTaskOccurrence parse the cron column: as
\* long as an occurrence is pending it must be there, or the occurrence could
\* never end.
PendingHasCron == \A t \in Task : Pending(t) => task[t].cron # NoCron

\* last_discarded_due_at is the audit record of an occurrence that never
\* started (docs/tasks/design.md:336-339).
DiscardedNeverRan ==
    \A t \in Task, r \in runs : r.task = t => task[t].discarded # r.due

\* next_due_at is the next unclaimed cron occurrence (docs/tasks/design.md:335,
\* 506): claiming an instant advances it.
NextIsUnclaimed ==
    \A t \in Task : Pending(t) => task[t].next # task[t].pending

\* INV-13 of docs/tasks/design.md: a pending occurrence keeps its due instant
\* until a Run was admitted for it, under the generation that was frozen with
\* it, or the operator discarded it.
PendingKept ==
    [][\A t \in Task :
          Pending(t) /\ task'[t].pending # task[t].pending =>
              /\ task'[t].pending = 0
              /\ \/ Admitted(RequestKey(t, task[t].pending, task[t].snapshot))
                 \/ task'[t].discarded = task[t].pending]_vars

\* The snapshot of an occurrence is frozen (docs/tasks/design.md:340): once its
\* workflow was read, a retry after a crash or a failed admission starts the
\* same generation with the same workflow.
FrozenSnapshotKept ==
    [][\A t \in Task :
          Pending(t) /\ task'[t].pending = task[t].pending =>
              /\ task'[t].snapshot.generation = task[t].snapshot.generation
              /\ task'[t].snapshot.repositories = task[t].snapshot.repositories
              /\ task[t].snapshot.workflow # 0 =>
                    task'[t].snapshot.workflow = task[t].snapshot.workflow]_vars

\* Recovery never admits a pending Run while the schedule is off or the Task is
\* archived, and what it admits is the occurrence the Task holds at that moment
\* (docs/tasks/design.md:525), though the scheduler decided on what it read
\* transactions ago.
AdmittedWhilePending ==
    [][\A r \in runs' \ runs :
          /\ Scheduled(r.task)
          /\ r.due = task[r.task].pending
          /\ r.generation = task[r.task].snapshot.generation
          /\ r.workflow = task[r.task].snapshot.workflow]_vars

=============================================================================
