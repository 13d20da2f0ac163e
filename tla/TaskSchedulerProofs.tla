------------------------- MODULE TaskSchedulerProofs -------------------------
(***************************************************************************)
(* Theorems about TaskScheduler for every set of Tasks, repositories and   *)
(* cron expressions, and every value of its bounds.                        *)
(***************************************************************************)
EXTENDS TaskScheduler, TLAPS

-----------------------------------------------------------------------------
(* The invariant of one row: what its schedule columns owe each other.     *)

\* Wherever the cron is parsed, it is there; what waits for the operator says
\* why, whether its schedule is on or off.
Sound(row) ==
    /\ row.enabled \/ row.pending > 0 => row.cron # NoCron
    /\ row.enabled => row.generation > 0 /\ ~ row.archived
    /\ row.enabled /\ row.pending = 0 => row.next > 0
    /\ row.pending > 0 /\ row.retryAt = 0 => row.code # ""
    /\ row.pending > 0 /\ row.retryAt = 0 /\ row.enabled => row.health = "blocked"
    /\ row.pending > 0 /\ ~ row.enabled => row.health = "disabled"

EditSound ==
    edit # NoEdit /\ edit.enabled => edit.cron # NoCron /\ edit.next > 0

Rows == EditSound /\ \A t \in Task : Sound(task[t])

TInv == TypeOK /\ Rows

LEMMA NextInstantType ==
    ASSUME NEW c \in Cron, NEW n \in 1 .. Horizon
    PROVE  NextInstant[c][n] \in Nat /\ NextInstant[c][n] > n /\ NextInstant[c][n] > 0
<1>1. n \in 0 .. Horizon
    BY ScheduleAssumption
<1> QED
    BY <1>1, ScheduleAssumption

LEMMA DelayType ==
    ASSUME NEW n \in Nat
    PROVE  Delay(n + 1) \in Nat \ {0}
BY ScheduleAssumption DEF Delay

\* Every operator that writes a row returns a row, and a sound one.
LEMMA EditedSound ==
    ASSUME NEW row \in TaskRow, Sound(row), row.generation > 0,
           NEW on \in BOOLEAN, NEW c \in Cron \cup {NoCron},
           NEW R \in SUBSET Repository, NEW n \in Nat,
           on => c # NoCron /\ n > 0, row.archived => ~ on
    PROVE  EditedRow(row, on, c, R, n) \in TaskRow /\ Sound(EditedRow(row, on, c, R, n))
<1> DEFINE new == EditedRow(row, on, c, R, n)
<1> DEFINE cron == IF row.pending > 0 /\ ~ on THEN row.cron ELSE c
           next == IF row.pending > 0 THEN row.next ELSE IF on THEN n ELSE 0
           health == IF on /\ PreservesBlocked(row) THEN "blocked"
                     ELSE TaskScheduleHealth(on)
           code == IF PreservesBlocked(row) THEN row.code ELSE ""
<1>a. cron \in Cron \cup {NoCron} /\ next \in Instant
    BY DEF TaskRow, Instant
<1>b. health \in Health
    BY DEF TaskScheduleHealth, Health
<1>c. code \in HealthCode
    BY DEF TaskRow, HealthCode
<1>d. row.generation + 1 \in Nat
    BY DEF TaskRow
<1>e. new = [row EXCEPT !.generation = row.generation + 1, !.enabled = on, !.cron = cron,
                       !.repositories = R, !.next = next, !.health = health, !.code = code]
    BY DEF EditedRow
<1>1. new \in TaskRow
    <2> HIDE DEF new, cron, next, health, code
    <2> QED
        BY <1>a, <1>b, <1>c, <1>d, <1>e DEF TaskRow
<1>f. /\ new.enabled = on /\ new.cron = cron /\ new.next = next
      /\ new.health = health /\ new.code = code /\ new.generation = row.generation + 1
      /\ new.pending = row.pending /\ new.retryAt = row.retryAt
      /\ new.archived = row.archived
    <2> HIDE DEF new, cron, next, health, code
    <2> QED
        BY <1>e DEF TaskRow
<1>g. row.generation + 1 > 0 /\ row.pending \in Nat /\ row.enabled \in BOOLEAN
    BY DEF TaskRow, Instant
<1>2. Sound(new)
    <2>1. new.enabled \/ new.pending > 0 => new.cron # NoCron
        BY <1>f, <1>g DEF Sound
    <2>2. new.enabled => new.generation > 0 /\ ~ new.archived
        BY <1>f, <1>g
    <2>3. new.enabled /\ new.pending = 0 => new.next > 0
        <3>1. on => n > 0
            OBVIOUS
        <3>2. row.pending = 0 => ~ (row.pending > 0)
            OBVIOUS
        <3> QED
            BY <3>1, <3>2, <1>f, Zenon
    <2>4. new.pending > 0 /\ new.retryAt = 0 =>
             new.code # "" /\ (new.enabled => new.health = "blocked")
        BY <1>f, <1>g DEF Sound, PreservesBlocked
    <2>5. new.pending > 0 /\ ~ new.enabled => new.health = "disabled"
        BY <1>f, <1>g DEF TaskScheduleHealth
    <2> QED
        <3> HIDE DEF new
        <3> QED
            BY <2>1, <2>2, <2>3, <2>4, <2>5 DEF Sound
<1> QED
    BY <1>1, <1>2

LEMMA AdmittedSound ==
    ASSUME NEW row \in TaskRow, Sound(row), row.pending > 0, now \in 1 .. Horizon
    PROVE  AdmittedRow(row) \in TaskRow /\ Sound(AdmittedRow(row))
<1> DEFINE n == NextInstant[row.cron][now]
<1>1. row.cron \in Cron
    BY DEF TaskRow, Sound
<1>2. n \in Nat /\ n > 0
    BY <1>1, NextInstantType
<1>3. AdmittedRow(row) \in TaskRow
    BY <1>2 DEF TaskRow, AdmittedRow, Settled, Snapshot, NoSnapshot, Health, HealthCode,
               Instant
<1>4. /\ AdmittedRow(row).pending = 0 /\ AdmittedRow(row).next = n
      /\ AdmittedRow(row).cron = row.cron /\ AdmittedRow(row).enabled = row.enabled
      /\ AdmittedRow(row).generation = row.generation
      /\ AdmittedRow(row).archived = row.archived
    BY DEF TaskRow, AdmittedRow, Settled
<1>5. ~ (AdmittedRow(row).pending > 0)
    BY <1>4
<1>6. row.cron # NoCron /\ (row.enabled => row.generation > 0 /\ ~ row.archived)
    BY <1>1, ScheduleAssumption, Zenon DEF Sound
<1>7. Sound(AdmittedRow(row))
    BY <1>2, <1>4, <1>5, <1>6, Zenon DEF Sound
<1> QED
    BY <1>3, <1>7

LEMMA DiscardedSound ==
    ASSUME NEW row \in TaskRow, Sound(row), row.pending > 0, now \in 1 .. Horizon
    PROVE  DiscardedRow(row) \in TaskRow /\ Sound(DiscardedRow(row))
<1> DEFINE n == NextInstant[row.cron][now]
<1>1. row.cron \in Cron
    BY DEF TaskRow, Sound
<1>2. n \in Nat /\ n > 0
    BY <1>1, NextInstantType
<1>3. DiscardedRow(row) \in TaskRow
    BY <1>2 DEF TaskRow, DiscardedRow, Settled, Snapshot, NoSnapshot, Health, HealthCode,
               Instant, TaskScheduleHealth
<1>4. /\ DiscardedRow(row).pending = 0
      /\ DiscardedRow(row).next = IF row.enabled THEN n ELSE 0
      /\ DiscardedRow(row).cron = row.cron /\ DiscardedRow(row).enabled = row.enabled
      /\ DiscardedRow(row).generation = row.generation
      /\ DiscardedRow(row).archived = row.archived
    BY DEF TaskRow, DiscardedRow, Settled
<1>5. ~ (DiscardedRow(row).pending > 0)
    BY <1>4
<1>6. row.cron # NoCron /\ (row.enabled => row.generation > 0 /\ ~ row.archived)
    BY <1>1, ScheduleAssumption, Zenon DEF Sound
<1>7. Sound(DiscardedRow(row))
    BY <1>2, <1>4, <1>5, <1>6, Zenon DEF Sound
<1> QED
    BY <1>3, <1>7

LEMMA RefusedSound ==
    ASSUME NEW row \in TaskRow, Sound(row), row.pending > 0, row.enabled,
           now \in 1 .. Horizon
    PROVE  /\ BlockedRow(row) \in TaskRow /\ Sound(BlockedRow(row))
           /\ RetriedRow(row) \in TaskRow /\ Sound(RetriedRow(row))
<1>1. BlockedRow(row) \in TaskRow /\ Sound(BlockedRow(row))
    BY DEF TaskRow, BlockedRow, Sound, Health, HealthCode, Instant
<1>2. Delay(row.retries + 1) \in Nat \ {0} /\ row.retries + 1 \in Nat
    BY DelayType DEF TaskRow
<1>3. now + Delay(row.retries + 1) \in Nat /\ now + Delay(row.retries + 1) > 0
    BY <1>2, ScheduleAssumption
<1>4. RetriedRow(row) \in TaskRow
    <2> DEFINE later == now + Delay(row.retries + 1)
               count == Delay(row.retries + 1)
    <2>1. RetriedRow(row) = [row EXCEPT !.retryAt = later, !.retries = count,
                                       !.health = "error", !.code = "transient"]
        BY DEF RetriedRow
    <2> HIDE DEF later, count
    <2>2. later \in Nat /\ count \in Nat
        BY <1>2, <1>3 DEF later, count
    <2> QED
        BY <2>1, <2>2 DEF TaskRow, Health, HealthCode, Instant
<1>5. /\ RetriedRow(row).retryAt = now + Delay(row.retries + 1)
      /\ RetriedRow(row).pending = row.pending /\ RetriedRow(row).enabled = row.enabled
      /\ RetriedRow(row).cron = row.cron /\ RetriedRow(row).next = row.next
      /\ RetriedRow(row).generation = row.generation
      /\ RetriedRow(row).archived = row.archived
    BY DEF TaskRow, RetriedRow
<1>6. RetriedRow(row).retryAt # 0
    BY <1>3, <1>5
<1>7. row.pending # 0
    OBVIOUS
<1>8. Sound(RetriedRow(row))
    BY <1>5, <1>6, <1>7, Zenon DEF Sound
<1> QED
    BY <1>1, <1>4, <1>8

-----------------------------------------------------------------------------
(* The state. *)

\* Where the scheduler is, decides what it remembers.
LEMMA SchedulerType ==
    ASSUME TypeOK
    PROVE  /\ At("freeze") \/ At("admit") => scheduler \in Step
           /\ At("finish") => scheduler \in Finish
BY DEF TypeOK, At, Idle, Step, Finish

\* A handler that writes the row of one Task.
LEMMA RowWritten ==
    ASSUME TInv, NEW t \in Task, NEW row \in TaskRow, Sound(row),
           task' = [task EXCEPT ![t] = row]
    PROVE  task' \in [Task -> TaskRow] /\ \A u \in Task : Sound(task'[u])
BY DEF TInv, TypeOK, Rows

LEMMA TInvInit == Init => TInv
<1> SUFFICES ASSUME Init PROVE TInv
    OBVIOUS
<1>1. NoTask \in TaskRow
    BY DEF NoTask, TaskRow, NoSnapshot, Snapshot, Health, HealthCode, Instant
<1>2. Sound(NoTask)
    BY DEF NoTask, Sound
<1>3. TypeOK
    BY <1>1, ScheduleAssumption DEF Init, TypeOK
<1> QED
    BY <1>2, <1>3 DEF Init, TInv, Rows, EditSound

LEMMA NormalizeInv ==
    ASSUME TInv, NEW t \in Task, NEW on \in BOOLEAN, NEW c \in Cron \cup {NoCron},
           NEW R \in SUBSET Repository, NormalizeTask(t, on, c, R)
    PROVE  TInv'
<1> DEFINE next == IF c = NoCron THEN 0 ELSE NextInstant[c][now]
<1>1. next \in Nat /\ (on => c # NoCron /\ next > 0)
    BY NextInstantType DEF NormalizeTask, TInv, TypeOK
<1>2. edit' = [task |-> t, expected |-> task[t].generation, enabled |-> on, cron |-> c,
               repositories |-> R, next |-> next]
    BY DEF NormalizeTask
<1> HIDE DEF next
<1>3. task[t].generation \in Nat
    BY DEF TInv, TypeOK, TaskRow
<1>4. edit' \in Edit
    BY <1>1, <1>2, <1>3 DEF Edit, Instant
<1>5. EditSound'
    BY <1>1, <1>2 DEF EditSound
<1> QED
    BY <1>4, <1>5
    DEF NormalizeTask, TaskUnchanged, WorldUnchanged, TInv, TypeOK, Rows

LEMMA CreateInv ==
    ASSUME TInv, NEW t \in Task, CreateTask(t)
    PROVE  TInv'
<1> DEFINE row == [NoTask EXCEPT !.generation = 1,
                                 !.enabled = edit.enabled,
                                 !.cron = edit.cron,
                                 !.repositories = edit.repositories,
                                 !.next = IF edit.enabled THEN edit.next ELSE 0,
                                 !.health = TaskScheduleHealth(edit.enabled)]
<1>1. edit \in Edit
    BY DEF CreateTask, TInv, TypeOK
<1>2. row \in TaskRow
    BY <1>1 DEF Edit, NoTask, TaskRow, NoSnapshot, Snapshot, Health, HealthCode, Instant,
                TaskScheduleHealth
<1>3. /\ row.generation = 1 /\ row.enabled = edit.enabled /\ row.cron = edit.cron
      /\ row.next = (IF edit.enabled THEN edit.next ELSE 0) /\ row.pending = 0
      /\ row.archived = FALSE
    BY DEF NoTask
<1>4. edit.enabled => edit.cron # NoCron /\ edit.next > 0
    BY DEF CreateTask, TInv, Rows, EditSound
<1>5. row.generation > 0 /\ ~ (row.pending > 0)
    BY <1>3
<1>6. Sound(row)
    <2> HIDE DEF row
    <2> QED
        BY <1>3, <1>4, <1>5, Zenon DEF Sound
<1>7. task' = [task EXCEPT ![t] = row]
    BY DEF CreateTask
<1>8. task' \in [Task -> TaskRow] /\ \A u \in Task : Sound(task'[u])
    BY <1>2, <1>6, <1>7, RowWritten
<1> QED
    BY <1>8 DEF CreateTask, WorldUnchanged, TInv, TypeOK, Rows, EditSound

LEMMA UpdateInv ==
    ASSUME TInv, NEW t \in Task, UpdateTask(t)
    PROVE  TInv'
<1> DEFINE row == EditedRow(task[t], edit.enabled, edit.cron, edit.repositories, edit.next)
<1>1. edit \in Edit
    BY DEF UpdateTask, TInv, TypeOK
<1>2. /\ edit.enabled \in BOOLEAN /\ edit.cron \in Cron \cup {NoCron}
      /\ edit.repositories \in SUBSET Repository /\ edit.next \in Nat
    BY <1>1 DEF Edit, Instant
<1>3. edit.enabled => edit.cron # NoCron /\ edit.next > 0
    BY DEF UpdateTask, TInv, Rows, EditSound
<1>4. task[t] \in TaskRow /\ Sound(task[t]) /\ task[t].generation > 0
    BY DEF UpdateTask, Exists, TInv, TypeOK, Rows
<1>5. task[t].archived => ~ edit.enabled
    BY DEF UpdateTask
<1>6. row \in TaskRow /\ Sound(row)
    BY <1>2, <1>3, <1>4, <1>5, EditedSound
<1>7. task' = [task EXCEPT ![t] = row]
    BY DEF UpdateTask
<1> HIDE DEF row
<1>8. task' \in [Task -> TaskRow] /\ \A u \in Task : Sound(task'[u])
    BY <1>6, <1>7, RowWritten
<1> QED
    BY <1>8 DEF UpdateTask, WorldUnchanged, TInv, TypeOK, Rows, EditSound

LEMMA RefusedInv ==
    ASSUME TInv, EditRefused
    PROVE  TInv'
BY DEF EditRefused, TaskUnchanged, WorldUnchanged, TInv, TypeOK, Rows, EditSound

LEMMA ArchiveInv ==
    ASSUME TInv, NEW t \in Task, NEW archive \in BOOLEAN, SetTaskArchived(t, archive)
    PROVE  TInv'
<1> DEFINE row == ArchivedRow(task[t], archive)
<1>1. task[t] \in TaskRow /\ Sound(task[t]) /\ task[t].generation \in Nat
    BY DEF TInv, TypeOK, Rows, TaskRow
<1>2. row \in TaskRow
    <2> DEFINE enabled == IF archive THEN FALSE ELSE task[t].enabled
               next == IF archive THEN 0 ELSE task[t].next
               health == IF archive THEN "disabled" ELSE task[t].health
    <2>1. enabled \in BOOLEAN
        BY <1>1, Zenon DEF TaskRow
    <2>2. next \in Instant /\ health \in Health
        BY <1>1 DEF TaskRow, Instant, Health
    <2>3. row = [task[t] EXCEPT !.generation = task[t].generation + 1,
                                !.archived = archive, !.enabled = enabled,
                                !.next = next, !.health = health]
        BY DEF ArchivedRow
    <2> HIDE DEF row, enabled, next, health
    <2>4. task[t].generation + 1 \in Nat
        BY <1>1
    <2> QED
        BY <1>1, <2>1, <2>2, <2>3, <2>4 DEF TaskRow
<1>3. /\ row.generation = task[t].generation + 1
      /\ row.enabled = (IF archive THEN FALSE ELSE task[t].enabled)
      /\ row.archived = archive /\ row.cron = task[t].cron
      /\ row.next = (IF archive THEN 0 ELSE task[t].next)
      /\ row.pending = task[t].pending /\ row.retryAt = task[t].retryAt
      /\ row.health = (IF archive THEN "disabled" ELSE task[t].health)
      /\ row.code = task[t].code
    BY <1>1 DEF TaskRow, ArchivedRow
<1>4. row.generation > 0
    BY <1>1, <1>3
<1>5. Sound(row)
    <2> HIDE DEF row
    <2> QED
        BY <1>1, <1>3, <1>4, Zenon DEF Sound
<1>6. task' = [task EXCEPT ![t] = row]
    BY DEF SetTaskArchived
<1>7. task' \in [Task -> TaskRow] /\ \A u \in Task : Sound(task'[u])
    BY <1>2, <1>5, <1>6, RowWritten
<1> QED
    BY <1>7 DEF SetTaskArchived, WorldUnchanged, TInv, TypeOK, Rows, EditSound

LEMMA ContractInv ==
    ASSUME TInv, NEW t \in Task, SetTaskOutcomeContract(t)
    PROVE  TInv'
<1> DEFINE row == [task[t] EXCEPT !.generation = task[t].generation + 1]
<1>1. task[t] \in TaskRow /\ Sound(task[t]) /\ task[t].generation \in Nat
    BY DEF TInv, TypeOK, Rows, TaskRow
<1>2. row \in TaskRow
    BY <1>1 DEF TaskRow
<1>3. /\ row.generation = task[t].generation + 1
      /\ row.enabled = task[t].enabled /\ row.archived = task[t].archived
      /\ row.cron = task[t].cron /\ row.next = task[t].next
      /\ row.pending = task[t].pending /\ row.retryAt = task[t].retryAt
      /\ row.health = task[t].health /\ row.code = task[t].code
    BY <1>1 DEF TaskRow
<1>4. row.generation > 0
    BY <1>1, <1>3
<1>5. Sound(row)
    <2> HIDE DEF row
    <2> QED
        BY <1>1, <1>3, <1>4, Zenon DEF Sound
<1>6. task' = [task EXCEPT ![t] = row]
    BY DEF SetTaskOutcomeContract
<1>7. task' \in [Task -> TaskRow] /\ \A u \in Task : Sound(task'[u])
    BY <1>2, <1>5, <1>6, RowWritten
<1> QED
    BY <1>7 DEF SetTaskOutcomeContract, WorldUnchanged, TInv, TypeOK, Rows, EditSound

LEMMA DiscardInv ==
    ASSUME TInv, NEW t \in Task, DiscardTaskOccurrence(t)
    PROVE  TInv'
<1>1. task[t] \in TaskRow /\ Sound(task[t]) /\ task[t].pending > 0 /\ now \in 1 .. Horizon
    BY DEF DiscardTaskOccurrence, Pending, TInv, TypeOK, Rows
<1>2. DiscardedRow(task[t]) \in TaskRow /\ Sound(DiscardedRow(task[t]))
    BY <1>1, DiscardedSound
<1>3. task' = [task EXCEPT ![t] = DiscardedRow(task[t])]
    BY DEF DiscardTaskOccurrence
<1>4. task' \in [Task -> TaskRow] /\ \A u \in Task : Sound(task'[u])
    BY <1>2, <1>3, RowWritten
<1> QED
    BY <1>4 DEF DiscardTaskOccurrence, WorldUnchanged, TInv, TypeOK, Rows, EditSound

\* The health of a schedule that is on, with nothing pending or to be blocked.
LEMMA HealthSound ==
    ASSUME NEW row \in TaskRow, Sound(row), row.enabled,
           NEW h \in Health, NEW c \in HealthCode,
           row.pending > 0 => h = "blocked" /\ c # ""
    PROVE  LET new == [row EXCEPT !.health = h, !.code = c]
           IN  new \in TaskRow /\ Sound(new)
<1> DEFINE new == [row EXCEPT !.health = h, !.code = c]
<1>1. new \in TaskRow
    BY DEF TaskRow
<1>2. /\ new.enabled = row.enabled /\ new.archived = row.archived
      /\ new.cron = row.cron /\ new.next = row.next
      /\ new.pending = row.pending /\ new.retryAt = row.retryAt
      /\ new.generation = row.generation /\ new.health = h /\ new.code = c
    BY DEF TaskRow
<1>3. Sound(new)
    <2> HIDE DEF new
    <2> QED
        BY <1>2, Zenon DEF Sound
<1> QED
    BY <1>1, <1>3

LEMMA DisableInv ==
    ASSUME TInv, NEW r \in Repository, DisableRepository(r)
    PROVE  TInv'
<1>1. ASSUME NEW t \in Task
      PROVE  task'[t] \in TaskRow /\ Sound(task'[t])
    <2>1. task[t] \in TaskRow /\ Sound(task[t])
        BY DEF TInv, TypeOK, Rows
    <2>2. CASE task[t].enabled /\ r \in task[t].repositories
        <3>1. task'[t] = [task[t] EXCEPT !.health = "blocked", !.code = "repository_disabled"]
            BY <2>2 DEF DisableRepository
        <3> QED
            BY <2>1, <2>2, <3>1, HealthSound DEF Health, HealthCode
    <2>3. CASE ~ (task[t].enabled /\ r \in task[t].repositories)
        BY <2>1, <2>3 DEF DisableRepository
    <2> QED
        BY <2>2, <2>3
<1>2. task' = [t \in Task |-> task'[t]]
    BY DEF DisableRepository
<1> QED
    BY <1>1, <1>2 DEF DisableRepository, TInv, TypeOK, Rows, EditSound

LEMMA EnableInv ==
    ASSUME TInv, NEW r \in Repository, EnableRepository(r)
    PROVE  TInv'
<1> DEFINE healed(t) == task[t].enabled /\ ~ Pending(t) /\ r \in task[t].repositories
<1>1. ASSUME NEW t \in Task
      PROVE  task'[t] \in TaskRow /\ Sound(task'[t])
    <2>1. task[t] \in TaskRow /\ Sound(task[t])
        BY DEF TInv, TypeOK, Rows
    <2>2. CASE healed(t)
        <3>1. task'[t] = [task[t] EXCEPT !.health = "healthy", !.code = ""]
            BY <2>2 DEF EnableRepository
        <3> QED
            BY <2>1, <2>2, <3>1, HealthSound DEF Health, HealthCode, Pending
    <2>3. CASE ~ healed(t)
        BY <2>1, <2>3 DEF EnableRepository
    <2> QED
        BY <2>2, <2>3
<1>2. task' = [t \in Task |-> task'[t]]
    BY DEF EnableRepository
<1> QED
    BY <1>1, <1>2 DEF EnableRepository, TInv, TypeOK, Rows, EditSound

LEMMA WorldInv ==
    ASSUME TInv, (\E v \in 0 .. MaxVersion : RefreshCatalog(v)) \/ Tick
    PROVE  TInv'
<1>1. CASE \E v \in 0 .. MaxVersion : RefreshCatalog(v)
    BY <1>1, ScheduleAssumption
    DEF RefreshCatalog, TaskUnchanged, TInv, TypeOK, Rows, EditSound
<1>2. CASE Tick
    <2>1. now' \in 1 .. Horizon
        BY <1>2, ScheduleAssumption DEF Tick, TInv, TypeOK
    <2> QED
        BY <1>2, <2>1 DEF Tick, TaskUnchanged, TInv, TypeOK, Rows, EditSound
<1> QED
    BY <1>1, <1>2

-----------------------------------------------------------------------------
(* The scheduler loop. *)

LEMMA ClaimInv ==
    ASSUME TInv, ClaimDueTask
    PROVE  TInv'
<1> PICK t \in Task : ClaimPending(t) \/ ClaimInstant(t)
    BY DEF ClaimDueTask
<1>1. /\ task[t] \in TaskRow /\ Sound(task[t]) /\ now \in 1 .. Horizon /\ now \in Nat
      /\ now > 0 /\ scheduler \in {Idle} \cup Step \cup Finish
    BY ScheduleAssumption DEF TInv, TypeOK, Rows
<1>2. CASE ClaimPending(t)
    <2>1. task[t].pending \in Instant \ {0} /\ task[t].snapshot \in Snapshot
        BY <1>1, <1>2 DEF ClaimPending, RetryDue, Pending, TaskRow, Instant
    <2>2. scheduler' \in Step
        BY <1>2, <2>1 DEF ClaimPending, Step
    <2> QED
        BY <1>2, <2>2
        DEF ClaimPending, TaskUnchanged, WorldUnchanged, TInv, TypeOK, Rows, EditSound
<1>3. CASE ClaimInstant(t)
    <2> DEFINE row == [task[t] EXCEPT !.pending = task[t].next,
                                      !.snapshot = CurrentSnapshot(t),
                                      !.retryAt = now,
                                      !.retries = 0]
    <2>1. CurrentSnapshot(t) \in Snapshot
        BY <1>1 DEF CurrentSnapshot, Snapshot, TaskRow
    <2>2. task[t].next \in Instant \ {0} /\ task[t].next > 0 /\ task[t].enabled
        BY <1>1, <1>3 DEF ClaimInstant, InstantDue, Scheduled, TaskRow, Instant
    <2>3. row \in TaskRow
        BY <1>1, <2>1, <2>2 DEF TaskRow, Instant
    <2>4. /\ row.generation = task[t].generation
          /\ row.enabled = task[t].enabled /\ row.archived = task[t].archived
          /\ row.cron = task[t].cron /\ row.next = task[t].next
          /\ row.pending = task[t].next /\ row.retryAt = now
        BY <1>1 DEF TaskRow
    <2>5. row.pending > 0 /\ row.pending # 0 /\ row.retryAt # 0
        BY <1>1, <2>2, <2>4
    <2>6. Sound(row)
        <3> HIDE DEF row
        <3> QED
            BY <1>1, <2>2, <2>4, <2>5, Zenon DEF Sound
    <2>7. task' = [task EXCEPT ![t] = row]
        BY <1>3 DEF ClaimInstant
    <2>8. task' \in [Task -> TaskRow] /\ \A u \in Task : Sound(task'[u])
        BY <2>3, <2>6, <2>7, RowWritten
    <2>9. scheduler' \in Step
        BY <1>3, <2>1, <2>2 DEF ClaimInstant, Step
    <2> QED
        BY <1>3, <2>8, <2>9
        DEF ClaimInstant, WorldUnchanged, TInv, TypeOK, Rows, EditSound
<1> QED
    BY <1>2, <1>3

LEMMA FinishingType ==
    ASSUME scheduler \in Step, NEW outcome \in {"admitted", "transient", "permanent"}
    PROVE  Finishing(outcome) \in Finish
BY DEF Step, Finish, Finishing

LEMMA FreezeInv ==
    ASSUME TInv, FreezeStep
    PROVE  TInv'
<1>1. scheduler \in Step /\ At("freeze")
    BY SchedulerType
    DEF FreezeStep, KeepSnapshot, FreezePendingTaskWorkflows, FreezeRefused, TInv
<1>2. CASE KeepSnapshot
    <2>1. scheduler' \in Step
        BY <1>1, <1>2 DEF KeepSnapshot, Step
    <2> QED
        BY <1>2, <2>1
        DEF KeepSnapshot, TaskUnchanged, WorldUnchanged, TInv, TypeOK, Rows, EditSound
<1>3. CASE FreezePendingTaskWorkflows
    <2> DEFINE t == scheduler.task
               frozen == [scheduler.snapshot EXCEPT !.workflow = catalog]
               row == [task[t] EXCEPT !.snapshot = frozen]
    <2>1. t \in Task /\ scheduler.snapshot \in Snapshot /\ catalog \in Nat
        BY <1>1 DEF Step, TInv, TypeOK
    <2>2. frozen \in Snapshot
        BY <2>1 DEF Snapshot
    <2>3. task[t] \in TaskRow /\ Sound(task[t])
        BY <2>1 DEF TInv, TypeOK, Rows
    <2>4. task' = [task EXCEPT ![t] = row]
        BY <1>3, <2>1 DEF FreezePendingTaskWorkflows, TInv, TypeOK
    <2>5. scheduler' = [scheduler EXCEPT !.at = "admit", !.snapshot = frozen]
        BY <1>3 DEF FreezePendingTaskWorkflows
    <2> HIDE DEF frozen
    <2>6. row \in TaskRow
        BY <2>2, <2>3 DEF TaskRow
    <2>7. /\ row.generation = task[t].generation
          /\ row.enabled = task[t].enabled /\ row.archived = task[t].archived
          /\ row.cron = task[t].cron /\ row.next = task[t].next
          /\ row.pending = task[t].pending /\ row.retryAt = task[t].retryAt
          /\ row.health = task[t].health /\ row.code = task[t].code
        BY <2>3 DEF TaskRow
    <2>8. Sound(row)
        <3> HIDE DEF row, t
        <3> QED
            BY <2>3, <2>7, Zenon DEF Sound
    <2>9. task' \in [Task -> TaskRow] /\ \A u \in Task : Sound(task'[u])
        <3> HIDE DEF row, t
        <3> QED
            BY <2>1, <2>4, <2>6, <2>8, RowWritten
    <2>10. scheduler' \in Step
        BY <1>1, <2>2, <2>5 DEF Step
    <2> QED
        BY <1>3, <2>9, <2>10
        DEF FreezePendingTaskWorkflows, WorldUnchanged, TInv, TypeOK, Rows, EditSound
<1>4. CASE FreezeRefused
    <2>1. scheduler' \in Finish
        BY <1>1, <1>4, FinishingType DEF FreezeRefused
    <2> QED
        BY <1>4, <2>1
        DEF FreezeRefused, TaskUnchanged, WorldUnchanged, TInv, TypeOK, Rows, EditSound
<1> QED
    BY <1>2, <1>3, <1>4 DEF FreezeStep

LEMMA AdmitInv ==
    ASSUME TInv, AdmitStep
    PROVE  TInv'
<1>1. scheduler \in Step
    BY SchedulerType DEF AdmitStep, AdmitReplay, AdmitTask, RunRead, AdmitRefused, TInv
<1>2. CASE AdmitReplay
    <2>1. scheduler' \in Finish
        BY <1>1, <1>2, FinishingType DEF AdmitReplay, RunRead
    <2> QED
        BY <1>2, <2>1
        DEF AdmitReplay, RunRead, TaskUnchanged, WorldUnchanged, TInv, TypeOK, Rows, EditSound
<1>3. CASE AdmitTask
    <2>1. scheduler' \in Finish
        BY <1>1, <1>3, FinishingType DEF AdmitTask, RunRead
    <2> DEFINE run == [task |-> SchedulerKey.task, generation |-> SchedulerKey.generation,
                       due |-> SchedulerKey.due,
                       workflow |-> scheduler.snapshot.workflow, admittedAt |-> now]
    <2>2. run \in ScheduledRun
        BY <1>1, ScheduleAssumption
        DEF ScheduledRun, SchedulerKey, RequestKey, Step, Snapshot, Instant, TInv, TypeOK
    <2>3. runs' = runs \cup {run}
        BY <1>3 DEF AdmitTask, RunRead
    <2> HIDE DEF run
    <2>4. runs' \subseteq ScheduledRun
        BY <2>2, <2>3 DEF TInv, TypeOK
    <2> QED
        BY <1>3, <2>1, <2>4
        DEF AdmitTask, RunRead, WorldUnchanged, TInv, TypeOK, Rows, EditSound
<1>4. CASE \E outcome \in {"transient", "permanent"} : AdmitRefused(outcome)
    <2>1. scheduler' \in Finish
        BY <1>1, <1>4, FinishingType DEF AdmitRefused
    <2> QED
        BY <1>4, <2>1
        DEF AdmitRefused, TaskUnchanged, WorldUnchanged, TInv, TypeOK, Rows, EditSound
<1> QED
    BY <1>2, <1>3, <1>4 DEF AdmitStep

LEMMA FinishInv ==
    ASSUME TInv, FinishTaskOccurrence
    PROVE  TInv'
<1> DEFINE t == scheduler.task
           row == FinishedRow(task[t], scheduler.outcome)
<1>1. /\ t \in Task /\ scheduler.due \in Nat \ {0}
      /\ scheduler.outcome \in {"admitted", "transient", "permanent"}
    BY SchedulerType DEF FinishTaskOccurrence, Finish, Instant, TInv
<1>2. task[t] \in TaskRow /\ Sound(task[t]) /\ now \in 1 .. Horizon
    BY <1>1 DEF TInv, TypeOK, Rows
<1>3. task' \in [Task -> TaskRow] /\ \A u \in Task : Sound(task'[u])
    <2>1. CASE Finishable(t, scheduler.due, scheduler.outcome)
        <3>1. task[t].pending > 0
            BY <1>1, <2>1 DEF Finishable, PendingIs
        <3>2. row \in TaskRow /\ Sound(row)
            <4>1. CASE scheduler.outcome = "admitted"
                <5>1. row = AdmittedRow(task[t])
                    BY <4>1 DEF FinishedRow
                <5> QED
                    BY <1>2, <3>1, <5>1, AdmittedSound
            <4>2. CASE scheduler.outcome # "admitted"
                <5>1. task[t].enabled
                    BY <2>1, <4>2 DEF Finishable
                <5>2. row = BlockedRow(task[t]) \/ row = RetriedRow(task[t])
                    BY <1>1, <4>2 DEF FinishedRow
                <5> HIDE DEF row
                <5> QED
                    BY <1>2, <3>1, <5>1, <5>2, RefusedSound
            <4> QED
                BY <4>1, <4>2
        <3>3. task' = [task EXCEPT ![t] = row]
            BY <2>1 DEF FinishTaskOccurrence
        <3> HIDE DEF row, t
        <3> QED
            BY <1>1, <3>2, <3>3, RowWritten
    <2>2. CASE ~ Finishable(t, scheduler.due, scheduler.outcome)
        BY <2>2 DEF FinishTaskOccurrence, TInv, TypeOK, Rows
    <2> QED
        BY <2>1, <2>2
<1> QED
    BY <1>3 DEF FinishTaskOccurrence, WorldUnchanged, TInv, TypeOK, Rows, EditSound

LEMMA StopInv ==
    ASSUME TInv, SchedulerStops
    PROVE  TInv'
BY DEF SchedulerStops, TaskUnchanged, WorldUnchanged, TInv, TypeOK, Rows, EditSound

LEMMA TInvStep == TInv /\ [Next]_vars => TInv'
<1> SUFFICES ASSUME TInv, [Next]_vars PROVE TInv'
    OBVIOUS
<1>1. CASE OperatorStep
    BY <1>1, NormalizeInv, CreateInv, UpdateInv, RefusedInv, ArchiveInv, ContractInv,
       DiscardInv, DisableInv, EnableInv DEF OperatorStep
<1>2. CASE SchedulerStep
    BY <1>2, ClaimInv, FreezeInv, AdmitInv, FinishInv, StopInv DEF SchedulerStep
<1>3. CASE (\E v \in 0 .. MaxVersion : RefreshCatalog(v)) \/ Tick
    BY <1>3, WorldInv
<1>4. CASE UNCHANGED vars
    BY <1>4 DEF vars, TInv, TypeOK, Rows, EditSound
<1> QED
    BY <1>1, <1>2, <1>3, <1>4 DEF Next

\* Every handler keeps the tasks table within its schema, whatever the cron
\* expressions, the clock and the number of Tasks.
THEOREM TypeCorrect == Spec => []TypeOK
<1>1. TInv => TypeOK
    BY DEF TInv
<1> QED
    BY <1>1, TInvInit, TInvStep, PTL DEF Spec

\* A pending occurrence always has the cron that finishTaskOccurrence and
\* DiscardTaskOccurrence parse.
THEOREM PendingHasCronCorrect == Spec => []PendingHasCron
<1>1. TInv => PendingHasCron
    BY DEF TInv, Rows, Sound, Pending, PendingHasCron
<1> QED
    BY <1>1, TInvInit, TInvStep, PTL DEF Spec

\* No edit, pause, repository change or failed admission leaves a schedule that
\* is on without a next instant, or an occurrence without a retry and without a
\* status in which it can be discarded.
THEOREM ScheduleAliveCorrect == Spec => []ScheduleAlive
<1>1. TInv => ScheduleAlive
    <2> SUFFICES ASSUME TInv, NEW t \in Task
                 PROVE  /\ Scheduled(t) => Pending(t) \/ task[t].next > 0
                        /\ Pending(t) /\ (task[t].retryAt = 0 \/ ~ Scheduled(t)) =>
                              task[t].health = IF Scheduled(t) THEN "blocked"
                                               ELSE "disabled"
        BY DEF ScheduleAlive
    <2>1. Sound(task[t]) /\ task[t] \in TaskRow
        BY DEF TInv, TypeOK, Rows
    <2>2. Scheduled(t) <=> task[t].enabled
        BY <2>1, Zenon DEF Sound, Scheduled, Exists
    <2>3. ~ Pending(t) => task[t].pending = 0
        BY <2>1 DEF Pending, TaskRow, Instant
    <2> QED
        BY <2>1, <2>2, <2>3, Zenon DEF Sound, Pending
<1> QED
    BY <1>1, TInvInit, TInvStep, PTL DEF Spec

-----------------------------------------------------------------------------
(* An occurrence from its claim to its end: what the scheduler remembers   *)
(* between its transactions still agrees with the row when it is used.     *)
(*                                                                         *)
(* The inductive invariant relates the local variables of AdmitDueTasks to *)
(* the row: as long as the row still holds the occurrence the scheduler    *)
(* handles, it holds the same snapshot; and when admission succeeded the   *)
(* Run of that snapshot is there.                                          *)

PendingExists == \A t \in Task : Pending(t) => Exists(t)

SameSnapshot ==
    scheduler.at \in {"freeze", "admit"} /\ PendingIs(scheduler.task, scheduler.due) =>
        task[scheduler.task].snapshot = scheduler.snapshot

AdmittedFound ==
    /\ scheduler.at = "finish"
    /\ scheduler.outcome = "admitted"
    /\ PendingIs(scheduler.task, scheduler.due)
    => Admitted(RequestKey(scheduler.task, scheduler.due, task[scheduler.task].snapshot))

SInv == PendingExists /\ SameSnapshot /\ AdmittedFound

OInv == TInv /\ SInv

LEMMA OInvInit == Init => OInv
<1> SUFFICES ASSUME Init PROVE OInv
    OBVIOUS
<1>1. TInv
    BY TInvInit
<1>2. PendingExists
    <2>1. \A t \in Task : task[t].pending = 0
        BY DEF Init, NoTask
    <2> QED
        BY <2>1 DEF PendingExists, Pending
<1>3. scheduler.at = "idle"
    BY DEF Init, Idle
<1> QED
    BY <1>1, <1>2, <1>3 DEF OInv, SInv, SameSnapshot, AdmittedFound

-----------------------------------------------------------------------------
(* No handler but the scheduler's changes an occurrence, except to discard *)
(* it.                                                                     *)

Keeps(t) ==
    /\ task'[t].pending = task[t].pending
    /\ Pending(t) => task'[t].snapshot = task[t].snapshot

Discards(t) == task'[t].pending = 0 /\ task'[t].discarded = task[t].pending

LEMMA RowChanged ==
    ASSUME TInv, NEW t \in Task, NEW row, task' = [task EXCEPT ![t] = row],
           task[t].generation > 0 => row.generation > 0,
           \/ /\ row.pending = task[t].pending
              /\ Pending(t) => row.snapshot = task[t].snapshot
           \/ row.pending = 0 /\ row.discarded = task[t].pending
    PROVE  \A u \in Task : (Keeps(u) \/ Discards(u)) /\ (Exists(u) => Exists(u)')
<1>1. \A u \in Task : task'[u] = IF u = t THEN row ELSE task[u]
    BY DEF TInv, TypeOK
<1> QED
    BY <1>1 DEF Keeps, Discards, Exists

LEMMA RowsKept ==
    ASSUME UNCHANGED task
    PROVE  \A u \in Task : (Keeps(u) \/ Discards(u)) /\ (Exists(u) => Exists(u)')
BY DEF Keeps, Exists

LEMMA OperatorKeeps ==
    ASSUME OInv, OperatorStep
    PROVE  /\ UNCHANGED <<runs, scheduler>>
           /\ \A u \in Task : (Keeps(u) \/ Discards(u)) /\ (Exists(u) => Exists(u)')
<1> DEFINE kept ==
        /\ UNCHANGED <<runs, scheduler>>
        /\ \A u \in Task : (Keeps(u) \/ Discards(u)) /\ (Exists(u) => Exists(u)')
<1>0. TInv /\ PendingExists /\ task \in [Task -> TaskRow]
    BY DEF OInv, SInv, TInv, TypeOK
<1>1. ASSUME \/ \E t \in Task, on \in BOOLEAN, c \in Cron \cup {NoCron},
                   R \in SUBSET Repository : NormalizeTask(t, on, c, R)
             \/ EditRefused
      PROVE  kept
    BY <1>1, RowsKept DEF NormalizeTask, EditRefused, TaskUnchanged
<1>2. ASSUME NEW t \in Task, CreateTask(t)
      PROVE  kept
    <2> DEFINE row == [NoTask EXCEPT !.generation = 1,
                                 !.enabled = edit.enabled,
                                 !.cron = edit.cron,
                                 !.repositories = edit.repositories,
                                 !.next = IF edit.enabled THEN edit.next ELSE 0,
                                 !.health = TaskScheduleHealth(edit.enabled)]
    <2>1. row.generation > 0 /\ row.pending = 0
        BY DEF NoTask
    <2>2. task' = [task EXCEPT ![t] = row]
        BY <1>2 DEF CreateTask
    <2>3. ~ Pending(t) /\ task[t].pending = 0
        BY <1>0, <1>2 DEF CreateTask, PendingExists, Pending, TaskRow, Instant
    <2> HIDE DEF row
    <2>4. \A u \in Task : (Keeps(u) \/ Discards(u)) /\ (Exists(u) => Exists(u)')
        BY <1>0, <2>1, <2>2, <2>3, RowChanged
    <2> QED
        BY <1>2, <2>4 DEF CreateTask
<1>3. ASSUME NEW t \in Task, UpdateTask(t)
      PROVE  kept
    <2> DEFINE row == EditedRow(task[t], edit.enabled, edit.cron, edit.repositories, edit.next)
    <2>1. /\ row.generation = task[t].generation + 1
          /\ row.pending = task[t].pending /\ row.snapshot = task[t].snapshot
        BY <1>0 DEF EditedRow, TaskRow
    <2>2. task' = [task EXCEPT ![t] = row]
        BY <1>3 DEF UpdateTask
    <2>3. row.generation > 0
        BY <1>0, <2>1 DEF TaskRow
    <2> HIDE DEF row
    <2> QED
        BY <1>0, <1>3, <2>1, <2>2, <2>3, RowChanged DEF UpdateTask
<1>4. ASSUME NEW t \in Task, NEW archive \in BOOLEAN, SetTaskArchived(t, archive)
      PROVE  kept
    <2> DEFINE row == ArchivedRow(task[t], archive)
    <2>1. /\ row.generation = task[t].generation + 1
          /\ row.pending = task[t].pending /\ row.snapshot = task[t].snapshot
        BY <1>0 DEF ArchivedRow, TaskRow
    <2>2. task' = [task EXCEPT ![t] = row]
        BY <1>4 DEF SetTaskArchived
    <2>3. row.generation > 0
        BY <1>0, <2>1 DEF TaskRow
    <2> HIDE DEF row
    <2> QED
        BY <1>0, <1>4, <2>1, <2>2, <2>3, RowChanged DEF SetTaskArchived
<1>5. ASSUME NEW t \in Task, SetTaskOutcomeContract(t)
      PROVE  kept
    <2> DEFINE row == [task[t] EXCEPT !.generation = task[t].generation + 1]
    <2>1. /\ row.generation = task[t].generation + 1
          /\ row.pending = task[t].pending /\ row.snapshot = task[t].snapshot
        BY <1>0 DEF TaskRow
    <2>2. task' = [task EXCEPT ![t] = row]
        BY <1>5 DEF SetTaskOutcomeContract
    <2>3. row.generation > 0
        BY <1>0, <2>1 DEF TaskRow
    <2> HIDE DEF row
    <2> QED
        BY <1>0, <1>5, <2>1, <2>2, <2>3, RowChanged DEF SetTaskOutcomeContract
<1>6. ASSUME NEW t \in Task, DiscardTaskOccurrence(t)
      PROVE  kept
    <2> DEFINE row == DiscardedRow(task[t])
    <2>1. /\ row.generation = task[t].generation
          /\ row.pending = 0 /\ row.discarded = task[t].pending
        BY <1>0 DEF DiscardedRow, Settled, TaskRow
    <2>2. task' = [task EXCEPT ![t] = row]
        BY <1>6 DEF DiscardTaskOccurrence
    <2> HIDE DEF row
    <2> QED
        BY <1>0, <1>6, <2>1, <2>2, RowChanged DEF DiscardTaskOccurrence
<1>7. ASSUME NEW r \in Repository, DisableRepository(r) \/ EnableRepository(r)
      PROVE  kept
    <2>1. ASSUME NEW u \in Task
          PROVE  /\ task'[u].generation = task[u].generation
                 /\ task'[u].pending = task[u].pending
                 /\ task'[u].snapshot = task[u].snapshot
        BY <1>0, <1>7 DEF DisableRepository, EnableRepository, TaskRow
    <2> QED
        BY <1>7, <2>1 DEF DisableRepository, EnableRepository, Keeps, Exists
<1> QED
    BY <1>1, <1>2, <1>3, <1>4, <1>5, <1>6, <1>7 DEF OperatorStep

LEMMA WorldKeeps ==
    ASSUME (\E v \in 0 .. MaxVersion : RefreshCatalog(v)) \/ Tick \/ UNCHANGED vars
    PROVE  /\ UNCHANGED <<runs, scheduler>>
           /\ \A u \in Task : (Keeps(u) \/ Discards(u)) /\ (Exists(u) => Exists(u)')
BY RowsKept DEF RefreshCatalog, Tick, TaskUnchanged, vars

\* The invariant survives them: a discarded occurrence is no longer the one the
\* scheduler remembers, because its due instant is not NULL.
LEMMA KeptInv ==
    ASSUME OInv, UNCHANGED <<runs, scheduler>>,
           \A u \in Task : (Keeps(u) \/ Discards(u)) /\ (Exists(u) => Exists(u)')
    PROVE  SInv'
<1>0. scheduler \in {Idle} \cup Step \cup Finish
    BY DEF OInv, TInv, TypeOK
<1>1. PendingExists'
    BY DEF OInv, SInv, PendingExists, Pending, Keeps, Discards
<1>2. ASSUME scheduler \in Step \cup Finish, PendingIs(scheduler.task, scheduler.due)'
      PROVE  /\ PendingIs(scheduler.task, scheduler.due)
             /\ task'[scheduler.task].snapshot = task[scheduler.task].snapshot
    <2>1. scheduler.task \in Task /\ scheduler.due # 0 /\ scheduler.due > 0
        BY <1>2 DEF Step, Finish, Instant
    <2> QED
        BY <1>2, <2>1 DEF Keeps, Discards, PendingIs, Pending
<1>3. SameSnapshot'
    <2> SUFFICES ASSUME scheduler.at \in {"freeze", "admit"},
                        PendingIs(scheduler.task, scheduler.due)'
                 PROVE  task'[scheduler.task].snapshot = scheduler.snapshot
        BY DEF SameSnapshot
    <2>1. scheduler \in Step
        BY <1>0 DEF Idle, Finish
    <2> QED
        BY <1>2, <2>1 DEF OInv, SInv, SameSnapshot
<1>4. AdmittedFound'
    <2> SUFFICES ASSUME scheduler.at = "finish", scheduler.outcome = "admitted",
                        PendingIs(scheduler.task, scheduler.due)'
                 PROVE  Admitted(RequestKey(scheduler.task, scheduler.due,
                                            task[scheduler.task].snapshot))'
        BY DEF AdmittedFound
    <2>1. scheduler \in Finish
        BY <1>0 DEF Idle, Step
    <2>2. Admitted(RequestKey(scheduler.task, scheduler.due, task[scheduler.task].snapshot))
        BY <1>2, <2>1 DEF OInv, SInv, AdmittedFound
    <2> QED
        BY <1>2, <2>1, <2>2 DEF Admitted, RequestKey
<1> QED
    BY <1>1, <1>3, <1>4 DEF SInv

-----------------------------------------------------------------------------
(* The scheduler's own steps.                                              *)

\* What a step of the scheduler does to the occurrence of every Task: it stays,
\* or its Run is there, or it was not pending.
SchedulerKeeps(t) ==
    /\ Pending(t) =>
         \/ /\ task'[t].pending = task[t].pending
            /\ task'[t].snapshot = task[t].snapshot
         \/ /\ task'[t].pending = task[t].pending
            /\ scheduler.at = "freeze"
            /\ task[t].snapshot.workflow = 0
            /\ task'[t].snapshot = [task[t].snapshot EXCEPT !.workflow = catalog]
         \/ /\ task'[t].pending = 0
            /\ Admitted(RequestKey(t, task[t].pending, task[t].snapshot))
    /\ Exists(t) => Exists(t)'
    /\ ~ Pending(t) /\ Pending(t)' => Exists(t)

LEMMA ClaimStep ==
    ASSUME OInv, ClaimDueTask
    PROVE  SInv' /\ \A t \in Task : SchedulerKeeps(t)
<1> PICK t \in Task : ClaimPending(t) \/ ClaimInstant(t)
    BY DEF ClaimDueTask
<1>0. task \in [Task -> TaskRow] /\ PendingExists
    BY DEF OInv, SInv, TInv, TypeOK
<1>1. CASE ClaimPending(t)
    <2>1. /\ scheduler'.at = "freeze" /\ scheduler'.task = t
          /\ scheduler'.snapshot = task[t].snapshot /\ task' = task /\ runs' = runs
        BY <1>1 DEF ClaimPending, TaskUnchanged
    <2> QED
        BY <1>0, <2>1
        DEF SInv, PendingExists, SameSnapshot, AdmittedFound, SchedulerKeeps, Pending, Exists
<1>2. CASE ClaimInstant(t)
    <2> DEFINE row == [task[t] EXCEPT !.pending = task[t].next,
                                      !.snapshot = CurrentSnapshot(t),
                                      !.retryAt = now,
                                      !.retries = 0]
    <2>1. row.generation = task[t].generation /\ row.snapshot = CurrentSnapshot(t)
        BY <1>0 DEF TaskRow
    <2>2. /\ scheduler'.at = "freeze" /\ scheduler'.task = t
          /\ scheduler'.snapshot = CurrentSnapshot(t)
          /\ task' = [task EXCEPT ![t] = row] /\ runs' = runs
        BY <1>2 DEF ClaimInstant
    <2>3. Exists(t) /\ ~ Pending(t)
        BY <1>2 DEF ClaimInstant, InstantDue, Scheduled
    <2> HIDE DEF row
    <2>4. \A u \in Task : task'[u] = IF u = t THEN row ELSE task[u]
        BY <1>0, <2>2
    <2>5. PendingExists'
        BY <1>0, <2>1, <2>3, <2>4 DEF PendingExists, Pending, Exists
    <2>6. SameSnapshot' /\ AdmittedFound'
        BY <2>1, <2>2, <2>4 DEF SameSnapshot, AdmittedFound
    <2>7. \A u \in Task : SchedulerKeeps(u)
        BY <2>1, <2>3, <2>4 DEF SchedulerKeeps, Pending, Exists
    <2> QED
        BY <2>5, <2>6, <2>7 DEF SInv
<1> QED
    BY <1>1, <1>2

LEMMA FreezeKeeps ==
    ASSUME OInv, FreezeStep
    PROVE  SInv' /\ \A t \in Task : SchedulerKeeps(t)
<1>0. /\ task \in [Task -> TaskRow] /\ PendingExists /\ SameSnapshot
      /\ At("freeze") /\ scheduler \in Step
    BY SchedulerType
    DEF OInv, SInv, TInv, TypeOK, FreezeStep, KeepSnapshot, FreezePendingTaskWorkflows,
        FreezeRefused
<1>1. CASE KeepSnapshot
    <2>1. /\ scheduler' = [scheduler EXCEPT !.at = "admit"] /\ task' = task /\ runs' = runs
        BY <1>1 DEF KeepSnapshot, TaskUnchanged
    <2>2. /\ scheduler'.at = "admit" /\ scheduler'.task = scheduler.task
          /\ scheduler'.due = scheduler.due /\ scheduler'.snapshot = scheduler.snapshot
        BY <1>0, <2>1 DEF Step
    <2>3. SameSnapshot'
        BY <1>0, <2>1, <2>2 DEF SameSnapshot, PendingIs, At
    <2> QED
        BY <1>0, <2>1, <2>2, <2>3
        DEF SInv, PendingExists, AdmittedFound, SchedulerKeeps, Pending, Exists
<1>2. CASE FreezePendingTaskWorkflows
    <2> DEFINE t == scheduler.task
               frozen == [scheduler.snapshot EXCEPT !.workflow = catalog]
               row == [task[t] EXCEPT !.snapshot = frozen]
    <2>1. /\ t \in Task /\ PendingIs(t, scheduler.due)
          /\ task[t].snapshot = scheduler.snapshot /\ scheduler.snapshot.workflow = 0
        BY <1>0, <1>2
        DEF FreezePendingTaskWorkflows, ReadsCatalog, SameSnapshot, Step, At
    <2>2. task' = [task EXCEPT ![t] = row] /\ runs' = runs
        BY <1>0, <1>2, <2>1 DEF FreezePendingTaskWorkflows
    <2>3. /\ row.generation = task[t].generation /\ row.pending = task[t].pending
          /\ row.snapshot = frozen
        BY <1>0, <2>1 DEF TaskRow
    <2>4. scheduler' = [scheduler EXCEPT !.at = "admit", !.snapshot = frozen]
        BY <1>2 DEF FreezePendingTaskWorkflows
    <2>5. /\ scheduler'.at = "admit" /\ scheduler'.task = t
          /\ scheduler'.due = scheduler.due /\ scheduler'.snapshot = frozen
        BY <1>0, <2>4 DEF Step
    <2>6. frozen = [task[t].snapshot EXCEPT !.workflow = catalog]
        BY <2>1
    <2> HIDE DEF row, frozen, t
    <2>7. \A u \in Task : task'[u] = IF u = t THEN row ELSE task[u]
        BY <1>0, <2>2
    <2>8. PendingExists'
        BY <1>0, <2>3, <2>7 DEF PendingExists, Pending, Exists
    <2>9. SameSnapshot' /\ AdmittedFound'
        BY <2>1, <2>3, <2>5, <2>7 DEF SameSnapshot, AdmittedFound
    <2>10. \A u \in Task : SchedulerKeeps(u)
        BY <1>0, <2>1, <2>3, <2>6, <2>7 DEF SchedulerKeeps, Pending, Exists, At
    <2> QED
        BY <2>8, <2>9, <2>10 DEF SInv
<1>3. CASE FreezeRefused
    <2>1. scheduler'.at = "finish" /\ scheduler'.outcome = "transient" /\ task' = task
        BY <1>3 DEF FreezeRefused, Finishing, TaskUnchanged
    <2> QED
        BY <1>0, <2>1
        DEF SInv, PendingExists, SameSnapshot, AdmittedFound, SchedulerKeeps, Pending, Exists
<1> QED
    BY <1>1, <1>2, <1>3 DEF FreezeStep

LEMMA AdmitKeeps ==
    ASSUME OInv, AdmitStep
    PROVE  SInv' /\ task' = task
<1>0. /\ task \in [Task -> TaskRow] /\ PendingExists /\ SameSnapshot
      /\ At("admit") /\ scheduler \in Step
    BY SchedulerType
    DEF OInv, SInv, TInv, TypeOK, AdmitStep, AdmitReplay, AdmitTask, AdmitRefused
<1>1. task' = task
    BY DEF AdmitStep, AdmitReplay, AdmitTask, RunRead, AdmitRefused, TaskUnchanged, WorldUnchanged
<1>2. PICK outcome : scheduler' = Finishing(outcome)
    BY DEF AdmitStep, AdmitReplay, AdmitTask, RunRead, AdmitRefused
<1>3. /\ scheduler'.at = "finish" /\ scheduler'.task = scheduler.task
      /\ scheduler'.due = scheduler.due /\ scheduler'.outcome = outcome
    BY <1>2 DEF Finishing
<1>4. outcome = "admitted" =>
         \E run \in runs' :
            [task |-> run.task, generation |-> run.generation, due |-> run.due]
                = SchedulerKey
    <2>1. CASE AdmitReplay
        BY <2>1 DEF AdmitReplay, RunRead, TaskUnchanged, Admitted
    <2>2. CASE AdmitTask
        <3> DEFINE run == [task |-> SchedulerKey.task,
                           generation |-> SchedulerKey.generation,
                           due |-> SchedulerKey.due,
                           workflow |-> scheduler.snapshot.workflow,
                           admittedAt |-> now]
        <3>1. run \in runs'
            BY <2>2 DEF AdmitTask, RunRead
        <3>2. [task |-> run.task, generation |-> run.generation, due |-> run.due]
                  = SchedulerKey
            BY DEF SchedulerKey, RequestKey
        <3> QED
            BY <3>1, <3>2
    <2>3. CASE \E o \in {"transient", "permanent"} : AdmitRefused(o)
        BY <1>2, <2>3 DEF AdmitRefused, Finishing
    <2> QED
        BY <2>1, <2>2, <2>3 DEF AdmitStep
<1>5. SameSnapshot'
    BY <1>3 DEF SameSnapshot
<1>6. AdmittedFound'
    <2> SUFFICES ASSUME outcome = "admitted", PendingIs(scheduler.task, scheduler.due)
                 PROVE  Admitted(RequestKey(scheduler.task, scheduler.due,
                                            task[scheduler.task].snapshot))'
        BY <1>1, <1>3 DEF AdmittedFound, PendingIs
    <2>1. task'[scheduler'.task].snapshot = scheduler.snapshot
        BY <1>0, <1>1, <1>3 DEF SameSnapshot, At
    <2> QED
        BY <1>3, <1>4, <2>1 DEF Admitted, RequestKey, SchedulerKey
<1> QED
    BY <1>0, <1>1, <1>5, <1>6 DEF SInv, PendingExists, Pending, Exists

LEMMA FinishKeeps ==
    ASSUME OInv, FinishTaskOccurrence
    PROVE  SInv' /\ \A t \in Task : SchedulerKeeps(t)
<1> DEFINE t == scheduler.task
           row == FinishedRow(task[t], scheduler.outcome)
<1>0. /\ task \in [Task -> TaskRow] /\ PendingExists /\ AdmittedFound
      /\ At("finish") /\ scheduler \in Finish /\ t \in Task /\ task[t] \in TaskRow
    BY SchedulerType DEF OInv, SInv, TInv, TypeOK, FinishTaskOccurrence, Finish
<1>1. scheduler'.at = "idle" /\ runs' = runs
    BY DEF FinishTaskOccurrence, Idle
<1>2. SameSnapshot' /\ AdmittedFound'
    BY <1>1 DEF SameSnapshot, AdmittedFound
<1>3. CASE Finishable(t, scheduler.due, scheduler.outcome)
    <2>1. task' = [task EXCEPT ![t] = row] /\ PendingIs(t, scheduler.due)
        BY <1>3 DEF FinishTaskOccurrence, Finishable
    <2>2. /\ row.generation = task[t].generation
          /\ \/ /\ row.pending = task[t].pending
                /\ row.snapshot = task[t].snapshot
             \/ row.pending = 0 /\ scheduler.outcome = "admitted"
        <3>1. CASE scheduler.outcome = "admitted"
            <4>1. row = AdmittedRow(task[t])
                BY <3>1 DEF FinishedRow
            <4> HIDE DEF row
            <4> QED
                BY <1>0, <3>1, <4>1 DEF AdmittedRow, Settled, TaskRow
        <3>2. CASE scheduler.outcome # "admitted"
            <4>1. row = BlockedRow(task[t]) \/ row = RetriedRow(task[t])
                BY <1>0, <3>2 DEF FinishedRow, Finish
            <4> HIDE DEF row
            <4> QED
                BY <1>0, <4>1 DEF BlockedRow, RetriedRow, TaskRow
        <3> QED
            BY <3>1, <3>2
    <2>3. scheduler.outcome = "admitted" =>
             Admitted(RequestKey(t, task[t].pending, task[t].snapshot))
        BY <1>0, <2>1 DEF AdmittedFound, PendingIs, At
    <2> HIDE DEF row, t
    <2>4. \A u \in Task : task'[u] = IF u = t THEN row ELSE task[u]
        BY <1>0, <2>1
    <2>5. PendingExists'
        BY <1>0, <2>2, <2>4 DEF PendingExists, Pending, Exists
    <2>6. \A u \in Task : SchedulerKeeps(u)
        BY <2>2, <2>3, <2>4 DEF SchedulerKeeps, Pending, Exists
    <2> QED
        BY <1>2, <2>5, <2>6 DEF SInv
<1>4. CASE ~ Finishable(t, scheduler.due, scheduler.outcome)
    <2>1. task' = task
        BY <1>4 DEF FinishTaskOccurrence
    <2> QED
        BY <1>0, <1>2, <2>1 DEF SInv, PendingExists, SchedulerKeeps, Pending, Exists
<1> QED
    BY <1>3, <1>4

LEMMA StopKeeps ==
    ASSUME OInv, SchedulerStops
    PROVE  SInv' /\ task' = task
<1>1. scheduler'.at = "idle" /\ task' = task
    BY DEF SchedulerStops, TaskUnchanged, Idle
<1> QED
    BY <1>1 DEF OInv, SInv, PendingExists, SameSnapshot, AdmittedFound, Pending, Exists

LEMMA SchedulerStepKeeps ==
    ASSUME OInv, SchedulerStep
    PROVE  SInv' /\ \A t \in Task : SchedulerKeeps(t)
<1>1. task' = task => \A t \in Task : SchedulerKeeps(t)
    BY DEF SchedulerKeeps, Pending, Exists
<1> QED
    BY <1>1, ClaimStep, FreezeKeeps, AdmitKeeps, FinishKeeps, StopKeeps DEF SchedulerStep

LEMMA OInvStep == OInv /\ [Next]_vars => OInv'
<1> SUFFICES ASSUME OInv, [Next]_vars PROVE OInv'
    OBVIOUS
<1>1. TInv'
    BY TInvStep DEF OInv
<1>2. CASE OperatorStep
    BY <1>1, <1>2, OperatorKeeps, KeptInv DEF OInv
<1>3. CASE SchedulerStep
    BY <1>1, <1>3, SchedulerStepKeeps DEF OInv
<1>4. CASE (\E v \in 0 .. MaxVersion : RefreshCatalog(v)) \/ Tick \/ UNCHANGED vars
    BY <1>1, <1>4, WorldKeeps, KeptInv DEF OInv
<1> QED
    BY <1>2, <1>3, <1>4 DEF Next

-----------------------------------------------------------------------------
(* The theorems.                                                           *)

\* INV-13 of docs/tasks/design.md: whatever crashes, retries, pauses, edits and
\* failed admissions come, an occurrence leaves the row only when its Run was
\* admitted or the operator discarded it.
THEOREM PendingKeptCorrect == Spec => PendingKept
<1> DEFINE kept == \A t \in Task :
          Pending(t) /\ task'[t].pending # task[t].pending =>
              /\ task'[t].pending = 0
              /\ \/ Admitted(RequestKey(t, task[t].pending, task[t].snapshot))
                 \/ task'[t].discarded = task[t].pending
<1>1. OInv /\ [Next]_vars => [kept]_vars
    <2> SUFFICES ASSUME OInv, [Next]_vars PROVE kept
        OBVIOUS
    <2>1. CASE OperatorStep
        BY <2>1, OperatorKeeps DEF Keeps, Discards
    <2>2. CASE SchedulerStep
        BY <2>2, SchedulerStepKeeps DEF SchedulerKeeps
    <2>3. CASE (\E v \in 0 .. MaxVersion : RefreshCatalog(v)) \/ Tick \/ UNCHANGED vars
        BY <2>3, WorldKeeps DEF Keeps, Discards
    <2> QED
        BY <2>1, <2>2, <2>3 DEF Next
<1> QED
    BY <1>1, OInvInit, OInvStep, PTL DEF Spec, PendingKept

\* The snapshot of an occurrence is frozen: no edit of the Task and no retry
\* changes its generation and repositories, nor its workflow once it was read.
THEOREM FrozenSnapshotCorrect == Spec => FrozenSnapshotKept
<1> DEFINE frozen == \A t \in Task :
          Pending(t) /\ task'[t].pending = task[t].pending =>
              /\ task'[t].snapshot.generation = task[t].snapshot.generation
              /\ task'[t].snapshot.repositories = task[t].snapshot.repositories
              /\ task[t].snapshot.workflow # 0 =>
                    task'[t].snapshot.workflow = task[t].snapshot.workflow
<1>1. OInv /\ [Next]_vars => [frozen]_vars
    <2> SUFFICES ASSUME OInv, [Next]_vars,
                        NEW t \in Task, Pending(t), task'[t].pending = task[t].pending
                 PROVE  /\ task'[t].snapshot.generation = task[t].snapshot.generation
                        /\ task'[t].snapshot.repositories = task[t].snapshot.repositories
                        /\ task[t].snapshot.workflow # 0 =>
                              task'[t].snapshot.workflow = task[t].snapshot.workflow
        OBVIOUS
    <2>1. task[t].snapshot \in Snapshot /\ task[t].pending # 0
        BY DEF OInv, TInv, TypeOK, TaskRow, Pending
    <2>2. CASE OperatorStep
        BY <2>1, <2>2, OperatorKeeps DEF Keeps, Discards
    <2>3. CASE SchedulerStep
        BY <2>1, <2>3, SchedulerStepKeeps DEF SchedulerKeeps, Snapshot
    <2>4. CASE (\E v \in 0 .. MaxVersion : RefreshCatalog(v)) \/ Tick \/ UNCHANGED vars
        BY <2>1, <2>4, WorldKeeps DEF Keeps, Discards
    <2> QED
        BY <2>2, <2>3, <2>4 DEF Next
<1> QED
    BY <1>1, OInvInit, OInvStep, PTL DEF Spec, FrozenSnapshotKept

\* Only admission adds a Run, and only the one of the occurrence at hand.
LEMMA RunAdded ==
    ASSUME OInv, [Next]_vars
    PROVE  \/ runs' = runs
           \/ /\ AdmitTask
              /\ \E run : /\ runs' = runs \cup {run}
                          /\ run.task = scheduler.task
                          /\ run.generation = scheduler.snapshot.generation
                          /\ run.due = scheduler.due
                          /\ run.workflow = scheduler.snapshot.workflow
<1>1. CASE OperatorStep
    BY <1>1, OperatorKeeps
<1>2. CASE ClaimDueTask \/ FreezeStep \/ FinishTaskOccurrence \/ SchedulerStops
    BY <1>2
    DEF ClaimDueTask, ClaimPending, ClaimInstant, FreezeStep, KeepSnapshot,
        FreezePendingTaskWorkflows, FreezeRefused, FinishTaskOccurrence, SchedulerStops,
        TaskUnchanged
<1>3. CASE AdmitReplay \/ \E outcome \in {"transient", "permanent"} : AdmitRefused(outcome)
    BY <1>3 DEF AdmitReplay, RunRead, AdmitRefused, TaskUnchanged
<1>4. CASE AdmitTask
    <2> DEFINE run == [task |-> SchedulerKey.task,
                       generation |-> SchedulerKey.generation,
                       due |-> SchedulerKey.due,
                       workflow |-> scheduler.snapshot.workflow,
                       admittedAt |-> now]
    <2>1. runs' = runs \cup {run}
        BY <1>4 DEF AdmitTask, RunRead
    <2>2. /\ run.task = scheduler.task /\ run.due = scheduler.due
          /\ run.generation = scheduler.snapshot.generation
          /\ run.workflow = scheduler.snapshot.workflow
        BY DEF SchedulerKey, RequestKey
    <2> QED
        BY <1>4, <2>1, <2>2
<1>5. CASE (\E v \in 0 .. MaxVersion : RefreshCatalog(v)) \/ Tick \/ UNCHANGED vars
    BY <1>5, WorldKeeps
<1> QED
    BY <1>1, <1>2, <1>3, <1>4, <1>5 DEF Next, SchedulerStep, AdmitStep

\* INV-5 of docs/tasks/design.md: a generation and an instant start one Run,
\* because the request key is built from the frozen generation and looked up in
\* the transaction that inserts the Run.
THEOREM OneRunCorrect == Spec => []OneRunPerGeneration
<1>1. Init => OneRunPerGeneration
    BY DEF Init, OneRunPerGeneration
<1>2. OInv /\ OneRunPerGeneration /\ [Next]_vars => OneRunPerGeneration'
    <2> SUFFICES ASSUME OInv, OneRunPerGeneration, [Next]_vars
                 PROVE  OneRunPerGeneration'
        OBVIOUS
    <2>1. CASE runs' = runs
        BY <2>1 DEF OneRunPerGeneration
    <2>2. CASE AdmitTask /\ runs' # runs
        <3>1. PICK run : /\ runs' = runs \cup {run}
                         /\ run.task = scheduler.task
                         /\ run.generation = scheduler.snapshot.generation
                         /\ run.due = scheduler.due
            BY <2>2, RunAdded
        <3>2. \A r \in runs : ~ (/\ r.task = run.task /\ r.generation = run.generation
                                 /\ r.due = run.due)
            BY <2>2, <3>1 DEF AdmitTask, RunRead, Admitted, SchedulerKey, RequestKey
        <3> QED
            BY <3>1, <3>2 DEF OneRunPerGeneration
    <2> QED
        BY <2>1, <2>2, RunAdded
<1> QED
    BY <1>1, <1>2, OInvInit, OInvStep, PTL DEF Spec

\* The scheduler decides on what it read two transactions earlier; what it
\* admits is nevertheless the occurrence the Task holds at that moment, of a
\* schedule that is on, with the snapshot of the row.
THEOREM AdmittedWhilePendingCorrect == Spec => AdmittedWhilePending
<1> DEFINE current == \A r \in runs' \ runs :
          /\ Scheduled(r.task)
          /\ r.due = task[r.task].pending
          /\ r.generation = task[r.task].snapshot.generation
          /\ r.workflow = task[r.task].snapshot.workflow
<1>1. OInv /\ [Next]_vars => [current]_vars
    <2> SUFFICES ASSUME OInv, [Next]_vars, NEW r \in runs' \ runs
                 PROVE  /\ Scheduled(r.task)
                        /\ r.due = task[r.task].pending
                        /\ r.generation = task[r.task].snapshot.generation
                        /\ r.workflow = task[r.task].snapshot.workflow
        OBVIOUS
    <2>1. /\ AdmitTask /\ r.task = scheduler.task /\ r.due = scheduler.due
          /\ r.generation = scheduler.snapshot.generation
          /\ r.workflow = scheduler.snapshot.workflow
        BY RunAdded
    <2>2. scheduler \in Step /\ scheduler.task \in Task
        BY <2>1, SchedulerType DEF AdmitTask, RunRead, OInv, TInv, Step
    <2>3. /\ task[scheduler.task].enabled /\ ~ task[scheduler.task].archived
          /\ PendingIs(scheduler.task, scheduler.due)
        BY <2>1 DEF AdmitTask, RunRead, Startable
    <2>4. task[scheduler.task].snapshot = scheduler.snapshot
        BY <2>1, <2>3 DEF AdmitTask, RunRead, At, OInv, SInv, SameSnapshot
    <2>5. Exists(scheduler.task)
        BY <2>2, <2>3 DEF OInv, TInv, Rows, Sound, Exists
    <2> QED
        BY <2>1, <2>3, <2>4, <2>5 DEF Scheduled, PendingIs
<1> QED
    BY <1>1, OInvInit, OInvStep, PTL DEF Spec, AdmittedWhilePending

-----------------------------------------------------------------------------
(* An instant starts one Run under all generations together, provided that *)
(* a save computes its next instant in the tick of its transaction.  The   *)
(* schedule then never goes back: next lies ahead of every Run, and of the *)
(* clock whenever it is computed again.                                    *)

RunsBehind ==
    \A r \in runs :
        /\ r.due <= now
        /\ Pending(r.task) =>
              /\ r.due <= task[r.task].pending
              /\ r.due = task[r.task].pending =>
                    r.generation = task[r.task].snapshot.generation
        /\ ~ Pending(r.task) /\ task[r.task].next > 0 => r.due < task[r.task].next

PendingBehind == \A t \in Task : task[t].pending <= now

EditAhead == edit # NoEdit /\ edit.enabled => edit.next > now

AInv == RunsBehind /\ PendingBehind /\ EditAhead

\* A handler that claims nothing leaves the occurrence or ends it, and computes
\* next from the clock or not at all.
NextAhead(t) ==
    \/ /\ task'[t].pending = task[t].pending
       /\ Pending(t) => task'[t].snapshot.generation = task[t].snapshot.generation
       /\ ~ Pending(t) =>
             task'[t].next = 0 \/ task'[t].next = task[t].next \/ task'[t].next > now
    \/ task'[t].pending = 0 /\ (task'[t].next = 0 \/ task'[t].next > now)

LEMMA AheadKept ==
    ASSUME OInv, AInv, OInv', runs' = runs, now <= now', \A t \in Task : NextAhead(t)
    PROVE  RunsBehind' /\ PendingBehind'
<1>0. /\ now \in Nat /\ now' \in Nat /\ task \in [Task -> TaskRow]
      /\ task' \in [Task -> TaskRow] /\ runs \subseteq ScheduledRun
    BY ScheduleAssumption DEF OInv, TInv, TypeOK
<1>1. PendingBehind'
    <2> SUFFICES ASSUME NEW t \in Task
                 PROVE  task'[t].pending <= now'
        BY DEF PendingBehind
    <2>1. task[t].pending \in Nat /\ task[t].pending <= now
        BY <1>0 DEF AInv, PendingBehind, TaskRow, Instant
    <2>2. task'[t].pending = task[t].pending \/ task'[t].pending = 0
        BY DEF NextAhead
    <2> QED
        BY <1>0, <2>1, <2>2
<1>2. RunsBehind'
    <2> SUFFICES ASSUME NEW r \in runs
                 PROVE  /\ r.due <= now'
                        /\ Pending(r.task)' =>
                              /\ r.due <= task'[r.task].pending
                              /\ r.due = task'[r.task].pending =>
                                    r.generation = task'[r.task].snapshot.generation
                        /\ ~ Pending(r.task)' /\ task'[r.task].next > 0 =>
                              r.due < task'[r.task].next
        BY DEF RunsBehind
    <2> DEFINE t == r.task
    <2>1. /\ t \in Task /\ r.due \in Nat /\ task[t].pending \in Nat /\ task[t].next \in Nat
          /\ task'[t].next \in Nat
        BY <1>0 DEF ScheduledRun, TaskRow, Instant
    <2>2. /\ r.due <= now
          /\ task[t].pending > 0 =>
                /\ r.due <= task[t].pending
                /\ r.due = task[t].pending => r.generation = task[t].snapshot.generation
          /\ ~ (task[t].pending > 0) /\ task[t].next > 0 => r.due < task[t].next
        BY DEF AInv, RunsBehind, Pending
    <2>3. NextAhead(t)
        BY <2>1
    <2> HIDE DEF t
    <2> QED
        BY <1>0, <2>1, <2>2, <2>3 DEF NextAhead, Pending, t
<1> QED
    BY <1>1, <1>2

LEMMA RowAhead ==
    ASSUME TInv, NEW t \in Task, NEW row, task' = [task EXCEPT ![t] = row],
           \/ /\ row.pending = task[t].pending
              /\ Pending(t) => row.snapshot.generation = task[t].snapshot.generation
              /\ ~ Pending(t) => row.next = 0 \/ row.next = task[t].next \/ row.next > now
           \/ row.pending = 0 /\ (row.next = 0 \/ row.next > now)
    PROVE  \A u \in Task : NextAhead(u)
<1>1. \A u \in Task : task'[u] = IF u = t THEN row ELSE task[u]
    BY DEF TInv, TypeOK
<1> QED
    BY <1>1 DEF NextAhead

LEMMA OperatorAhead ==
    ASSUME OInv, AInv, OperatorStep
    PROVE  \A u \in Task : NextAhead(u)
<1>0. /\ TInv /\ task \in [Task -> TaskRow] /\ now \in 1 .. Horizon
      /\ \A t \in Task : Sound(task[t])
      /\ edit \in {NoEdit} \cup Edit
    BY DEF OInv, TInv, TypeOK, Rows
<1>1. ASSUME task' = task
      PROVE  \A u \in Task : NextAhead(u)
    BY <1>1 DEF NextAhead
<1>2. ASSUME NEW t \in Task, CreateTask(t)
      PROVE  \A u \in Task : NextAhead(u)
    <2> DEFINE next == IF edit.enabled THEN edit.next ELSE 0
               row == [NoTask EXCEPT !.generation = 1,
                                 !.enabled = edit.enabled,
                                 !.cron = edit.cron,
                                 !.repositories = edit.repositories,
                                 !.next = next,
                                 !.health = TaskScheduleHealth(edit.enabled)]
    <2>1. row.pending = 0 /\ row.next = next
        BY DEF NoTask
    <2>2. next = 0 \/ next > now
        BY <1>2 DEF CreateTask, AInv, EditAhead
    <2>3. task' = [task EXCEPT ![t] = row]
        BY <1>2 DEF CreateTask
    <2> HIDE DEF row, next
    <2> QED
        BY <1>0, <2>1, <2>2, <2>3, RowAhead
<1>3. ASSUME NEW t \in Task, UpdateTask(t)
      PROVE  \A u \in Task : NextAhead(u)
    <2> DEFINE row == EditedRow(task[t], edit.enabled, edit.cron, edit.repositories, edit.next)
    <2>1. row.pending = task[t].pending /\ row.snapshot = task[t].snapshot
        BY <1>0 DEF EditedRow, TaskRow
    <2>2. row.next = IF task[t].pending > 0 THEN task[t].next
                     ELSE IF edit.enabled THEN edit.next ELSE 0
        BY <1>0 DEF EditedRow, TaskRow
    <2>3. edit.enabled => edit.next > now
        BY <1>3 DEF UpdateTask, AInv, EditAhead
    <2>4. task' = [task EXCEPT ![t] = row]
        BY <1>3 DEF UpdateTask
    <2> HIDE DEF row
    <2>5. ~ Pending(t) => row.next = 0 \/ row.next > now
        BY <2>2, <2>3 DEF Pending
    <2> QED
        BY <1>0, <2>1, <2>4, <2>5, RowAhead
<1>4. ASSUME NEW t \in Task, NEW archive \in BOOLEAN, SetTaskArchived(t, archive)
      PROVE  \A u \in Task : NextAhead(u)
    <2> DEFINE row == ArchivedRow(task[t], archive)
    <2>1. /\ row.pending = task[t].pending /\ row.snapshot = task[t].snapshot
          /\ row.next = 0 \/ row.next = task[t].next
        BY <1>0 DEF ArchivedRow, TaskRow
    <2>2. task' = [task EXCEPT ![t] = row]
        BY <1>4 DEF SetTaskArchived
    <2> HIDE DEF row
    <2> QED
        BY <1>0, <2>1, <2>2, RowAhead
<1>5. ASSUME NEW t \in Task, SetTaskOutcomeContract(t)
      PROVE  \A u \in Task : NextAhead(u)
    <2> DEFINE row == [task[t] EXCEPT !.generation = task[t].generation + 1]
    <2>1. /\ row.pending = task[t].pending /\ row.snapshot = task[t].snapshot
          /\ row.next = task[t].next
        BY <1>0 DEF TaskRow
    <2>2. task' = [task EXCEPT ![t] = row]
        BY <1>5 DEF SetTaskOutcomeContract
    <2> HIDE DEF row
    <2> QED
        BY <1>0, <2>1, <2>2, RowAhead
<1>6. ASSUME NEW t \in Task, DiscardTaskOccurrence(t)
      PROVE  \A u \in Task : NextAhead(u)
    <2> DEFINE row == DiscardedRow(task[t])
    <2>1. task[t].cron \in Cron
        BY <1>0, <1>6 DEF DiscardTaskOccurrence, Pending, Sound, TaskRow
    <2>2. NextInstant[task[t].cron][now] > now
        BY <1>0, <2>1, NextInstantType
    <2>3. row.pending = 0 /\ (row.next = 0 \/ row.next > now)
        BY <1>0, <2>2 DEF DiscardedRow, Settled, TaskRow
    <2>4. task' = [task EXCEPT ![t] = row]
        BY <1>6 DEF DiscardTaskOccurrence
    <2> HIDE DEF row
    <2> QED
        BY <1>0, <2>3, <2>4, RowAhead
<1>7. ASSUME NEW r \in Repository, DisableRepository(r) \/ EnableRepository(r)
      PROVE  \A u \in Task : NextAhead(u)
    <2>1. ASSUME NEW u \in Task
          PROVE  /\ task'[u].pending = task[u].pending
                 /\ task'[u].snapshot = task[u].snapshot
                 /\ task'[u].next = task[u].next
        <3>1. task[u] \in TaskRow
            BY <1>0
        <3>2. \E h, c : \/ task'[u] = [task[u] EXCEPT !.health = h, !.code = c]
                        \/ task'[u] = task[u]
            BY <1>7 DEF DisableRepository, EnableRepository
        <3> QED
            BY <3>1, <3>2 DEF TaskRow
    <2> QED
        BY <2>1 DEF NextAhead
<1> QED
    BY <1>1, <1>2, <1>3, <1>4, <1>5, <1>6, <1>7
    DEF OperatorStep, NormalizeTask, EditRefused, TaskUnchanged

LEMMA OperatorEditAhead ==
    ASSUME OInv, AInv, OperatorStep
    PROVE  EditAhead' /\ now' = now
<1>0. now \in 1 .. Horizon
    BY DEF OInv, TInv, TypeOK
<1>1. now' = now
    BY DEF OperatorStep, NormalizeTask, CreateTask, UpdateTask, EditRefused, SetTaskArchived,
           SetTaskOutcomeContract, DiscardTaskOccurrence, DisableRepository,
           EnableRepository, WorldUnchanged
<1>2. CASE edit' = edit \/ edit' = NoEdit
    BY <1>1, <1>2 DEF AInv, EditAhead
<1>3. ASSUME NEW t \in Task, NEW on \in BOOLEAN, NEW c \in Cron \cup {NoCron},
             NEW R \in SUBSET Repository, NormalizeTask(t, on, c, R)
      PROVE  EditAhead'
    <2>1. /\ edit'.enabled = on
          /\ edit'.next = IF c = NoCron THEN 0 ELSE NextInstant[c][now]
          /\ on => c # NoCron
        BY <1>3 DEF NormalizeTask
    <2>2. c # NoCron => NextInstant[c][now] > now
        BY <1>0, NextInstantType
    <2> QED
        BY <1>1, <2>1, <2>2 DEF EditAhead
<1>4. \/ edit' = edit \/ edit' = NoEdit
      \/ \E t \in Task, on \in BOOLEAN, c \in Cron \cup {NoCron},
            R \in SUBSET Repository : NormalizeTask(t, on, c, R)
    BY DEF OperatorStep, CreateTask, UpdateTask, EditRefused, SetTaskArchived,
           SetTaskOutcomeContract, DiscardTaskOccurrence, DisableRepository,
           EnableRepository
<1> QED
    BY <1>1, <1>2, <1>3, <1>4

LEMMA SchedulerWorld ==
    ASSUME SchedulerStep
    PROVE  now' = now /\ (edit' = edit \/ edit' = NoEdit)
BY DEF SchedulerStep, ClaimDueTask, ClaimPending, ClaimInstant, FreezeStep, KeepSnapshot,
       FreezePendingTaskWorkflows, FreezeRefused, AdmitStep, AdmitReplay, AdmitTask,
       AdmitRefused, FinishTaskOccurrence, SchedulerStops, WorldUnchanged

LEMMA FinishAhead ==
    ASSUME OInv, FinishTaskOccurrence
    PROVE  \A u \in Task : NextAhead(u)
<1> DEFINE t == scheduler.task
           row == FinishedRow(task[t], scheduler.outcome)
<1>0. /\ TInv /\ t \in Task /\ task[t] \in TaskRow /\ Sound(task[t])
      /\ now \in 1 .. Horizon /\ scheduler \in Finish
    BY SchedulerType DEF FinishTaskOccurrence, OInv, TInv, TypeOK, Rows, Finish
<1>1. CASE Finishable(t, scheduler.due, scheduler.outcome)
    <2>1. task' = [task EXCEPT ![t] = row]
        BY <1>1 DEF FinishTaskOccurrence
    <2>2. CASE scheduler.outcome = "admitted"
        <3>1. row = AdmittedRow(task[t])
            BY <2>2 DEF FinishedRow
        <3>2. task[t].cron \in Cron
            <4>1. task[t].pending = scheduler.due /\ scheduler.due \in Nat \ {0}
                BY <1>0, <1>1 DEF Finishable, PendingIs, Finish, Instant
            <4>2. task[t].pending > 0
                BY <4>1
            <4>3. task[t].cron # NoCron
                BY <1>0, <4>2, Zenon DEF Sound
            <4>4. task[t].cron \in Cron \cup {NoCron}
                BY <1>0 DEF TaskRow
            <4> QED
                BY <4>3, <4>4
        <3>3. NextInstant[task[t].cron][now] > now
            BY <1>0, <3>2, NextInstantType
        <3> HIDE DEF row
        <3>4. row.pending = 0 /\ row.next > now
            BY <1>0, <3>1, <3>3 DEF AdmittedRow, Settled, TaskRow
        <3> QED
            BY <1>0, <2>1, <3>4, RowAhead
    <2>3. CASE scheduler.outcome # "admitted"
        <3>1. row = BlockedRow(task[t]) \/ row = RetriedRow(task[t])
            BY <1>0, <2>3 DEF FinishedRow, Finish
        <3> HIDE DEF row
        <3>2. /\ row.pending = task[t].pending /\ row.snapshot = task[t].snapshot
              /\ row.next = task[t].next
            BY <1>0, <3>1 DEF BlockedRow, RetriedRow, TaskRow
        <3> QED
            BY <1>0, <2>1, <3>2, RowAhead
    <2> QED
        BY <2>2, <2>3
<1>2. CASE ~ Finishable(t, scheduler.due, scheduler.outcome)
    BY <1>2 DEF FinishTaskOccurrence, NextAhead
<1> QED
    BY <1>1, <1>2

LEMMA FreezeAhead ==
    ASSUME OInv, FreezeStep
    PROVE  runs' = runs /\ \A u \in Task : NextAhead(u)
<1>0. /\ task \in [Task -> TaskRow] /\ SameSnapshot
      /\ At("freeze") /\ scheduler \in Step
    BY SchedulerType
    DEF OInv, SInv, TInv, TypeOK, FreezeStep, KeepSnapshot, FreezePendingTaskWorkflows,
        FreezeRefused
<1>1. CASE KeepSnapshot \/ FreezeRefused
    BY <1>1 DEF KeepSnapshot, FreezeRefused, TaskUnchanged, NextAhead
<1>2. CASE FreezePendingTaskWorkflows
    <2> DEFINE t == scheduler.task
               frozen == [scheduler.snapshot EXCEPT !.workflow = catalog]
               row == [task[t] EXCEPT !.snapshot = frozen]
    <2>1. t \in Task /\ task[t].snapshot = scheduler.snapshot
        BY <1>0, <1>2 DEF FreezePendingTaskWorkflows, SameSnapshot, Step, At
    <2>2. task' = [task EXCEPT ![t] = row] /\ runs' = runs
        BY <1>0, <1>2, <2>1 DEF FreezePendingTaskWorkflows
    <2>3. frozen.generation = scheduler.snapshot.generation
        BY <1>0 DEF Step, Snapshot
    <2> HIDE DEF frozen
    <2>4. /\ row.pending = task[t].pending /\ row.snapshot = frozen
          /\ row.next = task[t].next
        BY <1>0, <2>1 DEF TaskRow
    <2>5. row.snapshot.generation = task[t].snapshot.generation
        BY <2>1, <2>3, <2>4
    <2> HIDE DEF row, t
    <2>6. TInv
        BY DEF OInv
    <2>7. \A u \in Task : NextAhead(u)
        BY <2>1, <2>2, <2>4, <2>5, <2>6, RowAhead
    <2> QED
        BY <2>2, <2>7
<1> QED
    BY <1>1, <1>2 DEF FreezeStep

\* Claiming makes the instant that lies ahead of every Run the pending one.
LEMMA ClaimAhead ==
    ASSUME OInv, AInv, ClaimDueTask
    PROVE  RunsBehind' /\ PendingBehind'
<1> PICK t \in Task : ClaimPending(t) \/ ClaimInstant(t)
    BY DEF ClaimDueTask
<1>0. /\ task \in [Task -> TaskRow] /\ now \in 1 .. Horizon /\ runs \subseteq ScheduledRun
    BY DEF OInv, TInv, TypeOK
<1>1. CASE ClaimPending(t)
    BY <1>1
    DEF ClaimPending, TaskUnchanged, WorldUnchanged, AInv, RunsBehind, PendingBehind, Pending
<1>2. CASE ClaimInstant(t)
    <2> DEFINE row == [task[t] EXCEPT !.pending = task[t].next,
                                      !.snapshot = CurrentSnapshot(t),
                                      !.retryAt = now,
                                      !.retries = 0]
    <2>1. row.pending = task[t].next /\ task[t].next \in Nat
        BY <1>0 DEF TaskRow, Instant
    <2>2. task' = [task EXCEPT ![t] = row] /\ runs' = runs /\ now' = now
        BY <1>2 DEF ClaimInstant, WorldUnchanged
    <2>3. ~ Pending(t) /\ task[t].next \in 1 .. now
        BY <1>2 DEF ClaimInstant, InstantDue
    <2> HIDE DEF row
    <2>4. \A u \in Task : task'[u] = IF u = t THEN row ELSE task[u]
        BY <1>0, <2>2
    <2>5. PendingBehind'
        BY <1>0, <2>1, <2>2, <2>3, <2>4 DEF AInv, PendingBehind
    <2>6. ASSUME NEW r \in runs
          PROVE  /\ r.due <= now
                 /\ Pending(r.task)' =>
                       /\ r.due <= task'[r.task].pending
                       /\ r.due = task'[r.task].pending =>
                             r.generation = task'[r.task].snapshot.generation
                 /\ ~ Pending(r.task)' /\ task'[r.task].next > 0 =>
                       r.due < task'[r.task].next
        <3>1. r.task \in Task /\ r.due \in Nat
            BY <1>0 DEF ScheduledRun, Instant
        <3>2. CASE r.task = t
            <4>1. r.due <= now /\ r.due < task[t].next
                BY <1>0, <2>3, <3>2 DEF AInv, RunsBehind
            <4>2. task'[r.task].pending = task[t].next
                BY <2>1, <2>4, <3>1, <3>2
            <4> QED
                BY <2>1, <2>3, <3>1, <4>1, <4>2 DEF Pending
        <3>3. CASE r.task # t
            <4>1. task'[r.task] = task[r.task]
                BY <2>4, <3>1, <3>3
            <4> QED
                BY <4>1 DEF AInv, RunsBehind, Pending
        <3> QED
            BY <3>2, <3>3
    <2>7. RunsBehind'
        BY <2>2, <2>6 DEF RunsBehind
    <2> QED
        BY <2>5, <2>7
<1> QED
    BY <1>1, <1>2

\* A Run of the same instant has the generation of the pending occurrence, so
\* admission finds it by its request key.
LEMMA AdmitAhead ==
    ASSUME OInv, AInv, AdmitTask
    PROVE  /\ RunsBehind' /\ PendingBehind'
           /\ OccurrenceRunsOnce => OccurrenceRunsOnce'
<1>0. /\ task \in [Task -> TaskRow] /\ now \in 1 .. Horizon /\ runs \subseteq ScheduledRun
      /\ scheduler \in Step /\ scheduler.task \in Task /\ scheduler.due \in Nat \ {0}
    BY SchedulerType DEF AdmitTask, RunRead, OInv, TInv, TypeOK, Step, Instant
<1> DEFINE run == [task |-> SchedulerKey.task,
                   generation |-> SchedulerKey.generation,
                   due |-> SchedulerKey.due,
                   workflow |-> scheduler.snapshot.workflow,
                   admittedAt |-> now]
<1>1. /\ runs' = runs \cup {run} /\ task' = task /\ now' = now
    BY DEF AdmitTask, RunRead, WorldUnchanged
<1>2. /\ run.task = scheduler.task /\ run.due = scheduler.due
      /\ run.generation = scheduler.snapshot.generation
    BY DEF SchedulerKey, RequestKey
<1> HIDE DEF run
<1>3. task[scheduler.task].pending = scheduler.due
    BY DEF AdmitTask, RunRead, Startable, PendingIs
<1>4. task[scheduler.task].snapshot = scheduler.snapshot
    BY <1>3 DEF AdmitTask, RunRead, At, PendingIs, OInv, SInv, SameSnapshot
<1>5. PendingBehind'
    BY <1>1 DEF AInv, PendingBehind
<1>6. /\ run.due <= now
      /\ Pending(run.task)
      /\ run.due = task[run.task].pending
      /\ run.generation = task[run.task].snapshot.generation
    BY <1>0, <1>2, <1>3, <1>4 DEF Pending, AInv, PendingBehind
<1>7. RunsBehind'
    <2>1. run.due <= task[run.task].pending
        BY <1>0, <1>2, <1>6
    <2> QED
        BY <1>1, <1>6, <2>1 DEF AInv, RunsBehind, Pending
<1>8. \A r \in runs : ~ (r.task = run.task /\ r.due = run.due)
    <2> SUFFICES ASSUME NEW r \in runs, r.task = run.task, r.due = run.due
                 PROVE  FALSE
        OBVIOUS
    <2>1. r.generation = run.generation
        BY <1>6 DEF AInv, RunsBehind
    <2>2. [task |-> r.task, generation |-> r.generation, due |-> r.due] = SchedulerKey
        BY <1>2, <2>1 DEF SchedulerKey, RequestKey
    <2> QED
        BY <2>2 DEF AdmitTask, RunRead, Admitted
<1> QED
    BY <1>1, <1>5, <1>7, <1>8 DEF OccurrenceRunsOnce

\* The induction of OccurrenceRunsOnce; EditMayWait is needed for Tick alone.
LEMMA AheadStep ==
    ASSUME ~ EditMayWait, OInv, OInv', AInv, OccurrenceRunsOnce, [Next]_vars
    PROVE  AInv' /\ OccurrenceRunsOnce'
<1>0. now \in 1 .. Horizon
    BY DEF OInv, TInv, TypeOK
<1>1. ASSUME runs' = runs
      PROVE  OccurrenceRunsOnce'
    BY <1>1 DEF OccurrenceRunsOnce
<1>2. ASSUME now' = now, edit' = edit \/ edit' = NoEdit
      PROVE  EditAhead'
    BY <1>2 DEF AInv, EditAhead
<1>3. now <= now
    BY <1>0
<1>4. CASE OperatorStep
    BY <1>1, <1>3, <1>4, OperatorKeeps, OperatorAhead, OperatorEditAhead, AheadKept DEF AInv
<1>5. CASE SchedulerStep
    <2>1. now' = now /\ EditAhead'
        BY <1>2, <1>5, SchedulerWorld
    <2>2. CASE ClaimDueTask
        <3>1. runs' = runs
            BY <2>2 DEF ClaimDueTask, ClaimPending, ClaimInstant, TaskUnchanged
        <3> QED
            BY <1>1, <2>1, <2>2, <3>1, ClaimAhead DEF AInv
    <2>3. CASE FreezeStep
        BY <1>1, <1>3, <2>1, <2>3, FreezeAhead, AheadKept DEF AInv
    <2>4. CASE AdmitTask
        BY <2>1, <2>4, AdmitAhead DEF AInv
    <2>5. CASE \/ AdmitReplay
               \/ \E outcome \in {"transient", "permanent"} : AdmitRefused(outcome)
               \/ SchedulerStops
        <3>1. task' = task /\ runs' = runs
            BY <2>5 DEF AdmitReplay, RunRead, AdmitRefused, SchedulerStops, TaskUnchanged
        <3>2. \A u \in Task : NextAhead(u)
            BY <3>1 DEF NextAhead
        <3> QED
            BY <1>1, <1>3, <2>1, <3>1, <3>2, AheadKept DEF AInv
    <2>6. CASE FinishTaskOccurrence
        <3>1. runs' = runs
            BY <2>6 DEF FinishTaskOccurrence
        <3> QED
            BY <1>1, <1>3, <2>1, <2>6, <3>1, FinishAhead, AheadKept DEF AInv
    <2> QED
        BY <1>5, <2>2, <2>3, <2>4, <2>5, <2>6 DEF SchedulerStep, AdmitStep
<1>6. CASE (\E v \in 0 .. MaxVersion : RefreshCatalog(v)) \/ Tick \/ UNCHANGED vars
    <2>1. task' = task /\ runs' = runs /\ edit' = edit
        BY <1>6 DEF RefreshCatalog, Tick, TaskUnchanged, vars
    <2>2. \A u \in Task : NextAhead(u)
        BY <2>1 DEF NextAhead
    <2>3. now <= now'
        BY <1>0, <1>3, <1>6 DEF RefreshCatalog, Tick, vars
    <2>4. EditAhead'
        BY <1>2, <1>6, <2>1 DEF RefreshCatalog, Tick, vars, EditAhead
    <2> QED
        BY <1>1, <2>1, <2>2, <2>3, <2>4, AheadKept DEF AInv
<1> QED
    BY <1>4, <1>5, <1>6 DEF Next

\* A scheduled occurrence cannot admit duplicate Runs (ARCHITECTURE.md:415), if
\* no save waits for its transaction while the clock moves: crashes, retries,
\* edits and discards alone never start an instant twice.
THEOREM OccurrenceOnceCorrect == ~ EditMayWait => (Spec => []OccurrenceRunsOnce)
<1> SUFFICES ASSUME ~ EditMayWait PROVE Spec => []OccurrenceRunsOnce
    OBVIOUS
<1>1. Init => AInv /\ OccurrenceRunsOnce
    <2> SUFFICES ASSUME Init PROVE AInv /\ OccurrenceRunsOnce
        OBVIOUS
    <2>1. \A t \in Task : task[t].pending = 0
        BY DEF Init, NoTask
    <2> QED
        BY <2>1
        DEF Init, AInv, RunsBehind, PendingBehind, EditAhead, OccurrenceRunsOnce
<1>2. OInv /\ OInv' /\ (AInv /\ OccurrenceRunsOnce) /\ [Next]_vars =>
         (AInv /\ OccurrenceRunsOnce)'
    BY AheadStep
<1> QED
    BY <1>1, <1>2, OInvInit, OInvStep, PTL DEF Spec
=============================================================================
