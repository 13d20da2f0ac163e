---------------------------- MODULE TaskPolling ----------------------------
(***************************************************************************)
(* The loop around the transactions of TaskScheduler: RunTaskScheduler     *)
(* calls AdmitDueTasks when it starts and at every tick of its ticker, and *)
(* AdmitDueTasks handles occurrences until nothing is due, a batch is      *)
(* full, or one of its transactions fails.                                 *)
(*                                                                         *)
(* The clock has no end.  When it stands at the Horizon it moves on        *)
(* together with every instant of the state, so that only distances to the *)
(* present are kept: an instant that would leave the window is the first   *)
(* one of it, and of the runs only those stay that an occurrence still     *)
(* pending may ask for.                                                    *)
(***************************************************************************)
EXTENDS TaskScheduler

CONSTANTS
    Batch,     \* occurrences AdmitDueTasks handles at most
    Failing,   \* Tasks whose admission may fail at every attempt
    Shift      \* ticks the window moves by, a multiple of every cron period

ASSUME PollingAssumption ==
    /\ Batch \in Nat \ {0}
    /\ Failing \subseteq Task
    /\ Shift \in 1 .. Horizon - 1
    /\ \A c \in Cron, n \in 0 .. Horizon - Shift :
          NextInstant[c][n + Shift] = NextInstant[c][n] + Shift

VARIABLE handled   \* occurrences the present call has claimed

pollVars == <<vars, handled>>

\* A Task that was saved with its schedule on when the clock stood at 1.
SavedRow(c) ==
    [NoTask EXCEPT !.generation = 1, !.enabled = TRUE, !.cron = c,
                   !.repositories = Repository, !.next = NextInstant[c][1],
                   !.health = "healthy"]

PollInit ==
    /\ task \in [Task -> {SavedRow(c) : c \in Cron}]
    /\ runs = {}
    /\ available = Repository
    /\ catalog = 1
    /\ scheduler = Idle
    /\ edit = NoEdit
    /\ now = 1
    /\ handled = 0

-----------------------------------------------------------------------------
(* The clock. *)

Earlier(i, k) == IF i = 0 THEN 0 ELSE IF i > k THEN i - k ELSE 1

EarlierRow(row, k) ==
    [row EXCEPT !.next = Earlier(@, k), !.pending = Earlier(@, k),
                !.retryAt = Earlier(@, k), !.discarded = 0]

EarlierRun(run, k) == [run EXCEPT !.due = Earlier(@, k), !.admittedAt = 1]

Asked(run) == task[run.task].pending = run.due

Due(t) == RetryDue(t) \/ InstantDue(t)

PollOver == At("idle") /\ (handled = Batch \/ ~ \E t \in Task : Due(t))

\* The ticker: a call of AdmitDueTasks that is over waits for it.
NextPoll ==
    LET k == IF now < Horizon THEN 0 ELSE Shift IN
    /\ PollOver
    /\ edit = NoEdit \/ EditMayWait
    /\ now' = now + 1 - k
    /\ task' = [t \in Task |-> EarlierRow(task[t], k)]
    /\ runs' = {EarlierRun(run, k) : run \in {r \in runs : Asked(r)}}
    /\ edit' = IF edit = NoEdit THEN NoEdit ELSE [edit EXCEPT !.next = Earlier(@, k)]
    /\ handled' = 0
    /\ UNCHANGED <<available, catalog, scheduler>>

-----------------------------------------------------------------------------
(* One call of AdmitDueTasks. *)

ClaimNext ==
    /\ handled < Batch
    /\ ClaimDueTask
    /\ handled' = handled + 1

\* A failing transaction ends the call, and a server that starts again calls
\* AdmitDueTasks at once, which a tick later stands for.
StopPoll ==
    /\ SchedulerStops
    /\ handled' = Batch

PollStep == ClaimNext \/ StopPoll \/ NextPoll

TransactionStep ==
    /\ FreezeStep \/ AdmitStep \/ FinishTaskOccurrence
    /\ UNCHANGED handled

\* The catalog of workflows stays as it is.
WorldStep == OperatorStep /\ UNCHANGED handled

PollNext == PollStep \/ TransactionStep \/ WorldStep

HandledAt(t, step) == At(step) /\ scheduler.task = t /\ TransactionStep

\* What decides on an occurrence of t is no failure of the store.
Decides(t) == HandledAt(t, "admit") /\ scheduler'.outcome # "transient"
FinishesDecided(t) == HandledAt(t, "finish") /\ scheduler.outcome # "transient"

\* The loop goes on.  The server may stop at any step of it, but not every time
\* it comes to that step for one Task; the store may fail at every attempt to
\* admit an occurrence of the Failing, but of no other Task.
PollFairness ==
    /\ WF_pollVars(NextPoll) /\ WF_pollVars(TransactionStep)
    /\ SF_pollVars(ClaimNext)
    /\ \A t \in Task : SF_pollVars(HandledAt(t, "freeze"))
    /\ \A t \in Failing :
          SF_pollVars(HandledAt(t, "admit")) /\ SF_pollVars(HandledAt(t, "finish"))
    /\ \A t \in Task \ Failing :
          SF_pollVars(Decides(t)) /\ SF_pollVars(FinishesDecided(t))

PollSpec == PollInit /\ [][PollNext]_pollVars /\ PollFairness

-----------------------------------------------------------------------------
(* Liveness. *)

Waits(t) == Scheduled(t) /\ Pending(t) /\ task[t].retryAt > 0

\* Pending occurrences go before new instants, yet one that fails for ever
\* keeps no other Task waiting: its delay grows until the calls in between
\* have room, and every due instant is claimed and every due retry made.
DueClaimed == \A t \in Task : Due(t) ~> ~ Due(t)

\* A pending occurrence whose own admissions do not fail for ever is admitted,
\* blocked, discarded or paused in the end, though the server stops again and
\* again and the occurrences of the Failing come back for ever.
PendingSettles == \A t \in Task \ Failing : Waits(t) ~> ~ Waits(t)
=============================================================================
