----------------------------- MODULE WorkProofs -----------------------------
(***************************************************************************)
(* Theorems about Work for every set of sessions, runs, workers and        *)
(* repositories, and every value of the bounds: the rows of WorkLifecycle  *)
(* agree, it implements WorkContract, and what a session remembers over    *)
(* its attempts is kept.                                                   *)
(***************************************************************************)
EXTENDS WorkRefinement, FiniteSetTheorems, TLAPS

USE DEF Active, Materialized, Nonterminal, Terminal, Result, AttemptTerminal, Outcome,
        OpenStage

-----------------------------------------------------------------------------
(* What the row operators return. *)

LEMMA NumberType ==
    /\ 0 \in Commit /\ AttemptNo \subseteq Commit
    /\ 0 \in Lease /\ LeaseTicks \in Lease
    /\ \A i \in Lease : i > 0 => i - 1 \in Lease
    /\ StageCount \in StageNo
<1>1. MaxAttempts \in Nat \ {0} /\ LeaseTicks \in Nat \ {0} /\ StageCount \in Nat \ {0}
    BY BoundAssumption
<1> QED
    BY <1>1 DEF Commit, AttemptNo, Lease, StageNo

LEMMA SettledType ==
    ASSUME NEW row \in SessionRow, NEW state \in SessionState
    PROVE  Settled(row, state) \in SessionRow
BY DEF SessionRow, Settled

\* Updates of single columns.
LEMMA SessionRowType ==
    ASSUME NEW row \in SessionRow, NEW state \in SessionState, NEW b \in BOOLEAN
    PROVE  /\ [row EXCEPT !.state = state, !.owner = "worker_attempt"] \in SessionRow
           /\ [row EXCEPT !.state = state, !.started = b, !.owner = "worker_attempt"]
              \in SessionRow
           /\ [row EXCEPT !.cancel = b] \in SessionRow
BY DEF SessionRow

LEMMA ExecutionRowType ==
    ASSUME NEW row \in ExecutionRow, NEW state \in ExecutionState, NEW w \in Worker,
           NEW b \in BOOLEAN
    PROVE  /\ [row EXCEPT !.state = state] \in ExecutionRow
           /\ [row EXCEPT !.worker = w] \in ExecutionRow
           /\ [row EXCEPT !.cancel = b] \in ExecutionRow
           /\ [row EXCEPT !.state = state, !.worker = w, !.cancel = b] \in ExecutionRow
           /\ [state |-> state, worker |-> w, cancel |-> b] \in ExecutionRow
BY DEF ExecutionRow

LEMMA AttemptRowType ==
    ASSUME NEW row \in AttemptRow, NEW state \in AttemptState,
           NEW outcome \in Outcome, NEW b \in BOOLEAN
    PROVE  /\ [row EXCEPT !.state = state, !.started = b] \in AttemptRow
           /\ [row EXCEPT !.outcome = outcome] \in AttemptRow
           /\ [row EXCEPT !.answered = b] \in AttemptRow
BY DEF AttemptRow

LEMMA RenewedType ==
    ASSUME NEW row \in AttemptRow, NEW cancel \in BOOLEAN, NEW answered \in BOOLEAN
    PROVE  Renewed(row, cancel, answered) \in AttemptRow
<1>1. (IF answered THEN cancel ELSE row.known = 0) \in BOOLEAN
    OBVIOUS
<1>2. (IF answered THEN LeaseTicks ELSE row.known) \in Lease
    BY NumberType DEF AttemptRow
<1> QED
    BY <1>1, <1>2, NumberType DEF AttemptRow, Renewed

LEMMA AgedType ==
    ASSUME NEW row \in AttemptRow
    PROVE  Aged(row) \in AttemptRow
<1>1. ASSUME NEW i \in Lease PROVE Less(i) \in Lease
    BY NumberType DEF Less, Lease
<1>2. row.lease \in Lease /\ row.known \in Lease
    BY DEF AttemptRow
<1> QED
    BY <1>1, <1>2 DEF AttemptRow, Aged

LEMMA RowsTyped ==
    ASSUME TypeOK, NEW s \in Session, NEW n \in AttemptNo
    PROVE  /\ session[s] \in SessionRow
           /\ execution[s] \in ExecutionRow /\ execution[s].cancel \in BOOLEAN
           /\ attempt[s][n] \in AttemptRow /\ attempt[s][n].lease \in Lease
BY DEF TypeOK, AttemptRow, ExecutionRow

LEMMA EndedType ==
    ASSUME NEW row \in AttemptRow, NEW state \in AttemptState
    PROVE  Ended(row, state) \in AttemptRow
BY NumberType DEF AttemptRow, Ended

LEMMA StagesStoppedType ==
    ASSUME NEW stages \in [StageNo -> StageState], NEW result \in Result
    PROVE  StagesStopped(stages, result) \in [StageNo -> StageState]
BY DEF StagesStopped, StageState

LEMMA LifecycleType ==
    ASSUME NEW S, UpdateRunLifecycle(S), TypeOK
    PROVE  runTerminal' \in [Run -> BOOLEAN]
BY DEF UpdateRunLifecycle, TypeOK

LEMMA InitType == Init => TypeOK
BY NumberType
DEF Init, TypeOK, SessionRow, ExecutionRow, AttemptRow, NewSession, NoExecution, NoAttempt,
    SessionState, ExecutionState, AttemptState, StageState

-----------------------------------------------------------------------------
(* Every step keeps the tables well typed: one lemma per group of actions. *)

LEMMA AdmitType ==
    ASSUME TypeOK, NEW S \in SUBSET Session, NEW Q \in SUBSET S,
           NEW p \in [S -> Session \cup {NoSession}], Admit(S, Q, p)
    PROVE  TypeOK'
<1>1. session' \in [Session -> SessionRow]
    <2>1. ASSUME NEW s \in S, NEW state \in {"queued", "blocked"}
          PROVE  [NewSession EXCEPT !.state = state, !.predecessor = p[s]] \in SessionRow
        BY NumberType DEF SessionRow, NewSession, SessionState
    <2> QED
        BY <2>1 DEF Admit, TypeOK
<1>2. execution' \in [Session -> ExecutionRow]
    <2>1. PICK w \in [Q -> Worker] : execution' = [s \in Session |->
              IF s \in Q THEN [state |-> "queued", worker |-> w[s], cancel |-> FALSE]
              ELSE execution[s]]
        BY DEF Admit
    <2>2. ASSUME NEW s \in Q
          PROVE  [state |-> "queued", worker |-> w[s], cancel |-> FALSE] \in ExecutionRow
        BY DEF ExecutionRow, ExecutionState
    <2> QED
        BY <2>1, <2>2 DEF TypeOK
<1>3. UNCHANGED <<attempt, stage, runTerminal, enabled, routes>>
    BY DEF Admit
<1> QED
    BY <1>1, <1>2, <1>3 DEF TypeOK

LEMMA AdmissionType ==
    ASSUME TypeOK,
           \/ \E r \in Run : AdmitRun(r)
           \/ \E p, s \in Session : ReplaceWork(p, s)
    PROVE  TypeOK'
<1>1. ASSUME NEW r \in Run, AdmitRun(r) PROVE TypeOK'
    <2> DEFINE p == [s \in SessionsOf(r) |-> IF Leaves(s) = {} THEN NoSession
                                             ELSE CHOOSE t \in Leaves(s) : TRUE]
    <2>1. \A s \in Session : Leaves(s) \subseteq Session
        BY DEF Leaves, Matching
    <2>2. p \in [SessionsOf(r) -> Session \cup {NoSession}]
        BY <2>1 DEF SessionsOf
    <2>3. \E Q \in SUBSET SessionsOf(r) : Admit(SessionsOf(r), Q, p)
        BY <1>1 DEF AdmitRun
    <2> QED
        BY <2>2, <2>3, AdmitType DEF SessionsOf
<1>2. ASSUME NEW p \in Session, NEW s \in Session, ReplaceWork(p, s) PROVE TypeOK'
    <2>1. \E Q \in SUBSET {s} : Admit({s}, Q, [t \in {s} |-> p])
        BY <1>2 DEF ReplaceWork
    <2> QED
        BY <2>1, AdmitType
<1> QED
    BY <1>1, <1>2

LEMMA ClaimType ==
    ASSUME TypeOK, NEW w \in Worker, Claim(w)
    PROVE  TypeOK'
<1>1. PICK m \in FirstOf(Fairest(Materializable(w))), q \in FirstOf(Reroutable(w)) :
      \E c \in FirstOf(Fairest(Claimable(w, {m, q}))) : ClaimRows(w, m, q, c)
    BY DEF Claim
<1> PICK c \in FirstOf(Fairest(Claimable(w, {m, q}))) : ClaimRows(w, m, q, c)
    BY <1>1
<1>c. c \in Session \cup {NoSession}
    BY DEF FirstOf, Fairest, Claimable
<1>2. session' \in [Session -> SessionRow]
    <2>1. ASSUME NEW s \in Session
          PROVE  /\ [session[s] EXCEPT !.state = "preparing", !.owner = "worker_attempt"]
                    \in SessionRow
                 /\ Settled(session[s], "queued") \in SessionRow
        BY SettledType, SessionRowType DEF TypeOK, SessionState
    <2> QED
        BY <2>1 DEF ClaimRows, TypeOK
<1>3. execution' \in [Session -> ExecutionRow]
    BY ExecutionRowType DEF ClaimRows, TypeOK, ExecutionState
<1>4. attempt' \in [Session -> [AttemptNo -> AttemptRow]]
    <2>1. ASSUME NEW s \in Session PROVE ClaimedAttempt(s, w) \in AttemptRow
        BY NumberType
        DEF ClaimedAttempt, NoAttempt, AttemptRow, AttemptState, TypeOK, SessionRow
    <2>2. CASE c = NoSession
        BY <2>2 DEF ClaimRows, TypeOK
    <2>3. CASE c \in Session
        <3>1. PICK n \in AttemptNo : attempt' = [attempt EXCEPT ![c][n] = ClaimedAttempt(c, w)]
            BY <2>3, SessionAssumption DEF ClaimRows, InsertAttempt
        <3> QED
            BY <2>1, <2>3, <3>1 DEF TypeOK
    <2> QED
        BY <1>c, <2>2, <2>3
<1>5. UNCHANGED <<stage, runTerminal, enabled, routes>>
    BY DEF Claim
<1> QED
    BY <1>2, <1>3, <1>4, <1>5 DEF TypeOK

LEMMA WorkerRequestType ==
    ASSUME TypeOK, NEW s \in Session, NEW n \in AttemptNo, WorkerRequest(s, n)
    PROVE  TypeOK'
<1>1. CASE StartAttempt(s, n)
    <2>1. session' \in [Session -> SessionRow]
        <3>1. session[s].state = "preparing" =>
                  session' = [session EXCEPT ![s] =
                      [session[s] EXCEPT !.state = "running", !.started = TRUE,
                                         !.owner = "worker_attempt"]]
            BY <1>1 DEF StartAttempt, TypeOK
        <3>2. [session[s] EXCEPT !.state = "running", !.started = TRUE,
                                 !.owner = "worker_attempt"] \in SessionRow
            BY RowsTyped, SessionRowType DEF SessionState
        <3>3. session[s].state # "preparing" => session' = session
            BY <1>1 DEF StartAttempt
        <3> QED
            BY <3>1, <3>2, <3>3 DEF TypeOK
    <2>2. execution' \in [Session -> ExecutionRow]
        <3>1. execution[s].state = "preparing" =>
                  execution' = [execution EXCEPT ![s] = [execution[s] EXCEPT !.state = "running"]]
            BY <1>1 DEF StartAttempt, TypeOK
        <3>2. [execution[s] EXCEPT !.state = "running"] \in ExecutionRow
            BY DEF TypeOK, ExecutionRow, ExecutionState
        <3>3. execution[s].state # "preparing" => execution' = execution
            BY <1>1 DEF StartAttempt
        <3> QED
            BY <3>1, <3>2, <3>3 DEF TypeOK
    <2>3. attempt' \in [Session -> [AttemptNo -> AttemptRow]]
        <3>1. attempt' = [attempt EXCEPT ![s][n] =
                  [attempt[s][n] EXCEPT !.state = "running", !.started = TRUE]]
            BY <1>1 DEF StartAttempt, TypeOK
        <3>2. [attempt[s][n] EXCEPT !.state = "running", !.started = TRUE] \in AttemptRow
            BY RowsTyped, AttemptRowType, NumberType DEF AttemptState
        <3> QED
            BY <3>1, <3>2 DEF TypeOK
    <2> QED
        BY <1>1, <2>1, <2>2, <2>3 DEF StartAttempt, TypeOK
<1>2. CASE RuntimeStarted(s, n)
    BY <1>2, NumberType DEF RuntimeStarted, TypeOK, SessionRow
<1>3. CASE Heartbeat(s, n)
    <2>1. PICK answered \in BOOLEAN : attempt' = [attempt EXCEPT ![s][n] =
              Renewed(attempt[s][n], execution[s].cancel, answered)]
        BY <1>3 DEF Heartbeat, TypeOK
    <2>2. Renewed(attempt[s][n], execution[s].cancel, answered) \in AttemptRow
        BY RowsTyped, RenewedType
    <2>3. UNCHANGED <<session, execution, stage, runTerminal, enabled, routes>>
        BY <1>3 DEF Heartbeat
    <2> QED
        BY <2>1, <2>2, <2>3 DEF TypeOK
<1>4. ASSUME NEW i \in StageNo, StartStage(s, n, i) PROVE TypeOK'
    BY <1>4 DEF StartStage, TypeOK, StageState
<1>5. ASSUME NEW i \in StageNo, NEW result \in Result, CompleteStage(s, n, i, result)
      PROVE  TypeOK'
    BY <1>5 DEF CompleteStage, TypeOK, StageState
<1>6. ASSUME NEW outcome \in Outcome, ReportOutcome(s, n, outcome) PROVE TypeOK'
    <2>1. attempt' = [attempt EXCEPT ![s][n] = [attempt[s][n] EXCEPT !.outcome = outcome]]
        BY <1>6 DEF ReportOutcome, TypeOK
    <2>2. [attempt[s][n] EXCEPT !.outcome = outcome] \in AttemptRow
        BY RowsTyped, AttemptRowType, NumberType DEF AttemptState
    <2> QED
        BY <1>6, <2>1, <2>2 DEF ReportOutcome, TypeOK
<1>7. ASSUME NEW result \in Result, CompleteAttempt(s, n, result) PROVE TypeOK'
    <2>1. OutcomeOf(s, n) \in Outcome \cup {"none"}
        BY DEF OutcomeOf, TypeOK, AttemptRow
    <2>2. FinalResult(s, n, result) \in Result
        BY DEF FinalResult
    <2>3. WorkResult(s, n, result) \in SessionState
        <3>1. CASE FinalResult(s, n, result) = "succeeded" /\ RunOf[s] \in AgentUpdateRuns
            <4>1. OutcomeOf(s, n) # "none"
                BY <3>1 DEF FinalResult, MissingOutcome
            <4> QED
                BY <2>1, <3>1, <4>1 DEF WorkResult, SessionState
        <3> QED
            BY <2>2, <3>1 DEF WorkResult, SessionState
    <2>4. session' \in [Session -> SessionRow]
        <3>1. Settled(session[s], WorkResult(s, n, result)) \in SessionRow
            BY <2>3, SettledType DEF TypeOK
        <3>2. Checkpoint(Settled(session[s], WorkResult(s, n, result)), n, OutcomeOf(s, n))
              \in SessionRow
            BY <3>1, NumberType DEF Checkpoint, SessionRow
        <3> QED
            BY <1>7, <3>2 DEF CompleteAttempt, TypeOK
    <2>5. execution' \in [Session -> ExecutionRow]
        BY <1>7, <2>2 DEF CompleteAttempt, TypeOK, ExecutionEnded, ExecutionRow, ExecutionState
    <2>6. attempt' \in [Session -> [AttemptNo -> AttemptRow]]
        BY <1>7, <2>2, EndedType DEF CompleteAttempt, TypeOK, AttemptState
    <2>7. stage' \in [Session -> [StageNo -> StageState]]
        <3>1. [stage[s] EXCEPT ![StageCount] = "failed"] \in [StageNo -> StageState]
            BY DEF TypeOK, StageState
        <3>2. [i \in StageNo |-> "succeeded"] \in [StageNo -> StageState]
            BY DEF StageState
        <3>3. StagesCompleted(s, n, result) \in [StageNo -> StageState]
            BY <2>2, <3>1, <3>2, StagesStoppedType DEF StagesCompleted, TypeOK
        <3> QED
            BY <1>7, <3>3 DEF CompleteAttempt, TypeOK
    <2>8. runTerminal' \in [Run -> BOOLEAN]
        BY <1>7, LifecycleType DEF CompleteAttempt
    <2> QED
        BY <1>7, <2>4, <2>5, <2>6, <2>7, <2>8 DEF CompleteAttempt, TypeOK
<1> QED
    BY <1>1, <1>2, <1>3, <1>4, <1>5, <1>6, <1>7 DEF WorkerRequest

LEMMA TickType ==
    ASSUME TypeOK, Tick
    PROVE  TypeOK'
<1>1. ASSUME NEW s \in Session, NEW n \in AttemptNo
      PROVE  Aged(attempt[s][n]) \in AttemptRow
    BY RowsTyped, AgedType
<1> QED
    BY <1>1 DEF Tick, TypeOK

LEMMA SweepType ==
    ASSUME TypeOK, SweepExpired
    PROVE  TypeOK'
<1> DEFINE Lapsed == {s \in Session : \E n \in AttemptNo : Expired(s, n)}
           Last(s) == CHOOSE i \in AttemptNo : Expired(s, i)
<1>1. session' \in [Session -> SessionRow]
    <2>1. ASSUME NEW s \in Lapsed
          PROVE  Checkpoint(Settled(session[s], "failed"), Last(s), attempt[s][Last(s)].outcome)
                 \in SessionRow
        <3>1. Last(s) \in AttemptNo
            OBVIOUS
        <3>2. Settled(session[s], "failed") \in SessionRow
            BY SettledType DEF TypeOK, SessionState
        <3> QED
            BY <3>1, <3>2, NumberType DEF Checkpoint, SessionRow
    <2> QED
        BY <2>1 DEF SweepExpired, TypeOK
<1>2. execution' \in [Session -> ExecutionRow]
    BY DEF SweepExpired, TypeOK, ExecutionEnded, ExecutionRow, ExecutionState
<1>3. attempt' \in [Session -> [AttemptNo -> AttemptRow]]
    BY EndedType DEF SweepExpired, TypeOK, AttemptState
<1>4. stage' \in [Session -> [StageNo -> StageState]]
    BY StagesStoppedType DEF SweepExpired, TypeOK
<1>5. runTerminal' \in [Run -> BOOLEAN]
    BY LifecycleType DEF SweepExpired
<1> QED
    BY <1>1, <1>2, <1>3, <1>4, <1>5 DEF SweepExpired, TypeOK

LEMMA CancelType ==
    ASSUME TypeOK, NEW S \in SUBSET Session, Cancel(S)
    PROVE  TypeOK'
<1>1. session' \in [Session -> SessionRow]
    <2>1. ASSUME NEW s \in Session PROVE CancelledSession(session[s]) \in SessionRow
        <3>1. [session[s] EXCEPT !.cancel = TRUE] \in SessionRow
            BY SessionRowType DEF TypeOK, SessionState
        <3>2. Settled(session[s], "cancelled") \in SessionRow
            BY SettledType DEF TypeOK, SessionState
        <3> QED
            BY <3>1, <3>2 DEF CancelledSession, TypeOK
    <2> QED
        BY <2>1 DEF Cancel, TypeOK
<1>2. execution' \in [Session -> ExecutionRow]
    BY DEF Cancel, CancelledExecution, TypeOK, ExecutionRow, ExecutionState
<1>3. stage' \in [Session -> [StageNo -> StageState]]
    BY StagesStoppedType DEF Cancel, TypeOK
<1>4. runTerminal' \in [Run -> BOOLEAN]
    BY LifecycleType DEF Cancel
<1> QED
    BY <1>1, <1>2, <1>3, <1>4 DEF Cancel, TypeOK

LEMMA RetryType ==
    ASSUME TypeOK, NEW s \in Session, RetrySession(s)
    PROVE  TypeOK'
<1>1. session' \in [Session -> SessionRow]
    <2>1. MayRepeat(session[s]) \in BOOLEAN
        BY DEF MayRepeat
    <2>2. ASSUME NEW b \in BOOLEAN
          PROVE  [Settled(session[s], "queued") EXCEPT !.cancel = FALSE, !.started = FALSE,
                                                       !.mayRepeat = b] \in SessionRow
        <3>1. Settled(session[s], "queued") \in SessionRow
            BY SettledType DEF TypeOK, SessionState
        <3> QED
            BY <3>1 DEF SessionRow
    <2> QED
        BY <2>1, <2>2 DEF RetrySession, TypeOK
<1>2. execution' \in [Session -> ExecutionRow]
    BY DEF RetrySession, TypeOK, ExecutionRow, ExecutionState
<1>3. stage' \in [Session -> [StageNo -> StageState]]
    BY DEF RetrySession, TypeOK, StageState
<1> QED
    BY <1>1, <1>2, <1>3 DEF RetrySession, TypeOK

LEMMA AnswerType ==
    ASSUME TypeOK, NEW s \in Session, NEW n \in AttemptNo, AnswerWork(s, n)
    PROVE  TypeOK'
<1>1. session' \in [Session -> SessionRow]
    <2>1. ASSUME NEW state \in {"queued", "blocked"}
          PROVE  [Settled(session[s], state) EXCEPT !.cancel = FALSE] \in SessionRow
        <3>1. Settled(session[s], state) \in SessionRow
            BY SettledType DEF TypeOK, SessionState
        <3> QED
            BY <3>1 DEF SessionRow
    <2> QED
        BY <2>1 DEF AnswerWork, TypeOK
<1>2. execution' \in [Session -> ExecutionRow]
    <2>1. ASSUME NEW w \in Worker
          PROVE  [state |-> "queued", worker |-> w, cancel |-> FALSE] \in ExecutionRow
        BY DEF ExecutionRow, ExecutionState
    <2> QED
        BY <2>1 DEF AnswerWork, TypeOK
<1>3. attempt' \in [Session -> [AttemptNo -> AttemptRow]]
    <2>1. attempt' = [attempt EXCEPT ![s][n] = [attempt[s][n] EXCEPT !.answered = TRUE]]
        BY DEF AnswerWork, TypeOK
    <2>2. [attempt[s][n] EXCEPT !.answered = TRUE] \in AttemptRow
        BY RowsTyped, AttemptRowType, NumberType DEF AttemptState
    <2> QED
        BY <2>1, <2>2 DEF TypeOK
<1>4. stage' \in [Session -> [StageNo -> StageState]]
    BY NumberType DEF AnswerWork, TypeOK, StageState
<1> QED
    BY <1>1, <1>2, <1>3, <1>4 DEF AnswerWork, TypeOK

LEMMA DisableType ==
    ASSUME TypeOK, NEW p \in Repository, DisableRepository(p)
    PROVE  TypeOK'
<1>1. session' \in [Session -> SessionRow]
    BY SettledType DEF DisableRepository, TypeOK, SessionState
<1>2. execution' \in [Session -> ExecutionRow]
    BY DEF DisableRepository, TypeOK, NoExecution, ExecutionRow, ExecutionState
<1> QED
    BY <1>1, <1>2 DEF DisableRepository, TypeOK

LEMMA NextType == TypeOK /\ [Next]_vars => TypeOK'
<1> SUFFICES ASSUME TypeOK, [Next]_vars PROVE TypeOK'
    OBVIOUS
<1>1. CASE OperatorRequest
    <2>1. ASSUME NEW s \in Session, CancelSession(s) PROVE TypeOK'
        BY <2>1, CancelType DEF CancelSession
    <2>2. ASSUME NEW r \in Run, CancelRun(r) PROVE TypeOK'
        BY <2>2, CancelType DEF CancelRun, SessionsOf
    <2>3. ASSUME NEW p \in Repository, EnableRepository(p) PROVE TypeOK'
        BY <2>3 DEF EnableRepository, TypeOK
    <2> QED
        BY <1>1, <2>1, <2>2, <2>3, AdmissionType, RetryType, AnswerType, DisableType
        DEF OperatorRequest
<1>2. ASSUME NEW w \in Worker, ChangeRoutes(w) PROVE TypeOK'
    BY <1>2 DEF ChangeRoutes, TypeOK
<1>3. CASE UNCHANGED vars
    BY <1>3 DEF vars, TypeOK
<1> QED
    BY <1>1, <1>2, <1>3, ClaimType, WorkerRequestType, TickType, SweepType DEF Next

\* Every table holds rows of its schema, whatever the requests and their order.
THEOREM TypeCorrect == Spec => []TypeOK
BY InitType, NextType, PTL DEF Spec

-----------------------------------------------------------------------------
(* Who runs a session: the session, execution and attempt rows agree, at   *)
(* most one attempt is active, no active Work is without one, and a        *)
(* cancellation is known to all of them.  Neither part holds by itself:    *)
(* a claim makes a second active attempt unless queued Work has none, and  *)
(* that rests on the rows agreeing, and so on.  Agree is the conjunction   *)
(* that every step preserves.                                              *)

ActiveAt(x) == {n \in AttemptNo : attempt[x][n].state \in Active}

Agree(x) ==
    /\ \A i, n \in ActiveAt(x) : i = n
    /\ \A n \in ActiveAt(x) :
        /\ session[x].state = attempt[x][n].state
        /\ session[x].owner = "worker_attempt"
        /\ execution[x].state = attempt[x][n].state
        /\ execution[x].worker = attempt[x][n].worker
    /\ session[x].state \in Active => ActiveAt(x) # {}
    /\ session[x].state = "queued" <=> execution[x].state = "queued"
    /\ session[x].owner = "worker_attempt" => session[x].state \in Active
    /\ session[x].state \in Active => session[x].cancel = execution[x].cancel
    /\ session[x].state \in Nonterminal \ Active => ~session[x].cancel

Agreement == TypeOK /\ \A x \in Session : Agree(x)

-----------------------------------------------------------------------------
(* Three ways in which a step leaves a session in agreement. *)

\* Nothing changes that Agree reads.
LEMMA AgreeKept ==
    ASSUME NEW x \in Session, Agree(x),
           session'[x].state = session[x].state, session'[x].owner = session[x].owner,
           session'[x].cancel = session[x].cancel,
           execution'[x].state = execution[x].state, execution'[x].cancel = execution[x].cancel,
           execution'[x].worker = execution[x].worker,
           \A n \in AttemptNo : /\ attempt'[x][n].state = attempt[x][n].state
                                /\ attempt'[x][n].worker = attempt[x][n].worker
    PROVE  Agree(x)'
<1>1. ActiveAt(x)' = ActiveAt(x)
    BY DEF ActiveAt
<1>2. \A n \in ActiveAt(x) : n \in AttemptNo
    BY DEF ActiveAt
<1> QED
    BY <1>1, <1>2 DEF Agree

\* The session is left with nobody to run it.
LEMMA AgreeIdle ==
    ASSUME NEW x \in Session,
           ActiveAt(x)' = {},
           session'[x].state \notin Active, session'[x].owner # "worker_attempt",
           session'[x].state = "queued" <=> execution'[x].state = "queued",
           session'[x].state \in Nonterminal => ~session'[x].cancel
    PROVE  Agree(x)'
BY DEF Agree

\* One attempt is left active, and all rows name it.
LEMMA AgreeOwned ==
    ASSUME NEW x \in Session, NEW n \in AttemptNo,
           ActiveAt(x)' = {n}, attempt'[x][n].state \in Active,
           session'[x].state = attempt'[x][n].state, session'[x].owner = "worker_attempt",
           execution'[x].state = attempt'[x][n].state,
           execution'[x].worker = attempt'[x][n].worker,
           session'[x].cancel = execution'[x].cancel
    PROVE  Agree(x)'
BY DEF Agree

LEMMA NobodyRuns ==
    ASSUME NEW x \in Session, Agree(x), session[x].state \notin Active
    PROVE  ActiveAt(x) = {}
BY DEF Agree, ActiveAt

LEMMA OneRuns ==
    ASSUME NEW x \in Session, Agree(x), NEW n \in AttemptNo, attempt[x][n].state \in Active
    PROVE  /\ ActiveAt(x) = {n}
           /\ session[x].state = attempt[x][n].state
           /\ session[x].owner = "worker_attempt"
           /\ execution[x].state = attempt[x][n].state
           /\ execution[x].worker = attempt[x][n].worker
           /\ session[x].cancel = execution[x].cancel
<1>1. n \in ActiveAt(x)
    BY DEF ActiveAt
<1> QED
    BY <1>1 DEF Agree

\* The owner column has two values.
LEMMA OwnerFree ==
    ASSUME TypeOK, NEW x \in Session, Agree(x), session[x].state \notin Active
    PROVE  session[x].owner = "none"
<1>1. session[x].owner \in {"none", "worker_attempt"}
    BY DEF TypeOK, SessionRow
<1> QED
    BY <1>1 DEF Agree

\* Work that succeeds by agent_update ends as the agent said, and it said something.
LEMMA OutcomeKnown ==
    ASSUME TypeOK, NEW s \in Session, NEW n \in AttemptNo, NEW result \in Result,
           FinalResult(s, n, result) = "succeeded", RunOf[s] \in AgentUpdateRuns
    PROVE  OutcomeOf(s, n) \in Outcome
<1>1. OutcomeOf(s, n) \in Outcome \cup {"none"}
    BY DEF OutcomeOf, TypeOK, AttemptRow
<1>2. OutcomeOf(s, n) # "none"
    BY DEF FinalResult, MissingOutcome
<1> QED
    BY <1>1, <1>2

-----------------------------------------------------------------------------
(* One lemma per group of actions. *)

LEMMA AdmitAgrees ==
    ASSUME Agreement, NEW S \in SUBSET Session, NEW Q \in SUBSET S,
           NEW p \in [S -> Session \cup {NoSession}], Admit(S, Q, p),
           \A s \in S : session[s].state = "unadmitted"
    PROVE  \A x \in Session : Agree(x)'
<1> SUFFICES ASSUME NEW x \in Session PROVE Agree(x)'
    OBVIOUS
<1>0. attempt' = attempt /\ Agree(x)
    BY DEF Admit, Agreement
<1>1. CASE x \in S
    <2>1. ActiveAt(x)' = {}
        BY <1>0, <1>1, NobodyRuns DEF ActiveAt
    <2>2. /\ session'[x].state = IF x \in Q THEN "queued" ELSE "blocked"
          /\ session'[x].owner = "none"
          /\ session'[x].cancel = FALSE
        BY <1>1 DEF Admit, NewSession
    <2>3. /\ x \in Q => execution'[x].state = "queued"
          /\ x \notin Q => execution'[x] = execution[x]
        <3>1. PICK w \in [Q -> Worker] : execution' = [s \in Session |->
                  IF s \in Q THEN [state |-> "queued", worker |-> w[s], cancel |-> FALSE]
                  ELSE execution[s]]
            BY DEF Admit
        <3> QED
            BY <3>1
    <2>4. execution[x].state # "queued"
        BY <1>0, <1>1 DEF Agree
    <2> QED
        BY <2>1, <2>2, <2>3, <2>4, AgreeIdle
<1>2. CASE x \notin S
    <2>1. session'[x] = session[x] /\ execution'[x] = execution[x]
        BY <1>2 DEF Admit
    <2> QED
        BY <1>0, <2>1, AgreeKept
<1> QED
    BY <1>1, <1>2

LEMMA AdmissionAgrees ==
    ASSUME Agreement,
           \/ \E r \in Run : AdmitRun(r)
           \/ \E p, s \in Session : ReplaceWork(p, s)
    PROVE  \A x \in Session : Agree(x)'
<1>1. ASSUME NEW r \in Run, AdmitRun(r) PROVE \A x \in Session : Agree(x)'
    <2> DEFINE p == [s \in SessionsOf(r) |-> IF Leaves(s) = {} THEN NoSession
                                             ELSE CHOOSE t \in Leaves(s) : TRUE]
    <2>1. \A s \in Session : Leaves(s) \subseteq Session
        BY DEF Leaves, Matching
    <2>2. p \in [SessionsOf(r) -> Session \cup {NoSession}]
        BY <2>1 DEF SessionsOf
    <2>3. \E Q \in SUBSET SessionsOf(r) : Admit(SessionsOf(r), Q, p)
        BY <1>1 DEF AdmitRun
    <2>4. \A s \in SessionsOf(r) : session[s].state = "unadmitted"
        BY <1>1 DEF AdmitRun
    <2> QED
        BY <2>2, <2>3, <2>4, AdmitAgrees DEF SessionsOf
<1>2. ASSUME NEW p \in Session, NEW s \in Session, ReplaceWork(p, s)
      PROVE  \A x \in Session : Agree(x)'
    <2>1. \E Q \in SUBSET {s} : Admit({s}, Q, [t \in {s} |-> p])
        BY <1>2 DEF ReplaceWork
    <2>2. session[s].state = "unadmitted"
        BY <1>2 DEF ReplaceWork
    <2> QED
        BY <2>1, <2>2, AdmitAgrees
<1> QED
    BY <1>1, <1>2

LEMMA ClaimAgrees ==
    ASSUME Agreement, NEW w \in Worker, Claim(w)
    PROVE  \A x \in Session : Agree(x)'
<1>1. PICK m \in FirstOf(Fairest(Materializable(w))), q \in FirstOf(Reroutable(w)) :
      \E c \in FirstOf(Fairest(Claimable(w, {m, q}))) : ClaimRows(w, m, q, c)
    BY DEF Claim
<1> PICK c \in FirstOf(Fairest(Claimable(w, {m, q}))) : ClaimRows(w, m, q, c)
    BY <1>1
<1> SUFFICES ASSUME NEW x \in Session PROVE Agree(x)'
    OBVIOUS
<1>2. /\ Agree(x)
      /\ x = m => session[x].state = "blocked"
      /\ x = q => session[x].state = "queued" /\ execution[x].state = "queued"
      /\ x = c => x = m \/ x = q \/ execution[x].state = "queued"
    <2>1. NoSession \notin Session
        BY SessionAssumption
    <2> QED
        BY <2>1 DEF FirstOf, Fairest, Materializable, Reroutable, Claimable, Agreement
<1>3. x # c => attempt'[x] = attempt[x]
    BY DEF ClaimRows, InsertAttempt, Agreement, TypeOK
<1>4. CASE x = c
    <2>1. (x = m /\ session[x].state = "blocked") \/ session[x].state = "queued"
        BY <1>2, <1>4 DEF Agree
    <2>2. ActiveAt(x) = {}
        BY <1>2, <2>1, NobodyRuns
    <2>3. PICK n \in AttemptNo :
            attempt' = [attempt EXCEPT ![x][n] = ClaimedAttempt(x, w)]
        BY <1>4, SessionAssumption DEF ClaimRows, InsertAttempt
    <2>4. /\ attempt'[x][n].state = "preparing" /\ attempt'[x][n].worker = w
          /\ \A i \in AttemptNo \ {n} : attempt'[x][i] = attempt[x][i]
        BY <2>3 DEF Agreement, TypeOK, ClaimedAttempt, NoAttempt
    <2>5. ActiveAt(x)' = {n}
        BY <2>2, <2>4 DEF ActiveAt
    <2>6. /\ session'[x].state = "preparing" /\ session'[x].owner = "worker_attempt"
          /\ session'[x].cancel = session[x].cancel
        BY <1>4, <2>1 DEF ClaimRows, Agreement, TypeOK, SessionRow
    <2>7. /\ execution'[x].state = "preparing" /\ execution'[x].worker = w
          /\ execution'[x].cancel = FALSE
        BY <1>4 DEF ClaimRows, Agreement, TypeOK, ExecutionRow
    <2>8. session[x].cancel = FALSE
        BY <1>2, <2>1 DEF Agree, Agreement, TypeOK, SessionRow
    <2> QED
        BY <2>4, <2>5, <2>6, <2>7, <2>8, AgreeOwned
<1>5. CASE x # c /\ x = m
    <2>1. ActiveAt(x)' = {}
        BY <1>2, <1>3, <1>5, NobodyRuns DEF ActiveAt
    <2>2. /\ session'[x].state = "queued" /\ session'[x].owner = "none"
          /\ session'[x].cancel = session[x].cancel
        BY <1>5 DEF ClaimRows, Settled, Agreement, TypeOK, SessionRow
    <2>3. execution'[x].state = "queued"
        BY <1>5 DEF ClaimRows
    <2>4. ~session[x].cancel
        BY <1>2, <1>5 DEF Agree
    <2> QED
        BY <2>1, <2>2, <2>3, <2>4, AgreeIdle
<1>6. CASE x # c /\ x # m
    <2>1. session'[x] = session[x]
        BY <1>6 DEF ClaimRows
    <2>2. CASE x = q
        <3>1. ActiveAt(x)' = {}
            BY <1>2, <1>3, <1>6, <2>2, NobodyRuns DEF ActiveAt
        <3>2. execution'[x].state = "queued"
            BY <1>2, <1>6, <2>2 DEF ClaimRows, Agreement, TypeOK, ExecutionRow
        <3>3. session[x].owner = "none" /\ ~session[x].cancel
            BY <1>2, <2>2, OwnerFree DEF Agree, Agreement
        <3> QED
            BY <1>2, <2>1, <2>2, <3>1, <3>2, <3>3, AgreeIdle
    <2>3. CASE x # q
        <3>1. execution'[x] = execution[x]
            BY <1>6, <2>3 DEF ClaimRows
        <3> QED
            BY <1>2, <1>3, <1>6, <2>1, <3>1, AgreeKept
    <2> QED
        BY <2>2, <2>3
<1> QED
    BY <1>4, <1>5, <1>6

\* A request about attempt n of session s changes the rows of s alone.
LEMMA WorkerRequestAgrees ==
    ASSUME Agreement, NEW s \in Session, NEW n \in AttemptNo, WorkerRequest(s, n)
    PROVE  \A x \in Session : Agree(x)'
<1> SUFFICES ASSUME NEW x \in Session PROVE Agree(x)'
    OBVIOUS
<1>0. Agree(x) /\ Agree(s)
    BY DEF Agreement
<1>1. CASE StartAttempt(s, n)
    <2>1. CASE x = s
        <3>1. attempt[s][n].state = "preparing"
            BY <1>1 DEF StartAttempt
        <3>2. /\ ActiveAt(s) = {n}
              /\ session[s].state = "preparing" /\ execution[s].state = "preparing"
              /\ execution[s].worker = attempt[s][n].worker
              /\ session[s].cancel = execution[s].cancel
            BY <1>0, <3>1, OneRuns
        <3>3. /\ attempt'[s][n].state = "running"
              /\ attempt'[s][n].worker = attempt[s][n].worker
              /\ \A i \in AttemptNo \ {n} : attempt'[s][i] = attempt[s][i]
            BY <1>1 DEF StartAttempt, Agreement, TypeOK, AttemptRow
        <3>4. ActiveAt(s)' = {n}
            BY <3>2, <3>3 DEF ActiveAt
        <3>5. /\ session'[s].state = "running" /\ session'[s].owner = "worker_attempt"
              /\ session'[s].cancel = session[s].cancel
            BY <1>1, <3>2 DEF StartAttempt, Agreement, TypeOK, SessionRow
        <3>6. /\ execution'[s].state = "running" /\ execution'[s].cancel = execution[s].cancel
              /\ execution'[s].worker = execution[s].worker
            BY <1>1, <3>2 DEF StartAttempt, Agreement, TypeOK, ExecutionRow
        <3> QED
            BY <2>1, <3>2, <3>3, <3>4, <3>5, <3>6, AgreeOwned
    <2>2. CASE x # s
        <3>1. /\ session'[x] = session[x] /\ execution'[x] = execution[x]
              /\ attempt'[x] = attempt[x]
            BY <1>1, <2>2 DEF StartAttempt, Agreement, TypeOK
        <3> QED
            BY <1>0, <3>1, AgreeKept
    <2> QED
        BY <2>1, <2>2
<1>2. CASE RuntimeStarted(s, n)
    <2>1. /\ session'[x].state = session[x].state /\ session'[x].owner = session[x].owner
          /\ session'[x].cancel = session[x].cancel
        BY <1>2 DEF RuntimeStarted, Agreement, TypeOK, SessionRow
    <2>2. execution' = execution /\ attempt' = attempt
        BY <1>2 DEF RuntimeStarted
    <2> QED
        BY <1>0, <2>1, <2>2, AgreeKept
<1>3. ASSUME \/ Heartbeat(s, n)
             \/ \E outcome \in Outcome : ReportOutcome(s, n, outcome)
      PROVE  Agree(x)'
    <2>1. session' = session /\ execution' = execution
        BY <1>3 DEF Heartbeat, ReportOutcome
    <2>2. ASSUME NEW i \in AttemptNo
          PROVE  /\ attempt'[x][i].state = attempt[x][i].state
                 /\ attempt'[x][i].worker = attempt[x][i].worker
        <3>1. CASE Heartbeat(s, n)
            <4>1. PICK answered \in BOOLEAN : attempt' = [attempt EXCEPT ![s][n] =
                      Renewed(attempt[s][n], execution[s].cancel, answered)]
                BY <3>1 DEF Heartbeat, Agreement, TypeOK
            <4> QED
                BY <4>1 DEF Renewed, Agreement, TypeOK, AttemptRow
        <3>2. ASSUME NEW outcome \in Outcome, ReportOutcome(s, n, outcome)
              PROVE  /\ attempt'[x][i].state = attempt[x][i].state
                     /\ attempt'[x][i].worker = attempt[x][i].worker
            <4>1. attempt' = [attempt EXCEPT ![s][n] =
                      [attempt[s][n] EXCEPT !.outcome = outcome]]
                BY <3>2 DEF ReportOutcome, Agreement, TypeOK
            <4> QED
                BY <4>1 DEF Agreement, TypeOK, AttemptRow
        <3> QED
            BY <1>3, <3>1, <3>2
    <2> QED
        BY <1>0, <2>1, <2>2, AgreeKept
<1>4. ASSUME \/ \E i \in StageNo : StartStage(s, n, i)
             \/ \E i \in StageNo, result \in Result : CompleteStage(s, n, i, result)
      PROVE  Agree(x)'
    <2>1. session' = session /\ execution' = execution /\ attempt' = attempt
        BY <1>4 DEF StartStage, CompleteStage
    <2> QED
        BY <1>0, <2>1, AgreeKept
<1>5. ASSUME NEW result \in Result, CompleteAttempt(s, n, result) PROVE Agree(x)'
    <2>1. CASE x = s
        <3>1. /\ attempt[s][n].state \in Active
              /\ FinalResult(s, n, result) \in Result
            BY <1>5 DEF CompleteAttempt, LeaseHeld, FinalResult
        <3>2. /\ ActiveAt(s) = {n}
              /\ session[s].state = attempt[s][n].state /\ execution[s].state \in Active
            BY <1>0, <3>1, OneRuns
        <3>9. session[s].state \in Settles(s, n, result)
            BY <1>5, <3>1, <3>2 DEF CompleteAttempt, Settles
        <3>3. WorkResult(s, n, result) \in Terminal \cup {"needs-input"}
            BY <3>1, OutcomeKnown, <1>5 DEF WorkResult, Agreement
        <3>4. /\ attempt'[s][n].state = FinalResult(s, n, result)
              /\ \A i \in AttemptNo \ {n} : attempt'[s][i] = attempt[s][i]
            BY <1>5 DEF CompleteAttempt, Ended, Agreement, TypeOK, AttemptRow
        <3>5. ActiveAt(s)' = {}
            BY <3>1, <3>2, <3>4 DEF ActiveAt
        <3>6. /\ session'[s].state = WorkResult(s, n, result) /\ session'[s].owner = "none"
              /\ session'[s].cancel = session[s].cancel
            BY <1>5, <3>9 DEF CompleteAttempt, Settled, Checkpoint, Agreement, TypeOK, SessionRow
        <3>7. execution'[s].state = FinalResult(s, n, result)
            BY <1>5, <3>2 DEF CompleteAttempt, ExecutionEnded, Agreement, TypeOK, ExecutionRow
        <3>8. WorkResult(s, n, result) = "needs-input" => ~session[s].cancel
            BY <1>0, <3>1, OneRuns DEF WorkResult, FinalResult
        <3> QED
            BY <2>1, <3>1, <3>3, <3>5, <3>6, <3>7, <3>8, AgreeIdle
    <2>2. CASE x # s
        <3>1. /\ session'[x] = session[x] /\ execution'[x] = execution[x]
              /\ attempt'[x] = attempt[x]
            BY <1>5, <2>2 DEF CompleteAttempt, Agreement, TypeOK
        <3> QED
            BY <1>0, <3>1, AgreeKept
    <2> QED
        BY <2>1, <2>2
<1> QED
    BY <1>1, <1>2, <1>3, <1>4, <1>5 DEF WorkerRequest

LEMMA TickAgrees ==
    ASSUME Agreement, Tick
    PROVE  \A x \in Session : Agree(x)'
<1> SUFFICES ASSUME NEW x \in Session PROVE Agree(x)'
    OBVIOUS
<1>1. session' = session /\ execution' = execution /\ Agree(x)
    BY DEF Tick, Agreement
<1>2. ASSUME NEW n \in AttemptNo
      PROVE  /\ attempt'[x][n].state = attempt[x][n].state
             /\ attempt'[x][n].worker = attempt[x][n].worker
    <2>1. attempt'[x][n] = IF LeaseHeld(x, n)
                           THEN Aged(attempt[x][n])
                           ELSE attempt[x][n]
        BY DEF Tick
    <2>2. attempt[x][n] \in AttemptRow
        BY RowsTyped DEF Agreement
    <2> QED
        BY <2>1, <2>2 DEF AttemptRow, Aged
<1> QED
    BY <1>1, <1>2, AgreeKept

LEMMA SweepAgrees ==
    ASSUME Agreement, SweepExpired
    PROVE  \A x \in Session : Agree(x)'
<1> SUFFICES ASSUME NEW x \in Session PROVE Agree(x)'
    OBVIOUS
<1> DEFINE Lapsed == {s \in Session : \E n \in AttemptNo : Expired(s, n)}
<1>0. Agree(x)
    BY DEF Agreement
<1>1. CASE x \in Lapsed
    <2>1. PICK n \in AttemptNo : Expired(x, n)
        BY <1>1
    <2>2. /\ ActiveAt(x) = {n}
          /\ session[x].state \in Active /\ execution[x].state \in Active
        BY <1>0, <2>1, OneRuns DEF Expired
    <2>3. ASSUME NEW i \in AttemptNo PROVE attempt'[x][i].state \notin Active
        <3>1. attempt'[x][i] = IF Expired(x, i) THEN Ended(attempt[x][i], "lost")
                               ELSE attempt[x][i]
            BY DEF SweepExpired
        <3>2. CASE i = n
            BY <2>1, <3>1, <3>2, RowsTyped DEF Ended, Agreement, AttemptRow
        <3>3. CASE i # n
            BY <2>2, <3>1, <3>3 DEF ActiveAt, Expired
        <3> QED
            BY <3>2, <3>3
    <2>4. ActiveAt(x)' = {}
        BY <2>3 DEF ActiveAt
    <2>5. session'[x].state = "failed" /\ session'[x].owner = "none"
        BY <1>1, <2>2, RowsTyped
        DEF SweepExpired, Settled, Checkpoint, Agreement, TypeOK, SessionRow
    <2>6. execution'[x].state = "failed"
        BY <1>1, <2>2 DEF SweepExpired, ExecutionEnded, Agreement, TypeOK, ExecutionRow
    <2> QED
        BY <2>4, <2>5, <2>6, AgreeIdle
<1>2. CASE x \notin Lapsed
    <2>1. session'[x] = session[x] /\ execution'[x] = execution[x]
        BY <1>2 DEF SweepExpired
    <2>2. \A n \in AttemptNo : attempt'[x][n] = attempt[x][n]
        BY <1>2 DEF SweepExpired
    <2> QED
        BY <1>0, <2>1, <2>2, AgreeKept
<1> QED
    BY <1>1, <1>2

LEMMA CancelAgrees ==
    ASSUME Agreement, NEW S \in SUBSET Session, Cancel(S)
    PROVE  \A x \in Session : Agree(x)'
<1> SUFFICES ASSUME NEW x \in Session PROVE Agree(x)'
    OBVIOUS
<1>0. Agree(x) /\ attempt' = attempt /\ TypeOK
    BY DEF Agreement, Cancel
<1>1. ActiveAt(x)' = ActiveAt(x)
    BY <1>0 DEF ActiveAt
<1>2. CASE x \in S
    <2>0. /\ session'[x] = CancelledSession(session[x])
          /\ execution'[x] = CancelledExecution(execution[x])
        BY <1>2 DEF Cancel
    <2>1. CASE session[x].state \in Active
        <3>1. PICK n \in AttemptNo : attempt[x][n].state \in Active
            BY <1>0, <2>1 DEF Agree, ActiveAt
        <3>2. /\ session'[x].state = session[x].state /\ session'[x].owner = session[x].owner
              /\ session'[x].cancel = TRUE
            BY <2>0, <2>1, <1>0 DEF CancelledSession, TypeOK, SessionRow
        <3>3. /\ ActiveAt(x) = {n} /\ execution[x].state \in Active
              /\ session[x].state = attempt[x][n].state /\ session[x].owner = "worker_attempt"
              /\ execution[x].state = attempt[x][n].state
              /\ execution[x].worker = attempt[x][n].worker
            BY <1>0, <3>1, OneRuns
        <3>4. /\ execution'[x].state = execution[x].state /\ execution'[x].cancel = TRUE
              /\ execution'[x].worker = execution[x].worker
            BY <2>0, <3>3, <1>0 DEF CancelledExecution, TypeOK, ExecutionRow
        <3> QED
            BY <1>0, <1>1, <3>1, <3>2, <3>3, <3>4, AgreeOwned
    <2>2. CASE session[x].state \notin Active
        <3>1. ActiveAt(x)' = {} /\ session[x].owner = "none"
            BY <1>0, <1>1, <2>2, NobodyRuns, OwnerFree
        <3>2. /\ session'[x].state \notin Nonterminal /\ session'[x].owner = "none"
            BY <2>0, <2>2, <3>1, <1>0 DEF CancelledSession, Settled, TypeOK, SessionRow
        <3>3. execution'[x].state # "queued"
            BY <2>0, <1>0 DEF CancelledExecution, TypeOK, ExecutionRow
        <3> QED
            BY <3>1, <3>2, <3>3, AgreeIdle
    <2> QED
        BY <2>1, <2>2
<1>3. CASE x \notin S
    <2>1. session'[x] = session[x] /\ execution'[x] = execution[x]
        BY <1>3 DEF Cancel
    <2> QED
        BY <1>0, <2>1, AgreeKept
<1> QED
    BY <1>2, <1>3

\* A retried or answered session is queued, or blocked, with nobody running it.
LEMMA ReopenedAgrees ==
    ASSUME Agreement, NEW s \in Session,
           RetrySession(s) \/ \E n \in AttemptNo : AnswerWork(s, n)
    PROVE  \A x \in Session : Agree(x)'
<1> SUFFICES ASSUME NEW x \in Session PROVE Agree(x)'
    OBVIOUS
<1>0. Agree(x) /\ TypeOK
    BY DEF Agreement
<1>1. ASSUME NEW n \in AttemptNo
      PROVE  /\ attempt'[x][n].state = attempt[x][n].state
             /\ attempt'[x][n].worker = attempt[x][n].worker
    <2>1. CASE RetrySession(s)
        BY <2>1 DEF RetrySession
    <2>2. ASSUME NEW i \in AttemptNo, AnswerWork(s, i)
          PROVE  /\ attempt'[x][n].state = attempt[x][n].state
                 /\ attempt'[x][n].worker = attempt[x][n].worker
        <3>1. attempt' = [attempt EXCEPT ![s][i] = [attempt[s][i] EXCEPT !.answered = TRUE]]
            BY <1>0, <2>2 DEF AnswerWork, TypeOK
        <3> QED
            BY <1>0, <3>1 DEF TypeOK, AttemptRow
    <2> QED
        BY <2>1, <2>2
<1>2. CASE x = s
    <2>1. session[s].state \in {"failed", "cancelled", "needs-input"}
        BY DEF RetrySession, Retryable, AnswerWork
    <2>2. ActiveAt(s)' = {}
        BY <1>0, <1>1, <1>2, <2>1, NobodyRuns DEF ActiveAt
    <2>3. PICK state \in {"queued", "blocked"} :
            /\ session'[s].state = state /\ session'[s].owner = "none"
            /\ session'[s].cancel = FALSE
            /\ IF state = "queued" THEN execution'[s].state = "queued"
               ELSE execution' = execution
        <3>1. CASE RetrySession(s)
            BY <1>0, <3>1 DEF RetrySession, Settled, TypeOK, SessionRow
        <3>2. ASSUME NEW n \in AttemptNo, AnswerWork(s, n),
                     SlotFree(RunOf[s]) /\ \E w \in Worker : Routable(s, w)
              PROVE  /\ session'[s].state = "queued" /\ session'[s].owner = "none"
                     /\ session'[s].cancel = FALSE /\ execution'[s].state = "queued"
            <4>1. session' = [session EXCEPT ![s] =
                                 [Settled(session[s], "queued") EXCEPT !.cancel = FALSE]]
                BY <3>2 DEF AnswerWork
            <4>2. \E w \in Worker : execution' = [execution EXCEPT ![s] =
                                 [state |-> "queued", worker |-> w, cancel |-> FALSE]]
                BY <3>2 DEF AnswerWork
            <4> QED
                BY <1>0, <4>1, <4>2 DEF Settled, TypeOK, SessionRow
        <3>3. ASSUME NEW n \in AttemptNo, AnswerWork(s, n),
                     ~(SlotFree(RunOf[s]) /\ \E w \in Worker : Routable(s, w))
              PROVE  /\ session'[s].state = "blocked" /\ session'[s].owner = "none"
                     /\ session'[s].cancel = FALSE /\ execution' = execution
            <4>1. /\ session' = [session EXCEPT ![s] =
                                    [Settled(session[s], "blocked") EXCEPT !.cancel = FALSE]]
                  /\ execution' = execution
                BY <3>3 DEF AnswerWork
            <4> QED
                BY <1>0, <4>1 DEF Settled, TypeOK, SessionRow
        <3> QED
            BY <3>1, <3>2, <3>3
    <2>5. execution[s].state # "queued"
        BY <1>0, <1>2, <2>1 DEF Agree
    <2> QED
        BY <1>2, <2>2, <2>3, <2>5, AgreeIdle
<1>3. CASE x # s
    <2>1. session'[x] = session[x]
        BY <1>0, <1>3 DEF RetrySession, AnswerWork, TypeOK
    <2>2. execution'[x] = execution[x]
        BY <1>0, <1>3 DEF RetrySession, AnswerWork, TypeOK
    <2> QED
        BY <1>0, <1>1, <2>1, <2>2, AgreeKept
<1> QED
    BY <1>2, <1>3

LEMMA DisableAgrees ==
    ASSUME Agreement, NEW p \in Repository, DisableRepository(p)
    PROVE  \A x \in Session : Agree(x)'
<1> SUFFICES ASSUME NEW x \in Session PROVE Agree(x)'
    OBVIOUS
<1>0. Agree(x) /\ TypeOK /\ attempt' = attempt
    BY DEF Agreement, DisableRepository
<1>1. CASE RepoOf[x] = p /\ session[x].state = "queued"
    <2>1. execution[x].state = "queued" /\ ~session[x].cancel
        BY <1>0, <1>1 DEF Agree
    <2>2. ActiveAt(x)' = {}
        BY <1>0, <1>1, NobodyRuns DEF ActiveAt
    <2>3. session'[x] = Settled(session[x], "blocked") /\ execution'[x] = NoExecution
        BY <1>1, <2>1 DEF DisableRepository
    <2>4. /\ session'[x].state = "blocked" /\ session'[x].owner = "none"
          /\ session'[x].cancel = session[x].cancel /\ execution'[x].state = "none"
        BY <1>0, <2>3 DEF Settled, NoExecution, TypeOK, SessionRow
    <2> QED
        BY <2>1, <2>2, <2>4, AgreeIdle
<1>2. CASE ~(RepoOf[x] = p /\ session[x].state = "queued")
    <2>1. session'[x] = session[x] /\ execution'[x] = execution[x]
        BY <1>2 DEF DisableRepository
    <2> QED
        BY <1>0, <2>1, AgreeKept
<1> QED
    BY <1>1, <1>2

-----------------------------------------------------------------------------

LEMMA InitAgrees == Init => Agreement
<1> SUFFICES ASSUME Init PROVE \A x \in Session : Agree(x)
    BY InitType DEF Agreement
<1> SUFFICES ASSUME NEW x \in Session PROVE Agree(x)
    OBVIOUS
<1>1. ActiveAt(x) = {}
    BY DEF Init, NoAttempt, ActiveAt
<1> QED
    BY <1>1 DEF Init, Agree, NewSession, NoExecution

LEMMA NextAgrees == Agreement /\ [Next]_vars => Agreement'
<1> SUFFICES ASSUME Agreement, [Next]_vars PROVE \A x \in Session : Agree(x)'
    BY NextType DEF Agreement
<1>0. ASSUME UNCHANGED <<session, execution, attempt>> PROVE \A x \in Session : Agree(x)'
    BY <1>0, AgreeKept DEF Agreement
<1>1. CASE OperatorRequest
    <2>1. ASSUME NEW s \in Session, CancelSession(s) PROVE \A x \in Session : Agree(x)'
        BY <2>1, CancelAgrees DEF CancelSession
    <2>2. ASSUME NEW r \in Run, CancelRun(r) PROVE \A x \in Session : Agree(x)'
        BY <2>2, CancelAgrees DEF CancelRun, SessionsOf
    <2>3. ASSUME NEW p \in Repository, EnableRepository(p) PROVE \A x \in Session : Agree(x)'
        BY <1>0, <2>3 DEF EnableRepository
    <2> QED
        BY <1>1, <2>1, <2>2, <2>3, AdmissionAgrees, ReopenedAgrees, DisableAgrees
        DEF OperatorRequest
<1>2. ASSUME NEW w \in Worker, ChangeRoutes(w) PROVE \A x \in Session : Agree(x)'
    BY <1>0, <1>2 DEF ChangeRoutes
<1>3. CASE UNCHANGED vars
    BY <1>0, <1>3 DEF vars
<1> QED
    BY <1>1, <1>2, <1>3, ClaimAgrees, WorkerRequestAgrees, TickAgrees, SweepAgrees DEF Next

\* The rows of every session agree in every reachable state.
THEOREM AgreementCorrect == Spec => []Agreement
BY InitAgrees, NextAgrees, PTL DEF Spec

-----------------------------------------------------------------------------
(* What agreement gives. *)

\* No interleaving of claims, sweeps, retries and answers makes a second active attempt.
THEOREM OneActiveAttemptCorrect == Spec => []OneActiveAttempt
<1>1. Agreement => OneActiveAttempt
    <2> SUFFICES ASSUME Agreement, NEW s \in Session, NEW i \in AttemptNo, NEW n \in AttemptNo,
                        attempt[s][i].state \in Active, attempt[s][n].state \in Active
                 PROVE  i = n
        BY DEF OneActiveAttempt
    <2>1. i \in ActiveAt(s) /\ n \in ActiveAt(s) /\ Agree(s)
        BY DEF ActiveAt, Agreement
    <2> QED
        BY <2>1 DEF Agree
<1> QED
    BY <1>1, AgreementCorrect, PTL

\* An active attempt owns its session, on the worker its execution names.
THEOREM AttemptOwnsWorkCorrect == Spec => []AttemptOwnsWork
<1>1. Agreement => AttemptOwnsWork
    BY OneRuns DEF Agreement, AttemptOwnsWork
<1> QED
    BY <1>1, AgreementCorrect, PTL

\* Active Work has an attempt that will end it, and queued Work can be claimed.
THEOREM NoStrandedWorkCorrect == Spec => []NoStrandedWork
<1>1. Agreement => NoStrandedWork
    BY DEF Agreement, Agree, ActiveAt, NoStrandedWork
<1> QED
    BY <1>1, AgreementCorrect, PTL

\* A cancellation is known to the session and its execution, or to neither.
THEOREM CancellationAgreesCorrect == Spec => []CancellationAgrees
<1>1. Agreement => CancellationAgrees
    BY DEF Agreement, Agree, CancellationAgrees
<1> QED
    BY <1>1, AgreementCorrect, PTL

-----------------------------------------------------------------------------
(* WorkLifecycle implements WorkContract.  A line of the ledger follows    *)
(* from the session row alone, as long as no attempt is made (OneLine), so *)
(* that each handler has only its session rows to account for; a claim, as *)
(* long as the attempts of a session are numbered without gaps.            *)

HIDE DEF Materialized, Result, AttemptTerminal, Outcome, OpenStage

(* The attempts of a session are numbered from one on.                     *)
Contiguous(x) == \E k \in 0 .. MaxAttempts : Attempted(x) = 1 .. k

LInv == Agreement /\ \A x \in Session : Contiguous(x)

(* No attempt is made, and none that ended is active again.                *)
NoNewAttempt ==
    \A x \in Session, n \in AttemptNo :
        /\ attempt'[x][n].state = "none" <=> attempt[x][n].state = "none"
        /\ attempt'[x][n].state \in Active => attempt[x][n].state \in Active

-----------------------------------------------------------------------------
(* The lines of the ledger.                                                *)

LEMMA HeldIsActive ==
    ASSUME NEW x \in Session
    PROVE  /\ Status(x) = "held" <=> session[x].state \in Active
           /\ Status(x)' = "held" <=> session'[x].state \in Active
           /\ Status(x) # "held" => ~Stopping(x)
           /\ Status(x)' # "held" => ~Stopping(x)'
BY DEF Status, Reading, Stopping

LEMMA LiveIsNonterminal ==
    ASSUME NEW x \in Session
    PROVE  /\ Status(x) \in {"waiting", "held", "asking"} <=> session[x].state \in Nonterminal
           /\ session[x].state \in Terminal => Status(x) \in {"delivered", "stopped"}
           /\ session[x].state = "unadmitted" => Status(x) = "absent"
BY DEF Status, Reading, Materialized

LEMMA HolderOfNone ==
    ASSUME TypeOK, NEW x \in Session, Agree(x), Status(x) # "held"
    PROVE  Holding(x) = {} /\ Holder(x) = 0
<1>1. Holding(x) = {}
    BY HeldIsActive, NobodyRuns DEF ActiveAt, Holding
<1> QED
    BY <1>1 DEF Holder

LEMMA OneLine ==
    ASSUME Agreement, Agreement', NoNewAttempt, NEW x \in Session
    PROVE  /\ Attempted(x)' = Attempted(x)
           /\ Holder(x)' = IF Status(x)' = "held" THEN Holder(x) ELSE 0
           /\ Status(x)' = "held" => Status(x) = "held"
<1>1. Agree(x) /\ Agree(x)'
    BY DEF Agreement
<1>2. Attempted(x)' = Attempted(x)
    BY DEF Attempted, NoNewAttempt
<1>3. ActiveAt(x)' \subseteq ActiveAt(x)
    BY DEF ActiveAt, NoNewAttempt
<1>4. CASE Status(x)' = "held"
    <2>1. ActiveAt(x)' # {}
        BY <1>1, <1>4, HeldIsActive DEF Agree
    <2>2. PICK n \in AttemptNo : n \in ActiveAt(x)'
        BY <2>1 DEF ActiveAt
    <2>3. n \in ActiveAt(x)
        BY <1>3, <2>2
    <2>4. ActiveAt(x) = {n}
        BY <1>1, <2>3 DEF Agree
    <2>5. ActiveAt(x)' = {n}
        BY <1>3, <2>2, <2>4
    <2>6. Holding(x) = {n} /\ Holding(x)' = {n}
        BY <2>4, <2>5 DEF ActiveAt, Holding
    <2>7. Holder(x)' = Holder(x)
        BY <2>6 DEF Holder
    <2>8. session[x].state \in Active
        BY <1>1, <2>3 DEF Agree, ActiveAt
    <2> QED
        BY <1>2, <1>4, <2>7, <2>8, HeldIsActive
<1>5. CASE Status(x)' # "held"
    <2>1. session'[x].state \notin Active
        BY <1>5, HeldIsActive
    <2>2. ActiveAt(x)' = {}
        BY <1>1, <2>1 DEF Agree, ActiveAt
    <2>3. Holding(x)' = {}
        BY <2>2 DEF ActiveAt, Holding
    <2> QED
        BY <1>2, <1>5, <2>3 DEF Holder
<1> QED
    BY <1>4, <1>5

-----------------------------------------------------------------------------
(* The steps of the contract, from what happens to the session rows.       *)

LEMMA LedgerKept ==
    ASSUME Agreement, Agreement', NoNewAttempt,
           \A x \in Session : /\ Status(x)' = Status(x)
                              /\ Stopping(x)' = Stopping(x)
                              /\ session'[x].predecessor = session[x].predecessor
    PROVE  UNCHANGED Contract!vars
<1>1. ASSUME NEW x \in Session
      PROVE  Holder(x)' = Holder(x) /\ Attempted(x)' = Attempted(x)
    BY OneLine, HolderOfNone DEF Agreement
<1> QED
    BY <1>1 DEF Contract!vars

LEMMA InitLedger == Init => Contract!Init
<1> SUFFICES ASSUME Init PROVE Contract!Init
    OBVIOUS
<1>1. ASSUME NEW x \in Session
      PROVE  /\ Status(x) = "absent" /\ Attempted(x) = {} /\ Holding(x) = {}
             /\ ~Stopping(x) /\ session[x].predecessor = NoSession
    BY DEF Init, NewSession, NoAttempt, Status, Reading, Attempted, Holding, Stopping
<1>2. ASSUME NEW x \in Session
      PROVE  /\ Status(x) = "absent" /\ Cardinality(Attempted(x)) = 0 /\ Holder(x) = 0
             /\ Stopping(x) = FALSE /\ session[x].predecessor = NoSession
    BY <1>1, FS_EmptySet DEF Holder, Stopping
<1> QED
    BY <1>2 DEF Contract!Init

LEMMA StopStep ==
    ASSUME Agreement, Agreement', NoNewAttempt, NEW S \in SUBSET Session, S # {},
           \A x \in Session : session'[x].predecessor = session[x].predecessor,
           \A x \in S : Status(x) = "held" /\ Status(x)' = "stopped",
           \A x \in Session \ S : Status(x)' = Status(x) /\ Stopping(x)' = Stopping(x)
    PROVE  Contract!Next
<1>1. ASSUME NEW x \in Session
      PROVE  /\ Holder(x)' = IF x \in S THEN 0 ELSE Holder(x)
             /\ Attempted(x)' = Attempted(x)
             /\ Status(x)' = IF x \in S THEN "stopped" ELSE Status(x)
             /\ Stopping(x)' = (Stopping(x) /\ x \notin S)
    BY OneLine, HolderOfNone, HeldIsActive DEF Agreement, Stopping
<1>2. Contract!Stop(S)
    BY <1>1 DEF Contract!Stop
<1> QED
    BY <1>2 DEF Contract!Next

LEMMA DeliverStep ==
    ASSUME Agreement, Agreement', NoNewAttempt, NEW s \in Session,
           NEW result \in {"delivered", "asking"},
           \A x \in Session : session'[x].predecessor = session[x].predecessor,
           Status(s) = "held", ~Stopping(s), Status(s)' = result,
           \A x \in Session \ {s} : Status(x)' = Status(x) /\ Stopping(x)' = Stopping(x)
    PROVE  Contract!Next
<1>1. ASSUME NEW x \in Session
      PROVE  /\ Holder(x)' = IF x = s THEN 0 ELSE Holder(x)
             /\ Attempted(x)' = Attempted(x)
             /\ Status(x)' = IF x = s THEN result ELSE Status(x)
             /\ Stopping(x)' = Stopping(x)
    BY OneLine, HolderOfNone, HeldIsActive DEF Agreement, Stopping
<1>2. Contract!Deliver(s, result)
    BY <1>1 DEF Contract!Deliver
<1> QED
    BY <1>2 DEF Contract!Next

(* Work goes back to those that wait.                                      *)
LEMMA WaitStep ==
    ASSUME Agreement, Agreement', NoNewAttempt, NEW s \in Session,
           \A x \in Session : session'[x].predecessor = session[x].predecessor,
           \/ Status(s) = "asking"
           \/ Status(s) = "stopped" /\ Replaceable(s),
           Status(s)' = "waiting",
           \A x \in Session \ {s} : Status(x)' = Status(x) /\ Stopping(x)' = Stopping(x)
    PROVE  Contract!Next
<1>1. ASSUME NEW x \in Session
      PROVE  /\ Holder(x)' = Holder(x)
             /\ Attempted(x)' = Attempted(x)
             /\ Status(x)' = IF x = s THEN "waiting" ELSE Status(x)
             /\ Stopping(x)' = Stopping(x)
    BY OneLine, HolderOfNone, HeldIsActive DEF Agreement, Stopping
<1>2. CASE Status(s) = "asking"
    <2>1. Contract!Answer(s)
        BY <1>1, <1>2 DEF Contract!Answer
    <2> QED
        BY <2>1 DEF Contract!Next
<1>3. CASE Status(s) = "stopped" /\ Replaceable(s)
    <2>1. ~Contract!Replaced(s)
        BY <1>3 DEF Replaceable, Children, Contract!Replaced
    <2>2. Contract!RivalsAtRest(s)
        BY <1>3, LiveIsNonterminal DEF Replaceable, Matching, Contract!RivalsAtRest, Contract!Live
    <2>3. Contract!Retry(s)
        BY <1>1, <1>3, <2>1, <2>2 DEF Contract!Retry
    <2> QED
        BY <2>3 DEF Contract!Next
<1> QED
    BY <1>2, <1>3

-----------------------------------------------------------------------------
(* The handlers.                                                           *)

LEMMA CancelImplements ==
    ASSUME Agreement, Agreement', NEW S \in SUBSET Session, Cancel(S)
    PROVE  [Contract!Next]_(Contract!vars) /\ NoNewAttempt
<1>1. NoNewAttempt
    BY DEF Cancel, NoNewAttempt
<1>2. ASSUME NEW x \in Session
      PROVE  /\ session'[x].predecessor = session[x].predecessor
             /\ x \notin S => Status(x)' = Status(x) /\ Stopping(x)' = Stopping(x)
             /\ x \in S /\ Status(x) = "held" => Status(x)' = "held" /\ Stopping(x)'
             /\ x \in S /\ Status(x) \in {"waiting", "asking"} =>
                    Status(x)' = "stopped" /\ ~Stopping(x)'
             /\ x \in S /\ session[x].state \notin Nonterminal =>
                    Status(x)' = Status(x) /\ Stopping(x)' = Stopping(x)
    <2>1. session[x] \in SessionRow
        BY DEF Agreement, TypeOK
    <2>2. session'[x] = IF x \in S THEN CancelledSession(session[x]) ELSE session[x]
        BY DEF Cancel
    <2> QED
        BY <2>1, <2>2 DEF SessionRow, CancelledSession, Settled, Status, Reading, Stopping,
                          Materialized
<1>3. CASE \E x \in S : Status(x) \in {"waiting", "held", "asking"}
    <2>1. ASSUME NEW x \in Session
          PROVE  /\ Holder(x)' = Holder(x)
                 /\ Attempted(x)' = Attempted(x)
                 /\ Status(x)' = IF x \in S /\ Status(x) \in {"waiting", "asking"}
                                 THEN "stopped" ELSE Status(x)
                 /\ Stopping(x)' = (Stopping(x) \/ (x \in S /\ Status(x) = "held"))
        BY <1>1, <1>2, OneLine, HolderOfNone, HeldIsActive, LiveIsNonterminal
           DEF Agreement, Stopping
    <2>2. Contract!Cancel(S)
        BY <1>2, <1>3, <2>1 DEF Contract!Cancel, Contract!Live
    <2> QED
        BY <1>1, <2>2 DEF Contract!Next
<1>4. CASE ~\E x \in S : Status(x) \in {"waiting", "held", "asking"}
    <2>1. \A x \in Session : Status(x)' = Status(x) /\ Stopping(x)' = Stopping(x)
        BY <1>2, <1>4, LiveIsNonterminal
    <2> QED
        BY <1>1, <1>2, <2>1, LedgerKept
<1> QED
    BY <1>3, <1>4

LEMMA ReopenImplements ==
    ASSUME Agreement, Agreement', NEW s \in Session,
           RetrySession(s) \/ \E n \in AttemptNo : AnswerWork(s, n)
    PROVE  Contract!Next /\ NoNewAttempt
<1>1. session[s] \in SessionRow
    BY DEF Agreement, TypeOK
<1>2. NoNewAttempt
    <2>1. CASE RetrySession(s)
        BY <2>1 DEF RetrySession, NoNewAttempt
    <2>2. CASE \E n \in AttemptNo : AnswerWork(s, n)
        <3>1. PICK n \in AttemptNo : attempt' = [attempt EXCEPT ![s][n].answered = TRUE]
            BY <2>2 DEF AnswerWork
        <3> QED
            BY <3>1 DEF NoNewAttempt, Agreement, TypeOK, AttemptRow
    <2> QED
        BY <2>1, <2>2
<1>3. /\ \A x \in Session \ {s} : session'[x] = session[x]
      /\ session'[s].state \in {"queued", "blocked"}
      /\ session'[s].predecessor = session[s].predecessor
    <2>1. CASE RetrySession(s)
        BY <1>1, <2>1 DEF RetrySession, Settled, SessionRow, Agreement, TypeOK
    <2>2. CASE \E n \in AttemptNo : AnswerWork(s, n)
        <3>1. \E state \in {"queued", "blocked"} :
                 session' = [session EXCEPT ![s] =
                     [Settled(session[s], state) EXCEPT !.cancel = FALSE]]
            BY <2>2 DEF AnswerWork
        <3> QED
            BY <1>1, <3>1 DEF Settled, SessionRow, Agreement, TypeOK
    <2> QED
        BY <2>1, <2>2
<1>4. \/ Status(s) = "asking"
      \/ Status(s) = "stopped" /\ Replaceable(s)
    BY DEF RetrySession, AnswerWork, Retryable, Status, Reading
<1>5. /\ Status(s)' = "waiting"
      /\ \A x \in Session \ {s} : Status(x)' = Status(x) /\ Stopping(x)' = Stopping(x)
      /\ \A x \in Session : session'[x].predecessor = session[x].predecessor
    BY <1>3 DEF Status, Reading, Stopping
<1> QED
    BY <1>2, <1>4, <1>5, WaitStep

LEMMA SweepImplements ==
    ASSUME Agreement, Agreement', SweepExpired
    PROVE  Contract!Next /\ NoNewAttempt
<1> DEFINE Lapsed == {x \in Session : \E n \in AttemptNo : Expired(x, n)}
<1>1. NoNewAttempt
    <2> SUFFICES ASSUME NEW x \in Session, NEW n \in AttemptNo
                 PROVE  /\ attempt'[x][n].state = "none" <=> attempt[x][n].state = "none"
                        /\ attempt'[x][n].state \in Active => attempt[x][n].state \in Active
        BY DEF NoNewAttempt
    <2>1. attempt'[x][n] = IF Expired(x, n) THEN Ended(attempt[x][n], "lost")
                           ELSE attempt[x][n]
        BY DEF SweepExpired
    <2> QED
        BY <2>1, RowsTyped DEF Expired, Ended, Agreement, AttemptRow
<1>2. ASSUME NEW x \in Lapsed PROVE session[x].state \in Active
    BY OneRuns DEF Expired, Agreement
<1>3. ASSUME NEW x \in Session
      PROVE  /\ session'[x].predecessor = session[x].predecessor
             /\ x \in Lapsed => session'[x].state = "failed"
             /\ x \notin Lapsed => session'[x] = session[x]
    <2>1. session[x] \in SessionRow
        BY DEF Agreement, TypeOK
    <2>2. CASE x \in Lapsed
        BY <1>2, <2>1, <2>2 DEF SweepExpired, Settled, Checkpoint, SessionRow
    <2>3. CASE x \notin Lapsed
        BY <2>3 DEF SweepExpired
    <2> QED
        BY <2>2, <2>3
<1>4. /\ \A x \in Lapsed : Status(x) = "held" /\ Status(x)' = "stopped"
      /\ \A x \in Session \ Lapsed : Status(x)' = Status(x) /\ Stopping(x)' = Stopping(x)
    BY <1>2, <1>3 DEF Status, Reading, Stopping
<1>5. Lapsed # {} /\ Lapsed \in SUBSET Session
    BY DEF SweepExpired
<1> HIDE DEF Lapsed
<1> QED
    BY <1>1, <1>3, <1>4, <1>5, StopStep

LEMMA CompleteImplements ==
    ASSUME Agreement, Agreement', NEW s \in Session, NEW n \in AttemptNo,
           NEW result \in Result, CompleteAttempt(s, n, result)
    PROVE  Contract!Next /\ NoNewAttempt
<1> DEFINE final == FinalResult(s, n, result)
           after == WorkResult(s, n, result)
<1>1. /\ attempt[s][n].state \in Active
      /\ session[s].state = attempt[s][n].state
      /\ session[s].cancel = execution[s].cancel
    BY OneRuns DEF CompleteAttempt, LeaseHeld, Agreement
<1>2. final \in Result
    BY DEF FinalResult, Result
<1>3. NoNewAttempt
    <2> SUFFICES ASSUME NEW x \in Session, NEW i \in AttemptNo
                 PROVE  /\ attempt'[x][i].state = "none" <=> attempt[x][i].state = "none"
                        /\ attempt'[x][i].state \in Active => attempt[x][i].state \in Active
        BY DEF NoNewAttempt
    <2>1. attempt' = [attempt EXCEPT ![s][n] = Ended(attempt[s][n], final)]
        BY DEF CompleteAttempt
    <2>2. attempt[s][n] \in AttemptRow /\ attempt \in [Session -> [AttemptNo -> AttemptRow]]
        BY DEF Agreement, TypeOK
    <2>3. CASE x = s /\ i = n
        <3>1. attempt'[x][i].state = final
            BY <2>1, <2>2, <2>3 DEF Ended, AttemptRow
        <3> QED
            BY <1>1, <1>2, <2>3, <3>1 DEF Result
    <2>4. CASE ~(x = s /\ i = n)
        BY <2>1, <2>2, <2>4
    <2> QED
        BY <2>3, <2>4
<1>4. after \in Result \cup Outcome
    BY <1>2, OutcomeKnown DEF Agreement, WorkResult
<1>5. /\ \A x \in Session \ {s} : session'[x] = session[x]
      /\ session'[s].state = after
      /\ session'[s].predecessor = session[s].predecessor
    <2>1. session[s] \in SessionRow /\ session \in [Session -> SessionRow]
        BY DEF Agreement, TypeOK
    <2>2. session[s].state \in Settles(s, n, result)
        BY <1>1 DEF CompleteAttempt, Settles
    <2>3. session' = [session EXCEPT ![s] =
              Checkpoint(Settled(session[s], after), n, OutcomeOf(s, n))]
        BY <2>2 DEF CompleteAttempt
    <2> QED
        BY <2>1, <2>3 DEF Checkpoint, Settled, SessionRow
<1>6. after \in {"ready", "succeeded", "no-change", "needs-input"} => ~Stopping(s)
    BY <1>1, <1>2 DEF WorkResult, FinalResult, Result, Stopping
<1>7. /\ Status(s) = "held"
      /\ \A x \in Session \ {s} : Status(x)' = Status(x) /\ Stopping(x)' = Stopping(x)
      /\ \A x \in Session : session'[x].predecessor = session[x].predecessor
      /\ Status(s)' = Reading(after)
    BY <1>1, <1>5 DEF Status, Reading, Stopping
<1> HIDE DEF after, final
<1>8. CASE after \in {"ready", "succeeded", "no-change"}
    <2>1. Status(s)' = "delivered" /\ ~Stopping(s)
        BY <1>6, <1>7, <1>8 DEF Reading
    <2> QED
        BY <1>3, <1>7, <2>1, DeliverStep
<1>9. CASE after = "needs-input"
    <2>1. Status(s)' = "asking" /\ ~Stopping(s)
        BY <1>6, <1>7, <1>9 DEF Reading
    <2> QED
        BY <1>3, <1>7, <2>1, DeliverStep
<1>10. CASE after \in {"failed", "cancelled"}
    <2>1. Status(s)' = "stopped"
        BY <1>7, <1>10 DEF Reading
    <2>2. {s} \in SUBSET Session /\ {s} # {}
        OBVIOUS
    <2> QED
        BY <1>3, <1>7, <2>1, <2>2, StopStep
<1> QED
    BY <1>4, <1>8, <1>9, <1>10 DEF Result, Outcome

(* The other requests of a worker, and the clock.                          *)
LEMMA QuietRows ==
    ASSUME Agreement, Agreement', NoNewAttempt,
           \A x \in Session : /\ Status(x)' = Status(x)
                              /\ session'[x].cancel = session[x].cancel
                              /\ session'[x].predecessor = session[x].predecessor
    PROVE  [Contract!Next]_(Contract!vars)
<1>1. \A x \in Session : Stopping(x)' = Stopping(x)
    BY HeldIsActive DEF Stopping
<1> QED
    BY <1>1, LedgerKept

LEMMA WorkerRequestImplements ==
    ASSUME Agreement, Agreement', NEW s \in Session, NEW n \in AttemptNo, WorkerRequest(s, n)
    PROVE  [Contract!Next]_(Contract!vars) /\ NoNewAttempt
<1>0. /\ attempt \in [Session -> [AttemptNo -> AttemptRow]]
      /\ session \in [Session -> SessionRow]
      /\ attempt[s][n] \in AttemptRow /\ session[s] \in SessionRow
    BY DEF Agreement, TypeOK
<1>1. CASE StartAttempt(s, n)
    <2>1. NoNewAttempt
        BY <1>0, <1>1 DEF StartAttempt, NoNewAttempt, AttemptRow
    <2>2. ASSUME NEW x \in Session
          PROVE  /\ Status(x)' = Status(x)
                 /\ session'[x].cancel = session[x].cancel
                 /\ session'[x].predecessor = session[x].predecessor
        BY <1>0, <1>1 DEF StartAttempt, Status, Reading, SessionRow
    <2> QED
        BY <2>1, <2>2, QuietRows
<1>2. CASE RuntimeStarted(s, n)
    <2>1. NoNewAttempt
        BY <1>2 DEF RuntimeStarted, NoNewAttempt
    <2>2. ASSUME NEW x \in Session
          PROVE  /\ Status(x)' = Status(x)
                 /\ session'[x].cancel = session[x].cancel
                 /\ session'[x].predecessor = session[x].predecessor
        BY <1>0, <1>2 DEF RuntimeStarted, Status, SessionRow
    <2> QED
        BY <2>1, <2>2, QuietRows
<1>3. CASE Heartbeat(s, n)
    <2>1. NoNewAttempt
        <3>1. PICK answered \in BOOLEAN : attempt' =
                  [attempt EXCEPT ![s][n] = Renewed(attempt[s][n], execution[s].cancel, answered)]
            BY <1>3 DEF Heartbeat
        <3> QED
            BY <1>0, <3>1 DEF NoNewAttempt, Renewed, AttemptRow
    <2>2. session' = session
        BY <1>3 DEF Heartbeat
    <2> QED
        BY <2>1, <2>2, QuietRows DEF Status
<1>4. CASE \/ \E i \in StageNo : StartStage(s, n, i)
           \/ \E i \in StageNo, result \in Result : CompleteStage(s, n, i, result)
    <2>1. session' = session /\ attempt' = attempt
        BY <1>4 DEF StartStage, CompleteStage
    <2>2. NoNewAttempt
        BY <2>1 DEF NoNewAttempt
    <2> QED
        BY <2>1, <2>2, QuietRows DEF Status
<1>5. CASE \E outcome \in Outcome : ReportOutcome(s, n, outcome)
    <2>1. session' = session
        BY <1>5 DEF ReportOutcome
    <2>2. NoNewAttempt
        BY <1>0, <1>5 DEF ReportOutcome, NoNewAttempt, AttemptRow
    <2> QED
        BY <2>1, <2>2, QuietRows DEF Status
<1>6. CASE \E result \in Result : CompleteAttempt(s, n, result)
    BY <1>6, CompleteImplements
<1> QED
    BY <1>1, <1>2, <1>3, <1>4, <1>5, <1>6 DEF WorkerRequest

LEMMA TickImplements ==
    ASSUME Agreement, Agreement', Tick
    PROVE  [Contract!Next]_(Contract!vars) /\ NoNewAttempt
<1>1. NoNewAttempt
    <2> SUFFICES ASSUME NEW x \in Session, NEW n \in AttemptNo
                 PROVE  attempt'[x][n].state = attempt[x][n].state
        BY DEF NoNewAttempt
    <2>1. attempt'[x][n] = IF LeaseHeld(x, n) THEN Aged(attempt[x][n]) ELSE attempt[x][n]
        BY DEF Tick
    <2> QED
        BY <2>1, RowsTyped DEF Aged, Agreement, AttemptRow
<1>2. session' = session
    BY DEF Tick
<1> QED
    BY <1>1, <1>2, QuietRows DEF Status

LEMMA DisableImplements ==
    ASSUME Agreement, Agreement', NEW p \in Repository, DisableRepository(p)
    PROVE  [Contract!Next]_(Contract!vars) /\ NoNewAttempt
<1>1. NoNewAttempt
    BY DEF DisableRepository, NoNewAttempt
<1>2. ASSUME NEW x \in Session
      PROVE  /\ Status(x)' = Status(x)
             /\ session'[x].cancel = session[x].cancel
             /\ session'[x].predecessor = session[x].predecessor
    <2>1. session[x] \in SessionRow
        BY DEF Agreement, TypeOK
    <2>2. session'[x] = IF RepoOf[x] = p /\ session[x].state = "queued"
                        THEN Settled(session[x], "blocked") ELSE session[x]
        BY DEF DisableRepository
    <2> QED
        BY <2>1, <2>2 DEF Settled, SessionRow, Status, Reading
<1> QED
    BY <1>1, <1>2, QuietRows

LEMMA AdmitImplements ==
    ASSUME Agreement, Agreement', NEW S \in SUBSET Session, S # {}, NEW Q \in SUBSET S,
           NEW p \in [S -> Session \cup {NoSession}], Admit(S, Q, p),
           \A s \in S : /\ session[s].state = "unadmitted"
                        /\ \A t \in Matching(s) : session[t].state \notin Nonterminal
                        /\ Matching(s) \cap S = {}
                        /\ p[s] # NoSession =>
                               p[s] \in Matching(s) /\ session[p[s]].state \in Terminal
                               /\ Children(p[s]) = {},
           \A s, t \in S : p[s] = p[t] /\ p[s] # NoSession => s = t
    PROVE  Contract!Next /\ NoNewAttempt
<1>1. NoNewAttempt
    BY DEF Admit, NoNewAttempt
<1>2. ASSUME NEW x \in Session
      PROVE  /\ x \in S => /\ Status(x) = "absent" /\ Status(x)' = "waiting"
                           /\ ~Stopping(x)' /\ ~Stopping(x)
                           /\ session'[x].predecessor = p[x]
             /\ x \notin S => session'[x] = session[x]
    <2>1. x \in S => session'[x] =
              [NewSession EXCEPT !.state = IF x \in Q THEN "queued" ELSE "blocked",
                                 !.predecessor = p[x]]
        BY DEF Admit
    <2>2. x \notin S => session'[x] = session[x]
        BY DEF Admit
    <2> QED
        BY <2>1, <2>2 DEF NewSession, Status, Reading, Stopping
<1>3. ASSUME NEW x \in Session
      PROVE  /\ Status(x)' = IF x \in S THEN "waiting" ELSE Status(x)
             /\ Stopping(x)' = Stopping(x)
             /\ session'[x].predecessor = IF x \in S THEN p[x] ELSE session[x].predecessor
             /\ Attempted(x)' = Attempted(x) /\ Holder(x)' = Holder(x)
    <2>1. Status(x)' = IF x \in S THEN "waiting" ELSE Status(x)
        BY <1>2 DEF Status
    <2>2. Stopping(x)' = Stopping(x)
        BY <1>2 DEF Stopping
    <2> QED
        BY <1>1, <1>2, <2>1, <2>2, OneLine, HolderOfNone DEF Agreement
<1>4. ASSUME NEW s \in S
      PROVE  /\ Status(s) = "absent" /\ Contract!RivalsAtRest(s)
             /\ p[s] # NoSession => /\ p[s] \in Session /\ p[s] \in Matching(s)
                                   /\ Status(p[s]) \in {"delivered", "stopped"}
                                   /\ ~Contract!Replaced(p[s])
    <2>1. Contract!RivalsAtRest(s)
        BY LiveIsNonterminal DEF Matching, Contract!RivalsAtRest, Contract!Live
    <2>2. ASSUME p[s] # NoSession
          PROVE  /\ p[s] \in Session /\ Status(p[s]) \in {"delivered", "stopped"}
                 /\ ~Contract!Replaced(p[s])
        BY <2>2, LiveIsNonterminal DEF Matching, Children, Contract!Replaced
    <2> QED
        BY <1>2, <2>1, <2>2
<1>5. Contract!Admit(S)
    BY <1>3, <1>4 DEF Contract!Admit, Contract!Ended
<1> QED
    BY <1>1, <1>5 DEF Contract!Next

LEMMA AdmissionImplements ==
    ASSUME Agreement, Agreement',
           \/ \E r \in Run : AdmitRun(r)
           \/ \E p, s \in Session : ReplaceWork(p, s)
    PROVE  Contract!Next /\ NoNewAttempt
<1>1. ASSUME NEW r \in Run, AdmitRun(r) PROVE Contract!Next /\ NoNewAttempt
    <2> DEFINE S == SessionsOf(r)
               p == [s \in S |-> IF Leaves(s) = {} THEN NoSession
                                 ELSE CHOOSE t \in Leaves(s) : TRUE]
    <2>1. PICK Q \in SUBSET S : Admit(S, Q, p)
        BY <1>1 DEF AdmitRun
    <2>2. S \in SUBSET Session /\ S # {}
        BY <1>1 DEF AdmitRun, SessionsOf
    <2>3. ASSUME NEW s \in S
          PROVE  /\ p[s] \in Session \cup {NoSession}
                 /\ p[s] # NoSession =>
                        p[s] \in Matching(s) /\ session[p[s]].state \in Terminal
                        /\ Children(p[s]) = {}
        BY DEF Leaves, Matching
    <2>4. p \in [S -> Session \cup {NoSession}]
        BY <2>3
    <2>5. ASSUME NEW s \in S
          PROVE  /\ session[s].state = "unadmitted"
                 /\ \A t \in Matching(s) : session[t].state \notin Nonterminal
                 /\ Matching(s) \cap S = {}
        BY <1>1, TargetAssumption DEF AdmitRun, PredecessorsSelected, Matching, SessionsOf
    <2>6. ASSUME NEW s \in S, NEW t \in S, p[s] = p[t], p[s] # NoSession PROVE s = t
        <3>1. p[s] \in Matching(s) /\ p[s] \in Matching(t)
            BY <2>3, <2>6
        <3> QED
            BY <3>1, TargetAssumption DEF Matching, SessionsOf
    <2> HIDE DEF S, p
    <2> QED
        BY <2>1, <2>2, <2>3, <2>4, <2>5, <2>6, AdmitImplements
<1>2. ASSUME NEW p \in Session, NEW s \in Session, ReplaceWork(p, s)
      PROVE  Contract!Next /\ NoNewAttempt
    <2> DEFINE f == [t \in {s} |-> p]
    <2>1. PICK Q \in SUBSET {s} : Admit({s}, Q, f)
        BY <1>2 DEF ReplaceWork
    <2>2. \A t \in Matching(s) : session[t].state \notin Nonterminal
        BY <1>2 DEF ReplaceWork, Replaceable, Matching, Materialized
    <2>3. /\ f \in [{s} -> Session \cup {NoSession}] /\ f[s] = p
          /\ session[s].state = "unadmitted" /\ Matching(s) \cap {s} = {}
          /\ p \in Matching(s) /\ session[p].state \in Terminal /\ Children(p) = {}
        BY <1>2 DEF ReplaceWork, Replaceable, Matching
    <2> HIDE DEF f
    <2> QED
        BY <2>1, <2>2, <2>3, AdmitImplements
<1> QED
    BY <1>1, <1>2

(* A claim takes the number after those taken.                             *)
LEMMA NextNumber ==
    ASSUME Agreement, NEW c \in Session, NEW w \in Worker, Contiguous(c), ActiveAt(c) = {},
           InsertAttempt(c, w)
    PROVE  /\ Contiguous(c)' /\ Holding(c)' # {}
           /\ Cardinality(Attempted(c)') = Cardinality(Attempted(c)) + 1
           /\ Holder(c)' = Cardinality(Attempted(c)) + 1
           /\ \A x \in Session \ {c} : attempt'[x] = attempt[x]
<1>1. PICK n \in AttemptNo :
        /\ attempt[c][n].state = "none"
        /\ \A i \in 1 .. (n - 1) : attempt[c][i].state # "none"
        /\ attempt' = [attempt EXCEPT ![c][n] = ClaimedAttempt(c, w)]
    BY DEF InsertAttempt
<1>2. /\ attempt \in [Session -> [AttemptNo -> AttemptRow]]
      /\ MaxAttempts \in Nat
    BY BoundAssumption DEF Agreement, TypeOK
<1>3. /\ attempt'[c][n].state = "preparing"
      /\ \A i \in AttemptNo \ {n} : attempt'[c][i] = attempt[c][i]
      /\ \A x \in Session \ {c} : attempt'[x] = attempt[x]
    BY <1>1, <1>2 DEF ClaimedAttempt, NoAttempt
<1>4. PICK k \in 0 .. MaxAttempts : Attempted(c) = 1 .. k
    BY DEF Contiguous
<1>5. n = k + 1
    <2>1. \A i \in AttemptNo : i \in 1 .. k <=> attempt[c][i].state # "none"
        BY <1>4 DEF Attempted
    <2>2. n \notin 1 .. k
        BY <1>1, <2>1
    <2>3. n - 1 = 0 \/ n - 1 \in 1 .. k
        <3>1. n = 1 \/ (n - 1 \in AttemptNo /\ n - 1 \in 1 .. (n - 1))
            BY <1>2 DEF AttemptNo
        <3> QED
            BY <1>1, <2>1, <3>1
    <2> QED
        BY <1>2, <2>2, <2>3 DEF AttemptNo
<1>6. Attempted(c)' = 1 .. n
    BY <1>1, <1>2, <1>3, <1>4, <1>5 DEF Attempted, AttemptNo
<1>7. Holding(c)' = {n}
    BY <1>1, <1>3 DEF Holding, ActiveAt
<1>8. Cardinality(Attempted(c)) = k /\ Cardinality(Attempted(c)') = n
    BY <1>2, <1>4, <1>5, <1>6, FS_Interval DEF AttemptNo
<1>9. Contiguous(c)'
    BY <1>2, <1>6 DEF Contiguous, AttemptNo
<1>10. Holder(c)' = n
    BY <1>7 DEF Holder
<1> QED
    BY <1>3, <1>5, <1>7, <1>8, <1>9, <1>10

LEMMA ContiguousKept ==
    ASSUME LInv, NoNewAttempt
    PROVE  \A x \in Session : Contiguous(x)'
BY DEF LInv, NoNewAttempt, Contiguous, Attempted

LEMMA ClaimImplements ==
    ASSUME LInv, Agreement', NEW w \in Worker, Claim(w)
    PROVE  [Contract!Next]_(Contract!vars) /\ \A x \in Session : Contiguous(x)'
<1>1. PICK m \in FirstOf(Fairest(Materializable(w))), q \in FirstOf(Reroutable(w)) :
      \E c \in FirstOf(Fairest(Claimable(w, {m, q}))) : ClaimRows(w, m, q, c)
    BY DEF Claim
<1> PICK c \in FirstOf(Fairest(Claimable(w, {m, q}))) : ClaimRows(w, m, q, c)
    BY <1>1
<1>0. Agreement /\ NoSession \notin Session
    BY SessionAssumption DEF LInv
<1>2. ASSUME NEW x \in Session
      PROVE  /\ x = m => session[x].state = "blocked"
             /\ x = c => (x = m /\ session[x].state = "blocked") \/ session[x].state = "queued"
    BY <1>0 DEF FirstOf, Fairest, Materializable, Reroutable, Claimable, Agreement, Agree
<1>3. ASSUME NEW x \in Session
      PROVE  /\ session'[x].predecessor = session[x].predecessor
             /\ session'[x].cancel = session[x].cancel
             /\ x = c => Status(x) = "waiting" /\ Status(x)' = "held"
             /\ x # c => Status(x)' = Status(x)
    <2>1. session[x] \in SessionRow
        BY <1>0 DEF Agreement, TypeOK
    <2>2. session'[x] =
              IF x = c /\ (x = m \/ session[x].state = "queued")
              THEN [session[x] EXCEPT !.state = "preparing", !.owner = "worker_attempt"]
              ELSE IF x = m THEN Settled(session[x], "queued")
              ELSE session[x]
        BY DEF ClaimRows
    <2> QED
        BY <1>2, <2>1, <2>2 DEF Settled, SessionRow, Status, Reading
<1>4. CASE c = NoSession
    <2>1. NoNewAttempt
        BY <1>4 DEF ClaimRows, NoNewAttempt
    <2>2. \A x \in Session : x # c
        BY <1>0, <1>4
    <2> QED
        BY <1>0, <1>3, <2>1, <2>2, QuietRows, ContiguousKept
<1>5. CASE c # NoSession
    <2>1. c \in Session
        BY <1>0, <1>5 DEF FirstOf, Fairest, Claimable
    <2>2. Agree(c) /\ Contiguous(c) /\ session[c].state \notin Active /\ ~session[c].cancel
        <3>1. session[c].state \in {"blocked", "queued"}
            BY <1>2, <2>1
        <3> QED
            BY <1>0, <2>1, <3>1 DEF LInv, Agreement, Agree, Materialized
    <2>3. InsertAttempt(c, w)
        BY <1>5 DEF ClaimRows
    <2>4. ActiveAt(c) = {}
        BY <2>1, <2>2, NobodyRuns
    <2>5. /\ Contiguous(c)'
          /\ Cardinality(Attempted(c)') = Cardinality(Attempted(c)) + 1
          /\ Holder(c)' = Cardinality(Attempted(c)) + 1
          /\ \A x \in Session \ {c} : attempt'[x] = attempt[x]
        BY <1>0, <2>1, <2>2, <2>3, <2>4, NextNumber
    <2>6. ASSUME NEW x \in Session \ {c}
          PROVE  Attempted(x)' = Attempted(x) /\ Holder(x)' = Holder(x)
        <3>1. Attempted(x)' = Attempted(x) /\ Holding(x)' = Holding(x)
            BY <2>5 DEF Attempted, Holding
        <3> QED
            BY <3>1 DEF Holder
    <2>7. ASSUME NEW x \in Session PROVE Stopping(x)' = Stopping(x)
        BY <1>3, <2>2, HeldIsActive DEF Stopping
    <2>8. Contract!Grant(c)
        BY <1>3, <2>1, <2>5, <2>6, <2>7 DEF Contract!Grant
    <2>9. \A x \in Session : Contiguous(x)'
        BY <2>5, <2>6 DEF LInv, Contiguous
    <2> QED
        BY <2>1, <2>8, <2>9 DEF Contract!Next
<1> QED
    BY <1>4, <1>5

-----------------------------------------------------------------------------
LEMMA InitLInv == Init => LInv
<1> SUFFICES ASSUME Init, NEW x \in Session PROVE Contiguous(x)
    BY InitAgrees DEF LInv
<1>1. Attempted(x) = 1 .. 0 /\ 0 \in 0 .. MaxAttempts
    BY BoundAssumption DEF Init, NoAttempt, Attempted
<1> QED
    BY <1>1 DEF Contiguous

(* Every step is a step of the contract or none.                           *)
LEMMA NextImplements == LInv /\ [Next]_vars => LInv' /\ [Contract!Next]_(Contract!vars)
<1> SUFFICES ASSUME LInv, [Next]_vars
             PROVE  (\A x \in Session : Contiguous(x)') /\ [Contract!Next]_(Contract!vars)
    BY NextAgrees DEF LInv
<1>0. Agreement /\ Agreement'
    BY NextAgrees DEF LInv
<1>1. ASSUME UNCHANGED <<session, attempt>>
      PROVE  NoNewAttempt /\ [Contract!Next]_(Contract!vars)
    <2>1. NoNewAttempt
        BY <1>1 DEF NoNewAttempt
    <2> QED
        BY <1>0, <1>1, <2>1, QuietRows DEF Status
<1>2. CASE OperatorRequest
    <2>1. CASE \/ \E r \in Run : AdmitRun(r)
               \/ \E p, s \in Session : ReplaceWork(p, s)
        BY <1>0, <2>1, AdmissionImplements, ContiguousKept
    <2>2. CASE \/ \E r \in Run : CancelRun(r)
               \/ \E s \in Session : CancelSession(s)
        <3>1. PICK S \in SUBSET Session : Cancel(S)
            BY <2>2 DEF CancelRun, CancelSession, SessionsOf
        <3> QED
            BY <1>0, <3>1, CancelImplements, ContiguousKept
    <2>3. CASE \E s \in Session : RetrySession(s) \/ \E n \in AttemptNo : AnswerWork(s, n)
        BY <1>0, <2>3, ReopenImplements, ContiguousKept
    <2>4. CASE \E p \in Repository : EnableRepository(p)
        BY <1>1, <2>4, ContiguousKept DEF EnableRepository
    <2>5. CASE \E p \in Repository : DisableRepository(p)
        BY <1>0, <2>5, DisableImplements, ContiguousKept
    <2> QED
        BY <1>2, <2>1, <2>2, <2>3, <2>4, <2>5 DEF OperatorRequest
<1>3. CASE \E w \in Worker : Claim(w)
    BY <1>0, <1>3, ClaimImplements
<1>4. CASE \E w \in Worker : ChangeRoutes(w)
    BY <1>1, <1>4, ContiguousKept DEF ChangeRoutes
<1>5. CASE \E s \in Session, n \in AttemptNo : WorkerRequest(s, n)
    BY <1>0, <1>5, WorkerRequestImplements, ContiguousKept
<1>6. CASE Tick
    BY <1>0, <1>6, TickImplements, ContiguousKept
<1>7. CASE SweepExpired
    BY <1>0, <1>7, SweepImplements, ContiguousKept
<1>8. CASE UNCHANGED vars
    BY <1>1, <1>8, ContiguousKept DEF vars
<1> QED
    BY <1>2, <1>3, <1>4, <1>5, <1>6, <1>7, <1>8 DEF Next

(* KeepsContract: the handlers, the sweeper and the clock do to Work only  *)
(* what the ledger of WorkContract allows, for every fleet and every Run.  *)
THEOREM KeepsContractCorrect == Spec => KeepsContract
<1>1. Init => LInv /\ Contract!Init
    BY InitLInv, InitLedger
<1> QED
    BY <1>1, NextImplements, PTL DEF Spec, KeepsContract, Contract!Spec

-----------------------------------------------------------------------------
(* What the ledger gives in return: two properties of the sessions table   *)
(* that hold of every ledger, hence of every implementation of it.         *)

Alive(s) == Status(s) \in {"waiting", "held", "asking"}
Over(s) == Status(s) \in {"delivered", "stopped"}

(* Lines of the ledger: no rivals are alive, and what is replaced is over  *)
(* and replaced once.                                                      *)
Lined ==
    /\ \A s \in Session : \A t \in Matching(s) : ~(Alive(s) /\ Alive(t))
    /\ \A s, t \in Session : session[t].predecessor = s => Over(s)
    /\ \A t, u \in Session :
           session[t].predecessor = session[u].predecessor
           /\ session[t].predecessor \in Session => t = u

LEMMA RivalsMutual ==
    ASSUME NEW s \in Session, NEW t \in Matching(s)
    PROVE  t \in Session /\ s \in Matching(t)
BY DEF Matching

(* Steps that revive nothing.                                              *)
LEMMA LinedOn ==
    ASSUME Lined,
           \A x \in Session : /\ session'[x].predecessor = session[x].predecessor
                              /\ Alive(x)' => Alive(x)
                              /\ Over(x) => Over(x)'
    PROVE  Lined'
<1>1. \A s \in Session : \A t \in Matching(s) : ~(Alive(s)' /\ Alive(t)')
    BY RivalsMutual DEF Lined
<1>2. \A s, t \in Session : session'[t].predecessor = s => Over(s)'
    BY DEF Lined
<1>3. \A t, u \in Session :
          session'[t].predecessor = session'[u].predecessor
          /\ session'[t].predecessor \in Session => t = u
    BY DEF Lined
<1> QED
    BY <1>1, <1>2, <1>3 DEF Lined, Matching

LEMMA RetryLined ==
    ASSUME Lined, NEW s \in Session, Contract!Retry(s)
    PROVE  Lined'
<1>1. /\ \A x \in Session : session[x].predecessor # s
      /\ \A t \in Matching(s) : ~Alive(t)
    BY RivalsMutual DEF Contract!Retry, Contract!Replaced, Contract!RivalsAtRest, Contract!Live,
                        Alive
<1>2. ASSUME NEW x \in Session
      PROVE  /\ Status(x)' = IF x = s THEN "waiting" ELSE Status(x)
             /\ session'[x].predecessor = session[x].predecessor
    BY DEF Contract!Retry
<1>3. ASSUME NEW x \in Session, x # s PROVE (Alive(x)' <=> Alive(x)) /\ (Over(x)' <=> Over(x))
    BY <1>2, <1>3 DEF Alive, Over
<1>4. ASSUME NEW x \in Session, NEW t \in Matching(x), Alive(x)', Alive(t)' PROVE FALSE
    <2>1. t \in Session /\ x \in Matching(t) /\ x # t
        BY <1>4, RivalsMutual DEF Matching
    <2> QED
        BY <1>1, <1>3, <1>4, <2>1 DEF Lined
<1>5. \A x, t \in Session : session'[t].predecessor = x => Over(x)'
    BY <1>1, <1>2, <1>3 DEF Lined
<1>6. \A t, u \in Session :
          session'[t].predecessor = session'[u].predecessor
          /\ session'[t].predecessor \in Session => t = u
    BY <1>2 DEF Lined
<1> QED
    BY <1>4, <1>5, <1>6 DEF Lined, Matching

LEMMA AdmitLined ==
    ASSUME Lined, NEW S \in SUBSET Session, Contract!Admit(S)
    PROVE  Lined'
<1>1. /\ \A w \in S : /\ Status(w) = "absent" /\ \A t \in Matching(w) : ~Alive(t)
                      /\ Matching(w) \cap S = {}
      /\ \A x \in Session : Status(x)' = IF x \in S THEN "waiting" ELSE Status(x)
    BY RivalsMutual DEF Contract!Admit, Contract!RivalsAtRest, Contract!Live, Alive
<1>2. PICK p \in [S -> Session \cup {NoSession}] :
          /\ \A w \in S : p[w] # NoSession =>
                 /\ p[w] \in Matching(w) /\ Status(p[w]) \in Contract!Ended
                 /\ ~Contract!Replaced(p[w])
          /\ \A w, x \in S : p[w] = p[x] /\ p[w] # NoSession => w = x
          /\ \A x \in Session : session'[x].predecessor = IF x \in S THEN p[x]
                                                          ELSE session[x].predecessor
    <2>1. PICK p \in [S -> Session \cup {NoSession}] :
              /\ \A w \in S : p[w] # NoSession =>
                     /\ p[w] \in [s \in Session |-> Matching(s)][w]
                     /\ [s \in Session |-> Status(s)][p[w]] \in Contract!Ended
                     /\ ~Contract!Replaced(p[w])
              /\ \A w, x \in S : p[w] = p[x] /\ p[w] # NoSession => w = x
              /\ [s \in Session |-> session'[s].predecessor] =
                     [w \in Session |->
                         IF w \in S THEN p[w]
                         ELSE [s \in Session |-> session[s].predecessor][w]]
        BY DEF Contract!Admit
    <2>2. ASSUME NEW x \in Session
          PROVE  session'[x].predecessor = IF x \in S THEN p[x] ELSE session[x].predecessor
        BY <2>1, Zenon
    <2>3. ASSUME NEW w \in S, p[w] # NoSession
          PROVE  p[w] \in Matching(w) /\ Status(p[w]) \in Contract!Ended
        BY <2>1, <2>3 DEF Matching
    <2> QED
        BY <2>1, <2>2, <2>3
<1>3. ASSUME NEW w \in S, p[w] \in Session
      PROVE  Over(p[w]) /\ \A x \in Session : session[x].predecessor # p[w]
    BY <1>2, <1>3, SessionAssumption DEF Over, Contract!Ended, Contract!Replaced
<1>4. ASSUME NEW x \in Session
      PROVE  /\ x \notin S => (Alive(x)' <=> Alive(x)) /\ (Over(x)' <=> Over(x))
             /\ x \in S => ~Over(x)
    BY <1>1 DEF Alive, Over
<1>5. ASSUME NEW x \in Session, NEW t \in Matching(x), Alive(x)', Alive(t)' PROVE FALSE
    <2>1. t \in Session /\ x \in Matching(t)
        BY RivalsMutual
    <2>2. x \notin S /\ t \notin S
        BY <1>1, <1>4, <1>5, <2>1
    <2> QED
        BY <1>4, <1>5, <2>1, <2>2 DEF Lined
<1>6. ASSUME NEW x \in Session, NEW t \in Session, session'[t].predecessor = x PROVE Over(x)'
    <2>1. Over(x)
        BY <1>2, <1>3, <1>6 DEF Lined
    <2> QED
        BY <1>4, <2>1
<1>7. ASSUME NEW t \in Session, NEW u \in Session,
             session'[t].predecessor = session'[u].predecessor,
             session'[t].predecessor \in Session
      PROVE  t = u
    <2>1. t \in S <=> u \in S
        BY <1>2, <1>3, <1>7
    <2> QED
        BY <1>2, <1>7, <2>1, SessionAssumption DEF Lined
<1> QED
    BY <1>5, <1>6, <1>7 DEF Lined, Matching

LEMMA LedgerLined ==
    ASSUME Lined, [Contract!Next]_(Contract!vars)
    PROVE  Lined'
<1>1. CASE UNCHANGED Contract!vars
    <2>1. ASSUME NEW x \in Session
          PROVE  Status(x)' = Status(x) /\ session'[x].predecessor = session[x].predecessor
        BY <1>1 DEF Contract!vars
    <2> QED
        BY <2>1, LinedOn DEF Alive, Over
<1>2. ASSUME NEW S \in SUBSET Session, Contract!Stop(S) PROVE Lined'
    <2>1. ASSUME NEW x \in Session
          PROVE  /\ Status(x)' = IF x \in S THEN "stopped" ELSE Status(x)
                 /\ session'[x].predecessor = session[x].predecessor
        BY <1>2 DEF Contract!Stop
    <2> QED
        BY <2>1, LinedOn DEF Alive, Over
<1>3. ASSUME NEW S \in SUBSET Session, Contract!Cancel(S) PROVE Lined'
    <2>1. ASSUME NEW x \in Session
          PROVE  /\ Status(x)' \in {Status(x), "stopped"}
                 /\ session'[x].predecessor = session[x].predecessor
        BY <1>3 DEF Contract!Cancel
    <2> QED
        BY <2>1, LinedOn DEF Alive, Over
<1>4. ASSUME NEW s \in Session, NEW result \in {"delivered", "asking"},
             Contract!Deliver(s, result)
      PROVE  Lined'
    <2>1. ASSUME NEW x \in Session
          PROVE  /\ Status(x)' = IF x = s THEN result ELSE Status(x)
                 /\ session'[x].predecessor = session[x].predecessor
        BY <1>4 DEF Contract!Deliver
    <2>2. Status(s) = "held"
        BY <1>4 DEF Contract!Deliver
    <2> QED
        BY <2>1, <2>2, LinedOn DEF Alive, Over
<1>5. ASSUME NEW s \in Session, Contract!Grant(s) \/ Contract!Answer(s) PROVE Lined'
    <2>1. ASSUME NEW x \in Session
          PROVE  /\ x # s => Status(x)' = Status(x)
                 /\ session'[x].predecessor = session[x].predecessor
        BY <1>5, <2>1 DEF Contract!Grant, Contract!Answer
    <2>2. Status(s) \in {"waiting", "asking"} /\ Status(s)' \in {"held", "waiting"}
        BY <1>5 DEF Contract!Grant, Contract!Answer
    <2> QED
        BY <2>1, <2>2, LinedOn DEF Alive, Over
<1> QED
    BY <1>1, <1>2, <1>3, <1>4, <1>5, AdmitLined, RetryLined DEF Contract!Next

LEMMA InitLined == Init => Lined
BY SessionAssumption DEF Init, NewSession, Lined, Alive, Over, Status, Reading

LEMMA StatusRead ==
    ASSUME TypeOK, NEW s \in Session
    PROVE  /\ session[s].state \in Nonterminal <=> Alive(s)
           /\ session[s].state \in Terminal <=> Over(s)
<1>1. session[s].state \in SessionState
    BY DEF TypeOK, SessionRow
<1> QED
    BY <1>1 DEF SessionState, Materialized, Alive, Over, Status, Reading

(* No two live sessions work on one source of a repository, although       *)
(* builds, rebuilds, replacements and retries each look at other rows.     *)
THEOREM OneLiveWorkCorrect == Spec => []OneLiveWork
<1> DEFINE I == LInv /\ Lined
<1>1. Init => I
    BY InitLInv, InitLined
<1>2. I /\ [Next]_vars => I'
    BY NextImplements, LedgerLined
<1>3. I => OneLiveWork
    <2> SUFFICES ASSUME TypeOK, Lined, NEW s \in Session, NEW t \in Matching(s),
                        session[s].state \in Nonterminal, session[t].state \in Nonterminal
                 PROVE  FALSE
        BY DEF OneLiveWork, LInv, Agreement
    <2> QED
        BY StatusRead, RivalsMutual DEF Lined
<1> QED
    BY <1>1, <1>2, <1>3, PTL DEF Spec

(* No session is replaced twice, and what was replaced is terminal for     *)
(* ever: no retry, answer or late completion revives it.                   *)
THEOREM OneReplacementCorrect == Spec => []OneReplacement
<1> DEFINE I == LInv /\ Lined
<1>1. Init => I
    BY InitLInv, InitLined
<1>2. I /\ [Next]_vars => I'
    BY NextImplements, LedgerLined
<1>3. I => OneReplacement
    <2> SUFFICES ASSUME TypeOK, Lined, NEW s \in Session
                 PROVE  /\ Cardinality(Children(s)) <= 1
                        /\ Children(s) # {} => session[s].state \in Terminal
        BY DEF OneReplacement, LInv, Agreement
    <2>1. \A t, u \in Children(s) : t = u
        BY DEF Children, Lined
    <2>2. CASE Children(s) = {}
        BY <2>2, FS_EmptySet
    <2>3. CASE Children(s) # {}
        <3>1. PICK t \in Children(s) : Children(s) = {t}
            BY <2>1, <2>3
        <3>2. Cardinality(Children(s)) = 1
            BY <3>1, FS_Singleton
        <3>3. Over(s)
            BY <3>1 DEF Children, Lined
        <3> QED
            BY <3>2, <3>3, StatusRead
    <2> QED
        BY <2>2, <2>3
<1> QED
    BY <1>1, <1>2, <1>3, PTL DEF Spec

-----------------------------------------------------------------------------
(* What stays true of Work over its whole history.  A step changes a row   *)
(* of the sessions table in one of ten ways (RowMoves) and a row of the    *)
(* attempts table in one of five (AttemptMoves); the properties follow     *)
(* from these lists, the agreement of the rows and the numbering of the    *)
(* attempts.                                                               *)

USE DEF Active, Nonterminal, Materialized, Terminal, Result, AttemptTerminal

(* The columns a step leaves alone unless it is about them.                *)
Rest(x) ==
    /\ session'[x].pending = session[x].pending
    /\ session'[x].started = session[x].started
    /\ session'[x].mayRepeat = session[x].mayRepeat

Stays(x) == session'[x] = session[x]

Enters(x) ==
    /\ session[x].state = "unadmitted" /\ session'[x].state \in {"blocked", "queued"}
    /\ session'[x].pending = 0

(* Assigned to a worker, claimed, or blocked by its repository.            *)
Waits(x) ==
    /\ session[x].state \in {"blocked", "queued"}
    /\ session'[x].state \in {"blocked", "queued", "preparing"}
    /\ Rest(x)

Starts(x) ==
    /\ session[x].state = "preparing" /\ session'[x].state = "running"
    /\ session'[x].started
    /\ session'[x].pending = session[x].pending

(* Its runtime has started from the pending commit.                        *)
Consumes(x) ==
    /\ session[x].state = "running" /\ session'[x].state = "running"
    /\ session[x].pending # 0 =>
           \E n \in AttemptNo : /\ attempt[x][n].state = "running"
                                /\ attempt[x][n].from = session[x].pending
    /\ session'[x].pending = 0
    /\ session'[x].started = session[x].started
    /\ session'[x].mayRepeat = session[x].mayRepeat

Ends(x) ==
    /\ session[x].state \in Active
    /\ session'[x].state \in Terminal \cup {"needs-input"}
    /\ session[x].cancel => session'[x].state \in {"failed", "cancelled"}
    /\ \E n \in ActiveAt(x) :
           /\ session'[x].pending \in {session[x].pending, n}
           /\ attempt'[x][n].state \in AttemptTerminal
    /\ session'[x].started = session[x].started
    /\ session'[x].mayRepeat = session[x].mayRepeat

(* A cancellation is requested, or carried out where nobody runs the Work. *)
Requested(x) ==
    /\ session[x].state \in Active /\ session'[x].state = session[x].state
    /\ Rest(x)

Withdrawn(x) ==
    /\ session[x].state \in Nonterminal \ Active /\ session'[x].state = "cancelled"
    /\ Rest(x)

Retried(x) ==
    /\ session[x].state \in {"failed", "cancelled"} /\ session'[x].state = "queued"
    /\ attempt'[x] = attempt[x]
    /\ session'[x].pending = session[x].pending
    /\ session'[x].mayRepeat = (session[x].started \/ session[x].mayRepeat)

Answered(x) ==
    /\ session[x].state = "needs-input" /\ session'[x].state \in {"blocked", "queued"}
    /\ Rest(x)

RowMoves(x) ==
    \/ Stays(x) \/ Enters(x) \/ Waits(x) \/ Starts(x) \/ Consumes(x) \/ Ends(x)
    \/ Requested(x) \/ Withdrawn(x) \/ Retried(x) \/ Answered(x)

-----------------------------------------------------------------------------
(* The rows of the attempts.                                               *)

Fixed(x, n) ==
    /\ attempt'[x][n].worker = attempt[x][n].worker
    /\ attempt'[x][n].outcome = attempt[x][n].outcome
    /\ attempt'[x][n].started = attempt[x][n].started

AttemptMoves(x, n) ==
    \/ attempt'[x][n].state = attempt[x][n].state /\ Fixed(x, n)
    \/ /\ attempt[x][n].state = "none" /\ attempt'[x][n].state = "preparing"
       /\ ~attempt'[x][n].started /\ session[x].state \in {"blocked", "queued"}
       /\ \A i \in AttemptNo : attempt[x][i].state # "none" => i < n
    \/ /\ attempt[x][n].state = "preparing" /\ attempt'[x][n].state = "running"
       /\ attempt'[x][n].worker = attempt[x][n].worker
       /\ attempt'[x][n].outcome = attempt[x][n].outcome
       /\ Starts(x)
    \/ /\ attempt[x][n].state = "running" /\ attempt'[x][n].state = "running"
       /\ attempt'[x][n].started = attempt[x][n].started
    \/ /\ attempt[x][n].state \in Active /\ attempt'[x][n].state \in AttemptTerminal
       /\ Fixed(x, n)

Moves == \A x \in Session : RowMoves(x) /\ \A n \in AttemptNo : AttemptMoves(x, n)

-----------------------------------------------------------------------------
LEMMA QuietMoves ==
    ASSUME session' = session, attempt' = attempt
    PROVE  Moves
BY DEF Moves, RowMoves, Stays, AttemptMoves, Fixed

LEMMA AdmitMoves ==
    ASSUME NEW S \in SUBSET Session, NEW Q \in SUBSET S, NEW p, Admit(S, Q, p),
           \A s \in S : session[s].state = "unadmitted"
    PROVE  Moves
<1> SUFFICES ASSUME NEW x \in Session
             PROVE  RowMoves(x) /\ \A n \in AttemptNo : AttemptMoves(x, n)
    BY DEF Moves
<1>1. attempt' = attempt
    BY DEF Admit
<1>2. session'[x] = IF x \in S
                    THEN [NewSession EXCEPT !.state = IF x \in Q THEN "queued" ELSE "blocked",
                                            !.predecessor = p[x]]
                    ELSE session[x]
    BY DEF Admit
<1>3. x \in S => Enters(x)
    BY <1>2 DEF NewSession, Enters
<1>4. x \notin S => Stays(x)
    BY <1>2 DEF Stays
<1> QED
    BY <1>1, <1>3, <1>4 DEF RowMoves, AttemptMoves, Fixed

LEMMA AdmissionMoves ==
    ASSUME \/ \E r \in Run : AdmitRun(r)
           \/ \E p, s \in Session : ReplaceWork(p, s)
    PROVE  Moves
<1>1. ASSUME NEW r \in Run, AdmitRun(r) PROVE Moves
    BY <1>1, AdmitMoves DEF AdmitRun, SessionsOf
<1>2. ASSUME NEW p \in Session, NEW s \in Session, ReplaceWork(p, s) PROVE Moves
    BY <1>2, AdmitMoves DEF ReplaceWork
<1> QED
    BY <1>1, <1>2

(* A step about session s that leaves the other rows alone.                *)
LEMMA MovesOf ==
    ASSUME NEW s \in Session, RowMoves(s),
           \A n \in AttemptNo : AttemptMoves(s, n),
           \A x \in Session \ {s} : session'[x] = session[x] /\ attempt'[x] = attempt[x]
    PROVE  Moves
<1> SUFFICES ASSUME NEW x \in Session
             PROVE  RowMoves(x) /\ \A n \in AttemptNo : AttemptMoves(x, n)
    BY DEF Moves
<1>1. CASE x = s
    BY <1>1
<1>2. CASE x # s
    BY <1>2 DEF RowMoves, Stays, AttemptMoves, Fixed
<1> QED
    BY <1>1, <1>2

LEMMA ClaimMoves ==
    ASSUME LInv, NEW w \in Worker, Claim(w)
    PROVE  Moves
<1>1. PICK m \in FirstOf(Fairest(Materializable(w))), q \in FirstOf(Reroutable(w)) :
      \E c \in FirstOf(Fairest(Claimable(w, {m, q}))) : ClaimRows(w, m, q, c)
    BY DEF Claim
<1> PICK c \in FirstOf(Fairest(Claimable(w, {m, q}))) : ClaimRows(w, m, q, c)
    BY <1>1
<1> SUFFICES ASSUME NEW x \in Session
             PROVE  RowMoves(x) /\ \A n \in AttemptNo : AttemptMoves(x, n)
    BY DEF Moves
<1>0. NoSession \notin Session
    BY SessionAssumption
<1>2. /\ Agree(x) /\ Contiguous(x)
      /\ session[x] \in SessionRow
      /\ attempt \in [Session -> [AttemptNo -> AttemptRow]]
    BY DEF LInv, Agreement, TypeOK
<1>3. /\ x = m => session[x].state = "blocked"
      /\ x = q => session[x].state = "queued" /\ execution[x].state = "queued"
      /\ x = c => x = m \/ x = q \/ execution[x].state = "queued"
    BY <1>0 DEF FirstOf, Fairest, Materializable, Reroutable, Claimable
<1>4. CASE x = c
    <2>1. (x = m /\ session[x].state = "blocked") \/ session[x].state = "queued"
        BY <1>2, <1>3, <1>4 DEF Agree
    <2>2. session'[x] = [session[x] EXCEPT !.state = "preparing", !.owner = "worker_attempt"]
        BY <1>4, <2>1 DEF ClaimRows
    <2>3. Waits(x)
        BY <1>2, <2>1, <2>2 DEF Waits, Rest, SessionRow
    <2>4. PICK n \in AttemptNo :
              /\ attempt[x][n].state = "none"
              /\ \A i \in 1 .. (n - 1) : attempt[x][i].state # "none"
              /\ attempt' = [attempt EXCEPT ![x][n] = ClaimedAttempt(x, w)]
        BY <1>0, <1>4 DEF ClaimRows, InsertAttempt
    <2>5. PICK k \in 0 .. MaxAttempts : Attempted(x) = 1 .. k
        BY <1>2 DEF Contiguous
    <2>6. \A i \in AttemptNo : attempt[x][i].state # "none" => i < n
        <3>1. MaxAttempts \in Nat
            BY BoundAssumption
        <3>2. n \notin 1 .. k
            BY <2>4, <2>5 DEF Attempted
        <3>3. ASSUME NEW i \in AttemptNo, attempt[x][i].state # "none" PROVE i < n
            <4>1. i \in 1 .. k
                BY <2>5, <3>3 DEF Attempted
            <4> QED
                BY <3>1, <3>2, <4>1 DEF AttemptNo
        <3> QED
            BY <3>3
    <2>7. ClaimedAttempt(x, w).state = "preparing" /\ ~ClaimedAttempt(x, w).started
        BY DEF ClaimedAttempt, NoAttempt
    <2>8. ASSUME NEW i \in AttemptNo PROVE AttemptMoves(x, i)
        <3>1. CASE i = n
            <4>1. attempt'[x][i] = ClaimedAttempt(x, w)
                BY <1>2, <2>4, <3>1
            <4> QED
                BY <2>1, <2>4, <2>6, <2>7, <3>1, <4>1 DEF AttemptMoves
        <3>2. CASE i # n
            <4>1. attempt'[x][i] = attempt[x][i]
                BY <1>2, <2>4, <3>2
            <4> QED
                BY <4>1 DEF AttemptMoves, Fixed
        <3> QED
            BY <3>1, <3>2
    <2> QED
        BY <2>3, <2>8 DEF RowMoves
<1>5. CASE x # c
    <2>1. attempt'[x] = attempt[x]
        BY <1>2, <1>5 DEF ClaimRows, InsertAttempt
    <2>2. CASE x = m
        <3>1. session'[x] = Settled(session[x], "queued")
            BY <1>5, <2>2 DEF ClaimRows
        <3>2. Waits(x)
            BY <1>2, <1>3, <2>2, <3>1 DEF Waits, Rest, Settled, SessionRow
        <3> QED
            BY <2>1, <3>2 DEF RowMoves, AttemptMoves, Fixed
    <2>3. CASE x # m
        <3>1. Stays(x)
            BY <1>5, <2>3 DEF ClaimRows, Stays
        <3> QED
            BY <2>1, <3>1 DEF RowMoves, AttemptMoves, Fixed
    <2> QED
        BY <2>2, <2>3
<1> QED
    BY <1>4, <1>5

LEMMA CompleteMoves ==
    ASSUME LInv, NEW s \in Session, NEW n \in AttemptNo, NEW result \in Result,
           CompleteAttempt(s, n, result)
    PROVE  Moves
<1> DEFINE final == FinalResult(s, n, result)
           after == WorkResult(s, n, result)
<1>0. /\ attempt \in [Session -> [AttemptNo -> AttemptRow]]
      /\ session \in [Session -> SessionRow]
      /\ attempt[s][n] \in AttemptRow /\ session[s] \in SessionRow
      /\ TypeOK /\ Agree(s)
    BY DEF LInv, Agreement, TypeOK
<1>1. /\ attempt[s][n].state \in Active
      /\ session[s].state = attempt[s][n].state
      /\ session[s].cancel = execution[s].cancel
      /\ n \in ActiveAt(s)
    BY <1>0, OneRuns DEF CompleteAttempt, LeaseHeld, ActiveAt
<1>2. final \in Result
    BY DEF FinalResult, Result
<1>3. after \in Result \cup Outcome
    BY <1>0, <1>2, OutcomeKnown DEF WorkResult
<1>4. session[s].cancel => after = "cancelled"
    BY <1>1 DEF WorkResult, FinalResult
<1>5. session[s].state \in Settles(s, n, result)
    BY <1>1 DEF CompleteAttempt, Settles
<1>6. /\ attempt' = [attempt EXCEPT ![s][n] = Ended(attempt[s][n], final)]
      /\ session' = [session EXCEPT ![s] =
             Checkpoint(Settled(session[s], after), n, OutcomeOf(s, n))]
    BY <1>5 DEF CompleteAttempt
<1> HIDE DEF final, after
<1>7. /\ session'[s].state = after
      /\ session'[s].pending \in {session[s].pending, n}
      /\ session'[s].started = session[s].started
      /\ session'[s].mayRepeat = session[s].mayRepeat
    BY <1>0, <1>6 DEF Checkpoint, Settled, SessionRow
<1>8. /\ attempt'[s][n].state = final /\ Fixed(s, n)
      /\ \A i \in AttemptNo \ {n} : attempt'[s][i] = attempt[s][i]
    BY <1>0, <1>6 DEF Ended, AttemptRow, Fixed
<1>9. Ends(s)
    BY <1>1, <1>2, <1>3, <1>4, <1>7, <1>8 DEF Ends, Result, Outcome
<1>10. ASSUME NEW i \in AttemptNo PROVE AttemptMoves(s, i)
    BY <1>1, <1>2, <1>8 DEF AttemptMoves, Fixed, Result
<1>11. \A x \in Session \ {s} : session'[x] = session[x] /\ attempt'[x] = attempt[x]
    BY <1>0, <1>6
<1> QED
    BY <1>9, <1>10, <1>11, MovesOf DEF RowMoves

LEMMA WorkerRequestMoves ==
    ASSUME LInv, NEW s \in Session, NEW n \in AttemptNo, WorkerRequest(s, n)
    PROVE  Moves
<1>0. /\ attempt \in [Session -> [AttemptNo -> AttemptRow]]
      /\ session \in [Session -> SessionRow]
      /\ attempt[s][n] \in AttemptRow /\ session[s] \in SessionRow
      /\ TypeOK /\ Agree(s)
    BY DEF LInv, Agreement, TypeOK
<1>1. CASE StartAttempt(s, n)
    <2>1. /\ attempt[s][n].state = "preparing" /\ session[s].state = "preparing"
        BY <1>0, <1>1, OneRuns DEF StartAttempt, LeaseHeld
    <2>2. /\ attempt' = [attempt EXCEPT ![s][n].state = "running", ![s][n].started = TRUE]
          /\ session' = [session EXCEPT ![s].state = "running", ![s].started = TRUE,
                                        ![s].owner = "worker_attempt"]
        BY <1>1, <2>1 DEF StartAttempt
    <2>3. Starts(s)
        BY <1>0, <2>1, <2>2 DEF Starts, SessionRow
    <2>4. /\ attempt'[s][n].state = "running"
          /\ attempt'[s][n].worker = attempt[s][n].worker
          /\ attempt'[s][n].outcome = attempt[s][n].outcome
          /\ \A i \in AttemptNo \ {n} : attempt'[s][i] = attempt[s][i]
          /\ \A x \in Session \ {s} : session'[x] = session[x] /\ attempt'[x] = attempt[x]
        BY <1>0, <2>2 DEF AttemptRow
    <2>5. \A i \in AttemptNo : AttemptMoves(s, i)
        BY <2>1, <2>3, <2>4 DEF AttemptMoves, Fixed
    <2> QED
        BY <2>3, <2>4, <2>5, MovesOf DEF RowMoves
<1>2. CASE RuntimeStarted(s, n)
    <2>1. session' = [session EXCEPT ![s].pending = 0] /\ attempt' = attempt
        BY <1>2 DEF RuntimeStarted
    <2>2. /\ session'[s].state = session[s].state /\ session'[s].pending = 0
          /\ session'[s].started = session[s].started
          /\ session'[s].mayRepeat = session[s].mayRepeat
          /\ \A x \in Session \ {s} : session'[x] = session[x]
        BY <1>0, <2>1 DEF SessionRow
    <2>3. Consumes(s)
        BY <1>2, <2>2 DEF RuntimeStarted, Consumes, FromPending
    <2> QED
        BY <2>1, <2>2, <2>3, MovesOf DEF RowMoves, AttemptMoves, Fixed
<1>3. CASE Heartbeat(s, n)
    <2>1. PICK answered \in BOOLEAN : attempt' =
              [attempt EXCEPT ![s][n] = Renewed(attempt[s][n], execution[s].cancel, answered)]
        BY <1>3 DEF Heartbeat
    <2>2. /\ attempt'[s][n].state = attempt[s][n].state /\ Fixed(s, n)
          /\ \A i \in AttemptNo \ {n} : attempt'[s][i] = attempt[s][i]
          /\ \A x \in Session \ {s} : attempt'[x] = attempt[x]
        BY <1>0, <2>1 DEF Renewed, AttemptRow, Fixed
    <2>3. session' = session
        BY <1>3 DEF Heartbeat
    <2>4. \A i \in AttemptNo : AttemptMoves(s, i)
        BY <2>2 DEF AttemptMoves, Fixed
    <2> QED
        BY <2>2, <2>3, <2>4, MovesOf DEF RowMoves, Stays
<1>4. CASE \/ \E i \in StageNo : StartStage(s, n, i)
           \/ \E i \in StageNo, result \in Result : CompleteStage(s, n, i, result)
    BY <1>4, QuietMoves DEF StartStage, CompleteStage
<1>5. CASE \E outcome \in Outcome : ReportOutcome(s, n, outcome)
    <2>1. PICK outcome \in Outcome :
              attempt' = [attempt EXCEPT ![s][n].outcome = outcome]
        BY <1>5 DEF ReportOutcome
    <2>2. attempt[s][n].state = "running" /\ session' = session
        BY <1>5 DEF ReportOutcome, PipelineRunning
    <2>3. /\ attempt'[s][n].state = "running"
          /\ attempt'[s][n].started = attempt[s][n].started
          /\ \A i \in AttemptNo \ {n} : attempt'[s][i] = attempt[s][i]
          /\ \A x \in Session \ {s} : attempt'[x] = attempt[x]
        BY <1>0, <2>1, <2>2 DEF AttemptRow
    <2>4. \A i \in AttemptNo : AttemptMoves(s, i)
        BY <2>2, <2>3 DEF AttemptMoves, Fixed
    <2> QED
        BY <2>2, <2>3, <2>4, MovesOf DEF RowMoves, Stays
<1>6. CASE \E result \in Result : CompleteAttempt(s, n, result)
    BY <1>6, CompleteMoves
<1> QED
    BY <1>1, <1>2, <1>3, <1>4, <1>5, <1>6 DEF WorkerRequest

LEMMA TickMoves ==
    ASSUME LInv, Tick
    PROVE  Moves
<1>1. \A x \in Session : Stays(x)
    BY DEF Tick, Stays
<1>2. ASSUME NEW x \in Session, NEW n \in AttemptNo
      PROVE  AttemptMoves(x, n)
    <2>1. attempt'[x][n] = IF LeaseHeld(x, n) THEN Aged(attempt[x][n]) ELSE attempt[x][n]
        BY DEF Tick
    <2>2. attempt[x][n] \in AttemptRow
        BY DEF LInv, Agreement, TypeOK
    <2>3. attempt'[x][n].state = attempt[x][n].state /\ Fixed(x, n)
        BY <2>1, <2>2 DEF Aged, Fixed, AttemptRow
    <2> QED
        BY <2>3 DEF AttemptMoves
<1> QED
    BY <1>1, <1>2 DEF Moves, RowMoves

LEMMA SweepMoves ==
    ASSUME LInv, SweepExpired
    PROVE  Moves
<1> DEFINE Lapsed == {x \in Session : \E n \in AttemptNo : Expired(x, n)}
<1> SUFFICES ASSUME NEW x \in Session
             PROVE  RowMoves(x) /\ \A n \in AttemptNo : AttemptMoves(x, n)
    BY DEF Moves
<1>0. Agree(x) /\ session[x] \in SessionRow
    BY DEF LInv, Agreement, TypeOK
<1>1. ASSUME NEW n \in AttemptNo
      PROVE  /\ AttemptMoves(x, n)
             /\ Expired(x, n) => attempt'[x][n].state = "lost"
    <2>1. attempt'[x][n] = IF Expired(x, n) THEN Ended(attempt[x][n], "lost")
                           ELSE attempt[x][n]
        BY DEF SweepExpired
    <2>2. attempt[x][n] \in AttemptRow
        BY DEF LInv, Agreement, TypeOK
    <2>3. CASE Expired(x, n)
        BY <2>1, <2>2, <2>3 DEF Expired, Ended, AttemptMoves, Fixed, AttemptRow
    <2>4. CASE ~Expired(x, n)
        BY <2>1, <2>4 DEF AttemptMoves, Fixed
    <2> QED
        BY <2>3, <2>4
<1>2. CASE x \in Lapsed
    <2>1. PICK n \in AttemptNo : n = (CHOOSE i \in AttemptNo : Expired(x, i)) /\ Expired(x, n)
        BY <1>2
    <2>2. n \in ActiveAt(x) /\ session[x].state \in Active
        BY <1>0, <2>1, OneRuns DEF Expired, ActiveAt
    <2>3. session'[x] = Checkpoint(Settled(session[x], "failed"), n, attempt[x][n].outcome)
        BY <1>2, <2>1, <2>2 DEF SweepExpired
    <2>4. Ends(x)
        BY <1>0, <1>1, <2>1, <2>2, <2>3 DEF Ends, Checkpoint, Settled, SessionRow
    <2> QED
        BY <1>1, <2>4 DEF RowMoves
<1>3. CASE x \notin Lapsed
    <2>1. Stays(x)
        BY <1>3 DEF SweepExpired, Stays
    <2> QED
        BY <1>1, <2>1 DEF RowMoves
<1> QED
    BY <1>2, <1>3

LEMMA CancelMoves ==
    ASSUME LInv, NEW S \in SUBSET Session, Cancel(S)
    PROVE  Moves
<1> SUFFICES ASSUME NEW x \in Session PROVE RowMoves(x)
    BY DEF Moves, Cancel, AttemptMoves, Fixed
<1>1. session[x] \in SessionRow
    BY DEF LInv, Agreement, TypeOK
<1>2. session'[x] = IF x \in S THEN CancelledSession(session[x]) ELSE session[x]
    BY DEF Cancel
<1>3. CASE x \in S /\ session[x].state \in Active
    <2>1. Requested(x)
        BY <1>1, <1>2, <1>3 DEF CancelledSession, Requested, Rest, SessionRow
    <2> QED
        BY <2>1 DEF RowMoves
<1>4. CASE x \in S /\ session[x].state \in Nonterminal \ Active
    <2>1. Withdrawn(x)
        BY <1>1, <1>2, <1>4 DEF CancelledSession, Settled, Withdrawn, Rest, SessionRow
    <2> QED
        BY <2>1 DEF RowMoves
<1>5. CASE x \notin S \/ session[x].state \notin Nonterminal
    <2>1. Stays(x)
        BY <1>2, <1>5 DEF CancelledSession, Stays
    <2> QED
        BY <2>1 DEF RowMoves
<1> QED
    BY <1>3, <1>4, <1>5

LEMMA RetryMoves ==
    ASSUME LInv, NEW s \in Session, RetrySession(s)
    PROVE  Moves
<1>1. session \in [Session -> SessionRow] /\ session[s] \in SessionRow
    BY DEF LInv, Agreement, TypeOK
<1>2. session' = [session EXCEPT ![s] =
          [Settled(session[s], "queued") EXCEPT !.cancel = FALSE, !.started = FALSE,
                                                !.mayRepeat = MayRepeat(session[s])]]
    BY DEF RetrySession
<1>3. attempt' = attempt
    BY DEF RetrySession
<1>4. /\ session'[s].state = "queued"
      /\ session'[s].pending = session[s].pending
      /\ session'[s].mayRepeat = MayRepeat(session[s])
      /\ \A x \in Session \ {s} : session'[x] = session[x]
    BY <1>1, <1>2 DEF Settled, SessionRow
<1>5. Retried(s)
    BY <1>3, <1>4 DEF Retried, RetrySession, Retryable, MayRepeat
<1> QED
    BY <1>3, <1>4, <1>5, MovesOf DEF RowMoves, AttemptMoves, Fixed

LEMMA AnswerMoves ==
    ASSUME LInv, NEW s \in Session, NEW n \in AttemptNo, AnswerWork(s, n)
    PROVE  Moves
<1>1. /\ session \in [Session -> SessionRow] /\ session[s] \in SessionRow
      /\ attempt \in [Session -> [AttemptNo -> AttemptRow]] /\ attempt[s][n] \in AttemptRow
    BY DEF LInv, Agreement, TypeOK
<1>2. PICK state \in {"queued", "blocked"} : session' = [session EXCEPT ![s] =
          [Settled(session[s], state) EXCEPT !.cancel = FALSE]]
    BY DEF AnswerWork
<1>3. attempt' = [attempt EXCEPT ![s][n].answered = TRUE]
    BY DEF AnswerWork
<1>4. /\ attempt'[s][n].state = attempt[s][n].state /\ Fixed(s, n)
      /\ \A i \in AttemptNo \ {n} : attempt'[s][i] = attempt[s][i]
      /\ \A x \in Session \ {s} : attempt'[x] = attempt[x]
    BY <1>1, <1>3 DEF Fixed, AttemptRow
<1>5. /\ session'[s].state = state /\ Rest(s)
      /\ \A x \in Session \ {s} : session'[x] = session[x]
    BY <1>1, <1>2 DEF Settled, Rest, SessionRow
<1>6. Answered(s)
    BY <1>5 DEF AnswerWork, Answered
<1>7. \A i \in AttemptNo : AttemptMoves(s, i)
    BY <1>4 DEF AttemptMoves, Fixed
<1> QED
    BY <1>4, <1>5, <1>6, <1>7, MovesOf DEF RowMoves

LEMMA DisableMoves ==
    ASSUME LInv, NEW p \in Repository, DisableRepository(p)
    PROVE  Moves
<1> SUFFICES ASSUME NEW x \in Session PROVE RowMoves(x)
    BY DEF Moves, DisableRepository, AttemptMoves, Fixed
<1>1. session[x] \in SessionRow
    BY DEF LInv, Agreement, TypeOK
<1>2. session'[x] = IF RepoOf[x] = p /\ session[x].state = "queued"
                    THEN Settled(session[x], "blocked") ELSE session[x]
    BY DEF DisableRepository
<1>3. CASE RepoOf[x] = p /\ session[x].state = "queued"
    <2>1. Waits(x)
        BY <1>1, <1>2, <1>3 DEF Settled, Waits, Rest, SessionRow
    <2> QED
        BY <2>1 DEF RowMoves
<1>4. CASE ~(RepoOf[x] = p /\ session[x].state = "queued")
    BY <1>2, <1>4 DEF RowMoves, Stays
<1> QED
    BY <1>3, <1>4

LEMMA NextMoves ==
    ASSUME LInv, [Next]_vars
    PROVE  Moves
<1>1. CASE OperatorRequest
    <2>1. ASSUME NEW r \in Run, AdmitRun(r) \/ CancelRun(r) PROVE Moves
        BY <2>1, AdmissionMoves, CancelMoves DEF CancelRun, SessionsOf
    <2>2. ASSUME NEW p \in Session, NEW s \in Session, ReplaceWork(p, s) PROVE Moves
        BY <2>2, AdmissionMoves
    <2>3. ASSUME NEW s \in Session, CancelSession(s) \/ RetrySession(s) PROVE Moves
        BY <2>3, CancelMoves, RetryMoves DEF CancelSession
    <2>4. ASSUME NEW s \in Session, NEW n \in AttemptNo, AnswerWork(s, n) PROVE Moves
        BY <2>4, AnswerMoves
    <2>5. ASSUME NEW p \in Repository, EnableRepository(p) \/ DisableRepository(p) PROVE Moves
        BY <2>5, DisableMoves, QuietMoves DEF EnableRepository
    <2> QED
        BY <1>1, <2>1, <2>2, <2>3, <2>4, <2>5 DEF OperatorRequest
<1>2. ASSUME NEW w \in Worker, Claim(w) \/ ChangeRoutes(w) PROVE Moves
    BY <1>2, ClaimMoves, QuietMoves DEF ChangeRoutes
<1>3. ASSUME NEW s \in Session, NEW n \in AttemptNo, WorkerRequest(s, n) PROVE Moves
    BY <1>3, WorkerRequestMoves
<1>4. CASE Tick \/ SweepExpired
    BY <1>4, TickMoves, SweepMoves
<1>5. CASE UNCHANGED vars
    BY <1>5, QuietMoves DEF vars
<1> QED
    BY <1>1, <1>2, <1>3, <1>4, <1>5 DEF Next

-----------------------------------------------------------------------------
(* An attempt that has started.                                            *)

Warned(x) ==
    /\ (\E n \in AttemptNo : attempt[x][n].started) => session[x].started \/ session[x].mayRepeat
    /\ session[x].state = "unadmitted" => \A n \in AttemptNo : ~attempt[x][n].started

(* A started attempt is remembered by the session: the retry that clears   *)
(* started_at moves the warning to a column of its own before.             *)
THEOREM RepeatWarnedCorrect == Spec => []RepeatWarned
<1> DEFINE WInv == LInv /\ \A x \in Session : Warned(x)
<1>1. Init => WInv
    BY InitLInv DEF Init, NewSession, NoAttempt, Warned
<1>2. WInv /\ [Next]_vars => WInv'
    <2> SUFFICES ASSUME LInv, [Next]_vars, NEW x \in Session, Warned(x)
                 PROVE  Warned(x)'
        BY NextImplements
    <2>1. RowMoves(x) /\ \A n \in AttemptNo : AttemptMoves(x, n)
        BY NextMoves DEF Moves
    <2>2. ASSUME NEW n \in AttemptNo, attempt'[x][n].started
          PROVE  attempt[x][n].started \/ Starts(x)
        BY <2>1, <2>2 DEF AttemptMoves, Fixed
    <2>3. CASE Starts(x)
        BY <2>3 DEF Starts, Warned
    <2>4. CASE ~Starts(x)
        <3>1. \A n \in AttemptNo : attempt'[x][n].started => attempt[x][n].started
            BY <2>2, <2>4
        <3>2. session'[x].state = "unadmitted" => session[x].state = "unadmitted"
            BY <2>1, <2>4 DEF RowMoves, Stays, Enters, Waits, Consumes, Ends, Requested,
                              Withdrawn, Retried, Answered
        <3>3. CASE session[x].state = "unadmitted"
            BY <3>1, <3>3 DEF Warned
        <3>4. CASE session[x].state # "unadmitted"
            <4>1. session[x].started \/ session[x].mayRepeat =>
                      session'[x].started \/ session'[x].mayRepeat
                BY <2>1, <2>4, <3>4 DEF RowMoves, Rest, Stays, Enters, Waits, Consumes, Ends,
                                        Requested, Withdrawn, Retried, Answered
            <4> QED
                BY <3>1, <3>2, <3>4, <4>1 DEF Warned
        <3> QED
            BY <3>3, <3>4
    <2> QED
        BY <2>3, <2>4
<1>3. WInv => RepeatWarned
    BY DEF Warned, RepeatWarned
<1> QED
    BY <1>1, <1>2, <1>3, PTL DEF Spec

-----------------------------------------------------------------------------
(* What was decided.                                                       *)

(* The attempt that left the pending commit has ended, and the active      *)
(* attempt is the last one.                                                *)
Ordered(x) ==
    /\ session[x].state = "unadmitted" => session[x].pending = 0
    /\ session[x].pending # 0 => attempt[x][session[x].pending].state \in AttemptTerminal
    /\ \A n \in ActiveAt(x), i \in AttemptNo : attempt[x][i].state # "none" => i <= n

LEMMA PendingOrdered ==
    ASSUME LInv, LInv', Moves, NEW x \in Session, Ordered(x)
    PROVE  Ordered(x)'
<1>1. RowMoves(x) /\ \A n \in AttemptNo : AttemptMoves(x, n)
    BY DEF Moves
<1>2. /\ session[x].pending \in Commit /\ session'[x].pending \in Commit
      /\ Agree(x) /\ Agree(x)' /\ MaxAttempts \in Nat
    BY BoundAssumption DEF LInv, Agreement, TypeOK, SessionRow
<1>3. session'[x].state = "unadmitted" => session'[x].pending = 0
    BY <1>1 DEF RowMoves, Stays, Enters, Waits, Starts, Consumes, Ends, Requested, Withdrawn,
                Retried, Answered, Ordered
<1>4. ASSUME session'[x].pending # 0
      PROVE  attempt'[x][session'[x].pending].state \in AttemptTerminal
    <2>1. \A n \in AttemptNo : attempt[x][n].state \in AttemptTerminal =>
              attempt'[x][n].state = attempt[x][n].state
        BY <1>1 DEF AttemptMoves
    <2>2. session'[x].pending \in AttemptNo
        BY <1>2, <1>4 DEF Commit, AttemptNo
    <2>3. CASE session'[x].pending = session[x].pending
        BY <1>4, <2>1, <2>2, <2>3 DEF Ordered
    <2>4. CASE session'[x].pending # session[x].pending
        <3>1. Ends(x)
            BY <1>1, <1>4, <2>4 DEF RowMoves, Rest, Stays, Enters, Waits, Starts, Consumes,
                                    Requested, Withdrawn, Retried, Answered
        <3> QED
            BY <2>4, <3>1 DEF Ends, ActiveAt
    <2> QED
        BY <2>3, <2>4
<1>5. ASSUME NEW n \in ActiveAt(x)', NEW i \in AttemptNo, attempt'[x][i].state # "none"
      PROVE  i <= n
    <2>1. /\ n \in AttemptNo /\ attempt'[x][n].state \in Active
          /\ n \in Int /\ i \in Int
        BY <1>2 DEF ActiveAt, AttemptNo
    <2>2. CASE attempt[x][n].state = "none"
        <3>1. \A j \in AttemptNo : attempt[x][j].state # "none" => j < n
            BY <1>1, <2>1, <2>2 DEF AttemptMoves
        <3>2. CASE attempt[x][i].state = "none"
            <4>1. attempt'[x][i].state = "preparing"
                BY <1>1, <1>5, <3>2 DEF AttemptMoves
            <4>2. i \in ActiveAt(x)'
                BY <4>1 DEF ActiveAt
            <4> QED
                BY <1>2, <2>1, <4>2 DEF Agree
        <3> QED
            BY <2>1, <3>1, <3>2
    <2>3. CASE attempt[x][n].state # "none"
        <3>1. n \in ActiveAt(x)
            BY <1>1, <2>1, <2>3 DEF AttemptMoves, ActiveAt
        <3>2. attempt[x][i].state # "none"
            <4>1. session[x].state \in Active
                BY <1>2, <3>1, OneRuns DEF ActiveAt
            <4> QED
                BY <1>1, <1>5, <4>1 DEF AttemptMoves
        <3> QED
            BY <3>1, <3>2 DEF Ordered
    <2> QED
        BY <2>2, <2>3
<1> QED
    BY <1>3, <1>4, <1>5 DEF Ordered

DInv == LInv /\ \A x \in Session : Ordered(x)

LEMMA InitDInv == Init => DInv
BY InitLInv DEF DInv, Init, NewSession, NoAttempt, Ordered, ActiveAt

LEMMA NextDInv == DInv /\ [Next]_vars => DInv'
BY NextImplements, NextMoves, PendingOrdered DEF DInv

(* Late requests change nothing that ended, no attempt delivers cancelled  *)
(* Work, and a checkpoint waits for the attempt that goes on from it.      *)
THEOREM DecidedStaysCorrect == Spec => DecidedStays
<1>1. DInv /\ [Next]_vars =>
          [\A s \in Session, n \in AttemptNo :
              attempt[s][n].state \in AttemptTerminal =>
                  /\ attempt'[s][n].state = attempt[s][n].state
                  /\ attempt'[s][n].worker = attempt[s][n].worker
                  /\ attempt'[s][n].outcome = attempt[s][n].outcome]_vars
    BY NextMoves DEF DInv, Moves, AttemptMoves, Fixed
<1>2. DInv /\ [Next]_vars =>
          [\A s \in Session :
              session[s].state \in Terminal /\ session'[s].state # session[s].state =>
                  /\ session[s].state \in {"failed", "cancelled"}
                  /\ session'[s].state = "queued"
                  /\ attempt'[s] = attempt[s]]_vars
    <2> SUFFICES ASSUME DInv, [Next]_vars, NEW s \in Session,
                        session[s].state \in Terminal, session'[s].state # session[s].state
                 PROVE  Retried(s)
        BY DEF Retried
    <2>1. RowMoves(s)
        BY NextMoves DEF DInv, Moves
    <2> QED
        BY <2>1 DEF RowMoves, Stays, Enters, Waits, Starts, Consumes, Ends, Requested,
                    Withdrawn, Answered
<1>3. DInv /\ [Next]_vars =>
          [\A s \in Session :
              session[s].state \in Active /\ session[s].cancel /\ session'[s].state \notin Active =>
                  session'[s].state \in {"failed", "cancelled"}]_vars
    <2> SUFFICES ASSUME DInv, [Next]_vars, NEW s \in Session,
                        session[s].state \in Active, session[s].cancel,
                        session'[s].state \notin Active
                 PROVE  session'[s].state \in {"failed", "cancelled"}
        OBVIOUS
    <2>1. RowMoves(s)
        BY NextMoves DEF DInv, Moves
    <2> QED
        BY <2>1 DEF RowMoves, Stays, Enters, Waits, Starts, Consumes, Ends, Requested,
                    Withdrawn, Retried, Answered
<1>4. DInv /\ [Next]_vars =>
          [\A s \in Session :
              LET old == session[s].pending
                  new == session'[s].pending
              IN  old # 0 /\ new # old =>
                      \/ new > old
                      \/ /\ new = 0
                         /\ \E n \in AttemptNo :
                                /\ attempt[s][n].state = "running"
                                /\ attempt[s][n].from = old]_vars
    <2> SUFFICES ASSUME DInv, [Next]_vars, NEW s \in Session,
                        session[s].pending # 0, session'[s].pending # session[s].pending
                 PROVE  \/ session'[s].pending > session[s].pending
                        \/ Consumes(s)
        BY DEF Consumes
    <2>1. RowMoves(s) /\ Ordered(s)
        BY NextMoves DEF DInv, Moves
    <2>2. session[s].pending \in AttemptNo /\ MaxAttempts \in Nat
        BY BoundAssumption DEF DInv, LInv, Agreement, TypeOK, SessionRow, Commit, AttemptNo
    <2>3. CASE Ends(s)
        <3>1. PICK n \in ActiveAt(s) : session'[s].pending = n
            BY <2>3 DEF Ends
        <3>2. session[s].pending <= n /\ session[s].pending # n /\ n \in AttemptNo
            BY <2>1, <2>2, <3>1 DEF Ordered, ActiveAt
        <3> QED
            BY <2>2, <3>1, <3>2 DEF AttemptNo
    <2>4. CASE ~Ends(s)
        BY <2>1, <2>4 DEF RowMoves, Rest, Stays, Enters, Waits, Starts, Requested, Withdrawn,
                          Retried, Answered, Ordered
    <2> QED
        BY <2>3, <2>4
<1> QED
    BY <1>1, <1>2, <1>3, <1>4, InitDInv, NextDInv, PTL
       DEF Spec, DecidedStays, AttemptsFinal, TerminalWorkFinal, CancellationPrevails,
           PendingCommitKept

-----------------------------------------------------------------------------
(* The limit of a run.                                                     *)

Joins(x) == session[x].state \notin Materialized /\ session'[x].state \in Materialized

WithinLimit(r) == Cardinality(InState(r, Materialized)) <= ConcurrencyLimit[r]

LEMMA InStateFinite ==
    ASSUME NEW r \in Run
    PROVE  /\ IsFiniteSet(InState(r, Materialized))
           /\ IsFiniteSet(InState(r, Materialized)')
           /\ Cardinality(InState(r, Materialized)) \in Nat
           /\ Cardinality(InState(r, Materialized)') \in Nat
<1>1. IsFiniteSet(Session)
    BY SessionAssumption
<1>2. InState(r, Materialized) \in SUBSET Session /\ InState(r, Materialized)' \in SUBSET Session
    BY DEF InState, SessionsOf
<1>3. IsFiniteSet(InState(r, Materialized)) /\ IsFiniteSet(InState(r, Materialized)')
    BY <1>1, <1>2, FS_Subset
<1> QED
    BY <1>3, FS_CardinalityType

LEMMA NoneJoins ==
    ASSUME RunConcurrency, NEW r \in Run, \A x \in SessionsOf(r) : ~Joins(x)
    PROVE  WithinLimit(r)'
<1>1. InState(r, Materialized)' \in SUBSET InState(r, Materialized)
    BY DEF InState, SessionsOf, Joins
<1>2. Cardinality(InState(r, Materialized)') <= Cardinality(InState(r, Materialized))
    BY <1>1, InStateFinite, FS_Subset
<1>3. ConcurrencyLimit[r] \in Nat
    BY BoundAssumption
<1> QED
    BY <1>2, <1>3, InStateFinite DEF RunConcurrency, WithinLimit

LEMMA OneJoins ==
    ASSUME RunConcurrency, NEW y \in Session, SlotFree(RunOf[y]),
           \A x \in Session \ {y} : ~Joins(x)
    PROVE  RunConcurrency'
<1> SUFFICES ASSUME NEW r \in Run PROVE WithinLimit(r)'
    BY DEF RunConcurrency, WithinLimit
<1>1. CASE RunOf[y] = r
    <2> DEFINE Before == InState(r, Materialized)
               After == InState(r, Materialized)'
    <2>1. After \in SUBSET (Before \cup {y})
        BY DEF InState, SessionsOf, Joins
    <2>2. /\ IsFiniteSet(Before) /\ Cardinality(Before) \in Nat
          /\ IsFiniteSet(After) /\ Cardinality(After) \in Nat
        BY InStateFinite
    <2>3. Cardinality(Before) < ConcurrencyLimit[r]
        BY <1>1 DEF SlotFree
    <2> HIDE DEF Before, After
    <2>4. /\ IsFiniteSet(Before \cup {y})
          /\ Cardinality(Before \cup {y}) \in {Cardinality(Before), Cardinality(Before) + 1}
        BY <2>2, FS_AddElement
    <2>5. Cardinality(After) <= Cardinality(Before \cup {y}) /\ Cardinality(Before \cup {y}) \in Nat
        BY <2>1, <2>4, FS_Subset, FS_CardinalityType
    <2>6. ConcurrencyLimit[r] \in Nat
        BY BoundAssumption
    <2>7. Cardinality(After) <= ConcurrencyLimit[r]
        BY <2>2, <2>3, <2>4, <2>5, <2>6
    <2> QED
        BY <2>7 DEF After, WithinLimit
<1>2. CASE RunOf[y] # r
    <2>1. \A x \in SessionsOf(r) : ~Joins(x)
        BY <1>2 DEF SessionsOf
    <2> QED
        BY <2>1, NoneJoins
<1> QED
    BY <1>1, <1>2

-----------------------------------------------------------------------------
(* The runs, by what a step does to their sessions.                        *)

(* A run is admitted with all its sessions.                                *)
Together(r) ==
    \A x, y \in SessionsOf(r) : session[x].state = "unadmitted" => session[y].state = "unadmitted"

Closed(r) ==
    runTerminal[r] <=> SessionsOf(r) # {} /\ \A x \in SessionsOf(r) : session[x].state \in Terminal

RInv == LInv /\ RunConcurrency /\ \A r \in Run : Together(r) /\ Closed(r)

Known(x) == session'[x].state = "unadmitted" <=> session[x].state = "unadmitted"

Kept(x) == Known(x) /\ (session'[x].state \in Terminal <=> session[x].state \in Terminal)

RunsKept == RunConcurrency' /\ \A r \in Run : Together(r)' /\ Closed(r)'

LEMMA TogetherKept ==
    ASSUME RInv, \A x \in Session : Known(x)
    PROVE  \A r \in Run : Together(r)'
BY DEF RInv, Together, Known, SessionsOf

LEMMA QuietRuns ==
    ASSUME RInv, runTerminal' = runTerminal, \A x \in Session : Kept(x), RunConcurrency'
    PROVE  RunsKept
<1>1. \A r \in Run : Together(r)'
    BY TogetherKept DEF Kept
<1>2. \A r \in Run : Closed(r)'
    BY DEF RInv, Closed, Kept, SessionsOf
<1> QED
    BY <1>1, <1>2 DEF RunsKept

LEMMA SettledRuns ==
    ASSUME RInv, TypeOK', NEW S \in SUBSET Session, UpdateRunLifecycle(S),
           \A x \in Session : Known(x) /\ ~Joins(x),
           \A x \in Session \ S : session'[x].state = session[x].state,
           \A x \in S : \E y \in SessionsOf(RunOf[x]) : session[y].state # "unadmitted"
    PROVE  RunsKept
<1>1. \A r \in Run : Together(r)'
    BY TogetherKept
<1>2. ASSUME NEW r \in Run PROVE Closed(r)'
    <2>1. CASE \E s \in S : RunOf[s] = r
        <3>1. runTerminal'[r] = \A t \in SessionsOf(r) : session'[t].state \notin Nonterminal
            BY <2>1 DEF UpdateRunLifecycle
        <3>2. PICK y \in SessionsOf(r) : session[y].state # "unadmitted"
            BY <2>1
        <3>3. \A t \in SessionsOf(r) : session'[t].state \in SessionState \ {"unadmitted"}
            <4>1. \A t \in SessionsOf(r) : session[t].state # "unadmitted"
                BY <3>2 DEF RInv, Together
            <4>2. \A t \in Session : session'[t].state \in SessionState
                BY DEF TypeOK, SessionRow
            <4> QED
                BY <4>1, <4>2 DEF Known, SessionsOf
        <3>4. \A t \in SessionsOf(r) :
                  session'[t].state \notin Nonterminal <=> session'[t].state \in Terminal
            BY <3>3 DEF SessionState
        <3> QED
            BY <3>1, <3>2, <3>4 DEF Closed
    <2>2. CASE ~\E s \in S : RunOf[s] = r
        <3>1. runTerminal'[r] = runTerminal[r]
            BY <2>2 DEF UpdateRunLifecycle
        <3>2. \A t \in SessionsOf(r) : session'[t].state = session[t].state
            BY <2>2 DEF SessionsOf
        <3> QED
            BY <3>1, <3>2 DEF RInv, Closed
    <2> QED
        BY <2>1, <2>2
<1>3. RunConcurrency'
    BY NoneJoins DEF RInv, RunConcurrency, WithinLimit, SessionsOf
<1> QED
    BY <1>1, <1>2, <1>3 DEF RunsKept

LEMMA ReopenedRuns ==
    ASSUME RInv, NEW s \in Session,
           runTerminal' = [runTerminal EXCEPT ![RunOf[s]] = FALSE],
           session[s].state # "unadmitted", session'[s].state \in {"blocked", "queued"},
           session'[s].state = "queued" => SlotFree(RunOf[s]),
           \A x \in Session \ {s} : session'[x] = session[x]
    PROVE  RunsKept
<1>1. \A r \in Run : Together(r)'
    BY TogetherKept DEF Known
<1>2. ASSUME NEW r \in Run PROVE Closed(r)'
    <2>1. runTerminal \in [Run -> BOOLEAN]
        BY DEF RInv, LInv, Agreement, TypeOK
    <2>2. CASE r = RunOf[s]
        <3>1. runTerminal'[r] = FALSE /\ s \in SessionsOf(r)
            BY <2>1, <2>2 DEF SessionsOf
        <3> QED
            BY <3>1 DEF Closed
    <2>3. CASE r # RunOf[s]
        <3>1. runTerminal'[r] = runTerminal[r]
            BY <2>1, <2>3
        <3>2. \A x \in SessionsOf(r) : session'[x] = session[x]
            BY <2>3 DEF SessionsOf
        <3> QED
            BY <3>1, <3>2 DEF Closed, RInv
    <2> QED
        BY <2>2, <2>3
<1>3. RunConcurrency'
    <2>1. \A x \in Session \ {s} : ~Joins(x)
        BY DEF Joins
    <2>2. CASE session'[s].state = "queued"
        BY <2>1, <2>2, OneJoins DEF RInv
    <2>3. CASE session'[s].state = "blocked"
        <3>1. \A x \in Session : ~Joins(x)
            BY <2>1, <2>3 DEF Joins
        <3> QED
            BY <3>1, NoneJoins DEF RInv, RunConcurrency, WithinLimit, SessionsOf
    <2> QED
        BY <2>2, <2>3
<1> QED
    BY <1>1, <1>2, <1>3 DEF RunsKept

LEMMA AdmittedRuns ==
    ASSUME RInv, NEW r \in Run, SessionsOf(r) # {}, NEW Q \in SUBSET SessionsOf(r), NEW p,
           Admit(SessionsOf(r), Q, p), Cardinality(Q) <= ConcurrencyLimit[r],
           \A s \in SessionsOf(r) : session[s].state = "unadmitted"
    PROVE  RunsKept
<1>1. ASSUME NEW x \in Session
      PROVE  /\ x \in SessionsOf(r) =>
                    session'[x].state = IF x \in Q THEN "queued" ELSE "blocked"
             /\ x \notin SessionsOf(r) => session'[x] = session[x]
    <2>1. session'[x] = IF x \in SessionsOf(r)
                        THEN [NewSession EXCEPT !.state = IF x \in Q THEN "queued" ELSE "blocked",
                                                !.predecessor = p[x]]
                        ELSE session[x]
        BY DEF Admit
    <2> QED
        BY <2>1 DEF NewSession
<1>2. SessionsOf(r) \in SUBSET Session
    BY DEF SessionsOf
<1>3. ASSUME NEW o \in Run, o # r
      PROVE  \A x \in SessionsOf(o) : session'[x] = session[x]
    BY <1>1, <1>3 DEF SessionsOf
<1>4. ASSUME NEW o \in Run PROVE Together(o)'
    <2>1. CASE o = r
        BY <1>1, <1>2, <2>1 DEF Together
    <2>2. CASE o # r
        BY <1>3, <2>2 DEF Together, RInv
    <2> QED
        BY <2>1, <2>2
<1>5. ASSUME NEW o \in Run PROVE Closed(o)'
    <2>0. runTerminal' = runTerminal
        BY DEF Admit
    <2>1. CASE o = r
        <3>1. PICK x \in SessionsOf(r) : TRUE
            OBVIOUS
        <3>2. ~runTerminal[r]
            BY <3>1 DEF RInv, Closed
        <3>3. session'[x].state \notin Terminal
            BY <1>1, <1>2
        <3> QED
            BY <2>0, <2>1, <3>2, <3>3 DEF Closed
    <2>2. CASE o # r
        BY <1>3, <2>0, <2>2 DEF Closed, RInv
    <2> QED
        BY <2>1, <2>2
<1>6. ASSUME NEW o \in Run PROVE WithinLimit(o)'
    <2>1. CASE o = r
        <3>1. InState(r, Materialized)' = Q
            BY <1>1, <1>2 DEF InState
        <3> QED
            BY <2>1, <3>1 DEF WithinLimit
    <2>2. CASE o # r
        <3>1. \A x \in SessionsOf(o) : ~Joins(x)
            BY <1>3, <2>2 DEF Joins
        <3> QED
            BY <3>1, NoneJoins DEF RInv
    <2> QED
        BY <2>1, <2>2
<1> QED
    BY <1>4, <1>5, <1>6 DEF RunsKept, RunConcurrency, WithinLimit

LEMMA WorkerRequestRuns ==
    ASSUME RInv, TypeOK', NEW s \in Session, NEW n \in AttemptNo, WorkerRequest(s, n)
    PROVE  RunsKept
<1>0. session \in [Session -> SessionRow] /\ Agree(s) /\ TypeOK
    BY DEF RInv, LInv, Agreement, TypeOK
<1>1. CASE StartAttempt(s, n) \/ RuntimeStarted(s, n)
    <2>1. ASSUME NEW x \in Session PROVE Kept(x) /\ ~Joins(x)
        <3>1. session'[x].state = session[x].state \/ (session[x].state = "preparing" /\
                                                       session'[x].state = "running")
            BY <1>0, <1>1 DEF StartAttempt, RuntimeStarted, SessionRow
        <3> QED
            BY <3>1 DEF Kept, Known, Joins
    <2>2. RunConcurrency'
        BY <2>1, NoneJoins DEF RInv, RunConcurrency, WithinLimit, SessionsOf
    <2> QED
        BY <1>1, <2>1, <2>2, QuietRuns DEF StartAttempt, RuntimeStarted
<1>2. CASE \/ Heartbeat(s, n)
           \/ \E i \in StageNo : StartStage(s, n, i)
           \/ \E i \in StageNo, result \in Result : CompleteStage(s, n, i, result)
           \/ \E outcome \in Outcome : ReportOutcome(s, n, outcome)
    <2>1. session' = session /\ runTerminal' = runTerminal
        BY <1>2 DEF Heartbeat, StartStage, CompleteStage, ReportOutcome
    <2>2. \A x \in Session : Kept(x) /\ ~Joins(x)
        BY <2>1 DEF Kept, Known, Joins
    <2>3. RunConcurrency'
        BY <2>2, NoneJoins DEF RInv, RunConcurrency, WithinLimit, SessionsOf
    <2> QED
        BY <2>1, <2>2, <2>3, QuietRuns
<1>3. ASSUME NEW result \in Result, CompleteAttempt(s, n, result) PROVE RunsKept
    <2>1. Ends(s) \/ Stays(s)
        <3>1. session[s].state \in Active
            BY <1>0, <1>3, OneRuns DEF CompleteAttempt, LeaseHeld
        <3>2. session'[s].state \notin Active
            <4>1. session'[s].state = WorkResult(s, n, result)
                <5>1. session[s].state \in Settles(s, n, result)
                    BY <1>0, <1>3, OneRuns DEF CompleteAttempt, LeaseHeld, Settles
                <5>2. session' = [session EXCEPT ![s] =
                          Checkpoint(Settled(session[s], WorkResult(s, n, result)), n,
                                     OutcomeOf(s, n))]
                    BY <1>3, <5>1 DEF CompleteAttempt
                <5> HIDE DEF WorkResult
                <5> QED
                    BY <1>0, <5>2 DEF Checkpoint, Settled, SessionRow
            <4>2. WorkResult(s, n, result) \in Result \cup Outcome
                BY <1>0, OutcomeKnown DEF WorkResult, FinalResult
            <4> QED
                BY <4>1, <4>2 DEF Outcome
        <3>3. RowMoves(s)
            BY <1>3, CompleteMoves DEF Moves, RInv
        <3> QED
            BY <3>1, <3>2, <3>3 DEF RowMoves, Enters, Waits, Starts, Consumes, Requested,
                                    Withdrawn, Retried, Answered
    <2>2. \A x \in Session \ {s} : session'[x] = session[x]
        BY <1>0, <1>3 DEF CompleteAttempt
    <2>3. session[s].state # "unadmitted"
        BY <1>0, <1>3, OneRuns DEF CompleteAttempt, LeaseHeld
    <2>4. \A x \in Session : Known(x) /\ ~Joins(x)
        BY <2>1, <2>2 DEF Known, Joins, Ends, Stays
    <2>5. UpdateRunLifecycle({s})
        BY <1>3 DEF CompleteAttempt
    <2>6. s \in SessionsOf(RunOf[s]) /\ {s} \in SUBSET Session
        BY DEF SessionsOf
    <2> QED
        BY <2>2, <2>3, <2>4, <2>5, <2>6, SettledRuns
<1> QED
    BY <1>1, <1>2, <1>3 DEF WorkerRequest

LEMMA ClaimRuns ==
    ASSUME RInv, NEW w \in Worker, Claim(w)
    PROVE  RunsKept
<1>1. PICK m \in FirstOf(Fairest(Materializable(w))), q \in FirstOf(Reroutable(w)) :
      \E c \in FirstOf(Fairest(Claimable(w, {m, q}))) : ClaimRows(w, m, q, c)
    BY DEF Claim
<1> PICK c \in FirstOf(Fairest(Claimable(w, {m, q}))) : ClaimRows(w, m, q, c)
    BY <1>1
<1>0. NoSession \notin Session
    BY SessionAssumption
<1>2. m \in Session => session[m].state = "blocked" /\ SlotFree(RunOf[m])
    BY <1>0 DEF FirstOf, Fairest, Materializable
<1>3. ASSUME NEW x \in Session
      PROVE  Kept(x) /\ (x # m => ~Joins(x))
    <2>1. session[x] \in SessionRow
        BY DEF RInv, LInv, Agreement, TypeOK
    <2>2. CASE x = c /\ (x = m \/ session[x].state = "queued")
        <3>1. session'[x] = [session[x] EXCEPT !.state = "preparing", !.owner = "worker_attempt"]
            BY <2>2 DEF ClaimRows
        <3>2. session'[x].state = "preparing" /\ session[x].state \in {"blocked", "queued"}
            BY <1>2, <2>1, <2>2, <3>1 DEF SessionRow
        <3> QED
            BY <2>2, <3>2 DEF Kept, Known, Joins
    <2>3. CASE ~(x = c /\ (x = m \/ session[x].state = "queued")) /\ x = m
        <3>1. session'[x] = Settled(session[x], "queued")
            BY <2>3 DEF ClaimRows
        <3>2. session'[x].state = "queued"
            BY <2>1, <3>1 DEF Settled, SessionRow
        <3> QED
            BY <1>2, <2>3, <3>2 DEF Kept, Known
    <2>4. CASE ~(x = c /\ (x = m \/ session[x].state = "queued")) /\ x # m
        <3>1. session'[x] = session[x]
            BY <2>4 DEF ClaimRows
        <3> QED
            BY <3>1 DEF Kept, Known, Joins
    <2> QED
        BY <2>2, <2>3, <2>4
<1>4. RunConcurrency'
    <2>1. CASE m \in Session
        BY <1>2, <1>3, <2>1, OneJoins DEF RInv
    <2>2. CASE m \notin Session
        BY <1>3, <2>2, NoneJoins DEF RInv, RunConcurrency, WithinLimit, SessionsOf
    <2> QED
        BY <2>1, <2>2
<1>5. runTerminal' = runTerminal
    BY DEF Claim
<1> QED
    BY <1>3, <1>4, <1>5, QuietRuns

LEMMA SweepRuns ==
    ASSUME RInv, TypeOK', SweepExpired
    PROVE  RunsKept
<1> DEFINE Lapsed == {x \in Session : \E n \in AttemptNo : Expired(x, n)}
<1>1. ASSUME NEW x \in Lapsed PROVE session[x].state \in Active
    BY OneRuns DEF Expired, RInv, LInv, Agreement
<1>2. ASSUME NEW x \in Session
      PROVE  /\ x \in Lapsed => session'[x].state = "failed"
             /\ x \notin Lapsed => session'[x] = session[x]
    <2>1. session[x] \in SessionRow
        BY DEF RInv, LInv, Agreement, TypeOK
    <2>2. CASE x \in Lapsed
        BY <1>1, <2>1, <2>2 DEF SweepExpired, Settled, Checkpoint, SessionRow
    <2>3. CASE x \notin Lapsed
        BY <2>3 DEF SweepExpired
    <2> QED
        BY <2>2, <2>3
<1>3. \A x \in Session : Known(x) /\ ~Joins(x)
    BY <1>1, <1>2 DEF Known, Joins
<1>4. UpdateRunLifecycle(Lapsed)
    BY DEF SweepExpired
<1>5. \A x \in Lapsed : x \in SessionsOf(RunOf[x]) /\ session[x].state # "unadmitted"
    BY <1>1 DEF SessionsOf
<1>6. Lapsed \in SUBSET Session
    OBVIOUS
<1> HIDE DEF Lapsed
<1> QED
    BY <1>2, <1>3, <1>4, <1>5, <1>6, SettledRuns

LEMMA CancelRuns ==
    ASSUME RInv, TypeOK', NEW S \in SUBSET Session, Cancel(S),
           \A x \in S : \E y \in SessionsOf(RunOf[x]) : session[y].state # "unadmitted"
    PROVE  RunsKept
<1>1. ASSUME NEW x \in Session
      PROVE  Known(x) /\ ~Joins(x) /\ (x \notin S => session'[x].state = session[x].state)
    <2>1. session[x] \in SessionRow
        BY DEF RInv, LInv, Agreement, TypeOK
    <2>2. session'[x] = IF x \in S THEN CancelledSession(session[x]) ELSE session[x]
        BY DEF Cancel
    <2>3. session'[x].state \in {session[x].state, "cancelled"} /\
          (session'[x].state # session[x].state => x \in S /\ session[x].state \in Nonterminal)
        BY <2>1, <2>2 DEF CancelledSession, Settled, SessionRow
    <2> QED
        BY <2>3 DEF Known, Joins
<1>2. UpdateRunLifecycle(S)
    BY DEF Cancel
<1> QED
    BY <1>1, <1>2, SettledRuns

LEMMA OperatorRuns ==
    ASSUME RInv, TypeOK', OperatorRequest
    PROVE  RunsKept
<1>0. session \in [Session -> SessionRow] /\ RunOf \in [Session -> Run]
    BY SessionAssumption DEF RInv, LInv, Agreement, TypeOK
<1>1. ASSUME NEW r \in Run, AdmitRun(r) PROVE RunsKept
    <2>1. PICK Q \in SUBSET SessionsOf(r) :
              /\ Cardinality(Q) <= ConcurrencyLimit[r]
              /\ Admit(SessionsOf(r), Q, [s \in SessionsOf(r) |->
                     IF Leaves(s) = {} THEN NoSession ELSE CHOOSE t \in Leaves(s) : TRUE])
        BY <1>1 DEF AdmitRun
    <2>2. SessionsOf(r) # {} /\ \A s \in SessionsOf(r) : session[s].state = "unadmitted"
        BY <1>1 DEF AdmitRun
    <2> QED
        BY <2>1, <2>2, AdmittedRuns
<1>2. ASSUME NEW p \in Session, NEW s \in Session, ReplaceWork(p, s) PROVE RunsKept
    <2> DEFINE Q == IF \E w \in Worker : Routable(s, w) THEN {s} ELSE {}
    <2>1. /\ SessionsOf(RunOf[s]) = {s} /\ session[s].state = "unadmitted"
          /\ Admit(SessionsOf(RunOf[s]), Q, [t \in {s} |-> p])
        BY <1>2 DEF ReplaceWork
    <2>2. Q \in SUBSET SessionsOf(RunOf[s]) /\ RunOf[s] \in Run
        BY <1>0, <2>1
    <2>3. Cardinality(Q) \in {0, 1}
        BY FS_EmptySet, FS_Singleton
    <2>4. Cardinality(Q) <= ConcurrencyLimit[RunOf[s]]
        BY <2>2, <2>3, BoundAssumption
    <2> HIDE DEF Q
    <2>5. /\ SessionsOf(RunOf[s]) # {}
          /\ \A x \in SessionsOf(RunOf[s]) : session[x].state = "unadmitted"
        BY <2>1
    <2> QED
        BY <2>1, <2>2, <2>4, <2>5, AdmittedRuns
<1>3. ASSUME NEW r \in Run, CancelRun(r) PROVE RunsKept
    <2>1. Cancel(SessionsOf(r)) /\ SessionsOf(r) \in SUBSET Session
        BY <1>3 DEF CancelRun, SessionsOf
    <2>2. \A x \in SessionsOf(r) : \E y \in SessionsOf(RunOf[x]) : session[y].state # "unadmitted"
        BY <1>3 DEF CancelRun, SessionsOf
    <2> QED
        BY <2>1, <2>2, CancelRuns
<1>4. ASSUME NEW s \in Session, CancelSession(s) PROVE RunsKept
    <2>1. Cancel({s}) /\ {s} \in SUBSET Session
        BY <1>4 DEF CancelSession
    <2>2. s \in SessionsOf(RunOf[s]) /\ session[s].state # "unadmitted"
        BY <1>4 DEF CancelSession, SessionsOf
    <2> QED
        BY <2>1, <2>2, CancelRuns
<1>5. ASSUME NEW s \in Session, RetrySession(s) PROVE RunsKept
    <2>1. /\ session' = [session EXCEPT ![s] =
                 [Settled(session[s], "queued") EXCEPT !.cancel = FALSE, !.started = FALSE,
                                                       !.mayRepeat = MayRepeat(session[s])]]
          /\ runTerminal' = [runTerminal EXCEPT ![RunOf[s]] = FALSE]
          /\ session[s].state # "unadmitted" /\ SlotFree(RunOf[s])
        BY <1>5 DEF RetrySession, Retryable
    <2>2. session'[s].state = "queued" /\ \A x \in Session \ {s} : session'[x] = session[x]
        BY <1>0, <2>1 DEF Settled, SessionRow
    <2> QED
        BY <2>1, <2>2, ReopenedRuns
<1>6. ASSUME NEW s \in Session, NEW n \in AttemptNo, AnswerWork(s, n) PROVE RunsKept
    <2>1. PICK state \in {"queued", "blocked"} :
              /\ session' = [session EXCEPT ![s] =
                     [Settled(session[s], state) EXCEPT !.cancel = FALSE]]
              /\ state = "queued" => SlotFree(RunOf[s])
        BY <1>6 DEF AnswerWork
    <2>2. /\ runTerminal' = [runTerminal EXCEPT ![RunOf[s]] = FALSE]
          /\ session[s].state # "unadmitted"
        BY <1>6 DEF AnswerWork
    <2>3. session'[s].state = state /\ \A x \in Session \ {s} : session'[x] = session[x]
        BY <1>0, <2>1 DEF Settled, SessionRow
    <2> QED
        BY <2>1, <2>2, <2>3, ReopenedRuns
<1>7. ASSUME NEW p \in Repository, EnableRepository(p) \/ DisableRepository(p) PROVE RunsKept
    <2>1. ASSUME NEW x \in Session PROVE Kept(x) /\ ~Joins(x)
        <3>1. \/ session'[x] = session[x]
              \/ session[x].state = "queued" /\ session'[x] = Settled(session[x], "blocked")
            BY <1>7 DEF EnableRepository, DisableRepository
        <3>2. \/ session'[x].state = session[x].state
              \/ session[x].state = "queued" /\ session'[x].state = "blocked"
            BY <1>0, <3>1 DEF Settled, SessionRow
        <3> QED
            BY <3>2 DEF Kept, Known, Joins
    <2>2. RunConcurrency'
        BY <2>1, NoneJoins DEF RInv, RunConcurrency, WithinLimit, SessionsOf
    <2>3. runTerminal' = runTerminal
        BY <1>7 DEF EnableRepository, DisableRepository
    <2> QED
        BY <2>1, <2>2, <2>3, QuietRuns
<1> QED
    BY <1>1, <1>2, <1>3, <1>4, <1>5, <1>6, <1>7 DEF OperatorRequest

LEMMA InitRInv == Init => RInv
<1> SUFFICES ASSUME Init PROVE RInv
    OBVIOUS
<1>1. \A x \in Session : session[x].state = "unadmitted"
    BY DEF Init, NewSession
<1>2. ASSUME NEW r \in Run PROVE Together(r) /\ Closed(r) /\ WithinLimit(r)
    <2>1. InState(r, Materialized) = {}
        BY <1>1 DEF InState, SessionsOf
    <2>2. WithinLimit(r)
        BY <2>1, FS_EmptySet, BoundAssumption DEF WithinLimit
    <2>3. Together(r)
        BY <1>1 DEF Together, SessionsOf
    <2>4. Closed(r)
        BY <1>1 DEF Init, Closed, SessionsOf
    <2> QED
        BY <2>2, <2>3, <2>4
<1> QED
    BY <1>2, InitLInv DEF RInv, RunConcurrency, WithinLimit

LEMMA NextRInv == RInv /\ [Next]_vars => RInv'
<1> SUFFICES ASSUME RInv, [Next]_vars PROVE RInv'
    OBVIOUS
<1>1. LInv' /\ TypeOK'
    BY NextImplements DEF RInv, LInv, Agreement
<1>2. RunsKept
    <2>1. CASE OperatorRequest
        BY <1>1, <2>1, OperatorRuns
    <2>2. ASSUME NEW w \in Worker, Claim(w) PROVE RunsKept
        BY <2>2, ClaimRuns
    <2>3. ASSUME NEW s \in Session, NEW n \in AttemptNo, WorkerRequest(s, n) PROVE RunsKept
        BY <1>1, <2>3, WorkerRequestRuns
    <2>4. CASE SweepExpired
        BY <1>1, <2>4, SweepRuns
    <2>5. CASE \/ Tick \/ UNCHANGED vars
               \/ \E w \in Worker : ChangeRoutes(w)
        <3>1. session' = session /\ runTerminal' = runTerminal
            BY <2>5 DEF Tick, ChangeRoutes, vars
        <3>2. \A x \in Session : Kept(x) /\ ~Joins(x)
            BY <3>1 DEF Kept, Known, Joins
        <3>3. RunConcurrency'
            BY <3>2, NoneJoins DEF RInv, RunConcurrency, WithinLimit, SessionsOf
        <3> QED
            BY <3>1, <3>2, <3>3, QuietRuns
    <2> QED
        BY <2>1, <2>2, <2>3, <2>4, <2>5 DEF Next
<1> QED
    BY <1>1, <1>2 DEF RInv, RunsKept

(* Admissions, claims, retries and answers share one limit: each takes a   *)
(* slot only when it finds one free, and a claim takes one.                *)
THEOREM RunConcurrencyCorrect == Spec => []RunConcurrency
<1>1. RInv => RunConcurrency
    BY DEF RInv
<1> QED
    BY <1>1, InitRInv, NextRInv, PTL DEF Spec

(* The cached end of a run is the end of all its sessions, though only the *)
(* rows of some are written when it is set.                                *)
THEOREM RunTerminalAgreesCorrect == Spec => []RunTerminalAgrees
<1>1. RInv => RunTerminalAgrees
    BY DEF RInv, Closed, RunTerminalAgrees
<1> QED
    BY <1>1, InitRInv, NextRInv, PTL DEF Spec
-----------------------------------------------------------------------------
(* What a session hands to its next attempt.  Besides the order of the     *)
(* stages this needs to know what an attempt row says of the question its  *)
(* agent asked: it is written by the attempt while it runs, read when the  *)
(* attempt has ended, and answered once.                                   *)

(* What a step does to the columns of attempt n that the next one reads.   *)
Unnoted(x, n) ==
    /\ attempt'[x][n].answered = attempt[x][n].answered
    /\ attempt'[x][n].state \in Active =>
           attempt[x][n].state \in Active /\ attempt'[x][n].from = attempt[x][n].from

Notes(x, n) ==
    \/ Unnoted(x, n)
    \/ /\ attempt[x][n].state = "none" /\ attempt'[x][n].state = "preparing"
       /\ ~attempt'[x][n].answered
       /\ attempt'[x][n].from = session[x].pending
    \/ /\ session[x].state = "needs-input" /\ session'[x].state \in {"blocked", "queued"}
       /\ attempt'[x][n].state = attempt[x][n].state

Noted == \A x \in Session, n \in AttemptNo : Notes(x, n)

(* Work that comes to ask for input.                                       *)
Asks(x) ==
    session'[x].state = "needs-input" =>
        \/ session[x].state = "needs-input"
        \/ \E n \in ActiveAt(x) :
               /\ attempt'[x][n].state \in AttemptTerminal
               /\ attempt[x][n].outcome = "needs-input"
               /\ session'[x].pending = n

LEMMA QuietNoted == attempt' = attempt => Noted
BY DEF Noted, Notes, Unnoted

(* A step that writes one row.                                             *)
LEMMA NotedAt ==
    ASSUME TypeOK, NEW s \in Session, NEW n \in AttemptNo, NEW row,
           attempt' = [attempt EXCEPT ![s][n] = row],
           row.answered = attempt[s][n].answered,
           row.state \in Active =>
               attempt[s][n].state \in Active /\ row.from = attempt[s][n].from
    PROVE  Noted
<1> SUFFICES ASSUME NEW x \in Session, NEW i \in AttemptNo PROVE Unnoted(x, i)
    BY DEF Noted, Notes
<1>1. attempt'[x][i] = IF x = s /\ i = n THEN row ELSE attempt[x][i]
    BY DEF TypeOK
<1> QED
    BY <1>1 DEF Unnoted

LEMMA ClaimNoted ==
    ASSUME LInv, NEW w \in Worker, Claim(w)
    PROVE  Noted
<1>1. PICK m \in FirstOf(Fairest(Materializable(w))), q \in FirstOf(Reroutable(w)) :
      \E c \in FirstOf(Fairest(Claimable(w, {m, q}))) : ClaimRows(w, m, q, c)
    BY DEF Claim
<1> PICK c \in FirstOf(Fairest(Claimable(w, {m, q}))) : ClaimRows(w, m, q, c)
    BY <1>1
<1>2. CASE c = NoSession
    BY <1>2, QuietNoted DEF ClaimRows
<1>3. CASE c # NoSession
    <2>1. c \in Session
        BY <1>3 DEF FirstOf, Fairest, Claimable
    <2>2. PICK n \in AttemptNo :
              /\ attempt[c][n].state = "none"
              /\ attempt' = [attempt EXCEPT ![c][n] = ClaimedAttempt(c, w)]
        BY <1>3 DEF ClaimRows, InsertAttempt
    <2> SUFFICES ASSUME NEW x \in Session, NEW i \in AttemptNo PROVE Notes(x, i)
        BY DEF Noted
    <2>3. attempt'[x][i] = IF x = c /\ i = n THEN ClaimedAttempt(c, w) ELSE attempt[x][i]
        BY <2>1, <2>2 DEF LInv, Agreement, TypeOK
    <2>4. /\ ClaimedAttempt(c, w).state = "preparing" /\ ~ClaimedAttempt(c, w).answered
          /\ ClaimedAttempt(c, w).from = session[c].pending
        BY DEF ClaimedAttempt, NoAttempt
    <2> QED
        BY <2>2, <2>3, <2>4 DEF Notes, Unnoted
<1> QED
    BY <1>2, <1>3

LEMMA WorkerRequestNoted ==
    ASSUME LInv, NEW s \in Session, NEW n \in AttemptNo, WorkerRequest(s, n)
    PROVE  Noted
<1>0. TypeOK /\ attempt[s][n] \in AttemptRow
    BY DEF LInv, Agreement, TypeOK
<1>1. CASE StartAttempt(s, n)
    <2>1. attempt' = [attempt EXCEPT ![s][n].state = "running", ![s][n].started = TRUE]
        BY <1>1 DEF StartAttempt
    <2> SUFFICES ASSUME NEW x \in Session, NEW i \in AttemptNo PROVE Unnoted(x, i)
        BY DEF Noted, Notes
    <2>2. CASE x = s /\ i = n
        BY <1>0, <1>1, <2>1, <2>2 DEF StartAttempt, Unnoted, AttemptRow, TypeOK
    <2>3. CASE ~(x = s /\ i = n)
        <3>1. attempt'[x][i] = attempt[x][i]
            BY <1>0, <2>1, <2>3 DEF TypeOK
        <3> QED
            BY <3>1 DEF Unnoted
    <2> QED
        BY <2>2, <2>3
<1>2. CASE Heartbeat(s, n)
    <2>1. PICK answered \in BOOLEAN : attempt' =
              [attempt EXCEPT ![s][n] = Renewed(attempt[s][n], execution[s].cancel, answered)]
        BY <1>2 DEF Heartbeat
    <2> DEFINE row == Renewed(attempt[s][n], execution[s].cancel, answered)
    <2>2. /\ row.answered = attempt[s][n].answered
          /\ row.state = attempt[s][n].state /\ row.from = attempt[s][n].from
        BY <1>0 DEF Renewed, AttemptRow
    <2> QED
        BY <1>0, <2>1, <2>2, NotedAt
<1>3. CASE \E outcome \in Outcome : ReportOutcome(s, n, outcome)
    <2>1. PICK outcome \in Outcome :
              attempt' = [attempt EXCEPT ![s][n].outcome = outcome]
        BY <1>3 DEF ReportOutcome
    <2> DEFINE row == [attempt[s][n] EXCEPT !.outcome = outcome]
    <2>2. attempt' = [attempt EXCEPT ![s][n] = row]
        BY <1>0, <2>1 DEF TypeOK
    <2>3. row.answered = attempt[s][n].answered /\ row.state = attempt[s][n].state
          /\ row.from = attempt[s][n].from
        BY <1>0 DEF AttemptRow
    <2> QED
        BY <1>0, <2>2, <2>3, NotedAt
<1>4. ASSUME NEW result \in Result, CompleteAttempt(s, n, result) PROVE Noted
    <2> DEFINE row == Ended(attempt[s][n], FinalResult(s, n, result))
    <2>1. FinalResult(s, n, result) \in Result
        BY DEF FinalResult
    <2>2. attempt' = [attempt EXCEPT ![s][n] = row]
        BY <1>4 DEF CompleteAttempt
    <2>3. row.answered = attempt[s][n].answered /\ row.state \notin Active
        BY <1>0, <2>1 DEF Ended, AttemptRow
    <2> QED
        BY <1>0, <2>2, <2>3, NotedAt
<1>5. CASE \/ RuntimeStarted(s, n) \/ \E i \in StageNo : StartStage(s, n, i)
           \/ \E i \in StageNo, result \in Result : CompleteStage(s, n, i, result)
    BY <1>5, QuietNoted DEF RuntimeStarted, StartStage, CompleteStage
<1> QED
    BY <1>1, <1>2, <1>3, <1>4, <1>5 DEF WorkerRequest

LEMMA NextNoted ==
    ASSUME LInv, [Next]_vars
    PROVE  Noted
<1>0. TypeOK
    BY DEF LInv, Agreement
<1>1. CASE OperatorRequest
    <2>1. ASSUME NEW s \in Session, NEW n \in AttemptNo, AnswerWork(s, n) PROVE Noted
        <3> SUFFICES ASSUME NEW x \in Session, NEW i \in AttemptNo PROVE Notes(x, i)
            BY DEF Noted
        <3>1. attempt' = [attempt EXCEPT ![s][n].answered = TRUE]
            BY <2>1 DEF AnswerWork
        <3>2. CASE x = s /\ i = n
            <4>1. attempt'[x][i].state = attempt[x][i].state
                BY <1>0, <3>1, <3>2 DEF TypeOK, AttemptRow
            <4>2. PICK state \in {"queued", "blocked"} : session' = [session EXCEPT ![s] =
                      [Settled(session[s], state) EXCEPT !.cancel = FALSE]]
                BY <2>1 DEF AnswerWork
            <4>3. session'[x].state = state
                BY <1>0, <3>2, <4>2 DEF TypeOK, SessionRow, Settled
            <4> QED
                BY <2>1, <3>2, <4>1, <4>3 DEF Notes, AnswerWork
        <3>3. CASE ~(x = s /\ i = n)
            <4>1. attempt'[x][i] = attempt[x][i]
                BY <1>0, <3>1, <3>3 DEF TypeOK
            <4> QED
                BY <4>1 DEF Notes, Unnoted
        <3> QED
            BY <3>2, <3>3
    <2>2. ASSUME NEW r \in Run, AdmitRun(r) \/ CancelRun(r) PROVE Noted
        BY <2>2, QuietNoted DEF AdmitRun, Admit, CancelRun, Cancel
    <2>3. ASSUME NEW p \in Session, NEW s \in Session, ReplaceWork(p, s) PROVE Noted
        BY <2>3, QuietNoted DEF ReplaceWork, Admit
    <2>4. ASSUME NEW s \in Session, CancelSession(s) \/ RetrySession(s) PROVE Noted
        BY <2>4, QuietNoted DEF CancelSession, Cancel, RetrySession
    <2>5. ASSUME NEW p \in Repository, EnableRepository(p) \/ DisableRepository(p) PROVE Noted
        BY <2>5, QuietNoted DEF EnableRepository, DisableRepository
    <2> QED
        BY <1>1, <2>1, <2>2, <2>3, <2>4, <2>5 DEF OperatorRequest
<1>2. ASSUME NEW w \in Worker, Claim(w) \/ ChangeRoutes(w) PROVE Noted
    BY <1>2, ClaimNoted, QuietNoted DEF ChangeRoutes
<1>3. ASSUME NEW s \in Session, NEW n \in AttemptNo, WorkerRequest(s, n) PROVE Noted
    BY <1>3, WorkerRequestNoted
<1>4. CASE Tick
    <2> SUFFICES ASSUME NEW x \in Session, NEW i \in AttemptNo PROVE Unnoted(x, i)
        BY DEF Noted, Notes
    <2>1. attempt'[x][i] = IF LeaseHeld(x, i) THEN Aged(attempt[x][i]) ELSE attempt[x][i]
        BY <1>4 DEF Tick
    <2>2. attempt[x][i] \in AttemptRow
        BY <1>0 DEF TypeOK
    <2> QED
        BY <2>1, <2>2 DEF Aged, Unnoted, AttemptRow
<1>5. CASE SweepExpired
    <2> SUFFICES ASSUME NEW x \in Session, NEW i \in AttemptNo PROVE Unnoted(x, i)
        BY DEF Noted, Notes
    <2>1. attempt'[x][i] = IF Expired(x, i) THEN Ended(attempt[x][i], "lost") ELSE attempt[x][i]
        BY <1>5 DEF SweepExpired
    <2>2. attempt[x][i] \in AttemptRow
        BY <1>0 DEF TypeOK
    <2> QED
        BY <2>1, <2>2 DEF Ended, Unnoted, AttemptRow
<1>6. CASE UNCHANGED vars
    BY <1>6, QuietNoted DEF vars
<1> QED
    BY <1>1, <1>2, <1>3, <1>4, <1>5, <1>6 DEF Next

(* Only a completion with the outcome needs-input makes Work ask.          *)
LEMMA CompleteAsks ==
    ASSUME LInv, NEW s \in Session, NEW n \in AttemptNo, NEW result \in Result,
           CompleteAttempt(s, n, result)
    PROVE  \A x \in Session : Asks(x)
<1> DEFINE final == FinalResult(s, n, result)
           after == WorkResult(s, n, result)
<1>0. /\ attempt[s][n] \in AttemptRow /\ session[s] \in SessionRow
      /\ session \in [Session -> SessionRow]
      /\ attempt \in [Session -> [AttemptNo -> AttemptRow]]
      /\ TypeOK /\ Agree(s)
    BY DEF LInv, Agreement, TypeOK
<1>1. n \in ActiveAt(s) /\ session[s].state = attempt[s][n].state
    BY <1>0, OneRuns DEF CompleteAttempt, LeaseHeld, ActiveAt
<1>2. final \in Result
    BY DEF FinalResult
<1>3. session[s].state \in Settles(s, n, result)
    BY <1>1 DEF CompleteAttempt, Settles, LeaseHeld
<1>4. /\ attempt' = [attempt EXCEPT ![s][n] = Ended(attempt[s][n], final)]
      /\ session' = [session EXCEPT ![s] =
             Checkpoint(Settled(session[s], after), n, OutcomeOf(s, n))]
    BY <1>3 DEF CompleteAttempt
<1>5. after = "needs-input" => OutcomeOf(s, n) = "needs-input" /\ attempt[s][n].outcome = "needs-input"
    BY <1>2 DEF WorkResult, OutcomeOf
<1> HIDE DEF final, after
<1>6. /\ session'[s].state = after
      /\ OutcomeOf(s, n) = "needs-input" => session'[s].pending = n
    BY <1>0, <1>4 DEF Checkpoint, Settled, SessionRow
<1>7. attempt'[s][n].state = final
    BY <1>0, <1>4 DEF Ended, AttemptRow
<1>8. \A x \in Session \ {s} : session'[x] = session[x]
    BY <1>0, <1>4
<1> QED
    BY <1>1, <1>2, <1>5, <1>6, <1>7, <1>8 DEF Asks

LEMMA NextAsks ==
    ASSUME LInv, [Next]_vars, NEW x \in Session
    PROVE  Asks(x)
<1>0. /\ session \in [Session -> SessionRow] /\ session[x] \in SessionRow
      /\ attempt \in [Session -> [AttemptNo -> AttemptRow]]
      /\ Agree(x)
    BY DEF LInv, Agreement, TypeOK
<1>1. CASE \E s \in Session, n \in AttemptNo : WorkerRequest(s, n)
    <2> PICK s \in Session, n \in AttemptNo : WorkerRequest(s, n)
        BY <1>1
    <2>1. CASE \E result \in Result : CompleteAttempt(s, n, result)
        BY <2>1, CompleteAsks
    <2>2. CASE StartAttempt(s, n)
        <3>1. \/ session' = session
              \/ session' = [session EXCEPT ![s].state = "running", ![s].started = TRUE,
                                            ![s].owner = "worker_attempt"]
            BY <2>2 DEF StartAttempt
        <3> QED
            BY <1>0, <3>1 DEF Asks, SessionRow
    <2>3. CASE RuntimeStarted(s, n)
        <3>1. session' = [session EXCEPT ![s].pending = 0]
            BY <2>3 DEF RuntimeStarted
        <3> QED
            BY <1>0, <3>1 DEF Asks, SessionRow
    <2>4. CASE \/ Heartbeat(s, n) \/ \E i \in StageNo : StartStage(s, n, i)
               \/ \E i \in StageNo, result \in Result : CompleteStage(s, n, i, result)
               \/ \E outcome \in Outcome : ReportOutcome(s, n, outcome)
        BY <2>4 DEF Heartbeat, StartStage, CompleteStage, ReportOutcome, Asks
    <2> QED
        BY <2>1, <2>2, <2>3, <2>4 DEF WorkerRequest
<1>2. CASE SweepExpired
    <2>1. session'[x].state \in {session[x].state, "failed"}
        BY <1>0, <1>2 DEF SweepExpired, Checkpoint, Settled, SessionRow
    <2> QED
        BY <2>1 DEF Asks
<1>3. CASE OperatorRequest
    <2>1. ASSUME NEW S \in SUBSET Session, Cancel(S) PROVE Asks(x)
        BY <1>0, <2>1 DEF Cancel, CancelledSession, Settled, SessionRow, Asks
    <2>2. ASSUME NEW S, NEW Q, NEW p, Admit(S, Q, p) PROVE Asks(x)
        BY <1>0, <2>2 DEF Admit, NewSession, Asks
    <2>3. ASSUME NEW s \in Session, RetrySession(s) PROVE Asks(x)
        BY <1>0, <2>3 DEF RetrySession, Settled, SessionRow, Asks
    <2>4. ASSUME NEW s \in Session, NEW n \in AttemptNo, AnswerWork(s, n) PROVE Asks(x)
        <3>1. PICK state \in {"queued", "blocked"} : session' = [session EXCEPT ![s] =
                  [Settled(session[s], state) EXCEPT !.cancel = FALSE]]
            BY <2>4 DEF AnswerWork
        <3> QED
            BY <1>0, <3>1 DEF Settled, SessionRow, Asks
    <2>5. ASSUME NEW p \in Repository, EnableRepository(p) \/ DisableRepository(p) PROVE Asks(x)
        <3>1. CASE EnableRepository(p)
            BY <3>1 DEF EnableRepository, Asks
        <3>2. CASE DisableRepository(p)
            <4>1. session'[x] = IF RepoOf[x] = p /\ session[x].state = "queued"
                                THEN Settled(session[x], "blocked") ELSE session[x]
                BY <3>2 DEF DisableRepository
            <4> QED
                BY <1>0, <4>1 DEF Settled, SessionRow, Asks
        <3> QED
            BY <2>5, <3>1, <3>2
    <2> QED
        BY <1>3, <2>1, <2>2, <2>3, <2>4, <2>5
           DEF OperatorRequest, AdmitRun, ReplaceWork, CancelRun, CancelSession, SessionsOf
<1>4. ASSUME NEW w \in Worker, Claim(w) PROVE Asks(x)
    <2>1. PICK m, q, c : ClaimRows(w, m, q, c)
        BY <1>4 DEF Claim
    <2> QED
        BY <1>0, <2>1 DEF ClaimRows, Settled, SessionRow, Asks
<1>5. CASE Tick \/ (\E w \in Worker : ChangeRoutes(w)) \/ UNCHANGED vars
    BY <1>5 DEF Tick, ChangeRoutes, vars, Asks
<1> QED
    BY <1>1, <1>2, <1>3, <1>4, <1>5 DEF Next

-----------------------------------------------------------------------------
(* The claim of an active attempt carried the commit that is still pending, *)
(* and Work that asks is about the question of its last attempt.           *)
Questioned(x) ==
    /\ \A n \in ActiveAt(x) : ~attempt[x][n].answered /\ FromPending(x, n)
    /\ \A n \in AttemptNo : attempt[x][n].state = "none" => attempt[x][n].outcome = "none"
    /\ session[x].state = "needs-input" =>
           \E n \in AttemptNo :
               LatestQuestion(x, n) /\ session[x].pending = n /\ ~attempt[x][n].answered

LEMMA QuestionedKept ==
    ASSUME LInv, LInv', Moves, Noted, NEW x \in Session, Ordered(x), Asks(x), Questioned(x)
    PROVE  Questioned(x)'
<1>0. /\ RowMoves(x) /\ (\A n \in AttemptNo : AttemptMoves(x, n) /\ Notes(x, n))
      /\ Agree(x) /\ Agree(x)'
    BY DEF Moves, Noted, LInv, Agreement
<1>1. ASSUME NEW n \in ActiveAt(x)' PROVE ~attempt'[x][n].answered /\ FromPending(x, n)'
    <2>1. /\ n \in AttemptNo /\ attempt'[x][n].state \in Active
          /\ session'[x].state = attempt'[x][n].state
        BY <1>0 DEF ActiveAt, Agree
    <2>2. CASE attempt[x][n].state = "none"
        <3>1. /\ ~attempt'[x][n].answered /\ attempt'[x][n].from = session[x].pending
              /\ session[x].state \in {"blocked", "queued"}
            BY <1>0, <2>1, <2>2 DEF Notes, Unnoted, AttemptMoves
        <3>2. session'[x].pending = session[x].pending
            BY <1>0, <2>1, <3>1 DEF RowMoves, Rest, Stays, Enters, Waits, Starts, Consumes, Ends,
                                    Requested, Withdrawn, Retried, Answered
        <3> QED
            BY <3>1, <3>2 DEF FromPending
    <2>3. CASE attempt[x][n].state # "none"
        <3>1. attempt[x][n].state \in Active /\ n \in ActiveAt(x)
            BY <1>0, <2>1, <2>3 DEF AttemptMoves, ActiveAt
        <3>2. session[x].state \in Active
            BY <1>0, <3>1 DEF Agree
        <3>3. Unnoted(x, n)
            BY <1>0, <2>1, <3>1, <3>2 DEF Notes
        <3>4. session'[x].pending \in {0, session[x].pending}
            BY <1>0, <2>1, <3>2 DEF RowMoves, Rest, Stays, Enters, Waits, Starts, Consumes, Ends,
                                    Requested, Withdrawn, Retried, Answered
        <3> QED
            BY <2>1, <3>1, <3>3, <3>4 DEF Questioned, FromPending, Unnoted
    <2> QED
        BY <2>2, <2>3
<1>2. ASSUME NEW n \in AttemptNo, attempt'[x][n].state = "none"
      PROVE  attempt'[x][n].outcome = "none"
    BY <1>0, <1>2 DEF AttemptMoves, Fixed, Questioned
<1>3. ASSUME session'[x].state = "needs-input"
      PROVE  \E n \in AttemptNo :
                 LatestQuestion(x, n)' /\ session'[x].pending = n /\ ~attempt'[x][n].answered
    <2>1. ActiveAt(x)' = {}
        BY <1>0, <1>3 DEF Agree
    <2>2. \A i \in AttemptNo : attempt'[x][i].answered = attempt[x][i].answered
        BY <1>0, <1>3, <2>1 DEF Notes, Unnoted, ActiveAt
    <2>3. \A i \in AttemptNo : attempt'[x][i].outcome = attempt[x][i].outcome
        BY <1>0, <2>1 DEF AttemptMoves, Fixed, ActiveAt
    <2>4. Questions(x)' = Questions(x)
        BY <2>3 DEF Questions
    <2>5. CASE session[x].state = "needs-input"
        <3>1. session'[x].pending = session[x].pending
            BY <1>0, <1>3, <2>5 DEF RowMoves, Rest, Stays, Enters, Waits, Starts, Consumes, Ends,
                                    Requested, Withdrawn, Retried, Answered
        <3> QED
            BY <2>2, <2>4, <2>5, <3>1 DEF Questioned, LatestQuestion
    <2>6. CASE session[x].state # "needs-input"
        <3>1. PICK n \in ActiveAt(x) : attempt[x][n].outcome = "needs-input" /\ session'[x].pending = n
            BY <1>3, <2>6 DEF Asks
        <3>2. n \in AttemptNo /\ ~attempt[x][n].answered
            BY <3>1 DEF ActiveAt, Questioned
        <3>3. \A i \in Questions(x) : i <= n
            BY <3>1 DEF Questions, Ordered, Questioned
        <3> QED
            BY <2>2, <2>4, <3>1, <3>2, <3>3 DEF LatestQuestion, Questions
    <2> QED
        BY <2>5, <2>6
<1> QED
    BY <1>1, <1>2, <1>3 DEF Questioned

-----------------------------------------------------------------------------
(* The stages of a session, and the states they fit.                       *)
InOrder(stages) ==
    \A i, j \in StageNo :
        j < i /\ stages[i] \in {"running", "succeeded"} => stages[j] = "succeeded"

Fits(stages, state) ==
    /\ state = "unadmitted" => \A i \in StageNo : stages[i] = "pending"
    /\ state \in {"ready", "succeeded", "no-change", "needs-input"} =>
           \A i \in StageNo : stages[i] = "succeeded"
    /\ state \in Terminal => \A i \in StageNo : stages[i] \notin OpenStage
    /\ state \in {"blocked", "queued", "preparing"} =>
           stages[StageCount] = "pending" /\ \A i \in StageNo : stages[i] # "running"

Piped(x) == InOrder(stage[x]) /\ Fits(stage[x], session[x].state)

(* Work moves on with its stages as they are.                              *)
Onward(old, new) ==
    \/ new = old \/ new = "running"
    \/ /\ old \in {"unadmitted", "blocked", "queued"}
       /\ new \in {"blocked", "queued", "preparing"}

LEMMA LastStage == StageCount \in StageNo /\ \A i \in StageNo : i \in Int /\ i <= StageCount
BY BoundAssumption DEF StageNo

LEMMA PipedOn ==
    ASSUME NEW x \in Session, Piped(x), stage'[x] = stage[x],
           Onward(session[x].state, session'[x].state)
    PROVE  Piped(x)'
<1>1. Fits(stage[x], session'[x].state)
    BY LastStage DEF Piped, Fits, Onward
<1> QED
    BY <1>1 DEF Piped

LEMMA PipedStopped ==
    ASSUME NEW x \in Session, NEW stages \in [StageNo -> StageState], InOrder(stages),
           NEW result \in {"failed", "cancelled"},
           stage'[x] = StagesStopped(stages, result), session'[x].state = result
    PROVE  Piped(x)'
<1>1. \A i \in StageNo : /\ stage'[x][i] = "succeeded" <=> stages[i] = "succeeded"
                         /\ stage'[x][i] \notin OpenStage
    BY DEF StagesStopped, StageState, OpenStage
<1>2. InOrder(stage'[x])
    BY <1>1 DEF InOrder, OpenStage
<1>3. Fits(stage'[x], session'[x].state)
    BY <1>1 DEF Fits
<1> QED
    BY <1>2, <1>3 DEF Piped

LEMMA CompletePiped ==
    ASSUME LInv, NEW s \in Session, NEW n \in AttemptNo, NEW result \in Result,
           CompleteAttempt(s, n, result), NEW x \in Session, Piped(x)
    PROVE  Piped(x)'
<1> DEFINE final == FinalResult(s, n, result)
           after == WorkResult(s, n, result)
<1>0. /\ session[s] \in SessionRow /\ session \in [Session -> SessionRow]
      /\ stage \in [Session -> [StageNo -> StageState]]
      /\ TypeOK /\ Agree(s)
    BY DEF LInv, Agreement, TypeOK
<1>1. CASE x # s
    BY <1>0, <1>1, PipedOn DEF CompleteAttempt, Onward
<1>2. CASE x = s
    <2>1. session[s].state = attempt[s][n].state /\ attempt[s][n].state \in Active
        BY <1>0, OneRuns DEF CompleteAttempt, LeaseHeld
    <2>2. session[s].state \in Settles(s, n, result)
        BY <2>1 DEF CompleteAttempt, Settles
    <2>3. session' = [session EXCEPT ![s] =
              Checkpoint(Settled(session[s], after), n, OutcomeOf(s, n))]
        BY <2>2 DEF CompleteAttempt
    <2>4. session'[s].state = after
        BY <1>0, <2>3 DEF Checkpoint, Settled, SessionRow
    <2>5. stage'[s] = StagesCompleted(s, n, result)
        BY <1>0 DEF CompleteAttempt
    <2>6. CASE final = "succeeded"
        <3>1. after \in {"succeeded"} \cup Outcome
            BY <1>0, <2>6, OutcomeKnown DEF WorkResult
        <3>2. \A i \in StageNo : stage'[s][i] = "succeeded"
            BY <2>5, <2>6 DEF StagesCompleted
        <3>3. InOrder(stage'[s])
            BY <3>2 DEF InOrder
        <3>4. Fits(stage'[s], session'[s].state)
            BY <2>4, <3>1, <3>2 DEF Fits, Outcome, OpenStage
        <3> QED
            BY <1>2, <3>3, <3>4 DEF Piped
    <2>7. CASE final # "succeeded"
        <3> DEFINE base == IF MissingOutcome(s, n, result) /\ stage[s][StageCount] = "succeeded"
                           THEN [stage[s] EXCEPT ![StageCount] = "failed"] ELSE stage[s]
        <3>1. final \in {"failed", "cancelled"} /\ after = final
            BY <2>7 DEF FinalResult, WorkResult
        <3>2. stage'[s] = StagesStopped(base, final)
            BY <2>5, <2>7 DEF StagesCompleted
        <3>3. base \in [StageNo -> StageState]
            BY <1>0 DEF StageState
        <3>4. InOrder(base)
            <4>1. InOrder(stage[s])
                BY <1>2 DEF Piped
            <4>2. InOrder([stage[s] EXCEPT ![StageCount] = "failed"])
                BY <1>0, <4>1, LastStage DEF InOrder
            <4> QED
                BY <4>1, <4>2
        <3> HIDE DEF base, final, after
        <3> QED
            BY <1>2, <2>4, <3>1, <3>2, <3>3, <3>4, PipedStopped
    <2> QED
        BY <2>6, <2>7
<1> QED
    BY <1>1, <1>2

LEMMA WorkerRequestPiped ==
    ASSUME LInv, NEW s \in Session, NEW n \in AttemptNo, WorkerRequest(s, n),
           NEW x \in Session, Piped(x)
    PROVE  Piped(x)'
<1>0. /\ session[s] \in SessionRow /\ session \in [Session -> SessionRow]
      /\ stage \in [Session -> [StageNo -> StageState]]
      /\ stage[s] \in [StageNo -> StageState]
      /\ TypeOK /\ Agree(s)
    BY DEF LInv, Agreement, TypeOK
<1>1. CASE StartAttempt(s, n)
    <2>1. \/ session' = session
          \/ session' = [session EXCEPT ![s].state = "running", ![s].started = TRUE,
                                        ![s].owner = "worker_attempt"]
        BY <1>1 DEF StartAttempt
    <2>2. Onward(session[x].state, session'[x].state)
        BY <1>0, <2>1 DEF Onward, SessionRow
    <2> QED
        BY <1>1, <2>2, PipedOn DEF StartAttempt
<1>2. CASE RuntimeStarted(s, n)
    <2>1. session' = [session EXCEPT ![s].pending = 0]
        BY <1>2 DEF RuntimeStarted
    <2>2. Onward(session[x].state, session'[x].state)
        BY <1>0, <2>1 DEF Onward, SessionRow
    <2> QED
        BY <1>2, <2>2, PipedOn DEF RuntimeStarted
<1>3. CASE Heartbeat(s, n) \/ \E outcome \in Outcome : ReportOutcome(s, n, outcome)
    BY <1>3, PipedOn DEF Heartbeat, ReportOutcome, Onward
<1>4. CASE x # s /\ \/ \E i \in StageNo : StartStage(s, n, i)
                    \/ \E i \in StageNo, result \in Result : CompleteStage(s, n, i, result)
    BY <1>0, <1>4, PipedOn DEF StartStage, CompleteStage, Onward
<1>5. ASSUME x = s, \/ \E i \in StageNo : StartStage(s, n, i)
                    \/ \E i \in StageNo, result \in Result : CompleteStage(s, n, i, result)
      PROVE  Piped(x)'
    <2>1. session[s].state = "running" /\ session' = session
        BY <1>0, <1>5, OneRuns DEF StartStage, CompleteStage, PipelineRunning, LeaseHeld
    <2>2. Fits(stage'[s], session'[s].state)
        BY <2>1 DEF Fits
    <2>3. ASSUME NEW i \in StageNo, StartStage(s, n, i) PROVE InOrder(stage'[s])
        <3>1. stage'[s] = [stage[s] EXCEPT ![i] = "running"]
            BY <1>0, <2>3 DEF StartStage
        <3>2. stage[s][i] # "succeeded" /\ stage[s][i] \in OpenStage
            BY <2>3 DEF StartStage, OpenStage
        <3>3. \A j \in StageNo : j < i => stage[s][j] = "succeeded"
            BY <2>3, LastStage DEF StartStage, PredecessorsSucceeded, StageNo
        <3>4. InOrder(stage[s])
            BY <1>5 DEF Piped
        <3> SUFFICES ASSUME NEW k \in StageNo, NEW j \in StageNo, j < k,
                            stage'[s][k] \in {"running", "succeeded"}
                     PROVE  stage'[s][j] = "succeeded"
            BY DEF InOrder
        <3>5. CASE k = i
            BY <1>0, <3>1, <3>3, <3>5, LastStage
        <3>6. CASE k # i
            <4>1. stage[s][j] = "succeeded"
                BY <1>0, <3>1, <3>4, <3>6 DEF InOrder
            <4> QED
                BY <1>0, <3>1, <3>2, <4>1
        <3> QED
            BY <3>5, <3>6
    <2>4. ASSUME NEW i \in StageNo, NEW result \in Result, CompleteStage(s, n, i, result)
          PROVE  InOrder(stage'[s])
        <3>1. stage'[s] = [j \in StageNo |->
                  IF j = i THEN result
                  ELSE IF j > i /\ result # "succeeded" /\ stage[s][j] = "pending" THEN "cancelled"
                  ELSE stage[s][j]]
            BY <1>0, <2>4 DEF CompleteStage
        <3>2. InOrder(stage[s]) /\ stage[s][i] = "running"
            BY <1>5, <2>4 DEF Piped, CompleteStage
        <3> SUFFICES ASSUME NEW k \in StageNo, NEW j \in StageNo, j < k,
                            stage'[s][k] \in {"running", "succeeded"}
                     PROVE  stage'[s][j] = "succeeded"
            BY DEF InOrder
        <3>3. stage[s][j] = "succeeded"
            <4>1. stage[s][k] \in {"running", "succeeded"}
                BY <3>1, <3>2
            <4> QED
                BY <3>2, <4>1 DEF InOrder
        <3>4. j # i
            BY <3>2, <3>3
        <3> QED
            BY <3>1, <3>3, <3>4
    <2> QED
        BY <1>5, <2>2, <2>3, <2>4 DEF Piped
<1>6. CASE \E result \in Result : CompleteAttempt(s, n, result)
    BY <1>6, CompletePiped
<1> QED
    BY <1>1, <1>2, <1>3, <1>4, <1>5, <1>6 DEF WorkerRequest

LEMMA CancelPiped ==
    ASSUME LInv, NEW S \in SUBSET Session, Cancel(S), NEW x \in Session, Piped(x)
    PROVE  Piped(x)'
<1>0. session[x] \in SessionRow /\ stage[x] \in [StageNo -> StageState]
    BY DEF LInv, Agreement, TypeOK
<1>1. /\ session'[x] = IF x \in S THEN CancelledSession(session[x]) ELSE session[x]
      /\ stage'[x] = IF x \in S /\ session'[x].state = "cancelled"
                     THEN StagesStopped(stage[x], "cancelled") ELSE stage[x]
    BY DEF Cancel
<1>2. CASE x \in S /\ session'[x].state = "cancelled"
    BY <1>0, <1>1, <1>2, PipedStopped DEF Piped
<1>3. CASE ~(x \in S /\ session'[x].state = "cancelled")
    <2>1. session'[x].state = session[x].state
        BY <1>0, <1>1, <1>3 DEF CancelledSession, Settled, SessionRow
    <2> QED
        BY <1>1, <1>3, <2>1, PipedOn DEF Onward
<1> QED
    BY <1>2, <1>3

LEMMA OperatorPiped ==
    ASSUME LInv, OperatorRequest, NEW x \in Session, Piped(x)
    PROVE  Piped(x)'
<1>0. /\ session[x] \in SessionRow /\ session \in [Session -> SessionRow]
      /\ stage[x] \in [StageNo -> StageState] /\ stage \in [Session -> [StageNo -> StageState]]
    BY DEF LInv, Agreement, TypeOK
<1>1. ASSUME NEW S \in SUBSET Session, NEW Q, NEW p, Admit(S, Q, p),
             \A s \in S : session[s].state = "unadmitted"
      PROVE  Piped(x)'
    <2>1. /\ session'[x] = IF x \in S
                           THEN [NewSession EXCEPT !.state = IF x \in Q THEN "queued" ELSE "blocked",
                                                   !.predecessor = p[x]]
                           ELSE session[x]
          /\ stage' = stage
        BY <1>1 DEF Admit
    <2>2. Onward(session[x].state, session'[x].state)
        BY <1>1, <2>1 DEF NewSession, Onward
    <2> QED
        BY <2>1, <2>2, PipedOn
<1>2. ASSUME NEW s \in Session, RetrySession(s) PROVE Piped(x)'
    <2>1. CASE x = s
        <3>1. session'[x].state = "queued" /\ \A i \in StageNo : stage'[x][i] = "pending"
            BY <1>0, <1>2, <2>1 DEF RetrySession, Settled, SessionRow
        <3>2. InOrder(stage'[x]) /\ Fits(stage'[x], session'[x].state)
            BY <3>1, LastStage DEF InOrder, Fits
        <3> QED
            BY <3>2 DEF Piped
    <2>2. CASE x # s
        BY <1>0, <1>2, <2>2, PipedOn DEF RetrySession, Onward
    <2> QED
        BY <2>1, <2>2
<1>3. ASSUME NEW s \in Session, NEW n \in AttemptNo, AnswerWork(s, n) PROVE Piped(x)'
    <2>1. PICK state \in {"queued", "blocked"} : session' = [session EXCEPT ![s] =
              [Settled(session[s], state) EXCEPT !.cancel = FALSE]]
        BY <1>3 DEF AnswerWork
    <2>2. stage' = [stage EXCEPT ![s][StageCount] = "pending"] /\ session[s].state = "needs-input"
        BY <1>3 DEF AnswerWork
    <2>3. CASE x = s
        <3>1. session'[x].state = state
            BY <1>0, <2>1, <2>3 DEF Settled, SessionRow
        <3>2. \A i \in StageNo : stage'[x][i] = IF i = StageCount THEN "pending" ELSE "succeeded"
            BY <1>0, <2>2, <2>3, LastStage DEF Piped, Fits
        <3>3. InOrder(stage'[x])
            BY <3>2, LastStage DEF InOrder
        <3>4. Fits(stage'[x], session'[x].state)
            BY <3>1, <3>2, LastStage DEF Fits
        <3> QED
            BY <3>3, <3>4 DEF Piped
    <2>4. CASE x # s
        BY <1>0, <2>1, <2>2, <2>4, PipedOn DEF Onward
    <2> QED
        BY <2>3, <2>4
<1>4. ASSUME NEW p \in Repository, DisableRepository(p) PROVE Piped(x)'
    <2>1. /\ session'[x] = IF RepoOf[x] = p /\ session[x].state = "queued"
                           THEN Settled(session[x], "blocked") ELSE session[x]
          /\ stage' = stage
        BY <1>4 DEF DisableRepository
    <2>2. Onward(session[x].state, session'[x].state)
        BY <1>0, <2>1 DEF Settled, SessionRow, Onward
    <2> QED
        BY <2>1, <2>2, PipedOn
<1>5. ASSUME NEW p \in Repository, EnableRepository(p) PROVE Piped(x)'
    BY <1>5, PipedOn DEF EnableRepository, Onward
<1>6. ASSUME NEW r \in Run, AdmitRun(r) \/ CancelRun(r) PROVE Piped(x)'
    BY <1>1, <1>6, CancelPiped DEF AdmitRun, CancelRun, SessionsOf
<1>7. ASSUME NEW p \in Session, NEW s \in Session, ReplaceWork(p, s) PROVE Piped(x)'
    BY <1>1, <1>7 DEF ReplaceWork
<1>8. ASSUME NEW s \in Session, CancelSession(s) PROVE Piped(x)'
    BY <1>8, CancelPiped DEF CancelSession
<1> QED
    BY <1>2, <1>3, <1>4, <1>5, <1>6, <1>7, <1>8 DEF OperatorRequest

LEMMA NextPiped ==
    ASSUME LInv, [Next]_vars, NEW x \in Session, Piped(x)
    PROVE  Piped(x)'
<1>0. /\ session[x] \in SessionRow /\ stage[x] \in [StageNo -> StageState] /\ Agree(x)
    BY DEF LInv, Agreement, TypeOK
<1>1. CASE OperatorRequest
    BY <1>1, OperatorPiped
<1>2. ASSUME NEW w \in Worker, Claim(w) PROVE Piped(x)'
    <2>1. PICK m \in FirstOf(Fairest(Materializable(w))), q \in FirstOf(Reroutable(w)) :
          \E c \in FirstOf(Fairest(Claimable(w, {m, q}))) : ClaimRows(w, m, q, c)
        BY <1>2 DEF Claim
    <2>2. PICK c : ClaimRows(w, m, q, c)
        BY <2>1
    <2>3. x = m => session[x].state = "blocked"
        BY SessionAssumption DEF FirstOf, Fairest, Materializable
    <2>4. Onward(session[x].state, session'[x].state)
        BY <1>0, <2>2, <2>3 DEF ClaimRows, Settled, SessionRow, Onward
    <2> QED
        BY <1>2, <2>4, PipedOn DEF Claim
<1>3. ASSUME NEW s \in Session, NEW n \in AttemptNo, WorkerRequest(s, n) PROVE Piped(x)'
    BY <1>3, WorkerRequestPiped
<1>4. CASE SweepExpired
    <2>1. CASE \E n \in AttemptNo : Expired(x, n)
        <3>1. session[x].state \in Active
            BY <1>0, <2>1, OneRuns DEF Expired
        <3>2. session'[x].state = "failed" /\ stage'[x] = StagesStopped(stage[x], "failed")
            BY <1>0, <1>4, <2>1, <3>1 DEF SweepExpired, Checkpoint, Settled, SessionRow
        <3> QED
            BY <1>0, <3>2, PipedStopped DEF Piped
    <2>2. CASE ~\E n \in AttemptNo : Expired(x, n)
        BY <1>4, <2>2, PipedOn DEF SweepExpired, Onward
    <2> QED
        BY <2>1, <2>2
<1>5. CASE Tick \/ (\E w \in Worker : ChangeRoutes(w)) \/ UNCHANGED vars
    BY <1>5, PipedOn DEF Tick, ChangeRoutes, vars, Onward
<1> QED
    BY <1>1, <1>2, <1>3, <1>4, <1>5 DEF Next

HInv == DInv /\ \A x \in Session : Piped(x) /\ Questioned(x)

LEMMA InitHInv == Init => HInv
BY InitDInv, LastStage
   DEF HInv, Init, NewSession, NoAttempt, Piped, InOrder, Fits, Questioned, ActiveAt

LEMMA NextHInv == HInv /\ [Next]_vars => HInv'
<1> SUFFICES ASSUME HInv, [Next]_vars, NEW x \in Session PROVE Piped(x)' /\ Questioned(x)'
    BY NextDInv DEF HInv
<1>1. LInv /\ LInv' /\ Ordered(x) /\ Questioned(x) /\ Piped(x)
    BY NextDInv DEF HInv, DInv
<1> QED
    BY <1>1, NextPiped, NextMoves, NextNoted, NextAsks, QuestionedKept

(* The next attempt goes on from the stages, the commit and the question   *)
(* the last one left, through any failures, retries and answers.           *)
THEOREM ResumableCorrect == Spec => []Resumable
<1>1. HInv => Resumable
    <2> SUFFICES ASSUME HInv PROVE Resumable
        OBVIOUS
    <2>1. StagesInOrder /\ StagesFitWork
        BY DEF HInv, Piped, InOrder, Fits, StagesInOrder, StagesFitWork
    <2>2. ResumesFromPending /\ QuestionAnswerable
        BY DEF HInv, Questioned, ActiveAt, ResumesFromPending, QuestionAnswerable
    <2> QED
        BY <2>1, <2>2 DEF Resumable
<1> QED
    BY <1>1, InitHInv, NextHInv, PTL DEF Spec
=============================================================================
