---------------------------- MODULE GitHubIntake ----------------------------
(***************************************************************************)
(* How one managed repository turns GitHub labels into Work.  RunGitHub-   *)
(* IssueIntake polls: it lists the labelled issues, starts a visit for each *)
(* one that matches and has none, admits a build for the visit, and clears *)
(* the visits this poll did not see; then it does the same for labelled    *)
(* pull requests, whose wake replaces the last Work of their issue.  Every *)
(* call of GitHub and every transaction is a step, with labels, operators, *)
(* failures and a stop of the server in between.                           *)
(***************************************************************************)
EXTENDS Naturals, Sequences, FiniteSets

CONSTANTS Issues,      \* issue numbers; each has at most one pull request
          Faults,      \* the failures that can happen, see Fault
          Moves,       \* what changes on GitHub: "label", "ready", "route", "pull"
          MaxWorks,    \* bound: sessions
          MaxMoves,    \* bound: changes on GitHub
          MaxFaults    \* bound: failures

ASSUME IssuesAssumption == Issues \subseteq Nat

VARIABLES github,  \* labels, project status, routing and labelled pull requests
          visits,  \* github_issue_visits
          wakes,   \* github_pr_wakes
          diag,    \* issues with a row in repository_workflow_diagnostics
          works,   \* the sessions of the issues, in order of admission
          poll,    \* the step the poll is at and what it has read
          period,  \* how many matching periods each issue has begun
          missed,  \* how often a failure left the visit of an issue behind
          moves, faults

vars == <<github, visits, wakes, diag, works, poll, period, missed, moves, faults>>
tables == <<visits, wakes, diag, works>>
outside == <<github, period, moves>>
failures == <<faults, missed>>

Live == {"live"}
Item == [label : BOOLEAN, ready : BOOLEAN, route : BOOLEAN, pull : BOOLEAN]
(* seen: last_seen_key is the key of the poll that runs, or ran last.      *)
(* key: the visit key, told apart only when Work came in between.          *)
Row == [state : {"none", "active", "inactive"}, seen : BOOLEAN, key : Nat]
Session == [issue : Issues, live : BOOLEAN, pull : BOOLEAN, prior : Nat,
            by : {"visit", "wake", "operator"}, visit : Nat, period : Nat, missed : Nat]
Idle == [pc |-> "idle"]
Polling == [pc : {"catalog", "issues", "admit", "release", "clear", "pulls",
                  "replace", "record", "clearPulls"},
            todo : SUBSET Issues, routed : SUBSET Issues, issue : Issues,
            rebuild : BOOLEAN, work : Nat]

TypeOK ==
    /\ github \in [Issues -> Item]
    /\ visits \in [Issues -> Row] /\ wakes \in [Issues -> Row]
    /\ diag \subseteq Issues
    /\ works \in Seq(Session)
    /\ poll \in Polling \cup {Idle}
    /\ period \in [Issues -> Nat] /\ missed \in [Issues -> Nat]
    /\ moves \in 0 .. MaxMoves /\ faults \in 0 .. MaxFaults
    /\ poll.pc \in {"admit", "release"} => visits[poll.issue].state = "active"

NoRow == [state |-> "none", seen |-> FALSE, key |-> 0]
Seen(key) == [state |-> "active", seen |-> TRUE, key |-> key]
Init ==
    /\ github = [i \in Issues |-> [label |-> FALSE, ready |-> TRUE, route |-> TRUE, pull |-> FALSE]]
    /\ visits = [i \in Issues |-> NoRow] /\ wakes = [i \in Issues |-> NoRow]
    /\ diag = {}
    /\ works = <<>>
    /\ poll = Idle
    /\ period = [i \in Issues |-> 0] /\ missed = [i \in Issues |-> 0]
    /\ moves = 0 /\ faults = 0

-----------------------------------------------------------------------------
(* The sessions of an issue.                                               *)

WorksOf(i) == {n \in DOMAIN works : works[n].issue = i}
LiveWork(i) == \E n \in WorksOf(i) : works[n].live
Childless(n) == \A c \in DOMAIN works : works[c].prior # n
Leaves(i) == {n \in WorksOf(i) : ~works[n].live /\ Childless(n)}
Latest(S) == CHOOSE n \in S : \A o \in S : o <= n

Matches(gh, i) == gh[i].label /\ gh[i].ready /\ gh[i].route
(* The matching period a session is admitted in, 0 outside of any.         *)
NewWork(i, prior, by) ==
    [issue |-> i, live |-> TRUE, pull |-> FALSE, prior |-> prior, by |-> by,
     visit |-> IF by = "visit" THEN visits[i].key ELSE 0,
     period |-> IF Matches(github, i) THEN period[i] ELSE 0, missed |-> missed[i]]

(* Mistake: only a rebuild is checked against what was built before.       *)
AdmissibleUnlessLive(i, rebuild) ==
    /\ ~LiveWork(i)
    /\ rebuild => Leaves(i) # {}
    /\ Len(works) < MaxWorks

(* admitBuild: no live Work of the source, and a terminal predecessor      *)
(* exactly when the request asks for a rebuild.                            *)
Admissible(i, rebuild) ==
    /\ ~LiveWork(i)
    /\ rebuild <=> Leaves(i) # {}
    /\ Len(works) < MaxWorks
AdmittedWorks(i, rebuild, by) ==
    Append(works, NewWork(i, IF rebuild THEN Latest(Leaves(i)) ELSE 0, by))

(* ReplaceWork: the predecessor is terminal, has no child, and no Work of  *)
(* the source is live.                                                     *)
Replaceable(n) == ~works[n].live /\ Childless(n) /\ ~LiveWork(works[n].issue)
Replaced(n, by) == Append(works, NewWork(works[n].issue, n, by))

(* linkedTerminalWork: the last Work of the issue whose Work recorded the  *)
(* pull request, if it has ended.                                          *)
Linked(i) ==
    /\ \E n \in WorksOf(i) : works[n].pull
    /\ ~works[Latest(WorksOf(i))].live

-----------------------------------------------------------------------------
(* The poll.                                                               *)

Fails(kind) == kind \in Faults /\ faults < MaxFaults /\ faults' = faults + 1
Fault(kind) == Fails(kind) /\ UNCHANGED missed

(* The failure leaves an active visit without the key of this poll.        *)
Miss(kind, i) ==
    /\ Fails(kind)
    /\ missed' = IF visits[i].state = "active" THEN [missed EXCEPT ![i] = @ + 1] ELSE missed

First(S) == CHOOSE i \in S : \A j \in S : i <= j
Go(pc) == poll' = [poll EXCEPT !.pc = pc]
Done == poll' = Idle
NextIssue == poll' = [poll EXCEPT !.pc = "issues", !.todo = @ \ {poll.issue}]
NextPull == poll' = [poll EXCEPT !.pc = "pulls", !.todo = @ \ {poll.issue}]
Aim(todo, pc) == [pc |-> pc, todo |-> todo, rebuild |-> FALSE, work |-> 0,
                  routed |-> {i \in todo : github[i].route},
                  issue |-> IF todo = {} THEN First(Issues) ELSE First(todo)]

(* A new poll key: no row carries it yet.  The labels that route an issue  *)
(* are those of the list.  A failed list ends the poll.                    *)
Unseen(rows) == [i \in Issues |-> [rows[i] EXCEPT !.seen = FALSE]]
ListIssues ==
    /\ poll.pc = "idle"
    /\ visits' = Unseen(visits) /\ wakes' = Unseen(wakes)
    /\ poll' = Aim({i \in Issues : github[i].label}, "catalog")
    /\ UNCHANGED <<diag, works, outside, failures>>

(* The workflow catalog is refreshed.  When it cannot be, every listed     *)
(* issue gets a diagnostic, where one can be written, and the poll ends.   *)
RefreshCatalog ==
    /\ poll.pc = "catalog"
    /\ \/ Go("issues") /\ UNCHANGED <<diag, failures>>
       \/ \E S \in SUBSET poll.todo :
            /\ S = poll.todo \/ "diagnostic" \in Faults
            /\ Fault("catalog") /\ diag' = diag \cup S /\ Done
    /\ UNCHANGED <<visits, wakes, works, outside>>

Turn == poll.pc = "issues" /\ poll.todo # {}
This == First(poll.todo)
Pass == poll' = [poll EXCEPT !.todo = @ \ {This}]
Matching(i) == i \in poll.routed /\ github[i].ready

(* No single workflow matches the labels.                                  *)
BlockRoute ==
    /\ Turn /\ This \notin poll.routed
    /\ \/ diag' = diag \cup {This} /\ UNCHANGED failures
       \/ Fault("diagnostic") /\ UNCHANGED diag
    /\ Pass
    /\ UNCHANGED <<visits, wakes, works, outside>>

(* The project status is not Ready.                                        *)
SkipIssue ==
    /\ Turn /\ This \in poll.routed /\ ~github[This].ready
    /\ Pass
    /\ UNCHANGED <<tables, outside, failures>>

(* The reference of the issue is malformed, or its project status or its   *)
(* visit cannot be read, or the visit cannot be written: the poll goes on  *)
(* to the next issue.                                                      *)
FailIssue ==
    /\ Turn
    /\ \/ Miss("reference", This)
       \/ This \in poll.routed /\ Miss("status", This)
       \/ Matching(This) /\ Miss("visit", This)
    /\ Pass
    /\ UNCHANGED <<tables, outside>>

(* Mistake: an active visit is passed over and keeps its old poll key.     *)
TouchNothing ==
    /\ Turn /\ Matching(This) /\ visits[This].state = "active"
    /\ Pass
    /\ UNCHANGED <<tables, outside, failures>>

TouchVisit ==
    /\ Turn /\ Matching(This) /\ visits[This].state = "active"
    /\ visits' = [visits EXCEPT ![This].seen = TRUE]
    /\ Pass
    /\ UNCHANGED <<wakes, diag, works, outside, failures>>

(* The visit and its key are committed; whether the issue was built before *)
(* is read next, and the admission is a transaction of its own.            *)
StartVisit ==
    /\ Turn /\ Matching(This) /\ visits[This].state # "active"
    /\ visits' = [visits EXCEPT ![This] = Seen(Len(works) + 1)]
    /\ \/ /\ poll' = [poll EXCEPT !.pc = "admit", !.issue = This, !.rebuild = Leaves(This) # {}]
          /\ UNCHANGED failures
       \/ Fault("rebuild") /\ Pass
    /\ UNCHANGED <<wakes, diag, works, outside>>

(* An admission that fails releases the visit; one that is committed may   *)
(* still fail to read its own Run back, or to remove the diagnostic.       *)
AdmitIssue ==
    /\ poll.pc = "admit"
    /\ \/ /\ Admissible(poll.issue, poll.rebuild)
          /\ works' = AdmittedWorks(poll.issue, poll.rebuild, "visit")
          /\ \/ NextIssue /\ diag' = diag \ {poll.issue} /\ UNCHANGED failures
             \/ Fault("diagnostic") /\ NextIssue /\ UNCHANGED diag
             \/ Miss("reread", poll.issue) /\ Go("release") /\ UNCHANGED diag
       \/ /\ \/ ~Admissible(poll.issue, poll.rebuild) /\ UNCHANGED failures
             \/ Fault("admission")
          /\ Go("release")
          /\ UNCHANGED <<works, diag>>
    /\ UNCHANGED <<visits, wakes, outside>>

ReleaseVisit ==
    /\ poll.pc = "release"
    /\ \/ visits' = [visits EXCEPT ![poll.issue] = NoRow] /\ UNCHANGED failures
       \/ Fault("release") /\ UNCHANGED visits
    /\ NextIssue
    /\ UNCHANGED <<wakes, diag, works, outside>>

(* A row of an earlier poll key is an issue this poll did not see.         *)
Cleared(rows) ==
    [i \in Issues |-> IF rows[i].state = "active" /\ ~rows[i].seen
                      THEN [rows[i] EXCEPT !.state = "inactive"] ELSE rows[i]]
ClearVisits ==
    /\ poll.pc = "issues" /\ poll.todo = {}
    /\ \/ visits' = Cleared(visits) /\ UNCHANGED failures
       \/ Fault("clear") /\ UNCHANGED visits
    /\ Go("clear")
    /\ UNCHANGED <<wakes, diag, works, outside>>

ListPulls ==
    /\ poll.pc = "clear"
    /\ \/ poll' = Aim({i \in Issues : github[i].pull}, "pulls") /\ UNCHANGED failures
       \/ Fault("list") /\ Done
    /\ UNCHANGED <<tables, outside>>

PullTurn == poll.pc = "pulls" /\ poll.todo # {}

(* There is no ended Work to wake, or the Work or the wake cannot be read. *)
SkipPull ==
    /\ PullTurn
    /\ \/ ~Linked(This) /\ UNCHANGED failures
       \/ Fault("wake")
    /\ Pass
    /\ UNCHANGED <<tables, outside>>

(* The Work to wake is fixed here; the replacement comes later.            *)
NeedWake ==
    /\ PullTurn /\ Linked(This)
    /\ poll' = [poll EXCEPT !.pc = IF wakes[This].state = "active" THEN "record" ELSE "replace",
                            !.issue = This, !.work = Latest(WorksOf(This))]
    /\ UNCHANGED <<tables, outside, failures>>

(* Mistake: the wake is recorded though the replacement failed.            *)
WakeUnchecked ==
    /\ poll.pc = "replace"
    /\ \/ /\ Replaceable(poll.work) /\ Len(works) < MaxWorks
          /\ works' = Replaced(poll.work, "wake")
          /\ UNCHANGED failures
       \/ Fault("replace") /\ UNCHANGED works
       \/ (~Replaceable(poll.work) \/ Len(works) = MaxWorks) /\ UNCHANGED <<works, failures>>
    /\ Go("record")
    /\ UNCHANGED <<visits, wakes, diag, outside>>

(* The key names the Work to replace: a wake of the same Work is a replay. *)
WakeWork ==
    /\ poll.pc = "replace"
    /\ LET n == poll.work
           woken == \E c \in DOMAIN works : works[c].prior = n /\ works[c].by = "wake"
       IN  \/ woken /\ Go("record") /\ UNCHANGED <<works, failures>>
           \/ /\ ~woken /\ Replaceable(n) /\ Len(works) < MaxWorks
              /\ works' = Replaced(n, "wake")
              /\ Go("record") /\ UNCHANGED failures
           \/ /\ ~woken /\ (~Replaceable(n) \/ Len(works) = MaxWorks)
              /\ NextPull /\ UNCHANGED <<works, failures>>
           \/ Fault("replace") /\ NextPull /\ UNCHANGED works
    /\ UNCHANGED <<visits, wakes, diag, outside>>

RecordWake ==
    /\ poll.pc = "record"
    /\ \/ wakes' = [wakes EXCEPT ![poll.issue] = Seen(0)] /\ UNCHANGED failures
       \/ Fault("wake") /\ UNCHANGED wakes
    /\ NextPull
    /\ UNCHANGED <<visits, diag, works, outside>>

ClearWakes ==
    /\ poll.pc = "pulls" /\ poll.todo = {}
    /\ \/ wakes' = Cleared(wakes) /\ UNCHANGED failures
       \/ Fault("clear") /\ UNCHANGED wakes
    /\ Done
    /\ UNCHANGED <<visits, diag, works, outside>>

(* The server stops and starts again.                                      *)
Restart ==
    /\ poll.pc # "idle"
    /\ Fault("crash")
    /\ Done
    /\ UNCHANGED <<tables, outside>>

-----------------------------------------------------------------------------
(* GitHub, workers and operators.                                          *)

Change(i, field) ==
    /\ moves < MaxMoves /\ moves' = moves + 1
    /\ field = "pull" /\ ~github[i].pull => \E n \in WorksOf(i) : works[n].pull
    /\ github' = [github EXCEPT ![i][field] = ~@]
    /\ period' = [j \in Issues |->
                    IF Matches(github', j) /\ ~Matches(github, j) THEN period[j] + 1 ELSE period[j]]
    /\ UNCHANGED <<tables, poll, failures>>

RecordPull(n) ==
    /\ works[n].live /\ ~works[n].pull
    /\ works' = [works EXCEPT ![n].pull = TRUE]
    /\ UNCHANGED <<visits, wakes, diag, outside, poll, failures>>

FinishWork(n) ==
    /\ works[n].live
    /\ works' = [works EXCEPT ![n].live = FALSE]
    /\ UNCHANGED <<visits, wakes, diag, outside, poll, failures>>

OperatorBuilds(i, rebuild) ==
    /\ "operator" \in Moves
    /\ Admissible(i, rebuild)
    /\ works' = AdmittedWorks(i, rebuild, "operator")
    /\ UNCHANGED <<visits, wakes, diag, outside, poll, failures>>

OperatorReplaces(n) ==
    /\ "operator" \in Moves
    /\ Replaceable(n) /\ Len(works) < MaxWorks
    /\ works' = Replaced(n, "operator")
    /\ UNCHANGED <<visits, wakes, diag, outside, poll, failures>>

Poll ==
    \/ ListIssues \/ RefreshCatalog \/ BlockRoute \/ SkipIssue \/ FailIssue \/ TouchVisit
    \/ StartVisit \/ AdmitIssue \/ ReleaseVisit \/ ClearVisits \/ ListPulls \/ SkipPull \/ NeedWake
    \/ WakeWork \/ RecordWake \/ ClearWakes
Others ==
    \/ \E i \in Issues :
         \/ \E f \in Moves \ {"operator"} : Change(i, f)
         \/ \E r \in BOOLEAN : OperatorBuilds(i, r)
    \/ \E n \in DOMAIN works : RecordPull(n) \/ FinishWork(n) \/ OperatorReplaces(n)
Next == Poll \/ Restart \/ Others

Spec == Init /\ [][Next]_vars
FairSpec == Spec /\ WF_vars(Poll) /\ \A n \in 1 .. MaxWorks : WF_vars(n \in DOMAIN works /\ FinishWork(n))

-----------------------------------------------------------------------------
(* Properties.                                                             *)

(* A continuous period in which an issue matches a label set, with one     *)
(* workflow and Project status Ready, costs a failure for each Work after  *)
(* its first: a poll that could not see the visit of the issue, or that    *)
(* released it after its Work was admitted.  Labels, restarts, builds,     *)
(* wakes and every other failure bring no second Work.                     *)
OneWorkPerVisit ==
    \A m, n \in DOMAIN works :
        /\ works[m].by = "visit" /\ works[n].by = "visit"
        /\ works[m].issue = works[n].issue /\ works[m].period = works[n].period
        /\ works[m].missed = works[n].missed
        /\ works[m].period # 0
        => m = n

(* One continuous period in which an issue matches a label set, with one   *)
(* workflow and Project status Ready, runs once (GOAL.md:38).              *)
OneWorkPerPeriod ==
    \A m, n \in DOMAIN works :
        /\ works[m].by = "visit" /\ works[n].by = "visit"
        /\ works[m].issue = works[n].issue /\ works[m].period = works[n].period
        /\ works[m].period # 0
        => m = n

(* Whatever visits, wakes, builds and replacements meet, the Work of an    *)
(* issue is one chain: only the first has no predecessor and no Work is    *)
(* followed twice.                                                         *)
OneChain ==
    \A m, n \in DOMAIN works :
        m # n /\ works[m].issue = works[n].issue => works[m].prior # works[n].prior

(* A diagnostic names an issue that is blocked                             *)
(* (docs/repository-workflow-routing/design.md:79).                        *)
DiagnosticsNameBlocked ==
    poll.pc = "clear" =>
        \A i \in diag : ~(visits[i].state = "active" /\ visits[i].seen /\ Matches(github, i))

(* An issue that goes on matching is in a visit that was admitted: a visit *)
(* is never recorded without its Work.                                     *)
VisitRan(i) ==
    visits[i].state = "active" /\ \E n \in WorksOf(i) : works[n].visit = visits[i].key
VisitRuns ==
    \A i \in Issues : <>[]Matches(github, i) => <>[](VisitRan(i) \/ Len(works) = MaxWorks)

(* A labelled pull request whose last Work has ended is followed by new    *)
(* Work of its issue, unless a wake is recorded or about to be.            *)
WakeRuns ==
    \A i \in Issues :
        github[i].pull /\ Linked(i) /\ wakes[i].state # "active" /\ poll.pc # "record"
            ~> LiveWork(i) \/ ~github[i].pull \/ Len(works) = MaxWorks

=============================================================================
