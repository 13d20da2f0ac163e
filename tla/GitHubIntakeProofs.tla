------------------------- MODULE GitHubIntakeProofs -------------------------
(***************************************************************************)
(* Theorems about GitHubIntake for any set of issues and any bounds: the   *)
(* Work of an issue is one chain, whatever fails, and a matching period is *)
(* built once but for the failures that leave its visit behind.            *)
(***************************************************************************)
EXTENDS GitHubIntake, WellFoundedInduction, TLAPS

-----------------------------------------------------------------------------
(* The choices the poll makes.                                             *)

LEMMA LeastElement ==
  ASSUME NEW S \in SUBSET Nat, S # {}
  PROVE  \E n \in S : \A m \in S : n <= m
<1>1. PICK n \in S : \A m \in S : <<m, n>> \notin OpToRel(<, Nat)
  BY NatLessThanWellFounded, WFMin, Zenon
<1>2. OpToRel(<, Nat) = {p \in Nat \X Nat : p[1] < p[2]}
  BY Zenon DEF OpToRel
<1>3. ASSUME NEW m \in S PROVE n <= m
  <2>1. m \in Nat /\ n \in Nat /\ <<m, n>> \in Nat \X Nat
    OBVIOUS
  <2>2. ~(m < n)
    BY <1>1, <1>2, <2>1
  <2> QED
    BY <2>1, <2>2
<1> QED
  BY <1>3

LEMMA FirstIn ==
  ASSUME NEW S \in SUBSET Issues, S # {}
  PROVE  First(S) \in S
<1>1. \E i \in S : \A j \in S : i <= j
  BY LeastElement, IssuesAssumption
<1> QED
  BY <1>1 DEF First

LEMMA LatestIn ==
  ASSUME NEW k \in Nat, NEW S \in SUBSET (1 .. k), S # {}
  PROVE  Latest(S) \in S /\ \A o \in S : o <= Latest(S)
<1> DEFINE T == {k - o : o \in S}
<1>1. T \in SUBSET Nat /\ T # {}
  <2>1. \A o \in S : k - o \in Nat
    OBVIOUS
  <2>2. \E o \in S : k - o \in T
    OBVIOUS
  <2> QED
    BY <2>1, <2>2
<1>2. PICK t \in T : \A u \in T : t <= u
  BY <1>1, LeastElement, Zenon
<1>3. PICK n \in S : t = k - n
  OBVIOUS
<1>4. \A o \in S : o <= n
  <2> SUFFICES ASSUME NEW o \in S PROVE o <= n
    OBVIOUS
  <2>1. k - o \in T
    OBVIOUS
  <2>2. k - n <= k - o
    BY <1>2, <1>3, <2>1
  <2> QED
    BY <2>2
<1> QED
  BY <1>4 DEF Latest

-----------------------------------------------------------------------------
(* The rows.                                                               *)

Steps == {"catalog", "issues", "admit", "release", "clear", "pulls", "replace", "record", "clearPulls"}

Tabled ==
    /\ visits \in [Issues -> Row] /\ wakes \in [Issues -> Row]
    /\ works \in Seq(Session)
    /\ period \in [Issues -> Nat] /\ missed \in [Issues -> Nat]

(* What the poll has read.                                                 *)
Reading ==
    /\ poll.pc \in Steps \cup {"idle"}
    /\ poll.pc # "idle" =>
        /\ poll = [pc |-> poll.pc, todo |-> poll.todo, routed |-> poll.routed,
                   issue |-> poll.issue, rebuild |-> poll.rebuild, work |-> poll.work]
        /\ poll.todo \in SUBSET Issues /\ poll.rebuild \in BOOLEAN
    /\ poll.pc \in {"admit", "release", "replace", "record"} => poll.issue \in Issues
    /\ poll.pc = "replace" => poll.work \in DOMAIN works

(* Work follows earlier Work of its issue.                                 *)
Followed ==
    \A c \in DOMAIN works :
        works[c].prior # 0 =>
            works[c].prior \in 1 .. c - 1 /\ works[works[c].prior].issue = works[c].issue

Chain == Followed /\ OneChain

(* New Work that may join: it continues the chain, or begins it.           *)
Joins(w) ==
    \/ w.prior = 0 /\ WorksOf(w.issue) = {}
    \/ w.prior \in WorksOf(w.issue) /\ Childless(w.prior)

(* The sessions stay, but for what is not their place in the chain.        *)
Kin ==
    /\ works' \in Seq(Session) /\ DOMAIN works' = DOMAIN works
    /\ \A n \in DOMAIN works :
        /\ works'[n].issue = works[n].issue /\ works'[n].prior = works[n].prior
        /\ works'[n].by = works[n].by /\ works'[n].period = works[n].period
        /\ works'[n].missed = works[n].missed

LEMMA AppendedAt ==
  ASSUME works \in Seq(Session), NEW w \in Session, works' = Append(works, w)
  PROVE  /\ works' \in Seq(Session)
         /\ Len(works) \in Nat /\ DOMAIN works = 1 .. Len(works)
         /\ DOMAIN works' = 1 .. Len(works) + 1
         /\ works'[Len(works) + 1] = w
         /\ \A n \in DOMAIN works : works'[n] = works[n]
OBVIOUS

LEMMA ChainKin ==
  ASSUME Chain, Kin
  PROVE  Chain'
<1>0. works' \in Seq(Session) /\ DOMAIN works' = DOMAIN works
  BY DEF Kin
<1>1. Followed'
  <2> SUFFICES ASSUME NEW c \in DOMAIN works, works'[c].prior # 0
               PROVE  /\ works'[c].prior \in 1 .. c - 1
                      /\ works'[works'[c].prior].issue = works'[c].issue
    BY <1>0 DEF Followed
  <2>1. works'[c].prior = works[c].prior /\ works'[c].issue = works[c].issue
    BY DEF Kin
  <2>2. works[c].prior \in 1 .. c - 1 /\ works[works[c].prior].issue = works[c].issue
    BY <2>1 DEF Chain, Followed
  <2>3. works[c].prior \in DOMAIN works
    BY <1>0, <2>2
  <2> QED
    BY <2>1, <2>2, <2>3 DEF Kin
<1>2. OneChain'
  BY <1>0 DEF Chain, OneChain, Kin
<1> QED
  BY <1>1, <1>2 DEF Chain

LEMMA ChainAppend ==
  ASSUME Chain, works \in Seq(Session), NEW w \in Session, works' = Append(works, w), Joins(w)
  PROVE  Chain'
<1>0. /\ Len(works) \in Nat /\ DOMAIN works = 1 .. Len(works)
      /\ DOMAIN works' = 1 .. Len(works) + 1
      /\ works'[Len(works) + 1] = w
      /\ \A n \in DOMAIN works : works'[n] = works[n]
  BY AppendedAt
<1>1. Followed'
  <2> SUFFICES ASSUME NEW c \in DOMAIN works', works'[c].prior # 0
               PROVE  /\ works'[c].prior \in 1 .. c - 1
                      /\ works'[works'[c].prior].issue = works'[c].issue
    BY DEF Followed
  <2>1. CASE c \in DOMAIN works
    <3>1. works[c].prior \in 1 .. c - 1 /\ works[works[c].prior].issue = works[c].issue
      BY <1>0, <2>1 DEF Chain, Followed
    <3>2. works[c].prior \in DOMAIN works
      BY <1>0, <2>1, <3>1
    <3> QED
      BY <1>0, <2>1, <3>1, <3>2
  <2>2. CASE c = Len(works) + 1
    BY <1>0, <2>2 DEF Joins, WorksOf
  <2> QED
    BY <1>0, <2>1, <2>2
<1>2. \A m \in DOMAIN works : works[m].issue = w.issue => works[m].prior # w.prior
  BY DEF Joins, WorksOf, Childless
<1>3. OneChain'
  BY <1>0, <1>2 DEF Chain, OneChain
<1> QED
  BY <1>1, <1>3 DEF Chain

LEMMA NewWorkType ==
  ASSUME Tabled, NEW i \in Issues, NEW prior \in Nat, NEW by \in {"visit", "wake", "operator"}
  PROVE  /\ NewWork(i, prior, by) \in Session
         /\ NewWork(i, prior, by).issue = i /\ NewWork(i, prior, by).prior = prior
         /\ NewWork(i, prior, by).by = by
         /\ NewWork(i, prior, by).period = IF Matches(github, i) THEN period[i] ELSE 0
         /\ NewWork(i, prior, by).missed = missed[i]
<1>1. visits[i].key \in Nat /\ period[i] \in Nat /\ missed[i] \in Nat
  BY DEF Tabled, Row
<1> QED
  BY <1>1 DEF NewWork, Session

(* A chain that is there and has ended has an end: its latest Work.        *)
LEMMA LatestIsLeaf ==
  ASSUME Tabled, Chain, NEW i \in Issues, WorksOf(i) # {}, ~LiveWork(i)
  PROVE  Latest(WorksOf(i)) \in Leaves(i)
<1>0. Len(works) \in Nat /\ DOMAIN works = 1 .. Len(works)
  BY DEF Tabled
<1> DEFINE m == Latest(WorksOf(i))
<1>1. m \in WorksOf(i) /\ \A o \in WorksOf(i) : o <= m
  BY <1>0, LatestIn DEF WorksOf
<1> HIDE DEF m
<1>2. ASSUME NEW c \in DOMAIN works, works[c].prior = m PROVE FALSE
  <2>1. m \in 1 .. Len(works) /\ m # 0 /\ works[m].issue = i
    BY <1>0, <1>1 DEF WorksOf
  <2>2. m \in 1 .. c - 1 /\ works[c].issue = i
    BY <1>2, <2>1 DEF Chain, Followed
  <2>3. c <= m
    BY <1>1, <1>2, <2>2 DEF WorksOf
  <2> QED
    BY <1>0, <2>1, <2>2, <2>3
<1>3. Childless(m)
  BY <1>2 DEF Childless
<1> QED
  BY <1>1, <1>3 DEF Leaves, LiveWork, m

LEMMA AdmittedJoins ==
  ASSUME Tabled, Chain, NEW i \in Issues, NEW rebuild \in BOOLEAN, Admissible(i, rebuild),
         NEW by \in {"visit", "wake", "operator"}
  PROVE  \E w \in Session : /\ AdmittedWorks(i, rebuild, by) = Append(works, w)
                            /\ Joins(w) /\ w.issue = i /\ w.by = by
                            /\ w.period = IF Matches(github, i) THEN period[i] ELSE 0
                            /\ w.missed = missed[i]
<1>0. Len(works) \in Nat /\ DOMAIN works = 1 .. Len(works)
  BY DEF Tabled
<1> DEFINE prior == IF rebuild THEN Latest(Leaves(i)) ELSE 0
           w == NewWork(i, prior, by)
<1>1. CASE rebuild
  <2>1. Leaves(i) # {} /\ Leaves(i) \subseteq 1 .. Len(works)
    BY <1>0, <1>1 DEF Admissible, Leaves, WorksOf
  <2>2. prior \in Leaves(i)
    BY <1>0, <1>1, <2>1, LatestIn
  <2>3. prior \in WorksOf(i) /\ Childless(prior) /\ prior \in Nat
    BY <1>0, <2>2 DEF Leaves, WorksOf
  <2> HIDE DEF prior
  <2>4. /\ w \in Session /\ w.issue = i /\ w.prior = prior /\ w.by = by
        /\ w.period = IF Matches(github, i) THEN period[i] ELSE 0
        /\ w.missed = missed[i]
    BY <2>3, NewWorkType
  <2>5. Joins(w)
    BY <2>3, <2>4 DEF Joins
  <2> QED
    BY <2>4, <2>5 DEF AdmittedWorks, prior
<1>2. CASE ~rebuild
  <2>1. prior = 0 /\ Leaves(i) = {} /\ ~LiveWork(i)
    BY <1>2 DEF Admissible
  <2>2. WorksOf(i) = {}
    BY <2>1, LatestIsLeaf
  <2>3. prior = 0 /\ prior \in Nat
    BY <2>1
  <2> HIDE DEF prior
  <2>4. /\ w \in Session /\ w.issue = i /\ w.prior = prior /\ w.by = by
        /\ w.period = IF Matches(github, i) THEN period[i] ELSE 0
        /\ w.missed = missed[i]
    BY <2>3, NewWorkType
  <2>5. Joins(w)
    BY <2>2, <2>3, <2>4 DEF Joins
  <2> QED
    BY <2>4, <2>5 DEF AdmittedWorks, prior
<1> QED
  BY <1>1, <1>2

LEMMA ReplacedJoins ==
  ASSUME Tabled, NEW n \in DOMAIN works, Replaceable(n), NEW by \in {"wake", "operator"}
  PROVE  \E w \in Session : /\ Replaced(n, by) = Append(works, w) /\ Joins(w) /\ w.by = by
                            /\ w.issue \in Issues
                            /\ w.period = IF Matches(github, w.issue) THEN period[w.issue] ELSE 0
                            /\ w.missed = missed[w.issue]
<1>1. works[n].issue \in Issues /\ n \in Nat
  <2>1. works[n] \in Session /\ n \in 1 .. Len(works) /\ Len(works) \in Nat
    BY DEF Tabled
  <2> QED
    BY <2>1 DEF Session
<1> DEFINE w == NewWork(works[n].issue, n, by)
<1>2. /\ w \in Session /\ w.issue = works[n].issue /\ w.prior = n /\ w.by = by
      /\ w.period = IF Matches(github, works[n].issue) THEN period[works[n].issue] ELSE 0
      /\ w.missed = missed[works[n].issue]
  BY <1>1, NewWorkType
<1>3. Joins(w)
  BY <1>2 DEF Joins, WorksOf, Replaceable
<1> QED
  BY <1>1, <1>2, <1>3 DEF Replaced
-----------------------------------------------------------------------------
(* What a step does to the sessions.                                       *)

WorksMove ==
    \/ Kin
    \/ \E w \in Session :
        /\ works' = Append(works, w) /\ Joins(w)
        /\ w.by = "visit" => poll.pc = "admit" /\ w.issue = poll.issue /\ poll' # poll
        /\ w.period = IF Matches(github, w.issue) THEN period[w.issue] ELSE 0
        /\ w.missed = missed[w.issue]
        /\ UNCHANGED <<visits, github, period>>

LEMMA SameWorks == Tabled /\ works' = works => WorksMove
BY DEF Tabled, WorksMove, Kin

LEMMA MarkedWorks ==
  ASSUME Tabled, NEW n \in DOMAIN works, RecordPull(n) \/ FinishWork(n)
  PROVE  WorksMove
<1>1. works[n] \in Session /\ works \in Seq(Session)
  BY DEF Tabled
<1>2. PICK row \in Session : /\ works' = [works EXCEPT ![n] = row]
                             /\ row.issue = works[n].issue /\ row.prior = works[n].prior
                             /\ row.by = works[n].by /\ row.period = works[n].period
                             /\ row.missed = works[n].missed
  <2>1. CASE RecordPull(n)
    <3> DEFINE row == [works[n] EXCEPT !.pull = TRUE]
    <3>1. works' = [works EXCEPT ![n] = row]
      BY <2>1 DEF RecordPull
    <3>2. /\ row \in Session
          /\ row.issue = works[n].issue /\ row.prior = works[n].prior
          /\ row.by = works[n].by /\ row.period = works[n].period
          /\ row.missed = works[n].missed
      BY <1>1 DEF Session
    <3> QED
      BY <3>1, <3>2
  <2>2. CASE FinishWork(n)
    <3> DEFINE row == [works[n] EXCEPT !.live = FALSE]
    <3>1. works' = [works EXCEPT ![n] = row]
      BY <2>2 DEF FinishWork
    <3>2. /\ row \in Session
          /\ row.issue = works[n].issue /\ row.prior = works[n].prior
          /\ row.by = works[n].by /\ row.period = works[n].period
          /\ row.missed = works[n].missed
      BY <1>1 DEF Session
    <3> QED
      BY <3>1, <3>2
  <2> QED
    BY <2>1, <2>2
<1>3. works' \in Seq(Session) /\ DOMAIN works' = DOMAIN works
      /\ \A m \in DOMAIN works : works'[m] = IF m = n THEN row ELSE works[m]
  BY <1>1, <1>2
<1> QED
  BY <1>2, <1>3 DEF WorksMove, Kin

LEMMA NextWorks ==
  ASSUME Tabled, Reading, Chain, [Next]_vars
  PROVE  WorksMove
<1>1. CASE AdmitIssue
  <2>1. poll.pc = "admit" /\ poll.issue \in Issues /\ poll.rebuild \in BOOLEAN
        /\ UNCHANGED <<visits, github, period>>
    BY <1>1 DEF AdmitIssue, Reading, outside
  <2>2. CASE works' = works
    BY <2>2, SameWorks
  <2>3. CASE works' # works
    <3>1. /\ Admissible(poll.issue, poll.rebuild)
          /\ works' = AdmittedWorks(poll.issue, poll.rebuild, "visit")
          /\ NextIssue \/ Go("release")
      BY <1>1, <2>3 DEF AdmitIssue
    <3>2. poll' # poll
      <4>1. poll'.pc \in {"issues", "release"}
        BY <2>1, <3>1 DEF NextIssue, Go, Reading
      <4> QED
        BY <2>1, <4>1
    <3>3. PICK w \in Session :
              /\ works' = Append(works, w) /\ Joins(w) /\ w.issue = poll.issue
              /\ w.period = IF Matches(github, poll.issue) THEN period[poll.issue] ELSE 0
              /\ w.missed = missed[poll.issue]
      BY <2>1, <3>1, AdmittedJoins
    <3> QED
      BY <2>1, <3>2, <3>3 DEF WorksMove
  <2> QED
    BY <2>2, <2>3
<1>2. CASE WakeWork
  <2>1. poll.work \in DOMAIN works /\ UNCHANGED <<visits, github, period>>
    BY <1>2 DEF WakeWork, Reading, outside
  <2>2. CASE works' = works
    BY <2>2, SameWorks
  <2>3. CASE works' # works
    <3>1. Replaceable(poll.work) /\ works' = Replaced(poll.work, "wake")
      BY <1>2, <2>3 DEF WakeWork
    <3> QED
      BY <2>1, <3>1, ReplacedJoins DEF WorksMove
  <2> QED
    BY <2>2, <2>3
<1>3. ASSUME NEW i \in Issues, NEW r \in BOOLEAN, OperatorBuilds(i, r) PROVE WorksMove
  <2>1. Admissible(i, r) /\ works' = AdmittedWorks(i, r, "operator")
        /\ UNCHANGED <<visits, github, period>>
    BY <1>3 DEF OperatorBuilds, outside
  <2>2. PICK w \in Session : /\ works' = Append(works, w) /\ Joins(w) /\ w.issue = i
                             /\ w.by = "operator"
                             /\ w.period = IF Matches(github, i) THEN period[i] ELSE 0
                             /\ w.missed = missed[i]
    BY <2>1, AdmittedJoins
  <2> QED
    BY <2>1, <2>2 DEF WorksMove
<1>4. ASSUME NEW n \in DOMAIN works, OperatorReplaces(n) PROVE WorksMove
  BY <1>4, ReplacedJoins DEF OperatorReplaces, outside, WorksMove
<1>5. ASSUME NEW n \in DOMAIN works, RecordPull(n) \/ FinishWork(n) PROVE WorksMove
  BY <1>5, MarkedWorks
<1>6. CASE \/ ListIssues \/ RefreshCatalog \/ BlockRoute \/ SkipIssue \/ FailIssue
           \/ TouchVisit \/ StartVisit
           \/ ReleaseVisit \/ ClearVisits \/ ListPulls \/ SkipPull \/ NeedWake
           \/ RecordWake \/ ClearWakes \/ Restart \/ UNCHANGED vars
           \/ \E i \in Issues, f \in Moves \ {"operator"} : Change(i, f)
  BY <1>6, SameWorks
     DEF ListIssues, RefreshCatalog, BlockRoute, SkipIssue, FailIssue, TouchVisit, StartVisit, ReleaseVisit,
         ClearVisits, ListPulls, SkipPull, NeedWake, RecordWake, ClearWakes, Restart, Change,
         tables, vars
<1> QED
  BY <1>1, <1>2, <1>3, <1>4, <1>5, <1>6 DEF Next, Poll, Others

LEMMA NextChain ==
  ASSUME Tabled, Reading, Chain, [Next]_vars
  PROVE  Chain' /\ works' \in Seq(Session) /\ DOMAIN works \subseteq DOMAIN works'
<1>1. CASE Kin
  BY <1>1, ChainKin DEF Kin
<1>2. CASE ~Kin
  <2>1. PICK w \in Session : works' = Append(works, w) /\ Joins(w)
    BY <1>2, NextWorks DEF WorksMove
  <2>2. works' \in Seq(Session) /\ DOMAIN works \subseteq DOMAIN works'
    BY <2>1, AppendedAt DEF Tabled
  <2> QED
    BY <2>1, <2>2, ChainAppend DEF Tabled
<1> QED
  BY <1>1, <1>2

-----------------------------------------------------------------------------
(* What a step does to the other rows.                                     *)

LEMMA ThisIssue ==
  ASSUME Reading, poll.pc # "idle", poll.todo # {}
  PROVE  This \in poll.todo /\ This \in Issues
BY FirstIn DEF Reading, This

LEMMA RowTypes ==
  /\ NoRow \in Row /\ \A key \in Nat : Seen(key) \in Row
  /\ \A row \in Row, b \in BOOLEAN : /\ [row EXCEPT !.seen = b] \in Row
                                     /\ [row EXCEPT !.state = "inactive"] \in Row
BY DEF NoRow, Seen, Row

(* Only a failure moves what was missed, and it moves one issue by one.    *)
LEMMA NextMissed ==
  ASSUME Tabled, Reading, [Next]_vars
  PROVE  /\ missed' \in [Issues -> Nat]
         /\ \A i \in Issues : missed'[i] \in {missed[i], missed[i] + 1}
         /\ ~FailIssue /\ ~AdmitIssue => missed' = missed
<1>1. ASSUME NEW kind, NEW i \in Issues, Miss(kind, i)
      PROVE  /\ missed' \in [Issues -> Nat]
             /\ \A j \in Issues : missed'[j] \in {missed[j], missed[j] + 1}
  BY <1>1 DEF Miss, Tabled
<1>2. CASE FailIssue
  <2>1. This \in Issues
    BY <1>2, ThisIssue DEF FailIssue, Turn
  <2> QED
    BY <1>1, <1>2, <2>1 DEF FailIssue
<1>3. CASE AdmitIssue
  <2>1. CASE UNCHANGED missed
    BY <2>1 DEF Tabled
  <2>2. CASE ~UNCHANGED missed
    <3>1. poll.issue \in Issues /\ Miss("reread", poll.issue)
      BY <1>3, <2>2 DEF AdmitIssue, Reading, Fault, failures
    <3> QED
      BY <1>1, <1>3, <3>1
  <2> QED
    BY <2>1, <2>2
<1>4. CASE ~FailIssue /\ ~AdmitIssue
  <2>1. missed' = missed
    <3>1. CASE Poll
      BY <1>4, <3>1 DEF Poll, ListIssues, RefreshCatalog, BlockRoute, SkipIssue, TouchVisit,
         StartVisit, ReleaseVisit, ClearVisits, ListPulls, SkipPull, NeedWake, WakeWork,
         RecordWake, ClearWakes, Fault, failures
    <3>2. CASE Restart \/ Others \/ UNCHANGED vars
      BY <3>2 DEF Restart, Others, Change, OperatorBuilds, OperatorReplaces, RecordPull,
         FinishWork, Fault, failures, vars
    <3> QED
      BY <3>1, <3>2 DEF Next
  <2> QED
    BY <2>1 DEF Tabled
<1> QED
  BY <1>2, <1>3, <1>4

LEMMA NextTabled ==
  ASSUME Tabled, Reading, Chain, [Next]_vars
  PROVE  Tabled'
<1>0. works' \in Seq(Session)
  BY NextChain
<1>m. missed' \in [Issues -> Nat]
  BY NextMissed
<1>1. CASE UNCHANGED <<visits, wakes, period>>
  BY <1>0, <1>m, <1>1 DEF Tabled
<1>2. CASE ListIssues
  BY <1>0, <1>m, <1>2, RowTypes DEF ListIssues, Unseen, outside, Tabled
<1>3. CASE TouchVisit
  <2>1. This \in Issues
    BY <1>3, ThisIssue DEF TouchVisit, Turn
  <2>2. visits' = [visits EXCEPT ![This] = [visits[This] EXCEPT !.seen = TRUE]]
    BY <1>3 DEF TouchVisit
  <2>3. [visits[This] EXCEPT !.seen = TRUE] \in Row
    BY <2>1, RowTypes DEF Tabled
  <2> QED
    BY <1>0, <1>m, <1>3, <2>1, <2>2, <2>3 DEF TouchVisit, outside, Tabled
<1>4. CASE StartVisit
  <2>1. Len(works) + 1 \in Nat
    BY DEF Tabled
  <2> QED
    BY <1>0, <1>m, <1>4, <2>1, RowTypes DEF StartVisit, outside, Tabled
<1>5. CASE ReleaseVisit
  <2>1. visits' \in [Issues -> Row]
    BY <1>5, RowTypes DEF ReleaseVisit, Tabled
  <2> QED
    BY <1>0, <1>m, <1>5, <2>1 DEF ReleaseVisit, outside, Tabled
<1>6. CASE ClearVisits
  BY <1>0, <1>m, <1>6, RowTypes DEF ClearVisits, Cleared, outside, Tabled
<1>7. CASE RecordWake
  <2>1. wakes' \in [Issues -> Row]
    BY <1>7, RowTypes DEF RecordWake, Tabled
  <2> QED
    BY <1>0, <1>m, <1>7, <2>1 DEF RecordWake, outside, Tabled
<1>8. CASE ClearWakes
  BY <1>0, <1>m, <1>8, RowTypes DEF ClearWakes, Cleared, outside, Tabled
<1>9. ASSUME NEW i \in Issues, NEW f, Change(i, f) PROVE Tabled'
  <2>1. period' \in [Issues -> Nat]
    BY <1>9 DEF Change, Tabled
  <2> QED
    BY <1>0, <1>m, <1>9, <2>1 DEF Change, tables, Tabled
<1>10. CASE \/ RefreshCatalog \/ BlockRoute \/ SkipIssue \/ FailIssue \/ AdmitIssue \/ ListPulls \/ SkipPull
            \/ NeedWake \/ WakeWork \/ Restart \/ UNCHANGED vars
            \/ \E i \in Issues, r \in BOOLEAN : OperatorBuilds(i, r)
            \/ \E n \in DOMAIN works : RecordPull(n) \/ FinishWork(n) \/ OperatorReplaces(n)
  BY <1>1, <1>10
     DEF RefreshCatalog, BlockRoute, SkipIssue, FailIssue, AdmitIssue, ListPulls, SkipPull, NeedWake,
         WakeWork, Restart, OperatorBuilds, OperatorReplaces, RecordPull, FinishWork, tables,
         outside, vars
<1> QED
  BY <1>2, <1>3, <1>4, <1>5, <1>6, <1>7, <1>8, <1>9, <1>10 DEF Next, Poll, Others

LEMMA NextReading ==
  ASSUME Tabled, Reading, Chain, [Next]_vars
  PROVE  Reading'
<1>0. DOMAIN works \subseteq DOMAIN works'
  BY NextChain
<1>1. CASE poll' = poll
  BY <1>0, <1>1 DEF Reading
<1>2. CASE Done
  BY <1>2 DEF Done, Idle, Reading
<1>3. ASSUME poll.pc # "idle", NEW pc \in Steps \ {"admit", "release", "replace", "record"}, Go(pc)
      PROVE  Reading'
  BY <1>3 DEF Go, Reading, Steps
<1>4. ASSUME poll.pc # "idle", NextIssue \/ NextPull PROVE Reading'
  BY <1>4 DEF NextIssue, NextPull, Reading, Steps
<1>5. ASSUME poll.pc \in {"issues", "pulls"}, Pass PROVE Reading'
  BY <1>5 DEF Pass, Reading, Steps
<1>6. ASSUME NEW T \in SUBSET Issues, NEW pc \in {"catalog", "pulls"}, poll' = Aim(T, pc)
      PROVE  Reading'
  BY <1>6 DEF Aim, Reading, Steps
<1>7. CASE ListIssues
  BY <1>6, <1>7 DEF ListIssues
<1>8. CASE RefreshCatalog
  BY <1>2, <1>3, <1>8 DEF RefreshCatalog, Steps
<1>9. CASE BlockRoute \/ SkipIssue \/ FailIssue \/ TouchVisit \/ SkipPull
  BY <1>5, <1>9 DEF BlockRoute, SkipIssue, FailIssue, TouchVisit, SkipPull, Turn, PullTurn
<1>10. CASE StartVisit
  <2>1. This \in Issues /\ poll.pc = "issues"
    BY <1>10, ThisIssue DEF StartVisit, Turn
  <2>2. CASE poll' = [poll EXCEPT !.pc = "admit", !.issue = This, !.rebuild = Leaves(This) # {}]
    <3>1. (Leaves(This) # {}) \in BOOLEAN
      OBVIOUS
    <3> QED
      BY <2>1, <2>2, <3>1 DEF Reading, Steps
  <2> QED
    BY <1>5, <1>10, <2>1, <2>2 DEF StartVisit
<1>11. CASE AdmitIssue
  <2>1. CASE NextIssue
    BY <1>4, <1>11, <2>1 DEF AdmitIssue
  <2>2. CASE Go("release")
    BY <1>11, <2>2 DEF AdmitIssue, Go, Reading, Steps
  <2> QED
    BY <1>11, <2>1, <2>2 DEF AdmitIssue
<1>12. CASE ReleaseVisit \/ RecordWake
  BY <1>4, <1>12 DEF ReleaseVisit, RecordWake
<1>13. CASE ClearVisits
  BY <1>3, <1>13 DEF ClearVisits, Steps
<1>14. CASE ListPulls
  BY <1>2, <1>6, <1>14 DEF ListPulls
<1>15. CASE NeedWake
  <2>1. This \in Issues /\ poll.pc = "pulls" /\ Linked(This)
    BY <1>15, ThisIssue DEF NeedWake, PullTurn
  <2>2. WorksOf(This) # {} /\ WorksOf(This) \subseteq DOMAIN works
    BY <2>1 DEF Linked, WorksOf
  <2>3. Len(works) \in Nat /\ DOMAIN works = 1 .. Len(works)
    BY DEF Tabled
  <2>4. Latest(WorksOf(This)) \in DOMAIN works
    BY <2>2, <2>3, LatestIn
  <2>5. PICK pc \in {"record", "replace"} :
            poll' = [poll EXCEPT !.pc = pc, !.issue = This, !.work = Latest(WorksOf(This))]
    BY <1>15 DEF NeedWake
  <2>6. works' = works
    BY <1>15 DEF NeedWake, tables
  <2> QED
    BY <2>1, <2>4, <2>5, <2>6 DEF Reading, Steps
<1>16. CASE WakeWork
  <2>1. CASE Go("record")
    BY <1>16, <2>1 DEF WakeWork, Go, Reading, Steps
  <2>2. CASE NextPull
    BY <1>4, <1>16, <2>2 DEF WakeWork
  <2> QED
    BY <1>16, <2>1, <2>2 DEF WakeWork
<1>17. CASE ClearWakes \/ Restart
  BY <1>2, <1>17 DEF ClearWakes, Restart
<1>18. CASE Others \/ UNCHANGED vars
  BY <1>1, <1>18 DEF Others, Change, OperatorBuilds, OperatorReplaces, RecordPull, FinishWork, vars
<1> QED
  BY <1>7, <1>8, <1>9, <1>10, <1>11, <1>12, <1>13, <1>14, <1>15, <1>16, <1>17, <1>18 DEF Next, Poll

-----------------------------------------------------------------------------
(* The chain.                                                              *)

ChainInv == Tabled /\ Reading /\ Chain

LEMMA ChainInit == Init => ChainInv
<1> SUFFICES ASSUME Init PROVE ChainInv
  OBVIOUS
<1>1. Tabled
  BY RowTypes DEF Init, Tabled
<1>2. Reading
  BY DEF Init, Reading, Idle
<1>3. Chain
  BY DEF Init, Chain, Followed, OneChain
<1> QED
  BY <1>1, <1>2, <1>3 DEF ChainInv

LEMMA ChainStep == ChainInv /\ [Next]_vars => ChainInv'
BY NextTabled, NextReading, NextChain DEF ChainInv

(* Visits, wakes, builds and replacements each look before they admit and  *)
(* admit in another transaction; the Work of an issue stays one chain,     *)
(* with every failure and restart in between.                              *)
THEOREM OneChainCorrect == Spec => []OneChain
<1>1. ChainInv => OneChain
  BY DEF ChainInv, Chain
<1> QED
  BY <1>1, ChainInit, ChainStep, PTL DEF Spec

-----------------------------------------------------------------------------
(* The matching periods.  A period is built once because the visit that    *)
(* built it stays active until the issue has stopped matching: every poll  *)
(* that can clear it lists the issue, and comes to see its visit or counts *)
(* the failure.                                                            *)

(* The period of the issue has been built since the last such failure.     *)
Ran(i) ==
    \E n \in DOMAIN works :
        /\ works[n].by = "visit" /\ works[n].issue = i
        /\ works[n].period = period[i] /\ works[n].missed = missed[i]

Admitting(i) == poll.pc \in {"admit", "release"} /\ poll.issue = i
Sorting == poll.pc \in {"catalog", "issues", "admit", "release"}

Periods ==
    /\ \A n \in DOMAIN works : works[n].period <= period[works[n].issue]
    /\ \A i \in Issues : Matches(github, i) => period[i] # 0

Counted == \A n \in DOMAIN works : works[n].missed <= missed[works[n].issue]

Held(i) ==
    /\ Admitting(i) => visits[i].state = "active" /\ visits[i].seen
    /\ Matches(github, i) /\ Ran(i) =>
        /\ visits[i].state = "active"
        /\ ~Admitting(i)
        /\ Sorting => visits[i].seen \/ i \in poll.todo \cap poll.routed

AllHeld == \A i \in Issues : Held(i)
VisitInv == ChainInv /\ Periods /\ Counted /\ AllHeld /\ OneWorkPerVisit

(* A failure that is counted leaves the period of its issue to be built.   *)
LEMMA MissedRan ==
  ASSUME Tabled, Counted, WorksMove, NEW i \in Issues, missed'[i] = missed[i] + 1
  PROVE  ~Ran(i)'
<1>1. missed[i] \in Nat /\ Len(works) \in Nat /\ DOMAIN works = 1 .. Len(works)
  BY DEF Tabled
<1>2. ASSUME NEW n \in DOMAIN works', works'[n].issue = i PROVE works'[n].missed <= missed[i]
  <2>1. CASE Kin
    BY <1>2, <2>1 DEF Kin, Counted
  <2>2. CASE ~Kin
    <3>1. PICK w \in Session : works' = Append(works, w) /\ w.missed = missed[w.issue]
      BY <2>2 DEF WorksMove
    <3>2. (n \in DOMAIN works /\ works'[n] = works[n]) \/ works'[n] = w
      BY <3>1, AppendedAt DEF Tabled
    <3> QED
      BY <1>1, <1>2, <3>1, <3>2 DEF Counted
  <2> QED
    BY <2>1, <2>2
<1>3. ASSUME NEW n \in DOMAIN works', works'[n].issue = i PROVE works'[n].missed # missed[i] + 1
  <2>1. works'[n].missed \in Nat
    <3>1. works' \in Seq(Session)
      <4>1. CASE Kin
        BY <4>1 DEF Kin
      <4>2. CASE ~Kin
        BY <4>2, AppendedAt DEF WorksMove, Tabled
      <4> QED
        BY <4>1, <4>2
    <3>2. works'[n] \in Session
      BY <3>1
    <3> QED
      BY <3>2 DEF Session
  <2> QED
    BY <1>1, <1>2, <1>3, <2>1
<1> QED
  BY <1>3 DEF Ran

(* Only the poll builds a period.                                          *)
LEMMA RanBefore ==
  ASSUME Tabled, Counted, WorksMove, UNCHANGED period, poll.pc # "admit" \/ poll' = poll,
         NEW i \in Issues, Ran(i)', missed'[i] \in {missed[i], missed[i] + 1}
  PROVE  Ran(i)
<1>0. missed'[i] = missed[i]
  BY MissedRan
<1>1. PICK n \in DOMAIN works' :
          /\ works'[n].by = "visit" /\ works'[n].issue = i
          /\ works'[n].period = period[i] /\ works'[n].missed = missed[i]
  BY <1>0 DEF Ran
<1>2. CASE Kin
  BY <1>1, <1>2 DEF Kin, Ran
<1>3. CASE ~Kin
  <2>1. PICK w \in Session : works' = Append(works, w) /\ w.by # "visit"
    BY <1>3 DEF WorksMove
  <2>2. n \in DOMAIN works /\ works'[n] = works[n]
    BY <1>1, <2>1, AppendedAt DEF Tabled
  <2> QED
    BY <1>1, <2>2 DEF Ran
<1> QED
  BY <1>2, <1>3

(* A step that leaves the visit of an issue alone, and the rest of the     *)
(* poll what it has to see.                                                *)
LEMMA HeldKept ==
  ASSUME NEW i \in Issues, Held(i),
         Matches(github', i) /\ Ran(i)' => Matches(github, i) /\ Ran(i),
         visits'[i] = visits[i],
         Admitting(i)' => Admitting(i),
         Sorting' => /\ Sorting
                     /\ i \in poll.todo \cap poll.routed => i \in poll'.todo \cap poll'.routed
  PROVE  Held(i)'
BY DEF Held

LEMMA NextCounted ==
  ASSUME ChainInv, Counted, [Next]_vars
  PROVE  Counted'
<1>1. /\ WorksMove /\ works \in Seq(Session) /\ works' \in Seq(Session)
      /\ \A i \in Issues : missed[i] \in Nat /\ missed'[i] \in {missed[i], missed[i] + 1}
  BY NextWorks, NextMissed, NextChain DEF ChainInv, Tabled
<1> SUFFICES ASSUME NEW n \in DOMAIN works' PROVE works'[n].missed <= missed'[works'[n].issue]
  BY DEF Counted
<1>2. works'[n].issue \in Issues /\ works'[n].missed \in Nat
  <2>1. works'[n] \in Session
    BY <1>1
  <2> QED
    BY <2>1 DEF Session
<1>3. works'[n].missed <= missed[works'[n].issue]
  <2>1. CASE Kin
    BY <2>1 DEF Kin, Counted
  <2>2. CASE ~Kin
    <3>1. PICK w \in Session : works' = Append(works, w) /\ w.missed = missed[w.issue]
      BY <1>1, <2>2 DEF WorksMove
    <3>2. (n \in DOMAIN works /\ works'[n] = works[n]) \/ works'[n] = w
      BY <1>1, <3>1, AppendedAt
    <3> QED
      BY <1>1, <1>2, <3>1, <3>2 DEF Counted
  <2> QED
    BY <2>1, <2>2
<1> QED
  BY <1>1, <1>2, <1>3

LEMMA NextPeriods ==
  ASSUME ChainInv, Periods, [Next]_vars
  PROVE  Periods'
<1>0. /\ Tabled /\ Tabled' /\ WorksMove
      /\ \A n \in DOMAIN works : works[n] \in Session
      /\ \A i \in Issues : period[i] \in Nat
  <2>1. Tabled /\ Tabled' /\ WorksMove
    BY NextTabled, NextWorks DEF ChainInv
  <2> QED
    BY <2>1 DEF Tabled
<1>1. CASE UNCHANGED <<github, period>>
  <2>1. CASE Kin
    BY <1>1, <2>1 DEF Periods, Kin
  <2>2. CASE ~Kin
    <3>1. PICK w \in Session :
              /\ works' = Append(works, w)
              /\ w.period = IF Matches(github, w.issue) THEN period[w.issue] ELSE 0
      BY <1>0, <2>2 DEF WorksMove
    <3>2. w.issue \in Issues /\ period[w.issue] \in Nat
      BY <1>0 DEF Session
    <3>3. w.period <= period[w.issue]
      BY <3>1, <3>2
    <3>4. \A n \in DOMAIN works' : (n \in DOMAIN works /\ works'[n] = works[n]) \/ works'[n] = w
      <4>1. works \in Seq(Session)
        BY <1>0 DEF Tabled
      <4> QED
        BY <3>1, <4>1, AppendedAt
    <3> QED
      BY <1>1, <3>3, <3>4 DEF Periods
  <2> QED
    BY <2>1, <2>2
<1>2. CASE ~UNCHANGED <<github, period>>
  <2>1. PICK i \in Issues, f \in Moves : Change(i, f)
    BY <1>2 DEF Next, Poll, Others, Restart, ListIssues, RefreshCatalog, BlockRoute, SkipIssue,
       FailIssue, TouchVisit, StartVisit, AdmitIssue, ReleaseVisit, ClearVisits, ListPulls, SkipPull, NeedWake,
       WakeWork, RecordWake, ClearWakes, OperatorBuilds, OperatorReplaces, RecordPull, FinishWork,
       outside, vars
  <2>2. /\ works' = works
        /\ \A j \in Issues : period'[j] =
               IF Matches(github', j) /\ ~Matches(github, j) THEN period[j] + 1 ELSE period[j]
    BY <2>1 DEF Change, tables
  <2>3. \A j \in Issues : period[j] <= period'[j]
    BY <1>0, <2>2
  <2>4. ASSUME NEW n \in DOMAIN works PROVE works'[n].period <= period'[works'[n].issue]
    <3>1. works[n].issue \in Issues /\ works[n].period \in Nat
      BY <1>0 DEF Session
    <3>2. period[works[n].issue] <= period'[works[n].issue] /\ works[n].period <= period[works[n].issue]
      BY <2>3, <3>1 DEF Periods
    <3>3. period'[works[n].issue] \in Nat /\ period[works[n].issue] \in Nat
      BY <1>0, <3>1 DEF Tabled
    <3> QED
      BY <2>2, <3>1, <3>2, <3>3
  <2>5. ASSUME NEW j \in Issues, Matches(github', j) PROVE period'[j] # 0
    <3>1. CASE Matches(github, j)
      BY <2>2, <2>5, <3>1 DEF Periods
    <3>2. CASE ~Matches(github, j)
      BY <1>0, <2>2, <2>5, <3>2
    <3> QED
      BY <3>1, <3>2
  <2> QED
    BY <2>2, <2>4, <2>5 DEF Periods
<1> QED
  BY <1>1, <1>2

LEMMA ChangeHeld ==
  ASSUME ChainInv, Periods, AllHeld, NEW i \in Issues, NEW f, Change(i, f)
  PROVE  AllHeld'
<1> SUFFICES ASSUME NEW j \in Issues PROVE Held(j)'
  BY DEF AllHeld
<1>1. works' = works /\ visits' = visits /\ poll' = poll /\ missed' = missed
  BY DEF Change, tables, failures
<1>2. period'[j] = IF Matches(github', j) /\ ~Matches(github, j) THEN period[j] + 1 ELSE period[j]
  BY DEF Change
<1>3. period[j] \in Nat
  BY DEF ChainInv, Tabled
<1>4. Matches(github', j) /\ Ran(j)' => Matches(github, j) /\ Ran(j)
  <2>1. CASE Matches(github', j) /\ ~Matches(github, j)
    <3>1. ASSUME NEW n \in DOMAIN works, works[n].issue = j PROVE works[n].period # period[j] + 1
      <4>1. works[n].period <= period[j] /\ works[n].period \in Nat
        <5>1. works[n] \in Session
          BY DEF ChainInv, Tabled
        <5> QED
          BY <3>1, <5>1 DEF Periods, Session
      <4> QED
        BY <1>3, <4>1
    <3> QED
      BY <1>1, <1>2, <2>1, <3>1 DEF Ran
  <2>2. CASE ~(Matches(github', j) /\ ~Matches(github, j))
    BY <1>1, <1>2, <2>2 DEF Ran
  <2> QED
    BY <2>1, <2>2
<1> QED
  BY <1>1, <1>4, HeldKept DEF AllHeld, Admitting, Sorting

LEMMA AdmitHeld ==
  ASSUME ChainInv, Counted, AllHeld, AdmitIssue, WorksMove,
         \A i \in Issues : missed'[i] \in {missed[i], missed[i] + 1}
  PROVE  AllHeld'
<1>1. /\ poll.pc = "admit" /\ UNCHANGED <<visits, github, period>>
      /\ poll = [pc |-> poll.pc, todo |-> poll.todo, routed |-> poll.routed,
                 issue |-> poll.issue, rebuild |-> poll.rebuild, work |-> poll.work]
  BY DEF AdmitIssue, outside, ChainInv, Reading
<1> SUFFICES ASSUME NEW i \in Issues PROVE Held(i)'
  BY DEF AllHeld
<1>2. CASE i = poll.issue
  <2>1. visits[i].state = "active" /\ visits[i].seen /\ ~(Matches(github, i) /\ Ran(i))
    BY <1>1, <1>2 DEF AllHeld, Held, Admitting
  <2>2. CASE missed'[i] = missed[i] + 1
    <3>1. ~Ran(i)'
      BY <2>2, MissedRan DEF ChainInv
    <3> QED
      BY <1>1, <2>1, <3>1 DEF Held
  <2>3. CASE missed'[i] = missed[i] /\ works' = works
    <3>1. ~(Matches(github', i) /\ Ran(i)')
      BY <1>1, <2>1, <2>3 DEF Ran
    <3> QED
      BY <1>1, <2>1, <3>1 DEF Held
  <2>4. CASE missed'[i] = missed[i] /\ works' # works
    <3>1. missed[i] \in Nat /\ missed \in [Issues -> Nat]
      BY DEF ChainInv, Tabled
    <3>2. ~Miss("reread", i)
      BY <2>1, <2>4, <3>1 DEF Miss
    <3>3. NextIssue
      BY <1>2, <2>4, <3>2 DEF AdmitIssue
    <3>4. poll'.pc = "issues"
      BY <1>1, <3>3 DEF NextIssue
    <3> QED
      BY <1>1, <2>1, <3>4 DEF Held, Admitting
  <2> QED
    BY <2>2, <2>3, <2>4
<1>3. CASE i # poll.issue
  <2>1. Ran(i)' => Ran(i)
    <3>0. missed'[i] = missed[i] + 1 => ~Ran(i)'
      BY MissedRan DEF ChainInv
    <3> SUFFICES ASSUME NEW n \in DOMAIN works', works'[n].by = "visit", works'[n].issue = i,
                        works'[n].period = period[i], works'[n].missed = missed[i]
                 PROVE  Ran(i)
      BY <1>1, <3>0 DEF Ran
    <3>1. CASE Kin
      BY <3>1 DEF Kin, Ran
    <3>2. CASE ~Kin
      <4>1. PICK w \in Session : works' = Append(works, w) /\ (w.by = "visit" => w.issue = poll.issue)
        BY <3>2 DEF WorksMove
      <4>2. n \in DOMAIN works /\ works'[n] = works[n]
        BY <1>3, <4>1, AppendedAt DEF ChainInv, Tabled
      <4> QED
        BY <4>2 DEF Ran
    <3> QED
      BY <3>1, <3>2
  <2>2. /\ poll'.pc \in {"issues", "release"} /\ poll'.issue = poll.issue
        /\ poll'.routed = poll.routed /\ (i \in poll.todo => i \in poll'.todo)
    <3>1. NextIssue \/ Go("release")
      BY DEF AdmitIssue
    <3> QED
      BY <1>1, <1>3, <3>1 DEF NextIssue, Go
  <2> QED
    BY <1>1, <1>3, <2>1, <2>2, HeldKept DEF AllHeld, Admitting, Sorting
<1> QED
  BY <1>2, <1>3

LEMMA PollHeld ==
  ASSUME ChainInv, Counted, AllHeld, WorksMove, Poll \/ Restart,
         \A j \in Issues : missed'[j] \in {missed[j], missed[j] + 1},
         ~FailIssue /\ ~AdmitIssue => missed' = missed
  PROVE  AllHeld'
<1>0. /\ UNCHANGED <<github, period>> /\ Tabled /\ Reading
      /\ visits \in [Issues -> Row]
      /\ poll.pc # "idle" => poll = [pc |-> poll.pc, todo |-> poll.todo, routed |-> poll.routed,
                                     issue |-> poll.issue, rebuild |-> poll.rebuild,
                                     work |-> poll.work]
  <2>1. UNCHANGED outside
    <3>1. CASE ListIssues \/ RefreshCatalog \/ BlockRoute \/ SkipIssue \/ FailIssue
           \/ TouchVisit \/ StartVisit
      BY <3>1 DEF ListIssues, RefreshCatalog, BlockRoute, SkipIssue, FailIssue, TouchVisit, StartVisit
    <3>2. CASE AdmitIssue \/ ReleaseVisit \/ ClearVisits \/ ListPulls \/ SkipPull \/ NeedWake
      BY <3>2 DEF AdmitIssue, ReleaseVisit, ClearVisits, ListPulls, SkipPull, NeedWake
    <3>3. CASE WakeWork \/ RecordWake \/ ClearWakes \/ Restart
      BY <3>3 DEF WakeWork, RecordWake, ClearWakes, Restart
    <3> QED
      BY <3>1, <3>2, <3>3 DEF Poll
  <2>2. Tabled /\ Reading
    BY DEF ChainInv
  <2> QED
    BY <2>1, <2>2 DEF outside, Tabled, Reading
<1>1. CASE AdmitIssue
  BY <1>1, AdmitHeld
<1> SUFFICES ASSUME ~AdmitIssue, NEW i \in Issues PROVE Held(i)'
  BY <1>1 DEF AllHeld
<1>2. poll.pc # "admit" \/ Restart
  <2>1. CASE ListIssues \/ RefreshCatalog \/ ReleaseVisit \/ ClearVisits \/ ListPulls
    BY <2>1 DEF ListIssues, RefreshCatalog, ReleaseVisit, ClearVisits, ListPulls
  <2>2. CASE BlockRoute \/ SkipIssue \/ FailIssue
           \/ TouchVisit \/ StartVisit
    BY <2>2 DEF BlockRoute, SkipIssue, FailIssue, TouchVisit, StartVisit, Turn
  <2>3. CASE SkipPull \/ NeedWake
    BY <2>3 DEF SkipPull, NeedWake, PullTurn
  <2>4. CASE WakeWork \/ RecordWake \/ ClearWakes
    BY <2>4 DEF WakeWork, RecordWake, ClearWakes
  <2> QED
    BY <2>1, <2>2, <2>3, <2>4 DEF Poll
<1>3. Matches(github', i) /\ Ran(i)' => Matches(github, i) /\ Ran(i)
  <2>1. CASE poll.pc # "admit"
    BY <1>0, <2>1, RanBefore
  <2>2. CASE Restart
    <3>1. works' = works /\ period' = period /\ github' = github /\ missed' = missed
      BY <1>0, <2>2 DEF Restart, Fault, tables
    <3> QED
      BY <3>1 DEF Ran
  <2> QED
    BY <1>2, <2>1, <2>2
<1>4. Held(i)
  BY DEF AllHeld
<1>5. CASE ListIssues
  <2>1. visits'[i] = [visits[i] EXCEPT !.seen = FALSE]
    BY <1>5 DEF ListIssues, Unseen
  <2>2. visits'[i].state = visits[i].state
    BY <1>0, <2>1 DEF Row
  <2>3. poll'.pc = "catalog" /\ poll'.todo = {j \in Issues : github[j].label}
        /\ poll'.routed = {j \in poll'.todo : github[j].route}
    BY <1>5 DEF ListIssues, Aim
  <2> QED
    BY <1>0, <1>3, <1>4, <2>2, <2>3 DEF Held, Admitting, Matches
<1>6. CASE RefreshCatalog
  <2>1. visits' = visits /\ poll.pc = "catalog"
    BY <1>6 DEF RefreshCatalog
  <2>2. CASE Go("issues")
    BY <1>0, <1>3, <1>4, <2>1, <2>2, HeldKept DEF Go, Admitting, Sorting
  <2>3. CASE Done
    BY <1>3, <1>4, <2>1, <2>3, HeldKept DEF Done, Idle, Admitting, Sorting
  <2> QED
    BY <1>6, <2>2, <2>3 DEF RefreshCatalog
<1>7. CASE BlockRoute \/ SkipIssue \/ FailIssue
  <2>1. /\ visits' = visits /\ poll.pc = "issues" /\ Pass /\ This \in Issues
        /\ poll'.pc = "issues" /\ poll'.todo = poll.todo \ {This} /\ poll'.routed = poll.routed
    BY <1>0, <1>7, ThisIssue DEF BlockRoute, SkipIssue, FailIssue, Turn, Pass, tables
  <2>2. CASE i = This /\ Matches(github', i) /\ Ran(i)'
    <3>1. visits[i].state = "active"
      BY <1>3, <1>4, <2>2 DEF Held
    <3>2. ~FailIssue
      <4>1. ASSUME NEW kind, Miss(kind, i) PROVE missed'[i] = missed[i] + 1
        BY <1>0, <3>1, <4>1 DEF Miss, Tabled
      <4> QED
        BY <1>0, <2>2, <4>1, MissedRan DEF FailIssue
    <3>3. This \notin poll.routed
      BY <1>0, <1>7, <2>2, <3>2 DEF BlockRoute, SkipIssue, Matches
    <3>4. visits[i].seen
      BY <1>3, <1>4, <2>1, <2>2, <3>3 DEF Held, Sorting
    <3> QED
      BY <2>1, <3>1, <3>4 DEF Held, Admitting
  <2>3. CASE i = This /\ ~(Matches(github', i) /\ Ran(i)')
    BY <2>1, <2>3 DEF Held, Admitting
  <2>4. CASE i # This
    BY <1>3, <1>4, <2>1, <2>4, HeldKept DEF Admitting, Sorting
  <2> QED
    BY <2>2, <2>3, <2>4
<1>8. CASE TouchVisit
  <2>1. /\ visits' = [visits EXCEPT ![This] = [visits[This] EXCEPT !.seen = TRUE]]
        /\ poll.pc = "issues" /\ Pass
        /\ This \in Issues /\ visits[This].state = "active"
    BY <1>0, <1>8, ThisIssue DEF TouchVisit, Turn
  <2>2. poll'.pc = "issues" /\ poll'.todo = poll.todo \ {This}
        /\ poll'.routed = poll.routed
    BY <1>0, <2>1 DEF Pass
  <2>3. CASE i = This
    <3>1. visits'[i].state = "active" /\ visits'[i].seen
      BY <1>0, <2>1, <2>3 DEF Row
    <3> QED
      BY <2>2, <3>1 DEF Held, Admitting
  <2>4. CASE i # This
    BY <1>0, <1>3, <1>4, <2>1, <2>2, <2>4, HeldKept DEF Admitting, Sorting
  <2> QED
    BY <2>3, <2>4
<1>9. CASE StartVisit
  <2>1. /\ visits' = [visits EXCEPT ![This] = Seen(Len(works) + 1)]
        /\ poll.pc = "issues"
        /\ This \in Issues /\ visits[This].state # "active"
    BY <1>0, <1>9, ThisIssue DEF StartVisit, Turn
  <2>2. CASE i = This
    <3>1. ~(Matches(github', i) /\ Ran(i)')
      BY <1>3, <1>4, <2>1, <2>2 DEF Held
    <3>2. visits'[i].state = "active" /\ visits'[i].seen
      BY <1>0, <2>1, <2>2 DEF Seen
    <3> QED
      BY <3>1, <3>2 DEF Held
  <2>3. CASE i # This
    <3>1. /\ ~Admitting(i)' /\ Sorting
          /\ poll'.routed = poll.routed /\ (i \in poll.todo => i \in poll'.todo)
      <4>1. CASE Pass
        BY <1>0, <2>1, <2>3, <4>1 DEF Pass, Admitting, Sorting
      <4>2. CASE ~Pass
        BY <1>0, <1>9, <2>1, <2>3, <4>2 DEF StartVisit, Admitting, Sorting
      <4> QED
        BY <4>1, <4>2
    <3> QED
      BY <1>0, <1>3, <1>4, <2>1, <2>3, <3>1, HeldKept
  <2> QED
    BY <2>2, <2>3
<1>10. CASE ReleaseVisit
  <2>1. /\ visits' = [visits EXCEPT ![poll.issue] = NoRow] \/ visits' = visits
        /\ poll.pc = "release"
        /\ poll'.pc = "issues" /\ poll'.todo = poll.todo \ {poll.issue}
        /\ poll'.routed = poll.routed
    BY <1>0, <1>10 DEF ReleaseVisit, NextIssue
  <2>2. CASE i = poll.issue
    <3>1. ~(Matches(github', i) /\ Ran(i)')
      BY <1>3, <1>4, <2>1, <2>2 DEF Held, Admitting
    <3> QED
      BY <2>1, <3>1 DEF Held, Admitting
  <2>3. CASE i # poll.issue
    BY <1>0, <1>3, <1>4, <2>1, <2>3, HeldKept DEF Admitting, Sorting
  <2> QED
    BY <2>2, <2>3
<1>11. CASE ClearVisits
  <2>1. /\ poll.pc = "issues" /\ poll.todo = {} /\ poll'.pc = "clear"
        /\ visits'[i] \in {visits[i], IF visits[i].state = "active" /\ ~visits[i].seen
                                      THEN [visits[i] EXCEPT !.state = "inactive"] ELSE visits[i]}
    BY <1>0, <1>11 DEF ClearVisits, Cleared, Go
  <2> QED
    BY <1>3, <1>4, <2>1 DEF Held, Admitting, Sorting
<1>12. CASE ListPulls \/ SkipPull \/ NeedWake \/ WakeWork \/ RecordWake \/ ClearWakes \/ Restart
  <2>1. visits' = visits
    BY <1>12 DEF ListPulls, SkipPull, NeedWake, WakeWork, RecordWake, ClearWakes, Restart, tables
  <2>2. poll'.pc \in {"pulls", "replace", "record", "idle"}
    <3>1. CASE ListPulls
      BY <3>1 DEF ListPulls, Aim, Done, Idle
    <3>2. CASE SkipPull
      BY <1>0, <3>2 DEF SkipPull, PullTurn, Pass
    <3>3. CASE NeedWake
      BY <1>0, <3>3 DEF NeedWake, PullTurn
    <3>4. CASE WakeWork
      <4>1. poll.pc = "replace" /\ (Go("record") \/ NextPull)
        BY <3>4 DEF WakeWork
      <4> QED
        BY <1>0, <4>1 DEF Go, NextPull
    <3>5. CASE RecordWake
      BY <1>0, <3>5 DEF RecordWake, NextPull
    <3>6. CASE ClearWakes \/ Restart
      BY <3>6 DEF ClearWakes, Restart, Done, Idle
    <3> QED
      BY <1>12, <3>1, <3>2, <3>3, <3>4, <3>5, <3>6
  <2> QED
    BY <1>3, <1>4, <2>1, <2>2, HeldKept DEF Admitting, Sorting
<1> QED
  BY <1>5, <1>6, <1>7, <1>8, <1>9, <1>10, <1>11, <1>12 DEF Poll

LEMMA NextHeld ==
  ASSUME ChainInv, Periods, Counted, AllHeld, [Next]_vars
  PROVE  AllHeld'
<1>1. /\ WorksMove
      /\ \A i \in Issues : missed'[i] \in {missed[i], missed[i] + 1}
      /\ ~FailIssue /\ ~AdmitIssue => missed' = missed
  BY NextWorks, NextMissed DEF ChainInv
<1>2. CASE Poll \/ Restart
  BY <1>1, <1>2, PollHeld
<1>3. ASSUME NEW i \in Issues, NEW f \in Moves, Change(i, f) PROVE AllHeld'
  BY <1>3, ChangeHeld
<1>4. CASE \/ UNCHANGED vars
           \/ \E i \in Issues, r \in BOOLEAN : OperatorBuilds(i, r)
           \/ \E n \in DOMAIN works : RecordPull(n) \/ FinishWork(n) \/ OperatorReplaces(n)
  <2>1. UNCHANGED <<visits, github, period, poll>>
    BY <1>4 DEF vars, OperatorBuilds, OperatorReplaces, RecordPull, FinishWork, outside
  <2> SUFFICES ASSUME NEW i \in Issues PROVE Held(i)'
    BY DEF AllHeld
  <2>2. Ran(i)' => Ran(i)
    BY <1>1, <2>1, RanBefore DEF ChainInv
  <2> QED
    BY <2>1, <2>2, HeldKept DEF AllHeld, Admitting, Sorting
<1> QED
  BY <1>2, <1>3, <1>4 DEF Next, Others

LEMMA NextVisit ==
  ASSUME ChainInv, Periods, AllHeld, OneWorkPerVisit, [Next]_vars
  PROVE  OneWorkPerVisit'
<1>1. CASE Kin
  BY <1>1 DEF Kin, OneWorkPerVisit
<1>2. CASE ~Kin
  <2>1. PICK w \in Session :
            /\ works' = Append(works, w)
            /\ w.by = "visit" => poll.pc = "admit" /\ w.issue = poll.issue
            /\ w.period = IF Matches(github, w.issue) THEN period[w.issue] ELSE 0
            /\ w.missed = missed[w.issue]
    BY <1>2, NextWorks DEF ChainInv, WorksMove
  <2>2. w.issue \in Issues
    BY DEF Session
  <2>3. \A n \in DOMAIN works :
            works[n].by = "visit" /\ w.by = "visit" /\ works[n].issue = w.issue =>
                works[n].period # w.period \/ works[n].missed # w.missed \/ w.period = 0
    BY <2>1, <2>2 DEF AllHeld, Held, Admitting, Ran
  <2>4. \A n \in DOMAIN works' : \/ n \in DOMAIN works /\ works'[n] = works[n]
                                 \/ n = Len(works) + 1 /\ works'[n] = w
    BY <2>1, AppendedAt DEF ChainInv, Tabled
  <2> QED
    BY <2>3, <2>4 DEF OneWorkPerVisit
<1> QED
  BY <1>1, <1>2

LEMMA VisitInit == Init => VisitInv
<1> SUFFICES ASSUME Init PROVE VisitInv
  OBVIOUS
<1>1. Periods /\ Counted /\ AllHeld /\ OneWorkPerVisit
  BY DEF Init, Periods, Counted, AllHeld, Held, Ran, Admitting, OneWorkPerVisit, Matches, Idle
<1> QED
  BY <1>1, ChainInit DEF VisitInv

LEMMA VisitStep == VisitInv /\ [Next]_vars => VisitInv'
BY ChainStep, NextPeriods, NextCounted, NextHeld, NextVisit DEF VisitInv

(* A continuous matching period is built at most once, whatever labels,    *)
(* builds, wakes, failed calls and restarts come between, and once more    *)
(* for each failure that leaves its visit behind: a reference, a project   *)
(* status or a visit that cannot be read or written, after which the poll  *)
(* clears the visit (github_intake.go:201-206, 224-239, 281), and a Run    *)
(* that cannot be read back after its admission, after which it releases   *)
(* it (260).  No other failure costs a second Work.                        *)
THEOREM OneWorkPerVisitCorrect == Spec => []OneWorkPerVisit
<1>1. VisitInv => OneWorkPerVisit
  BY DEF VisitInv
<1> QED
  BY <1>1, VisitInit, VisitStep, PTL DEF Spec
=============================================================================
