--------------------------- MODULE RoutingProofs ---------------------------
(***************************************************************************)
(* Proofs that the route check and the claim query agree, and that what is *)
(* queued on a worker fits in its cache, for every number of workers,      *)
(* repositories and sessions, as long as workers keep their checkouts and  *)
(* no clone outlives its attempt's lease.                                  *)
(***************************************************************************)
EXTENDS Routing, FiniteSetTheorems, WellFoundedInduction, TLAPS

-----------------------------------------------------------------------------
(* The inductive invariant.  It is stated of any table and any sessions,   *)
(* because a claim passes through several of both in one transaction.      *)

(* A static row is a configured checkout, and advertised; what a dynamic   *)
(* row advertises its worker accepts.                                      *)
RowsAgree(rows) ==
    \A w \in Workers, r \in Repositories :
       /\ rows[w][r].kind = "static" <=> <<w, r>> \in checkouts
       /\ rows[w][r].kind = "static" => rows[w][r].advertised
       /\ rows[w][r].kind = "none" => ~rows[w][r].advertised
       /\ rows[w][r].kind = "dynamic" /\ rows[w][r].advertised => worker[w].accepts

Executes(sessions, s) == sessions[s].state \in {"queued", "active"}

(* What executes has a row, which is only hidden while its worker accepts  *)
(* no managed repository.                                                  *)
Placed(rows, sessions) ==
    \A s \in Sessions :
       Executes(sessions, s) =>
          /\ sessions[s].worker \in Workers /\ sessions[s].repository \in Repositories
          /\ LET entry == rows[sessions[s].worker][sessions[s].repository]
             IN  /\ entry.kind # "none"
                 /\ entry.advertised \/ ~worker[sessions[s].worker].accepts

(* The repositories that have or may claim a place in a cache.             *)
Taken(rows, sessions, w) ==
    clones[w] \cup {r \in Repositories : /\ rows[w][r].kind = "dynamic"
                                         /\ rows[w][r].advertised \/ Executing(sessions, w, r)}

(* The server counts every clone of a worker that may still be given one.  *)
Counted(rows) ==
    \A w \in Workers : /\ worker[w].cached \subseteq clones[w]
                       /\ worker[w].accepts => clones[w] \subseteq worker[w].cached \cup Reserved(rows, w)

Fits(rows, sessions) == \A w \in Workers : Cardinality(Taken(rows, sessions, w)) <= MaxCache

Named(sessions) ==
    \A s \in Sessions : sessions[s].state # "new" => sessions[s].repository \in Repositories

Good(rows, sessions) ==
    /\ rows \in [Workers -> [Repositories -> Rows]]
    /\ sessions \in [Sessions -> Works]
    /\ RowsAgree(rows) /\ Placed(rows, sessions) /\ Counted(rows) /\ Fits(rows, sessions)
    /\ Named(sessions)

IInv == TypeOK /\ cloning = {} /\ Good(row, session)

-----------------------------------------------------------------------------
(* Sets of natural numbers, and the assumptions in the form the steps use. *)

LEMMA LeastElement ==
  ASSUME NEW S \in SUBSET Nat, S # {}
  PROVE  \E n \in S : \A m \in S : n <= m
<1>1. \E n \in S : \A m \in S : <<m, n>> \notin OpToRel(<, Nat)
  BY NatLessThanWellFounded, WFMin, Zenon
<1>2. OpToRel(<, Nat) = {p \in Nat \X Nat : p[1] < p[2]}
  BY Zenon DEF OpToRel
<1>3. PICK n \in S : \A m \in S : <<m, n>> \notin OpToRel(<, Nat)
  BY <1>1
<1>4. ASSUME NEW m \in S
      PROVE  n <= m
  <2>1. m \in Nat /\ n \in Nat /\ <<m, n>> \in Nat \X Nat
    OBVIOUS
  <2>2. ~(m < n)
    BY <2>1, <1>2, <1>3
  <2>3. QED
    BY <2>1, <2>2
<1>5. QED
  BY <1>4

LEMMA TakenFinite ==
  ASSUME NEW rows, NEW sessions, NEW w \in Workers, clones \in [Workers -> SUBSET Repositories]
  PROVE  Taken(rows, sessions, w) \subseteq Repositories /\ IsFiniteSet(Taken(rows, sessions, w))
<1>1. Taken(rows, sessions, w) \subseteq Repositories
  BY DEF Taken
<1>2. QED
  BY <1>1, FS_Subset, RepositoriesAssumption

LEMMA SmallerFits ==
  ASSUME NEW S, NEW T, IsFiniteSet(T), S \subseteq T, Cardinality(T) <= MaxCache
  PROVE  Cardinality(S) <= MaxCache
<1>1. Cardinality(S) <= Cardinality(T) /\ IsFiniteSet(S)
  BY FS_Subset
<1>2. Cardinality(S) \in Nat /\ Cardinality(T) \in Nat /\ MaxCache \in Nat
  BY <1>1, FS_CardinalityType, BoundAssumption
<1>3. QED
  BY <1>1, <1>2

-----------------------------------------------------------------------------
(* What Good gives, and what keeps it.                                     *)

(* A queued session whose worker is accepted is advertised there.          *)
LEMMA AcceptedIsAdvertised ==
  ASSUME NEW rows, NEW sessions, Good(rows, sessions), NEW s \in Sessions,
         Executes(sessions, s), Accepts(rows, sessions[s].worker, sessions[s].repository)
  PROVE  rows[sessions[s].worker][sessions[s].repository].advertised
BY DEF Good, Placed, Accepts

(* Sessions that execute no more than before keep it.                      *)
LEMMA LessIsGood ==
  ASSUME NEW rows, NEW sessions, NEW fewer, Good(rows, sessions), fewer \in [Sessions -> Works],
         Named(fewer), clones \in [Workers -> SUBSET Repositories],
         \A s \in Sessions : Executes(fewer, s) =>
            /\ Executes(sessions, s)
            /\ fewer[s].worker = sessions[s].worker /\ fewer[s].repository = sessions[s].repository
  PROVE  Good(rows, fewer)
<1>1. Placed(rows, fewer)
  BY DEF Good, Placed
<1>2. ASSUME NEW w \in Workers
      PROVE  Cardinality(Taken(rows, fewer, w)) <= MaxCache
  <2>1. Taken(rows, fewer, w) \subseteq Taken(rows, sessions, w)
    BY DEF Taken, Executing, Executes
  <2>2. QED
    BY <2>1, TakenFinite, SmallerFits DEF Good, Fits
<1>3. QED
  BY <1>1, <1>2 DEF Good, Fits

(* So does a session that is queued on a worker that was accepted for it,  *)
(* with the rows the choice leaves.                                        *)
LEMMA ChoiceIsGood ==
  ASSUME NEW rows, NEW sessions, NEW after, Good(rows, sessions), NEW s \in Sessions,
         NEW w \in Workers, NEW r \in Repositories, Accepts(rows, w, r),
         after \in [Sessions -> Works],
         \A t \in Sessions \ {s} : after[t] = sessions[t],
         after[s] = [state |-> "queued", repository |-> r, worker |-> w],
         clones \in [Workers -> SUBSET Repositories],
         worker \in [Workers -> [up : BOOLEAN, accepts : BOOLEAN, cached : SUBSET Repositories]]
  PROVE  Good(Chosen(rows, {<<w, r>>}), after)
<1> DEFINE new == Chosen(rows, {<<w, r>>})
<1>1. /\ new \in [Workers -> [Repositories -> Rows]]
      /\ \A v \in Workers, q \in Repositories :
            new[v][q] = IF v = w /\ q = r /\ ~rows[v][q].advertised THEN Place ELSE rows[v][q]
  BY DEF Good, Chosen, Rows, Place
<1> HIDE DEF new
<1>2. ~rows[w][r].advertised => worker[w].accepts /\ HasRoom(rows, w, r)
  BY DEF Accepts
<1>3. rows[w][r] \in Rows /\ new[w][r] \in Rows
  BY <1>1 DEF Good
<1>4. RowsAgree(new)
  <2>1. ASSUME NEW v \in Workers, NEW q \in Repositories
        PROVE  /\ new[v][q].kind = "static" <=> <<v, q>> \in checkouts
               /\ new[v][q].kind = "static" => new[v][q].advertised
               /\ new[v][q].kind = "none" => ~new[v][q].advertised
               /\ new[v][q].kind = "dynamic" /\ new[v][q].advertised => worker[v].accepts
    <3>1. CASE new[v][q] = rows[v][q]
      BY <3>1 DEF Good, RowsAgree
    <3>2. CASE v = w /\ q = r /\ ~rows[v][q].advertised
      <4>1. new[v][q].kind = "dynamic" /\ new[v][q].advertised
        BY <3>2, <1>1 DEF Place
      <4>2. <<v, q>> \notin checkouts
        BY <3>2 DEF Good, RowsAgree
      <4>3. QED
        BY <4>1, <4>2, <3>2, <1>2
    <3>3. QED
      BY <3>1, <3>2, <1>1
  <2>2. QED
    BY <2>1 DEF RowsAgree
<1>5. Placed(new, after)
  <2>1. ASSUME NEW t \in Sessions, Executes(after, t)
        PROVE  /\ after[t].worker \in Workers /\ after[t].repository \in Repositories
               /\ new[after[t].worker][after[t].repository].kind # "none"
               /\ \/ new[after[t].worker][after[t].repository].advertised
                  \/ ~worker[after[t].worker].accepts
    <3>1. CASE t = s
      <4>1. new[w][r].advertised
        <5>1. CASE rows[w][r].advertised
          BY <5>1, <1>1
        <5>2. CASE ~rows[w][r].advertised
          BY <5>2, <1>1 DEF Place
        <5>3. QED
          BY <5>1, <5>2
      <4>2. new[w][r].kind # "none"
        BY <4>1, <1>4 DEF RowsAgree
      <4>3. after[t].worker = w /\ after[t].repository = r
        BY <3>1
      <4>4. QED
        BY <4>1, <4>2, <4>3
    <3>2. CASE t # s
      <4>1. after[t] = sessions[t] /\ Executes(sessions, t)
        BY <3>2, <2>1 DEF Executes
      <4> DEFINE v == sessions[t].worker
                 q == sessions[t].repository
      <4>2. /\ v \in Workers /\ q \in Repositories /\ rows[v][q].kind # "none"
            /\ rows[v][q].advertised \/ ~worker[v].accepts
        BY <4>1 DEF Good, Placed
      <4>3. CASE new[v][q] = rows[v][q]
        BY <4>1, <4>2, <4>3
      <4>4. CASE new[v][q] = Place
        <5>1. new[v][q].kind # "none" /\ new[v][q].advertised
          BY <4>4 DEF Place
        <5>2. QED
          BY <4>1, <4>2, <5>1
      <4>5. QED
        BY <4>2, <4>3, <4>4, <1>1
    <3>3. QED
      BY <3>1, <3>2
  <2>2. QED
    BY <2>1 DEF Placed
<1>6. \A v \in Workers : Reserved(rows, v) \subseteq Reserved(new, v)
  BY <1>1 DEF Reserved
<1>7. Counted(new)
  BY <1>6 DEF Good, Counted
<1>8. ASSUME NEW v \in Workers
      PROVE  Cardinality(Taken(new, after, v)) <= MaxCache
  <2>1. CASE Taken(new, after, v) \subseteq Taken(rows, sessions, v)
    BY <2>1, TakenFinite, SmallerFits DEF Good, Fits
  <2>2. CASE ~(Taken(new, after, v) \subseteq Taken(rows, sessions, v))
    <3>1. PICK q \in Repositories : q \in Taken(new, after, v) /\ q \notin Taken(rows, sessions, v)
      BY <2>2, TakenFinite
    <3>2. v = w /\ q = r
      <4>1. CASE new[v][q] = rows[v][q]
        <5>1. rows[v][q].kind = "dynamic" /\ Executing(after, v, q) /\ ~Executing(sessions, v, q)
          BY <4>1, <3>1 DEF Taken
        <5>2. PICK t \in Sessions : after[t].repository = q /\ after[t].worker = v
                                    /\ after[t].state \in {"queued", "active"}
          BY <5>1 DEF Executing
        <5>3. t = s
          BY <5>1, <5>2 DEF Executing
        <5>4. QED
          BY <5>2, <5>3
      <4>2. CASE new[v][q] # rows[v][q]
        BY <4>2, <1>1
      <4>3. QED
        BY <4>1, <4>2
    <3>3. ~rows[w][r].advertised
      BY <3>1, <3>2, <1>1 DEF Taken
    <3>4. worker[w].accepts /\ HasRoom(rows, w, r)
      BY <1>2, <3>3
    <3>5. r \notin worker[w].cached
      BY <3>1, <3>2 DEF Good, Counted, Taken
    <3>6. Cardinality(worker[w].cached \cup Reserved(rows, w)) < MaxCache
      BY <3>4, <3>5 DEF HasRoom
    <3>7. Taken(rows, sessions, w) \subseteq worker[w].cached \cup Reserved(rows, w)
      <4>1. ASSUME NEW p \in Repositories, rows[w][p].kind = "dynamic",
                   rows[w][p].advertised \/ Executing(sessions, w, p)
            PROVE  p \in Reserved(rows, w)
        <5>1. rows[w][p].advertised
          BY <4>1, <3>4 DEF Good, Placed, Executing, Executes
        <5>2. rows[w][p] \in Rows
          BY DEF Good
        <5>3. rows[w][p] = Place
          BY <5>1, <5>2, <4>1 DEF Rows, Place
        <5>4. QED
          BY <5>3 DEF Reserved
      <4>2. clones[w] \subseteq worker[w].cached \cup Reserved(rows, w)
        BY <3>4 DEF Good, Counted
      <4>3. QED
        BY <4>1, <4>2 DEF Taken
    <3>8. Taken(new, after, w) \subseteq Taken(rows, sessions, w) \cup {r}
      <4>1. ASSUME NEW p \in Repositories, p # r, p \in Taken(new, after, w)
            PROVE  p \in Taken(rows, sessions, w)
        <5>1. new[w][p] = rows[w][p]
          BY <1>1, <4>1
        <5>2. Executing(after, w, p) => Executing(sessions, w, p)
          BY <4>1 DEF Executing
        <5>3. QED
          BY <5>1, <5>2, <4>1 DEF Taken
      <4>2. QED
        BY <4>1, TakenFinite
    <3> DEFINE counted == worker[w].cached \cup Reserved(rows, w)
    <3>9. counted \subseteq Repositories /\ IsFiniteSet(counted)
      <4>1. counted \subseteq Repositories
        BY DEF Reserved
      <4>2. QED
        BY <4>1, FS_Subset, RepositoriesAssumption
    <3>10. IsFiniteSet(counted \cup {r}) /\ Cardinality(counted \cup {r}) <= MaxCache
      <4>1. /\ IsFiniteSet(counted \cup {r})
            /\ \/ Cardinality(counted \cup {r}) = Cardinality(counted)
               \/ Cardinality(counted \cup {r}) = Cardinality(counted) + 1
        BY <3>9, FS_AddElement
      <4>2. Cardinality(counted) \in Nat /\ MaxCache \in Nat
        BY <3>9, FS_CardinalityType, BoundAssumption
      <4>3. QED
        BY <4>1, <4>2, <3>6
    <3>11. Taken(new, after, w) \subseteq counted \cup {r}
      BY <3>7, <3>8
    <3>12. QED
      BY <3>2, <3>10, <3>11, SmallerFits
  <2>3. QED
    BY <2>1, <2>2
<1>9. Named(after)
  BY DEF Good, Named
<1>10. QED
  BY <1>1, <1>4, <1>5, <1>7, <1>8, <1>9 DEF Good, Fits, new

-----------------------------------------------------------------------------
(* A claim.                                                                *)

LEMMA ChosenIsSame ==
  ASSUME NEW rows \in [Workers -> [Repositories -> Rows]], NEW pairs,
         \A w \in Workers, r \in Repositories : <<w, r>> \in pairs => rows[w][r].advertised
  PROVE  Chosen(rows, pairs) = rows
BY DEF Chosen

(* The scan of a claim reserves nothing for a session that stays: had it   *)
(* to, the first such session would have been accepted with no row, which  *)
(* Good rules out.                                                         *)
LEMMA ScanKeepsRows ==
  ASSUME NEW rows, NEW sessions, NEW w, Good(rows, sessions), NEW scan \in Scans(w, rows, sessions),
         NEW s
  PROVE  Before(rows, sessions, scan.stay, s) = rows
<1> DEFINE others == Others(w, sessions)
           stay == scan.stay
           shown(t) == rows[sessions[t].worker][sessions[t].repository].advertised
           hidden == {t \in stay : ~shown(t)}
<1>1. /\ stay \in SUBSET others /\ others \subseteq Sessions
      /\ \A t \in stay : Stays(rows, sessions, stay, t)
  BY DEF Scans, Others
<1>2. \A t \in stay : /\ t \in Sessions /\ Executes(sessions, t)
                      /\ sessions[t].worker \in Workers /\ sessions[t].repository \in Repositories
  BY <1>1 DEF Good, Placed, Executes, Others
<1>3. ASSUME NEW t, \A u \in stay : u < t => shown(u)
      PROVE  Before(rows, sessions, stay, t) = rows
  <2>1. rows \in [Workers -> [Repositories -> Rows]]
    BY DEF Good
  <2> DEFINE pairs == {<<sessions[u].worker, sessions[u].repository>> : u \in {v \in stay : v < t}}
  <2>2. \A v \in Workers, r \in Repositories : <<v, r>> \in pairs => rows[v][r].advertised
    BY <1>3
  <2>3. QED
    BY <2>1, <2>2, ChosenIsSame DEF Before
<1>4. hidden = {}
  <2>1. SUFFICES ASSUME hidden # {} PROVE FALSE
    OBVIOUS
  <2>2. hidden \in SUBSET Nat
    BY <1>2, BoundAssumption DEF Sessions
  <2>3. PICK t \in hidden : \A u \in hidden : t <= u
    BY <2>1, <2>2, LeastElement
  <2>4. \A u \in stay : u < t => shown(u)
    <3>1. \A u \in stay : u \in Nat
      BY <1>2, BoundAssumption DEF Sessions
    <3>2. QED
      BY <2>2, <2>3, <3>1
  <2>5. Before(rows, sessions, stay, t) = rows
    BY <1>3, <2>4
  <2>6. Accepts(rows, sessions[t].worker, sessions[t].repository)
    BY <1>1, <2>5 DEF Stays
  <2>7. shown(t)
    BY <1>2, <2>6, AcceptedIsAdvertised
  <2>8. QED
    BY <2>7
<1>5. QED
  BY <1>3, <1>4

LEMMA QueuedIsGood ==
  ASSUME TypeOK, NEW rows, NEW old, Good(rows, old), NEW sessions \in [Sessions -> Works],
         NEW s \in Sessions, NEW w \in Workers, \A t \in Sessions \ {s} : sessions[t] = old[t],
         sessions[s].repository \in Repositories, Accepts(rows, w, sessions[s].repository)
  PROVE  Good(Chosen(rows, {<<w, sessions[s].repository>>}), Queued(sessions, s, w))
<1> DEFINE after == Queued(sessions, s, w)
           r == sessions[s].repository
<1>1. /\ after \in [Sessions -> Works]
      /\ \A t \in Sessions \ {s} : after[t] = old[t]
      /\ after[s] = [state |-> "queued", repository |-> r, worker |-> w]
  BY DEF Queued, Works, States
<1>2. /\ clones \in [Workers -> SUBSET Repositories]
      /\ worker \in [Workers -> [up : BOOLEAN, accepts : BOOLEAN, cached : SUBSET Repositories]]
  BY DEF TypeOK
<1>3. r \in Repositories /\ Accepts(rows, w, r)
  OBVIOUS
<1> HIDE DEF after, r
<1>4. Good(Chosen(rows, {<<w, r>>}), after)
  BY <1>1, <1>2, <1>3, ChoiceIsGood
<1>5. QED
  BY <1>4 DEF after, r

LEMMA MaterializedIsGood ==
  ASSUME TypeOK, Good(row, session), NEW w \in Workers, NEW start \in Materialized(w)
  PROVE  Good(start.rows, start.sessions)
<1>1. CASE start = [rows |-> row, sessions |-> session]
  BY <1>1
<1>2. CASE \E s \in Sessions :
             /\ session[s].state = "blocked" /\ Accepts(row, w, session[s].repository)
             /\ start = [rows |-> Chosen(row, {<<w, session[s].repository>>}),
                         sessions |-> Queued(session, s, w)]
  <2>1. PICK s \in Sessions :
             /\ session[s].state = "blocked" /\ Accepts(row, w, session[s].repository)
             /\ start = [rows |-> Chosen(row, {<<w, session[s].repository>>}),
                         sessions |-> Queued(session, s, w)]
    BY <1>2
  <2>2. session[s].repository \in Repositories
    BY <2>1 DEF Good, Named
  <2>3. session \in [Sessions -> Works]
    BY DEF TypeOK
  <2>4. Good(Chosen(row, {<<w, session[s].repository>>}), Queued(session, s, w))
    BY <2>1, <2>2, <2>3, QueuedIsGood
  <2>5. QED
    BY <2>1, <2>4
<1>3. QED
  BY <1>1, <1>2 DEF Materialized

LEMMA ReroutedIsGood ==
  ASSUME TypeOK, NEW rows, NEW sessions, Good(rows, sessions), NEW w \in Workers,
         NEW scan \in Scans(w, rows, sessions)
  PROVE  Good(Rerouted(w, rows, sessions, scan).rows, Rerouted(w, rows, sessions, scan).sessions)
<1>1. Before(rows, sessions, scan.stay, scan.end) = rows
  BY ScanKeepsRows
<1>2. CASE scan.end \in Sessions
  <2> DEFINE s == scan.end
  <2>1. s \in Others(w, sessions)
    BY <1>2, BoundAssumption DEF Scans, Sessions
  <2>2. Accepts(rows, w, sessions[s].repository)
    BY <2>1, <1>1 DEF Scans, Moves
  <2>3. sessions[s].repository \in Repositories /\ sessions \in [Sessions -> Works]
    BY <2>1 DEF Good, Named, Others
  <2>4. Good(Chosen(rows, {<<w, sessions[s].repository>>}), Queued(sessions, s, w))
    BY <1>2, <2>2, <2>3, QueuedIsGood
  <2>5. QED
    BY <1>1, <1>2, <2>4 DEF Rerouted
<1>3. CASE scan.end \notin Sessions
  BY <1>1, <1>3 DEF Rerouted
<1>4. QED
  BY <1>2, <1>3

LEMMA ClaimIsGood ==
  ASSUME IInv, NEW w \in Workers, Claim(w)
  PROVE  Good(row', session')
<1>0. PICK start \in Materialized(w) : \E scan \in Scans(w, start.rows, start.sessions) :
        LET after == Rerouted(w, start.rows, start.sessions, scan)
            found == Found(w, after.rows, after.sessions)
        IN  /\ row' = after.rows
            /\ \/ found = {} /\ session' = after.sessions
               \/ \E s \in found : session' = [after.sessions EXCEPT ![s].state = "active"]
  BY DEF Claim
<1>1. PICK scan \in Scans(w, start.rows, start.sessions) :
        LET after == Rerouted(w, start.rows, start.sessions, scan)
            found == Found(w, after.rows, after.sessions)
        IN  /\ row' = after.rows
            /\ \/ found = {} /\ session' = after.sessions
               \/ \E s \in found : session' = [after.sessions EXCEPT ![s].state = "active"]
  BY <1>0
<1> DEFINE after == Rerouted(w, start.rows, start.sessions, scan)
<1>2. Good(after.rows, after.sessions)
  BY MaterializedIsGood, ReroutedIsGood DEF IInv
<1> HIDE DEF after
<1>3. CASE session' = after.sessions
  BY <1>1, <1>2, <1>3 DEF after
<1>4. CASE \E s \in Found(w, after.rows, after.sessions) :
             session' = [after.sessions EXCEPT ![s].state = "active"]
  <2>1. PICK s \in Found(w, after.rows, after.sessions) :
             session' = [after.sessions EXCEPT ![s].state = "active"]
    BY <1>4
  <2>2. s \in Sessions /\ after.sessions[s].state = "queued" /\ after.sessions \in [Sessions -> Works]
    BY <2>1, <1>2 DEF Found, Good
  <2>3. /\ session' \in [Sessions -> Works]
        /\ \A t \in Sessions : /\ session'[t].worker = after.sessions[t].worker
                               /\ session'[t].repository = after.sessions[t].repository
                               /\ t # s => session'[t] = after.sessions[t]
    BY <2>1, <2>2 DEF Works, States
  <2>4. \A t \in Sessions : Executes(session', t) => Executes(after.sessions, t)
    BY <2>2, <2>3 DEF Executes
  <2>5. Named(session')
    <3>1. ASSUME NEW t \in Sessions, session'[t].state # "new"
          PROVE  session'[t].repository \in Repositories
      BY <3>1, <2>2, <2>3, <1>2 DEF Good, Named
    <3>2. QED
      BY <3>1 DEF Named
  <2>6. Good(after.rows, session')
    BY <1>2, <2>3, <2>4, <2>5, LessIsGood DEF IInv, TypeOK
  <2>7. QED
    BY <1>1, <2>6 DEF after
<1>5. QED
  BY <1>1, <1>3, <1>4 DEF after

-----------------------------------------------------------------------------
(* The other steps.                                                        *)

(* A step that leaves workers, checkouts and clones alone keeps Good of    *)
(* the next rows and sessions, which is Good in the next state.            *)
LEMMA GoodNext ==
  ASSUME Good(row', session'), UNCHANGED <<worker, checkouts, clones>>
  PROVE  Good(row, session)'
BY DEF Good, RowsAgree, Placed, Executes, Counted, Reserved, Fits, Taken, Executing, Named

LEMMA QueueIsGood ==
  ASSUME IInv, NEW s \in Sessions, NEW sessions \in [Sessions -> Works], ~Executes(session, s),
         \A t \in Sessions \ {s} : sessions[t] = session[t],
         sessions[s].repository \in Repositories, Queue(s, sessions)
  PROVE  Good(row', session')
<1>1. CASE \E w \in Workers :
             /\ Accepts(row, w, sessions[s].repository)
             /\ row' = Chosen(row, {<<w, sessions[s].repository>>})
             /\ session' = Queued(sessions, s, w)
  BY <1>1, QueuedIsGood DEF IInv
<1>2. CASE /\ session' = [sessions EXCEPT ![s].state = "blocked", ![s].worker = None]
           /\ UNCHANGED row
  <2>1. /\ session' \in [Sessions -> Works]
        /\ \A t \in Sessions \ {s} : session'[t] = session[t]
        /\ session'[s].state = "blocked" /\ session'[s].repository = sessions[s].repository
    BY <1>2 DEF Works, States
  <2>2. Named(session')
    BY <2>1 DEF IInv, Good, Named
  <2>3. \A t \in Sessions : Executes(session', t) => t # s
    BY <2>1 DEF Executes
  <2>4. \A t \in Sessions : Executes(session', t) => /\ Executes(session, t)
                                                     /\ session'[t].worker = session[t].worker
                                                     /\ session'[t].repository = session[t].repository
    BY <2>1, <2>3 DEF Executes
  <2>5. Good(row, session')
    BY <2>1, <2>2, <2>4, LessIsGood DEF IInv, TypeOK
  <2>6. QED
    BY <1>2, <2>5
<1>3. QED
  BY <1>1, <1>2 DEF Queue

LEMMA AdmitIsGood ==
  ASSUME IInv, NEW s \in Sessions, NEW r \in Repositories, Admit(s, r)
  PROVE  Good(row', session')
<1> DEFINE sessions == [session EXCEPT ![s].repository = r]
<1>1. session \in [Sessions -> Works] /\ session[s].state = "new" /\ Queue(s, sessions)
  BY DEF IInv, TypeOK, Admit
<1>2. /\ sessions \in [Sessions -> Works] /\ sessions[s].repository \in Repositories
      /\ \A t \in Sessions \ {s} : sessions[t] = session[t]
  BY <1>1 DEF Works
<1>3. ~Executes(session, s)
  BY <1>1 DEF Executes
<1> HIDE DEF sessions
<1>4. QED
  BY <1>1, <1>2, <1>3, QueueIsGood

LEMMA RequeueIsGood ==
  ASSUME IInv, NEW s \in Sessions, Requeue(s)
  PROVE  Good(row', session')
<1>1. /\ session \in [Sessions -> Works] /\ session[s].repository \in Repositories
      /\ ~Executes(session, s) /\ Queue(s, session)
  BY DEF IInv, Good, Named, Requeue, Executes
<1>2. QED
  BY <1>1, QueueIsGood

LEMMA EndIsGood ==
  ASSUME IInv, NEW s \in Sessions, End(s)
  PROVE  Good(row', session')
<1>1. session \in [Sessions -> Works] /\ session[s].repository \in Repositories /\ row' = row
  BY DEF IInv, Good, Named, End
<1>2. /\ session' \in [Sessions -> Works]
      /\ \A t \in Sessions \ {s} : session'[t] = session[t]
      /\ session'[s].state = "ended" /\ session'[s].repository = session[s].repository
  BY <1>1 DEF End, Works, States
<1>3. \A t \in Sessions : Executes(session', t) => t # s
  BY <1>2 DEF Executes
<1>4. \A t \in Sessions : Executes(session', t) => /\ Executes(session, t)
                                                   /\ session'[t].worker = session[t].worker
                                                   /\ session'[t].repository = session[t].repository
  BY <1>2, <1>3 DEF Executes
<1>5. Named(session')
  BY <1>1, <1>2 DEF IInv, Good, Named
<1>6. Good(row, session')
  BY <1>2, <1>4, <1>5, LessIsGood DEF IInv, TypeOK
<1>7. QED
  BY <1>1, <1>6

LEMMA DisableIsGood ==
  ASSUME IInv, NEW r \in Repositories, Disable(r)
  PROVE  Good(row', session')
<1>1. session \in [Sessions -> Works] /\ row' = row
  BY DEF IInv, Good, Disable
<1>2. session' = [s \in Sessions |->
         IF repository[r].enabled /\ session[s].repository = r /\ session[s].state = "queued"
         THEN [session[s] EXCEPT !.state = "blocked", !.worker = None] ELSE session[s]]
  BY DEF Disable
<1>3. \A s \in Sessions : \/ session'[s] = session[s]
                          \/ /\ session'[s] \in Works /\ session'[s].state = "blocked"
                             /\ session'[s].repository = r
  BY <1>1, <1>2 DEF Works, States
<1>4. session' \in [Sessions -> Works]
  BY <1>1, <1>2, <1>3
<1>5. Named(session')
  BY <1>3 DEF IInv, Good, Named
<1>6. \A t \in Sessions : Executes(session', t) => /\ Executes(session, t)
                                                   /\ session'[t].worker = session[t].worker
                                                   /\ session'[t].repository = session[t].repository
  BY <1>3 DEF Executes
<1>7. Good(row, session')
  BY <1>4, <1>5, <1>6, LessIsGood DEF IInv, TypeOK
<1>8. QED
  BY <1>1, <1>7

(* A registration hides or shows the dynamic rows of its worker, and what  *)
(* executes there keeps its row.                                           *)
LEMMA RegisterIsGood ==
  ASSUME IInv, NEW w \in Workers, Register(w), ~DropsCheckouts
  PROVE  Good(row, session)' /\ checkouts' \subseteq Workers \X Repositories
                             /\ worker' \in [Workers -> [up : BOOLEAN, accepts : BOOLEAN,
                                                         cached : SUBSET Repositories]]
<1>1. PICK accepts \in BOOLEAN :
        /\ worker' = [worker EXCEPT ![w] = [up |-> TRUE, accepts |-> accepts, cached |-> clones[w]]]
        /\ row' = [row EXCEPT ![w] = [r \in Repositories |-> Registered(w, accepts, r)]]
  BY DEF Register
<1>2. session' = session /\ clones' = clones
  BY DEF Register
<1>3. /\ row \in [Workers -> [Repositories -> Rows]] /\ session \in [Sessions -> Works]
      /\ worker \in [Workers -> [up : BOOLEAN, accepts : BOOLEAN, cached : SUBSET Repositories]]
      /\ clones \in [Workers -> SUBSET Repositories] /\ checkouts \subseteq Workers \X Repositories
  BY DEF IInv, TypeOK
<1>4. /\ checkouts \subseteq checkouts' /\ checkouts' \subseteq Workers \X Repositories
      /\ \A v \in Workers, r \in Repositories : v # w => (<<v, r>> \in checkouts' <=> <<v, r>> \in checkouts)
  <2>1. CASE UNCHANGED checkouts
    BY <2>1, <1>3
  <2>2. CASE Restarted(w)
    <3>1. PICK configured \in SUBSET ({w} \X Repositories) :
            checkouts' = {c \in checkouts : c[1] # w} \cup configured
      BY <2>2 DEF Restarted
    <3>2. checkouts \subseteq checkouts'
      BY <2>2 DEF Restarted
    <3>3. QED
      BY <1>3, <3>1, <3>2
  <2>3. QED
    BY <2>1, <2>2 DEF Register
<1> DEFINE shown(r) == accepts /\ (r \in clones[w] \/ Executing(session, w, r))
           entry(r) == Registered(w, accepts, r)
<1>5. ASSUME NEW r \in Repositories
      PROVE  /\ entry(r) \in Rows
             /\ <<w, r>> \in checkouts' => entry(r) = Checkout
             /\ <<w, r>> \notin checkouts' /\ row[w][r].kind = "dynamic" =>
                  entry(r).kind = "dynamic" /\ (entry(r).advertised <=> shown(r))
             /\ <<w, r>> \notin checkouts' /\ row[w][r].kind # "dynamic" =>
                  row[w][r].kind = "none" /\ entry(r).kind = "none" /\ ~entry(r).advertised
  <2>1. CASE <<w, r>> \in checkouts'
    BY <2>1 DEF Registered, Checkout, Rows
  <2>2. CASE <<w, r>> \notin checkouts' /\ row[w][r].kind = "dynamic"
    <3>1. PICK b \in BOOLEAN : b = shown(r)
      OBVIOUS
    <3>2. entry(r) = [kind |-> "dynamic", advertised |-> b]
      BY <2>2, <3>1, Zenon DEF Registered
    <3>3. entry(r) \in Rows /\ entry(r).kind = "dynamic" /\ entry(r).advertised = b
      <4> HIDE DEF entry
      <4>1. QED
        BY <3>2 DEF Rows
    <3>4. entry(r).advertised <=> shown(r)
      <4> HIDE DEF entry, shown
      <4>1. QED
        BY <3>1, <3>3, Zenon
    <3>5. QED
      BY <2>2, <3>3, <3>4, Zenon
  <2>3. CASE <<w, r>> \notin checkouts' /\ row[w][r].kind # "dynamic"
    <3>1. row[w][r] \in Rows /\ row[w][r].kind # "static"
      BY <1>3, <1>4, <2>3 DEF IInv, Good, RowsAgree
    <3>2. entry(r) = [row[w][r] EXCEPT !.advertised = FALSE]
      BY <2>3 DEF Registered
    <3>3. QED
      BY <2>3, <3>1, <3>2 DEF Rows
  <2>4. QED
    BY <2>1, <2>2, <2>3, Zenon
<1> HIDE DEF entry, shown
<1>6. /\ row' \in [Workers -> [Repositories -> Rows]]
      /\ \A r \in Repositories : row'[w][r] = entry(r)
      /\ \A v \in Workers : v # w => row'[v] = row[v]
  BY <1>1, <1>3, <1>5 DEF entry
<1>7. /\ worker' \in [Workers -> [up : BOOLEAN, accepts : BOOLEAN, cached : SUBSET Repositories]]
      /\ worker'[w].accepts = accepts /\ worker'[w].cached = clones[w]
      /\ \A v \in Workers : v # w => worker'[v] = worker[v]
  BY <1>1, <1>3
<1>8. RowsAgree(row)'
  <2>1. ASSUME NEW v \in Workers, NEW r \in Repositories
        PROVE  /\ row'[v][r].kind = "static" <=> <<v, r>> \in checkouts'
               /\ row'[v][r].kind = "static" => row'[v][r].advertised
               /\ row'[v][r].kind = "none" => ~row'[v][r].advertised
               /\ row'[v][r].kind = "dynamic" /\ row'[v][r].advertised => worker'[v].accepts
    <3>1. CASE v = w
      <4>1. row'[v][r] = entry(r) /\ worker'[v].accepts = accepts
        BY <3>1, <1>6, <1>7
      <4>2. ASSUME entry(r).kind = "dynamic", entry(r).advertised
            PROVE  accepts
        <5>1. <<w, r>> \notin checkouts' /\ row[w][r].kind = "dynamic"
          <6>1. <<w, r>> \notin checkouts'
            BY <4>2, <1>5 DEF Checkout
          <6>2. QED
            BY <6>1, <4>2, <1>5
        <5>2. entry(r).advertised <=> shown(r)
          BY <5>1, <1>5, Zenon
        <5>3. QED
          BY <4>2, <5>2, Zenon DEF shown
      <4>3. /\ entry(r).kind = "static" <=> <<w, r>> \in checkouts'
            /\ entry(r).kind = "static" => entry(r).advertised
            /\ entry(r).kind = "none" => ~entry(r).advertised
        BY <1>5 DEF Checkout
      <4>4. QED
        BY <3>1, <4>1, <4>2, <4>3
    <3>2. CASE v # w
      BY <3>2, <1>4, <1>6, <1>7 DEF IInv, Good, RowsAgree
    <3>3. QED
      BY <3>1, <3>2
  <2>2. QED
    BY <2>1 DEF RowsAgree
<1>9. Placed(row, session)'
  <2>1. ASSUME NEW s \in Sessions, Executes(session, s)
        PROVE  LET v == session[s].worker
                   r == session[s].repository
               IN  /\ v \in Workers /\ r \in Repositories /\ row'[v][r].kind # "none"
                   /\ row'[v][r].advertised \/ ~worker'[v].accepts
    <3> DEFINE v == session[s].worker
               r == session[s].repository
    <3>1. /\ v \in Workers /\ r \in Repositories /\ row[v][r].kind # "none"
          /\ row[v][r].advertised \/ ~worker[v].accepts
      BY <2>1 DEF IInv, Good, Placed
    <3>2. CASE v = w
      <4>1. Executing(session, w, r)
        BY <2>1, <3>2 DEF Executing, Executes
      <4>2. row'[v][r] = entry(r) /\ worker'[v].accepts = accepts
        BY <3>1, <3>2, <1>6, <1>7
      <4>3. shown(r) \/ ~accepts
        BY <4>1, Zenon DEF shown
      <4>4. entry(r).kind # "none"
        <5>1. CASE <<w, r>> \in checkouts'
          BY <5>1, <3>1, <1>5 DEF Checkout
        <5>2. CASE <<w, r>> \notin checkouts' /\ row[w][r].kind = "dynamic"
          <6>1. entry(r).kind = "dynamic"
            BY <5>2, <3>1, <1>5, Zenon
          <6>2. QED
            BY <6>1
        <5>3. CASE <<w, r>> \notin checkouts' /\ row[w][r].kind # "dynamic"
          <6>1. row[w][r].kind = "none"
            BY <5>3, <3>1, <1>5, Zenon
          <6>2. QED
            BY <6>1, <3>1, <3>2
        <5>4. QED
          BY <5>1, <5>2, <5>3
      <4>5. entry(r).advertised \/ ~accepts
        <5>1. CASE <<w, r>> \in checkouts'
          BY <5>1, <3>1, <1>5 DEF Checkout
        <5>2. CASE <<w, r>> \notin checkouts'
          <6>1. row[w][r].kind = "dynamic"
            BY <5>2, <3>1, <3>2, <1>5
          <6>2. entry(r).advertised <=> shown(r)
            BY <5>2, <6>1, <3>1, <1>5, Zenon
          <6>3. QED
            BY <6>2, <4>3, Zenon
        <5>3. QED
          BY <5>1, <5>2
      <4>6. QED
        BY <3>1, <4>2, <4>4, <4>5
    <3>3. CASE v # w
      BY <3>1, <3>3, <1>6, <1>7
    <3>4. QED
      BY <3>2, <3>3
  <2>2. QED
    BY <2>1, <1>2 DEF Placed, Executes
<1>10. Counted(row)'
  <2>1. ASSUME NEW v \in Workers
        PROVE  /\ worker'[v].cached \subseteq clones[v]
               /\ worker'[v].accepts => clones[v] \subseteq worker'[v].cached \cup Reserved(row, v)'
    <3>1. CASE v = w
      BY <3>1, <1>7
    <3>2. CASE v # w
      <4>1. Reserved(row, v)' = Reserved(row, v)
        BY <3>2, <1>6 DEF Reserved
      <4>2. QED
        BY <3>2, <4>1, <1>7 DEF IInv, Good, Counted
    <3>3. QED
      BY <3>1, <3>2
  <2>2. QED
    BY <2>1, <1>2 DEF Counted
<1>11. Fits(row, session)'
  <2>1. ASSUME NEW v \in Workers
        PROVE  Cardinality(Taken(row, session, v)') <= MaxCache
    <3>1. Taken(row, session, v)' = Taken(row', session, v)
      BY <1>2 DEF Taken, Executing
    <3>2. Taken(row', session, v) \subseteq Taken(row, session, v)
      <4>1. CASE v = w
        <5>1. ASSUME NEW r \in Repositories, row'[w][r].kind = "dynamic",
                     row'[w][r].advertised \/ Executing(session, w, r)
              PROVE  r \in Taken(row, session, w)
          <6>1. entry(r).kind = "dynamic" /\ (entry(r).advertised \/ Executing(session, w, r))
            BY <5>1, <1>6
          <6>2. <<w, r>> \notin checkouts' /\ row[w][r].kind = "dynamic"
            BY <6>1, <1>5 DEF Checkout
          <6>3. entry(r).advertised <=> shown(r)
            BY <6>2, <1>5, Zenon
          <6>4. r \in clones[w] \/ Executing(session, w, r)
            BY <6>1, <6>3, Zenon DEF shown
          <6>5. QED
            BY <6>2, <6>4 DEF Taken
        <5>2. clones[w] \subseteq Taken(row, session, w)
          BY DEF Taken
        <5>3. Taken(row', session, w) = clones[w] \cup
                {r \in Repositories : /\ row'[w][r].kind = "dynamic"
                                      /\ row'[w][r].advertised \/ Executing(session, w, r)}
          BY DEF Taken
        <5>4. QED
          BY <4>1, <5>1, <5>2, <5>3
      <4>2. CASE v # w
        BY <4>2, <1>6 DEF Taken
      <4>3. QED
        BY <4>1, <4>2
    <3>3. QED
      BY <3>1, <3>2, <1>3, TakenFinite, SmallerFits DEF IInv, Good, Fits
  <2>2. QED
    BY <2>1 DEF Fits
<1>12. Named(session)'
  BY <1>2 DEF IInv, Good, Named
<1>13. QED
  BY <1>2, <1>3, <1>4, <1>6, <1>7, <1>8, <1>9, <1>10, <1>11, <1>12 DEF Good

(* A clone is made where the row of the attempt keeps its place.           *)
LEMMA CloneIsGood ==
  ASSUME IInv, NEW w \in Workers, NEW r \in Repositories, Clone(w, r)
  PROVE  Good(row, session)' /\ clones' \in [Workers -> SUBSET Repositories]
<1>1. /\ row' = row /\ session' = session /\ worker' = worker /\ checkouts' = checkouts
      /\ clones' = [clones EXCEPT ![w] = @ \cup {r}] /\ <<w, r>> \notin checkouts
  BY DEF Clone
<1>2. /\ clones \in [Workers -> SUBSET Repositories]
      /\ clones' \in [Workers -> SUBSET Repositories]
      /\ \A v \in Workers : clones'[v] = IF v = w THEN clones[v] \cup {r} ELSE clones[v]
  BY <1>1 DEF IInv, TypeOK
<1>3. PICK s \in Sessions : session[s] = [state |-> "active", repository |-> r, worker |-> w]
  BY DEF IInv, Clone
<1>4. Executes(session, s) /\ Executing(session, w, r)
  BY <1>3 DEF Executes, Executing
<1>5. row[w][r].kind # "none" /\ (row[w][r].advertised \/ ~worker[w].accepts)
  BY <1>3, <1>4 DEF IInv, Good, Placed
<1>6. row[w][r] \in Rows /\ row[w][r].kind = "dynamic"
  <2>1. row[w][r] \in Rows
    BY DEF IInv, Good
  <2>2. row[w][r].kind # "static"
    BY <1>1 DEF IInv, Good, RowsAgree
  <2>3. QED
    BY <1>5, <2>1, <2>2 DEF Rows
<1>7. ASSUME worker[w].accepts
      PROVE  r \in Reserved(row, w)
  <2>1. row[w][r] = Place
    BY <1>5, <1>6, <1>7 DEF Rows, Place
  <2>2. QED
    BY <2>1 DEF Reserved
<1>8. Counted(row)'
  <2>1. ASSUME NEW v \in Workers
        PROVE  /\ worker[v].cached \subseteq clones'[v]
               /\ worker[v].accepts => clones'[v] \subseteq worker[v].cached \cup Reserved(row, v)
    BY <1>2, <1>7 DEF IInv, Good, Counted
  <2>2. Reserved(row, w)' = Reserved(row, w) /\ \A v \in Workers : Reserved(row, v)' = Reserved(row, v)
    BY <1>1 DEF Reserved
  <2>3. QED
    BY <2>1, <2>2, <1>1 DEF Counted
<1>9. ASSUME NEW v \in Workers
      PROVE  Cardinality(Taken(row, session, v)') <= MaxCache
  <2>1. r \in Taken(row, session, w)
    BY <1>4, <1>6 DEF Taken
  <2>2. Taken(row, session, v)' = Taken(row, session, v)
    <3>1. CASE v = w
      BY <3>1, <2>1, <1>1, <1>2 DEF Taken, Executing
    <3>2. CASE v # w
      BY <3>2, <1>1, <1>2 DEF Taken, Executing
    <3>3. QED
      BY <3>1, <3>2
  <2>3. QED
    BY <2>2 DEF IInv, Good, Fits
<1>10. RowsAgree(row)' /\ Placed(row, session)' /\ Named(session)'
  BY <1>1 DEF IInv, Good, RowsAgree, Placed, Executes, Named
<1>11. Fits(row, session)'
  BY <1>9 DEF Fits
<1>12. QED
  BY <1>1, <1>2, <1>8, <1>10, <1>11 DEF IInv, Good

(* Health is no part of what the rows and the cache agree on.              *)
LEMMA WatchIsGood ==
  ASSUME IInv, NEW w \in Workers, Watch(w)
  PROVE  /\ Good(row, session)'
         /\ worker' \in [Workers -> [up : BOOLEAN, accepts : BOOLEAN, cached : SUBSET Repositories]]
<1>1. /\ row' = row /\ session' = session /\ checkouts' = checkouts /\ clones' = clones
      /\ worker' = [worker EXCEPT ![w].up = ~@]
  BY DEF Watch
<1>2. worker \in [Workers -> [up : BOOLEAN, accepts : BOOLEAN, cached : SUBSET Repositories]]
  BY DEF IInv, TypeOK
<1>3. PICK b \in BOOLEAN : worker' = [worker EXCEPT ![w] = [@ EXCEPT !.up = b]]
  <2>1. PICK b \in BOOLEAN : b = ~worker[w].up
    BY Zenon
  <2>2. QED
    BY <1>1, <2>1, Zenon
<1>4. /\ worker' \in [Workers -> [up : BOOLEAN, accepts : BOOLEAN, cached : SUBSET Repositories]]
      /\ \A v \in Workers : worker'[v].accepts = worker[v].accepts /\ worker'[v].cached = worker[v].cached
  BY <1>2, <1>3
<1>5. RowsAgree(row)'
  <2>1. RowsAgree(row)
    BY DEF IInv, Good
  <2>2. QED
    BY <1>1, <1>4, <2>1 DEF RowsAgree
<1>6. Placed(row, session)'
  BY <1>1, <1>4 DEF IInv, Good, Placed, Executes
<1>7. Counted(row)'
  BY <1>1, <1>4 DEF IInv, Good, Counted, Reserved
<1>8. Fits(row, session)' /\ Named(session)'
  BY <1>1 DEF IInv, Good, Fits, Taken, Executing, Named
<1>9. QED
  BY <1>1, <1>4, <1>5, <1>6, <1>7, <1>8 DEF IInv, Good

-----------------------------------------------------------------------------
(* The invariant, and what it gives.                                       *)

(* Everything is empty at first: nothing is in a cache.                    *)
LEMMA InitIsGood ==
  ASSUME Init
  PROVE  IInv
<1>1. TypeOK /\ cloning = {}
  BY DEF Init, TypeOK, Rows, NoRow, Works, States
<1>2. ASSUME NEW w \in Workers
      PROVE  Cardinality(Taken(row, session, w)) <= MaxCache
  <2>1. Taken(row, session, w) = {}
    BY DEF Init, Taken, NoRow
  <2>2. QED
    BY <2>1, FS_EmptySet, BoundAssumption
<1>3. \A w \in Workers, r \in Repositories : row[w][r].kind = "none" /\ ~row[w][r].advertised
  BY DEF Init, NoRow
<1>4. RowsAgree(row)
  BY <1>3 DEF Init, RowsAgree
<1>5. Placed(row, session) /\ Named(session)
  BY DEF Init, Placed, Executes, Named
<1>6. Counted(row)
  BY DEF Init, Counted
<1>7. QED
  BY <1>1, <1>2, <1>4, <1>5, <1>6 DEF IInv, Good, Fits, TypeOK

(* Every step keeps the invariant.                                         *)
LEMMA StepIsGood ==
  ASSUME IInv, [Next]_vars, ~DropsCheckouts, ~LateClones
  PROVE  IInv'
<1>1. ASSUME NEW s \in Sessions, NEW r \in Repositories, Admit(s, r)
      PROVE  IInv'
  <2>1. UNCHANGED <<repository, worker, checkouts, clones, cloning>>
    BY <1>1 DEF Admit
  <2>2. Good(row, session)'
    BY <1>1, <2>1, AdmitIsGood, GoodNext
  <2>3. QED
    BY <2>1, <2>2 DEF IInv, TypeOK, Good
<1>2. ASSUME NEW s \in Sessions, Requeue(s)
      PROVE  IInv'
  <2>1. UNCHANGED <<repository, worker, checkouts, clones, cloning>>
    BY <1>2 DEF Requeue
  <2>2. Good(row, session)'
    BY <1>2, <2>1, RequeueIsGood, GoodNext
  <2>3. QED
    BY <2>1, <2>2 DEF IInv, TypeOK, Good
<1>3. ASSUME NEW s \in Sessions, End(s)
      PROVE  IInv'
  <2>1. UNCHANGED <<repository, worker, checkouts, clones, cloning>>
    BY <1>3 DEF End
  <2>2. Good(row, session)'
    BY <1>3, <2>1, EndIsGood, GoodNext
  <2>3. QED
    BY <2>1, <2>2 DEF IInv, TypeOK, Good
<1>4. ASSUME NEW w \in Workers, Claim(w)
      PROVE  IInv'
  <2>1. UNCHANGED <<repository, worker, checkouts, clones, cloning>>
    BY <1>4 DEF Claim
  <2>2. Good(row, session)'
    BY <1>4, <2>1, ClaimIsGood, GoodNext
  <2>3. QED
    BY <2>1, <2>2 DEF IInv, TypeOK, Good
<1>5. ASSUME NEW w \in Workers, Register(w)
      PROVE  IInv'
  <2>1. UNCHANGED <<repository, clones, cloning>>
    BY <1>5 DEF Register
  <2>2. QED
    BY <1>5, <2>1, RegisterIsGood DEF IInv, TypeOK, Good
<1>6. ASSUME NEW w \in Workers, Watch(w)
      PROVE  IInv'
  <2>1. UNCHANGED <<repository, checkouts, clones, cloning>>
    BY <1>6 DEF Watch
  <2>2. QED
    BY <1>6, <2>1, WatchIsGood DEF IInv, TypeOK, Good
<1>7. ASSUME NEW w \in Workers, NEW r \in Repositories, Clone(w, r)
      PROVE  IInv'
  <2>1. UNCHANGED <<repository, worker, checkouts>> /\ cloning' = {}
    BY <1>7 DEF Clone, IInv
  <2>2. QED
    BY <1>7, <2>1, CloneIsGood DEF IInv, TypeOK, Good
<1>8. ASSUME NEW r \in Repositories, Enable(r)
      PROVE  IInv'
  <2>1. UNCHANGED <<worker, row, session, checkouts, clones, cloning>>
    BY <1>8 DEF Enable
  <2>2. repository' \in [Repositories -> [enabled : BOOLEAN, managed : BOOLEAN]]
    BY <1>8 DEF Enable, IInv, TypeOK
  <2>3. Good(row, session)'
    BY <2>1, GoodNext DEF IInv
  <2>4. QED
    BY <2>1, <2>2, <2>3 DEF IInv, TypeOK
<1>9. ASSUME NEW r \in Repositories, Disable(r)
      PROVE  IInv'
  <2>1. UNCHANGED <<worker, checkouts, clones, cloning>>
    BY <1>9 DEF Disable
  <2>2. repository' \in [Repositories -> [enabled : BOOLEAN, managed : BOOLEAN]]
    BY <1>9 DEF Disable, IInv, TypeOK
  <2>3. Good(row, session)'
    BY <1>9, <2>1, DisableIsGood, GoodNext
  <2>4. QED
    BY <2>1, <2>2, <2>3 DEF IInv, TypeOK, Good
<1>10. CASE UNCHANGED vars
  <2>1. UNCHANGED <<repository, worker, row, session, checkouts, clones, cloning>>
    BY <1>10 DEF vars
  <2>2. Good(row, session)'
    BY <2>1, GoodNext DEF IInv
  <2>3. QED
    BY <2>1, <2>2 DEF IInv, TypeOK
<1>11. QED
  BY <1>1, <1>2, <1>3, <1>4, <1>5, <1>6, <1>7, <1>8, <1>9, <1>10 DEF Next

(* A worker that is accepted is given what is queued on it.                *)
LEMMA AcceptedIsTaken ==
  ASSUME IInv
  PROVE  AcceptedIsFound
<1>1. ASSUME NEW s \in Sessions, session[s].state = "queued",
             Accepts(row, session[s].worker, session[s].repository)
      PROVE  s \in Found(session[s].worker, row, session)
  <2>1. Executes(session, s)
    BY <1>1 DEF Executes
  <2>2. row[session[s].worker][session[s].repository].advertised
    BY <1>1, <2>1, AcceptedIsAdvertised DEF IInv
  <2>3. repository[session[s].repository].managed => repository[session[s].repository].enabled
    BY <1>1, Zenon DEF Accepts, Available
  <2>4. QED
    BY <1>1, <2>2, <2>3, Zenon DEF Found
<1>2. QED
  BY <1>1 DEF AcceptedIsFound

(* What executes without a checkout is among the taken places.             *)
LEMMA TakenFits ==
  ASSUME IInv
  PROVE  ClonesFit
<1>1. ASSUME NEW w \in Workers
      PROVE  Cardinality(clones[w] \cup Needed(w)) <= MaxCache
  <2>1. ASSUME NEW r \in Needed(w)
        PROVE  r \in Taken(row, session, w)
    <3>1. r \in Repositories /\ <<w, r>> \notin checkouts /\ Executing(session, w, r)
      BY DEF Needed
    <3>2. row[w][r] \in Rows /\ row[w][r].kind # "static"
      BY <3>1 DEF IInv, Good, RowsAgree
    <3>3. row[w][r].kind # "none"
      BY <3>1 DEF IInv, Good, Placed, Executing, Executes
    <3>4. row[w][r].kind = "dynamic"
      BY <3>2, <3>3 DEF Rows
    <3>5. QED
      BY <3>1, <3>4 DEF Taken
  <2>2. clones[w] \cup Needed(w) \subseteq Taken(row, session, w)
    BY <2>1 DEF Taken
  <2>3. QED
    BY <2>2, TakenFinite, SmallerFits DEF IInv, TypeOK, Good, Fits
<1>2. QED
  BY <1>1 DEF ClonesFit

(* selectSessionRoute, selectRunRoute, the claim query and RegisterWorker  *)
(* agree on the rows of worker_repositories, for every number of workers,  *)
(* repositories and sessions: a queued session whose worker the route      *)
(* check accepts is found by that worker's claim, and no cache is given    *)
(* more clones than it holds, when workers keep their checkouts over a     *)
(* restart and no clone outlives the lease of its attempt.                 *)
THEOREM RoutesAgreeCorrect ==
  ASSUME ~DropsCheckouts, ~LateClones
  PROVE  Spec => []RoutesAgree
<1>1. Init => IInv
  BY InitIsGood
<1>2. IInv /\ [Next]_vars => IInv'
  BY StepIsGood
<1>3. IInv => RoutesAgree
  BY AcceptedIsTaken, TakenFits DEF IInv, RoutesAgree
<1>4. QED
  BY <1>1, <1>2, <1>3, PTL DEF Spec
=============================================================================
