------------------------------ MODULE Routing ------------------------------
(***************************************************************************)
(* Which worker a session may be queued on, and which queued session a     *)
(* worker's claim finds.  Two pieces of SQL decide: the route check, at    *)
(* admission, retry and claim, and the claim query.  Both read the rows    *)
(* worker_repositories, which every registration rewrites: a static row    *)
(* stands for a checkout the worker is configured with, a dynamic row for  *)
(* a managed clone it has, or a place in its cache reserved for one.       *)
(* Both pieces also compare one sum of worktrees and attempts with         *)
(* MaxRetainedPerRepo and ask for a ready runtime; neither is in here, as  *)
(* they ask it in the same words.  Nor is the source access that a worker  *)
(* needs for a repository it does not advertise: it is accepted for less.  *)
(*                                                                         *)
(* An operator commented "Mistake" is no part of the specification: it is  *)
(* a wrong form of the operator after it.                                  *)
(***************************************************************************)
EXTENDS Naturals, FiniteSets

CONSTANTS Workers, Repositories,
          GitHub,         \* repositories whose identity is on github.com
          MaxSessions,    \* bound: sessions admitted
          MaxCheckouts,   \* bound: checkouts of all workers together
          MaxCache,       \* protocol.MaxRepositoryCacheEntries
          DropsCheckouts, \* a worker may be restarted with fewer checkouts
          LateClones,     \* a clone may end after the lease of its attempt
          None            \* no repository, no worker

ASSUME RepositoriesAssumption == IsFiniteSet(Repositories) /\ GitHub \subseteq Repositories
ASSUME BoundAssumption == MaxSessions \in Nat /\ MaxCheckouts \in Nat /\ MaxCache \in Nat \ {0}
ASSUME NoneAssumption == None \notin Workers \cup Repositories

VARIABLES repository,   \* repositories: enabled, centrally_managed
          worker,       \* workers: healthy and heard of, accepts_managed_repositories
                        \* and managed_repository_ids as last registered
          row,          \* worker_repositories: static or dynamic, advertised
          session,      \* sessions and their executions
          checkouts,    \* the worker's configuration: [repositories.<key>]
          clones,       \* the worker's cache of managed clones
          cloning       \* what attempts that lost their lease still clone, and where

vars == <<repository, worker, row, session, checkouts, clones, cloning>>

Sessions == 1 .. MaxSessions
States == {"new", "blocked", "queued", "active", "ended"}
Rows == [kind : {"none", "static", "dynamic"}, advertised : BOOLEAN]
Works == [state : States, repository : Repositories \cup {None}, worker : Workers \cup {None}]
NoRow == [kind |-> "none", advertised |-> FALSE]
Checkout == [kind |-> "static", advertised |-> TRUE]
Place == [kind |-> "dynamic", advertised |-> TRUE]

TypeOK ==
    /\ repository \in [Repositories -> [enabled : BOOLEAN, managed : BOOLEAN]]
    /\ worker \in [Workers -> [up : BOOLEAN, accepts : BOOLEAN, cached : SUBSET Repositories]]
    /\ row \in [Workers -> [Repositories -> Rows]]
    /\ session \in [Sessions -> Works]
    /\ checkouts \subseteq Workers \X Repositories
    /\ clones \in [Workers -> SUBSET Repositories]
    /\ cloning \subseteq Workers \X Repositories

Init ==
    /\ repository = [r \in Repositories |-> [enabled |-> FALSE, managed |-> FALSE]]
    /\ worker = [w \in Workers |-> [up |-> FALSE, accepts |-> FALSE, cached |-> {}]]
    /\ row = [w \in Workers |-> [r \in Repositories |-> NoRow]]
    /\ session = [s \in Sessions |-> [state |-> "new", repository |-> None, worker |-> None]]
    /\ checkouts = {}
    /\ clones = [w \in Workers |-> {}]
    /\ cloning = {}

-----------------------------------------------------------------------------
(* selectSessionRoute and selectRunRoute.                                  *)

(* Neither disabled nor a checkout nobody offers: repository_not_managed.  *)
Available(rows, r) ==
    \/ repository[r].enabled
    \/ ~repository[r].managed /\ \E w \in Workers : rows[w][r] = Checkout

(* A worker may clone only what is enabled and on github.com.              *)
MayBeCloned(r) == repository[r].enabled /\ repository[r].managed /\ r \in GitHub

Reserved(rows, w) == {r \in Repositories : rows[w][r] = Place}

HasRoom(rows, w, r) ==
    \/ r \in worker[w].cached
    \/ Cardinality(worker[w].cached \cup Reserved(rows, w)) < MaxCache

Accepts(rows, w, r) ==
    /\ Available(rows, r)
    /\ worker[w].up
    /\ \/ rows[w][r].advertised
       \/ MayBeCloned(r) /\ worker[w].accepts /\ HasRoom(rows, w, r)

(* The rows after a choice: what was not advertised is a place in a cache. *)
Chosen(rows, pairs) ==
    [w \in Workers |-> [r \in Repositories |->
       IF <<w, r>> \in pairs /\ ~rows[w][r].advertised THEN Place ELSE rows[w][r]]]

Queued(sessions, s, w) == [sessions EXCEPT ![s].state = "queued", ![s].worker = w]

-----------------------------------------------------------------------------
(* Admission, and the retry or answer that queues a session again.         *)

Queue(s, sessions) ==
    \/ \E w \in Workers :
         /\ Accepts(row, w, sessions[s].repository)
         /\ row' = Chosen(row, {<<w, sessions[s].repository>>})
         /\ session' = Queued(sessions, s, w)
    \/ session' = [sessions EXCEPT ![s].state = "blocked", ![s].worker = None] /\ UNCHANGED row

Admit(s, r) ==
    /\ session[s].state = "new" /\ \A t \in 1 .. s - 1 : session[t].state # "new"
    /\ Available(row, r)
    /\ Queue(s, [session EXCEPT ![s].repository = r])
    /\ UNCHANGED <<repository, worker, checkouts, clones, cloning>>

Requeue(s) ==
    /\ session[s].state = "ended"
    /\ Queue(s, session)
    /\ UNCHANGED <<repository, worker, checkouts, clones, cloning>>

-----------------------------------------------------------------------------
(* Claim: one transaction.                                                 *)

(* materializeBlockedSessionForWorker.  The limit of a run may hold any    *)
(* session back.                                                           *)
Materialized(w) ==
    {[rows |-> row, sessions |-> session]} \cup
    {[rows |-> Chosen(row, {<<w, session[s].repository>>}), sessions |-> Queued(session, s, w)] :
       s \in {t \in Sessions : session[t].state = "blocked" /\ Accepts(row, w, session[t].repository)}}

(* rerouteQueuedSessionForWorker: the queued sessions of other workers are *)
(* checked in the order of their admission, which may reserve a place with *)
(* the worker one stays on, up to the first that has lost its worker and   *)
(* that this one accepts (if none, the scan ends past the last).           *)
Others(w, sessions) == {s \in Sessions : sessions[s].state = "queued" /\ sessions[s].worker # w}

Before(rows, sessions, stay, s) ==
    Chosen(rows, {<<sessions[t].worker, sessions[t].repository>> : t \in {u \in stay : u < s}})

Stays(rows, sessions, stay, s) ==
    Accepts(Before(rows, sessions, stay, s), sessions[s].worker, sessions[s].repository)

Moves(w, rows, sessions, stay, s) ==
    /\ ~Stays(rows, sessions, stay, s)
    /\ Accepts(Before(rows, sessions, stay, s), w, sessions[s].repository)

Scans(w, rows, sessions) ==
    LET others == Others(w, sessions)
    IN  {scan \in [end : others \cup {MaxSessions + 1}, stay : SUBSET others] :
           /\ scan.stay = {s \in others : s < scan.end /\ Stays(rows, sessions, scan.stay, s)}
           /\ \A s \in others : s < scan.end => ~Moves(w, rows, sessions, scan.stay, s)
           /\ scan.end \in others => Moves(w, rows, sessions, scan.stay, scan.end)}

Rerouted(w, rows, sessions, scan) ==
    LET before == Before(rows, sessions, scan.stay, scan.end)
    IN  IF scan.end \in Sessions
        THEN [rows |-> Chosen(before, {<<w, sessions[scan.end].repository>>}),
              sessions |-> Queued(sessions, scan.end, w)]
        ELSE [rows |-> before, sessions |-> sessions]

(* The sessions the claim query selects from.                              *)
Found(w, rows, sessions) ==
    {s \in Sessions :
       LET r == sessions[s].repository
       IN  /\ sessions[s].state = "queued" /\ sessions[s].worker = w
           /\ rows[w][r].advertised
           /\ repository[r].managed => repository[r].enabled}

Claim(w) ==
    /\ worker[w].up
    /\ \E start \in Materialized(w) : \E scan \in Scans(w, start.rows, start.sessions) :
         LET after == Rerouted(w, start.rows, start.sessions, scan)
             found == Found(w, after.rows, after.sessions)
         IN  /\ row' = after.rows
             /\ \/ found = {} /\ session' = after.sessions
                \/ \E s \in found : session' = [after.sessions EXCEPT ![s].state = "active"]
    /\ UNCHANGED <<repository, worker, checkouts, clones, cloning>>

(* A session ends: it is cancelled, or its attempt ends, which may go on   *)
(* with a clone when it is lost.                                           *)
End(s) ==
    /\ session[s].state \in {"blocked", "queued", "active"}
    /\ session' = [session EXCEPT ![s].state = "ended", ![s].worker = None]
    /\ \/ UNCHANGED cloning
       \/ LateClones /\ session[s].state = "active"
          /\ cloning' = cloning \cup {<<session[s].worker, session[s].repository>>}
    /\ UNCHANGED <<repository, worker, row, checkouts, clones>>

-----------------------------------------------------------------------------
(* RegisterWorker, with the checkouts of the worker's configuration, which *)
(* a restart may have changed, and the clones it has.  A worktree that is  *)
(* retained keeps a dynamic row too, but where there is one there is a     *)
(* clone.  An attempt that a restart cuts off is taken to go on, which     *)
(* only adds clones.                                                       *)

Executing(sessions, w, r) ==
    \E s \in Sessions : sessions[s].repository = r /\ sessions[s].worker = w
                        /\ sessions[s].state \in {"queued", "active"}

(* Mistake: a place is kept for a clone, and not for what is still to be   *)
(* cloned.                                                                 *)
RegisteredByClone(w, accepts, r) ==
    IF <<w, r>> \in checkouts' THEN Checkout
    ELSE IF row[w][r].kind = "dynamic"
         THEN [kind |-> "dynamic", advertised |-> accepts /\ r \in clones[w]]
    ELSE [row[w][r] EXCEPT !.advertised = FALSE]

Registered(w, accepts, r) ==
    IF <<w, r>> \in checkouts' THEN Checkout
    ELSE IF row[w][r].kind = "dynamic"
         THEN [kind |-> "dynamic",
               advertised |-> accepts /\ (r \in clones[w] \/ Executing(session, w, r))]
    ELSE [row[w][r] EXCEPT !.advertised = FALSE]

Restarted(w) ==
    /\ \E configured \in SUBSET ({w} \X Repositories) :
         checkouts' = {c \in checkouts : c[1] # w} \cup configured
    /\ Cardinality(checkouts') <= MaxCheckouts
    /\ DropsCheckouts \/ checkouts \subseteq checkouts'

Register(w) ==
    /\ UNCHANGED checkouts \/ Restarted(w)
    /\ \E accepts \in BOOLEAN :
         /\ worker' = [worker EXCEPT ![w] = [up |-> TRUE, accepts |-> accepts, cached |-> clones[w]]]
         /\ row' = [row EXCEPT ![w] = [r \in Repositories |-> Registered(w, accepts, r)]]
    /\ UNCHANGED <<repository, session, clones, cloning>>

(* The worker turns unhealthy or silent, and sends a heartbeat again.      *)
Watch(w) ==
    /\ worker' = [worker EXCEPT ![w].up = ~@]
    /\ UNCHANGED <<repository, row, session, checkouts, clones, cloning>>

(* An attempt makes the clone it needs.                                    *)
Clone(w, r) ==
    /\ \/ <<w, r>> \in cloning
       \/ \E s \in Sessions : session[s] = [state |-> "active", repository |-> r, worker |-> w]
    /\ <<w, r>> \notin checkouts
    /\ clones' = [clones EXCEPT ![w] = @ \cup {r}]
    /\ cloning' = cloning \ {<<w, r>>}
    /\ UNCHANGED <<repository, worker, row, session, checkouts>>

(* SetManagedRepositoryEnabled.                                            *)
Enable(r) ==
    /\ repository' = [repository EXCEPT ![r] = [enabled |-> TRUE, managed |-> TRUE]]
    /\ UNCHANGED <<worker, row, session, checkouts, clones, cloning>>

Disable(r) ==
    /\ repository' = [repository EXCEPT ![r] = [enabled |-> FALSE, managed |-> TRUE]]
    /\ session' = [s \in Sessions |->
         IF repository[r].enabled /\ session[s].repository = r /\ session[s].state = "queued"
         THEN [session[s] EXCEPT !.state = "blocked", !.worker = None] ELSE session[s]]
    /\ UNCHANGED <<worker, row, checkouts, clones, cloning>>

Next ==
    \/ \E s \in Sessions, r \in Repositories : Admit(s, r)
    \/ \E s \in Sessions : Requeue(s) \/ End(s)
    \/ \E w \in Workers : Claim(w) \/ Register(w) \/ Watch(w)
    \/ \E w \in Workers, r \in Repositories : Clone(w, r)
    \/ \E r \in Repositories : Enable(r) \/ Disable(r)

Spec == Init /\ [][Next]_vars

-----------------------------------------------------------------------------
(* What the route check accepts the claim query finds: a session is only   *)
(* left on a worker that is able to take it if that worker's next claim    *)
(* takes it.  Nothing else would move it, for a worker is not asked about  *)
(* its own sessions.                                                       *)
AcceptedIsFound ==
    \A s \in Sessions :
       /\ session[s].state = "queued"
       /\ Accepts(row, session[s].worker, session[s].repository)
       => s \in Found(session[s].worker, row, session)

(* Whatever is queued or active on a worker has a place in its cache:      *)
(* reservations are neither given twice nor forgotten by a registration.   *)
Needed(w) ==
    {r \in Repositories : <<w, r>> \notin checkouts /\ Executing(session, w, r)}

ClonesFit == \A w \in Workers : Cardinality(clones[w] \cup Needed(w)) <= MaxCache

(* What registrations and choices of workers keep between them.            *)
RoutesAgree == TypeOK /\ AcceptedIsFound /\ ClonesFit
=============================================================================
