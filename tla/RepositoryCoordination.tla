----------------------- MODULE RepositoryCoordination -----------------------
(***************************************************************************)
(* The repository locks of a worker and the cache of managed clones they   *)
(* protect.  A user of a repository (an attempt that needs the clone, adds *)
(* a worktree, retains or cleans one, or validates an agent's update)      *)
(* takes the lock entry of the repository, which exists only while it is   *)
(* held or awaited, unless it was poisoned by a worktree whose identity    *)
(* could not be established.  A clone is made in a temporary directory and *)
(* renamed into the cache under a reservation that bounds the cache.       *)
(***************************************************************************)
EXTENDS Naturals, FiniteSets

CONSTANTS Users,         \* goroutines of the worker
          Repositories,  \* managed repositories
          Entries,       \* lock entry objects
          MaxCache,      \* protocol.MaxRepositoryCacheEntries
          MaxRestarts,   \* bound: worker stops
          None           \* no entry, no repository

ASSUME UsersAssumption == IsFiniteSet(Users)
ASSUME MaxCacheAssumption == MaxCache \in Nat \ {0}
ASSUME RestartsAssumption == MaxRestarts \in Nat
ASSUME NoneAssumption == None \notin Entries \cup Repositories

VARIABLES user,          \* what each goroutine does: step, repository, entry, purpose
          locks,         \* repositoryLockSet.entries
          entry,         \* the entry objects: token, references, poisoned
          ids,           \* managedRepositoryIDs
          reservations,  \* managedRepositoryReservations
          cache,         \* clones in the cache directory
          temporary,     \* repositories with a .clone- directory
          restarts

vars == <<user, locks, entry, ids, reservations, cache, temporary, restarts>>
locking == <<locks, entry>>
caching == <<ids, reservations, cache, temporary>>

Purposes == {"cache", "change"}
Inside == {"work", "clone", "installed", "resolve"}
Holding == Inside \cup {"check", "unlock"}
Referring == Holding \cup {"wait", "drop"}

TypeOK ==
    /\ user \in [Users -> [pc : Referring \cup {"idle"}, repository : Repositories \cup {None},
                           entry : Entries \cup {None}, purpose : Purposes]]
    /\ locks \in [Repositories -> Entries \cup {None}]
    /\ entry \in [Entries -> [token : BOOLEAN, references : 0 .. Cardinality(Users),
                              poisoned : BOOLEAN]]
    /\ ids \subseteq Repositories /\ reservations \subseteq Repositories
    /\ cache \subseteq Repositories /\ temporary \subseteq Repositories
    /\ restarts \in 0 .. MaxRestarts

Idle == [pc |-> "idle", repository |-> None, entry |-> None, purpose |-> "cache"]
Fresh == [token |-> TRUE, references |-> 0, poisoned |-> FALSE]

Init ==
    /\ user = [u \in Users |-> Idle]
    /\ locks = [r \in Repositories |-> None]
    /\ entry = [e \in Entries |-> Fresh]
    /\ ids = {} /\ reservations = {} /\ cache = {} /\ temporary = {}
    /\ restarts = 0

Go(u, pc) == user' = [user EXCEPT ![u].pc = pc]
At(u, pc, purpose) == user[u].pc = pc /\ user[u].purpose = purpose

-----------------------------------------------------------------------------
(* repositoryLockSet.                                                      *)

Unused == {e \in Entries : entry[e].references = 0 /\ \A r \in Repositories : locks[r] # e}

Referenced(row) == [row EXCEPT !.references = @ + 1]

(* acquire, up to the wait.  A change is made in a clone that exists.      *)
Acquire(u, r, purpose) ==
    /\ user[u].pc = "idle"
    /\ purpose = "change" => r \in ids
    /\ \E e \in Entries :
         /\ IF locks[r] = None THEN e \in Unused ELSE e = locks[r]
         /\ locks' = [locks EXCEPT ![r] = e]
         /\ entry' = [entry EXCEPT ![e] = Referenced(IF locks[r] = None THEN Fresh ELSE @)]
         /\ user' = [user EXCEPT ![u] =
               [pc |-> "wait", repository |-> r, entry |-> e, purpose |-> purpose]]
    /\ UNCHANGED <<caching, restarts>>

(* Mistake: the entry is deleted whoever still refers to it.               *)
RemoveEntry(u) ==
    LET e == user[u].entry
        r == user[u].repository
    IN  /\ entry' = [entry EXCEPT ![e].references = @ - 1]
        /\ locks' = IF locks[r] = e /\ ~entry[e].poisoned
                    THEN [locks EXCEPT ![r] = None] ELSE locks
        /\ user' = [user EXCEPT ![u] = Idle]

RemoveReference(u) ==
    LET e == user[u].entry
        r == user[u].repository
    IN  /\ entry' = [entry EXCEPT ![e].references = @ - 1]
        /\ locks' = IF /\ entry[e].references = 1 /\ ~entry[e].poisoned
                       /\ locks[r] = e
                    THEN [locks EXCEPT ![r] = None] ELSE locks
        /\ user' = [user EXCEPT ![u] = Idle]

GiveUp(u) ==
    /\ user[u].pc = "wait"
    /\ RemoveReference(u)
    /\ UNCHANGED <<caching, restarts>>

Take(u) ==
    /\ user[u].pc = "wait"
    /\ entry[user[u].entry].token
    /\ entry' = [entry EXCEPT ![user[u].entry].token = FALSE]
    /\ Go(u, "check")
    /\ UNCHANGED <<locks, caching, restarts>>

(* Mistake: the refusal keeps the token.                                   *)
RefuseWithToken(u) ==
    /\ user[u].pc = "check"
    /\ entry[user[u].entry].poisoned
    /\ Go(u, "drop")
    /\ UNCHANGED <<locking, caching, restarts>>

Enter(u) ==
    /\ user[u].pc = "check"
    /\ ~entry[user[u].entry].poisoned
    /\ Go(u, "work")
    /\ UNCHANGED <<locking, caching, restarts>>

Refuse(u) ==
    /\ user[u].pc = "check"
    /\ entry[user[u].entry].poisoned
    /\ entry' = [entry EXCEPT ![user[u].entry].token = TRUE]
    /\ Go(u, "drop")
    /\ UNCHANGED <<locks, caching, restarts>>

(* The two halves of the release function.                                 *)
Release(u) ==
    /\ user[u].pc = "unlock"
    /\ entry' = [entry EXCEPT ![user[u].entry].token = TRUE]
    /\ Go(u, "drop")
    /\ UNCHANGED <<locks, caching, restarts>>

Drop(u) ==
    /\ user[u].pc = "drop"
    /\ RemoveReference(u)
    /\ UNCHANGED <<caching, restarts>>

-----------------------------------------------------------------------------
(* A change of the repository's Git metadata.                              *)

Change(u) ==
    /\ At(u, "work", "change")
    /\ Go(u, "unlock")
    /\ UNCHANGED <<locking, caching, restarts>>

(* The worktree was half made, or its identity cannot be established: the  *)
(* repository is closed before its lock is given up.                       *)
Poison(u) ==
    /\ At(u, "work", "change")
    /\ entry' = [entry EXCEPT ![locks[user[u].repository]].poisoned = TRUE]
    /\ Go(u, "unlock")
    /\ UNCHANGED <<locks, caching, restarts>>

-----------------------------------------------------------------------------
(* acquireManagedRepository.                                               *)

Repository(u) == user[u].repository

(* The entry exists, or inspecting the cache fails.                        *)
Inspect(u) ==
    /\ At(u, "work", "cache")
    /\ \/ Repository(u) \in cache /\ Go(u, "resolve")
       \/ Go(u, "unlock")
    /\ UNCHANGED <<locking, caching, restarts>>

(* reserveManagedRepositoryCache, and the temporary clone is begun.        *)
Reserve(u) ==
    /\ At(u, "work", "cache")
    /\ Repository(u) \notin cache
    /\ Cardinality(ids) + Cardinality(reservations) < MaxCache
    /\ reservations' = reservations \cup {Repository(u)}
    /\ temporary' = temporary \cup {Repository(u)}
    /\ Go(u, "clone")
    /\ UNCHANGED <<locking, ids, cache, restarts>>

(* Mistake: a failed clone returns before its reservation is finished.     *)
CloneFailsReserved(u) ==
    /\ user[u].pc = "clone"
    /\ temporary' = temporary \ {Repository(u)}
    /\ Go(u, "unlock")
    /\ UNCHANGED <<locking, ids, reservations, cache, restarts>>

(* The clone fails, is cancelled, or has another origin; removing the      *)
(* temporary directory may fail too.                                       *)
CloneFails(u) ==
    /\ user[u].pc = "clone"
    /\ temporary' \in {temporary, temporary \ {Repository(u)}}
    /\ reservations' = reservations \ {Repository(u)}
    /\ Go(u, "unlock")
    /\ UNCHANGED <<locking, ids, cache, restarts>>

Install(u) ==
    /\ user[u].pc = "clone"
    /\ cache' = cache \cup {Repository(u)}
    /\ Go(u, "installed")
    /\ UNCHANGED <<locking, ids, reservations, temporary, restarts>>

(* finishManagedRepositoryCacheReservation.  When the temporary directory  *)
(* cannot be removed the clone is installed and the caller fails.          *)
Finish(u) ==
    /\ user[u].pc = "installed"
    /\ reservations' = reservations \ {Repository(u)}
    /\ ids' = ids \cup {Repository(u)}
    /\ \/ temporary' = temporary \ {Repository(u)} /\ Go(u, "resolve")
       \/ UNCHANGED temporary /\ Go(u, "unlock")
    /\ UNCHANGED <<locking, cache, restarts>>

(* The clone is validated and its base resolved, or that fails.            *)
Resolve(u) ==
    /\ user[u].pc = "resolve"
    /\ \/ /\ reservations' = reservations \ {Repository(u)}
          /\ ids' = ids \cup {Repository(u)}
       \/ UNCHANGED <<ids, reservations>>
    /\ Go(u, "unlock")
    /\ UNCHANGED <<locking, cache, temporary, restarts>>

(* The worker stops at any step and starts again: managedRepositoryCacheIDs *)
(* removes what interrupted clones left and lists the rest.                *)
Restart ==
    /\ restarts < MaxRestarts
    /\ restarts' = restarts + 1
    /\ user' = [u \in Users |-> Idle]
    /\ locks' = [r \in Repositories |-> None]
    /\ entry' = [e \in Entries |-> Fresh]
    /\ ids' = cache /\ reservations' = {} /\ temporary' = {}
    /\ UNCHANGED cache

Steps(u) ==
    \/ Enter(u) \/ Refuse(u) \/ Release(u) \/ Drop(u) \/ Change(u) \/ Poison(u)
    \/ Inspect(u) \/ Reserve(u) \/ CloneFails(u) \/ Install(u) \/ Finish(u) \/ Resolve(u)

Next ==
    \/ \E u \in Users :
         \/ \E r \in Repositories, purpose \in Purposes : Acquire(u, r, purpose)
         \/ GiveUp(u) \/ Take(u) \/ Steps(u)
    \/ Restart

(* Every Git command and clone runs under a timeout, so a holder goes on;  *)
(* waiters queue on a channel, which serves them in turn.                  *)
Fairness == \A u \in Users : WF_vars(Steps(u)) /\ SF_vars(Take(u))

Spec == Init /\ [][Next]_vars /\ Fairness

-----------------------------------------------------------------------------
(* Properties.                                                             *)

(* Git metadata of one repository is changed by one user at a time, though *)
(* entries come and go between a release and the last reference's removal  *)
(* (repository_coordination.go:44, 58).                                    *)
OneHolder ==
    \A u, v \in Users :
        /\ user[u].pc \in Holding /\ user[v].pc \in Holding
        /\ user[u].repository = user[v].repository
        => u = v

(* repository_coordination.go:19: "Poisoned entries remain fail-closed":   *)
(* nobody who waited, or comes later, works in a poisoned repository.      *)
PoisonedIsClosed ==
    \A r \in Repositories :
        locks[r] # None /\ entry[locks[r]].poisoned =>
            \A u \in Users : user[u].repository = r => user[u].pc \notin Inside

(* The cache holds at most the advertised limit of clones, whatever        *)
(* clones fail, race or are cut off by a stop (repository_coordination.go:122). *)
CacheBounded == Cardinality(cache) <= MaxCache

(* What the next registration advertises is what the disk holds, except    *)
(* for a clone between its rename and the end of its reservation.          *)
AdvertisedIsCached ==
    /\ ids \subseteq cache
    /\ cache \ ids \subseteq {user[u].repository : u \in {v \in Users : user[v].pc = "installed"}}

(* docs/worker.md: "Failed or cancelled clones release their reservation": *)
(* a reservation is held only by a clone that is running.                  *)
ReservationsRunning ==
    \A r \in reservations :
        \E u \in Users : user[u].repository = r /\ user[u].pc \in {"clone", "installed"}

(* Nobody works in a repository beside another, or after a failed check    *)
(* has closed it.                                                          *)
ExclusiveUse == OneHolder /\ PoisonedIsClosed

(* The clones on disk, the reservations and the advertised identifiers     *)
(* account for each other and for the limit, whatever fails in between.    *)
CacheAccounted == CacheBounded /\ AdvertisedIsCached /\ ReservationsRunning

(* Whoever waits for a repository gets its turn or is refused: a refusal   *)
(* passes the token on, so a poisoned repository blocks nobody forever.    *)
WaitersServed ==
    \A u \in Users : user[u].pc = "wait" ~> user[u].pc # "wait"

=============================================================================
