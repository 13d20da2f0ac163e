-------------------- MODULE RepositoryCoordinationProofs --------------------
(***************************************************************************)
(* Theorems about RepositoryCoordination for any number of users,          *)
(* repositories and lock entries, any limit of the cache and any number of *)
(* restarts.                                                               *)
(***************************************************************************)
EXTENDS RepositoryCoordination, FiniteSetTheorems, TLAPS

-----------------------------------------------------------------------------
(* The inductive invariant of the lock.  A lock entry may be deleted only  *)
(* because its references are counted exactly; that is what keeps all      *)
(* users of a repository on one entry, whose token and mark they obey.     *)

UserRow == [pc : Referring \cup {"idle"}, repository : Repositories \cup {None},
            entry : Entries \cup {None}, purpose : Purposes]
EntryRow == [token : BOOLEAN, references : Nat, poisoned : BOOLEAN]

Refers(u, e) == user[u].pc # "idle" /\ user[u].entry = e
Referers(e) == {u \in Users : Refers(u, e)}
Holds(u) == user[u].pc \in Holding

Rows ==
    /\ user \in [Users -> UserRow]
    /\ locks \in [Repositories -> Entries \cup {None}]
    /\ entry \in [Entries -> EntryRow]

(* Whoever is in the lock of a repository has the entry that is there.     *)
Attached ==
    \A u \in Users : user[u].pc # "idle" =>
        /\ user[u].repository \in Repositories /\ user[u].entry \in Entries
        /\ locks[user[u].repository] = user[u].entry

OwnEntries ==
    \A r, s \in Repositories : locks[r] = locks[s] /\ locks[r] # None => r = s

Counted == \A e \in Entries : entry[e].references = Cardinality(Referers(e))

(* The token of an entry is with its one holder, or in the entry.          *)
OneToken ==
    /\ \A u \in Users : Holds(u) => ~entry[user[u].entry].token
    /\ \A u, v \in Users : Holds(u) /\ Holds(v) /\ user[u].entry = user[v].entry => u = v

Closed == \A u \in Users : user[u].pc \in Inside => ~entry[user[u].entry].poisoned

LockInv == Rows /\ Attached /\ OwnEntries /\ Counted /\ OneToken /\ Closed

LEMMA ReferersFinite ==
  ASSUME NEW e
  PROVE  /\ IsFiniteSet(Referers(e)) /\ IsFiniteSet(Referers(e)')
         /\ Cardinality(Referers(e)) \in 0 .. Cardinality(Users)
<1>1. Referers(e) \in SUBSET Users /\ Referers(e)' \in SUBSET Users
  BY DEF Referers
<1>2. /\ IsFiniteSet(Referers(e)) /\ Cardinality(Referers(e)) <= Cardinality(Users)
      /\ IsFiniteSet(Referers(e)')
  BY <1>1, UsersAssumption, FS_Subset, Zenon
<1>3. QED
  BY <1>2, UsersAssumption, FS_CardinalityType

LEMMA LockInit == Init => LockInv
<1> SUFFICES ASSUME Init PROVE LockInv
  OBVIOUS
<1>1. Rows
  BY DEF Init, Rows, UserRow, EntryRow, Idle, Fresh, Purposes
<1>2. Counted
  <2>1. \A e : Referers(e) = {}
    BY DEF Init, Referers, Refers, Idle
  <2>2. QED
    BY <2>1, FS_EmptySet DEF Init, Counted, Fresh
<1>3. QED
  BY <1>1, <1>2 DEF Init, LockInv, Attached, OwnEntries, OneToken, Closed, Idle, Fresh, Holds,
     Holding, Inside

(* A user that goes from one step to another in the lock, and changes no   *)
(* more than its own entry's token and mark.                               *)
Moves(u, to) ==
    /\ user[u].pc # "idle" /\ to \in Referring
    /\ user' = [user EXCEPT ![u].pc = to]
    /\ UNCHANGED locks
    /\ entry' \in [Entries -> EntryRow]
    /\ \A e \in Entries : entry'[e].references = entry[e].references
    /\ \A e \in Entries \ {user[u].entry} : entry'[e] = entry[e]

LEMMA MoveKeepsRows ==
  ASSUME LockInv, NEW u \in Users, NEW to, Moves(u, to)
  PROVE  /\ Rows' /\ Attached' /\ OwnEntries' /\ Counted'
         /\ \A v \in Users : /\ user'[v].entry = user[v].entry
                             /\ user'[v].pc = IF v = u THEN to ELSE user[v].pc
<1>1. Rows'
  BY DEF LockInv, Rows, Moves, UserRow, Purposes
<1>2. /\ \A v \in Users : /\ user'[v].entry = user[v].entry
                          /\ user'[v].repository = user[v].repository
                          /\ user'[v].pc = IF v = u THEN to ELSE user[v].pc
      /\ to # "idle"
  BY DEF LockInv, Rows, Moves, UserRow, Referring, Holding, Inside
<1>3. Attached' /\ OwnEntries'
  BY <1>2 DEF LockInv, Attached, OwnEntries, Moves
<1>4. \A e \in Entries : Referers(e)' = Referers(e)
  BY <1>2 DEF Referers, Refers, Moves
<1>5. Counted'
  BY <1>4 DEF LockInv, Counted, Moves
<1> QED
  BY <1>1, <1>2, <1>3, <1>5

(* It goes on holding the token, or gives it back, and works only where    *)
(* the mark is not set.                                                    *)
LEMMA HolderMoves ==
  ASSUME LockInv, NEW u \in Users, NEW to, Moves(u, to), Holds(u),
         to \in Holding => ~entry'[user[u].entry].token,
         to \in Inside => ~entry'[user[u].entry].poisoned
  PROVE  LockInv'
<1>1. /\ Rows' /\ Attached' /\ OwnEntries' /\ Counted'
      /\ \A v \in Users : /\ user'[v].entry = user[v].entry
                          /\ user'[v].pc = IF v = u THEN to ELSE user[v].pc
  BY MoveKeepsRows
<1>2. \A v \in Users \ {u} : Holds(v) => user[v].entry # user[u].entry
  BY DEF LockInv, OneToken
<1>3. \A v \in Users : Holds(v) => user[v].entry \in Entries
  BY DEF LockInv, Attached, Holds, Holding, Inside
<1>4. OneToken'
  BY <1>1, <1>2, <1>3 DEF LockInv, OneToken, Holds, Moves
<1>5. Closed'
  BY <1>1, <1>2, <1>3 DEF LockInv, Closed, Holds, Moves, Holding
<1> QED
  BY <1>1, <1>4, <1>5 DEF LockInv

-----------------------------------------------------------------------------
(* The steps of repositoryLockSet. *)

LEMMA AcquireKeepsLock ==
  ASSUME LockInv, NEW u \in Users, NEW r \in Repositories, NEW purpose \in Purposes,
         Acquire(u, r, purpose)
  PROVE  LockInv'
<1>1. PICK e \in Entries :
        /\ IF locks[r] = None THEN e \in Unused ELSE e = locks[r]
        /\ locks' = [locks EXCEPT ![r] = e]
        /\ entry' = [entry EXCEPT ![e] = Referenced(IF locks[r] = None THEN Fresh ELSE @)]
        /\ user' = [user EXCEPT ![u] =
              [pc |-> "wait", repository |-> r, entry |-> e, purpose |-> purpose]]
  BY DEF Acquire
<1>2. user[u].pc = "idle"
  BY DEF Acquire
<1>3. /\ entry' = [entry EXCEPT ![e] = entry'[e]] /\ entry'[e] \in EntryRow
      /\ entry'[e].references = entry[e].references + 1
      /\ locks[r] # None => entry'[e].token = entry[e].token /\ entry'[e].poisoned = entry[e].poisoned
  <2> DEFINE before == IF locks[r] = None THEN Fresh ELSE entry[e]
  <2>1. entry[e] \in EntryRow /\ entry \in [Entries -> EntryRow]
    BY DEF LockInv, Rows
  <2>2. before \in EntryRow /\ before.references = entry[e].references
    BY <1>1, <2>1 DEF Fresh, EntryRow, Unused
  <2>3. entry' = [entry EXCEPT ![e] = Referenced(before)]
    BY <1>1, Zenon
  <2>4. locks[r] # None => before = entry[e]
    OBVIOUS
  <2> HIDE DEF before
  <2>5. /\ Referenced(before) \in EntryRow
        /\ Referenced(before).references = before.references + 1
        /\ Referenced(before).token = before.token /\ Referenced(before).poisoned = before.poisoned
    BY <2>2 DEF Referenced, EntryRow
  <2>6. entry'[e] = Referenced(before)
    BY <2>1, <2>3
  <2>7. QED
    BY <2>2, <2>3, <2>4, <2>5, <2>6
<1>16. Rows'
  <2>1. entry' \in [Entries -> EntryRow]
    BY <1>3 DEF LockInv, Rows, EntryRow, Fresh
  <2>2. locks' \in [Repositories -> Entries \cup {None}]
    BY <1>1 DEF LockInv, Rows
  <2>3. user' \in [Users -> UserRow]
    BY <1>1 DEF LockInv, Rows, UserRow, Referring
  <2>4. QED
    BY <2>1, <2>2, <2>3 DEF Rows
<1>4. \A v \in Users : user'[v] =
        IF v = u THEN [pc |-> "wait", repository |-> r, entry |-> e, purpose |-> purpose] ELSE user[v]
  BY <1>1 DEF LockInv, Rows
<1>5. \A s \in Repositories \ {r} : locks'[s] = locks[s] /\ locks[s] # e
  BY <1>1, NoneAssumption DEF LockInv, Rows, OwnEntries, Unused
<1>6. locks'[r] = e
  BY <1>1 DEF LockInv, Rows
<1>7. locks[r] = None => \A v \in Users : user[v].pc # "idle" => user[v].entry # e /\ user[v].repository # r
  BY <1>1, NoneAssumption DEF LockInv, Attached, Unused
<1>8. Attached'
  BY <1>1, <1>4, <1>5, <1>6, <1>7 DEF LockInv, Attached
<1>9. OwnEntries'
  BY <1>5, <1>6 DEF LockInv, OwnEntries
<1>10. \A d \in Entries \ {e} : entry'[d] = entry[d]
  BY <1>3 DEF LockInv, Rows
<1>11. Counted'
  <2>1. \A d \in Entries \ {e} : Referers(d)' = Referers(d)
    BY <1>2, <1>4 DEF Referers, Refers
  <2>2. Referers(e)' = Referers(e) \cup {u} /\ u \notin Referers(e)
    BY <1>2, <1>4 DEF Referers, Refers
  <2>3. Cardinality(Referers(e)') = Cardinality(Referers(e)) + 1
    BY <2>2, ReferersFinite, FS_AddElement
  <2>4. QED
    BY <1>3, <1>10, <2>1, <2>3 DEF LockInv, Counted
<1>12. \A v \in Users : /\ Holds(v)' <=> Holds(v)
                        /\ user'[v].pc \in Inside <=> user[v].pc \in Inside
  BY <1>2, <1>4 DEF Holds, Holding, Inside
<1>13. \A v \in Users : Holds(v) =>
         /\ user'[v] = user[v] /\ entry'[user[v].entry].token = entry[user[v].entry].token
         /\ entry'[user[v].entry].poisoned = entry[user[v].entry].poisoned
  BY <1>2, <1>3, <1>4, <1>7, <1>10 DEF LockInv, Attached, Holds, Holding, Inside
<1>14. OneToken'
  BY <1>12, <1>13 DEF LockInv, OneToken
<1>15. Closed'
  BY <1>12, <1>13 DEF LockInv, Closed, Holds, Holding
<1> QED
  BY <1>16, <1>8, <1>9, <1>11, <1>14, <1>15 DEF LockInv

LEMMA TakeKeepsLock ==
  ASSUME LockInv, NEW u \in Users, Take(u)
  PROVE  LockInv'
<1>1. /\ user[u].pc = "wait" /\ entry[user[u].entry].token /\ user[u].entry \in Entries
      /\ entry' = [entry EXCEPT ![user[u].entry].token = FALSE]
  BY DEF Take, LockInv, Attached
<1>2. Moves(u, "check")
  <2>1. entry' \in [Entries -> EntryRow]
    BY <1>1 DEF LockInv, Rows, EntryRow
  <2>2. /\ \A e \in Entries : entry'[e].references = entry[e].references
        /\ \A e \in Entries \ {user[u].entry} : entry'[e] = entry[e]
    BY <1>1 DEF LockInv, Rows, EntryRow
  <2>3. QED
    BY <1>1, <2>1, <2>2 DEF Take, Go, Moves, Referring, Holding
<1>3. /\ Rows' /\ Attached' /\ OwnEntries' /\ Counted'
      /\ \A v \in Users : /\ user'[v].entry = user[v].entry
                          /\ user'[v].pc = IF v = u THEN "check" ELSE user[v].pc
  BY <1>2, MoveKeepsRows
<1>4. /\ \A e \in Entries : entry'[e].token = (entry[e].token /\ e # user[u].entry)
      /\ \A e \in Entries : entry'[e].poisoned = entry[e].poisoned
  BY <1>1 DEF LockInv, Rows, EntryRow
<1>5. \A v \in Users : Holds(v) => user[v].entry \in Entries \ {user[u].entry}
  BY <1>1 DEF LockInv, OneToken, Attached, Holds, Holding, Inside
<1>6. \A v \in Users : Holds(v)' => v = u \/ Holds(v)
  BY <1>3 DEF Holds
<1>7. OneToken'
  <2>1. ASSUME NEW v \in Users, Holds(v)'
        PROVE  ~entry'[user'[v].entry].token
    BY <1>1, <1>3, <1>4, <1>5, <1>6, <2>1 DEF LockInv, OneToken
  <2>2. ASSUME NEW v \in Users, NEW x \in Users, Holds(v)', Holds(x)', user'[v].entry = user'[x].entry
        PROVE  v = x
    BY <1>3, <1>5, <1>6, <2>2 DEF LockInv, OneToken
  <2>3. QED
    BY <2>1, <2>2 DEF OneToken
<1>8. Closed'
  <2>1. \A v \in Users : user'[v].pc \in Inside => Holds(v) /\ user[v].pc \in Inside
    BY <1>3 DEF Inside, Holds, Holding
  <2>2. QED
    BY <1>3, <1>4, <1>5, <2>1 DEF LockInv, Closed
<1> QED
  BY <1>3, <1>7, <1>8 DEF LockInv

(* The last reference takes the entry out; all others leave it there for   *)
(* whoever still refers to it.                                             *)
LEMMA RemovalKeepsLock ==
  ASSUME LockInv, NEW u \in Users, user[u].pc \in {"wait", "drop"}, RemoveReference(u)
  PROVE  LockInv'
<1>1. PICK e \in Entries, r \in Repositories :
        /\ e = user[u].entry /\ r = user[u].repository /\ locks[r] = e /\ e # None
        /\ u \in Referers(e) /\ ~Holds(u)
  BY NoneAssumption DEF LockInv, Attached, Referers, Refers, Holds, Holding, Inside
<1>2. /\ entry' = [entry EXCEPT ![e].references = @ - 1]
      /\ locks' = IF entry[e].references = 1 /\ ~entry[e].poisoned
                  THEN [locks EXCEPT ![r] = None] ELSE locks
      /\ user' = [user EXCEPT ![u] = Idle]
  BY <1>1 DEF RemoveReference
<1>3. \A v \in Users : user'[v] = IF v = u THEN Idle ELSE user[v]
  BY <1>2 DEF LockInv, Rows
<1>4. /\ Referers(e)' = Referers(e) \ {u}
      /\ \A d \in Entries \ {e} : Referers(d)' = Referers(d)
  BY <1>1, <1>3 DEF Referers, Refers, Idle
<1>5. /\ entry[e].references \in Nat \ {0}
      /\ entry[e].references = Cardinality(Referers(e))
      /\ Cardinality(Referers(e)') = Cardinality(Referers(e)) - 1
  <2>1. entry[e].references = Cardinality(Referers(e)) /\ entry[e].references \in Nat
    BY <1>1 DEF LockInv, Counted, Rows, EntryRow
  <2>2. Cardinality(Referers(e)) # 0
    BY <1>1, ReferersFinite, FS_EmptySet
  <2>3. Cardinality(Referers(e)') = Cardinality(Referers(e)) - 1
    BY <1>1, <1>4, ReferersFinite, FS_RemoveElement
  <2>4. QED
    BY <2>1, <2>2, <2>3
<1>6. /\ \A d \in Entries : /\ entry'[d].token = entry[d].token
                            /\ entry'[d].poisoned = entry[d].poisoned
      /\ \A d \in Entries \ {e} : entry'[d] = entry[d]
      /\ entry'[e].references = entry[e].references - 1
  BY <1>1, <1>2 DEF LockInv, Rows, EntryRow
<1>7. Rows'
  <2>1. entry[e].references - 1 \in Nat
    BY <1>5
  <2>2. entry' \in [Entries -> EntryRow]
    BY <1>1, <1>2, <2>1 DEF LockInv, Rows, EntryRow
  <2>3. user' \in [Users -> UserRow] /\ locks' \in [Repositories -> Entries \cup {None}]
    BY <1>2 DEF LockInv, Rows, UserRow, Idle, Purposes
  <2>4. QED
    BY <2>2, <2>3 DEF Rows
<1>8. Counted'
  BY <1>4, <1>5, <1>6 DEF LockInv, Counted
<1>10. Attached'
  <2>1. ASSUME NEW v \in Users \ {u}, user[v].pc # "idle", user[v].entry = e
        PROVE  entry[e].references # 1
    <3>1. v \in Referers(e) /\ u \in Referers(e) /\ u # v
      BY <2>1, <1>1 DEF Referers, Refers
    <3>2. Cardinality(Referers(e)) # 1
      BY <3>1, ReferersFinite, FS_Singleton
    <3>3. QED
      BY <1>5, <3>2
  <2>2. ASSUME NEW v \in Users, user'[v].pc # "idle"
        PROVE  /\ v # u /\ user'[v] = user[v] /\ user[v].entry \in Entries
               /\ user[v].repository \in Repositories /\ locks[user[v].repository] = user[v].entry
    BY <1>3, <2>2 DEF LockInv, Attached, Idle
  <2>3. ASSUME NEW v \in Users, user'[v].pc # "idle"
        PROVE  locks'[user[v].repository] = user[v].entry
    <3>1. CASE user[v].entry = e
      BY <1>2, <2>1, <2>2, <2>3, <3>1
    <3>2. CASE user[v].entry # e
      BY <1>1, <1>2, <2>2, <2>3, <3>2 DEF LockInv, Rows
    <3>3. QED
      BY <3>1, <3>2
  <2>4. QED
    BY <2>2, <2>3 DEF Attached
<1>11. OwnEntries'
  BY <1>2 DEF LockInv, Rows, OwnEntries
<1>12. \A v \in Users : Holds(v)' => v # u /\ Holds(v)
  BY <1>3 DEF Holds, Idle, Holding, Inside
<1>13. \A v \in Users : Holds(v) => user[v].entry \in Entries
  BY DEF LockInv, Attached, Holds, Holding, Inside
<1>14. OneToken'
  BY <1>6, <1>3, <1>12, <1>13 DEF LockInv, OneToken
<1>15. Closed'
  BY <1>6, <1>3, <1>12, <1>13 DEF LockInv, Closed, Holds, Holding
<1> QED
  BY <1>7, <1>8, <1>10, <1>11, <1>14, <1>15 DEF LockInv

(* What a holder does to its entry on the way: a refusal and a release     *)
(* give the token back, a failed check sets the mark.                      *)
LEMMA HolderStepKeepsLock ==
  ASSUME LockInv, NEW u \in Users, Steps(u), ~Drop(u)
  PROVE  LockInv'
<1>1. ASSUME Holds(u)
      PROVE  user[u].entry \in Entries /\ locks[user[u].repository] = user[u].entry /\ user[u].pc # "idle"
  BY <1>1 DEF LockInv, Attached, Holds, Holding, Inside
<1>2. ASSUME Holds(u), NEW to \in Referring, Go(u, to), UNCHANGED locking,
             to \in Inside => ~entry[user[u].entry].poisoned
      PROVE  LockInv'
  <2>1. Moves(u, to)
    BY <1>1, <1>2 DEF Moves, Go, locking, LockInv, Rows
  <2>2. QED
    BY <1>2, <2>1, HolderMoves DEF LockInv, OneToken, locking
<1>3. ASSUME Holds(u), Go(u, "drop"), UNCHANGED locks,
             entry' = [entry EXCEPT ![user[u].entry].token = TRUE]
      PROVE  LockInv'
  <2>1. Moves(u, "drop")
    BY <1>1, <1>3 DEF Moves, Go, Referring, Holding, LockInv, Rows, EntryRow
  <2>2. QED
    BY <1>3, <2>1, HolderMoves DEF Holding, Inside
<1>4. CASE Enter(u)
  BY <1>2, <1>4 DEF Enter, Holds, Holding, Inside, Referring
<1>5. CASE Refuse(u)
  BY <1>3, <1>5 DEF Refuse, Holds, Holding
<1>6. CASE Release(u)
  BY <1>3, <1>6 DEF Release, Holds, Holding
<1>7. CASE Change(u)
  BY <1>2, <1>7 DEF Change, At, Holds, Holding, Inside, Referring
<1>8. CASE Poison(u)
  <2>1. Holds(u)
    BY <1>8 DEF Poison, At, Holds, Holding, Inside
  <2>2. entry' = [entry EXCEPT ![user[u].entry].poisoned = TRUE]
    BY <1>1, <1>8, <2>1 DEF Poison
  <2>3. /\ entry' \in [Entries -> EntryRow]
        /\ \A e \in Entries : entry'[e].references = entry[e].references
        /\ \A e \in Entries : entry'[e].token = entry[e].token
        /\ \A e \in Entries \ {user[u].entry} : entry'[e] = entry[e]
    BY <1>1, <2>1, <2>2 DEF LockInv, Rows, EntryRow
  <2>4. Moves(u, "unlock")
    BY <1>1, <1>8, <2>1, <2>3 DEF Moves, Poison, Go, Referring, Holding
  <2>5. QED
    BY <1>1, <2>1, <2>3, <2>4, HolderMoves DEF Inside, LockInv, OneToken
<1> DEFINE inside == user[u].pc \in Inside /\ ~entry[user[u].entry].poisoned
<1>9. user[u].pc \in Inside => inside /\ Holds(u)
  BY DEF LockInv, Closed, Holds, Holding
<1>10. CASE Inspect(u)
  BY <1>2, <1>9, <1>10 DEF Inspect, At, Inside, Holding, Referring
<1>11. CASE Reserve(u)
  BY <1>2, <1>9, <1>11 DEF Reserve, At, Inside, Holding, Referring
<1>12. CASE CloneFails(u)
  BY <1>2, <1>9, <1>12 DEF CloneFails, Inside, Holding, Referring
<1>13. CASE Install(u)
  BY <1>2, <1>9, <1>13 DEF Install, Inside, Holding, Referring
<1>14. CASE Finish(u)
  BY <1>2, <1>9, <1>14 DEF Finish, Inside, Holding, Referring
<1>15. CASE Resolve(u)
  BY <1>2, <1>9, <1>15 DEF Resolve, Inside, Holding, Referring
<1> QED
  BY <1>4, <1>5, <1>6, <1>7, <1>8, <1>10, <1>11, <1>12, <1>13, <1>14, <1>15 DEF Steps

LEMMA RestartKeepsLock ==
  ASSUME Restart
  PROVE  LockInv'
<1>1. Rows'
  BY DEF Restart, Rows, UserRow, EntryRow, Idle, Fresh, Purposes
<1>2. Counted'
  <2>1. \A e : Referers(e)' = {}
    BY DEF Restart, Referers, Refers, Idle
  <2>2. QED
    BY <2>1, FS_EmptySet DEF Restart, Counted, Fresh
<1>3. QED
  BY <1>1, <1>2 DEF Restart, LockInv, Attached, OwnEntries, OneToken, Closed, Idle, Fresh, Holds,
     Holding, Inside

LEMMA LockStep == LockInv /\ [Next]_vars => LockInv'
<1> SUFFICES ASSUME LockInv, [Next]_vars PROVE LockInv'
  OBVIOUS
<1>1. CASE UNCHANGED vars
  BY <1>1 DEF vars, LockInv, Rows, Attached, OwnEntries, Counted, Referers, Refers, OneToken,
     Closed, Holds
<1>2. CASE Restart
  BY <1>2, RestartKeepsLock
<1>3. ASSUME NEW u \in Users, NEW r \in Repositories, NEW purpose \in Purposes, Acquire(u, r, purpose)
      PROVE  LockInv'
  BY <1>3, AcquireKeepsLock
<1>4. ASSUME NEW u \in Users, GiveUp(u) \/ Drop(u)
      PROVE  LockInv'
  BY <1>4, RemovalKeepsLock DEF GiveUp, Drop
<1>5. ASSUME NEW u \in Users, Take(u)
      PROVE  LockInv'
  BY <1>5, TakeKeepsLock
<1>6. ASSUME NEW u \in Users, Steps(u)
      PROVE  LockInv'
  BY <1>4, <1>6, HolderStepKeepsLock
<1> QED
  BY <1>1, <1>2, <1>3, <1>4, <1>5, <1>6 DEF Next

\* Nobody works in a repository beside another user, or after a failed check
\* has closed it (repository_coordination.go:44-63): the entry that a waiter
\* was given is the one that later comers find, as long as it is referred to.
THEOREM ExclusiveUseCorrect == Spec => []ExclusiveUse
<1>1. LockInv => ExclusiveUse
  <2> SUFFICES ASSUME LockInv PROVE ExclusiveUse
    OBVIOUS
  <2>1. OneHolder
    BY DEF LockInv, OneToken, Attached, OneHolder, Holds, Holding, Inside
  <2>2. PoisonedIsClosed
    BY DEF LockInv, Attached, Closed, PoisonedIsClosed, Inside
  <2>3. QED
    BY <2>1, <2>2 DEF ExclusiveUse
<1>2. QED
  BY <1>1, LockInit, LockStep, PTL DEF Spec

-----------------------------------------------------------------------------
(* The inductive invariant of the cache.  A reservation belongs to exactly *)
(* one user, which holds the repository's lock; so what is in the cache is *)
(* counted once, as an identifier or as a reservation.                     *)

Clones(u) == user[u].pc \in {"clone", "installed"}

CacheRows == /\ ids \subseteq Repositories /\ reservations \subseteq Repositories
             /\ cache \subseteq Repositories /\ temporary \subseteq Repositories

Reserved ==
    \A r \in Repositories :
        r \in reservations <=> \E u \in Users : user[u].repository = r /\ Clones(u)

CacheKnown ==
    /\ ids \subseteq cache
    /\ \A r \in cache \ ids : \E u \in Users : user[u].repository = r /\ user[u].pc = "installed"
    /\ \A u \in Users : /\ user[u].pc = "resolve" => user[u].repository \in ids
                        /\ user[u].pc = "installed" => user[u].repository \in cache

Within(n) ==
    /\ IsFiniteSet(ids) /\ IsFiniteSet(reservations)
    /\ Cardinality(ids) + Cardinality(reservations) <= n

CacheInv == CacheRows /\ Reserved /\ CacheKnown /\ Within(MaxCache)

(* A user holds its repository alone.                                      *)
LEMMA AloneInside ==
  ASSUME LockInv, NEW u \in Users, user[u].pc \in Inside
  PROVE  /\ user[u].repository \in Repositories
         /\ \A v \in Users \ {u} : user[v].pc \in Inside => user[v].repository # user[u].repository
BY DEF LockInv, Attached, OneToken, Holds, Holding, Inside

LEMMA CacheInit == Init => CacheInv
<1> SUFFICES ASSUME Init PROVE CacheInv
  OBVIOUS
<1>1. Within(MaxCache)
  BY FS_EmptySet, MaxCacheAssumption DEF Init, Within
<1>2. QED
  BY <1>1 DEF Init, CacheInv, CacheRows, Reserved, CacheKnown, Clones, Idle

(* Steps that leave the cache and whoever works in it alone.               *)
LEMMA CacheUntouched ==
  ASSUME CacheInv, UNCHANGED caching,
         \A u \in Users : \/ user'[u] = user[u]
                          \/ ~Clones(u) /\ ~Clones(u)' /\ user'[u].pc # "resolve"
  PROVE  CacheInv'
<1>1. CacheRows' /\ Within(MaxCache)'
  BY DEF CacheInv, CacheRows, Within, caching
<1>2. Reserved'
  BY DEF CacheInv, Reserved, caching, Clones
<1>3. CacheKnown'
  BY DEF CacheInv, CacheKnown, caching, Clones
<1> QED
  BY <1>1, <1>2, <1>3 DEF CacheInv

LEMMA LockStepKeepsCache ==
  ASSUME LockInv, CacheInv, NEW u \in Users,
         \/ \E r \in Repositories, purpose \in Purposes : Acquire(u, r, purpose)
         \/ GiveUp(u) \/ Take(u) \/ Enter(u) \/ Refuse(u) \/ Release(u) \/ Drop(u)
         \/ Change(u) \/ Poison(u)
  PROVE  CacheInv'
<1>1. /\ UNCHANGED caching /\ user[u].pc \notin {"clone", "installed"}
      /\ \/ user' = [user EXCEPT ![u] = Idle]
         \/ \E pc \in {"check", "drop", "work", "unlock"} : user' = [user EXCEPT ![u].pc = pc]
         \/ \E r \in Repositories, e \in Entries, purpose \in Purposes :
              user' = [user EXCEPT ![u] =
                 [pc |-> "wait", repository |-> r, entry |-> e, purpose |-> purpose]]
  BY DEF Acquire, GiveUp, Take, Enter, Refuse, Release, Drop, Change, Poison, RemoveReference, Go, At
<1>2. \A v \in Users \ {u} : user'[v] = user[v]
  BY <1>1 DEF LockInv, Rows
<1>3. user'[u].pc \notin {"clone", "installed", "resolve"}
  BY <1>1 DEF LockInv, Rows, Idle, UserRow
<1> QED
  BY <1>1, <1>2, <1>3, CacheUntouched DEF Clones

-----------------------------------------------------------------------------
(* The steps of acquireManagedRepository. *)

LEMMA InspectKeepsCache ==
  ASSUME LockInv, CacheInv, NEW u \in Users, Inspect(u)
  PROVE  CacheInv'
<1>1. PICK pc \in {"resolve", "unlock"} :
        user' = [user EXCEPT ![u].pc = pc] /\ (pc = "resolve" => user[u].repository \in cache)
  BY DEF Inspect, Go, Repository
<1>2. UNCHANGED caching /\ user[u].pc = "work"
  BY DEF Inspect, At
<1>3. \A v \in Users : /\ user'[v].repository = user[v].repository
                       /\ user'[v].pc = IF v = u THEN pc ELSE user[v].pc
  BY <1>1 DEF LockInv, Rows, UserRow
<1>4. user[u].repository \in cache => user[u].repository \in ids
  BY <1>2, AloneInside DEF CacheInv, CacheKnown, Inside
<1>5. Reserved'
  BY <1>1, <1>2, <1>3 DEF CacheInv, Reserved, caching, Clones
<1>6. CacheKnown'
  BY <1>1, <1>2, <1>3, <1>4 DEF CacheInv, CacheKnown, caching, Clones
<1> QED
  BY <1>2, <1>5, <1>6 DEF CacheInv, CacheRows, Within, caching

LEMMA ReserveKeepsCache ==
  ASSUME LockInv, CacheInv, NEW u \in Users, Reserve(u)
  PROVE  CacheInv'
<1>1. /\ user[u].pc = "work" /\ user' = [user EXCEPT ![u].pc = "clone"]
      /\ reservations' = reservations \cup {user[u].repository}
      /\ temporary' = temporary \cup {user[u].repository}
      /\ ids' = ids /\ cache' = cache
      /\ Cardinality(ids) + Cardinality(reservations) < MaxCache
  BY DEF Reserve, At, Go, Repository
<1>2. user[u].repository \in Repositories
  BY <1>1, AloneInside DEF Inside
<1>3. \A v \in Users : /\ user'[v].repository = user[v].repository
                       /\ user'[v].pc = IF v = u THEN "clone" ELSE user[v].pc
  BY <1>1 DEF LockInv, Rows, UserRow
<1>4. CacheRows'
  BY <1>1, <1>2 DEF CacheInv, CacheRows
<1>5. Reserved'
  BY <1>1, <1>3 DEF CacheInv, Reserved, Clones
<1>6. CacheKnown'
  BY <1>1, <1>3 DEF CacheInv, CacheKnown
<1>7. Within(MaxCache)'
  <2>1. IsFiniteSet(ids) /\ IsFiniteSet(reservations)
    BY DEF CacheInv, Within
  <2>2. /\ IsFiniteSet(reservations') /\ Cardinality(ids) \in Nat /\ Cardinality(reservations) \in Nat
        /\ Cardinality(reservations') \in {Cardinality(reservations), Cardinality(reservations) + 1}
    BY <1>1, <2>1, FS_AddElement, FS_CardinalityType
  <2>3. QED
    BY <1>1, <2>1, <2>2, MaxCacheAssumption DEF Within
<1> QED
  BY <1>4, <1>5, <1>6, <1>7 DEF CacheInv

LEMMA CloneFailsKeepsCache ==
  ASSUME LockInv, CacheInv, NEW u \in Users, CloneFails(u)
  PROVE  CacheInv'
<1>1. /\ user[u].pc = "clone" /\ user' = [user EXCEPT ![u].pc = "unlock"]
      /\ reservations' = reservations \ {user[u].repository} /\ temporary' \subseteq temporary
      /\ ids' = ids /\ cache' = cache
  BY DEF CloneFails, Go, Repository
<1>2. \A v \in Users : /\ user'[v].repository = user[v].repository
                       /\ user'[v].pc = IF v = u THEN "unlock" ELSE user[v].pc
  BY <1>1 DEF LockInv, Rows, UserRow
<1>3. \A v \in Users \ {u} : Clones(v) => user[v].repository # user[u].repository
  BY <1>1, AloneInside DEF Clones, Inside
<1>4. CacheRows'
  BY <1>1 DEF CacheInv, CacheRows
<1>5. Reserved'
  BY <1>1, <1>2, <1>3 DEF CacheInv, Reserved, Clones
<1>6. CacheKnown'
  BY <1>1, <1>2 DEF CacheInv, CacheKnown
<1>7. Within(MaxCache)'
  <2>1. IsFiniteSet(ids) /\ IsFiniteSet(reservations)
    BY DEF CacheInv, Within
  <2>2. /\ IsFiniteSet(reservations') /\ Cardinality(reservations') <= Cardinality(reservations)
        /\ Cardinality(ids) \in Nat /\ Cardinality(reservations) \in Nat
        /\ Cardinality(reservations') \in Nat
    BY <1>1, <2>1, FS_Subset, FS_CardinalityType
  <2>3. QED
    BY <1>1, <2>1, <2>2, MaxCacheAssumption DEF CacheInv, Within
<1> QED
  BY <1>4, <1>5, <1>6, <1>7 DEF CacheInv

LEMMA InstallKeepsCache ==
  ASSUME LockInv, CacheInv, NEW u \in Users, Install(u)
  PROVE  CacheInv'
<1>1. /\ user[u].pc = "clone" /\ user' = [user EXCEPT ![u].pc = "installed"]
      /\ cache' = cache \cup {user[u].repository}
      /\ UNCHANGED <<ids, reservations, temporary>>
  BY DEF Install, Go, Repository
<1>2. \A v \in Users : /\ user'[v].repository = user[v].repository
                       /\ user'[v].pc = IF v = u THEN "installed" ELSE user[v].pc
  BY <1>1 DEF LockInv, Rows, UserRow
<1>3. CacheRows' /\ Within(MaxCache)'
  BY <1>1, AloneInside DEF CacheInv, CacheRows, Within, Inside
<1>4. Reserved'
  BY <1>1, <1>2 DEF CacheInv, Reserved, Clones
<1>5. CacheKnown'
  BY <1>1, <1>2 DEF CacheInv, CacheKnown
<1> QED
  BY <1>3, <1>4, <1>5 DEF CacheInv

(* The place that was reserved becomes the clone's.                        *)
LEMMA FinishKeepsCache ==
  ASSUME LockInv, CacheInv, NEW u \in Users, Finish(u)
  PROVE  CacheInv'
<1>1. PICK pc \in {"resolve", "unlock"} : user' = [user EXCEPT ![u].pc = pc]
  BY DEF Finish, Go
<1>2. /\ user[u].pc = "installed" /\ user[u].repository \in cache
      /\ reservations' = reservations \ {user[u].repository}
      /\ ids' = ids \cup {user[u].repository} /\ temporary' \subseteq temporary /\ cache' = cache
  BY DEF Finish, Repository, CacheInv, CacheKnown
<1>3. \A v \in Users : /\ user'[v].repository = user[v].repository
                       /\ user'[v].pc = IF v = u THEN pc ELSE user[v].pc
  BY <1>1 DEF LockInv, Rows, UserRow
<1>4. /\ \A v \in Users \ {u} : Clones(v) => user[v].repository # user[u].repository
      /\ user[u].repository \in Repositories
  BY <1>2, AloneInside DEF Clones, Inside
<1>5. CacheRows'
  BY <1>2, <1>4 DEF CacheInv, CacheRows
<1>6. Reserved'
  BY <1>1, <1>2, <1>3, <1>4 DEF CacheInv, Reserved, Clones
<1>7. CacheKnown'
  BY <1>1, <1>2, <1>3 DEF CacheInv, CacheKnown
<1>8. Within(MaxCache)'
  <2>1. IsFiniteSet(ids) /\ IsFiniteSet(reservations) /\ user[u].repository \in reservations
    BY <1>2, <1>4 DEF CacheInv, Within, Reserved, Clones
  <2>2. /\ IsFiniteSet(ids') /\ Cardinality(ids') \in {Cardinality(ids), Cardinality(ids) + 1}
        /\ IsFiniteSet(reservations') /\ Cardinality(reservations') = Cardinality(reservations) - 1
        /\ Cardinality(ids) \in Nat /\ Cardinality(reservations) \in Nat
    BY <1>2, <2>1, FS_AddElement, FS_RemoveElement, FS_CardinalityType
  <2>3. QED
    BY <2>1, <2>2, MaxCacheAssumption DEF CacheInv, Within
<1> QED
  BY <1>5, <1>6, <1>7, <1>8 DEF CacheInv

(* What it resolves is an identifier already, and nobody reserves it.      *)
LEMMA ResolveKeepsCache ==
  ASSUME LockInv, CacheInv, NEW u \in Users, Resolve(u)
  PROVE  CacheInv'
<1>1. user[u].pc = "resolve" /\ user' = [user EXCEPT ![u].pc = "unlock"]
  BY DEF Resolve, Go
<1>2. user[u].repository \in ids /\ user[u].repository \notin reservations
  BY <1>1, AloneInside DEF CacheInv, CacheKnown, Reserved, Clones, Inside
<1>3. UNCHANGED caching
  BY <1>2 DEF Resolve, Repository, caching
<1>4. /\ \A v \in Users \ {u} : user'[v] = user[v]
      /\ user'[u].pc = "unlock"
  BY <1>1 DEF LockInv, Rows, UserRow
<1> QED
  BY <1>1, <1>3, <1>4, CacheUntouched DEF Clones

LEMMA RestartKeepsCache ==
  ASSUME CacheInv, Restart
  PROVE  CacheInv'
<1>1. cache \subseteq ids \cup reservations
  BY DEF CacheInv, CacheRows, CacheKnown, Reserved, Clones
<1>2. IsFiniteSet(cache) /\ Cardinality(cache) <= MaxCache
  <2>1. IsFiniteSet(ids) /\ IsFiniteSet(reservations)
    BY DEF CacheInv, Within
  <2>2. /\ IsFiniteSet(ids \cup reservations)
        /\ Cardinality(ids \cup reservations) <= Cardinality(ids) + Cardinality(reservations)
    <3>1. /\ Cardinality(ids) \in Nat /\ Cardinality(reservations) \in Nat
          /\ IsFiniteSet(ids \cap reservations)
      BY <2>1, FS_CardinalityType, FS_Subset
    <3>2. Cardinality(ids \cap reservations) \in Nat
      BY <3>1, FS_CardinalityType
    <3>3. QED
      BY <2>1, <3>1, <3>2, FS_Union
  <2>3. IsFiniteSet(cache) /\ Cardinality(cache) <= Cardinality(ids \cup reservations)
    BY <1>1, <2>2, FS_Subset
  <2>4. /\ Cardinality(cache) \in Nat /\ Cardinality(ids \cup reservations) \in Nat
        /\ Cardinality(ids) \in Nat /\ Cardinality(reservations) \in Nat
    BY <2>1, <2>2, <2>3, FS_CardinalityType
  <2>5. QED
    BY <2>2, <2>3, <2>4, MaxCacheAssumption DEF CacheInv, Within
<1>3. Within(MaxCache)'
  BY <1>2, FS_EmptySet, FS_CardinalityType DEF Restart, Within
<1> QED
  BY <1>3 DEF Restart, CacheInv, CacheRows, Reserved, CacheKnown, Clones, Idle

LEMMA CacheStep == LockInv /\ CacheInv /\ [Next]_vars => CacheInv'
<1> SUFFICES ASSUME LockInv, CacheInv, [Next]_vars PROVE CacheInv'
  OBVIOUS
<1>1. CASE UNCHANGED vars
  BY <1>1, CacheUntouched DEF vars, caching
<1>2. CASE Restart
  BY <1>2, RestartKeepsCache
<1>3. ASSUME NEW u \in Users, NEW r \in Repositories, NEW purpose \in Purposes, Acquire(u, r, purpose)
      PROVE  CacheInv'
  BY <1>3, LockStepKeepsCache
<1>4. ASSUME NEW u \in Users, GiveUp(u) \/ Take(u) \/ Steps(u)
      PROVE  CacheInv'
  BY <1>4, LockStepKeepsCache, InspectKeepsCache, ReserveKeepsCache, CloneFailsKeepsCache,
     InstallKeepsCache, FinishKeepsCache, ResolveKeepsCache DEF Steps
<1> QED
  BY <1>1, <1>2, <1>3, <1>4 DEF Next

(* The clones are among the identifiers and the reservations.              *)
LEMMA CacheFits ==
  ASSUME LockInv, CacheInv
  PROVE  CacheAccounted
<1>1. cache \subseteq ids \cup reservations
  BY DEF CacheInv, CacheRows, CacheKnown, Reserved, Clones
<1>2. CacheBounded
  <2>1. IsFiniteSet(ids) /\ IsFiniteSet(reservations) /\ IsFiniteSet(ids \cap reservations)
    BY FS_Subset DEF CacheInv, Within
  <2>2. /\ IsFiniteSet(ids \cup reservations)
        /\ Cardinality(ids \cup reservations)
             = Cardinality(ids) + Cardinality(reservations) - Cardinality(ids \cap reservations)
    BY <2>1, FS_Union
  <2>3. IsFiniteSet(cache) /\ Cardinality(cache) <= Cardinality(ids \cup reservations)
    BY <1>1, <2>2, FS_Subset
  <2>4. /\ Cardinality(cache) \in Nat /\ Cardinality(ids \cup reservations) \in Nat
        /\ Cardinality(ids) \in Nat /\ Cardinality(reservations) \in Nat
        /\ Cardinality(ids \cap reservations) \in Nat
    BY <2>1, <2>2, <2>3, FS_CardinalityType
  <2>5. QED
    BY <2>2, <2>3, <2>4, MaxCacheAssumption DEF CacheInv, Within, CacheBounded
<1>3. AdvertisedIsCached
  BY DEF CacheInv, CacheKnown, AdvertisedIsCached
<1>4. ReservationsRunning
  BY DEF CacheInv, CacheRows, Reserved, Clones, ReservationsRunning
<1> QED
  BY <1>2, <1>3, <1>4 DEF CacheAccounted

\* The cache never holds more clones than the worker advertises room for, and
\* what it advertises is there: whatever clones fail, race for the last place,
\* or are cut off by a stop (repository_coordination.go:122-164).
THEOREM CacheAccountedCorrect == Spec => []CacheAccounted
BY LockInit, LockStep, CacheInit, CacheStep, CacheFits, PTL DEF Spec

Bounded == restarts \in 0 .. MaxRestarts

\* Every variable keeps its type.  The reference count of an entry is bounded
\* by the users because it counts them.
THEOREM TypeCorrect == Spec => []TypeOK
<1>1. LockInv /\ CacheInv /\ Bounded => TypeOK
  <2> SUFFICES ASSUME LockInv, CacheInv, Bounded PROVE TypeOK
    OBVIOUS
  <2>1. entry \in [Entries -> [token : BOOLEAN, references : 0 .. Cardinality(Users),
                               poisoned : BOOLEAN]]
    BY ReferersFinite DEF LockInv, Rows, Counted, EntryRow
  <2>2. QED
    BY <2>1 DEF LockInv, Rows, UserRow, CacheInv, CacheRows, Bounded, TypeOK
<1>2. Init => Bounded
  BY RestartsAssumption DEF Init, Bounded
<1>3. Bounded /\ [Next]_vars => Bounded'
  <2> SUFFICES ASSUME Bounded, [Next]_vars PROVE Bounded'
    OBVIOUS
  <2>1. restarts' = restarts \/ (Restart /\ restarts' = restarts + 1 /\ restarts < MaxRestarts)
    BY DEF Next, Steps, vars, caching, Acquire, GiveUp, Take, Enter, Refuse, Release, Drop, Change,
         Poison, Inspect, Reserve, CloneFails, Install, Finish, Resolve, Restart
  <2>2. QED
    BY <2>1, RestartsAssumption DEF Bounded
<1>4. QED
  BY <1>1, <1>2, <1>3, LockInit, LockStep, CacheInit, CacheStep, PTL DEF Spec
=============================================================================
