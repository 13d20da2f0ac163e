------------------------ MODULE WorkerRecoveryProofs ------------------------
(***************************************************************************)
(* Theorems about WorkerRecovery for any set of attempts, any number of    *)
(* stages and slots and any bound on faults, starts and edits.             *)
(***************************************************************************)
EXTENDS WorkerRecovery, FiniteSetTheorems, TLAPS

-----------------------------------------------------------------------------
(* The inductive invariant: one row for each attempt, which relates what   *)
(* is recorded of it in four places, and the state the rows share.         *)

Present(a) == tree[a].path \/ tree[a].listed
Known(a) == manifest[a] # NoManifest

States == {"none", "preparing", "running", "succeeded", "failed", "lost"}
ServedRow == [state : States, stage : Nat, ack : BOOLEAN]
ManifestRow == [life : Lifecycles, intent : {"none", "automatic", "operator"}, active : BOOLEAN,
                stage : Nat, why : {"none", "process", "identity", "worktree"}]
TreeRow == [path : BOOLEAN, listed : BOOLEAN, dirty : BOOLEAN]
GoRow == [at : Points, stage : Nat, verdict : {"succeeded", "failed"}, head : Heads]

ServerTyped ==
    /\ served \in [Attempts -> ServedRow]
    /\ roll \in [retained : SUBSET Attempts, healthy : BOOLEAN]
ManifestTyped == manifest \in [Attempts -> ManifestRow \cup {NoManifest}]
RepositoryTyped ==
    /\ tree \in [Attempts -> TreeRow] /\ branch \in [Attempts -> Heads]
    /\ group \in [Attempts -> {"none", "new", "known"}]
GoTyped == go \in [Attempts -> GoRow]
MemoryTyped ==
    /\ disposals \subseteq Attempts /\ retained \subseteq Attempts
    /\ disposed \subseteq Attempts /\ handoffs \subseteq Attempts
    /\ fatal \in BOOLEAN /\ retry \in BOOLEAN /\ unsafe \in BOOLEAN
    /\ worker \in {"down", "cleanup", "reconcile", "serving"}
    /\ registering \in {"idle", "send", "remove", "clear"}
Typed == ServerTyped /\ ManifestTyped /\ RepositoryTyped /\ GoTyped /\ MemoryTyped

Leaving == {"remove", "unlist", "branch", "delete", "cleaned"}

(* Where the worker can be with an attempt, by what it is doing.           *)
Where(a) ==
    /\ worker = "down" => At(a, "idle")
    /\ worker = "cleanup" => go[a].at \in {"idle"} \cup Leaving
    /\ worker = "reconcile" => go[a].at \in {"idle", "todo", "verify", "dispose"} \cup Leaving
    /\ worker = "serving" => go[a].at \notin {"todo", "verify"}

(* What nobody has claimed has left no trace.                              *)
Untouched(a) ==
    served[a].state = "none" =>
      /\ ~Known(a) /\ At(a, "idle") /\ ~Present(a) /\ ~served[a].ack
      /\ a \notin disposed \cup disposals \cup retained \cup handoffs

(* The manifest is there before the worktree, and says why it goes.        *)
Recorded(a) ==
    /\ ~Known(a) =>
         /\ ~Present(a)
         /\ go[a].at \in {"idle", "claimed", "forgo", "not_created", "report", "release"}
    /\ manifest[a].life = "cleanup_started" => manifest[a].intent # "none"
    /\ go[a].at \in {"remove", "unlist"} => manifest[a].life = "cleanup_started"

(* What is gone is gone, and what is deleted has been found to be safe.    *)
Trees(a) ==
    /\ go[a].at \in {"claimed", "adding", "forgo", "not_created", "branch", "delete", "cleaned",
                     "dispose"} => ~Present(a)
    /\ At(a, "unlist") => ~tree[a].path
    /\ a \in disposed \cup disposals => ~Present(a)
    /\ At(a, "delete") => go[a].head \in Safe

(* A group the manifest names is there as the manifest says.  The other    *)
(* one belongs to an attempt that fails, so that only an operator can take *)
(* its worktree away.                                                      *)
Groups(a) ==
    /\ group[a] = "known" =>
         /\ Known(a) /\ manifest[a].active
         /\ manifest[a].life \notin {"cleanup_started"} \cup Gone
         /\ go[a].at \in {"idle", "start", "started", "run", "retain", "release", "todo"}
    /\ group[a] = "new" =>
         /\ served[a].state # "none"
         /\ go[a].at \in {"idle", "spawned", "finish", "complete", "retain", "release", "todo",
                          "verify", "dispose"} \cup Leaving
         /\ go[a].at \in {"finish", "complete"} => go[a].verdict = "failed"
         /\ Known(a) /\ (~tree[a].path \/ manifest[a].life \in {"cleanup_started"} \cup Gone)
              => manifest[a].intent = "operator"

(* A slot is given back at the end of the attempt, not before.             *)
Ended(a) ==
    worker = "serving" =>
      /\ go[a].at \in {"complete", "clean", "retain", "dispose", "not_created"} \cup Leaving
           => a \in handoffs
      /\ a \in retained \cup disposed \cup disposals
           => go[a].at \in {"idle", "not_created", "report", "release"}
      /\ a \in retained \cup disposed => At(a, "idle") \/ a \in handoffs
      /\ served[a].ack => At(a, "idle")

(* A worktree nobody works in is advertised, or the worker knows it fails. *)
Advertised(a) ==
    Present(a) =>
      /\ worker = "serving" /\ ~fatal =>
           ~At(a, "report") /\ (go[a].at \in {"idle", "release"} => a \in retained)
      /\ worker = "reconcile" /\ ~retry /\ ~unsafe /\ At(a, "idle") => a \in retained

(* An attempt works in a whole worktree that its manifest keeps, and only  *)
(* there is work to lose.                                                  *)
Worked(a) ==
    /\ tree[a].dirty => tree[a].path
    /\ go[a].at \in {"added", "stage", "spawned", "start", "started", "run"}
         => tree[a].path
    /\ go[a].at \in {"adding", "listed", "added", "stage", "spawned", "start", "started", "run"}
         => manifest[a].life \in {"preparing", "worktree_created", "supervisor_ready", "running"}

Row(a) ==
    /\ Where(a) /\ Untouched(a) /\ Recorded(a) /\ Trees(a)
    /\ Groups(a) /\ Ended(a) /\ Advertised(a) /\ Worked(a)
Rows == \A a \in Attempts : Row(a)

(* No registration is built during a hand-over; an operator cleans one     *)
(* attempt.                                                                *)
Locked ==
    /\ worker # "serving" => handoffs = {} /\ registering = "idle"
    /\ handoffs # {} => registering = "idle"
OneCleanup ==
    worker = "cleanup" => \A a, b \in Attempts : ~At(a, "idle") /\ ~At(b, "idle") => a = b

RecoveryInv == Typed /\ Rows /\ Locked /\ OneCleanup

LEMMA RecoveryInit == Init => RecoveryInv
<1> SUFFICES ASSUME Init PROVE RecoveryInv
  OBVIOUS
<1>1. Typed
  BY DEF Init, Typed, ServerTyped, ManifestTyped, RepositoryTyped, GoTyped, MemoryTyped, ServedRow,
     States, TreeRow, GoRow, Idle, Points, Heads
<1>2. Rows
  BY DEF Init, Rows, Row, Where, Untouched, Recorded, Trees, Groups, Ended, Advertised, Worked,
     Known, Present, At, Idle, NoManifest
<1>3. QED
  BY <1>1, <1>2 DEF Init, RecoveryInv, Locked, OneCleanup

-----------------------------------------------------------------------------
(* What a step does to the one attempt it is about.                        *)

Moves(a, p) ==
    /\ go' \in [Attempts -> GoRow] /\ go'[a].at = p
    /\ \A b \in Attempts \ {a} : go'[b] = go[b]

Writes(a, life, intent, active) ==
    /\ manifest' \in [Attempts -> ManifestRow \cup {NoManifest}]
    /\ manifest'[a] \in ManifestRow /\ manifest'[a] # NoManifest
    /\ manifest'[a].life = life /\ manifest'[a].intent = intent /\ manifest'[a].active = active
    /\ \A b \in Attempts \ {a} : manifest'[b] = manifest[b]

LEMMA MoveTo ==
  ASSUME GoTyped, NEW a \in Attempts, NEW p \in Points, Goto(a, p)
  PROVE  Moves(a, p) /\ go'[a].head = go[a].head /\ go'[a].verdict = go[a].verdict
BY DEF GoTyped, GoRow, Goto, Moves

LEMMA EndTo ==
  ASSUME GoTyped, NEW a \in Attempts, NEW p \in Points, NEW v \in {"succeeded", "failed"},
         End(a, v, p)
  PROVE  Moves(a, p) /\ go'[a].verdict = v
<1>1. go[a] \in GoRow
  BY DEF GoTyped
<1>2. go'[a] = [at |-> p, stage |-> go[a].stage, verdict |-> v, head |-> go[a].head]
  BY <1>1 DEF GoTyped, GoRow, End
<1>3. go'[a] \in GoRow
  BY <1>1, <1>2 DEF GoRow
<1>4. go' = [b \in Attempts |-> IF b = a THEN go'[a] ELSE go[b]]
  BY DEF GoTyped, End
<1>5. QED
  BY <1>2, <1>3, <1>4 DEF GoTyped, Moves

LEMMA MoveIdle ==
  ASSUME GoTyped, NEW a \in Attempts, go' = [go EXCEPT ![a] = Idle]
  PROVE  Moves(a, "idle")
BY DEF GoTyped, GoRow, Moves, Idle, Points, Heads

(* A record of a manifest is never the empty one.                          *)
LEMMA KnownHasLife ==
  ASSUME ManifestTyped, NEW a \in Attempts
  PROVE  /\ ~Known(a) => manifest[a].life = "none"
         /\ Known(a) => manifest[a] \in ManifestRow /\ manifest[a].life # "none"
BY DEF ManifestTyped, ManifestRow, NoManifest, Known, Lifecycles

LEMMA WriteRow ==
  ASSUME ManifestTyped, NEW a \in Attempts, NEW m \in ManifestRow,
         manifest' = [manifest EXCEPT ![a] = m]
  PROVE  Writes(a, m.life, m.intent, m.active)
<1>1. m # NoManifest
  BY DEF ManifestRow, NoManifest, Lifecycles
<1>2. QED
  BY <1>1 DEF ManifestTyped, Writes

LEMMA PersistRow ==
  ASSUME ManifestTyped, NEW a \in Attempts, Known(a), NEW life \in Lifecycles, Persist(a, life)
  PROVE  Writes(a, life, manifest[a].intent, manifest[a].active)
<1> DEFINE m == [life |-> life, intent |-> manifest[a].intent, active |-> manifest[a].active,
                 stage |-> manifest[a].stage, why |-> "none"]
<1>1. manifest[a] \in ManifestRow
  BY KnownHasLife
<1>2. m \in ManifestRow
  BY <1>1 DEF ManifestRow
<1>3. manifest'[a] = m
  BY <1>1 DEF ManifestTyped, ManifestRow, Persist
<1>4. m # NoManifest
  BY <1>2 DEF ManifestRow, NoManifest, Lifecycles
<1>5. manifest' = [b \in Attempts |-> IF b = a THEN manifest'[a] ELSE manifest[b]]
  BY DEF ManifestTyped, Persist
<1>6. QED
  BY <1>2, <1>3, <1>4, <1>5 DEF ManifestTyped, Writes

LEMMA InconsistentRow ==
  ASSUME ManifestTyped, NEW a \in Attempts, Known(a),
         NEW why \in {"none", "process", "identity", "worktree"}, Inconsistent(a, why)
  PROVE  Writes(a, "inconsistent", manifest[a].intent, manifest[a].active)
<1> DEFINE m == [life |-> "inconsistent", intent |-> manifest[a].intent,
                 active |-> manifest[a].active, stage |-> manifest[a].stage, why |-> why]
<1>1. manifest[a] \in ManifestRow
  BY KnownHasLife
<1>2. m \in ManifestRow
  BY <1>1 DEF ManifestRow, Lifecycles
<1>3. manifest'[a] = m
  BY <1>1 DEF ManifestTyped, ManifestRow, Inconsistent
<1>4. m # NoManifest
  BY <1>2 DEF ManifestRow, NoManifest, Lifecycles
<1>5. manifest' = [b \in Attempts |-> IF b = a THEN manifest'[a] ELSE manifest[b]]
  BY DEF ManifestTyped, Inconsistent
<1>6. QED
  BY <1>2, <1>3, <1>4, <1>5 DEF ManifestTyped, Writes

Stops(a) ==
    /\ group' \in [Attempts -> {"none", "new", "known"}] /\ group'[a] = "none"
    /\ \A b \in Attempts \ {a} : group'[b] = group[b]

Serves(a, state) ==
    /\ served' \in [Attempts -> ServedRow]
    /\ served'[a].state = state /\ (served'[a].ack <=> served[a].ack)
    /\ \A b \in Attempts \ {a} : served'[b] = served[b]

(* The tree of the attempt is as its path and its list entry say.          *)
Plants(a, path, listed) ==
    /\ tree' \in [Attempts -> TreeRow]
    /\ (tree'[a].path <=> path) /\ (tree'[a].listed <=> listed)
    /\ tree'[a].dirty => path \/ (tree[a].dirty /\ ~tree[a].path)
    /\ \A b \in Attempts \ {a} : tree'[b] = tree[b]

LEMMA StopsGroup ==
  ASSUME RepositoryTyped, NEW a \in Attempts, group' = [group EXCEPT ![a] = "none"]
  PROVE  Stops(a)
BY DEF RepositoryTyped, Stops

LEMMA ListRow ==
  ASSUME RepositoryTyped, NEW a \in Attempts, 
         tree' = [tree EXCEPT ![a].listed = TRUE]
  PROVE  Plants(a, tree[a].path, TRUE)
<1>1. tree[a] \in TreeRow
  BY DEF RepositoryTyped
<1>2. tree'[a] = [path |-> tree[a].path, listed |-> TRUE, dirty |-> tree[a].dirty]
  BY <1>1 DEF RepositoryTyped, TreeRow
<1>3. \A x, y, z \in BOOLEAN : [path |-> x, listed |-> y, dirty |-> z] \in TreeRow
  BY Zenon DEF TreeRow
<1>4. tree[a].path \in BOOLEAN /\ tree[a].listed \in BOOLEAN /\ tree[a].dirty \in BOOLEAN
  BY <1>1 DEF TreeRow
<1>5. tree'[a] \in TreeRow
  BY <1>2, <1>3, <1>4
<1>6. tree' = [b \in Attempts |-> IF b = a THEN tree'[a] ELSE tree[b]]
  BY DEF RepositoryTyped
<1>7. tree' \in [Attempts -> TreeRow] /\ \A b \in Attempts \ {a} : tree'[b] = tree[b]
  BY <1>5, <1>6 DEF RepositoryTyped
<1>8. /\ tree'[a].path <=> tree[a].path
      /\ tree'[a].listed <=> TRUE
      /\ tree'[a].dirty <=> tree[a].dirty
  BY <1>2, <1>4
<1>9. QED
  BY <1>7, <1>8 DEF Plants

LEMMA UnlistRow ==
  ASSUME RepositoryTyped, NEW a \in Attempts, 
         tree' = [tree EXCEPT ![a].listed = FALSE]
  PROVE  Plants(a, tree[a].path, FALSE)
<1>1. tree[a] \in TreeRow
  BY DEF RepositoryTyped
<1>2. tree'[a] = [path |-> tree[a].path, listed |-> FALSE, dirty |-> tree[a].dirty]
  BY <1>1 DEF RepositoryTyped, TreeRow
<1>3. \A x, y, z \in BOOLEAN : [path |-> x, listed |-> y, dirty |-> z] \in TreeRow
  BY Zenon DEF TreeRow
<1>4. tree[a].path \in BOOLEAN /\ tree[a].listed \in BOOLEAN /\ tree[a].dirty \in BOOLEAN
  BY <1>1 DEF TreeRow
<1>5. tree'[a] \in TreeRow
  BY <1>2, <1>3, <1>4
<1>6. tree' = [b \in Attempts |-> IF b = a THEN tree'[a] ELSE tree[b]]
  BY DEF RepositoryTyped
<1>7. tree' \in [Attempts -> TreeRow] /\ \A b \in Attempts \ {a} : tree'[b] = tree[b]
  BY <1>5, <1>6 DEF RepositoryTyped
<1>8. /\ tree'[a].path <=> tree[a].path
      /\ tree'[a].listed <=> FALSE
      /\ tree'[a].dirty <=> tree[a].dirty
  BY <1>2, <1>4
<1>9. QED
  BY <1>7, <1>8 DEF Plants

LEMMA AddRow ==
  ASSUME RepositoryTyped, NEW a \in Attempts, 
         tree' = [tree EXCEPT ![a].path = TRUE]
  PROVE  Plants(a, TRUE, tree[a].listed)
<1>1. tree[a] \in TreeRow
  BY DEF RepositoryTyped
<1>2. tree'[a] = [path |-> TRUE, listed |-> tree[a].listed, dirty |-> tree[a].dirty]
  BY <1>1 DEF RepositoryTyped, TreeRow
<1>3. \A x, y, z \in BOOLEAN : [path |-> x, listed |-> y, dirty |-> z] \in TreeRow
  BY Zenon DEF TreeRow
<1>4. tree[a].path \in BOOLEAN /\ tree[a].listed \in BOOLEAN /\ tree[a].dirty \in BOOLEAN
  BY <1>1 DEF TreeRow
<1>5. tree'[a] \in TreeRow
  BY <1>2, <1>3, <1>4
<1>6. tree' = [b \in Attempts |-> IF b = a THEN tree'[a] ELSE tree[b]]
  BY DEF RepositoryTyped
<1>7. tree' \in [Attempts -> TreeRow] /\ \A b \in Attempts \ {a} : tree'[b] = tree[b]
  BY <1>5, <1>6 DEF RepositoryTyped
<1>8. /\ tree'[a].path <=> TRUE
      /\ tree'[a].listed <=> tree[a].listed
      /\ tree'[a].dirty <=> tree[a].dirty
  BY <1>2, <1>4
<1>9. QED
  BY <1>7, <1>8 DEF Plants

LEMMA EditRow ==
  ASSUME RepositoryTyped, NEW a \in Attempts, NEW d \in BOOLEAN, tree[a].path,
         tree' = [tree EXCEPT ![a].dirty = d]
  PROVE  Plants(a, tree[a].path, tree[a].listed)
<1>1. tree[a] \in TreeRow
  BY DEF RepositoryTyped
<1>2. tree'[a] = [path |-> tree[a].path, listed |-> tree[a].listed, dirty |-> d]
  BY <1>1 DEF RepositoryTyped, TreeRow
<1>3. \A x, y, z \in BOOLEAN : [path |-> x, listed |-> y, dirty |-> z] \in TreeRow
  BY Zenon DEF TreeRow
<1>4. tree[a].path \in BOOLEAN /\ tree[a].listed \in BOOLEAN /\ tree[a].dirty \in BOOLEAN
  BY <1>1 DEF TreeRow
<1>5. tree'[a] \in TreeRow
  BY <1>2, <1>3, <1>4
<1>6. tree' = [b \in Attempts |-> IF b = a THEN tree'[a] ELSE tree[b]]
  BY DEF RepositoryTyped
<1>7. tree' \in [Attempts -> TreeRow] /\ \A b \in Attempts \ {a} : tree'[b] = tree[b]
  BY <1>5, <1>6 DEF RepositoryTyped
<1>8. /\ tree'[a].path <=> tree[a].path
      /\ tree'[a].listed <=> tree[a].listed
      /\ tree'[a].dirty <=> d
  BY <1>2, <1>4
<1>9. QED
  BY <1>7, <1>8 DEF Plants

LEMMA CompletedRow ==
  ASSUME ServerTyped, GoTyped, NEW a \in Attempts, Completed(a)
  PROVE  Serves(a, go[a].verdict) /\ go[a].verdict \in {"succeeded", "failed"}
<1>1. go[a].verdict \in {"succeeded", "failed"}
  BY DEF GoTyped, GoRow
<1>2. QED
  BY <1>1 DEF ServerTyped, ServedRow, States, Completed, Serves

LEMMA AdvanceRow ==
  ASSUME Typed, NEW a \in Attempts, Known(a), NEW life \in Lifecycles, NEW p \in Points,
         Advance(a, life, p)
  PROVE  \/ /\ Writes(a, life, manifest[a].intent, manifest[a].active) /\ Moves(a, p)
            /\ UNCHANGED <<group, fatal>>
         \/ Moves(a, "finish") /\ Stops(a) /\ fatal' = TRUE /\ UNCHANGED manifest
BY MoveTo, EndTo, PersistRow, StopsGroup DEF Typed, Advance, Points

(* The three ways a step of a removal fails.                               *)
Failed(a) ==
    \/ worker = "serving" /\ fatal' = TRUE /\ Moves(a, "release") /\ UNCHANGED <<worker, retry>>
    \/ worker = "reconcile" /\ retry' = TRUE /\ Moves(a, "idle") /\ UNCHANGED <<worker, fatal>>
    \/ /\ worker = "cleanup" /\ worker' = "down" /\ Moves(a, "idle")
       /\ UNCHANGED <<fatal, retry>>

LEMMA FailsRow ==
  ASSUME Typed, NEW a \in Attempts, Fails(a)
  PROVE  Failed(a)
BY MoveTo, MoveIdle DEF Typed, Fails, Failed, Points

(* A step about one attempt leaves the rows of the others alone: it        *)
(* changes nothing of theirs, and only raises the marks they depend on.    *)
Alone(a) ==
    /\ \/ worker' = worker
       \/ worker = "cleanup" /\ worker' = "down" /\ ~At(a, "idle")
       \/ worker = "down" /\ worker' = "cleanup"
    /\ fatal => fatal'
    /\ retry => retry'
    /\ unsafe => unsafe'
    /\ \A b \in Attempts \ {a} :
          /\ served'[b] = served[b] /\ manifest'[b] = manifest[b] /\ tree'[b] = tree[b]
          /\ group'[b] = group[b] /\ go'[b] = go[b]
          /\ b \in disposals' <=> b \in disposals
          /\ b \in retained' <=> b \in retained
          /\ b \in disposed' <=> b \in disposed
          /\ b \in handoffs' <=> b \in handoffs

LEMMA OthersKeep ==
  ASSUME RecoveryInv, NEW a \in Attempts, Alone(a), Typed', Row(a)', Locked',
         At(a, "idle") => At(a, "idle")' \/ worker # "cleanup"
  PROVE  RecoveryInv'
<1>1. ASSUME NEW b \in Attempts, b # a PROVE Row(b)'
  <2>1. Row(b)
    BY DEF RecoveryInv, Rows
  <2>2. /\ served'[b] = served[b] /\ manifest'[b] = manifest[b] /\ tree'[b] = tree[b]
        /\ group'[b] = group[b] /\ go'[b] = go[b]
        /\ b \in disposals' <=> b \in disposals
        /\ b \in retained' <=> b \in retained
        /\ b \in disposed' <=> b \in disposed
        /\ b \in handoffs' <=> b \in handoffs
    BY <1>1 DEF Alone
  <2>3. /\ \/ worker' = worker
           \/ At(b, "idle") /\ worker' \in {"down", "cleanup"}
        /\ ~fatal' => ~fatal
        /\ ~retry' => ~retry
        /\ ~unsafe' => ~unsafe
    BY <1>1, <2>1 DEF Alone, RecoveryInv, OneCleanup, Row, Where, At
  <2>4. Where(b)' /\ Untouched(b)' /\ Recorded(b)'
    BY <2>1, <2>2, <2>3 DEF Row, Where, Untouched, Recorded, Known, Present, At
  <2>5. Trees(b)' /\ Groups(b)' /\ Ended(b)'
    BY <2>1, <2>2, <2>3 DEF Row, Trees, Groups, Ended, Known, Present, At
  <2>6. Advertised(b)'
    BY <2>1, <2>2, <2>3 DEF Row, Advertised, Present, At
  <2>7. Worked(b)'
    BY <2>1, <2>2 DEF Row, Worked
  <2>8. QED
    BY <2>4, <2>5, <2>6, <2>7 DEF Row
<1>2. Rows'
  BY <1>1 DEF Rows
<1>3. OneCleanup'
  BY DEF RecoveryInv, OneCleanup, Rows, Row, Where, Alone, At
<1>4. QED
  BY <1>2, <1>3 DEF RecoveryInv

(* From the claim to the worktree.                                         *)
LEMMA AttemptBegins ==
  ASSUME RecoveryInv, NEW a \in Attempts,
         Claim(a) \/ Refuse(a) \/ CreateManifest(a) \/ GitAdds(a) \/ AddFails(a) \/
           WorktreeCreated(a)
  PROVE  RecoveryInv'
<1> USE DEF server, disk, repository, slots, registration, pass, bounds, Running, At
<1>1. Typed /\ Row(a) /\ Locked
  BY DEF RecoveryInv, Rows
<1> USE <1>1 DEF Typed
<1>2. CASE Claim(a)
  <2>1. Moves(a, "claimed")
    BY <1>2, MoveTo DEF Claim, Points
  <2>2. Serves(a, "preparing")
    BY <1>2, <2>1 DEF Claim, ServerTyped, ServedRow, States, Serves
  <2>3. Alone(a)
    BY <1>2, <2>1, <2>2 DEF Claim, Alone, Moves, Serves
  <2>4. Typed' /\ Locked'
    BY <1>2, <2>1, <2>2 DEF Claim, Moves, Serves, ServerTyped, ManifestTyped, RepositoryTyped,
       GoTyped, MemoryTyped, Locked
  <2>5. Row(a)'
    <3>1. Where(a)' /\ Untouched(a)'
      BY <1>2, <2>1, <2>2 DEF Claim, Moves, Serves, Row, Where, Untouched, Recorded, Trees,
         Known, Present, Leaving
    <3>2. Recorded(a)'
      BY <1>2, <2>1, <2>2 DEF Claim, Moves, Serves, Row, Where, Untouched, Recorded, Known,
         Present, Leaving
    <3>3. Trees(a)'
      BY <1>2, <2>1, <2>2 DEF Claim, Moves, Serves, Row, Where, Untouched, Recorded, Trees,
         Ended, Known, Present, Safe, Leaving
    <3>4. Groups(a)'
      BY <1>2, <2>1, <2>2 DEF Claim, Moves, Serves, Row, Where, Untouched, Recorded, Groups,
         Ended, Known, Gone, Leaving
    <3>5. Ended(a)'
      BY <1>2, <2>1, <2>2 DEF Claim, Moves, Serves, Row, Where, Untouched, Ended, Locked, Leaving
    <3>6. Advertised(a)'
      BY <1>2, <2>1, <2>2 DEF Claim, Moves, Serves, Row, Where, Untouched, Recorded, Trees,
         Ended, Advertised, Present, Leaving
    <3>7. Worked(a)'
      BY <1>2, <2>1, <2>2 DEF Claim, Moves, Serves, Row, Where, Untouched, Recorded, Trees,
         Ended, Worked, Present, Leaving
    <3>8. QED
      BY <3>1, <3>2, <3>3, <3>4, <3>5, <3>6, <3>7 DEF Row
  <2>6. QED
    BY <1>2, <2>1, <2>2, <2>3, <2>4, <2>5, OthersKeep DEF Claim, Moves
<1>3. CASE Refuse(a)
  <2>1. Moves(a, "forgo")
    BY <1>3, EndTo DEF Refuse, Points
  <2>2. Alone(a)
    BY <1>3, <2>1 DEF Refuse, Alone, Moves
  <2>3. Typed' /\ Locked'
    BY <1>3, <2>1 DEF Refuse, Moves, ServerTyped, ManifestTyped, RepositoryTyped, GoTyped,
       MemoryTyped, Locked
  <2>4. Row(a)'
    <3>1. Where(a)' /\ Untouched(a)'
      BY <1>3, <2>1 DEF Refuse, Moves, Row, Where, Untouched, Recorded, Trees, Known, Present,
         Leaving
    <3>2. Recorded(a)'
      BY <1>3, <2>1 DEF Refuse, Moves, Row, Where, Untouched, Recorded, Known, Present, Leaving
    <3>3. Trees(a)'
      BY <1>3, <2>1 DEF Refuse, Moves, Row, Where, Untouched, Recorded, Trees, Ended, Known,
         Present, Safe, Leaving
    <3>4. Groups(a)'
      BY <1>3, <2>1 DEF Refuse, Moves, Row, Where, Untouched, Recorded, Groups, Ended, Known,
         Gone, Leaving
    <3>5. Ended(a)'
      BY <1>3, <2>1 DEF Refuse, Moves, Row, Where, Untouched, Ended, Locked, Leaving
    <3>6. Advertised(a)'
      BY <1>3, <2>1 DEF Refuse, Moves, Row, Where, Untouched, Recorded, Trees, Ended, Advertised,
         Present, Leaving
    <3>7. Worked(a)'
      BY <1>3, <2>1 DEF Refuse, Moves, Row, Where, Untouched, Recorded, Trees, Ended, Worked,
         Present, Leaving
    <3>8. QED
      BY <3>1, <3>2, <3>3, <3>4, <3>5, <3>6, <3>7 DEF Row
  <2>5. QED
    BY <1>3, <2>1, <2>2, <2>3, <2>4, OthersKeep DEF Refuse, Moves
<1>4. CASE CreateManifest(a)
  <2>1. Goto(a, "adding") => Moves(a, "adding")
    BY MoveTo DEF Points
  <2>2. End(a, "failed", "forgo") => Moves(a, "forgo")
    BY EndTo DEF Points
  <2>3. [life |-> "preparing", intent |-> "none", active |-> FALSE, stage |-> 0, why |-> "none"]
           \in ManifestRow
    BY <1>4, <2>1, <2>2 DEF CreateManifest, ManifestRow, Lifecycles
  <2>4. manifest' = [manifest EXCEPT ![a] = [life |-> "preparing", intent |-> "none",
                            active |-> FALSE, stage |-> 0, why |-> "none"]]
           => Writes(a, "preparing", "none", FALSE)
    BY <1>4, <2>1, <2>2, <2>3, WriteRow DEF CreateManifest
  <2>5. \/ Moves(a, "adding") /\ Writes(a, "preparing", "none", FALSE) /\ UNCHANGED fatal
        \/ Moves(a, "forgo") /\ UNCHANGED manifest /\ fatal' = TRUE
    BY <1>4, <2>1, <2>2, <2>3, <2>4 DEF CreateManifest
  <2>6. Alone(a)
    BY <1>4, <2>1, <2>2, <2>3, <2>4, <2>5 DEF CreateManifest, Alone, Moves, Writes
  <2>7. Typed' /\ Locked'
    BY <1>4, <2>1, <2>2, <2>3, <2>4, <2>5 DEF CreateManifest, Moves, Writes, ServerTyped,
       ManifestTyped, RepositoryTyped, GoTyped, MemoryTyped, Locked
  <2>8. Row(a)'
    <3>1. Where(a)' /\ Untouched(a)'
      BY <1>4, <2>1, <2>2, <2>3, <2>4, <2>5 DEF CreateManifest, Moves, Writes, Row, Where,
         Untouched, Recorded, Trees, Known, Present, Leaving
    <3>2. Recorded(a)'
      BY <1>4, <2>1, <2>2, <2>3, <2>4, <2>5 DEF CreateManifest, Moves, Writes, Row, Where,
         Untouched, Recorded, Known, Present, Leaving
    <3>3. Trees(a)'
      BY <1>4, <2>1, <2>2, <2>3, <2>4, <2>5 DEF CreateManifest, Moves, Writes, Row, Where,
         Untouched, Recorded, Trees, Ended, Known, Present, Safe, Leaving
    <3>4. Groups(a)'
      BY <1>4, <2>1, <2>2, <2>3, <2>4, <2>5 DEF CreateManifest, Moves, Writes, Row, Where,
         Untouched, Recorded, Groups, Ended, Known, Gone, Leaving
    <3>5. Ended(a)'
      BY <1>4, <2>1, <2>2, <2>3, <2>4, <2>5 DEF CreateManifest, Moves, Writes, Row, Where,
         Untouched, Ended, Locked, Leaving
    <3>6. Advertised(a)'
      BY <1>4, <2>1, <2>2, <2>3, <2>4, <2>5 DEF CreateManifest, Moves, Writes, Row, Where,
         Untouched, Recorded, Trees, Ended, Advertised, Present, Leaving
    <3>7. Worked(a)'
      BY <1>4, <2>1, <2>2, <2>3, <2>4, <2>5 DEF CreateManifest, Moves, Writes, Row, Where,
         Untouched, Recorded, Trees, Ended, Worked, Present, Leaving
    <3>8. QED
      BY <3>1, <3>2, <3>3, <3>4, <3>5, <3>6, <3>7 DEF Row
  <2>9. QED
    BY <1>4, <2>1, <2>2, <2>3, <2>4, <2>5, <2>6, <2>7, <2>8, OthersKeep DEF CreateManifest, Moves
<1>5. CASE GitAdds(a)
  <2>1. /\ Goto(a, "listed") => Moves(a, "listed")
        /\ Goto(a, "added") => Moves(a, "added")
    BY MoveTo DEF Points
  <2>2. tree' = [tree EXCEPT ![a].listed = TRUE] => Plants(a, tree[a].path, TRUE)
    BY ListRow
  <2>3. tree' = [tree EXCEPT ![a].path = TRUE] => Plants(a, TRUE, tree[a].listed)
    BY AddRow
  <2>4. branch' = [branch EXCEPT ![a] = "base"] => branch' \in [Attempts -> Heads]
    BY <1>5, <2>1, <2>2, <2>3 DEF GitAdds, RepositoryTyped, Heads
  <2>5. \/ /\ At(a, "adding") /\ Moves(a, "listed")
           /\ Plants(a, tree[a].path, TRUE) /\ branch' \in [Attempts -> Heads]
        \/ /\ At(a, "listed") /\ Moves(a, "added")
           /\ Plants(a, TRUE, tree[a].listed) /\ UNCHANGED branch
    BY <1>5, <2>1, <2>2, <2>3, <2>4 DEF GitAdds
  <2>6. Alone(a)
    BY <1>5, <2>1, <2>2, <2>3, <2>4, <2>5 DEF GitAdds, Alone, Moves, Plants
  <2>7. Typed' /\ Locked'
    BY <1>5, <2>1, <2>2, <2>3, <2>4, <2>5 DEF GitAdds, Moves, Plants, ServerTyped, ManifestTyped,
       RepositoryTyped, GoTyped, MemoryTyped, Locked
  <2>8. Row(a)'
    <3>1. Where(a)' /\ Untouched(a)'
      BY <1>5, <2>1, <2>2, <2>3, <2>4, <2>5 DEF GitAdds, Moves, Plants, Row, Where, Untouched,
         Recorded, Trees, Known, Present, Leaving
    <3>2. Recorded(a)'
      BY <1>5, <2>1, <2>2, <2>3, <2>4, <2>5 DEF GitAdds, Moves, Plants, Row, Where, Untouched,
         Recorded, Known, Present, Leaving
    <3>3. Trees(a)'
      BY <1>5, <2>1, <2>2, <2>3, <2>4, <2>5 DEF GitAdds, Moves, Plants, Row, Where, Untouched,
         Recorded, Trees, Ended, Known, Present, Safe, Leaving
    <3>4. Groups(a)'
      BY <1>5, <2>1, <2>2, <2>3, <2>4, <2>5 DEF GitAdds, Moves, Plants, Row, Where, Untouched,
         Recorded, Groups, Ended, Known, Gone, Leaving
    <3>5. Ended(a)'
      BY <1>5, <2>1, <2>2, <2>3, <2>4, <2>5 DEF GitAdds, Moves, Plants, Row, Where, Untouched,
         Ended, Locked, Leaving
    <3>6. Advertised(a)'
      BY <1>5, <2>1, <2>2, <2>3, <2>4, <2>5 DEF GitAdds, Moves, Plants, Row, Where, Untouched,
         Recorded, Trees, Ended, Advertised, Present, Leaving
    <3>7. Worked(a)'
      BY <1>5, <2>1, <2>2, <2>3, <2>4, <2>5 DEF GitAdds, Moves, Plants, Row, Where, Untouched,
         Recorded, Trees, Ended, Worked, Present, Leaving
    <3>8. QED
      BY <3>1, <3>2, <3>3, <3>4, <3>5, <3>6, <3>7 DEF Row
  <2>9. QED
    BY <1>5, <2>1, <2>2, <2>3, <2>4, <2>5, <2>6, <2>7, <2>8, OthersKeep DEF GitAdds, Moves
<1>6. CASE AddFails(a)
  <2>1. /\ End(a, "failed", "forgo") => Moves(a, "forgo")
        /\ End(a, "failed", "report") => Moves(a, "report")
        /\ End(a, "failed", "finish") => Moves(a, "finish")
    BY EndTo DEF Points
  <2>2. At(a, "listed") => Known(a)
    BY <1>6, <2>1 DEF AddFails, Row, Recorded
  <2>3. Known(a) /\ Inconsistent(a, "worktree") =>
           Writes(a, "inconsistent", manifest[a].intent, manifest[a].active)
    BY <1>6, <2>1, <2>2, InconsistentRow DEF AddFails
  <2>4. \/ At(a, "adding") /\ Moves(a, "forgo") /\ UNCHANGED <<manifest, fatal>>
        \/ /\ At(a, "listed") /\ Moves(a, "report") /\ fatal' = TRUE
           /\ Writes(a, "inconsistent", manifest[a].intent, manifest[a].active)
        \/ At(a, "added") /\ Moves(a, "finish") /\ UNCHANGED <<manifest, fatal>>
    BY <1>6, <2>1, <2>2, <2>3 DEF AddFails
  <2>5. Alone(a)
    BY <1>6, <2>1, <2>2, <2>3, <2>4 DEF AddFails, Alone, Moves, Writes
  <2>6. Typed' /\ Locked'
    BY <1>6, <2>1, <2>2, <2>3, <2>4 DEF AddFails, Moves, Writes, ServerTyped, ManifestTyped,
       RepositoryTyped, GoTyped, MemoryTyped, Locked
  <2>7. Row(a)'
    <3>1. Where(a)' /\ Untouched(a)'
      BY <1>6, <2>1, <2>2, <2>3, <2>4 DEF AddFails, Moves, Writes, Row, Where, Untouched,
         Recorded, Trees, Known, Present, Leaving
    <3>2. Recorded(a)'
      BY <1>6, <2>1, <2>2, <2>3, <2>4 DEF AddFails, Moves, Writes, Row, Where, Untouched,
         Recorded, Known, Present, Leaving
    <3>3. Trees(a)'
      BY <1>6, <2>1, <2>2, <2>3, <2>4 DEF AddFails, Moves, Writes, Row, Where, Untouched,
         Recorded, Trees, Ended, Known, Present, Safe, Leaving
    <3>4. Groups(a)'
      BY <1>6, <2>1, <2>2, <2>3, <2>4 DEF AddFails, Moves, Writes, Row, Where, Untouched,
         Recorded, Groups, Ended, Known, Gone, Leaving
    <3>5. Ended(a)'
      BY <1>6, <2>1, <2>2, <2>3, <2>4 DEF AddFails, Moves, Writes, Row, Where, Untouched, Ended,
         Locked, Leaving
    <3>6. Advertised(a)'
      BY <1>6, <2>1, <2>2, <2>3, <2>4 DEF AddFails, Moves, Writes, Row, Where, Untouched,
         Recorded, Trees, Ended, Advertised, Present, Leaving
    <3>7. Worked(a)'
      BY <1>6, <2>1, <2>2, <2>3, <2>4 DEF AddFails, Moves, Writes, Row, Where, Untouched,
         Recorded, Trees, Ended, Worked, Present, Leaving
    <3>8. QED
      BY <3>1, <3>2, <3>3, <3>4, <3>5, <3>6, <3>7 DEF Row
  <2>8. QED
    BY <1>6, <2>1, <2>2, <2>3, <2>4, <2>5, <2>6, <2>7, OthersKeep DEF AddFails, Moves
<1>7. CASE WorktreeCreated(a)
  <2>1. Known(a)
    BY <1>7 DEF WorktreeCreated, Row, Recorded, Turn, Verified
  <2>2. \/ /\ Writes(a, "worktree_created", manifest[a].intent, manifest[a].active)
           /\ Moves(a, "stage") /\ UNCHANGED <<group, fatal>>
        \/ Moves(a, "finish") /\ Stops(a) /\ fatal' = TRUE /\ UNCHANGED manifest
    BY <1>7, <2>1, AdvanceRow DEF WorktreeCreated, Points, Lifecycles
  <2>3. Alone(a)
    BY <1>7, <2>1, <2>2 DEF WorktreeCreated, Alone, Moves, Writes, Stops
  <2>4. Typed' /\ Locked'
    BY <1>7, <2>1, <2>2 DEF WorktreeCreated, Moves, Writes, Stops, ServerTyped, ManifestTyped,
       RepositoryTyped, GoTyped, MemoryTyped, Locked
  <2>5. Row(a)'
    <3>1. Where(a)' /\ Untouched(a)'
      BY <1>7, <2>1, <2>2 DEF WorktreeCreated, Moves, Writes, Stops, Row, Where, Untouched,
         Recorded, Trees, Known, Present, Leaving
    <3>2. Recorded(a)'
      BY <1>7, <2>1, <2>2 DEF WorktreeCreated, Moves, Writes, Stops, Row, Where, Untouched,
         Recorded, Known, Present, Leaving
    <3>3. Trees(a)'
      BY <1>7, <2>1, <2>2 DEF WorktreeCreated, Moves, Writes, Stops, Row, Where, Untouched,
         Recorded, Trees, Ended, Known, Present, Safe, Leaving
    <3>4. Groups(a)'
      BY <1>7, <2>1, <2>2 DEF WorktreeCreated, Moves, Writes, Stops, Row, Where, Untouched,
         Recorded, Groups, Ended, Known, Gone, Leaving
    <3>5. Ended(a)'
      BY <1>7, <2>1, <2>2 DEF WorktreeCreated, Moves, Writes, Stops, Row, Where, Untouched,
         Ended, Locked, Leaving
    <3>6. Advertised(a)'
      BY <1>7, <2>1, <2>2 DEF WorktreeCreated, Moves, Writes, Stops, Row, Where, Untouched,
         Recorded, Trees, Ended, Advertised, Present, Leaving
    <3>7. Worked(a)'
      BY <1>7, <2>1, <2>2 DEF WorktreeCreated, Moves, Writes, Stops, Row, Where, Untouched,
         Recorded, Trees, Ended, Worked, Present, Leaving
    <3>8. QED
      BY <3>1, <3>2, <3>3, <3>4, <3>5, <3>6, <3>7 DEF Row
  <2>6. QED
    BY <1>7, <2>1, <2>2, <2>3, <2>4, <2>5, OthersKeep DEF WorktreeCreated, Moves
<1>8. QED
  BY <1>2, <1>3, <1>4, <1>5, <1>6, <1>7

(* The supervisor of the next stage is ready: manifest, point and group.   *)
LEMMA ReadyRow ==
  ASSUME Typed, NEW a \in Attempts, Known(a), SupervisorReady(a)
  PROVE  /\ Writes(a, "supervisor_ready", manifest[a].intent, TRUE) /\ Moves(a, "start")
         /\ group' \in [Attempts -> {"none", "new", "known"}]
         /\ \A b \in Attempts \ {a} : group'[b] = group[b]
<1> DEFINE stage == go[a].stage + 1
<1> DEFINE m == [life |-> "supervisor_ready", intent |-> manifest[a].intent, active |-> TRUE,
                 stage |-> stage, why |-> manifest[a].why]
<1> DEFINE g == [at |-> "start", stage |-> stage, verdict |-> go[a].verdict, head |-> go[a].head]
<1>1. manifest[a] \in ManifestRow /\ go[a] \in GoRow
  BY KnownHasLife DEF Typed, GoTyped
<1>2. stage \in Nat
  BY <1>1 DEF GoRow
<1>3. m \in ManifestRow /\ g \in GoRow
  BY <1>1, <1>2 DEF ManifestRow, Lifecycles, GoRow, Points
<1>4. manifest' = [manifest EXCEPT ![a] = m]
  <2>1. manifest'[a] = m
    BY <1>1 DEF Typed, ManifestTyped, ManifestRow, SupervisorReady
  <2>2. manifest' = [b \in Attempts |-> IF b = a THEN manifest'[a] ELSE manifest[b]]
    BY DEF Typed, ManifestTyped, SupervisorReady
  <2>3. QED
    BY <2>1, <2>2 DEF Typed, ManifestTyped
<1>5. Writes(a, "supervisor_ready", manifest[a].intent, TRUE)
  BY <1>3, <1>4, WriteRow DEF Typed
<1>6. go' = [go EXCEPT ![a] = g]
  <2>1. go'[a] = g
    BY <1>1 DEF Typed, GoTyped, GoRow, SupervisorReady
  <2>2. go' = [b \in Attempts |-> IF b = a THEN go'[a] ELSE go[b]]
    BY DEF Typed, GoTyped, SupervisorReady
  <2>3. QED
    BY <2>1, <2>2 DEF Typed, GoTyped
<1>7. Moves(a, "start")
  BY <1>3, <1>6 DEF Typed, GoTyped, Moves
<1>8. group' = [group EXCEPT ![a] = "known"]
  BY DEF SupervisorReady
<1>9. /\ group' \in [Attempts -> {"none", "new", "known"}]
      /\ \A b \in Attempts \ {a} : group'[b] = group[b]
  BY <1>2, <1>8 DEF Typed, RepositoryTyped
<1>10. QED
  BY <1>5, <1>7, <1>9

(* The control plane records the supervisor of the stage.                  *)
LEMMA StartStageRow ==
  ASSUME Typed, NEW a \in Attempts, StartStage(a)
  PROVE  Serves(a, "running")
<1> DEFINE r == [state |-> "running", stage |-> go[a].stage, ack |-> served[a].ack]
<1>1. served[a] \in ServedRow /\ go[a].stage \in Nat
  BY DEF Typed, ServerTyped, GoTyped, GoRow
<1>2. r \in ServedRow
  BY <1>1 DEF ServedRow, States
<1>3. served'[a] = r
  BY <1>1 DEF Typed, ServerTyped, ServedRow, StartStage
<1>4. served' = [b \in Attempts |-> IF b = a THEN served'[a] ELSE served[b]]
  BY DEF Typed, ServerTyped, StartStage
<1>5. QED
  BY <1>2, <1>3, <1>4 DEF Typed, ServerTyped, Serves

(* A supervisor is started, or started in vain.                            *)
LEMMA SupervisorStarts ==
  ASSUME RecoveryInv, NEW a \in Attempts,
         StartSupervisor(a) \/ ReadyFails(a) \/ ReadyUnwritten(a)
  PROVE  RecoveryInv'
<1> USE DEF server, disk, repository, slots, registration, pass, bounds, Running, At
<1>1. Typed /\ Row(a) /\ Locked
  BY DEF RecoveryInv, Rows
<1> USE <1>1 DEF Typed
<1>2. CASE StartSupervisor(a)
  <2>1. /\ Moves(a, "spawned")
        /\ group' \in [Attempts -> {"none", "new", "known"}] /\ group'[a] = "new"
        /\ \A b \in Attempts \ {a} : group'[b] = group[b]
    BY <1>2, MoveTo DEF StartSupervisor, Points, RepositoryTyped
  <2>2. Alone(a)
    BY <1>2, <2>1 DEF StartSupervisor, Alone, Moves
  <2>3. Typed' /\ Locked'
    BY <1>2, <2>1 DEF StartSupervisor, Moves, ServerTyped, ManifestTyped, RepositoryTyped, GoTyped,
       MemoryTyped, Locked
  <2>4. Row(a)'
    <3>1. Where(a)' /\ Untouched(a)'
      BY <1>2, <2>1 DEF StartSupervisor, Moves, Row, Where, Untouched, Recorded, Trees, Known,
         Present, Leaving
    <3>2. Recorded(a)'
      BY <1>2, <2>1 DEF StartSupervisor, Moves, Row, Where, Untouched, Recorded, Known, Present,
         Leaving
    <3>3. Trees(a)'
      BY <1>2, <2>1 DEF StartSupervisor, Moves, Row, Where, Untouched, Recorded, Trees, Ended, Known,
         Present, Safe, Leaving
    <3>4. Groups(a)'
      BY <1>2, <2>1 DEF StartSupervisor, Moves, Row, Where, Untouched, Recorded, Groups, Worked, Known,
         Gone, Leaving
    <3>5. Ended(a)'
      BY <1>2, <2>1 DEF StartSupervisor, Moves, Row, Where, Untouched, Ended, Locked, Leaving
    <3>6. Advertised(a)'
      BY <1>2, <2>1 DEF StartSupervisor, Moves, Row, Where, Untouched, Recorded, Trees, Ended,
         Advertised, Present, Leaving
    <3>7. Worked(a)'
      BY <1>2, <2>1 DEF StartSupervisor, Moves, Row, Where, Untouched, Recorded, Trees, Ended, Worked,
         Present, Leaving
    <3>8. QED
      BY <3>1, <3>2, <3>3, <3>4, <3>5, <3>6, <3>7 DEF Row
  <2>5. QED
    BY <1>2, <2>1, <2>2, <2>3, <2>4, OthersKeep DEF StartSupervisor, Moves
<1>3. CASE ReadyFails(a)
  <2>1. Moves(a, "finish") /\ go'[a].verdict = "failed"
    BY <1>3, EndTo DEF ReadyFails, Points, RepositoryTyped
  <2>2. Alone(a)
    BY <1>3, <2>1 DEF ReadyFails, Alone, Moves
  <2>3. Typed' /\ Locked'
    BY <1>3, <2>1 DEF ReadyFails, Moves, ServerTyped, ManifestTyped, RepositoryTyped, GoTyped,
       MemoryTyped, Locked
  <2>4. Row(a)'
    <3>1. Where(a)' /\ Untouched(a)'
      BY <1>3, <2>1 DEF ReadyFails, Moves, Row, Where, Untouched, Recorded, Trees, Known,
         Present, Leaving
    <3>2. Recorded(a)'
      BY <1>3, <2>1 DEF ReadyFails, Moves, Row, Where, Untouched, Recorded, Known, Present,
         Leaving
    <3>3. Trees(a)'
      BY <1>3, <2>1 DEF ReadyFails, Moves, Row, Where, Untouched, Recorded, Trees, Ended, Known,
         Present, Safe, Leaving
    <3>4. Groups(a)'
      BY <1>3, <2>1 DEF ReadyFails, Moves, Row, Where, Untouched, Recorded, Groups, Worked, Known,
         Gone, Leaving
    <3>5. Ended(a)'
      BY <1>3, <2>1 DEF ReadyFails, Moves, Row, Where, Untouched, Ended, Locked, Leaving
    <3>6. Advertised(a)'
      BY <1>3, <2>1 DEF ReadyFails, Moves, Row, Where, Untouched, Recorded, Trees, Ended,
         Advertised, Present, Leaving
    <3>7. Worked(a)'
      BY <1>3, <2>1 DEF ReadyFails, Moves, Row, Where, Untouched, Recorded, Trees, Ended, Worked,
         Present, Leaving
    <3>8. QED
      BY <3>1, <3>2, <3>3, <3>4, <3>5, <3>6, <3>7 DEF Row
  <2>5. QED
    BY <1>3, <2>1, <2>2, <2>3, <2>4, OthersKeep DEF ReadyFails, Moves
<1>4. CASE ReadyUnwritten(a)
  <2>1. /\ Moves(a, "finish") /\ go'[a].verdict = "failed"
        /\ group' \in [Attempts -> {"none", "new", "known"}] /\ group'[a] \in {"none", group[a]}
        /\ \A b \in Attempts \ {a} : group'[b] = group[b]
    BY <1>4, EndTo DEF ReadyUnwritten, Points, RepositoryTyped
  <2>2. Alone(a)
    BY <1>4, <2>1 DEF ReadyUnwritten, Alone, Moves
  <2>3. Typed' /\ Locked'
    BY <1>4, <2>1 DEF ReadyUnwritten, Moves, ServerTyped, ManifestTyped, RepositoryTyped, GoTyped,
       MemoryTyped, Locked
  <2>4. Row(a)'
    <3>1. Where(a)' /\ Untouched(a)'
      BY <1>4, <2>1 DEF ReadyUnwritten, Moves, Row, Where, Untouched, Recorded, Trees, Known,
         Present, Leaving
    <3>2. Recorded(a)'
      BY <1>4, <2>1 DEF ReadyUnwritten, Moves, Row, Where, Untouched, Recorded, Known, Present,
         Leaving
    <3>3. Trees(a)'
      BY <1>4, <2>1 DEF ReadyUnwritten, Moves, Row, Where, Untouched, Recorded, Trees, Ended, Known,
         Present, Safe, Leaving
    <3>4. Groups(a)'
      BY <1>4, <2>1 DEF ReadyUnwritten, Moves, Row, Where, Untouched, Recorded, Groups, Worked, Known,
         Gone, Leaving
    <3>5. Ended(a)'
      BY <1>4, <2>1 DEF ReadyUnwritten, Moves, Row, Where, Untouched, Ended, Locked, Leaving
    <3>6. Advertised(a)'
      BY <1>4, <2>1 DEF ReadyUnwritten, Moves, Row, Where, Untouched, Recorded, Trees, Ended,
         Advertised, Present, Leaving
    <3>7. Worked(a)'
      BY <1>4, <2>1 DEF ReadyUnwritten, Moves, Row, Where, Untouched, Recorded, Trees, Ended, Worked,
         Present, Leaving
    <3>8. QED
      BY <3>1, <3>2, <3>3, <3>4, <3>5, <3>6, <3>7 DEF Row
  <2>5. QED
    BY <1>4, <2>1, <2>2, <2>3, <2>4, OthersKeep DEF ReadyUnwritten, Moves
<1>5. QED
  BY <1>2, <1>3, <1>4

(* The stages of the pipeline.                                             *)
LEMMA StagesRun ==
  ASSUME RecoveryInv, NEW a \in Attempts,
         StageFails(a) \/ SupervisorReady(a) \/ StartStage(a) \/ StartRefused(a) \/
           StageRuns(a) \/ StageEnds(a) \/ StopUnverified(a)
  PROVE  RecoveryInv'
<1> USE DEF server, disk, repository, slots, registration, pass, bounds, Running, At
<1>1. Typed /\ Row(a) /\ Locked
  BY DEF RecoveryInv, Rows
<1> USE <1>1 DEF Typed
<1>2. CASE StageFails(a)
  <2>1. Moves(a, "finish")
    BY <1>2, EndTo DEF StageFails, Points
  <2>2. Alone(a)
    BY <1>2, <2>1 DEF StageFails, Alone, Moves
  <2>3. Typed' /\ Locked'
    BY <1>2, <2>1 DEF StageFails, Moves, ServerTyped, ManifestTyped, RepositoryTyped, GoTyped,
       MemoryTyped, Locked
  <2>4. Row(a)'
    <3>1. Where(a)' /\ Untouched(a)'
      BY <1>2, <2>1 DEF StageFails, Moves, Row, Where, Untouched, Recorded, Trees, Known,
         Present, Leaving
    <3>2. Recorded(a)'
      BY <1>2, <2>1 DEF StageFails, Moves, Row, Where, Untouched, Recorded, Known, Present,
         Leaving
    <3>3. Trees(a)'
      BY <1>2, <2>1 DEF StageFails, Moves, Row, Where, Untouched, Recorded, Trees, Ended, Known,
         Present, Safe, Leaving
    <3>4. Groups(a)'
      BY <1>2, <2>1 DEF StageFails, Moves, Row, Where, Untouched, Recorded, Groups, Ended, Known,
         Gone, Leaving
    <3>5. Ended(a)'
      BY <1>2, <2>1 DEF StageFails, Moves, Row, Where, Untouched, Ended, Locked, Leaving
    <3>6. Advertised(a)'
      BY <1>2, <2>1 DEF StageFails, Moves, Row, Where, Untouched, Recorded, Trees, Ended,
         Advertised, Present, Leaving
    <3>7. Worked(a)'
      BY <1>2, <2>1 DEF StageFails, Moves, Row, Where, Untouched, Recorded, Trees, Ended, Worked,
         Present, Leaving
    <3>8. QED
      BY <3>1, <3>2, <3>3, <3>4, <3>5, <3>6, <3>7 DEF Row
  <2>5. QED
    BY <1>2, <2>1, <2>2, <2>3, <2>4, OthersKeep DEF StageFails, Moves
<1>3. CASE SupervisorReady(a)
  <2>1. /\ Writes(a, "supervisor_ready", manifest[a].intent, TRUE) /\ Moves(a, "start")
        /\ group' \in [Attempts -> {"none", "new", "known"}]
        /\ \A b \in Attempts \ {a} : group'[b] = group[b]
    BY <1>3, ReadyRow DEF SupervisorReady, Row, Recorded
  <2>2. Alone(a)
    BY <1>3, <2>1 DEF SupervisorReady, Alone, Moves, Writes
  <2>3. Typed' /\ Locked'
    BY <1>3, <2>1 DEF SupervisorReady, Moves, Writes, ServerTyped, ManifestTyped,
       RepositoryTyped, GoTyped, MemoryTyped, Locked
  <2>4. Row(a)'
    <3>1. Where(a)' /\ Untouched(a)'
      BY <1>3, <2>1 DEF SupervisorReady, Moves, Writes, Row, Where, Untouched, Recorded, Trees,
         Known, Present, Leaving
    <3>2. Recorded(a)'
      BY <1>3, <2>1 DEF SupervisorReady, Moves, Writes, Row, Where, Untouched, Recorded, Known,
         Present, Leaving
    <3>3. Trees(a)'
      BY <1>3, <2>1 DEF SupervisorReady, Moves, Writes, Row, Where, Untouched, Recorded, Trees,
         Ended, Known, Present, Safe, Leaving
    <3>4. Groups(a)'
      BY <1>3, <2>1 DEF SupervisorReady, Moves, Writes, Row, Where, Untouched, Recorded, Groups,
         Ended, Known, Gone, Leaving
    <3>5. Ended(a)'
      BY <1>3, <2>1 DEF SupervisorReady, Moves, Writes, Row, Where, Untouched, Ended, Locked,
         Leaving
    <3>6. Advertised(a)'
      BY <1>3, <2>1 DEF SupervisorReady, Moves, Writes, Row, Where, Untouched, Recorded, Trees,
         Ended, Advertised, Present, Leaving
    <3>7. Worked(a)'
      BY <1>3, <2>1 DEF SupervisorReady, Moves, Writes, Row, Where, Untouched, Recorded, Trees,
         Ended, Worked, Present, Leaving
    <3>8. QED
      BY <3>1, <3>2, <3>3, <3>4, <3>5, <3>6, <3>7 DEF Row
  <2>5. QED
    BY <1>3, <2>1, <2>2, <2>3, <2>4, OthersKeep DEF SupervisorReady, Moves
<1>4. CASE StartStage(a)
  <2>1. Moves(a, "started") /\ Serves(a, "running")
    BY <1>4, MoveTo, StartStageRow DEF StartStage, Points
  <2>2. Alone(a)
    BY <1>4, <2>1 DEF StartStage, Alone, Moves, Serves
  <2>3. Typed' /\ Locked'
    BY <1>4, <2>1 DEF StartStage, Moves, Serves, ServerTyped, ManifestTyped, RepositoryTyped,
       GoTyped, MemoryTyped, Locked
  <2>4. Row(a)'
    <3>1. Where(a)' /\ Untouched(a)'
      BY <1>4, <2>1 DEF StartStage, Moves, Serves, Row, Where, Untouched, Recorded, Trees, Known,
         Present, Leaving
    <3>2. Recorded(a)'
      BY <1>4, <2>1 DEF StartStage, Moves, Serves, Row, Where, Untouched, Recorded, Known,
         Present, Leaving
    <3>3. Trees(a)'
      BY <1>4, <2>1 DEF StartStage, Moves, Serves, Row, Where, Untouched, Recorded, Trees, Ended,
         Known, Present, Safe, Leaving
    <3>4. Groups(a)'
      BY <1>4, <2>1 DEF StartStage, Moves, Serves, Row, Where, Untouched, Recorded, Groups,
         Ended, Known, Gone, Leaving
    <3>5. Ended(a)'
      BY <1>4, <2>1 DEF StartStage, Moves, Serves, Row, Where, Untouched, Ended, Locked, Leaving
    <3>6. Advertised(a)'
      BY <1>4, <2>1 DEF StartStage, Moves, Serves, Row, Where, Untouched, Recorded, Trees, Ended,
         Advertised, Present, Leaving
    <3>7. Worked(a)'
      BY <1>4, <2>1 DEF StartStage, Moves, Serves, Row, Where, Untouched, Recorded, Trees, Ended,
         Worked, Present, Leaving
    <3>8. QED
      BY <3>1, <3>2, <3>3, <3>4, <3>5, <3>6, <3>7 DEF Row
  <2>5. QED
    BY <1>4, <2>1, <2>2, <2>3, <2>4, OthersKeep DEF StartStage, Moves
<1>5. CASE StartRefused(a)
  <2>1. Moves(a, "finish") /\ Stops(a)
    BY <1>5, EndTo, StopsGroup DEF StartRefused, Points
  <2>2. Alone(a)
    BY <1>5, <2>1 DEF StartRefused, Alone, Moves, Stops
  <2>3. Typed' /\ Locked'
    BY <1>5, <2>1 DEF StartRefused, Moves, Stops, ServerTyped, ManifestTyped, RepositoryTyped,
       GoTyped, MemoryTyped, Locked
  <2>4. Row(a)'
    <3>1. Where(a)' /\ Untouched(a)'
      BY <1>5, <2>1 DEF StartRefused, Moves, Stops, Row, Where, Untouched, Recorded, Trees,
         Known, Present, Leaving
    <3>2. Recorded(a)'
      BY <1>5, <2>1 DEF StartRefused, Moves, Stops, Row, Where, Untouched, Recorded, Known,
         Present, Leaving
    <3>3. Trees(a)'
      BY <1>5, <2>1 DEF StartRefused, Moves, Stops, Row, Where, Untouched, Recorded, Trees,
         Ended, Known, Present, Safe, Leaving
    <3>4. Groups(a)'
      BY <1>5, <2>1 DEF StartRefused, Moves, Stops, Row, Where, Untouched, Recorded, Groups,
         Ended, Known, Gone, Leaving
    <3>5. Ended(a)'
      BY <1>5, <2>1 DEF StartRefused, Moves, Stops, Row, Where, Untouched, Ended, Locked, Leaving
    <3>6. Advertised(a)'
      BY <1>5, <2>1 DEF StartRefused, Moves, Stops, Row, Where, Untouched, Recorded, Trees,
         Ended, Advertised, Present, Leaving
    <3>7. Worked(a)'
      BY <1>5, <2>1 DEF StartRefused, Moves, Stops, Row, Where, Untouched, Recorded, Trees,
         Ended, Worked, Present, Leaving
    <3>8. QED
      BY <3>1, <3>2, <3>3, <3>4, <3>5, <3>6, <3>7 DEF Row
  <2>5. QED
    BY <1>5, <2>1, <2>2, <2>3, <2>4, OthersKeep DEF StartRefused, Moves
<1>6. CASE StageRuns(a)
  <2>1. Known(a)
    BY <1>6 DEF StageRuns, Row, Recorded, Turn, Verified
  <2>2. \/ /\ Writes(a, "running", manifest[a].intent, manifest[a].active)
           /\ Moves(a, "run") /\ UNCHANGED <<group, fatal>>
        \/ Moves(a, "finish") /\ Stops(a) /\ fatal' = TRUE /\ UNCHANGED manifest
    BY <1>6, <2>1, AdvanceRow DEF StageRuns, Points, Lifecycles
  <2>3. Alone(a)
    BY <1>6, <2>1, <2>2 DEF StageRuns, Alone, Moves, Writes, Stops
  <2>4. Typed' /\ Locked'
    BY <1>6, <2>1, <2>2 DEF StageRuns, Moves, Writes, Stops, ServerTyped, ManifestTyped,
       RepositoryTyped, GoTyped, MemoryTyped, Locked
  <2>5. Row(a)'
    <3>1. Where(a)' /\ Untouched(a)'
      BY <1>6, <2>1, <2>2 DEF StageRuns, Moves, Writes, Stops, Row, Where, Untouched, Recorded,
         Trees, Known, Present, Leaving
    <3>2. Recorded(a)'
      BY <1>6, <2>1, <2>2 DEF StageRuns, Moves, Writes, Stops, Row, Where, Untouched, Recorded,
         Known, Present, Leaving
    <3>3. Trees(a)'
      BY <1>6, <2>1, <2>2 DEF StageRuns, Moves, Writes, Stops, Row, Where, Untouched, Recorded,
         Trees, Ended, Known, Present, Safe, Leaving
    <3>4. Groups(a)'
      BY <1>6, <2>1, <2>2 DEF StageRuns, Moves, Writes, Stops, Row, Where, Untouched, Recorded,
         Groups, Ended, Known, Gone, Leaving
    <3>5. Ended(a)'
      BY <1>6, <2>1, <2>2 DEF StageRuns, Moves, Writes, Stops, Row, Where, Untouched, Ended,
         Locked, Leaving
    <3>6. Advertised(a)'
      BY <1>6, <2>1, <2>2 DEF StageRuns, Moves, Writes, Stops, Row, Where, Untouched, Recorded,
         Trees, Ended, Advertised, Present, Leaving
    <3>7. Worked(a)'
      BY <1>6, <2>1, <2>2 DEF StageRuns, Moves, Writes, Stops, Row, Where, Untouched, Recorded,
         Trees, Ended, Worked, Present, Leaving
    <3>8. QED
      BY <3>1, <3>2, <3>3, <3>4, <3>5, <3>6, <3>7 DEF Row
  <2>6. QED
    BY <1>6, <2>1, <2>2, <2>3, <2>4, <2>5, OthersKeep DEF StageRuns, Moves
<1>7. CASE StageEnds(a)
  <2>1. Moves(a, "stage") \/ Moves(a, "finish")
    BY <1>7, MoveTo, EndTo DEF StageEnds, Points
  <2>2. Stops(a)
    BY <1>7, <2>1, StopsGroup DEF StageEnds
  <2>3. tree[a].path
    BY <1>7, <2>1, <2>2 DEF StageEnds, Row, Worked
  <2>4. Plants(a, tree[a].path, tree[a].listed)
    BY <1>7, <2>1, <2>2, <2>3, EditRow DEF StageEnds
  <2>5. branch' \in [Attempts -> Heads]
    BY <1>7, <2>1, <2>2, <2>3, <2>4 DEF StageEnds, RepositoryTyped, Heads
  <2>6. Alone(a)
    BY <1>7, <2>1, <2>2, <2>3, <2>4, <2>5 DEF StageEnds, Alone, Moves, Stops, Plants
  <2>7. Typed' /\ Locked'
    BY <1>7, <2>1, <2>2, <2>3, <2>4, <2>5 DEF StageEnds, Moves, Stops, Plants, ServerTyped,
       ManifestTyped, RepositoryTyped, GoTyped, MemoryTyped, Locked
  <2>8. Row(a)'
    <3>1. Where(a)' /\ Untouched(a)'
      BY <1>7, <2>1, <2>2, <2>3, <2>4, <2>5 DEF StageEnds, Moves, Stops, Plants, Row, Where,
         Untouched, Recorded, Trees, Known, Present, Leaving
    <3>2. Recorded(a)'
      BY <1>7, <2>1, <2>2, <2>3, <2>4, <2>5 DEF StageEnds, Moves, Stops, Plants, Row, Where,
         Untouched, Recorded, Known, Present, Leaving
    <3>3. Trees(a)'
      BY <1>7, <2>1, <2>2, <2>3, <2>4, <2>5 DEF StageEnds, Moves, Stops, Plants, Row, Where,
         Untouched, Recorded, Trees, Ended, Known, Present, Safe, Leaving
    <3>4. Groups(a)'
      BY <1>7, <2>1, <2>2, <2>3, <2>4, <2>5 DEF StageEnds, Moves, Stops, Plants, Row, Where,
         Untouched, Recorded, Groups, Ended, Known, Gone, Leaving
    <3>5. Ended(a)'
      BY <1>7, <2>1, <2>2, <2>3, <2>4, <2>5 DEF StageEnds, Moves, Stops, Plants, Row, Where,
         Untouched, Ended, Locked, Leaving
    <3>6. Advertised(a)'
      BY <1>7, <2>1, <2>2, <2>3, <2>4, <2>5 DEF StageEnds, Moves, Stops, Plants, Row, Where,
         Untouched, Recorded, Trees, Ended, Advertised, Present, Leaving
    <3>7. Worked(a)'
      BY <1>7, <2>1, <2>2, <2>3, <2>4, <2>5 DEF StageEnds, Moves, Stops, Plants, Row, Where,
         Untouched, Recorded, Trees, Ended, Worked, Present, Leaving
    <3>8. QED
      BY <3>1, <3>2, <3>3, <3>4, <3>5, <3>6, <3>7 DEF Row
  <2>9. QED
    BY <1>7, <2>1, <2>2, <2>3, <2>4, <2>5, <2>6, <2>7, <2>8, OthersKeep DEF StageEnds, Moves
<1>8. CASE StopUnverified(a)
  <2>1. Moves(a, "retain")
    BY <1>8, EndTo DEF StopUnverified, Points
  <2>2. Alone(a)
    BY <1>8, <2>1 DEF StopUnverified, Alone, Moves
  <2>3. Typed' /\ Locked'
    BY <1>8, <2>1 DEF StopUnverified, Moves, ServerTyped, ManifestTyped, RepositoryTyped,
       GoTyped, MemoryTyped, Locked
  <2>4. Row(a)'
    <3>1. Where(a)' /\ Untouched(a)'
      BY <1>8, <2>1 DEF StopUnverified, Moves, Row, Where, Untouched, Recorded, Trees, Known,
         Present, Leaving
    <3>2. Recorded(a)'
      BY <1>8, <2>1 DEF StopUnverified, Moves, Row, Where, Untouched, Recorded, Known, Present,
         Leaving
    <3>3. Trees(a)'
      BY <1>8, <2>1 DEF StopUnverified, Moves, Row, Where, Untouched, Recorded, Trees, Ended,
         Known, Present, Safe, Leaving
    <3>4. Groups(a)'
      BY <1>8, <2>1 DEF StopUnverified, Moves, Row, Where, Untouched, Recorded, Groups, Ended,
         Known, Gone, Leaving
    <3>5. Ended(a)'
      BY <1>8, <2>1 DEF StopUnverified, Moves, Row, Where, Untouched, Ended, Locked, Leaving
    <3>6. Advertised(a)'
      BY <1>8, <2>1 DEF StopUnverified, Moves, Row, Where, Untouched, Recorded, Trees, Ended,
         Advertised, Present, Leaving
    <3>7. Worked(a)'
      BY <1>8, <2>1 DEF StopUnverified, Moves, Row, Where, Untouched, Recorded, Trees, Ended,
         Worked, Present, Leaving
    <3>8. QED
      BY <3>1, <3>2, <3>3, <3>4, <3>5, <3>6, <3>7 DEF Row
  <2>5. QED
    BY <1>8, <2>1, <2>2, <2>3, <2>4, OthersKeep DEF StopUnverified, Moves
<1>9. QED
  BY <1>2, <1>3, <1>4, <1>5, <1>6, <1>7, <1>8

LEMMA FinishRow ==
  ASSUME Typed, NEW a \in Attempts, Known(a),
         manifest' = [manifest EXCEPT ![a].life = "completed", ![a].active = FALSE]
  PROVE  Writes(a, "completed", manifest[a].intent, FALSE)
<1> DEFINE m == [life |-> "completed", intent |-> manifest[a].intent, active |-> FALSE,
                 stage |-> manifest[a].stage, why |-> manifest[a].why]
<1>1. manifest[a] \in ManifestRow
  BY KnownHasLife DEF Typed
<1>2. m \in ManifestRow
  BY <1>1 DEF ManifestRow, Lifecycles
<1>3. manifest'[a] = m
  BY <1>1 DEF Typed, ManifestTyped, ManifestRow
<1>4. manifest' = [b \in Attempts |-> IF b = a THEN manifest'[a] ELSE manifest[b]]
  BY DEF Typed, ManifestTyped
<1>5. manifest' = [manifest EXCEPT ![a] = m]
  BY <1>3, <1>4 DEF Typed, ManifestTyped
<1>6. QED
  BY <1>2, <1>5, WriteRow DEF Typed

LEMMA CleanupRow ==
  ASSUME Typed, NEW a \in Attempts, Known(a), NEW intent \in {"automatic", "operator"},
         manifest' = [manifest EXCEPT ![a].life = "cleanup_started", ![a].intent = intent]
  PROVE  Writes(a, "cleanup_started", intent, manifest[a].active)
<1> DEFINE m == [life |-> "cleanup_started", intent |-> intent, active |-> manifest[a].active,
                 stage |-> manifest[a].stage, why |-> manifest[a].why]
<1>1. manifest[a] \in ManifestRow
  BY KnownHasLife DEF Typed
<1>2. m \in ManifestRow
  BY <1>1 DEF ManifestRow, Lifecycles
<1>3. manifest'[a] = m
  BY <1>1 DEF Typed, ManifestTyped, ManifestRow
<1>4. manifest' = [b \in Attempts |-> IF b = a THEN manifest'[a] ELSE manifest[b]]
  BY DEF Typed, ManifestTyped
<1>5. manifest' = [manifest EXCEPT ![a] = m]
  BY <1>3, <1>4 DEF Typed, ManifestTyped
<1>6. QED
  BY <1>2, <1>5, WriteRow DEF Typed

(* The end of the attempt.                                                 *)
LEMMA AttemptEnds ==
  ASSUME RecoveryInv, NEW a \in Attempts,
         Finish(a) \/ Complete(a) \/ CleanBegins(a) \/ Retain(a) \/ Forgo(a) \/ NotCreated(a)
           \/ Report(a) \/ Release(a)
  PROVE  RecoveryInv'
<1> USE DEF server, disk, repository, slots, registration, pass, bounds, Running, At
<1>1. Typed /\ Row(a) /\ Locked
  BY DEF RecoveryInv, Rows
<1> USE <1>1 DEF Typed
<1>2. CASE Finish(a)
  <2>1. Known(a)
    BY <1>2 DEF Finish, Row, Recorded, Turn, Verified
  <2>2. Moves(a, "complete") /\ go'[a].verdict = go[a].verdict
    BY <1>2, <2>1, MoveTo DEF Finish, Points
  <2>3. \/ Writes(a, "completed", manifest[a].intent, FALSE) /\ UNCHANGED fatal
        \/ UNCHANGED manifest /\ fatal' = TRUE
    BY <1>2, <2>1, <2>2, FinishRow DEF Finish
  <2>4. Alone(a)
    BY <1>2, <2>1, <2>2, <2>3 DEF Finish, Handoff, Alone, Moves, Writes
  <2>5. Typed' /\ Locked'
    BY <1>2, <2>1, <2>2, <2>3 DEF Finish, Handoff, Moves, Writes, ServerTyped, ManifestTyped,
       RepositoryTyped, GoTyped, MemoryTyped, Locked
  <2>6. Row(a)'
    <3>1. Where(a)' /\ Untouched(a)'
      BY <1>2, <2>1, <2>2, <2>3 DEF Finish, Handoff, Moves, Writes, Row, Where, Untouched,
         Recorded, Trees, Known, Present, Leaving
    <3>2. Recorded(a)'
      BY <1>2, <2>1, <2>2, <2>3 DEF Finish, Handoff, Moves, Writes, Row, Where, Untouched,
         Recorded, Known, Present, Leaving
    <3>3. Trees(a)'
      BY <1>2, <2>1, <2>2, <2>3 DEF Finish, Handoff, Moves, Writes, Row, Where, Untouched,
         Recorded, Trees, Ended, Known, Present, Safe, Leaving
    <3>4. Groups(a)'
      BY <1>2, <2>1, <2>2, <2>3 DEF Finish, Handoff, Moves, Writes, Row, Where, Untouched,
         Recorded, Groups, Ended, Known, Gone, Leaving
    <3>5. Ended(a)'
      BY <1>2, <2>1, <2>2, <2>3 DEF Finish, Handoff, Moves, Writes, Row, Where, Untouched, Ended,
         Locked, Leaving
    <3>6. Advertised(a)'
      BY <1>2, <2>1, <2>2, <2>3 DEF Finish, Handoff, Moves, Writes, Row, Where, Untouched,
         Recorded, Trees, Ended, Advertised, Present, Leaving
    <3>7. Worked(a)'
      BY <1>2, <2>1, <2>2, <2>3 DEF Finish, Handoff, Moves, Writes, Row, Where, Untouched,
         Recorded, Trees, Ended, Worked, Present, Leaving
    <3>8. QED
      BY <3>1, <3>2, <3>3, <3>4, <3>5, <3>6, <3>7 DEF Row
  <2>7. QED
    BY <1>2, <2>1, <2>2, <2>3, <2>4, <2>5, <2>6, OthersKeep DEF Finish, Handoff, Moves
<1>3. CASE Complete(a)
  <2>1. \/ Moves(a, "clean") /\ go[a].verdict # "failed"
        \/ Moves(a, "retain")
    BY <1>3, MoveTo DEF Complete, Points
  <2>2. Serves(a, "succeeded") \/ Serves(a, "failed") \/ UNCHANGED served
    BY <1>3, <2>1, CompletedRow DEF Complete
  <2>3. Alone(a)
    BY <1>3, <2>1, <2>2 DEF Complete, Alone, Moves, Serves
  <2>4. Typed' /\ Locked'
    BY <1>3, <2>1, <2>2 DEF Complete, Moves, Serves, ServerTyped, ManifestTyped, RepositoryTyped,
       GoTyped, MemoryTyped, Locked
  <2>5. Row(a)'
    <3>1. Where(a)' /\ Untouched(a)'
      BY <1>3, <2>1, <2>2 DEF Complete, Moves, Serves, Row, Where, Untouched, Recorded, Trees,
         Known, Present, Leaving
    <3>2. Recorded(a)'
      BY <1>3, <2>1, <2>2 DEF Complete, Moves, Serves, Row, Where, Untouched, Recorded, Known,
         Present, Leaving
    <3>3. Trees(a)'
      BY <1>3, <2>1, <2>2 DEF Complete, Moves, Serves, Row, Where, Untouched, Recorded, Trees,
         Ended, Known, Present, Safe, Leaving
    <3>4. Groups(a)'
      BY <1>3, <2>1, <2>2 DEF Complete, Moves, Serves, Row, Where, Untouched, Recorded, Groups,
         Ended, Known, Gone, Leaving
    <3>5. Ended(a)'
      BY <1>3, <2>1, <2>2 DEF Complete, Moves, Serves, Row, Where, Untouched, Ended, Locked,
         Leaving
    <3>6. Advertised(a)'
      BY <1>3, <2>1, <2>2 DEF Complete, Moves, Serves, Row, Where, Untouched, Recorded, Trees,
         Ended, Advertised, Present, Leaving
    <3>7. Worked(a)'
      BY <1>3, <2>1, <2>2 DEF Complete, Moves, Serves, Row, Where, Untouched, Recorded, Trees,
         Ended, Worked, Present, Leaving
    <3>8. QED
      BY <3>1, <3>2, <3>3, <3>4, <3>5, <3>6, <3>7 DEF Row
  <2>6. QED
    BY <1>3, <2>1, <2>2, <2>3, <2>4, <2>5, OthersKeep DEF Complete, Moves
<1>4. CASE CleanBegins(a)
  <2>1. Known(a)
    BY <1>4 DEF CleanBegins, Row, Recorded, Turn, Verified
  <2>2. /\ Goto(a, "remove") => Moves(a, "remove")
        /\ Goto(a, "retain") => Moves(a, "retain")
    BY MoveTo DEF Points
  <2>3. \/ /\ Moves(a, "remove")
           /\ Writes(a, "cleanup_started", "automatic", manifest[a].active)
        \/ Moves(a, "retain") /\ UNCHANGED manifest
    BY <1>4, <2>1, <2>2, CleanupRow DEF CleanBegins
  <2>4. Alone(a)
    BY <1>4, <2>1, <2>2, <2>3 DEF CleanBegins, Alone, Moves, Writes
  <2>5. Typed' /\ Locked'
    BY <1>4, <2>1, <2>2, <2>3 DEF CleanBegins, Moves, Writes, ServerTyped, ManifestTyped,
       RepositoryTyped, GoTyped, MemoryTyped, Locked
  <2>6. Row(a)'
    <3>1. Where(a)' /\ Untouched(a)'
      BY <1>4, <2>1, <2>2, <2>3 DEF CleanBegins, Moves, Writes, Row, Where, Untouched, Recorded,
         Trees, Known, Present, Leaving
    <3>2. Recorded(a)'
      BY <1>4, <2>1, <2>2, <2>3 DEF CleanBegins, Moves, Writes, Row, Where, Untouched, Recorded,
         Known, Present, Leaving
    <3>3. Trees(a)'
      BY <1>4, <2>1, <2>2, <2>3 DEF CleanBegins, Moves, Writes, Row, Where, Untouched, Recorded,
         Trees, Ended, Known, Present, Safe, Leaving
    <3>4. Groups(a)'
      BY <1>4, <2>1, <2>2, <2>3 DEF CleanBegins, Moves, Writes, Row, Where, Untouched, Recorded,
         Groups, Ended, Known, Gone, Leaving
    <3>5. Ended(a)'
      BY <1>4, <2>1, <2>2, <2>3 DEF CleanBegins, Moves, Writes, Row, Where, Untouched, Ended,
         Locked, Leaving
    <3>6. Advertised(a)'
      BY <1>4, <2>1, <2>2, <2>3 DEF CleanBegins, Moves, Writes, Row, Where, Untouched, Recorded,
         Trees, Ended, Advertised, Present, Leaving
    <3>7. Worked(a)'
      BY <1>4, <2>1, <2>2, <2>3 DEF CleanBegins, Moves, Writes, Row, Where, Untouched, Recorded,
         Trees, Ended, Worked, Present, Leaving
    <3>8. QED
      BY <3>1, <3>2, <3>3, <3>4, <3>5, <3>6, <3>7 DEF Row
  <2>7. QED
    BY <1>4, <2>1, <2>2, <2>3, <2>4, <2>5, <2>6, OthersKeep DEF CleanBegins, Moves
<1>5. CASE Retain(a)
  <2>1. Known(a)
    BY <1>5 DEF Retain, Row, Recorded, Turn, Verified
  <2>2. Persist(a, "retained") => Writes(a, "retained", manifest[a].intent, manifest[a].active)
    BY <1>5, <2>1, PersistRow DEF Retain, Lifecycles
  <2>3. Inconsistent(a, "worktree") => Writes(a, "inconsistent", manifest[a].intent, manifest[a].active)
    BY <1>5, <2>1, <2>2, InconsistentRow DEF Retain
  <2>4. Moves(a, "release")
    BY <1>5, <2>1, <2>2, <2>3, MoveTo DEF Retain, Points
  <2>5. \/ /\ Writes(a, "retained", manifest[a].intent, manifest[a].active)
           /\ retained' = retained \cup {a} /\ UNCHANGED fatal
        \/ /\ Writes(a, "inconsistent", manifest[a].intent, manifest[a].active)
           /\ UNCHANGED retained /\ fatal' = TRUE
        \/ UNCHANGED <<manifest, retained>> /\ fatal' = TRUE
    BY <1>5, <2>1, <2>2, <2>3, <2>4 DEF Retain
  <2>6. Alone(a)
    BY <1>5, <2>1, <2>2, <2>3, <2>4, <2>5 DEF Retain, Alone, Moves, Writes
  <2>7. Typed' /\ Locked'
    BY <1>5, <2>1, <2>2, <2>3, <2>4, <2>5 DEF Retain, Moves, Writes, ServerTyped, ManifestTyped,
       RepositoryTyped, GoTyped, MemoryTyped, Locked
  <2>8. Row(a)'
    <3>1. Where(a)' /\ Untouched(a)'
      BY <1>5, <2>1, <2>2, <2>3, <2>4, <2>5 DEF Retain, Moves, Writes, Row, Where, Untouched,
         Recorded, Trees, Known, Present, Leaving
    <3>2. Recorded(a)'
      BY <1>5, <2>1, <2>2, <2>3, <2>4, <2>5 DEF Retain, Moves, Writes, Row, Where, Untouched,
         Recorded, Known, Present, Leaving
    <3>3. Trees(a)'
      BY <1>5, <2>1, <2>2, <2>3, <2>4, <2>5 DEF Retain, Moves, Writes, Row, Where, Untouched,
         Recorded, Trees, Ended, Known, Present, Safe, Leaving
    <3>4. Groups(a)'
      BY <1>5, <2>1, <2>2, <2>3, <2>4, <2>5 DEF Retain, Moves, Writes, Row, Where, Untouched,
         Recorded, Groups, Ended, Known, Gone, Leaving
    <3>5. Ended(a)'
      BY <1>5, <2>1, <2>2, <2>3, <2>4, <2>5 DEF Retain, Moves, Writes, Row, Where, Untouched,
         Ended, Locked, Leaving
    <3>6. Advertised(a)'
      BY <1>5, <2>1, <2>2, <2>3, <2>4, <2>5 DEF Retain, Moves, Writes, Row, Where, Untouched,
         Recorded, Trees, Ended, Advertised, Present, Leaving
    <3>7. Worked(a)'
      BY <1>5, <2>1, <2>2, <2>3, <2>4, <2>5 DEF Retain, Moves, Writes, Row, Where, Untouched,
         Recorded, Trees, Ended, Worked, Present, Leaving
    <3>8. QED
      BY <3>1, <3>2, <3>3, <3>4, <3>5, <3>6, <3>7 DEF Row
  <2>9. QED
    BY <1>5, <2>1, <2>2, <2>3, <2>4, <2>5, <2>6, <2>7, <2>8, OthersKeep DEF Retain, Moves
<1>6. CASE Forgo(a)
  <2>1. /\ Goto(a, "not_created") => Moves(a, "not_created")
        /\ Goto(a, "release") => Moves(a, "release")
    BY MoveTo DEF Points
  <2>2. \/ Moves(a, "not_created") /\ disposals' = disposals \cup {a} /\ UNCHANGED fatal
        \/ Moves(a, "release") /\ UNCHANGED disposals /\ fatal' = TRUE
    BY <1>6, <2>1 DEF Forgo
  <2>3. Alone(a)
    BY <1>6, <2>1, <2>2 DEF Forgo, Handoff, Alone, Moves
  <2>4. Typed' /\ Locked'
    BY <1>6, <2>1, <2>2 DEF Forgo, Handoff, Moves, ServerTyped, ManifestTyped, RepositoryTyped,
       GoTyped, MemoryTyped, Locked
  <2>5. Row(a)'
    <3>1. Where(a)' /\ Untouched(a)'
      BY <1>6, <2>1, <2>2 DEF Forgo, Handoff, Moves, Row, Where, Untouched, Recorded, Trees,
         Known, Present, Leaving
    <3>2. Recorded(a)'
      BY <1>6, <2>1, <2>2 DEF Forgo, Handoff, Moves, Row, Where, Untouched, Recorded, Known,
         Present, Leaving
    <3>3. Trees(a)'
      BY <1>6, <2>1, <2>2 DEF Forgo, Handoff, Moves, Row, Where, Untouched, Recorded, Trees,
         Ended, Known, Present, Safe, Leaving
    <3>4. Groups(a)'
      BY <1>6, <2>1, <2>2 DEF Forgo, Handoff, Moves, Row, Where, Untouched, Recorded, Groups,
         Ended, Known, Gone, Leaving
    <3>5. Ended(a)'
      BY <1>6, <2>1, <2>2 DEF Forgo, Handoff, Moves, Row, Where, Untouched, Ended, Locked,
         Leaving
    <3>6. Advertised(a)'
      BY <1>6, <2>1, <2>2 DEF Forgo, Handoff, Moves, Row, Where, Untouched, Recorded, Trees,
         Ended, Advertised, Present, Leaving
    <3>7. Worked(a)'
      BY <1>6, <2>1, <2>2 DEF Forgo, Handoff, Moves, Row, Where, Untouched, Recorded, Trees,
         Ended, Worked, Present, Leaving
    <3>8. QED
      BY <3>1, <3>2, <3>3, <3>4, <3>5, <3>6, <3>7 DEF Row
  <2>6. QED
    BY <1>6, <2>1, <2>2, <2>3, <2>4, <2>5, OthersKeep DEF Forgo, Handoff, Moves
<1>7. CASE NotCreated(a)
  <2>1. Known(a) /\ Persist(a, "not_created") =>
           Writes(a, "not_created", manifest[a].intent, manifest[a].active)
    BY <1>7, PersistRow DEF NotCreated, Lifecycles
  <2>2. Moves(a, "report")
    BY <1>7, <2>1, MoveTo DEF NotCreated, Points
  <2>3. \/ Writes(a, "not_created", manifest[a].intent, manifest[a].active) /\ UNCHANGED fatal
        \/ UNCHANGED manifest /\ (fatal => fatal') /\ fatal' \in BOOLEAN
    BY <1>7, <2>1, <2>2 DEF NotCreated, Known, MemoryTyped
  <2>4. Alone(a)
    BY <1>7, <2>1, <2>2, <2>3 DEF NotCreated, Alone, Moves, Writes
  <2>5. Typed' /\ Locked'
    BY <1>7, <2>1, <2>2, <2>3 DEF NotCreated, Moves, Writes, ServerTyped, ManifestTyped,
       RepositoryTyped, GoTyped, MemoryTyped, Locked
  <2>6. Row(a)'
    <3>1. Where(a)' /\ Untouched(a)'
      BY <1>7, <2>1, <2>2, <2>3 DEF NotCreated, Moves, Writes, Row, Where, Untouched, Recorded,
         Trees, Known, Present, Leaving
    <3>2. Recorded(a)'
      BY <1>7, <2>1, <2>2, <2>3 DEF NotCreated, Moves, Writes, Row, Where, Untouched, Recorded,
         Known, Present, Leaving
    <3>3. Trees(a)'
      BY <1>7, <2>1, <2>2, <2>3 DEF NotCreated, Moves, Writes, Row, Where, Untouched, Recorded,
         Trees, Ended, Known, Present, Safe, Leaving
    <3>4. Groups(a)'
      BY <1>7, <2>1, <2>2, <2>3 DEF NotCreated, Moves, Writes, Row, Where, Untouched, Recorded,
         Groups, Ended, Known, Gone, Leaving
    <3>5. Ended(a)'
      BY <1>7, <2>1, <2>2, <2>3 DEF NotCreated, Moves, Writes, Row, Where, Untouched, Ended,
         Locked, Leaving
    <3>6. Advertised(a)'
      BY <1>7, <2>1, <2>2, <2>3 DEF NotCreated, Moves, Writes, Row, Where, Untouched, Recorded,
         Trees, Ended, Advertised, Present, Leaving
    <3>7. Worked(a)'
      BY <1>7, <2>1, <2>2, <2>3 DEF NotCreated, Moves, Writes, Row, Where, Untouched, Recorded,
         Trees, Ended, Worked, Present, Leaving
    <3>8. QED
      BY <3>1, <3>2, <3>3, <3>4, <3>5, <3>6, <3>7 DEF Row
  <2>7. QED
    BY <1>7, <2>1, <2>2, <2>3, <2>4, <2>5, <2>6, OthersKeep DEF NotCreated, Moves
<1>8. CASE Report(a)
  <2>1. Moves(a, "release")
    BY <1>8, MoveTo DEF Report, Points
  <2>2. Serves(a, "succeeded") \/ Serves(a, "failed") \/ UNCHANGED served
    BY <1>8, <2>1, CompletedRow DEF Report
  <2>3. Alone(a)
    BY <1>8, <2>1, <2>2 DEF Report, Alone, Moves, Serves
  <2>4. Typed' /\ Locked'
    BY <1>8, <2>1, <2>2 DEF Report, Moves, Serves, ServerTyped, ManifestTyped, RepositoryTyped,
       GoTyped, MemoryTyped, Locked
  <2>5. Row(a)'
    <3>1. Where(a)' /\ Untouched(a)'
      BY <1>8, <2>1, <2>2 DEF Report, Moves, Serves, Row, Where, Untouched, Recorded, Trees,
         Known, Present, Leaving
    <3>2. Recorded(a)'
      BY <1>8, <2>1, <2>2 DEF Report, Moves, Serves, Row, Where, Untouched, Recorded, Known,
         Present, Leaving
    <3>3. Trees(a)'
      BY <1>8, <2>1, <2>2 DEF Report, Moves, Serves, Row, Where, Untouched, Recorded, Trees,
         Ended, Known, Present, Safe, Leaving
    <3>4. Groups(a)'
      BY <1>8, <2>1, <2>2 DEF Report, Moves, Serves, Row, Where, Untouched, Recorded, Groups,
         Ended, Known, Gone, Leaving
    <3>5. Ended(a)'
      BY <1>8, <2>1, <2>2 DEF Report, Moves, Serves, Row, Where, Untouched, Ended, Locked,
         Leaving
    <3>6. Advertised(a)'
      BY <1>8, <2>1, <2>2 DEF Report, Moves, Serves, Row, Where, Untouched, Recorded, Trees,
         Ended, Advertised, Present, Leaving
    <3>7. Worked(a)'
      BY <1>8, <2>1, <2>2 DEF Report, Moves, Serves, Row, Where, Untouched, Recorded, Trees,
         Ended, Worked, Present, Leaving
    <3>8. QED
      BY <3>1, <3>2, <3>3, <3>4, <3>5, <3>6, <3>7 DEF Row
  <2>6. QED
    BY <1>8, <2>1, <2>2, <2>3, <2>4, <2>5, OthersKeep DEF Report, Moves
<1>9. CASE Release(a)
  <2>1. Moves(a, "idle")
    BY <1>9, MoveIdle DEF Release
  <2>2. Alone(a)
    BY <1>9, <2>1 DEF Release, Alone, Moves
  <2>3. Typed' /\ Locked'
    BY <1>9, <2>1 DEF Release, Moves, ServerTyped, ManifestTyped, RepositoryTyped, GoTyped,
       MemoryTyped, Locked
  <2>4. Row(a)'
    <3>1. Where(a)' /\ Untouched(a)'
      BY <1>9, <2>1 DEF Release, Moves, Row, Where, Untouched, Recorded, Trees, Known, Present,
         Leaving
    <3>2. Recorded(a)'
      BY <1>9, <2>1 DEF Release, Moves, Row, Where, Untouched, Recorded, Known, Present, Leaving
    <3>3. Trees(a)'
      BY <1>9, <2>1 DEF Release, Moves, Row, Where, Untouched, Recorded, Trees, Ended, Known,
         Present, Safe, Leaving
    <3>4. Groups(a)'
      BY <1>9, <2>1 DEF Release, Moves, Row, Where, Untouched, Recorded, Groups, Ended, Known,
         Gone, Leaving
    <3>5. Ended(a)'
      BY <1>9, <2>1 DEF Release, Moves, Row, Where, Untouched, Ended, Locked, Leaving
    <3>6. Advertised(a)'
      BY <1>9, <2>1 DEF Release, Moves, Row, Where, Untouched, Recorded, Trees, Ended,
         Advertised, Present, Leaving
    <3>7. Worked(a)'
      BY <1>9, <2>1 DEF Release, Moves, Row, Where, Untouched, Recorded, Trees, Ended, Worked,
         Present, Leaving
    <3>8. QED
      BY <3>1, <3>2, <3>3, <3>4, <3>5, <3>6, <3>7 DEF Row
  <2>5. QED
    BY <1>9, <2>1, <2>2, <2>3, <2>4, OthersKeep DEF Release, Moves
<1>10. QED
  BY <1>2, <1>3, <1>4, <1>5, <1>6, <1>7, <1>8, <1>9

LEMMA RemoveRow ==
  ASSUME RepositoryTyped, NEW a \in Attempts,
         tree' = [tree EXCEPT ![a].path = FALSE, ![a].dirty = FALSE]
  PROVE  Plants(a, FALSE, tree[a].listed)
<1>1. tree[a] \in TreeRow
  BY DEF RepositoryTyped
<1>2. tree'[a] = [path |-> FALSE, listed |-> tree[a].listed, dirty |-> FALSE]
  BY <1>1 DEF RepositoryTyped, TreeRow
<1>3. tree'[a] \in TreeRow
  <2>1. tree[a].listed \in BOOLEAN
    BY <1>1 DEF TreeRow
  <2>2. QED
    <3>1. \A x \in BOOLEAN : [path |-> FALSE, listed |-> x, dirty |-> FALSE] \in TreeRow
      BY Zenon DEF TreeRow
    <3>2. QED
      BY <1>2, <2>1, <3>1
<1>4. tree' = [b \in Attempts |-> IF b = a THEN tree'[a] ELSE tree[b]]
  BY DEF RepositoryTyped
<1>5. QED
  BY <1>2, <1>3, <1>4 DEF RepositoryTyped, Plants

LEMMA ReadRow ==
  ASSUME Typed, NEW a \in Attempts, branch[a] \in Safe,
         go' = [go EXCEPT ![a].at = "delete", ![a].head = branch[a]]
  PROVE  Moves(a, "delete") /\ go'[a].head \in Safe
<1>1. go[a] \in GoRow /\ branch[a] \in Heads
  BY DEF Typed, GoTyped, RepositoryTyped
<1>2. go'[a] = [at |-> "delete", stage |-> go[a].stage, verdict |-> go[a].verdict,
               head |-> branch[a]]
  BY <1>1 DEF Typed, GoTyped, GoRow
<1>3. go'[a] \in GoRow
  BY <1>1, <1>2 DEF GoRow, Points
<1>4. go' = [b \in Attempts |-> IF b = a THEN go'[a] ELSE go[b]]
  BY DEF Typed, GoTyped
<1>5. QED
  BY <1>2, <1>3, <1>4 DEF Typed, GoTyped, Moves

(* The removal of a worktree, and of its branch.                           *)
LEMMA WorktreeGoes ==
  ASSUME RecoveryInv, NEW a \in Attempts,
         Remove(a) \/ Unlist(a) \/ ReadBranch(a) \/ DeleteBranch(a) \/ Cleaned(a) \/ Dispose(a)
  PROVE  RecoveryInv'
<1> USE DEF server, disk, repository, slots, registration, pass, bounds, Running, At
<1>1. Typed /\ Row(a) /\ Locked
  BY DEF RecoveryInv, Rows
<1> USE <1>1 DEF Typed
<1>2. CASE Remove(a)
  <2>1. Fails(a) => Failed(a)
    BY FailsRow
  <2>2. Goto(a, "unlist") => Moves(a, "unlist")
    BY MoveTo DEF Points
  <2>3. tree' = [tree EXCEPT ![a].path = FALSE, ![a].dirty = FALSE] =>
           Plants(a, FALSE, tree[a].listed)
    BY RemoveRow
  <2>4. \/ /\ Moves(a, "unlist") /\ Plants(a, FALSE, tree[a].listed)
           /\ UNCHANGED <<worker, fatal, retry>>
        \/ Failed(a) /\ UNCHANGED tree
    BY <1>2, <2>1, <2>2, <2>3 DEF Remove
  <2>5. Alone(a)
    BY <1>2, <2>1, <2>2, <2>3, <2>4 DEF Remove, Failed, Alone, Moves, Plants
  <2>6. Typed' /\ Locked'
    BY <1>2, <2>1, <2>2, <2>3, <2>4 DEF Remove, Failed, Moves, Plants, ServerTyped,
       ManifestTyped, RepositoryTyped, GoTyped, MemoryTyped, Locked
  <2>7. Row(a)'
    <3>1. Where(a)' /\ Untouched(a)'
      BY <1>2, <2>1, <2>2, <2>3, <2>4 DEF Remove, Failed, Moves, Plants, Row, Where, Untouched,
         Recorded, Trees, Known, Present, Leaving
    <3>2. Recorded(a)'
      BY <1>2, <2>1, <2>2, <2>3, <2>4 DEF Remove, Failed, Moves, Plants, Row, Where, Untouched,
         Recorded, Known, Present, Leaving
    <3>3. Trees(a)'
      BY <1>2, <2>1, <2>2, <2>3, <2>4 DEF Remove, Failed, Moves, Plants, Row, Where, Untouched,
         Recorded, Trees, Ended, Known, Present, Safe, Leaving
    <3>4. Groups(a)'
      BY <1>2, <2>1, <2>2, <2>3, <2>4 DEF Remove, Failed, Moves, Plants, Row, Where, Untouched,
         Recorded, Groups, Ended, Known, Gone, Leaving
    <3>5. Ended(a)'
      BY <1>2, <2>1, <2>2, <2>3, <2>4 DEF Remove, Failed, Moves, Plants, Row, Where, Untouched,
         Ended, Locked, Leaving
    <3>6. Advertised(a)'
      BY <1>2, <2>1, <2>2, <2>3, <2>4 DEF Remove, Failed, Moves, Plants, Row, Where, Untouched,
         Recorded, Trees, Ended, Advertised, Present, Leaving
    <3>7. Worked(a)'
      BY <1>2, <2>1, <2>2, <2>3, <2>4 DEF Remove, Failed, Moves, Plants, Row, Where, Untouched,
         Recorded, Trees, Ended, Worked, Present, Leaving
    <3>8. QED
      BY <3>1, <3>2, <3>3, <3>4, <3>5, <3>6, <3>7 DEF Row
  <2>8. QED
    BY <1>2, <2>1, <2>2, <2>3, <2>4, <2>5, <2>6, <2>7, OthersKeep DEF Remove, Failed, Moves
<1>3. CASE Unlist(a)
  <2>1. Moves(a, "branch") \/ Moves(a, "cleaned")
    BY <1>3, MoveTo DEF Unlist, Points
  <2>2. Plants(a, tree[a].path, FALSE)
    BY <1>3, <2>1, UnlistRow DEF Unlist
  <2>3. Alone(a)
    BY <1>3, <2>1, <2>2 DEF Unlist, Alone, Moves, Plants
  <2>4. Typed' /\ Locked'
    BY <1>3, <2>1, <2>2 DEF Unlist, Moves, Plants, ServerTyped, ManifestTyped, RepositoryTyped,
       GoTyped, MemoryTyped, Locked
  <2>5. Row(a)'
    <3>1. Where(a)' /\ Untouched(a)'
      BY <1>3, <2>1, <2>2 DEF Unlist, Moves, Plants, Row, Where, Untouched, Recorded, Trees,
         Known, Present, Leaving
    <3>2. Recorded(a)'
      BY <1>3, <2>1, <2>2 DEF Unlist, Moves, Plants, Row, Where, Untouched, Recorded, Known,
         Present, Leaving
    <3>3. Trees(a)'
      BY <1>3, <2>1, <2>2 DEF Unlist, Moves, Plants, Row, Where, Untouched, Recorded, Trees,
         Ended, Known, Present, Safe, Leaving
    <3>4. Groups(a)'
      BY <1>3, <2>1, <2>2 DEF Unlist, Moves, Plants, Row, Where, Untouched, Recorded, Groups,
         Ended, Known, Gone, Leaving
    <3>5. Ended(a)'
      BY <1>3, <2>1, <2>2 DEF Unlist, Moves, Plants, Row, Where, Untouched, Ended, Locked,
         Leaving
    <3>6. Advertised(a)'
      BY <1>3, <2>1, <2>2 DEF Unlist, Moves, Plants, Row, Where, Untouched, Recorded, Trees,
         Ended, Advertised, Present, Leaving
    <3>7. Worked(a)'
      BY <1>3, <2>1, <2>2 DEF Unlist, Moves, Plants, Row, Where, Untouched, Recorded, Trees,
         Ended, Worked, Present, Leaving
    <3>8. QED
      BY <3>1, <3>2, <3>3, <3>4, <3>5, <3>6, <3>7 DEF Row
  <2>6. QED
    BY <1>3, <2>1, <2>2, <2>3, <2>4, <2>5, OthersKeep DEF Unlist, Moves
<1>4. CASE ReadBranch(a)
  <2>1. \/ Moves(a, "delete") /\ go'[a].head \in Safe
        \/ Moves(a, "cleaned")
    BY <1>4, MoveTo, ReadRow DEF ReadBranch, Points
  <2>2. Alone(a)
    BY <1>4, <2>1 DEF ReadBranch, Alone, Moves
  <2>3. Typed' /\ Locked'
    BY <1>4, <2>1 DEF ReadBranch, Moves, ServerTyped, ManifestTyped, RepositoryTyped, GoTyped,
       MemoryTyped, Locked
  <2>4. Row(a)'
    <3>1. Where(a)' /\ Untouched(a)'
      BY <1>4, <2>1 DEF ReadBranch, Moves, Row, Where, Untouched, Recorded, Trees, Known,
         Present, Leaving
    <3>2. Recorded(a)'
      BY <1>4, <2>1 DEF ReadBranch, Moves, Row, Where, Untouched, Recorded, Known, Present,
         Leaving
    <3>3. Trees(a)'
      BY <1>4, <2>1 DEF ReadBranch, Moves, Row, Where, Untouched, Recorded, Trees, Ended, Known,
         Present, Safe, Leaving
    <3>4. Groups(a)'
      BY <1>4, <2>1 DEF ReadBranch, Moves, Row, Where, Untouched, Recorded, Groups, Ended, Known,
         Gone, Leaving
    <3>5. Ended(a)'
      BY <1>4, <2>1 DEF ReadBranch, Moves, Row, Where, Untouched, Ended, Locked, Leaving
    <3>6. Advertised(a)'
      BY <1>4, <2>1 DEF ReadBranch, Moves, Row, Where, Untouched, Recorded, Trees, Ended,
         Advertised, Present, Leaving
    <3>7. Worked(a)'
      BY <1>4, <2>1 DEF ReadBranch, Moves, Row, Where, Untouched, Recorded, Trees, Ended, Worked,
         Present, Leaving
    <3>8. QED
      BY <3>1, <3>2, <3>3, <3>4, <3>5, <3>6, <3>7 DEF Row
  <2>5. QED
    BY <1>4, <2>1, <2>2, <2>3, <2>4, OthersKeep DEF ReadBranch, Moves
<1>5. CASE DeleteBranch(a)
  <2>1. \/ Moves(a, "cleaned") /\ UNCHANGED <<worker, fatal, retry>>
        \/ Failed(a)
    BY <1>5, MoveTo, FailsRow DEF DeleteBranch, Points
  <2>2. branch' \in [Attempts -> Heads]
    BY <1>5, <2>1 DEF DeleteBranch, RepositoryTyped, Heads
  <2>3. Alone(a)
    BY <1>5, <2>1, <2>2 DEF DeleteBranch, Failed, Alone, Moves
  <2>4. Typed' /\ Locked'
    BY <1>5, <2>1, <2>2 DEF DeleteBranch, Failed, Moves, ServerTyped, ManifestTyped,
       RepositoryTyped, GoTyped, MemoryTyped, Locked
  <2>5. Row(a)'
    <3>1. Where(a)' /\ Untouched(a)'
      BY <1>5, <2>1, <2>2 DEF DeleteBranch, Failed, Moves, Row, Where, Untouched, Recorded,
         Trees, Known, Present, Leaving
    <3>2. Recorded(a)'
      BY <1>5, <2>1, <2>2 DEF DeleteBranch, Failed, Moves, Row, Where, Untouched, Recorded,
         Known, Present, Leaving
    <3>3. Trees(a)'
      BY <1>5, <2>1, <2>2 DEF DeleteBranch, Failed, Moves, Row, Where, Untouched, Recorded,
         Trees, Ended, Known, Present, Safe, Leaving
    <3>4. Groups(a)'
      BY <1>5, <2>1, <2>2 DEF DeleteBranch, Failed, Moves, Row, Where, Untouched, Recorded,
         Groups, Ended, Known, Gone, Leaving
    <3>5. Ended(a)'
      BY <1>5, <2>1, <2>2 DEF DeleteBranch, Failed, Moves, Row, Where, Untouched, Ended, Locked,
         Leaving
    <3>6. Advertised(a)'
      BY <1>5, <2>1, <2>2 DEF DeleteBranch, Failed, Moves, Row, Where, Untouched, Recorded,
         Trees, Ended, Advertised, Present, Leaving
    <3>7. Worked(a)'
      BY <1>5, <2>1, <2>2 DEF DeleteBranch, Failed, Moves, Row, Where, Untouched, Recorded,
         Trees, Ended, Worked, Present, Leaving
    <3>8. QED
      BY <3>1, <3>2, <3>3, <3>4, <3>5, <3>6, <3>7 DEF Row
  <2>6. QED
    BY <1>5, <2>1, <2>2, <2>3, <2>4, <2>5, OthersKeep DEF DeleteBranch, Failed, Moves
<1>6. CASE Cleaned(a)
  <2>1. Known(a)
    BY <1>6 DEF Cleaned, Row, Recorded, Turn, Verified
  <2>2. Fails(a) => Failed(a)
    BY FailsRow
  <2>3. Goto(a, "dispose") => Moves(a, "dispose")
    BY MoveTo DEF Points
  <2>4. Persist(a, "cleaned") => Writes(a, "cleaned", manifest[a].intent, manifest[a].active)
    BY <1>6, <2>1, <2>2, <2>3, PersistRow DEF Cleaned, Lifecycles
  <2>5. \/ /\ Writes(a, "cleaned", manifest[a].intent, manifest[a].active)
           /\ \/ worker = "cleanup" /\ worker' = "down" /\ Moves(a, "idle")
              \/ worker # "cleanup" /\ Moves(a, "dispose") /\ UNCHANGED worker
           /\ UNCHANGED <<fatal, retry>>
        \/ Failed(a) /\ UNCHANGED manifest
    BY <1>6, <2>1, <2>2, <2>3, <2>4, MoveIdle DEF Cleaned
  <2>6. Alone(a)
    BY <1>6, <2>1, <2>2, <2>3, <2>4, <2>5 DEF Cleaned, Failed, Alone, Moves, Writes
  <2>7. Typed' /\ Locked'
    BY <1>6, <2>1, <2>2, <2>3, <2>4, <2>5 DEF Cleaned, Failed, Moves, Writes, ServerTyped,
       ManifestTyped, RepositoryTyped, GoTyped, MemoryTyped, Locked
  <2>8. Row(a)'
    <3>1. Where(a)' /\ Untouched(a)'
      BY <1>6, <2>1, <2>2, <2>3, <2>4, <2>5 DEF Cleaned, Failed, Moves, Writes, Row, Where,
         Untouched, Recorded, Trees, Known, Present, Leaving
    <3>2. Recorded(a)'
      BY <1>6, <2>1, <2>2, <2>3, <2>4, <2>5 DEF Cleaned, Failed, Moves, Writes, Row, Where,
         Untouched, Recorded, Known, Present, Leaving
    <3>3. Trees(a)'
      BY <1>6, <2>1, <2>2, <2>3, <2>4, <2>5 DEF Cleaned, Failed, Moves, Writes, Row, Where,
         Untouched, Recorded, Trees, Ended, Known, Present, Safe, Leaving
    <3>4. Groups(a)'
      BY <1>6, <2>1, <2>2, <2>3, <2>4, <2>5 DEF Cleaned, Failed, Moves, Writes, Row, Where,
         Untouched, Recorded, Trees, Groups, Present, Ended, Known, Gone, Leaving
    <3>5. Ended(a)'
      BY <1>6, <2>1, <2>2, <2>3, <2>4, <2>5 DEF Cleaned, Failed, Moves, Writes, Row, Where,
         Untouched, Ended, Locked, Leaving
    <3>6. Advertised(a)'
      BY <1>6, <2>1, <2>2, <2>3, <2>4, <2>5 DEF Cleaned, Failed, Moves, Writes, Row, Where,
         Untouched, Recorded, Trees, Ended, Advertised, Present, Leaving
    <3>7. Worked(a)'
      BY <1>6, <2>1, <2>2, <2>3, <2>4, <2>5 DEF Cleaned, Failed, Moves, Writes, Row, Where,
         Untouched, Recorded, Trees, Ended, Worked, Present, Leaving
    <3>8. QED
      BY <3>1, <3>2, <3>3, <3>4, <3>5, <3>6, <3>7 DEF Row
  <2>9. QED
    BY <1>6, <2>1, <2>2, <2>3, <2>4, <2>5, <2>6, <2>7, <2>8, OthersKeep DEF Cleaned, Failed,
       Moves
<1>7. CASE Dispose(a)
  <2>1. Fails(a) => Failed(a)
    BY FailsRow
  <2>2. /\ Goto(a, "release") => Moves(a, "release")
        /\ Goto(a, "idle") => Moves(a, "idle")
    BY MoveTo DEF Points
  <2>3. \/ /\ disposals' = disposals \cup {a} /\ UNCHANGED <<worker, fatal, retry>>
           /\ \/ worker = "serving" /\ Moves(a, "release")
              \/ worker # "serving" /\ Moves(a, "idle")
        \/ Failed(a) /\ UNCHANGED disposals
    BY <1>7, <2>1, <2>2 DEF Dispose
  <2>4. Alone(a)
    BY <1>7, <2>1, <2>2, <2>3 DEF Dispose, Failed, Alone, Moves
  <2>5. Typed' /\ Locked'
    BY <1>7, <2>1, <2>2, <2>3 DEF Dispose, Failed, Moves, ServerTyped, ManifestTyped,
       RepositoryTyped, GoTyped, MemoryTyped, Locked
  <2>6. Row(a)'
    <3>1. Where(a)' /\ Untouched(a)'
      BY <1>7, <2>1, <2>2, <2>3 DEF Dispose, Failed, Moves, Row, Where, Untouched, Recorded,
         Trees, Known, Present, Leaving
    <3>2. Recorded(a)'
      BY <1>7, <2>1, <2>2, <2>3 DEF Dispose, Failed, Moves, Row, Where, Untouched, Recorded,
         Known, Present, Leaving
    <3>3. Trees(a)'
      BY <1>7, <2>1, <2>2, <2>3 DEF Dispose, Failed, Moves, Row, Where, Untouched, Recorded,
         Trees, Ended, Known, Present, Safe, Leaving
    <3>4. Groups(a)'
      BY <1>7, <2>1, <2>2, <2>3 DEF Dispose, Failed, Moves, Row, Where, Untouched, Recorded,
         Groups, Ended, Known, Gone, Leaving
    <3>5. Ended(a)'
      BY <1>7, <2>1, <2>2, <2>3 DEF Dispose, Failed, Moves, Row, Where, Untouched, Ended, Locked,
         Leaving
    <3>6. Advertised(a)'
      BY <1>7, <2>1, <2>2, <2>3 DEF Dispose, Failed, Moves, Row, Where, Untouched, Recorded,
         Trees, Ended, Advertised, Present, Leaving
    <3>7. Worked(a)'
      BY <1>7, <2>1, <2>2, <2>3 DEF Dispose, Failed, Moves, Row, Where, Untouched, Recorded,
         Trees, Ended, Worked, Present, Leaving
    <3>8. QED
      BY <3>1, <3>2, <3>3, <3>4, <3>5, <3>6, <3>7 DEF Row
  <2>7. QED
    BY <1>7, <2>1, <2>2, <2>3, <2>4, <2>5, <2>6, OthersKeep DEF Dispose, Failed, Moves
<1>8. QED
  BY <1>2, <1>3, <1>4, <1>5, <1>6, <1>7

LEMMA StoppedRow ==
  ASSUME Typed, NEW a \in Attempts, Known(a), manifest' = [manifest EXCEPT ![a].active = FALSE]
  PROVE  Writes(a, manifest[a].life, manifest[a].intent, FALSE)
<1>1. manifest[a] \in ManifestRow
  BY KnownHasLife DEF Typed
<1>2. manifest' = [manifest EXCEPT ![a] = [manifest[a] EXCEPT !.active = FALSE]]
  BY DEF Typed, ManifestTyped
<1>3. [manifest[a] EXCEPT !.active = FALSE] \in ManifestRow
  BY <1>1 DEF ManifestRow
<1>4. QED
  BY <1>1, <1>2, <1>3, WriteRow DEF Typed, ManifestRow

(* A restarted worker takes the manifests one by one.                      *)
LEMMA Reconciles ==
  ASSUME RecoveryInv, NEW a \in Attempts,
         StopProcesses(a) \/ Mismatch(a) \/ Unreadable(a) \/ CleanupResumes(a) \/
           WorktreeDisagrees(a) \/ WorktreeAbsent(a) \/ WorktreePresent(a)
  PROVE  RecoveryInv'
<1> USE DEF server, disk, repository, slots, registration, pass, bounds, Running, At
<1>1. Typed /\ Row(a) /\ Locked
  BY DEF RecoveryInv, Rows
<1> USE <1>1 DEF Typed
<1>2. CASE StopProcesses(a)
  <2>1. \/ /\ Writes(a, manifest[a].life, manifest[a].intent, FALSE) /\ Stops(a)
           /\ Moves(a, "verify") /\ UNCHANGED pass
        \/ /\ Writes(a, manifest[a].life, manifest[a].intent, FALSE)
           /\ group[a] # "known" /\ UNCHANGED group
           /\ Moves(a, "verify") /\ UNCHANGED pass
        \/ /\ ~manifest[a].active /\ UNCHANGED <<manifest, group, pass>> /\ Moves(a, "verify")
        \/ /\ Writes(a, "inconsistent", manifest[a].intent, manifest[a].active)
           /\ manifest[a].active /\ UNCHANGED <<group, retry>> /\ unsafe' = TRUE /\ Moves(a, "idle")
    BY <1>2, MoveTo, StoppedRow, StopsGroup, InconsistentRow DEF StopProcesses, Points, Row,
       Recorded, Turn, RepositoryTyped
  <2>2. Alone(a)
    BY <1>2, <2>1 DEF StopProcesses, Turn, Alone, Moves, Writes, Stops
  <2>3. Typed' /\ Locked'
    BY <1>2, <2>1 DEF StopProcesses, Turn, Moves, Writes, Stops, ServerTyped, ManifestTyped,
       RepositoryTyped, GoTyped, MemoryTyped, Locked
  <2>4. Row(a)'
    <3>1. Where(a)' /\ Untouched(a)'
      BY <1>2, <2>1 DEF StopProcesses, Turn, Moves, Writes, Stops, Row, Where, Untouched,
         Recorded, Trees, Known, Present, Leaving
    <3>2. Recorded(a)'
      BY <1>2, <2>1 DEF StopProcesses, Turn, Moves, Writes, Stops, Row, Where, Untouched,
         Recorded, Known, Present, Leaving
    <3>3. Trees(a)'
      BY <1>2, <2>1 DEF StopProcesses, Turn, Moves, Writes, Stops, Row, Where, Untouched,
         Recorded, Trees, Ended, Known, Present, Safe, Leaving
    <3>4. Groups(a)'
      BY <1>2, <2>1 DEF StopProcesses, Turn, Moves, Writes, Stops, Row, Where, Untouched,
         Recorded, Groups, Ended, Known, Gone, Leaving
    <3>5. Ended(a)'
      BY <1>2, <2>1 DEF StopProcesses, Turn, Moves, Writes, Stops, Row, Where, Untouched, Ended,
         Locked, Leaving
    <3>6. Advertised(a)'
      BY <1>2, <2>1 DEF StopProcesses, Turn, Moves, Writes, Stops, Row, Where, Untouched,
         Recorded, Trees, Ended, Advertised, Present, Leaving
    <3>7. Worked(a)'
      BY <1>2, <2>1 DEF StopProcesses, Turn, Moves, Writes, Stops, Row, Where, Untouched,
         Recorded, Trees, Ended, Worked, Present, Leaving
    <3>8. QED
      BY <3>1, <3>2, <3>3, <3>4, <3>5, <3>6, <3>7 DEF Row
  <2>5. QED
    BY <1>2, <2>1, <2>2, <2>3, <2>4, OthersKeep DEF StopProcesses, Turn, Moves
<1>3. CASE Mismatch(a)
  <2>1. /\ Writes(a, "inconsistent", manifest[a].intent, manifest[a].active)
        /\ Moves(a, "idle") /\ unsafe' = TRUE /\ UNCHANGED retry
    BY <1>3, MoveTo, InconsistentRow DEF Mismatch, Points, Row, Recorded, Turn, Unsafe
  <2>2. Alone(a)
    BY <1>3, <2>1 DEF Mismatch, Turn, Alone, Moves, Writes
  <2>3. Typed' /\ Locked'
    BY <1>3, <2>1 DEF Mismatch, Turn, Moves, Writes, ServerTyped, ManifestTyped, RepositoryTyped,
       GoTyped, MemoryTyped, Locked
  <2>4. Row(a)'
    <3>1. Where(a)' /\ Untouched(a)'
      BY <1>3, <2>1 DEF Mismatch, Turn, Moves, Writes, Row, Where, Untouched, Recorded, Trees,
         Known, Present, Leaving
    <3>2. Recorded(a)'
      BY <1>3, <2>1 DEF Mismatch, Turn, Moves, Writes, Row, Where, Untouched, Recorded, Known,
         Present, Leaving
    <3>3. Trees(a)'
      BY <1>3, <2>1 DEF Mismatch, Turn, Moves, Writes, Row, Where, Untouched, Recorded, Trees,
         Ended, Known, Present, Safe, Leaving
    <3>4. Groups(a)'
      BY <1>3, <2>1 DEF Mismatch, Turn, Moves, Writes, Row, Where, Untouched, Recorded, Groups,
         Ended, Known, Gone, Leaving
    <3>5. Ended(a)'
      BY <1>3, <2>1 DEF Mismatch, Turn, Moves, Writes, Row, Where, Untouched, Ended, Locked,
         Leaving
    <3>6. Advertised(a)'
      BY <1>3, <2>1 DEF Mismatch, Turn, Moves, Writes, Row, Where, Untouched, Recorded, Trees,
         Ended, Advertised, Present, Leaving
    <3>7. Worked(a)'
      BY <1>3, <2>1 DEF Mismatch, Turn, Moves, Writes, Row, Where, Untouched, Recorded, Trees,
         Ended, Worked, Present, Leaving
    <3>8. QED
      BY <3>1, <3>2, <3>3, <3>4, <3>5, <3>6, <3>7 DEF Row
  <2>5. QED
    BY <1>3, <2>1, <2>2, <2>3, <2>4, OthersKeep DEF Mismatch, Turn, Moves
<1>4. CASE Unreadable(a)
  <2>1. Moves(a, "idle") /\ retry' = TRUE /\ UNCHANGED <<manifest, unsafe>>
    BY <1>4, MoveTo DEF Unreadable, Points, Retry
  <2>2. Alone(a)
    BY <1>4, <2>1 DEF Unreadable, Turn, Alone, Moves
  <2>3. Typed' /\ Locked'
    BY <1>4, <2>1 DEF Unreadable, Turn, Moves, ServerTyped, ManifestTyped, RepositoryTyped,
       GoTyped, MemoryTyped, Locked
  <2>4. Row(a)'
    <3>1. Where(a)' /\ Untouched(a)'
      BY <1>4, <2>1 DEF Unreadable, Turn, Moves, Row, Where, Untouched, Recorded, Trees, Known,
         Present, Leaving
    <3>2. Recorded(a)'
      BY <1>4, <2>1 DEF Unreadable, Turn, Moves, Row, Where, Untouched, Recorded, Known, Present,
         Leaving
    <3>3. Trees(a)'
      BY <1>4, <2>1 DEF Unreadable, Turn, Moves, Row, Where, Untouched, Recorded, Trees, Ended,
         Known, Present, Safe, Leaving
    <3>4. Groups(a)'
      BY <1>4, <2>1 DEF Unreadable, Turn, Moves, Row, Where, Untouched, Recorded, Groups, Ended,
         Known, Gone, Leaving
    <3>5. Ended(a)'
      BY <1>4, <2>1 DEF Unreadable, Turn, Moves, Row, Where, Untouched, Ended, Locked, Leaving
    <3>6. Advertised(a)'
      BY <1>4, <2>1 DEF Unreadable, Turn, Moves, Row, Where, Untouched, Recorded, Trees, Ended,
         Advertised, Present, Leaving
    <3>7. Worked(a)'
      BY <1>4, <2>1 DEF Unreadable, Turn, Moves, Row, Where, Untouched, Recorded, Trees, Ended,
         Worked, Present, Leaving
    <3>8. QED
      BY <3>1, <3>2, <3>3, <3>4, <3>5, <3>6, <3>7 DEF Row
  <2>5. QED
    BY <1>4, <2>1, <2>2, <2>3, <2>4, OthersKeep DEF Unreadable, Turn, Moves
<1>5. CASE CleanupResumes(a)
  <2>1. \/ /\ Absent(a) /\ (Moves(a, "branch") \/ Moves(a, "cleaned"))
           /\ UNCHANGED <<manifest, retained>>
        \/ Moves(a, "remove") /\ UNCHANGED <<manifest, retained>>
        \/ /\ Writes(a, "retained", manifest[a].intent, manifest[a].active)
           /\ retained' = retained \cup {a} /\ Moves(a, "idle")
    BY <1>5, MoveTo, PersistRow DEF CleanupResumes, Points, Row, Recorded, Turn, Verified,
       RetainedOnStart, Lifecycles
  <2>2. At(a, "verify") /\ worker = "reconcile" /\ manifest[a].life = "cleanup_started"
    BY <1>5, <2>1 DEF CleanupResumes, Verified, Turn, Interrupted
  <2>3. Alone(a)
    BY <1>5, <2>1, <2>2 DEF CleanupResumes, Absent, Alone, Moves, Writes
  <2>4. Typed' /\ Locked'
    BY <1>5, <2>1, <2>2 DEF CleanupResumes, Absent, Moves, Writes, ServerTyped, ManifestTyped,
       RepositoryTyped, GoTyped, MemoryTyped, Locked
  <2>5. Row(a)'
    <3>1. Where(a)' /\ Untouched(a)'
      BY <1>5, <2>1, <2>2 DEF CleanupResumes, Absent, Moves, Writes, Row, Where, Untouched,
         Recorded, Trees, Known, Present, Leaving
    <3>2. Recorded(a)'
      BY <1>5, <2>1, <2>2 DEF CleanupResumes, Absent, Moves, Writes, Row, Where, Untouched,
         Recorded, Known, Present, Leaving
    <3>3. Trees(a)'
      BY <1>5, <2>1, <2>2 DEF CleanupResumes, Absent, Moves, Writes, Row, Where, Untouched,
         Recorded, Trees, Ended, Known, Present, Safe, Leaving
    <3>4. Groups(a)'
      BY <1>5, <2>1, <2>2 DEF CleanupResumes, Absent, Moves, Writes, Row, Where, Untouched,
         Recorded, Groups, Ended, Known, Gone, Leaving
    <3>5. Ended(a)'
      BY <1>5, <2>1, <2>2 DEF CleanupResumes, Absent, Moves, Writes, Row, Where, Untouched,
         Ended, Locked, Leaving
    <3>6. Advertised(a)'
      BY <1>5, <2>1, <2>2 DEF CleanupResumes, Absent, Moves, Writes, Row, Where, Untouched,
         Recorded, Trees, Ended, Advertised, Present, Leaving
    <3>7. Worked(a)'
      BY <1>5, <2>1, <2>2 DEF CleanupResumes, Absent, Moves, Writes, Row, Where, Untouched,
         Recorded, Trees, Ended, Worked, Present, Leaving
    <3>8. QED
      BY <3>1, <3>2, <3>3, <3>4, <3>5, <3>6, <3>7 DEF Row
  <2>6. QED
    BY <1>5, <2>1, <2>2, <2>3, <2>4, <2>5, OthersKeep DEF CleanupResumes, Absent, Moves
<1>6. CASE WorktreeDisagrees(a)
  <2>1. /\ Writes(a, "inconsistent", manifest[a].intent, manifest[a].active)
        /\ Moves(a, "idle") /\ unsafe' = TRUE /\ UNCHANGED retry
    BY <1>6, MoveTo, InconsistentRow DEF WorktreeDisagrees, Points, Row, Recorded, Turn,
       Verified, Unsafe
  <2>2. Alone(a)
    BY <1>6, <2>1 DEF WorktreeDisagrees, Turn, Verified, Alone, Moves, Writes
  <2>3. Typed' /\ Locked'
    BY <1>6, <2>1 DEF WorktreeDisagrees, Turn, Verified, Moves, Writes, ServerTyped,
       ManifestTyped, RepositoryTyped, GoTyped, MemoryTyped, Locked
  <2>4. Row(a)'
    <3>1. Where(a)' /\ Untouched(a)'
      BY <1>6, <2>1 DEF WorktreeDisagrees, Turn, Verified, Moves, Writes, Row, Where, Untouched,
         Recorded, Trees, Known, Present, Leaving
    <3>2. Recorded(a)'
      BY <1>6, <2>1 DEF WorktreeDisagrees, Turn, Verified, Moves, Writes, Row, Where, Untouched,
         Recorded, Known, Present, Leaving
    <3>3. Trees(a)'
      BY <1>6, <2>1 DEF WorktreeDisagrees, Turn, Verified, Moves, Writes, Row, Where, Untouched,
         Recorded, Trees, Ended, Known, Present, Safe, Leaving
    <3>4. Groups(a)'
      BY <1>6, <2>1 DEF WorktreeDisagrees, Turn, Verified, Moves, Writes, Row, Where, Untouched,
         Recorded, Groups, Ended, Known, Gone, Leaving
    <3>5. Ended(a)'
      BY <1>6, <2>1 DEF WorktreeDisagrees, Turn, Verified, Moves, Writes, Row, Where, Untouched,
         Ended, Locked, Leaving
    <3>6. Advertised(a)'
      BY <1>6, <2>1 DEF WorktreeDisagrees, Turn, Verified, Moves, Writes, Row, Where, Untouched,
         Recorded, Trees, Ended, Advertised, Present, Leaving
    <3>7. Worked(a)'
      BY <1>6, <2>1 DEF WorktreeDisagrees, Turn, Verified, Moves, Writes, Row, Where, Untouched,
         Recorded, Trees, Ended, Worked, Present, Leaving
    <3>8. QED
      BY <3>1, <3>2, <3>3, <3>4, <3>5, <3>6, <3>7 DEF Row
  <2>5. QED
    BY <1>6, <2>1, <2>2, <2>3, <2>4, OthersKeep DEF WorktreeDisagrees, Turn, Verified, Moves
<1>7. CASE WorktreeAbsent(a)
  <2>1. Known(a)
    BY <1>7 DEF WorktreeAbsent, Row, Recorded, Turn, Verified
  <2>2. worker = "reconcile" /\ At(a, "verify")
    BY <1>7, <2>1 DEF WorktreeAbsent, Verified, Turn
  <2>3. \E life \in Gone : Writes(a, life, manifest[a].intent, manifest[a].active)
    BY <1>7, <2>1, <2>2, PersistRow DEF WorktreeAbsent, Row, Recorded, Turn, Verified,
       Lifecycles, Gone
  <2>4. Moves(a, "dispose")
    BY <1>7, <2>1, <2>2, <2>3, MoveTo DEF WorktreeAbsent, Points
  <2>5. Alone(a)
    BY <1>7, <2>1, <2>2, <2>3, <2>4 DEF WorktreeAbsent, Turn, Verified, Absent, Gone, Alone,
       Moves, Writes
  <2>6. Typed' /\ Locked'
    BY <1>7, <2>1, <2>2, <2>3, <2>4 DEF WorktreeAbsent, Turn, Verified, Absent, Gone, Moves,
       Writes, ServerTyped, ManifestTyped, RepositoryTyped, GoTyped, MemoryTyped, Locked
  <2>7. Row(a)'
    <3>1. Where(a)' /\ Untouched(a)'
      BY <1>7, <2>1, <2>2, <2>3, <2>4 DEF WorktreeAbsent, Turn, Verified, Absent, Gone, Moves,
         Writes, Row, Where, Untouched, Recorded, Trees, Known, Present, Leaving
    <3>2. Recorded(a)'
      BY <1>7, <2>1, <2>2, <2>3, <2>4 DEF WorktreeAbsent, Turn, Verified, Absent, Gone, Moves,
         Writes, Row, Where, Untouched, Recorded, Known, Present, Leaving
    <3>3. Trees(a)'
      BY <1>7, <2>1, <2>2, <2>3, <2>4 DEF WorktreeAbsent, Turn, Verified, Absent, Gone, Moves,
         Writes, Row, Where, Untouched, Recorded, Trees, Ended, Known, Present, Safe, Leaving
    <3>4. Groups(a)'
      BY <1>7, <2>1, <2>2, <2>3, <2>4 DEF WorktreeAbsent, Turn, Verified, Absent, Gone, Moves,
         Writes, Row, Where, Untouched, Recorded, Groups, Ended, Known, Gone, Leaving
    <3>5. Ended(a)'
      BY <1>7, <2>1, <2>2, <2>3, <2>4 DEF WorktreeAbsent, Turn, Verified, Absent, Gone, Moves,
         Writes, Row, Where, Untouched, Ended, Locked, Leaving
    <3>6. Advertised(a)'
      BY <1>7, <2>1, <2>2, <2>3, <2>4 DEF WorktreeAbsent, Turn, Verified, Absent, Gone, Moves,
         Writes, Row, Where, Untouched, Recorded, Trees, Ended, Advertised, Present, Leaving
    <3>7. Worked(a)'
      BY <1>7, <2>1, <2>2, <2>3, <2>4 DEF WorktreeAbsent, Turn, Verified, Absent, Gone, Moves,
         Writes, Row, Where, Untouched, Recorded, Trees, Ended, Worked, Present, Leaving
    <3>8. QED
      BY <3>1, <3>2, <3>3, <3>4, <3>5, <3>6, <3>7 DEF Row
  <2>8. QED
    BY <1>7, <2>1, <2>2, <2>3, <2>4, <2>5, <2>6, <2>7, OthersKeep DEF WorktreeAbsent, Turn,
       Verified, Absent, Gone, Moves
<1>8. CASE WorktreePresent(a)
  <2>1. /\ Writes(a, "retained", manifest[a].intent, manifest[a].active)
        /\ retained' = retained \cup {a} /\ Moves(a, "idle")
    BY <1>8, MoveTo, PersistRow DEF WorktreePresent, Points, Row, Recorded, Turn, Verified,
       RetainedOnStart, Lifecycles
  <2>2. Alone(a)
    BY <1>8, <2>1 DEF WorktreePresent, Turn, Verified, Alone, Moves, Writes
  <2>3. Typed' /\ Locked'
    BY <1>8, <2>1 DEF WorktreePresent, Turn, Verified, Moves, Writes, ServerTyped, ManifestTyped,
       RepositoryTyped, GoTyped, MemoryTyped, Locked
  <2>4. Row(a)'
    <3>1. Where(a)' /\ Untouched(a)'
      BY <1>8, <2>1 DEF WorktreePresent, Turn, Verified, Moves, Writes, Row, Where, Untouched,
         Recorded, Trees, Known, Present, Leaving
    <3>2. Recorded(a)'
      BY <1>8, <2>1 DEF WorktreePresent, Turn, Verified, Moves, Writes, Row, Where, Untouched,
         Recorded, Known, Present, Leaving
    <3>3. Trees(a)'
      BY <1>8, <2>1 DEF WorktreePresent, Turn, Verified, Moves, Writes, Row, Where, Untouched,
         Recorded, Trees, Ended, Known, Present, Safe, Leaving
    <3>4. Groups(a)'
      BY <1>8, <2>1 DEF WorktreePresent, Turn, Verified, Moves, Writes, Row, Where, Untouched,
         Recorded, Groups, Ended, Known, Gone, Leaving
    <3>5. Ended(a)'
      BY <1>8, <2>1 DEF WorktreePresent, Turn, Verified, Moves, Writes, Row, Where, Untouched,
         Ended, Locked, Leaving
    <3>6. Advertised(a)'
      BY <1>8, <2>1 DEF WorktreePresent, Turn, Verified, Moves, Writes, Row, Where, Untouched,
         Recorded, Trees, Ended, Advertised, Present, Leaving
    <3>7. Worked(a)'
      BY <1>8, <2>1 DEF WorktreePresent, Turn, Verified, Moves, Writes, Row, Where, Untouched,
         Recorded, Trees, Ended, Worked, Present, Leaving
    <3>8. QED
      BY <3>1, <3>2, <3>3, <3>4, <3>5, <3>6, <3>7 DEF Row
  <2>5. QED
    BY <1>8, <2>1, <2>2, <2>3, <2>4, OthersKeep DEF WorktreePresent, Turn, Verified, Moves
<1>9. QED
  BY <1>2, <1>3, <1>4, <1>5, <1>6, <1>7, <1>8

(* A manifest is forgotten; the sweeper, the group and somebody at work.   *)
LEMMA OutsideSteps ==
  ASSUME RecoveryInv, NEW a \in Attempts,
         RemoveManifest(a) \/ Sweep(a) \/ GroupExits(a) \/ EditByHand(a) \/ CommitByHand(a) \/
           OperatorCleans(a)
  PROVE  RecoveryInv'
<1> USE DEF server, disk, repository, slots, registration, pass, bounds, Running, At
<1>1. Typed /\ Row(a) /\ Locked
  BY DEF RecoveryInv, Rows
<1> USE <1>1 DEF Typed
<1>2. CASE RemoveManifest(a)
  <2>1. \/ /\ manifest' \in [Attempts -> ManifestRow \cup {NoManifest}] /\ manifest'[a] = NoManifest
           /\ \A b \in Attempts \ {a} : manifest'[b] = manifest[b]
           /\ manifest[a].life \in Gone /\ UNCHANGED <<fatal, registering>>
        \/ UNCHANGED manifest /\ fatal' = TRUE /\ registering' = "idle"
    BY <1>2 DEF RemoveManifest, ManifestTyped
  <2>2. manifest[a].life \in Gone => manifest[a].life # "none" /\ NoManifest.life = "none"
    BY <1>2, <2>1 DEF RemoveManifest, Gone, NoManifest
  <2>3. At(a, "idle") /\ ~Present(a)
    BY <1>2, <2>1, <2>2 DEF RemoveManifest, Removing, Row, Trees, Ended, Locked, Present
  <2>4. Alone(a)
    BY <1>2, <2>1, <2>2, <2>3 DEF RemoveManifest, Removing, Alone
  <2>5. Typed' /\ Locked'
    BY <1>2, <2>1, <2>2, <2>3 DEF RemoveManifest, Removing, ServerTyped, ManifestTyped,
       RepositoryTyped, GoTyped, MemoryTyped, Locked
  <2>6. Row(a)'
    <3>1. Where(a)' /\ Untouched(a)'
      BY <1>2, <2>1, <2>2, <2>3 DEF RemoveManifest, Removing, Row, Where, Untouched, Recorded,
         Trees, Known, Present, Leaving
    <3>2. Recorded(a)'
      BY <1>2, <2>1, <2>2, <2>3 DEF RemoveManifest, Removing, Row, Where, Untouched, Recorded,
         Known, Present, Leaving
    <3>3. Trees(a)'
      BY <1>2, <2>1, <2>2, <2>3 DEF RemoveManifest, Removing, Row, Where, Untouched, Recorded,
         Trees, Ended, Known, Present, Safe, Leaving
    <3>4. Groups(a)'
      BY <1>2, <2>1, <2>2, <2>3 DEF RemoveManifest, Removing, Row, Where, Untouched, Recorded,
         Groups, Ended, Known, Gone, Leaving
    <3>5. Ended(a)'
      BY <1>2, <2>1, <2>2, <2>3 DEF RemoveManifest, Removing, Row, Where, Untouched, Ended,
         Locked, Leaving
    <3>6. Advertised(a)'
      BY <1>2, <2>1, <2>2, <2>3 DEF RemoveManifest, Removing, Row, Where, Untouched, Recorded,
         Trees, Ended, Advertised, Present, Leaving
    <3>7. Worked(a)'
      BY <1>2, <2>1, <2>2, <2>3 DEF RemoveManifest, Removing, Row, Where, Untouched, Recorded,
         Trees, Ended, Worked, Present, Leaving
    <3>8. QED
      BY <3>1, <3>2, <3>3, <3>4, <3>5, <3>6, <3>7 DEF Row
  <2>7. QED
    BY <1>2, <2>1, <2>2, <2>3, <2>4, <2>5, <2>6, OthersKeep DEF RemoveManifest, Removing
<1>3. CASE Sweep(a)
  <2>1. Serves(a, "lost")
    BY <1>3 DEF Sweep, ServerTyped, ServedRow, States, Serves
  <2>2. Alone(a)
    BY <1>3, <2>1 DEF Sweep, Live, Alone, Serves
  <2>3. Typed' /\ Locked'
    BY <1>3, <2>1 DEF Sweep, Live, Serves, ServerTyped, ManifestTyped, RepositoryTyped, GoTyped,
       MemoryTyped, Locked
  <2>4. Row(a)'
    <3>1. Where(a)' /\ Untouched(a)'
      BY <1>3, <2>1 DEF Sweep, Live, Serves, Row, Where, Untouched, Recorded, Trees, Known,
         Present, Leaving
    <3>2. Recorded(a)'
      BY <1>3, <2>1 DEF Sweep, Live, Serves, Row, Where, Untouched, Recorded, Known, Present,
         Leaving
    <3>3. Trees(a)'
      BY <1>3, <2>1 DEF Sweep, Live, Serves, Row, Where, Untouched, Recorded, Trees, Ended,
         Known, Present, Safe, Leaving
    <3>4. Groups(a)'
      BY <1>3, <2>1 DEF Sweep, Live, Serves, Row, Where, Untouched, Recorded, Groups, Ended,
         Known, Gone, Leaving
    <3>5. Ended(a)'
      BY <1>3, <2>1 DEF Sweep, Live, Serves, Row, Where, Untouched, Ended, Locked, Leaving
    <3>6. Advertised(a)'
      BY <1>3, <2>1 DEF Sweep, Live, Serves, Row, Where, Untouched, Recorded, Trees, Ended,
         Advertised, Present, Leaving
    <3>7. Worked(a)'
      BY <1>3, <2>1 DEF Sweep, Live, Serves, Row, Where, Untouched, Recorded, Trees, Ended,
         Worked, Present, Leaving
    <3>8. QED
      BY <3>1, <3>2, <3>3, <3>4, <3>5, <3>6, <3>7 DEF Row
  <2>5. QED
    BY <1>3, <2>1, <2>2, <2>3, <2>4, OthersKeep DEF Sweep, Live
<1>4. CASE GroupExits(a)
  <2>1. Stops(a)
    BY <1>4, StopsGroup DEF GroupExits
  <2>2. Alone(a)
    BY <1>4, <2>1 DEF GroupExits, Alone, Stops
  <2>3. Typed' /\ Locked'
    BY <1>4, <2>1 DEF GroupExits, Stops, ServerTyped, ManifestTyped, RepositoryTyped, GoTyped,
       MemoryTyped, Locked
  <2>4. Row(a)'
    <3>1. Where(a)' /\ Untouched(a)'
      BY <1>4, <2>1 DEF GroupExits, Stops, Row, Where, Untouched, Recorded, Trees, Known,
         Present, Leaving
    <3>2. Recorded(a)'
      BY <1>4, <2>1 DEF GroupExits, Stops, Row, Where, Untouched, Recorded, Known, Present,
         Leaving
    <3>3. Trees(a)'
      BY <1>4, <2>1 DEF GroupExits, Stops, Row, Where, Untouched, Recorded, Trees, Ended, Known,
         Present, Safe, Leaving
    <3>4. Groups(a)'
      BY <1>4, <2>1 DEF GroupExits, Stops, Row, Where, Untouched, Recorded, Groups, Ended, Known,
         Gone, Leaving
    <3>5. Ended(a)'
      BY <1>4, <2>1 DEF GroupExits, Stops, Row, Where, Untouched, Ended, Locked, Leaving
    <3>6. Advertised(a)'
      BY <1>4, <2>1 DEF GroupExits, Stops, Row, Where, Untouched, Recorded, Trees, Ended,
         Advertised, Present, Leaving
    <3>7. Worked(a)'
      BY <1>4, <2>1 DEF GroupExits, Stops, Row, Where, Untouched, Recorded, Trees, Ended, Worked,
         Present, Leaving
    <3>8. QED
      BY <3>1, <3>2, <3>3, <3>4, <3>5, <3>6, <3>7 DEF Row
  <2>5. QED
    BY <1>4, <2>1, <2>2, <2>3, <2>4, OthersKeep DEF GroupExits
<1>5. CASE EditByHand(a)
  <2>1. Plants(a, tree[a].path, tree[a].listed)
    BY <1>5, EditRow DEF EditByHand
  <2>2. Alone(a)
    BY <1>5, <2>1 DEF EditByHand, Alone, Plants
  <2>3. Typed' /\ Locked'
    BY <1>5, <2>1 DEF EditByHand, Plants, ServerTyped, ManifestTyped, RepositoryTyped, GoTyped,
       MemoryTyped, Locked
  <2>4. Row(a)'
    <3>1. Where(a)' /\ Untouched(a)'
      BY <1>5, <2>1 DEF EditByHand, Plants, Row, Where, Untouched, Recorded, Trees, Known,
         Present, Leaving
    <3>2. Recorded(a)'
      BY <1>5, <2>1 DEF EditByHand, Plants, Row, Where, Untouched, Recorded, Known, Present,
         Leaving
    <3>3. Trees(a)'
      BY <1>5, <2>1 DEF EditByHand, Plants, Row, Where, Untouched, Recorded, Trees, Ended, Known,
         Present, Safe, Leaving
    <3>4. Groups(a)'
      BY <1>5, <2>1 DEF EditByHand, Plants, Row, Where, Untouched, Recorded, Groups, Ended,
         Known, Gone, Leaving
    <3>5. Ended(a)'
      BY <1>5, <2>1 DEF EditByHand, Plants, Row, Where, Untouched, Ended, Locked, Leaving
    <3>6. Advertised(a)'
      BY <1>5, <2>1 DEF EditByHand, Plants, Row, Where, Untouched, Recorded, Trees, Ended,
         Advertised, Present, Leaving
    <3>7. Worked(a)'
      BY <1>5, <2>1 DEF EditByHand, Plants, Row, Where, Untouched, Recorded, Trees, Ended,
         Worked, Present, Leaving
    <3>8. QED
      BY <3>1, <3>2, <3>3, <3>4, <3>5, <3>6, <3>7 DEF Row
  <2>5. QED
    BY <1>5, <2>1, <2>2, <2>3, <2>4, OthersKeep DEF EditByHand
<1>6. CASE CommitByHand(a)
  <2>1. branch' \in [Attempts -> Heads]
    BY <1>6 DEF CommitByHand, RepositoryTyped, Heads
  <2>2. Alone(a)
    BY <1>6, <2>1 DEF CommitByHand, Alone
  <2>3. Typed' /\ Locked'
    BY <1>6, <2>1 DEF CommitByHand, ServerTyped, ManifestTyped, RepositoryTyped, GoTyped,
       MemoryTyped, Locked
  <2>4. Row(a)'
    <3>1. Where(a)' /\ Untouched(a)'
      BY <1>6, <2>1 DEF CommitByHand, Row, Where, Untouched, Recorded, Trees, Known, Present,
         Leaving
    <3>2. Recorded(a)'
      BY <1>6, <2>1 DEF CommitByHand, Row, Where, Untouched, Recorded, Known, Present, Leaving
    <3>3. Trees(a)'
      BY <1>6, <2>1 DEF CommitByHand, Row, Where, Untouched, Recorded, Trees, Ended, Known,
         Present, Safe, Leaving
    <3>4. Groups(a)'
      BY <1>6, <2>1 DEF CommitByHand, Row, Where, Untouched, Recorded, Groups, Ended, Known,
         Gone, Leaving
    <3>5. Ended(a)'
      BY <1>6, <2>1 DEF CommitByHand, Row, Where, Untouched, Ended, Locked, Leaving
    <3>6. Advertised(a)'
      BY <1>6, <2>1 DEF CommitByHand, Row, Where, Untouched, Recorded, Trees, Ended, Advertised,
         Present, Leaving
    <3>7. Worked(a)'
      BY <1>6, <2>1 DEF CommitByHand, Row, Where, Untouched, Recorded, Trees, Ended, Worked,
         Present, Leaving
    <3>8. QED
      BY <3>1, <3>2, <3>3, <3>4, <3>5, <3>6, <3>7 DEF Row
  <2>5. QED
    BY <1>6, <2>1, <2>2, <2>3, <2>4, OthersKeep DEF CommitByHand
<1>7. CASE OperatorCleans(a)
  <2>1. /\ Known(a) /\ ~manifest[a].active
        /\ \/ /\ Writes(a, "cleaned", manifest[a].intent, manifest[a].active)
              /\ UNCHANGED <<worker, go>>
           \/ /\ Writes(a, "cleanup_started", "operator", manifest[a].active)
              /\ worker' = "cleanup" /\ Moves(a, "remove")
    BY <1>7, MoveTo, PersistRow, CleanupRow DEF OperatorCleans, Points, Known, Lifecycles
  <2>2. Alone(a)
    BY <1>7, <2>1 DEF OperatorCleans, Alone, Moves, Writes
  <2>3. Typed' /\ Locked'
    BY <1>7, <2>1 DEF OperatorCleans, Moves, Writes, ServerTyped, ManifestTyped, RepositoryTyped,
       GoTyped, MemoryTyped, Locked
  <2>4. Row(a)'
    <3>1. Where(a)' /\ Untouched(a)'
      BY <1>7, <2>1 DEF OperatorCleans, Moves, Writes, Row, Where, Untouched, Recorded, Trees,
         Known, Present, Leaving
    <3>2. Recorded(a)'
      BY <1>7, <2>1 DEF OperatorCleans, Moves, Writes, Row, Where, Untouched, Recorded, Known,
         Present, Leaving
    <3>3. Trees(a)'
      BY <1>7, <2>1 DEF OperatorCleans, Moves, Writes, Row, Where, Untouched, Recorded, Trees,
         Ended, Known, Present, Safe, Leaving
    <3>4. Groups(a)'
      BY <1>7, <2>1 DEF OperatorCleans, Moves, Writes, Row, Where, Untouched, Recorded, Groups,
         Ended, Known, Gone, Leaving
    <3>5. Ended(a)'
      BY <1>7, <2>1 DEF OperatorCleans, Moves, Writes, Row, Where, Untouched, Ended, Locked,
         Leaving
    <3>6. Advertised(a)'
      BY <1>7, <2>1 DEF OperatorCleans, Moves, Writes, Row, Where, Untouched, Recorded, Trees,
         Ended, Advertised, Present, Leaving
    <3>7. Worked(a)'
      BY <1>7, <2>1 DEF OperatorCleans, Moves, Writes, Row, Where, Untouched, Recorded, Trees,
         Ended, Worked, Present, Leaving
    <3>8. QED
      BY <3>1, <3>2, <3>3, <3>4, <3>5, <3>6, <3>7 DEF Row
  <2>5. QED
    BY <1>7, <2>1, <2>2, <2>3, <2>4, OthersKeep DEF OperatorCleans, Moves
<1>8. QED
  BY <1>2, <1>3, <1>4, <1>5, <1>6, <1>7

(* A crash, a start, and the end of a pass over the manifests: the point   *)
(* of every attempt is set at once.                                        *)
LEMMA TodoRows ==
  ASSUME ManifestTyped
  PROVE  /\ Todo \in [Attempts -> GoRow]
         /\ \A a \in Attempts : Todo[a].at \in {"idle", "todo"} /\ (Todo[a].at = "todo" => Known(a))
BY DEF Todo, ToReconcile, Idle, GoRow, Points, Heads, Known

LEMMA WorkerTurns ==
  ASSUME RecoveryInv, Start \/ Reconciled \/ Crash
  PROVE  RecoveryInv'
<1> USE DEF server, disk, repository, slots, registration, pass, bounds, At
<1>1. Typed /\ Rows /\ Locked
  BY DEF RecoveryInv
<1>2. Todo \in [Attempts -> GoRow] /\ \A a \in Attempts : Todo[a].at \in {"idle", "todo"}
  BY <1>1, TodoRows DEF Typed
<1>3. \A a \in Attempts : Todo[a].at = "todo" => Known(a)
  BY <1>1, TodoRows DEF Typed
<1>4. [a \in Attempts |-> Idle] \in [Attempts -> GoRow]
  BY DEF Idle, GoRow, Points, Heads
<1>5. UNCHANGED <<served, roll, manifest, disposals, tree, branch, group>>
  BY DEF Start, Reconciled, Crash
<1>6. Typed'
  <2>1. ServerTyped' /\ ManifestTyped' /\ RepositoryTyped'
    BY <1>1, <1>5 DEF Typed, ServerTyped, ManifestTyped, RepositoryTyped
  <2>2. GoTyped'
    BY <1>1, <1>2, <1>4 DEF Typed, GoTyped, Start, Reconciled, Crash
  <2>3. MemoryTyped'
    BY <1>1 DEF Typed, MemoryTyped, Start, Reconciled, Crash
  <2>4. QED
    BY <2>1, <2>2, <2>3 DEF Typed
<1>7. Locked' /\ OneCleanup'
  BY <1>1 DEF Locked, OneCleanup, Start, Reconciled, Crash
<1>8. ASSUME NEW a \in Attempts PROVE Row(a)'
  <2>1. Row(a)
    BY <1>1 DEF Rows
  <2>2. UNCHANGED <<served[a], manifest[a], tree[a], group[a]>>
    BY <1>5
  <2>3. CASE Start
    <3>1. worker' = "reconcile" /\ go'[a].at \in {"idle", "todo"} /\ (go'[a].at = "todo" => Known(a))
      BY <1>2, <1>3, <2>3 DEF Start
    <3>2. worker = "down" /\ disposed' = disposals
      BY <2>3 DEF Start
    <3>3. go'[a].at = "idle" => ~Known(a) \/ a \in disposals
      BY <2>3 DEF Start, Todo, ToReconcile, Known, Idle
    <3>4. UNCHANGED <<disposals, retained, handoffs>>
      BY <2>3 DEF Start
    <3>5. Where(a)' /\ Untouched(a)' /\ Recorded(a)'
      BY <2>1, <2>2, <3>1, <3>2, <3>4 DEF Row, Where, Untouched, Recorded, Known, Present
    <3>6. Trees(a)' /\ Groups(a)' /\ Ended(a)'
      BY <2>1, <2>2, <3>1, <3>2, <3>4 DEF Row, Trees, Groups, Ended, Known, Present
    <3>7. Advertised(a)' /\ Worked(a)'
      BY <2>1, <2>2, <3>1, <3>3 DEF Row, Recorded, Trees, Advertised, Worked, Present
    <3>8. QED
      BY <3>5, <3>6, <3>7 DEF Row
  <2>4. CASE Crash
    <3>1. worker' = "down" /\ go'[a].at = "idle" /\ retained' = {} /\ disposed' = {} /\ handoffs' = {}
      BY <2>4 DEF Crash, Idle
    <3>2. UNCHANGED disposals
      BY <2>4 DEF Crash
    <3>3. Where(a)' /\ Untouched(a)' /\ Recorded(a)'
      BY <2>1, <2>2, <3>1, <3>2 DEF Row, Where, Untouched, Recorded, Known, Present
    <3>4. Trees(a)' /\ Groups(a)' /\ Ended(a)' /\ Advertised(a)' /\ Worked(a)'
      BY <2>1, <2>2, <3>1, <3>2 DEF Row, Trees, Groups, Ended, Advertised, Worked, Known, Present
    <3>5. QED
      BY <3>3, <3>4 DEF Row
  <2>5. CASE Reconciled
    <3>1. worker = "reconcile" /\ At(a, "idle") /\ UNCHANGED <<disposals, retained, handoffs>>
      BY <2>5 DEF Reconciled
    <3>2. CASE retry
      <4>1. /\ worker' = "reconcile" /\ disposed' = disposed \cup disposals
            /\ go'[a].at \in {"idle", "todo"} /\ (go'[a].at = "todo" => Known(a))
        BY <1>2, <1>3, <2>5, <3>2 DEF Reconciled
      <4>2. go'[a].at = "idle" => ~Known(a) \/ a \in disposals
        BY <2>5, <3>2 DEF Reconciled, Todo, ToReconcile, Known, Idle
      <4>3. Where(a)' /\ Untouched(a)' /\ Recorded(a)'
        BY <2>1, <2>2, <3>1, <4>1 DEF Row, Where, Untouched, Recorded, Known, Present
      <4>4. Trees(a)' /\ Groups(a)' /\ Ended(a)'
        BY <2>1, <2>2, <3>1, <4>1 DEF Row, Trees, Groups, Ended, Known, Present
      <4>5. Advertised(a)' /\ Worked(a)'
        BY <2>1, <2>2, <4>1, <4>2 DEF Row, Recorded, Trees, Advertised, Worked, Present
      <4>6. QED
        BY <4>3, <4>4, <4>5 DEF Row
    <3>3. CASE ~retry
      <4>1. worker' = "serving" /\ fatal' = unsafe /\ UNCHANGED <<go, disposed>>
        BY <2>5, <3>3 DEF Reconciled
      <4>2. Where(a)' /\ Untouched(a)' /\ Recorded(a)'
        BY <2>1, <2>2, <3>1, <4>1 DEF Row, Where, Untouched, Recorded, Known, Present
      <4>3. Trees(a)' /\ Groups(a)' /\ Ended(a)'
        BY <2>1, <2>2, <3>1, <4>1 DEF Row, Trees, Groups, Ended, Known, Present, Leaving
      <4>4. Advertised(a)' /\ Worked(a)'
        BY <2>1, <2>2, <3>1, <3>3, <4>1 DEF Row, Advertised, Worked, Present
      <4>5. QED
        BY <4>2, <4>3, <4>4 DEF Row
    <3>4. QED
      BY <3>2, <3>3
  <2>6. QED
    BY <2>3, <2>4, <2>5
<1>9. QED
  BY <1>6, <1>7, <1>8 DEF RecoveryInv, Rows

(* The control plane takes a registration: what it acknowledges is retained *)
(* or disposed, and no hand-over is under way.                              *)
LEMMA SendRow ==
  ASSUME RecoveryInv, Send
  PROVE  /\ served' \in [Attempts -> ServedRow]
         /\ \A a \in Attempts : /\ served'[a].state = served[a].state
                                /\ served'[a].ack => served[a].ack \/ a \in retained \cup disposed
         /\ \/ UNCHANGED <<served, roll>>
            \/ roll' = [retained |-> retained, healthy |-> ~fatal]
<1>1. served \in [Attempts -> ServedRow]
  BY DEF RecoveryInv, Typed, ServerTyped
<1>2. CASE Registers
  <2>1. ASSUME NEW a \in Attempts
        PROVE  /\ served'[a] = [served[a] EXCEPT !.ack = served[a].ack \/ Acknowledges(a)]
               /\ (served[a].ack \/ Acknowledges(a)) \in BOOLEAN
    <3>1. served[a] \in ServedRow
      BY <1>1
    <3>2. (served[a].ack \/ Acknowledges(a)) \in BOOLEAN
      BY DEF Acknowledges
    <3>3. QED
      BY <1>2, <3>2 DEF Registers
  <2>2. ASSUME NEW a \in Attempts
        PROVE  /\ served'[a] \in ServedRow /\ served'[a].state = served[a].state
               /\ served'[a].ack = (served[a].ack \/ Acknowledges(a))
    <3>1. served[a] \in ServedRow
      BY <1>1
    <3>2. PICK x \in BOOLEAN : x = (served[a].ack \/ Acknowledges(a))
      BY <2>1
    <3>3. served'[a] = [served[a] EXCEPT !.ack = x]
      BY <2>1, <3>2
    <3>4. QED
      BY <3>1, <3>2, <3>3 DEF ServedRow
  <2>3. ASSUME NEW a \in Attempts
        PROVE  served'[a].ack => served[a].ack \/ a \in retained \cup disposed
    BY <2>2 DEF Acknowledges
  <2>4. served' \in [Attempts -> ServedRow]
    <3>1. served' = [a \in Attempts |-> served'[a]]
      BY <1>2 DEF Registers
    <3>2. QED
      BY <2>2, <3>1
  <2>5. roll' = [retained |-> retained, healthy |-> ~fatal]
    BY <1>2 DEF Registers
  <2>6. QED
    BY <2>2, <2>3, <2>4, <2>5
<1>3. CASE UNCHANGED <<served, roll>>
  BY <1>1, <1>3
<1>4. QED
  BY <1>2, <1>3 DEF Send, server

LEMMA RegistrationKeeps ==
  ASSUME RecoveryInv, Register \/ Send \/ ClearDisposals \/ Registered
  PROVE  RecoveryInv'
<1> USE DEF server, disk, repository, slots, registration, pass, bounds, At
<1>1. Typed /\ Rows /\ Locked /\ OneCleanup
  BY DEF RecoveryInv
<1>2. /\ UNCHANGED <<manifest, tree, branch, group, worker, go, retained, handoffs, fatal, pass>>
      /\ disposals' \subseteq disposals /\ disposed' \subseteq disposed
  BY DEF Register, Send, ClearDisposals, Registered
<1>3. worker = "serving"
  BY DEF Register, Send, ClearDisposals, Registered
<1>4. /\ served' \in [Attempts -> ServedRow]
      /\ \A a \in Attempts :
           /\ served'[a].state = served[a].state
           /\ served'[a].ack => served[a].ack \/ (handoffs = {} /\ a \in retained \cup disposed)
  <2>1. CASE Send
    BY <1>1, <2>1, SendRow DEF Send, Locked
  <2>2. CASE Register \/ ClearDisposals \/ Registered
    BY <1>1, <2>2 DEF Register, ClearDisposals, Registered, Typed, ServerTyped
  <2>3. QED
    BY <2>1, <2>2
<1>5. roll' \in [retained : SUBSET Attempts, healthy : BOOLEAN]
  <2>1. CASE Send
    <3>1. roll' = roll \/ roll' = [retained |-> retained, healthy |-> ~fatal]
      BY <2>1, SendRow
    <3>2. roll \in [retained : SUBSET Attempts, healthy : BOOLEAN]
      BY <1>1 DEF Typed, ServerTyped
    <3>3. retained \in SUBSET Attempts
      BY <1>1 DEF Typed, MemoryTyped
    <3>4. PICK h \in BOOLEAN : h = ~fatal
      BY <1>1 DEF Typed, MemoryTyped
    <3>5. roll' = roll \/ roll' = [retained |-> retained, healthy |-> h]
      BY <3>1, <3>4
    <3>6. QED
      BY <3>2, <3>3, <3>5
  <2>2. CASE Register \/ ClearDisposals \/ Registered
    BY <1>1, <2>2 DEF Register, ClearDisposals, Registered, Typed, ServerTyped
  <2>3. QED
    BY <2>1, <2>2
<1>6. Typed'
  <2>1. ServerTyped' /\ ManifestTyped' /\ RepositoryTyped' /\ GoTyped'
    BY <1>1, <1>2, <1>4, <1>5 DEF Typed, ServerTyped, ManifestTyped, RepositoryTyped, GoTyped
  <2>2. MemoryTyped'
    BY <1>1, <1>2 DEF Typed, MemoryTyped, Register, Send, ClearDisposals, Registered
  <2>3. QED
    BY <2>1, <2>2 DEF Typed
<1>7. Locked' /\ OneCleanup'
  BY <1>1, <1>2, <1>3 DEF Locked, OneCleanup, Register, Send, ClearDisposals, Registered
<1>8. ASSUME NEW a \in Attempts PROVE Row(a)'
  <2>1. Row(a)
    BY <1>1 DEF Rows
  <2>2. served'[a].state = served[a].state
    BY <1>4
  <2>3. served'[a].ack => served[a].ack \/ (handoffs = {} /\ a \in retained \cup disposed)
    BY <1>4
  <2>4. Where(a)' /\ Untouched(a)' /\ Recorded(a)'
    BY <2>1, <2>2, <2>3, <1>2 DEF Row, Where, Untouched, Recorded, Known, Present
  <2>5. Trees(a)' /\ Groups(a)'
    BY <2>1, <2>2, <1>2 DEF Row, Trees, Groups, Known, Present, Leaving
  <2>6. Ended(a)'
    BY <2>1, <2>3, <1>2 DEF Row, Ended
  <2>7. Advertised(a)' /\ Worked(a)'
    BY <2>1, <1>2 DEF Row, Advertised, Worked, Present
  <2>8. QED
    BY <2>4, <2>5, <2>6, <2>7 DEF Row
<1>9. QED
  BY <1>6, <1>7, <1>8 DEF RecoveryInv, Rows

LEMMA RecoveryStep == RecoveryInv /\ [Next]_vars => RecoveryInv'
<1> SUFFICES ASSUME RecoveryInv, [Next]_vars PROVE RecoveryInv'
  OBVIOUS
<1>1. ASSUME NEW a \in Attempts, Claim(a) \/ Attempt(a)
      PROVE  RecoveryInv'
  BY <1>1, AttemptBegins, SupervisorStarts, StagesRun, AttemptEnds, Zenon DEF Attempt
<1>2. ASSUME NEW a \in Attempts, Removal(a)
      PROVE  RecoveryInv'
  BY <1>2, WorktreeGoes, Zenon DEF Removal
<1>3. ASSUME NEW a \in Attempts, Reconcile(a)
      PROVE  RecoveryInv'
  BY <1>3, Reconciles, Zenon DEF Reconcile
<1>4. ASSUME NEW a \in Attempts,
             \/ Sweep(a) \/ GroupExits(a) \/ RemoveManifest(a)
             \/ OperatorCleans(a) \/ EditByHand(a) \/ CommitByHand(a)
      PROVE  RecoveryInv'
  BY <1>4, OutsideSteps, Zenon
<1>5. CASE Start \/ Reconciled \/ Crash
  BY <1>5, WorkerTurns
<1>6. CASE Registration
  BY <1>4, <1>6, RegistrationKeeps, Zenon DEF Registration
<1>7. CASE UNCHANGED vars
  BY <1>7 DEF vars, server, disk, repository, slots, registration, pass, bounds, RecoveryInv, Typed,
     ServerTyped, ManifestTyped, RepositoryTyped, GoTyped, MemoryTyped, Rows, Row, Where, Untouched,
     Recorded, Trees, Groups, Ended, Advertised, Worked, Known, Present, At,
     Locked, OneCleanup
<1>8. \A a \in Edited : a \in Attempts
  BY EditedAssumption
<1>9. QED
  BY <1>1, <1>2, <1>3, <1>4, <1>5, <1>6, <1>7, <1>8, Zenon DEF Next

LEMMA RecoveryInvariant == Spec => []RecoveryInv
BY RecoveryInit, RecoveryStep, PTL DEF Spec

(* No worktree is taken away, and no manifest is closed or forgotten,      *)
(* while a process group lives that the manifest names; one it never named *)
(* loses its worktree to the operator's command only.  This is so wherever *)
(* the worker or that command crashed before (reconcile.go:82-106,         *)
(* attempt_lifecycle.go:255-292, 765).                                     *)
THEOREM StoppedBeforeCleanupCorrect == Spec => []StoppedBeforeCleanup
<1>1. RecoveryInv => StoppedBeforeCleanup
  <2> SUFFICES ASSUME RecoveryInv, NEW a \in Attempts
               PROVE  /\ group[a] = "known" => ~Closing(a)
                      /\ group[a] = "new" /\ Known(a) /\ Closing(a) => manifest[a].intent = "operator"
    BY DEF StoppedBeforeCleanup, Known
  <2>1. Groups(a) /\ ManifestTyped
    BY DEF RecoveryInv, Rows, Row, Typed
  <2>2. QED
    BY <2>1, KnownHasLife DEF Groups, Closing
<1>2. QED
  BY <1>1, RecoveryInvariant, PTL

(* A branch is deleted, and a worktree removed, by one action each.        *)
LEMMA BranchSteps ==
  ASSUME Next
  PROVE  \/ UNCHANGED branch
         \/ \E b \in Attempts : \E h : h # "none" /\ branch' = [branch EXCEPT ![b] = h]
         \/ \E b \in Attempts : /\ At(b, "delete") /\ branch[b] = go[b].head
                                /\ branch' = [branch EXCEPT ![b] = "none"]
<1> USE DEF repository
<1>1. ASSUME NEW a \in Attempts, Claim(a) \/ Reconcile(a) \/ Sweep(a) \/ GroupExits(a)
      PROVE  UNCHANGED branch
  BY <1>1 DEF Claim, Sweep, GroupExits, Reconcile, StopProcesses, Mismatch, Unreadable,
     CleanupResumes, WorktreeDisagrees, WorktreeAbsent, WorktreePresent
<1>2. ASSUME NEW a \in Attempts, GitAdds(a)
      PROVE  UNCHANGED branch \/ branch' = [branch EXCEPT ![a] = "base"]
  BY <1>2 DEF GitAdds
<1>3. ASSUME NEW a \in Attempts, StageEnds(a)
      PROVE  \E h : h # "none" /\ branch' = [branch EXCEPT ![a] = h]
  BY <1>3 DEF StageEnds
<1>4. ASSUME NEW a \in Attempts, Attempt(a), ~GitAdds(a), ~StageEnds(a)
      PROVE  UNCHANGED branch
  BY <1>4 DEF Attempt, Refuse, CreateManifest, AddFails, WorktreeCreated, StageFails,
     StartSupervisor, ReadyFails, SupervisorReady, ReadyUnwritten, StartStage, StartRefused,
     StageRuns, StopUnverified, Finish, Complete,
     CleanBegins, Retain, Forgo, NotCreated, Report, Release
<1>5. ASSUME NEW a \in Attempts, Removal(a)
      PROVE  \/ UNCHANGED branch
             \/ /\ At(a, "delete") /\ branch[a] = go[a].head
                /\ branch' = [branch EXCEPT ![a] = "none"]
  BY <1>5 DEF Removal, Remove, Unlist, ReadBranch, DeleteBranch, Cleaned, Dispose
<1>6. ASSUME NEW a \in Edited, OperatorCleans(a) \/ EditByHand(a) \/ CommitByHand(a)
      PROVE  UNCHANGED branch \/ branch' = [branch EXCEPT ![a] = "local"]
  BY <1>6 DEF OperatorCleans, EditByHand, CommitByHand
<1>7. CASE Start \/ Reconciled \/ Registration \/ Crash
  BY <1>7 DEF Start, Reconciled, Registration, Register, Send, ClearDisposals, Registered,
     RemoveManifest, Crash
<1>8. Edited \subseteq Attempts /\ "base" # "none" /\ "local" # "none"
  BY EditedAssumption
<1>9. QED
  BY <1>1, <1>2, <1>3, <1>4, <1>5, <1>6, <1>7, <1>8, Zenon DEF Next

LEMMA TreeSteps ==
  ASSUME Next, RepositoryTyped
  PROVE  \/ \A a \in Attempts : tree[a].path => tree'[a].path
         \/ \E b \in Attempts : /\ At(b, "remove") /\ Removable(b)
                                /\ \A a \in Attempts \ {b} : tree'[a] = tree[a]
<1> USE DEF repository
<1> DEFINE Kept == \A a \in Attempts : tree[a].path => tree'[a].path
<1>1. UNCHANGED tree => Kept
  OBVIOUS
<1>2. ASSUME NEW a \in Attempts, GitAdds(a) \/ StageEnds(a) \/ Unlist(a) \/ EditByHand(a)
      PROVE  Kept
  BY <1>2 DEF GitAdds, StageEnds, Unlist, EditByHand, RepositoryTyped, TreeRow
<1>3. ASSUME NEW a \in Attempts, Remove(a)
      PROVE  \/ Kept
             \/ At(a, "remove") /\ Removable(a) /\ \A b \in Attempts \ {a} : tree'[b] = tree[b]
  <2>1. CASE UNCHANGED tree
    BY <2>1, <1>1
  <2>2. CASE ~UNCHANGED tree
    BY <1>3, <2>2 DEF Remove, RepositoryTyped
  <2>3. QED
    BY <2>1, <2>2
<1>4. ASSUME NEW a \in Attempts, Claim(a) \/ Reconcile(a) \/ Sweep(a) \/ GroupExits(a)
      PROVE  UNCHANGED tree
  BY <1>4 DEF Claim, Sweep, GroupExits, Reconcile, StopProcesses, Mismatch, Unreadable,
     CleanupResumes, WorktreeDisagrees, WorktreeAbsent, WorktreePresent
<1>5. ASSUME NEW a \in Attempts, Attempt(a), ~GitAdds(a), ~StageEnds(a)
      PROVE  UNCHANGED tree
  BY <1>5 DEF Attempt, Refuse, CreateManifest, AddFails, WorktreeCreated, StageFails,
     StartSupervisor, ReadyFails, SupervisorReady, ReadyUnwritten, StartStage, StartRefused,
     StageRuns, StopUnverified, Finish, Complete,
     CleanBegins, Retain, Forgo, NotCreated, Report, Release
<1>6. ASSUME NEW a \in Attempts, Removal(a), ~Remove(a), ~Unlist(a)
      PROVE  UNCHANGED tree
  BY <1>6 DEF Removal, ReadBranch, DeleteBranch, Cleaned, Dispose
<1>7. ASSUME NEW a \in Edited, OperatorCleans(a) \/ CommitByHand(a)
      PROVE  UNCHANGED tree
  BY <1>7 DEF OperatorCleans, CommitByHand
<1>8. ASSUME Start \/ Reconciled \/ Registration \/ Crash
      PROVE  Kept
  <2>1. UNCHANGED tree
    BY <1>8 DEF Start, Reconciled, Registration, Register, Send, ClearDisposals, Registered,
       RemoveManifest, Crash
  <2>2. QED
    BY <2>1, <1>1
<1>9. \A a \in Edited : a \in Attempts
  BY EditedAssumption
<1> HIDE DEF Kept
<1>10. Kept \/ \E b \in Attempts : /\ At(b, "remove") /\ Removable(b)
                                   /\ \A a \in Attempts \ {b} : tree'[a] = tree[a]
  <2>1. ASSUME NEW b \in Attempts,
               Claim(b) \/ Attempt(b) \/ Removal(b) \/ Reconcile(b) \/ Sweep(b) \/ GroupExits(b)
        PROVE  \/ Kept
               \/ At(b, "remove") /\ Removable(b) /\ \A a \in Attempts \ {b} : tree'[a] = tree[a]
    BY <2>1, <1>1, <1>2, <1>3, <1>4, <1>5, <1>6, Zenon
  <2>2. ASSUME NEW b \in Edited, OperatorCleans(b) \/ EditByHand(b) \/ CommitByHand(b)
        PROVE  Kept
    BY <2>2, <1>1, <1>2, <1>7, <1>9, Zenon
  <2>3. QED
    BY <2>1, <2>2, <1>8, Zenon DEF Next
<1>11. QED
  BY <1>10 DEF Kept

(* Work that is nowhere else is kept: a commit that is not published keeps *)
(* its branch, because the head that is deleted is the head that was found *)
(* to be safe (reconcile.go:451-503), and uncommitted changes go only by a *)
(* cleanup the operator confirmed (cleanup.go:106-129), whoever works on   *)
(* the files in between.                                                   *)
THEOREM WorkKeptCorrect == Spec => WorkKept
<1>1. ASSUME RecoveryInv, Next, NEW a \in Attempts
      PROVE  /\ branch[a] = "local" => branch'[a] # "none"
             /\ tree[a].dirty /\ ~tree'[a].path => manifest[a].intent = "operator"
  <2>1. Typed /\ Row(a)
    BY <1>1 DEF RecoveryInv, Rows
  <2>2. ASSUME branch[a] = "local"
        PROVE  branch'[a] # "none"
    <3>1. CASE UNCHANGED branch
      BY <2>2, <3>1
    <3>2. ASSUME NEW b \in Attempts, NEW h, h # "none", branch' = [branch EXCEPT ![b] = h]
          PROVE  branch'[a] # "none"
      BY <2>1, <2>2, <3>2 DEF Typed, RepositoryTyped
    <3>3. ASSUME NEW b \in Attempts, At(b, "delete"), branch[b] = go[b].head,
                 branch' = [branch EXCEPT ![b] = "none"]
          PROVE  branch'[a] # "none"
      <4>1. go[b].head \in Safe
        BY <1>1, <3>3 DEF RecoveryInv, Rows, Row, Trees
      <4>2. a # b
        BY <2>2, <3>3, <4>1 DEF Safe
      <4>3. QED
        BY <2>1, <2>2, <3>3, <4>2 DEF Typed, RepositoryTyped
    <3>4. QED
      BY <1>1, <3>1, <3>2, <3>3, BranchSteps
  <2>3. ASSUME tree[a].dirty, ~tree'[a].path
        PROVE  manifest[a].intent = "operator"
    <3>1. CASE At(a, "remove") /\ Removable(a)
      <4>1. manifest[a].life = "cleanup_started" /\ manifest[a].intent # "none"
        BY <2>1, <3>1 DEF Row, Recorded, At
      <4>2. manifest[a] \in ManifestRow
        BY <2>1, <4>1, KnownHasLife DEF Typed, Known, NoManifest
      <4>3. manifest[a].intent # "automatic"
        BY <2>3, <3>1 DEF Removable
      <4>4. QED
        BY <4>1, <4>2, <4>3 DEF ManifestRow
    <3>2. ASSUME ~(At(a, "remove") /\ Removable(a)) PROVE FALSE
      <4>1. ~tree[a].path
        BY <1>1, <2>1, <2>3, <3>2, TreeSteps DEF Typed
      <4>2. QED
        BY <2>1, <2>3, <4>1 DEF Row, Worked
    <3>3. QED
      BY <3>1, <3>2
  <2>4. QED
    BY <2>2, <2>3
<1>2. RecoveryInv /\ [Next]_vars =>
        [\A a \in Attempts :
           /\ branch[a] = "local" => branch'[a] # "none"
           /\ tree[a].dirty /\ ~tree'[a].path => manifest[a].intent = "operator"]_vars
  BY <1>1
<1>3. QED
  BY <1>2, RecoveryInvariant, PTL DEF Spec, WorkKept

-----------------------------------------------------------------------------
(* The slots.  A worktree that exists, or may be about to, belongs to an   *)
(* attempt the control plane counts: as retained, as active or as not yet  *)
(* acknowledged.                                                           *)

Early == {"claimed", "adding", "listed"}
Claimed == {a \in Attempts : served[a].state # "none"}
Holding == {a \in Attempts : Present(a) \/ go[a].at \in Early}

CountInv ==
    /\ IsFiniteSet(Claimed)
    /\ Cardinality(Holding) <= Slots
    /\ roll.retained \subseteq Claimed
    /\ roll.healthy => \A a \in Holding : served[a].ack => a \in roll.retained

LEMMA HoldingIsClaimed ==
  ASSUME RecoveryInv
  PROVE  Holding \subseteq Claimed
BY DEF RecoveryInv, Rows, Row, Untouched, At, Holding, Claimed, Early

(* Nothing but a claim makes another attempt hold a slot.                  *)
LEMMA PresentSteps ==
  ASSUME Next, RepositoryTyped, NEW b \in Attempts, Present(b)'
  PROVE  Present(b) \/ go[b].at \in Early
<1> USE DEF repository
<1>1. ASSUME NEW a \in Attempts, GitAdds(a)
      PROVE  Present(b) \/ go[b].at \in Early
  BY <1>1 DEF GitAdds, RepositoryTyped, TreeRow, Present, Running, At, Early
<1>2. ASSUME NEW a \in Attempts, StageEnds(a) \/ Unlist(a) \/ EditByHand(a) \/ Remove(a)
      PROVE  Present(b)
  BY <1>2 DEF StageEnds, Unlist, EditByHand, Remove, RepositoryTyped, TreeRow, Present
<1>3. UNCHANGED tree => Present(b)
  BY DEF Present
<1>4. ASSUME NEW a \in Attempts, Claim(a) \/ Reconcile(a) \/ Sweep(a) \/ GroupExits(a)
      PROVE  UNCHANGED tree
  BY <1>4 DEF Claim, Sweep, GroupExits, Reconcile, StopProcesses, Mismatch, Unreadable,
     CleanupResumes, WorktreeDisagrees, WorktreeAbsent, WorktreePresent
<1>5. ASSUME NEW a \in Attempts, Attempt(a), ~GitAdds(a), ~StageEnds(a)
      PROVE  UNCHANGED tree
  BY <1>5 DEF Attempt, Refuse, CreateManifest, AddFails, WorktreeCreated, StageFails,
     StartSupervisor, ReadyFails, SupervisorReady, ReadyUnwritten, StartStage, StartRefused,
     StageRuns, StopUnverified, Finish, Complete,
     CleanBegins, Retain, Forgo, NotCreated, Report, Release
<1>6. ASSUME NEW a \in Attempts, Removal(a), ~Remove(a), ~Unlist(a)
      PROVE  UNCHANGED tree
  BY <1>6 DEF Removal, ReadBranch, DeleteBranch, Cleaned, Dispose
<1>7. ASSUME NEW a \in Edited, OperatorCleans(a) \/ CommitByHand(a)
      PROVE  UNCHANGED tree
  BY <1>7 DEF OperatorCleans, CommitByHand
<1>8. ASSUME Start \/ Reconciled \/ Registration \/ Crash
      PROVE  UNCHANGED tree
  BY <1>8 DEF Start, Reconciled, Registration, Register, Send, ClearDisposals, Registered,
     RemoveManifest, Crash
<1>9. \A a \in Edited : a \in Attempts
  BY EditedAssumption
<1>10. ASSUME NEW a \in Attempts,
              Claim(a) \/ Attempt(a) \/ Removal(a) \/ Reconcile(a) \/ Sweep(a) \/ GroupExits(a)
       PROVE  Present(b) \/ go[b].at \in Early
  BY <1>10, <1>1, <1>2, <1>3, <1>4, <1>5, <1>6, Zenon
<1>11. ASSUME NEW a \in Edited, OperatorCleans(a) \/ EditByHand(a) \/ CommitByHand(a)
       PROVE  Present(b)
  BY <1>11, <1>2, <1>3, <1>7, <1>9, Zenon
<1>12. QED
  BY <1>3, <1>8, <1>10, <1>11, Zenon DEF Next

LEMMA EarlySteps ==
  ASSUME Next, Typed, NEW b \in Attempts, go'[b].at \in Early, go[b].at \notin Early
  PROVE  Claim(b)
<1>1. GoTyped
  BY DEF Typed
<1>2. ASSUME NEW a \in Attempts, NEW p, p \notin Early,
             Goto(a, p) \/ go' = [go EXCEPT ![a] = Idle] \/ \E v : End(a, v, p)
      PROVE  FALSE
  BY <1>1, <1>2 DEF GoTyped, GoRow, Goto, End, Idle, Early
<1>3. UNCHANGED go => FALSE
  OBVIOUS
<1>4. ASSUME NEW a \in Attempts, Claim(a)
      PROVE  a = b
  BY <1>1, <1>4 DEF Claim, Goto, GoTyped
<1>5. ASSUME NEW a \in Attempts, NEW p, Goto(a, p), go[a].at \in Early
      PROVE  FALSE
  BY <1>1, <1>5 DEF Goto, GoTyped
<1>6. ASSUME NEW a \in Attempts, Attempt(a)
      PROVE  FALSE
  <2> DEFINE Late == {"forgo", "report", "finish", "start", "started", "run", "stage", "retain",
                      "spawned", "complete", "clean", "remove", "not_created", "release", "added"}
  <2>1. ASSUME NEW c \in Attempts, NEW p \in Late, Goto(c, p) \/ \E v : End(c, v, p)
        PROVE  FALSE
    BY <2>1, <1>2 DEF Early
  <2> HIDE DEF Late
  <2>2. "forgo" \in Late /\ "report" \in Late /\ "finish" \in Late /\ "start" \in Late
    BY DEF Late
  <2>3. "started" \in Late /\ "run" \in Late /\ "stage" \in Late /\ "retain" \in Late /\ "added" \in Late
    BY DEF Late
  <2>4. "complete" \in Late /\ "clean" \in Late /\ "remove" \in Late /\ "not_created" \in Late
        /\ "release" \in Late /\ "spawned" \in Late
    BY DEF Late
  <2>5. CASE CreateManifest(a) \/ GitAdds(a)
    <3>1. Goto(a, "adding") \/ Goto(a, "listed") => go[a].at \in Early
      BY <2>1, <2>2, <2>3, <2>5, Zenon DEF CreateManifest, GitAdds, Running, At, Early
    <3>2. QED
      BY <2>1, <2>2, <2>3, <2>5, <3>1, <1>5, Zenon DEF CreateManifest, GitAdds
  <2>6. CASE Refuse(a) \/ AddFails(a) \/ WorktreeCreated(a) \/ StageFails(a)
    BY <2>1, <2>2, <2>3, <2>6, Zenon DEF Refuse, AddFails, WorktreeCreated, StageFails, Advance
  <2>7. CASE ReadyFails(a) \/ ReadyUnwritten(a) \/ StartSupervisor(a)
    <3>1. \E p \in Late : Goto(a, p) \/ \E v : End(a, v, p)
      BY <2>2, <2>4, <2>7, Zenon DEF ReadyFails, ReadyUnwritten, StartSupervisor
    <3>2. QED
      BY <2>1, <3>1
  <2>14. ~SupervisorReady(a)
    BY <1>1 DEF SupervisorReady, GoTyped, GoRow, Early
  <2>8. CASE StartStage(a) \/ StartRefused(a) \/ StageRuns(a)
    BY <2>1, <2>2, <2>3, <2>8, Zenon DEF StartStage, StartRefused, StageRuns, Advance
  <2>9. CASE StageEnds(a) \/ StopUnverified(a) \/ Finish(a) \/ Complete(a)
    <3>1. \E p \in Late : Goto(a, p) \/ \E v : End(a, v, p)
      BY <2>2, <2>3, <2>4, <2>9, Zenon DEF StageEnds, StopUnverified, Finish, Complete
    <3>2. QED
      BY <2>1, <3>1
  <2>10. CASE CleanBegins(a) \/ Retain(a) \/ Forgo(a)
    BY <2>1, <2>2, <2>3, <2>4, <2>10, Zenon DEF CleanBegins, Retain, Forgo
  <2>11. CASE NotCreated(a) \/ Report(a)
    BY <2>1, <2>2, <2>4, <2>11, Zenon DEF NotCreated, Report
  <2>12. CASE Release(a)
    BY <1>2, <2>12 DEF Release, Early
  <2>13. QED
    BY <1>6, <2>5, <2>6, <2>7, <2>8, <2>9, <2>10, <2>7, <2>11, <2>12,
       <2>14, Zenon DEF Attempt
<1>7. ASSUME NEW a \in Attempts, Fails(a)
      PROVE  FALSE
  BY <1>2, <1>7 DEF Fails, Early
<1>8. ASSUME NEW a \in Attempts, Removal(a)
      PROVE  FALSE
  <2>1. \A p \in {"unlist", "branch", "cleaned", "dispose", "release", "idle"} : ~Goto(a, p)
    BY <1>2 DEF Early
  <2>2. CASE ReadBranch(a)
    BY <1>1, <2>1, <2>2 DEF ReadBranch, GoTyped, GoRow, Early
  <2>3. CASE Cleaned(a)
    BY <1>2, <1>7, <2>1, <2>3 DEF Cleaned, Early
  <2>4. CASE Remove(a) \/ DeleteBranch(a)
    BY <1>7, <2>1, <2>4 DEF Remove, DeleteBranch
  <2>5. CASE Unlist(a) \/ Dispose(a)
    BY <1>7, <2>1, <2>5 DEF Unlist, Dispose
  <2>6. QED
    BY <1>8, <2>2, <2>3, <2>4, <2>5 DEF Removal
<1>9. ASSUME NEW a \in Attempts, Reconcile(a)
      PROVE  FALSE
  <2>1. \A p \in {"idle", "verify", "branch", "cleaned", "remove", "dispose"} : ~Goto(a, p)
    BY <1>2 DEF Early
  <2>2. CASE StopProcesses(a) \/ Mismatch(a) \/ Unreadable(a)
    BY <2>1, <2>2 DEF StopProcesses, Mismatch, Unreadable, Unsafe, Retry
  <2>3. CASE CleanupResumes(a) \/ WorktreeDisagrees(a)
    BY <2>1, <2>3 DEF CleanupResumes, WorktreeDisagrees, Unsafe, RetainedOnStart
  <2>4. CASE WorktreeAbsent(a) \/ WorktreePresent(a)
    BY <2>1, <2>4 DEF WorktreeAbsent, WorktreePresent, RetainedOnStart
  <2>5. QED
    BY <1>9, <2>2, <2>3, <2>4 DEF Reconcile
<1>10. ASSUME NEW a \in Attempts, Sweep(a) \/ GroupExits(a) \/ EditByHand(a) \/ CommitByHand(a)
       PROVE  FALSE
  BY <1>10 DEF Sweep, GroupExits, EditByHand, CommitByHand
<1>11. ASSUME NEW a \in Attempts, OperatorCleans(a)
       PROVE  FALSE
  BY <1>2, <1>11 DEF OperatorCleans, Early
<1>12. ASSUME Start \/ Reconciled \/ Crash
       PROVE  FALSE
  BY <1>1, <1>12, TodoRows DEF Typed, Start, Reconciled, Crash, Idle, Early
<1>13. ASSUME Registration
       PROVE  FALSE
  BY <1>13 DEF Registration, Register, Send, ClearDisposals, Registered, RemoveManifest
<1>14. \A a \in Edited : a \in Attempts
  BY EditedAssumption
<1>15. QED
  BY <1>4, <1>6, <1>8, <1>9, <1>10, <1>11, <1>12, <1>13, <1>14, Zenon DEF Next

(* Only a registration acknowledges, and only a claim begins an attempt.   *)
LEMMA ServerSteps ==
  ASSUME Next, Typed, ~Send, NEW b \in Attempts, ~Claim(b)
  PROVE  /\ roll' = roll
         /\ served'[b].state = "none" <=> served[b].state = "none"
         /\ served'[b].ack <=> served[b].ack
<1> DEFINE Goal == /\ roll' = roll
                   /\ served'[b].state = "none" <=> served[b].state = "none"
                   /\ served'[b].ack <=> served[b].ack
<1> USE DEF server
<1>1. UNCHANGED <<served, roll>> => Goal
  OBVIOUS
<1>2. ASSUME NEW a \in Attempts, NEW state, state # "none", Serves(a, state), Live(a), roll' = roll
      PROVE  Goal
  BY <1>2 DEF Serves, Live
<1>3. ASSUME NEW a \in Attempts, Claim(a)
      PROVE  Goal
  BY <1>3 DEF Claim, Typed, ServerTyped
<1>4. ASSUME NEW a \in Attempts, StartStage(a)
      PROVE  Goal
  BY <1>2, <1>4, StartStageRow DEF StartStage
<1>5. ASSUME NEW a \in Attempts, Complete(a) \/ Report(a)
      PROVE  Goal
  <2>1. CASE Completed(a)
    BY <1>2, <1>5, <2>1, CompletedRow DEF Complete, Report, Typed
  <2>2. CASE UNCHANGED served
    BY <1>1, <1>5, <2>2 DEF Complete, Report
  <2>3. QED
    BY <1>5, <2>1, <2>2 DEF Complete, Report
<1>6. ASSUME NEW a \in Attempts, Sweep(a)
      PROVE  Goal
  BY <1>6 DEF Sweep, Live, Typed, ServerTyped, ServedRow
<1> HIDE DEF Goal
<1>7. ASSUME NEW a \in Attempts, Attempt(a), ~StartStage(a), ~Complete(a), ~Report(a)
      PROVE  UNCHANGED <<served, roll>>
  BY <1>7 DEF Attempt, Refuse, CreateManifest, GitAdds, AddFails, WorktreeCreated, StageFails,
     StartSupervisor, ReadyFails, SupervisorReady, ReadyUnwritten, StartRefused, StageRuns, StageEnds, StopUnverified, Finish, CleanBegins,
     Retain, Forgo, NotCreated, Release
<1>8. ASSUME NEW a \in Attempts, Removal(a) \/ Reconcile(a) \/ GroupExits(a)
      PROVE  UNCHANGED <<served, roll>>
  BY <1>8 DEF Removal, Remove, Unlist, ReadBranch, DeleteBranch, Cleaned, Dispose, Reconcile,
     StopProcesses, Mismatch, Unreadable, CleanupResumes, WorktreeDisagrees, WorktreeAbsent,
     WorktreePresent, GroupExits
<1>9. ASSUME NEW a \in Edited, OperatorCleans(a) \/ EditByHand(a) \/ CommitByHand(a)
      PROVE  UNCHANGED <<served, roll>>
  BY <1>9 DEF OperatorCleans, EditByHand, CommitByHand
<1>10. ASSUME Start \/ Reconciled \/ Crash \/ Registration
       PROVE  UNCHANGED <<served, roll>>
  BY <1>10 DEF Start, Reconciled, Crash, Registration, Register, ClearDisposals, Registered,
     RemoveManifest
<1>11. Goal
  BY <1>1, <1>3, <1>4, <1>5, <1>6, <1>7, <1>8, <1>9, <1>10, Zenon DEF Next
<1>12. QED
  BY <1>11 DEF Goal

LEMMA CountInit == Init => CountInv
<1> SUFFICES ASSUME Init PROVE CountInv
  OBVIOUS
<1>1. Claimed = {} /\ Holding = {}
  BY DEF Init, Claimed, Holding, Present, Early, Idle
<1>2. Cardinality(Holding) = 0 /\ IsFiniteSet(Claimed)
  BY <1>1, FS_EmptySet
<1>3. QED
  BY <1>1, <1>2, SlotsAssumption DEF Init, CountInv

(* The check of ClaimAttempt: whoever holds a slot is in one of the three  *)
(* sets it counts.                                                         *)
LEMMA ClaimKeepsCount ==
  ASSUME RecoveryInv, CountInv, NEW a \in Attempts, Claim(a)
  PROVE  CountInv'
<1> DEFINE Active == {b \in Attempts : Live(b)}
           Unacknowledged == {b \in Attempts : Over(b) /\ ~served[b].ack}
<1>1. Typed /\ \A b \in Attempts : Row(b)
  BY DEF RecoveryInv, Rows
<1>2. /\ served' \in [Attempts -> ServedRow] /\ served'[a].state = "preparing"
      /\ served'[a].ack <=> served[a].ack
      /\ \A b \in Attempts \ {a} : served'[b] = served[b]
  BY <1>1 DEF Claim, Typed, ServerTyped, ServedRow, States
<1>3. roll' = roll /\ tree' = tree /\ \A b \in Attempts \ {a} : go'[b] = go[b]
  BY <1>1 DEF Claim, server, repository, Goto, Typed, GoTyped
<1>4. roll.healthy /\ SlotsInUse < Slots /\ served[a].state = "none" /\ ~served[a].ack
  BY <1>1 DEF Claim, Row, Untouched
<1>5. Claimed' \subseteq Claimed \cup {a} /\ Claimed \subseteq Claimed'
  BY <1>2, <1>4 DEF Claimed
<1>6. Holding' \subseteq Holding \cup {a}
  BY <1>3 DEF Holding, Present
<1>7. Holding \subseteq (roll.retained \cup Active) \cup Unacknowledged
  <2> SUFFICES ASSUME NEW b \in Holding, b \notin roll.retained
               PROVE  b \in Active \/ b \in Unacknowledged
    OBVIOUS
  <2>1. b \in Attempts /\ served[b].state \in States \ {"none"}
    BY <1>1, HoldingIsClaimed DEF Holding, Claimed, Typed, ServerTyped, ServedRow
  <2>2. ~served[b].ack
    BY <1>4 DEF CountInv
  <2>3. QED
    BY <2>1, <2>2 DEF States, Live, Over
<1>8. /\ roll.retained \subseteq Claimed /\ Active \subseteq Claimed /\ Unacknowledged \subseteq Claimed
      /\ Holding \subseteq Claimed /\ IsFiniteSet(Claimed)
  BY HoldingIsClaimed DEF CountInv, Claimed, Live, Over
<1>9. /\ IsFiniteSet(roll.retained) /\ IsFiniteSet(Active) /\ IsFiniteSet(Unacknowledged)
      /\ IsFiniteSet(Holding)
  BY <1>8, FS_Subset
<1>10. /\ Cardinality(roll.retained) \in Nat /\ Cardinality(Active) \in Nat
       /\ Cardinality(Unacknowledged) \in Nat /\ Cardinality(Holding) \in Nat
  BY <1>9, FS_CardinalityType
<1>11. /\ IsFiniteSet(roll.retained \cup Active)
       /\ Cardinality(roll.retained \cup Active) <= Cardinality(roll.retained) + Cardinality(Active)
  <2>1. /\ IsFiniteSet(roll.retained \cup Active) /\ IsFiniteSet(roll.retained \cap Active)
        /\ Cardinality(roll.retained \cup Active)
             = Cardinality(roll.retained) + Cardinality(Active) - Cardinality(roll.retained \cap Active)
    BY <1>9, FS_Union, FS_Intersection
  <2>2. Cardinality(roll.retained \cap Active) \in Nat
    BY <2>1, FS_CardinalityType
  <2>3. QED
    BY <1>10, <2>1, <2>2
<1>12. /\ IsFiniteSet((roll.retained \cup Active) \cup Unacknowledged)
       /\ Cardinality((roll.retained \cup Active) \cup Unacknowledged)
            <= Cardinality(roll.retained \cup Active) + Cardinality(Unacknowledged)
       /\ Cardinality(roll.retained \cup Active) \in Nat
       /\ Cardinality((roll.retained \cup Active) \cup Unacknowledged) \in Nat
  <2>1. /\ IsFiniteSet((roll.retained \cup Active) \cup Unacknowledged)
        /\ IsFiniteSet((roll.retained \cup Active) \cap Unacknowledged)
        /\ Cardinality((roll.retained \cup Active) \cup Unacknowledged)
             = Cardinality(roll.retained \cup Active) + Cardinality(Unacknowledged)
                 - Cardinality((roll.retained \cup Active) \cap Unacknowledged)
    BY <1>9, <1>11, FS_Union, FS_Intersection
  <2>2. /\ Cardinality((roll.retained \cup Active) \cap Unacknowledged) \in Nat
        /\ Cardinality(roll.retained \cup Active) \in Nat
        /\ Cardinality((roll.retained \cup Active) \cup Unacknowledged) \in Nat
    BY <1>11, <2>1, FS_CardinalityType
  <2>3. QED
    BY <1>10, <2>1, <2>2
<1>13. Cardinality(Holding) <= Cardinality((roll.retained \cup Active) \cup Unacknowledged)
  BY <1>7, <1>12, FS_Subset
<1>14. SlotsInUse = Cardinality(roll.retained) + Cardinality(Active) + Cardinality(Unacknowledged)
  BY DEF SlotsInUse
<1> HIDE DEF Active, Unacknowledged
<1>15. Cardinality(Holding) + 1 <= Slots
  <2>1. Cardinality(Holding) <= SlotsInUse /\ SlotsInUse \in Nat
    BY <1>10, <1>11, <1>12, <1>13, <1>14
  <2>2. QED
    BY <1>4, <1>10, <2>1, SlotsAssumption
<1>16. Cardinality(Holding') <= Slots
  <2>1. /\ IsFiniteSet(Holding \cup {a})
        /\ \/ Cardinality(Holding \cup {a}) = Cardinality(Holding)
           \/ Cardinality(Holding \cup {a}) = Cardinality(Holding) + 1
    BY <1>9, FS_AddElement
  <2>2. Cardinality(Holding') <= Cardinality(Holding \cup {a}) /\ IsFiniteSet(Holding')
    BY <1>6, <2>1, FS_Subset
  <2>3. Cardinality(Holding') \in Nat
    BY <2>2, FS_CardinalityType
  <2>4. QED
    BY <1>10, <1>15, <2>1, <2>2, <2>3, SlotsAssumption
<1>17. IsFiniteSet(Claimed')
  <2>1. IsFiniteSet(Claimed \cup {a})
    BY <1>8, FS_AddElement
  <2>2. QED
    BY <1>5, <2>1, FS_Subset
<1>18. \A b \in Holding' : served'[b].ack => b \in roll.retained
  <2> SUFFICES ASSUME NEW b \in Holding', served'[b].ack PROVE b \in roll.retained
    OBVIOUS
  <2>1. b # a
    BY <1>2, <1>4
  <2>2. b \in Holding /\ served[b].ack
    BY <1>2, <1>6, <2>1 DEF Holding
  <2>3. QED
    BY <1>4, <2>2 DEF CountInv
<1>19. QED
  BY <1>3, <1>5, <1>8, <1>16, <1>17, <1>18 DEF CountInv

LEMMA CountStep == RecoveryInv /\ CountInv /\ [Next]_vars => CountInv'
<1> SUFFICES ASSUME RecoveryInv, CountInv, [Next]_vars PROVE CountInv'
  OBVIOUS
<1>1. Typed /\ RecoveryInv'
  BY RecoveryStep DEF RecoveryInv
<1>2. CASE \E a \in Attempts : Claim(a)
  BY <1>2, ClaimKeepsCount
<1>3. ASSUME Next, \A a \in Attempts : ~Claim(a)
      PROVE  Holding' \subseteq Holding
  BY <1>1, <1>3, PresentSteps, EarlySteps DEF Holding, Typed
<1>4. ASSUME Holding' \subseteq Holding
      PROVE  Cardinality(Holding') <= Slots
  <2>1. IsFiniteSet(Holding)
    BY HoldingIsClaimed, FS_Subset DEF CountInv
  <2>2. Cardinality(Holding') <= Cardinality(Holding) /\ IsFiniteSet(Holding')
    BY <1>4, <2>1, FS_Subset
  <2>3. Cardinality(Holding') \in Nat /\ Cardinality(Holding) \in Nat
    BY <2>1, <2>2, FS_CardinalityType
  <2>4. QED
    BY <2>2, <2>3, SlotsAssumption DEF CountInv
<1>5. CASE Next /\ ~Send /\ \A a \in Attempts : ~Claim(a)
  <2>1. \A b \in Attempts : /\ served'[b].state = "none" <=> served[b].state = "none"
                            /\ served'[b].ack <=> served[b].ack
    BY <1>1, <1>5, ServerSteps
  <2>2. CASE Attempts # {}
    <3>1. roll' = roll
      BY <1>1, <1>5, <2>2, ServerSteps
    <3>2. Claimed' = Claimed
      BY <2>1 DEF Claimed
    <3>3. roll.healthy => \A b \in Holding' : served'[b].ack => b \in roll.retained
      BY <1>3, <1>5, <2>1 DEF CountInv, Holding
    <3>4. QED
      BY <1>3, <1>4, <1>5, <3>1, <3>2, <3>3 DEF CountInv
  <2>3. CASE Attempts = {}
    <3>1. Claimed' = {} /\ Holding' = {} /\ roll'.retained \subseteq {}
      BY <1>1, <2>3 DEF Claimed, Holding, RecoveryInv, Typed, ServerTyped
    <3>2. IsFiniteSet(Claimed') /\ Cardinality(Holding') = 0
      BY <3>1, FS_EmptySet
    <3>3. QED
      BY <3>1, <3>2, SlotsAssumption DEF CountInv
  <2>4. QED
    BY <2>2, <2>3
<1>6. CASE Send
  <2>1. UNCHANGED <<tree, go, worker, fatal>> /\ worker = "serving"
    BY <1>6 DEF Send, repository
  <2>2. Holding' = Holding
    BY <2>1 DEF Holding, Present
  <2>3. Claimed' = Claimed
    BY <1>6, SendRow DEF Claimed
  <2>4. Cardinality(Holding') <= Slots
    BY <2>2 DEF CountInv
  <2>5. CASE UNCHANGED <<served, roll>>
    BY <2>2, <2>3, <2>4, <2>5 DEF CountInv
  <2>6. CASE roll' = [retained |-> retained, healthy |-> ~fatal]
    <3>1. roll'.retained = retained /\ (roll'.healthy <=> ~fatal)
      BY <2>6
    <3>2. retained \subseteq Claimed
      BY <1>1 DEF RecoveryInv, Rows, Row, Untouched, Claimed, Typed, MemoryTyped
    <3>3. ASSUME ~fatal, NEW b \in Holding, served'[b].ack
          PROVE  b \in retained
      <4>1. b \in Attempts
        BY DEF Holding
      <4>2. At(b, "idle")
        BY <1>1, <2>1, <3>3, <4>1 DEF RecoveryInv, Rows, Row, Ended, At
      <4>3. Present(b)
        BY <4>2 DEF Holding, Early, At
      <4>4. QED
        BY <2>1, <3>3, <4>1, <4>2, <4>3 DEF RecoveryInv, Rows, Row, Advertised, At
    <3>4. QED
      BY <2>2, <2>3, <2>4, <3>1, <3>2, <3>3 DEF CountInv
  <2>7. QED
    BY <1>6, <2>5, <2>6, SendRow
<1>7. CASE UNCHANGED vars
  BY <1>7 DEF vars, server, repository, CountInv, Claimed, Holding, Present
<1>8. QED
  BY <1>2, <1>5, <1>6, <1>7

(* The slots of a repository account for every worktree, whatever was      *)
(* lost, crashed or cleaned up in between: there are never more worktrees  *)
(* than slots (state.go:152-170, store.go:1767-1833), a healthy worker     *)
(* advertises every one it is not working in (reconcile.go:250-274), and   *)
(* no slot is given back before the attempt is through with it             *)
(* (attempt_lifecycle.go:848-862).                                         *)
THEOREM SlotsAccountedCorrect == Spec => []SlotsAccounted
<1>1. RecoveryInv /\ CountInv => SlotsAccounted
  <2> SUFFICES ASSUME RecoveryInv, CountInv PROVE SlotsAccounted
    OBVIOUS
  <2> DEFINE Worktrees == {a \in Attempts : tree[a].path \/ tree[a].listed}
  <2>1. Worktrees \subseteq Holding /\ IsFiniteSet(Holding)
    <3>1. Holding \subseteq Claimed /\ IsFiniteSet(Claimed)
      BY HoldingIsClaimed DEF CountInv
    <3>2. QED
      BY <3>1, FS_Subset DEF Holding, Present
  <2>2. Cardinality(Worktrees) <= Cardinality(Holding) /\ IsFiniteSet(Worktrees)
    BY <2>1, FS_Subset
  <2>3. Cardinality(Worktrees) \in Nat /\ Cardinality(Holding) \in Nat
    BY <2>1, <2>2, FS_CardinalityType
  <2>4. SlotsBound
    BY <2>2, <2>3, SlotsAssumption DEF SlotsBound, CountInv
  <2>5. RetainedKnown
    BY DEF RetainedKnown, RecoveryInv, Rows, Row, Advertised, Present, At
  <2>6. AckAfterEnd
    BY DEF AckAfterEnd, RecoveryInv, Rows, Row, Ended, At
  <2>7. QED
    BY <2>4, <2>5, <2>6 DEF SlotsAccounted
<1>2. Spec => []CountInv
  BY CountInit, CountStep, RecoveryInvariant, PTL DEF Spec
<1>3. QED
  BY <1>1, <1>2, RecoveryInvariant, PTL
=============================================================================
