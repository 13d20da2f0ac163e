---------------------------- MODULE WorkerRecovery ----------------------------
(***************************************************************************)
(* What a worker keeps of its attempts on disk, and how it comes back to a *)
(* known state from any of it: the manifest and the worktree of an attempt *)
(* while it runs, the hand-over of its slot at the end, the reconciliation *)
(* of a restarted worker, the cleanup an operator confirms, and the full   *)
(* registration that tells the control plane which slots are free again.   *)
(*                                                                         *)
(* A crash is possible between any two steps.  Git adds and removes a      *)
(* worktree in two steps, the list entry and the directory.  The attempts  *)
(* are those of one worker in one repository.                              *)
(***************************************************************************)
EXTENDS Naturals, FiniteSets

CONSTANTS Attempts,
          Stages,     \* stages of the pipeline of each attempt
          Slots,      \* MaxRetainedPerRepo
          MaxFaults,  \* bound: writes, requests and commands that fail
          MaxStarts,  \* bound: starts of the worker
          Edited,     \* bound: the attempts somebody works on by hand
          MaxEdits    \* bound: edits, commits and cleanups by hand

ASSUME StagesAssumption == Stages \in Nat \ {0}
ASSUME SlotsAssumption == Slots \in Nat \ {0}
ASSUME EditedAssumption == Edited \subseteq Attempts

VARIABLES served,    \* the control plane's attempt: state, stage of the recorded supervisor
          roll,      \* the last full registration: retained worktrees and health
          manifest, disposals,        \* the worker's data directory
          tree, branch,               \* the repository
          group,     \* the live process group: "new" until the manifest names it, then "known"
          worker,    \* what the worker program is doing
          go,        \* where the worker is with each attempt
          retained, disposed, handoffs, fatal, registered, registering,  \* its memory
          retry, unsafe,              \* errors of this pass over the manifests
          faults, starts, edits

server == <<served, roll>>
disk == <<manifest, disposals>>
repository == <<tree, branch>>
slots == <<retained, disposed, handoffs>>
registration == <<registered, registering>>
pass == <<retry, unsafe>>
bounds == <<faults, starts, edits>>
vars == <<server, disk, repository, group, worker, go, slots, fatal, registration, pass, bounds>>

Lifecycles == {"preparing", "worktree_created", "supervisor_ready", "running", "completed",
               "retained", "not_created", "inconsistent", "missing", "cleanup_started", "cleaned"}
Gone == {"cleaned", "not_created", "missing"}
Manifest == [life : Lifecycles, intent : {"none", "automatic", "operator"},
             active : BOOLEAN, stage : 0 .. Stages,
             why : {"none", "process", "identity", "worktree"}]
NoManifest == [life |-> "none"]
Heads == {"none", "base", "local", "published"}
(* Mistake: any head of a managed branch may be deleted.                   *)
SafeAnyHead == Heads \ {"none"}
Safe == {"base", "published"}

Points == {"idle",
           "claimed", "adding", "listed", "added", "stage", "spawned", "start", "started", "run",
           "finish", "complete", "clean", "retain", "forgo", "not_created", "report", "release",
           "remove", "unlist", "branch", "delete", "cleaned", "dispose",
           "todo", "verify"}
Idle == [at |-> "idle", stage |-> 0, verdict |-> "failed", head |-> "none"]

TypeOK ==
    /\ served \in [Attempts -> [state : {"none", "preparing", "running", "succeeded", "failed", "lost"},
                                stage : 0 .. Stages, ack : BOOLEAN]]
    /\ roll \in [retained : SUBSET Attempts, healthy : BOOLEAN]
    /\ manifest \in [Attempts -> Manifest \cup {NoManifest}]
    /\ disposals \subseteq Attempts
    /\ tree \in [Attempts -> [path : BOOLEAN, listed : BOOLEAN, dirty : BOOLEAN]]
    /\ branch \in [Attempts -> Heads]
    /\ group \in [Attempts -> {"none", "new", "known"}]
    /\ worker \in {"down", "cleanup", "reconcile", "serving"}
    /\ go \in [Attempts -> [at : Points, stage : 0 .. Stages,
                            verdict : {"succeeded", "failed"}, head : Heads]]
    /\ retained \subseteq Attempts /\ disposed \subseteq Attempts /\ handoffs \subseteq Attempts
    /\ fatal \in BOOLEAN /\ registered \in BOOLEAN /\ retry \in BOOLEAN /\ unsafe \in BOOLEAN
    /\ registering \in {"idle", "send", "remove", "clear"}
    /\ faults \in 0 .. MaxFaults /\ starts \in 0 .. MaxStarts /\ edits \in 0 .. MaxEdits

Init ==
    /\ served = [a \in Attempts |-> [state |-> "none", stage |-> 0, ack |-> FALSE]]
    /\ roll = [retained |-> {}, healthy |-> FALSE]
    /\ manifest = [a \in Attempts |-> NoManifest] /\ disposals = {}
    /\ tree = [a \in Attempts |-> [path |-> FALSE, listed |-> FALSE, dirty |-> FALSE]]
    /\ branch = [a \in Attempts |-> "none"]
    /\ group = [a \in Attempts |-> "none"]
    /\ worker = "down"
    /\ go = [a \in Attempts |-> Idle]
    /\ retained = {} /\ disposed = {} /\ handoffs = {}
    /\ fatal = FALSE /\ registered = FALSE /\ registering = "idle"
    /\ retry = FALSE /\ unsafe = FALSE
    /\ faults = 0 /\ starts = 0 /\ edits = 0

Live(a) == served[a].state \in {"preparing", "running"}
Over(a) == served[a].state \in {"succeeded", "failed", "lost"}
Whole(a) == tree[a].path /\ tree[a].listed
Absent(a) == ~tree[a].path /\ ~tree[a].listed
At(a, p) == go[a].at = p
Goto(a, p) == go' = [go EXCEPT ![a].at = p]
End(a, verdict, p) == go' = [go EXCEPT ![a].at = p, ![a].verdict = verdict]

Fault == faults < MaxFaults /\ faults' = faults + 1 /\ UNCHANGED <<starts, edits>>
NoFault == UNCHANGED bounds

Inconsistent(a, reason) ==
    manifest' = [manifest EXCEPT ![a].life = "inconsistent", ![a].why = reason]
Persist(a, life) == manifest' = [manifest EXCEPT ![a].life = life, ![a].why = "none"]

-----------------------------------------------------------------------------
(* The attempt: claimed, given a worktree, run stage by stage.             *)

Running(a, p) == worker = "serving" /\ At(a, p)

(* ClaimAttempt counts retained, active and unacknowledged worktrees.      *)
(* Mistake: attempts that are over are not counted.                        *)
SlotsInUseLive == Cardinality(roll.retained) + Cardinality({a \in Attempts : Live(a)})
SlotsInUse ==
    Cardinality(roll.retained) + Cardinality({a \in Attempts : Live(a)})
      + Cardinality({a \in Attempts : Over(a) /\ ~served[a].ack})

Claim(a) ==
    /\ worker = "serving" /\ ~fatal /\ registered /\ roll.healthy
    /\ served[a].state = "none" /\ SlotsInUse < Slots
    /\ served' = [served EXCEPT ![a].state = "preparing"]
    /\ Goto(a, "claimed")
    /\ UNCHANGED <<roll, disk, repository, group, worker, slots, fatal, registration, pass, bounds>>

Refuse(a) ==
    /\ Running(a, "claimed") /\ End(a, "failed", "forgo")
    /\ UNCHANGED <<server, disk, repository, group, worker, slots, fatal, registration, pass, bounds>>

CreateManifest(a) ==
    /\ Running(a, "claimed")
    /\ \/ /\ NoFault /\ Goto(a, "adding") /\ UNCHANGED <<fatal, registered>>
          /\ manifest' = [manifest EXCEPT ![a] = [life |-> "preparing", intent |-> "none",
                              active |-> FALSE, stage |-> 0, why |-> "none"]]
       \/ /\ Fault /\ fatal' = TRUE /\ registered' = FALSE
          /\ End(a, "failed", "forgo") /\ UNCHANGED manifest
    /\ UNCHANGED <<server, disposals, repository, group, worker, slots, registering, pass>>

GitAdds(a) ==
    /\ NoFault
    /\ \/ /\ Running(a, "adding") /\ Goto(a, "listed")
          /\ tree' = [tree EXCEPT ![a].listed = TRUE] /\ branch' = [branch EXCEPT ![a] = "base"]
       \/ /\ Running(a, "listed") /\ Goto(a, "added")
          /\ tree' = [tree EXCEPT ![a].path = TRUE] /\ UNCHANGED branch
    /\ UNCHANGED <<server, disk, group, worker, slots, fatal, registration, pass>>

(* git worktree add fails or is cancelled with what it has left behind.    *)
AddFails(a) ==
    /\ Fault
    /\ \/ Running(a, "adding") /\ End(a, "failed", "forgo") /\ UNCHANGED <<manifest, fatal, registered>>
       \/ /\ Running(a, "listed") /\ End(a, "failed", "report")
          /\ Inconsistent(a, "worktree") /\ fatal' = TRUE /\ registered' = FALSE
       \/ Running(a, "added") /\ End(a, "failed", "finish") /\ UNCHANGED <<manifest, fatal, registered>>
    /\ UNCHANGED <<server, disposals, repository, group, worker, slots, registering, pass>>

(* A manifest update in the middle of the attempt; a failed one ends it.   *)
Advance(a, life, p) ==
    \/ NoFault /\ Persist(a, life) /\ Goto(a, p) /\ UNCHANGED <<group, fatal, registered>>
    \/ /\ Fault /\ fatal' = TRUE /\ registered' = FALSE /\ UNCHANGED manifest
       /\ End(a, "failed", "finish") /\ group' = [group EXCEPT ![a] = "none"]

WorktreeCreated(a) ==
    /\ Running(a, "added") /\ Advance(a, "worktree_created", "stage")
    /\ UNCHANGED <<server, disposals, repository, worker, slots, registering, pass>>

MoreStages(n) == n < Stages

(* Plan, comment, supervisor or stop: the attempt ends before the stage.   *)
StageFails(a) ==
    /\ Running(a, "stage") /\ End(a, "failed", "finish")
    /\ UNCHANGED <<server, disk, repository, group, worker, slots, fatal, registration, pass, bounds>>

StartSupervisor(a) ==
    /\ Running(a, "stage") /\ Goto(a, "spawned")
    /\ group' = [group EXCEPT ![a] = "new"]
    /\ UNCHANGED <<server, disk, repository, worker, slots, fatal, registration, pass, bounds>>

(* No readiness in time, or the attempt is stopped: the control pipe is    *)
(* closed, and the group is left to end by itself.                         *)
ReadyFails(a) ==
    /\ Running(a, "spawned") /\ End(a, "failed", "finish")
    /\ UNCHANGED <<server, disk, repository, group, worker, slots, fatal, registration, pass, bounds>>

(* The manifest names the group.                                           *)
SupervisorReady(a) ==
    LET stage == go[a].stage + 1 IN
    /\ Running(a, "spawned")
    /\ manifest' = [manifest EXCEPT ![a].life = "supervisor_ready", ![a].active = TRUE,
                                    ![a].stage = stage]
    /\ go' = [go EXCEPT ![a].at = "start", ![a].stage = stage]
    /\ group' = [group EXCEPT ![a] = "known"]
    /\ UNCHANGED <<server, disposals, repository, worker, slots, fatal, registration, pass, bounds>>

(* It cannot be written: the group is stopped, if it can be, and the       *)
(* attempt does not know of it.                                            *)
ReadyUnwritten(a) ==
    /\ Running(a, "spawned") /\ Fault /\ End(a, "failed", "finish")
    /\ fatal' = TRUE /\ registered' = FALSE
    /\ group' = [group EXCEPT ![a] = "none"] \/ UNCHANGED group
    /\ UNCHANGED <<server, disk, repository, worker, slots, registering, pass>>

(* StartAttempt and StartStage record the supervisor of the stage.         *)
StartStage(a) ==
    /\ Running(a, "start") /\ Live(a)
    /\ served' = [served EXCEPT ![a].state = "running", ![a].stage = go[a].stage]
    /\ Goto(a, "started")
    /\ UNCHANGED <<roll, disk, repository, group, worker, slots, fatal, registration, pass, bounds>>

(* The lease is lost or a cancellation is requested: the stage is stopped. *)
StartRefused(a) ==
    /\ Running(a, "start") /\ End(a, "failed", "finish")
    /\ group' = [group EXCEPT ![a] = "none"]
    /\ UNCHANGED <<server, disk, repository, worker, slots, fatal, registration, pass, bounds>>

StageRuns(a) ==
    /\ Running(a, "started") /\ Advance(a, "running", "run")
    /\ UNCHANGED <<server, disposals, repository, worker, slots, registering, pass>>

StageEnds(a) ==
    /\ Running(a, "run")
    /\ \E d \in BOOLEAN, h \in Heads \ {"none"} :
          /\ branch[a] # "base" => h # "base"
          /\ tree' = [tree EXCEPT ![a].dirty = d] /\ branch' = [branch EXCEPT ![a] = h]
    /\ \/ MoreStages(go[a].stage) /\ Goto(a, "stage")
       \/ ~MoreStages(go[a].stage) /\ End(a, "succeeded", "finish")
       \/ End(a, "failed", "finish")
    /\ group' = [group EXCEPT ![a] = "none"]
    /\ UNCHANGED <<server, disk, worker, slots, fatal, registration, pass, bounds>>

(* Mistake: the attempt is completed although its group may be alive.      *)
StopUnverifiedCompletes(a) ==
    /\ Running(a, "run") /\ Fault /\ End(a, "succeeded", "finish")
    /\ UNCHANGED <<server, disk, repository, group, worker, slots, fatal, registration, pass>>

(* The process group cannot be seen to stop: no completion, only retain.   *)
StopUnverified(a) ==
    /\ \E p \in {"start", "started", "run"} : Running(a, p)
    /\ registering = "idle" /\ Fault
    /\ fatal' = TRUE /\ registered' = FALSE
    /\ handoffs' = handoffs \cup {a} /\ End(a, "failed", "retain")
    /\ UNCHANGED <<server, disk, repository, group, worker, retained, disposed, registering, pass>>

-----------------------------------------------------------------------------
(* The end of the attempt.  From beginCapacityHandoff to the release no    *)
(* full registration is built.                                             *)

Handoff(a) == registering = "idle" /\ handoffs' = handoffs \cup {a}

Finish(a) ==
    /\ Running(a, "finish") /\ Handoff(a) /\ Goto(a, "complete")
    /\ \/ /\ NoFault /\ UNCHANGED <<fatal, registered>>
          /\ manifest' = [manifest EXCEPT ![a].life = "completed", ![a].active = FALSE]
       \/ Fault /\ fatal' = TRUE /\ registered' = FALSE /\ UNCHANGED manifest
    /\ UNCHANGED <<server, disposals, repository, group, worker, retained, disposed, registering, pass>>

Completed(a) == served' = [served EXCEPT ![a].state = go[a].verdict]

Complete(a) ==
    /\ Running(a, "complete")
    /\ \/ /\ Live(a) /\ Completed(a) /\ NoFault
          /\ \E p \in {"clean", "retain"} : (go[a].verdict = "failed" => p = "retain") /\ Goto(a, p)
       \/ ~Live(a) /\ Goto(a, "retain") /\ NoFault /\ UNCHANGED served
       \/ Live(a) /\ (Completed(a) \/ UNCHANGED served) /\ Fault /\ Goto(a, "retain")
    /\ UNCHANGED <<roll, disk, repository, group, worker, slots, fatal, registration, pass>>

Eligible(a) == Whole(a) /\ ~tree[a].dirty /\ branch[a] \in Safe

CleanBegins(a) ==
    /\ Running(a, "clean")
    /\ \/ /\ Eligible(a) /\ NoFault /\ Goto(a, "remove")
          /\ manifest' = [manifest EXCEPT ![a].life = "cleanup_started", ![a].intent = "automatic"]
       \/ ~Eligible(a) /\ NoFault /\ Goto(a, "retain") /\ UNCHANGED manifest
       \/ Fault /\ Goto(a, "retain") /\ UNCHANGED manifest
    /\ UNCHANGED <<server, disposals, repository, group, worker, slots, fatal, registration, pass>>

Retain(a) ==
    /\ Running(a, "retain") /\ Goto(a, "release")
    /\ \/ /\ Whole(a) /\ NoFault /\ Persist(a, "retained")
          /\ retained' = retained \cup {a} /\ UNCHANGED <<fatal, registered>>
       \/ /\ ~Whole(a) /\ NoFault /\ Inconsistent(a, "worktree")
          /\ fatal' = TRUE /\ registered' = FALSE /\ UNCHANGED retained
       \/ Fault /\ fatal' = TRUE /\ registered' = FALSE /\ UNCHANGED <<manifest, retained>>
    /\ UNCHANGED <<server, disposals, repository, group, worker, disposed, handoffs, registering, pass>>

(* finishWithoutWorktree: the disposal, the manifest, the completion.      *)
Forgo(a) ==
    /\ Running(a, "forgo") /\ Handoff(a) /\ disposed' = disposed \cup {a}
    /\ \/ /\ NoFault /\ disposals' = disposals \cup {a}
          /\ Goto(a, "not_created") /\ UNCHANGED <<fatal, registered>>
       \/ Fault /\ fatal' = TRUE /\ registered' = FALSE /\ Goto(a, "release") /\ UNCHANGED disposals
    /\ UNCHANGED <<server, manifest, repository, group, worker, retained, registering, pass>>

NotCreated(a) ==
    /\ Running(a, "not_created") /\ Goto(a, "report")
    /\ \/ manifest[a] = NoManifest /\ NoFault /\ UNCHANGED <<manifest, fatal, registered>>
       \/ /\ manifest[a] # NoManifest /\ NoFault /\ Persist(a, "not_created")
          /\ UNCHANGED <<fatal, registered>>
       \/ /\ manifest[a] # NoManifest /\ Fault /\ fatal' = TRUE /\ registered' = FALSE
          /\ UNCHANGED manifest
    /\ UNCHANGED <<server, disposals, repository, group, worker, slots, registering, pass>>

Report(a) ==
    /\ Running(a, "report") /\ Goto(a, "release")
    /\ \/ Live(a) /\ Completed(a) /\ NoFault
       \/ ~Live(a) /\ NoFault /\ UNCHANGED served
       \/ Live(a) /\ Fault /\ UNCHANGED served
    /\ UNCHANGED <<roll, disk, repository, group, worker, slots, fatal, registration, pass>>

(* The last hand-over registers before the registration lock is released.  *)
Release(a) ==
    /\ Running(a, "release") /\ registering = "idle"
    /\ go' = [go EXCEPT ![a] = Idle] /\ handoffs' = handoffs \ {a}
    /\ registering' = IF a \in handoffs /\ handoffs' = {} THEN "send" ELSE "idle"
    /\ UNCHANGED <<server, disk, repository, group, worker, retained, disposed, fatal,
                   registered, pass, bounds>>

-----------------------------------------------------------------------------
(* Removing a worktree: by the attempt itself, by a restarted worker, by   *)
(* the operator's command.                                                 *)

Fails(a) ==
    \/ worker = "serving" /\ fatal' = TRUE /\ registered' = FALSE /\ Goto(a, "release")
          /\ UNCHANGED <<worker, retry>>
    \/ worker = "reconcile" /\ retry' = TRUE /\ Goto(a, "idle")
          /\ UNCHANGED <<worker, fatal, registered>>
    \/ worker = "cleanup" /\ worker' = "down" /\ go' = [go EXCEPT ![a] = Idle]
          /\ UNCHANGED <<fatal, registered, retry>>

Removable(a) ==
    /\ Whole(a)
    /\ worker = "serving" => Eligible(a)
    /\ manifest[a].intent = "automatic" => ~tree[a].dirty

Remove(a) ==
    /\ At(a, "remove")
    /\ \/ /\ Removable(a) /\ NoFault /\ Goto(a, "unlist")
          /\ tree' = [tree EXCEPT ![a].path = FALSE, ![a].dirty = FALSE]
          /\ UNCHANGED <<worker, fatal, registered, retry>>
       \/ ~Removable(a) /\ NoFault /\ Fails(a) /\ UNCHANGED tree
       \/ Fault /\ Fails(a) /\ UNCHANGED tree
    /\ UNCHANGED <<server, disk, branch, group, slots, registering, unsafe>>

Unlist(a) ==
    /\ At(a, "unlist") /\ tree' = [tree EXCEPT ![a].listed = FALSE]
    /\ Goto(a, IF manifest[a].intent = "automatic" THEN "branch" ELSE "cleaned")
    /\ UNCHANGED <<server, disk, branch, group, worker, slots, fatal, registration, pass, bounds>>

(* deleteSafeManagedBranch reads the head, then deletes the ref if it is   *)
(* still that head.                                                        *)
ReadBranch(a) ==
    /\ At(a, "branch")
    /\ \/ branch[a] \in Safe
          /\ go' = [go EXCEPT ![a].at = "delete", ![a].head = branch[a]]
       \/ branch[a] \notin Safe /\ Goto(a, "cleaned")
    /\ UNCHANGED <<server, disk, repository, group, worker, slots, fatal, registration, pass, bounds>>

DeleteBranch(a) ==
    /\ At(a, "delete")
    /\ \/ /\ branch[a] = go[a].head /\ branch' = [branch EXCEPT ![a] = "none"]
          /\ Goto(a, "cleaned") /\ NoFault /\ UNCHANGED <<worker, fatal, registered, retry>>
       \/ branch[a] # go[a].head /\ NoFault /\ Fails(a) /\ UNCHANGED branch
       \/ Fault /\ Fails(a) /\ UNCHANGED branch
    /\ UNCHANGED <<server, disk, tree, group, slots, registering, unsafe>>

Cleaned(a) ==
    /\ At(a, "cleaned")
    /\ \/ /\ NoFault /\ Persist(a, "cleaned") /\ UNCHANGED <<fatal, registered, retry>>
          /\ IF worker = "cleanup" THEN worker' = "down" /\ go' = [go EXCEPT ![a] = Idle]
             ELSE Goto(a, "dispose") /\ UNCHANGED worker
       \/ Fault /\ Fails(a) /\ UNCHANGED manifest
    /\ UNCHANGED <<server, disposals, repository, group, slots, registering, unsafe>>

(* recordDisposed remembers the attempt even if the journal is not written. *)
Dispose(a) ==
    /\ At(a, "dispose") /\ disposed' = disposed \cup {a}
    /\ \/ /\ NoFault /\ disposals' = disposals \cup {a}
          /\ Goto(a, IF worker = "serving" THEN "release" ELSE "idle")
          /\ UNCHANGED <<worker, fatal, registered, retry>>
       \/ Fault /\ Fails(a) /\ UNCHANGED disposals
    /\ UNCHANGED <<server, manifest, repository, group, retained, handoffs, registering, unsafe>>

(* The operator's confirmed cleanup takes the data directory's lock.       *)
OperatorCleans(a) ==
    /\ worker = "down" /\ starts < MaxStarts /\ edits < MaxEdits /\ edits' = edits + 1
    /\ manifest[a] # NoManifest /\ ~manifest[a].active
    /\ manifest[a].life \in {"retained", "cleanup_started"}
    /\ \/ /\ Absent(a) /\ manifest[a].life = "cleanup_started"
          /\ Persist(a, "cleaned") /\ UNCHANGED <<worker, go>>
       \/ /\ Whole(a) /\ worker' = "cleanup" /\ Goto(a, "remove")
          /\ manifest' = [manifest EXCEPT ![a].life = "cleanup_started", ![a].intent = "operator"]
    /\ UNCHANGED <<server, disposals, repository, group, slots, fatal, registration, pass,
                   faults, starts>>

-----------------------------------------------------------------------------
(* A restarted worker reconciles its manifests one after the other.        *)

ToReconcile(a) == manifest[a] # NoManifest /\ a \notin disposals
Todo == [a \in Attempts |-> IF ToReconcile(a) THEN [Idle EXCEPT !.at = "todo"] ELSE Idle]

Start ==
    /\ worker = "down" /\ starts < MaxStarts /\ starts' = starts + 1
    /\ worker' = "reconcile" /\ go' = Todo
    /\ disposed' = disposals /\ retry' = FALSE /\ unsafe' = FALSE
    /\ UNCHANGED <<server, disk, repository, group, retained, handoffs, fatal, registration,
                   faults, edits>>

Turn(a, p) ==
    /\ worker = "reconcile" /\ At(a, p)
    /\ \A b \in Attempts \ {a} : go[b].at \in {"todo", "idle"}

(* A refused manifest (unsafe) lets the pass go on; a failure repeats it.  *)
Unsafe(a, reason) ==
    Inconsistent(a, reason) /\ unsafe' = TRUE /\ Goto(a, "idle") /\ NoFault /\ UNCHANGED retry
Retry(a) ==
    Fault /\ retry' = TRUE /\ Goto(a, "idle") /\ UNCHANGED <<manifest, unsafe>>

StopProcesses(a) ==
    /\ Turn(a, "todo")
    /\ \/ /\ manifest[a].active /\ NoFault
          /\ group' = [group EXCEPT ![a] = IF @ = "known" THEN "none" ELSE @]
          /\ manifest' = [manifest EXCEPT ![a].active = FALSE]
          /\ Goto(a, "verify") /\ UNCHANGED pass
       \/ ~manifest[a].active /\ NoFault /\ Goto(a, "verify") /\ UNCHANGED <<group, manifest, pass>>
       \/ /\ manifest[a].active /\ Fault /\ Inconsistent(a, "process")
          /\ unsafe' = TRUE /\ Goto(a, "idle") /\ UNCHANGED <<group, retry>>
    /\ UNCHANGED <<server, disposals, repository, worker, slots, fatal, registration>>

(* verifyServerAttempt, and the exception for a stopped stage hand-off.    *)
SameIdentity(a) ==
    \/ served[a].stage \in {0, manifest[a].stage}
    \/ manifest[a].life = "supervisor_ready" /\ served[a].state = "running"

Mismatch(a) ==
    /\ Turn(a, "verify") /\ ~SameIdentity(a) /\ Unsafe(a, "identity")
    /\ UNCHANGED <<server, disposals, repository, group, worker, slots, fatal, registration>>

Unreadable(a) ==
    /\ Turn(a, "verify") /\ Retry(a)
    /\ UNCHANGED <<server, disposals, repository, group, worker, slots, fatal, registration>>

Verified(a) == Turn(a, "verify") /\ SameIdentity(a)
Interrupted(a) == manifest[a].life = "cleanup_started"

RetainedOnStart(a) == Persist(a, "retained") /\ retained' = retained \cup {a} /\ Goto(a, "idle")

CleanupResumes(a) ==
    /\ Verified(a) /\ Interrupted(a) /\ NoFault
    /\ \/ /\ Absent(a) /\ UNCHANGED <<manifest, retained>>
          /\ Goto(a, IF manifest[a].intent = "automatic" THEN "branch" ELSE "cleaned")
       \/ /\ Whole(a) /\ (manifest[a].intent = "operator" \/ Eligible(a))
          /\ Goto(a, "remove") /\ UNCHANGED <<manifest, retained>>
       \/ Whole(a) /\ manifest[a].intent = "automatic" /\ ~Eligible(a) /\ RetainedOnStart(a)
    /\ UNCHANGED <<server, disposals, repository, group, worker, disposed, handoffs, fatal,
                   registration, pass>>

WorktreeDisagrees(a) ==
    /\ Verified(a)
    /\ \/ tree[a].path # tree[a].listed
       \/ Whole(a) /\ manifest[a].life \in {"cleaned", "not_created"}
    /\ Unsafe(a, "worktree")
    /\ UNCHANGED <<server, disposals, repository, group, worker, slots, fatal, registration>>

WorktreeAbsent(a) ==
    /\ Verified(a) /\ Absent(a) /\ ~Interrupted(a) /\ NoFault
    /\ Persist(a, CASE manifest[a].life \in {"preparing", "not_created"} -> "not_created"
                    [] manifest[a].life = "cleaned" -> "cleaned"
                    [] OTHER -> "missing")
    /\ Goto(a, "dispose")
    /\ UNCHANGED <<server, disposals, repository, group, worker, slots, fatal, registration, pass>>

WorktreePresent(a) ==
    /\ Verified(a) /\ Whole(a) /\ ~Interrupted(a) /\ NoFault
    /\ manifest[a].life \notin {"cleaned", "not_created"}
    /\ RetainedOnStart(a)
    /\ UNCHANGED <<server, disposals, repository, group, worker, disposed, handoffs, fatal,
                   registration, pass>>

Reconciled ==
    /\ worker = "reconcile" /\ \A a \in Attempts : At(a, "idle")
    /\ \/ /\ retry /\ retry' = FALSE /\ unsafe' = FALSE /\ go' = Todo
          /\ disposed' = disposed \cup disposals /\ UNCHANGED <<worker, fatal, registering>>
       \/ /\ ~retry /\ worker' = "serving" /\ fatal' = unsafe /\ registering' = "send"
          /\ UNCHANGED <<go, disposed, pass>>
    /\ UNCHANGED <<server, disk, repository, group, retained, handoffs, registered, bounds>>

-----------------------------------------------------------------------------
(* A full registration, every ten seconds unless a hand-over is under way. *)

Register ==
    /\ worker = "serving" /\ registering = "idle" /\ handoffs = {}
    /\ registering' = "send"
    /\ UNCHANGED <<server, disk, repository, group, worker, go, slots, fatal, registered, pass, bounds>>

(* RegisterWorker: a disposed attempt frees its slot; a retained one is    *)
(* counted in the roll from now on, so its attempt need not be.            *)
(* Mistake: only retained worktrees are looked at.                         *)
AcknowledgesRetained(a) == a \in retained /\ Over(a)
Acknowledges(a) == a \in disposed \/ (a \in retained /\ Over(a))
Registers ==
    /\ roll' = [retained |-> retained, healthy |-> ~fatal]
    /\ served' = [a \in Attempts |-> [served[a] EXCEPT !.ack = @ \/ Acknowledges(a)]]

Send ==
    /\ worker = "serving" /\ registering = "send"
    /\ \/ NoFault /\ Registers /\ registering' = "remove" /\ UNCHANGED registered
       \/ /\ Fault /\ (Registers \/ UNCHANGED server)
          /\ registering' = "idle" /\ registered' = FALSE
    /\ UNCHANGED <<disk, repository, group, worker, go, slots, fatal, pass>>

Removing(a) == worker = "serving" /\ registering = "remove" /\ a \in disposed /\ manifest[a] # NoManifest

RemoveManifest(a) ==
    /\ Removing(a)
    /\ \/ /\ manifest[a].life \in Gone /\ NoFault /\ manifest' = [manifest EXCEPT ![a] = NoManifest]
          /\ UNCHANGED <<fatal, registration>>
       \/ /\ (manifest[a].life \notin Gone /\ NoFault) \/ Fault
          /\ fatal' = TRUE /\ registered' = FALSE /\ registering' = "idle" /\ UNCHANGED manifest
    /\ UNCHANGED <<server, disposals, repository, group, worker, go, slots, pass>>

ClearDisposals ==
    /\ worker = "serving" /\ registering = "remove" /\ \A a \in Attempts : ~Removing(a)
    /\ registering' = "clear"
    /\ disposals' = disposals \ disposed
    /\ UNCHANGED <<server, manifest, repository, group, worker, go, slots, fatal, registered, pass, bounds>>

Registered ==
    /\ worker = "serving" /\ registering = "clear"
    /\ registering' = "idle" /\ disposed' = {}
    /\ registered' = (roll.healthy = ~fatal)
    /\ UNCHANGED <<server, disk, repository, group, worker, go, retained, handoffs, fatal, pass, bounds>>

-----------------------------------------------------------------------------
(* The environment.                                                        *)

Sweep(a) ==
    /\ Live(a) /\ served' = [served EXCEPT ![a].state = "lost"]
    /\ UNCHANGED <<roll, disk, repository, group, worker, go, slots, fatal, registration, pass, bounds>>

Crash ==
    /\ worker # "down" /\ starts < MaxStarts
    /\ worker' = "down" /\ go' = [a \in Attempts |-> Idle]
    /\ retained' = {} /\ disposed' = {} /\ handoffs' = {}
    /\ fatal' = FALSE /\ registered' = FALSE /\ registering' = "idle"
    /\ retry' = FALSE /\ unsafe' = FALSE
    /\ UNCHANGED <<server, disk, repository, group, bounds>>

(* The supervisor notices that the worker is gone, or has closed its       *)
(* control pipe, and stops the group.                                      *)
GroupExits(a) ==
    /\ group[a] # "none" /\ go[a].at \notin {"spawned", "start", "started", "run"}
    /\ group' = [group EXCEPT ![a] = "none"]
    /\ UNCHANGED <<server, disk, repository, worker, go, slots, fatal, registration, pass, bounds>>

(* Somebody edits a worktree, or commits on its branch.                    *)
EditByHand(a) ==
    /\ tree[a].path /\ edits < MaxEdits /\ edits' = edits + 1
    /\ tree' = [tree EXCEPT ![a].dirty = TRUE]
    /\ UNCHANGED <<server, disk, branch, group, worker, go, slots, fatal, registration, pass,
                   faults, starts>>

CommitByHand(a) ==
    /\ branch[a] # "none" /\ edits < MaxEdits /\ edits' = edits + 1
    /\ branch' = [branch EXCEPT ![a] = "local"]
    /\ UNCHANGED <<server, disk, tree, group, worker, go, slots, fatal, registration, pass,
                   faults, starts>>

Attempt(a) ==
    \/ Refuse(a) \/ CreateManifest(a) \/ GitAdds(a) \/ AddFails(a) \/ WorktreeCreated(a)
    \/ StageFails(a) \/ StartSupervisor(a) \/ ReadyFails(a) \/ SupervisorReady(a)
    \/ ReadyUnwritten(a) \/ StartStage(a) \/ StartRefused(a) \/ StageRuns(a) \/ StageEnds(a)
    \/ StopUnverified(a) \/ Finish(a) \/ Complete(a) \/ CleanBegins(a) \/ Retain(a) \/ Forgo(a) \/ NotCreated(a) \/ Report(a) \/ Release(a)

Removal(a) ==
    Remove(a) \/ Unlist(a) \/ ReadBranch(a) \/ DeleteBranch(a) \/ Cleaned(a) \/ Dispose(a)

Reconcile(a) ==
    \/ StopProcesses(a) \/ Mismatch(a) \/ Unreadable(a) \/ CleanupResumes(a)
    \/ WorktreeDisagrees(a) \/ WorktreeAbsent(a) \/ WorktreePresent(a)

Registration == Register \/ Send \/ ClearDisposals \/ Registered \/ \E a \in Attempts : RemoveManifest(a)

Next ==
    \/ \E a \in Attempts : \/ Claim(a) \/ Attempt(a) \/ Removal(a) \/ Reconcile(a)
                           \/ Sweep(a) \/ GroupExits(a)
    \/ \E a \in Edited : OperatorCleans(a) \/ EditByHand(a) \/ CommitByHand(a)
    \/ Start \/ Reconciled \/ Registration \/ Crash

Spec == Init /\ [][Next]_vars

(* The worker's goroutines run, its command is started again when it is    *)
(* down, and registration is periodic.  The registration lock is fair: an  *)
(* attempt that waits for it is not passed over for ever.                  *)
Fairness ==
    /\ \A a \in Attempts : SF_vars(Attempt(a)) /\ WF_vars(Removal(a)) /\ WF_vars(Reconcile(a))
    /\ WF_vars(Start) /\ WF_vars(Reconciled) /\ WF_vars(Registration)

FairSpec == Spec /\ Fairness

-----------------------------------------------------------------------------
(* Properties.                                                             *)

(* There are never more worktrees of a repository on a worker than it has  *)
(* slots, whatever was lost, crashed or cleaned up in between: the counts  *)
(* of ClaimAttempt (state.go:152-170) and what registrations report of     *)
(* them (store.go:1767-1833) never leave a worktree out.                   *)
SlotsBound ==
    Cardinality({a \in Attempts : tree[a].path \/ tree[a].listed}) <= Slots

(* Work that is nowhere else is kept: a commit that is not published keeps *)
(* its branch (reconcile.go:451-503), and uncommitted changes are removed  *)
(* only by a cleanup the operator confirmed (cleanup.go:106-129).          *)
WorkKept ==
    [][\A a \in Attempts :
         /\ branch[a] = "local" => branch'[a] # "none"
         /\ tree[a].dirty /\ ~tree'[a].path => manifest[a].intent = "operator"]_vars

(* A running worker gives a slot back only when it is through with the     *)
(* attempt: no registration carries a disposal or a retained worktree      *)
(* between its record and the answer to the completion                     *)
(* (attempt_lifecycle.go:848-862).                                         *)
AckAfterEnd ==
    \A a \in Attempts : worker = "serving" /\ served[a].ack => At(a, "idle")

(* While a process group lives that the manifest names, its worktree is    *)
(* not taken away and its attempt not forgotten (reconcile.go:82-106,      *)
(* attempt_lifecycle.go:765).  A group that was never named, because the   *)
(* worker died or failed before it could write that down, has not been     *)
(* told to start the agent (attempt_lifecycle.go:340); even so its         *)
(* worktree goes only to a cleanup the operator confirmed.                 *)
Closing(a) == manifest[a].life \in {"cleanup_started", "none"} \cup Gone
StoppedBeforeCleanup ==
    \A a \in Attempts :
        /\ group[a] = "known" => ~Closing(a)
        /\ group[a] = "new" /\ manifest[a] # NoManifest /\ Closing(a) => manifest[a].intent = "operator"

(* A healthy worker advertises every worktree it is not working in, so an  *)
(* operator can find it and the control plane counts it                    *)
(* (reconcile.go:250-274, attempt_lifecycle.go:919-967).                   *)
RetainedKnown ==
    \A a \in Attempts :
        worker = "serving" /\ ~fatal /\ tree[a].path /\ At(a, "idle") => a \in retained

(* The slots of a repository account for every worktree: none is left out, *)
(* forgotten, or given back too early.                                     *)
SlotsAccounted == SlotsBound /\ RetainedKnown /\ AckAfterEnd

(* Every attempt that left a trace on the worker's disk is settled: its    *)
(* slot comes back once it is over, unless the worker asks for help.       *)
SlotReturned ==
    \A a \in Attempts : Over(a) /\ manifest[a] # NoManifest ~> served[a].ack \/ fatal

(* Whatever stage the attempt was in, the identity check of a restarted    *)
(* worker accepts the manifest the same worker has written                 *)
(* (manifest_test.go:81 "between-stage handoff was not recoverable").      *)
HandoffRecovers ==
    \A a \in Attempts : manifest[a] # NoManifest => manifest[a].why # "identity"

(* A disposal that a registration is about to report is that of a manifest *)
(* it may then remove (ARCHITECTURE.md:364 "reconciles manifests,          *)
(* worktrees, and owned process groups after restart").                    *)
DisposalsRemovable ==
    \A a \in Attempts :
        worker = "serving" /\ registering = "send" /\ a \in disposed /\ manifest[a] # NoManifest
            => manifest[a].life \in Gone
=============================================================================
