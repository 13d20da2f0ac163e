------------------------ MODULE RecoveryPublication ------------------------
(***************************************************************************)
(* Backup and restore: a snapshot of a database is made in a private       *)
(* staging directory, checked, and linked to its destination together with *)
(* the marker without which no control plane opens it.  A command may fail *)
(* or be killed between any two steps, the machine may lose power, and the *)
(* next command for the destination clears up a half-made publication.     *)
(*                                                                         *)
(* A database at the source is its file (a number); a file at the          *)
(* destination is the command that staged it.  The file system keeps its   *)
(* directories in the order of their changes: after a loss of power they   *)
(* are as they were at some moment since the last sync, and files that     *)
(* were not synced are torn.  Owners, modes and symbolic links of paths    *)
(* are left out.                                                           *)
(***************************************************************************)
EXTENDS Naturals, FiniteSets

CONSTANTS Commands,    \* runs of the command, each with its staging directory
          Files,       \* the database files that stand at the source in turn
          Sound,       \* those with integrity, a known ledger and its schema
          Rivals,      \* commands for one destination may overlap
          MaxFaults,   \* bound: calls that fail, and kills
          MaxOutages,  \* bound: losses of power
          None         \* no file

VARIABLES source,           \* the file at the source
          db, marker,       \* what the two names of the destination link to
          staging,          \* the files in each staging directory
          past,             \* directories as a loss of power may leave them
          solid, torn,      \* staged files that are synced; that lost content
          unremoved,        \* commands that could not take a name of theirs back
          phase, round,     \* where a command is; its looks at the destination
          identity, opened, \* the file it validated, and the one it reads
          seen, target,     \* what it saw at the destination, whose directory it clears
          faults, outages

directory == <<db, marker, staging, past>>
content == <<solid, torn, unremoved>>
command == <<phase, round, identity, opened, seen, target>>
vars == <<source, directory, content, command, faults, outages>>

Names == {"db", "marker"}
Ends == {"published", "refused", "failed", "killed"}
Phases == {"unstarted", "open", "look", "recover", "unlink", "clear", "sync", "fresh", "stage",
           "validate", "syncStaged", "linkDb", "linkMarker", "undoMarker", "undoDb",
           "syncParent", "tidy", "tidyPublished"} \cup Ends

Here == [db |-> db, marker |-> marker, staging |-> staging]
(* Exactly one of the two names exists.                                    *)
Partial(d, m) == (d = None) # (m = None)

TypeOK ==
    /\ source \in Files
    /\ db \in Commands \cup {None} /\ marker \in Commands \cup {None}
    /\ staging \in [Commands -> SUBSET Names]
    /\ Here \in past
    /\ solid \subseteq Commands /\ torn \subseteq Commands /\ unremoved \subseteq Commands
    /\ phase \in [Commands -> Phases] /\ round \in [Commands -> 1 .. 2]
    /\ identity \in [Commands -> Files] /\ opened \in [Commands -> Files]
    /\ target \in [Commands -> Commands \cup {None}]
    /\ \A c \in Commands :
        /\ phase[c] \in {"recover", "unlink"} => (seen[c].db = None) # (seen[c].marker = None)
        /\ phase[c] \in {"unlink", "clear", "sync"} => target[c] # None
    /\ faults \in 0 .. MaxFaults /\ outages \in 0 .. MaxOutages

Init ==
    /\ source \in Files
    /\ db = None /\ marker = None /\ staging = [c \in Commands |-> {}]
    /\ past = {Here}
    /\ solid = {} /\ torn = {} /\ unremoved = {}
    /\ phase = [c \in Commands |-> "unstarted"] /\ round = [c \in Commands |-> 1]
    /\ identity = [c \in Commands |-> source] /\ opened = identity
    /\ seen = [c \in Commands |-> [db |-> None, marker |-> None]]
    /\ target = [c \in Commands |-> None]
    /\ faults = 0 /\ outages = 0

(* Integrity, the ledger of migrations and the schema are checked.         *)
Compatible(f) == f \in Sound

Running(c) == phase[c] \notin {"unstarted"} \cup Ends
Quiet == \A c \in Commands : ~Running(c)
Goes(c, to) == phase' = [phase EXCEPT ![c] = to]
(* A command goes on, with nothing but its place changed.                  *)
Only(c, to) ==
    /\ Goes(c, to)
    /\ UNCHANGED <<source, directory, content, round, identity, opened, seen, target, faults, outages>>

(* The directories change.                                                 *)
Linked(d, m, s) ==
    /\ db' = d /\ marker' = m /\ staging' = s
    /\ past' = past \cup {[db |-> d, marker |-> m, staging |-> s]}
Changes(c, to) ==
    /\ Goes(c, to)
    /\ UNCHANGED <<source, content, round, identity, opened, seen, target, faults, outages>>

(* syncDirectory of the parent: what is there now is there for good.       *)
Durable == past' = {Here}

-----------------------------------------------------------------------------
(* The source.                                                             *)

(* The operator puts another database in its place, never one that was     *)
(* there before: recoveryIdentity compares inodes at two moments, and a    *)
(* file that is put back between them is not seen to have been away.       *)
ReplaceSource ==
    /\ \E f \in Files : f > source /\ source' = f
    /\ UNCHANGED <<directory, content, command, faults, outages>>

(* validateRecoverySource.                                                 *)
Begin(c) ==
    /\ phase[c] = "unstarted" /\ (Rivals \/ Quiet)
    /\ Goes(c, "open") /\ identity' = [identity EXCEPT ![c] = source]
    /\ UNCHANGED <<source, directory, content, round, opened, seen, target, faults, outages>>

(* recoveryIdentity.unchanged.                                             *)
Unchanged(c) == identity[c] = source

(* The database is opened by its path, and checked.                        *)
OpenSource(c) ==
    /\ phase[c] = "open"
    /\ opened' = [opened EXCEPT ![c] = source]
    /\ Goes(c, IF Unchanged(c) /\ Compatible(source) THEN "look" ELSE "failed")
    /\ UNCHANGED <<source, directory, content, round, identity, seen, target, faults, outages>>

-----------------------------------------------------------------------------
(* The destination.                                                        *)

(* recoverInterruptedRecoveryPublication looks at the two names.           *)
Look(c) ==
    /\ phase[c] = "look"
    /\ seen' = [seen EXCEPT ![c] = [db |-> db, marker |-> marker]]
    /\ Goes(c, IF Partial(db, marker) THEN "recover" ELSE "fresh")
    /\ UNCHANGED <<source, directory, content, round, identity, opened, target, faults, outages>>

(* A staging directory that holds the same file, and its companion.        *)
Origin(c, d) == d \in {seen[c].db, seen[c].marker} /\ staging[d] = Names /\ d \notin torn

Recover(c) ==
    /\ phase[c] = "recover"
    /\ IF \E d \in Commands : Origin(c, d)
       THEN /\ \E d \in Commands : Origin(c, d) /\ target' = [target EXCEPT ![c] = d]
            /\ Goes(c, "unlink")
            /\ UNCHANGED <<source, directory, content, round, identity, opened, seen, faults, outages>>
       ELSE Only(c, "fresh")

(* The name that was seen is removed, whatever it links to by now.         *)
Unlink(c) ==
    /\ phase[c] = "unlink"
    /\ IF seen[c].marker = None THEN Linked(None, marker, staging) ELSE Linked(db, None, staging)
    /\ Changes(c, "clear")

(* os.RemoveAll takes the files of a directory one after the other.        *)
Removes(c, d, to) ==
    \/ staging[d] = {} /\ Only(c, to)
    \/ /\ \E name \in staging[d] : Linked(db, marker, [staging EXCEPT ![d] = @ \ {name}])
       /\ Changes(c, phase[c])

Clear(c) == phase[c] = "clear" /\ Removes(c, target[c], "sync")

SyncCleared(c) ==
    /\ phase[c] = "sync" /\ Durable /\ Goes(c, "fresh")
    /\ UNCHANGED <<source, db, marker, staging, content, round, identity, opened, seen, target, faults, outages>>

(* ensureFreshRecoveryDestination, before the staging and before the links.*)
Fresh(c) ==
    /\ phase[c] = "fresh"
    /\ IF db = None /\ marker = None
       THEN Only(c, IF round[c] = 1 THEN "stage" ELSE "linkDb")
       ELSE Only(c, IF round[c] = 1 THEN "refused" ELSE "tidy")

-----------------------------------------------------------------------------
(* publishSnapshot.                                                        *)

(* Its staging directory with the snapshot and the marker written.         *)
Snapshot(c) == [staging EXCEPT ![c] = Names]

Stage(c) ==
    /\ phase[c] = "stage"
    /\ Linked(db, marker, Snapshot(c)) /\ Changes(c, "validate")

(* validatePublishedBackup or prepareRestoredSnapshot, and unchanged.      *)
Validate(c) ==
    /\ phase[c] = "validate"
    /\ Only(c, IF Compatible(opened[c]) /\ Unchanged(c) THEN "syncStaged" ELSE "tidy")

(* syncRecoveryFile of both, and the staging directory.                    *)
Synced(c) == solid' = solid \cup {c}

SyncStaged(c) ==
    /\ phase[c] = "syncStaged" /\ Synced(c)
    /\ Goes(c, "look") /\ round' = [round EXCEPT ![c] = 2]
    /\ UNCHANGED <<source, directory, torn, unremoved, identity, opened, seen, target, faults, outages>>

(* os.Link never replaces, and needs the staged file.                      *)
LinkDb(c) ==
    /\ phase[c] = "linkDb"
    /\ IF db = None /\ "db" \in staging[c]
       THEN Linked(c, marker, staging) /\ Changes(c, "linkMarker")
       ELSE Only(c, "tidy")

LinkMarker(c) ==
    /\ phase[c] = "linkMarker"
    /\ IF marker = None /\ "marker" \in staging[c]
       THEN Linked(db, c, staging) /\ Changes(c, "syncParent")
       ELSE Only(c, "undoDb")

(* os.Remove goes by the name.                                             *)
UndoMarker(c) ==
    phase[c] = "undoMarker" /\ Linked(db, None, staging) /\ Changes(c, "undoDb")

(* Mistake: a failed publication leaves the database at the destination.   *)
LeavesDb == Linked(db, marker, staging)
RemovesDb == Linked(None, marker, staging)

UndoDb(c) == phase[c] = "undoDb" /\ RemovesDb /\ Changes(c, "tidy")

(* Mistake: the command returns before its links are durable.              *)
SyncParentLater(c) == phase[c] = "syncParent" /\ Only(c, "tidyPublished")
SyncParent(c) ==
    /\ phase[c] = "syncParent" /\ Durable /\ Goes(c, "tidyPublished")
    /\ UNCHANGED <<source, db, marker, staging, content, round, identity, opened, seen, target, faults, outages>>

(* The deferred removal of the staging directory, and the end.             *)
Tidy(c) ==
    \/ phase[c] = "tidy" /\ Removes(c, c, "failed")
    \/ phase[c] = "tidyPublished" /\ Removes(c, c, "published")

-----------------------------------------------------------------------------
(* Faults.                                                                 *)

Fault == faults < MaxFaults /\ faults' = faults + 1

Recovering == {"look", "recover", "unlink", "clear", "sync", "fresh"}

(* A call fails: the error returns through what undoes the steps before.   *)
(* Errors of the removal of a staging directory are dropped.               *)
Fails(c) ==
    /\ Fault
    /\ \/ phase[c] \in {"open"} \cup Recovering /\ round[c] = 1 /\ Goes(c, "failed")
       \/ phase[c] \in Recovering /\ round[c] = 2 /\ Goes(c, "tidy")
       \/ phase[c] \in {"stage", "validate", "syncStaged", "linkDb"} /\ Goes(c, "tidy")
       \/ phase[c] = "linkMarker" /\ Goes(c, "undoDb")
       \/ phase[c] = "syncParent" /\ Goes(c, "undoMarker")
       \/ phase[c] = "tidy" /\ Goes(c, "failed")
       \/ phase[c] = "tidyPublished" /\ Goes(c, "published")
    /\ UNCHANGED <<source, directory, content, round, identity, opened, seen, target, outages>>

(* os.Remove of a name fails, and the command goes on to remove the        *)
(* staging directory all the same.                                         *)
RemoveFails(c) ==
    /\ Fault /\ unremoved' = unremoved \cup {c}
    /\ \/ phase[c] = "undoMarker" /\ Goes(c, "undoDb")
       \/ phase[c] = "undoDb" /\ Goes(c, "tidy")
    /\ UNCHANGED <<source, directory, solid, torn, round, identity, opened, seen, target, outages>>

(* A kill, or an end of the process by itself, at any moment.              *)
Killed(c) ==
    /\ Running(c) /\ Fault /\ Goes(c, "killed")
    /\ UNCHANGED <<source, directory, content, round, identity, opened, seen, target, outages>>

Outage ==
    /\ outages < MaxOutages /\ outages' = outages + 1
    /\ \E was \in past :
        db' = was.db /\ marker' = was.marker /\ staging' = was.staging /\ past' = {was}
    /\ torn' = torn \cup {c \in Commands : phase[c] # "unstarted" /\ c \notin solid}
    /\ phase' = [c \in Commands |-> IF Running(c) THEN "killed" ELSE phase[c]]
    /\ UNCHANGED <<source, solid, unremoved, round, identity, opened, seen, target, faults>>

(* Nothing is left to run.                                                 *)
Done == (\A c \in Commands : phase[c] \in Ends) /\ UNCHANGED vars

Recovers(c) == Look(c) \/ Recover(c) \/ Unlink(c) \/ Clear(c) \/ SyncCleared(c) \/ Fresh(c)
Publishes(c) ==
    \/ Begin(c) \/ OpenSource(c) \/ Stage(c) \/ Validate(c) \/ SyncStaged(c) \/ LinkDb(c)
    \/ LinkMarker(c) \/ UndoMarker(c) \/ UndoDb(c) \/ SyncParent(c) \/ Tidy(c)

Next ==
    \/ \E c \in Commands : Recovers(c) \/ Publishes(c) \/ Fails(c) \/ RemoveFails(c) \/ Killed(c)
    \/ ReplaceSource \/ Outage \/ Done

Spec == Init /\ [][Next]_vars

-----------------------------------------------------------------------------
(* Properties.                                                             *)

(* A name at the destination links to a snapshot of the very database that *)
(* was validated, though the source is opened by its path and read for a   *)
(* while (recovery.go:397-410).                                            *)
SnapshotOfValidated ==
    \A c \in {db, marker} \ {None} : opened[c] = identity[c] /\ opened[c] \in Sound

(* Whatever was interrupted, what is left is nothing, a whole publication, *)
(* or half of one that the next command can tell is its own to clear       *)
(* (recovery.go:253-329).  The exception is a name whose removal failed:   *)
(* the error is dropped (recovery.go:153-158) and the staging directory    *)
(* removed, and every command that follows refuses the destination.        *)
Recoverable ==
    Quiet => \/ db = marker
             \/ \E c \in Commands : {db, marker} = {c, None} /\ staging[c] = Names /\ c \notin torn
             \/ \E c \in unremoved : {db, marker} = {c, None}

(* A publication that was reported stays, after a loss of power too.       *)
PublishedKept == \A c \in Commands : phase[c] = "published" => db = c /\ marker = c

(* A whole publication has its content.                                    *)
WholeIsSolid == db = marker => db \notin torn

(* What the two names of a publication promise together: the content that  *)
(* was validated, whole, and there to stay once the command has said so.   *)
PublicationHolds == SnapshotOfValidated /\ WholeIsSolid /\ PublishedKept /\ Recoverable
=============================================================================
