-------------------------- MODULE WorkerEnrollment --------------------------
(***************************************************************************)
(* How a remote worker comes to its credential: it makes one, keeps it in  *)
(* a pending file, exchanges a one-time enrollment token for it, installs  *)
(* it under its final name and forgets the pending one.  The token is used *)
(* up by the first exchange, so the credential must survive a lost answer, *)
(* a kill and a loss of power anywhere on the way.  Files of older workers *)
(* (runner-credential) are adopted at the start.                           *)
(*                                                                         *)
(* One worker and one server.  past holds the states of the directory that *)
(* a loss of power may leave, as in RecoveryPublication.                   *)
(***************************************************************************)
EXTENDS Naturals

CONSTANTS Tokens,      \* enrollment tokens
          Credentials, \* credentials a worker may make
          Legacy,      \* a factory_runner_ credential
          MaxStops,    \* bound: kills of the process and losses of power
          MaxLosses,   \* bound: answers that are lost
          None         \* no token, no credential

VARIABLES token, used, digest,    \* worker_enrollments and remote_worker_credentials
          config, using,          \* enrollment_token on disk and in the process
          file, past,             \* the credential files
          made,                   \* credentials made so far
          phase, credential,      \* the process, and the credential it exchanges
          client,                 \* the credential its requests carry
          wire, answer,           \* exchanges under way, and the answer
          kills, outages, losses

server == <<token, used, digest>>
files == <<file, past>>
worker == <<using, phase, credential, client>>
faults == <<kills, outages, losses>>
vars == <<server, config, files, made, worker, wire, answer, faults>>

All == Credentials \cup {Legacy}
Some == All \cup {None}
Directory == [saved : Some, pending : Some, legacySaved : Some, legacyPending : Some]
Phases == {"down", "adoptSaved", "dropSaved", "adoptPending", "dropPending", "load", "forget",
          "enroll", "create", "sync", "send", "wait", "save", "clear", "end", "enrolled"}

TypeOK ==
    /\ token \in [Tokens -> {"unissued", "valid", "expired"}] /\ used \in [Tokens -> BOOLEAN]
    /\ digest \in Some /\ config \in Tokens /\ using \in Tokens \cup {None}
    /\ file \in Directory /\ past \subseteq Directory /\ file \in past
    /\ made \subseteq Credentials /\ phase \in Phases
    /\ credential \in Some /\ client \in Some
    /\ wire \subseteq Tokens \X All /\ answer \in {"none", "ok", "refused", "regenerate"}
    /\ phase = "enrolled" => client = file.saved /\ client # None /\ file.pending = None
    /\ kills + outages \in 0 .. MaxStops /\ losses \in 0 .. MaxLosses

Nothing == [saved |-> None, pending |-> None, legacySaved |-> None, legacyPending |-> None]

(* A new worker, or one with the files an older one left: enrolled, about  *)
(* to enroll, or enrolled without knowing.                                 *)
Init ==
    /\ token \in {[t \in Tokens |-> IF t = u THEN "valid" ELSE "unissued"] : u \in Tokens}
    /\ config = CHOOSE t \in Tokens : token[t] = "valid"
    /\ \/ file = Nothing /\ digest = None /\ used = [t \in Tokens |-> FALSE]
       \/ file = [Nothing EXCEPT !.legacySaved = Legacy] /\ digest = Legacy
          /\ used = [t \in Tokens |-> t = config]
       \/ file = [Nothing EXCEPT !.legacyPending = Legacy] /\ digest = None
          /\ used = [t \in Tokens |-> FALSE]
       \/ file = [Nothing EXCEPT !.legacyPending = Legacy] /\ digest = Legacy
          /\ used = [t \in Tokens |-> t = config]
    /\ past = {file} /\ made = {}
    /\ using = None /\ phase = "down" /\ credential = None /\ client = None
    /\ wire = {} /\ answer = "none" /\ kills = 0 /\ outages = 0 /\ losses = 0

Goes(to) == phase' = to
Writes(f) == file' = f /\ past' = past \cup {f}
(* What came before is durable, and then the directory changes.            *)
SyncsThenWrites(f) == file' = f /\ past' = {file, f}
Syncs == file' = file /\ past' = {file}

-----------------------------------------------------------------------------
(* The worker's files.                                                     *)

Start ==
    /\ phase = "down" /\ Goes("adoptSaved") /\ using' = config
    /\ credential' = None /\ client' = None /\ answer' = "none"
    /\ UNCHANGED <<server, config, files, made, wire, faults>>

OnlyFiles == UNCHANGED <<server, config, made, using, credential, client, wire, answer, faults>>

(* adoptLegacyWorkerCredentialFile: a link, and only then the removal.     *)
Adopt(name, old, from, drop, next) ==
    /\ OnlyFiles
    /\ \/ phase = from /\ (file[name] # None \/ file[old] = None) /\ Goes(next) /\ UNCHANGED files
       \/ /\ phase = from /\ file[name] = None /\ file[old] # None
          /\ Writes([file EXCEPT ![name] = file[old]]) /\ Goes(drop)
       \/ phase = drop /\ file[old] # None /\ SyncsThenWrites([file EXCEPT ![old] = None]) /\ UNCHANGED phase
       \/ phase = drop /\ file[old] = None /\ Syncs /\ Goes(next)

AdoptFiles ==
    \/ Adopt("saved", "legacySaved", "adoptSaved", "dropSaved", "adoptPending")
    \/ Adopt("pending", "legacyPending", "adoptPending", "dropPending", "load")

Load ==
    /\ phase = "load" /\ client' = file.saved
    /\ Goes(IF file.saved = None THEN "enroll" ELSE "forget")
    /\ UNCHANGED <<server, config, files, made, using, credential, wire, answer, faults>>

(* A pending file beside a credential is stale.                            *)
Forget ==
    /\ OnlyFiles
    /\ \/ phase = "forget" /\ file.pending # None /\ Writes([file EXCEPT !.pending = None]) /\ Goes("end")
       \/ phase = "forget" /\ file.pending = None /\ Goes("enrolled") /\ UNCHANGED files

Enroll ==
    /\ phase = "enroll" /\ credential' = file.pending
    /\ Goes(IF file.pending = None THEN "create" ELSE "send")
    /\ UNCHANGED <<server, config, files, made, using, client, wire, answer, faults>>

(* createPendingWorkerCredential; a removal before it has been synced.     *)
Create ==
    /\ phase = "create"
    /\ \E c \in Credentials \ made :
        /\ made' = made \cup {c} /\ credential' = c
        /\ SyncsThenWrites([file EXCEPT !.pending = c])
    /\ Goes("sync")
    /\ UNCHANGED <<server, config, using, client, wire, answer, faults>>

(* Mistake: the credential is sent before its file is durable.             *)
NotYetDurable == UNCHANGED files
DurableFirst == Syncs

SyncPending == phase = "sync" /\ DurableFirst /\ Goes("send") /\ OnlyFiles

Send ==
    /\ phase = "send" /\ Goes("wait")
    /\ wire' = wire \cup {<<using, credential>>} /\ answer' = "none"
    /\ UNCHANGED <<server, config, files, made, using, credential, client, faults>>

(* Run tries again after a transport error or one of the server's.         *)
Retry ==
    /\ phase = "wait" /\ answer = "none" /\ Goes("enroll")
    /\ UNCHANGED <<server, config, files, made, using, credential, client, wire, answer, faults>>

Answered ==
    /\ phase = "wait" /\ answer # "none" /\ answer' = "none"
    /\ CASE answer = "ok" -> Goes("save") /\ UNCHANGED files
         [] answer = "refused" -> Goes("down") /\ UNCHANGED files
         [] answer = "regenerate" -> Goes("create") /\ Writes([file EXCEPT !.pending = None])
    /\ UNCHANGED <<server, config, made, using, credential, client, wire, faults>>

(* The credential is installed, and then the pending file goes.            *)
Save ==
    /\ phase = "save" /\ Writes([file EXCEPT !.saved = credential]) /\ Goes("clear") /\ OnlyFiles

Clear ==
    /\ phase = "clear" /\ SyncsThenWrites([file EXCEPT !.pending = None])
    /\ client' = credential /\ Goes("end")
    /\ UNCHANGED <<server, config, made, using, credential, wire, answer, faults>>

End == phase = "end" /\ Syncs /\ Goes("enrolled") /\ OnlyFiles

-----------------------------------------------------------------------------
(* The server and its operator.                                            *)

Issue(t) ==
    /\ token[t] = "unissued" /\ token' = [token EXCEPT ![t] = "valid"] /\ config' = t
    /\ UNCHANGED <<used, digest, files, made, worker, wire, answer, faults>>

Expire(t) ==
    /\ token[t] = "valid" /\ token' = [token EXCEPT ![t] = "expired"]
    /\ UNCHANGED <<used, digest, config, files, made, worker, wire, answer, faults>>

(* Mistake: an expired token answers no repeated exchange.                 *)
RepeatedUnlessExpired(t, c) == used[t] /\ digest = c /\ token[t] = "valid"
(* The exchange that used the token, once more.                            *)
Repeated(t, c) == used[t] /\ digest = c

Installs(t, c) == ~used[t] /\ c # Legacy /\ token[t] = "valid"

Install(t, c) == used' = [used EXCEPT ![t] = TRUE] /\ digest' = c

(* ExchangeWorkerEnrollment.  The request may be there once more.          *)
Exchange(t, c) ==
    /\ <<t, c>> \in wire /\ (wire' = wire \/ wire' = wire \ {<<t, c>>})
    /\ IF Installs(t, c) THEN Install(t, c) ELSE UNCHANGED <<used, digest>>
    /\ \/ /\ phase = "wait" /\ <<t, c>> = <<using, credential>>
          /\ answer' = CASE Installs(t, c) \/ Repeated(t, c) -> "ok"
                         [] c = Legacy /\ ~used[t] -> "regenerate"
                         [] OTHER -> "refused"
          /\ UNCHANGED losses
       \/ ~(phase = "wait" /\ <<t, c>> = <<using, credential>>) /\ UNCHANGED <<answer, losses>>
       \/ losses < MaxLosses /\ losses' = losses + 1 /\ UNCHANGED answer
    /\ UNCHANGED <<token, config, files, made, worker, kills, outages>>

-----------------------------------------------------------------------------
(* Kills and losses of power.                                              *)

Kill ==
    /\ kills + outages < MaxStops /\ kills' = kills + 1 /\ phase # "down" /\ Goes("down")
    /\ UNCHANGED <<server, config, files, made, using, credential, client, wire, answer, outages, losses>>

Outage ==
    /\ kills + outages < MaxStops /\ outages' = outages + 1 /\ Goes("down")
    /\ \E was \in past : file' = was /\ past' = {was}
    /\ UNCHANGED <<server, config, made, using, credential, client, wire, answer, kills, losses>>

Runs ==
    \/ Start \/ AdoptFiles \/ Load \/ Forget \/ Enroll \/ Create \/ SyncPending \/ Send \/ Retry
    \/ Answered \/ Save \/ Clear \/ End

(* The worker goes on to its registration.                                 *)
Done == phase = "enrolled" /\ UNCHANGED vars

Exchanges == \E request \in wire : Exchange(request[1], request[2])

Next ==
    \/ Runs \/ Exchanges \/ Kill \/ Outage \/ Done
    \/ \E t \in Tokens : Issue(t) \/ Expire(t)

Spec == Init /\ [][Next]_vars

(* The process is started again and goes on; a request that is repeated    *)
(* often enough is answered within its timeout.                            *)
Answers == phase = "wait" /\ Exchange(using, credential)
Fairness == WF_vars(Runs) /\ SF_vars(Answers)
FairSpec == Spec /\ Fairness

-----------------------------------------------------------------------------
(* Properties.                                                             *)

(* The credential the server has is in a file of the worker, whatever a    *)
(* kill leaves there, and whatever a loss of power does: no exchange uses  *)
(* a token up for a credential that is gone (client.go:85-139).  A kill    *)
(* between a link and its sync and a loss of power after the next start    *)
(* are too much for it: see the README.                                    *)
Keeps(f) == digest \in Credentials => digest \in {f.saved, f.pending}
NeverLockedOut ==
    /\ outages = 0 => Keeps(file)
    /\ kills = 0 => \A f \in past : Keeps(f)

(* A credential under its final name is the one the server accepts, so the *)
(* worker may start with it and ask for nothing (worker_auth.go:122-130).  *)
(* The kill and the loss of power that lose a credential between them can  *)
(* leave a request for it on its way, which a second token then accepts.   *)
SavedIsAccepted ==
    kills = 0 \/ outages = 0 => \A f \in past : f.saved # None => f.saved = digest

(* The server and the worker's files name one credential.                 *)
CredentialsAgree == NeverLockedOut /\ SavedIsAccepted

(* An enrollment the server has accepted comes to its end, though the      *)
(* token expires, answers are lost and the worker is killed on the way, as *)
(* long as its token stays configured (worker_auth.go:91-103).             *)
AcceptedIsSaved ==
    [](outages = 0) /\ <>[]used[config] => <>[](phase = "enrolled" /\ client = digest)
=============================================================================
