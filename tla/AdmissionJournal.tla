-------------------------- MODULE AdmissionJournal --------------------------
(***************************************************************************)
(* The request-key journal of the factory command line: how `factory       *)
(* build` and `factory run` make an admission safe to repeat.  A command   *)
(* without --request-key locks the scope of its inputs, takes the pending  *)
(* key of that scope from the journal or writes a new one to disk, posts   *)
(* one request, prints the answer, and only then removes the key.          *)
(*                                                                         *)
(* The control plane is the part of AdmitBuild the journal depends on: the *)
(* replay by key, then the guards on the Work of the same source.          *)
(***************************************************************************)
EXTENDS Naturals, FiniteSets

CONSTANTS Commands,      \* processes of the command line, run again and again
          Sources,       \* work items a command can name
          RandomKeys,    \* what randomRequestKey can return, each once
          ExplicitKeys,  \* values of --request-key
          MaxPending,    \* maxPendingAdmissions
          MaxStarts,     \* bound: invocations of the command line
          NoOne          \* no command, no key

(* The caller fingerprint of one endpoint: what the command asks for.      *)
Scopes == [source : Sources, rebuild : BOOLEAN]
Keys == RandomKeys \cup ExplicitKeys
Results == {"admitted", "replayed", "rejected"}
Live == {"active", "needs-input"}
Terminal == {"ready", "failed"}

VARIABLES cmd,       \* the invocation each process is in
          lock,      \* the holder of each scope's lock file
          journal,   \* the entries of pending.json
          durable,   \* the entries that survive a power loss
          requests,  \* the requests the server has not answered
          runs,      \* the Runs admitted: key, scope and the state of the Work
          enabled,   \* the repository is managed and enabled
          used,      \* random keys drawn so far
          reported,  \* answers printed and flushed: key, scope and result
          starts     \* invocations so far

vars == <<cmd, lock, journal, durable, requests, runs, enabled, used, reported, starts>>
server == <<requests, runs, enabled>>
disk == <<journal, durable, used>>

Entry == [scope : Scopes, key : RandomKeys]
Request == [from : Commands \cup {NoOne}, key : Keys, scope : Scopes]
Run == [key : Keys, scope : Scopes, state : Live \cup Terminal]
Report == [key : Keys, scope : Scopes, result : Results]

Idle == [pc |-> "idle"]
Invocation ==
    [pc : {"lock", "load", "send", "sent", "answered", "waiting", "print", "clear"},
     scope : Scopes, key : Keys \cup {NoOne}, wait : BOOLEAN,
     result : Results \cup {NoOne}]

TypeOK ==
    /\ cmd \in [Commands -> Invocation \cup {Idle}]
    /\ lock \in [Scopes -> Commands \cup {NoOne}]
    /\ journal \subseteq Entry /\ durable \subseteq Entry
    /\ requests \subseteq Request
    /\ runs \subseteq Run
    /\ enabled \in BOOLEAN
    /\ used \subseteq RandomKeys
    /\ reported \subseteq Report
    /\ starts \in 0 .. MaxStarts

Init ==
    /\ cmd = [c \in Commands |-> Idle]
    /\ lock = [s \in Scopes |-> NoOne]
    /\ journal = {} /\ durable = {} /\ used = {}
    /\ requests = {} /\ runs = {} /\ enabled = TRUE
    /\ reported = {}
    /\ starts = 0

-----------------------------------------------------------------------------
(* One invocation.                                                         *)

Go(c, pc) == cmd' = [cmd EXCEPT ![c].pc = pc]
Implicit(c) == cmd[c].key \notin ExplicitKeys

(* The process ends, whatever the reason: the system releases its lock, and *)
(* a request it has sent goes on without it.                               *)
Exit(c) ==
    /\ cmd' = [cmd EXCEPT ![c] = Idle]
    /\ lock' = [s \in Scopes |-> IF lock[s] = c THEN NoOne ELSE lock[s]]
    /\ requests' = {IF r.from = c THEN [r EXCEPT !.from = NoOne] ELSE r : r \in requests}

(* writeAdmissionJournal: a temporary file, synced, renamed over the       *)
(* journal, and the directory synced.  A failure before the rename leaves  *)
(* the old journal; one after it leaves the new one, not yet durable.      *)
WriteSucceeds(entries) == journal' = entries /\ durable' = entries
WriteFails(entries) ==
    /\ durable' = durable
    /\ journal' \in {journal, entries}

Start(c, s, k, w) ==
    /\ cmd[c].pc = "idle"
    /\ starts < MaxStarts
    /\ starts' = starts + 1
    /\ cmd' = [cmd EXCEPT ![c] =
                 [pc |-> IF k = NoOne THEN "lock" ELSE "send",
                  scope |-> s, key |-> k, wait |-> w, result |-> NoOne]]
    /\ UNCHANGED <<lock, disk, server, reported>>

(* prepareImplicitAdmission: the lock of the scope, without waiting.       *)
LockScope(c) ==
    /\ cmd[c].pc = "lock"
    /\ \/ /\ lock[cmd[c].scope] = NoOne
          /\ lock' = [lock EXCEPT ![cmd[c].scope] = c]
          /\ Go(c, "load")
          /\ UNCHANGED requests
       \/ lock[cmd[c].scope] # NoOne /\ Exit(c)
    /\ UNCHANGED <<disk, runs, enabled, reported, starts>>

(* The key of the scope's pending entry.                                   *)
ReusePending(c) ==
    /\ cmd[c].pc = "load"
    /\ \E e \in journal :
         /\ e.scope = cmd[c].scope
         /\ cmd' = [cmd EXCEPT ![c].pc = "send", ![c].key = e.key]
    /\ UNCHANGED <<lock, disk, server, reported, starts>>

(* A new entry, when the scope has none and the journal is not full.  No   *)
(* request is sent before the entry is on disk.                            *)
CreatePending(c) ==
    /\ cmd[c].pc = "load"
    /\ \A e \in journal : e.scope # cmd[c].scope
    /\ Cardinality(journal) < MaxPending
    /\ \E k \in RandomKeys \ used :
         LET entries == journal \cup {[scope |-> cmd[c].scope, key |-> k]}
         IN  /\ used' = used \cup {k}
             /\ \/ /\ WriteSucceeds(entries)
                   /\ cmd' = [cmd EXCEPT ![c].pc = "send", ![c].key = k]
                   /\ UNCHANGED <<lock, requests>>
                \/ WriteFails(entries) /\ Exit(c)
    /\ UNCHANGED <<runs, enabled, reported, starts>>

(* The journal is full of uncertain requests: nothing is evicted.          *)
RefuseFullJournal(c) ==
    /\ cmd[c].pc = "load"
    /\ \A e \in journal : e.scope # cmd[c].scope
    /\ Cardinality(journal) >= MaxPending
    /\ Exit(c)
    /\ UNCHANGED <<disk, runs, enabled, reported, starts>>

Send(c) ==
    /\ cmd[c].pc = "send"
    /\ requests' = requests \cup {[from |-> c, key |-> cmd[c].key, scope |-> cmd[c].scope]}
    /\ Go(c, "sent")
    /\ UNCHANGED <<lock, disk, runs, enabled, reported, starts>>

(* Mistake: a failed request clears its entry like an answered one.        *)
GiveUpAndClear(c) ==
    /\ cmd[c].pc \in {"sent", "answered", "waiting"}
    /\ WriteSucceeds(journal \ {[scope |-> cmd[c].scope, key |-> cmd[c].key]})
    /\ Exit(c)
    /\ UNCHANGED <<used, runs, enabled, reported, starts>>

(* A malformed answer, or one that is not typed, ends the command with the *)
(* key still pending; so do a transport error and a timeout.               *)
GiveUp(c) ==
    /\ cmd[c].pc \in {"sent", "answered", "waiting"}
    /\ Exit(c)
    /\ UNCHANGED <<disk, runs, enabled, reported, starts>>

Work(c) == CHOOSE r \in runs : r.key = cmd[c].key

(* With --wait the result is not the admission but the end of the Run.     *)
ReadAnswer(c) ==
    /\ cmd[c].pc = "answered"
    /\ Go(c, IF cmd[c].wait /\ cmd[c].result # "rejected" THEN "waiting" ELSE "print")
    /\ UNCHANGED <<lock, disk, server, reported, starts>>

(* buildWaitResult: no exit code while the Work is neither settled nor     *)
(* waiting for an answer.                                                  *)
BuildWaitResult(state) ==
    CASE state = "needs-input" -> 2 [] state = "ready" -> 0 [] state = "failed" -> 1
      [] OTHER -> 3
Settled(c) ==
    /\ cmd[c].pc = "waiting"
    /\ BuildWaitResult(Work(c).state) # 3
    /\ Go(c, "print")
    /\ UNCHANGED <<lock, disk, server, reported, starts>>

(* The result is written and flushed, or the output fails.                 *)
PrintAnswer(c) ==
    /\ cmd[c].pc = "print"
    /\ \/ /\ reported' = reported \cup
                {[key |-> cmd[c].key, scope |-> cmd[c].scope, result |-> cmd[c].result]}
          /\ Go(c, "clear")
          /\ UNCHANGED <<lock, requests>>
       \/ Exit(c) /\ UNCHANGED reported
    /\ UNCHANGED <<disk, runs, enabled, starts>>

Pending(c) == [scope |-> cmd[c].scope, key |-> cmd[c].key]

(* lease.Complete, then lease.Release.                                     *)
Complete(c) ==
    /\ cmd[c].pc = "clear"
    /\ IF Implicit(c) /\ Pending(c) \in journal
       THEN WriteSucceeds(journal \ {Pending(c)}) \/ WriteFails(journal \ {Pending(c)})
       ELSE UNCHANGED <<journal, durable>>
    /\ Exit(c)
    /\ UNCHANGED <<used, runs, enabled, reported, starts>>

Kill(c) ==
    /\ cmd[c].pc # "idle"
    /\ Exit(c)
    /\ UNCHANGED <<disk, runs, enabled, reported, starts>>

-----------------------------------------------------------------------------
(* The control plane.                                                      *)

Take(r) == requests' = requests \ {r}

(* The answer reaches the command that still waits for it, or is lost.     *)
Reply(r, result) ==
    /\ Take(r)
    /\ \/ /\ r.from # NoOne
          /\ cmd' = [cmd EXCEPT ![r.from].pc = "answered", ![r.from].result = result]
          /\ UNCHANGED lock
       \/ IF r.from = NoOne THEN UNCHANGED <<cmd, lock>>
          ELSE /\ cmd' = [cmd EXCEPT ![r.from] = Idle]
               /\ lock' = [s \in Scopes |-> IF lock[s] = r.from THEN NoOne ELSE lock[s]]

Known(r) == {x \in runs : x.key = r.key}
WorkOf(s) == {x \in runs : x.scope.source = s.source}

(* selectBuildPredecessors: no live Work of the source, and a predecessor  *)
(* exactly when the request asks for a rebuild.                            *)
Admissible(s) ==
    /\ enabled
    /\ \A x \in WorkOf(s) : x.state \in Terminal
    /\ s.rebuild <=> WorkOf(s) # {}

(* The Run this key already admitted, before any other read; a key used    *)
(* with other inputs is a conflict.                                        *)
Replay(r) ==
    /\ r \in requests
    /\ \E x \in Known(r) : Reply(r, IF x.scope = r.scope THEN "replayed" ELSE "rejected")
    /\ UNCHANGED <<disk, runs, enabled, reported, starts>>

Admit(r) ==
    /\ r \in requests
    /\ Known(r) = {}
    /\ Admissible(r.scope)
    /\ runs' = runs \cup {[key |-> r.key, scope |-> r.scope, state |-> "active"]}
    /\ Reply(r, "admitted")
    /\ UNCHANGED <<disk, enabled, reported, starts>>

Reject(r) ==
    /\ r \in requests
    /\ Known(r) = {}
    /\ ~Admissible(r.scope)
    /\ Reply(r, "rejected")
    /\ UNCHANGED <<disk, runs, enabled, reported, starts>>

(* The connection of a command that is gone is noticed.                    *)
Abandon(r) ==
    /\ r \in requests /\ r.from = NoOne
    /\ Take(r)
    /\ UNCHANGED <<cmd, lock, disk, runs, enabled, reported, starts>>

WorkMoves ==
    /\ \E x \in runs, st \in Live \cup Terminal :
         /\ x.state \in Live /\ st # x.state
         /\ runs' = (runs \ {x}) \cup {[x EXCEPT !.state = st]}
    /\ UNCHANGED <<cmd, lock, disk, requests, enabled, reported, starts>>

ToggleRepository ==
    /\ enabled' = ~enabled
    /\ UNCHANGED <<cmd, lock, disk, requests, runs, reported, starts>>

Next ==
    \/ \E c \in Commands :
         \/ \E s \in Scopes, k \in ExplicitKeys \cup {NoOne}, w \in BOOLEAN : Start(c, s, k, w)
         \/ LockScope(c) \/ ReusePending(c) \/ CreatePending(c) \/ RefuseFullJournal(c)
         \/ Send(c) \/ GiveUp(c) \/ ReadAnswer(c) \/ Settled(c) \/ PrintAnswer(c) \/ Complete(c)
         \/ Kill(c)
    \/ \E r \in requests : Replay(r) \/ Admit(r) \/ Reject(r) \/ Abandon(r)
    \/ WorkMoves \/ ToggleRepository

Spec == Init /\ [][Next]_vars

-----------------------------------------------------------------------------
(* Properties.                                                             *)

(* An answer for this key was printed, a rejection as well as a Run.       *)
Told(k) == \E p \in reported : p.key = k

(* As long as the operator was told nothing of a random key that was sent, *)
(* it is in the journal for the next identical command: no kill, failed    *)
(* write, lost answer or full journal loses it (admission_journal.go:193,  *)
(* build.go:83).  Once a rejection was printed the key is given up, though *)
(* an earlier request with it that was late may still admit a Run.         *)
KeyKept ==
    \A x \in requests \cup runs :
        x.key \in RandomKeys /\ ~Told(x.key) =>
            [scope |-> x.scope, key |-> x.key] \in journal

(* ARCHITECTURE.md:422: the command "durably journals a random request key *)
(* before sending one HTTP request".                                       *)
DurableBeforeSend ==
    \A r \in requests :
        r.key \in RandomKeys /\ ~Told(r.key) =>
            [scope |-> r.scope, key |-> r.key] \in durable

(* However often an identical command is repeated after a failure, there   *)
(* is at most one Run more than answers the operator has read.             *)
OneRunPerAnswer ==
    \A s \in Scopes :
        Cardinality({x \in runs : x.scope = s /\ x.key \in RandomKeys})
            <= Cardinality({p.key : p \in {q \in reported : q.scope = s}}) + 1

(* The holder of a scope finds its own entry when it clears it: the error  *)
(* "disappeared before authoritative output was flushed" cannot happen.    *)
HolderFindsEntry ==
    \A c \in Commands : cmd[c].pc = "clear" /\ Implicit(c) => Pending(c) \in journal

(* The three things that let the operator repeat a command whose answer    *)
(* was lost: the key is there, it is found, and it stands for one Run.     *)
RepeatIsSafe == KeyKept /\ HolderFindsEntry /\ OneRunPerAnswer
=============================================================================
