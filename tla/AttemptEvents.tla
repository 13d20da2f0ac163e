---------------------------- MODULE AttemptEvents ----------------------------
(***************************************************************************)
(* The output of a runtime on its way to the event history of its attempt: *)
(* a bounded queue that is given up once it overflows, a sender that       *)
(* repeats one event until it is answered, and AppendEvents, which must    *)
(* know an event it has and refuse one that comes out of order.            *)
(*                                                                         *)
(* An event is its sequence number and the number of the line it carries.  *)
(* A line that is JSON is taken as it is and grows when it is encoded for  *)
(* the request, so that one within the limit can arrive beyond it.         *)
(***************************************************************************)
EXTENDS Naturals, Sequences

CONSTANTS QueueSize,   \* capacity of the sender's channel
          Budget,      \* events that fit into MaxAttemptEventBytes
          MaxLines,    \* bound: lines the runtime writes
          MaxLosses    \* bound: requests and answers that are lost or late

VARIABLES lines,       \* lines the runtime has written
          large,       \* those of them that are beyond MaxEventBytes once encoded
          queue, next, disabled, closed,   \* the sender's channel and its state
          overflow,    \* disabled because the channel was full
          sending,     \* events taken from the channel and not answered
          ended,       \* the sender's goroutine has returned
          wire,        \* copies of events on their way
          answer,      \* the answer the sender reads next
          events,      \* attempt_events
          active,      \* the attempt is active
          cancelled,   \* the attempt's context is cancelled
          losses

channel == <<lines, large, queue, next, disabled, closed, overflow>>
sender == <<sending, ended>>
network == <<wire, answer, losses>>
server == <<events, active>>
vars == <<channel, sender, network, server, cancelled>>

Seqs(n) == UNION {[1 .. k -> [sequence : 0 .. MaxLines, line : 1 .. MaxLines]] : k \in 0 .. n}

TypeOK ==
    /\ lines \in 0 .. MaxLines /\ large \subseteq 1 .. lines /\ next \in 0 .. MaxLines
    /\ queue \in Seqs(QueueSize) /\ sending \in Seqs(1) /\ events \in Seqs(Budget)
    /\ {disabled, closed, overflow, ended, active, cancelled} \subseteq BOOLEAN
    /\ wire \subseteq [sequence : 0 .. MaxLines, line : 1 .. MaxLines]
    /\ answer \in {"none", "ok", "refused"}
    /\ losses \in 0 .. MaxLosses

Init ==
    /\ lines = 0 /\ large = {} /\ queue = <<>> /\ next = 0
    /\ disabled = FALSE /\ closed = FALSE /\ overflow = FALSE
    /\ sending = <<>> /\ ended = FALSE
    /\ wire = {} /\ answer = "none" /\ losses = 0
    /\ events = <<>> /\ active = TRUE /\ cancelled = FALSE

Loss == losses < MaxLosses /\ losses' = losses + 1

-----------------------------------------------------------------------------
(* The attempt.                                                            *)

(* Mistake: a line that does not fit is left out, and the next is queued.  *)
FullSkips == /\ next' = next + 1 /\ UNCHANGED <<queue, disabled, overflow>>
(* A full channel ends the recording of the attempt.                       *)
Full == /\ disabled' = TRUE /\ overflow' = TRUE /\ UNCHANGED <<queue, next>>

Enqueue ==
    /\ lines < MaxLines /\ lines' = lines + 1 /\ large' \in {large, large \cup {lines'}}
    /\ IF disabled \/ closed THEN UNCHANGED <<queue, next, disabled, overflow>>
       ELSE IF Len(queue) < QueueSize
       THEN /\ queue' = Append(queue, [sequence |-> next, line |-> lines'])
            /\ next' = next + 1 /\ UNCHANGED <<disabled, overflow>>
       ELSE Full
    /\ UNCHANGED <<closed, sender, network, server, cancelled>>

Close ==
    /\ ~closed /\ closed' = TRUE
    /\ UNCHANGED <<lines, large, queue, next, disabled, overflow, sender, network, server, cancelled>>

(* The attempt's context ends with its stop.                               *)
Cancel ==
    /\ ~cancelled /\ cancelled' = TRUE
    /\ UNCHANGED <<channel, sender, network, server>>

AttemptEnds ==
    /\ active /\ active' = FALSE
    /\ UNCHANGED <<channel, sender, network, events, cancelled>>

-----------------------------------------------------------------------------
(* The sender's goroutine.                                                 *)

Take ==
    /\ ~ended /\ sending = <<>> /\ queue # <<>>
    /\ sending' = <<Head(queue)>> /\ queue' = Tail(queue)
    /\ wire' = IF cancelled THEN wire ELSE wire \cup {Head(queue)}
    /\ answer' = "none"
    /\ UNCHANGED <<lines, large, next, disabled, closed, overflow, ended, losses, server, cancelled>>

(* No answer within requestTimeout; the request may still arrive.          *)
SendAgain ==
    /\ ~ended /\ ~cancelled /\ sending # <<>> /\ answer = "none"
    /\ wire' = wire \cup {sending[1]}
    /\ UNCHANGED <<channel, sender, answer, losses, server, cancelled>>

Answered ==
    /\ ~ended /\ sending # <<>> /\ answer # "none"
    /\ answer' = "none" /\ sending' = <<>>
    /\ ended' = (answer = "refused") /\ disabled' = (disabled \/ answer = "refused")
    /\ UNCHANGED <<lines, large, queue, next, closed, overflow, wire, losses, server, cancelled>>

Return ==
    /\ ~ended /\ ended' = TRUE
    /\ \/ closed /\ queue = <<>> /\ sending = <<>>
       \/ cancelled /\ sending # <<>>
    /\ UNCHANGED <<channel, sending, network, server, cancelled>>

-----------------------------------------------------------------------------
(* AppendEvents, for a batch of one.                                       *)

Last == IF events = <<>> THEN 0 ELSE events[Len(events)].sequence + 1

(* Mistake: an event that is stored already is out of order.               *)
KnownNot(e) == FALSE
(* The same sequence with the same content: nothing to do.                 *)
Known(e) == \E i \in DOMAIN events : events[i] = e

(* After everything stored, and within MaxAttemptEventBytes.               *)
InOrder(e) == e.sequence >= Last /\ Len(events) < Budget

(* What is looked at before the transaction.                               *)
Valid(e) == e.line \notin large

(* The answer to e, which goes to the request the sender waits for.        *)
Reply(e, what) ==
    \/ answer' = (IF sending # <<>> /\ sending[1] = e THEN what ELSE answer) /\ UNCHANGED losses
    \/ UNCHANGED answer /\ Loss

(* A copy of the request that is late stays on the wire.                   *)
AppendEvent(e) ==
    /\ e \in wire
    /\ \/ wire' = wire \ {e}
       \/ wire' = wire
    /\ IF Valid(e) /\ active /\ (Known(e) \/ InOrder(e))
       THEN /\ events' = IF Known(e) THEN events ELSE Append(events, e)
            /\ Reply(e, "ok")
       ELSE Reply(e, "refused") /\ UNCHANGED events
    /\ UNCHANGED <<channel, sender, active, cancelled>>

LoseRequest(e) ==
    /\ e \in wire /\ wire' = wire \ {e} /\ Loss
    /\ UNCHANGED <<channel, sender, answer, server, cancelled>>

(* Nothing is left to write or to send.                                    *)
Done == lines = MaxLines /\ ended /\ UNCHANGED vars

Next ==
    \/ Enqueue \/ Close \/ Cancel \/ AttemptEnds
    \/ Take \/ SendAgain \/ Answered \/ Return
    \/ \E e \in wire : AppendEvent(e) \/ LoseRequest(e)
    \/ Done

Spec == Init /\ [][Next]_vars

Serves == \E e \in wire : AppendEvent(e)

(* The goroutine goes on and the control plane answers.                    *)
Fairness == /\ WF_vars(Take) /\ WF_vars(SendAgain) /\ WF_vars(Answered)
            /\ WF_vars(Return) /\ WF_vars(Serves)

FairSpec == Spec /\ Fairness

-----------------------------------------------------------------------------
(* Properties.                                                             *)

(* The history of an attempt is the beginning of what its runtime wrote:   *)
(* no line is missing, repeated or moved, however often a request was sent *)
(* and however late it came (events.go:35-50, state.go:573-594).           *)
HistoryIsPrefix ==
    \A i \in DOMAIN events : events[i] = [sequence |-> i - 1, line |-> i]

(* What was queued arrives, up to the first line that is refused for its   *)
(* size, unless the attempt ended or was stopped or the history is full: a *)
(* lost answer is no reason (events.go:67-101).  docs/worker.md:186-187    *)
(* says that oversized output is truncated; the line that grows beyond the *)
(* limit ends the history instead (events.go:82-86, state.go:538).         *)
Sendable == {n \in 1 .. next : (1 .. n) \cap large = {}}

QueuedArrives ==
    closed ~> \/ \A n \in Sendable : n <= Len(events)
              \/ Len(events) = Budget \/ ~active \/ cancelled
=============================================================================
