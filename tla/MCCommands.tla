----------------------------- MODULE MCCommands -----------------------------
(***************************************************************************)
(* Instances of the three components whose commands are run again when     *)
(* they fail: AgentUpdates, what the agent runs in its worktree;           *)
(* AdmissionJournal, what the operator runs on a client; and               *)
(* RecoveryPublication, what the operator runs beside the server.  They    *)
(* share no variable, so one run explores them all: in a behaviour one     *)
(* part moves while the others stay where they started.                    *)
(***************************************************************************)
EXTENDS AgentUpdates, TLC

CONSTANTS Commands, Sources, RandomKeys, ExplicitKeys, MaxPending, MaxStarts,
          Files, Sound, Rivals, MaxFaults, MaxOutages

(* What randomRequestKey returns is no key an operator would choose.       *)
ASSUME KeysAssumption == RandomKeys \cap ExplicitKeys = {} /\ None \notin RandomKeys \cup ExplicitKeys
ASSUME CommandsAssumption == None \notin Commands

VARIABLES part,    \* the part that moves
          cmd, lock, journal, durable, requests, runs, enabled, used, reported, starts,
          source, db, marker, staging, past, solid, torn, unremoved, phase, round, identity, opened,
          seen, target, faults, outages

Journal == INSTANCE AdmissionJournal WITH NoOne <- None
Publication == INSTANCE RecoveryPublication

admitting == <<cmd, lock, journal, durable, requests, runs, enabled, used, reported, starts>>
publishing == <<source, db, marker, staging, past, solid, torn, unremoved, phase, round, identity,
                opened, seen, target, faults, outages>>

CommandsInit ==
    /\ Init /\ Journal!Init /\ Publication!Init
    /\ part \in {"updates", "admission", "publication"}
    /\ part # "publication" => \A f \in Files : source <= f

CommandsNext ==
    \/ part = "updates" /\ Next /\ UNCHANGED <<part, admitting, publishing>>
    \/ part = "admission" /\ Journal!Next /\ UNCHANGED <<part, vars, publishing>>
    \/ part = "publication" /\ Publication!Next /\ UNCHANGED <<part, vars, admitting>>

CommandsSpec == CommandsInit /\ [][CommandsNext]_<<part, vars, admitting, publishing>>

CommandSymmetry ==
    Permutations(Requests) \cup Permutations(Commands) \cup Permutations(RandomKeys)

(* Their properties, where a cfg can name them.                            *)
RepeatIsSafe == Journal!RepeatIsSafe
PublicationHolds == Publication!PublicationHolds
=============================================================================
