---------------------------- MODULE MCTaskPolling ----------------------------
(* Two Tasks under the loop of the scheduler; their cron fires every tick.   *)
EXTENDS TaskPolling, TLC

CONSTANTS t1, t2, everyTick

NextOf == [c \in Cron |-> [n \in 0 .. Horizon |-> n + 1]]
=============================================================================
