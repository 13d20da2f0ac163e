--------------------------- MODULE MCTaskScheduler ---------------------------
(* A Task with its edits; its cron fires at every second tick.               *)
EXTENDS TaskScheduler, TLC

CONSTANTS t1, everySecond

NextOf == [c \in Cron |-> [n \in 0 .. Horizon |-> 2 * (n \div 2) + 2]]
=============================================================================
