----------------------------- MODULE MCRouting -----------------------------
(* A small instance of Routing: its workers are alike, and its repositories. *)
EXTENDS Routing, TLC

RoutingSymmetry == Permutations(Workers) \cup Permutations(Repositories)
=============================================================================
