------------------------------- MODULE MCJobs -------------------------------
(* Small instances of Jobs for TLC. *)
EXTENDS Jobs, TLC

CONSTANTS c1, c2, j1, j2, j3

Symmetry == Permutations(Client) \cup Permutations(Job)
=============================================================================
