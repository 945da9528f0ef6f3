------------------------------ MODULE MCTaskStore ------------------------------
(* TaskStore with two workers and two calls under way.                     *)
EXTENDS TaskStore, TLC

CONSTANTS w1, w2, null

(* Workers are interchangeable.                                            *)
MCSymmetry == Permutations(Worker)
=============================================================================
