----------------------------- MODULE MCOrchestrator -----------------------------
(***************************************************************************)
(* The portable runtime on small instances: what binds runs, receipts and  *)
(* forks together (Portable), or the worktrees of one run (Workspaces).    *)
(* The two share no state, so a behaviour is of one of them, chosen in its *)
(* first state, and the other stands still.                                *)
(***************************************************************************)
EXTENDS Portable, Workspaces, TLC

CONSTANTS p1, p2, a, b

VARIABLE part

(* Writers 1 and 2 may both write "g"; 3 integrates them.  Writer 1 has a  *)
(* fallback, and may write outside its scope.                              *)
MCScope == [n \in 1 .. 3 |-> IF n = 1 THEN {"g"} ELSE {"f", "g"}]
MCTries == [n \in 1 .. 3 |-> IF n = 2 THEN 1 ELSE 2]

(* What the proofs about Workspaces assume of its constants.               *)
ASSUME OneRunPerObject == WorkspacesAssumption

OrchestratorInit == part \in {"runs", "trees"} /\ Init /\ TreeInit

OrchestratorNext ==
  \/ part = "runs" /\ Next /\ UNCHANGED <<part, wsVars>>
  \/ part = "trees" /\ TreeNext /\ UNCHANGED <<part, vars>>

orchestratorVars == <<part, vars, wsVars>>
OrchestratorSpec == OrchestratorInit /\ [][OrchestratorNext]_orchestratorVars

(* Runtime objects are interchangeable, and so are identities.             *)
Symmetry == Permutations(Proc) \cup Permutations(Identity)
=============================================================================
