------------------------------ MODULE MCRunStore ------------------------------
(* RunStore on one node that is not replay safe, and two owner tokens.     *)
EXTENDS RunStore, TLC

CONSTANTS n1, t1, t2, null

(* Tokens are interchangeable.                                             *)
MCSymmetry == Permutations(Token)

(* runStatus and cancelRequested are written but never read by the store,  *)
(* and no property of the run reads them.                                  *)
MCView == <<clockVars, leaseVars, tableVars>>
=============================================================================
