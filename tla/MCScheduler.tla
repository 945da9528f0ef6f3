----------------------------- MODULE MCScheduler -----------------------------
(* Small workflows for Scheduler.  Nodes are numbers in the order of their *)
(* ids; an edge d -> n is written d in Needs[n].                           *)
EXTENDS Scheduler, TLC

CONSTANT null

NoJoin  == [n \in Node |-> "none"]
NoVotes == [n \in Node |-> 0]
OneTry  == [n \in Node |-> 1]
TwoTries == [n \in Node |-> 2]

(* 1 -> 2                                                                  *)
Edge == [n \in Node |-> IF n = 2 THEN {1} ELSE {}]

(* 1 -> 2 -> 3                                                             *)
Chain == [n \in Node |-> IF n = 1 THEN {} ELSE {n - 1}]

(* 1 -> 3 -> 2: 3 joins {1} under "all_settled" and 2 joins {3} under      *)
(* "all".                                                                  *)
Sequel     == [n \in Node |-> CASE n = 1 -> {} [] n = 2 -> {3} [] n = 3 -> {1}]
SequelJoin == [n \in Node |-> CASE n = 1 -> "none" [] n = 2 -> "all"
                               [] n = 3 -> "all_settled"]

(* 4 joins the reserves and voters 1, 2 and 3.                             *)
Vote     == [n \in Node |-> IF n = 4 THEN {1, 2, 3} ELSE {}]
VoteJoin == [n \in Node |-> IF n = 4 THEN "quorum" ELSE "none"]
Majority == [n \in Node |-> IF n = 4 THEN 2 ELSE 0]

(* 4 joins voters 2 and 3, of which one is enough; voter 3 needs 1.        *)
Relay     == [n \in Node |-> CASE n = 3 -> {1} [] n = 4 -> {2, 3} [] OTHER -> {}]
FirstVote == [n \in Node |-> IF n = 4 THEN 1 ELSE 0]
=============================================================================
