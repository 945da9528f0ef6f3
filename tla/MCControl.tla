------------------------------- MODULE MCControl -------------------------------
(* Small workflows for Control.  Nodes are numbers in the order of their   *)
(* ids; only what a workflow is about is spelled out.                      *)
EXTENDS Control, TLC

CONSTANT null

(* A required reader with one output, one attempt and one acceptable value. *)
Plain ==
  [kind |-> "agent", needs |-> {}, required |-> TRUE, permission |-> "read",
   effect |-> "none", keyed |-> FALSE, tries |-> 1, inputs |-> <<>>,
   outputs |-> {"out"}, join |-> null, votes |-> 0, loop |-> null,
   route |-> null, repair |-> <<>>, checks |-> {"ok"}, scopes |-> {},
   workspace |-> "run", approval |-> null, verification |-> null,
   authority |-> null, profile |-> null, deployment |-> null,
   fallback |-> <<>>, gating |-> FALSE, operation |-> null,
   answers |-> {"no"}, ails |-> {}, timed |-> FALSE, patience |-> 1,
   max_checks |-> null]

(* The same with an input from each of the nodes it needs.                 *)
Using(S) == [Plain EXCEPT !.needs = S,
                          !.inputs = [p \in S |-> <<p, "out">>]]

Error == [check |-> null, digest |-> "error"]
Red(k) == [check |-> k, digest |-> k]

Flow(nodes, outputs, total) ==
  [nodes |-> nodes, outputs |-> {<<n, "out">> : n \in outputs}, policy |-> FALSE,
   budgets |-> [max_nodes |-> 9, max_concurrency |-> 2,
                max_attempts_per_node |-> 9, max_total_attempts |-> total],
   lifecycle |-> FALSE]

Twice(target) == [target |-> target, output |-> "out", iterations |-> 2]

(* 1 -> 2 -> 3 -> 4, where 3 may send the run back to 1 once, and 2 runs   *)
(* only if 1 says so.                                                      *)
LoopFlow(total) ==
  Flow((1 :> [Plain EXCEPT !.tries = 2, !.answers = {"yes", "no", "odd"}])
    @@ (2 :> [Using({1}) EXCEPT !.tries = 2, !.route = <<1, "out">>])
    @@ (3 :> [Using({2}) EXCEPT !.tries = 2, !.loop = Twice(1),
                                !.answers = {"yes", "no"}, !.ails = {Error}])
    @@ (4 :> Using({3})), {4}, total)

(* 1 -> 2 -> 3: 2 is an inner controller of 3, and both send back to 1.    *)
Nested == Flow(
  (1 :> [Plain EXCEPT !.tries = 2])
    @@ (2 :> [Using({1}) EXCEPT !.tries = 2, !.loop = Twice(1), !.answers = {"yes", "no"}])
    @@ (3 :> [Using({2}) EXCEPT !.tries = 2, !.loop = Twice(1), !.answers = {"yes", "no", "odd"}]),
  {3}, 8)

(* The same where the inner controller, 3, comes after the outer one.      *)
OuterFirst == Flow(
  (1 :> [Plain EXCEPT !.tries = 2])
    @@ (2 :> [Using({3}) EXCEPT !.tries = 2, !.loop = Twice(1), !.answers = {"yes", "no"}])
    @@ (3 :> [Using({1}) EXCEPT !.tries = 2, !.loop = Twice(1), !.answers = {"yes", "no"}]),
  {2}, 8)

(* 1 -> 2 and 1 -> 3, both controllers of 1.                               *)
Siblings == Flow(
  (1 :> [Plain EXCEPT !.tries = 2, !.timed = TRUE])
    @@ (2 :> [Using({1}) EXCEPT !.tries = 2, !.loop = Twice(1), !.answers = {"yes", "no"}])
    @@ (3 :> [Using({1}) EXCEPT !.tries = 2, !.loop = Twice(1), !.answers = {"yes", "no"}]),
  {2, 3}, 8)

(* Writers 1 and 2 are integrated by 3, whose checks "a" and "b" blame one *)
(* of them each; 4 publishes the result.                                   *)
Writer == [Plain EXCEPT !.permission = "write", !.effect = "idempotent_write",
                        !.keyed = TRUE, !.outputs = {"changeset"},
                        !.workspace = "worktree", !.tries = 3]
Back(check, n) == [checks |-> {check}, targets |-> {[node |-> n, input |-> "evidence"]},
                   rounds |-> 2, patience |-> 2]
Integrator(ws) ==
  [Plain EXCEPT !.kind = "integration", !.needs = ws, !.tries = 5,
                !.inputs = [n \in ws |-> <<n, "changeset">>],
                !.checks = {"a", "b"}, !.patience = 3, !.max_checks = 4,
                !.ails = {Red("a"), Red("b")},
                !.repair = <<Back("a", 1), Back("b", 2)>>]
RepairFlow(total) ==
  Flow((1 :> [Writer EXCEPT !.scopes = {"x"}, !.timed = TRUE])
    @@ (2 :> [Writer EXCEPT !.scopes = {"y"}, !.required = TRUE])
    @@ (3 :> Integrator({1, 2})), {3}, total)

(* The same where another node also reads what 2 wrote.                    *)
Fanout ==
  Flow((1 :> [Writer EXCEPT !.scopes = {"x"}])
    @@ (2 :> [Writer EXCEPT !.scopes = {"y"}])
    @@ (3 :> Integrator({1, 2}))
    @@ (4 :> [Plain EXCEPT !.needs = {2}, !.inputs = <<<<2, "changeset">>>>]),
  {3, 4}, 12)

(* 1 -> 2 -> 3, where 1 is optional and decides whether 2 runs.            *)
Optional == Flow(
  (1 :> [Plain EXCEPT !.required = FALSE, !.ails = {Error}, !.tries = 2,
                      !.timed = TRUE, !.answers = {"yes", "no"}])
    @@ (2 :> [Plain EXCEPT !.needs = {1}, !.route = <<1, "out">>])
    @@ (3 :> [Using({2}) EXCEPT !.join = "all"]), {3}, 4)

(* 1 -> 2 -> 3: policy-bound medium-risk work, its verifier, which reads    *)
(* raw evidence of 1, and a reader of both.                                *)
Charged(node, verification) ==
  [node EXCEPT !.profile = "p", !.verification = verification,
     !.authority = [profile |-> "p", capabilities |-> {"read", "structured_output"},
                    scopes |-> {}, effects |-> {}, targets |-> {}, approvals |-> {}]]
Low == [risk |-> "low", verifiers |-> {}, raw |-> {}, approval |-> null]
Medium == [Low EXCEPT !.risk = "medium", !.raw = {"out"},
                      !.verifiers = {[node |-> 2, lens |-> "tests", evidence |-> {1}]}]
VerifiedFlow(required) ==
  [Flow((1 :> Charged([Plain EXCEPT !.tries = 2, !.ails = {Error}], Medium))
     @@ (2 :> Charged([Using({1}) EXCEPT !.gating = TRUE, !.required = required,
                                         !.ails = {Red("ok")}], Low))
     @@ (3 :> Charged([Plain EXCEPT !.needs = {1, 2}], Low)), {3}, 4)
   EXCEPT !.policy = TRUE]

Accepting == {LoopFlow(7), Nested, OuterFirst, Siblings, RepairFlow(11),
              Optional, VerifiedFlow(TRUE)}
Refused   == {LoopFlow(6), RepairFlow(10), Fanout, VerifiedFlow(FALSE)}

ASSUME \A w \in Accepting : Accepted(w)

Mixed == Accepting \cup Refused

(* LoopFlow with a lifecycle journal.                                      *)
JournalFlow == {[LoopFlow(8) EXCEPT !.lifecycle = TRUE]}
=============================================================================
