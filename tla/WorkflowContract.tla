--------------------------- MODULE WorkflowContract ---------------------------
(***************************************************************************)
(* contracts.validate_workflow and supervision.graph_shape_issues: which   *)
(* workflows the scheduler accepts.  A workflow is a record                *)
(*   [nodes |-> [id -> node], outputs |-> set of <<node, output>>,         *)
(*    policy |-> role_policy is bound, budgets |-> record]                 *)
(* Node ids are numbers, in the order in which the code sorts names; a     *)
(* binding "node.output" is a pair.  Every check of the code is a          *)
(* predicate that holds when the check adds no issue.  The resource and    *)
(* JSON-schema checks that come first, and the duplicate ids that a        *)
(* function cannot hold, are not modelled.                                 *)
(***************************************************************************)
EXTENDS Integers, FiniteSets, Sequences

CONSTANTS
  None,      \* an absent optional member
  Overlap    \* the pairs of write scopes for which _scopes_overlap holds

Ids(w) == DOMAIN w.nodes

Values(f) == {f[x] : x \in DOMAIN f}

(* The sum of the numbers f[x], counted one by one.                        *)
SumOver(S, f) == Cardinality(UNION {{x} \X (1 .. f[x]) : x \in S})

-----------------------------------------------------------------------------
(* The graph.                                                              *)

(* _ancestors: what is reached from n through needs, the least set that is *)
(* closed under them.                                                      *)
Ancestors(w, n) ==
  LET Closed(S) == /\ w.nodes[n].needs \subseteq S
                   /\ \A m \in S : w.nodes[m].needs \subseteq S
  IN  {m \in Ids(w) : \A S \in SUBSET Ids(w) : Closed(S) => m \in S}

Dependents(w, n) == {m \in Ids(w) : n \in w.nodes[m].needs}

(* _loop_region, and the region computed by validate_workflow.             *)
LoopRegion(w, n) ==
  LET target == w.nodes[n].loop.target
  IN  {target, n} \cup
        {m \in Ids(w) : target \in Ancestors(w, m) /\ m \in Ancestors(w, n)}

Kept(w) == {n \in Ids(w) : w.nodes[n].loop # None}

(* The queue of nodes whose known needs have all been visited.             *)
Visited(w) ==
  LET after[k \in Nat] ==
        IF k = 0 THEN {}
        ELSE {n \in Ids(w) : w.nodes[n].needs \cap Ids(w) \subseteq after[k - 1]}
  IN  after[Cardinality(Ids(w))]

NeedsResolve(w) == \A n \in Ids(w) : w.nodes[n].needs \subseteq Ids(w)

Acyclic(w) == Visited(w) = Ids(w)

Resolves(w, binding) ==
  /\ binding[1] \in Ids(w)
  /\ binding[2] \in w.nodes[binding[1]].outputs

BudgetsFitNodes(w) ==
  /\ Cardinality(Ids(w)) <= w.budgets.max_nodes
  /\ w.budgets.max_concurrency <= w.budgets.max_nodes
  /\ Cardinality(Ids(w)) <= w.budgets.max_total_attempts
  /\ \A n \in Ids(w) : w.nodes[n].tries <= w.budgets.max_attempts_per_node

-----------------------------------------------------------------------------
(* Authority and verification of a policy-bound workflow.                  *)

Pure(node) == node.effect \in {None, "none", "read"}

RequiredCapabilities(node) ==
  {"read", "structured_output"}
  \cup (IF node.workspace = "worktree" THEN {"worktree"} ELSE {})
  \cup (IF node.permission \in {"write", "destructive"}
        THEN {"write", "worktree"} ELSE {})
  \cup (IF node.permission = "external" THEN {"mcp"} ELSE {})

Approvals(node) ==
  ({node.approval} \cup
     IF node.verification = None THEN {} ELSE {node.verification.approval})
  \ {None}

(* The declared authority is exactly what the node uses, and a fallback    *)
(* changes nothing but its profile.                                        *)
AuthorityExact(node) ==
  /\ node.authority # None
  /\ node.authority.profile = node.profile
  /\ node.authority.capabilities = RequiredCapabilities(node)
  /\ node.authority.scopes = node.scopes
  /\ node.authority.effects = {node.effect} \ {None, "none"}
  /\ node.authority.targets = {node.deployment} \ {None}
  /\ node.authority.approvals = Approvals(node)
  /\ \A i \in DOMAIN node.fallback :
       node.fallback[i].authority =
         [node.authority EXCEPT !.profile = node.fallback[i].profile]

RiskTopology(v) ==
  \/ v.risk = "low" /\ v.verifiers = {} /\ v.approval = None
  \/ v.risk = "medium" /\ Cardinality(v.verifiers) = 1 /\ v.approval = None
  \/ v.risk = "high" /\ Cardinality(v.verifiers) >= 2 /\ v.approval # None

EvidenceDeclared(node) ==
  LET v == node.verification
  IN  /\ v.raw \subseteq node.outputs
      /\ v.verifiers # {} => v.raw # {}

(* A plausible mistake: the verifier may be optional.                      *)
VerifierBindsOptional(w, n, spec) ==
  /\ spec.node \in Ids(w) \ {n}
  /\ LET verifier == w.nodes[spec.node]
     IN  /\ n \in verifier.needs
         /\ verifier.gating
         /\ \A i \in spec.evidence : i \in DOMAIN verifier.inputs

(* A verifier is another agent behind the producer, is required, can only  *)
(* emit verdict "pass" (gating), and reads raw evidence of the producer.   *)
VerifierBinds(w, n, spec) ==
  /\ spec.node \in Ids(w) \ {n}
  /\ LET verifier == w.nodes[spec.node]
     IN  /\ verifier.kind = "agent"
         /\ n \in verifier.needs
         /\ verifier.required
         /\ verifier.gating
         /\ \A i \in spec.evidence :
              /\ i \in DOMAIN verifier.inputs
              /\ verifier.inputs[i][1] = n
              /\ verifier.inputs[i][2] \in w.nodes[n].verification.raw

VerifiersIndependent(v) ==
  \A a, b \in v.verifiers : a # b => a.node # b.node /\ a.lens # b.lens

(* The approval of high-risk work comes after all its verifiers.           *)
ApprovalGates(w, v) ==
  v.approval # None =>
    /\ v.approval \in Ids(w)
    /\ w.nodes[v.approval].kind = "approval"
    /\ w.nodes[v.approval].required
    /\ {spec.node : spec \in v.verifiers} \subseteq w.nodes[v.approval].needs

PolicyBound(w, n) ==
  LET node == w.nodes[n]
  IN  IF ~w.policy THEN node.authority = None /\ node.verification = None
      ELSE node.kind = "agent" =>
             /\ AuthorityExact(node)
             /\ node.verification # None
             /\ EvidenceDeclared(node)
             /\ RiskTopology(node.verification)
             /\ VerifiersIndependent(node.verification)
             /\ \A spec \in node.verification.verifiers : VerifierBinds(w, n, spec)
             /\ ApprovalGates(w, node.verification)

-----------------------------------------------------------------------------
(* Control edges.                                                          *)

OperationPure(node) ==
  node.operation # None =>
    /\ node.kind \in {"transform", "check"}
    /\ node.permission = "read"
    /\ Pure(node)
    /\ node.operation \in node.outputs

RouteUpstream(w, n) ==
  LET source == w.nodes[n].route
  IN  source # None => Resolves(w, source) /\ source[1] \in Ancestors(w, n)

(* A loop reopens a static region of replayable nodes, and every node of   *)
(* it may be attempted once in each iteration.                             *)
LoopReplayable(w, n) ==
  LET loop == w.nodes[n].loop
  IN  loop # None =>
        /\ loop.target \in Ids(w) \cap Ancestors(w, n)
        /\ loop.output \in w.nodes[n].outputs
        /\ \A m \in LoopRegion(w, n) :
             /\ Pure(w.nodes[m])
             /\ w.nodes[m].permission \notin {"external", "destructive"}
             /\ w.nodes[m].tries >= loop.iterations

(* A plausible mistake: only the ends of the region are counted.           *)
LoopExtraOfEnds(w) ==
  SumOver(Kept(w), [n \in Kept(w) |-> 2 * (w.nodes[n].loop.iterations - 1)])

LoopExtra(w) ==
  SumOver(Kept(w), [n \in Kept(w) |-> Cardinality(LoopRegion(w, n))
                                       * (w.nodes[n].loop.iterations - 1)])

(* loop_attempt_floor.                                                     *)
LoopFloor(w) == Cardinality(Ids(w)) + LoopExtra(w)

JoinSound(w, n) ==
  LET node == w.nodes[n]
  IN  node.join # None =>
        /\ node.needs # {}
        /\ node.join = "n_of_m" => node.votes <= Cardinality(node.needs)
        /\ node.join # "all" =>
             /\ \A m \in node.needs \cap Ids(w) : ~w.nodes[m].required
             /\ DOMAIN node.inputs = {}

FallbackReadOnly(node) ==
  node.fallback # <<>> =>
    /\ node.kind = "agent"
    /\ node.permission = "read"
    /\ Pure(node)
    /\ \A i, j \in DOMAIN node.fallback :
         /\ node.fallback[i].profile # node.profile
         /\ i # j => /\ node.fallback[i].id # node.fallback[j].id
                     /\ node.fallback[i].profile # node.fallback[j].profile

InputsOrdered(w, n) ==
  \A binding \in Values(w.nodes[n].inputs) :
    /\ Resolves(w, binding)
    /\ w.nodes[binding[1]].required
    /\ binding[1] \in Ancestors(w, n)

-----------------------------------------------------------------------------
(* Repair routes of an integration.                                        *)

Routes(w, n) == DOMAIN w.nodes[n].repair

TargetNodes(route) == {t.node : t \in route.targets}

Rounds(w, n) ==
  SumOver(Routes(w, n), [i \in Routes(w, n) |-> w.nodes[n].repair[i].rounds])

RoundsOf(w, n, target) ==
  LET mine == {i \in Routes(w, n) :
                 target \in TargetNodes(w.nodes[n].repair[i])}
  IN  SumOver(mine, [i \in mine |-> w.nodes[n].repair[i].rounds])

ReplaySafe(node) ==
  \/ node.effect \in {"none", "read"}
  \/ node.effect = "idempotent_write" /\ node.keyed

(* A plausible mistake: the producer may have other consumers.             *)
RepairTargetShared(w, n, t) ==
  /\ t.node \in Ids(w)
  /\ LET producer == w.nodes[t.node]
     IN  /\ <<t.node, "changeset">> \in Values(w.nodes[n].inputs)
         /\ producer.permission = "write"
         /\ ReplaySafe(producer)
         /\ producer.tries >= 1 + RoundsOf(w, n, t.node)

(* A repair reopens a required writer that only feeds the integration.     *)
RepairTarget(w, n, t) ==
  /\ t.node \in Ids(w)
  /\ LET producer == w.nodes[t.node]
     IN  /\ <<t.node, "changeset">> \in Values(w.nodes[n].inputs)
         /\ producer.kind = "agent"
         /\ producer.permission = "write"
         /\ producer.required
         /\ ReplaySafe(producer)
         /\ t.input \notin DOMAIN producer.inputs
         /\ Dependents(w, t.node) \subseteq {n}
         /\ producer.tries >= 1 + RoundsOf(w, n, t.node)

RepairSound(w, n) ==
  LET node == w.nodes[n]
  IN  node.repair # <<>> =>
        /\ node.kind = "integration"
        /\ \A i \in Routes(w, n) :
             LET route == node.repair[i]
             IN  /\ route.checks \subseteq node.checks
                 /\ \A j \in Routes(w, n) \ {i} :
                      route.checks \cap node.repair[j].checks = {}
                 /\ \A t, u \in route.targets : t.node = u.node => t = u
                 /\ \A t \in route.targets : RepairTarget(w, n, t)
        /\ node.tries >= 1 + Rounds(w, n)

RepairExtra(w) ==
  SumOver({n \in Ids(w) : w.nodes[n].kind = "integration"},
    [n \in Ids(w) |->
       SumOver(Routes(w, n),
         [i \in Routes(w, n) |->
            LET route == w.nodes[n].repair[i]
            IN  (Cardinality(route.targets) + 1) * route.rounds])])

(* The attempts of the worst case: every node once, every loop to its      *)
(* ceiling, every repair route to its last round.                          *)
BudgetCoversControl(w) ==
  w.budgets.max_total_attempts >= LoopFloor(w) + RepairExtra(w)

-----------------------------------------------------------------------------
(* Writers, outputs, and what contributes to them.                         *)

Writers(w) == {n \in Ids(w) :
                 w.nodes[n].permission \in {"write", "destructive"}}

WritersIsolated(w) ==
  \A n \in Writers(w) : /\ w.nodes[n].scopes # {}
                        /\ w.nodes[n].workspace = "worktree"

Conflicting(w, m, n) ==
  /\ m # n
  /\ m \notin Ancestors(w, n) /\ n \notin Ancestors(w, m)
  /\ \E a \in w.nodes[m].scopes, b \in w.nodes[n].scopes : <<a, b>> \in Overlap

(* Parallel writers of overlapping scopes meet in an integration.          *)
OverlapsJoined(w) ==
  \A m, n \in Writers(w) :
    Conflicting(w, m, n) =>
      \E i \in Ids(w) : /\ w.nodes[i].kind = "integration"
                        /\ {m, n} \subseteq Ancestors(w, i)

Producers(w) == {binding[1] : binding \in w.outputs}

OutputsResolve(w) == \A binding \in w.outputs : Resolves(w, binding)

Contributing(w) ==
  Producers(w) \cup UNION {Ancestors(w, n) : n \in Producers(w) \cap Ids(w)}

ApprovalUpstream(w, n) ==
  LET approval == w.nodes[n].approval
  IN  approval # None =>
        /\ approval \in Ids(w) \cap Ancestors(w, n)
        /\ w.nodes[approval].kind = "approval"

(* graph_shape_issues.                                                     *)
Shapely(w, n) ==
  LET node == w.nodes[n]
  IN  /\ node.kind # "integration" => Cardinality(node.outputs) <= 3
      /\ node.kind = "agent" /\ node.permission = "read" => node.outputs # {}
      /\ node.kind = "agent" => n \in Contributing(w)
      /\ node.join # None /\ Cardinality(node.needs) < 2 =>
           DOMAIN node.inputs # {}
      /\ node.kind = "integration" /\ node.join = None =>
           \A m \in node.needs \cap Ids(w) :
             ~w.nodes[m].required =>
               m \in {binding[1] : binding \in Values(node.inputs)}

NodeAccepted(w, n) ==
  /\ PolicyBound(w, n)
  /\ OperationPure(w.nodes[n])
  /\ RouteUpstream(w, n)
  /\ LoopReplayable(w, n)
  /\ JoinSound(w, n)
  /\ FallbackReadOnly(w.nodes[n])
  /\ InputsOrdered(w, n)
  /\ RepairSound(w, n)
  /\ w.nodes[n].required => n \in Contributing(w)
  /\ ApprovalUpstream(w, n)
  /\ Shapely(w, n)

(* validate_workflow returns without an issue.                             *)
Accepted(w) ==
  /\ NeedsResolve(w)
  /\ Acyclic(w)
  /\ BudgetsFitNodes(w)
  /\ \A n \in Ids(w) : NodeAccepted(w, n)
  /\ BudgetCoversControl(w)
  /\ WritersIsolated(w)
  /\ OverlapsJoined(w)
  /\ OutputsResolve(w)
=============================================================================
