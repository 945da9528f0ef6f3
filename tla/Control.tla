-------------------------------- MODULE Control --------------------------------
(***************************************************************************)
(* The control edges of a workflow: conditional routes, bounded loops,     *)
(* repair routes, "all" joins and the progress budget of a node, as        *)
(* Scheduler.run (runtime.py) drives them and StateStore persists them.    *)
(* The workflow is any of Flows that validate_workflow accepts, so that    *)
(* what the validator refuses and what the runtime relies on are checked   *)
(* against each other.                                                     *)
(*                                                                         *)
(* One invocation of run() at a time: overlapping invocations and lost     *)
(* leases are the subject of module Scheduler.  The process may die        *)
(* between any two transactions and be resumed.  One transaction of the    *)
(* store is one step; a worker thread reads its inputs in a step of its    *)
(* own.  Cancellation, quorum joins and effects that are not replay-safe   *)
(* are in Scheduler and left out here.                                     *)
(***************************************************************************)
EXTENDS WorkflowContract

CONSTANTS
  Flows,      \* workflows; the nodes also say what their executors may do
  MaxCalls    \* invocations of run(): the first and the resumes

(* A node of Flows also has: answers, the values its accepted artifacts    *)
(* may hold; ails, the failures its attempts may end in; timed, whether    *)
(* its deadlines may pass; patience and max_checks, its no_progress_limit  *)
(* and max_deterministic_checks; and the workflow says whether its run has *)
(* a lifecycle journal.  Nodes are replay-safe, joins are "all", a         *)
(* verifier is declared with evidence to read (raw_evidence_inputs), and   *)
(* only an input that is not there fails an attempt as one.  The counts of *)
(* a workflow are the numbers that its schema asks for.                    *)
ASSUME ControlAssumption ==
  /\ IsFiniteSet(Flows)
  /\ MaxCalls \in Nat \ {0}
  /\ None \notin [digest : {"yes", "no"}, matched : BOOLEAN]
  /\ \A w \in Flows : /\ IsFiniteSet(Ids(w))
                       /\ w.budgets.max_concurrency \in Nat \ {0}
                       /\ w.budgets.max_total_attempts \in Nat
  /\ \A w \in Flows : \A n \in Ids(w) :
       LET node == w.nodes[n]
       IN  /\ n \in Nat
           /\ ReplaySafe(node)
           /\ node.join \in {None, "all"}
           /\ node.answers # {}
           /\ \A ail \in node.ails : ail.digest # "input"
           /\ node.loop # None => node.loop.iterations \in Nat \ {0}
           /\ IsFiniteSet(DOMAIN node.repair)
           /\ \A i \in DOMAIN node.repair :
                IsFiniteSet(node.repair[i].targets) /\ node.repair[i].rounds \in Nat
           /\ node.verification # None =>
                \A spec \in node.verification.verifiers : spec.evidence # {}

VARIABLES
  flow,      \* the workflow of the run
  run,       \* runs.status
  row,       \* the nodes rows, with the failure of the last attempt
  art,       \* the accepted artifact: attempt, value, and what it was made of
  progress,  \* the node_progress rows
  loops,     \* the loop_states rows of controllers
  routes,    \* the route_states rows of routed nodes
  repairs,   \* the repair_routes rows
  joins,     \* join_states.decision
  pc,        \* where run() is
  rows,      \* the statuses it works from
  todo,      \* the nodes the current pass has yet to visit
  active,    \* the attempts with a future, and the inputs their worker read
  moved,     \* progressed
  calls,     \* history: invocations so far
  blame      \* history: what has happened to the run

vars == <<flow, run, row, art, progress, loops, routes, repairs, joins,
          pc, rows, todo, active, moved, calls, blame>>

store == <<run, row, art, progress, loops, routes, repairs, joins>>

Node == Ids(flow)
Decl(n) == flow.nodes[n]

Feeds(n) == {binding[1] : binding \in Values(Decl(n).inputs)}

Status   == {"pending", "running", "succeeded", "failed", "optional_failed",
             "blocked", "skipped"}
Terminal == Status \ {"pending", "running"}
Good     == {"succeeded", "optional_failed"}
Lost     == {"failed", "blocked"}

Unmade == [attempt |-> 0, value |-> None, from |-> <<>>]

(* The node_progress row as it is inserted, with the budget of the node.   *)
Unobserved == [decision |-> "continue", artifact |-> None, digest |-> None,
               repeats |-> 0, checks |-> 0, late |-> FALSE]

Silent == [check |-> None, digest |-> None]
Fresh  == [n \in Node |-> row[n].status]

Init ==
  /\ flow \in {w \in Flows : Accepted(w)}
  /\ run = "running"
  /\ row = [n \in Node |-> [status |-> "pending", count |-> 0, digest |-> None,
                            repeats |-> 0, failure |-> Silent]]
  /\ art = [n \in Node |-> Unmade]
  /\ progress = [n \in Node |-> Unobserved]
  /\ loops = [n \in Kept(flow) |->
                [iterations |-> 0, attempt |-> 0, matched |-> FALSE]]
  /\ routes = [n \in {m \in Node : Decl(m).route # None} |-> None]
  /\ repairs = [n \in {m \in Node : Decl(m).repair # <<>>} |->
                  [i \in Routes(flow, n) |->
                     [rounds |-> 0, digest |-> None, repeats |-> 0]]]
  /\ joins = [n \in {m \in Node : Decl(m).join # None} |-> "waiting"]
  /\ pc = "down"
  /\ rows = [n \in Node |-> "pending"]
  /\ todo = {}
  /\ active = <<>>
  /\ moved = FALSE
  /\ calls = 0
  /\ blame = {}

Least(S) == CHOOSE n \in S : \A m \in S : n <= m

Attempts == SumOver(Node, [n \in Node |-> row[n].count])

SetStatus(n, status) == row' = [row EXCEPT ![n].status = status]

Blame(why) == blame' = blame \cup {why}

(* EVENT_TYPES: with a lifecycle journal, appending any other event raises *)
(* and its transaction is rolled back.                                     *)
EventTypes == {"node.pending", "node.running", "node.succeeded", "node.failed",
               "node.blocked", "node.optional_failed", "repair.routed",
               "join.decided", "progress.observed"}

Records(type) == flow.lifecycle => type \in EventTypes

-----------------------------------------------------------------------------
(* The passes of one iteration, in their order.  Each begins by reading    *)
(* the node rows and visits, in the order of their ids, nodes that these   *)
(* rows select.                                                            *)

ToRepair(R) == {n \in DOMAIN repairs : R[n] = "failed"}
ToLoop(R)   == {n \in DOMAIN loops : R[n] = "succeeded"}
ToRoute(R)  == {n \in DOMAIN routes : /\ R[n] = "pending"
                                      /\ R[Decl(n).route[1]] = "succeeded"}

ToBlock(R) == {n \in Node : /\ R[n] = "pending"
                            /\ IF n \in DOMAIN joins THEN joins[n] = "failed"
                               ELSE \E d \in Decl(n).needs : R[d] \in Lost}
ToSkip(R)  == {n \in Node \ (DOMAIN joins \cup ToBlock(R)) :
                 R[n] = "pending" /\ \E d \in Decl(n).needs : R[d] = "skipped"}

Ready(R) == {n \in Node \ DOMAIN active :
               /\ R[n] = "pending"
               /\ IF n \in DOMAIN joins THEN joins[n] = "succeeded"
                  ELSE \A d \in Decl(n).needs : R[d] \in Good}

Visits(pass, R) ==
  CASE pass = "repair"                -> ToRepair(R)
    [] pass \in {"loops", "reloop"}   -> ToLoop(R)
    [] pass \in {"routes", "reroute"} -> ToRoute(R)
    [] pass = "join"                  -> DOMAIN joins
    [] pass = "settle"                -> ToBlock(R) \cup ToSkip(R)
    [] pass = "dispatch"              -> Ready(R)
    [] OTHER                          -> {}

(* The settle pass works from the rows the joins were decided on.          *)
Begin(pass) ==
  LET R == IF pass = "settle" THEN rows ELSE Fresh
  IN  /\ pc' = pass
      /\ rows' = R
      /\ todo' = Visits(pass, R)

After(pass) ==
  CASE pass = "repair"   -> "loops"
    [] pass = "loops"    -> "routes"
    [] pass = "routes"   -> "join"
    [] pass = "join"     -> "settle"
    [] pass = "settle"   -> "dispatch"
    [] pass = "dispatch" -> "pop"
    [] pass = "reloop"   -> "reroute"
    [] pass = "reroute"  -> "reduce"

Passes == {"repair", "loops", "routes", "join", "settle", "dispatch",
           "reloop", "reroute"}

BudgetLeft == Attempts < flow.budgets.max_total_attempts

Room == Cardinality(DOMAIN active) < flow.budgets.max_concurrency /\ BudgetLeft

NextPass ==
  /\ pc \in Passes
  /\ todo = {} \/ (pc = "dispatch" /\ ~Room)
  /\ Begin(After(pc))
  /\ UNCHANGED <<store, flow, active, moved, calls, blame>>

Visit(n) == todo # {} /\ n = Least(todo) /\ todo' = todo \ {n}

Local == <<flow, pc, rows, active, moved, calls>>

-----------------------------------------------------------------------------
(* _try_repair and route_repair: the integration failed a check that a     *)
(* route names, rounds and attempts are left, and what it blames has been  *)
(* accepted.  Producers and integration are reopened in one transaction.   *)

Stuck(n, i) == IF repairs[n][i].digest # row[n].digest THEN 0
               ELSE repairs[n][i].repeats + 1

Repairable(n, i) ==
  LET route == Decl(n).repair[i]
  IN  /\ row[n].status = "failed"
      /\ row[n].failure.check \in route.checks
      /\ row[n].count < Decl(n).tries
      /\ repairs[n][i].rounds < route.rounds
      /\ Stuck(n, i) < route.patience
      /\ \A p \in TargetNodes(route) : /\ row[p].status = "succeeded"
                                       /\ row[p].count < Decl(p).tries

RouteRepair(n, i) ==
  LET reopened == {n} \cup TargetNodes(Decl(n).repair[i])
  IN  /\ repairs' = [repairs EXCEPT ![n][i] = [rounds |-> @.rounds + 1,
                                               digest |-> row[n].digest,
                                               repeats |-> Stuck(n, i)]]
      /\ art' = [m \in Node |-> IF m \in reopened THEN Unmade ELSE art[m]]
      /\ row' = [m \in Node |-> IF m \in reopened
                                THEN [row[m] EXCEPT !.status = "pending"]
                                ELSE row[m]]
      /\ run' = "running"
      /\ UNCHANGED <<progress, loops, routes, joins>>

TryRepair(n) ==
  IF \E i \in DOMAIN repairs[n] : Repairable(n, i)
  THEN \E i \in DOMAIN repairs[n] : Repairable(n, i) /\ RouteRepair(n, i)
  ELSE UNCHANGED store

(* The pass does not ask whether the progress budget said "stop".          *)
Repair(n) ==
  /\ pc = "repair"
  /\ Visit(n)
  /\ TryRepair(n)
  /\ UNCHANGED <<Local, blame>>

-----------------------------------------------------------------------------
(* A predicate on an artifact: "yes" matches, "no" does not, and on any    *)
(* other value the path or the predicate raises.                           *)
Evaluable(n) == art[n].attempt # 0 /\ art[n].value \in {"yes", "no"}
Matches(n)   == art[n].value = "yes"

(* A control edge that raises fails its node, whatever its status by now.  *)
FailClosed(n) ==
  /\ SetStatus(n, "failed")
  /\ UNCHANGED <<run, art, progress, loops, routes, repairs, joins>>

Malformed(p) == IF art[p].attempt = 0 THEN UNCHANGED blame
                ELSE Blame("malformed")

(* apply_loop_decision, once for each attempt of the controller.           *)

Decided(n) == loops[n].attempt = row[n].count

Iteration(n) == loops[n].iterations + 1

Checkpoint(n) == loops' = [loops EXCEPT ![n] = [iterations |-> Iteration(n),
                                                attempt |-> row[n].count,
                                                matched |-> Matches(n)]]

Exhausted(n) ==
  /\ art' = [art EXCEPT ![n] = Unmade]
  /\ row' = [row EXCEPT ![n].status = IF @ = "succeeded" THEN "failed" ELSE @]
  /\ UNCHANGED <<run, progress, routes, repairs, joins>>
  /\ Blame("ceiling")

(* A plausible mistake: the region keeps the decisions of its routes.      *)
ContinuedKeepingRoutes(n) ==
  LET region == LoopRegion(flow, n)
      In(m, new, old) == IF m \in region THEN new ELSE old
  IN  /\ art' = [m \in Node |-> In(m, Unmade, art[m])]
      /\ row' = [m \in Node |->
                   In(m, [row[m] EXCEPT !.status = "pending"], row[m])]
      /\ progress' = [m \in Node |->
                   In(m, [progress[m] EXCEPT !.decision = "continue"], progress[m])]
      /\ UNCHANGED <<run, routes, repairs, joins, blame>>

(* The region runs again; its join_states rows stay as they are.           *)
Continued(n) ==
  LET region == LoopRegion(flow, n)
      In(m, new, old) == IF m \in region THEN new ELSE old
  IN  /\ art' = [m \in Node |-> In(m, Unmade, art[m])]
      /\ routes' = [m \in DOMAIN routes |-> In(m, None, routes[m])]
      /\ row' = [m \in Node |->
                   In(m, [row[m] EXCEPT !.status = "pending"], row[m])]
      /\ progress' = [m \in Node |->
                   In(m, [progress[m] EXCEPT !.decision = "continue"], progress[m])]
      /\ UNCHANGED <<run, repairs, joins, blame>>

Loop(n) ==
  /\ pc \in {"loops", "reloop"}
  /\ Visit(n)
  /\ IF ~Evaluable(n) THEN FailClosed(n) /\ Malformed(n)
     ELSE IF Decided(n) THEN UNCHANGED <<store, blame>>
     ELSE IF ~Records("loop.decided") THEN FailClosed(n) /\ UNCHANGED blame
     ELSE /\ Checkpoint(n)
          /\ IF ~Matches(n)
             THEN UNCHANGED <<run, row, art, progress, routes, repairs, joins, blame>>
             ELSE IF Iteration(n) >= Decl(n).loop.iterations
             THEN Exhausted(n) ELSE Continued(n)
  /\ UNCHANGED Local

-----------------------------------------------------------------------------
(* record_route_decision: a decision once made may not change.             *)

Route(n) ==
  /\ pc \in {"routes", "reroute"}
  /\ Visit(n)
  /\ LET p        == Decl(n).route[1]
         decision == [digest |-> art[p].value, matched |-> Matches(p)]
     IN  IF ~Evaluable(p) THEN FailClosed(n) /\ Malformed(p)
         ELSE IF routes[n] = decision THEN UNCHANGED <<store, blame>>
         ELSE IF routes[n] # None \/ ~Records("route.decided")
         THEN FailClosed(n) /\ UNCHANGED blame
         ELSE /\ routes' = [routes EXCEPT ![n] = decision]
              /\ SetStatus(n, IF Matches(p) THEN "pending" ELSE "skipped")
              /\ IF Matches(p) THEN UNCHANGED blame ELSE Blame("unselected")
              /\ UNCHANGED <<run, art, progress, loops, repairs, joins>>
  /\ UNCHANGED Local

(* _join_snapshot of an "all" join, and record_join_state, which freezes   *)
(* the first decision.                                                     *)
JoinDecision(n, R) ==
  IF \E d \in Decl(n).needs : \/ R[d] \in Lost \cup {"skipped"}
                              \/ R[d] = "optional_failed" /\ Decl(d).required
  THEN "failed"
  ELSE IF \A d \in Decl(n).needs : R[d] \in Good THEN "succeeded" ELSE "waiting"

Join(n) ==
  /\ pc = "join"
  /\ Visit(n)
  /\ joins' = [joins EXCEPT ![n] = IF @ # "waiting" THEN @
                                   ELSE JoinDecision(n, rows)]
  /\ UNCHANGED <<run, row, art, progress, loops, routes, repairs, blame, Local>>

Block(n) ==
  /\ pc = "settle"
  /\ Visit(n)
  /\ n \in ToBlock(rows)
  /\ SetStatus(n, "blocked")
  /\ UNCHANGED <<run, art, progress, loops, routes, repairs, joins, blame, Local>>

Skip(n) ==
  /\ pc = "settle"
  /\ n \in ToSkip(rows)
  /\ Visit(n)
  /\ SetStatus(n, "skipped")
  /\ UNCHANGED <<run, art, progress, loops, routes, repairs, joins, blame, Local>>

-----------------------------------------------------------------------------
(* launch: admit_attempt and start_attempt.                                *)

Over(n) == progress[n].late \/ progress[n].decision = "stop"

Refuse(n) ==
  /\ pc = "dispatch"
  /\ Room
  /\ Visit(n)
  /\ Over(n)
  /\ progress' = [progress EXCEPT ![n].decision = "stop"]
  /\ SetStatus(n, "failed")
  /\ Blame("late")
  /\ UNCHANGED <<run, art, loops, routes, repairs, joins, Local>>

Unread == [missing |-> FALSE, from |-> None]

(* The pass ends early when a completion has arrived meanwhile.            *)
Start(n) ==
  /\ pc = "dispatch"
  /\ Room
  /\ todo # {} /\ n = Least(todo)
  /\ ~Over(n)
  /\ todo' \in {todo \ {n}, {}}
  /\ row' = [row EXCEPT ![n].status = "running", ![n].count = @ + 1,
                        ![n].failure = Silent]
  /\ active' = [m \in DOMAIN active \cup {n} |->
                  IF m = n THEN Unread ELSE active[m]]
  /\ UNCHANGED <<run, art, progress, loops, routes, repairs, joins,
                 flow, pc, rows, moved, calls, blame>>

(* A worker thread: _inputs reads the accepted artifacts of its producers. *)
Fetch(n) ==
  /\ n \in DOMAIN active
  /\ active[n] = Unread
  /\ active' = [active EXCEPT ![n] =
       [missing |-> \E p \in Feeds(n) : art[p].attempt = 0,
        from    |-> [p \in Feeds(n) |-> art[p].attempt]]]
  /\ UNCHANGED <<store, flow, pc, rows, todo, moved, calls, blame>>

-----------------------------------------------------------------------------
(* _finalize_attempt.  A future is popped, or its deadline has passed.     *)

(* next_progress_observation, on the checks that ran.                      *)
Observation(n, prior, artifact, digest, checks) ==
  LET delta  == artifact # None /\ artifact # prior.artifact
      stuck  == IF delta THEN 0
                ELSE IF digest # None /\ digest = prior.digest
                THEN prior.repeats + 1 ELSE prior.repeats
      counts == Decl(n).max_checks # None
      ran    == IF counts THEN prior.checks + checks ELSE 0
  IN  [decision |-> IF digest = None THEN "complete"
                    ELSE IF \/ prior.late
                            \/ counts /\ ran >= Decl(n).max_checks
                            \/ stuck >= Decl(n).patience
                    THEN "stop" ELSE "continue",
       artifact |-> IF artifact = None THEN prior.artifact ELSE artifact,
       digest |-> digest, repeats |-> stuck, checks |-> ran,
       late |-> prior.late]

(* _record_progress_connection: with its event, in the transaction that    *)
(* settles the attempt.                                                    *)
Observe(n, artifact, digest, checks) ==
  progress' = [progress EXCEPT ![n] =
                 Observation(n, @, artifact, digest, checks)]

Removed(n) == active' = [m \in DOMAIN active \ {n} |-> active[m]]

Popped(n) ==
  /\ pc = "pop"
  /\ n \in DOMAIN active
  /\ active[n] # Unread
  /\ Removed(n)
  /\ moved' = TRUE

(* succeed_attempt: the artifacts of the attempt replace any other.        *)
Succeed(n) ==
  /\ Popped(n)
  /\ row[n].status = "running"
  /\ ~active[n].missing
  /\ \E v \in Decl(n).answers :
       /\ art' = [art EXCEPT ![n] = [attempt |-> row[n].count, value |-> v,
                                     from |-> active[n].from]]
       /\ Observe(n, v, None, Cardinality(Decl(n).checks))
  /\ row' = [row EXCEPT ![n].status = "succeeded", ![n].digest = None,
                        ![n].repeats = 0]
  /\ pc' = "expire"
  /\ UNCHANGED <<run, loops, routes, repairs, joins, flow, rows, todo, calls, blame>>

(* ArtifactError: a required input has no accepted artifact.               *)
Uninformed == [check |-> None, digest |-> "input"]

(* finish_attempt, of an attempt that a failed check ended with its        *)
(* outputs preserved, or any other error without.                          *)
FinishAttempt(n, ail) ==
  /\ row[n].status = "running"
  /\ row' = [row EXCEPT ![n].status = "failed", ![n].failure = ail,
                        ![n].digest = ail.digest,
                        ![n].repeats = IF row[n].digest = ail.digest
                                       THEN @ + 1 ELSE 0]
  /\ IF ail.check = None THEN Observe(n, None, ail.digest, 0)
     ELSE \E v \in Decl(n).answers : Observe(n, v, ail.digest, 1)
  /\ Blame(IF ail = Uninformed THEN "input"
           ELSE IF \E i \in Routes(flow, n) : ail.check \in Decl(n).repair[i].checks
           THEN "check" ELSE "failure")
  /\ pc' = "failed"
  /\ todo' = {n}
  /\ UNCHANGED <<run, art, loops, routes, repairs, joins, flow, rows, calls>>

Fail(n) ==
  /\ Popped(n)
  /\ \E ail \in IF active[n].missing THEN {Uninformed}
                ELSE Decl(n).ails : FinishAttempt(n, ail)

(* A plausible mistake: an entry is removed only when it is settled.       *)
OutlivedKept(n) ==
  /\ pc = "pop"
  /\ n \in DOMAIN active
  /\ active[n] # Unread
  /\ moved' = TRUE
  /\ row[n].status # "running"
  /\ pc' = "expire"
  /\ UNCHANGED <<store, flow, rows, todo, active, calls, blame>>

(* StaleAttemptError: a loop has reopened the node while its attempt ran.  *)
Outlived(n) ==
  /\ Popped(n)
  /\ row[n].status # "running"
  /\ pc' = "expire"
  /\ UNCHANGED <<store, flow, rows, todo, calls, blame>>

NoneDone ==
  /\ pc = "pop"
  /\ pc' = "expire"
  /\ UNCHANGED <<store, flow, rows, todo, active, moved, calls, blame>>

(* timeout_result, for every entry past its deadline.                      *)
Timeout(n) ==
  /\ pc = "expire"
  /\ n \in DOMAIN active
  /\ Decl(n).timed
  /\ Removed(n)
  /\ moved' = TRUE
  /\ FinishAttempt(n, [check |-> None, digest |-> "deadline"])

(* The rest of _finalize_attempt, a transaction of its own.                *)
RetryAvailable(n) ==
  /\ row[n].count < Decl(n).tries
  /\ row[n].repeats < Decl(n).patience
  /\ progress[n].decision = "continue"

Finalize(n) ==
  /\ pc = "failed"
  /\ todo = {n}
  /\ IF n \in DOMAIN repairs
     THEN IF progress[n].decision = "continue" THEN TryRepair(n)
          ELSE UNCHANGED store
     ELSE /\ SetStatus(n, IF RetryAvailable(n) THEN "pending"
                          ELSE IF Decl(n).required THEN "failed"
                          ELSE "optional_failed")
          /\ UNCHANGED <<run, art, progress, loops, routes, repairs, joins>>
  /\ pc' = "expire"
  /\ todo' = {}
  /\ UNCHANGED <<flow, rows, active, moved, calls, blame>>

(* A plausible mistake: the run is reduced as soon as nothing is active.   *)
ExpiredAtOnce ==
  /\ pc = "expire"
  /\ Begin("reduce")
  /\ UNCHANGED <<store, flow, active, moved, calls, blame>>

(* After any completion, loops and routes are decided before the run can   *)
(* be found complete.                                                      *)
Expired ==
  /\ pc = "expire"
  /\ Begin(IF moved THEN "reloop" ELSE "reduce")
  /\ UNCHANGED <<store, flow, active, moved, calls, blame>>

-----------------------------------------------------------------------------
(* The end of an iteration and of an invocation.                           *)

Settled == \A n \in Node : row[n].status \in Terminal
Pending == {n \in Node : row[n].status = "pending"}

Again ==
  /\ pc = "reduce"
  /\ DOMAIN active # {} \/ (moved /\ ~Settled)
  /\ Begin("repair")
  /\ moved' = FALSE
  /\ UNCHANGED <<store, flow, active, calls, blame>>

Concluding == pc = "reduce" /\ DOMAIN active = {}

Stop == /\ pc' = "down"
        /\ rows' = [n \in Node |-> "pending"]
        /\ todo' = {}
        /\ active' = <<>>
        /\ moved' = FALSE

(* finish_run.                                                             *)
FinishRun(status) ==
  /\ run' = status
  /\ Stop
  /\ UNCHANGED <<row, art, progress, loops, routes, repairs, joins, flow, calls,
                 blame>>

RequiredBad == \E n \in Node : /\ Decl(n).required
                               /\ row[n].status \notin {"succeeded", "skipped"}

Conclude ==
  /\ Concluding
  /\ Settled
  /\ RequiredBad
  /\ FinishRun("failed")

(* _validate_accepted, require_workflow_outputs: each declared output that *)
(* was not produced fails its node, and then the run.                      *)
Owing == {n \in Producers(flow) : row[n].status # "succeeded"}

Check ==
  /\ Concluding
  /\ Settled
  /\ ~RequiredBad
  /\ pc' = "check"
  /\ todo' = Owing
  /\ UNCHANGED <<store, flow, rows, active, moved, calls, blame>>

Invalidate(n) ==
  /\ pc = "check"
  /\ Visit(n)
  /\ SetStatus(n, "failed")
  /\ UNCHANGED <<run, art, progress, loops, routes, repairs, joins, blame, Local>>

Checked ==
  /\ pc = "check"
  /\ todo = {}
  /\ FinishRun(IF Owing = {} THEN "succeeded" ELSE "failed")

Exhaust ==
  /\ Concluding
  /\ ~Settled /\ ~moved
  /\ Pending # {} /\ ~Room
  /\ pc' = "budget"
  /\ todo' = Pending
  /\ UNCHANGED <<store, flow, rows, active, moved, calls, blame>>

GiveUp(n) ==
  /\ pc = "budget"
  /\ Visit(n)
  /\ SetStatus(n, "failed")
  /\ UNCHANGED <<run, art, progress, loops, routes, repairs, joins, blame, Local>>

GivenUp ==
  /\ pc = "budget"
  /\ todo = {}
  /\ Begin("repair")
  /\ UNCHANGED <<store, flow, active, moved, calls, blame>>

(* An exception leaves run(): no progress is possible, or a deadline       *)
(* passed for an attempt that a loop had reopened.                         *)
Raise ==
  /\ \/ Concluding /\ ~Settled /\ ~moved /\ (Pending = {} \/ Room)
     \/ /\ pc = "expire"
        /\ \E n \in DOMAIN active : Decl(n).timed /\ row[n].status # "running"
  /\ Stop
  /\ UNCHANGED <<store, flow, calls, blame>>

(* run(), and run(resume=True) later.                                      *)
Call ==
  /\ pc = "down"
  /\ calls < MaxCalls
  /\ calls' = calls + 1
  /\ IF calls > 0 /\ run = "running"
     THEN pc' = "recover" /\ UNCHANGED <<rows, todo>>
     ELSE Begin("repair")
  /\ UNCHANGED <<store, flow, active, moved, blame>>

(* A plausible mistake: an interrupted attempt counts as a failed one.     *)
RecoverAsFailed ==
  /\ pc = "recover"
  /\ row' = [n \in Node |->
               IF row[n].status = "running"
               THEN [row[n] EXCEPT !.status = "failed"] ELSE row[n]]
  /\ run' = "running"
  /\ IF \E n \in Node : row[n].status = "running"
     THEN Blame("interrupted") ELSE UNCHANGED blame
  /\ pc' = "recovered"
  /\ UNCHANGED <<art, progress, loops, routes, repairs, joins, flow, rows, todo,
                 active, moved, calls>>

(* recover_interrupted.                                                    *)
Recover ==
  /\ pc = "recover"
  /\ row' = [n \in Node |->
               IF row[n].status = "running"
               THEN [row[n] EXCEPT !.status = "pending"] ELSE row[n]]
  /\ run' = "running"
  /\ IF \E n \in Node : row[n].status = "running"
     THEN Blame("interrupted") ELSE UNCHANGED blame
  /\ pc' = "recovered"
  /\ UNCHANGED <<art, progress, loops, routes, repairs, joins, flow, rows, todo,
                 active, moved, calls>>

Recovered ==
  /\ pc = "recovered"
  /\ Begin("repair")
  /\ UNCHANGED <<store, flow, active, moved, calls, blame>>

Crash ==
  /\ pc # "down"
  /\ calls < MaxCalls
  /\ Stop
  /\ UNCHANGED <<store, flow, calls, blame>>

(* deadline_at of a node that has started.                                 *)
Expire(n) ==
  /\ Decl(n).timed
  /\ row[n].count > 0
  /\ ~progress[n].late
  /\ progress' = [progress EXCEPT ![n].late = TRUE]
  /\ UNCHANGED <<run, row, art, loops, routes, repairs, joins,
                 flow, pc, rows, todo, active, moved, calls, blame>>

Pop(n) == Succeed(n) \/ Fail(n) \/ Outlived(n)

Step ==
  \/ NextPass \/ NoneDone \/ Expired \/ Again \/ Conclude \/ Check \/ Checked
  \/ Exhaust \/ GivenUp \/ Raise \/ Recover \/ Recovered
  \/ \E n \in Node : \/ Repair(n) \/ Loop(n) \/ Route(n) \/ Join(n) \/ Block(n)
                     \/ Skip(n) \/ Refuse(n) \/ Start(n) \/ Pop(n) \/ Timeout(n)
                     \/ Finalize(n) \/ Invalidate(n) \/ GiveUp(n)

Next == Step \/ Call \/ Crash \/ \E n \in Node : Fetch(n) \/ Expire(n)

ControlSpec == Init /\ [][Next]_vars

-----------------------------------------------------------------------------
(* What the control edges promise.                                         *)

ControlTypeOK ==
  /\ run \in {"running", "succeeded", "failed"}
  /\ \A n \in Node :
       /\ row[n].status \in Status
       /\ row[n].count \in 0..flow.budgets.max_total_attempts
       /\ art[n].attempt \in 0..row[n].count
       /\ progress[n].decision \in {"continue", "stop", "complete"}
  /\ \A n \in DOMAIN loops : loops[n].iterations \in 0..loops[n].attempt
  /\ \A n \in DOMAIN repairs : \A i \in DOMAIN repairs[n] :
       repairs[n][i].rounds \in 0..Decl(n).repair[i].rounds
  /\ todo \subseteq Node
  /\ DOMAIN active \subseteq Node

(* "a fast final controller cannot bypass its declared loop" (runtime.py,  *)
(* before the second _process_loops), in whatever order completions,       *)
(* crashes and resumes come: in a run that succeeded every controller that *)
(* ran has had its last verdict decided, and it was to stop.               *)
NoFalseSuccess ==
  run = "succeeded" =>
    \A n \in DOMAIN loops :
      row[n].status = "succeeded" => Decided(n) /\ ~Matches(n)

Looped(m)   == \E c \in Kept(flow) : m \in LoopRegion(flow, c)
Repaired(m) == \E n \in Node : \E i \in Routes(flow, n) :
                 m \in {n} \cup TargetNodes(Decl(n).repair[i])

(* The validator lets a loop reopen what a node outside of it has used.    *)
(* A node is undisturbed where none does: every loop that reaches behind   *)
(* it reopens it as well or ends before it starts.  The same goes for what *)
(* is behind it, and for a join, whose decision is kept, nothing reopens   *)
(* the join itself.                                                        *)
Undisturbed(n) ==
  \A m \in {n} \cup Ancestors(flow, n) :
    /\ \A c \in Kept(flow) :
         LoopRegion(flow, c) \cap Ancestors(flow, m) # {} =>
           m \in LoopRegion(flow, c) \/ c \in Ancestors(flow, m)
    /\ m \in DOMAIN joins => ~Looped(m) /\ ~Repaired(m)

(* _inputs: what a succeeded node was made of is what its producers have   *)
(* accepted now, after any loops and repairs; the validator's              *)
(* REPAIR_TARGET_FANOUT is what keeps a repair from breaking this.         *)
FreshInputs ==
  \A n \in Node : row[n].status = "succeeded" /\ Undisturbed(n) =>
    \A p \in Feeds(n) : art[n].from[p] = art[p].attempt

(* Whatever reopens p reopens n as well.                                   *)
Tied(n, p) ==
  /\ ~Repaired(p)
  /\ \A c \in Kept(flow) : p \in LoopRegion(flow, c) => n \in LoopRegion(flow, c)

(* record_route_decision: the decision about a node agrees with the source *)
(* artifact that is accepted now, where nothing reopens the source without *)
(* the node; and a node behind a required source runs only if selected.    *)
RouteFollowsSource ==
  \A n \in DOMAIN routes :
    LET p == Decl(n).route[1]
    IN  /\ routes[n] # None /\ art[p].attempt # 0 /\ Tied(n, p) =>
             routes[n] = [digest |-> art[p].value, matched |-> Matches(p)]
        /\ row[n].status \in {"running", "succeeded"} =>
             (Decl(p).required /\ n \notin DOMAIN repairs /\ Undisturbed(n) =>
                routes[n] # None /\ routes[n].matched)

(* What the policy asks a verdict about.                                   *)
Judged(n) == Decl(n).kind = "agent" /\ Decl(n).verification # None

(* VERIFIER_VERDICT_NOT_GATING and its like: in a run that succeeded, work *)
(* of medium or high risk was judged by each of its declared verifiers     *)
(* that its own route did not leave out, on the evidence accepted now.     *)
VerifiedSuccess ==
  run = "succeeded" =>
    \A n \in Node :
      row[n].status = "succeeded" /\ Judged(n) =>
        \A spec \in Decl(n).verification.verifiers :
          LET v == spec.node
          IN  \/ row[v].status = "skipped"
              \/ /\ row[v].status = "succeeded"
                 /\ Undisturbed(v) => art[v].from[n] = art[n].attempt

Orderly == \A n \in Node : Undisturbed(n)

(* LOOP_TOTAL_ATTEMPT_BUDGET and the repair budget: the attempts the       *)
(* validator asks for are enough for every loop and repair to its last     *)
(* round; only a failure that no repair route names, or an interruption,   *)
(* uses more, or the retry of a node whose inputs a loop took away.        *)
BudgetSuffices ==
  pc = "budget" /\ Orderly => blame \cap {"failure", "interrupted"} # {}

(* Of two controllers one of which reopens the other, the reopened comes   *)
(* first, in the order of their ids, and a routed node is reopened with    *)
(* its source.                                                             *)
InTurn == /\ \A c, d \in Kept(flow) : d \in LoopRegion(flow, c) => d <= c
          /\ \A n \in DOMAIN routes : Tied(n, Decl(n).route[1])

(* A run fails for a cause that its nodes gave: an attempt that failed, a  *)
(* budget or a loop's ceiling that was reached, a value the predicate      *)
(* cannot take, or an output that was not selected.  A crash, a resume or  *)
(* an input that the control edges took away does not fail it.  Where they *)
(* are not in turn they do: _process_loops visits what it found succeeded, *)
(* and fails the controller that an earlier visit has reopened.            *)
FailsForCause ==
  run = "failed" /\ Orderly /\ InTurn =>
    blame \ {"interrupted", "input"} # {} \/ ~BudgetLeft

(* An invocation ends: loops and repairs are bounded.  The process takes   *)
(* its next step, workers read their inputs, and a result or a deadline    *)
(* arrives for what run() waits for.                                       *)
Ends == pc # "down" ~> pc = "down"

ControlFair ==
  /\ ControlSpec
  /\ WF_vars(Step)
  /\ SF_vars(\E n \in Node : Fetch(n))
  /\ SF_vars(\E n \in Node : Pop(n))
=============================================================================
