# A verification project for graph-engineering

graph-engineering runs a declared workflow of agent and tool nodes with a
durable store: a crash, a second process or a late answer must not repeat an
effect, lose evidence or let a stale owner commit. This directory holds TLA+
modules of the parts that carry that promise, TLC configurations that check
them on small instances, and TLAPS proofs for every size of instance.

Paths below are relative to the repository; `runtime.py`, `state.py`, ... stand
for `src/graph_engineering/runtime.py`, and so on.

## 1. Inventory

| component | state it keeps | operations | modelled in |
|---|---|---|---|
| run store, `state.py` | `runs` (lease, status, cancel flag), `nodes`, `attempts`, `artifacts`, `join_states`, routes, loops, repairs, forks, remote tasks, progress | one SQLite transaction per method, `BEGIN IMMEDIATE`, most guarded by `_assert_lease` | `RunStore`, refining `FencedWork`; control edges in `Control`, forks in `Portable`, remote tasks in `RemoteTask` |
| scheduler, `runtime.py` | futures in flight, a lease, the rows it last read, `cancel_event` | `run` (create or resume), `reconcile_node` | `Scheduler` |
| control edges, `runtime.py`, `state.py` | loop states, route decisions, repair targets | `record_route_decision`, `apply_loop_decision`, `route_repair` and the passes that call them | `Control` (partly) |
| progress supervision, `supervision.py` | an observation and a deadline per node | admit, record | `Control` (partly) |
| contracts, `contracts.py`, `supervision.py` | none: a check of a document | `validate_workflow`, `graph_shape_issues` | `WorkflowContract` (partly) |
| lifecycle journal, `lifecycle.py` | hash-chained events with idempotency keys, bound run context, stream cursors | append, initialise the context, snapshot, stream | `RunStore` (keys), `Control` (types), `Portable` (context), `EventStream` (stream) |
| portable runtime, `orchestrator.py` | execution identity, receipt ledger, runtime maps | `run`, `_persist_receipts_locked`, `_load_receipts`, the executors | `Portable`, `Workspaces` (partly) |
| checkpoint forks, `forking.py` | a child run with evidence of its parent | build, create, verify, activate | `Portable` |
| worktrees, `worktrees.py` | git worktrees under a repository lock | create, capture, apply | `Workspaces` (partly) |
| A2A client, `a2a.py` | a remote task bound to a node | preflight, send, bind, poll | `RemoteTask` |
| run scopes and launches, `project.py`, `cli.py` | a registry of active scopes, in a database of its own | claim, create, bind, release | `RunScopes` |
| artifact store, `artifacts.py` | files named by digest | put, get | `ArtifactFiles` |
| MCP task store, `mcp/store.py`, `mcp/server.py` | one row per task: state, owner, generation, expiry, result | create, claim, heartbeat, complete, fail, cancel, protocol cancel | `TaskStore` |
| evidence loop, `loops/evidence_loop` | attempts of one agent | check, run the agent, stop | `EvidenceLoop` |
| swarm, `swarm/swarm_run` | lanes with worktrees and branches | run and verify the lanes, exit status | `Swarm` |
| contract-sync monitor, `ops/contract-sync` | `tickets.json`, `incidents.json`, the alert policy's file | a cycle: ticket, reconcile, post, heartbeat | `PrMonitor` (partly) |
| adapters, built-ins | processes they spawn | run, terminate | as what they may do, in `Workspaces` and `Control` |
| project policy, configuration, roles, governance, risk, publication checks | documents | pure checks | no |
| selection, economics, learning, usage | none | scores and reports | no |
| command line, watch, session views | none | presentation | no (the launch is in `RunScopes`) |
| MCP extension, protocol, skills; harness, other ops scripts, examples | messages and tooling | | no |

How they interact. The command line claims the scope of a launch in the
registry, then calls `PortableRuntime.run`, which creates the run (or takes a
fork), binds its execution identity and context in the state database, loads
the receipts kept in a file beside it, and calls `Scheduler.run(resume=True)`,
the first time too; callers of the scheduler's own API use `resume=False`. A
scheduler owns a run through a lease (token, generation, expiry): every write of
the store compares it inside its transaction. Executors run in daemon threads
and hand a result to the scheduler's loop; but the threads themselves write
receipts, worktrees and remote-task bindings, and outlive attempts that timed
out. Outputs go to the artifact files before the transaction that refers to
them. An operator reconciles or forks from another process, anybody may request
a cancel, and a second scheduler may take the run over when the lease has
expired. The MCP task store is another database with another protocol. The
evidence loop, the swarm runner and the monitor are programs of their own.

What is hard here: processes that overlap and crash between any two
transactions; rows read in one transaction and used in a later one; a clock read
before a wait for the write lock; results, receipts and writes that arrive after
a timeout, a takeover or a cancellation; several transactions, files and
databases that together make one decision; loops and repairs that reopen work
while other work uses it; processes that outlive the call that spawned them; a
loop that must not stop making progress. `PROJECT.json` lists each hazard at its
line, with the properties aimed at it or the reason why there is none.

What makes each component correct:

- store: one owner at a time whatever the clock readings; a result counts only
  in the generation that started its attempt; node and attempt rows stay in step
  over recovery; accepted outputs come from an accepted attempt; history is
  append-only.
- scheduler: an effect that may have happened is not repeated unasked; a node
  starts only after its needs; success means every required node; join decisions
  match the evidence; budgets hold over resumes; a cancelled run stays as it is;
  every invocation returns, and returns a verdict.
- control edges and contracts: no success past an undecided loop; what a node
  used is what its producers have accepted in the end; a route follows its
  source; verified work was verified as accepted; the attempts the validator asks
  for suffice; a run fails only for a cause; loops and repairs end.
- portable runtime and forks: nothing executes unbound; receipts are never lost,
  and accepted work has them; a parent that goes on does not spoil its forks.
- worktrees: what is accepted is what was judged, and the attempt's own work.
- A2A: a retry polls the task its node is bound to.
- journal consumers: nothing missed, nothing heard twice, no mixed histories.
- launches: processes at work in one scope work on one run.
- artifact files: what the database refers to can be read.
- task store: claims are exclusive and generations drawn once; only the live
  claim settles a task.
- evidence loop, swarm: the exit status is true of the tree that is left.
- monitor: a heartbeat means that people were told; one issue per pull request.

## 2. Modules

| module | what it is |
|---|---|
| `FencedWork` | the abstract promise of the run store: work begins, and its result is accepted, in one epoch |
| `RunStore` | the store of one run, one action per transaction, for arbitrary clients; refines `FencedWork` |
| `Scheduler` | EXTENDS `RunStore`: the invocations of `run` and `reconcile_node` as its clients |
| `WorkflowContract` | which workflows the validator accepts, as predicates on workflows |
| `Control` | EXTENDS `WorkflowContract`: one invocation of `run` at a time over loops, routes, repairs and `all` joins |
| `Portable` | what `PortableRuntime` binds around the scheduler, its receipt ledger, and forks |
| `Workspaces` | the executors of one runtime object and their git worktrees |
| `RemoteTask` | `execute_a2a` in the attempts of one node, and the server |
| `EventStream` | consumers of the journal |
| `RunScopes` | launches and the registry of scopes |
| `ArtifactFiles` | `ArtifactStore.put` and `get` with the transactions that refer to files |
| `TaskStore` | one row of the MCP task store with its workers |
| `EvidenceLoop`, `Swarm`, `PrMonitor` | the programs beside the scheduler |
| `RunStoreProofs`, `SchedulerProofs`, `ControlProofs`, `PortableProofs`, `WorkspacesProofs` | inductive invariants and theorems of the modules they are named after |
| `TaskProofs` | those of `TaskStore` and `RemoteTask` |
| `OutsideProofs` | those of `RunScopes` and `EventStream` |
| `ServiceProofs` | those of `ArtifactFiles`, `EvidenceLoop`, `Swarm` and `PrMonitor` |
| `MCRunStore`, `MCScheduler`, `MCControl`, `MCTaskStore` | values of the constants for TLC: small workflows, symmetry, a view |
| `MCOrchestrator` | `Portable` and `Workspaces` on one instance |
| `MCServices` | the eight services beside the scheduler on one instance |

### RunStore

Every variable is a column or a table: `owner`, `generation`, `expires` and
`runStatus`, `cancelRequested` of `runs`; `node` and `attempt`; `artifact[n]`, the
number of the attempt whose outputs are bound; `journal`, the node events that can
collide. 0 stands for NULL. `leases` are the `RunLease` objects that clients still
hold, and `sample[t]` the clock reading of a call that waits for the lock:
`acquire_lease` and `renew_lease` read `time.time()` before `BEGIN IMMEDIATE`, all
other methods inside the transaction (`_assert_lease`).

`Next` lets any holder of a lease object, live or long lost, call any method at
any time. It restricts clients in one respect only: `set_node_status` and
`invalidate_node` have no guard of their own in the code, so their callers' is
used: the pairs of `StatusChange`, and `Invalidate` on settled nodes. That the
scheduler is such a client, although it calls them on rows it read several
transactions earlier, is a property of `Scheduler` (`ActsAsStoreClient`), checked on
an instance and proved. The proof asks for one pair that no small instance shows: a
decided quorum's reserve that `admit_attempt` refuses becomes `failed`, the rows are not
read again before the blocking pass, and that overwrites `failed` with `blocked` when
another need of the node is lost.

Abstractions: error texts and digests become a `Reason`; the outputs of a node are
bound and replaced together, as in `succeed_attempt`; keys of journal events that
cannot recur with another content are left out, and so is the event of
`invalidate_node`, whose key holds no count (listed as a hazard).

### Scheduler

`proc[p]` is the local state of invocation `p`: a program counter between
transactions, `rows` (what a pass works from), `todo` (the nodes the pass has yet to
visit, in the order of their ids), `active` (futures not yet popped), `cancel`
(`cancel_event`), `moved` (`progressed`) and `stored`, the run status read before
the lease was acquired. The labels follow `run` from top to bottom:

| labels | `runtime.py` |
|---|---|
| `call`, `acquire`, `decide` | 821-852: read the run row, acquire the lease; an operator's decision |
| `validate`, `spoiled`, `recover`, `park` | 919-940: `_validate_accepted`, `recover_interrupted` |
| `top`, `renew`, `look`, `cancel`, `audit` | 942-964: renewal, the test for cancellation |
| `reserve`, `join`, `block`, `dispatch` | 978-1096: reserves of decided quorums, join rows, blocking, the frontier |
| `pop`, `after`, `expire` | 1098-1132: a completion or a deadline, `_finalize_attempt` |
| `check`, `budget`, `stalled`, `conflict`, `release` | 1143-1206: verdict, exhausted budget, the two ways of raising, `finally` |

One transaction is one step, and an invocation may crash (`Mortal`), be cancelled
(`Interruptible`) or lose its lease between any two. An executor is its outcome: a
popped future passes, fails or has passed its deadline. Whether a renewal is due,
whether the no-progress limit and the progress budget allow a retry, and whether
`admit_attempt` refuses, is left open. `Room` counts the attempts at each launch where
the code counts them once before a pass and adds one for each launch of its own
(`runtime.py:982`, `1060`); the two agree while the lease is held, without which no launch
succeeds, so `BudgetsKept` is about the limits over passes, resumes and invocations and
not about the local count. Consumers with quorum joins are visited in
order of node ids in the reserve pass; the code takes them in the order of the
document, which matters only with several quorums and scarce slots.

### TaskStore

One row, since rows do not interact. `Issue` is a tool call up to its reading of the
clock, and the transaction comes later, in any order and perhaps never (`Drop`).
`claim[w]` is what worker `w` was last told to use: `graph_task_claim` answers with a
row that `inspect` reads after the claim's transaction, so `Answer` is a step of its
own. Workers use what they were told; they may repeat calls, call again before an
answer, restart (`Forget`) and never give up. `granted` is history: who drew which
generation.

### WorkflowContract and Control

`WorkflowContract` has one predicate for each semantic check of
`validate_workflow` and `graph_shape_issues` that bears on the scheduler;
`Accepted(w)` is their conjunction. `Control` runs any of `Flows` that `Accepted`
lets through, so that what the validator refuses and what the runtime relies on are
checked against each other: a property fails when a check is missing or too weak.

`pc` names the pass that an iteration of `run` is in, `rows` and `todo` the rows it
read and the nodes it has yet to visit; each pass visits nodes one transaction at a
time: `Repair` (`_try_repair`), `Loop` (`_process_loops`), `Route`
(`_process_routes`), `Join`, `Block` and `Skip`, `Start`, then a completion
(`Succeed`, `Fail`, `Outlived`) with `Finalize`, or a deadline (`Timeout`); `reloop`
and `reroute` are the second calls after a completion. `Fetch` is a worker thread
that reads its inputs, in a step of its own. The process may die between any two
steps and be called again; `progress[n].late` is the deadline of a node. `blame`
is history: why something has failed.

Abstractions: an artifact is the attempt that made it, one of three values ("yes",
"no" and one the predicate cannot take) and, for the properties, the attempts of its
inputs. A repair's evidence is the failed check and a digest. A failed attempt
is observed with one check or with none (`FinishAttempt`): the number of checks that ran,
and an output that is preserved but not accepted after they passed
(`OUTPUT_NOT_ACCEPTED`, `runtime.py:577`, `585-628`), are not told apart from it. `Fetch` reads all inputs at once; the code opens a connection
for each (`runtime.py:190-209`). Overlapping
invocations, cancellation, quorum joins and effects that are not replay-safe are
`Scheduler`'s.

### Portable

Processes are `PortableRuntime` objects that start, resume and fork one parent run and
one child of it. `proc[p].pc` follows `_run_once`: `bind`, `lineage`, `load`
(`unbound`, `locked`: the two stages in which `_load_receipts` finds a file without a
binding and takes the lock), `context`, `activate`, `acquire`, `run`. A worker thread
goes through the agent, its receipt, the check and its receipt; every receipt is
merged, replaced on disk and bound in three steps under the file lock
(`ReadLedger`, `ReplaceLedger`, `BindReceiptLedger`), so that a crash falls between
any two. `ledger[r]` is the file, `binding[r]` the row that digests it, `memory[p]` and
`loaded[p]` the object's maps, which do not know which run they are about.
`BuildLineage` and `CreateForkRun` are the operator's fork, built at a checkpoint of
the journal and created later.

A workflow is one replay-safe node with one check; the base, profiles, policy and
product contract of a run are one `Identity`.

### Workspaces

A worktree holds, for each file that differs from the base, who wrote it: a set, since
`apply` refuses an input only if an untracked file of it differs from what is there or
`git apply --check` fails (`worktrees.py:344-376`). Of the files that an input and the
worktree have in common, any set may go together (`joined`: separate parts of a tracked
file, or the same bytes), and such a file then holds both contributions; if one does not,
the input is refused. Files that git ignores are outside the diff and the model. An attempt
is a thread that creates a worktree, lets a process edit it (with a fallback candidate
in a worktree of its own), captures the diff, and lets checks run on it; the
integration node applies the accepted change sets to its own. `stray` are the
worktrees a process left behind may still write to, and a thread may outlive its
attempt and its run. `worktrees` and `snapshots` are the runtime object's maps. An
integration applies its inputs in the order of their ids; `todo` is the set of those
still to come.

`JudgedAsAccepted` is about an object that executes one run, as the command line makes
them (`WorkspacesAssumption`). `PortableRuntime.run` may be called for several runs in
turn; `RunId` may hold several, and with two of them TLC finds `JudgedAsAccepted`
violated: a thread of an attempt of the first run that has timed out is waited for by
nobody, and it puts its worktree under the same node and attempt in the maps after the
second run has put its own there, so that the second run's check judges the first
run's files. The docstring of `_run_once` speaks of shared-map races that the public
method prevents; its lock keeps two runs apart but not a run from the threads of an
earlier one.

### RemoteTask, EventStream, RunScopes, ArtifactFiles

- `RemoteTask`: a thread per attempt, one exchange with the store or the server a
  step; the server advances its tasks, changes its card, answers a message at once or
  late, and may or may not recognise a message it has seen; answers are lost.
- `EventStream`: a digest is the prefix it digests, which is what a chained hash
  stands for. `stream` reads the journal and the run's status in two transactions, and
  an operator may put an older copy of the database back. A consumer asks until an
  answer says `terminal` and has nothing more (`stopped`).
- `RunScopes`: what a launch does until its first lease, and the release at its end,
  where the registry reads the run's status in another database and the launch goes
  on under no lock. What happens between the first and the last lease is one state.
- `ArtifactFiles`: `put` makes the shard, a directory below the root, if it is new,
  writes a temporary file, links it, flushes the shard, and the caller records the
  digest. A power failure loses any directory entry no flush has reached and any last
  transactions (`synchronous = NORMAL`); nothing flushes the root (`artifacts.py:57`,
  `70-74`), so it may take a whole shard whose own entry has not reached the disk
  (`shards`, `rooted`; `torn` is history: the files that were lost with one).

### EvidenceLoop, Swarm, PrMonitor

- `EvidenceLoop`: the tree is what each check would find in it. An agent that is killed
  at its timeout may leave a process behind (`straggler`). Checks are taken not to write.
- `Swarm`: a worktree's content is who wrote to it, as agent, as judge or as a process left
  behind; lanes are threads under one lock for worktrees, the main thread verifies.
  Agents, checks and refuters alike are commands that run in the lane's worktree, may
  write to it and may leave a process behind (`Command`). A killed swarm leaves branches,
  worktrees and processes behind, and the next one finds them. `isolate = false`
  (`swarm.py:124`), where all lanes share the repository's tree, is not modelled.
- `PrMonitor`: a cycle reads an `Observation` and goes through tickets, incidents,
  alerts, posts and recoveries; Slack, Plane and the disk refuse calls, and a cycle is
  killed between a call and the write that records it. The policy has recorded its
  decision by then.

## 3. Runs

Passing runs:

| run | instance | what it shows |
|---|---|---|
| `store` | one node that is not replay-safe, two owners, clock to 4, three generations, two attempts | the store's rows stay in step, fencing, append-only history and the refinement of `FencedWork`, for arbitrary clients |
| `invocations` | 1 -> 2, both required, 2 replay-safe, two tries, a total of three attempts; a run, an operator's call and a resume overlap | no blind replay; nodes start after their needs; nobody blocks on a stale view; a cancelled run stays |
| `quorum` | two of three optional voters for 4, two overlapping invocations, a lifecycle journal, `cancel_event`, four attempts in all | join decisions match the evidence, budgets hold over invocations |
| `returns` | 3 joins 1 under `all_settled`, 2 joins 3 under `all`; a first invocation that may die, a resume, an artifact that may stop validating | every invocation ends, success means every required node, and the scheduler is a client that `RunStore` allows |
| `control` | eleven small workflows: a loop over a route, nested loops with the inner controller first or last, sibling loops, repairs of two writers, an optional route, a verified producer; two calls of `run` | no false success, fresh inputs, honest routes and verifications, budgets that suffice, failures with a cause, and an end |
| `orchestrator` | `Portable` with two processes, two identities, two attempts, two calls and one fault; `Workspaces` with two writers of common files, a fallback, an integration and one oddity | nothing runs unbound, no receipt is lost, forks hold, and what is accepted is what was judged and the attempt's own |
| `services` | the eight services of the table below | each service's promise |

`MCServices` and `MCOrchestrator` put modules that share no state side by side: a
behaviour is of one of them, chosen in its first state, while the others stand still.
That checks each of them exactly as alone.

| in `services` | instance | properties |
|---|---|---|
| `TaskStore` | two workers, two calls under way, clock to 4, three claims | `NothingForged`, `DrawnOnce`, `TakenOverWhenExpired` |
| `RunScopes` | two processes, two runs, two scopes, three launches | `OneRunPerScope` |
| `RemoteTask` | two attempts, two cards, two lost answers, deadlines, crashes or changed cards | `RetryPollsSameTask` |
| `EventStream` | one consumer, batches of two, four events, one restored copy | `HeardIsJournal` |
| `ArtifactFiles` | two callers, two values in a shard each, which may be new, two faults | `RecordedIsReadable` |
| `EvidenceLoop` | two checks, three attempts, two outputs, two timeouts | `ExitIsEvidence` |
| `Swarm` | two lanes, three refuters, two swarms, one mishap | `SuccessIsProven` |
| `PrMonitor` | a consumer and its pull request in every combination, two refusals | `HeartbeatMeansTold`, `OneIssuePerPr` |

Runs that exhibit a disagreement between a document and the code, each by a
counterexample of one property:

| run | property | what happens |
|---|---|---|
| `stall` | `NeverStalled` | 1 -> 2 -> 3 and node 1 fails: the blocking pass works on rows read before it, blocks 2 only, and is not counted as progress; `run` raises "scheduler made no progress" and leaves 3 pending in a running run |
| `reserve` | `StartsAfterNeeds` | 4 joins any of {2, 3}, and 3 needs 1: once 2 has decided the join, the reserve loop starts 3 while 1 is still running |
| `effect` | `InterruptedEffectStops` | a crash during the effect of node 2, and the artifact of node 1 no longer validates: the resume ends the run `failed` before it recovers the effect, which stays `running` where no operator can decide about it |
| `handle` | `OldWorkerCannotCommit` | the answer to an expired claim is read after another worker's takeover and carries that worker's owner and generation; a result sent with them commits |
| `journal` | `FailsForCause` | a run with a lifecycle journal fails at its first route or loop decision: the event types `route.decided`, `loop.decided` and `node.skipped` are not among `EVENT_TYPES`, the append raises `EVENT_TYPE_INVALID`, the pass fails the node for it, and the run ends `failed` |

The last is why `control` is run without a journal.

Properties that leave something out say so, in the module and here.
`OneRunPerScope` is not about a run that had ended, or that a resume claimed before
its row said `running`: the registry takes these for inactive while they are worked on.
`HeartbeatMeansTold` is not about a key whose last message was accepted by a cycle that
could not record it, and `OneIssuePerPr` not about an issue whose record could not be
written. `RecordedIsReadable` is not about a damaged file, nor about one that a
`put` found in place before its first `put` had flushed the directory, nor about one whose
shard a power failure took because nothing had flushed the root.
`ExitIsEvidence` and `SuccessIsProven` are not about a tree that a process left behind
still writes to. `SuccessIsProven` allows what the lane's own checks and refuters wrote:
a write of theirs after a check has passed is noticed by nothing, and then exit 0 is of a
tree that no check has judged as a whole. `ForkDriftsOnlyLate` gives two reasons for
a lineage that no longer rebuilds: a late receipt in the parent's ledger, or a ledger
that is ahead of its binding (`Ahead`), which a crash between `os.replace` and the binding
(`orchestrator.py:829`, `837`) leaves for good (`forking.py:205-206`).
`AcceptedIsOwnWork` says of a file that several inputs changed that it holds what each
made of it, not that git put it together sensibly. `HeardIsJournal` says that a consumer
told to stop has heard all that its last call had read: what the run recorded between that
call's two transactions, its end among it, it never hears, since `terminal` is the later of
the two readings (`lifecycle.py:678-700`), although `docs/CLI.md:318` tells consumers to
stop then and `watch.py` does; with `heard = journal` in its place TLC finds the consumer
that stops too early. The hazards in `PROJECT.json` repeat each of these.

Five properties of `Control` leave out what the validator accepts and the runtime does
not look after. Each was written down without the exception first; the proof then failed
on a workflow that `Accepted` lets through, and TLC shows the behaviour on it.

- `FreshInputs` is about a node that is `Undisturbed`: a loop that reaches behind it
  reopens it too, or ends before it starts. The validator accepts others: in 1 -> 2 -> 3
  with 2 looping to 1, 3 to 2, and a node 4 that needs 2 and reads 1, the verdict of 3
  reopens 2, whose verdict reopens 1, and 4 keeps what it made of the first 1. The same
  goes for a join that a loop or repair reopens: its `join_states` row is kept, so it
  starts before its needs have ended again.
- `RouteFollowsSource` is about a decision whose source is reopened only together with
  the routed node (`Tied`). A route is decided as soon as its source has succeeded, even
  before a controller that will reopen the source has run; a region or a repair that
  takes back the source and not the node leaves the old decision, and the next one fails
  the node as a conflict (`record_route_decision`).
- `VerifiedSuccess` lets a verifier be skipped by a route of its own: the run then
  succeeds without its verdict. And it asks for a verdict on the evidence accepted now
  only of a verifier that is `Undisturbed`.
- `FailsForCause` is about workflows that are `Orderly` (every node `Undisturbed`) and
  `InTurn`: of two controllers one of which reopens the other, the reopened one comes
  first in the order of the ids, and a routed node is `Tied` to its source.
  `_process_loops` (`runtime.py:280-310`) visits, in the order of the ids, the
  controllers it found `succeeded`. In 1 -> 3 -> 2 where 3 loops to 1 and 2 to 1, a
  verdict of 2 to go on takes back 1 and 3; the pass goes on to 3, finds no accepted
  artifact of it and fails it: `bounded loop failed: route source '3.result' has no
  accepted artifact`. The run fails although no node did, and the same graph with the
  ids of 2 and 3 exchanged succeeds; the scheduler itself does so, driven with trivial
  executors. `OuterFirst` is this workflow; the other promises are checked on it too.
- `BudgetSuffices` is about `Orderly` workflows: where a loop takes back the inputs of a
  running node that it does not reopen, the node fails for them and its retry uses an
  attempt that the validator did not count.

In `PortableRuntime` little of this can be met as long as a journal refuses every route
and loop decision (run `journal`): only the joins that a repair reopens.

Bounds and why they are enough.

- The clock needs two lease times for an expiry and a takeover with an old reading:
  `MaxNow` is at least `TTL + 1`, and 4 with `TTL` 2 in `store`, so that a renewal
  decided on an old reading can follow. Three generations are an owner, a takeover and
  a return of the first. Two attempts of a node are one that is abandoned and one that
  follows it; more repeat the same rows.
- In `invocations` a crash and a loss of the lease are the same to the other
  invocations, which is why `Mortal` is empty there: for safety, dying is never
  stepping again. `TTL` 1 leaves no renewal that changes anything, so renewals are
  exercised in `returns` with `TTL` 2. Three invocations are the run, the operator and
  the resume; with a fourth TLC also finds a resume that read the run's status before
  another invocation parked it and so skips recovery, which is listed as a hazard.
  `Deadline` lies beyond the clock in `invocations`, where a cancel request covers
  it, and within it in `quorum`.
- `SuccessMeansAll` is checked on the `all_settled` join since it is the one through
  which a workflow output can be produced although a required node failed.
- `control`: of each shape there are two rounds, the first that reopens and the one that
  meets the ceiling. Where a budget matters, the workflow is there with the smallest
  budget the validator accepts (`LoopFlow(7)`, `RepairFlow(11)`) and with one less,
  which it must refuse; `Fanout` and `VerifiedFlow(FALSE)` must be refused too
  (`ASSUME` of `MCControl` holds the accepted ones to it; a refused one breaks a
  property once its check is weakened, which the mutants of `RepairTarget`, `LoopExtra`
  and `VerifierBinds` in `PROJECT.json` do).
- `orchestrator`: two processes are an owner and a successor, or an object that holds
  another run's receipts in memory; two calls are a start and a resume, or a parent and
  its fork. Two writers of a common file are what an application can conflict on.
- `services`: two of everything that races, and three launches so that a release can
  fall between two claims. The monitor's pull request has two heads, so that a trouble
  can come back with another.

`MCView` of `store` leaves out `runStatus` and `cancelRequested`, which the store writes
and never reads and no property of that run mentions. Owners, workers, runtime objects
and identities are symmetric where the cfg says so; none of these runs checks liveness.
Deadlock is off everywhere: invocations end, the clock stops, and generations are
bounded, so the system really may stop.

Fairness. `Returns` of `Scheduler`: a live process takes its next step (weak fairness of
`Step`; `Crash`, `Interrupt` and the environment are not fair); and what a scheduler
waits for arrives (strong fairness of settling a future or finding the lease lost),
because each future has a deadline and `run` settles an entry past its deadline itself
(`timeout_result`). `Ends` of `Control` has the same: weak fairness of `Step`, strong
fairness of a worker's reading of its inputs and of a completion, each an ordinary step
of a thread that the deadline stands in for. Strong, because other futures may come
first. Nothing is assumed of executors, of the clock or of other invocations.

## 4. Proofs

For any nodes, owners, workers, processes and bounds, assuming only what the `ASSUME`s
of the modules say (bounds are natural numbers, NULL is none of the values):

- `RunStoreProofs`: `Invariance`, with `TypeCorrect`, `SingleOwner`, `RowsInStep`,
  `EvidenceAccepted` and `AttemptOrder` as its consequences. The inductive invariant is
  the conjunction of the five, which lean on one another. `AcceptedEvidence` needs
  `RowsAgree`, which says that the attempt that is settled is the node's last one and
  was running; `AttemptsFollowLeases` needs `OneOwner`, which bounds the generation of a
  lease by the newest. `Fenced` (`SettledInOwnGeneration`) and `AppendOnly`
  (`HistoryKept`) follow from one lemma for every action, which says how attempt rows
  may change. `Refinement`: each step of the store is one of `FencedWork` or a stutter,
  an epoch being a lease generation.
- `SchedulerProofs`: `SchedInvariance`, the invariant `SInv`, and its consequences.
  Everything rests on `ViewInv`: what an invocation read several transactions ago is,
  while it owns the lease, still true up to its own writes, label by label, because
  nobody else has written; and an invocation takes the lease once, so one that has lost
  it never writes again. From it follow `StoreClient` (`ActsAsStoreClient`), and with it
  `StoreKept`: the promises of `RunStore` and its refinement of `FencedWork` hold under
  the real scheduler and not only for assumed clients. The other parts of `SInv` are
  that what runs under the newest lease is in its owner's active set (for `Budgets`),
  that an effect waits only if an operator granted it (`NoReplay`), that a run that has
  ended was ended by a write that left nothing to do, and that nothing is written later
  (`SuccessComplete`, `CancelledIsFinal`), and that votes once in evidence stay there
  (`HonestJoins`). `BlockedOnlyForCause` follows from what the owner's view says of a
  need. `StartsAfterNeeds` does not hold of a quorum's members (run `reserve`):
  `NonVotersStartAfterNeeds` proves it of every other node, and
  `StartsAfterNeedsWithoutQuorum` of workflows without a quorum.
- `ControlProofs`, for every workflow that the validator accepts. `LoopsAreNotBypassed`
  (`NoFalseSuccess`): a verdict falls due when a controller's attempt is accepted. Then
  either the iteration has progressed, and the run processes the loops again before it
  concludes (`VerdictsDue`), or the process dies, and the next invocation processes them
  first. What a pass has yet to visit is still what selected it (`PassOrderly`), and a
  verdict once taken stays the controller's last (`VerdictsLag`, `VerdictsStop`), since
  an attempt starts only from `pending` and only a reopening brings that back.
  `NothingStale` (`FreshInputs`): all that is behind a node that runs, has ended or is
  about to start is `Quiet` (`BasedOnQuiet`): it has ended, well if it is required, and
  no verdict, retry or repair of it is due. What takes work back starts at a controller
  whose verdict is due or at an integration that has failed, neither of them quiet; if
  what it takes back were behind an undisturbed node, so would it be, since a loop
  reopens that node too or ends before it, and a repair target feeds its integration
  only (`RepairFeedsOne`, from `REPAIR_TARGET_FANOUT`). A worker's reading is covered by
  `FreshlyRead`. `WorkIsJudged` (`VerifiedSuccess`) adds that a run ends `succeeded` only
  while every required node has succeeded or was skipped (`SuccessEarned`).
  `RoutesFollow` (`RouteFollowsSource`): a decision lives while its source has ended and
  is retaken with it (`SourceAgrees`), what was not selected stays out
  (`UnselectedStays`), and once the route pass is over whatever waits for a decision has
  it (`RoutesDecided`), so a node whose required source is quiet starts with one. These
  proofs need that `Ancestors` is closed under needs, which its definition as the least
  closed set gives without an induction.
  `FailuresHaveCauses` (`FailsForCause`, for workflows without a journal): as long as
  nothing has given the run a cause, no node is lost (`NoneLost`). What could lose one
  without a cause is excluded in turn: an attempt that finds an input missing, since what
  an undisturbed node reads is quiet when its worker reads it (`Informed`); a controller
  that an earlier visit of the pass has reopened, by the order of the ids; a decision
  that contradicts an older one, by `SourceAgrees`; and an output that is owed, since all
  that is settled has succeeded.
  `BudgetIsEnough` (`BudgetSuffices`): the attempts made and the nodes that wait for one
  never exceed what is paid for, the nodes, the turns of the loops and the rounds of the
  repairs so far (`WithinBudget`). A start moves a node from one side of the sum to the
  other; a turn reopens at most the region that is paid for it, a round at most its
  targets and the integration; and a failed attempt is not retried, because what fails
  has a route (`KAttempts`). `BudgetCovers` compares what is paid for with what
  `validate_workflow` asks for, term by term. The sums are cardinalities of disjoint
  unions (`SumOver`), so that one more turn is one more interval and no induction is
  needed.
- `PortableProofs`: `AcceptedIsDocumented` and `LedgerGrows` rest on the file lock: at
  most one thread per run is between its reading of the file and its binding
  (`OneWriter`), so what it merged still covers the file when it replaces it
  (`Merging`), and a thread comes to its next stage only by way of a file that holds its
  receipt (`Receipts`). `NothingRunsUnbound` (`WorkIsBound`) rests on rows, manifests
  and contexts that are written once, and on a lineage that stays sound because journals
  and ledgers only grow. `ForksDriftOnlyLate` adds that what a journal has accepted has
  its receipts in the bound ledger (`Documented`) and that a fork is drawn from the
  receipts of what was accepted at its checkpoint (`ForksDrawn`); whatever the ledger
  has got since for an attempt settled by then is of one that was not accepted. A bound
  ledger is never ahead of its file (`BoundBehind`), so a file that is not trusted is
  ahead of its binding.
- `WorkspacesProofs`: `JudgedIsAccepted` and `AcceptedIsOwn`, for an object that
  executes one run (`WorkspacesAssumption`). The invariant follows each thread: the
  keys of its worktree and snapshot are its alone, whatever became of the attempts
  before it; until its capture no check has written in its worktree (`Unchecked`), and
  half an integration holds exactly the inputs applied so far (`Applying`), since no
  process is left behind in a worktree no process ran in. From the capture on what
  happens in the worktree is one-way: a left-behind process overwrites, and what it
  overwrote does not come back (`Later`), so a worktree that is after the check what was
  captured was that when the check began (`NothingComesBack`).
- `TaskProofs`, the task store: `RowConsistent`, `Unforged`, `GenerationDrawnOnce`,
  `NoEarlyTakeover` and `SettledForGood`. `NoEarlyTakeover` rests on `NothingForged`: a
  reading of the clock is never ahead of it, so a claim judged expired by an old reading
  is expired. Remote tasks: `OneTaskPerNode` (`RetryPollsSameTask`). A binding is made
  by the active attempt, which is the latest, so all that has been sent was sent by it
  or before it; who starts later finds the binding before it sends.
- `OutsideProofs`, launches: `ScopeIsExclusive`. A run that is not loose keeps its entry
  from its claim to its end: while it is bound and running (`BoundIsReserved`), before
  it is bound (`CreatedIsReserved`), and before it has a row (`AbsentIsReserved`), when
  one process at most is about it. The difficulty is a late release, which reads the
  run's row in one transaction and deletes the entry in another. Consumers:
  `HeardIsOneHistory`. What a consumer has heard is what its cursor stands for, and a
  call that has compared the digests reads a journal that begins with that
  (`Listening`); the batch, cut by the limit, continues it (`BatchContinues`), and when
  there is no more it ends with it.
- `ServiceProofs`: `ArtifactsReadable`: a digest that is about to be recorded is of a
  file that is durable, damaged, met in place or torn, and the durable ones survive
  unless their shard goes.
  `AnswerIsTrue` of the evidence loop: what was found is still there unless a process
  was left behind (`EvidenceHolds`), because an agent that runs is followed by another
  attempt (`AgentNotLast`). `LanesProven` of the swarm: what success says of a lane at
  the end holds of it from the creation of its worktree on, stage by stage
  (`LaneHolds`), while other lanes and processes left in other lanes touch other
  worktrees. `OneIssue` of the monitor assumes only that no head of a pull request is
  the value that stands for "no ticket"; `HeartbeatTells` rests on `CycleInv`, which
  says for each key, by the phases of the cycle it has been through, whether the channel
  has been told what the cycle saw.

The larger inductive invariants were checked with TLC on the instance of their
component's run before they were proved, and then not kept as properties of the run: it
is the proof that says they hold.

Only model-checked: `FailsForCause` of a workflow with a journal, which violates it (run
`journal`), and all of liveness (`Returns`,
`Ends`): fairness and ENABLED are out of its reach. The properties of the runs that show
a disagreement are violated and so not to be proved. Proved and not checked by any run,
since a run would add nothing: `TypeOK` of the two stores, `RowAgrees` and
`TerminalStable` of `TaskStore`.

## 5. Not modelled

Pure checks, scores, presentation and I/O have no state to go wrong over steps and are
left out: configuration, roles, governance, risk and publication checks; selection,
economics, learning and usage reports; session views, the watch and the rest of the
command line; the MCP extension's messages and resources; and the tooling under
`harness/`, `skills/`, `examples/` and the rest of `ops/`. Their effects on the
modelled parts are choices there: an executor's outcome, a profile or identity, an
observation, a tool call at any time.

Of the components that are partly modelled, these are missing:

- overlapping invocations, cancellation, quorum joins and non-replay-safe effects
  together with control edges: `Scheduler` has the ones, `Control` the other, and the
  product is beyond an exhaustive check;
- of the contracts: JSON-schema and resource checks, and compilation to a document;
- of the journal: the verification of a tampered chain, since a digest is the history
  it digests;
- of the portable runtime: the assembly of prompts, the selection of profiles, several
  nodes at a time;
- of worktrees: git itself, files it ignores, the digests of change sets, and `remove`,
  which the runtime does not call;
- of the swarm: `isolate = false`; of the evidence loop: checks that write;
- of the adapters: the parsing of provider output;
- of the monitor: the HTTP reads that make an observation, and the off-box watchman.
