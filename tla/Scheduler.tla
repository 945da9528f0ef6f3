------------------------------- MODULE Scheduler -------------------------------
(***************************************************************************)
(* Scheduler.run and Scheduler.reconcile_node (runtime.py) as clients of   *)
(* RunStore.  Every invocation of one of them, in whatever process, is one *)
(* member of Token: it draws a fresh token, acquires the lease once and    *)
(* ends; a resume is another invocation.  Invocations overlap, crash       *)
(* between any two transactions, and lose their lease to the clock.        *)
(*                                                                         *)
(* One transaction of the store is one step.  Reads are steps of their own *)
(* where the code keeps what it read (stored, rows) and uses it after      *)
(* later transactions, its own or another's.  The order in which executors *)
(* finish is arbitrary, so a completed future is taken at the step that    *)
(* pops it.  Repairs, loops and conditional routes are not modelled: the   *)
(* workflows here declare none.                                            *)
(***************************************************************************)
EXTENDS RunStore

CONSTANTS
  Needs,           \* node["needs"]
  Required,        \* nodes with "required": true
  Policy,          \* node["join"]["policy"], "none" without a join
  Votes,           \* the threshold of a quorum join
  MaxTries,        \* retry.max_attempts, capped by max_attempts_per_node
  MaxConcurrency,  \* budgets.max_concurrency
  MaxTotal,        \* budgets.max_total_attempts
  Deadline,        \* the clock at which budgets.timeout_seconds are over
  Operator,        \* the invocations that are reconcile_node calls
  Mortal,          \* the invocations whose process may die
  Interruptible,   \* the invocations whose caller may set cancel_event
  Corruptible,     \* nodes whose accepted artifact may stop validating
  Exported         \* nodes that produce a declared workflow output

Quorum == {n \in Node : Policy[n] = "quorum"}
Joins  == {n \in Node : Policy[n] # "none"}

(* Nodes are numbered in the order of sorted(self.nodes); validate_workflow *)
(* rejects budgets that do not cover one attempt of each node, and required *)
(* members of a quorum.  The first invocation is run(resume=False), the one *)
(* that creates the run; an operator's call comes later.                    *)
ASSUME SchedulerAssumption ==
  /\ Node \subseteq Nat
  /\ IsFiniteSet(Node)
  /\ Token \subseteq Nat
  /\ Needs \in [Node -> SUBSET Node]
  /\ Required \subseteq Node
  /\ Policy \in [Node -> {"none", "all", "all_settled", "quorum"}]
  /\ Votes \in [Node -> Nat]
  /\ MaxTries \in [Node -> Nat \ {0}]
  /\ MaxConcurrency \in Nat \ {0}
  /\ MaxTotal \in Nat
  /\ Cardinality(Node) <= MaxTotal
  /\ MaxTotal <= MaxAttempts
  /\ Deadline \in Nat
  /\ Operator \subseteq Token
  /\ \A p \in Operator : \E q \in Token \ Operator : q < p
  /\ Mortal \subseteq Token
  /\ Interruptible \subseteq Token
  /\ Corruptible \subseteq Node
  /\ Exported \subseteq Node
  /\ \A n \in Quorum : Needs[n] \cap Required = {}

VARIABLES
  proc,     \* the local state of each invocation
  join,     \* the join_states rows
  granted   \* history: how often an operator decided "retry" for a node

schedVars == <<storeVars, proc, join, granted>>

Terminal == NodeStatus \ {"pending", "running"}
Bad      == {"failed", "blocked", "cancelled", "uncertain"}
Good     == {"succeeded", "optional_failed"}

Fresh  == [n \in Node |-> node[n].status]     \* StateStore.node_rows
Unread == [n \in Node |-> "pending"]

Local ==
  [pc     : {"off", "call", "acquire", "decide", "validate", "spoiled",
             "recover", "park", "top", "renew", "look", "cancel", "audit",
             "reserve", "join", "block", "dispatch", "pop", "after", "expire",
             "check", "budget", "release", "stalled", "conflict", "gone"},
   stored : RunStatus \cup {"created"},  \* run status read before the lease
   rows   : [Node -> NodeStatus],        \* the statuses a pass works from
   todo   : SUBSET Node,                 \* the nodes it has yet to visit
   active : SUBSET Node,                 \* nodes with a future not yet popped
   cancel : BOOLEAN,                     \* cancel_event
   moved  : BOOLEAN,                     \* progressed
   failed : SUBSET Node]                 \* the node being finalized as failed

Blank(label) ==
  [pc |-> label, stored |-> "created", rows |-> Unread, todo |-> {},
   active |-> {}, cancel |-> FALSE, moved |-> FALSE, failed |-> {}]

JoinRow == [decision : {"waiting", "succeeded", "failed"},
            passed : Nat, missing : Nat]

SchedTypeOK ==
  /\ TypeOK
  /\ proc \in [Token -> Local]
  /\ join \in [Joins -> JoinRow]
  /\ granted \in [Node -> Nat]

SchedInit ==
  /\ StoreInit
  /\ proc = [p \in Token |-> Blank("off")]
  /\ join = [n \in Joins |->
               [decision |-> "waiting", passed |-> 0, missing |-> 0]]
  /\ granted = [n \in Node |-> 0]

Least(S) == CHOOSE n \in S : \A m \in S : n <= m

At(p, label) == proc[p].pc = label

Goto(p, label) == proc' = [proc EXCEPT ![p].pc = label]

(* A pass over nodes: what it has read and whom it will visit.             *)
Pass(p, label, read, visit) ==
  proc' = [proc EXCEPT ![p].pc = label, ![p].rows = read, ![p].todo = visit]

(* Nothing the invocation has read matters from here on.                   *)
Quit(p, label) == proc' = [proc EXCEPT ![p] = Blank(label)]

Visited(p, n) == proc' = [proc EXCEPT ![p].todo = @ \ {n}]

-----------------------------------------------------------------------------
(* Beginning: the run row is read, then the lease is taken.  The first     *)
(* invocation is the one that created the run (resume=False).              *)

Start(p) ==
  /\ At(p, "off")
  /\ \A q \in Token : q < p => ~At(q, "off")
  /\ proc' = [proc EXCEPT ![p].pc = "call",
                          ![p].stored = IF \E q \in Token : q < p
                                        THEN runStatus ELSE "created"]
  /\ UNCHANGED <<storeVars, join, granted>>

Ask(p) ==
  /\ At(p, "call")
  /\ Call(p)
  /\ Goto(p, "acquire")
  /\ UNCHANGED <<join, granted>>

(* Nodes that owe the workflow a declared output.                          *)
Owing == {n \in Exported : node[n].status # "succeeded"}

Acquire(p) ==
  /\ At(p, "acquire")
  /\ AcquireLease(p)
  /\ IF p \in Operator THEN Goto(p, "decide")
     ELSE Pass(p, "validate", Unread,
               IF proc[p].stored = "succeeded" THEN Owing ELSE {})
  /\ UNCHANGED <<join, granted>>

Refused(p) ==
  /\ At(p, "acquire")
  /\ LiveOther(p)
  /\ RefuseCall(p)
  /\ Quit(p, "gone")
  /\ UNCHANGED <<join, granted>>

(* reconcile_node, with a decision about some node.                        *)
Decide(p, l) ==
  /\ At(p, "decide")
  /\ \E n \in Node, d \in {"retry", "fail"} :
       /\ ReconcileNode(l, n, d)
       /\ granted' = IF d = "retry" THEN [granted EXCEPT ![n] = @ + 1]
                                    ELSE granted
  /\ Quit(p, "release")
  /\ UNCHANGED join

(* ValueError: the node is not awaiting reconciliation.                    *)
Undecided(p) ==
  /\ At(p, "decide")
  /\ \E n \in Node : node[n].status # "uncertain"
  /\ Quit(p, "release")
  /\ UNCHANGED <<storeVars, join, granted>>

(* A plausible mistake: the artifacts of every node are validated.         *)
SpoilAny(p, l) ==
  /\ proc[p].pc \in {"validate", "check", "spoiled"}
  /\ \E n \in Corruptible : InvalidateNode(l, n)
  /\ Goto(p, "spoiled")
  /\ UNCHANGED <<join, granted>>

(* _validate_accepted: a node whose accepted artifact no longer validates  *)
(* fails, and so does one in Owing (kept in todo, and only when the run is *)
(* or was to be 'succeeded'); then the run fails.                          *)
Spoil(p, l) ==
  /\ proc[p].pc \in {"validate", "check", "spoiled"}
  /\ \E n \in Corruptible : node[n].status = "succeeded" /\ InvalidateNode(l, n)
  /\ Goto(p, "spoiled")
  /\ UNCHANGED <<join, granted>>

Omit(p, l) ==
  /\ proc[p].pc \in {"validate", "check", "spoiled"}
  /\ proc[p].todo # {}
  /\ InvalidateNode(l, Least(proc[p].todo))
  /\ proc' = [proc EXCEPT ![p].pc = "spoiled",
                          ![p].todo = @ \ {Least(@)}]
  /\ UNCHANGED <<join, granted>>

FailSpoiled(p, l) ==
  /\ At(p, "spoiled")
  /\ proc[p].todo = {}
  /\ FinishRun(l, "failed")
  /\ Quit(p, "release")
  /\ UNCHANGED <<join, granted>>

Validated(p) ==
  /\ At(p, "validate")
  /\ proc[p].todo = {}
  /\ proc' = [proc EXCEPT ![p].pc = IF proc[p].stored = "running" THEN "recover" ELSE "top",
                          ![p].stored = "created"]
  /\ UNCHANGED <<storeVars, join, granted>>

Recover(p, l) ==
  /\ At(p, "recover")
  /\ RecoverInterrupted(l)
  /\ Goto(p, IF \E n \in Node : Running(n) /\ n \notin ReplaySafe
             THEN "park" ELSE "top")
  /\ UNCHANGED <<join, granted>>

Park(p, l) ==
  /\ At(p, "park")
  /\ FinishRun(l, "needs_reconciliation")
  /\ Quit(p, "release")
  /\ UNCHANGED <<join, granted>>

-----------------------------------------------------------------------------
(* The top of the loop: renew the lease, every third of its time by a      *)
(* monotonic clock, then look at the run row and the node rows.  Whether a *)
(* renewal is due is left open; one that would change nothing is left out. *)

Renew(p) ==
  /\ At(p, "top")
  /\ owner = p => expires < now + TTL
  /\ Call(p)
  /\ Goto(p, "renew")
  /\ UNCHANGED <<join, granted>>

Renewed(p, l) ==
  /\ At(p, "renew")
  /\ RenewLease(l)
  /\ Goto(p, "look")
  /\ UNCHANGED <<join, granted>>

NotRenewed(p) ==
  /\ At(p, "renew")
  /\ RefuseCall(p)
  /\ Quit(p, "release")
  /\ UNCHANGED <<join, granted>>

StopDue(p) ==
  /\ runStatus = "running"
  /\ proc[p].cancel \/ cancelRequested \/ now >= Deadline

(* _join_snapshot on the statuses R.                                       *)
(* A plausible mistake: a settled vote counts as a vote in favour.         *)
PassedWhenSettled(n, R) == Cardinality({d \in Needs[n] : R[d] \in Terminal})

Passed(n, R)  == Cardinality({d \in Needs[n] : R[d] = "succeeded"})
Missing(n, R) == Cardinality({d \in Needs[n] : R[d] \notin Terminal})

Sunk(n, R) == \E d \in Needs[n] :
                \/ R[d] \in Bad \cup {"skipped"}
                \/ R[d] = "optional_failed" /\ d \in Required

Decision(n, R) ==
  CASE Policy[n] = "all" ->
         IF Sunk(n, R) THEN "failed"
         ELSE IF \A d \in Needs[n] : R[d] \in Good THEN "succeeded"
         ELSE "waiting"
    [] Policy[n] = "all_settled" ->
         IF Missing(n, R) = 0 THEN "succeeded" ELSE "waiting"
    [] Policy[n] = "quorum" ->
         IF Passed(n, R) >= Votes[n] THEN "succeeded"
         ELSE IF Passed(n, R) + Missing(n, R) < Votes[n] THEN "failed"
         ELSE "waiting"

(* Members of a decided quorum that were never dispatched: they are        *)
(* claimed whether or not their own needs are met.                         *)
Reserves(p, R) ==
  {d \in Node \ proc[p].active :
     /\ R[d] = "pending"
     /\ \E c \in Quorum : d \in Needs[c] /\ Decision(c, R) # "waiting"}

Look(p) ==
  /\ proc[p].pc \in {"top", "look"}
  /\ IF StopDue(p) THEN Goto(p, "cancel")
                ELSE Pass(p, "reserve", Fresh, Reserves(p, Fresh))
  /\ UNCHANGED <<storeVars, join, granted>>

Cancel(p, l) ==
  /\ At(p, "cancel")
  /\ FinishRun(l, "cancelled")
  /\ proc' = [proc EXCEPT ![p].pc = "audit", ![p].active = {},
                          ![p].rows = [n \in Node |-> node'[n].status],
                          ![p].todo = Joins]
  /\ UNCHANGED <<join, granted>>

-----------------------------------------------------------------------------
(* One iteration: reserves, joins, blocking, dispatch.                     *)

(* The sum of attempt_count over the rows: the number of attempts.         *)
Attempts == Cardinality({a \in Node \X Number : a[2] <= node[a[1]].count})

(* A plausible mistake: the comparison with the limit is off by one.       *)
RoomForOneMore(p) == /\ Cardinality(proc[p].active) < MaxConcurrency
                     /\ Attempts <= MaxTotal

(* The code counts once before a pass and adds one for each launch of its  *)
(* own; here the rows are counted at each launch.  The counts agree while  *)
(* the lease is held, without which no launch succeeds: nobody else starts *)
(* an attempt under it.                                                    *)
Room(p) == /\ Cardinality(proc[p].active) < MaxConcurrency
           /\ Attempts < MaxTotal

(* launch: admit_attempt and start_attempt; the node's own progress budget *)
(* may be spent.  The pass goes on with the nodes in rest.                 *)
Launch(p, l, n, rest) ==
  \/ /\ StartAttempt(l, n)
     /\ proc' = [proc EXCEPT ![p].active = @ \cup {n}, ![p].todo = rest]
  \/ /\ RefuseAttempt(l, n)
     /\ proc' = [proc EXCEPT ![p].todo = rest]

Reserve(p, l) ==
  /\ At(p, "reserve")
  /\ proc[p].todo # {}
  /\ Room(p)
  /\ Launch(p, l, Least(proc[p].todo), proc[p].todo \ {Least(proc[p].todo)})
  /\ UNCHANGED <<join, granted>>

(* The rows are read again only if a reserve was started.                  *)
Reserved(p) ==
  /\ At(p, "reserve")
  /\ proc[p].todo = {} \/ ~Room(p)
  /\ Pass(p, "join", IF \E n \in proc[p].active : proc[p].rows[n] = "pending"
                     THEN Fresh ELSE proc[p].rows, Joins)
  /\ UNCHANGED <<storeVars, join, granted>>

(* record_join_state: the first decision is frozen.                        *)
RecordJoin(p, l) ==
  /\ proc[p].pc \in {"join", "audit"}
  /\ proc[p].todo # {}
  /\ LeaseLive(l)
  /\ LET n == Least(proc[p].todo)
         R == proc[p].rows
     IN  /\ join' = IF join[n].decision # "waiting" THEN join
                    ELSE [join EXCEPT ![n] = [decision |-> Decision(n, R),
                                              passed |-> Passed(n, R),
                                              missing |-> Missing(n, R)]]
         /\ Visited(p, n)
  /\ UNCHANGED <<storeVars, granted>>

ToBlock(R) ==
  {n \in Node : /\ R[n] = "pending"
                /\ IF n \in Joins THEN join[n].decision = "failed"
                   ELSE \E d \in Needs[n] : R[d] \in Bad}

JoinsRecorded(p) ==
  /\ At(p, "join")
  /\ proc[p].todo = {}
  /\ Pass(p, "block", proc[p].rows, ToBlock(proc[p].rows))
  /\ UNCHANGED <<storeVars, join, granted>>

Audited(p) ==
  /\ At(p, "audit")
  /\ proc[p].todo = {}
  /\ Quit(p, "release")
  /\ UNCHANGED <<storeVars, join, granted>>

Block(p, l) ==
  /\ At(p, "block")
  /\ proc[p].todo # {}
  /\ SetNodeStatus(l, Least(proc[p].todo), "blocked", "dependency")
  /\ Visited(p, Least(proc[p].todo))
  /\ UNCHANGED <<join, granted>>

Blocked(p) ==
  /\ At(p, "block")
  /\ proc[p].todo = {}
  /\ IF proc[p].cancel THEN Pass(p, "pop", Unread, {})
     ELSE Pass(p, "dispatch", Fresh, {n \in Node : node[n].status = "pending"})
  /\ UNCHANGED <<storeVars, join, granted>>

(* _quorum_member_dispatchable: only as many members run as the open       *)
(* decision still needs votes.                                             *)
Wanted(p, n) ==
  LET R == proc[p].rows
  IN  \A c \in Quorum :
        n \in Needs[c] /\ R[c] \in {"pending", "running"} =>
          LET busy == {d \in Needs[c] : d \in proc[p].active \/ R[d] = "running"}
              idle == {d \in Needs[c] : R[d] = "pending" /\ d \notin proc[p].active}
              ahead == {d \in idle : d < n}
          IN  /\ join[c].decision = "waiting"
              /\ n \in idle
              /\ Cardinality(ahead) + Passed(c, R) + Cardinality(busy) < Votes[c]

(* A plausible mistake: the needs are not looked at.                       *)
ReadyAnyway(p, n) == Wanted(p, n)

Ready(p, n) ==
  /\ Wanted(p, n)
  /\ IF n \in Joins THEN join[n].decision = "succeeded"
     ELSE \A d \in Needs[n] : proc[p].rows[d] \in Good

Frontier(p) == {n \in proc[p].todo \ proc[p].active : Ready(p, n)}

(* The pass ends early when a completion has arrived meanwhile.            *)
Dispatch(p, l) ==
  /\ At(p, "dispatch")
  /\ Frontier(p) # {}
  /\ Room(p)
  /\ LET n == Least(Frontier(p))
         after == {m \in proc[p].todo : m > n}
     IN  \/ Launch(p, l, n, after)
         \/ /\ StartAttempt(l, n)
            /\ proc' = [proc EXCEPT ![p].active = @ \cup {n}, ![p].todo = {}]
  /\ UNCHANGED <<join, granted>>

Dispatched(p) ==
  /\ At(p, "dispatch")
  /\ Frontier(p) = {} \/ ~Room(p)
  /\ Pass(p, "pop", Unread, {})
  /\ UNCHANGED <<storeVars, join, granted>>

-----------------------------------------------------------------------------
(* Completions and timeouts.                                               *)

PopAccepted(p, l) ==
  /\ At(p, "pop")
  /\ \E n \in proc[p].active :
       /\ SucceedAttempt(l, n)
       /\ proc' = [proc EXCEPT ![p].pc = "expire", ![p].moved = TRUE,
                               ![p].active = @ \ {n}]
  /\ UNCHANGED <<join, granted>>

(* A plausible mistake: a timed-out entry stays in active.                 *)
PopFailedKept(p, l) ==
  /\ proc[p].pc \in {"pop", "expire"}
  /\ \E n \in proc[p].active :
       /\ FinishAttempt(l, n)
       /\ proc' = [proc EXCEPT ![p].pc = "after", ![p].moved = TRUE,
                               ![p].failed = {n}]
  /\ UNCHANGED <<join, granted>>

(* A popped failure, or an entry past its deadline.                        *)
PopFailed(p, l) ==
  /\ proc[p].pc \in {"pop", "expire"}
  /\ \E n \in proc[p].active :
       /\ FinishAttempt(l, n)
       /\ proc' = [proc EXCEPT ![p].pc = "after", ![p].moved = TRUE,
                               ![p].active = @ \ {n}, ![p].failed = {n}]
  /\ UNCHANGED <<join, granted>>

NoneDone(p) ==
  /\ At(p, "pop")
  /\ Goto(p, "expire")
  /\ UNCHANGED <<storeVars, join, granted>>

(* The rest of _finalize_attempt, a transaction of its own.  Whether the   *)
(* no-progress limit and the progress budget allow a retry is open.        *)
After(p, l) ==
  /\ At(p, "after")
  /\ \E n \in proc[p].failed, retry \in BOOLEAN :
       /\ retry => node[n].count < MaxTries[n]
       /\ IF retry
          THEN SetNodeStatus(l, n, Interrupted(n),
                             IF n \in ReplaySafe THEN "attempt" ELSE "effect")
          ELSE /\ n \notin Required
               /\ SetNodeStatus(l, n, "optional_failed", "attempt")
  /\ proc' = [proc EXCEPT ![p].pc = "expire", ![p].failed = {}]
  /\ UNCHANGED <<join, granted>>

LeftFailed(p) ==
  /\ At(p, "after")
  /\ proc[p].failed \subseteq Required
  /\ proc' = [proc EXCEPT ![p].pc = "expire", ![p].failed = {}]
  /\ UNCHANGED <<storeVars, join, granted>>

-----------------------------------------------------------------------------
(* The end of an iteration.                                                *)

Settled == \A n \in Node : node[n].status \in Terminal
Pending == {n \in Node : node[n].status = "pending"}

(* A plausible mistake: only the producers of workflow outputs count.      *)
VerdictOfOutputs ==
  IF \E n \in Node : node[n].status = "uncertain" THEN "needs_reconciliation"
  ELSE IF \E n \in Node : node[n].status = "cancelled" THEN "cancelled"
  ELSE IF \E n \in Exported : node[n].status \notin {"succeeded", "skipped"}
  THEN "failed" ELSE "succeeded"

Verdict ==
  IF \E n \in Node : node[n].status = "uncertain" THEN "needs_reconciliation"
  ELSE IF \E n \in Node : node[n].status = "cancelled" THEN "cancelled"
  ELSE IF \E n \in Required : node[n].status \notin {"succeeded", "skipped"}
  THEN "failed" ELSE "succeeded"

(* Wait for the active futures, or look again after progress.              *)
Again(p) ==
  /\ At(p, "expire")
  /\ proc[p].active # {} \/ (proc[p].moved /\ ~Settled)
  /\ proc' = [proc EXCEPT ![p].pc = "top", ![p].moved = FALSE]
  /\ UNCHANGED <<storeVars, join, granted>>

Conclude(p, l) ==
  /\ At(p, "expire")
  /\ proc[p].active = {}
  /\ Settled
  /\ Verdict # "succeeded"
  /\ FinishRun(l, Verdict)
  /\ Quit(p, "release")
  /\ UNCHANGED <<join, granted>>

(* Success is announced after another _validate_accepted.                  *)
Check(p) ==
  /\ At(p, "expire")
  /\ proc[p].active = {}
  /\ Settled
  /\ Verdict = "succeeded"
  /\ Pass(p, "check", Unread, Owing)
  /\ UNCHANGED <<storeVars, join, granted>>

Succeed(p, l) ==
  /\ At(p, "check")
  /\ proc[p].todo = {}
  /\ FinishRun(l, "succeeded")
  /\ Quit(p, "release")
  /\ UNCHANGED <<join, granted>>

Idle(p) == /\ At(p, "expire")
           /\ proc[p].active = {}
           /\ ~proc[p].moved
           /\ ~Settled

Spent == Pending # {} /\ Attempts >= MaxTotal

Exhaust(p) ==
  /\ Idle(p)
  /\ Spent
  /\ Pass(p, "budget", Unread, Pending)
  /\ UNCHANGED <<storeVars, join, granted>>

GiveUp(p, l) ==
  /\ At(p, "budget")
  /\ proc[p].todo # {}
  /\ SetNodeStatus(l, Least(proc[p].todo), "failed", "budget")
  /\ Visited(p, Least(proc[p].todo))
  /\ UNCHANGED <<join, granted>>

GivenUp(p) ==
  /\ At(p, "budget")
  /\ proc[p].todo = {}
  /\ Goto(p, "top")
  /\ UNCHANGED <<storeVars, join, granted>>

(* LifecycleError("EVENT_CONFLICT") leaves run(): the journal holds the    *)
(* node's failed event with another error.                                 *)
Conflict(p, l) ==
  /\ At(p, "budget")
  /\ proc[p].todo # {}
  /\ LeaseLive(l)
  /\ Conflicts(Event(Least(proc[p].todo), "failed", "budget"))
  /\ Quit(p, "conflict")
  /\ UNCHANGED <<storeVars, join, granted>>

(* RuntimeError("scheduler made no progress with non-terminal nodes").     *)
Stall(p) ==
  /\ Idle(p)
  /\ ~Spent
  /\ Quit(p, "stalled")
  /\ UNCHANGED <<storeVars, join, granted>>

-----------------------------------------------------------------------------
(* Leaving run().                                                          *)

Writing == {"decide", "validate", "spoiled", "recover", "park", "cancel",
            "audit", "reserve", "join", "block", "dispatch", "pop", "after",
            "expire", "check", "budget"}

(* A transaction finds the lease lost: RunLeaseError.                      *)
LoseLease(p, l) ==
  /\ proc[p].pc \in Writing
  /\ ~LeaseLive(l)
  /\ Quit(p, "release")
  /\ UNCHANGED <<storeVars, join, granted>>

Leave(p, l) ==
  /\ proc[p].pc \in {"release", "stalled", "conflict"}
  /\ ReleaseLease(l)
  /\ Quit(p, "gone")
  /\ UNCHANGED <<join, granted>>

(* The caller sets cancel_event.                                           *)
Interrupt(p) ==
  /\ p \in Interruptible
  /\ proc[p].pc \notin {"off", "release", "stalled", "conflict", "gone"}
  /\ ~proc[p].cancel
  /\ proc' = [proc EXCEPT ![p].cancel = TRUE]
  /\ UNCHANGED <<storeVars, join, granted>>

(* The process dies; its threads die with it.                              *)
Crash(p) ==
  /\ p \in Mortal
  /\ proc[p].pc \notin {"off", "gone"}
  /\ Quit(p, "gone")
  /\ UNCHANGED <<storeVars, join, granted>>

-----------------------------------------------------------------------------
Pop(p, l) == PopAccepted(p, l) \/ PopFailed(p, l)

Step(p) ==
  \/ Ask(p) \/ Acquire(p) \/ Refused(p) \/ Undecided(p) \/ Validated(p)
  \/ Renew(p) \/ NotRenewed(p) \/ Look(p)
  \/ Reserved(p) \/ JoinsRecorded(p) \/ Audited(p) \/ Blocked(p) \/ Dispatched(p)
  \/ NoneDone(p) \/ LeftFailed(p) \/ Again(p) \/ Check(p)
  \/ Exhaust(p) \/ GivenUp(p) \/ Stall(p)
  \/ \E l \in leases :
       /\ l.token = p
       /\ \/ Decide(p, l) \/ Spoil(p, l) \/ Omit(p, l) \/ FailSpoiled(p, l)
          \/ Recover(p, l) \/ Park(p, l) \/ Renewed(p, l) \/ Cancel(p, l)
          \/ Reserve(p, l) \/ RecordJoin(p, l) \/ Block(p, l) \/ Dispatch(p, l)
          \/ Pop(p, l) \/ After(p, l)
          \/ Conclude(p, l) \/ Succeed(p, l) \/ GiveUp(p, l) \/ Conflict(p, l)
          \/ LoseLease(p, l) \/ Leave(p, l)

Environment ==
  /\ Tick \/ RequestCancel
  /\ UNCHANGED <<proc, join, granted>>

SchedNext ==
  \/ Environment
  \/ \E p \in Token : Start(p) \/ Step(p) \/ Interrupt(p) \/ Crash(p)

SchedSpec == SchedInit /\ [][SchedNext]_schedVars

-----------------------------------------------------------------------------
(* What the scheduler promises.                                            *)

(* _replay_safe, recover_interrupted and _finalize_attempt: an effect that *)
(* may have happened is not repeated, across crashes, takeovers, resumes   *)
(* and retries, unless an operator decided "retry" for it.                 *)
NoBlindReplay ==
  \A n \in Node \ ReplaySafe : node[n].count <= 1 + granted[n]

(* budgets: however often the run is resumed, and whoever resumes it, the  *)
(* attempts stay within max_total_attempts, and those that run under the   *)
(* owning lease within max_concurrency.                                    *)
BudgetsKept ==
  /\ Attempts <= MaxTotal
  /\ Cardinality({n \in Node : Running(n) /\ node[n].generation = generation})
       <= MaxConcurrency

(* finish_run("succeeded"): nothing is left to do, every required node     *)
(* succeeded and the accepted outputs of every succeeded node are bound.   *)
(* (A later resume may find an artifact of a Corruptible node spoiled.)    *)
SuccessMeansAll ==
  runStatus = "succeeded" =>
    /\ Settled
    /\ \A n \in (Required \cup Exported) \ Corruptible :
         node[n].status = "succeeded" /\ artifact[n] # 0

(* record_join_state: a quorum was declared reached on the evidence of     *)
(* enough accepted members, whatever became of them since; and was         *)
(* declared impossible only if, barring an operator's retry, enough        *)
(* members have indeed not succeeded.                                      *)
JoinHonest ==
  \A n \in Quorum :
    /\ join[n].decision = "succeeded" =>
         Cardinality({d \in Needs[n] : artifact[d] # 0}) >= Votes[n]
    /\ join[n].decision = "failed" /\ (\A d \in Needs[n] : granted[d] = 0) =>
         Cardinality({d \in Needs[n] : node[d].status = "succeeded"}) < Votes[n]

(* ROADMAP M3, "A consumer cannot start before its producer artifact       *)
(* validates": at the moment a node starts, in whatever invocation, each   *)
(* of its needs has settled well, or its join was decided.                 *)
StartsAfterNeeds ==
  [][\A n \in Node :
       ~Running(n) /\ Running(n)' =>
         IF n \in Joins THEN join[n].decision = "succeeded"
         ELSE \A d \in Needs[n] : node[d].status \in Good]_schedVars

(* A node is blocked only while one of its needs is lost, or its join: a   *)
(* scheduler that read this earlier and lost its lease cannot block it.    *)
BlockedForCause ==
  [][\A n \in Node :
       node[n].status = "pending" /\ node'[n].status = "blocked" =>
         IF n \in Joins THEN join[n].decision = "failed"
         ELSE \E d \in Needs[n] : node[d].status \in Bad]_schedVars

(* finish_run("cancelled") is final for the work: no late result, no       *)
(* resume and no operator's decision starts or settles anything after it.  *)
CancelledStays ==
  [][runStatus = "cancelled" =>
       \A n \in Node \ (Corruptible \cup (Exported \ Required)) :
         node'[n] = node[n]]_schedVars

(* ROADMAP M3, "a failed required node blocks only its descendants": it    *)
(* does block all of them, so the scheduler is never left with pending     *)
(* work that nothing can move.                                             *)
NeverStalled == \A p \in Token : ~At(p, "stalled")

(* docs/CLI.md, "A non-replay-safe interrupted effect stops in             *)
(* needs_reconciliation": a run does not end 'failed' with such an effect  *)
(* still marked as running, where no operator can decide about it.         *)
InterruptedEffectStops ==
  runStatus = "failed" => \A n \in Node \ ReplaySafe : ~Running(n)

(* Every write lands on a row in the state its caller believes it in,      *)
(* though the caller read it transactions ago: the scheduler is one of the *)
(* clients RunStore allows, so RunStore's properties hold of it.           *)
ActsAsStoreClient == Spec

-----------------------------------------------------------------------------
(* Liveness.  A process that has not died takes its next step; and a       *)
(* result or a deadline eventually arrives for what it waits for, since    *)
(* every future has a deadline (timeout_result): it is then settled, or    *)
(* the transaction finds the lease lost.                                   *)

Fairness ==
  \A p \in Token :
    /\ WF_schedVars(Step(p))
    /\ SF_schedVars(\E l \in leases :
                      l.token = p /\ (Pop(p, l) \/ LoseLease(p, l)))

FairSpec == SchedSpec /\ Fairness

(* Every invocation comes to an end, whatever the clock, the other         *)
(* invocations and the executors do.                                       *)
Returns == \A p \in Token : ~At(p, "off") ~> At(p, "gone")
=============================================================================
