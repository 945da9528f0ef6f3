------------------------------- MODULE RunStore -------------------------------
(***************************************************************************)
(* The durable store of one run (state.py): the run row with its owner     *)
(* lease, the node rows, the attempt rows and the accepted artifacts.      *)
(* Every method of StateStore is one SQLite transaction taken under BEGIN  *)
(* IMMEDIATE, so it is one action here.  Two of them, acquire_lease and    *)
(* renew_lease, read the clock BEFORE they wait for the write lock: the    *)
(* time they use is sampled by Call and may be old when they commit.       *)
(*                                                                         *)
(* A client is whatever holds a RunLease object: a scheduler, or an        *)
(* operator's reconcile call.  Clients are not otherwise restricted here,  *)
(* so what holds of this module holds whatever the clients do; module      *)
(* Scheduler adds what the real client does.                               *)
(***************************************************************************)
EXTENDS Naturals, FiniteSets

CONSTANTS
  Node,           \* the workflow's nodes
  Token,          \* owner tokens (a fresh uuid4 per process, or given)
  NoToken,        \* SQL NULL in runs.owner_token
  ReplaySafe,     \* the nodes for which Scheduler._replay_safe holds
  Journaled,      \* TRUE for lifecycle runs, FALSE for legacy runs
  TTL,            \* lease_ttl_seconds
  MaxNow,         \* bound: the clock stops here
  MaxGeneration,  \* bound: lease generations issued
  MaxAttempts     \* bound: attempts of one node

ASSUME StoreAssumption ==
  /\ NoToken \notin Token
  /\ ReplaySafe \subseteq Node
  /\ Journaled \in BOOLEAN
  /\ TTL \in Nat \ {0}
  /\ MaxNow \in Nat
  /\ MaxGeneration \in Nat
  /\ MaxAttempts \in Nat

VARIABLES
  now,             \* the wall clock; starts at 1 so that 0 can stand for NULL
  sample,          \* sample[t]: clock read by t's waiting call, 0 if none
  owner,           \* runs.owner_token
  generation,      \* runs.owner_generation
  expires,         \* runs.lease_expires_at, 0 for NULL
  leases,          \* the RunLease objects clients still hold
  runStatus,       \* runs.status
  cancelRequested, \* runs.cancel_requested
  node,            \* the node rows
  attempt,         \* the attempt rows, by node and number
  artifact,        \* artifact[n]: the attempt whose outputs are bound, or 0
  journal          \* the "node:<id>:<status>:<count>" lifecycle events

clockVars == <<now, sample>>
leaseVars == <<owner, generation, expires, leases>>
runVars   == <<runStatus, cancelRequested>>
tableVars == <<node, attempt, artifact, journal>>
storeVars == <<clockVars, leaseVars, runVars, tableVars>>

NodeStatus == {"pending", "running", "succeeded", "failed", "optional_failed",
               "blocked", "skipped", "uncertain", "cancelled"}
RunStatus  == {"running", "succeeded", "failed", "cancelled",
               "needs_reconciliation"}
RowStatus  == {"absent", "running", "succeeded", "failed", "interrupted",
               "cancelled"}

Number    == 1 .. MaxAttempts
NodeRow   == [status : NodeStatus, count : Nat, active : Nat, generation : Nat]
AttemptRow == [status : RowStatus, generation : Nat]
Lease     == [token : Token, generation : Nat]

(* The error text of a journalled node event, up to what makes two events  *)
(* with one key differ.                                                    *)
Reason == {"attempt", "effect", "interrupted", "dependency", "route",
           "budget", "control", "no_payload"}
NodeEvent == [node : Node, status : NodeStatus, count : Nat, reason : Reason]

TypeOK ==
  /\ now \in Nat
  /\ sample \in [Token -> Nat]
  /\ owner \in Token \cup {NoToken}
  /\ generation \in Nat
  /\ expires \in Nat
  /\ leases \subseteq Lease
  /\ runStatus \in RunStatus
  /\ cancelRequested \in BOOLEAN
  /\ node \in [Node -> NodeRow]
  /\ attempt \in [Node -> [Number -> AttemptRow]]
  /\ artifact \in [Node -> Nat]
  /\ journal \subseteq NodeEvent

-----------------------------------------------------------------------------
(* create_run: the run is 'running', every node 'pending', nobody owns it. *)

PendingRow == [status |-> "pending", count |-> 0, active |-> 0, generation |-> 0]
AbsentRow  == [status |-> "absent", generation |-> 0]

StoreInit ==
  /\ now = 1
  /\ sample = [t \in Token |-> 0]
  /\ owner = NoToken
  /\ generation = 0
  /\ expires = 0
  /\ leases = {}
  /\ runStatus = "running"
  /\ cancelRequested = FALSE
  /\ node = [n \in Node |-> PendingRow]
  /\ attempt = [n \in Node |-> [k \in Number |-> AbsentRow]]
  /\ artifact = [n \in Node |-> 0]
  /\ journal = {}

-----------------------------------------------------------------------------
(* The clock and the lease.                                                *)

Tick ==
  /\ now < MaxNow
  /\ now' = now + 1
  /\ UNCHANGED <<sample, leaseVars, runVars, tableVars>>

(* t enters acquire_lease or renew_lease and reads the clock; the write    *)
(* lock and BEGIN IMMEDIATE (busy_timeout 30 s) come after.                *)
Call(t) ==
  /\ sample[t] = 0
  /\ sample' = [sample EXCEPT ![t] = now]
  /\ UNCHANGED <<now, leaseVars, runVars, tableVars>>

LiveOther(t) == owner \notin {NoToken, t} /\ expires > sample[t]
LiveSame(t)  == owner = t /\ expires > sample[t]

(* A plausible mistake: a takeover keeps the generation.                   *)
SameGeneration(t) == IF owner = NoToken THEN generation + 1 ELSE generation

NextGeneration(t) == IF LiveSame(t) THEN generation ELSE generation + 1

AcquireLease(t) ==
  /\ sample[t] # 0
  /\ ~LiveOther(t)
  /\ NextGeneration(t) <= MaxGeneration
  /\ owner' = t
  /\ generation' = NextGeneration(t)
  /\ expires' = sample[t] + TTL
  /\ leases' = leases \cup {[token |-> t, generation |-> NextGeneration(t)]}
  /\ sample' = [sample EXCEPT ![t] = 0]
  /\ UNCHANGED <<now, runVars, tableVars>>

RenewLease(l) ==
  /\ sample[l.token] # 0
  /\ owner = l.token
  /\ generation = l.generation
  /\ expires > sample[l.token]
  /\ expires' = sample[l.token] + TTL
  /\ sample' = [sample EXCEPT ![l.token] = 0]
  /\ UNCHANGED <<now, owner, generation, leases, runVars, tableVars>>

(* RunLeaseError from either call: the transaction is rolled back.         *)
RefuseCall(t) ==
  /\ sample[t] # 0
  /\ \/ LiveOther(t)
     \/ \E l \in leases : /\ l.token = t
                          /\ ~( /\ owner = t
                                /\ generation = l.generation
                                /\ expires > sample[t])
  /\ sample' = [sample EXCEPT ![t] = 0]
  /\ UNCHANGED <<now, leaseVars, runVars, tableVars>>

(* The row is cleared only if it still carries this lease; the client      *)
(* drops its RunLease object either way.                                   *)
ReleaseLease(l) ==
  LET mine == owner = l.token /\ generation = l.generation
  IN  /\ owner' = IF mine THEN NoToken ELSE owner
      /\ expires' = IF mine THEN 0 ELSE expires
      /\ leases' = leases \ {l}
      /\ UNCHANGED <<clockVars, generation, runVars, tableVars>>

(* _assert_lease, evaluated inside the transaction with the current time.  *)
LeaseLive(l) ==
  /\ owner = l.token
  /\ generation = l.generation
  /\ expires > now

-----------------------------------------------------------------------------
(* append_event_connection for the "node:<id>:<status>:<count>" keys: the  *)
(* same key with the same content is a no-op, with other content it raises *)
(* EVENT_CONFLICT and the caller's whole transaction rolls back.  Keys of  *)
(* 'running' and 'succeeded' events cannot recur and are left out.         *)

Event(n, s, r) ==
  [node |-> n, status |-> s, count |-> node[n].count, reason |-> r]

Conflicts(e) ==
  /\ Journaled
  /\ \E f \in journal : /\ <<f.node, f.status, f.count>>
                             = <<e.node, e.status, e.count>>
                        /\ f.reason # e.reason

Journal(E) ==
  /\ \A e \in E : ~Conflicts(e)
  /\ journal' = IF Journaled THEN journal \cup E ELSE journal

-----------------------------------------------------------------------------
(* Attempts.                                                               *)

Running(n) == node[n].status = "running"

(* Plausible mistakes: the lease is not asserted; the attempt's generation *)
(* is not compared with the lease's.                                       *)
ActiveUnleased(l, n)   == Running(n) /\ node[n].generation = l.generation
ActiveInAnyLease(l, n) == LeaseLive(l) /\ Running(n)

(* _assert_active_attempt: the lease is live and n runs attempt            *)
(* node[n].active, started under this very lease generation.               *)
ActiveAttempt(l, n) ==
  /\ LeaseLive(l)
  /\ Running(n)
  /\ node[n].generation = l.generation

(* A plausible mistake: the lease is not asserted.                         *)
StartUnleased(l, n) ==
  /\ node[n].status = "pending"
  /\ node[n].count < MaxAttempts
  /\ node' = [node EXCEPT ![n] = [status |-> "running",
                                  count |-> node[n].count + 1,
                                  active |-> node[n].count + 1,
                                  generation |-> l.generation]]
  /\ attempt' = [attempt EXCEPT ![n][node[n].count + 1] =
                   [status |-> "running", generation |-> l.generation]]
  /\ UNCHANGED <<clockVars, leaseVars, runVars, artifact, journal>>

StartAttempt(l, n) ==
  /\ LeaseLive(l)
  /\ node[n].status = "pending"
  /\ node[n].count < MaxAttempts
  /\ node' = [node EXCEPT ![n] = [status |-> "running",
                                  count |-> node[n].count + 1,
                                  active |-> node[n].count + 1,
                                  generation |-> l.generation]]
  /\ attempt' = [attempt EXCEPT ![n][node[n].count + 1] =
                   [status |-> "running", generation |-> l.generation]]
  /\ UNCHANGED <<clockVars, leaseVars, runVars, artifact, journal>>

(* admit_attempt, or start_attempt itself, finds the node's persisted      *)
(* progress budget spent.  The budget starts with the first attempt.  The  *)
(* events of this refusal have keys of their own.                          *)
RefuseAttempt(l, n) ==
  /\ LeaseLive(l)
  /\ node[n].status = "pending"
  /\ node[n].count > 0
  /\ node' = [node EXCEPT ![n].status = "failed"]
  /\ UNCHANGED <<clockVars, leaseVars, runVars, attempt, artifact, journal>>

(* What both outcomes of an attempt do to its two rows: the attempt row is *)
(* updated WHERE status='running' AND owner_generation = the lease's.      *)
Settle(l, n, s) ==
  LET k == node[n].active
  IN  /\ attempt' = IF attempt[n][k] = [status |-> "running",
                                        generation |-> l.generation]
                    THEN [attempt EXCEPT ![n][k].status = s]
                    ELSE attempt
      /\ node' = [node EXCEPT ![n].status = s, ![n].active = 0,
                              ![n].generation = 0]

FinishAttempt(l, n) ==
  /\ ActiveAttempt(l, n)
  /\ Settle(l, n, "failed")
  /\ Journal({Event(n, "failed", "attempt")})
  /\ UNCHANGED <<clockVars, leaseVars, runVars, artifact>>

(* A plausible mistake: bindings are only inserted, never replaced.        *)
SucceedKeepingOutputs(l, n) ==
  /\ ActiveAttempt(l, n)
  /\ Settle(l, n, "succeeded")
  /\ artifact' = [artifact EXCEPT ![n] = IF @ = 0 THEN node[n].active ELSE @]
  /\ UNCHANGED <<clockVars, leaseVars, runVars, journal>>

SucceedAttempt(l, n) ==
  /\ ActiveAttempt(l, n)
  /\ Settle(l, n, "succeeded")
  /\ artifact' = [artifact EXCEPT ![n] = node[n].active]
  /\ UNCHANGED <<clockVars, leaseVars, runVars, journal>>

-----------------------------------------------------------------------------
(* Node status, recovery, reconciliation and the run row.                  *)

(* A plausible mistake: the lease is not asserted.                         *)
SetStatusUnleased(l, n, s, r) ==
  /\ node' = [node EXCEPT ![n].status = s]
  /\ Journal({Event(n, s, r)})
  /\ UNCHANGED <<clockVars, leaseVars, runVars, attempt, artifact>>

(* set_node_status has no precondition on the row.                         *)
SetNodeStatus(l, n, s, r) ==
  /\ LeaseLive(l)
  /\ node' = [node EXCEPT ![n].status = s]
  /\ Journal({Event(n, s, r)})
  /\ UNCHANGED <<clockVars, leaseVars, runVars, attempt, artifact>>

(* A plausible mistake: an interrupted effect is always repeated.          *)
InterruptedReplayed(n) == "pending"

Interrupted(n) == IF n \in ReplaySafe THEN "pending" ELSE "uncertain"

(* Plausible mistakes: the rows are forgotten; settled rows end as well.   *)
EndNoAttempts(s) == UNCHANGED attempt
EndAllAttempts(s) ==
  attempt' = [n \in Node |-> [k \in Number |->
                IF attempt[n][k].status # "absent"
                THEN [attempt[n][k] EXCEPT !.status = s]
                ELSE attempt[n][k]]]

(* Ends every running attempt row with status s.                           *)
EndAttempts(s) ==
  attempt' = [n \in Node |-> [k \in Number |->
                IF attempt[n][k].status = "running"
                THEN [attempt[n][k] EXCEPT !.status = s]
                ELSE attempt[n][k]]]

RecoverInterrupted(l) ==
  /\ LeaseLive(l)
  /\ EndAttempts("interrupted")
  /\ node' = [n \in Node |->
                IF Running(n)
                THEN [node[n] EXCEPT !.status = Interrupted(n), !.active = 0,
                                     !.generation = 0]
                ELSE node[n]]
  /\ Journal({Event(n, Interrupted(n), "interrupted") :
                n \in {m \in Node : Running(m)}})
  /\ runStatus' = "running"
  /\ UNCHANGED <<clockVars, leaseVars, cancelRequested, artifact>>

(* The operator's decision about a node whose effect may have happened.    *)
(* Its events have keys of their own.                                      *)
ReconcileNode(l, n, decision) ==
  /\ LeaseLive(l)
  /\ node[n].status = "uncertain"
  /\ node' = [node EXCEPT ![n].status =
                IF decision = "retry" THEN "pending" ELSE "failed"]
  /\ runStatus' = "running"
  /\ UNCHANGED <<clockVars, leaseVars, cancelRequested, attempt, artifact,
                 journal>>

(* The binding is kept, and the node's event has a key of its own.         *)
InvalidateNode(l, n) ==
  /\ LeaseLive(l)
  /\ node' = [node EXCEPT ![n].status = "failed"]
  /\ UNCHANGED <<clockVars, leaseVars, runVars, attempt, artifact, journal>>

(* Anybody may ask; no lease is needed.                                    *)
RequestCancel ==
  /\ cancelRequested' = TRUE
  /\ UNCHANGED <<clockVars, leaseVars, runStatus, tableVars>>

KeptByCancel == {"succeeded", "optional_failed"}

(* A plausible mistake: nodes that have not started are left pending.      *)
CancelRunning ==
  /\ node' = [n \in Node |->
                IF ~Running(n) THEN node[n]
                ELSE [node[n] EXCEPT !.status = "cancelled", !.active = 0,
                                     !.generation = 0]]
  /\ EndAttempts("cancelled")
  /\ Journal({Event(n, "cancelled", "no_payload") :
                n \in {m \in Node : Running(m)}})

CancelUnfinished ==
  /\ node' = [n \in Node |->
                IF node[n].status \in KeptByCancel THEN node[n]
                ELSE [node[n] EXCEPT !.status = "cancelled", !.active = 0,
                                     !.generation = 0]]
  /\ EndAttempts("cancelled")
  /\ Journal({Event(n, "cancelled", "no_payload") :
                n \in {m \in Node : node[m].status \notin KeptByCancel}})

FinishRun(l, s) ==
  /\ LeaseLive(l)
  /\ runStatus' = s
  /\ IF s = "cancelled" THEN CancelUnfinished
                         ELSE UNCHANGED <<node, attempt, journal>>
  /\ UNCHANGED <<clockVars, leaseVars, cancelRequested, artifact>>

-----------------------------------------------------------------------------
(* The store under arbitrary clients.  The callers of set_node_status read *)
(* the row they change under the same lease: these are the pairs they use. *)
(* A node is blocked from "failed" when the reserve pass was refused it    *)
(* and the blocking pass works from the rows read before.                  *)

StatusChange ==
  { [from |-> "failed",  to |-> "pending",         why |-> "attempt"],
    [from |-> "failed",  to |-> "uncertain",       why |-> "effect"],
    [from |-> "failed",  to |-> "optional_failed", why |-> "attempt"],
    [from |-> "pending", to |-> "failed",          why |-> "budget"],
    [from |-> "pending", to |-> "blocked",         why |-> "dependency"],
    [from |-> "failed",  to |-> "blocked",         why |-> "dependency"],
    [from |-> "pending", to |-> "skipped",         why |-> "route"] }

ChangeStatus(l, n) ==
  \E c \in StatusChange : /\ node[n].status = c.from
                          /\ SetNodeStatus(l, n, c.to, c.why)

(* An accepted artifact no longer validates, or the workflow is owed an    *)
(* output by a node that is settled without one.                           *)
Invalidate(l, n) ==
  node[n].status \notin {"pending", "running"} /\ InvalidateNode(l, n)

NodeStep(l, n) ==
  \/ StartAttempt(l, n)
  \/ RefuseAttempt(l, n)
  \/ FinishAttempt(l, n)
  \/ SucceedAttempt(l, n)
  \/ ChangeStatus(l, n)
  \/ \E d \in {"retry", "fail"} : ReconcileNode(l, n, d)
  \/ Invalidate(l, n)

LeaseStep(l) ==
  \/ RenewLease(l)
  \/ ReleaseLease(l)
  \/ RecoverInterrupted(l)
  \/ \E s \in RunStatus \ {"running"} : FinishRun(l, s)

Next ==
  \/ Tick
  \/ RequestCancel
  \/ \E t \in Token : Call(t) \/ AcquireLease(t) \/ RefuseCall(t)
  \/ \E l \in leases : LeaseStep(l) \/ \E n \in Node : NodeStep(l, n)

Spec == StoreInit /\ [][Next]_storeVars

-----------------------------------------------------------------------------
(* Safety.                                                                 *)

(* acquire_lease: a generation is issued once, to one token, and only the  *)
(* newest one can own the run; so two holders never both pass              *)
(* _assert_lease.                                                          *)
OneOwner ==
  /\ \A l \in leases : l.generation \in 1 .. generation
  /\ \A l, m \in leases : l.generation = m.generation => l = m
  /\ owner # NoToken =>
       [token |-> owner, generation |-> generation] \in leases

(* start_attempt, finish_attempt, succeed_attempt, recover_interrupted and *)
(* finish_run keep the node row and the attempt rows in step: a running    *)
(* node has one running attempt, its last, under the generation recorded   *)
(* in both rows, and nothing else runs.                                    *)
RowsAgree ==
  \A n \in Node :
    /\ node[n].active = IF Running(n) THEN node[n].count ELSE 0
    /\ ~Running(n) => node[n].generation = 0
    /\ Running(n) => /\ node[n].count \in Number
                     /\ attempt[n][node[n].count].generation
                          = node[n].generation
    /\ \A k \in Number :
         /\ attempt[n][k].status = "running"
              <=> Running(n) /\ k = node[n].count
         /\ attempt[n][k].status = "absent" <=> k > node[n].count

(* succeed_attempt publishes outputs and accepts the attempt in one        *)
(* transaction: whatever happens later, bound artifacts come from an       *)
(* attempt that passed, and a succeeded node shows those of its last one.  *)
AcceptedEvidence ==
  \A n \in Node :
    /\ artifact[n] # 0 => /\ artifact[n] \in Number
                          /\ attempt[n][artifact[n]].status = "succeeded"
    /\ node[n].status = "succeeded" => artifact[n] = node[n].count
                                       /\ artifact[n] # 0

(* Attempts are numbered in the order of the leases that started them.     *)
AttemptsFollowLeases ==
  \A n \in Node : \A k \in Number :
    k <= node[n].count =>
      /\ attempt[n][k].generation \in 1 .. generation
      /\ \A j \in Number :
           j <= k => attempt[n][j].generation <= attempt[n][k].generation

(* ROADMAP M3, "a stale claimant cannot commit after its lease is renewed  *)
(* under a new fencing generation": an attempt passes or fails only in the *)
(* generation it was started in.                                           *)
SettledInOwnGeneration ==
  [][\A n \in Node : \A k \in Number :
       attempt[n][k].status = "running"
         /\ attempt'[n][k].status \in {"succeeded", "failed"}
       => attempt[n][k].generation = generation /\ generation' = generation
    ]_storeVars

(* Attempt rows are an append-only history: a settled row never changes.   *)
HistoryKept ==
  [][\A n \in Node : \A k \in Number :
       attempt[n][k].status \notin {"absent", "running"}
         => attempt'[n][k] = attempt[n][k]]_storeVars

-----------------------------------------------------------------------------
(* The store implements FencedWork, an epoch being a lease generation.     *)

Phase(n) == CASE Running(n) -> "busy"
              [] node[n].status = "pending" -> "open"
              [] node[n].status = "succeeded" -> "accepted"
              [] OTHER -> "closed"

Work == INSTANCE FencedWork WITH
          epoch    <- generation,
          work     <- [n \in Node |-> Phase(n)],
          begun    <- [n \in Node |-> node[n].generation],
          evidence <- [n \in Node |->
                         IF artifact[n] = 0 THEN 0
                         ELSE attempt[n][artifact[n]].generation]

(* Whatever clients do with tokens, expired leases and interrupted runs,   *)
(* the store behaves like FencedWork: state.py's module promise, "run-     *)
(* owner leases, and attempt fencing".                                     *)
ImplementsFencedWork == Work!Spec
=============================================================================
