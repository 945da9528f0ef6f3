------------------------------- MODULE TaskStore -------------------------------
(***************************************************************************)
(* One row of the MCP task store (mcp/store.py, mcp/server.py): a graph    *)
(* task that workers claim, renew and settle through tool calls.  Rows do  *)
(* not interact, so one stands for all of them.                            *)
(*                                                                         *)
(* Every write reads the clock first, then waits for SQLite's write lock   *)
(* (up to 10 s), and is judged by the time it read: Issue and the action   *)
(* that takes the lock are separate here.  The answer to a claim is a      *)
(* second read of the row, after the commit: Answer is separate too.       *)
(***************************************************************************)
EXTENDS Naturals, FiniteSets

CONSTANTS
  Worker,         \* the owners workers claim under, one each
  NoWorker,       \* SQL NULL
  LeaseMs,        \* lease durations, MIN_LEASE_MS .. MAX_LEASE_MS
  MaxClock,       \* bound: the clock stops here
  MaxGeneration,  \* bound: claims granted
  MaxCalls        \* bound: calls waiting for the write lock

ASSUME TaskAssumption ==
  /\ NoWorker \notin Worker
  /\ LeaseMs \subseteq Nat \ {0}
  /\ MaxClock \in Nat
  /\ MaxGeneration \in Nat
  /\ MaxCalls \in Nat

VARIABLES
  clock,      \* clock_ms
  state,      \* the row's columns, with 0 for NULL in lease_expires_ms
  owner,
  generation,
  expires,
  result,     \* whose result_json the row holds
  calls,      \* calls that have read the clock and wait for the lock
  answering,  \* workers whose claim is committed and not yet answered
  claim,      \* claim[w]: the owner and generation w was last told to use
  granted     \* history: granted[g] is the worker whose claim drew g

rowVars  == <<state, owner, generation, expires, result>>
taskVars == <<clock, rowVars, calls, answering, claim, granted>>

Terminal   == {"completed", "failed", "cancelled"}
State      == {"pending", "claimed"} \cup Terminal
Operation  == {"claim", "heartbeat", "complete", "fail", "cancel"}
Generation == 1 .. MaxGeneration
Claim      == [owner : Worker, generation : Nat]
NoClaim    == [owner |-> NoWorker, generation |-> 0]
CallRecord == [op : Operation, by : Worker, owner : Worker,
               generation : Nat, lease : LeaseMs, now : Nat]

TypeOK ==
  /\ clock \in Nat
  /\ state \in State
  /\ owner \in Worker \cup {NoWorker}
  /\ generation \in Nat
  /\ expires \in Nat
  /\ result \in Worker \cup {NoWorker}
  /\ calls \subseteq CallRecord
  /\ answering \subseteq Worker
  /\ claim \in [Worker -> Claim \cup {NoClaim}]
  /\ granted \in [Generation -> Worker \cup {NoWorker}]

(* create: a pending row, generation 0.                                    *)
Init ==
  /\ clock = 1
  /\ state = "pending"
  /\ owner = NoWorker
  /\ generation = 0
  /\ expires = 0
  /\ result = NoWorker
  /\ calls = {}
  /\ answering = {}
  /\ claim = [w \in Worker |-> NoClaim]
  /\ granted = [g \in Generation |-> NoWorker]

Tick ==
  /\ clock < MaxClock
  /\ clock' = clock + 1
  /\ UNCHANGED <<rowVars, calls, answering, claim, granted>>

-----------------------------------------------------------------------------
(* A worker calls a tool and the store reads the clock.  Writes carry the  *)
(* owner and generation of the answer to the worker's last claim, as the   *)
(* server's instructions ask; the store checks owner and generation before *)
(* it takes the lock.  A worker may call again before it has an answer.    *)

Credential(w, op) ==
  IF op = "claim" THEN [owner |-> w, generation |-> 0] ELSE claim[w]

Issue(w, op, lease) ==
  /\ Cardinality(calls) < MaxCalls
  /\ Credential(w, op).owner # NoWorker
  /\ calls' = calls \cup
       {[op |-> op, by |-> w, owner |-> Credential(w, op).owner,
         generation |-> Credential(w, op).generation,
         lease |-> lease, now |-> clock]}
  /\ UNCHANGED <<clock, rowVars, answering, claim, granted>>

(* The call ends without effect: it is refused, the lock times out, or the *)
(* server dies before it commits.                                          *)
Drop(c) ==
  /\ calls' = calls \ {c}
  /\ UNCHANGED <<clock, rowVars, answering, claim, granted>>

-----------------------------------------------------------------------------
(* The writes, each one transaction.                                       *)

(* A plausible mistake: an owner that is slow is not waited for.           *)
ClaimableHeld(c) == state \in {"pending", "claimed"}

Claimable(c) ==
  \/ state = "pending"
  \/ state = "claimed" /\ expires <= c.now

(* A plausible mistake: a takeover keeps the generation.                   *)
GrantInPlace(c) ==
  /\ c.op = "claim"
  /\ Claimable(c)
  /\ generation < MaxGeneration
  /\ state' = "claimed"
  /\ owner' = c.owner
  /\ generation' = IF state = "pending" THEN generation + 1 ELSE generation
  /\ expires' = c.now + c.lease
  /\ calls' = calls \ {c}
  /\ answering' = answering \cup {c.by}
  /\ granted' = [granted EXCEPT ![generation'] = c.by]
  /\ UNCHANGED <<clock, result, claim>>

Grant(c) ==
  /\ c.op = "claim"
  /\ Claimable(c)
  /\ generation < MaxGeneration
  /\ state' = "claimed"
  /\ owner' = c.owner
  /\ generation' = generation + 1
  /\ expires' = c.now + c.lease
  /\ calls' = calls \ {c}
  /\ answering' = answering \cup {c.by}
  /\ granted' = [granted EXCEPT ![generation + 1] = c.by]
  /\ UNCHANGED <<clock, result, claim>>

(* self.inspect(task_id), and response("claim", claim.task): the worker is *)
(* told the owner and generation the row holds by then.  Without an owner  *)
(* the answer is of no use to it.                                          *)
Answer(w) ==
  /\ w \in answering
  /\ answering' = answering \ {w}
  /\ claim' = [claim EXCEPT ![w] =
                 IF owner = NoWorker THEN NoClaim
                 ELSE [owner |-> owner, generation |-> generation]]
  /\ UNCHANGED <<clock, rowVars, calls, granted>>

(* _fenced_update's test.                                                  *)
Valid(c) ==
  /\ state = "claimed"
  /\ owner = c.owner
  /\ generation = c.generation
  /\ expires > c.now

(* A plausible mistake: the lease is prolonged instead of renewed.         *)
HeartbeatAdding(c) ==
  /\ c.op = "heartbeat"
  /\ Valid(c)
  /\ expires' = expires + c.lease
  /\ calls' = calls \ {c}
  /\ UNCHANGED <<clock, state, owner, generation, result, answering, claim,
                 granted>>

Heartbeat(c) ==
  /\ c.op = "heartbeat"
  /\ Valid(c)
  /\ expires' = c.now + c.lease
  /\ calls' = calls \ {c}
  /\ UNCHANGED <<clock, state, owner, generation, result, answering, claim,
                 granted>>

Close(s) ==
  /\ state' = s
  /\ owner' = NoWorker
  /\ expires' = 0
  /\ UNCHANGED generation

Settle(c) ==
  /\ Valid(c)
  /\ \/ c.op = "complete" /\ Close("completed") /\ result' = c.by
     \/ c.op = "fail"     /\ Close("failed")    /\ UNCHANGED result
     \/ c.op = "cancel"   /\ Close("cancelled") /\ UNCHANGED result
  /\ calls' = calls \ {c}
  /\ UNCHANGED <<clock, answering, claim, granted>>

(* tasks/cancel, from any MCP client that knows the task.                  *)
ProtocolCancel ==
  /\ state \notin Terminal
  /\ Close("cancelled")
  /\ UNCHANGED <<clock, result, calls, answering, claim, granted>>

(* A worker restarts and no longer knows its claim.                        *)
Forget(w) ==
  /\ answering' = answering \ {w}
  /\ claim' = [claim EXCEPT ![w] = NoClaim]
  /\ UNCHANGED <<clock, rowVars, calls, granted>>

Next ==
  \/ Tick
  \/ ProtocolCancel
  \/ \E w \in Worker :
       \/ \E op \in Operation, lease \in LeaseMs : Issue(w, op, lease)
       \/ Answer(w)
       \/ Forget(w)
  \/ \E c \in calls : Grant(c) \/ Heartbeat(c) \/ Settle(c) \/ Drop(c)

Spec == Init /\ [][Next]_taskVars

-----------------------------------------------------------------------------
(* Properties.                                                             *)

(* claim and _fenced_update keep the row's columns in step: a lease and an *)
(* owner exactly while it is claimed, the owner being the worker that drew *)
(* the newest generation, and a result exactly when it is completed.       *)
RowAgrees ==
  /\ generation <= MaxGeneration
  /\ state = "pending" => generation = 0
  /\ state = "claimed" <=> owner # NoWorker
  /\ state = "claimed" <=> expires # 0
  /\ state = "claimed" => generation # 0 /\ granted[generation] = owner
  /\ state = "completed" <=> result # NoWorker
  /\ \A g \in Generation : granted[g] # NoWorker <=> g <= generation

(* No call and no answer carries a generation the store has not issued, no *)
(* call is judged by a time to come, and no lease outlives the longest     *)
(* duration a call may ask for.                                            *)
NothingForged ==
  /\ \A w \in Worker : claim[w].generation <= generation
  /\ \A c \in calls : /\ c.generation <= generation
                      /\ c.now <= clock
                      /\ c.op = "claim" => c.owner = c.by
  /\ expires > 0 => \E e \in LeaseMs : expires <= clock + e

(* claim: a fencing generation is drawn by one worker, once, and is newer  *)
(* than all before it ("an expired claim is reclaimed with a higher        *)
(* generation").                                                           *)
DrawnOnce ==
  [][/\ generation' >= generation
     /\ \A g \in Generation :
          granted[g] # NoWorker => granted'[g] = granted[g]]_taskVars

(* "Claims are exclusive": a claim passes to another worker only after its *)
(* lease has run out, however old the clock reading of the other claim is. *)
TakenOverWhenExpired ==
  [][state = "claimed" /\ generation' # generation => expires <= clock]_taskVars

(* A terminal row never changes again: late, repeated and reordered calls  *)
(* find no claim to write under, and tasks/cancel spares it.               *)
TerminalStable == [][(state \in Terminal) => UNCHANGED rowVars]_taskVars

-----------------------------------------------------------------------------
(* What the documents say and the code does not do.                        *)

(* docs/MCP.md: after a takeover "the old worker cannot commit even if it  *)
(* wakes up later": a result comes from the worker that drew the newest    *)
(* generation.                                                             *)
OldWorkerCannotCommit == result # NoWorker => result = granted[generation]
=============================================================================
