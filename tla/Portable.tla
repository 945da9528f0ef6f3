-------------------------------- MODULE Portable --------------------------------
(***************************************************************************)
(* The portable runtime (orchestrator.py) around the scheduler: what it    *)
(* binds a run to before anything executes, the receipts it writes beside  *)
(* the database, and the forks that start from a checkpoint (forking.py).  *)
(*                                                                         *)
(* Processes are PortableRuntime objects, each in its own OS process,      *)
(* working on one parent run and on one fork of it.  They share the        *)
(* database and the receipt file, and each keeps maps in memory that do    *)
(* not know which run they are about.  A workflow is one replay-safe agent *)
(* node with one check: module Scheduler has the rest of the loop.  A      *)
(* worker thread may outlive its attempt, its run and its process's lease. *)
(***************************************************************************)
EXTENDS Naturals, Sequences, FiniteSets

CONSTANTS
  Proc,         \* PortableRuntime objects
  Identity,     \* base SHA, profiles, policy and product contract, as one
  None,         \* SQL NULL, an absent row or file
  MaxAttempts,  \* retry.max_attempts of the node
  MaxCalls,     \* bound: calls of run()
  MaxFaults     \* bound: crashes, lost leases, timeouts

ASSUME PortableAssumption == /\ None \notin Proc \cup Identity
                             /\ {MaxAttempts, MaxCalls, MaxFaults} \subseteq Nat

VARIABLES
  row,       \* row[r]: runs.status and runs.lifecycle_state
  manifest,  \* manifest[r]: the runtime_manifests row
  context,   \* context[r]: the lifecycle_contexts row
  journal,   \* journal[r]: the lifecycle_events rows
  lineage,   \* the child's run_forks row
  owner,     \* owner[r]: who holds the run's lease
  ledger,    \* ledger[r]: the receipt file
  binding,   \* binding[r]: the receipt_ledgers row, as the content it digests
  proc,      \* proc[p]: where run() is, for which run, under which identity
  memory,    \* memory[p]: _agent_receipts and _check_receipts
  loaded,    \* loaded[p]: _receipts_loaded
  work,      \* the worker threads alive
  fork,      \* the lineage an operator's fork command has built
  calls,     \* bound: calls of run() so far
  faults     \* bound: faults so far

dbVars   == <<row, manifest, context, journal, lineage, owner, binding>>
procVars == <<proc, memory, loaded, calls, faults>>
vars     == <<dbVars, ledger, procVars, work, fork>>

Run     == {"parent", "child"}
Attempt == 1 .. MaxAttempts
Receipt == [run : Run, kind : {"agent", "check"}, attempt : Attempt]

(* NULL is not a ledger, not even an empty one.                            *)
ASSUME NullIsNoLedger == \A l \in SUBSET Receipt : l # None

Idle    == [pc |-> "idle", run |-> None, identity |-> None, resume |-> FALSE]
Worker(p, r, a) ==
  [proc |-> p, run |-> r, attempt |-> a, at |-> "agent", cancelled |-> FALSE,
   step |-> "none", merged |-> {}]

(* One journalled fact; attempt is 0 where the event has none.             *)
Event(type, a) == [type |-> type, attempt |-> a]
AttemptTerminal == {"attempt.succeeded", "attempt.failed", "attempt.interrupted"}
RunTerminal     == {"succeeded", "failed"}
CheckpointTypes == {"run.started", "run.forked", "run.resumed", "run.succeeded",
                    "run.failed", "node.succeeded", "node.failed",
                    "check.completed"}

Types(j, T)  == {j[i].attempt : i \in {k \in DOMAIN j : j[k].type \in T}}
Started(j)   == Types(j, {"attempt.started"})
Settled(j)   == Types(j, AttemptTerminal)
Accepted(j)  == Types(j, {"attempt.succeeded"})
Active(j)    == Started(j) \ Settled(j)
Checked(j)   == Types(j, {"check.completed"})

Init ==
  /\ row = [r \in Run |-> [status |-> "none", life |-> "none"]]
  /\ manifest = [r \in Run |-> None] /\ context = [r \in Run |-> None]
  /\ journal = [r \in Run |-> <<>>] /\ lineage = None
  /\ owner = [r \in Run |-> None]
  /\ ledger = [r \in Run |-> None] /\ binding = [r \in Run |-> None]
  /\ proc = [p \in Proc |-> Idle]
  /\ memory = [p \in Proc |-> {}] /\ loaded = [p \in Proc |-> {}]
  /\ work = {} /\ fork = None /\ calls = 0 /\ faults = 0

(* An active run's event is chained to the ones before it; a key already   *)
(* used adds nothing.  Keys hold the type and the attempt, except that     *)
(* every lease generation resumes anew.                                    *)
Append1(j, e) ==
  IF e.type # "run.resumed" /\ e \in {j[i] : i \in DOMAIN j} THEN j ELSE Append(j, e)

Record(r, e) == journal' = [journal EXCEPT ![r] = Append1(@, e)]

RecordBoth(r, e, f) ==
  journal' = [journal EXCEPT ![r] = Append1(Append1(@, e), f)]

------------------------------------------------------------------------------
(* run(): one call at a time per object (_run_lock), each of its database  *)
(* transactions a step of its own.                                         *)

Goto(p, pc) == proc' = [proc EXCEPT ![p].pc = pc]
Stop(p)     == proc' = [proc EXCEPT ![p] = Idle]

Enter(p, r, identity, resume, pc) ==
  /\ proc[p].pc = "idle" /\ calls < MaxCalls
  /\ calls' = calls + 1
  /\ proc' = [proc EXCEPT ![p] = [pc |-> pc, run |-> r, identity |-> identity,
                                  resume |-> resume]]
  /\ UNCHANGED <<memory, loaded, faults>>

(* A new run: its row first, its execution identity in a later transaction. *)
CreateRun(p, identity) ==
  /\ row["parent"].status = "none"
  /\ Enter(p, "parent", identity, FALSE, "bind")
  /\ row' = [row EXCEPT !["parent"] = [status |-> "running", life |-> "pending"]]
  /\ UNCHANGED <<manifest, context, journal, lineage, owner, binding, ledger,
                 work, fork>>

BindExecutionIdentity(p) ==
  /\ proc[p].pc = "bind"
  /\ manifest[proc[p].run] = None
  /\ manifest' = [manifest EXCEPT ![proc[p].run] = proc[p].identity]
  /\ Goto(p, "lineage")
  /\ UNCHANGED <<row, context, journal, lineage, owner, binding, ledger,
                 memory, loaded, calls, faults, work, fork>>

(* A call that the run's stored identity, receipts or lineage refuse.      *)
Refuse(p) == /\ Stop(p)
             /\ UNCHANGED <<dbVars, ledger, memory, loaded, calls, faults,
                            work, fork>>

(* Mutant: a resumed run is not compared with its manifest.                *)
IdentityTrusted(r, identity) == manifest[r] # None

IdentityVerified(r, identity) == manifest[r] = identity

Resume(p, r, identity) ==
  /\ row[r].status # "none"
  /\ IdentityVerified(r, identity)
  /\ Enter(p, r, identity, TRUE, IF r \in loaded[p] THEN "lineage" ELSE "load")
  /\ UNCHANGED <<dbVars, ledger, work, fork>>

(* _load_receipts looks for the file before it takes the file lock, and    *)
(* reads the binding of an absent file without it.                         *)
Load(p) ==
  /\ proc[p].pc = "load"
  /\ Goto(p, IF ledger[proc[p].run] = None THEN "unbound" ELSE "locked")
  /\ UNCHANGED <<dbVars, ledger, memory, loaded, calls, faults, work, fork>>

Loaded(p, receipts) ==
  /\ Goto(p, "lineage")
  /\ memory' = [memory EXCEPT ![p] = receipts]
  /\ loaded' = [loaded EXCEPT ![p] = @ \cup {proc[p].run}]
  /\ UNCHANGED <<dbVars, ledger, calls, faults, work, fork>>

LoadAbsent(p) ==
  /\ proc[p].pc = "unbound"
  /\ IF binding[proc[p].run] = None THEN Loaded(p, memory[p]) ELSE Refuse(p)

(* Mutant: the file is rewritten without taking its lock.                  *)
UnlockedAlways(p, r) == TRUE

(* flock on the run's .lock file, and _lock among a process's threads.     *)
Unlocked(p, r) == ~ \E v \in work : v.step # "none" /\ (v.run = r \/ v.proc = p)

Trusted(r) == binding[r] = ledger[r]

(* dict.update on a map keyed by node and attempt, whatever the run.       *)
Remember(old, new) ==
  new \cup {m \in old : m.kind = "agent" =>
                          ~ \E n \in new : n.kind = "agent" /\ n.attempt = m.attempt}

LoadLocked(p) ==
  /\ proc[p].pc = "locked" /\ Unlocked(p, proc[p].run)
  /\ IF Trusted(proc[p].run)
       THEN Loaded(p, Remember(memory[p], ledger[proc[p].run]))
       ELSE Refuse(p)

------------------------------------------------------------------------------
(* Forks: a lineage binds everything a child reuses of its parent's        *)
(* checkpoint, and is rebuilt and compared before the child is dispatched. *)

(* Mutant: the snapshot is of all receipts there are.                      *)
ReceiptSnapshotAll(r, s) == IF binding[r] = None THEN {} ELSE ledger[r]

ReceiptSnapshot(r, s) ==
  LET j == SubSeq(journal[r], 1, s)
  IN IF binding[r] = None THEN {}
     ELSE {m \in ledger[r] : \/ m.kind = "agent" /\ m.attempt \in Settled(j)
                             \/ m.kind = "check" /\ m.attempt \in Checked(j)}

Checkpoint(r, s) ==
  /\ row[r].life = "active"
  /\ s \in DOMAIN journal[r]
  /\ journal[r][s].type \in CheckpointTypes
  /\ Active(SubSeq(journal[r], 1, s)) = {}
  /\ manifest[r] # None
  /\ context[r].identity = manifest[r]
  /\ binding[r] # None => Trusted(r)

Lineage(r, s) ==
  [sequence |-> s, event |-> journal[r][s], context |-> context[r],
   identity |-> manifest[r], receipts |-> ReceiptSnapshot(r, s)]

BuildLineage(s) ==
  /\ row["child"].status = "none" /\ fork = None
  /\ Checkpoint("parent", s)
  /\ fork' = Lineage("parent", s)
  /\ UNCHANGED <<dbVars, ledger, procVars, work>>

CreateForkRun ==
  /\ fork # None /\ row["child"].status = "none"
  /\ journal["parent"][fork.sequence] = fork.event
  /\ context["parent"] = fork.context /\ manifest["parent"] = fork.identity
  /\ row' = [row EXCEPT !["child"] = [status |-> "pending", life |-> "pending"]]
  /\ manifest' = [manifest EXCEPT !["child"] = manifest["parent"]]
  /\ lineage' = fork
  /\ fork' = None
  /\ UNCHANGED <<context, journal, owner, binding, ledger, procVars, work>>

LineageOf(r) == IF r = "child" THEN lineage ELSE None

LineageHolds(r) ==
  LineageOf(r) # None => /\ Checkpoint("parent", lineage.sequence)
                         /\ Lineage("parent", lineage.sequence) = lineage

VerifyLineage(p) ==
  /\ proc[p].pc = "lineage"
  /\ IF LineageHolds(proc[p].run)
       THEN /\ Goto(p, "context")
            /\ UNCHANGED <<dbVars, ledger, memory, loaded, calls, faults,
                           work, fork>>
       ELSE Refuse(p)

Context(p) == [identity |-> proc[p].identity, lineage |-> LineageOf(proc[p].run)]

(* The immutable context and the first event, once; afterwards the same    *)
(* context or nothing.                                                     *)
InitializeContext(p) ==
  LET r == proc[p].run
      first == IF LineageOf(r) = None THEN "run.started" ELSE "run.forked"
  IN /\ proc[p].pc = "context"
     /\ Goto(p, IF LineageOf(r) = None THEN "acquire" ELSE "activate")
     /\ \/ /\ row[r].life = "pending"
           /\ row' = [row EXCEPT ![r].life = "active"]
           /\ context' = [context EXCEPT ![r] = Context(p)]
           /\ Record(r, Event(first, 0))
        \/ /\ row[r].life = "active" /\ context[r] = Context(p)
           /\ UNCHANGED <<row, context, journal>>
     /\ UNCHANGED <<manifest, lineage, owner, binding, ledger, memory, loaded,
                    calls, faults, work, fork>>

(* A fork that has ended cannot be activated again.                        *)
ActivateFork(p) ==
  /\ proc[p].pc = "activate"
  /\ IF row[proc[p].run].status \in {"pending", "running"}
       THEN /\ row' = [row EXCEPT ![proc[p].run].status = "running"]
            /\ Goto(p, "acquire")
            /\ UNCHANGED <<manifest, context, journal, lineage, owner,
                           binding, ledger, memory, loaded, calls, faults,
                           work, fork>>
       ELSE Refuse(p)

(* acquire_lease, then recover_interrupted: what an earlier owner left     *)
(* running is interrupted and, being replay-safe, pending again.           *)
Acquire(p) ==
  LET r == proc[p].run
      j == IF proc[p].resume THEN Append(journal[r], Event("run.resumed", 0))
                             ELSE journal[r]
  IN /\ proc[p].pc = "acquire" /\ owner[r] = None
     /\ owner' = [owner EXCEPT ![r] = p]
     /\ journal' = [journal EXCEPT ![r] =
          IF row[r].status = "running" /\ Active(j) # {}
            THEN Append(j, Event("attempt.interrupted", CHOOSE a \in Active(j) : TRUE))
            ELSE j]
     /\ Goto(p, "run")
     /\ UNCHANGED <<row, manifest, context, lineage, binding, ledger, memory,
                    loaded, calls, faults, work, fork>>

RefuseLease(p) ==
  proc[p].pc = "acquire" /\ owner[proc[p].run] # None /\ Refuse(p)

------------------------------------------------------------------------------
(* The scheduler's loop over the one node, and the worker threads.         *)

Owns(p) == proc[p].pc = "run" /\ owner[proc[p].run] = p

Attempts(r) == Cardinality(Started(journal[r]))

Open(r) == row[r].status = "running" /\ Accepted(journal[r]) = {}

StartAttempt(p) ==
  LET r == proc[p].run
  IN /\ Owns(p) /\ Open(r)
     /\ Active(journal[r]) = {} /\ Attempts(r) < MaxAttempts
     /\ Record(r, Event("attempt.started", Attempts(r) + 1))
     /\ work' = work \cup {Worker(p, r, Attempts(r) + 1)}
     /\ UNCHANGED <<row, manifest, context, lineage, owner, binding, ledger,
                    procVars, fork>>

Move(w, at) == work' = (work \ {w}) \cup {[w EXCEPT !.at = at, !.step = "none"]}

Made(w) == [run |-> w.run, attempt |-> w.attempt,
            kind |-> w.at]

(* _merge_receipts: the file's receipts and those in memory of this run.   *)
Merge(w, mem) ==
  (IF ledger[w.run] = None THEN {} ELSE ledger[w.run]) \cup {m \in mem : m.run = w.run}

(* Mutant: the attempt goes on when its receipt cannot be persisted.        *)
UnpersistedGoesOn(w) == IF w.at = "agent" THEN "check" ELSE "checked"

(* What an attempt comes to whose receipt cannot be persisted.             *)
Unpersisted(w) == "error"

(* _persist_receipts_locked: under the locks the file is read and merged   *)
(* with the map.  A ledger its binding does not vouch for raises, and the  *)
(* attempt fails.                                                          *)
ReadLedger(w) ==
  LET mem == Remember(memory[w.proc], {Made(w)})
  IN /\ w.at \in {"agent", "check"} /\ w.step = "none" /\ Unlocked(w.proc, w.run)
     /\ memory' = [memory EXCEPT ![w.proc] = mem]
     /\ IF ledger[w.run] = None \/ Trusted(w.run)
          THEN work' = (work \ {w}) \cup
                 {[w EXCEPT !.step = "replace", !.merged = Merge(w, mem)]}
          ELSE Move(w, Unpersisted(w))
     /\ UNCHANGED <<dbVars, ledger, proc, loaded, calls, faults, fork>>

(* os.replace puts the new file in place of the old one.                   *)
ReplaceLedger(w) ==
  /\ w.step = "replace"
  /\ ledger' = [ledger EXCEPT ![w.run] = w.merged]
  /\ work' = (work \ {w}) \cup {[w EXCEPT !.step = "bind", !.merged = {}]}
  /\ UNCHANGED <<dbVars, procVars, fork>>

(* A transaction of its own binds the new file, the merged receipts enter  *)
(* the map, and the locks are free.                                        *)
BindReceiptLedger(w) ==
  /\ w.step = "bind"
  /\ binding' = [binding EXCEPT ![w.run] = ledger[w.run]]
  /\ memory' = [memory EXCEPT ![w.proc] = Remember(@, ledger[w.run])]
  /\ Move(w, IF w.at = "check" THEN "checked"
             ELSE IF w.cancelled THEN "error" ELSE "check")
  /\ UNCHANGED <<row, manifest, context, journal, lineage, owner, ledger,
                 proc, loaded, calls, faults, fork>>

RecordCheck(w) ==
  /\ w.at = "checked"
  /\ Record(w.run, Event("check.completed", w.attempt))
  /\ Move(w, "done")
  /\ UNCHANGED <<row, manifest, context, lineage, owner, binding, ledger,
                 procVars, fork>>

(* The adapter or the check fails, before any receipt.                     *)
Break(w) ==
  /\ w.at \in {"agent", "check"} /\ w.step = "none"
  /\ Move(w, "error")
  /\ UNCHANGED <<dbVars, ledger, procVars, fork>>

Fault == faults < MaxFaults /\ faults' = faults + 1

(* finish_attempt: only the active attempt of the lease's owner settles.   *)
Current(w) == /\ Owns(w.proc) /\ proc[w.proc].run = w.run
              /\ w.attempt \in Active(journal[w.run])

Succeed(w) ==
  /\ w.at = "done" /\ Current(w)
  /\ RecordBoth(w.run, Event("attempt.succeeded", w.attempt),
                       Event("node.succeeded", w.attempt))
  /\ work' = work \ {w}
  /\ UNCHANGED <<row, manifest, context, lineage, owner, binding, ledger,
                 procVars, fork>>

(* A failed result, or a deadline that passes while the thread still runs; *)
(* the thread is told (cancelled()) when it was the progress deadline.     *)
Fail(w) ==
  /\ Current(w)
  /\ RecordBoth(w.run, Event("attempt.failed", w.attempt),
                       Event("node.failed", w.attempt))
  /\ \/ w.at = "error" /\ work' = work \ {w} /\ UNCHANGED faults
     \/ /\ w.at \notin {"error", "done"} /\ Fault
        /\ \E told \in BOOLEAN :
             work' = (work \ {w}) \cup {[w EXCEPT !.cancelled = told]}
  /\ UNCHANGED <<row, manifest, context, lineage, owner, binding, ledger,
                 proc, memory, loaded, calls, fork>>

(* A worker whose result nobody waits for.                                 *)
Vanish(w) ==
  /\ w.at \in {"done", "error"} /\ ~Current(w)
  /\ work' = work \ {w}
  /\ UNCHANGED <<dbVars, ledger, procVars, fork>>

Verdict(r) == IF Accepted(journal[r]) # {} THEN "succeeded" ELSE "failed"

(* finish_run and the release of the lease.                                *)
FinishRun(p) ==
  LET r == proc[p].run
      v == Verdict(r)
  IN /\ Owns(p)
     /\ Active(journal[r]) = {}
     /\ Open(r) => Attempts(r) = MaxAttempts
     /\ row' = [row EXCEPT ![r].status = v]
     /\ Record(r, Event(IF v = "succeeded" THEN "run.succeeded" ELSE "run.failed", 0))
     /\ owner' = [owner EXCEPT ![r] = None]
     /\ Stop(p)
     /\ UNCHANGED <<manifest, context, lineage, binding, ledger, memory,
                    loaded, calls, faults, work, fork>>

(* The lease runs out under a live owner: run() raises, its threads go on. *)
LoseLease(p) ==
  /\ Owns(p) /\ Fault
  /\ owner' = [owner EXCEPT ![proc[p].run] = None]
  /\ Stop(p)
  /\ UNCHANGED <<row, manifest, context, journal, lineage, binding, ledger,
                 memory, loaded, calls, work, fork>>

(* The process dies: maps, threads and file locks are gone; the lease it   *)
(* held has expired by the time anybody acquires it.                       *)
Crash(p) ==
  /\ proc[p].pc # "idle" \/ \E w \in work : w.proc = p
  /\ Fault
  /\ Stop(p)
  /\ memory' = [memory EXCEPT ![p] = {}] /\ loaded' = [loaded EXCEPT ![p] = {}]
  /\ work' = {w \in work : w.proc # p}
  /\ owner' = [r \in Run |-> IF owner[r] = p THEN None ELSE owner[r]]
  /\ UNCHANGED <<row, manifest, context, journal, lineage, binding, ledger,
                 calls, fork>>

------------------------------------------------------------------------------
WorkerStep(w) == \/ ReadLedger(w) \/ ReplaceLedger(w) \/ BindReceiptLedger(w)
                 \/ RecordCheck(w) \/ Break(w) \/ Succeed(w) \/ Fail(w) \/ Vanish(w)

RunStep(p) ==
  \/ BindExecutionIdentity(p)
  \/ Load(p)
  \/ LoadAbsent(p)
  \/ LoadLocked(p)
  \/ VerifyLineage(p)
  \/ InitializeContext(p)
  \/ ActivateFork(p)
  \/ Acquire(p)
  \/ RefuseLease(p)
  \/ StartAttempt(p)
  \/ FinishRun(p)

Next ==
  \/ \E p \in Proc, i \in Identity : CreateRun(p, i)
  \/ \E p \in Proc, r \in Run, i \in Identity : Resume(p, r, i)
  \/ \E p \in Proc : RunStep(p) \/ LoseLease(p) \/ Crash(p)
  \/ \E w \in work : WorkerStep(w)
  \/ \E s \in DOMAIN journal["parent"] : BuildLineage(s)
  \/ CreateForkRun

Spec == Init /\ [][Next]_vars

------------------------------------------------------------------------------
(* Type invariant.                                                         *)
PortableTypeOK ==
  /\ \A r \in Run :
       /\ row[r].status \in {"none", "pending", "running"} \cup RunTerminal
       /\ row[r].life \in {"none", "pending", "active"}
       /\ manifest[r] \in Identity \cup {None}
       /\ owner[r] \in Proc \cup {None}
       /\ \A l \in {ledger[r], binding[r]} : l # None => l \subseteq Receipt
  /\ \A w \in work : w.proc \in Proc /\ w.run \in Run /\ w.attempt \in Attempt
  /\ \A p \in Proc : memory[p] \subseteq Receipt /\ loaded[p] \subseteq Run

(* A receipt written for a run stays in its file, whoever writes next and  *)
(* whatever that process has in memory: two owners of a run in turn, a     *)
(* thread of a timed-out attempt, a process that never loaded the file     *)
(* (_merge_receipts under the file lock).                                  *)
Kept(r) == ledger[r] # None => ledger'[r] # None /\ ledger[r] \subseteq ledger'[r]
LedgerKept == [][\A r \in Run : Kept(r)]_vars

(* An attempt the journal says succeeded has its agent and its check       *)
(* receipt in the run's file, also when a process died between the         *)
(* replacement of the file and its binding while another had the run open. *)
AcceptedHasReceipt ==
  \A r \in Run : \A a \in Accepted(journal[r]) :
    \A k \in {"agent", "check"} :
      ledger[r] # None /\ [run |-> r, attempt |-> a, kind |-> k] \in ledger[r]

(* Nothing executes for a run but under the identity and the context the   *)
(* run is bound to; for a fork these are the parent's, and what it was     *)
(* forked from is still the parent's history.                              *)
WorkIsBound ==
  \A p \in Proc : proc[p].pc = "run" =>
    LET r == proc[p].run
    IN /\ manifest[r] = proc[p].identity
       /\ context[r] = Context(p)
       /\ r = "child" =>
            /\ manifest["parent"] = proc[p].identity
            /\ journal["parent"][lineage.sequence] = lineage.event
            /\ lineage.receipts \subseteq
                 (IF ledger["parent"] = None THEN {} ELSE ledger["parent"])

(* The file has been replaced and is not bound: between the two, or for    *)
(* good when the process died there.                                       *)
Ahead(r) ==
  /\ binding[r] # None /\ ledger[r] # None
  /\ binding[r] # ledger[r] /\ binding[r] \subseteq ledger[r]

(* A parent that goes on invalidates its forks in two ways only.  When the *)
(* lineage no longer rebuilds, a receipt came late, from the thread of an  *)
(* attempt that had already failed or been interrupted at the checkpoint;  *)
(* or the parent's file is ahead of its binding, which passes when the     *)
(* binding follows and stays when a crash came between the two.            *)
ForkDriftsOnlyLate ==
  lineage # None /\ ~LineageHolds("child") =>
    \/ LET j == SubSeq(journal["parent"], 1, lineage.sequence)
       IN \E m \in ledger["parent"] \ lineage.receipts :
            m.kind = "agent" /\ m.attempt \in Settled(j) \ Accepted(j)
    \/ Ahead("parent")
=============================================================================
