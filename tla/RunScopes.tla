------------------------------- MODULE RunScopes -------------------------------
(***************************************************************************)
(* Launches of runs (cli.py, _run) and the registry of run scopes          *)
(* (project.py, RunScopeRegistry): a scope is the execution identity of a  *)
(* repository, base, contract and workflow, and one run at a time should   *)
(* have it.  The registry is a database of its own: whether its entry is   *)
(* still good it finds out from the run's state database, in another       *)
(* transaction, and the launch goes on under no lock at all.               *)
(*                                                                         *)
(* A run is a run id with its state path.  What the runtime does between   *)
(* its first and its last lease is one state, "run"; RunStore and          *)
(* Scheduler are about that.                                               *)
(***************************************************************************)
EXTENDS Naturals

CONSTANTS
  Proc,      \* processes of graph-engineer run
  Run,
  Scope,
  None,
  MaxLaunches \* bound: launches

ASSUME NoneFresh == None \notin Run \cup Proc \cup Scope

VARIABLES
  entry,   \* active_scopes: the run that has the scope, if any
  status,  \* runs.status as the registry tells it apart
  bound,   \* runtime_manifests: the identity the run is bound to
  forks,   \* runs that are forks
  worker,  \* the live owner of the run's lease, if any
  proc,    \* proc[p]: where _run is, and with which arguments
  loose,   \* history: runs that ended, or that a resume claimed before
           \* their row said running
  launches \* bound: launches so far

scopeVars == <<entry, status, bound, forks, worker, proc, loose, launches>>

(* "absent": there is no row, or no file.  "halted": the run has ended in  *)
(* any status and left nodes to do; "ended": it left none.                 *)
Status == {"absent", "pending", "running", "halted", "ended"}

Idle == [pc |-> "idle", run |-> None, scope |-> None, resume |-> FALSE]

ScopeInit ==
  /\ entry  = [s \in Scope |-> None]
  /\ status = [r \in Run |-> "absent"]
  /\ bound  = [r \in Run |-> None]
  /\ worker = [r \in Run |-> None]
  /\ proc   = [p \in Proc |-> Idle]
  /\ forks = {} /\ loose = {} /\ launches = 0

At(p, pc) == proc[p].pc = pc
Goto(p, pc) == proc' = [proc EXCEPT ![p].pc = pc]
Leave(p)     == proc' = [proc EXCEPT ![p] = Idle]

------------------------------------------------------------------------------
(* RunScopeRegistry.                                                       *)

(* Mutant: a run without a row does not count.                             *)
IsActiveRow(r) == status[r] = "running"

(* _entry_is_active: without a row the run may be about to begin.          *)
IsActive(r) == status[r] \in {"absent", "running"}

Holder(s) ==
  IF entry[s] # None /\ IsActive(entry[s]) THEN entry[s] ELSE None

(* claim; DUPLICATE_ACTIVE_RUN leaves everything as it is.                 *)
ClaimScope(p, r, s, resume) ==
  /\ At(p, "idle") /\ launches < MaxLaunches
  /\ Holder(s) = None \/ (resume /\ Holder(s) = r)
  /\ entry' = [entry EXCEPT ![s] = r]
  /\ proc' = [proc EXCEPT ![p] =
                [pc |-> "claimed", run |-> r, scope |-> s, resume |-> resume]]
  /\ loose' = IF resume /\ status[r] # "running" THEN loose \cup {r} ELSE loose
  /\ launches' = launches + 1
  /\ UNCHANGED <<status, bound, forks, worker>>

(* release_if_inactive: the state database first, ...                      *)
ReadStatus(p) ==
  /\ At(p, "release")
  /\ IF status[proc[p].run] = "running" THEN Leave(p) ELSE Goto(p, "delete")
  /\ UNCHANGED <<entry, status, bound, forks, worker, loose, launches>>

(* ... then the entry, if it still names this run.                         *)
Delete(p) ==
  LET s == proc[p].scope
  IN /\ At(p, "delete")
     /\ entry' = IF entry[s] = proc[p].run THEN [entry EXCEPT ![s] = None]
                 ELSE entry
     /\ Leave(p)
     /\ UNCHANGED <<status, bound, forks, worker, loose, launches>>

------------------------------------------------------------------------------
(* PortableRuntime.run, between the claim and the release.                 *)

(* create_run; the row's key refuses a run that is there.                  *)
CreateRun(p) ==
  LET r == proc[p].run
  IN /\ At(p, "claimed") /\ ~proc[p].resume
     /\ IF status[r] = "absent"
        THEN status' = [status EXCEPT ![r] = "running"] /\ Goto(p, "created")
        ELSE UNCHANGED status /\ Goto(p, "release")
     /\ UNCHANGED <<entry, bound, forks, worker, loose, launches>>

BindIdentity(p) ==
  /\ At(p, "created")
  /\ bound' = [bound EXCEPT ![proc[p].run] = proc[p].scope]
  /\ Goto(p, "bound")
  /\ UNCHANGED <<entry, status, forks, worker, loose, launches>>

(* A resume is refused if there is no such run or if it is bound to        *)
(* another identity, or to none.                                           *)
Resumable(r, s) == status[r] # "absent" /\ bound[r] = s

VerifyIdentity(p) ==
  /\ At(p, "claimed") /\ proc[p].resume
  /\ Goto(p, IF Resumable(proc[p].run, proc[p].scope) THEN "bound" ELSE "release")
  /\ UNCHANGED <<entry, status, bound, forks, worker, loose, launches>>

(* activate_fork, then acquire_lease; either may refuse.                   *)
Activated(r) == IF status[r] = "pending" THEN "running" ELSE status[r]
Executable(r) == r \in forks => Activated(r) = "running"

Acquire(p) ==
  LET r == proc[p].run
  IN /\ At(p, "bound")
     /\ IF Executable(r)
        THEN /\ status' = [status EXCEPT ![r] = Activated(r)]
             /\ IF worker[r] = None
                THEN worker' = [worker EXCEPT ![r] = p] /\ Goto(p, "run")
                ELSE UNCHANGED worker /\ Goto(p, "release")
        ELSE UNCHANGED <<status, worker>> /\ Goto(p, "release")
     /\ UNCHANGED <<entry, bound, forks, loose, launches>>

(* finish_run and release_lease.  A run that left nothing to do is only    *)
(* answered again.                                                         *)
Conclude(p) ==
  LET r == proc[p].run
  IN /\ At(p, "run")
     /\ \E end \in {"halted", "ended"} :
          /\ status[r] = "ended" => end = "ended"
          /\ status' = [status EXCEPT ![r] = end]
     /\ loose' = loose \cup {r}
     /\ worker' = [worker EXCEPT ![r] = None]
     /\ Goto(p, "release")
     /\ UNCHANGED <<entry, bound, forks, launches>>

(* An error: from the project boundary, the workflow, the lineage or the   *)
(* context before the lease, or out of Scheduler.run, which releases it.   *)
Raise(p) ==
  /\ proc[p].pc \in {"claimed", "created", "bound", "run"}
  /\ Goto(p, "release")
  /\ worker' = [r \in Run |-> IF worker[r] = p THEN None ELSE worker[r]]
  /\ UNCHANGED <<entry, status, bound, forks, loose, launches>>

(* The process dies, and in time its lease expires.                        *)
Crash(p) ==
  /\ ~At(p, "idle")
  /\ Leave(p)
  /\ worker' = [r \in Run |-> IF worker[r] = p THEN None ELSE worker[r]]
  /\ UNCHANGED <<entry, status, bound, forks, loose, launches>>

------------------------------------------------------------------------------
(* What changes a run's row without the registry.                          *)

(* Scheduler.reconcile_node, under a lease of its own.                     *)
ReconcileNode(r) ==
  /\ status[r] = "halted" /\ worker[r] = None
  /\ status' = [status EXCEPT ![r] = "running"]
  /\ UNCHANGED <<entry, bound, forks, worker, proc, loose, launches>>

(* create_fork_run: the fork is pending, under its parent's identity.      *)
CreateFork(parent, r) ==
  /\ status[r] = "absent" /\ bound[parent] # None
  /\ status' = [status EXCEPT ![r] = "pending"]
  /\ bound' = [bound EXCEPT ![r] = bound[parent]]
  /\ forks' = forks \cup {r}
  /\ UNCHANGED <<entry, worker, proc, loose, launches>>

Launch(p) ==
  \/ \E r \in Run, s \in Scope, resume \in BOOLEAN : ClaimScope(p, r, s, resume)
  \/ CreateRun(p) \/ BindIdentity(p) \/ VerifyIdentity(p) \/ Acquire(p)
  \/ Conclude(p) \/ Raise(p) \/ ReadStatus(p) \/ Delete(p) \/ Crash(p)

ScopeNext ==
  \/ \E p \in Proc : Launch(p)
  \/ \E r \in Run : ReconcileNode(r)
  \/ \E parent, r \in Run : CreateFork(parent, r)

ScopeSpec == ScopeInit /\ [][ScopeNext]_scopeVars

------------------------------------------------------------------------------
(* "two run IDs cannot concurrently own one repo/base/contract/workflow    *)
(* scope" (tests/test_cli.py): processes that work in one scope at a time  *)
(* work on one run, unless a run among theirs had ended, or was claimed by *)
(* a resume before its row said running: these two the registry takes for  *)
(* inactive while they are worked on.                                      *)
Working(p) == At(p, "run") /\ proc[p].run \notin loose

OneRunPerScope ==
  \A p, q \in Proc :
    Working(p) /\ Working(q) /\ proc[p].scope = proc[q].scope =>
      proc[p].run = proc[q].run
=============================================================================
