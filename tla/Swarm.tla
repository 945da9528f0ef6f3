--------------------------------- MODULE Swarm ---------------------------------
(***************************************************************************)
(* The swarm runner (swarm/swarm_run): lanes run in parallel threads, each *)
(* with an agent in a git worktree and on a branch of its own; evidence    *)
(* decides over a lane, then refuters try to bring a passing lane down,    *)
(* and the exit status is success only if every lane held.                 *)
(*                                                                         *)
(* A worktree's content is who wrote to it: in which swarm, for which      *)
(* lane, as its agent or as its judge.  The judges, checks and refuters,   *)
(* are commands of the operator's that run in the lane's worktree, and     *)
(* nothing keeps them from writing to it.  A killed swarm leaves its       *)
(* branches and worktrees behind, and so does one that succeeded; the next *)
(* one finds them.  A process that times out is killed, not the processes  *)
(* it started: these go on writing.  With isolate = false all lanes share  *)
(* the repository's own tree; that is not modelled.                        *)
(***************************************************************************)
EXTENDS Naturals, FiniteSets

CONSTANTS
  Lane,
  Refuters,    \* [verify] count
  MaxSwarms,   \* bound: swarms started
  MaxMishaps   \* bound: killed swarms, processes left behind

ASSUME SwarmAssumption == Refuters \in Nat

VARIABLES
  swarm,     \* the swarms started
  exit,      \* of the last one: "none" while it runs
  lane,      \* lane[l]: where run_lane is, what the checks found, refuted
  verifying, \* the lane the main thread verifies, if any
  lock,      \* who holds _WORKTREE_LOCK, if any
  branches,  \* branches swarm/l there are, each with its worktree
  tree,      \* tree[l]: who wrote to l's worktree
  stray,     \* lanes with a process left behind
  mishaps    \* bound: so far

swarmVars == <<swarm, exit, lane, verifying, lock, branches, tree, stray,
               mishaps>>

Nobody == "nobody"
Queued == [at |-> "queued", judged |-> {}, refuted |-> 0]

SwarmInit ==
  /\ swarm = 0 /\ exit = "failure"
  /\ lane = [l \in Lane |-> Queued]
  /\ verifying = Nobody /\ lock = Nobody
  /\ branches = {} /\ tree = [l \in Lane |-> {}]
  /\ stray = {} /\ mishaps = 0

Mishap == mishaps < MaxMishaps /\ mishaps' = mishaps + 1

Running   == exit = "none"
LaneAt(l, at) == Running /\ lane[l].at = at
LaneGoto(l, at) == lane' = [lane EXCEPT ![l].at = at]

StartSwarm ==
  /\ ~Running /\ swarm < MaxSwarms
  /\ swarm' = swarm + 1 /\ exit' = "none"
  /\ lane' = [l \in Lane |-> Queued]
  /\ UNCHANGED <<verifying, lock, branches, tree, stray, mishaps>>

------------------------------------------------------------------------------
(* run_lane, in a pool thread.                                             *)

(* git worktree add changes metadata that all worktrees share: one at a    *)
(* time.                                                                   *)
Lock(l) ==
  /\ LaneAt(l, "queued") /\ lock = Nobody
  /\ lock' = l
  /\ LaneGoto(l, "create")
  /\ UNCHANGED <<swarm, exit, verifying, branches, tree, stray, mishaps>>

(* Mutant: a lane's old worktree is used again.                            *)
CreatesAnyway(l) == TRUE

(* git refuses a branch that exists.                                       *)
Creates(l) == l \notin branches

MakeWorktree(l) ==
  /\ LaneAt(l, "create")
  /\ lock' = Nobody
  /\ IF Creates(l)
       THEN /\ branches' = branches \cup {l}
            /\ tree' = [tree EXCEPT ![l] = IF l \in branches THEN @ ELSE {}]
            /\ LaneGoto(l, "agent")
       ELSE LaneGoto(l, "failed") /\ UNCHANGED <<branches, tree>>
  /\ UNCHANGED <<swarm, exit, verifying, stray, mishaps>>

(* _run, for whom: it may write, and leave a process behind.               *)
Command(l, who) ==
  /\ tree' \in {tree, [tree EXCEPT ![l] = @ \cup {<<swarm, l, who>>}]}
  /\ \/ UNCHANGED <<stray, mishaps>>
     \/ Mishap /\ stray' = stray \cup {l}

(* The agent's exit code is not looked at, nor that it timed out.          *)
LaneAgentExits(l) ==
  /\ LaneAt(l, "agent")
  /\ Command(l, "agent")
  /\ LaneGoto(l, "checks")
  /\ UNCHANGED <<swarm, exit, verifying, lock, branches>>

(* Unless --keep-worktrees is given, or git refuses.                       *)
RemoveWorktree(l) == branches' \in {branches, branches \ {l}}

(* All checks run; one failure is enough, and the lane's worktree goes.    *)
RunChecks(l) ==
  /\ LaneAt(l, "checks")
  /\ Command(l, "judge")
  /\ \/ /\ lane' = [lane EXCEPT ![l].at = "passed", ![l].judged = tree[l]]
        /\ UNCHANGED branches
     \/ LaneGoto(l, "failed") /\ RemoveWorktree(l)
  /\ UNCHANGED <<swarm, exit, verifying, lock>>

------------------------------------------------------------------------------
(* The main thread: lanes as they complete, the refuters of one at a time. *)

StartVerify(l) ==
  /\ verifying = Nobody /\ LaneAt(l, "passed")
  /\ verifying' = l
  /\ LaneGoto(l, "verify")
  /\ UNCHANGED <<swarm, exit, lock, branches, tree, stray, mishaps>>

EndVerify(l) ==
  /\ LaneAt(l, "verify")
  /\ verifying' = Nobody
  /\ \E n \in 0 .. Refuters :
       lane' = [lane EXCEPT ![l].at = "verified", ![l].refuted = n]
  /\ IF Refuters > 0 THEN Command(l, "judge")
                     ELSE UNCHANGED <<tree, stray, mishaps>>
  /\ UNCHANGED <<swarm, exit, lock, branches>>

Confirmed(l) == lane[l].at = "verified" /\ 2 * lane[l].refuted <= Refuters

Exit ==
  /\ Running
  /\ \A l \in Lane : lane[l].at \in {"failed", "verified"}
  /\ exit' = IF \A l \in Lane : Confirmed(l) THEN "success" ELSE "failure"
  /\ UNCHANGED <<swarm, lane, verifying, lock, branches, tree, stray,
                 mishaps>>

------------------------------------------------------------------------------
(* The swarm is killed; its agents and judges may survive it.              *)
Kill ==
  /\ Running /\ Mishap
  /\ exit' = "failure"
  /\ stray' \in {stray, stray \cup
       {l \in Lane : lane[l].at \in {"agent", "checks", "verify"}}}
  /\ verifying' = Nobody /\ lock' = Nobody
  /\ UNCHANGED <<swarm, lane, branches, tree>>

LaneStrayWrites(l) ==
  /\ l \in stray \cap branches
  /\ tree' = [tree EXCEPT ![l] = @ \cup {<<0, l, "stray">>}]
  /\ UNCHANGED <<swarm, exit, lane, verifying, lock, branches, stray,
                 mishaps>>

(* An operator merges or drops what a swarm has left, and ends its         *)
(* processes, before the next.                                             *)
CleanUp(l) ==
  /\ ~Running /\ l \in branches
  /\ branches' = branches \ {l} /\ stray' = stray \ {l} /\ exit' = "failure"
  /\ UNCHANGED <<swarm, lane, verifying, lock, tree, mishaps>>

LaneStep(l) == \/ Lock(l) \/ MakeWorktree(l) \/ LaneAgentExits(l)
               \/ RunChecks(l) \/ StartVerify(l) \/ EndVerify(l)
               \/ LaneStrayWrites(l) \/ CleanUp(l)

SwarmNext ==
  \/ StartSwarm
  \/ \E l \in Lane : LaneStep(l)
  \/ Exit
  \/ Kill

SwarmSpec == SwarmInit /\ [][SwarmNext]_swarmVars

------------------------------------------------------------------------------
(* A swarm that exits 0 leaves a worktree for every lane that holds what   *)
(* the lane's own agent and judges wrote in this swarm and nothing else -  *)
(* no leavings of an earlier swarm or of another lane - and, but for what  *)
(* the judges themselves wrote to it, holds exactly what the checks found, *)
(* with no majority of refuters against it.  That a check or a refuter     *)
(* changed the tree after a check had passed, nothing notices: then exit 0 *)
(* is of a tree no check has judged as a whole.  And nothing is said of a  *)
(* lane with a process left behind that still writes.                      *)
SuccessIsProven ==
  exit = "success" =>
    \A l \in Lane \ stray :
      /\ l \in branches
      /\ tree[l] \subseteq {<<swarm, l, "agent">>, <<swarm, l, "judge">>}
      /\ tree[l] \ {<<swarm, l, "judge">>} = lane[l].judged
      /\ lane[l].refuted <= Refuters - lane[l].refuted
=============================================================================
