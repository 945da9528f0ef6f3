------------------------------- MODULE Workspaces -------------------------------
(***************************************************************************)
(* The isolated git worktrees of a run (worktrees.py) and the executors    *)
(* that use them (orchestrator.py): an agent node runs a configured        *)
(* process in a worktree of its own, with fallback profiles, and its diff  *)
(* becomes a change set; the integration node applies the accepted change  *)
(* sets to a worktree of its own; deterministic checks run in the worktree *)
(* of the attempt they judge.                                              *)
(*                                                                         *)
(* A file's content is the set of those who wrote it: one, unless changes  *)
(* to separate parts of it were put together.  Files that git ignores are  *)
(* not in the diff and not here.  Each attempt is a worker thread, a       *)
(* process it spawns may leave a descendant behind that still writes, and  *)
(* both may outlive the attempt; the maps of worktrees and snapshots are   *)
(* the runtime object's, keyed by node and attempt only.                   *)
(***************************************************************************)
EXTENDS Naturals, FiniteSets

CONSTANTS
  RunId,        \* the runs one object executes, one after the other
  Writer,       \* the agent nodes, as numbers
  Integration,  \* the integration node, needing every writer
  HasFallback,  \* the writers with a fallback profile
  File,         \* repository paths
  Scope,        \* Scope[n]: the node's write_scope
  Tries,        \* Tries[n]: the node's retry.max_attempts
  Edits,        \* the sets of files an agent's process may write
  MaxOdd        \* bound: processes and threads that outlive their call

Node == Writer \cup {Integration}

(* What the proofs assume: an object that executes one run (the command    *)
(* line makes one for each of its runs).                                   *)
WorkspacesAssumption ==
  /\ 0 \notin RunId /\ \A q, r \in RunId : q = r
  /\ Integration \notin Writer
  /\ \A F \in Edits : F \subseteq File

VARIABLES
  current,   \* the run executing, 0 for none
  resumed,   \* whether it executes by --resume
  tree,      \* tree[w]: the files of worktree w that differ from the base
  worktrees, \* worktrees[k]: _worktrees, by node and attempt
  snapshots, \* snapshots[k]: _snapshots, by node and attempt
  count,     \* count[r][n]: attempts started
  active,    \* active[r][n]: the attempt running, or 0
  accepted,  \* accepted[r][n]: the accepted attempt, or Nothing
  threads,   \* worker threads
  stray,     \* worktrees a left-behind process may still write to
  odd        \* bound: such processes and threads so far

nodeVars == <<count, active, accepted>>
mapVars  == <<worktrees, snapshots>>
wsVars   == <<current, resumed, tree, mapVars, nodeVars, threads, stray, odd>>

Empty   == <<>>
Nothing == [attempt |-> 0, change |-> Empty, judged |-> Empty]

(* create: path root/run/node-aN-fM, which must not exist yet.             *)
Name(t) == [run |-> t.run, node |-> t.node, attempt |-> t.attempt, cand |-> t.cand]
Key(t) == <<t.node, t.attempt>>
Exists(w) == w \in DOMAIN tree
With(f, k, v) == [x \in DOMAIN f \cup {k} |-> IF x = k THEN v ELSE f[x]]

Thread(r, n, a) ==
  [run |-> r, node |-> n, attempt |-> a, cand |-> 0, at |-> "create",
   todo |-> {}, change |-> Empty, judged |-> Empty]

Step(t, at)   == threads' = (threads \ {t}) \cup {[t EXCEPT !.at = at]}
Become(t, t2) == threads' = (threads \ {t}) \cup {t2}

TreeInit ==
  /\ current = 0 /\ resumed = FALSE
  /\ tree = Empty /\ worktrees = Empty /\ snapshots = Empty
  /\ count = [r \in RunId |-> [n \in Node |-> 0]]
  /\ active = [r \in RunId |-> [n \in Node |-> 0]]
  /\ accepted = [r \in RunId |-> [n \in Node |-> Nothing]]
  /\ threads = {} /\ stray = {} /\ odd = 0

------------------------------------------------------------------------------
(* The scheduler above, as far as worktrees can tell.                      *)

Done(r, n)     == accepted[r][n] # Nothing
Exhausted(r)   == \E n \in Node : ~Done(r, n) /\ count[r][n] = Tries[n]
Finished(r)    == (\A n \in Node : Done(r, n)) \/ Exhausted(r)
Needs(n)       == IF n = Integration THEN Writer ELSE {}
Untouched(r)   == \A n \in Node : count[r][n] = 0

Begin(r) ==
  /\ current = 0 /\ Untouched(r) /\ \A q \in RunId : q < r => Finished(q)
  /\ current' = r /\ resumed' = FALSE
  /\ UNCHANGED <<tree, mapVars, nodeVars, threads, stray, odd>>

LaunchAttempt(n) ==
  LET r == current
  IN /\ r # 0 /\ ~Done(r, n) /\ active[r][n] = 0 /\ count[r][n] < Tries[n]
     /\ \A p \in Needs(n) : Done(r, p)
     /\ count' = [count EXCEPT ![r][n] = @ + 1]
     /\ active' = [active EXCEPT ![r][n] = count[r][n] + 1]
     /\ threads' = threads \cup {Thread(r, n, count[r][n] + 1)}
     /\ UNCHANGED <<current, resumed, tree, mapVars, accepted, stray, odd>>

IsCurrent(t) == current = t.run /\ active[t.run][t.node] = t.attempt

Accept(t) ==
  /\ t.at = "passed" /\ IsCurrent(t)
  /\ accepted' = [accepted EXCEPT ![t.run][t.node] =
       [attempt |-> t.attempt, change |-> t.change, judged |-> t.judged]]
  /\ active' = [active EXCEPT ![t.run][t.node] = 0]
  /\ threads' = threads \ {t}
  /\ UNCHANGED <<current, resumed, tree, mapVars, count, stray, odd>>

Reject(t) ==
  /\ t.at = "failed" /\ IsCurrent(t)
  /\ active' = [active EXCEPT ![t.run][t.node] = 0]
  /\ threads' = threads \ {t}
  /\ UNCHANGED <<current, resumed, tree, mapVars, count, accepted, stray,
                 odd>>

(* The attempt's deadline passes; its thread is not stopped.               *)
TimeOut(t) ==
  /\ IsCurrent(t) /\ odd < MaxOdd
  /\ odd' = odd + 1
  /\ active' = [active EXCEPT ![t.run][t.node] = 0]
  /\ UNCHANGED <<current, resumed, tree, mapVars, count, accepted, threads,
                 stray>>

Ignored(t) ==
  /\ t.at \in {"passed", "failed"} /\ ~IsCurrent(t)
  /\ threads' = threads \ {t}
  /\ UNCHANGED <<current, resumed, tree, mapVars, nodeVars, stray, odd>>

(* The end of run(); after a resume the worktrees of what was accepted are *)
(* put back in the maps, under the names of nodes without fallbacks.       *)
Recovered(r) ==
  {n \in Node : Done(r, n) /\ Exists([run |-> r, node |-> n, cand |-> 0,
                                      attempt |-> accepted[r][n].attempt])
                /\ n \notin HasFallback}

EndRun ==
  LET r == current
      Of(k) == [run |-> r, node |-> k[1], attempt |-> k[2], cand |-> 0]
      back == IF resumed THEN {<<n, accepted[r][n].attempt>> : n \in Recovered(r)}
                         ELSE {}
  IN /\ r # 0 /\ Finished(r) /\ \A n \in Node : active[r][n] = 0
     /\ current' = 0 /\ resumed' = FALSE
     /\ worktrees' = [k \in DOMAIN worktrees \cup back |->
                        IF k \in back THEN Of(k) ELSE worktrees[k]]
     /\ snapshots' = [k \in DOMAIN snapshots \cup back |->
                        IF k \in back THEN tree[Of(k)] ELSE snapshots[k]]
     /\ UNCHANGED <<tree, nodeVars, threads, stray, odd>>

(* The process dies and is started again with --resume: threads and maps   *)
(* are gone, attempts are interrupted, worktrees remain, and the sessions  *)
(* of spawned processes go on without their parent.                        *)
Restart ==
  /\ current # 0 /\ ~resumed
  /\ resumed' = TRUE
  /\ threads' = {}
  /\ active' = [active EXCEPT ![current] = [n \in Node |-> 0]]
  /\ worktrees' = Empty /\ snapshots' = Empty
  /\ stray' = stray \cup {Name(t) : t \in {u \in threads : u.at \in {"agent", "check"}}}
  /\ UNCHANGED <<current, tree, count, accepted, odd>>

------------------------------------------------------------------------------
(* Worker threads: an agent node's executor.                               *)

Fails(t) == /\ Step(t, "failed")
            /\ UNCHANGED <<current, resumed, tree, mapVars, nodeVars, stray,
                           odd>>

(* WorktreeManager.create under the repository lock.                       *)
CreateAgent(t) ==
  /\ t.at = "create" /\ t.node \in Writer
  /\ IF Exists(Name(t)) THEN Fails(t)
     ELSE /\ tree' = With(tree, Name(t), Empty)
          /\ Step(t, "agent")
          /\ UNCHANGED <<current, resumed, mapVars, nodeVars, stray, odd>>

(* A process writes the files F of worktree w.                             *)
Writes(w, who, F) ==
  tree' = [tree EXCEPT ![w] = [f \in DOMAIN @ \cup F |->
                                 IF f \in F THEN {<<w, who>>} ELSE @[f]]]

StrayWrites(w) ==
  /\ \E f \in File : Writes(w, "stray", {f})
  /\ UNCHANGED <<current, resumed, mapVars, nodeVars, threads, stray, odd>>

(* The process ends; one that only closed its pipes may leave a descendant *)
(* (_run_process ends the process group only on a failure of its own).     *)
Leave(w) == \/ UNCHANGED <<stray, odd>>
            \/ /\ odd < MaxOdd /\ odd' = odd + 1
               /\ stray' = stray \cup {w}

AgentExits(t) ==
  /\ t.at = "agent"
  /\ \E F \in Edits : Writes(Name(t), "agent", F)
  /\ Leave(Name(t))
  /\ worktrees' = With(worktrees, Key(t), Name(t))
  /\ Step(t, "capture")
  /\ UNCHANGED <<current, resumed, snapshots, nodeVars>>

(* An error, after the process has left the worst behind: one whose code a *)
(* fallback names is the next candidate's turn, another the attempt's end. *)
AgentFails(t) ==
  /\ t.at = "agent"
  /\ Writes(Name(t), "agent", File)
  /\ \/ Step(t, "failed")
     \/ /\ t.node \in HasFallback /\ t.cand = 0
        /\ Become(t, [t EXCEPT !.cand = 1, !.at = "create"])
  /\ Leave(Name(t))
  /\ UNCHANGED <<current, resumed, mapVars, nodeVars>>

InScope(t, change) == DOMAIN change \subseteq Scope[t.node]

(* capture: the diff against the base, refused outside the write scope.    *)
Captured(t, w) ==
  IF InScope(t, tree[w])
    THEN /\ snapshots' = With(snapshots, Key(t), tree[w])
         /\ Become(t, [t EXCEPT !.at = "accepting", !.change = tree[w]])
         /\ UNCHANGED <<current, resumed, tree, worktrees, nodeVars, stray,
                        odd>>
    ELSE Fails(t)

Capture(t) == t.at = "capture" /\ Captured(t, Name(t))

------------------------------------------------------------------------------
(* The integration node's executor.                                        *)

CreateIntegration(t) ==
  /\ t.at = "create" /\ t.node = Integration
  /\ IF Exists(Name(t)) THEN Fails(t)
     ELSE /\ tree' = With(tree, Name(t), Empty)
          /\ worktrees' = With(worktrees, Key(t), Name(t))
          /\ Become(t, [t EXCEPT !.at = "apply", !.todo = Writer])
          /\ UNCHANGED <<current, resumed, snapshots, nodeVars, stray, odd>>

Common(change, target) == DOMAIN change \cap DOMAIN target

(* Mutant: a later input silently wins over an earlier one.                *)
FitsAlways(change, target, joined) == TRUE

(* Of the common files those in joined go together, as git apply --check   *)
(* or a comparison of bytes tells: hunks apart from each other in a        *)
(* tracked file, or the same untracked file twice.                         *)
Fits(change, target, joined) == Common(change, target) \subseteq joined

Overlay(change, target, joined) ==
  [f \in DOMAIN change \cup DOMAIN target |->
     IF f \in joined THEN change[f] \cup target[f]
     ELSE IF f \in DOMAIN change THEN change[f] ELSE target[f]]

(* apply, one input after the other: scopes, then conflicts, then files.   *)
Apply(t) ==
  /\ t.at = "apply"
  /\ \E p \in t.todo :
       /\ \A q \in t.todo : p <= q
       /\ LET change == accepted[t.run][p].change
          IN \E joined \in SUBSET Common(change, tree[Name(t)]) :
               IF /\ DOMAIN change \subseteq Scope[p]
                  /\ InScope(t, change)
                  /\ Fits(change, tree[Name(t)], joined)
               THEN /\ tree' = [tree EXCEPT ![Name(t)] = Overlay(change, @, joined)]
                    /\ Become(t, [t EXCEPT !.todo = @ \ {p}])
                    /\ UNCHANGED <<current, resumed, mapVars, nodeVars, stray, odd>>
               ELSE Fails(t)

CaptureIntegration(t) ==
  t.at = "apply" /\ t.todo = {} /\ Captured(t, Name(t))

------------------------------------------------------------------------------
(* The check runner: a process in the worktree the map names, whose result *)
(* counts only if the worktree is still what was captured.                 *)

StartCheck(t) ==
  /\ t.at = "accepting"
  /\ Become(t, [t EXCEPT !.at = "check", !.judged = tree[worktrees[Key(t)]]])
  /\ UNCHANGED <<current, resumed, tree, mapVars, nodeVars, stray, odd>>

(* Mutant: what the check may have changed is not looked at.               *)
UnmutatedAssumed(t, files) == TRUE

Unmutated(t, files) == files = snapshots[Key(t)]

EndCheck(t) ==
  LET w == worktrees[Key(t)]
  IN /\ t.at = "check"
     /\ \E F \in {{}, File} : Writes(w, "check", F)
     /\ Leave(w)
     /\ Step(t, IF Unmutated(t, tree'[w]) THEN "passed" ELSE "failed")
     /\ UNCHANGED <<current, resumed, mapVars, nodeVars>>

------------------------------------------------------------------------------
ThreadStep(t) ==
  \/ CreateAgent(t) \/ AgentExits(t) \/ AgentFails(t)
  \/ Capture(t) \/ CreateIntegration(t) \/ Apply(t) \/ CaptureIntegration(t)
  \/ StartCheck(t) \/ EndCheck(t)
  \/ Accept(t) \/ Reject(t) \/ TimeOut(t) \/ Ignored(t)

TreeNext ==
  \/ \E r \in RunId : Begin(r)
  \/ \E n \in Node : LaunchAttempt(n)
  \/ \E t \in threads : ThreadStep(t)
  \/ \E w \in stray : StrayWrites(w)
  \/ EndRun
  \/ Restart

TreeSpec == TreeInit /\ [][TreeNext]_wsVars

------------------------------------------------------------------------------
(* Type invariant.                                                         *)
WorkspacesTypeOK ==
  /\ current \in RunId \cup {0}
  /\ \A w \in DOMAIN tree : DOMAIN tree[w] \subseteq File
  /\ \A r \in RunId, n \in Node :
       /\ active[r][n] <= count[r][n] /\ count[r][n] <= Tries[n]
       /\ Done(r, n) => active[r][n] = 0
  /\ \A k \in DOMAIN worktrees : Exists(worktrees[k])
  /\ stray \subseteq DOMAIN tree

(* What the checks of an accepted attempt ran on is the change set its     *)
(* consumers get, whatever the check, a left-behind process of the same    *)
(* attempt or a thread of a timed-out one did meanwhile ("the public       *)
(* method prevents shared-map races"): so in an object that executes one   *)
(* run, as the command line makes them.  In one that executes two, a late  *)
(* thread of the first run may put its worktree, in the maps, in the place *)
(* of the second's.                                                        *)
JudgedAsAccepted ==
  \A r \in RunId, n \in Node :
    Done(r, n) => accepted[r][n].judged = accepted[r][n].change

(* An accepted change set holds nothing but what its own attempt's own     *)
(* candidate process did: no leavings of an earlier attempt, of another    *)
(* candidate or of the check; and an accepted integration is exactly its   *)
(* inputs together: every file that one of them changed, put together from *)
(* what each input that changed it made of it, no input lost to another    *)
(* and nothing left of an application that failed or crashed half way      *)
(* (worktrees are never reused, apply refuses conflicts).                  *)
WriterAlone(r, n) ==
  LET c == accepted[r][n].change
      Own(k) == [run |-> r, node |-> n, attempt |-> accepted[r][n].attempt,
                 cand |-> k]
  IN \E k \in {0, 1} : \A f \in DOMAIN c : \A x \in c[f] :
                        x[1] = Own(k) /\ x[2] # "check"

AcceptedIsOwnWork ==
  \A r \in RunId :
    /\ \A n \in Writer : Done(r, n) => WriterAlone(r, n)
    /\ Done(r, Integration) =>
         LET got == accepted[r][Integration].change
             Part(p) == accepted[r][p].change
         IN /\ DOMAIN got = UNION {DOMAIN Part(p) : p \in Writer}
            /\ \A f \in DOMAIN got : got[f] =
                 UNION {Part(p)[f] : p \in {q \in Writer : f \in DOMAIN Part(q)}}
=============================================================================
