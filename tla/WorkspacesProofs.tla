---------------------------- MODULE WorkspacesProofs ----------------------------
(***************************************************************************)
(* The proofs about the worktrees of a run: what the checks judged is what *)
(* was accepted, and what was accepted is the node's own work, or exactly  *)
(* the inputs of the integration.                                          *)
(*                                                                         *)
(* The induction follows a thread.  The keys of its worktree and snapshot  *)
(* are its alone, whatever became of the attempts before it.  Until its    *)
(* check no check has written in its worktree, nobody outside the worktree *)
(* has, and a half-made integration holds exactly the inputs applied so    *)
(* far.  From the capture on only a left-behind process writes, and what   *)
(* it overwrites does not come back: a worktree that is after the check    *)
(* what was captured was that when the check began, too.                   *)
(***************************************************************************)
EXTENDS Workspaces, TLAPS

ThreadFields == {"run", "node", "attempt", "cand", "at", "todo", "change", "judged"}

At == {"create", "agent", "capture", "apply", "accepting", "check", "passed", "failed"}

(* A function by its values, so that two that agree are equal.             *)
Files(f) == f = [x \in DOMAIN f |-> f[x]] /\ DOMAIN f \subseteq File

Typed(t) ==
  /\ DOMAIN t = ThreadFields
  /\ t.run \in RunId /\ t.node \in Node /\ t.cand \in {0, 1} /\ t.at \in At
  /\ t.attempt \in Nat \ {0} /\ t.todo \subseteq Writer
  /\ Files(t.change) /\ Files(t.judged)

(* A thread is of an attempt that was started and is not accepted.         *)
Unaccepted(t) ==
  /\ t.attempt <= count[t.run][t.node]
  /\ Done(t.run, t.node) => accepted[t.run][t.node].attempt # t.attempt

(* It works in the worktree of its own name, and an integration begins     *)
(* when its inputs have been accepted.                                     *)
InPlace(t) ==
  /\ t.at \in {"agent", "capture"} => t.node \in Writer
  /\ t.at = "apply" => t.node = Integration
  /\ t.at \in {"agent", "capture", "apply", "accepting", "check"} => Exists(Name(t))
  /\ t.at \in {"capture", "apply", "accepting", "check"} =>
       Key(t) \in DOMAIN worktrees /\ worktrees[Key(t)] = Name(t)
  /\ t.at \in {"accepting", "check"} =>
       Key(t) \in DOMAIN snapshots /\ snapshots[Key(t)] = t.change
  /\ t.node = Integration => \A p \in Writer : Done(t.run, p)

(* Where what a file holds may come from: the worktree itself, or, in that *)
(* of an integration, one of a writer.                                     *)
Tagged(w) ==
  \A f \in DOMAIN tree[w] :
    \A x \in tree[w][f] :
      x[1] = w \/ (w.node = Integration /\ x[1].node \in Writer)

(* The check of a worktree comes after its capture.                        *)
ByCheck(w, content) == \E x \in content : x[1] = w /\ x[2] = "check"

Unchecked(t) ==
  t.at \in {"agent", "capture", "apply"} =>
    \A f \in DOMAIN tree[Name(t)] : ~ ByCheck(Name(t), tree[Name(t)][f])

Part(r, p) == accepted[r][p].change

Union(r, S, got) ==
  /\ DOMAIN got = UNION {DOMAIN Part(r, p) : p \in S}
  /\ \A f \in DOMAIN got :
       got[f] = UNION {Part(r, p)[f] : p \in {q \in S : f \in DOMAIN Part(r, q)}}

(* Half an integration is exactly what was applied so far.                 *)
Applying(t) ==
  t.at = "apply" => /\ Name(t) \notin stray
                    /\ Union(t.run, Writer \ t.todo, tree[Name(t)])

(* What was captured is the node's own work.                               *)
OwnWork(t) ==
  IF t.node = Integration
  THEN Union(t.run, Writer, t.change)
  ELSE \A f \in DOMAIN t.change : \A x \in t.change[f] : x[1] = Name(t)

CapturedOwn(t) ==
  t.at \in {"accepting", "check", "passed"} =>
    /\ OwnWork(t)
    /\ \A f \in DOMAIN t.change : ~ ByCheck(Name(t), t.change[f])

(* From the capture to the end of the check only a left-behind process     *)
(* writes, and what it overwrites does not come back.                      *)
Later(w, new, old) ==
  /\ DOMAIN old \subseteq DOMAIN new
  /\ \A f \in DOMAIN old : new[f] = old[f] \/ new[f] = {<<w, "stray">>}

Judging(t) ==
  /\ t.at = "accepting" => Later(Name(t), tree[Name(t)], t.change)
  /\ t.at = "check" => /\ Later(Name(t), t.judged, t.change)
                       /\ Later(Name(t), tree[Name(t)], t.judged)
  /\ t.at = "passed" => t.judged = t.change

ThreadOK(t) ==
  /\ Typed(t) /\ Unaccepted(t) /\ InPlace(t) /\ Unchecked(t)
  /\ Applying(t) /\ CapturedOwn(t) /\ Judging(t)

TreesOK == (\A w \in DOMAIN tree : Files(tree[w]) /\ Tagged(w)) /\ stray \subseteq DOMAIN tree

RowsOK ==
  /\ current \in RunId \cup {0}
  /\ count \in [RunId -> [Node -> Nat]]
  /\ active \in [RunId -> [Node -> Nat]]
  /\ DOMAIN accepted = RunId /\ \A r \in RunId : DOMAIN accepted[r] = Node
  /\ \A r \in RunId, n \in Node :
       /\ active[r][n] <= count[r][n]
       /\ accepted[r][n].attempt \in Nat
       /\ accepted[r][n].attempt <= count[r][n]
       /\ Done(r, n) => active[r][n] = 0 /\ Files(accepted[r][n].change)
  /\ \A r \in RunId : Done(r, Integration) => \A p \in Writer : Done(r, p)

(* An attempt has one thread.                                              *)
OneThread == \A t, u \in threads : Key(t) = Key(u) => t = u

ThreadsOK == \A t \in threads : ThreadOK(t)

WInv == /\ RowsOK /\ TreesOK /\ OneThread /\ ThreadsOK
        /\ JudgedAsAccepted /\ AcceptedIsOwnWork

------------------------------------------------------------------------------
(* Threads.                                                                *)

Same(u, t) ==
  /\ DOMAIN u = ThreadFields
  /\ u.run = t.run /\ u.node = t.node /\ u.attempt = t.attempt

LEMMA NamesDiffer ==
  ASSUME OneThread, NEW t \in threads, NEW u \in threads, u # t, NEW v, Same(v, t)
  PROVE  Key(u) # Key(v) /\ Name(u) # Name(v) /\ Key(v) = Key(t)
  BY DEF OneThread, Key, Name, Same

(* What a write does.                                                      *)
LEMMA WriteEffect ==
  ASSUME NEW w \in DOMAIN tree, Files(tree[w]), NEW F, F \subseteq File, NEW who,
         Writes(w, who, F)
  PROVE  /\ DOMAIN tree' = DOMAIN tree
         /\ \A v \in DOMAIN tree : v # w => tree'[v] = tree[v]
         /\ Files(tree'[w])
         /\ DOMAIN tree'[w] = DOMAIN tree[w] \cup F
         /\ \A f \in F : tree'[w][f] = {<<w, who>>}
         /\ \A f \in DOMAIN tree[w] : f \notin F => tree'[w][f] = tree[w][f]
<1>1. PICK g : g = [f \in DOMAIN tree[w] \cup F |-> IF f \in F THEN {<<w, who>>}
                                                    ELSE tree[w][f]]
  OBVIOUS
<1>2. tree' = [tree EXCEPT ![w] = g]
  BY <1>1 DEF Writes
<1>3. tree'[w] = g /\ DOMAIN tree' = DOMAIN tree
      /\ \A v \in DOMAIN tree : v # w => tree'[v] = tree[v]
  BY <1>2
<1>4. DOMAIN g = DOMAIN tree[w] \cup F /\ g = [x \in DOMAIN g |-> g[x]]
  BY <1>1
<1> QED BY <1>1, <1>3, <1>4 DEF Files

LEMMA EmptyFiles == Files(Empty) /\ DOMAIN Empty = {}
  BY DEF Files, Empty

------------------------------------------------------------------------------
(* The other threads.                                                      *)

(* A thread is as it was if its worktree, its keys and its inputs are.     *)
LEMMA OtherKeeps ==
  ASSUME NEW u, ThreadOK(u),
         Exists(Name(u)) => Name(u) \in DOMAIN tree' /\ tree'[Name(u)] = tree[Name(u)],
         Key(u) \in DOMAIN worktrees =>
           Key(u) \in DOMAIN worktrees' /\ worktrees'[Key(u)] = worktrees[Key(u)],
         Key(u) \in DOMAIN snapshots =>
           Key(u) \in DOMAIN snapshots' /\ snapshots'[Key(u)] = snapshots[Key(u)],
         Name(u) \in stray' => Name(u) \in stray,
         u.attempt <= count'[u.run][u.node],
         \A p \in Writer : Done(u.run, p) => accepted'[u.run][p] = accepted[u.run][p],
         (Done(u.run, u.node))' => accepted'[u.run][u.node].attempt # u.attempt
  PROVE  (ThreadOK(u))'
<1> USE DEF ThreadOK
<1>1. (Typed(u))' /\ (Unaccepted(u))'
  BY DEF Typed, Unaccepted
<1>2. (InPlace(u))'
  BY DEF InPlace, Exists, Done
<1>3. (Unchecked(u))'
  <2>1. u.at \in {"agent", "capture", "apply"} => Exists(Name(u))
    BY DEF InPlace
  <2> QED BY <2>1 DEF Unchecked
<1>4. u.node = Integration =>
        \A S : S \subseteq Writer =>
          \A p \in S : (Part(u.run, p))' = Part(u.run, p)
  BY DEF InPlace, Part
<1>5. (Applying(u))'
  <2> SUFFICES ASSUME u.at = "apply"
               PROVE  Name(u) \notin stray' /\ (Union(u.run, Writer \ u.todo, tree[Name(u)]))'
    BY DEF Applying
  <2>1. u.node = Integration /\ tree'[Name(u)] = tree[Name(u)]
    BY DEF InPlace
  <2>2. \A p \in Writer \ u.todo : (Part(u.run, p))' = Part(u.run, p)
    BY <1>4, <2>1
  <2>3. Union(u.run, Writer \ u.todo, tree[Name(u)]) /\ Name(u) \notin stray
    BY DEF Applying
  <2> QED BY <2>1, <2>2, <2>3 DEF Union
<1>6. (CapturedOwn(u))'
  <2> SUFFICES ASSUME u.at \in {"accepting", "check", "passed"} PROVE (OwnWork(u))'
    BY DEF CapturedOwn
  <2>1. OwnWork(u)
    BY DEF CapturedOwn
  <2>2. CASE u.node = Integration
    <3>1. \A p \in Writer : (Part(u.run, p))' = Part(u.run, p)
      BY <1>4, <2>2
    <3> QED BY <2>1, <2>2, <3>1 DEF OwnWork, Union
  <2>3. CASE u.node # Integration
    BY <2>1, <2>3 DEF OwnWork
  <2> QED BY <2>2, <2>3
<1>7. (Judging(u))'
  BY DEF Judging, Later, InPlace
<1> QED BY <1>1, <1>2, <1>3, <1>5, <1>6, <1>7

(* Steps that only end threads, or change what run() knows of them.        *)
LEMMA RowsKeep ==
  ASSUME WInv, threads' \subseteq threads,
         UNCHANGED <<tree, worktrees, snapshots, count, accepted, stray>>,
         current' \in RunId \cup {0},
         active' \in [RunId -> [Node -> Nat]],
         \A r \in RunId, n \in Node : active'[r][n] \in {0, active[r][n]}
  PROVE  WInv'
<1> USE DEF WInv
<1>1. RowsOK'
  <2>1. ASSUME NEW r \in RunId, NEW n \in Node
        PROVE  /\ active'[r][n] <= count[r][n]
               /\ Done(r, n) => active'[r][n] = 0
    <3>1. /\ active[r][n] <= count[r][n] /\ count[r][n] \in Nat
          /\ Done(r, n) => active[r][n] = 0
      BY DEF RowsOK
    <3>2. active'[r][n] = 0 \/ active'[r][n] = active[r][n]
      OBVIOUS
    <3> QED BY <3>1, <3>2
  <2> QED BY <2>1 DEF RowsOK, Done
<1>2. TreesOK' /\ OneThread'
  BY DEF TreesOK, Tagged, OneThread
<1>3. ThreadsOK'
  <2>1. ASSUME NEW u \in threads PROVE (ThreadOK(u))'
    <3>1. ThreadOK(u)
      BY DEF ThreadsOK
    <3>2. /\ u.attempt <= count'[u.run][u.node]
          /\ (Done(u.run, u.node))' => accepted'[u.run][u.node].attempt # u.attempt
      BY <3>1 DEF ThreadOK, Unaccepted, Done
    <3>3. /\ Exists(Name(u)) => Name(u) \in DOMAIN tree' /\ tree'[Name(u)] = tree[Name(u)]
          /\ Name(u) \in stray' => Name(u) \in stray
          /\ \A p \in Writer : Done(u.run, p) => accepted'[u.run][p] = accepted[u.run][p]
      BY DEF Exists
    <3> QED BY <3>1, <3>2, <3>3, OtherKeeps
  <2> QED BY <2>1 DEF ThreadsOK
<1>4. JudgedAsAccepted' /\ AcceptedIsOwnWork'
  BY DEF JudgedAsAccepted, AcceptedIsOwnWork, WriterAlone, Done
<1> QED BY <1>1, <1>2, <1>3, <1>4

(* A step of one thread.                                                   *)
LEMMA StepKeeps ==
  ASSUME WInv, NEW t \in threads, NEW v, Same(v, t),
         threads' = (threads \ {t}) \cup {v},
         (ThreadOK(v))',
         UNCHANGED <<current, count, active, accepted>>,
         DOMAIN tree \subseteq DOMAIN tree',
         \A w \in DOMAIN tree : w # Name(t) /\ w # Name(v) => tree'[w] = tree[w],
         \A w \in DOMAIN tree' \ DOMAIN tree : w = Name(v),
         \A w \in DOMAIN tree' \cap {Name(t), Name(v)} : Files(tree'[w]) /\ (Tagged(w))',
         DOMAIN worktrees \subseteq DOMAIN worktrees',
         DOMAIN snapshots \subseteq DOMAIN snapshots',
         \A k \in DOMAIN worktrees : k # Key(t) => worktrees'[k] = worktrees[k],
         \A k \in DOMAIN snapshots : k # Key(t) => snapshots'[k] = snapshots[k],
         stray' \subseteq stray \cup {Name(t)}, stray' \subseteq DOMAIN tree'
  PROVE  WInv'
<1> USE DEF WInv
<1>1. RowsOK'
  BY DEF RowsOK, Done
<1>2. TreesOK'
  <2>1. \A w \in DOMAIN tree' : w \notin {Name(t), Name(v)} => Files(tree'[w]) /\ (Tagged(w))'
    <3>1. \A w \in DOMAIN tree' : w \notin {Name(t), Name(v)} =>
            w \in DOMAIN tree /\ tree'[w] = tree[w]
      OBVIOUS
    <3> QED BY <3>1 DEF TreesOK, Tagged
  <2> QED BY <2>1 DEF TreesOK
<1>3. \A u \in threads : u # t => Key(u) # Key(v) /\ Name(u) # Name(v) /\ Key(v) = Key(t)
  BY NamesDiffer
<1>4. Same(t, t)
  BY DEF ThreadsOK, ThreadOK, Typed, Same
<1>5. \A u \in threads : u # t => Key(u) # Key(t) /\ Name(u) # Name(t)
  BY <1>4, NamesDiffer
<1>6. OneThread'
  BY <1>3 DEF OneThread
<1>7. ThreadsOK'
  <2>1. ASSUME NEW u \in threads, u # t PROVE (ThreadOK(u))'
    <3>1. ThreadOK(u) /\ Unaccepted(u)
      BY DEF ThreadsOK, ThreadOK
    <3>2. Exists(Name(u)) => Name(u) \in DOMAIN tree' /\ tree'[Name(u)] = tree[Name(u)]
      BY <1>3, <1>5, <2>1 DEF Exists
    <3>3. /\ Key(u) \in DOMAIN worktrees =>
               Key(u) \in DOMAIN worktrees' /\ worktrees'[Key(u)] = worktrees[Key(u)]
          /\ Key(u) \in DOMAIN snapshots =>
               Key(u) \in DOMAIN snapshots' /\ snapshots'[Key(u)] = snapshots[Key(u)]
      BY <1>5, <2>1
    <3>4. Name(u) \in stray' => Name(u) \in stray
      BY <1>5, <2>1
    <3> QED BY <3>1, <3>2, <3>3, <3>4, OtherKeeps DEF Unaccepted, Done
  <2> QED BY <2>1 DEF ThreadsOK
<1>8. JudgedAsAccepted' /\ AcceptedIsOwnWork'
  BY DEF JudgedAsAccepted, AcceptedIsOwnWork, WriterAlone, Done
<1> QED BY <1>1, <1>2, <1>6, <1>7, <1>8


(* What ends an attempt for run(), or its thread.                          *)
LEMMA Ends ==
  ASSUME WInv, NEW r \in RunId, NEW n \in Node,
         active' = [active EXCEPT ![r][n] = 0] \/ UNCHANGED active
  PROVE  /\ active' \in [RunId -> [Node -> Nat]]
         /\ \A q \in RunId, m \in Node : active'[q][m] \in {0, active[q][m]}
<1>1. active \in [RunId -> [Node -> Nat]]
  BY DEF WInv, RowsOK
<1> QED BY <1>1

LEMMA ThreadTyped ==
  ASSUME WInv, NEW t \in threads
  PROVE  ThreadOK(t) /\ Typed(t) /\ t.run \in RunId /\ t.node \in Node
  BY DEF WInv, ThreadsOK, ThreadOK, Typed

LEMMA EndedKeep ==
  ASSUME WInv, NEW t \in threads, Reject(t) \/ TimeOut(t) \/ Ignored(t)
  PROVE  WInv'
<1>1. t.run \in RunId /\ t.node \in Node
  BY ThreadTyped
<1>2. active' = [active EXCEPT ![t.run][t.node] = 0] \/ UNCHANGED active
  BY DEF Reject, TimeOut, Ignored, nodeVars
<1>3. /\ threads' \subseteq threads /\ UNCHANGED current
      /\ UNCHANGED <<tree, worktrees, snapshots, count, accepted, stray>>
  BY DEF Reject, TimeOut, Ignored, nodeVars, mapVars
<1>4. current' \in RunId \cup {0}
  BY <1>3 DEF WInv, RowsOK
<1> QED BY <1>1, <1>2, <1>3, <1>4, Ends, RowsKeep

LEMMA BeginKeeps ==
  ASSUME WInv, NEW r \in RunId, Begin(r)
  PROVE  WInv'
<1>1. active \in [RunId -> [Node -> Nat]]
  BY DEF WInv, RowsOK
<1>2. UNCHANGED <<tree, worktrees, snapshots, count, active, accepted, threads, stray>>
      /\ current' = r
  BY DEF Begin, nodeVars, mapVars
<1> QED BY <1>1, <1>2, RowsKeep

LEMMA CrashKeeps ==
  ASSUME WInv, Restart
  PROVE  WInv'
<1>1. /\ current \in RunId /\ threads' = {} /\ worktrees' = Empty /\ snapshots' = Empty
      /\ active' = [active EXCEPT ![current] = [n \in Node |-> 0]]
      /\ UNCHANGED <<current, tree, count, accepted>>
  BY DEF WInv, RowsOK, Restart
<1>2. RowsOK
  BY DEF WInv
<1>3. active' \in [RunId -> [Node -> Nat]]
      /\ \A r \in RunId, n \in Node : active'[r][n] = 0 \/ active'[r][n] = active[r][n]
  BY <1>1, <1>2 DEF RowsOK
<1>4. ASSUME NEW r \in RunId, NEW n \in Node
      PROVE  /\ active'[r][n] <= count[r][n]
             /\ Done(r, n) => active'[r][n] = 0
  <2>1. /\ active[r][n] <= count[r][n] /\ count[r][n] \in Nat
        /\ Done(r, n) => active[r][n] = 0
    BY <1>2 DEF RowsOK
  <2> QED BY <2>1, <1>3
<1>5. RowsOK'
  BY <1>1, <1>2, <1>3, <1>4 DEF RowsOK, Done
<1>6. stray' \subseteq DOMAIN tree'
  <2>1. \A u \in threads : u.at \in {"agent", "check"} => Name(u) \in DOMAIN tree
    BY ThreadTyped DEF ThreadOK, InPlace, Exists
  <2>2. stray' = stray \cup {Name(t) : t \in {u \in threads : u.at \in {"agent", "check"}}}
    BY DEF Restart
  <2>3. stray \subseteq DOMAIN tree
    BY DEF WInv, TreesOK
  <2> QED BY <1>1, <2>1, <2>2, <2>3
<1>7. TreesOK'
  BY <1>1, <1>6 DEF WInv, TreesOK, Tagged
<1>8. OneThread' /\ ThreadsOK'
  BY <1>1 DEF OneThread, ThreadsOK
<1>9. JudgedAsAccepted' /\ AcceptedIsOwnWork'
  BY <1>1 DEF WInv, JudgedAsAccepted, AcceptedIsOwnWork, WriterAlone, Done
<1> QED BY <1>5, <1>7, <1>8, <1>9 DEF WInv

(* The maps get back only what was accepted, and no thread is of that.     *)
LEMMA EndRunKeeps ==
  ASSUME WInv, WorkspacesAssumption, EndRun
  PROVE  WInv'
<1>1. current \in RunId /\ UNCHANGED <<tree, count, active, accepted, threads, stray>>
      /\ current' = 0
  BY DEF WInv, RowsOK, EndRun, nodeVars
<1>2. PICK back : /\ back = IF resumed
                            THEN {<<n, accepted[current][n].attempt>> : n \in Recovered(current)}
                            ELSE {}
                  /\ DOMAIN worktrees' = DOMAIN worktrees \cup back
                  /\ \A k \in DOMAIN worktrees : k \notin back => worktrees'[k] = worktrees[k]
                  /\ DOMAIN snapshots' = DOMAIN snapshots \cup back
                  /\ \A k \in DOMAIN snapshots : k \notin back => snapshots'[k] = snapshots[k]
  BY DEF EndRun
<1>3. RowsOK'
  BY <1>1 DEF WInv, RowsOK, Done
<1>4. TreesOK' /\ OneThread'
  BY <1>1 DEF WInv, TreesOK, Tagged, OneThread
<1>5. ASSUME NEW u \in threads PROVE (ThreadOK(u))'
  <2>1. ThreadOK(u) /\ Unaccepted(u) /\ u.run \in RunId
    BY ThreadTyped DEF ThreadOK
  <2>2. u.run = current
    BY <1>1, <2>1 DEF WorkspacesAssumption
  <2>3. Key(u) \notin back
    BY <1>2, <2>1, <2>2 DEF Unaccepted, Key, Recovered
  <2>4. /\ Key(u) \in DOMAIN worktrees =>
             Key(u) \in DOMAIN worktrees' /\ worktrees'[Key(u)] = worktrees[Key(u)]
        /\ Key(u) \in DOMAIN snapshots =>
             Key(u) \in DOMAIN snapshots' /\ snapshots'[Key(u)] = snapshots[Key(u)]
    BY <1>2, <2>3
  <2>5. /\ Exists(Name(u)) => Name(u) \in DOMAIN tree' /\ tree'[Name(u)] = tree[Name(u)]
        /\ Name(u) \in stray' => Name(u) \in stray
        /\ \A p \in Writer : Done(u.run, p) => accepted'[u.run][p] = accepted[u.run][p]
    BY <1>1 DEF Exists
  <2>6. /\ u.attempt <= count'[u.run][u.node]
        /\ (Done(u.run, u.node))' => accepted'[u.run][u.node].attempt # u.attempt
    BY <1>1, <2>1 DEF Unaccepted, Done
  <2> QED BY <2>1, <2>4, <2>5, <2>6, OtherKeeps
<1>6. ThreadsOK'
  BY <1>1, <1>5 DEF ThreadsOK
<1>7. JudgedAsAccepted' /\ AcceptedIsOwnWork'
  BY <1>1 DEF WInv, JudgedAsAccepted, AcceptedIsOwnWork, WriterAlone, Done
<1> QED BY <1>3, <1>4, <1>6, <1>7 DEF WInv


------------------------------------------------------------------------------
(* Steps of one thread.                                                    *)

LEMMA WithEffect ==
  ASSUME NEW f, NEW k, NEW v
  PROVE  /\ DOMAIN With(f, k, v) = DOMAIN f \cup {k}
         /\ With(f, k, v)[k] = v
         /\ \A x \in DOMAIN f : x # k => With(f, k, v)[x] = f[x]
  BY DEF With

LEMMA StaysTyped ==
  ASSUME WInv, NEW t \in threads, NEW v, Same(v, t),
         v.cand \in {0, 1}, v.at \in At, v.todo \subseteq Writer,
         Files(v.change), Files(v.judged), UNCHANGED <<count, accepted>>
  PROVE  /\ (Typed(v))' /\ (Unaccepted(v))'
         /\ v.node = Integration => \A p \in Writer : (Done(v.run, p))'
<1>1. ThreadOK(t)
  BY ThreadTyped
<1> QED BY <1>1 DEF ThreadOK, Typed, Same, Unaccepted, InPlace, Done

(* A thread that waits for a worktree, or has failed.                      *)
LEMMA IdleOK ==
  ASSUME WInv, NEW t \in threads, NEW v, Same(v, t),
         v.cand \in {0, 1}, v.at \in {"create", "failed"}, v.todo \subseteq Writer,
         Files(v.change), Files(v.judged), UNCHANGED <<count, accepted>>
  PROVE  (ThreadOK(v))'
<1>1. /\ (Typed(v))' /\ (Unaccepted(v))'
      /\ v.node = Integration => \A p \in Writer : (Done(v.run, p))'
  BY StaysTyped DEF At
<1> QED BY <1>1 DEF ThreadOK, InPlace, Unchecked, Applying, CapturedOwn, Judging

LEMMA FailsKeeps ==
  ASSUME WInv, NEW t \in threads, Fails(t)
  PROVE  WInv'
<1>0. PICK v : v = [t EXCEPT !.at = "failed"]
  OBVIOUS
<1>1. ThreadOK(t) /\ Typed(t)
  BY ThreadTyped
<1>2. /\ Same(v, t) /\ v.at = "failed" /\ v.cand = t.cand /\ v.todo = t.todo
      /\ v.change = t.change /\ v.judged = t.judged
  BY <1>0, <1>1 DEF Typed, Same, ThreadFields
<1>3. /\ threads' = (threads \ {t}) \cup {v}
      /\ UNCHANGED <<current, count, active, accepted, tree, worktrees, snapshots, stray>>
  BY <1>0 DEF Fails, Step, nodeVars, mapVars
<1>4. (ThreadOK(v))'
  BY <1>1, <1>2, <1>3, IdleOK DEF Typed
<1>5. TreesOK
  BY DEF WInv
<1>6. \A w \in DOMAIN tree' \cap {Name(t), Name(v)} : Files(tree'[w]) /\ (Tagged(w))'
  BY <1>3, <1>5 DEF TreesOK, Tagged
<1>7. stray' \subseteq DOMAIN tree'
  BY <1>3, <1>5 DEF TreesOK
<1> QED BY <1>2, <1>3, <1>4, <1>6, <1>7, StepKeeps

LEMMA WriteTagged ==
  ASSUME NEW w \in DOMAIN tree, Files(tree[w]), Tagged(w),
         NEW F, F \subseteq File, NEW who, Writes(w, who, F)
  PROVE  (Tagged(w))'
<1>1. /\ DOMAIN tree'[w] = DOMAIN tree[w] \cup F
      /\ \A f \in F : tree'[w][f] = {<<w, who>>}
      /\ \A f \in DOMAIN tree[w] : f \notin F => tree'[w][f] = tree[w][f]
  BY WriteEffect, SMTT(20)
<1> DEFINE From(x) == x[1] = w \/ (w.node = Integration /\ x[1].node \in Writer)
<1>2. SUFFICES ASSUME NEW f \in DOMAIN tree'[w], NEW x \in tree'[w][f] PROVE From(x)
  BY DEF Tagged
<1>3. CASE f \in F
  BY <1>1, <1>2, <1>3
<1>4. CASE f \notin F
  BY <1>1, <1>2, <1>4 DEF Tagged
<1> QED BY <1>3, <1>4

LEMMA CreateAgentKeeps ==
  ASSUME WInv, WorkspacesAssumption, NEW t \in threads, CreateAgent(t)
  PROVE  WInv'
<1>1. CASE Exists(Name(t))
  BY <1>1, FailsKeeps DEF CreateAgent
<1>2. CASE ~Exists(Name(t))
  <2>0. PICK v : v = [t EXCEPT !.at = "agent"]
    OBVIOUS
  <2>1. ThreadOK(t) /\ Typed(t) /\ t.node \in Writer
    BY ThreadTyped DEF CreateAgent
  <2>2. /\ Same(v, t) /\ v.at = "agent" /\ v.cand = t.cand /\ v.todo = t.todo
        /\ v.change = t.change /\ v.judged = t.judged
    BY <2>0, <2>1 DEF Typed, Same, ThreadFields
  <2>3. /\ threads' = (threads \ {t}) \cup {v}
        /\ tree' = With(tree, Name(t), Empty)
        /\ UNCHANGED <<current, count, active, accepted, worktrees, snapshots, stray>>
    BY <1>2, <2>0 DEF CreateAgent, Step, nodeVars, mapVars
  <2>4. Name(v) = Name(t)
    BY <2>2 DEF Name, Same
  <2>5. /\ DOMAIN tree' = DOMAIN tree \cup {Name(t)} /\ tree'[Name(t)] = Empty
        /\ \A w \in DOMAIN tree : w # Name(t) => tree'[w] = tree[w]
    BY <2>3 DEF With
  <2>6. (ThreadOK(v))'
    <3>1. (Typed(v))' /\ (Unaccepted(v))'
      BY <2>1, <2>2, <2>3, StaysTyped DEF Typed, At
    <3>2. (InPlace(v))'
      BY <2>1, <2>2, <2>4, <2>5 DEF InPlace, Same, Exists, WorkspacesAssumption
    <3>3. (Unchecked(v))' /\ (Applying(v))' /\ (CapturedOwn(v))' /\ (Judging(v))'
      BY <2>2, <2>4, <2>5, EmptyFiles DEF Unchecked, Applying, CapturedOwn, Judging
    <3> QED BY <3>1, <3>2, <3>3 DEF ThreadOK
  <2>7. \A w \in DOMAIN tree' \cap {Name(t), Name(v)} : Files(tree'[w]) /\ (Tagged(w))'
    BY <2>4, <2>5, EmptyFiles DEF Tagged
  <2>8. stray' \subseteq DOMAIN tree'
    BY <2>3, <2>5 DEF WInv, TreesOK
  <2> QED BY <2>2, <2>3, <2>4, <2>5, <2>6, <2>7, <2>8, StepKeeps
<1> QED BY <1>1, <1>2


(* What a thread's write does to its worktree, and to no other.            *)
LEMMA OwnWrite ==
  ASSUME WInv, NEW t \in threads, Exists(Name(t)), NEW F, F \subseteq File,
         NEW who, Writes(Name(t), who, F)
  PROVE  /\ DOMAIN tree' = DOMAIN tree
         /\ \A w \in DOMAIN tree : w # Name(t) => tree'[w] = tree[w]
         /\ \A w \in DOMAIN tree : Files(tree'[w]) /\ (Tagged(w))'
         /\ DOMAIN tree'[Name(t)] = DOMAIN tree[Name(t)] \cup F
         /\ \A f \in F : tree'[Name(t)][f] = {<<Name(t), who>>}
         /\ \A f \in DOMAIN tree[Name(t)] : f \notin F => tree'[Name(t)][f] = tree[Name(t)][f]
<1>1. PICK n : n = Name(t)
  OBVIOUS
<1>2. /\ n \in DOMAIN tree /\ Files(tree[n]) /\ Tagged(n) /\ Writes(n, who, F)
      /\ \A w \in DOMAIN tree : Files(tree[w]) /\ Tagged(w)
  BY <1>1 DEF WInv, TreesOK, Exists
<1>3. /\ DOMAIN tree' = DOMAIN tree
      /\ \A v \in DOMAIN tree : v # n => tree'[v] = tree[v]
      /\ Files(tree'[n])
      /\ DOMAIN tree'[n] = DOMAIN tree[n] \cup F
      /\ \A f \in F : tree'[n][f] = {<<n, who>>}
      /\ \A f \in DOMAIN tree[n] : f \notin F => tree'[n][f] = tree[n][f]
  BY <1>2, WriteEffect
<1>4. (Tagged(n))'
  BY <1>2, WriteTagged
<1>5. \A w \in DOMAIN tree : w # n => Files(tree'[w]) /\ (Tagged(w))'
  BY <1>2, <1>3 DEF Tagged
<1> QED BY <1>1, <1>3, <1>4, <1>5

LEMMA Leaves ==
  ASSUME WInv, NEW w \in DOMAIN tree, Leave(w)
  PROVE  stray' \subseteq stray \cup {w} /\ stray' \subseteq DOMAIN tree
  BY DEF WInv, TreesOK, Leave

LEMMA AgentExitsKeeps ==
  ASSUME WInv, WorkspacesAssumption, NEW t \in threads, AgentExits(t)
  PROVE  WInv'
<1>0. PICK v : v = [t EXCEPT !.at = "capture"]
  OBVIOUS
<1>1. ThreadOK(t) /\ Typed(t) /\ InPlace(t) /\ t.at = "agent" /\ Exists(Name(t))
      /\ t.node \in Writer
  BY ThreadTyped DEF AgentExits, ThreadOK, InPlace
<1>2. /\ Same(v, t) /\ v.at = "capture" /\ v.cand = t.cand /\ v.todo = t.todo
      /\ v.change = t.change /\ v.judged = t.judged
  BY <1>0, <1>1 DEF Typed, Same, ThreadFields
<1>3. PICK F \in Edits : Writes(Name(t), "agent", F)
  BY DEF AgentExits
<1>4. /\ threads' = (threads \ {t}) \cup {v} /\ Leave(Name(t))
      /\ worktrees' = With(worktrees, Key(t), Name(t))
      /\ UNCHANGED <<current, count, active, accepted, snapshots>>
  BY <1>0 DEF AgentExits, Step, nodeVars
<1>5. F \subseteq File
  BY DEF WorkspacesAssumption
<1>6. /\ DOMAIN tree' = DOMAIN tree
      /\ \A w \in DOMAIN tree : w # Name(t) => tree'[w] = tree[w]
      /\ \A w \in DOMAIN tree : Files(tree'[w]) /\ (Tagged(w))'
      /\ DOMAIN tree'[Name(t)] = DOMAIN tree[Name(t)] \cup F
      /\ \A f \in F : tree'[Name(t)][f] = {<<Name(t), "agent">>}
      /\ \A f \in DOMAIN tree[Name(t)] : f \notin F => tree'[Name(t)][f] = tree[Name(t)][f]
  BY <1>1, <1>3, <1>5, OwnWrite
<1>7. Name(v) = Name(t) /\ Key(v) = Key(t)
  BY <1>2 DEF Name, Key, Same
<1>8. /\ DOMAIN worktrees' = DOMAIN worktrees \cup {Key(t)}
      /\ worktrees'[Key(t)] = Name(t)
      /\ \A k \in DOMAIN worktrees : k # Key(t) => worktrees'[k] = worktrees[k]
  BY <1>4 DEF With
<1>9. (ThreadOK(v))'
  <2>1. (Typed(v))' /\ (Unaccepted(v))'
    BY <1>1, <1>2, <1>4, StaysTyped DEF Typed, At
  <2>2. (InPlace(v))'
    BY <1>1, <1>2, <1>6, <1>7, <1>8 DEF InPlace, Same, Exists, WorkspacesAssumption
  <2>3. (Unchecked(v))'
    <3>1. \A f \in DOMAIN tree[Name(t)] : ~ ByCheck(Name(t), tree[Name(t)][f])
      BY <1>1 DEF ThreadOK, Unchecked
    <3>2. \A f \in DOMAIN tree'[Name(t)] : ~ ByCheck(Name(t), tree'[Name(t)][f])
      BY <1>6, <3>1 DEF ByCheck
    <3> QED BY <1>7, <3>2 DEF Unchecked, ByCheck
  <2>4. (Applying(v))' /\ (CapturedOwn(v))' /\ (Judging(v))'
    BY <1>2 DEF Applying, CapturedOwn, Judging
  <2> QED BY <2>1, <2>2, <2>3, <2>4 DEF ThreadOK
<1>10. stray' \subseteq stray \cup {Name(t)} /\ stray' \subseteq DOMAIN tree'
  BY <1>1, <1>4, <1>6, Leaves DEF Exists
<1> QED BY <1>2, <1>4, <1>6, <1>7, <1>8, <1>9, <1>10, StepKeeps

LEMMA AgentFailsKeeps ==
  ASSUME WInv, WorkspacesAssumption, NEW t \in threads, AgentFails(t)
  PROVE  WInv'
<1>1. ThreadOK(t) /\ Typed(t) /\ InPlace(t) /\ t.at = "agent" /\ Exists(Name(t))
  BY ThreadTyped DEF AgentFails, ThreadOK, InPlace
<1>2. PICK v : /\ threads' = (threads \ {t}) \cup {v}
               /\ v = [t EXCEPT !.at = "failed"]
                    \/ v = [t EXCEPT !.cand = 1, !.at = "create"]
  BY DEF AgentFails, Step, Become
<1>3. /\ Same(v, t) /\ v.at \in {"create", "failed"} /\ v.cand \in {0, 1}
      /\ v.todo = t.todo /\ v.change = t.change /\ v.judged = t.judged
  BY <1>1, <1>2 DEF Typed, Same, ThreadFields
<1>4. /\ Writes(Name(t), "agent", File)
      /\ Leave(Name(t))
      /\ UNCHANGED <<current, count, active, accepted, worktrees, snapshots>>
  BY DEF AgentFails, nodeVars, mapVars
<1>5. /\ DOMAIN tree' = DOMAIN tree
      /\ \A w \in DOMAIN tree : w # Name(t) => tree'[w] = tree[w]
      /\ \A w \in DOMAIN tree : Files(tree'[w]) /\ (Tagged(w))'
  BY <1>1, <1>4, OwnWrite
<1>6. (ThreadOK(v))'
  BY <1>1, <1>3, <1>4, IdleOK DEF Typed
<1>7. stray' \subseteq stray \cup {Name(t)} /\ stray' \subseteq DOMAIN tree'
  BY <1>1, <1>4, <1>5, Leaves DEF Exists
<1> QED BY <1>2, <1>3, <1>4, <1>5, <1>6, <1>7, StepKeeps


(* The capture: what the worktree holds is the node's own work, no check   *)
(* has written in it.                                                      *)
LEMMA CapturedKeeps ==
  ASSUME WInv, WorkspacesAssumption, NEW t \in threads,
         Capture(t) \/ CaptureIntegration(t)
  PROVE  WInv'
<1>1. CASE Fails(t)
  BY <1>1, FailsKeeps
<1>2. CASE ~Fails(t)
  <2>0. PICK v : v = [t EXCEPT !.at = "accepting", !.change = tree[Name(t)]]
    OBVIOUS
  <2>1. /\ ThreadOK(t) /\ Typed(t) /\ InPlace(t) /\ Captured(t, Name(t))
        /\ t.at = "capture" \/ (t.at = "apply" /\ t.todo = {})
    BY ThreadTyped DEF Capture, CaptureIntegration, ThreadOK
  <2>2. /\ Same(v, t) /\ v.at = "accepting" /\ v.cand = t.cand /\ v.todo = t.todo
        /\ v.change = tree[Name(t)] /\ v.judged = t.judged
    BY <2>0, <2>1 DEF Typed, Same, ThreadFields
  <2>3. /\ threads' = (threads \ {t}) \cup {v}
        /\ snapshots' = With(snapshots, Key(t), tree[Name(t)])
        /\ UNCHANGED <<current, tree, count, active, accepted, worktrees, stray>>
    BY <1>2, <2>0, <2>1 DEF Captured, Become, nodeVars
  <2>4. /\ Exists(Name(t)) /\ Files(tree[Name(t)]) /\ Tagged(Name(t))
        /\ Key(t) \in DOMAIN worktrees /\ worktrees[Key(t)] = Name(t)
    BY <2>1 DEF InPlace, WInv, TreesOK, Exists
  <2>5. /\ DOMAIN snapshots' = DOMAIN snapshots \cup {Key(t)}
        /\ snapshots'[Key(t)] = tree[Name(t)]
        /\ \A k \in DOMAIN snapshots : k # Key(t) => snapshots'[k] = snapshots[k]
    BY <2>3 DEF With
  <2>6. Name(v) = Name(t) /\ Key(v) = Key(t)
    BY <2>2 DEF Name, Key, Same
  <2>7. (ThreadOK(v))'
    <3>1. /\ (Typed(v))' /\ (Unaccepted(v))'
          /\ v.node = Integration => \A p \in Writer : (Done(v.run, p))'
      BY <2>1, <2>2, <2>3, <2>4, StaysTyped DEF Typed, At
    <3>2. (InPlace(v))'
      BY <2>2, <2>3, <2>4, <2>5, <2>6, <3>1 DEF InPlace, Exists
    <3>3. \A f \in DOMAIN tree[Name(t)] : ~ ByCheck(Name(t), tree[Name(t)][f])
      BY <2>1 DEF ThreadOK, Unchecked
    <3>4. OwnWork(v)
      <4>1. CASE t.at = "capture"
        <5>1. t.node # Integration /\ v.node # Integration /\ Name(t).node = t.node
          BY <2>1, <2>2, <4>1 DEF InPlace, WorkspacesAssumption, Same, Name
        <5>2. \A f \in DOMAIN tree[Name(t)] : \A x \in tree[Name(t)][f] :
                x[1] = Name(t)
          BY <2>4, <5>1 DEF Tagged
        <5> QED BY <2>2, <2>6, <5>1, <5>2 DEF OwnWork
      <4>2. CASE t.at = "apply" /\ t.todo = {}
        <5>1. Writer \ t.todo = Writer /\ v.node = Integration /\ v.run = t.run
          BY <2>1, <2>2, <4>2 DEF InPlace, Same
        <5>2. Union(t.run, Writer, tree[Name(t)])
          BY <2>1, <4>2, <5>1 DEF ThreadOK, Applying
        <5> QED BY <2>2, <5>1, <5>2 DEF OwnWork
      <4> QED BY <2>1, <4>1, <4>2
    <3>5. (OwnWork(v))'
      BY <2>3, <3>4 DEF OwnWork, Union, Part
    <3>6. (CapturedOwn(v))'
      BY <2>2, <2>6, <3>3, <3>5 DEF CapturedOwn, ByCheck
    <3>7. (Unchecked(v))' /\ (Applying(v))' /\ (Judging(v))'
      BY <2>2, <2>3, <2>6 DEF Unchecked, Applying, Judging, Later
    <3> QED BY <3>1, <3>2, <3>6, <3>7 DEF ThreadOK
  <2>8. /\ stray' \subseteq DOMAIN tree'
        /\ \A w \in DOMAIN tree' \cap {Name(t), Name(v)} : Files(tree'[w]) /\ (Tagged(w))'
    BY <2>3 DEF WInv, TreesOK, Tagged
  <2> QED BY <2>2, <2>3, <2>5, <2>6, <2>7, <2>8, StepKeeps
<1> QED BY <1>1, <1>2

LEMMA CreateIntegrationKeeps ==
  ASSUME WInv, WorkspacesAssumption, NEW t \in threads, CreateIntegration(t)
  PROVE  WInv'
<1>1. CASE Exists(Name(t))
  BY <1>1, FailsKeeps DEF CreateIntegration
<1>2. CASE ~Exists(Name(t))
  <2>0. PICK v : v = [t EXCEPT !.at = "apply", !.todo = Writer]
    OBVIOUS
  <2>1. ThreadOK(t) /\ Typed(t) /\ InPlace(t) /\ t.node = Integration
    BY ThreadTyped DEF CreateIntegration, ThreadOK
  <2>2. /\ Same(v, t) /\ v.at = "apply" /\ v.cand = t.cand /\ v.todo = Writer
        /\ v.change = t.change /\ v.judged = t.judged
    BY <2>0, <2>1 DEF Typed, Same, ThreadFields
  <2>3. /\ threads' = (threads \ {t}) \cup {v}
        /\ tree' = With(tree, Name(t), Empty)
        /\ worktrees' = With(worktrees, Key(t), Name(t))
        /\ UNCHANGED <<current, count, active, accepted, snapshots, stray>>
    BY <1>2, <2>0 DEF CreateIntegration, Become, nodeVars
  <2>4. Name(v) = Name(t) /\ Key(v) = Key(t)
    BY <2>2 DEF Name, Key, Same
  <2>5. /\ DOMAIN tree' = DOMAIN tree \cup {Name(t)} /\ tree'[Name(t)] = Empty
        /\ \A w \in DOMAIN tree : w # Name(t) => tree'[w] = tree[w]
    BY <2>3 DEF With
  <2>6. /\ DOMAIN worktrees' = DOMAIN worktrees \cup {Key(t)}
        /\ worktrees'[Key(t)] = Name(t)
        /\ \A k \in DOMAIN worktrees : k # Key(t) => worktrees'[k] = worktrees[k]
    BY <2>3 DEF With
  <2>7. Name(t) \notin stray' /\ stray' \subseteq DOMAIN tree'
    BY <1>2, <2>3, <2>5 DEF WInv, TreesOK, Exists
  <2>8. (ThreadOK(v))'
    <3>1. /\ (Typed(v))' /\ (Unaccepted(v))'
          /\ v.node = Integration => \A p \in Writer : (Done(v.run, p))'
      BY <2>1, <2>2, <2>3, StaysTyped DEF Typed, At
    <3>2. (InPlace(v))'
      BY <2>1, <2>2, <2>4, <2>5, <2>6, <3>1 DEF InPlace, Same, Exists
    <3>3. Writer \ v.todo = {} /\ DOMAIN tree'[Name(v)] = {}
      BY <2>2, <2>4, <2>5, EmptyFiles
    <3>4. (Unchecked(v))' /\ (Applying(v))'
      BY <2>4, <2>7, <3>3 DEF Unchecked, Applying, Union
    <3>5. (CapturedOwn(v))' /\ (Judging(v))'
      BY <2>2 DEF CapturedOwn, Judging
    <3> QED BY <3>1, <3>2, <3>4, <3>5 DEF ThreadOK
  <2>9. \A w \in DOMAIN tree' \cap {Name(t), Name(v)} : Files(tree'[w]) /\ (Tagged(w))'
    BY <2>4, <2>5, EmptyFiles DEF Tagged
  <2> QED BY <2>2, <2>3, <2>4, <2>5, <2>6, <2>7, <2>8, <2>9, StepKeeps
<1> QED BY <1>1, <1>2


(* What an input applied leaves of its files and of those that were there: *)
(* all of both, also where they have a file in common.                     *)
Put(change, old, new) ==
  /\ DOMAIN new = DOMAIN change \cup DOMAIN old
  /\ \A f \in DOMAIN new \ DOMAIN old : new[f] = change[f]
  /\ \A f \in DOMAIN new \ DOMAIN change : new[f] = old[f]
  /\ \A f \in Common(change, old) : new[f] = change[f] \cup old[f]

LEMMA OverlayPuts ==
  ASSUME NEW change, NEW old, Files(change), Files(old),
         NEW joined \in SUBSET Common(change, old), Fits(change, old, joined),
         NEW new, new = Overlay(change, old, joined)
  PROVE  Files(new) /\ Put(change, old, new)
<1>1. joined = Common(change, old)
  BY DEF Fits
<1>2. DOMAIN new = DOMAIN change \cup DOMAIN old /\ Files(new)
  BY DEF Overlay, Files
<1>3. \A f \in DOMAIN new : new[f] = IF f \in joined THEN change[f] \cup old[f]
                                    ELSE IF f \in DOMAIN change THEN change[f] ELSE old[f]
  BY <1>2 DEF Overlay
<1> QED BY <1>1, <1>2, <1>3 DEF Put, Common

LEMMA UnionGrows ==
  ASSUME NEW r, NEW S, NEW p, NEW old, NEW new, Union(r, S, old),
         Put(Part(r, p), old, new)
  PROVE  Union(r, S \cup {p}, new)
<1> DEFINE Who(T, f) == {q \in T : f \in DOMAIN Part(r, q)}
           All(T, f) == UNION {Part(r, q)[f] : q \in Who(T, f)}
<1>1. DOMAIN new = UNION {DOMAIN Part(r, q) : q \in S \cup {p}}
  BY DEF Union, Put
<1>2. ASSUME NEW f \in DOMAIN new PROVE new[f] = All(S \cup {p}, f)
  <2>1. f \in DOMAIN old => old[f] = All(S, f)
    BY DEF Union
  <2>2. f \notin DOMAIN old => Who(S, f) = {}
    BY DEF Union
  <2>3. CASE f \notin DOMAIN old
    <3>1. Who(S \cup {p}, f) = {p} /\ new[f] = Part(r, p)[f]
      BY <2>2, <2>3 DEF Put
    <3> QED BY <3>1
  <2>4. CASE f \notin DOMAIN Part(r, p)
    <3>1. Who(S \cup {p}, f) = Who(S, f) /\ new[f] = old[f] /\ f \in DOMAIN old
      BY <2>4 DEF Put
    <3> QED BY <2>1, <3>1
  <2>5. CASE f \in Common(Part(r, p), old)
    <3>1. Who(S \cup {p}, f) = Who(S, f) \cup {p} /\ new[f] = Part(r, p)[f] \cup old[f]
      BY <2>5 DEF Put, Common
    <3>2. All(S \cup {p}, f) = All(S, f) \cup Part(r, p)[f]
      BY <3>1
    <3> QED BY <2>1, <2>5, <3>1, <3>2 DEF Common
  <2> QED BY <2>3, <2>4, <2>5 DEF Common
<1> QED BY <1>1, <1>2 DEF Union

LEMMA ApplyKeeps ==
  ASSUME WInv, WorkspacesAssumption, NEW t \in threads, Apply(t)
  PROVE  WInv'
<1>1. CASE Fails(t)
  BY <1>1, FailsKeeps
<1>2. CASE ~Fails(t)
  <2>1. /\ ThreadOK(t) /\ Typed(t) /\ InPlace(t) /\ t.at = "apply"
        /\ t.run \in RunId /\ t.node = Integration /\ Exists(Name(t))
    BY ThreadTyped DEF Apply, ThreadOK, InPlace
  <2>p. PICK p \in t.todo : \E joined \in SUBSET Common(Part(t.run, p), tree[Name(t)]) :
          /\ Fits(Part(t.run, p), tree[Name(t)], joined)
          /\ tree' = [tree EXCEPT ![Name(t)] =
                        Overlay(Part(t.run, p), tree[Name(t)], joined)]
          /\ Become(t, [t EXCEPT !.todo = t.todo \ {p}])
          /\ UNCHANGED <<current, resumed, mapVars, nodeVars, stray, odd>>
    BY <1>2 DEF Apply, Part
  <2>2. PICK joined \in SUBSET Common(Part(t.run, p), tree[Name(t)]) :
          /\ Fits(Part(t.run, p), tree[Name(t)], joined)
          /\ tree' = [tree EXCEPT ![Name(t)] =
                        Overlay(Part(t.run, p), tree[Name(t)], joined)]
          /\ Become(t, [t EXCEPT !.todo = t.todo \ {p}])
          /\ UNCHANGED <<current, resumed, mapVars, nodeVars, stray, odd>>
    BY <2>p
  <2>3. PICK v : v = [t EXCEPT !.todo = t.todo \ {p}]
    OBVIOUS
  <2>4. /\ Same(v, t) /\ v.at = "apply" /\ v.cand = t.cand /\ v.todo = t.todo \ {p}
        /\ v.change = t.change /\ v.judged = t.judged
    BY <2>1, <2>3 DEF Typed, Same, ThreadFields
  <2>5. /\ threads' = (threads \ {t}) \cup {v}
        /\ UNCHANGED <<current, count, active, accepted, worktrees, snapshots, stray>>
    BY <2>2, <2>3 DEF Become, nodeVars, mapVars
  <2>6. Name(v) = Name(t) /\ Key(v) = Key(t)
    BY <2>4 DEF Name, Key, Same
  <2>7. p \in Writer /\ p \in Node /\ Done(t.run, p) /\ WriterAlone(t.run, p)
        /\ Files(Part(t.run, p)) /\ p # Integration
    BY <2>1, <2>2 DEF Typed, InPlace, WInv, RowsOK, AcceptedIsOwnWork, Part, Node,
                      WorkspacesAssumption
  <2>8. Files(tree[Name(t)]) /\ Tagged(Name(t))
    BY <2>1 DEF WInv, TreesOK, Exists
  <2>9. PICK new : new = Overlay(Part(t.run, p), tree[Name(t)], joined)
    OBVIOUS
  <2>10. Files(new) /\ Put(Part(t.run, p), tree[Name(t)], new)
    BY <2>2, <2>7, <2>8, <2>9, OverlayPuts
  <2>11. /\ DOMAIN tree' = DOMAIN tree /\ tree'[Name(t)] = new
         /\ \A w \in DOMAIN tree : w # Name(t) => tree'[w] = tree[w]
    BY <2>1, <2>2, <2>9 DEF Exists
  <2>12. \A f \in DOMAIN Part(t.run, p) : \A x \in Part(t.run, p)[f] : x[1].node = p
    BY <2>7 DEF WriterAlone, Part
  <2>13. Name(t).node = Integration
    BY <2>1 DEF Name
  <2>14. (Tagged(Name(t)))'
    <3>1. \A f \in DOMAIN new : \A x \in new[f] :
            x[1] = Name(t) \/ x[1].node \in Writer
      BY <2>7, <2>8, <2>10, <2>12, <2>13 DEF Tagged, Put, Common
    <3> QED BY <2>11, <2>13, <3>1 DEF Tagged
  <2>15. (ThreadOK(v))'
    <3>1. /\ (Typed(v))' /\ (Unaccepted(v))'
          /\ v.node = Integration => \A q \in Writer : (Done(v.run, q))'
      BY <2>1, <2>4, <2>5, StaysTyped DEF Typed
    <3>2. (InPlace(v))'
      BY <2>1, <2>4, <2>5, <2>6, <2>11, <3>1 DEF InPlace, Same, Exists
    <3>3. (Unchecked(v))'
      <4>1. \A f \in DOMAIN tree[Name(t)] : ~ ByCheck(Name(t), tree[Name(t)][f])
        BY <2>1 DEF ThreadOK, Unchecked
      <4>2. \A f \in DOMAIN new : ~ ByCheck(Name(t), new[f])
        BY <2>7, <2>10, <2>12, <2>13, <4>1 DEF ByCheck, Put, Common
      <4> QED BY <2>6, <2>11, <4>2 DEF Unchecked, ByCheck
    <3>4. (Applying(v))'
      <4>1. Name(t) \notin stray /\ Union(t.run, Writer \ t.todo, tree[Name(t)])
        BY <2>1 DEF ThreadOK, Applying
      <4>2. Union(t.run, (Writer \ t.todo) \cup {p}, new)
        BY <2>10, <4>1, UnionGrows
      <4>3. (Writer \ t.todo) \cup {p} = Writer \ v.todo /\ v.run = t.run
        BY <2>1, <2>2, <2>4 DEF Typed, Same
      <4>4. Union(v.run, Writer \ v.todo, new)
        BY <4>2, <4>3
      <4>5. (Union(v.run, Writer \ v.todo, new))'
        BY <2>5, <4>4 DEF Union, Part
      <4> QED BY <2>5, <2>6, <2>11, <4>1, <4>5 DEF Applying
    <3>5. (CapturedOwn(v))' /\ (Judging(v))'
      BY <2>4 DEF CapturedOwn, Judging
    <3> QED BY <3>1, <3>2, <3>3, <3>4, <3>5 DEF ThreadOK
  <2>16. /\ stray' \subseteq DOMAIN tree'
         /\ \A w \in DOMAIN tree' \cap {Name(t), Name(v)} : Files(tree'[w]) /\ (Tagged(w))'
    <3>1. Files(tree'[Name(t)])
      BY <2>10, <2>11
    <3> QED BY <2>5, <2>6, <2>11, <2>14, <3>1 DEF WInv, TreesOK
  <2> QED BY <2>4, <2>5, <2>6, <2>11, <2>15, <2>16, StepKeeps
<1> QED BY <1>1, <1>2


(* The check begins on what is there, and what it ends with tells whether  *)
(* that was what was captured.                                             *)
LEMMA StartCheckKeeps ==
  ASSUME WInv, NEW t \in threads, StartCheck(t)
  PROVE  WInv'
<1>0. PICK v : v = [t EXCEPT !.at = "check", !.judged = tree[worktrees[Key(t)]]]
  OBVIOUS
<1>1. /\ ThreadOK(t) /\ Typed(t) /\ InPlace(t) /\ t.at = "accepting"
      /\ Exists(Name(t)) /\ Key(t) \in DOMAIN worktrees /\ worktrees[Key(t)] = Name(t)
      /\ CapturedOwn(t) /\ Later(Name(t), tree[Name(t)], t.change)
  BY ThreadTyped DEF StartCheck, ThreadOK, InPlace, Judging
<1>2. /\ Same(v, t) /\ v.at = "check" /\ v.cand = t.cand /\ v.todo = t.todo
      /\ v.change = t.change /\ v.judged = tree[Name(t)]
  BY <1>0, <1>1 DEF Typed, Same, ThreadFields
<1>3. /\ threads' = (threads \ {t}) \cup {v}
      /\ UNCHANGED <<current, tree, count, active, accepted, worktrees, snapshots, stray>>
  BY <1>0 DEF StartCheck, Become, nodeVars, mapVars
<1>4. Name(v) = Name(t) /\ Key(v) = Key(t)
  BY <1>2 DEF Name, Key, Same
<1>5. Files(tree[Name(t)]) /\ TreesOK
  BY <1>1 DEF WInv, TreesOK, Exists
<1>6. (ThreadOK(v))'
  <2>1. /\ (Typed(v))' /\ (Unaccepted(v))'
        /\ v.node = Integration => \A p \in Writer : (Done(v.run, p))'
    BY <1>1, <1>2, <1>3, <1>5, StaysTyped DEF Typed, At
  <2>2. (InPlace(v))'
    BY <1>1, <1>2, <1>3, <1>4, <2>1 DEF InPlace, Exists
  <2>3. OwnWork(v)
    BY <1>1, <1>2, <1>4 DEF CapturedOwn, OwnWork, Same
  <2>4. (OwnWork(v))'
    BY <1>3, <2>3 DEF OwnWork, Union, Part
  <2>5. (CapturedOwn(v))'
    BY <1>1, <1>2, <1>4, <2>4 DEF CapturedOwn, ByCheck
  <2>6. (Judging(v))'
    BY <1>1, <1>2, <1>3, <1>4 DEF Judging, Later
  <2>7. (Unchecked(v))' /\ (Applying(v))'
    BY <1>2 DEF Unchecked, Applying
  <2> QED BY <2>1, <2>2, <2>5, <2>6, <2>7 DEF ThreadOK
<1>7. /\ stray' \subseteq DOMAIN tree'
      /\ \A w \in DOMAIN tree' \cap {Name(t), Name(v)} : Files(tree'[w]) /\ (Tagged(w))'
  BY <1>3, <1>5 DEF TreesOK, Tagged
<1> QED BY <1>2, <1>3, <1>6, <1>7, StepKeeps

(* What is the captured files again was never anything else.               *)
LEMMA NothingComesBack ==
  ASSUME NEW w, NEW old, NEW mid, NEW new, Files(old), Files(mid),
         Later(w, mid, old), Later(w, new, mid), new = old
  PROVE  mid = old
<1>1. DOMAIN mid = DOMAIN old
  BY DEF Later
<1>2. \A f \in DOMAIN old : mid[f] = old[f]
  BY <1>1 DEF Later
<1> QED BY <1>1, <1>2 DEF Files

LEMMA EndCheckKeeps ==
  ASSUME WInv, NEW t \in threads, EndCheck(t)
  PROVE  WInv'
<1>1. /\ ThreadOK(t) /\ Typed(t) /\ InPlace(t) /\ t.at = "check"
      /\ Exists(Name(t)) /\ Key(t) \in DOMAIN worktrees /\ worktrees[Key(t)] = Name(t)
      /\ snapshots[Key(t)] = t.change /\ CapturedOwn(t)
      /\ Later(Name(t), t.judged, t.change) /\ Later(Name(t), tree[Name(t)], t.judged)
  BY ThreadTyped DEF EndCheck, ThreadOK, InPlace, Judging
<1>2. PICK F \in {{}, File} : Writes(Name(t), "check", F)
  BY <1>1 DEF EndCheck
<1>3. PICK v : v = [t EXCEPT !.at = IF Unmutated(t, tree'[Name(t)]) THEN "passed" ELSE "failed"]
  OBVIOUS
<1>4. /\ Same(v, t) /\ v.cand = t.cand /\ v.todo = t.todo
      /\ v.change = t.change /\ v.judged = t.judged /\ v.at \in {"passed", "failed"}
      /\ v.at = "passed" => tree'[Name(t)] = t.change
  BY <1>1, <1>3 DEF Typed, Same, ThreadFields, Unmutated
<1>5. /\ threads' = (threads \ {t}) \cup {v} /\ Leave(Name(t))
      /\ UNCHANGED <<current, count, active, accepted, worktrees, snapshots>>
  BY <1>1, <1>3 DEF EndCheck, Step, nodeVars, mapVars
<1>6. Name(v) = Name(t) /\ Key(v) = Key(t)
  BY <1>4 DEF Name, Key, Same
<1>7. /\ DOMAIN tree' = DOMAIN tree
      /\ \A w \in DOMAIN tree : w # Name(t) => tree'[w] = tree[w]
      /\ \A w \in DOMAIN tree : Files(tree'[w]) /\ (Tagged(w))'
      /\ DOMAIN tree'[Name(t)] = DOMAIN tree[Name(t)] \cup F
      /\ \A f \in F : tree'[Name(t)][f] = {<<Name(t), "check">>}
      /\ \A f \in DOMAIN tree[Name(t)] : f \notin F => tree'[Name(t)][f] = tree[Name(t)][f]
  <2>1. F \subseteq File
    OBVIOUS
  <2> QED BY <1>1, <1>2, <2>1, OwnWrite
<1>8. (ThreadOK(v))'
  <2>1. /\ (Typed(v))' /\ (Unaccepted(v))'
        /\ v.node = Integration => \A p \in Writer : (Done(v.run, p))'
    BY <1>1, <1>4, <1>5, StaysTyped DEF Typed, At
  <2>2. (InPlace(v))'
    BY <1>4, <2>1 DEF InPlace
  <2>3. v.at = "passed" => v.judged = v.change
    <3> SUFFICES ASSUME v.at = "passed" PROVE t.judged = t.change
      BY <1>4
    <3>1. PICK now, change, judged : now = tree[Name(t)] /\ change = t.change /\ judged = t.judged
      OBVIOUS
    <3>2. F = {}
      <4>1. \A f \in F : f \in DOMAIN t.change /\ t.change[f] = {<<Name(t), "check">>}
        BY <1>4, <1>7
      <4>2. PICK x : x = <<Name(t), "check">>
        OBVIOUS
      <4>3. \A f \in F : f \in DOMAIN t.change /\ x \in t.change[f]
        BY <4>1, <4>2
      <4>4. x[1] = Name(t) /\ x[2] = "check"
        BY <4>2
      <4> QED BY <1>1, <4>3, <4>4 DEF CapturedOwn, ByCheck
    <3>3. Files(now) /\ Files(change) /\ Files(judged)
      BY <1>1, <3>1 DEF WInv, TreesOK, Exists, Typed
    <3>4. now = change
      <4>1. DOMAIN now = DOMAIN change /\ \A f \in DOMAIN now : now[f] = change[f]
        BY <1>4, <1>7, <3>1, <3>2
      <4> QED BY <3>3, <4>1 DEF Files
    <3>5. Later(Name(t), judged, change) /\ Later(Name(t), now, judged)
      BY <1>1, <3>1
    <3>6. judged = change
      BY <3>3, <3>4, <3>5, NothingComesBack
    <3> QED BY <3>1, <3>6
  <2>4. OwnWork(v)
    BY <1>1, <1>4, <1>6 DEF CapturedOwn, OwnWork, Same
  <2>5. (OwnWork(v))'
    BY <1>5, <2>4 DEF OwnWork, Union, Part
  <2>6. (CapturedOwn(v))'
    BY <1>1, <1>4, <1>6, <2>5 DEF CapturedOwn, ByCheck
  <2>7. (Judging(v))' /\ (Unchecked(v))' /\ (Applying(v))'
    BY <1>4, <2>3 DEF Judging, Unchecked, Applying
  <2> QED BY <2>1, <2>2, <2>6, <2>7 DEF ThreadOK
<1>9. stray' \subseteq stray \cup {Name(t)} /\ stray' \subseteq DOMAIN tree'
  BY <1>1, <1>5, <1>7, Leaves DEF Exists
<1> QED BY <1>4, <1>5, <1>6, <1>7, <1>8, <1>9, StepKeeps


------------------------------------------------------------------------------
(* The start and the acceptance of an attempt, and left-behind processes.  *)

LEMMA StartAttemptKeeps ==
  ASSUME WInv, WorkspacesAssumption, NEW n \in Node, LaunchAttempt(n)
  PROVE  WInv'
<1>1. PICK r, v : r = current /\ v = Thread(r, n, count[r][n] + 1)
  OBVIOUS
<1>2. /\ r \in RunId /\ ~Done(r, n) /\ active[r][n] = 0
      /\ \A p \in Needs(n) : Done(r, p)
      /\ count' = [count EXCEPT ![r][n] = count[r][n] + 1]
      /\ active' = [active EXCEPT ![r][n] = count[r][n] + 1]
      /\ threads' = threads \cup {v}
      /\ UNCHANGED <<current, tree, worktrees, snapshots, accepted, stray>>
  BY <1>1 DEF LaunchAttempt, mapVars, WInv, RowsOK
<1>3. /\ DOMAIN v = ThreadFields /\ v.run = r /\ v.node = n /\ v.attempt = count[r][n] + 1
      /\ v.cand = 0 /\ v.at = "create" /\ v.todo = {} /\ v.change = Empty /\ v.judged = Empty
  BY <1>1 DEF Thread, ThreadFields
<1>4. RowsOK
  BY DEF WInv
<1>5. /\ count' \in [RunId -> [Node -> Nat]] /\ active' \in [RunId -> [Node -> Nat]]
      /\ count'[r][n] = count[r][n] + 1 /\ active'[r][n] = count[r][n] + 1
      /\ \A q \in RunId, m \in Node : q # r \/ m # n =>
           count'[q][m] = count[q][m] /\ active'[q][m] = active[q][m]
  BY <1>2, <1>4 DEF RowsOK
<1>6. ASSUME NEW q \in RunId, NEW m \in Node
      PROVE  /\ active'[q][m] <= count'[q][m] /\ count[q][m] <= count'[q][m]
             /\ accepted'[q][m].attempt \in Nat /\ accepted'[q][m].attempt <= count'[q][m]
             /\ (Done(q, m))' => active'[q][m] = 0 /\ Files(accepted'[q][m].change)
  <2>1. /\ active[q][m] <= count[q][m] /\ accepted[q][m].attempt <= count[q][m]
        /\ count[q][m] \in Nat /\ accepted[q][m].attempt \in Nat
        /\ Done(q, m) => active[q][m] = 0 /\ Files(accepted[q][m].change)
        /\ accepted' = accepted /\ ((Done(q, m))' <=> Done(q, m))
    BY <1>2, <1>4 DEF RowsOK, Done
  <2>2. CASE q = r /\ m = n
    BY <1>2, <1>5, <2>1, <2>2
  <2>3. CASE q # r \/ m # n
    BY <1>5, <2>1, <2>3
  <2> QED BY <2>2, <2>3
<1>7. RowsOK'
  <2>1. \A q \in RunId : (Done(q, Integration))' => \A p \in Writer : (Done(q, p))'
    BY <1>2, <1>4 DEF RowsOK, Done
  <2> QED BY <1>2, <1>4, <1>5, <1>6, <2>1 DEF RowsOK
<1>8. TreesOK'
  BY <1>2 DEF WInv, TreesOK, Tagged
<1>9. \A u \in threads : Key(u) # Key(v)
  <2>1. ASSUME NEW u \in threads, Key(u) = Key(v) PROVE FALSE
    <3>1. u.run \in RunId /\ u.attempt \in Nat /\ u.attempt <= count[u.run][u.node]
      BY ThreadTyped DEF ThreadOK, Typed, Unaccepted
    <3>2. u.run = r /\ u.node = n /\ u.attempt = count[r][n] + 1
      BY <1>2, <1>3, <2>1, <3>1 DEF Key, WorkspacesAssumption
    <3>3. count[r][n] \in Nat
      BY <1>2, <1>4 DEF RowsOK
    <3> QED BY <3>1, <3>2, <3>3
  <2> QED BY <2>1
<1>10. OneThread'
  BY <1>2, <1>9 DEF WInv, OneThread, Key
<1>11. ASSUME NEW u \in threads PROVE (ThreadOK(u))'
  <2>1. ThreadOK(u) /\ Unaccepted(u) /\ Typed(u)
    BY ThreadTyped DEF ThreadOK
  <2>2. /\ Exists(Name(u)) => Name(u) \in DOMAIN tree' /\ tree'[Name(u)] = tree[Name(u)]
        /\ Key(u) \in DOMAIN worktrees =>
             Key(u) \in DOMAIN worktrees' /\ worktrees'[Key(u)] = worktrees[Key(u)]
        /\ Key(u) \in DOMAIN snapshots =>
             Key(u) \in DOMAIN snapshots' /\ snapshots'[Key(u)] = snapshots[Key(u)]
        /\ Name(u) \in stray' => Name(u) \in stray
        /\ \A p \in Writer : Done(u.run, p) => accepted'[u.run][p] = accepted[u.run][p]
    BY <1>2 DEF Exists
  <2>3. (Done(u.run, u.node))' => accepted'[u.run][u.node].attempt # u.attempt
    BY <1>2, <2>1 DEF Unaccepted, Done
  <2>4. u.attempt <= count'[u.run][u.node]
    <3>1. /\ u.attempt <= count[u.run][u.node] /\ u.run \in RunId /\ u.node \in Node
          /\ u.attempt \in Nat
      BY <2>1 DEF Typed, Unaccepted
    <3>2. count[u.run][u.node] <= count'[u.run][u.node] /\ count[u.run][u.node] \in Nat
          /\ count'[u.run][u.node] \in Nat
      BY <1>4, <1>5, <1>6, <3>1 DEF RowsOK
    <3> QED BY <3>1, <3>2
  <2> QED BY <2>1, <2>2, <2>3, <2>4, OtherKeeps
<1>12. (ThreadOK(v))'
  <2>1. (Typed(v))'
    <3>1. count[r][n] + 1 \in Nat \ {0}
      BY <1>2, <1>4 DEF RowsOK
    <3> QED BY <1>2, <1>3, <3>1, EmptyFiles DEF Typed, At
  <2>2. (Unaccepted(v))'
    <3>1. v.attempt <= count'[r][n]
      BY <1>2, <1>3, <1>5
    <3> QED BY <1>2, <1>3, <3>1 DEF Unaccepted, Done
  <2>3. (InPlace(v))'
    BY <1>2, <1>3 DEF InPlace, Needs, Done
  <2>4. (Unchecked(v))' /\ (Applying(v))' /\ (CapturedOwn(v))' /\ (Judging(v))'
    BY <1>3 DEF Unchecked, Applying, CapturedOwn, Judging
  <2> QED BY <2>1, <2>2, <2>3, <2>4 DEF ThreadOK
<1>13. ThreadsOK'
  BY <1>2, <1>11, <1>12 DEF ThreadsOK
<1>14. JudgedAsAccepted' /\ AcceptedIsOwnWork'
  BY <1>2 DEF WInv, JudgedAsAccepted, AcceptedIsOwnWork, WriterAlone, Done
<1> QED BY <1>7, <1>8, <1>10, <1>13, <1>14 DEF WInv

(* What is accepted of a node was not before, as no attempt of it starts   *)
(* or runs on once one is.                                                 *)
LEMMA AcceptKeeps ==
  ASSUME WInv, WorkspacesAssumption, NEW t \in threads, Accept(t)
  PROVE  WInv'
<1>1. /\ ThreadOK(t) /\ Typed(t) /\ InPlace(t) /\ CapturedOwn(t) /\ t.at = "passed"
      /\ t.run \in RunId /\ t.node \in Node /\ t.judged = t.change /\ IsCurrent(t)
      /\ t.attempt \in Nat \ {0} /\ t.cand \in {0, 1} /\ OwnWork(t)
      /\ Unaccepted(t) /\ Files(t.change)
  BY ThreadTyped DEF Accept, ThreadOK, Typed, Judging, CapturedOwn
<1>2. RowsOK
  BY DEF WInv
<1>3. PICK row : row = [attempt |-> t.attempt, change |-> t.change, judged |-> t.judged]
  OBVIOUS
<1>4. /\ accepted' = [accepted EXCEPT ![t.run][t.node] = row]
      /\ active' = [active EXCEPT ![t.run][t.node] = 0]
      /\ threads' = threads \ {t}
      /\ UNCHANGED <<current, tree, worktrees, snapshots, count, stray>>
  BY <1>3 DEF Accept, mapVars
<1>5. row.attempt = t.attempt /\ row.change = t.change /\ row.judged = t.judged
  BY <1>3
<1>6. ~Done(t.run, t.node)
  BY <1>1, <1>2 DEF IsCurrent, RowsOK
<1>7. row # Nothing
  BY <1>1, <1>5 DEF Nothing
<1>8. /\ accepted'[t.run][t.node] = row
      /\ \A r \in RunId, n \in Node : r # t.run \/ n # t.node =>
           accepted'[r][n] = accepted[r][n]
      /\ DOMAIN accepted' = RunId /\ \A r \in RunId : DOMAIN accepted'[r] = Node
  BY <1>1, <1>2, <1>4 DEF RowsOK
<1>9. \A r \in RunId, n \in Node : Done(r, n) => accepted'[r][n] = accepted[r][n]
  BY <1>6, <1>8
<1>10. /\ (Done(t.run, t.node))'
       /\ \A r \in RunId, n \in Node :
            (Done(r, n))' <=> Done(r, n) \/ (r = t.run /\ n = t.node)
  BY <1>7, <1>8 DEF Done
<1>11. RowsOK'
  <2>1. /\ active' \in [RunId -> [Node -> Nat]]
        /\ \A r \in RunId, n \in Node : active'[r][n] \in {0, active[r][n]}
        /\ active'[t.run][t.node] = 0
    BY <1>1, <1>2, <1>4 DEF RowsOK
  <2>2. ASSUME NEW r \in RunId, NEW n \in Node
        PROVE  /\ active'[r][n] <= count[r][n]
               /\ accepted'[r][n].attempt \in Nat
               /\ accepted'[r][n].attempt <= count[r][n]
               /\ (Done(r, n))' => active'[r][n] = 0 /\ Files(accepted'[r][n].change)
    <3>1. /\ active[r][n] <= count[r][n] /\ count[r][n] \in Nat
          /\ accepted[r][n].attempt \in Nat /\ accepted[r][n].attempt <= count[r][n]
          /\ Done(r, n) => active[r][n] = 0 /\ Files(accepted[r][n].change)
          /\ active'[r][n] \in {0, active[r][n]}
      BY <1>2, <2>1 DEF RowsOK
    <3>2. CASE r = t.run /\ n = t.node
      BY <1>1, <1>5, <1>8, <2>1, <3>1, <3>2 DEF Unaccepted
    <3>3. CASE r # t.run \/ n # t.node
      <4>1. accepted'[r][n] = accepted[r][n] /\ ((Done(r, n))' <=> Done(r, n))
        BY <1>8, <1>10, <3>3
      <4>2. active'[r][n] <= count[r][n]
        BY <3>1
      <4> QED BY <3>1, <4>1, <4>2
    <3> QED BY <3>2, <3>3
  <2>3. ASSUME NEW r \in RunId, (Done(r, Integration))', NEW p \in Writer
        PROVE  (Done(r, p))'
    <3>1. Integration \in Node /\ p \in Node
      BY DEF Node
    <3>2. Done(r, p)
      BY <1>1, <1>2, <1>10, <2>3, <3>1 DEF RowsOK, InPlace
    <3> QED BY <1>10, <3>1, <3>2
  <2> QED BY <1>2, <1>4, <1>8, <2>1, <2>2, <2>3 DEF RowsOK
<1>12. TreesOK' /\ OneThread'
  BY <1>4 DEF WInv, TreesOK, Tagged, OneThread
<1>13. ASSUME NEW u \in threads, u # t PROVE (ThreadOK(u))'
  <2>1. ThreadOK(u) /\ Unaccepted(u) /\ u.run \in RunId /\ u.node \in Node
        /\ Key(u) # Key(t)
    BY <1>13, ThreadTyped DEF ThreadOK, WInv, OneThread
  <2>2. /\ Exists(Name(u)) => Name(u) \in DOMAIN tree' /\ tree'[Name(u)] = tree[Name(u)]
        /\ Key(u) \in DOMAIN worktrees =>
             Key(u) \in DOMAIN worktrees' /\ worktrees'[Key(u)] = worktrees[Key(u)]
        /\ Key(u) \in DOMAIN snapshots =>
             Key(u) \in DOMAIN snapshots' /\ snapshots'[Key(u)] = snapshots[Key(u)]
        /\ Name(u) \in stray' => Name(u) \in stray
        /\ u.attempt <= count'[u.run][u.node]
    BY <1>4, <2>1 DEF Exists, Unaccepted
  <2>3. \A p \in Writer : Done(u.run, p) => accepted'[u.run][p] = accepted[u.run][p]
    BY <1>9, <2>1 DEF Node
  <2>4. (Done(u.run, u.node))' => accepted'[u.run][u.node].attempt # u.attempt
    <3>1. CASE u.run = t.run /\ u.node = t.node
      BY <1>5, <1>8, <2>1, <3>1 DEF Key
    <3>2. CASE u.run # t.run \/ u.node # t.node
      BY <1>8, <1>10, <2>1, <3>2 DEF Unaccepted
    <3> QED BY <3>1, <3>2
  <2> QED BY <2>1, <2>2, <2>3, <2>4, OtherKeeps
<1>14. ThreadsOK'
  BY <1>4, <1>13 DEF ThreadsOK
<1>15. JudgedAsAccepted'
  <2>1. ASSUME NEW r \in RunId, NEW n \in Node, (Done(r, n))'
        PROVE  accepted'[r][n].judged = accepted'[r][n].change
    <3>1. CASE r = t.run /\ n = t.node
      BY <1>1, <1>5, <1>8, <3>1
    <3>2. CASE r # t.run \/ n # t.node
      BY <1>8, <1>10, <2>1, <3>2 DEF WInv, JudgedAsAccepted
    <3> QED BY <3>1, <3>2
  <2> QED BY <2>1 DEF JudgedAsAccepted
<1>16. AcceptedIsOwnWork'
  <2>1. ASSUME NEW r \in RunId, NEW n \in Writer, (Done(r, n))'
        PROVE  (WriterAlone(r, n))'
    <3>1. n \in Node /\ n # Integration
      BY DEF Node, WorkspacesAssumption
    <3>2. CASE r = t.run /\ n = t.node
      <4>1. \A f \in DOMAIN t.change : \A x \in t.change[f] :
              x[1] = Name(t) /\ x[2] # "check"
        BY <1>1, <3>1, <3>2 DEF OwnWork, CapturedOwn, ByCheck
      <4>2. PICK a : a = accepted'[r][n]
        OBVIOUS
      <4>3. a.change = t.change /\ a.attempt = t.attempt
        BY <1>5, <1>8, <3>2, <4>2
      <4>4. PICK k \in {0, 1} : Name(t) = [run |-> r, node |-> n,
                                          attempt |-> a.attempt, cand |-> k]
        BY <1>1, <3>2, <4>3 DEF Name
      <4> QED BY <4>1, <4>2, <4>3, <4>4 DEF WriterAlone
    <3>3. CASE r # t.run \/ n # t.node
      <4>1. accepted'[r][n] = accepted[r][n] /\ WriterAlone(r, n)
        BY <1>8, <1>10, <2>1, <3>1, <3>3 DEF WInv, AcceptedIsOwnWork
      <4> QED BY <4>1 DEF WriterAlone
    <3> QED BY <3>2, <3>3
  <2>2. ASSUME NEW r \in RunId, (Done(r, Integration))'
        PROVE  (Union(r, Writer, accepted[r][Integration].change))'
    <3>1. Integration \in Node /\ \A p \in Writer : p \in Node /\ p # Integration
      BY DEF Node, WorkspacesAssumption
    <3>2. \A p \in Writer : Done(r, p)
      BY <1>1, <1>2, <1>10, <2>2, <3>1 DEF RowsOK, InPlace
    <3>3. \A p \in Writer : (Part(r, p))' = Part(r, p)
      BY <1>9, <3>1, <3>2 DEF Part
    <3>4. Union(r, Writer, accepted'[r][Integration].change)
      <4>1. CASE r = t.run /\ t.node = Integration
        BY <1>1, <1>5, <1>8, <4>1 DEF OwnWork
      <4>2. CASE r # t.run \/ t.node # Integration
        <5>1. accepted'[r][Integration] = accepted[r][Integration] /\ Done(r, Integration)
          BY <1>8, <1>10, <2>2, <3>1, <4>2
        <5> QED BY <5>1 DEF WInv, AcceptedIsOwnWork, Union, Part
      <4> QED BY <4>1, <4>2
    <3> QED BY <3>3, <3>4 DEF Union
  <2> QED BY <2>1, <2>2 DEF AcceptedIsOwnWork, Union, Part
<1> QED BY <1>11, <1>12, <1>14, <1>15, <1>16 DEF WInv


(* A left-behind process writes in a worktree that the thread of it, if it *)
(* still has one, created, and in no half-made integration.                *)
LEMMA StrayWritesKeeps ==
  ASSUME WInv, NEW w \in stray, StrayWrites(w)
  PROVE  WInv'
<1>1. PICK F, who : F \subseteq File /\ who = "stray" /\ Writes(w, who, F)
  BY DEF StrayWrites
<1>2. UNCHANGED <<current, worktrees, snapshots, count, active, accepted, threads, stray>>
  BY DEF StrayWrites, mapVars, nodeVars
<1>3. w \in DOMAIN tree /\ Files(tree[w]) /\ Tagged(w) /\ TreesOK
  BY DEF WInv, TreesOK
<1>4. /\ DOMAIN tree' = DOMAIN tree
      /\ \A v \in DOMAIN tree : v # w => tree'[v] = tree[v]
      /\ Files(tree'[w]) /\ (Tagged(w))'
      /\ DOMAIN tree[w] \subseteq DOMAIN tree'[w]
      /\ \A f \in DOMAIN tree'[w] : \/ f \in DOMAIN tree[w] /\ tree'[w][f] = tree[w][f]
                                    \/ tree'[w][f] = {<<w, "stray">>}
  <2>1. (Tagged(w))'
    BY <1>1, <1>3, WriteTagged
  <2>2. /\ DOMAIN tree' = DOMAIN tree
        /\ \A v \in DOMAIN tree : v # w => tree'[v] = tree[v]
        /\ Files(tree'[w]) /\ DOMAIN tree'[w] = DOMAIN tree[w] \cup F
        /\ \A f \in F : tree'[w][f] = {<<w, who>>}
        /\ \A f \in DOMAIN tree[w] : f \notin F => tree'[w][f] = tree[w][f]
    BY <1>1, <1>3, WriteEffect
  <2> QED BY <1>1, <2>1, <2>2
<1>5. TreesOK'
  BY <1>2, <1>3, <1>4 DEF TreesOK, Tagged
<1>6. ASSUME NEW u \in threads PROVE (ThreadOK(u))'
  <2>1. /\ ThreadOK(u) /\ Typed(u) /\ Unaccepted(u) /\ InPlace(u) /\ Unchecked(u)
        /\ Applying(u) /\ CapturedOwn(u) /\ Judging(u)
    BY ThreadTyped DEF ThreadOK
  <2>2. CASE Name(u) # w
    <3>1. /\ Exists(Name(u)) => Name(u) \in DOMAIN tree' /\ tree'[Name(u)] = tree[Name(u)]
          /\ Name(u) \in stray' => Name(u) \in stray
          /\ \A p \in Writer : Done(u.run, p) => accepted'[u.run][p] = accepted[u.run][p]
      BY <1>2, <1>4, <2>2 DEF Exists
    <3>2. /\ Key(u) \in DOMAIN worktrees =>
               Key(u) \in DOMAIN worktrees' /\ worktrees'[Key(u)] = worktrees[Key(u)]
          /\ Key(u) \in DOMAIN snapshots =>
               Key(u) \in DOMAIN snapshots' /\ snapshots'[Key(u)] = snapshots[Key(u)]
      BY <1>2
    <3>3. /\ u.attempt <= count'[u.run][u.node]
          /\ (Done(u.run, u.node))' => accepted'[u.run][u.node].attempt # u.attempt
      BY <1>2, <2>1 DEF Unaccepted, Done
    <3> QED BY <2>1, <3>1, <3>2, <3>3, OtherKeeps
  <2>3. CASE Name(u) = w
    <3>1. (Typed(u))' /\ (Unaccepted(u))'
      BY <1>2, <2>1 DEF Typed, Unaccepted, Done
    <3>2. (InPlace(u))'
      BY <1>2, <1>4, <2>1 DEF InPlace, Exists, Done
    <3>3. (Unchecked(u))'
      <4> SUFFICES ASSUME u.at \in {"agent", "capture", "apply"}
                   PROVE  \A f \in DOMAIN tree'[w] : ~ ByCheck(w, tree'[w][f])
        BY <2>3 DEF Unchecked, ByCheck
      <4>1. \A f \in DOMAIN tree[w] : ~ ByCheck(w, tree[w][f])
        BY <2>1, <2>3 DEF Unchecked
      <4> QED BY <1>4, <4>1 DEF ByCheck
    <3>4. u.at # "apply"
      BY <2>1, <2>3 DEF Applying
    <3>5. (CapturedOwn(u))'
      <4>1. OwnWork(u) => (OwnWork(u))'
        BY <1>2 DEF OwnWork, Union, Part
      <4> QED BY <2>1, <4>1 DEF CapturedOwn
    <3>6. (Judging(u))'
      <4>1. \A old : Later(w, tree[w], old) => Later(w, tree'[w], old)
        BY <1>4 DEF Later
      <4>2. u.at = "accepting" => Later(w, tree'[w], u.change)
        BY <2>1, <2>3, <4>1 DEF Judging
      <4>3. u.at = "check" => Later(w, u.judged, u.change) /\ Later(w, tree'[w], u.judged)
        BY <2>1, <2>3, <4>1 DEF Judging
      <4> QED BY <2>1, <2>3, <4>2, <4>3 DEF Judging, Later
    <3> QED BY <3>1, <3>2, <3>3, <3>4, <3>5, <3>6 DEF ThreadOK, Applying
  <2> QED BY <2>2, <2>3
<1>7. ThreadsOK' /\ OneThread'
  BY <1>2, <1>6 DEF ThreadsOK, WInv, OneThread
<1>8. RowsOK'
  BY <1>2 DEF WInv, RowsOK, Done
<1>9. JudgedAsAccepted' /\ AcceptedIsOwnWork'
  BY <1>2 DEF WInv, JudgedAsAccepted, AcceptedIsOwnWork, WriterAlone, Done
<1> QED BY <1>5, <1>7, <1>8, <1>9 DEF WInv

------------------------------------------------------------------------------
(* The theorems.                                                           *)

LEMMA WInvInit ==
  ASSUME TreeInit
  PROVE  WInv
<1>1. \A r \in RunId, n \in Node : ~Done(r, n)
  BY DEF TreeInit, Done
<1>2. Integration \in Node /\ Writer \subseteq Node
  BY DEF Node
<1>3. RowsOK
  <2>1. \A r \in RunId, n \in Node : accepted[r][n].attempt = 0
    BY DEF TreeInit, Nothing
  <2> QED BY <1>1, <1>2, <2>1 DEF TreeInit, RowsOK
<1>4. TreesOK /\ OneThread /\ ThreadsOK
  <2>1. DOMAIN tree = {}
    BY EmptyFiles DEF TreeInit
  <2> QED BY <2>1 DEF TreeInit, TreesOK, OneThread, ThreadsOK
<1>5. JudgedAsAccepted /\ AcceptedIsOwnWork
  BY <1>1, <1>2 DEF JudgedAsAccepted, AcceptedIsOwnWork
<1> QED BY <1>3, <1>4, <1>5 DEF WInv

LEMMA WInvNext ==
  ASSUME WInv, WorkspacesAssumption, [TreeNext]_wsVars
  PROVE  WInv'
<1>1. ASSUME NEW r \in RunId, Begin(r) PROVE WInv'
  BY <1>1, BeginKeeps
<1>2. ASSUME NEW n \in Node, LaunchAttempt(n) PROVE WInv'
  BY <1>2, StartAttemptKeeps
<1>3. ASSUME NEW t \in threads, ThreadStep(t) PROVE WInv'
  <2>1. CASE CreateAgent(t)
    BY <2>1, CreateAgentKeeps
  <2>2. CASE AgentExits(t)
    BY <2>2, AgentExitsKeeps
  <2>3. CASE AgentFails(t)
    BY <2>3, AgentFailsKeeps
  <2>4. CASE Capture(t) \/ CaptureIntegration(t)
    BY <2>4, CapturedKeeps
  <2>5. CASE CreateIntegration(t)
    BY <2>5, CreateIntegrationKeeps
  <2>6. CASE Apply(t)
    BY <2>6, ApplyKeeps
  <2>7. CASE StartCheck(t)
    BY <2>7, StartCheckKeeps
  <2>8. CASE EndCheck(t)
    BY <2>8, EndCheckKeeps
  <2>9. CASE Accept(t)
    BY <2>9, AcceptKeeps
  <2>10. CASE Reject(t) \/ TimeOut(t) \/ Ignored(t)
    BY <2>10, EndedKeep
  <2> QED BY <1>3, <2>1, <2>2, <2>3, <2>4, <2>5, <2>6, <2>7, <2>8, <2>9, <2>10 DEF ThreadStep
<1>4. ASSUME NEW w \in stray, StrayWrites(w) PROVE WInv'
  BY <1>4, StrayWritesKeeps
<1>5. CASE EndRun
  BY <1>5, EndRunKeeps
<1>6. CASE Restart
  BY <1>6, CrashKeeps
<1>7. CASE UNCHANGED wsVars
  <2>1. active \in [RunId -> [Node -> Nat]] /\ current \in RunId \cup {0}
    BY DEF WInv, RowsOK
  <2> QED BY <1>7, <2>1, RowsKeep DEF wsVars, mapVars, nodeVars
<1> QED BY <1>1, <1>2, <1>3, <1>4, <1>5, <1>6, <1>7 DEF TreeNext

LEMMA WInvariance ==
  ASSUME WorkspacesAssumption
  PROVE  TreeSpec => []WInv
  BY WInvInit, WInvNext, PTL DEF TreeSpec

(* What the checks of an accepted attempt ran on is the change set its     *)
(* consumers get, for every number of writers, files, attempts and         *)
(* left-behind processes, in an object that executes one run: the check    *)
(* refuses a worktree that is not what was captured (orchestrator.py), and *)
(* what a left-behind process overwrote before or while the check ran does *)
(* not come back.                                                          *)
THEOREM JudgedIsAccepted ==
  ASSUME WorkspacesAssumption
  PROVE  TreeSpec => []JudgedAsAccepted
<1>1. WInv => JudgedAsAccepted
  BY DEF WInv
<1> QED BY <1>1, WInvariance, PTL

(* An accepted change set is the attempt's own candidate's work, and an    *)
(* accepted integration exactly its inputs together, a file that several   *)
(* of them changed holding what each made of it: no worktree is used twice *)
(* (worktrees.py), an input whose changes to a common file do not go       *)
(* together with what is there is refused, and what the check wrote is     *)
(* never captured.                                                         *)
THEOREM AcceptedIsOwn ==
  ASSUME WorkspacesAssumption
  PROVE  TreeSpec => []AcceptedIsOwnWork
<1>1. WInv => AcceptedIsOwnWork
  BY DEF WInv
<1> QED BY <1>1, WInvariance, PTL
=============================================================================
