---------------------------- MODULE SchedulerProofs ----------------------------
(***************************************************************************)
(* The promises of Scheduler, for every workflow and any number of         *)
(* invocations that overlap, crash, lose their lease and resume.           *)
(*                                                                         *)
(* Everything rests on one fact about a scheduler that works from what it  *)
(* read transactions ago: as long as it owns the lease, nobody else has    *)
(* written, so what it read is still true up to its own writes (ViewInv).  *)
(* An invocation takes the lease once; if it is not the owner any more, it *)
(* never writes again.  With this each write of the scheduler is one that  *)
(* RunStore allows its clients, and RunStoreProofs' invariants hold here.  *)
(***************************************************************************)
EXTENDS Scheduler, RunStoreProofs, FiniteSetTheorems

St(n) == node[n].status

(* Labels between the first read of an iteration and its last write.       *)
Reading == {"reserve", "join", "audit", "block", "dispatch"}

(* Labels at which the invocation still writes attempts.                   *)
Working == Writing \cup {"top", "renew", "look"}

(* A lease is taken once, by an invocation that has come to "acquire".     *)
LeaseInv ==
  /\ \A l \in leases : proc[l.token].pc \notin {"off", "call", "acquire"}
  /\ \A l, m \in leases : l.token = m.token => l = m

LocalInv ==
  \A p \in Token :
    /\ proc[p].pc # "after" => proc[p].failed = {}
    /\ proc[p].pc \in {"off", "call", "acquire"} => proc[p].active = {}
    /\ Cardinality(proc[p].active) <= MaxConcurrency

(* An accepted result is never unbound, so whoever saw it saw evidence.    *)
SeenInv ==
  \A p \in Token, n \in Node :
    proc[p].rows[n] = "succeeded" => artifact[n] # 0

NoneSkipped == \A n \in Node : St(n) # "skipped"

(* A member of some quorum, which may be reserved out of turn.             *)
Voter(n) == \E c \in Quorum : n \in Needs[c]

(* What the owner believes about the rows, label by label.                 *)
View(p) ==
  LET q == proc[p]
  IN  /\ q.pc \in {"validate", "spoiled"} =>
           \A n \in q.todo : /\ n \in Exported \ (Required \ Corruptible)
                             /\ St(n) \in Terminal \ {"succeeded"}
      /\ q.pc = "check" =>
           /\ \A n \in Node : St(n) \in Terminal \ {"uncertain", "cancelled"}
           /\ \A n \in Required : St(n) = "succeeded"
           /\ q.todo = Owing
      /\ q.pc \in Reading => \A n \in Node : q.rows[n] \in {"pending", St(n)}
      /\ q.pc = "reserve" =>
           /\ \A n \in q.todo : Voter(n)
           /\ \A n \in Node : q.rows[n] = "pending" =>
                n \in q.active \/ St(n) \in {"pending", "failed"}
      /\ q.pc = "join" =>
           \A n \in Node : q.rows[n] = "pending" => St(n) \in {"pending", "failed"}
      /\ q.pc = "block" =>
           \A n \in q.todo : n \in ToBlock(q.rows) /\ St(n) \in {"pending", "failed"}
      /\ q.pc \in {"dispatch", "budget"} => \A n \in q.todo : St(n) = "pending"
      /\ \A n \in q.failed : St(n) = "failed"

ViewInv == \A p \in Token : owner = p => View(p)

(* What runs under the newest lease are futures of its owner.              *)
RunningNow == {n \in Node : Running(n) /\ node[n].generation = generation}

SlotsInv ==
  /\ Cardinality(RunningNow) <= MaxConcurrency
  /\ \A p \in Token :
       owner = p /\ proc[p].pc \in Working => RunningNow \subseteq proc[p].active

(* A run that has succeeded or was cancelled has nothing left to do, even  *)
(* for an invocation that reads its status and takes the lease later.      *)
WasEnded == \/ runStatus \in {"succeeded", "cancelled"}
            \/ \E p \in Token : proc[p].stored \in {"succeeded", "cancelled"}

WasSucceeded == \/ runStatus = "succeeded"
                \/ \E p \in Token : proc[p].stored = "succeeded"

EndedInv ==
  WasEnded =>
    /\ \A n \in Node : St(n) \in Terminal \ {"uncertain"}
    /\ \A p \in Token : owner = p =>
         /\ proc[p].failed = {}
         /\ proc[p].pc \in {"reserve", "join", "block"} =>
              \A n \in Node : proc[p].rows[n] # "pending"

SucceededInv ==
  WasSucceeded => \A n \in Required \ Corruptible : St(n) = "succeeded"

CancelledInv ==
  runStatus = "cancelled" =>
    \A n \in Node \ (Corruptible \cup (Exported \ Required)) :
      St(n) \in KeptByCancel \cup {"cancelled"}

(* An effect that waits to be started was granted by an operator.          *)
ReplayInv ==
  \A n \in Node \ ReplaySafe :
    /\ node[n].count <= 1 + granted[n]
    /\ St(n) = "pending" => node[n].count <= granted[n]

(* Whoever may still be accepted without another decision of an operator.  *)
MayPass(n) == \/ St(n) \in {"pending", "running", "succeeded"}
              \/ \E p \in Token : owner = p /\ n \in proc[p].failed

JoinInv ==
  \A c \in Quorum :
    /\ join[c].decision = "succeeded" =>
         Cardinality({d \in Needs[c] : artifact[d] # 0}) >= Votes[c]
    /\ join[c].decision = "failed" /\ (\A d \in Needs[c] : granted[d] = 0) =>
         Cardinality({d \in Needs[c] : MayPass(d)}) < Votes[c]

SInv ==
  /\ SchedTypeOK /\ IInv /\ LeaseInv /\ LocalInv /\ SeenInv /\ NoneSkipped
  /\ ViewInv /\ SlotsInv /\ EndedInv /\ SucceededInv /\ CancelledInv
  /\ ReplayInv /\ JoinInv /\ BudgetsKept /\ SuccessMeansAll

-----------------------------------------------------------------------------
(* Steps by what they touch: an invocation's own state only, the lease, or *)
(* the tables of the store.                                                *)

Quiet(p) ==
  \/ Start(p) \/ Undecided(p) \/ Validated(p) \/ Look(p) \/ Reserved(p)
  \/ JoinsRecorded(p) \/ Audited(p) \/ Blocked(p) \/ Dispatched(p)
  \/ NoneDone(p) \/ LeftFailed(p) \/ Again(p) \/ Check(p) \/ Exhaust(p)
  \/ GivenUp(p) \/ Stall(p) \/ Interrupt(p) \/ Crash(p)
  \/ \E l \in leases : l.token = p /\ (Conflict(p, l) \/ LoseLease(p, l))

Leasing(p) ==
  \/ Ask(p) \/ Acquire(p) \/ Refused(p) \/ Renew(p) \/ NotRenewed(p)
  \/ \E l \in leases : l.token = p /\ (Renewed(p, l) \/ Leave(p, l))

Writes(p, l) ==
  \/ Decide(p, l) \/ Spoil(p, l) \/ Omit(p, l) \/ FailSpoiled(p, l)
  \/ Recover(p, l) \/ Park(p, l) \/ Cancel(p, l) \/ Reserve(p, l)
  \/ RecordJoin(p, l) \/ Block(p, l) \/ Dispatch(p, l) \/ PopAccepted(p, l)
  \/ PopFailed(p, l) \/ After(p, l) \/ Conclude(p, l) \/ Succeed(p, l)
  \/ GiveUp(p, l)

LEMMA Kinds ==
  SchedNext =>
    \/ Environment
    \/ \E p \in Token : \/ Quiet(p) \/ Leasing(p)
                        \/ \E l \in leases : l.token = p /\ Writes(p, l)
  BY DEF SchedNext, Step, Quiet, Leasing, Writes, Pop

(* Nobody but the owner writes, and a write leaves the lease as it is.     *)
LEMMA WriterOwns ==
  ASSUME NEW p, NEW l \in leases, l.token = p, Writes(p, l)
  PROVE  owner = p /\ UNCHANGED leaseVars
<1>1. LeaseLive(l) /\ UNCHANGED leaseVars
  BY DEF Writes, Decide, Spoil, Omit, FailSpoiled, Recover, Park, Cancel,
         Reserve, RecordJoin, Block, Dispatch, PopAccepted, PopFailed, After,
         Conclude, Succeed, GiveUp, Launch, ReconcileNode, InvalidateNode,
         FinishRun, RecoverInterrupted, StartAttempt, RefuseAttempt,
         SetNodeStatus, SucceedAttempt, FinishAttempt, ActiveAttempt, storeVars,
         leaseVars
<1> QED BY <1>1 DEF LeaseLive

LEMMA QuietStep ==
  ASSUME NEW p, Quiet(p) PROVE UNCHANGED <<storeVars, join, granted>>
  BY DEF Quiet, Start, Undecided, Validated, Look, Reserved, JoinsRecorded,
         Audited, Blocked, Dispatched, NoneDone, LeftFailed, Again, Check,
         Exhaust, GivenUp, Stall, Interrupt, Crash, Conflict, LoseLease

LEMMA LeasingStep ==
  ASSUME NEW p, Leasing(p)
  PROVE  UNCHANGED <<now, runVars, tableVars, join, granted>>
  BY DEF Leasing, Ask, Acquire, Refused, Renew, NotRenewed, Renewed, Leave,
         Call, AcquireLease, RefuseCall, RenewLease, ReleaseLease, clockVars

-----------------------------------------------------------------------------
(* The types of what the scheduler adds to the store.                      *)

LEMMA BlankType ==
  ASSUME NEW label \in {"off", "release", "stalled", "conflict", "gone"}
  PROVE  Blank(label) \in Local
  BY DEF Blank, Local, Unread, NodeStatus

LEMMA FreshType == ASSUME TypeOK PROVE Fresh \in [Node -> NodeStatus]
  BY DEF Fresh, TypeOK, NodeRow

(* The updates of one invocation's record that its steps are made of.      *)
Label == {"off", "call", "acquire", "decide", "validate", "spoiled",
          "recover", "park", "top", "renew", "look", "cancel", "audit",
          "reserve", "join", "block", "dispatch", "pop", "after", "expire",
          "check", "budget", "release", "stalled", "conflict", "gone"}

LEMMA LocalRecord ==
  Local = [pc : Label, stored : RunStatus \cup {"created"},
           rows : [Node -> NodeStatus], todo : SUBSET Node,
           active : SUBSET Node, cancel : BOOLEAN, moved : BOOLEAN,
           failed : SUBSET Node]
  BY DEF Local, Label

LEMMA LabelHas ==
  {"top", "after", "expire", "audit", "spoiled"} \subseteq Label
  BY DEF Label

LEMMA PcType ==
  ASSUME NEW r \in Local, NEW label \in Label
  PROVE  [r EXCEPT !.pc = label] \in Local
  BY LocalRecord

LEMMA StoredType ==
  ASSUME NEW r \in Local, NEW label \in Label,
         NEW s \in RunStatus \cup {"created"}
  PROVE  [r EXCEPT !.pc = label, !.stored = s] \in Local
  BY LocalRecord

LEMMA PassType ==
  ASSUME NEW r \in Local, NEW label \in Label,
         NEW R \in [Node -> NodeStatus], NEW S \in SUBSET Node
  PROVE  [r EXCEPT !.pc = label, !.rows = R, !.todo = S] \in Local
  BY LocalRecord

LEMMA TodoType ==
  ASSUME NEW r \in Local, NEW S \in SUBSET Node
  PROVE  [r EXCEPT !.todo = S] \in Local
  BY LocalRecord

LEMMA UnreadType == Unread \in [Node -> NodeStatus]
  BY DEF Unread, NodeStatus

LEMMA GotoType ==
  ASSUME proc \in [Token -> Local], NEW p \in Token, NEW label \in Label,
         Goto(p, label)
  PROVE  proc' \in [Token -> Local]
<1>1. [proc[p] EXCEPT !.pc = label] \in Local
  BY PcType
<1> QED BY <1>1 DEF Goto

LEMMA PassOfType ==
  ASSUME proc \in [Token -> Local], NEW p \in Token, NEW label \in Label,
         NEW R \in [Node -> NodeStatus], NEW S \in SUBSET Node,
         Pass(p, label, R, S)
  PROVE  proc' \in [Token -> Local]
<1>1. [proc[p] EXCEPT !.pc = label, !.rows = R, !.todo = S] \in Local
  BY PassType
<1> QED BY <1>1 DEF Pass

LEMMA QuitType ==
  ASSUME proc \in [Token -> Local], NEW p \in Token,
         NEW label \in {"off", "release", "stalled", "conflict", "gone"},
         Quit(p, label)
  PROVE  proc' \in [Token -> Local]
  BY BlankType DEF Quit

LEMMA VisitedType ==
  ASSUME proc \in [Token -> Local], NEW p \in Token, NEW n, Visited(p, n)
  PROVE  proc' \in [Token -> Local]
<1>1. [proc[p] EXCEPT !.todo = @ \ {n}] \in Local
  BY DEF Local
<1> QED BY <1>1 DEF Visited

LEMMA QuietType ==
  ASSUME SchedTypeOK, NEW p \in Token, Quiet(p)
  PROVE  proc' \in [Token -> Local]
<1>0. proc[p] \in Local /\ proc \in [Token -> Local] /\ TypeOK
  BY DEF SchedTypeOK
<1>1. CASE Start(p)
  <2>1. \A s \in RunStatus \cup {"created"} :
          [proc[p] EXCEPT !.pc = "call", !.stored = s] \in Local
    BY <1>0, StoredType DEF Label
  <2>2. runStatus \in RunStatus
    BY <1>0 DEF TypeOK
  <2> QED BY <1>0, <1>1, <2>1, <2>2 DEF Start
<1>2. CASE Validated(p)
  <2>1. PICK label \in Label :
          label = IF proc[p].stored = "running" THEN "recover" ELSE "top"
    BY DEF Label
  <2>2. [proc[p] EXCEPT !.pc = label, !.stored = "created"] \in Local
    BY <1>0, StoredType
  <2>3. proc' = [proc EXCEPT ![p] = [proc[p] EXCEPT !.pc = label,
                                                    !.stored = "created"]]
    BY <1>2, <2>1 DEF Validated
  <2> QED BY <1>0, <2>2, <2>3
<1>3. CASE NoneDone(p) \/ GivenUp(p)
  BY <1>0, <1>3, GotoType DEF NoneDone, GivenUp, Label
<1>4. CASE Again(p)
  <2>1. [proc[p] EXCEPT !.pc = "top", !.moved = FALSE] \in Local
    BY <1>0, LocalRecord, LabelHas
  <2> QED BY <1>0, <1>4, <2>1 DEF Again
<1>5. CASE LeftFailed(p)
  <2>1. [proc[p] EXCEPT !.pc = "expire", !.failed = {}] \in Local
    BY <1>0, LocalRecord, LabelHas
  <2> QED BY <1>0, <1>5, <2>1 DEF LeftFailed
<1>6. CASE Interrupt(p)
  <2>1. [proc[p] EXCEPT !.cancel = TRUE] \in Local
    BY <1>0, LocalRecord, LabelHas
  <2> QED BY <1>0, <1>6, <2>1 DEF Interrupt
<1>7. CASE Undecided(p) \/ Audited(p) \/ Stall(p) \/ Crash(p)
           \/ \E l \in leases : l.token = p /\ (Conflict(p, l) \/ LoseLease(p, l))
  BY <1>0, <1>7, QuitType
     DEF Undecided, Audited, Stall, Crash, Conflict, LoseLease
<1>8. CASE Look(p)
  BY <1>0, <1>8, FreshType, GotoType, PassOfType DEF Look, Reserves, Label
<1>9. CASE Reserved(p) \/ Blocked(p)
  <2>1. proc[p].rows \in [Node -> NodeStatus] /\ Joins \in SUBSET Node
    BY <1>0 DEF Local, Joins
  <2> QED BY <1>0, <1>9, <2>1, FreshType, UnreadType, PassOfType
             DEF Reserved, Blocked, Label
<1>10. CASE JoinsRecorded(p)
  <2>1. proc[p].rows \in [Node -> NodeStatus]
    BY <1>0, LocalRecord, LabelHas
  <2> QED BY <1>0, <1>10, <2>1, PassOfType DEF JoinsRecorded, ToBlock, Label
<1>11. CASE Dispatched(p) \/ Check(p) \/ Exhaust(p)
  <2>1. Owing \in SUBSET Node /\ Pending \in SUBSET Node
    BY SchedulerAssumption DEF Owing, Pending
  <2> QED BY <1>0, <1>11, <2>1, UnreadType, PassOfType
             DEF Dispatched, Check, Exhaust, Label
<1> QED BY <1>1, <1>2, <1>3, <1>4, <1>5, <1>6, <1>7, <1>8, <1>9, <1>10, <1>11
           DEF Quiet

LEMMA LeasingType ==
  ASSUME SchedTypeOK, NEW p \in Token, Leasing(p)
  PROVE  proc' \in [Token -> Local]
<1>0. proc \in [Token -> Local]
  BY DEF SchedTypeOK
<1>1. CASE Ask(p) \/ Renew(p) \/ \E l \in leases : Renewed(p, l)
  BY <1>0, <1>1, GotoType DEF Ask, Renew, Renewed, Label
<1>2. CASE Refused(p) \/ NotRenewed(p) \/ \E l \in leases : Leave(p, l)
  BY <1>0, <1>2, QuitType DEF Refused, NotRenewed, Leave
<1>3. CASE Acquire(p)
  <2>1. Owing \in SUBSET Node
    BY SchedulerAssumption DEF Owing
  <2> QED BY <1>0, <1>3, <2>1, GotoType, PassOfType, UnreadType
             DEF Acquire, Label
<1> QED BY <1>1, <1>2, <1>3 DEF Leasing

-----------------------------------------------------------------------------
(* Least picks a member.                                                   *)

LEMMA LeastOf ==
  ASSUME NEW S \in SUBSET Nat, S # {}
  PROVE  Least(S) \in S /\ \A m \in S : Least(S) <= m
<1> DEFINE Upto == {0 .. n : n \in S}
<1>1. Upto \subseteq FiniteSubsetsOf(Nat) /\ Upto # {}
  <2>1. \A n \in S : IsFiniteSet(0 .. n) /\ 0 .. n \in SUBSET Nat
    BY FS_Interval
  <2> QED BY <2>1 DEF FiniteSubsetsOf
<1>2. PICK x \in Upto : \A y \in Upto : ~(<<y, x>> \in StrictSubsetOrdering(Nat))
  <2> HIDE DEF Upto
  <2> QED BY <1>1, FS_StrictSubsetOrderingWellFounded, WFMin
<1>3. PICK n \in S : x = 0 .. n
  OBVIOUS
<1>4. ASSUME NEW m \in S, m < n PROVE FALSE
  <2>1. 0 .. m \in Upto /\ 0 .. m # 0 .. n
    <3>1. n \in 0 .. n /\ n \notin 0 .. m
      BY <1>4
    <3> QED BY <3>1
  <2>2. 0 .. m \subseteq 0 .. n /\ 0 .. m \in SUBSET Nat /\ 0 .. n \in SUBSET Nat
    BY <1>4
  <2> QED BY <1>2, <1>3, <2>1, <2>2 DEF StrictSubsetOrdering
<1>5. n \in S /\ \A m \in S : n <= m
  BY <1>4
<1> QED BY <1>5 DEF Least

LEMMA LeastTodo ==
  ASSUME SchedTypeOK, NEW p \in Token, proc[p].todo # {}
  PROVE  Least(proc[p].todo) \in proc[p].todo /\ Least(proc[p].todo) \in Node
<1>1. proc[p].todo \in SUBSET Node
  BY DEF SchedTypeOK, Local
<1>2. proc[p].todo \in SUBSET Nat
  BY <1>1, SchedulerAssumption
<1> QED BY <1>1, <1>2, LeastOf

LEMMA LeastFrontier ==
  ASSUME SchedTypeOK, NEW p \in Token, Frontier(p) # {}
  PROVE  Least(Frontier(p)) \in Frontier(p) /\ Least(Frontier(p)) \in Node
<1>1. proc[p].todo \in SUBSET Node
  BY DEF SchedTypeOK, Local
<1>2. Frontier(p) \in SUBSET Node /\ Frontier(p) \in SUBSET Nat
  BY <1>1, SchedulerAssumption DEF Frontier
<1> QED BY <1>2, LeastOf

-----------------------------------------------------------------------------
(* Each write of the scheduler is one that the store allows its clients:   *)
(* the row it lands on is in the state its caller read.                    *)

LEMMA NodeStepIsNext ==
  ASSUME NEW l \in leases, NEW n \in Node, NodeStep(l, n) PROVE Next
  BY DEF Next

LEMMA LeaseStepIsNext ==
  ASSUME NEW l \in leases, LeaseStep(l) PROVE Next
  BY DEF Next

LEMMA FinishIsNext ==
  ASSUME NEW l \in leases, NEW s \in RunStatus \ {"running"}, FinishRun(l, s)
  PROVE  Next
  BY LeaseStepIsNext DEF LeaseStep

LEMMA WriteIsNext ==
  ASSUME SchedTypeOK, ViewInv, NEW p \in Token,
         NEW l \in leases, l.token = p, Writes(p, l)
  PROVE  Next \/ UNCHANGED storeVars
<1>0. View(p) /\ TypeOK
  BY WriterOwns DEF ViewInv, SchedTypeOK
<1>1. CASE Decide(p, l)
  BY <1>1, NodeStepIsNext DEF Decide, NodeStep
<1>2. CASE Spoil(p, l)
  BY <1>2, NodeStepIsNext, SchedulerAssumption DEF Spoil, NodeStep, Invalidate
<1>3. CASE Omit(p, l)
  <2>1. PICK n \in Node : n \in proc[p].todo /\ InvalidateNode(l, n)
    BY <1>3, LeastTodo DEF Omit
  <2>2. St(n) \in Terminal
    BY <1>0, <1>3, <2>1 DEF Omit, View
  <2> QED BY <2>1, <2>2, NodeStepIsNext DEF NodeStep, Invalidate, St, Terminal
<1>4. CASE FailSpoiled(p, l) \/ Park(p, l) \/ Succeed(p, l)
  BY <1>4, FinishIsNext DEF FailSpoiled, Park, Succeed, RunStatus
<1>5. CASE Cancel(p, l)
  BY <1>5, FinishIsNext DEF Cancel, RunStatus
<1>6. CASE Conclude(p, l)
  BY <1>6, FinishIsNext DEF Conclude, Verdict, RunStatus
<1>7. CASE Recover(p, l)
  BY <1>7, LeaseStepIsNext DEF Recover, LeaseStep
<1>8. CASE Reserve(p, l)
  <2>1. PICK n \in Node : StartAttempt(l, n) \/ RefuseAttempt(l, n)
    BY <1>8, LeastTodo DEF Reserve, Launch
  <2> QED BY <2>1, NodeStepIsNext DEF NodeStep
<1>9. CASE RecordJoin(p, l)
  BY <1>9 DEF RecordJoin
<1>10. CASE Block(p, l)
  <2>1. PICK n \in Node :
          n \in proc[p].todo /\ SetNodeStatus(l, n, "blocked", "dependency")
    BY <1>10, LeastTodo DEF Block
  <2>2. St(n) \in {"pending", "failed"}
    BY <1>0, <1>10, <2>1 DEF Block, At, View
  <2>3. ChangeStatus(l, n)
    BY <2>1, <2>2 DEF ChangeStatus, StatusChange, St
  <2> QED BY <2>3, NodeStepIsNext DEF NodeStep
<1>11. CASE Dispatch(p, l)
  <2>1. PICK n \in Node : StartAttempt(l, n) \/ RefuseAttempt(l, n)
    BY <1>11, LeastFrontier DEF Dispatch, Launch
  <2> QED BY <2>1, NodeStepIsNext DEF NodeStep
<1>12. CASE PopAccepted(p, l) \/ PopFailed(p, l)
  <2>1. proc[p].active \in SUBSET Node
    BY DEF SchedTypeOK, Local
  <2> QED BY <1>12, <2>1, NodeStepIsNext DEF PopAccepted, PopFailed, NodeStep
<1>13. CASE After(p, l)
  <2>1. proc[p].failed \in SUBSET Node
    BY DEF SchedTypeOK, Local
  <2>2. PICK n \in proc[p].failed :
          \/ n \in ReplaySafe /\ SetNodeStatus(l, n, "pending", "attempt")
          \/ SetNodeStatus(l, n, "uncertain", "effect")
          \/ SetNodeStatus(l, n, "optional_failed", "attempt")
    BY <1>13 DEF After, Interrupted
  <2>3. St(n) = "failed"
    BY <1>0, <2>2 DEF View
  <2>4. ChangeStatus(l, n)
    BY <2>2, <2>3 DEF ChangeStatus, StatusChange, St
  <2> QED BY <2>1, <2>4, NodeStepIsNext DEF NodeStep
<1>14. CASE GiveUp(p, l)
  <2>1. PICK n \in Node :
          n \in proc[p].todo /\ SetNodeStatus(l, n, "failed", "budget")
    BY <1>14, LeastTodo DEF GiveUp
  <2>2. St(n) = "pending"
    BY <1>0, <1>14, <2>1 DEF GiveUp, At, View
  <2>3. ChangeStatus(l, n)
    BY <2>1, <2>2 DEF ChangeStatus, StatusChange, St
  <2> QED BY <2>3, NodeStepIsNext DEF NodeStep
<1> QED BY <1>1, <1>2, <1>3, <1>4, <1>5, <1>6, <1>7, <1>8, <1>9, <1>10, <1>11,
           <1>12, <1>13, <1>14 DEF Writes

LEMMA LeasingIsNext ==
  ASSUME SchedTypeOK, NEW p \in Token, Leasing(p) PROVE Next
<1>1. CASE Ask(p) \/ Acquire(p) \/ Refused(p) \/ Renew(p) \/ NotRenewed(p)
  BY <1>1 DEF Ask, Acquire, Refused, Renew, NotRenewed, Next
<1>2. CASE \E l \in leases : l.token = p /\ (Renewed(p, l) \/ Leave(p, l))
  BY <1>2, LeaseStepIsNext DEF Renewed, Leave, LeaseStep
<1> QED BY <1>1, <1>2 DEF Leasing

LEMMA StoreStep ==
  ASSUME SchedTypeOK, ViewInv, SchedNext PROVE [Next]_storeVars
<1>1. CASE Environment
  BY <1>1 DEF Environment, Next
<1>2. ASSUME NEW p \in Token, Quiet(p) PROVE UNCHANGED storeVars
  BY <1>2, QuietStep
<1> QED BY <1>1, <1>2, LeasingIsNext, WriteIsNext, Kinds

LEMMA StoreInv ==
  ASSUME SchedTypeOK, IInv, ViewInv, SchedNext PROVE IInv'
  BY StoreStep, InvStep

LEMMA WritesType ==
  ASSUME SchedTypeOK, TypeOK', NEW p \in Token, NEW l \in leases, Writes(p, l)
  PROVE  /\ proc' \in [Token -> Local]
         /\ join' \in [Joins -> JoinRow]
         /\ granted' \in [Node -> Nat]
<1>0. /\ proc[p] \in Local /\ proc \in [Token -> Local]
      /\ join \in [Joins -> JoinRow] /\ granted \in [Node -> Nat]
  BY DEF SchedTypeOK
<1>1. granted' \in [Node -> Nat]
  <2>1. \A n \in Node : [granted EXCEPT ![n] = @ + 1] \in [Node -> Nat]
    BY <1>0
  <2> QED
    BY <1>0, <2>1
       DEF Writes, Decide, Spoil, Omit, FailSpoiled, Recover, Park, Cancel,
           Reserve, RecordJoin, Block, Dispatch, PopAccepted, PopFailed, After,
           Conclude, Succeed, GiveUp
<1>2. join' \in [Joins -> JoinRow]
  <2>1. CASE RecordJoin(p, l)
    <3>1. proc[p].todo \in SUBSET Node
      BY <1>0 DEF Local
    <3>2. ASSUME NEW n \in Joins, NEW R
          PROVE  [decision |-> Decision(n, R), passed |-> Passed(n, R),
                  missing |-> Missing(n, R)] \in JoinRow
      <4>1. Policy[n] \in {"all", "all_settled", "quorum"}
        BY SchedulerAssumption DEF Joins
      <4>2. Decision(n, R) \in {"waiting", "succeeded", "failed"}
        BY <4>1 DEF Decision
      <4>3. Needs[n] \in SUBSET Node /\ IsFiniteSet(Node)
        BY SchedulerAssumption DEF Joins
      <4>4. Passed(n, R) \in Nat /\ Missing(n, R) \in Nat
        <5>1. \A S \in SUBSET Node : Cardinality(S) \in Nat
          BY <4>3, FS_Subset, FS_CardinalityType
        <5> QED BY <4>3, <5>1 DEF Passed, Missing
      <4> QED BY <4>2, <4>4 DEF JoinRow
    <3>3. PICK n : \/ join' = join
                   \/ join' = [join EXCEPT ![n] =
                                 [decision |-> Decision(n, proc[p].rows),
                                  passed |-> Passed(n, proc[p].rows),
                                  missing |-> Missing(n, proc[p].rows)]]
      BY <2>1 DEF RecordJoin
    <3> QED BY <1>0, <3>2, <3>3
  <2>2. CASE ~RecordJoin(p, l)
    BY <1>0, <2>2
       DEF Writes, Decide, Spoil, Omit, FailSpoiled, Recover, Park, Cancel,
           Reserve, Block, Dispatch, PopAccepted, PopFailed, After, Conclude,
           Succeed, GiveUp
  <2> QED BY <2>1, <2>2
<1> SUFFICES proc' \in [Token -> Local]
  BY <1>1, <1>2
<1>3. CASE Decide(p, l) \/ FailSpoiled(p, l) \/ Park(p, l) \/ Conclude(p, l)
           \/ Succeed(p, l)
  BY <1>0, <1>3, QuitType DEF Decide, FailSpoiled, Park, Conclude, Succeed
<1>4. CASE Spoil(p, l)
  BY <1>0, <1>4, GotoType DEF Spoil, Label
<1>5. CASE Recover(p, l)
  BY <1>0, <1>5, GotoType DEF Recover, Label
<1>6. CASE Omit(p, l)
  <2>1. [proc[p] EXCEPT !.pc = "spoiled", !.todo = @ \ {Least(@)}] \in Local
    BY <1>0, LocalRecord, LabelHas
  <2> QED BY <1>0, <1>6, <2>1 DEF Omit
<1>7. CASE Cancel(p, l)
  <2>1. [n \in Node |-> node'[n].status] \in [Node -> NodeStatus]
    BY DEF TypeOK, NodeRow
  <2>2. ASSUME NEW R \in [Node -> NodeStatus]
        PROVE  [proc[p] EXCEPT !.pc = "audit", !.active = {}, !.rows = R,
                               !.todo = Joins] \in Local
    BY <1>0, LocalRecord, LabelHas DEF Joins
  <2> QED BY <1>0, <1>7, <2>1, <2>2 DEF Cancel
<1>8. ASSUME NEW n \in Node, NEW S \in SUBSET Node, Launch(p, l, n, S)
      PROVE  proc' \in [Token -> Local]
  <2>1. [proc[p] EXCEPT !.active = @ \cup {n}, !.todo = S] \in Local
    BY <1>0, LocalRecord, LabelHas
  <2>2. [proc[p] EXCEPT !.todo = S] \in Local
    BY <1>0, TodoType
  <2> QED BY <1>0, <1>8, <2>1, <2>2 DEF Launch
<1>9. CASE Reserve(p, l)
  <2>1. proc[p].todo \in SUBSET Node
    BY <1>0, LocalRecord, LabelHas
  <2> QED BY <1>8, <1>9, <2>1, LeastTodo DEF Reserve
<1>10. CASE RecordJoin(p, l) \/ Block(p, l) \/ GiveUp(p, l)
  BY <1>0, <1>10, VisitedType DEF RecordJoin, Block, GiveUp
<1>11. CASE Dispatch(p, l)
  <2>1. PICK n \in Node :
          \/ Launch(p, l, n, {m \in proc[p].todo : m > n})
          \/ proc' = [proc EXCEPT ![p].active = @ \cup {n}, ![p].todo = {}]
    BY <1>11, LeastFrontier DEF Dispatch
  <2>2. [proc[p] EXCEPT !.active = @ \cup {n}, !.todo = {}] \in Local
    BY <1>0, LocalRecord, LabelHas
  <2>3. {m \in proc[p].todo : m > n} \in SUBSET Node
    BY <1>0, LocalRecord, LabelHas
  <2> QED BY <1>0, <1>8, <2>1, <2>2, <2>3
<1>12. CASE PopAccepted(p, l)
  <2>1. \A n \in proc[p].active :
          [proc[p] EXCEPT !.pc = "expire", !.moved = TRUE,
                          !.active = proc[p].active \ {n}] \in Local
    BY <1>0, LocalRecord, LabelHas
  <2> QED BY <1>0, <1>12, <2>1 DEF PopAccepted
<1>13. CASE PopFailed(p, l)
  <2>1. PICK n \in proc[p].active :
          proc' = [proc EXCEPT ![p] = [proc[p] EXCEPT !.pc = "after", !.moved = TRUE,
                                               !.active = @ \ {n}, !.failed = {n}]]
    BY <1>13 DEF PopFailed
  <2>2. [proc[p] EXCEPT !.pc = "after", !.moved = TRUE, !.active = @ \ {n},
                        !.failed = {n}] \in Local
    BY <1>0, LocalRecord, LabelHas
  <2> QED BY <1>0, <2>1, <2>2
<1>14. CASE After(p, l)
  <2>1. [proc[p] EXCEPT !.pc = "expire", !.failed = {}] \in Local
    BY <1>0, LocalRecord, LabelHas
  <2> QED BY <1>0, <1>14, <2>1 DEF After
<1> QED BY <1>1, <1>2, <1>3, <1>4, <1>5, <1>6, <1>7, <1>9, <1>10, <1>11, <1>12,
           <1>13, <1>14 DEF Writes

LEMMA SchedTypeStep ==
  ASSUME SchedTypeOK, IInv, ViewInv, SchedNext PROVE SchedTypeOK'
<1>0. TypeOK'
  BY StoreInv DEF IInv
<1>1. CASE Environment
  BY <1>0, <1>1 DEF Environment, SchedTypeOK
<1>2. ASSUME NEW p \in Token, Quiet(p) PROVE SchedTypeOK'
  BY <1>0, <1>2, QuietType, QuietStep DEF SchedTypeOK
<1>3. ASSUME NEW p \in Token, Leasing(p) PROVE SchedTypeOK'
  BY <1>0, <1>3, LeasingType, LeasingStep DEF SchedTypeOK
<1>4. ASSUME NEW p \in Token, NEW l \in leases, Writes(p, l) PROVE SchedTypeOK'
  BY <1>0, <1>4, WritesType DEF SchedTypeOK
<1> QED BY <1>1, <1>2, <1>3, <1>4, Kinds

-----------------------------------------------------------------------------
(* An invocation changes its own local state only, and takes the lease     *)
(* once.                                                                   *)

LEMMA QuietOthers ==
  ASSUME SchedTypeOK, NEW p \in Token, Quiet(p), NEW q \in Token \ {p}
  PROVE  proc'[q] = proc[q]
  BY DEF SchedTypeOK, Quiet, Start, Undecided, Validated, Look, Reserved,
         JoinsRecorded, Audited, Blocked, Dispatched, NoneDone, LeftFailed,
         Again, Check, Exhaust, GivenUp, Stall, Interrupt, Crash, Conflict,
         LoseLease, Goto, Pass, Quit

LEMMA LeasingOthers ==
  ASSUME SchedTypeOK, NEW p \in Token, Leasing(p), NEW q \in Token \ {p}
  PROVE  proc'[q] = proc[q]
  BY DEF SchedTypeOK, Leasing, Ask, Acquire, Refused, Renew, NotRenewed,
         Renewed, Leave, Goto, Pass, Quit

LEMMA WritesOthers ==
  ASSUME SchedTypeOK, NEW p \in Token, NEW l \in leases, Writes(p, l),
         NEW q \in Token \ {p}
  PROVE  proc'[q] = proc[q]
  BY DEF SchedTypeOK, Writes, Decide, Spoil, Omit, FailSpoiled, Recover, Park,
         Cancel, Reserve, RecordJoin, Block, Dispatch, PopAccepted, PopFailed,
         After, Conclude, Succeed, GiveUp, Launch, Goto, Quit, Visited

(* What a step does to the invocation's label, its active set and the node *)
(* it finalizes.                                                           *)
Early == {"off", "call", "acquire"}

LocalOK(p) ==
  /\ proc[p].pc # "after" => proc[p].failed = {}
  /\ proc[p].pc \in Early => proc[p].active = {}
  /\ Cardinality(proc[p].active) <= MaxConcurrency

LEMMA BlankIs ==
  ASSUME SchedTypeOK, NEW p \in Token, NEW label, Quit(p, label)
  PROVE  proc'[p] = Blank(label) /\ LocalOK(p)'
<1>1. proc'[p] = Blank(label)
  BY DEF SchedTypeOK, Quit
<1> QED BY <1>1, FS_EmptySet, SchedulerAssumption DEF LocalOK, Blank

LEMMA QuitFields ==
  ASSUME SchedTypeOK, NEW p \in Token, NEW label, Quit(p, label)
  PROVE  /\ proc'[p].pc = label
         /\ proc'[p].rows = Unread
         /\ proc'[p].todo = {}
         /\ proc'[p].active = {}
         /\ proc'[p].failed = {}
         /\ proc'[p].stored = "created"
<1>1. proc'[p] = Blank(label)
  BY DEF SchedTypeOK, Quit
<1> QED BY <1>1 DEF Blank

(* The fields of the acting invocation after a change of label or a pass.  *)
LEMMA PassFields ==
  ASSUME SchedTypeOK, NEW p \in Token, NEW label, NEW R, NEW S,
         Pass(p, label, R, S)
  PROVE  /\ proc'[p].pc = label
         /\ proc'[p].rows = R
         /\ proc'[p].todo = S
         /\ proc'[p].active = proc[p].active
         /\ proc'[p].failed = proc[p].failed
         /\ proc'[p].stored = proc[p].stored
<1>1. proc'[p] = [proc[p] EXCEPT !.pc = label, !.rows = R, !.todo = S]
  BY DEF SchedTypeOK, Pass
<1>2. proc[p] \in Local
  BY DEF SchedTypeOK
<1> QED BY <1>1, <1>2 DEF Local

LEMMA GotoFields ==
  ASSUME SchedTypeOK, NEW p \in Token, NEW label, Goto(p, label)
  PROVE  /\ proc'[p].pc = label
         /\ proc'[p].rows = proc[p].rows
         /\ proc'[p].todo = proc[p].todo
         /\ proc'[p].active = proc[p].active
         /\ proc'[p].failed = proc[p].failed
         /\ proc'[p].stored = proc[p].stored
<1>1. proc'[p] = [proc[p] EXCEPT !.pc = label]
  BY DEF SchedTypeOK, Goto
<1>2. proc[p] \in Local
  BY DEF SchedTypeOK
<1> QED BY <1>1, <1>2 DEF Local

LEMMA StartFields ==
  ASSUME SchedTypeOK, NEW p \in Token, Start(p)
  PROVE  /\ proc[p].pc = "off" /\ proc'[p].pc = "call"
         /\ proc'[p].stored \in {runStatus, "created"}
         /\ proc'[p].rows = proc[p].rows
         /\ proc'[p].active = proc[p].active
         /\ proc'[p].failed = proc[p].failed
<1>0. proc \in [Token -> Local]
  BY DEF SchedTypeOK
<1>1. PICK s \in {runStatus, "created"} :
        proc' = [proc EXCEPT ![p].pc = "call", ![p].stored = s]
  BY DEF Start
<1> QED BY <1>0, <1>1 DEF Start, At, Local

LEMMA ValidatedFields ==
  ASSUME SchedTypeOK, NEW p \in Token, Validated(p)
  PROVE  /\ proc[p].pc = "validate" /\ proc'[p].pc \in {"recover", "top"}
         /\ proc'[p].stored = "created"
         /\ proc'[p].rows = proc[p].rows
         /\ proc'[p].active = proc[p].active
         /\ proc'[p].failed = proc[p].failed
<1>0. proc \in [Token -> Local]
  BY DEF SchedTypeOK
<1>1. PICK s \in {"recover", "top"} :
        proc' = [proc EXCEPT ![p].pc = s, ![p].stored = "created"]
  BY DEF Validated
<1> QED BY <1>0, <1>1 DEF Validated, At, Local

LEMMA QuietLocal ==
  ASSUME SchedTypeOK, NEW p \in Token, Quiet(p), LocalOK(p)
  PROVE  LocalOK(p)' /\ (proc'[p].pc \in Early => proc[p].pc \in Early)
<1>0. proc \in [Token -> Local]
  BY DEF SchedTypeOK
<1>1. CASE Undecided(p) \/ Audited(p) \/ Stall(p) \/ Crash(p)
           \/ \E l \in leases : l.token = p /\ (Conflict(p, l) \/ LoseLease(p, l))
  <2>1. PICK label \in {"release", "stalled", "conflict", "gone"} : Quit(p, label)
    BY <1>1 DEF Undecided, Audited, Stall, Crash, Conflict, LoseLease
  <2>2. proc'[p] = Blank(label) /\ LocalOK(p)'
    BY <2>1, BlankIs
  <2> QED BY <2>2 DEF Blank, Early
<1>2. CASE Start(p) \/ Validated(p)
  BY <1>2, StartFields, ValidatedFields DEF LocalOK, Early
<1>3. CASE Look(p) \/ Reserved(p) \/ JoinsRecorded(p) \/ Blocked(p)
           \/ Dispatched(p) \/ Check(p) \/ Exhaust(p) \/ NoneDone(p)
           \/ GivenUp(p)
  <2>1. proc[p].pc \notin Early \cup {"after"}
    BY <1>3 DEF Early, Look, Reserved, JoinsRecorded, Blocked, Dispatched,
                Check, Exhaust, NoneDone, GivenUp, Idle, At
  <2>2. PICK label \in Label \ (Early \cup {"after"}) :
          Goto(p, label) \/ \E R, S : Pass(p, label, R, S)
    BY <1>3 DEF Label, Early, Look, Reserved, JoinsRecorded, Blocked,
                Dispatched, Check, Exhaust, NoneDone, GivenUp
  <2>3. /\ proc'[p].pc = label
        /\ proc'[p].active = proc[p].active
        /\ proc'[p].failed = proc[p].failed
    BY <2>2, PassFields, GotoFields
  <2> QED BY <2>1, <2>2, <2>3 DEF LocalOK
<1>4. CASE LeftFailed(p) \/ Again(p) \/ Interrupt(p)
  BY <1>0, <1>4
     DEF Local, LocalOK, Early, LeftFailed, Again, Interrupt, At
<1> QED BY <1>1, <1>2, <1>3, <1>4 DEF Quiet

LEMMA LeasingLocal ==
  ASSUME SchedTypeOK, NEW p \in Token, Leasing(p), LocalOK(p)
  PROVE  LocalOK(p)' /\ (proc'[p].pc \in Early => proc[p].pc \in Early)
<1>0. proc \in [Token -> Local]
  BY DEF SchedTypeOK
<1>1. CASE Refused(p) \/ NotRenewed(p) \/ \E l \in leases : Leave(p, l)
  <2>1. PICK label \in {"release", "gone"} : Quit(p, label)
    BY <1>1 DEF Refused, NotRenewed, Leave
  <2>2. proc'[p] = Blank(label) /\ LocalOK(p)'
    BY <2>1, BlankIs
  <2> QED BY <2>2 DEF Blank, Early
<1>2. CASE Ask(p) \/ Acquire(p) \/ Renew(p) \/ \E l \in leases : Renewed(p, l)
  BY <1>0, <1>2
     DEF Local, LocalOK, Early, Ask, Acquire, Renew, Renewed, Goto, Pass, At
<1> QED BY <1>1, <1>2 DEF Leasing

LEMMA ActiveFinite ==
  ASSUME SchedTypeOK, NEW p \in Token
  PROVE  IsFiniteSet(proc[p].active) /\ Cardinality(proc[p].active) \in Nat
<1>1. proc[p].active \subseteq Node
  BY DEF SchedTypeOK, Local
<1>2. IsFiniteSet(proc[p].active)
  BY <1>1, SchedulerAssumption, FS_Subset
<1> QED BY <1>2, FS_CardinalityType

LEMMA LaunchLocal ==
  ASSUME SchedTypeOK, NEW p \in Token, LocalOK(p), Room(p), NEW n \in Node,
         NEW S, proc[p].pc \in {"reserve", "dispatch"},
         proc' = [proc EXCEPT ![p].active = @ \cup {n}, ![p].todo = S]
  PROVE  LocalOK(p)'
<1>1. /\ proc'[p].active = proc[p].active \cup {n}
      /\ proc'[p].pc = proc[p].pc
      /\ proc'[p].failed = proc[p].failed
  BY DEF SchedTypeOK, Local
<1>2. PICK A : A = proc[p].active
  OBVIOUS
<1>3. IsFiniteSet(A) /\ Cardinality(A) \in Nat
  BY <1>2, ActiveFinite
<1>4. PICK c \in Nat : c = Cardinality(A)
  BY <1>3
<1>5. Cardinality(A \cup {n}) = IF n \in A THEN c ELSE c + 1
  BY <1>3, <1>4, FS_AddElement
<1>6. c + 1 <= MaxConcurrency /\ MaxConcurrency \in Nat
  BY <1>2, <1>4, SchedulerAssumption DEF Room
<1>7. Cardinality(A \cup {n}) <= MaxConcurrency
  BY <1>5, <1>6
<1> QED BY <1>1, <1>2, <1>7 DEF LocalOK, Early

LEMMA RemoveLocal ==
  ASSUME SchedTypeOK, NEW p \in Token, LocalOK(p), NEW n,
         proc'[p].active = proc[p].active \ {n}
  PROVE  Cardinality(proc'[p].active) <= MaxConcurrency
<1>1. IsFiniteSet(proc[p].active) /\ Cardinality(proc[p].active) \in Nat
  BY ActiveFinite
<1>2. /\ Cardinality(proc[p].active \ {n}) <= Cardinality(proc[p].active)
      /\ Cardinality(proc[p].active \ {n}) \in Nat
  BY <1>1, FS_Subset, FS_CardinalityType
<1> QED BY <1>1, <1>2, SchedulerAssumption DEF LocalOK

LEMMA WritesLocal ==
  ASSUME SchedTypeOK, NEW p \in Token, NEW l \in leases, Writes(p, l), LocalOK(p)
  PROVE  LocalOK(p)' /\ proc'[p].pc \notin Early
<1>0. proc \in [Token -> Local]
  BY DEF SchedTypeOK
<1>1. CASE Decide(p, l) \/ FailSpoiled(p, l) \/ Park(p, l) \/ Conclude(p, l)
           \/ Succeed(p, l)
  <2>1. Quit(p, "release")
    BY <1>1 DEF Decide, FailSpoiled, Park, Conclude, Succeed
  <2>2. proc'[p] = Blank("release") /\ LocalOK(p)'
    BY <2>1, BlankIs
  <2> QED BY <2>2 DEF Blank, Early
<1>2. CASE Spoil(p, l) \/ Omit(p, l) \/ Recover(p, l) \/ RecordJoin(p, l)
           \/ Block(p, l) \/ GiveUp(p, l) \/ After(p, l)
  BY <1>0, <1>2
     DEF Local, LocalOK, Early, Spoil, Omit, Recover, RecordJoin, Block, GiveUp,
         After, Goto, Visited, At
<1>3. CASE Cancel(p, l)
  <2>0. PICK R, T :
          proc' = [proc EXCEPT ![p].pc = "audit", ![p].active = {},
                               ![p].rows = R, ![p].todo = T]
    BY <1>3 DEF Cancel
  <2>1. /\ proc'[p].active = {} /\ proc'[p].pc = "audit"
        /\ proc'[p].failed = proc[p].failed
    BY <1>0, <2>0 DEF Local
  <2>2. proc[p].pc # "after"
    BY <1>3 DEF Cancel, At
  <2> QED BY <2>1, <2>2, FS_EmptySet, SchedulerAssumption DEF LocalOK, Early
<1>4. CASE Reserve(p, l) \/ Dispatch(p, l)
  <2>1. PICK n \in Node :
          \E S : \/ proc' = [proc EXCEPT ![p].active = @ \cup {n}, ![p].todo = S]
                \/ proc' = [proc EXCEPT ![p].todo = S]
    BY <1>4, LeastTodo, LeastFrontier DEF Reserve, Dispatch, Launch
  <2>2. Room(p) /\ proc[p].pc \in {"reserve", "dispatch"}
    BY <1>4 DEF Reserve, Dispatch, At
  <2>3. proc'[p].pc = proc[p].pc
    BY <1>0, <2>1 DEF Local
  <2>4. CASE \E S : proc' = [proc EXCEPT ![p].todo = S]
    BY <1>0, <2>2, <2>4 DEF Local, LocalOK, Early
  <2> QED BY <2>1, <2>2, <2>3, <2>4, LaunchLocal DEF Early
<1>5. CASE PopAccepted(p, l) \/ PopFailed(p, l)
  <2>1. PICK n \in proc[p].active :
          \/ proc' = [proc EXCEPT ![p].pc = "expire", ![p].moved = TRUE,
                                  ![p].active = @ \ {n}]
          \/ proc' = [proc EXCEPT ![p].pc = "after", ![p].moved = TRUE,
                                  ![p].active = @ \ {n}, ![p].failed = {n}]
    BY <1>5 DEF PopAccepted, PopFailed
  <2>2. /\ proc'[p].active = proc[p].active \ {n}
        /\ proc'[p].pc \in {"expire", "after"}
        /\ proc'[p].pc = "expire" => proc'[p].failed = proc[p].failed
    BY <1>0, <2>1 DEF Local
  <2>3. proc[p].pc \in {"pop", "expire"}
    BY <1>5 DEF PopAccepted, PopFailed, At
  <2> QED BY <2>2, <2>3, RemoveLocal DEF LocalOK, Early
<1> QED BY <1>1, <1>2, <1>3, <1>4, <1>5 DEF Writes

LEMMA LocalIs == LocalInv <=> \A p \in Token : LocalOK(p)
  BY DEF LocalInv, LocalOK, Early

LEMMA LocalStep ==
  ASSUME SchedTypeOK, LocalInv, SchedNext PROVE LocalInv'
<1>1. SUFFICES ASSUME NEW q \in Token PROVE LocalOK(q)'
  BY DEF LocalInv, LocalOK, Early
<1>2. LocalOK(q)
  BY LocalIs
<1>3. ASSUME proc'[q] = proc[q] PROVE LocalOK(q)'
  BY <1>2, <1>3 DEF LocalOK
<1>4. CASE Environment
  BY <1>3, <1>4 DEF Environment
<1>5. ASSUME NEW p \in Token, Quiet(p) PROVE LocalOK(q)'
  BY <1>2, <1>3, <1>5, QuietLocal, QuietOthers
<1>6. ASSUME NEW p \in Token, Leasing(p) PROVE LocalOK(q)'
  BY <1>2, <1>3, <1>6, LeasingLocal, LeasingOthers
<1>7. ASSUME NEW p \in Token, NEW l \in leases, Writes(p, l) PROVE LocalOK(q)'
  BY <1>2, <1>3, <1>7, WritesLocal, WritesOthers
<1> QED BY <1>4, <1>5, <1>6, <1>7, Kinds

(* The leases handed out.                                                  *)
LEMMA LeasesOf ==
  ASSUME SchedTypeOK, NEW p \in Token, Leasing(p)
  PROVE  \/ leases' \subseteq leases
         \/ Acquire(p) /\ \E g : leases' = leases \cup {[token |-> p, generation |-> g]}
  BY DEF Leasing, Ask, Acquire, Refused, Renew, NotRenewed, Renewed, Leave,
         Call, AcquireLease, RefuseCall, RenewLease, ReleaseLease, leaseVars

LEMMA LeaseInvStep ==
  ASSUME SchedTypeOK, LocalInv, LeaseInv, SchedNext PROVE LeaseInv'
<1>0. /\ \A l \in leases : l.token \in Token
      /\ \A p \in Token : LocalOK(p)
  BY LocalIs DEF SchedTypeOK, TypeOK, Lease
<1>1. ASSUME leases' \subseteq leases,
             \A q \in Token : proc'[q].pc \in Early => proc[q].pc \in Early
      PROVE  LeaseInv'
  BY <1>0, <1>1 DEF LeaseInv, Early
<1>2. CASE Environment
  BY <1>1, <1>2
     DEF Environment, Tick, RequestCancel, leaseVars
<1>3. ASSUME NEW p \in Token, Quiet(p) PROVE LeaseInv'
  <2>1. leases' = leases
    BY <1>3, QuietStep DEF storeVars, leaseVars
  <2> QED BY <1>0, <1>1, <1>3, <2>1, QuietLocal, QuietOthers
<1>4. ASSUME NEW p \in Token, Leasing(p) PROVE LeaseInv'
  <2>1. \A q \in Token : proc'[q].pc \in Early => proc[q].pc \in Early
    BY <1>0, <1>4, LeasingLocal, LeasingOthers
  <2>2. ASSUME Acquire(p), NEW g,
               leases' = leases \cup {[token |-> p, generation |-> g]}
        PROVE  LeaseInv'
    <3>1. \A l \in leases : l.token # p
      BY <2>2 DEF LeaseInv, Acquire, At
    <3>2. proc'[p].pc \notin Early
      BY <2>2, GotoFields, PassFields DEF Acquire, Early
    <3> QED BY <1>0, <2>1, <2>2, <3>1, <3>2 DEF LeaseInv, Early
  <2> QED BY <1>1, <1>4, <2>1, <2>2, LeasesOf
<1>5. ASSUME NEW p \in Token, NEW l \in leases, l.token = p, Writes(p, l)
      PROVE  LeaseInv'
  <2>1. leases' = leases
    BY <1>5, WriterOwns DEF leaseVars
  <2> QED BY <1>0, <1>1, <1>5, <2>1, WritesLocal, WritesOthers
<1> QED BY <1>2, <1>3, <1>4, <1>5, Kinds

-----------------------------------------------------------------------------
(* Accepted evidence stays.                                                *)

LEMMA EvidenceStays ==
  ASSUME SchedTypeOK, IInv, SchedNext, NEW n \in Node, artifact[n] # 0
  PROVE  artifact'[n] # 0
<1>1. CASE artifact' = artifact
  BY <1>1
<1>2. CASE Environment
  BY <1>1, <1>2 DEF Environment, Tick, RequestCancel, tableVars
<1>3. ASSUME NEW p \in Token, Quiet(p) PROVE artifact'[n] # 0
  BY <1>1, <1>3, QuietStep DEF storeVars, tableVars
<1>4. ASSUME NEW p \in Token, Leasing(p) PROVE artifact'[n] # 0
  BY <1>1, <1>4, LeasingStep DEF tableVars
<1>5. ASSUME NEW p \in Token, NEW l \in leases, Writes(p, l)
      PROVE  artifact'[n] # 0
  <2>1. CASE PopAccepted(p, l)
    <3>1. PICK m \in Node : SucceedAttempt(l, m)
      BY <2>1 DEF PopAccepted, SchedTypeOK, Local
    <3>2. node[m].active # 0
      BY <3>1 DEF SucceedAttempt, ActiveAttempt, IInv, RowsAgree, Number
    <3>3. artifact' = [artifact EXCEPT ![m] = node[m].active]
      BY <3>1 DEF SucceedAttempt
    <3> QED BY <3>2, <3>3 DEF SchedTypeOK, TypeOK
  <2>2. CASE ~PopAccepted(p, l)
    <3>1. artifact' = artifact
      BY <1>5, <2>2
         DEF Writes, Decide, Spoil, Omit, FailSpoiled, Recover, Park, Cancel,
             Reserve, RecordJoin, Block, Dispatch, PopFailed, After, Conclude,
             Succeed, GiveUp, Launch, ReconcileNode, InvalidateNode, FinishRun,
             RecoverInterrupted, StartAttempt, RefuseAttempt, SetNodeStatus,
             FinishAttempt, storeVars, tableVars
    <3> QED BY <1>1, <3>1
  <2> QED BY <2>1, <2>2
<1> QED BY <1>2, <1>3, <1>4, <1>5, Kinds

(* The fields of the acting invocation after it launched or popped a node. *)
LEMMA LaunchFields ==
  ASSUME SchedTypeOK, NEW p \in Token, NEW n, NEW S,
         \/ proc' = [proc EXCEPT ![p].active = @ \cup {n}, ![p].todo = S]
         \/ proc' = [proc EXCEPT ![p].todo = S]
  PROVE  /\ proc'[p].pc = proc[p].pc
         /\ proc'[p].rows = proc[p].rows
         /\ proc'[p].todo = S
         /\ proc[p].active \subseteq proc'[p].active
         /\ proc'[p].failed = proc[p].failed
         /\ proc'[p].stored = proc[p].stored
<1>1. proc \in [Token -> Local]
  BY DEF SchedTypeOK
<1> QED BY <1>1 DEF Local

LEMMA AcceptedFields ==
  ASSUME SchedTypeOK, NEW p \in Token, NEW l, PopAccepted(p, l)
  PROVE  \E n \in Node :
           /\ SucceedAttempt(l, n)
           /\ proc[p].pc = "pop" /\ proc'[p].pc = "expire"
           /\ proc'[p].active = proc[p].active \ {n}
           /\ proc'[p].rows = proc[p].rows
           /\ proc'[p].todo = proc[p].todo
           /\ proc'[p].failed = proc[p].failed
           /\ proc'[p].stored = proc[p].stored
<1>1. proc \in [Token -> Local]
  BY DEF SchedTypeOK
<1>2. PICK n \in proc[p].active :
        /\ SucceedAttempt(l, n)
        /\ proc' = [proc EXCEPT ![p].pc = "expire", ![p].moved = TRUE,
                                ![p].active = @ \ {n}]
  BY DEF PopAccepted
<1>3. n \in Node /\ proc[p].pc = "pop"
  BY <1>1 DEF Local, PopAccepted, At
<1>4. /\ proc'[p].pc = "expire" /\ proc'[p].active = proc[p].active \ {n}
      /\ proc'[p].rows = proc[p].rows /\ proc'[p].todo = proc[p].todo
      /\ proc'[p].failed = proc[p].failed /\ proc'[p].stored = proc[p].stored
  BY <1>1, <1>2 DEF Local
<1> QED BY <1>2, <1>3, <1>4

LEMMA FailedFields ==
  ASSUME SchedTypeOK, NEW p \in Token, NEW l, PopFailed(p, l)
  PROVE  \E n \in Node :
           /\ FinishAttempt(l, n)
           /\ proc[p].pc \in {"pop", "expire"} /\ proc'[p].pc = "after"
           /\ proc'[p].active = proc[p].active \ {n}
           /\ proc'[p].rows = proc[p].rows
           /\ proc'[p].todo = proc[p].todo
           /\ proc'[p].failed = {n}
           /\ proc'[p].stored = proc[p].stored
<1>1. proc \in [Token -> Local]
  BY DEF SchedTypeOK
<1>2. PICK n \in proc[p].active :
        /\ FinishAttempt(l, n)
        /\ proc' = [proc EXCEPT ![p].pc = "after", ![p].moved = TRUE,
                                ![p].active = @ \ {n}, ![p].failed = {n}]
  BY DEF PopFailed
<1>3. n \in Node /\ proc[p].pc \in {"pop", "expire"}
  BY <1>1 DEF Local, PopFailed
<1>4. /\ proc'[p].pc = "after" /\ proc'[p].active = proc[p].active \ {n}
      /\ proc'[p].rows = proc[p].rows /\ proc'[p].todo = proc[p].todo
      /\ proc'[p].failed = {n} /\ proc'[p].stored = proc[p].stored
  BY <1>1, <1>2 DEF Local
<1> QED BY <1>2, <1>3, <1>4

LEMMA CancelFields ==
  ASSUME SchedTypeOK, NEW p \in Token, NEW l, Cancel(p, l)
  PROVE  /\ proc[p].pc = "cancel" /\ proc'[p].pc = "audit"
         /\ proc'[p].active = {}
         /\ proc'[p].rows = Fresh'
         /\ proc'[p].failed = proc[p].failed
         /\ proc'[p].stored = proc[p].stored
<1>1. proc \in [Token -> Local]
  BY DEF SchedTypeOK
<1>2. proc' = [proc EXCEPT ![p].pc = "audit", ![p].active = {},
                           ![p].rows = Fresh', ![p].todo = Joins]
  BY DEF Cancel, Fresh
<1>3. proc[p].pc = "cancel"
  BY DEF Cancel, At
<1>4. ASSUME NEW R, proc' = [proc EXCEPT ![p].pc = "audit", ![p].active = {},
                                         ![p].rows = R, ![p].todo = Joins]
      PROVE  /\ proc'[p].pc = "audit" /\ proc'[p].active = {}
             /\ proc'[p].rows = R
             /\ proc'[p].failed = proc[p].failed
             /\ proc'[p].stored = proc[p].stored
  BY <1>1, <1>4 DEF Local
<1> QED BY <1>2, <1>3, <1>4

(* What an invocation has read.                                            *)
LEMMA QuietRows ==
  ASSUME SchedTypeOK, NEW p \in Token, Quiet(p)
  PROVE  proc'[p].rows \in {proc[p].rows, Unread, Fresh}
<1>0. proc \in [Token -> Local]
  BY DEF SchedTypeOK
<1>1. CASE Undecided(p) \/ Audited(p) \/ Stall(p) \/ Crash(p)
           \/ \E l \in leases : l.token = p /\ (Conflict(p, l) \/ LoseLease(p, l))
  <2>1. PICK label : Quit(p, label)
    BY <1>1 DEF Undecided, Audited, Stall, Crash, Conflict, LoseLease
  <2>2. proc'[p] = Blank(label)
    BY <2>1, BlankIs
  <2> QED BY <2>2 DEF Blank
<1>2. CASE Start(p) \/ Validated(p)
  BY <1>2, StartFields, ValidatedFields
<1>3. CASE Look(p) \/ Reserved(p) \/ JoinsRecorded(p) \/ Blocked(p)
           \/ Dispatched(p) \/ Check(p) \/ Exhaust(p) \/ NoneDone(p)
           \/ GivenUp(p)
  <2>1. PICK label :
          \/ Goto(p, label)
          \/ \E R \in {proc[p].rows, Unread, Fresh} : \E S : Pass(p, label, R, S)
    BY <1>3 DEF Look, Reserved, JoinsRecorded, Blocked, Dispatched, Check,
                Exhaust, NoneDone, GivenUp
  <2> QED BY <2>1, PassFields, GotoFields
<1>4. CASE LeftFailed(p) \/ Again(p) \/ Interrupt(p)
  BY <1>0, <1>4 DEF Local, LeftFailed, Again, Interrupt
<1> QED BY <1>1, <1>2, <1>3, <1>4 DEF Quiet

LEMMA LeasingRows ==
  ASSUME SchedTypeOK, NEW p \in Token, Leasing(p)
  PROVE  proc'[p].rows \in {proc[p].rows, Unread}
<1>1. CASE Refused(p) \/ NotRenewed(p) \/ \E l \in leases : Leave(p, l)
  <2>1. PICK label : Quit(p, label)
    BY <1>1 DEF Refused, NotRenewed, Leave
  <2>2. proc'[p] = Blank(label)
    BY <2>1, BlankIs
  <2> QED BY <2>2 DEF Blank
<1>2. CASE Ask(p) \/ Acquire(p) \/ Renew(p) \/ \E l \in leases : Renewed(p, l)
  <2>1. PICK label : Goto(p, label) \/ \E S : Pass(p, label, Unread, S)
    BY <1>2 DEF Ask, Acquire, Renew, Renewed
  <2> QED BY <2>1, PassFields, GotoFields
<1> QED BY <1>1, <1>2 DEF Leasing

LEMMA WritesRows ==
  ASSUME SchedTypeOK, NEW p \in Token, NEW l \in leases, Writes(p, l)
  PROVE  proc'[p].rows \in {proc[p].rows, Unread, Fresh'}
<1>0. proc \in [Token -> Local]
  BY DEF SchedTypeOK
<1>1. CASE Decide(p, l) \/ FailSpoiled(p, l) \/ Park(p, l) \/ Conclude(p, l)
           \/ Succeed(p, l)
  <2>1. Quit(p, "release")
    BY <1>1 DEF Decide, FailSpoiled, Park, Conclude, Succeed
  <2>2. proc'[p] = Blank("release")
    BY <2>1, BlankIs
  <2> QED BY <2>2 DEF Blank
<1>2. CASE Spoil(p, l) \/ Omit(p, l) \/ Recover(p, l) \/ RecordJoin(p, l)
           \/ Block(p, l) \/ GiveUp(p, l) \/ After(p, l)
  BY <1>0, <1>2
     DEF Local, Spoil, Omit, Recover, RecordJoin, Block, GiveUp, After, Goto,
         Visited
<1>3. CASE Cancel(p, l)
  BY <1>3, CancelFields
<1>4. CASE Reserve(p, l) \/ Dispatch(p, l)
  <2>1. PICK n, S :
          \/ proc' = [proc EXCEPT ![p].active = @ \cup {n}, ![p].todo = S]
          \/ proc' = [proc EXCEPT ![p].todo = S]
    BY <1>4 DEF Reserve, Dispatch, Launch
  <2> QED BY <1>0, <2>1 DEF Local
<1>5. CASE PopAccepted(p, l) \/ PopFailed(p, l)
  BY <1>5, AcceptedFields, FailedFields
<1> QED BY <1>1, <1>2, <1>3, <1>4, <1>5 DEF Writes

LEMMA SeenStep ==
  ASSUME SchedTypeOK, IInv, SeenInv, SchedNext, IInv' PROVE SeenInv'
<1>1. SUFFICES ASSUME NEW q \in Token, NEW n \in Node,
                      proc'[q].rows[n] = "succeeded"
               PROVE  artifact'[n] # 0
  BY DEF SeenInv
<1>2. CASE proc'[q].rows \in {proc[q].rows, Unread, Fresh}
  <2>1. Unread[n] # "succeeded"
    BY DEF Unread
  <2>2. Fresh[n] = "succeeded" => artifact[n] # 0
    BY DEF Fresh, IInv, AcceptedEvidence
  <2> QED BY <1>1, <1>2, <2>1, <2>2, EvidenceStays DEF SeenInv
<1>3. CASE proc'[q].rows = Fresh'
  BY <1>1, <1>3 DEF Fresh, IInv, AcceptedEvidence
<1>4. CASE Environment
  BY <1>2, <1>4 DEF Environment
<1>5. ASSUME NEW p \in Token, Quiet(p) PROVE artifact'[n] # 0
  BY <1>2, <1>5, QuietRows, QuietOthers
<1>6. ASSUME NEW p \in Token, Leasing(p) PROVE artifact'[n] # 0
  BY <1>2, <1>6, LeasingRows, LeasingOthers
<1>7. ASSUME NEW p \in Token, NEW l \in leases, Writes(p, l)
      PROVE  artifact'[n] # 0
  BY <1>2, <1>3, <1>7, WritesRows, WritesOthers
<1> QED BY <1>4, <1>5, <1>6, <1>7, Kinds

-----------------------------------------------------------------------------
(* What a write may do to a row, given what its caller has read.           *)

Starts(p, l, n) ==
  /\ StartAttempt(l, n)
  /\ Room(p)
  /\ proc[p].pc \in {"reserve", "dispatch"}
  /\ proc'[p].active = proc[p].active \cup {n}

Change(p, n, t) ==
  \/ St(n) = "pending" /\ t = "failed"
  \/ St(n) = "running" /\ t = "failed" /\ proc'[p].failed = {n}
  \/ St(n) = "running" /\ t \in {"succeeded", Interrupted(n)}
  \/ /\ n \in proc[p].failed /\ St(n) = "failed"
     /\ t \in {Interrupted(n), "optional_failed"}
  \/ /\ proc[p].pc = "block" /\ n \in proc[p].todo
     /\ St(n) \in {"pending", "failed"} /\ t = "blocked"
  \/ St(n) = "uncertain" /\ t = "failed"
  \/ St(n) = "uncertain" /\ t = "pending" /\ granted'[n] = granted[n] + 1
  \/ /\ St(n) \notin KeptByCancel \cup {"cancelled"}
     /\ t = "cancelled" /\ runStatus' = "cancelled"
  \/ n \in Corruptible /\ St(n) = "succeeded" /\ t = "failed"
  \/ /\ proc[p].pc \in {"validate", "check", "spoiled"} /\ n \in proc[p].todo
     /\ St(n) \in Terminal \ {"succeeded"} /\ t = "failed"

Changes(p, n) ==
  /\ node'[n].count = node[n].count
  /\ node'[n].generation \in {0, node[n].generation}
  /\ Change(p, n, node'[n].status)

(* Writes of one row touch no other.                                       *)
LEMMA OneRow ==
  ASSUME TypeOK, NEW l, NEW m \in Node, NEW n \in Node \ {m},
         \/ StartAttempt(l, m) \/ RefuseAttempt(l, m) \/ FinishAttempt(l, m)
         \/ SucceedAttempt(l, m) \/ InvalidateNode(l, m)
         \/ \E s, r : SetNodeStatus(l, m, s, r)
         \/ \E d : ReconcileNode(l, m, d)
  PROVE  node'[n] = node[n]
  BY DEF TypeOK, StartAttempt, RefuseAttempt, FinishAttempt, SucceedAttempt,
         InvalidateNode, SetNodeStatus, ReconcileNode, Settle

(* A new status alone.                                                     *)
LEMMA NewStatus ==
  ASSUME TypeOK, NEW n \in Node, NEW s, node' = [node EXCEPT ![n].status = s]
  PROVE  /\ node'[n].status = s
         /\ node'[n].count = node[n].count
         /\ node'[n].generation = node[n].generation
  BY DEF TypeOK, NodeRow

LEMMA SettledRow ==
  ASSUME TypeOK, NEW l, NEW n \in Node, NEW s, Settle(l, n, s)
  PROVE  /\ node'[n].status = s
         /\ node'[n].count = node[n].count
         /\ node'[n].generation = 0
  BY DEF TypeOK, NodeRow, Settle

LEMMA LaunchMove ==
  ASSUME SchedTypeOK, NEW p \in Token, NEW l \in leases, NEW m \in Node, NEW S,
         \/ Launch(p, l, m, S)
         \/ /\ StartAttempt(l, m)
            /\ proc' = [proc EXCEPT ![p].active = @ \cup {m}, ![p].todo = S],
         Room(p), proc[p].pc \in {"reserve", "dispatch"}, NEW n \in Node
  PROVE  node'[n] = node[n] \/ Starts(p, l, n) \/ Changes(p, n)
<1>0. TypeOK /\ proc \in [Token -> Local]
  BY DEF SchedTypeOK
<1>1. CASE n # m
  BY <1>0, <1>1, OneRow DEF Launch
<1>2. CASE n = m /\ RefuseAttempt(l, m)
  <2>1. node' = [node EXCEPT ![n].status = "failed"] /\ St(n) = "pending"
    BY <1>2 DEF RefuseAttempt, St
  <2> QED BY <1>0, <2>1, NewStatus DEF Changes, Change
<1>3. CASE /\ n = m /\ StartAttempt(l, m)
           /\ proc' = [proc EXCEPT ![p].active = @ \cup {m}, ![p].todo = S]
  <2>1. proc'[p].active = proc[p].active \cup {m}
    BY <1>0, <1>3 DEF Local
  <2> QED BY <1>3, <2>1 DEF Starts
<1> QED BY <1>1, <1>2, <1>3 DEF Launch

LEMMA RowMove ==
  ASSUME SchedTypeOK, IInv, NEW p \in Token, View(p), NEW l \in leases,
         Writes(p, l), NEW n \in Node
  PROVE  node'[n] = node[n] \/ Starts(p, l, n) \/ Changes(p, n)
<1>0. TypeOK /\ RowsAgree /\ proc[p] \in Local /\ proc[p].todo \in SUBSET Node
  BY DEF SchedTypeOK, IInv, Local
<1>1. CASE Decide(p, l)
  <2>1. PICK m \in Node, d \in {"retry", "fail"} :
          /\ ReconcileNode(l, m, d)
          /\ granted' = IF d = "retry" THEN [granted EXCEPT ![m] = @ + 1]
                                       ELSE granted
    BY <1>1 DEF Decide
  <2>2. CASE n # m
    BY <1>0, <2>1, <2>2, OneRow
  <2>3. CASE n = m
    <3>1. /\ St(n) = "uncertain"
          /\ node' = [node EXCEPT ![n].status =
                        IF d = "retry" THEN "pending" ELSE "failed"]
      BY <2>1, <2>3 DEF ReconcileNode, St
    <3>2. d = "retry" => granted'[n] = granted[n] + 1
      BY <2>1, <2>3 DEF SchedTypeOK
    <3> QED BY <1>0, <3>1, <3>2, NewStatus DEF Changes, Change
  <2> QED BY <2>2, <2>3
<1>2. CASE Spoil(p, l) \/ Omit(p, l)
  <2>1. PICK m \in Node :
          /\ InvalidateNode(l, m)
          /\ \/ m \in Corruptible /\ St(m) = "succeeded"
             \/ proc[p].pc \in {"validate", "check", "spoiled"} /\ m \in proc[p].todo
    BY <1>2, LeastTodo, SchedulerAssumption DEF Spoil, Omit, St
  <2>2. CASE n # m
    BY <1>0, <2>1, <2>2, OneRow
  <2>3. CASE n = m
    <3>1. node' = [node EXCEPT ![n].status = "failed"]
      BY <2>1, <2>3 DEF InvalidateNode
    <3>2. m \notin Corruptible \/ St(m) # "succeeded" =>
            St(m) \in Terminal \ {"succeeded"}
      BY <2>1 DEF View, Owing, St
    <3> QED BY <1>0, <2>1, <2>3, <3>1, <3>2, NewStatus DEF Changes, Change
  <2> QED BY <2>2, <2>3
<1>3. CASE FailSpoiled(p, l) \/ Park(p, l) \/ Succeed(p, l)
  BY <1>3 DEF FailSpoiled, Park, Succeed, FinishRun
<1>4. CASE Cancel(p, l) \/ Conclude(p, l)
  <2>1. node'[n] = node[n] \/ (CancelUnfinished /\ runStatus' = "cancelled")
    <3>1. PICK s : FinishRun(l, s)
      BY <1>4 DEF Cancel, Conclude
    <3>2. CASE s = "cancelled"
      BY <3>1, <3>2 DEF FinishRun
    <3>3. CASE s # "cancelled"
      BY <3>1, <3>3 DEF FinishRun
    <3> QED BY <3>2, <3>3
  <2>2. CASE CancelUnfinished /\ runStatus' = "cancelled"
    <3>1. node'[n] = IF St(n) \in KeptByCancel THEN node[n]
                     ELSE [node[n] EXCEPT !.status = "cancelled", !.active = 0,
                                          !.generation = 0]
      BY <2>2 DEF CancelUnfinished, St
    <3>2. node[n] \in NodeRow
      BY <1>0 DEF TypeOK
    <3>3. St(n) = "cancelled" => node[n].active = 0 /\ node[n].generation = 0
      BY <1>0 DEF RowsAgree, Running, St
    <3>4. CASE St(n) = "cancelled"
      <4>1. PICK row \in NodeRow : row = node[n]
        BY <3>2
      <4>2. /\ row.status = "cancelled" /\ row.active = 0 /\ row.generation = 0
        BY <3>3, <3>4, <4>1 DEF St
      <4>3. [row EXCEPT !.status = "cancelled", !.active = 0,
                        !.generation = 0] = row
        BY <4>2 DEF NodeRow
      <4> QED BY <3>1, <4>1, <4>3
    <3>5. CASE St(n) \notin KeptByCancel \cup {"cancelled"}
      <4>1. /\ node'[n].status = "cancelled"
            /\ node'[n].count = node[n].count
            /\ node'[n].generation = 0
        BY <3>1, <3>2, <3>5 DEF NodeRow
      <4> QED BY <2>2, <3>5, <4>1 DEF Changes, Change
    <3> QED BY <3>1, <3>4, <3>5
  <2> QED BY <2>1, <2>2
<1>5. CASE Recover(p, l)
  <2>1. node'[n] = IF Running(n)
                   THEN [node[n] EXCEPT !.status = Interrupted(n), !.active = 0,
                                        !.generation = 0]
                   ELSE node[n]
    BY <1>5 DEF Recover, RecoverInterrupted
  <2>2. node[n] \in NodeRow
    BY <1>0 DEF TypeOK
  <2> QED BY <2>1, <2>2 DEF NodeRow, Changes, Change, Running, St
<1>6. CASE RecordJoin(p, l)
  BY <1>6 DEF RecordJoin, storeVars, tableVars
<1>7. CASE Reserve(p, l)
  <2>1. PICK m \in Node : \E S : Launch(p, l, m, S)
    BY <1>7, LeastTodo DEF Reserve
  <2> QED BY <1>7, <2>1, LaunchMove DEF Reserve, At
<1>8. CASE Dispatch(p, l)
  <2>1. PICK m \in Node :
          \E S : \/ Launch(p, l, m, S)
                \/ /\ StartAttempt(l, m)
                   /\ proc' = [proc EXCEPT ![p].active = @ \cup {m}, ![p].todo = S]
    BY <1>8, LeastFrontier DEF Dispatch
  <2> QED BY <1>8, <2>1, LaunchMove DEF Dispatch, At
<1>9. CASE PopAccepted(p, l)
  <2>1. PICK m \in Node : SucceedAttempt(l, m)
    BY <1>9, AcceptedFields
  <2>2. CASE n # m
    BY <1>0, <2>1, <2>2, OneRow
  <2>3. CASE n = m
    BY <1>0, <2>1, <2>3, SettledRow
       DEF SucceedAttempt, ActiveAttempt, Running, Changes, Change, St
  <2> QED BY <2>2, <2>3
<1>10. CASE PopFailed(p, l)
  <2>1. PICK m \in Node : FinishAttempt(l, m) /\ proc'[p].failed = {m}
    BY <1>10, FailedFields
  <2>2. CASE n # m
    BY <1>0, <2>1, <2>2, OneRow
  <2>3. CASE n = m
    BY <1>0, <2>1, <2>3, SettledRow
       DEF FinishAttempt, ActiveAttempt, Running, Changes, Change, St
  <2> QED BY <2>2, <2>3
<1>11. CASE After(p, l)
  <2>1. PICK m \in proc[p].failed :
          \E s, r : /\ s \in {Interrupted(m), "optional_failed"}
                   /\ SetNodeStatus(l, m, s, r)
    BY <1>11 DEF After
  <2>2. m \in Node /\ St(m) = "failed"
    BY <1>0 DEF Local, View
  <2>3. CASE n # m
    BY <1>0, <2>1, <2>2, <2>3, OneRow
  <2>4. CASE n = m
    <3>1. PICK s \in {Interrupted(n), "optional_failed"} :
            node' = [node EXCEPT ![n].status = s]
      BY <2>1, <2>4 DEF SetNodeStatus
    <3> QED BY <1>0, <2>1, <2>2, <2>4, <3>1, NewStatus DEF Changes, Change
  <2> QED BY <2>3, <2>4
<1>12. CASE Block(p, l)
  <2>1. PICK m \in Node :
          m \in proc[p].todo /\ SetNodeStatus(l, m, "blocked", "dependency")
    BY <1>12, LeastTodo DEF Block
  <2>2. proc[p].pc = "block" /\ St(m) \in {"pending", "failed"}
    BY <1>12, <2>1 DEF Block, At, View
  <2>3. CASE n # m
    BY <1>0, <2>1, <2>3, OneRow
  <2>4. CASE n = m
    <3>1. node' = [node EXCEPT ![n].status = "blocked"]
      BY <2>1, <2>4 DEF SetNodeStatus
    <3> QED BY <1>0, <2>1, <2>2, <2>4, <3>1, NewStatus DEF Changes, Change
  <2> QED BY <2>3, <2>4
<1>13. CASE GiveUp(p, l)
  <2>1. PICK m \in Node :
          m \in proc[p].todo /\ SetNodeStatus(l, m, "failed", "budget")
    BY <1>13, LeastTodo DEF GiveUp
  <2>2. St(m) = "pending"
    BY <1>13, <2>1 DEF GiveUp, At, View
  <2>3. CASE n # m
    BY <1>0, <2>1, <2>3, OneRow
  <2>4. CASE n = m
    <3>1. node' = [node EXCEPT ![n].status = "failed"]
      BY <2>1, <2>4 DEF SetNodeStatus
    <3> QED BY <1>0, <2>1, <2>2, <2>4, <3>1, NewStatus DEF Changes, Change
  <2> QED BY <2>3, <2>4
<1> QED BY <1>1, <1>2, <1>3, <1>4, <1>5, <1>6, <1>7, <1>8, <1>9, <1>10, <1>11,
           <1>12, <1>13 DEF Writes

-----------------------------------------------------------------------------
(* Invariants of the rows.                                                 *)

LEMMA StepKinds ==
  SchedNext =>
    \/ UNCHANGED <<runStatus, node, artifact, join, granted>>
    \/ \E p \in Token : \E l \in leases : l.token = p /\ Writes(p, l)
<1>1. Environment => UNCHANGED <<runStatus, node, artifact, join, granted>>
  BY DEF Environment, Tick, RequestCancel, runVars, tableVars
<1>2. \A p \in Token :
        Quiet(p) \/ Leasing(p) => UNCHANGED <<runStatus, node, artifact, join, granted>>
  BY QuietStep, LeasingStep DEF storeVars, runVars, tableVars
<1> QED BY <1>1, <1>2, Kinds

LEMMA OwnView ==
  ASSUME ViewInv, NEW p \in Token, NEW l \in leases, l.token = p, Writes(p, l)
  PROVE  View(p)
  BY WriterOwns DEF ViewInv

LEMMA SkippedStep ==
  ASSUME SchedTypeOK, IInv, ViewInv, NoneSkipped, SchedNext PROVE NoneSkipped'
<1>1. CASE UNCHANGED node
  BY <1>1 DEF NoneSkipped, St
<1>2. ASSUME NEW p \in Token, NEW l \in leases, l.token = p, Writes(p, l)
      PROVE  NoneSkipped'
  <2>1. SUFFICES ASSUME NEW n \in Node PROVE node'[n].status # "skipped"
    BY DEF NoneSkipped, St
  <2>2. CASE node'[n] = node[n]
    BY <2>2 DEF NoneSkipped, St
  <2>3. CASE Starts(p, l, n)
    BY <2>3 DEF Starts, StartAttempt, SchedTypeOK, TypeOK
  <2>4. CASE Changes(p, n)
    BY <2>4 DEF Changes, Change, Interrupted
  <2> QED BY <1>2, <2>2, <2>3, <2>4, OwnView, RowMove
<1> QED BY <1>1, <1>2, StepKinds

(* Only an operator's decision adds to the grants.                         *)
LEMMA GrantsGrow ==
  ASSUME SchedTypeOK, SchedNext, NEW n \in Node
  PROVE  granted[n] <= granted'[n] /\ granted'[n] \in Nat
<1>0. granted \in [Node -> Nat]
  BY DEF SchedTypeOK
<1>1. CASE UNCHANGED granted
  BY <1>0, <1>1
<1>2. ASSUME NEW p \in Token, NEW l \in leases, Writes(p, l)
      PROVE  granted[n] <= granted'[n] /\ granted'[n] \in Nat
  <2>1. CASE Decide(p, l)
    <3>1. PICK m \in Node : granted' \in {granted, [granted EXCEPT ![m] = @ + 1]}
      BY <2>1 DEF Decide
    <3> QED BY <1>0, <3>1
  <2>2. CASE ~Decide(p, l)
    <3>1. UNCHANGED granted
      BY <1>2, <2>2
         DEF Writes, Spoil, Omit, FailSpoiled, Recover, Park, Cancel, Reserve,
             RecordJoin, Block, Dispatch, PopAccepted, PopFailed, After,
             Conclude, Succeed, GiveUp
    <3> QED BY <1>1, <3>1
  <2> QED BY <2>1, <2>2
<1> QED BY <1>1, <1>2, StepKinds

(* The row of a node that starts.                                          *)
LEMMA StartedRow ==
  ASSUME TypeOK, NEW l, NEW n \in Node, StartAttempt(l, n)
  PROVE  /\ node[n].status = "pending"
         /\ node[n].count < MaxAttempts
         /\ node' = [node EXCEPT ![n] = node'[n]]
         /\ node'[n].status = "running"
         /\ node'[n].count = node[n].count + 1
         /\ node'[n].generation = l.generation
  BY DEF TypeOK, NodeRow, StartAttempt

LEMMA ReplayStep ==
  ASSUME SchedTypeOK, IInv, ViewInv, ReplayInv, SchedNext PROVE ReplayInv'
<1>0. TypeOK /\ granted \in [Node -> Nat]
  BY DEF SchedTypeOK
<1>1. CASE UNCHANGED <<node, granted>>
  BY <1>1 DEF ReplayInv, St
<1>2. ASSUME NEW p \in Token, NEW l \in leases, l.token = p, Writes(p, l)
      PROVE  ReplayInv'
  <2>1. SUFFICES ASSUME NEW n \in Node \ ReplaySafe
                 PROVE  /\ node'[n].count <= 1 + granted'[n]
                        /\ node'[n].status = "pending" =>
                             node'[n].count <= granted'[n]
    BY DEF ReplayInv, St
  <2>2. /\ node[n].count \in Nat /\ granted[n] \in Nat
        /\ granted'[n] \in Nat /\ granted[n] <= granted'[n]
        /\ node[n].count <= 1 + granted[n]
        /\ St(n) = "pending" => node[n].count <= granted[n]
    BY <1>0, GrantsGrow DEF TypeOK, NodeRow, ReplayInv
  <2>3. CASE node'[n] = node[n]
    BY <2>2, <2>3 DEF St
  <2>4. CASE Starts(p, l, n)
    <3>1. /\ St(n) = "pending"
          /\ node'[n].status = "running"
          /\ node'[n].count = node[n].count + 1
      BY <1>0, <2>4, StartedRow DEF Starts, St
    <3> QED BY <2>2, <3>1
  <2>5. CASE Changes(p, n)
    <3>1. node'[n].count = node[n].count
      BY <2>5 DEF Changes
    <3>2. node'[n].status = "pending" => granted'[n] = granted[n] + 1
      BY <2>5 DEF Changes, Change, Interrupted
    <3> QED BY <2>2, <3>1, <3>2
  <2> QED BY <1>2, <2>3, <2>4, <2>5, OwnView, RowMove
<1> QED BY <1>1, <1>2, StepKinds

(* The attempts of the run.                                                *)
Made == {a \in Node \X Number : a[2] <= node[a[1]].count}

LEMMA MadeFinite == IsFiniteSet(Made)
<1>1. IsFiniteSet(Node) /\ IsFiniteSet(Number)
  BY SchedulerAssumption, StoreAssumption, FS_Interval DEF Number
<1>2. IsFiniteSet(Node \X Number)
  BY <1>1, FS_Product
<1>3. Made \subseteq Node \X Number
  BY DEF Made
<1> QED BY <1>2, <1>3, FS_Subset

LEMMA AttemptsStep ==
  ASSUME SchedTypeOK, IInv, ViewInv, Attempts <= MaxTotal, SchedNext
  PROVE  Attempts' <= MaxTotal
<1>0. TypeOK /\ Attempts = Cardinality(Made) /\ Attempts' = Cardinality(Made')
  BY DEF SchedTypeOK, Attempts, Made
<1>1. CASE \A n \in Node : node'[n].count = node[n].count
  <2>1. \A a \in Node \X Number :
          a[2] <= node'[a[1]].count <=> a[2] <= node[a[1]].count
    BY <1>1
  <2>2. Made' = Made
    BY <2>1 DEF Made
  <2> QED BY <1>0, <2>2
<1>2. ASSUME NEW p \in Token, NEW l \in leases, NEW n \in Node, Starts(p, l, n)
      PROVE  Attempts' <= MaxTotal
  <2> DEFINE k == node[n].count + 1
  <2>1. /\ k \in Number /\ node'[n].count = k
        /\ node' = [node EXCEPT ![n] = node'[n]]
    BY <1>0, <1>2, StartedRow, StoreAssumption
       DEF Starts, Number, TypeOK, NodeRow
  <2>2. /\ \A m \in Node : node[m].count \in Nat
        /\ \A m \in Node \ {n} : node'[m] = node[m]
    BY <1>0, <2>1 DEF TypeOK, NodeRow
  <2>3. ASSUME NEW m \in Node, NEW j \in Number
        PROVE  j <= node'[m].count <=> j <= node[m].count \/ (m = n /\ j = k)
    BY <2>1, <2>2 DEF Number
  <2>4. Made' = Made \cup {<<n, k>>}
    <3>1. \A a : a \in Made' <=> a \in Made \/ a = <<n, k>>
      <4> HIDE DEF k
      <4>1. \A a \in Node \X Number : a[1] \in Node /\ a[2] \in Number
        OBVIOUS
      <4>2. \A a \in Node \X Number : a = <<n, k>> <=> a[1] = n /\ a[2] = k
        BY <2>1
      <4>3. <<n, k>> \in Node \X Number
        BY <2>1
      <4> QED BY <2>3, <4>1, <4>2, <4>3 DEF Made
    <3> QED BY <3>1
  <2>5. Attempts < MaxTotal
    BY <1>2 DEF Starts, Room
  <2>6. Cardinality(Made) \in Nat /\ Cardinality(Made') <= Cardinality(Made) + 1
    <3>1. /\ Cardinality(Made) \in Nat
          /\ Cardinality(Made \cup {<<n, k>>}) \in
               {Cardinality(Made), Cardinality(Made) + 1}
      BY MadeFinite, FS_AddElement, FS_CardinalityType
    <3> QED BY <2>4, <3>1
  <2>7. Cardinality(Made') \in Nat
    BY <2>4, MadeFinite, FS_AddElement, FS_CardinalityType
  <2> QED BY <1>0, <2>5, <2>6, <2>7, SchedulerAssumption
<1>3. ASSUME NEW p \in Token, NEW l \in leases, l.token = p, Writes(p, l)
      PROVE  Attempts' <= MaxTotal
  <2>1. CASE \E n \in Node : Starts(p, l, n)
    BY <1>2, <2>1
  <2>2. CASE ~\E n \in Node : Starts(p, l, n)
    <3>1. \A n \in Node : node'[n] = node[n] \/ Changes(p, n)
      BY <1>3, <2>2, OwnView, RowMove
    <3> QED BY <1>1, <3>1 DEF Changes
  <2> QED BY <2>1, <2>2
<1> QED BY <1>1, <1>3, StepKinds

-----------------------------------------------------------------------------
(* What runs under the newest lease is in its owner's active set.          *)

LEMMA WritesActive ==
  ASSUME SchedTypeOK, NEW p \in Token, NEW l \in leases, Writes(p, l)
  PROVE  /\ proc[p].pc \in Working
         /\ \/ proc'[p].pc \notin Working
            \/ proc[p].active \subseteq proc'[p].active
            \/ \E n \in Node : /\ proc'[p].active = proc[p].active \ {n}
                               /\ node'[n].status # "running"
            \/ \A n \in Node : node'[n].status # "running"
<1>0. proc \in [Token -> Local] /\ TypeOK
  BY DEF SchedTypeOK
<1>1. CASE Decide(p, l) \/ FailSpoiled(p, l) \/ Park(p, l) \/ Conclude(p, l)
           \/ Succeed(p, l)
  <2>1. Quit(p, "release")
    BY <1>1 DEF Decide, FailSpoiled, Park, Conclude, Succeed
  <2>2. proc'[p].pc = "release"
    BY <2>1, QuitFields
  <2>3. proc[p].pc \in Working
    BY <1>1 DEF Decide, FailSpoiled, Park, Conclude, Succeed, At, Working, Writing
  <2> QED BY <2>2, <2>3 DEF Working, Writing
<1>2. CASE Spoil(p, l) \/ Omit(p, l) \/ Recover(p, l) \/ RecordJoin(p, l)
           \/ Block(p, l) \/ GiveUp(p, l) \/ After(p, l)
  <2>1. proc'[p].active = proc[p].active
    BY <1>0, <1>2
       DEF Local, Spoil, Omit, Recover, RecordJoin, Block, GiveUp, After, Goto,
           Visited
  <2>2. proc[p].pc \in Working
    BY <1>2 DEF Spoil, Omit, Recover, RecordJoin, Block, GiveUp, After, At,
                Working, Writing
  <2> QED BY <2>1, <2>2
<1>3. CASE Cancel(p, l)
  <2>1. \A n \in Node : node'[n].status # "running"
    <3>1. CancelUnfinished
      BY <1>3 DEF Cancel, FinishRun
    <3>2. \A n \in Node :
            node'[n] = IF node[n].status \in KeptByCancel THEN node[n]
                       ELSE [node[n] EXCEPT !.status = "cancelled",
                                            !.active = 0, !.generation = 0]
      BY <3>1 DEF CancelUnfinished
    <3>3. \A n \in Node : node[n] \in NodeRow
      BY <1>0 DEF TypeOK
    <3> QED BY <3>2, <3>3 DEF NodeRow, KeptByCancel
  <2> QED BY <1>3, <2>1 DEF Cancel, At, Working, Writing
<1>4. CASE Reserve(p, l) \/ Dispatch(p, l)
  <2>1. PICK n :
          \E S : \/ proc' = [proc EXCEPT ![p].active = @ \cup {n}, ![p].todo = S]
                 \/ proc' = [proc EXCEPT ![p].todo = S]
    BY <1>4 DEF Reserve, Dispatch, Launch
  <2>2. proc[p].active \subseteq proc'[p].active
    BY <1>0, <2>1 DEF Local
  <2> QED BY <1>4, <2>2 DEF Reserve, Dispatch, At, Working, Writing
<1>5. CASE PopAccepted(p, l)
  <2>1. PICK n \in Node : /\ SucceedAttempt(l, n)
                          /\ proc[p].pc = "pop"
                          /\ proc'[p].active = proc[p].active \ {n}
    BY <1>5, AcceptedFields
  <2>2. node'[n].status = "succeeded"
    BY <1>0, <2>1, SettledRow DEF SucceedAttempt
  <2> QED BY <2>1, <2>2 DEF Working, Writing
<1>6. CASE PopFailed(p, l)
  <2>1. PICK n \in Node : /\ FinishAttempt(l, n)
                          /\ proc[p].pc \in {"pop", "expire"}
                          /\ proc'[p].active = proc[p].active \ {n}
    BY <1>6, FailedFields
  <2>2. node'[n].status = "failed"
    BY <1>0, <2>1, SettledRow DEF FinishAttempt
  <2> QED BY <2>1, <2>2 DEF Working, Writing
<1> QED BY <1>1, <1>2, <1>3, <1>4, <1>5, <1>6 DEF Writes

(* Outside of writes, the active set goes with the invocation.             *)
LEMMA QuietActive ==
  ASSUME SchedTypeOK, NEW p \in Token, Quiet(p), proc'[p].pc \in Working
  PROVE  /\ proc[p].pc \in Working
         /\ proc'[p].active = proc[p].active
<1>0. proc \in [Token -> Local]
  BY DEF SchedTypeOK
<1>1. CASE Undecided(p) \/ Audited(p) \/ Stall(p) \/ Crash(p)
           \/ \E l \in leases : l.token = p /\ (Conflict(p, l) \/ LoseLease(p, l))
  <2>1. PICK label \in {"release", "stalled", "conflict", "gone"} : Quit(p, label)
    BY <1>1 DEF Undecided, Audited, Stall, Crash, Conflict, LoseLease
  <2>2. proc'[p].pc = label
    BY <2>1, QuitFields
  <2> QED BY <2>1, <2>2 DEF Working, Writing
<1>2. CASE Start(p) \/ Validated(p)
  BY <1>2, StartFields, ValidatedFields DEF Working, Writing
<1>3. CASE Look(p) \/ Reserved(p) \/ JoinsRecorded(p) \/ Blocked(p)
           \/ Dispatched(p) \/ Check(p) \/ Exhaust(p) \/ NoneDone(p)
           \/ GivenUp(p)
  <2>1. proc[p].pc \in Working
    BY <1>3 DEF Working, Writing, Look, Reserved, JoinsRecorded, Blocked,
                Dispatched, Check, Exhaust, NoneDone, GivenUp, Idle, At
  <2>2. PICK label : Goto(p, label) \/ \E R, S : Pass(p, label, R, S)
    BY <1>3 DEF Look, Reserved, JoinsRecorded, Blocked, Dispatched, Check,
                Exhaust, NoneDone, GivenUp
  <2>3. proc'[p].active = proc[p].active
    BY <2>2, PassFields, GotoFields
  <2> QED BY <2>1, <2>3
<1>4. CASE LeftFailed(p) \/ Again(p) \/ Interrupt(p)
  <2>1. proc'[p].active = proc[p].active
    BY <1>0, <1>4 DEF Local, LeftFailed, Again, Interrupt
  <2>2. proc[p].pc \in Working
    BY <1>0, <1>4 DEF Local, LeftFailed, Again, Interrupt, At, Working, Writing
  <2> QED BY <2>1, <2>2
<1> QED BY <1>1, <1>2, <1>3, <1>4 DEF Quiet

LEMMA LeasingActive ==
  ASSUME SchedTypeOK, NEW p \in Token, Leasing(p), ~Acquire(p),
         proc'[p].pc \in Working
  PROVE  /\ proc[p].pc \in Working
         /\ proc'[p].active = proc[p].active
<1>1. CASE Refused(p) \/ NotRenewed(p) \/ \E l \in leases : Leave(p, l)
  <2>1. PICK label \in {"release", "gone"} : Quit(p, label)
    BY <1>1 DEF Refused, NotRenewed, Leave
  <2>2. proc'[p].pc = label
    BY <2>1, QuitFields
  <2> QED BY <2>1, <2>2 DEF Working, Writing
<1>2. CASE Ask(p)
  BY <1>2, GotoFields DEF Ask, Working, Writing
<1>3. CASE Renew(p) \/ \E l \in leases : Renewed(p, l)
  <2>1. PICK label : Goto(p, label)
    BY <1>3 DEF Renew, Renewed
  <2> QED BY <1>3, <2>1, GotoFields DEF Renew, Renewed, At, Working
<1> QED BY <1>1, <1>2, <1>3 DEF Leasing

(* Who takes the lease did not own it, so its generation is new.           *)
LEMMA AcquireIsNew ==
  ASSUME SchedTypeOK, IInv, LeaseInv, NEW p \in Token, Acquire(p)
  PROVE  /\ owner # p /\ owner' = p /\ generation' = generation + 1
         /\ generation \in Nat
<1>1. owner # p
  <2>1. ASSUME owner = p PROVE FALSE
    <3>1. [token |-> p, generation |-> generation] \in leases
      BY <2>1, StoreAssumption DEF IInv, OneOwner
    <3>2. proc[p].pc \notin {"off", "call", "acquire"}
      BY <3>1 DEF LeaseInv
    <3> QED BY <3>2 DEF Acquire, At
  <2> QED BY <2>1
<1>2. /\ owner' = p /\ generation' = NextGeneration(p)
  BY DEF Acquire, AcquireLease
<1>3. generation' = generation + 1
  BY <1>1, <1>2 DEF NextGeneration, LiveSame
<1> QED BY <1>1, <1>2, <1>3 DEF SchedTypeOK, TypeOK

(* No row carries a generation that was not issued.                        *)
LEMMA RowsOfThePast ==
  ASSUME IInv, NEW n \in Node, Running(n)
  PROVE  node[n].generation \in 1 .. generation
<1>1. node[n].count \in Number /\ node[n].count <= node[n].count
  BY DEF IInv, RowsAgree, TypeOK, Number
<1>2. attempt[n][node[n].count].generation = node[n].generation
  BY DEF IInv, RowsAgree
<1>3. attempt[n][node[n].count].generation \in 1 .. generation
  BY <1>1 DEF IInv, AttemptsFollowLeases
<1> QED BY <1>2, <1>3

LEMMA RunningFinite == IsFiniteSet(RunningNow)
  BY SchedulerAssumption, FS_Subset DEF RunningNow

LEMMA FewerRun ==
  ASSUME Cardinality(RunningNow) <= MaxConcurrency, RunningNow' \subseteq RunningNow
  PROVE  Cardinality(RunningNow') <= MaxConcurrency
<1>1. /\ Cardinality(RunningNow') <= Cardinality(RunningNow)
      /\ Cardinality(RunningNow) \in Nat /\ Cardinality(RunningNow') \in Nat
  BY RunningFinite, FS_Subset, FS_CardinalityType
<1> QED BY <1>1, SchedulerAssumption

LEMMA SlotsStep ==
  ASSUME SchedTypeOK, IInv, LeaseInv, LocalInv, LocalInv', ViewInv, SlotsInv,
         SchedNext
  PROVE  SlotsInv'
<1>0. TypeOK /\ \A p \in Token : LocalOK(p) /\ LocalOK(p)'
  BY LocalIs DEF SchedTypeOK, LocalInv, LocalOK, Early
<1>1. ASSUME RunningNow' \subseteq RunningNow,
             \A q \in Token : owner' = q /\ proc'[q].pc \in Working =>
               owner = q /\ proc[q].pc \in Working
               /\ proc'[q].active = proc[q].active
      PROVE  SlotsInv'
  BY <1>1, FewerRun DEF SlotsInv
<1>2. CASE Environment
  <2>1. UNCHANGED <<node, generation, owner, proc>>
    BY <1>2 DEF Environment, Tick, RequestCancel, leaseVars, tableVars
  <2> QED BY <2>1 DEF SlotsInv, RunningNow, Running
<1>3. ASSUME NEW p \in Token, Quiet(p) PROVE SlotsInv'
  <2>1. UNCHANGED <<node, generation, owner>>
    BY <1>3, QuietStep DEF storeVars, leaseVars, tableVars
  <2>2. RunningNow' = RunningNow
    BY <2>1 DEF RunningNow, Running
  <2> QED BY <1>1, <1>3, <2>1, <2>2, QuietActive, QuietOthers
<1>4. ASSUME NEW p \in Token, Leasing(p), ~Acquire(p) PROVE SlotsInv'
  <2>1. /\ UNCHANGED <<node, generation>>
        /\ owner' \in {owner, NoToken}
    BY <1>4, LeasingStep
       DEF tableVars, Leasing, Ask, Refused, Renew, NotRenewed, Renewed, Leave,
           Call, RefuseCall, RenewLease, ReleaseLease, leaseVars
  <2>2. RunningNow' = RunningNow
    BY <2>1 DEF RunningNow, Running
  <2> QED BY <1>1, <1>4, <2>1, <2>2, LeasingActive, LeasingOthers, StoreAssumption
<1>5. ASSUME NEW p \in Token, Acquire(p) PROVE SlotsInv'
  <2>1. /\ owner' = p /\ generation' = generation + 1 /\ generation \in Nat
        /\ node' = node
    BY <1>5, AcquireIsNew DEF Acquire, AcquireLease, tableVars
  <2>2. RunningNow' = {}
    BY <2>1, RowsOfThePast DEF RunningNow, Running
  <2>3. RunningNow' \subseteq RunningNow
    BY <2>2
  <2> QED BY <2>2, <2>3, FewerRun DEF SlotsInv
<1>6. ASSUME NEW p \in Token, NEW l \in leases, l.token = p, Writes(p, l)
      PROVE  SlotsInv'
  <2>1. owner = p /\ owner' = owner /\ generation' = generation /\ View(p)
    BY <1>6, WriterOwns, OwnView DEF leaseVars
  <2>2. RunningNow \subseteq proc[p].active
    BY <1>6, <2>1, WritesActive DEF SlotsInv
  <2>3. ASSUME NEW n \in RunningNow', ~Starts(p, l, n) PROVE n \in RunningNow
    <3>1. n \in Node /\ node'[n].status = "running" /\ node'[n].generation = generation
      BY <2>1 DEF RunningNow, Running
    <3>2. node'[n] = node[n] \/ Changes(p, n)
      BY <1>6, <2>1, <2>3, <3>1, RowMove
    <3>3. ~Changes(p, n)
      BY <3>1 DEF Changes, Change, Interrupted
    <3> QED BY <3>1, <3>2, <3>3 DEF RunningNow, Running
  <2>4. CASE \E n \in Node : Starts(p, l, n)
    <3>1. PICK n \in Node : Starts(p, l, n)
      BY <2>4
    <3>2. ASSUME NEW m \in RunningNow', m # n PROVE m \in RunningNow
      <4>1. /\ m \in Node /\ node'[m] = node[m]
        BY <1>0, <3>1, <3>2, OneRow DEF RunningNow, Starts
      <4> QED BY <2>1, <4>1 DEF RunningNow, Running
    <3>3. RunningNow' \subseteq proc'[p].active
      BY <2>2, <3>1, <3>2 DEF Starts
    <3>4. /\ IsFiniteSet(proc'[p].active)
          /\ Cardinality(proc'[p].active) <= MaxConcurrency
      <4>1. proc'[p].active = proc[p].active \cup {n}
        BY <3>1 DEF Starts
      <4>2. IsFiniteSet(proc'[p].active)
        BY <4>1, ActiveFinite, FS_AddElement
      <4>3. Cardinality(proc'[p].active) <= MaxConcurrency
        BY <1>0 DEF LocalOK
      <4> QED BY <4>2, <4>3
    <3>5. Cardinality(RunningNow') <= MaxConcurrency
      <4>1. /\ Cardinality(RunningNow') <= Cardinality(proc'[p].active)
            /\ Cardinality(proc'[p].active) \in Nat /\ Cardinality(RunningNow') \in Nat
        BY <3>3, <3>4, FS_Subset, FS_CardinalityType
      <4> QED BY <3>4, <4>1, SchedulerAssumption
    <3> QED BY <2>1, <3>3, <3>5 DEF SlotsInv
  <2>5. CASE ~\E n \in Node : Starts(p, l, n)
    <3>1. RunningNow' \subseteq RunningNow
      <4>1. RunningNow' \subseteq Node
        BY DEF RunningNow
      <4> QED BY <2>3, <2>5, <4>1
    <3>2. Cardinality(RunningNow') <= MaxConcurrency
      BY <3>1, FewerRun DEF SlotsInv
    <3>3. proc'[p].pc \in Working => RunningNow' \subseteq proc'[p].active
      BY <1>6, <2>2, <3>1, WritesActive DEF RunningNow, Running
    <3> QED BY <2>1, <3>2, <3>3 DEF SlotsInv
  <2> QED BY <2>4, <2>5
<1> QED BY <1>2, <1>3, <1>4, <1>5, <1>6, Kinds DEF Leasing

-----------------------------------------------------------------------------
(* What the owner has read is still so.                                    *)

(* Labels at which nothing that was read matters.                          *)
LEMMA FreeView ==
  ASSUME NEW p,
         proc'[p].pc \notin Reading \cup {"validate", "spoiled", "check", "budget"},
         proc'[p].failed = {}
  PROVE  View(p)'
  BY DEF View, Reading

LEMMA SameView ==
  ASSUME NEW p, View(p), UNCHANGED <<node, join>>, proc'[p].pc = proc[p].pc,
         proc'[p].rows = proc[p].rows, proc'[p].todo = proc[p].todo,
         proc'[p].active = proc[p].active, proc'[p].failed = proc[p].failed
  PROVE  View(p)'
  BY DEF View, St, Owing, ToBlock

LEMMA QuietView ==
  ASSUME SchedTypeOK, NoneSkipped, NEW p \in Token, View(p), Quiet(p), LocalOK(p)'
  PROVE  View(p)'
<1>0. /\ proc \in [Token -> Local] /\ UNCHANGED <<node, join>>
      /\ proc'[p].pc # "after" => proc'[p].failed = {}
  BY QuietStep DEF SchedTypeOK, storeVars, tableVars, LocalOK
<1>1. CASE Undecided(p) \/ Audited(p) \/ Stall(p) \/ Crash(p)
           \/ \E l \in leases : l.token = p /\ (Conflict(p, l) \/ LoseLease(p, l))
  <2>1. PICK label \in {"release", "stalled", "conflict", "gone"} : Quit(p, label)
    BY <1>1 DEF Undecided, Audited, Stall, Crash, Conflict, LoseLease
  <2>2. proc'[p].pc = label
    BY <2>1, QuitFields
  <2> QED BY <1>0, <2>1, <2>2, FreeView DEF Reading
<1>2. CASE Start(p) \/ Validated(p)
  <2>1. proc'[p].pc \in {"call", "recover", "top"}
    BY <1>2, StartFields, ValidatedFields
  <2> QED BY <1>0, <2>1, FreeView DEF Reading
<1>3. CASE Dispatched(p) \/ NoneDone(p) \/ GivenUp(p)
  <2>1. PICK label \in {"pop", "expire", "top"} :
          Goto(p, label) \/ \E R, S : Pass(p, label, R, S)
    BY <1>3 DEF Dispatched, NoneDone, GivenUp
  <2>2. proc'[p].pc = label
    BY <2>1, PassFields, GotoFields
  <2> QED BY <1>0, <2>1, <2>2, FreeView DEF Reading
<1>4. CASE LeftFailed(p) \/ Again(p)
  <2>1. proc'[p].pc \in {"expire", "top"}
    BY <1>0, <1>4 DEF Local, LeftFailed, Again
  <2> QED BY <1>0, <2>1, FreeView DEF Reading
<1>5. CASE Interrupt(p)
  <2>1. /\ proc'[p].pc = proc[p].pc
        /\ proc'[p].rows = proc[p].rows
        /\ proc'[p].todo = proc[p].todo
        /\ proc'[p].active = proc[p].active
        /\ proc'[p].failed = proc[p].failed
    BY <1>0, <1>5 DEF Local, Interrupt
  <2> QED BY <1>0, <2>1, SameView
<1>6. CASE Look(p)
  <2>1. CASE Goto(p, "cancel")
    BY <1>0, <2>1, GotoFields, FreeView DEF Reading
  <2>2. CASE Pass(p, "reserve", Fresh, Reserves(p, Fresh))
    <3>1. /\ proc'[p].pc = "reserve" /\ proc'[p].rows = Fresh
          /\ proc'[p].todo = Reserves(p, Fresh)
      BY <2>2, PassFields
    <3>2. \A n \in Node : Fresh[n] = node'[n].status
      BY <1>0 DEF Fresh
    <3>3. \A n \in Reserves(p, Fresh) : Voter(n)
      BY DEF Reserves, Voter
    <3> QED BY <1>0, <3>1, <3>2, <3>3 DEF View, St, Reading
  <2> QED BY <1>6, <2>1, <2>2 DEF Look
<1>7. CASE Reserved(p)
  <2>1. PICK R : /\ Pass(p, "join", R, Joins)
                 /\ \/ R = Fresh
                    \/ R = proc[p].rows /\ \A n \in proc[p].active : R[n] # "pending"
    BY <1>7 DEF Reserved
  <2>2. proc'[p].pc = "join" /\ proc'[p].rows = R
    BY <2>1, PassFields
  <2>3. ASSUME NEW n \in Node
        PROVE  /\ R[n] \in {"pending", St(n)}
               /\ R[n] = "pending" => St(n) \in {"pending", "failed"}
    <3>1. CASE R = Fresh
      BY <3>1 DEF Fresh, St
    <3>2. CASE R = proc[p].rows /\ \A m \in proc[p].active : R[m] # "pending"
      BY <1>7, <3>2 DEF Reserved, At, View, Reading
    <3> QED BY <2>1, <3>1, <3>2
  <2> QED BY <1>0, <2>2, <2>3 DEF View, St, Reading
<1>8. CASE JoinsRecorded(p)
  <2>1. /\ proc[p].pc = "join" /\ proc'[p].pc = "block"
        /\ proc'[p].rows = proc[p].rows
        /\ proc'[p].todo = ToBlock(proc[p].rows)
    BY <1>8, PassFields DEF JoinsRecorded, At
  <2>2. \A n \in proc'[p].todo :
          /\ n \in Node /\ proc'[p].rows[n] = "pending"
          /\ IF n \in Joins THEN join'[n].decision = "failed"
             ELSE \E d \in Needs[n] : proc'[p].rows[d] \in Bad
    BY <1>0, <2>1 DEF ToBlock
  <2>3. \A n \in Node : /\ proc[p].rows[n] \in {"pending", St(n)}
                        /\ proc[p].rows[n] = "pending" => St(n) \in {"pending", "failed"}
    BY <2>1 DEF View, Reading
  <2>4. \A n \in ToBlock(proc[p].rows) : St(n) \in {"pending", "failed"}
    BY <2>3 DEF ToBlock
  <2> QED BY <1>0, <2>1, <2>2, <2>3, <2>4 DEF View, St, Reading, ToBlock
<1>9. CASE Blocked(p)
  <2>1. CASE Pass(p, "pop", Unread, {})
    BY <1>0, <2>1, PassFields, FreeView DEF Reading
  <2>2. CASE Pass(p, "dispatch", Fresh, {n \in Node : node[n].status = "pending"})
    <3>1. /\ proc'[p].pc = "dispatch" /\ proc'[p].rows = Fresh
          /\ \A n \in proc'[p].todo : node[n].status = "pending"
      BY <2>2, PassFields
    <3>2. \A n \in Node : Fresh[n] = node'[n].status
      BY <1>0 DEF Fresh
    <3> QED BY <1>0, <3>1, <3>2 DEF View, St, Reading
  <2> QED BY <1>9, <2>1, <2>2 DEF Blocked
<1>10. CASE Check(p)
  <2>1. /\ proc'[p].pc = "check" /\ proc'[p].todo = Owing
        /\ Settled /\ Verdict = "succeeded"
    BY <1>10, PassFields DEF Check
  <2>2. /\ \A n \in Node : St(n) \in Terminal \ {"uncertain", "cancelled"}
        /\ \A n \in Required : St(n) = "succeeded"
    BY <2>1, SchedulerAssumption DEF Settled, Verdict, NoneSkipped, St
  <2>3. Owing' = Owing
    BY <1>0 DEF Owing
  <2> QED BY <1>0, <2>1, <2>2, <2>3 DEF View, St, Reading
<1>11. CASE Exhaust(p)
  <2>1. proc'[p].pc = "budget" /\ proc'[p].todo = Pending
    BY <1>11, PassFields DEF Exhaust
  <2> QED BY <1>0, <2>1 DEF View, St, Reading, Pending
<1> QED BY <1>1, <1>2, <1>3, <1>4, <1>5, <1>6, <1>7, <1>8, <1>9, <1>10, <1>11
           DEF Quiet

LEMMA LeasingView ==
  ASSUME SchedTypeOK, EndedInv, SucceededInv, NEW p \in Token, Leasing(p),
         LocalOK(p)'
  PROVE  View(p)'
<1>0. /\ UNCHANGED <<node, join>>
      /\ proc'[p].pc # "after" => proc'[p].failed = {}
  BY LeasingStep DEF tableVars, LocalOK
<1>1. CASE Refused(p) \/ NotRenewed(p) \/ \E l \in leases : Leave(p, l)
  <2>1. PICK label \in {"release", "gone"} : Quit(p, label)
    BY <1>1 DEF Refused, NotRenewed, Leave
  <2> QED BY <1>0, <2>1, QuitFields, FreeView DEF Reading
<1>2. CASE Ask(p) \/ Renew(p) \/ \E l \in leases : Renewed(p, l)
  <2>1. PICK label \in {"acquire", "renew", "look"} : Goto(p, label)
    BY <1>2 DEF Ask, Renew, Renewed
  <2> QED BY <1>0, <2>1, GotoFields, FreeView DEF Reading
<1>3. CASE Acquire(p)
  <2>1. CASE Goto(p, "decide")
    BY <1>0, <2>1, GotoFields, FreeView DEF Reading
  <2>2. CASE Pass(p, "validate", Unread,
                  IF proc[p].stored = "succeeded" THEN Owing ELSE {})
    <3>1. /\ proc'[p].pc = "validate"
          /\ proc'[p].todo = IF proc[p].stored = "succeeded" THEN Owing ELSE {}
      BY <2>2, PassFields
    <3>2. ASSUME proc[p].stored = "succeeded", NEW n \in Owing
          PROVE  /\ n \in Exported \ (Required \ Corruptible)
                 /\ St(n) \in Terminal \ {"succeeded"}
      <4>1. WasEnded /\ WasSucceeded
        BY <3>2 DEF WasEnded, WasSucceeded
      <4>2. n \in Exported /\ n \in Node /\ St(n) # "succeeded"
        BY SchedulerAssumption DEF Owing, St
      <4> QED BY <4>1, <4>2 DEF EndedInv, SucceededInv
    <3> QED BY <1>0, <3>1, <3>2 DEF View, St, Reading
  <2> QED BY <1>3, <2>1, <2>2 DEF Acquire
<1> QED BY <1>1, <1>2, <1>3 DEF Leasing

(* A visited node leaves the pass.                                         *)
LEMMA VisitedFields ==
  ASSUME SchedTypeOK, NEW p \in Token, NEW n, Visited(p, n)
  PROVE  /\ proc'[p].pc = proc[p].pc
         /\ proc'[p].rows = proc[p].rows
         /\ proc'[p].todo = proc[p].todo \ {n}
         /\ proc'[p].active = proc[p].active
         /\ proc'[p].failed = proc[p].failed
         /\ proc'[p].stored = proc[p].stored
<1>1. proc \in [Token -> Local]
  BY DEF SchedTypeOK
<1> QED BY <1>1 DEF Local, Visited

LEMMA SpoilView ==
  ASSUME SchedTypeOK, IInv, NEW p \in Token, View(p), NEW l \in leases,
         Spoil(p, l) \/ Omit(p, l), LocalOK(p)'
  PROVE  View(p)'
<1>0. TypeOK /\ proc \in [Token -> Local]
  BY DEF SchedTypeOK
<1>1. /\ proc[p].pc \in {"validate", "check", "spoiled"}
      /\ proc'[p].pc = "spoiled"
      /\ proc'[p].todo \subseteq proc[p].todo
  BY <1>0 DEF Spoil, Omit, Local, Goto
<1>2. proc'[p].failed = {}
  BY <1>1 DEF LocalOK
<1>3. PICK m \in Node : InvalidateNode(l, m)
  BY LeastTodo, SchedulerAssumption DEF Spoil, Omit
<1>4. \A n \in proc[p].todo : n \in Node
  BY <1>0 DEF Local
<1>5. ASSUME NEW n \in proc[p].todo
      PROVE  /\ n \in Exported \ (Required \ Corruptible)
             /\ St(n) \in Terminal \ {"succeeded"}
  BY <1>1, <1>4 DEF View, Owing, St
<1>6. ASSUME NEW n \in proc[p].todo
      PROVE  node'[n].status \in Terminal \ {"succeeded"}
  <2>1. CASE n = m
    <3>1. node' = [node EXCEPT ![m].status = "failed"]
      BY <1>3 DEF InvalidateNode
    <3>2. node'[m].status = "failed"
      BY <1>0, <3>1, NewStatus
    <3> QED BY <2>1, <3>2 DEF Terminal, NodeStatus
  <2>2. CASE n # m
    <3>1. node'[n] = node[n]
      BY <1>0, <1>3, <1>4, <2>2, OneRow
    <3> QED BY <1>5, <3>1 DEF St
  <2> QED BY <2>1, <2>2
<1> QED BY <1>1, <1>2, <1>5, <1>6 DEF View, St, Reading

LEMMA LaunchView ==
  ASSUME SchedTypeOK, IInv, NEW p \in Token, View(p), NEW l \in leases,
         NEW m \in Node, NEW S, S \subseteq proc[p].todo \ {m},
         \/ Launch(p, l, m, S)
         \/ /\ StartAttempt(l, m)
            /\ proc' = [proc EXCEPT ![p].active = @ \cup {m}, ![p].todo = S],
         proc[p].pc \in {"reserve", "dispatch"}, LocalOK(p)'
  PROVE  View(p)'
<1>0. TypeOK /\ proc \in [Token -> Local]
  BY DEF SchedTypeOK
<1>1. /\ proc'[p].pc = proc[p].pc
      /\ proc'[p].rows = proc[p].rows
      /\ proc'[p].todo = S
      /\ proc[p].active \subseteq proc'[p].active
      /\ proc'[p].failed = {}
      /\ m \in proc'[p].active \/ RefuseAttempt(l, m)
  BY <1>0 DEF Local, Launch, LocalOK
<1>2. \A n \in Node \ {m} : node'[n] = node[n]
  BY <1>0, OneRow DEF Launch
<1>3. /\ St(m) = "pending"
      /\ m \in proc'[p].active \/ node'[m].status = "failed"
  BY <1>0, <1>1, NewStatus DEF Launch, StartAttempt, RefuseAttempt, St
<1>4. \A n \in S : n \in proc[p].todo /\ n \in Node /\ n # m
  BY <1>0 DEF Local
<1>5. ASSUME NEW n \in Node PROVE proc[p].rows[n] \in {"pending", node'[n].status}
  <2>1. proc[p].rows[n] \in {"pending", St(n)}
    BY DEF View, Reading
  <2> QED BY <1>2, <1>3, <2>1 DEF St
<1>6. ASSUME proc[p].pc = "reserve", NEW n \in Node, proc[p].rows[n] = "pending"
      PROVE  n \in proc'[p].active \/ node'[n].status \in {"pending", "failed"}
  <2>1. n \in proc[p].active \/ St(n) \in {"pending", "failed"}
    BY <1>6 DEF View
  <2> QED BY <1>1, <1>2, <1>3, <2>1 DEF St
<1>7. ASSUME proc[p].pc = "dispatch", NEW n \in S PROVE node'[n].status = "pending"
  BY <1>2, <1>4, <1>7 DEF View, St
<1>8. ASSUME proc[p].pc = "reserve", NEW n \in S PROVE Voter(n)
  BY <1>4, <1>8 DEF View
<1> QED BY <1>1, <1>5, <1>6, <1>7, <1>8 DEF View, St, Reading

LEMMA BlockView ==
  ASSUME SchedTypeOK, IInv, NEW p \in Token, View(p), NEW l \in leases,
         Block(p, l), LocalOK(p)'
  PROVE  View(p)'
<1>0. TypeOK /\ UNCHANGED join
  BY DEF SchedTypeOK, Block
<1>1. PICK m \in Node : /\ m \in proc[p].todo
                        /\ SetNodeStatus(l, m, "blocked", "dependency")
                        /\ Visited(p, m)
  BY LeastTodo DEF Block
<1>2. /\ proc[p].pc = "block" /\ proc'[p].pc = "block"
      /\ proc'[p].rows = proc[p].rows
      /\ proc'[p].todo = proc[p].todo \ {m}
      /\ proc'[p].failed = {}
  BY <1>1, VisitedFields DEF Block, At, LocalOK
<1>3. \A n \in Node \ {m} : node'[n] = node[n]
  BY <1>0, <1>1, OneRow
<1>4. /\ \A n \in proc[p].todo : n \in ToBlock(proc[p].rows) /\ St(n) \in {"pending", "failed"}
      /\ \A n \in Node : proc[p].rows[n] \in {"pending", St(n)}
  BY <1>2 DEF View, Reading
<1>5. \A n \in proc[p].todo :
        /\ n \in Node /\ proc[p].rows[n] = "pending"
        /\ IF n \in Joins THEN join'[n].decision = "failed"
           ELSE \E d \in Needs[n] : proc[p].rows[d] \in Bad
  BY <1>0, <1>4 DEF ToBlock
<1>6. \A n \in Node : proc[p].rows[n] \in {"pending", node'[n].status}
  BY <1>1, <1>3, <1>4, <1>5 DEF St
<1>7. \A n \in proc'[p].todo : node'[n].status \in {"pending", "failed"}
  BY <1>2, <1>3, <1>4, <1>5 DEF St
<1> QED BY <1>2, <1>5, <1>6, <1>7 DEF View, St, Reading, ToBlock

LEMMA WritesView ==
  ASSUME SchedTypeOK, IInv, NEW p \in Token, View(p), NEW l \in leases,
         Writes(p, l), LocalOK(p)'
  PROVE  View(p)'
<1>0. /\ TypeOK /\ proc \in [Token -> Local]
      /\ proc'[p].pc # "after" => proc'[p].failed = {}
  BY DEF SchedTypeOK, LocalOK
<1>1. CASE Decide(p, l) \/ FailSpoiled(p, l) \/ Park(p, l) \/ Conclude(p, l)
           \/ Succeed(p, l)
  <2>1. Quit(p, "release")
    BY <1>1 DEF Decide, FailSpoiled, Park, Conclude, Succeed
  <2> QED BY <1>0, <2>1, QuitFields, FreeView DEF Reading
<1>2. CASE Spoil(p, l) \/ Omit(p, l)
  BY <1>2, SpoilView
<1>3. CASE Recover(p, l)
  <2>1. PICK label \in {"park", "top"} : Goto(p, label)
    BY <1>3 DEF Recover
  <2> QED BY <1>0, <2>1, GotoFields, FreeView DEF Reading
<1>4. CASE Cancel(p, l)
  <2>1. proc'[p].pc = "audit" /\ proc'[p].rows = Fresh'
    BY <1>4, CancelFields
  <2>2. \A n \in Node : proc'[p].rows[n] = node'[n].status
    BY <2>1 DEF Fresh
  <2> QED BY <1>0, <2>1, <2>2 DEF View, St, Reading
<1>5. CASE Reserve(p, l)
  <2>1. PICK m \in Node : Launch(p, l, m, proc[p].todo \ {m})
    BY <1>5, LeastTodo DEF Reserve
  <2> QED BY <1>5, <2>1, LaunchView DEF Reserve, At
<1>6. CASE Dispatch(p, l)
  <2>1. PICK m \in Node :
          \/ Launch(p, l, m, {n \in proc[p].todo : n > m})
          \/ /\ StartAttempt(l, m)
             /\ proc' = [proc EXCEPT ![p].active = @ \cup {m}, ![p].todo = {}]
    BY <1>6, LeastFrontier DEF Dispatch
  <2>2. {n \in proc[p].todo : n > m} \subseteq proc[p].todo \ {m}
    BY SchedulerAssumption
  <2>3. {} \subseteq proc[p].todo \ {m}
    OBVIOUS
  <2> QED BY <1>6, <2>1, <2>2, <2>3, LaunchView DEF Dispatch, At
<1>7. CASE RecordJoin(p, l)
  <2>1. PICK n : Visited(p, n)
    BY <1>7 DEF RecordJoin
  <2>2. UNCHANGED node /\ proc[p].pc \in {"join", "audit"}
    BY <1>7 DEF RecordJoin, storeVars, tableVars
  <2>3. /\ proc'[p].pc = proc[p].pc
        /\ proc'[p].rows = proc[p].rows
    BY <2>1, VisitedFields
  <2> QED BY <1>0, <2>2, <2>3 DEF View, St, Reading
<1>8. CASE Block(p, l)
  BY <1>8, BlockView
<1>9. CASE PopAccepted(p, l)
  <2>1. proc'[p].pc = "expire"
    BY <1>9, AcceptedFields
  <2> QED BY <1>0, <2>1, FreeView DEF Reading
<1>10. CASE PopFailed(p, l)
  <2>1. PICK n \in Node : /\ FinishAttempt(l, n)
                          /\ proc'[p].pc = "after"
                          /\ proc'[p].failed = {n}
    BY <1>10, FailedFields
  <2>2. node'[n].status = "failed"
    BY <1>0, <2>1, SettledRow DEF FinishAttempt
  <2> QED BY <2>1, <2>2 DEF View, St, Reading
<1>11. CASE After(p, l)
  <2>1. proc'[p].pc = "expire"
    BY <1>0, <1>11 DEF Local, After
  <2> QED BY <1>0, <2>1, FreeView DEF Reading
<1>12. CASE GiveUp(p, l)
  <2>1. PICK m \in Node : /\ m \in proc[p].todo
                          /\ SetNodeStatus(l, m, "failed", "budget")
                          /\ Visited(p, m)
    BY <1>12, LeastTodo DEF GiveUp
  <2>2. /\ proc[p].pc = "budget" /\ proc'[p].pc = "budget"
        /\ proc'[p].todo = proc[p].todo \ {m}
    BY <1>12, <2>1, VisitedFields DEF GiveUp, At
  <2>3. \A n \in proc'[p].todo : node'[n] = node[n] /\ St(n) = "pending"
    <3>1. proc[p].todo \subseteq Node
      BY <1>0 DEF Local
    <3>2. \A n \in Node \ {m} : node'[n] = node[n]
      BY <1>0, <2>1, OneRow
    <3> QED BY <2>2, <3>1, <3>2 DEF View
  <2> QED BY <1>0, <2>2, <2>3 DEF View, St, Reading
<1> QED BY <1>1, <1>2, <1>3, <1>4, <1>5, <1>6, <1>7, <1>8, <1>9, <1>10, <1>11,
           <1>12 DEF Writes

LEMMA ViewStep ==
  ASSUME SchedTypeOK, IInv, LocalInv', NoneSkipped, EndedInv, SucceededInv,
         ViewInv, SchedNext
  PROVE  ViewInv'
<1>0. \A p \in Token : LocalOK(p)'
  BY DEF LocalInv, LocalOK, Early
<1>1. SUFFICES ASSUME NEW q \in Token, owner' = q PROVE View(q)'
  BY DEF ViewInv
<1>2. ASSUME owner = q, proc'[q] = proc[q], UNCHANGED <<node, join>>
      PROVE  View(q)'
  BY <1>2, SameView DEF ViewInv
<1>3. CASE Environment
  BY <1>1, <1>2, <1>3
     DEF Environment, Tick, RequestCancel, leaseVars, tableVars
<1>4. ASSUME NEW p \in Token, Quiet(p) PROVE View(q)'
  <2>1. UNCHANGED <<owner, node, join>>
    BY <1>4, QuietStep DEF storeVars, leaseVars, tableVars
  <2>2. CASE q = p
    BY <1>0, <1>1, <1>4, <2>1, <2>2, QuietView DEF ViewInv
  <2>3. CASE q # p
    BY <1>1, <1>2, <1>4, <2>1, <2>3, QuietOthers
  <2> QED BY <2>2, <2>3
<1>5. ASSUME NEW p \in Token, Leasing(p) PROVE View(q)'
  <2>1. CASE q = p
    BY <1>0, <1>5, <2>1, LeasingView
  <2>2. CASE q # p
    <3>1. /\ UNCHANGED <<node, join>>
          /\ owner' \in {owner, p, NoToken}
      BY <1>5, LeasingStep
         DEF tableVars, Leasing, Ask, Acquire, Refused, Renew, NotRenewed,
             Renewed, Leave, Call, AcquireLease, RefuseCall, RenewLease,
             ReleaseLease, leaseVars
    <3> QED BY <1>1, <1>2, <1>5, <2>2, <3>1, LeasingOthers, StoreAssumption
  <2> QED BY <2>1, <2>2
<1>6. ASSUME NEW p \in Token, NEW l \in leases, l.token = p, Writes(p, l)
      PROVE  View(q)'
  <2>1. q = p /\ View(p)
    BY <1>1, <1>6, WriterOwns, OwnView DEF leaseVars
  <2> QED BY <1>0, <1>6, <2>1, WritesView
<1> QED BY <1>3, <1>4, <1>5, <1>6, Kinds

-----------------------------------------------------------------------------
(* Runs that have ended.                                                   *)

LEMMA CancelAll ==
  ASSUME TypeOK, CancelUnfinished, NEW n \in Node
  PROVE  node'[n].status \in KeptByCancel \cup {"cancelled"}
<1>1. node'[n] = IF node[n].status \in KeptByCancel THEN node[n]
                 ELSE [node[n] EXCEPT !.status = "cancelled", !.active = 0,
                                      !.generation = 0]
  BY DEF CancelUnfinished
<1>2. node[n] \in NodeRow
  BY DEF TypeOK
<1> QED BY <1>1, <1>2 DEF NodeRow

(* The writes that end a run so that nothing is left to do.                *)
LEMMA EndingWrites ==
  ASSUME NEW p, NEW l, Writes(p, l), runStatus' \in {"succeeded", "cancelled"},
         runStatus' # runStatus
  PROVE  \/ Succeed(p, l) /\ runStatus' = "succeeded" /\ UNCHANGED node
         \/ Conclude(p, l) /\ runStatus' = "cancelled" /\ CancelUnfinished
         \/ Cancel(p, l) /\ runStatus' = "cancelled" /\ CancelUnfinished
<1>1. CASE Succeed(p, l)
  BY <1>1 DEF Succeed, FinishRun
<1>2. CASE Conclude(p, l) \/ Cancel(p, l)
  <2>1. Conclude(p, l) => Verdict # "succeeded"
    BY DEF Conclude
  <2>2. PICK s : FinishRun(l, s) /\ s # "succeeded"
    BY <1>2, <2>1 DEF Conclude, Cancel
  <2> QED BY <1>2, <2>2 DEF FinishRun
<1>3. CASE FailSpoiled(p, l) \/ Park(p, l)
  BY <1>3 DEF FailSpoiled, Park, FinishRun
<1>4. CASE Decide(p, l) \/ Recover(p, l)
  BY <1>4 DEF Decide, Recover, ReconcileNode, RecoverInterrupted
<1>5. CASE Spoil(p, l) \/ Omit(p, l) \/ Reserve(p, l) \/ RecordJoin(p, l)
           \/ Block(p, l) \/ Dispatch(p, l) \/ PopAccepted(p, l)
           \/ PopFailed(p, l) \/ After(p, l) \/ GiveUp(p, l)
  <2>1. UNCHANGED runStatus
    BY <1>5 DEF Spoil, Omit, Reserve, RecordJoin, Block, Dispatch, PopAccepted,
                PopFailed, After, GiveUp, Launch, InvalidateNode, StartAttempt,
                RefuseAttempt, SetNodeStatus, SucceedAttempt, FinishAttempt,
                storeVars, runVars
  <2> QED BY <2>1
<1> QED BY <1>1, <1>2, <1>3, <1>4, <1>5 DEF Writes

(* What an invocation remembers of the run row was written there.          *)
LEMMA QuietStored ==
  ASSUME SchedTypeOK, NEW p \in Token, Quiet(p)
  PROVE  proc'[p].stored \in {proc[p].stored, runStatus, "created"}
<1>0. proc \in [Token -> Local]
  BY DEF SchedTypeOK
<1>1. CASE Undecided(p) \/ Audited(p) \/ Stall(p) \/ Crash(p)
           \/ \E l \in leases : l.token = p /\ (Conflict(p, l) \/ LoseLease(p, l))
  <2>1. PICK label : Quit(p, label)
    BY <1>1 DEF Undecided, Audited, Stall, Crash, Conflict, LoseLease
  <2> QED BY <2>1, QuitFields
<1>2. CASE Start(p) \/ Validated(p)
  BY <1>2, StartFields, ValidatedFields
<1>3. CASE Look(p) \/ Reserved(p) \/ JoinsRecorded(p) \/ Blocked(p)
           \/ Dispatched(p) \/ Check(p) \/ Exhaust(p) \/ NoneDone(p)
           \/ GivenUp(p)
  <2>1. PICK label : Goto(p, label) \/ \E R, S : Pass(p, label, R, S)
    BY <1>3 DEF Look, Reserved, JoinsRecorded, Blocked, Dispatched, Check,
                Exhaust, NoneDone, GivenUp
  <2> QED BY <2>1, PassFields, GotoFields
<1>4. CASE LeftFailed(p) \/ Again(p) \/ Interrupt(p)
  BY <1>0, <1>4 DEF Local, LeftFailed, Again, Interrupt
<1> QED BY <1>1, <1>2, <1>3, <1>4 DEF Quiet

LEMMA LeasingStored ==
  ASSUME SchedTypeOK, NEW p \in Token, Leasing(p)
  PROVE  proc'[p].stored \in {proc[p].stored, "created"}
<1>1. CASE Refused(p) \/ NotRenewed(p) \/ \E l \in leases : Leave(p, l)
  <2>1. PICK label : Quit(p, label)
    BY <1>1 DEF Refused, NotRenewed, Leave
  <2> QED BY <2>1, QuitFields
<1>2. CASE Ask(p) \/ Acquire(p) \/ Renew(p) \/ \E l \in leases : Renewed(p, l)
  <2>1. PICK label : Goto(p, label) \/ \E R, S : Pass(p, label, R, S)
    BY <1>2 DEF Ask, Acquire, Renew, Renewed
  <2> QED BY <2>1, PassFields, GotoFields
<1> QED BY <1>1, <1>2 DEF Leasing

LEMMA WritesStored ==
  ASSUME SchedTypeOK, NEW p \in Token, NEW l \in leases, Writes(p, l)
  PROVE  proc'[p].stored \in {proc[p].stored, "created"}
<1>0. proc \in [Token -> Local]
  BY DEF SchedTypeOK
<1>1. CASE Decide(p, l) \/ FailSpoiled(p, l) \/ Park(p, l) \/ Conclude(p, l)
           \/ Succeed(p, l)
  <2>1. Quit(p, "release")
    BY <1>1 DEF Decide, FailSpoiled, Park, Conclude, Succeed
  <2> QED BY <2>1, QuitFields
<1>2. CASE Spoil(p, l) \/ Omit(p, l) \/ Recover(p, l) \/ RecordJoin(p, l)
           \/ Block(p, l) \/ GiveUp(p, l) \/ After(p, l)
  BY <1>0, <1>2
     DEF Local, Spoil, Omit, Recover, RecordJoin, Block, GiveUp, After, Goto,
         Visited
<1>3. CASE Cancel(p, l)
  BY <1>3, CancelFields
<1>4. CASE Reserve(p, l) \/ Dispatch(p, l)
  <2>1. PICK n :
          \E S : \/ proc' = [proc EXCEPT ![p].active = @ \cup {n}, ![p].todo = S]
                 \/ proc' = [proc EXCEPT ![p].todo = S]
    BY <1>4 DEF Reserve, Dispatch, Launch
  <2> QED BY <1>0, <2>1 DEF Local
<1>5. CASE PopAccepted(p, l) \/ PopFailed(p, l)
  BY <1>5, AcceptedFields, FailedFields
<1> QED BY <1>1, <1>2, <1>3, <1>4, <1>5 DEF Writes

LEMMA StoredStep ==
  ASSUME SchedTypeOK, SchedNext, NEW q \in Token
  PROVE  proc'[q].stored \in {proc[q].stored, runStatus, "created"}
<1>1. CASE Environment
  BY <1>1 DEF Environment
<1>2. ASSUME NEW p \in Token, Quiet(p)
      PROVE  proc'[q].stored \in {proc[q].stored, runStatus, "created"}
  BY <1>2, QuietStored, QuietOthers
<1>3. ASSUME NEW p \in Token, Leasing(p)
      PROVE  proc'[q].stored \in {proc[q].stored, runStatus, "created"}
  BY <1>3, LeasingStored, LeasingOthers
<1>4. ASSUME NEW p \in Token, NEW l \in leases, Writes(p, l)
      PROVE  proc'[q].stored \in {proc[q].stored, runStatus, "created"}
  BY <1>4, WritesStored, WritesOthers
<1> QED BY <1>1, <1>2, <1>3, <1>4, Kinds

(* So a run that has ended has ended by a write.                           *)
LEMMA EndedBy ==
  ASSUME SchedTypeOK, SchedNext, WasEnded', ~WasEnded
  PROVE  \E p \in Token : \E l \in leases :
           /\ l.token = p
           /\ Writes(p, l)
           /\ runStatus' \in {"succeeded", "cancelled"}
           /\ runStatus' # runStatus
<1>1. runStatus' \in {"succeeded", "cancelled"} /\ runStatus' # runStatus
  BY StoredStep DEF WasEnded
<1> QED BY <1>1, StepKinds

LEMMA SucceededBy ==
  ASSUME SchedTypeOK, SchedNext, WasSucceeded', ~WasSucceeded
  PROVE  \E p \in Token : \E l \in leases :
           l.token = p /\ Succeed(p, l) /\ UNCHANGED node
<1>1. runStatus' = "succeeded" /\ runStatus' # runStatus
  BY StoredStep DEF WasSucceeded
<1>2. PICK p \in Token, l \in leases : l.token = p /\ Writes(p, l)
  BY <1>1, StepKinds
<1> QED BY <1>1, <1>2, EndingWrites

(* A node that succeeded is touched only if its artifact may be spoiled.   *)
LEMMA SucceededStays ==
  ASSUME SchedTypeOK, IInv, ViewInv, SchedNext, NEW n \in Node \ Corruptible,
         St(n) = "succeeded"
  PROVE  node'[n] = node[n]
<1>1. ASSUME NEW p \in Token, NEW l \in leases, l.token = p, Writes(p, l)
      PROVE  node'[n] = node[n]
  <2>1. ~Starts(p, l, n)
    BY DEF Starts, StartAttempt, St
  <2>2. ~Changes(p, n)
    BY DEF Changes, Change, KeptByCancel
  <2> QED BY <1>1, <2>1, <2>2, OwnView, RowMove
<1> QED BY <1>1, StepKinds

LEMMA SucceededStep ==
  ASSUME SchedTypeOK, IInv, ViewInv, SucceededInv, SchedNext
  PROVE  SucceededInv'
<1>1. SUFFICES ASSUME WasSucceeded', NEW n \in Required \ Corruptible
               PROVE  node'[n].status = "succeeded"
  BY DEF SucceededInv, St
<1>2. n \in Node \ Corruptible
  BY SchedulerAssumption
<1>3. CASE WasSucceeded
  BY <1>2, <1>3, SucceededStays DEF SucceededInv, St
<1>4. CASE ~WasSucceeded
  <2>1. PICK p \in Token, l \in leases :
          l.token = p /\ Succeed(p, l) /\ UNCHANGED node
    BY <1>1, <1>4, SucceededBy
  <2>2. View(p)
    BY <2>1, OwnView DEF Writes
  <2> QED BY <2>1, <2>2 DEF Succeed, At, View, St
<1> QED BY <1>3, <1>4

(* The rows of a run that has ended.                                       *)
LEMMA EndedRows ==
  ASSUME SchedTypeOK, IInv, ViewInv, EndedInv, SchedNext, WasEnded', NEW n \in Node
  PROVE  node'[n].status \in Terminal \ {"uncertain"}
<1>1. CASE WasEnded
  <2>1. St(n) \in Terminal \ {"uncertain"}
    BY <1>1 DEF EndedInv
  <2>2. ASSUME NEW p \in Token, NEW l \in leases, l.token = p, Writes(p, l)
        PROVE  node'[n].status \in Terminal \ {"uncertain"}
    <3>1. proc[p].failed = {}
      BY <1>1, <2>2, WriterOwns DEF EndedInv
    <3>2. ~Starts(p, l, n)
      BY <2>1 DEF Starts, StartAttempt, St, Terminal
    <3>3. Changes(p, n) => node'[n].status \in {"failed", "blocked", "cancelled"}
      BY <2>1, <3>1 DEF Changes, Change, Terminal
    <3>4. {"failed", "blocked", "cancelled"} \subseteq Terminal \ {"uncertain"}
      BY DEF Terminal, NodeStatus
    <3> QED BY <2>1, <2>2, <3>2, <3>3, <3>4, OwnView, RowMove DEF St
  <2> QED BY <2>1, <2>2, StepKinds DEF St
<1>2. CASE ~WasEnded
  <2>1. PICK p \in Token, l \in leases :
          /\ l.token = p /\ Writes(p, l)
          /\ runStatus' \in {"succeeded", "cancelled"} /\ runStatus' # runStatus
    BY <1>2, EndedBy
  <2>2. CASE Succeed(p, l) /\ UNCHANGED node
    <3>1. View(p) /\ proc[p].pc = "check"
      BY <2>1, <2>2, OwnView DEF Succeed, At
    <3> QED BY <2>2, <3>1 DEF View, St
  <2>3. CASE CancelUnfinished
    <3>1. node'[n].status \in KeptByCancel \cup {"cancelled"}
      BY <2>3, CancelAll DEF SchedTypeOK
    <3> QED BY <3>1 DEF KeptByCancel, Terminal, NodeStatus
  <2> QED BY <2>1, <2>2, <2>3, EndingWrites
<1> QED BY <1>1, <1>2

(* What the owner holds of it.                                             *)
Rested(p) == /\ proc[p].failed = {}
             /\ proc[p].pc \in {"reserve", "join", "block"} =>
                  \A n \in Node : proc[p].rows[n] # "pending"

LEMMA QuietRested ==
  ASSUME SchedTypeOK, NEW p \in Token, Quiet(p), LocalOK(p)', Rested(p),
         \A n \in Node : St(n) # "pending"
  PROVE  Rested(p)'
<1>0. /\ proc \in [Token -> Local]
      /\ proc'[p].pc # "after" => proc'[p].failed = {}
      /\ \A n \in Node : Fresh[n] # "pending"
  BY DEF SchedTypeOK, LocalOK, Fresh, St
<1>1. CASE Undecided(p) \/ Audited(p) \/ Stall(p) \/ Crash(p)
           \/ \E l \in leases : l.token = p /\ (Conflict(p, l) \/ LoseLease(p, l))
  <2>1. PICK label \in {"release", "stalled", "conflict", "gone"} : Quit(p, label)
    BY <1>1 DEF Undecided, Audited, Stall, Crash, Conflict, LoseLease
  <2> QED BY <2>1, QuitFields DEF Rested
<1>2. CASE Start(p) \/ Validated(p)
  BY <1>0, <1>2, StartFields, ValidatedFields DEF Rested
<1>3. CASE Blocked(p) \/ Dispatched(p) \/ Check(p) \/ Exhaust(p) \/ NoneDone(p)
           \/ GivenUp(p)
  <2>1. PICK label \in {"pop", "dispatch", "check", "budget", "expire", "top"} :
          Goto(p, label) \/ \E R, S : Pass(p, label, R, S)
    BY <1>3 DEF Blocked, Dispatched, Check, Exhaust, NoneDone, GivenUp
  <2>2. proc'[p].pc = label
    BY <2>1, PassFields, GotoFields
  <2> QED BY <1>0, <2>1, <2>2 DEF Rested
<1>4. CASE Look(p) \/ Reserved(p) \/ JoinsRecorded(p)
  <2>1. PICK label \in {"cancel", "reserve", "join", "block"} :
          \/ Goto(p, label) /\ label = "cancel"
          \/ /\ label \in {"reserve", "join", "block"}
             /\ \E R \in {Fresh, proc[p].rows} : \E S :
                  /\ Pass(p, label, R, S)
                  /\ R = Fresh \/ proc[p].pc \in {"reserve", "join"}
    BY <1>4 DEF Look, Reserved, JoinsRecorded, At
  <2>2. CASE Goto(p, label) /\ label = "cancel"
    BY <1>0, <2>2, GotoFields DEF Rested
  <2>3. ASSUME label \in {"reserve", "join", "block"},
               NEW R \in {Fresh, proc[p].rows}, NEW S, Pass(p, label, R, S),
               R = Fresh \/ proc[p].pc \in {"reserve", "join"}
        PROVE  Rested(p)'
    <3>1. proc'[p].pc = label /\ proc'[p].rows = R
      BY <2>3, PassFields
    <3>2. \A n \in Node : R[n] # "pending"
      BY <1>0, <2>3 DEF Rested
    <3> QED BY <1>0, <2>3, <3>1, <3>2 DEF Rested
  <2> QED BY <2>1, <2>2, <2>3
<1>5. CASE LeftFailed(p) \/ Again(p) \/ Interrupt(p)
  <2>1. /\ proc'[p].rows = proc[p].rows
        /\ proc'[p].pc \in {proc[p].pc, "expire", "top"}
        /\ proc'[p].failed \in {proc[p].failed, {}}
    BY <1>0, <1>5 DEF Local, LeftFailed, Again, Interrupt
  <2> QED BY <2>1 DEF Rested
<1> QED BY <1>1, <1>2, <1>3, <1>4, <1>5 DEF Quiet

LEMMA LeasingRested ==
  ASSUME SchedTypeOK, NEW p \in Token, Leasing(p), LocalOK(p)'
  PROVE  Rested(p)'
<1>1. CASE Refused(p) \/ NotRenewed(p) \/ \E l \in leases : Leave(p, l)
  <2>1. PICK label \in {"release", "gone"} : Quit(p, label)
    BY <1>1 DEF Refused, NotRenewed, Leave
  <2> QED BY <2>1, QuitFields DEF Rested
<1>2. CASE Ask(p) \/ Acquire(p) \/ Renew(p) \/ \E l \in leases : Renewed(p, l)
  <2>1. PICK label \in {"acquire", "decide", "validate", "renew", "look"} :
          Goto(p, label) \/ \E R, S : Pass(p, label, R, S)
    BY <1>2 DEF Ask, Acquire, Renew, Renewed
  <2>2. proc'[p].pc = label
    BY <2>1, PassFields, GotoFields
  <2> QED BY <2>1, <2>2 DEF Rested, LocalOK
<1> QED BY <1>1, <1>2 DEF Leasing

LEMMA WritesRested ==
  ASSUME SchedTypeOK, NEW p \in Token, NEW l \in leases, Writes(p, l),
         LocalOK(p)', Rested(p), \A n \in Node : ~Running(n)
  PROVE  Rested(p)'
<1>0. /\ proc \in [Token -> Local]
      /\ proc'[p].pc # "after" => proc'[p].failed = {}
  BY DEF SchedTypeOK, LocalOK
<1>1. CASE Decide(p, l) \/ FailSpoiled(p, l) \/ Park(p, l) \/ Conclude(p, l)
           \/ Succeed(p, l)
  <2>1. Quit(p, "release")
    BY <1>1 DEF Decide, FailSpoiled, Park, Conclude, Succeed
  <2> QED BY <2>1, QuitFields DEF Rested
<1>2. CASE Spoil(p, l) \/ Omit(p, l) \/ Recover(p, l) \/ After(p, l) \/ Cancel(p, l)
  <2>1. Recover(p, l) => proc'[p].pc \in {"park", "top"}
    BY GotoFields DEF Recover
  <2>2. Cancel(p, l) => proc'[p].pc = "audit"
    BY CancelFields
  <2>3. Spoil(p, l) \/ Omit(p, l) \/ After(p, l) => proc'[p].pc \in {"spoiled", "expire"}
    BY <1>0 DEF Local, Spoil, Omit, After, Goto
  <2> QED BY <1>0, <1>2, <2>1, <2>2, <2>3 DEF Rested
<1>3. CASE RecordJoin(p, l) \/ Block(p, l) \/ GiveUp(p, l)
  <2>1. PICK n : Visited(p, n)
    BY <1>3 DEF RecordJoin, Block, GiveUp
  <2> QED BY <2>1, VisitedFields DEF Rested
<1>4. CASE Reserve(p, l) \/ Dispatch(p, l)
  <2>1. PICK n :
          \E S : \/ proc' = [proc EXCEPT ![p].active = @ \cup {n}, ![p].todo = S]
                 \/ proc' = [proc EXCEPT ![p].todo = S]
    BY <1>4 DEF Reserve, Dispatch, Launch
  <2>2. /\ proc'[p].pc = proc[p].pc /\ proc'[p].rows = proc[p].rows
        /\ proc'[p].failed = proc[p].failed
    BY <1>0, <2>1 DEF Local
  <2> QED BY <2>2 DEF Rested
<1>5. CASE PopAccepted(p, l)
  BY <1>0, <1>5, AcceptedFields DEF Rested
<1>6. CASE PopFailed(p, l)
  BY <1>6, FailedFields DEF FinishAttempt, ActiveAttempt
<1> QED BY <1>1, <1>2, <1>3, <1>4, <1>5, <1>6 DEF Writes

LEMMA EndedStep ==
  ASSUME SchedTypeOK, IInv, LocalInv', ViewInv, EndedInv, SchedNext
  PROVE  EndedInv'
<1>0. \A p \in Token : LocalOK(p)'
  BY DEF LocalInv, LocalOK, Early
<1>1. SUFFICES ASSUME WasEnded', NEW q \in Token, owner' = q PROVE Rested(q)'
  BY EndedRows DEF EndedInv, Rested, St
<1>2. CASE WasEnded
  <2>1. /\ \A n \in Node : St(n) # "pending" /\ ~Running(n)
        /\ owner = q => Rested(q)
    BY <1>2 DEF EndedInv, Rested, St, Running, Terminal
  <2>2. owner = q /\ proc'[q] = proc[q] => Rested(q)'
    BY <2>1 DEF Rested
  <2>3. CASE Environment
    BY <1>1, <2>2, <2>3 DEF Environment, Tick, RequestCancel, leaseVars
  <2>4. ASSUME NEW p \in Token, Quiet(p) PROVE Rested(q)'
    <3>1. owner = q
      BY <1>1, <2>4, QuietStep DEF storeVars, leaseVars
    <3> QED BY <1>0, <2>1, <2>2, <2>4, <3>1, QuietRested, QuietOthers
  <2>5. ASSUME NEW p \in Token, Leasing(p) PROVE Rested(q)'
    <3>1. owner' \in {owner, p, NoToken}
      BY <2>5
         DEF Leasing, Ask, Acquire, Refused, Renew, NotRenewed, Renewed, Leave,
             Call, AcquireLease, RefuseCall, RenewLease, ReleaseLease, leaseVars
    <3> QED BY <1>0, <1>1, <2>2, <2>5, <3>1, LeasingRested, LeasingOthers,
               StoreAssumption
  <2>6. ASSUME NEW p \in Token, NEW l \in leases, l.token = p, Writes(p, l)
        PROVE  Rested(q)'
    <3>1. p = q /\ owner = q
      BY <1>1, <2>6, WriterOwns DEF leaseVars
    <3> QED BY <1>0, <2>1, <2>6, <3>1, WritesRested
  <2> QED BY <2>3, <2>4, <2>5, <2>6, Kinds
<1>3. CASE ~WasEnded
  <2>1. PICK p \in Token, l \in leases :
          /\ l.token = p /\ Writes(p, l)
          /\ runStatus' \in {"succeeded", "cancelled"} /\ runStatus' # runStatus
    BY <1>1, <1>3, EndedBy
  <2>2. p = q
    BY <1>1, <2>1, WriterOwns DEF leaseVars
  <2>3. CASE Succeed(p, l) \/ Conclude(p, l)
    <3>1. Quit(p, "release")
      BY <2>3 DEF Succeed, Conclude
    <3> QED BY <2>2, <3>1, QuitFields DEF Rested
  <2>4. CASE Cancel(p, l)
    BY <1>0, <2>2, <2>4, CancelFields DEF Rested, LocalOK
  <2> QED BY <2>1, <2>3, <2>4, EndingWrites
<1> QED BY <1>2, <1>3

-----------------------------------------------------------------------------
(* A cancelled run.                                                        *)

Frozen == Node \ (Corruptible \cup (Exported \ Required))

LEMMA CancelledRow ==
  ASSUME SchedTypeOK, IInv, ViewInv, CancelledInv, SchedNext,
         runStatus = "cancelled", NEW n \in Frozen
  PROVE  node'[n] = node[n]
<1>1. n \in Node /\ St(n) \in KeptByCancel \cup {"cancelled"}
  BY DEF CancelledInv, Frozen
<1>2. ASSUME NEW p \in Token, NEW l \in leases, l.token = p, Writes(p, l)
      PROVE  node'[n] = node[n]
  <2>1. View(p)
    BY <1>2, OwnView
  <2>2. ~Starts(p, l, n)
    BY <1>1 DEF Starts, StartAttempt, St, KeptByCancel
  <2>3. ASSUME proc[p].pc \in {"validate", "check", "spoiled"}, n \in proc[p].todo
        PROVE  n \in Exported \ Required \/ n \in Corruptible
    BY <1>1, <2>1, <2>3, SchedulerAssumption DEF View, Owing, St
  <2>4. ~Changes(p, n)
    BY <1>1, <2>3 DEF Changes, Change, KeptByCancel, Frozen
  <2> QED BY <1>1, <1>2, <2>1, <2>2, <2>4, RowMove
<1> QED BY <1>2, StepKinds

LEMMA CancelledStep ==
  ASSUME SchedTypeOK, IInv, ViewInv, CancelledInv, SchedNext PROVE CancelledInv'
<1>1. SUFFICES ASSUME runStatus' = "cancelled", NEW n \in Frozen
               PROVE  node'[n].status \in KeptByCancel \cup {"cancelled"}
  BY DEF CancelledInv, St, Frozen
<1>2. CASE runStatus = "cancelled"
  BY <1>2, CancelledRow DEF CancelledInv, St, Frozen
<1>3. CASE runStatus # "cancelled"
  <2>1. PICK p \in Token, l \in leases : l.token = p /\ Writes(p, l)
    BY <1>1, <1>3, StepKinds
  <2>2. CancelUnfinished
    BY <1>1, <1>3, <2>1, EndingWrites
  <2> QED BY <2>2, CancelAll DEF SchedTypeOK, Frozen
<1> QED BY <1>2, <1>3

LEMMA SuccessStep ==
  ASSUME SchedTypeOK, IInv, ViewInv, SuccessMeansAll, SchedNext,
         IInv', EndedInv', SucceededInv'
  PROVE  SuccessMeansAll'
<1>1. SUFFICES ASSUME runStatus' = "succeeded" PROVE SuccessMeansAll'
  BY DEF SuccessMeansAll
<1>2. \A n \in Node : node'[n].status \in Terminal
  BY <1>1 DEF EndedInv, WasEnded, St
<1>3. \A n \in Required \ Corruptible : node'[n].status = "succeeded"
  BY <1>1 DEF SucceededInv, WasSucceeded, St
<1>4. ASSUME NEW n \in Exported \ Corruptible PROVE node'[n].status = "succeeded"
  <2>1. n \in Node \ Corruptible
    BY SchedulerAssumption
  <2>2. CASE runStatus = "succeeded"
    BY <2>1, <2>2, SucceededStays DEF SuccessMeansAll, St
  <2>3. CASE runStatus # "succeeded"
    <3>1. PICK p \in Token, l \in leases : l.token = p /\ Writes(p, l)
      BY <1>1, <2>3, StepKinds
    <3>2. Succeed(p, l) /\ UNCHANGED node /\ View(p)
      BY <1>1, <2>3, <3>1, EndingWrites, OwnView
    <3>3. Owing = {}
      BY <3>2 DEF Succeed, At, View
    <3> QED BY <3>2, <3>3 DEF Owing
  <2> QED BY <2>2, <2>3
<1>5. \A n \in Node : node'[n].status = "succeeded" => artifact'[n] # 0
  BY DEF IInv, AcceptedEvidence
<1> QED BY <1>2, <1>3, <1>4, <1>5, SchedulerAssumption
        DEF SuccessMeansAll, Settled

-----------------------------------------------------------------------------
(* Joins.                                                                  *)

LEMMA QuietFailed ==
  ASSUME SchedTypeOK, NEW p \in Token, Quiet(p)
  PROVE  proc'[p].failed \in {proc[p].failed, {}}
<1>0. proc \in [Token -> Local]
  BY DEF SchedTypeOK
<1>1. CASE Undecided(p) \/ Audited(p) \/ Stall(p) \/ Crash(p)
           \/ \E l \in leases : l.token = p /\ (Conflict(p, l) \/ LoseLease(p, l))
  <2>1. PICK label : Quit(p, label)
    BY <1>1 DEF Undecided, Audited, Stall, Crash, Conflict, LoseLease
  <2> QED BY <2>1, QuitFields
<1>2. CASE Start(p) \/ Validated(p)
  BY <1>2, StartFields, ValidatedFields
<1>3. CASE Look(p) \/ Reserved(p) \/ JoinsRecorded(p) \/ Blocked(p)
           \/ Dispatched(p) \/ Check(p) \/ Exhaust(p) \/ NoneDone(p)
           \/ GivenUp(p)
  <2>1. PICK label : Goto(p, label) \/ \E R, S : Pass(p, label, R, S)
    BY <1>3 DEF Look, Reserved, JoinsRecorded, Blocked, Dispatched, Check,
                Exhaust, NoneDone, GivenUp
  <2> QED BY <2>1, PassFields, GotoFields
<1>4. CASE LeftFailed(p) \/ Again(p) \/ Interrupt(p)
  BY <1>0, <1>4 DEF Local, LeftFailed, Again, Interrupt
<1> QED BY <1>1, <1>2, <1>3, <1>4 DEF Quiet

LEMMA WritesFailed ==
  ASSUME SchedTypeOK, NEW p \in Token, NEW l \in leases, Writes(p, l)
  PROVE  \/ proc'[p].failed \subseteq proc[p].failed
         \/ \E n \in Node : Running(n) /\ proc'[p].failed = {n}
<1>0. proc \in [Token -> Local]
  BY DEF SchedTypeOK
<1>1. CASE Decide(p, l) \/ FailSpoiled(p, l) \/ Park(p, l) \/ Conclude(p, l)
           \/ Succeed(p, l)
  <2>1. Quit(p, "release")
    BY <1>1 DEF Decide, FailSpoiled, Park, Conclude, Succeed
  <2>2. proc'[p].failed = {}
    BY <2>1, QuitFields
  <2> QED BY <2>2
<1>2. CASE Spoil(p, l) \/ Omit(p, l) \/ Recover(p, l) \/ RecordJoin(p, l)
           \/ Block(p, l) \/ GiveUp(p, l) \/ After(p, l)
  <2>1. proc'[p].failed \in {proc[p].failed, {}}
    BY <1>0, <1>2
       DEF Local, Spoil, Omit, Recover, RecordJoin, Block, GiveUp, After, Goto,
           Visited
  <2> QED BY <2>1
<1>3. CASE Cancel(p, l)
  BY <1>3, CancelFields
<1>4. CASE Reserve(p, l) \/ Dispatch(p, l)
  <2>1. PICK n :
          \E S : \/ proc' = [proc EXCEPT ![p].active = @ \cup {n}, ![p].todo = S]
                 \/ proc' = [proc EXCEPT ![p].todo = S]
    BY <1>4 DEF Reserve, Dispatch, Launch
  <2>2. proc'[p].failed = proc[p].failed
    BY <1>0, <2>1 DEF Local
  <2> QED BY <2>2
<1>5. CASE PopAccepted(p, l)
  BY <1>5, AcceptedFields
<1>6. CASE PopFailed(p, l)
  BY <1>6, FailedFields DEF FinishAttempt, ActiveAttempt
<1> QED BY <1>1, <1>2, <1>3, <1>4, <1>5, <1>6 DEF Writes

(* Without an operator's retry, who cannot pass any more never will.       *)
LEMMA MayPassStays ==
  ASSUME SchedTypeOK, IInv, LocalInv', ViewInv, SchedNext, NEW d \in Node,
         granted'[d] = 0, MayPass(d)'
  PROVE  MayPass(d)
<1>0. /\ granted[d] \in Nat /\ \A p \in Token : LocalOK(p)'
  BY DEF SchedTypeOK, LocalInv, LocalOK, Early
<1>1. CASE node'[d] = node[d] /\ node'[d].status \in {"pending", "running", "succeeded"}
  BY <1>1 DEF MayPass, St
<1>2. CASE node'[d] = node[d] /\ \E q \in Token : owner' = q /\ d \in proc'[q].failed
  <2>1. PICK q \in Token : owner' = q /\ d \in proc'[q].failed
    BY <1>2
  <2>2. owner = q /\ d \in proc[q].failed => MayPass(d)
    BY DEF MayPass
  <2>3. CASE Environment
    BY <2>1, <2>2, <2>3 DEF Environment, Tick, RequestCancel, leaseVars
  <2>4. ASSUME NEW p \in Token, Quiet(p) PROVE MayPass(d)
    <3>1. owner = q
      BY <2>1, <2>4, QuietStep DEF storeVars, leaseVars
    <3> QED BY <2>1, <2>2, <2>4, <3>1, QuietFailed, QuietOthers
  <2>5. ASSUME NEW p \in Token, Leasing(p) PROVE MayPass(d)
    <3>1. owner' \in {owner, p, NoToken}
      BY <2>5
         DEF Leasing, Ask, Acquire, Refused, Renew, NotRenewed, Renewed, Leave,
             Call, AcquireLease, RefuseCall, RenewLease, ReleaseLease, leaseVars
    <3>2. proc'[p].failed = {}
      BY <1>0, <2>5, LeasingRested DEF Rested
    <3> QED BY <2>1, <2>2, <2>5, <3>1, <3>2, LeasingOthers, StoreAssumption
  <2>6. ASSUME NEW p \in Token, NEW l \in leases, l.token = p, Writes(p, l)
        PROVE  MayPass(d)
    <3>1. p = q /\ owner = q
      BY <2>1, <2>6, WriterOwns DEF leaseVars
    <3>2. CASE proc'[p].failed \subseteq proc[p].failed
      BY <2>1, <2>2, <3>1, <3>2
    <3>3. CASE \E n \in Node : Running(n) /\ proc'[p].failed = {n}
      BY <2>1, <3>1, <3>3 DEF MayPass, Running, St
    <3> QED BY <2>6, <3>2, <3>3, WritesFailed
  <2> QED BY <2>3, <2>4, <2>5, <2>6, Kinds
<1>3. CASE node'[d] # node[d]
  <2>1. PICK p \in Token, l \in leases : l.token = p /\ Writes(p, l)
    BY <1>3, StepKinds
  <2>2. View(p) /\ owner = p /\ owner' = p
    BY <2>1, OwnView, WriterOwns DEF leaseVars
  <2>3. CASE Starts(p, l, d)
    BY <2>3 DEF Starts, StartAttempt, MayPass, St
  <2>4. CASE Changes(p, d)
    <3>1. ASSUME St(d) \notin {"pending", "running", "succeeded"}, d \notin proc[p].failed
          PROVE  FALSE
      <4>1. node'[d].status \in {"failed", "blocked", "cancelled"}
        BY <1>0, <2>4, <3>1 DEF Changes, Change
      <4>2. \E q \in Token : owner' = q /\ d \in proc'[q].failed
        BY <4>1 DEF MayPass, St
      <4>3. d \in proc'[p].failed
        BY <2>2, <4>2
      <4> QED BY <2>1, <3>1, <4>3, WritesFailed DEF Running, St
    <3> QED BY <2>2, <3>1 DEF MayPass
  <2> QED BY <1>3, <2>1, <2>2, <2>3, <2>4, RowMove
<1> QED BY <1>1, <1>2, <1>3 DEF MayPass, St

LEMMA FewerOf ==
  ASSUME NEW c \in Node, NEW S, NEW T, S \subseteq T, T \subseteq Needs[c]
  PROVE  /\ Cardinality(S) \in Nat /\ Cardinality(T) \in Nat
         /\ Cardinality(S) <= Cardinality(T)
<1>1. IsFiniteSet(Needs[c])
  BY SchedulerAssumption, FS_Subset
<1>2. IsFiniteSet(T)
  BY <1>1, FS_Subset
<1> QED BY <1>2, FS_Subset, FS_CardinalityType

(* A decision is what its rows say, and they are still so.                 *)
LEMMA DecidedWell ==
  ASSUME SchedTypeOK, SeenInv, LocalInv, ViewInv, NEW p \in Token,
         NEW l \in leases, l.token = p, RecordJoin(p, l), NEW c \in Quorum
  PROVE  /\ Decision(c, proc[p].rows) = "succeeded" =>
              Cardinality({d \in Needs[c] : artifact[d] # 0}) >= Votes[c]
         /\ Decision(c, proc[p].rows) = "failed" =>
              Cardinality({d \in Needs[c] : MayPass(d)}) < Votes[c]
<1> DEFINE R == proc[p].rows
           Yes == {d \in Needs[c] : R[d] = "succeeded"}
           Open == {d \in Needs[c] : R[d] \notin Terminal}
<1>0. /\ c \in Node /\ Needs[c] \subseteq Node /\ Votes[c] \in Nat
      /\ Policy[c] = "quorum"
  BY SchedulerAssumption DEF Quorum
<1>1. /\ Decision(c, R) = "succeeded" => Cardinality(Yes) >= Votes[c]
      /\ Decision(c, R) = "failed" => Cardinality(Yes) + Cardinality(Open) < Votes[c]
  BY <1>0 DEF Decision, Passed, Missing
<1>2. ASSUME Cardinality(Yes) >= Votes[c]
      PROVE  Cardinality({d \in Needs[c] : artifact[d] # 0}) >= Votes[c]
  <2>1. Yes \subseteq {d \in Needs[c] : artifact[d] # 0}
    BY <1>0 DEF SeenInv
  <2>2. {d \in Needs[c] : artifact[d] # 0} \subseteq Needs[c]
    OBVIOUS
  <2> HIDE DEF Yes
  <2>3. /\ Cardinality(Yes) \in Nat
        /\ Cardinality({d \in Needs[c] : artifact[d] # 0}) \in Nat
        /\ Cardinality(Yes) <= Cardinality({d \in Needs[c] : artifact[d] # 0})
    BY <1>0, <2>1, <2>2, FewerOf
  <2> QED BY <1>0, <1>2, <2>3
<1>3. ASSUME Cardinality(Yes) + Cardinality(Open) < Votes[c]
      PROVE  Cardinality({d \in Needs[c] : MayPass(d)}) < Votes[c]
  <2>1. proc[p].pc \in {"join", "audit"} /\ owner = p /\ View(p)
    BY WriterOwns, OwnView DEF RecordJoin, Writes
  <2>2. proc[p].failed = {}
    BY <2>1 DEF LocalInv
  <2>3. {d \in Needs[c] : MayPass(d)} \subseteq Yes \cup Open
    <3>1. SUFFICES ASSUME NEW d \in Needs[c], MayPass(d)
                   PROVE  R[d] = "succeeded" \/ R[d] \notin Terminal
      OBVIOUS
    <3>2. St(d) \in {"pending", "running", "succeeded"}
      BY <2>1, <2>2, <3>1 DEF MayPass
    <3>3. R[d] \in {"pending", St(d)}
      BY <1>0, <2>1 DEF View, Reading
    <3> QED BY <3>2, <3>3 DEF Terminal
  <2>4. Yes \cup Open \subseteq Needs[c] /\ Yes \subseteq Needs[c] /\ Open \subseteq Needs[c]
    OBVIOUS
  <2> HIDE DEF Yes, Open
  <2>5. /\ Cardinality({d \in Needs[c] : MayPass(d)}) \in Nat
        /\ Cardinality(Yes \cup Open) \in Nat
        /\ Cardinality({d \in Needs[c] : MayPass(d)}) <= Cardinality(Yes \cup Open)
    BY <1>0, <2>3, <2>4, FewerOf
  <2>6. /\ Cardinality(Yes) \in Nat /\ Cardinality(Open) \in Nat
        /\ Cardinality(Yes \cup Open) <= Cardinality(Yes) + Cardinality(Open)
    <3>1. IsFiniteSet(Yes) /\ IsFiniteSet(Open)
      BY <1>0, <2>4, SchedulerAssumption, FS_Subset
    <3>2. /\ Cardinality(Yes \cup Open)
               = Cardinality(Yes) + Cardinality(Open) - Cardinality(Yes \cap Open)
          /\ Cardinality(Yes) \in Nat /\ Cardinality(Open) \in Nat
          /\ Cardinality(Yes \cap Open) \in Nat
      BY <3>1, FS_Union, FS_Intersection, FS_CardinalityType
    <3> QED BY <3>2
  <2> QED BY <1>0, <1>3, <2>5, <2>6
<1> QED BY <1>1, <1>2, <1>3

LEMMA JoinStep ==
  ASSUME SchedTypeOK, IInv, LocalInv, LocalInv', SeenInv, ViewInv, JoinInv,
         SchedNext
  PROVE  JoinInv'
<1>1. SUFFICES ASSUME NEW c \in Quorum
               PROVE  /\ join'[c].decision = "succeeded" =>
                           Cardinality({d \in Needs[c] : artifact'[d] # 0}) >= Votes[c]
                      /\ join'[c].decision = "failed"
                           /\ (\A d \in Needs[c] : granted'[d] = 0) =>
                           Cardinality({d \in Needs[c] : MayPass(d)'}) < Votes[c]
  BY DEF JoinInv, MayPass, St
<1>0. c \in Node /\ c \in Joins /\ Needs[c] \subseteq Node /\ Votes[c] \in Nat
  BY SchedulerAssumption DEF Quorum, Joins
<1> DEFINE Seen == {d \in Needs[c] : artifact[d] # 0}
           Hope == {d \in Needs[c] : MayPass(d)}
<1>2. Seen \subseteq Seen' /\ Seen' \subseteq Needs[c]
  BY <1>0, EvidenceStays
<1>3. ASSUME \A d \in Needs[c] : granted'[d] = 0
      PROVE  /\ Hope' \subseteq Hope /\ Hope \subseteq Needs[c]
             /\ \A d \in Needs[c] : granted[d] = 0
  <2>1. \A d \in Needs[c] : granted[d] \in Nat /\ granted[d] <= granted'[d]
    BY <1>0, GrantsGrow DEF SchedTypeOK
  <2>2. \A d \in Needs[c] : MayPass(d)' => MayPass(d)
    BY <1>0, <1>3, MayPassStays
  <2> QED BY <1>3, <2>1, <2>2
<1>4. ASSUME Cardinality(Seen) >= Votes[c] PROVE Cardinality(Seen') >= Votes[c]
  <2> HIDE DEF Seen
  <2> QED BY <1>0, <1>2, <1>4, FewerOf
<1>5. ASSUME \A d \in Needs[c] : granted'[d] = 0, Cardinality(Hope) < Votes[c]
      PROVE  Cardinality(Hope') < Votes[c]
  <2>1. Hope' \subseteq Hope /\ Hope \subseteq Needs[c]
    BY <1>3, <1>5
  <2> HIDE DEF Hope
  <2> QED BY <1>0, <1>5, <2>1, FewerOf
<1>6. CASE join'[c].decision = join[c].decision
  <2>1. join[c].decision = "succeeded" => Cardinality(Seen) >= Votes[c]
    BY DEF JoinInv
  <2>2. join[c].decision = "failed" /\ (\A d \in Needs[c] : granted[d] = 0)
          => Cardinality(Hope) < Votes[c]
    BY DEF JoinInv
  <2>3. join'[c].decision = "succeeded" => Cardinality(Seen') >= Votes[c]
    BY <1>4, <1>6, <2>1
  <2>4. join'[c].decision = "failed" /\ (\A d \in Needs[c] : granted'[d] = 0)
          => Cardinality(Hope') < Votes[c]
    BY <1>3, <1>5, <1>6, <2>2
  <2> QED BY <2>3, <2>4
<1>7. CASE join'[c].decision # join[c].decision
  <2>1. PICK p \in Token, l \in leases : l.token = p /\ Writes(p, l)
    BY <1>7, StepKinds
  <2>2. RecordJoin(p, l)
    BY <1>7, <2>1
       DEF Writes, Decide, Spoil, Omit, FailSpoiled, Recover, Park, Cancel,
           Reserve, Block, Dispatch, PopAccepted, PopFailed, After, Conclude,
           Succeed, GiveUp
  <2>3. join'[c].decision = Decision(c, proc[p].rows)
    <3>1. PICK n : join' = join \/ join' = [join EXCEPT ![n] =
                      [decision |-> Decision(n, proc[p].rows),
                       passed |-> Passed(n, proc[p].rows),
                       missing |-> Missing(n, proc[p].rows)]]
      BY <2>2 DEF RecordJoin
    <3> QED BY <1>0, <1>7, <3>1 DEF SchedTypeOK
  <2>4. /\ join'[c].decision = "succeeded" => Cardinality(Seen) >= Votes[c]
        /\ join'[c].decision = "failed" => Cardinality(Hope) < Votes[c]
    BY <2>1, <2>2, <2>3, DecidedWell
  <2>5. join'[c].decision = "succeeded" => Cardinality(Seen') >= Votes[c]
    BY <1>4, <2>4
  <2>6. join'[c].decision = "failed" /\ (\A d \in Needs[c] : granted'[d] = 0)
          => Cardinality(Hope') < Votes[c]
    BY <1>5, <2>4
  <2> QED BY <2>5, <2>6
<1> QED BY <1>6, <1>7

-----------------------------------------------------------------------------
(* The invariant of the scheduler.                                         *)

LEMMA InitMade == ASSUME SchedInit PROVE Attempts = 0
<1>1. \A n \in Node : node[n].count = 0
  BY DEF SchedInit, StoreInit, PendingRow
<1>2. {a \in Node \X Number : a[2] <= node[a[1]].count} = {}
  BY <1>1 DEF Number
<1> QED BY <1>2, FS_EmptySet DEF Attempts

LEMMA SInitInv == ASSUME SchedInit PROVE SInv
<1>1. IInv /\ TypeOK
  BY InitInv DEF SchedInit, IInv
<1>2. /\ proc = [p \in Token |-> Blank("off")]
      /\ \A p \in Token : proc[p] = Blank("off")
  BY DEF SchedInit
<1>3. \A n \in Node : /\ St(n) = "pending" /\ node[n].count = 0
                      /\ granted[n] = 0
  BY DEF SchedInit, StoreInit, PendingRow, St
<1>4. SchedTypeOK
  <2>1. proc \in [Token -> Local]
    BY <1>2, BlankType
  <2>2. join \in [Joins -> JoinRow] /\ granted \in [Node -> Nat]
    BY DEF SchedInit, JoinRow
  <2> QED BY <1>1, <2>1, <2>2 DEF SchedTypeOK
<1>5. leases = {} /\ owner \notin Token /\ runStatus = "running"
  BY StoreAssumption DEF SchedInit, StoreInit
<1>6. LeaseInv
  BY <1>5 DEF LeaseInv
<1>7. LocalInv
  <2>1. \A p \in Token : proc[p].active = {} /\ proc[p].failed = {}
    BY <1>2 DEF Blank
  <2> QED BY <2>1, FS_EmptySet, SchedulerAssumption DEF LocalInv
<1>8. SeenInv
  BY <1>2 DEF SeenInv, Blank, Unread
<1>9. NoneSkipped /\ ViewInv /\ SucceededInv /\ CancelledInv
  <2>1. ~WasSucceeded
    BY <1>2, <1>5 DEF WasSucceeded, Blank
  <2> QED BY <1>3, <1>5, <2>1 DEF NoneSkipped, ViewInv, SucceededInv, CancelledInv
<1>10. EndedInv
  BY <1>2, <1>5 DEF EndedInv, WasEnded, Blank
<1>11. RunningNow = {}
  BY <1>3 DEF RunningNow, Running, St
<1>12. SlotsInv
  BY <1>5, <1>11, FS_EmptySet, SchedulerAssumption DEF SlotsInv
<1>13. ReplayInv
  BY <1>3 DEF ReplayInv
<1>14. JoinInv
  BY DEF SchedInit, JoinInv, Joins, Quorum
<1>15. BudgetsKept
  BY InitMade, <1>12, SchedulerAssumption DEF BudgetsKept, SlotsInv, RunningNow
<1>16. SuccessMeansAll
  BY <1>5 DEF SuccessMeansAll
<1> QED
  BY <1>1, <1>4, <1>6, <1>7, <1>8, <1>9, <1>10, <1>12, <1>13, <1>14, <1>15,
     <1>16 DEF SInv

LEMMA SNextInv == ASSUME SInv, SchedNext PROVE SInv'
<1> USE DEF SInv
<1>1. IInv'
  BY StoreInv
<1>2. SchedTypeOK'
  BY SchedTypeStep
<1>3. LocalInv'
  BY LocalStep
<1>4. LeaseInv'
  BY LeaseInvStep
<1>5. NoneSkipped'
  BY SkippedStep
<1>6. SeenInv'
  BY <1>1, SeenStep
<1>7. EndedInv'
  BY <1>3, EndedStep
<1>8. SucceededInv'
  BY SucceededStep
<1>9. ViewInv'
  BY <1>3, ViewStep
<1>10. SlotsInv'
  BY <1>3, SlotsStep
<1>11. CancelledInv'
  BY CancelledStep
<1>12. ReplayInv'
  BY ReplayStep
<1>13. JoinInv'
  BY <1>3, JoinStep
<1>14. BudgetsKept'
  BY <1>10, AttemptsStep DEF BudgetsKept, SlotsInv, RunningNow
<1>15. SuccessMeansAll'
  BY <1>1, <1>7, <1>8, SuccessStep
<1> QED
  BY <1>1, <1>2, <1>3, <1>4, <1>5, <1>6, <1>7, <1>8, <1>9, <1>10, <1>11, <1>12,
     <1>13, <1>14, <1>15

LEMMA SInvStep == ASSUME SInv, [SchedNext]_schedVars PROVE SInv'
<1>1. CASE SchedNext
  BY <1>1, SNextInv
<1>2. CASE UNCHANGED schedVars
  <2>1. UNCHANGED storeVars /\ UNCHANGED <<proc, join, granted>>
    BY <1>2 DEF schedVars
  <2>2. IInv'
    BY <2>1, InvStep DEF SInv
  <2>3. UNCHANGED <<now, owner, generation, leases, runStatus, node, artifact>>
    BY <2>1 DEF storeVars, clockVars, leaseVars, runVars, tableVars
  <2>4. SchedTypeOK'
    BY <2>1, <2>2 DEF SInv, IInv, SchedTypeOK
  <2>5. (LeaseInv /\ LocalInv /\ SeenInv /\ NoneSkipped)'
    BY <2>1, <2>3 DEF SInv, LeaseInv, LocalInv, SeenInv, NoneSkipped, St
  <2>6. ViewInv'
    BY <2>1, <2>3 DEF SInv, ViewInv, View, St, Owing, Voter, ToBlock
  <2>7. (SlotsInv /\ ReplayInv /\ CancelledInv)'
    BY <2>1, <2>3 DEF SInv, SlotsInv, RunningNow, Running, ReplayInv, CancelledInv, St
  <2>8. (EndedInv /\ SucceededInv)'
    BY <2>1, <2>3 DEF SInv, EndedInv, SucceededInv, WasEnded, WasSucceeded, St
  <2>9. JoinInv'
    BY <2>1, <2>3 DEF SInv, JoinInv, MayPass, St
  <2>10. (BudgetsKept /\ SuccessMeansAll)'
    BY <2>1, <2>3 DEF SInv, BudgetsKept, Attempts, Running, SuccessMeansAll, Settled
  <2> QED
    BY <2>2, <2>4, <2>5, <2>6, <2>7, <2>8, <2>9, <2>10 DEF SInv
<1> QED BY <1>1, <1>2

(* The inductive invariant of the scheduler.                               *)
THEOREM SchedInvariance == SchedSpec => []SInv
<1>1. SchedInit => SInv
  BY SInitInv
<1>2. SInv /\ [SchedNext]_schedVars => SInv'
  BY SInvStep
<1> QED BY <1>1, <1>2, PTL DEF SchedSpec

(* Type correctness of the scheduler and of the store it drives.           *)
THEOREM SchedTypeCorrect == SchedSpec => []SchedTypeOK
<1>1. SInv => SchedTypeOK
  BY DEF SInv
<1> QED BY <1>1, SchedInvariance, PTL

(* The scheduler writes only what RunStore allows a client of it: every    *)
(* behaviour of it is one of RunStore.  This is what the invariant about   *)
(* views is for: it shows that each status a write finds is the status it  *)
(* was computed from.                                                      *)
THEOREM StoreClient == SchedSpec => ActsAsStoreClient
<1>1. SchedInit => StoreInit
  BY DEF SchedInit
<1>2. SInv /\ [SchedNext]_schedVars => [Next]_storeVars
  <2> SUFFICES ASSUME SInv, [SchedNext]_schedVars PROVE [Next]_storeVars
    OBVIOUS
  <2>1. CASE SchedNext
    BY <2>1, StoreStep DEF SInv
  <2>2. CASE UNCHANGED schedVars
    BY <2>2 DEF schedVars
  <2> QED BY <2>1, <2>2
<1> QED BY <1>1, <1>2, SchedInvariance, PTL DEF SchedSpec, ActsAsStoreClient, Spec

(* Hence what RunStore promises holds while the scheduler drives it: one   *)
(* owner, rows that agree with attempts, evidence that was accepted,       *)
(* attempts settled in their own generation, a history that only grows,    *)
(* and the abstract fenced work.                                           *)
THEOREM StoreKept ==
  SchedSpec => /\ [](OneOwner /\ RowsAgree /\ AcceptedEvidence)
               /\ []AttemptsFollowLeases
               /\ SettledInOwnGeneration
               /\ HistoryKept
               /\ ImplementsFencedWork
<1>1. Spec => [](OneOwner /\ RowsAgree /\ AcceptedEvidence)
  BY SingleOwner, RowsInStep, EvidenceAccepted, PTL
<1> QED
  BY <1>1, StoreClient, AttemptOrder, Fenced, AppendOnly, Refinement, PTL
     DEF ActsAsStoreClient

(* NoBlindReplay for every workflow and any number of invocations.         *)
THEOREM NoReplay == SchedSpec => []NoBlindReplay
<1>1. SInv => NoBlindReplay
  BY DEF SInv, ReplayInv, NoBlindReplay
<1> QED BY <1>1, SchedInvariance, PTL

(* BudgetsKept: neither resumes nor takeovers stretch a budget.            *)
THEOREM Budgets == SchedSpec => []BudgetsKept
<1>1. SInv => BudgetsKept
  BY DEF SInv
<1> QED BY <1>1, SchedInvariance, PTL

(* SuccessMeansAll: "succeeded" is announced of complete work only.        *)
THEOREM SuccessComplete == SchedSpec => []SuccessMeansAll
<1>1. SInv => SuccessMeansAll
  BY DEF SInv
<1> QED BY <1>1, SchedInvariance, PTL

(* JoinHonest: the decision of a quorum was warranted and stays so.        *)
THEOREM HonestJoins == SchedSpec => []JoinHonest
<1>1. SInv => JoinHonest
  <2> SUFFICES ASSUME SInv, NEW c \in Quorum, join[c].decision = "failed",
                      \A d \in Needs[c] : granted[d] = 0
               PROVE  Cardinality({d \in Needs[c] : node[d].status = "succeeded"})
                        < Votes[c]
    BY DEF SInv, JoinInv, JoinHonest
  <2>1. c \in Node /\ Votes[c] \in Nat
    BY SchedulerAssumption DEF Quorum
  <2>2. Cardinality({d \in Needs[c] : MayPass(d)}) < Votes[c]
    BY DEF SInv, JoinInv
  <2>3. {d \in Needs[c] : node[d].status = "succeeded"}
          \subseteq {d \in Needs[c] : MayPass(d)}
    BY DEF MayPass, St
  <2>4. {d \in Needs[c] : MayPass(d)} \subseteq Needs[c]
    OBVIOUS
  <2> HIDE DEF MayPass
  <2>5. /\ Cardinality({d \in Needs[c] : node[d].status = "succeeded"}) \in Nat
        /\ Cardinality({d \in Needs[c] : MayPass(d)}) \in Nat
        /\ Cardinality({d \in Needs[c] : node[d].status = "succeeded"})
             <= Cardinality({d \in Needs[c] : MayPass(d)})
    BY <2>1, <2>3, <2>4, FewerOf
  <2> QED BY <2>1, <2>2, <2>5
<1> QED BY <1>1, SchedInvariance, PTL

-----------------------------------------------------------------------------
(* What a step of the scheduler may never do.                              *)

(* CancelledStays: after finish_run("cancelled") no late result, resume or *)
(* operator's decision changes a row, whoever takes the lease afterwards.  *)
THEOREM CancelledIsFinal == SchedSpec => CancelledStays
<1>1. SInv /\ [SchedNext]_schedVars =>
        [runStatus = "cancelled" =>
           \A n \in Node \ (Corruptible \cup (Exported \ Required)) :
             node'[n] = node[n]]_schedVars
  BY CancelledRow DEF SInv, Frozen
<1> QED BY <1>1, SchedInvariance, PTL DEF SchedSpec, CancelledStays

LEMMA BlockStep ==
  ASSUME SchedTypeOK, IInv, ViewInv, SchedNext, NEW n \in Node,
         node[n].status = "pending", node'[n].status = "blocked"
  PROVE  IF n \in Joins THEN join[n].decision = "failed"
         ELSE \E d \in Needs[n] : node[d].status \in Bad
<1>1. PICK p \in Token, l \in leases : l.token = p /\ Writes(p, l)
  BY StepKinds
<1>2. View(p)
  BY <1>1, OwnView
<1>3. Starts(p, l, n) \/ Changes(p, n)
  BY <1>1, <1>2, RowMove
<1>4. ~Starts(p, l, n)
  BY StartedRow DEF Starts, SchedTypeOK
<1>5. proc[p].pc = "block" /\ n \in proc[p].todo
  BY <1>3, <1>4 DEF Changes, Change, St, Interrupted
<1>6. n \in ToBlock(proc[p].rows)
  BY <1>2, <1>5 DEF View
<1>7. CASE n \in Joins
  BY <1>6, <1>7 DEF ToBlock
<1>8. CASE n \notin Joins
  <2>1. PICK d \in Needs[n] : proc[p].rows[d] \in Bad
    BY <1>6, <1>8 DEF ToBlock
  <2>2. d \in Node
    BY SchedulerAssumption
  <2>3. proc[p].rows[d] \in {"pending", St(d)}
    BY <1>2, <1>5, <2>2 DEF View, Reading
  <2> QED BY <1>8, <2>1, <2>3 DEF Bad, St
<1> QED BY <1>7, <1>8

(* BlockedForCause: what the pass saw lost is lost when it writes.         *)
THEOREM BlockedOnlyForCause == SchedSpec => BlockedForCause
<1>1. SInv /\ [SchedNext]_schedVars =>
        [\A n \in Node :
           node[n].status = "pending" /\ node'[n].status = "blocked" =>
             IF n \in Joins THEN join[n].decision = "failed"
             ELSE \E d \in Needs[n] : node[d].status \in Bad]_schedVars
  BY BlockStep DEF SInv
<1> QED BY <1>1, SchedInvariance, PTL DEF SchedSpec, BlockedForCause

(* A node that starts was reserved, or came up on the frontier.            *)
LEMMA StartsAt ==
  ASSUME SchedTypeOK, IInv, NEW p \in Token, View(p), NEW l \in leases,
         Writes(p, l), NEW n \in Node, ~Running(n), Running(n)'
  PROVE  \/ proc[p].pc = "reserve" /\ n \in proc[p].todo
         \/ proc[p].pc = "dispatch" /\ n \in Frontier(p)
<1>0. TypeOK
  BY DEF SchedTypeOK
<1>1. node'[n] # node[n]
  BY DEF Running
<1>2. Starts(p, l, n) \/ Changes(p, n)
  BY <1>1, RowMove
<1>3. ~Changes(p, n)
  BY DEF Changes, Change, Running, Interrupted
<1>4. proc[p].pc \in {"reserve", "dispatch"}
  BY <1>2, <1>3 DEF Starts
<1>5. CASE proc[p].pc = "reserve"
  <2>1. Reserve(p, l)
    BY <1>5 DEF Writes, Decide, Spoil, Omit, FailSpoiled, Recover, Park, Cancel,
         Reserve, RecordJoin, Block, Dispatch, PopAccepted, PopFailed, After,
         Conclude, Succeed, GiveUp, At
  <2> DEFINE m == Least(proc[p].todo)
  <2>2. m \in proc[p].todo /\ m \in Node
    BY <2>1, LeastTodo DEF Reserve
  <2>3. StartAttempt(l, m) \/ RefuseAttempt(l, m)
    BY <2>1 DEF Reserve, Launch
  <2>4. n = m
    <3> HIDE DEF m
    <3> QED BY <1>0, <1>1, <2>2, <2>3, OneRow
  <2> QED BY <1>5, <2>2, <2>4
<1>6. CASE proc[p].pc = "dispatch"
  <2>1. Dispatch(p, l)
    BY <1>6 DEF Writes, Decide, Spoil, Omit, FailSpoiled, Recover, Park, Cancel,
         Reserve, RecordJoin, Block, Dispatch, PopAccepted, PopFailed, After,
         Conclude, Succeed, GiveUp, At
  <2> DEFINE m == Least(Frontier(p))
  <2>2. m \in Frontier(p) /\ m \in Node
    BY <2>1, LeastFrontier DEF Dispatch
  <2>3. StartAttempt(l, m) \/ RefuseAttempt(l, m)
    BY <2>1 DEF Dispatch, Launch
  <2>4. n = m
    <3> HIDE DEF m
    <3> QED BY <1>0, <1>1, <2>2, <2>3, OneRow
  <2> QED BY <1>6, <2>2, <2>4
<1> QED BY <1>4, <1>5, <1>6

LEMMA NeedsMet ==
  ASSUME SchedTypeOK, IInv, ViewInv, SchedNext, NEW n \in Node, ~Voter(n),
         ~Running(n), Running(n)'
  PROVE  IF n \in Joins THEN join[n].decision = "succeeded"
         ELSE \A d \in Needs[n] : node[d].status \in Good
<1>1. PICK p \in Token, l \in leases : l.token = p /\ Writes(p, l)
  BY StepKinds DEF Running
<1>2. View(p)
  BY <1>1, OwnView
<1>3. ~(proc[p].pc = "reserve" /\ n \in proc[p].todo)
  BY <1>2 DEF View
<1>4. proc[p].pc = "dispatch" /\ n \in Frontier(p)
  BY <1>1, <1>2, <1>3, StartsAt
<1>5. CASE n \in Joins
  BY <1>4, <1>5 DEF Frontier, Ready
<1>6. CASE n \notin Joins
  <2>1. \A d \in Needs[n] : proc[p].rows[d] \in Good
    BY <1>4, <1>6 DEF Frontier, Ready
  <2>2. \A d \in Needs[n] : proc[p].rows[d] \in {"pending", St(d)}
    BY <1>2, <1>4, SchedulerAssumption DEF View, Reading
  <2> QED BY <1>6, <2>1, <2>2 DEF Good, St
<1> QED BY <1>5, <1>6

(* StartsAfterNeeds for every node that is no member of a quorum: what the *)
(* frontier was computed from still holds when the attempt is admitted.    *)
(* (A member of a decided quorum may be reserved before its needs are met: *)
(* the run that violates StartsAfterNeeds shows how.)                      *)
THEOREM NonVotersStartAfterNeeds ==
  SchedSpec =>
    [][\A n \in Node :
         ~Voter(n) /\ ~Running(n) /\ Running(n)' =>
           IF n \in Joins THEN join[n].decision = "succeeded"
           ELSE \A d \in Needs[n] : node[d].status \in Good]_schedVars
<1>1. SInv /\ [SchedNext]_schedVars =>
        [\A n \in Node :
           ~Voter(n) /\ ~Running(n) /\ Running(n)' =>
             IF n \in Joins THEN join[n].decision = "succeeded"
             ELSE \A d \in Needs[n] : node[d].status \in Good]_schedVars
  BY NeedsMet DEF SInv
<1> QED BY <1>1, SchedInvariance, PTL DEF SchedSpec

(* ROADMAP's rule as it is written holds of a workflow without a quorum.   *)
THEOREM StartsAfterNeedsWithoutQuorum ==
  ASSUME Quorum = {} PROVE SchedSpec => StartsAfterNeeds
<1>1. \A n \in Node : ~Voter(n)
  BY DEF Voter
<1>2. SInv /\ [SchedNext]_schedVars =>
        [\A n \in Node :
           ~Running(n) /\ Running(n)' =>
             IF n \in Joins THEN join[n].decision = "succeeded"
             ELSE \A d \in Needs[n] : node[d].status \in Good]_schedVars
  BY <1>1, NeedsMet DEF SInv
<1> QED BY <1>2, SchedInvariance, PTL DEF SchedSpec, StartsAfterNeeds
=============================================================================
