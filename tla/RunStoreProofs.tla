---------------------------- MODULE RunStoreProofs ----------------------------
(***************************************************************************)
(* The invariants and action properties of RunStore, and its refinement of *)
(* FencedWork, for every set of nodes and tokens and every bound.          *)
(*                                                                         *)
(* The inductive invariant is the conjunction of the checked invariants:   *)
(* none of them is inductive alone.  AcceptedEvidence needs RowsAgree (the *)
(* attempt an accepted result is read from is the running one, hence not   *)
(* absent), AttemptsFollowLeases needs OneOwner (a live lease carries the  *)
(* newest generation), and RowsAgree needs both rows of an attempt to have *)
(* been written under one generation.                                      *)
(***************************************************************************)
EXTENDS RunStore, TLAPS

IInv == /\ TypeOK
        /\ OneOwner
        /\ RowsAgree
        /\ AcceptedEvidence
        /\ AttemptsFollowLeases

(* create_run establishes every invariant.                                 *)
LEMMA InitInv == StoreInit => IInv
<1> SUFFICES ASSUME StoreInit PROVE IInv
  OBVIOUS
<1> USE StoreAssumption
<1>1. TypeOK
  BY DEF StoreInit, TypeOK, PendingRow, AbsentRow, NodeRow, AttemptRow,
         NodeStatus, RowStatus, RunStatus
<1>2. OneOwner
  BY DEF StoreInit, OneOwner
<1>3. RowsAgree
  BY DEF StoreInit, RowsAgree, Running, PendingRow, AbsentRow, Number
<1>4. AcceptedEvidence
  BY DEF StoreInit, AcceptedEvidence, PendingRow
<1>5. AttemptsFollowLeases
  BY DEF StoreInit, AttemptsFollowLeases, PendingRow, Number
<1> QED BY <1>1, <1>2, <1>3, <1>4, <1>5 DEF IInv

-----------------------------------------------------------------------------
(* A step that leaves the lease row and the RunLease objects alone leaves  *)
(* OneOwner alone, and one that leaves the tables alone leaves the         *)
(* invariants of the tables alone.                                         *)

LEMMA OwnerFrame == ASSUME OneOwner, UNCHANGED leaseVars PROVE OneOwner'
  BY DEF OneOwner, leaseVars

LEMMA TableFrame ==
  ASSUME RowsAgree, AcceptedEvidence, UNCHANGED tableVars
  PROVE  RowsAgree' /\ AcceptedEvidence'
  BY DEF RowsAgree, AcceptedEvidence, tableVars, Running

(* A live lease carries the current generation, which is positive.         *)
LEMMA LiveGeneration ==
  ASSUME TypeOK, OneOwner, NEW l \in leases, LeaseLive(l)
  PROVE  l.generation = generation /\ generation \in Nat \ {0}
  BY DEF TypeOK, OneOwner, LeaseLive

(* Journalled events are events.                                           *)
LEMMA JournalType ==
  ASSUME TypeOK, NEW E, \A e \in E : e \in NodeEvent, Journal(E)
  PROVE  journal' \subseteq NodeEvent
  BY DEF TypeOK, Journal

LEMMA EventType ==
  ASSUME TypeOK, NEW n \in Node, NEW s \in NodeStatus, NEW r \in Reason
  PROVE  Event(n, s, r) \in NodeEvent
  BY DEF TypeOK, NodeRow, Event, NodeEvent

(* What ends an interrupted or cancelled attempt keeps the rows well       *)
(* formed.                                                                 *)
LEMMA EndAttemptsType ==
  ASSUME TypeOK, NEW s \in RowStatus, EndAttempts(s)
  PROVE  attempt' \in [Node -> [Number -> AttemptRow]]
<1>1. \A n \in Node, k \in Number :
        [attempt[n][k] EXCEPT !.status = s] \in AttemptRow
  BY DEF TypeOK, AttemptRow
<1>2. \A n \in Node, k \in Number : attempt[n][k] \in AttemptRow
  BY DEF TypeOK
<1> QED BY <1>1, <1>2 DEF EndAttempts

LEMMA IdleRowType ==
  ASSUME NEW r \in NodeRow, NEW s \in NodeStatus
  PROVE  [r EXCEPT !.status = s, !.active = 0, !.generation = 0] \in NodeRow
  BY DEF NodeRow

LEMMA CancelType ==
  ASSUME TypeOK, CancelUnfinished
  PROVE  /\ node' \in [Node -> NodeRow]
         /\ attempt' \in [Node -> [Number -> AttemptRow]]
         /\ journal' \subseteq NodeEvent
<1>1. "cancelled" \in NodeStatus /\ "cancelled" \in RowStatus
      /\ "no_payload" \in Reason
  BY DEF NodeStatus, RowStatus, Reason
<1>2. node' \in [Node -> NodeRow]
  BY <1>1, IdleRowType DEF CancelUnfinished, TypeOK
<1>3. attempt' \in [Node -> [Number -> AttemptRow]]
  BY <1>1, EndAttemptsType DEF CancelUnfinished
<1>4. journal' \subseteq NodeEvent
  <2> DEFINE E == {Event(m, "cancelled", "no_payload") :
                     m \in {i \in Node : node[i].status \notin KeptByCancel}}
  <2>1. \A e \in E : e \in NodeEvent
    BY <1>1, EventType
  <2>2. Journal(E)
    BY DEF CancelUnfinished
  <2> QED BY <2>1, <2>2, JournalType
<1> QED BY <1>2, <1>3, <1>4

(* Type correctness of every transaction.                                  *)
LEMMA TypeStep == TypeOK /\ [Next]_storeVars => TypeOK'
<1> SUFFICES ASSUME TypeOK, [Next]_storeVars PROVE TypeOK'
  OBVIOUS
<1> USE StoreAssumption
<1>1. CASE Tick
  BY <1>1 DEF Tick, TypeOK, leaseVars, runVars, tableVars
<1>2. CASE RequestCancel
  BY <1>2 DEF RequestCancel, TypeOK, leaseVars, clockVars, tableVars
<1>3. ASSUME NEW t \in Token, Call(t) \/ AcquireLease(t) \/ RefuseCall(t)
      PROVE  TypeOK'
  <2>1. CASE Call(t)
    BY <2>1 DEF Call, TypeOK, leaseVars, runVars, tableVars
  <2>2. CASE RefuseCall(t)
    BY <2>2 DEF RefuseCall, TypeOK, leaseVars, runVars, tableVars
  <2>3. CASE AcquireLease(t)
    BY <2>3 DEF AcquireLease, NextGeneration, TypeOK, Lease, runVars, tableVars
  <2> QED BY <1>3, <2>1, <2>2, <2>3
<1>4. ASSUME NEW l \in leases, LeaseStep(l) PROVE TypeOK'
  <2>0. l \in Lease
    BY DEF TypeOK
  <2>1. CASE RenewLease(l)
    BY <2>0, <2>1 DEF RenewLease, TypeOK, Lease, runVars, tableVars
  <2>2. CASE ReleaseLease(l)
    BY <2>0, <2>2 DEF ReleaseLease, TypeOK, Lease, clockVars, runVars, tableVars
  <2>3. CASE RecoverInterrupted(l)
    <3>1. node' \in [Node -> NodeRow]
      <4>1. \A n \in Node : Interrupted(n) \in NodeStatus
        BY DEF Interrupted, NodeStatus
      <4> QED BY <2>3, <4>1, IdleRowType DEF RecoverInterrupted, TypeOK
    <3>2. attempt' \in [Node -> [Number -> AttemptRow]]
      BY <2>3, EndAttemptsType DEF RecoverInterrupted, RowStatus
    <3>3. journal' \subseteq NodeEvent
      <4>1. \A n \in Node : Interrupted(n) \in NodeStatus
        BY DEF Interrupted, NodeStatus
      <4>2. "interrupted" \in Reason
        BY DEF Reason
      <4> QED BY <2>3, <4>1, <4>2, EventType, JournalType DEF RecoverInterrupted
    <3> QED
      BY <2>3, <3>1, <3>2, <3>3
         DEF RecoverInterrupted, TypeOK, RunStatus, clockVars, leaseVars
  <2>4. ASSUME NEW s \in RunStatus \ {"running"}, FinishRun(l, s) PROVE TypeOK'
    <3>1. CASE s = "cancelled"
      <4>1. CancelUnfinished
        BY <2>4, <3>1 DEF FinishRun
      <4>2. /\ node' \in [Node -> NodeRow]
            /\ attempt' \in [Node -> [Number -> AttemptRow]]
            /\ journal' \subseteq NodeEvent
        BY <4>1, CancelType
      <4> QED BY <2>4, <4>2 DEF FinishRun, TypeOK, clockVars, leaseVars
    <3>2. CASE s # "cancelled"
      BY <2>4, <3>2 DEF FinishRun, TypeOK, clockVars, leaseVars
    <3> QED BY <3>1, <3>2
  <2> QED BY <1>4, <2>1, <2>2, <2>3, <2>4 DEF LeaseStep
<1>5. ASSUME NEW l \in leases, NEW n \in Node, NodeStep(l, n) PROVE TypeOK'
  <2>0. l \in Lease /\ l.generation \in Nat
    BY DEF TypeOK, Lease
  <2>1. CASE StartAttempt(l, n)
    <3>1. node[n].count + 1 \in Number
      BY <2>1 DEF StartAttempt, TypeOK, NodeRow, Number
    <3> QED
      BY <2>0, <2>1, <3>1
         DEF StartAttempt, TypeOK, NodeRow, NodeStatus, AttemptRow, RowStatus,
             clockVars, leaseVars, runVars
  <2>2. CASE RefuseAttempt(l, n) \/ Invalidate(l, n)
    <3>1. node' = [node EXCEPT ![n].status = "failed"]
      BY <2>2 DEF RefuseAttempt, Invalidate, InvalidateNode
    <3>2. node' \in [Node -> NodeRow]
      BY <3>1 DEF TypeOK, NodeRow, NodeStatus
    <3> QED
      BY <2>2, <3>2 DEF RefuseAttempt, Invalidate, InvalidateNode, TypeOK,
                        clockVars, leaseVars, runVars
  <2>3. ASSUME NEW s \in {"failed", "succeeded"}, Settle(l, n, s)
        PROVE  /\ node' \in [Node -> NodeRow]
               /\ attempt' \in [Node -> [Number -> AttemptRow]]
    <3>0. /\ node \in [Node -> NodeRow]
          /\ attempt \in [Node -> [Number -> AttemptRow]]
          /\ s \in NodeStatus /\ s \in RowStatus
      BY DEF TypeOK, NodeStatus, RowStatus
    <3>1. node' \in [Node -> NodeRow]
      <4>1. [node[n] EXCEPT !.status = s, !.active = 0, !.generation = 0]
              \in NodeRow
        BY <3>0 DEF NodeRow
      <4>2. node' = [node EXCEPT ![n] = [node[n] EXCEPT !.status = s,
                                          !.active = 0, !.generation = 0]]
        BY <2>3 DEF Settle
      <4> QED BY <3>0, <4>1, <4>2
    <3>2. attempt' \in [Node -> [Number -> AttemptRow]]
      <4>1. CASE UNCHANGED attempt
        BY <3>0, <4>1
      <4>2. CASE \E k : attempt' = [attempt EXCEPT ![n][k].status = s]
        <5>1. PICK k : attempt' = [attempt EXCEPT ![n][k].status = s]
          BY <4>2
        <5>2. PICK f \in [Number -> AttemptRow] : f = attempt[n]
          BY <3>0
        <5>3. [f EXCEPT ![k].status = s] \in [Number -> AttemptRow]
          BY <3>0 DEF AttemptRow
        <5> QED BY <3>0, <5>1, <5>2, <5>3
      <4> QED BY <2>3, <4>1, <4>2 DEF Settle
    <3> QED BY <3>1, <3>2
  <2>4. CASE FinishAttempt(l, n)
    <3>1. journal' \subseteq NodeEvent
      BY <2>4, EventType, JournalType
         DEF FinishAttempt, NodeStatus, Reason
    <3> QED
      BY <2>3, <2>4, <3>1
         DEF FinishAttempt, TypeOK, clockVars, leaseVars, runVars
  <2>5. CASE SucceedAttempt(l, n)
    BY <2>3, <2>5
       DEF SucceedAttempt, TypeOK, NodeRow, clockVars, leaseVars, runVars
  <2>6. CASE ChangeStatus(l, n)
    <3>1. PICK c \in StatusChange : SetNodeStatus(l, n, c.to, c.why)
      BY <2>6 DEF ChangeStatus
    <3>2. c.to \in NodeStatus /\ c.why \in Reason
      BY <3>1 DEF StatusChange, NodeStatus, Reason
    <3>3. journal' \subseteq NodeEvent
      BY <3>1, <3>2, EventType, JournalType DEF SetNodeStatus
    <3> QED
      BY <3>1, <3>2, <3>3
         DEF SetNodeStatus, TypeOK, NodeRow, clockVars, leaseVars, runVars
  <2>7. ASSUME NEW d \in {"retry", "fail"}, ReconcileNode(l, n, d) PROVE TypeOK'
    <3>1. PICK s \in {"pending", "failed"} : node' = [node EXCEPT ![n].status = s]
      BY <2>7 DEF ReconcileNode
    <3>2. node' \in [Node -> NodeRow]
      BY <3>1 DEF TypeOK, NodeRow, NodeStatus
    <3> QED
      BY <2>7, <3>2 DEF ReconcileNode, TypeOK, RunStatus, clockVars, leaseVars
  <2> QED BY <1>5, <2>1, <2>2, <2>4, <2>5, <2>6, <2>7 DEF NodeStep
<1>6. CASE UNCHANGED storeVars
  BY <1>6 DEF storeVars, clockVars, leaseVars, runVars, tableVars, TypeOK
<1> QED BY <1>1, <1>2, <1>3, <1>4, <1>5, <1>6 DEF Next

-----------------------------------------------------------------------------
(* Only acquire_lease and release_lease touch owner, generation and the    *)
(* RunLease objects.                                                       *)
LEMMA OwnerStep == TypeOK /\ OneOwner /\ [Next]_storeVars => OneOwner'
<1> SUFFICES ASSUME TypeOK, OneOwner, [Next]_storeVars PROVE OneOwner'
  OBVIOUS
<1> USE StoreAssumption
<1>1. ASSUME NEW t \in Token, AcquireLease(t) PROVE OneOwner'
  <2>1. CASE LiveSame(t)
    <3>1. generation' = generation /\ leases' = leases /\ owner' = owner
      BY <1>1, <2>1 DEF AcquireLease, NextGeneration, LiveSame, OneOwner
    <3> QED BY <3>1 DEF OneOwner
  <2>2. CASE ~LiveSame(t)
    <3>1. /\ generation' = generation + 1
          /\ leases' = leases \cup {[token |-> t, generation |-> generation']}
          /\ owner' = t
      BY <1>1, <2>2 DEF AcquireLease, NextGeneration
    <3> QED BY <3>1 DEF OneOwner, TypeOK, Lease
  <2> QED BY <2>1, <2>2
<1>2. ASSUME NEW l \in leases, ReleaseLease(l) PROVE OneOwner'
  <2>1. l \in Lease
    BY DEF TypeOK
  <2>2. generation' = generation /\ leases' = leases \ {l}
    BY <1>2 DEF ReleaseLease
  <2>3. CASE owner' = NoToken
    BY <2>2, <2>3 DEF OneOwner
  <2>4. CASE owner' # NoToken
    <3>1. owner' = owner /\ ~(owner = l.token /\ generation = l.generation)
      BY <1>2, <2>4 DEF ReleaseLease
    <3>2. [token |-> owner, generation |-> generation] # l
      BY <3>1
    <3> QED BY <2>2, <2>4, <3>1, <3>2 DEF OneOwner
  <2> QED BY <2>3, <2>4
<1>3. ASSUME NEW l \in leases, RenewLease(l) PROVE OneOwner'
  BY <1>3 DEF RenewLease, OneOwner
<1>4. CASE UNCHANGED leaseVars
  BY <1>4, OwnerFrame
<1>5. \/ \E t \in Token : AcquireLease(t)
      \/ \E l \in leases : ReleaseLease(l) \/ RenewLease(l)
      \/ UNCHANGED leaseVars
  <2>1. ASSUME NEW l, NEW n, NodeStep(l, n) PROVE UNCHANGED leaseVars
    BY <2>1
       DEF NodeStep, StartAttempt, RefuseAttempt, FinishAttempt, SucceedAttempt,
           ChangeStatus, SetNodeStatus, ReconcileNode, Invalidate, InvalidateNode
  <2>2. ASSUME NEW l, RecoverInterrupted(l) \/ \E s : FinishRun(l, s)
        PROVE  UNCHANGED leaseVars
    BY <2>2 DEF RecoverInterrupted, FinishRun
  <2>3. ASSUME Tick \/ RequestCancel \/ \E t \in Token : Call(t) \/ RefuseCall(t)
        PROVE  UNCHANGED leaseVars
    BY <2>3 DEF Tick, RequestCancel, Call, RefuseCall
  <2> QED BY <2>1, <2>2, <2>3 DEF Next, LeaseStep, storeVars, leaseVars
<1> QED BY <1>1, <1>2, <1>3, <1>4, <1>5

-----------------------------------------------------------------------------
(* The invariants of the tables, one node at a time.                       *)

RowOK(n) ==
  /\ node[n].active = IF Running(n) THEN node[n].count ELSE 0
  /\ ~Running(n) => node[n].generation = 0
  /\ Running(n) => /\ node[n].count \in Number
                   /\ attempt[n][node[n].count].generation
                        = node[n].generation
  /\ \A k \in Number :
       /\ attempt[n][k].status = "running"
            <=> Running(n) /\ k = node[n].count
       /\ attempt[n][k].status = "absent" <=> k > node[n].count

EvidenceOK(n) ==
  /\ artifact[n] # 0 => /\ artifact[n] \in Number
                        /\ attempt[n][artifact[n]].status = "succeeded"
  /\ node[n].status = "succeeded" => artifact[n] = node[n].count
                                     /\ artifact[n] # 0

OrderOK(n) ==
  \A k \in Number :
    k <= node[n].count =>
      /\ attempt[n][k].generation \in 1 .. generation
      /\ \A j \in Number :
           j <= k => attempt[n][j].generation <= attempt[n][k].generation

NodeOK(n) == RowOK(n) /\ EvidenceOK(n) /\ OrderOK(n)

LEMMA NodeWise ==
  RowsAgree /\ AcceptedEvidence /\ AttemptsFollowLeases
    <=> \A n \in Node : NodeOK(n)
  BY DEF RowsAgree, AcceptedEvidence, AttemptsFollowLeases, NodeOK, RowOK,
         EvidenceOK, OrderOK

(* What a transaction leaves alone of one node's rows stays right, the     *)
(* generation only growing.                                                *)
LEMMA NodeFrame ==
  ASSUME TypeOK, NEW n \in Node, NodeOK(n),
         node'[n] = node[n], attempt'[n] = attempt[n],
         artifact'[n] = artifact[n],
         generation' \in Nat, generation <= generation'
  PROVE  NodeOK(n)'
<1>1. RowOK(n)' /\ EvidenceOK(n)'
  BY DEF NodeOK, RowOK, EvidenceOK, Running
<1>2. OrderOK(n)'
  BY DEF NodeOK, OrderOK, TypeOK, AttemptRow, NodeRow
<1> QED BY <1>1, <1>2 DEF NodeOK

(* A settled or waiting node given a status other than 'running' and       *)
(* 'succeeded': RefuseAttempt, set_node_status, reconcile, invalidate.     *)
LEMMA StatusFrame ==
  ASSUME TypeOK, NEW n \in Node, NodeOK(n), ~Running(n),
         NEW s \in NodeStatus \ {"running", "succeeded"},
         node'[n] = [node[n] EXCEPT !.status = s],
         attempt'[n] = attempt[n], artifact'[n] = artifact[n],
         generation' = generation
  PROVE  NodeOK(n)'
<1>1. /\ node'[n].status = s
      /\ node'[n].count = node[n].count
      /\ node'[n].active = node[n].active
      /\ node'[n].generation = node[n].generation
  BY DEF TypeOK, NodeRow
<1>2. RowOK(n)'
  BY <1>1 DEF NodeOK, RowOK, Running
<1>3. EvidenceOK(n)'
  BY <1>1 DEF NodeOK, EvidenceOK
<1>4. OrderOK(n)'
  BY <1>1 DEF NodeOK, OrderOK
<1> QED BY <1>2, <1>3, <1>4 DEF NodeOK

(* The running attempt, if there is one, ends without a result and the     *)
(* node is taken out of 'running': recovery and cancellation.              *)
LEMMA IdleFrame ==
  ASSUME TypeOK, NEW n \in Node, NodeOK(n),
         NEW s \in NodeStatus \ {"running", "succeeded"},
         NEW e \in {"interrupted", "cancelled"},
         node'[n] = [node[n] EXCEPT !.status = s, !.active = 0,
                                    !.generation = 0],
         EndAttempts(e), artifact'[n] = artifact[n], generation' = generation
  PROVE  NodeOK(n)'
<1>1. /\ node'[n].status = s
      /\ node'[n].count = node[n].count
      /\ node'[n].active = 0
      /\ node'[n].generation = 0
  BY DEF TypeOK, NodeRow
<1>2. \A k \in Number :
        /\ attempt'[n][k].generation = attempt[n][k].generation
        /\ attempt'[n][k].status = IF attempt[n][k].status = "running"
                                   THEN e ELSE attempt[n][k].status
  BY DEF TypeOK, AttemptRow, EndAttempts
<1>3. RowOK(n)'
  <2>1. \A k \in Number : attempt'[n][k].status # "running"
    BY <1>2
  <2>2. \A k \in Number : attempt'[n][k].status = "absent"
                            <=> attempt[n][k].status = "absent"
    BY <1>2
  <2>3. \A k \in Number : attempt[n][k].status = "absent" <=> k > node[n].count
    BY DEF NodeOK, RowOK
  <2> QED BY <1>1, <2>1, <2>2, <2>3 DEF RowOK, Running
<1>4. EvidenceOK(n)'
  BY <1>1, <1>2 DEF NodeOK, EvidenceOK
<1>5. OrderOK(n)'
  BY <1>1, <1>2 DEF NodeOK, OrderOK
<1> QED BY <1>3, <1>4, <1>5 DEF NodeOK

(* start_attempt appends one running attempt under the live lease.         *)
LEMMA StartNode ==
  ASSUME TypeOK, OneOwner, NEW l \in leases, NEW n \in Node, NodeOK(n),
         StartAttempt(l, n)
  PROVE  NodeOK(n)'
<1> USE StoreAssumption
<1> DEFINE c == node[n].count + 1
<1>1. c \in Number /\ node[n].count \in Nat
  BY DEF StartAttempt, TypeOK, NodeRow, Number
<1>2. /\ node'[n].status = "running"
      /\ node'[n].count = c
      /\ node'[n].active = c
      /\ node'[n].generation = l.generation
  BY DEF StartAttempt, TypeOK
<1>3. attempt'[n] = [attempt[n] EXCEPT ![c] = [status |-> "running",
                                               generation |-> l.generation]]
  BY DEF StartAttempt, TypeOK
<1>4. /\ attempt'[n][c].status = "running"
      /\ attempt'[n][c].generation = l.generation
      /\ \A k \in Number : k # c => attempt'[n][k] = attempt[n][k]
  BY <1>1, <1>3 DEF TypeOK
<1>5. l.generation = generation /\ generation \in Nat \ {0}
      /\ generation' = generation /\ artifact' = artifact
  BY LiveGeneration DEF StartAttempt, leaseVars
<1>6. ~Running(n) /\ node[n].status = "pending"
  BY DEF StartAttempt, Running
<1>7. RowOK(n)'
  <2>1. \A k \in Number : k # c => (k > node[n].count <=> k > c)
    BY <1>1 DEF Number
  <2>2. ~(c > c)
    BY <1>1 DEF Number
  <2> QED BY <1>1, <1>2, <1>4, <1>6, <2>1, <2>2 DEF NodeOK, RowOK, Running
<1>8. EvidenceOK(n)'
  <2>1. artifact[n] # 0 => artifact[n] # c
    BY <1>1 DEF NodeOK, EvidenceOK, RowOK, Number
  <2> QED BY <1>2, <1>4, <1>5, <2>1 DEF NodeOK, EvidenceOK
<1>9. OrderOK(n)'
  <2>1. \A k \in Number : k < c => k <= node[n].count
    BY <1>1 DEF Number
  <2>2. \A k \in Number : k <= node[n].count
                            => attempt[n][k].generation \in 1 .. generation
    BY DEF NodeOK, OrderOK
  <2>3. SUFFICES ASSUME NEW k \in Number, k <= c
        PROVE  /\ attempt'[n][k].generation \in 1 .. generation
               /\ \A j \in Number :
                    j <= k => attempt'[n][j].generation
                                <= attempt'[n][k].generation
    BY <1>2, <1>5 DEF OrderOK
  <2>4. CASE k = c
    <3>1. \A j \in Number : j <= c /\ j # c => j < c
      BY <1>1 DEF Number
    <3> QED BY <1>1, <1>4, <1>5, <2>1, <2>2, <2>4, <3>1
  <2>5. CASE k < c
    <3>1. \A j \in Number : j <= k => j # c
      BY <2>5, <1>1 DEF Number
    <3> QED BY <1>1, <1>4, <2>1, <2>5, <3>1 DEF NodeOK, OrderOK
  <2> QED BY <1>1, <2>3, <2>4, <2>5 DEF Number
<1> QED BY <1>7, <1>8, <1>9 DEF NodeOK

(* finish_attempt and succeed_attempt settle the running attempt: under    *)
(* the invariant their WHERE clause finds the row.                         *)
LEMMA SettleRow ==
  ASSUME TypeOK, NEW l \in leases, NEW n \in Node, NodeOK(n),
         ActiveAttempt(l, n), NEW s \in {"failed", "succeeded"},
         Settle(l, n, s)
  PROVE  /\ node[n].count \in Number
         /\ node[n].active = node[n].count
         /\ node'[n].status = s
         /\ node'[n].count = node[n].count
         /\ node'[n].active = 0
         /\ node'[n].generation = 0
         /\ attempt'[n][node[n].count].status = s
         /\ \A k \in Number :
              /\ attempt'[n][k].generation = attempt[n][k].generation
              /\ k # node[n].count => attempt'[n][k] = attempt[n][k]
<1> DEFINE c == node[n].count
<1>1. /\ c \in Number /\ node[n].active = c
      /\ attempt[n][c].status = "running"
      /\ attempt[n][c].generation = node[n].generation
  BY DEF ActiveAttempt, NodeOK, RowOK
<1>2. attempt[n][c].generation = l.generation
  BY <1>1 DEF ActiveAttempt
<1>3. attempt[n][c] = [status |-> "running", generation |-> l.generation]
  BY <1>1, <1>2 DEF TypeOK, AttemptRow
<1>4. attempt' = [attempt EXCEPT ![n][c].status = s]
  BY <1>1, <1>3 DEF Settle
<1>5. /\ node'[n].status = s /\ node'[n].count = c
      /\ node'[n].active = 0 /\ node'[n].generation = 0
  BY DEF Settle, TypeOK, NodeRow
<1>6. attempt'[n] = [attempt[n] EXCEPT ![c].status = s]
  BY <1>4 DEF TypeOK
<1>7. \A k \in Number : attempt[n][k] \in AttemptRow
  BY DEF TypeOK
<1>8. /\ attempt'[n][c].status = s
      /\ attempt'[n][c].generation = attempt[n][c].generation
      /\ \A k \in Number : k # c => attempt'[n][k] = attempt[n][k]
  BY <1>1, <1>6, <1>7 DEF AttemptRow, TypeOK
<1> HIDE DEF c
<1>9. \A k \in Number : attempt'[n][k].generation = attempt[n][k].generation
  BY <1>8
<1> QED BY <1>1, <1>5, <1>8, <1>9 DEF c

LEMMA SettleNode ==
  ASSUME TypeOK, NEW l \in leases, NEW n \in Node, NodeOK(n),
         ActiveAttempt(l, n), NEW s \in {"failed", "succeeded"},
         Settle(l, n, s), generation' = generation,
         artifact'[n] = IF s = "succeeded" THEN node[n].active
                                           ELSE artifact[n]
  PROVE  NodeOK(n)'
<1> DEFINE c == node[n].count
<1>1. /\ c \in Number /\ node[n].active = c
      /\ node'[n].status = s /\ node'[n].count = c
      /\ node'[n].active = 0 /\ node'[n].generation = 0
      /\ attempt'[n][c].status = s
      /\ \A k \in Number :
           /\ attempt'[n][k].generation = attempt[n][k].generation
           /\ k # c => attempt'[n][k] = attempt[n][k]
  BY SettleRow
<1>2. Running(n) /\ attempt[n][c].status = "running"
  BY <1>1 DEF ActiveAttempt, NodeOK, RowOK
<1>3. RowOK(n)'
  <2>1. \A k \in Number : attempt'[n][k].status # "running"
    BY <1>1 DEF NodeOK, RowOK
  <2>2. \A k \in Number : attempt'[n][k].status = "absent" <=> k > c
    BY <1>1, <1>2 DEF NodeOK, RowOK, Number
  <2> QED BY <1>1, <2>1, <2>2 DEF RowOK, Running
<1>4. EvidenceOK(n)'
  <2>1. artifact[n] # c \/ artifact[n] = 0
    BY <1>2 DEF NodeOK, EvidenceOK
  <2>2. c # 0
    BY <1>1 DEF Number
  <2> QED BY <1>1, <2>1, <2>2 DEF NodeOK, EvidenceOK
<1>5. OrderOK(n)'
  BY <1>1 DEF NodeOK, OrderOK
<1> QED BY <1>3, <1>4, <1>5 DEF NodeOK

(* Every action of one node touches only that node's rows.                 *)
LEMMA NodeStepFrame ==
  ASSUME TypeOK, NEW l \in leases, NEW n \in Node, NodeStep(l, n)
  PROVE  /\ generation' = generation
         /\ \A m \in Node : m # n => /\ node'[m] = node[m]
                                     /\ attempt'[m] = attempt[m]
                                     /\ artifact'[m] = artifact[m]
<1>1. ASSUME NEW s, Settle(l, n, s)
      PROVE  \A m \in Node : m # n => node'[m] = node[m]
                                      /\ attempt'[m] = attempt[m]
  BY <1>1 DEF Settle, TypeOK
<1>2. CASE StartAttempt(l, n)
  BY <1>2 DEF StartAttempt, TypeOK, leaseVars
<1>3. CASE FinishAttempt(l, n)
  BY <1>1, <1>3 DEF FinishAttempt, leaseVars
<1>4. CASE SucceedAttempt(l, n)
  BY <1>1, <1>4 DEF SucceedAttempt, TypeOK, leaseVars
<1>5. CASE RefuseAttempt(l, n) \/ Invalidate(l, n) \/ ChangeStatus(l, n)
           \/ \E d \in {"retry", "fail"} : ReconcileNode(l, n, d)
  BY <1>5 DEF RefuseAttempt, Invalidate, InvalidateNode, ChangeStatus,
              SetNodeStatus, ReconcileNode, TypeOK, leaseVars
<1> QED BY <1>2, <1>3, <1>4, <1>5 DEF NodeStep

LEMMA NodeStepOK ==
  ASSUME TypeOK, OneOwner, NEW l \in leases, NEW n \in Node, NodeOK(n),
         NodeStep(l, n)
  PROVE  NodeOK(n)'
<1>0. generation' = generation
  BY NodeStepFrame
<1>1. CASE StartAttempt(l, n)
  BY <1>1, StartNode
<1>2. CASE FinishAttempt(l, n)
  BY <1>0, <1>2, SettleNode DEF FinishAttempt
<1>3. CASE SucceedAttempt(l, n)
  BY <1>0, <1>3, SettleNode DEF SucceedAttempt, TypeOK
<1>4. ASSUME ~Running(n), attempt' = attempt, artifact' = artifact,
             NEW s \in NodeStatus \ {"running", "succeeded"},
             node' = [node EXCEPT ![n].status = s]
      PROVE  NodeOK(n)'
  <2>1. node'[n] = [node[n] EXCEPT !.status = s]
    BY <1>4 DEF TypeOK
  <2> QED BY <1>0, <1>4, <2>1, StatusFrame
<1>5. CASE RefuseAttempt(l, n) \/ Invalidate(l, n)
  BY <1>4, <1>5 DEF RefuseAttempt, Invalidate, InvalidateNode, NodeStatus, Running
<1>6. CASE ChangeStatus(l, n)
  <2>1. PICK c \in StatusChange : /\ node[n].status = c.from
                                  /\ SetNodeStatus(l, n, c.to, c.why)
    BY <1>6 DEF ChangeStatus
  <2>2. /\ c.from # "running"
        /\ c.to \in NodeStatus \ {"running", "succeeded"}
    BY <2>1 DEF StatusChange, NodeStatus
  <2> QED BY <1>4, <2>1, <2>2 DEF SetNodeStatus, Running
<1>7. ASSUME NEW d \in {"retry", "fail"}, ReconcileNode(l, n, d)
      PROVE  NodeOK(n)'
  BY <1>4, <1>7 DEF ReconcileNode, NodeStatus, Running
<1> QED BY <1>1, <1>2, <1>3, <1>5, <1>6, <1>7 DEF NodeStep

LEMMA TableStep ==
  IInv /\ [Next]_storeVars => (\A n \in Node : NodeOK(n))'
<1> SUFFICES ASSUME IInv, [Next]_storeVars PROVE \A m \in Node : NodeOK(m)'
  OBVIOUS
<1>1. TypeOK /\ OneOwner /\ \A n \in Node : NodeOK(n)
  BY NodeWise DEF IInv
<1>2. TypeOK'
  BY <1>1, TypeStep
<1>3. ASSUME UNCHANGED tableVars, generation' \in {generation, generation + 1}
      PROVE  \A m \in Node : NodeOK(m)'
  BY <1>1, <1>3, NodeFrame DEF TypeOK, tableVars
<1>4. CASE \/ Tick \/ RequestCancel
           \/ \E t \in Token : Call(t) \/ AcquireLease(t) \/ RefuseCall(t)
           \/ \E l \in leases : RenewLease(l) \/ ReleaseLease(l)
           \/ UNCHANGED storeVars
  BY <1>3, <1>4 DEF Tick, RequestCancel, Call, AcquireLease, NextGeneration,
       RefuseCall, RenewLease, ReleaseLease, storeVars, leaseVars
<1>5. ASSUME NEW l \in leases, RecoverInterrupted(l)
      PROVE  \A m \in Node : NodeOK(m)'
  <2> SUFFICES ASSUME NEW m \in Node PROVE NodeOK(m)'
    OBVIOUS
  <2>1. EndAttempts("interrupted") /\ artifact' = artifact
        /\ generation' = generation
    BY <1>5 DEF RecoverInterrupted, leaseVars
  <2>2. CASE Running(m)
    <3>1. node'[m] = [node[m] EXCEPT !.status = Interrupted(m), !.active = 0,
                                     !.generation = 0]
      BY <1>5, <2>2 DEF RecoverInterrupted
    <3>2. Interrupted(m) \in NodeStatus \ {"running", "succeeded"}
      BY DEF Interrupted, NodeStatus
    <3> QED BY <1>1, <2>1, <3>1, <3>2, IdleFrame
  <2>3. CASE ~Running(m)
    <3>1. node'[m] = node[m]
      BY <1>5, <2>3 DEF RecoverInterrupted
    <3>2. \A k \in Number : attempt[m][k].status # "running"
      BY <1>1, <2>3 DEF NodeOK, RowOK
    <3>3. attempt'[m] = attempt[m]
      BY <1>1, <2>1, <3>2 DEF EndAttempts, TypeOK
    <3> QED BY <1>1, <2>1, <3>1, <3>3, NodeFrame DEF TypeOK
  <2> QED BY <2>2, <2>3
<1>6. ASSUME NEW l \in leases, NEW s, FinishRun(l, s)
      PROVE  \A m \in Node : NodeOK(m)'
  <2>1. CASE s # "cancelled"
    BY <1>3, <1>6, <2>1 DEF FinishRun, tableVars, leaseVars
  <2>2. CASE s = "cancelled"
    <3> SUFFICES ASSUME NEW m \in Node PROVE NodeOK(m)'
      OBVIOUS
    <3>1. EndAttempts("cancelled") /\ artifact' = artifact
          /\ generation' = generation
      BY <1>6, <2>2 DEF FinishRun, CancelUnfinished, leaseVars
    <3>2. CASE node[m].status \notin KeptByCancel
      <4>1. node'[m] = [node[m] EXCEPT !.status = "cancelled", !.active = 0,
                                       !.generation = 0]
        BY <1>6, <2>2, <3>2 DEF FinishRun, CancelUnfinished
      <4>2. "cancelled" \in NodeStatus \ {"running", "succeeded"}
        BY DEF NodeStatus
      <4> QED BY <1>1, <3>1, <4>1, <4>2, IdleFrame
    <3>3. CASE node[m].status \in KeptByCancel
      <4>1. node'[m] = node[m]
        BY <1>6, <2>2, <3>3 DEF FinishRun, CancelUnfinished
      <4>2. \A k \in Number : attempt[m][k].status # "running"
        BY <1>1, <3>3 DEF NodeOK, RowOK, KeptByCancel, Running
      <4>3. attempt'[m] = attempt[m]
        BY <1>1, <3>1, <4>2 DEF EndAttempts, TypeOK
      <4> QED BY <1>1, <3>1, <4>1, <4>3, NodeFrame DEF TypeOK
    <3> QED BY <3>2, <3>3
  <2> QED BY <2>1, <2>2
<1>7. ASSUME NEW l \in leases, NEW n \in Node, NodeStep(l, n)
      PROVE  \A m \in Node : NodeOK(m)'
  <2> SUFFICES ASSUME NEW m \in Node PROVE NodeOK(m)'
    OBVIOUS
  <2>1. CASE m = n
    BY <1>1, <1>7, <2>1, NodeStepOK
  <2>2. CASE m # n
    BY <1>1, <1>7, <2>2, NodeStepFrame, NodeFrame DEF TypeOK
  <2> QED BY <2>1, <2>2
<1> QED BY <1>4, <1>5, <1>6, <1>7 DEF Next, LeaseStep

LEMMA InvStep == IInv /\ [Next]_storeVars => IInv'
<1> SUFFICES ASSUME IInv, [Next]_storeVars PROVE IInv'
  OBVIOUS
<1>1. TypeOK' /\ OneOwner'
  BY TypeStep, OwnerStep DEF IInv
<1>2. (\A n \in Node : NodeOK(n))'
  BY TableStep
<1>3. (RowsAgree /\ AcceptedEvidence /\ AttemptsFollowLeases)'
  BY <1>2 DEF RowsAgree, AcceptedEvidence, AttemptsFollowLeases, NodeOK, RowOK,
              EvidenceOK, OrderOK, Running
<1> QED BY <1>1, <1>3 DEF IInv

(* The inductive invariant holds in every reachable state of the store.    *)
THEOREM Invariance == Spec => []IInv
<1>1. StoreInit => IInv
  BY InitInv
<1>2. IInv /\ [Next]_storeVars => IInv'
  BY InvStep
<1> QED BY <1>1, <1>2, PTL DEF Spec

(* Every row of the store keeps its type (state.py's schema and CHECKs).   *)
THEOREM TypeCorrect == Spec => []TypeOK
<1>1. IInv => TypeOK
  BY DEF IInv
<1> QED BY <1>1, Invariance, PTL

(* acquire_lease: at most one holder of a RunLease object can commit.      *)
THEOREM SingleOwner == Spec => []OneOwner
<1>1. IInv => OneOwner
  BY DEF IInv
<1> QED BY <1>1, Invariance, PTL

(* The node row and its attempt rows agree after every transaction.        *)
THEOREM RowsInStep == Spec => []RowsAgree
<1>1. IInv => RowsAgree
  BY DEF IInv
<1> QED BY <1>1, Invariance, PTL

(* Bound artifacts come from accepted attempts.                            *)
THEOREM EvidenceAccepted == Spec => []AcceptedEvidence
<1>1. IInv => AcceptedEvidence
  BY DEF IInv
<1> QED BY <1>1, Invariance, PTL

(* Attempt numbers never go back to an older lease generation.             *)
THEOREM AttemptOrder == Spec => []AttemptsFollowLeases
<1>1. IInv => AttemptsFollowLeases
  BY DEF IInv
<1> QED BY <1>1, Invariance, PTL

-----------------------------------------------------------------------------
(* The action properties.                                                  *)

(* What a step does to the attempt rows.                                   *)
LEMMA AttemptStep ==
  ASSUME IInv, [Next]_storeVars, NEW n \in Node, NEW k \in Number
  PROVE  \/ attempt'[n][k] = attempt[n][k]
         \/ attempt[n][k].status = "absent"
         \/ /\ attempt[n][k].status = "running"
            /\ attempt'[n][k].status \in {"interrupted", "cancelled"}
         \/ /\ attempt[n][k].status = "running"
            /\ attempt[n][k].generation = generation
            /\ generation' = generation
<1>0. TypeOK /\ OneOwner /\ NodeOK(n)
  BY NodeWise DEF IInv
<1>1. ASSUME NEW e \in {"interrupted", "cancelled"}, EndAttempts(e)
      PROVE  \/ attempt'[n][k] = attempt[n][k]
             \/ /\ attempt[n][k].status = "running"
                /\ attempt'[n][k].status \in {"interrupted", "cancelled"}
  <2>1. attempt[n][k] \in AttemptRow
    BY <1>0 DEF TypeOK
  <2> QED BY <1>1, <2>1 DEF EndAttempts, AttemptRow
<1>2. ASSUME NEW l \in leases,
             RecoverInterrupted(l) \/ (\E s \in RunStatus : FinishRun(l, s))
      PROVE  \/ attempt'[n][k] = attempt[n][k]
             \/ /\ attempt[n][k].status = "running"
                /\ attempt'[n][k].status \in {"interrupted", "cancelled"}
  BY <1>1, <1>2 DEF RecoverInterrupted, FinishRun, CancelUnfinished
<1>3. ASSUME NEW l \in leases, NEW m \in Node, NodeStep(l, m), m # n
      PROVE  attempt'[n][k] = attempt[n][k]
  BY <1>0, <1>3, NodeStepFrame
<1>4. ASSUME NEW l \in leases, StartAttempt(l, n)
      PROVE  \/ attempt'[n][k] = attempt[n][k]
             \/ attempt[n][k].status = "absent"
  <2>1. node[n].count + 1 \in Number /\ node[n].count \in Nat
    BY <1>0, <1>4, StoreAssumption DEF StartAttempt, TypeOK, NodeRow, Number
  <2>2. k # node[n].count + 1 => attempt'[n][k] = attempt[n][k]
    BY <1>0, <1>4, <2>1 DEF StartAttempt, TypeOK
  <2>3. k = node[n].count + 1 => attempt[n][k].status = "absent"
    BY <1>0, <2>1 DEF NodeOK, RowOK
  <2> QED BY <2>2, <2>3
<1>5. ASSUME NEW l \in leases, ActiveAttempt(l, n),
             NEW s \in {"failed", "succeeded"}, Settle(l, n, s),
             generation' = generation
      PROVE  \/ attempt'[n][k] = attempt[n][k]
             \/ /\ attempt[n][k].status = "running"
                /\ attempt[n][k].generation = generation
                /\ generation' = generation
  <2>1. l.generation = generation
    BY <1>0, <1>5, LiveGeneration DEF ActiveAttempt
  <2>2. k # node[n].count => attempt'[n][k] = attempt[n][k]
    BY <1>0, <1>5, SettleRow
  <2>3. k = node[n].count => /\ attempt[n][k].status = "running"
                             /\ attempt[n][k].generation = generation
    BY <1>0, <1>5, <2>1 DEF ActiveAttempt, NodeOK, RowOK
  <2> QED BY <1>5, <2>2, <2>3
<1>6. ASSUME NEW l \in leases, FinishAttempt(l, n) \/ SucceedAttempt(l, n)
      PROVE  \/ attempt'[n][k] = attempt[n][k]
             \/ /\ attempt[n][k].status = "running"
                /\ attempt[n][k].generation = generation
                /\ generation' = generation
  BY <1>5, <1>6 DEF FinishAttempt, SucceedAttempt, leaseVars
<1>7. ASSUME NEW l \in leases,
             \/ RefuseAttempt(l, n) \/ ChangeStatus(l, n) \/ Invalidate(l, n)
             \/ \E d \in {"retry", "fail"} : ReconcileNode(l, n, d)
      PROVE  attempt' = attempt
  BY <1>7 DEF RefuseAttempt, ChangeStatus, SetNodeStatus, Invalidate,
              InvalidateNode, ReconcileNode
<1>8. ASSUME NEW l \in leases, NodeStep(l, n)
      PROVE  \/ attempt'[n][k] = attempt[n][k]
             \/ attempt[n][k].status = "absent"
             \/ /\ attempt[n][k].status = "running"
                /\ attempt[n][k].generation = generation
                /\ generation' = generation
  BY <1>4, <1>6, <1>7, <1>8 DEF NodeStep
<1>9. CASE \/ Tick \/ RequestCancel
           \/ \E t \in Token : Call(t) \/ AcquireLease(t) \/ RefuseCall(t)
           \/ \E l \in leases : RenewLease(l) \/ ReleaseLease(l)
           \/ UNCHANGED storeVars
  BY <1>9 DEF Tick, RequestCancel, Call, AcquireLease, RefuseCall, RenewLease,
              ReleaseLease, storeVars, tableVars
<1> QED BY <1>2, <1>3, <1>8, <1>9 DEF Next, LeaseStep

(* A stale claimant cannot commit: an attempt passes or fails only under   *)
(* the lease generation it was started in.                                 *)
THEOREM Fenced == Spec => SettledInOwnGeneration
<1>1. IInv /\ [Next]_storeVars =>
        [\A n \in Node : \A k \in Number :
           attempt[n][k].status = "running"
             /\ attempt'[n][k].status \in {"succeeded", "failed"}
           => attempt[n][k].generation = generation
              /\ generation' = generation]_storeVars
  BY AttemptStep
<1> QED BY <1>1, Invariance, PTL DEF Spec, SettledInOwnGeneration

(* The attempt history is append-only.                                     *)
THEOREM AppendOnly == Spec => HistoryKept
<1>1. IInv /\ [Next]_storeVars =>
        [\A n \in Node : \A k \in Number :
           attempt[n][k].status \notin {"absent", "running"}
             => attempt'[n][k] = attempt[n][k]]_storeVars
  BY AttemptStep
<1> QED BY <1>1, Invariance, PTL DEF Spec, HistoryKept

-----------------------------------------------------------------------------
(* Refinement of FencedWork.  The mapped variables, named.                 *)

WorkMap     == [n \in Node |-> Phase(n)]
BegunMap    == [n \in Node |-> node[n].generation]
EvidenceMap == [n \in Node |-> IF artifact[n] = 0 THEN 0
                               ELSE attempt[n][artifact[n]].generation]

(* The evidence on record changes only where an artifact is bound.         *)
LEMMA EvidenceFrame ==
  ASSUME IInv, [Next]_storeVars, NEW n \in Node, artifact'[n] = artifact[n]
  PROVE  EvidenceMap'[n] = EvidenceMap[n]
<1>1. CASE artifact[n] = 0
  BY <1>1 DEF EvidenceMap
<1>2. CASE artifact[n] # 0
  <2>1. artifact[n] \in Number /\ attempt[n][artifact[n]].status = "succeeded"
    BY <1>2 DEF IInv, AcceptedEvidence
  <2>2. PICK k \in Number : k = artifact[n]
    BY <2>1
  <2>3. attempt'[n][k] = attempt[n][k]
    BY <2>1, <2>2, AttemptStep
  <2> QED BY <2>2, <2>3 DEF EvidenceMap
<1> QED BY <1>1, <1>2

(* A transaction on one node that neither starts nor settles an attempt    *)
(* adjusts the node's work, or is invisible.                               *)
LEMMA AdjustStep ==
  ASSUME IInv, [Next]_storeVars, NEW n \in Node, ~Running(n),
         NEW s \in NodeStatus \ {"running", "succeeded"},
         node[n].status = "succeeded" => s = "failed",
         node' = [node EXCEPT ![n].status = s],
         artifact' = artifact, generation' = generation
  PROVE  Work!Adjust(n) \/ UNCHANGED Work!vars
<1>0. TypeOK
  BY DEF IInv
<1>1. BegunMap' = BegunMap
  BY <1>0 DEF BegunMap, TypeOK, NodeRow
<1>2. EvidenceMap' = EvidenceMap
  BY EvidenceFrame DEF EvidenceMap
<1>3. \A m \in Node : m # n => Phase(m)' = Phase(m)
  BY <1>0 DEF Phase, Running, TypeOK
<1>4. node'[n].status = s
  BY <1>0 DEF TypeOK
<1>5. /\ Phase(n)' = IF s = "pending" THEN "open" ELSE "closed"
      /\ Phase(n) = IF node[n].status = "pending" THEN "open"
                    ELSE IF node[n].status = "succeeded" THEN "accepted"
                    ELSE "closed"
  BY <1>4 DEF Phase, Running
<1>6. WorkMap' = [WorkMap EXCEPT ![n] = Phase(n)']
  BY <1>3 DEF WorkMap
<1>7. CASE Phase(n)' = Phase(n)
  <2>1. WorkMap' = WorkMap
    BY <1>6, <1>7 DEF WorkMap
  <2> QED
    BY <1>1, <1>2, <2>1 DEF Work!vars, WorkMap, BegunMap, EvidenceMap
<1>8. CASE Phase(n)' # Phase(n)
  <2>1. \/ Phase(n) = "closed" /\ Phase(n)' = "open"
        \/ Phase(n) = "open" /\ Phase(n)' = "closed"
        \/ Phase(n) = "accepted" /\ Phase(n)' = "closed"
    BY <1>5, <1>8
  <2>2. WorkMap[n] = Phase(n)
    BY DEF WorkMap
  <2> QED
    BY <1>1, <1>2, <1>6, <2>1, <2>2
       DEF Work!Adjust, WorkMap, BegunMap, EvidenceMap
<1> QED BY <1>7, <1>8

(* Recovery and cancellation abandon whatever is running.                  *)
LEMMA AbandonStep ==
  ASSUME IInv, IInv', [Next]_storeVars,
         artifact' = artifact, generation' = generation,
         \A n \in Node : ~Running(n)',
         \A n \in Node : \/ Phase(n)' = Phase(n)
                         \/ /\ Phase(n) = "open"
                            /\ Phase(n)' = "closed"
                         \/ /\ Phase(n) = "busy"
                            /\ Phase(n)' \in {"open", "closed"}
  PROVE  Work!Abandon
<1> DEFINE C == {n \in Node : WorkMap[n] \in {"open", "busy"}
                              /\ WorkMap'[n] = "closed"}
<1>1. BegunMap' = [n \in Node |-> 0]
  BY DEF BegunMap, IInv, RowsAgree
<1>2. EvidenceMap' = EvidenceMap
  BY EvidenceFrame DEF EvidenceMap
<1>3. \A n \in Node : WorkMap[n] = Phase(n) /\ WorkMap'[n] = Phase(n)'
  BY DEF WorkMap
<1>4. \A n \in Node : Phase(n)' # "busy"
  BY DEF Phase
<1>5. WorkMap' = [n \in Node |-> IF n \in C THEN "closed"
                                 ELSE IF WorkMap[n] = "busy" THEN "open"
                                 ELSE WorkMap[n]]
  <2>1. \A n \in Node :
          WorkMap'[n] = IF n \in C THEN "closed"
                        ELSE IF WorkMap[n] = "busy" THEN "open"
                        ELSE WorkMap[n]
    BY <1>3, <1>4
  <2> QED BY <2>1 DEF WorkMap
<1>6. C \in SUBSET {n \in Node : WorkMap[n] \in {"open", "busy"}}
  OBVIOUS
<1> HIDE DEF C
<1> QED
  BY <1>1, <1>2, <1>5, <1>6
     DEF Work!Abandon, WorkMap, BegunMap, EvidenceMap

(* Starting and settling an attempt begin and deliver work.                *)
LEMMA BeginStep ==
  ASSUME IInv, [Next]_storeVars, NEW l \in leases, NEW n \in Node,
         StartAttempt(l, n)
  PROVE  Work!Begin(n)
<1>0. TypeOK /\ OneOwner
  BY DEF IInv
<1>1. l.generation = generation /\ generation' = generation
      /\ artifact' = artifact
  BY <1>0, LiveGeneration DEF StartAttempt, leaseVars
<1>2. /\ node'[n].status = "running"
      /\ node'[n].generation = generation
      /\ \A m \in Node : m # n => node'[m] = node[m]
  BY <1>0, <1>1 DEF StartAttempt, TypeOK
<1>3. WorkMap[n] = "open"
  BY DEF WorkMap, Phase, Running, StartAttempt
<1>4. WorkMap' = [WorkMap EXCEPT ![n] = "busy"]
  BY <1>2 DEF WorkMap, Phase, Running
<1>5. BegunMap' = [BegunMap EXCEPT ![n] = generation]
  BY <1>2 DEF BegunMap
<1>6. EvidenceMap' = EvidenceMap
  BY <1>1, EvidenceFrame DEF EvidenceMap
<1> QED
  BY <1>1, <1>3, <1>4, <1>5, <1>6
     DEF Work!Begin, WorkMap, BegunMap, EvidenceMap

LEMMA DeliverStep ==
  ASSUME IInv, [Next]_storeVars, NEW l \in leases, NEW n \in Node,
         ActiveAttempt(l, n), NEW s \in {"failed", "succeeded"},
         Settle(l, n, s), generation' = generation,
         artifact' = IF s = "succeeded"
                     THEN [artifact EXCEPT ![n] = node[n].active]
                     ELSE artifact
  PROVE  Work!Deliver(n, IF s = "succeeded" THEN "accepted" ELSE "closed")
<1>0. TypeOK /\ OneOwner /\ NodeOK(n)
  BY NodeWise DEF IInv
<1>1. l.generation = generation /\ generation # 0
  BY <1>0, LiveGeneration DEF ActiveAttempt
<1>2. /\ node[n].count \in Number
      /\ node[n].active = node[n].count
      /\ node'[n].status = s
      /\ node'[n].generation = 0
      /\ attempt'[n][node[n].count].generation
           = attempt[n][node[n].count].generation
  BY <1>0, SettleRow
<1>3. attempt[n][node[n].count].generation = generation
  BY <1>0, <1>1 DEF ActiveAttempt, NodeOK, RowOK
<1>4. \A m \in Node : m # n => node'[m] = node[m] /\ artifact'[m] = artifact[m]
  BY <1>0 DEF Settle, TypeOK
<1>5. WorkMap[n] = "busy" /\ BegunMap[n] = generation
  BY <1>1 DEF WorkMap, BegunMap, Phase, ActiveAttempt, Running
<1>6. WorkMap' = [WorkMap EXCEPT
                    ![n] = IF s = "succeeded" THEN "accepted" ELSE "closed"]
  BY <1>2, <1>4 DEF WorkMap, Phase, Running
<1>7. BegunMap' = [BegunMap EXCEPT ![n] = 0]
  BY <1>2, <1>4 DEF BegunMap
<1>8. EvidenceMap' = IF s = "succeeded"
                     THEN [EvidenceMap EXCEPT ![n] = generation]
                     ELSE EvidenceMap
  <2>1. \A m \in Node : m # n => EvidenceMap'[m] = EvidenceMap[m]
    BY <1>4, EvidenceFrame
  <2>2. CASE s = "succeeded"
    <3>1. artifact'[n] = node[n].count
      BY <1>0, <1>2, <2>2 DEF TypeOK
    <3>2. node[n].count # 0
      BY <1>2 DEF Number
    <3>3. EvidenceMap'[n] = generation
      BY <1>2, <1>3, <3>1, <3>2 DEF EvidenceMap
    <3>4. /\ EvidenceMap = [m \in Node |-> EvidenceMap[m]]
          /\ EvidenceMap' = [m \in Node |-> EvidenceMap'[m]]
      BY DEF EvidenceMap
    <3> QED BY <2>1, <2>2, <3>3, <3>4
  <2>3. CASE s # "succeeded"
    <3>1. EvidenceMap'[n] = EvidenceMap[n]
      BY <2>3, EvidenceFrame
    <3> QED BY <2>1, <2>3, <3>1 DEF EvidenceMap
  <2> QED BY <2>2, <2>3
<1> QED
  BY <1>5, <1>6, <1>7, <1>8
     DEF Work!Deliver, WorkMap, BegunMap, EvidenceMap

LEMMA WorkStep ==
  ASSUME IInv, IInv', [Next]_storeVars
  PROVE  [Work!Next]_(Work!vars)
<1>0. TypeOK /\ OneOwner
  BY DEF IInv
<1>1. ASSUME UNCHANGED tableVars, generation' = generation
      PROVE  UNCHANGED Work!vars
  BY <1>1 DEF Work!vars, tableVars, Phase, Running
<1>2. ASSUME NEW t \in Token, AcquireLease(t)
      PROVE  [Work!Next]_(Work!vars)
  <2>1. UNCHANGED tableVars
    BY <1>2 DEF AcquireLease
  <2>2. generation' = generation \/ generation' = generation + 1
    BY <1>2 DEF AcquireLease, NextGeneration
  <2>3. ASSUME generation' = generation + 1 PROVE Work!NewEpoch
    BY <2>1, <2>3 DEF Work!NewEpoch, tableVars, Phase, Running
  <2> QED BY <1>1, <2>1, <2>2, <2>3 DEF Work!Next
<1>3. CASE \/ Tick \/ RequestCancel
           \/ \E t \in Token : Call(t) \/ RefuseCall(t)
           \/ \E l \in leases : RenewLease(l) \/ ReleaseLease(l)
           \/ UNCHANGED storeVars
  <2>1. UNCHANGED tableVars /\ generation' = generation
    BY <1>3 DEF Tick, RequestCancel, Call, RefuseCall, RenewLease,
                ReleaseLease, storeVars, leaseVars
  <2> QED BY <1>1, <2>1
<1>4. ASSUME NEW l \in leases, RecoverInterrupted(l) PROVE Work!Abandon
  <2>1. artifact' = artifact /\ generation' = generation
    BY <1>4 DEF RecoverInterrupted, leaseVars
  <2>2. \A n \in Node :
          node'[n].status = IF Running(n) THEN Interrupted(n)
                                          ELSE node[n].status
    BY <1>0, <1>4 DEF RecoverInterrupted, TypeOK, NodeRow
  <2>3. \A n \in Node : Interrupted(n) \in {"pending", "uncertain"}
    BY DEF Interrupted
  <2>4. \A n \in Node : ~Running(n)'
    BY <2>2, <2>3 DEF Running
  <2>5. \A n \in Node : \/ Phase(n)' = Phase(n)
                        \/ /\ Phase(n) = "busy"
                           /\ Phase(n)' \in {"open", "closed"}
    BY <2>2, <2>3, <2>4 DEF Phase, Running
  <2> QED BY <2>1, <2>4, <2>5, AbandonStep
<1>5. ASSUME NEW l \in leases, NEW s, FinishRun(l, s)
      PROVE  [Work!Next]_(Work!vars)
  <2>1. CASE s # "cancelled"
    <3>1. UNCHANGED tableVars /\ generation' = generation
      BY <1>5, <2>1 DEF FinishRun, tableVars, leaseVars
    <3> QED BY <1>1, <3>1
  <2>2. CASE s = "cancelled"
    <3>1. artifact' = artifact /\ generation' = generation
      BY <1>5 DEF FinishRun, leaseVars
    <3>2. \A n \in Node :
            node'[n].status = IF node[n].status \in KeptByCancel
                              THEN node[n].status ELSE "cancelled"
      <4>1. CancelUnfinished
        BY <1>5, <2>2 DEF FinishRun
      <4>2. \A n \in Node :
              node'[n] = IF node[n].status \in KeptByCancel THEN node[n]
                         ELSE [node[n] EXCEPT !.status = "cancelled",
                                              !.active = 0, !.generation = 0]
        BY <4>1 DEF CancelUnfinished
      <4>3. \A n \in Node : node[n] \in NodeRow
        BY <1>0 DEF TypeOK
      <4> QED BY <4>2, <4>3 DEF NodeRow
    <3>3. \A n \in Node : ~Running(n)'
      BY <3>2 DEF Running, KeptByCancel
    <3>4. \A n \in Node : \/ Phase(n)' = Phase(n)
                          \/ /\ Phase(n) = "open"
                             /\ Phase(n)' = "closed"
                          \/ /\ Phase(n) = "busy"
                             /\ Phase(n)' \in {"open", "closed"}
      BY <3>2, <3>3 DEF Phase, Running, KeptByCancel
    <3> QED BY <3>1, <3>3, <3>4, AbandonStep DEF Work!Next
  <2> QED BY <2>1, <2>2
<1>6. ASSUME NEW l \in leases, NEW n \in Node, NodeStep(l, n)
      PROVE  [Work!Next]_(Work!vars)
  <2>0. generation' = generation
    BY <1>0, <1>6, NodeStepFrame
  <2>1. CASE StartAttempt(l, n)
    BY <2>1, BeginStep DEF Work!Next
  <2>2. CASE FinishAttempt(l, n)
    <3>1. Work!Deliver(n, "closed")
      BY <2>0, <2>2, DeliverStep DEF FinishAttempt
    <3> QED BY <3>1 DEF Work!Next
  <2>3. CASE SucceedAttempt(l, n)
    <3>1. Work!Deliver(n, "accepted")
      BY <2>0, <2>3, DeliverStep DEF SucceedAttempt
    <3> QED BY <3>1 DEF Work!Next
  <2>4. ASSUME ~Running(n), artifact' = artifact,
               NEW s \in NodeStatus \ {"running", "succeeded"},
               node[n].status = "succeeded" => s = "failed",
               node' = [node EXCEPT ![n].status = s]
        PROVE  [Work!Next]_(Work!vars)
    <3>1. Work!Adjust(n) \/ UNCHANGED Work!vars
      BY <2>0, <2>4, AdjustStep
    <3> QED BY <3>1 DEF Work!Next
  <2>5. CASE RefuseAttempt(l, n) \/ Invalidate(l, n)
    BY <2>4, <2>5
       DEF RefuseAttempt, Invalidate, InvalidateNode, NodeStatus, Running
  <2>6. CASE ChangeStatus(l, n)
    <3>1. PICK c \in StatusChange : /\ node[n].status = c.from
                                    /\ SetNodeStatus(l, n, c.to, c.why)
      BY <2>6 DEF ChangeStatus
    <3>2. /\ c.from \notin {"running", "succeeded"}
          /\ c.to \in NodeStatus \ {"running", "succeeded"}
      BY <3>1 DEF StatusChange, NodeStatus
    <3> QED BY <2>4, <3>1, <3>2 DEF SetNodeStatus, Running
  <2>7. ASSUME NEW d \in {"retry", "fail"}, ReconcileNode(l, n, d)
        PROVE  [Work!Next]_(Work!vars)
    BY <2>4, <2>7 DEF ReconcileNode, NodeStatus, Running
  <2> QED BY <1>6, <2>1, <2>2, <2>3, <2>5, <2>6, <2>7 DEF NodeStep
<1> QED BY <1>2, <1>3, <1>4, <1>5, <1>6 DEF Next, LeaseStep, Work!Next

(* Whatever its clients do, the store implements FencedWork.               *)
THEOREM Refinement == Spec => ImplementsFencedWork
<1>1. StoreInit => Work!Init
  BY DEF StoreInit, Work!Init, PendingRow, Phase, Running
<1>2. IInv /\ IInv' /\ [Next]_storeVars => [Work!Next]_(Work!vars)
  BY WorkStep
<1> QED BY <1>1, <1>2, Invariance, PTL DEF Spec, Work!Spec, ImplementsFencedWork
=============================================================================
