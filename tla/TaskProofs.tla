------------------------------ MODULE TaskProofs ------------------------------
(***************************************************************************)
(* The proofs about tasks: those of the MCP task store, and those a node   *)
(* has at a remote agent.                                                  *)
(*                                                                         *)
(* The task store, for any workers, lease durations and bounds: the        *)
(* invariant is the conjunction of the checked ones.  A claim is judged by *)
(* a clock reading that NothingForged says is not in the future, and       *)
(* RowAgrees says the next generation has not been drawn.                  *)
(*                                                                         *)
(* A retry polls the task its node is bound to, for any Agent Cards and    *)
(* any number of attempts and mishaps.  A binding is made by the active    *)
(* attempt, which is the latest: what has been sent until then was sent by *)
(* it or before it, and who starts later finds the binding before it sends *)
(* (NoneSendsLater).  A binding is not changed, so what a thread has read  *)
(* of it stays true.                                                       *)
(***************************************************************************)
EXTENDS TaskStore, RemoteTask, SequenceTheorems, TLAPS

------------------------------------------------------------------------------
(* The task store (TaskStore).                                             *)

ClaimInv == TypeOK /\ RowAgrees /\ NothingForged

LEMMA InitInv == Init => ClaimInv
<1> SUFFICES ASSUME Init PROVE ClaimInv
  OBVIOUS
<1> USE TaskAssumption
<1>1. TypeOK
  BY DEF Init, TypeOK, State
<1>2. RowAgrees
  BY DEF Init, RowAgrees, Generation
<1>3. NothingForged
  BY DEF Init, NothingForged, NoClaim
<1> QED BY <1>1, <1>2, <1>3 DEF ClaimInv

-----------------------------------------------------------------------------
(* One lemma per action.                                                   *)

LEMMA IssueStep ==
  ASSUME ClaimInv, NEW w \in Worker, NEW op \in Operation, NEW lease \in LeaseMs,
         Issue(w, op, lease)
  PROVE  ClaimInv'
<1> USE TaskAssumption
<1> DEFINE c == [op |-> op, by |-> w, owner |-> Credential(w, op).owner,
                 generation |-> Credential(w, op).generation,
                 lease |-> lease, now |-> clock]
<1>1. TypeOK /\ RowAgrees /\ NothingForged
  BY DEF ClaimInv
<1>2. Credential(w, op) \in Claim
  <2>1. claim[w] \in Claim \cup {NoClaim}
    BY <1>1 DEF TypeOK
  <2> QED BY <2>1 DEF Issue, Credential, Claim, NoClaim
<1>3. /\ Credential(w, op).owner \in Worker
      /\ Credential(w, op).generation \in Nat
      /\ Credential(w, op).generation <= generation
  BY <1>1, <1>2 DEF Credential, Claim, NothingForged, TypeOK
<1>4. /\ c \in CallRecord /\ c.generation <= generation /\ c.now <= clock
      /\ c.op = "claim" => c.owner = c.by
  BY <1>1, <1>3 DEF CallRecord, TypeOK, Credential
<1>5. calls' = calls \cup {c}
      /\ UNCHANGED <<clock, rowVars, answering, claim, granted>>
  BY DEF Issue
<1> HIDE DEF c
<1>6. TypeOK'
  BY <1>1, <1>4, <1>5 DEF TypeOK, rowVars
<1>7. RowAgrees' /\ NothingForged'
  BY <1>1, <1>4, <1>5 DEF RowAgrees, NothingForged, rowVars
<1> QED BY <1>6, <1>7 DEF ClaimInv

LEMMA GrantStep ==
  ASSUME ClaimInv, NEW c \in calls, Grant(c) PROVE ClaimInv'
<1> USE TaskAssumption
<1>1. TypeOK /\ RowAgrees /\ NothingForged
  BY DEF ClaimInv
<1>2. /\ c.by \in Worker /\ c.owner \in Worker /\ c.lease \in LeaseMs
      /\ c.lease \in Nat \ {0} /\ c.now \in Nat /\ c.now <= clock
      /\ c \in CallRecord
  BY <1>1 DEF TypeOK, CallRecord, NothingForged
<1>3. generation \in Nat /\ generation + 1 \in Generation /\ clock \in Nat
  BY <1>1 DEF TypeOK, Grant, Generation
<1>4. TypeOK'
  BY <1>1, <1>2, <1>3 DEF Grant, TypeOK, State
<1>5. granted'[generation'] = c.by
      /\ \A g \in Generation : g # generation' => granted'[g] = granted[g]
  BY <1>1, <1>3 DEF Grant, TypeOK
<1>6. c.by = c.owner
  BY <1>1 DEF Grant, NothingForged
<1>7. RowAgrees'
  <2>1. /\ state' = "claimed" /\ owner' = c.owner
        /\ generation' = generation + 1 /\ expires' # 0
        /\ result' = result /\ state \notin Terminal
    BY <1>2 DEF Grant, Claimable, Terminal
  <2>2. result' = NoWorker
    BY <1>1, <2>1 DEF RowAgrees, Terminal, TypeOK
  <2>3. \A g \in Generation : granted'[g] # NoWorker <=> g <= generation'
    BY <1>1, <1>2, <1>3, <1>5, <2>1 DEF RowAgrees, Generation
  <2> QED BY <1>2, <1>3, <1>5, <1>6, <2>1, <2>2, <2>3 DEF RowAgrees, Generation
<1>8. NothingForged'
  <2>1. expires' <= clock' + c.lease
    BY <1>2, <1>3 DEF Grant
  <2>2. \A w \in Worker : claim[w].generation \in Nat
    BY <1>1 DEF TypeOK, Claim, NoClaim
  <2>3. \A d \in calls : d.generation \in Nat
    BY <1>1 DEF TypeOK, CallRecord
  <2> QED BY <1>1, <1>2, <1>3, <2>1, <2>2, <2>3 DEF NothingForged, Grant
<1> QED BY <1>4, <1>7, <1>8 DEF ClaimInv

LEMMA HeartbeatStep ==
  ASSUME ClaimInv, NEW c \in calls, Heartbeat(c) PROVE ClaimInv'
<1>1. TypeOK /\ RowAgrees /\ NothingForged
  BY DEF ClaimInv
<1>2. /\ c.lease \in LeaseMs /\ c.lease \in Nat \ {0}
      /\ c.now \in Nat /\ c.now <= clock /\ clock \in Nat
  BY <1>1, TaskAssumption DEF TypeOK, CallRecord, NothingForged
<1>3. /\ expires' = c.now + c.lease /\ calls' = calls \ {c}
      /\ UNCHANGED <<clock, state, owner, generation, result, answering,
                     claim, granted>>
      /\ state = "claimed"
  BY DEF Heartbeat, Valid
<1>4. TypeOK'
  BY <1>1, <1>2, <1>3 DEF TypeOK
<1>5. RowAgrees'
  BY <1>1, <1>2, <1>3 DEF RowAgrees
<1>6. NothingForged'
  <2>1. expires' <= clock' + c.lease
    BY <1>2, <1>3
  <2> QED BY <1>1, <1>2, <1>3, <2>1 DEF NothingForged
<1> QED BY <1>4, <1>5, <1>6 DEF ClaimInv

(* A row is closed from 'pending' or 'claimed', with a result exactly if   *)
(* it is closed as completed.                                              *)
LEMMA CloseStep ==
  ASSUME ClaimInv, NEW s \in Terminal, Close(s),
         state \notin Terminal,
         result' \in Worker \cup {NoWorker},
         s = "completed" => result' \in Worker,
         s # "completed" => result' = result,
         calls' \subseteq calls, UNCHANGED <<clock, answering, claim, granted>>
  PROVE  ClaimInv'
<1>1. TypeOK /\ RowAgrees /\ NothingForged
  BY DEF ClaimInv
<1>2. /\ state' = s /\ owner' = NoWorker /\ expires' = 0
      /\ generation' = generation
  BY DEF Close
<1>3. TypeOK'
  BY <1>1, <1>2 DEF TypeOK, State
<1>4. RowAgrees'
  <2>1. state' # "claimed" /\ state' # "pending"
    BY <1>2 DEF Terminal
  <2>2. state' = "completed" <=> result' # NoWorker
    BY <1>1, <1>2, TaskAssumption DEF RowAgrees, Terminal
  <2> QED BY <1>1, <1>2, <2>1, <2>2 DEF RowAgrees
<1>5. NothingForged'
  BY <1>1, <1>2 DEF NothingForged
<1> QED BY <1>3, <1>4, <1>5 DEF ClaimInv

LEMMA SettleStep ==
  ASSUME ClaimInv, NEW c \in calls, Settle(c) PROVE ClaimInv'
<1>1. /\ calls' \subseteq calls /\ UNCHANGED <<clock, answering, claim, granted>>
      /\ state \notin Terminal
  BY DEF Settle, Valid, Terminal
<1>2. c.by \in Worker /\ result \in Worker \cup {NoWorker}
  BY DEF ClaimInv, TypeOK, CallRecord
<1>3. CASE Close("completed") /\ result' = c.by
  <2>1. "completed" \in Terminal
    BY DEF Terminal
  <2> QED BY <1>1, <1>2, <1>3, <2>1, CloseStep
<1>4. ASSUME NEW s \in {"failed", "cancelled"}, Close(s), result' = result
      PROVE  ClaimInv'
  <2>1. s \in Terminal /\ s # "completed"
    BY DEF Terminal
  <2> QED BY <1>1, <1>2, <1>4, <2>1, CloseStep
<1> QED BY <1>3, <1>4 DEF Settle

LEMMA InvStep == ClaimInv /\ [Next]_taskVars => ClaimInv'
<1> SUFFICES ASSUME ClaimInv, [Next]_taskVars PROVE ClaimInv'
  OBVIOUS
<1>1. TypeOK /\ RowAgrees /\ NothingForged
  BY DEF ClaimInv
<1>2. CASE Tick
  <2>1. clock' = clock + 1 /\ clock \in Nat
        /\ UNCHANGED <<rowVars, calls, answering, claim, granted>>
    BY <1>1, <1>2 DEF Tick, TypeOK
  <2>2. TypeOK' /\ RowAgrees'
    BY <1>1, <2>1 DEF TypeOK, RowAgrees, rowVars
  <2>3. NothingForged'
    <3>1. \A e \in LeaseMs : expires <= clock + e => expires <= clock' + e
      BY <1>1, <2>1, TaskAssumption DEF TypeOK
    <3>2. \A c \in calls : c.now \in Nat /\ (c.now <= clock => c.now <= clock')
      BY <1>1, <2>1 DEF TypeOK, CallRecord
    <3> QED BY <1>1, <2>1, <3>1, <3>2 DEF NothingForged, rowVars
  <2> QED BY <2>2, <2>3 DEF ClaimInv
<1>3. CASE ProtocolCancel
  <2>1. "cancelled" \in Terminal /\ "cancelled" # "completed"
    BY DEF Terminal
  <2> QED BY <1>1, <1>3, <2>1, CloseStep DEF ProtocolCancel, TypeOK
<1>4. ASSUME NEW w \in Worker, Answer(w) \/ Forget(w) PROVE ClaimInv'
  <2>1. claim' \in [Worker -> Claim \cup {NoClaim}]
    BY <1>1, <1>4 DEF Answer, Forget, TypeOK, Claim
  <2>2. \A v \in Worker : claim'[v].generation <= generation
    BY <1>1, <1>4 DEF Answer, Forget, TypeOK, NothingForged, NoClaim
  <2>3. /\ answering' \subseteq answering
        /\ UNCHANGED <<clock, rowVars, calls, granted>>
    BY <1>4 DEF Answer, Forget
  <2>4. TypeOK'
    BY <1>1, <2>1, <2>3 DEF TypeOK, rowVars
  <2>5. RowAgrees' /\ NothingForged'
    BY <1>1, <2>2, <2>3 DEF RowAgrees, NothingForged, rowVars
  <2> QED BY <2>4, <2>5 DEF ClaimInv
<1>5. ASSUME NEW c \in calls, Drop(c) PROVE ClaimInv'
  BY <1>1, <1>5 DEF Drop, ClaimInv, TypeOK, RowAgrees, NothingForged, rowVars
<1>6. CASE UNCHANGED taskVars
  BY <1>1, <1>6 DEF ClaimInv, taskVars, rowVars, TypeOK, RowAgrees, NothingForged
<1> QED
  BY <1>2, <1>3, <1>4, <1>5, <1>6, IssueStep, GrantStep, HeartbeatStep,
     SettleStep DEF Next

(* The inductive invariant holds in every reachable state.                 *)
THEOREM Invariance == Spec => []ClaimInv
<1> QED BY InitInv, InvStep, PTL DEF Spec

(* The row's columns agree with one another and with the claims granted    *)
(* (store.py, claim and _fenced_update).                                   *)
THEOREM RowConsistent == Spec => []RowAgrees
<1>1. ClaimInv => RowAgrees
  BY DEF ClaimInv
<1> QED BY <1>1, Invariance, PTL

(* Calls and answers carry only generations the store has issued.          *)
THEOREM Unforged == Spec => []NothingForged
<1>1. ClaimInv => NothingForged
  BY DEF ClaimInv
<1> QED BY <1>1, Invariance, PTL

(* A fencing generation is drawn once, by one worker (store.py, claim).    *)
THEOREM GenerationDrawnOnce == Spec => DrawnOnce
<1>1. ClaimInv /\ [Next]_taskVars =>
        [/\ generation' >= generation
         /\ \A g \in Generation :
              granted[g] # NoWorker => granted'[g] = granted[g]]_taskVars
  <2> SUFFICES ASSUME ClaimInv, [Next]_taskVars
      PROVE  /\ generation' >= generation
             /\ \A g \in Generation :
                  granted[g] # NoWorker => granted'[g] = granted[g]
    OBVIOUS
  <2>1. TypeOK /\ RowAgrees
    BY DEF ClaimInv
  <2>2. ASSUME NEW c \in calls, Grant(c)
        PROVE  /\ generation' = generation + 1
               /\ \A g \in Generation :
                    g # generation + 1 => granted'[g] = granted[g]
    BY <2>1, <2>2 DEF Grant, TypeOK
  <2>3. CASE UNCHANGED <<generation, granted>>
    BY <2>1, <2>3 DEF TypeOK
  <2>4. \/ UNCHANGED <<generation, granted>>
        \/ \E c \in calls : Grant(c)
    BY DEF Next, taskVars, rowVars, Tick, ProtocolCancel, Close, Issue, Answer,
           Forget, Heartbeat, Settle, Drop
  <2>5. \A g \in Generation : granted[g] # NoWorker <=> g <= generation
    BY <2>1 DEF RowAgrees
  <2> QED BY <2>1, <2>2, <2>3, <2>4, <2>5 DEF TypeOK
<1> QED BY <1>1, Invariance, PTL DEF Spec, DrawnOnce

(* No takeover before the lease has run out by the clock, although the     *)
(* claim is judged by an older reading of it (store.py, claim).            *)
THEOREM NoEarlyTakeover == Spec => TakenOverWhenExpired
<1>1. ClaimInv /\ [Next]_taskVars =>
        [state = "claimed" /\ generation' # generation
           => expires <= clock]_taskVars
  <2> SUFFICES ASSUME ClaimInv, [Next]_taskVars, state = "claimed",
                      generation' # generation
      PROVE  expires <= clock
    OBVIOUS
  <2>1. PICK c \in calls : Grant(c)
    BY DEF Next, taskVars, rowVars, Tick, ProtocolCancel, Close, Issue, Answer,
           Forget, Heartbeat, Settle, Drop
  <2>2. expires <= c.now /\ c.now <= clock
    BY <2>1 DEF Grant, Claimable, ClaimInv, NothingForged
  <2>3. expires \in Nat /\ c.now \in Nat /\ clock \in Nat
    BY DEF ClaimInv, TypeOK, CallRecord
  <2> QED BY <2>2, <2>3
<1> QED BY <1>1, Invariance, PTL DEF Spec, TakenOverWhenExpired

(* A settled task stays as it was settled (store.py, _fenced_update and    *)
(* request_protocol_cancel).                                               *)
THEOREM SettledForGood == Spec => TerminalStable
<1>1. ClaimInv /\ [Next]_taskVars =>
        [(state \in Terminal) => UNCHANGED rowVars]_taskVars
  BY DEF Next, taskVars, rowVars, Terminal, Tick, ProtocolCancel, Issue, Answer,
         Forget, Grant, Claimable, Heartbeat, Settle, Valid, Drop
<1> QED BY <1>1, Invariance, PTL DEF Spec, TerminalStable

------------------------------------------------------------------------------
(* Remote tasks (RemoteTask).                                              *)

TaskState == Active \cup TaskOver
Tasks     == [state : TaskState, sender : Nat]
Rows      == [task : Nat, attempt : Nat, card : Card]
Threads   == [attempt : Nat, card : Card, task : Nat, told : BOOLEAN,
              at : {"preflight", "lookup", "send", "bind", "get", "poll",
                    "completed", "error"},
              seen : TaskState \cup {"none"}]

Typed == /\ attempts \in Nat /\ active \in {0, attempts}
         /\ accepted \in Rows /\ binding \in Rows
         /\ card \in Card /\ tasks \in Seq(Tasks)

OfBinding(t) == /\ binding # Unbound
                /\ t.task = binding.task /\ t.card = binding.card

ThreadHolds(t) ==
  /\ t \in Threads /\ t.attempt \in 1..attempts
  /\ t.at \in {"preflight", "lookup", "send"} => t.task = 0
  /\ t.at = "bind" => t.task \in DOMAIN tasks
  /\ t.at \in {"get", "poll"} => OfBinding(t)
  /\ t.at = "completed" /\ t.task # 0 => OfBinding(t)
  /\ t.at = "send" /\ binding # Unbound => t.attempt <= binding.attempt

SentBefore ==
  \A i \in DOMAIN tasks :
    /\ tasks[i].sender <= attempts
    /\ binding # Unbound => tasks[i].sender <= binding.attempt

BoundToTask == binding # Unbound => binding.task \in DOMAIN tasks

AcceptedIsBound ==
  accepted.task # 0 =>
    /\ binding # Unbound
    /\ accepted.task = binding.task /\ accepted.card = binding.card

BindingInv == /\ Typed /\ SentBefore /\ BoundToTask /\ AcceptedIsBound
        /\ \A t \in threads : ThreadHolds(t)

LEMMA UnboundIsRow == ASSUME Typed PROVE Unbound \in Rows
BY DEF Typed, Unbound, Rows

LEMMA TaskTyped == ASSUME Typed, NEW i \in DOMAIN tasks PROVE tasks[i] \in Tasks
BY ElementOfSeq DEF Typed

(* The server's tasks change state, and nothing else.                      *)
LEMMA StateChanges ==
  ASSUME Typed, NEW i \in DOMAIN tasks, NEW s \in TaskState,
         tasks' = [tasks EXCEPT ![i].state = s]
  PROVE  /\ DOMAIN tasks' = DOMAIN tasks /\ tasks' \in Seq(Tasks)
         /\ \A j \in DOMAIN tasks : tasks'[j].sender = tasks[j].sender
<1>1. /\ tasks \in Seq(Tasks) /\ tasks[i] \in Tasks
      /\ tasks' = [tasks EXCEPT ![i] = [tasks[i] EXCEPT !.state = s]]
  BY TaskTyped DEF Typed
<1>2. [tasks[i] EXCEPT !.state = s] \in Tasks
  BY <1>1 DEF Tasks
<1>3. tasks' \in Seq(Tasks) /\ DOMAIN tasks' = DOMAIN tasks
  BY <1>1, <1>2, ExceptSeq
<1>4. ASSUME NEW j \in DOMAIN tasks PROVE tasks'[j].sender = tasks[j].sender
  <2>1. CASE j = i
    BY <1>1, <2>1 DEF Tasks
  <2>2. CASE j # i
    BY <1>1, <2>2
  <2>. QED  BY <2>1, <2>2
<1>. QED  BY <1>3, <1>4

LEMMA RemoteInitHolds == RemoteInit => BindingInv
<1>. SUFFICES ASSUME RemoteInit PROVE BindingInv
  OBVIOUS
<1>1. Unbound \in Rows /\ Unbound.task = 0
  BY DEF RemoteInit, Unbound, Rows
<1>2. Typed
  BY <1>1 DEF RemoteInit, Typed
<1>. QED  BY <1>1, <1>2 DEF RemoteInit, BindingInv, SentBefore, BoundToTask, AcceptedIsBound

(* What a thread holds, it holds while the node and the server go on.      *)
LEMMA OthersHold ==
  ASSUME BindingInv, NEW t \in threads, attempts' \in Nat, attempts' >= attempts,
         DOMAIN tasks \subseteq DOMAIN tasks', UNCHANGED binding
  PROVE  ThreadHolds(t)'
<1>1. ThreadHolds(t) /\ Unbound' = Unbound
  BY DEF BindingInv, Unbound
<1>2. t.attempt \in 1..attempts'
  BY <1>1 DEF BindingInv, Typed, ThreadHolds, Threads
<1>. QED  BY <1>1, <1>2 DEF ThreadHolds, OfBinding

(* What is left to show of a step of one thread that leaves node and       *)
(* binding alone.                                                          *)
LEMMA ThreadMoves ==
  ASSUME BindingInv, NEW t \in threads, NEW u, threads' = (threads \ {t}) \cup {u},
         UNCHANGED <<nodeVars, binding, tasks>>, card' \in Card, ThreadHolds(u)
  PROVE  BindingInv'
<1>1. \A v \in threads : ThreadHolds(v)'
  BY OthersHold DEF BindingInv, Typed, nodeVars
<1>2. ThreadHolds(u)'
  BY DEF ThreadHolds, OfBinding, nodeVars, Unbound
<1>3. \A v \in threads' : ThreadHolds(v)'
  BY <1>1, <1>2
<1>4. Typed' /\ SentBefore' /\ BoundToTask' /\ AcceptedIsBound'
  BY DEF BindingInv, Typed, SentBefore, BoundToTask, AcceptedIsBound, nodeVars, Unbound
<1>. QED  BY <1>3, <1>4 DEF BindingInv

------------------------------------------------------------------------------
LEMMA StartKeeps == ASSUME BindingInv, StartAttempt PROVE BindingInv'
<1>1. attempts' = attempts + 1 /\ attempts' \in Nat /\ active' = attempts'
      /\ UNCHANGED <<accepted, binding, card, tasks>>
  BY DEF BindingInv, Typed, StartAttempt, remoteVars
<1>2. \A v \in threads : ThreadHolds(v)'
  BY <1>1, OthersHold DEF BindingInv, Typed
<1>. DEFINE new == Thread(attempts + 1)
<1>3. ASSUME NEW u, u = new PROVE ThreadHolds(u)'
  <2>1. /\ u \in Threads /\ u.attempt = attempts + 1
        /\ u.at = "preflight" /\ u.task = 0
    BY <1>3, UnboundIsRow DEF BindingInv, Typed, Threads, Thread, Rows
  <2>. QED  BY <1>1, <2>1 DEF BindingInv, Typed, ThreadHolds
<1>4. Typed' /\ BoundToTask' /\ AcceptedIsBound'
  BY <1>1 DEF BindingInv, Typed, BoundToTask, AcceptedIsBound, Unbound
<1>5. SentBefore'
  <2>. SUFFICES ASSUME NEW i \in DOMAIN tasks
                PROVE  /\ tasks[i].sender <= attempts + 1
                       /\ binding # Unbound => tasks[i].sender <= binding.attempt
    BY <1>1 DEF SentBefore, Unbound
  <2>1. tasks[i].sender \in Nat
    BY TaskTyped DEF BindingInv, Tasks
  <2>. QED  BY <2>1 DEF BindingInv, Typed, SentBefore
<1>6. threads' = threads \cup {new}
  BY DEF StartAttempt
<1>7. \A v \in threads' : ThreadHolds(v)'
  BY <1>2, <1>3, <1>6
<1>. QED  BY <1>4, <1>5, <1>7 DEF BindingInv

LEMMA SettleKeeps ==
  ASSUME BindingInv, NEW t \in threads, SettleAttempt(t) PROVE BindingInv'
<1>1. ThreadHolds(t) /\ UNCHANGED <<attempts, binding, card, tasks>>
  BY DEF BindingInv, SettleAttempt, remoteVars
<1>2. accepted' = accepted \/ (t.at = "completed" /\ accepted' = Row(t))
  BY DEF SettleAttempt
<1>3. active' \in {0, attempts'}
  BY <1>1 DEF BindingInv, Typed, SettleAttempt
<1>4. Typed'
  BY <1>1, <1>2, <1>3 DEF BindingInv, Typed, ThreadHolds, Threads, Row, Rows
<1>5. AcceptedIsBound'
  BY <1>1, <1>2 DEF BindingInv, AcceptedIsBound, ThreadHolds, OfBinding, Row, Unbound
<1>6. SentBefore' /\ BoundToTask'
  BY <1>1 DEF BindingInv, SentBefore, BoundToTask, Unbound
<1>7. \A v \in threads' : ThreadHolds(v)'
  BY <1>1, OthersHold DEF BindingInv, Typed, SettleAttempt
<1>. QED  BY <1>4, <1>5, <1>6, <1>7 DEF BindingInv

LEMMA DeadlineKeeps ==
  ASSUME BindingInv, NEW t \in threads, Deadline(t) PROVE BindingInv'
<1>. PICK told \in BOOLEAN : Become(t, [t EXCEPT !.told = told])
  BY DEF Deadline
<1>1. active' = 0 /\ UNCHANGED <<attempts, accepted, binding, card, tasks>>
  BY DEF Deadline, remoteVars
<1>2. \A v \in threads : ThreadHolds(v)'
  BY <1>1, OthersHold DEF BindingInv, Typed
<1>3. ThreadHolds([t EXCEPT !.told = told])'
  BY <1>2 DEF ThreadHolds, Threads, OfBinding
<1>4. Typed' /\ SentBefore' /\ BoundToTask' /\ AcceptedIsBound'
  BY <1>1 DEF BindingInv, Typed, SentBefore, BoundToTask, AcceptedIsBound, Unbound
<1>. QED  BY <1>2, <1>3, <1>4 DEF BindingInv, Become

LEMMA DeathKeeps == ASSUME BindingInv, SchedulerDies PROVE BindingInv'
BY DEF BindingInv, Typed, SentBefore, BoundToTask, AcceptedIsBound, SchedulerDies,
  remoteVars, Unbound

LEMMA AdvanceKeeps ==
  ASSUME BindingInv, NEW i \in DOMAIN tasks, Advance(i) PROVE BindingInv'
<1>. PICK s \in {"working", "completed", "failed"} :
       tasks' = [tasks EXCEPT ![i].state = s]
  BY DEF Advance
<1>1. UNCHANGED <<attempts, active, accepted, binding, card, threads>>
  BY DEF Advance, nodeVars
<1>2. /\ DOMAIN tasks' = DOMAIN tasks
      /\ tasks' \in Seq(Tasks)
      /\ \A j \in DOMAIN tasks : tasks'[j].sender = tasks[j].sender
  <2>1. s \in TaskState
    BY DEF TaskState, Active, TaskOver
  <2>. QED  BY <2>1, StateChanges DEF BindingInv
<1>3. \A v \in threads' : ThreadHolds(v)'
  BY <1>1, <1>2, OthersHold DEF BindingInv, Typed
<1>. QED  BY <1>1, <1>2, <1>3 DEF BindingInv, Typed, SentBefore, BoundToTask,
  AcceptedIsBound, Unbound

LEMMA CardKeeps == ASSUME BindingInv, ChangeCard PROVE BindingInv'
<1>1. UNCHANGED <<nodeVars, binding, threads, tasks>> /\ card' \in Card
  BY DEF ChangeCard
<1>2. \A v \in threads' : ThreadHolds(v)'
  BY <1>1, OthersHold DEF BindingInv, Typed, nodeVars
<1>. QED  BY <1>1, <1>2 DEF BindingInv, Typed, SentBefore, BoundToTask,
  AcceptedIsBound, nodeVars, Unbound

------------------------------------------------------------------------------
LEMMA PreflightKeeps ==
  ASSUME BindingInv, NEW t \in threads, Preflight(t) PROVE BindingInv'
<1>1. ThreadHolds([t EXCEPT !.at = "lookup", !.card = card])
  BY DEF BindingInv, Typed, Preflight, ThreadHolds, Threads, OfBinding
<1>. QED  BY <1>1, ThreadMoves DEF BindingInv, Typed, Preflight, Become, remoteVars

LEMMA FailKeeps == ASSUME BindingInv, NEW t \in threads, Fail(t) PROVE BindingInv'
<1>1. ThreadHolds([t EXCEPT !.at = "error"])
  BY DEF BindingInv, ThreadHolds, Threads
<1>. QED  BY <1>1, ThreadMoves DEF BindingInv, Typed, Fail, ThreadGoto, Become, remoteVars

(* Who is about to send has found no binding.                              *)
LEMMA LookupKeeps ==
  ASSUME BindingInv, NEW t \in threads, Lookup(t) PROVE BindingInv'
<1>1. CASE binding = Unbound
  <2>1. ThreadHolds([t EXCEPT !.at = "send"])
    BY <1>1 DEF BindingInv, Lookup, ThreadHolds, Threads
  <2>. QED  BY <1>1, <2>1, ThreadMoves DEF BindingInv, Typed, Lookup, ThreadGoto, Become,
    remoteVars
<1>2. CASE binding # Unbound /\ binding.card # t.card
  BY <1>2, FailKeeps DEF Lookup
<1>3. CASE binding # Unbound /\ binding.card = t.card
  <2>1. ThreadHolds([t EXCEPT !.at = "get", !.task = binding.task])
    BY <1>3 DEF BindingInv, Typed, Rows, ThreadHolds, Threads, OfBinding
  <2>. QED  BY <1>3, <2>1, ThreadMoves DEF BindingInv, Typed, Lookup, Become, remoteVars
<1>. QED  BY <1>1, <1>2, <1>3

(* A message that arrives late is of the attempt that bound or earlier.    *)
LEMMA SendKeeps == ASSUME BindingInv, NEW t \in threads, Send(t) PROVE BindingInv'
<1>. DEFINE new   == [state |-> "submitted", sender |-> t.attempt]
            fresh == Append(tasks, new)
            i     == IF Known = {} THEN Len(fresh) ELSE CHOOSE k \in Known : TRUE
<1>1. /\ tasks' = (IF Known = {} THEN fresh ELSE tasks)
      /\ \/ Become(t, [t EXCEPT !.at = "bind", !.task = i, !.seen = tasks'[i].state])
         \/ Become(t, [t EXCEPT !.at = "error"])
      /\ UNCHANGED <<attempts, active, accepted, binding, card>>
  BY DEF Send, ThreadGoto, nodeVars
<1>2. /\ t \in Threads /\ t.attempt \in 1..attempts
      /\ binding # Unbound => t.attempt <= binding.attempt
  BY DEF BindingInv, ThreadHolds, Send
<1>3. new \in Tasks /\ tasks \in Seq(Tasks)
  BY <1>2 DEF BindingInv, Typed, Tasks, TaskState, Active, Threads
<1>4. /\ tasks' \in Seq(Tasks) /\ DOMAIN tasks \subseteq DOMAIN tasks'
      /\ \A j \in DOMAIN tasks' : j \in DOMAIN tasks \/ tasks'[j] = new
      /\ \A j \in DOMAIN tasks : tasks'[j] = tasks[j]
      /\ i \in DOMAIN tasks'
  <2>1. CASE Known = {}
    BY <1>1, <1>3, <2>1, AppendProperties
  <2>2. CASE Known # {}
    BY <1>1, <1>3, <2>2 DEF Known
  <2>. QED  BY <2>1, <2>2
<1>5. Typed' /\ BoundToTask' /\ AcceptedIsBound'
  BY <1>1, <1>4 DEF BindingInv, Typed, BoundToTask, AcceptedIsBound, Unbound
<1>6. SentBefore'
  BY <1>1, <1>2, <1>4 DEF BindingInv, SentBefore, Unbound
<1>7. \A v \in threads : ThreadHolds(v)'
  BY <1>1, <1>4, OthersHold DEF BindingInv, Typed
<1>8. i \in Nat /\ tasks'[i].state \in TaskState
  <2>1. i \in Nat /\ tasks'[i] \in Tasks
    BY <1>4
  <2>. QED  BY <2>1 DEF Tasks
<1>9. ASSUME NEW u,
             \/ u = [t EXCEPT !.at = "bind", !.task = i, !.seen = tasks'[i].state]
             \/ u = [t EXCEPT !.at = "error"]
      PROVE  ThreadHolds(u)'
  <2>1. /\ u \in Threads /\ u.attempt = t.attempt
        /\ u.at = "error" \/ (u.at = "bind" /\ u.task = i)
    BY <1>2, <1>8, <1>9 DEF Threads
  <2>. QED  BY <1>1, <1>2, <1>4, <2>1 DEF ThreadHolds
<1>10. \E u : ThreadHolds(u)' /\ threads' = (threads \ {t}) \cup {u}
  <2>. HIDE DEF i
  <2>. QED  BY <1>1, <1>9 DEF Become
<1>11. \A v \in threads' : ThreadHolds(v)'
  BY <1>7, <1>10
<1>. QED  BY <1>5, <1>6, <1>11 DEF BindingInv

LEMMA AnsweredKeeps ==
  ASSUME BindingInv, NEW t \in threads, SendAnswered(t) PROVE BindingInv'
<1>1. ThreadHolds([t EXCEPT !.at = "completed"])
  BY DEF BindingInv, SendAnswered, ThreadHolds, Threads
<1>. QED  BY <1>1, ThreadMoves DEF BindingInv, Typed, SendAnswered, ThreadGoto, Become,
  remoteVars

(* The attempt that binds is the latest there is.                          *)
LEMMA BindKeeps == ASSUME BindingInv, NEW t \in threads, Bind(t) PROVE BindingInv'
<1>1. CASE ~(Binds(t) /\ binding \in {Unbound, Row(t)})
  BY <1>1, FailKeeps DEF Bind
<1>2. CASE Binds(t) /\ binding \in {Unbound, Row(t)}
  <2>1. /\ t.at = "bind" /\ binding' = Row(t)
        /\ threads' = (threads \ {t}) \cup {[t EXCEPT !.at = "poll"]}
        /\ UNCHANGED <<attempts, active, accepted, card, tasks>>
    BY <1>2 DEF Bind, ThreadGoto, Become, nodeVars, remoteVars
  <2>2. /\ t \in Threads /\ t.attempt \in 1..attempts /\ t.task \in DOMAIN tasks
    BY <2>1 DEF BindingInv, ThreadHolds
  <2>3. t.attempt = attempts
    BY <1>2, <2>2 DEF Binds, BindingInv, Typed
  <2>4. Row(t) \in Rows /\ Row(t) # Unbound
    BY <2>2 DEF Row, Rows, Threads, Unbound
  <2>5. binding # Unbound => binding' = binding
    BY <1>2, <2>1
  <2>6. Typed'
    BY <2>1, <2>4 DEF BindingInv, Typed
  <2>7. SentBefore' /\ BoundToTask'
    BY <2>1, <2>2, <2>3 DEF BindingInv, SentBefore, BoundToTask, Row
  <2>8. AcceptedIsBound'
    BY <2>1, <2>5 DEF BindingInv, AcceptedIsBound, Unbound
  <2>9. ASSUME NEW v \in threads PROVE ThreadHolds(v)'
    <3>1. ThreadHolds(v) /\ Unbound' = Unbound
      BY DEF BindingInv, Unbound
    <3>2. OfBinding(v) => OfBinding(v)'
      BY <2>5, <3>1 DEF OfBinding
    <3>3. v.attempt <= binding'.attempt
      BY <2>1, <2>3, <3>1 DEF ThreadHolds, Row, BindingInv, Typed
    <3>. QED  BY <2>1, <3>1, <3>2, <3>3 DEF ThreadHolds
  <2>10. ThreadHolds([t EXCEPT !.at = "poll"])'
    BY <2>1, <2>2, <2>4 DEF ThreadHolds, Threads, OfBinding, Row, Unbound
  <2>. QED  BY <2>1, <2>6, <2>7, <2>8, <2>9, <2>10 DEF BindingInv
<1>. QED  BY <1>1, <1>2

LEMMA GetKeeps == ASSUME BindingInv, NEW t \in threads, GetTask(t) PROVE BindingInv'
<1>1. ThreadHolds(t) /\ t.at = "get"
  BY DEF BindingInv, GetTask
<1>2. tasks[t.task] \in Tasks
  BY <1>1 DEF BindingInv, Typed, BoundToTask, ThreadHolds, OfBinding
<1>3. /\ ThreadHolds([t EXCEPT !.at = "poll", !.seen = tasks[t.task].state])
      /\ ThreadHolds([t EXCEPT !.at = "poll"])
      /\ ThreadHolds([t EXCEPT !.at = "error"])
  BY <1>1, <1>2 DEF ThreadHolds, Threads, Tasks, OfBinding
<1>4. /\ UNCHANGED <<nodeVars, binding, tasks, card>>
      /\ \E u : ThreadHolds(u) /\ threads' = (threads \ {t}) \cup {u}
  BY <1>3 DEF GetTask, ThreadGoto, Become, remoteVars
<1>. QED  BY <1>4, ThreadMoves DEF BindingInv, Typed

(* A cancellation changes the state of a task and nothing else.            *)
LEMMA PollKeeps == ASSUME BindingInv, NEW t \in threads, Poll(t) PROVE BindingInv'
<1>1. ThreadHolds(t) /\ t.at = "poll" /\ t.task \in DOMAIN tasks
  BY DEF BindingInv, BoundToTask, ThreadHolds, OfBinding, Poll
<1>2. /\ tasks' \in {tasks, Cancelled(t.task)}
      /\ UNCHANGED <<attempts, active, accepted, binding, card>>
      /\ \E at \in {"completed", "get", "error"} : ThreadGoto(t, at)
  BY DEF Poll, nodeVars
<1>. PICK at \in {"completed", "get", "error"} : ThreadGoto(t, at)
  BY <1>2
<1>3. /\ DOMAIN tasks' = DOMAIN tasks /\ tasks' \in Seq(Tasks)
      /\ \A j \in DOMAIN tasks : tasks'[j].sender = tasks[j].sender
  <2>1. CASE tasks' = tasks
    BY <2>1 DEF BindingInv, Typed
  <2>2. CASE tasks' = Cancelled(t.task)
    <3>1. PICK s \in TaskState : tasks' = [tasks EXCEPT ![t.task].state = s]
      <4>1. tasks[t.task].state \in TaskState
        BY <1>1, TaskTyped DEF BindingInv, Tasks
      <4>. QED  BY <2>2, <4>1 DEF Cancelled, TaskState, TaskOver
    <3>. QED  BY <1>1, <3>1, StateChanges DEF BindingInv
  <2>. QED  BY <1>2, <2>1, <2>2
<1>4. \A v \in threads : ThreadHolds(v)'
  BY <1>2, <1>3, OthersHold DEF BindingInv, Typed
<1>5. ThreadHolds([t EXCEPT !.at = at])'
  BY <1>1, <1>4 DEF ThreadHolds, Threads, OfBinding
<1>6. Typed' /\ SentBefore' /\ BoundToTask' /\ AcceptedIsBound'
  BY <1>2, <1>3 DEF BindingInv, Typed, SentBefore, BoundToTask, AcceptedIsBound, Unbound
<1>. QED  BY <1>4, <1>5, <1>6 DEF BindingInv, ThreadGoto, Become

------------------------------------------------------------------------------
(* RetryPollsSameTask, of any cards, attempts and mishaps.                 *)
THEOREM OneTaskPerNode == RemoteSpec => []RetryPollsSameTask
<1>1. BindingInv /\ [RemoteNext]_a2aVars => BindingInv'
  <2>. SUFFICES ASSUME BindingInv, [RemoteNext]_a2aVars PROVE BindingInv'
    OBVIOUS
  <2>1. CASE UNCHANGED a2aVars
    <3>1. UNCHANGED <<attempts, active, accepted, binding, card, tasks, threads>>
      BY <2>1 DEF a2aVars, nodeVars, remoteVars
    <3>2. \A v \in threads' : ThreadHolds(v)'
      BY <3>1, OthersHold DEF BindingInv, Typed
    <3>. QED  BY <3>1, <3>2 DEF BindingInv, Typed, SentBefore, BoundToTask,
      AcceptedIsBound, Unbound
  <2>2. CASE StartAttempt \/ SchedulerDies \/ ChangeCard
    BY <2>2, StartKeeps, DeathKeeps, CardKeeps
  <2>3. CASE \E i \in DOMAIN tasks : Advance(i)
    BY <2>3, AdvanceKeeps
  <2>4. ASSUME NEW t \in threads,
               \/ Preflight(t) \/ Lookup(t) \/ Send(t) \/ SendAnswered(t) \/ Bind(t)
               \/ GetTask(t) \/ Poll(t) \/ SettleAttempt(t) \/ Deadline(t)
        PROVE  BindingInv'
    BY <2>4, PreflightKeeps, LookupKeeps, SendKeeps, AnsweredKeeps, BindKeeps,
      GetKeeps, PollKeeps, SettleKeeps, DeadlineKeeps
  <2>. QED  BY <2>1, <2>2, <2>3, <2>4 DEF RemoteNext
<1>2. BindingInv => RetryPollsSameTask
  BY DEF BindingInv, SentBefore, AcceptedIsBound, ThreadHolds, OfBinding,
    RetryPollsSameTask
<1>. QED  BY RemoteInitHolds, <1>1, <1>2, PTL DEF RemoteSpec
=============================================================================
