------------------------------- MODULE RemoteTask -------------------------------
(***************************************************************************)
(* An agent node delegated to an A2A server: execute_a2a in a worker       *)
(* thread per attempt, and the binding of the node to one remote task      *)
(* (StateStore.bind_remote_task).                                          *)
(*                                                                         *)
(* The server is another party: it may answer late or not at all, may      *)
(* change its Agent Card, may answer a message at once, and may or may not *)
(* recognise a message that it has seen.  The scheduler's side is its      *)
(* attempts: they are started one after the other, and end by a result, a  *)
(* deadline that leaves the thread running, or the death of the process.   *)
(***************************************************************************)
EXTENDS Naturals, Sequences

CONSTANTS
  MaxTries,     \* attempts of the node
  Card,         \* digests of Agent Cards
  MaxOdd        \* bound: lost answers, changed cards, deadlines, crashes

VARIABLES
  attempts,  \* nodes.attempt_count
  active,    \* nodes.active_attempt, 0 for none
  accepted,  \* what the node was accepted with, or Unbound
  binding,   \* the remote_tasks row, or Unbound
  threads,   \* the worker threads
  card,      \* the card the server publishes
  tasks,     \* tasks[i]: the server's i-th task
  idempotent,\* whether the server recognises the message ID
  oddities   \* bound: so far

nodeVars   == <<attempts, active, accepted>>
remoteVars == <<card, tasks, idempotent>>
a2aVars    == <<nodeVars, binding, threads, remoteVars, oddities>>

Unbound == [task |-> 0, attempt |-> 0, card |-> CHOOSE c \in Card : TRUE]
Thread(a) == [attempt |-> a, at |-> "preflight", card |-> Unbound.card,
              task |-> 0, seen |-> "none", told |-> FALSE]
Row(t) == [task |-> t.task, attempt |-> t.attempt, card |-> t.card]
Active   == {"submitted", "working"}
TaskOver == {"completed", "failed", "canceled"}

RemoteInit ==
  /\ attempts = 0 /\ active = 0 /\ accepted = Unbound
  /\ binding = Unbound /\ threads = {}
  /\ card \in Card /\ tasks = <<>> /\ idempotent \in BOOLEAN
  /\ oddities = 0

Oddity == oddities < MaxOdd /\ oddities' = oddities + 1

Become(t, u) == threads' = (threads \ {t}) \cup {u}
ThreadGoto(t, at)  == Become(t, [t EXCEPT !.at = at])

------------------------------------------------------------------------------
(* The scheduler: attempts one after the other.                            *)

StartAttempt ==
  /\ accepted = Unbound /\ active = 0 /\ attempts < MaxTries
  /\ attempts' = attempts + 1 /\ active' = attempts + 1
  /\ threads' = threads \cup {Thread(attempts + 1)}
  /\ UNCHANGED <<accepted, binding, remoteVars, oddities>>

(* A result counts for the active attempt only.                            *)
SettleAttempt(t) ==
  /\ t.at \in {"completed", "error"}
  /\ threads' = threads \ {t}
  /\ active' = IF active = t.attempt THEN 0 ELSE active
  /\ accepted' = IF active = t.attempt /\ t.at = "completed"
                   THEN Row(t) ELSE accepted
  /\ UNCHANGED <<attempts, binding, remoteVars, oddities>>

(* The deadline of the attempt, or of its progress, which tells the thread. *)
Deadline(t) ==
  /\ active = t.attempt /\ Oddity
  /\ active' = 0
  /\ \E told \in BOOLEAN : Become(t, [t EXCEPT !.told = told])
  /\ UNCHANGED <<attempts, accepted, binding, remoteVars>>

SchedulerDies ==
  /\ threads # {} /\ Oddity
  /\ threads' = {} /\ active' = 0
  /\ UNCHANGED <<attempts, accepted, binding, remoteVars>>

------------------------------------------------------------------------------
(* The server.                                                             *)

Advance(i) ==
  /\ tasks[i].state \in Active
  /\ \E s \in {"working", "completed", "failed"} :
       tasks' = [tasks EXCEPT ![i].state = s]
  /\ UNCHANGED <<nodeVars, binding, threads, card, idempotent, oddities>>

ChangeCard ==
  /\ Oddity
  /\ \E c \in Card : card' = c
  /\ UNCHANGED <<nodeVars, binding, threads, tasks, idempotent>>

------------------------------------------------------------------------------
(* execute_a2a, one exchange with the store or the server a step.          *)

Fail(t) == /\ ThreadGoto(t, "error")
           /\ UNCHANGED <<nodeVars, binding, remoteVars, oddities>>

Preflight(t) ==
  /\ t.at = "preflight"
  /\ Become(t, [t EXCEPT !.at = "lookup", !.card = card])
  /\ UNCHANGED <<nodeVars, binding, remoteVars, oddities>>

(* A binding is looked up once; one to another card is drift.              *)
Lookup(t) ==
  /\ t.at = "lookup"
  /\ IF binding = Unbound
       THEN /\ ThreadGoto(t, "send")
            /\ UNCHANGED <<nodeVars, binding, remoteVars, oddities>>
     ELSE IF binding.card # t.card THEN Fail(t)
     ELSE /\ Become(t, [t EXCEPT !.at = "get", !.task = binding.task])
          /\ UNCHANGED <<nodeVars, binding, remoteVars, oddities>>

(* The node's message ID is the same in every attempt.                     *)
Known == IF idempotent THEN DOMAIN tasks ELSE {}

(* SendMessage, answered with the task or, at once, with the result; the   *)
(* answer may be lost after the server has accepted the message.           *)
Send(t) ==
  /\ t.at = "send"
  /\ LET fresh == Append(tasks, [state |-> "submitted", sender |-> t.attempt])
         i == IF Known = {} THEN Len(fresh) ELSE CHOOSE k \in Known : TRUE
     IN /\ tasks' = IF Known = {} THEN fresh ELSE tasks
        /\ \/ /\ Become(t, [t EXCEPT !.at = "bind", !.task = i,
                              !.seen = tasks'[i].state])
              /\ UNCHANGED oddities
           \/ Oddity /\ ThreadGoto(t, "error")
  /\ UNCHANGED <<nodeVars, binding, card, idempotent>>

SendAnswered(t) ==
  /\ t.at = "send"
  /\ ThreadGoto(t, "completed")
  /\ UNCHANGED <<nodeVars, binding, remoteVars, oddities>>

(* Mutant: the attempt that binds need not be the node's active one.       *)
BindsAnytime(t) == TRUE

Binds(t) == active = t.attempt

Bind(t) ==
  /\ t.at = "bind"
  /\ IF Binds(t) /\ binding \in {Unbound, Row(t)}
       THEN /\ binding' = Row(t)
            /\ ThreadGoto(t, "poll")
            /\ UNCHANGED <<nodeVars, remoteVars, oddities>>
       ELSE Fail(t)

(* GetTask; in the polling loop a lost answer is asked for again.          *)
GetTask(t) ==
  /\ t.at = "get"
  /\ \/ /\ Become(t, [t EXCEPT !.at = "poll", !.seen = tasks[t.task].state])
        /\ UNCHANGED oddities
     \/ Oddity /\ ThreadGoto(t, IF t.seen = "none" THEN "error" ELSE "poll")
  /\ UNCHANGED <<nodeVars, binding, remoteVars>>

Cancelled(i) ==
  [tasks EXCEPT ![i].state = IF @ \in Active THEN "canceled" ELSE @]

(* The head of the loop: a cancelled node, a terminal state, the deadline  *)
(* of the call, or another turn.                                           *)
Poll(t) ==
  /\ t.at = "poll"
  /\ \/ /\ t.told
        /\ tasks' \in {tasks, Cancelled(t.task)}
        /\ ThreadGoto(t, "error")
     \/ /\ ~t.told /\ t.seen \in TaskOver
        /\ ThreadGoto(t, IF t.seen = "completed" THEN "completed" ELSE "error")
        /\ UNCHANGED tasks
     \/ /\ ~t.told /\ t.seen \in Active
        /\ \/ ThreadGoto(t, "get") /\ UNCHANGED tasks
           \/ tasks' \in {tasks, Cancelled(t.task)} /\ ThreadGoto(t, "error")
  /\ UNCHANGED <<nodeVars, binding, card, idempotent, oddities>>

------------------------------------------------------------------------------
RemoteNext ==
  \/ StartAttempt
  \/ SchedulerDies
  \/ ChangeCard
  \/ \E i \in DOMAIN tasks : Advance(i)
  \/ \E t \in threads :
       \/ Preflight(t) \/ Lookup(t) \/ Send(t) \/ SendAnswered(t) \/ Bind(t)
       \/ GetTask(t) \/ Poll(t) \/ SettleAttempt(t) \/ Deadline(t)

RemoteSpec == RemoteInit /\ [][RemoteNext]_a2aVars

------------------------------------------------------------------------------
(* A retry polls the same task (A2A.md): once the node is bound, whatever  *)
(* else the server was made to do was sent by the attempt that bound it or *)
(* an earlier one, in the window before its own binding; every thread      *)
(* that polls, and the result accepted, are of the bound task, under the   *)
(* card it was bound with.                                                 *)
RetryPollsSameTask ==
  /\ binding # Unbound =>
       \A i \in DOMAIN tasks : tasks[i].sender <= binding.attempt
  /\ \A t \in threads : t.at \in {"get", "poll"} =>
       binding # Unbound /\ t.task = binding.task /\ t.card = binding.card
  /\ accepted.task # 0 =>
       accepted.task = binding.task /\ accepted.card = binding.card
=============================================================================
