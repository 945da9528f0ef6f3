------------------------------- MODULE PrMonitor -------------------------------
(***************************************************************************)
(* The contract-sync monitor (ops/contract-sync): a timer runs a cycle,    *)
(* one at a time, that reads what the consumers serve and the state of     *)
(* their sync pull requests, keeps a ticket per troubled pull request and  *)
(* an incident per consumer, tells Slack, and leaves a heartbeat.          *)
(*                                                                         *)
(* The files survive a cycle; Slack, Plane and the disk may refuse a call, *)
(* the cycle may run out of its budget at any of them, or be killed        *)
(* between a call and the write that records it.  What a cycle reads is an *)
(* observation: the age of the Rails deployment, what each consumer        *)
(* serves, who is being deployed, the pull requests, and the sync bot.     *)
(***************************************************************************)
EXTENDS Naturals, FiniteSets

CONSTANTS
  Consumer,      \* the consumers whose served contract is read
  PrConsumer,    \* the repositories whose pull requests are read
  Observation,   \* what cycles may read
  MaxRefusals    \* bound: calls refused, cycles killed

VARIABLES
  phase,     \* what the cycle does next, and to which keys
  seen,      \* what the cycle read
  tickets,   \* tickets.json: the head last commented on, by repository
  memory,    \* reconcile's state, by key
  incidents, \* incidents.json, the same
  alerts,    \* the evaluations reconcile has still to go through
  policy,    \* policy[k]: the severity alert_policy recorded for the key
  slack,     \* slack[k]: the last word in the channel about the key
  filed,     \* filed[c]: Plane issues ever filed for the pull request of c
  unsaved,   \* history: repositories whose issue could not be recorded
  unsure,    \* history: keys whose accepted message was never recorded
  refusals   \* bound: so far

files       == <<tickets, incidents, policy>>
monitorVars == <<phase, seen, memory, alerts, files, slack, filed, unsaved,
                 unsure, refusals>>

Key      == Consumer \cup PrConsumer \cup {"contract-sync"}
NoTicket == "none"
Resting  == [step |-> "idle", todo |-> {}]
Nothing  == CHOOSE o \in Observation : TRUE
Absent   == [open |-> FALSE, posted |-> FALSE, severity |-> "none", ticket |-> FALSE]
Opened   == [Absent EXCEPT !.open = TRUE]

------------------------------------------------------------------------------
(* Pure functions of an observation.                                       *)

Classify(pr) ==
  IF pr.checks = "failing" THEN "RED"
  ELSE IF ~pr.mergeable THEN "CONFLICT"
  ELSE IF pr.checks \in {"pending", "absent"} /\ pr.old THEN "STALE"
  ELSE "OK"

Grace(o)    == o.age = "grace"
Quiet(o)    == o.deploying \cap Consumer
Behind(o)   == {c \in Consumer : o.served[c] # "current"}
Unread(o)   == {c \in Consumer : o.served[c] = "unreadable"}
Lagging(o)  == {c \in Behind(o) \ Quiet(o) : ~Grace(o) \/ c \in Unread(o)}
Stalled(o)  == IF ~Grace(o) /\ ~o.synced THEN {"contract-sync"} ELSE {}
Troubled(o) == {c \in PrConsumer : Classify(o.pr[c]) # "OK"}

Held(o) == Quiet(o) \cup (IF Grace(o) THEN Behind(o) ELSE {})

(* Within the grace of a deployment pull requests are evidence only.       *)
Paged(o)     == IF Grace(o) THEN {} ELSE Troubled(o) \ Held(o)
Evaluated(o) == Lagging(o) \cup Stalled(o) \cup Paged(o)

Severity(o, k) ==
  IF \/ k \in Lagging(o) \cap Unread(o)
     \/ k \in Lagging(o) \cup Stalled(o) /\ o.age = "critical"
    THEN "critical" ELSE "warning"

MonitorInit ==
  /\ phase = Resting /\ seen = Nothing
  /\ tickets = [c \in PrConsumer |-> NoTicket]
  /\ memory = [k \in Key |-> Absent] /\ incidents = memory
  /\ alerts = {} /\ policy = [k \in Key |-> "none"]
  /\ slack = [k \in Key |-> "none"]
  /\ filed = [c \in PrConsumer |-> 0] /\ unsaved = {} /\ unsure = {}
  /\ refusals = 0

AtStep(step) == phase.step = step
To(step)     == phase' = [step |-> step, todo |-> {}]
For(step, k) == phase' = [step |-> step, todo |-> {k}]
Its          == CHOOSE k \in phase.todo : TRUE

Refusal == refusals < MaxRefusals /\ refusals' = refusals + 1

(* collect_snapshot, collect_prs and the evaluations.                      *)
StartCycle ==
  /\ phase = Resting
  /\ \E o \in Observation :
       /\ seen' = o
       /\ phase' = [step |-> "tickets", todo |-> Paged(o)]
       /\ alerts' = Evaluated(o)
  /\ UNCHANGED <<memory, files, slack, filed, unsaved, unsure, refusals>>

------------------------------------------------------------------------------
(* ensure_ticket: one issue per pull request, a comment when its head      *)
(* moves.  Nothing that fails here stops the cycle; the record of an issue *)
(* is lost when tickets.json cannot be written.                            *)
Ticketed(c) == phase' = [phase EXCEPT !.todo = @ \ {c}]

(* Mutant: a new head is a new issue.                                      *)
NeedsIssueByHead(c) == tickets[c] # seen.pr[c].head

NeedsIssue(c) == tickets[c] = NoTicket

CreateIssue(c) ==
  /\ AtStep("tickets") /\ c \in phase.todo
  /\ NeedsIssue(c)
  /\ Ticketed(c)
  /\ \/ Refusal /\ UNCHANGED <<tickets, filed, unsaved>>
     \/ /\ filed' = [filed EXCEPT ![c] = @ + 1]
        /\ \/ /\ tickets' = [tickets EXCEPT ![c] = seen.pr[c].head]
              /\ UNCHANGED <<unsaved, refusals>>
           \/ Refusal /\ unsaved' = unsaved \cup {c} /\ UNCHANGED tickets
  /\ UNCHANGED <<seen, memory, alerts, incidents, policy, slack, unsure>>

Comment(c) ==
  /\ AtStep("tickets") /\ c \in phase.todo
  /\ ~NeedsIssue(c)
  /\ Ticketed(c)
  /\ \/ Refusal /\ UNCHANGED tickets
     \/ tickets' = [tickets EXCEPT ![c] = seen.pr[c].head] /\ UNCHANGED refusals
  /\ UNCHANGED <<seen, memory, alerts, incidents, policy, slack, filed,
                 unsaved, unsure>>

------------------------------------------------------------------------------
(* reconcile.                                                              *)

LoadIncidents ==
  /\ AtStep("tickets") /\ phase.todo = {}
  /\ memory' = incidents
  /\ To("recover")
  /\ UNCHANGED <<seen, alerts, files, slack, filed, unsaved, unsure,
                 refusals>>

Recovered == {k \in Key : memory[k].open} \ (Evaluated(seen) \cup Held(seen))

(* A recovery is posted only for an incident whose alert was accepted.     *)
PostRecovery ==
  /\ AtStep("recover") /\ Recovered # {}
  /\ \E k \in Recovered :
       /\ For("resolve", k)
       /\ IF memory[k].posted THEN slack' = [slack EXCEPT ![k] = "recovered"]
                              ELSE UNCHANGED slack
  /\ UNCHANGED <<seen, memory, alerts, files, filed, unsaved, unsure,
                 refusals>>

Resolve ==
  /\ AtStep("resolve")
  /\ memory' = [memory EXCEPT ![Its] = Absent]
  /\ incidents' = memory'
  /\ unsure' = unsure \ (IF memory[Its].posted THEN {Its} ELSE {})
  /\ To("recover")
  /\ UNCHANGED <<seen, alerts, tickets, policy, slack, filed, unsaved,
                 refusals>>

(* Mutant: any accepted message counts as this one's delivery.             *)
DeliveredOnce(k) == memory[k].open /\ memory[k].posted

Delivered(k) ==
  memory[k].open /\ memory[k].posted /\ memory[k].severity = Severity(seen, k)

(* AlertPolicy.should_post, which records its decision when it makes it:   *)
(* it may suppress what is not worse than the last it let through, and     *)
(* does not when asked for a cadence of 0.                                 *)
Worse(k) == \/ policy[k] = "none"
            \/ policy[k] = "warning" /\ Severity(seen, k) = "critical"
MayBeDuplicate(k) == Delivered(k) /\ ~Worse(k)

Entry(k) == IF memory[k].open THEN memory[k] ELSE Opened

Suppress ==
  /\ AtStep("recover") /\ Recovered = {}
  /\ \E k \in alerts :
       /\ MayBeDuplicate(k)
       /\ alerts' = alerts \ {k}
       /\ memory' = [memory EXCEPT ![k] = Entry(k)]
       /\ incidents' = memory'
  /\ UNCHANGED <<phase, seen, tickets, policy, slack, filed, unsaved, unsure,
                 refusals>>

LetThrough ==
  /\ AtStep("recover") /\ Recovered = {}
  /\ \E k \in alerts :
       /\ policy' = [policy EXCEPT ![k] = Severity(seen, k)]
       /\ memory' = [memory EXCEPT ![k] = Entry(k)]
       /\ For(IF Severity(seen, k) = "critical" /\ ~Entry(k).ticket
                THEN "escalate" ELSE "post", k)
  /\ UNCHANGED <<seen, alerts, tickets, incidents, slack, filed, unsaved,
                 unsure, refusals>>

(* The Plane incident of a critical consumer, recorded before the post.    *)
Escalate ==
  /\ AtStep("escalate")
  /\ memory' = [memory EXCEPT ![Its].ticket = TRUE]
  /\ incidents' = memory'
  /\ For("post", Its)
  /\ UNCHANGED <<seen, alerts, tickets, policy, slack, filed, unsaved, unsure,
                 refusals>>

Post ==
  /\ AtStep("post")
  /\ slack' = [slack EXCEPT ![Its] = Severity(seen, Its)]
  /\ For("posted", Its)
  /\ UNCHANGED <<seen, memory, alerts, files, filed, unsaved, unsure,
                 refusals>>

Posted ==
  /\ AtStep("posted")
  /\ memory' = [memory EXCEPT ![Its].posted = TRUE,
                              ![Its].severity = Severity(seen, Its)]
  /\ incidents' = memory'
  /\ unsure' = unsure \ {Its}
  /\ alerts' = alerts \ {Its}
  /\ To("recover")
  /\ UNCHANGED <<seen, tickets, policy, slack, filed, unsaved, refusals>>

(* Any call refused in reconcile, an exhausted budget or a kill ends the   *)
(* cycle where it is.                                                      *)
Abort ==
  /\ phase # Resting /\ Refusal
  /\ phase' = Resting /\ seen' = Nothing /\ alerts' = {}
  /\ memory' = [k \in Key |-> Absent]
  /\ unsure' = unsure \cup
       {k \in phase.todo : \/ phase.step = "posted"
                           \/ phase.step = "resolve" /\ memory[k].posted}
  /\ UNCHANGED <<files, slack, filed, unsaved>>

(* The heartbeat the off-box watchman looks for (COMPLETE_FILE).           *)
Complete ==
  /\ AtStep("recover") /\ Recovered = {} /\ alerts = {}
  /\ phase' = Resting /\ seen' = Nothing
  /\ memory' = [k \in Key |-> Absent]
  /\ UNCHANGED <<alerts, files, slack, filed, unsaved, unsure, refusals>>

------------------------------------------------------------------------------
MonitorNext ==
  \/ StartCycle
  \/ \E c \in PrConsumer : CreateIssue(c) \/ Comment(c)
  \/ LoadIncidents
  \/ PostRecovery
  \/ Resolve
  \/ Suppress
  \/ LetThrough
  \/ Escalate
  \/ Post
  \/ Posted
  \/ Abort
  \/ Complete

MonitorSpec == MonitorInit /\ [][MonitorNext]_monitorVars

------------------------------------------------------------------------------
(* A heartbeat means that people were told: when a cycle completes, every  *)
(* problem it found stands in the channel as its last word, at its present *)
(* severity, and no healthy consumer stands there as a problem, whatever   *)
(* was refused, suppressed or killed before ("a rejected escalation must   *)
(* retain retry authority").  Not so for a key whose last message was      *)
(* accepted from a cycle that could not record it.                         *)
HeartbeatMeansTold ==
  [][Complete =>
       \A k \in Key \ unsure :
         /\ k \in Evaluated(seen) => slack[k] = Severity(seen, k)
         /\ k \notin Evaluated(seen) \cup Held(seen) =>
              slack[k] \in {"none", "recovered"}]_monitorVars

(* A pull request has one issue, however often its head and its trouble    *)
(* change, unless the record of an issue could not be written ("exactly    *)
(* one ticket per PR").                                                    *)
OneIssuePerPr == \A c \in PrConsumer : filed[c] > 1 => c \in unsaved
=============================================================================
