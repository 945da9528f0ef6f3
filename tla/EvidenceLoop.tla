------------------------------ MODULE EvidenceLoop ------------------------------
(***************************************************************************)
(* The evidence loop (loops/evidence_loop/loop.py): checks gather evidence *)
(* over a working tree, an agent changes the tree, and the checks, never   *)
(* the agent, decide when it is done.                                      *)
(*                                                                         *)
(* The tree is what each check would find in it: "ok", or an output that   *)
(* tells of a failure.  An agent that times out is killed, the processes   *)
(* it started are not: they go on writing.  A check is taken to leave the  *)
(* tree as it finds it; the code does not see to that.                     *)
(***************************************************************************)
EXTENDS Integers

CONSTANTS
  Checks,       \* the number of [[checks]], which run in order
  MaxAttempts,  \* [limits] max_attempts
  Output,       \* what a failing check may print
  MaxTimeouts   \* bound: checks and agents that time out

ASSUME SomeEvidence ==
  /\ Checks \in Nat \ {0} /\ MaxAttempts \in Nat
  /\ {"ok", "none", "timeout"} \cap Output = {}

VARIABLES
  work,       \* the tree: work[c] is what check c would find now
  hasAgent,   \* an agent is configured and --check-only not given
  at,         \* where main is
  attempt,    \* n
  results,    \* results[c]: of this attempt, "none" before it ran
  last,       \* the results of the attempt before
  answer,     \* the exit status, -1 while main runs
  straggler,  \* a process of a killed agent is left
  timeouts    \* bound: so far

loopVars == <<work, hasAgent, at, attempt, results, last, answer, straggler,
              timeouts>>

Check   == 1..Checks
Finding == Output \cup {"ok"}
Unknown == [c \in Check |-> "none"]

LoopInit ==
  /\ work \in [Check -> Finding] /\ hasAgent \in BOOLEAN
  /\ at = IF MaxAttempts = 0 THEN "exit" ELSE "checks"
  /\ attempt = 1 /\ results = Unknown /\ last = Unknown
  /\ answer = -1 /\ straggler = FALSE /\ timeouts = 0

Late == timeouts < MaxTimeouts /\ timeouts' = timeouts + 1

(* run_check, the next one in order: a failure is a result; so is a        *)
(* timeout, whatever the check would have found.                           *)
RunCheck(c) ==
  /\ at = "checks" /\ results[c] = "none"
  /\ \A b \in 1..(c - 1) : results[b] # "none"
  /\ \/ results' = [results EXCEPT ![c] = work[c]] /\ UNCHANGED timeouts
     \/ results' = [results EXCEPT ![c] = "timeout"] /\ Late
  /\ at' = IF c = Checks THEN "decide" ELSE "checks"
  /\ UNCHANGED <<work, hasAgent, attempt, last, answer, straggler>>

Passed == \A c \in Check : results[c] = "ok"

(* Attempt.digest: the failures, by check and output.                      *)
NoProgress == attempt > 1 /\ results = last

(* Mutant: the agent also runs after the last evidence.                    *)
NeverSpent == attempt > MaxAttempts

Spent == attempt = MaxAttempts

Stops == Passed \/ ~hasAgent \/ NoProgress \/ Spent

Decide ==
  /\ at = "decide"
  /\ at' = IF Stops THEN "exit" ELSE "agent"
  /\ UNCHANGED <<work, hasAgent, attempt, results, last, answer, straggler,
                 timeouts>>

(* The agent may do anything to the tree.  The next attempt begins; after  *)
(* the last one the loop is over.                                          *)
NextAttempt ==
  /\ work' \in [Check -> Finding]
  /\ last' = results
  /\ attempt' = attempt + 1
  /\ IF attempt < MaxAttempts THEN at' = "checks" /\ results' = Unknown
     ELSE at' = "exit" /\ UNCHANGED results
  /\ UNCHANGED <<hasAgent, answer>>

AgentExits == at = "agent" /\ NextAttempt /\ UNCHANGED <<straggler, timeouts>>

AgentTimesOut ==
  at = "agent" /\ NextAttempt /\ Late /\ straggler' \in {straggler, TRUE}

StrayWrites ==
  /\ straggler /\ answer = -1
  /\ \E c \in Check, f \in Finding : work' = [work EXCEPT ![c] = f]
  /\ UNCHANGED <<hasAgent, at, attempt, results, last, answer, straggler,
                 timeouts>>

(* The exit status is that of the last attempt's evidence.                 *)
Return ==
  /\ at = "exit" /\ answer = -1
  /\ answer' = IF Passed THEN 0 ELSE 1
  /\ UNCHANGED <<work, hasAgent, at, attempt, results, last, straggler, timeouts>>

LoopNext ==
  \/ \E c \in Check : RunCheck(c)
  \/ Decide \/ AgentExits \/ AgentTimesOut \/ StrayWrites \/ Return

LoopSpec == LoopInit /\ [][LoopNext]_loopVars

------------------------------------------------------------------------------
(* What the loop answers is true of the tree it leaves ("evidence, not     *)
(* confidence"): the agent never acts after the last evidence.  A check    *)
(* that timed out counts as failed, and a process left behind may write    *)
(* after it was looked at.                                                 *)
ExitIsEvidence ==
  answer # -1 /\ ~straggler /\ MaxAttempts > 0 =>
    /\ answer = 0 => \A c \in Check : work[c] = "ok"
    /\ answer = 1 => \E c \in Check : work[c] # "ok" \/ results[c] = "timeout"
=============================================================================
