----------------------------- MODULE ServiceProofs -----------------------------
(***************************************************************************)
(* The promises of what works beside the scheduler: the artifact files,    *)
(* the evidence loop, the swarm runner and the contract-sync monitor.      *)
(* They share nothing; each part below has an inductive invariant of its   *)
(* own, for any number of callers, checks, lanes, keys and faults.         *)
(***************************************************************************)
EXTENDS ArtifactFiles, EvidenceLoop, Swarm, PrMonitor, TLAPS

-----------------------------------------------------------------------------
(* ArtifactFiles.                                                          *)
(*                                                                         *)
(* RecordedIsReadable is about the file of a recorded value, which a power *)
(* failure may take away; what it may not take away is a durable one,      *)
(* unless it takes the shard, and then the value is torn.  So the          *)
(* invariant follows a put: linked, the file is there; done or recorded,   *)
(* it is durable or one of the excepted ones.                              *)

Safe == durable \cup met \cup damaged \cup torn

FileTypes ==
  /\ file \in [Value -> {"none", "whole", "damaged"}]
  /\ put \in [Caller -> [at : {"idle", "written", "linked", "done"},
                         value : Value \cup {NoPut.value}]]
  /\ \A c \in Caller : ~PutAt(c, "idle") => put[c].value \in Value
  /\ durable \subseteq Value

DamageKnown   == \A v \in Value : file[v] = "damaged" => v \in damaged
DurableIsHere == \A v \in durable : file[v] # "none"
LinkedIsHere  == \A c \in Caller : PutAt(c, "linked") => file[put[c].value] # "none"
DoneIsSafe    == \A c \in Caller : PutAt(c, "done") => put[c].value \in Safe
RecordedIsSafe == recorded \subseteq Safe /\ recorded \subseteq Value

(* A value in met or torn may be gone; the others in Safe are whole or     *)
(* damaged.                                                                *)
FileInv == /\ FileTypes /\ DamageKnown /\ DurableIsHere /\ LinkedIsHere /\ DoneIsSafe
        /\ RecordedIsSafe

LEMMA FileInitHolds == FileInit => FileInv
  BY DEF FileInit, FileInv, FileTypes, DamageKnown, DurableIsHere, LinkedIsHere, DoneIsSafe,
         RecordedIsSafe, Safe, PutAt, NoPut

LEMMA FileImplies == FileInv => RecordedIsReadable
  BY DEF FileInv, FileTypes, DamageKnown, DurableIsHere, RecordedIsSafe, Safe,
         RecordedIsReadable, Get

LEMMA WriteKeeps == ASSUME FileInv, NEW c \in Caller, Write(c) PROVE FileInv'
  BY DEF FileInv, FileTypes, DamageKnown, DurableIsHere, LinkedIsHere, DoneIsSafe,
         RecordedIsSafe, Safe, PutAt, Write

LEMMA LinkKeeps == ASSUME FileInv, NEW c \in Caller, Link(c) PROVE FileInv'
<1> DEFINE v == put[c].value
<1>0. v \in Value /\ put[c].at = "written"
  BY DEF Link, PutAt, FileInv, FileTypes
<1>1. CASE file[v] = "none"
  <2>1. file' = [file EXCEPT ![v] = "whole"] /\ put' = [put EXCEPT ![c].at = "linked"]
    BY <1>1 DEF Link, PutGoto
  <2> QED BY <1>0, <2>1 DEF Link, FileInv, FileTypes, DamageKnown, DurableIsHere,
             LinkedIsHere, DoneIsSafe, RecordedIsSafe, Safe, PutAt
<1>2. CASE file[v] = "whole"
  <2>1. /\ put' = [put EXCEPT ![c].at = "done"] /\ UNCHANGED file
        /\ v \in Safe' /\ Safe \subseteq Safe'
    BY <1>2 DEF Link, PutGoto, Safe
  <2> QED BY <1>0, <2>1 DEF Link, FileInv, FileTypes, DamageKnown, DurableIsHere,
             LinkedIsHere, DoneIsSafe, RecordedIsSafe, PutAt
<1>3. CASE file[v] = "damaged"
  <2>1. put' = [put EXCEPT ![c] = NoPut] /\ UNCHANGED <<file, met>>
    BY <1>3 DEF Link, PutEnds
  <2> QED BY <1>0, <2>1 DEF Link, FileInv, FileTypes, DamageKnown, DurableIsHere,
             LinkedIsHere, DoneIsSafe, RecordedIsSafe, Safe, PutAt, NoPut
<1> QED BY <1>0, <1>1, <1>2, <1>3 DEF FileInv, FileTypes

(* The value itself is among what the flush reaches, and what it takes out *)
(* of torn it puts into durable.                                           *)
LEMMA SyncKeeps == ASSUME FileInv, NEW c \in Caller, Sync(c) PROVE FileInv'
<1> DEFINE v == put[c].value
           flushed == {u \in Value : file[u] # "none" /\ ShardOf[u] = ShardOf[v]}
<1>1. /\ put[c].at = "linked" /\ put' = [put EXCEPT ![c].at = "done"]
      /\ durable' = durable \cup flushed /\ torn' = torn \ flushed
      /\ UNCHANGED <<file, recorded, met, damaged>>
  BY DEF Sync, PutAt, PutGoto
<1>2. v \in flushed /\ v \in Safe' /\ Safe \subseteq Safe'
  BY <1>1 DEF FileInv, FileTypes, LinkedIsHere, PutAt, Safe
<1>3. FileTypes' /\ DamageKnown' /\ DurableIsHere' /\ LinkedIsHere'
  BY <1>1 DEF FileInv, FileTypes, DamageKnown, DurableIsHere, LinkedIsHere, PutAt
<1>4. DoneIsSafe' /\ RecordedIsSafe'
  BY <1>1, <1>2 DEF FileInv, FileTypes, DoneIsSafe, RecordedIsSafe, PutAt
<1> QED BY <1>3, <1>4 DEF FileInv

LEMMA RecordKeeps == ASSUME FileInv, NEW c \in Caller, Record(c) PROVE FileInv'
  BY DEF FileInv, FileTypes, DamageKnown, DurableIsHere, LinkedIsHere, DoneIsSafe,
         RecordedIsSafe, Safe, PutAt, PutEnds, NoPut, Record

LEMMA CrashKeeps == ASSUME FileInv, NEW c \in Caller, CallerCrash(c) PROVE FileInv'
  BY DEF FileInv, FileTypes, DamageKnown, DurableIsHere, LinkedIsHere, DoneIsSafe,
         RecordedIsSafe, Safe, PutAt, PutEnds, NoPut, CallerCrash

LEMMA ValidateKeeps ==
  ASSUME FileInv, NEW v \in Value, ValidateAccepted(v) PROVE FileInv'
  BY DEF FileInv, FileTypes, DamageKnown, DurableIsHere, LinkedIsHere, DoneIsSafe,
         RecordedIsSafe, Safe, PutAt, ValidateAccepted

LEMMA DamageKeeps == ASSUME FileInv, NEW v \in Value, Damage(v) PROVE FileInv'
  BY DEF FileInv, FileTypes, DamageKnown, DurableIsHere, LinkedIsHere, DoneIsSafe,
         RecordedIsSafe, Safe, PutAt, Damage

(* What is durable is not lost unless it is torn, and what is left is      *)
(* durable.                                                                *)
LEMMA PowerFailureKeeps == ASSUME FileInv, PowerFailure PROVE FileInv'
<1>1. PICK gone \in SUBSET (shards \ rooted), lost \in SUBSET (Value \ durable) :
        /\ torn' = torn \cup {v \in durable : ShardOf[v] \in gone}
        /\ file' = [v \in Value |-> IF v \in lost \/ ShardOf[v] \in gone
                                     THEN "none" ELSE file[v]]
  BY DEF PowerFailure
<1>2. durable' = {v \in Value : file'[v] # "none"} /\ Safe \subseteq Safe'
  BY <1>1 DEF PowerFailure, FileInv, FileTypes, DurableIsHere, Safe
<1>3. FileTypes' /\ LinkedIsHere' /\ DoneIsSafe'
  BY <1>1, <1>2 DEF PowerFailure, FileInv, FileTypes, LinkedIsHere, DoneIsSafe, PutAt, NoPut
<1>4. DamageKnown' /\ DurableIsHere'
  BY <1>1, <1>2 DEF PowerFailure, FileInv, FileTypes, DamageKnown, DurableIsHere
<1>5. RecordedIsSafe'
  BY <1>2 DEF PowerFailure, FileInv, RecordedIsSafe
<1> QED BY <1>3, <1>4, <1>5 DEF FileInv

(* "artifact publish fsyncs containing directory" (tests/test_artifacts):  *)
(* what the database refers to can be read unless something else damaged   *)
(* it, a put met it before it was flushed, or a power failure took its     *)
(* shard, for every value of the constants.                                *)
THEOREM ArtifactsReadable == FileSpec => []RecordedIsReadable
<1>1. FileInit => FileInv
  BY FileInitHolds
<1>2. FileInv /\ [FileNext]_fileVars => FileInv'
  <2> SUFFICES ASSUME FileInv, [FileNext]_fileVars PROVE FileInv'
    OBVIOUS
  <2>1. ASSUME NEW c \in Caller,
               Write(c) \/ Link(c) \/ Sync(c) \/ Record(c) \/ CallerCrash(c)
        PROVE  FileInv'
    BY <2>1, WriteKeeps, LinkKeeps, SyncKeeps, RecordKeeps, CrashKeeps
  <2>2. ASSUME NEW v \in Value, ValidateAccepted(v) \/ Damage(v) PROVE FileInv'
    BY <2>2, ValidateKeeps, DamageKeeps
  <2>3. CASE UNCHANGED fileVars
    BY <2>3 DEF fileVars, FileInv, FileTypes, DamageKnown, DurableIsHere, LinkedIsHere,
                DoneIsSafe, RecordedIsSafe, Safe, PutAt
  <2> QED BY <2>1, <2>2, <2>3, PowerFailureKeeps DEF FileNext
<1> QED BY <1>1, <1>2, FileImplies, PTL DEF FileSpec

-----------------------------------------------------------------------------
(* EvidenceLoop.                                                           *)

LoopTypes ==
  /\ work \in [Check -> Finding]
  /\ results \in [Check -> Finding \cup {"none", "timeout"}]
  /\ at \in {"checks", "decide", "agent", "exit"}
  /\ attempt \in Nat /\ answer \in {-1, 0, 1} /\ straggler \in BOOLEAN

(* Every check has answered before a decision.                             *)
EvidenceGathered ==
  at \in {"decide", "agent", "exit"} /\ MaxAttempts > 0 =>
    \A c \in Check : results[c] # "none"

(* What was found is still there, ...                                      *)
EvidenceHolds ==
  ~straggler => \A c \in Check : results[c] \in {"none", "timeout", work[c]}

(* ... because an agent that runs is followed by another attempt.          *)
AgentNotLast ==
  /\ at \in {"checks", "decide"} => attempt <= MaxAttempts
  /\ at = "agent" => attempt < MaxAttempts

ExitOfEvidence ==
  answer # -1 => at = "exit" /\ answer = (IF Passed THEN 0 ELSE 1)

LoopInv ==
  LoopTypes /\ EvidenceGathered /\ EvidenceHolds /\ AgentNotLast /\ ExitOfEvidence

LEMMA LoopInitHolds == LoopInit => LoopInv
<1>. SUFFICES ASSUME LoopInit PROVE LoopInv
  OBVIOUS
<1>1. Unknown \in [Check -> Finding \cup {"none", "timeout"}]
  BY DEF Unknown
<1>2. \A c \in Check : results[c] = "none"
  BY DEF LoopInit, Unknown
<1>3. LoopTypes
  BY <1>1 DEF LoopInit, LoopTypes
<1>4. EvidenceGathered /\ AgentNotLast
  BY SomeEvidence DEF LoopInit, EvidenceGathered, AgentNotLast
<1>. QED  BY <1>2, <1>3, <1>4 DEF LoopInit, LoopInv, EvidenceHolds, ExitOfEvidence

(* A check's answer is of the tree as it is.                               *)
LEMMA CheckKeeps == ASSUME LoopInv, NEW c \in Check, RunCheck(c) PROVE LoopInv'
<1>1. LoopTypes' /\ EvidenceHolds' /\ AgentNotLast' /\ ExitOfEvidence'
  BY SomeEvidence DEF LoopInv, LoopTypes, EvidenceHolds, AgentNotLast, ExitOfEvidence,
    RunCheck, Late, Finding, Check
<1>2. EvidenceGathered'
  <2>1. c = Checks => \A b \in Check : b = c \/ results[b] # "none"
    BY SomeEvidence DEF RunCheck, Check
  <2>2. work[c] # "none"
    BY SomeEvidence DEF LoopInv, LoopTypes, Finding
  <2>. QED  BY <2>1, <2>2 DEF LoopInv, LoopTypes, EvidenceGathered, RunCheck, Late
<1>. QED  BY <1>1, <1>2 DEF LoopInv

LEMMA DecideKeeps == ASSUME LoopInv, Decide PROVE LoopInv'
BY SomeEvidence DEF LoopInv, LoopTypes, EvidenceGathered, EvidenceHolds, AgentNotLast,
  ExitOfEvidence, Decide, Stops, Spent, Passed

(* The agent's changes are looked at in the attempt that follows.          *)
LEMMA AgentKeeps ==
  ASSUME LoopInv, AgentExits \/ AgentTimesOut PROVE LoopInv'
<1>1. /\ attempt < MaxAttempts /\ at' = "checks" /\ results' = Unknown
      /\ work' \in [Check -> Finding] /\ attempt' = attempt + 1 /\ UNCHANGED answer
      /\ straggler' \in BOOLEAN
  BY DEF LoopInv, LoopTypes, AgentNotLast, AgentExits, AgentTimesOut, NextAttempt
<1>2. answer' = -1
  BY <1>1 DEF LoopInv, ExitOfEvidence, AgentExits, AgentTimesOut
<1>. QED
  BY <1>1, <1>2, SomeEvidence DEF LoopInv, LoopTypes, EvidenceGathered, EvidenceHolds,
    AgentNotLast, ExitOfEvidence, Unknown

LEMMA StrayKeeps == ASSUME LoopInv, StrayWrites PROVE LoopInv'
BY DEF LoopInv, LoopTypes, EvidenceGathered, EvidenceHolds, AgentNotLast, ExitOfEvidence,
  StrayWrites, Passed

LEMMA ReturnKeeps == ASSUME LoopInv, Return PROVE LoopInv'
BY DEF LoopInv, LoopTypes, EvidenceGathered, EvidenceHolds, AgentNotLast, ExitOfEvidence,
  Return, Passed

(* ExitIsEvidence, of any checks, attempts and outputs.                    *)
THEOREM AnswerIsTrue == LoopSpec => []ExitIsEvidence
<1>1. LoopInv /\ [LoopNext]_loopVars => LoopInv'
  <2>. SUFFICES ASSUME LoopInv, [LoopNext]_loopVars PROVE LoopInv'
    OBVIOUS
  <2>1. CASE UNCHANGED loopVars
    BY <2>1 DEF loopVars, LoopInv, LoopTypes, EvidenceGathered, EvidenceHolds,
      AgentNotLast, ExitOfEvidence, Passed
  <2>. QED  BY <2>1, CheckKeeps, DecideKeeps, AgentKeeps, StrayKeeps, ReturnKeeps
            DEF LoopNext
<1>2. LoopInv => ExitIsEvidence
  <2>. SUFFICES ASSUME LoopInv, answer # -1, ~straggler, MaxAttempts > 0
                PROVE  /\ answer = 0 => \A c \in Check : work[c] = "ok"
                       /\ answer = 1 => \E c \in Check : \/ work[c] # "ok"
                                                       \/ results[c] = "timeout"
    BY DEF ExitIsEvidence
  <2>1. \A c \in Check : results[c] \in {"timeout", work[c]}
    BY DEF LoopInv, EvidenceGathered, EvidenceHolds, ExitOfEvidence
  <2>. QED  BY <2>1 DEF LoopInv, ExitOfEvidence, Passed
<1>. QED  BY LoopInitHolds, <1>1, <1>2, PTL DEF LoopSpec

-----------------------------------------------------------------------------
(* Swarm.                                                                  *)
(*                                                                         *)
(* What SuccessIsProven says of the end holds of each lane from the moment *)
(* its worktree is created: git creates it anew, or the lane fails.        *)

Place == {"queued", "create", "agent", "checks", "passed", "verify",
          "verified", "failed"}

Writers == SUBSET (Nat \X Lane \X {"agent", "judge", "stray"})

LaneTypes ==
  /\ lane \in [Lane -> [at : Place, judged : Writers, refuted : Nat]]
  /\ tree \in [Lane -> Writers]
  /\ swarm \in Nat

(* Of a swarm that runs or that has succeeded.                             *)
Current == exit \in {"none", "success"}

Agents(l) == {<<swarm, l, "agent">>}
Judges(l) == {<<swarm, l, "judge">>}

(* A lane past its creation has a branch and, unless a process was left    *)
(* behind, a worktree nobody but its own agent has written to until the    *)
(* checks find it, and its judges from then on.                            *)
LaneHolds(l) ==
  /\ lane[l].at \in {"agent", "checks", "passed", "verify", "verified"} =>
       l \in branches
  /\ lane[l].at \in {"agent", "checks"} /\ l \notin stray =>
       tree[l] \subseteq Agents(l)
  /\ lane[l].at \in {"passed", "verify", "verified"} /\ l \notin stray =>
       /\ tree[l] \subseteq Agents(l) \cup Judges(l)
       /\ tree[l] \ Judges(l) = lane[l].judged

LanesHold == Current => \A l \in Lane : LaneHolds(l)

SuccessConfirmed == exit = "success" => \A l \in Lane : Confirmed(l)

LaneInv == LaneTypes /\ LanesHold /\ SuccessConfirmed

LEMMA LaneInitHolds == SwarmInit => LaneInv
<1> SUFFICES ASSUME SwarmInit PROVE LaneInv
  OBVIOUS
<1>1. Queued \in [at : Place, judged : Writers, refuted : Nat]
  BY DEF Queued, Place, Writers
<1>2. LaneTypes
  BY <1>1 DEF SwarmInit, LaneTypes, Writers
<1> QED BY <1>2 DEF SwarmInit, LaneInv, LanesHold, SuccessConfirmed, Current

LEMMA LaneImplies == ASSUME LaneInv PROVE SuccessIsProven
<1> SUFFICES ASSUME exit = "success", NEW l \in Lane \ stray
             PROVE  /\ l \in branches
                    /\ tree[l] \subseteq {<<swarm, l, "agent">>, <<swarm, l, "judge">>}
                    /\ tree[l] \ {<<swarm, l, "judge">>} = lane[l].judged
                    /\ lane[l].refuted <= Refuters - lane[l].refuted
  BY DEF SuccessIsProven
<1>1. lane[l].at = "verified" /\ 2 * lane[l].refuted <= Refuters
  BY DEF LaneInv, SuccessConfirmed, Confirmed
<1>2. lane[l].refuted \in Nat
  BY DEF LaneInv, LaneTypes
<1>3. lane[l].refuted <= Refuters - lane[l].refuted
  BY <1>1, <1>2, SwarmAssumption
<1> QED BY <1>1, <1>3 DEF LaneInv, LanesHold, LaneHolds, Current, Agents, Judges

(* A step of one lane in a running swarm has only that lane to show.       *)
LEMMA OneLane ==
  ASSUME LaneInv, exit = "none", NEW l \in Lane, LaneTypes',
         UNCHANGED <<swarm, exit>>,
         \A k \in Lane \ {l} :
           /\ lane'[k] = lane[k] /\ tree'[k] = tree[k]
           /\ (k \in branches => k \in branches')
           /\ (k \in stray => k \in stray'),
         LaneHolds(l)'
  PROVE  LaneInv'
<1>1. ASSUME NEW k \in Lane PROVE LaneHolds(k)'
  <2>1. CASE k = l
    BY <2>1
  <2>2. CASE k # l
    <3>1. LaneHolds(k)
      BY DEF LaneInv, LanesHold, Current
    <3> QED BY <2>2, <3>1 DEF LaneHolds, Agents, Judges
  <2> QED BY <2>1, <2>2
<1> QED BY <1>1 DEF LaneInv, LanesHold, SuccessConfirmed, Current

LEMMA StartKeeps == ASSUME LaneInv, StartSwarm PROVE LaneInv'
<1>1. \A l \in Lane : lane'[l].at = "queued"
  BY DEF StartSwarm, Queued
<1>2. Queued \in [at : Place, judged : Writers, refuted : Nat]
  BY DEF Queued, Place, Writers
<1>3. LaneTypes'
  BY <1>2 DEF StartSwarm, LaneInv, LaneTypes, Writers
<1> QED BY <1>1, <1>3 DEF StartSwarm, LaneInv, LanesHold, LaneHolds,
           SuccessConfirmed

(* Moving on keeps the types; what it must show of the lane is left.       *)
LEMMA GotoTypes ==
  ASSUME LaneTypes, NEW l \in Lane, NEW place \in Place, LaneGoto(l, place),
         UNCHANGED swarm, tree' \in [Lane -> Writers]
  PROVE  /\ LaneTypes'
         /\ lane'[l].at = place /\ lane'[l].judged = lane[l].judged
         /\ \A k \in Lane \ {l} : lane'[k] = lane[k]
  BY DEF LaneTypes, LaneGoto

LEMMA LockKeeps == ASSUME LaneInv, NEW l \in Lane, Lock(l) PROVE LaneInv'
<1>1. LaneGoto(l, "create") /\ exit = "none"
      /\ UNCHANGED <<swarm, exit, tree, branches, stray>>
  BY DEF Lock, LaneAt, Running
<1>2. /\ LaneTypes' /\ lane'[l].at = "create"
      /\ \A k \in Lane \ {l} : lane'[k] = lane[k]
  BY <1>1, GotoTypes DEF LaneInv, LaneTypes, Place
<1>3. LaneHolds(l)'
  BY <1>2 DEF LaneHolds
<1> QED BY <1>1, <1>2, <1>3, OneLane

(* A branch that is there fails the lane: its worktree is not looked at.   *)
LEMMA MakeWorktreeKeeps == ASSUME LaneInv, NEW l \in Lane, MakeWorktree(l) PROVE LaneInv'
<1>1. CASE l \notin branches
  <2>1. /\ tree' = [tree EXCEPT ![l] = {}] /\ branches' = branches \cup {l}
        /\ LaneGoto(l, "agent")
        /\ UNCHANGED <<swarm, exit, stray>> /\ exit = "none"
    BY <1>1 DEF MakeWorktree, Creates, LaneAt, Running
  <2>2. tree' \in [Lane -> Writers] /\ tree'[l] = {}
        /\ \A k \in Lane \ {l} : tree'[k] = tree[k]
    BY <2>1 DEF LaneInv, LaneTypes, Writers
  <2>3. /\ LaneTypes' /\ lane'[l].at = "agent"
        /\ \A k \in Lane \ {l} : lane'[k] = lane[k]
    BY <2>1, <2>2, GotoTypes DEF LaneInv, Place
  <2>4. LaneHolds(l)'
    BY <2>1, <2>2, <2>3 DEF LaneHolds
  <2> QED BY <2>1, <2>2, <2>3, <2>4, OneLane
<1>2. CASE l \in branches
  <2>1. /\ LaneGoto(l, "failed")
        /\ UNCHANGED <<swarm, exit, stray, tree, branches>> /\ exit = "none"
    BY <1>2 DEF MakeWorktree, Creates, LaneAt, Running
  <2>2. /\ LaneTypes' /\ lane'[l].at = "failed"
        /\ \A k \in Lane \ {l} : lane'[k] = lane[k]
    BY <2>1, GotoTypes DEF LaneInv, LaneTypes, Place
  <2>3. LaneHolds(l)'
    BY <2>2 DEF LaneHolds
  <2> QED BY <2>1, <2>2, <2>3, OneLane
<1> QED BY <1>1, <1>2

(* A command writes to its own lane's worktree, as whoever it is.          *)
LEMMA CommandWrites ==
  ASSUME LaneTypes, NEW l \in Lane, NEW who \in {"agent", "judge"}, Command(l, who)
  PROVE  /\ tree' \in [Lane -> Writers]
         /\ tree[l] \subseteq tree'[l]
         /\ tree'[l] \subseteq tree[l] \cup {<<swarm, l, who>>}
         /\ \A k \in Lane \ {l} : tree'[k] = tree[k]
         /\ stray \subseteq stray'
<1>1. CASE tree' = tree
  BY <1>1 DEF LaneTypes, Command
<1>2. CASE tree' = [tree EXCEPT ![l] = @ \cup {<<swarm, l, who>>}]
  <2>1. <<swarm, l, who>> \in Nat \X Lane \X {"agent", "judge", "stray"}
    BY DEF LaneTypes
  <2>2. tree[l] \cup {<<swarm, l, who>>} \in Writers
    BY <2>1 DEF LaneTypes, Writers
  <2> QED BY <1>2, <2>2 DEF LaneTypes, Command
<1> QED BY <1>1, <1>2 DEF Command

LEMMA AgentExitsKeeps == ASSUME LaneInv, NEW l \in Lane, LaneAgentExits(l) PROVE LaneInv'
<1>1. /\ LaneGoto(l, "checks") /\ lane[l].at = "agent"
      /\ UNCHANGED <<swarm, exit, branches>> /\ exit = "none"
      /\ Command(l, "agent")
  BY DEF LaneAgentExits, LaneAt, Running
<1>2. /\ tree' \in [Lane -> Writers]
      /\ tree'[l] \subseteq tree[l] \cup Agents(l)
      /\ \A k \in Lane \ {l} : tree'[k] = tree[k]
      /\ stray \subseteq stray'
  BY <1>1, CommandWrites DEF LaneInv, Agents
<1>3. /\ LaneTypes' /\ lane'[l].at = "checks"
      /\ \A k \in Lane \ {l} : lane'[k] = lane[k]
  BY <1>1, <1>2, GotoTypes DEF LaneInv, Place
<1>4. LaneHolds(l)
  BY <1>1 DEF LaneInv, LanesHold, Current
<1>5. LaneHolds(l)'
  BY <1>1, <1>2, <1>3, <1>4 DEF LaneHolds, Agents
<1> QED BY <1>1, <1>2, <1>3, <1>5, OneLane

(* What the checks find is the agent's; what is added is theirs.           *)
LEMMA RunChecksKeeps == ASSUME LaneInv, NEW l \in Lane, RunChecks(l) PROVE LaneInv'
<1>1. /\ UNCHANGED <<swarm, exit>> /\ exit = "none"
      /\ lane[l].at = "checks" /\ Command(l, "judge")
  BY DEF RunChecks, LaneAt, Running
<1>2. /\ tree' \in [Lane -> Writers]
      /\ tree[l] \subseteq tree'[l] /\ tree'[l] \subseteq tree[l] \cup Judges(l)
      /\ \A k \in Lane \ {l} : tree'[k] = tree[k]
      /\ stray \subseteq stray'
  BY <1>1, CommandWrites DEF LaneInv, Judges
<1>3. CASE lane' = [lane EXCEPT ![l].at = "passed", ![l].judged = tree[l]]
           /\ UNCHANGED branches
  <2>1. /\ LaneTypes' /\ lane'[l].at = "passed" /\ lane'[l].judged = tree[l]
        /\ \A k \in Lane \ {l} : lane'[k] = lane[k]
    BY <1>1, <1>2, <1>3 DEF LaneInv, LaneTypes, Place
  <2>2. LaneHolds(l)
    BY <1>1 DEF LaneInv, LanesHold, Current
  <2>3. Agents(l) \cap Judges(l) = {}
    BY DEF Agents, Judges
  <2>4. LaneHolds(l)'
    BY <1>1, <1>2, <1>3, <2>1, <2>2, <2>3 DEF LaneHolds, Agents, Judges
  <2> QED BY <1>1, <1>2, <1>3, <2>1, <2>4, OneLane
<1>4. CASE LaneGoto(l, "failed") /\ branches' \in {branches, branches \ {l}}
  <2>1. /\ LaneTypes' /\ lane'[l].at = "failed"
        /\ \A k \in Lane \ {l} : lane'[k] = lane[k]
    BY <1>1, <1>2, <1>4, GotoTypes DEF LaneInv, Place
  <2>2. LaneHolds(l)'
    BY <2>1 DEF LaneHolds
  <2> QED BY <1>1, <1>2, <1>4, <2>1, <2>2, OneLane
<1> QED BY <1>3, <1>4 DEF RunChecks, RemoveWorktree

LEMMA StartVerifyKeeps == ASSUME LaneInv, NEW l \in Lane, StartVerify(l) PROVE LaneInv'
<1>1. /\ LaneGoto(l, "verify") /\ lane[l].at = "passed" /\ exit = "none"
      /\ UNCHANGED <<swarm, exit, tree, branches, stray>>
  BY DEF StartVerify, LaneAt, Running
<1>2. /\ LaneTypes' /\ lane'[l].at = "verify" /\ lane'[l].judged = lane[l].judged
      /\ \A k \in Lane \ {l} : lane'[k] = lane[k]
  BY <1>1, GotoTypes DEF LaneInv, LaneTypes, Place
<1>3. LaneHolds(l)
  BY <1>1 DEF LaneInv, LanesHold, Current
<1>4. LaneHolds(l)'
  BY <1>1, <1>2, <1>3 DEF LaneHolds, Agents, Judges
<1> QED BY <1>1, <1>2, <1>4, OneLane

(* The refuters add only what is theirs.                                   *)
LEMMA EndVerifyKeeps ==
  ASSUME LaneInv, NEW l \in Lane, EndVerify(l) PROVE LaneInv'
<1> PICK n \in 0 .. Refuters :
      lane' = [lane EXCEPT ![l].at = "verified", ![l].refuted = n]
  BY DEF EndVerify
<1>1. /\ lane[l].at = "verify" /\ exit = "none"
      /\ UNCHANGED <<swarm, exit, branches>>
      /\ Command(l, "judge") \/ UNCHANGED <<tree, stray>>
  BY DEF EndVerify, LaneAt, Running
<1>2. /\ tree' \in [Lane -> Writers]
      /\ tree[l] \subseteq tree'[l] /\ tree'[l] \subseteq tree[l] \cup Judges(l)
      /\ \A k \in Lane \ {l} : tree'[k] = tree[k]
      /\ stray \subseteq stray'
  BY <1>1, CommandWrites DEF LaneInv, LaneTypes, Judges
<1>3. /\ LaneTypes' /\ lane'[l].at = "verified"
      /\ lane'[l].judged = lane[l].judged
      /\ \A k \in Lane \ {l} : lane'[k] = lane[k]
  <2>1. n \in Nat
    BY SwarmAssumption
  <2> QED BY <1>1, <1>2, <2>1 DEF LaneInv, LaneTypes, Place
<1>4. LaneHolds(l)
  BY <1>1 DEF LaneInv, LanesHold, Current
<1>5. LaneHolds(l)'
  BY <1>1, <1>3, <1>4, <1>2 DEF LaneHolds, Agents, Judges
<1> QED BY <1>1, <1>3, <1>5, <1>2, OneLane

(* Lanes with a process left behind are the ones it may write to.          *)
LEMMA StrayWritesKeeps == ASSUME LaneInv, NEW l \in Lane, LaneStrayWrites(l) PROVE LaneInv'
<1>1. tree' = [tree EXCEPT ![l] = @ \cup {<<0, l, "stray">>}] /\ l \in stray
      /\ UNCHANGED <<swarm, exit, lane, branches, stray>>
  BY DEF LaneStrayWrites
<1>2. tree[l] \cup {<<0, l, "stray">>} \in Writers
  BY DEF LaneInv, LaneTypes, Writers
<1>3. LaneTypes' /\ \A k \in Lane \ {l} : tree'[k] = tree[k]
  BY <1>1, <1>2 DEF LaneInv, LaneTypes
<1>4. \A k \in Lane : LaneHolds(k) => LaneHolds(k)'
  BY <1>1, <1>3 DEF LaneHolds, Agents, Judges
<1> QED BY <1>1, <1>3, <1>4 DEF LaneInv, LanesHold, SuccessConfirmed, Current,
           Confirmed

LEMMA CleanUpKeeps == ASSUME LaneInv, NEW l \in Lane, CleanUp(l) PROVE LaneInv'
  BY DEF CleanUp, LaneInv, LaneTypes, LanesHold, SuccessConfirmed, Current

LEMMA ExitKeeps == ASSUME LaneInv, Exit PROVE LaneInv'
<1>1. /\ exit = "none" /\ UNCHANGED <<swarm, lane, tree, branches, stray>>
      /\ exit' = "success" => \A l \in Lane : Confirmed(l)
  BY DEF Exit, Running
<1>2. LaneTypes' /\ \A l \in Lane : LaneHolds(l)'
  BY <1>1 DEF LaneInv, LaneTypes, LanesHold, LaneHolds, Current, Agents, Judges
<1> QED BY <1>1, <1>2 DEF LaneInv, LanesHold, SuccessConfirmed, Confirmed

LEMMA KillKeeps == ASSUME LaneInv, Kill PROVE LaneInv'
  BY DEF Kill, LaneInv, LaneTypes, LanesHold, SuccessConfirmed, Current

(* "Exit code is `0` only when every lane cleared the highest bar the      *)
(* config asked for" (swarm/README.md): success is evidence about what     *)
(* every lane's agent did, whatever earlier swarms have left behind and    *)
(* but for what checks and refuters write themselves.                      *)
THEOREM LanesProven == SwarmSpec => []SuccessIsProven
<1>1. SwarmInit => LaneInv
  BY LaneInitHolds
<1>2. LaneInv /\ [SwarmNext]_swarmVars => LaneInv'
  <2> SUFFICES ASSUME LaneInv, [SwarmNext]_swarmVars PROVE LaneInv'
    OBVIOUS
  <2>1. ASSUME NEW l \in Lane, LaneStep(l) PROVE LaneInv'
    BY <2>1, LockKeeps, MakeWorktreeKeeps, AgentExitsKeeps, RunChecksKeeps,
       StartVerifyKeeps, EndVerifyKeeps, StrayWritesKeeps, CleanUpKeeps
       DEF LaneStep
  <2>2. CASE UNCHANGED swarmVars
    BY <2>2 DEF swarmVars, LaneInv, LaneTypes, LanesHold, LaneHolds,
                SuccessConfirmed, Confirmed, Current, Agents, Judges
  <2> QED BY <2>1, <2>2, StartKeeps, ExitKeeps, KillKeeps DEF SwarmNext
<1>3. LaneInv => SuccessIsProven
  BY LaneImplies
<1> QED BY <1>1, <1>2, <1>3, PTL DEF SwarmSpec

-----------------------------------------------------------------------------
(* PrMonitor: one issue per pull request.  A ticket on file stands for the *)
(* issue that was created, unless it could not be written.                 *)

TicketInv ==
  /\ phase.step = "tickets" => seen \in Observation /\ phase.todo \subseteq PrConsumer
  /\ tickets = [c \in PrConsumer |-> tickets[c]]
  /\ filed \in [PrConsumer -> Nat]
  /\ \A c \in PrConsumer \ unsaved :
       filed[c] <= 1 /\ (tickets[c] = NoTicket => filed[c] = 0)

LEMMA CreateKeeps ==
  ASSUME \A o \in Observation : \A c \in PrConsumer : o.pr[c].head # NoTicket,
         TicketInv, NEW c \in PrConsumer, CreateIssue(c)
  PROVE  TicketInv'
<1>1. /\ phase'.step = "tickets" /\ phase'.todo \subseteq PrConsumer
      /\ phase.step = "tickets" /\ tickets[c] = NoTicket /\ UNCHANGED seen
  BY DEF CreateIssue, AtStep, Ticketed, NeedsIssue, TicketInv
<1>2. CASE UNCHANGED <<tickets, filed, unsaved>>
  BY <1>1, <1>2 DEF TicketInv
<1>3. CASE /\ filed' = [filed EXCEPT ![c] = @ + 1]
           /\ tickets' = [tickets EXCEPT ![c] = seen.pr[c].head]
           /\ UNCHANGED unsaved
  <2>1. seen.pr[c].head # NoTicket
    BY <1>1 DEF TicketInv
  <2>2. tickets' = [d \in PrConsumer |-> IF d = c THEN seen.pr[c].head ELSE tickets[d]]
    BY <1>3 DEF TicketInv
  <2>3. filed' = [d \in PrConsumer |-> IF d = c THEN filed[c] + 1 ELSE filed[d]]
    BY <1>3 DEF TicketInv
  <2>4. filed' \in [PrConsumer -> Nat]
    BY <2>3 DEF TicketInv
  <2>5. ASSUME NEW d \in PrConsumer \ unsaved'
        PROVE  filed'[d] <= 1 /\ (tickets'[d] = NoTicket => filed'[d] = 0)
    BY <1>1, <1>3, <2>1, <2>2, <2>3 DEF TicketInv
  <2>6. tickets' = [d \in PrConsumer |-> tickets'[d]]
    BY <2>2
  <2> QED BY <1>1, <2>4, <2>5, <2>6 DEF TicketInv
<1>4. CASE /\ filed' = [filed EXCEPT ![c] = @ + 1]
           /\ unsaved' = unsaved \cup {c} /\ UNCHANGED tickets
  BY <1>1, <1>4 DEF TicketInv
<1> QED BY <1>2, <1>3, <1>4 DEF CreateIssue

LEMMA CommentKeeps ==
  ASSUME \A o \in Observation : \A c \in PrConsumer : o.pr[c].head # NoTicket,
         TicketInv, NEW c \in PrConsumer, Comment(c)
  PROVE  TicketInv'
<1>1. /\ phase'.step = "tickets" /\ phase'.todo \subseteq PrConsumer
      /\ phase.step = "tickets" /\ UNCHANGED <<seen, filed, unsaved>>
      /\ tickets' \in {tickets, [tickets EXCEPT ![c] = seen.pr[c].head]}
  BY DEF Comment, AtStep, Ticketed, TicketInv
<1>2. seen.pr[c].head # NoTicket
  BY <1>1 DEF TicketInv
<1>3. /\ tickets' = [d \in PrConsumer |-> tickets'[d]]
      /\ \A d \in PrConsumer : tickets'[d] \in {tickets[d], seen.pr[c].head}
      /\ \A d \in PrConsumer \ {c} : tickets'[d] = tickets[d]
      /\ tickets'[c] \in {tickets[c], seen.pr[c].head}
  BY <1>1 DEF TicketInv
<1> QED BY <1>1, <1>2, <1>3 DEF TicketInv

(* OneIssuePerPr, for any repositories and observations; the head of a     *)
(* pull request, a commit, is never the absence of a ticket.               *)
THEOREM OneIssue ==
  ASSUME \A o \in Observation : \A c \in PrConsumer : o.pr[c].head # NoTicket
  PROVE  MonitorSpec => []OneIssuePerPr
<1>1. MonitorInit => TicketInv
  BY DEF MonitorInit, TicketInv, Resting, NoTicket
<1>2. TicketInv /\ [MonitorNext]_monitorVars => TicketInv'
  <2> SUFFICES ASSUME TicketInv, [MonitorNext]_monitorVars PROVE TicketInv'
    OBVIOUS
  <2>1. ASSUME NEW c \in PrConsumer, CreateIssue(c) \/ Comment(c) PROVE TicketInv'
    BY <2>1, CreateKeeps, CommentKeeps
  <2>2. CASE StartCycle
    <3>1. PICK o \in Observation :
            seen' = o /\ phase' = [step |-> "tickets", todo |-> Paged(o)]
      BY <2>2 DEF StartCycle
    <3>2. Paged(o) \subseteq PrConsumer
      BY DEF Paged, Troubled
    <3> QED BY <2>2, <3>1, <3>2 DEF TicketInv, StartCycle, files
  <2>3. CASE phase'.step # "tickets" /\ UNCHANGED <<tickets, filed, unsaved>>
    BY <2>3 DEF TicketInv
  <2>4. ASSUME LoadIncidents \/ PostRecovery \/ Resolve \/ LetThrough \/ Escalate
                 \/ Post \/ Posted \/ Abort \/ Complete
        PROVE  phase'.step # "tickets" /\ UNCHANGED <<tickets, filed, unsaved>>
    BY <2>4 DEF LoadIncidents, PostRecovery, Resolve, LetThrough, Escalate, Post,
       Posted, Abort, Complete, To, For, Resting, files
  <2>5. CASE Suppress
    BY <2>5 DEF Suppress, TicketInv
  <2>6. CASE UNCHANGED monitorVars
    BY <2>6 DEF monitorVars, files, TicketInv
  <2> QED BY <2>1, <2>2, <2>3, <2>4, <2>5, <2>6 DEF MonitorNext
<1>3. TicketInv => OneIssuePerPr
  BY DEF TicketInv, OneIssuePerPr
<1> QED BY <1>1, <1>2, <1>3, PTL DEF MonitorSpec

-----------------------------------------------------------------------------
(* PrMonitor: a heartbeat means that people were told.  An incident, on    *)
(* file or in the cycle's memory, says what the channel's last word about  *)
(* its key is; only a message that is being recorded is ahead of it, and   *)
(* the cycle that dies there leaves its key unsure.                        *)

Reconciling == {"recover", "resolve", "escalate", "post", "posted"}

Incident == [open : BOOLEAN, posted : BOOLEAN,
             severity : {"none", "warning", "critical"}, ticket : BOOLEAN]

(* Keys whose message the channel has and the cycle has yet to record.     *)
InFlight == {k \in phase.todo : \/ phase.step = "posted"
                                \/ phase.step = "resolve" /\ memory[k].posted}

Says(m, k) == /\ m.posted => slack[k] = m.severity
              /\ ~m.posted => slack[k] \in {"none", "recovered"}

CycleTypes ==
  /\ phase \in [step : {"idle", "tickets"} \cup Reconciling, todo : SUBSET Key]
  /\ memory \in [Key -> Incident] /\ incidents \in [Key -> Incident]
  /\ \A k \in Key : /\ memory[k].posted => memory[k].open
                    /\ incidents[k].posted => incidents[k].open
  /\ slack \in [Key -> {"none", "warning", "critical", "recovered"}]
  /\ alerts \subseteq Key

PhaseKnown ==
  /\ phase.step \in {"resolve", "escalate", "post", "posted"} =>
       \E k \in Key : phase.todo = {k}
  /\ phase.step \in {"recover", "idle"} => phase.todo = {}
  /\ \A k \in phase.todo :
       /\ phase.step = "resolve" =>
            /\ k \notin Evaluated(seen) \cup Held(seen)
            /\ memory[k].posted => slack[k] = "recovered"
       /\ phase.step \in {"escalate", "post", "posted"} =>
            k \in alerts /\ memory[k].open
       /\ phase.step = "posted" => slack[k] = Severity(seen, k)

FilesSay == \A k \in Key \ (unsure \cup InFlight) : Says(incidents[k], k)

MemorySays ==
  phase.step \in Reconciling =>
    \A k \in Key \ (unsure \cup InFlight) : Says(memory[k], k)

(* The evaluations reconcile is through with stand in the channel.         *)
AlertsTold ==
  /\ phase.step = "tickets" => alerts = Evaluated(seen)
  /\ phase.step \in Reconciling =>
       /\ alerts \subseteq Evaluated(seen)
       /\ \A k \in Evaluated(seen) \ alerts :
            memory[k].posted /\ memory[k].severity = Severity(seen, k)

CycleInv == CycleTypes /\ PhaseKnown /\ FilesSay /\ MemorySays /\ AlertsTold

LEMMA EvaluatedKeys ==
  ASSUME NEW o, NEW k
  PROVE  Evaluated(o) \subseteq Key /\ Severity(o, k) \in {"warning", "critical"}
  BY DEF Evaluated, Lagging, Behind, Stalled, Paged, Troubled, Key, Severity

LEMMA AbsentSays ==
  ASSUME CycleTypes, NEW k \in Key
  PROVE  Absent \in Incident /\ Opened \in Incident /\ ~Absent.posted
  BY DEF Absent, Opened, Incident

(* The one key a step of reconcile is about.                               *)
LEMMA ItsKey ==
  ASSUME CycleInv, phase.step \in {"resolve", "escalate", "post", "posted"}
  PROVE  /\ Its \in Key /\ phase.todo = {Its}
         /\ phase.step = "resolve" =>
              /\ Its \notin Evaluated(seen) \cup Held(seen)
              /\ memory[Its].posted => slack[Its] = "recovered"
         /\ phase.step \in {"escalate", "post", "posted"} =>
              Its \in alerts /\ memory[Its].open
         /\ phase.step = "posted" => slack[Its] = Severity(seen, Its)
  BY DEF CycleInv, PhaseKnown, Its

LEMMA CycleInit == ASSUME MonitorInit PROVE CycleInv
<1>1. /\ phase = Resting /\ incidents = memory /\ alerts = {} /\ unsure = {}
      /\ memory = [k \in Key |-> Absent] /\ slack = [k \in Key |-> "none"]
  BY DEF MonitorInit
<1>2. Absent \in Incident /\ ~Absent.posted
  BY DEF Absent, Incident
<1>3. CycleTypes
  BY <1>1, <1>2 DEF CycleTypes, Resting
<1> QED
  BY <1>1, <1>2, <1>3 DEF CycleInv, PhaseKnown, FilesSay, MemorySays, AlertsTold,
     Says, Resting, Reconciling

(* Before reconcile has loaded its state nothing but the phase moves.      *)
LEMMA StartKeepsTold ==
  ASSUME CycleInv, StartCycle PROVE CycleInv'
<1>1. PICK o \in Observation :
        /\ seen' = o /\ phase' = [step |-> "tickets", todo |-> Paged(o)]
        /\ alerts' = Evaluated(o)
  BY DEF StartCycle
<1>2. /\ phase = Resting /\ UNCHANGED <<memory, incidents, slack, unsure>>
  BY DEF StartCycle, files
<1>3. Paged(o) \subseteq Key /\ Evaluated(o) \subseteq Key
  BY EvaluatedKeys DEF Paged, Troubled, Key
<1>4. phase'.step = "tickets" /\ phase'.todo = Paged(o) /\ InFlight = {} /\ InFlight' = {}
  BY <1>1, <1>2 DEF InFlight, Resting
<1>5. CycleTypes'
  BY <1>1, <1>2, <1>3 DEF CycleInv, CycleTypes
<1>6. FilesSay'
  BY <1>2, <1>4 DEF CycleInv, FilesSay, Says
<1> QED
  BY <1>1, <1>4, <1>5, <1>6 DEF CycleInv, PhaseKnown, MemorySays, AlertsTold,
     Reconciling

LEMMA TicketKeepsTold ==
  ASSUME CycleInv, NEW c \in PrConsumer, CreateIssue(c) \/ Comment(c)
  PROVE  CycleInv'
<1>1. /\ phase.step = "tickets" /\ phase' = [phase EXCEPT !.todo = @ \ {c}]
      /\ UNCHANGED <<seen, memory, alerts, incidents, slack, unsure>>
  BY DEF CreateIssue, Comment, AtStep, Ticketed
<1>2. /\ phase' \in [step : {"idle", "tickets"} \cup Reconciling, todo : SUBSET Key]
      /\ phase'.step = "tickets"
  BY <1>1 DEF CycleInv, CycleTypes
<1>3. InFlight = {} /\ InFlight' = {}
  BY <1>1, <1>2 DEF InFlight
<1>4. CycleTypes' /\ FilesSay'
  BY <1>1, <1>2, <1>3 DEF CycleInv, CycleTypes, FilesSay, Says
<1> QED
  BY <1>1, <1>2, <1>4 DEF CycleInv, PhaseKnown, MemorySays, AlertsTold, Reconciling

LEMMA LoadKeepsTold == ASSUME CycleInv, LoadIncidents PROVE CycleInv'
<1>1. /\ phase.step = "tickets" /\ phase' = [step |-> "recover", todo |-> {}]
      /\ memory' = incidents
      /\ UNCHANGED <<seen, alerts, incidents, slack, unsure>>
  BY DEF LoadIncidents, AtStep, To, files
<1>2. InFlight = {} /\ InFlight' = {} /\ phase'.step = "recover" /\ phase'.todo = {}
  BY <1>1 DEF InFlight
<1>3. CycleTypes' /\ FilesSay'
  BY <1>1, <1>2 DEF CycleInv, CycleTypes, FilesSay, Says, Reconciling
<1>4. MemorySays'
  BY <1>1, <1>2, <1>3 DEF MemorySays, FilesSay, Says
<1> QED
  BY <1>1, <1>2, <1>3, <1>4 DEF CycleInv, PhaseKnown, AlertsTold

(* A recovery is in flight only if the alert was accepted.                 *)
LEMMA RecoveryKeepsTold == ASSUME CycleInv, PostRecovery PROVE CycleInv'
<1>1. PICK k \in Recovered :
        /\ phase' = [step |-> "resolve", todo |-> {k}]
        /\ IF memory[k].posted THEN slack' = [slack EXCEPT ![k] = "recovered"]
                               ELSE UNCHANGED slack
  BY DEF PostRecovery, For
<1>2. /\ phase.step = "recover" /\ phase.todo = {}
      /\ UNCHANGED <<seen, memory, alerts, incidents, unsure>>
  BY DEF PostRecovery, AtStep, files, CycleInv, PhaseKnown
<1>3. k \in Key /\ k \notin Evaluated(seen) \cup Held(seen)
  BY DEF Recovered
<1>4. /\ phase'.step = "resolve" /\ phase'.todo = {k} /\ InFlight = {}
      /\ InFlight' = IF memory[k].posted THEN {k} ELSE {}
  BY <1>1, <1>2 DEF InFlight
<1>5. /\ slack' \in [Key -> {"none", "warning", "critical", "recovered"}]
      /\ \A j \in Key \ InFlight' : slack'[j] = slack[j]
      /\ memory[k].posted => slack'[k] = "recovered"
  BY <1>1, <1>3, <1>4 DEF CycleInv, CycleTypes
<1>6. CycleTypes'
  BY <1>1, <1>2, <1>3, <1>5 DEF CycleInv, CycleTypes, Reconciling
<1>7. FilesSay' /\ MemorySays'
  BY <1>2, <1>4, <1>5 DEF CycleInv, FilesSay, MemorySays, Says, Reconciling
<1>8. PhaseKnown'
  BY <1>2, <1>3, <1>4, <1>5 DEF PhaseKnown
<1>9. AlertsTold'
  BY <1>2, <1>4 DEF CycleInv, AlertsTold, Reconciling
<1> QED BY <1>6, <1>7, <1>8, <1>9 DEF CycleInv

LEMMA ResolveKeepsTold == ASSUME CycleInv, Resolve PROVE CycleInv'
<1>1. /\ phase.step = "resolve" /\ phase' = [step |-> "recover", todo |-> {}]
      /\ memory' = [memory EXCEPT ![Its] = Absent] /\ incidents' = memory'
      /\ unsure' = unsure \ (IF memory[Its].posted THEN {Its} ELSE {})
      /\ UNCHANGED <<seen, alerts, slack>>
  BY DEF Resolve, AtStep, To
<1>2. /\ Its \in Key /\ phase.todo = {Its} /\ Its \notin Evaluated(seen)
      /\ memory[Its].posted => slack[Its] = "recovered"
  BY <1>1, ItsKey
<1>3. Absent \in Incident /\ ~Absent.posted
  BY DEF Absent, Incident
<1> DEFINE k == Its
<1> HIDE DEF k
<1>4. /\ memory' \in [Key -> Incident] /\ memory'[k] = Absent
      /\ \A j \in Key \ {k} : memory'[j] = memory[j]
  BY <1>1, <1>2, <1>3 DEF CycleInv, CycleTypes, k
<1>5. CycleTypes'
  BY <1>1, <1>3, <1>4 DEF CycleInv, CycleTypes, Reconciling
<1>6. /\ phase'.step = "recover" /\ phase'.todo = {} /\ InFlight' = {}
      /\ InFlight = IF memory[k].posted THEN {k} ELSE {}
  BY <1>1, <1>2 DEF InFlight, k
<1>7. ASSUME NEW j \in Key \ unsure' PROVE Says(memory[j], j)'
  <2>1. CASE j # k
    <3>1. Says(memory[j], j)
      BY <1>1, <1>6, <2>1 DEF CycleInv, MemorySays, Reconciling, k
    <3> QED BY <1>1, <1>4, <2>1, <3>1 DEF Says
  <2>2. CASE j = k
    <3>1. CASE memory[k].posted
      BY <1>1, <1>2, <1>3, <1>4, <2>2, <3>1 DEF Says, k
    <3>2. CASE ~memory[k].posted
      <4>1. Says(memory[k], k)
        BY <1>1, <1>2, <1>6, <2>2, <3>2 DEF CycleInv, MemorySays, Reconciling, k
      <4> QED BY <1>1, <1>3, <1>4, <2>2, <3>2, <4>1 DEF Says
    <3> QED BY <3>1, <3>2
  <2> QED BY <2>1, <2>2
<1>8. FilesSay' /\ MemorySays'
  BY <1>1, <1>6, <1>7 DEF FilesSay, MemorySays, Says
<1>9. PhaseKnown'
  BY <1>6 DEF PhaseKnown
<1>10. AlertsTold'
  <2>1. \A j \in Evaluated(seen) : j \in Key \ {k}
    BY <1>2, EvaluatedKeys DEF k
  <2> QED BY <1>1, <1>4, <1>6, <2>1 DEF CycleInv, AlertsTold, Reconciling
<1> QED BY <1>5, <1>8, <1>9, <1>10 DEF CycleInv

LEMMA SuppressKeepsTold == ASSUME CycleInv, Suppress PROVE CycleInv'
<1>1. PICK k \in alerts :
        /\ MayBeDuplicate(k)
        /\ alerts' = alerts \ {k}
        /\ memory' = [memory EXCEPT ![k] = Entry(k)]
        /\ incidents' = memory'
  BY DEF Suppress
<1>2. /\ phase.step = "recover" /\ phase.todo = {}
      /\ UNCHANGED <<phase, seen, slack, unsure>>
  BY DEF Suppress, AtStep, CycleInv, PhaseKnown
<1>3. /\ k \in Key /\ memory[k].open /\ memory[k].posted
      /\ memory[k].severity = Severity(seen, k)
  BY <1>1 DEF MayBeDuplicate, Delivered, CycleInv, CycleTypes
<1>4. memory' = memory
  BY <1>1, <1>3 DEF Entry, CycleInv, CycleTypes
<1>5. InFlight = {} /\ InFlight' = {}
  BY <1>2 DEF InFlight
<1>6. CycleTypes'
  BY <1>1, <1>2, <1>4 DEF CycleInv, CycleTypes
<1>7. FilesSay' /\ MemorySays'
  BY <1>1, <1>2, <1>4, <1>5 DEF CycleInv, FilesSay, MemorySays, Says, Reconciling
<1>8. PhaseKnown'
  BY <1>2 DEF PhaseKnown
<1>9. AlertsTold'
  BY <1>1, <1>2, <1>3, <1>4 DEF CycleInv, AlertsTold, Reconciling
<1> QED BY <1>6, <1>7, <1>8, <1>9 DEF CycleInv

(* An incident that is only open says nothing of the channel yet.          *)
LEMMA LetThroughKeepsTold == ASSUME CycleInv, LetThrough PROVE CycleInv'
<1>1. PICK k \in alerts, step \in {"escalate", "post"} :
        /\ memory' = [memory EXCEPT ![k] = Entry(k)]
        /\ phase' = [step |-> step, todo |-> {k}]
  BY DEF LetThrough, For
<1>2. /\ phase.step = "recover" /\ phase.todo = {}
      /\ UNCHANGED <<seen, alerts, incidents, slack, unsure>>
  BY DEF LetThrough, AtStep, CycleInv, PhaseKnown
<1>3. k \in Key
  BY DEF CycleInv, CycleTypes
<1>4. /\ Entry(k) \in Incident /\ Entry(k).open
      /\ Entry(k).posted <=> memory[k].posted
      /\ memory[k].posted => Entry(k) = memory[k]
  BY <1>3 DEF CycleInv, CycleTypes, Entry, Opened, Absent, Incident
<1> HIDE DEF Entry
<1>5. /\ memory' \in [Key -> Incident] /\ memory'[k] = Entry(k)
      /\ \A j \in Key \ {k} : memory'[j] = memory[j]
  BY <1>1, <1>3, <1>4 DEF CycleInv, CycleTypes
<1>6. /\ phase'.step \in {"escalate", "post"} /\ phase'.todo = {k}
      /\ InFlight = {} /\ InFlight' = {}
  BY <1>1, <1>2 DEF InFlight
<1>7. CycleTypes'
  BY <1>1, <1>2, <1>3, <1>4, <1>5 DEF CycleInv, CycleTypes, Reconciling
<1>8. FilesSay'
  BY <1>2, <1>6 DEF CycleInv, FilesSay, Says
<1>9. MemorySays'
  <2>1. ASSUME NEW j \in Key \ unsure PROVE Says(memory[j], j)'
    <3>1. Says(memory[j], j)
      BY <1>2, <1>6 DEF CycleInv, MemorySays, Reconciling
    <3>2. memory'[j] = memory[j] \/ (~memory[j].posted /\ ~memory'[j].posted)
      BY <1>4, <1>5
    <3> QED BY <1>2, <3>1, <3>2 DEF Says
  <2> QED BY <1>2, <1>6, <2>1 DEF MemorySays
<1>10. PhaseKnown'
  BY <1>2, <1>3, <1>4, <1>5, <1>6 DEF PhaseKnown
<1>11. AlertsTold'
  <2>1. \A j \in Evaluated(seen) \ alerts : j \in Key \ {k}
    BY EvaluatedKeys
  <2> QED BY <1>2, <1>5, <1>6, <2>1 DEF CycleInv, AlertsTold, Reconciling
<1> QED BY <1>7, <1>8, <1>9, <1>10, <1>11 DEF CycleInv

LEMMA EscalateKeepsTold == ASSUME CycleInv, Escalate PROVE CycleInv'
<1> DEFINE k == Its
           m == [memory[k] EXCEPT !.ticket = TRUE]
<1>1. /\ phase.step = "escalate" /\ phase' = [step |-> "post", todo |-> {k}]
      /\ memory' = [memory EXCEPT ![k] = m] /\ incidents' = memory'
      /\ UNCHANGED <<seen, alerts, slack, unsure>>
  <2>1. memory' = [memory EXCEPT ![k].ticket = TRUE]
    BY DEF Escalate
  <2>2. k \in Key
    BY ItsKey DEF Escalate, AtStep
  <2>3. memory' = [memory EXCEPT ![k] = m]
    BY <2>1, <2>2 DEF CycleInv, CycleTypes
  <2> QED BY <2>3 DEF Escalate, AtStep, For
<1>2. k \in Key /\ phase.todo = {k} /\ k \in alerts /\ memory[k].open
  BY <1>1, ItsKey
<1>3. /\ memory' \in [Key -> Incident]
      /\ \A j \in Key : /\ memory'[j].open = memory[j].open
                        /\ memory'[j].posted = memory[j].posted
                        /\ memory'[j].severity = memory[j].severity
  <2>1. memory[k] \in Incident
    BY <1>2 DEF CycleInv, CycleTypes
  <2>2. /\ m \in Incident /\ m.open = memory[k].open
        /\ m.posted = memory[k].posted /\ m.severity = memory[k].severity
    BY <2>1 DEF Incident
  <2> HIDE DEF m, k
  <2> QED BY <1>1, <1>2, <2>2 DEF CycleInv, CycleTypes
<1> HIDE DEF m, k
<1>4. /\ phase'.step = "post" /\ phase'.todo = {k} /\ InFlight = {} /\ InFlight' = {}
  BY <1>1, <1>2 DEF InFlight
<1>5. CycleTypes'
  BY <1>1, <1>2, <1>3 DEF CycleInv, CycleTypes, Reconciling
<1>6. ASSUME NEW j \in Key \ unsure PROVE Says(memory[j], j)'
  <2>1. Says(memory[j], j)
    BY <1>1, <1>4 DEF CycleInv, MemorySays, Reconciling
  <2> QED BY <1>1, <1>3, <2>1 DEF Says
<1>7. FilesSay' /\ MemorySays'
  BY <1>1, <1>4, <1>6 DEF FilesSay, MemorySays, Says
<1>8. PhaseKnown'
  BY <1>1, <1>2, <1>3, <1>4 DEF PhaseKnown
<1>9. AlertsTold'
  <2>1. Evaluated(seen) \subseteq Key
    BY EvaluatedKeys
  <2> QED BY <1>1, <1>3, <1>4, <2>1 DEF CycleInv, AlertsTold, Reconciling
<1> QED BY <1>5, <1>7, <1>8, <1>9 DEF CycleInv

LEMMA PostKeepsTold == ASSUME CycleInv, Post PROVE CycleInv'
<1> DEFINE k == Its
<1>1. /\ phase.step = "post" /\ phase' = [step |-> "posted", todo |-> {k}]
      /\ slack' = [slack EXCEPT ![k] = Severity(seen, k)]
      /\ UNCHANGED <<seen, memory, alerts, incidents, unsure>>
  BY DEF Post, AtStep, For, files
<1>2. k \in Key /\ phase.todo = {k} /\ k \in alerts /\ memory[k].open
  BY <1>1, ItsKey
<1> HIDE DEF k
<1>3. /\ slack' \in [Key -> {"none", "warning", "critical", "recovered"}]
      /\ slack'[k] = Severity(seen, k)
      /\ \A j \in Key \ {k} : slack'[j] = slack[j]
  BY <1>1, <1>2, EvaluatedKeys DEF CycleInv, CycleTypes
<1>4. /\ phase'.step = "posted" /\ phase'.todo = {k}
      /\ InFlight = {} /\ InFlight' = {k}
  BY <1>1, <1>2 DEF InFlight
<1>5. CycleTypes'
  BY <1>1, <1>2, <1>3 DEF CycleInv, CycleTypes, Reconciling
<1>6. FilesSay' /\ MemorySays'
  BY <1>1, <1>3, <1>4 DEF CycleInv, FilesSay, MemorySays, Says, Reconciling
<1>7. PhaseKnown'
  BY <1>1, <1>2, <1>3, <1>4 DEF PhaseKnown
<1>8. AlertsTold'
  BY <1>1, <1>4 DEF CycleInv, AlertsTold, Reconciling
<1> QED BY <1>5, <1>6, <1>7, <1>8 DEF CycleInv

LEMMA PostedKeepsTold == ASSUME CycleInv, Posted PROVE CycleInv'
<1> DEFINE k == Its
           s == Severity(seen, k)
           m == [memory[k] EXCEPT !.posted = TRUE, !.severity = s]
<1>1. /\ phase.step = "posted" /\ phase' = [step |-> "recover", todo |-> {}]
      /\ memory' = [memory EXCEPT ![k] = m] /\ incidents' = memory'
      /\ unsure' = unsure \ {k} /\ alerts' = alerts \ {k}
      /\ UNCHANGED <<seen, slack>>
  <2>1. memory' = [memory EXCEPT ![k].posted = TRUE, ![k].severity = s]
    BY DEF Posted
  <2>2. k \in Key
    BY ItsKey DEF Posted, AtStep
  <2>3. memory' = [memory EXCEPT ![k] = m]
    BY <2>1, <2>2 DEF CycleInv, CycleTypes
  <2> QED BY <2>3 DEF Posted, AtStep, To
<1>2. /\ k \in Key /\ phase.todo = {k} /\ k \in alerts /\ memory[k].open
      /\ slack[k] = s
  BY <1>1, ItsKey
<1>3. /\ m \in Incident /\ m.posted /\ m.open /\ m.severity = s
  <2>1. s \in {"warning", "critical"} /\ memory[k] \in Incident
    BY <1>2, EvaluatedKeys DEF CycleInv, CycleTypes
  <2> HIDE DEF s
  <2> QED BY <1>2, <2>1 DEF Incident
<1> HIDE DEF k, m, s
<1>4. /\ memory' \in [Key -> Incident] /\ memory'[k] = m
      /\ \A j \in Key \ {k} : memory'[j] = memory[j]
  BY <1>1, <1>2, <1>3 DEF CycleInv, CycleTypes
<1>5. /\ phase'.step = "recover" /\ phase'.todo = {} /\ InFlight' = {}
      /\ InFlight = {k}
  BY <1>1, <1>2 DEF InFlight
<1>6. CycleTypes'
  BY <1>1, <1>2, <1>3, <1>4 DEF CycleInv, CycleTypes, Reconciling
<1>7. ASSUME NEW j \in Key \ unsure' PROVE Says(memory[j], j)'
  <2>1. CASE j = k
    BY <1>1, <1>2, <1>3, <1>4, <2>1 DEF Says
  <2>2. CASE j # k
    <3>1. Says(memory[j], j)
      BY <1>1, <1>5, <2>2 DEF CycleInv, MemorySays, Reconciling
    <3> QED BY <1>1, <1>4, <2>2, <3>1 DEF Says
  <2> QED BY <2>1, <2>2
<1>8. FilesSay' /\ MemorySays'
  BY <1>1, <1>5, <1>7 DEF FilesSay, MemorySays, Says
<1>9. PhaseKnown'
  BY <1>5 DEF PhaseKnown
<1>10. AlertsTold'
  <2>1. Evaluated(seen) \subseteq Key
    BY EvaluatedKeys
  <2> QED BY <1>1, <1>3, <1>4, <1>5, <2>1
          DEF CycleInv, AlertsTold, Reconciling, s
<1> QED BY <1>6, <1>8, <1>9, <1>10 DEF CycleInv

(* What a dying cycle had not recorded is unsure.                          *)
LEMMA AbortKeepsTold == ASSUME CycleInv, Abort PROVE CycleInv'
<1>1. /\ phase' = Resting /\ alerts' = {} /\ memory' = [k \in Key |-> Absent]
      /\ UNCHANGED <<incidents, slack>>
  BY DEF Abort, files
<1>2. unsure' = unsure \cup InFlight
  BY DEF Abort, InFlight
<1>3. phase'.step = "idle" /\ phase'.todo = {} /\ InFlight' = {}
  BY <1>1 DEF Resting, InFlight
<1>4. Absent \in Incident /\ ~Absent.posted
  BY DEF Absent, Incident
<1>5. CycleTypes'
  BY <1>1, <1>4 DEF CycleInv, CycleTypes, Resting
<1>6. FilesSay'
  BY <1>1, <1>2, <1>3 DEF CycleInv, FilesSay, Says
<1> QED
  BY <1>1, <1>3, <1>5, <1>6 DEF CycleInv, PhaseKnown, MemorySays, AlertsTold,
     Reconciling

LEMMA CompleteKeepsTold == ASSUME CycleInv, Complete PROVE CycleInv'
<1>1. /\ phase' = Resting /\ memory' = [k \in Key |-> Absent] /\ phase.step = "recover"
      /\ UNCHANGED <<alerts, incidents, slack, unsure>>
  BY DEF Complete, AtStep, files
<1>2. phase'.step = "idle" /\ phase'.todo = {} /\ InFlight' = {} /\ InFlight = {}
  BY <1>1 DEF Resting, InFlight
<1>3. Absent \in Incident /\ ~Absent.posted
  BY DEF Absent, Incident
<1>4. CycleTypes'
  BY <1>1, <1>3 DEF CycleInv, CycleTypes, Resting
<1>5. FilesSay'
  BY <1>1, <1>2 DEF CycleInv, FilesSay, Says
<1> QED
  BY <1>1, <1>2, <1>4, <1>5 DEF CycleInv, PhaseKnown, MemorySays, AlertsTold,
     Reconciling

LEMMA CycleStep == ASSUME CycleInv, [MonitorNext]_monitorVars PROVE CycleInv'
<1>1. CASE UNCHANGED monitorVars
  BY <1>1 DEF monitorVars, files, CycleInv, CycleTypes, PhaseKnown, FilesSay,
     MemorySays, AlertsTold, InFlight, Says
<1> QED
  BY <1>1, StartKeepsTold, TicketKeepsTold, LoadKeepsTold, RecoveryKeepsTold,
     ResolveKeepsTold, SuppressKeepsTold, LetThroughKeepsTold, EscalateKeepsTold,
     PostKeepsTold, PostedKeepsTold, AbortKeepsTold, CompleteKeepsTold DEF MonitorNext

(* HeartbeatMeansTold, for any consumers, observations and refusals.       *)
THEOREM HeartbeatTells == MonitorSpec => HeartbeatMeansTold
<1>1. MonitorInit => CycleInv
  BY CycleInit
<1>2. CycleInv /\ [MonitorNext]_monitorVars => CycleInv'
  BY CycleStep
<1>3. CycleInv =>
        [Complete =>
           \A k \in Key \ unsure :
             /\ k \in Evaluated(seen) => slack[k] = Severity(seen, k)
             /\ k \notin Evaluated(seen) \cup Held(seen) =>
                  slack[k] \in {"none", "recovered"}]_monitorVars
  <2> SUFFICES ASSUME CycleInv, Complete, NEW k \in Key \ unsure
               PROVE  /\ k \in Evaluated(seen) => slack[k] = Severity(seen, k)
                      /\ k \notin Evaluated(seen) \cup Held(seen) =>
                           slack[k] \in {"none", "recovered"}
    OBVIOUS
  <2>1. phase.step = "recover" /\ Recovered = {} /\ alerts = {}
    BY DEF Complete, AtStep
  <2>2. Says(memory[k], k)
    BY <2>1 DEF CycleInv, MemorySays, InFlight, Reconciling
  <2>3. k \in Evaluated(seen) =>
          memory[k].posted /\ memory[k].severity = Severity(seen, k)
    BY <2>1 DEF CycleInv, AlertsTold, Reconciling
  <2>4. k \notin Evaluated(seen) \cup Held(seen) => ~memory[k].posted
    BY <2>1 DEF Recovered, CycleInv, CycleTypes
  <2> QED BY <2>2, <2>3, <2>4 DEF Says
<1> QED BY <1>1, <1>2, <1>3, PTL DEF MonitorSpec, HeartbeatMeansTold
=============================================================================
