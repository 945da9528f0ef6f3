------------------------------- MODULE MCServices -------------------------------
(***************************************************************************)
(* What works beside the scheduler, each on a small instance: the MCP task *)
(* store, a remote task, the consumers of the journal, the registry of run *)
(* scopes, the artifact files, the evidence loop, the swarm runner and the *)
(* contract-sync monitor.  They share no state, so a behaviour is one of   *)
(* the eight, chosen in its first state, and the others stand still.       *)
(***************************************************************************)
EXTENDS TaskStore, RemoteTask, EventStream, RunScopes, ArtifactFiles,
        EvidenceLoop, Swarm, PrMonitor, TLC

CONSTANTS w1, w2, null, p, q, one, two, base, moved

VARIABLE service

(* One consumer and its pull request, in every combination of age, served  *)
(* contract, deployment and checks, with two heads.                        *)
Green    == [head |-> "h1", checks |-> "passing", mergeable |-> TRUE, old |-> FALSE]
Red      == [Green EXCEPT !.checks = "failing"]
Conflict == [Green EXCEPT !.head = "h2", !.mergeable = FALSE]
MCObservation ==
  [age : {"grace", "late", "critical"},
   served : [{"mcp"} -> {"current", "older", "unreadable"}],
   deploying : {{}, {"mcp"}}, pr : [{"mcp"} -> {Green, Red, Conflict}],
   synced : {TRUE}]

(* Each artifact in a shard of its own, which is there already or is not.  *)
MCShardOf == [v \in Value |-> v]

------------------------------------------------------------------------------
ServicesInit ==
  /\ service \in {"tasks", "remote", "stream", "scopes", "files", "evidence",
                  "swarm", "monitor"}
  /\ Init /\ RemoteInit /\ StreamInit /\ ScopeInit /\ LoopInit
  /\ FileInit /\ SwarmInit /\ MonitorInit
  /\ service # "remote" => card = "card" /\ idempotent = TRUE
  /\ service # "files" => rooted = {}
  /\ service # "evidence" =>
       work = [c \in {1, 2} |-> "ok"] /\ hasAgent = TRUE

ServicesNext ==
  \/ /\ service = "tasks" /\ Next
     /\ UNCHANGED <<service, a2aVars, streamVars, scopeVars, fileVars,
                    loopVars, swarmVars, monitorVars>>
  \/ /\ service = "remote" /\ RemoteNext
     /\ UNCHANGED <<service, taskVars, streamVars, scopeVars, fileVars,
                    loopVars, swarmVars, monitorVars>>
  \/ /\ service = "stream" /\ StreamNext
     /\ UNCHANGED <<service, taskVars, a2aVars, scopeVars, fileVars,
                    loopVars, swarmVars, monitorVars>>
  \/ /\ service = "scopes" /\ ScopeNext
     /\ UNCHANGED <<service, taskVars, a2aVars, streamVars, fileVars,
                    loopVars, swarmVars, monitorVars>>
  \/ /\ service = "files" /\ FileNext
     /\ UNCHANGED <<service, taskVars, a2aVars, streamVars, scopeVars,
                    loopVars, swarmVars, monitorVars>>
  \/ /\ service = "evidence" /\ LoopNext
     /\ UNCHANGED <<service, taskVars, a2aVars, streamVars, scopeVars,
                    fileVars, swarmVars, monitorVars>>
  \/ /\ service = "swarm" /\ SwarmNext
     /\ UNCHANGED <<service, taskVars, a2aVars, streamVars, scopeVars,
                    fileVars, loopVars, monitorVars>>
  \/ /\ service = "monitor" /\ MonitorNext
     /\ UNCHANGED <<service, taskVars, a2aVars, streamVars, scopeVars,
                    fileVars, loopVars, swarmVars>>

servicesVars == <<service, taskVars, a2aVars, streamVars, scopeVars,
                  fileVars, loopVars, swarmVars, monitorVars>>
ServicesSpec == ServicesInit /\ [][ServicesNext]_servicesVars

(* Workers are interchangeable.                                            *)
MCSymmetry == Permutations(Worker)

=============================================================================
