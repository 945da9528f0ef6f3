----------------------------- MODULE ArtifactFiles -----------------------------
(***************************************************************************)
(* The artifact files (artifacts.py, ArtifactStore): outputs of nodes,     *)
(* each in a file named by its digest, which the state database refers to. *)
(* The directory is shared by all runs of a state root and by their        *)
(* processes, without a lock.                                              *)
(*                                                                         *)
(* A digest names one value, so a file is a value's; it lies in a shard, a *)
(* directory named by the digest's beginning that the first put makes.     *)
(* Processes die, and so does the machine: then what no fsync reached may  *)
(* be lost, directory entries and, with synchronous = NORMAL,              *)
(* transactions.  put flushes the shard, and nothing flushes the root the  *)
(* shard's own entry is in.                                                *)
(***************************************************************************)
EXTENDS Naturals

CONSTANTS
  Caller,     \* schedulers that put artifacts
  Value,      \* schema-valid artifacts
  Shard,      \* first two digits of a digest
  ShardOf,    \* ShardOf[v]: those of v's
  MaxFaults   \* bound: crashes, power failures, damaged files

ASSUME ShardAssumption == ShardOf \in [Value -> Shard]

VARIABLES
  file,      \* file[v]: "none", "whole" or "damaged"
  durable,   \* the files whose entry in their shard has reached the disk
  shards,    \* the shards there are
  rooted,    \* those whose entry in the root has reached the disk
  put,       \* put[c]: where c's put is, and of what
  recorded,  \* the artifacts table
  met,       \* history: values found in place before their entry was durable
  damaged,   \* history: values whose file was damaged
  torn,      \* history: values whose durable file was lost with its shard
  faults     \* bound: so far

fileVars == <<file, durable, shards, rooted, put, recorded, met, damaged,
              torn, faults>>

NoPut == [at |-> "idle", value |-> CHOOSE v \in Value : TRUE]

(* Shards from before the last boot are on the disk.                       *)
FileInit ==
  /\ file = [v \in Value |-> "none"]
  /\ rooted \in SUBSET Shard /\ shards = rooted
  /\ put  = [c \in Caller |-> NoPut]
  /\ durable = {} /\ recorded = {} /\ met = {} /\ damaged = {} /\ torn = {}
  /\ faults = 0

PutAt(c, at)   == put[c].at = at
PutGoto(c, at) == put' = [put EXCEPT ![c].at = at]
PutEnds(c)    == put' = [put EXCEPT ![c] = NoPut]

------------------------------------------------------------------------------
(* put.                                                                    *)

(* The shard, if it is new, and in it a temporary file with the payload,   *)
(* flushed to the disk.                                                    *)
Write(c) ==
  /\ PutAt(c, "idle")
  /\ \E v \in Value :
       /\ shards' = shards \cup {ShardOf[v]}
       /\ put' = [put EXCEPT ![c] = [at |-> "written", value |-> v]]
  /\ UNCHANGED <<file, durable, rooted, recorded, met, damaged, torn, faults>>

(* os.link gives it its name, if nobody has; else the file must hold the   *)
(* payload.  The temporary name is removed in any case.                    *)
Link(c) ==
  LET v == put[c].value
  IN /\ PutAt(c, "written")
     /\ \/ /\ file[v] = "none"
           /\ file' = [file EXCEPT ![v] = "whole"]
           /\ PutGoto(c, "linked") /\ UNCHANGED met
        \/ /\ file[v] = "whole"
           /\ met' = IF v \in durable THEN met ELSE met \cup {v}
           /\ PutGoto(c, "done") /\ UNCHANGED file
        \/ /\ file[v] = "damaged"
           /\ PutEnds(c) /\ UNCHANGED <<file, met>>
     /\ UNCHANGED <<durable, shards, rooted, recorded, damaged, torn, faults>>

(* Mutant: the directory is not flushed.                                   *)
SyncNothing(c) ==
  /\ PutAt(c, "linked") /\ PutGoto(c, "done")
  /\ UNCHANGED <<file, durable, shards, rooted, recorded, met, damaged, torn,
                 faults>>

(* The fsync of a shard reaches all that is in it, and not the root.       *)
Sync(c) ==
  LET flushed == {v \in Value : /\ file[v] # "none"
                                /\ ShardOf[v] = ShardOf[put[c].value]}
  IN /\ PutAt(c, "linked") /\ PutGoto(c, "done")
     /\ durable' = durable \cup flushed
     /\ torn' = torn \ flushed
     /\ UNCHANGED <<file, shards, rooted, recorded, met, damaged, faults>>

------------------------------------------------------------------------------
(* The callers.                                                            *)

(* succeed_attempt or route_repair, which may find the lease lost.         *)
Record(c) ==
  /\ PutAt(c, "done") /\ PutEnds(c)
  /\ recorded' \in {recorded, recorded \cup {put[c].value}}
  /\ UNCHANGED <<file, durable, shards, rooted, met, damaged, torn, faults>>

(* get refuses a file that is missing or does not match its digest, and    *)
(* _validate_accepted then invalidates what it was accepted for.           *)
Get(v) == file[v] = "whole"

ValidateAccepted(v) ==
  /\ v \in recorded /\ ~Get(v)
  /\ recorded' = recorded \ {v}
  /\ UNCHANGED <<file, durable, shards, rooted, put, met, damaged, torn, faults>>

------------------------------------------------------------------------------
Fault == faults < MaxFaults /\ faults' = faults + 1

CallerCrash(c) ==
  /\ Fault /\ ~PutAt(c, "idle") /\ PutEnds(c)
  /\ UNCHANGED <<file, durable, shards, rooted, recorded, met, damaged, torn>>

(* A shard whose entry is lost takes its files along, flushed or not.      *)
PowerFailure ==
  /\ Fault
  /\ put' = [c \in Caller |-> NoPut]
  /\ \E gone \in SUBSET (shards \ rooted), lost \in SUBSET (Value \ durable) :
       /\ shards' = shards \ gone
       /\ torn' = torn \cup {v \in durable : ShardOf[v] \in gone}
       /\ file' = [v \in Value |-> IF v \in lost \/ ShardOf[v] \in gone
                                    THEN "none" ELSE file[v]]
  /\ rooted' = shards'
  /\ durable' = {v \in Value : file'[v] # "none"}
  /\ recorded' \in SUBSET recorded
  /\ UNCHANGED <<met, damaged>>

Damage(v) ==
  /\ Fault /\ file[v] # "none"
  /\ file' = [file EXCEPT ![v] = "damaged"]
  /\ damaged' = damaged \cup {v}
  /\ UNCHANGED <<durable, shards, rooted, put, recorded, met, torn>>

FileNext ==
  \/ \E c \in Caller : Write(c) \/ Link(c) \/ Sync(c) \/ Record(c)
                      \/ CallerCrash(c)
  \/ \E v \in Value : ValidateAccepted(v) \/ Damage(v)
  \/ PowerFailure

FileSpec == FileInit /\ [][FileNext]_fileVars

------------------------------------------------------------------------------
(* What the database refers to can be read, after crashes of processes and *)
(* of the machine and however many put the same value at a time            *)
(* ("artifact publish fsyncs containing directory").  Not so for a file    *)
(* that something else has damaged, not for one that a put found in place  *)
(* before the put that linked it had flushed the directory, and not for    *)
(* one in a shard so new that a power failure took the shard's own entry:  *)
(* put makes the shard and never flushes the root.                         *)
RecordedIsReadable ==
  recorded \subseteq {v \in Value : Get(v)} \cup damaged \cup met \cup torn
=============================================================================
