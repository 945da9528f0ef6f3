------------------------------ MODULE FencedWork ------------------------------
(***************************************************************************)
(* What the run store promises, without tokens, clocks or rows: work on a  *)
(* node is begun, and its result accepted or rejected, in one and the same *)
(* epoch.  When an epoch ends, what it left unfinished can only be         *)
(* abandoned: nobody inherits it and nobody can still deliver it.  What    *)
(* was accepted stays on record with the epoch that delivered it.          *)
(***************************************************************************)
EXTENDS Naturals

CONSTANT Node

VARIABLES
  epoch,      \* the current epoch
  work,       \* work[n]: open, busy, accepted or closed
  begun,      \* begun[n]: the epoch n is busy in, 0 when it is not busy
  evidence    \* evidence[n]: the epoch whose result is on record, or 0

vars == <<epoch, work, begun, evidence>>

Phase == {"open", "busy", "accepted", "closed"}

Init ==
  /\ epoch = 0
  /\ work = [n \in Node |-> "open"]
  /\ begun = [n \in Node |-> 0]
  /\ evidence = [n \in Node |-> 0]

NewEpoch ==
  /\ epoch' = epoch + 1
  /\ UNCHANGED <<work, begun, evidence>>

Begin(n) ==
  /\ work[n] = "open"
  /\ work' = [work EXCEPT ![n] = "busy"]
  /\ begun' = [begun EXCEPT ![n] = epoch]
  /\ UNCHANGED <<epoch, evidence>>

(* Only the epoch that began the work delivers its result.                 *)
Deliver(n, phase) ==
  /\ work[n] = "busy"
  /\ begun[n] = epoch
  /\ work' = [work EXCEPT ![n] = phase]
  /\ begun' = [begun EXCEPT ![n] = 0]
  /\ evidence' = IF phase = "accepted"
                 THEN [evidence EXCEPT ![n] = epoch] ELSE evidence
  /\ UNCHANGED epoch

(* All busy work is abandoned at once, in any epoch, and left open or      *)
(* closed; a cancellation closes the open nodes too.                       *)
Abandon ==
  \E C \in SUBSET {n \in Node : work[n] \in {"open", "busy"}} :
    /\ work' = [n \in Node |-> IF n \in C THEN "closed"
                              ELSE IF work[n] = "busy" THEN "open"
                              ELSE work[n]]
    /\ begun' = [n \in Node |-> 0]
    /\ UNCHANGED <<epoch, evidence>>

(* A settled node is opened again, given up, or loses its acceptance; none *)
(* of this touches work that is under way.                                 *)
Adjust(n) ==
  /\ \/ work[n] = "closed"   /\ work' = [work EXCEPT ![n] = "open"]
     \/ work[n] = "open"     /\ work' = [work EXCEPT ![n] = "closed"]
     \/ work[n] = "accepted" /\ work' = [work EXCEPT ![n] = "closed"]
  /\ UNCHANGED <<epoch, begun, evidence>>

Next ==
  \/ NewEpoch
  \/ Abandon
  \/ \E n \in Node : \/ Begin(n) \/ Adjust(n)
                     \/ \E phase \in {"accepted", "closed"} : Deliver(n, phase)

Spec == Init /\ [][Next]_vars
=============================================================================
