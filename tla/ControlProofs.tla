----------------------------- MODULE ControlProofs -----------------------------
(***************************************************************************)
(* Six proofs about Control, for every set of workflows.                   *)
(*                                                                         *)
(* LoopsAreNotBypassed: a run never succeeds past a loop.  The induction   *)
(* (CInv) follows the passes.  A verdict falls due when an attempt of a    *)
(* controller is accepted.  From there run() either processes the loops    *)
(* again, because something completed (moved), or it dies, and the next    *)
(* invocation processes them before anything else can conclude the run; a  *)
(* pass visits all that it selected, and what it has yet to visit is still *)
(* what selected it.  A verdict that was taken stays the last one as long  *)
(* as the controller is accepted, because the attempt it is about is the   *)
(* latest, and attempts start only from pending.                           *)
(*                                                                         *)
(* NothingStale: nothing that succeeded was made of what a loop or a       *)
(* repair has taken back since.  FInv says why: all that is behind a node  *)
(* that runs, has ended or is about to start is quiet, it has ended and no *)
(* verdict, retry or repair is due for it; and a step that takes something *)
(* back starts at a node that is not quiet and is behind what it spares.   *)
(* WorkIsJudged applies it to the verifiers of the work of a policy.       *)
(*                                                                         *)
(* RoutesFollow: decisions agree with their sources.  GInv says when a     *)
(* decision has been made, and that it is taken back with its source.      *)
(*                                                                         *)
(* FailuresHaveCauses: a run fails for a cause that its nodes gave.  HInv  *)
(* says that without one no node is lost: inputs are there when they are   *)
(* read, and a pass over the loops does not come back to what it reopened. *)
(*                                                                         *)
(* BudgetIsEnough: no attempt is wanting that the validator has counted.   *)
(* KInv is an account: attempts made and nodes that wait for one against   *)
(* nodes, turns of loops and rounds of repairs.                            *)
(***************************************************************************)
EXTENDS Control, TLAPS, FiniteSetTheorems, WellFoundedInduction

(* A controller whose last acceptance still has to be judged.              *)
Due(n) == row[n].status = "succeeded" /\ ~Decided(n)

ControlShape ==
  /\ flow \in Flows /\ Accepted(flow)
  /\ run \in {"running", "succeeded", "failed"}
  /\ row = [n \in Node |->
       [status |-> row[n].status, count |-> row[n].count,
        digest |-> row[n].digest, repeats |-> row[n].repeats,
        failure |-> row[n].failure]]
  /\ \A n \in Node : row[n].status \in Status /\ row[n].count \in Nat
  /\ art = [n \in Node |-> art[n]]
  /\ loops = [n \in Kept(flow) |-> loops[n]]
  /\ \A n \in Kept(flow) : loops[n].attempt \in Nat
  /\ todo \subseteq Node
  /\ moved \in BOOLEAN
  /\ DOMAIN routes \subseteq Node
  /\ DOMAIN repairs \subseteq Node
  /\ DOMAIN joins \subseteq Node

(* No verdict is about an attempt that has not ended.                      *)
VerdictsLag ==
  \A n \in Kept(flow) :
    /\ loops[n].attempt <= row[n].count
    /\ row[n].status = "running" => loops[n].attempt < row[n].count

(* What a pass has yet to visit is still what selected it: a controller    *)
(* accepted, or reopened by the loop of another; a pending node.           *)
PassOrderly ==
  /\ pc \in {"loops", "reloop"} =>
       \A n \in todo :
         /\ n \in Kept(flow)
         /\ \/ row[n].status = "succeeded"
            \/ row[n].status = "pending" /\ art[n].attempt = 0
  /\ pc \in {"routes", "reroute", "dispatch"} =>
       \A n \in todo : row[n].status = "pending"

(* Where a verdict may be due: before the loops have been processed, while *)
(* they are, or after a completion that makes them be processed again.     *)
VerdictsDue ==
  \A n \in Kept(flow) : Due(n) =>
    /\ run # "succeeded"
    /\ \/ pc \in {"down", "recover", "recovered", "repair"}
       \/ pc \in {"loops", "reloop"} /\ n \in todo
       \/ pc \in {"expire", "failed"} /\ moved

(* The verdict on a controller that is still accepted was to stop.         *)
VerdictsStop ==
  \A n \in Kept(flow) : row[n].status = "succeeded" /\ Decided(n) => ~Matches(n)

(* No run succeeds before all is settled, and none is reopened by a result *)
(* that comes later.                                                       *)
SuccessSettled ==
  /\ run = "succeeded" \/ pc = "check" => Settled
  /\ pc = "failed" => run # "succeeded"

CInv == /\ ControlShape /\ VerdictsLag /\ PassOrderly /\ VerdictsDue
        /\ VerdictsStop /\ SuccessSettled

------------------------------------------------------------------------------
(* Helpers.                                                                *)

(* A set of numbers that is not empty has a least one.                     *)
LEMMA LeastOf ==
  ASSUME NEW S \in SUBSET Nat, S # {}
  PROVE  Least(S) \in S /\ \A m \in S : Least(S) <= m
<1> DEFINE Upto == {0 .. n : n \in S}
<1>1. Upto \subseteq FiniteSubsetsOf(Nat) /\ Upto # {}
  <2>1. \A n \in S : IsFiniteSet(0 .. n) /\ 0 .. n \in SUBSET Nat
    BY FS_Interval
  <2> QED BY <2>1 DEF FiniteSubsetsOf
<1>2. PICK x \in Upto : \A y \in Upto : ~(<<y, x>> \in StrictSubsetOrdering(Nat))
  <2> HIDE DEF Upto
  <2> QED BY <1>1, FS_StrictSubsetOrderingWellFounded, WFMin
<1>3. PICK n \in S : x = 0 .. n
  OBVIOUS
<1>4. ASSUME NEW m \in S, m < n PROVE FALSE
  <2>1. 0 .. m \in Upto /\ 0 .. m # 0 .. n
    <3>1. n \in 0 .. n /\ n \notin 0 .. m
      BY <1>4
    <3> QED BY <3>1
  <2>2. 0 .. m \subseteq 0 .. n /\ 0 .. m \in SUBSET Nat /\ 0 .. n \in SUBSET Nat
    BY <1>4
  <2> QED BY <1>2, <1>3, <2>1, <2>2 DEF StrictSubsetOrdering
<1>5. n \in S /\ \A m \in S : n <= m
  BY <1>4
<1> QED BY <1>5 DEF Least

LEMMA NodesAreNumbers == ASSUME flow \in Flows PROVE Node \subseteq Nat
  BY ControlAssumption DEF Node

(* What a pass visits is what it had yet to visit.                         *)
LEMMA VisitIsDue ==
  ASSUME ControlShape, todo # {}
  PROVE  Least(todo) \in todo /\ Least(todo) \in Node
<1>1. todo \in SUBSET Nat
  BY NodesAreNumbers DEF ControlShape
<1> QED BY <1>1, LeastOf DEF ControlShape

LEMMA ControlInit == Init => CInv
<1> SUFFICES ASSUME Init PROVE CInv
  OBVIOUS
<1>1. Kept(flow) \subseteq Node
  BY DEF Kept, Node
<1>2. ControlShape
  BY <1>1 DEF ControlShape, Init, Status
<1>3. \A n \in Node : row[n].status = "pending"
  BY DEF Init
<1>4. VerdictsLag /\ VerdictsDue /\ VerdictsStop
  BY <1>1, <1>3 DEF VerdictsLag, VerdictsDue, VerdictsStop, Due, Init
<1> QED BY <1>2, <1>4 DEF CInv, Init, PassOrderly, SuccessSettled

(* Beginning a pass.  The passes before the verdicts are processed may     *)
(* begin with verdicts due, the ones after may not.                        *)
LEMMA BeginKeeps ==
  ASSUME CInv, NEW pass \in Passes \cup {"pop", "reduce"}, Begin(pass),
         UNCHANGED <<flow, run, row, art, loops, routes, repairs, joins>>,
         moved' \in BOOLEAN,
         \/ pass \in {"repair", "loops", "reloop"}
            /\ (run = "succeeded" => \A n \in Kept(flow) : ~Due(n))
         \/ \A n \in Kept(flow) : ~Due(n)
  PROVE  CInv'
<1> USE DEF CInv
<1>1. Kept(flow) \subseteq Node
  BY DEF Kept, Node
<1>2. \A R : Visits(pass, R) \subseteq Node
  BY <1>1 DEF ControlShape, Visits, Passes, ToRepair, ToLoop, ToRoute, ToBlock, ToSkip,
     Ready
<1>3. ControlShape'
  BY <1>2 DEF ControlShape, Begin, Node
<1>4. VerdictsLag' /\ VerdictsStop'
  BY DEF VerdictsLag, VerdictsStop, Decided, Matches
<1>5. PassOrderly'
  <2>1. CASE pass \in {"loops", "reloop"}
    <3>1. todo' = {n \in DOMAIN loops : Fresh[n] = "succeeded"}
      BY <2>1 DEF Begin, Visits, ToLoop
    <3>2. \A n \in todo' : n \in Kept(flow) /\ row[n].status = "succeeded"
      BY <1>1, <3>1 DEF Fresh, ControlShape
    <3> QED BY <2>1, <3>2 DEF PassOrderly, Begin
  <2>2. CASE pass \in {"routes", "reroute"}
    <3>1. todo' = ToRoute(Fresh)
      BY <2>2 DEF Begin, Visits
    <3>2. \A n \in todo' : n \in Node /\ row[n].status = "pending"
      BY <3>1 DEF Fresh, ControlShape, ToRoute
    <3> QED BY <2>2, <3>2 DEF PassOrderly, Begin
  <2>3. CASE pass = "dispatch"
    <3>1. todo' = Ready(Fresh)
      BY <2>3 DEF Begin, Visits
    <3>2. \A n \in todo' : n \in Node /\ row[n].status = "pending"
      BY <3>1 DEF Fresh, Ready
    <3> QED BY <2>3, <3>2 DEF PassOrderly, Begin
  <2>4. CASE pass \notin {"loops", "reloop", "routes", "reroute", "dispatch"}
    BY <2>4 DEF PassOrderly, Begin
  <2> QED BY <2>1, <2>2, <2>3, <2>4
<1>6. VerdictsDue'
  <2>1. \A n \in Kept(flow) : (Due(n))' <=> Due(n)
    BY DEF Due, Decided
  <2>2. CASE \A n \in Kept(flow) : ~Due(n)
    BY <2>1, <2>2 DEF VerdictsDue
  <2>3. CASE pass = "repair"
    BY <2>1, <2>3 DEF VerdictsDue, Begin
  <2>4. CASE pass \in {"loops", "reloop"}
    <3>1. todo' = {n \in DOMAIN loops : Fresh[n] = "succeeded"}
      BY <2>4 DEF Begin, Visits, ToLoop
    <3>2. \A n \in Kept(flow) : Due(n) => n \in todo'
      BY <1>1, <3>1 DEF Fresh, ControlShape, Due
    <3> QED BY <2>1, <2>4, <3>2 DEF VerdictsDue, Begin
  <2> QED BY <2>2, <2>3, <2>4
<1>7. SuccessSettled'
  BY DEF SuccessSettled, Begin, Settled, Passes, Node
<1> QED BY <1>3, <1>4, <1>5, <1>6, <1>7

(* Steps that leave the rows and the verdicts alone and begin no pass.     *)
LEMMA TurnKeeps ==
  ASSUME CInv, UNCHANGED <<flow, row, art, loops, routes, repairs, joins>>,
         run' \in {"running", "succeeded", "failed"},
         run' = "succeeded" => Settled /\ \A n \in Kept(flow) : ~Due(n),
         todo' \subseteq Node, moved' \in BOOLEAN,
         pc' \in {"down", "recover", "recovered", "expire", "check", "budget"},
         pc' = "check" => Settled,
         \/ pc' \in {"down", "recover", "recovered"}
         \/ pc' = "expire" /\ moved'
         \/ \A n \in Kept(flow) : ~Due(n)
  PROVE  CInv'
<1> USE DEF CInv
<1>1. ControlShape'
  BY DEF ControlShape, Node
<1>2. VerdictsLag' /\ VerdictsStop' /\ PassOrderly'
  BY DEF VerdictsLag, VerdictsStop, Decided, Matches, PassOrderly
<1>3. VerdictsDue'
  <2>1. \A n \in Kept(flow) : (Due(n))' <=> Due(n)
    BY DEF Due, Decided
  <2> QED BY <2>1 DEF VerdictsDue
<1>4. SuccessSettled'
  BY DEF SuccessSettled, Settled, Node
<1> QED BY <1>1, <1>2, <1>3, <1>4

(* Steps that leave even the position alone.                               *)
LEMMA StillKeeps ==
  ASSUME CInv,
         UNCHANGED <<flow, run, row, art, loops, moved, pc>>,
         DOMAIN routes' = DOMAIN routes, DOMAIN repairs' = DOMAIN repairs,
         DOMAIN joins' = DOMAIN joins,
         todo' \subseteq todo, pc \in {"loops", "reloop"} => todo' = todo
  PROVE  CInv'
<1> USE DEF CInv
<1>1. ControlShape'
  BY DEF ControlShape, Node
<1>2. VerdictsLag' /\ VerdictsStop' /\ PassOrderly'
  BY DEF VerdictsLag, VerdictsStop, Decided, Matches, PassOrderly
<1>3. VerdictsDue'
  <2>1. \A n \in Kept(flow) : (Due(n))' <=> Due(n)
    BY DEF Due, Decided
  <2> QED BY <2>1 DEF VerdictsDue
<1>4. SuccessSettled'
  BY DEF SuccessSettled, Settled, Node
<1> QED BY <1>1, <1>2, <1>3, <1>4

Fields == {"status", "count", "digest", "repeats", "failure"}

LEMMA RowOfFields ==
  ASSUME NEW r, r = [x \in Fields |-> r[x]]
  PROVE  r = [status |-> r.status, count |-> r.count, digest |-> r.digest,
              repeats |-> r.repeats, failure |-> r.failure]
<1> DEFINE t == [status |-> r.status, count |-> r.count, digest |-> r.digest,
                 repeats |-> r.repeats, failure |-> r.failure]
<1>1. /\ DOMAIN t = Fields /\ t = [x \in DOMAIN t |-> t[x]]
      /\ t.status = r.status /\ t.count = r.count /\ t.digest = r.digest
      /\ t.repeats = r.repeats /\ t.failure = r.failure
  BY DEF Fields
<1> HIDE DEF t
<1>2. \A x \in Fields : t[x] = r[x]
  BY <1>1 DEF Fields
<1>3. t = r
  BY <1>1, <1>2
<1> QED BY <1>3 DEF t

LEMMA RowHasFields ==
  ASSUME ControlShape, NEW n \in Node PROVE DOMAIN row[n] = Fields
<1>1. row[n] = [status |-> row[n].status, count |-> row[n].count,
                digest |-> row[n].digest, repeats |-> row[n].repeats,
                failure |-> row[n].failure]
  BY DEF ControlShape
<1> QED BY <1>1 DEF Fields

(* A row of which the status is written.                                   *)
LEMMA RowWithStatus ==
  ASSUME ControlShape, NEW n \in Node, NEW s, NEW r, r = [row[n] EXCEPT !.status = s]
  PROVE  /\ r = [status |-> r.status, count |-> r.count, digest |-> r.digest,
                 repeats |-> r.repeats, failure |-> r.failure]
         /\ r.status = s /\ r.count = row[n].count
<1>1. DOMAIN row[n] = Fields
  BY RowHasFields
<1>2. r = [x \in Fields |-> r[x]] /\ r.status = s /\ r.count = row[n].count
  BY <1>1 DEF Fields
<1> QED BY <1>2, RowOfFields

(* A visited node that is decided against, or stays pending.               *)
LEMMA SettleKeeps ==
  ASSUME CInv, NEW n \in Node, NEW s \in Status \ {"running", "succeeded"},
         SetStatus(n, s),
         UNCHANGED <<flow, run, art, loops, moved, pc>>,
         DOMAIN routes' = DOMAIN routes, DOMAIN repairs' = DOMAIN repairs,
         DOMAIN joins' = DOMAIN joins,
         todo' = todo \ {n},
         s \in Terminal \/ row[n].status = "pending",
         pc # "failed"
  PROVE  CInv'
<1> USE DEF CInv
<1>1. /\ row' = [m \in Node |->
            [status |-> row'[m].status, count |-> row'[m].count,
             digest |-> row'[m].digest, repeats |-> row'[m].repeats,
             failure |-> row'[m].failure]]
      /\ \A m \in Node : row'[m].count = row[m].count
      /\ \A m \in Node \ {n} : row'[m] = row[m]
      /\ row'[n].status = s
  <2>1. PICK r : r = [row[n] EXCEPT !.status = s]
    OBVIOUS
  <2>2. row' = [row EXCEPT ![n] = r]
    BY <2>1 DEF SetStatus
  <2>3. /\ row' = [m \in Node |-> row'[m]]
        /\ row'[n] = r /\ \A m \in Node \ {n} : row'[m] = row[m]
    BY <2>2 DEF ControlShape
  <2>4. /\ r = [status |-> r.status, count |-> r.count, digest |-> r.digest,
                repeats |-> r.repeats, failure |-> r.failure]
        /\ r.status = s /\ r.count = row[n].count
    BY <2>1, RowWithStatus
  <2>5. \A m \in Node : row'[m] =
          [status |-> row'[m].status, count |-> row'[m].count,
           digest |-> row'[m].digest, repeats |-> row'[m].repeats,
           failure |-> row'[m].failure]
    BY <2>3, <2>4 DEF ControlShape
  <2> QED BY <2>3, <2>4, <2>5
<1>2. Node' = Node /\ Kept(flow) \subseteq Node
  BY DEF Node, Kept
<1>3. ControlShape'
  BY <1>1, <1>2 DEF ControlShape
<1>4. VerdictsLag' /\ VerdictsStop'
  <2>1. ASSUME NEW m \in Kept(flow)
        PROVE  /\ m \in Node /\ row'[m].count = row[m].count
               /\ row'[m].status = row[m].status
                   \/ row'[m].status \notin {"running", "succeeded"}
    BY <1>1, <1>2
  <2>2. VerdictsLag'
    BY <1>2, <2>1 DEF VerdictsLag
  <2>3. VerdictsStop'
    BY <1>2, <2>1 DEF VerdictsStop, Decided, Matches
  <2> QED BY <2>2, <2>3
<1>5. PassOrderly'
  BY <1>1, <1>2 DEF PassOrderly, ControlShape
<1>6. \A m \in Kept(flow) : (Due(m))' => m # n /\ Due(m)
  BY <1>1, <1>2 DEF Due, Decided
<1>7. VerdictsDue'
  BY <1>6 DEF VerdictsDue
<1>8. SuccessSettled'
  BY <1>1, <1>2 DEF SuccessSettled, Settled, Terminal, Status
<1> QED BY <1>3, <1>4, <1>5, <1>7, <1>8

(* A repair reopens a node that failed.                                    *)
LEMMA RouteRepairKeeps ==
  ASSUME CInv, NEW n \in Node, NEW i, RouteRepair(n, i),
         flow' = flow, moved' = moved,
         \/ pc = "repair" /\ pc' = "repair" /\ todo' = todo \ {n}
         \/ pc = "failed" /\ pc' = "expire" /\ todo' = {}
  PROVE  CInv'
<1> USE DEF CInv
<1>1. PICK reopened : reopened = {n} \cup TargetNodes(Decl(n).repair[i])
  OBVIOUS
<1>2. /\ row' = [m \in Node |-> IF m \in reopened
                                THEN [row[m] EXCEPT !.status = "pending"]
                                ELSE row[m]]
      /\ art' = [m \in Node |-> IF m \in reopened THEN Unmade ELSE art[m]]
      /\ run' = "running"
      /\ UNCHANGED <<loops, routes, joins>>
      /\ DOMAIN repairs' = DOMAIN repairs
  BY <1>1 DEF RouteRepair
<1>3. /\ row' = [m \in Node |->
            [status |-> row'[m].status, count |-> row'[m].count,
             digest |-> row'[m].digest, repeats |-> row'[m].repeats,
             failure |-> row'[m].failure]]
      /\ \A m \in Node : /\ row'[m].count = row[m].count
                         /\ row'[m].status \in {row[m].status, "pending"}
                         /\ row'[m].status # "pending" => art'[m] = art[m]
  <2>1. ASSUME NEW m \in Node
        PROVE  /\ row'[m] = [status |-> row'[m].status, count |-> row'[m].count,
                             digest |-> row'[m].digest, repeats |-> row'[m].repeats,
                             failure |-> row'[m].failure]
               /\ row'[m].count = row[m].count
               /\ row'[m].status \in {row[m].status, "pending"}
               /\ row'[m].status # "pending" => art'[m] = art[m]
    <3>1. CASE m \in reopened
      <4>1. row'[m] = [row[m] EXCEPT !.status = "pending"]
        BY <1>2, <3>1
      <4> QED BY <4>1, RowWithStatus
    <3>2. CASE m \notin reopened
      <4>1. row'[m] = row[m] /\ art'[m] = art[m]
        BY <1>2, <3>2
      <4> QED BY <4>1 DEF ControlShape
    <3> QED BY <3>1, <3>2
  <2>2. row' = [m \in Node |-> row'[m]]
    BY <1>2
  <2> QED BY <2>1, <2>2
<1>4. Node' = Node /\ Kept(flow) \subseteq Node
  BY DEF Node, Kept
<1>5. ControlShape'
  <2>1. \A m \in Node' : row'[m].status \in Status /\ row'[m].count \in Nat
    BY <1>3, <1>4 DEF ControlShape, Status
  <2>2. art' = [m \in Node' |-> art'[m]]
    BY <1>2, <1>4
  <2>3. moved' \in BOOLEAN /\ todo' \subseteq Node'
    BY <1>4 DEF ControlShape
  <2> QED BY <1>2, <1>3, <1>4, <2>1, <2>2, <2>3 DEF ControlShape
<1>6. VerdictsLag' /\ VerdictsStop'
  <2>1. VerdictsLag'
    BY <1>2, <1>3, <1>4 DEF VerdictsLag, ControlShape
  <2>2. \A m \in Kept(flow) : row'[m].status = "succeeded" =>
          row[m].status = "succeeded" /\ art'[m] = art[m]
    BY <1>3, <1>4
  <2>3. VerdictsStop'
    BY <1>2, <1>3, <1>4, <2>2 DEF VerdictsStop, Decided, Matches
  <2> QED BY <2>1, <2>3
<1>7. PassOrderly'
  BY DEF PassOrderly
<1>8. \A m \in Kept(flow) : (Due(m))' => Due(m)
  BY <1>2, <1>3, <1>4 DEF Due, Decided
<1>9. VerdictsDue'
  BY <1>2, <1>8 DEF VerdictsDue
<1>10. SuccessSettled'
  BY <1>2 DEF SuccessSettled
<1> QED BY <1>5, <1>6, <1>7, <1>9, <1>10

LEMMA RepairKeeps == ASSUME CInv, NEW n \in Node, Repair(n) PROVE CInv'
<1>1. pc = "repair" /\ todo' = todo \ {n} /\ TryRepair(n)
      /\ UNCHANGED <<flow, pc, moved>>
  BY DEF Repair, Visit, Local
<1>2. CASE UNCHANGED store
  BY <1>1, <1>2, StillKeeps DEF store
<1>3. CASE \E i \in DOMAIN repairs[n] : RouteRepair(n, i) 
  BY <1>1, <1>3, RouteRepairKeeps
<1> QED BY <1>1, <1>2, <1>3 DEF TryRepair

LEMMA FailClosedKeeps ==
  ASSUME CInv, NEW n \in Node, FailClosed(n), todo' = todo \ {n}, UNCHANGED Local,
         pc # "failed"
  PROVE  CInv'
<1>1. "failed" \in Status \ {"running", "succeeded"} /\ "failed" \in Terminal
  BY DEF Status, Terminal
<1> QED BY <1>1, SettleKeeps DEF FailClosed, Local

-----------------------------------------------------------------------------
(* The loops.                                                              *)

WithStatus(n, s) ==
  [status |-> s, count |-> row[n].count, digest |-> row[n].digest,
   repeats |-> row[n].repeats, failure |-> row[n].failure]

(* A verdict is taken on an accepted controller: it stays accepted only if *)
(* the verdict was to stop, and whatever else changes is reopened.         *)
LEMMA VerdictKeeps ==
  ASSUME CInv, NEW n \in Kept(flow), Due(n), pc \in {"loops", "reloop"},
         Checkpoint(n), UNCHANGED <<run, Local>>, todo' = todo \ {n},
         NEW s, row' = [m \in Node |-> WithStatus(m, s[m])],
         art' = [m \in Node |-> art'[m]],
         DOMAIN routes' = DOMAIN routes, UNCHANGED <<repairs, joins>>,
         \A m \in Node :
           \/ s[m] = row[m].status /\ art'[m] = art[m]
           \/ s[m] = "pending" /\ art'[m].attempt = 0
           \/ m = n /\ s[m] = "failed",
         s[n] = "succeeded" => ~Matches(n)
  PROVE  CInv'
<1> USE DEF CInv
<1>1. Node' = Node /\ Kept(flow) \subseteq Node /\ UNCHANGED <<flow, pc, moved>>
  BY DEF Node, Kept, Local
<1>2. /\ loops' = [m \in Kept(flow) |-> loops'[m]]
      /\ loops'[n].attempt = row[n].count
      /\ \A m \in Kept(flow) \ {n} : loops'[m] = loops[m]
  BY DEF Checkpoint, ControlShape
<1>3. /\ row' = [m \in Node |->
            [status |-> row'[m].status, count |-> row'[m].count,
             digest |-> row'[m].digest, repeats |-> row'[m].repeats,
             failure |-> row'[m].failure]]
      /\ \A m \in Node : row'[m].count = row[m].count /\ row'[m].status = s[m]
  BY DEF WithStatus
<1>4. ControlShape'
  BY <1>1, <1>2, <1>3 DEF ControlShape, Status
<1>5. VerdictsLag'
  <2>1. \A m \in Kept(flow) : row'[m].status = "running" =>
          m # n /\ row[m].status = "running"
    BY <1>1, <1>3 DEF Due
  <2>2. \A m \in Kept(flow) :
          /\ row[m].count \in Nat /\ loops[m].attempt \in Nat
          /\ row'[m].count = row[m].count
    BY <1>1, <1>3 DEF ControlShape
  <2>3. Kept(flow') = Kept(flow)
    BY <1>1
  <2>4. \A m \in Kept(flow) :
          /\ loops'[m].attempt <= row'[m].count
          /\ row'[m].status = "running" => loops'[m].attempt < row'[m].count
    <3>1. \A m \in Kept(flow) :
            /\ loops[m].attempt <= row[m].count
            /\ row[m].status = "running" => loops[m].attempt < row[m].count
      BY DEF VerdictsLag
    <3>2. row'[n].status # "running"
      BY <2>1
    <3>3. ASSUME NEW m \in Kept(flow)
          PROVE  /\ loops'[m].attempt <= row'[m].count
                 /\ row'[m].status = "running" => loops'[m].attempt < row'[m].count
      <4>1. CASE m = n
        <5>1. /\ loops'[n].attempt = row[n].count /\ row'[n].count = row[n].count
              /\ row[n].count \in Nat
          BY <1>2, <2>2
        <5> QED BY <3>2, <4>1, <5>1
      <4>2. CASE m # n
        BY <1>2, <2>1, <2>2, <3>1, <4>2
      <4> QED BY <4>1, <4>2
    <3> QED BY <3>3
  <2> QED BY <2>3, <2>4 DEF VerdictsLag
<1>6. PassOrderly'
  <2>1. ASSUME NEW m \in todo'
        PROVE  /\ m \in Kept(flow)
               /\ \/ row'[m].status = "succeeded"
                  \/ row'[m].status = "pending" /\ art'[m].attempt = 0
    <3>1. m # n /\ m \in todo /\ m \in Node
      BY DEF ControlShape
    <3>2. /\ m \in Kept(flow)
          /\ \/ row[m].status = "succeeded"
             \/ row[m].status = "pending" /\ art[m].attempt = 0
      BY <3>1 DEF PassOrderly
    <3> QED BY <1>3, <3>1, <3>2
  <2> QED BY <1>1, <2>1 DEF PassOrderly
<1>7. VerdictsDue'
  <2>1. \A m \in Kept(flow) : (Due(m))' => m # n /\ Due(m)
    BY <1>1, <1>2, <1>3 DEF Due, Decided
  <2> QED BY <1>1, <2>1 DEF VerdictsDue
<1>8. VerdictsStop'
  <2>1. \A m \in Kept(flow) \ {n} : row'[m].status = "succeeded" =>
          row[m].status = "succeeded" /\ art'[m] = art[m]
    BY <1>1, <1>3
  <2>2. row'[n].status = "succeeded" => art'[n] = art[n]
    BY <1>1, <1>3
  <2> QED BY <1>1, <1>2, <1>3, <2>1, <2>2 DEF VerdictsStop, Decided, Matches
<1>9. SuccessSettled'
  BY <1>1 DEF SuccessSettled, VerdictsDue
<1> QED BY <1>4, <1>5, <1>6, <1>7, <1>8, <1>9

LEMMA LoopKeeps == ASSUME CInv, NEW n \in Node, Loop(n) PROVE CInv'
<1>1. /\ pc \in {"loops", "reloop"} /\ todo # {} /\ n = Least(todo)
      /\ todo' = todo \ {n} /\ UNCHANGED Local
  BY DEF Loop, Visit
<1>2. n \in todo
  BY <1>1, VisitIsDue DEF CInv
<1>3. /\ n \in Kept(flow)
      /\ \/ row[n].status = "succeeded"
         \/ row[n].status = "pending" /\ art[n].attempt = 0
  BY <1>1, <1>2 DEF CInv, PassOrderly
<1>4. CASE FailClosed(n)
  BY <1>1, <1>4, FailClosedKeeps
<1>5. CASE Evaluable(n) /\ Decided(n) /\ UNCHANGED store
  <2>1. ~Due(n)
    BY <1>5 DEF Due
  <2>2. UNCHANGED <<flow, run, row, art, loops, moved, pc, routes, repairs, joins>>
    BY <1>1, <1>5 DEF store, Local
  <2>3. Node' = Node /\ Kept(flow') = Kept(flow)
    BY <2>2 DEF Node, Kept
  <2>4. ControlShape'
    BY <1>1, <2>2, <2>3 DEF CInv, ControlShape
  <2>5. VerdictsLag' /\ VerdictsStop' /\ PassOrderly' /\ SuccessSettled'
    BY <1>1, <2>2, <2>3 DEF CInv, VerdictsLag, VerdictsStop, Decided, Matches, PassOrderly,
       SuccessSettled, Settled
  <2>6. VerdictsDue'
    <3>1. \A m \in Kept(flow) : (Due(m))' => m # n /\ Due(m)
      BY <2>1, <2>2 DEF Due, Decided
    <3> QED BY <1>1, <2>2, <2>3, <3>1 DEF CInv, VerdictsDue
  <2> QED BY <2>4, <2>5, <2>6 DEF CInv
<1>6. CASE /\ Evaluable(n) /\ ~Decided(n) /\ Checkpoint(n)
           /\ IF ~Matches(n)
              THEN UNCHANGED <<run, row, art, progress, routes, repairs, joins, blame>>
              ELSE Exhausted(n) \/ Continued(n)
  <2>1. Due(n)
    BY <1>3, <1>6 DEF Due, Evaluable
  <2>2. \A m \in Node : row[m] = WithStatus(m, row[m].status)
    BY DEF CInv, ControlShape, WithStatus
  <2>3. /\ DOMAIN row = Node /\ DOMAIN art = Node
        /\ \A m \in Node, v \in Status : [row[m] EXCEPT !.status = v] = WithStatus(m, v)
    BY <2>2 DEF CInv, ControlShape, WithStatus
  <2> "failed" \in Status /\ "pending" \in Status
    BY DEF Status
  <2>4. CASE ~Matches(n) /\ UNCHANGED <<run, row, art, routes, repairs, joins>>
    <3>0. PICK s : s = [m \in Node |-> row[m].status]
      OBVIOUS
    <3>1. row' = [m \in Node |-> WithStatus(m, s[m])] /\ art' = [m \in Node |-> art'[m]]
      BY <2>2, <2>4, <3>0 DEF CInv, ControlShape
    <3> QED BY <1>1, <1>3, <1>6, <2>1, <3>0, <2>4, <3>1, VerdictKeeps
  <2>5. CASE Exhausted(n)
    <3>0. PICK s : s = [m \in Node |-> IF m = n THEN "failed" ELSE row[m].status]
      OBVIOUS
    <3>1. /\ row' = [row EXCEPT ![n] = [row[n] EXCEPT !.status = "failed"]]
          /\ art' = [art EXCEPT ![n] = Unmade]
          /\ UNCHANGED <<run, routes, repairs, joins>>
      BY <2>1, <2>5 DEF Exhausted, Due
    <3>2. row' = [m \in Node |-> WithStatus(m, s[m])]
      <4>1. /\ row' = [m \in Node |-> row'[m]]
            /\ \A m \in Node \ {n} : row'[m] = row[m]
            /\ row'[n] = WithStatus(n, "failed")
        BY <2>3, <3>1
      <4>2. \A m \in Node : row'[m] = WithStatus(m, s[m])
        BY <2>2, <3>0, <4>1
      <4> QED BY <4>1, <4>2
    <3>3. /\ art' = [m \in Node |-> art'[m]]
          /\ \A m \in Node \ {n} : art'[m] = art[m]
      BY <2>3, <3>1
    <3>4. /\ \A m \in Node :
               \/ s[m] = row[m].status /\ art'[m] = art[m]
               \/ s[m] = "pending" /\ art'[m].attempt = 0
               \/ m = n /\ s[m] = "failed"
          /\ s[n] = "succeeded" => ~Matches(n)
      BY <3>0, <3>3
    <3>5. DOMAIN routes' = DOMAIN routes /\ UNCHANGED <<repairs, joins>>
          /\ UNCHANGED <<run, Local>>
      BY <1>1, <3>1
    <3>6. art' = [m \in Node |-> art'[m]]
      BY <3>3
    <3> QED BY <1>1, <1>3, <1>6, <2>1, <3>2, <3>4, <3>5, <3>6, VerdictKeeps
  <2>6. CASE Continued(n)
    <3>1. PICK region : region = LoopRegion(flow, n)
      OBVIOUS
    <3>0. PICK s : s = [m \in Node |-> IF m \in region THEN "pending" ELSE row[m].status]
      OBVIOUS
    <3>2. /\ art' = [m \in Node |-> IF m \in region THEN Unmade ELSE art[m]]
          /\ row' = [m \in Node |-> IF m \in region
                       THEN [row[m] EXCEPT !.status = "pending"] ELSE row[m]]
          /\ DOMAIN routes' = DOMAIN routes /\ UNCHANGED <<run, repairs, joins>>
      BY <2>6, <3>1 DEF Continued
    <3>3. row' = [m \in Node |-> WithStatus(m, s[m])]
      <4>1. \A m \in Node : row'[m] = WithStatus(m, s[m])
        BY <2>2, <2>3, <3>0, <3>2
      <4> QED BY <3>2, <4>1
    <3>4. /\ art' = [m \in Node |-> art'[m]]
          /\ \A m \in Node : IF m \in region THEN art'[m].attempt = 0
                                            ELSE art'[m] = art[m]
      BY <3>2 DEF Unmade
    <3>5. n \in region
      BY <3>1 DEF LoopRegion
    <3>6. /\ \A m \in Node :
               \/ s[m] = row[m].status /\ art'[m] = art[m]
               \/ s[m] = "pending" /\ art'[m].attempt = 0
               \/ m = n /\ s[m] = "failed"
          /\ s[n] = "succeeded" => ~Matches(n)
      BY <3>0, <3>4, <3>5
    <3>7. art' = [m \in Node |-> art'[m]] /\ UNCHANGED <<run, Local>>
          /\ DOMAIN routes' = DOMAIN routes /\ UNCHANGED <<repairs, joins>>
      BY <1>1, <3>2
    <3>8. Checkpoint(n) /\ n \in Kept(flow) /\ pc \in {"loops", "reloop"}
          /\ todo' = todo \ {n}
      BY <1>1, <1>3, <1>6
    <3> QED BY <2>1, <3>3, <3>6, <3>7, <3>8, VerdictKeeps
  <2> QED BY <1>6, <2>4, <2>5, <2>6
<1> QED BY <1>4, <1>5, <1>6 DEF Loop

-----------------------------------------------------------------------------
(* Routes, joins and what they settle.                                     *)

LEMMA RouteKeeps == ASSUME CInv, NEW n \in Node, Route(n) PROVE CInv'
<1>1. /\ pc \in {"routes", "reroute"} /\ todo # {} /\ n = Least(todo)
      /\ todo' = todo \ {n} /\ UNCHANGED Local
  BY DEF Route, Visit
<1>2. n \in todo
  BY <1>1, VisitIsDue DEF CInv
<1>3. row[n].status = "pending"
  BY <1>1, <1>2 DEF CInv, PassOrderly
<1>4. CASE FailClosed(n)
  BY <1>1, <1>4, FailClosedKeeps
<1>5. CASE UNCHANGED store
  BY <1>1, <1>5, StillKeeps DEF store, Local
<1>6. CASE /\ DOMAIN routes' = DOMAIN routes
           /\ SetStatus(n, IF Matches(Decl(n).route[1]) THEN "pending" ELSE "skipped")
           /\ UNCHANGED <<run, art, progress, loops, repairs, joins>>
  <2>1. PICK s : s = IF Matches(Decl(n).route[1]) THEN "pending" ELSE "skipped"
    OBVIOUS
  <2>2. SetStatus(n, s)
    BY <1>6, <2>1
  <2>3. s \in Status \ {"running", "succeeded"}
    BY <2>1 DEF Status
  <2> QED BY <1>1, <1>3, <1>6, <2>2, <2>3, SettleKeeps DEF Local
<1>7. CASE \E decision :
             /\ routes' = [routes EXCEPT ![n] = decision]
             /\ SetStatus(n, IF Matches(Decl(n).route[1]) THEN "pending" ELSE "skipped")
             /\ UNCHANGED <<run, art, progress, loops, repairs, joins>>
  BY <1>6, <1>7
<1> QED BY <1>4, <1>5, <1>7 DEF Route

LEMMA JoinKeeps == ASSUME CInv, NEW n \in Node, Join(n) PROVE CInv'
<1>1. /\ pc = "join" /\ todo' = todo \ {n} /\ DOMAIN joins' = DOMAIN joins
      /\ UNCHANGED <<run, row, art, progress, loops, routes, repairs, Local>>
  BY DEF Join, Visit
<1> QED BY <1>1, StillKeeps DEF Local

LEMMA SettlesKeep ==
  ASSUME CInv, NEW n \in Node,
         Block(n) \/ Skip(n) \/ Refuse(n) \/ Invalidate(n) \/ GiveUp(n)
  PROVE  CInv'
<1>1. PICK s \in {"blocked", "skipped", "failed"} : SetStatus(n, s)
  BY DEF Block, Skip, Refuse, Invalidate, GiveUp
<1>2. /\ pc \in {"settle", "dispatch", "check", "budget"} /\ todo' = todo \ {n}
      /\ UNCHANGED <<run, art, loops, routes, repairs, joins, Local>>
  BY DEF Block, Skip, Refuse, Invalidate, GiveUp, Visit
<1>3. s \in Status \ {"running", "succeeded"} /\ s \in Terminal
  BY DEF Status, Terminal
<1> QED BY <1>1, <1>2, <1>3, SettleKeeps DEF Local

-----------------------------------------------------------------------------
(* Attempts.                                                               *)

LEMMA StartKeeps == ASSUME CInv, NEW n \in Node, Start(n) PROVE CInv'
<1> USE DEF CInv
<1>1. /\ pc = "dispatch" /\ todo # {} /\ n = Least(todo) /\ todo' \subseteq todo
      /\ n \notin todo'
      /\ UNCHANGED <<run, art, progress, loops, routes, repairs, joins, flow, pc, moved>>
  BY DEF Start
<1>2. n \in todo /\ row[n].status = "pending"
  BY <1>1, VisitIsDue DEF PassOrderly
<1>3. PICK r : r = [row[n] EXCEPT !.status = "running", !.count = @ + 1,
                                   !.failure = Silent]
  OBVIOUS
<1>4. row' = [row EXCEPT ![n] = r]
  BY <1>3 DEF Start
<1>5. /\ r = [status |-> r.status, count |-> r.count, digest |-> r.digest,
              repeats |-> r.repeats, failure |-> r.failure]
      /\ r.status = "running" /\ r.count = row[n].count + 1
  <2>1. DOMAIN row[n] = Fields
    BY RowHasFields
  <2>2. r = [x \in Fields |-> r[x]] /\ r.status = "running" /\ r.count = row[n].count + 1
    BY <1>3, <2>1 DEF Fields
  <2> QED BY <2>2, RowOfFields
<1>6. Node' = Node /\ Kept(flow) \subseteq Node
  BY <1>1 DEF Node, Kept
<1>7. row'[n] = r /\ \A m \in Node \ {n} : row'[m] = row[m]
  BY <1>4 DEF ControlShape
<1>8. ControlShape'
  <2>1. row' = [m \in Node |->
                  [status |-> row'[m].status, count |-> row'[m].count,
                   digest |-> row'[m].digest, repeats |-> row'[m].repeats,
                   failure |-> row'[m].failure]]
    BY <1>4, <1>5, <1>7 DEF ControlShape
  <2>2. \A m \in Node : row'[m].status \in Status /\ row'[m].count \in Nat
    <3>1. r.status \in Status /\ r.count \in Nat
      BY <1>5 DEF ControlShape, Status
    <3>2. \A m \in Node \ {n} : row'[m].status \in Status /\ row'[m].count \in Nat
      BY <1>7 DEF ControlShape
    <3> QED BY <1>7, <3>1, <3>2
  <2> QED BY <1>1, <1>6, <2>1, <2>2 DEF ControlShape
<1>9. VerdictsLag'
  <2>1. \A m \in Kept(flow) : m # n => row'[m] = row[m]
    BY <1>6, <1>7
  <2>2. n \in Kept(flow) => /\ loops[n].attempt \in Nat /\ row[n].count \in Nat
                            /\ loops[n].attempt <= row[n].count
    BY <1>6 DEF ControlShape, VerdictsLag
  <2> QED BY <1>1, <1>5, <1>7, <2>1, <2>2 DEF VerdictsLag
<1>10. PassOrderly'
  BY <1>1, <1>7 DEF PassOrderly, ControlShape
<1>11. \A m \in Kept(flow) : row'[m].status = "succeeded" => m # n /\ row'[m] = row[m]
  BY <1>5, <1>6, <1>7
<1>12. VerdictsDue' /\ VerdictsStop'
  BY <1>1, <1>11 DEF VerdictsDue, VerdictsStop, Due, Decided, Matches
<1>13. SuccessSettled'
  BY <1>1, <1>2 DEF SuccessSettled, Settled, Terminal
<1> QED BY <1>8, <1>9, <1>10, <1>12, <1>13

(* An attempt that ends, accepted or not, makes the loops be processed     *)
(* again before the run can conclude.                                      *)
LEMMA EndKeeps ==
  ASSUME CInv, NEW n \in Node, row[n].status = "running",
         NEW r, row' = [row EXCEPT ![n] = r],
         r = [status |-> r.status, count |-> row[n].count, digest |-> r.digest,
              repeats |-> r.repeats, failure |-> r.failure],
         r.status \in {"succeeded", "failed"},
         art' = [m \in Node |-> art'[m]], \A m \in Node \ {n} : art'[m] = art[m],
         UNCHANGED <<flow, run, loops, routes, repairs, joins>>,
         pc \in {"pop", "expire"}, pc' \in {"expire", "failed"},
         moved' = TRUE, todo' \subseteq Node
  PROVE  CInv'
<1> USE DEF CInv
<1>1. Node' = Node /\ Kept(flow) \subseteq Node
  BY DEF Node, Kept
<1>2. row'[n] = r /\ \A m \in Node \ {n} : row'[m] = row[m]
  BY DEF ControlShape
<1>3. r.count = row[n].count
  OBVIOUS
<1>4. ControlShape'
  <2>1. row' = [m \in Node |->
                  [status |-> row'[m].status, count |-> row'[m].count,
                   digest |-> row'[m].digest, repeats |-> row'[m].repeats,
                   failure |-> row'[m].failure]]
    <3>1. row' = [m \in Node |-> row'[m]]
      BY DEF ControlShape
    <3>2. \A m \in Node : row'[m] =
            [status |-> row'[m].status, count |-> row'[m].count,
             digest |-> row'[m].digest, repeats |-> row'[m].repeats,
             failure |-> row'[m].failure]
      BY <1>2, <1>3 DEF ControlShape
    <3> QED BY <3>1, <3>2
  <2>2. \A m \in Node : row'[m].status \in Status /\ row'[m].count \in Nat
    BY <1>2, <1>3 DEF ControlShape, Status
  <2> QED BY <1>1, <2>1, <2>2 DEF ControlShape
<1>5. VerdictsLag'
  BY <1>1, <1>2, <1>3 DEF VerdictsLag
<1>6. PassOrderly'
  BY DEF PassOrderly
<1>7. run # "succeeded"
  <2>1. ~Settled
    BY DEF Settled, Terminal
  <2> QED BY <2>1 DEF SuccessSettled
<1>8. VerdictsDue' /\ SuccessSettled'
  BY <1>7 DEF VerdictsDue, SuccessSettled
<1>9. VerdictsStop'
  <2>1. n \in Kept(flow) => loops[n].attempt # row[n].count
    <3>1. n \in Kept(flow) => loops[n].attempt < row[n].count
      BY DEF VerdictsLag
    <3>2. n \in Kept(flow) => loops[n].attempt \in Nat /\ row[n].count \in Nat
      BY DEF ControlShape
    <3> QED BY <3>1, <3>2
  <2>2. \A m \in Kept(flow) : m # n => row'[m] = row[m] /\ art'[m] = art[m]
    BY <1>1, <1>2
  <2> QED BY <1>2, <1>3, <2>1, <2>2 DEF VerdictsStop, Decided, Matches
<1> QED BY <1>4, <1>5, <1>6, <1>8, <1>9

LEMMA SucceedKeeps == ASSUME CInv, NEW n \in Node, Succeed(n) PROVE CInv'
<1>1. /\ pc = "pop" /\ pc' = "expire" /\ moved' = TRUE /\ row[n].status = "running"
      /\ UNCHANGED <<run, loops, routes, repairs, joins, flow, rows, todo>>
  BY DEF Succeed, Popped
<1>2. PICK r : r = [row[n] EXCEPT !.status = "succeeded", !.digest = None, !.repeats = 0]
  OBVIOUS
<1>3. row' = [row EXCEPT ![n] = r]
  BY <1>2 DEF Succeed
<1>4. /\ r = [status |-> r.status, count |-> r.count, digest |-> r.digest,
              repeats |-> r.repeats, failure |-> r.failure]
      /\ r.status = "succeeded" /\ r.count = row[n].count
  <2>1. DOMAIN row[n] = Fields
    BY RowHasFields DEF CInv
  <2>2. r = [x \in Fields |-> r[x]] /\ r.status = "succeeded" /\ r.count = row[n].count
    BY <1>2, <2>1 DEF Fields
  <2> QED BY <2>2, RowOfFields
<1>5. art' = [m \in Node |-> art'[m]] /\ \A m \in Node \ {n} : art'[m] = art[m]
  <2>1. PICK a : art' = [art EXCEPT ![n] = a]
    BY DEF Succeed
  <2> QED BY <2>1 DEF CInv, ControlShape
<1>6. todo' \subseteq Node
  BY <1>1 DEF CInv, ControlShape
<1> QED BY <1>1, <1>3, <1>4, <1>5, <1>6, EndKeeps

LEMMA FinishKeeps ==
  ASSUME CInv, NEW n \in Node, NEW ail, FinishAttempt(n, ail), pc \in {"pop", "expire"},
         moved' = TRUE
  PROVE  CInv'
<1>1. /\ pc' = "failed" /\ todo' = {n} /\ row[n].status = "running"
      /\ UNCHANGED <<run, art, loops, routes, repairs, joins, flow>>
  BY DEF FinishAttempt
<1>2. PICK k : k = IF row[n].digest = ail.digest THEN row[n].repeats + 1 ELSE 0
  OBVIOUS
<1>3. PICK r : r = [row[n] EXCEPT !.status = "failed", !.failure = ail,
                                   !.digest = ail.digest, !.repeats = k]
  OBVIOUS
<1>4. row' = [row EXCEPT ![n] = r]
  BY <1>2, <1>3 DEF FinishAttempt
<1>5. /\ r = [status |-> r.status, count |-> r.count, digest |-> r.digest,
              repeats |-> r.repeats, failure |-> r.failure]
      /\ r.status = "failed" /\ r.count = row[n].count
  <2>1. DOMAIN row[n] = Fields
    BY RowHasFields DEF CInv
  <2>2. r = [x \in Fields |-> r[x]] /\ r.status = "failed" /\ r.count = row[n].count
    BY <1>3, <2>1 DEF Fields
  <2> QED BY <2>2, RowOfFields
<1>6. art' = [m \in Node |-> art'[m]] /\ \A m \in Node \ {n} : art'[m] = art[m]
  BY <1>1 DEF CInv, ControlShape
<1> QED BY <1>1, <1>4, <1>5, <1>6, EndKeeps

LEMMA PopKeeps == ASSUME CInv, NEW n \in Node, Pop(n) \/ Timeout(n) PROVE CInv'
<1>1. CASE Succeed(n)
  BY <1>1, SucceedKeeps
<1>2. CASE Fail(n)
  BY <1>2, FinishKeeps DEF Fail, Popped
<1>3. CASE Outlived(n)
  <2>1. /\ pc' = "expire" /\ moved' = TRUE
        /\ UNCHANGED <<run, row, art, loops, routes, repairs, joins, flow, todo>>
    BY <1>3 DEF Outlived, Popped, store
  <2>2. run = "succeeded" => Settled /\ \A m \in Kept(flow) : ~Due(m)
    BY DEF CInv, SuccessSettled, VerdictsDue
  <2> QED BY <2>1, <2>2, TurnKeeps DEF CInv, ControlShape
<1>4. CASE Timeout(n)
  BY <1>4, FinishKeeps DEF Timeout
<1> QED BY <1>1, <1>2, <1>3, <1>4 DEF Pop

LEMMA FinalizeKeeps == ASSUME CInv, NEW n \in Node, Finalize(n) PROVE CInv'
<1>1. /\ pc = "failed" /\ pc' = "expire" /\ todo' = {} /\ UNCHANGED <<flow, moved>>
  BY DEF Finalize
<1>2. /\ run # "succeeded"
      /\ \A m \in Kept(flow) : Due(m) => moved
  BY <1>1 DEF CInv, SuccessSettled, VerdictsDue
<1>3. CASE UNCHANGED store
  <2>1. moved' \in BOOLEAN /\ run \in {"running", "succeeded", "failed"}
    BY <1>1 DEF CInv, ControlShape
  <2>2. moved' \/ \A m \in Kept(flow) : ~Due(m)
    BY <1>1, <1>2
  <2> QED BY <1>1, <1>2, <1>3, <2>1, <2>2, TurnKeeps DEF store
<1>4. CASE TryRepair(n)
  BY <1>1, <1>3, <1>4, RouteRepairKeeps DEF TryRepair
<1>5. CASE /\ SetStatus(n, IF RetryAvailable(n) THEN "pending"
                           ELSE IF Decl(n).required THEN "failed" ELSE "optional_failed")
           /\ UNCHANGED <<run, art, progress, loops, routes, repairs, joins>>
  <2>1. PICK s \in {"pending", "failed", "optional_failed"} :
          row' = [row EXCEPT ![n].status = s]
    BY <1>5 DEF SetStatus
  <2>2. Node' = Node /\ Kept(flow) \subseteq Node
    BY <1>1 DEF Node, Kept
  <2>3. /\ row' = [m \in Node |->
             [status |-> row'[m].status, count |-> row'[m].count,
              digest |-> row'[m].digest, repeats |-> row'[m].repeats,
              failure |-> row'[m].failure]]
        /\ \A m \in Node : row'[m].count = row[m].count
        /\ \A m \in Node \ {n} : row'[m] = row[m]
        /\ row'[n].status = s
    <3>1. PICK r : r = [row[n] EXCEPT !.status = s]
      OBVIOUS
    <3>2. row' = [row EXCEPT ![n] = r]
      BY <2>1, <3>1
    <3>3. /\ row' = [m \in Node |-> row'[m]]
          /\ row'[n] = r /\ \A m \in Node \ {n} : row'[m] = row[m]
      BY <1>1, <3>2 DEF CInv, ControlShape
    <3>4. /\ r = [status |-> r.status, count |-> r.count, digest |-> r.digest,
                  repeats |-> r.repeats, failure |-> r.failure]
          /\ r.status = s /\ r.count = row[n].count
      BY <1>1, <3>1, RowWithStatus DEF CInv
    <3>5. \A m \in Node : row'[m] =
            [status |-> row'[m].status, count |-> row'[m].count,
             digest |-> row'[m].digest, repeats |-> row'[m].repeats,
             failure |-> row'[m].failure]
      BY <3>3, <3>4 DEF CInv, ControlShape
    <3> QED BY <3>3, <3>4, <3>5
  <2>4. ControlShape'
    BY <1>1, <1>5, <2>2, <2>3 DEF CInv, ControlShape, Status
  <2>5. VerdictsLag'
    BY <1>1, <1>5, <2>2, <2>3 DEF CInv, VerdictsLag
  <2>6. VerdictsStop'
    BY <1>1, <1>5, <2>2, <2>3 DEF CInv, VerdictsStop, Decided, Matches
  <2>7. \A m \in Kept(flow) : (Due(m))' => Due(m)
    BY <1>5, <2>2, <2>3 DEF Due, Decided
  <2>8. VerdictsDue' /\ PassOrderly' /\ SuccessSettled'
    BY <1>1, <1>2, <1>5, <2>7 DEF VerdictsDue, PassOrderly, SuccessSettled
  <2> QED BY <2>4, <2>5, <2>6, <2>8 DEF CInv
<1> QED BY <1>3, <1>4, <1>5 DEF Finalize

LEMMA RecoverKeeps == ASSUME CInv, Recover PROVE CInv'
<1>1. /\ pc = "recover" /\ pc' = "recovered" /\ run' = "running"
      /\ UNCHANGED <<flow, art, loops, routes, repairs, joins, todo, moved>>
      /\ row' = [n \in Node |->
                   IF row[n].status = "running"
                   THEN [row[n] EXCEPT !.status = "pending"] ELSE row[n]]
  BY DEF Recover
<1>2. Node' = Node /\ Kept(flow) \subseteq Node
  BY <1>1 DEF Node, Kept
<1>3. /\ row' = [n \in Node |->
            [status |-> row'[n].status, count |-> row'[n].count,
             digest |-> row'[n].digest, repeats |-> row'[n].repeats,
             failure |-> row'[n].failure]]
      /\ \A n \in Node : /\ row'[n].count = row[n].count
                         /\ row'[n].status \in {row[n].status, "pending"}
                         /\ row'[n].status # "running"
  <2>1. ASSUME NEW n \in Node
        PROVE  /\ row'[n] = [status |-> row'[n].status, count |-> row'[n].count,
                             digest |-> row'[n].digest, repeats |-> row'[n].repeats,
                             failure |-> row'[n].failure]
               /\ row'[n].count = row[n].count
               /\ row'[n].status \in {row[n].status, "pending"}
               /\ row'[n].status # "running"
    <3>1. CASE row[n].status = "running"
      <4>1. row'[n] = [row[n] EXCEPT !.status = "pending"]
        BY <1>1, <3>1
      <4> QED BY <4>1, RowWithStatus DEF CInv
    <3>2. CASE row[n].status # "running"
      <4>1. row'[n] = row[n]
        BY <1>1, <3>2
      <4> QED BY <3>2, <4>1 DEF CInv, ControlShape
    <3> QED BY <3>1, <3>2
  <2>2. row' = [n \in Node |-> row'[n]]
    BY <1>1
  <2> QED BY <2>1, <2>2
<1>4. ControlShape'
  BY <1>1, <1>2, <1>3 DEF CInv, ControlShape, Status
<1>5. VerdictsLag'
  BY <1>1, <1>2, <1>3 DEF CInv, VerdictsLag
<1>6. VerdictsStop'
  <2>1. \A n \in Kept(flow) : row'[n].status = "succeeded" => row[n].status = "succeeded"
    BY <1>2, <1>3
  <2> QED BY <1>1, <1>2, <1>3, <2>1 DEF CInv, VerdictsStop, Decided, Matches
<1>7. VerdictsDue' /\ PassOrderly' /\ SuccessSettled'
  BY <1>1 DEF VerdictsDue, PassOrderly, SuccessSettled
<1> QED BY <1>4, <1>5, <1>6, <1>7 DEF CInv

-----------------------------------------------------------------------------
(* The turns of run().                                                     *)

LEMMA NextPassKeeps == ASSUME CInv, NextPass PROVE CInv'
<1>1. /\ pc \in Passes /\ Begin(After(pc)) /\ (todo = {} \/ pc = "dispatch")
      /\ UNCHANGED <<store, flow, moved>>
  BY DEF NextPass
<1>2. After(pc) \in Passes \cup {"pop", "reduce"}
  BY <1>1 DEF After, Passes
<1>3. pc # "repair" => \A n \in Kept(flow) : ~Due(n)
  BY <1>1 DEF CInv, VerdictsDue, Passes
<1>4. pc = "repair" => After(pc) = "loops"
  BY DEF After
<1>5. run = "succeeded" => \A n \in Kept(flow) : ~Due(n)
  BY DEF CInv, VerdictsDue
<1> QED BY <1>1, <1>2, <1>3, <1>4, <1>5, BeginKeeps DEF store, CInv, ControlShape

LEMMA BeginsKeep ==
  ASSUME CInv, Expired \/ Again \/ GivenUp \/ Recovered PROVE CInv'
<1>1. PICK pass \in {"reloop", "reduce", "repair"} :
        /\ Begin(pass)
        /\ UNCHANGED <<store, flow>>
        /\ moved' \in {moved, FALSE}
        /\ pass = "reduce" => pc = "expire" /\ ~moved
  BY DEF Expired, Again, GivenUp, Recovered
<1>2. pass = "reduce" => \A n \in Kept(flow) : ~Due(n)
  BY <1>1 DEF CInv, VerdictsDue
<1>3. run = "succeeded" => \A n \in Kept(flow) : ~Due(n)
  BY DEF CInv, VerdictsDue
<1>4. pass \in Passes \cup {"pop", "reduce"} /\ moved' \in BOOLEAN
  BY <1>1 DEF Passes, CInv, ControlShape
<1> QED BY <1>1, <1>2, <1>3, <1>4, BeginKeeps DEF store

LEMMA TurnsKeep ==
  ASSUME CInv,
         \/ NoneDone \/ Conclude \/ Check \/ Checked \/ Exhaust \/ Raise \/ Crash
  PROVE  CInv'
<1>1. UNCHANGED <<flow, row, art, loops, routes, repairs, joins>>
  BY DEF NoneDone, Conclude, Check, Checked, Exhaust, Raise, Crash, FinishRun, store
<1>2. run = "succeeded" => Settled /\ \A n \in Kept(flow) : ~Due(n)
  BY DEF CInv, SuccessSettled, VerdictsDue
<1>3. pc \in {"pop", "reduce", "check"} => \A n \in Kept(flow) : ~Due(n)
  BY DEF CInv, VerdictsDue
<1>4. todo \subseteq Node /\ moved \in BOOLEAN /\ run \in {"running", "succeeded", "failed"}
  BY DEF CInv, ControlShape
<1>5. CASE NoneDone
  BY <1>1, <1>2, <1>3, <1>4, <1>5, TurnKeeps DEF NoneDone, store
<1>6. CASE Conclude
  BY <1>1, <1>4, <1>6, TurnKeeps DEF Conclude, FinishRun, Stop
<1>7. CASE Check
  <2>1. todo' \subseteq Node
    <3>1. Producers(flow) \subseteq Node
      BY DEF CInv, ControlShape, Accepted, OutputsResolve, Resolves, Producers, Node
    <3> QED BY <1>7, <3>1 DEF Check, Owing
  <2> QED BY <1>1, <1>2, <1>3, <1>4, <1>7, <2>1, TurnKeeps
          DEF Check, Concluding, store
<1>8. CASE Checked
  <2>1. Settled /\ pc = "check"
    BY <1>8 DEF Checked, CInv, SuccessSettled
  <2> QED BY <1>1, <1>3, <1>8, <2>1, TurnKeeps DEF Checked, FinishRun, Stop
<1>9. CASE Exhaust
  BY <1>1, <1>2, <1>3, <1>4, <1>9, TurnKeeps DEF Exhaust, Concluding, Pending, store
<1>10. CASE Raise \/ Crash
  BY <1>1, <1>2, <1>4, <1>10, TurnKeeps DEF Raise, Crash, Stop, store
<1> QED BY <1>5, <1>6, <1>7, <1>8, <1>9, <1>10

LEMMA CallKeeps == ASSUME CInv, Call PROVE CInv'
<1>1. UNCHANGED <<store, flow, moved>>
  BY DEF Call
<1>2. run = "succeeded" => Settled /\ \A n \in Kept(flow) : ~Due(n)
  BY DEF CInv, SuccessSettled, VerdictsDue
<1>3. todo \subseteq Node /\ moved \in BOOLEAN /\ run \in {"running", "succeeded", "failed"}
  BY DEF CInv, ControlShape
<1>4. CASE pc' = "recover" /\ UNCHANGED <<rows, todo>>
  BY <1>1, <1>2, <1>3, <1>4, TurnKeeps DEF store
<1>5. CASE Begin("repair")
  BY <1>1, <1>2, <1>3, <1>5, BeginKeeps DEF store, Passes
<1> QED BY <1>4, <1>5 DEF Call

LEMMA QuietKeeps == ASSUME CInv, NEW n \in Node, Fetch(n) \/ Expire(n) PROVE CInv'
<1>1. UNCHANGED <<run, row, art, loops, routes, repairs, joins, flow, pc, todo, moved>>
  BY DEF Fetch, Expire, store
<1> QED BY <1>1, StillKeeps

-----------------------------------------------------------------------------

LEMMA NextKeeps == CInv /\ [Next]_vars => CInv'
<1> SUFFICES ASSUME CInv, [Next]_vars PROVE CInv'
  OBVIOUS
<1>1. CASE Step
  <2>1. CASE NextPass
    BY <2>1, NextPassKeeps
  <2>2. CASE Expired \/ Again \/ GivenUp \/ Recovered
    BY <2>2, BeginsKeep
  <2>3. CASE NoneDone \/ Conclude \/ Check \/ Checked \/ Exhaust \/ Raise
    BY <2>3, TurnsKeep
  <2>4. CASE Recover
    BY <2>4, RecoverKeeps
  <2>5. ASSUME NEW n \in Node,
               \/ Repair(n) \/ Loop(n) \/ Route(n) \/ Join(n) \/ Block(n)
               \/ Skip(n) \/ Refuse(n) \/ Start(n) \/ Pop(n) \/ Timeout(n)
               \/ Finalize(n) \/ Invalidate(n) \/ GiveUp(n)
        PROVE  CInv'
    BY <2>5, RepairKeeps, LoopKeeps, RouteKeeps, JoinKeeps, SettlesKeep, StartKeeps,
       PopKeeps, FinalizeKeeps
  <2> QED BY <1>1, <2>1, <2>2, <2>3, <2>4, <2>5 DEF Step
<1>2. CASE Call
  BY <1>2, CallKeeps
<1>3. CASE Crash
  BY <1>3, TurnsKeep
<1>4. CASE \E n \in Node : Fetch(n) \/ Expire(n)
  BY <1>4, QuietKeeps
<1>5. CASE UNCHANGED vars
  BY <1>5, StillKeeps DEF vars
<1> QED BY <1>1, <1>2, <1>3, <1>4, <1>5 DEF Next

LEMMA ControlImplies == CInv => NoFalseSuccess
<1> SUFFICES ASSUME CInv, run = "succeeded", NEW n \in Kept(flow),
                    row[n].status = "succeeded"
             PROVE  Decided(n) /\ ~Matches(n)
  BY DEF NoFalseSuccess, CInv, ControlShape
<1>1. Decided(n)
  BY DEF CInv, VerdictsDue, Due
<1> QED BY <1>1 DEF CInv, VerdictsStop

(* NoFalseSuccess, for every set of workflows and any number of calls, in  *)
(* whatever order attempts end, and wherever the process dies: a fast      *)
(* controller cannot bypass its loop (Scheduler.run, _process_loops).      *)
THEOREM LoopsAreNotBypassed == ControlSpec => []NoFalseSuccess
<1>1. ControlSpec => []CInv
  BY ControlInit, NextKeeps, PTL DEF ControlSpec
<1> QED BY <1>1, ControlImplies, PTL

-----------------------------------------------------------------------------
(* What is behind a node.                                                  *)

LEMMA NeedsAreBehind ==
  ASSUME NEW w, NeedsResolve(w), NEW n \in Ids(w)
  PROVE  w.nodes[n].needs \subseteq Ancestors(w, n)
  BY DEF NeedsResolve, Ancestors

LEMMA NodesBehind == ASSUME NEW w, NEW n PROVE Ancestors(w, n) \subseteq Ids(w)
  BY DEF Ancestors

(* The set of ancestors is itself closed under needs.                      *)
LEMMA BehindIsClosed ==
  ASSUME NEW w, NeedsResolve(w), NEW n, NEW m \in Ancestors(w, n)
  PROVE  w.nodes[m].needs \subseteq Ancestors(w, n)
<1> SUFFICES ASSUME NEW p \in w.nodes[m].needs PROVE p \in Ancestors(w, n)
  OBVIOUS
<1>1. m \in Ids(w) /\ p \in Ids(w)
  BY DEF Ancestors, NeedsResolve
<1>2. ASSUME NEW S \in SUBSET Ids(w), w.nodes[n].needs \subseteq S,
             \A x \in S : w.nodes[x].needs \subseteq S
      PROVE  p \in S
  BY <1>2 DEF Ancestors
<1> QED BY <1>1, <1>2 DEF Ancestors

(* What is behind what is behind n is behind n.                            *)
LEMMA BehindBehind ==
  ASSUME NEW w, NeedsResolve(w), NEW n, NEW m \in Ancestors(w, n)
  PROVE  Ancestors(w, m) \subseteq Ancestors(w, n)
<1>1. Ancestors(w, n) \in SUBSET Ids(w)
  BY NodesBehind
<1>2. /\ w.nodes[m].needs \subseteq Ancestors(w, n)
      /\ \A x \in Ancestors(w, n) : w.nodes[x].needs \subseteq Ancestors(w, n)
  BY BehindIsClosed
<1> QED
  <2>1. PICK S \in SUBSET Ids(w) : S = Ancestors(w, n)
    BY <1>1
  <2>2. \A y \in Ancestors(w, m) : y \in S
    <3>1. w.nodes[m].needs \subseteq S /\ \A x \in S : w.nodes[x].needs \subseteq S
      BY <1>2, <2>1
    <3> QED BY <3>1 DEF Ancestors
  <2> QED BY <2>1, <2>2

(* What is behind n is needed by n, or is behind what n needs.             *)
LEMMA BehindFirst ==
  ASSUME NEW w, NeedsResolve(w), NEW n \in Ids(w), NEW m \in Ancestors(w, n)
  PROVE  m \in w.nodes[n].needs \/ \E d \in w.nodes[n].needs : m \in Ancestors(w, d)
<1>1. PICK S \in SUBSET Ids(w) :
        S = {x \in Ids(w) : \/ x \in w.nodes[n].needs
                            \/ \E d \in w.nodes[n].needs : x \in Ancestors(w, d)}
  OBVIOUS
<1>2. w.nodes[n].needs \subseteq S
  BY <1>1 DEF NeedsResolve
<1>3. ASSUME NEW x \in S, NEW p \in w.nodes[x].needs PROVE p \in S
  <2>1. p \in Ids(w)
    BY <1>1 DEF NeedsResolve
  <2>2. CASE x \in w.nodes[n].needs
    <3>1. p \in Ancestors(w, x)
      BY <1>1, NeedsAreBehind
    <3> QED BY <1>1, <2>1, <2>2, <3>1
  <2>3. CASE \E d \in w.nodes[n].needs : x \in Ancestors(w, d)
    <3>1. PICK d \in w.nodes[n].needs : x \in Ancestors(w, d)
      BY <2>3
    <3>2. p \in Ancestors(w, d)
      BY <3>1, BehindIsClosed
    <3> QED BY <1>1, <2>1, <3>1, <3>2
  <2> QED BY <1>1, <2>2, <2>3
<1>4. m \in S
  BY <1>2, <1>3 DEF Ancestors
<1> QED BY <1>1, <1>4

(* What is behind n is needed by n, or by what is behind n.                *)
LEMMA BehindLast ==
  ASSUME NEW w, NeedsResolve(w), NEW n \in Ids(w), NEW m \in Ancestors(w, n)
  PROVE  \E x \in {n} \cup Ancestors(w, n) : m \in w.nodes[x].needs
<1>1. PICK S \in SUBSET Ids(w) :
        S = {y \in Ids(w) : /\ y \in Ancestors(w, n)
                            /\ \E x \in {n} \cup Ancestors(w, n) : y \in w.nodes[x].needs}
  OBVIOUS
<1>2. w.nodes[n].needs \subseteq S
  BY <1>1, NeedsAreBehind DEF NeedsResolve
<1>3. ASSUME NEW x \in S, NEW p \in w.nodes[x].needs PROVE p \in S
  BY <1>1, BehindIsClosed, NodesBehind
<1>4. m \in S
  BY <1>2, <1>3 DEF Ancestors
<1> QED BY <1>1, <1>4

-----------------------------------------------------------------------------
(* What the validator settles.                                             *)

LEMMA AcceptedMeans ==
  ASSUME flow \in Flows, Accepted(flow)
  PROVE  /\ NeedsResolve(flow)
         /\ \A n \in Node : /\ Decl(n).needs \subseteq Node
                            /\ Feeds(n) \subseteq Ancestors(flow, n)
                            /\ Decl(n).route # None =>
                                 Decl(n).route[1] \in Ancestors(flow, n)
         /\ \A c \in Kept(flow) : LoopRegion(flow, c) \subseteq Node
<1>1. NeedsResolve(flow) /\ \A n \in Node : NodeAccepted(flow, n)
  BY DEF Accepted, Node
<1>2. \A n \in Node : /\ Decl(n).needs \subseteq Node
                      /\ Feeds(n) \subseteq Ancestors(flow, n)
                      /\ Decl(n).route # None =>
                           Decl(n).route[1] \in Ancestors(flow, n)
  BY <1>1 DEF NodeAccepted, InputsOrdered, RouteUpstream, NeedsResolve, Feeds, Decl, Node
<1>3. ASSUME NEW c \in Kept(flow) PROVE LoopRegion(flow, c) \subseteq Node
  <2>1. flow.nodes[c].loop.target \in Node /\ c \in Node
    BY <1>1 DEF NodeAccepted, LoopReplayable, Kept, Node
  <2> QED BY <2>1 DEF LoopRegion, Node
<1> QED BY <1>1, <1>2, <1>3

(* What a repair reopens feeds only its integration.                       *)
LEMMA RepairFeedsOne ==
  ASSUME Accepted(flow), NEW n \in Node, NEW i \in Routes(flow, n),
         NEW t \in TargetNodes(Decl(n).repair[i])
  PROVE  t \in Node /\ \A x \in Node : t \in Decl(x).needs => x = n
<1>1. RepairSound(flow, n) /\ Decl(n).repair # <<>>
  BY DEF Accepted, NodeAccepted, Node, Routes, Decl
<1>2. PICK target \in Decl(n).repair[i].targets : t = target.node
  BY DEF TargetNodes
<1>3. RepairTarget(flow, n, target)
  BY <1>1, <1>2 DEF RepairSound, Decl
<1> QED BY <1>2, <1>3 DEF RepairTarget, Dependents, Decl, Node

LEMMA UndisturbedBehind ==
  ASSUME NeedsResolve(flow), NEW n \in Node, Undisturbed(n), NEW m \in Ancestors(flow, n)
  PROVE  Undisturbed(m)
<1>1. {m} \cup Ancestors(flow, m) \subseteq {n} \cup Ancestors(flow, n)
  BY BehindBehind
<1> QED BY <1>1 DEF Undisturbed

-----------------------------------------------------------------------------
(* Simple facts that the rest of the induction needs.                      *)

(* An attempt has ended, and whether there is another is yet to be decided. *)
Open(n) == pc = "failed" /\ n \in todo

(* The rows of the tables are those of the declared edges.                 *)
EdgesShape ==
  /\ DOMAIN active \subseteq Node
  /\ \A n \in DOMAIN routes : Decl(n).route # None
  /\ \A n \in DOMAIN repairs : DOMAIN repairs[n] \subseteq Routes(flow, n)

(* What a pass has yet to visit is still what selected it.                 *)
PassCurrent ==
  /\ pc = "repair" => todo \subseteq DOMAIN repairs
  /\ pc \in {"routes", "reroute"} =>
       \A n \in todo : /\ n \in DOMAIN routes
                       /\ row[Decl(n).route[1]].status = "succeeded"
  /\ pc = "join" => \A n \in Node : rows[n] = row[n].status
  /\ pc \in {"settle", "budget"} => \A n \in todo : row[n].status = "pending"
  /\ pc = "check" => todo \subseteq Owing
  /\ pc = "failed" => \A n \in todo : row[n].status = "failed"

(* A controller that is accepted after its verdict has a verdict to give.  *)
VerdictsGiven ==
  \A n \in Kept(flow) : row[n].status = "succeeded" /\ Decided(n) => Evaluable(n)

OptionalIsNot ==
  \A n \in Node : row[n].status = "optional_failed" =>
    ~Decl(n).required /\ n \notin DOMAIN repairs

(* Why a run may be found to have succeeded.                               *)
SuccessEarned ==
  /\ run = "succeeded" => ~RequiredBad /\ Owing = {}
  /\ pc = "check" => ~RequiredBad \/ Owing # {}

JInv == EdgesShape /\ PassCurrent /\ VerdictsGiven /\ OptionalIsNot /\ SuccessEarned

(* What the settling of one node changes.                                  *)
LEMMA SetStatusIs ==
  ASSUME ControlShape, NEW n \in Node, NEW s, SetStatus(n, s)
  PROVE  /\ row'[n].status = s /\ row'[n].count = row[n].count
         /\ row'[n].failure = row[n].failure
         /\ \A m \in Node \ {n} : row'[m] = row[m]
<1>1. PICK r : r = [row[n] EXCEPT !.status = s]
  OBVIOUS
<1>2. row' = [row EXCEPT ![n] = r]
  BY <1>1 DEF SetStatus
<1>3. row'[n] = r /\ \A m \in Node \ {n} : row'[m] = row[m]
  BY <1>2 DEF ControlShape
<1>4. DOMAIN row[n] = Fields
  BY RowHasFields
<1>5. r.status = s /\ r.count = row[n].count /\ r.failure = row[n].failure
  BY <1>1, <1>4 DEF Fields
<1> QED BY <1>3, <1>5

LEMMA JInit == Init => JInv
<1> SUFFICES ASSUME Init PROVE JInv
  OBVIOUS
<1>1. \A n \in Node : row[n].status = "pending"
  BY DEF Init
<1>2. EdgesShape
  BY DEF Init, EdgesShape
<1>3. Kept(flow) \subseteq Node
  BY DEF Kept, Node
<1> QED BY <1>1, <1>2, <1>3
        DEF Init, JInv, PassCurrent, VerdictsGiven, OptionalIsNot, SuccessEarned

(* The statuses decide these.                                              *)
LEMMA RestSame ==
  ASSUME JInv, UNCHANGED <<flow, row, art, loops, repairs>>,
         run' = "succeeded" => ~RequiredBad /\ Owing = {},
         pc' = "check" => ~RequiredBad \/ Owing # {}
  PROVE  VerdictsGiven' /\ OptionalIsNot' /\ SuccessEarned'
<1>1. Node' = Node /\ Kept(flow') = Kept(flow) /\ Producers(flow') = Producers(flow)
  BY DEF Node
<1>2. VerdictsGiven' /\ OptionalIsNot'
  BY <1>1 DEF JInv, VerdictsGiven, OptionalIsNot, Decided, Evaluable, Decl
<1> QED BY <1>1, <1>2 DEF SuccessEarned, RequiredBad, Owing, Decl

(* Beginning a pass.                                                       *)
LEMMA JBegin ==
  ASSUME CInv, JInv, NEW pass \in Passes \cup {"pop", "reduce"}, Begin(pass),
         UNCHANGED <<store, flow>>, DOMAIN active' \subseteq Node,
         pass = "settle" => pc = "join"
  PROVE  JInv'
<1>1. UNCHANGED <<run, row, art, loops, routes, repairs, joins>> /\ Node' = Node
  BY DEF store, Node
<1>2. pc' = pass /\ pass # "check"
  BY DEF Begin, Passes
<1>3. VerdictsGiven' /\ OptionalIsNot' /\ SuccessEarned'
  BY <1>1, <1>2, RestSame DEF JInv, SuccessEarned
<1>4. EdgesShape'
  BY <1>1 DEF JInv, EdgesShape, Decl
<1>5. PassCurrent'
  <2>1. pass \in {"repair", "routes", "reroute", "join", "settle"}
        \/ pass \notin {"repair", "routes", "reroute", "join", "settle", "budget", "check", "failed"}
    BY <1>2 DEF Passes
  <2>2. CASE pass = "repair"
    BY <1>1, <1>2, <2>2 DEF Begin, Visits, ToRepair, PassCurrent
  <2>3. CASE pass \in {"routes", "reroute"}
    <3>1. todo' = ToRoute(Fresh)
      BY <2>3 DEF Begin, Visits
    <3>2. \A n \in todo' : Decl(n).route[1] \in Node
      <4>1. \A n \in DOMAIN routes : n \in Node /\ Decl(n).route # None
        BY DEF CInv, ControlShape, JInv, EdgesShape
      <4> QED BY <3>1, <4>1, AcceptedMeans, NodesBehind
              DEF CInv, ControlShape, ToRoute, Node
    <3>3. \A n \in todo' : n \in DOMAIN routes /\ row[Decl(n).route[1]].status = "succeeded"
      BY <3>1, <3>2 DEF ToRoute, Fresh
    <3> QED BY <1>1, <1>2, <2>3, <3>3 DEF PassCurrent, Decl
  <2>4. CASE pass = "join"
    BY <1>1, <1>2, <2>4 DEF Begin, Fresh, PassCurrent
  <2>5. CASE pass = "settle"
    <3>1. todo' = ToBlock(rows) \cup ToSkip(rows)
      BY <2>5 DEF Begin, Visits
    <3>2. \A n \in todo' : n \in Node /\ rows[n] = "pending"
      BY <3>1 DEF ToBlock, ToSkip
    <3> QED BY <1>1, <1>2, <2>5, <3>2 DEF JInv, PassCurrent
  <2>6. CASE pass \notin {"repair", "routes", "reroute", "join", "settle", "budget", "check", "failed"}
    BY <1>2, <2>6 DEF PassCurrent
  <2> QED BY <2>1, <2>2, <2>3, <2>4, <2>5, <2>6
<1> QED BY <1>3, <1>4, <1>5 DEF JInv

(* Steps that leave the rows alone and begin no pass.                      *)
LEMMA JTurn ==
  ASSUME CInv, JInv, UNCHANGED <<flow, row, art, loops, routes, repairs, joins>>,
         DOMAIN active' \subseteq Node,
         run' = "succeeded" => ~RequiredBad /\ Owing = {},
         \/ pc' \in {"down", "recover", "recovered", "expire"}
         \/ pc' = "check" /\ todo' = Owing /\ ~RequiredBad
         \/ pc' = "budget" /\ todo' = Pending
         \/ UNCHANGED <<pc, todo>> /\ (pc = "join" => rows' = rows)
         \/ pc' = "join" /\ pc = "join" /\ rows' = rows
  PROVE  JInv'
<1>1. Node' = Node /\ Owing' = Owing
  BY DEF Owing, Node
<1>2. pc' = "check" => ~RequiredBad \/ Owing # {}
  BY DEF JInv, SuccessEarned
<1>3. VerdictsGiven' /\ OptionalIsNot' /\ SuccessEarned'
  BY <1>2, RestSame
<1>4. EdgesShape'
  BY <1>1 DEF JInv, EdgesShape, Decl
<1>5. PassCurrent'
  BY <1>1 DEF JInv, PassCurrent, Decl, Pending
<1> QED BY <1>3, <1>4, <1>5 DEF JInv

(* A visited node is decided against, or stays pending.                    *)
LEMMA JSettle ==
  ASSUME CInv, JInv, NEW n \in Node, NEW s \in {"pending", "failed", "blocked", "skipped"},
         SetStatus(n, s), todo' = todo \ {n}, n \in todo, run # "succeeded",
         UNCHANGED <<flow, run, art, loops, repairs, joins, active, pc>>,
         DOMAIN routes' = DOMAIN routes,
         pc \notin {"join", "repair", "failed"},
         pc \in {"routes", "reroute"} => row[n].status = "pending",
         pc = "check" => s = "failed"
  PROVE  JInv'
<1>1. Node' = Node /\ Kept(flow) \subseteq Node /\ Producers(flow') = Producers(flow)
  BY DEF Node, Kept
<1>2. /\ row'[n].status = s /\ row'[n].count = row[n].count
      /\ \A m \in Node \ {n} : row'[m] = row[m]
  BY SetStatusIs DEF CInv
<1>3. EdgesShape'
  BY <1>1 DEF JInv, EdgesShape, Decl
<1>4. VerdictsGiven' /\ OptionalIsNot'
  BY <1>1, <1>2 DEF JInv, VerdictsGiven, OptionalIsNot, Decided, Evaluable, Decl
<1>5. SuccessEarned'
  <2>1. ASSUME pc = "check" PROVE n \in Owing'
    <3>1. n \in Producers(flow)
      BY <2>1 DEF JInv, PassCurrent, Owing
    <3> QED BY <1>1, <1>2, <2>1, <3>1 DEF Owing
  <2> QED BY <2>1 DEF SuccessEarned
<1>6. PassCurrent'
  <2>1. CASE pc \in {"routes", "reroute"}
    <3>1. ASSUME NEW m \in todo'
          PROVE  m \in DOMAIN routes' /\ row'[Decl(m).route[1]].status = "succeeded"
      <4>1. m \in DOMAIN routes /\ row[Decl(m).route[1]].status = "succeeded"
        BY <2>1 DEF JInv, PassCurrent
      <4>2. m \in Node /\ Decl(m).route # None
        BY <4>1 DEF CInv, ControlShape, JInv, EdgesShape
      <4>3. Decl(m).route[1] \in Node
        BY <4>2, AcceptedMeans, NodesBehind DEF CInv, ControlShape, Node
      <4>4. Decl(m).route[1] # n
        BY <2>1, <4>1
      <4> QED BY <1>2, <4>1, <4>3, <4>4
    <3> QED BY <2>1, <3>1 DEF PassCurrent, Decl
  <2>2. CASE pc = "check"
    <3>1. \A m \in todo' : m \in Owing /\ m # n /\ m \in Node
      BY <2>2 DEF JInv, PassCurrent, CInv, ControlShape
    <3> QED BY <1>1, <1>2, <2>2, <3>1 DEF PassCurrent, Owing
  <2>3. CASE pc \in {"settle", "budget"}
    <3>1. \A m \in todo' : m \in Node \ {n} /\ row[m].status = "pending"
      BY <2>3 DEF JInv, PassCurrent, CInv, ControlShape
    <3> QED BY <1>2, <2>3, <3>1 DEF PassCurrent
  <2> QED BY <2>1, <2>2, <2>3 DEF PassCurrent
<1> QED BY <1>3, <1>4, <1>5, <1>6 DEF JInv

(* What a repair changes.                                                  *)
LEMMA RouteRepairIs ==
  ASSUME ControlShape, NEW n \in Node, NEW i, RouteRepair(n, i)
  PROVE  LET reopened == {n} \cup TargetNodes(Decl(n).repair[i])
         IN  /\ \A m \in Node \ reopened : row'[m] = row[m] /\ art'[m] = art[m]
             /\ \A m \in Node \cap reopened :
                  row'[m].status = "pending" /\ art'[m] = Unmade
             /\ \A m \in Node : row'[m].count = row[m].count
             /\ run' = "running" /\ UNCHANGED <<loops, routes, joins>>
             /\ DOMAIN repairs' = DOMAIN repairs
             /\ \A m \in DOMAIN repairs : DOMAIN repairs'[m] = DOMAIN repairs[m]
<1>1. PICK reopened : reopened = {n} \cup TargetNodes(Decl(n).repair[i])
  OBVIOUS
<1>2. /\ row' = [m \in Node |-> IF m \in reopened
                                THEN [row[m] EXCEPT !.status = "pending"]
                                ELSE row[m]]
      /\ art' = [m \in Node |-> IF m \in reopened THEN Unmade ELSE art[m]]
      /\ run' = "running" /\ UNCHANGED <<loops, routes, joins>>
  BY <1>1 DEF RouteRepair
<1>3. \A m \in Node : DOMAIN row[m] = Fields
  BY RowHasFields
<1>4. /\ \A m \in Node \ reopened : row'[m] = row[m] /\ art'[m] = art[m]
      /\ \A m \in Node \cap reopened :
           row'[m].status = "pending" /\ art'[m] = Unmade
      /\ \A m \in Node : row'[m].count = row[m].count
  BY <1>2, <1>3 DEF Fields
<1>5. PICK x : repairs' = [repairs EXCEPT ![n][i] = x]
  BY DEF RouteRepair
<1>6. /\ DOMAIN repairs' = DOMAIN repairs
      /\ \A m \in DOMAIN repairs : DOMAIN repairs'[m] = DOMAIN repairs[m]
  BY <1>5
<1> QED BY <1>1, <1>2, <1>4, <1>6

LEMMA JRouteRepair ==
  ASSUME CInv, JInv, NEW n \in Node, NEW i, RouteRepair(n, i),
         UNCHANGED <<flow, active>>,
         \/ pc = "repair" /\ pc' = "repair" /\ todo' = todo \ {n}
         \/ pc = "failed" /\ pc' = "expire"
  PROVE  JInv'
<1>1. PICK reopened : reopened = {n} \cup TargetNodes(Decl(n).repair[i])
  OBVIOUS
<1>2. /\ \A m \in Node \ reopened : row'[m] = row[m] /\ art'[m] = art[m]
      /\ \A m \in Node \cap reopened : row'[m].status = "pending" /\ art'[m] = Unmade
      /\ run' = "running" /\ UNCHANGED <<loops, routes, joins>>
      /\ DOMAIN repairs' = DOMAIN repairs
      /\ \A m \in DOMAIN repairs : DOMAIN repairs'[m] = DOMAIN repairs[m]
  BY <1>1, RouteRepairIs DEF CInv
<1>3. Node' = Node /\ Kept(flow) \subseteq Node
  BY DEF Node, Kept
<1>4. EdgesShape'
  BY <1>2, <1>3 DEF JInv, EdgesShape, Decl
<1>5. VerdictsGiven' /\ OptionalIsNot'
  BY <1>2, <1>3 DEF JInv, VerdictsGiven, OptionalIsNot, Decided, Evaluable, Decl
<1>6. SuccessEarned' /\ PassCurrent'
  BY <1>2 DEF JInv, SuccessEarned, PassCurrent
<1> QED BY <1>4, <1>5, <1>6 DEF JInv

(* What taking a verdict changes: a controller that is out of iterations   *)
(* fails, and a region that runs again is reopened.                        *)
LEMMA CheckpointIs ==
  ASSUME ControlShape, NEW n \in Kept(flow), Checkpoint(n)
  PROVE  /\ loops'[n].attempt = row[n].count
         /\ \A m \in Kept(flow) \ {n} : loops'[m] = loops[m]
  BY DEF Checkpoint, ControlShape

LEMMA ExhaustedIs ==
  ASSUME ControlShape, NEW n \in Node, row[n].status = "succeeded", Exhausted(n)
  PROVE  /\ \A m \in Node \ {n} : row'[m] = row[m] /\ art'[m] = art[m]
         /\ row'[n].status = "failed" /\ row'[n].count = row[n].count
         /\ art'[n] = Unmade
         /\ UNCHANGED <<run, routes, repairs, joins>>
<1>1. /\ row' = [row EXCEPT ![n].status = "failed"] /\ art' = [art EXCEPT ![n] = Unmade]
      /\ UNCHANGED <<run, routes, repairs, joins>>
  BY DEF Exhausted
<1>2. /\ \A m \in Node \ {n} : row'[m] = row[m]
      /\ row'[n].status = "failed" /\ row'[n].count = row[n].count
  BY <1>1, SetStatusIs DEF SetStatus
<1>3. art'[n] = Unmade /\ \A m \in Node \ {n} : art'[m] = art[m]
  BY <1>1 DEF ControlShape
<1> QED BY <1>1, <1>2, <1>3

LEMMA ContinuedIs ==
  ASSUME ControlShape, NEW n \in Kept(flow), Continued(n)
  PROVE  LET region == LoopRegion(flow, n)
         IN  /\ \A m \in Node \ region : row'[m] = row[m] /\ art'[m] = art[m]
             /\ \A m \in Node \cap region :
                  row'[m].status = "pending" /\ art'[m] = Unmade
             /\ \A m \in Node : row'[m].count = row[m].count
             /\ DOMAIN routes' = DOMAIN routes
             /\ \A m \in DOMAIN routes : IF m \in region THEN routes'[m] = None
                                         ELSE routes'[m] = routes[m]
             /\ UNCHANGED <<run, repairs, joins>>
<1>1. PICK region : region = LoopRegion(flow, n)
  OBVIOUS
<1>2. /\ row' = [m \in Node |-> IF m \in region
                                THEN [row[m] EXCEPT !.status = "pending"]
                                ELSE row[m]]
      /\ art' = [m \in Node |-> IF m \in region THEN Unmade ELSE art[m]]
      /\ routes' = [m \in DOMAIN routes |-> IF m \in region THEN None ELSE routes[m]]
      /\ UNCHANGED <<run, repairs, joins>>
  BY <1>1 DEF Continued
<1>3. \A m \in Node : DOMAIN row[m] = Fields
  BY RowHasFields
<1>4. /\ \A m \in Node \ region : row'[m] = row[m] /\ art'[m] = art[m]
      /\ \A m \in Node \cap region :
           row'[m].status = "pending" /\ art'[m] = Unmade
      /\ \A m \in Node : row'[m].count = row[m].count
  BY <1>2, <1>3 DEF Fields
<1> QED BY <1>1, <1>2, <1>4

(* What a loop pass does with the controller it visits.                    *)
LEMMA LoopIs ==
  ASSUME CInv, JInv, NEW n \in Node, Loop(n)
  PROVE  /\ pc \in {"loops", "reloop"} /\ n \in todo /\ todo' = todo \ {n}
         /\ n \in Kept(flow) /\ UNCHANGED Local
         /\ \/ UNCHANGED store
            \/ /\ run # "succeeded" /\ FailClosed(n)
               /\ row[n].status = "pending" \/ Due(n)
            \/ /\ run # "succeeded" /\ Due(n) /\ Evaluable(n) /\ Checkpoint(n)
               /\ \/ UNCHANGED <<run, row, art, routes, repairs, joins>>
                  \/ Exhausted(n)
                  \/ Continued(n)
<1>1. /\ pc \in {"loops", "reloop"} /\ todo # {} /\ n = Least(todo)
      /\ todo' = todo \ {n} /\ UNCHANGED Local
  BY DEF Loop, Visit
<1>2. n \in todo
  BY <1>1, VisitIsDue DEF CInv
<1>3. /\ n \in Kept(flow)
      /\ \/ row[n].status = "succeeded"
         \/ row[n].status = "pending" /\ art[n].attempt = 0
  BY <1>1, <1>2 DEF CInv, PassOrderly
<1>4. row[n].status = "pending" \/ Due(n) => run # "succeeded"
  <2>1. row[n].status = "pending" => ~Settled
    BY DEF Settled, Terminal
  <2> QED BY <1>3, <2>1 DEF CInv, VerdictsDue, SuccessSettled
<1>5. CASE ~Evaluable(n)
  <2>1. FailClosed(n)
    BY <1>5 DEF Loop
  <2>2. row[n].status = "pending" \/ Due(n)
    BY <1>3, <1>5 DEF JInv, VerdictsGiven, Due
  <2> QED BY <1>1, <1>2, <1>3, <1>4, <2>1, <2>2
<1>6. CASE Evaluable(n) /\ Decided(n)
  BY <1>1, <1>2, <1>3, <1>6 DEF Loop
<1>7. CASE Evaluable(n) /\ ~Decided(n)
  <2>1. Due(n)
    BY <1>3, <1>7 DEF Due, Evaluable
  <2>2. \/ FailClosed(n)
        \/ /\ Checkpoint(n)
           /\ \/ UNCHANGED <<run, row, art, routes, repairs, joins>>
              \/ Exhausted(n)
              \/ Continued(n)
    BY <1>7 DEF Loop
  <2> QED BY <1>1, <1>2, <1>3, <1>4, <1>7, <2>1, <2>2
<1> QED BY <1>5, <1>6, <1>7

LEMMA JLoop == ASSUME CInv, JInv, NEW n \in Node, Loop(n) PROVE JInv'
<1>1. /\ pc \in {"loops", "reloop"} /\ n \in todo /\ todo' = todo \ {n}
      /\ n \in Kept(flow) /\ UNCHANGED Local
  BY LoopIs
<1>2. Node' = Node /\ Kept(flow) \subseteq Node /\ UNCHANGED <<flow, pc, active>>
  BY <1>1 DEF Node, Kept, Local
<1>3. CASE UNCHANGED store
  <2>1. PassCurrent'
    BY <1>1, <1>2 DEF PassCurrent
  <2>2. EdgesShape'
    BY <1>2, <1>3 DEF JInv, EdgesShape, Decl, store
  <2>3. VerdictsGiven' /\ OptionalIsNot' /\ SuccessEarned'
    BY <1>1, <1>2, <1>3, RestSame DEF store, JInv, SuccessEarned
  <2> QED BY <2>1, <2>2, <2>3 DEF JInv
<1>4. CASE run # "succeeded" /\ FailClosed(n)
  BY <1>1, <1>4, JSettle DEF FailClosed, Local
<1>5. CASE /\ run # "succeeded" /\ Due(n) /\ Evaluable(n) /\ Checkpoint(n)
           /\ \/ UNCHANGED <<run, row, art, routes, repairs, joins>>
              \/ Exhausted(n)
              \/ Continued(n)
  <2>1. PICK C \in SUBSET Node :
          /\ n \in C \/ (row'[n] = row[n] /\ art'[n] = art[n])
          /\ \A m \in Node \ C : row'[m] = row[m] /\ art'[m] = art[m]
          /\ \A m \in C : row'[m].status \in {"pending", "failed"}
          /\ DOMAIN routes' = DOMAIN routes /\ UNCHANGED <<run, repairs, joins>>
    <3>1. CASE UNCHANGED <<run, row, art, routes, repairs, joins>>
      <4>1. PICK C \in SUBSET Node : C = {}
        OBVIOUS
      <4> QED BY <3>1, <4>1
    <3>2. CASE Exhausted(n)
      <4>1. /\ \A m \in Node \ {n} : row'[m] = row[m] /\ art'[m] = art[m]
            /\ row'[n].status = "failed"
            /\ UNCHANGED <<run, routes, repairs, joins>>
        BY <1>5, <3>2, ExhaustedIs DEF CInv, Due
      <4>2. PICK C \in SUBSET Node : C = {n}
        OBVIOUS
      <4> QED BY <4>1, <4>2
    <3>3. CASE Continued(n)
      <4>1. PICK region : region = LoopRegion(flow, n)
        OBVIOUS
      <4>2. /\ \A m \in Node \ region : row'[m] = row[m] /\ art'[m] = art[m]
            /\ \A m \in Node \cap region : row'[m].status = "pending"
            /\ DOMAIN routes' = DOMAIN routes
            /\ UNCHANGED <<run, repairs, joins>>
        BY <1>1, <3>3, <4>1, ContinuedIs DEF CInv
      <4>3. n \in region
        BY <4>1 DEF LoopRegion
      <4>4. PICK C \in SUBSET Node : C = Node \cap region
        OBVIOUS
      <4> QED BY <4>2, <4>3, <4>4
    <3> QED BY <1>5, <3>1, <3>2, <3>3
  <2>2. EdgesShape'
    BY <1>2, <2>1 DEF JInv, EdgesShape, Decl
  <2>3. VerdictsGiven'
    <3>1. \A m \in Kept(flow) \ {n} : loops'[m] = loops[m]
      BY <1>1, <1>5, CheckpointIs DEF CInv
    <3>2. \A m \in Kept(flow) : row'[m].status = "succeeded" =>
            row'[m] = row[m] /\ art'[m] = art[m]
      BY <1>2, <2>1
    <3> QED BY <1>2, <1>5, <3>1, <3>2
            DEF JInv, VerdictsGiven, Decided, Evaluable
  <2>4. OptionalIsNot'
    BY <1>2, <2>1 DEF JInv, OptionalIsNot, Decl
  <2>5. SuccessEarned' /\ PassCurrent'
    BY <1>1, <1>2, <1>5, <2>1 DEF SuccessEarned, PassCurrent
  <2> QED BY <2>2, <2>3, <2>4, <2>5 DEF JInv
<1> QED BY <1>3, <1>4, <1>5, LoopIs

(* What the end of an attempt changes.                                     *)
LEMMA SucceedIs ==
  ASSUME ControlShape, NEW n \in Node, Succeed(n)
  PROVE  /\ pc = "pop" /\ pc' = "expire" /\ row[n].status = "running"
         /\ n \in DOMAIN active /\ active[n] # Unread /\ Removed(n)
         /\ row'[n].status = "succeeded" /\ row'[n].count = row[n].count
         /\ art'[n].from = active[n].from /\ art'[n].attempt = row[n].count
         /\ \A m \in Node \ {n} : row'[m] = row[m] /\ art'[m] = art[m]
         /\ UNCHANGED <<flow, run, loops, routes, repairs, joins, rows, todo>>
<1>1. PICK r : r = [row[n] EXCEPT !.status = "succeeded", !.digest = None, !.repeats = 0]
  OBVIOUS
<1>2. row' = [row EXCEPT ![n] = r]
  BY <1>1 DEF Succeed
<1>3. DOMAIN row[n] = Fields
  BY RowHasFields
<1>4. r.status = "succeeded" /\ r.count = row[n].count
  BY <1>1, <1>3 DEF Fields
<1>5. row'[n] = r /\ \A m \in Node \ {n} : row'[m] = row[m]
  BY <1>2 DEF ControlShape
<1>6. PICK v : art' = [art EXCEPT ![n] = [attempt |-> row[n].count, value |-> v,
                                          from |-> active[n].from]]
  BY DEF Succeed
<1>7. /\ art'[n].from = active[n].from /\ art'[n].attempt = row[n].count
      /\ \A m \in Node \ {n} : art'[m] = art[m]
  BY <1>6 DEF ControlShape
<1> QED BY <1>4, <1>5, <1>7 DEF Succeed, Popped

LEMMA FinishIs ==
  ASSUME ControlShape, NEW n \in Node, NEW ail, FinishAttempt(n, ail)
  PROVE  /\ row[n].status = "running" /\ pc' = "failed" /\ todo' = {n}
         /\ row'[n].status = "failed" /\ row'[n].count = row[n].count
         /\ \A m \in Node \ {n} : row'[m] = row[m]
         /\ UNCHANGED <<flow, run, art, loops, routes, repairs, joins, rows>>
<1>1. PICK k : k = IF row[n].digest = ail.digest THEN row[n].repeats + 1 ELSE 0
  OBVIOUS
<1>2. PICK r : r = [row[n] EXCEPT !.status = "failed", !.failure = ail,
                                   !.digest = ail.digest, !.repeats = k]
  OBVIOUS
<1>3. row' = [row EXCEPT ![n] = r]
  BY <1>1, <1>2 DEF FinishAttempt
<1>4. DOMAIN row[n] = Fields
  BY RowHasFields
<1>5. r.status = "failed" /\ r.count = row[n].count
  BY <1>2, <1>4 DEF Fields
<1>6. row'[n] = r /\ \A m \in Node \ {n} : row'[m] = row[m]
  BY <1>3 DEF ControlShape
<1> QED BY <1>5, <1>6 DEF FinishAttempt

LEMMA StartIs ==
  ASSUME ControlShape, NEW n \in Node, Start(n)
  PROVE  /\ pc = "dispatch" /\ n \in todo /\ todo' \subseteq todo \ {n}
         /\ row'[n].status = "running"
         /\ \A m \in Node \ {n} : row'[m] = row[m]
         /\ active' = [m \in DOMAIN active \cup {n} |->
                         IF m = n THEN Unread ELSE active[m]]
         /\ UNCHANGED <<flow, run, art, loops, routes, repairs, joins, rows, pc>>
<1>1. PICK r : r = [row[n] EXCEPT !.status = "running", !.count = @ + 1,
                                   !.failure = Silent]
  OBVIOUS
<1>2. row' = [row EXCEPT ![n] = r]
  BY <1>1 DEF Start
<1>3. DOMAIN row[n] = Fields
  BY RowHasFields
<1>4. r.status = "running"
  BY <1>1, <1>3 DEF Fields
<1>5. row'[n] = r /\ \A m \in Node \ {n} : row'[m] = row[m]
  BY <1>2 DEF ControlShape
<1>6. n \in todo
  BY VisitIsDue DEF Start
<1> QED BY <1>4, <1>5, <1>6 DEF Start

LEMMA RecoverIs ==
  ASSUME ControlShape, Recover
  PROVE  /\ pc' = "recovered" /\ run' = "running"
         /\ \A m \in Node : /\ row'[m].count = row[m].count
                            /\ IF row[m].status = "running"
                               THEN row'[m].status = "pending" ELSE row'[m] = row[m]
         /\ UNCHANGED <<flow, art, loops, routes, repairs, joins, todo, active>>
<1>1. \A m \in Node : DOMAIN row[m] = Fields
  BY RowHasFields
<1>2. row' = [n \in Node |->
               IF row[n].status = "running"
               THEN [row[n] EXCEPT !.status = "pending"] ELSE row[n]]
  BY DEF Recover
<1>3. \A m \in Node : /\ row'[m].count = row[m].count
                      /\ IF row[m].status = "running"
                         THEN row'[m].status = "pending" ELSE row'[m] = row[m]
  BY <1>1, <1>2 DEF Fields
<1> QED BY <1>3 DEF Recover

(* The second transaction of a failed attempt.                             *)
LEMMA FinalizeIs ==
  ASSUME CInv, JInv, NEW n \in Node, Finalize(n)
  PROVE  /\ pc = "failed" /\ pc' = "expire" /\ todo = {n} /\ todo' = {}
         /\ row[n].status = "failed" /\ run # "succeeded"
         /\ UNCHANGED <<flow, active>>
         /\ \/ UNCHANGED store
            \/ n \in DOMAIN repairs /\ \E i \in DOMAIN repairs[n] : RouteRepair(n, i)
            \/ /\ n \notin DOMAIN repairs
               /\ \E s \in {"pending", "failed", "optional_failed"} :
                    /\ SetStatus(n, s)
                    /\ s = "optional_failed" => ~Decl(n).required
               /\ UNCHANGED <<run, art, loops, routes, repairs, joins>>
<1>1. /\ pc = "failed" /\ pc' = "expire" /\ todo = {n} /\ todo' = {}
      /\ UNCHANGED <<flow, active>>
  BY DEF Finalize
<1>2. row[n].status = "failed" /\ run # "succeeded"
  BY <1>1 DEF JInv, PassCurrent, CInv, SuccessSettled
<1>3. CASE n \in DOMAIN repairs
  BY <1>1, <1>2, <1>3 DEF Finalize, TryRepair
<1>4. CASE n \notin DOMAIN repairs
  BY <1>1, <1>2, <1>4 DEF Finalize
<1> QED BY <1>3, <1>4

(* Steps after which pc is not at a pass, or the pass goes on with others. *)
LEMMA JRowChange ==
  ASSUME CInv, JInv, UNCHANGED <<flow, loops, repairs, joins>>,
         DOMAIN routes' = DOMAIN routes, DOMAIN active' \subseteq Node,
         run' # "succeeded",
         \A m \in Node : row'[m].status = "succeeded" =>
           \/ row'[m] = row[m] /\ art'[m] = art[m]
           \/ row'[m].count = row[m].count /\ row[m].status = "running",
         \A m \in Node : row'[m].status = "optional_failed" =>
           row[m].status = "optional_failed" \/ (~Decl(m).required /\ m \notin DOMAIN repairs),
         pc' \in {"expire", "recovered", "dispatch"}
           \/ (pc' = "failed" /\ \A m \in todo' : row'[m].status = "failed")
  PROVE  JInv'
<1>1. Node' = Node /\ Kept(flow) \subseteq Node
  BY DEF Node, Kept
<1>2. EdgesShape'
  BY <1>1 DEF JInv, EdgesShape, Decl
<1>3. VerdictsGiven'
  <2>1. ASSUME NEW m \in Kept(flow), row'[m].status = "succeeded", (Decided(m))'
        PROVE  (Evaluable(m))'
    <3>1. m \in Node /\ loops[m].attempt = row'[m].count
      BY <1>1, <2>1 DEF Decided
    <3>2. row[m].status # "running" \/ row'[m].count # row[m].count
      <4>1. /\ row[m].status = "running" => loops[m].attempt < row[m].count
            /\ loops[m].attempt \in Nat /\ row[m].count \in Nat
        BY <3>1 DEF CInv, VerdictsLag, ControlShape
      <4> QED BY <3>1, <4>1
    <3>3. row'[m] = row[m] /\ art'[m] = art[m]
      BY <2>1, <3>1, <3>2
    <3> QED BY <2>1, <3>1, <3>3 DEF JInv, VerdictsGiven, Decided, Evaluable
  <2> QED BY <1>1, <2>1 DEF VerdictsGiven
<1>4. OptionalIsNot'
  BY <1>1 DEF JInv, OptionalIsNot, Decl
<1>5. SuccessEarned' /\ PassCurrent'
  BY DEF SuccessEarned, PassCurrent
<1> QED BY <1>2, <1>3, <1>4, <1>5 DEF JInv

LEMMA JAttempts ==
  ASSUME CInv, JInv, NEW n \in Node, Start(n) \/ Pop(n) \/ Timeout(n) PROVE JInv'
<1>1. row[n].status \in {"pending", "running"} => run # "succeeded"
  BY DEF CInv, SuccessSettled, Settled, Terminal
<1>2. CASE Start(n)
  <2>1. /\ pc = "dispatch" /\ n \in todo /\ row'[n].status = "running"
        /\ \A m \in Node \ {n} : row'[m] = row[m]
        /\ active' = [m \in DOMAIN active \cup {n} |->
                        IF m = n THEN Unread ELSE active[m]]
        /\ UNCHANGED <<flow, run, art, loops, routes, repairs, joins, rows, pc>>
    BY <1>2, StartIs DEF CInv
  <2>2. row[n].status = "pending"
    BY <2>1 DEF CInv, PassOrderly
  <2>3. DOMAIN active' \subseteq Node
    BY <2>1 DEF JInv, EdgesShape
  <2> QED BY <1>1, <2>1, <2>2, <2>3, JRowChange
<1>3. CASE Succeed(n)
  <2>1. /\ pc' = "expire" /\ row[n].status = "running" /\ Removed(n)
        /\ row'[n].status = "succeeded" /\ row'[n].count = row[n].count
        /\ \A m \in Node \ {n} : row'[m] = row[m] /\ art'[m] = art[m]
        /\ UNCHANGED <<flow, run, loops, routes, repairs, joins>>
    BY <1>3, SucceedIs DEF CInv
  <2>2. DOMAIN active' \subseteq Node
    BY <2>1 DEF JInv, EdgesShape, Removed
  <2> QED BY <1>1, <2>1, <2>2, JRowChange
<1>4. ASSUME NEW ail, FinishAttempt(n, ail), Removed(n) PROVE JInv'
  <2>1. /\ row[n].status = "running" /\ pc' = "failed" /\ todo' = {n}
        /\ row'[n].status = "failed" /\ \A m \in Node \ {n} : row'[m] = row[m]
        /\ UNCHANGED <<flow, run, art, loops, routes, repairs, joins>>
    BY <1>4, FinishIs DEF CInv
  <2>2. DOMAIN active' \subseteq Node
    BY <1>4 DEF JInv, EdgesShape, Removed
  <2> QED BY <1>1, <2>1, <2>2, JRowChange
<1>5. CASE Fail(n) \/ Timeout(n)
  BY <1>4, <1>5 DEF Fail, Timeout, Popped
<1>6. CASE Outlived(n)
  <2>1. /\ UNCHANGED <<flow, run, row, art, loops, routes, repairs, joins>>
        /\ pc' = "expire" /\ Removed(n)
    BY <1>6 DEF Outlived, Popped, store
  <2>2. DOMAIN active' \subseteq Node
    BY <2>1 DEF JInv, EdgesShape, Removed
  <2> QED BY <2>1, <2>2, JTurn DEF JInv, SuccessEarned
<1> QED BY <1>2, <1>3, <1>5, <1>6 DEF Pop

LEMMA JFinalize == ASSUME CInv, JInv, NEW n \in Node, Finalize(n) PROVE JInv'
<1>1. /\ pc = "failed" /\ pc' = "expire" /\ todo = {n} /\ run # "succeeded"
      /\ row[n].status = "failed" /\ UNCHANGED <<flow, active>>
  BY FinalizeIs
<1>2. CASE UNCHANGED store
  BY <1>1, <1>2, JTurn DEF JInv, EdgesShape, store
<1>3. CASE \E i \in DOMAIN repairs[n] : RouteRepair(n, i)
  BY <1>1, <1>3, JRouteRepair
<1>4. ASSUME n \notin DOMAIN repairs, NEW s \in {"pending", "failed", "optional_failed"},
             SetStatus(n, s), s = "optional_failed" => ~Decl(n).required,
             UNCHANGED <<run, art, loops, routes, repairs, joins>>
      PROVE  JInv'
  <2>1. row'[n].status = s /\ \A m \in Node \ {n} : row'[m] = row[m]
    BY <1>4, SetStatusIs DEF CInv
  <2>2. DOMAIN active' \subseteq Node
    BY <1>1 DEF JInv, EdgesShape
  <2> QED BY <1>1, <1>4, <2>1, <2>2, JRowChange
<1> QED BY <1>2, <1>3, <1>4, FinalizeIs

LEMMA JRecover == ASSUME CInv, JInv, Recover PROVE JInv'
<1>1. /\ pc' = "recovered" /\ run' = "running"
      /\ \A m \in Node : IF row[m].status = "running"
                         THEN row'[m].status = "pending" ELSE row'[m] = row[m]
      /\ UNCHANGED <<flow, art, loops, routes, repairs, joins, active>>
  BY RecoverIs DEF CInv
<1>2. DOMAIN active' \subseteq Node
  BY <1>1 DEF JInv, EdgesShape
<1> QED BY <1>1, <1>2, JRowChange

(* What a settling visit does, whatever the pass.                          *)
LEMMA SettlesAre ==
  ASSUME CInv, JInv, NEW n \in Node,
         Block(n) \/ Skip(n) \/ Refuse(n) \/ Invalidate(n) \/ GiveUp(n)
  PROVE  /\ n \in todo /\ todo' = todo \ {n} /\ run # "succeeded"
         /\ UNCHANGED <<flow, run, art, loops, routes, repairs, joins, active, pc, rows>>
         /\ \E s \in {"failed", "blocked", "skipped"} :
              SetStatus(n, s) /\ (pc = "check" => s = "failed")
         /\ \/ pc \in {"settle", "dispatch", "budget"} /\ row[n].status = "pending"
            \/ pc = "check" /\ n \in Owing
<1>1. /\ todo # {} /\ n = Least(todo) /\ todo' = todo \ {n}
      /\ UNCHANGED <<flow, run, art, loops, routes, repairs, joins, active, pc, rows>>
      /\ pc \in {"settle", "dispatch", "check", "budget"}
  BY DEF Block, Skip, Refuse, Invalidate, GiveUp, Visit, Local
<1>2. n \in todo
  BY <1>1, VisitIsDue DEF CInv
<1>3. PICK s \in {"failed", "blocked", "skipped"} :
        SetStatus(n, s) /\ (pc = "check" => s = "failed")
  BY DEF Block, Skip, Refuse, Invalidate, GiveUp
<1>4. \/ pc \in {"settle", "dispatch", "budget"} /\ row[n].status = "pending"
      \/ pc = "check" /\ n \in Owing
  BY <1>1, <1>2 DEF JInv, PassCurrent, CInv, PassOrderly
<1>5. run # "succeeded"
  BY <1>4 DEF CInv, SuccessSettled, Settled, Terminal, JInv, SuccessEarned
<1> QED BY <1>1, <1>2, <1>3, <1>4, <1>5

LEMMA JSettles ==
  ASSUME CInv, JInv, NEW n \in Node,
         Block(n) \/ Skip(n) \/ Refuse(n) \/ Invalidate(n) \/ GiveUp(n)
  PROVE  JInv'
<1>1. PICK s \in {"failed", "blocked", "skipped"} :
        SetStatus(n, s) /\ (pc = "check" => s = "failed")
  BY SettlesAre
<1> QED BY <1>1, SettlesAre, JSettle

(* What the route pass does with the node it visits.                       *)
Decision(p) == [digest |-> art[p].value, matched |-> Matches(p)]

LEMMA RouteIs ==
  ASSUME CInv, JInv, NEW n \in Node, Route(n), NEW p, p = Decl(n).route[1]
  PROVE  /\ pc \in {"routes", "reroute"} /\ n \in todo /\ todo' = todo \ {n}
         /\ UNCHANGED Local /\ run # "succeeded"
         /\ n \in DOMAIN routes /\ row[n].status = "pending"
         /\ row[p].status = "succeeded"
         /\ \/ UNCHANGED store
            \/ FailClosed(n)
            \/ /\ routes[n] = None /\ routes' = [routes EXCEPT ![n] = Decision(p)]
               /\ SetStatus(n, IF Matches(p) THEN "pending" ELSE "skipped")
               /\ UNCHANGED <<run, art, loops, repairs, joins>>
<1>1. /\ pc \in {"routes", "reroute"} /\ todo # {} /\ n = Least(todo)
      /\ todo' = todo \ {n} /\ UNCHANGED Local
  BY DEF Route, Visit
<1>2. n \in todo
  BY <1>1, VisitIsDue DEF CInv
<1>3. row[n].status = "pending" /\ n \in DOMAIN routes /\ row[p].status = "succeeded"
  BY <1>1, <1>2 DEF CInv, PassOrderly, JInv, PassCurrent
<1>4. run # "succeeded"
  BY <1>3 DEF CInv, SuccessSettled, Settled, Terminal
<1>5. \/ UNCHANGED store
      \/ FailClosed(n)
      \/ /\ routes[n] = None /\ routes' = [routes EXCEPT ![n] = Decision(p)]
         /\ SetStatus(n, IF Matches(p) THEN "pending" ELSE "skipped")
         /\ UNCHANGED <<run, art, loops, repairs, joins>>
  BY DEF Route, Decision
<1> QED BY <1>1, <1>2, <1>3, <1>4, <1>5

LEMMA JRoute == ASSUME CInv, JInv, NEW n \in Node, Route(n) PROVE JInv'
<1>1. PICK p : p = Decl(n).route[1]
  OBVIOUS
<1>2. /\ pc \in {"routes", "reroute"} /\ n \in todo /\ todo' = todo \ {n}
      /\ UNCHANGED Local /\ run # "succeeded" /\ row[n].status = "pending"
  BY <1>1, RouteIs
<1>3. CASE UNCHANGED store
  <2>1. PassCurrent'
    BY <1>2, <1>3 DEF JInv, PassCurrent, Local, store, Decl
  <2>2. EdgesShape'
    BY <1>2, <1>3 DEF JInv, EdgesShape, Decl, Local, store, Node
  <2>3. VerdictsGiven' /\ OptionalIsNot' /\ SuccessEarned'
    BY <1>2, <1>3, RestSame DEF store, Local, JInv, SuccessEarned
  <2> QED BY <2>1, <2>2, <2>3 DEF JInv
<1>4. CASE FailClosed(n)
  BY <1>2, <1>4, JSettle DEF FailClosed, Local
<1>5. ASSUME NEW s \in {"pending", "skipped"}, SetStatus(n, s),
             routes' = [routes EXCEPT ![n] = Decision(p)],
             UNCHANGED <<run, art, loops, repairs, joins>>
      PROVE  JInv'
  BY <1>2, <1>5, JSettle DEF Local
<1>6. CASE /\ routes' = [routes EXCEPT ![n] = Decision(p)]
           /\ SetStatus(n, IF Matches(p) THEN "pending" ELSE "skipped")
           /\ UNCHANGED <<run, art, loops, repairs, joins>>
  BY <1>5, <1>6
<1> QED BY <1>1, <1>3, <1>4, <1>6, RouteIs

LEMMA JJoinRepair ==
  ASSUME CInv, JInv, NEW n \in Node, Join(n) \/ Repair(n) PROVE JInv'
<1>1. CASE Join(n)
  <2>1. /\ pc = "join" /\ DOMAIN joins' = DOMAIN joins
        /\ UNCHANGED <<run, row, art, loops, routes, repairs, flow, pc, rows, active>>
    BY <1>1 DEF Join, Local
  <2>2. Node' = Node
    BY <2>1 DEF Node
  <2>3. VerdictsGiven' /\ OptionalIsNot' /\ SuccessEarned'
    BY <2>1, RestSame DEF JInv, SuccessEarned
  <2>4. EdgesShape' /\ PassCurrent'
    BY <2>1, <2>2 DEF JInv, EdgesShape, PassCurrent, Decl
  <2> QED BY <2>3, <2>4 DEF JInv
<1>2. CASE Repair(n)
  <2>1. pc = "repair" /\ todo' = todo \ {n} /\ TryRepair(n) /\ UNCHANGED Local
    BY <1>2 DEF Repair, Visit
  <2>2. CASE UNCHANGED store
    <3>1. VerdictsGiven' /\ OptionalIsNot' /\ SuccessEarned'
      BY <2>1, <2>2, RestSame DEF JInv, SuccessEarned, store, Local
    <3>2. EdgesShape' /\ PassCurrent'
      BY <2>1, <2>2 DEF JInv, EdgesShape, PassCurrent, Decl, store, Local, Node
    <3> QED BY <3>1, <3>2 DEF JInv
  <2>3. CASE \E i \in DOMAIN repairs[n] : RouteRepair(n, i)
    BY <2>1, <2>3, JRouteRepair DEF Local
  <2> QED BY <2>1, <2>2, <2>3 DEF TryRepair
<1> QED BY <1>1, <1>2

LEMMA JTurns ==
  ASSUME CInv, JInv,
         \/ NextPass \/ Expired \/ Again \/ GivenUp \/ Recovered \/ Call
         \/ NoneDone \/ Conclude \/ Check \/ Checked \/ Exhaust \/ Raise \/ Crash
         \/ \E n \in Node : Fetch(n) \/ Expire(n)
  PROVE  JInv'
<1>1. DOMAIN active \subseteq Node /\ (run = "succeeded" => ~RequiredBad /\ Owing = {})
  BY DEF JInv, EdgesShape, SuccessEarned
<1>2. CASE NextPass
  <2>1. /\ pc \in Passes /\ Begin(After(pc)) /\ UNCHANGED <<store, flow, active>>
    BY <1>2 DEF NextPass
  <2>2. /\ After(pc) \in Passes \cup {"pop", "reduce"}
        /\ After(pc) = "settle" => pc = "join"
    BY <2>1 DEF After, Passes
  <2>3. DOMAIN active' \subseteq Node
    BY <1>1, <2>1
  <2> QED BY <2>1, <2>2, <2>3, JBegin
<1>3. CASE Expired \/ Again \/ GivenUp \/ Recovered \/ (Call /\ Begin("repair"))
  <2>1. PICK pass \in {"reloop", "reduce", "repair"} : Begin(pass)
    BY <1>3 DEF Expired, Again, GivenUp, Recovered
  <2>2. UNCHANGED <<store, flow, active>>
    BY <1>3 DEF Expired, Again, GivenUp, Recovered, Call
  <2>3. DOMAIN active' \subseteq Node
    BY <1>1, <2>2
  <2>4. pass \in Passes \cup {"pop", "reduce"}
    BY DEF Passes
  <2> QED BY <2>1, <2>2, <2>3, <2>4, JBegin
<1>4. CASE Call /\ pc' = "recover"
  BY <1>1, <1>4, JTurn DEF Call, store
<1>5. CASE NoneDone \/ Raise \/ Crash
  <2>1. DOMAIN active' \subseteq Node
    <3>1. DOMAIN <<>> = {}
      OBVIOUS
    <3> QED BY <1>1, <1>5, <3>1 DEF NoneDone, Raise, Crash, Stop
  <2> QED BY <1>1, <1>5, <2>1, JTurn DEF NoneDone, Raise, Crash, Stop, store
<1>6. CASE Conclude \/ Checked
  <2>1. DOMAIN active' = {}
    BY <1>6 DEF Conclude, Checked, FinishRun, Stop
  <2>2. UNCHANGED <<flow, row, art, loops, routes, repairs, joins>> /\ pc' = "down"
    BY <1>6 DEF Conclude, Checked, FinishRun, Stop
  <2>3. run' = "succeeded" => ~RequiredBad /\ Owing = {}
    BY <1>6 DEF Conclude, Checked, FinishRun, JInv, SuccessEarned
  <2> QED BY <2>1, <2>2, <2>3, JTurn
<1>7. CASE Check
  BY <1>1, <1>7, JTurn DEF Check, store
<1>8. CASE Exhaust
  BY <1>1, <1>8, JTurn DEF Exhaust, store
<1>9. CASE \E n \in Node : Fetch(n) \/ Expire(n)
  <2>1. /\ UNCHANGED <<flow, run, row, art, loops, routes, repairs, joins, pc, todo, rows>>
        /\ DOMAIN active' = DOMAIN active
    BY <1>9 DEF Fetch, Expire, store
  <2> QED BY <1>1, <2>1, JTurn
<1> QED BY <1>2, <1>3, <1>4, <1>5, <1>6, <1>7, <1>8, <1>9 DEF Call

LEMMA JNext == CInv /\ JInv /\ [Next]_vars => JInv'
<1> SUFFICES ASSUME CInv, JInv, [Next]_vars PROVE JInv'
  OBVIOUS
<1>1. ASSUME NEW n \in Node,
             \/ Repair(n) \/ Loop(n) \/ Route(n) \/ Join(n) \/ Block(n)
             \/ Skip(n) \/ Refuse(n) \/ Start(n) \/ Pop(n) \/ Timeout(n)
             \/ Finalize(n) \/ Invalidate(n) \/ GiveUp(n)
      PROVE  JInv'
  BY <1>1, JJoinRepair, JLoop, JRoute, JSettles, JAttempts, JFinalize
<1>2. CASE UNCHANGED vars
  BY <1>2, JTurn DEF vars, JInv, EdgesShape, SuccessEarned
<1> QED BY <1>1, <1>2, JTurns, JRecover DEF Next, Step

-----------------------------------------------------------------------------
(* What a node was made of.                                                *)

(* A node that nothing takes back without a loop or a repair of its own.   *)
Quiet(a) ==
  /\ row[a].status \in {"succeeded", "optional_failed", "failed"}
  /\ a \in Kept(flow) => ~Due(a)
  /\ Decl(a).required \/ a \in DOMAIN repairs => row[a].status = "succeeded"
  /\ ~Open(a)

(* A node that is running, or ended, or about to start.                    *)
Based(n) ==
  \/ row[n].status \in {"running", "succeeded", "optional_failed"}
  \/ pc \in {"failed", "dispatch"} /\ n \in todo
  \/ n \in DOMAIN joins /\ joins[n] = "succeeded"

(* What is behind such a node is quiet, where no loop disturbs it.         *)
BasedOnQuiet ==
  \A n \in Node : Based(n) /\ Undisturbed(n) =>
    \A a \in Ancestors(flow, n) : Quiet(a)

(* What a worker has read is what is accepted, as long as it counts.       *)
FreshlyRead ==
  \A n \in DOMAIN active :
    /\ row[n].status = "running" /\ active[n] # Unread /\ Undisturbed(n) =>
         \A p \in Feeds(n) : active[n].from[p] = art[p].attempt

FInv == BasedOnQuiet /\ FreshInputs /\ FreshlyRead

LEMMA FlowFacts ==
  ASSUME CInv
  PROVE  /\ NeedsResolve(flow)
         /\ \A n \in Node : /\ Decl(n).needs \subseteq Node
                            /\ Decl(n).needs \subseteq Ancestors(flow, n)
                            /\ Ancestors(flow, n) \subseteq Node
                            /\ Feeds(n) \subseteq Ancestors(flow, n)
         /\ Kept(flow) \subseteq Node
<1>1. NeedsResolve(flow) /\ \A n \in Node : Decl(n).needs \subseteq Node
                                            /\ Feeds(n) \subseteq Ancestors(flow, n)
  BY AcceptedMeans DEF CInv, ControlShape
<1>2. \A n \in Node : /\ Decl(n).needs \subseteq Ancestors(flow, n)
                      /\ Ancestors(flow, n) \subseteq Node
  BY <1>1, NeedsAreBehind, NodesBehind DEF Decl, Node
<1> QED BY <1>1, <1>2 DEF Kept, Node

LEMMA UndisturbedStays ==
  ASSUME flow' = flow, DOMAIN joins' = DOMAIN joins, NEW n
  PROVE  (Undisturbed(n))' <=> Undisturbed(n)
  BY DEF Undisturbed, Looped, Repaired, Decl, Node

(* A step changes at most the nodes of C.  Where it leaves a node running  *)
(* or ended, it changes nothing behind it that was quiet, or something     *)
(* behind it was not, and so the node could not have been where it is.     *)
LEMMA QuietFrame ==
  ASSUME CInv, BasedOnQuiet, flow' = flow, DOMAIN joins' = DOMAIN joins,
         NEW C \in SUBSET Node,
         \A a \in Node \ C : (Quiet(a) => (Quiet(a))') /\ art'[a] = art[a],
         \A n \in Node : Undisturbed(n) /\ (Based(n))' =>
           /\ Based(n)
           /\ \A x \in Ancestors(flow, n) \cap C :
                \E a \in Ancestors(flow, n) : ~Quiet(a)
  PROVE  /\ BasedOnQuiet'
         /\ \A n \in Node : Undisturbed(n) /\ (Based(n))' =>
              Based(n) /\ \A a \in Ancestors(flow, n) : art'[a] = art[a]
<1>1. Node' = Node /\ \A n \in Node : (Undisturbed(n))' <=> Undisturbed(n)
  BY UndisturbedStays DEF Node
<1>2. ASSUME NEW n \in Node, Undisturbed(n), (Based(n))', NEW a \in Ancestors(flow, n)
      PROVE  a \in Node \ C /\ Quiet(a) /\ Based(n)
  <2>1. Based(n) /\ \A b \in Ancestors(flow, n) : Quiet(b)
    BY <1>2 DEF BasedOnQuiet
  <2>2. a \notin C
    BY <1>2, <2>1
  <2> QED BY <2>1, <2>2, FlowFacts
<1>3. ASSUME NEW n \in Node, Undisturbed(n), (Based(n))'
      PROVE  /\ \A a \in Ancestors(flow, n) : (Quiet(a))' /\ art'[a] = art[a]
             /\ Based(n)
  <2>1. Based(n)
    BY <1>3
  <2>2. ASSUME NEW a \in Ancestors(flow, n) PROVE (Quiet(a))' /\ art'[a] = art[a]
    BY <1>2, <1>3, <2>2
  <2> QED BY <2>1, <2>2
<1>4. BasedOnQuiet'
  <2>1. \A n \in Node : Undisturbed(n) /\ (Based(n))' =>
          \A a \in Ancestors(flow, n) : (Quiet(a))'
    BY <1>3
  <2>2. \A n \in Node' : (Based(n) /\ Undisturbed(n))' =>
          \A a \in Ancestors(flow', n) : (Quiet(a))'
    BY <1>1, <2>1
  <2> QED BY <2>2 DEF BasedOnQuiet
<1> QED BY <1>3, <1>4

LEMMA FreshFrame ==
  ASSUME CInv, FInv, flow' = flow, DOMAIN joins' = DOMAIN joins, BasedOnQuiet',
         \A n \in Node : Undisturbed(n) /\ (Based(n))' =>
           \A a \in Ancestors(flow, n) : art'[a] = art[a],
         \A n \in Node : row'[n].status = "succeeded" =>
           row[n].status = "succeeded" /\ art'[n] = art[n],
         \A n \in DOMAIN active' :
           row'[n].status = "running" /\ active'[n] # Unread =>
             /\ n \in Node \cap DOMAIN active /\ row[n].status = "running"
             /\ active'[n] = active[n]
  PROVE  FInv'
<1>1. Node' = Node /\ \A n \in Node : (Undisturbed(n))' <=> Undisturbed(n)
  BY UndisturbedStays DEF Node
<1>2. \A n : (Feeds(n))' = Feeds(n)
  BY DEF Feeds, Decl
<1>3. FreshInputs'
  <2>1. ASSUME NEW n \in Node, row'[n].status = "succeeded", Undisturbed(n),
               NEW p \in Feeds(n)
        PROVE  art'[n].from[p] = art'[p].attempt
    <3>1. row[n].status = "succeeded" /\ art'[n] = art[n]
      BY <2>1
    <3>2. (Based(n))'
      BY <2>1 DEF Based
    <3>3. art'[p] = art[p]
      BY <2>1, <3>2, FlowFacts
    <3> QED BY <2>1, <3>1, <3>3 DEF FInv, FreshInputs
  <2> QED BY <1>1, <1>2, <2>1 DEF FreshInputs
<1>4. FreshlyRead'
  <2>1. ASSUME NEW n \in DOMAIN active', row'[n].status = "running",
               active'[n] # Unread, (Undisturbed(n))', NEW p \in Feeds(n)
        PROVE  active'[n].from[p] = art'[p].attempt
    <3>1. /\ n \in Node \cap DOMAIN active /\ row[n].status = "running"
          /\ active'[n] = active[n]
      BY <2>1
    <3>2. (Based(n))' /\ Undisturbed(n)
      BY <1>1, <2>1, <3>1 DEF Based
    <3>3. art'[p] = art[p]
      BY <2>1, <3>1, <3>2, FlowFacts
    <3> QED BY <2>1, <3>1, <3>2, <3>3 DEF FInv, FreshlyRead
  <2> QED BY <1>2, <2>1 DEF FreshlyRead, Unread
<1> QED BY <1>3, <1>4 DEF FInv

(* A node whose needs have all ended well rests on quiet nodes.            *)
LEMMA ReadyIsBased ==
  ASSUME CInv, JInv, FInv, pc # "failed", \A c \in Kept(flow) : ~Due(c),
         NEW n \in Node, Undisturbed(n),
         \A d \in Decl(n).needs : row[d].status \in Good
  PROVE  \A a \in Ancestors(flow, n) : Quiet(a)
<1>1. ASSUME NEW d \in Decl(n).needs
      PROVE  Quiet(d) /\ \A a \in Ancestors(flow, d) : Quiet(a)
  <2>1. d \in Node /\ row[d].status \in Good /\ d \in Ancestors(flow, n)
    BY FlowFacts
  <2>2. Quiet(d)
    BY <2>1 DEF Quiet, Good, Open, JInv, OptionalIsNot
  <2>3. Undisturbed(d)
    BY <2>1, FlowFacts, UndisturbedBehind
  <2>4. Based(d)
    BY <2>1 DEF Based, Good
  <2> QED BY <2>1, <2>2, <2>3, <2>4 DEF FInv, BasedOnQuiet
<1>2. ASSUME NEW a \in Ancestors(flow, n) PROVE Quiet(a)
  <2>1. a \in Decl(n).needs \/ \E d \in Decl(n).needs : a \in Ancestors(flow, d)
    BY FlowFacts, BehindFirst DEF Decl, Node
  <2> QED BY <1>1, <2>1
<1> QED BY <1>2

(* Steps that change no row: a node may become one that is about to start. *)
LEMMA FTurn ==
  ASSUME CInv, JInv, FInv, UNCHANGED <<flow, row, art, loops>>,
         DOMAIN joins' = DOMAIN joins, DOMAIN repairs' = DOMAIN repairs,
         pc' = "failed" => UNCHANGED <<pc, todo>>,
         \A n \in Node : (Based(n))' =>
           \/ Based(n)
           \/ /\ pc # "failed" /\ \A c \in Kept(flow) : ~Due(c)
              /\ \A d \in Decl(n).needs : row[d].status \in Good,
         \A n \in DOMAIN active' : active'[n] # Unread =>
           \/ n \in DOMAIN active /\ active'[n] = active[n]
           \/ \A p \in Feeds(n) : active'[n].from[p] = art[p].attempt,
         DOMAIN active' \subseteq Node
  PROVE  FInv'
<1>1. Node' = Node /\ \A n \in Node : (Undisturbed(n))' <=> Undisturbed(n)
  BY UndisturbedStays DEF Node
<1>2. \A a \in Node : Quiet(a) => (Quiet(a))'
  BY DEF Quiet, Due, Decided, Open, Decl
<1>3. ASSUME NEW n \in Node, Undisturbed(n), (Based(n))', NEW a \in Ancestors(flow, n)
      PROVE  (Quiet(a))'
  <2>1. a \in Node
    BY FlowFacts
  <2>2. CASE Based(n)
    BY <1>2, <1>3, <2>1, <2>2 DEF FInv, BasedOnQuiet
  <2>3. CASE /\ pc # "failed" /\ \A c \in Kept(flow) : ~Due(c)
             /\ \A d \in Decl(n).needs : row[d].status \in Good
    BY <1>2, <1>3, <2>1, <2>3, ReadyIsBased
  <2> QED BY <1>3, <2>2, <2>3
<1>4. BasedOnQuiet'
  <2>1. \A n \in Node' : (Based(n) /\ Undisturbed(n))' =>
          \A a \in Ancestors(flow', n) : (Quiet(a))'
    BY <1>1, <1>3
  <2> QED BY <2>1 DEF BasedOnQuiet
<1>5. \A n : (Feeds(n))' = Feeds(n)
  BY DEF Feeds, Decl
<1>6. FreshInputs'
  BY <1>1, <1>5 DEF FInv, FreshInputs
<1>7. FreshlyRead'
  <2>1. ASSUME NEW n \in DOMAIN active', row'[n].status = "running",
               active'[n] # Unread, (Undisturbed(n))', NEW p \in Feeds(n)
        PROVE  active'[n].from[p] = art'[p].attempt
    <3>1. Undisturbed(n) /\ row[n].status = "running"
      BY <1>1, <2>1
    <3> QED BY <2>1, <3>1 DEF FInv, FreshlyRead
  <2> QED BY <1>5, <2>1 DEF FreshlyRead, Unread
<1> QED BY <1>4, <1>6, <1>7 DEF FInv

(* A step changes one node, which was not quiet.                           *)
LEMMA FOne ==
  ASSUME CInv, FInv, NEW n \in Node, ~Quiet(n), flow' = flow, joins' = joins,
         DOMAIN repairs' = DOMAIN repairs,
         \A m \in Node \ {n} : row'[m] = row[m] /\ art'[m] = art[m],
         \A m \in Kept(flow) \ {n} : loops'[m] = loops[m],
         pc' = "failed" => todo' = {n},
         pc' = "dispatch" => pc = "dispatch" /\ todo' \subseteq todo,
         (Based(n))' => Based(n)
  PROVE  /\ BasedOnQuiet'
         /\ \A m \in Node : Undisturbed(m) /\ (Based(m))' =>
              Based(m) /\ \A a \in Ancestors(flow, m) : art'[a] = art[a]
<1>1. \A a \in Node \ {n} : (Quiet(a) => (Quiet(a))') /\ art'[a] = art[a]
  BY DEF Quiet, Due, Decided, Open, Decl
<1>2. \A m \in Node : (Based(m))' => Based(m)
  BY DEF Based
<1>3. \A m \in Node : Undisturbed(m) /\ (Based(m))' =>
        /\ Based(m)
        /\ \A x \in Ancestors(flow, m) \cap {n} :
             \E a \in Ancestors(flow, m) : ~Quiet(a)
  BY <1>2
<1>4. PICK C \in SUBSET Node : C = {n}
  OBVIOUS
<1>5. /\ \A a \in Node \ C : (Quiet(a) => (Quiet(a))') /\ art'[a] = art[a]
      /\ \A m \in Node : Undisturbed(m) /\ (Based(m))' =>
           /\ Based(m)
           /\ \A x \in Ancestors(flow, m) \cap C :
                \E a \in Ancestors(flow, m) : ~Quiet(a)
      /\ DOMAIN joins' = DOMAIN joins
  BY <1>1, <1>3, <1>4
<1> QED BY <1>5, QuietFrame DEF FInv

(* A visited node is decided against, or stays pending.                    *)
LEMMA FSettle ==
  ASSUME CInv, JInv, FInv, NEW n \in Node, NEW s \in {"pending", "failed", "blocked", "skipped"},
         SetStatus(n, s), ~Quiet(n), todo' = todo \ {n},
         UNCHANGED <<flow, art, loops, repairs, joins, active, pc>>, pc # "failed"
  PROVE  FInv'
<1>1. row'[n].status = s /\ \A m \in Node \ {n} : row'[m] = row[m]
  BY SetStatusIs DEF CInv
<1>2. (Based(n))' => Based(n)
  BY <1>1 DEF Based
<1>3. /\ BasedOnQuiet'
      /\ \A m \in Node : Undisturbed(m) /\ (Based(m))' =>
           Based(m) /\ \A a \in Ancestors(flow, m) : art'[a] = art[a]
  BY <1>1, <1>2, FOne
<1>4. \A m \in Node : row'[m].status \in {"succeeded", "running"} => row'[m] = row[m]
  BY <1>1
<1>5. \A m \in DOMAIN active' :
        row'[m].status = "running" /\ active'[m] # Unread =>
          /\ m \in Node \cap DOMAIN active /\ row[m].status = "running"
          /\ active'[m] = active[m]
  BY <1>4 DEF JInv, EdgesShape
<1> QED BY <1>3, <1>4, <1>5, FreshFrame

LEMMA FSettles ==
  ASSUME CInv, JInv, FInv, NEW n \in Node,
         Block(n) \/ Skip(n) \/ Refuse(n) \/ Invalidate(n) \/ GiveUp(n)
  PROVE  FInv'
<1>1. PICK s \in {"failed", "blocked", "skipped"} :
        SetStatus(n, s) /\ (pc = "check" => s = "failed")
  BY SettlesAre
<1>2. /\ n \in todo /\ todo' = todo \ {n}
      /\ UNCHANGED <<flow, run, art, loops, routes, repairs, joins, active, pc, rows>>
      /\ \/ pc \in {"settle", "dispatch", "budget"} /\ row[n].status = "pending"
         \/ pc = "check" /\ n \in Owing
  BY SettlesAre
<1>3. CASE ~Quiet(n)
  BY <1>1, <1>2, <1>3, FSettle
<1>4. CASE Quiet(n)
  <2>1. pc = "check" /\ n \in Owing /\ s = "failed"
    BY <1>1, <1>2, <1>4 DEF Quiet
  <2>2. row'[n].status = "failed" /\ \A m \in Node \ {n} : row'[m] = row[m]
    BY <1>1, <2>1, SetStatusIs DEF CInv
  <2>3. row[n].status # "succeeded"
    BY <2>1 DEF Owing
  <2>4. \A a \in Node : (Quiet(a) => (Quiet(a))') /\ art'[a] = art[a]
    BY <1>2, <2>1, <2>2, <2>3 DEF Quiet, Due, Decided, Open, Decl
  <2>5. \A m \in Node : (Based(m))' => Based(m)
    BY <1>2, <2>1, <2>2 DEF Based
  <2>6. PICK C \in SUBSET Node : C = {}
    OBVIOUS
  <2>7. /\ BasedOnQuiet'
        /\ \A m \in Node : Undisturbed(m) /\ (Based(m))' =>
             Based(m) /\ \A a \in Ancestors(flow, m) : art'[a] = art[a]
    <3>1. /\ \A a \in Node \ C : (Quiet(a) => (Quiet(a))') /\ art'[a] = art[a]
          /\ \A m \in Node : Undisturbed(m) /\ (Based(m))' =>
               /\ Based(m)
               /\ \A x \in Ancestors(flow, m) \cap C :
                    \E a \in Ancestors(flow, m) : ~Quiet(a)
          /\ DOMAIN joins' = DOMAIN joins /\ flow' = flow
      BY <1>2, <2>4, <2>5, <2>6
    <3> QED BY <3>1, QuietFrame DEF FInv
  <2>8. \A m \in Node : row'[m].status \in {"succeeded", "running"} => row'[m] = row[m]
    BY <2>2
  <2>9. /\ DOMAIN active \subseteq Node /\ DOMAIN joins' = DOMAIN joins
        /\ UNCHANGED <<flow, art, active>>
    BY <1>2 DEF JInv, EdgesShape
  <2> QED BY <2>7, <2>8, <2>9, FreshFrame
<1> QED BY <1>3, <1>4

LEMMA FRoute == ASSUME CInv, JInv, FInv, NEW n \in Node, Route(n) PROVE FInv'
<1>1. PICK p : p = Decl(n).route[1]
  OBVIOUS
<1>2. /\ pc \in {"routes", "reroute"} /\ todo' = todo \ {n} /\ UNCHANGED Local
      /\ row[n].status = "pending"
  BY <1>1, RouteIs
<1>3. ~Quiet(n)
  BY <1>2 DEF Quiet
<1>4. CASE UNCHANGED store
  BY <1>2, <1>4, FTurn DEF store, Local, Based, JInv, EdgesShape
<1>5. CASE FailClosed(n)
  BY <1>2, <1>3, <1>5, FSettle DEF FailClosed, Local
<1>6. ASSUME NEW s \in {"pending", "skipped"}, SetStatus(n, s),
             UNCHANGED <<run, art, loops, repairs, joins>>
      PROVE  FInv'
  BY <1>2, <1>3, <1>6, FSettle DEF Local
<1> QED BY <1>1, <1>4, <1>5, <1>6, RouteIs

(* A repair reopens what only its integration uses, and the integration,   *)
(* which has failed.                                                       *)
LEMMA FRouteRepair ==
  ASSUME CInv, JInv, FInv, NEW n \in Node, n \in DOMAIN repairs,
         NEW i \in DOMAIN repairs[n], RouteRepair(n, i), row[n].status = "failed",
         UNCHANGED <<flow, active>>, pc' \in {"repair", "expire"}
  PROVE  FInv'
<1>1. PICK reopened : reopened = {n} \cup TargetNodes(Decl(n).repair[i])
  OBVIOUS
<1>2. /\ \A m \in Node \ reopened : row'[m] = row[m] /\ art'[m] = art[m]
      /\ \A m \in Node \cap reopened : row'[m].status = "pending" /\ art'[m] = Unmade
      /\ UNCHANGED <<loops, routes, joins>> /\ DOMAIN repairs' = DOMAIN repairs
  BY <1>1, RouteRepairIs DEF CInv
<1>3. i \in Routes(flow, n) /\ ~Quiet(n)
  BY DEF JInv, EdgesShape, Quiet
<1>4. PICK C \in SUBSET Node : C = Node \cap reopened
  OBVIOUS
<1>5. \A a \in Node \ C : (Quiet(a) => (Quiet(a))') /\ art'[a] = art[a]
  BY <1>2, <1>4 DEF Quiet, Due, Decided, Open, Decl
<1>6. ASSUME NEW m \in Node, Undisturbed(m), (Based(m))'
      PROVE  /\ Based(m) /\ m \notin C
             /\ \A x \in Ancestors(flow, m) \cap C :
                  \E a \in Ancestors(flow, m) : ~Quiet(a)
  <2>1. m \notin C
    <3>1. ASSUME m \in C PROVE FALSE
      <4>1. Repaired(m)
        BY <1>1, <1>3, <1>4, <3>1 DEF Repaired
      <4>2. m \notin DOMAIN joins
        BY <1>6, <4>1 DEF Undisturbed
      <4> QED BY <1>2, <1>4, <1>6, <3>1, <4>2 DEF Based
    <3> QED BY <3>1
  <2>2. Based(m)
    BY <1>2, <1>4, <1>6, <2>1 DEF Based
  <2>3. ASSUME NEW x \in Ancestors(flow, m) \cap C
        PROVE  n \in Ancestors(flow, m)
    <3>1. CASE x = n
      BY <2>3, <3>1
    <3>2. CASE x # n
      <4>1. x \in TargetNodes(Decl(n).repair[i])
        BY <1>1, <1>4, <2>3, <3>2
      <4>2. PICK y \in {m} \cup Ancestors(flow, m) : x \in Decl(y).needs
        BY FlowFacts, BehindLast DEF Decl, Node
      <4>3. y \in Node
        BY FlowFacts
      <4>4. y = n
        BY <1>3, <4>1, <4>2, <4>3, RepairFeedsOne DEF CInv, ControlShape
      <4>5. n \in C
        BY <1>1, <1>4
      <4> QED BY <2>1, <4>4, <4>5
    <3> QED BY <3>1, <3>2
  <2> QED BY <1>3, <2>1, <2>2, <2>3
<1>7. /\ BasedOnQuiet'
      /\ \A m \in Node : Undisturbed(m) /\ (Based(m))' =>
           Based(m) /\ \A a \in Ancestors(flow, m) : art'[a] = art[a]
  <2>1. /\ \A m \in Node : Undisturbed(m) /\ (Based(m))' =>
             /\ Based(m)
             /\ \A x \in Ancestors(flow, m) \cap C :
                  \E a \in Ancestors(flow, m) : ~Quiet(a)
        /\ DOMAIN joins' = DOMAIN joins
    BY <1>2, <1>6
  <2> QED BY <1>5, <2>1, QuietFrame DEF FInv
<1>8. \A m \in Node : row'[m].status \in {"succeeded", "running"} =>
        row'[m] = row[m] /\ art'[m] = art[m]
  BY <1>2
<1>9. DOMAIN active \subseteq Node /\ DOMAIN joins' = DOMAIN joins
  BY <1>2 DEF JInv, EdgesShape
<1> QED BY <1>7, <1>8, <1>9, FreshFrame

(* A verdict takes back a region, of which an undisturbed node is part, or *)
(* which it has been waiting for.                                          *)
LEMMA FLoop == ASSUME CInv, JInv, FInv, NEW n \in Node, Loop(n) PROVE FInv'
<1>1. /\ pc \in {"loops", "reloop"} /\ n \in todo /\ todo' = todo \ {n}
      /\ n \in Kept(flow) /\ UNCHANGED Local
  BY LoopIs
<1>2. UNCHANGED <<flow, pc, active>> /\ DOMAIN active \subseteq Node
  BY <1>1 DEF Local, JInv, EdgesShape
<1>3. CASE UNCHANGED store
  BY <1>1, <1>2, <1>3, FTurn DEF store, Based
<1>4. CASE FailClosed(n) /\ (row[n].status = "pending" \/ Due(n))
  <2>1. ~Quiet(n)
    BY <1>1, <1>4 DEF Quiet
  <2> QED BY <1>1, <1>2, <1>4, <2>1, FSettle DEF FailClosed
<1>5. ASSUME Due(n), Checkpoint(n), \/ UNCHANGED <<run, row, art, routes, repairs, joins>>
                                    \/ Exhausted(n)
      PROVE  FInv'
  <2>1. ~Quiet(n)
    BY <1>1, <1>5 DEF Quiet
  <2>2. /\ \A m \in Node \ {n} : row'[m] = row[m] /\ art'[m] = art[m]
        /\ (row'[n] = row[n] /\ art'[n] = art[n]) \/ row'[n].status = "failed"
        /\ UNCHANGED <<repairs, joins>>
    BY <1>5, ExhaustedIs DEF CInv, Due
  <2>3. \A m \in Kept(flow) \ {n} : loops'[m] = loops[m]
    BY <1>1, <1>5, CheckpointIs DEF CInv
  <2>4. (Based(n))' => Based(n)
    BY <1>1, <1>2, <1>5, <2>2 DEF Based, Due
  <2>5. /\ BasedOnQuiet'
        /\ \A m \in Node : Undisturbed(m) /\ (Based(m))' =>
             Based(m) /\ \A a \in Ancestors(flow, m) : art'[a] = art[a]
    BY <1>1, <1>2, <2>1, <2>2, <2>3, <2>4, FOne
  <2>6. \A m \in Node : row'[m].status \in {"succeeded", "running"} =>
          row'[m] = row[m] /\ art'[m] = art[m]
    BY <2>2
  <2> QED BY <1>2, <2>2, <2>5, <2>6, FreshFrame
<1>6. CASE Due(n) /\ Checkpoint(n) /\ Continued(n)
  <2>1. PICK region : region = LoopRegion(flow, n)
    OBVIOUS
  <2>2. /\ \A m \in Node \ region : row'[m] = row[m] /\ art'[m] = art[m]
        /\ \A m \in Node \cap region : row'[m].status = "pending" /\ art'[m] = Unmade
        /\ UNCHANGED <<run, repairs, joins>>
    BY <1>1, <1>6, <2>1, ContinuedIs DEF CInv
  <2>3. \A m \in Kept(flow) \ {n} : loops'[m] = loops[m]
    BY <1>1, <1>6, CheckpointIs DEF CInv
  <2>4. n \in region /\ ~Quiet(n)
    BY <1>1, <1>6, <2>1 DEF LoopRegion, Quiet
  <2>5. PICK C \in SUBSET Node : C = Node \cap region
    OBVIOUS
  <2>6. \A a \in Node \ C : (Quiet(a) => (Quiet(a))') /\ art'[a] = art[a]
    BY <1>1, <1>2, <2>2, <2>3, <2>4, <2>5 DEF Quiet, Due, Decided, Open, Decl
  <2>7. ASSUME NEW m \in Node, Undisturbed(m), (Based(m))'
        PROVE  /\ Based(m)
               /\ \A x \in Ancestors(flow, m) \cap C :
                    \E a \in Ancestors(flow, m) : ~Quiet(a)
    <3>1. m \notin region
      <4>1. ASSUME m \in region PROVE FALSE
        <5>1. Looped(m)
          BY <1>1, <2>1, <4>1 DEF Looped
        <5>2. m \notin DOMAIN joins
          BY <2>7, <5>1 DEF Undisturbed
        <5> QED BY <1>1, <1>2, <2>2, <2>7, <4>1, <5>2 DEF Based
      <4> QED BY <4>1
    <3>2. Based(m)
      BY <1>1, <1>2, <2>2, <2>7, <3>1 DEF Based
    <3>3. ASSUME NEW x \in Ancestors(flow, m) \cap C PROVE n \in Ancestors(flow, m)
      <4>1. region \cap Ancestors(flow, m) # {}
        BY <2>5, <3>3
      <4> QED BY <1>1, <2>1, <2>7, <3>1, <4>1 DEF Undisturbed
    <3> QED BY <2>4, <3>2, <3>3
  <2>8. /\ BasedOnQuiet'
        /\ \A m \in Node : Undisturbed(m) /\ (Based(m))' =>
             Based(m) /\ \A a \in Ancestors(flow, m) : art'[a] = art[a]
    BY <1>2, <2>2, <2>6, <2>7, QuietFrame DEF FInv
  <2>9. \A m \in Node : row'[m].status \in {"succeeded", "running"} =>
          row'[m] = row[m] /\ art'[m] = art[m]
    BY <2>2
  <2> QED BY <1>2, <2>2, <2>8, <2>9, FreshFrame
<1> QED BY <1>3, <1>4, <1>5, <1>6, LoopIs

LEMMA FAttempts ==
  ASSUME CInv, JInv, FInv, NEW n \in Node, Start(n) \/ Pop(n) \/ Timeout(n) PROVE FInv'
<1>0. DOMAIN active \subseteq Node
  BY DEF JInv, EdgesShape
<1>1. CASE Start(n)
  <2>1. /\ pc = "dispatch" /\ n \in todo /\ todo' \subseteq todo \ {n}
        /\ row'[n].status = "running"
        /\ \A m \in Node \ {n} : row'[m] = row[m]
        /\ active' = [m \in DOMAIN active \cup {n} |->
                        IF m = n THEN Unread ELSE active[m]]
        /\ UNCHANGED <<flow, run, art, loops, routes, repairs, joins, rows, pc>>
    BY <1>1, StartIs DEF CInv
  <2>2. ~Quiet(n) /\ Based(n)
    BY <2>1 DEF CInv, PassOrderly, Quiet, Based
  <2>3. /\ BasedOnQuiet'
        /\ \A m \in Node : Undisturbed(m) /\ (Based(m))' =>
             Based(m) /\ \A a \in Ancestors(flow, m) : art'[a] = art[a]
    BY <2>1, <2>2, FOne
  <2>4. \A m \in DOMAIN active' :
          row'[m].status = "running" /\ active'[m] # Unread =>
            /\ m \in Node \cap DOMAIN active /\ row[m].status = "running"
            /\ active'[m] = active[m]
    BY <1>0, <2>1
  <2>5. \A m \in Node : row'[m].status = "succeeded" =>
          row[m].status = "succeeded" /\ art'[m] = art[m]
    BY <2>1
  <2> QED BY <2>1, <2>3, <2>4, <2>5, FreshFrame
<1>2. CASE Succeed(n)
  <2>1. /\ pc' = "expire" /\ row[n].status = "running"
        /\ n \in DOMAIN active /\ active[n] # Unread /\ Removed(n)
        /\ row'[n].status = "succeeded"
        /\ art'[n].from = active[n].from
        /\ \A m \in Node \ {n} : row'[m] = row[m] /\ art'[m] = art[m]
        /\ UNCHANGED <<flow, run, loops, routes, repairs, joins, rows, todo>>
    BY <1>2, SucceedIs DEF CInv
  <2>2. ~Quiet(n) /\ Based(n)
    BY <2>1 DEF Quiet, Based
  <2>3. /\ BasedOnQuiet'
        /\ \A m \in Node : Undisturbed(m) /\ (Based(m))' =>
             Based(m) /\ \A a \in Ancestors(flow, m) : art'[a] = art[a]
    BY <2>1, <2>2, FOne
  <2>4. Node' = Node /\ \A m \in Node : (Undisturbed(m))' <=> Undisturbed(m)
    BY <2>1, UndisturbedStays DEF Node
  <2>5. \A m : (Feeds(m))' = Feeds(m)
    BY <2>1 DEF Feeds, Decl
  <2>6. ASSUME NEW m \in Node, row'[m].status = "succeeded", Undisturbed(m),
               NEW p \in Feeds(m)
        PROVE  art'[m].from[p] = art'[p].attempt
    <3>1. (Based(m))'
      BY <2>6 DEF Based
    <3>2. art'[p] = art[p]
      BY <2>3, <2>6, <3>1, FlowFacts
    <3>3. CASE m = n
      <4>1. active[n].from[p] = art[p].attempt
        BY <2>1, <2>6, <3>3 DEF FInv, FreshlyRead
      <4> QED BY <2>1, <3>2, <3>3, <4>1
    <3>4. CASE m # n
      BY <2>1, <2>6, <3>2, <3>4 DEF FInv, FreshInputs
    <3> QED BY <3>3, <3>4
  <2>7. ASSUME NEW m \in DOMAIN active', row'[m].status = "running",
               active'[m] # Unread, (Undisturbed(m))', NEW p \in Feeds(m)
        PROVE  active'[m].from[p] = art'[p].attempt
    <3>1. m # n /\ m \in DOMAIN active /\ active'[m] = active[m]
      BY <2>1, <2>7 DEF Removed
    <3>2. m \in Node /\ row[m].status = "running"
      BY <1>0, <2>1, <2>7, <3>1
    <3>3. (Based(m))' /\ Undisturbed(m)
      BY <2>4, <2>7, <3>2 DEF Based
    <3>4. art'[p] = art[p]
      BY <2>3, <2>7, <3>2, <3>3, FlowFacts
    <3> QED BY <2>7, <3>1, <3>2, <3>3, <3>4 DEF FInv, FreshlyRead
  <2>8. FreshInputs'
    BY <2>4, <2>5, <2>6 DEF FreshInputs
  <2>9. FreshlyRead'
    BY <2>5, <2>7 DEF FreshlyRead, Unread
  <2> QED BY <2>3, <2>8, <2>9 DEF FInv
<1>3. ASSUME NEW ail, FinishAttempt(n, ail), Removed(n) PROVE FInv'
  <2>1. /\ row[n].status = "running" /\ pc' = "failed" /\ todo' = {n}
        /\ row'[n].status = "failed"
        /\ \A m \in Node \ {n} : row'[m] = row[m]
        /\ UNCHANGED <<flow, run, art, loops, routes, repairs, joins, rows>>
    BY <1>3, FinishIs DEF CInv
  <2>2. ~Quiet(n) /\ Based(n)
    BY <2>1 DEF Quiet, Based
  <2>3. /\ BasedOnQuiet'
        /\ \A m \in Node : Undisturbed(m) /\ (Based(m))' =>
             Based(m) /\ \A a \in Ancestors(flow, m) : art'[a] = art[a]
    BY <2>1, <2>2, FOne
  <2>4. \A m \in DOMAIN active' :
          row'[m].status = "running" /\ active'[m] # Unread =>
            /\ m \in Node \cap DOMAIN active /\ row[m].status = "running"
            /\ active'[m] = active[m]
    BY <1>0, <1>3, <2>1 DEF Removed
  <2>5. \A m \in Node : row'[m].status = "succeeded" =>
          row[m].status = "succeeded" /\ art'[m] = art[m]
    BY <2>1
  <2> QED BY <2>1, <2>3, <2>4, <2>5, FreshFrame
<1>4. CASE Fail(n) \/ Timeout(n)
  BY <1>3, <1>4 DEF Fail, Timeout, Popped
<1>5. CASE Outlived(n)
  <2>1. /\ UNCHANGED <<flow, run, row, art, loops, routes, repairs, joins, todo>>
        /\ pc = "pop" /\ pc' = "expire" /\ Removed(n)
    BY <1>5 DEF Outlived, Popped, store
  <2>2. DOMAIN active' \subseteq Node /\ \A m \in DOMAIN active' :
          m \in DOMAIN active /\ active'[m] = active[m]
    BY <1>0, <2>1 DEF Removed
  <2>3. \A m \in Node : (Based(m))' => Based(m)
    BY <2>1 DEF Based
  <2> QED BY <2>1, <2>2, <2>3, FTurn
<1> QED BY <1>1, <1>2, <1>4, <1>5 DEF Pop

LEMMA FRepairs ==
  ASSUME CInv, JInv, FInv, NEW n \in Node, Repair(n) \/ Finalize(n) PROVE FInv'
<1>0. DOMAIN active \subseteq Node
  BY DEF JInv, EdgesShape
<1>1. CASE Repair(n)
  <2>1. /\ pc = "repair" /\ todo # {} /\ n = Least(todo) /\ todo' = todo \ {n}
        /\ TryRepair(n) /\ UNCHANGED Local
    BY <1>1 DEF Repair, Visit
  <2>2. n \in DOMAIN repairs
    BY <2>1, VisitIsDue DEF CInv, JInv, PassCurrent
  <2>3. CASE UNCHANGED store
    BY <1>0, <2>1, <2>3, FTurn DEF store, Local, Based
  <2>4. CASE \E i \in DOMAIN repairs[n] : Repairable(n, i) /\ RouteRepair(n, i)
    BY <2>1, <2>2, <2>4, FRouteRepair DEF Local, Repairable
  <2> QED BY <2>1, <2>3, <2>4 DEF TryRepair
<1>2. CASE Finalize(n)
  <2>1. /\ pc = "failed" /\ pc' = "expire" /\ todo = {n} /\ todo' = {}
        /\ row[n].status = "failed" /\ UNCHANGED <<flow, active>>
    BY <1>2, FinalizeIs
  <2>2. CASE UNCHANGED store
    BY <1>0, <2>1, <2>2, FTurn DEF store, Based
  <2>3. CASE n \in DOMAIN repairs /\ \E i \in DOMAIN repairs[n] : RouteRepair(n, i)
    BY <2>1, <2>3, FRouteRepair
  <2>4. ASSUME NEW s \in {"pending", "failed", "optional_failed"}, SetStatus(n, s),
               UNCHANGED <<run, art, loops, routes, repairs, joins>>
        PROVE  FInv'
    <3>1. row'[n].status = s /\ \A m \in Node \ {n} : row'[m] = row[m]
      BY <2>4, SetStatusIs DEF CInv
    <3>2. ~Quiet(n) /\ Based(n)
      BY <2>1 DEF Quiet, Based, Open
    <3>3. /\ BasedOnQuiet'
          /\ \A m \in Node : Undisturbed(m) /\ (Based(m))' =>
               Based(m) /\ \A a \in Ancestors(flow, m) : art'[a] = art[a]
      BY <2>1, <2>4, <3>1, <3>2, FOne
    <3>4. \A m \in Node : row'[m].status \in {"succeeded", "running"} => row'[m] = row[m]
      BY <3>1
    <3> QED BY <1>0, <2>1, <2>4, <3>3, <3>4, FreshFrame
  <2> QED BY <1>2, <2>2, <2>3, <2>4, FinalizeIs
<1> QED BY <1>1, <1>2

LEMMA FRecover == ASSUME CInv, JInv, FInv, Recover PROVE FInv'
<1>1. /\ pc' = "recovered"
      /\ \A m \in Node : IF row[m].status = "running"
                         THEN row'[m].status = "pending" ELSE row'[m] = row[m]
      /\ UNCHANGED <<flow, art, loops, routes, repairs, joins, todo, active>>
  BY RecoverIs DEF CInv
<1>2. \A a \in Node : (Quiet(a) => (Quiet(a))') /\ art'[a] = art[a]
  BY <1>1 DEF Quiet, Due, Decided, Open, Decl
<1>3. \A m \in Node : (Based(m))' => Based(m)
  BY <1>1 DEF Based
<1>4. PICK C \in SUBSET Node : C = {}
  OBVIOUS
<1>5. /\ BasedOnQuiet'
      /\ \A m \in Node : Undisturbed(m) /\ (Based(m))' =>
           Based(m) /\ \A a \in Ancestors(flow, m) : art'[a] = art[a]
  <2>1. /\ \A a \in Node \ C : (Quiet(a) => (Quiet(a))') /\ art'[a] = art[a]
        /\ \A m \in Node : Undisturbed(m) /\ (Based(m))' =>
             /\ Based(m)
             /\ \A x \in Ancestors(flow, m) \cap C :
                  \E a \in Ancestors(flow, m) : ~Quiet(a)
        /\ DOMAIN joins' = DOMAIN joins /\ flow' = flow
    BY <1>1, <1>2, <1>3, <1>4
  <2> QED BY <2>1, QuietFrame DEF FInv
<1>6. \A m \in Node : row'[m].status \in {"succeeded", "running"} => row'[m] = row[m]
  BY <1>1
<1>7. DOMAIN active \subseteq Node
  BY DEF JInv, EdgesShape
<1> QED BY <1>1, <1>5, <1>6, <1>7, FreshFrame

(* Steps that only turn run() to something else.                           *)
LEMMA FTurns ==
  ASSUME CInv, JInv, FInv,
         \/ NextPass \/ Expired \/ Again \/ GivenUp \/ Recovered \/ Call
         \/ NoneDone \/ Conclude \/ Check \/ Checked \/ Exhaust \/ Raise \/ Crash
         \/ \E n \in Node : Join(n) \/ Fetch(n) \/ Expire(n)
  PROVE  FInv'
<1>0. DOMAIN active \subseteq Node
  BY DEF JInv, EdgesShape
<1>1. CASE NextPass
  <2>1. /\ pc \in Passes /\ pc' = After(pc) /\ UNCHANGED <<store, flow, active>>
        /\ todo' = Visits(After(pc), IF After(pc) = "settle" THEN rows ELSE Fresh)
    BY <1>1 DEF NextPass, Begin
  <2>2. pc' # "failed" /\ (pc' = "dispatch" => pc = "settle")
    BY <2>1 DEF After, Passes
  <2>3. ASSUME NEW n \in Node, (Based(n))', ~Based(n)
        PROVE  /\ pc # "failed" /\ \A c \in Kept(flow) : ~Due(c)
               /\ \A d \in Decl(n).needs : row[d].status \in Good
    <3>1. pc' = "dispatch" /\ n \in todo'
      BY <2>1, <2>2, <2>3 DEF Based, store
    <3>2. pc = "settle" /\ n \in Ready(Fresh)
      BY <2>1, <2>2, <3>1 DEF Visits, After
    <3>3. \A d \in Decl(n).needs : Fresh[d] \in Good
      BY <2>3, <3>2 DEF Ready, Based
    <3>4. \A d \in Decl(n).needs : row[d].status \in Good
      BY <3>3, FlowFacts DEF Fresh
    <3>5. \A c \in Kept(flow) : ~Due(c)
      BY <3>2 DEF CInv, VerdictsDue
    <3> QED BY <3>2, <3>4, <3>5
  <2> QED BY <1>0, <2>1, <2>2, <2>3, FTurn DEF store
<1>2. CASE Expired \/ Again \/ GivenUp \/ Recovered \/ Call
  <2>1. UNCHANGED <<store, flow, active>> /\ pc' \in {"reloop", "reduce", "repair", "recover"}
    BY <1>2 DEF Expired, Again, GivenUp, Recovered, Call, Begin
  <2> QED BY <1>0, <2>1, FTurn DEF store, Based
<1>3. CASE NoneDone \/ Check \/ Exhaust
  <2>1. UNCHANGED <<store, flow, active>> /\ pc' \in {"expire", "check", "budget"}
    BY <1>3 DEF NoneDone, Check, Exhaust
  <2> QED BY <1>0, <2>1, FTurn DEF store, Based
<1>4. CASE Conclude \/ Checked \/ Raise \/ Crash
  <2>1. /\ UNCHANGED <<flow, row, art, loops, repairs, joins>> /\ pc' = "down"
        /\ DOMAIN active' = {}
    BY <1>4 DEF Conclude, Checked, Raise, Crash, FinishRun, Stop, store
  <2> QED BY <2>1, FTurn DEF Based
<1>5. ASSUME NEW m \in Node, Join(m) PROVE FInv'
  <2>1. /\ pc = "join" /\ todo # {} /\ m = Least(todo) /\ todo' = todo \ {m}
        /\ UNCHANGED <<run, row, art, loops, routes, repairs, flow, pc, rows, active>>
        /\ joins' = [joins EXCEPT ![m] = IF @ # "waiting" THEN @
                                         ELSE JoinDecision(m, rows)]
    BY <1>5 DEF Join, Visit, Local
  <2>2. ASSUME NEW n \in Node, (Based(n))', ~Based(n)
        PROVE  /\ pc # "failed" /\ \A c \in Kept(flow) : ~Due(c)
               /\ \A d \in Decl(n).needs : row[d].status \in Good
    <3>1. n \in DOMAIN joins /\ joins'[n] = "succeeded" /\ joins[n] # "succeeded"
      BY <2>1, <2>2 DEF Based
    <3>2. JoinDecision(n, rows) = "succeeded"
      BY <2>1, <3>1
    <3>3. \A d \in Decl(n).needs : rows[d] \in Good
      BY <3>2 DEF JoinDecision
    <3>4. \A d \in Decl(n).needs : row[d].status \in Good
      BY <2>1, <3>3, FlowFacts DEF JInv, PassCurrent
    <3>5. \A c \in Kept(flow) : ~Due(c)
      BY <2>1 DEF CInv, VerdictsDue
    <3> QED BY <2>1, <3>4, <3>5
  <2> QED BY <1>0, <2>1, <2>2, FTurn
<1>6. ASSUME NEW n \in Node, Fetch(n) PROVE FInv'
  <2>1. /\ UNCHANGED <<flow, row, art, loops, repairs, joins, pc, todo>>
        /\ DOMAIN active' = DOMAIN active
        /\ \A m \in DOMAIN active' :
             \/ active'[m] = active[m]
             \/ \A p \in Feeds(m) : active'[m].from[p] = art[p].attempt
    BY <1>6 DEF Fetch, store
  <2> QED BY <1>0, <2>1, FTurn DEF Based
<1>7. ASSUME NEW n \in Node, Expire(n) PROVE FInv'
  <2>1. UNCHANGED <<flow, row, art, loops, repairs, joins, pc, todo, active>>
    BY <1>7 DEF Expire
  <2> QED BY <1>0, <2>1, FTurn DEF Based
<1> QED BY <1>1, <1>2, <1>3, <1>4, <1>5, <1>6, <1>7

LEMMA FNext == CInv /\ JInv /\ FInv /\ [Next]_vars => FInv'
<1> SUFFICES ASSUME CInv, JInv, FInv, [Next]_vars PROVE FInv'
  OBVIOUS
<1>1. ASSUME NEW n \in Node,
             \/ Repair(n) \/ Loop(n) \/ Route(n) \/ Join(n) \/ Block(n)
             \/ Skip(n) \/ Refuse(n) \/ Start(n) \/ Pop(n) \/ Timeout(n)
             \/ Finalize(n) \/ Invalidate(n) \/ GiveUp(n)
      PROVE  FInv'
  BY <1>1, FRepairs, FLoop, FRoute, FTurns, FSettles, FAttempts
<1>2. CASE UNCHANGED vars
  BY <1>2, FTurn DEF vars, JInv, EdgesShape, Based
<1> QED BY <1>1, <1>2, FTurns, FRecover DEF Next, Step

LEMMA FInit == Init => FInv
<1> SUFFICES ASSUME Init PROVE FInv
  OBVIOUS
<1>1. \A n \in Node : row[n].status = "pending" /\ ~Based(n)
  BY DEF Init, Based
<1>2. DOMAIN active = {}
  BY DEF Init
<1> QED BY <1>1, <1>2 DEF FInv, BasedOnQuiet, FreshInputs, FreshlyRead

LEMMA ControlAlways == ControlSpec => [](CInv /\ JInv /\ FInv)
<1>1. CInv /\ JInv /\ FInv /\ [Next]_vars => (CInv /\ JInv /\ FInv)'
  BY NextKeeps, JNext, FNext
<1> QED BY <1>1, ControlInit, JInit, FInit, PTL DEF ControlSpec

(* FreshInputs, for every set of workflows: after any loops, repairs,      *)
(* crashes and resumes, a node that succeeded was made of what its         *)
(* producers have accepted now, unless a loop the validator lets reach     *)
(* behind it took them back (Scheduler._inputs, route_repair,              *)
(* apply_loop_decision).                                                   *)
THEOREM NothingStale == ControlSpec => []FreshInputs
  BY ControlAlways, PTL DEF FInv

(* VerifiedSuccess, for every set of workflows: no run succeeds past a     *)
(* verifier that its own route did not leave out, and the verdict is on    *)
(* the evidence accepted now (VERIFIER_NOT_REQUIRED and its like in        *)
(* contracts.py, with Scheduler._finish).                                  *)
THEOREM WorkIsJudged == ControlSpec => []VerifiedSuccess
<1>1. CInv /\ JInv /\ FInv => VerifiedSuccess
  <2> SUFFICES ASSUME CInv, JInv, FInv, run = "succeeded", NEW n \in Node,
                      row[n].status = "succeeded", Judged(n),
                      NEW spec \in Decl(n).verification.verifiers,
                      NEW v, v = spec.node
               PROVE  \/ row[v].status = "skipped"
                      \/ /\ row[v].status = "succeeded"
                         /\ Undisturbed(v) => art[v].from[n] = art[n].attempt
    BY DEF VerifiedSuccess
  <2>1. PolicyBound(flow, n) /\ flow \in Flows /\ spec.evidence # {}
    BY ControlAssumption
       DEF CInv, ControlShape, Accepted, NodeAccepted, Node, Decl, Judged
  <2>2. VerifierBinds(flow, n, spec)
    BY <2>1 DEF PolicyBound, Judged, Decl
  <2>3. v \in Node /\ Decl(v).required /\ n \in Feeds(v)
    BY <2>1, <2>2 DEF VerifierBinds, Node, Decl, Feeds, Values
  <2>4. row[v].status \in {"succeeded", "skipped"}
    BY <2>3 DEF JInv, SuccessEarned, RequiredBad
  <2>5. row[v].status = "succeeded" /\ Undisturbed(v) => art[v].from[n] = art[n].attempt
    BY <2>3 DEF FInv, FreshInputs
  <2> QED BY <2>4, <2>5
<1> QED BY <1>1, ControlAlways, PTL

-----------------------------------------------------------------------------
(* Routes.                                                                 *)

Source(n) == Decl(n).route[1]

Left == {"failed", "blocked", "skipped"}

(* A decision agrees with the source that is accepted: nothing takes the   *)
(* source back without the decision.                                       *)
SourceAgrees ==
  \A n \in DOMAIN routes : routes[n] # None /\ Tied(n, Source(n)) =>
    /\ row[Source(n)].status \in {"succeeded", "failed"}
    /\ ~Open(Source(n))
    /\ art[Source(n)].attempt # 0 => routes[n] = Decision(Source(n))

(* A node that was not selected stays out.                                 *)
UnselectedStays ==
  \A n \in DOMAIN routes \ DOMAIN repairs : routes[n] # None /\ ~routes[n].matched =>
    row[n].status \in Left /\ ~Open(n)

Undecided(n) ==
  row[n].status = "pending" /\ row[Source(n)].status = "succeeded" /\ routes[n] = None

(* After the pass over routes, what waits for a decision has it.           *)
RoutesDecided ==
  \A n \in DOMAIN routes : Undecided(n) =>
    \/ pc \notin {"routes", "join", "settle", "dispatch"}
    \/ pc = "routes" /\ n \in todo

Going(n) == row[n].status \in {"running", "succeeded"} \/ (pc = "dispatch" /\ n \in todo)

(* A node behind a required source does not start without its decision.    *)
GoingIsDecided ==
  \A n \in DOMAIN routes :
    Going(n) /\ Undisturbed(n) /\ Decl(Source(n)).required => routes[n] # None

GInv == SourceAgrees /\ UnselectedStays /\ RoutesDecided /\ GoingIsDecided

LEMMA SourceBehind ==
  ASSUME CInv, JInv, NEW n \in DOMAIN routes
  PROVE  n \in Node /\ Source(n) \in Node /\ Source(n) \in Ancestors(flow, n)
<1>1. n \in Node /\ Decl(n).route # None
  BY DEF CInv, ControlShape, JInv, EdgesShape
<1>2. Source(n) \in Ancestors(flow, n)
  BY <1>1, AcceptedMeans DEF CInv, ControlShape, Source
<1> QED BY <1>1, <1>2, FlowFacts

(* Steps that make no decision and take none back.                         *)
LEMMA GStep ==
  ASSUME CInv, JInv, GInv, UNCHANGED <<flow, routes>>,
         DOMAIN joins' = DOMAIN joins, DOMAIN repairs' = DOMAIN repairs,
         \A p \in Node :
           row[p].status \in {"succeeded", "failed"} /\ ~Open(p) /\ ~Repaired(p) =>
             /\ row'[p].status \in {"succeeded", "failed"} /\ ~(Open(p))'
             /\ art'[p] = art[p] \/ art'[p].attempt = 0,
         \A n \in Node \ DOMAIN repairs :
           row[n].status \in Left /\ ~Open(n) => row'[n].status \in Left /\ ~(Open(n))',
         \A n \in DOMAIN routes : (Undecided(n))' =>
           \/ pc' \notin {"routes", "join", "settle", "dispatch"}
           \/ pc' = "routes" /\ n \in todo'
           \/ /\ Undecided(n) /\ pc \in {"routes", "join", "settle", "dispatch"}
              /\ ~(pc = "routes" /\ n \in todo),
         \A n \in DOMAIN routes :
           (Going(n))' /\ Undisturbed(n) /\ Decl(Source(n)).required =>
             Going(n) \/ routes[n] # None
  PROVE  GInv'
<1>1. /\ Node' = Node
      /\ \A n : /\ (Undisturbed(n))' <=> Undisturbed(n)
                /\ (Source(n))' = Source(n)
      /\ \A n, p : (Tied(n, p))' <=> Tied(n, p)
  BY UndisturbedStays DEF Node, Source, Decl, Tied, Repaired
<1>2. SourceAgrees'
  <2>1. ASSUME NEW n \in DOMAIN routes, routes[n] # None, Tied(n, Source(n)),
               NEW p, p = Source(n)
        PROVE  /\ row'[p].status \in {"succeeded", "failed"}
               /\ ~(Open(p))'
               /\ art'[p].attempt # 0 => routes[n] = (Decision(p))'
    <3>1. p \in Node /\ ~Repaired(p)
      BY <2>1, SourceBehind DEF Tied
    <3>2. /\ row[p].status \in {"succeeded", "failed"} /\ ~Open(p)
          /\ art[p].attempt # 0 => routes[n] = Decision(p)
      BY <2>1 DEF GInv, SourceAgrees
    <3>3. /\ row'[p].status \in {"succeeded", "failed"} /\ ~(Open(p))'
          /\ art'[p] = art[p] \/ art'[p].attempt = 0
      BY <3>1, <3>2
    <3>4. art'[p] = art[p] => (Decision(p))' = Decision(p)
      BY DEF Decision, Matches
    <3> QED BY <3>2, <3>3, <3>4
  <2> QED BY <1>1, <2>1 DEF SourceAgrees
<1>3. UnselectedStays'
  BY SourceBehind DEF GInv, UnselectedStays
<1>4. RoutesDecided'
  BY DEF GInv, RoutesDecided
<1>5. GoingIsDecided'
  BY <1>1 DEF GInv, GoingIsDecided, Decl
<1> QED BY <1>2, <1>3, <1>4, <1>5 DEF GInv

(* A step changes one node, and its place makes no decision late.          *)
LEMMA GOne ==
  ASSUME CInv, JInv, GInv, NEW n \in Node, UNCHANGED <<flow, routes>>,
         DOMAIN joins' = DOMAIN joins, DOMAIN repairs' = DOMAIN repairs,
         \A m \in Node \ {n} : row'[m] = row[m] /\ art'[m] = art[m],
         row[n].status \in {"succeeded", "failed"} /\ ~Open(n) =>
           /\ row'[n].status \in {"succeeded", "failed"}
           /\ art'[n] = art[n] \/ art'[n].attempt = 0,
         row[n].status \in Left /\ ~Open(n) => row'[n].status \in Left,
         row'[n].status \in {"running", "succeeded"} =>
           row[n].status \in {"running", "succeeded"} \/ (pc = "dispatch" /\ n \in todo),
         pc' = "failed" => row[n].status = "running" /\ todo' = {n},
         pc' = "dispatch" => pc = "dispatch" /\ todo' \subseteq todo,
         \/ pc' \notin {"routes", "join", "settle", "dispatch"}
         \/ pc' = pc /\ todo' = todo \ {n} /\ row'[n].status \notin {"pending", "succeeded"}
         \/ pc' = pc /\ pc # "routes" /\ row'[n].status \notin {"pending", "succeeded"}
  PROVE  GInv'
<1>1. \A p \in Node :
        row[p].status \in {"succeeded", "failed"} /\ ~Open(p) /\ ~Repaired(p) =>
          /\ row'[p].status \in {"succeeded", "failed"} /\ ~(Open(p))'
          /\ art'[p] = art[p] \/ art'[p].attempt = 0
  BY DEF Open
<1>2. \A m \in Node \ DOMAIN repairs :
        row[m].status \in Left /\ ~Open(m) => row'[m].status \in Left /\ ~(Open(m))'
  BY DEF Open, Left
<1>3. ASSUME NEW m \in DOMAIN routes, (Undecided(m))'
      PROVE  \/ pc' \notin {"routes", "join", "settle", "dispatch"}
             \/ pc' = "routes" /\ m \in todo'
             \/ /\ Undecided(m) /\ pc \in {"routes", "join", "settle", "dispatch"}
                /\ ~(pc = "routes" /\ m \in todo)
  <2>1. m \in Node /\ Source(m) \in Node /\ (Source(m))' = Source(m)
    BY SourceBehind DEF Source, Decl
  <2>2. row'[m].status = "pending" /\ row'[Source(m)].status = "succeeded"
        /\ routes[m] = None
    BY <1>3, <2>1 DEF Undecided
  <2>3. CASE pc' \in {"routes", "join", "settle", "dispatch"}
    <3>1. m # n /\ Source(m) # n
      BY <2>2, <2>3
    <3>2. Undecided(m)
      BY <2>1, <2>2, <3>1 DEF Undecided
    <3> QED BY <2>3, <3>1, <3>2
  <2> QED BY <2>3
<1>4. \A m \in DOMAIN routes : (Going(m))' => Going(m)
  BY SourceBehind DEF Going
<1> QED BY <1>1, <1>2, <1>3, <1>4, GStep

LEMMA GSettles ==
  ASSUME CInv, JInv, GInv, NEW n \in Node,
         Block(n) \/ Skip(n) \/ Refuse(n) \/ Invalidate(n) \/ GiveUp(n)
  PROVE  GInv'
<1>1. PICK s \in {"failed", "blocked", "skipped"} :
        SetStatus(n, s) /\ (pc = "check" => s = "failed")
  BY SettlesAre
<1>2. /\ n \in todo /\ todo' = todo \ {n}
      /\ UNCHANGED <<flow, art, routes, repairs, joins, pc>>
      /\ \/ pc \in {"settle", "dispatch", "budget"} /\ row[n].status = "pending"
         \/ pc = "check" /\ n \in Owing
  BY SettlesAre
<1>3. row'[n].status = s /\ \A m \in Node \ {n} : row'[m] = row[m]
  BY <1>1, SetStatusIs DEF CInv
<1> QED BY <1>1, <1>2, <1>3, GOne DEF Left, Owing

LEMMA GAttempts ==
  ASSUME CInv, JInv, GInv, NEW n \in Node, Start(n) \/ Pop(n) \/ Timeout(n) PROVE GInv'
<1>1. CASE Start(n)
  <2>1. /\ pc = "dispatch" /\ n \in todo /\ todo' \subseteq todo \ {n}
        /\ row'[n].status = "running"
        /\ \A m \in Node \ {n} : row'[m] = row[m]
        /\ UNCHANGED <<flow, art, routes, repairs, joins, pc>>
    BY <1>1, StartIs DEF CInv
  <2>2. row[n].status = "pending"
    BY <2>1 DEF CInv, PassOrderly
  <2> QED BY <2>1, <2>2, GOne DEF Left
<1>2. CASE Succeed(n)
  <2>1. /\ pc' = "expire" /\ row[n].status = "running"
        /\ \A m \in Node \ {n} : row'[m] = row[m] /\ art'[m] = art[m]
        /\ UNCHANGED <<flow, routes, repairs, joins>>
    BY <1>2, SucceedIs DEF CInv
  <2> QED BY <2>1, GOne DEF Left
<1>3. ASSUME NEW ail, FinishAttempt(n, ail) PROVE GInv'
  <2>1. /\ row[n].status = "running" /\ pc' = "failed" /\ todo' = {n}
        /\ row'[n].status = "failed" /\ \A m \in Node \ {n} : row'[m] = row[m]
        /\ UNCHANGED <<flow, art, routes, repairs, joins>>
    BY <1>3, FinishIs DEF CInv
  <2> QED BY <2>1, GOne DEF Left
<1>4. CASE Fail(n) \/ Timeout(n)
  BY <1>3, <1>4 DEF Fail, Timeout
<1>5. CASE Outlived(n)
  <2>1. UNCHANGED <<flow, row, art, routes, repairs, joins>> /\ pc' = "expire"
        /\ row[n].status # "running"
    BY <1>5 DEF Outlived, store
  <2> QED BY <2>1, GOne
<1> QED BY <1>1, <1>2, <1>4, <1>5 DEF Pop

(* A repair reopens its integration and producers that were accepted.      *)
LEMMA GRouteRepair ==
  ASSUME CInv, JInv, GInv, NEW n \in Node, n \in DOMAIN repairs,
         NEW i \in DOMAIN repairs[n], Repairable(n, i), RouteRepair(n, i),
         flow' = flow, pc' \in {"repair", "expire"}
  PROVE  GInv'
<1>1. PICK reopened : reopened = {n} \cup TargetNodes(Decl(n).repair[i])
  OBVIOUS
<1>2. /\ \A m \in Node \ reopened : row'[m] = row[m] /\ art'[m] = art[m]
      /\ \A m \in Node \cap reopened : row'[m].status = "pending"
      /\ UNCHANGED <<routes, joins>> /\ DOMAIN repairs' = DOMAIN repairs
  BY <1>1, RouteRepairIs DEF CInv
<1>3. \A m \in Node \cap reopened : Repaired(m)
  BY <1>1 DEF JInv, EdgesShape, Repaired
<1>4. \A m \in (Node \cap reopened) \ {n} : row[m].status = "succeeded"
  BY <1>1 DEF Repairable
<1>5. \A p \in Node :
        row[p].status \in {"succeeded", "failed"} /\ ~Open(p) /\ ~Repaired(p) =>
          /\ row'[p].status \in {"succeeded", "failed"} /\ ~(Open(p))'
          /\ art'[p] = art[p] \/ art'[p].attempt = 0
  BY <1>2, <1>3 DEF Open
<1>6. \A m \in Node \ DOMAIN repairs :
        row[m].status \in Left /\ ~Open(m) => row'[m].status \in Left /\ ~(Open(m))'
  BY <1>2, <1>4 DEF Open, Left
<1>7. \A m \in DOMAIN routes : (Going(m))' => Going(m)
  <2>1. \A m \in DOMAIN routes : m \in Node
    BY SourceBehind
  <2> QED BY <1>2, <2>1 DEF Going
<1> QED BY <1>2, <1>5, <1>6, <1>7, GStep

LEMMA GRepairs ==
  ASSUME CInv, JInv, GInv, NEW n \in Node, Repair(n) \/ Finalize(n) PROVE GInv'
<1>1. CASE Repair(n)
  <2>1. /\ pc = "repair" /\ todo # {} /\ n = Least(todo) /\ todo' = todo \ {n}
        /\ TryRepair(n) /\ UNCHANGED Local
    BY <1>1 DEF Repair, Visit
  <2>2. n \in DOMAIN repairs
    BY <2>1, VisitIsDue DEF CInv, JInv, PassCurrent
  <2>3. CASE UNCHANGED store
    BY <2>1, <2>3, GOne DEF store, Local
  <2>4. CASE \E i \in DOMAIN repairs[n] : Repairable(n, i) /\ RouteRepair(n, i)
    BY <2>1, <2>2, <2>4, GRouteRepair DEF Local
  <2> QED BY <2>1, <2>3, <2>4 DEF TryRepair
<1>2. CASE Finalize(n)
  <2>1. /\ pc = "failed" /\ pc' = "expire" /\ todo = {n} /\ todo' = {}
        /\ row[n].status = "failed" /\ UNCHANGED <<flow, active>>
    BY <1>2, FinalizeIs
  <2>2. CASE UNCHANGED store
    BY <2>1, <2>2, GOne DEF store
  <2>3. CASE n \in DOMAIN repairs /\ TryRepair(n)
    <3>1. CASE \E i \in DOMAIN repairs[n] : Repairable(n, i) /\ RouteRepair(n, i)
      BY <2>1, <2>3, <3>1, GRouteRepair
    <3> QED BY <2>2, <2>3, <3>1 DEF TryRepair
  <2>4. ASSUME NEW s \in {"pending", "failed", "optional_failed"}, SetStatus(n, s),
               UNCHANGED <<run, art, loops, routes, repairs, joins>>
        PROVE  GInv'
    <3>1. row'[n].status = s /\ \A m \in Node \ {n} : row'[m] = row[m]
      BY <2>4, SetStatusIs DEF CInv
    <3>2. Open(n)
      BY <2>1 DEF Open
    <3> QED BY <2>1, <2>4, <3>1, <3>2, GOne DEF Left
  <2>5. CASE n \notin DOMAIN repairs
    <3>1. \/ UNCHANGED store
          \/ \E s \in {"pending", "failed", "optional_failed"} :
               /\ SetStatus(n, s)
               /\ UNCHANGED <<run, art, loops, routes, repairs, joins>>
      BY <1>2, <2>5, FinalizeIs
    <3> QED BY <2>2, <2>4, <3>1
  <2>6. CASE n \in DOMAIN repairs
    BY <1>2, <2>2, <2>3, <2>6 DEF Finalize
  <2> QED BY <2>5, <2>6
<1> QED BY <1>1, <1>2

LEMMA GRecover == ASSUME CInv, JInv, GInv, Recover PROVE GInv'
<1>1. /\ pc' = "recovered"
      /\ \A m \in Node : IF row[m].status = "running"
                         THEN row'[m].status = "pending" ELSE row'[m] = row[m]
      /\ UNCHANGED <<flow, art, routes, repairs, joins, todo>>
  BY RecoverIs DEF CInv
<1>2. \A m \in DOMAIN routes : (Going(m))' => Going(m)
  <2>1. \A m \in DOMAIN routes : m \in Node
    BY SourceBehind
  <2> QED BY <1>1, <2>1 DEF Going
<1> QED BY <1>1, <1>2, GStep DEF Open, Left

(* Steps that change no row: what they begin, the decisions allow.         *)
LEMMA GTurn ==
  ASSUME CInv, JInv, GInv, UNCHANGED <<flow, row, art, routes>>,
         DOMAIN joins' = DOMAIN joins, DOMAIN repairs' = DOMAIN repairs,
         pc' = "failed" => UNCHANGED <<pc, todo>>,
         \/ pc' \notin {"routes", "join", "settle", "dispatch"}
         \/ pc' = "routes" /\ \A n \in DOMAIN routes : Undecided(n) => n \in todo'
         \/ UNCHANGED <<pc, todo>>
         \/ pc \in {"routes", "join", "settle"} /\ (pc = "routes" => todo = {}),
         \A n \in DOMAIN routes :
           (Going(n))' /\ Undisturbed(n) /\ Decl(Source(n)).required =>
             Going(n) \/ routes[n] # None
  PROVE  GInv'
<1>1. \A n : (Undecided(n))' <=> Undecided(n)
  BY DEF Undecided, Source, Decl
<1>2. \A p \in Node : ~Open(p) => ~(Open(p))'
  BY DEF Open
<1>3. \A n \in DOMAIN routes : (Undecided(n))' =>
        \/ pc' \notin {"routes", "join", "settle", "dispatch"}
        \/ pc' = "routes" /\ n \in todo'
        \/ /\ Undecided(n) /\ pc \in {"routes", "join", "settle", "dispatch"}
           /\ ~(pc = "routes" /\ n \in todo)
  BY <1>1
<1> QED BY <1>2, <1>3, GStep

LEMMA GTurns ==
  ASSUME CInv, JInv, GInv, FInv',
         \/ NextPass \/ Expired \/ Again \/ GivenUp \/ Recovered \/ Call
         \/ NoneDone \/ Conclude \/ Check \/ Checked \/ Exhaust \/ Raise \/ Crash
         \/ \E n \in Node : Join(n) \/ Fetch(n) \/ Expire(n)
  PROVE  GInv'
<1>1. CASE NextPass
  <2>1. /\ pc \in Passes /\ pc' = After(pc) /\ UNCHANGED <<store, flow>>
        /\ todo' = Visits(After(pc), IF After(pc) = "settle" THEN rows ELSE Fresh)
        /\ todo = {} \/ pc = "dispatch"
    BY <1>1 DEF NextPass, Begin
  <2>2. pc' # "failed"
    BY <2>1 DEF After, Passes
  <2>3. \/ pc' \notin {"routes", "join", "settle", "dispatch"}
        \/ pc' = "routes" /\ todo' = ToRoute(Fresh)
        \/ pc \in {"routes", "join", "settle"} /\ (pc = "routes" => todo = {})
    BY <2>1 DEF After, Passes, Visits
  <2>4. \A n \in DOMAIN routes : Undecided(n) => n \in ToRoute(Fresh)
    BY SourceBehind DEF Undecided, ToRoute, Fresh, Source
  <2>5. ASSUME NEW n \in DOMAIN routes, (Going(n))', Undisturbed(n),
               Decl(Source(n)).required, ~Going(n)
        PROVE  routes[n] # None
    <3>1. n \in Node /\ Source(n) \in Node /\ Source(n) \in Ancestors(flow, n)
      BY SourceBehind
    <3>2. pc' = "dispatch" /\ n \in todo'
      BY <2>1, <2>5 DEF Going, store
    <3>3. pc = "settle" /\ n \in Ready(Fresh)
      BY <2>1, <3>2 DEF After, Passes, Visits
    <3>4. row[n].status = "pending"
      BY <3>1, <3>3 DEF Ready, Fresh
    <3>5. (Based(n))' /\ (Undisturbed(n))' /\ Node' = Node
      BY <2>1, <2>5, <3>2, UndisturbedStays DEF Based, store, Node
    <3>6. PICK p \in Ancestors(flow, n) : p = Source(n)
      BY <3>1
    <3>7. (Quiet(p))'
      BY <2>1, <3>1, <3>5, <3>6 DEF FInv, BasedOnQuiet
    <3>8. row[Source(n)].status = "succeeded"
      BY <2>1, <2>5, <3>6, <3>7 DEF Quiet, store, Decl
    <3> QED BY <3>3, <3>4, <3>8 DEF GInv, RoutesDecided, Undecided
  <2> QED BY <2>1, <2>2, <2>3, <2>4, <2>5, GTurn DEF store
<1>2. CASE Expired \/ Again \/ GivenUp \/ Recovered \/ Call
  <2>1. UNCHANGED <<store, flow>> /\ pc' \in {"reloop", "reduce", "repair", "recover"}
    BY <1>2 DEF Expired, Again, GivenUp, Recovered, Call, Begin
  <2> QED BY <2>1, GTurn DEF store, Going
<1>3. CASE NoneDone \/ Check \/ Exhaust
  <2>1. UNCHANGED <<store, flow>> /\ pc' \in {"expire", "check", "budget"}
    BY <1>3 DEF NoneDone, Check, Exhaust
  <2> QED BY <2>1, GTurn DEF store, Going
<1>4. CASE Conclude \/ Checked \/ Raise \/ Crash
  <2>1. UNCHANGED <<flow, row, art, routes, repairs, joins>> /\ pc' = "down"
    BY <1>4 DEF Conclude, Checked, Raise, Crash, FinishRun, Stop, store
  <2> QED BY <2>1, GTurn DEF Going
<1>5. ASSUME NEW m \in Node, Join(m) PROVE GInv'
  <2>1. /\ pc = "join" /\ pc' = "join"
        /\ UNCHANGED <<flow, row, art, routes, repairs>>
        /\ DOMAIN joins' = DOMAIN joins
    BY <1>5 DEF Join, Local
  <2> QED BY <2>1, GTurn DEF Going
<1>6. ASSUME NEW n \in Node, Fetch(n) \/ Expire(n) PROVE GInv'
  <2>1. UNCHANGED <<flow, row, art, routes, repairs, joins, pc, todo>>
    BY <1>6 DEF Fetch, Expire, store
  <2> QED BY <2>1, GTurn DEF Going
<1> QED BY <1>1, <1>2, <1>3, <1>4, <1>5, <1>6

LEMMA GRoute == ASSUME CInv, JInv, GInv, NEW n \in Node, Route(n) PROVE GInv'
<1>1. PICK p : p = Source(n)
  OBVIOUS
<1>2. /\ pc \in {"routes", "reroute"} /\ n \in todo /\ todo' = todo \ {n}
      /\ UNCHANGED Local
      /\ n \in DOMAIN routes /\ row[n].status = "pending"
      /\ row[p].status = "succeeded"
  BY <1>1, RouteIs DEF Source
<1>3. UNCHANGED <<flow, pc>> /\ p \in Node /\ p # n
  BY <1>1, <1>2, SourceBehind DEF Local
<1>4. CASE FailClosed(n)
  <2>1. SetStatus(n, "failed") /\ UNCHANGED <<art, routes, repairs, joins>>
    BY <1>4 DEF FailClosed
  <2>2. row'[n].status = "failed" /\ \A m \in Node \ {n} : row'[m] = row[m]
    BY <2>1, SetStatusIs DEF CInv
  <2> QED BY <1>2, <1>3, <2>1, <2>2, GOne DEF Left
<1>5. CASE Evaluable(p) /\ ~FailClosed(n)
  <2>1. Decision(p) # None
    <3>1. PICK v \in {"yes", "no"} : v = art[p].value
      BY <1>5 DEF Evaluable
    <3>2. PICK b \in BOOLEAN : b = (v = "yes")
      OBVIOUS
    <3>3. Decision(p) = [digest |-> v, matched |-> b]
      BY <3>1, <3>2 DEF Decision, Matches
    <3> QED BY <3>3, ControlAssumption
  <2>2. \/ UNCHANGED store /\ routes[n] = Decision(p)
        \/ /\ routes[n] = None /\ routes' = [routes EXCEPT ![n] = Decision(p)]
           /\ SetStatus(n, IF Matches(p) THEN "pending" ELSE "skipped")
           /\ UNCHANGED <<run, art, loops, repairs, joins>>
    BY <1>1, <1>5 DEF Route, Source, Decision
  <2>3. CASE UNCHANGED store /\ routes[n] = Decision(p)
    <3>1. \A m \in DOMAIN routes : Undecided(m) /\ m \in todo => m \in todo'
      BY <1>2, <2>1, <2>3 DEF Undecided
    <3>2. /\ UNCHANGED <<flow, row, art, routes, repairs, joins, pc>>
          /\ \A m : (Undecided(m))' <=> Undecided(m)
      BY <1>3, <2>3 DEF store, Undecided, Source, Decl
    <3>3. pc = "routes" => \A m \in DOMAIN routes : Undecided(m) => m \in todo'
      BY <3>1 DEF GInv, RoutesDecided
    <3>4. \A m \in DOMAIN routes : (Going(m))' => Going(m)
      BY <1>2, <3>2 DEF Going
    <3> QED BY <1>2, <3>2, <3>3, <3>4, GTurn
  <2>4. CASE /\ routes[n] = None /\ routes' = [routes EXCEPT ![n] = Decision(p)]
             /\ SetStatus(n, IF Matches(p) THEN "pending" ELSE "skipped")
             /\ UNCHANGED <<run, art, loops, repairs, joins>>
    <3>1. /\ row'[n].status = IF Matches(p) THEN "pending" ELSE "skipped"
          /\ \A m \in Node \ {n} : row'[m] = row[m]
      BY <2>4, SetStatusIs DEF CInv
    <3>2. /\ DOMAIN routes' = DOMAIN routes /\ routes'[n] = Decision(p)
          /\ \A m \in DOMAIN routes \ {n} : routes'[m] = routes[m]
      BY <1>2, <2>4
    <3>3. /\ Node' = Node
          /\ \A m : (Undisturbed(m))' <=> Undisturbed(m)
          /\ \A m : (Source(m))' = Source(m)
          /\ \A m, q : (Tied(m, q))' <=> Tied(m, q)
          /\ \A q : (Decision(q))' = Decision(q)
      BY <1>3, <2>4, UndisturbedStays
         DEF Node, Source, Decl, Tied, Repaired, Decision, Matches
    <3>4. \A m \in DOMAIN routes : m \in Node /\ Source(m) \in Node
      BY SourceBehind
    <3>5. SourceAgrees'
      <4>1. ASSUME NEW m \in DOMAIN routes, routes'[m] # None, Tied(m, Source(m)),
                   NEW q, q = Source(m)
            PROVE  /\ row'[q].status \in {"succeeded", "failed"} /\ ~(Open(q))'
                   /\ art'[q].attempt # 0 => routes'[m] = Decision(q)
        <5>1. ~(Open(q))'
          BY <1>2, <1>3 DEF Open
        <5>2. CASE m = n
          BY <1>1, <1>2, <1>3, <3>1, <3>2, <4>1, <5>1, <5>2
        <5>3. CASE m # n
          <6>1. /\ row[q].status \in {"succeeded", "failed"}
                /\ art[q].attempt # 0 => routes[m] = Decision(q)
            BY <3>2, <4>1, <5>3 DEF GInv, SourceAgrees
          <6>2. q # n /\ q \in Node
            BY <1>2, <3>4, <4>1, <6>1
          <6> QED BY <2>4, <3>1, <3>2, <5>1, <5>3, <6>1, <6>2
        <5> QED BY <5>2, <5>3
      <4> QED BY <3>2, <3>3, <4>1 DEF SourceAgrees
    <3>6. UnselectedStays'
      <4>1. \A m : ~(Open(m))'
        BY <1>2, <1>3 DEF Open
      <4>2. routes'[n].matched = Matches(p)
        BY <3>2 DEF Decision
      <4>3. ASSUME NEW m \in DOMAIN routes' \ DOMAIN repairs', routes'[m] # None,
                   ~routes'[m].matched
            PROVE  row'[m].status \in Left /\ ~(Open(m))'
        <5>1. CASE m = n
          BY <3>1, <4>1, <4>2, <4>3, <5>1 DEF Left
        <5>2. CASE m # n
          BY <2>4, <3>1, <3>2, <3>4, <4>1, <4>3, <5>2 DEF GInv, UnselectedStays
        <5> QED BY <5>1, <5>2
      <4> QED BY <4>3 DEF UnselectedStays
    <3>7. RoutesDecided'
      <4>1. ASSUME NEW m \in DOMAIN routes, (Undecided(m))', pc = "routes"
            PROVE  m \in todo'
        <5>1. m # n
          BY <2>1, <3>2, <4>1 DEF Undecided
        <5>2. /\ row[m].status = "pending" /\ routes[m] = None
              /\ row'[Source(m)].status = "succeeded"
          BY <3>1, <3>2, <3>3, <3>4, <4>1, <5>1 DEF Undecided
        <5>3. row[Source(m)].status = "succeeded"
          BY <3>1, <3>4, <5>2
        <5> QED BY <1>2, <4>1, <5>1, <5>2, <5>3 DEF GInv, RoutesDecided, Undecided
      <4> QED BY <1>2, <1>3, <3>2, <4>1 DEF RoutesDecided
    <3>8. GoingIsDecided'
      <4>1. ASSUME NEW m \in DOMAIN routes, (Going(m))', Undisturbed(m),
                   Decl(Source(m)).required
            PROVE  routes'[m] # None
        <5>1. CASE m = n
          BY <2>1, <3>2, <5>1
        <5>2. CASE m # n
          <6>1. Going(m)
            BY <1>2, <1>3, <3>1, <3>4, <4>1, <5>2 DEF Going
          <6> QED BY <3>2, <4>1, <5>2, <6>1 DEF GInv, GoingIsDecided
        <5> QED BY <5>1, <5>2
      <4>2. \A m : (Decl(m))' = Decl(m)
        BY <1>3 DEF Decl
      <4> QED BY <3>2, <3>3, <4>1, <4>2 DEF GoingIsDecided
    <3> QED BY <3>5, <3>6, <3>7, <3>8 DEF GInv
  <2> QED BY <2>2, <2>3, <2>4
<1>6. CASE ~Evaluable(p)
  BY <1>1, <1>4, <1>6 DEF Route, Source
<1> QED BY <1>4, <1>5, <1>6

(* A loop takes the decisions about its region back with it.               *)
LEMMA GLoop == ASSUME CInv, JInv, GInv, NEW n \in Node, Loop(n) PROVE GInv'
<1>1. /\ pc \in {"loops", "reloop"} /\ n \in todo /\ todo' = todo \ {n}
      /\ n \in Kept(flow) /\ UNCHANGED Local
  BY LoopIs
<1>2. UNCHANGED <<flow, pc>> /\ ~Open(n)
  BY <1>1 DEF Local, Open
<1>3. CASE UNCHANGED store
  BY <1>1, <1>2, <1>3, GOne DEF store
<1>4. CASE FailClosed(n) /\ (row[n].status = "pending" \/ Due(n))
  <2>1. SetStatus(n, "failed") /\ UNCHANGED <<art, routes, repairs, joins>>
    BY <1>4 DEF FailClosed
  <2>2. row'[n].status = "failed" /\ \A m \in Node \ {n} : row'[m] = row[m]
    BY <2>1, SetStatusIs DEF CInv
  <2> QED BY <1>1, <1>2, <2>1, <2>2, GOne DEF Left
<1>5. CASE Due(n) /\ UNCHANGED <<run, row, art, routes, repairs, joins>>
  BY <1>1, <1>2, <1>5, GOne DEF Due
<1>6. CASE Due(n) /\ Exhausted(n)
  <2>1. /\ \A m \in Node \ {n} : row'[m] = row[m] /\ art'[m] = art[m]
        /\ row'[n].status = "failed" /\ art'[n] = Unmade
        /\ UNCHANGED <<routes, repairs, joins>>
    BY <1>6, ExhaustedIs DEF CInv, Due
  <2> QED BY <1>1, <1>2, <2>1, GOne DEF Left, Unmade
<1>7. CASE Continued(n)
  <2>1. PICK region : region = LoopRegion(flow, n)
    OBVIOUS
  <2>2. /\ \A m \in Node \ region : row'[m] = row[m] /\ art'[m] = art[m]
        /\ \A m \in Node \cap region : row'[m].status = "pending"
        /\ DOMAIN routes' = DOMAIN routes
        /\ \A m \in DOMAIN routes : IF m \in region THEN routes'[m] = None
                                    ELSE routes'[m] = routes[m]
        /\ UNCHANGED <<repairs, joins>>
    BY <1>1, <1>7, <2>1, ContinuedIs DEF CInv
  <2>3. /\ Node' = Node
        /\ \A m : (Undisturbed(m))' <=> Undisturbed(m)
        /\ \A m : (Source(m))' = Source(m)
        /\ \A m, q : (Tied(m, q))' <=> Tied(m, q)
        /\ \A m : (Decl(m))' = Decl(m)
    BY <1>2, <2>2, UndisturbedStays DEF Node, Source, Decl, Tied, Repaired
  <2>4. \A m \in DOMAIN routes : m \in Node /\ Source(m) \in Node
    BY SourceBehind
  <2>5. \A m : ~Open(m) /\ ~(Open(m))'
    BY <1>1, <1>2 DEF Open
  <2>6. SourceAgrees'
    <3>1. ASSUME NEW m \in DOMAIN routes, routes'[m] # None, Tied(m, Source(m)),
                 NEW q, q = Source(m)
          PROVE  /\ row'[q].status \in {"succeeded", "failed"} /\ ~(Open(q))'
                 /\ art'[q].attempt # 0 => routes'[m] = (Decision(q))'
      <4>1. m \notin region /\ routes'[m] = routes[m]
        BY <2>2, <3>1
      <4>2. q \in Node \ region
        BY <1>1, <2>1, <2>4, <3>1, <4>1 DEF Tied
      <4>3. /\ row[q].status \in {"succeeded", "failed"}
            /\ art[q].attempt # 0 => routes[m] = Decision(q)
        BY <3>1, <4>1 DEF GInv, SourceAgrees
      <4>4. row'[q] = row[q] /\ art'[q] = art[q]
        BY <2>2, <4>2
      <4>5. (Decision(q))' = Decision(q)
        BY <4>4 DEF Decision, Matches
      <4> QED BY <2>5, <4>1, <4>3, <4>4, <4>5
    <3> QED BY <2>2, <2>3, <3>1 DEF SourceAgrees
  <2>7. UnselectedStays'
    <3>1. ASSUME NEW m \in DOMAIN routes \ DOMAIN repairs, routes'[m] # None,
                 ~routes'[m].matched
          PROVE  row'[m].status \in Left
      <4>1. m \in Node \ region /\ routes'[m] = routes[m]
        BY <2>2, <2>4, <3>1
      <4> QED BY <2>2, <3>1, <4>1 DEF GInv, UnselectedStays
    <3> QED BY <2>2, <2>5, <3>1 DEF UnselectedStays
  <2>8. RoutesDecided'
    BY <1>1, <1>2 DEF RoutesDecided
  <2>9. GoingIsDecided'
    <3>1. ASSUME NEW m \in DOMAIN routes, (Going(m))', Undisturbed(m),
                 Decl(Source(m)).required
          PROVE  routes'[m] # None
      <4>1. m \in Node \ region
        BY <1>1, <1>2, <2>2, <2>4, <3>1 DEF Going
      <4>2. Going(m)
        BY <1>1, <1>2, <2>2, <3>1, <4>1 DEF Going
      <4> QED BY <2>2, <3>1, <4>1, <4>2 DEF GInv, GoingIsDecided
    <3> QED BY <2>2, <2>3, <3>1 DEF GoingIsDecided
  <2> QED BY <2>6, <2>7, <2>8, <2>9 DEF GInv
<1> QED BY <1>3, <1>4, <1>5, <1>6, <1>7, LoopIs

LEMMA GNext == CInv /\ JInv /\ GInv /\ FInv' /\ [Next]_vars => GInv'
<1> SUFFICES ASSUME CInv, JInv, GInv, FInv', [Next]_vars PROVE GInv'
  OBVIOUS
<1>1. ASSUME NEW n \in Node,
             \/ Repair(n) \/ Loop(n) \/ Route(n) \/ Join(n) \/ Block(n)
             \/ Skip(n) \/ Refuse(n) \/ Start(n) \/ Pop(n) \/ Timeout(n)
             \/ Finalize(n) \/ Invalidate(n) \/ GiveUp(n)
      PROVE  GInv'
  BY <1>1, GRepairs, GLoop, GRoute, GTurns, GSettles, GAttempts
<1>2. CASE UNCHANGED vars
  BY <1>2, GTurn DEF vars, Going
<1> QED BY <1>1, <1>2, GTurns, GRecover DEF Next, Step

LEMMA GInit == Init => GInv
<1> SUFFICES ASSUME Init PROVE GInv
  OBVIOUS
<1>1. \A n \in Node : row[n].status = "pending"
  BY DEF Init
<1>2. /\ DOMAIN routes \subseteq Node /\ \A n \in DOMAIN routes : routes[n] = None
      /\ pc = "down"
  BY DEF Init
<1> QED BY <1>1, <1>2
        DEF GInv, SourceAgrees, UnselectedStays, RoutesDecided, GoingIsDecided, Going

(* RouteFollowsSource, for every set of workflows: the decision about a    *)
(* node agrees with the source artifact that is accepted now, after any    *)
(* loops, crashes and resumes, and a node behind a required source runs    *)
(* only if it was selected (_process_routes, record_route_decision,        *)
(* apply_loop_decision).                                                   *)
THEOREM RoutesFollow == ControlSpec => []RouteFollowsSource
<1>1. CInv /\ JInv /\ GInv => RouteFollowsSource
  <2> SUFFICES ASSUME CInv, JInv, GInv, NEW n \in DOMAIN routes, NEW p, p = Source(n)
               PROVE  /\ routes[n] # None /\ art[p].attempt # 0 /\ Tied(n, p) =>
                           routes[n] = Decision(p)
                      /\ /\ row[n].status \in {"running", "succeeded"}
                         /\ Decl(p).required /\ n \notin DOMAIN repairs
                         /\ Undisturbed(n)
                         => routes[n] # None /\ routes[n].matched
    BY DEF RouteFollowsSource, Source, Decision
  <2>1. routes[n] # None /\ art[p].attempt # 0 /\ Tied(n, p) => routes[n] = Decision(p)
    BY DEF GInv, SourceAgrees
  <2>2. ASSUME row[n].status \in {"running", "succeeded"}, Decl(p).required,
               n \notin DOMAIN repairs, Undisturbed(n)
        PROVE  routes[n] # None /\ routes[n].matched
    <3>1. routes[n] # None
      BY <2>2 DEF GInv, GoingIsDecided, Going
    <3>2. row[n].status \notin Left
      BY <2>2 DEF Left
    <3> QED BY <2>2, <3>1, <3>2 DEF GInv, UnselectedStays
  <2> QED BY <2>1, <2>2
<1>2. (CInv /\ JInv /\ FInv) /\ (CInv /\ JInv /\ FInv)' /\ GInv /\ [Next]_vars => GInv'
  BY GNext
<1> QED BY <1>1, <1>2, ControlAlways, GInit, PTL DEF ControlSpec

-----------------------------------------------------------------------------
(* Why a run fails.                                                        *)

(* What succeeded is accepted, what runs is an attempt, and the inputs of  *)
(* a node were there when its worker read them.                            *)
Made == \A n \in Node : /\ row[n].status = "succeeded" => art[n].attempt # 0
                        /\ row[n].status = "running" => row[n].count > 0

Informed ==
  \A n \in DOMAIN active :
    row[n].status = "running" /\ Undisturbed(n) => ~active[n].missing

Sound == Orderly /\ InTurn /\ ~flow.lifecycle

NoCause == blame \ {"interrupted", "input"} = {} /\ BudgetLeft

Well == {"pending", "running", "succeeded"}

(* As long as nothing has given the run a cause, no node is lost.          *)
NoneLost ==
  /\ \A n \in Node : row[n].status \in Well /\ rows[n] \in Well
  /\ \A n \in DOMAIN joins : joins[n] # "failed"
  /\ run # "failed"
  /\ pc \notin {"failed", "budget"}
  /\ pc \in {"settle", "check"} => todo = {}
  /\ pc \in {"loops", "reloop"} => \A n \in todo : row[n].status = "succeeded"

HInv == Made /\ Informed /\ (Sound /\ NoCause => NoneLost)

LEMMA HInit == Init => HInv
<1> SUFFICES ASSUME Init PROVE HInv
  OBVIOUS
<1>1. \A n \in Node : row[n].status = "pending" /\ rows[n] = "pending"
  BY DEF Init
<1>2. DOMAIN active = {} /\ \A n \in DOMAIN joins : joins[n] = "waiting"
  BY DEF Init
<1> QED BY <1>1, <1>2 DEF Init, HInv, Made, Informed, NoneLost, Well

(* A step may only add to what has happened, and an attempt to the count.  *)
LEMMA HStep ==
  ASSUME CInv, HInv, flow' = flow, DOMAIN joins' = DOMAIN joins,
         DOMAIN routes' = DOMAIN routes,
         blame \subseteq blame',
         \/ BudgetLeft
         \/ \A n \in Node : row'[n].count = row[n].count,
         Made', Informed', Sound /\ NoCause' /\ NoneLost => NoneLost'
  PROVE  HInv'
<1>1. Sound' => Sound
  <2>1. Node' = Node /\ \A n : (Undisturbed(n))' <=> Undisturbed(n)
    BY UndisturbedStays DEF Node
  <2>2. \A n, p : (Tied(n, p))' <=> Tied(n, p)
    BY DEF Tied, Repaired, Decl, Node
  <2> QED BY <2>1, <2>2 DEF Sound, Orderly, InTurn, Decl
<1>2. BudgetLeft' => BudgetLeft
  <2>1. CASE \A n \in Node : row'[n].count = row[n].count
    <3>1. /\ Node' = Node
          /\ [n \in Node |-> row'[n].count] = [n \in Node |-> row[n].count]
      BY <2>1 DEF Node
    <3>2. Attempts' = Attempts
      BY <3>1 DEF Attempts
    <3> QED BY <3>2 DEF BudgetLeft
  <2> QED BY <2>1
<1>3. NoCause' => NoCause
  BY <1>2 DEF NoCause
<1> QED BY <1>1, <1>3 DEF HInv

(* Steps that change no row.                                               *)
LEMMA HTurn ==
  ASSUME CInv, HInv, UNCHANGED <<flow, row, art>>, DOMAIN joins' = DOMAIN joins,
         DOMAIN routes' = DOMAIN routes, blame \subseteq blame',
         \A n \in DOMAIN active' :
           \/ n \in DOMAIN active /\ active'[n] = active[n]
           \/ row[n].status = "running" /\ Undisturbed(n) => ~active'[n].missing,
         Sound /\ NoCause' /\ NoneLost => NoneLost'
  PROVE  HInv'
<1>1. Node' = Node /\ \A n : (Undisturbed(n))' <=> Undisturbed(n)
  BY UndisturbedStays DEF Node
<1>2. Made' /\ Informed'
  BY <1>1 DEF HInv, Made, Informed
<1> QED BY <1>2, HStep

(* Steps that change the status of one node.                               *)
LEMMA HOne ==
  ASSUME CInv, JInv, HInv, NEW n \in Node, flow' = flow, DOMAIN joins' = DOMAIN joins,
         DOMAIN routes' = DOMAIN routes, blame \subseteq blame',
         row'[n].count = row[n].count,
         \A m \in Node \ {n} : row'[m] = row[m] /\ art'[m] = art[m],
         row'[n].status # "running",
         row'[n].status = "succeeded" => art'[n].attempt # 0,
         \A m \in DOMAIN active' : m \in DOMAIN active /\ active'[m] = active[m],
         Sound /\ NoCause' /\ NoneLost => NoneLost'
  PROVE  HInv'
<1>1. Node' = Node /\ \A m : (Undisturbed(m))' <=> Undisturbed(m)
  BY UndisturbedStays DEF Node
<1>2. Made'
  BY <1>1 DEF HInv, Made
<1>3. Informed'
  BY <1>1 DEF HInv, Informed, JInv, EdgesShape
<1> QED BY <1>2, <1>3, HStep

(* Beginning a pass.                                                       *)
LEMMA HBegin ==
  ASSUME CInv, JInv, HInv, NEW pass \in Passes \cup {"pop", "reduce"}, Begin(pass),
         UNCHANGED <<store, flow, active, blame>>
  PROVE  HInv'
<1>1. /\ pc' = pass /\ UNCHANGED <<run, row, art, routes, joins>> /\ Node' = Node
      /\ pc' \notin {"failed", "budget", "check"}
  BY DEF Begin, store, Node, Passes
<1>2. ASSUME NoneLost PROVE NoneLost'
  <2>1. \A n \in Node : rows'[n] \in Well
    BY <1>2 DEF Begin, Fresh, NoneLost
  <2>2. pass = "settle" => todo' = {}
    <3>1. pass = "settle" => todo' = ToBlock(rows) \cup ToSkip(rows)
      BY DEF Begin, Visits
    <3>2. \A n \in Node : \A d \in Decl(n).needs : rows[d] \in Well
      BY <1>2, FlowFacts DEF NoneLost
    <3>3. ToBlock(rows) = {} /\ ToSkip(rows) = {}
      BY <1>2, <3>2 DEF ToBlock, ToSkip, Well, Lost, NoneLost
    <3> QED BY <3>1, <3>3
  <2>3. pass \in {"loops", "reloop"} => \A n \in todo' : row[n].status = "succeeded"
    <3>1. pass \in {"loops", "reloop"} => todo' = ToLoop(Fresh)
      BY DEF Begin, Visits
    <3>2. DOMAIN loops \subseteq Node
      BY FlowFacts DEF CInv, ControlShape
    <3>3. \A n \in ToLoop(Fresh) : row[n].status = "succeeded"
      BY <3>2 DEF ToLoop, Fresh
    <3> QED BY <3>1, <3>3
  <2> QED BY <1>1, <1>2, <2>1, <2>2, <2>3 DEF NoneLost
<1> QED BY <1>1, <1>2, HTurn

LEMMA HTurns ==
  ASSUME CInv, JInv, FInv, HInv,
         \/ NextPass \/ Expired \/ Again \/ GivenUp \/ Recovered \/ Call
         \/ NoneDone \/ Raise \/ Crash
         \/ \E n \in Node : Fetch(n) \/ Expire(n) \/ Join(n) \/ Outlived(n)
  PROVE  HInv'
<1>1. CASE NextPass
  <2>1. After(pc) \in Passes \cup {"pop", "reduce"}
    BY <1>1 DEF NextPass, After, Passes
  <2> QED BY <1>1, <2>1, HBegin DEF NextPass
<1>2. CASE Expired \/ Again \/ GivenUp \/ Recovered \/ (Call /\ Begin("repair"))
  <2>1. PICK pass \in {"reloop", "reduce", "repair"} : Begin(pass)
    BY <1>2 DEF Expired, Again, GivenUp, Recovered
  <2>2. UNCHANGED <<store, flow, active, blame>>
    BY <1>2 DEF Expired, Again, GivenUp, Recovered, Call
  <2>3. pass \in Passes \cup {"pop", "reduce"}
    BY DEF Passes
  <2> QED BY <2>1, <2>2, <2>3, HBegin
<1>3. CASE Call /\ pc' = "recover" /\ UNCHANGED <<rows, todo>>
  <2>1. NoneLost => NoneLost'
    BY <1>3 DEF NoneLost, Call, store, Node
  <2> QED BY <1>3, <2>1, HTurn DEF Call, store
<1>4. CASE NoneDone
  <2>1. NoneLost => NoneLost'
    BY <1>4 DEF NoneLost, NoneDone, store, Node
  <2> QED BY <1>4, <2>1, HTurn DEF NoneDone, store
<1>5. CASE Raise \/ Crash
  <2>1. /\ UNCHANGED <<store, flow, blame>> /\ pc' = "down"
        /\ rows' = [n \in Node |-> "pending"] /\ DOMAIN active' = {}
    BY <1>5 DEF Raise, Crash, Stop
  <2>2. NoneLost => NoneLost'
    BY <2>1 DEF NoneLost, store, Node, Well
  <2> QED BY <2>1, <2>2, HTurn DEF store
<1>6. ASSUME NEW n \in Node, Fetch(n) PROVE HInv'
  <2>1. /\ UNCHANGED <<store, flow, pc, rows, todo, blame>>
        /\ active' = [active EXCEPT ![n] =
             [missing |-> \E p \in Feeds(n) : art[p].attempt = 0,
              from    |-> [p \in Feeds(n) |-> art[p].attempt]]]
    BY <1>6 DEF Fetch
  <2>2. ASSUME row[n].status = "running", Undisturbed(n), NEW p \in Feeds(n)
        PROVE  art[p].attempt # 0
    <3>1. p \in Node /\ p \in Ancestors(flow, n) /\ Decl(p).required
      <4>1. InputsOrdered(flow, n)
        BY DEF CInv, ControlShape, Accepted, NodeAccepted, Node
      <4> QED BY <4>1, FlowFacts DEF InputsOrdered, Feeds, Decl
    <3>2. Quiet(p)
      BY <2>2, <3>1 DEF FInv, BasedOnQuiet, Based
    <3> QED BY <3>1, <3>2 DEF Quiet, HInv, Made
  <2>3. PICK r : r = [missing |-> \E p \in Feeds(n) : art[p].attempt = 0,
                      from    |-> [p \in Feeds(n) |-> art[p].attempt]]
    OBVIOUS
  <2>4. row[n].status = "running" /\ Undisturbed(n) => ~r.missing
    BY <2>2, <2>3
  <2>5. \A m \in DOMAIN active' :
          \/ m \in DOMAIN active /\ active'[m] = active[m]
          \/ row[m].status = "running" /\ Undisturbed(m) => ~active'[m].missing
    BY <2>1, <2>3, <2>4
  <2>6. NoneLost => NoneLost'
    BY <2>1 DEF NoneLost, store, Node
  <2> QED BY <2>1, <2>5, <2>6, HTurn DEF store
<1>7. ASSUME NEW n \in Node, Expire(n) PROVE HInv'
  <2>1. NoneLost => NoneLost'
    BY <1>7 DEF NoneLost, Expire, Node
  <2> QED BY <1>7, <2>1, HTurn DEF Expire
<1>8. ASSUME NEW n \in Node, Join(n) PROVE HInv'
  <2>1. /\ UNCHANGED <<run, row, art, routes, flow, pc, rows, active, blame>>
        /\ pc = "join" /\ DOMAIN joins' = DOMAIN joins
        /\ \A m \in DOMAIN joins : joins'[m] = joins[m] \/ joins'[m] = JoinDecision(n, rows)
    BY <1>8 DEF Join, Local
  <2>2. ASSUME NoneLost PROVE JoinDecision(n, rows) # "failed"
    <3>1. \A d \in Decl(n).needs : rows[d] \in Well
      BY <2>2, FlowFacts DEF NoneLost
    <3> QED BY <3>1 DEF JoinDecision, Well, Lost
  <2>3. NoneLost => NoneLost'
    BY <2>1, <2>2 DEF NoneLost, Node
  <2> QED BY <2>1, <2>3, HTurn
<1>9. ASSUME NEW n \in Node, Outlived(n) PROVE HInv'
  <2>1. /\ UNCHANGED <<store, flow, rows, todo, blame>> /\ pc' = "expire"
        /\ active' = [m \in DOMAIN active \ {n} |-> active[m]]
    BY <1>9 DEF Outlived, Popped, Removed
  <2>2. NoneLost => NoneLost'
    BY <2>1 DEF NoneLost, store, Node
  <2> QED BY <2>1, <2>2, HTurn DEF store
<1> QED BY <1>1, <1>2, <1>3, <1>4, <1>5, <1>6, <1>7, <1>8, <1>9 DEF Call

(* Nothing is left to be settled, refused or given up.                     *)
LEMMA HSettles ==
  ASSUME CInv, JInv, HInv, NEW n \in Node,
         Block(n) \/ Skip(n) \/ Refuse(n) \/ Invalidate(n) \/ GiveUp(n)
  PROVE  HInv'
<1>1. PICK s \in {"failed", "blocked", "skipped"} : SetStatus(n, s)
  BY SettlesAre
<1>2. /\ n \in todo
      /\ UNCHANGED <<flow, run, art, loops, routes, repairs, joins, active, pc, rows>>
  BY SettlesAre
<1>3. /\ row'[n].status = s /\ row'[n].count = row[n].count
      /\ \A m \in Node \ {n} : row'[m] = row[m]
  BY <1>1, SetStatusIs DEF CInv
<1>4. blame \subseteq blame'
  BY DEF Block, Skip, Refuse, Invalidate, GiveUp, Blame
<1>5. ~(NoCause' /\ NoneLost)
  <2>1. CASE Refuse(n)
    <3>1. "late" \in blame'
      BY <2>1 DEF Refuse, Blame
    <3> QED BY <3>1 DEF NoCause
  <2>2. CASE ~Refuse(n)
    <3>1. pc \in {"settle", "check", "budget"}
      BY <2>2 DEF Block, Skip, Invalidate, GiveUp
    <3> QED BY <1>2, <3>1 DEF NoneLost
  <2> QED BY <2>1, <2>2
<1> QED BY <1>2, <1>3, <1>4, <1>5, HOne

(* Nothing has failed that could be repaired or retried.                   *)
LEMMA HRepairs ==
  ASSUME CInv, JInv, HInv, NEW n \in Node, Repair(n) \/ Finalize(n) PROVE HInv'
<1>1. /\ UNCHANGED <<flow, active, rows, blame>> /\ pc \in {"repair", "failed"}
      /\ pc = "failed" \/ pc' = pc
  BY DEF Repair, Finalize, Local
<1>2. CASE UNCHANGED store
  <2>1. NoneLost => NoneLost'
    BY <1>1, <1>2 DEF NoneLost, store, Node
  <2> QED BY <1>1, <1>2, <2>1, HTurn DEF store
<1>3. ASSUME NEW i, Repairable(n, i), RouteRepair(n, i) PROVE HInv'
  <2>1. PICK reopened : reopened = {n} \cup TargetNodes(Decl(n).repair[i])
    OBVIOUS
  <2>2. /\ \A m \in Node \ reopened : row'[m] = row[m] /\ art'[m] = art[m]
        /\ \A m \in Node \cap reopened : row'[m].status = "pending"
        /\ \A m \in Node : row'[m].count = row[m].count
        /\ UNCHANGED <<routes, joins>>
    BY <1>3, <2>1, RouteRepairIs DEF CInv
  <2>3. Node' = Node /\ \A m : (Undisturbed(m))' <=> Undisturbed(m)
    BY <1>1, <2>2, UndisturbedStays DEF Node
  <2>4. Made'
    BY <2>2, <2>3 DEF HInv, Made
  <2>5. Informed'
    BY <1>1, <2>2, <2>3 DEF HInv, Informed, JInv, EdgesShape
  <2>6. ~NoneLost
    BY <1>3 DEF Repairable, NoneLost, Well
  <2> QED BY <1>1, <2>2, <2>4, <2>5, <2>6, HStep
<1>4. ASSUME NEW s \in {"pending", "failed", "optional_failed"}, SetStatus(n, s),
             UNCHANGED <<run, art, loops, routes, repairs, joins>>, pc = "failed"
      PROVE  HInv'
  <2>1. /\ row'[n].status = s /\ row'[n].count = row[n].count
        /\ \A m \in Node \ {n} : row'[m] = row[m]
    BY <1>4, SetStatusIs DEF CInv
  <2>2. ~NoneLost
    BY <1>4 DEF NoneLost
  <2> QED BY <1>1, <1>4, <2>1, <2>2, HOne
<1>5. \/ UNCHANGED store
      \/ \E i : Repairable(n, i) /\ RouteRepair(n, i)
      \/ \E s \in {"pending", "failed", "optional_failed"} :
           /\ SetStatus(n, s) /\ pc = "failed"
           /\ UNCHANGED <<run, art, loops, routes, repairs, joins>>
  <2>1. CASE TryRepair(n)
    BY <2>1 DEF TryRepair
  <2>2. CASE Finalize(n) /\ n \notin DOMAIN repairs
    <3>1. PICK s \in {"pending", "failed", "optional_failed"} :
            s = IF RetryAvailable(n) THEN "pending"
                ELSE IF Decl(n).required THEN "failed" ELSE "optional_failed"
      OBVIOUS
    <3> QED BY <2>2, <3>1 DEF Finalize
  <2> QED BY <2>1, <2>2 DEF Repair, Finalize
<1> QED BY <1>2, <1>3, <1>4, <1>5

(* A controller that the pass has yet to visit comes after the one it      *)
(* visits, and so is not reopened by it.                                   *)
LEMMA HLoop == ASSUME CInv, JInv, HInv, NEW n \in Node, Loop(n) PROVE HInv'
<1>1. /\ pc \in {"loops", "reloop"} /\ n \in todo /\ todo' = todo \ {n}
      /\ n \in Kept(flow) /\ UNCHANGED <<flow, pc, rows, active>>
  BY LoopIs DEF Local
<1>2. blame \subseteq blame'
  BY DEF Loop, Malformed, Blame, Exhausted, Continued
<1>3. CASE UNCHANGED <<run, row, art, routes, joins>>
  <2>1. NoneLost => NoneLost'
    BY <1>1, <1>3 DEF NoneLost, Node
  <2> QED BY <1>1, <1>2, <1>3, <2>1, HTurn
<1>4. CASE FailClosed(n) /\ ~(Sound /\ NoCause' /\ NoneLost)
  <2>1. /\ row'[n].status = "failed" /\ row'[n].count = row[n].count
        /\ \A m \in Node \ {n} : row'[m] = row[m]
    BY <1>4, SetStatusIs DEF FailClosed, CInv
  <2> QED BY <1>1, <1>2, <1>4, <2>1, HOne DEF FailClosed
<1>5. ASSUME Sound, NoneLost PROVE art[n].attempt # 0 /\ Records("loop.decided")
  BY <1>1, <1>5 DEF NoneLost, HInv, Made, Sound, Records
<1>6. CASE ~Evaluable(n)
  <2>1. FailClosed(n) /\ Malformed(n)
    BY <1>6 DEF Loop
  <2>2. ASSUME Sound, NoneLost PROVE ~NoCause'
    <3>1. "malformed" \in blame'
      BY <1>5, <2>1, <2>2 DEF Malformed, Blame
    <3> QED BY <3>1 DEF NoCause
  <2> QED BY <1>4, <2>1, <2>2
<1>7. CASE Evaluable(n) /\ Decided(n)
  <2>1. UNCHANGED store
    BY <1>7 DEF Loop
  <2> QED BY <1>3, <2>1 DEF store
<1>8. CASE Evaluable(n) /\ ~Decided(n) /\ ~Records("loop.decided")
  <2>1. FailClosed(n)
    BY <1>8 DEF Loop
  <2> QED BY <1>4, <1>5, <1>8, <2>1
<1>9. CASE Evaluable(n) /\ ~Decided(n) /\ Records("loop.decided")
  <2>1. row[n].status = "succeeded" /\ n \in Node
    BY <1>1, <1>9 DEF CInv, PassOrderly, Evaluable
  <2>2. CASE Exhausted(n)
    <3>1. /\ \A m \in Node \ {n} : row'[m] = row[m] /\ art'[m] = art[m]
          /\ row'[n].status = "failed" /\ row'[n].count = row[n].count
          /\ UNCHANGED <<routes, joins>>
      BY <2>1, <2>2, ExhaustedIs DEF CInv
    <3>2. "ceiling" \in blame'
      BY <2>2 DEF Exhausted, Blame
    <3> QED BY <1>1, <1>2, <3>1, <3>2, HOne DEF NoCause
  <2>3. CASE Continued(n)
    <3>1. PICK region : region = LoopRegion(flow, n)
      OBVIOUS
    <3>2. /\ \A m \in Node \ region : row'[m] = row[m] /\ art'[m] = art[m]
          /\ \A m \in Node \cap region : row'[m].status = "pending"
          /\ \A m \in Node : row'[m].count = row[m].count
          /\ DOMAIN routes' = DOMAIN routes /\ UNCHANGED <<run, joins>>
      BY <1>1, <2>3, <3>1, ContinuedIs DEF CInv
    <3>3. Node' = Node /\ \A m : (Undisturbed(m))' <=> Undisturbed(m)
      BY <1>1, <3>2, UndisturbedStays DEF Node
    <3>4. Made'
      BY <3>2, <3>3 DEF HInv, Made
    <3>5. Informed'
      BY <1>1, <3>2, <3>3 DEF HInv, Informed, JInv, EdgesShape
    <3>6. ASSUME Sound, NoneLost PROVE NoneLost'
      <4>1. ASSUME NEW m \in todo' PROVE row'[m].status = "succeeded"
        <5>1. m \in todo /\ m # n /\ m \in Kept(flow) /\ m \in Node /\ n \in Node
          BY <1>1 DEF CInv, PassOrderly, ControlShape
        <5>2. n <= m /\ n \in Nat /\ m \in Nat
          <6>1. todo \in SUBSET Nat /\ todo # {} /\ n = Least(todo)
            BY NodesAreNumbers DEF CInv, ControlShape, Loop, Visit
          <6> QED BY <1>1, <5>1, <6>1, LeastOf
        <5>3. m \notin region
          BY <1>1, <3>1, <3>6, <5>1, <5>2 DEF Sound, InTurn
        <5> QED BY <3>2, <3>6, <5>1, <5>3, <1>1 DEF NoneLost
      <4>2. \A m \in Node : row'[m].status \in Well
        BY <3>2, <3>6 DEF NoneLost, Well
      <4> QED BY <1>1, <3>2, <3>3, <3>6, <4>1, <4>2 DEF NoneLost
    <3> QED BY <1>1, <1>2, <3>2, <3>4, <3>5, <3>6, HStep
  <2>4. Exhausted(n) \/ Continued(n) \/ UNCHANGED <<run, row, art, routes, joins>>
    BY <1>9 DEF Loop
  <2> QED BY <1>3, <2>2, <2>3, <2>4
<1> QED BY <1>6, <1>7, <1>8, <1>9

(* A decision that was made agrees with its source.                        *)
LEMMA HRoute == ASSUME CInv, JInv, GInv, HInv, NEW n \in Node, Route(n) PROVE HInv'
<1>1. PICK p : p = Decl(n).route[1]
  OBVIOUS
<1>2. /\ pc \in {"routes", "reroute"} /\ UNCHANGED <<flow, pc, rows, active>>
      /\ n \in DOMAIN routes /\ row[n].status = "pending"
      /\ row[p].status = "succeeded" /\ p \in Node
  <2>1. Source(n) = p
    BY <1>1 DEF Source
  <2> QED BY <1>1, <2>1, RouteIs, SourceBehind DEF Local
<1>3. blame \subseteq blame' /\ DOMAIN routes' = DOMAIN routes /\ art' = art /\ joins' = joins
  BY DEF Route, Malformed, Blame, FailClosed, store
<1>4. CASE UNCHANGED store
  <2>1. NoneLost => NoneLost'
    BY <1>2, <1>4 DEF NoneLost, store, Node
  <2> QED BY <1>2, <1>3, <1>4, <2>1, HTurn DEF store
<1>5. ASSUME NEW s \in {"pending", "failed", "skipped"}, SetStatus(n, s), run' = run,
             s # "pending" => ~(Sound /\ NoCause' /\ NoneLost)
      PROVE  HInv'
  <2>1. /\ row'[n].status = s /\ row'[n].count = row[n].count
        /\ \A m \in Node \ {n} : row'[m] = row[m]
    BY <1>5, SetStatusIs DEF CInv
  <2>2. s = "pending" /\ NoneLost => NoneLost'
    BY <1>2, <1>3, <1>5, <2>1 DEF NoneLost, Node, Well
  <2> QED BY <1>2, <1>3, <1>5, <2>1, <2>2, HOne
<1>6. ASSUME Sound, NoneLost
      PROVE  /\ art[p].attempt # 0 /\ Records("route.decided")
             /\ routes[n] # None => routes[n] = Decision(p)
  <2>1. art[p].attempt # 0 /\ Records("route.decided")
    BY <1>2, <1>6 DEF HInv, Made, Sound, Records
  <2>2. Tied(n, Source(n)) /\ Source(n) = p
    BY <1>1, <1>2, <1>6 DEF Sound, InTurn, Source
  <2> QED BY <1>2, <2>1, <2>2 DEF GInv, SourceAgrees
<1>7. CASE ~Evaluable(p)
  <2>1. FailClosed(n) /\ Malformed(p)
    BY <1>1, <1>7 DEF Route
  <2>2. ASSUME Sound, NoneLost PROVE ~NoCause'
    <3>1. "malformed" \in blame'
      BY <1>6, <2>1, <2>2 DEF Malformed, Blame
    <3> QED BY <3>1 DEF NoCause
  <2> QED BY <1>5, <2>1, <2>2 DEF FailClosed
<1>8. CASE /\ Evaluable(p) /\ routes[n] # Decision(p)
           /\ routes[n] # None \/ ~Records("route.decided")
  <2>1. FailClosed(n)
    BY <1>1, <1>8 DEF Route, Decision
  <2> QED BY <1>5, <1>6, <1>8, <2>1 DEF FailClosed
<1>9. CASE Evaluable(p) /\ routes[n] # Decision(p) /\ routes[n] = None /\ Records("route.decided")
  <2>1. /\ SetStatus(n, IF Matches(p) THEN "pending" ELSE "skipped") /\ run' = run
        /\ ~Matches(p) => Blame("unselected")
    BY <1>1, <1>9 DEF Route, Decision
  <2>2. ~Matches(p) => ~NoCause'
    BY <2>1 DEF Blame, NoCause
  <2>3. CASE Matches(p)
    BY <1>5, <2>1, <2>3
  <2>4. CASE ~Matches(p)
    BY <1>5, <2>1, <2>2, <2>4
  <2> QED BY <2>3, <2>4
<1>10. CASE Evaluable(p) /\ routes[n] = Decision(p)
  <2>1. UNCHANGED store
    BY <1>1, <1>10 DEF Route, Decision
  <2> QED BY <1>4, <2>1
<1> QED BY <1>7, <1>8, <1>9, <1>10

LEMMA HAttempts ==
  ASSUME CInv, JInv, HInv, NEW n \in Node,
         Start(n) \/ Succeed(n) \/ Fail(n) \/ Timeout(n)
  PROVE  HInv'
<1>1. CASE Start(n)
  <2>1. /\ pc = "dispatch" /\ row'[n].status = "running"
        /\ \A m \in Node \ {n} : row'[m] = row[m]
        /\ active' = [m \in DOMAIN active \cup {n} |->
                        IF m = n THEN Unread ELSE active[m]]
        /\ UNCHANGED <<flow, run, art, routes, joins, rows, pc>>
    BY <1>1, StartIs DEF CInv
  <2>2. row'[n].count > 0
    <3>1. PICK r : r = [row[n] EXCEPT !.status = "running", !.count = @ + 1,
                                       !.failure = Silent]
      OBVIOUS
    <3>2. row'[n] = r
      BY <1>1, <3>1 DEF Start, CInv, ControlShape
    <3>3. DOMAIN row[n] = Fields
      BY RowHasFields DEF CInv
    <3>4. r.count = row[n].count + 1 /\ row[n].count \in Nat
      BY <3>1, <3>3 DEF Fields, CInv, ControlShape
    <3> QED BY <3>2, <3>4
  <2>3. Node' = Node /\ \A m : (Undisturbed(m))' <=> Undisturbed(m)
    BY <2>1, UndisturbedStays DEF Node
  <2>4. Made'
    BY <2>1, <2>2, <2>3 DEF HInv, Made
  <2>5. Informed'
    <3>1. \A m \in DOMAIN active' : m # n => m \in DOMAIN active /\ active'[m] = active[m]
      BY <2>1
    <3>2. active'[n].missing = FALSE
      BY <2>1 DEF Unread
    <3> QED BY <2>1, <2>3, <3>1, <3>2 DEF HInv, Informed, JInv, EdgesShape
  <2>6. NoneLost => NoneLost'
    BY <2>1, <2>3 DEF NoneLost, Well
  <2> QED BY <1>1, <2>1, <2>4, <2>5, <2>6, HStep DEF Start, Room
<1>2. CASE Succeed(n)
  <2>1. /\ pc' = "expire" /\ row[n].status = "running" /\ Removed(n)
        /\ row'[n].status = "succeeded" /\ row'[n].count = row[n].count
        /\ art'[n].attempt = row[n].count
        /\ \A m \in Node \ {n} : row'[m] = row[m] /\ art'[m] = art[m]
        /\ UNCHANGED <<flow, run, routes, joins, rows, blame>>
    BY <1>2, SucceedIs DEF CInv, Succeed
  <2>2. art'[n].attempt # 0
    BY <2>1 DEF HInv, Made
  <2>3. \A m \in DOMAIN active' : m \in DOMAIN active /\ active'[m] = active[m]
    BY <2>1 DEF Removed
  <2>4. NoneLost => NoneLost'
    BY <2>1 DEF NoneLost, Well, Node
  <2> QED BY <2>1, <2>2, <2>3, <2>4, HOne
<1>3. ASSUME NEW ail, FinishAttempt(n, ail), Removed(n),
             ail = Uninformed => active[n].missing /\ n \in DOMAIN active
      PROVE  HInv'
  <2>1. /\ row[n].status = "running" /\ pc' = "failed"
        /\ row'[n].status = "failed" /\ row'[n].count = row[n].count
        /\ \A m \in Node \ {n} : row'[m] = row[m]
        /\ UNCHANGED <<flow, run, art, routes, joins, rows>>
    BY <1>3, FinishIs DEF CInv
  <2>2. \A m \in DOMAIN active' : m \in DOMAIN active /\ active'[m] = active[m]
    BY <1>3 DEF Removed
  <2>3. blame \subseteq blame'
    BY <1>3 DEF FinishAttempt, Blame
  <2>4. ASSUME Sound PROVE ~NoCause'
    <3>1. ail # Uninformed
      BY <1>3, <2>1, <2>4 DEF HInv, Informed, Sound, Orderly
    <3>2. "check" \in blame' \/ "failure" \in blame'
      BY <1>3, <3>1 DEF FinishAttempt, Blame
    <3> QED BY <3>2 DEF NoCause
  <2> QED BY <2>1, <2>2, <2>3, <2>4, HOne
<1>4. CASE Fail(n)
  <2>1. PICK ail \in IF active[n].missing THEN {Uninformed} ELSE Decl(n).ails :
          FinishAttempt(n, ail)
    BY <1>4 DEF Fail
  <2>2. \A a \in Decl(n).ails : a.digest # "input"
    BY ControlAssumption DEF CInv, ControlShape, Decl, Node
  <2>3. Uninformed.digest = "input"
    BY DEF Uninformed
  <2>4. ail = Uninformed => active[n].missing
    BY <2>1, <2>2, <2>3
  <2> QED BY <1>3, <1>4, <2>1, <2>4 DEF Fail, Popped
<1>5. CASE Timeout(n)
  <2>1. PICK ail : ail = [check |-> None, digest |-> "deadline"]
    OBVIOUS
  <2>2. FinishAttempt(n, ail)
    BY <1>5, <2>1 DEF Timeout
  <2>3. ail # Uninformed
    <3>1. ail.digest = "deadline" /\ Uninformed.digest = "input"
      BY <2>1 DEF Uninformed
    <3> QED BY <3>1
  <2> QED BY <1>3, <1>5, <2>2, <2>3 DEF Timeout
<1> QED BY <1>1, <1>2, <1>4, <1>5

LEMMA HRecover == ASSUME CInv, JInv, HInv, Recover PROVE HInv'
<1>1. /\ pc' = "recovered" /\ run' = "running"
      /\ \A m \in Node : /\ row'[m].count = row[m].count
                         /\ IF row[m].status = "running"
                            THEN row'[m].status = "pending" ELSE row'[m] = row[m]
      /\ UNCHANGED <<flow, art, routes, joins, active>>
  BY RecoverIs DEF CInv
<1>2. rows' = rows /\ blame \subseteq blame'
  BY DEF Recover, Blame
<1>3. Node' = Node /\ \A m : (Undisturbed(m))' <=> Undisturbed(m)
  BY <1>1, UndisturbedStays DEF Node
<1>4. Made' /\ Informed'
  BY <1>1, <1>3 DEF HInv, Made, Informed, JInv, EdgesShape
<1>5. NoneLost => NoneLost'
  BY <1>1, <1>2, <1>3 DEF NoneLost, Well
<1> QED BY <1>1, <1>2, <1>4, <1>5, HStep

(* What is settled has succeeded, and what is not has a budget left.       *)
LEMMA HEnds ==
  ASSUME CInv, JInv, HInv, Conclude \/ Check \/ Checked \/ Exhaust
  PROVE  HInv'
<1>1. ASSUME NoneLost, Settled
      PROVE  (\A n \in Node : row[n].status = "succeeded") /\ ~RequiredBad /\ Owing = {}
  <2>1. \A n \in Node : row[n].status = "succeeded"
    BY <1>1 DEF NoneLost, Settled, Well, Terminal
  <2>2. Producers(flow) \subseteq Node
    BY DEF CInv, ControlShape, Accepted, OutputsResolve, Resolves, Producers, Node
  <2> QED BY <2>1, <2>2 DEF RequiredBad, Owing
<1>2. CASE Conclude \/ Checked
  <2>1. /\ UNCHANGED <<flow, row, art, routes, joins, blame>>
        /\ pc' = "down" /\ DOMAIN active' = {}
        /\ rows' = [n \in Node |-> "pending"]
    BY <1>2 DEF Conclude, Checked, FinishRun, Stop
  <2>2. NoneLost => run' = "succeeded"
    <3>1. CASE Conclude
      BY <1>1, <3>1 DEF Conclude
    <3>2. CASE Checked
      BY <1>1, <3>2 DEF Checked, FinishRun, CInv, SuccessSettled
    <3> QED BY <1>2, <3>1, <3>2
  <2>3. NoneLost => NoneLost'
    BY <2>1, <2>2 DEF NoneLost, Node, Well
  <2> QED BY <2>1, <2>3, HTurn
<1>3. CASE Check
  <2>1. /\ UNCHANGED <<store, flow, rows, active, blame>>
        /\ pc' = "check" /\ todo' = Owing /\ Settled
    BY <1>3 DEF Check
  <2>2. NoneLost => NoneLost'
    BY <1>1, <2>1 DEF NoneLost, store, Node
  <2> QED BY <2>1, <2>2, HTurn DEF store
<1>4. CASE Exhaust
  <2>1. DOMAIN active = {} /\ ~Room /\ UNCHANGED <<store, flow, active, blame>>
    BY <1>4 DEF Exhaust, Concluding
  <2>2. ~BudgetLeft
    <3>1. Cardinality(DOMAIN active) = 0
      BY <2>1, FS_EmptySet
    <3>2. flow.budgets.max_concurrency \in Nat \ {0}
      BY ControlAssumption DEF CInv, ControlShape
    <3>3. 0 < flow.budgets.max_concurrency
      BY <3>2
    <3> QED BY <2>1, <3>1, <3>3 DEF Room
  <2>3. ~BudgetLeft'
    <3>1. Attempts' = Attempts
      BY <2>1 DEF Attempts, store, Node
    <3> QED BY <2>1, <2>2, <3>1 DEF BudgetLeft
  <2> QED BY <2>1, <2>3, HTurn DEF store, NoCause
<1> QED BY <1>2, <1>3, <1>4

LEMMA HNext == CInv /\ JInv /\ FInv /\ GInv /\ HInv /\ [Next]_vars => HInv'
<1> SUFFICES ASSUME CInv, JInv, FInv, GInv, HInv, [Next]_vars PROVE HInv'
  OBVIOUS
<1>1. ASSUME NEW n \in Node,
             \/ Repair(n) \/ Loop(n) \/ Route(n) \/ Join(n) \/ Block(n)
             \/ Skip(n) \/ Refuse(n) \/ Start(n) \/ Pop(n) \/ Timeout(n)
             \/ Finalize(n) \/ Invalidate(n) \/ GiveUp(n)
      PROVE  HInv'
  BY <1>1, HRepairs, HLoop, HRoute, HTurns, HSettles, HAttempts DEF Pop
<1>2. CASE UNCHANGED vars
  <2>1. NoneLost => NoneLost'
    BY <1>2 DEF vars, NoneLost, Node
  <2> QED BY <1>2, <2>1, HTurn DEF vars
<1> QED BY <1>1, <1>2, HTurns, HEnds, HRecover DEF Next, Step

(* FailsForCause, for every set of workflows without a journal: no crash,  *)
(* no resume, no decision of a loop or a route, and no input that was      *)
(* taken back fails a run whose controllers are in turn (_process_loops,   *)
(* _process_routes, Scheduler._finish).                                    *)
THEOREM FailuresHaveCauses == ControlSpec => [](~flow.lifecycle => FailsForCause)
<1>1. HInv => (~flow.lifecycle => FailsForCause)
  BY DEF HInv, FailsForCause, Sound, NoCause, NoneLost
<1>2. (CInv /\ JInv /\ FInv) /\ (CInv /\ JInv /\ FInv)' /\ GInv /\ [Next]_vars => GInv'
  BY GNext
<1>3. (CInv /\ JInv /\ FInv) /\ GInv /\ HInv /\ [Next]_vars => HInv'
  BY HNext
<1> QED BY <1>1, <1>2, <1>3, ControlAlways, GInit, HInit, PTL DEF ControlSpec

-----------------------------------------------------------------------------
(* Sums.                                                                   *)

Counted(S, f) == UNION {{x} \X (1 .. f[x]) : x \in S}

LEMMA CountedIs ==
  ASSUME NEW S, NEW f, NEW z
  PROVE  z \in Counted(S, f) <=> \E x \in S : \E k \in 1 .. f[x] : z = <<x, k>>
  BY DEF Counted

LEMMA CountedFinite ==
  ASSUME NEW S, IsFiniteSet(S), NEW f, \A x \in S : f[x] \in Nat
  PROVE  IsFiniteSet(Counted(S, f))
<1>1. PICK bins : bins = {{x} \X (1 .. f[x]) : x \in S}
  OBVIOUS
<1>2. PICK g : g = [x \in S |-> {x} \X (1 .. f[x])]
  OBVIOUS
<1>3. g \in Surjection(S, bins)
  BY <1>1, <1>2 DEF Surjection
<1>4. IsFiniteSet(bins)
  BY <1>3, FS_Surjection
<1>5. ASSUME NEW x \in S PROVE IsFiniteSet({x} \X (1 .. f[x]))
  <2>1. PICK b \in Nat : b = f[x]
    BY <1>5
  <2>2. IsFiniteSet({x})
    BY FS_Singleton
  <2>3. IsFiniteSet(1 .. b)
    <3>1. 1 \in Int /\ b \in Int
      OBVIOUS
    <3> QED BY <3>1, FS_Interval
  <2> QED BY <2>1, <2>2, <2>3, FS_Product
<1>6. \A T \in bins : IsFiniteSet(T)
  BY <1>1, <1>5
<1>7. Counted(S, f) = UNION bins
  BY <1>1 DEF Counted
<1> QED BY <1>4, <1>6, <1>7, FS_UNION

LEMMA SumType ==
  ASSUME NEW S, IsFiniteSet(S), NEW f, \A x \in S : f[x] \in Nat
  PROVE  SumOver(S, f) \in Nat
  BY CountedFinite, FS_CardinalityType DEF SumOver, Counted

LEMMA SumSame ==
  ASSUME NEW S, NEW f, NEW g, \A x \in S : f[x] = g[x]
  PROVE  SumOver(S, f) = SumOver(S, g)
<1>1. {{x} \X (1 .. f[x]) : x \in S} = {{x} \X (1 .. g[x]) : x \in S}
  OBVIOUS
<1> QED BY <1>1 DEF SumOver

LEMMA SumMono ==
  ASSUME NEW S, IsFiniteSet(S), NEW f, NEW g,
         \A x \in S : f[x] \in Nat /\ g[x] \in Nat /\ f[x] <= g[x]
  PROVE  SumOver(S, f) <= SumOver(S, g)
<1>1. Counted(S, f) \subseteq Counted(S, g)
  <2>1. ASSUME NEW x \in S, NEW k \in 1 .. f[x] PROVE k \in 1 .. g[x]
    BY <2>1
  <2> QED BY <2>1, CountedIs
<1> QED BY <1>1, CountedFinite, FS_Subset DEF SumOver, Counted

(* One term grows.                                                         *)
LEMMA SumPlus ==
  ASSUME NEW S, IsFiniteSet(S), NEW f, NEW g, NEW x \in S, NEW d \in Nat,
         \A y \in S : f[y] \in Nat /\ g[y] = IF y = x THEN f[y] + d ELSE f[y]
  PROVE  SumOver(S, g) = SumOver(S, f) + d
<1>1. PICK more : more = {x} \X (f[x] + 1 .. f[x] + d)
  OBVIOUS
<1>2. Counted(S, g) = Counted(S, f) \cup more
  <2>1. ASSUME NEW y \in S, NEW k \in 1 .. g[y]
        PROVE  k \in 1 .. f[y] \/ (y = x /\ k \in f[x] + 1 .. f[x] + d)
    BY <2>1
  <2>2. ASSUME NEW y \in S, NEW k \in 1 .. f[y] PROVE k \in 1 .. g[y]
    BY <2>2
  <2>3. ASSUME NEW k \in f[x] + 1 .. f[x] + d PROVE k \in 1 .. g[x]
    BY <2>3
  <2>4. \A z : z \in more <=> \E k \in f[x] + 1 .. f[x] + d : z = <<x, k>>
    BY <1>1
  <2>5. \A z : z \in Counted(S, g) => z \in Counted(S, f) \cup more
    BY <2>1, <2>4, CountedIs
  <2>6. \A z : z \in Counted(S, f) \cup more => z \in Counted(S, g)
    BY <2>2, <2>3, <2>4, CountedIs
  <2> QED BY <2>5, <2>6
<1>3. Counted(S, f) \cap more = {}
  <2>1. \A k \in f[x] + 1 .. f[x] + d : k \notin 1 .. f[x]
    OBVIOUS
  <2> QED BY <1>1, <2>1, CountedIs
<1>4. IsFiniteSet(more) /\ Cardinality(more) = d
  <2>1. /\ IsFiniteSet({x}) /\ Cardinality({x}) = 1
        /\ IsFiniteSet(f[x] + 1 .. f[x] + d)
        /\ Cardinality(f[x] + 1 .. f[x] + d) = d
    <3>0. PICK n \in Nat : n = f[x]
      OBVIOUS
    <3>1. PICK a \in Int, b \in Int : a = n + 1 /\ b = n + d
      OBVIOUS
    <3>2. IsFiniteSet(a .. b) /\ Cardinality(a .. b) = IF a > b THEN 0 ELSE b - a + 1
      BY FS_Interval
    <3>3. (IF a > b THEN 0 ELSE b - a + 1) = d
      BY <3>1
    <3>4. IsFiniteSet(n + 1 .. n + d) /\ Cardinality(n + 1 .. n + d) = d
      BY <3>1, <3>2, <3>3
    <3> QED BY <3>0, <3>4, FS_Singleton
  <2>2. PICK r : r = f[x] + 1 .. f[x] + d
    OBVIOUS
  <2>3. IsFiniteSet({x} \X r) /\ Cardinality({x} \X r) = Cardinality({x}) * Cardinality(r)
    BY <2>1, <2>2, FS_Product
  <2> QED BY <1>1, <2>1, <2>2, <2>3
<1>5. IsFiniteSet(Counted(S, f)) /\ Cardinality(Counted(S, f)) \in Nat
  BY CountedFinite, FS_CardinalityType
<1>6. Cardinality(Counted(S, f) \cup more)
        = Cardinality(Counted(S, f)) + Cardinality(more) - Cardinality({})
  BY <1>3, <1>4, <1>5, FS_Union
<1>7. Cardinality({}) = 0
  BY FS_EmptySet
<1>8. SumOver(S, g) = Cardinality(Counted(S, g)) /\ SumOver(S, f) = Cardinality(Counted(S, f))
  BY DEF SumOver, Counted
<1> QED BY <1>2, <1>4, <1>5, <1>6, <1>7, <1>8

-----------------------------------------------------------------------------
(* The budget.                                                             *)

(* The turns of a loop that have been paid for: those that reopen its      *)
(* region, which its last one does not.                                    *)
LastTurn(c) == Decl(c).loop.iterations - 1
Turns(c) == IF loops[c].iterations < LastTurn(c) THEN loops[c].iterations
            ELSE LastTurn(c)

Size(c) == Cardinality(LoopRegion(flow, c))
LoopsUsed == SumOver(Kept(flow), [c \in Kept(flow) |-> Size(c) * Turns(c)])

Price(n, i) == Cardinality(Decl(n).repair[i].targets) + 1
Limit(n, i) == Decl(n).repair[i].rounds
RoundsUsed(n) ==
  SumOver(Routes(flow, n), [i \in Routes(flow, n) |-> Price(n, i) * repairs[n][i].rounds])
Integrations == {n \in Node : Decl(n).kind = "integration"}
RepairsUsed == SumOver(Integrations, [n \in Node |-> RoundsUsed(n)])

TurnsShape ==
  /\ \A c \in Kept(flow) : loops[c].iterations \in Nat
  /\ DOMAIN repairs = {n \in Node : Decl(n).repair # <<>>}
  /\ \A n \in DOMAIN repairs :
       /\ DOMAIN repairs[n] = Routes(flow, n)
       /\ \A i \in Routes(flow, n) : repairs[n][i].rounds \in 0 .. Limit(n, i)

Paid == Orderly /\ blame \cap {"failure", "interrupted"} = {}

(* The attempts made and the nodes that wait for one are paid for by the   *)
(* nodes, the turns and the rounds; what has failed goes to a repair.      *)
WithinBudget ==
  /\ Attempts + Cardinality(Pending) <= Cardinality(Node) + LoopsUsed + RepairsUsed
  /\ pc = "failed" => todo \subseteq DOMAIN repairs
  /\ pc # "budget"

KInv == TurnsShape /\ (Paid => WithinBudget)

LEMMA FlowCounts ==
  ASSUME CInv
  PROVE  /\ IsFiniteSet(Node) /\ Cardinality(Node) \in Nat
         /\ IsFiniteSet(Kept(flow)) /\ IsFiniteSet(Integrations)
         /\ flow.budgets.max_total_attempts \in Nat
         /\ \A c \in Kept(flow) :
              LastTurn(c) \in Nat /\ Size(c) \in Nat /\ IsFiniteSet(LoopRegion(flow, c))
         /\ \A n \in Node : /\ IsFiniteSet(Routes(flow, n))
                            /\ \A i \in Routes(flow, n) :
                                 /\ Price(n, i) \in Nat /\ Limit(n, i) \in Nat
                                 /\ IsFiniteSet(Decl(n).repair[i].targets)
                            /\ Decl(n).repair # <<>> => n \in Integrations
<1>1. /\ IsFiniteSet(Node) /\ flow.budgets.max_total_attempts \in Nat
      /\ \A n \in Node :
           /\ Decl(n).loop # None => Decl(n).loop.iterations \in Nat \ {0}
           /\ IsFiniteSet(Routes(flow, n))
           /\ \A i \in Routes(flow, n) :
                IsFiniteSet(Decl(n).repair[i].targets) /\ Limit(n, i) \in Nat
  BY ControlAssumption DEF CInv, ControlShape, Node, Decl, Routes, Limit
<1>2. Cardinality(Node) \in Nat
  BY <1>1, FS_CardinalityType
<1>3. Kept(flow) \in SUBSET Node /\ Integrations \in SUBSET Node
  BY DEF Kept, Integrations, Node
<1>4. IsFiniteSet(Kept(flow)) /\ IsFiniteSet(Integrations)
  BY <1>1, <1>3, FS_Subset
<1>5. ASSUME NEW c \in Kept(flow)
      PROVE  LastTurn(c) \in Nat /\ Size(c) \in Nat /\ IsFiniteSet(LoopRegion(flow, c))
  <2>1. Decl(c).loop # None /\ c \in Node
    BY <1>3 DEF Kept, Decl
  <2>2. LastTurn(c) \in Nat
    BY <1>1, <2>1 DEF LastTurn
  <2>3. LoopRegion(flow, c) \in SUBSET Node
    BY AcceptedMeans DEF CInv, ControlShape
  <2>4. IsFiniteSet(LoopRegion(flow, c))
    BY <1>1, <2>3, FS_Subset
  <2> QED BY <2>2, <2>4, FS_CardinalityType DEF Size
<1>6. ASSUME NEW n \in Node, NEW i \in Routes(flow, n) PROVE Price(n, i) \in Nat
  <2>1. Cardinality(Decl(n).repair[i].targets) \in Nat
    BY <1>1, FS_CardinalityType
  <2> QED BY <2>1 DEF Price
<1>7. ASSUME NEW n \in Node, Decl(n).repair # <<>> PROVE n \in Integrations
  <2>1. RepairSound(flow, n)
    BY DEF CInv, ControlShape, Accepted, NodeAccepted, Node
  <2> QED BY <1>7, <2>1 DEF RepairSound, Integrations, Decl
<1> QED BY <1>1, <1>2, <1>4, <1>5, <1>6, <1>7

(* A product of counts is a count, and grows with its factors.             *)
LEMMA TimesIsNat == ASSUME NEW a \in Nat, NEW b \in Nat PROVE a * b \in Nat
  OBVIOUS
LEMMA TimesGrows ==
  ASSUME NEW a \in Nat, NEW b \in Nat, NEW c \in Nat, b <= c PROVE a * b <= a * c
<1>1. PICK d \in Nat : c = b + d
  <2>1. c - b \in Nat /\ c = b + (c - b)
    OBVIOUS
  <2> QED BY <2>1
<1>2. a * c = a * b + a * d /\ a * d \in Nat /\ a * b \in Nat
  BY <1>1
<1> QED BY <1>2

LEMMA TermsAreCounts ==
  ASSUME CInv, TurnsShape
  PROVE  /\ \A c \in Kept(flow) :
              Turns(c) \in Nat /\ Turns(c) <= LastTurn(c) /\ Size(c) * Turns(c) \in Nat
         /\ \A n \in Node : \A i \in Routes(flow, n) :
              Price(n, i) * repairs[n][i].rounds \in Nat
         /\ \A n \in Node : RoundsUsed(n) \in Nat
         /\ Attempts \in Nat /\ Cardinality(Pending) \in Nat /\ IsFiniteSet(Pending)
         /\ LoopsUsed \in Nat /\ RepairsUsed \in Nat
<1>1. ASSUME NEW c \in Kept(flow)
      PROVE  Turns(c) \in Nat /\ Turns(c) <= LastTurn(c) /\ Size(c) * Turns(c) \in Nat
  <2>1. loops[c].iterations \in Nat /\ LastTurn(c) \in Nat /\ Size(c) \in Nat
    BY FlowCounts DEF TurnsShape
  <2>2. Turns(c) \in Nat /\ Turns(c) <= LastTurn(c)
    BY <2>1 DEF Turns
  <2> QED BY <2>1, <2>2, TimesIsNat
<1>2. ASSUME NEW n \in Node, NEW i \in Routes(flow, n)
      PROVE  Price(n, i) * repairs[n][i].rounds \in Nat
  <2>1. n \in DOMAIN repairs
    BY <1>2 DEF TurnsShape, Routes, Decl
  <2>2. repairs[n][i].rounds \in Nat /\ Price(n, i) \in Nat
    BY <2>1, FlowCounts DEF TurnsShape
  <2> QED BY <2>2, TimesIsNat
<1>3. ASSUME NEW n \in Node PROVE RoundsUsed(n) \in Nat
  <2>1. PICK f : f = [i \in Routes(flow, n) |-> Price(n, i) * repairs[n][i].rounds]
    OBVIOUS
  <2>2. \A i \in Routes(flow, n) : f[i] \in Nat
    BY <1>2, <2>1
  <2> QED BY <2>1, <2>2, FlowCounts, SumType DEF RoundsUsed
<1>4. Attempts \in Nat
  <2>1. PICK f : f = [n \in Node |-> row[n].count]
    OBVIOUS
  <2>2. \A n \in Node : f[n] \in Nat
    BY <2>1 DEF CInv, ControlShape
  <2> QED BY <2>1, <2>2, FlowCounts, SumType DEF Attempts
<1>5. Cardinality(Pending) \in Nat /\ IsFiniteSet(Pending)
  <2>1. Pending \in SUBSET Node
    BY DEF Pending
  <2>2. IsFiniteSet(Pending)
    BY <2>1, FlowCounts, FS_Subset
  <2> QED BY <2>2, FS_CardinalityType
<1>6. LoopsUsed \in Nat
  <2>1. PICK f : f = [c \in Kept(flow) |-> Size(c) * Turns(c)]
    OBVIOUS
  <2>2. \A c \in Kept(flow) : f[c] \in Nat
    BY <1>1, <2>1
  <2> QED BY <2>1, <2>2, FlowCounts, SumType DEF LoopsUsed
<1>7. RepairsUsed \in Nat
  <2>1. PICK f : f = [n \in Node |-> RoundsUsed(n)]
    OBVIOUS
  <2>2. \A n \in Integrations : f[n] \in Nat
    BY <1>3, <2>1 DEF Integrations
  <2> QED BY <2>1, <2>2, FlowCounts, SumType DEF RepairsUsed
<1> QED BY <1>1, <1>2, <1>3, <1>4, <1>5, <1>6, <1>7

(* What the validator asks for covers every turn and every round.          *)
LEMMA BudgetCovers ==
  ASSUME CInv, TurnsShape
  PROVE  Cardinality(Node) + LoopsUsed + RepairsUsed <= flow.budgets.max_total_attempts
<1>1. LoopsUsed <= LoopExtra(flow) /\ LoopExtra(flow) \in Nat
  <2>1. PICK f : f = [c \in Kept(flow) |-> Size(c) * Turns(c)]
    OBVIOUS
  <2>2. PICK g : g = [c \in Kept(flow) |-> Size(c) * LastTurn(c)]
    OBVIOUS
  <2>3. ASSUME NEW c \in Kept(flow) PROVE f[c] \in Nat /\ g[c] \in Nat /\ f[c] <= g[c]
    <3>1. /\ Turns(c) \in Nat /\ Turns(c) <= LastTurn(c)
          /\ LastTurn(c) \in Nat /\ Size(c) \in Nat
      BY FlowCounts, TermsAreCounts
    <3>2. Size(c) * Turns(c) \in Nat /\ Size(c) * LastTurn(c) \in Nat
      BY <3>1, TimesIsNat
    <3>3. Size(c) * Turns(c) <= Size(c) * LastTurn(c)
      BY <3>1, TimesGrows
    <3> QED BY <2>1, <2>2, <3>2, <3>3
  <2>4. LoopExtra(flow) = SumOver(Kept(flow), g)
    BY <2>2 DEF LoopExtra, Size, LastTurn, Decl
  <2>5. SumOver(Kept(flow), f) <= SumOver(Kept(flow), g) /\ SumOver(Kept(flow), g) \in Nat
    BY <2>3, FlowCounts, SumMono, SumType
  <2> QED BY <2>1, <2>4, <2>5 DEF LoopsUsed
<1>2. RepairsUsed <= RepairExtra(flow) /\ RepairExtra(flow) \in Nat
  <2>1. PICK f : f = [n \in Node |-> RoundsUsed(n)]
    OBVIOUS
  <2>2. PICK g : g = [n \in Node |->
          SumOver(Routes(flow, n), [i \in Routes(flow, n) |-> Price(n, i) * Limit(n, i)])]
    OBVIOUS
  <2>3. ASSUME NEW n \in Node PROVE f[n] \in Nat /\ g[n] \in Nat /\ f[n] <= g[n]
    <3>1. PICK used : used = [i \in Routes(flow, n) |-> Price(n, i) * repairs[n][i].rounds]
      OBVIOUS
    <3>2. PICK most : most = [i \in Routes(flow, n) |-> Price(n, i) * Limit(n, i)]
      OBVIOUS
    <3>3. ASSUME NEW i \in Routes(flow, n)
          PROVE  used[i] \in Nat /\ most[i] \in Nat /\ used[i] <= most[i]
      <4>1. n \in DOMAIN repairs
        BY <3>3 DEF TurnsShape, Routes, Decl
      <4>2. /\ Price(n, i) \in Nat /\ Limit(n, i) \in Nat
            /\ repairs[n][i].rounds \in Nat /\ repairs[n][i].rounds <= Limit(n, i)
        BY <4>1, FlowCounts DEF TurnsShape
      <4>3. /\ Price(n, i) * repairs[n][i].rounds \in Nat
            /\ Price(n, i) * Limit(n, i) \in Nat
        BY <4>2, TimesIsNat
      <4>4. Price(n, i) * repairs[n][i].rounds <= Price(n, i) * Limit(n, i)
        BY <4>2, TimesGrows
      <4> QED BY <3>1, <3>2, <4>3, <4>4
    <3>4. /\ SumOver(Routes(flow, n), used) <= SumOver(Routes(flow, n), most)
          /\ SumOver(Routes(flow, n), used) \in Nat
          /\ SumOver(Routes(flow, n), most) \in Nat
      BY <3>3, FlowCounts, SumMono, SumType
    <3> QED BY <2>1, <2>2, <3>1, <3>2, <3>4 DEF RoundsUsed
  <2>4. RepairExtra(flow) = SumOver(Integrations, g)
    BY <2>2 DEF RepairExtra, Integrations, Price, Limit, Decl, Node
  <2>5. SumOver(Integrations, f) <= SumOver(Integrations, g) /\ SumOver(Integrations, g) \in Nat
    <3>1. \A n \in Integrations : f[n] \in Nat /\ g[n] \in Nat /\ f[n] <= g[n]
      BY <2>3 DEF Integrations
    <3> QED BY <3>1, FlowCounts, SumMono, SumType
  <2> QED BY <2>1, <2>4, <2>5 DEF RepairsUsed
<1>3. flow.budgets.max_total_attempts >= Cardinality(Node) + LoopExtra(flow) + RepairExtra(flow)
  BY DEF CInv, ControlShape, Accepted, BudgetCoversControl, LoopFloor, Node
<1> QED BY <1>1, <1>2, <1>3, FlowCounts, TermsAreCounts

-----------------------------------------------------------------------------
(* Every step stays within the budget.                                     *)

LEMMA KInit == Init => KInv
<1> SUFFICES ASSUME Init PROVE KInv
  OBVIOUS
<1>1. \A n \in Node : row[n].count = 0 /\ row[n].status = "pending"
  BY DEF Init
<1>2. TurnsShape
  <2>1. \A c \in Kept(flow) : loops[c].iterations = 0
    BY DEF Init
  <2>2. DOMAIN repairs = {n \in Node : Decl(n).repair # <<>>}
    BY DEF Init
  <2>3. \A n \in DOMAIN repairs :
          /\ DOMAIN repairs[n] = Routes(flow, n)
          /\ \A i \in Routes(flow, n) : repairs[n][i].rounds = 0
    BY DEF Init
  <2>4. \A n \in Node : \A i \in Routes(flow, n) : Limit(n, i) \in Nat
    BY ControlInit, FlowCounts
  <2>5. \A n \in DOMAIN repairs : \A i \in Routes(flow, n) :
          repairs[n][i].rounds \in 0 .. Limit(n, i)
    BY <2>2, <2>3, <2>4
  <2> QED BY <2>1, <2>2, <2>3, <2>5 DEF TurnsShape
<1>3. Attempts = 0
  <2>1. PICK f : f = [n \in Node |-> row[n].count]
    OBVIOUS
  <2>2. Counted(Node, f) = {}
    <3>1. \A n \in Node : 1 .. f[n] = {}
      BY <1>1, <2>1
    <3> QED BY <3>1, CountedIs
  <2> QED BY <2>1, <2>2, FS_EmptySet DEF Attempts, SumOver, Counted
<1>4. Pending = Node
  BY <1>1 DEF Pending
<1>5. CInv
  BY ControlInit
<1>6. Attempts + Cardinality(Pending) <= Cardinality(Node) + LoopsUsed + RepairsUsed
  BY <1>2, <1>3, <1>4, <1>5, FlowCounts, TermsAreCounts
<1>7. pc = "down"
  BY DEF Init
<1> QED BY <1>2, <1>6, <1>7 DEF KInv, WithinBudget

(* More turns are more that is paid for.                                   *)
LEMMA LoopsGrow ==
  ASSUME CInv, TurnsShape, flow' = flow,
         \A c \in Kept(flow) : /\ loops'[c].iterations \in Nat
                               /\ loops[c].iterations <= loops'[c].iterations
  PROVE  LoopsUsed' \in Nat /\ LoopsUsed <= LoopsUsed'
<1>1. PICK f : f = [c \in Kept(flow) |-> Size(c) * Turns(c)]
  OBVIOUS
<1>2. PICK g : g = [c \in Kept(flow) |-> Size(c) * (Turns(c))']
  OBVIOUS
<1>3. ASSUME NEW c \in Kept(flow) PROVE f[c] \in Nat /\ g[c] \in Nat /\ f[c] <= g[c]
  <2>1. (LastTurn(c))' = LastTurn(c)
    BY DEF LastTurn, Decl
  <2>2. LastTurn(c) \in Nat /\ Size(c) \in Nat /\ loops[c].iterations \in Nat
    BY FlowCounts DEF TurnsShape
  <2>3. PICK a, b, e : a = loops[c].iterations /\ b = loops'[c].iterations /\ e = LastTurn(c)
    OBVIOUS
  <2>4. /\ Turns(c) = IF a < e THEN a ELSE e
        /\ (Turns(c))' = IF b < e THEN b ELSE e
    BY <2>1, <2>3 DEF Turns
  <2>5. a \in Nat /\ b \in Nat /\ e \in Nat /\ a <= b
    BY <2>2, <2>3
  <2>6. Turns(c) \in Nat /\ (Turns(c))' \in Nat /\ Turns(c) <= (Turns(c))'
    <3>1. PICK s, t : s = (IF a < e THEN a ELSE e) /\ t = (IF b < e THEN b ELSE e)
      OBVIOUS
    <3>2. s \in Nat /\ t \in Nat /\ s <= t
      BY <2>5, <3>1
    <3> QED BY <2>4, <3>1, <3>2
  <2>7. Size(c) * Turns(c) \in Nat /\ Size(c) * (Turns(c))' \in Nat
    BY <2>2, <2>6, TimesIsNat
  <2>8. Size(c) * Turns(c) <= Size(c) * (Turns(c))'
    BY <2>2, <2>6, TimesGrows
  <2> QED BY <1>1, <1>2, <2>7, <2>8
<1>4. LoopsUsed = SumOver(Kept(flow), f)
  BY <1>1 DEF LoopsUsed
<1>5. LoopsUsed' = SumOver(Kept(flow), g)
  <2>1. \A c : (Size(c))' = Size(c)
    BY DEF Size
  <2> QED BY <1>2, <2>1 DEF LoopsUsed
<1> QED BY <1>3, <1>4, <1>5, FlowCounts, SumMono, SumType

LEMMA RepairsStay ==
  ASSUME flow' = flow, repairs' = repairs PROVE RepairsUsed' = RepairsUsed
  BY DEF RepairsUsed, RoundsUsed, Integrations, Price, Routes, Decl, Node

(* What has failed once has failed.                                        *)
LEMMA PaidBefore ==
  ASSUME flow' = flow, DOMAIN joins' = DOMAIN joins, blame \subseteq blame', Paid'
  PROVE  Paid
<1>1. Node' = Node /\ \A n : (Undisturbed(n))' <=> Undisturbed(n)
  BY UndisturbedStays DEF Node
<1> QED BY <1>1 DEF Paid, Orderly

LEMMA AttemptsStay ==
  ASSUME flow' = flow, \A n \in Node : row'[n].count = row[n].count
  PROVE  Attempts' = Attempts
<1>1. /\ Node' = Node
      /\ [n \in Node |-> row'[n].count] = [n \in Node |-> row[n].count]
  BY DEF Node
<1> QED BY <1>1 DEF Attempts

(* Steps that reopen nothing.                                              *)
LEMMA KStay ==
  ASSUME CInv, KInv, flow' = flow, DOMAIN joins' = DOMAIN joins, blame \subseteq blame',
         repairs' = repairs,
         \A c \in Kept(flow) : /\ loops'[c].iterations \in Nat
                               /\ loops[c].iterations <= loops'[c].iterations,
         Paid' /\ Paid /\ WithinBudget =>
           /\ \A n \in Node : row'[n].count = row[n].count
           /\ \A n \in Node : row'[n].status = "pending" => row[n].status = "pending"
           /\ pc' # "budget"
           /\ pc' = "failed" => todo' \subseteq DOMAIN repairs
  PROVE  KInv'
<1>1. TurnsShape /\ TurnsShape'
  <2>1. TurnsShape /\ Node' = Node
    BY DEF KInv, Node
  <2> QED BY <2>1 DEF TurnsShape, Decl, Limit
<1>2. ASSUME Paid' PROVE WithinBudget'
  <2>1. Paid /\ WithinBudget
    BY <1>2, PaidBefore DEF KInv
  <2>2. Attempts' = Attempts
    BY <1>2, <2>1, AttemptsStay
  <2>3. Pending' \subseteq Pending
    BY <1>2, <2>1 DEF Pending, Node
  <2>4. Cardinality(Pending') \in Nat /\ Cardinality(Pending') <= Cardinality(Pending)
    BY <1>1, <2>3, TermsAreCounts, FS_Subset, FS_CardinalityType
  <2>5. LoopsUsed' \in Nat /\ LoopsUsed <= LoopsUsed' /\ RepairsUsed' = RepairsUsed
    BY <1>1, LoopsGrow, RepairsStay
  <2>6. Attempts \in Nat /\ Cardinality(Pending) \in Nat /\ LoopsUsed \in Nat
        /\ RepairsUsed \in Nat /\ Cardinality(Node) \in Nat /\ Node' = Node
    BY <1>1, TermsAreCounts, FlowCounts DEF Node
  <2>7. Attempts + Cardinality(Pending) <= Cardinality(Node) + LoopsUsed + RepairsUsed
    BY <2>1 DEF WithinBudget
  <2>8. Attempts' + Cardinality(Pending') <= Cardinality(Node') + LoopsUsed' + RepairsUsed'
    BY <2>2, <2>4, <2>5, <2>6, <2>7
  <2> QED BY <1>2, <2>1, <2>8 DEF WithinBudget
<1> QED BY <1>1, <1>2 DEF KInv

(* Steps that reopen nodes, and count a turn or a round for them.          *)
LEMMA KReopen ==
  ASSUME CInv, KInv, flow' = flow, DOMAIN joins' = DOMAIN joins, blame \subseteq blame',
         pc' \notin {"failed", "budget"}, TurnsShape',
         NEW S \in SUBSET Node, NEW d \in Nat, Cardinality(S) <= d,
         \A n \in Node : row'[n].count = row[n].count,
         \A n \in Node \ S : row'[n].status = "pending" => row[n].status = "pending",
         LoopsUsed' \in Nat, RepairsUsed' \in Nat,
         LoopsUsed' + RepairsUsed' = LoopsUsed + RepairsUsed + d
  PROVE  KInv'
<1>1. TurnsShape
  BY DEF KInv
<1>2. ASSUME Paid' PROVE WithinBudget'
  <2>1. WithinBudget
    BY <1>2, PaidBefore DEF KInv
  <2>2. Attempts' = Attempts
    BY AttemptsStay
  <2>3. Pending' \subseteq Pending \cup S
    BY DEF Pending, Node
  <2>4. IsFiniteSet(S) /\ Cardinality(S) \in Nat
    BY FlowCounts, FS_Subset, FS_CardinalityType
  <2>5. IsFiniteSet(Pending) /\ Cardinality(Pending) \in Nat
    BY <1>1, TermsAreCounts
  <2>6. /\ IsFiniteSet(Pending \cup S)
        /\ Cardinality(Pending \cup S) <= Cardinality(Pending) + Cardinality(S)
    <3>1. /\ IsFiniteSet(Pending \cup S)
          /\ Cardinality(Pending \cup S)
               = Cardinality(Pending) + Cardinality(S) - Cardinality(Pending \cap S)
      BY <2>4, <2>5, FS_Union
    <3>2. IsFiniteSet(Pending \cap S)
      BY <2>5, FS_Subset
    <3>3. Cardinality(Pending \cap S) \in Nat
      BY <3>2, FS_CardinalityType
    <3> QED BY <2>4, <2>5, <3>1, <3>3
  <2>7. /\ Cardinality(Pending') \in Nat /\ Cardinality(Pending \cup S) \in Nat
        /\ Cardinality(Pending') <= Cardinality(Pending \cup S)
    BY <2>3, <2>6, FS_Subset, FS_CardinalityType
  <2>8. Attempts \in Nat /\ LoopsUsed \in Nat /\ RepairsUsed \in Nat
        /\ Cardinality(Node) \in Nat /\ Node' = Node
    BY <1>1, TermsAreCounts, FlowCounts DEF Node
  <2>9. Attempts + Cardinality(Pending) <= Cardinality(Node) + LoopsUsed + RepairsUsed
    BY <2>1 DEF WithinBudget
  <2>10. Attempts' + Cardinality(Pending') <= Cardinality(Node') + LoopsUsed' + RepairsUsed'
    <3>1. PICK a, p, n, l, r, p2, ps, s, l2, r2 :
            /\ a = Attempts /\ p = Cardinality(Pending) /\ n = Cardinality(Node)
            /\ l = LoopsUsed /\ r = RepairsUsed /\ l2 = LoopsUsed' /\ r2 = RepairsUsed'
            /\ p2 = Cardinality(Pending') /\ ps = Cardinality(Pending \cup S)
            /\ s = Cardinality(S)
      OBVIOUS
    <3>2. /\ a \in Nat /\ p \in Nat /\ n \in Nat /\ l \in Nat /\ r \in Nat
          /\ l2 \in Nat /\ r2 \in Nat /\ p2 \in Nat /\ ps \in Nat /\ s \in Nat
          /\ p2 <= ps /\ ps <= p + s /\ s <= d /\ l2 + r2 = l + r + d
          /\ a + p <= n + l + r
      BY <2>4, <2>5, <2>6, <2>7, <2>8, <2>9, <3>1
    <3>3. a + p2 <= n + l2 + r2
      BY <3>2
    <3> QED BY <2>2, <2>8, <3>1, <3>3
  <2> QED BY <2>10 DEF WithinBudget
<1> QED BY <1>2 DEF KInv

(* A turn of a loop reopens its region.                                    *)
LEMMA KContinued ==
  ASSUME CInv, KInv, NEW n \in Kept(flow), flow' = flow, blame \subseteq blame',
         pc' \notin {"failed", "budget"}, Checkpoint(n), Continued(n),
         Iteration(n) < Decl(n).loop.iterations
  PROVE  KInv'
<1>1. PICK region : region = LoopRegion(flow, n)
  OBVIOUS
<1>2. /\ \A m \in Node \ region : row'[m] = row[m]
      /\ \A m \in Node : row'[m].count = row[m].count
      /\ UNCHANGED <<repairs, joins>>
  BY <1>1, ContinuedIs DEF CInv
<1>3. PICK i \in Nat : i = loops[n].iterations
  BY DEF KInv, TurnsShape
<1>4. /\ loops'[n].iterations = i + 1
      /\ \A c \in Kept(flow) \ {n} : loops'[c] = loops[c]
      /\ i + 1 <= LastTurn(n)
  <2>1. loops'[n].iterations = i + 1 /\ \A c \in Kept(flow) \ {n} : loops'[c] = loops[c]
    BY <1>3 DEF Checkpoint, Iteration, CInv, ControlShape
  <2>2. LastTurn(n) \in Nat /\ LastTurn(n) = Decl(n).loop.iterations - 1
    BY FlowCounts DEF LastTurn
  <2>3. Decl(n).loop.iterations \in Int
    <3>1. Decl(n).loop # None
      BY DEF Kept, Decl
    <3> QED BY <3>1, ControlAssumption DEF CInv, ControlShape, Decl, Kept
  <2> QED BY <1>3, <2>1, <2>2, <2>3 DEF Iteration
<1>5. TurnsShape /\ Node' = Node
  BY DEF KInv, Node
<1>6. TurnsShape'
  <2>1. \A c \in Kept(flow) : loops'[c].iterations \in Nat
    BY <1>4, <1>5 DEF TurnsShape
  <2> QED BY <1>2, <1>5, <2>1 DEF TurnsShape, Decl, Limit
<1>7. LoopsUsed' = LoopsUsed + Size(n)
  <2>1. PICK f : f = [c \in Kept(flow) |-> Size(c) * Turns(c)]
    OBVIOUS
  <2>2. PICK g : g = [c \in Kept(flow) |-> Size(c) * (Turns(c))']
    OBVIOUS
  <2>3. \A c : (LastTurn(c))' = LastTurn(c) /\ (Size(c))' = Size(c)
    BY DEF LastTurn, Decl, Size
  <2>4. \A c \in Kept(flow) \ {n} : (Turns(c))' = Turns(c)
    BY <1>4, <2>3 DEF Turns
  <2>5. g[n] = f[n] + Size(n)
    <3>1. LastTurn(n) \in Nat /\ Size(n) \in Nat
      BY FlowCounts
    <3>2. Turns(n) = i
      BY <1>3, <1>4, <3>1 DEF Turns
    <3>3. (Turns(n))' = i + 1
      BY <1>4, <2>3, <3>1 DEF Turns
    <3>4. Size(n) * (i + 1) = Size(n) * i + Size(n)
      BY <3>1
    <3> QED BY <2>1, <2>2, <3>2, <3>3, <3>4
  <2>6. \A c \in Kept(flow) : f[c] \in Nat
    BY <1>5, <2>1, TermsAreCounts
  <2>7. \A c \in Kept(flow) : f[c] \in Nat /\ g[c] = IF c = n THEN f[c] + Size(n) ELSE f[c]
    BY <2>1, <2>2, <2>4, <2>5, <2>6
  <2>8. SumOver(Kept(flow), g) = SumOver(Kept(flow), f) + Size(n)
    <3>1. PICK T, d : T = Kept(flow) /\ d = Size(n)
      OBVIOUS
    <3>2. /\ IsFiniteSet(T) /\ n \in T /\ d \in Nat
          /\ \A c \in T : f[c] \in Nat /\ g[c] = IF c = n THEN f[c] + d ELSE f[c]
      BY <2>7, <3>1, FlowCounts
    <3>3. SumOver(T, g) = SumOver(T, f) + d
      BY <3>2, SumPlus
    <3> QED BY <3>1, <3>3
  <2>9. LoopsUsed = SumOver(Kept(flow), f) /\ LoopsUsed' = SumOver(Kept(flow), g)
    BY <2>1, <2>2, <2>3 DEF LoopsUsed
  <2> QED BY <2>8, <2>9
<1>8. RepairsUsed' = RepairsUsed
  BY <1>2, RepairsStay
<1>9. region \in SUBSET Node /\ Cardinality(region) = Size(n) /\ Size(n) \in Nat
  BY <1>1, FlowCounts, AcceptedMeans DEF CInv, ControlShape, Size
<1>10. LoopsUsed \in Nat /\ RepairsUsed \in Nat
  BY <1>5, TermsAreCounts
<1>11. /\ LoopsUsed' \in Nat /\ RepairsUsed' \in Nat /\ Cardinality(region) <= Size(n)
       /\ LoopsUsed' + RepairsUsed' = LoopsUsed + RepairsUsed + Size(n)
  BY <1>7, <1>8, <1>9, <1>10
<1> QED BY <1>2, <1>6, <1>9, <1>11, KReopen

(* A round of a repair route reopens the integration and its targets.      *)
LEMMA KRouteRepair ==
  ASSUME CInv, KInv, NEW n \in DOMAIN repairs, NEW i \in DOMAIN repairs[n],
         flow' = flow, blame \subseteq blame', pc' \notin {"failed", "budget"},
         Repairable(n, i), RouteRepair(n, i)
  PROVE  KInv'
<1>0. n \in Node
  BY DEF CInv, ControlShape
<1>1. PICK reopened : reopened = {n} \cup TargetNodes(Decl(n).repair[i])
  OBVIOUS
<1>2. /\ \A m \in Node \ reopened : row'[m] = row[m]
      /\ \A m \in Node : row'[m].count = row[m].count
      /\ UNCHANGED <<loops, joins>>
  BY <1>0, <1>1, RouteRepairIs DEF CInv
<1>3. TurnsShape /\ Node' = Node /\ i \in Routes(flow, n) /\ DOMAIN repairs[n] = Routes(flow, n)
  BY DEF KInv, TurnsShape, Node
<1>4. PICK k \in Nat : k = repairs[n][i].rounds
  BY <1>3, FlowCounts DEF TurnsShape
<1>5. k + 1 <= Limit(n, i)
  <2>1. k < Limit(n, i) /\ Limit(n, i) \in Nat
    BY <1>0, <1>3, <1>4, FlowCounts DEF Repairable, Limit
  <2> QED BY <2>1
<1>6. /\ DOMAIN repairs' = DOMAIN repairs /\ DOMAIN repairs'[n] = DOMAIN repairs[n]
      /\ repairs'[n][i].rounds = k + 1
      /\ \A j \in DOMAIN repairs[n] \ {i} : repairs'[n][j] = repairs[n][j]
      /\ \A m \in DOMAIN repairs \ {n} : repairs'[m] = repairs[m]
  <2>1. PICK r : r = [rounds |-> repairs[n][i].rounds + 1, digest |-> row[n].digest,
                      repeats |-> Stuck(n, i)]
    OBVIOUS
  <2>2. repairs' = [repairs EXCEPT ![n][i] = r]
    BY <2>1 DEF RouteRepair
  <2>3. r.rounds = k + 1
    BY <1>4, <2>1
  <2> QED BY <2>2, <2>3
<1>7. TurnsShape'
  <2>1. ASSUME NEW m \in DOMAIN repairs, NEW j \in Routes(flow, m)
        PROVE  repairs'[m][j].rounds \in 0 .. Limit(m, j)
    <3>1. m \in Node /\ Limit(m, j) \in Nat /\ repairs[m][j].rounds \in 0 .. Limit(m, j)
      BY <1>3, FlowCounts DEF TurnsShape
    <3> QED BY <1>3, <1>5, <1>6, <3>1
  <2>2. \A m \in DOMAIN repairs : DOMAIN repairs'[m] = Routes(flow, m)
    BY <1>3, <1>6 DEF TurnsShape
  <2> QED BY <1>2, <1>3, <1>6, <2>1, <2>2 DEF TurnsShape, Decl, Limit
<1>8. (RoundsUsed(n))' = RoundsUsed(n) + Price(n, i)
  <2>1. PICK f : f = [j \in Routes(flow, n) |-> Price(n, j) * repairs[n][j].rounds]
    OBVIOUS
  <2>2. PICK g : g = [j \in Routes(flow, n) |-> Price(n, j) * repairs'[n][j].rounds]
    OBVIOUS
  <2>3. Price(n, i) \in Nat /\ IsFiniteSet(Routes(flow, n))
    BY <1>0, <1>3, FlowCounts
  <2>4. Price(n, i) * (k + 1) = Price(n, i) * k + Price(n, i)
    BY <2>3
  <2>5. \A j \in Routes(flow, n) : f[j] \in Nat
    BY <1>0, <1>3, <2>1, TermsAreCounts
  <2>6. \A j \in Routes(flow, n) :
          f[j] \in Nat /\ g[j] = IF j = i THEN f[j] + Price(n, i) ELSE f[j]
    BY <1>3, <1>4, <1>6, <2>1, <2>2, <2>4, <2>5
  <2>7. SumOver(Routes(flow, n), g) = SumOver(Routes(flow, n), f) + Price(n, i)
    <3>1. PICK T, d : T = Routes(flow, n) /\ d = Price(n, i)
      OBVIOUS
    <3>2. /\ IsFiniteSet(T) /\ i \in T /\ d \in Nat
          /\ \A j \in T : f[j] \in Nat /\ g[j] = IF j = i THEN f[j] + d ELSE f[j]
      BY <1>3, <2>3, <2>6, <3>1
    <3>3. SumOver(T, g) = SumOver(T, f) + d
      BY <3>2, SumPlus
    <3> QED BY <3>1, <3>3
  <2>8. RoundsUsed(n) = SumOver(Routes(flow, n), f)
    BY <2>1 DEF RoundsUsed
  <2>9. (RoundsUsed(n))' = SumOver(Routes(flow, n), g)
    <3>1. \A j : (Price(n, j))' = Price(n, j)
      BY DEF Price, Decl
    <3> QED BY <2>2, <3>1 DEF RoundsUsed, Routes
  <2> QED BY <2>7, <2>8, <2>9
<1>9. RepairsUsed' = RepairsUsed + Price(n, i)
  <2>1. PICK f : f = [m \in Node |-> RoundsUsed(m)]
    OBVIOUS
  <2>2. PICK g : g = [m \in Node |-> (RoundsUsed(m))']
    OBVIOUS
  <2>3. ASSUME NEW m \in Node, m # n PROVE (RoundsUsed(m))' = RoundsUsed(m)
    <3>1. \A j \in Routes(flow, m) : repairs'[m][j].rounds = repairs[m][j].rounds
      <4>1. ASSUME NEW j \in Routes(flow, m) PROVE m \in DOMAIN repairs
        BY <1>3, <4>1 DEF TurnsShape, Routes, Decl
      <4> QED BY <1>6, <2>3, <4>1
    <3>2. \A j : (Price(m, j))' = Price(m, j)
      BY DEF Price, Decl
    <3>3. [j \in Routes(flow, m) |-> Price(m, j) * repairs'[m][j].rounds]
            = [j \in Routes(flow, m) |-> Price(m, j) * repairs[m][j].rounds]
      BY <3>1
    <3> QED BY <3>2, <3>3 DEF RoundsUsed, Routes
  <2>4. n \in Integrations /\ Integrations' = Integrations /\ IsFiniteSet(Integrations)
        /\ Integrations \subseteq Node
    BY <1>0, <1>3, FlowCounts DEF TurnsShape, Integrations, Decl
  <2>5. Price(n, i) \in Nat
    BY <1>0, <1>3, FlowCounts
  <2>6. \A m \in Integrations : RoundsUsed(m) \in Nat
    BY <1>3, <2>4, TermsAreCounts
  <2>7. \A m \in Integrations :
          f[m] \in Nat /\ g[m] = IF m = n THEN f[m] + Price(n, i) ELSE f[m]
    BY <1>8, <2>1, <2>2, <2>3, <2>4, <2>6
  <2>8. SumOver(Integrations, g) = SumOver(Integrations, f) + Price(n, i)
    <3>1. PICK T, d : T = Integrations /\ d = Price(n, i)
      OBVIOUS
    <3>2. /\ IsFiniteSet(T) /\ n \in T /\ d \in Nat
          /\ \A m \in T : f[m] \in Nat /\ g[m] = IF m = n THEN f[m] + d ELSE f[m]
      BY <2>4, <2>5, <2>7, <3>1
    <3>3. SumOver(T, g) = SumOver(T, f) + d
      BY <3>2, SumPlus
    <3> QED BY <3>1, <3>3
  <2>9. RepairsUsed = SumOver(Integrations, f) /\ RepairsUsed' = SumOver(Integrations, g)
    BY <1>3, <2>1, <2>2, <2>4 DEF RepairsUsed
  <2> QED BY <2>8, <2>9
<1>10. LoopsUsed' = LoopsUsed
  BY <1>2 DEF LoopsUsed, Size, Turns, LastTurn, Decl
<1>11. Cardinality(Node \cap reopened) <= Price(n, i) /\ Price(n, i) \in Nat
  <2>1. PICK targets : targets = Decl(n).repair[i].targets
    OBVIOUS
  <2>2. IsFiniteSet(targets) /\ Cardinality(targets) \in Nat
    BY <1>0, <1>3, <2>1, FlowCounts, FS_CardinalityType
  <2>3. PICK blamed : blamed = TargetNodes(Decl(n).repair[i])
    OBVIOUS
  <2>4. IsFiniteSet(blamed) /\ Cardinality(blamed) <= Cardinality(targets)
    <3>1. PICK f : f = [t \in targets |-> t.node]
      OBVIOUS
    <3>2. f \in Surjection(targets, blamed)
      BY <2>1, <2>3, <3>1 DEF TargetNodes, Surjection
    <3> QED BY <2>2, <3>2, FS_Surjection
  <2>5. /\ IsFiniteSet(blamed \cup {n})
        /\ Cardinality(blamed \cup {n}) <= Cardinality(blamed) + 1
    <3>1. Cardinality(blamed) \in Nat
      BY <2>4, FS_CardinalityType
    <3> QED BY <2>4, <3>1, FS_AddElement
  <2>6. /\ Cardinality(Node \cap reopened) \in Nat
        /\ Cardinality(Node \cap reopened) <= Cardinality(blamed \cup {n})
        /\ Cardinality(blamed \cup {n}) \in Nat
    <3>1. Node \cap reopened \subseteq blamed \cup {n}
      BY <1>1, <2>3
    <3> QED BY <2>5, <3>1, FS_Subset, FS_CardinalityType
  <2>7. Cardinality(blamed) \in Nat
    BY <2>4, FS_CardinalityType
  <2> QED BY <2>1, <2>2, <2>4, <2>5, <2>6, <2>7 DEF Price
<1>12. LoopsUsed \in Nat /\ RepairsUsed \in Nat
  BY <1>3, TermsAreCounts
<1>13. /\ LoopsUsed' \in Nat /\ RepairsUsed' \in Nat
       /\ LoopsUsed' + RepairsUsed' = LoopsUsed + RepairsUsed + Price(n, i)
  BY <1>9, <1>10, <1>11, <1>12
<1>14. \A m \in Node \ (Node \cap reopened) :
         row'[m].status = "pending" => row[m].status = "pending"
  BY <1>2
<1> QED BY <1>2, <1>7, <1>11, <1>13, <1>14, KReopen

(* Steps that leave the turns and the rounds as they are.                  *)
LEMMA KKept ==
  ASSUME CInv, KInv, UNCHANGED <<flow, loops, repairs>>, DOMAIN joins' = DOMAIN joins,
         blame \subseteq blame',
         Paid' /\ Paid /\ WithinBudget =>
           /\ \A n \in Node : row'[n].count = row[n].count
           /\ \A n \in Node : row'[n].status = "pending" => row[n].status = "pending"
           /\ pc' # "budget"
           /\ pc' = "failed" => todo' \subseteq DOMAIN repairs
  PROVE  KInv'
<1>1. \A c \in Kept(flow) : /\ loops'[c].iterations \in Nat
                            /\ loops[c].iterations <= loops'[c].iterations
  BY DEF KInv, TurnsShape
<1> QED BY <1>1, KStay

LEMMA KTurns ==
  ASSUME CInv, JInv, KInv,
         \/ NextPass \/ Expired \/ Again \/ GivenUp \/ Recovered \/ Call
         \/ NoneDone \/ Raise \/ Crash \/ Conclude \/ Check \/ Checked
         \/ \E n \in Node : Fetch(n) \/ Expire(n) \/ Join(n) \/ Outlived(n)
  PROVE  KInv'
<1>1. ASSUME UNCHANGED <<flow, loops, repairs, row, blame>>, DOMAIN joins' = DOMAIN joins,
             \/ pc' \notin {"failed", "budget"}
             \/ pc' = pc /\ todo' = todo
      PROVE  KInv'
  BY <1>1, KKept DEF WithinBudget
<1>2. CASE NextPass
  <2>1. After(pc) \notin {"failed", "budget"}
    BY <1>2 DEF NextPass, After, Passes
  <2> QED BY <1>1, <1>2, <2>1 DEF NextPass, Begin, store
<1>3. CASE Expired \/ Again \/ GivenUp \/ Recovered \/ Call \/ NoneDone \/ Check
  BY <1>1, <1>3 DEF Expired, Again, GivenUp, Recovered, Call, NoneDone, Check, Begin, store
<1>4. CASE Raise \/ Crash \/ Conclude \/ Checked
  BY <1>1, <1>4 DEF Raise, Crash, Conclude, Checked, FinishRun, Stop, store
<1>5. ASSUME NEW n \in Node, Fetch(n) \/ Expire(n) \/ Outlived(n) PROVE KInv'
  BY <1>1, <1>5 DEF Fetch, Expire, Outlived, store
<1>6. ASSUME NEW n \in Node, Join(n) PROVE KInv'
  <2>1. DOMAIN joins' = DOMAIN joins
    BY <1>6 DEF Join
  <2> QED BY <1>1, <1>6, <2>1 DEF Join, Local
<1> QED BY <1>2, <1>3, <1>4, <1>5, <1>6

(* What is settled is not pending, and nothing is given up.                *)
LEMMA KSettles ==
  ASSUME CInv, JInv, KInv, NEW n \in Node,
         Block(n) \/ Skip(n) \/ Refuse(n) \/ Invalidate(n) \/ GiveUp(n)
  PROVE  KInv'
<1>1. PICK s \in {"failed", "blocked", "skipped"} : SetStatus(n, s)
  BY SettlesAre
<1>2. UNCHANGED <<flow, loops, repairs, joins, pc>> /\ pc # "failed"
  BY SettlesAre
<1>3. /\ row'[n].status = s /\ row'[n].count = row[n].count
      /\ \A m \in Node \ {n} : row'[m] = row[m]
  BY <1>1, SetStatusIs DEF CInv
<1>4. blame \subseteq blame'
  BY DEF Block, Skip, Refuse, Invalidate, GiveUp, Blame
<1>5. /\ \A m \in Node : row'[m].count = row[m].count
      /\ \A m \in Node : row'[m].status = "pending" => row[m].status = "pending"
  BY <1>3
<1> QED BY <1>2, <1>4, <1>5, KKept DEF WithinBudget

(* An integration that failed is repaired or stays failed; another node    *)
(* would have failed for a reason that no repair is for.                   *)
LEMMA KRepairs ==
  ASSUME CInv, JInv, KInv, NEW n \in Node, Repair(n) \/ Finalize(n) PROVE KInv'
<1>1. /\ UNCHANGED <<flow, blame>>
      /\ \/ pc = "repair" /\ pc' = "repair"
         \/ pc = "failed" /\ pc' = "expire"
  BY DEF Repair, Finalize, Local
<1>2. CASE UNCHANGED store
  BY <1>1, <1>2, KKept DEF store
<1>3. ASSUME NEW i \in DOMAIN repairs[n], n \in DOMAIN repairs,
             Repairable(n, i), RouteRepair(n, i)
      PROVE  KInv'
  BY <1>1, <1>3, KRouteRepair
<1>4. CASE Finalize(n) /\ n \notin DOMAIN repairs
  <2>1. UNCHANGED <<flow, loops, repairs, joins>> /\ pc = "failed" /\ todo = {n}
    BY <1>4 DEF Finalize
  <2>2. ~(Paid /\ WithinBudget)
    BY <1>4, <2>1 DEF WithinBudget
  <2> QED BY <1>1, <2>1, <2>2, KKept
<1>5. CASE TryRepair(n) /\ n \in DOMAIN repairs
  BY <1>2, <1>3, <1>5 DEF TryRepair
<1>6. Repair(n) => n \in DOMAIN repairs
  <2>1. ASSUME Repair(n) PROVE n \in todo
    BY <2>1, VisitIsDue DEF Repair, Visit, CInv
  <2> QED BY <2>1 DEF JInv, PassCurrent, Repair
<1> QED BY <1>2, <1>4, <1>5, <1>6 DEF Repair, Finalize

LEMMA KLoop == ASSUME CInv, JInv, KInv, NEW n \in Node, Loop(n) PROVE KInv'
<1>1. /\ pc \in {"loops", "reloop"} /\ n \in Kept(flow) /\ UNCHANGED <<flow, pc>>
  BY LoopIs DEF Local
<1>2. blame \subseteq blame'
  BY DEF Loop, Malformed, Blame, Exhausted, Continued
<1>3. CASE UNCHANGED store
  BY <1>1, <1>2, <1>3, KKept DEF store
<1>4. CASE FailClosed(n)
  <2>1. /\ row'[n].status = "failed" /\ row'[n].count = row[n].count
        /\ \A m \in Node \ {n} : row'[m] = row[m]
    BY <1>4, SetStatusIs DEF FailClosed, CInv
  <2>2. /\ \A m \in Node : row'[m].count = row[m].count
        /\ \A m \in Node : row'[m].status = "pending" => row[m].status = "pending"
    BY <2>1
  <2> QED BY <1>1, <1>2, <1>4, <2>2, KKept DEF FailClosed
<1>5. CASE Checkpoint(n) /\ Continued(n) /\ Iteration(n) < Decl(n).loop.iterations
  BY <1>1, <1>2, <1>5, KContinued
<1>6. ASSUME Checkpoint(n), UNCHANGED <<joins, repairs>>,
             \A m \in Node : /\ row'[m].count = row[m].count
                             /\ row'[m].status = "pending" => row[m].status = "pending"
      PROVE  KInv'
  <2>1. PICK i \in Nat : i = loops[n].iterations
    BY <1>1 DEF KInv, TurnsShape
  <2>2. loops'[n].iterations = i + 1 /\ \A c \in Kept(flow) \ {n} : loops'[c] = loops[c]
    BY <1>1, <1>6, <2>1 DEF Checkpoint, Iteration, CInv, ControlShape
  <2>3. ASSUME NEW c \in Kept(flow)
        PROVE  /\ loops'[c].iterations \in Nat
               /\ loops[c].iterations <= loops'[c].iterations
    <3>1. loops[c].iterations \in Nat
      BY DEF KInv, TurnsShape
    <3>2. CASE c = n
      BY <2>1, <2>2, <3>2
    <3>3. CASE c # n
      BY <2>2, <3>1, <3>3
    <3> QED BY <3>2, <3>3
  <2>4. pc' # "budget" /\ pc' # "failed"
    BY <1>1
  <2> QED BY <1>1, <1>2, <1>6, <2>3, <2>4, KStay
<1>7. CASE Checkpoint(n) /\ Exhausted(n)
  <2>1. ASSUME NEW m \in Node
        PROVE  /\ row'[m].count = row[m].count
               /\ row'[m].status = "pending" => row[m].status = "pending"
    <3>1. PICK s : s = IF row[n].status = "succeeded" THEN "failed" ELSE row[n].status
      OBVIOUS
    <3>2. SetStatus(n, s)
      BY <1>7, <3>1 DEF Exhausted, SetStatus, CInv, ControlShape
    <3>3. /\ row'[n].status = s /\ row'[n].count = row[n].count
          /\ \A k \in Node \ {n} : row'[k] = row[k]
      BY <3>2, SetStatusIs DEF CInv
    <3> QED BY <3>1, <3>3
  <2> QED BY <1>6, <1>7, <2>1 DEF Exhausted
<1>8. CASE Checkpoint(n) /\ UNCHANGED <<run, row, art, routes, repairs, joins>>
  BY <1>6, <1>8
<1>9. \/ UNCHANGED store
      \/ FailClosed(n)
      \/ /\ Checkpoint(n)
         /\ \/ UNCHANGED <<run, row, art, routes, repairs, joins>>
            \/ Exhausted(n)
            \/ Continued(n) /\ ~(Iteration(n) >= Decl(n).loop.iterations)
  BY DEF Loop
<1>10. ~(Iteration(n) >= Decl(n).loop.iterations) => Iteration(n) < Decl(n).loop.iterations
  <2>1. Decl(n).loop # None
    BY <1>1 DEF Kept, Decl
  <2>2. Decl(n).loop.iterations \in Nat
    BY <2>1, ControlAssumption DEF CInv, ControlShape, Decl, Node
  <2>3. Iteration(n) \in Nat
    <3>1. loops[n].iterations \in Nat
      BY <1>1 DEF KInv, TurnsShape
    <3> QED BY <3>1 DEF Iteration
  <2> QED BY <2>2, <2>3
<1> QED BY <1>3, <1>4, <1>5, <1>7, <1>8, <1>9, <1>10

LEMMA KRoute == ASSUME CInv, JInv, KInv, NEW n \in Node, Route(n) PROVE KInv'
<1>1. PICK p : p = Decl(n).route[1]
  OBVIOUS
<1>2. /\ pc \in {"routes", "reroute"} /\ UNCHANGED <<flow, pc>>
      /\ row[n].status = "pending"
      /\ \/ UNCHANGED store
         \/ FailClosed(n)
         \/ /\ SetStatus(n, IF Matches(p) THEN "pending" ELSE "skipped")
            /\ UNCHANGED <<run, art, loops, repairs, joins>>
  BY <1>1, RouteIs DEF Local
<1>3. blame \subseteq blame'
  BY DEF Route, Malformed, Blame
<1>4. CASE UNCHANGED store
  BY <1>2, <1>3, <1>4, KKept DEF store
<1>5. ASSUME NEW s, SetStatus(n, s), UNCHANGED <<loops, repairs, joins>> PROVE KInv'
  <2>1. /\ row'[n].status = s /\ row'[n].count = row[n].count
        /\ \A m \in Node \ {n} : row'[m] = row[m]
    BY <1>5, SetStatusIs DEF CInv
  <2>2. /\ \A m \in Node : row'[m].count = row[m].count
        /\ \A m \in Node : row'[m].status = "pending" => row[m].status = "pending"
    BY <1>2, <2>1
  <2> QED BY <1>2, <1>3, <1>5, <2>2, KKept
<1> QED BY <1>2, <1>4, <1>5 DEF FailClosed

(* An attempt is one that waited for it, and is paid for as it was.        *)
LEMMA KStart == ASSUME CInv, JInv, KInv, NEW n \in Node, Start(n) PROVE KInv'
<1>1. /\ pc = "dispatch" /\ n \in todo /\ row'[n].status = "running"
      /\ \A m \in Node \ {n} : row'[m] = row[m]
      /\ UNCHANGED <<flow, loops, repairs, joins, pc>>
  BY StartIs DEF CInv
<1>2. blame' = blame /\ row[n].status = "pending" /\ Node' = Node
  BY <1>1 DEF Start, CInv, PassOrderly, Node
<1>3. row'[n].count = row[n].count + 1
  <2>1. PICK r : r = [row[n] EXCEPT !.status = "running", !.count = @ + 1,
                                     !.failure = Silent]
    OBVIOUS
  <2>2. row'[n] = r
    BY <2>1 DEF Start, CInv, ControlShape
  <2>3. DOMAIN row[n] = Fields
    BY RowHasFields DEF CInv
  <2>4. r.count = row[n].count + 1
    BY <2>1, <2>3 DEF Fields
  <2> QED BY <2>2, <2>4
<1>4. TurnsShape /\ TurnsShape'
  BY <1>1, <1>2 DEF KInv, TurnsShape, Decl, Limit
<1>5. ASSUME Paid' PROVE WithinBudget'
  <2>1. WithinBudget
    BY <1>1, <1>2, <1>5, PaidBefore DEF KInv
  <2>2. Attempts' = Attempts + 1
    <3>1. PICK f : f = [m \in Node |-> row[m].count]
      OBVIOUS
    <3>2. PICK g : g = [m \in Node |-> row'[m].count]
      OBVIOUS
    <3>3. \A m \in Node : f[m] \in Nat /\ g[m] = IF m = n THEN f[m] + 1 ELSE f[m]
      BY <1>1, <1>3, <3>1, <3>2 DEF CInv, ControlShape
    <3>4. IsFiniteSet(Node) /\ 1 \in Nat
      BY FlowCounts
    <3>5. SumOver(Node, g) = SumOver(Node, f) + 1
      BY <3>3, <3>4, SumPlus
    <3> QED BY <1>2, <3>1, <3>2, <3>5 DEF Attempts
  <2>3. Pending' = Pending \ {n} /\ n \in Pending
    BY <1>1, <1>2 DEF Pending
  <2>4. Cardinality(Pending') = Cardinality(Pending) - 1
    BY <1>4, <2>3, TermsAreCounts, FS_RemoveElement
  <2>5. LoopsUsed' = LoopsUsed /\ RepairsUsed' = RepairsUsed
    BY <1>1, <1>2 DEF LoopsUsed, Size, Turns, LastTurn, Decl, RepairsUsed, RoundsUsed,
                      Integrations, Price, Routes
  <2>6. /\ Attempts \in Nat /\ Cardinality(Pending) \in Nat /\ LoopsUsed \in Nat
        /\ RepairsUsed \in Nat /\ Cardinality(Node) \in Nat
        /\ Attempts + Cardinality(Pending) <= Cardinality(Node) + LoopsUsed + RepairsUsed
    BY <1>4, <2>1, TermsAreCounts, FlowCounts DEF WithinBudget
  <2>7. Attempts' + Cardinality(Pending') = Attempts + Cardinality(Pending)
    BY <2>2, <2>4, <2>6
  <2>8. Attempts' + Cardinality(Pending') <= Cardinality(Node') + LoopsUsed' + RepairsUsed'
    BY <1>2, <2>5, <2>6, <2>7
  <2> QED BY <1>1, <2>8 DEF WithinBudget
<1> QED BY <1>4, <1>5 DEF KInv

LEMMA KAttempts ==
  ASSUME CInv, JInv, HInv, KInv, NEW n \in Node, Succeed(n) \/ Fail(n) \/ Timeout(n)
  PROVE  KInv'
<1>1. CASE Succeed(n)
  <2>1. /\ pc' = "expire" /\ row'[n].status = "succeeded" /\ row'[n].count = row[n].count
        /\ \A m \in Node \ {n} : row'[m] = row[m]
        /\ UNCHANGED <<flow, loops, repairs, joins, blame>>
    BY <1>1, SucceedIs DEF CInv, Succeed
  <2>2. /\ \A m \in Node : row'[m].count = row[m].count
        /\ \A m \in Node : row'[m].status = "pending" => row[m].status = "pending"
    BY <2>1
  <2> QED BY <2>1, <2>2, KKept
<1>2. ASSUME NEW ail, FinishAttempt(n, ail),
             ail = Uninformed => active[n].missing /\ n \in DOMAIN active
      PROVE  KInv'
  <2>1. /\ row[n].status = "running" /\ pc' = "failed" /\ todo' = {n}
        /\ row'[n].status = "failed" /\ row'[n].count = row[n].count
        /\ \A m \in Node \ {n} : row'[m] = row[m]
        /\ UNCHANGED <<flow, loops, repairs, joins>>
    BY <1>2, FinishIs DEF CInv
  <2>2. blame \subseteq blame'
    BY <1>2 DEF FinishAttempt, Blame
  <2>3. ASSUME Paid, Paid' PROVE n \in DOMAIN repairs
    <3>1. ail # Uninformed
      BY <1>2, <2>1, <2>3 DEF HInv, Informed, Paid, Orderly
    <3>2. "failure" \notin blame'
      BY <2>3 DEF Paid
    <3>3. \E i \in Routes(flow, n) : ail.check \in Decl(n).repair[i].checks
      BY <1>2, <3>1, <3>2 DEF FinishAttempt, Blame
    <3>4. Decl(n).repair # <<>>
      BY <3>3 DEF Routes, Decl
    <3> QED BY <3>4 DEF KInv, TurnsShape
  <2>4. /\ \A m \in Node : row'[m].count = row[m].count
        /\ \A m \in Node : row'[m].status = "pending" => row[m].status = "pending"
    BY <2>1
  <2>5. Paid' /\ Paid => pc' # "budget" /\ todo' \subseteq DOMAIN repairs
    BY <2>1, <2>3
  <2> QED BY <2>1, <2>2, <2>4, <2>5, KKept
<1>3. CASE Fail(n)
  <2>1. PICK ail \in IF active[n].missing THEN {Uninformed} ELSE Decl(n).ails :
          FinishAttempt(n, ail)
    BY <1>3 DEF Fail
  <2>2. \A a \in Decl(n).ails : a.digest # "input"
    BY ControlAssumption DEF CInv, ControlShape, Decl, Node
  <2>3. Uninformed.digest = "input"
    BY DEF Uninformed
  <2>4. ail = Uninformed => active[n].missing
    BY <2>1, <2>2, <2>3
  <2> QED BY <1>2, <1>3, <2>1, <2>4 DEF Fail, Popped
<1>4. CASE Timeout(n)
  <2>1. PICK ail : ail = [check |-> None, digest |-> "deadline"]
    OBVIOUS
  <2>2. FinishAttempt(n, ail)
    BY <1>4, <2>1 DEF Timeout
  <2>3. ail.digest = "deadline" /\ Uninformed.digest = "input"
    BY <2>1 DEF Uninformed
  <2>4. ail # Uninformed
    BY <2>3
  <2> QED BY <1>2, <2>2, <2>4
<1> QED BY <1>1, <1>3, <1>4

LEMMA KRecover == ASSUME CInv, KInv, Recover PROVE KInv'
<1>1. /\ pc' = "recovered"
      /\ \A m \in Node : /\ row'[m].count = row[m].count
                         /\ IF row[m].status = "running"
                            THEN row'[m].status = "pending" ELSE row'[m] = row[m]
      /\ UNCHANGED <<flow, loops, repairs, joins>>
  BY RecoverIs DEF CInv
<1>2. blame \subseteq blame'
  BY DEF Recover, Blame
<1>3. Paid' => \A m \in Node : row[m].status # "running"
  <2>1. Paid' => "interrupted" \notin blame'
    BY DEF Paid
  <2> QED BY <2>1 DEF Recover, Blame
<1>4. Paid' => \A m \in Node : row'[m].status = "pending" => row[m].status = "pending"
  BY <1>1, <1>3
<1> QED BY <1>1, <1>2, <1>4, KKept

(* What waits is paid for, and there is no attempt to wait for.            *)
LEMMA KExhaust == ASSUME CInv, KInv, Exhaust PROVE KInv'
<1>1. /\ DOMAIN active = {} /\ ~Room /\ Pending # {} /\ UNCHANGED <<store, flow, blame>>
  BY DEF Exhaust, Concluding
<1>2. ~BudgetLeft
  <2>1. Cardinality(DOMAIN active) = 0
    BY <1>1, FS_EmptySet
  <2>2. flow.budgets.max_concurrency \in Nat \ {0}
    BY ControlAssumption DEF CInv, ControlShape
  <2>3. 0 < flow.budgets.max_concurrency
    BY <2>2
  <2> QED BY <1>1, <2>1, <2>3 DEF Room
<1>3. ~WithinBudget
  <2>1. TurnsShape
    BY DEF KInv
  <2>2. /\ Attempts \in Nat /\ Cardinality(Pending) \in Nat /\ LoopsUsed \in Nat
        /\ RepairsUsed \in Nat /\ Cardinality(Node) \in Nat
        /\ flow.budgets.max_total_attempts \in Nat
        /\ Cardinality(Node) + LoopsUsed + RepairsUsed <= flow.budgets.max_total_attempts
    BY <2>1, TermsAreCounts, FlowCounts, BudgetCovers
  <2>3. Cardinality(Pending) # 0
    BY <1>1, <2>1, TermsAreCounts, FS_EmptySet
  <2>4. ~(Attempts < flow.budgets.max_total_attempts)
    BY <1>2 DEF BudgetLeft
  <2>5. PICK a, p, c, l, r, m :
          /\ a = Attempts /\ p = Cardinality(Pending) /\ c = Cardinality(Node)
          /\ l = LoopsUsed /\ r = RepairsUsed /\ m = flow.budgets.max_total_attempts
    OBVIOUS
  <2>6. /\ a \in Nat /\ p \in Nat /\ l \in Nat /\ r \in Nat /\ c \in Nat /\ m \in Nat
        /\ c + l + r <= m /\ p # 0 /\ ~(a < m)
    BY <2>2, <2>3, <2>4, <2>5
  <2>7. ~(a + p <= c + l + r)
    BY <2>6
  <2> QED BY <2>5, <2>7 DEF WithinBudget
<1> QED BY <1>1, <1>3, KKept DEF store

LEMMA KNext == CInv /\ JInv /\ HInv /\ KInv /\ [Next]_vars => KInv'
<1> SUFFICES ASSUME CInv, JInv, HInv, KInv, [Next]_vars PROVE KInv'
  OBVIOUS
<1>1. ASSUME NEW n \in Node,
             \/ Repair(n) \/ Loop(n) \/ Route(n) \/ Join(n) \/ Block(n)
             \/ Skip(n) \/ Refuse(n) \/ Start(n) \/ Pop(n) \/ Timeout(n)
             \/ Finalize(n) \/ Invalidate(n) \/ GiveUp(n)
      PROVE  KInv'
  BY <1>1, KRepairs, KLoop, KRoute, KTurns, KSettles, KStart, KAttempts DEF Pop
<1>2. CASE UNCHANGED vars
  BY <1>2, KKept DEF vars, WithinBudget
<1> QED BY <1>1, <1>2, KTurns, KRecover, KExhaust DEF Next, Step

(* BudgetSuffices, for every set of workflows: where every node is         *)
(* undisturbed, the attempts that validate_workflow asks for are enough    *)
(* for every loop and repair to its last round (runtime.py, the            *)
(* max_total_attempts of _launch_available).                               *)
THEOREM BudgetIsEnough == ControlSpec => []BudgetSuffices
<1>1. KInv => BudgetSuffices
  BY DEF KInv, WithinBudget, Paid, BudgetSuffices
<1>2. (CInv /\ JInv /\ FInv) /\ (CInv /\ JInv /\ FInv)' /\ GInv /\ [Next]_vars => GInv'
  BY GNext
<1>3. (CInv /\ JInv /\ FInv) /\ GInv /\ HInv /\ [Next]_vars => HInv'
  BY HNext
<1>4. (CInv /\ JInv /\ FInv) /\ HInv /\ KInv /\ [Next]_vars => KInv'
  BY KNext
<1> QED BY <1>1, <1>2, <1>3, <1>4, ControlAlways, GInit, HInit, KInit, PTL DEF ControlSpec
===============================================================================
