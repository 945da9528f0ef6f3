---------------------------- MODULE OutsideProofs ----------------------------
(***************************************************************************)
(* What a run promises to those outside it.                                *)
(*                                                                         *)
(* Launches: processes that work in one scope work on one run, for any     *)
(* processes, runs and scopes.  A run that is not loose keeps its entry    *)
(* from its claim to its end; the difficulty is a late release, which      *)
(* reads the run's row in one transaction and deletes the entry in         *)
(* another.                                                                *)
(*                                                                         *)
(* Consumers of its journal: what one has heard is what its cursor stands  *)
(* for, and a call whose cursor passed the comparison of digests reads a   *)
(* journal that begins with that.                                          *)
(***************************************************************************)
EXTENDS RunScopes, EventStream, SequenceTheorems, TLAPS

------------------------------------------------------------------------------
(* Launches (RunScopes).                                                   *)

PC == {"idle", "claimed", "created", "bound", "run", "release", "delete"}

ScopeTypes ==
  /\ entry \in [Scope -> Run \cup {None}]
  /\ status \in [Run -> Status]
  /\ bound \in [Run -> Scope \cup {None}]
  /\ proc \in [Proc -> [pc : PC, run : Run \cup {None}, scope : Scope \cup {None},
                        resume : BOOLEAN]]
  /\ \A p \in Proc : ~At(p, "idle") => proc[p].run \in Run /\ proc[p].scope \in Scope
  /\ loose \subseteq Run

NotLoose(r) == r \notin loose

(* p names the run and its scope.                                          *)
Names(p, r, s) == ~At(p, "idle") /\ proc[p].run = r /\ proc[p].scope = s

(* p launches, or it will delete an entry, or may.                         *)
Claiming(p) == At(p, "claimed") /\ ~proc[p].resume
Pending(p)  == Claiming(p) \/ At(p, "release") \/ At(p, "delete")

EndedIsLoose == \A r \in Run : status[r] \in {"halted", "ended"} => ~NotLoose(r)

AbsentIsUnbound ==
  \A r \in Run : status[r] = "absent" /\ NotLoose(r) => bound[r] = None

ResumesRunning ==
  \A p \in Proc : At(p, "claimed") /\ proc[p].resume /\ NotLoose(proc[p].run) =>
    status[proc[p].run] = "running"

(* A run keeps its entry while it runs under its identity, ...             *)
BoundIsReserved ==
  \A r \in Run : bound[r] # None /\ status[r] = "running" /\ NotLoose(r) =>
    entry[bound[r]] = r

(* ... before it is bound, ...                                             *)
CreatedIsReserved ==
  \A p \in Proc : At(p, "created") /\ NotLoose(proc[p].run) =>
    /\ status[proc[p].run] = "running" /\ bound[proc[p].run] = None
    /\ entry[proc[p].scope] = proc[p].run
    /\ \A q \in Proc : At(q, "created") /\ proc[q].run = proc[p].run => q = p

(* ... and before it is created, when one process at most is about it.     *)
AbsentIsReserved ==
  \A p \in Proc :
    Pending(p) /\ NotLoose(proc[p].run) /\ status[proc[p].run] = "absent" =>
      entry[proc[p].scope] = proc[p].run

OneForAbsent ==
  \A p, q \in Proc :
    Pending(p) /\ Names(q, proc[p].run, proc[p].scope) /\ Pending(q) =>
      \/ p = q \/ ~NotLoose(proc[p].run) \/ status[proc[p].run] # "absent"

HeldIsBound ==
  \A p \in Proc : proc[p].pc \in {"bound", "run"} /\ NotLoose(proc[p].run) =>
    status[proc[p].run] = "running" /\ bound[proc[p].run] = proc[p].scope

(* What is about to be deleted is nobody's.                                *)
DeletesNothingHeld ==
  \A p \in Proc : At(p, "delete") /\ NotLoose(proc[p].run) =>
    /\ status[proc[p].run] = "running" => bound[proc[p].run] # proc[p].scope
    /\ \A q \in Proc : At(q, "created") => ~Names(q, proc[p].run, proc[p].scope)

ScopeInv ==
  /\ ScopeTypes /\ EndedIsLoose /\ AbsentIsUnbound /\ ResumesRunning /\ BoundIsReserved
  /\ CreatedIsReserved /\ AbsentIsReserved /\ OneForAbsent /\ HeldIsBound
  /\ DeletesNothingHeld






(* A process that goes on keeps its arguments, and the others stay.        *)
LEMMA GotoMoves ==
  ASSUME ScopeTypes, NEW p \in Proc, NEW pc \in PC, Goto(p, pc)
  PROVE  /\ proc' \in [Proc -> [pc : PC, run : Run \cup {None},
                                scope : Scope \cup {None}, resume : BOOLEAN]]
         /\ proc'[p].pc = pc /\ proc'[p].run = proc[p].run
         /\ proc'[p].scope = proc[p].scope /\ proc'[p].resume = proc[p].resume
         /\ \A q \in Proc : q # p => proc'[q] = proc[q]
<1>1. proc[p] \in [pc : PC, run : Run \cup {None}, scope : Scope \cup {None},
                   resume : BOOLEAN]
  BY DEF ScopeTypes
<1>2. proc'[p] = [proc[p] EXCEPT !.pc = pc]
  BY DEF ScopeTypes, Goto
<1>3. proc'[p] \in [pc : PC, run : Run \cup {None}, scope : Scope \cup {None},
                    resume : BOOLEAN]
  BY <1>1, <1>2
<1>4. \A q \in Proc : q # p => proc'[q] = proc[q]
  BY DEF ScopeTypes, Goto
<1>5. proc' = [proc EXCEPT ![p] = proc'[p]]
  BY <1>2 DEF ScopeTypes, Goto
<1>6. proc' \in [Proc -> [pc : PC, run : Run \cup {None}, scope : Scope \cup {None},
                          resume : BOOLEAN]]
  BY <1>3, <1>5 DEF ScopeTypes
<1>. QED  BY <1>1, <1>2, <1>4, <1>6

(* The first state: nothing is launched.                                   *)
LEMMA ScopeInitHolds == ScopeInit => ScopeInv
BY NoneFresh DEF ScopeInit, ScopeInv, ScopeTypes, EndedIsLoose, AbsentIsUnbound, ResumesRunning, BoundIsReserved,
  CreatedIsReserved, AbsentIsReserved, OneForAbsent, HeldIsBound, DeletesNothingHeld,
  Idle, PC, Status, At, Pending, Claiming, Names

(* A claim replaces no entry of a run that is not loose.                   *)
LEMMA ClaimKeeps ==
  ASSUME NEW p \in Proc, NEW r \in Run, NEW s \in Scope,
         NEW resume \in BOOLEAN, ScopeInv, ClaimScope(p, r, s, resume)
  PROVE  ScopeInv'
<1>1. ScopeTypes'
  BY NoneFresh
  DEF ScopeInv, ScopeTypes, ClaimScope, Holder, IsActive, At, PC, Status
<1>2. EndedIsLoose'
  BY NoneFresh
  DEF ScopeInv, ScopeTypes, EndedIsLoose, ClaimScope, Holder, IsActive, At, NotLoose, PC,
    Status
<1>3. AbsentIsUnbound'
  BY NoneFresh
  DEF ScopeInv, ScopeTypes, AbsentIsUnbound, ClaimScope, Holder, IsActive, At, NotLoose, PC,
    Status
<1>4. ResumesRunning'
  BY NoneFresh
  DEF ScopeInv, ScopeTypes, ResumesRunning, ClaimScope, Holder, IsActive, At, NotLoose, PC,
    Status
<1>5. BoundIsReserved'
  BY NoneFresh
  DEF ScopeInv, ScopeTypes, BoundIsReserved, ClaimScope, Holder, IsActive, At, NotLoose, PC,
    Status
<1>6. CreatedIsReserved'
  BY NoneFresh
  DEF ScopeInv, ScopeTypes, CreatedIsReserved, ClaimScope, Holder, IsActive, At, NotLoose, PC,
    Status
<1>7. AbsentIsReserved'
  BY NoneFresh
  DEF ScopeInv, ScopeTypes, AbsentIsReserved, ClaimScope, Holder, IsActive, At, NotLoose,
    Pending, Claiming, PC, Status
<1>8. OneForAbsent'
  BY NoneFresh
  DEF ScopeInv, ScopeTypes, EndedIsLoose, AbsentIsUnbound, ResumesRunning,
    BoundIsReserved, CreatedIsReserved, AbsentIsReserved, OneForAbsent,
    HeldIsBound, DeletesNothingHeld, ClaimScope, Holder, IsActive, At, NotLoose,
    Names, Claiming, Pending, PC, Status
<1>9. HeldIsBound'
  BY NoneFresh
  DEF ScopeInv, ScopeTypes, HeldIsBound, ClaimScope, Holder, IsActive, At, NotLoose, PC,
    Status
<1>10. DeletesNothingHeld'
  BY NoneFresh
  DEF ScopeInv, ScopeTypes, DeletesNothingHeld, ClaimScope, Holder, IsActive, At, NotLoose,
    Names, PC, Status
<1>. QED  BY <1>1, <1>2, <1>3, <1>4, <1>5, <1>6, <1>7, <1>8, <1>9, <1>10 DEF ScopeInv

(* create_run, under the entry of the claim.                               *)
LEMMA CreateKeeps ==
  ASSUME NEW p \in Proc, ScopeInv, CreateRun(p)
  PROVE  ScopeInv'
<1>1. ScopeTypes'
  BY NoneFresh, GotoMoves
  DEF ScopeInv, ScopeTypes, CreateRun, At, PC, Status
<1>2. EndedIsLoose'
  BY NoneFresh, GotoMoves
  DEF ScopeInv, ScopeTypes, EndedIsLoose, CreateRun, At, NotLoose, PC, Status
<1>3. AbsentIsUnbound'
  BY NoneFresh, GotoMoves
  DEF ScopeInv, ScopeTypes, AbsentIsUnbound, CreateRun, At, NotLoose, PC, Status
<1>4. ResumesRunning'
  BY NoneFresh, GotoMoves
  DEF ScopeInv, ScopeTypes, ResumesRunning, CreateRun, At, NotLoose, PC, Status
<1>5. BoundIsReserved'
  BY NoneFresh, GotoMoves
  DEF ScopeInv, ScopeTypes, EndedIsLoose, AbsentIsUnbound, ResumesRunning,
    BoundIsReserved, CreatedIsReserved, AbsentIsReserved, OneForAbsent,
    HeldIsBound, DeletesNothingHeld, CreateRun, At, NotLoose, Names, Claiming,
    Pending, PC, Status
<1>6. CreatedIsReserved'
  BY NoneFresh, GotoMoves
  DEF ScopeInv, ScopeTypes, EndedIsLoose, AbsentIsUnbound, ResumesRunning,
    BoundIsReserved, CreatedIsReserved, AbsentIsReserved, OneForAbsent,
    HeldIsBound, DeletesNothingHeld, CreateRun, At, NotLoose, Names, Claiming,
    Pending, PC, Status
<1>7. AbsentIsReserved'
  BY NoneFresh, GotoMoves
  DEF ScopeInv, ScopeTypes, AbsentIsReserved, CreateRun, At, NotLoose, Pending, Claiming,
    PC, Status
<1>8. OneForAbsent'
  BY NoneFresh, GotoMoves
  DEF ScopeInv, ScopeTypes, OneForAbsent, CreateRun, At, NotLoose, Pending, Claiming,
    Names, PC, Status
<1>9. HeldIsBound'
  BY NoneFresh, GotoMoves
  DEF ScopeInv, ScopeTypes, HeldIsBound, CreateRun, At, NotLoose, PC, Status
<1>10. DeletesNothingHeld'
  BY NoneFresh, GotoMoves
  DEF ScopeInv, ScopeTypes, EndedIsLoose, AbsentIsUnbound, ResumesRunning,
    BoundIsReserved, CreatedIsReserved, AbsentIsReserved, OneForAbsent,
    HeldIsBound, DeletesNothingHeld, CreateRun, At, NotLoose, Names, Claiming,
    Pending, PC, Status
<1>. QED  BY <1>1, <1>2, <1>3, <1>4, <1>5, <1>6, <1>7, <1>8, <1>9, <1>10 DEF ScopeInv

(* The identity is bound while the entry is held.                          *)
LEMMA BindKeeps ==
  ASSUME NEW p \in Proc, ScopeInv, BindIdentity(p)
  PROVE  ScopeInv'
<1>1. ScopeTypes'
  BY NoneFresh, GotoMoves
  DEF ScopeInv, ScopeTypes, BindIdentity, At, PC, Status
<1>2. EndedIsLoose'
  BY NoneFresh, GotoMoves
  DEF ScopeInv, ScopeTypes, EndedIsLoose, BindIdentity, At, NotLoose, PC, Status
<1>3. AbsentIsUnbound'
  BY NoneFresh, GotoMoves
  DEF ScopeInv, ScopeTypes, EndedIsLoose, AbsentIsUnbound, ResumesRunning,
    BoundIsReserved, CreatedIsReserved, AbsentIsReserved, OneForAbsent,
    HeldIsBound, DeletesNothingHeld, BindIdentity, At, NotLoose, Names,
    Claiming, Pending, PC, Status
<1>4. ResumesRunning'
  BY NoneFresh, GotoMoves
  DEF ScopeInv, ScopeTypes, ResumesRunning, BindIdentity, At, NotLoose, PC, Status
<1>5. BoundIsReserved'
  BY NoneFresh, GotoMoves
  DEF ScopeInv, ScopeTypes, EndedIsLoose, AbsentIsUnbound, ResumesRunning,
    BoundIsReserved, CreatedIsReserved, AbsentIsReserved, OneForAbsent,
    HeldIsBound, DeletesNothingHeld, BindIdentity, At, NotLoose, Names,
    Claiming, Pending, PC, Status
<1>6. CreatedIsReserved'
  <2>1. ASSUME NEW q \in Proc, At(q, "created")', NotLoose(proc[q].run)'
        PROVE  /\ q # p /\ proc'[q] = proc[q] /\ proc[q].run # proc[p].run
               /\ At(q, "created") /\ NotLoose(proc[q].run)
    <3>1. q # p /\ proc'[q] = proc[q]
      BY <2>1, GotoMoves DEF ScopeInv, BindIdentity, At, PC
    <3>2. At(q, "created") /\ NotLoose(proc[q].run)
      BY <2>1, <3>1 DEF BindIdentity, At, NotLoose
    <3> QED BY <3>1, <3>2 DEF ScopeInv, CreatedIsReserved, BindIdentity
  <2>2. ASSUME NEW q \in Proc, At(q, "created")', NotLoose(proc[q].run)'
        PROVE  /\ (status[proc[q].run] = "running")'
               /\ (bound[proc[q].run] = None)'
               /\ (entry[proc[q].scope] = proc[q].run)'
    <3>1. bound'[proc[q].run] = bound[proc[q].run]
      BY <2>1, <2>2 DEF ScopeInv, ScopeTypes, BindIdentity, At
    <3> QED BY <2>1, <2>2, <3>1
            DEF ScopeInv, CreatedIsReserved, BindIdentity
  <2>3. ASSUME NEW q \in Proc, At(q, "created")', NotLoose(proc[q].run)',
               NEW u \in Proc, At(u, "created")', proc'[u].run = proc'[q].run
        PROVE  u = q
    <3>1. At(u, "created") /\ proc[u].run = proc[q].run
      BY <2>1, <2>3 DEF BindIdentity, NotLoose
    <3> QED BY <2>1, <2>3, <3>1 DEF ScopeInv, CreatedIsReserved
  <2> QED BY <2>2, <2>3 DEF CreatedIsReserved
<1>7. AbsentIsReserved'
  BY NoneFresh, GotoMoves
  DEF ScopeInv, ScopeTypes, AbsentIsReserved, BindIdentity, At, NotLoose, Pending,
    Claiming, PC, Status
<1>8. OneForAbsent'
  BY NoneFresh, GotoMoves
  DEF ScopeInv, ScopeTypes, OneForAbsent, BindIdentity, At, NotLoose, Pending, Claiming,
    Names, PC, Status
<1>9. HeldIsBound'
  BY NoneFresh, GotoMoves
  DEF ScopeInv, ScopeTypes, EndedIsLoose, AbsentIsUnbound, ResumesRunning,
    BoundIsReserved, CreatedIsReserved, AbsentIsReserved, OneForAbsent,
    HeldIsBound, DeletesNothingHeld, BindIdentity, At, NotLoose, Names,
    Claiming, Pending, PC, Status
<1>10. DeletesNothingHeld'
  <2>2. ASSUME NEW q \in Proc, At(q, "delete")' \/ At(q, "created")'
        PROVE  proc'[q] = proc[q] /\ proc[q].run \in Run /\ q # p
    <3>1. q # p /\ proc'[q] = proc[q]
      BY <2>2, GotoMoves DEF ScopeInv, BindIdentity, At, PC
    <3>. QED  BY <2>2, <3>1 DEF ScopeInv, ScopeTypes, At
  <2>3. ASSUME NEW q \in Proc, At(q, "delete")', NotLoose(proc[q].run)'
        PROVE  /\ proc'[q] = proc[q] /\ At(q, "delete") /\ NotLoose(proc[q].run)
               /\ ~Names(p, proc[q].run, proc[q].scope)
    <3>1. proc'[q] = proc[q] /\ At(q, "delete") /\ NotLoose(proc[q].run)
      BY <2>2, <2>3 DEF BindIdentity, At, NotLoose
    <3>. QED  BY <3>1 DEF ScopeInv, DeletesNothingHeld, BindIdentity
  <2>4. ASSUME NEW q \in Proc, At(q, "delete")', NotLoose(proc[q].run)'
        PROVE  (status[proc[q].run] = "running" => bound[proc[q].run] # proc[q].scope)'
    <3>1. CASE proc[q].run = proc[p].run
      <4>1. proc[p].run \in Run /\ bound'[proc[p].run] = proc[p].scope
        BY DEF ScopeInv, ScopeTypes, BindIdentity, At
      <4>2. proc[q].scope # proc[p].scope
        BY <2>3, <2>4, <3>1 DEF Names, BindIdentity, At
      <4>. QED  BY <2>3, <2>4, <3>1, <4>1, <4>2
    <3>2. CASE proc[q].run # proc[p].run
      <4>1. bound'[proc[q].run] = bound[proc[q].run]
        BY <2>2, <2>4, <3>2 DEF ScopeInv, ScopeTypes, BindIdentity
      <4>. QED  BY <2>3, <2>4, <4>1 DEF ScopeInv, DeletesNothingHeld, BindIdentity
    <3>. QED  BY <3>1, <3>2
  <2>5. ASSUME NEW q \in Proc, At(q, "delete")', NotLoose(proc[q].run)',
               NEW u \in Proc, At(u, "created")'
        PROVE  ~Names(u, proc[q].run, proc[q].scope)'
    <3>1. At(u, "created") /\ proc'[u] = proc[u]
      BY <2>2, <2>5 DEF At
    <3>. QED  BY <2>3, <2>5, <3>1 DEF ScopeInv, DeletesNothingHeld, Names, At
  <2>. QED  BY <2>4, <2>5 DEF DeletesNothingHeld
<1>. QED  BY <1>1, <1>2, <1>3, <1>4, <1>5, <1>6, <1>7, <1>8, <1>9, <1>10 DEF ScopeInv

(* A resume goes on only under the run's identity.                         *)
LEMMA VerifyKeeps ==
  ASSUME NEW p \in Proc, ScopeInv, VerifyIdentity(p)
  PROVE  ScopeInv'
<1>1. ScopeTypes'
  BY NoneFresh, GotoMoves
  DEF ScopeInv, ScopeTypes, VerifyIdentity, Resumable, At, PC, Status
<1>2. EndedIsLoose'
  BY NoneFresh, GotoMoves
  DEF ScopeInv, ScopeTypes, EndedIsLoose, VerifyIdentity, Resumable, At, NotLoose, PC,
    Status
<1>3. AbsentIsUnbound'
  BY NoneFresh, GotoMoves
  DEF ScopeInv, ScopeTypes, AbsentIsUnbound, VerifyIdentity, Resumable, At, NotLoose, PC,
    Status
<1>4. ResumesRunning'
  BY NoneFresh, GotoMoves
  DEF ScopeInv, ScopeTypes, ResumesRunning, VerifyIdentity, Resumable, At, NotLoose, PC,
    Status
<1>5. BoundIsReserved'
  BY NoneFresh, GotoMoves
  DEF ScopeInv, ScopeTypes, BoundIsReserved, VerifyIdentity, Resumable, At, NotLoose, PC,
    Status
<1>6. CreatedIsReserved'
  BY NoneFresh, GotoMoves
  DEF ScopeInv, ScopeTypes, CreatedIsReserved, VerifyIdentity, Resumable, At, NotLoose,
    PC, Status
<1>7. AbsentIsReserved'
  BY NoneFresh, GotoMoves
  DEF ScopeInv, ScopeTypes, EndedIsLoose, AbsentIsUnbound, ResumesRunning,
    BoundIsReserved, CreatedIsReserved, AbsentIsReserved, OneForAbsent,
    HeldIsBound, DeletesNothingHeld, VerifyIdentity, Resumable, At, NotLoose,
    Names, Claiming, Pending, PC, Status
<1>8. OneForAbsent'
  BY NoneFresh, GotoMoves
  DEF ScopeInv, ScopeTypes, EndedIsLoose, AbsentIsUnbound, ResumesRunning,
    BoundIsReserved, CreatedIsReserved, AbsentIsReserved, OneForAbsent,
    HeldIsBound, DeletesNothingHeld, VerifyIdentity, Resumable, At, NotLoose,
    Names, Claiming, Pending, PC, Status
<1>9. HeldIsBound'
  BY NoneFresh, GotoMoves
  DEF ScopeInv, ScopeTypes, EndedIsLoose, AbsentIsUnbound, ResumesRunning,
    BoundIsReserved, CreatedIsReserved, AbsentIsReserved, OneForAbsent,
    HeldIsBound, DeletesNothingHeld, VerifyIdentity, Resumable, At, NotLoose,
    Names, Claiming, Pending, PC, Status
<1>10. DeletesNothingHeld'
  BY NoneFresh, GotoMoves
  DEF ScopeInv, ScopeTypes, DeletesNothingHeld, VerifyIdentity, Resumable, At, NotLoose,
    Names, PC, Status
<1>. QED  BY <1>1, <1>2, <1>3, <1>4, <1>5, <1>6, <1>7, <1>8, <1>9, <1>10 DEF ScopeInv

(* A fork that is activated was claimed while pending.                     *)
LEMMA AcquireKeeps ==
  ASSUME NEW p \in Proc, ScopeInv, Acquire(p)
  PROVE  ScopeInv'
<1>1. ScopeTypes'
  BY NoneFresh, GotoMoves
  DEF ScopeInv, ScopeTypes, Acquire, Activated, Executable, At, PC, Status
<1>2. EndedIsLoose'
  BY NoneFresh, GotoMoves
  DEF ScopeInv, ScopeTypes, EndedIsLoose, Acquire, Activated, Executable, At, NotLoose,
    PC, Status
<1>3. AbsentIsUnbound'
  BY NoneFresh, GotoMoves
  DEF ScopeInv, ScopeTypes, AbsentIsUnbound, Acquire, Activated, Executable, At,
    NotLoose, PC, Status
<1>4. ResumesRunning'
  <2>1. ASSUME NEW r \in Run, status[r] = "running" PROVE status'[r] = "running"
    BY <2>1 DEF ScopeInv, ScopeTypes, Acquire, Activated
  <2>2. ASSUME NEW q \in Proc, At(q, "claimed")'
        PROVE  proc'[q] = proc[q] /\ At(q, "claimed") /\ proc[q].run \in Run
    <3>1. q # p /\ proc'[q] = proc[q]
      BY <2>2, GotoMoves DEF ScopeInv, Acquire, At, PC
    <3>. QED  BY <2>2, <3>1 DEF ScopeInv, ScopeTypes, At
  <2>. QED  BY <2>1, <2>2 DEF ScopeInv, ResumesRunning, Acquire, NotLoose
<1>5. BoundIsReserved'
  BY NoneFresh, GotoMoves
  DEF ScopeInv, ScopeTypes, EndedIsLoose, AbsentIsUnbound, ResumesRunning,
    BoundIsReserved, CreatedIsReserved, AbsentIsReserved, OneForAbsent,
    HeldIsBound, DeletesNothingHeld, Acquire, Activated, Executable, At,
    NotLoose, Names, Claiming, Pending, PC, Status
<1>6. CreatedIsReserved'
  BY NoneFresh, GotoMoves
  DEF ScopeInv, ScopeTypes, CreatedIsReserved, Acquire, Activated, Executable, At,
    NotLoose, PC, Status
<1>7. AbsentIsReserved'
  BY NoneFresh, GotoMoves
  DEF ScopeInv, ScopeTypes, EndedIsLoose, AbsentIsUnbound, ResumesRunning,
    BoundIsReserved, CreatedIsReserved, AbsentIsReserved, OneForAbsent,
    HeldIsBound, DeletesNothingHeld, Acquire, Activated, Executable, At,
    NotLoose, Names, Claiming, Pending, PC, Status
<1>8. OneForAbsent'
  BY NoneFresh, GotoMoves
  DEF ScopeInv, ScopeTypes, EndedIsLoose, AbsentIsUnbound, ResumesRunning,
    BoundIsReserved, CreatedIsReserved, AbsentIsReserved, OneForAbsent,
    HeldIsBound, DeletesNothingHeld, Acquire, Activated, Executable, At,
    NotLoose, Names, Claiming, Pending, PC, Status
<1>9. HeldIsBound'
  BY NoneFresh, GotoMoves
  DEF ScopeInv, ScopeTypes, HeldIsBound, Acquire, Activated, Executable, At, NotLoose,
    PC, Status
<1>10. DeletesNothingHeld'
  <2>1. ASSUME NEW r \in Run, status'[r] = "running", r # proc[p].run
        PROVE  status[r] = "running"
    BY <2>1 DEF ScopeInv, ScopeTypes, Acquire
  <2>2. ASSUME NEW q \in Proc, At(q, "delete")' \/ At(q, "created")'
        PROVE  proc'[q] = proc[q] /\ proc[q].run \in Run /\ q # p
    <3>1. q # p /\ proc'[q] = proc[q]
      BY <2>2, GotoMoves DEF ScopeInv, Acquire, At, PC
    <3>. QED  BY <2>2, <3>1 DEF ScopeInv, ScopeTypes, At
  <2>3. ASSUME NEW q \in Proc, At(q, "delete")', NotLoose(proc[q].run)'
        PROVE  (status[proc[q].run] = "running" => bound[proc[q].run] # proc[q].scope)'
    <3>1. At(q, "delete") /\ NotLoose(proc[q].run) /\ proc'[q] = proc[q]
      BY <2>2, <2>3 DEF Acquire, At, NotLoose
    <3>2. CASE proc[q].run = proc[p].run
      <4>1. status[proc[p].run] = "running"
        BY <3>1, <3>2 DEF ScopeInv, HeldIsBound, Acquire, At
      <4>. QED  BY <3>1, <3>2, <4>1 DEF ScopeInv, DeletesNothingHeld, Acquire
    <3>3. CASE proc[q].run # proc[p].run
      BY <2>1, <2>2, <2>3, <3>1, <3>3 DEF ScopeInv, DeletesNothingHeld, Acquire
    <3>. QED  BY <3>2, <3>3
  <2>4. ASSUME NEW q \in Proc, At(q, "delete")', NotLoose(proc[q].run)',
               NEW u \in Proc, At(u, "created")'
        PROVE  ~Names(u, proc[q].run, proc[q].scope)'
    <3>1. /\ At(u, "created") /\ proc'[u] = proc[u]
          /\ At(q, "delete") /\ NotLoose(proc[q].run) /\ proc'[q] = proc[q]
      BY <2>2, <2>4 DEF Acquire, At, NotLoose
    <3>. QED  BY <3>1 DEF ScopeInv, DeletesNothingHeld, Names, At
  <2>. QED  BY <2>3, <2>4 DEF DeletesNothingHeld
<1>. QED  BY <1>1, <1>2, <1>3, <1>4, <1>5, <1>6, <1>7, <1>8, <1>9, <1>10 DEF ScopeInv

(* A run that ends is loose.                                               *)
LEMMA ConcludeKeeps ==
  ASSUME NEW p \in Proc, ScopeInv, Conclude(p)
  PROVE  ScopeInv'
<1>1. ScopeTypes'
  BY NoneFresh, GotoMoves
  DEF ScopeInv, ScopeTypes, Conclude, At, PC, Status
<1>2. EndedIsLoose'
  BY NoneFresh, GotoMoves
  DEF ScopeInv, ScopeTypes, EndedIsLoose, Conclude, At, NotLoose, PC, Status
<1>3. AbsentIsUnbound'
  BY NoneFresh, GotoMoves
  DEF ScopeInv, ScopeTypes, AbsentIsUnbound, Conclude, At, NotLoose, PC, Status
<1>4. ResumesRunning'
  BY NoneFresh, GotoMoves
  DEF ScopeInv, ScopeTypes, ResumesRunning, Conclude, At, NotLoose, PC, Status
<1>5. BoundIsReserved'
  BY NoneFresh, GotoMoves
  DEF ScopeInv, ScopeTypes, BoundIsReserved, Conclude, At, NotLoose, PC, Status
<1>6. CreatedIsReserved'
  <2>1. /\ \A q \in Proc : At(q, "created")' => q # p /\ proc'[q] = proc[q]
        /\ \A x \in Run : NotLoose(x)' => NotLoose(x) /\ x # proc[p].run
        /\ \A x \in Run : x # proc[p].run => status'[x] = status[x]
        /\ UNCHANGED <<entry, bound>>
    BY GotoMoves DEF ScopeInv, ScopeTypes, Conclude, At, NotLoose, PC
  <2>2. \A q \in Proc : At(q, "created")' => At(q, "created") /\ proc[q].run \in Run
    BY <2>1 DEF ScopeInv, ScopeTypes, At
  <2>. QED  BY <2>1, <2>2 DEF ScopeInv, CreatedIsReserved
<1>7. AbsentIsReserved'
  BY NoneFresh, GotoMoves
  DEF ScopeInv, ScopeTypes, AbsentIsReserved, Conclude, At, NotLoose, Pending, Claiming,
    PC, Status
<1>8. OneForAbsent'
  <2>1. /\ \A q \in Proc : q # p => proc'[q] = proc[q]
        /\ proc'[p].run = proc[p].run
        /\ \A x \in Run : NotLoose(x)' => NotLoose(x) /\ x # proc[p].run
        /\ \A x \in Run : x # proc[p].run => status'[x] = status[x]
    BY GotoMoves DEF ScopeInv, ScopeTypes, Conclude, At, NotLoose, PC
  <2>2. ASSUME NEW q \in Proc, NEW u \in Proc, Pending(q)', Pending(u)',
               Names(u, proc[q].run, proc[q].scope)', NotLoose(proc[q].run)'
        PROVE  q = u \/ status'[proc'[q].run] # "absent"
    <3>1. proc'[q].run \in Run /\ proc'[u].run = proc'[q].run
      BY <1>1, <2>2 DEF ScopeTypes, Pending, Claiming, At, Names
    <3>2. q # p /\ u # p
      BY <2>1, <2>2, <3>1
    <3>3. /\ proc'[q] = proc[q] /\ proc'[u] = proc[u]
          /\ NotLoose(proc[q].run) /\ status'[proc[q].run] = status[proc[q].run]
      BY <2>1, <2>2, <3>1, <3>2
    <3>4. Pending(q) /\ Pending(u) /\ Names(u, proc[q].run, proc[q].scope)
      BY <2>2, <3>3 DEF Pending, Claiming, At, Names
    <3>. QED  BY <3>3, <3>4 DEF ScopeInv, OneForAbsent
  <2>. QED  BY <2>2 DEF OneForAbsent
<1>9. HeldIsBound'
  BY NoneFresh, GotoMoves
  DEF ScopeInv, ScopeTypes, HeldIsBound, Conclude, At, NotLoose, PC, Status
<1>10. DeletesNothingHeld'
  BY NoneFresh, GotoMoves
  DEF ScopeInv, ScopeTypes, DeletesNothingHeld, Conclude, At, NotLoose, Names, PC, Status
<1>. QED  BY <1>1, <1>2, <1>3, <1>4, <1>5, <1>6, <1>7, <1>8, <1>9, <1>10 DEF ScopeInv

(* An error leads to the release.                                          *)
LEMMA RaiseKeeps ==
  ASSUME NEW p \in Proc, ScopeInv, Raise(p)
  PROVE  ScopeInv'
<1>1. ScopeTypes'
  BY NoneFresh, GotoMoves
  DEF ScopeInv, ScopeTypes, Raise, At, PC, Status
<1>2. EndedIsLoose'
  BY NoneFresh, GotoMoves
  DEF ScopeInv, ScopeTypes, EndedIsLoose, Raise, At, NotLoose, PC, Status
<1>3. AbsentIsUnbound'
  BY NoneFresh, GotoMoves
  DEF ScopeInv, ScopeTypes, AbsentIsUnbound, Raise, At, NotLoose, PC, Status
<1>4. ResumesRunning'
  BY NoneFresh, GotoMoves
  DEF ScopeInv, ScopeTypes, ResumesRunning, Raise, At, NotLoose, PC, Status
<1>5. BoundIsReserved'
  BY NoneFresh, GotoMoves
  DEF ScopeInv, ScopeTypes, BoundIsReserved, Raise, At, NotLoose, PC, Status
<1>6. CreatedIsReserved'
  BY NoneFresh, GotoMoves
  DEF ScopeInv, ScopeTypes, CreatedIsReserved, Raise, At, NotLoose, PC, Status
<1>7. AbsentIsReserved'
  BY NoneFresh, GotoMoves
  DEF ScopeInv, ScopeTypes, EndedIsLoose, AbsentIsUnbound, ResumesRunning,
    BoundIsReserved, CreatedIsReserved, AbsentIsReserved, OneForAbsent,
    HeldIsBound, DeletesNothingHeld, Raise, At, NotLoose, Names, Claiming,
    Pending, PC, Status
<1>8. OneForAbsent'
  BY NoneFresh, GotoMoves
  DEF ScopeInv, ScopeTypes, EndedIsLoose, AbsentIsUnbound, ResumesRunning,
    BoundIsReserved, CreatedIsReserved, AbsentIsReserved, OneForAbsent,
    HeldIsBound, DeletesNothingHeld, Raise, At, NotLoose, Names, Claiming,
    Pending, PC, Status
<1>9. HeldIsBound'
  BY NoneFresh, GotoMoves
  DEF ScopeInv, ScopeTypes, HeldIsBound, Raise, At, NotLoose, PC, Status
<1>10. DeletesNothingHeld'
  <2>1. ASSUME NEW q \in Proc, At(q, "delete")' \/ At(q, "created")'
        PROVE  q # p /\ proc'[q] = proc[q]
    BY <2>1, GotoMoves DEF ScopeInv, Raise, At, PC
  <2>2. ASSUME NEW q \in Proc, At(q, "delete")', NotLoose(proc[q].run)'
        PROVE  /\ proc'[q] = proc[q] /\ NotLoose(proc[q].run) /\ At(q, "delete")
    BY <2>1, <2>2 DEF Raise, At, NotLoose
  <2>3. ASSUME NEW q \in Proc, At(q, "delete")', NotLoose(proc[q].run)',
               NEW u \in Proc, At(u, "created")'
        PROVE  ~Names(u, proc[q].run, proc[q].scope)'
    <3>1. proc'[u] = proc[u] /\ At(u, "created")
      BY <2>1, <2>3 DEF At
    <3>2. ~Names(u, proc[q].run, proc[q].scope)
      BY <2>2, <2>3, <3>1 DEF ScopeInv, DeletesNothingHeld
    <3> QED BY <2>2, <2>3, <3>1, <3>2 DEF Names, At
  <2>4. ASSUME NEW q \in Proc, At(q, "delete")', NotLoose(proc[q].run)'
        PROVE  (status[proc[q].run] = "running" => bound[proc[q].run] # proc[q].scope)'
    BY <2>2, <2>4 DEF ScopeInv, DeletesNothingHeld, Raise
  <2> QED BY <2>3, <2>4 DEF DeletesNothingHeld
<1>. QED  BY <1>1, <1>2, <1>3, <1>4, <1>5, <1>6, <1>7, <1>8, <1>9, <1>10 DEF ScopeInv

(* Only a run that does not run is released.                               *)
LEMMA ReadStatusKeeps ==
  ASSUME NEW p \in Proc, ScopeInv, ReadStatus(p)
  PROVE  ScopeInv'
<1>1. ScopeTypes'
  <2>1. CASE status[proc[p].run] = "running"
    <3>1. /\ proc' = [proc EXCEPT ![p] = Idle]
          /\ UNCHANGED <<entry, status, bound, loose>>
      BY <2>1 DEF ReadStatus, Leave
    <3>2. Idle \in [pc : PC, run : Run \cup {None}, scope : Scope \cup {None},
                   resume : BOOLEAN] /\ Idle.pc = "idle"
      BY DEF Idle, PC
    <3>. HIDE DEF Idle
    <3>. QED  BY <3>1, <3>2 DEF ScopeInv, ScopeTypes, At
  <2>2. CASE status[proc[p].run] # "running"
    <3>1. Goto(p, "delete") /\ "delete" \in PC
      BY <2>2 DEF ReadStatus, PC
    <3>. QED  BY <3>1, GotoMoves DEF ScopeInv, ScopeTypes, ReadStatus, At
  <2>. QED  BY <2>1, <2>2
<1>2. EndedIsLoose'
  BY NoneFresh, GotoMoves
  DEF ScopeInv, ScopeTypes, EndedIsLoose, ReadStatus, Leave, Idle, At, NotLoose, PC,
    Status
<1>3. AbsentIsUnbound'
  BY NoneFresh, GotoMoves
  DEF ScopeInv, ScopeTypes, AbsentIsUnbound, ReadStatus, Leave, Idle, At, NotLoose, PC,
    Status
<1>4. ResumesRunning'
  BY NoneFresh, GotoMoves
  DEF ScopeInv, ScopeTypes, ResumesRunning, ReadStatus, Leave, Idle, At, NotLoose, PC,
    Status
<1>5. BoundIsReserved'
  BY NoneFresh, GotoMoves
  DEF ScopeInv, ScopeTypes, BoundIsReserved, ReadStatus, Leave, Idle, At, NotLoose, PC,
    Status
<1>a. /\ UNCHANGED <<entry, status, bound, loose>>
      /\ \A q \in Proc : q # p => proc'[q] = proc[q]
      /\ \/ proc'[p].pc = "idle"
         \/ /\ proc'[p].pc = "delete" /\ proc'[p].run = proc[p].run
            /\ proc'[p].scope = proc[p].scope /\ proc[p].pc = "release"
  <2>1. CASE Leave(p)
    BY <2>1 DEF ScopeInv, ScopeTypes, ReadStatus, Leave, Idle
  <2>2. CASE Goto(p, "delete")
    <3>1. "delete" \in PC
      BY DEF PC
    <3>. QED  BY <2>2, <3>1, GotoMoves DEF ScopeInv, ReadStatus, At
  <2>. QED  BY <2>1, <2>2 DEF ReadStatus
<1>b. ASSUME NEW q \in Proc
      PROVE  /\ At(q, "created")' => At(q, "created") /\ proc'[q] = proc[q]
             /\ Pending(q)' => /\ Pending(q) /\ proc'[q].run = proc[q].run
                              /\ proc'[q].scope = proc[q].scope
             /\ \A r, u : Names(q, r, u)' => Names(q, r, u)
  <2>1. CASE q # p
    BY <1>a, <2>1 DEF At, Pending, Claiming, Names
  <2>2. CASE q = p
    BY <1>a, <2>2 DEF At, Pending, Claiming, Names
  <2>. QED  BY <2>1, <2>2
<1>6. CreatedIsReserved'
  BY <1>a, <1>b DEF ScopeInv, CreatedIsReserved, NotLoose
<1>7. AbsentIsReserved'
  BY <1>a, <1>b DEF ScopeInv, AbsentIsReserved, NotLoose
<1>8. OneForAbsent'
  <2>1. ASSUME NEW q \in Proc, NEW u \in Proc, Pending(q)', Pending(u)',
               Names(u, proc[q].run, proc[q].scope)'
        PROVE  q = u \/ ~NotLoose(proc[q].run)' \/ (status[proc[q].run] # "absent")'
    <3>1. /\ Pending(q) /\ Pending(u) /\ proc'[q].run = proc[q].run
          /\ Names(u, proc[q].run, proc[q].scope)
      BY <1>b, <2>1 DEF Names
    <3>. QED  BY <1>a, <3>1 DEF ScopeInv, OneForAbsent, NotLoose
  <2>. QED  BY <2>1 DEF OneForAbsent
<1>9. HeldIsBound'
  BY NoneFresh, GotoMoves
  DEF ScopeInv, ScopeTypes, HeldIsBound, ReadStatus, Leave, Idle, At, NotLoose, PC, Status
<1>10. DeletesNothingHeld'
  BY NoneFresh, GotoMoves
  DEF ScopeInv, ScopeTypes, EndedIsLoose, AbsentIsUnbound, ResumesRunning,
    BoundIsReserved, CreatedIsReserved, AbsentIsReserved, OneForAbsent,
    HeldIsBound, DeletesNothingHeld, ReadStatus, Leave, Idle, At, NotLoose,
    Names, Claiming, Pending, PC, Status
<1>. QED  BY <1>1, <1>2, <1>3, <1>4, <1>5, <1>6, <1>7, <1>8, <1>9, <1>10 DEF ScopeInv

(* Nothing that is held is deleted.                                        *)
LEMMA DeleteKeeps ==
  ASSUME NEW p \in Proc, ScopeInv, Delete(p)
  PROVE  ScopeInv'
<1>1. ScopeTypes'
  BY NoneFresh
  DEF ScopeInv, ScopeTypes, Delete, Leave, Idle, At, PC, Status
<1>2. EndedIsLoose'
  BY NoneFresh
  DEF ScopeInv, ScopeTypes, EndedIsLoose, Delete, Leave, Idle, At, NotLoose, PC, Status
<1>3. AbsentIsUnbound'
  BY NoneFresh
  DEF ScopeInv, ScopeTypes, AbsentIsUnbound, Delete, Leave, Idle, At, NotLoose, PC, Status
<1>4. ResumesRunning'
  BY NoneFresh
  DEF ScopeInv, ScopeTypes, ResumesRunning, Delete, Leave, Idle, At, NotLoose, PC, Status
<1>5. BoundIsReserved'
  BY NoneFresh
  DEF ScopeInv, ScopeTypes, EndedIsLoose, AbsentIsUnbound, ResumesRunning,
    BoundIsReserved, CreatedIsReserved, AbsentIsReserved, OneForAbsent,
    HeldIsBound, DeletesNothingHeld, Delete, Leave, Idle, At, NotLoose, Names,
    Claiming, Pending, PC, Status
<1>6. CreatedIsReserved'
  BY NoneFresh
  DEF ScopeInv, ScopeTypes, EndedIsLoose, AbsentIsUnbound, ResumesRunning,
    BoundIsReserved, CreatedIsReserved, AbsentIsReserved, OneForAbsent,
    HeldIsBound, DeletesNothingHeld, Delete, Leave, Idle, At, NotLoose, Names,
    Claiming, Pending, PC, Status
<1>7. AbsentIsReserved'
  BY NoneFresh
  DEF ScopeInv, ScopeTypes, EndedIsLoose, AbsentIsUnbound, ResumesRunning,
    BoundIsReserved, CreatedIsReserved, AbsentIsReserved, OneForAbsent,
    HeldIsBound, DeletesNothingHeld, Delete, Leave, Idle, At, NotLoose, Names,
    Claiming, Pending, PC, Status
<1>8. OneForAbsent'
  BY NoneFresh
  DEF ScopeInv, ScopeTypes, OneForAbsent, Delete, Leave, Idle, At, NotLoose, Pending,
    Claiming, Names, PC, Status
<1>9. HeldIsBound'
  BY NoneFresh
  DEF ScopeInv, ScopeTypes, HeldIsBound, Delete, Leave, Idle, At, NotLoose, PC, Status
<1>10. DeletesNothingHeld'
  BY NoneFresh
  DEF ScopeInv, ScopeTypes, DeletesNothingHeld, Delete, Leave, Idle, At, NotLoose, Names,
    PC, Status
<1>. QED  BY <1>1, <1>2, <1>3, <1>4, <1>5, <1>6, <1>7, <1>8, <1>9, <1>10 DEF ScopeInv

(* A process that dies holds nothing.                                      *)
LEMMA CrashKeeps ==
  ASSUME NEW p \in Proc, ScopeInv, Crash(p)
  PROVE  ScopeInv'
<1>1. ScopeTypes'
  BY NoneFresh
  DEF ScopeInv, ScopeTypes, Crash, Leave, Idle, At, PC, Status
<1>2. EndedIsLoose'
  BY NoneFresh
  DEF ScopeInv, ScopeTypes, EndedIsLoose, Crash, Leave, Idle, At, NotLoose, PC, Status
<1>3. AbsentIsUnbound'
  BY NoneFresh
  DEF ScopeInv, ScopeTypes, AbsentIsUnbound, Crash, Leave, Idle, At, NotLoose, PC, Status
<1>4. ResumesRunning'
  BY NoneFresh
  DEF ScopeInv, ScopeTypes, ResumesRunning, Crash, Leave, Idle, At, NotLoose, PC, Status
<1>5. BoundIsReserved'
  BY NoneFresh
  DEF ScopeInv, ScopeTypes, BoundIsReserved, Crash, Leave, Idle, At, NotLoose, PC, Status
<1>6. CreatedIsReserved'
  BY NoneFresh
  DEF ScopeInv, ScopeTypes, CreatedIsReserved, Crash, Leave, Idle, At, NotLoose, PC,
    Status
<1>7. AbsentIsReserved'
  BY NoneFresh
  DEF ScopeInv, ScopeTypes, AbsentIsReserved, Crash, Leave, Idle, At, NotLoose, Pending,
    Claiming, PC, Status
<1>8. OneForAbsent'
  BY NoneFresh
  DEF ScopeInv, ScopeTypes, OneForAbsent, Crash, Leave, Idle, At, NotLoose, Pending,
    Claiming, Names, PC, Status
<1>9. HeldIsBound'
  BY NoneFresh
  DEF ScopeInv, ScopeTypes, HeldIsBound, Crash, Leave, Idle, At, NotLoose, PC, Status
<1>10. DeletesNothingHeld'
  BY NoneFresh
  DEF ScopeInv, ScopeTypes, DeletesNothingHeld, Crash, Leave, Idle, At, NotLoose, Names,
    PC, Status
<1>. QED  BY <1>1, <1>2, <1>3, <1>4, <1>5, <1>6, <1>7, <1>8, <1>9, <1>10 DEF ScopeInv

(* What an operator opens again was loose.                                 *)
LEMMA ReconcileKeeps ==
  ASSUME NEW r \in Run, ScopeInv, ReconcileNode(r)
  PROVE  ScopeInv'
<1>1. ScopeTypes'
  BY NoneFresh
  DEF ScopeInv, ScopeTypes, ReconcileNode, At, PC, Status
<1>2. EndedIsLoose'
  BY NoneFresh
  DEF ScopeInv, ScopeTypes, EndedIsLoose, ReconcileNode, At, NotLoose, PC, Status
<1>3. AbsentIsUnbound'
  BY NoneFresh
  DEF ScopeInv, ScopeTypes, AbsentIsUnbound, ReconcileNode, At, NotLoose, PC, Status
<1>4. ResumesRunning'
  BY NoneFresh
  DEF ScopeInv, ScopeTypes, ResumesRunning, ReconcileNode, At, NotLoose, PC, Status
<1>5. BoundIsReserved'
  BY NoneFresh
  DEF ScopeInv, ScopeTypes, EndedIsLoose, AbsentIsUnbound, ResumesRunning,
    BoundIsReserved, CreatedIsReserved, AbsentIsReserved, OneForAbsent,
    HeldIsBound, DeletesNothingHeld, ReconcileNode, At, NotLoose, Names,
    Claiming, Pending, PC, Status
<1>6. CreatedIsReserved'
  BY NoneFresh
  DEF ScopeInv, ScopeTypes, CreatedIsReserved, ReconcileNode, At, NotLoose, PC, Status
<1>7. AbsentIsReserved'
  BY NoneFresh
  DEF ScopeInv, ScopeTypes, AbsentIsReserved, ReconcileNode, At, NotLoose, Pending,
    Claiming, PC, Status
<1>8. OneForAbsent'
  BY NoneFresh
  DEF ScopeInv, ScopeTypes, OneForAbsent, ReconcileNode, At, NotLoose, Pending, Claiming,
    Names, PC, Status
<1>9. HeldIsBound'
  BY NoneFresh
  DEF ScopeInv, ScopeTypes, HeldIsBound, ReconcileNode, At, NotLoose, PC, Status
<1>10. DeletesNothingHeld'
  BY NoneFresh
  DEF ScopeInv, ScopeTypes, EndedIsLoose, AbsentIsUnbound, ResumesRunning,
    BoundIsReserved, CreatedIsReserved, AbsentIsReserved, OneForAbsent,
    HeldIsBound, DeletesNothingHeld, ReconcileNode, At, NotLoose, Names,
    Claiming, Pending, PC, Status
<1>. QED  BY <1>1, <1>2, <1>3, <1>4, <1>5, <1>6, <1>7, <1>8, <1>9, <1>10 DEF ScopeInv

(* A fork is pending until a resume claims it.                             *)
LEMMA ForkKeeps ==
  ASSUME NEW parent \in Run, NEW r \in Run, ScopeInv, CreateFork(parent, r)
  PROVE  ScopeInv'
<1>1. ScopeTypes'
  BY NoneFresh
  DEF ScopeInv, ScopeTypes, CreateFork, At, PC, Status
<1>2. EndedIsLoose'
  BY NoneFresh
  DEF ScopeInv, ScopeTypes, EndedIsLoose, CreateFork, At, NotLoose, PC, Status
<1>3. AbsentIsUnbound'
  BY NoneFresh
  DEF ScopeInv, ScopeTypes, AbsentIsUnbound, CreateFork, At, NotLoose, PC, Status
<1>4. ResumesRunning'
  BY NoneFresh
  DEF ScopeInv, ScopeTypes, ResumesRunning, CreateFork, At, NotLoose, PC, Status
<1>5. BoundIsReserved'
  BY NoneFresh
  DEF ScopeInv, ScopeTypes, BoundIsReserved, CreateFork, At, NotLoose, PC, Status
<1>6. CreatedIsReserved'
  BY NoneFresh
  DEF ScopeInv, ScopeTypes, CreatedIsReserved, CreateFork, At, NotLoose, PC, Status
<1>7. AbsentIsReserved'
  BY NoneFresh
  DEF ScopeInv, ScopeTypes, AbsentIsReserved, CreateFork, At, NotLoose, Pending,
    Claiming, PC, Status
<1>8. OneForAbsent'
  BY NoneFresh
  DEF ScopeInv, ScopeTypes, OneForAbsent, CreateFork, At, NotLoose, Pending, Claiming,
    Names, PC, Status
<1>9. HeldIsBound'
  BY NoneFresh
  DEF ScopeInv, ScopeTypes, HeldIsBound, CreateFork, At, NotLoose, PC, Status
<1>10. DeletesNothingHeld'
  BY NoneFresh
  DEF ScopeInv, ScopeTypes, DeletesNothingHeld, CreateFork, At, NotLoose, Names, PC,
    Status
<1>. QED  BY <1>1, <1>2, <1>3, <1>4, <1>5, <1>6, <1>7, <1>8, <1>9, <1>10 DEF ScopeInv

(* OneRunPerScope, of any processes, runs and scopes.                      *)
THEOREM ScopeIsExclusive == ScopeSpec => []OneRunPerScope
<1>1. ScopeInv /\ [ScopeNext]_scopeVars => ScopeInv'
  <2>. SUFFICES ASSUME ScopeInv, [ScopeNext]_scopeVars PROVE ScopeInv'
    OBVIOUS
  <2>1. CASE UNCHANGED scopeVars
    BY <2>1 DEF scopeVars, ScopeInv, ScopeTypes, EndedIsLoose, AbsentIsUnbound, ResumesRunning,
      BoundIsReserved, CreatedIsReserved, AbsentIsReserved, OneForAbsent,
      HeldIsBound, DeletesNothingHeld, At, NotLoose, Names, Claiming, Pending
  <2>2. CASE ScopeNext
    BY <2>2, ClaimKeeps, CreateKeeps, BindKeeps, VerifyKeeps, AcquireKeeps,
      ConcludeKeeps, RaiseKeeps, ReadStatusKeeps, DeleteKeeps, CrashKeeps,
      ReconcileKeeps, ForkKeeps DEF ScopeNext, Launch
  <2>. QED  BY <2>1, <2>2
<1>2. ScopeInv => OneRunPerScope
  <2>. SUFFICES ASSUME ScopeInv, NEW p \in Proc, NEW q \in Proc, Working(p), Working(q),
                       proc[p].scope = proc[q].scope
                PROVE  proc[p].run = proc[q].run
    BY DEF OneRunPerScope
  <2>1. proc[p].run \in Run /\ proc[q].run \in Run /\ proc[p].scope \in Scope
    BY DEF ScopeInv, ScopeTypes, Working, At
  <2>2. \A x \in {p, q} : entry[proc[x].scope] = proc[x].run
    BY <2>1, NoneFresh
    DEF ScopeInv, HeldIsBound, BoundIsReserved, Working, At, NotLoose
  <2>. QED  BY <2>2
<1>. QED  BY ScopeInitHolds, <1>1, <1>2, PTL DEF ScopeSpec

------------------------------------------------------------------------------
(* Consumers (EventStream).                                                *)

Event == Fact \cup {"finished"}

OfCall(s) == /\ s.call.at \in {"idle", "read", "status", "answer"}
             /\ s.call.events \in Seq(Event)

Listening(s) ==
  /\ DOMAIN s = {"cursor", "heard", "call", "stopped"}
  /\ DOMAIN s.call = {"at", "events", "terminal"}
  /\ OfCall(s) /\ s.heard \in Seq(Event)
  /\ s.cursor = [sequence |-> Len(s.heard), digest |-> s.heard]
  /\ s.call.at \in {"status", "answer"} => IsPrefix(s.heard, s.call.events)

StreamInv ==
  /\ journal \in Seq(Event) /\ DOMAIN consumer = Listener
  /\ \A c \in Listener : Listening(consumer[c])

LEMMA FreshListens == Listening(Fresh)
<1>1. <<>> \in Seq(Event) /\ Len(<<>>) = 0
  BY EmptySeq
<1> QED BY <1>1 DEF Listening, Fresh, Start, NoCall, Call, OfCall

LEMMA JournalGrows ==
  ASSUME StreamInv, AppendEvent \/ FinishRun \/ Restore
  PROVE  journal' \in Seq(Event) /\ UNCHANGED consumer
<1>1. CASE AppendEvent
  BY <1>1 DEF AppendEvent, StreamInv, Event
<1>2. CASE FinishRun
  BY <1>2 DEF FinishRun, StreamInv, Event
<1>3. CASE Restore
  BY <1>3, SubSeqProperties DEF Restore, StreamInv
<1> QED BY <1>1, <1>2, <1>3

(* A batch joined to what was heard before it.                             *)
Batch(heard, events, k, batch) ==
  /\ heard \in Seq(Event) /\ events \in Seq(Event) /\ IsPrefix(heard, events)
  /\ k \in Nat /\ k <= Len(events) - Len(heard)
  /\ batch = SubSeq(SubSeq(events, Len(heard) + 1, Len(events)), 1, k)

Joins(heard, events, k, batch) ==
  /\ heard \o batch \in Seq(Event) /\ Len(heard \o batch) = Len(heard) + k
  /\ heard \o batch = SubSeq(events, 1, Len(heard) + k)
  /\ IsPrefix(heard \o batch, events) /\ Len(batch) = k

LEMMA BatchContinues ==
  ASSUME NEW heard, NEW events, NEW k, NEW batch, Batch(heard, events, k, batch)
  PROVE  Joins(heard, events, k, batch)
<1> USE DEF Batch
<1>1. PICK n : n = Len(heard) /\ n \in Nat /\ n <= Len(events) /\ Len(events) \in Nat
               /\ heard = SubSeq(events, 1, n)
  BY SubSeqFull, LenProperties DEF IsPrefix
<1>2. batch = SubSeq(events, n + 1, n + k) /\ Len(batch) = k
  <2>1. CASE k = 0
    <3>1. batch = <<>> /\ SubSeq(events, n + 1, n + k) = <<>>
      BY <1>1, <2>1, SubSeqEmpty
    <3> QED BY <2>1, <3>1, EmptySeq
  <2>2. CASE k # 0
    <3>1. PICK first, last, one : first = n + 1 /\ last = Len(events) /\ one = 1
      OBVIOUS
    <3>2. /\ first \in 1 .. Len(events) /\ last \in 1 .. Len(events)
          /\ one \in 1 .. last - first + 1 /\ k \in 1 .. last - first + 1
      BY <1>1, <2>2, <3>1
    <3>3. SubSeq(SubSeq(events, first, last), one, k)
            = SubSeq(events, first + one - 1, first + k - 1)
      BY <3>2, SubSeqOfSubSeq
    <3>4. batch = SubSeq(events, n + 1, n + k)
      <4>1. first + one - 1 = n + 1 /\ first + k - 1 = n + k
        BY <1>1, <3>1
      <4> QED BY <1>1, <3>1, <3>3, <4>1
    <3>5. \A i \in n + 1 .. n + k : events[i] \in Event
      BY <1>1, ElementOfSeq
    <3> QED BY <1>1, <2>2, <3>4, <3>5, SubSeqProperties
  <2> QED BY <2>1, <2>2
<1>3. heard \o batch = SubSeq(events, 1, n + k)
  <2>1. 1 \in 1 .. Len(events) + 1 /\ n \in 1 - 1 .. Len(events) /\ n + k \in n .. Len(events)
    BY <1>1
  <2> QED BY <1>1, <1>2, <2>1, ConcatAdjacentSubSeq
<1>4. SubSeq(events, 1, n + k) \in Seq(Event) /\ Len(SubSeq(events, 1, n + k)) = n + k
  <2>1. \A i \in 1 .. n + k : events[i] \in Event
    BY <1>1, ElementOfSeq
  <2>2. 1 \in Int /\ n + k \in Int
    BY <1>1
  <2> QED BY <1>1, <2>1, <2>2, SubSeqProperties
<1>5. IsPrefix(heard \o batch, events)
  <2>1. Len(heard \o batch) = n + k /\ n + k <= Len(events)
    <3>1. n + k <= Len(events)
      BY <1>1
    <3> QED BY <1>3, <1>4, <3>1
  <2>2. SubSeq(heard \o batch, 1, n + k) = heard \o batch
    BY <1>3, <1>4, <2>1, SubSeqFull
  <2> QED BY <1>3, <2>1, <2>2 DEF IsPrefix
<1> QED BY <1>1, <1>2, <1>3, <1>4, <1>5 DEF Joins


LEMMA RestLength ==
  ASSUME NEW events \in Seq(Event), NEW n \in Nat, n <= Len(events)
  PROVE  /\ Len(SubSeq(events, n + 1, Len(events))) \in Nat
         /\ Len(SubSeq(events, n + 1, Len(events))) = Len(events) - n
<1>1. PICK first, last : first = n + 1 /\ last = Len(events)
  OBVIOUS
<1>2. first \in Int /\ last \in Int /\ last \in Nat
  BY <1>1, LenProperties
<1>3. \A i \in first .. last : events[i] \in Event
  BY <1>1, ElementOfSeq
<1>4. Len(SubSeq(events, first, last)) = IF first <= last THEN last - first + 1 ELSE 0
  BY <1>2, <1>3, SubSeqProperties
<1> QED BY <1>1, <1>2, <1>4

LEMMA KeepsListening ==
  ASSUME NEW s, Listening(s), NEW at \in {"idle", "read", "status", "answer"},
         NEW events \in Seq(Event),
         at \in {"status", "answer"} => IsPrefix(s.heard, events),
         NEW terminal, NEW call, call = Call(at, events, terminal),
         NEW u, u = [s EXCEPT !.call = call]
  PROVE  Listening(u) /\ u.heard = s.heard /\ u.stopped = s.stopped
<1>1. /\ DOMAIN u = {"cursor", "heard", "call", "stopped"} /\ u.call = call
      /\ u.cursor = s.cursor /\ u.heard = s.heard /\ u.stopped = s.stopped
  BY DEF Listening
<1>2. /\ DOMAIN call = {"at", "events", "terminal"}
      /\ call.at = at /\ call.events = events
  BY DEF Call
<1> QED BY <1>1, <1>2 DEF Listening, OfCall

(* What a step of a consumer makes of it.                                  *)
Heard(s, u) ==
  /\ Listening(u)
  /\ u.heard # s.heard => IsPrefix(u.heard, s.call.events)
  /\ u.stopped /\ ~s.stopped => u.heard = s.call.events

LEMMA ConsumerSteps ==
  ASSUME StreamInv, Limit \in Nat, NEW c \in Listener, ConsumerStep(c)
  PROVE  /\ \E u : Heard(consumer[c], u) /\ consumer' = [consumer EXCEPT ![c] = u]
         /\ UNCHANGED journal
<1>1. PICK s : s = consumer[c] /\ Listening(s)
  BY DEF StreamInv
<1>2. <<>> \in Seq(Event) /\ journal \in Seq(Event) /\ s.call.events \in Seq(Event)
      /\ s.heard \in Seq(Event)
  BY <1>1, EmptySeq DEF StreamInv, Listening, OfCall
<1>3. ASSUME NEW at \in {"idle", "read", "status", "answer"}, NEW events \in Seq(Event),
             at \in {"status", "answer"} => IsPrefix(s.heard, events),
             NEW terminal, Keep(c, Call(at, events, terminal))
      PROVE  \E u : Heard(s, u) /\ consumer' = [consumer EXCEPT ![c] = u]
  <2>1. PICK call, u : /\ call = Call(at, events, terminal)
                    /\ u = [s EXCEPT !.call = call]
    OBVIOUS
  <2>2. consumer' = [consumer EXCEPT ![c] = u]
    BY <1>1, <1>3, <2>1 DEF Keep, StreamInv
  <2>3. Listening(u) /\ u.heard = s.heard /\ u.stopped = s.stopped
    BY <1>1, <1>3, <2>1, KeepsListening
  <2> QED BY <2>2, <2>3 DEF Heard
<1>4. CASE Ask(c)
  BY <1>1, <1>2, <1>3, <1>4 DEF Ask
<1>5. CASE Snapshot(c)
  <2>1. CASE SameHistory(s.cursor, journal)
    <3>1. Keep(c, Call("status", journal, FALSE))
      BY <1>1, <1>5, <2>1 DEF Snapshot
    <3>2. IsPrefix(s.heard, journal)
      <4>1. SubSeq(s.heard, 1, Len(s.heard)) = s.heard
        BY <1>2, SubSeqFull
      <4> QED BY <1>1, <2>1, <4>1 DEF SameHistory, Listening, IsPrefix
    <3> QED BY <1>1, <1>2, <1>3, <1>5, <3>1, <3>2 DEF Snapshot
  <2>2. CASE ~SameHistory(s.cursor, journal)
    <3>1. consumer' = [consumer EXCEPT ![c] = Fresh] /\ UNCHANGED journal
      BY <1>1, <1>5, <2>2 DEF Snapshot
    <3>2. IsPrefix(<<>>, s.call.events)
      <4>1. /\ Len(<<>>) = 0 /\ SubSeq(<<>>, 1, 0) = <<>>
            /\ SubSeq(s.call.events, 1, 0) = <<>> /\ Len(s.call.events) \in Nat
        BY <1>2, EmptySeq, SubSeqEmpty, LenProperties
      <4> QED BY <4>1 DEF IsPrefix
    <3>3. Heard(s, Fresh)
      BY <3>2, FreshListens DEF Heard, Fresh
    <3> QED BY <1>1, <3>1, <3>3
  <2> QED BY <2>1, <2>2
<1>6. CASE StatusRead(c)
  <2>1. CASE Keep(c, Call("answer", s.call.events, ended)) /\ s.call.at = "status"
    <3>1. IsPrefix(s.heard, s.call.events)
      BY <1>1, <2>1 DEF Listening
    <3> QED BY <1>1, <1>2, <1>3, <1>6, <2>1, <3>1 DEF StatusRead
  <2>2. CASE Keep(c, Call("read", <<>>, FALSE))
    BY <1>1, <1>2, <1>3, <1>6, <2>2 DEF StatusRead
  <2> QED BY <1>1, <1>6, <2>1, <2>2 DEF StatusRead
<1>7. CASE Receive(c)
  <2>1. PICK k : k = Min({Limit, Len(Available(c))})
    OBVIOUS
  <2>2. PICK batch : batch = Selected(c)
    OBVIOUS
  <2>3. /\ s.cursor.sequence = Len(s.heard) /\ IsPrefix(s.heard, s.call.events)
        /\ Len(s.heard) \in Nat /\ Len(s.call.events) \in Nat
        /\ Len(s.heard) <= Len(s.call.events)
    BY <1>1, <1>2, <1>7, LenProperties DEF Receive, Listening, IsPrefix
  <2>4. PICK rest : /\ rest = Available(c)
                    /\ rest = SubSeq(s.call.events, Len(s.heard) + 1, Len(s.call.events))
    BY <1>1, <2>3 DEF Available
  <2>5. Len(rest) = Len(s.call.events) - Len(s.heard) /\ Len(rest) \in Nat
    BY <1>2, <2>3, <2>4, RestLength
  <2>6. k \in Nat /\ k <= Len(rest)
    <3>1. PICK m : m = Len(rest) /\ m \in Nat
      BY <2>5
    <3>2. \E x \in {Limit, m} : \A y \in {Limit, m} : x <= y
      BY <3>1
    <3>3. k \in {Limit, m} /\ \A y \in {Limit, m} : k <= y
      BY <2>1, <2>4, <3>1, <3>2 DEF Min
    <3> QED BY <3>1, <3>3
  <2>7. batch = SubSeq(rest, 1, k)
    BY <2>1, <2>2, <2>4 DEF Selected
  <2>8. PICK joined : joined = s.heard \o batch
    OBVIOUS
  <2>9. /\ Len(batch) = k /\ joined = SubSeq(s.call.events, 1, Len(s.heard) + k)
        /\ joined \in Seq(Event) /\ IsPrefix(joined, s.call.events)
        /\ Len(joined) = Len(s.heard) + k
    <3>1. Batch(s.heard, s.call.events, k, batch)
      BY <1>2, <2>3, <2>4, <2>5, <2>6, <2>7 DEF Batch
    <3>2. Joins(s.heard, s.call.events, k, batch)
      BY <3>1, BatchContinues
    <3> QED BY <2>8, <3>2 DEF Joins
  <2>10. PICK u : u = [cursor |-> [sequence |-> Len(joined), digest |-> joined],
                       heard |-> joined, call |-> NoCall,
                       stopped |-> s.call.terminal /\ ~HasMore(c)]
    OBVIOUS
  <2>11. consumer' = [consumer EXCEPT ![c] = u] /\ UNCHANGED journal
    BY <1>1, <1>7, <2>2, <2>3, <2>8, <2>9, <2>10 DEF Receive
  <2>12. u.stopped => joined = s.call.events
    <3>1. SUFFICES ASSUME ~(Len(batch) < Len(rest)) PROVE joined = s.call.events
      BY <2>2, <2>4, <2>10 DEF HasMore
    <3>2. Len(s.heard) + k = Len(s.call.events)
      <4>1. PICK r : r = Len(rest) /\ r \in Nat
        BY <2>5
      <4>2. ~(k < r) /\ k \in Nat /\ k <= r
        BY <2>6, <2>9, <3>1, <4>1
      <4>3. k = r
        BY <4>1, <4>2
      <4> QED BY <2>3, <2>5, <4>1, <4>3
    <3>3. joined = SubSeq(s.call.events, 1, Len(s.call.events))
      BY <2>9, <3>2
    <3>4. SubSeq(s.call.events, 1, Len(s.call.events)) = s.call.events
      BY <1>2, SubSeqFull
    <3> QED BY <3>3, <3>4
  <2>13. Listening(u)
    BY <1>2, <2>9, <2>10 DEF Listening, OfCall, NoCall, Call
  <2>14. Heard(s, u)
    BY <2>9, <2>10, <2>12, <2>13 DEF Heard
  <2> QED BY <1>1, <2>11, <2>14
<1>8. CASE LoseAnswer(c)
  BY <1>1, <1>2, <1>3, <1>8 DEF LoseAnswer, NoCall
<1> QED BY <1>4, <1>5, <1>6, <1>7, <1>8 DEF ConsumerStep

TellsTrue(c) ==
  /\ consumer'[c].heard # consumer[c].heard =>
       IsPrefix(consumer'[c].heard, consumer[c].call.events)
  /\ consumer'[c].stopped /\ ~consumer[c].stopped =>
       consumer'[c].heard = consumer[c].call.events

LEMMA StreamSteps ==
  ASSUME StreamInv, Limit \in Nat, [StreamNext]_streamVars
  PROVE  /\ StreamInv'
         /\ \A c \in Listener : TellsTrue(c)
<1> USE DEF TellsTrue
<1>1. CASE AppendEvent \/ FinishRun \/ Restore
  BY <1>1, JournalGrows DEF StreamInv
<1>2. ASSUME NEW c \in Listener, ConsumerStep(c)
      PROVE  /\ StreamInv'
             /\ \A d \in Listener : TellsTrue(d)
  <2>1. PICK u : Heard(consumer[c], u) /\ consumer' = [consumer EXCEPT ![c] = u]
    BY <1>2, ConsumerSteps
  <2>2. UNCHANGED journal
    BY <1>2, ConsumerSteps
  <2>3. /\ DOMAIN consumer' = Listener /\ consumer'[c] = u
        /\ \A d \in Listener : d # c => consumer'[d] = consumer[d]
    BY <2>1 DEF StreamInv
  <2> QED BY <2>1, <2>2, <2>3 DEF StreamInv, Heard
<1>3. CASE UNCHANGED streamVars
  BY <1>3 DEF streamVars, StreamInv
<1> QED BY <1>1, <1>2, <1>3 DEF StreamNext

(* Whatever a consumer accepts, batch after batch, is the journal as one   *)
(* of its calls saw it, and one told to stop has heard all that its call   *)
(* had read, for any consumers, limits, runs and restored databases        *)
(* (LifecycleStore.stream).                                                *)
THEOREM HeardIsOneHistory ==
  ASSUME Limit \in Nat
  PROVE  StreamSpec => HeardIsJournal
<1>1. StreamInit => StreamInv
  <2>1. <<>> \in Seq(Event)
    BY EmptySeq
  <2> QED BY <2>1, FreshListens DEF StreamInit, StreamInv
<1>2. StreamInv /\ [StreamNext]_streamVars =>
        StreamInv' /\ [\A c \in Listener : TellsTrue(c)]_streamVars
  BY StreamSteps
<1> QED BY <1>1, <1>2, PTL DEF StreamSpec, HeardIsJournal, TellsTrue
=============================================================================
