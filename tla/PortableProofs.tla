----------------------------- MODULE PortableProofs -----------------------------
(***************************************************************************)
(* For any processes, identities and bounds: the receipts ledger only      *)
(* grows, an accepted attempt has its receipts in it, and nothing runs     *)
(* unbound (BInv, below).                                                  *)
(*                                                                         *)
(* The first two rest on the file lock: at most one thread per run is      *)
(* between its reading of the file and its binding (OneWriter), so that    *)
(* what it merged still covers the file when it replaces it (Merging); and *)
(* a thread comes to its next stage only by way of a file that holds its   *)
(* receipt (Receipts), which growth preserves for ever.                    *)
(*                                                                         *)
(* Forks drift only late (DInv, at the end): what a journal accepted has   *)
(* its receipts in the ledger, and a fork is drawn at a checkpoint, from   *)
(* the receipts of what was accepted there, so that what the ledger has    *)
(* got since for an attempt settled then is of one that was not accepted.  *)
(* A ledger that is not the bound one is a later one (BoundBehind).        *)
(***************************************************************************)
EXTENDS Portable, FiniteSetTheorems, SequenceTheorems, TLAPS

PC == {"idle", "bind", "lineage", "load", "unbound", "locked", "context",
       "activate", "acquire", "run"}

EventType == AttemptTerminal \cup CheckpointTypes \cup {"attempt.started"}
Fact      == [type : EventType, attempt : Nat]

Thread == [proc : Proc, run : Run, attempt : Attempt,
           at : {"agent", "check", "checked", "done", "error"},
           cancelled : BOOLEAN, step : {"none", "replace", "bind"},
           merged : SUBSET Receipt]

ProcTypes ==
  /\ proc \in [Proc -> [pc : PC, run : Run \cup {None},
                        identity : Identity \cup {None}, resume : BOOLEAN]]
  /\ \A p \in Proc : proc[p].pc # "idle" => proc[p].run \in Run
  /\ \A p \in Proc : proc[p].pc = "locked" => ledger[proc[p].run] # None

Typed ==
  /\ journal \in [Run -> Seq(Fact)]
  /\ ledger \in [Run -> (SUBSET Receipt) \cup {None}]
  /\ memory \in [Proc -> SUBSET Receipt]
  /\ ProcTypes

Written(r, a, k) ==
  ledger[r] # None /\ [run |-> r, kind |-> k, attempt |-> a] \in ledger[r]

Merging(w) ==
  w.step = "replace" =>
    /\ ledger[w.run] # None => ledger[w.run] \subseteq w.merged
    /\ Made(w) \in w.merged

Receipts(w) ==
  /\ w.step # "none" => w.at \in {"agent", "check"}
  /\ w.step = "bind" => Written(w.run, w.attempt, w.at)
  /\ w.at \in {"check", "checked", "done"} => Written(w.run, w.attempt, "agent")
  /\ w.at \in {"checked", "done"} => Written(w.run, w.attempt, "check")

WorkerHolds(w) == w \in Thread /\ Merging(w) /\ Receipts(w)

OneWriter ==
  \A v, w \in work :
    v.run = w.run /\ v.step # "none" /\ w.step # "none" => v = w

IInv == /\ Typed
        /\ \A w \in work : WorkerHolds(w)
        /\ OneWriter
        /\ AcceptedHasReceipt

------------------------------------------------------------------------------
(* What the journal says was accepted changes only by attempt.succeeded.   *)
LEMMA AppendFact ==
  ASSUME NEW j \in Seq(Fact), NEW e \in Fact
  PROVE  /\ Append(j, e) \in Seq(Fact)
         /\ Accepted(Append(j, e)) \subseteq
              Accepted(j) \cup {a \in {e.attempt} : e.type = "attempt.succeeded"}
<1> DEFINE k == Append(j, e)
<1>1. k \in Seq(Fact) /\ Len(k) = Len(j) + 1 /\ k[Len(j) + 1] = e
      /\ \A i \in 1 .. Len(j) : k[i] = j[i]
  OBVIOUS
<1>2. DOMAIN k = 1 .. Len(j) + 1 /\ DOMAIN j = 1 .. Len(j) /\ Len(j) \in Nat
  BY <1>1
<1> HIDE DEF k
<1>3. ASSUME NEW a \in Accepted(k)
      PROVE  a \in Accepted(j) \cup {b \in {e.attempt} : e.type = "attempt.succeeded"}
  <2>1. PICK i \in DOMAIN k : k[i].type = "attempt.succeeded" /\ a = k[i].attempt
    BY <1>3 DEF Accepted, Types
  <2>2. CASE i = Len(j) + 1
    BY <2>1, <2>2, <1>1
  <2>3. CASE i \in 1 .. Len(j)
    BY <2>1, <2>3, <1>1, <1>2 DEF Accepted, Types
  <2> QED BY <2>1, <2>2, <2>3, <1>2
<1> QED BY <1>1, <1>3 DEF k

LEMMA Append1Fact ==
  ASSUME NEW j \in Seq(Fact), NEW e \in Fact
  PROVE  /\ Append1(j, e) \in Seq(Fact)
         /\ Accepted(Append1(j, e)) \subseteq
              Accepted(j) \cup {a \in {e.attempt} : e.type = "attempt.succeeded"}
  BY AppendFact DEF Append1

LEMMA EventIsFact ==
  ASSUME NEW t \in EventType, NEW a \in Nat
  PROVE  /\ Event(t, a) \in Fact
         /\ Event(t, a).type = t /\ Event(t, a).attempt = a
  BY DEF Event, Fact

(* Journals grow by facts that accept nothing.                             *)
Quiet == /\ journal' \in [Run -> Seq(Fact)]
         /\ \A r \in Run : Accepted(journal'[r]) \subseteq Accepted(journal[r])

LEMMA RecordQuiet ==
  ASSUME Typed, NEW r \in Run, NEW t \in EventType \ {"attempt.succeeded"},
         NEW a \in Nat, Record(r, Event(t, a))
  PROVE  Quiet
<1> DEFINE e == Event(t, a)
           k == Append1(journal[r], e)
<1>1. e \in Fact /\ e.type = t
  BY EventIsFact
<1>2. journal' = [journal EXCEPT ![r] = k]
  BY DEF Record
<1> HIDE DEF e
<1>3. k \in Seq(Fact) /\ Accepted(k) \subseteq Accepted(journal[r])
  BY <1>1, Append1Fact DEF Typed
<1> HIDE DEF k
<1> QED BY <1>2, <1>3 DEF Quiet, Typed

LEMMA ActiveIsStarted ==
  ASSUME NEW j \in Seq(Fact)
  PROVE  /\ Active(j) \subseteq Nat
         /\ Cardinality(Started(j)) \in Nat
<1>1. DOMAIN j = 1 .. Len(j) /\ Len(j) \in Nat /\ \A i \in DOMAIN j : j[i] \in Fact
  OBVIOUS
<1> DEFINE D == {i \in DOMAIN j : j[i].type \in {"attempt.started"}}
           A == {j[i].attempt : i \in D}
<1>2. IsFiniteSet(D)
  <2>1. IsFiniteSet(1 .. Len(j))
    BY <1>1, FS_Interval
  <2>2. D \in SUBSET (1 .. Len(j))
    BY <1>1
  <2> QED BY <2>1, <2>2, FS_Subset
<1>3. IsFiniteSet(A)
  <2>1. [i \in D |-> j[i].attempt] \in Surjection(D, A)
    BY DEF Surjection
  <2> QED BY <1>2, <2>1, FS_Surjection
<1>4. Started(j) = {j[i].attempt : i \in D}
  BY DEF Started, Types
<1>5. Started(j) \subseteq Nat
  BY <1>1, <1>4 DEF Fact
<1> QED BY <1>3, <1>4, <1>5, FS_CardinalityType DEF Active

------------------------------------------------------------------------------
(* Steps that leave the workers and the files alone.                       *)
LEMMA Frame ==
  ASSUME IInv, Typed', UNCHANGED <<ledger, work>>,
         \A r \in Run : Accepted(journal'[r]) \subseteq Accepted(journal[r])
  PROVE  IInv'
<1>1. \A w \in work : WorkerHolds(w) => WorkerHolds(w)'
  BY DEF WorkerHolds, Merging, Receipts, Written
<1>2. AcceptedHasReceipt'
  BY DEF IInv, AcceptedHasReceipt
<1> QED BY <1>1, <1>2 DEF IInv, OneWriter

LEMMA GotoTypes ==
  ASSUME Typed, NEW p \in Proc, proc[p].pc # "idle", UNCHANGED ledger,
         NEW pc \in PC, Goto(p, pc),
         pc = "locked" => ledger[proc[p].run] # None
  PROVE  ProcTypes'
  BY DEF Typed, ProcTypes, Goto, PC

LEMMA StopTypes ==
  ASSUME Typed, NEW p \in Proc, Stop(p), UNCHANGED ledger
  PROVE  ProcTypes'
<1>1. Idle \in [pc : PC, run : Run \cup {None},
                identity : Identity \cup {None}, resume : BOOLEAN]
      /\ Idle.pc = "idle"
  BY DEF Idle, PC
<1> QED BY <1>1 DEF Typed, ProcTypes, Stop

LEMMA RefuseKeeps == ASSUME IInv, NEW p \in Proc, Refuse(p) PROVE IInv'
<1>1. Typed'
  BY StopTypes DEF Refuse, dbVars, IInv, Typed
<1> QED BY <1>1, Frame DEF Refuse, dbVars

LEMMA EnterTypes ==
  ASSUME Typed, NEW p \in Proc, NEW r \in Run, NEW i \in Identity,
         NEW b \in BOOLEAN, NEW pc \in PC \ {"locked"}, Enter(p, r, i, b, pc),
         UNCHANGED ledger
  PROVE  ProcTypes' /\ UNCHANGED memory
  BY DEF Typed, ProcTypes, Enter, PC

LEMMA CallsKeep ==
  ASSUME IInv, NEW p \in Proc, NEW i \in Identity,
         \/ CreateRun(p, i)
         \/ \E r \in Run : Resume(p, r, i)
  PROVE  IInv'
<1>1. CASE CreateRun(p, i)
  <2>1. UNCHANGED <<journal, ledger, work>>
        /\ Enter(p, "parent", i, FALSE, "bind")
    BY <1>1 DEF CreateRun
  <2>2. Typed'
    BY <2>1, EnterTypes DEF IInv, Typed, PC, Run
  <2> QED BY <2>1, <2>2, Frame
<1>2. ASSUME NEW r \in Run, Resume(p, r, i) PROVE IInv'
  <2>1. PICK pc \in {"lineage", "load"} : Enter(p, r, i, TRUE, pc)
    BY <1>2 DEF Resume
  <2>2. UNCHANGED <<journal, ledger, work>>
    BY <1>2 DEF Resume, dbVars
  <2>3. Typed'
    BY <2>1, <2>2, EnterTypes DEF IInv, Typed, PC
  <2> QED BY <2>2, <2>3, Frame
<1> QED BY <1>1, <1>2

(* Receipts that were loaded are receipts.                                 *)
LEMMA LoadedKeeps ==
  ASSUME IInv, NEW p \in Proc, proc[p].pc # "idle",
         NEW R \in SUBSET Receipt, Loaded(p, R)
  PROVE  IInv'
<1>1. UNCHANGED <<journal, ledger, work>> /\ Goto(p, "lineage")
      /\ memory' = [memory EXCEPT ![p] = R]
  BY DEF Loaded, dbVars
<1>2. ProcTypes'
  BY <1>1, GotoTypes DEF IInv, PC
<1>3. Typed'
  BY <1>1, <1>2 DEF IInv, Typed
<1> QED BY <1>1, <1>3, Frame

LEMMA RememberTypes ==
  ASSUME NEW old \in SUBSET Receipt, NEW new \in SUBSET Receipt
  PROVE  Remember(old, new) \in SUBSET Receipt /\ new \subseteq Remember(old, new)
  BY DEF Remember

LEMMA LoadKeeps ==
  ASSUME IInv, NEW p \in Proc, Load(p) \/ LoadAbsent(p) \/ LoadLocked(p)
  PROVE  IInv'
<1>1. CASE Load(p)
  <2>1. PICK pc \in {"unbound", "locked"} :
          Goto(p, pc) /\ (pc = "locked" => ledger[proc[p].run] # None)
    BY <1>1 DEF Load
  <2>2. UNCHANGED <<journal, ledger, work, memory>> /\ proc[p].pc = "load"
    BY <1>1 DEF Load, dbVars
  <2>3. ProcTypes'
    BY <2>1, <2>2, GotoTypes DEF IInv, PC
  <2>4. Typed'
    BY <2>2, <2>3 DEF IInv, Typed
  <2> QED BY <2>2, <2>4, Frame
<1>2. CASE LoadAbsent(p)
  <2>1. memory[p] \in SUBSET Receipt
    BY DEF IInv, Typed
  <2> QED BY <1>2, <2>1, LoadedKeeps, RefuseKeeps DEF LoadAbsent
<1>3. CASE LoadLocked(p)
  <2>1. proc[p].pc = "locked" /\ proc[p].run \in Run
        /\ ledger[proc[p].run] \in SUBSET Receipt
    BY <1>3 DEF LoadLocked, IInv, Typed, ProcTypes
  <2>2. Remember(memory[p], ledger[proc[p].run]) \in SUBSET Receipt
    BY <2>1, RememberTypes DEF IInv, Typed
  <2> QED BY <1>3, <2>1, <2>2, LoadedKeeps, RefuseKeeps DEF LoadLocked
<1> QED BY <1>1, <1>2, <1>3

LEMMA BindingKeeps ==
  ASSUME IInv, NEW p \in Proc,
         BindExecutionIdentity(p) \/ VerifyLineage(p) \/ ActivateFork(p)
         \/ RefuseLease(p)
  PROVE  IInv'
<1>1. \/ Refuse(p)
      \/ /\ UNCHANGED <<journal, ledger, work, memory>> /\ proc[p].pc # "idle"
         /\ Goto(p, "lineage") \/ Goto(p, "context") \/ Goto(p, "acquire")
  BY DEF BindExecutionIdentity, VerifyLineage, ActivateFork, RefuseLease, dbVars
<1>2. CASE /\ UNCHANGED <<journal, ledger, work, memory>> /\ proc[p].pc # "idle"
           /\ Goto(p, "lineage") \/ Goto(p, "context") \/ Goto(p, "acquire")
  <2>1. ProcTypes'
    BY <1>2, GotoTypes DEF IInv, PC
  <2>2. Typed'
    BY <1>2, <2>1 DEF IInv, Typed
  <2> QED BY <1>2, <2>2, Frame
<1> QED BY <1>1, <1>2, RefuseKeeps

LEMMA InitializeContextKeeps ==
  ASSUME IInv, NEW p \in Proc, InitializeContext(p) PROVE IInv'
<1> DEFINE r == proc[p].run
<1>1. r \in Run /\ proc[p].pc = "context"
      /\ UNCHANGED <<ledger, work, memory>>
  BY DEF InitializeContext, IInv, Typed, ProcTypes
<1>2. Quiet
  <2>1. CASE UNCHANGED journal
    BY <2>1 DEF Quiet, IInv, Typed
  <2>2. CASE \E t \in {"run.started", "run.forked"} : Record(r, Event(t, 0))
    BY <1>1, <2>2, RecordQuiet DEF IInv, EventType, CheckpointTypes
  <2> QED BY <2>1, <2>2 DEF InitializeContext
<1>3. ProcTypes'
  BY <1>1, GotoTypes DEF InitializeContext, IInv, PC
<1>4. Typed'
  BY <1>1, <1>2, <1>3 DEF IInv, Typed, Quiet
<1> QED BY <1>1, <1>2, <1>4, Frame DEF Quiet

LEMMA AcquireKeeps == ASSUME IInv, NEW p \in Proc, Acquire(p) PROVE IInv'
<1> DEFINE r == proc[p].run
           j == IF proc[p].resume THEN Append(journal[r], Event("run.resumed", 0))
                                  ELSE journal[r]
           a == CHOOSE b \in Active(j) : TRUE
           k == IF row[r].status = "running" /\ Active(j) # {}
                  THEN Append(j, Event("attempt.interrupted", a)) ELSE j
<1>1. /\ r \in Run /\ proc[p].pc = "acquire" /\ Goto(p, "run")
      /\ UNCHANGED <<ledger, work, memory>>
      /\ journal' = [journal EXCEPT ![r] = k]
  BY DEF Acquire, IInv, Typed, ProcTypes
<1>2. journal[r] \in Seq(Fact)
  BY <1>1 DEF IInv, Typed
<1>3. j \in Seq(Fact) /\ Accepted(j) \subseteq Accepted(journal[r])
  <2> DEFINE e == Event("run.resumed", 0)
  <2>1. e \in Fact /\ e.type = "run.resumed"
    BY EventIsFact DEF EventType, CheckpointTypes
  <2> HIDE DEF e
  <2>2. Append(journal[r], e) \in Seq(Fact)
        /\ Accepted(Append(journal[r], e)) \subseteq Accepted(journal[r])
    BY <1>2, <2>1, AppendFact
  <2> QED BY <1>2, <2>2 DEF e
<1>4. k \in Seq(Fact) /\ Accepted(k) \subseteq Accepted(j)
  <2>1. CASE Active(j) = {}
    BY <2>1, <1>3
  <2>2. CASE Active(j) # {}
    <3> HIDE DEF j
    <3>1. a \in Nat
      BY <1>3, <2>2, ActiveIsStarted
    <3>2. Event("attempt.interrupted", a) \in Fact
          /\ Event("attempt.interrupted", a).type = "attempt.interrupted"
      BY <3>1, EventIsFact DEF EventType, AttemptTerminal
    <3> HIDE DEF a
    <3>3. Append(j, Event("attempt.interrupted", a)) \in Seq(Fact)
          /\ Accepted(Append(j, Event("attempt.interrupted", a))) \subseteq Accepted(j)
      BY <1>3, <3>2, AppendFact
    <3> QED BY <1>3, <3>3
  <2> QED BY <2>1, <2>2
<1> HIDE DEF k, j
<1>5. Quiet
  BY <1>1, <1>3, <1>4 DEF Quiet, IInv, Typed
<1>6. ProcTypes'
  BY <1>1, GotoTypes DEF IInv, PC
<1>7. Typed'
  BY <1>1, <1>5, <1>6 DEF IInv, Typed, Quiet
<1> QED BY <1>1, <1>5, <1>7, Frame DEF Quiet

LEMMA FinishRunKeeps ==
  ASSUME IInv, NEW p \in Proc, FinishRun(p) \/ LoseLease(p) PROVE IInv'
<1>1. Stop(p) /\ UNCHANGED <<ledger, work, memory>> /\ proc[p].run \in Run
  BY DEF FinishRun, LoseLease, Owns, IInv, Typed, ProcTypes
<1>2. Quiet
  <2>1. CASE LoseLease(p)
    BY <2>1 DEF LoseLease, Quiet, IInv, Typed
  <2>2. CASE FinishRun(p)
    <3>1. PICK t \in {"run.succeeded", "run.failed"} :
            Record(proc[p].run, Event(t, 0))
      BY <2>2 DEF FinishRun
    <3> QED BY <1>1, <3>1, RecordQuiet DEF IInv, EventType, CheckpointTypes
  <2> QED BY <2>1, <2>2
<1>3. ProcTypes'
  BY <1>1, StopTypes DEF IInv
<1>4. Typed'
  BY <1>1, <1>2, <1>3 DEF IInv, Typed, Quiet
<1> QED BY <1>1, <1>2, <1>4, Frame DEF Quiet

LEMMA ForksKeep ==
  ASSUME IInv, CreateForkRun \/ \E s \in DOMAIN journal["parent"] : BuildLineage(s)
  PROVE  IInv'
<1>1. UNCHANGED <<journal, ledger, work, memory, proc>>
  BY DEF CreateForkRun, BuildLineage, dbVars, procVars
<1>2. Typed'
  BY <1>1 DEF IInv, Typed, ProcTypes
<1> QED BY <1>1, <1>2, Frame

LEMMA CrashKeeps == ASSUME IInv, NEW p \in Proc, Crash(p) PROVE IInv'
<1>1. /\ Stop(p) /\ UNCHANGED <<journal, ledger>>
      /\ memory' = [memory EXCEPT ![p] = {}] /\ work' \subseteq work
  BY DEF Crash
<1>2. Typed'
  BY <1>1, StopTypes DEF IInv, Typed
<1>3. \A w \in work' : WorkerHolds(w)'
  BY <1>1 DEF IInv, WorkerHolds, Merging, Receipts, Written
<1> QED BY <1>1, <1>2, <1>3 DEF IInv, OneWriter, AcceptedHasReceipt

------------------------------------------------------------------------------
(* The worker threads.                                                     *)

LEMMA StartAttemptKeeps == ASSUME IInv, NEW p \in Proc, StartAttempt(p) PROVE IInv'
<1> DEFINE r == proc[p].run
<1> PICK u : u = Worker(p, r, Attempts(r) + 1)
  OBVIOUS
<1>1. r \in Run /\ Attempts(r) < MaxAttempts
      /\ Record(r, Event("attempt.started", Attempts(r) + 1))
      /\ work' = work \cup {u} /\ UNCHANGED <<ledger, memory, proc>>
  BY DEF StartAttempt, Owns, procVars, IInv, Typed, ProcTypes
<1>2. Attempts(r) \in Nat
  BY <1>1, ActiveIsStarted DEF Attempts, IInv, Typed
<1>3. Attempts(r) + 1 \in Attempt
  BY <1>1, <1>2, PortableAssumption DEF Attempt
<1>4. Quiet
  <2>1. Attempts(r) + 1 \in Nat
    BY <1>2
  <2> QED BY <1>1, <2>1, RecordQuiet DEF IInv, EventType
<1>5. Typed'
  BY <1>1, <1>4 DEF Quiet, IInv, Typed, ProcTypes
<1>6. u \in Thread /\ u.step = "none" /\ u.at = "agent"
  BY <1>1, <1>3 DEF Worker, Thread
<1>7. WorkerHolds(u)'
  BY <1>6 DEF WorkerHolds, Merging, Receipts, Written
<1>8. \A w \in work : WorkerHolds(w)'
  BY <1>1 DEF IInv, WorkerHolds, Merging, Receipts, Written
<1>9. OneWriter'
  BY <1>1, <1>6 DEF IInv, OneWriter
<1> HIDE DEF r
<1>10. AcceptedHasReceipt'
  BY <1>1, <1>4 DEF IInv, AcceptedHasReceipt, Quiet
<1> QED BY <1>1, <1>5, <1>7, <1>8, <1>9, <1>10 DEF IInv

(* A thread goes on as u: the locks are with nobody else of its run.       *)
LEMMA Advance ==
  ASSUME IInv, Typed', NEW w \in work, NEW u, UNCHANGED ledger,
         work' \subseteq (work \ {w}) \cup {u}, WorkerHolds(u), u.run = w.run,
         \/ u.step = "none"
         \/ w.step # "none"
         \/ \A v \in work : v.run = w.run => v.step = "none",
         \A r \in Run : \A a \in Accepted(journal'[r]) \ Accepted(journal[r]) :
           \A k \in {"agent", "check"} : Written(r, a, k)
  PROVE  IInv'
<1>1. \A v \in work \cup {u} : WorkerHolds(v)'
  BY DEF IInv, WorkerHolds, Merging, Receipts, Written
<1>2. OneWriter'
  <2> SUFFICES ASSUME NEW v \in work', NEW x \in work', v.run = x.run,
                      v.step # "none", x.step # "none"
               PROVE  v = x
    BY DEF OneWriter
  <2>1. CASE v \in work \ {w} /\ x \in work \ {w}
    BY <2>1 DEF IInv, OneWriter
  <2>2. ASSUME u.step # "none", NEW y \in work \ {w}, y.run = u.run, y.step # "none"
        PROVE  FALSE
    BY <2>2 DEF IInv, OneWriter
  <2> QED BY <2>1, <2>2
<1>3. AcceptedHasReceipt'
  <2> SUFFICES ASSUME NEW r \in Run, NEW a \in Accepted(journal'[r]),
                      NEW k \in {"agent", "check"}
               PROVE  Written(r, a, k)
    BY DEF AcceptedHasReceipt, Written
  <2>1. CASE a \in Accepted(journal[r])
    BY <2>1 DEF IInv, AcceptedHasReceipt, Written
  <2> QED BY <2>1
<1> QED BY <1>1, <1>2, <1>3 DEF IInv

LEMMA MovedHolds ==
  ASSUME NEW w, WorkerHolds(w),
         NEW at \in {"agent", "check", "checked", "done", "error"},
         at \in {"check", "checked", "done"} => Written(w.run, w.attempt, "agent"),
         at \in {"checked", "done"} => Written(w.run, w.attempt, "check")
  PROVE  LET u == [w EXCEPT !.at = at, !.step = "none"]
         IN WorkerHolds(u) /\ u.run = w.run /\ u.step = "none"
<1> DEFINE u == [w EXCEPT !.at = at, !.step = "none"]
<1>1. /\ u \in Thread /\ u.run = w.run /\ u.attempt = w.attempt
      /\ u.at = at /\ u.step = "none"
  BY DEF WorkerHolds, Thread
<1> HIDE DEF u
<1>2. WorkerHolds(u)
  BY <1>1 DEF WorkerHolds, Merging, Receipts
<1> QED BY <1>1, <1>2 DEF u

LEMMA MoveKeeps ==
  ASSUME IInv, NEW w \in work, Typed', UNCHANGED <<ledger, journal>>,
         NEW at \in {"agent", "check", "checked", "done", "error"}, Move(w, at),
         at \in {"check", "checked", "done"} => Written(w.run, w.attempt, "agent"),
         at \in {"checked", "done"} => Written(w.run, w.attempt, "check")
  PROVE  IInv'
<1> DEFINE u == [w EXCEPT !.at = at, !.step = "none"]
<1>1. WorkerHolds(u) /\ u.run = w.run /\ u.step = "none"
  BY MovedHolds DEF IInv
<1>2. work' = (work \ {w}) \cup {u}
  BY DEF Move
<1> HIDE DEF u
<1> QED BY <1>1, <1>2, Advance

LEMMA ReadLedgerKeeps == ASSUME IInv, NEW w \in work, ReadLedger(w) PROVE IInv'
<1> DEFINE mem == Remember(memory[w.proc], {Made(w)})
           u == [w EXCEPT !.step = "replace", !.merged = Merge(w, mem)]
<1>1. /\ w.at \in {"agent", "check"} /\ Unlocked(w.proc, w.run)
      /\ memory' = [memory EXCEPT ![w.proc] = mem]
      /\ UNCHANGED <<journal, ledger, proc>>
  BY DEF ReadLedger, dbVars
<1>2. WorkerHolds(w) /\ w \in Thread
  BY DEF IInv, WorkerHolds
<1>3. Made(w) \in Receipt
  BY <1>1, <1>2 DEF Made, Thread, Receipt
<1>4. mem \in SUBSET Receipt /\ Made(w) \in mem
  <2>1. memory[w.proc] \in SUBSET Receipt /\ {Made(w)} \in SUBSET Receipt
    BY <1>2, <1>3 DEF IInv, Typed, Thread
  <2> QED BY <2>1, RememberTypes
<1> HIDE DEF mem
<1>5. Typed'
  BY <1>1, <1>2, <1>4 DEF IInv, Typed, ProcTypes, Thread
<1>6. CASE Move(w, "error")
  BY <1>1, <1>5, <1>6, MoveKeeps
<1>7. CASE work' = (work \ {w}) \cup {u}
  <2>1. ledger[w.run] # None => ledger[w.run] \in SUBSET Receipt
    BY <1>2 DEF IInv, Typed, Thread
  <2>2. /\ Merge(w, mem) \in SUBSET Receipt
        /\ ledger[w.run] # None => ledger[w.run] \subseteq Merge(w, mem)
        /\ Made(w) \in Merge(w, mem)
    BY <1>2, <1>4, <2>1 DEF Merge, Made, Thread
  <2>3. /\ u \in Thread /\ u.step = "replace" /\ u.merged = Merge(w, mem)
        /\ u.run = w.run /\ u.at = w.at /\ u.attempt = w.attempt
    BY <1>2, <2>2 DEF Thread
  <2> HIDE DEF u
  <2>4. WorkerHolds(u)
    BY <1>1, <1>2, <2>2, <2>3 DEF WorkerHolds, Merging, Receipts, Made
  <2>5. \A v \in work : v.run = w.run => v.step = "none"
    BY <1>1 DEF Unlocked
  <2> QED BY <1>1, <1>5, <1>7, <2>3, <2>4, <2>5, Advance
<1> QED BY <1>6, <1>7 DEF ReadLedger, Unpersisted, mem

(* What was merged covers the file, for nobody else has had the lock.      *)
LEMMA Growth ==
  ASSUME IInv, NEW w \in work, ReplaceLedger(w)
  PROVE  /\ w.merged \in SUBSET Receipt /\ w.merged # None /\ w.run \in Run
         /\ ledger' = [ledger EXCEPT ![w.run] = w.merged]
         /\ \A r \in Run : Kept(r)
<1>1. /\ w.step = "replace" /\ WorkerHolds(w) /\ w \in Thread
      /\ ledger' = [ledger EXCEPT ![w.run] = w.merged]
  BY DEF ReplaceLedger, IInv, WorkerHolds
<1>2. w.merged \in SUBSET Receipt /\ w.merged # None /\ w.run \in Run
  BY <1>1, NullIsNoLedger DEF Thread
<1>3. ASSUME NEW r \in Run PROVE Kept(r)
  BY <1>1, <1>2 DEF Kept, WorkerHolds, Merging, IInv, Typed
<1> QED BY <1>1, <1>2, <1>3

LEMMA ReplaceLedgerKeeps == ASSUME IInv, NEW w \in work, ReplaceLedger(w) PROVE IInv'
<1> DEFINE u == [w EXCEPT !.step = "bind", !.merged = {}]
<1>1. /\ w.step = "replace" /\ WorkerHolds(w) /\ w \in Thread
      /\ work' = (work \ {w}) \cup {u} /\ UNCHANGED <<journal, memory, proc>>
  BY DEF ReplaceLedger, dbVars, procVars, IInv, WorkerHolds
<1>2. /\ w.merged \in SUBSET Receipt /\ w.merged # None /\ w.run \in Run
      /\ ledger' = [ledger EXCEPT ![w.run] = w.merged]
      /\ \A r \in Run : Kept(r)
  BY Growth
<1>3. Typed'
  <2>1. \A p \in Proc : proc[p].pc = "locked" => ledger'[proc[p].run] # None
    BY <1>2 DEF Kept, IInv, Typed, ProcTypes, PC
  <2>2. ledger' \in [Run -> (SUBSET Receipt) \cup {None}]
    BY <1>2 DEF IInv, Typed
  <2> QED BY <1>1, <2>1, <2>2 DEF IInv, Typed, ProcTypes
<1>4. \A r \in Run : \A a, k : Written(r, a, k) => Written(r, a, k)'
  BY <1>2 DEF Written, Kept
<1>5. /\ u \in Thread /\ u.step = "bind" /\ u.run = w.run /\ u.at = w.at
      /\ u.attempt = w.attempt
  BY <1>1 DEF Thread
<1> HIDE DEF u
<1>6. ledger'[w.run] = w.merged
  BY <1>2 DEF IInv, Typed
<1>7. WorkerHolds(u)'
  <2>1. Written(w.run, w.attempt, w.at)'
    BY <1>1, <1>2, <1>6 DEF WorkerHolds, Merging, Made, Written
  <2> QED BY <1>1, <1>2, <1>4, <1>5, <2>1 DEF WorkerHolds, Merging, Receipts
<1>8. ASSUME NEW v \in work \ {w} PROVE WorkerHolds(v)'
  <2>1. WorkerHolds(v) /\ v.run \in Run
    BY DEF IInv, WorkerHolds, Thread
  <2>2. v.step # "none" => v.run # w.run
    BY <1>1 DEF IInv, OneWriter
  <2>3. Merging(v)'
    BY <1>2, <2>1, <2>2 DEF WorkerHolds, Merging, IInv, Typed
  <2>4. Receipts(v)'
    BY <1>4, <2>1 DEF WorkerHolds, Receipts
  <2> QED BY <2>1, <2>3, <2>4 DEF WorkerHolds
<1>9. OneWriter'
  BY <1>1, <1>5 DEF IInv, OneWriter
<1>10. AcceptedHasReceipt'
  BY <1>1, <1>2 DEF IInv, AcceptedHasReceipt, Kept
<1> QED BY <1>1, <1>3, <1>7, <1>8, <1>9, <1>10 DEF IInv

LEMMA BindReceiptLedgerKeeps ==
  ASSUME IInv, NEW w \in work, BindReceiptLedger(w) PROVE IInv'
<1>1. /\ w.step = "bind" /\ WorkerHolds(w) /\ w \in Thread
      /\ memory' = [memory EXCEPT ![w.proc] = Remember(@, ledger[w.run])]
      /\ UNCHANGED <<journal, ledger, proc>>
  BY DEF BindReceiptLedger, IInv, WorkerHolds
<1>2. w.proc \in Proc /\ ledger[w.run] \in SUBSET Receipt
      /\ Written(w.run, w.attempt, w.at) /\ w.at \in {"agent", "check"}
  BY <1>1 DEF WorkerHolds, Receipts, Written, IInv, Typed, Thread
<1>3. Remember(memory[w.proc], ledger[w.run]) \in SUBSET Receipt
  BY <1>2, RememberTypes DEF IInv, Typed
<1>4. Typed'
  BY <1>1, <1>2, <1>3 DEF IInv, Typed, ProcTypes
<1>5. CASE w.at = "check" /\ Move(w, "checked")
  <2>1. Written(w.run, w.attempt, "agent") /\ Written(w.run, w.attempt, "check")
    BY <1>1, <1>2, <1>5 DEF WorkerHolds, Receipts
  <2> QED BY <1>1, <1>4, <1>5, <2>1, MoveKeeps
<1>6. CASE w.at = "agent" /\ Move(w, "error")
  BY <1>1, <1>4, <1>6, MoveKeeps
<1>7. CASE w.at = "agent" /\ Move(w, "check")
  <2>1. Written(w.run, w.attempt, "agent")
    BY <1>2, <1>7
  <2> QED BY <1>1, <1>4, <1>7, <2>1, MoveKeeps
<1> QED BY <1>2, <1>5, <1>6, <1>7 DEF BindReceiptLedger

(* The journal may say more of a thread that moves on, but not accept it.  *)
LEMMA QuietMoveKeeps ==
  ASSUME IInv, NEW w \in work, Quiet, UNCHANGED <<ledger, memory, proc>>, NEW u,
         work' \subseteq (work \ {w}) \cup {u}, WorkerHolds(u), u.run = w.run,
         u.step = "none" \/ w.step # "none"
  PROVE  IInv'
<1>1. Typed'
  BY DEF Quiet, IInv, Typed, ProcTypes
<1> QED BY <1>1, Advance DEF Quiet

LEMMA RecordCheckKeeps == ASSUME IInv, NEW w \in work, RecordCheck(w) PROVE IInv'
<1>1. /\ w.at = "checked" /\ WorkerHolds(w) /\ w.run \in Run /\ w.attempt \in Nat
      /\ Record(w.run, Event("check.completed", w.attempt)) /\ Move(w, "done")
      /\ UNCHANGED <<ledger, memory, proc>>
  BY PortableAssumption
     DEF RecordCheck, procVars, IInv, WorkerHolds, Thread, Attempt
<1>2. Quiet
  BY <1>1, RecordQuiet DEF IInv, EventType, CheckpointTypes
<1> DEFINE u == [w EXCEPT !.at = "done", !.step = "none"]
<1>3. WorkerHolds(u) /\ u.run = w.run /\ u.step = "none"
  BY <1>1, MovedHolds DEF WorkerHolds, Receipts
<1>4. work' \subseteq (work \ {w}) \cup {u}
  BY <1>1 DEF Move
<1> HIDE DEF u
<1> QED BY <1>1, <1>2, <1>3, <1>4, QuietMoveKeeps

LEMMA BreakKeeps == ASSUME IInv, NEW w \in work, Break(w) PROVE IInv'
<1>1. Move(w, "error") /\ UNCHANGED <<journal, ledger, memory, proc>>
  BY DEF Break, dbVars, procVars
<1>2. Typed'
  BY <1>1 DEF IInv, Typed, ProcTypes
<1> QED BY <1>1, <1>2, MoveKeeps

LEMMA VanishKeeps == ASSUME IInv, NEW w \in work, Vanish(w) PROVE IInv'
<1>1. work' = work \ {w} /\ UNCHANGED <<journal, ledger, memory, proc>>
  BY DEF Vanish, dbVars, procVars
<1>2. Quiet
  BY <1>1 DEF Quiet, IInv, Typed
<1>3. WorkerHolds(w) /\ (w.step = "none" \/ w.step # "none")
  BY DEF IInv
<1> QED BY <1>1, <1>2, <1>3, QuietMoveKeeps

LEMMA FailKeeps == ASSUME IInv, NEW w \in work, Fail(w) PROVE IInv'
<1>1. /\ WorkerHolds(w) /\ w.run \in Run /\ w.attempt \in Nat
      /\ RecordBoth(w.run, Event("attempt.failed", w.attempt),
                           Event("node.failed", w.attempt))
      /\ UNCHANGED <<ledger, memory, proc>>
  BY PortableAssumption DEF Fail, IInv, WorkerHolds, Thread, Attempt
<1>2. Quiet
  <2> DEFINE e == Event("attempt.failed", w.attempt)
             f == Event("node.failed", w.attempt)
             j == Append1(journal[w.run], e)
             k == Append1(j, f)
  <2>1. e \in Fact /\ e.type = "attempt.failed" /\ f \in Fact /\ f.type = "node.failed"
    BY <1>1, EventIsFact DEF EventType, AttemptTerminal, CheckpointTypes
  <2>2. journal' = [journal EXCEPT ![w.run] = k]
    BY <1>1 DEF RecordBoth
  <2> HIDE DEF e, f
  <2>3. j \in Seq(Fact) /\ Accepted(j) \subseteq Accepted(journal[w.run])
    BY <1>1, <2>1, Append1Fact DEF IInv, Typed
  <2> HIDE DEF j
  <2>4. k \in Seq(Fact) /\ Accepted(k) \subseteq Accepted(j)
    BY <2>1, <2>3, Append1Fact
  <2> HIDE DEF k
  <2> QED BY <1>1, <2>2, <2>3, <2>4 DEF Quiet, IInv, Typed
<1>3. CASE work' = work \ {w}
  BY <1>1, <1>2, <1>3, QuietMoveKeeps
<1>4. ASSUME NEW told \in BOOLEAN,
             work' = (work \ {w}) \cup {[w EXCEPT !.cancelled = told]}
      PROVE  IInv'
  <2> DEFINE u == [w EXCEPT !.cancelled = told]
  <2>1. /\ u \in Thread /\ u.run = w.run /\ u.step = w.step /\ u.at = w.at
        /\ u.attempt = w.attempt /\ u.merged = w.merged
    BY <1>1 DEF WorkerHolds, Thread
  <2>2. work' \subseteq (work \ {w}) \cup {u}
    BY <1>4
  <2> HIDE DEF u
  <2>3. WorkerHolds(u)
    BY <1>1, <2>1 DEF WorkerHolds, Merging, Receipts, Made
  <2> QED BY <1>1, <1>2, <2>1, <2>2, <2>3, QuietMoveKeeps
<1> QED BY <1>3, <1>4 DEF Fail

(* A thread that is done has both its receipts in the file.                *)
LEMMA SucceedKeeps == ASSUME IInv, NEW w \in work, Succeed(w) PROVE IInv'
<1>1. /\ WorkerHolds(w) /\ w.run \in Run /\ w.attempt \in Nat /\ w.at = "done"
      /\ RecordBoth(w.run, Event("attempt.succeeded", w.attempt),
                           Event("node.succeeded", w.attempt))
      /\ work' = work \ {w} /\ UNCHANGED <<ledger, memory, proc>>
  BY PortableAssumption
     DEF Succeed, procVars, IInv, WorkerHolds, Thread, Attempt
<1> DEFINE e == Event("attempt.succeeded", w.attempt)
           f == Event("node.succeeded", w.attempt)
           j == Append1(journal[w.run], e)
           k == Append1(j, f)
<1>2. e \in Fact /\ e.attempt = w.attempt /\ f \in Fact /\ f.type = "node.succeeded"
  BY <1>1, EventIsFact DEF EventType, AttemptTerminal, CheckpointTypes
<1>3. journal' = [journal EXCEPT ![w.run] = k]
  BY <1>1 DEF RecordBoth
<1> HIDE DEF e, f
<1>4. j \in Seq(Fact) /\ Accepted(j) \subseteq Accepted(journal[w.run]) \cup {w.attempt}
  BY <1>1, <1>2, Append1Fact DEF IInv, Typed
<1> HIDE DEF j
<1>5. k \in Seq(Fact) /\ Accepted(k) \subseteq Accepted(j)
  BY <1>2, <1>4, Append1Fact
<1> HIDE DEF k
<1>6. Typed'
  BY <1>1, <1>3, <1>5 DEF IInv, Typed, ProcTypes
<1>7. ASSUME NEW r \in Run, NEW a \in Accepted(journal'[r]) \ Accepted(journal[r]),
             NEW c \in {"agent", "check"}
      PROVE  Written(r, a, c)
  <2>1. r = w.run /\ a = w.attempt
    BY <1>1, <1>3, <1>4, <1>5, <1>7 DEF IInv, Typed
  <2> QED BY <1>1, <2>1 DEF WorkerHolds, Receipts
<1> QED BY <1>1, <1>6, <1>7, Advance

------------------------------------------------------------------------------
LEMMA InitHolds == Init => IInv
<1> SUFFICES ASSUME Init PROVE IInv
  OBVIOUS
<1>1. Typed
  <2>1. Idle \in [pc : PC, run : Run \cup {None},
                  identity : Identity \cup {None}, resume : BOOLEAN]
        /\ Idle.pc = "idle"
    BY DEF Idle, PC
  <2>2. <<>> \in Seq(Fact)
    OBVIOUS
  <2> QED BY <2>1, <2>2 DEF Init, Typed, ProcTypes
<1>2. AcceptedHasReceipt
  <2>1. Accepted(<<>>) = {}
    BY DEF Accepted, Types
  <2> QED BY <2>1 DEF Init, AcceptedHasReceipt
<1> QED BY <1>1, <1>2 DEF Init, IInv, OneWriter

LEMMA StepKeeps == IInv /\ [Next]_vars => IInv'
<1> SUFFICES ASSUME IInv, [Next]_vars PROVE IInv'
  OBVIOUS
<1>1. ASSUME NEW w \in work, WorkerStep(w) PROVE IInv'
  BY <1>1, ReadLedgerKeeps, ReplaceLedgerKeeps, BindReceiptLedgerKeeps,
     RecordCheckKeeps, BreakKeeps, SucceedKeeps, FailKeeps, VanishKeeps
     DEF WorkerStep
<1>2. ASSUME NEW p \in Proc, RunStep(p) PROVE IInv'
  BY <1>2, BindingKeeps, LoadKeeps, InitializeContextKeeps, AcquireKeeps,
     StartAttemptKeeps, FinishRunKeeps DEF RunStep
<1>3. CASE UNCHANGED vars
  <2>1. UNCHANGED <<journal, ledger, work, memory, proc>>
    BY <1>3 DEF vars, dbVars, procVars
  <2>2. Typed'
    BY <2>1 DEF IInv, Typed, ProcTypes
  <2> QED BY <2>1, <2>2, Frame
<1> QED BY <1>1, <1>2, <1>3, CallsKeep, ForksKeep, CrashKeeps, FinishRunKeeps
        DEF Next

LEMMA Invariance == Spec => []IInv
<1>1. Init => IInv
  BY InitHolds
<1> QED BY <1>1, StepKeeps, PTL DEF Spec

(* An attempt that the journal says succeeded has its agent's and its      *)
(* check's receipt in the run's file, whoever has written the file since.  *)
THEOREM AcceptedIsDocumented == Spec => []AcceptedHasReceipt
<1>1. IInv => AcceptedHasReceipt
  BY DEF IInv
<1> QED BY <1>1, Invariance, PTL

------------------------------------------------------------------------------
(* Nothing runs unbound.  A run has a row before anything works on it, a   *)
(* manifest that is written once and a context that is written once; what  *)
(* a process has verified of them therefore stays true until it is idle.   *)
(* What a lineage was built from is history of the parent that only grows. *)

Grown(j, k) == \A i \in DOMAIN j : i \in DOMAIN k /\ k[i] = j[i]

Sound(f) ==
  /\ f.sequence \in DOMAIN journal["parent"]
  /\ journal["parent"][f.sequence] = f.event
  /\ f.receipts \subseteq (IF ledger["parent"] = None THEN {} ELSE ledger["parent"])
  /\ manifest["parent"] # None /\ manifest["parent"] = f.identity

Rows ==
  /\ row \in [Run -> [status : {"none", "pending", "running"} \cup RunTerminal,
                       life : {"none", "pending", "active"}]]
  /\ manifest \in [Run -> Identity \cup {None}]
  /\ DOMAIN context = Run

ProcBound(p) ==
  LET r == proc[p].run
  IN proc[p].pc # "idle" =>
       /\ proc[p].identity \in Identity
       /\ row[r].status # "none"
       /\ proc[p].pc # "bind" => manifest[r] = proc[p].identity
       /\ proc[p].pc \in {"activate", "acquire", "run"} =>
            row[r].life = "active" /\ context[r] = Context(p)

ForkSound ==
  /\ fork # None => Sound(fork)
  /\ row["child"].status # "none" =>
       lineage # None /\ Sound(lineage) /\ manifest["child"] = lineage.identity

BInv == Rows /\ (\A p \in Proc : ProcBound(p)) /\ ForkSound

LEMMA BoundIsWork == IInv /\ BInv => WorkIsBound
<1> SUFFICES ASSUME IInv, BInv, NEW p \in Proc, proc[p].pc = "run"
             PROVE  LET r == proc[p].run
                    IN /\ manifest[r] = proc[p].identity
                       /\ context[r] = Context(p)
                       /\ r = "child" =>
                            /\ manifest["parent"] = proc[p].identity
                            /\ journal["parent"][lineage.sequence] = lineage.event
                            /\ lineage.receipts \subseteq
                                 (IF ledger["parent"] = None THEN {}
                                                            ELSE ledger["parent"])
  BY DEF WorkIsBound
<1>1. ProcBound(p)
  BY DEF BInv
<1> QED BY <1>1 DEF ProcBound, BInv, ForkSound, Sound

------------------------------------------------------------------------------
(* Journals only grow.                                                     *)
LEMMA AppendGrows ==
  ASSUME NEW j \in Seq(Fact), NEW e \in Fact
  PROVE  Grown(j, Append(j, e)) /\ Grown(j, Append1(j, e))
<1>1. Grown(j, j)
  BY DEF Grown
<1>2. Grown(j, Append(j, e))
  BY DEF Grown
<1> QED BY <1>1, <1>2 DEF Append1

LEMMA GrownTransitive ==
  ASSUME NEW j, NEW k, NEW l, Grown(j, k), Grown(k, l) PROVE Grown(j, l)
  BY DEF Grown

JournalsGrow == \A r \in Run : Grown(journal[r], journal'[r])

LEMMA SameGrows == UNCHANGED journal => JournalsGrow
  BY DEF JournalsGrow, Grown

LEMMA RecordGrows ==
  ASSUME Typed, NEW r \in Run, NEW t \in EventType, NEW a \in Nat,
         Record(r, Event(t, a))
  PROVE  JournalsGrow
<1> DEFINE e == Event(t, a)
           k == Append1(journal[r], e)
<1>1. e \in Fact
  BY EventIsFact
<1>2. journal' = [journal EXCEPT ![r] = k]
  BY DEF Record
<1> HIDE DEF e
<1>3. Grown(journal[r], k)
  BY <1>1, AppendGrows DEF Typed
<1> HIDE DEF k
<1> QED BY <1>2, <1>3 DEF JournalsGrow, Grown, Typed

LEMMA RecordBothGrows ==
  ASSUME Typed, NEW r \in Run, NEW t \in EventType, NEW u \in EventType,
         NEW a \in Nat, RecordBoth(r, Event(t, a), Event(u, a))
  PROVE  JournalsGrow
<1> DEFINE e == Event(t, a)
           f == Event(u, a)
           j == Append1(journal[r], e)
           k == Append1(j, f)
<1>1. e \in Fact /\ f \in Fact
  BY EventIsFact
<1>2. journal' = [journal EXCEPT ![r] = k]
  BY DEF RecordBoth
<1> HIDE DEF e, f
<1>3. Grown(journal[r], j) /\ j \in Seq(Fact)
  BY <1>1, AppendGrows, Append1Fact DEF Typed
<1> HIDE DEF j
<1>4. Grown(j, k)
  BY <1>1, <1>3, AppendGrows
<1> HIDE DEF k
<1>5. Grown(journal[r], k)
  BY <1>3, <1>4, GrownTransitive
<1> QED BY <1>2, <1>5 DEF JournalsGrow, Grown, Typed

LEMMA AcquireGrows == ASSUME IInv, NEW p \in Proc, Acquire(p) PROVE JournalsGrow
<1> DEFINE r == proc[p].run
           j == IF proc[p].resume THEN Append(journal[r], Event("run.resumed", 0))
                                  ELSE journal[r]
           a == CHOOSE b \in Active(j) : TRUE
           k == IF row[r].status = "running" /\ Active(j) # {}
                  THEN Append(j, Event("attempt.interrupted", a)) ELSE j
<1>1. r \in Run /\ journal' = [journal EXCEPT ![r] = k]
  BY DEF Acquire, IInv, Typed, ProcTypes
<1>2. journal[r] \in Seq(Fact) /\ Grown(journal[r], journal[r])
  BY <1>1 DEF IInv, Typed, Grown
<1>3. j \in Seq(Fact) /\ Grown(journal[r], j)
  <2> DEFINE e == Event("run.resumed", 0)
  <2>1. e \in Fact
    BY EventIsFact DEF EventType, CheckpointTypes
  <2> HIDE DEF e
  <2>2. Append(journal[r], e) \in Seq(Fact) /\ Grown(journal[r], Append(journal[r], e))
    BY <1>2, <2>1, AppendFact, AppendGrows
  <2> QED BY <1>2, <2>2 DEF e
<1>4. Grown(j, k)
  <2> HIDE DEF j
  <2>1. CASE Active(j) = {}
    BY <2>1 DEF Grown
  <2>2. CASE Active(j) # {}
    <3>1. a \in Nat
      BY <1>3, <2>2, ActiveIsStarted
    <3> DEFINE e == Event("attempt.interrupted", a)
    <3>2. e \in Fact
      BY <3>1, EventIsFact DEF EventType, AttemptTerminal
    <3> HIDE DEF e, a
    <3>3. Grown(j, Append(j, e))
      BY <1>3, <3>2, AppendGrows
    <3>4. Grown(j, j)
      BY DEF Grown
    <3> QED BY <3>3, <3>4 DEF e
  <2> QED BY <2>1, <2>2
<1> HIDE DEF k, j
<1>5. Grown(journal[r], k)
  BY <1>3, <1>4, GrownTransitive
<1> HIDE DEF r
<1> QED BY <1>1, <1>5 DEF JournalsGrow, Grown, IInv, Typed

LEMMA JournalGrowth == ASSUME IInv, Next PROVE JournalsGrow
<1>1. ASSUME NEW w \in work, WorkerStep(w) PROVE JournalsGrow
  <2>1. w.run \in Run /\ w.attempt \in Nat
    BY PortableAssumption DEF IInv, WorkerHolds, Thread, Attempt
  <2>2. CASE ReadLedger(w) \/ ReplaceLedger(w) \/ BindReceiptLedger(w) \/ Break(w)
             \/ Vanish(w)
    BY <2>2, SameGrows
       DEF ReadLedger, ReplaceLedger, BindReceiptLedger, Break, Vanish, dbVars
  <2>3. CASE RecordCheck(w)
    BY <2>1, <2>3, RecordGrows DEF RecordCheck, IInv, EventType, CheckpointTypes
  <2>4. CASE Succeed(w)
    BY <2>1, <2>4, RecordBothGrows
       DEF Succeed, IInv, EventType, AttemptTerminal, CheckpointTypes
  <2>5. CASE Fail(w)
    BY <2>1, <2>5, RecordBothGrows
       DEF Fail, IInv, EventType, AttemptTerminal, CheckpointTypes
  <2> QED BY <1>1, <2>2, <2>3, <2>4, <2>5 DEF WorkerStep
<1>2. ASSUME NEW p \in Proc, StartAttempt(p) PROVE JournalsGrow
  <2>1. proc[p].run \in Run /\ Attempts(proc[p].run) + 1 \in Nat
    BY <1>2, ActiveIsStarted
       DEF StartAttempt, Owns, IInv, Typed, ProcTypes, Attempts
  <2> QED BY <1>2, <2>1, RecordGrows DEF StartAttempt, IInv, EventType
<1>3. ASSUME NEW p \in Proc, InitializeContext(p) PROVE JournalsGrow
  <2>1. proc[p].run \in Run
    BY <1>3 DEF InitializeContext, IInv, Typed, ProcTypes
  <2>2. CASE UNCHANGED journal
    BY <2>2, SameGrows
  <2>3. CASE \E t \in {"run.started", "run.forked"} :
               Record(proc[p].run, Event(t, 0))
    BY <2>1, <2>3, RecordGrows DEF IInv, EventType, CheckpointTypes
  <2> QED BY <1>3, <2>2, <2>3 DEF InitializeContext
<1>4. ASSUME NEW p \in Proc, FinishRun(p) PROVE JournalsGrow
  <2>1. proc[p].run \in Run
    BY <1>4 DEF FinishRun, Owns, IInv, Typed, ProcTypes
  <2>2. PICK t \in {"run.succeeded", "run.failed"} :
          Record(proc[p].run, Event(t, 0))
    BY <1>4 DEF FinishRun
  <2> QED BY <2>1, <2>2, RecordGrows DEF IInv, EventType, CheckpointTypes
<1>5. ASSUME NEW p \in Proc,
             BindExecutionIdentity(p) \/ Load(p) \/ LoadAbsent(p) \/ LoadLocked(p)
             \/ VerifyLineage(p) \/ ActivateFork(p) \/ RefuseLease(p)
      PROVE  JournalsGrow
  BY <1>5, SameGrows
     DEF BindExecutionIdentity, Load, LoadAbsent, LoadLocked, VerifyLineage,
         ActivateFork, RefuseLease, Loaded, Refuse, dbVars
<1>6. ASSUME NEW p \in Proc, LoseLease(p) \/ Crash(p) PROVE JournalsGrow
  BY <1>6, SameGrows DEF LoseLease, Crash
<1>7. ASSUME NEW p \in Proc, NEW i \in Identity,
             CreateRun(p, i) \/ \E r \in Run : Resume(p, r, i)
      PROVE  JournalsGrow
  BY <1>7, SameGrows DEF CreateRun, Resume, dbVars
<1>8. CASE CreateForkRun \/ \E s \in DOMAIN journal["parent"] : BuildLineage(s)
  BY <1>8, SameGrows DEF CreateForkRun, BuildLineage, dbVars
<1> QED BY <1>1, <1>2, <1>3, <1>4, <1>5, <1>6, <1>7, <1>8, AcquireGrows
        DEF Next, RunStep

(* Which operation writes what the ledgers, bindings, lineages and rows of  *)
(* the runs hold.                                                          *)
WritersOnly ==
  /\ (\E w \in work : ReplaceLedger(w)) \/ UNCHANGED ledger
  /\ (\E w \in work : BindReceiptLedger(w)) \/ UNCHANGED binding
  /\ \/ fork' \in {fork, None}
     \/ \E s \in DOMAIN journal["parent"] : BuildLineage(s)
  /\ UNCHANGED lineage \/ CreateForkRun
  /\ \/ \E p \in Proc : FinishRun(p) \/ ActivateFork(p) \/ InitializeContext(p)
     \/ \E p \in Proc, i \in Identity : CreateRun(p, i)
     \/ CreateForkRun
     \/ UNCHANGED <<row, context>>

LEMMA StepWrites == ASSUME Next PROVE WritersOnly
<1>1. ASSUME NEW w \in work, WorkerStep(w) PROVE WritersOnly
  <2>1. CASE ReadLedger(w) \/ Break(w) \/ Vanish(w)
    BY <2>1 DEF ReadLedger, Break, Vanish, WritersOnly, dbVars
  <2>2. CASE RecordCheck(w) \/ Succeed(w) \/ Fail(w)
    BY <2>2 DEF RecordCheck, Succeed, Fail, WritersOnly
  <2>3. CASE ReplaceLedger(w) \/ BindReceiptLedger(w)
    BY <2>3 DEF ReplaceLedger, BindReceiptLedger, WritersOnly, dbVars
  <2> QED BY <1>1, <2>1, <2>2, <2>3 DEF WorkerStep
<1>2. ASSUME NEW p \in Proc, RunStep(p) PROVE WritersOnly
  <2>1. CASE BindExecutionIdentity(p) \/ Load(p) \/ Acquire(p) \/ StartAttempt(p)
    BY <2>1 DEF BindExecutionIdentity, Load, Acquire, StartAttempt, WritersOnly,
                dbVars
  <2>2. CASE LoadAbsent(p) \/ LoadLocked(p) \/ VerifyLineage(p) \/ RefuseLease(p)
    BY <2>2 DEF LoadAbsent, LoadLocked, VerifyLineage, RefuseLease, Loaded, Refuse,
                WritersOnly, dbVars
  <2>3. CASE InitializeContext(p)
    BY <2>3 DEF InitializeContext, WritersOnly
  <2>4. CASE ActivateFork(p)
    BY <2>4 DEF ActivateFork, Refuse, WritersOnly, dbVars
  <2>5. CASE FinishRun(p)
    BY <2>5 DEF FinishRun, WritersOnly
  <2> QED BY <1>2, <2>1, <2>2, <2>3, <2>4, <2>5 DEF RunStep
<1>3. ASSUME NEW p \in Proc, LoseLease(p) \/ Crash(p) PROVE WritersOnly
  BY <1>3 DEF LoseLease, Crash, WritersOnly
<1>4. ASSUME NEW p \in Proc, NEW i \in Identity,
             CreateRun(p, i) \/ \E r \in Run : Resume(p, r, i)
      PROVE  WritersOnly
  BY <1>4 DEF CreateRun, Resume, WritersOnly, dbVars
<1>5. CASE CreateForkRun
  BY <1>5 DEF CreateForkRun, WritersOnly
<1>6. ASSUME NEW s \in DOMAIN journal["parent"], BuildLineage(s) PROVE WritersOnly
  BY <1>6 DEF BuildLineage, WritersOnly, dbVars
<1> QED BY <1>1, <1>2, <1>3, <1>4, <1>5, <1>6 DEF Next

LEMMA LedgersGrow == ASSUME IInv, Next PROVE \A r \in Run : Kept(r)
<1>1. ASSUME NEW w \in work, ReplaceLedger(w) PROVE \A r \in Run : Kept(r)
  BY <1>1, Growth
<1>2. CASE UNCHANGED ledger
  BY <1>2 DEF Kept
<1>3. (\E w \in work : ReplaceLedger(w)) \/ UNCHANGED ledger
  BY StepWrites DEF WritersOnly
<1> QED BY <1>1, <1>2, <1>3

(* No thread drops a receipt that another wrote: the file only grows.      *)
THEOREM LedgerGrows == Spec => LedgerKept
<1>1. IInv /\ [Next]_vars => [\A r \in Run : Kept(r)]_vars
  BY LedgersGrow
<1> QED BY <1>1, Invariance, PTL DEF Spec, LedgerKept

(* What a lineage was built from is still there.                           *)
LEMMA SoundStays ==
  ASSUME NEW f, Sound(f), JournalsGrow, \A r \in Run : Kept(r),
         manifest'["parent"] = manifest["parent"]
  PROVE  /\ f.sequence \in DOMAIN journal'["parent"]
         /\ journal'["parent"][f.sequence] = f.event
         /\ f.receipts \subseteq (IF ledger'["parent"] = None THEN {}
                                                             ELSE ledger'["parent"])
         /\ manifest'["parent"] # None /\ manifest'["parent"] = f.identity
  BY DEF Sound, JournalsGrow, Grown, Kept, Run

SameLives ==
  \A r \in Run : /\ row'[r].life = row[r].life
                 /\ (row'[r].status = "none" <=> row[r].status = "none")

(* Steps that write no manifest, context or lineage.                       *)
LEMMA BoundFrame ==
  ASSUME IInv, BInv, Next, UNCHANGED <<manifest, context, lineage, fork>>, Rows',
         SameLives,
         \A p \in Proc : ProcBound(p)'
  PROVE  BInv'
<1>1. JournalsGrow /\ \A r \in Run : Kept(r)
  BY JournalGrowth, LedgersGrow
<1>2. fork # None => Sound(fork)'
  BY <1>1, SoundStays DEF BInv, ForkSound, Sound
<1>3. row'["child"].status # "none" =>
        lineage # None /\ Sound(lineage)' /\ manifest["child"] = lineage.identity
  BY <1>1, SoundStays DEF BInv, ForkSound, Sound, Run, SameLives
<1> QED BY <1>2, <1>3 DEF BInv, ForkSound

(* A process that changes only its program counter, to one that promises   *)
(* no more than it has verified.                                           *)
LEMMA MovesBound ==
  ASSUME IInv, BInv, UNCHANGED <<manifest, context, lineage>>,
         SameLives,
         NEW p \in Proc,
         \A q \in Proc \ {p} : proc'[q] = proc[q],
         \/ proc'[p] = proc[p]
         \/ proc'[p].pc = "idle"
         \/ /\ proc[p].pc # "idle"
            /\ proc'[p].run = proc[p].run /\ proc'[p].identity = proc[p].identity
            /\ \/ /\ proc'[p].pc \in {"unbound", "locked", "lineage", "context"}
                  /\ proc[p].pc \notin {"bind", "activate", "acquire", "run"}
               \/ /\ proc'[p].pc \in {"acquire", "run"}
                  /\ proc[p].pc \in {"activate", "acquire", "run"}
  PROVE  \A q \in Proc : ProcBound(q)'
<1>1. ASSUME NEW q \in Proc \ {p} PROVE ProcBound(q)'
  <2>1. ProcBound(q) /\ proc'[q] = proc[q]
        /\ (proc[q].pc # "idle" => proc[q].run \in Run)
    BY DEF BInv, IInv, Typed, ProcTypes
  <2> QED BY <2>1 DEF ProcBound, Context, LineageOf, SameLives
<1>2. ProcBound(p)'
  <2>1. ProcBound(p) /\ (proc[p].pc # "idle" => proc[p].run \in Run)
    BY DEF BInv, IInv, Typed, ProcTypes
  <2>2. CASE proc'[p] = proc[p]
    BY <2>1, <2>2 DEF ProcBound, Context, LineageOf, SameLives
  <2>3. CASE proc'[p].pc = "idle"
    BY <2>3 DEF ProcBound
  <2>4. CASE /\ proc[p].pc # "idle"
             /\ proc'[p].run = proc[p].run /\ proc'[p].identity = proc[p].identity
             /\ \/ /\ proc'[p].pc \in {"unbound", "locked", "lineage", "context"}
                   /\ proc[p].pc \notin {"bind", "activate", "acquire", "run"}
                \/ /\ proc'[p].pc \in {"acquire", "run"}
                   /\ proc[p].pc \in {"activate", "acquire", "run"}
    BY <2>1, <2>4 DEF ProcBound, Context, LineageOf, SameLives
  <2> QED BY <2>2, <2>3, <2>4
<1> QED BY <1>1, <1>2

LEMMA GotoIs ==
  ASSUME Typed, NEW p \in Proc, NEW pc, Goto(p, pc)
  PROVE  /\ \A q \in Proc \ {p} : proc'[q] = proc[q]
         /\ proc'[p].pc = pc /\ proc'[p].run = proc[p].run
         /\ proc'[p].identity = proc[p].identity
  BY DEF Typed, ProcTypes, Goto

LEMMA StopIs ==
  ASSUME Typed, NEW p \in Proc, Stop(p)
  PROVE  (\A q \in Proc \ {p} : proc'[q] = proc[q]) /\ proc'[p].pc = "idle"
  BY DEF Typed, ProcTypes, Stop, Idle

LEMMA SameRows ==
  ASSUME BInv, UNCHANGED <<row, manifest, context>>
  PROVE  Rows' /\ SameLives
  BY DEF BInv, Rows, SameLives

(* The steps of run() that bind nothing.                                   *)
LEMMA UnbindingKeeps ==
  ASSUME IInv, BInv, Next, NEW p \in Proc,
         \/ Load(p) \/ LoadAbsent(p) \/ LoadLocked(p) \/ VerifyLineage(p)
         \/ Acquire(p) \/ RefuseLease(p) \/ LoseLease(p) \/ Crash(p)
  PROVE  BInv'
<1>1. UNCHANGED <<row, manifest, context, lineage, fork>>
  BY DEF Load, LoadAbsent, LoadLocked, Loaded, VerifyLineage, Refuse, Acquire,
         RefuseLease, LoseLease, Crash, dbVars
<1>2. Typed
  BY DEF IInv
<1>3. \/ Stop(p)
      \/ /\ proc[p].pc \in {"load", "unbound", "locked", "lineage"}
         /\ \E pc \in {"unbound", "locked", "lineage", "context"} : Goto(p, pc)
      \/ proc[p].pc = "acquire" /\ Goto(p, "run")
  BY DEF Load, LoadAbsent, LoadLocked, Loaded, VerifyLineage, Refuse, Acquire,
         RefuseLease, LoseLease, Crash
<1>4. \A q \in Proc : ProcBound(q)'
  <2>1. CASE Stop(p)
    BY <1>1, <1>2, <2>1, StopIs, SameRows, MovesBound
  <2>2. ASSUME proc[p].pc \in {"load", "unbound", "locked", "lineage"},
               NEW pc \in {"unbound", "locked", "lineage", "context"}, Goto(p, pc)
        PROVE  \A q \in Proc : ProcBound(q)'
    <3>1. /\ \A q \in Proc \ {p} : proc'[q] = proc[q]
          /\ proc'[p].pc = pc /\ proc'[p].run = proc[p].run
          /\ proc'[p].identity = proc[p].identity
      BY <1>2, <2>2, GotoIs
    <3> QED BY <1>1, <2>2, <3>1, SameRows, MovesBound
  <2>3. CASE proc[p].pc = "acquire" /\ Goto(p, "run")
    <3>1. /\ \A q \in Proc \ {p} : proc'[q] = proc[q]
          /\ proc'[p].pc = "run" /\ proc'[p].run = proc[p].run
          /\ proc'[p].identity = proc[p].identity
      BY <1>2, <2>3, GotoIs
    <3> QED BY <1>1, <2>3, <3>1, SameRows, MovesBound
  <2> QED BY <1>3, <2>1, <2>2, <2>3
<1> QED BY <1>1, <1>4, SameRows, BoundFrame

(* Threads and their attempts touch neither the processes nor the bindings. *)
LEMMA ThreadsKeep ==
  ASSUME IInv, BInv, Next,
         \/ \E w \in work : WorkerStep(w)
         \/ \E p \in Proc : StartAttempt(p)
  PROVE  BInv'
<1>1. UNCHANGED <<row, manifest, context, lineage, fork, proc>>
  BY DEF WorkerStep, ReadLedger, ReplaceLedger, BindReceiptLedger, RecordCheck,
         Break, Succeed, Fail, Vanish, StartAttempt, dbVars, procVars
<1>2. \A p \in Proc : ProcBound(p)'
  BY <1>1 DEF BInv, ProcBound, Context, LineageOf
<1> QED BY <1>1, <1>2, SameRows, BoundFrame

LEMMA FinishRunBound ==
  ASSUME IInv, BInv, Next, NEW p \in Proc, FinishRun(p) PROVE BInv'
<1> DEFINE r == proc[p].run
           v == Verdict(r)
<1>1. /\ r \in Run /\ proc[p].pc = "run" /\ v \in RunTerminal /\ Stop(p)
      /\ row' = [row EXCEPT ![r].status = v]
      /\ UNCHANGED <<manifest, context, lineage, fork>>
  BY DEF FinishRun, Owns, IInv, Typed, ProcTypes, Verdict, RunTerminal
<1> HIDE DEF v
<1>2. row[r].status # "none"
  BY <1>1 DEF BInv, ProcBound
<1>3. Rows'
  BY <1>1 DEF BInv, Rows
<1>4. SameLives
  BY <1>1, <1>2 DEF BInv, Rows, RunTerminal, SameLives
<1>5. \A q \in Proc : ProcBound(q)'
  BY <1>1, <1>4, StopIs, MovesBound DEF IInv
<1> QED BY <1>1, <1>3, <1>4, <1>5, BoundFrame

LEMMA ActivateForkBound ==
  ASSUME IInv, BInv, Next, NEW p \in Proc, ActivateFork(p) PROVE BInv'
<1>1. CASE Refuse(p)
  <2>1. UNCHANGED <<row, manifest, context, lineage, fork>> /\ Stop(p)
    BY <1>1 DEF Refuse, dbVars
  <2>2. \A q \in Proc : ProcBound(q)'
    BY <2>1, StopIs, SameRows, MovesBound DEF IInv
  <2> QED BY <2>1, <2>2, SameRows, BoundFrame
<1> DEFINE r == proc[p].run
<1>2. CASE /\ row' = [row EXCEPT ![r].status = "running"] /\ Goto(p, "acquire")
           /\ UNCHANGED <<manifest, context, lineage, fork>>
  <2>1. proc[p].pc = "activate" /\ r \in Run /\ row[r].status # "none"
    BY DEF ActivateFork, IInv, Typed, ProcTypes, BInv, ProcBound
  <2>2. Rows'
    BY <1>2 DEF BInv, Rows
  <2>3. SameLives
    BY <1>2, <2>1 DEF BInv, Rows, SameLives
  <2>4. /\ \A q \in Proc \ {p} : proc'[q] = proc[q]
        /\ proc'[p].pc = "acquire" /\ proc'[p].run = proc[p].run
        /\ proc'[p].identity = proc[p].identity
    BY <1>2, GotoIs DEF IInv
  <2>5. \A q \in Proc : ProcBound(q)'
    BY <1>2, <2>1, <2>3, <2>4, MovesBound
  <2> QED BY <1>2, <2>2, <2>3, <2>5, BoundFrame
<1> QED BY <1>1, <1>2 DEF ActivateFork

LEMMA BindBound ==
  ASSUME IInv, BInv, Next, NEW p \in Proc, BindExecutionIdentity(p) PROVE BInv'
<1> DEFINE r == proc[p].run
<1>1. /\ r \in Run /\ proc[p].pc = "bind" /\ manifest[r] = None
      /\ proc[p].identity \in Identity /\ row[r].status # "none"
      /\ manifest' = [manifest EXCEPT ![r] = proc[p].identity]
      /\ Goto(p, "lineage") /\ UNCHANGED <<row, context, lineage, fork>>
  BY DEF BindExecutionIdentity, IInv, Typed, ProcTypes, BInv, ProcBound
<1>2. Rows'
  BY <1>1 DEF BInv, Rows
<1>3. /\ \A q \in Proc \ {p} : proc'[q] = proc[q]
      /\ proc'[p].pc = "lineage" /\ proc'[p].run = r
      /\ proc'[p].identity = proc[p].identity
  BY <1>1, GotoIs DEF IInv
<1>4. manifest'[r] = proc[p].identity
      /\ \A q \in Run : manifest[q] # None => manifest'[q] = manifest[q]
  BY <1>1 DEF BInv, Rows
<1> HIDE DEF r
<1>5. ProcBound(p)'
  BY <1>1, <1>3, <1>4 DEF ProcBound
<1>6. ASSUME NEW q \in Proc \ {p} PROVE ProcBound(q)'
  <2>1. ProcBound(q) /\ proc'[q] = proc[q]
        /\ (proc[q].pc # "idle" => proc[q].run \in Run)
    BY <1>3 DEF BInv, IInv, Typed, ProcTypes
  <2>2. proc[q].pc # "idle" /\ proc[q].pc # "bind" =>
          manifest'[proc[q].run] = proc[q].identity
    BY <2>1, <1>4, PortableAssumption DEF ProcBound
  <2> QED BY <1>1, <2>1, <2>2 DEF ProcBound, Context, LineageOf
<1>7. JournalsGrow /\ \A q \in Run : Kept(q)
  BY JournalGrowth, LedgersGrow
<1>8. ASSUME NEW f, Sound(f)
      PROVE  Sound(f)' /\ manifest'["parent"] = manifest["parent"]
  <2>1. manifest'["parent"] = manifest["parent"]
    BY <1>4, <1>8 DEF Sound, Run
  <2> QED BY <1>7, <1>8, <2>1, SoundStays DEF Sound
<1>9. fork # None => Sound(fork)'
  BY <1>1, <1>8 DEF BInv, ForkSound, Sound
<1>10. row["child"].status # "none" =>
         /\ lineage # None /\ Sound(lineage)'
         /\ manifest'["child"] = lineage.identity
  <2>1. SUFFICES ASSUME row["child"].status # "none"
                 PROVE  /\ lineage # None /\ Sound(lineage)'
                        /\ manifest'["child"] = lineage.identity
    OBVIOUS
  <2>2. lineage # None /\ Sound(lineage) /\ manifest["child"] = lineage.identity
    BY <2>1 DEF BInv, ForkSound
  <2>3. manifest["child"] # None
    BY <2>2 DEF Sound
  <2>4. Sound(lineage)'
    BY <1>1, <1>8, <2>2 DEF Sound
  <2> QED BY <1>4, <2>2, <2>3, <2>4 DEF Run
<1> QED BY <1>1, <1>2, <1>5, <1>6, <1>9, <1>10 DEF BInv, ForkSound

(* Whoever initialises a pending run's context is the first to have one.   *)
LEMMA InitializeContextBound ==
  ASSUME IInv, BInv, Next, NEW p \in Proc, InitializeContext(p) PROVE BInv'
<1> DEFINE r == proc[p].run
<1>1. /\ r \in Run /\ proc[p].pc = "context" /\ ProcBound(p)
      /\ UNCHANGED <<manifest, lineage, fork>>
  BY DEF InitializeContext, IInv, Typed, ProcTypes, BInv
<1>2. PICK pc \in {"acquire", "activate"} : Goto(p, pc)
  BY DEF InitializeContext
<1>3. /\ \A q \in Proc \ {p} : proc'[q] = proc[q]
      /\ proc'[p].pc = pc /\ proc'[p].run = r
      /\ proc'[p].identity = proc[p].identity
  BY <1>2, GotoIs DEF IInv
<1>4. \A q \in Proc : proc'[q].run = proc[q].run
                      /\ proc'[q].identity = proc[q].identity
  BY <1>3
<1>5. \A q \in Proc : Context(q)' = Context(q)
  BY <1>1, <1>4 DEF Context, LineageOf
<1>6. /\ Rows'
      /\ \A s \in Run : row'[s].status = row[s].status
      /\ row'[r].life = "active" /\ context'[r] = Context(p)
      /\ \A s \in Run : row[s].life = "active" =>
                          row'[s].life = "active" /\ context'[s] = context[s]
  <2>1. CASE /\ row[r].life = "pending"
             /\ row' = [row EXCEPT ![r].life = "active"]
             /\ context' = [context EXCEPT ![r] = Context(p)]
    BY <1>1, <2>1 DEF BInv, Rows
  <2>2. CASE /\ row[r].life = "active" /\ context[r] = Context(p)
             /\ UNCHANGED <<row, context>>
    BY <1>1, <2>2 DEF BInv, Rows
  <2> QED BY <2>1, <2>2 DEF InitializeContext
<1>7. ProcBound(p)'
  BY <1>1, <1>3, <1>5, <1>6 DEF ProcBound
<1>8. ASSUME NEW q \in Proc \ {p} PROVE ProcBound(q)'
  <2>1. ProcBound(q) /\ proc'[q] = proc[q] /\ Context(q)' = Context(q)
        /\ (proc[q].pc # "idle" => proc[q].run \in Run)
    BY <1>3, <1>5 DEF BInv, IInv, Typed, ProcTypes
  <2> QED BY <1>1, <1>6, <2>1 DEF ProcBound
<1>9. JournalsGrow /\ \A q \in Run : Kept(q)
  BY JournalGrowth, LedgersGrow
<1>10. fork # None => Sound(fork)'
  BY <1>1, <1>9, SoundStays DEF BInv, ForkSound, Sound
<1>11. row'["child"].status # "none" =>
         lineage # None /\ Sound(lineage)' /\ manifest["child"] = lineage.identity
  BY <1>1, <1>6, <1>9, SoundStays DEF BInv, ForkSound, Sound, Run
<1> QED BY <1>1, <1>6, <1>7, <1>8, <1>10, <1>11 DEF BInv, ForkSound

------------------------------------------------------------------------------
LEMMA EnterIs ==
  ASSUME Typed, NEW p \in Proc, NEW r \in Run, NEW i \in Identity,
         NEW b \in BOOLEAN, NEW pc, Enter(p, r, i, b, pc)
  PROVE  /\ \A q \in Proc \ {p} : proc'[q] = proc[q]
         /\ proc'[p].pc = pc /\ proc'[p].run = r /\ proc'[p].identity = i
  BY DEF Typed, ProcTypes, Enter

LEMMA ResumeBound ==
  ASSUME IInv, BInv, Next, NEW p \in Proc, NEW r \in Run, NEW i \in Identity,
         Resume(p, r, i)
  PROVE  BInv'
<1>1. PICK pc \in {"lineage", "load"} : Enter(p, r, i, TRUE, pc)
  BY DEF Resume
<1>2. /\ UNCHANGED <<row, manifest, context, lineage, fork>>
      /\ row[r].status # "none" /\ manifest[r] = i
  BY DEF Resume, IdentityVerified, dbVars
<1>3. /\ \A q \in Proc \ {p} : proc'[q] = proc[q]
      /\ proc'[p].pc = pc /\ proc'[p].run = r /\ proc'[p].identity = i
  BY <1>1, EnterIs DEF IInv
<1>4. ProcBound(p)'
  BY <1>2, <1>3 DEF ProcBound
<1>5. ASSUME NEW q \in Proc \ {p} PROVE ProcBound(q)'
  BY <1>2, <1>3 DEF BInv, ProcBound, Context, LineageOf
<1> QED BY <1>2, <1>4, <1>5, SameRows, BoundFrame

LEMMA CreateRunBound ==
  ASSUME IInv, BInv, Next, NEW p \in Proc, NEW i \in Identity, CreateRun(p, i)
  PROVE  BInv'
<1>1. /\ row["parent"].status = "none" /\ Enter(p, "parent", i, FALSE, "bind")
      /\ row' = [row EXCEPT !["parent"] = [status |-> "running", life |-> "pending"]]
      /\ UNCHANGED <<manifest, context, lineage, fork>>
  BY DEF CreateRun
<1>2. /\ \A q \in Proc \ {p} : proc'[q] = proc[q]
      /\ proc'[p].pc = "bind" /\ proc'[p].run = "parent" /\ proc'[p].identity = i
  BY <1>1, EnterIs DEF IInv, Run
<1>3. /\ Rows' /\ row'["parent"].status = "running"
      /\ row'["child"] = row["child"]
  BY <1>1 DEF BInv, Rows, Run
<1>4. ProcBound(p)'
  BY <1>2, <1>3 DEF ProcBound
<1>5. ASSUME NEW q \in Proc \ {p} PROVE ProcBound(q)'
  <2>1. ProcBound(q) /\ proc'[q] = proc[q]
        /\ (proc[q].pc # "idle" => proc[q].run \in Run)
    BY <1>2 DEF BInv, IInv, Typed, ProcTypes
  <2>2. proc[q].pc # "idle" => proc[q].run = "child"
    BY <1>1, <2>1 DEF ProcBound, Run
  <2> QED BY <1>1, <1>3, <2>1, <2>2 DEF ProcBound, Context, LineageOf
<1>6. JournalsGrow /\ \A q \in Run : Kept(q)
  BY JournalGrowth, LedgersGrow
<1>7. fork # None => Sound(fork)'
  BY <1>1, <1>6, SoundStays DEF BInv, ForkSound, Sound
<1>8. row'["child"].status # "none" =>
        lineage # None /\ Sound(lineage)' /\ manifest["child"] = lineage.identity
  BY <1>1, <1>3, <1>6, SoundStays DEF BInv, ForkSound, Sound
<1> QED BY <1>1, <1>3, <1>4, <1>5, <1>7, <1>8 DEF BInv, ForkSound

(* A lineage is built of what is there.                                    *)
LEMMA BuildLineageBound ==
  ASSUME IInv, BInv, Next, NEW s \in DOMAIN journal["parent"], BuildLineage(s)
  PROVE  BInv'
<1>1. /\ Checkpoint("parent", s) /\ fork' = Lineage("parent", s)
      /\ UNCHANGED <<row, manifest, context, lineage, journal, ledger, proc>>
  BY DEF BuildLineage, dbVars, procVars
<1> PICK f : f = Lineage("parent", s)
  OBVIOUS
<1>2. /\ f.sequence = s /\ f.event = journal["parent"][s]
      /\ f.identity = manifest["parent"]
      /\ f.receipts = ReceiptSnapshot("parent", s)
  BY DEF Lineage
<1>3. f.receipts \subseteq (IF ledger["parent"] = None THEN {} ELSE ledger["parent"])
  <2>1. CASE binding["parent"] = None
    BY <1>2, <2>1 DEF ReceiptSnapshot
  <2>2. CASE binding["parent"] # None
    <3>1. ledger["parent"] # None
      BY <1>1, <2>2 DEF Checkpoint, Trusted
    <3> QED BY <1>2, <2>2, <3>1 DEF ReceiptSnapshot
  <2> QED BY <2>1, <2>2
<1>4. Sound(f)
  BY <1>1, <1>2, <1>3 DEF Sound, Checkpoint
<1>5. Sound(fork)'
  BY <1>1, <1>4 DEF Sound
<1>6. row["child"].status # "none" =>
        lineage # None /\ Sound(lineage)' /\ manifest["child"] = lineage.identity
  BY <1>1 DEF BInv, ForkSound, Sound
<1>7. \A p \in Proc : ProcBound(p)'
  BY <1>1 DEF BInv, ProcBound, Context, LineageOf
<1> QED BY <1>1, <1>5, <1>6, <1>7 DEF BInv, ForkSound, Rows

(* Nothing works on a child before its row is there.                       *)
LEMMA CreateForkRunBound == ASSUME IInv, BInv, Next, CreateForkRun PROVE BInv'
<1>1. /\ fork # None /\ row["child"].status = "none" /\ Sound(fork)
      /\ row' = [row EXCEPT !["child"] = [status |-> "pending", life |-> "pending"]]
      /\ manifest' = [manifest EXCEPT !["child"] = manifest["parent"]]
      /\ lineage' = fork /\ fork' = None
      /\ UNCHANGED <<context, journal, ledger, proc>>
  BY DEF CreateForkRun, procVars, BInv, ForkSound
<1>2. /\ Rows' /\ manifest'["parent"] = manifest["parent"]
      /\ manifest'["child"] = manifest["parent"] /\ row'["parent"] = row["parent"]
  BY <1>1 DEF BInv, Rows, Run
<1>3. ASSUME NEW q \in Proc PROVE ProcBound(q)'
  <2>1. ProcBound(q) /\ (proc[q].pc # "idle" => proc[q].run \in Run)
    BY DEF BInv, IInv, Typed, ProcTypes
  <2>2. proc[q].pc # "idle" => proc[q].run = "parent"
    BY <1>1, <2>1 DEF ProcBound, Run
  <2> QED BY <1>1, <1>2, <2>1, <2>2 DEF ProcBound, Context, LineageOf
<1>4. Sound(lineage)' /\ lineage' # None /\ manifest'["child"] = lineage'.identity
  BY <1>1, <1>2 DEF Sound
<1> QED BY <1>1, <1>2, <1>3, <1>4 DEF BInv, ForkSound

LEMMA InitBound == Init => BInv
  BY DEF Init, BInv, Rows, ProcBound, ForkSound, Idle, Run

LEMMA StepBound == IInv /\ BInv /\ [Next]_vars => BInv'
<1> SUFFICES ASSUME IInv, BInv, [Next]_vars PROVE BInv'
  OBVIOUS
<1>1. CASE Next
  <2>1. ASSUME NEW p \in Proc, RunStep(p) PROVE BInv'
    BY <1>1, <2>1, BindBound, UnbindingKeeps, InitializeContextBound,
       ActivateForkBound, ThreadsKeep, FinishRunBound DEF RunStep
  <2>2. ASSUME NEW p \in Proc, LoseLease(p) \/ Crash(p) PROVE BInv'
    BY <1>1, <2>2, UnbindingKeeps
  <2> QED BY <1>1, <2>1, <2>2, ThreadsKeep, CreateRunBound, ResumeBound,
             BuildLineageBound, CreateForkRunBound DEF Next
<1>2. CASE UNCHANGED vars
  BY <1>2 DEF vars, dbVars, procVars, BInv, Rows, ProcBound, Context, LineageOf,
              ForkSound, Sound
<1> QED BY <1>1, <1>2

------------------------------------------------------------------------------
(* Nothing executes for a run but under the identity and the context that  *)
(* the run is bound to, and a fork under its parent's.                     *)
THEOREM NothingRunsUnbound == Spec => []WorkIsBound
<1>1. Init => BInv
  BY InitBound
<1> QED BY <1>1, StepBound, BoundIsWork, Invariance, PTL DEF Spec

------------------------------------------------------------------------------
(* Forks drift only late.  A receipt is of the run in whose file it is; an *)
(* attempt the journal says was checked, like one it says was accepted,    *)
(* has its receipt in the file, and the file is bound by then (Documented).*)
(* A checkpoint's lineage therefore holds every receipt of what was        *)
(* checked or accepted before it (Drawn), and the file can add to it       *)
(* nothing but a result of an attempt that was settled without one.        *)

Documented ==
  \A r \in Run :
    /\ r \in DOMAIN binding
    /\ ledger[r] # None => \A m \in ledger[r] : m.run = r
    /\ \A a \in Checked(journal[r]) : Written(r, a, "check")
    /\ Accepted(journal[r]) \cup Checked(journal[r]) # {} => binding[r] # None
    /\ row[r].life = "active" => row[r].status # "none"

ThreadsDocumented ==
  \A w \in work :
    /\ w.step = "replace" => \A m \in w.merged : m.run = w.run
    /\ w.at \in {"check", "checked", "done"} => binding[w.run] # None

Own(k, a) == [run |-> "parent", kind |-> k, attempt |-> a]

Drawn(f) ==
  LET j == SubSeq(journal["parent"], 1, f.sequence)
  IN /\ f = [sequence |-> f.sequence, event |-> f.event, context |-> f.context,
              identity |-> f.identity, receipts |-> f.receipts]
     /\ f.event.type \in CheckpointTypes /\ Active(j) = {}
     /\ row["parent"].life = "active"
     /\ context["parent"] = f.context /\ f.context.identity = f.identity
     /\ f.receipts # {} => binding["parent"] # None
     /\ \A m \in f.receipts : \/ m.kind = "agent" /\ m.attempt \in Settled(j)
                              \/ m.kind = "check" /\ m.attempt \in Checked(j)
     /\ \A a \in Accepted(j) : Own("agent", a) \in f.receipts
     /\ \A a \in Checked(j) : Own("check", a) \in f.receipts

ForksDrawn ==
  /\ fork # None => Drawn(fork)
  /\ lineage # None => row["child"].status # "none" /\ Drawn(lineage)

(* What is bound was once the file, and the file only grows.               *)
BoundBehind ==
  \A r \in Run : binding[r] # None =>
    ledger[r] # None /\ binding[r] \subseteq ledger[r]

DInv == Documented /\ ThreadsDocumented /\ ForksDrawn /\ BoundBehind

(* Every fact a step adds to a journal is one of those it records.         *)
LEMMA AppendTypes ==
  ASSUME NEW j \in Seq(Fact), NEW e \in Fact, NEW T
  PROVE  /\ Types(Append(j, e), T) \subseteq
              Types(j, T) \cup {a \in {e.attempt} : e.type \in T}
         /\ Types(Append1(j, e), T) \subseteq
              Types(j, T) \cup {a \in {e.attempt} : e.type \in T}
<1> DEFINE k == Append(j, e)
<1>1. k \in Seq(Fact) /\ Len(k) = Len(j) + 1 /\ k[Len(j) + 1] = e
      /\ \A i \in 1 .. Len(j) : k[i] = j[i]
  OBVIOUS
<1>2. DOMAIN k = 1 .. Len(j) + 1 /\ DOMAIN j = 1 .. Len(j) /\ Len(j) \in Nat
  BY <1>1
<1> HIDE DEF k
<1>3. ASSUME NEW a \in Types(k, T)
      PROVE  a \in Types(j, T) \cup {b \in {e.attempt} : e.type \in T}
  <2>1. PICK i \in DOMAIN k : k[i].type \in T /\ a = k[i].attempt
    BY <1>3 DEF Types
  <2>2. CASE i = Len(j) + 1
    BY <2>1, <2>2, <1>1
  <2>3. CASE i \in 1 .. Len(j)
    BY <2>1, <2>3, <1>1, <1>2 DEF Types
  <2> QED BY <2>1, <2>2, <2>3, <1>2
<1>4. Types(Append(j, e), T) \subseteq
        Types(j, T) \cup {a \in {e.attempt} : e.type \in T}
  BY <1>3 DEF k
<1> QED BY <1>4 DEF Append1

LEMMA RecordTypes ==
  ASSUME Typed, NEW r \in Run, NEW t \in EventType, NEW a \in Nat,
         Record(r, Event(t, a)), NEW T, NEW q \in Run
  PROVE  \A b \in Types(journal'[q], T) \ Types(journal[q], T) :
           q = r /\ b = a /\ t \in T
<1> DEFINE e == Event(t, a)
           k == Append1(journal[r], e)
<1>1. e \in Fact /\ e.type = t /\ e.attempt = a
  BY EventIsFact
<1>2. journal' = [journal EXCEPT ![r] = k]
  BY DEF Record
<1> HIDE DEF e
<1>3. Types(k, T) \subseteq Types(journal[r], T) \cup {b \in {e.attempt} : e.type \in T}
  BY <1>1, AppendTypes DEF Typed
<1> HIDE DEF k
<1>4. CASE q = r
  BY <1>1, <1>2, <1>3, <1>4 DEF Typed
<1>5. CASE q # r
  BY <1>2, <1>5 DEF Typed
<1> QED BY <1>4, <1>5

LEMMA RecordBothTypes ==
  ASSUME Typed, NEW r \in Run, NEW t \in EventType, NEW u \in EventType,
         NEW a \in Nat, RecordBoth(r, Event(t, a), Event(u, a)), NEW T,
         NEW q \in Run
  PROVE  \A b \in Types(journal'[q], T) \ Types(journal[q], T) :
           q = r /\ b = a /\ (t \in T \/ u \in T)
<1> DEFINE e == Event(t, a)
           f == Event(u, a)
           j == Append1(journal[r], e)
           k == Append1(j, f)
<1>1. /\ e \in Fact /\ e.type = t /\ e.attempt = a
      /\ f \in Fact /\ f.type = u /\ f.attempt = a
  BY EventIsFact
<1>2. journal' = [journal EXCEPT ![r] = k]
  BY DEF RecordBoth
<1> HIDE DEF e, f
<1>3. Types(j, T) \subseteq Types(journal[r], T) \cup {b \in {e.attempt} : e.type \in T}
      /\ j \in Seq(Fact)
  BY <1>1, AppendTypes, Append1Fact DEF Typed
<1> HIDE DEF j
<1>4. Types(k, T) \subseteq Types(j, T) \cup {b \in {f.attempt} : f.type \in T}
  BY <1>1, <1>3, AppendTypes
<1> HIDE DEF k
<1>5. CASE q = r
  BY <1>1, <1>2, <1>3, <1>4, <1>5 DEF Typed
<1>6. CASE q # r
  BY <1>2, <1>6 DEF Typed
<1> QED BY <1>5, <1>6

(* Nothing but a finished check is journalled as checked, and nothing but  *)
(* a finished attempt as accepted.                                         *)
ConfirmedByWorker(q) ==
  /\ \A a \in Checked(journal'[q]) \ Checked(journal[q]) :
       \E w \in work : w.run = q /\ w.attempt = a /\ w.at = "checked"
  /\ \A a \in Accepted(journal'[q]) \ Accepted(journal[q]) :
       \E w \in work : w.run = q /\ w.attempt = a /\ w.at = "done"

LEMMA ConfirmedBy == ASSUME IInv, Next, NEW q \in Run PROVE ConfirmedByWorker(q)
<1> DEFINE C == {"check.completed"}
           A == {"attempt.succeeded"}
<1>d. ConfirmedByWorker(q) <=>
        /\ \A a \in Types(journal'[q], C) \ Types(journal[q], C) :
             \E w \in work : w.run = q /\ w.attempt = a /\ w.at = "checked"
        /\ \A a \in Types(journal'[q], A) \ Types(journal[q], A) :
             \E w \in work : w.run = q /\ w.attempt = a /\ w.at = "done"
  BY DEF ConfirmedByWorker, Checked, Accepted
<1>a. Typed
  BY DEF IInv
<1>b. CASE UNCHANGED journal
  BY <1>b, <1>d
<1>c. ASSUME NEW r \in Run, NEW t \in EventType \ (C \cup A), NEW a \in Nat,
             Record(r, Event(t, a))
      PROVE  ConfirmedByWorker(q)
  <2>1. ASSUME NEW T \in {C, A}, NEW b \in Types(journal'[q], T) \ Types(journal[q], T)
        PROVE  t \in T
    BY <1>a, <1>c, <2>1, RecordTypes
  <2> QED BY <1>c, <1>d, <2>1
<1>1. ASSUME NEW w \in work, WorkerStep(w) PROVE ConfirmedByWorker(q)
  <2>1. w.run \in Run /\ w.attempt \in Nat
    BY PortableAssumption DEF IInv, WorkerHolds, Thread, Attempt
  <2>2. CASE ReadLedger(w) \/ ReplaceLedger(w) \/ BindReceiptLedger(w) \/ Break(w)
             \/ Vanish(w)
    <3>1. UNCHANGED journal
      BY <2>2 DEF ReadLedger, ReplaceLedger, BindReceiptLedger, Break, Vanish, dbVars
    <3> QED BY <3>1, <1>b
  <2>3. CASE RecordCheck(w)
    <3>1. /\ w.at = "checked" /\ "check.completed" \in EventType
          /\ Record(w.run, Event("check.completed", w.attempt))
      BY <2>3 DEF RecordCheck, EventType, CheckpointTypes
    <3>2. ASSUME NEW T \in {C, A}, NEW b \in Types(journal'[q], T) \ Types(journal[q], T)
          PROVE  q = w.run /\ b = w.attempt /\ "check.completed" \in T
      BY <1>a, <2>1, <3>1, <3>2, RecordTypes
    <3> QED BY <1>d, <3>1, <3>2
  <2>4. CASE Succeed(w)
    <3>1. /\ w.at = "done" /\ {"attempt.succeeded", "node.succeeded"} \subseteq EventType
          /\ RecordBoth(w.run, Event("attempt.succeeded", w.attempt),
                               Event("node.succeeded", w.attempt))
      BY <2>4 DEF Succeed, EventType, AttemptTerminal, CheckpointTypes
    <3>2. "attempt.succeeded" \in EventType /\ "node.succeeded" \in EventType
      BY <3>1
    <3>3. ASSUME NEW T \in {C, A}, NEW b \in Types(journal'[q], T) \ Types(journal[q], T)
          PROVE  /\ q = w.run /\ b = w.attempt
                 /\ "attempt.succeeded" \in T \/ "node.succeeded" \in T
      <4>1. RecordBoth(w.run, Event("attempt.succeeded", w.attempt),
                              Event("node.succeeded", w.attempt))
        BY <3>1
      <4> HIDE DEF C, A
      <4>2. \A c \in Types(journal'[q], T) \ Types(journal[q], T) :
              q = w.run /\ c = w.attempt
                /\ ("attempt.succeeded" \in T \/ "node.succeeded" \in T)
        BY <1>a, <2>1, <3>2, <4>1, RecordBothTypes
      <4> QED BY <3>3, <4>2
    <3> QED BY <1>d, <3>1, <3>3
  <2>5. CASE Fail(w)
    <3>1. /\ {"attempt.failed", "node.failed"} \subseteq EventType
          /\ RecordBoth(w.run, Event("attempt.failed", w.attempt),
                               Event("node.failed", w.attempt))
      BY <2>5 DEF Fail, EventType, AttemptTerminal, CheckpointTypes
    <3>2. "attempt.failed" \in EventType /\ "node.failed" \in EventType
      BY <3>1
    <3>3. ASSUME NEW T \in {C, A}, NEW b \in Types(journal'[q], T) \ Types(journal[q], T)
          PROVE  /\ q = w.run /\ b = w.attempt
                 /\ "attempt.failed" \in T \/ "node.failed" \in T
      <4>1. RecordBoth(w.run, Event("attempt.failed", w.attempt),
                              Event("node.failed", w.attempt))
        BY <3>1
      <4> HIDE DEF C, A
      <4>2. \A c \in Types(journal'[q], T) \ Types(journal[q], T) :
              q = w.run /\ c = w.attempt
                /\ ("attempt.failed" \in T \/ "node.failed" \in T)
        BY <1>a, <2>1, <3>2, <4>1, RecordBothTypes
      <4> QED BY <3>3, <4>2
    <3> QED BY <1>d, <3>1, <3>3
  <2> QED BY <1>1, <2>2, <2>3, <2>4, <2>5 DEF WorkerStep
<1>2. ASSUME NEW p \in Proc, StartAttempt(p) PROVE ConfirmedByWorker(q)
  <2>1. proc[p].run \in Run /\ Attempts(proc[p].run) + 1 \in Nat
    BY <1>2, ActiveIsStarted
       DEF StartAttempt, Owns, IInv, Typed, ProcTypes, Attempts
  <2>2. "attempt.started" \in EventType \ (C \cup A)
    BY DEF EventType
  <2> QED BY <1>2, <2>1, <2>2, <1>c DEF StartAttempt
<1>3. ASSUME NEW p \in Proc, InitializeContext(p) PROVE ConfirmedByWorker(q)
  <2>1. proc[p].run \in Run
    BY <1>3 DEF InitializeContext, IInv, Typed, ProcTypes
  <2>2. {"run.started", "run.forked"} \subseteq EventType \ (C \cup A)
    BY DEF EventType, CheckpointTypes
  <2>3. CASE \E t \in {"run.started", "run.forked"} :
               Record(proc[p].run, Event(t, 0))
    BY <2>1, <2>2, <2>3, <1>c
  <2> QED BY <1>3, <1>b, <2>3 DEF InitializeContext
<1>4. ASSUME NEW p \in Proc, FinishRun(p) PROVE ConfirmedByWorker(q)
  <2>1. proc[p].run \in Run
    BY <1>4 DEF FinishRun, Owns, IInv, Typed, ProcTypes
  <2>2. PICK t \in {"run.succeeded", "run.failed"} :
          Record(proc[p].run, Event(t, 0))
    BY <1>4 DEF FinishRun
  <2>3. t \in EventType \ (C \cup A)
    BY DEF EventType, CheckpointTypes
  <2> QED BY <2>1, <2>2, <2>3, <1>c
<1>5. ASSUME NEW p \in Proc,
             BindExecutionIdentity(p) \/ Load(p) \/ LoadAbsent(p) \/ LoadLocked(p)
             \/ VerifyLineage(p) \/ ActivateFork(p) \/ RefuseLease(p)
      PROVE  UNCHANGED journal
  BY <1>5
     DEF BindExecutionIdentity, Load, LoadAbsent, LoadLocked, VerifyLineage,
         ActivateFork, RefuseLease, Loaded, Refuse, dbVars
<1>6. ASSUME NEW p \in Proc, LoseLease(p) \/ Crash(p) PROVE UNCHANGED journal
  BY <1>6 DEF LoseLease, Crash
<1>7. ASSUME NEW p \in Proc, NEW i \in Identity,
             CreateRun(p, i) \/ \E r \in Run : Resume(p, r, i)
      PROVE  UNCHANGED journal
  BY <1>7 DEF CreateRun, Resume, dbVars
<1>8. CASE CreateForkRun \/ \E s \in DOMAIN journal["parent"] : BuildLineage(s)
  BY <1>8, <1>b DEF CreateForkRun, BuildLineage, dbVars
<1>9. ASSUME NEW p \in Proc, Acquire(p) PROVE ConfirmedByWorker(q)
  <2> DEFINE r == proc[p].run
             j == IF proc[p].resume THEN Append(journal[r], Event("run.resumed", 0))
                                    ELSE journal[r]
             a == CHOOSE b \in Active(j) : TRUE
             k == IF row[r].status = "running" /\ Active(j) # {}
                    THEN Append(j, Event("attempt.interrupted", a)) ELSE j
  <2>1. r \in Run /\ journal' = [journal EXCEPT ![r] = k]
    BY <1>9 DEF Acquire, IInv, Typed, ProcTypes
  <2>2. journal[r] \in Seq(Fact)
    BY <2>1, <1>a DEF Typed
  <2> SUFFICES ASSUME NEW T \in {C, A}
               PROVE  Types(journal'[q], T) \subseteq Types(journal[q], T)
    BY <1>d
  <2>3. j \in Seq(Fact) /\ Types(j, T) \subseteq Types(journal[r], T)
    <3> DEFINE e == Event("run.resumed", 0)
    <3>1. e \in Fact /\ e.type = "run.resumed" /\ e.type \notin T
      BY EventIsFact DEF EventType, CheckpointTypes
    <3> HIDE DEF e
    <3>2. Append(journal[r], e) \in Seq(Fact)
          /\ Types(Append(journal[r], e), T) \subseteq Types(journal[r], T)
      BY <2>2, <3>1, AppendTypes
    <3> QED BY <2>2, <3>2 DEF e
  <2>4. Types(k, T) \subseteq Types(j, T)
    <3> HIDE DEF j
    <3>1. CASE Active(j) = {}
      BY <3>1
    <3>2. CASE Active(j) # {}
      <4>1. a \in Nat
        BY <2>3, <3>2, ActiveIsStarted
      <4> DEFINE e == Event("attempt.interrupted", a)
      <4>2. e \in Fact /\ e.type = "attempt.interrupted" /\ e.type \notin T
        BY <4>1, EventIsFact DEF EventType, AttemptTerminal
      <4> HIDE DEF e, a
      <4>3. Types(Append(j, e), T) \subseteq Types(j, T)
        BY <2>3, <4>2, AppendTypes
      <4> QED BY <4>3 DEF e
    <3> QED BY <1>d, <3>1, <3>2
  <2> HIDE DEF k, j
  <2>5. CASE q = r
    <3>1. journal'[q] = k
      BY <2>1, <2>5, <1>a DEF Typed
    <3> QED BY <2>3, <2>4, <2>5, <3>1
  <2>6. CASE q # r
    BY <2>1, <2>6, <1>a DEF Typed
  <2> QED BY <2>5, <2>6
<1>10. ConfirmedByWorker(q)
  <2>1. CASE \E p \in Proc : RunStep(p)
    BY <2>1, <1>b, <1>2, <1>3, <1>4, <1>5, <1>9 DEF RunStep
  <2>2. CASE \E p \in Proc : LoseLease(p) \/ Crash(p)
    BY <2>2, <1>b, <1>6
  <2>3. CASE \E p \in Proc, i \in Identity :
               CreateRun(p, i) \/ \E r \in Run : Resume(p, r, i)
    BY <2>3, <1>b, <1>7
  <2> QED BY <1>1, <1>8, <2>1, <2>2, <2>3 DEF Next
<1> QED BY <1>10


(* A file that is bound stays bound.                                       *)
LEMMA BindingStays ==
  ASSUME IInv, Documented, Next, NEW r \in Run
  PROVE  r \in DOMAIN binding' /\ (binding[r] # None => binding'[r] # None)
<1>1. ASSUME NEW w \in work, BindReceiptLedger(w)
      PROVE  r \in DOMAIN binding' /\ (binding[r] # None => binding'[r] # None)
  <2>1. ledger[w.run] # None
    BY <1>1 DEF BindReceiptLedger, IInv, WorkerHolds, Receipts, Written
  <2>2. binding' = [binding EXCEPT ![w.run] = ledger[w.run]]
    BY <1>1 DEF BindReceiptLedger
  <2> QED BY <2>1, <2>2 DEF Documented
<1>2. CASE UNCHANGED binding
  BY <1>2 DEF Documented
<1>3. (\E w \in work : BindReceiptLedger(w)) \/ UNCHANGED binding
  BY StepWrites DEF WritersOnly
<1> QED BY <1>1, <1>2, <1>3

(* A run that is there stays, and its context is initialised once.         *)
RowStays(r) ==
  /\ row[r].status # "none" => row'[r].status # "none"
  /\ row[r].life = "active" => row'[r].life = "active" /\ context'[r] = context[r]
  /\ row'[r].life = "active" => row'[r].status # "none"

LEMMA RowsStay ==
  ASSUME IInv, BInv, Documented, Next, NEW r \in Run
  PROVE  RowStays(r)
<1>a. Rows /\ (row[r].life = "active" => row[r].status # "none")
  BY DEF BInv, Documented
<1>b. \A p \in Proc : proc[p].pc # "idle" =>
        row[proc[p].run].status # "none" /\ proc[p].run \in Run
  BY DEF BInv, ProcBound, IInv, Typed, ProcTypes
<1>1. ASSUME NEW p \in Proc, FinishRun(p) PROVE RowStays(r)
  <2> DEFINE v == Verdict(proc[p].run)
  <2>1. v # "none" /\ row' = [row EXCEPT ![proc[p].run].status = v]
        /\ UNCHANGED context /\ proc[p].pc # "idle"
    BY <1>1 DEF FinishRun, Verdict, Owns
  <2> HIDE DEF v
  <2> QED BY <1>a, <1>b, <2>1 DEF RowStays, Rows
<1>2. ASSUME NEW p \in Proc, ActivateFork(p) PROVE RowStays(r)
  <2>1. CASE UNCHANGED <<row, context>>
    BY <1>a, <2>1 DEF RowStays
  <2>2. CASE row' = [row EXCEPT ![proc[p].run].status = "running"] /\ UNCHANGED context
    BY <1>a, <1>b, <2>2 DEF RowStays, Rows
  <2> QED BY <1>2, <2>1, <2>2 DEF ActivateFork, Refuse, dbVars
<1>3. ASSUME NEW p \in Proc, InitializeContext(p) PROVE RowStays(r)
  <2> DEFINE q == proc[p].run
  <2>1. q \in Run /\ row[q].status # "none"
    BY <1>3, <1>b DEF InitializeContext
  <2>2. CASE /\ row[q].life = "pending"
             /\ row' = [row EXCEPT ![q].life = "active"]
             /\ context' = [context EXCEPT ![q] = Context(p)]
    BY <1>a, <2>1, <2>2 DEF RowStays, Rows
  <2>3. CASE UNCHANGED <<row, context>>
    BY <1>a, <2>3 DEF RowStays
  <2> QED BY <1>3, <2>2, <2>3 DEF InitializeContext
<1>4. ASSUME NEW p \in Proc, NEW i \in Identity, CreateRun(p, i) PROVE RowStays(r)
  <2>1. /\ row["parent"].status = "none" /\ UNCHANGED context
        /\ row' = [row EXCEPT !["parent"] = [status |-> "running", life |-> "pending"]]
    BY <1>4 DEF CreateRun
  <2> QED BY <1>a, <2>1 DEF RowStays, Rows, Run
<1>5. CASE CreateForkRun
  <2>1. /\ row["child"].status = "none" /\ UNCHANGED context
        /\ row' = [row EXCEPT !["child"] = [status |-> "pending", life |-> "pending"]]
    BY <1>5 DEF CreateForkRun
  <2> QED BY <1>a, <2>1 DEF RowStays, Rows, Run
<1>6. CASE UNCHANGED <<row, context>>
  BY <1>a, <1>6 DEF RowStays
<1>7. \/ \E p \in Proc : FinishRun(p) \/ ActivateFork(p) \/ InitializeContext(p)
      \/ \E p \in Proc, i \in Identity : CreateRun(p, i)
      \/ CreateForkRun
      \/ UNCHANGED <<row, context>>
  BY StepWrites DEF WritersOnly
<1> QED BY <1>1, <1>2, <1>3, <1>4, <1>5, <1>6, <1>7

(* What is confirmed in a journal is documented in the file.               *)
LEMMA DocumentedKeeps ==
  ASSUME IInv, BInv, Documented, ThreadsDocumented, Next
  PROVE  Documented'
<1> SUFFICES ASSUME NEW r \in Run
             PROVE  /\ r \in DOMAIN binding'
                    /\ ledger'[r] # None => \A m \in ledger'[r] : m.run = r
                    /\ \A a \in Checked(journal'[r]) : Written(r, a, "check")'
                    /\ Accepted(journal'[r]) \cup Checked(journal'[r]) # {} =>
                         binding'[r] # None
                    /\ row'[r].life = "active" => row'[r].status # "none"
  BY DEF Documented
<1>1. Kept(r) /\ ConfirmedByWorker(r) /\ RowStays(r)
  BY LedgersGrow, ConfirmedBy, RowsStay
<1>2. r \in DOMAIN binding' /\ (binding[r] # None => binding'[r] # None)
  BY BindingStays
<1>3. ledger'[r] # None => \A m \in ledger'[r] : m.run = r
  <2>1. CASE UNCHANGED ledger
    BY <2>1 DEF Documented
  <2>2. ASSUME NEW w \in work, ReplaceLedger(w)
        PROVE  ledger'[r] # None => \A m \in ledger'[r] : m.run = r
    <3>1. w.step = "replace" /\ ledger' = [ledger EXCEPT ![w.run] = w.merged]
      BY <2>2 DEF ReplaceLedger
    <3> QED BY <3>1 DEF Documented, ThreadsDocumented, IInv, Typed
  <2>3. (\E w \in work : ReplaceLedger(w)) \/ UNCHANGED ledger
    BY StepWrites DEF WritersOnly
  <2> QED BY <2>1, <2>2, <2>3
<1>4. ASSUME NEW a \in Checked(journal'[r])
      PROVE  Written(r, a, "check") /\ binding[r] # None
  <2>1. CASE a \in Checked(journal[r])
    BY <2>1 DEF Documented
  <2>2. CASE a \notin Checked(journal[r])
    <3>1. PICK w \in work : w.run = r /\ w.attempt = a /\ w.at = "checked"
      BY <1>1, <2>2 DEF ConfirmedByWorker
    <3> QED BY <3>1 DEF IInv, WorkerHolds, Receipts, ThreadsDocumented
  <2> QED BY <2>1, <2>2
<1>5. ASSUME NEW a \in Accepted(journal'[r]) PROVE binding[r] # None
  <2>1. CASE a \in Accepted(journal[r])
    BY <2>1 DEF Documented
  <2>2. CASE a \notin Accepted(journal[r])
    <3>1. PICK w \in work : w.run = r /\ w.attempt = a /\ w.at = "done"
      BY <1>1, <2>2 DEF ConfirmedByWorker
    <3> QED BY <3>1 DEF ThreadsDocumented
  <2> QED BY <2>1, <2>2
<1>6. \A a \in Checked(journal'[r]) : Written(r, a, "check")'
  BY <1>1, <1>4 DEF Written, Kept
<1>7. Accepted(journal'[r]) \cup Checked(journal'[r]) # {} => binding'[r] # None
  BY <1>2, <1>4, <1>5
<1>8. row'[r].life = "active" => row'[r].status # "none"
  BY <1>1 DEF RowStays
<1> QED BY <1>2, <1>3, <1>6, <1>7, <1>8

------------------------------------------------------------------------------
ThreadDocumented(w) ==
  /\ w.step = "replace" => \A m \in w.merged : m.run = w.run
  /\ w.at \in {"check", "checked", "done"} => binding[w.run] # None

(* Threads that stay as they are, and one that goes on as u.               *)
LEMMA ThreadsStay ==
  ASSUME IInv, Documented, ThreadsDocumented, Next, NEW u,
         work' \subseteq work \cup {u},
         u \in work \/ ThreadDocumented(u)'
  PROVE  ThreadsDocumented'
<1>1. ASSUME NEW v \in work PROVE ThreadDocumented(v)'
  <2>1. ThreadDocumented(v) /\ v.run \in Run
    BY DEF ThreadsDocumented, ThreadDocumented, IInv, WorkerHolds, Thread
  <2>2. binding[v.run] # None => binding'[v.run] # None
    BY <2>1, BindingStays
  <2> QED BY <2>1, <2>2 DEF ThreadDocumented
<1>2. \A v \in work' : ThreadDocumented(v)'
  BY <1>1
<1> QED BY <1>2 DEF ThreadsDocumented, ThreadDocumented

LEMMA ThreadsMove ==
  ASSUME IInv, Documented, ThreadsDocumented, Next, NEW w \in work, NEW at,
         Move(w, at),
         at \in {"check", "checked", "done"} => binding'[w.run] # None
  PROVE  ThreadsDocumented'
<1> DEFINE u == [w EXCEPT !.at = at, !.step = "none"]
<1>1. u.run = w.run /\ u.at = at /\ u.step = "none"
  BY DEF IInv, WorkerHolds, Thread
<1>2. work' \subseteq work \cup {u}
  BY DEF Move
<1> HIDE DEF u
<1>3. ThreadDocumented(u)'
  BY <1>1 DEF ThreadDocumented
<1> QED BY <1>2, <1>3, ThreadsStay

LEMMA ThreadsDocumentedKeep ==
  ASSUME IInv, BInv, Documented, ThreadsDocumented, Next
  PROVE  ThreadsDocumented'
<1>a. ASSUME work' \subseteq work PROVE ThreadsDocumented'
  <2>1. CASE work = {}
    BY <1>a, <2>1 DEF ThreadsDocumented
  <2>2. ASSUME NEW u \in work PROVE ThreadsDocumented'
    BY <1>a, <2>2, ThreadsStay
  <2> QED BY <2>1, <2>2
<1>1. ASSUME NEW w \in work, WorkerStep(w) PROVE ThreadsDocumented'
  <2>1. w.run \in Run /\ w \in Thread /\ ThreadDocumented(w)
        /\ (binding[w.run] # None => binding'[w.run] # None)
    BY BindingStays DEF IInv, WorkerHolds, Thread, ThreadsDocumented, ThreadDocumented
  <2>2. CASE ReadLedger(w)
    <3> DEFINE mem == Remember(memory[w.proc], {Made(w)})
    <3> PICK u : u = [w EXCEPT !.step = "replace", !.merged = Merge(w, mem)]
      OBVIOUS
    <3>1. CASE Move(w, "error")
      BY <3>1, ThreadsMove
    <3>2. CASE work' = (work \ {w}) \cup {u}
      <4>1. /\ u.run = w.run /\ u.step = "replace" /\ u.merged = Merge(w, mem)
            /\ u.at = w.at
        BY <2>1 DEF Thread
      <4>2. work' \subseteq work \cup {u}
        BY <3>2
      <4>3. \A m \in Merge(w, mem) : m.run = w.run
        BY <2>1 DEF Merge, Documented
      <4> HIDE DEF mem
      <4>4. ThreadDocumented(u)'
        BY <2>1, <4>1, <4>3 DEF ThreadDocumented
      <4> QED BY <4>2, <4>4, ThreadsStay
    <3> QED BY <2>2, <3>1, <3>2 DEF ReadLedger, Unpersisted
  <2>3. CASE ReplaceLedger(w)
    <3> DEFINE u == [w EXCEPT !.step = "bind", !.merged = {}]
    <3>1. u.run = w.run /\ u.step = "bind" /\ u.at = w.at
      BY <2>1 DEF Thread
    <3>2. work' \subseteq work \cup {u}
      BY <2>3 DEF ReplaceLedger
    <3> HIDE DEF u
    <3>3. ThreadDocumented(u)'
      BY <2>1, <3>1 DEF ThreadDocumented
    <3> QED BY <3>2, <3>3, ThreadsStay
  <2>4. CASE BindReceiptLedger(w)
    <3>1. binding' = [binding EXCEPT ![w.run] = ledger[w.run]]
      BY <2>4 DEF BindReceiptLedger
    <3>2. ledger[w.run] # None
      BY <2>4 DEF BindReceiptLedger, IInv, WorkerHolds, Receipts, Written
    <3>3. binding'[w.run] # None
      <4>1. w.run \in DOMAIN binding
        BY <2>1 DEF Documented
      <4> QED BY <3>1, <3>2, <4>1
    <3>4. PICK at \in {"checked", "error", "check"} : Move(w, at)
      BY <2>4 DEF BindReceiptLedger
    <3> QED BY <3>3, <3>4, ThreadsMove
  <2>5. CASE RecordCheck(w)
    <3>1. Move(w, "done") /\ binding[w.run] # None
      BY <2>1, <2>5 DEF RecordCheck, ThreadDocumented
    <3> QED BY <2>1, <3>1, ThreadsMove
  <2>6. CASE Break(w)
    <3>1. Move(w, "error")
      BY <2>6 DEF Break
    <3> QED BY <3>1, ThreadsMove
  <2>7. CASE Succeed(w) \/ Vanish(w)
    BY <1>a, <2>7 DEF Succeed, Vanish
  <2>8. CASE Fail(w)
    <3>1. ASSUME NEW told \in BOOLEAN,
                 work' = (work \ {w}) \cup {[w EXCEPT !.cancelled = told]}
          PROVE  ThreadsDocumented'
      <4> DEFINE u == [w EXCEPT !.cancelled = told]
      <4>1. /\ u.run = w.run /\ u.step = w.step /\ u.at = w.at
            /\ u.merged = w.merged
        BY <2>1 DEF Thread
      <4>2. work' \subseteq work \cup {u}
        BY <3>1
      <4> HIDE DEF u
      <4>3. ThreadDocumented(u)'
        BY <2>1, <4>1 DEF ThreadDocumented
      <4> QED BY <4>2, <4>3, ThreadsStay
    <3> QED BY <1>a, <2>8, <3>1 DEF Fail
  <2> QED BY <1>1, <2>2, <2>3, <2>4, <2>5, <2>6, <2>7, <2>8 DEF WorkerStep
<1>2. ASSUME NEW p \in Proc, StartAttempt(p) PROVE ThreadsDocumented'
  <2> PICK u : u = Worker(p, proc[p].run, Attempts(proc[p].run) + 1)
    OBVIOUS
  <2>1. work' \subseteq work \cup {u} /\ u.at = "agent" /\ u.step = "none"
    BY <1>2 DEF StartAttempt, Worker
  <2>2. ThreadDocumented(u)'
    BY <2>1 DEF ThreadDocumented
  <2> QED BY <2>1, <2>2, ThreadsStay
<1>3. \/ \E w \in work : WorkerStep(w)
      \/ \E p \in Proc : StartAttempt(p)
      \/ work' \subseteq work
  <2>1. ASSUME NEW p \in Proc, RunStep(p), ~StartAttempt(p) PROVE work' = work
    BY <2>1 DEF RunStep, BindExecutionIdentity, Load, LoadAbsent, LoadLocked, Loaded,
                Refuse, VerifyLineage, InitializeContext, ActivateFork, Acquire,
                RefuseLease, FinishRun
  <2>2. ASSUME NEW p \in Proc, LoseLease(p) \/ Crash(p) PROVE work' \subseteq work
    BY <2>2 DEF LoseLease, Crash
  <2>3. ASSUME \/ \E p \in Proc, i \in Identity :
                    CreateRun(p, i) \/ \E r \in Run : Resume(p, r, i)
               \/ \E s \in DOMAIN journal["parent"] : BuildLineage(s)
               \/ CreateForkRun
        PROVE  work' = work
    BY <2>3 DEF CreateRun, Resume, BuildLineage, CreateForkRun
  <2> QED BY <2>1, <2>2, <2>3 DEF Next
<1> QED BY <1>a, <1>1, <1>2, <1>3


------------------------------------------------------------------------------
(* What a journal says up to a checkpoint it goes on saying.               *)
LEMMA PrefixStays ==
  ASSUME NEW j \in Seq(Fact), NEW k \in Seq(Fact), Grown(j, k), NEW s \in DOMAIN j
  PROVE  SubSeq(k, 1, s) = SubSeq(j, 1, s)
<1>1. s \in 1 .. Len(j) /\ Len(j) \in Nat /\ Len(k) \in Nat /\ s \in DOMAIN k
  BY DEF Grown
<1>2. s <= Len(k) /\ s <= Len(j) /\ s \in Nat
  BY <1>1
<1>3. SubSeq(k, 1, s) \in Seq(Fact) /\ SubSeq(j, 1, s) \in Seq(Fact)
      /\ Len(SubSeq(k, 1, s)) = s /\ Len(SubSeq(j, 1, s)) = s
  BY <1>1, <1>2
<1>4. \A i \in 1 .. s : SubSeq(k, 1, s)[i] = SubSeq(j, 1, s)[i]
  BY <1>1, <1>2 DEF Grown
<1> QED BY <1>3, <1>4

LEMMA PrefixTypes ==
  ASSUME NEW j \in Seq(Fact), NEW s \in DOMAIN j, NEW T
  PROVE  Types(SubSeq(j, 1, s), T) \subseteq Types(j, T)
<1> DEFINE k == SubSeq(j, 1, s)
<1>1. s \in 1 .. Len(j) /\ Len(j) \in Nat
  OBVIOUS
<1>2. DOMAIN k = 1 .. s /\ \A i \in 1 .. s : i \in DOMAIN j /\ k[i] = j[i]
  BY <1>1
<1> HIDE DEF k
<1>3. Types(k, T) \subseteq Types(j, T)
  BY <1>2 DEF Types
<1> QED BY <1>3 DEF k

LEMMA DrawnStays ==
  ASSUME IInv, BInv, Documented, Next, NEW f, Sound(f), Drawn(f)
  PROVE  Drawn(f)'
<1> DEFINE j == SubSeq(journal["parent"], 1, f.sequence)
<1>1. /\ journal["parent"] \in Seq(Fact) /\ journal'["parent"] \in Seq(Fact)
      /\ Grown(journal["parent"], journal'["parent"])
  BY StepKeeps, JournalGrowth DEF IInv, Typed, JournalsGrow, Run
<1>2. SubSeq(journal'["parent"], 1, f.sequence) = j
  BY <1>1, PrefixStays DEF Sound
<1>3. RowStays("parent") /\ (binding["parent"] # None => binding'["parent"] # None)
  BY RowsStay, BindingStays DEF Run
<1> HIDE DEF j
<1>4. row'["parent"].life = "active" /\ context'["parent"] = context["parent"]
  BY <1>3 DEF RowStays, Drawn
<1> QED BY <1>2, <1>3, <1>4 DEF Drawn, j

(* A checkpoint's lineage holds every receipt of what was confirmed by it. *)
LEMMA LineageDrawn ==
  ASSUME IInv, Documented, NEW s \in DOMAIN journal["parent"],
         Checkpoint("parent", s), NEW f, f = Lineage("parent", s)
  PROVE  Drawn(f)
<1> DEFINE j == SubSeq(journal["parent"], 1, s)
<1>1. /\ f.sequence = s /\ f.event = journal["parent"][s]
      /\ f.context = context["parent"] /\ f.identity = manifest["parent"]
      /\ f.receipts = ReceiptSnapshot("parent", s)
  BY DEF Lineage
<1>2. journal["parent"] \in Seq(Fact) /\ ledger["parent"] \in (SUBSET Receipt) \cup {None}
  BY DEF IInv, Typed, Run
<1>3. Accepted(j) \subseteq Accepted(journal["parent"])
      /\ Checked(j) \subseteq Checked(journal["parent"])
  BY <1>2, PrefixTypes DEF Accepted, Checked
<1>4. /\ \A a \in Accepted(j) : Written("parent", a, "agent") /\ a \in Settled(j)
      /\ \A a \in Checked(j) : Written("parent", a, "check")
  <2>1. Accepted(j) \subseteq Settled(j)
    BY DEF Accepted, Settled, Types, AttemptTerminal
  <2> HIDE DEF j
  <2> QED BY <1>3, <2>1 DEF IInv, AcceptedHasReceipt, Documented, Written, Run
<1>5. /\ Active(j) = {} /\ row["parent"].life = "active"
      /\ journal["parent"][s].type \in CheckpointTypes
      /\ context["parent"].identity = manifest["parent"]
      /\ binding["parent"] # None => ledger["parent"] = binding["parent"]
  BY DEF Checkpoint, Trusted
<1>6. ReceiptSnapshot("parent", s) =
        IF binding["parent"] = None THEN {}
        ELSE {m \in ledger["parent"] : \/ m.kind = "agent" /\ m.attempt \in Settled(j)
                                       \/ m.kind = "check" /\ m.attempt \in Checked(j)}
  BY DEF ReceiptSnapshot
<1> HIDE DEF j
<1>7. binding["parent"] = None => Accepted(j) = {} /\ Checked(j) = {}
  BY <1>3 DEF Documented, Run
<1>8. /\ \A m \in f.receipts : \/ m.kind = "agent" /\ m.attempt \in Settled(j)
                               \/ m.kind = "check" /\ m.attempt \in Checked(j)
      /\ f.receipts # {} => binding["parent"] # None
  BY <1>1, <1>6
<1>f. f = [sequence |-> f.sequence, event |-> f.event, context |-> f.context,
           identity |-> f.identity, receipts |-> f.receipts]
  BY DEF Lineage
<1>9. ASSUME NEW a \in Accepted(j) PROVE Own("agent", a) \in f.receipts
  <2>1. Own("agent", a) \in ledger["parent"] /\ binding["parent"] # None
    BY <1>4, <1>7 DEF Written, Own
  <2>2. Own("agent", a).kind = "agent" /\ Own("agent", a).attempt \in Settled(j)
    BY <1>4 DEF Own
  <2> QED BY <1>1, <1>6, <2>1, <2>2
<1>10. ASSUME NEW a \in Checked(j) PROVE Own("check", a) \in f.receipts
  <2>1. Own("check", a) \in ledger["parent"] /\ binding["parent"] # None
    BY <1>4, <1>7 DEF Written, Own
  <2>2. Own("check", a).kind = "check" /\ Own("check", a).attempt \in Checked(j)
    BY DEF Own
  <2> QED BY <1>1, <1>6, <2>1, <2>2
<1> QED BY <1>1, <1>5, <1>8, <1>f, <1>9, <1>10 DEF Drawn, j

LEMMA ForksDrawnKeep ==
  ASSUME IInv, BInv, Documented, ForksDrawn, Next
  PROVE  ForksDrawn'
<1>1. \/ fork' = fork
      \/ fork' = None
      \/ \E s \in DOMAIN journal["parent"] : BuildLineage(s)
  BY StepWrites DEF WritersOnly
<1>2. lineage' = lineage \/ CreateForkRun
  BY StepWrites DEF WritersOnly
<1>3. (fork # None => Drawn(fork))'
  <2>1. CASE fork' = fork /\ fork # None
    <3> PICK f : f = fork
      OBVIOUS
    <3>1. Drawn(f)'
      BY <2>1, DrawnStays DEF ForksDrawn, BInv, ForkSound, Drawn, Sound
    <3> QED BY <2>1, <3>1 DEF Drawn
  <2>2. ASSUME NEW s \in DOMAIN journal["parent"], BuildLineage(s)
        PROVE  Drawn(fork)'
    <3> PICK f : f = Lineage("parent", s)
      OBVIOUS
    <3>1. /\ Checkpoint("parent", s) /\ fork' = f
          /\ UNCHANGED <<journal, row, context, binding>>
      BY <2>2 DEF BuildLineage, dbVars
    <3>2. Drawn(f)
      BY <3>1, LineageDrawn
    <3> QED BY <3>1, <3>2 DEF Drawn
  <2> QED BY <1>1, <2>1, <2>2
<1>4. (lineage # None => row["child"].status # "none" /\ Drawn(lineage))'
  <2>1. CASE lineage' = lineage /\ lineage # None
    <3> PICK f : f = lineage
      OBVIOUS
    <3>1. row["child"].status # "none" /\ RowStays("child")
      BY <2>1, RowsStay DEF ForksDrawn, Run
    <3>2. Drawn(f)'
      BY <2>1, <3>1, DrawnStays DEF ForksDrawn, BInv, ForkSound, Drawn, Sound
    <3> QED BY <2>1, <3>1, <3>2 DEF Drawn, RowStays
  <2>2. CASE CreateForkRun
    <3> PICK f : f = fork
      OBVIOUS
    <3>1. /\ fork # None /\ lineage' = f
          /\ row' = [row EXCEPT !["child"] = [status |-> "pending", life |-> "pending"]]
      BY <2>2 DEF CreateForkRun
    <3>2. Drawn(f)'
      BY <3>1, DrawnStays DEF ForksDrawn, BInv, ForkSound, Drawn, Sound
    <3>3. row'["child"].status # "none"
      BY <3>1 DEF BInv, Rows, Run
    <3> QED BY <3>1, <3>2, <3>3 DEF Drawn
  <2> QED BY <1>2, <2>1, <2>2
<1> QED BY <1>3, <1>4 DEF ForksDrawn, Drawn

LEMMA BoundBehindKeeps ==
  ASSUME IInv, Documented, BoundBehind, Next
  PROVE  BoundBehind'
<1> SUFFICES ASSUME NEW r \in Run, binding'[r] # None
             PROVE  ledger'[r] # None /\ binding'[r] \subseteq ledger'[r]
  BY DEF BoundBehind
<1>1. CASE UNCHANGED binding
  BY <1>1, LedgersGrow DEF BoundBehind, Kept
<1>2. ASSUME NEW w \in work, BindReceiptLedger(w)
      PROVE  ledger'[r] # None /\ binding'[r] \subseteq ledger'[r]
  <2>1. binding' = [binding EXCEPT ![w.run] = ledger[w.run]] /\ UNCHANGED ledger
    BY <1>2 DEF BindReceiptLedger
  <2> QED BY <2>1 DEF BoundBehind, Documented
<1> QED BY <1>1, <1>2, StepWrites DEF WritersOnly

------------------------------------------------------------------------------
(* What no longer rebuilds from a bound file differs in its receipts       *)
(* alone; the confirmed ones were all there, so what came is a result of   *)
(* an attempt that the checkpoint knows to have been settled without it.   *)
LEMMA DrawnDriftsLate == IInv /\ BInv /\ DInv => ForkDriftsOnlyLate
<1> DEFINE j == SubSeq(journal["parent"], 1, lineage.sequence)
<1> SUFFICES ASSUME IInv, BInv, DInv, lineage # None, ~LineageHolds("child"),
                    ~Ahead("parent")
             PROVE  \E m \in ledger["parent"] \ lineage.receipts :
                      m.kind = "agent" /\ m.attempt \in Settled(j) \ Accepted(j)
  BY DEF ForkDriftsOnlyLate
<1> DEFINE s == lineage.sequence
           R == ReceiptSnapshot("parent", s)
<1>1. Sound(lineage) /\ Drawn(lineage)
  BY DEF DInv, ForksDrawn, BInv, ForkSound
<1>b. binding["parent"] # None => Trusted("parent")
  BY DEF Ahead, Trusted, DInv, BoundBehind, Run
<1>2. Checkpoint("parent", s)
  BY <1>1, <1>b DEF Checkpoint, Sound, Drawn
<1>3. Lineage("parent", s) # lineage
  BY <1>2 DEF LineageHolds, LineageOf
<1>4. Lineage("parent", s) =
        [sequence |-> s, event |-> lineage.event, context |-> lineage.context,
         identity |-> lineage.identity, receipts |-> R]
  BY <1>1 DEF Lineage, Sound, Drawn
<1>5. R # lineage.receipts
  <2>1. lineage = [sequence |-> s, event |-> lineage.event, context |-> lineage.context,
                   identity |-> lineage.identity, receipts |-> lineage.receipts]
    BY <1>1 DEF Drawn
  <2> HIDE DEF R, s
  <2> QED BY <1>3, <1>4, <2>1
<1>6. R = IF binding["parent"] = None THEN {}
          ELSE {m \in ledger["parent"] : \/ m.kind = "agent" /\ m.attempt \in Settled(j)
                                         \/ m.kind = "check" /\ m.attempt \in Checked(j)}
  BY DEF ReceiptSnapshot
<1> HIDE DEF R
<1>7. /\ \A m \in lineage.receipts : \/ m.kind = "agent" /\ m.attempt \in Settled(j)
                                     \/ m.kind = "check" /\ m.attempt \in Checked(j)
      /\ \A a \in Accepted(j) : Own("agent", a) \in lineage.receipts
      /\ \A a \in Checked(j) : Own("check", a) \in lineage.receipts
      /\ lineage.receipts # {} => binding["parent"] # None
  BY <1>1 DEF Drawn
<1>8. lineage.receipts \subseteq (IF ledger["parent"] = None THEN {} ELSE ledger["parent"])
      /\ ledger["parent"] = binding["parent"] /\ binding["parent"] # None
  <2>1. binding["parent"] # None
    BY <1>5, <1>6, <1>7
  <2> QED BY <1>1, <1>b, <2>1 DEF Sound, Trusted
<1> HIDE DEF j
<1>9. lineage.receipts \subseteq R
  BY <1>6, <1>7, <1>8
<1>10. PICK m \in R : m \notin lineage.receipts
  BY <1>5, <1>9
<1>11. m \in ledger["parent"] /\ m \in Receipt /\ m.run = "parent"
  BY <1>6, <1>8, <1>10 DEF IInv, Typed, DInv, Documented, Run
<1>12. m = Own(m.kind, m.attempt)
  BY <1>11 DEF Receipt, Own
<1>13. m.kind = "agent" /\ m.attempt \in Settled(j)
  BY <1>6, <1>7, <1>10, <1>12
<1>14. m.attempt \notin Accepted(j)
  BY <1>7, <1>10, <1>12, <1>13
<1> QED BY <1>10, <1>11, <1>13, <1>14

LEMMA InitDrawn == Init => DInv
<1> SUFFICES ASSUME Init PROVE DInv
  OBVIOUS
<1>1. Accepted(<<>>) = {} /\ Checked(<<>>) = {}
  BY DEF Accepted, Checked, Types
<1>2. \A r \in Run : /\ journal[r] = <<>> /\ ledger[r] = None /\ r \in DOMAIN binding
                     /\ row[r].life = "none"
  BY DEF Init
<1>3. Documented
  BY <1>1, <1>2 DEF Documented
<1>4. BoundBehind
  BY DEF Init, BoundBehind
<1> QED BY <1>3, <1>4 DEF Init, DInv, ThreadsDocumented, ForksDrawn

LEMMA StepDrawn == IInv /\ BInv /\ DInv /\ [Next]_vars => DInv'
<1> SUFFICES ASSUME IInv, BInv, DInv, [Next]_vars PROVE DInv'
  OBVIOUS
<1>1. CASE Next
  BY <1>1, DocumentedKeeps, ThreadsDocumentedKeep, ForksDrawnKeep,
     BoundBehindKeeps DEF DInv
<1>2. CASE UNCHANGED vars
  BY <1>2 DEF vars, dbVars, procVars, DInv, Documented, Written, ThreadsDocumented,
              ForksDrawn, Drawn, BoundBehind
<1> QED BY <1>1, <1>2

(* A parent that goes on never invalidates its forks but by the late       *)
(* result of an attempt that had already been settled without it, or by a  *)
(* replacement of its receipt file that is not bound, or not yet.          *)
THEOREM ForksDriftOnlyLate == Spec => []ForkDriftsOnlyLate
<1>1. Init => BInv /\ DInv
  BY InitBound, InitDrawn
<1> QED BY <1>1, StepBound, StepDrawn, DrawnDriftsLate, Invariance, PTL DEF Spec
=============================================================================
