------------------------------ MODULE EventStream ------------------------------
(***************************************************************************)
(* Consumers of a run's lifecycle journal (LifecycleStore.stream): each    *)
(* asks for a bounded batch after its cursor, and the answer may be lost,  *)
(* so that it asks again with the same cursor.  A cursor holds a sequence  *)
(* number and the digest of that event, which is chained to all before it: *)
(* here a digest is the prefix it digests.                                 *)
(*                                                                         *)
(* stream() reads the journal and the run's status in two transactions,    *)
(* again and again while it waits.  Between any two reads the run goes on, *)
(* or the database is put back to an older copy and goes another way.      *)
(***************************************************************************)
EXTENDS Naturals, Sequences, SequencesExt

CONSTANTS
  Listener,
  Fact,         \* what an event may say
  Limit,        \* the limit a consumer asks with
  MaxEvents,    \* bound: events of the journal
  MaxRestores   \* bound: copies put back

VARIABLES
  journal,   \* the lifecycle_events rows
  ended,     \* whether runs.status is terminal
  consumer,  \* consumer[c]: its cursor, what it has heard, its call, and
             \* whether it was told that there is no more
  restores   \* bound: so far

streamVars == <<journal, ended, consumer, restores>>

Start  == [sequence |-> 0, digest |-> <<>>]
Call(at, events, terminal) ==
  [at |-> at, events |-> events, terminal |-> terminal]
NoCall == Call("idle", <<>>, FALSE)
Fresh  == [cursor |-> Start, heard |-> <<>>, call |-> NoCall, stopped |-> FALSE]

StreamInit ==
  /\ journal = <<>> /\ ended = FALSE
  /\ consumer = [c \in Listener |-> Fresh]
  /\ restores = 0

------------------------------------------------------------------------------
(* The run.                                                                *)

AppendEvent ==
  /\ ~ended /\ Len(journal) < MaxEvents
  /\ \E f \in Fact : journal' = Append(journal, f)
  /\ UNCHANGED <<ended, consumer, restores>>

(* finish_run: the last event and the status in one transaction.           *)
FinishRun ==
  /\ ~ended /\ Len(journal) < MaxEvents
  /\ journal' = Append(journal, "finished")
  /\ ended' = TRUE
  /\ UNCHANGED <<consumer, restores>>

Restore ==
  /\ restores < MaxRestores
  /\ \E n \in 0 .. Len(journal) : journal' = SubSeq(journal, 1, n)
  /\ ended' = FALSE
  /\ restores' = restores + 1
  /\ UNCHANGED consumer

------------------------------------------------------------------------------
(* stream().                                                               *)

Keep(c, call) == consumer' = [consumer EXCEPT ![c].call = call]

(* Consumers stop after an answer that says terminal (watch.py).           *)
Ask(c) ==
  /\ consumer[c].call.at = "idle" /\ ~consumer[c].stopped
  /\ Keep(c, Call("read", <<>>, FALSE))
  /\ UNCHANGED <<journal, ended, restores>>

(* Mutant: the digest in the cursor is not compared.                       *)
SameHistoryAssumed(cursor, events) == cursor.sequence <= Len(events)

SameHistory(cursor, events) ==
  /\ cursor.sequence <= Len(events)
  /\ cursor.digest = SubSeq(events, 1, cursor.sequence)

(* A cursor of another history is refused: its consumer has to start anew. *)
Snapshot(c) ==
  /\ consumer[c].call.at = "read"
  /\ IF SameHistory(consumer[c].cursor, journal)
       THEN Keep(c, Call("status", journal, FALSE))
       ELSE consumer' = [consumer EXCEPT ![c] = Fresh]
  /\ UNCHANGED <<journal, ended, restores>>

Available(c) ==
  LET s == consumer[c] IN SubSeq(s.call.events, s.cursor.sequence + 1,
                                 Len(s.call.events))

(* The status, read in a transaction of its own: an answer, or, with       *)
(* nothing to say and time left, another turn.                             *)
StatusRead(c) ==
  /\ consumer[c].call.at = "status"
  /\ \/ Keep(c, Call("answer", consumer[c].call.events, ended))
     \/ /\ Available(c) = <<>> /\ ~ended
        /\ Keep(c, Call("read", <<>>, FALSE))
  /\ UNCHANGED <<journal, ended, restores>>

Selected(c) == SubSeq(Available(c), 1, Min({Limit, Len(Available(c))}))

HasMore(c) == Len(Selected(c)) < Len(Available(c))

Receive(c) ==
  LET s == consumer[c]
      n == s.cursor.sequence + Len(Selected(c))
  IN /\ s.call.at = "answer"
     /\ consumer' = [consumer EXCEPT ![c] =
          [cursor |-> [sequence |-> n, digest |-> SubSeq(s.call.events, 1, n)],
           heard |-> s.heard \o Selected(c), call |-> NoCall,
           stopped |-> s.call.terminal /\ ~HasMore(c)]]
     /\ UNCHANGED <<journal, ended, restores>>

LoseAnswer(c) ==
  /\ consumer[c].call.at = "answer"
  /\ Keep(c, NoCall)
  /\ UNCHANGED <<journal, ended, restores>>

------------------------------------------------------------------------------
ConsumerStep(c) == \/ Ask(c) \/ Snapshot(c) \/ StatusRead(c)
                   \/ Receive(c) \/ LoseAnswer(c)

StreamNext ==
  \/ AppendEvent
  \/ FinishRun
  \/ Restore
  \/ \E c \in Listener : ConsumerStep(c)

StreamSpec == StreamInit /\ [][StreamNext]_streamVars

------------------------------------------------------------------------------
(* Whatever a consumer accepts, batch after batch, is the journal as one   *)
(* of its calls saw it: nothing is missed, heard twice or mixed from two   *)
(* histories, through limits, lost answers and restored databases.  And    *)
(* one that is told to stop has been given all that the call had read, not *)
(* a batch cut by the limit.  (Not all there is: what the run recorded     *)
(* between that call's two transactions, its end among it, is in no answer *)
(* although the flag says terminal.)                                       *)
HeardIsJournal ==
  [][\A c \in Listener :
       /\ consumer'[c].heard # consumer[c].heard =>
            IsPrefix(consumer'[c].heard, consumer[c].call.events)
       /\ consumer'[c].stopped /\ ~consumer[c].stopped =>
            consumer'[c].heard = consumer[c].call.events]_streamVars
=============================================================================
