----------------------------- MODULE WriteGate -----------------------------
(***************************************************************************)
(* The FIFO admission of durable-store writers: the native watch readers    *)
(* and the sweep take a ticket before the store's write lock, so that the   *)
(* replay of a sweep, which commits many batches one after the other,       *)
(* cannot take the lock again ahead of a live event that already waits.     *)
(*                                                                         *)
(* Everything done under the gate's mutex is one step; Condvar::wait gives  *)
(* the mutex back in the step that tests the turn.  The waking call is made *)
(* after the mutex is released, and a wait may return without one.          *)
(* Maintenance and the ApplyDelta request take the store lock without a     *)
(* ticket ("others").                                                      *)
(***************************************************************************)
EXTENDS Integers, Sequences, FiniteSets

CONSTANTS
  Writers,  \* threads that take tickets
  Width     \* the counters wrap around here: 2^64

ASSUME WritersAssumption == IsFiniteSet(Writers) /\ "others" \notin Writers
ASSUME WidthAssumption == Width \in Nat /\ Cardinality(Writers) < Width

VARIABLES
  next, serving,  \* Turn
  mine,           \* the ticket number of each thread that took one
  pc,             \* "out", "asleep", "woken", "admitted", "writing", "leaving",
                  \* "notifying": what each thread is at
  store,          \* who holds the store's write lock
  line            \* history: the threads that hold numbers, first come first

vars == <<next, serving, mine, pc, store, line>>

Nobody == "nobody"
Numbers == 0 .. Width - 1
Stages == {"out", "asleep", "woken", "admitted", "writing", "leaving", "notifying"}

(* Mutant: an addition that does not wrap. *)
AfterUnwrapped(n) == n + 1

(* wrapping_add(1) *)
After(n) == IF n = Width - 1 THEN 0 ELSE n + 1

Init ==
  /\ next = 0 /\ serving = 0
  /\ mine = [w \in Writers |-> 0]
  /\ pc = [w \in Writers |-> "out"]
  /\ store = Nobody /\ line = <<>>

(* ticket: draw a number, and wait unless it is being served. *)
TakeNumber(w) ==
  /\ pc[w] = "out"
  /\ mine' = [mine EXCEPT ![w] = next]
  /\ next' = After(next)
  /\ pc' = [pc EXCEPT ![w] = IF serving = next THEN "admitted" ELSE "asleep"]
  /\ line' = Append(line, w)
  /\ UNCHANGED <<serving, store>>

(* A wait may return by itself. *)
WakeSpuriously(w) ==
  /\ pc[w] = "asleep"
  /\ pc' = [pc EXCEPT ![w] = "woken"]
  /\ UNCHANGED <<next, serving, mine, store, line>>

(* Mutant: the test is an if, not a while. *)
ProceedUnchecked(w) ==
  /\ pc[w] = "woken"
  /\ pc' = [pc EXCEPT ![w] = "admitted"]
  /\ UNCHANGED <<next, serving, mine, store, line>>

(* The loop: with the mutex back, test the turn again. *)
Recheck(w) ==
  /\ pc[w] = "woken"
  /\ pc' = [pc EXCEPT ![w] = IF serving = mine[w] THEN "admitted" ELSE "asleep"]
  /\ UNCHANGED <<next, serving, mine, store, line>>

(* commit_changes and the sweep's apply: store.write() under the ticket. *)
LockStore(w) ==
  /\ pc[w] = "admitted" /\ store = Nobody
  /\ store' = w
  /\ pc' = [pc EXCEPT ![w] = "writing"]
  /\ UNCHANGED <<next, serving, mine, line>>

(* The guard goes before the ticket, on success and on every error path. *)
UnlockStore(w) ==
  /\ pc[w] = "writing"
  /\ store' = Nobody
  /\ pc' = [pc EXCEPT ![w] = "leaving"]
  /\ UNCHANGED <<next, serving, mine, line>>

(* Mutants: nobody is told; the turn goes to the newest number. *)
ServeQuietly(w) ==
  /\ pc[w] = "leaving"
  /\ serving' = After(serving)
  /\ pc' = [pc EXCEPT ![w] = "out"]
  /\ line' = Tail(line)
  /\ UNCHANGED <<next, mine, store>>

ServeNewest(w) ==
  /\ pc[w] = "leaving"
  /\ serving' = IF Len(line) > 1 THEN mine[line[Len(line)]] ELSE next
  /\ pc' = [pc EXCEPT ![w] = "notifying"]
  /\ line' = Tail(line)
  /\ UNCHANGED <<next, mine, store>>

(* Ticket::drop: the next number's turn. *)
Serve(w) ==
  /\ pc[w] = "leaving"
  /\ serving' = After(serving)
  /\ pc' = [pc EXCEPT ![w] = "notifying"]
  /\ line' = Tail(line)
  /\ UNCHANGED <<next, mine, store>>

(* Mutant: notify_one wakes any one of the sleepers. *)
NotifyOne(w) ==
  /\ pc[w] = "notifying"
  /\ \/ \E t \in Writers :
          pc[t] = "asleep" /\ pc' = [pc EXCEPT ![w] = "out", ![t] = "woken"]
     \/ /\ \A t \in Writers : pc[t] # "asleep"
        /\ pc' = [pc EXCEPT ![w] = "out"]
  /\ UNCHANGED <<next, serving, mine, store, line>>

(* ... and, the mutex released, notify_all. *)
NotifyAll(w) ==
  /\ pc[w] = "notifying"
  /\ pc' = [t \in Writers |-> IF t = w THEN "out"
                              ELSE IF pc[t] = "asleep" THEN "woken" ELSE pc[t]]
  /\ UNCHANGED <<next, serving, mine, store, line>>

OthersLock ==
  /\ store = Nobody /\ store' = "others"
  /\ UNCHANGED <<next, serving, mine, pc, line>>

OthersUnlock ==
  /\ store = "others" /\ store' = Nobody
  /\ UNCHANGED <<next, serving, mine, pc, line>>

Proceed(w) == Recheck(w) \/ UnlockStore(w) \/ Serve(w) \/ NotifyAll(w)

Next ==
  \/ \E w \in Writers : TakeNumber(w) \/ WakeSpuriously(w) \/ LockStore(w) \/ Proceed(w)
  \/ OthersLock \/ OthersUnlock

Spec == Init /\ [][Next]_vars

(* Every thread runs, and the queue of the RwLock lets a writer in in the end. *)
Fairness ==
  /\ \A w \in Writers : WF_vars(Proceed(w)) /\ SF_vars(LockStore(w))
  /\ WF_vars(OthersUnlock)

FairSpec == Spec /\ Fairness

------------------------------------------------------------------------------
(* Properties *)

Waiting(w) == pc[w] \in {"asleep", "woken"}
HasTurn(w) == pc[w] \in {"admitted", "writing", "leaving"}
HasNumber(w) == Waiting(w) \/ HasTurn(w)

TypeOK ==
  /\ next \in Numbers /\ serving \in Numbers
  /\ mine \in [Writers -> Numbers] /\ pc \in [Writers -> Stages]
  /\ store \in Writers \cup {Nobody, "others"} /\ line \in Seq(Writers)

(* First come, first served: whoever has the turn drew the oldest number, so    *)
(* a sweep that commits batch after batch never passes a live event that      *)
(* waits; in particular two threads never have the turn together.              *)
FirstInLine == \A w \in Writers : HasTurn(w) => line[1] = w

(* No wakeup is lost: while the thread whose number is served sleeps, another  *)
(* one is about to wake it.                                                    *)
NoLostWakeup ==
  \A w \in Writers : pc[w] = "asleep" /\ serving = mine[w] =>
    \E t \in Writers : pc[t] = "notifying"

(* Everyone who drew a number gets to the store, whatever the others do.       *)
EveryoneServed == \A w \in Writers : Waiting(w) ~> pc[w] = "writing"

=============================================================================
