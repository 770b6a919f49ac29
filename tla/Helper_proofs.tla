----------------------------- MODULE Helper_proofs -----------------------------
(***************************************************************************)
(* What the helper daemon is made of: the gate its writers pass, the full  *)
(* rebuild, and the watch service that goes on from what was left to it.   *)
(* Each part has its own variables; nothing here relates two of them.      *)
(***************************************************************************)
EXTENDS WriteGate, FullRebuild, WatchSession, MetadataSweep, FiniteSetTheorems, TLAPS
-----------------------------------------------------------------------------
(***************************************************************************)
(* The write gate is first come, first served for any number of threads, as *)
(* long as there are fewer of them than ticket numbers, and it loses no      *)
(* wakeup.  The numbers wrap around, so the invariant counts how far each    *)
(* one is from being served.                                                *)
(***************************************************************************)

(* How many turns pass before number n is served. *)
Distance(n) == IF n >= serving THEN n - serving ELSE n - serving + Width

(* The line holds the numbers from the one served to the next one, in order. *)
InOrder ==
  /\ \A i \in 1 .. Len(line) : HasNumber(line[i]) /\ Distance(mine[line[i]]) = i - 1
  /\ \A w \in Writers : HasNumber(w) => \E i \in 1 .. Len(line) : line[i] = w
  /\ Distance(next) = Len(line)

TurnIsServed == \A w \in Writers : HasTurn(w) => mine[w] = serving

OrderInv == TypeOK /\ InOrder /\ TurnIsServed

LEMMA WidthNat == Width \in Nat /\ Width > 0
  BY WritersAssumption, WidthAssumption, FS_CardinalityType

LEMMA AfterNumber == ASSUME NEW n \in Numbers PROVE After(n) \in Numbers
  BY WidthNat DEF Numbers, After

(* A number that is outstanding, or next, is some turns away; one turn later it *)
(* is one turn nearer, unless it is the one served.                           *)
LEMMA DistanceBounds ==
  ASSUME TypeOK, NEW n \in Numbers
  PROVE  Distance(n) \in Nat /\ Distance(n) < Width /\ (Distance(n) = 0 <=> n = serving)
  BY WidthNat DEF TypeOK, Numbers, Distance

LEMMA DistanceOfNext ==
  ASSUME TypeOK, Distance(next) + 1 < Width, next' = After(next), UNCHANGED serving
  PROVE  Distance(next)' = Distance(next) + 1
  BY WidthNat DEF TypeOK, Numbers, Distance, After

LEMMA DistanceShrinks ==
  ASSUME TypeOK, NEW n \in Numbers, Distance(n) > 0, serving' = After(serving)
  PROVE  Distance(n)' = Distance(n) - 1
  BY WidthNat DEF TypeOK, Numbers, Distance, After

(* No thread is in the line twice, so a thread outside it finds room. *)
LEMMA LineHasRoom ==
  ASSUME OrderInv, NEW w \in Writers, pc[w] = "out"
  PROVE  Len(line) + 1 < Width
<1> DEFINE others == Writers \ {w}
<1>1. Len(line) \in Nat /\ line \in [1 .. Len(line) -> Writers]
  BY DEF OrderInv, TypeOK
<1>2. \A i \in 1 .. Len(line) : line[i] # w
  BY DEF OrderInv, InOrder, HasNumber, Waiting, HasTurn
<1>3. \A i, j \in 1 .. Len(line) : line[i] = line[j] => i = j
  <2> SUFFICES ASSUME NEW i \in 1 .. Len(line), NEW j \in 1 .. Len(line), line[i] = line[j]
               PROVE  i = j
    OBVIOUS
  <2>1. i - 1 = j - 1
    BY DEF OrderInv, InOrder
  <2> QED
    BY <2>1
<1>4. line \in Injection(1 .. Len(line), others)
  BY <1>1, <1>2, <1>3 DEF Injection, IsInjective
<1>5. IsFiniteSet(others) /\ Cardinality(others) = Cardinality(Writers) - 1
  BY WritersAssumption, FS_RemoveElement
<1>6. Cardinality(1 .. Len(line)) <= Cardinality(others)
  BY <1>4, <1>5, FS_Injection
<1>7. Cardinality(1 .. Len(line)) = Len(line)
  BY SMTT(60), <1>1, FS_Interval
<1> QED
  BY <1>1, <1>5, <1>6, <1>7, WidthAssumption, WritersAssumption, FS_CardinalityType

------------------------------------------------------------------------------
(* The invariant's steps *)

(* A step that keeps line, numbers and turn, and only moves threads among the   *)
(* stages of their numbers.                                                   *)
LEMMA LineKept ==
  ASSUME OrderInv, UNCHANGED <<next, serving, mine, line>>,
         \A w \in Writers : HasNumber(w)' <=> HasNumber(w),
         \A w \in Writers : HasTurn(w)' => HasTurn(w) \/ mine[w] = serving
  PROVE  InOrder' /\ TurnIsServed'
<1>1. line \in [1 .. Len(line) -> Writers]
  BY DEF OrderInv, TypeOK
<1>2. InOrder'
  BY <1>1 DEF OrderInv, InOrder, Distance
<1>3. TurnIsServed'
  BY DEF OrderInv, TurnIsServed
<1> QED
  BY <1>2, <1>3

LEMMA TakeNumberStep ==
  ASSUME OrderInv, NEW w \in Writers, TakeNumber(w) PROVE OrderInv'
<1> USE DEF OrderInv
<1>1. TypeOK'
  BY AfterNumber DEF TypeOK, TakeNumber, Stages
<1>2. Len(line) \in Nat /\ Len(line') = Len(line) + 1 /\ line'[Len(line) + 1] = w
  BY DEF TypeOK, TakeNumber
<1>3. \A i \in 1 .. Len(line) : line'[i] = line[i] /\ line[i] \in Writers /\ line[i] # w
  BY DEF TypeOK, TakeNumber, InOrder, HasNumber, Waiting, HasTurn
<1>4. /\ mine'[w] = next /\ HasNumber(w)'
      /\ \A t \in Writers \ {w} : mine'[t] = mine[t] /\ pc'[t] = pc[t]
  BY DEF TypeOK, TakeNumber, HasNumber, Waiting, HasTurn
<1>5. Distance(next)' = Len(line')
  BY <1>2, LineHasRoom, DistanceOfNext DEF TakeNumber, InOrder
<1>6. InOrder'
  BY <1>2, <1>3, <1>4, <1>5 DEF InOrder, HasNumber, Waiting, HasTurn, Distance, TakeNumber
<1>7. TurnIsServed'
  BY <1>4 DEF TurnIsServed, HasTurn, TakeNumber, TypeOK
<1> QED
  BY <1>1, <1>6, <1>7

LEMMA RecheckStep ==
  ASSUME OrderInv, NEW w \in Writers, Recheck(w) \/ WakeSpuriously(w) PROVE OrderInv'
<1>1. TypeOK'
  BY DEF OrderInv, TypeOK, Recheck, WakeSpuriously, Stages
<1>2. \A t \in Writers : HasNumber(t)' <=> HasNumber(t)
  BY DEF OrderInv, TypeOK, Recheck, WakeSpuriously, HasNumber, Waiting, HasTurn
<1>3. \A t \in Writers : HasTurn(t)' => HasTurn(t) \/ mine[t] = serving
  BY DEF OrderInv, TypeOK, Recheck, WakeSpuriously, HasTurn
<1> QED
  BY <1>1, <1>2, <1>3, LineKept DEF OrderInv, Recheck, WakeSpuriously

LEMMA StoreStep ==
  ASSUME OrderInv, NEW w \in Writers, LockStore(w) \/ UnlockStore(w) PROVE OrderInv'
<1>1. TypeOK'
  BY DEF OrderInv, TypeOK, LockStore, UnlockStore, Stages
<1>2. \A t \in Writers : (HasNumber(t)' <=> HasNumber(t)) /\ (HasTurn(t)' => HasTurn(t))
  BY DEF OrderInv, TypeOK, LockStore, UnlockStore, HasNumber, Waiting, HasTurn
<1> QED
  BY <1>1, <1>2, LineKept DEF OrderInv, LockStore, UnlockStore

LEMMA NotifyStep == ASSUME OrderInv, NEW w \in Writers, NotifyAll(w) PROVE OrderInv'
<1>1. TypeOK'
  BY DEF OrderInv, TypeOK, NotifyAll, Stages
<1>2. \A t \in Writers : (HasNumber(t)' <=> HasNumber(t)) /\ (HasTurn(t)' => HasTurn(t))
  BY DEF OrderInv, TypeOK, NotifyAll, HasNumber, Waiting, HasTurn
<1> QED
  BY <1>1, <1>2, LineKept DEF OrderInv, NotifyAll

LEMMA TurnIsFirst ==
  ASSUME OrderInv, NEW w \in Writers, HasTurn(w)
  PROVE  1 \in 1 .. Len(line) /\ line[1] = w
<1> USE DEF OrderInv
<1>1. Len(line) \in Nat
  BY DEF TypeOK
<1>2. mine[w] = serving /\ HasNumber(w)
  BY DEF TurnIsServed, HasNumber
<1>3. PICK i \in 1 .. Len(line) : line[i] = w
  BY <1>2 DEF InOrder
<1>4. i = 1
  BY <1>1, <1>2, <1>3, DistanceBounds DEF InOrder, TypeOK
<1> QED
  BY <1>3, <1>4

(* The one who leaves is the first in line, and everyone else moves up. *)
LEMMA ServeStep == ASSUME OrderInv, NEW w \in Writers, Serve(w) PROVE OrderInv'
<1> USE DEF OrderInv
<1>1. Len(line) \in Nat /\ line \in [1 .. Len(line) -> Writers]
  BY DEF TypeOK
<1>2. 1 \in 1 .. Len(line) /\ line[1] = w
  BY TurnIsFirst DEF Serve, HasTurn
<1>3. /\ line' \in Seq(Writers) /\ Len(line') = Len(line) - 1
      /\ \A j \in 1 .. Len(line') : j + 1 \in 1 .. Len(line) /\ line'[j] = line[j + 1]
  BY <1>1, <1>2 DEF Serve, TypeOK
<1>4. TypeOK'
  BY <1>3, AfterNumber DEF TypeOK, Serve, Stages
<1>5. \A n \in Numbers : Distance(n) > 0 => Distance(n)' = Distance(n) - 1
  BY DistanceShrinks DEF Serve
<1>6. \A t \in Writers \ {w} : pc'[t] = pc[t]
  BY DEF Serve, TypeOK
<1>7. \A j \in 1 .. Len(line) : line[j] \in Writers /\ (j > 1 => line[j] # w)
  <2>1. \A j \in 1 .. Len(line) : Distance(mine[line[j]]) = j - 1
    BY DEF InOrder
  <2> QED
    BY <1>1, <1>2, <2>1
<1>8. \A j \in 1 .. Len(line') : HasNumber(line[j])' /\ Distance(mine[line[j]])' = j - 1
  <2> SUFFICES ASSUME NEW j \in 1 .. Len(line')
               PROVE  HasNumber(line[j])' /\ Distance(mine[line[j]])' = j - 1
    OBVIOUS
  <2> DEFINE t == line[j + 1]
  <2>1. j + 1 \in 1 .. Len(line) /\ line'[j] = t /\ t \in Writers \ {w}
    BY <1>1, <1>3, <1>7
  <2>2. HasNumber(t) /\ Distance(mine[t]) = j
    BY <1>1, <1>3, <2>1 DEF InOrder
  <2>3. HasNumber(line[j])'
    BY <1>6, <2>1, <2>2 DEF HasNumber, Waiting, HasTurn
  <2>4. PICK n \in Numbers : n = mine[t]
    BY <2>1 DEF TypeOK
  <2>5. (mine[line[j]])' = n /\ Distance(n)' = j - 1
    BY <1>1, <1>3, <1>5, <2>1, <2>2, <2>4 DEF Serve
  <2> QED
    BY <2>3, <2>5 DEF Distance
<1>9. \A t \in Writers : HasNumber(t)' => \E j \in 1 .. Len(line') : line'[j] = t
  <2> SUFFICES ASSUME NEW t \in Writers, HasNumber(t)'
               PROVE  \E j \in 1 .. Len(line') : line'[j] = t
    OBVIOUS
  <2>1. t # w /\ HasNumber(t)
    BY <1>6 DEF Serve, TypeOK, HasNumber, Waiting, HasTurn
  <2>2. PICK i \in 1 .. Len(line) : line[i] = t
    BY <2>1 DEF InOrder
  <2>3. i - 1 \in 1 .. Len(line') /\ line'[i - 1] = t
    BY <1>1, <1>2, <1>3, <2>1, <2>2
  <2> QED
    BY <2>3
<1>10. Distance(next)' = Len(line')
  BY <1>1, <1>2, <1>3, <1>5 DEF InOrder, TypeOK, Serve, Distance
<1>11. InOrder'
  BY <1>8, <1>9, <1>10 DEF InOrder
<1>12. TurnIsServed'
  <2> SUFFICES ASSUME NEW t \in Writers, HasTurn(t)' PROVE FALSE
    BY DEF TurnIsServed
  <2>1. t # w /\ HasTurn(t)
    BY <1>6 DEF Serve, TypeOK, HasTurn
  <2> QED
    BY <1>2, <2>1, TurnIsFirst
<1> QED
  BY <1>4, <1>11, <1>12

LEMMA OrderStep == OrderInv /\ [Next]_vars => OrderInv'
<1> SUFFICES ASSUME OrderInv, [Next]_vars PROVE OrderInv'
  OBVIOUS
<1>1. ASSUME NEW w \in Writers,
             TakeNumber(w) \/ WakeSpuriously(w) \/ LockStore(w) \/ Proceed(w)
      PROVE  OrderInv'
  BY <1>1, TakeNumberStep, RecheckStep, StoreStep, ServeStep, NotifyStep DEF Proceed
<1>2. CASE OthersLock \/ OthersUnlock \/ UNCHANGED vars
  <2>1. TypeOK'
    BY <1>2 DEF OrderInv, TypeOK, OthersLock, OthersUnlock, vars
  <2>2. \A t \in Writers : (HasNumber(t)' <=> HasNumber(t)) /\ (HasTurn(t)' <=> HasTurn(t))
    BY <1>2 DEF OthersLock, OthersUnlock, vars, HasNumber, Waiting, HasTurn
  <2> QED
    BY <1>2, <2>1, <2>2, LineKept DEF OrderInv, OthersLock, OthersUnlock, vars
<1> QED
  BY <1>1, <1>2 DEF Next

LEMMA OrderInit == Init => OrderInv
<1> SUFFICES ASSUME Init PROVE OrderInv
  OBVIOUS
<1>1. TypeOK
  BY WidthNat DEF Init, TypeOK, Numbers, Stages
<1>2. InOrder /\ TurnIsServed
  BY WidthNat DEF Init, InOrder, TurnIsServed, HasNumber, Waiting, HasTurn, Distance
<1> QED
  BY <1>1, <1>2 DEF OrderInv

(* The counters, the line and every thread's stage keep their types.          *)
THEOREM GateTypes == Spec => []TypeOK
  BY OrderInit, OrderStep, PTL DEF Spec, OrderInv

(* First come, first served: with any number of threads, below 2^64 of them,   *)
(* the one that may write is the one whose ticket is the oldest.               *)
THEOREM GateIsFifo == Spec => []FirstInLine
<1>1. OrderInv => FirstInLine
  BY TurnIsFirst DEF FirstInLine
<1> QED
  BY <1>1, OrderInit, OrderStep, PTL DEF Spec

(* No wakeup is lost, although the waking call is made after the mutex is     *)
(* released: the thread whose turn has come is awake or about to be woken.     *)
THEOREM NoWakeupLost == Spec => []NoLostWakeup
<1> DEFINE Inv == OrderInv /\ NoLostWakeup
<1>1. Init => Inv
  BY OrderInit DEF Init, NoLostWakeup
<1>2. Inv /\ [Next]_vars => Inv'
  <2> SUFFICES ASSUME Inv, [Next]_vars PROVE NoLostWakeup'
    BY OrderStep
  <2> USE DEF NoLostWakeup, OrderInv, TypeOK
  <2>1. ASSUME NEW w \in Writers, TakeNumber(w) \/ WakeSpuriously(w) PROVE NoLostWakeup'
    BY <2>1 DEF TakeNumber, WakeSpuriously
  <2>2. ASSUME NEW w \in Writers, LockStore(w) \/ UnlockStore(w) \/ Recheck(w)
        PROVE  NoLostWakeup'
    BY <2>2 DEF LockStore, UnlockStore, Recheck
  <2>3. ASSUME NEW w \in Writers, Serve(w) PROVE NoLostWakeup'
    BY <2>3 DEF Serve
  <2>4. ASSUME NEW w \in Writers, NotifyAll(w) PROVE NoLostWakeup'
    BY <2>4 DEF NotifyAll
  <2>5. CASE OthersLock \/ OthersUnlock \/ UNCHANGED vars
    BY <2>5 DEF OthersLock, OthersUnlock, vars
  <2> QED
    BY <2>1, <2>2, <2>3, <2>4, <2>5 DEF Next, Proceed
<1> QED
  BY <1>1, <1>2, PTL DEF Spec
-----------------------------------------------------------------------------
(***************************************************************************)
(* A full rebuild, and the recovery from one that was cut short, always    *)
(* leave an index that can be opened and holds every acknowledged change,  *)
(* for every number of builds, changes and crashes.                        *)
(*                                                                         *)
(* The argument: the published pair and the log stand for the changes by   *)
(* themselves (Own) until the log is replaced, and from there on the       *)
(* staged base does (Decided); the generation of the log, which changes in *)
(* one rename, tells the two apart.  Each step of a build or of a recovery *)
(* is taken only from the form in which it keeps one of the two.           *)
(***************************************************************************)

(* Where a build may start: after clean work, or after a compaction of the   *)
(* store that had replaced the log.  A torn marker, a tail intent and a log  *)
(* cut below its header are left out: TLC shows that the recovery of a       *)
(* rebuild does not know them, and each of them breaks the theorem.          *)
SoundStart == ~TornMarkers /\ Leftovers \subseteq {"clean", "reset", "published"}
-----------------------------------------------------------------------------
Gens == 1 .. Len(covers)

\* A base of this generation holds every acknowledged change.
HoldsAll(gen) == gen \in Gens /\ covers[gen] = 1 .. logged

Steps == {"idle", "recover", "forget", "unmarkOld", "next", "stage", "sidecars", "mark", "writeMarker",
          "publish", "publishSide", "unmark", "clean", "unprepare"}

FilesTyped ==
  disk \in [base : Nat, side : Nat, log : [gen : Int, frames : SUBSET Nat], stage : Nat, ready : BOOLEAN,
            stageLog : Nat, preparing : BOOLEAN, marker : Int, tail : {<<>>}]

Bookkeeping ==
  /\ FilesTyped /\ logged \in Nat /\ covers \in Seq(SUBSET Nat)
  /\ opened \in BOOLEAN /\ step \in Steps

\* The published base, its sidecars and its log are complete by themselves.
Own ==
  /\ disk.log.gen = disk.base /\ disk.base \in Gens
  /\ covers[disk.base] \cup disk.log.frames = 1 .. logged
  /\ disk.side = disk.base

AtRest == Own /\ disk.marker = None

\* The marker names a new generation, the log is still the old one: the
\* publication can be finished, with a stage that is complete, or dropped.
Undecided ==
  /\ Own /\ disk.preparing /\ disk.marker > 0 /\ disk.marker # disk.base
  /\ disk.stage = None \/ (disk.stage = disk.marker /\ disk.ready /\ HoldsAll(disk.marker))

\* The log is the new one: the stage holds everything and must be published.
Decided ==
  /\ HoldsAll(disk.marker) /\ disk.log = [gen |-> disk.marker, frames |-> {}]
  /\ disk.stage = disk.marker /\ disk.ready

MarkerBeingWritten == Own /\ disk.marker = Torn /\ step = "writeMarker"

DiskForm == AtRest \/ Undecided \/ Decided \/ MarkerBeingWritten

\* A new base was read from everything, under the first marker.
Staged == AtRest /\ disk.preparing /\ HoldsAll(Len(covers)) /\ Len(covers) # disk.base

\* The form each step of a build or of a recovery finds.
StepForm ==
  /\ opened => AtRest /\ step = "idle"
  /\ step \in {"forget", "clean", "unprepare"} => AtRest
  /\ step = "unmarkOld" => Undecided /\ disk.stage = None
  /\ step = "next" => AtRest \/ (Decided /\ goal = "open")
  /\ step = "stage" => Staged
  /\ step = "sidecars" => Staged /\ disk.stage = Len(covers)
  /\ step = "mark" => Staged /\ disk.stage = Len(covers) /\ disk.ready
  /\ step = "writeMarker" =>
       /\ MarkerBeingWritten /\ disk.preparing /\ disk.ready
       /\ disk.stage # disk.base /\ HoldsAll(disk.stage)
  /\ step = "publish" => (Undecided \/ Decided) /\ disk.stage = disk.marker
  /\ step = "publishSide" => Decided /\ disk.base = disk.marker
  /\ step = "unmark" => Decided /\ disk.base = disk.marker /\ disk.side = disk.base
  /\ goal \in {"none", "build", "open"}

RebuildInv == Bookkeeping /\ DiskForm /\ StepForm
-----------------------------------------------------------------------------
(* Every sound start is a form: at rest, or decided. *)
LEMMA RebuildInitial == ASSUME SoundStart, RebuildInit PROVE RebuildInv
<1>1. PICK left \in {"clean", "reset", "published"} : disk = FilesAfter(left) /\ covers = <<{}, {1, 2}>>
  BY DEF SoundStart, RebuildInit, HasTail
<1>2. logged = 2 /\ step = "idle" /\ goal = "none" /\ opened = FALSE
  BY DEF RebuildInit
<1>3. 1 .. 2 = {1, 2}
  OBVIOUS
<1> USE DEF FilesAfter, CleanFiles, None
<1>4. Bookkeeping
  <2>1. FilesTyped
    <3>1. CASE left = "clean"
      BY <1>1, <3>1 DEF FilesTyped
    <3>2. CASE left = "reset"
      <4>1. disk = [base |-> 1, side |-> 1, log |-> [gen |-> 2, frames |-> {}], stage |-> 2, ready |-> TRUE,
                    stageLog |-> 0, preparing |-> FALSE, marker |-> 2, tail |-> <<>>]
        BY <1>1, <3>2
      <4> QED
        BY <4>1 DEF FilesTyped
    <3>3. CASE left = "published"
      <4>1. disk = [base |-> 2, side |-> 2, log |-> [gen |-> 2, frames |-> {}], stage |-> 2, ready |-> TRUE,
                    stageLog |-> 0, preparing |-> FALSE, marker |-> 2, tail |-> <<>>]
        BY <1>1, <3>3
      <4> QED
        BY <4>1 DEF FilesTyped
    <3> QED
      BY <1>1, <3>1, <3>2, <3>3
  <2>2. covers \in Seq(SUBSET Nat)
    BY <1>1
  <2> QED
    BY <1>2, <2>1, <2>2 DEF Bookkeeping, Steps
<1>5. DiskForm
  BY <1>1, <1>2, <1>3 DEF DiskForm, AtRest, Own, Decided, HoldsAll, Gens
<1>6. StepForm
  BY <1>2 DEF StepForm
<1> QED
  BY <1>4, <1>5, <1>6 DEF RebuildInv

(* The recovery before a build, or before an open of what a build left. *)
LEMMA RecoveringKeeps == ASSUME SoundStart, RebuildInv, Recovering PROVE RebuildInv'
<1> USE DEF RebuildInv, FilesTyped, DiskForm, AtRest, Own, Undecided, Decided, MarkerBeingWritten,
      HoldsAll, Gens, Steps, Staged, None, Torn, Go, Failed, DropStage
<1>1. CASE RecoverNothing
  <2>1. AtRest /\ UNCHANGED <<covers, logged, goal, opened>> /\ ~opened
    BY <1>1 DEF RecoverNothing, StepForm
  <2>2. CASE disk.preparing
    <3>1. disk' = DropStage(disk) /\ step' = "forget"
      BY <1>1, <2>2 DEF RecoverNothing
    <3>2. Bookkeeping' /\ AtRest'
      BY <2>1, <3>1 DEF Bookkeeping
    <3> QED
      BY <2>1, <3>1, <3>2 DEF StepForm
  <2>3. CASE ~disk.preparing
    <3>1. disk' = disk /\ step' = "next"
      BY <1>1, <2>3 DEF RecoverNothing
    <3> QED
      BY <2>1, <3>1 DEF Bookkeeping, StepForm
  <2> QED
    BY <2>2, <2>3
<1>2. CASE ForgetPreparation
  BY <1>2 DEF ForgetPreparation, Bookkeeping, StepForm
<1>3. CASE RollBack
  <2>1. Undecided /\ disk' = DropStage(disk) /\ step' = "unmarkOld" /\ ~opened
        /\ UNCHANGED <<covers, logged, goal, opened>>
    BY <1>3 DEF RollBack, StepForm
  <2>2. Bookkeeping' /\ Undecided' /\ disk'.stage = None
    BY <2>1 DEF Bookkeeping
  <2> QED
    BY <2>1, <2>2 DEF StepForm
<1>4. CASE UnmarkOld
  BY <1>4 DEF UnmarkOld, Bookkeeping, StepForm
<1>5. CASE RecoverPublished
  BY <1>5 DEF RecoverPublished, Bookkeeping, StepForm
<1>6. CASE RollForward
  BY <1>6 DEF RollForward, Bookkeeping, StepForm
<1> QED
  BY <1>1, <1>2, <1>3, <1>4, <1>5, <1>6 DEF Recovering

(* The build, which never touches what is published. *)
LEMMA BuildingKeeps == ASSUME SoundStart, RebuildInv, Building PROVE RebuildInv'
<1> USE DEF RebuildInv, FilesTyped, DiskForm, AtRest, Own, Undecided, Decided, MarkerBeingWritten,
      HoldsAll, Gens, Steps, Staged, None, Torn, Go, Failed, DropStage
<1>1. CASE Prepare
  <2>1. AtRest /\ disk' = [disk EXCEPT !.preparing = TRUE] /\ covers' = Append(covers, 1 .. logged)
        /\ step' = "stage" /\ UNCHANGED <<logged, goal, opened>> /\ ~opened
    BY <1>1 DEF Prepare, StepForm
  <2>2. /\ covers' \in Seq(SUBSET Nat) /\ Len(covers') = Len(covers) + 1
        /\ covers'[Len(covers')] = 1 .. logged /\ \A g \in Gens : covers'[g] = covers[g]
    BY <2>1 DEF Bookkeeping
  <2>3. Bookkeeping'
    BY <2>1, <2>2 DEF Bookkeeping
  <2>4. Staged'
    BY <2>1, <2>2 DEF Bookkeeping
  <2> QED
    BY <2>1, <2>3, <2>4 DEF StepForm
<1>2. CASE Stage
  <2>1. Staged /\ disk' = [disk EXCEPT !.stage = Len(covers), !.ready = FALSE]
        /\ step' = "sidecars" /\ UNCHANGED <<covers, logged, goal, opened>> /\ ~opened
    BY <1>2 DEF Stage, StepForm
  <2>2. Bookkeeping'
    <3>1. Len(covers) \in Nat /\ step' \in Steps
      BY <2>1 DEF Bookkeeping
    <3>2. FilesTyped'
      BY <2>1, <3>1 DEF Bookkeeping
    <3> QED
      BY <2>1, <3>1, <3>2 DEF Bookkeeping
  <2>3. Staged' /\ disk'.stage = Len(covers')
    BY <2>1 DEF Bookkeeping
  <2> QED
    BY <2>1, <2>2, <2>3 DEF StepForm
<1>3. CASE StageSidecars
  BY <1>3 DEF StageSidecars, Bookkeeping, StepForm
<1>4. CASE CreateMarker
  BY <1>4 DEF CreateMarker, Bookkeeping, StepForm
<1>5. CASE WriteMarker
  BY <1>5 DEF WriteMarker, Bookkeeping, StepForm
<1> QED
  BY <1>1, <1>2, <1>3, <1>4, <1>5 DEF Building

(* The publication: ReplaceLog is the step that decides. *)
LEMMA PublishingKeeps == ASSUME SoundStart, RebuildInv, Publishing PROVE RebuildInv'
<1> USE DEF RebuildInv, FilesTyped, DiskForm, AtRest, Own, Undecided, Decided, MarkerBeingWritten,
      HoldsAll, Gens, Steps, Staged, None, Torn, Go, Failed, DropStage
<1>1. CASE StageLog
  BY <1>1 DEF StageLog, Bookkeeping, StepForm
<1>2. CASE ReplaceLog
  <2>1. /\ Undecided /\ disk.stage = disk.marker /\ step' = "publish" /\ ~opened
        /\ disk' = [disk EXCEPT !.log = [gen |-> disk.marker, frames |-> {}], !.stageLog = None]
        /\ UNCHANGED <<covers, logged, goal, opened>>
    BY <1>2 DEF ReplaceLog, StepForm
  <2>2. FilesTyped'
    <3>1. disk.marker \in Int /\ {} \in SUBSET Nat /\ None \in Nat
      BY DEF Bookkeeping
    <3>2. [gen |-> disk.marker, frames |-> {}] \in [gen : Int, frames : SUBSET Nat]
      BY <3>1
    <3> QED
      BY <2>1, <3>1, <3>2 DEF Bookkeeping
  <2>3. Bookkeeping'
    BY <2>1, <2>2 DEF Bookkeeping
  <2>4. Decided' /\ disk'.stage = disk'.marker
    BY <2>1 DEF Bookkeeping
  <2> QED
    BY <2>1, <2>3, <2>4 DEF StepForm
<1>3. CASE PublishBase
  BY <1>3 DEF PublishBase, Bookkeeping, StepForm
<1>4. CASE PublishSide
  BY <1>4 DEF PublishSide, Bookkeeping, StepForm
<1>5. CASE Unmark
  BY <1>5 DEF Unmark, Bookkeeping, StepForm
<1>6. CASE CleanStage
  BY <1>6 DEF CleanStage, Bookkeeping, StepForm
<1>7. CASE Unprepare
  BY <1>7 DEF Unprepare, Bookkeeping, StepForm
<1> QED
  BY <1>1, <1>2, <1>3, <1>4, <1>5, <1>6, <1>7 DEF Publishing

(* Opens, changes logged while the index is open, and crashes. *)
LEMMA OthersKeep ==
  ASSUME SoundStart, RebuildInv, StartBuild \/ StartOpen \/ Opens \/ LogOne \/ Stops
  PROVE  RebuildInv'
<1> USE DEF RebuildInv, FilesTyped, DiskForm, AtRest, Own, Undecided, Decided, MarkerBeingWritten,
      HoldsAll, Gens, Steps, Staged, None, Torn, Go, Failed, DropStage
<1>1. CASE StartBuild
  BY <1>1 DEF StartBuild, Bookkeeping, StepForm, SoundStart, OpenedPair, FromStage, CleanFiles
<1>2. CASE StartOpen
  BY <1>2 DEF StartOpen, Bookkeeping, StepForm, SoundStart, OpenedPair, FromStage, CleanFiles
<1>3. CASE Opens
  <2>1. CASE Openable(disk)
    <3>1. /\ disk' = OpenedPair(disk) /\ opened' = TRUE /\ step' = "idle" /\ goal' = "none"
          /\ UNCHANGED <<covers, logged>>
      BY <1>3, <2>1 DEF Opens
    <3>2. AtRest \/ Decided
      BY <1>3 DEF Opens, StepForm
    <3>3. CASE AtRest
      <4>1. disk' = [CleanFiles(disk.base, disk.log.frames) EXCEPT !.side = disk.base]
        BY <3>1, <3>3 DEF OpenedPair, FromStage
      <4>2. disk' = CleanFiles(disk.base, disk.log.frames)
        BY <4>1 DEF CleanFiles
      <4> QED
        BY <3>1, <3>3, <4>2 DEF CleanFiles, Bookkeeping, StepForm
    <3>4. CASE Decided
      <4>1. disk' = [CleanFiles(disk.marker, {}) EXCEPT !.side = disk.marker]
        BY <3>1, <3>4 DEF OpenedPair, Bookkeeping
      <4>2. disk' = CleanFiles(disk.marker, {})
        BY <4>1 DEF CleanFiles
      <4> QED
        BY <3>1, <3>4, <4>2 DEF CleanFiles, Bookkeeping, StepForm
    <3> QED
      BY <3>2, <3>3, <3>4
  <2>2. CASE ~Openable(disk)
    BY <1>3, <2>2 DEF Opens, Bookkeeping, StepForm
  <2> QED
    BY <2>1, <2>2
<1>4. CASE LogOne
  <2>1. /\ AtRest /\ step = "idle" /\ logged' = logged + 1
        /\ disk' = [disk EXCEPT !.log.frames = @ \cup {logged + 1}]
        /\ UNCHANGED <<covers, step, goal, opened>>
    BY <1>4 DEF LogOne, StepForm
  <2>2. 1 .. logged + 1 = (1 .. logged) \cup {logged + 1}
    BY DEF Bookkeeping
  <2>3. disk'.log.frames = disk.log.frames \cup {logged + 1} /\ disk'.log.gen = disk.log.gen
    BY <2>1 DEF Bookkeeping
  <2>4. Bookkeeping'
    BY <2>1 DEF Bookkeeping
  <2>5. AtRest'
    BY <2>1, <2>2, <2>3 DEF Bookkeeping
  <2> QED
    BY <2>1, <2>4, <2>5 DEF StepForm
<1>5. CASE Stops
  BY <1>5 DEF Stops, Bookkeeping, StepForm, SoundStart, OpenedPair, FromStage, CleanFiles
<1> QED
  BY <1>1, <1>2, <1>3, <1>4, <1>5

LEMMA RebuildStep == ASSUME SoundStart PROVE RebuildInv /\ [RebuildNext]_rebuildVars => RebuildInv'
<1> SUFFICES ASSUME RebuildInv, [RebuildNext]_rebuildVars PROVE RebuildInv'
  OBVIOUS
<1>1. CASE RebuildNext
  BY <1>1, RecoveringKeeps, BuildingKeeps, PublishingKeeps, OthersKeep DEF RebuildNext
<1>2. CASE UNCHANGED rebuildVars
  BY SMTT(60), <1>2 DEF rebuildVars, RebuildInv, Bookkeeping, FilesTyped, DiskForm, StepForm, AtRest, Own, Undecided,
     Decided, MarkerBeingWritten, HoldsAll, Gens, Staged
<1> QED
  BY <1>1, <1>2

-----------------------------------------------------------------------------
(* In each form an open, after the recovery, gets all that was acknowledged. *)
LEMMA FormIsRecoverable == ASSUME SoundStart, RebuildInv PROVE RebuildRecoverable
<1> USE DEF RebuildInv, Bookkeeping, FilesTyped, Own, HoldsAll, Gens, None, Torn, Recovered,
      OpenedPair, Openable, TailOk, PairOk, FromStage, CleanFiles, DropStage, RebuildRecoverable
<1>1. CASE AtRest
  BY <1>1 DEF AtRest
<1>2. CASE Undecided
  BY <1>2 DEF Undecided
<1>3. CASE Decided
  BY <1>3 DEF Decided
<1>4. CASE MarkerBeingWritten
  BY <1>4 DEF MarkerBeingWritten, SoundStart
<1> QED
  BY ZenonT(60), <1>1, <1>2, <1>3, <1>4 DEF DiskForm

(* Wherever a build or a recovery is cut short, between any two of its files, *)
(* the index can be opened, stands for every change that was acknowledged,   *)
(* and has the directory sidecars of its own base.                           *)
THEOREM RebuildRecoverableHolds == ASSUME SoundStart PROVE RebuildSpec => []RebuildRecoverable
  BY RebuildInitial, RebuildStep, FormIsRecoverable, PTL DEF RebuildSpec
-----------------------------------------------------------------------------
(***************************************************************************)
(* However builds, compactions, sweeps and crashes follow each other, the  *)
(* next start of the watch service finds a place to go on from that leaves *)
(* no change of the volume out, and a service that says it is ready is:    *)
(* for every number of changes, transactions and bases.                    *)
(*                                                                         *)
(* The argument: at every step of a publication some contents stand for    *)
(* the index (Content) together with a seed and the sweep's file, and they *)
(* lack no change from before the transaction these two name (Resumes).    *)
(* It needs that no build beside the service has the transaction of a seed *)
(* in use (~SameCursor): the sweep's file names its seed by the            *)
(* transaction alone, so it would be taken for the new base's own.         *)
(***************************************************************************)

\* These contents lack no change from before a transaction.
Covers(has, since) == \A n \in FsChanges : n \in has \/ changedIn[n] >= since

\* From a seed of this transaction a start goes on at the seed or, if the sweep's
\* file names it, where the sweep's file says: neither leaves a change out.
Resumes(has, since) ==
  Covers(has, since) /\ (sweptFile.gen = since => Covers(has, sweptFile.since))

\* A staged base waits to be published; the log was replaced for it already.
Pending == publication # NoStage
Turned == Pending /\ wal.gen = publication.gen

\* What stands for the index: the staged base as soon as the log was replaced,
\* and that of a compaction at once, because it holds what it was made from.
Content == IF Pending /\ (Turned \/ ~publication.whole) THEN publication.has ELSE Held
BuildRuns == ingest.step # "idle"

\* The types.
ServiceSteps == {"down", "attached", "open", "prepared", "replayed", "saved", "ready"}
Services == [step : ServiceSteps, before : Nat, queue : SUBSET Nat, hand : SUBSET Nat, since : Nat,
             id : Nat, active : BOOLEAN, gap : BOOLEAN, moved : BOOLEAN]
Ingests == [step : {"idle", "scan", "recover", "publish"}, since : Nat, before : Nat,
            has : SUBSET Nat]
StagedBases == [gen : Nat, has : SUBSET Nat, since : Nat, whole : BOOLEAN]
Contents == [gen : Nat \ {0}, has : SUBSET Nat]

\* Every variable has its type.
SessionTyped ==
  /\ offline \in BOOLEAN /\ staleMark \in BOOLEAN
  /\ changedIn \in Seq(Nat) /\ committed \in Nat \ {0}
  /\ base \in Contents /\ wal \in Contents
  /\ seed \in [gen : Nat, since : Nat] /\ sweptFile \in [gen : Int, since : Nat]
  /\ publication \in StagedBases /\ service \in Services /\ ingest \in Ingests

\* A change is in a transaction that was or is about to be committed; the
\* sweep's file names a committed one.
VolumeForm ==
  /\ \A n \in FsChanges : changedIn[n] \in 1 .. committed + 1
  /\ sweptFile.since \in 0 .. committed
  /\ sweptFile.gen # 0 => sweptFile.since > 0

\* Without a seed the sweep's file is of the old format and says where to go on.
SeedForm ==
  /\ seed = NoFile => sweptFile.gen = Legacy /\ sweptFile.since > 0
  /\ seed # NoFile => seed.gen > 0 /\ seed.since \in 1 .. committed

\* Where a publication stands: the log, the base and the seed are replaced in
\* this order, and each belongs to the old base or to the new one.
StageForm ==
  /\ ~Pending => wal.gen = base.gen /\ (seed = NoFile \/ Bound)
  /\ Pending =>
       /\ publication.gen \in {base.gen, base.gen + 1}
       /\ wal.gen \in {base.gen, publication.gen}
       /\ Turned => wal.has = {}
       /\ publication.since \in 0 .. committed
       /\ publication.whole => publication.since > 0
       /\ base.gen # publication.gen =>
            /\ seed = NoFile \/ Bound
            /\ ~publication.whole => publication.since = 0
       /\ base.gen = publication.gen =>
            /\ base.has = publication.has
            /\ publication.since = 0 => seed = NoFile
            /\ seed = NoFile \/ seed.gen \in {base.gen, base.gen - 1}
            /\ Bound => seed.since = publication.since
            /\ ~publication.whole => publication.since = seed.since
       /\ ~publication.whole /\ ~Turned => publication.has = Held
       /\ ~publication.whole /\ offline => seed # NoFile

\* With history, whatever a crash leaves is a place to go on from: before the
\* log is replaced with the old seed, after it with the seed of the new base.
ResumeForm ==
  offline =>
    /\ ~Turned => IF seed = NoFile THEN Covers(Held, sweptFile.since)
                  ELSE Resumes(Held, seed.since)
    /\ Turned => Resumes(publication.has,
                         IF publication.whole THEN publication.since ELSE seed.since)
    /\ Pending /\ publication.whole => Resumes(publication.has, publication.since)

\* A build lacks no change from before its transaction, and its transaction
\* is no earlier than a place that was saved under the same one.
BuildForm ==
  BuildRuns =>
    /\ ingest.since \in 1 .. committed /\ ingest.before \in 0 .. Len(changedIn)
    /\ \A n \in FsChanges : n > ingest.before => changedIn[n] > ingest.since
    /\ ingest.step # "scan" => 1 .. ingest.before \subseteq ingest.has
    /\ sweptFile.gen = ingest.since => sweptFile.since <= ingest.since
    /\ Up => ingest.since \notin Origins
    /\ ingest.step = "publish" => ~Up /\ Pending /\ publication.whole

\* A running service: with history nothing from before the place it sweeps
\* from is missing, without it every change since it was attached is held, in
\* hand or in the queue.
ServiceForm ==
  /\ Storing /\ Pending => ~publication.whole
  /\ service.step \in {"prepared", "replayed", "saved"} => offline
  /\ service.step \in {"down", "attached", "open"} \/ ~offline => service.since = 0
  /\ offline /\ service.step \in {"prepared", "replayed", "saved", "ready"} =>
       /\ seed # NoFile /\ service.id = seed.since /\ service.since \in 1 .. committed
       /\ Covers(Content, service.since)
       /\ service.step # "prepared" => 1 .. service.before \subseteq Content
  /\ service.moved => offline
  /\ service.before \in 0 .. Len(changedIn)
  /\ ~offline /\ Up =>
       (service.before + 1) .. Len(changedIn) \subseteq
         service.queue \cup service.hand \cup (IF Storing THEN Content ELSE {})

\* The inductive invariant.
SessionInv ==
  /\ SessionTyped /\ VolumeForm /\ SeedForm /\ StageForm
  /\ ResumeForm /\ BuildForm /\ ServiceForm
-----------------------------------------------------------------------------
USE DEF VolumeForm, SeedForm, StageForm, ResumeForm, BuildForm, ServiceForm, Covers, Resumes,
        Pending, Turned, Content, BuildRuns, ServiceSteps, Services, Ingests, StagedBases, Contents,
        NoFile, NoStage, Legacy, Down, NoIngest, Least, Most, FsChanges, Held, Up, Storing,
        Published, Bound, Origin, Origins, Publisher, volumeVars, filesVars, sessionVars

\* What the types say of each variable.
LEMMA Fields ==
  ASSUME SessionTyped
  PROVE
  /\ offline \in BOOLEAN /\ staleMark \in BOOLEAN
  /\ changedIn \in Seq(Nat) /\ Len(changedIn) \in Nat /\ committed \in Nat \ {0}
  /\ base \in Contents /\ wal \in Contents
  /\ seed \in [gen : Nat, since : Nat] /\ sweptFile \in [gen : Int, since : Nat]
  /\ publication \in StagedBases /\ service \in Services /\ ingest \in Ingests
  BY SMTT(60) DEF SessionTyped

\* A volume that was built once, with a seed or with a sweep's file of the old
\* format, is in the invariant.
LEMMA InitInv == ASSUME SessionInit PROVE SessionInv
<1>1. SessionTyped
  <2>1. base = [gen |-> 1, has |-> {}] /\ wal = base /\ base \in Contents
    BY DEF SessionInit
  <2>2. seed \in [gen : Nat, since : Nat] /\ sweptFile \in [gen : Int, since : Nat]
    BY DEF SessionInit
  <2>3. publication \in StagedBases
    BY DEF SessionInit
  <2>4. service \in Services
    BY DEF SessionInit
  <2>5. ingest \in Ingests
    BY DEF SessionInit
  <2>6. changedIn \in Seq(Nat) /\ committed \in Nat \ {0}
    BY DEF SessionInit
  <2>7. offline \in BOOLEAN /\ staleMark \in BOOLEAN
    BY DEF SessionInit
  <2> QED
    BY <2>1, <2>2, <2>3, <2>4, <2>5, <2>6, <2>7 DEF SessionTyped
<1>2. VolumeForm /\ SeedForm
  BY DEF SessionInit
<1>3. StageForm
  BY DEF SessionInit
<1>4. ResumeForm /\ BuildForm
  BY DEF SessionInit
<1>5. ServiceForm
  BY DEF SessionInit
<1> QED
  BY <1>1, <1>2, <1>3, <1>4, <1>5 DEF SessionInv

(* A start of the service finds a transaction to go on from, and what the   *)
(* store stands for holds every change from before it (ResumeAt).           *)
LEMMA ResumePoint ==
  ASSUME SessionInv, offline, Pending => ~publication.whole, Bound \/ seed = NoFile
  PROVE
  /\ ResumeAt \in 1 .. committed /\ Covers(Content, ResumeAt)
  /\ \/ Bound
     \/ seed = NoFile /\ ~Bound /\ ~Pending /\ sweptFile.gen = Legacy
       /\ ResumeAt = sweptFile.since
<1>1.
  /\ seed \in [gen : Nat, since : Nat] /\ sweptFile \in [gen : Int, since : Nat]
  /\ base \in Contents /\ committed \in Nat \ {0}
  BY Fields DEF SessionInv
<1>2. VolumeForm /\ SeedForm
  BY DEF SessionInv
<1>3. ~Turned => IF seed = NoFile THEN Covers(Held, sweptFile.since)
                ELSE Resumes(Held, seed.since)
  BY DEF SessionInv
<1>4. Turned /\ ~publication.whole => Resumes(publication.has, seed.since)
  BY DEF SessionInv
<1>5. Pending => ~publication.whole /\ seed # NoFile /\ (~Turned => publication.has = Held)
  BY DEF SessionInv
<1>6. seed # NoFile => Resumes(Content, seed.since)
  BY <1>3, <1>4, <1>5
<1>7. seed = NoFile => Covers(Content, sweptFile.since) /\ ~Pending /\ ~Bound
  BY <1>1, <1>3, <1>5
<1>8. CASE seed = NoFile
  <2>1. ResumeAt = sweptFile.since
    BY <1>1, <1>2, <1>7, <1>8 DEF ResumeAt, Matches, FromSwept
  <2> QED
    BY <1>1, <1>2, <1>7, <1>8, <2>1
<1>9. CASE seed # NoFile /\ sweptFile.gen = seed.since
  <2>1. ResumeAt = Least(sweptFile.since, committed)
    BY <1>9 DEF ResumeAt, Matches, FromSwept
  <2>2. ResumeAt = sweptFile.since
    BY <1>1, <1>2, <2>1
  <2>3. sweptFile.since # 0
    BY <1>1, <1>2, <1>9
  <2> QED
    BY <1>1, <1>2, <1>6, <1>9, <2>2, <2>3
<1>10. CASE seed # NoFile /\ sweptFile.gen # seed.since
  <2>1. ResumeAt = Least(seed.since, committed)
    BY <1>10 DEF ResumeAt, Matches, FromSeed
  <2>2. ResumeAt = seed.since
    BY <1>1, <1>2, <1>10, <2>1
  <2> QED
    BY <1>1, <1>2, <1>6, <1>10, <2>2
<1> QED
  BY <1>8, <1>9, <1>10

\* The invariant gives what the service promises.
LEMMA InvMeans == ASSUME SessionInv PROVE NoChangeSkipped
<1>1. ASSUME offline, Published PROVE ResumeAt # 0 /\ Kept(ResumeAt)
  <2>1. ~Pending /\ (Bound \/ seed = NoFile)
    BY <1>1 DEF SessionInv
  <2>2. ResumeAt \in 1 .. committed /\ Covers(Held, ResumeAt)
    BY <1>1, <2>1, ResumePoint
  <2> QED
    BY <2>2 DEF Kept
<1>2. ASSUME offline, Published, service.since # 0 PROVE Kept(service.since)
  BY <1>2 DEF SessionInv, SessionTyped, Kept
<1>3. ReadyIsCurrent
  BY DEF SessionInv, SessionTyped, ReadyIsCurrent
<1> QED
  BY <1>1, <1>2, <1>3 DEF NoChangeSkipped, NothingSkipped
-----------------------------------------------------------------------------
(* The volume. *)
\* A change of the volume is in a transaction that is not committed yet, so no
\* place to go on from is later.
LEMMA FsChangeKeeps ==
  ASSUME SessionInv, FsChange, ~SameCursor
  PROVE  SessionInv'
<1>1.
  /\ service \in Services /\ changedIn \in Seq(Nat) /\ Len(changedIn) \in Nat
  /\ committed \in Nat
  BY Fields DEF SessionInv
<1>2.
  /\ changedIn' = Append(changedIn, committed + 1)
  /\ UNCHANGED <<offline, committed, filesVars, ingest>>
  BY DEF FsChange
<1>3.
  /\ changedIn' \in Seq(Nat) /\ Len(changedIn') = Len(changedIn) + 1
  /\ \A n \in FsChanges : changedIn'[n] = changedIn[n]
  /\ changedIn'[Len(changedIn) + 1] = committed + 1
  BY <1>1, <1>2
<1>4. \/ Up /\ service' = [service EXCEPT !.queue = @ \cup {Len(changedIn) + 1}]
      \/ offline /\ service' = [service EXCEPT !.gap = TRUE]
      \/ (~Up \/ offline) /\ service' = service
  BY DEF FsChange
<1> DEFINE Told ==
  /\ service' \in Services
  /\ service'.step = service.step /\ service'.before = service.before
  /\ service'.since = service.since /\ service'.id = service.id
  /\ service'.hand = service.hand /\ service'.moved = service.moved
  /\ service.queue \subseteq service'.queue
  /\ ~offline /\ Up => Len(changedIn) + 1 \in service'.queue
<1>5. Told
  <2>1. CASE Up /\ service' = [service EXCEPT !.queue = @ \cup {Len(changedIn) + 1}]
    BY <1>1, <2>1
  <2>2. CASE offline /\ service' = [service EXCEPT !.gap = TRUE]
    BY <1>1, <2>2
  <2>3. CASE (~Up \/ offline) /\ service' = service
    BY <1>1, <2>3
  <2> QED
    BY <1>4, <2>1, <2>2, <2>3
<1>6. UNCHANGED <<offline, committed, filesVars, ingest>>
  BY <1>2
<1>7. \A n \in FsChanges' : \/ n \in FsChanges /\ changedIn'[n] = changedIn[n]
                            \/ n = Len(changedIn) + 1 /\ changedIn'[n] = committed + 1
  BY SMTT(60), <1>1, <1>3
<1>8. VolumeForm /\ SeedForm /\ StageForm /\ ResumeForm /\ BuildForm /\ ServiceForm
  BY DEF SessionInv
<1>9. ASSUME NEW H, NEW s \in 0 .. committed, Covers(H, s)
      PROVE  \A n \in FsChanges' : n \in H \/ changedIn'[n] >= s
  BY SMTT(60), <1>1, <1>7, <1>8, <1>9
<1>10.
  /\ committed \in Nat /\ base \in Contents /\ wal \in Contents /\ publication \in StagedBases
  /\ seed \in [gen : Nat, since : Nat] /\ sweptFile \in [gen : Int, since : Nat]
  /\ ingest \in Ingests /\ service \in Services
  BY Fields DEF SessionInv
<1>11. SessionTyped'
  BY <1>1, <1>3, <1>5, <1>6, <1>7 DEF SessionInv, SessionTyped
<1>12. VolumeForm'
  <2>1. \A n \in FsChanges : changedIn[n] \in 1 .. committed + 1
    BY DEF SessionInv
  <2>2. \A n \in FsChanges' : changedIn'[n] \in 1 .. committed + 1
    BY <1>1, <1>7, <2>1
  <2>3. sweptFile.since \in 0 .. committed /\ (sweptFile.gen # 0 => sweptFile.since > 0)
    BY DEF SessionInv
  <2> QED
    BY <1>6, <2>2, <2>3
<1>13. SeedForm'
  BY <1>1, <1>3, <1>5, <1>6, <1>7 DEF SessionInv, SessionTyped
<1>14. StageForm'
  BY ZenonT(60), <1>1, <1>3, <1>5, <1>6, <1>7 DEF SessionInv, SessionTyped
<1>15. Held' = Held /\ (Turned' <=> Turned) /\ (Pending' <=> Pending) /\ Content' = Content
  BY <1>6
<1>16. ResumeForm'
  <2>1. /\ sweptFile.since \in 0 .. committed /\ seed.since \in 0 .. committed
        /\ Pending => publication.since \in 0 .. committed
    BY SMTT(60), <1>10, <1>8
  <2>2. ASSUME NEW H, NEW s \in 0 .. committed, Resumes(H, s)
        PROVE  /\ \A n \in FsChanges' : n \in H \/ changedIn'[n] >= s
               /\ sweptFile.gen = s =>
                    \A n \in FsChanges' : n \in H \/ changedIn'[n] >= sweptFile.since
    <3>1. Covers(H, s) /\ (sweptFile.gen = s => Covers(H, sweptFile.since))
      BY <2>2
    <3> HIDE DEF Covers, FsChanges
    <3> QED
      BY <1>9, <2>1, <2>2, <3>1
  <2>3. CASE offline /\ ~Turned /\ seed = NoFile
    <3>1. Covers(Held, sweptFile.since)
      BY <1>8, <2>3
    <3>2. \A n \in FsChanges' : n \in Held \/ changedIn'[n] >= sweptFile.since
      BY <1>9, <2>1, <3>1
    <3>3. Pending /\ publication.whole =>
            /\ \A n \in FsChanges' : n \in publication.has \/ changedIn'[n] >= publication.since
            /\ sweptFile.gen = publication.since =>
                 \A n \in FsChanges' : n \in publication.has \/ changedIn'[n] >= sweptFile.since
      <4> HIDE DEF FsChanges, Resumes, Pending
      <4> QED
        BY <1>8, <2>1, <2>2, <2>3
    <3> HIDE DEF Held, Turned, Pending, FsChanges
    <3> QED
      BY <1>6, <1>15, <2>3, <3>2, <3>3
  <2>4. CASE offline /\ ~(~Turned /\ seed = NoFile)
    <3>1. DEFINE at == IF publication.whole THEN publication.since ELSE seed.since
    <3>2. /\ ~Turned => Resumes(Held, seed.since)
          /\ Turned => Resumes(publication.has, at) /\ at \in 0 .. committed
          /\ Pending /\ publication.whole => Resumes(publication.has, publication.since)
      BY <1>8, <2>1, <2>4
    <3>3. /\ ~Turned =>
               /\ \A n \in FsChanges' : n \in Held \/ changedIn'[n] >= seed.since
               /\ sweptFile.gen = seed.since => \A n \in FsChanges' :
                 n \in Held \/ changedIn'[n] >= sweptFile.since
          /\ Turned =>
               /\ \A n \in FsChanges' : n \in publication.has \/ changedIn'[n] >= at
               /\ sweptFile.gen = at => \A n \in FsChanges' :
                 n \in publication.has \/ changedIn'[n] >= sweptFile.since
          /\ Pending /\ publication.whole =>
               /\ \A n \in FsChanges' :
                 n \in publication.has \/ changedIn'[n] >= publication.since
               /\ sweptFile.gen = publication.since => \A n \in FsChanges' :
                 n \in publication.has \/ changedIn'[n] >= sweptFile.since
      <4> HIDE DEF FsChanges, Resumes, Pending, Turned, Held, at
      <4> QED
        BY <2>1, <2>2, <3>2
    <3> HIDE DEF Held, Turned, Pending, FsChanges
    <3> QED
      BY <1>6, <1>15, <2>4, <3>3
  <2> QED
    BY <1>6, <2>3, <2>4
<1>17. BuildForm'
  <2>1. BuildRuns' <=> BuildRuns
    BY <1>6
  <2>2. \A n \in FsChanges' : (BuildRuns /\ n > ingest.before) => changedIn'[n] > ingest.since
    <3>1. BuildRuns =>
            /\ ingest.since \in 1 .. committed /\ ingest.before \in 0 .. Len(changedIn)
            /\ \A n \in FsChanges : n > ingest.before => changedIn[n] > ingest.since
      BY <1>8
    <3> HIDE DEF FsChanges
    <3> QED
      BY <1>1, <1>7, <3>1
  <2>3. BuildRuns => ingest.before \in 0 .. Len(changedIn')
    BY <1>1, <1>3, <1>8
  <2>4. (Up' <=> Up) /\ Origins' = Origins
    BY <1>5, <1>6
  <2> HIDE DEF Up, Origins, FsChanges, BuildRuns, Pending
  <2> QED
    BY <1>6, <1>15, <1>8, <2>1, <2>2, <2>3, <2>4
<1>18. ServiceForm'
  <2>1. (Up' <=> Up) /\ (Storing' <=> Storing)
    BY <1>5
  <2>2. ~offline /\ Up =>
          (service'.before + 1) .. Len(changedIn') \subseteq
            service'.queue \cup service'.hand \cup (IF Storing THEN Content ELSE {})
    <3>1. ~offline /\ Up =>
            (service.before + 1) .. Len(changedIn) \subseteq
              service.queue \cup service.hand \cup (IF Storing THEN Content ELSE {})
      BY <1>8
    <3>2. service.before \in 0 .. Len(changedIn)
      BY <1>8
    <3>3. (service'.before + 1) .. Len(changedIn') =
            ((service.before + 1) .. Len(changedIn)) \cup {Len(changedIn) + 1}
      BY SMTT(60), <1>1, <1>3, <1>5, <3>2
    <3> HIDE DEF Content, Up, Storing
    <3> QED
      BY <1>5, <3>1, <3>3
  <2>3. service'.before \in 0 .. Len(changedIn')
    BY <1>1, <1>3, <1>5, <1>8
  <2>4. service.since \in 1 .. committed => service.since \in 0 .. committed
    BY <1>10
  <2> HIDE DEF Content, Up, Storing, Pending, FsChanges
  <2> QED
    BY <1>5, <1>6, <1>8, <1>9, <1>15, <2>1, <2>2, <2>3, <2>4
<1> QED
  BY <1>11, <1>12, <1>13, <1>14, <1>16, <1>17, <1>18 DEF SessionInv

\* A commit of the volume makes no place later.
LEMMA FsCommitKeeps ==
  ASSUME SessionInv, FsCommit, ~SameCursor
  PROVE  SessionInv'
<1>1. committed \in Nat \ {0} /\ Len(changedIn) \in Nat
  BY Fields DEF SessionInv
<1>2. committed' = committed + 1
  BY DEF FsCommit
<1>3. committed' \in Nat \ {0}
  BY <1>1, <1>2
<1>4. VolumeForm /\ ServiceForm
  BY DEF SessionInv
<1>5.
  /\ committed \in Nat /\ base \in Contents /\ wal \in Contents /\ publication \in StagedBases
  /\ seed \in [gen : Nat, since : Nat] /\ sweptFile \in [gen : Int, since : Nat]
  /\ ingest \in Ingests /\ service \in Services
  BY Fields DEF SessionInv
<1>6. UNCHANGED <<offline, changedIn, filesVars, service, ingest>>
  BY DEF FsCommit
<1>7. SessionTyped'
  BY ZenonT(60), <1>3, <1>6 DEF SessionInv, SessionTyped
<1>8. VolumeForm'
  BY <1>1, <1>2, <1>6, <1>4
<1>9. SeedForm'
  BY SMTT(60), <1>1, <1>2, <1>6 DEF SessionInv, SessionTyped
<1>10. StageForm'
  BY SMTT(60), <1>1, <1>2, <1>6 DEF SessionInv, SessionTyped
<1>11. ResumeForm'
  BY <1>1, <1>2, <1>6 DEF SessionInv, SessionTyped
<1>12. BuildForm'
  BY SMTT(60), <1>1, <1>2, <1>6 DEF SessionInv, SessionTyped
<1>13. ServiceForm'
  <2>1. \A x \in 1 .. committed : x \in 1 .. committed'
    BY <1>1, <1>2
  <2>2. Content' = Content /\ (Up' <=> Up) /\ (Storing' <=> Storing) /\ (Pending' <=> Pending)
    BY <1>6
  <2>3. FsChanges' = FsChanges
    BY <1>6
  <2> HIDE DEF Content, Up, Storing, Pending, FsChanges
  <2> QED
    BY <1>6, <1>4, <2>1, <2>2, <2>3
<1> QED
  BY <1>7, <1>8, <1>9, <1>10, <1>11, <1>12, <1>13 DEF SessionInv
-----------------------------------------------------------------------------
(* The publication of a base. *)
\* A publication is dropped only while the log belongs to the old base.
LEMMA DropPublicationKeeps ==
  ASSUME SessionInv, DropPublication, ~SameCursor
  PROVE  SessionInv'
<1>1. SessionTyped'
  BY ZenonT(60) DEF SessionInv, SessionTyped, DropPublication
<1>2. VolumeForm'
  BY DEF SessionInv, SessionTyped, DropPublication
<1>3. SeedForm'
  BY DEF SessionInv, SessionTyped, DropPublication
<1>4. StageForm'
  BY DEF SessionInv, SessionTyped, DropPublication
<1>5. ResumeForm'
  BY DEF SessionInv, SessionTyped, DropPublication
<1>6. BuildForm'
  BY DEF SessionInv, SessionTyped, DropPublication
<1>7. ServiceForm'
  BY DEF SessionInv, SessionTyped, DropPublication
<1> QED
  BY <1>1, <1>2, <1>3, <1>4, <1>5, <1>6, <1>7 DEF SessionInv

\* The new log empties the old one: from here on the staged base stands for it.
LEMMA ReplaceWalKeeps ==
  ASSUME SessionInv, ReplaceWal, ~SameCursor
  PROVE  SessionInv'
<1>1. SessionTyped'
  BY SMTT(60) DEF SessionInv, SessionTyped, ReplaceWal
<1>2. VolumeForm'
  BY DEF SessionInv, SessionTyped, ReplaceWal
<1>3. SeedForm'
  BY DEF SessionInv, SessionTyped, ReplaceWal
<1>4. StageForm'
  BY DEF SessionInv, SessionTyped, ReplaceWal
<1>5. ResumeForm'
  BY DEF SessionInv, SessionTyped, ReplaceWal
<1>6. BuildForm'
  BY DEF SessionInv, SessionTyped, ReplaceWal
<1>7. ServiceForm'
  BY DEF SessionInv, SessionTyped, ReplaceWal
<1> QED
  BY <1>1, <1>2, <1>3, <1>4, <1>5, <1>6, <1>7 DEF SessionInv

\* The staged base takes the place of the old one, and a compacted one keeps its seed.
LEMMA ReplaceBaseKeeps ==
  ASSUME SessionInv, ReplaceBase, ~SameCursor
  PROVE  SessionInv'
<1>1.
  /\ service \in Services /\ ingest \in Ingests /\ Len(changedIn) \in Nat
  /\ committed \in Nat /\ wal \in Contents /\ base \in Contents /\ publication \in StagedBases
  /\ seed \in [gen : Nat, since : Nat]
  BY Fields DEF SessionInv
<1>2.
  /\ publication' = (IF publication.since = 0 /\ Bound
                     THEN [publication EXCEPT !.since = seed.since] ELSE publication)
  /\ base' = [gen |-> publication.gen, has |-> publication.has]
  BY DEF ReplaceBase, KeepSeed
<1>3. UNCHANGED <<volumeVars, wal, seed, sweptFile, staleMark, service, ingest>>
  BY DEF ReplaceBase
<1>4.
  /\ ~Published /\ wal.gen = publication.gen /\ base.gen # publication.gen
  BY DEF ReplaceBase
<1>5.
  /\ publication' \in StagedBases /\ publication'.gen = publication.gen
  /\ publication'.has = publication.has /\ publication'.whole = publication.whole
  /\ publication'.since = IF publication.since = 0
    /\ Bound THEN seed.since ELSE publication.since
  BY <1>1, <1>2
<1>6.
  /\ base' \in Contents /\ base'.gen = publication.gen /\ base'.has = publication.has
  BY <1>1, <1>2, <1>4
<1>7. publication.whole => publication'.since = publication.since
  BY <1>5 DEF SessionInv, SessionTyped
<1>8. SessionTyped'
  BY SMTT(60), <1>3, <1>4, <1>5, <1>6, <1>7 DEF SessionInv, SessionTyped
<1>9. VolumeForm'
  BY <1>3, <1>4, <1>5, <1>6, <1>7 DEF SessionInv, SessionTyped
<1>10. SeedForm'
  BY <1>3, <1>4, <1>5, <1>6, <1>7 DEF SessionInv, SessionTyped
<1>11. StageForm'
  BY SMTT(60), <1>3, <1>4, <1>5, <1>6, <1>7 DEF SessionInv, SessionTyped
<1>12. VolumeForm /\ SeedForm /\ StageForm /\ ResumeForm
  BY DEF SessionInv
<1>13. ResumeForm'
  BY <1>3, <1>4, <1>5, <1>6, <1>7, <1>12
<1>14. BuildForm'
  BY SMTT(60), <1>3, <1>4, <1>5, <1>6, <1>7 DEF SessionInv, SessionTyped
<1>15. ServiceForm'
  BY <1>3, <1>4, <1>5, <1>6, <1>7 DEF SessionInv, SessionTyped
<1> QED
  BY <1>8, <1>9, <1>10, <1>11, <1>13, <1>14, <1>15 DEF SessionInv

\* The seed of the published base names it; the sweep's file of the old seed
\* is no longer taken for its own, or is not later.
LEMMA ReplaceSeedKeeps ==
  ASSUME SessionInv, ReplaceSeed, ~SameCursor
  PROVE  SessionInv'
<1>1.
  /\ seed' = [gen |-> publication.gen, since |-> publication.since]
  /\ UNCHANGED <<volumeVars, base, wal, sweptFile, publication, staleMark, ingest, service>>
  BY DEF ReplaceSeed
<1>2.
  /\ base.gen = publication.gen /\ seed.gen # publication.gen /\ publication.since # 0
  BY DEF ReplaceSeed
<1>3. publication \in StagedBases
  BY Fields DEF SessionInv
<1>4.
  /\ seed' \in [gen : Nat, since : Nat] /\ seed'.gen = publication.gen
  /\ seed'.since = publication.since
  BY <1>1, <1>3
<1>5. UNCHANGED <<volumeVars, base, wal, sweptFile, publication, staleMark, ingest, service>>
  BY <1>1
<1>6. Turned
  BY <1>2 DEF SessionInv, SessionTyped
<1>7. SessionTyped'
  BY SMTT(60), <1>2, <1>4, <1>5, <1>6 DEF SessionInv, SessionTyped
<1>8. VolumeForm'
  BY <1>2, <1>4, <1>5, <1>6 DEF SessionInv, SessionTyped
<1>9. SeedForm'
  BY <1>2, <1>4, <1>5, <1>6 DEF SessionInv, SessionTyped
<1>10. StageForm'
  BY <1>2, <1>4, <1>5, <1>6 DEF SessionInv, SessionTyped
<1>11. ResumeForm'
  BY ZenonT(60), <1>2, <1>4, <1>5, <1>6 DEF SessionInv, SessionTyped
<1>12. BuildForm'
  BY <1>2, <1>4, <1>5, <1>6 DEF SessionInv, SessionTyped
<1>13. ServiceForm'
  BY SMTT(60), <1>2, <1>4, <1>5, <1>6 DEF SessionInv, SessionTyped
<1> QED
  BY <1>7, <1>8, <1>9, <1>10, <1>11, <1>12, <1>13 DEF SessionInv

\* A publication ends with the seed bound to the base.
LEMMA EndPublicationKeeps ==
  ASSUME SessionInv, EndPublication, ~SameCursor
  PROVE  SessionInv'
<1>1. SessionTyped'
  BY ZenonT(60) DEF SessionInv, SessionTyped, EndPublication
<1>2. VolumeForm'
  BY DEF SessionInv, SessionTyped, EndPublication
<1>3. SeedForm'
  BY DEF SessionInv, SessionTyped, EndPublication
<1>4. StageForm'
  BY DEF SessionInv, SessionTyped, EndPublication
<1>5. ResumeForm'
  BY SMTT(60) DEF SessionInv, SessionTyped, EndPublication
<1>6. BuildForm'
  BY DEF SessionInv, SessionTyped, EndPublication
<1>7. ServiceForm'
  BY DEF SessionInv, SessionTyped, EndPublication
<1> QED
  BY <1>1, <1>2, <1>3, <1>4, <1>5, <1>6, <1>7 DEF SessionInv
-----------------------------------------------------------------------------
(* A full build. *)
\* A build captures a transaction that no seed in use has.
LEMMA StartIngestKeeps ==
  ASSUME SessionInv, StartIngest, ~SameCursor
  PROVE  SessionInv'
<1>1.
  /\ service \in Services /\ ingest \in Ingests /\ Len(changedIn) \in Nat
  /\ committed \in Nat /\ wal \in Contents /\ base \in Contents /\ publication \in StagedBases
  /\ seed \in [gen : Nat, since : Nat]
  BY Fields DEF SessionInv
<1>2. ingest' = [step |-> "scan", since |-> committed, before |-> Len(changedIn), has |-> {}]
  BY DEF StartIngest
<1>3. UNCHANGED <<volumeVars, filesVars, service>>
  BY DEF StartIngest
<1>4.
  /\ ingest.step = "idle"
  /\ Up => committed \notin Origins
  BY DEF StartIngest
<1>5.
  /\ ingest' \in Ingests /\ ingest'.step = "scan" /\ ingest'.since = committed
  /\ ingest'.before = Len(changedIn)
  BY <1>1, <1>2
<1>6. SessionTyped'
  BY ZenonT(60), <1>3, <1>4, <1>5 DEF SessionInv, SessionTyped
<1>7. VolumeForm'
  BY <1>3, <1>4, <1>5 DEF SessionInv, SessionTyped
<1>8. SeedForm'
  BY <1>3, <1>4, <1>5 DEF SessionInv, SessionTyped
<1>9. StageForm'
  BY <1>3, <1>4, <1>5 DEF SessionInv, SessionTyped
<1>10. ResumeForm'
  BY <1>3, <1>4, <1>5 DEF SessionInv, SessionTyped
<1>11. BuildForm'
  BY SMTT(60), <1>3, <1>4, <1>5 DEF SessionInv, SessionTyped
<1>12. ServiceForm'
  BY <1>3, <1>4, <1>5 DEF SessionInv, SessionTyped
<1> QED
  BY <1>6, <1>7, <1>8, <1>9, <1>10, <1>11, <1>12 DEF SessionInv

\* The scan sees every change from before it was started.
LEMMA ScanRecordsKeeps ==
  ASSUME SessionInv, ScanRecords, ~SameCursor
  PROVE  SessionInv'
<1>1. ingest \in Ingests /\ Len(changedIn) \in Nat
  BY Fields DEF SessionInv
<1>2. PICK late \in SUBSET ((ingest.before + 1) .. Len(changedIn)) :
        ingest' = [ingest EXCEPT !.step = "recover", !.has = (1 .. ingest.before) \cup late,
                                 !.since = @]
  BY DEF ScanRecords, Capture
<1>3. UNCHANGED <<volumeVars, filesVars, service>>
  BY DEF ScanRecords
<1>4. ingest.step = "scan"
  BY DEF ScanRecords
<1>5.
  /\ ingest' \in Ingests /\ ingest'.step = "recover"
  /\ ingest'.since = ingest.since /\ ingest'.before = ingest.before
  /\ 1 .. ingest.before \subseteq ingest'.has
  <2>1. ingest.since \in Nat /\ ingest.before \in Nat
    BY <1>1
  <2>2. (1 .. ingest.before) \cup late \subseteq Nat
    <3>1.
      /\ (ingest.before + 1) .. Len(changedIn) \subseteq Nat
      /\ 1 .. ingest.before \subseteq Nat
      BY <1>1, <2>1
    <3> QED
      BY <3>1
  <2> QED
    BY <1>1, <1>2, <2>1, <2>2
<1>6. SessionTyped'
  BY ZenonT(60), <1>3, <1>4, <1>5 DEF SessionInv, SessionTyped
<1>7. VolumeForm'
  BY <1>3, <1>4, <1>5 DEF SessionInv, SessionTyped
<1>8. SeedForm'
  BY <1>3, <1>4, <1>5 DEF SessionInv, SessionTyped
<1>9. StageForm'
  BY ZenonT(60), <1>3, <1>4, <1>5 DEF SessionInv, SessionTyped
<1>10. ResumeForm'
  BY <1>3, <1>4, <1>5 DEF SessionInv, SessionTyped
<1>11. BuildForm'
  BY <1>3, <1>4, <1>5 DEF SessionInv, SessionTyped
<1>12. ServiceForm'
  BY <1>3, <1>4, <1>5 DEF SessionInv, SessionTyped
<1> QED
  BY <1>6, <1>7, <1>8, <1>9, <1>10, <1>11, <1>12 DEF SessionInv

\* What was scanned lacks only changes later than the captured transaction.
LEMMA StageIngestKeeps ==
  ASSUME SessionInv, StageIngest, ~SameCursor
  PROVE  SessionInv'
<1>1.
  /\ service \in Services /\ ingest \in Ingests /\ Len(changedIn) \in Nat
  /\ committed \in Nat /\ wal \in Contents /\ base \in Contents /\ publication \in StagedBases
  /\ seed \in [gen : Nat, since : Nat]
  BY Fields DEF SessionInv
<1>2.
  /\ ingest' = [ingest EXCEPT !.step = "publish"]
  /\ publication' = [gen |-> base.gen + 1, has |-> ingest.has, since |-> ingest.since,
                     whole |-> TRUE]
  BY DEF StageIngest
<1>3. UNCHANGED <<volumeVars, base, wal, seed, sweptFile, staleMark, service>>
  BY DEF StageIngest
<1>4.
  /\ ingest.step = "recover" /\ Published /\ ~Up
  BY DEF StageIngest
<1>5.
  /\ ingest' \in Ingests /\ ingest'.step = "publish" /\ ingest'.since = ingest.since
  /\ ingest'.before = ingest.before /\ ingest'.has = ingest.has
  BY <1>1, <1>2
<1>6.
  /\ publication' \in StagedBases /\ publication'.gen = base.gen + 1
  /\ publication'.has = ingest.has /\ publication'.since = ingest.since
  /\ publication'.whole = TRUE
  BY SMTT(60), <1>1, <1>2
<1>7. Resumes(ingest.has, ingest.since)
  <2>1. \A k \in FsChanges : changedIn[k] \in Nat
    <3>1. VolumeForm
      BY DEF SessionInv
    <3> QED
      BY SMTT(60), <1>1, <3>1
  <2>2. \A k \in FsChanges : k \in ingest.has \/ changedIn[k] > ingest.since
    BY SMTT(60), <1>1, <1>4 DEF SessionInv
  <2>3. sweptFile.gen = ingest.since => sweptFile.since <= ingest.since
    BY <1>4 DEF SessionInv
  <2>4. sweptFile.since \in Nat /\ ingest.since \in Nat
    BY <1>1, Fields DEF SessionInv
  <2> QED
    BY <2>1, <2>2, <2>3, <2>4
<1>8. SessionTyped'
  BY <1>3, <1>4, <1>5, <1>6, <1>7 DEF SessionInv, SessionTyped
<1>9. VolumeForm'
  BY <1>3, <1>4, <1>5, <1>6, <1>7 DEF SessionInv, SessionTyped
<1>10. SeedForm'
  BY <1>3, <1>4, <1>5, <1>6, <1>7 DEF SessionInv, SessionTyped
<1>11. StageForm'
  BY <1>3, <1>4, <1>5, <1>6, <1>7 DEF SessionInv, SessionTyped
<1>12. ResumeForm'
  BY <1>3, <1>4, <1>5, <1>6, <1>7 DEF SessionInv, SessionTyped
<1>13. BuildForm'
  BY <1>3, <1>4, <1>5, <1>6, <1>7 DEF SessionInv, SessionTyped
<1>14. ServiceForm'
  BY <1>3, <1>4, <1>5, <1>6, <1>7 DEF SessionInv, SessionTyped
<1> QED
  BY <1>8, <1>9, <1>10, <1>11, <1>12, <1>13, <1>14 DEF SessionInv

\* A build that stops leaves its publication to the next process.
LEMMA IngestStopsKeeps ==
  ASSUME SessionInv, IngestStops, ~SameCursor
  PROVE  SessionInv'
<1>1.
  /\ service \in Services /\ ingest \in Ingests /\ Len(changedIn) \in Nat
  /\ committed \in Nat /\ wal \in Contents /\ base \in Contents /\ publication \in StagedBases
  /\ seed \in [gen : Nat, since : Nat]
  BY Fields DEF SessionInv
<1>2. ingest' = NoIngest
  BY DEF IngestStops
<1>3. UNCHANGED <<volumeVars, filesVars, service>>
  BY DEF IngestStops
<1>4.
  /\ ingest' \in Ingests /\ ingest'.step = "idle"
  BY <1>1, <1>2
<1>5. SessionTyped'
  BY ZenonT(60), <1>3, <1>4 DEF SessionInv, SessionTyped
<1>6. VolumeForm'
  BY <1>3, <1>4 DEF SessionInv, SessionTyped
<1>7. SeedForm'
  BY <1>3, <1>4 DEF SessionInv, SessionTyped
<1>8. StageForm'
  BY <1>3, <1>4 DEF SessionInv, SessionTyped
<1>9. ResumeForm'
  BY <1>3, <1>4 DEF SessionInv, SessionTyped
<1>10. BuildForm'
  BY <1>3, <1>4 DEF SessionInv, SessionTyped
<1>11. ServiceForm'
  BY <1>3, <1>4 DEF SessionInv, SessionTyped
<1> QED
  BY <1>5, <1>6, <1>7, <1>8, <1>9, <1>10, <1>11 DEF SessionInv
-----------------------------------------------------------------------------
(* The service. *)
\* The watch is attached before the store is opened.
LEMMA AttachKeeps ==
  ASSUME SessionInv, Attach, ~SameCursor
  PROVE  SessionInv'
<1>1.
  /\ service \in Services /\ ingest \in Ingests /\ Len(changedIn) \in Nat
  /\ committed \in Nat /\ wal \in Contents /\ base \in Contents /\ publication \in StagedBases
  /\ seed \in [gen : Nat, since : Nat]
  BY Fields DEF SessionInv
<1>2. service' = [Down EXCEPT !.step = "attached", !.before = Len(changedIn)]
  BY DEF Attach
<1>3. UNCHANGED <<volumeVars, filesVars, ingest>>
  BY DEF Attach
<1>4.
  /\ ~Up /\ ingest.step \notin {"publish", "recover"}
  /\ ingest # NoIngest => ingest.since \notin Origins
  BY DEF Attach
<1>5.
  /\ service' \in Services /\ service'.step = "attached" /\ service'.before = Len(changedIn)
  /\ service'.queue = {} /\ service'.hand = {} /\ service'.since = 0 /\ service'.id = 0
  BY <1>1, <1>2
<1>6. SessionTyped'
  BY <1>1, <1>3, <1>4, <1>5 DEF SessionInv, SessionTyped
<1>7. VolumeForm'
  BY <1>1, <1>3, <1>4, <1>5 DEF SessionInv, SessionTyped
<1>8. SeedForm'
  BY <1>1, <1>3, <1>4, <1>5 DEF SessionInv, SessionTyped
<1>9. StageForm'
  BY <1>1, <1>3, <1>4, <1>5 DEF SessionInv, SessionTyped
<1>10. ResumeForm'
  BY <1>1, <1>3, <1>4, <1>5 DEF SessionInv, SessionTyped
<1>11. BuildForm'
  BY <1>1, <1>3, <1>4, <1>5 DEF SessionInv, SessionTyped
<1>12. ServiceForm
  BY DEF SessionInv
<1>13. ServiceForm'
  <2>1.
    /\ (service'.before + 1) .. Len(changedIn') = {}
    /\ service'.before \in 0 .. Len(changedIn')
    BY SMTT(60), <1>1, <1>3, <1>5
  <2>2. service'.moved = FALSE
    BY <1>2
  <2> QED
    BY <1>5, <2>1, <2>2
<1> QED
  BY <1>6, <1>7, <1>8, <1>9, <1>10, <1>11, <1>13 DEF SessionInv

\* The store is opened when nothing is left to publish.
LEMMA OpenStoreKeeps ==
  ASSUME SessionInv, OpenStore, ~SameCursor
  PROVE  SessionInv'
<1>1.
  /\ service \in Services /\ ingest \in Ingests /\ Len(changedIn) \in Nat
  /\ committed \in Nat /\ wal \in Contents /\ base \in Contents /\ publication \in StagedBases
  /\ seed \in [gen : Nat, since : Nat]
  BY Fields DEF SessionInv
<1>2. service' = [service EXCEPT !.step = "open"]
  BY DEF OpenStore
<1>3. UNCHANGED <<volumeVars, filesVars, ingest>>
  BY DEF OpenStore
<1>4.
  /\ service.step = "attached" /\ Published
  BY DEF OpenStore
<1>5.
  /\ service' \in Services /\ service'.step = "open" /\ service'.before = service.before
  /\ service'.queue = service.queue /\ service'.hand = service.hand
  /\ service'.since = service.since /\ service'.id = service.id
  /\ service'.active = service.active /\ service'.gap = service.gap
  /\ service'.moved = service.moved
  BY <1>1, <1>2
<1>6. SessionTyped'
  BY <1>3, <1>4, <1>5 DEF SessionInv, SessionTyped
<1>7. VolumeForm'
  BY <1>3, <1>4, <1>5 DEF SessionInv, SessionTyped
<1>8. SeedForm'
  BY <1>3, <1>4, <1>5 DEF SessionInv, SessionTyped
<1>9. StageForm'
  BY <1>3, <1>4, <1>5 DEF SessionInv, SessionTyped
<1>10. ResumeForm'
  BY <1>3, <1>4, <1>5 DEF SessionInv, SessionTyped
<1>11. BuildForm'
  BY <1>3, <1>4, <1>5 DEF SessionInv, SessionTyped
<1>12. ServiceForm'
  BY <1>3, <1>4, <1>5 DEF SessionInv, SessionTyped
<1> QED
  BY <1>6, <1>7, <1>8, <1>9, <1>10, <1>11, <1>12 DEF SessionInv

\* The service takes up the place it found and names its seed.
LEMMA PrepareFoldKeeps ==
  ASSUME SessionInv, PrepareFold, ~SameCursor
  PROVE  SessionInv'
<1>1.
  /\ seed \in [gen : Nat, since : Nat] /\ sweptFile \in [gen : Int, since : Nat]
  /\ base \in Contents /\ committed \in Nat \ {0}
  BY Fields DEF SessionInv
<1>2. service.step = "open" /\ offline
  BY DEF PrepareFold
<1>3. UNCHANGED <<volumeVars, base, wal, sweptFile, publication, staleMark, ingest>>
  BY DEF PrepareFold
<1>4.
  /\ ResumeAt \in 1 .. committed /\ Covers(Content, ResumeAt)
  /\ \/ Bound
     \/ seed = NoFile /\ ~Bound /\ ~Pending /\ sweptFile.gen = Legacy
       /\ ResumeAt = sweptFile.since
  <2>1. ResumeAt # 0
    BY DEF PrepareFold
  <2>2. Bound \/ seed = NoFile
    BY <2>1 DEF ResumeAt
  <2>3. Pending => ~publication.whole
    BY <1>2 DEF SessionInv
  <2> QED
    BY <1>2, <2>2, <2>3, ResumePoint
<1>5. \E id \in {ResumeAt, seed.since} :
        /\ Bound => id = seed.since
        /\ ~Bound => id = ResumeAt
        /\ service' = [service EXCEPT !.step = "prepared", !.since = ResumeAt, !.id = id,
          !.active = TRUE]
        /\ seed' = [gen |-> base.gen, since |-> id]
  BY DEF PrepareFold
<1>6. PICK id \in {ResumeAt, seed.since} :
        /\ Bound => id = seed.since
        /\ ~Bound => id = ResumeAt
        /\ service' = [service EXCEPT !.step = "prepared", !.since = ResumeAt, !.id = id,
          !.active = TRUE]
        /\ seed' = [gen |-> base.gen, since |-> id]
  BY <1>5
<1>7. service \in Services /\ ResumeAt \in Nat /\ id \in Nat
  BY SMTT(60), <1>1, <1>4, Fields DEF SessionInv
<1>8.
  /\ service' \in Services /\ service'.step = "prepared"
  /\ service'.since = ResumeAt /\ service'.id = id
  /\ service'.before = service.before /\ service'.queue = service.queue
  /\ service'.hand = service.hand /\ service'.moved = service.moved
  BY <1>6, <1>7
<1>9. seed' \in [gen : Nat, since : Nat] /\ seed'.gen = base.gen /\ seed'.since = id
  BY <1>1, <1>6, <1>7
<1>10. ServiceForm /\ SeedForm
  BY DEF SessionInv
<1>11. CASE Bound
  <2>1. seed' = seed /\ id = seed.since
    BY <1>1, <1>6, <1>11
  <2>2. SessionTyped'
    BY <1>1, <1>2, <1>3, <1>4, <1>8, <1>9, <1>11, <2>1 DEF SessionInv, SessionTyped
  <2>3. VolumeForm'
    BY <1>1, <1>2, <1>3, <1>4, <1>8, <1>9, <1>11, <2>1 DEF SessionInv, SessionTyped
  <2>4. SeedForm'
    BY <1>1, <1>2, <1>3, <1>4, <1>8, <1>9, <1>11, <2>1 DEF SessionInv, SessionTyped
  <2>5. StageForm'
    BY <1>1, <1>2, <1>3, <1>4, <1>8, <1>9, <1>11, <2>1 DEF SessionInv, SessionTyped
  <2>6. ResumeForm'
    BY <1>1, <1>2, <1>3, <1>4, <1>8, <1>9, <1>11, <2>1 DEF SessionInv, SessionTyped
  <2>7. BuildForm'
    BY <1>1, <1>2, <1>3, <1>4, <1>8, <1>9, <1>11, <2>1 DEF SessionInv, SessionTyped
  <2>8. ServiceForm'
    BY <1>1, <1>2, <1>3, <1>4, <1>8, <1>9, <1>11, <2>1, <1>10
  <2> QED
    BY <2>2, <2>3, <2>4, <2>5, <2>6, <2>7, <2>8 DEF SessionInv
<1>12. CASE ~Bound
  <2>1.
    /\ id = sweptFile.since /\ ResumeAt = sweptFile.since /\ seed = NoFile /\ ~Pending
    /\ sweptFile.gen = Legacy
    BY <1>4, <1>6, <1>12
  <2>2. SessionTyped'
    BY <1>1, <1>2, <1>3, <1>4, <1>8, <1>9, <2>1 DEF SessionInv, SessionTyped
  <2>3. VolumeForm'
    BY <1>1, <1>2, <1>3, <1>4, <1>8, <1>9, <2>1 DEF SessionInv, SessionTyped
  <2>4. SeedForm'
    BY <1>1, <1>2, <1>3, <1>4, <1>8, <1>9, <2>1 DEF SessionInv, SessionTyped
  <2>5. StageForm'
    BY <1>1, <1>2, <1>3, <1>4, <1>8, <1>9, <2>1 DEF SessionInv, SessionTyped
  <2>6. ResumeForm'
    BY <1>1, <1>2, <1>3, <1>4, <1>8, <1>9, <2>1 DEF SessionInv, SessionTyped
  <2>7. BuildForm'
    BY <1>1, <1>2, <1>3, <1>4, <1>8, <1>9, <2>1 DEF SessionInv, SessionTyped
  <2>8. ServiceForm'
    BY <1>1, <1>2, <1>3, <1>4, <1>8, <1>9, <2>1 DEF SessionInv, SessionTyped
  <2> QED
    BY <2>2, <2>3, <2>4, <2>5, <2>6, <2>7, <2>8 DEF SessionInv
<1> QED
  BY <1>11, <1>12

\* After a sweep the index holds every change of the volume.
LEMMA SweepKeeps ==
  ASSUME SessionInv, Sweep, ~SameCursor
  PROVE  SessionInv'
<1>1.
  /\ service \in Services /\ wal \in Contents /\ Len(changedIn) \in Nat
    /\ committed \in Nat \ {0}
  /\ changedIn \in Seq(Nat)
  BY Fields DEF SessionInv
<1>2.
  /\ service.step = "prepared" \/ (service.step = "ready" /\ offline)
  /\ Published /\ wal' = [wal EXCEPT !.has = @ \cup Reconciled(service)]
  BY DEF Sweep
<1>3. PICK moved \in BOOLEAN, active \in BOOLEAN :
        service' = [service EXCEPT !.step = IF @ = "ready" THEN @ ELSE "replayed",
                                   !.moved = moved, !.since = Most(committed, service.since),
                                     !.gap = FALSE,
                                   !.active = active]
  BY DEF Sweep
<1>4. UNCHANGED <<volumeVars, base, seed, sweptFile, publication, staleMark, ingest>>
  BY DEF Sweep
<1>5.
  /\ offline /\ ~Pending /\ Covers(Held, service.since) /\ service.since \in 1 .. committed
  /\ service.step \in {"prepared", "ready"}
  BY <1>2 DEF SessionInv
<1>6.
  /\ service' \in Services
    /\ service'.step = (IF service.step = "ready" THEN "ready" ELSE "replayed")
  /\ service'.since = committed /\ service'.id = service.id
  /\ service'.before = service.before /\ service'.queue = service.queue
  /\ service'.hand = service.hand
  <2>1. Most(committed, service.since) = committed /\ committed \in Nat
    BY <1>1, <1>5
  <2>2. PICK x \in ServiceSteps : x = IF service.step = "ready" THEN "ready" ELSE "replayed"
    BY <1>1
  <2>3. service' = [service EXCEPT !.step = x, !.moved = moved, !.since = committed,
          !.gap = FALSE, !.active = active]
    BY <1>3, <2>1, <2>2
  <2>4. service \in Services
    BY <1>1
  <2>5.
    /\ service' \in Services /\ service'.step = x
    /\ service'.since = committed /\ service'.id = service.id
    /\ service'.before = service.before /\ service'.queue = service.queue
    /\ service'.hand = service.hand
    BY <2>1, <2>3, <2>4
  <2> QED
    BY <2>2, <2>5
<1>7. wal' \in Contents /\ wal'.gen = wal.gen /\ wal'.has = wal.has \cup Reconciled(service)
  BY <1>1, <1>2 DEF Reconciled
<1>8. 1 .. Len(changedIn) \subseteq base.has \cup wal'.has
  BY <1>1, <1>5, <1>7 DEF Reconciled
<1>9. wal.has \subseteq wal'.has
  BY <1>7
<1>10. SessionTyped'
  BY <1>1, <1>4, <1>5, <1>6, <1>7, <1>8, <1>9 DEF SessionInv, SessionTyped
<1>11. VolumeForm'
  BY <1>1, <1>4, <1>5, <1>6, <1>7, <1>8, <1>9 DEF SessionInv, SessionTyped
<1>12. SeedForm'
  BY <1>1, <1>4, <1>5, <1>6, <1>7, <1>8, <1>9 DEF SessionInv, SessionTyped
<1>13. StageForm'
  BY <1>1, <1>4, <1>5, <1>6, <1>7, <1>8, <1>9 DEF SessionInv, SessionTyped
<1>14. ResumeForm'
  BY <1>1, <1>4, <1>5, <1>6, <1>7, <1>8, <1>9 DEF SessionInv, SessionTyped
<1>15. BuildForm'
  BY <1>1, <1>4, <1>5, <1>6, <1>7, <1>8, <1>9 DEF SessionInv, SessionTyped
<1>16. ServiceForm
  BY DEF SessionInv
<1>17. ServiceForm'
  BY <1>1, <1>4, <1>5, <1>6, <1>7, <1>8, <1>9, <1>16
<1> QED
  BY <1>10, <1>11, <1>12, <1>13, <1>14, <1>15, <1>17 DEF SessionInv

\* The sweep's file takes the place the sweep reached.
LEMMA SaveSweptKeeps ==
  ASSUME SessionInv, SaveSwept, ~SameCursor
  PROVE  SessionInv'
<1>1.
  /\ service \in Services /\ ingest \in Ingests /\ Len(changedIn) \in Nat
  /\ committed \in Nat /\ wal \in Contents /\ base \in Contents /\ publication \in StagedBases
  /\ seed \in [gen : Nat, since : Nat]
  BY Fields DEF SessionInv
<1>2.
  /\ service' = [service EXCEPT !.step = IF @ = "ready" THEN @ ELSE "saved", !.moved = FALSE]
  /\ sweptFile' = [gen |-> service.id, since |-> service.since]
  BY DEF SaveSwept
<1>3. UNCHANGED <<volumeVars, base, wal, seed, publication, staleMark, ingest>>
  BY DEF SaveSwept
<1>4.
  /\ service.step \in {"replayed", "ready"}
  /\ service.step = "ready" => service.moved
  BY DEF SaveSwept
<1>5.
  /\ service' \in Services
  /\ service'.step = IF service.step = "ready" THEN "ready" ELSE "saved"
  /\ service'.before = service.before /\ service'.queue = service.queue
  /\ service'.hand = service.hand /\ service'.since = service.since
  /\ service'.id = service.id /\ service'.active = service.active
  /\ service'.gap = service.gap
  BY <1>1, <1>2
<1>6.
  /\ sweptFile' \in [gen : Int, since : Nat] /\ sweptFile'.gen = service.id
  /\ sweptFile'.since = service.since
  BY <1>1, <1>2
<1>7. SessionTyped'
  BY <1>3, <1>4, <1>5, <1>6 DEF SessionInv, SessionTyped
<1>8. VolumeForm'
  BY <1>3, <1>4, <1>5, <1>6 DEF SessionInv, SessionTyped
<1>9. SeedForm'
  BY <1>3, <1>4, <1>5, <1>6 DEF SessionInv, SessionTyped
<1>10. StageForm'
  BY <1>3, <1>4, <1>5, <1>6 DEF SessionInv, SessionTyped
<1>11. ResumeForm'
  BY <1>3, <1>4, <1>5, <1>6 DEF SessionInv, SessionTyped
<1>12. BuildForm'
  BY SMTT(60), <1>3, <1>4, <1>5, <1>6 DEF SessionInv, SessionTyped
<1>13. ServiceForm'
  BY <1>3, <1>4, <1>5, <1>6 DEF SessionInv, SessionTyped
<1> QED
  BY <1>7, <1>8, <1>9, <1>10, <1>11, <1>12, <1>13 DEF SessionInv

\* The service says it is ready.
LEMMA AnnounceKeeps ==
  ASSUME SessionInv, Announce, ~SameCursor
  PROVE  SessionInv'
<1>1.
  /\ service \in Services /\ ingest \in Ingests /\ Len(changedIn) \in Nat
  /\ committed \in Nat /\ wal \in Contents /\ base \in Contents /\ publication \in StagedBases
  /\ seed \in [gen : Nat, since : Nat]
  BY Fields DEF SessionInv
<1>2. service' = [service EXCEPT !.step = "ready"]
  BY DEF Announce
<1>3. UNCHANGED <<volumeVars, filesVars, ingest>>
  BY DEF Announce
<1>4.
  /\ offline => service.step = "saved"
  /\ ~offline => service.step = "open"
  BY DEF Announce
<1>5.
  /\ service' \in Services /\ service'.step = "ready" /\ service'.before = service.before
  /\ service'.queue = service.queue /\ service'.hand = service.hand
  /\ service'.since = service.since /\ service'.id = service.id
  /\ service'.active = service.active /\ service'.gap = service.gap
  /\ service'.moved = service.moved
  BY <1>1, <1>2
<1>6. SessionTyped'
  BY <1>3, <1>4, <1>5 DEF SessionInv, SessionTyped
<1>7. VolumeForm'
  BY <1>3, <1>4, <1>5 DEF SessionInv, SessionTyped
<1>8. SeedForm'
  BY <1>3, <1>4, <1>5 DEF SessionInv, SessionTyped
<1>9. StageForm'
  BY <1>3, <1>4, <1>5 DEF SessionInv, SessionTyped
<1>10. ResumeForm'
  BY <1>3, <1>4, <1>5 DEF SessionInv, SessionTyped
<1>11. BuildForm'
  BY <1>3, <1>4, <1>5 DEF SessionInv, SessionTyped
<1>12. ServiceForm'
  BY <1>3, <1>4, <1>5 DEF SessionInv, SessionTyped
<1> QED
  BY <1>6, <1>7, <1>8, <1>9, <1>10, <1>11, <1>12 DEF SessionInv

\* Events are taken from the queue.
LEMMA ReadEventsKeeps ==
  ASSUME SessionInv, ReadEvents, ~SameCursor
  PROVE  SessionInv'
<1>1.
  /\ service \in Services /\ ingest \in Ingests /\ Len(changedIn) \in Nat
  /\ committed \in Nat /\ wal \in Contents /\ base \in Contents /\ publication \in StagedBases
  /\ seed \in [gen : Nat, since : Nat]
  BY Fields DEF SessionInv
<1>2. service' = [service EXCEPT !.hand = service.queue, !.queue = {}]
  BY DEF ReadEvents
<1>3. UNCHANGED <<volumeVars, filesVars, ingest>>
  BY DEF ReadEvents
<1>4.
  /\ Storing /\ service.hand = {}
  BY DEF ReadEvents
<1>5.
  /\ service' \in Services /\ service'.step = service.step
  /\ service'.before = service.before /\ service'.queue = {}
  /\ service'.hand = service.queue /\ service'.since = service.since
  /\ service'.id = service.id /\ service'.active = service.active
  /\ service'.gap = service.gap /\ service'.moved = service.moved
  BY <1>1, <1>2
<1>6. SessionTyped'
  BY <1>3, <1>4, <1>5 DEF SessionInv, SessionTyped
<1>7. VolumeForm'
  BY <1>3, <1>4, <1>5 DEF SessionInv, SessionTyped
<1>8. SeedForm'
  BY <1>3, <1>4, <1>5 DEF SessionInv, SessionTyped
<1>9. StageForm'
  BY <1>3, <1>4, <1>5 DEF SessionInv, SessionTyped
<1>10. ResumeForm'
  BY <1>3, <1>4, <1>5 DEF SessionInv, SessionTyped
<1>11. BuildForm'
  BY <1>3, <1>4, <1>5 DEF SessionInv, SessionTyped
<1>12. ServiceForm'
  BY <1>3, <1>4, <1>5 DEF SessionInv, SessionTyped
<1> QED
  BY <1>6, <1>7, <1>8, <1>9, <1>10, <1>11, <1>12 DEF SessionInv

\* Events reach the log.
LEMMA CommitEventsKeeps ==
  ASSUME SessionInv, CommitEvents, ~SameCursor
  PROVE  SessionInv'
<1>1.
  /\ service \in Services /\ ingest \in Ingests /\ Len(changedIn) \in Nat
  /\ committed \in Nat /\ wal \in Contents /\ base \in Contents /\ publication \in StagedBases
  /\ seed \in [gen : Nat, since : Nat]
  BY Fields DEF SessionInv
<1>2. service' = [service EXCEPT !.hand = {}] /\ wal' = [wal EXCEPT !.has = @ \cup service.hand]
  BY DEF CommitEvents
<1>3. UNCHANGED <<volumeVars, base, seed, sweptFile, publication, staleMark, ingest>>
  BY DEF CommitEvents
<1>4.
  /\ Storing /\ Published
  BY DEF CommitEvents
<1>5.
  /\ service' \in Services /\ service'.step = service.step
  /\ service'.before = service.before /\ service'.queue = service.queue
  /\ service'.hand = {} /\ service'.since = service.since /\ service'.id = service.id
  /\ service'.active = service.active /\ service'.gap = service.gap
  /\ service'.moved = service.moved
  BY <1>1, <1>2
<1>6.
  /\ wal' \in Contents /\ wal'.gen = wal.gen /\ wal'.has = wal.has \cup service.hand
  BY <1>1, <1>2
<1>7. SessionTyped'
  BY <1>3, <1>4, <1>5, <1>6 DEF SessionInv, SessionTyped
<1>8. VolumeForm'
  BY <1>3, <1>4, <1>5, <1>6 DEF SessionInv, SessionTyped
<1>9. SeedForm'
  BY <1>3, <1>4, <1>5, <1>6 DEF SessionInv, SessionTyped
<1>10. StageForm'
  BY <1>3, <1>4, <1>5, <1>6 DEF SessionInv, SessionTyped
<1>11. ResumeForm'
  BY <1>3, <1>4, <1>5, <1>6 DEF SessionInv, SessionTyped
<1>12. BuildForm'
  BY <1>3, <1>4, <1>5, <1>6 DEF SessionInv, SessionTyped
<1>13. ServiceForm'
  BY <1>3, <1>4, <1>5, <1>6 DEF SessionInv, SessionTyped
<1> QED
  BY <1>7, <1>8, <1>9, <1>10, <1>11, <1>12, <1>13 DEF SessionInv

\* The index is marked stale.
LEMMA FailClosedKeeps ==
  ASSUME SessionInv, FailClosed, ~SameCursor
  PROVE  SessionInv'
<1>1. SessionTyped'
  BY ZenonT(60) DEF SessionInv, SessionTyped, FailClosed
<1>2. VolumeForm'
  BY DEF SessionInv, SessionTyped, FailClosed
<1>3. SeedForm'
  BY DEF SessionInv, SessionTyped, FailClosed
<1>4. StageForm'
  BY DEF SessionInv, SessionTyped, FailClosed
<1>5. ResumeForm'
  BY DEF SessionInv, SessionTyped, FailClosed
<1>6. BuildForm'
  BY DEF SessionInv, SessionTyped, FailClosed
<1>7. ServiceForm'
  BY DEF SessionInv, SessionTyped, FailClosed
<1> QED
  BY <1>1, <1>2, <1>3, <1>4, <1>5, <1>6, <1>7 DEF SessionInv

\* A compaction stages all that is held, without a seed of its own.
LEMMA CompactKeeps ==
  ASSUME SessionInv, Compact, ~SameCursor
  PROVE  SessionInv'
<1>1. SessionTyped'
  BY SMTT(60) DEF SessionInv, SessionTyped, Compact
<1>2. VolumeForm'
  BY DEF SessionInv, SessionTyped, Compact
<1>3. SeedForm'
  BY DEF SessionInv, SessionTyped, Compact
<1>4. StageForm'
  BY SMTT(60) DEF SessionInv, SessionTyped, Compact
<1>5. ResumeForm'
  BY DEF SessionInv, SessionTyped, Compact
<1>6. BuildForm'
  BY DEF SessionInv, SessionTyped, Compact
<1>7. ServiceForm'
  BY DEF SessionInv, SessionTyped, Compact
<1> QED
  BY <1>1, <1>2, <1>3, <1>4, <1>5, <1>6, <1>7 DEF SessionInv

\* A service that stops forgets what it had not saved.
LEMMA ServiceStopsKeeps ==
  ASSUME SessionInv, ServiceStops, ~SameCursor
  PROVE  SessionInv'
<1>1. SessionTyped'
  BY DEF SessionInv, SessionTyped, ServiceStops
<1>2. VolumeForm'
  BY DEF SessionInv, SessionTyped, ServiceStops
<1>3. SeedForm'
  BY DEF SessionInv, SessionTyped, ServiceStops
<1>4. StageForm'
  BY ZenonT(60) DEF SessionInv, SessionTyped, ServiceStops
<1>5. ResumeForm'
  BY DEF SessionInv, SessionTyped, ServiceStops
<1>6. BuildForm'
  BY DEF SessionInv, SessionTyped, ServiceStops
<1>7. ServiceForm'
  BY DEF SessionInv, SessionTyped, ServiceStops
<1> QED
  BY <1>1, <1>2, <1>3, <1>4, <1>5, <1>6, <1>7 DEF SessionInv
-----------------------------------------------------------------------------
HIDE DEF VolumeForm, SeedForm, StageForm, ResumeForm, BuildForm, ServiceForm, Covers, Resumes,
         Pending, Turned, Content, BuildRuns, ServiceSteps, Services, Ingests, StagedBases, Contents,
         NoFile, NoStage, Legacy, Down, NoIngest, Least, Most, FsChanges, Held, Up, Storing,
         Published, Bound, Origin, Origins, Publisher, volumeVars, filesVars, sessionVars

\* A step that changes nothing keeps the invariant.
LEMMA SessionStutter == ASSUME SessionInv, UNCHANGED sessionVars PROVE SessionInv'
<1>1. SessionTyped' /\ VolumeForm' /\ SeedForm'
  BY DEF SessionInv, sessionVars, SessionTyped, VolumeForm, SeedForm, FsChanges
<1>2. StageForm'
  BY DEF SessionInv, sessionVars, StageForm, Pending, Turned, Bound, Held
<1>3. ResumeForm'
  BY DEF SessionInv, sessionVars, ResumeForm, Pending, Turned, Held, Resumes, Covers, FsChanges
<1>4. BuildForm'
  BY DEF SessionInv, sessionVars, BuildForm, BuildRuns, FsChanges, Up, Origins, Origin,
         Published, Pending
<1>5. ServiceForm'
  BY DEF SessionInv, sessionVars, ServiceForm, Storing, Pending, Turned, Up, Content, Held,
         Covers, FsChanges
<1> QED
  BY <1>1, <1>2, <1>3, <1>4, <1>5 DEF SessionInv

\* Every step of the system keeps the invariant.
LEMMA SessionStep ==
  ASSUME SessionInv, [SessionNext]_sessionVars, ~SameCursor
  PROVE  SessionInv'
<1>1. CASE FsChange \/ FsCommit
  BY FsChangeKeeps, FsCommitKeeps, <1>1
<1>2. CASE Publishes
  BY DropPublicationKeeps, ReplaceWalKeeps, ReplaceBaseKeeps, ReplaceSeedKeeps,
     EndPublicationKeeps, <1>2
     DEF Publishes
<1>3. CASE Builds
  BY StartIngestKeeps, ScanRecordsKeeps, StageIngestKeeps, IngestStopsKeeps, <1>3
     DEF Builds
<1>4. CASE Serves
  BY AttachKeeps, OpenStoreKeeps, PrepareFoldKeeps, SweepKeeps, SaveSweptKeeps,
     AnnounceKeeps, ReadEventsKeeps, CommitEventsKeeps, FailClosedKeeps, CompactKeeps,
     ServiceStopsKeeps, <1>4
     DEF Serves
<1>5. CASE UNCHANGED sessionVars
  BY <1>5, SessionStutter
<1> QED
  BY <1>1, <1>2, <1>3, <1>4, <1>5 DEF SessionNext

\* The state of a volume's watch always has the form above.
THEOREM SessionInvariant == ASSUME ~SameCursor PROVE SessionSpec => []SessionInv
<1>1. SessionInit => SessionInv
  BY InitInv
<1>2. SessionInv /\ [SessionNext]_sessionVars => SessionInv'
  BY SessionStep
<1> QED
  BY <1>1, <1>2, PTL DEF SessionSpec

\* No change of a volume with history is skipped by the next start of its
\* service or by a running one, and readiness means what it says (prepare,
\* restore, reconcile, announce_readiness): for every volume, as long as no
\* build beside the service starts in the transaction of a seed in use.
THEOREM NoChangeSkippedHolds == ASSUME ~SameCursor PROVE SessionSpec => []NoChangeSkipped
<1>1. SessionInv => NoChangeSkipped
  BY InvMeans
<1> QED
  BY <1>1, SessionInvariant, PTL
-----------------------------------------------------------------------------
(***************************************************************************)
(* The metadata sweep beside the live watch.  The argument: the index is   *)
(* wrong only about what changed at or after the cursor (WrongIsNew).      *)
(* While an attempt is in flight, what changed in the transactions it      *)
(* covers is Old: plan and live changes are right about that (PlanForm,    *)
(* NewerForm), and where the index is still wrong about it, the plan has   *)
(* it or is made again (CoverForm).  What has changed since is of a later  *)
(* transaction, which the cursor does not pass.  It needs that nothing     *)
(* resolved before the attempt is logged during it (~ResolveAhead): such a *)
(* change would pass for newer than the plan.                              *)
(***************************************************************************)
\* The paths a change is about, and what it says of them.
Affected(c) == IF c.kind = "prefix" THEN AtOrBelow(c.path) ELSE {c.path}
Means(c) == IF c.kind = "upsert" THEN c.record ELSE Nothing

\* Last changed in a transaction that the attempt in flight covers.
Old(p) == stamp[p] <= sweep.committed

\* The types.
SweepTyped ==
  /\ files \in Indexes /\ live \in Indexes /\ stamp \in [Paths -> Nat] /\ tx \in Nat
  /\ events \subseteq SweptPaths /\ resolved \in Seq(Changes) /\ newer \subseteq Changes
  /\ sweep \in [step : {"idle", "plan", "commit"}, committed : Nat, active : BOOLEAN,
                prefixes : SUBSET Paths, leaves : SUBSET Changes, retry : BOOLEAN]
  /\ cursor \in [since : Nat, active : BOOLEAN, saved : Nat]

\* What is there has its folders above it.
FilesForm == \A p \in Paths : files[p] # Nothing => \A q \in Above[p] : files[q] # Nothing

\* The cursors name committed transactions, and no change is of a later one than
\* the open one.
ClockForm ==
  /\ cursor.saved <= cursor.since /\ cursor.since < tx
  /\ \A p \in Paths : stamp[p] <= tx

\* The index is wrong only about what changed at or after the cursor.
WrongIsNew == \A p \in Paths : live[p] # files[p] => stamp[p] >= cursor.since

\* What waits to be logged while no sweep is in flight is right or will be looked at.
ResolvedForm ==
  /\ resolved # <<>> => sweep = Idle
  /\ \A i \in 1 .. Len(resolved) : \A p \in Affected(resolved[i]) :
       Means(resolved[i]) = files[p] \/ stamp[p] >= cursor.since

\* An attempt covers a committed transaction that is not before the cursor.
AttemptForm ==
  sweep # Idle => sweep.step # "idle" /\ cursor.since <= sweep.committed /\ sweep.committed < tx

\* What the watch logged since the place in the log is right of everything old.
NewerForm ==
  sweep # Idle => \A c \in newer : \A p \in Affected(c) : Old(p) => live[p] = files[p]

\* And so is the plan.
PlanForm ==
  sweep.step = "commit" =>
    /\ \A l \in sweep.leaves : l.kind # "prefix" /\ (Old(l.path) => Means(l) = files[l.path])
    /\ \A root \in sweep.prefixes : \A p \in AtOrBelow(root) : Old(p) => files[p] = Nothing

\* Where the index is wrong of something old, the plan says so or is made again.
CoverForm ==
  sweep.step = "commit" =>
    \A p \in Paths : Old(p) /\ live[p] # files[p] =>
      \/ sweep.retry
      \/ \E l \in sweep.leaves : l.path = p
      \/ \E root \in sweep.prefixes : p \in AtOrBelow(root)

SweepInv ==
  /\ SweepTyped /\ FilesForm /\ ClockForm /\ WrongIsNew /\ ResolvedForm /\ AttemptForm
  /\ NewerForm /\ PlanForm /\ CoverForm
-----------------------------------------------------------------------------
(* One change.                                                              *)

\* What a change does to an index.
LEMMA EffectAt ==
  ASSUME NEW i \in Indexes, NEW c \in Changes
  PROVE  /\ Effect(i, c) \in Indexes
         /\ \A p \in Paths : Effect(i, c)[p] = IF p \in Affected(c) THEN Means(c) ELSE i[p]
<1>1. c \in [kind : {"upsert"}, path : Paths, record : Records]
         \/ c \in [kind : {"remove", "prefix"}, path : Paths]
  BY DEF Changes
<1>2. CASE c \in [kind : {"upsert"}, path : Paths, record : Records]
  BY <1>2 DEF Effect, Indexes, Affected, Means
<1>3. CASE c \in [kind : {"remove", "prefix"}, path : Paths]
  BY <1>3 DEF Effect, Indexes, Affected, Means
<1> QED BY <1>1, <1>2, <1>3

\* The paths a change is about are paths.
LEMMA AffectedPaths ==
  ASSUME NEW c \in Changes
  PROVE  c.path \in Paths /\ Affected(c) \subseteq Paths
<1>1. c.path \in Paths BY DEF Changes
<1> QED BY <1>1 DEF Affected, AtOrBelow

\* What is observed of a path is true of everything it is about.
LEMMA ObservedTrue ==
  ASSUME SweepTyped, FilesForm, NEW p \in Paths
  PROVE  /\ Observed(p) \in Changes /\ Observed(p).path = p
         /\ \A q \in Affected(Observed(p)) : Means(Observed(p)) = files[q]
<1>1. CASE files[p] # Nothing
  BY <1>1 DEF Observed, Changes, Affected, Means, SweepTyped, Indexes
<1>2. CASE files[p] = Nothing
  <2>1. \A q \in AtOrBelow(p) : files[q] = Nothing
    BY <1>2 DEF FilesForm, AtOrBelow, Ancestors
  <2>2. CASE HasBelow(p)
    BY <1>2, <2>1, <2>2 DEF Observed, Changes, Affected, Means
  <2>3. CASE ~HasBelow(p)
    BY <1>2, <2>3 DEF Observed, Changes, Affected, Means
  <2> QED BY <2>2, <2>3
<1> QED BY <1>1, <1>2

\* An attempt that is not idle is at a step.
LEMMA IdleStep ==
  ASSUME SweepInv PROVE sweep.step # "idle" <=> sweep # Idle
BY DEF SweepInv, AttemptForm, Idle
-----------------------------------------------------------------------------
(* The beginning.                                                           *)
LEMMA SweepBegins ==
  ASSUME SweepInit PROVE SweepInv
<1> USE DEF SweepInit
<1>1. SweepTyped
  <2>1. files \in Indexes /\ live \in Indexes BY DEF Indexes
  <2>2. Idle \in [step : {"idle", "plan", "commit"}, committed : Nat, active : BOOLEAN,
                  prefixes : SUBSET Paths, leaves : SUBSET Changes, retry : BOOLEAN]
    BY DEF Idle
  <2> QED BY <2>1, <2>2 DEF SweepTyped
<1>2. FilesForm /\ ClockForm /\ WrongIsNew BY DEF FilesForm, ClockForm, WrongIsNew
<1>3. ResolvedForm
  <2>1. Len(resolved) = 0 OBVIOUS
  <2> QED BY <2>1 DEF ResolvedForm
<1>4. AttemptForm /\ NewerForm /\ PlanForm /\ CoverForm
  BY DEF AttemptForm, NewerForm, PlanForm, CoverForm, Idle
<1> QED BY <1>1, <1>2, <1>3, <1>4 DEF SweepInv
-----------------------------------------------------------------------------
(* The file system.                                                         *)

\* What is edited is changed in the open transaction: the attempt does not
\* cover it, the cursor does not pass it.
LEMMA EditsKeeps ==
  ASSUME SweepInv, NEW p \in SweptPaths, NEW r \in SweptRecords \cup {Nothing}, Edits(p, r)
  PROVE  SweepInv'
<1> DEFINE gone == IF r = Nothing THEN AtOrBelow(p) ELSE {p}
<1>1. p \in Paths /\ r \in Records \cup {Nothing} BY SweptAssumption
<1>2. /\ gone \subseteq Paths
      /\ files' = [q \in Paths |-> IF q \in gone THEN r ELSE files[q]]
      /\ stamp' = [q \in Paths |-> IF q \in gone THEN tx ELSE stamp[q]]
      /\ \A q \in Above[p] : files[q] # Nothing
  BY <1>1 DEF Edits, Stamped, AtOrBelow
<1>3. UNCHANGED <<tx, resolved, live, newer, lost, sweep, cursor>> BY DEF Edits
<1>4. \A q \in Paths : \/ q \in gone /\ stamp'[q] = tx
                       \/ q \notin gone /\ files'[q] = files[q] /\ stamp'[q] = stamp[q]
  BY <1>2
<1>5. SweepTyped'
  <2>1. events' \subseteq SweptPaths BY DEF Edits, Heard, SweepInv, SweepTyped
  <2>2. files' \in Indexes BY <1>1, <1>2 DEF Indexes, SweepInv, SweepTyped
  <2>3. stamp' \in [Paths -> Nat] BY <1>2 DEF SweepInv, SweepTyped
  <2> QED BY <2>1, <2>2, <2>3, <1>3 DEF SweepInv, SweepTyped
<1>6. FilesForm'
  <2> SUFFICES ASSUME NEW q \in Paths, files'[q] # Nothing, NEW s \in Above[q]
               PROVE  files'[s] # Nothing
    BY DEF FilesForm
  <2>1. s \in Paths BY PathsAssumption DEF PathsAreATree
  <2>2. CASE r = Nothing
    <3>1. q \notin AtOrBelow(p) /\ files[q] # Nothing BY <1>2, <2>2
    <3>2. s \notin AtOrBelow(p)
      BY <3>1, <2>1, PathsAssumption DEF AtOrBelow, Ancestors, PathsAreATree
    <3>3. files[s] # Nothing BY <3>1 DEF SweepInv, FilesForm
    <3> QED BY <3>2, <3>3, <1>2, <2>1, <2>2
  <2>3. CASE r # Nothing
    <3>1. files[s] # Nothing \/ s = p
      BY <1>2, <2>3 DEF SweepInv, FilesForm
    <3> QED BY <3>1, <1>2, <2>1, <2>3
  <2> QED BY <2>2, <2>3
<1> HIDE DEF gone
<1>7. tx \in Nat /\ cursor.since \in Nat /\ sweep.committed \in Nat /\ cursor.since < tx
  BY DEF SweepInv, SweepTyped, ClockForm
<1>8. ClockForm' BY <1>3, <1>4, <1>7 DEF SweepInv, ClockForm
<1>9. WrongIsNew' BY <1>3, <1>4, <1>7 DEF SweepInv, WrongIsNew
<1>10. ResolvedForm'
  <2> SUFFICES ASSUME NEW i \in 1 .. Len(resolved), NEW q \in Affected(resolved[i])
               PROVE  Means(resolved[i]) = files'[q] \/ stamp'[q] >= cursor.since
    BY <1>3 DEF SweepInv, ResolvedForm
  <2>1. resolved[i] \in Changes BY DEF SweepInv, SweepTyped
  <2>2. q \in Paths BY <2>1, AffectedPaths
  <2>3. Means(resolved[i]) = files[q] \/ stamp[q] >= cursor.since BY DEF SweepInv, ResolvedForm
  <2> QED BY <2>2, <2>3, <1>4, <1>7
<1>11. AttemptForm' BY <1>3 DEF SweepInv, AttemptForm
<1>12. \A q \in Paths : sweep # Idle /\ Old(q)' => Old(q) /\ files'[q] = files[q]
  BY <1>3, <1>4, <1>7 DEF SweepInv, AttemptForm, Old
<1>13. NewerForm'
  <2> SUFFICES ASSUME sweep # Idle, NEW c \in newer, NEW q \in Affected(c), Old(q)'
               PROVE  live[q] = files'[q]
    BY <1>3 DEF NewerForm
  <2>1. q \in Paths BY AffectedPaths DEF SweepInv, SweepTyped
  <2> QED BY <2>1, <1>12 DEF SweepInv, NewerForm
<1>14. PlanForm'
  <2> SUFFICES ASSUME sweep.step = "commit"
               PROVE  /\ \A l \in sweep.leaves :
                           l.kind # "prefix" /\ (Old(l.path)' => Means(l) = files'[l.path])
                      /\ \A root \in sweep.prefixes : \A q \in AtOrBelow(root) :
                           Old(q)' => files'[q] = Nothing
    BY <1>3 DEF PlanForm
  <2>1. sweep # Idle BY IdleStep
  <2>2. \A l \in sweep.leaves : l.path \in Paths BY AffectedPaths DEF SweepInv, SweepTyped
  <2>3. \A root : AtOrBelow(root) \subseteq Paths BY DEF AtOrBelow
  <2> QED BY <2>1, <2>2, <2>3, <1>12 DEF SweepInv, PlanForm
<1>15. CoverForm'
  <2> SUFFICES ASSUME sweep.step = "commit", NEW q \in Paths, Old(q)', live[q] # files'[q]
               PROVE  \/ sweep.retry
                      \/ \E l \in sweep.leaves : l.path = q
                      \/ \E root \in sweep.prefixes : q \in AtOrBelow(root)
    BY <1>3 DEF CoverForm
  <2>1. sweep # Idle BY IdleStep
  <2> QED BY <2>1, <1>12 DEF SweepInv, CoverForm
<1> QED BY <1>5, <1>6, <1>8, <1>9, <1>10, <1>11, <1>13, <1>14, <1>15 DEF SweepInv

\* A transaction is committed.
LEMMA TransactionKeeps ==
  ASSUME SweepInv, CommitsTransaction PROVE SweepInv'
<1> USE DEF CommitsTransaction
<1>1. tx \in Nat /\ tx' \in Nat /\ tx < tx' /\ UNCHANGED <<files, stamp, events, resolved, live, newer, sweep, cursor>>
  BY DEF SweepInv, SweepTyped
<1> HIDE DEF CommitsTransaction
<1>2. SweepTyped' /\ FilesForm' /\ WrongIsNew' BY <1>1 DEF SweepInv, SweepTyped, FilesForm, WrongIsNew
<1>3. ClockForm'
  <2>1. cursor.since \in Nat /\ \A p \in Paths : stamp[p] \in Nat BY DEF SweepInv, SweepTyped
  <2> QED BY <1>1, <2>1 DEF SweepInv, ClockForm
<1>4. AttemptForm'
  <2>1. sweep.committed \in Nat BY DEF SweepInv, SweepTyped
  <2> QED BY <1>1, <2>1 DEF SweepInv, AttemptForm
<1>5. ResolvedForm' /\ NewerForm' /\ PlanForm' /\ CoverForm'
  BY <1>1 DEF SweepInv, ResolvedForm, NewerForm, PlanForm, CoverForm, Old
<1> QED BY <1>2, <1>3, <1>4, <1>5 DEF SweepInv

\* Nothing that the invariant speaks of changes.
LEMMA CalmSweepStep ==
  ASSUME SweepInv, UNCHANGED <<files, stamp, tx, events, resolved, live, newer, sweep, cursor>>
  PROVE  SweepInv'
<1>1. SweepTyped' /\ FilesForm' /\ WrongIsNew' /\ ClockForm'
  BY DEF SweepInv, SweepTyped, FilesForm, WrongIsNew, ClockForm
<1>2. AttemptForm' /\ ResolvedForm' /\ NewerForm' /\ PlanForm' /\ CoverForm'
  BY DEF SweepInv, AttemptForm, ResolvedForm, NewerForm, PlanForm, CoverForm, Old
<1> QED BY <1>1, <1>2 DEF SweepInv
-----------------------------------------------------------------------------
(* The watch.                                                               *)

\* What is resolved is true at that moment; no sweep is in flight.
LEMMA ResolvesKeeps ==
  ASSUME SweepInv, ~ResolveAhead, NEW p \in SweptPaths, Resolves(p)
  PROVE  SweepInv'
<1> USE DEF Resolves
<1>1. p \in Paths /\ sweep = Idle BY SweptAssumption
<1>2. /\ Observed(p) \in Changes
      /\ \A q \in Affected(Observed(p)) : Means(Observed(p)) = files[q]
  BY <1>1, ObservedTrue DEF SweepInv
<1>3. /\ resolved \in Seq(Changes) /\ resolved' = Append(resolved, Observed(p))
      /\ UNCHANGED <<files, stamp, tx, live, newer, sweep, cursor>> /\ events' \subseteq SweptPaths
  BY DEF SweepInv, SweepTyped
<1> HIDE DEF Resolves
<1>4. SweepTyped' BY <1>2, <1>3 DEF SweepInv, SweepTyped
<1>5. FilesForm' /\ WrongIsNew' /\ ClockForm' BY <1>3 DEF SweepInv, FilesForm, WrongIsNew, ClockForm
<1>6. ResolvedForm'
  <2> SUFFICES ASSUME NEW i \in 1 .. Len(resolved'), NEW q \in Affected(resolved'[i])
               PROVE  Means(resolved'[i]) = files[q] \/ stamp[q] >= cursor.since
    BY <1>1, <1>3 DEF ResolvedForm
  <2>1. \/ i \in 1 .. Len(resolved) /\ resolved'[i] = resolved[i]
        \/ resolved'[i] = Observed(p)
    BY <1>2, <1>3
  <2> QED BY <2>1, <1>2 DEF SweepInv, ResolvedForm
<1>7. AttemptForm' /\ NewerForm' /\ PlanForm' /\ CoverForm'
  BY <1>3 DEF SweepInv, AttemptForm, NewerForm, PlanForm, CoverForm, Old
<1> QED BY <1>4, <1>5, <1>6, <1>7 DEF SweepInv

\* What was resolved is logged while no sweep is in flight.
LEMMA LogsResolvedKeeps ==
  ASSUME SweepInv, LogsResolved PROVE SweepInv'
<1> DEFINE c == Head(resolved)
<1>1. /\ resolved \in Seq(Changes) /\ resolved # <<>> /\ resolved' = Tail(resolved)
      /\ sweep = Idle /\ live' = Effect(live, c)
      /\ UNCHANGED <<files, stamp, tx, newer, sweep, cursor, events>>
  BY DEF LogsResolved, Logs, SweepInv, SweepTyped, ResolvedForm
<1>2. c \in Changes /\ Len(resolved) >= 1 /\ c = resolved[1] BY <1>1
<1>3. \A q \in Affected(c) : Means(c) = files[q] \/ stamp[q] >= cursor.since
  BY <1>2, <1>1 DEF SweepInv, ResolvedForm
<1> HIDE DEF c
<1>4. live' \in Indexes /\ \A q \in Paths : live'[q] = IF q \in Affected(c) THEN Means(c) ELSE live[q]
  BY <1>1, <1>2, EffectAt DEF SweepInv, SweepTyped
<1>5. SweepTyped' BY <1>1, <1>4 DEF SweepInv, SweepTyped
<1>6. FilesForm' /\ ClockForm' BY <1>1 DEF SweepInv, FilesForm, ClockForm
<1>7. WrongIsNew' BY <1>1, <1>3, <1>4 DEF SweepInv, WrongIsNew
<1>8. ResolvedForm'
  <2> SUFFICES ASSUME NEW i \in 1 .. Len(resolved'), NEW q \in Affected(resolved'[i])
               PROVE  Means(resolved'[i]) = files[q] \/ stamp[q] >= cursor.since
    BY <1>1 DEF ResolvedForm
  <2>1. i + 1 \in 1 .. Len(resolved) /\ resolved'[i] = resolved[i + 1] BY <1>1
  <2> QED BY <2>1 DEF SweepInv, ResolvedForm
<1>9. AttemptForm' /\ NewerForm' /\ PlanForm' /\ CoverForm'
  BY <1>1 DEF AttemptForm, NewerForm, PlanForm, CoverForm, Idle
<1> QED BY <1>5, <1>6, <1>7, <1>8, <1>9 DEF SweepInv

\* An event that is handled during a sweep is resolved and logged in one turn: right
\* of everything it is about.
LEMMA LogsEventKeeps ==
  ASSUME SweepInv, NEW p \in SweptPaths, LogsEvent(p) PROVE SweepInv'
<1> DEFINE c == Observed(p)
<1>1. p \in Paths BY SweptAssumption
<1>2. c \in Changes /\ \A q \in Affected(c) : Means(c) = files[q]
  BY <1>1, ObservedTrue DEF SweepInv
<1>3. /\ sweep # Idle /\ live' = Effect(live, c) /\ newer' = newer \cup {c}
      /\ events' \subseteq SweptPaths
      /\ UNCHANGED <<files, stamp, tx, sweep, cursor, resolved>>
  BY DEF LogsEvent, Logs, SweepInv, SweepTyped
<1> HIDE DEF c
<1>4. live' \in Indexes /\ \A q \in Paths : live'[q] = IF q \in Affected(c) THEN files[q] ELSE live[q]
  BY <1>2, <1>3, EffectAt DEF SweepInv, SweepTyped
<1>5. SweepTyped' BY <1>2, <1>3, <1>4 DEF SweepInv, SweepTyped
<1>6. FilesForm' /\ ClockForm' /\ AttemptForm' BY <1>3 DEF SweepInv, FilesForm, ClockForm, AttemptForm
<1>7. WrongIsNew' BY <1>3, <1>4 DEF SweepInv, WrongIsNew
<1>8. ResolvedForm' BY <1>3 DEF SweepInv, ResolvedForm
<1>9. NewerForm'
  <2> SUFFICES ASSUME NEW d \in newer', NEW q \in Affected(d), Old(q)
               PROVE  live'[q] = files[q]
    BY <1>3 DEF NewerForm, Old
  <2>1. d \in Changes BY <1>2, <1>3 DEF SweepInv, SweepTyped
  <2>2. q \in Paths BY <2>1, AffectedPaths
  <2> QED BY <2>2, <1>3, <1>4 DEF SweepInv, NewerForm
<1>10. PlanForm' BY <1>3 DEF SweepInv, PlanForm, Old
<1>11. CoverForm' BY <1>3, <1>4 DEF SweepInv, CoverForm, Old
<1> QED BY <1>5, <1>6, <1>7, <1>8, <1>9, <1>10, <1>11 DEF SweepInv
-----------------------------------------------------------------------------
(* The sweep.                                                               *)

\* An attempt begins with nothing resolved and nothing newer.
LEMMA StartsKeeps ==
  ASSUME SweepInv, ~ResolveAhead, StartsAttempt PROVE SweepInv'
<1>1. tx \in Nat /\ cursor.since \in Nat /\ cursor.since < tx BY DEF SweepInv, SweepTyped, ClockForm
<1> DEFINE before == tx - 1
<1>2. before \in Nat /\ cursor.since <= before /\ before < tx BY <1>1
<1> HIDE DEF before
<1>3. /\ resolved = <<>> /\ newer' = {}
      /\ UNCHANGED <<files, stamp, tx, events, resolved, live, cursor>>
      /\ sweep' = [step |-> "plan", committed |-> before, active |-> FALSE, prefixes |-> {},
                   leaves |-> {}, retry |-> FALSE]
  BY DEF StartsAttempt, Idle, before
<1>4. SweepTyped' BY <1>2, <1>3 DEF SweepInv, SweepTyped
<1>5. FilesForm' /\ ClockForm' /\ WrongIsNew' BY <1>3 DEF SweepInv, FilesForm, ClockForm, WrongIsNew
<1>6. ResolvedForm' BY <1>3 DEF SweepInv, ResolvedForm
<1>7. AttemptForm' /\ NewerForm' /\ PlanForm' /\ CoverForm'
  BY <1>2, <1>3 DEF AttemptForm, NewerForm, PlanForm, CoverForm
<1> QED BY <1>4, <1>5, <1>6, <1>7 DEF SweepInv

\* What is wrong is changed since the cursor, so the plan is about it, and the plan
\* is what is seen.
LEMMA PlansKeeps ==
  ASSUME SweepInv, PlansSweep PROVE SweepInv'
<1> DEFINE late == \E p \in Changed : stamp[p] > sweep.committed
<1>1. /\ sweep.step = "plan" /\ sweep # Idle
      /\ UNCHANGED <<files, stamp, tx, events, resolved, live, newer, cursor>>
  BY IdleStep DEF PlansSweep
<1>2. late \in BOOLEAN OBVIOUS
<1>3. sweep' = [sweep EXCEPT !.step = "commit", !.leaves = Leaves, !.prefixes = GoneFolders, !.active = late]
  BY DEF PlansSweep
<1> HIDE DEF late
<1>4. GoneFolders \subseteq Paths /\ Differs \subseteq Paths
  BY DEF GoneFolders, Differs, Changed
<1>5. Leaves \subseteq Changes
  BY <1>4, ObservedTrue DEF Leaves, SweepInv
<1>6. /\ sweep'.step = "commit" /\ sweep'.leaves = Leaves /\ sweep'.prefixes = GoneFolders
      /\ sweep'.committed = sweep.committed
      /\ sweep' \in [step : {"idle", "plan", "commit"}, committed : Nat, active : BOOLEAN,
                     prefixes : SUBSET Paths, leaves : SUBSET Changes, retry : BOOLEAN]
  BY <1>2, <1>3, <1>4, <1>5 DEF SweepInv, SweepTyped
<1>7. SweepTyped' BY <1>1, <1>6 DEF SweepInv, SweepTyped
<1>8. FilesForm' /\ ClockForm' /\ WrongIsNew' BY <1>1 DEF SweepInv, FilesForm, ClockForm, WrongIsNew
<1>9. ResolvedForm' BY <1>1 DEF SweepInv, ResolvedForm
<1>10. AttemptForm' BY <1>1, <1>6 DEF SweepInv, AttemptForm
<1>11. NewerForm' BY <1>1, <1>6 DEF SweepInv, NewerForm, Old
<1>12. PlanForm'
  <2>1. ASSUME NEW l \in Leaves PROVE l.kind # "prefix" /\ Means(l) = files[l.path]
    <3>1. PICK p \in Differs : Ancestors(p) \cap GoneFolders = {} /\ l = Observed(p)
      BY DEF Leaves
    <3>2. p \in Paths /\ p \notin GoneFolders BY <3>1, <1>4 DEF Ancestors
    <3>3. l.kind # "prefix" BY <3>1, <3>2 DEF Observed, GoneFolders
    <3>4. l.path = p /\ \A q \in Affected(l) : Means(l) = files[q]
      BY <3>1, <3>2, ObservedTrue DEF SweepInv
    <3> QED BY <3>3, <3>4 DEF Affected
  <2>2. ASSUME NEW root \in GoneFolders, NEW p \in AtOrBelow(root) PROVE files[p] = Nothing
    BY DEF GoneFolders, AtOrBelow, Ancestors, SweepInv, FilesForm
  <2> QED BY <1>1, <1>6, <2>1, <2>2 DEF PlanForm
<1>13. CoverForm'
  <2> SUFFICES ASSUME NEW p \in Paths, live[p] # files[p]
               PROVE  (\E l \in Leaves : l.path = p) \/ \E root \in GoneFolders : p \in AtOrBelow(root)
    BY <1>1, <1>6 DEF CoverForm
  <2>1. p \in Differs BY DEF Differs, Changed, SweepInv, WrongIsNew
  <2>2. CASE Ancestors(p) \cap GoneFolders = {}
    <3>1. Observed(p) \in Leaves BY <2>1, <2>2 DEF Leaves
    <3>2. Observed(p).path = p BY ObservedTrue DEF SweepInv
    <3> QED BY <3>1, <3>2
  <2>3. CASE Ancestors(p) \cap GoneFolders # {} BY <2>3 DEF AtOrBelow
  <2> QED BY <2>2, <2>3
<1> QED BY <1>7, <1>8, <1>9, <1>10, <1>11, <1>12, <1>13 DEF SweepInv

\* The cursor moves to a transaction when all that the index is wrong about is later.
LEMMA SettlesKeeps ==
  ASSUME SweepInv, NEW until, NEW stays \in BOOLEAN, Settles(Later(until), stays), sweep # Idle,
         until \in Nat, until < tx,
         \A p \in Paths : live[p] # files[p] => stamp[p] >= until
  PROVE  SweepInv'
<1> DEFINE later == Later(until)
           kept == IF later # cursor.since THEN later ELSE cursor.saved
<1>1. cursor.since \in Nat /\ cursor.saved \in Nat /\ cursor.saved <= cursor.since /\ cursor.since < tx
  BY DEF SweepInv, SweepTyped, ClockForm
<1>2. /\ later \in Nat /\ later < tx /\ kept \in Nat /\ kept <= later
      /\ \A p \in Paths : live[p] # files[p] => stamp[p] >= later
  BY <1>1 DEF Later, SweepInv, WrongIsNew
<1>3. /\ sweep' = Idle /\ resolved = <<>>
      /\ UNCHANGED <<files, stamp, tx, events, resolved, live, newer>>
      /\ cursor' = [since |-> later, active |-> stays, saved |-> kept]
  BY DEF Settles, SweepInv, ResolvedForm
<1> HIDE DEF later, kept
<1>4. SweepTyped'
  <2>1. sweep' \in [step : {"idle", "plan", "commit"}, committed : Nat, active : BOOLEAN,
                    prefixes : SUBSET Paths, leaves : SUBSET Changes, retry : BOOLEAN]
    BY <1>3 DEF Idle
  <2>2. cursor' \in [since : Nat, active : BOOLEAN, saved : Nat] BY <1>2, <1>3
  <2> QED BY <2>1, <2>2, <1>3 DEF SweepInv, SweepTyped
<1>5. FilesForm' BY <1>3 DEF SweepInv, FilesForm
<1>6. ClockForm' /\ WrongIsNew' BY <1>2, <1>3 DEF SweepInv, ClockForm, WrongIsNew
<1>7. ResolvedForm' BY <1>3 DEF ResolvedForm
<1>8. AttemptForm' /\ NewerForm' /\ PlanForm' /\ CoverForm'
  BY <1>3 DEF AttemptForm, NewerForm, PlanForm, CoverForm, Idle
<1> QED BY <1>4, <1>5, <1>6, <1>7, <1>8 DEF SweepInv

\* Nothing changed since the cursor: the index is right.
LEMMA FindsNothingKeeps ==
  ASSUME SweepInv, FindsNothing PROVE SweepInv'
<1>1. sweep # Idle BY IdleStep DEF FindsNothing
<1>2. sweep.committed \in Nat /\ sweep.committed < tx BY <1>1 DEF SweepInv, SweepTyped, AttemptForm
<1>3. \A p \in Paths : live[p] = files[p]
  BY DEF FindsNothing, Changed, SweepInv, WrongIsNew
<1> QED BY <1>1, <1>2, <1>3, SettlesKeeps DEF FindsNothing

\* The plan is done and no removal was dropped: what is wrong is later.
LEMMA AdvancesKeeps ==
  ASSUME SweepInv, Advances PROVE SweepInv'
<1>1. sweep # Idle BY IdleStep DEF Advances
<1>2. sweep.committed \in Nat /\ sweep.committed < tx /\ sweep.active \in BOOLEAN
  BY <1>1 DEF SweepInv, SweepTyped, AttemptForm
<1>3. \A p \in Paths : stamp[p] \in Nat BY DEF SweepInv, SweepTyped
<1>4. \A p \in Paths : live[p] # files[p] => stamp[p] >= sweep.committed
  BY <1>2, <1>3 DEF Advances, Unfinished, SweepInv, CoverForm, Old
<1> QED BY <1>1, <1>2, <1>4, SettlesKeeps DEF Advances

\* The attempt is given up.
LEMMA ReplansKeeps ==
  ASSUME SweepInv, Replans PROVE SweepInv'
<1>1. sweep # Idle BY IdleStep DEF Replans
<1>2. /\ sweep' = Idle /\ resolved = <<>>
      /\ UNCHANGED <<files, stamp, tx, events, resolved, live, newer, cursor>>
  BY <1>1 DEF Replans, SweepInv, ResolvedForm
<1>3. SweepTyped'
  <2>1. sweep' \in [step : {"idle", "plan", "commit"}, committed : Nat, active : BOOLEAN,
                    prefixes : SUBSET Paths, leaves : SUBSET Changes, retry : BOOLEAN]
    BY <1>2 DEF Idle
  <2> QED BY <2>1, <1>2 DEF SweepInv, SweepTyped
<1>4. FilesForm' /\ ClockForm' /\ WrongIsNew' /\ ResolvedForm'
  BY <1>2 DEF SweepInv, FilesForm, ClockForm, WrongIsNew, ResolvedForm
<1>5. AttemptForm' /\ NewerForm' /\ PlanForm' /\ CoverForm'
  BY <1>2 DEF AttemptForm, NewerForm, PlanForm, CoverForm, Idle
<1> QED BY <1>3, <1>4, <1>5 DEF SweepInv

\* The next helper goes on from the saved cursor, which is not after the lost one.
LEMMA RestartsKeeps ==
  ASSUME SweepInv, RestartsSweep PROVE SweepInv'
<1>1. cursor.since \in Nat /\ cursor.saved \in Nat /\ cursor.saved <= cursor.since
  BY DEF SweepInv, SweepTyped, ClockForm
<1>2. /\ sweep' = Idle /\ resolved' = <<>> /\ newer' = {} /\ events' = {}
      /\ UNCHANGED <<files, stamp, tx, live>>
      /\ cursor' = [since |-> cursor.saved, active |-> TRUE, saved |-> cursor.saved]
  BY DEF RestartsSweep, SweepInv, SweepTyped
<1>3. SweepTyped'
  <2>1. sweep' \in [step : {"idle", "plan", "commit"}, committed : Nat, active : BOOLEAN,
                    prefixes : SUBSET Paths, leaves : SUBSET Changes, retry : BOOLEAN]
    BY <1>2 DEF Idle
  <2>2. cursor' \in [since : Nat, active : BOOLEAN, saved : Nat] BY <1>1, <1>2
  <2> QED BY <2>1, <2>2, <1>2 DEF SweepInv, SweepTyped
<1>4. FilesForm' BY <1>2 DEF SweepInv, FilesForm
<1>5. ClockForm' /\ WrongIsNew'
  <2>1. tx \in Nat /\ \A p \in Paths : stamp[p] \in Nat BY DEF SweepInv, SweepTyped
  <2> QED BY <2>1, <1>1, <1>2 DEF SweepInv, ClockForm, WrongIsNew
<1>6. ResolvedForm' BY <1>2 DEF ResolvedForm
<1>7. AttemptForm' /\ NewerForm' /\ PlanForm' /\ CoverForm'
  BY <1>2 DEF AttemptForm, NewerForm, PlanForm, CoverForm, Idle
<1> QED BY <1>3, <1>4, <1>5, <1>6, <1>7 DEF SweepInv
-----------------------------------------------------------------------------
(* A batch.                                                                 *)

\* What superseding leaves of a plan: nothing that something newer is about, and no
\* removal is dropped without the plan being made again.
LEMMA SupersedeLeaves ==
  ASSUME SweepInv
  PROVE  /\ Supersede(sweep, newer) \in
              [step : {"idle", "plan", "commit"}, committed : Nat, active : BOOLEAN,
               prefixes : SUBSET Paths, leaves : SUBSET Changes, retry : BOOLEAN]
         /\ Supersede(sweep, newer).step = sweep.step
         /\ Supersede(sweep, newer).committed = sweep.committed
         /\ Supersede(sweep, newer).prefixes \subseteq sweep.prefixes
         /\ Supersede(sweep, newer).leaves \subseteq sweep.leaves
         /\ ~Supersede(sweep, newer).retry =>
              /\ ~sweep.retry /\ Supersede(sweep, newer).prefixes = sweep.prefixes
              /\ \A l \in sweep.leaves :
                   l \in Supersede(sweep, newer).leaves \/ \E c \in newer : l.path \in Affected(c)
<1> DEFINE conflicts == UNION {Conflicts(sweep, c) : c \in newer}
           removed == {c.path : c \in {d \in newer : d.kind = "prefix"}}
           left == {l \in DropBelow(sweep.leaves, conflicts \cup removed) : \A c \in newer : l.path # c.path}
           clash == conflicts # {}
           again == sweep.retry \/ clash
<1>1. sweep \in [step : {"idle", "plan", "commit"}, committed : Nat, active : BOOLEAN,
                 prefixes : SUBSET Paths, leaves : SUBSET Changes, retry : BOOLEAN]
  BY DEF SweepInv, SweepTyped
<1>2. left \subseteq sweep.leaves BY DEF DropBelow
<1>3. \A l \in sweep.leaves : l \in left \/ conflicts # {} \/ \E c \in newer : l.path \in Affected(c)
  <2> SUFFICES ASSUME NEW l \in sweep.leaves, l \notin left, conflicts = {}
               PROVE  \E c \in newer : l.path \in Affected(c)
    OBVIOUS
  <2>1. l.path \in Paths BY AffectedPaths DEF SweepInv, SweepTyped
  <2>2. CASE \E c \in newer : l.path = c.path
    <3>1. PICK c \in newer : l.path = c.path BY <2>2
    <3> QED BY <3>1, <2>1 DEF Affected, AtOrBelow, Ancestors
  <2>3. CASE \A c \in newer : l.path # c.path
    <3>1. Ancestors(l.path) \cap removed # {} BY <2>3 DEF DropBelow
    <3>2. PICK c \in newer : c.kind = "prefix" /\ c.path \in Ancestors(l.path) BY <3>1
    <3> QED BY <3>2, <2>1 DEF Affected, AtOrBelow
  <2> QED BY <2>2, <2>3
<1>4. Supersede(sweep, newer) =
        [sweep EXCEPT !.prefixes = sweep.prefixes \ conflicts, !.leaves = left, !.retry = again]
  BY <1>1 DEF Supersede
<1>5. again \in BOOLEAN /\ (~again => ~sweep.retry /\ conflicts = {}) BY <1>1
<1> DEFINE rest == sweep.prefixes \ conflicts
<1>6. rest \subseteq sweep.prefixes /\ (conflicts = {} => rest = sweep.prefixes) OBVIOUS
<1>7. Supersede(sweep, newer) = [sweep EXCEPT !.prefixes = rest, !.leaves = left, !.retry = again]
  BY <1>4
<1>8. again \in BOOLEAN BY <1>5
<1> HIDE DEF conflicts, left, again, rest
<1>9. /\ Supersede(sweep, newer) \in
             [step : {"idle", "plan", "commit"}, committed : Nat, active : BOOLEAN,
              prefixes : SUBSET Paths, leaves : SUBSET Changes, retry : BOOLEAN]
       /\ Supersede(sweep, newer).step = sweep.step
       /\ Supersede(sweep, newer).committed = sweep.committed
       /\ Supersede(sweep, newer).prefixes = rest
       /\ Supersede(sweep, newer).leaves = left
       /\ Supersede(sweep, newer).retry = again
  BY <1>1, <1>2, <1>6, <1>7, <1>8
<1> QED BY <1>2, <1>3, <1>5, <1>6, <1>9

\* A batch is of the plan; what it is about has then what it says, all else what it had.
LEMMA BatchAt ==
  ASSUME live \in Indexes, NEW batch, NEW plan, batch \subseteq InPlan(plan),
         plan.prefixes \subseteq Paths, plan.leaves \subseteq Changes,
         \A l \in plan.leaves : l.kind # "prefix"
  PROVE  /\ AfterBatch(batch) \in Indexes
         /\ \A p \in Paths :
              \/ \E l \in plan.leaves : l \in batch /\ l.path = p /\ AfterBatch(batch)[p] = Means(l)
              \/ /\ ~ \E l \in plan.leaves : l \in batch /\ l.path = p
                 /\ \E root \in plan.prefixes :
                      [kind |-> "prefix", path |-> root] \in batch /\ p \in AtOrBelow(root)
                 /\ AfterBatch(batch)[p] = Nothing
              \/ /\ ~ \E l \in plan.leaves : l \in batch /\ l.path = p
                 /\ ~ \E root \in plan.prefixes :
                      [kind |-> "prefix", path |-> root] \in batch /\ p \in AtOrBelow(root)
                 /\ AfterBatch(batch)[p] = live[p]
<1> DEFINE said(p) == {c \in batch : c.kind # "prefix" /\ c.path = p}
           above(p) == {c \in batch : c.kind = "prefix" /\ p \in AtOrBelow(c.path)}
<1>1. AfterBatch(batch) = [p \in Paths |->
        IF said(p) # {} THEN Effect(live, CHOOSE c \in said(p) : TRUE)[p]
        ELSE IF above(p) # {} THEN Nothing ELSE live[p]]
  BY DEF AfterBatch
<1>2. ASSUME NEW p \in Paths
      PROVE  said(p) = {l \in plan.leaves : l \in batch /\ l.path = p}
  <2>1. \A c \in batch : c.kind # "prefix" => c \in plan.leaves BY DEF InPlan
  <2> QED BY <2>1
<1>3. ASSUME NEW p \in Paths
      PROVE  above(p) # {} <=> \E root \in plan.prefixes :
                                 [kind |-> "prefix", path |-> root] \in batch /\ p \in AtOrBelow(root)
  <2>1. \A c \in batch : c.kind = "prefix" => \E root \in plan.prefixes : c = [kind |-> "prefix", path |-> root]
    BY DEF InPlan
  <2>2. ASSUME above(p) # {}
        PROVE  \E root \in plan.prefixes : [kind |-> "prefix", path |-> root] \in batch /\ p \in AtOrBelow(root)
    <3>1. PICK c \in batch : c.kind = "prefix" /\ p \in AtOrBelow(c.path) BY <2>2
    <3>2. PICK root \in plan.prefixes : c = [kind |-> "prefix", path |-> root] BY <2>1, <3>1
    <3> QED BY <3>1, <3>2
  <2>3. ASSUME NEW root \in plan.prefixes, [kind |-> "prefix", path |-> root] \in batch, p \in AtOrBelow(root)
        PROVE  above(p) # {}
    <3>1. [kind |-> "prefix", path |-> root] \in above(p) BY <2>3
    <3> QED BY <3>1
  <2> QED BY <2>2, <2>3
<1>4. ASSUME NEW p \in Paths, said(p) # {}
      PROVE  LET l == CHOOSE c \in said(p) : TRUE
             IN /\ l \in plan.leaves /\ l \in batch /\ l.path = p
                /\ Effect(live, l)[p] = Means(l) /\ Means(l) \in Records \cup {Nothing}
  <2> DEFINE l == CHOOSE c \in said(p) : TRUE
  <2>1. l \in said(p) BY <1>4
  <2> HIDE DEF l, said
  <2>2. l \in plan.leaves /\ l \in batch /\ l.path = p BY <2>1, <1>2
  <2>3. l \in Changes /\ l.kind # "prefix" BY <2>2
  <2>4. p \in Affected(l) BY <2>2, <2>3 DEF Affected
  <2>5. Effect(live, l)[p] = Means(l) BY <2>3, <2>4, EffectAt
  <2>6. Means(l) \in Records \cup {Nothing} BY <2>3 DEF Means, Changes
  <2> QED BY <2>2, <2>5, <2>6 DEF l
<1> HIDE DEF said, above
<1>5. ASSUME NEW p \in Paths
      PROVE  /\ AfterBatch(batch)[p] = IF said(p) # {} THEN Effect(live, CHOOSE c \in said(p) : TRUE)[p]
                                       ELSE IF above(p) # {} THEN Nothing ELSE live[p]
             /\ AfterBatch(batch)[p] \in Records \cup {Nothing}
  <2>1. AfterBatch(batch)[p] = IF said(p) # {} THEN Effect(live, CHOOSE c \in said(p) : TRUE)[p]
                               ELSE IF above(p) # {} THEN Nothing ELSE live[p]
    BY <1>1
  <2>2. CASE said(p) # {} BY <2>1, <2>2, <1>4
  <2>3. CASE said(p) = {} BY <2>1, <2>3 DEF Indexes
  <2> QED BY <2>1, <2>2, <2>3
<1>6. AfterBatch(batch) \in Indexes BY <1>1, <1>5 DEF Indexes
<1>7. ASSUME NEW p \in Paths
      PROVE  \/ \E l \in plan.leaves : l \in batch /\ l.path = p /\ AfterBatch(batch)[p] = Means(l)
             \/ /\ said(p) = {} /\ above(p) # {} /\ AfterBatch(batch)[p] = Nothing
             \/ /\ said(p) = {} /\ above(p) = {} /\ AfterBatch(batch)[p] = live[p]
  <2>1. CASE said(p) # {} BY <2>1, <1>4, <1>5
  <2>2. CASE said(p) = {} BY <2>2, <1>5
  <2> QED BY <2>1, <2>2
<1>8. \A p \in Paths : said(p) = {} <=> ~ \E l \in plan.leaves : l \in batch /\ l.path = p
  BY <1>2
<1> QED BY <1>3, <1>6, <1>7, <1>8

\* A batch is right of everything old, and what is left of the plan is about the rest.
LEMMA CommitsBatchKeeps ==
  ASSUME SweepInv, CommitsBatch PROVE SweepInv'
<1> DEFINE plan == Supersede(sweep, newer)
           batch == FirstOf(plan)
           roots == {root \in plan.prefixes : [kind |-> "prefix", path |-> root] \notin batch}
           left == plan.leaves \ batch
<1>1. /\ sweep.step = "commit" /\ sweep # Idle /\ live' = AfterBatch(batch) /\ newer' = {}
      /\ resolved = <<>>
      /\ UNCHANGED <<files, stamp, tx, events, resolved, cursor>>
  BY IdleStep DEF CommitsBatch, SweepInv, ResolvedForm
<1>2. /\ plan \in [step : {"idle", "plan", "commit"}, committed : Nat, active : BOOLEAN,
                   prefixes : SUBSET Paths, leaves : SUBSET Changes, retry : BOOLEAN]
      /\ plan.step = sweep.step /\ plan.committed = sweep.committed
      /\ plan.prefixes \subseteq sweep.prefixes /\ plan.leaves \subseteq sweep.leaves
      /\ ~plan.retry => /\ ~sweep.retry /\ plan.prefixes = sweep.prefixes
                        /\ \A l \in sweep.leaves :
                             l \in plan.leaves \/ \E c \in newer : l.path \in Affected(c)
  BY SupersedeLeaves
<1>3. sweep' = [plan EXCEPT !.prefixes = {root \in plan.prefixes : [kind |-> "prefix", path |-> root] \notin batch},
                            !.leaves = plan.leaves \ batch]
  BY <1>2 DEF CommitsBatch
<1>4. batch \subseteq InPlan(plan) BY DEF FirstOf
<1> HIDE DEF plan, batch
<1>5. /\ sweep' \in [step : {"idle", "plan", "commit"}, committed : Nat, active : BOOLEAN,
                     prefixes : SUBSET Paths, leaves : SUBSET Changes, retry : BOOLEAN]
      /\ sweep'.step = "commit" /\ sweep'.committed = sweep.committed /\ sweep'.retry = plan.retry
      /\ sweep'.prefixes = roots /\ sweep'.leaves = left
  BY <1>1, <1>2, <1>3
<1>6. \A l \in plan.leaves : l.kind # "prefix" /\ (Old(l.path) => Means(l) = files[l.path])
  BY <1>1, <1>2 DEF SweepInv, PlanForm
<1>7. \A root \in plan.prefixes : \A p \in AtOrBelow(root) : Old(p) => files[p] = Nothing
  BY <1>1, <1>2 DEF SweepInv, PlanForm
<1>8. /\ live' \in Indexes
      /\ \A p \in Paths :
           \/ \E l \in plan.leaves : l \in batch /\ l.path = p /\ live'[p] = Means(l)
           \/ /\ \E root \in plan.prefixes :
                   [kind |-> "prefix", path |-> root] \in batch /\ p \in AtOrBelow(root)
              /\ live'[p] = Nothing
           \/ /\ ~ \E l \in plan.leaves : l \in batch /\ l.path = p
              /\ ~ \E root \in plan.prefixes :
                   [kind |-> "prefix", path |-> root] \in batch /\ p \in AtOrBelow(root)
              /\ live'[p] = live[p]
  <2>1. live \in Indexes BY DEF SweepInv, SweepTyped
  <2>2. plan.prefixes \subseteq Paths /\ plan.leaves \subseteq Changes BY <1>2
  <2>3. \A l \in plan.leaves : l.kind # "prefix" BY <1>6
  <2>4. live' = AfterBatch(batch) BY <1>1
  <2> QED BY SMTT(60), <2>1, <2>2, <2>3, <2>4, <1>4, BatchAt
\* Old and wrong after the batch: it was wrong before, and the batch is not about it.
<1>9. ASSUME NEW p \in Paths, Old(p), live'[p] # files[p]
      PROVE  /\ live[p] # files[p]
             /\ ~ \E l \in plan.leaves : l \in batch /\ l.path = p
             /\ ~ \E root \in plan.prefixes :
                  [kind |-> "prefix", path |-> root] \in batch /\ p \in AtOrBelow(root)
  <2>1. ~ \E l \in plan.leaves : l \in batch /\ l.path = p /\ live'[p] = Means(l)
    BY <1>6, <1>9
  <2>2. ~ (/\ \E root \in plan.prefixes :
                [kind |-> "prefix", path |-> root] \in batch /\ p \in AtOrBelow(root)
           /\ live'[p] = Nothing)
    BY <1>7, <1>9
  <2> QED BY <1>8, <1>9, <2>1, <2>2
<1>10. SweepTyped' BY <1>1, <1>5, <1>8 DEF SweepInv, SweepTyped
<1>11. FilesForm' /\ ClockForm' BY <1>1 DEF SweepInv, FilesForm, ClockForm
<1>12. WrongIsNew'
  <2> SUFFICES ASSUME NEW p \in Paths, live'[p] # files[p] PROVE stamp[p] >= cursor.since
    BY <1>1 DEF WrongIsNew
  <2>1. CASE Old(p) BY <2>1, <1>9 DEF SweepInv, WrongIsNew
  <2>2. CASE ~Old(p)
    <3>1. stamp[p] \in Nat /\ cursor.since \in Nat /\ sweep.committed \in Nat /\ cursor.since <= sweep.committed
      BY <1>1 DEF SweepInv, SweepTyped, AttemptForm
    <3> QED BY <2>2, <3>1 DEF Old
  <2> QED BY <2>1, <2>2
<1>13. ResolvedForm' BY <1>1 DEF SweepInv, ResolvedForm
<1>14. AttemptForm' /\ NewerForm' BY <1>1, <1>5 DEF SweepInv, AttemptForm, NewerForm
<1>15. PlanForm'
  <2>1. left \subseteq plan.leaves /\ roots \subseteq plan.prefixes OBVIOUS
  <2> HIDE DEF left, roots
  <2> QED BY <2>1, <1>1, <1>5, <1>6, <1>7 DEF PlanForm, Old
<1>16. CoverForm'
  <2> SUFFICES ASSUME NEW p \in Paths, Old(p), live'[p] # files[p], ~plan.retry
               PROVE  \/ \E l \in left : l.path = p
                      \/ \E root \in roots : p \in AtOrBelow(root)
    BY <1>1, <1>5 DEF CoverForm, Old
  <2>1. \/ \E l \in sweep.leaves : l.path = p
        \/ \E root \in sweep.prefixes : p \in AtOrBelow(root)
    BY <1>1, <1>2, <1>9 DEF SweepInv, CoverForm
  <2>2. CASE \E l \in sweep.leaves : l.path = p
    <3>1. PICK l \in sweep.leaves : l.path = p BY <2>2
    <3>2. \A c \in newer : p \notin Affected(c) BY <1>1, <1>9 DEF SweepInv, NewerForm
    <3>3. l \in plan.leaves BY <3>1, <3>2, <1>2
    <3>4. l \notin batch BY <3>1, <3>3, <1>9
    <3> QED BY <3>1, <3>3, <3>4
  <2>3. CASE \E root \in sweep.prefixes : p \in AtOrBelow(root)
    <3>1. PICK root \in sweep.prefixes : p \in AtOrBelow(root) BY <2>3
    <3>2. root \in plan.prefixes BY <3>1, <1>2
    <3>3. [kind |-> "prefix", path |-> root] \notin batch BY <3>1, <3>2, <1>9
    <3> QED BY <3>1, <3>2, <3>3
  <2> QED BY <2>1, <2>2, <2>3
<1> QED BY <1>10, <1>11, <1>12, <1>13, <1>14, <1>15, <1>16 DEF SweepInv
-----------------------------------------------------------------------------
\* Every step keeps the invariant.
LEMMA SweepKept ==
  ASSUME ~ResolveAhead, SweepInv, [SweepNext]_sweepVars PROVE SweepInv'
<1>1. CASE \E p \in SweptPaths : \E r \in SweptRecords \cup {Nothing} : Edits(p, r)
  BY <1>1, EditsKeeps
<1>2. CASE \E p \in SweptPaths : Resolves(p) \/ LogsEvent(p)
  BY <1>2, ResolvesKeeps, LogsEventKeeps
<1>3. CASE CommitsTransaction \/ LogsResolved BY <1>3, TransactionKeeps, LogsResolvedKeeps
<1>4. CASE Compacts \/ UNCHANGED sweepVars BY <1>4, CalmSweepStep DEF Compacts, sweepVars
<1>5. CASE StartsAttempt \/ PlansSweep \/ FindsNothing
  BY <1>5, StartsKeeps, PlansKeeps, FindsNothingKeeps
<1>6. CASE CommitsBatch \/ Replans \/ Advances \/ RestartsSweep
  BY <1>6, CommitsBatchKeeps, ReplansKeeps, AdvancesKeeps, RestartsKeeps
<1> QED BY <1>1, <1>2, <1>3, <1>4, <1>5, <1>6 DEF SweepNext

\* Nothing falls between the watch and the sweep: whatever the index is wrong
\* about changed at or after the cursor, in memory and as saved, so that a sweep
\* looks at it (watch_sweep/reconcile.rs, pending.rs, commit.rs): for every tree of
\* paths, any changes, and any batch.
THEOREM NoChangeForgottenHolds ==
  ASSUME ResolveAhead = FALSE
  PROVE  SweepSpec => []NoChangeForgotten
<1>1. SweepInit => SweepInv BY SweepBegins
<1>2. SweepInv /\ [SweepNext]_sweepVars => SweepInv' BY SweepKept
<1>3. SweepInv => NoChangeForgotten
  <2> SUFFICES ASSUME SweepInv, NEW p \in Paths, live[p] # files[p]
               PROVE  stamp[p] >= cursor.since /\ stamp[p] >= cursor.saved
    BY DEF NoChangeForgotten
  <2>1. stamp[p] >= cursor.since /\ cursor.saved <= cursor.since BY DEF SweepInv, WrongIsNew, ClockForm
  <2>2. stamp[p] \in Nat /\ cursor.since \in Nat /\ cursor.saved \in Nat BY DEF SweepInv, SweepTyped
  <2> QED BY <2>1, <2>2
<1> QED BY <1>1, <1>2, <1>3, PTL DEF SweepSpec
=============================================================================
