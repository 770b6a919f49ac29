------------------------ MODULE DurableStore_proofs ------------------------
(***************************************************************************)
(* What the TLA+ proof system checks about DurableStore, for every value of *)
(* its constants: any number of changes and generations, any batch size and *)
(* threshold, either mode of compaction and any set of failing calls.       *)
(***************************************************************************)
EXTENDS DurableStore, TLAPS

------------------------------------------------------------------------------
(* Arithmetic on generations and positions; elsewhere the two sets are opaque. *)

LEMMA Bounds ==
  /\ 0 \in Gen /\ 1 \in Gen /\ (OldCatalog => 2 \in Gen)
  /\ 0 \in Pos /\ 1 \in Pos
  BY BoundsAssumption, HistoryAssumption DEF Gen, Pos

LEMMA NextGen == ASSUME lastGen \in Gen, lastGen < MaxGen PROVE lastGen + 1 \in Gen
  BY BoundsAssumption DEF Gen

LEMMA NextPos == ASSUME wal.hi \in Pos, wal.hi < MaxChange PROVE wal.hi + 1 \in Pos
  BY BoundsAssumption DEF Pos

LEMMA TailPos == ASSUME NEW a \in Pos, NEW b \in Pos, b <= a PROVE a - b \in Pos
  BY BoundsAssumption DEF Pos

LEMMA RunPos ==
  ASSUME NEW a \in Pos, NEW b \in Pos
  PROVE  1 .. b \subseteq Pos /\ a .. b \subseteq Pos /\ a + 1 .. b \subseteq Pos
  BY BoundsAssumption DEF Pos

------------------------------------------------------------------------------
(* Type correctness *)

LEMMA InitTyped == ASSUME Init PROVE TypeOK
<1> USE Bounds
<1>1. PICK old \in (IF OldCatalog THEN BOOLEAN ELSE {FALSE}) :
        LET g == IF old THEN 2 ELSE 1
        IN  /\ base = [gen |-> g, upto |-> 1] /\ lastGen = g
            /\ wal = Bare(g, 1)
            /\ catalog = IF old THEN [gen |-> 1, has |-> {}, curGen |-> 1, curHi |-> 0]
                         ELSE [gen |-> 1, has |-> {1}, curGen |-> 1, curHi |-> 1]
  BY Zenon DEF Init
<1>2. FilesTyped
  <2>1. base \in [gen : Gen, upto : Pos]
    BY <1>1
  <2>2. wal \in [head : {"none", "part", "full"}, gen : Gen, lo : Pos, hi : Pos]
    BY <1>1 DEF Bare
  <2>3. /\ stage \in [gen : Gen, upto : Pos] /\ marker \in Gen
        /\ intent \in [prev : Gen, gen : Gen, min : Pos] /\ staleMark \in BOOLEAN
    BY DEF Init, NoFile, NoIntent
  <2> QED
    BY <2>1, <2>2, <2>3 DEF FilesTyped
<1>3. CatalogTyped
  BY <1>1 DEF Init, CatalogTyped, NoFile
<1>4. ProcessTyped
  <2>1. lastGen \in Gen
    BY <1>1
  <2> QED
    BY <2>1, ModesAssumption DEF Init, ProcessTyped, NoPrep
<1>5. HolderTyped
  BY DEF Init, HolderTyped, Nobody, AllSteps
<1> QED
  BY <1>2, <1>3, <1>4, <1>5 DEF TypeOK

(* The error paths, and the end of settle_delta, release the lock cleanly.   *)

LEMMA ReleaseTyped ==
  ASSUME hold' = Nobody PROVE HolderTyped'
  BY Bounds DEF HolderTyped, Nobody, AllSteps

LEMMA WriterFailsTyped ==
  ASSUME TypeOK, hold.by \in {"live", "sweep"}, NEW io \in BOOLEAN, WriterFails(io),
         memBase' = memBase, log' \in {"live", "behind", "closed"}
  PROVE  ProcessTyped' /\ HolderTyped' /\ builder' = builder
<1>1. HolderTyped'
  BY Bounds, ReleaseTyped DEF WriterFails
<1>2. ProcessTyped'
  BY DEF TypeOK, WriterFails, ProcessTyped
<1> QED
  BY <1>1, <1>2 DEF WriterFails

LEMMA MaintFailsTyped ==
  ASSUME TypeOK, NEW lost \in BOOLEAN, MaintFails(lost),
         memBase' \in Gen, log' \in {"live", "behind", "closed"}
  PROVE  ProcessTyped' /\ HolderTyped' /\ builder' = builder
<1>1. HolderTyped'
  BY Bounds, ReleaseTyped DEF MaintFails
<1>2. ProcessTyped'
  BY Bounds DEF TypeOK, MaintFails, ProcessTyped, NoPrep, auxVars
<1> QED
  BY <1>1, <1>2 DEF MaintFails, auxVars

LEMMA SettleTyped ==
  ASSUME TypeOK, hold.by = "live", NEW again \in BOOLEAN, AfterSettle(again),
         UNCHANGED <<phase, mode, stale, prep, owed, faulted>>,
         memBase' \in Gen, lastGen' \in Gen, log' \in {"live", "behind", "closed"}
  PROVE  ProcessTyped' /\ HolderTyped'
<1>1. ProcessTyped'
  BY DEF TypeOK, AfterSettle, ProcessTyped, FilesTyped
<1>2. CASE hold.then = "return"
  <2>1. hold' = Nobody
    BY <1>2 DEF AfterSettle
  <2> QED
    BY <1>1, <2>1, ReleaseTyped
<1>3. CASE hold.then # "return"
  <2>1. hold' = [hold EXCEPT !.at = "append", !.prev = 0]
    BY <1>3 DEF AfterSettle
  <2> QED
    BY <1>1, <2>1, Bounds DEF TypeOK, HolderTyped, AllSteps, LiveSteps, Writing
<1> QED
  BY <1>1, <1>2, <1>3

(* Changes a catalog takes in are changes the log holds. *)

LEMMA ReflectTyped ==
  ASSUME TypeOK, NEW changes \in SUBSET Pos
  PROVE  Reflect(changes) \in [gen : Gen, has : SUBSET Pos, curGen : Gen, curHi : Pos]
  BY DEF TypeOK, CatalogTyped, Reflect

LEMMA FreshTyped ==
  ASSUME TypeOK, NEW g \in Gen, NEW n \in Pos
  PROVE  FreshCatalog(g, n) \in [gen : Gen, has : SUBSET Pos, curGen : Gen, curHi : Pos]
<1>1. 1 .. n \subseteq Pos
  BY RunPos
<1> QED
  BY <1>1, Bounds DEF TypeOK, FilesTyped, FreshCatalog



LEMMA WritersTyped == ASSUME TypeOK, Writers PROVE TypeOK'
<1> USE DEF TypeOK
<1>1. ASSUME NEW w \in {"live", "sweep"}, Refused(w) PROVE TypeOK'
  <2>1. ProcessTyped'
    BY <1>1, Bounds DEF Refused, auxVars, ProcessTyped, FilesTyped
  <2>2. FilesTyped' /\ CatalogTyped' /\ HolderTyped'
    BY <1>1 DEF Refused, Nobody, auxVars, diskVars, pairVars, FilesTyped, CatalogTyped,
       HolderTyped
  <2> QED
    BY <2>1, <2>2
<1>2. ASSUME NEW w \in {"live", "sweep"}, NEW k \in 1 .. Batch, Acquire(w, k) PROVE TypeOK'
  <2>1. HolderTyped'
    <3>1. k \in Nat /\ wal.hi \in Pos
      BY BoundsAssumption DEF FilesTyped
    <3>2. CASE mode = "background"
      <4>1. hold' = [Nobody EXCEPT !.by = w, !.from = wal.hi, !.left = k, !.at = "append"]
        BY <1>2, <3>2 DEF Acquire
      <4> QED
        BY <4>1, <3>1, <3>2, <1>2, Bounds DEF Acquire, memVars, Nobody, HolderTyped, AllSteps,
           LiveSteps, Writing
    <3>3. CASE mode # "background"
      <4>1. hold' = [Nobody EXCEPT !.by = w, !.from = wal.hi, !.left = k, !.at = "settle"]
        BY <1>2, <3>3 DEF Acquire
      <4> QED
        BY <4>1, <3>1, <3>3, <1>2, Bounds DEF Acquire, memVars, Nobody, HolderTyped, AllSteps,
           LiveSteps
    <3> QED
      BY <3>2, <3>3
  <2>2. FilesTyped' /\ CatalogTyped' /\ ProcessTyped'
    BY <1>2 DEF Acquire, auxVars, diskVars, memVars, pairVars, FilesTyped, CatalogTyped,
       ProcessTyped
  <2> QED
    BY <2>1, <2>2
<1>3. CASE AppendFrame
  <2>1. FilesTyped'
    BY <1>3, NextPos DEF AppendFrame, FilesTyped
  <2>2. HolderTyped'
    <3>1. hold.left \in Nat /\ hold.left > 0 => hold.left - 1 \in Nat
      OBVIOUS
    <3> QED
      BY <3>1, <1>3 DEF AppendFrame, At, memVars, HolderTyped
  <2>3. CatalogTyped' /\ ProcessTyped'
    BY <1>3 DEF AppendFrame, At, auxVars, memVars, CatalogTyped, ProcessTyped
  <2> QED
    BY <2>1, <2>2, <2>3
<1>4. CASE AppendDone
  <2>1. HolderTyped'
    BY <1>4, Bounds DEF AppendDone, At, Goto, memVars, LiveSteps, MaintSteps, OpenSteps,
       AllSteps, Writing, Publishing, HolderTyped, FilesTyped, ProcessTyped
  <2>2. FilesTyped' /\ CatalogTyped' /\ ProcessTyped'
    BY <1>4 DEF AppendDone, At, auxVars, diskVars, memVars, pairVars, FilesTyped,
       CatalogTyped, ProcessTyped
  <2> QED
    BY <2>1, <2>2
<1>5. CASE AppendFails
  <2>1. ProcessTyped'
    BY <1>5, WriterFailsTyped DEF AppendFails, At, ProcessTyped, HolderTyped, Writing, LiveSteps,
       MaintSteps, OpenSteps, Publishing
  <2>2. HolderTyped'
    BY <1>5, WriterFailsTyped DEF AppendFails, At, ProcessTyped, HolderTyped, Writing, LiveSteps,
       MaintSteps, OpenSteps, Publishing
  <2>3. FilesTyped' /\ CatalogTyped'
    BY <1>5 DEF AppendFails, At, WriterFails, diskVars, pairVars, FilesTyped,
       CatalogTyped
  <2> QED
    BY <2>1, <2>2, <2>3
<1>6. CASE ApplyCatalog
  <2>1. CatalogTyped'
    <3>1. hold.from + 1 .. wal.hi \subseteq Pos
      BY RunPos DEF FilesTyped, HolderTyped
    <3> QED
      BY <3>1, <1>6, ReflectTyped DEF ApplyCatalog, CatalogTyped, auxVars
  <2>2. HolderTyped'
    BY <1>6, Bounds DEF ApplyCatalog, At, Goto, memVars, LiveSteps, MaintSteps,
       OpenSteps, AllSteps, Writing, Publishing, HolderTyped, FilesTyped, ProcessTyped
  <2>3. FilesTyped' /\ ProcessTyped'
    BY <1>6 DEF ApplyCatalog, At, auxVars, memVars, pairVars, FilesTyped, ProcessTyped
  <2> QED
    BY <2>1, <2>2, <2>3
<1>7. CASE ApplyCatalogFails
  <2>1. ProcessTyped'
    BY <1>7, WriterFailsTyped DEF ApplyCatalogFails, At, ProcessTyped, HolderTyped, Writing, LiveSteps,
       MaintSteps, OpenSteps, Publishing
  <2>2. HolderTyped'
    BY <1>7, WriterFailsTyped DEF ApplyCatalogFails, At, ProcessTyped, HolderTyped, Writing, LiveSteps,
       MaintSteps, OpenSteps, Publishing
  <2>3. FilesTyped' /\ CatalogTyped'
    BY <1>7 DEF ApplyCatalogFails, At, WriterFails, diskVars, pairVars, FilesTyped,
       CatalogTyped
  <2> QED
    BY <2>1, <2>2, <2>3
<1>8. CASE MarkDelta
  <2>1. CatalogTyped'
    BY <1>8, Bounds DEF MarkDelta, At, Stamp, CatalogTyped, FilesTyped
  <2>2. ProcessTyped'
    BY <1>8, Bounds DEF MarkDelta, memVars, ProcessTyped, FilesTyped
  <2>3. HolderTyped'
    <3>1. CASE mode # "foreground"
      BY <3>1, <1>8, ReleaseTyped DEF MarkDelta
    <3>2. CASE mode = "foreground"
      <4>1. hold.by = "live"
        BY <3>2, <1>8 DEF MarkDelta, At, HolderTyped, MaintSteps, OpenSteps, Publishing
      <4>2. hold' = [hold EXCEPT !.at = "settle", !.then = "return"]
        BY <3>2, <1>8 DEF MarkDelta
      <4> QED
        BY <4>1, <4>2, <1>8 DEF HolderTyped, AllSteps, LiveSteps
    <3> QED
      BY <3>1, <3>2
  <2>4. FilesTyped'
    BY <1>8 DEF MarkDelta, At, pairVars, FilesTyped
  <2> QED
    BY <2>1, <2>2, <2>3, <2>4
<1>9. CASE MarkDeltaFails
  <2>1. ProcessTyped'
    BY <1>9, WriterFailsTyped DEF MarkDeltaFails, At, ProcessTyped, HolderTyped, Writing, LiveSteps,
       MaintSteps, OpenSteps, Publishing
  <2>2. HolderTyped'
    BY <1>9, WriterFailsTyped DEF MarkDeltaFails, At, ProcessTyped, HolderTyped, Writing, LiveSteps,
       MaintSteps, OpenSteps, Publishing
  <2>3. FilesTyped' /\ CatalogTyped'
    BY <1>9 DEF MarkDeltaFails, At, WriterFails, diskVars, pairVars, FilesTyped,
       CatalogTyped
  <2> QED
    BY <2>1, <2>2, <2>3
<1>10. CASE LiveFailClosed
  <2>1. FilesTyped'
    BY <1>10, Bounds DEF LiveFailClosed, pairVars, FilesTyped, ProcessTyped
  <2>2. CatalogTyped' /\ ProcessTyped' /\ HolderTyped'
    BY <1>10 DEF LiveFailClosed, auxVars, CatalogTyped, ProcessTyped, HolderTyped
  <2> QED
    BY <2>1, <2>2
<1>11. CASE SweepRecordsFailure
  <2>1. FilesTyped'
    BY <1>11, Bounds DEF SweepRecordsFailure, pairVars, FilesTyped, ProcessTyped
  <2>2. CatalogTyped' /\ ProcessTyped' /\ HolderTyped'
    BY <1>11 DEF SweepRecordsFailure, auxVars, memVars, CatalogTyped, ProcessTyped,
       HolderTyped
  <2> QED
    BY <2>1, <2>2
<1>12. CASE SweepStops
  <2>1. ProcessTyped'
    BY <1>12, Bounds DEF SweepStops, auxVars, ProcessTyped, FilesTyped
  <2>2. FilesTyped' /\ CatalogTyped' /\ HolderTyped'
    BY <1>12 DEF SweepStops, auxVars, diskVars, pairVars, FilesTyped, CatalogTyped,
       HolderTyped
  <2> QED
    BY <2>1, <2>2
<1> QED
  BY <1>1, <1>2, <1>3, <1>4, <1>5, <1>6, <1>7, <1>8, <1>9, <1>10, <1>11, <1>12 DEF
     Writers


LEMMA SettlingTyped == ASSUME TypeOK, Settling PROVE TypeOK'
<1> USE DEF TypeOK
<1>1. CASE SettleSkips
  <2>1. ProcessTyped'
    BY <1>1, SettleTyped DEF SettleSkips, At, ProcessTyped, HolderTyped, FilesTyped, Writing, MaintSteps,
       OpenSteps, Publishing
  <2>2. HolderTyped'
    BY <1>1, SettleTyped DEF SettleSkips, At, ProcessTyped, HolderTyped, FilesTyped, Writing, MaintSteps,
       OpenSteps, Publishing
  <2>3. FilesTyped' /\ CatalogTyped'
    BY <1>1 DEF SettleSkips, At, diskVars, pairVars, FilesTyped, CatalogTyped
  <2> QED
    BY <2>1, <2>2, <2>3
<1>2. CASE Fold
  <2>1. FilesTyped'
    BY <1>2, Bounds, NextGen DEF Fold, At, FilesTyped, ProcessTyped
  <2>2. CatalogTyped'
    <3>1. Frames \subseteq Pos
      BY RunPos DEF FilesTyped, Frames
    <3> QED
      BY <3>1, <1>2, ReflectTyped DEF Fold, CatalogTyped
  <2>3. ProcessTyped'
    BY <1>2, NextGen DEF Fold, memVars, ProcessTyped
  <2>4. HolderTyped'
    BY <1>2, Bounds DEF Fold, At, memVars, LiveSteps, MaintSteps, OpenSteps, AllSteps,
       Writing, Publishing, HolderTyped, FilesTyped, ProcessTyped
  <2> QED
    BY <2>1, <2>2, <2>3, <2>4
<1>3. CASE FoldFails
  <2>1. FilesTyped'
    BY <1>3, Bounds, NextGen DEF FoldFails, At, FilesTyped, ProcessTyped
  <2>2. ProcessTyped'
    BY ZenonT(60), <1>3, SettleTyped, NextGen DEF FoldFails, At, ProcessTyped, HolderTyped, FilesTyped, Writing, MaintSteps,
       OpenSteps, Publishing
  <2>3. HolderTyped'
    BY <1>3, SettleTyped, NextGen DEF FoldFails, At, ProcessTyped, HolderTyped, FilesTyped, Writing, MaintSteps,
       OpenSteps, Publishing
  <2>4. CatalogTyped'
    BY <1>3 DEF FoldFails, At, CatalogTyped
  <2> QED
    BY <2>1, <2>2, <2>3, <2>4
<1>4. CASE WriteMarker
  <2>1. FilesTyped'
    BY <1>4, Bounds DEF WriteMarker, At, FilesTyped, ProcessTyped
  <2>2. HolderTyped'
    BY <1>4, Bounds DEF WriteMarker, At, Goto, memVars, LiveSteps, MaintSteps, OpenSteps,
       AllSteps, Writing, Publishing, HolderTyped, FilesTyped, ProcessTyped
  <2>3. CatalogTyped' /\ ProcessTyped'
    BY <1>4 DEF WriteMarker, At, auxVars, memVars, CatalogTyped, ProcessTyped
  <2> QED
    BY <2>1, <2>2, <2>3
<1>5. CASE WriteMarkerFails
  <2>1. FilesTyped'
    BY <1>5, Bounds DEF WriteMarkerFails, At, FilesTyped, ProcessTyped
  <2>2. ProcessTyped'
    BY ZenonT(60), <1>5, SettleTyped DEF WriteMarkerFails, At, ProcessTyped, HolderTyped, FilesTyped, Writing, MaintSteps,
       OpenSteps, Publishing
  <2>3. HolderTyped'
    BY <1>5, SettleTyped DEF WriteMarkerFails, At, ProcessTyped, HolderTyped, FilesTyped, Writing, MaintSteps,
       OpenSteps, Publishing
  <2>4. CatalogTyped'
    BY <1>5 DEF WriteMarkerFails, At, CatalogTyped
  <2> QED
    BY <2>1, <2>2, <2>3, <2>4
<1>6. CASE ResetTruncates
  <2>1. FilesTyped'
    BY <1>6, Bounds DEF ResetTruncates, At, Short, FilesTyped, ProcessTyped
  <2>2. HolderTyped'
    BY <1>6, Bounds DEF ResetTruncates, At, Goto, memVars, LiveSteps, MaintSteps,
       OpenSteps, AllSteps, Writing, Publishing, HolderTyped, FilesTyped, ProcessTyped
  <2>3. CatalogTyped' /\ ProcessTyped'
    BY <1>6 DEF ResetTruncates, At, auxVars, memVars, CatalogTyped, ProcessTyped
  <2> QED
    BY <2>1, <2>2, <2>3
<1>7. CASE ResetWritesMagic
  <2>1. FilesTyped'
    BY <1>7, Bounds DEF ResetWritesMagic, At, Short, FilesTyped, ProcessTyped
  <2>2. HolderTyped'
    BY <1>7, Bounds DEF ResetWritesMagic, At, Goto, memVars, LiveSteps, MaintSteps,
       OpenSteps, AllSteps, Writing, Publishing, HolderTyped, FilesTyped, ProcessTyped
  <2>3. CatalogTyped' /\ ProcessTyped'
    BY <1>7 DEF ResetWritesMagic, At, auxVars, memVars, CatalogTyped, ProcessTyped
  <2> QED
    BY <2>1, <2>2, <2>3
<1>8. CASE ResetWritesGeneration
  <2>1. FilesTyped'
    BY <1>8, Bounds DEF ResetWritesGeneration, At, Bare, FilesTyped, ProcessTyped
  <2>2. ProcessTyped'
    BY <1>8, Bounds DEF ResetWritesGeneration, auxVars, ProcessTyped, FilesTyped
  <2>3. HolderTyped'
    BY <1>8, Bounds DEF ResetWritesGeneration, At, Goto, LiveSteps, MaintSteps,
       OpenSteps, AllSteps, Writing, Publishing, HolderTyped, FilesTyped, ProcessTyped
  <2>4. CatalogTyped'
    BY <1>8 DEF ResetWritesGeneration, At, auxVars, CatalogTyped
  <2> QED
    BY <2>1, <2>2, <2>3, <2>4
<1>9. CASE ResetFails
  <2>1. ProcessTyped'
    BY <1>9, SettleTyped DEF ResetFails, At, ProcessTyped, HolderTyped, FilesTyped, Writing, MaintSteps,
       OpenSteps, Publishing
  <2>2. HolderTyped'
    BY <1>9, SettleTyped DEF ResetFails, At, ProcessTyped, HolderTyped, FilesTyped, Writing, MaintSteps,
       OpenSteps, Publishing
  <2>3. FilesTyped' /\ CatalogTyped'
    BY <1>9 DEF ResetFails, diskVars, pairVars, FilesTyped, CatalogTyped
  <2> QED
    BY <2>1, <2>2, <2>3
<1>10. CASE ClearFails
  <2>1. FilesTyped'
    BY <1>10, Bounds DEF ClearFails, At, Bare, FilesTyped, ProcessTyped
  <2>2. ProcessTyped'
    BY ZenonT(60), <1>10, SettleTyped DEF ClearFails, At, ProcessTyped, HolderTyped, FilesTyped, Writing, MaintSteps,
       OpenSteps, Publishing
  <2>3. HolderTyped'
    BY <1>10, SettleTyped DEF ClearFails, At, ProcessTyped, HolderTyped, FilesTyped, Writing, MaintSteps,
       OpenSteps, Publishing
  <2>4. CatalogTyped'
    BY <1>10 DEF ClearFails, At, CatalogTyped
  <2> QED
    BY <2>1, <2>2, <2>3, <2>4
<1> QED
  BY <1>1, <1>2, <1>3, <1>4, <1>5, <1>6, <1>7, <1>8, <1>9, <1>10 DEF Settling


LEMMA PublicationTyped == ASSUME TypeOK, Publication PROVE TypeOK'
<1> USE DEF TypeOK
<1>1. CASE Publish
  <2>1. FilesTyped'
    BY <1>1, Bounds DEF Publish, At, FilesTyped, ProcessTyped
  <2>2. HolderTyped'
    BY <1>1, Bounds DEF Publish, At, Goto, memVars, LiveSteps, MaintSteps, OpenSteps,
       AllSteps, Writing, Publishing, HolderTyped, FilesTyped, ProcessTyped
  <2>3. CatalogTyped' /\ ProcessTyped'
    BY <1>1 DEF Publish, At, auxVars, memVars, CatalogTyped, ProcessTyped
  <2> QED
    BY <2>1, <2>2, <2>3
<1>2. CASE PublishFails
  <2>1. FilesTyped'
    BY <1>2, Bounds DEF PublishFails, At, FilesTyped, ProcessTyped
  <2>2. ProcessTyped'
    BY <1>2, WriterFailsTyped, MaintFailsTyped DEF PublishFails, ProcessTyped, HolderTyped, At
  <2>3. HolderTyped'
    BY <1>2, WriterFailsTyped, MaintFailsTyped DEF PublishFails, ProcessTyped, HolderTyped, At
  <2>4. CatalogTyped'
    BY <1>2 DEF PublishFails, At, MaintFails, WriterFails, auxVars, CatalogTyped
  <2> QED
    BY <2>1, <2>2, <2>3, <2>4
<1>3. CASE AdvanceGeneration
  <2>1. CatalogTyped'
    BY <1>3, Bounds DEF AdvanceGeneration, Advanced, At, auxVars, CatalogTyped,
       FilesTyped
  <2>2. HolderTyped'
    BY <1>3, Bounds DEF AdvanceGeneration, At, Goto, memVars, LiveSteps, MaintSteps,
       OpenSteps, AllSteps, Writing, Publishing, HolderTyped, FilesTyped, ProcessTyped
  <2>3. FilesTyped' /\ ProcessTyped'
    BY <1>3 DEF AdvanceGeneration, At, auxVars, memVars, pairVars, FilesTyped,
       ProcessTyped
  <2> QED
    BY <2>1, <2>2, <2>3
<1>4. CASE MarkEmptied
  <2>1. CatalogTyped'
    BY <1>4, Bounds DEF MarkEmptied, At, Stamp, auxVars, CatalogTyped, FilesTyped
  <2>2. HolderTyped'
    BY <1>4, Bounds DEF MarkEmptied, At, Goto, memVars, LiveSteps, MaintSteps, OpenSteps,
       AllSteps, Writing, Publishing, HolderTyped, FilesTyped, ProcessTyped
  <2>3. FilesTyped' /\ ProcessTyped'
    BY <1>4 DEF MarkEmptied, At, auxVars, memVars, pairVars, FilesTyped, ProcessTyped
  <2> QED
    BY <2>1, <2>2, <2>3
<1>5. CASE CatalogStepFails
  <2>1. ProcessTyped'
    BY <1>5, WriterFailsTyped, MaintFailsTyped DEF CatalogStepFails, ProcessTyped, HolderTyped, At
  <2>2. HolderTyped'
    BY <1>5, WriterFailsTyped, MaintFailsTyped DEF CatalogStepFails, ProcessTyped, HolderTyped, At
  <2>3. FilesTyped' /\ CatalogTyped'
    BY <1>5 DEF CatalogStepFails, At, MaintFails, WriterFails, auxVars, diskVars,
       pairVars, FilesTyped, CatalogTyped
  <2> QED
    BY <2>1, <2>2, <2>3
<1>6. CASE Unmark
  <2>1. FilesTyped'
    BY <1>6, Bounds DEF Unmark, At, FilesTyped, ProcessTyped
  <2>2. ProcessTyped'
    BY <1>6, Bounds DEF Unmark, auxVars, ProcessTyped, FilesTyped
  <2>3. HolderTyped'
    BY <1>6, Bounds DEF Unmark, At, Goto, LiveSteps, MaintSteps, OpenSteps, AllSteps,
       Writing, Publishing, HolderTyped, FilesTyped, ProcessTyped
  <2>4. CatalogTyped'
    BY <1>6 DEF Unmark, At, auxVars, CatalogTyped
  <2> QED
    BY <2>1, <2>2, <2>3, <2>4
<1>7. CASE UnmarkFails
  <2>1. FilesTyped'
    BY <1>7, Bounds DEF UnmarkFails, At, FilesTyped, ProcessTyped
  <2>2. ProcessTyped'
    <3>1. CASE hold.by = "live"
      BY <3>1, <1>7, SettleTyped DEF UnmarkFails, ProcessTyped, FilesTyped
    <3>2. CASE hold.by # "live"
      BY <3>2, <1>7, MaintFailsTyped DEF UnmarkFails, ProcessTyped
    <3> QED
      BY <3>1, <3>2
  <2>3. HolderTyped'
    <3>1. CASE hold.by = "live"
      BY <3>1, <1>7, SettleTyped DEF UnmarkFails, ProcessTyped, FilesTyped
    <3>2. CASE hold.by # "live"
      BY <3>2, <1>7, MaintFailsTyped DEF UnmarkFails, ProcessTyped
    <3> QED
      BY <3>1, <3>2
  <2>4. CatalogTyped'
    BY <1>7 DEF UnmarkFails, At, MaintFails, auxVars, CatalogTyped
  <2> QED
    BY <2>1, <2>2, <2>3, <2>4
<1>8. CASE Unstage
  <2>1. FilesTyped'
    BY <1>8, Bounds DEF Unstage, At, NoFile, FilesTyped, ProcessTyped
  <2>2. ProcessTyped'
    <3>1. CASE hold.by = "live"
      BY <3>1, <1>8, SettleTyped DEF Unstage, ProcessTyped
    <3>2. CASE hold.by = "open"
      BY <3>2, <1>8 DEF Unstage, ProcessTyped
    <3>3. CASE hold.by = "maint"
      <4>1. prep' = NoPrep /\ UNCHANGED <<retry, acked>>
        BY <3>3, <1>8 DEF Unstage
      <4> QED
        BY <4>1, <1>8, Bounds DEF Unstage, ProcessTyped, NoPrep
    <3> QED
      BY <3>1, <3>2, <3>3, <1>8 DEF Unstage
  <2>3. HolderTyped'
    <3>1. CASE hold.by = "live"
      BY <3>1, <1>8, SettleTyped DEF Unstage, ProcessTyped
    <3>2. CASE hold.by = "open"
      BY <3>2, <1>8 DEF Unstage, Goto, HolderTyped, AllSteps, OpenSteps
    <3>3. CASE hold.by = "maint"
      BY <3>3, <1>8, ReleaseTyped DEF Unstage
    <3> QED
      BY <3>1, <3>2, <3>3, <1>8 DEF Unstage
  <2>4. CatalogTyped'
    BY <1>8 DEF Unstage, At, NoFile, CatalogTyped
  <2> QED
    BY <2>1, <2>2, <2>3, <2>4
<1> QED
  BY <1>1, <1>2, <1>3, <1>4, <1>5, <1>6, <1>7, <1>8 DEF Publication


LEMMA MaintenanceTyped == ASSUME TypeOK, Maintenance PROVE TypeOK'
<1> USE DEF TypeOK
<1>1. CASE Freeze
  <2>1. ProcessTyped'
    <3>1. CASE CanFreeze
      <4>1. prep' = [at |-> "frozen", prev |-> base.gen, hi |-> wal.hi, gen |-> 0]
        BY <3>1, <1>1 DEF Freeze
      <4>2. UNCHANGED <<retry, owed>>
        BY <3>1, <1>1 DEF Freeze
      <4> QED
        BY <4>1, <4>2, <1>1, Bounds DEF Freeze, FilesTyped, ProcessTyped, auxVars
    <3>2. CASE ~CanFreeze
      <4>1. owed' \in {owed, owed \cup {"maint"}} /\ retry' \in BOOLEAN
        BY <3>2, <1>1 DEF Freeze
      <4> QED
        BY <4>1, <3>2, <1>1 DEF Freeze, ProcessTyped, auxVars
    <3> QED
      BY <3>1, <3>2
  <2>2. FilesTyped' /\ CatalogTyped' /\ HolderTyped'
    BY <1>1 DEF Freeze, Nobody, auxVars, diskVars, pairVars, FilesTyped, CatalogTyped,
       HolderTyped
  <2> QED
    BY <2>1, <2>2
<1>2. CASE Build
  <2>1. FilesTyped'
    BY <1>2, Bounds, NextGen DEF Build, FilesTyped, ProcessTyped
  <2>2. ProcessTyped'
    BY <1>2, Bounds, NextGen DEF Build, ProcessTyped, FilesTyped
  <2>3. CatalogTyped' /\ HolderTyped'
    BY <1>2 DEF Build, CatalogTyped, HolderTyped
  <2> QED
    BY <2>1, <2>2, <2>3
<1>3. CASE BuildFails
  <2>1. FilesTyped'
    BY <1>3, Bounds DEF BuildFails, NoFile, FilesTyped, ProcessTyped
  <2>2. ProcessTyped'
    BY <1>3, Bounds DEF BuildFails, NoPrep, auxVars, ProcessTyped, FilesTyped
  <2>3. CatalogTyped' /\ HolderTyped'
    BY <1>3 DEF BuildFails, NoFile, auxVars, CatalogTyped, HolderTyped
  <2> QED
    BY <2>1, <2>2, <2>3
<1>4. CASE MaintAcquire
  <2>1. ProcessTyped'
    BY <1>4, Bounds DEF MaintAcquire, NoPrep, auxVars, ProcessTyped, FilesTyped
  <2>2. HolderTyped'
    <3>1. CASE hold' = hold
      BY <3>1, <1>4 DEF MaintAcquire, HolderTyped
    <3>2. CASE hold' = [Nobody EXCEPT !.by = "maint", !.at = "tail", !.prev = prep.prev]
      BY <3>2, Bounds DEF ProcessTyped, Nobody, HolderTyped, AllSteps, MaintSteps
    <3> QED
      BY <3>1, <3>2, <1>4 DEF MaintAcquire
  <2>3. FilesTyped' /\ CatalogTyped'
    BY <1>4 DEF MaintAcquire, auxVars, diskVars, pairVars, FilesTyped, CatalogTyped
  <2> QED
    BY <2>1, <2>2, <2>3
<1>5. CASE WriteIntent
  <2>1. FilesTyped'
    <3>1. wal.hi - prep.hi \in Pos
      BY <1>5, TailPos DEF WriteIntent, FilesTyped, ProcessTyped
    <3> QED
      BY <3>1, <1>5 DEF WriteIntent, FilesTyped, ProcessTyped
  <2>2. ProcessTyped'
    BY <1>5, Bounds DEF WriteIntent, auxVars, ProcessTyped, FilesTyped
  <2>3. HolderTyped'
    BY <1>5, Bounds DEF WriteIntent, At, Goto, LiveSteps, MaintSteps, OpenSteps,
       AllSteps, Writing, Publishing, HolderTyped, FilesTyped, ProcessTyped
  <2>4. CatalogTyped'
    BY <1>5 DEF WriteIntent, At, auxVars, CatalogTyped
  <2> QED
    BY <2>1, <2>2, <2>3, <2>4
<1>6. CASE StageTailFails
  <2>1. ProcessTyped'
    BY <1>6, MaintFailsTyped DEF StageTailFails, ProcessTyped
  <2>2. HolderTyped'
    BY <1>6, MaintFailsTyped DEF StageTailFails, ProcessTyped
  <2>3. FilesTyped' /\ CatalogTyped'
    BY <1>6 DEF StageTailFails, At, MaintFails, auxVars, diskVars, pairVars, FilesTyped,
       CatalogTyped
  <2> QED
    BY <2>1, <2>2, <2>3
<1>7. CASE WriteIntentFails
  <2>1. FilesTyped'
    <3>1. wal.hi - prep.hi \in Pos
      BY <1>7, TailPos DEF WriteIntentFails, FilesTyped, ProcessTyped
    <3>2. intent' \in [prev : Gen, gen : Gen, min : Pos]
      <4>1. intent' \in {NoIntent, intent,
                         [prev |-> prep.prev, gen |-> prep.gen, min |-> wal.hi - prep.hi]}
        BY <1>7 DEF WriteIntentFails
      <4> QED
        BY <4>1, <3>1, Bounds DEF FilesTyped, ProcessTyped, NoIntent
    <3> QED
      BY <3>2, <1>7 DEF WriteIntentFails, FilesTyped
  <2>2. ProcessTyped'
    BY <1>7, MaintFailsTyped, Bounds DEF WriteIntentFails, ProcessTyped
  <2>3. HolderTyped'
    BY <1>7, MaintFailsTyped, Bounds DEF WriteIntentFails, ProcessTyped
  <2>4. CatalogTyped'
    BY <1>7 DEF WriteIntentFails, At, MaintFails, auxVars, CatalogTyped
  <2> QED
    BY <2>1, <2>2, <2>3, <2>4
<1>8. CASE Install
  <2>1. FilesTyped'
    BY <1>8, Bounds DEF Install, At, FilesTyped, ProcessTyped
  <2>2. HolderTyped'
    BY <1>8, Bounds DEF Install, At, Goto, memVars, LiveSteps, MaintSteps, OpenSteps,
       AllSteps, Writing, Publishing, HolderTyped, FilesTyped, ProcessTyped
  <2>3. CatalogTyped' /\ ProcessTyped'
    BY <1>8 DEF Install, At, auxVars, memVars, CatalogTyped, ProcessTyped
  <2> QED
    BY <2>1, <2>2, <2>3
<1>9. CASE InstallFails
  <2>1. FilesTyped'
    BY <1>9, Bounds DEF InstallFails, At, FilesTyped, ProcessTyped
  <2>2. ProcessTyped'
    BY <1>9, MaintFailsTyped DEF InstallFails, ProcessTyped
  <2>3. HolderTyped'
    BY <1>9, MaintFailsTyped DEF InstallFails, ProcessTyped
  <2>4. CatalogTyped'
    BY <1>9 DEF InstallFails, At, MaintFails, auxVars, CatalogTyped
  <2> QED
    BY <2>1, <2>2, <2>3, <2>4
<1>10. CASE MaintMarker
  <2>1. FilesTyped'
    BY <1>10, Bounds DEF MaintMarker, At, FilesTyped, ProcessTyped
  <2>2. HolderTyped'
    BY <1>10, Bounds DEF MaintMarker, At, Goto, memVars, LiveSteps, MaintSteps,
       OpenSteps, AllSteps, Writing, Publishing, HolderTyped, FilesTyped, ProcessTyped
  <2>3. CatalogTyped' /\ ProcessTyped'
    BY <1>10 DEF MaintMarker, At, auxVars, memVars, CatalogTyped, ProcessTyped
  <2> QED
    BY <2>1, <2>2, <2>3
<1>11. CASE MaintMarkerFails
  <2>1. FilesTyped'
    BY <1>11, Bounds DEF MaintMarkerFails, At, FilesTyped, ProcessTyped
  <2>2. ProcessTyped'
    BY <1>11, MaintFailsTyped DEF MaintMarkerFails, ProcessTyped
  <2>3. HolderTyped'
    BY <1>11, MaintFailsTyped DEF MaintMarkerFails, ProcessTyped
  <2>4. CatalogTyped'
    BY <1>11 DEF MaintMarkerFails, At, MaintFails, auxVars, CatalogTyped
  <2> QED
    BY <2>1, <2>2, <2>3, <2>4
<1>12. CASE FinishIntent
  <2>1. FilesTyped'
    BY <1>12, Bounds DEF FinishIntent, At, NoIntent, FilesTyped, ProcessTyped
  <2>2. ProcessTyped'
    BY <1>12, Bounds DEF FinishIntent, auxVars, ProcessTyped, FilesTyped
  <2>3. HolderTyped'
    BY <1>12, Bounds DEF FinishIntent, At, Goto, LiveSteps, MaintSteps, OpenSteps,
       AllSteps, Writing, Publishing, HolderTyped, FilesTyped, ProcessTyped
  <2>4. CatalogTyped'
    BY <1>12 DEF FinishIntent, At, auxVars, CatalogTyped
  <2> QED
    BY <2>1, <2>2, <2>3, <2>4
<1>13. CASE FinishIntentFails
  <2>1. FilesTyped'
    BY <1>13, Bounds DEF FinishIntentFails, At, NoIntent, FilesTyped, ProcessTyped
  <2>2. ProcessTyped'
    BY <1>13, MaintFailsTyped DEF FinishIntentFails, ProcessTyped
  <2>3. HolderTyped'
    BY <1>13, MaintFailsTyped DEF FinishIntentFails, ProcessTyped
  <2>4. CatalogTyped'
    BY <1>13 DEF FinishIntentFails, At, MaintFails, auxVars, CatalogTyped
  <2> QED
    BY <2>1, <2>2, <2>3, <2>4
<1>14. CASE MaintFlag
  <2>1. ProcessTyped'
    BY <1>14, Bounds DEF MaintFlag, auxVars, ProcessTyped, FilesTyped
  <2>2. FilesTyped' /\ CatalogTyped' /\ HolderTyped'
    BY <1>14 DEF MaintFlag, Nobody, auxVars, diskVars, pairVars, FilesTyped,
       CatalogTyped, HolderTyped
  <2> QED
    BY <2>1, <2>2
<1>15. CASE MaintExit
  <2>1. ProcessTyped'
    BY <1>15, Bounds DEF MaintExit, NoPrep, ProcessEnds, auxVars, ProcessTyped,
       FilesTyped
  <2>2. HolderTyped'
    BY <1>15, Bounds DEF MaintExit, Nobody, ProcessEnds, LiveSteps, MaintSteps,
       OpenSteps, AllSteps, Writing, Publishing, HolderTyped, FilesTyped, ProcessTyped
  <2>3. FilesTyped' /\ CatalogTyped'
    BY <1>15 DEF MaintExit, ProcessEnds, auxVars, FilesTyped, CatalogTyped
  <2> QED
    BY <2>1, <2>2, <2>3
<1> QED
  BY <1>1, <1>2, <1>3, <1>4, <1>5, <1>6, <1>7, <1>8, <1>9, <1>10, <1>11, <1>12, <1>13,
     <1>14, <1>15 DEF Maintenance


LEMMA OpeningTyped == ASSUME TypeOK, Opening PROVE TypeOK'
<1> USE DEF TypeOK
<1>1. CASE OpenStart
  <2>1. ProcessTyped'
    BY <1>1, ModesAssumption DEF OpenStart, ProcessTyped, auxVars
  <2>2. HolderTyped'
    BY <1>1, Bounds DEF OpenStart, Nobody, LiveSteps, MaintSteps, OpenSteps, AllSteps,
       Writing, Publishing, HolderTyped, FilesTyped, ProcessTyped
  <2>3. FilesTyped' /\ CatalogTyped'
    BY <1>1 DEF OpenStart, auxVars, diskVars, pairVars, FilesTyped, CatalogTyped
  <2> QED
    BY <2>1, <2>2, <2>3
<1>2. CASE OpenResets
  <2>1. FilesTyped'
    BY <1>2, Bounds DEF OpenResets, At, Short, FilesTyped, ProcessTyped
  <2>2. CatalogTyped' /\ ProcessTyped' /\ HolderTyped'
    BY <1>2 DEF OpenResets, At, auxVars, memVars, CatalogTyped, ProcessTyped, HolderTyped
  <2> QED
    BY <2>1, <2>2
<1>3. CASE OpenWal
  <2>1. FilesTyped'
    BY <1>3, Bounds DEF OpenWal, At, Bare, FilesTyped, ProcessTyped
  <2>2. HolderTyped'
    BY <1>3, Bounds DEF OpenWal, At, Goto, memVars, LiveSteps, MaintSteps, OpenSteps,
       AllSteps, Writing, Publishing, HolderTyped, FilesTyped, ProcessTyped
  <2>3. CatalogTyped' /\ ProcessTyped'
    BY <1>3 DEF OpenWal, At, auxVars, memVars, CatalogTyped, ProcessTyped
  <2> QED
    BY <2>1, <2>2, <2>3
<1>4. CASE OpenTidies
  <2>1. FilesTyped'
    BY <1>4, Bounds DEF OpenTidies, At, NoFile, FilesTyped, ProcessTyped
  <2>2. HolderTyped'
    BY <1>4, Bounds DEF OpenTidies, At, Goto, memVars, LiveSteps, MaintSteps, OpenSteps,
       AllSteps, Writing, Publishing, HolderTyped, FilesTyped, ProcessTyped
  <2>3. CatalogTyped' /\ ProcessTyped'
    BY <1>4 DEF OpenTidies, At, NoFile, auxVars, memVars, CatalogTyped, ProcessTyped
  <2> QED
    BY <2>1, <2>2, <2>3
<1>5. CASE OpenRecovers
  <2>1. CatalogTyped'
    BY <1>5, Bounds DEF OpenRecovers, At, auxVars, CatalogTyped, FilesTyped
  <2>2. HolderTyped'
    BY <1>5, Bounds DEF OpenRecovers, At, Goto, memVars, LiveSteps, MaintSteps,
       OpenSteps, AllSteps, Writing, Publishing, HolderTyped, FilesTyped, ProcessTyped
  <2>3. FilesTyped' /\ ProcessTyped'
    BY <1>5 DEF OpenRecovers, At, auxVars, memVars, pairVars, FilesTyped, ProcessTyped
  <2> QED
    BY <2>1, <2>2, <2>3
<1>6. CASE OpenFinishesIntent
  <2>1. FilesTyped'
    BY <1>6, Bounds DEF OpenFinishesIntent, At, NoIntent, FilesTyped, ProcessTyped
  <2>2. HolderTyped'
    BY <1>6, Bounds DEF OpenFinishesIntent, At, Goto, memVars, LiveSteps, MaintSteps,
       OpenSteps, AllSteps, Writing, Publishing, HolderTyped, FilesTyped, ProcessTyped
  <2>3. CatalogTyped' /\ ProcessTyped'
    BY <1>6 DEF OpenFinishesIntent, At, auxVars, memVars, CatalogTyped, ProcessTyped
  <2> QED
    BY <2>1, <2>2, <2>3
<1>7. CASE OpenEnsures
  <2>1. CatalogTyped'
    BY <1>7, FreshTyped DEF OpenEnsures, CatalogTyped, FilesTyped, auxVars
  <2>2. HolderTyped'
    BY <1>7, Bounds DEF OpenEnsures, At, Goto, memVars, LiveSteps, MaintSteps, OpenSteps,
       AllSteps, Writing, Publishing, HolderTyped, FilesTyped, ProcessTyped
  <2>3. FilesTyped' /\ ProcessTyped'
    BY <1>7 DEF OpenEnsures, At, auxVars, memVars, pairVars, FilesTyped, ProcessTyped
  <2> QED
    BY <2>1, <2>2, <2>3
<1>8. CASE OpenReflects
  <2>1. CatalogTyped'
    <3>1. Frames \subseteq Pos
      BY RunPos DEF FilesTyped, Frames
    <3> QED
      BY <3>1, <1>8, ReflectTyped DEF OpenReflects, CatalogTyped, auxVars
  <2>2. HolderTyped'
    BY <1>8, Bounds DEF OpenReflects, At, Goto, memVars, LiveSteps, MaintSteps,
       OpenSteps, AllSteps, Writing, Publishing, HolderTyped, FilesTyped, ProcessTyped
  <2>3. FilesTyped' /\ ProcessTyped'
    BY <1>8 DEF OpenReflects, At, auxVars, memVars, pairVars, FilesTyped, ProcessTyped
  <2> QED
    BY <2>1, <2>2, <2>3
<1>9. CASE OpenDone
  <2>1. CatalogTyped'
    BY <1>9, Bounds DEF OpenDone, At, Stamp, auxVars, CatalogTyped, FilesTyped
  <2>2. ProcessTyped'
    BY <1>9, Bounds DEF OpenDone, auxVars, ProcessTyped, FilesTyped
  <2>3. HolderTyped'
    BY <1>9, Bounds DEF OpenDone, At, Nobody, LiveSteps, MaintSteps, OpenSteps, AllSteps,
       Writing, Publishing, HolderTyped, FilesTyped, ProcessTyped
  <2>4. FilesTyped'
    BY <1>9 DEF OpenDone, At, pairVars, FilesTyped
  <2> QED
    BY <2>1, <2>2, <2>3, <2>4
<1> QED
  BY <1>1, <1>2, <1>3, <1>4, <1>5, <1>6, <1>7, <1>8, <1>9 DEF Opening


LEMMA OthersTyped == ASSUME TypeOK, OtherProcess \/ RetryElapsed \/ Crash PROVE TypeOK'
<1> USE DEF TypeOK
<1>1. CASE BuilderStarts
  <2>1. CatalogTyped'
    BY <1>1, Bounds DEF BuilderStarts, diskVars, pairVars, CatalogTyped, FilesTyped
  <2>2. FilesTyped' /\ ProcessTyped' /\ HolderTyped'
    BY <1>1 DEF BuilderStarts, diskVars, memVars, pairVars, FilesTyped, ProcessTyped,
       HolderTyped
  <2> QED
    BY <2>1, <2>2
<1>2. CASE BuilderEnds
  <2>1. CatalogTyped'
    BY <1>2, FreshTyped, Bounds DEF BuilderEnds, CatalogTyped, NoFile
  <2>2. FilesTyped' /\ ProcessTyped' /\ HolderTyped'
    BY <1>2 DEF BuilderEnds, NoFile, memVars, pairVars, FilesTyped, ProcessTyped,
       HolderTyped
  <2> QED
    BY <2>1, <2>2
<1>3. CASE RetryElapsed
  <2>1. ProcessTyped'
    BY <1>3, Bounds DEF RetryElapsed, auxVars, ProcessTyped, FilesTyped
  <2>2. FilesTyped' /\ CatalogTyped' /\ HolderTyped'
    BY <1>3 DEF RetryElapsed, auxVars, diskVars, pairVars, FilesTyped, CatalogTyped,
       HolderTyped
  <2> QED
    BY <2>1, <2>2
<1>4. CASE Crash
  <2>1. FilesTyped'
    <3>1. hold.from .. wal.hi \subseteq Pos
      BY RunPos DEF FilesTyped, HolderTyped
    <3>2. \A n \in Pos : [wal EXCEPT !.hi = n]
              \in [head : {"none", "part", "full"}, gen : Gen, lo : Pos, hi : Pos]
      BY DEF FilesTyped
    <3> QED
      BY <3>1, <3>2, <1>4 DEF Crash, ProcessEnds, FilesTyped
  <2>2. ProcessTyped'
    BY <1>4, Bounds DEF Crash, NoPrep, ProcessEnds, auxVars, ProcessTyped, FilesTyped
  <2>3. HolderTyped'
    BY <1>4, Bounds DEF Crash, At, Nobody, ProcessEnds, LiveSteps, MaintSteps, OpenSteps,
       AllSteps, Writing, Publishing, HolderTyped, FilesTyped, ProcessTyped
  <2>4. CatalogTyped'
    BY <1>4 DEF Crash, At, ProcessEnds, auxVars, CatalogTyped
  <2> QED
    BY <2>1, <2>2, <2>3, <2>4
<1> QED
  BY <1>1, <1>2, <1>3, <1>4 DEF OtherProcess

LEMMA TypeStep == TypeOK /\ [Next]_vars => TypeOK'
<1> SUFFICES ASSUME TypeOK, [Next]_vars PROVE TypeOK'
  OBVIOUS
<1>1. CASE Next
  BY <1>1, WritersTyped, SettlingTyped, PublicationTyped, MaintenanceTyped, OpeningTyped,
     OthersTyped DEF Next
<1>2. CASE UNCHANGED vars
  <2>1. FilesTyped' /\ CatalogTyped'
    BY <1>2 DEF TypeOK, FilesTyped, CatalogTyped, vars, diskVars, pairVars, auxVars
  <2>2. ProcessTyped' /\ HolderTyped'
    BY <1>2 DEF TypeOK, ProcessTyped, HolderTyped, vars, memVars, auxVars
  <2> QED
    BY <2>1, <2>2 DEF TypeOK
<1> QED
  BY <1>1, <1>2

(* Type correctness of the store, whatever fails and wherever it crashes: in  *)
(* particular no sweep ever stands at a step of a compaction, and no          *)
(* maintenance at one that truncates the log.                                 *)
THEOREM TypeCorrect == Spec => []TypeOK
<1>1. Init => TypeOK
  BY InitTyped
<1> QED
  BY <1>1, TypeStep, PTL DEF Spec

------------------------------------------------------------------------------
(* The base follows the log *)

(* What a compaction has fixed before it may publish a base. *)
PublishReady ==
  /\ At("publish") => WalIs(stage.gen)
  /\ hold.by = "maint" /\ At("stamp") => WalIs(stage.gen)
  /\ hold.by = "open" /\ At("wal") => PairOk

(* Who may be compacting at all, and that the stage is what was built. *)
OneCompactor ==
  /\ hold.by = "live" /\ hold.at \notin Writing => mode = "foreground"
  /\ hold.by = "open" => phase = "opening"
  /\ prep # NoPrep => phase = "up" /\ mode = "background"
  /\ hold.by = "maint" => prep.at = "built"
  /\ prep.at = "built" => stage.gen = prep.gen

BaseLogInv == TypeOK /\ OneCompactor /\ PublishReady
(* A step that keeps the holder and the pair, one that leaves the holder at    *)
(* none of the steps PublishReady speaks of, and the end of settle_delta.     *)

LEMMA SameHolder ==
  ASSUME PublishReady, UNCHANGED <<pairVars, hold>> PROVE PublishReady'
  BY DEF PublishReady, PairOk, WalIs, At, pairVars

LEMMA Elsewhere ==
  ASSUME hold'.at \notin {"publish", "stamp", "wal"} PROVE PublishReady'
  BY DEF PublishReady, At

LEMMA SettleHolder ==
  ASSUME TypeOK, NEW again, AfterSettle(again)
  PROVE  \/ hold' = Nobody
         \/ hold'.by = hold.by /\ hold'.at = "append"
  BY DEF AfterSettle, TypeOK, HolderTyped

LEMMA SettleElsewhere ==
  ASSUME TypeOK, NEW again, AfterSettle(again) PROVE PublishReady'
  BY SettleHolder, Elsewhere DEF Nobody

LEMMA SettleCompactor ==
  ASSUME TypeOK, OneCompactor, NEW again, AfterSettle(again), hold.by = "live",
         prep = NoPrep, prep' = prep
  PROVE  OneCompactor'
<1>1. hold'.by = "none" \/ (hold'.by = "live" /\ hold'.at = "append")
  BY SettleHolder DEF Nobody
<1> QED
  BY <1>1 DEF OneCompactor, NoPrep, Writing

LEMMA WritersOneCompactor == ASSUME TypeOK, OneCompactor, Writers PROVE OneCompactor'
<1> USE DEF BaseLogInv
<1>1. ASSUME NEW w \in {"live", "sweep"}, Refused(w) PROVE OneCompactor'
  BY <1>1 DEF Refused, Nobody, diskVars, pairVars, OneCompactor, TypeOK, HolderTyped,
     ProcessTyped, Writing
<1>2. ASSUME NEW w \in {"live", "sweep"}, NEW k \in 1 .. Batch, Acquire(w, k) PROVE OneCompactor'
  BY <1>2 DEF Acquire, Nobody, diskVars, memVars, pairVars, OneCompactor, TypeOK,
     HolderTyped, ProcessTyped, Writing
<1>3. CASE AppendFrame
  BY <1>3 DEF AppendFrame, At, memVars, OneCompactor, TypeOK, HolderTyped, ProcessTyped,
     Writing
<1>4. CASE AppendDone
  BY <1>4 DEF AppendDone, At, Goto, diskVars, memVars, pairVars, OneCompactor, TypeOK,
     HolderTyped, ProcessTyped, Writing
<1>5. CASE AppendFails
  BY <1>5 DEF AppendFails, At, Nobody, WriterFails, diskVars, pairVars, OneCompactor,
     TypeOK, HolderTyped, ProcessTyped, Writing
<1>6. CASE ApplyCatalog
  BY <1>6 DEF ApplyCatalog, At, Goto, memVars, pairVars, OneCompactor, TypeOK,
     HolderTyped, ProcessTyped, Writing
<1>7. CASE ApplyCatalogFails
  BY <1>7 DEF ApplyCatalogFails, At, Nobody, WriterFails, diskVars, pairVars,
     OneCompactor, TypeOK, HolderTyped, ProcessTyped, Writing
<1>8. CASE MarkDelta
  <2>1. CASE mode = "foreground"
    <3>1. hold' = [hold EXCEPT !.at = "settle", !.then = "return"]
      BY <2>1, <1>8 DEF MarkDelta
    <3>2. hold'.by = hold.by
      BY <3>1 DEF TypeOK, HolderTyped
    <3> QED
      BY <2>1, <3>2, <1>8 DEF MarkDelta, OneCompactor, memVars, pairVars
  <2>2. CASE mode # "foreground"
    BY <2>2, <1>8 DEF MarkDelta, OneCompactor, Nobody, memVars, pairVars
  <2> QED
    BY <2>1, <2>2
<1>9. CASE MarkDeltaFails
  BY <1>9 DEF MarkDeltaFails, At, Nobody, WriterFails, diskVars, pairVars, OneCompactor,
     TypeOK, HolderTyped, ProcessTyped, Writing
<1>10. CASE LiveFailClosed
  BY <1>10 DEF LiveFailClosed, pairVars, OneCompactor, TypeOK, HolderTyped, ProcessTyped,
     Writing
<1>11. CASE SweepRecordsFailure
  BY <1>11 DEF SweepRecordsFailure, memVars, pairVars, OneCompactor, TypeOK, HolderTyped,
     ProcessTyped, Writing
<1>12. CASE SweepStops
  BY <1>12 DEF SweepStops, diskVars, pairVars, OneCompactor, TypeOK, HolderTyped,
     ProcessTyped, Writing
<1> QED
  BY <1>1, <1>2, <1>3, <1>4, <1>5, <1>6, <1>7, <1>8, <1>9, <1>10, <1>11, <1>12 DEF
     Writers

LEMMA SettlingOneCompactor == ASSUME TypeOK, OneCompactor, Settling PROVE OneCompactor'
<1> USE DEF BaseLogInv
<1>1. CASE SettleSkips
  BY <1>1 DEF SettleSkips, AfterSettle, At, Nobody, diskVars, pairVars, OneCompactor,
     TypeOK, HolderTyped, ProcessTyped, Writing
<1>2. CASE Fold
  <2>1. hold.by = "live" /\ hold'.by = "live"
    BY <1>2 DEF Fold, At, TypeOK, HolderTyped, Writing, MaintSteps, OpenSteps, Publishing
  <2>2. mode = "foreground" /\ prep = NoPrep
    BY <2>1, <1>2 DEF Fold, At, OneCompactor, Writing
  <2> QED
    BY <2>1, <2>2, <1>2 DEF Fold, OneCompactor, memVars, NoPrep
<1>3. CASE FoldFails
  <2>1. hold.by = "live"
    BY <1>3 DEF FoldFails, At, TypeOK, HolderTyped, Writing, MaintSteps, OpenSteps, Publishing
  <2>2. mode = "foreground" /\ prep = NoPrep
    BY <2>1, <1>3 DEF FoldFails, At, OneCompactor, Writing
  <2> QED
    BY <2>1, <2>2, <1>3, SettleCompactor DEF FoldFails
<1>4. CASE WriteMarker
  BY <1>4 DEF WriteMarker, At, Goto, memVars, OneCompactor, TypeOK, HolderTyped,
     ProcessTyped, Writing
<1>5. CASE WriteMarkerFails
  BY <1>5 DEF WriteMarkerFails, AfterSettle, At, Nobody, OneCompactor, TypeOK,
     HolderTyped, ProcessTyped, Writing
<1>6. CASE ResetTruncates
  BY <1>6 DEF ResetTruncates, At, Goto, Short, memVars, OneCompactor, TypeOK,
     HolderTyped, ProcessTyped, Writing
<1>7. CASE ResetWritesMagic
  BY <1>7 DEF ResetWritesMagic, At, Goto, Short, memVars, OneCompactor, TypeOK,
     HolderTyped, ProcessTyped, Writing
<1>8. CASE ResetWritesGeneration
  BY <1>8 DEF ResetWritesGeneration, At, Bare, Goto, OneCompactor, TypeOK, HolderTyped,
     ProcessTyped, Writing
<1>9. CASE ResetFails
  BY <1>9 DEF ResetFails, AfterSettle, Nobody, diskVars, pairVars, OneCompactor, TypeOK,
     HolderTyped, ProcessTyped, Writing
<1>10. CASE ClearFails
  BY <1>10 DEF ClearFails, AfterSettle, At, Bare, Nobody, OneCompactor, TypeOK,
     HolderTyped, ProcessTyped, Writing
<1> QED
  BY <1>1, <1>2, <1>3, <1>4, <1>5, <1>6, <1>7, <1>8, <1>9, <1>10 DEF Settling

LEMMA PublicationOneCompactor == ASSUME TypeOK, OneCompactor, Publication PROVE OneCompactor'
<1> USE DEF BaseLogInv
<1>1. CASE Publish
  BY <1>1 DEF Publish, At, Goto, memVars, OneCompactor, TypeOK, HolderTyped,
     ProcessTyped, Writing
<1>2. CASE PublishFails
  BY <1>2 DEF PublishFails, At, MaintFails, NoPrep, Nobody, WriterFails, OneCompactor,
     TypeOK, HolderTyped, ProcessTyped, Writing
<1>3. CASE AdvanceGeneration
  BY <1>3 DEF AdvanceGeneration, At, Goto, memVars, pairVars, OneCompactor, TypeOK,
     HolderTyped, ProcessTyped, Writing
<1>4. CASE MarkEmptied
  BY <1>4 DEF MarkEmptied, At, Goto, memVars, pairVars, OneCompactor, TypeOK,
     HolderTyped, ProcessTyped, Writing
<1>5. CASE CatalogStepFails
  BY <1>5 DEF CatalogStepFails, At, MaintFails, NoPrep, Nobody, WriterFails, diskVars,
     pairVars, OneCompactor, TypeOK, HolderTyped, ProcessTyped, Writing
<1>6. CASE Unmark
  BY <1>6 DEF Unmark, At, Goto, OneCompactor, TypeOK, HolderTyped, ProcessTyped, Writing
<1>7. CASE UnmarkFails
  <2>1. CASE hold.by = "live"
    <3>1. prep = NoPrep
      BY <2>1, <1>7 DEF UnmarkFails, At, OneCompactor, Writing
    <3> QED
      BY <2>1, <3>1, <1>7, SettleCompactor DEF UnmarkFails
  <2>2. CASE hold.by # "live"
    BY <2>2, <1>7 DEF UnmarkFails, MaintFails, OneCompactor, Nobody, NoPrep
  <2> QED
    BY <2>1, <2>2
<1>8. CASE Unstage
  <2>1. CASE hold.by = "live"
    <3>1. mode = "foreground" /\ prep = NoPrep
      BY <2>1, <1>8 DEF Unstage, At, OneCompactor, Writing
    <3> QED
      BY <2>1, <3>1, <1>8, SettleCompactor DEF Unstage
  <2>2. CASE hold.by = "open"
    <3>1. hold'.by = "open" /\ prep = NoPrep
      BY <2>2, <1>8 DEF Unstage, Goto, OneCompactor, TypeOK, HolderTyped
    <3> QED
      BY <2>2, <3>1, <1>8 DEF Unstage, OneCompactor, NoPrep
  <2>3. CASE hold.by = "maint"
    BY <2>3, <1>8 DEF Unstage, OneCompactor, Nobody, NoPrep
  <2> QED
    BY <2>1, <2>2, <2>3, <1>8 DEF Unstage
<1> QED
  BY <1>1, <1>2, <1>3, <1>4, <1>5, <1>6, <1>7, <1>8 DEF Publication

LEMMA MaintenanceOneCompactor == ASSUME TypeOK, OneCompactor, Maintenance PROVE OneCompactor'
<1> USE DEF BaseLogInv
<1>1. CASE Freeze
  BY <1>1 DEF Freeze, NoPrep, Nobody, diskVars, pairVars, OneCompactor, TypeOK,
     HolderTyped, ProcessTyped, Writing
<1>2. CASE Build
  <2>1. prep # NoPrep /\ hold.by # "maint"
    BY <1>2 DEF Build, NoPrep, OneCompactor
  <2>2. prep'.gen = stage'.gen
    BY <1>2 DEF Build, TypeOK, ProcessTyped
  <2> QED
    BY <2>1, <2>2, <1>2 DEF Build, OneCompactor
<1>3. CASE BuildFails
  BY <1>3 DEF BuildFails, NoFile, NoPrep, OneCompactor, TypeOK, HolderTyped,
     ProcessTyped, Writing
<1>4. CASE MaintAcquire
  <2>1. CASE stale
    BY <2>1, <1>4 DEF MaintAcquire, OneCompactor, Nobody, NoPrep, diskVars, pairVars
  <2>2. CASE ~stale
    BY <2>2, <1>4 DEF MaintAcquire, OneCompactor, Nobody, diskVars, pairVars
  <2> QED
    BY <2>1, <2>2
<1>5. CASE WriteIntent
  BY <1>5 DEF WriteIntent, At, Goto, OneCompactor, TypeOK, HolderTyped, ProcessTyped,
     Writing
<1>6. CASE StageTailFails
  BY <1>6 DEF StageTailFails, At, MaintFails, NoPrep, Nobody, diskVars, pairVars,
     OneCompactor, TypeOK, HolderTyped, ProcessTyped, Writing
<1>7. CASE WriteIntentFails
  BY <1>7 DEF WriteIntentFails, At, MaintFails, NoPrep, Nobody, OneCompactor, TypeOK,
     HolderTyped, ProcessTyped, Writing
<1>8. CASE Install
  BY <1>8 DEF Install, At, Goto, memVars, OneCompactor, TypeOK, HolderTyped,
     ProcessTyped, Writing
<1>9. CASE InstallFails
  BY <1>9 DEF InstallFails, At, MaintFails, NoPrep, Nobody, OneCompactor, TypeOK,
     HolderTyped, ProcessTyped, Writing
<1>10. CASE MaintMarker
  BY <1>10 DEF MaintMarker, At, Goto, memVars, OneCompactor, TypeOK, HolderTyped,
     ProcessTyped, Writing
<1>11. CASE MaintMarkerFails
  BY <1>11 DEF MaintMarkerFails, At, MaintFails, NoPrep, Nobody, OneCompactor, TypeOK,
     HolderTyped, ProcessTyped, Writing
<1>12. CASE FinishIntent
  BY <1>12 DEF FinishIntent, At, Goto, OneCompactor, TypeOK, HolderTyped, ProcessTyped,
     Writing
<1>13. CASE FinishIntentFails
  BY <1>13 DEF FinishIntentFails, At, MaintFails, NoPrep, Nobody, OneCompactor, TypeOK,
     HolderTyped, ProcessTyped, Writing
<1>14. CASE MaintFlag
  BY <1>14 DEF MaintFlag, Nobody, diskVars, pairVars, OneCompactor, TypeOK, HolderTyped,
     ProcessTyped, Writing
<1>15. CASE MaintExit
  BY <1>15 DEF MaintExit, NoPrep, Nobody, ProcessEnds, OneCompactor, TypeOK, HolderTyped,
     ProcessTyped, Writing
<1> QED
  BY <1>1, <1>2, <1>3, <1>4, <1>5, <1>6, <1>7, <1>8, <1>9, <1>10, <1>11, <1>12, <1>13,
     <1>14, <1>15 DEF Maintenance

LEMMA OpeningOneCompactor == ASSUME TypeOK, OneCompactor, Opening PROVE OneCompactor'
<1> USE DEF BaseLogInv
<1>1. CASE OpenStart
  BY <1>1 DEF OpenStart, Nobody, diskVars, pairVars, OneCompactor, TypeOK, HolderTyped,
     ProcessTyped, Writing
<1>2. CASE OpenResets
  BY <1>2 DEF OpenResets, At, Short, memVars, OneCompactor, TypeOK, HolderTyped,
     ProcessTyped, Writing
<1>3. CASE OpenWal
  BY <1>3 DEF OpenWal, At, Bare, Goto, memVars, OneCompactor, TypeOK, HolderTyped,
     ProcessTyped, Writing
<1>4. CASE OpenTidies
  <2>1. hold.by = "open" /\ hold'.by = "open"
    BY <1>4 DEF OpenTidies, At, Goto, TypeOK, HolderTyped, Writing, LiveSteps, MaintSteps,
       Publishing
  <2>2. prep = NoPrep
    BY <2>1 DEF OneCompactor
  <2> QED
    BY <2>1, <2>2, <1>4 DEF OpenTidies, OneCompactor, NoPrep, memVars
<1>5. CASE OpenRecovers
  BY <1>5 DEF OpenRecovers, At, Goto, memVars, pairVars, OneCompactor, TypeOK,
     HolderTyped, ProcessTyped, Writing
<1>6. CASE OpenFinishesIntent
  BY <1>6 DEF OpenFinishesIntent, At, Goto, memVars, OneCompactor, TypeOK, HolderTyped,
     ProcessTyped, Writing
<1>7. CASE OpenEnsures
  BY <1>7 DEF OpenEnsures, At, Goto, memVars, pairVars, OneCompactor, TypeOK,
     HolderTyped, ProcessTyped, Writing
<1>8. CASE OpenReflects
  BY <1>8 DEF OpenReflects, At, Goto, memVars, pairVars, OneCompactor, TypeOK,
     HolderTyped, ProcessTyped, Writing
<1>9. CASE OpenDone
  BY <1>9 DEF OpenDone, At, Nobody, pairVars, OneCompactor, TypeOK, HolderTyped,
     ProcessTyped, Writing
<1> QED
  BY <1>1, <1>2, <1>3, <1>4, <1>5, <1>6, <1>7, <1>8, <1>9 DEF Opening

LEMMA OthersOneCompactor == ASSUME TypeOK, OneCompactor, OtherProcess \/ RetryElapsed \/ Crash PROVE OneCompactor'
<1> USE DEF BaseLogInv
<1>1. CASE BuilderStarts
  BY <1>1 DEF BuilderStarts, diskVars, memVars, pairVars, OneCompactor, TypeOK,
     HolderTyped, ProcessTyped, Writing
<1>2. CASE BuilderEnds
  BY <1>2 DEF BuilderEnds, NoFile, memVars, pairVars, OneCompactor, TypeOK, HolderTyped,
     ProcessTyped, Writing
<1>3. CASE RetryElapsed
  BY <1>3 DEF RetryElapsed, diskVars, pairVars, OneCompactor, TypeOK, HolderTyped,
     ProcessTyped, Writing
<1>4. CASE Crash
  BY <1>4 DEF Crash, At, NoPrep, Nobody, ProcessEnds, OneCompactor, TypeOK, HolderTyped,
     ProcessTyped, Writing
<1> QED
  BY <1>1, <1>2, <1>3, <1>4 DEF OtherProcess

LEMMA WritersPublishReady == ASSUME BaseLogInv, Writers PROVE PublishReady'
<1> USE DEF BaseLogInv
<1>1. ASSUME NEW w \in {"live", "sweep"}, Refused(w) PROVE PublishReady'
  BY <1>1, SameHolder DEF Refused, diskVars
<1>2. ASSUME NEW w \in {"live", "sweep"}, NEW k \in 1 .. Batch, Acquire(w, k) PROVE PublishReady'
  BY <1>2, Elsewhere DEF Acquire, Nobody
<1>3. CASE AppendFrame
  BY <1>3 DEF AppendFrame, At, OneCompactor, PublishReady, WalIs, TypeOK, HolderTyped,
     Writing, Publishing
<1>4. CASE AppendDone
  BY <1>4 DEF AppendDone, At, Goto, diskVars, pairVars, OneCompactor, PublishReady,
     WalIs, TypeOK, HolderTyped, Writing, Publishing
<1>5. CASE AppendFails
  BY <1>5 DEF AppendFails, At, Nobody, WriterFails, diskVars, pairVars, OneCompactor,
     PublishReady, WalIs, TypeOK, HolderTyped, Writing, Publishing
<1>6. CASE ApplyCatalog
  BY <1>6 DEF ApplyCatalog, At, Goto, pairVars, OneCompactor, PublishReady, WalIs,
     TypeOK, HolderTyped, Writing, Publishing
<1>7. CASE ApplyCatalogFails
  BY <1>7 DEF ApplyCatalogFails, At, Nobody, WriterFails, diskVars, pairVars,
     OneCompactor, PublishReady, WalIs, TypeOK, HolderTyped, Writing, Publishing
<1>8. CASE MarkDelta
  <2>1. CASE mode = "foreground"
    <3>1. hold' = [hold EXCEPT !.at = "settle", !.then = "return"]
      BY <2>1, <1>8 DEF MarkDelta
    <3> QED
      BY <3>1, Elsewhere DEF TypeOK, HolderTyped
  <2>2. CASE mode # "foreground"
    BY <2>2, <1>8, Elsewhere DEF MarkDelta, Nobody
  <2> QED
    BY <2>1, <2>2
<1>9. CASE MarkDeltaFails
  BY <1>9 DEF MarkDeltaFails, At, Nobody, WriterFails, diskVars, pairVars, OneCompactor,
     PublishReady, WalIs, TypeOK, HolderTyped, Writing, Publishing
<1>10. CASE LiveFailClosed
  BY <1>10, SameHolder DEF LiveFailClosed
<1>11. CASE SweepRecordsFailure
  BY <1>11, SameHolder DEF SweepRecordsFailure
<1>12. CASE SweepStops
  BY <1>12, SameHolder DEF SweepStops, diskVars
<1> QED
  BY <1>1, <1>2, <1>3, <1>4, <1>5, <1>6, <1>7, <1>8, <1>9, <1>10, <1>11, <1>12 DEF
     Writers

LEMMA SettlingPublishReady == ASSUME BaseLogInv, Settling PROVE PublishReady'
<1> USE DEF BaseLogInv
<1>1. CASE SettleSkips
  BY <1>1 DEF SettleSkips, AfterSettle, At, Nobody, diskVars, pairVars, OneCompactor,
     PublishReady, WalIs, TypeOK, HolderTyped, Writing, Publishing
<1>2. CASE Fold
  <2>1. hold.by = "live"
    BY <1>2 DEF Fold, At, TypeOK, HolderTyped, Writing, MaintSteps, OpenSteps, Publishing
  <2>2. hold'.by = "live" /\ hold'.at = "stamp"
    BY <2>1, <1>2 DEF Fold, TypeOK, HolderTyped
  <2> QED
    BY <2>2 DEF PublishReady, At
<1>3. CASE FoldFails
  BY <1>3 DEF FoldFails, AfterSettle, At, Nobody, OneCompactor, PublishReady, WalIs,
     TypeOK, HolderTyped, Writing, Publishing
<1>4. CASE WriteMarker
  BY <1>4 DEF WriteMarker, At, Goto, OneCompactor, PublishReady, WalIs, TypeOK,
     HolderTyped, Writing, Publishing
<1>5. CASE WriteMarkerFails
  BY <1>5 DEF WriteMarkerFails, AfterSettle, At, Nobody, OneCompactor, PublishReady,
     WalIs, TypeOK, HolderTyped, Writing, Publishing
<1>6. CASE ResetTruncates
  BY <1>6 DEF ResetTruncates, At, Goto, Short, OneCompactor, PublishReady, WalIs, TypeOK,
     HolderTyped, Writing, Publishing
<1>7. CASE ResetWritesMagic
  BY <1>7 DEF ResetWritesMagic, At, Goto, Short, OneCompactor, PublishReady, WalIs,
     TypeOK, HolderTyped, Writing, Publishing
<1>8. CASE ResetWritesGeneration
  BY <1>8 DEF ResetWritesGeneration, At, Bare, Goto, OneCompactor, PublishReady, WalIs,
     TypeOK, HolderTyped, Writing, Publishing
<1>9. CASE ResetFails
  BY <1>9, Elsewhere DEF ResetFails, AfterSettle, Nobody, TypeOK, HolderTyped
<1>10. CASE ClearFails
  BY <1>10 DEF ClearFails, AfterSettle, At, Bare, Nobody, OneCompactor, PublishReady,
     WalIs, TypeOK, HolderTyped, Writing, Publishing
<1> QED
  BY <1>1, <1>2, <1>3, <1>4, <1>5, <1>6, <1>7, <1>8, <1>9, <1>10 DEF Settling

LEMMA PublicationPublishReady == ASSUME BaseLogInv, Publication PROVE PublishReady'
<1> USE DEF BaseLogInv
<1>1. CASE Publish
  BY <1>1 DEF Publish, At, Goto, OneCompactor, PublishReady, WalIs, TypeOK, HolderTyped,
     Writing, Publishing
<1>2. CASE PublishFails
  BY <1>2 DEF PublishFails, At, MaintFails, NoPrep, Nobody, WriterFails, OneCompactor,
     PublishReady, WalIs, TypeOK, HolderTyped, Writing, Publishing
<1>3. CASE AdvanceGeneration
  BY <1>3 DEF AdvanceGeneration, At, Goto, pairVars, OneCompactor, PublishReady, WalIs,
     TypeOK, HolderTyped, Writing, Publishing
<1>4. CASE MarkEmptied
  BY <1>4 DEF MarkEmptied, At, Goto, pairVars, OneCompactor, PublishReady, WalIs, TypeOK,
     HolderTyped, Writing, Publishing
<1>5. CASE CatalogStepFails
  BY <1>5 DEF CatalogStepFails, At, MaintFails, NoPrep, Nobody, WriterFails, diskVars,
     pairVars, OneCompactor, PublishReady, WalIs, TypeOK, HolderTyped, Writing,
     Publishing
<1>6. CASE Unmark
  BY <1>6 DEF Unmark, At, Goto, OneCompactor, PublishReady, WalIs, TypeOK, HolderTyped,
     Writing, Publishing
<1>7. CASE UnmarkFails
  <2>1. CASE hold.by = "live"
    BY <2>1, <1>7, SettleElsewhere DEF UnmarkFails
  <2>2. CASE hold.by # "live"
    BY <2>2, <1>7, Elsewhere DEF UnmarkFails, MaintFails, Nobody
  <2> QED
    BY <2>1, <2>2
<1>8. CASE Unstage
  <2>1. CASE hold.by = "live"
    BY <2>1, <1>8, SettleElsewhere DEF Unstage
  <2>2. CASE hold.by = "open"
    BY <2>2, <1>8, Elsewhere DEF Unstage, Goto, TypeOK, HolderTyped
  <2>3. CASE hold.by = "maint"
    BY <2>3, <1>8, Elsewhere DEF Unstage, Nobody
  <2> QED
    BY <2>1, <2>2, <2>3, <1>8 DEF Unstage
<1> QED
  BY <1>1, <1>2, <1>3, <1>4, <1>5, <1>6, <1>7, <1>8 DEF Publication

LEMMA MaintenancePublishReady == ASSUME BaseLogInv, Maintenance PROVE PublishReady'
<1> USE DEF BaseLogInv
<1>1. CASE Freeze
  BY <1>1, SameHolder DEF Freeze, diskVars
<1>2. CASE Build
  <2>1. prep # NoPrep /\ prep.at # "built"
    BY <1>2 DEF Build, NoPrep
  <2>2. hold.at \in Writing \cup {"free"}
    BY <2>1 DEF OneCompactor, TypeOK, HolderTyped
  <2> QED
    BY <2>2, <1>2, Elsewhere DEF Build, Writing
<1>3. CASE BuildFails
  <2>1. prep # NoPrep /\ prep.at # "built"
    BY <1>3 DEF BuildFails, NoPrep
  <2>2. hold.at \in Writing \cup {"free"}
    BY <2>1 DEF OneCompactor, TypeOK, HolderTyped
  <2> QED
    BY <2>2, <1>3, Elsewhere DEF BuildFails, Writing
<1>4. CASE MaintAcquire
  <2>1. CASE stale
    BY <2>1, <1>4, SameHolder DEF MaintAcquire, diskVars
  <2>2. CASE ~stale
    BY <2>2, <1>4, Elsewhere DEF MaintAcquire, Nobody
  <2> QED
    BY <2>1, <2>2
<1>5. CASE WriteIntent
  BY <1>5 DEF WriteIntent, At, Goto, OneCompactor, PublishReady, WalIs, TypeOK,
     HolderTyped, Writing, Publishing
<1>6. CASE StageTailFails
  BY <1>6 DEF StageTailFails, At, MaintFails, NoPrep, Nobody, diskVars, pairVars,
     OneCompactor, PublishReady, WalIs, TypeOK, HolderTyped, Writing, Publishing
<1>7. CASE WriteIntentFails
  BY <1>7 DEF WriteIntentFails, At, MaintFails, NoPrep, Nobody, OneCompactor,
     PublishReady, WalIs, TypeOK, HolderTyped, Writing, Publishing
<1>8. CASE Install
  BY <1>8 DEF Install, At, Goto, OneCompactor, PublishReady, WalIs, TypeOK, HolderTyped,
     Writing, Publishing
<1>9. CASE InstallFails
  BY <1>9 DEF InstallFails, At, MaintFails, NoPrep, Nobody, OneCompactor, PublishReady,
     WalIs, TypeOK, HolderTyped, Writing, Publishing
<1>10. CASE MaintMarker
  BY <1>10 DEF MaintMarker, At, Goto, OneCompactor, PublishReady, WalIs, TypeOK,
     HolderTyped, Writing, Publishing
<1>11. CASE MaintMarkerFails
  BY <1>11 DEF MaintMarkerFails, At, MaintFails, NoPrep, Nobody, OneCompactor,
     PublishReady, WalIs, TypeOK, HolderTyped, Writing, Publishing
<1>12. CASE FinishIntent
  BY <1>12 DEF FinishIntent, At, Goto, OneCompactor, PublishReady, WalIs, TypeOK,
     HolderTyped, Writing, Publishing
<1>13. CASE FinishIntentFails
  BY <1>13 DEF FinishIntentFails, At, MaintFails, NoPrep, Nobody, OneCompactor,
     PublishReady, WalIs, TypeOK, HolderTyped, Writing, Publishing
<1>14. CASE MaintFlag
  BY <1>14, SameHolder DEF MaintFlag, diskVars
<1>15. CASE MaintExit
  BY <1>15, Elsewhere DEF MaintExit, ProcessEnds, Nobody
<1> QED
  BY <1>1, <1>2, <1>3, <1>4, <1>5, <1>6, <1>7, <1>8, <1>9, <1>10, <1>11, <1>12, <1>13,
     <1>14, <1>15 DEF Maintenance

LEMMA OpeningPublishReady == ASSUME BaseLogInv, Opening PROVE PublishReady'
<1> USE DEF BaseLogInv
<1>1. CASE OpenStart
  <2>1. PairOk'
    BY <1>1 DEF OpenStart, Openable, PairOk, WalIs, diskVars, pairVars
  <2>2. hold'.by = "open" /\ hold'.at = "wal"
    BY <1>1 DEF OpenStart, Nobody
  <2> QED
    BY <2>1, <2>2 DEF PublishReady, At
<1>2. CASE OpenResets
  <2>1. hold.by = "open" /\ PairOk
    BY <1>2 DEF OpenResets, At, PublishReady, TypeOK, HolderTyped, Writing, LiveSteps,
       MaintSteps, Publishing
  <2>2. PairOk'
    BY <2>1, <1>2 DEF OpenResets, PairOk, UsesStage, WalIs, Short
  <2> QED
    BY <2>1, <2>2, <1>2 DEF OpenResets, At, PublishReady
<1>3. CASE OpenWal
  <2>1. hold.by = "open" /\ PairOk
    BY <1>3 DEF OpenWal, At, PublishReady, TypeOK, HolderTyped, Writing, LiveSteps,
       MaintSteps, Publishing
  <2>2. CASE ~UsesStage
    BY <2>2, <1>3, Elsewhere DEF OpenWal, Goto, TypeOK, HolderTyped
  <2>3. CASE UsesStage
    <3>1. CASE wal.head = "full"
      <4>1. WalIs(stage.gen)
        BY <2>1, <2>3, <3>1, <1>3 DEF OpenWal, PairOk, UsesStage, WalIs
      <4> QED
        BY <4>1, <2>3, <3>1, <1>3 DEF OpenWal, Goto, At, PublishReady, WalIs, TypeOK, HolderTyped
    <3>2. CASE wal.head # "full"
      <4>1. wal' = Bare(stage.gen, stage.upto)
        BY <2>3, <3>2, <1>3 DEF OpenWal
      <4> QED
        BY <4>1, <2>3, <1>3 DEF OpenWal, Bare, Goto, At, PublishReady, WalIs, TypeOK, HolderTyped
    <3> QED
      BY <3>1, <3>2
  <2> QED
    BY <2>2, <2>3
<1>4. CASE OpenTidies
  BY <1>4 DEF OpenTidies, At, Goto, NoFile, OneCompactor, PublishReady, WalIs, TypeOK,
     HolderTyped, Writing, Publishing
<1>5. CASE OpenRecovers
  BY <1>5 DEF OpenRecovers, At, Goto, pairVars, OneCompactor, PublishReady, WalIs,
     TypeOK, HolderTyped, Writing, Publishing
<1>6. CASE OpenFinishesIntent
  BY <1>6 DEF OpenFinishesIntent, At, Goto, OneCompactor, PublishReady, WalIs, TypeOK,
     HolderTyped, Writing, Publishing
<1>7. CASE OpenEnsures
  BY <1>7 DEF OpenEnsures, At, Goto, pairVars, OneCompactor, PublishReady, WalIs, TypeOK,
     HolderTyped, Writing, Publishing
<1>8. CASE OpenReflects
  BY <1>8 DEF OpenReflects, At, Goto, pairVars, OneCompactor, PublishReady, WalIs,
     TypeOK, HolderTyped, Writing, Publishing
<1>9. CASE OpenDone
  BY <1>9 DEF OpenDone, At, Nobody, pairVars, OneCompactor, PublishReady, WalIs, TypeOK,
     HolderTyped, Writing, Publishing
<1> QED
  BY <1>1, <1>2, <1>3, <1>4, <1>5, <1>6, <1>7, <1>8, <1>9 DEF Opening

LEMMA OthersPublishReady == ASSUME BaseLogInv, OtherProcess \/ RetryElapsed \/ Crash PROVE PublishReady'
<1> USE DEF BaseLogInv
<1>1. CASE BuilderStarts
  BY <1>1, SameHolder DEF BuilderStarts, diskVars
<1>2. CASE BuilderEnds
  BY <1>2, SameHolder DEF BuilderEnds
<1>3. CASE RetryElapsed
  BY <1>3, SameHolder DEF RetryElapsed, diskVars
<1>4. CASE Crash
  BY <1>4 DEF Crash, At, NoPrep, Nobody, ProcessEnds, OneCompactor, PublishReady, WalIs,
     TypeOK, HolderTyped, Writing, Publishing
<1> QED
  BY <1>1, <1>2, <1>3, <1>4 DEF OtherProcess
LEMMA BaseLogStep == BaseLogInv /\ [Next]_vars => BaseLogInv'
<1> SUFFICES ASSUME BaseLogInv, [Next]_vars PROVE BaseLogInv'
  OBVIOUS
<1>1. TypeOK'
  BY TypeStep DEF BaseLogInv
<1>2. CASE Next
  <2>1. OneCompactor'
    BY <1>2, WritersOneCompactor, SettlingOneCompactor, PublicationOneCompactor,
       MaintenanceOneCompactor, OpeningOneCompactor, OthersOneCompactor DEF Next, BaseLogInv
  <2>2. PublishReady'
    BY <1>2, WritersPublishReady, SettlingPublishReady, PublicationPublishReady,
       MaintenancePublishReady, OpeningPublishReady, OthersPublishReady DEF Next
  <2> QED
    BY <1>1, <2>1, <2>2 DEF BaseLogInv
<1>3. CASE UNCHANGED vars
  <2>1. OneCompactor'
    BY <1>3 DEF BaseLogInv, OneCompactor, vars, diskVars, pairVars, memVars
  <2>2. PublishReady'
    BY <1>3, SameHolder DEF BaseLogInv, vars, diskVars
  <2> QED
    BY <1>1, <2>1, <2>2 DEF BaseLogInv
<1> QED
  BY <1>2, <1>3

(* Only two steps replace the base: a publication, and one that fails at an   *)
(* unknown point.                                                            *)
LEMMA OnlyPublishReplaces ==
  ASSUME BaseLogInv, [Next]_vars, base' # base
  PROVE  At("publish") /\ base' = stage
<1> USE DEF diskVars, pairVars
<1>1. CASE Writers
  BY <1>1 DEF Writers, Refused, Acquire, AppendFrame, AppendDone, AppendFails, ApplyCatalog,
     ApplyCatalogFails, MarkDelta, MarkDeltaFails, LiveFailClosed, SweepRecordsFailure, SweepStops
<1>2. CASE Settling
  BY <1>2 DEF Settling, SettleSkips, Fold, FoldFails, WriteMarker,
     WriteMarkerFails, ResetTruncates, ResetWritesMagic, ResetWritesGeneration, ResetFails, ClearFails
<1>3. CASE Publication
  BY <1>3 DEF Publication, Publish, PublishFails, AdvanceGeneration, MarkEmptied,
     CatalogStepFails, Unmark, UnmarkFails, Unstage
<1>4. CASE Maintenance
  BY <1>4 DEF Maintenance, Freeze, Build, BuildFails, MaintAcquire, WriteIntent, StageTailFails,
     WriteIntentFails, Install, InstallFails, MaintMarker, MaintMarkerFails, FinishIntent,
     FinishIntentFails, MaintFlag, MaintExit, ProcessEnds
<1>5. CASE Opening
  BY <1>5 DEF Opening, OpenStart, OpenResets, OpenWal, OpenTidies, OpenRecovers,
     OpenFinishesIntent, OpenEnsures, OpenReflects, OpenDone
<1>6. CASE OtherProcess \/ RetryElapsed \/ Crash
  BY <1>6 DEF OtherProcess, BuilderStarts, BuilderEnds, RetryElapsed, Crash, ProcessEnds
<1>7. CASE UNCHANGED vars
  BY <1>7 DEF vars
<1> QED
  BY <1>1, <1>2, <1>3, <1>4, <1>5, <1>6, <1>7 DEF Next

(* Whatever fails and wherever the store crashes, a base is replaced only by   *)
(* one whose generation the log on disk already carries, in the foreground,   *)
(* the background and the recovering compaction alike: recovery then always    *)
(* goes forward.                                                             *)
THEOREM BaseFollowsLogHolds == Spec => BaseFollowsLog
<1>1. Init => BaseLogInv
  <2> SUFFICES ASSUME Init PROVE BaseLogInv
    OBVIOUS
  <2>1. TypeOK
    BY InitTyped
  <2>2. OneCompactor /\ PublishReady
    BY DEF Init, OneCompactor, PublishReady, At, Nobody, NoPrep
  <2> QED
    BY <2>1, <2>2 DEF BaseLogInv
<1>2. BaseLogInv /\ [Next]_vars => (base' # base => WalIs(base'.gen))
  BY OnlyPublishReplaces DEF BaseLogInv, PublishReady
<1>3. BaseLogInv /\ [Next]_vars => [base' # base => WalIs(base'.gen)]_vars
  BY <1>2
<1> QED
  BY <1>1, <1>3, BaseLogStep, PTL DEF Spec, BaseFollowsLog
-----------------------------------------------------------------------------
(***************************************************************************)
(* A crash loses nothing.  For every number of changes, generations and    *)
(* frames, in both compaction modes: whatever the process was doing when   *)
(* it stopped, the files it leaves can be opened, stand for every change   *)
(* that was acknowledged, and a reader that is admitted never pairs a base *)
(* with the log of another generation.  The steps of the store are those   *)
(* of LogicalIndex, an index that survives crashes as one piece.           *)
(*                                                                         *)
(* The argument: the four files of the pair are always in one of five      *)
(* forms (FileForm), each of which openable and each naming its one set of *)
(* changes; the forms below FileForm say which of them the holder of the   *)
(* write lock, the build of the next base and a process that opens the     *)
(* store can meet at each of their steps.                                  *)
(*                                                                         *)
(* The second part is about the browse catalog beside the files: it never  *)
(* claims more than it holds.                                              *)
(***************************************************************************)

(* The calls of an inline compaction that may fail.  When the marker cannot  *)
(* be synced, or cannot be removed again, the code goes on as if it were not *)
(* there, and writers append to a log that a later open takes for replaced:  *)
(* found_marker_sync shows the change that is lost.                          *)
SafeFaults ==
  "foreground" \in Modes => {"markerSync", "clear", "unmark"} \cap Faults = {}
-----------------------------------------------------------------------------
(* The five forms of the files.                                              *)

\* The log is the base's, and holds every change the base lacks.
Whole == WalIs(base.gen) /\ wal.lo <= base.upto /\ base.upto <= wal.hi

\* The new log is in place and keeps the frames its intent promised.
IntentKept == intent.gen = base.gen /\ wal.hi - wal.lo >= intent.min

\* A staged base of a generation that is not the published one.
NewStage == stage.gen # 0 /\ stage.gen # base.gen

\* 1. The base with its own log; an intent was not begun, or was fulfilled.
Plain ==
  /\ marker = 0 /\ Whole
  /\ intent = NoIntent \/ intent.prev = base.gen \/ IntentKept

\* 2. The marker names the stage, which holds the whole of the base's log.
Marked ==
  /\ NewStage /\ marker = stage.gen /\ intent = NoIntent
  /\ Whole /\ stage.upto = wal.hi

\* 3. The log is being replaced under the marker: its header is not whole.
Cut ==
  /\ NewStage /\ marker = stage.gen /\ intent = NoIntent
  /\ wal.head # "full" /\ wal.hi = stage.upto /\ wal.lo = stage.upto

\* 4. The log is the stage's: only publishing the stage is left.
Ahead ==
  /\ NewStage /\ marker \in {0, stage.gen}
  /\ WalIs(stage.gen) /\ wal.lo <= stage.upto /\ stage.upto <= wal.hi
  /\ \/ intent = NoIntent
     \/ intent.prev = base.gen /\ intent.gen = stage.gen /\ wal.hi - wal.lo >= intent.min

\* 5. The stage is the base, with its log; the marker is still there.
Done ==
  /\ base.gen # 0 /\ marker = base.gen /\ Whole /\ stage.gen \in {0, base.gen}
  /\ intent = NoIntent \/ IntentKept

FileForm == Plain \/ Marked \/ Cut \/ Ahead \/ Done
-----------------------------------------------------------------------------
(* What each part of the process meets at its steps.                         *)

\* Readers are served from the published pair.
Served == Plain /\ intent = NoIntent /\ memBase = base.gen

\* Readers are refused: no base is mapped, or the log was given up.
Unusable ==
  IF mode = "foreground" THEN log = "closed" \/ (stale /\ memBase = 0) ELSE memBase = 0

HolderLives ==
  /\ mode \in Modes
  /\ hold.by = "open" <=> phase = "opening"
  /\ hold.by \in {"live", "sweep", "maint"} => phase = "up"

Working == Served \/ (mode = "foreground" /\ log = "closed")

\* A writer, and the compaction it runs inline, a form for each step.
WriterForm ==
  hold.by \in {"live", "sweep"} =>
    /\ hold.at \in Writing \cup {"settle"} => Working
    /\ At("stamp") => Served /\ NewStage /\ stage.upto = wal.hi
    /\ At("truncate") => Marked
    /\ hold.at \in {"magic", "header"} => Cut
    /\ At("publish") => Ahead /\ marker = stage.gen /\ intent = NoIntent /\ memBase = 0
    /\ hold.at \in {"advance", "cursor", "unmark"} =>
         Done /\ stage.gen = base.gen /\ intent = NoIntent /\ memBase = 0
    /\ At("unstage") => Served

\* The frames of a turn come after what was acknowledged before it.
TurnForm ==
  hold.by \in {"live", "sweep"} =>
    /\ At("append") => /\ acked <= hold.from /\ hold.from <= wal.hi
                       /\ IF Served THEN base.upto <= hold.from ELSE hold.from = wal.hi
    /\ hold.at \notin Writing /\ hold.then = "append" => hold.from = wal.hi

\* The maintenance thread, which publishes what was built without the lock.
MaintForm ==
  hold.by = "maint" =>
    /\ At("tail") => Served
    /\ hold.at \notin {"tail", "unstage"} => memBase = 0
    /\ At("install") =>
         /\ Plain
         /\ intent = [prev |-> base.gen, gen |-> stage.gen, min |-> wal.hi - stage.upto]
    /\ At("stamp") => Ahead /\ marker = 0
    /\ At("publish") => Ahead /\ marker = stage.gen
    /\ hold.at \in {"advance", "cursor", "unmark"} => Done /\ stage.gen = base.gen
    /\ At("finish") => Plain
    /\ At("unstage") => Served

\* A process that opens the store and finishes what was interrupted.
OpenForm ==
  hold.by = "open" =>
    /\ hold.at \in {"tidy", "recover", "unmark"} => Done
    /\ At("publish") => Ahead
    /\ At("advance") => (Plain \/ Done) /\ stage.gen = base.gen
    /\ hold.at \in {"unstage", "intent"} => Plain
    /\ hold.at \in {"ensure", "reflect", "markDelta"} => Plain /\ intent = NoIntent

FreeForm == phase = "up" /\ hold = Nobody => Served \/ Unusable

\* The base built in the background reaches no further than the log, and
\* starts at the base it was frozen from.
PrepForm ==
  /\ prep.at # "none" /\ (hold.by = "maint" => hold.at \in {"tail", "install"}) =>
       prep.prev = base.gen /\ base.upto <= prep.hi /\ prep.hi <= wal.hi
  /\ prep.at # "none" /\ hold.by # "maint" => Served
  /\ prep.at = "built" /\ (hold.by = "maint" => hold.at \in {"tail", "install"}) => NewStage
  /\ prep.at = "built" => stage = [gen |-> prep.gen, upto |-> prep.hi]

\* A generation is drawn once.
GenOrder == base.gen \in 1 .. lastGen /\ stage.gen \in 0 .. lastGen

StoreInv ==
  /\ FileForm /\ HolderLives /\ WriterForm /\ TurnForm /\ MaintForm /\ OpenForm
  /\ FreeForm /\ PrepForm /\ GenOrder /\ acked <= wal.hi

RecoveryInv == BaseLogInv /\ StoreInv
-----------------------------------------------------------------------------
(* Every action keeps the forms, one lemma for each group of actions.        *)

(* A compaction in a writer's turn ends the turn, or goes on to the append. *)
LEMMA SettledTurn ==
  ASSUME TypeOK, NEW again, AfterSettle(again)
  PROVE  \/ hold' = Nobody
         \/ hold.then = "append" /\ hold'.by = hold.by /\ hold'.at = "append" /\ hold'.from = hold.from
<1>1. CASE hold.then = "return"
  BY <1>1 DEF AfterSettle
<1>2. CASE hold.then # "return"
  <2>1. hold' = [hold EXCEPT !.at = "append", !.prev = 0]
    BY <1>2 DEF AfterSettle
  <2> QED
    BY <1>2, <2>1 DEF TypeOK, HolderTyped
<1> QED
  BY <1>1, <1>2

(* A committed batch ends the turn, or goes on to an inline compaction. *)
LEMMA MarkedTurn ==
  ASSUME TypeOK, MarkDelta
  PROVE  \/ hold' = Nobody
         \/ hold'.by = hold.by /\ hold'.at = "settle" /\ hold'.then = "return"
<1>1. CASE mode = "foreground"
  <2>1. hold' = [hold EXCEPT !.at = "settle", !.then = "return"]
    BY <1>1 DEF MarkDelta
  <2> QED
    BY <2>1 DEF TypeOK, HolderTyped
<1>2. CASE mode # "foreground"
  BY <1>2 DEF MarkDelta
<1> QED
  BY <1>1, <1>2

(* What was built is published, or dropped if the index became stale. *)
LEMMA AcquiredTurn ==
  ASSUME MaintAcquire
  PROVE  /\ hold = Nobody
         /\ \/ hold' = Nobody /\ prep' = NoPrep
            \/ hold'.by = "maint" /\ hold'.at = "tail" /\ hold'.prev = prep.prev /\ prep' = prep
<1>1. CASE stale
  BY <1>1 DEF MaintAcquire
<1>2. CASE ~stale
  <2>1. hold' = [Nobody EXCEPT !.by = "maint", !.at = "tail", !.prev = prep.prev] /\ prep' = prep
    BY <1>2 DEF MaintAcquire
  <2> QED
    BY <2>1, <1>2 DEF Nobody, MaintAcquire
<1> QED
  BY <1>1, <1>2

(* The stage is removed by whoever published it, or by an open. *)
LEMMA UnstagedTurn ==
  ASSUME TypeOK, Unstage
  PROVE  \/ hold' = Nobody
         \/ hold.by = "open" /\ hold'.by = "open" /\ hold'.at = "intent"
         \/ /\ hold.by = "live" /\ hold.then = "append"
            /\ hold'.by = "live" /\ hold'.at = "append" /\ hold'.from = hold.from
<1>1. CASE hold.by = "open" /\ hold' = [hold EXCEPT !.at = "intent"]
  BY <1>1 DEF TypeOK, HolderTyped
<1>2. CASE hold.by = "live" /\ AfterSettle(FALSE)
  BY <1>2, SettledTurn
<1>3. CASE hold' = Nobody
  BY <1>3
<1> QED
  BY <1>1, <1>2, <1>3 DEF Unstage, Goto

(* Live events and the sweep: append, list, acknowledge, fail. *)
LEMMA WritersKeep == ASSUME RecoveryInv, SafeFaults, Writers PROVE StoreInv'
<1> USE BoundsAssumption DEF RecoveryInv, StoreInv, BaseLogInv, OneCompactor, TypeOK, FilesTyped,
      ProcessTyped, HolderTyped, Gen, Pos, LiveSteps, MaintSteps, OpenSteps, AllSteps, Writing,
      Publishing, At, Goto, Nobody, NoPrep, NoIntent, NoFile, WalIs, pairVars, diskVars, memVars,
      auxVars, Plain, Marked, Cut, Ahead, Done, Whole, IntentKept, NewStage, Served, Working,
      Unusable, FileForm, HolderLives, WriterForm, TurnForm, MaintForm, OpenForm, FreeForm,
      PrepForm, GenOrder
<1>1. ASSUME NEW w \in {"live", "sweep"}, Refused(w) PROVE StoreInv'
  BY <1>1 DEF Refused
<1>2. ASSUME NEW w \in {"live", "sweep"}, NEW k \in 1 .. Batch, Acquire(w, k) PROVE StoreInv'
  BY <1>2 DEF Acquire
<1>3. CASE AppendFrame
  BY <1>3 DEF AppendFrame
<1>4. CASE AppendDone
  BY <1>4 DEF AppendDone
<1>5. CASE AppendFails
  BY <1>5 DEF AppendFails, WriterFails, Fails, SafeFaults
<1>6. CASE ApplyCatalog
  BY <1>6 DEF ApplyCatalog
<1>7. CASE ApplyCatalogFails
  BY <1>7 DEF ApplyCatalogFails, WriterFails, Fails, SafeFaults
<1>8. CASE MarkDelta
  <2> HIDE DEF FileForm, HolderLives, WriterForm, TurnForm, MaintForm, OpenForm, FreeForm,
      PrepForm, GenOrder
  <2>1. hold.by \in {"live", "sweep"} /\ phase = "up" /\ Working
    BY <1>8 DEF MarkDelta, HolderLives, WriterForm
  <2>2. \/ hold' = Nobody
        \/ hold'.by = hold.by /\ hold'.at = "settle" /\ hold'.then = "return"
    BY <1>8, MarkedTurn
  <2>3. UNCHANGED <<pairVars, phase, mode, memBase, log, stale, prep, lastGen>>
    BY <1>8 DEF MarkDelta
  <2>4. FileForm' /\ GenOrder' /\ acked' <= wal'.hi
    BY <1>8 DEF MarkDelta, FileForm, GenOrder
  <2>5. HolderLives' /\ FreeForm'
    BY <2>1, <2>2, <2>3 DEF HolderLives, FreeForm
  <2>6. WriterForm' /\ TurnForm'
    BY <2>1, <2>2, <2>3 DEF WriterForm, TurnForm
  <2>7. MaintForm' /\ OpenForm' /\ PrepForm'
    BY <2>1, <2>2, <2>3 DEF MaintForm, OpenForm, PrepForm
  <2> QED
    BY <2>4, <2>5, <2>6, <2>7
<1>9. CASE MarkDeltaFails
  BY <1>9 DEF MarkDeltaFails, WriterFails, Fails, SafeFaults
<1>10. CASE LiveFailClosed
  BY <1>10 DEF LiveFailClosed
<1>11. CASE SweepRecordsFailure
  BY <1>11 DEF SweepRecordsFailure
<1>12. CASE SweepStops
  BY <1>12 DEF SweepStops
<1> HIDE DEF RecoveryInv, StoreInv
<1> QED
  BY <1>1, <1>2, <1>3, <1>4, <1>5, <1>6, <1>7, <1>8, <1>9, <1>10, <1>11, <1>12 DEF Writers

(* The compaction a writer runs inline, up to the log of the new generation. *)
LEMMA SettlingKeep == ASSUME RecoveryInv, SafeFaults, Settling PROVE StoreInv'
<1> USE BoundsAssumption DEF RecoveryInv, StoreInv, BaseLogInv, OneCompactor, TypeOK, FilesTyped,
      ProcessTyped, HolderTyped, Gen, Pos, LiveSteps, MaintSteps, OpenSteps, AllSteps, Writing,
      Publishing, At, Goto, Nobody, NoPrep, NoIntent, NoFile, WalIs, pairVars, diskVars, memVars,
      auxVars, Plain, Marked, Cut, Ahead, Done, Whole, IntentKept, NewStage, Served, Working,
      Unusable, FileForm, HolderLives, WriterForm, TurnForm, MaintForm, OpenForm, FreeForm,
      PrepForm, GenOrder
<1>1. CASE SettleSkips
  BY <1>1 DEF SettleSkips, AfterSettle
<1>2. CASE Fold
  <2> HIDE DEF FileForm, HolderLives, WriterForm, TurnForm, MaintForm, OpenForm, FreeForm,
      PrepForm, GenOrder
  <2>1. /\ hold.by = "live" /\ hold'.by = "live" /\ hold'.at = "stamp"
        /\ hold'.then = hold.then /\ hold'.from = hold.from
    BY <1>2 DEF Fold
  <2>2. Served /\ NewStage' /\ stage'.upto = wal.hi
    BY <1>2 DEF Fold, WriterForm, GenOrder
  <2>3. Served'
    BY <1>2, <2>2 DEF Fold
  <2>4. FileForm' /\ GenOrder' /\ acked' <= wal'.hi
    BY <1>2, <2>3 DEF Fold, FileForm, GenOrder
  <2>5. HolderLives' /\ FreeForm' /\ MaintForm' /\ OpenForm'
    <3>1. phase' = phase /\ mode' = mode
      BY <1>2 DEF Fold
    <3> QED
      BY <2>1, <3>1 DEF HolderLives, FreeForm, MaintForm, OpenForm
  <2>6. WriterForm'
    BY <1>2, <2>1, <2>2, <2>3 DEF Fold, WriterForm
  <2>7. TurnForm'
    BY <1>2, <2>1 DEF Fold, TurnForm
  <2>8. PrepForm'
    BY <1>2, <2>1 DEF Fold, PrepForm
  <2> QED
    BY <2>4, <2>5, <2>6, <2>7, <2>8
<1>3. CASE FoldFails
  BY <1>3 DEF FoldFails, AfterSettle, Fails, SafeFaults
<1>4. CASE WriteMarker
  BY <1>4 DEF WriteMarker
<1>5. CASE WriteMarkerFails
  BY <1>5 DEF WriteMarkerFails, AfterSettle, Fails, SafeFaults
<1>6. CASE ResetTruncates
  BY <1>6 DEF ResetTruncates, Short
<1>7. CASE ResetWritesMagic
  BY <1>7 DEF ResetWritesMagic, Short
<1>8. CASE ResetWritesGeneration
  BY <1>8 DEF ResetWritesGeneration, Bare, Short
<1>9. CASE ResetFails
  BY <1>9 DEF ResetFails, AfterSettle, Fails, SafeFaults
<1>10. CASE ClearFails
  BY <1>10 DEF ClearFails, AfterSettle, Fails, Bare, Short, SafeFaults
<1> HIDE DEF RecoveryInv, StoreInv
<1> QED
  BY <1>1, <1>2, <1>3, <1>4, <1>5, <1>6, <1>7, <1>8, <1>9, <1>10 DEF Settling

(* From the new log to the new base, shared by the three that publish. *)
LEMMA PublicationKeep == ASSUME RecoveryInv, SafeFaults, Publication PROVE StoreInv'
<1> USE BoundsAssumption DEF RecoveryInv, StoreInv, BaseLogInv, OneCompactor, TypeOK, FilesTyped,
      ProcessTyped, HolderTyped, Gen, Pos, LiveSteps, MaintSteps, OpenSteps, AllSteps, Writing,
      Publishing, At, Goto, Nobody, NoPrep, NoIntent, NoFile, WalIs, pairVars, diskVars, memVars,
      auxVars, Plain, Marked, Cut, Ahead, Done, Whole, IntentKept, NewStage, Served, Working,
      Unusable, FileForm, HolderLives, WriterForm, TurnForm, MaintForm, OpenForm, FreeForm,
      PrepForm, GenOrder
<1>1. CASE Publish
  BY <1>1 DEF Publish
<1>2. CASE PublishFails
  <2> HIDE DEF FileForm, HolderLives, WriterForm, TurnForm, MaintForm, OpenForm, FreeForm,
      PrepForm, GenOrder
  <2>1. memBase' = 0 /\ (mode' = "foreground" => stale')
    <3>1. CASE hold.by = "live"
      BY <1>2, <3>1 DEF PublishFails, WriterFails, WriterForm
    <3>2. CASE hold.by = "maint"
      <4>1. mode = "background" /\ mode' = mode /\ memBase' = memBase
        BY <1>2, <3>2 DEF PublishFails, MaintFails
      <4> QED
        BY <1>2, <3>2, <4>1 DEF PublishFails, MaintForm
    <3> QED
      BY <1>2, <3>1, <3>2 DEF PublishFails, WriterForm
  <2>2. hold' = Nobody
    BY <1>2 DEF PublishFails, WriterFails, MaintFails
  <2>3. FileForm' /\ GenOrder' /\ acked' <= wal'.hi
    BY <1>2 DEF PublishFails, WriterFails, MaintFails, FileForm, GenOrder, WriterForm, MaintForm
  <2>4. HolderLives'
    BY <1>2 DEF PublishFails, WriterFails, MaintFails, HolderLives
  <2>5. FreeForm' /\ WriterForm' /\ TurnForm' /\ MaintForm' /\ OpenForm'
    BY <2>1, <2>2 DEF FreeForm, WriterForm, TurnForm, MaintForm, OpenForm
  <2>6. PrepForm'
    BY <1>2 DEF PublishFails, WriterFails, MaintFails, PrepForm
  <2> QED
    BY <2>3, <2>4, <2>5, <2>6
<1>3. CASE AdvanceGeneration
  BY <1>3 DEF AdvanceGeneration
<1>4. CASE MarkEmptied
  BY <1>4 DEF MarkEmptied
<1>5. CASE CatalogStepFails
  <2> HIDE DEF FileForm, HolderLives, WriterForm, TurnForm, MaintForm, OpenForm, FreeForm,
      PrepForm, GenOrder
  <2>1. memBase' = 0 /\ (mode' = "foreground" => stale')
    <3>1. CASE hold.by = "live"
      BY <1>5, <3>1 DEF CatalogStepFails, WriterFails, WriterForm
    <3>2. CASE hold.by = "maint"
      <4>1. mode = "background" /\ mode' = mode /\ memBase' = memBase
        BY <1>5, <3>2 DEF CatalogStepFails, MaintFails
      <4> QED
        BY <1>5, <3>2, <4>1 DEF CatalogStepFails, MaintForm
    <3> QED
      BY <1>5, <3>1, <3>2 DEF CatalogStepFails, WriterForm
  <2>2. hold' = Nobody
    BY <1>5 DEF CatalogStepFails, WriterFails, MaintFails
  <2>3. FileForm' /\ GenOrder' /\ acked' <= wal'.hi
    BY <1>5 DEF CatalogStepFails, WriterFails, MaintFails, FileForm, GenOrder
  <2>4. HolderLives'
    BY <1>5 DEF CatalogStepFails, WriterFails, MaintFails, HolderLives
  <2>5. FreeForm' /\ WriterForm' /\ TurnForm' /\ MaintForm' /\ OpenForm'
    BY <2>1, <2>2 DEF FreeForm, WriterForm, TurnForm, MaintForm, OpenForm
  <2>6. PrepForm'
    BY <1>5 DEF CatalogStepFails, WriterFails, MaintFails, PrepForm
  <2> QED
    BY <2>3, <2>4, <2>5, <2>6
<1>6. CASE Unmark
  BY <1>6 DEF Unmark
<1>7. CASE UnmarkFails
  BY <1>7 DEF UnmarkFails, MaintFails, AfterSettle, Fails, SafeFaults
<1>8. CASE Unstage
  <2> HIDE DEF FileForm, HolderLives, WriterForm, TurnForm, MaintForm, OpenForm, FreeForm,
      PrepForm, GenOrder
  <2>1. CASE hold.by = "open"
    <3>1. hold' = [hold EXCEPT !.at = "intent"] /\ UNCHANGED <<wal, base, marker, intent, phase,
       mode, prep, lastGen, acked>>
      BY <1>8, <2>1 DEF Unstage
    <3>2. stage' = NoFile /\ Plain /\ Plain'
      BY <1>8, <2>1, <3>1 DEF Unstage, OpenForm
    <3>3. FileForm' /\ GenOrder' /\ acked' <= wal'.hi
      BY <3>1, <3>2 DEF FileForm, GenOrder
    <3>4. HolderLives' /\ FreeForm' /\ WriterForm' /\ TurnForm' /\ MaintForm' /\ OpenForm'
      BY <2>1, <3>1, <3>2 DEF HolderLives, FreeForm, WriterForm, TurnForm, MaintForm, OpenForm
    <3>5. PrepForm'
      BY <2>1, <3>1 DEF HolderLives, PrepForm
    <3> QED
      BY <3>3, <3>4, <3>5
  <2>2. CASE hold.by = "live"
    <3>1. AfterSettle(FALSE) /\ UNCHANGED <<wal, base, marker, intent, phase, mode, prep,
       memBase, log, stale, lastGen>>
      BY <1>8, <2>2 DEF Unstage
    <3>2. stage' = NoFile /\ Served /\ Served'
      BY <1>8, <2>2, <3>1 DEF Unstage, WriterForm
    <3>3. FileForm' /\ GenOrder' /\ acked' <= wal'.hi
      BY <3>1, <3>2 DEF FileForm, GenOrder, AfterSettle
    <3>4. HolderLives' /\ FreeForm' /\ MaintForm' /\ OpenForm'
      BY <2>2, <3>1, <3>2 DEF HolderLives, FreeForm, MaintForm, OpenForm, AfterSettle
    <3>5. WriterForm'
      BY <2>2, <3>1, <3>2 DEF WriterForm, AfterSettle
    <3>6. TurnForm'
      BY <1>8, <2>2, <3>1, <3>2 DEF TurnForm, AfterSettle, Unstage
    <3>7. PrepForm'
      BY <1>8, <2>2, <3>1, <3>2 DEF PrepForm, Unstage
    <3> QED
      BY <3>3, <3>4, <3>5, <3>6, <3>7
  <2>3. CASE hold.by = "maint"
    <3>1. hold' = Nobody /\ prep' = NoPrep /\ UNCHANGED <<wal, base, marker, intent, phase, mode,
       memBase, lastGen, acked>>
      BY <1>8, <2>3 DEF Unstage
    <3>2. stage' = NoFile /\ Served /\ Served'
      BY <1>8, <2>3, <3>1 DEF Unstage, MaintForm
    <3>3. FileForm' /\ GenOrder' /\ acked' <= wal'.hi
      BY <3>1, <3>2 DEF FileForm, GenOrder
    <3>4. /\ HolderLives' /\ FreeForm' /\ WriterForm' /\ TurnForm' /\ MaintForm' /\ OpenForm'
          /\ PrepForm'
      BY <2>3, <3>1, <3>2 DEF HolderLives, FreeForm, WriterForm, TurnForm, MaintForm, OpenForm,
         PrepForm
    <3> QED
      BY <3>3, <3>4
  <2> QED
    BY <1>8, <2>1, <2>2, <2>3 DEF Unstage
<1> HIDE DEF RecoveryInv, StoreInv
<1> QED
  BY <1>1, <1>2, <1>3, <1>4, <1>5, <1>6, <1>7, <1>8 DEF Publication

(* The compaction of the maintenance thread. *)
LEMMA MaintenanceKeep == ASSUME RecoveryInv, SafeFaults, Maintenance PROVE StoreInv'
<1> USE BoundsAssumption DEF RecoveryInv, StoreInv, BaseLogInv, OneCompactor, TypeOK, FilesTyped,
      ProcessTyped, HolderTyped, Gen, Pos, LiveSteps, MaintSteps, OpenSteps, AllSteps, Writing,
      Publishing, At, Goto, Nobody, NoPrep, NoIntent, NoFile, WalIs, pairVars, diskVars, memVars,
      auxVars, Plain, Marked, Cut, Ahead, Done, Whole, IntentKept, NewStage, Served, Working,
      Unusable, FileForm, HolderLives, WriterForm, TurnForm, MaintForm, OpenForm, FreeForm,
      PrepForm, GenOrder
<1>1. CASE Freeze
  BY <1>1 DEF Freeze, CanFreeze
<1>2. CASE Build
  BY <1>2 DEF Build
<1>3. CASE BuildFails
  BY <1>3 DEF BuildFails, Fails, SafeFaults
<1>4. CASE MaintAcquire
  <2> HIDE DEF FileForm, HolderLives, WriterForm, TurnForm, MaintForm, OpenForm, FreeForm,
      PrepForm, GenOrder
  <2>1. hold = Nobody /\ phase = "up" /\ Served /\ prep.at = "built"
    BY <1>4 DEF MaintAcquire, PrepForm
  <2>2. UNCHANGED <<pairVars, phase, mode, memBase, log, stale, lastGen, acked>>
    BY <1>4 DEF MaintAcquire
  <2>3. \/ hold' = Nobody /\ prep' = NoPrep
        \/ hold'.by = "maint" /\ hold'.at = "tail" /\ prep' = prep
    BY <1>4, AcquiredTurn
  <2>4. FileForm' /\ GenOrder' /\ acked' <= wal'.hi
    BY <2>2 DEF FileForm, GenOrder
  <2>5. HolderLives' /\ FreeForm'
    BY <2>1, <2>2, <2>3 DEF HolderLives, FreeForm
  <2>6. WriterForm' /\ TurnForm' /\ MaintForm' /\ OpenForm'
    BY <2>1, <2>2, <2>3 DEF WriterForm, TurnForm, MaintForm, OpenForm
  <2>7. PrepForm'
    BY <2>1, <2>2, <2>3 DEF PrepForm
  <2> QED
    BY <2>4, <2>5, <2>6, <2>7
<1>5. CASE WriteIntent
  BY <1>5 DEF WriteIntent
<1>6. CASE StageTailFails
  BY <1>6 DEF StageTailFails, MaintFails, Fails, SafeFaults
<1>7. CASE WriteIntentFails
  BY <1>7 DEF WriteIntentFails, MaintFails, Fails, SafeFaults
<1>8. CASE Install
  BY <1>8 DEF Install
<1>9. CASE InstallFails
  BY <1>9 DEF InstallFails, MaintFails, Fails, SafeFaults
<1>10. CASE MaintMarker
  BY <1>10 DEF MaintMarker
<1>11. CASE MaintMarkerFails
  BY <1>11 DEF MaintMarkerFails, MaintFails, Fails, SafeFaults
<1>12. CASE FinishIntent
  BY <1>12 DEF FinishIntent
<1>13. CASE FinishIntentFails
  BY <1>13 DEF FinishIntentFails, MaintFails, Fails, SafeFaults
<1>14. CASE MaintFlag
  BY <1>14 DEF MaintFlag
<1>15. CASE MaintExit
  BY <1>15 DEF MaintExit, ProcessEnds
<1> HIDE DEF RecoveryInv, StoreInv
<1> QED
  BY <1>1, <1>2, <1>3, <1>4, <1>5, <1>6, <1>7, <1>8, <1>9, <1>10, <1>11, <1>12, <1>13, <1>14,
     <1>15 DEF Maintenance

(* The open, which recovers. *)
LEMMA OpeningKeep == ASSUME RecoveryInv, SafeFaults, Opening PROVE StoreInv'
<1> USE BoundsAssumption DEF RecoveryInv, StoreInv, BaseLogInv, OneCompactor, TypeOK, FilesTyped,
      ProcessTyped, HolderTyped, Gen, Pos, LiveSteps, MaintSteps, OpenSteps, AllSteps, Writing,
      Publishing, At, Goto, Nobody, NoPrep, NoIntent, NoFile, WalIs, pairVars, diskVars, memVars,
      auxVars, Plain, Marked, Cut, Ahead, Done, Whole, IntentKept, NewStage, Served, Working,
      Unusable, FileForm, HolderLives, WriterForm, TurnForm, MaintForm, OpenForm, FreeForm,
      PrepForm, GenOrder
<1>1. CASE OpenStart
  BY <1>1 DEF OpenStart, Openable, IntentOk, PairOk
<1>2. CASE OpenResets
  BY <1>2 DEF OpenResets, UsesStage, Short
<1>3. CASE OpenWal
  BY <1>3 DEF OpenWal, UsesStage, Bare, Short
<1>4. CASE OpenTidies
  BY <1>4 DEF OpenTidies
<1>5. CASE OpenRecovers
  BY <1>5 DEF OpenRecovers
<1>6. CASE OpenFinishesIntent
  BY <1>6 DEF OpenFinishesIntent
<1>7. CASE OpenEnsures
  BY <1>7 DEF OpenEnsures, Fails, SafeFaults
<1>8. CASE OpenReflects
  BY <1>8 DEF OpenReflects
<1>9. CASE OpenDone
  BY <1>9 DEF OpenDone
<1> HIDE DEF RecoveryInv, StoreInv
<1> QED
  BY <1>1, <1>2, <1>3, <1>4, <1>5, <1>6, <1>7, <1>8, <1>9 DEF Opening

(* Another process, a retry delay, a crash at any of the steps above. *)
LEMMA OthersKeep == ASSUME RecoveryInv, SafeFaults,
OtherProcess \/ RetryElapsed \/ Crash PROVE StoreInv'
<1> USE BoundsAssumption DEF RecoveryInv, StoreInv, BaseLogInv, OneCompactor, TypeOK, FilesTyped,
      ProcessTyped, HolderTyped, Gen, Pos, LiveSteps, MaintSteps, OpenSteps, AllSteps, Writing,
      Publishing, At, Goto, Nobody, NoPrep, NoIntent, NoFile, WalIs, pairVars, diskVars, memVars,
      auxVars, Plain, Marked, Cut, Ahead, Done, Whole, IntentKept, NewStage, Served, Working,
      Unusable, FileForm, HolderLives, WriterForm, TurnForm, MaintForm, OpenForm, FreeForm,
      PrepForm, GenOrder
<1>1. CASE BuilderStarts
  BY <1>1 DEF BuilderStarts
<1>2. CASE BuilderEnds
  BY <1>2 DEF BuilderEnds
<1>3. CASE RetryElapsed
  BY <1>3 DEF RetryElapsed
<1>4. CASE Crash
  BY <1>4 DEF Crash, ProcessEnds
<1> HIDE DEF RecoveryInv, StoreInv
<1> QED
  BY <1>1, <1>2, <1>3, <1>4 DEF OtherProcess

-----------------------------------------------------------------------------
(* The invariant holds, and with it the properties. *)

LEMMA RecoveryInit == ASSUME Init PROVE RecoveryInv
<1>1. BaseLogInv
  BY InitTyped DEF Init, BaseLogInv, OneCompactor, PublishReady, At, Nobody, NoPrep
<1>2. PICK g \in {1, 2} : base = [gen |-> g, upto |-> 1] /\ wal = Bare(g, 1) /\ lastGen = g
  BY DEF Init
<1>3. Plain /\ intent = NoIntent
  BY <1>2 DEF Init, Plain, Whole, WalIs, Bare
<1>4. FileForm /\ GenOrder /\ acked <= wal.hi
  BY <1>2, <1>3 DEF Init, FileForm, GenOrder, Bare, NoFile
<1>5. HolderLives /\ WriterForm /\ TurnForm /\ MaintForm /\ OpenForm /\ FreeForm /\ PrepForm
  BY DEF Init, HolderLives, WriterForm, TurnForm, MaintForm, OpenForm, FreeForm, PrepForm,
     Nobody, NoPrep
<1> QED
  BY <1>1, <1>4, <1>5 DEF RecoveryInv, StoreInv

LEMMA RecoveryStutter == ASSUME RecoveryInv, UNCHANGED vars PROVE StoreInv'
<1>1. UNCHANGED <<base, stage, wal, marker, intent, phase, mode, memBase, log, stale, hold, prep,
                  lastGen, acked>>
  BY DEF vars, diskVars, pairVars, memVars, auxVars
<1> QED
  BY <1>1 DEF RecoveryInv, StoreInv, FileForm, HolderLives, WriterForm, TurnForm, MaintForm,
     OpenForm, FreeForm, PrepForm, GenOrder, Plain, Marked, Cut, Ahead, Done, Whole, IntentKept,
     NewStage, Served, Working, Unusable, WalIs, At

LEMMA RecoveryStep == ASSUME SafeFaults PROVE RecoveryInv /\ [Next]_vars => RecoveryInv'
<1> SUFFICES ASSUME RecoveryInv, [Next]_vars PROVE RecoveryInv'
  OBVIOUS
<1>1. BaseLogInv'
  BY BaseLogStep DEF RecoveryInv
<1>2. StoreInv'
  BY WritersKeep, SettlingKeep, PublicationKeep, MaintenanceKeep, OpeningKeep, OthersKeep,
     RecoveryStutter DEF Next
<1> QED
  BY <1>1, <1>2 DEF RecoveryInv

(* The files are always in one of the five forms, and every holder of the   *)
(* write lock meets the form its next step was written for.                  *)
THEOREM RecoveryInvariant == ASSUME SafeFaults PROVE Spec => []RecoveryInv
  BY RecoveryInit, RecoveryStep, PTL DEF Spec

(* The operator Max picks the greater of two numbers. *)
LEMMA MaxOfTwo == ASSUME NEW a \in Int, NEW b \in Int, a <= b PROVE Max({a, b}) = b
<1> DEFINE IsMax(x) == x \in {a, b} /\ \A y \in {a, b} : x >= y
<1>1. IsMax(b) /\ \A x : IsMax(x) => x = b
  OBVIOUS
<1> QED
  BY <1>1 DEF Max

(* In each of the five forms the files stand for the changes up to the last  *)
(* frame of the log, whether those are in the log, in the base or the stage. *)
LEMMA KeptIsLog == RecoveryInv => Kept = wal.hi
<1> SUFFICES ASSUME RecoveryInv PROVE Kept = wal.hi
  OBVIOUS
<1> USE DEF RecoveryInv, StoreInv, Kept, Joined, UsesStage, WalIs, Whole, NewStage
<1>1. wal.hi \in Int /\ base.upto \in Int /\ stage.upto \in Int
  BY BoundsAssumption DEF BaseLogInv, TypeOK, FilesTyped, Pos
<1>2. CASE Plain
  BY <1>1, <1>2, MaxOfTwo DEF Plain
<1>3. CASE Marked
  BY <1>3 DEF Marked
<1>4. CASE Cut
  BY <1>4 DEF Cut
<1>5. CASE Ahead
  BY <1>1, <1>5, MaxOfTwo DEF Ahead
<1>6. CASE Done
  BY <1>1, <1>6, MaxOfTwo DEF Done
<1> QED
  BY <1>2, <1>3, <1>4, <1>5, <1>6 DEF FileForm

(* Whatever a crash cuts short (a fold, the reset of the log, the tail, the  *)
(* publication, or an open that was recovering), the next open is not        *)
(* refused: base, log, stage, marker and intent fit (open_durable_pair).     *)
THEOREM RecoverableHolds == ASSUME SafeFaults PROVE Spec => []Recoverable
<1>1. RecoveryInv => Recoverable
  BY DEF RecoveryInv, StoreInv, FileForm, Plain, Marked, Cut, Ahead, Done, Whole, IntentKept,
     NewStage, Recoverable, Openable, IntentOk, PairOk, WalIs, NoIntent
<1> QED
  BY <1>1, RecoveryInvariant, PTL

(* An acknowledged change is in what the files stand for, at every moment   *)
(* between the append and the publication of a base that holds it.           *)
THEOREM AckedDurableHolds == ASSUME SafeFaults PROVE Spec => []AckedDurable
<1>1. RecoveryInv => AckedDurable
  BY KeptIsLog DEF RecoveryInv, StoreInv, AckedDurable
<1> QED
  BY <1>1, RecoveryInvariant, PTL

(* While no thread holds the write lock, the base in memory is the published *)
(* one and the log continues it without a gap, or readers get nothing.       *)
THEOREM ReadersSeeOnePairHolds == ASSUME SafeFaults PROVE Spec => []ReadersSeeOnePair
<1>1. RecoveryInv => ReadersSeeOnePair
  BY DEF RecoveryInv, StoreInv, FreeForm, Served, Unusable, Plain, Whole, ReadersSeeOnePair
<1> QED
  BY <1>1, RecoveryInvariant, PTL

-----------------------------------------------------------------------------
(* The store implements the logical index.  A step changes Kept as it       *)
(* changes the end of the log, so it is enough to map the end of the log.    *)

OfLog == INSTANCE LogicalIndex WITH kept <- wal.hi, open <- phase = "up"

LEMMA WritersLogical == ASSUME RecoveryInv, Writers PROVE [OfLog!Next]_OfLog!vars
<1> USE DEF RecoveryInv, StoreInv, OfLog!vars, diskVars, pairVars, memVars, auxVars
<1>1. CASE AppendFrame
  <2>1. phase = "up" /\ wal.hi < MaxChange /\ wal'.hi = wal.hi + 1
        /\ UNCHANGED <<acked, phase>>
    BY <1>1 DEF AppendFrame, At, BaseLogInv, TypeOK, FilesTyped, HolderTyped, OpenSteps,
       MaintSteps, Publishing, HolderLives
  <2> QED
    BY <2>1 DEF OfLog!Next, OfLog!Write
<1>2. CASE MarkDelta
  <2>1. phase = "up" /\ wal' = wal /\ phase' = phase /\ acked' \in {acked, wal.hi}
    BY <1>2 DEF MarkDelta, At, BaseLogInv, TypeOK, HolderTyped, OpenSteps, MaintSteps,
       Publishing, HolderLives
  <2> QED
    BY <2>1 DEF OfLog!Next, OfLog!Acknowledge
<1>3. CASE ~AppendFrame /\ ~MarkDelta
  <2>1. UNCHANGED <<wal, acked, phase>>
    BY <1>3 DEF Writers, Refused, Acquire, AppendDone, AppendFails, ApplyCatalog,
       ApplyCatalogFails,
       MarkDeltaFails, LiveFailClosed, SweepRecordsFailure, SweepStops, WriterFails
  <2> QED
    BY <2>1
<1> QED
  BY <1>1, <1>2, <1>3

(* A step that acknowledges all of the log, or nothing, is one of the index. *)
LEMMA AckLogical ==
  ASSUME phase = "up", wal'.hi = wal.hi, phase' = phase, acked' \in {acked, wal.hi}
  PROVE  [OfLog!Next]_OfLog!vars
  BY DEF OfLog!Next, OfLog!Acknowledge, OfLog!vars

LEMMA SettlingLogical == ASSUME RecoveryInv, Settling PROVE [OfLog!Next]_OfLog!vars
<1>1. phase = "up"
  BY DEF Settling, SettleSkips, Fold, FoldFails, WriteMarker, WriteMarkerFails, ResetTruncates,
     ResetWritesMagic, ResetWritesGeneration, ResetFails, ClearFails,
     RecoveryInv, StoreInv, HolderLives, BaseLogInv, TypeOK, HolderTyped, OpenSteps, MaintSteps,
     Publishing, At
<1>2. phase' = phase /\ acked' \in {acked, wal.hi}
  BY DEF Settling, SettleSkips, Fold, FoldFails, WriteMarker, WriteMarkerFails, ResetTruncates,
     ResetWritesMagic, ResetWritesGeneration, ResetFails, ClearFails,
     AfterSettle, memVars, auxVars
<1>3. wal'.hi = wal.hi
  <2>1. CASE ResetTruncates \/ ResetWritesMagic \/ ResetWritesGeneration \/ ClearFails
    <3>1. stage.upto = wal.hi
      BY <2>1 DEF ResetTruncates, ResetWritesMagic, ResetWritesGeneration, ClearFails,
         RecoveryInv,
         StoreInv, WriterForm, Marked, Cut, BaseLogInv, TypeOK, HolderTyped, OpenSteps,
         MaintSteps,
         Publishing, At
    <3>2. \/ \E h \in {"none", "part"} : wal' = Short(h, stage.upto)
          \/ wal' = Bare(stage.gen, stage.upto)
      BY <2>1 DEF ResetTruncates, ResetWritesMagic, ResetWritesGeneration, ClearFails
    <3>3. wal'.hi = stage.upto
      BY <3>2 DEF Short, Bare
    <3> QED
      BY <3>1, <3>3
  <2>2. CASE SettleSkips \/ Fold \/ FoldFails \/ WriteMarker \/ WriteMarkerFails \/ ResetFails
    BY <2>2 DEF SettleSkips, Fold, FoldFails, WriteMarker, WriteMarkerFails, ResetFails,
       diskVars, pairVars
  <2> QED
    BY <2>1, <2>2 DEF Settling
<1> QED
  BY <1>1, <1>2, <1>3, AckLogical

LEMMA PublicationLogical == ASSUME RecoveryInv, Publication PROVE [OfLog!Next]_OfLog!vars
<1>1. UNCHANGED <<wal, phase>>
  BY DEF Publication, Publish, PublishFails, AdvanceGeneration, MarkEmptied, CatalogStepFails,
     Unmark, UnmarkFails, Unstage,
     diskVars, pairVars, memVars, WriterFails, MaintFails
<1>2. CASE acked' = acked
  BY <1>1, <1>2 DEF OfLog!vars
<1>3. CASE acked' # acked
  <2>1. hold.by = "live" /\ acked' = wal.hi
    BY <1>3 DEF Publication, Publish, PublishFails, AdvanceGeneration, MarkEmptied,
       CatalogStepFails, Unmark, UnmarkFails, Unstage,
       AfterSettle, auxVars, WriterFails, MaintFails
  <2>2. phase = "up"
    BY <2>1 DEF RecoveryInv, StoreInv, HolderLives
  <2> QED
    BY <1>1, <2>1, <2>2, AckLogical
<1> QED
  BY <1>2, <1>3

LEMMA MaintenanceLogical == ASSUME RecoveryInv, Maintenance PROVE [OfLog!Next]_OfLog!vars
<1>1. acked' = acked /\ wal'.hi = wal.hi
  BY DEF Maintenance, Freeze, Build, BuildFails, MaintAcquire, WriteIntent, StageTailFails,
     WriteIntentFails, Install, InstallFails, MaintMarker, MaintMarkerFails, FinishIntent,
     FinishIntentFails, MaintFlag, MaintExit, ProcessEnds, MaintFails, diskVars, pairVars, auxVars
<1>2. CASE MaintExit
  <2>1. phase' = "down" /\ acked <= wal.hi /\ acked \in Nat /\ wal.hi \in Nat
    BY <1>2, BoundsAssumption DEF MaintExit, ProcessEnds, RecoveryInv, StoreInv, BaseLogInv,
       TypeOK, ProcessTyped,
       FilesTyped, Pos
  <2> QED
    BY <1>1, <2>1 DEF OfLog!Next, OfLog!Crash, OfLog!vars
<1>3. CASE ~MaintExit
  <2>1. phase' = phase
    BY <1>3 DEF Maintenance, Freeze, Build, BuildFails, MaintAcquire, WriteIntent, StageTailFails,
       WriteIntentFails, Install, InstallFails, MaintMarker, MaintMarkerFails, FinishIntent,
       FinishIntentFails, MaintFlag, MaintFails, memVars
  <2> QED
    BY <1>1, <2>1 DEF OfLog!vars
<1> QED
  BY <1>2, <1>3

LEMMA OpeningLogical == ASSUME RecoveryInv, Opening PROVE [OfLog!Next]_OfLog!vars
<1>1. phase # "up" /\ acked' = acked
  BY DEF Opening, OpenStart, OpenResets, OpenWal, OpenTidies, OpenRecovers, OpenFinishesIntent,
     OpenEnsures, OpenReflects, OpenDone, auxVars, RecoveryInv, StoreInv, HolderLives,
     BaseLogInv, TypeOK, HolderTyped,
     LiveSteps, MaintSteps, Publishing, Writing, At
<1>2. wal'.hi = wal.hi
  BY DEF Opening, OpenStart, OpenResets, OpenWal, OpenTidies, OpenRecovers, OpenFinishesIntent,
     OpenEnsures, OpenReflects, OpenDone, diskVars, pairVars, Short, Bare, UsesStage, WalIs,
     RecoveryInv, StoreInv,
     FileForm, Plain, Marked, Cut, Ahead, Done, Whole, NewStage
<1> QED
  BY <1>1, <1>2 DEF OfLog!Next, OfLog!Open, OfLog!vars

LEMMA OthersLogical ==
  ASSUME RecoveryInv, OtherProcess \/ RetryElapsed \/ Crash
  PROVE  [OfLog!Next]_OfLog!vars
<1>1. CASE OtherProcess \/ RetryElapsed
  BY <1>1 DEF OtherProcess, BuilderStarts, BuilderEnds, RetryElapsed, diskVars, pairVars,
     memVars, auxVars, OfLog!vars
<1>2. CASE Crash /\ phase = "up"
  <2>1. phase' = "down" /\ acked' = acked
    BY <1>2 DEF Crash, ProcessEnds, auxVars
  <2>2. acked \in Int /\ wal.hi \in Int /\ acked <= wal.hi
    BY BoundsAssumption DEF RecoveryInv, StoreInv, BaseLogInv, TypeOK, ProcessTyped, FilesTyped,
       Pos
  <2>3. CASE At("append")
    <3>1. hold.by \in {"live", "sweep"}
      BY <2>3 DEF RecoveryInv, BaseLogInv, TypeOK, HolderTyped, MaintSteps, OpenSteps,
         Publishing, At
    <3>2. hold.from \in Int /\ acked <= hold.from
      BY <2>3, <3>1, BoundsAssumption DEF RecoveryInv, StoreInv, TurnForm, BaseLogInv, TypeOK,
         HolderTyped, Pos
    <3>3. PICK n \in hold.from .. wal.hi : wal' = [wal EXCEPT !.hi = n]
      BY <1>2, <2>3 DEF Crash
    <3>4. wal'.hi = n
      BY <3>3 DEF RecoveryInv, BaseLogInv, TypeOK, FilesTyped
    <3> QED
      BY <1>2, <2>1, <2>2, <3>2, <3>4 DEF OfLog!Next, OfLog!Crash
  <2>4. CASE ~At("append")
    BY <1>2, <2>1, <2>2, <2>4 DEF Crash, OfLog!Next, OfLog!Crash
  <2> QED
    BY <2>3, <2>4
<1>3. CASE Crash /\ phase # "up"
  <2>1. ~At("append")
    BY <1>3 DEF RecoveryInv, StoreInv, HolderLives, BaseLogInv, TypeOK, HolderTyped, MaintSteps,
       OpenSteps, Publishing, At
  <2> QED
    BY <1>3, <2>1 DEF Crash, ProcessEnds, auxVars, OfLog!vars
<1> QED
  BY <1>1, <1>2, <1>3

LEMMA KeptIsLogAfter == RecoveryInv' => (Kept = wal.hi)'
  BY KeptIsLog, PTL

LEMMA StepLogical ==
  RecoveryInv /\ RecoveryInv' /\ [Next]_vars => [Logical!Next]_Logical!vars
<1> SUFFICES ASSUME RecoveryInv, RecoveryInv', [Next]_vars PROVE [Logical!Next]_Logical!vars
  OBVIOUS
<1>1. [OfLog!Next]_OfLog!vars
  <2>1. CASE UNCHANGED vars
    BY <2>1 DEF vars, diskVars, pairVars, memVars, auxVars, OfLog!vars
  <2> QED
    BY <2>1, WritersLogical, SettlingLogical, PublicationLogical, MaintenanceLogical,
       OpeningLogical,
       OthersLogical DEF Next
<1>2. Kept = wal.hi
  BY KeptIsLog
<1>3. Kept' = wal'.hi
  BY KeptIsLogAfter
<1> QED
  BY <1>1, <1>2, <1>3 DEF Logical!Next, Logical!Write, Logical!Acknowledge, Logical!Open,
     Logical!Crash, Logical!vars, OfLog!Next, OfLog!Write, OfLog!Acknowledge, OfLog!Open,
     OfLog!Crash, OfLog!vars

(* The whole protocol of files, locks, markers and recovery implements an   *)
(* index that keeps a set of changes: each step writes one change,           *)
(* acknowledges, opens, crashes keeping all that was acknowledged, or does   *)
(* nothing a client of the index can see.                                    *)
THEOREM ImplementsLogical == ASSUME SafeFaults PROVE Spec => ImplementsLogicalIndex
<1>1. Init => Logical!Init
  <2> SUFFICES ASSUME Init PROVE Logical!Init
    OBVIOUS
  <2>1. wal.hi = 1 /\ acked = 1 /\ phase = "down"
    BY DEF Init, Bare
  <2>2. Kept = 1
    BY <2>1, RecoveryInit, KeptIsLog
  <2> QED
    BY <2>1, <2>2, BoundsAssumption DEF Logical!Init
<1> QED
  BY <1>1, RecoveryInvariant, StepLogical, PTL DEF Spec, ImplementsLogicalIndex, Logical!Spec
-----------------------------------------------------------------------------
(* Nothing but an I/O error in a writer's own commit marks the index stale.  *)

\* The calls that may fail without a writer's own commit having failed.
CalmFaults == Faults \subseteq {"fold", "tail", "intentSync", "ensure"}

\* No thread has a reason to write the stale marker: none is owed one, the
\* log is open, and there is a base in memory whenever the lock is free, and
\* when the maintenance thread has just taken it.
Calm ==
  /\ ~staleMark /\ ~stale /\ owed = {} /\ ~faulted
  /\ phase = "up" => log = "live"
  /\ phase = "up" /\ (hold = Nobody \/ At("tail")) => memBase = base.gen

CalmInv == RecoveryInv /\ Calm

LEMMA WritersCalm == ASSUME CalmInv, CalmFaults, Writers PROVE Calm'
<1> USE BoundsAssumption DEF CalmInv, RecoveryInv, StoreInv, BaseLogInv, OneCompactor, TypeOK,
      FilesTyped, ProcessTyped, HolderTyped, LiveSteps, MaintSteps, OpenSteps, AllSteps, Writing,
      Publishing, At, Nobody, NoPrep, NoIntent, NoFile, WalIs, pairVars, diskVars, memVars,
      auxVars, Plain, Marked, Cut, Ahead, Done, Whole, IntentKept, NewStage, Served, Working,
      Unusable, Calm, HolderLives, WriterForm, MaintForm, OpenForm, FreeForm, PrepForm, GenOrder
<1>1. ASSUME NEW w \in {"live", "sweep"}, Refused(w) PROVE Calm'
  BY <1>1 DEF Refused
<1>2. ASSUME NEW w \in {"live", "sweep"}, NEW k \in 1 .. Batch, Acquire(w, k) PROVE Calm'
  BY <1>2 DEF Acquire
<1>3. CASE AppendFrame
  BY <1>3 DEF AppendFrame
<1>4. CASE AppendDone
  BY <1>4 DEF AppendDone, Goto
<1>5. CASE AppendFails
  BY <1>5 DEF AppendFails, WriterFails, Fails, CalmFaults
<1>6. CASE ApplyCatalog
  BY <1>6 DEF ApplyCatalog, Goto
<1>7. CASE ApplyCatalogFails
  BY <1>7 DEF ApplyCatalogFails, WriterFails, Fails, CalmFaults
<1>8. CASE MarkDelta
  BY <1>8 DEF MarkDelta
<1>9. CASE MarkDeltaFails
  BY <1>9 DEF MarkDeltaFails, WriterFails, Fails, CalmFaults
<1>10. CASE LiveFailClosed
  BY <1>10 DEF LiveFailClosed
<1>11. CASE SweepRecordsFailure
  BY <1>11 DEF SweepRecordsFailure
<1>12. CASE SweepStops
  BY <1>12 DEF SweepStops
<1> HIDE DEF CalmInv, Calm
<1> QED
  BY <1>1, <1>2, <1>3, <1>4, <1>5, <1>6, <1>7, <1>8, <1>9, <1>10, <1>11, <1>12 DEF Writers

LEMMA SettlingCalm == ASSUME CalmInv, CalmFaults, Settling PROVE Calm'
<1> USE BoundsAssumption DEF CalmInv, RecoveryInv, StoreInv, BaseLogInv, OneCompactor, TypeOK,
      FilesTyped, ProcessTyped, HolderTyped, LiveSteps, MaintSteps, OpenSteps, AllSteps, Writing,
      Publishing, At, Nobody, NoPrep, NoIntent, NoFile, WalIs, pairVars, diskVars, memVars,
      auxVars, Plain, Marked, Cut, Ahead, Done, Whole, IntentKept, NewStage, Served, Working,
      Unusable, Calm, HolderLives, WriterForm, MaintForm, OpenForm, FreeForm, PrepForm, GenOrder
<1>1. CASE SettleSkips
  BY <1>1 DEF SettleSkips, AfterSettle
<1>2. CASE Fold
  BY <1>2 DEF Fold, Fails, CalmFaults
<1>3. CASE FoldFails
  BY <1>3 DEF FoldFails, AfterSettle, Fails, CalmFaults
<1>4. CASE WriteMarker
  BY <1>4 DEF WriteMarker, Goto
<1>5. CASE WriteMarkerFails
  BY <1>5 DEF WriteMarkerFails, AfterSettle, Fails, CalmFaults
<1>6. CASE ResetTruncates
  BY <1>6 DEF ResetTruncates, Goto, Short
<1>7. CASE ResetWritesMagic
  BY <1>7 DEF ResetWritesMagic, Goto, Short
<1>8. CASE ResetWritesGeneration
  BY <1>8 DEF ResetWritesGeneration, Goto, Bare, Short
<1>9. CASE ResetFails
  BY <1>9 DEF ResetFails, AfterSettle, Fails, CalmFaults
<1>10. CASE ClearFails
  BY <1>10 DEF ClearFails, AfterSettle, Fails, Bare, Short, CalmFaults
<1> HIDE DEF CalmInv, Calm
<1> QED
  BY <1>1, <1>2, <1>3, <1>4, <1>5, <1>6, <1>7, <1>8, <1>9, <1>10 DEF Settling

LEMMA PublicationCalm == ASSUME CalmInv, CalmFaults, Publication PROVE Calm'
<1> USE BoundsAssumption DEF CalmInv, RecoveryInv, StoreInv, BaseLogInv, OneCompactor, TypeOK,
      FilesTyped, ProcessTyped, HolderTyped, LiveSteps, MaintSteps, OpenSteps, AllSteps, Writing,
      Publishing, At, Nobody, NoPrep, NoIntent, NoFile, WalIs, pairVars, diskVars, memVars,
      auxVars, Plain, Marked, Cut, Ahead, Done, Whole, IntentKept, NewStage, Served, Working,
      Unusable, Calm, HolderLives, WriterForm, MaintForm, OpenForm, FreeForm, PrepForm, GenOrder
<1>1. CASE Publish
  BY <1>1 DEF Publish, Goto
<1>2. CASE PublishFails
  BY <1>2 DEF PublishFails, WriterFails, MaintFails, Fails, CalmFaults
<1>3. CASE AdvanceGeneration
  BY <1>3 DEF AdvanceGeneration, Goto
<1>4. CASE MarkEmptied
  BY <1>4 DEF MarkEmptied, Goto
<1>5. CASE CatalogStepFails
  BY <1>5 DEF CatalogStepFails, WriterFails, MaintFails, Fails, CalmFaults
<1>6. CASE Unmark
  BY <1>6 DEF Unmark, Goto
<1>7. CASE UnmarkFails
  BY <1>7 DEF UnmarkFails, MaintFails, AfterSettle, Fails, CalmFaults
<1>8. CASE Unstage
  BY <1>8 DEF Unstage, AfterSettle, Goto
<1> HIDE DEF CalmInv, Calm
<1> QED
  BY <1>1, <1>2, <1>3, <1>4, <1>5, <1>6, <1>7, <1>8 DEF Publication

LEMMA MaintenanceCalm == ASSUME CalmInv, CalmFaults, Maintenance PROVE Calm'
<1> USE BoundsAssumption DEF CalmInv, RecoveryInv, StoreInv, BaseLogInv, OneCompactor, TypeOK,
      FilesTyped, ProcessTyped, HolderTyped, LiveSteps, MaintSteps, OpenSteps, AllSteps, Writing,
      Publishing, At, Nobody, NoPrep, NoIntent, NoFile, WalIs, pairVars, diskVars, memVars,
      auxVars, Plain, Marked, Cut, Ahead, Done, Whole, IntentKept, NewStage, Served, Working,
      Unusable, Calm, HolderLives, WriterForm, MaintForm, OpenForm, FreeForm, PrepForm, GenOrder
<1>1. CASE Freeze
  BY <1>1 DEF Freeze, CanFreeze
<1>2. CASE Build
  BY <1>2 DEF Build
<1>3. CASE BuildFails
  BY <1>3 DEF BuildFails, Fails, CalmFaults
<1>4. CASE MaintAcquire
  BY <1>4 DEF MaintAcquire
<1>5. CASE WriteIntent
  BY <1>5 DEF WriteIntent, Goto
<1>6. CASE StageTailFails
  BY <1>6 DEF StageTailFails, MaintFails, Fails, CalmFaults
<1>7. CASE WriteIntentFails
  BY <1>7 DEF WriteIntentFails, MaintFails, Fails, CalmFaults
<1>8. CASE Install
  BY <1>8 DEF Install, Goto
<1>9. CASE InstallFails
  BY <1>9 DEF InstallFails, MaintFails, Fails, CalmFaults
<1>10. CASE MaintMarker
  BY <1>10 DEF MaintMarker, Goto
<1>11. CASE MaintMarkerFails
  BY <1>11 DEF MaintMarkerFails, MaintFails, Fails, CalmFaults
<1>12. CASE FinishIntent
  BY <1>12 DEF FinishIntent, Goto
<1>13. CASE FinishIntentFails
  BY <1>13 DEF FinishIntentFails, MaintFails, Fails, CalmFaults
<1>14. CASE MaintFlag
  BY <1>14 DEF MaintFlag
<1>15. CASE MaintExit
  BY <1>15 DEF MaintExit, ProcessEnds
<1> HIDE DEF CalmInv, Calm
<1> QED
  BY <1>1, <1>2, <1>3, <1>4, <1>5, <1>6, <1>7, <1>8, <1>9, <1>10, <1>11, <1>12, <1>13, <1>14,
     <1>15 DEF Maintenance

LEMMA OpeningCalm == ASSUME CalmInv, CalmFaults, Opening PROVE Calm'
<1> USE BoundsAssumption DEF CalmInv, RecoveryInv, StoreInv, BaseLogInv, OneCompactor, TypeOK,
      FilesTyped, ProcessTyped, HolderTyped, LiveSteps, MaintSteps, OpenSteps, AllSteps, Writing,
      Publishing, At, Nobody, NoPrep, NoIntent, NoFile, WalIs, pairVars, diskVars, memVars,
      auxVars, Plain, Marked, Cut, Ahead, Done, Whole, IntentKept, NewStage, Served, Working,
      Unusable, Calm, HolderLives, WriterForm, MaintForm, OpenForm, FreeForm, PrepForm, GenOrder
<1>1. CASE OpenStart
  BY <1>1 DEF OpenStart, Openable, IntentOk, PairOk
<1>2. CASE OpenResets
  BY <1>2 DEF OpenResets, UsesStage, Short
<1>3. CASE OpenWal
  BY <1>3 DEF OpenWal, UsesStage, Goto, Bare, Short
<1>4. CASE OpenTidies
  BY <1>4 DEF OpenTidies, Goto
<1>5. CASE OpenRecovers
  BY <1>5 DEF OpenRecovers, Goto
<1>6. CASE OpenFinishesIntent
  BY <1>6 DEF OpenFinishesIntent, Goto
<1>7. CASE OpenEnsures
  BY <1>7 DEF OpenEnsures, Fails, Goto, CalmFaults
<1>8. CASE OpenReflects
  BY <1>8 DEF OpenReflects, Goto, Fails, CalmFaults
<1>9. CASE OpenDone
  BY <1>9 DEF OpenDone
<1> HIDE DEF CalmInv, Calm
<1> QED
  BY <1>1, <1>2, <1>3, <1>4, <1>5, <1>6, <1>7, <1>8, <1>9 DEF Opening

LEMMA OthersCalm == ASSUME CalmInv, CalmFaults, OtherProcess \/ RetryElapsed \/ Crash PROVE Calm'
<1> USE BoundsAssumption DEF CalmInv, RecoveryInv, StoreInv, BaseLogInv, OneCompactor, TypeOK,
      FilesTyped, ProcessTyped, HolderTyped, LiveSteps, MaintSteps, OpenSteps, AllSteps, Writing,
      Publishing, At, Nobody, NoPrep, NoIntent, NoFile, WalIs, pairVars, diskVars, memVars,
      auxVars, Plain, Marked, Cut, Ahead, Done, Whole, IntentKept, NewStage, Served, Working,
      Unusable, Calm, HolderLives, WriterForm, MaintForm, OpenForm, FreeForm, PrepForm, GenOrder
<1>1. CASE BuilderStarts
  BY <1>1 DEF BuilderStarts
<1>2. CASE BuilderEnds
  BY <1>2 DEF BuilderEnds
<1>3. CASE RetryElapsed
  BY <1>3 DEF RetryElapsed
<1>4. CASE Crash
  BY <1>4 DEF Crash, ProcessEnds
<1> HIDE DEF CalmInv, Calm
<1> QED
  BY <1>1, <1>2, <1>3, <1>4 DEF OtherProcess

LEMMA CalmStep == ASSUME CalmFaults PROVE CalmInv /\ [Next]_vars => CalmInv'
<1> SUFFICES ASSUME CalmInv, [Next]_vars PROVE CalmInv'
  OBVIOUS
<1>1. SafeFaults
  BY DEF CalmFaults, SafeFaults
<1>2. RecoveryInv'
  BY <1>1, RecoveryStep DEF CalmInv
<1>3. CASE Next
  <2>1. Calm'
    BY <1>3, WritersCalm, SettlingCalm, PublicationCalm, MaintenanceCalm, OpeningCalm, OthersCalm
       DEF Next
  <2> QED
    BY <1>2, <2>1 DEF CalmInv
<1>4. CASE UNCHANGED vars
  <2>1. Calm'
    BY <1>4 DEF vars, diskVars, pairVars, memVars, auxVars, CalmInv, Calm, At
  <2> QED
    BY <1>2, <2>1 DEF CalmInv
<1> QED
  BY <1>3, <1>4

(* As long as only folds, tails, intents and catalog builds fail, no restart  *)
(* for recovery, no failed compaction, no crash and no other process leaves   *)
(* the index marked stale: recoverable files are never given up.             *)
THEOREM RestartNotStaleHolds == ASSUME CalmFaults PROVE Spec => []RestartNotStale
<1>1. Init => CalmInv
  <2> SUFFICES ASSUME Init PROVE CalmInv
    OBVIOUS
  <2>1. Calm
    BY DEF Init, Calm, At, Nobody
  <2> QED
    BY <2>1, RecoveryInit DEF CalmInv
<1>2. CalmInv => RestartNotStale
  BY DEF CalmInv, Calm, RestartNotStale
<1> QED
  BY <1>1, <1>2, CalmStep, PTL DEF Spec
-----------------------------------------------------------------------------
(***************************************************************************)
(* The browse catalog beside the store never claims more than it holds.    *)
(* Its cursor says up to which frame of which log it is current, and the   *)
(* listings then leave the log out; a cursor that is ahead hides entries,  *)
(* and no later step would notice.                                         *)
(*                                                                         *)
(* The argument: the catalog is brought up to date by whoever appends, and *)
(* its cursor is moved by compactions, which do not look at its content.   *)
(* ListedInv therefore says of every step of every holder of the lock what *)
(* the catalog holds (Lists) and for which base it is (Current, Replacing).*)
(***************************************************************************)

(* What would put a cursor ahead of its catalog: a catalog that another      *)
(* process builds (found_cursor_builder), a build that fails at the open     *)
(* after a compaction was recovered, and a batch of the sweep that fails to  *)
(* reach the catalog while a later one succeeds.  None can be left out.      *)
CatalogSafe ==
  /\ ~OtherBuilder /\ "ensure" \notin Faults
  /\ "catalog" \in Faults => "background" \notin Modes
-----------------------------------------------------------------------------
\* The catalog holds every change up to n.
Lists(n) == 1 .. n \subseteq catalog.has

\* Its cursor names the published base, or the one being replaced.
Current == catalog.gen = base.gen
Replacing == catalog.gen = hold.prev /\ hold.prev # 0

\* What the catalog holds, whatever the process does: all its cursor claims,
\* and all of the base it belongs to, the staged one included.
CatalogForm ==
  /\ ~IsBuilding
  /\ Lists(catalog.curHi)
  /\ Current => Lists(base.upto)
  /\ Marked \/ Cut \/ Ahead => Lists(stage.upto)
  /\ Done => Lists(base.upto)

\* No writer gave up the log or the mapped base.
Reflected == Served /\ log = "live" /\ ~(mode = "foreground" /\ stale)

UpListed == phase = "up" /\ hold = Nobody /\ Reflected => Current /\ Lists(wal.hi)

\* During a writer's turn, before and after its frames reach the catalog.
TurnListed ==
  hold.by \in {"live", "sweep"} =>
    /\ hold.at \in {"append", "catalog"} /\ Reflected => Current /\ Lists(hold.from)
    /\ hold.at \in {"mark", "settle"} /\ Reflected => Current /\ Lists(wal.hi)
    /\ hold.at \notin Writing \cup {"settle"} => Lists(wal.hi)
    /\ hold.at \in {"stamp", "truncate", "magic", "header", "publish", "advance"} => Replacing
    /\ hold.at \in {"stamp", "cursor", "unmark", "unstage"} => Current

\* During the maintenance thread's turn, and while it builds without the lock.
PrepListed ==
  /\ prep.at # "none" /\ log = "live" => Lists(prep.hi)
  /\ hold.by = "maint" =>
       /\ (At("tail") => log = "live") => Lists(wal.hi)
       /\ At("tail") /\ log = "live" => Current
       /\ At("tail") => hold.prev = base.gen
       /\ hold.at \in {"install", "stamp", "publish", "advance"} => Replacing
       /\ hold.at \in {"cursor", "unmark", "finish", "unstage"} => Current

\* During an open, which lists the frames of the log it replays.
OpenListed ==
  hold.by = "open" =>
    /\ At("advance") => Lists(base.upto)
    /\ hold.at \in {"reflect", "markDelta"} => Current
    /\ At("markDelta") => Lists(wal.hi)

\* Only a running process owes an error path, and in the foreground mode only
\* the live writer does, before it has marked its state.
OwedForm ==
  /\ phase # "up" => owed = {}
  /\ mode = "foreground" => owed \subseteq {"live"} /\ (hold.by = "live" => ~stale)

ListedInv == CatalogForm /\ UpListed /\ TurnListed /\ PrepListed /\ OpenListed /\ OwedForm

CatalogInv == RecoveryInv /\ ListedInv
-----------------------------------------------------------------------------
(* Every action keeps it, one lemma for each group of actions.               *)

(* The first changes are among the first ones. *)
LEMMA Initial == ASSUME NEW n \in Nat, NEW m \in 0 .. n PROVE 1 .. m \subseteq 1 .. n
  OBVIOUS

(* Live events and the sweep: frames are appended, then listed, then stamped. *)
LEMMA WritersList ==
  ASSUME CatalogInv, StoreInv', SafeFaults, CatalogSafe, Writers PROVE ListedInv'
<1> USE BoundsAssumption DEF CatalogInv, ListedInv, RecoveryInv, StoreInv, BaseLogInv,
      OneCompactor, TypeOK, FilesTyped, CatalogTyped, ProcessTyped, HolderTyped, Gen, Pos,
      LiveSteps, MaintSteps, OpenSteps, AllSteps, Writing, Publishing, At, Nobody, NoPrep,
      NoIntent, NoFile, WalIs, pairVars, diskVars, memVars, auxVars, Plain, Marked, Cut, Ahead,
      Done, Whole, IntentKept, NewStage, Served, Working, Unusable, Lists, Current, Replacing,
      Reflected, IsBuilding, CatalogForm, UpListed, TurnListed, PrepListed, OpenListed, OwedForm,
      FileForm, HolderLives, WriterForm, TurnForm, MaintForm, OpenForm, FreeForm, PrepForm,
      GenOrder
<1>1. ASSUME NEW w \in {"live", "sweep"}, Refused(w) PROVE ListedInv'
  BY <1>1 DEF Refused
<1>2. ASSUME NEW w \in {"live", "sweep"}, NEW k \in 1 .. Batch, Acquire(w, k) PROVE ListedInv'
  BY <1>2 DEF Acquire
<1>3. CASE AppendFrame
  BY <1>3 DEF AppendFrame
<1>4. CASE AppendDone
  BY <1>4 DEF AppendDone, Goto
<1>5. CASE AppendFails
  <2>1. CatalogForm'
    BY <1>5 DEF AppendFails, WriterFails, Fails, SafeFaults, CatalogSafe
  <2>2. UpListed'
    BY SMTT(60), <1>5 DEF AppendFails, WriterFails, Fails, SafeFaults, CatalogSafe
  <2>3. TurnListed'
    BY SMTT(60), <1>5 DEF AppendFails, WriterFails, Fails, SafeFaults, CatalogSafe
  <2>4. PrepListed'
    BY SMTT(60), <1>5 DEF AppendFails, WriterFails, Fails, SafeFaults, CatalogSafe
  <2>5. OpenListed'
    BY SMTT(60), <1>5 DEF AppendFails, WriterFails, Fails, SafeFaults, CatalogSafe
  <2>6. OwedForm'
    BY <1>5 DEF AppendFails, WriterFails, Fails, SafeFaults, CatalogSafe
  <2> HIDE DEF CatalogInv, StoreInv, CatalogForm, UpListed, TurnListed, PrepListed, OpenListed,
      OwedForm
  <2> QED
    BY <2>1, <2>2, <2>3, <2>4, <2>5, <2>6
<1>6. CASE ApplyCatalog
  <2>1. CatalogForm'
    BY <1>6 DEF ApplyCatalog, Goto, Reflect
  <2>2. UpListed'
    BY <1>6 DEF ApplyCatalog, Goto, Reflect
  <2>3. TurnListed'
    BY <1>6 DEF ApplyCatalog, Goto, Reflect
  <2>4. PrepListed'
    BY <1>6 DEF ApplyCatalog, Goto, Reflect
  <2>5. OpenListed'
    BY <1>6 DEF ApplyCatalog, Goto, Reflect
  <2>6. OwedForm'
    BY SMTT(60), <1>6 DEF ApplyCatalog, Goto, Reflect
  <2> HIDE DEF CatalogInv, StoreInv, CatalogForm, UpListed, TurnListed, PrepListed, OpenListed,
      OwedForm
  <2> QED
    BY <2>1, <2>2, <2>3, <2>4, <2>5, <2>6
<1>7. CASE ApplyCatalogFails
  <2>1. CatalogForm'
    BY <1>7 DEF ApplyCatalogFails, WriterFails, Fails, SafeFaults, CatalogSafe
  <2>2. UpListed'
    <3> HIDE DEF CatalogForm, UpListed, TurnListed, PrepListed, OpenListed, OwedForm, FileForm,
        HolderLives, WriterForm, TurnForm, MaintForm, OpenForm, FreeForm, PrepForm, GenOrder
    <3>1. "catalog" \in Faults /\ mode \in Modes
      BY <1>7 DEF ApplyCatalogFails, Fails, HolderLives
    <3>2. mode # "background" /\ hold.by = "live"
      BY <1>7, <3>1 DEF ApplyCatalogFails, CatalogSafe
    <3>3. stale' /\ mode' = mode
      BY <1>7, <3>2 DEF ApplyCatalogFails, WriterFails
    <3> QED
      BY <3>2, <3>3 DEF UpListed
  <2>3. TurnListed'
    BY <1>7 DEF ApplyCatalogFails, WriterFails, Fails, SafeFaults, CatalogSafe
  <2>4. PrepListed'
    BY SMTT(60), <1>7 DEF ApplyCatalogFails, WriterFails, Fails, SafeFaults, CatalogSafe
  <2>5. OpenListed'
    BY SMTT(60), <1>7 DEF ApplyCatalogFails, WriterFails, Fails, SafeFaults, CatalogSafe
  <2>6. OwedForm'
    BY <1>7 DEF ApplyCatalogFails, WriterFails, Fails, SafeFaults, CatalogSafe
  <2> HIDE DEF CatalogInv, StoreInv, CatalogForm, UpListed, TurnListed, PrepListed, OpenListed,
      OwedForm
  <2> QED
    BY <2>1, <2>2, <2>3, <2>4, <2>5, <2>6
<1>8. CASE MarkDelta
  <2>1. CatalogForm'
    BY <1>8 DEF MarkDelta, Stamp
  <2>2. UpListed'
    BY <1>8 DEF MarkDelta, Stamp
  <2>3. TurnListed'
    <3> HIDE DEF CatalogForm, UpListed, TurnListed, PrepListed, OpenListed, OwedForm, FileForm,
        HolderLives, WriterForm, TurnForm, MaintForm, OpenForm, FreeForm, PrepForm, GenOrder
    <3>1. hold.by \in {"live", "sweep"} /\ UNCHANGED <<wal, pairVars, mode, memBase, log, stale>>
      BY <1>8 DEF MarkDelta
    <3>2. catalog'.has = catalog.has /\ catalog'.gen = catalog.gen
      BY <1>8 DEF MarkDelta, Stamp
    <3>3. hold' = Nobody \/ hold'.at = "settle"
      BY <1>8, MarkedTurn
    <3>4. hold.at = "mark"
      BY <1>8 DEF MarkDelta
    <3> QED
      BY <3>1, <3>2, <3>3, <3>4 DEF TurnListed
  <2>4. PrepListed'
    <3> HIDE DEF CatalogForm, UpListed, TurnListed, PrepListed, OpenListed, OwedForm, FileForm,
        HolderLives, WriterForm, TurnForm, MaintForm, OpenForm, FreeForm, PrepForm, GenOrder
    <3>1. hold.by \in {"live", "sweep"} /\ UNCHANGED <<wal, prep, log>>
      BY <1>8 DEF MarkDelta
    <3>2. catalog'.has = catalog.has
      BY <1>8 DEF MarkDelta, Stamp
    <3>3. hold' = Nobody \/ hold'.by = hold.by
      BY <1>8, MarkedTurn
    <3> QED
      BY <3>1, <3>2, <3>3 DEF PrepListed
  <2>5. OpenListed'
    BY <1>8 DEF MarkDelta, Stamp
  <2>6. OwedForm'
    BY SMTT(60), <1>8 DEF MarkDelta, Stamp
  <2> HIDE DEF CatalogInv, StoreInv, CatalogForm, UpListed, TurnListed, PrepListed, OpenListed,
      OwedForm
  <2> QED
    BY <2>1, <2>2, <2>3, <2>4, <2>5, <2>6
<1>9. CASE MarkDeltaFails
  <2>1. CatalogForm'
    BY <1>9 DEF MarkDeltaFails, WriterFails, Fails, SafeFaults, CatalogSafe
  <2>2. UpListed'
    BY <1>9 DEF MarkDeltaFails, WriterFails, Fails, SafeFaults, CatalogSafe
  <2>3. TurnListed'
    BY <1>9 DEF MarkDeltaFails, WriterFails, Fails, SafeFaults, CatalogSafe
  <2>4. PrepListed'
    BY SMTT(60), <1>9 DEF MarkDeltaFails, WriterFails, Fails, SafeFaults, CatalogSafe
  <2>5. OpenListed'
    BY SMTT(60), <1>9 DEF MarkDeltaFails, WriterFails, Fails, SafeFaults, CatalogSafe
  <2>6. OwedForm'
    BY <1>9 DEF MarkDeltaFails, WriterFails, Fails, SafeFaults, CatalogSafe
  <2> HIDE DEF CatalogInv, StoreInv, CatalogForm, UpListed, TurnListed, PrepListed, OpenListed,
      OwedForm
  <2> QED
    BY <2>1, <2>2, <2>3, <2>4, <2>5, <2>6
<1>10. CASE LiveFailClosed
  BY <1>10 DEF LiveFailClosed
<1>11. CASE SweepRecordsFailure
  BY SMTT(60), <1>11 DEF SweepRecordsFailure
<1>12. CASE SweepStops
  BY <1>12 DEF SweepStops
<1> HIDE DEF CatalogInv, ListedInv
<1> QED
  BY <1>1, <1>2, <1>3, <1>4, <1>5, <1>6, <1>7, <1>8, <1>9, <1>10, <1>11, <1>12 DEF Writers

(* The compaction a writer runs inline, up to the log of the new generation. *)
LEMMA SettlingList ==
  ASSUME CatalogInv, StoreInv', SafeFaults, CatalogSafe, Settling PROVE ListedInv'
<1> USE BoundsAssumption DEF CatalogInv, ListedInv, RecoveryInv, StoreInv, BaseLogInv,
      OneCompactor, TypeOK, FilesTyped, CatalogTyped, ProcessTyped, HolderTyped, Gen, Pos,
      LiveSteps, MaintSteps, OpenSteps, AllSteps, Writing, Publishing, At, Nobody, NoPrep,
      NoIntent, NoFile, WalIs, pairVars, diskVars, memVars, auxVars, Plain, Marked, Cut, Ahead,
      Done, Whole, IntentKept, NewStage, Served, Working, Unusable, Lists, Current, Replacing,
      Reflected, IsBuilding, CatalogForm, UpListed, TurnListed, PrepListed, OpenListed, OwedForm,
      FileForm, HolderLives, WriterForm, TurnForm, MaintForm, OpenForm, FreeForm, PrepForm,
      GenOrder
<1>1. CASE SettleSkips
  BY <1>1 DEF SettleSkips, AfterSettle
<1>2. CASE Fold
  <2>1. CatalogForm'
    BY <1>2 DEF Fold, Reflect, Frames, Fails, SafeFaults, CatalogSafe
  <2>2. UpListed'
    BY <1>2 DEF Fold, Reflect, Frames, Fails, SafeFaults, CatalogSafe
  <2>3. TurnListed'
    BY <1>2 DEF Fold, Reflect, Frames, Fails, SafeFaults, CatalogSafe
  <2>4. PrepListed'
    BY <1>2 DEF Fold, Reflect, Frames, Fails, SafeFaults, CatalogSafe
  <2>5. OpenListed'
    BY <1>2 DEF Fold, Reflect, Frames, Fails, SafeFaults, CatalogSafe
  <2>6. OwedForm'
    BY <1>2 DEF Fold, Reflect, Frames, Fails, SafeFaults, CatalogSafe
  <2> HIDE DEF CatalogInv, StoreInv, CatalogForm, UpListed, TurnListed, PrepListed, OpenListed,
      OwedForm
  <2> QED
    BY <2>1, <2>2, <2>3, <2>4, <2>5, <2>6
<1>3. CASE FoldFails
  BY <1>3 DEF FoldFails, AfterSettle, Fails, SafeFaults, CatalogSafe
<1>4. CASE WriteMarker
  <2>1. CatalogForm'
    BY <1>4 DEF WriteMarker, Goto
  <2>2. UpListed'
    BY <1>4 DEF WriteMarker, Goto
  <2>3. TurnListed'
    BY <1>4 DEF WriteMarker, Goto
  <2>4. PrepListed'
    BY <1>4 DEF WriteMarker, Goto
  <2>5. OpenListed'
    BY <1>4 DEF WriteMarker, Goto
  <2>6. OwedForm'
    BY <1>4 DEF WriteMarker, Goto
  <2> HIDE DEF CatalogInv, StoreInv, CatalogForm, UpListed, TurnListed, PrepListed, OpenListed,
      OwedForm
  <2> QED
    BY <2>1, <2>2, <2>3, <2>4, <2>5, <2>6
<1>5. CASE WriteMarkerFails
  <2>1. CatalogForm'
    BY <1>5 DEF WriteMarkerFails, AfterSettle, Fails, SafeFaults, CatalogSafe
  <2>2. UpListed'
    BY <1>5 DEF WriteMarkerFails, AfterSettle, Fails, SafeFaults, CatalogSafe
  <2>3. TurnListed'
    BY <1>5 DEF WriteMarkerFails, AfterSettle, Fails, SafeFaults, CatalogSafe
  <2>4. PrepListed'
    BY <1>5 DEF WriteMarkerFails, AfterSettle, Fails, SafeFaults, CatalogSafe
  <2>5. OpenListed'
    BY <1>5 DEF WriteMarkerFails, AfterSettle, Fails, SafeFaults, CatalogSafe
  <2>6. OwedForm'
    BY <1>5 DEF WriteMarkerFails, AfterSettle, Fails, SafeFaults, CatalogSafe
  <2> HIDE DEF CatalogInv, StoreInv, CatalogForm, UpListed, TurnListed, PrepListed, OpenListed,
      OwedForm
  <2> QED
    BY <2>1, <2>2, <2>3, <2>4, <2>5, <2>6
<1>6. CASE ResetTruncates
  BY <1>6 DEF ResetTruncates, Goto, Short
<1>7. CASE ResetWritesMagic
  BY <1>7 DEF ResetWritesMagic, Goto, Short
<1>8. CASE ResetWritesGeneration
  BY <1>8 DEF ResetWritesGeneration, Goto, Bare, Short
<1>9. CASE ResetFails
  BY <1>9 DEF ResetFails, AfterSettle, Fails, SafeFaults, CatalogSafe
<1>10. CASE ClearFails
  BY <1>10 DEF ClearFails, AfterSettle, Fails, Bare, Short, SafeFaults, CatalogSafe
<1> HIDE DEF CatalogInv, ListedInv
<1> QED
  BY <1>1, <1>2, <1>3, <1>4, <1>5, <1>6, <1>7, <1>8, <1>9, <1>10 DEF Settling

(* The new base, then the generation of the catalog, then its cursor. *)
LEMMA PublicationList ==
  ASSUME CatalogInv, StoreInv', SafeFaults, CatalogSafe, Publication PROVE ListedInv'
<1> USE BoundsAssumption DEF CatalogInv, ListedInv, RecoveryInv, StoreInv, BaseLogInv,
      OneCompactor, TypeOK, FilesTyped, CatalogTyped, ProcessTyped, HolderTyped, Gen, Pos,
      LiveSteps, MaintSteps, OpenSteps, AllSteps, Writing, Publishing, At, Nobody, NoPrep,
      NoIntent, NoFile, WalIs, pairVars, diskVars, memVars, auxVars, Plain, Marked, Cut, Ahead,
      Done, Whole, IntentKept, NewStage, Served, Working, Unusable, Lists, Current, Replacing,
      Reflected, IsBuilding, CatalogForm, UpListed, TurnListed, PrepListed, OpenListed, OwedForm,
      FileForm, HolderLives, WriterForm, TurnForm, MaintForm, OpenForm, FreeForm, PrepForm,
      GenOrder
<1>1. CASE Publish
  BY SMTT(60), <1>1 DEF Publish, Goto
<1>2. CASE PublishFails
  <2>1. CatalogForm'
    BY SMTT(60), <1>2 DEF PublishFails, WriterFails, MaintFails, Fails, SafeFaults, CatalogSafe
  <2>2. UpListed'
    BY SMTT(60), <1>2 DEF PublishFails, WriterFails, MaintFails, Fails, SafeFaults, CatalogSafe
  <2>3. TurnListed'
    BY SMTT(60), <1>2 DEF PublishFails, WriterFails, MaintFails, Fails, SafeFaults, CatalogSafe
  <2>4. PrepListed'
    BY SMTT(60), <1>2 DEF PublishFails, WriterFails, MaintFails, Fails, SafeFaults, CatalogSafe
  <2>5. OpenListed'
    BY <1>2 DEF PublishFails, WriterFails, MaintFails, Fails, SafeFaults, CatalogSafe
  <2>6. OwedForm'
    <3> HIDE DEF CatalogForm, UpListed, TurnListed, PrepListed, OpenListed, OwedForm, FileForm,
        HolderLives, WriterForm, TurnForm, MaintForm, OpenForm, FreeForm, PrepForm, GenOrder
    <3>1. CASE hold.by = "live"
      <4>1. hold' = Nobody /\ owed' = owed \cup {"live"} /\ UNCHANGED <<phase,
         mode>> /\ phase = "up"
        BY <1>2, <3>1 DEF PublishFails, WriterFails, HolderLives
      <4> QED
        BY <4>1 DEF OwedForm
    <3>2. CASE hold.by = "maint"
      <4>1. phase = "up" /\ phase' = phase /\ mode = "background" /\ mode' = mode
        BY <1>2, <3>2 DEF PublishFails, MaintFails, HolderLives
      <4> QED
        BY <4>1 DEF OwedForm
    <3> QED
      BY <1>2, <3>1, <3>2 DEF PublishFails
  <2> HIDE DEF CatalogInv, StoreInv, CatalogForm, UpListed, TurnListed, PrepListed, OpenListed,
      OwedForm
  <2> QED
    BY <2>1, <2>2, <2>3, <2>4, <2>5, <2>6
<1>3. CASE AdvanceGeneration
  <2>1. CatalogForm'
    BY <1>3 DEF AdvanceGeneration, Goto, Advanced
  <2>2. UpListed'
    BY <1>3 DEF AdvanceGeneration, Goto, Advanced
  <2>3. TurnListed'
    BY <1>3 DEF AdvanceGeneration, Goto, Advanced
  <2>4. PrepListed'
    BY <1>3 DEF AdvanceGeneration, Goto, Advanced
  <2>5. OpenListed'
    BY <1>3 DEF AdvanceGeneration, Goto, Advanced
  <2>6. OwedForm'
    BY <1>3 DEF AdvanceGeneration, Goto, Advanced
  <2> HIDE DEF CatalogInv, StoreInv, CatalogForm, UpListed, TurnListed, PrepListed, OpenListed,
      OwedForm
  <2> QED
    BY <2>1, <2>2, <2>3, <2>4, <2>5, <2>6
<1>4. CASE MarkEmptied
  BY SMTT(60), <1>4 DEF MarkEmptied, Goto, Stamp
<1>5. CASE CatalogStepFails
  <2>1. CatalogForm'
    BY SMTT(60), <1>5 DEF CatalogStepFails, WriterFails, MaintFails, Fails, SafeFaults, CatalogSafe
  <2>2. UpListed'
    BY SMTT(60), <1>5 DEF CatalogStepFails, WriterFails, MaintFails, Fails, SafeFaults, CatalogSafe
  <2>3. TurnListed'
    BY SMTT(60), <1>5 DEF CatalogStepFails, WriterFails, MaintFails, Fails, SafeFaults, CatalogSafe
  <2>4. PrepListed'
    BY SMTT(60), <1>5 DEF CatalogStepFails, WriterFails, MaintFails, Fails, SafeFaults, CatalogSafe
  <2>5. OpenListed'
    BY <1>5 DEF CatalogStepFails, WriterFails, MaintFails, Fails, SafeFaults, CatalogSafe
  <2>6. OwedForm'
    <3> HIDE DEF CatalogForm, UpListed, TurnListed, PrepListed, OpenListed, OwedForm, FileForm,
        HolderLives, WriterForm, TurnForm, MaintForm, OpenForm, FreeForm, PrepForm, GenOrder
    <3>1. CASE hold.by = "live"
      <4>1. hold' = Nobody /\ owed' = owed \cup {"live"} /\ UNCHANGED <<phase,
         mode>> /\ phase = "up"
        BY <1>5, <3>1 DEF CatalogStepFails, WriterFails, HolderLives
      <4> QED
        BY <4>1 DEF OwedForm
    <3>2. CASE hold.by = "maint"
      <4>1. phase = "up" /\ phase' = phase /\ mode = "background" /\ mode' = mode
        BY <1>5, <3>2 DEF CatalogStepFails, MaintFails, HolderLives
      <4> QED
        BY <4>1 DEF OwedForm
    <3> QED
      BY <1>5, <3>1, <3>2 DEF CatalogStepFails
  <2> HIDE DEF CatalogInv, StoreInv, CatalogForm, UpListed, TurnListed, PrepListed, OpenListed,
      OwedForm
  <2> QED
    BY <2>1, <2>2, <2>3, <2>4, <2>5, <2>6
<1>6. CASE Unmark
  <2>1. CatalogForm'
    BY <1>6 DEF Unmark, Goto
  <2>2. UpListed'
    BY <1>6 DEF Unmark, Goto
  <2>3. TurnListed'
    BY <1>6 DEF Unmark, Goto
  <2>4. PrepListed'
    BY <1>6 DEF Unmark, Goto
  <2>5. OpenListed'
    BY <1>6 DEF Unmark, Goto
  <2>6. OwedForm'
    BY <1>6 DEF Unmark, Goto
  <2> HIDE DEF CatalogInv, StoreInv, CatalogForm, UpListed, TurnListed, PrepListed, OpenListed,
      OwedForm
  <2> QED
    BY <2>1, <2>2, <2>3, <2>4, <2>5, <2>6
<1>7. CASE UnmarkFails
  <2>1. CatalogForm'
    BY <1>7 DEF UnmarkFails, MaintFails, AfterSettle, Fails, SafeFaults, CatalogSafe
  <2>2. UpListed'
    BY <1>7 DEF UnmarkFails, MaintFails, AfterSettle, Fails, SafeFaults, CatalogSafe
  <2>3. TurnListed'
    BY <1>7 DEF UnmarkFails, MaintFails, AfterSettle, Fails, SafeFaults, CatalogSafe
  <2>4. PrepListed'
    BY <1>7 DEF UnmarkFails, MaintFails, AfterSettle, Fails, SafeFaults, CatalogSafe
  <2>5. OpenListed'
    BY <1>7 DEF UnmarkFails, MaintFails, AfterSettle, Fails, SafeFaults, CatalogSafe
  <2>6. OwedForm'
    BY <1>7 DEF UnmarkFails, MaintFails, AfterSettle, Fails, SafeFaults, CatalogSafe
  <2> HIDE DEF CatalogInv, StoreInv, CatalogForm, UpListed, TurnListed, PrepListed, OpenListed,
      OwedForm
  <2> QED
    BY <2>1, <2>2, <2>3, <2>4, <2>5, <2>6
<1>8. CASE Unstage
  <2>1. CatalogForm'
    BY <1>8 DEF Unstage, AfterSettle, Goto
  <2>2. UpListed'
    BY <1>8 DEF Unstage, AfterSettle, Goto
  <2>3. TurnListed'
    <3> HIDE DEF CatalogForm, UpListed, TurnListed, PrepListed, OpenListed, OwedForm, FileForm,
        HolderLives, WriterForm, TurnForm, MaintForm, OpenForm, FreeForm, PrepForm, GenOrder
    <3>1. CASE hold.by # "live"
      <4>1. hold' = Nobody \/ (hold.by = "open" /\ hold'.by = hold.by)
        BY <1>8, <3>1, UnstagedTurn
      <4> QED
        BY <4>1 DEF TurnListed
    <3>2. CASE hold.by = "live"
      <4>1. AfterSettle(FALSE) /\ UNCHANGED <<base, wal, catalog>>
        BY <1>8, <3>2 DEF Unstage
      <4>2. Current /\ Lists(wal.hi) /\ (hold.then = "append" => hold.from = wal.hi)
        BY <1>8, <3>2 DEF Unstage, TurnListed, TurnForm
      <4>3. \/ hold' = Nobody
            \/ hold.then = "append" /\ hold'.at = "append" /\ hold'.from = hold.from
        BY <4>1, SettledTurn
      <4> QED
        BY <4>1, <4>2, <4>3 DEF TurnListed
    <3> QED
      BY <3>1, <3>2
  <2>4. PrepListed'
    <3> HIDE DEF CatalogForm, UpListed, TurnListed, PrepListed, OpenListed, OwedForm, FileForm,
        HolderLives, WriterForm, TurnForm, MaintForm, OpenForm, FreeForm, PrepForm, GenOrder
    <3>1. CASE hold.by = "maint"
      BY <1>8, <3>1 DEF Unstage, PrepListed
    <3>2. CASE hold.by # "maint"
      <4>1. UNCHANGED <<wal, catalog, log, prep>>
        BY <1>8, <3>2 DEF Unstage
      <4>2. hold' = Nobody \/ hold'.by = hold.by
        BY <1>8, <3>2, UnstagedTurn
      <4> QED
        BY <3>2, <4>1, <4>2 DEF PrepListed
    <3> QED
      BY <3>1, <3>2
  <2>5. OpenListed'
    BY <1>8 DEF Unstage, AfterSettle, Goto
  <2>6. OwedForm'
    BY <1>8 DEF Unstage, AfterSettle, Goto
  <2> HIDE DEF CatalogInv, StoreInv, CatalogForm, UpListed, TurnListed, PrepListed, OpenListed,
      OwedForm
  <2> QED
    BY <2>1, <2>2, <2>3, <2>4, <2>5, <2>6
<1> HIDE DEF CatalogInv, ListedInv
<1> QED
  BY <1>1, <1>2, <1>3, <1>4, <1>5, <1>6, <1>7, <1>8 DEF Publication

(* The compaction of the maintenance thread. *)
LEMMA MaintenanceList ==
  ASSUME CatalogInv, StoreInv', SafeFaults, CatalogSafe, Maintenance PROVE ListedInv'
<1> USE BoundsAssumption DEF CatalogInv, ListedInv, RecoveryInv, StoreInv, BaseLogInv,
      OneCompactor, TypeOK, FilesTyped, CatalogTyped, ProcessTyped, HolderTyped, Gen, Pos,
      LiveSteps, MaintSteps, OpenSteps, AllSteps, Writing, Publishing, At, Nobody, NoPrep,
      NoIntent, NoFile, WalIs, pairVars, diskVars, memVars, auxVars, Plain, Marked, Cut, Ahead,
      Done, Whole, IntentKept, NewStage, Served, Working, Unusable, Lists, Current, Replacing,
      Reflected, IsBuilding, CatalogForm, UpListed, TurnListed, PrepListed, OpenListed, OwedForm,
      FileForm, HolderLives, WriterForm, TurnForm, MaintForm, OpenForm, FreeForm, PrepForm,
      GenOrder
<1>1. CASE Freeze
  BY SMTT(60), <1>1 DEF Freeze, CanFreeze
<1>2. CASE Build
  BY SMTT(60), <1>2 DEF Build
<1>3. CASE BuildFails
  BY <1>3 DEF BuildFails, Fails, SafeFaults, CatalogSafe
<1>4. CASE MaintAcquire
  <2>1. CatalogForm'
    BY <1>4 DEF MaintAcquire
  <2>2. UpListed'
    BY <1>4 DEF MaintAcquire
  <2>3. TurnListed'
    <3> HIDE DEF CatalogForm, UpListed, TurnListed, PrepListed, OpenListed, OwedForm, FileForm,
        HolderLives, WriterForm, TurnForm, MaintForm, OpenForm, FreeForm, PrepForm, GenOrder
    <3>1. hold'.by \notin {"live", "sweep"}
      BY <1>4, AcquiredTurn
    <3> QED
      BY <3>1 DEF TurnListed
  <2>4. PrepListed'
    <3> HIDE DEF CatalogForm, UpListed, TurnListed, PrepListed, OpenListed, OwedForm, FileForm,
        HolderLives, WriterForm, TurnForm, MaintForm, OpenForm, FreeForm, PrepForm, GenOrder
    <3>1. /\ hold = Nobody /\ phase = "up" /\ mode = "background" /\ Served
          /\ prep.prev = base.gen
      BY <1>4 DEF MaintAcquire, PrepForm
    <3>2. UNCHANGED <<base, wal, catalog, log>>
      BY <1>4 DEF MaintAcquire
    <3>3. \/ hold' = Nobody /\ prep' = NoPrep
          \/ hold'.at = "tail" /\ hold'.prev = prep.prev /\ prep' = prep
      BY <1>4, AcquiredTurn
    <3>4. log = "live" => Current /\ Lists(wal.hi)
      BY <3>1 DEF UpListed
    <3> QED
      BY <3>1, <3>2, <3>3, <3>4 DEF PrepListed
  <2>5. OpenListed'
    BY <1>4 DEF MaintAcquire
  <2>6. OwedForm'
    BY <1>4 DEF MaintAcquire
  <2> HIDE DEF CatalogInv, StoreInv, CatalogForm, UpListed, TurnListed, PrepListed, OpenListed,
      OwedForm
  <2> QED
    BY <2>1, <2>2, <2>3, <2>4, <2>5, <2>6
<1>5. CASE WriteIntent
  BY SMTT(60), <1>5 DEF WriteIntent, Goto
<1>6. CASE StageTailFails
  <2>1. CatalogForm'
    BY <1>6 DEF StageTailFails, MaintFails, Fails, SafeFaults, CatalogSafe
  <2>2. UpListed'
    BY SMTT(60), <1>6 DEF StageTailFails, MaintFails, Fails, SafeFaults, CatalogSafe
  <2>3. TurnListed'
    BY SMTT(60), <1>6 DEF StageTailFails, MaintFails, Fails, SafeFaults, CatalogSafe
  <2>4. PrepListed'
    BY SMTT(60), <1>6 DEF StageTailFails, MaintFails, Fails, SafeFaults, CatalogSafe
  <2>5. OpenListed'
    BY SMTT(60), <1>6 DEF StageTailFails, MaintFails, Fails, SafeFaults, CatalogSafe
  <2>6. OwedForm'
    BY SMTT(60), <1>6 DEF StageTailFails, MaintFails, Fails, SafeFaults, CatalogSafe
  <2> HIDE DEF CatalogInv, StoreInv, CatalogForm, UpListed, TurnListed, PrepListed, OpenListed,
      OwedForm
  <2> QED
    BY <2>1, <2>2, <2>3, <2>4, <2>5, <2>6
<1>7. CASE WriteIntentFails
  <2>1. CatalogForm'
    BY SMTT(60), <1>7 DEF WriteIntentFails, MaintFails, Fails, SafeFaults, CatalogSafe
  <2>2. UpListed'
    BY SMTT(60), <1>7 DEF WriteIntentFails, MaintFails, Fails, SafeFaults, CatalogSafe
  <2>3. TurnListed'
    BY SMTT(60), <1>7 DEF WriteIntentFails, MaintFails, Fails, SafeFaults, CatalogSafe
  <2>4. PrepListed'
    BY SMTT(60), <1>7 DEF WriteIntentFails, MaintFails, Fails, SafeFaults, CatalogSafe
  <2>5. OpenListed'
    BY SMTT(60), <1>7 DEF WriteIntentFails, MaintFails, Fails, SafeFaults, CatalogSafe
  <2>6. OwedForm'
    BY <1>7 DEF WriteIntentFails, MaintFails, Fails, SafeFaults, CatalogSafe
  <2> HIDE DEF CatalogInv, StoreInv, CatalogForm, UpListed, TurnListed, PrepListed, OpenListed,
      OwedForm
  <2> QED
    BY <2>1, <2>2, <2>3, <2>4, <2>5, <2>6
<1>8. CASE Install
  BY SMTT(60), <1>8 DEF Install, Goto
<1>9. CASE InstallFails
  BY <1>9 DEF InstallFails, MaintFails, Fails, SafeFaults, CatalogSafe
<1>10. CASE MaintMarker
  BY SMTT(60), <1>10 DEF MaintMarker, Goto
<1>11. CASE MaintMarkerFails
  BY <1>11 DEF MaintMarkerFails, MaintFails, Fails, SafeFaults, CatalogSafe
<1>12. CASE FinishIntent
  BY SMTT(60), <1>12 DEF FinishIntent, Goto
<1>13. CASE FinishIntentFails
  BY SMTT(60), <1>13 DEF FinishIntentFails, MaintFails, Fails, SafeFaults, CatalogSafe
<1>14. CASE MaintFlag
  BY SMTT(60), <1>14 DEF MaintFlag
<1>15. CASE MaintExit
  BY <1>15 DEF MaintExit, ProcessEnds
<1> HIDE DEF CatalogInv, ListedInv
<1> QED
  BY <1>1, <1>2, <1>3, <1>4, <1>5, <1>6, <1>7, <1>8, <1>9, <1>10, <1>11, <1>12, <1>13, <1>14,
     <1>15 DEF Maintenance

(* The open, which recovers and lists the log it replays. *)
LEMMA OpeningList ==
  ASSUME CatalogInv, StoreInv', SafeFaults, CatalogSafe, Opening PROVE ListedInv'
<1> USE BoundsAssumption DEF CatalogInv, ListedInv, RecoveryInv, StoreInv, BaseLogInv,
      OneCompactor, TypeOK, FilesTyped, CatalogTyped, ProcessTyped, HolderTyped, Gen, Pos,
      LiveSteps, MaintSteps, OpenSteps, AllSteps, Writing, Publishing, At, Nobody, NoPrep,
      NoIntent, NoFile, WalIs, pairVars, diskVars, memVars, auxVars, Plain, Marked, Cut, Ahead,
      Done, Whole, IntentKept, NewStage, Served, Working, Unusable, Lists, Current, Replacing,
      Reflected, IsBuilding, CatalogForm, UpListed, TurnListed, PrepListed, OpenListed, OwedForm,
      FileForm, HolderLives, WriterForm, TurnForm, MaintForm, OpenForm, FreeForm, PrepForm,
      GenOrder
<1>1. CASE OpenStart
  BY SMTT(60), <1>1 DEF OpenStart, Openable, IntentOk, PairOk
<1>2. CASE OpenResets
  BY SMTT(60), <1>2 DEF OpenResets, UsesStage, Short
<1>3. CASE OpenWal
  BY <1>3 DEF OpenWal, UsesStage, Goto, Bare, Short
<1>4. CASE OpenTidies
  BY <1>4 DEF OpenTidies, Goto
<1>5. CASE OpenRecovers
  BY <1>5 DEF OpenRecovers, Goto
<1>6. CASE OpenFinishesIntent
  BY <1>6 DEF OpenFinishesIntent, Goto
<1>7. CASE OpenEnsures
  <2>1. CatalogForm'
    <3> HIDE DEF CatalogForm, UpListed, TurnListed, PrepListed, OpenListed, OwedForm, FileForm,
        HolderLives, WriterForm, TurnForm, MaintForm, OpenForm, FreeForm, PrepForm, GenOrder
    <3>1. Plain /\ UNCHANGED <<pairVars, builder>>
      BY <1>7 DEF OpenEnsures, OpenForm
    <3>2. catalog' = catalog \/ catalog' = FreshCatalog(base.gen, base.upto)
      BY <1>7 DEF OpenEnsures
    <3>3. CASE catalog' = catalog
      BY <3>1, <3>3 DEF CatalogForm
    <3>4. CASE catalog' = FreshCatalog(base.gen, base.upto)
      <4>1. catalog'.has = 1 .. base.upto /\ catalog'.curHi \in 0 .. base.upto
        BY <3>1, <3>4 DEF FreshCatalog
      <4>2. 1 .. catalog'.curHi \subseteq 1 .. base.upto
        <5>1. base.upto \in Nat
          OBVIOUS
        <5> QED
          BY <4>1, <5>1, Initial
      <4>3. ~(Marked \/ Cut \/ Ahead \/ Done)'
        BY <3>1
      <4> QED
        BY <3>1, <4>1, <4>2, <4>3 DEF CatalogForm
    <3> QED
      BY <3>2, <3>3, <3>4
  <2>2. UpListed'
    BY <1>7 DEF OpenEnsures, Fails, Goto, FreshCatalog, SafeFaults, CatalogSafe
  <2>3. TurnListed'
    BY <1>7 DEF OpenEnsures, Fails, Goto, FreshCatalog, SafeFaults, CatalogSafe
  <2>4. PrepListed'
    BY <1>7 DEF OpenEnsures, Fails, Goto, FreshCatalog, SafeFaults, CatalogSafe
  <2>5. OpenListed'
    <3> HIDE DEF CatalogForm, UpListed, TurnListed, PrepListed, OpenListed, OwedForm, FileForm,
        HolderLives, WriterForm, TurnForm, MaintForm, OpenForm, FreeForm, PrepForm, GenOrder
    <3>1. base' = base /\ hold' = [hold EXCEPT !.at = "reflect"]
      BY <1>7 DEF OpenEnsures, Goto
    <3>2. Current'
      <4>1. \/ catalog' = catalog /\ Current
            \/ catalog' = FreshCatalog(base.gen, base.upto)
        BY <1>7 DEF OpenEnsures, Fails, CatalogSafe, CatalogForm
      <4>2. FreshCatalog(base.gen, base.upto).gen = base.gen
        BY DEF FreshCatalog
      <4> QED
        BY <3>1, <4>1, <4>2
    <3> QED
      BY <3>1, <3>2 DEF OpenListed
  <2>6. OwedForm'
    BY <1>7 DEF OpenEnsures, Fails, Goto, FreshCatalog, SafeFaults, CatalogSafe
  <2> HIDE DEF CatalogInv, StoreInv, CatalogForm, UpListed, TurnListed, PrepListed, OpenListed,
      OwedForm
  <2> QED
    BY <2>1, <2>2, <2>3, <2>4, <2>5, <2>6
<1>8. CASE OpenReflects
  <2>1. CatalogForm'
    BY <1>8 DEF OpenReflects, Goto, Reflect, CoversDelta, Frames, Fails, SafeFaults, CatalogSafe
  <2>2. UpListed'
    BY <1>8 DEF OpenReflects, Goto, Reflect, CoversDelta, Frames, Fails, SafeFaults, CatalogSafe
  <2>3. TurnListed'
    BY <1>8 DEF OpenReflects, Goto, Reflect, CoversDelta, Frames, Fails, SafeFaults, CatalogSafe
  <2>4. PrepListed'
    BY <1>8 DEF OpenReflects, Goto, Reflect, CoversDelta, Frames, Fails, SafeFaults, CatalogSafe
  <2>5. OpenListed'
    BY <1>8 DEF OpenReflects, Goto, Reflect, CoversDelta, Frames, Fails, SafeFaults, CatalogSafe
  <2>6. OwedForm'
    BY <1>8 DEF OpenReflects, Goto, Reflect, CoversDelta, Frames, Fails, SafeFaults, CatalogSafe
  <2> HIDE DEF CatalogInv, StoreInv, CatalogForm, UpListed, TurnListed, PrepListed, OpenListed,
      OwedForm
  <2> QED
    BY <2>1, <2>2, <2>3, <2>4, <2>5, <2>6
<1>9. CASE OpenDone
  BY <1>9 DEF OpenDone, Stamp
<1> HIDE DEF CatalogInv, ListedInv
<1> QED
  BY <1>1, <1>2, <1>3, <1>4, <1>5, <1>6, <1>7, <1>8, <1>9 DEF Opening

(* A retry delay, and a crash at any of the steps above. *)
LEMMA OthersList ==
  ASSUME CatalogInv, StoreInv', SafeFaults, CatalogSafe, OtherProcess \/ RetryElapsed \/ Crash
  PROVE  ListedInv'
<1> USE BoundsAssumption DEF CatalogInv, ListedInv, RecoveryInv, StoreInv, BaseLogInv,
      OneCompactor, TypeOK, FilesTyped, CatalogTyped, ProcessTyped, HolderTyped, Gen, Pos,
      LiveSteps, MaintSteps, OpenSteps, AllSteps, Writing, Publishing, At, Nobody, NoPrep,
      NoIntent, NoFile, WalIs, pairVars, diskVars, memVars, auxVars, Plain, Marked, Cut, Ahead,
      Done, Whole, IntentKept, NewStage, Served, Working, Unusable, Lists, Current, Replacing,
      Reflected, IsBuilding, CatalogForm, UpListed, TurnListed, PrepListed, OpenListed, OwedForm,
      FileForm, HolderLives, WriterForm, TurnForm, MaintForm, OpenForm, FreeForm, PrepForm,
      GenOrder
<1>1. CASE BuilderStarts
  BY SMTT(60), <1>1 DEF BuilderStarts, SafeFaults, CatalogSafe
<1>2. CASE BuilderEnds
  BY SMTT(60), <1>2 DEF BuilderEnds, FreshCatalog
<1>3. CASE RetryElapsed
  BY <1>3 DEF RetryElapsed
<1>4. CASE Crash
  BY <1>4 DEF Crash, ProcessEnds
<1> HIDE DEF CatalogInv, ListedInv
<1> QED
  BY <1>1, <1>2, <1>3, <1>4 DEF OtherProcess

(* A store that was closed, its catalog of the same generation or an older. *)
LEMMA ListedInit == ASSUME Init, CatalogSafe PROVE ListedInv
<1>1. catalog.curHi = 0 \/ (catalog.curHi = 1 /\ catalog.has = {1})
  BY DEF Init
<1>2. Lists(catalog.curHi) /\ (Current => Lists(base.upto))
  BY <1>1 DEF Init, Lists, Current
<1>3. marker = 0 /\ stage.gen = 0 /\ base.gen # 0 /\ builder.gen = 0
  BY DEF Init, NoFile
<1>4. CatalogForm
  BY <1>2, <1>3 DEF CatalogForm, IsBuilding, Marked, Cut, Ahead, Done, NewStage
<1>5. UpListed /\ TurnListed /\ PrepListed /\ OpenListed /\ OwedForm
  BY DEF Init, UpListed, TurnListed, PrepListed, OpenListed, OwedForm, Reflected, Nobody, NoPrep
<1> QED
  BY <1>4, <1>5 DEF ListedInv

LEMMA ListedStutter == ASSUME CatalogInv, UNCHANGED vars PROVE ListedInv'
  BY DEF vars, diskVars, pairVars, memVars, auxVars, CatalogInv, ListedInv, CatalogForm, UpListed,
     TurnListed, PrepListed, OpenListed, OwedForm, Lists, Current, Replacing, Reflected, Served,
     IsBuilding, Plain, Marked, Cut, Ahead, Done, Whole, IntentKept, NewStage, WalIs, At

LEMMA CatalogStep == ASSUME SafeFaults, CatalogSafe PROVE CatalogInv /\ [Next]_vars => CatalogInv'
<1> SUFFICES ASSUME CatalogInv, [Next]_vars PROVE CatalogInv'
  OBVIOUS
<1>1. RecoveryInv'
  BY RecoveryStep DEF CatalogInv
<1>2. StoreInv'
  BY <1>1 DEF RecoveryInv
<1>3. ListedInv'
  BY <1>2, WritersList, SettlingList, PublicationList, MaintenanceList, OpeningList, OthersList,
     ListedStutter DEF Next
<1> QED
  BY <1>1, <1>3 DEF CatalogInv

(* A catalog cursor that covers the log of a running store is only beside a  *)
(* catalog that holds every change up to the end of the log, so a listing    *)
(* that skips the log (browse queries trust the cursor) misses nothing.      *)
THEOREM CatalogHonestHolds == ASSUME SafeFaults, CatalogSafe PROVE Spec => []CatalogHonest
<1>1. Init => CatalogInv
  BY RecoveryInit, ListedInit DEF CatalogInv
<1>2. CatalogInv => CatalogHonest
  BY DEF CatalogInv, ListedInv, CatalogForm, CatalogHonest, CoversDelta, Lists
<1> QED
  BY <1>1, <1>2, CatalogStep, PTL DEF Spec
=============================================================================
