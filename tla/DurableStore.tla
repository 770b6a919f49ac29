---------------------------- MODULE DurableStore ----------------------------
(***************************************************************************)
(* The durable store of neutra-helper: an immutable base index, the delta  *)
(* write-ahead log (WAL) bound to it by generation, the browse catalog, and *)
(* the files that make replacing the base recoverable: the staged base      *)
(* (.compact), the marker (.compacting), the tail intent (.compact-tail)    *)
(* and the stale marker (.stale).                                          *)
(*                                                                         *)
(* Changes are numbered in the order in which their frames enter the WAL.   *)
(* A base holds the changes 1..upto; a WAL with a complete header holds the *)
(* frames lo+1..hi.  Every durable step of an operation is an action, so a  *)
(* crash can fall between any two, and every I/O call named in Faults may   *)
(* return an error instead, in which case the code's error path is taken.   *)
(***************************************************************************)
EXTENDS Integers, FiniteSets, FiniteSetsExt

CONSTANTS
  MaxChange,    \* bound: number of changes ever appended
  MaxGen,       \* bound: number of base generations ever built
  Batch,        \* bound: changes in one apply call
  CompactAt,    \* compact_at, in frames
  Modes,        \* how a process may compact: "foreground", "background"
  Faults,       \* I/O calls that may return an error
  OtherBuilder, \* TRUE: another process (the GUI) may call BrowserIndex::ensure
  OldCatalog    \* TRUE: the catalog may start at an older generation

FaultPoints ==
  {"append", "catalog", "cursor", "fold", "markerSync", "reset", "clear",
   "publish", "advance", "unmark", "tail", "intentSync", "install", "marker",
   "finish", "ensure"}

ASSUME BoundsAssumption ==
  /\ MaxChange \in Nat \ {0} /\ MaxGen \in Nat \ {0}
  /\ Batch \in Nat \ {0} /\ CompactAt \in Nat \ {0}
ASSUME ModesAssumption ==
  Modes # {} /\ Modes \subseteq {"foreground", "background"}
ASSUME FaultsAssumption ==
  /\ Faults \subseteq FaultPoints
  /\ OtherBuilder \in BOOLEAN
ASSUME HistoryAssumption == OldCatalog \in BOOLEAN /\ (OldCatalog => MaxGen > 1)

VARIABLES
  \* Files.
  base,       \* [gen, upto]
  stage,      \* the same; gen = 0: no file
  wal,        \* [head, gen, lo, hi]; head: "none" (0 bytes), "part", "full"
  marker,     \* generation written to .compacting, 0: no file
  intent,     \* .compact-tail: [prev, gen, min]; gen = 0: no file
  staleMark,  \* .stale exists
  catalog,    \* [gen, has, curGen, curHi]; gen = 0: no usable catalog
  \* The helper process.
  phase,      \* "down", "opening" (DurableStore::open) or "up"
  mode,       \* how this process compacts
  memBase,    \* generation of DurableStore.base, 0: None
  log,        \* DeltaIndex writer: "live", "behind" the file, or "closed"
  stale,      \* the AtomicBool every writer and reader checks
  retry,      \* a failed compaction waits for its ten minutes
  hold,       \* who holds the store lock (or opens it), and its next step
  prep,       \* the maintenance thread's frozen or built compaction
  owed,       \* what a thread still does after it released the lock in error
  \* Another process building the catalog: [gen, upto]; gen = 0: none.
  builder,
  \* History.
  lastGen,    \* newest generation handed out by new_generation
  acked,      \* changes whose apply returned Ok
  faulted     \* a writer's own commit failed on I/O

pairVars == <<base, stage, wal, marker, intent>>
diskVars == <<pairVars, staleMark, catalog>>
memVars == <<phase, mode, memBase, log, stale, retry, prep, owed>>
auxVars == <<builder, lastGen, acked, faulted>>
vars == <<diskVars, memVars, hold, auxVars>>

------------------------------------------------------------------------------
(* Shapes *)

Gen == 0 .. MaxGen
Pos == 0 .. MaxChange
NoFile == [gen |-> 0, upto |-> 0]
NoIntent == [prev |-> 0, gen |-> 0, min |-> 0]
Nobody == [by |-> "none", at |-> "free", from |-> 0, left |-> 0,
           prev |-> 0, then |-> "append"]
NoPrep == [at |-> "none", prev |-> 0, hi |-> 0, gen |-> 0]
Bare(g, p) == [head |-> "full", gen |-> g, lo |-> p, hi |-> p]
Short(h, p) == [head |-> h, gen |-> 0, lo |-> p, hi |-> p]

Frames == wal.lo + 1 .. wal.hi
WalIs(g) == wal.head = "full" /\ wal.gen = g
NeedsCompaction == wal.hi - wal.lo >= CompactAt
IsBuilding == builder.gen # 0
Fails(call) == call \in Faults

(* Mutant: a catalog built from the base claims the log as well. *)
FreshCatalogCoversAll(g, upto) == [gen |-> g, has |-> 1 .. upto, curGen |-> g, curHi |-> wal.hi]

(* BrowserIndex::ensure on a missing or outdated catalog: built from the   *)
(* base alone; the cursor is stamped only beside a WAL with no frame.       *)
FreshCatalog(g, upto) ==
  LET covered == WalIs(g) /\ wal.hi = wal.lo
  IN  [gen |-> g, has |-> 1 .. upto,
       curGen |-> IF covered THEN g ELSE 0,
       curHi |-> IF covered THEN wal.hi ELSE 0]

(* apply_changes, apply_delta: nothing for a catalog of another generation. *)
Reflect(changes) ==
  IF catalog.gen = wal.gen /\ catalog.gen # 0
  THEN [catalog EXCEPT !.has = @ \cup changes] ELSE catalog

(* mark_delta, likewise. *)
Stamp ==
  IF catalog.gen = wal.gen /\ catalog.gen # 0
  THEN [catalog EXCEPT !.curGen = wal.gen, !.curHi = wal.hi] ELSE catalog

(* advance_generation(old, new) *)
Advanced(old, new) ==
  IF catalog.gen = old /\ old # 0
  THEN [catalog EXCEPT !.gen = new] ELSE catalog

(* covers_delta: the stamp equals the WAL's generation and length. *)
CoversDelta(c) == c.gen = c.curGen /\ WalIs(c.curGen) /\ c.curHi = wal.hi

------------------------------------------------------------------------------
(* What an open accepts, and what it then serves *)

(* Mutant: the base must already be the new one. *)
IntentWantsNewBase ==
  \/ intent.gen = 0
  \/ WalIs(intent.prev) /\ base.gen = intent.prev /\ marker = 0
  \/ WalIs(intent.gen) /\ base.gen = intent.gen /\ wal.hi - wal.lo >= intent.min

(* intent::check *)
IntentOk ==
  \/ intent.gen = 0
  \/ WalIs(intent.prev) /\ base.gen = intent.prev /\ marker = 0
  \/ /\ WalIs(intent.gen)
     /\ base.gen \in {intent.prev, intent.gen}
     /\ wal.hi - wal.lo >= intent.min

(* Mutant: a stage without a marker is never used. *)
UsesMarkedStage == marker # 0 /\ base.gen # marker

(* open_pair takes the staged base instead of the published one. *)
UsesStage ==
  IF marker = 0
  THEN ~WalIs(base.gen) /\ stage.gen # 0
  ELSE base.gen # marker

(* Mutant: a log with a torn header is refused beside a marked stage. *)
PairOkWithFullLog ==
  IF marker = 0
  THEN WalIs(base.gen) \/ (stage.gen # 0 /\ (wal.head # "full" \/ WalIs(stage.gen)))
  ELSE /\ wal.head = "full" /\ wal.gen \in {base.gen, marker}
       /\ base.gen = marker \/ stage.gen = marker

(* open_pair: the combinations of files it does not refuse. *)
PairOk ==
  IF marker = 0
  THEN \/ WalIs(base.gen)
       \/ stage.gen # 0 /\ (wal.head # "full" \/ WalIs(stage.gen))
       \/ stage.gen = 0 /\ wal.head = "none"
  ELSE IF base.gen = marker
       THEN (wal.head # "full" \/ WalIs(marker)) /\ stage.gen \in {0, marker}
       ELSE /\ stage.gen = marker
            /\ (wal.head # "full" \/ wal.gen \in {base.gen, marker})

Openable == ~staleMark /\ IntentOk /\ PairOk

(* The last change of the unbroken run 1..n that base b and the WAL hold. *)
Joined(b) == IF WalIs(b.gen) /\ wal.lo <= b.upto THEN Max({b.upto, wal.hi}) ELSE b.upto
Kept == IF UsesStage THEN Joined(stage) ELSE Joined(base)

------------------------------------------------------------------------------
Init ==
  /\ \E old \in IF OldCatalog THEN BOOLEAN ELSE {FALSE} :
       LET g == IF old THEN 2 ELSE 1
       IN  /\ base = [gen |-> g, upto |-> 1] /\ lastGen = g
           /\ wal = Bare(g, 1)
           /\ catalog = IF old THEN [gen |-> 1, has |-> {}, curGen |-> 1, curHi |-> 0]
                        ELSE [gen |-> 1, has |-> {1}, curGen |-> 1, curHi |-> 1]
  /\ stage = NoFile /\ marker = 0 /\ intent = NoIntent /\ staleMark = FALSE
  /\ phase = "down" /\ mode \in Modes
  /\ memBase = 0 /\ log = "closed" /\ stale = FALSE /\ retry = FALSE
  /\ hold = Nobody /\ prep = NoPrep /\ owed = {}
  /\ builder = NoFile /\ acked = 1 /\ faulted = FALSE

------------------------------------------------------------------------------
(* Lock holder and error paths *)

At(step) == hold.at = step
Goto(step) == hold' = [hold EXCEPT !.at = step]

(* apply_bounded returns Err: the caller releases the lock. The live writer  *)
(* sets the stale flag while it still holds it, the sweep does not.          *)
WriterFails(ioFault) ==
  /\ hold' = Nobody
  /\ owed' = owed \cup {hold.by}
  /\ stale' = (stale \/ hold.by = "live")
  /\ faulted' = (faulted \/ ioFault)
  /\ UNCHANGED <<phase, mode, retry, prep, builder, lastGen, acked>>

(* maintain_once returns Err: retried later if the base is still there,      *)
(* otherwise the process ends itself.                                        *)
MaintFails(baseLost) ==
  /\ hold' = Nobody /\ prep' = NoPrep
  /\ retry' = (retry \/ ~baseLost)
  /\ owed' = IF baseLost THEN owed \cup {"maint"} ELSE owed
  /\ UNCHANGED <<phase, mode, stale, auxVars>>

(* settle_delta is over: go on with the batch, or return its result. *)
AfterSettle(again) ==
  /\ retry' = again
  /\ hold' = IF hold.then = "return" THEN Nobody ELSE [hold EXCEPT !.at = "append", !.prev = 0]
  /\ acked' = IF hold.then = "return" THEN wal.hi ELSE acked

(* The process is gone: its locks and memory with it. *)
ProcessEnds ==
  /\ phase' = "down" /\ memBase' = 0 /\ log' = "closed"
  /\ stale' = FALSE /\ retry' = FALSE
  /\ hold' = Nobody /\ prep' = NoPrep /\ owed' = {}
  /\ UNCHANGED <<base, stage, marker, intent, staleMark, catalog, mode, auxVars>>

(* A crash, and an open that fails. Frames of an unfinished append are not   *)
(* synced yet: a power loss may take any of them, and restore cuts the torn  *)
(* one off.                                                                  *)
Crash ==
  /\ phase # "down"
  /\ ProcessEnds
  /\ IF At("append") THEN \E n \in hold.from .. wal.hi : wal' = [wal EXCEPT !.hi = n]
     ELSE wal' = wal

------------------------------------------------------------------------------
(* Writers: commit_changes and ApplyDelta ("live"), sweep commit ("sweep") *)

Acquire(w, k) ==
  /\ phase = "up" /\ hold = Nobody /\ w \notin owed
  /\ wal.hi + k <= MaxChange
  /\ IF w = "live" THEN ~stale ELSE mode = "background" /\ log = "live"
  /\ mode = "background" => memBase # 0
  /\ hold' = [Nobody EXCEPT !.by = w, !.from = wal.hi, !.left = k,
              !.at = IF mode = "background" THEN "append" ELSE "settle"]
  /\ UNCHANGED <<diskVars, memVars, auxVars>>

(* A turn that ends at once: the stale flag is up, the base is gone ("base   *)
(* publication requires recovery"), or the sweep finds the log changed       *)
(* outside its writer.                                                       *)
Refused(w) ==
  /\ phase = "up" /\ hold = Nobody /\ w \notin owed /\ mode = "background"
  /\ \/ w = "live" /\ stale /\ ~staleMark
     \/ w = "sweep" /\ log # "live"
     \/ memBase = 0
  /\ owed' = owed \cup {w}
  /\ stale' = (stale \/ w = "live")
  /\ UNCHANGED <<diskVars, phase, mode, memBase, log, retry, prep, hold, auxVars>>

(* DeltaIndex::apply_batch, one frame; then sync. *)
AppendFrame ==
  /\ At("append") /\ hold.left > 0 /\ log # "closed"
  /\ wal.hi < MaxChange  \* bound, kept by Acquire
  /\ wal' = [wal EXCEPT !.hi = @ + 1]
  /\ hold' = [hold EXCEPT !.left = @ - 1]
  /\ UNCHANGED <<base, stage, marker, intent, staleMark, catalog, memVars, auxVars>>

AppendDone ==
  /\ At("append") /\ hold.left = 0
  /\ Goto("catalog")
  /\ UNCHANGED <<diskVars, memVars, auxVars>>

(* A write, flush or sync error leaves the file longer than wal_bytes; an    *)
(* overlay error (or a writer lost earlier) leaves the log unusable.         *)
AppendFails ==
  /\ At("append")
  /\ Fails("append") \/ log = "closed"
  /\ log' \in IF log = "closed" THEN {"closed"} ELSE {"behind", "closed"}
  /\ WriterFails(TRUE)
  /\ UNCHANGED <<diskVars, memBase>>

(* BrowserIndex::apply_changes *)
ApplyCatalog ==
  /\ At("catalog")
  /\ catalog' = Reflect(hold.from + 1 .. wal.hi)
  /\ Goto("mark")
  /\ UNCHANGED <<pairVars, staleMark, memVars, auxVars>>

ApplyCatalogFails ==
  /\ At("catalog") /\ Fails("catalog") /\ catalog.gen # 0
  /\ WriterFails(TRUE)
  /\ UNCHANGED <<diskVars, memBase, log>>

(* Mutant: apply_bounded settles whatever thread compacts. *)
MarkDeltaThenSettles ==
  /\ At("mark") /\ (log = "live" \/ catalog.gen = 0)
  /\ catalog' = Stamp
  /\ hold' = [hold EXCEPT !.at = "settle", !.then = "return"]
  /\ UNCHANGED <<pairVars, staleMark, memVars, auxVars>>

(* mark_delta refuses when the file's length is not wal_bytes. *)
MarkDelta ==
  /\ At("mark")
  /\ log = "live" \/ catalog.gen = 0
  /\ catalog' = Stamp
  /\ IF mode = "foreground"
     THEN hold' = [hold EXCEPT !.at = "settle", !.then = "return"] /\ acked' = acked
     ELSE hold' = Nobody /\ acked' = wal.hi
  /\ UNCHANGED <<pairVars, staleMark, memVars, builder, lastGen, faulted>>

MarkDeltaFails ==
  /\ At("mark") /\ catalog.gen # 0
  /\ Fails("cursor") \/ log # "live"
  /\ WriterFails(TRUE)
  /\ UNCHANGED <<diskVars, memBase, log>>

(* fail_closed, and the ApplyDelta handler: flag first, then the marker. *)
LiveFailClosed ==
  /\ "live" \in owed
  /\ staleMark' = TRUE /\ owed' = owed \ {"live"}
  /\ UNCHANGED <<pairVars, catalog, phase, mode, memBase, log, stale, retry,
                 prep, hold, auxVars>>

(* The sweep thread: marker first, then the flag. *)
SweepRecordsFailure ==
  /\ "sweep" \in owed /\ ~staleMark
  /\ staleMark' = TRUE
  /\ UNCHANGED <<pairVars, catalog, memVars, hold, auxVars>>

SweepStops ==
  /\ "sweep" \in owed /\ staleMark /\ ~stale
  /\ stale' = TRUE
  /\ UNCHANGED <<diskVars, phase, mode, memBase, log, retry, prep, owed, hold, auxVars>>

Writers ==
  \/ \E w \in {"live", "sweep"} :
       Refused(w) \/ \E k \in 1 .. Batch : Acquire(w, k)
  \/ AppendFrame \/ AppendDone \/ AppendFails
  \/ ApplyCatalog \/ ApplyCatalogFails \/ MarkDelta \/ MarkDeltaFails
  \/ LiveFailClosed \/ SweepRecordsFailure \/ SweepStops

------------------------------------------------------------------------------
(* settle_delta and compact, under the writer's lock *)

SettleSkips ==
  /\ At("settle")
  /\ ~NeedsCompaction \/ IsBuilding \/ retry \/ lastGen = MaxGen  \* the last: bound
  /\ AfterSettle(retry)
  /\ UNCHANGED <<diskVars, phase, mode, memBase, log, stale, prep, owed,
                 builder, lastGen, faulted>>

(* Mutant: the fold reads the overlay as it was when the turn began. *)
FoldsOlderView ==
  /\ At("settle") /\ NeedsCompaction /\ ~IsBuilding /\ ~retry
  /\ memBase # 0 /\ log = "live" /\ lastGen < MaxGen
  /\ catalog' = Reflect(Frames)
  /\ stage' = [gen |-> lastGen + 1, upto |-> hold.from] /\ lastGen' = lastGen + 1
  /\ hold' = [hold EXCEPT !.at = "stamp", !.prev = memBase]
  /\ UNCHANGED <<base, wal, marker, intent, staleMark, memVars, builder, acked, faulted>>

(* compact: commit the catalog, then fold base and delta into the stage. *)
Fold ==
  /\ At("settle") /\ NeedsCompaction /\ ~IsBuilding /\ ~retry
  /\ memBase # 0 /\ log = "live" /\ lastGen < MaxGen
  /\ catalog' = Reflect(Frames)
  /\ stage' = [gen |-> lastGen + 1, upto |-> wal.hi] /\ lastGen' = lastGen + 1
  /\ hold' = [hold EXCEPT !.at = "stamp", !.prev = memBase]
  /\ UNCHANGED <<base, wal, marker, intent, staleMark, memVars, builder, acked, faulted>>

FoldFails ==
  /\ At("settle") /\ NeedsCompaction /\ ~IsBuilding /\ ~retry /\ memBase # 0
  /\ Fails("fold") \/ log # "live"
  /\ \/ UNCHANGED <<stage, lastGen>>
     \/ /\ log = "live" /\ lastGen < MaxGen
        /\ stage' = [gen |-> lastGen + 1, upto |-> wal.hi] /\ lastGen' = lastGen + 1
  /\ AfterSettle(TRUE)
  /\ UNCHANGED <<base, wal, marker, intent, staleMark, catalog, phase, mode, memBase,
                 log, stale, prep, owed, builder, faulted>>

WriteMarker ==
  /\ At("stamp") /\ hold.by = "live" /\ marker = 0
  /\ marker' = stage.gen
  /\ Goto("truncate")
  /\ UNCHANGED <<base, stage, wal, intent, staleMark, catalog, memVars, auxVars>>

(* write_compaction_marker: the file exists, or the directory sync after its *)
(* rename fails. The base is still open, so settle_delta goes on.            *)
WriteMarkerFails ==
  /\ At("stamp") /\ hold.by = "live"
  /\ \/ marker # 0 /\ marker' = marker
     \/ marker = 0 /\ Fails("markerSync") /\ marker' = stage.gen
  /\ AfterSettle(TRUE)
  /\ UNCHANGED <<base, stage, wal, intent, staleMark, catalog, phase, mode, memBase,
                 log, stale, prep, owed, builder, lastGen, faulted>>

(* DeltaIndex::reset: truncate, write the magic, write the generation. *)
ResetTruncates ==
  /\ At("truncate")
  /\ wal' = Short("none", stage.upto)
  /\ Goto("magic")
  /\ UNCHANGED <<base, stage, marker, intent, staleMark, catalog, memVars, auxVars>>

ResetWritesMagic ==
  /\ At("magic")
  /\ wal' = Short("part", stage.upto)
  /\ Goto("header")
  /\ UNCHANGED <<base, stage, marker, intent, staleMark, catalog, memVars, auxVars>>

ResetWritesGeneration ==
  /\ At("header")
  /\ wal' = Bare(stage.gen, stage.upto)
  /\ memBase' = 0
  /\ Goto("publish")
  /\ UNCHANGED <<base, stage, marker, intent, staleMark, catalog, phase, mode, log,
                 stale, retry, prep, owed, auxVars>>

(* An error at any of them has already taken the writer out of the log. *)
ResetFails ==
  /\ hold.at \in {"truncate", "magic", "header"} /\ Fails("reset")
  /\ log' = "closed"
  /\ AfterSettle(TRUE)
  /\ UNCHANGED <<diskVars, phase, mode, memBase, stale, prep, owed, builder,
                 lastGen, faulted>>

(* The header is written, emptying the overlay fails: the writer is back.    *)
ClearFails ==
  /\ At("header") /\ Fails("clear")
  /\ wal' = Bare(stage.gen, stage.upto)
  /\ AfterSettle(TRUE)
  /\ UNCHANGED <<base, stage, marker, intent, staleMark, catalog, phase, mode, memBase,
                 log, stale, prep, owed, builder, lastGen, faulted>>

------------------------------------------------------------------------------
(* The publication steps that compact, publish_compaction and open_pair      *)
(* share: each holds the lock, or opens the store.                           *)

(* CompactIndex::publish *)
Publish ==
  /\ At("publish")
  /\ base' = stage
  /\ Goto("advance")
  /\ UNCHANGED <<stage, wal, marker, intent, staleMark, catalog, memVars, auxVars>>

PublishFails ==
  /\ At("publish") /\ Fails("publish") /\ hold.by # "open"
  /\ base' \in {base, stage}
  /\ IF hold.by = "live" THEN WriterFails(TRUE) ELSE MaintFails(TRUE)
  /\ UNCHANGED <<stage, wal, marker, intent, staleMark, catalog, memBase, log>>

(* BrowserIndex::advance_generation *)
AdvanceGeneration ==
  /\ At("advance")
  /\ catalog' = Advanced(hold.prev, stage.gen)
  /\ Goto(IF hold.by # "open" THEN "cursor"
          ELSE IF marker = 0 THEN "unstage" ELSE "unmark")
  /\ UNCHANGED <<pairVars, staleMark, memVars, auxVars>>

(* mark_delta on the emptied or shortened log *)
MarkEmptied ==
  /\ At("cursor")
  /\ catalog' = Stamp
  /\ Goto("unmark")
  /\ UNCHANGED <<pairVars, staleMark, memVars, auxVars>>

(* ... and the check that opens the new base, which a .stale file refuses.   *)
CatalogStepFails ==
  /\ hold.by # "open"
  /\ \/ At("advance") /\ Fails("advance")
     \/ At("cursor") /\ Fails("cursor")
     \/ At("unmark") /\ hold.by = "maint" /\ staleMark
  /\ IF hold.by = "live" THEN WriterFails(TRUE) ELSE MaintFails(TRUE)
  /\ UNCHANGED <<diskVars, memBase, log>>

(* Mutant: compact keeps serving the base it had opened. *)
UnmarkKeepsOldBase ==
  /\ At("unmark") /\ (hold.by = "maint" => ~staleMark)
  /\ marker' = 0
  /\ memBase' = IF hold.by = "live" THEN hold.prev ELSE memBase
  /\ Goto(IF hold.by = "maint" THEN "finish" ELSE "unstage")
  /\ UNCHANGED <<base, stage, wal, intent, staleMark, catalog, phase, mode, log,
                 stale, retry, prep, owed, auxVars>>

(* remove_compaction_marker; compact has put the new base in place before,   *)
(* publish_compaction does so at its end.                                    *)
Unmark ==
  /\ At("unmark") /\ (hold.by = "maint" => ~staleMark)
  /\ marker' = 0
  /\ memBase' = IF hold.by = "live" THEN base.gen ELSE memBase
  /\ Goto(IF hold.by = "maint" THEN "finish" ELSE "unstage")
  /\ UNCHANGED <<base, stage, wal, intent, staleMark, catalog, phase, mode, log,
                 stale, retry, prep, owed, auxVars>>

UnmarkFails ==
  /\ At("unmark") /\ Fails("unmark") /\ hold.by # "open"
  /\ marker' \in {0, marker}
  /\ IF hold.by = "live"
     THEN /\ memBase' = base.gen /\ AfterSettle(TRUE)
          /\ UNCHANGED <<phase, mode, stale, prep, owed, builder, lastGen, faulted>>
     ELSE MaintFails(TRUE) /\ UNCHANGED memBase
  /\ UNCHANGED <<base, stage, wal, intent, staleMark, catalog, log>>

(* The stage is removed last; a failure to remove it is ignored. A compaction *)
(* whose coverage was lost meanwhile leaves the stale marker behind.         *)
Unstage ==
  /\ At("unstage")
  /\ stage' = NoFile
  /\ \/ hold.by = "open" /\ Goto("intent") /\ UNCHANGED <<retry, acked, prep, staleMark>>
     \/ hold.by = "live" /\ AfterSettle(FALSE) /\ UNCHANGED <<prep, staleMark>>
     \/ /\ hold.by = "maint"
        /\ hold' = Nobody /\ prep' = NoPrep
        /\ staleMark' = (staleMark \/ stale)
        /\ UNCHANGED <<retry, acked>>
  /\ UNCHANGED <<base, wal, marker, intent, catalog, phase, mode, memBase, log, stale,
                 owed, builder, lastGen, faulted>>

------------------------------------------------------------------------------
(* Background maintenance: freeze, build without the lock, publish with it   *)

CanFreeze == ~staleMark /\ base.gen = memBase /\ WalIs(memBase)

(* maintain, freeze_compaction *)
Freeze ==
  /\ mode = "background" /\ phase = "up" /\ hold = Nobody /\ prep = NoPrep
  /\ ~stale /\ ~retry /\ owed \cap {"maint", "exit"} = {}
  /\ NeedsCompaction /\ ~IsBuilding /\ lastGen < MaxGen  \* the last: bound
  /\ IF CanFreeze
     THEN /\ prep' = [at |-> "frozen", prev |-> base.gen, hi |-> wal.hi, gen |-> 0]
          /\ UNCHANGED <<retry, owed>>
     ELSE /\ retry' = (memBase # 0)
          /\ owed' = IF memBase # 0 THEN owed ELSE owed \cup {"maint"}
          /\ prep' = prep
  /\ UNCHANGED <<diskVars, phase, mode, memBase, log, stale, hold, auxVars>>

(* FrozenCompaction::build *)
Build ==
  /\ prep.at = "frozen" /\ lastGen < MaxGen
  /\ stage' = [gen |-> lastGen + 1, upto |-> prep.hi] /\ lastGen' = lastGen + 1
  /\ prep' = [prep EXCEPT !.at = "built", !.gen = lastGen + 1]
  /\ UNCHANGED <<base, wal, marker, intent, staleMark, catalog, phase, mode, memBase,
                 log, stale, retry, owed, hold, builder, acked, faulted>>

(* clean_stage has removed the previous stage, the fold fails. *)
BuildFails ==
  /\ prep.at = "frozen" /\ Fails("fold")
  /\ stage' = NoFile /\ prep' = NoPrep /\ retry' = TRUE
  /\ UNCHANGED <<base, wal, marker, intent, staleMark, catalog, phase, mode, memBase,
                 log, stale, owed, hold, auxVars>>

(* commit_if_live *)
MaintAcquire ==
  /\ prep.at = "built" /\ hold = Nobody
  /\ IF stale
     THEN prep' = NoPrep /\ hold' = hold
     ELSE prep' = prep /\ hold' = [Nobody EXCEPT !.by = "maint", !.at = "tail", !.prev = prep.prev]
  /\ UNCHANGED <<diskVars, phase, mode, memBase, log, stale, retry, owed, auxVars>>

(* Mutants: the base stays open during the publication; the base is         *)
(* published before the log.                                                *)
IntentKeepsBase ==
  /\ At("tail") /\ log = "live" /\ memBase = prep.prev /\ intent = NoIntent
  /\ intent' = [prev |-> prep.prev, gen |-> prep.gen, min |-> wal.hi - prep.hi]
  /\ Goto("install")
  /\ UNCHANGED <<base, stage, wal, marker, staleMark, catalog, memVars, auxVars>>

IntentThenPublish ==
  /\ At("tail") /\ log = "live" /\ memBase = prep.prev /\ intent = NoIntent
  /\ intent' = [prev |-> prep.prev, gen |-> prep.gen, min |-> wal.hi - prep.hi]
  /\ memBase' = 0
  /\ Goto("stamp")
  /\ UNCHANGED <<base, stage, wal, marker, staleMark, catalog, phase, mode, log, stale,
                 retry, prep, owed, auxVars>>

(* Mutant: the publication waits, in its turn, for a log without a tail. *)
IntentAwaitsQuiet ==
  /\ At("tail") /\ log = "live" /\ memBase = prep.prev /\ intent = NoIntent
  /\ prep.hi = wal.hi
  /\ intent' = [prev |-> prep.prev, gen |-> prep.gen, min |-> 0]
  /\ memBase' = 0
  /\ Goto("install")
  /\ UNCHANGED <<base, stage, wal, marker, staleMark, catalog, phase, mode, log, stale,
                 retry, prep, owed, auxVars>>

(* stage_compaction_tail, intent::write; then the base is dropped. *)
WriteIntent ==
  /\ At("tail") /\ log = "live" /\ memBase = prep.prev /\ intent = NoIntent
  /\ prep.hi <= wal.hi
  /\ intent' = [prev |-> prep.prev, gen |-> prep.gen, min |-> wal.hi - prep.hi]
  /\ memBase' = 0
  /\ Goto("install")
  /\ UNCHANGED <<base, stage, wal, marker, staleMark, catalog, phase, mode, log, stale,
                 retry, prep, owed, auxVars>>

(* Mutant: the base is dropped before the tail is staged. *)
StageTailLosesBase ==
  /\ At("tail")
  /\ Fails("tail") \/ log # "live" \/ memBase # prep.prev \/ prep.hi > wal.hi
  /\ memBase' = 0 /\ MaintFails(TRUE)
  /\ UNCHANGED <<diskVars, log>>

(* Nothing is published yet: the base stays. *)
StageTailFails ==
  /\ At("tail")
  /\ Fails("tail") \/ log # "live" \/ memBase # prep.prev \/ prep.hi > wal.hi
  /\ MaintFails(memBase = 0)
  /\ UNCHANGED <<diskVars, memBase, log>>

(* An intent is there already, or its directory sync fails. It is removed    *)
(* again; if that fails too the base is given up.                            *)
WriteIntentFails ==
  /\ At("tail") /\ log = "live" /\ memBase = prep.prev /\ prep.hi <= wal.hi
  /\ intent # NoIntent \/ Fails("intentSync")
  /\ \/ intent' = NoIntent /\ memBase' = memBase /\ MaintFails(FALSE)
     \/ /\ Fails("finish")
        /\ intent' = IF intent # NoIntent THEN intent
                     ELSE [prev |-> prep.prev, gen |-> prep.gen, min |-> wal.hi - prep.hi]
        /\ memBase' = 0 /\ MaintFails(TRUE)
  /\ UNCHANGED <<base, stage, wal, marker, staleMark, catalog, log>>

(* Mutant: an empty log is installed. *)
InstallEmpty ==
  /\ At("install")
  /\ wal' = Bare(prep.gen, wal.hi)
  /\ Goto("stamp")
  /\ UNCHANGED <<base, stage, marker, intent, staleMark, catalog, memVars, auxVars>>

(* install_compaction_tail: one rename replaces the log. *)
Install ==
  /\ At("install")
  /\ wal' = [head |-> "full", gen |-> prep.gen, lo |-> prep.hi, hi |-> wal.hi]
  /\ Goto("stamp")
  /\ UNCHANGED <<base, stage, marker, intent, staleMark, catalog, memVars, auxVars>>

InstallFails ==
  /\ At("install") /\ Fails("install")
  /\ wal' \in {wal, [head |-> "full", gen |-> prep.gen, lo |-> prep.hi, hi |-> wal.hi]}
  /\ log' = "closed" /\ MaintFails(TRUE)
  /\ UNCHANGED <<base, stage, marker, intent, staleMark, catalog, memBase>>

MaintMarker ==
  /\ At("stamp") /\ hold.by = "maint" /\ marker = 0
  /\ marker' = prep.gen
  /\ Goto("publish")
  /\ UNCHANGED <<base, stage, wal, intent, staleMark, catalog, memVars, auxVars>>

MaintMarkerFails ==
  /\ At("stamp") /\ hold.by = "maint"
  /\ \/ marker = 0 /\ Fails("marker") /\ marker' \in {0, prep.gen}
     \/ marker # 0 /\ marker' = marker
  /\ MaintFails(TRUE)
  /\ UNCHANGED <<base, stage, wal, intent, staleMark, catalog, memBase, log>>

(* intent::finish, and the new base in place. *)
FinishIntent ==
  /\ At("finish")
  /\ intent' = NoIntent /\ memBase' = base.gen
  /\ Goto("unstage")
  /\ UNCHANGED <<base, stage, wal, marker, staleMark, catalog, phase, mode, log, stale,
                 retry, prep, owed, auxVars>>

FinishIntentFails ==
  /\ At("finish") /\ Fails("finish")
  /\ intent' \in {intent, NoIntent}
  /\ MaintFails(TRUE)
  /\ UNCHANGED <<base, stage, wal, marker, staleMark, catalog, memBase, log>>

(* maintain after an error that left no base: flag, then exit. *)
MaintFlag ==
  /\ "maint" \in owed /\ hold = Nobody
  /\ stale' = TRUE
  /\ owed' = (owed \ {"maint"}) \cup {"exit"}
  /\ UNCHANGED <<diskVars, phase, mode, memBase, log, retry, prep, hold, auxVars>>

MaintExit == "exit" \in owed /\ ProcessEnds /\ wal' = wal

RetryElapsed ==
  /\ retry /\ retry' = FALSE
  /\ UNCHANGED <<diskVars, phase, mode, memBase, log, stale, prep, owed, hold, auxVars>>

Publication ==
  \/ Publish \/ PublishFails \/ AdvanceGeneration \/ MarkEmptied \/ CatalogStepFails
  \/ Unmark \/ UnmarkFails \/ Unstage

Maintenance ==
  \/ Freeze \/ Build \/ BuildFails \/ MaintAcquire \/ WriteIntent \/ StageTailFails
  \/ WriteIntentFails \/ Install \/ InstallFails \/ MaintMarker \/ MaintMarkerFails
  \/ FinishIntent \/ FinishIntentFails \/ MaintFlag \/ MaintExit

Settling ==
  \/ SettleSkips \/ Fold \/ FoldFails \/ WriteMarker \/ WriteMarkerFails
  \/ ResetTruncates \/ ResetWritesMagic \/ ResetWritesGeneration \/ ResetFails \/ ClearFails

------------------------------------------------------------------------------
(* DurableStore::open *)

OpenStart ==
  /\ phase = "down" /\ Openable
  /\ phase' = "opening" /\ mode' \in Modes
  /\ hold' = [Nobody EXCEPT !.by = "open", !.at = "wal", !.prev = base.gen]
  /\ UNCHANGED <<diskVars, memBase, log, stale, retry, prep, owed, auxVars>>

(* Mutant: the reset keeps the old generation. *)
OpenResetsToOld ==
  /\ At("wal") /\ marker # 0 /\ UsesStage /\ WalIs(base.gen)
  /\ wal' = Bare(base.gen, stage.upto)
  /\ UNCHANGED <<base, stage, marker, intent, staleMark, catalog, memVars, hold, auxVars>>

(* A marked stage beside the old log: finish the reset the crash cut short.  *)
OpenResets ==
  /\ At("wal") /\ marker # 0 /\ UsesStage /\ WalIs(base.gen)
  /\ wal' = Short("none", stage.upto)
  /\ UNCHANGED <<base, stage, marker, intent, staleMark, catalog, memVars, hold, auxVars>>

(* The log of the base that is served from now on, its header repaired. *)
OpenWal ==
  /\ At("wal") /\ ~(marker # 0 /\ UsesStage /\ WalIs(base.gen))
  /\ LET b == IF UsesStage THEN stage ELSE base
     IN  wal' = IF wal.head = "full" THEN wal ELSE Bare(b.gen, b.upto)
  /\ Goto(IF UsesStage THEN "publish" ELSE IF marker # 0 THEN "tidy" ELSE "unstage")
  /\ UNCHANGED <<base, stage, marker, intent, staleMark, catalog, memVars, auxVars>>

(* A marker whose base is already published: the stage goes first ... *)
OpenTidies ==
  /\ At("tidy")
  /\ stage' = NoFile
  /\ Goto("recover")
  /\ UNCHANGED <<base, wal, marker, intent, staleMark, catalog, memVars, auxVars>>

(* ... then recover_generation, whatever generation the catalog had.         *)
OpenRecovers ==
  /\ At("recover")
  /\ catalog' = IF catalog.gen = 0 THEN catalog ELSE [catalog EXCEPT !.gen = marker]
  /\ Goto("unmark")
  /\ UNCHANGED <<pairVars, staleMark, memVars, auxVars>>

OpenFinishesIntent ==
  /\ At("intent")
  /\ intent' = NoIntent
  /\ Goto("ensure")
  /\ UNCHANGED <<base, stage, wal, marker, staleMark, catalog, memVars, auxVars>>

(* BrowserIndex::ensure; its failure is only logged. *)
OpenEnsures ==
  /\ At("ensure")
  /\ \/ catalog.gen = base.gen /\ catalog' = catalog
     \/ catalog.gen # base.gen /\ ~IsBuilding /\ catalog' = FreshCatalog(base.gen, base.upto)
     \/ catalog.gen # base.gen /\ (IsBuilding \/ Fails("ensure")) /\ catalog' = catalog
  /\ Goto("reflect")
  /\ UNCHANGED <<pairVars, staleMark, memVars, auxVars>>

(* Mutant: a cursor of the same generation is taken for coverage. *)
OpenTrustsGeneration ==
  /\ At("reflect")
  /\ catalog' = IF catalog.curGen = wal.gen THEN catalog ELSE Reflect(Frames)
  /\ Goto("markDelta")
  /\ UNCHANGED <<pairVars, staleMark, memVars, auxVars>>

(* Covered catalogs are left alone, others get every frame again. *)
OpenReflects ==
  /\ At("reflect")
  /\ catalog' = IF CoversDelta(catalog) THEN catalog ELSE Reflect(Frames)
  /\ Goto("markDelta")
  /\ UNCHANGED <<pairVars, staleMark, memVars, auxVars>>

OpenDone ==
  /\ At("markDelta")
  /\ catalog' = Stamp
  /\ phase' = "up" /\ memBase' = base.gen /\ log' = "live"
  /\ hold' = Nobody
  /\ UNCHANGED <<pairVars, staleMark, mode, stale, retry, prep, owed, auxVars>>

Opening ==
  \/ OpenStart \/ OpenResets \/ OpenWal \/ OpenTidies \/ OpenRecovers
  \/ OpenFinishesIntent \/ OpenEnsures \/ OpenReflects \/ OpenDone

------------------------------------------------------------------------------
(* BrowserIndex::ensure in another process *)

BuilderStarts ==
  /\ OtherBuilder /\ ~IsBuilding /\ ~staleMark /\ catalog.gen # base.gen
  /\ builder' = base
  /\ UNCHANGED <<diskVars, memVars, hold, lastGen, acked, faulted>>

(* Published if the index still has the generation the build read. *)
BuilderEnds ==
  /\ IsBuilding
  /\ builder' = NoFile
  /\ \/ base.gen = builder.gen /\ ~staleMark
        /\ catalog' = FreshCatalog(builder.gen, builder.upto)
     \/ catalog' = catalog
  /\ UNCHANGED <<pairVars, staleMark, memVars, hold, lastGen, acked, faulted>>

OtherProcess == BuilderStarts \/ BuilderEnds

Next ==
  \/ Writers \/ Settling \/ Publication \/ Maintenance \/ Opening
  \/ OtherProcess \/ RetryElapsed \/ Crash

(* A lock holder, and an opener, keep running unless the process dies.       *)
HolderSteps ==
  \/ AppendFrame \/ AppendDone \/ AppendFails \/ ApplyCatalog \/ ApplyCatalogFails
  \/ MarkDelta \/ MarkDeltaFails
  \/ Settling \/ Publication
  \/ WriteIntent \/ StageTailFails \/ WriteIntentFails \/ Install \/ InstallFails
  \/ MaintMarker \/ MaintMarkerFails \/ FinishIntent \/ FinishIntentFails
  \/ Opening

Spec == Init /\ [][Next]_vars

(* The threads are scheduled, and a waiting thread is not passed over forever *)
(* by the lock: FIFO tickets among the writers, a queue in the RwLock. A      *)
(* process that builds the catalog ends, and its file lock with it.           *)
Fairness ==
  /\ WF_vars(HolderSteps)
  /\ SF_vars(Freeze) /\ WF_vars(Build) /\ SF_vars(MaintAcquire)
  /\ WF_vars(RetryElapsed) /\ WF_vars(BuilderEnds)

FairSpec == Spec /\ Fairness

------------------------------------------------------------------------------
(* Properties *)

Writing == {"append", "catalog", "mark"}
Publishing == {"publish", "advance", "unmark", "unstage"}

LiveSteps == Writing \cup Publishing \cup
             {"settle", "stamp", "truncate", "magic", "header", "cursor"}
MaintSteps == Publishing \cup {"tail", "install", "stamp", "cursor", "finish"}
OpenSteps == Publishing \cup {"wal", "tidy", "recover", "intent", "ensure", "reflect",
                              "markDelta"}
AllSteps == {"free"} \cup LiveSteps \cup MaintSteps \cup OpenSteps

FilesTyped ==
  /\ base \in [gen : Gen, upto : Pos] /\ stage \in [gen : Gen, upto : Pos]
  /\ wal \in [head : {"none", "part", "full"}, gen : Gen, lo : Pos, hi : Pos]
  /\ marker \in Gen /\ intent \in [prev : Gen, gen : Gen, min : Pos]
  /\ staleMark \in BOOLEAN

CatalogTyped ==
  /\ catalog \in [gen : Gen, has : SUBSET Pos, curGen : Gen, curHi : Pos]
  /\ builder \in [gen : Gen, upto : Pos]

ProcessTyped ==
  /\ phase \in {"down", "opening", "up"} /\ mode \in {"foreground", "background"}
  /\ memBase \in Gen /\ log \in {"live", "behind", "closed"}
  /\ stale \in BOOLEAN /\ retry \in BOOLEAN
  /\ prep \in [at : {"none", "frozen", "built"}, prev : Gen, hi : Pos, gen : Gen]
  /\ owed \subseteq {"live", "sweep", "maint", "exit"}
  /\ lastGen \in Gen /\ acked \in Pos /\ faulted \in BOOLEAN

(* A holder is only at steps of its own operation. *)
HolderTyped ==
  /\ hold \in [by : {"none", "live", "sweep", "maint", "open"}, at : AllSteps,
               from : Pos, left : Nat, prev : Gen, then : {"append", "return"}]
  /\ hold.by = "none" => hold.at = "free"
  /\ hold.by = "sweep" => mode = "background" /\ hold.at \in Writing
  /\ hold.by = "live" => hold.at \in LiveSteps
  /\ hold.by = "maint" => hold.at \in MaintSteps
  /\ hold.by = "open" => hold.at \in OpenSteps

(* Every variable has its type, and whoever holds the lock is at a step of    *)
(* the code it runs: a sweep never compacts, only a writer truncates the log. *)
TypeOK == FilesTyped /\ CatalogTyped /\ ProcessTyped /\ HolderTyped

(* An acknowledged change is in the pair that an open of the files on disk    *)
(* would serve: at every moment, so after a crash at any step as well.        *)
AckedDurable == acked <= Kept

(* Whatever step a crash, a failed call or a power loss cuts short, the files  *)
(* are ones that DurableStore::open accepts, or .stale says why not.          *)
Recoverable == staleMark \/ Openable

(* When no thread holds the write lock, the base in memory is the published    *)
(* one and the log continues it without a gap.                               *)
ReadersSeeOnePair ==
  phase = "up" /\ hold = Nobody /\ memBase # 0 /\ log # "closed" =>
    base.gen = memBase /\ WalIs(memBase) /\ wal.lo <= base.upto /\ base.upto <= wal.hi

(* A catalog cursor that covers the log is only beside a catalog that holds    *)
(* every change up to the end of the log: listings then skip the log.         *)
CatalogHonest ==
  CoversDelta(catalog) /\ log = "live" => 1 .. wal.hi \subseteq catalog.has

(* Only an I/O error in a writer's own commit marks the index stale: never a   *)
(* restart for recovery, a compaction that failed, or a crash.                *)
RestartNotStale == staleMark => faulted

(* The base is replaced only after the log is bound to the new generation,     *)
(* the point from which recovery goes forward.                               *)
BaseFollowsLog == [][base' # base => WalIs(base'.gen)]_vars

(* A turn ends: whoever holds the write lock, or opens the store, reaches the  *)
(* end of an operation or of an error path, whatever calls fail on the way.   *)
LockReleased == hold # Nobody ~> hold = Nobody

(* A log that has reached its threshold is folded in the background while      *)
(* writers keep taking the lock.                                             *)
FoldedEventually ==
  phase = "up" /\ mode = "background" /\ NeedsCompaction
    ~> ~NeedsCompaction \/ phase # "up" \/ stale \/ lastGen = MaxGen  \* the last: bound

(* What the store promises, whatever its files look like in between. *)
Logical == INSTANCE LogicalIndex WITH kept <- Kept, open <- phase = "up"

ImplementsLogicalIndex == Logical!Spec

=============================================================================
