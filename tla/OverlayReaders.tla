--------------------------- MODULE OverlayReaders ---------------------------
(***************************************************************************)
(* A reader in another process opens the base, then the log, and resolves  *)
(* the log against that base while the writer goes on.  Two ways:          *)
(*   private  the reader copies the writer's cache and replays the rest of *)
(*            the log into the copy (DeltaIndex::open_snapshot, refresh);  *)
(*   shared   the reader holds one read transaction on the writer's cache  *)
(*            for one query (DeltaIndex::open_search_snapshot).            *)
(* A log replaced by rename stays readable through the open file; a log    *)
(* truncated in place (DeltaIndex::reset) changes under it.                *)
(***************************************************************************)
EXTENDS ChangeOverlay

CONSTANTS
  InPlaceResets,    \* whether the writer compacts in the foreground
  MaxReaderFrames   \* bound on the log a reader meets

ASSUME ReadersAssumption == InPlaceResets \in BOOLEAN

VARIABLES
  reader,   \* the reader's step, what it opened and what it resolved
  held      \* the content of log files that were renamed over

readerVars == <<reader, held>>
allVars == <<overlayVars, readerVars>>

Index == meaning[Len(log.frames)]
Content(file) == IF file = log.file THEN log ELSE held[file]

Asleep == [step |-> "idle", base |-> OverlayBase, generation |-> 0, file |-> 0,
           bytes |-> 0, tables |-> NewCache(log), allowed |-> {}]

ReadersInit == OverlayInit /\ reader = Asleep /\ held = <<>>

\* allowed is a ghost: every index there has been since the reader began.
GoTo(to, r) ==
  /\ reader' = [r EXCEPT !.step = to]
  /\ UNCHANGED <<overlayVars, held>>

GiveUp == GoTo("idle", Asleep)

\* The base is mapped; its header names the generation the log must have.
MapBase ==
  /\ reader.step = "idle"
  /\ GoTo("based", [reader EXCEPT !.base = base, !.generation = log.generation,
                                  !.allowed = {Index}])

\* open_mode opens the log file; the writer's cache is copied after that.
OpenPrivate ==
  /\ reader.step = "based"
  /\ GoTo("opened", [reader EXCEPT !.file = log.file])

SeedPrivate ==
  /\ reader.step = "opened"
  /\ GoTo("seeded", [reader EXCEPT !.tables = cache])

(* Mutant: the copied cache is taken without comparing its log with the one *)
(* that was opened.                                                         *)
TrustsAnyLog(t, l) == t.at <= Len(l.frames)

TrustsCopy(t, l) ==
  /\ t.generation = l.generation /\ t.file = reader.file
  /\ t.at <= Len(l.frames)

\* restore reads the header and the length, then trusts or drops the copy.
CheckHeader ==
  /\ reader.step = "seeded"
  /\ LET l == Content(reader.file)
         t == reader.tables
     IN IF l.generation # reader.generation THEN GiveUp
        ELSE GoTo("checked", [reader EXCEPT !.bytes = Len(l.frames),
                                            !.tables = IF TrustsCopy(t, l) THEN t ELSE NewCache(l)])

\* verify_frame_prefix: what the copy says of the log must still be there.
VerifyPrefix ==
  /\ reader.step = "checked"
  /\ IF Len(Content(reader.file).frames) < reader.tables.at THEN GiveUp
     ELSE GoTo("replaying", reader)

\* replay_frames, frame by frame up to the length seen before, from the file
\* as it is at each.
FrameLeft ==
  /\ reader.tables.at < reader.bytes
  /\ reader.tables.at < Len(Content(reader.file).frames)

ReplayFrame ==
  /\ reader.step = "replaying" /\ FrameLeft
  /\ LET t == reader.tables
         frame == Content(reader.file).frames[t.at + 1]
     IN GoTo("replaying", [reader EXCEPT !.tables = [ApplyOne(t, frame) EXCEPT !.at = @ + 1]])

ServePrivate ==
  /\ reader.step = "replaying" /\ ~FrameLeft
  /\ GoTo("serving", reader)

\* refresh of a private snapshot: the same file and generation, or reopen.
Refresh ==
  /\ reader.step = "serving"
  /\ IF /\ reader.file = log.file /\ log.generation = reader.generation
        /\ Len(log.frames) >= reader.tables.at
     THEN GoTo("replaying", [reader EXCEPT !.bytes = Len(log.frames), !.allowed = {Index}])
     ELSE GiveUp

\* search_snapshot_once: header and length, then the transaction, then the
\* length again; a cache that is behind or of another log is tried again.
OpenShared ==
  /\ reader.step = "based"
  /\ IF log.generation = reader.generation
     THEN GoTo("sharing", [reader EXCEPT !.file = log.file, !.bytes = Len(log.frames)])
     ELSE GiveUp

BeginShared ==
  /\ reader.step = "sharing"
  /\ GoTo("begun", [reader EXCEPT !.tables = cache])

ServeShared ==
  /\ reader.step = "begun"
  /\ LET t == reader.tables
         l == Content(reader.file)
         coherent == /\ t.generation = reader.generation /\ t.file = reader.file
                     /\ reader.bytes <= t.at /\ t.at <= Len(l.frames)
                     /\ t.at = Len(l.frames) => t.generation = l.generation
     IN GoTo(IF coherent THEN "shared" ELSE "based", reader)

CloseReader == reader.step \in {"shared", "serving"} /\ GiveUp

WriterStep ==
  /\ OverlayNext /\ Len(log'.frames) <= MaxReaderFrames
  /\ InPlaceResets \/ log'.file # log.file \/ log'.generation = log.generation
  /\ reader' = IF reader.step = "idle" THEN reader
               ELSE [reader EXCEPT !.allowed = @ \cup {meaning'[Len(log'.frames)]}]
  /\ held' = IF log'.file = log.file THEN held
             ELSE [f \in DOMAIN held \cup {log.file} |->
                     IF f = log.file THEN log ELSE held[f]]

ReadersNext ==
  \/ WriterStep
  \/ MapBase \/ OpenPrivate \/ SeedPrivate \/ CheckHeader \/ VerifyPrefix
  \/ ReplayFrame \/ ServePrivate \/ Refresh
  \/ OpenShared \/ BeginShared \/ ServeShared \/ CloseReader

ReadersSpec == ReadersInit /\ [][ReadersNext]_allVars
-----------------------------------------------------------------------------
\* A reader that opened answers with one index that was true at a moment
\* since it began, never with a base of one compaction under the log of the
\* next (CompactIndex::open_with_delta_snapshot: "a coherent read-only
\* base+delta pair").
ReaderCoherent ==
  reader.step \in {"serving", "shared"} => Seen(reader.base, reader.tables) \in reader.allowed
=============================================================================
