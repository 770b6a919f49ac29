---------------------------- MODULE WatchSession ----------------------------
(***************************************************************************)
(* The watch service of one volume, from one start to the next: how the    *)
(* place from which missed changes are read again survives restarts, full  *)
(* builds and compactions.  A build captures the volume's transaction      *)
(* before it reads the records and publishes it as the seed of the new     *)
(* base; the service saves how far it has swept since in a second file     *)
(* that names the seed by its checksum; a compaction hands the seed on to  *)
(* the base it publishes.  Each file is replaced in a step of its own and  *)
(* a crash may come between any two.  A volume without history has neither *)
(* file, and only what happens while the service watches reaches its index.*)
(***************************************************************************)
EXTENDS Integers, Sequences, FiniteSets

CONSTANTS
  MaxFsChanges,   \* bound on changes of the volume
  MaxFsCommits,   \* bound on its transactions
  MaxBases,       \* bound on generations of the base
  SameCursor      \* TRUE if the service may run beside a build that started in the transaction
                  \* of a seed in use, or of one that is being published

VARIABLES
  offline,      \* the volume has history to read again (Btrfs)
  changedIn,    \* the transaction of each change of the volume
  committed,    \* the last transaction that was committed
  base,         \* the base: its generation and the changes it holds
  wal,          \* the log, the same
  seed,         \* the seed file: the generation it belongs to, the transaction
  sweptFile,        \* the sweep's file: the identity of its seed, the transaction
  publication,  \* the stage of a base that is being published
  staleMark,    \* the index is marked stale
  service,      \* the helper process
  ingest        \* the full build

sessionVars == <<offline, changedIn, committed, base, wal, seed, sweptFile, publication, staleMark, service, ingest>>
volumeVars == <<offline, changedIn, committed>>
filesVars == <<base, wal, seed, sweptFile, publication, staleMark>>

NoFile == [gen |-> 0, since |-> 0]
NoStage == [gen |-> 0, has |-> {}, since |-> 0, whole |-> FALSE]
Legacy == -1   \* a sweep's file of the old format names no seed
Down == [step |-> "down", before |-> 0, queue |-> {}, hand |-> {}, since |-> 0, id |-> 0,
         active |-> FALSE, gap |-> FALSE, moved |-> FALSE]
NoIngest == [step |-> "idle", since |-> 0, before |-> 0, has |-> {}]

Least(a, b) == IF a < b THEN a ELSE b
Most(a, b) == IF a < b THEN b ELSE a
FsChanges == 1 .. Len(changedIn)
Held == base.has \cup wal.has
Up == service.step # "down"
Storing == service.step \notin {"down", "attached"}   \* the helper holds the store
Published == publication = NoStage
Bound == seed.gen = base.gen            \* load_seed accepts the seed
Origin == IF seed.gen = 0 THEN sweptFile.since ELSE seed.since   \* what names the seed
\* The transactions that name a seed in use, and that of a base being published.
Origins == {Origin} \cup (IF Published THEN {} ELSE {publication.since})

SessionInit ==
  /\ offline \in BOOLEAN
  /\ changedIn = <<>> /\ committed = 1
  /\ base = [gen |-> 1, has |-> {}] /\ wal = base
  /\ \/ seed = [gen |-> 1, since |-> 1] /\ sweptFile = NoFile
     \/ seed = NoFile /\ sweptFile = [gen |-> Legacy, since |-> 1]
  /\ publication = NoStage /\ staleMark = FALSE
  /\ service = Down /\ ingest = NoIngest
-----------------------------------------------------------------------------
(* The volume.  The watch hears of a change, or loses it and says so: on a    *)
(* volume with history it then asks for a sweep, on another it gives up.  A   *)
(* mount mark hears of closed writes only.                                    *)
FsChange ==
  /\ Len(changedIn) < MaxFsChanges
  /\ changedIn' = Append(changedIn, committed + 1)
  /\ LET n == Len(changedIn) + 1 IN
     \/ Up /\ service' = [service EXCEPT !.queue = @ \cup {n}]
     \/ Up /\ offline /\ service' = [service EXCEPT !.gap = TRUE]
     \/ (~Up \/ offline) /\ UNCHANGED service
  /\ UNCHANGED <<offline, committed, filesVars, ingest>>

FsCommit ==
  /\ committed < MaxFsCommits
  /\ committed' = committed + 1
  /\ UNCHANGED <<offline, changedIn, filesVars, service, ingest>>
-----------------------------------------------------------------------------
(* The publication of a staged base, by a build or a compaction.  What a      *)
(* crash leaves of it the next process goes on with, or drops if the log      *)
(* still belongs to the old base.                                             *)
Publisher == ingest.step = "publish" \/ Storing \/ service.step = "attached"

DropPublication ==
  /\ ~Published /\ wal.gen # publication.gen
  /\ service.step = "attached" \/ ingest.step = "recover"
  /\ publication' = NoStage
  /\ UNCHANGED <<volumeVars, base, wal, seed, sweptFile, staleMark, service, ingest>>

ReplaceWal ==
  /\ ~Published /\ wal.gen # publication.gen
  /\ ingest.step = "publish" \/ Storing
  /\ wal' = [gen |-> publication.gen, has |-> {}]
  /\ UNCHANGED <<volumeVars, base, seed, sweptFile, publication, staleMark, service, ingest>>

(* Mutant: a compacted base is staged without the seed of the base it *)
(* replaces.                                                          *)
KeepSeedOfBuild(stage) == stage

\* The stage of a build has a seed, that of a compaction takes over the seed
\* of the base it replaces.
KeepSeed(stage) ==
  IF stage.since = 0 /\ Bound THEN [stage EXCEPT !.since = seed.since] ELSE stage

ReplaceBase ==
  /\ ~Published /\ wal.gen = publication.gen /\ base.gen # publication.gen
  /\ publication' = KeepSeed(publication)
  /\ base' = [gen |-> publication.gen, has |-> publication.has]
  /\ UNCHANGED <<volumeVars, wal, seed, sweptFile, staleMark, service, ingest>>
  /\ Publisher \/ ingest.step = "recover"

ReplaceSeed ==
  /\ base.gen = publication.gen /\ seed.gen # publication.gen /\ publication.since # 0
  /\ seed' = [gen |-> publication.gen, since |-> publication.since]
  /\ Publisher \/ ingest.step = "recover"
  /\ UNCHANGED <<volumeVars, base, wal, sweptFile, publication, staleMark, service, ingest>>

EndPublication ==
  /\ base.gen = publication.gen /\ (seed.gen = base.gen \/ publication.since = 0)
  /\ Publisher \/ ingest.step = "recover"
  /\ publication' = NoStage
  /\ staleMark' = (staleMark /\ ~publication.whole)
  /\ ingest' = IF ingest.step = "publish" THEN NoIngest ELSE ingest
  /\ UNCHANGED <<volumeVars, base, wal, seed, sweptFile, service>>
-----------------------------------------------------------------------------
(* A full build: by the application, which stops the service first, or from   *)
(* the command line beside it.  Only its end needs the store's lock.          *)
(* Mutant: the transaction is read when the records have been. *)
CaptureLate(since) == committed

Capture(since) == since

StartIngest ==
  /\ ingest.step = "idle"
  /\ (Up /\ ~SameCursor) => committed \notin Origins
  /\ ingest' = [step |-> "scan", since |-> committed, before |-> Len(changedIn), has |-> {}]
  /\ UNCHANGED <<volumeVars, filesVars, service>>

\* What changes during the scan may or may not be seen.
ScanRecords ==
  /\ ingest.step = "scan"
  /\ \E late \in SUBSET ((ingest.before + 1) .. Len(changedIn)) :
       ingest' = [ingest EXCEPT !.step = "recover", !.has = (1 .. ingest.before) \cup late,
                                !.since = Capture(@)]
  /\ UNCHANGED <<volumeVars, filesVars, service>>

StageIngest ==
  /\ ingest.step = "recover" /\ Published /\ ~Up /\ base.gen < MaxBases
  /\ publication' = [gen |-> base.gen + 1, has |-> ingest.has, since |-> ingest.since, whole |-> TRUE]
  /\ ingest' = [ingest EXCEPT !.step = "publish"]
  /\ UNCHANGED <<volumeVars, base, wal, seed, sweptFile, staleMark, service>>

IngestStops ==
  /\ ingest.step # "idle" /\ ingest' = NoIngest
  /\ UNCHANGED <<volumeVars, filesVars, service>>
-----------------------------------------------------------------------------
(* The service.  It attaches its watches, recovers and opens the store,       *)
(* starts the readers, sweeps from the saved place, saves it, says it is      *)
(* ready, and from then on compacts and sweeps now and then.                  *)
Attach ==
  /\ ~Up /\ ingest.step \notin {"publish", "recover"}
  /\ (ingest # NoIngest /\ ~SameCursor) => ingest.since \notin Origins
  /\ service' = [Down EXCEPT !.step = "attached", !.before = Len(changedIn)]
  /\ UNCHANGED <<volumeVars, filesVars, ingest>>

OpenStore ==
  /\ service.step = "attached" /\ Published /\ ~staleMark
  /\ service' = [service EXCEPT !.step = "open"]
  /\ UNCHANGED <<volumeVars, filesVars, ingest>>

Matches(id) == sweptFile.gen = id       \* restore takes the sweep's file for its own
FromSeed == Least(seed.since, committed)
FromSwept == Least(sweptFile.since, committed)

\* Where to go on from, or 0 for a start that is refused.
ResumeAt ==
  CASE Bound /\ Matches(seed.since)          -> FromSwept
    [] Bound /\ ~Matches(seed.since)         -> FromSeed
    [] seed = NoFile /\ Matches(Legacy)      -> FromSwept
    [] OTHER                                 -> 0

PrepareFold ==
  /\ service.step = "open" /\ offline /\ ResumeAt # 0
  /\ LET id == IF Bound THEN seed.since ELSE ResumeAt IN
     /\ service' = [service EXCEPT !.step = "prepared", !.since = ResumeAt, !.id = id, !.active = TRUE]
     /\ seed' = [gen |-> base.gen, since |-> id]
  /\ UNCHANGED <<volumeVars, base, wal, sweptFile, publication, staleMark, ingest>>

\* sweep_once: the files changed in the transactions from "since" on, those
\* not committed yet included; the next sweep begins with what was committed
\* before this one.
Reconciled(s) == {n \in FsChanges : changedIn[n] >= s.since}
Sweep ==
  /\ service.step = "prepared" \/ (service.step = "ready" /\ offline /\ ~staleMark)
  /\ Published
  /\ service.active \/ service.gap \/ committed > service.since
  /\ wal' = [wal EXCEPT !.has = @ \cup Reconciled(service)]
  /\ LET next == Most(committed, service.since) IN
     service' = [service EXCEPT !.step = IF @ = "ready" THEN @ ELSE "replayed",
                                !.moved = (next # service.since), !.since = next, !.gap = FALSE,
                                !.active = \E n \in FsChanges : changedIn[n] > committed]
  /\ UNCHANGED <<volumeVars, base, seed, sweptFile, publication, staleMark, ingest>>

SaveSwept ==
  /\ service.step = "replayed" \/ (service.step = "ready" /\ service.moved)
  /\ sweptFile' = [gen |-> service.id, since |-> service.since]
  /\ service' = [service EXCEPT !.step = IF @ = "ready" THEN @ ELSE "saved", !.moved = FALSE]
  /\ UNCHANGED <<volumeVars, base, wal, seed, publication, staleMark, ingest>>

\* WatchReady, or WatchLimited for a volume without history.
Announce ==
  /\ service.step = (IF offline THEN "saved" ELSE "open") /\ ~staleMark
  /\ service' = [service EXCEPT !.step = "ready"]
  /\ UNCHANGED <<volumeVars, filesVars, ingest>>

ReadEvents ==
  /\ Storing /\ service.hand = {} /\ service.queue # {}
  /\ service' = [service EXCEPT !.hand = service.queue, !.queue = {}]
  /\ UNCHANGED <<volumeVars, filesVars, ingest>>

CommitEvents ==
  /\ Storing /\ service.hand # {} /\ Published /\ ~staleMark
  /\ wal' = [wal EXCEPT !.has = @ \cup service.hand]
  /\ service' = [service EXCEPT !.hand = {}]
  /\ UNCHANGED <<volumeVars, base, seed, sweptFile, publication, staleMark, ingest>>

\* fail_closed: events lost or refused, a sweep or a save that failed.
FailClosed ==
  /\ Storing /\ ~staleMark
  /\ staleMark' = TRUE
  /\ UNCHANGED <<volumeVars, base, wal, seed, sweptFile, publication, service, ingest>>

Compact ==
  /\ service.step = "ready" /\ Published /\ ~staleMark /\ base.gen < MaxBases
  /\ publication' = [gen |-> base.gen + 1, has |-> Held, since |-> 0, whole |-> FALSE]
  /\ UNCHANGED <<volumeVars, base, wal, seed, sweptFile, staleMark, service, ingest>>

\* A failure, the supervisor's end, or a crash.
ServiceStops ==
  /\ Up /\ service' = Down
  /\ UNCHANGED <<volumeVars, filesVars, ingest>>

Publishes == DropPublication \/ ReplaceWal \/ ReplaceBase \/ ReplaceSeed \/ EndPublication
Builds == StartIngest \/ ScanRecords \/ StageIngest \/ IngestStops
Serves == \/ Attach \/ OpenStore \/ PrepareFold \/ Sweep \/ SaveSwept \/ Announce
          \/ ReadEvents \/ CommitEvents \/ FailClosed \/ Compact \/ ServiceStops
SessionNext == FsChange \/ FsCommit \/ Publishes \/ Builds \/ Serves
SessionSpec == SessionInit /\ [][SessionNext]_sessionVars
-----------------------------------------------------------------------------
Kept(since) == \A n \in FsChanges : n \in Held \/ changedIn[n] >= since

\* Whatever was built, compacted or cut short before, the next start of the
\* service on a volume with history finds a place to go on from, and no change
\* before that place is missing from the index; nor is one before the place a
\* running service sweeps from next.
NothingSkipped ==
  (offline /\ Published) =>
    /\ ResumeAt # 0 /\ Kept(ResumeAt)
    /\ service.since # 0 => Kept(service.since)

\* Readiness means what it says: with history every change from before the
\* start is in the index, and without it every change since the watch was
\* attached is in the index or on its way, unless the index is marked stale.
ReadyIsCurrent ==
  (service.step = "ready" /\ ~staleMark /\ Published) =>
    IF offline THEN 1 .. service.before \subseteq Held
    ELSE (service.before + 1) .. Len(changedIn) \subseteq Held \cup service.queue \cup service.hand

NoChangeSkipped == NothingSkipped /\ ReadyIsCurrent
=============================================================================
