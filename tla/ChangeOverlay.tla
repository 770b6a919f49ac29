--------------------------- MODULE ChangeOverlay ---------------------------
(***************************************************************************)
(* What a log of changes means, and the cache that answers for it.         *)
(*                                                                         *)
(* The delta log is a sequence of frames: upsert one record, remove one    *)
(* path, remove a folder with everything below it.  Reading it again for   *)
(* every question would be too slow, so a SQLite cache (DeltaStore) holds  *)
(* the resolved result: one row per path that was said something about,    *)
(* and the removed folders as prefixes.  A cursor, committed in the same   *)
(* transaction as the rows, says how far into which log the rows go, and a *)
(* filter in memory answers "does the overlay hide this base record?".     *)
(*                                                                         *)
(* meaning is a ghost: the index every prefix of the log stands for.       *)
(* Frames are whole: a torn last frame is truncated when the log is opened,*)
(* which leaves the log as if the frame had never been written.            *)
(***************************************************************************)
EXTENDS ChangeTables, Sequences

CONSTANTS
  OverlayBase,     \* the record of each path in the first base, or Nothing
  OverlayWrites,   \* the changes writers submit
  MaxFrames,       \* bound on the frames of one log
  MaxBatch,        \* bound on the changes one apply_batch call appends
  MaxGeneration    \* bound on base generations

ASSUME OverlayAssumption ==
  /\ OverlayBase \in Indexes
  /\ OverlayWrites \subseteq Changes
  /\ MaxFrames \in Nat /\ MaxBatch \in Nat /\ MaxGeneration \in Nat

VARIABLES
  base,      \* the immutable base, as path -> record
  log,       \* the log on disk: file identity, base generation, frames
  meaning,   \* ghost: meaning[k] is the index after the first k frames
  cache,     \* the committed SQLite cache: rows, prefixes and its cursor
  synced,    \* what of the cache survives a power failure
  tx,        \* rows and prefixes of the open transaction, frames applied to it
  owner,     \* the writer: closed, replaying, open, resetting, stale
  filter     \* the shadow filter: loaded, exact paths, prefixes

overlayVars == <<base, log, meaning, cache, synced, tx, owner, filter>>

NoFilter == [loaded |-> FALSE, exact |-> {}, prefixes |-> {}]
-----------------------------------------------------------------------------
(* The filter that answers for many paths after the lock is released. *)
FilterOf(o) == [loaded |-> TRUE, exact |-> {p \in Paths : o.rows[p] # Unsaid},
                prefixes |-> o.prefixes]
FilterShadows(f, p) == p \in f.exact \/ Ancestors(p) \cap f.prefixes # {}

Batch(from, to) == {log.frames[k] : k \in from + 1 .. to}

(* Mutant: a folder's removal adds to the filter like any other change. *)
FilterAlwaysAdds(f, changes) ==
  IF ~f.loaded THEN NoFilter
  ELSE [f EXCEPT !.exact = @ \cup {c.path : c \in changes}]

FilterAfter(f, changes) ==
  IF ~f.loaded \/ \E c \in changes : c.kind = "prefix" THEN NoFilter
  ELSE [f EXCEPT !.exact = @ \cup {c.path : c \in changes}]
-----------------------------------------------------------------------------
NewCache(l) == [rows |-> NoRows, prefixes |-> {}, at |-> 0,
                file |-> l.file, generation |-> l.generation]

OverlayInit ==
  /\ base = OverlayBase
  /\ log = [file |-> 1, generation |-> 1, frames |-> <<>>]
  /\ meaning = [k \in {0} |-> OverlayBase]
  /\ cache = NewCache(log)
  /\ synced = cache
  /\ tx = [rows |-> NoRows, prefixes |-> {}, at |-> 0]
  /\ owner = "closed"
  /\ filter = NoFilter

(* Mutant: the cursor is trusted by its place in the log alone. *)
CursorInRange(l) == cache.at <= Len(l.frames)

\* The cached cursor is trusted only for this very file and generation.
CursorValid(l) == /\ cache.generation = l.generation
                  /\ cache.file = l.file
                  /\ cache.at <= Len(l.frames)

\* restore: keep the cached rows and replay what follows, or start over.
Restore(l) ==
  LET start == IF CursorValid(l) THEN cache ELSE NewCache(l) IN
  /\ cache' = start
  /\ tx' = [rows |-> start.rows, prefixes |-> start.prefixes, at |-> start.at]
  /\ owner' = "replaying"
  /\ filter' = NoFilter

OpenLog ==
  /\ owner = "closed"
  /\ Restore(log)
  /\ UNCHANGED <<base, log, meaning, synced>>

\* append_frame of one change of a batch.
AppendChange(c) ==
  /\ owner = "open" /\ tx.at = cache.at
  /\ Len(log.frames) < MaxFrames /\ Len(log.frames) - cache.at < MaxBatch
  /\ log' = [log EXCEPT !.frames = Append(@, c)]
  /\ meaning' = [k \in 0 .. Len(log.frames) + 1 |->
                   IF k <= Len(log.frames) THEN meaning[k]
                   ELSE Effect(meaning[Len(log.frames)], c)]
  /\ UNCHANGED <<base, cache, synced, tx, owner, filter>>

\* One change applied inside the transaction, while appending or replaying.
ApplyInTransaction ==
  /\ owner \in {"open", "replaying"}
  /\ tx.at < Len(log.frames)
  /\ tx' = [ApplyOne(tx, log.frames[tx.at + 1]) EXCEPT !.at = @ + 1]
  /\ UNCHANGED <<base, log, meaning, cache, synced, owner, filter>>

\* Rows and cursor are committed together; a replay commits batch by batch,
\* an append only once the whole batch is applied.
CommitTransaction ==
  /\ owner \in {"open", "replaying"}
  /\ cache.at < tx.at
  /\ owner = "open" => tx.at = Len(log.frames)
  /\ cache' = [cache EXCEPT !.rows = tx.rows, !.prefixes = tx.prefixes, !.at = tx.at]
  /\ filter' = FilterAfter(filter, Batch(cache.at, tx.at))
  /\ UNCHANGED <<base, log, meaning, synced, tx, owner>>

ReplayDone ==
  /\ owner = "replaying"
  /\ cache.at = Len(log.frames)
  /\ owner' = "open"
  /\ UNCHANGED <<base, log, meaning, cache, synced, tx, filter>>

\* SQLite reports an error: the transaction rolls back, the overlay refuses.
ApplyFails ==
  /\ owner = "open" /\ cache.at < Len(log.frames)
  /\ owner' = "stale"
  /\ tx' = [rows |-> cache.rows, prefixes |-> cache.prefixes, at |-> cache.at]
  /\ UNCHANGED <<base, log, meaning, cache, synced, filter>>

LoadFilter ==
  /\ owner = "open" /\ ~filter.loaded /\ tx.at = cache.at
  /\ filter' = FilterOf(cache)
  /\ UNCHANGED <<base, log, meaning, cache, synced, tx, owner>>

Settled == owner = "open" /\ cache.at = Len(log.frames)

\* Foreground compaction: the base takes everything in and the log file is
\* truncated in place under the next generation; the cache is cleared after.
ResetLog ==
  /\ Settled /\ log.generation < MaxGeneration
  /\ base' = meaning[Len(log.frames)]
  /\ log' = [log EXCEPT !.generation = @ + 1, !.frames = <<>>]
  /\ meaning' = [k \in {0} |-> base']
  /\ owner' = "resetting"
  /\ UNCHANGED <<cache, synced, tx, filter>>

ClearAfterReset ==
  /\ owner = "resetting"
  /\ cache' = NewCache(log)
  /\ tx' = [rows |-> NoRows, prefixes |-> {}, at |-> 0]
  /\ owner' = "open"
  /\ filter' = NoFilter
  /\ UNCHANGED <<base, log, meaning, synced>>

(* Mutant: the first frame after the frozen cursor is not copied. *)
CopyAfterNext(frozen) == SubSeq(log.frames, frozen + 2, Len(log.frames))

CopyTail(frozen) == SubSeq(log.frames, frozen + 1, Len(log.frames))

\* Background compaction: the base takes in the frames before the frozen
\* cursor and the rest moves to a new file in the same order.
InstallTail(frozen) ==
  /\ Settled /\ log.generation < MaxGeneration
  /\ base' = meaning[frozen]
  /\ log' = [file |-> log.file + 1, generation |-> log.generation + 1, frames |-> CopyTail(frozen)]
  /\ meaning' = [k \in 0 .. Len(CopyTail(frozen)) |-> meaning[frozen + k]]
  /\ owner' = "installed"
  /\ UNCHANGED <<cache, synced, tx, filter>>

\* The cache is restored from the new file after that.
RestoreTail ==
  /\ owner = "installed"
  /\ Restore(log)
  /\ UNCHANGED <<base, log, meaning, synced>>

\* The writer ends, in order or not.  The cache keeps its last commit, or,
\* without power, the last one that reached the disk; the log is synced
\* before anything is applied.
SyncCache ==
  /\ synced # cache /\ synced' = cache
  /\ UNCHANGED <<base, log, meaning, cache, tx, owner, filter>>

Stops(left) ==
  /\ owner # "closed"
  /\ owner' = "closed" /\ filter' = NoFilter
  /\ cache' = left
  /\ tx' = [rows |-> NoRows, prefixes |-> {}, at |-> 0]
  /\ UNCHANGED <<base, log, meaning, synced>>

ProcessStops == Stops(cache)
PowerFails == Stops(synced)

OverlayNext ==
  \/ OpenLog \/ ReplayDone
  \/ \E c \in OverlayWrites : AppendChange(c)
  \/ ApplyInTransaction \/ CommitTransaction \/ ApplyFails
  \/ LoadFilter
  \/ ResetLog \/ ClearAfterReset
  \/ \E frozen \in 0 .. Len(log.frames) : InstallTail(frozen)
  \/ RestoreTail
  \/ SyncCache \/ ProcessStops \/ PowerFails

OverlaySpec == OverlayInit /\ [][OverlayNext]_overlayVars
-----------------------------------------------------------------------------
Tables == [rows : [Paths -> Records \cup {Nothing, Unsaid}], prefixes : SUBSET Paths,
           at : Nat]
Caches == [rows : [Paths -> Records \cup {Nothing, Unsaid}], prefixes : SUBSET Paths,
           at : Nat, file : Nat, generation : Nat]

OverlayTypeOK ==
  /\ base \in Indexes
  /\ log \in [file : Nat, generation : Nat, frames : Seq(Changes)]
  /\ meaning \in [0 .. Len(log.frames) -> Indexes]
  /\ cache \in Caches /\ synced \in Caches
  /\ tx \in Tables
  /\ owner \in {"closed", "replaying", "open", "resetting", "installed", "stale"}
  /\ filter \in [loaded : BOOLEAN, exact : SUBSET Paths, prefixes : SUBSET Paths]

\* Whatever was appended, rolled back, lost or replayed, a writer that is open
\* and idle answers exactly what the base and the log mean: no change counted
\* twice, none skipped, and a folder's removal never outlives a later record
\* below it (DeltaStore::apply_one, prefixes::apply, is_removed).
OpenMeansLog ==
  Settled => Seen(base, cache) = meaning[Len(log.frames)]

\* The filter a broad search uses without the lock hides exactly the base
\* records the tables hide (ShadowFilter, apply_batch).
FilterIsExact ==
  filter.loaded /\ owner = "open" /\ cache.at = tx.at =>
     \A p \in Paths : FilterShadows(filter, p) <=> Shadows(cache, p)

\* The base and the frames of the log, replayed one by one, give the index.
MeaningIsReplay ==
  /\ meaning[0] = base
  /\ \A k \in 0 .. Len(log.frames) - 1 :
        meaning[k + 1] = Effect(meaning[k], log.frames[k + 1])

\* A compaction leaves files that, read from nothing, give the very index there
\* was: what it folds into the base is what it takes out of the log, with the
\* changes that arrived meanwhile after it (DeltaStore::reset,
\* stage_compaction_tail, install_compaction_tail).
CompactionKeepsIndex ==
  [][log'.generation # log.generation =>
       meaning'[Len(log'.frames)] = meaning[Len(log.frames)] /\ MeaningIsReplay']_overlayVars
=============================================================================
