---------------------------- MODULE CatalogRows ----------------------------
(***************************************************************************)
(* The browse catalog keeps the blocks of the base it was built from for   *)
(* as long as it lives and records differences beside them: base rows that *)
(* were replaced or removed are tombstones (single ids, and id intervals   *)
(* for removed folders), changed and new rows are live entries.  Writers   *)
(* commit each batch into it; an open that finds it behind replays the     *)
(* resolved overlay into it, in chunks, on top of whatever it holds.       *)
(***************************************************************************)
EXTENDS ChangeTables, SequencesExt

CONSTANTS
  PinnedRows,      \* the pinned base: records in path order, one per source
  CatalogWrites,   \* the changes writers submit
  MaxLogged,       \* bound on the changes of one log
  MaxRevision      \* bound on the tombstone revision

Below(q) == {p \in Paths : q \in Above[p]}

\* In byte order what is below a folder comes in one piece: all of it begins
\* with the path of the folder and a slash.
ASSUME CatalogAssumption ==
  /\ IsFiniteSet(Paths) /\ CatalogWrites \subseteq Changes
  /\ \A p, q \in Paths : Rank[p] \in Int /\ (Rank[p] = Rank[q] => p = q)
  /\ \A q \in Paths : \A p, r \in Below(q) : \A m \in Paths :
       Rank[p] <= Rank[m] /\ Rank[m] <= Rank[r] => m \in Below(q)
  /\ PinnedRows \in Seq([path : Paths, record : Records])
  /\ \A i, j \in DOMAIN PinnedRows : i < j => ~Sorts(PinnedRows[j].path, PinnedRows[i].path)

VARIABLES
  stored,     \* the compact base, as an index
  told,       \* the changes of the log since that base
  resolved,   \* the overlay's tables for them
  catalog,    \* entries, singles, ranges and the tombstone revision
  pending,    \* changes in the log the catalog was not told of yet
  replay,     \* what is left of a replay of the overlay
  session,    \* "open", "replaying" or "stopped"
  heldDead    \* a reader's tombstones and the revision they were loaded at

catalogVars == <<stored, told, resolved, catalog, pending, replay, session, heldDead>>

\* The elements of a set as a sequence, in the order of a key no two share.
Keyed(S, key) ==
  [i \in 1 .. Cardinality(S) |-> CHOOSE x \in S : Cardinality({y \in S : key[y] < key[x]}) = i - 1]

Ids == DOMAIN PinnedRows
IdsOf(S) == {i \in Ids : PinnedRows[i].path \in S}
-----------------------------------------------------------------------------
(* Reading. *)
IsDead(c, i) == i \in c.singles \/ \E r \in c.ranges : r[1] <= i /\ i < r[2]

LiveBase(c, p) == {i \in IdsOf({p}) : ~IsDead(c, i)}

FindRecord(c, p) ==
  LET live == LiveBase(c, p) IN
  IF c.entries[p] # Nothing THEN c.entries[p]
  ELSE IF live # {} THEN PinnedRows[Min(live)].record ELSE Nothing

\* Tombstones::load joins intervals that touch, in order of their low ends,
\* so that contains may look at the last one that begins at or before an id.
Joined(ranges, r) ==
  IF ranges # <<>> /\ r[1] <= Last(ranges)[2]
  THEN Front(ranges) \o <<<<Last(ranges)[1], Max({Last(ranges)[2], r[2]})>>>>
  ELSE Append(ranges, r)

LoadTombstones(c) ==
  [revision |-> c.revision, singles |-> c.singles,
   ranges |-> FoldLeft(Joined, <<>>, Keyed(c.ranges, [r \in c.ranges |-> r[1]]))]

ContainsId(t, i) ==
  LET begun == {k \in DOMAIN t.ranges : t.ranges[k][1] <= i} IN
  i \in t.singles \/ (begun # {} /\ i < t.ranges[Max(begun)][2])

\* The cached set is used again while the revision stands.
TombstonesFor(c) == IF heldDead.revision = c.revision THEN heldDead ELSE LoadTombstones(c)
-----------------------------------------------------------------------------
(* Writing. *)
\* ON CONFLICT(low) DO UPDATE SET high = max(high, excluded.high)
AddRange(ranges, r) ==
  {s \in ranges : s[1] # r[1]}
    \cup {<<r[1], Max({r[2]} \cup {s[2] : s \in {s \in ranges : s[1] = r[1]}})>>}

\* base_subtree: the id interval of a path, and that of everything below it.
AddSpan(ranges, ids) == IF ids = {} THEN ranges ELSE AddRange(ranges, <<Min(ids), Max(ids) + 1>>)
AddSubtree(ranges, root) == AddSpan(AddSpan(ranges, IdsOf({root})), IdsOf(Below(root)))

(* Mutant: removing a folder leaves the revision where it was. *)
DropFolderQuietly(w, root) ==
  [w EXCEPT !.ranges = AddSubtree(@, root),
            !.entries = [p \in Paths |-> IF p \in AtOrBelow(root) THEN Nothing ELSE @[p]]]

DropFolder(w, root) ==
  [w EXCEPT !.ranges = AddSubtree(@, root),
            !.entries = [p \in Paths |-> IF p \in AtOrBelow(root) THEN Nothing ELSE @[p]],
            !.tombstoned = @ \/ IdsOf(AtOrBelow(root)) # {}]

PutRecord(w, c) ==
  LET new == IF c.kind = "upsert" THEN c.record ELSE Nothing IN
  IF c.kind = "upsert" /\ FindRecord(w, c.path) = new THEN w
  ELSE [w EXCEPT !.singles = @ \cup IdsOf({c.path}),
                 !.entries[c.path] = new,
                 !.tombstoned = @ \/ ~(IdsOf({c.path}) \subseteq w.singles)]

ApplyToCatalog(w, c) == IF c.kind = "prefix" THEN DropFolder(w, c.path) ELSE PutRecord(w, c)

\* apply_changes: one transaction; the revision moves if a row was tombstoned.
ApplyChanges(c, changes) ==
  LET w == FoldLeft(ApplyToCatalog, [c EXCEPT !.tombstoned = FALSE], changes) IN
  [w EXCEPT !.revision = IF w.tombstoned THEN @ + 1 ELSE @, !.tombstoned = FALSE]

InPathOrder(S) == Keyed(S, [c \in S |-> Rank[c.path]])
(* Mutant: records first. *)
RecordsThenFolders(o) ==
  InPathOrder({[kind |-> "upsert", path |-> p, record |-> o.rows[p]] :
                 p \in {p \in Paths : o.rows[p] \in Records}})
    \o InPathOrder({[kind |-> "remove", path |-> p] : p \in {p \in Paths : o.rows[p] = Nothing}})
    \o InPathOrder({[kind |-> "prefix", path |-> p] : p \in o.prefixes})

\* apply_delta: prefixes, then removals, then records.
ResolvedChanges(o) ==
  InPathOrder({[kind |-> "prefix", path |-> p] : p \in o.prefixes})
    \o InPathOrder({[kind |-> "remove", path |-> p] : p \in {p \in Paths : o.rows[p] = Nothing}})
    \o InPathOrder({[kind |-> "upsert", path |-> p, record |-> o.rows[p]] :
                      p \in {p \in Paths : o.rows[p] \in Records}})
-----------------------------------------------------------------------------
\* recover_delta: the log of a catalog whose pinned base is still published,
\* written anew: a removal of the path of every dead row, then the live entries.
RecoveredChanges(c) ==
  InPathOrder({[kind |-> "remove", path |-> PinnedRows[i].path] : i \in {i \in Ids : IsDead(c, i)}})
    \o InPathOrder({[kind |-> "upsert", path |-> p, record |-> c.entries[p]] :
                      p \in {p \in Paths : c.entries[p] # Nothing}})

\* The pinned base as an index: the first row of a path.
PinnedIndex ==
  [p \in Paths |-> IF IdsOf({p}) = {} THEN Nothing ELSE PinnedRows[Min(IdsOf({p}))].record]

NoTables == [rows |-> NoRows, prefixes |-> {}]

\* build: no entries, no tombstones, the base of this moment pinned.
CatalogInit ==
  /\ stored = PinnedIndex
  /\ told = <<>> /\ resolved = NoTables
  /\ catalog = [entries |-> [p \in Paths |-> Nothing], singles |-> {}, ranges |-> {},
                revision |-> 0, tombstoned |-> FALSE]
  /\ pending = <<>> /\ replay = <<>> /\ session = "open"
  /\ heldDead = LoadTombstones(catalog)

Tell(c) ==
  /\ session = "open" /\ Len(told) < MaxLogged
  /\ told' = Append(told, c) /\ pending' = Append(pending, c)
  /\ resolved' = ApplyOne(resolved, c)
  /\ UNCHANGED <<stored, catalog, replay, session, heldDead>>

Reflect ==
  /\ session = "open" /\ pending # <<>> /\ catalog.revision < MaxRevision
  /\ catalog' = ApplyChanges(catalog, pending) /\ pending' = <<>>
  /\ UNCHANGED <<stored, told, resolved, replay, session, heldDead>>

\* The helper ends with changes, or parts of a replay, missing in the catalog.
StopCatalog ==
  /\ session # "stopped"
  /\ session' = "stopped" /\ pending' = <<>> /\ replay' = <<>>
  /\ UNCHANGED <<stored, told, resolved, catalog, heldDead>>

ReopenCatalog ==
  /\ session = "stopped"
  /\ session' = "replaying" /\ replay' = ResolvedChanges(resolved)
  /\ UNCHANGED <<stored, told, resolved, catalog, pending, heldDead>>

ReplayChunk(n) ==
  /\ session = "replaying" /\ catalog.revision < MaxRevision
  /\ catalog' = ApplyChanges(catalog, SubSeq(replay, 1, n))
  /\ replay' = SubSeq(replay, n + 1, Len(replay))
  /\ UNCHANGED <<stored, told, resolved, pending, session, heldDead>>

ReplayEnds ==
  /\ session = "replaying" /\ replay = <<>> /\ session' = "open"
  /\ UNCHANGED <<stored, told, resolved, catalog, pending, replay, heldDead>>

\* A compaction takes the log into the base; the catalog keeps its rows and
\* goes on under the new generation (advance_generation).
CompactUnder ==
  /\ session = "open" /\ pending = <<>> /\ told # <<>>
  /\ stored' = Seen(stored, resolved) /\ told' = <<>> /\ resolved' = NoTables
  /\ UNCHANGED <<catalog, pending, replay, session, heldDead>>

ReaderLoads ==
  /\ heldDead.revision # catalog.revision
  /\ heldDead' = LoadTombstones(catalog)
  /\ UNCHANGED <<stored, told, resolved, catalog, pending, replay, session>>

CatalogNext ==
  \/ \E c \in CatalogWrites : Tell(c)
  \/ Reflect \/ StopCatalog \/ ReopenCatalog \/ ReplayEnds
  \/ \E n \in 1 .. Len(replay) : ReplayChunk(n)
  \/ CompactUnder \/ ReaderLoads

CatalogSpec == CatalogInit /\ [][CatalogNext]_catalogVars
-----------------------------------------------------------------------------
\* However often a replay was cut short, and on top of however much the catalog
\* already held, an open catalog that was told everything shows the index the
\* base and the log mean, with every id of a replaced path dead.
CatalogMeansIndex(shown) ==
  session = "open" /\ pending = <<>> =>
     /\ shown = FoldLeft(Effect, stored, told)
     /\ \A p \in Paths : catalog.entries[p] # Nothing => LiveBase(catalog, p) = {}

\* A reader that keeps its tombstones because the revision did not move sees
\* exactly the rows that are dead now, the joined intervals included.
TombstonesCurrent ==
  LET kept == TombstonesFor(catalog) IN
  \A i \in Ids : ContainsId(kept, i) <=> IsDead(catalog, i)

\* The log recovered from a catalog means, on its pinned base, the index the
\* catalog shows (browse/cursor/recovery.rs:5-75).
RecoveredLogMeans(shown) == FoldLeft(Effect, PinnedIndex, RecoveredChanges(catalog)) = shown

\* The catalog stands for one index to whoever looks at it: to a search, to a
\* reader that kept the tombstones, and to the log that is made from it when
\* the old log is gone (browse/updates.rs, browse/catalog.rs,
\* browse/cursor/recovery.rs).
CatalogSound ==
  LET shown == [p \in Paths |-> FindRecord(catalog, p)] IN
  CatalogMeansIndex(shown) /\ TombstonesCurrent /\ RecoveredLogMeans(shown)
=============================================================================
