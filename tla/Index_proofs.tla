----------------------------- MODULE Index_proofs -----------------------------
(***************************************************************************)
(* What readers take for the index: the base with the changes of the log,  *)
(* and the caches that were made of them.                                  *)
(***************************************************************************)
EXTENDS ChangeOverlay, OverlayReaders, CatalogBuild, PreparedPages, FiniteSetTheorems,
        SequenceTheorems, TLAPS
-----------------------------------------------------------------------------
(***************************************************************************)
(* Proofs about ChangeOverlay, for every set of paths, records and bounds. *)
(* The argument: one change does to the tables what it means (ApplyCorrect)*)
(* so rows that were true of k frames are true of k + 1 frames after it;   *)
(* a cursor is only ever trusted for the file and generation it was        *)
(* committed under, and no generation is used twice.                       *)
(***************************************************************************)

Said(o) == {p \in Paths : o.rows[p] # Unsaid}

\* Rows committed under this log say what the log said up to their cursor.
TrueAt(c, l, b, m) ==
  /\ c.generation <= l.generation
  /\ c.generation = l.generation /\ c.file = l.file =>
       /\ c.at <= Len(l.frames)
       /\ Seen(b, c) = m[c.at]

TrueOfLog(c) == TrueAt(c, log, base, meaning)

\* The open transaction goes on from the committed cursor.
TxInv ==
  owner \in {"open", "replaying"} =>
    /\ cache.generation = log.generation /\ cache.file = log.file
    /\ cache.at <= tx.at /\ tx.at <= Len(log.frames)
    /\ Seen(base, tx) = meaning[tx.at]

NoFolderIn(from, to) == \A c \in Batch(from, to) : c.kind # "prefix"

\* Without a folder removal a batch only adds its own paths to the tables.
TxAdds ==
  owner \in {"open", "replaying"} /\ NoFolderIn(cache.at, tx.at) =>
    /\ tx.prefixes = cache.prefixes
    /\ Said(tx) = Said(cache) \cup {c.path : c \in Batch(cache.at, tx.at)}

FilterInv == filter.loaded => filter = FilterOf(cache)

OverlayInv ==
  /\ OverlayTypeOK
  /\ TrueOfLog(cache) /\ TrueOfLog(synced)
  /\ MeaningIsReplay
  /\ TxInv
  /\ TxAdds
  /\ FilterInv
-----------------------------------------------------------------------------
(* The helpers: what one change does to the tables. *)

TablePart == [rows : [Paths -> Records \cup {Nothing, Unsaid}], prefixes : SUBSET Paths]

(* Applying one change to the resolved tables shows every path exactly what *)
(* the change means for it (DeltaStore::apply_one, prefixes::apply).        *)
THEOREM ApplyCorrect ==
  ASSUME NEW b \in Indexes, NEW o \in Tables, NEW c \in Changes
  PROVE  Seen(b, ApplyOne(o, c)) = Effect(Seen(b, o), c)
<1> USE PathsAssumption DEF PathsAreATree
<1>0. Nothing \notin Records /\ Unsaid \notin Records /\ Nothing # Unsaid
  BY OverlayAssumption, RecordsAssumption DEF Nothing, Unsaid
<1>1. CASE c.kind = "prefix"
  <2> DEFINE r == c.path
             kept == o.prefixes \ AtOrBelow(r)
             n == ApplyOne(o, c)
  <2>1. r \in Paths /\ o.prefixes \subseteq Paths
    BY DEF Changes, Tables
  <2>2. /\ n.rows = [p \in Paths |-> IF p \in AtOrBelow(r) THEN Unsaid ELSE o.rows[p]]
        /\ n.prefixes = IF Ancestors(r) \cap kept # {} THEN kept ELSE kept \cup {r}
    BY <1>1 DEF ApplyOne, RemoveFolder, Tables
  <2>3. ASSUME NEW p \in Paths, p \in AtOrBelow(r)
        PROVE  Seen(b, n)[p] = Nothing
    <3>1. n.rows[p] = Unsaid
      BY <2>2, <2>3
    <3>2. Ancestors(r) \subseteq Ancestors(p)
      BY <2>1, <2>3 DEF Ancestors, AtOrBelow
    <3>3. r \in Ancestors(p)
      BY <2>3 DEF AtOrBelow
    <3>4. Ancestors(p) \cap n.prefixes # {}
      <4>1. CASE Ancestors(r) \cap kept # {}
        BY <4>1, <2>2, <3>2
      <4>2. CASE ~(Ancestors(r) \cap kept # {})
        BY <4>2, <2>2, <3>3
      <4> QED BY <4>1, <4>2
    <3> QED BY <3>1, <3>4 DEF Seen, Shadows, IsRemoved, Covered
  <2>4. ASSUME NEW p \in Paths, p \notin AtOrBelow(r)
        PROVE  Seen(b, n)[p] = Seen(b, o)[p]
    <3>1. n.rows[p] = o.rows[p]
      BY <2>2, <2>4
    <3>2. r \notin Ancestors(p)
      BY <2>4 DEF AtOrBelow
    <3>3. ASSUME NEW q \in AtOrBelow(r) PROVE q \notin Ancestors(p)
      BY <3>2, <3>3, <2>1 DEF Ancestors, AtOrBelow
    <3>4. Ancestors(p) \cap n.prefixes = Ancestors(p) \cap o.prefixes
      <4>1. Ancestors(p) \cap kept = Ancestors(p) \cap o.prefixes
        BY <3>3, <2>1
      <4>2. Ancestors(p) \cap {r} = {}
        BY <3>2
      <4> QED BY <4>1, <4>2, <2>2
    <3> QED BY <3>1, <3>4 DEF Seen, Shadows, IsRemoved, Covered
  <2>5. \A p \in Paths : Seen(b, n)[p] = Effect(Seen(b, o), c)[p]
    BY <2>3, <2>4, <1>1 DEF Effect
  <2> QED BY <2>5 DEF Seen, Effect
<1>2. CASE c.kind # "prefix"
  <2> DEFINE n == ApplyOne(o, c)
             v == IF c.kind = "upsert" THEN c.record ELSE Nothing
  <2>1. c.path \in Paths /\ v # Unsaid /\ (v = Nothing <=> c.kind # "upsert")
    BY <1>0 DEF Changes
  <2>2. n.prefixes = o.prefixes /\ n.rows = [o.rows EXCEPT ![c.path] = v]
    BY <1>2 DEF ApplyOne, Tables
  <2>3. \A p \in Paths : Covered(n, p) <=> Covered(o, p)
    BY <2>2 DEF Covered
  <2>4. \A p \in Paths : n.rows[p] = IF p = c.path THEN v ELSE o.rows[p]
    BY <2>2 DEF Tables
  <2>5. ASSUME NEW p \in Paths
        PROVE  Seen(b, n)[p] = Effect(Seen(b, o), c)[p]
    <3>1. CASE p = c.path
      <4>1. Seen(b, n)[p] = v
        BY <3>1, <2>1, <2>4 DEF Seen, Shadows, IsRemoved
      <4>2. Effect(Seen(b, o), c)[p] = v
        BY <3>1, <1>2 DEF Effect, Changes
      <4> QED BY <4>1, <4>2
    <3>2. CASE p # c.path
      <4>1. Seen(b, n)[p] = Seen(b, o)[p]
        BY <3>2, <2>3, <2>4 DEF Seen, Shadows, IsRemoved
      <4>2. Effect(Seen(b, o), c)[p] = Seen(b, o)[p]
        BY <3>2, <1>2 DEF Effect
      <4> QED BY <4>1, <4>2
    <3> QED BY <3>1, <3>2
  <2> QED BY <2>5 DEF Seen, Effect
<1> QED BY <1>1, <1>2
-----------------------------------------------------------------------------
(* Types of the results. *)

LEMMA ApplyType ==
  ASSUME NEW o \in Tables, NEW c \in Changes
  PROVE  ApplyOne(o, c) \in Tables /\ ApplyOne(o, c).at = o.at
<1>1. CASE c.kind = "prefix"
  BY <1>1 DEF ApplyOne, RemoveFolder, Tables, Changes
<1>2. CASE c.kind # "prefix"
  <2> DEFINE v == IF c.kind = "upsert" THEN c.record ELSE Nothing
  <2>1. c.path \in Paths /\ v \in Records \cup {Nothing, Unsaid}
    BY DEF Changes
  <2>2. ApplyOne(o, c) = [o EXCEPT !.rows = [o.rows EXCEPT ![c.path] = v]]
    BY <1>2 DEF ApplyOne
  <2> QED BY <2>1, <2>2 DEF Tables
<1> QED BY <1>1, <1>2

LEMMA EffectType ==
  ASSUME NEW index \in Indexes, NEW c \in Changes
  PROVE  Effect(index, c) \in Indexes
BY DEF Effect, Indexes, Changes

LEMMA EmptyTables ==
  ASSUME NEW b \in Indexes, NEW o, o.rows = NoRows, o.prefixes = {}
  PROVE  Seen(b, o) = b
BY DEF Seen, Shadows, IsRemoved, Covered, NoRows, Indexes

LEMMA NewCacheType ==
  ASSUME NEW l \in [file : Nat, generation : Nat, frames : Seq(Changes)]
  PROVE  /\ NewCache(l) \in Caches
         /\ NewCache(l).at = 0 /\ NewCache(l).file = l.file
         /\ NewCache(l).generation = l.generation
         /\ NewCache(l).rows = NoRows /\ NewCache(l).prefixes = {}
BY DEF NewCache, Caches, NoRows

\* The same rows are seen alike in the cache and in a transaction.
LEMMA SeenSame ==
  ASSUME NEW b, NEW o, NEW n, o.rows = n.rows, o.prefixes = n.prefixes
  PROVE  Seen(b, o) = Seen(b, n) /\ Said(o) = Said(n)
BY DEF Seen, Shadows, IsRemoved, Covered, Said
-----------------------------------------------------------------------------
LEMMA OverlayInitInv == OverlayInit => OverlayInv
<1> SUFFICES ASSUME OverlayInit PROVE OverlayInv
  OBVIOUS
<1> USE OverlayAssumption DEF OverlayInit
<1>0. log \in [file : Nat, generation : Nat, frames : Seq(Changes)] /\ Len(log.frames) = 0
  OBVIOUS
<1>1. cache \in Caches /\ synced \in Caches /\ cache.at = 0 /\ Seen(base, cache) = base
  BY <1>0, NewCacheType, EmptyTables
<1>2. tx \in Tables /\ meaning \in [0 .. Len(log.frames) -> Indexes] /\ filter = NoFilter
  BY <1>0 DEF Tables, NoRows
<1>3. OverlayTypeOK
  BY <1>0, <1>1, <1>2 DEF OverlayTypeOK, NoFilter
<1>4. meaning[0] = base
  OBVIOUS
<1>5. TrueOfLog(cache) /\ TrueOfLog(synced)
  BY <1>0, <1>1, <1>4, NewCacheType DEF TrueOfLog, TrueAt
<1>6. MeaningIsReplay
  BY <1>0, <1>4 DEF MeaningIsReplay
<1>7. TxInv /\ TxAdds /\ FilterInv
  BY DEF TxInv, TxAdds, FilterInv, NoFilter
<1> QED BY <1>3, <1>5, <1>6, <1>7 DEF OverlayInv

Logs == [file : Nat, generation : Nat, frames : Seq(Changes)]

\* restore, against a log the caches tell the truth about.
LEMMA RestoreStep ==
  ASSUME NEW l \in Logs, log' = l, base' \in Indexes,
         meaning' \in [0 .. Len(l.frames) -> Indexes], MeaningIsReplay',
         cache \in Caches, TrueAt(cache, l, base', meaning'),
         synced \in Caches, TrueAt(synced, l, base', meaning'), synced' = synced,
         Restore(l)
  PROVE  OverlayInv'
<1> DEFINE start == IF CursorValid(l) THEN cache ELSE NewCache(l)
<1> USE DEF Logs
<1>1. /\ start \in Caches /\ start.generation = l.generation /\ start.file = l.file
      /\ start.at <= Len(l.frames) /\ Seen(base', start) = meaning'[start.at]
  <2>1. CASE CursorValid(l)
    BY <2>1 DEF CursorValid, TrueAt
  <2>2. CASE ~CursorValid(l)
    <3>1. start = NewCache(l) /\ Len(l.frames) \in Nat
      BY <2>2
    <3>2. Seen(base', start) = base' /\ meaning'[0] = base'
      BY <3>1, NewCacheType, EmptyTables DEF MeaningIsReplay
    <3> QED BY <3>1, <3>2, NewCacheType
  <2> QED BY <2>1, <2>2
<1>2. /\ cache' = start /\ owner' = "replaying" /\ filter' = NoFilter
      /\ tx' = [rows |-> start.rows, prefixes |-> start.prefixes, at |-> start.at]
  BY DEF Restore
<1> HIDE DEF start
<1>3. tx' \in Tables /\ Seen(base', tx') = Seen(base', start) /\ Said(tx') = Said(start)
  <2>1. tx' \in Tables
    BY <1>1, <1>2 DEF Caches, Tables
  <2>2. tx'.rows = start.rows /\ tx'.prefixes = start.prefixes
    BY <1>2
  <2> QED BY <2>1, <2>2, SeenSame
<1>4. OverlayTypeOK'
  BY <1>1, <1>2, <1>3 DEF OverlayTypeOK, NoFilter
<1>5. TrueOfLog(cache)' /\ TrueOfLog(synced)'
  BY <1>1, <1>2 DEF TrueOfLog, TrueAt, Caches
<1>6. TxInv'
  BY <1>1, <1>2, <1>3 DEF TxInv, Caches
<1>7. TxAdds'
  <2>1. Batch(cache.at, tx.at)' = {}
    BY <1>1, <1>2 DEF Batch, Caches
  <2>2. Said(tx)' = Said(cache)' /\ (tx.prefixes = cache.prefixes)'
    BY <1>2, <1>3 DEF Said
  <2> QED BY <2>1, <2>2 DEF TxAdds
<1>8. FilterInv'
  BY <1>2 DEF FilterInv, NoFilter
<1> QED BY <1>4, <1>5, <1>6, <1>7, <1>8 DEF OverlayInv

LEMMA OpenStep == OverlayInv /\ (OpenLog \/ RestoreTail) => OverlayInv'
BY RestoreStep DEF OpenLog, RestoreTail, OverlayInv, OverlayTypeOK, TrueOfLog, MeaningIsReplay, Logs

LEMMA AppendStep ==
  ASSUME OverlayInv, NEW c \in OverlayWrites, AppendChange(c)
  PROVE  OverlayInv'
<1> USE OverlayAssumption DEF AppendChange
<1> DEFINE n == Len(log.frames)
<1>1. /\ c \in Changes /\ n \in Nat /\ Len(log'.frames) = n + 1
      /\ log'.frames[n + 1] = c /\ \A k \in 1 .. n : log'.frames[k] = log.frames[k]
      /\ log'.file = log.file /\ log'.generation = log.generation
      /\ log' \in Logs
  <2>1. c \in Changes /\ log \in Logs /\ log.frames \in Seq(Changes) /\ n \in Nat
    BY DEF OverlayInv, OverlayTypeOK, Logs
  <2> DEFINE fs == Append(log.frames, c)
  <2>2. /\ fs \in Seq(Changes) /\ Len(fs) = n + 1
        /\ fs[n + 1] = c /\ \A k \in 1 .. n : fs[k] = log.frames[k]
    BY <2>1
  <2>3. log' = [log EXCEPT !.frames = fs]
    OBVIOUS
  <2> HIDE DEF fs
  <2>4. log'.frames = fs /\ log'.file = log.file /\ log'.generation = log.generation
        /\ log' \in Logs
    BY <2>1, <2>2, <2>3 DEF Logs
  <2> QED BY <2>1, <2>2, <2>4
<1>2. /\ meaning' \in [0 .. n + 1 -> Indexes]
      /\ \A k \in 0 .. n : meaning'[k] = meaning[k]
      /\ meaning'[n + 1] = Effect(meaning[n], c)
  <2>1. /\ meaning \in [0 .. n -> Indexes] /\ n \in Nat
        /\ Effect(meaning[n], c) \in Indexes
    <3>1. meaning \in [0 .. n -> Indexes] /\ n \in Nat
      BY <1>1 DEF OverlayInv, OverlayTypeOK
    <3>2. meaning[n] \in Indexes
      BY <3>1
    <3> QED BY <1>1, <3>1, <3>2, EffectType
  <2>2. meaning' = [k \in 0 .. n + 1 |-> IF k <= n THEN meaning[k]
                                                 ELSE Effect(meaning[n], c)]
    OBVIOUS
  <2> HIDE DEF n, AppendChange
  <2> QED BY <2>1, <2>2
<1>3. OverlayTypeOK'
  BY <1>1, <1>2 DEF OverlayInv, OverlayTypeOK, Logs
<1>4. ASSUME NEW d \in Caches, TrueOfLog(d) PROVE TrueAt(d, log', base', meaning')
  BY <1>1, <1>2, <1>4 DEF TrueOfLog, TrueAt, Caches
<1>5. TrueOfLog(cache)' /\ TrueOfLog(synced)'
  BY <1>4 DEF OverlayInv, OverlayTypeOK, TrueOfLog
<1>6. MeaningIsReplay'
  BY <1>1, <1>2 DEF OverlayInv, MeaningIsReplay
<1>7. TxInv'
  BY <1>1, <1>2 DEF OverlayInv, OverlayTypeOK, TxInv, Caches, Tables
<1>8. TxAdds'
  <2>1. Batch(cache.at, tx.at)' = Batch(cache.at, tx.at)
    BY SMTT(60), <1>1 DEF Batch, OverlayInv, OverlayTypeOK, Caches
  <2> QED BY <2>1 DEF OverlayInv, TxAdds, NoFolderIn, Said
<1>9. FilterInv'
  BY DEF OverlayInv, FilterInv
<1> QED BY <1>3, <1>5, <1>6, <1>7, <1>8, <1>9 DEF OverlayInv

LEMMA ApplyStep == OverlayInv /\ ApplyInTransaction => OverlayInv'
<1> SUFFICES ASSUME OverlayInv, ApplyInTransaction PROVE OverlayInv'
  OBVIOUS
<1> USE DEF ApplyInTransaction
<1> DEFINE c == log.frames[tx.at + 1]
           n == ApplyOne(tx, c)
<1>1. /\ tx \in Tables /\ tx.at \in Nat /\ tx.at + 1 \in 1 .. Len(log.frames)
      /\ c \in Changes /\ cache.at \in Nat /\ cache.at <= tx.at
  BY DEF OverlayInv, OverlayTypeOK, Tables, Caches, TxInv
<1>2. /\ n \in Tables /\ n.at = tx.at
      /\ tx' \in Tables /\ tx'.at = tx.at + 1
      /\ tx'.rows = n.rows /\ tx'.prefixes = n.prefixes
  <2>1. n \in Tables /\ n.at = tx.at
    BY <1>1, ApplyType
  <2> QED BY <1>1, <2>1 DEF Tables
<1>3. Seen(base, tx') = meaning[tx.at + 1]
  <2>1. Seen(base, tx') = Seen(base, n)
    BY <1>2, SeenSame
  <2>2. Seen(base, n) = Effect(Seen(base, tx), c)
    BY <1>1, ApplyCorrect DEF OverlayInv, OverlayTypeOK
  <2>3. Seen(base, tx) = meaning[tx.at]
    BY DEF OverlayInv, TxInv
  <2>4. meaning[tx.at + 1] = Effect(meaning[tx.at], c)
    BY <1>1 DEF OverlayInv, MeaningIsReplay
  <2> QED BY <2>1, <2>2, <2>3, <2>4
<1>4. OverlayTypeOK' /\ TrueOfLog(cache)' /\ TrueOfLog(synced)' /\ MeaningIsReplay' /\ FilterInv'
  BY <1>2 DEF OverlayInv, OverlayTypeOK, TrueOfLog, TrueAt, MeaningIsReplay, FilterInv
<1>5. TxInv'
  BY <1>1, <1>2, <1>3 DEF OverlayInv, TxInv
<1>6. TxAdds'
  <2> SUFFICES ASSUME NoFolderIn(cache.at, tx.at)'
               PROVE  /\ tx'.prefixes = cache.prefixes
                      /\ Said(tx') = Said(cache) \cup {d.path : d \in Batch(cache.at, tx.at)'}
    BY DEF TxAdds, Said
  <2>1. Batch(cache.at, tx.at)' = Batch(cache.at, tx.at) \cup {c}
    BY <1>1, <1>2 DEF Batch
  <2>2. c.kind # "prefix" /\ NoFolderIn(cache.at, tx.at)
    BY <2>1 DEF NoFolderIn
  <2>3. tx.prefixes = cache.prefixes
        /\ Said(tx) = Said(cache) \cup {d.path : d \in Batch(cache.at, tx.at)}
    BY <2>2 DEF OverlayInv, TxAdds
  <2> DEFINE v == IF c.kind = "upsert" THEN c.record ELSE Nothing
  <2>4. c.path \in Paths /\ v # Unsaid
    BY <1>1, RecordsAssumption DEF Changes, Nothing, Unsaid
  <2>5. n.prefixes = tx.prefixes /\ n.rows = [tx.rows EXCEPT ![c.path] = v]
    BY SMTT(60), <1>1, <2>2 DEF ApplyOne, Tables
  <2>6. Said(tx') = Said(tx) \cup {c.path}
    BY <1>1, <1>2, <2>4, <2>5 DEF Said, Tables
  <2> QED BY <1>2, <2>1, <2>3, <2>5, <2>6
<1> QED BY <1>4, <1>5, <1>6 DEF OverlayInv

LEMMA CommitStep == OverlayInv /\ CommitTransaction => OverlayInv'
<1> SUFFICES ASSUME OverlayInv, CommitTransaction PROVE OverlayInv'
  OBVIOUS
<1> USE DEF CommitTransaction
<1>1. /\ cache \in Caches /\ tx \in Tables /\ owner \in {"open", "replaying"}
      /\ cache.at \in Nat /\ tx.at \in Nat /\ cache.at < tx.at /\ tx.at <= Len(log.frames)
      /\ cache.generation = log.generation /\ cache.file = log.file
  BY DEF OverlayInv, OverlayTypeOK, TxInv, Caches, Tables
<1>2. /\ cache' \in Caches /\ cache'.rows = tx.rows /\ cache'.prefixes = tx.prefixes
      /\ cache'.at = tx.at /\ cache'.file = cache.file
      /\ cache'.generation = cache.generation
  BY <1>1 DEF Caches, Tables
<1>3. Seen(base, cache') = meaning[tx.at] /\ Said(cache') = Said(tx)
  BY ZenonT(60), <1>1, <1>2, SeenSame DEF OverlayInv, TxInv
<1>4. \A d \in Batch(cache.at, tx.at) : d.path \in Paths
  BY <1>1 DEF Batch, OverlayInv, OverlayTypeOK, Changes
<1>5. OverlayTypeOK'
  BY SMTT(60), <1>1, <1>2, <1>4 DEF OverlayInv, OverlayTypeOK, FilterAfter, NoFilter
<1>6. TrueOfLog(cache)' /\ TrueOfLog(synced)'
  BY <1>1, <1>2, <1>3 DEF OverlayInv, TrueOfLog, TrueAt
<1>7. MeaningIsReplay' /\ TxInv'
  BY <1>1, <1>2 DEF OverlayInv, MeaningIsReplay, TxInv
<1>8. TxAdds'
  <2>1. Batch(cache.at, tx.at)' = {}
    BY <1>1, <1>2 DEF Batch
  <2>2. Said(tx)' = Said(cache)' /\ (tx.prefixes = cache.prefixes)'
    BY <1>2, <1>3 DEF Said
  <2> QED BY <2>1, <2>2 DEF TxAdds
<1>9. FilterInv'
  <2> SUFFICES ASSUME filter'.loaded PROVE filter' = FilterOf(cache')
    BY DEF FilterInv, FilterOf
  <2> DEFINE batch == Batch(cache.at, tx.at)
  <2>1. /\ filter.loaded /\ NoFolderIn(cache.at, tx.at)
        /\ filter' = [filter EXCEPT !.exact = @ \cup {d.path : d \in batch}]
    BY DEF FilterAfter, NoFilter, NoFolderIn
  <2>2. filter = FilterOf(cache)
    BY <2>1 DEF OverlayInv, FilterInv
  <2>3. filter' = [loaded |-> TRUE, exact |-> Said(cache) \cup {d.path : d \in batch},
                   prefixes |-> cache.prefixes]
    BY <2>1, <2>2 DEF FilterOf, Said
  <2>4. tx.prefixes = cache.prefixes /\ Said(tx) = Said(cache) \cup {d.path : d \in batch}
    BY <1>1, <2>1 DEF OverlayInv, TxAdds
  <2> QED BY <1>2, <1>3, <2>3, <2>4 DEF FilterOf, Said
<1> QED BY <1>5, <1>6, <1>7, <1>8, <1>9 DEF OverlayInv

\* Steps that change neither the log nor the committed cache.
LEMMA QuietStep ==
  OverlayInv /\ (ReplayDone \/ ApplyFails \/ LoadFilter \/ SyncCache) => OverlayInv'
<1> SUFFICES ASSUME OverlayInv, ReplayDone \/ ApplyFails \/ LoadFilter \/ SyncCache
             PROVE  OverlayInv'
  OBVIOUS
<1>1. UNCHANGED <<base, log, meaning, cache>> /\ synced' \in {synced, cache}
  BY DEF ReplayDone, ApplyFails, LoadFilter, SyncCache
<1>2. /\ tx' \in Tables /\ owner' \in {"open", "replaying", "stale", owner}
      /\ filter' \in {filter, FilterOf(cache)}
      /\ owner' \in {"open", "replaying"} => owner \in {"open", "replaying"} /\ tx' = tx
  BY DEF OverlayInv, OverlayTypeOK, Tables, Caches, ReplayDone, ApplyFails, LoadFilter, SyncCache
<1>3. OverlayTypeOK'
  <2>1. FilterOf(cache) \in [loaded : BOOLEAN, exact : SUBSET Paths, prefixes : SUBSET Paths]
    BY DEF OverlayInv, OverlayTypeOK, Caches, FilterOf
  <2> QED BY <1>1, <1>2, <2>1 DEF OverlayInv, OverlayTypeOK
<1>4. TrueOfLog(cache)' /\ TrueOfLog(synced)' /\ MeaningIsReplay'
  BY <1>1 DEF OverlayInv, TrueOfLog, TrueAt, MeaningIsReplay
<1>5. TxInv' /\ TxAdds'
  <2>1. CASE owner' \in {"open", "replaying"}
    BY <2>1, <1>1, <1>2 DEF OverlayInv, TxInv, TxAdds, NoFolderIn, Batch, Said
  <2>2. CASE owner' \notin {"open", "replaying"}
    BY <2>2 DEF TxInv, TxAdds
  <2> QED BY <2>1, <2>2
<1>6. FilterInv'
  BY <1>1, <1>2 DEF OverlayInv, FilterInv
<1> QED BY <1>3, <1>4, <1>5, <1>6 DEF OverlayInv

LEMMA StopStep == OverlayInv /\ (ProcessStops \/ PowerFails) => OverlayInv'
<1> SUFFICES ASSUME OverlayInv, NEW left \in {cache, synced}, Stops(left) PROVE OverlayInv'
  BY DEF ProcessStops, PowerFails
<1> USE DEF Stops
<1>0. /\ tx' \in Tables /\ cache' \in Caches /\ filter' = NoFilter /\ owner' = "closed"
      /\ UNCHANGED <<base, log, meaning, synced>>
  BY DEF NoRows, Tables, OverlayInv, OverlayTypeOK
<1>1. OverlayTypeOK'
  <2> HIDE DEF Stops
  <2> QED BY <1>0 DEF OverlayInv, OverlayTypeOK, NoFilter
<1>2. TrueOfLog(cache)' /\ TrueOfLog(synced)' /\ MeaningIsReplay'
  BY DEF OverlayInv, TrueOfLog, TrueAt, MeaningIsReplay
<1>3. TxInv' /\ TxAdds' /\ FilterInv'
  BY DEF TxInv, TxAdds, FilterInv, NoFilter
<1> QED BY <1>1, <1>2, <1>3 DEF OverlayInv

LEMMA ResetStep == OverlayInv /\ ResetLog => OverlayInv'
<1> SUFFICES ASSUME OverlayInv, ResetLog PROVE OverlayInv'
  OBVIOUS
<1> USE DEF ResetLog, Settled
<1>1. /\ Len(log.frames) \in Nat /\ base' \in Indexes
      /\ log'.frames = <<>> /\ log'.generation = log.generation + 1 /\ log'.file = log.file
      /\ log' \in Logs
  <2>1. log \in Logs /\ log.frames \in Seq(Changes) /\ Len(log.frames) \in Nat
    BY DEF OverlayInv, OverlayTypeOK, Logs
  <2>2. meaning[Len(log.frames)] \in Indexes
    BY <2>1 DEF OverlayInv, OverlayTypeOK
  <2>3. log' = [log EXCEPT !.generation = log.generation + 1, !.frames = <<>>]
        /\ base' = meaning[Len(log.frames)]
    OBVIOUS
  <2>4. <<>> \in Seq(Changes)
    OBVIOUS
  <2> HIDE DEF ResetLog, Settled
  <2>5. /\ log'.frames = <<>> /\ log'.generation = log.generation + 1
        /\ log'.file = log.file /\ log' \in Logs
    <3> DEFINE g == log.generation + 1
               l == [log EXCEPT !.generation = g, !.frames = <<>>]
    <3>1. log \in [file : Nat, generation : Nat, frames : Seq(Changes)] /\ g \in Nat
      BY <2>1 DEF Logs
    <3> HIDE DEF g
    <3>2. l.frames = <<>> /\ l.generation = g /\ l.file = log.file
      BY <3>1
    <3>3. l \in [file : Nat, generation : Nat, frames : Seq(Changes)]
      BY <3>1, <2>4
    <3> QED BY <2>3, <3>2, <3>3 DEF Logs, g
  <2> QED BY <2>1, <2>2, <2>3, <2>5
<1>2. OverlayTypeOK' /\ MeaningIsReplay'
  BY <1>1 DEF OverlayInv, OverlayTypeOK, MeaningIsReplay, Logs
<1>3. TrueOfLog(cache)' /\ TrueOfLog(synced)'
  BY <1>1 DEF OverlayInv, OverlayTypeOK, TrueOfLog, TrueAt, Caches
<1>4. TxInv' /\ TxAdds' /\ FilterInv'
  BY DEF TxInv, TxAdds, OverlayInv, FilterInv
<1> QED BY <1>2, <1>3, <1>4 DEF OverlayInv

LEMMA ClearStep == OverlayInv /\ ClearAfterReset => OverlayInv'
<1> SUFFICES ASSUME OverlayInv, ClearAfterReset PROVE OverlayInv'
  OBVIOUS
<1> USE DEF ClearAfterReset
<1>1. /\ log \in Logs /\ Len(log.frames) \in Nat /\ base \in Indexes /\ meaning[0] = base
      /\ owner' = "open" /\ filter' = NoFilter /\ cache' = NewCache(log)
      /\ UNCHANGED <<base, log, meaning, synced>>
  BY DEF OverlayInv, OverlayTypeOK, Logs, MeaningIsReplay
<1>2. /\ cache' \in Caches /\ cache'.at = 0 /\ cache'.file = log.file
      /\ cache'.generation = log.generation /\ cache'.rows = NoRows /\ cache'.prefixes = {}
  BY <1>1, NewCacheType DEF Logs
<1>3. tx' \in Tables /\ tx'.at = 0 /\ tx'.rows = NoRows /\ tx'.prefixes = {}
  BY DEF Tables, NoRows
<1>4. Seen(base, cache') = base /\ Seen(base, tx') = base /\ Said(cache') = Said(tx')
  BY <1>1, <1>2, <1>3, EmptyTables, SeenSame
<1>5. OverlayTypeOK'
  BY <1>1, <1>2, <1>3 DEF OverlayInv, OverlayTypeOK, NoFilter
<1>6. TrueOfLog(cache)' /\ TrueOfLog(synced)' /\ MeaningIsReplay'
  <2> HIDE DEF ClearAfterReset
  <2>1. TrueAt(cache', log, base, meaning)
    BY <1>1, <1>2, <1>4 DEF TrueAt, Logs
  <2>2. TrueAt(synced, log, base, meaning) /\ MeaningIsReplay
    BY DEF OverlayInv, TrueOfLog
  <2> QED BY <1>1, <2>1, <2>2 DEF TrueOfLog, TrueAt, MeaningIsReplay
<1>7. TxInv'
  BY <1>1, <1>2, <1>3, <1>4 DEF TxInv
<1>8. TxAdds'
  <2>1. Batch(cache.at, tx.at)' = {}
    BY <1>2, <1>3 DEF Batch
  <2> QED BY <2>1, <1>2, <1>3, <1>4 DEF TxAdds, Said
<1>9. FilterInv'
  BY <1>1 DEF FilterInv, NoFilter
<1> QED BY <1>5, <1>6, <1>7, <1>8, <1>9 DEF OverlayInv

LEMMA TailStep ==
  ASSUME OverlayInv, NEW frozen \in 0 .. Len(log.frames), InstallTail(frozen)
  PROVE  OverlayInv'
<1> DEFINE n == Len(log.frames)
           tail == SubSeq(log.frames, frozen + 1, n)
           l == [file |-> log.file + 1, generation |-> log.generation + 1, frames |-> tail]
<1>1. log \in Logs /\ n \in Nat /\ frozen \in Nat /\ frozen <= n
  BY DEF OverlayInv, OverlayTypeOK, Logs
<1>2. /\ tail \in Seq(Changes) /\ Len(tail) = n - frozen
      /\ \A k \in 1 .. n - frozen : tail[k] = log.frames[frozen + k]
  BY <1>1 DEF Logs
<1>3. /\ base' = meaning[frozen] /\ log' = l /\ owner' = "installed"
      /\ UNCHANGED <<cache, synced, tx, filter>>
      /\ meaning' = [k \in 0 .. Len(tail) |-> meaning[frozen + k]]
  BY DEF InstallTail, CopyTail
<1> HIDE DEF tail
<1>4. l \in Logs /\ l.frames = tail /\ l.generation = log.generation + 1
  BY <1>1, <1>2 DEF Logs
<1>5. base' \in Indexes /\ meaning' \in [0 .. Len(l.frames) -> Indexes]
  <2>1. meaning \in [0 .. n -> Indexes]
    BY DEF OverlayInv, OverlayTypeOK
  <2>2. \A k \in 0 .. n - frozen : frozen + k \in 0 .. n
    BY <1>1
  <2> HIDE DEF n, l
  <2> QED BY <1>1, <1>2, <1>3, <1>4, <2>1, <2>2
<1>6. MeaningIsReplay'
  <2>1. meaning'[0] = base'
    BY <1>1, <1>2, <1>3
  <2>2. ASSUME NEW k \in 0 .. Len(tail) - 1
        PROVE  meaning'[k + 1] = Effect(meaning'[k], tail[k + 1])
    <3>1. frozen + k \in 0 .. n - 1 /\ frozen + (k + 1) = (frozen + k) + 1
      BY <1>1, <1>2
    <3>2. meaning[(frozen + k) + 1] = Effect(meaning[frozen + k], log.frames[(frozen + k) + 1])
      BY <3>1 DEF OverlayInv, MeaningIsReplay
    <3>3. tail[k + 1] = log.frames[(frozen + k) + 1]
      <4>1. k + 1 \in 1 .. n - frozen
        <5> HIDE DEF n
        <5> QED BY <1>1, <1>2
      <4>2. tail[k + 1] = log.frames[frozen + (k + 1)]
        <5> HIDE DEF n
        <5> QED BY <1>2, <4>1
      <4> QED BY <3>1, <4>2
    <3> QED BY <1>2, <1>3, <3>1, <3>2, <3>3
  <2> QED BY <2>1, <2>2, <1>3, <1>4 DEF MeaningIsReplay
<1>7. TrueAt(cache, l, base', meaning') /\ TrueAt(synced, l, base', meaning')
  BY SMTT(60), <1>1, <1>4 DEF OverlayInv, OverlayTypeOK, TrueOfLog, TrueAt, Caches, Logs
<1> HIDE DEF l
<1>8. OverlayTypeOK'
  BY <1>3, <1>4, <1>5 DEF OverlayInv, OverlayTypeOK, Logs
<1>9. TrueOfLog(cache)' /\ TrueOfLog(synced)'
  BY <1>3, <1>7 DEF TrueOfLog
<1>10. TxInv' /\ TxAdds' /\ FilterInv'
  BY <1>3 DEF OverlayInv, TxInv, TxAdds, FilterInv, FilterOf
<1> QED BY <1>6, <1>8, <1>9, <1>10 DEF OverlayInv
-----------------------------------------------------------------------------
LEMMA OverlayNextInv == OverlayInv /\ [OverlayNext]_overlayVars => OverlayInv'
<1> SUFFICES ASSUME OverlayInv, [OverlayNext]_overlayVars PROVE OverlayInv'
  OBVIOUS
<1>1. ASSUME NEW c \in OverlayWrites, AppendChange(c) PROVE OverlayInv'
  BY <1>1, AppendStep
<1>2. ASSUME NEW frozen \in 0 .. Len(log.frames), InstallTail(frozen) PROVE OverlayInv'
  BY <1>2, TailStep
<1>3. CASE UNCHANGED overlayVars
  BY <1>3 DEF overlayVars, OverlayInv, OverlayTypeOK, TrueOfLog, TrueAt, MeaningIsReplay, TxInv,
              TxAdds, FilterInv, NoFolderIn, Batch, Said
<1> QED
  BY <1>1, <1>2, <1>3, OpenStep, ApplyStep, CommitStep, QuietStep, StopStep, ResetStep,
     ClearStep DEF OverlayNext

(* Every reachable state has the declared types. *)
THEOREM OverlayTypes == OverlaySpec => []OverlayTypeOK
<1>1. OverlayInv => OverlayTypeOK
  BY DEF OverlayInv
<1> QED BY <1>1, OverlayInitInv, OverlayNextInv, PTL DEF OverlaySpec

(* Whatever was appended, rolled back, lost or replayed, an open and idle     *)
(* overlay answers exactly what the base and the log mean.                    *)
THEOREM OverlayTrue == OverlaySpec => []OpenMeansLog
<1>1. OverlayInv => OpenMeansLog
  BY DEF OverlayInv, OpenMeansLog, Settled, TxInv, TrueOfLog, TrueAt
<1> QED BY <1>1, OverlayInitInv, OverlayNextInv, PTL DEF OverlaySpec

(* The filter in memory and the tables hide the same base records.            *)
THEOREM FilterTrue == OverlaySpec => []FilterIsExact
<1>1. OverlayInv => FilterIsExact
  BY DEF OverlayInv, FilterInv, FilterIsExact, FilterOf, FilterShadows, Shadows, Covered
<1> QED BY <1>1, OverlayInitInv, OverlayNextInv, PTL DEF OverlaySpec

(* Folding the log into a new base, in place or beside the writer, leaves the *)
(* index as it was.                                                           *)
THEOREM CompactionIsSilent == OverlaySpec => CompactionKeepsIndex
<1> DEFINE Kept == meaning'[Len(log'.frames)] = meaning[Len(log.frames)]
           Silent == log'.generation # log.generation => Kept /\ MeaningIsReplay'
<1>1. ASSUME OverlayInv, [OverlayNext]_overlayVars PROVE [Silent]_overlayVars
  <2>0. Len(log.frames) \in Nat /\ log.frames \in Seq(Changes)
    BY <1>1 DEF OverlayInv, OverlayTypeOK
  <2>1. ASSUME ResetLog PROVE Kept
    <3>1. log'.frames = <<>> /\ meaning'[0] = meaning[Len(log.frames)]
      BY <2>1, <1>1 DEF ResetLog, OverlayInv, OverlayTypeOK
    <3> QED BY <3>1
  <2>2. ASSUME NEW frozen \in 0 .. Len(log.frames), InstallTail(frozen) PROVE Kept
    <3> DEFINE tail == SubSeq(log.frames, frozen + 1, Len(log.frames))
    <3>1. Len(tail) = Len(log.frames) - frozen
      BY <2>0
    <3>2. log'.frames = tail /\ meaning' = [k \in 0 .. Len(tail) |-> meaning[frozen + k]]
      BY <2>2 DEF InstallTail, CopyTail
    <3> HIDE DEF tail
    <3>3. meaning'[Len(tail)] = meaning[frozen + (Len(log.frames) - frozen)]
      BY <2>0, <3>1, <3>2
    <3> QED BY <2>0, <3>2, <3>3
  <2>3. ~ResetLog /\ ~(\E frozen \in 0 .. Len(log.frames) : InstallTail(frozen))
          /\ OverlayNext => log'.generation = log.generation
    <3>1. \A c \in OverlayWrites : AppendChange(c) => log'.generation = log.generation
      BY <1>1 DEF AppendChange, OverlayInv, OverlayTypeOK
    <3> QED
      BY <3>1 DEF OverlayNext, OpenLog, RestoreTail, ApplyInTransaction, CommitTransaction, ReplayDone,
           ApplyFails, LoadFilter, ClearAfterReset, SyncCache, ProcessStops, PowerFails, Stops
  <2>4. MeaningIsReplay'
    BY <1>1, OverlayNextInv DEF OverlayInv
  <2> QED BY <1>1, <2>1, <2>2, <2>3, <2>4 DEF overlayVars
<1> QED
  BY <1>1, OverlayInitInv, OverlayNextInv, PTL DEF OverlaySpec, CompactionKeepsIndex
-----------------------------------------------------------------------------
(***************************************************************************)
(* Proofs about the readers of the index, for every set of paths, records, *)
(* builders and readers and every bound.                                   *)
(*                                                                         *)
(* OverlayReaders: a log that is never truncated in place only grows while *)
(* it has its name and is frozen when it is renamed over, so for the file  *)
(* a reader has open there is one story m: m[k] is the index after its     *)
(* first k frames.  Whatever cache claims to be of that file and its       *)
(* generation says m[at], and every m[k] from the length the reader took   *)
(* on is an index that was true since the reader began.                    *)
(*                                                                         *)
(* CatalogBuild: an answer is bound to the blocks the reader opened, and   *)
(* its columns were compared with them; a tombstone is only ever looked up *)
(* in the base the catalog addresses.                                      *)
(***************************************************************************)

Private == {"opened", "seeded", "checked", "replaying", "serving"}
Shared == {"sharing", "begun", "shared"}
Resolving == {"checked", "replaying", "serving"}
Measured == Resolving \cup Shared

Readers == [step : {"idle", "based"} \cup Private \cup Shared, base : Indexes,
            generation : Nat, file : Nat, bytes : Nat, tables : Caches,
            allowed : SUBSET Indexes]

ReadersTyped ==
  /\ reader \in Readers
  /\ \A f \in DOMAIN held : held[f] \in Logs /\ held[f].file = f /\ f < log.file

\* The log the reader has open.
Opened == Content(reader.file)

\* m[k] is the index after the first k frames of l over the base b.
Story(m, l, b) ==
  /\ m \in [0 .. Len(l.frames) -> Indexes] /\ m[0] = b
  /\ \A k \in 0 .. Len(l.frames) - 1 : m[k + 1] = Effect(m[k], l.frames[k + 1])

\* A cache that says it is of this log tells its story.
Tells(c, l, b, m) ==
  c.generation = l.generation /\ c.file = l.file =>
    c.at <= Len(l.frames) /\ Seen(b, c) = m[c.at]

\* The length from which on every index of the story is an allowed answer.
AllowedFrom(r, l) == IF r.step \in Measured THEN r.bytes ELSE Len(l.frames)

ReaderAt(r, l, m) ==
  /\ r.step \in {"seeded", "begun"} => Tells(r.tables, l, r.base, m)
  /\ r.step \in Measured => r.bytes <= Len(l.frames)
  /\ r.step \in Resolving => r.tables.at <= r.bytes /\ Seen(r.base, r.tables) = m[r.tables.at]
  /\ \A k \in AllowedFrom(r, l) .. Len(l.frames) : m[k] \in r.allowed

\* What is true of the story m of the log l, for a reader r and the caches.
Known(r, l, c, s, m) ==
  /\ Story(m, l, r.base)
  /\ ReaderAt(r, l, m)
  /\ Tells(c, l, r.base, m) /\ Tells(s, l, r.base, m)

BaseForm ==
  reader.step # "idle" =>
    /\ Index \in reader.allowed /\ reader.generation <= log.generation
    /\ reader.generation = log.generation => reader.base = base

OpenForm ==
  reader.step \in Private \cup Shared =>
    /\ reader.file # log.file => reader.file \in DOMAIN held
    /\ reader.step \in Measured => Opened.generation = reader.generation
    /\ Opened.generation = reader.generation =>
         \E m : /\ reader.file = log.file => m = meaning
                /\ Known(reader, Opened, cache, synced, m)

ReaderInv == OverlayInv /\ ReadersTyped /\ BaseForm /\ OpenForm /\ ReaderCoherent
-----------------------------------------------------------------------------
(* What a replay does. *)

Replayed(t, c) == [ApplyOne(t, c) EXCEPT !.at = @ + 1]

\* One frame more, applied to tables that show an index, shows its effect.
LEMMA ReplayOne ==
  ASSUME NEW b \in Indexes, NEW t \in Caches, NEW c \in Changes, NEW n, n = Replayed(t, c)
  PROVE  /\ n \in Caches /\ n.at = t.at + 1
         /\ n.file = t.file /\ n.generation = t.generation
         /\ Seen(b, n) = Effect(Seen(b, t), c)
<1> DEFINE o == [rows |-> t.rows, prefixes |-> t.prefixes, at |-> t.at]
<1>1. o \in Tables /\ o.rows = t.rows /\ o.prefixes = t.prefixes
  BY DEF Tables, Caches
<1>2. ApplyOne(o, c) \in Tables /\ Seen(b, ApplyOne(o, c)) = Effect(Seen(b, o), c)
  BY <1>1, ApplyType, ApplyCorrect
<1>3. /\ ApplyOne(t, c) \in Caches /\ ApplyOne(t, c).at = t.at
      /\ ApplyOne(t, c).file = t.file /\ ApplyOne(t, c).generation = t.generation
      /\ ApplyOne(t, c).rows = ApplyOne(o, c).rows
      /\ ApplyOne(t, c).prefixes = ApplyOne(o, c).prefixes
  <2>1. CASE c.kind = "prefix"
    <3>1. c.path \in Paths
      BY DEF Changes
    <3>2. ApplyOne(t, c) = RemoveFolder(t, c.path) /\ ApplyOne(o, c) = RemoveFolder(o, c.path)
      BY <2>1 DEF ApplyOne
    <3> DEFINE R == [p \in Paths |-> IF p \in AtOrBelow(c.path) THEN Unsaid ELSE t.rows[p]]
               kept == t.prefixes \ AtOrBelow(c.path)
               P == IF Ancestors(c.path) \cap kept # {} THEN kept ELSE kept \cup {c.path}
    <3>3. /\ RemoveFolder(t, c.path) = [t EXCEPT !.rows = R, !.prefixes = P]
          /\ RemoveFolder(o, c.path) = [o EXCEPT !.rows = R, !.prefixes = P]
      BY <1>1 DEF RemoveFolder
    <3>4. R \in [Paths -> Records \cup {Nothing, Unsaid}] /\ P \in SUBSET Paths
      BY <3>1 DEF Caches
    <3> HIDE DEF R, P, o
    <3>5. ApplyOne(o, c).rows = R /\ ApplyOne(o, c).prefixes = P
      BY <1>1, <3>2, <3>3 DEF Tables
    <3>6. ApplyOne(t, c).rows = R /\ ApplyOne(t, c).prefixes = P
      BY <3>2, <3>3 DEF Caches
    <3>7. /\ ApplyOne(t, c) \in Caches /\ ApplyOne(t, c).at = t.at
          /\ ApplyOne(t, c).file = t.file /\ ApplyOne(t, c).generation = t.generation
      <4>1. ApplyOne(t, c) = [rows |-> R, prefixes |-> P, at |-> t.at, file |-> t.file,
                              generation |-> t.generation]
        BY <3>2, <3>3 DEF Caches
      <4>2. t.at \in Nat /\ t.file \in Nat /\ t.generation \in Nat
        BY DEF Caches
      <4> QED BY <3>4, <4>1, <4>2 DEF Caches
    <3> QED BY <3>5, <3>6, <3>7
  <2>2. CASE c.kind # "prefix"
    <3> DEFINE v == IF c.kind = "upsert" THEN c.record ELSE Nothing
    <3>1. c.path \in Paths /\ v \in Records \cup {Nothing, Unsaid}
      BY DEF Changes
    <3>2. /\ ApplyOne(t, c) = [t EXCEPT !.rows = [t.rows EXCEPT ![c.path] = v]]
          /\ ApplyOne(o, c) = [o EXCEPT !.rows = [o.rows EXCEPT ![c.path] = v]]
      BY <2>2 DEF ApplyOne
    <3> HIDE DEF v
    <3> QED BY <1>1, <3>1, <3>2 DEF Caches, Tables
  <2> QED BY <2>1, <2>2
<1>4. /\ n \in Caches /\ n.at = t.at + 1 /\ n.file = t.file /\ n.generation = t.generation
      /\ n.rows = ApplyOne(o, c).rows /\ n.prefixes = ApplyOne(o, c).prefixes
  <2> HIDE DEF o
  <2> QED BY <1>3 DEF Caches, Replayed
<1>5. Seen(b, n) = Seen(b, ApplyOne(o, c)) /\ Seen(b, t) = Seen(b, o)
  BY <1>1, <1>4, SeenSame
<1> QED BY <1>2, <1>4, <1>5

\* The log a reader has open is a log, under the name it was opened by.
LEMMA OpenedLog ==
  ASSUME OverlayTypeOK, ReadersTyped, reader.file # log.file => reader.file \in DOMAIN held
  PROVE  Opened \in Logs /\ Opened.file = reader.file
BY DEF Opened, Content, OverlayTypeOK, ReadersTyped, Logs
-----------------------------------------------------------------------------
(* The start. *)

LEMMA ReadersInitInv == ReadersInit => ReaderInv
<1> SUFFICES ASSUME ReadersInit PROVE ReaderInv
  OBVIOUS
<1>1. OverlayInv
  BY OverlayInitInv DEF ReadersInit
<1>2. log \in Logs /\ NewCache(log) \in Caches
  BY <1>1, NewCacheType DEF OverlayInv, OverlayTypeOK, Logs
<1>3. reader = Asleep /\ held = <<>>
  BY DEF ReadersInit
<1>4. reader.step = "idle" /\ ReadersTyped
  BY <1>2, <1>3, OverlayAssumption DEF ReadersTyped, Readers, Asleep
<1> QED BY <1>1, <1>4 DEF ReaderInv, BaseForm, OpenForm, ReaderCoherent, Private, Shared
-----------------------------------------------------------------------------
(* A step of the writer. *)

\* While its file keeps its name and generation a log only grows.
LEMMA LogGrows ==
  ASSUME OverlayInv, OverlayNext, log'.file = log.file, log'.generation = log.generation
  PROVE  /\ base' = base
         /\ Len(log.frames) <= Len(log'.frames) /\ Len(log'.frames) <= Len(log.frames) + 1
         /\ \A k \in 0 .. Len(log.frames) : meaning'[k] = meaning[k]
<1>1. log \in Logs /\ meaning \in [0 .. Len(log.frames) -> Indexes]
  BY DEF OverlayInv, OverlayTypeOK, Logs
<1>2. ASSUME NEW c \in OverlayWrites, AppendChange(c)
      PROVE  /\ base' = base /\ Len(log'.frames) = Len(log.frames) + 1
             /\ \A k \in 0 .. Len(log.frames) : meaning'[k] = meaning[k]
  <2>1. log' = [log EXCEPT !.frames = Append(log.frames, c)] /\ base' = base
    BY <1>2 DEF AppendChange
  <2>2. meaning' = [k \in 0 .. Len(log.frames) + 1 |->
                     IF k <= Len(log.frames) THEN meaning[k]
                     ELSE Effect(meaning[Len(log.frames)], c)]
    BY <1>2 DEF AppendChange
  <2>3. Len(log'.frames) = Len(log.frames) + 1
    BY <1>1, <2>1 DEF Logs
  <2>4. \A k \in 0 .. Len(log.frames) : k \in 0 .. Len(log.frames) + 1 /\ k <= Len(log.frames)
    BY <1>1 DEF Logs
  <2> QED BY <2>1, <2>2, <2>3, <2>4
<1>3. ~ResetLog
  <2>1. ResetLog => log' = [log EXCEPT !.generation = log.generation + 1, !.frames = <<>>]
    BY DEF ResetLog
  <2> QED BY <1>1, <2>1 DEF Logs
<1>4. ~ \E frozen \in 0 .. Len(log.frames) : InstallTail(frozen)
  BY <1>1 DEF InstallTail, Logs
<1>5. (~ \E c \in OverlayWrites : AppendChange(c)) => UNCHANGED <<base, log, meaning>>
  BY <1>3, <1>4 DEF OverlayNext, OpenLog, RestoreTail, ApplyInTransaction, CommitTransaction,
     ReplayDone, ApplyFails, LoadFilter, ClearAfterReset, SyncCache, ProcessStops, PowerFails, Stops
<1>6. Len(log.frames) \in Nat
  BY <1>1 DEF Logs
<1> QED BY <1>2, <1>5, <1>6

\* A log that gets another name is a new file of the next generation; the
\* caches are not touched by that.
LEMMA LogRenamed ==
  ASSUME OverlayInv, OverlayNext, log'.file # log.file
  PROVE  /\ log'.file = log.file + 1 /\ log'.generation = log.generation + 1
         /\ cache' = cache /\ synced' = synced
<1>1. log \in Logs
  BY DEF OverlayInv, OverlayTypeOK, Logs
<1>2. \A c \in OverlayWrites : AppendChange(c) => log'.file = log.file
  BY <1>1 DEF AppendChange, Logs
<1>3. ResetLog => log'.file = log.file
  BY <1>1 DEF ResetLog, Logs
<1>4. \E frozen \in 0 .. Len(log.frames) : InstallTail(frozen)
  BY <1>2, <1>3 DEF OverlayNext, OpenLog, RestoreTail, ApplyInTransaction, CommitTransaction,
     ReplayDone, ApplyFails, LoadFilter, ClearAfterReset, SyncCache, ProcessStops, PowerFails, Stops
<1> QED BY <1>4 DEF InstallTail

\* A cache that changes is of the log as it is, or was the synced one.
LEMMA CachesMove ==
  ASSUME OverlayInv, OverlayNext
  PROVE  /\ cache' = cache \/ cache' = synced \/ cache'.file = log'.file
         /\ synced' = synced \/ synced' = cache
<1>1. log \in Logs /\ cache \in Caches
  BY DEF OverlayInv, OverlayTypeOK, Logs
<1>2. ASSUME OpenLog \/ RestoreTail \/ ClearAfterReset
      PROVE  (cache' = cache \/ cache' = NewCache(log)) /\ log' = log /\ synced' = synced
  BY <1>2 DEF OpenLog, RestoreTail, ClearAfterReset, Restore
<1>3. NewCache(log).file = log.file
  BY DEF NewCache
<1>4. ASSUME CommitTransaction
      PROVE  cache'.file = log'.file /\ synced' = synced
  <2>1. cache' = [cache EXCEPT !.rows = tx.rows, !.prefixes = tx.prefixes, !.at = tx.at]
    BY <1>4 DEF CommitTransaction
  <2>2. cache.file = log.file /\ log' = log /\ synced' = synced
    BY <1>4 DEF CommitTransaction, OverlayInv, TxInv
  <2> QED BY <1>1, <2>1, <2>2 DEF Caches
<1>5. ASSUME ProcessStops \/ PowerFails \/ SyncCache
      PROVE  /\ cache' = cache \/ cache' = synced
             /\ synced' = synced \/ synced' = cache
  BY <1>5 DEF ProcessStops, PowerFails, Stops, SyncCache
<1>6. ASSUME NEW c \in OverlayWrites, AppendChange(c)
      PROVE  cache' = cache /\ synced' = synced
  BY <1>6 DEF AppendChange
<1>7. ASSUME NEW frozen \in 0 .. Len(log.frames), InstallTail(frozen)
      PROVE  cache' = cache /\ synced' = synced
  BY <1>7 DEF InstallTail
<1>8. ASSUME ApplyInTransaction \/ ReplayDone \/ ApplyFails \/ LoadFilter \/ ResetLog
      PROVE  cache' = cache /\ synced' = synced
  BY <1>8 DEF ApplyInTransaction, ReplayDone, ApplyFails, LoadFilter, ResetLog
<1> QED BY <1>2, <1>3, <1>4, <1>5, <1>6, <1>7, <1>8 DEF OverlayNext

\* What a step of the writer does to what the reader knows and may answer.
WriterMove ==
  /\ reader'.step = reader.step /\ reader'.base = reader.base
  /\ reader'.generation = reader.generation /\ reader'.file = reader.file
  /\ reader'.bytes = reader.bytes /\ reader'.tables = reader.tables
  /\ reader.allowed \subseteq reader'.allowed
  /\ reader.step # "idle" => Index' \in reader'.allowed
  /\ log'.file = log.file => held' = held /\ log'.generation = log.generation
  /\ log'.file # log.file =>
       /\ DOMAIN held' = DOMAIN held \cup {log.file} /\ held'[log.file] = log
       /\ \A f \in DOMAIN held : f # log.file => held'[f] = held[f]

LEMMA WriterMoves ==
  ASSUME InPlaceResets = FALSE, ReaderInv, WriterStep
  PROVE  OverlayInv' /\ ReadersTyped' /\ WriterMove
<1>1. OverlayInv'
  BY OverlayNextInv DEF ReaderInv, WriterStep
<1>2. OverlayInv /\ ReadersTyped /\ OverlayNext
  BY DEF ReaderInv, WriterStep
<1>3. log \in Logs /\ log' \in Logs /\ meaning' \in [0 .. Len(log'.frames) -> Indexes]
  BY <1>1, <1>2 DEF OverlayInv, OverlayTypeOK, Logs
<1>4. meaning'[Len(log'.frames)] \in Indexes
  <2>1. Len(log'.frames) \in Nat
    BY <1>3 DEF Logs
  <2>2. Len(log'.frames) \in 0 .. Len(log'.frames)
    BY <2>1
  <2> QED BY <1>3, <2>2
<1> DEFINE i == meaning'[Len(log'.frames)]
<1>5. /\ reader.step = "idle" => reader' = reader
      /\ reader.step # "idle" => reader' = [reader EXCEPT !.allowed = reader.allowed \cup {i}]
  BY DEF WriterStep
<1>6. /\ log'.file = log.file => held' = held /\ log'.generation = log.generation
      /\ log'.file # log.file =>
           held' = [f \in DOMAIN held \cup {log.file} |-> IF f = log.file THEN log ELSE held[f]]
  BY DEF WriterStep
<1>7. Index' = i
  BY DEF Index
<1> HIDE DEF i
<1>8. /\ reader'.step = reader.step /\ reader'.base = reader.base
      /\ reader'.generation = reader.generation /\ reader'.file = reader.file
      /\ reader'.bytes = reader.bytes /\ reader'.tables = reader.tables
      /\ reader.allowed \subseteq reader'.allowed
      /\ reader.step # "idle" => i \in reader'.allowed
      /\ reader' \in Readers
  <2>1. CASE reader.step = "idle"
    BY <2>1, <1>2, <1>5 DEF ReadersTyped
  <2>2. CASE reader.step # "idle"
    <3>1. i \in Indexes
      BY <1>4 DEF i
    <3> QED BY <2>2, <3>1, <1>2, <1>5 DEF ReadersTyped, Readers
  <2> QED BY <2>1, <2>2
<1>9. \A f \in DOMAIN held' : held'[f] \in Logs /\ held'[f].file = f /\ f < log'.file
  <2>1. CASE log'.file = log.file
    BY <2>1, <1>2, <1>6 DEF ReadersTyped
  <2>2. CASE log'.file # log.file
    <3>1. log'.file = log.file + 1
      BY <2>2, <1>2, LogRenamed
    <3>2. \A f \in DOMAIN held : held[f] \in Logs /\ held[f].file = f /\ f < log.file
      BY <1>2 DEF ReadersTyped
    <3>3. ASSUME NEW f \in DOMAIN held \cup {log.file}
          PROVE  held'[f] \in Logs /\ held'[f].file = f /\ f < log'.file
      <4>1. CASE f = log.file
        BY <4>1, <3>1, <2>2, <1>3, <1>6 DEF Logs
      <4>2. CASE f # log.file
        <5>1. held'[f] = held[f] /\ f \in DOMAIN held
          BY <4>2, <3>3, <2>2, <1>6
        <5>2. held[f].file \in Nat
          BY <5>1, <3>2 DEF Logs
        <5> QED BY <5>1, <5>2, <3>1, <3>2, <1>3 DEF Logs
      <4> QED BY <4>1, <4>2
    <3> QED BY <3>3, <2>2, <1>6
  <2> QED BY <2>1, <2>2
<1>10. ReadersTyped'
  BY <1>8, <1>9 DEF ReadersTyped
<1>11. log'.file # log.file =>
         /\ DOMAIN held' = DOMAIN held \cup {log.file} /\ held'[log.file] = log
         /\ \A f \in DOMAIN held : f # log.file => held'[f] = held[f]
  BY <1>6
<1> QED BY <1>1, <1>6, <1>7, <1>8, <1>10, <1>11 DEF WriterMove

\* More answers are allowed: what the reader knows stays true.
LEMMA MoreAllowed ==
  ASSUME NEW r, NEW q, NEW l, NEW m, ReaderAt(r, l, m),
         q.step = r.step, q.base = r.base, q.bytes = r.bytes, q.tables = r.tables,
         r.allowed \subseteq q.allowed
  PROVE  ReaderAt(q, l, m)
BY DEF ReaderAt, AllowedFrom

\* The log got one more frame: what the reader knows stays true of it.
LEMMA MoreFrames ==
  ASSUME NEW r, NEW q, NEW l \in Logs, NEW m, NEW k \in Logs, NEW n,
         m \in [0 .. Len(l.frames) -> Indexes],
         ReaderAt(r, l, m), r.bytes \in Nat, r.tables \in Caches,
         q.step = r.step, q.base = r.base, q.bytes = r.bytes, q.tables = r.tables,
         r.allowed \subseteq q.allowed,
         k.file = l.file, k.generation = l.generation,
         Len(l.frames) <= Len(k.frames), Len(k.frames) <= Len(l.frames) + 1,
         \A i \in 0 .. Len(l.frames) : n[i] = m[i],
         n[Len(k.frames)] \in q.allowed
  PROVE  ReaderAt(q, k, n)
<1> DEFINE L == Len(l.frames)
           K == Len(k.frames)
<1>1. L \in Nat /\ K \in Nat /\ L <= K /\ K <= L + 1
  BY DEF Logs
<1>2. \A i \in 0 .. L : n[i] = m[i]
  OBVIOUS
<1>3. r.step \in {"seeded", "begun"} => Tells(r.tables, k, r.base, n)
  <2>1. r.step \in {"seeded", "begun"} => Tells(r.tables, l, r.base, m)
    BY DEF ReaderAt
  <2>2. r.tables.at \in Nat
    BY DEF Caches
  <2> QED BY <1>1, <1>2, <2>1, <2>2 DEF Tells
<1>4. r.step \in Measured => r.bytes <= L
  BY DEF ReaderAt
<1>5. r.step \in Resolving =>
        r.tables.at <= r.bytes /\ Seen(r.base, r.tables) = n[r.tables.at]
  <2>1. r.step \in Resolving =>
          r.tables.at <= r.bytes /\ Seen(r.base, r.tables) = m[r.tables.at]
    BY DEF ReaderAt
  <2>2. r.tables.at \in Nat /\ (r.step \in Resolving => r.step \in Measured)
    BY DEF Caches, Measured
  <2>3. r.step \in Resolving => r.tables.at \in 0 .. L
    BY <1>1, <1>4, <2>1, <2>2
  <2> QED BY <1>2, <2>1, <2>3
<1>6. ASSUME NEW i \in AllowedFrom(q, k) .. K
      PROVE  n[i] \in q.allowed
  <2>1. i = K \/ i \in AllowedFrom(r, l) .. L
    BY <1>1 DEF AllowedFrom
  <2>2. i \in AllowedFrom(r, l) .. L => i \in 0 .. L /\ m[i] \in r.allowed
    BY <1>1 DEF AllowedFrom, ReaderAt
  <2> QED BY <2>1, <2>2, <1>2
<1> HIDE DEF L, K
<1>7. \A i \in AllowedFrom(q, k) .. K : n[i] \in q.allowed
  BY <1>6
<1> QED BY <1>1, <1>3, <1>4, <1>5, <1>7 DEF ReaderAt, L, K

\* A cache that told the story of a log no longer written still does.
LEMMA StillTells ==
  ASSUME OverlayInv, OverlayNext, NEW l, NEW b, NEW m, l.file # log'.file,
         Tells(cache, l, b, m), Tells(synced, l, b, m)
  PROVE  Tells(cache', l, b, m) /\ Tells(synced', l, b, m)
BY CachesMove DEF Tells

LEMMA WriterKeepsBase ==
  ASSUME ReaderInv, WriterStep, WriterMove, OverlayInv'
  PROVE  BaseForm'
<1>1. OverlayInv /\ OverlayNext /\ log \in Logs /\ reader.generation \in Nat
  BY DEF ReaderInv, WriterStep, OverlayInv, OverlayTypeOK, ReadersTyped, Readers, Logs
<1>2. CASE log'.file = log.file
  <2>1. base' = base /\ log'.generation = log.generation
    BY <1>1, <1>2, LogGrows DEF WriterMove
  <2> QED BY <2>1 DEF ReaderInv, BaseForm, WriterMove
<1>3. CASE log'.file # log.file
  <2>1. log'.generation = log.generation + 1 /\ log.generation \in Nat
    BY <1>1, <1>3, LogRenamed DEF Logs
  <2> QED BY <1>1, <2>1 DEF ReaderInv, BaseForm, WriterMove
<1> QED BY <1>2, <1>3

LEMMA WriterKeepsOpen ==
  ASSUME ReaderInv, WriterStep, WriterMove, OverlayInv', ReadersTyped'
  PROVE  OpenForm'
<1>0. reader'.step \in Private \cup Shared <=> reader.step \in Private \cup Shared
  BY DEF WriterMove
<1> SUFFICES ASSUME reader.step \in Private \cup Shared
    PROVE  /\ reader'.file # log'.file => reader'.file \in DOMAIN held'
           /\ reader'.step \in Measured => Opened'.generation = reader'.generation
           /\ Opened'.generation = reader'.generation =>
                \E m : /\ reader'.file = log'.file => m = meaning'
                       /\ Known(reader', Opened', cache', synced', m)
  BY <1>0 DEF OpenForm
<1>1. OverlayInv /\ OverlayNext /\ OverlayTypeOK /\ ReadersTyped /\ log \in Logs /\ log' \in Logs
  BY DEF ReaderInv, WriterStep, OverlayInv, OverlayTypeOK, Logs
<1>2. reader'.step # "idle" /\ reader.step # "idle"
  BY DEF WriterMove, Private, Shared
<1>3. /\ reader.file # log.file => reader.file \in DOMAIN held
      /\ reader.step \in Measured => Opened.generation = reader.generation
  BY DEF ReaderInv, OpenForm
<1>4. Opened \in Logs /\ Opened.file = reader.file
  BY <1>1, <1>3, OpenedLog
<1>5. CASE reader.file = log.file /\ log'.file = log.file
  <2>1. /\ Opened = log /\ Opened' = log' /\ log'.generation = log.generation
        /\ reader'.file = log'.file /\ reader'.generation = reader.generation
        /\ reader'.step = reader.step
    BY <1>5 DEF Opened, Content, WriterMove
  <2>2. ASSUME log'.generation = reader.generation
        PROVE  Known(reader', log', cache', synced', meaning')
    <3>1. Known(reader, log, cache, synced, meaning)
      BY <1>5, <2>1, <2>2 DEF ReaderInv, OpenForm
    <3>2. reader'.base = base' /\ reader'.base = reader.base
      BY <1>2, <2>1, <2>2, WriterKeepsBase DEF BaseForm, WriterMove
    <3>3. Story(meaning', log', reader'.base)
      BY <3>2 DEF Story, OverlayInv, OverlayTypeOK, MeaningIsReplay
    <3>4. /\ Tells(cache', log', reader'.base, meaning')
          /\ Tells(synced', log', reader'.base, meaning')
      BY <3>2 DEF Tells, OverlayInv, TrueOfLog, TrueAt
    <3>5. meaning \in [0 .. Len(log.frames) -> Indexes] /\ ReaderAt(reader, log, meaning)
      BY <3>1 DEF Known, Story
    <3>6. /\ reader'.step = reader.step /\ reader'.bytes = reader.bytes
          /\ reader'.tables = reader.tables /\ reader.allowed \subseteq reader'.allowed
          /\ meaning'[Len(log'.frames)] \in reader'.allowed
      BY <1>2 DEF WriterMove, Index
    <3>7. /\ Len(log.frames) <= Len(log'.frames) /\ Len(log'.frames) <= Len(log.frames) + 1
          /\ \A k \in 0 .. Len(log.frames) : meaning'[k] = meaning[k]
      BY <1>1, <1>5, <2>1, LogGrows
    <3>8. reader.bytes \in Nat /\ reader.tables \in Caches
      BY <1>1 DEF ReadersTyped, Readers
    <3>9. ReaderAt(reader', log', meaning')
      BY <1>1, <1>5, <2>1, <3>2, <3>5, <3>6, <3>7, <3>8, MoreFrames
    <3> QED BY <3>3, <3>4, <3>9 DEF Known
  <2> QED BY <1>3, <2>1, <2>2
<1>6. CASE reader.file = log.file => log'.file # log.file
  <2>1. Opened' = Opened /\ reader'.file # log'.file /\ reader'.file \in DOMAIN held'
    <3>1. CASE reader.file = log.file
      BY <1>6, <3>1 DEF Opened, Content, WriterMove
    <3>2. CASE reader.file # log.file
      <4>1. reader.file \in DOMAIN held /\ reader.file < log.file
        BY <1>1, <1>3, <3>2 DEF ReadersTyped
      <4>2. /\ log.file \in Nat /\ reader.file \in Nat
            /\ log'.file = log.file \/ log'.file = log.file + 1
        BY <1>1, LogRenamed DEF Logs, ReadersTyped, Readers
      <4>3. reader'.file = reader.file /\ reader'.file # log'.file
        BY <4>1, <4>2 DEF WriterMove
      <4>4. reader.file \in DOMAIN held' /\ held'[reader.file] = held[reader.file]
        BY <3>2, <4>1 DEF WriterMove
      <4> QED BY <3>2, <4>3, <4>4 DEF Opened, Content
    <3> QED BY <3>1, <3>2
  <2>2. ASSUME NEW m, Known(reader, Opened, cache, synced, m)
        PROVE  Known(reader', Opened', cache', synced', m)
    <3>1. reader'.base = reader.base
      BY DEF WriterMove
    <3>2. Opened.file # log'.file
      BY <1>4, <2>1 DEF WriterMove
    <3>3. Tells(cache', Opened, reader.base, m) /\ Tells(synced', Opened, reader.base, m)
      BY <1>1, <2>2, <3>2, StillTells DEF Known
    <3>4. ReaderAt(reader', Opened, m)
      BY <2>2, MoreAllowed DEF Known, WriterMove
    <3> QED BY <2>1, <2>2, <3>1, <3>3, <3>4 DEF Known
  <2>3. Opened.generation = reader.generation =>
          \E m : Known(reader, Opened, cache, synced, m)
    BY DEF ReaderInv, OpenForm
  <2>4. reader'.generation = reader.generation /\ reader'.step = reader.step
    BY DEF WriterMove
  <2> QED BY <1>3, <2>1, <2>2, <2>3, <2>4
<1> QED BY <1>5, <1>6

LEMMA WriterKeeps ==
  ASSUME InPlaceResets = FALSE, ReaderInv, WriterStep
  PROVE  ReaderInv'
<1>1. OverlayInv' /\ ReadersTyped' /\ WriterMove
  BY WriterMoves
<1>2. BaseForm' /\ OpenForm'
  BY <1>1, WriterKeepsBase, WriterKeepsOpen
<1>3. ReaderCoherent'
  BY <1>1 DEF ReaderInv, ReaderCoherent, WriterMove
<1> QED BY <1>1, <1>2, <1>3 DEF ReaderInv
-----------------------------------------------------------------------------
(* A step of the reader. *)

\* The writer's state and the frozen logs stay; the reader's is given.
LEMMA ReaderMoves ==
  ASSUME ReaderInv, UNCHANGED <<overlayVars, held>>, reader' \in Readers,
         BaseForm', OpenForm', ReaderCoherent'
  PROVE  ReaderInv'
<1>1. OverlayInv'
  BY OverlayNextInv DEF ReaderInv
<1>2. ReadersTyped'
  BY DEF ReaderInv, ReadersTyped, overlayVars
<1> QED BY <1>1, <1>2 DEF ReaderInv

\* The reader closes what it has.
LEMMA ReaderGivesUp ==
  ASSUME ReaderInv, GiveUp
  PROVE  ReaderInv'
<1>1. reader' = Asleep /\ UNCHANGED <<overlayVars, held>>
  BY DEF GiveUp, GoTo, Asleep
<1>2. log \in Logs /\ NewCache(log) \in Caches
  BY NewCacheType DEF ReaderInv, OverlayInv, OverlayTypeOK, Logs
<1>3. reader' \in Readers /\ reader'.step = "idle"
  BY <1>1, <1>2, OverlayAssumption DEF Readers, Asleep
<1>4. BaseForm' /\ OpenForm' /\ ReaderCoherent'
  BY <1>3 DEF BaseForm, OpenForm, ReaderCoherent, Private, Shared
<1> QED BY <1>1, <1>3, <1>4, ReaderMoves

\* A reader that goes on with the log it has open needs to know no more than
\* what its own state says of that log's story.
LEMMA ReadsOn ==
  ASSUME ReaderInv, UNCHANGED <<overlayVars, held>>, reader' \in Readers,
         reader.step \in Private \cup Shared, reader'.step \in Private \cup Shared,
         reader'.base = reader.base, reader'.generation = reader.generation,
         reader'.file = reader.file, Index \in reader'.allowed,
         reader'.step \in Measured => Opened.generation = reader.generation,
         \A m : Opened.generation = reader.generation /\ Known(reader, Opened, cache, synced, m)
                  => ReaderAt(reader', Opened, m),
         ReaderCoherent'
  PROVE  ReaderInv'
<1>1. Opened' = Opened /\ log' = log /\ cache' = cache /\ synced' = synced
      /\ meaning' = meaning /\ base' = base /\ held' = held
  BY DEF Opened, Content, overlayVars
<1>2. BaseForm'
  <2>1. reader.step # "idle"
    BY DEF Private, Shared
  <2> QED BY <1>1, <2>1 DEF ReaderInv, BaseForm, Index
<1>3. OpenForm'
  BY <1>1 DEF ReaderInv, OpenForm, Known
<1> QED BY <1>2, <1>3, ReaderMoves

\* What holds of a reader with a log open.
LEMMA ReaderHas ==
  ASSUME ReaderInv, reader.step \in Private \cup Shared
  PROVE  /\ reader \in Readers /\ log \in Logs /\ Opened \in Logs /\ Opened.file = reader.file
         /\ Index \in reader.allowed /\ Index \in Indexes
         /\ reader.step \in Measured => Opened.generation = reader.generation
         /\ reader.file = log.file => Opened = log
<1>1. OverlayTypeOK /\ ReadersTyped /\ BaseForm /\ OpenForm
  BY DEF ReaderInv, OverlayInv
<1>2. reader.step # "idle"
  BY DEF Private, Shared
<1>3. log \in Logs /\ Index \in Indexes
  BY <1>1 DEF OverlayTypeOK, Logs, Index
<1>4. Opened \in Logs /\ Opened.file = reader.file
  BY <1>1, OpenedLog DEF OpenForm
<1> QED BY <1>1, <1>2, <1>3, <1>4 DEF ReadersTyped, BaseForm, OpenForm, Opened, Content

LEMMA MapBaseStep == ReaderInv /\ MapBase => ReaderInv'
<1> SUFFICES ASSUME ReaderInv, MapBase PROVE ReaderInv'
  OBVIOUS
<1>1. OverlayTypeOK /\ log \in Logs /\ reader \in Readers
  BY DEF ReaderInv, OverlayInv, OverlayTypeOK, Logs, ReadersTyped
<1>2. Index \in Indexes
  BY <1>1 DEF OverlayTypeOK, Logs, Index
<1>3. /\ reader' = [reader EXCEPT !.base = base, !.generation = log.generation,
                                  !.allowed = {Index}, !.step = "based"]
      /\ UNCHANGED <<overlayVars, held>>
  BY <1>1 DEF MapBase, GoTo, Readers
<1>4. /\ reader' \in Readers /\ reader'.step = "based" /\ reader'.base = base
      /\ reader'.generation = log.generation /\ reader'.allowed = {Index}
  BY <1>1, <1>2, <1>3 DEF Readers, OverlayTypeOK, Logs
<1>5. base' = base /\ log' = log /\ Index' = Index
  BY <1>3 DEF overlayVars, Index
<1>6. BaseForm' /\ OpenForm' /\ ReaderCoherent'
  BY <1>1, <1>4, <1>5 DEF BaseForm, OpenForm, ReaderCoherent, Private, Shared, Logs
<1> QED BY <1>3, <1>4, <1>6, ReaderMoves

\* Both ways of opening take the log by the name it has now.
LEMMA OpenLogStep ==
  ASSUME ReaderInv, reader.step = "based", NEW to \in {"opened", "sharing"}, NEW n \in Nat,
         to = "sharing" => n = Len(log.frames) /\ log.generation = reader.generation,
         reader' = [reader EXCEPT !.step = to, !.file = log.file, !.bytes = n],
         UNCHANGED <<overlayVars, held>>
  PROVE  ReaderInv'
<1>1. OverlayInv /\ OverlayTypeOK /\ log \in Logs /\ reader \in Readers /\ BaseForm
  BY DEF ReaderInv, OverlayInv, OverlayTypeOK, Logs, ReadersTyped
<1>2. to \in Private \cup Shared /\ log.file \in Nat /\ Len(log.frames) \in Nat
  BY <1>1 DEF Private, Shared, Logs
<1>3. /\ reader' \in Readers /\ reader'.step = to /\ reader'.base = reader.base
      /\ reader'.generation = reader.generation /\ reader'.file = log.file
      /\ reader'.bytes = n /\ reader'.allowed = reader.allowed
  BY <1>1, <1>2 DEF Readers
<1>4. /\ base' = base /\ log' = log /\ Index' = Index /\ cache' = cache /\ synced' = synced
      /\ meaning' = meaning
  BY DEF overlayVars, Index
<1>5. BaseForm' /\ Index \in reader.allowed
  BY <1>1, <1>3, <1>4 DEF BaseForm
<1>6. Opened' = log
  BY <1>3, <1>4 DEF Opened, Content
<1>7. ASSUME log.generation = reader.generation
      PROVE  Known(reader', log, cache, synced, meaning)
  <2>1. reader'.base = base
    BY <1>1, <1>3, <1>7 DEF BaseForm
  <2>2. Story(meaning, log, base)
    BY <1>1 DEF Story, OverlayInv, OverlayTypeOK, MeaningIsReplay
  <2>3. Tells(cache, log, base, meaning) /\ Tells(synced, log, base, meaning)
    BY <1>1 DEF Tells, OverlayInv, TrueOfLog, TrueAt
  <2>4. ReaderAt(reader', log, meaning)
    <3>1. AllowedFrom(reader', log) = Len(log.frames)
      BY <1>3 DEF AllowedFrom, Measured, Resolving, Shared
    <3>2. \A k \in Len(log.frames) .. Len(log.frames) : meaning[k] \in reader'.allowed
      BY <1>2, <1>3, <1>5 DEF Index
    <3> QED BY <1>2, <1>3, <3>1, <3>2 DEF ReaderAt, Measured, Resolving, Shared
  <2> QED BY <2>1, <2>2, <2>3, <2>4 DEF Known
<1>8. OpenForm'
  BY <1>3, <1>4, <1>6, <1>7 DEF OpenForm, Measured, Resolving, Shared
<1>9. ReaderCoherent'
  BY <1>3 DEF ReaderCoherent
<1> QED BY <1>3, <1>5, <1>8, <1>9, ReaderMoves

LEMMA OpenSteps == ReaderInv /\ (OpenPrivate \/ OpenShared) => ReaderInv'
<1> SUFFICES ASSUME ReaderInv, OpenPrivate \/ OpenShared PROVE ReaderInv'
  OBVIOUS
<1>1. log \in Logs /\ reader \in Readers
  BY DEF ReaderInv, OverlayInv, OverlayTypeOK, Logs, ReadersTyped
<1>2. CASE OpenPrivate
  <2>1. /\ reader' = [reader EXCEPT !.step = "opened", !.file = log.file, !.bytes = reader.bytes]
        /\ reader.bytes \in Nat /\ reader.step = "based" /\ UNCHANGED <<overlayVars, held>>
    BY <1>1, <1>2 DEF OpenPrivate, GoTo, Readers
  <2> QED BY <2>1, OpenLogStep
<1>3. CASE OpenShared /\ log.generation = reader.generation
  <2>1. /\ reader' = [reader EXCEPT !.step = "sharing", !.file = log.file,
                                    !.bytes = Len(log.frames)]
        /\ reader.step = "based" /\ UNCHANGED <<overlayVars, held>>
    BY <1>1, <1>3 DEF OpenShared, GoTo, Readers
  <2>2. Len(log.frames) \in Nat
    BY <1>1 DEF Logs
  <2> QED BY <1>3, <2>1, <2>2, OpenLogStep
<1>4. CASE OpenShared /\ log.generation # reader.generation
  BY <1>4, ReaderGivesUp DEF OpenShared
<1> QED BY <1>2, <1>3, <1>4

\* The writer's cache as it is now, copied or read in a transaction.
LEMMA TakeCacheStep == ReaderInv /\ (SeedPrivate \/ BeginShared) => ReaderInv'
<1> SUFFICES ASSUME ReaderInv, SeedPrivate \/ BeginShared PROVE ReaderInv'
  OBVIOUS
<1>1. PICK to \in {"seeded", "begun"} :
        /\ reader.step = IF to = "seeded" THEN "opened" ELSE "sharing"
        /\ reader' = [[reader EXCEPT !.tables = cache] EXCEPT !.step = to]
        /\ UNCHANGED <<overlayVars, held>>
  BY DEF SeedPrivate, BeginShared, GoTo
<1>2. reader.step \in Private \cup Shared /\ to \in Private \cup Shared
  BY <1>1 DEF Private, Shared
<1>3. reader \in Readers /\ cache \in Caches
  BY DEF ReaderInv, OverlayInv, OverlayTypeOK, ReadersTyped
<1>4. /\ reader' \in Readers /\ reader'.step = to /\ reader'.base = reader.base
      /\ reader'.generation = reader.generation /\ reader'.file = reader.file
      /\ reader'.bytes = reader.bytes /\ reader'.tables = cache
      /\ reader'.allowed = reader.allowed
  BY <1>1, <1>2, <1>3 DEF Readers
<1>5. to \in Measured <=> reader.step \in Measured
  BY <1>1 DEF Measured, Resolving, Shared
<1>6. ASSUME NEW m, Known(reader, Opened, cache, synced, m)
      PROVE  ReaderAt(reader', Opened, m)
  <2>1. AllowedFrom(reader', Opened) = AllowedFrom(reader, Opened)
    BY <1>4, <1>5 DEF AllowedFrom
  <2>2. to \notin Resolving
    BY <1>1 DEF Resolving
  <2> QED BY <1>4, <1>5, <1>6, <2>1, <2>2 DEF ReaderAt, Known
<1>7. ReaderCoherent'
  BY <1>4 DEF ReaderCoherent
<1> QED BY <1>1, <1>2, <1>4, <1>5, <1>6, <1>7, ReaderHas, ReadsOn

\* The copied cache is kept if it is of this log, or the log is read anew.
LEMMA CheckHeaderStep == ReaderInv /\ CheckHeader => ReaderInv'
<1> SUFFICES ASSUME ReaderInv, CheckHeader PROVE ReaderInv'
  OBVIOUS
<1>1. CASE Opened.generation # reader.generation
  <2>1. GiveUp
    BY <1>1 DEF CheckHeader, Opened
  <2> QED BY <2>1, ReaderGivesUp
<1>2. CASE Opened.generation = reader.generation
  <2> DEFINE t == IF TrustsCopy(reader.tables, Opened) THEN reader.tables ELSE NewCache(Opened)
  <2>1. /\ reader.step = "seeded" /\ UNCHANGED <<overlayVars, held>>
        /\ reader' = [[reader EXCEPT !.bytes = Len(Opened.frames), !.tables = t]
                        EXCEPT !.step = "checked"]
    BY <1>2 DEF CheckHeader, GoTo, Opened
  <2>2. reader.step \in Private \cup Shared
    BY <2>1 DEF Private
  <2>3. /\ reader \in Readers /\ Opened \in Logs /\ Opened.file = reader.file
        /\ Index \in reader.allowed
    BY <2>2, ReaderHas
  <2>4. NewCache(Opened) \in Caches /\ Len(Opened.frames) \in Nat
    BY <2>3, NewCacheType DEF Logs
  <2>5. t \in Caches
    BY <2>3, <2>4 DEF Readers
  <2>6. ASSUME NEW m, Known(reader, Opened, cache, synced, m)
        PROVE  t.at <= Len(Opened.frames) /\ Seen(reader.base, t) = m[t.at]
    <3>1. CASE TrustsCopy(reader.tables, Opened)
      <4>1. Tells(reader.tables, Opened, reader.base, m)
        BY <2>1, <2>6 DEF Known, ReaderAt
      <4> QED BY <3>1, <4>1, <2>3 DEF Tells, TrustsCopy
    <3>2. CASE ~TrustsCopy(reader.tables, Opened)
      <4>1. t = NewCache(Opened) /\ m[0] = reader.base /\ reader.base \in Indexes
        BY <3>2, <2>3, <2>6 DEF Known, Story, Readers
      <4>2. t.at = 0 /\ t.rows = NoRows /\ t.prefixes = {}
        BY <2>3, <3>2, NewCacheType DEF Logs
      <4>3. Seen(reader.base, t) = reader.base
        BY <4>1, <4>2, EmptyTables
      <4> QED BY <2>4, <4>1, <4>2, <4>3
    <3> QED BY <3>1, <3>2
  <2> HIDE DEF t
  <2>7. /\ reader' \in Readers /\ reader'.step = "checked" /\ reader'.base = reader.base
        /\ reader'.generation = reader.generation /\ reader'.file = reader.file
        /\ reader'.bytes = Len(Opened.frames) /\ reader'.tables = t
        /\ reader'.allowed = reader.allowed
    BY <2>1, <2>3, <2>4, <2>5 DEF Readers, Private
  <2>8. ASSUME NEW m, Known(reader, Opened, cache, synced, m)
        PROVE  ReaderAt(reader', Opened, m)
    <3>1. \A k \in Len(Opened.frames) .. Len(Opened.frames) : m[k] \in reader.allowed
      BY <2>1, <2>8 DEF Known, ReaderAt, AllowedFrom, Measured, Resolving, Shared
    <3>2. AllowedFrom(reader', Opened) = Len(Opened.frames)
      BY <2>7 DEF AllowedFrom
    <3> QED BY <2>4, <2>6, <2>7, <2>8, <3>1, <3>2 DEF ReaderAt
  <2>9. reader'.step \in Private \cup Shared /\ ReaderCoherent'
    BY <2>7 DEF Private, ReaderCoherent
  <2> QED BY <1>2, <2>1, <2>2, <2>3, <2>7, <2>8, <2>9, ReadsOn
<1> QED BY <1>1, <1>2

LEMMA VerifyStep == ReaderInv /\ VerifyPrefix => ReaderInv'
<1> SUFFICES ASSUME ReaderInv, VerifyPrefix PROVE ReaderInv'
  OBVIOUS
<1>1. CASE Len(Opened.frames) < reader.tables.at
  BY <1>1, ReaderGivesUp DEF VerifyPrefix, Opened
<1>2. CASE ~(Len(Opened.frames) < reader.tables.at)
  <2>1. /\ reader.step = "checked" /\ UNCHANGED <<overlayVars, held>>
        /\ reader' = [reader EXCEPT !.step = "replaying"]
    BY <1>2 DEF VerifyPrefix, GoTo, Opened
  <2>2. reader.step \in Private \cup Shared /\ reader.step \in Measured
    BY <2>1 DEF Private, Measured, Resolving
  <2>3. reader \in Readers /\ Index \in reader.allowed /\ Opened.generation = reader.generation
    BY <2>2, ReaderHas
  <2>4. /\ reader' \in Readers /\ reader'.step = "replaying" /\ reader'.base = reader.base
        /\ reader'.generation = reader.generation /\ reader'.file = reader.file
        /\ reader'.bytes = reader.bytes /\ reader'.tables = reader.tables
        /\ reader'.allowed = reader.allowed
    BY <2>1, <2>3 DEF Readers, Private
  <2>5. ASSUME NEW m, Known(reader, Opened, cache, synced, m)
        PROVE  ReaderAt(reader', Opened, m)
    BY <2>1, <2>4, <2>5 DEF Known, ReaderAt, AllowedFrom, Measured, Resolving
  <2>6. reader'.step \in Private \cup Shared /\ ReaderCoherent'
    BY <2>4 DEF Private, ReaderCoherent
  <2> QED BY <2>1, <2>2, <2>3, <2>4, <2>5, <2>6, ReadsOn
<1> QED BY <1>1, <1>2

\* One frame of the tail: the tables say the story's next index.
LEMMA ReplayStep == ReaderInv /\ ReplayFrame => ReaderInv'
<1> SUFFICES ASSUME ReaderInv, ReplayFrame PROVE ReaderInv'
  OBVIOUS
<1> DEFINE t == reader.tables
           frame == Opened.frames[t.at + 1]
           n == Replayed(t, frame)
<1>1. /\ reader.step = "replaying" /\ UNCHANGED <<overlayVars, held>>
      /\ t.at < reader.bytes /\ t.at < Len(Opened.frames)
      /\ reader' = [[reader EXCEPT !.tables = n] EXCEPT !.step = "replaying"]
  BY DEF ReplayFrame, FrameLeft, GoTo, Opened, Replayed
<1>2. reader.step \in Private \cup Shared /\ reader.step \in Measured
  BY <1>1 DEF Private, Measured, Resolving
<1>3. /\ reader \in Readers /\ Opened \in Logs /\ Index \in reader.allowed
      /\ Opened.generation = reader.generation
  BY <1>2, ReaderHas
<1>4. /\ reader.base \in Indexes /\ t \in Caches /\ t.at \in Nat /\ reader.bytes \in Nat
      /\ Len(Opened.frames) \in Nat
  BY <1>3 DEF Readers, Caches, Logs
<1>5. frame \in Changes
  BY <1>1, <1>3, <1>4 DEF Logs
<1> HIDE DEF t, frame
<1>6. n \in Caches /\ n.at = t.at + 1 /\ Seen(reader.base, n) = Effect(Seen(reader.base, t), frame)
  BY <1>4, <1>5, ReplayOne
<1> HIDE DEF n
<1>7. /\ reader' \in Readers /\ reader'.step = "replaying" /\ reader'.base = reader.base
      /\ reader'.generation = reader.generation /\ reader'.file = reader.file
      /\ reader'.bytes = reader.bytes /\ reader'.tables = n
      /\ reader'.allowed = reader.allowed
  BY <1>1, <1>3, <1>6 DEF Readers, Private
<1>8. ASSUME NEW m, Known(reader, Opened, cache, synced, m)
      PROVE  ReaderAt(reader', Opened, m)
  <2>1. Seen(reader.base, t) = m[t.at]
    BY <1>1, <1>8 DEF Known, ReaderAt, Resolving, t
  <2>2. m[t.at + 1] = Effect(m[t.at], frame)
    <3>1. t.at \in 0 .. Len(Opened.frames) - 1
      BY <1>1, <1>4
    <3> QED BY <1>8, <3>1 DEF Known, Story, frame
  <2>3. n.at <= reader.bytes
    BY <1>1, <1>4, <1>6
  <2> QED BY <1>1, <1>6, <1>7, <1>8, <2>1, <2>2, <2>3
       DEF Known, ReaderAt, AllowedFrom, Measured, Resolving
<1>9. reader'.step \in Private \cup Shared /\ ReaderCoherent'
  BY <1>7 DEF Private, ReaderCoherent
<1> QED BY <1>1, <1>2, <1>3, <1>7, <1>8, <1>9, ReadsOn

\* With no frame left the tables are at the length taken before.
LEMMA ServePrivateStep == ReaderInv /\ ServePrivate => ReaderInv'
<1> SUFFICES ASSUME ReaderInv, ServePrivate PROVE ReaderInv'
  OBVIOUS
<1>1. /\ reader.step = "replaying" /\ UNCHANGED <<overlayVars, held>>
      /\ ~(reader.tables.at < reader.bytes /\ reader.tables.at < Len(Opened.frames))
      /\ reader' = [reader EXCEPT !.step = "serving"]
  BY DEF ServePrivate, FrameLeft, GoTo, Opened
<1>2. reader.step \in Private \cup Shared /\ reader.step \in Measured
  BY <1>1 DEF Private, Measured, Resolving
<1>3. /\ reader \in Readers /\ Opened \in Logs /\ Index \in reader.allowed
      /\ Opened.generation = reader.generation
  BY <1>2, ReaderHas
<1>4. reader.tables.at \in Nat /\ reader.bytes \in Nat /\ Len(Opened.frames) \in Nat
  BY <1>3 DEF Readers, Caches, Logs
<1>5. /\ reader' \in Readers /\ reader'.step = "serving" /\ reader'.base = reader.base
      /\ reader'.generation = reader.generation /\ reader'.file = reader.file
      /\ reader'.bytes = reader.bytes /\ reader'.tables = reader.tables
      /\ reader'.allowed = reader.allowed
  BY <1>1, <1>3 DEF Readers, Private
<1>6. PICK m : Known(reader, Opened, cache, synced, m)
  BY <1>2, <1>3 DEF ReaderInv, OpenForm
<1>7. /\ reader.bytes <= Len(Opened.frames) /\ reader.tables.at <= reader.bytes
      /\ Seen(reader.base, reader.tables) = m[reader.tables.at]
      /\ \A k \in reader.bytes .. Len(Opened.frames) : m[k] \in reader.allowed
  BY <1>1, <1>2, <1>6 DEF Known, ReaderAt, AllowedFrom, Resolving
<1>8. reader.tables.at = reader.bytes /\ m[reader.bytes] \in reader.allowed
  BY <1>1, <1>4, <1>7
<1>9. ReaderCoherent'
  BY <1>5, <1>7, <1>8 DEF ReaderCoherent
<1>10. ASSUME NEW k, Known(reader, Opened, cache, synced, k)
       PROVE  ReaderAt(reader', Opened, k)
  BY <1>1, <1>5, <1>10 DEF Known, ReaderAt, AllowedFrom, Measured, Resolving
<1>11. reader'.step \in Private \cup Shared
  BY <1>5 DEF Private
<1> QED BY <1>1, <1>2, <1>3, <1>5, <1>9, <1>10, <1>11, ReadsOn

\* The private snapshot starts over with the frames since, or is reopened.
LEMMA RefreshStep == ReaderInv /\ Refresh => ReaderInv'
<1> SUFFICES ASSUME ReaderInv, Refresh PROVE ReaderInv'
  OBVIOUS
<1> DEFINE same == /\ reader.file = log.file /\ log.generation = reader.generation
                   /\ Len(log.frames) >= reader.tables.at
<1>1. CASE ~same
  BY <1>1, ReaderGivesUp DEF Refresh
<1>2. CASE same
  <2>1. /\ reader.step = "serving" /\ UNCHANGED <<overlayVars, held>>
        /\ reader' = [[reader EXCEPT !.bytes = Len(log.frames), !.allowed = {Index}]
                        EXCEPT !.step = "replaying"]
    BY <1>2 DEF Refresh, GoTo
  <2>2. reader.step \in Private \cup Shared /\ reader.step \in Measured
    BY <2>1 DEF Private, Measured, Resolving
  <2>3. /\ reader \in Readers /\ log \in Logs /\ Index \in Indexes /\ Opened = log
        /\ Opened.generation = reader.generation
    BY <1>2, <2>2, ReaderHas
  <2>4. Len(log.frames) \in Nat /\ reader.tables.at \in Nat
    BY <2>3 DEF Logs, Readers, Caches
  <2>5. /\ reader' \in Readers /\ reader'.step = "replaying" /\ reader'.base = reader.base
        /\ reader'.generation = reader.generation /\ reader'.file = reader.file
        /\ reader'.bytes = Len(log.frames) /\ reader'.tables = reader.tables
        /\ reader'.allowed = {Index}
    BY <2>1, <2>3, <2>4 DEF Readers, Private
  <2>6. reader.file = log.file /\ Len(log.frames) >= reader.tables.at
    BY <1>2
  <2> HIDE DEF same
  <2>7. ReaderCoherent' /\ BaseForm' /\ reader'.step \in Private \cup Shared
    <3>1. reader.step # "idle"
      BY <2>1
    <3> QED BY <2>1, <2>3, <2>5, <3>1
         DEF ReaderCoherent, Private, ReaderInv, BaseForm, Index, overlayVars
  <2>8. Known(reader', log, cache, synced, meaning)
    <3>1. Known(reader, log, cache, synced, meaning)
      BY <2>2, <2>3, <2>6 DEF ReaderInv, OpenForm
    <3>2. \A k \in Len(log.frames) .. Len(log.frames) : meaning[k] \in {Index}
      BY <2>4 DEF Index
    <3>3. AllowedFrom(reader', log) = Len(log.frames)
      BY <2>5 DEF AllowedFrom, Measured, Resolving
    <3>4. Seen(reader.base, reader.tables) = meaning[reader.tables.at]
      BY <2>1, <3>1 DEF Known, ReaderAt, Resolving
    <3>5. ReaderAt(reader', log, meaning)
      BY <2>4, <2>5, <2>6, <3>2, <3>3, <3>4 DEF ReaderAt
    <3> QED BY <2>5, <3>1, <3>5 DEF Known
  <2>9. OpenForm'
    <3>1. Opened' = Opened /\ log' = log /\ cache' = cache /\ synced' = synced
          /\ meaning' = meaning
      BY <2>1, <2>5 DEF Opened, Content, overlayVars
    <3> QED BY <2>3, <2>5, <2>6, <2>8, <3>1 DEF OpenForm
  <2> QED BY <2>1, <2>5, <2>7, <2>9, ReaderMoves
<1> QED BY <1>1, <1>2

\* The transaction is used if its rows reach the length taken before.
LEMMA ServeSharedStep == ReaderInv /\ ServeShared => ReaderInv'
<1> SUFFICES ASSUME ReaderInv, ServeShared PROVE ReaderInv'
  OBVIOUS
<1> DEFINE t == reader.tables
           coherent == /\ t.generation = reader.generation /\ t.file = reader.file
                       /\ reader.bytes <= t.at /\ t.at <= Len(Opened.frames)
                       /\ t.at = Len(Opened.frames) => t.generation = Opened.generation
<1>1. /\ reader.step = "begun" /\ UNCHANGED <<overlayVars, held>>
      /\ coherent => reader' = [reader EXCEPT !.step = "shared"]
      /\ ~coherent => reader' = [reader EXCEPT !.step = "based"]
  BY DEF ServeShared, GoTo, Opened
<1>2. reader.step \in Private \cup Shared /\ reader.step \in Measured
  BY <1>1 DEF Shared, Measured
<1>3. /\ reader \in Readers /\ Opened \in Logs /\ Opened.file = reader.file
      /\ Index \in reader.allowed /\ Opened.generation = reader.generation
  BY <1>2, ReaderHas
<1>4. CASE ~coherent
  <2>1. reader' = [reader EXCEPT !.step = "based"]
    BY <1>1, <1>4
  <2>2. /\ reader' \in Readers /\ reader'.step = "based" /\ reader'.base = reader.base
        /\ reader'.generation = reader.generation /\ reader'.allowed = reader.allowed
    BY <1>3, <2>1 DEF Readers
  <2>3. BaseForm' /\ OpenForm' /\ ReaderCoherent'
    <3>1. reader.step # "idle"
      BY <1>1
    <3>2. OpenForm' /\ ReaderCoherent'
      BY <2>2 DEF OpenForm, ReaderCoherent, Private, Shared
    <3>3. base' = base /\ log' = log /\ Index' = Index
      BY <1>1 DEF overlayVars, Index
    <3> QED BY <2>2, <3>1, <3>2, <3>3 DEF ReaderInv, BaseForm
  <2> QED BY <1>1, <2>2, <2>3, ReaderMoves
<1>5. CASE coherent
  <2>1. reader' = [reader EXCEPT !.step = "shared"]
    BY <1>1, <1>5
  <2>2. /\ reader' \in Readers /\ reader'.step = "shared" /\ reader'.base = reader.base
        /\ reader'.generation = reader.generation /\ reader'.file = reader.file
        /\ reader'.bytes = reader.bytes /\ reader'.tables = reader.tables
        /\ reader'.allowed = reader.allowed
    BY <1>3, <2>1 DEF Readers, Shared
  <2>3. PICK m : Known(reader, Opened, cache, synced, m)
    BY <1>2, <1>3 DEF ReaderInv, OpenForm
  <2>4. Seen(reader.base, t) = m[t.at]
    BY <1>1, <1>3, <1>5, <2>3 DEF Known, ReaderAt, Tells
  <2>5. m[t.at] \in reader.allowed
    <3>1. \A k \in reader.bytes .. Len(Opened.frames) : m[k] \in reader.allowed
      BY <1>2, <2>3 DEF Known, ReaderAt, AllowedFrom
    <3>2. t.at \in Nat /\ reader.bytes \in Nat /\ Len(Opened.frames) \in Nat
      BY <1>3 DEF Readers, Caches, Logs
    <3> QED BY <1>5, <3>1, <3>2
  <2>6. ReaderCoherent'
    BY <2>2, <2>4, <2>5 DEF ReaderCoherent
  <2>7. ASSUME NEW k, Known(reader, Opened, cache, synced, k)
        PROVE  ReaderAt(reader', Opened, k)
    BY <1>1, <2>2, <2>7 DEF Known, ReaderAt, AllowedFrom, Measured, Resolving, Shared
  <2>8. reader'.step \in Private \cup Shared
    BY <2>2 DEF Shared
  <2> QED BY <1>1, <1>2, <1>3, <2>2, <2>6, <2>7, <2>8, ReadsOn
<1> QED BY <1>4, <1>5
-----------------------------------------------------------------------------
LEMMA ReadersNextInv ==
  ASSUME InPlaceResets = FALSE
  PROVE  ReaderInv /\ [ReadersNext]_allVars => ReaderInv'
<1> SUFFICES ASSUME ReaderInv, [ReadersNext]_allVars PROVE ReaderInv'
  OBVIOUS
<1>1. CASE UNCHANGED allVars
  <2>1. UNCHANGED <<overlayVars, held>> /\ reader' = reader
    BY <1>1 DEF allVars, readerVars
  <2>2. reader' \in Readers
    BY <2>1 DEF ReaderInv, ReadersTyped
  <2>3. BaseForm' /\ OpenForm' /\ ReaderCoherent'
    BY <2>1 DEF ReaderInv, BaseForm, OpenForm, ReaderCoherent, Index, Opened, Content, overlayVars
  <2> QED BY <2>1, <2>2, <2>3, ReaderMoves
<1>2. CASE CloseReader
  BY <1>2, ReaderGivesUp DEF CloseReader
<1> QED
  BY <1>1, <1>2, WriterKeeps, MapBaseStep, OpenSteps, TakeCacheStep, CheckHeaderStep, VerifyStep,
     ReplayStep, ServePrivateStep, RefreshStep, ServeSharedStep DEF ReadersNext

(* Whatever the writer appends, applies, loses, restores or compacts beside a *)
(* reader, a reader that opened answers with an index that was true at a      *)
(* moment since it began (CompactIndex::open_with_delta_snapshot), as long as *)
(* no log is truncated in place (DeltaIndex::reset).                          *)
THEOREM ReaderCoherentHolds ==
  ASSUME InPlaceResets = FALSE
  PROVE  ReadersSpec => []ReaderCoherent
<1>1. ReaderInv => ReaderCoherent
  BY DEF ReaderInv
<1>2. ReaderInv /\ [ReadersNext]_allVars => ReaderInv'
  BY ReadersNextInv
<1> QED BY <1>1, <1>2, ReadersInitInv, PTL DEF ReadersSpec
-----------------------------------------------------------------------------
(* The catalog (CatalogBuild). *)

BuildStates == [step : {"idle", "locked", "built", "checked", "pinned", "columns"}, gen : Int]
HelperStates == [step : {"serving", "published", "failed"}, gen : Int, held : Int]
CatalogFiles == [there : BOOLEAN, gen : Int, base : Int, addresses : SUBSET Int]
Readings == [step : {"closed", "rows", "base", "open"}, names : Int, blocks : Int,
             columns : Int, rows : Int]

\* A reader that has opened everything opened columns of its blocks, and until
\* then it has answered nothing.
ReadingForm(q) ==
  /\ q.step # "open" => q.rows = 0
  /\ q.step = "open" => q.columns = q.blocks /\ q.rows \in {0, q.blocks}

CatalogInv ==
  /\ {active, pinned, columns} \subseteq Int
  /\ sqlite \in CatalogFiles
  /\ builds \in [Builders -> BuildStates]
  /\ helper \in HelperStates
  /\ reading \in [CatalogReaders -> Readings]
  /\ TombstonesAddressBase
  /\ \A r \in CatalogReaders : ReadingForm(reading[r])

LEMMA CatalogInitInv == CatalogBuildInit => CatalogInv
<1> SUFFICES ASSUME CatalogBuildInit PROVE CatalogInv
  OBVIOUS
<1>1. {active, pinned, columns} \subseteq Int /\ sqlite \in CatalogFiles
  <2>1. CatalogOf(1) \in CatalogFiles /\ NoCatalog \in CatalogFiles
    BY DEF CatalogFiles, CatalogOf, NoCatalog
  <2>2. /\ sqlite = CatalogOf(1) \/ sqlite = NoCatalog
        /\ active = 1 /\ pinned \in {0, 1} /\ columns \in {0, 1}
    BY DEF CatalogBuildInit
  <2> QED BY <2>1, <2>2
<1>2. /\ builds \in [Builders -> BuildStates]
      /\ helper \in HelperStates
  <2>1. NotPreparing \in BuildStates
    BY DEF NotPreparing, BuildStates
  <2> QED BY <2>1 DEF CatalogBuildInit, HelperStates
<1>3. reading = [r \in CatalogReaders |-> NotReading] /\ NotReading \in Readings
  BY DEF CatalogBuildInit, NotReading, Readings
<1>4. \A r \in CatalogReaders : ReadingForm(reading[r])
  BY <1>3 DEF ReadingForm, NotReading
<1>5. TombstonesAddressBase
  <2>1. CatalogOf(1).addresses = {} /\ NoCatalog.addresses = {}
    BY DEF CatalogOf, NoCatalog
  <2> QED BY <2>1 DEF CatalogBuildInit, TombstonesAddressBase
<1> QED BY <1>1, <1>2, <1>3, <1>4, <1>5 DEF CatalogInv

\* A builder replaces the whole file or leaves it; it never touches a reader.
LEMMA BuilderKeeps ==
  ASSUME CatalogInv, NEW b \in Builders,
         \/ Ensure(b) \/ StageCatalog(b) \/ CheckBase(b) \/ PinBase(b)
         \/ ReplaceColumns(b) \/ CreateRows(b) \/ ReplaceRows(b) \/ AbandonBuild(b)
  PROVE  CatalogInv'
<1>1. /\ {active, pinned, columns} \subseteq Int /\ builds[b].gen \in Int
      /\ builds \in [Builders -> BuildStates] /\ sqlite \in CatalogFiles
  BY DEF CatalogInv, BuildStates
<1>2. helper' = helper /\ reading' = reading /\ active' = active
  BY DEF Ensure, StageCatalog, CheckBase, PinBase, ReplaceColumns, CreateRows, ReplaceRows,
         AbandonBuild
<1>3. pinned' \in {pinned, active} /\ columns' \in {columns, builds[b].gen}
  BY DEF Ensure, StageCatalog, CheckBase, PinBase, ReplaceColumns, CreateRows, ReplaceRows,
         AbandonBuild
<1>4. \/ builds' = builds
      \/ \E to \in {"built", "checked", "pinned", "columns"} : Go(b, to)
      \/ builds' = [builds EXCEPT ![b] = NotPreparing]
      \/ \E gen \in 1 .. active : builds' = [builds EXCEPT ![b] = [step |-> "locked", gen |-> gen]]
  BY DEF Ensure, StageCatalog, CheckBase, PinBase, ReplaceColumns, CreateRows, ReplaceRows,
         AbandonBuild
<1>5. builds' \in [Builders -> BuildStates]
  <2>1. ASSUME NEW to \in {"built", "checked", "pinned", "columns"}, Go(b, to)
        PROVE  builds' \in [Builders -> BuildStates]
    <3>1. builds' = [builds EXCEPT ![b] = [builds[b] EXCEPT !.step = to]]
      BY <1>1, <2>1 DEF Go
    <3>2. [builds[b] EXCEPT !.step = to] \in BuildStates
      BY <1>1 DEF BuildStates
    <3> QED BY <1>1, <3>1, <3>2
  <2>2. NotPreparing \in BuildStates
    BY DEF NotPreparing, BuildStates
  <2>3. \A gen \in 1 .. active : [step |-> "locked", gen |-> gen] \in BuildStates
    BY <1>1 DEF BuildStates
  <2> QED BY <1>1, <1>4, <2>1, <2>2, <2>3
<1>6. sqlite' = sqlite \/ sqlite' = EmptyFile \/ sqlite' = CatalogOf(builds[b].gen)
  BY DEF Ensure, StageCatalog, CheckBase, PinBase, ReplaceColumns, CreateRows, ReplaceRows,
         AbandonBuild
<1>7. sqlite' \in CatalogFiles /\ TombstonesAddressBase'
  <2>1. EmptyFile \in CatalogFiles /\ EmptyFile.addresses = {}
    <3>1. NoCatalog \in CatalogFiles /\ NoCatalog.addresses = {}
      BY DEF NoCatalog, CatalogFiles
    <3> QED BY <3>1 DEF EmptyFile, CatalogFiles
  <2>2. CatalogOf(builds[b].gen) \in CatalogFiles /\ CatalogOf(builds[b].gen).addresses = {}
    BY <1>1 DEF CatalogOf, CatalogFiles
  <2> QED BY <1>1, <1>6, <2>1, <2>2 DEF CatalogInv, TombstonesAddressBase
<1> QED BY <1>1, <1>2, <1>3, <1>5, <1>7 DEF CatalogInv

\* The helper gives the file the next name, or adds a tombstone of the base
\* the file names.
LEMMA HelperKeeps ==
  ASSUME CatalogInv, PublishCompaction \/ AdvanceCatalog \/ CommitRows
  PROVE  CatalogInv'
<1>1. /\ {active, pinned, columns} \subseteq Int /\ sqlite \in CatalogFiles
      /\ helper \in HelperStates
  BY DEF CatalogInv
<1>2. pinned' = pinned /\ columns' = columns /\ builds' = builds /\ reading' = reading
  BY DEF PublishCompaction, AdvanceCatalog, CommitRows
<1>3. CASE PublishCompaction
  <2>1. active' = active + 1 /\ sqlite' = sqlite /\ helper' = [helper EXCEPT !.step = "published"]
    BY <1>3 DEF PublishCompaction
  <2>2. active' \in Int /\ helper' \in HelperStates
    BY <1>1, <2>1 DEF HelperStates
  <2> QED BY <1>1, <1>2, <2>1, <2>2 DEF CatalogInv, TombstonesAddressBase
<1>4. CASE AdvanceCatalog
  <2>1. /\ active' = active
        /\ sqlite' = sqlite \/ sqlite' = [sqlite EXCEPT !.gen = active]
        /\ \/ helper' = [helper EXCEPT !.step = "failed", !.gen = active]
           \/ helper' = [helper EXCEPT !.step = "serving", !.gen = active]
    BY <1>4 DEF AdvanceCatalog
  <2>2. /\ sqlite' \in CatalogFiles /\ sqlite'.base = sqlite.base
        /\ sqlite'.addresses = sqlite.addresses
    BY <1>1, <2>1 DEF CatalogFiles
  <2>3. helper' \in HelperStates
    BY <1>1, <2>1 DEF HelperStates
  <2> QED BY <1>1, <1>2, <2>1, <2>2, <2>3 DEF CatalogInv, TombstonesAddressBase
<1>5. CASE CommitRows
  <2>1. active' = active
    BY <1>5 DEF CommitRows
  <2>2. CASE sqlite # EmptyFile /\ (HoldsBase(sqlite.base) \/ pinned = sqlite.base)
    <3> DEFINE found == IF HoldsBase(sqlite.base) THEN helper.held ELSE pinned
    <3>1. found = sqlite.base
      BY <2>2 DEF HoldsBase
    <3>2. /\ sqlite' = [sqlite EXCEPT !.addresses = sqlite.addresses \cup {found}]
          /\ helper' = [helper EXCEPT !.held = found]
      BY <1>5, <2>2 DEF CommitRows
    <3> HIDE DEF found
    <3>3. sqlite.base \in Int /\ sqlite.addresses \subseteq {sqlite.base}
      BY <1>1 DEF CatalogFiles, CatalogInv, TombstonesAddressBase
    <3>4. /\ sqlite' \in CatalogFiles /\ sqlite'.base = sqlite.base
          /\ sqlite'.addresses = sqlite.addresses \cup {sqlite.base}
      BY <1>1, <3>1, <3>2, <3>3 DEF CatalogFiles
    <3>5. helper' \in HelperStates
      BY <1>1, <3>1, <3>2, <3>3 DEF HelperStates
    <3>6. TombstonesAddressBase'
      BY <3>3, <3>4 DEF TombstonesAddressBase
    <3> QED BY <1>1, <1>2, <2>1, <3>4, <3>5, <3>6 DEF CatalogInv
  <2>3. CASE ~(sqlite # EmptyFile /\ (HoldsBase(sqlite.base) \/ pinned = sqlite.base))
    <3>1. sqlite' = sqlite /\ helper' = [helper EXCEPT !.step = "failed"]
      BY <1>5, <2>3 DEF CommitRows
    <3>2. helper' \in HelperStates
      BY <1>1, <3>1 DEF HelperStates
    <3> QED BY <1>1, <1>2, <2>1, <3>1, <3>2 DEF CatalogInv, TombstonesAddressBase
  <2> QED BY <2>2, <2>3
<1> QED BY <1>3, <1>4, <1>5

\* A reader goes on with files that fit, or is closed.
LEMMA ReadingKeeps ==
  ASSUME CatalogInv, NEW r \in CatalogReaders,
         OpenRows(r) \/ OpenPinned(r) \/ OpenColumns(r) \/ AnswerFrom(r)
  PROVE  CatalogInv'
<1> DEFINE q == reading[r]
<1>1. /\ q \in Readings /\ ReadingForm(q)
      /\ sqlite.base \in Int /\ pinned \in Int /\ columns \in Int
      /\ reading \in [CatalogReaders -> Readings]
  BY DEF CatalogInv, CatalogFiles
<1>2. UNCHANGED <<active, pinned, columns, sqlite, builds, helper>>
  BY DEF OpenRows, OpenPinned, OpenColumns, AnswerFrom
<1>3. NotReading \in Readings /\ ReadingForm(NotReading)
  BY DEF NotReading, Readings, ReadingForm
<1>4. PICK p \in Readings : reading' = [reading EXCEPT ![r] = p] /\ ReadingForm(p)
  <2>1. CASE OpenRows(r)
    <3> DEFINE p == [NotReading EXCEPT !.step = "rows", !.names = sqlite.base]
    <3>1. reading' = [reading EXCEPT ![r] = p]
      BY <2>1 DEF OpenRows
    <3>2. p \in Readings /\ ReadingForm(p)
      <4>1. NotReading \in Readings /\ NotReading.rows = 0
        BY <1>3 DEF NotReading
      <4> QED BY <1>1, <4>1 DEF Readings, ReadingForm
    <3> QED BY <3>1, <3>2
  <2>2. CASE OpenPinned(r)
    <3> DEFINE p == [q EXCEPT !.step = "base", !.blocks = pinned]
    <3>1. /\ reading' = [reading EXCEPT ![r] = p] \/ reading' = [reading EXCEPT ![r] = NotReading]
          /\ q.step = "rows"
      BY <2>2, <1>1 DEF OpenPinned
    <3>2. p \in Readings /\ ReadingForm(p)
      BY <1>1, <3>1 DEF Readings, ReadingForm
    <3> QED BY <1>3, <3>1, <3>2
  <2>3. CASE OpenColumns(r)
    <3> DEFINE p == [q EXCEPT !.step = "open", !.columns = columns]
    <3>1. /\ \/ reading' = [reading EXCEPT ![r] = p] /\ columns = q.blocks
             \/ reading' = [reading EXCEPT ![r] = NotReading]
          /\ q.step = "base"
      BY <2>3, <1>1 DEF OpenColumns, ColumnsFit
    <3>2. columns = q.blocks => p \in Readings /\ ReadingForm(p)
      BY <1>1, <3>1 DEF Readings, ReadingForm
    <3> QED BY <1>3, <3>1, <3>2
  <2>4. CASE AnswerFrom(r)
    <3> DEFINE p == [q EXCEPT !.rows = sqlite.base]
    <3>1. /\ \/ reading' = [reading EXCEPT ![r] = p] /\ sqlite.base = q.blocks
             \/ reading' = [reading EXCEPT ![r] = NotReading]
          /\ q.step = "open"
      BY <2>4, <1>1 DEF AnswerFrom, RequirePinnedBase
    <3>2. sqlite.base = q.blocks => p \in Readings /\ ReadingForm(p)
      BY <1>1, <3>1 DEF Readings, ReadingForm
    <3> QED BY <1>3, <3>1, <3>2
  <2> QED BY <2>1, <2>2, <2>3, <2>4
<1>5. reading' \in [CatalogReaders -> Readings]
  BY <1>1, <1>4
<1>6. \A s \in CatalogReaders : ReadingForm(reading'[s])
  BY <1>1, <1>4 DEF CatalogInv
<1> QED BY <1>2, <1>5, <1>6 DEF CatalogInv, TombstonesAddressBase

LEMMA CatalogNextInv == CatalogInv /\ [BuildNext]_buildVars => CatalogInv'
<1> SUFFICES ASSUME CatalogInv, [BuildNext]_buildVars PROVE CatalogInv'
  OBVIOUS
<1>1. CASE UNCHANGED buildVars
  BY <1>1 DEF buildVars, CatalogInv, TombstonesAddressBase
<1> QED BY <1>1, BuilderKeeps, HelperKeeps, ReadingKeeps DEF BuildNext

(* Whatever rebuilds, compactions, kills and commits come between its steps,  *)
(* an answer joins rows, columns and records of one base, and every tombstone *)
(* was looked up in the base the catalog addresses (browse/catalog.rs:146-166,*)
(* browse/updates/writer_cache.rs:49-75).                                     *)
THEOREM JoinsOneBaseHolds == CatalogBuildSpec => []JoinsOneBase
<1>1. CatalogInv => JoinsOneBase
  BY DEF CatalogInv, ReadingForm, Readings, JoinsOneBase, AnswersJoinOneBase
<1> QED BY <1>1, CatalogInitInv, CatalogNextInv, PTL DEF CatalogBuildSpec
-----------------------------------------------------------------------------
(***************************************************************************)
(* Proofs about PreparedPages, for every index, ranking and capacity.  The *)
(* argument: a page is all rows of its search up to its boundary, which a  *)
(* changed record, a cut at the capacity and the replay of the journal     *)
(* keep true of the index the catalog lists; the edits since the token of  *)
(* a reader lead from its snapshot to that index as long as the floor of   *)
(* the journal lets it use them.                                           *)
(***************************************************************************)

PageRows == [path : Paths, rank : Nat, record : Records \cup {Nothing}]
PageSet == [query : Queries, matched : Int, rows : SUBSET PageRows, boundary : Nat]

\* Rows that can be told apart by their ranks.
Ranked(S) == S \subseteq PageRows /\ IsFiniteSet(S) /\ \A r, s \in S : r.rank = s.rank => r = s

\* The rows of everything that matches, and what a page holds of them.
RowsIn(q, index) == {Row(q, index, p) : p \in Matches(q, index)}
PageOf(page, index) ==
  /\ page.matched = Cardinality(Matches(page.query, index))
  /\ page.rows = IF page.boundary = 0 THEN RowsIn(page.query, index)
                 ELSE {r \in RowsIn(page.query, index) : r.rank <= page.boundary}
-----------------------------------------------------------------------------
Corrected == INSTANCE FoldTheory WITH Op <- Replay
Spared == INSTANCE FoldTheory WITH Op <- KeepOthers
Upkept == INSTANCE FoldTheory WITH Op <- Maintain
Meant == INSTANCE FoldTheory WITH Op <- Effect

\* The folds of the model are those the theory of folds is about.
LEMMA PageFoldsAgree ==
  /\ \A first, seq : Corrected!FoldLeft(Replay, first, seq) = FoldLeft(Replay, first, seq)
  /\ \A first, seq : Spared!FoldLeft(KeepOthers, first, seq) = FoldLeft(KeepOthers, first, seq)
  /\ \A first, seq : Upkept!FoldLeft(Maintain, first, seq) = FoldLeft(Maintain, first, seq)
  /\ \A first, seq : Meant!FoldLeft(Effect, first, seq) = FoldLeft(Effect, first, seq)
<1>1. \A first, seq : Corrected!FoldLeft(Replay, first, seq) = FoldLeft(Replay, first, seq)
  BY Zenon DEF FoldLeft, MapThenFoldSet, Corrected!FoldLeft, Corrected!MapThenFoldSet, Max, Corrected!Max
<1>2. \A first, seq : Spared!FoldLeft(KeepOthers, first, seq) = FoldLeft(KeepOthers, first, seq)
  BY Zenon DEF FoldLeft, MapThenFoldSet, Spared!FoldLeft, Spared!MapThenFoldSet, Max, Spared!Max
<1>3. \A first, seq : Upkept!FoldLeft(Maintain, first, seq) = FoldLeft(Maintain, first, seq)
  BY Zenon DEF FoldLeft, MapThenFoldSet, Upkept!FoldLeft, Upkept!MapThenFoldSet, Max, Upkept!Max
<1>4. \A first, seq : Meant!FoldLeft(Effect, first, seq) = FoldLeft(Effect, first, seq)
  BY Zenon DEF FoldLeft, MapThenFoldSet, Meant!FoldLeft, Meant!MapThenFoldSet, Max, Meant!Max
<1> QED BY <1>1, <1>2, <1>3, <1>4

\* The effect of no changes.
LEMMA NothingMeant == \A index : FoldLeft(Effect, index, <<>>) = index
BY PageFoldsAgree, Meant!FoldLeftEmpty, Zenon
-----------------------------------------------------------------------------
(* Rows in order of their ranks. *)

LEMMA MinOfTwo ==
  ASSUME NEW a \in Nat, NEW b \in Nat
  PROVE  Min({a, b}) = IF a <= b THEN a ELSE b
<1> DEFINE m == IF a <= b THEN a ELSE b
<1>1. m \in {a, b} /\ \A y \in {a, b} : m <= y
  OBVIOUS
<1>2. \A x \in {a, b} : (\A y \in {a, b} : x <= y) => x = m
  OBVIOUS
<1> HIDE DEF m
<1>3. Min({a, b}) = m
  BY <1>1, <1>2, Zenon DEF Min
<1> QED BY <1>3 DEF m

\* A worse row has all the better rows before it, and the other one too.
LEMMA BetterCounts ==
  ASSUME NEW S, Ranked(S), NEW r \in S
  PROVE  /\ IsFiniteSet(Better(S, r)) /\ Cardinality(Better(S, r)) \in 0 .. Cardinality(S) - 1
         /\ \A s \in S : s.rank < r.rank => Cardinality(Better(S, s)) < Cardinality(Better(S, r))
<1>1. IsFiniteSet(S) /\ S \subseteq PageRows
  BY DEF Ranked
<1>2. \A s \in S : s.rank \in Nat
  BY <1>1 DEF PageRows
<1>3. ASSUME NEW s \in S PROVE IsFiniteSet(Better(S, s)) /\ Cardinality(Better(S, s)) \in Nat
  <2>1. Better(S, s) \in SUBSET S
    BY DEF Better
  <2> QED BY <1>1, <2>1, FS_Subset, FS_CardinalityType
<1>4. Cardinality(S) \in Nat
  BY <1>1, FS_CardinalityType
<1>5. Cardinality(Better(S, r)) <= Cardinality(S) - 1
  <2>1. Better(S, r) \in SUBSET (S \ {r})
    BY <1>2 DEF Better
  <2>2. IsFiniteSet(S \ {r}) /\ Cardinality(S \ {r}) = Cardinality(S) - 1
    BY <1>1, FS_RemoveElement
  <2>3. Cardinality(Better(S, r)) <= Cardinality(S \ {r})
    BY <2>1, <2>2, FS_Subset
  <2> QED BY <2>2, <2>3
<1>6. ASSUME NEW s \in S, s.rank < r.rank PROVE Cardinality(Better(S, s)) < Cardinality(Better(S, r))
  <2>1. s \notin Better(S, s) /\ Better(S, s) \cup {s} \in SUBSET Better(S, r)
    BY <1>2, <1>6 DEF Better
  <2>2. Cardinality(Better(S, s) \cup {s}) = Cardinality(Better(S, s)) + 1
    BY <1>3, <2>1, FS_AddElement
  <2>3. Cardinality(Better(S, s) \cup {s}) <= Cardinality(Better(S, r))
    BY <1>3, <2>1, FS_Subset
  <2> QED BY <1>3, <2>2, <2>3
<1> QED BY <1>3, <1>4, <1>5, <1>6

\* Every place up to the number of rows is one row's.
LEMMA EveryPlaceTaken ==
  ASSUME NEW S, Ranked(S), NEW i \in 1 .. Cardinality(S)
  PROVE  \E r \in S : Cardinality(Better(S, r)) = i - 1
<1>1. IsFiniteSet(S) /\ Cardinality(S) \in Nat
  BY FS_CardinalityType DEF Ranked
<1> DEFINE T == 0 .. Cardinality(S) - 1
           f == [r \in S |-> Cardinality(Better(S, r))]
<1>2. IsFiniteSet(T) /\ Cardinality(T) = Cardinality(S)
  <2> DEFINE c == Cardinality(S)
  <2> HIDE DEF c
  <2>1. c \in Nat
    BY <1>1 DEF c
  <2>2. \A a, b \in Int : IsFiniteSet(a .. b) /\ Cardinality(a .. b) = IF a > b THEN 0 ELSE b - a + 1
    BY FS_Interval
  <2>3. 0 \in Int /\ c - 1 \in Int /\ (0 > c - 1 => c = 0) /\ (c - 1) - 0 + 1 = c
    BY <2>1
  <2>4. IsFiniteSet(0 .. c - 1) /\ Cardinality(0 .. c - 1) = IF 0 > c - 1 THEN 0 ELSE (c - 1) - 0 + 1
    BY <2>2, <2>3
  <2>5. IsFiniteSet(0 .. c - 1) /\ Cardinality(0 .. c - 1) = c
    BY <2>3, <2>4
  <2> QED BY <2>5 DEF c
<1>3. f \in [S -> T]
  BY BetterCounts
<1>4. ASSUME NEW r \in S, NEW s \in S, f[r] = f[s] PROVE r = s
  <2>1. r.rank \in Nat /\ s.rank \in Nat
    BY DEF Ranked, PageRows
  <2>2. ~(r.rank < s.rank) /\ ~(s.rank < r.rank)
    BY <1>4, BetterCounts
  <2>3. r.rank = s.rank
    BY <2>1, <2>2
  <2> QED BY <2>3 DEF Ranked
<1>5. f \in Injection(S, T)
  BY <1>3, <1>4 DEF Injection, IsInjective
<1>6. f \in Surjection(S, T)
  BY <1>1, <1>2, <1>5, FS_Injection
<1>7. i - 1 \in T
  BY <1>1
<1>8. PICK r \in S : f[r] = i - 1
  BY <1>6, <1>7 DEF Surjection
<1> QED BY <1>8

LEMMA PlaceIsUnique ==
  ASSUME NEW S, Ranked(S), NEW r \in S, NEW s \in S,
         Cardinality(Better(S, r)) = Cardinality(Better(S, s))
  PROVE  r = s
<1>1. r.rank \in Nat /\ s.rank \in Nat
  BY DEF Ranked, PageRows
<1>2. ~(r.rank < s.rank) /\ ~(s.rank < r.rank)
  BY BetterCounts
<1>3. r.rank = s.rank
  BY <1>1, <1>2
<1> QED BY <1>3 DEF Ranked

\* The first rows are those with the fewest better ones, in that order.
LEMMA FirstRows ==
  ASSUME NEW S, Ranked(S), NEW n \in Nat
  PROVE  LET m == IF n <= Cardinality(S) THEN n ELSE Cardinality(S)
             hits == FirstOf(S, n)
         IN /\ m \in Nat /\ Cardinality(S) \in Nat /\ hits \in Seq(S) /\ Len(hits) = m
            /\ \A i \in 1 .. m : hits[i] \in S /\ Cardinality(Better(S, hits[i])) = i - 1
            /\ Range(hits) = {r \in S : Cardinality(Better(S, r)) < n}
<1> DEFINE m == IF n <= Cardinality(S) THEN n ELSE Cardinality(S)
           hits == FirstOf(S, n)
           C(i) == CHOOSE r \in S : Cardinality(Better(S, r)) = i - 1
<1>1. Cardinality(S) \in Nat /\ m \in Nat
  BY FS_CardinalityType DEF Ranked
<1>2. hits = [i \in 1 .. m |-> C(i)]
  BY <1>1, MinOfTwo DEF FirstOf
<1>3. ASSUME NEW i \in 1 .. m PROVE C(i) \in S /\ Cardinality(Better(S, C(i))) = i - 1
  <2>1. i \in 1 .. Cardinality(S)
    BY <1>1
  <2>2. \E r \in S : Cardinality(Better(S, r)) = i - 1
    BY <2>1, EveryPlaceTaken
  <2> QED BY <2>2
<1> HIDE DEF C
<1>4. \A i \in 1 .. m : hits[i] \in S /\ Cardinality(Better(S, hits[i])) = i - 1
  BY <1>2, <1>3
<1>5. hits \in Seq(S) /\ Len(hits) = m /\ DOMAIN hits = 1 .. m
  BY <1>1, <1>2, <1>3
<1> HIDE DEF hits
<1>6. Range(hits) = {r \in S : Cardinality(Better(S, r)) < n}
  <2>1. ASSUME NEW r \in S, Cardinality(Better(S, r)) < n PROVE r \in Range(hits)
    <3> DEFINE i == Cardinality(Better(S, r)) + 1
    <3>1. Cardinality(Better(S, r)) \in 0 .. Cardinality(S) - 1
      BY BetterCounts
    <3>2. i \in 1 .. m /\ i - 1 = Cardinality(Better(S, r))
      BY <1>1, <2>1, <3>1
    <3> HIDE DEF i
    <3>3. hits[i] = r
      BY <1>4, <3>2, PlaceIsUnique
    <3> QED BY <1>5, <3>2, <3>3 DEF Range
  <2>2. ASSUME NEW r \in Range(hits) PROVE r \in S /\ Cardinality(Better(S, r)) < n
    <3>1. PICK i \in 1 .. m : r = hits[i]
      BY <1>5 DEF Range
    <3> QED BY <1>1, <1>4, <3>1
  <2> QED BY <2>1, <2>2
<1> QED BY <1>1, <1>4, <1>5, <1>6 DEF hits

\* The rows up to the last of the first ones are the first ones.
LEMMA UpToLast ==
  ASSUME NEW S, Ranked(S), NEW n \in 1 .. Cardinality(S)
  PROVE  LET last == FirstOf(S, n)[n]
         IN last \in S /\ Range(FirstOf(S, n)) = {r \in S : r.rank <= last.rank}
<1> DEFINE last == FirstOf(S, n)[n]
<1>1. n \in Nat /\ Cardinality(S) \in Nat /\ n <= Cardinality(S) /\ n \in 1 .. n
  BY FS_CardinalityType DEF Ranked
<1>2. /\ last \in S /\ Cardinality(Better(S, last)) = n - 1
      /\ Range(FirstOf(S, n)) = {r \in S : Cardinality(Better(S, r)) < n}
  BY <1>1, FirstRows
<1> HIDE DEF last
<1>3. ASSUME NEW r \in S PROVE Cardinality(Better(S, r)) < n <=> r.rank <= last.rank
  <2>1. r.rank \in Nat /\ last.rank \in Nat
    BY <1>2 DEF Ranked, PageRows
  <2>2. Cardinality(Better(S, r)) \in Nat
    BY BetterCounts
  <2>3. CASE r.rank < last.rank
    <3>1. Cardinality(Better(S, r)) < Cardinality(Better(S, last))
      BY <1>2, <2>3, BetterCounts
    <3> QED BY <1>1, <1>2, <2>1, <2>2, <2>3, <3>1
  <2>4. CASE r.rank = last.rank
    <3>1. r = last
      BY <1>2, <2>4 DEF Ranked
    <3> QED BY <1>1, <1>2, <2>1, <3>1
  <2>5. CASE r.rank > last.rank
    <3>1. Cardinality(Better(S, last)) < Cardinality(Better(S, r))
      BY <1>2, <2>1, <2>5, BetterCounts
    <3> QED BY <1>1, <1>2, <2>1, <2>2, <2>5, <3>1
  <2> QED BY <2>1, <2>3, <2>4, <2>5
<1> QED BY <1>2, <1>3 DEF last

\* Rows cut at a rank begin as the whole does, as far as they go.
LEMMA CutBeginsTheSame ==
  ASSUME NEW S, Ranked(S), NEW b \in Nat, NEW n \in Nat,
         Cardinality({r \in S : r.rank <= b}) >= n
  PROVE  FirstOf({r \in S : r.rank <= b}, n) = FirstOf(S, n)
<1> DEFINE A == {r \in S : r.rank <= b}
<1>1. A \in SUBSET S /\ Ranked(A) /\ IsFiniteSet(S)
  BY FS_Subset DEF Ranked
<1>2. /\ Cardinality(A) \in Nat /\ Cardinality(S) \in Nat /\ Cardinality(A) <= Cardinality(S)
      /\ Cardinality(A) >= n
  BY <1>1, FS_Subset, FS_CardinalityType DEF Ranked
<1>3. \A r \in S : r.rank \in Nat
  BY DEF Ranked, PageRows
<1>4. ASSUME NEW i \in 1 .. n
      PROVE  {r \in A : Cardinality(Better(A, r)) = i - 1} = {r \in S : Cardinality(Better(S, r)) = i - 1}
  <2>1. \A r \in A : Better(A, r) = Better(S, r)
    BY <1>3 DEF Better
  <2>2. ASSUME NEW r \in S, Cardinality(Better(S, r)) = i - 1 PROVE r \in A
    <3> SUFFICES ASSUME r.rank > b PROVE FALSE
      BY <1>3
    <3>1. A \in SUBSET Better(S, r)
      BY <1>3 DEF Better
    <3>2. Cardinality(A) <= Cardinality(Better(S, r))
      BY <3>1, BetterCounts, FS_Subset
    <3> HIDE DEF A
    <3> QED BY <1>2, <2>2, <3>2
  <2> QED BY <2>1, <2>2
<1>5. Min({n, Cardinality(A)}) = n /\ Min({n, Cardinality(S)}) = n
  <2> HIDE DEF A
  <2> QED BY <1>2, MinOfTwo
<1> HIDE DEF A
<1>6. \A i \in 1 .. n : (CHOOSE r \in A : Cardinality(Better(A, r)) = i - 1)
                        = (CHOOSE r \in S : Cardinality(Better(S, r)) = i - 1)
  <2> SUFFICES ASSUME NEW i \in 1 .. n
               PROVE  (CHOOSE r \in A : Cardinality(Better(A, r)) = i - 1)
                        = (CHOOSE r \in S : Cardinality(Better(S, r)) = i - 1)
    OBVIOUS
  <2>1. \A r : (r \in A /\ Cardinality(Better(A, r)) = i - 1) <=> (r \in S /\ Cardinality(Better(S, r)) = i - 1)
    BY <1>4
  <2> QED BY <2>1, Zenon
<1> DEFINE InCut(i) == CHOOSE r \in A : Cardinality(Better(A, r)) = i - 1
           InAll(i) == CHOOSE r \in S : Cardinality(Better(S, r)) = i - 1
<1>7. FirstOf(A, n) = [i \in 1 .. n |-> InCut(i)] /\ FirstOf(S, n) = [i \in 1 .. n |-> InAll(i)]
  BY <1>5 DEF FirstOf
<1>8. \A i \in 1 .. n : InCut(i) = InAll(i)
  BY <1>6
<1> HIDE DEF InCut, InAll
<1>9. FirstOf(A, n) = FirstOf(S, n)
  BY <1>7, <1>8
<1> QED BY <1>9 DEF A
-----------------------------------------------------------------------------
(* What a page holds of an index. *)

LEMMA RowsAreRanked ==
  ASSUME NEW q \in Queries, NEW index \in Indexes
  PROVE  /\ Matches(q, index) \in SUBSET Paths /\ IsFiniteSet(Matches(q, index))
         /\ Cardinality(Matches(q, index)) \in Nat
         /\ Ranked(RowsIn(q, index)) /\ Cardinality(RowsIn(q, index)) = Cardinality(Matches(q, index))
         /\ \A r \in RowsIn(q, index) : r.rank \in Nat \ {0} /\ r.path \in Matches(q, index)
         /\ \A S \in SUBSET RowsIn(q, index) : Ranked(S)
<1> DEFINE M == Matches(q, index)
           T == RowsIn(q, index)
<1>1. M \in SUBSET Paths /\ IsFiniteSet(M) /\ Cardinality(M) \in Nat
  <2>1. M \in SUBSET Paths
    BY DEF Matches
  <2> QED BY <2>1, PagesAssumption, FS_Subset, FS_CardinalityType
<1>2. ASSUME NEW p \in M
      PROVE  /\ Row(q, index, p) \in PageRows /\ Row(q, index, p).rank > 0 /\ Row(q, index, p).path = p
             /\ index[p] \in Records /\ Row(q, index, p).rank = MatchRank[q][p][index[p]]
  <2>1. p \in Paths /\ RankOf(q, p, index[p]) > 0 /\ index[p] \in Records \cup {Nothing}
    BY DEF Matches, Indexes
  <2>2. index[p] # Nothing
    BY <2>1 DEF RankOf
  <2>3. RankOf(q, p, index[p]) = MatchRank[q][p][index[p]] /\ MatchRank[q][p][index[p]] \in Nat
    BY <2>1, <2>2, PagesAssumption DEF RankOf
  <2> QED BY <2>1, <2>2, <2>3 DEF Row, PageRows
<1>3. \A r, s \in T : r.rank = s.rank => r = s
  <2> SUFFICES ASSUME NEW p1 \in M, NEW p2 \in M, Row(q, index, p1).rank = Row(q, index, p2).rank
               PROVE  p1 = p2
    BY DEF RowsIn
  <2>1. /\ p1 \in Paths /\ p2 \in Paths /\ index[p1] \in Records /\ index[p2] \in Records
        /\ MatchRank[q][p1][index[p1]] = MatchRank[q][p2][index[p2]] /\ MatchRank[q][p1][index[p1]] > 0
    BY <1>1, <1>2
  <2> QED BY <2>1, PagesAssumption
<1> DEFINE f == [p \in M |-> Row(q, index, p)]
<1>4. f \in Bijection(M, T)
  <2>1. f \in [M -> T] /\ \A r \in T : \E p \in M : f[p] = r
    BY DEF RowsIn
  <2>2. \A p1, p2 \in M : f[p1] = f[p2] => p1 = p2
    BY <1>2
  <2> QED BY <2>1, <2>2 DEF Bijection, Injection, Surjection, IsInjective
<1>5. IsFiniteSet(T) /\ Cardinality(T) = Cardinality(M)
  <2>1. ExistsBijection(M, T)
    BY <1>4 DEF ExistsBijection
  <2> HIDE DEF M, T
  <2> QED BY <1>1, <2>1, FS_Bijection
<1>6. \A r \in T : r \in PageRows /\ r.rank \in Nat \ {0} /\ r.path \in M
  <2> SUFFICES ASSUME NEW p \in M
               PROVE  Row(q, index, p) \in PageRows /\ Row(q, index, p).rank \in Nat \ {0} /\ Row(q, index, p).path \in M
    BY DEF RowsIn
  <2> QED BY <1>2 DEF PageRows
<1>7. Ranked(T)
  BY <1>3, <1>5, <1>6 DEF Ranked
<1>8. \A S \in SUBSET T : Ranked(S)
  <2> HIDE DEF T
  <2> QED BY <1>7, FS_Subset DEF Ranked
<1> QED BY <1>1, <1>5, <1>6, <1>7, <1>8

\* A page cut at its capacity holds every row up to its new boundary.
LEMMA TrimExact ==
  ASSUME NEW index \in Indexes, NEW page \in PageSet, PageOf(page, index)
  PROVE  Trim(page) \in PageSet /\ PageOf(Trim(page), index) /\ Trim(page).query = page.query
<1> DEFINE T == RowsIn(page.query, index)
           S == page.rows
<1>1. page.query \in Queries /\ page.boundary \in Nat /\ S \in SUBSET PageRows
  BY DEF PageSet
<1>2. S \in SUBSET T /\ Ranked(S) /\ Ranked(T) /\ (\A r \in T : r.rank \in Nat \ {0})
  BY <1>1, RowsAreRanked DEF PageOf
<1>3. Capacity \in Nat \ {0} /\ Cardinality(S) \in Nat
  BY <1>2, PagesAssumption, FS_CardinalityType DEF Ranked
<1>4. CASE Cardinality(S) <= Capacity
  BY <1>4 DEF Trim
<1>5. CASE ~(Cardinality(S) <= Capacity)
  <2> DEFINE last == FirstOf(S, Capacity)[Capacity]
  <2>1. Capacity \in 1 .. Cardinality(S)
    BY <1>3, <1>5
  <2>2. last \in S
    BY <1>2, <2>1, UpToLast
  <2> HIDE DEF last
  <2>3. last.rank \in Nat \ {0} /\ (page.boundary # 0 => last.rank <= page.boundary)
    BY <1>2, <2>2 DEF PageOf
  <2>4. Trim(page) = [page EXCEPT !.rows = {r \in S : r.rank <= last.rank}, !.boundary = last.rank]
    BY <1>5 DEF Trim, last
  <2>5. /\ Trim(page) \in PageSet /\ Trim(page).query = page.query /\ Trim(page).matched = page.matched
        /\ Trim(page).boundary = last.rank /\ Trim(page).rows = {r \in S : r.rank <= last.rank}
    BY <1>1, <2>3, <2>4 DEF PageSet
  <2>6. {r \in S : r.rank <= last.rank} = {r \in T : r.rank <= last.rank}
    <3>1. ASSUME NEW r \in T, r.rank <= last.rank PROVE r \in S
      BY <1>1, <1>2, <2>3, <3>1 DEF PageOf
    <3> QED BY <1>2, <3>1
  <2> QED BY <2>3, <2>5, <2>6 DEF PageOf
<1> QED BY <1>4, <1>5

\* One record replaced in the index is one row corrected in the page.
LEMMA UpdateExact ==
  ASSUME NEW index \in Indexes, NEW page \in PageSet, PageOf(page, index),
         NEW p \in Paths, NEW new \in Records \cup {Nothing}
  PROVE  LET after == UpdatePage(page, p, index[p], new)
         IN after \in PageSet /\ PageOf(after, [index EXCEPT ![p] = new]) /\ after.query = page.query
<1> DEFINE q == page.query
           old == index[p]
           next == [index EXCEPT ![p] = new]
           rank == RankOf(q, p, new)
           row == [path |-> p, rank |-> rank, record |-> new]
           less == [page EXCEPT !.matched = IF RankOf(page.query, p, old) > 0 THEN @ - 1 ELSE @,
                                !.rows = {r \in @ : r.path # p}]
           more == [less EXCEPT !.matched = @ + 1]
           put == [more EXCEPT !.rows = @ \cup {row}]
<1>1. /\ q \in Queries /\ page.matched \in Int /\ page.boundary \in Nat /\ page.rows \in SUBSET PageRows
  BY DEF PageSet
<1>2. next \in Indexes /\ next[p] = new /\ \A m \in Paths : m # p => next[m] = index[m]
  BY DEF Indexes
<1>3. rank \in Nat
  BY <1>1, PagesAssumption DEF RankOf
<1>4. /\ Matches(q, index) \in SUBSET Paths /\ IsFiniteSet(Matches(q, index))
      /\ Cardinality(Matches(q, index)) \in Nat /\ page.matched = Cardinality(Matches(q, index))
  BY <1>1, RowsAreRanked DEF PageOf
<1>5. Matches(q, next) = IF rank = 0 THEN Matches(q, index) \ {p} ELSE Matches(q, index) \cup {p}
  <2>1. \A m \in Paths : m # p => (m \in Matches(q, next) <=> m \in Matches(q, index))
    BY <1>2 DEF Matches
  <2>2. p \in Matches(q, next) <=> rank # 0
    BY <1>2, <1>3 DEF Matches
  <2>3. Matches(q, next) \subseteq Paths
    BY DEF Matches
  <2> HIDE DEF next, rank
  <2> QED BY <1>4, <2>1, <2>2, <2>3
<1>6. p \in Matches(q, index) <=> RankOf(q, p, old) > 0
  BY DEF Matches
<1>7. \A m \in Paths : m # p => Row(q, next, m) = Row(q, index, m)
  BY <1>2 DEF Row
<1>8. {r \in RowsIn(q, next) : r.path # p} = {r \in RowsIn(q, index) : r.path # p}
  <2>1. \A m \in Paths : Row(q, next, m).path = m /\ Row(q, index, m).path = m
    BY DEF Row
  <2>2. \A m \in Paths : m # p => (m \in Matches(q, next) <=> m \in Matches(q, index))
    BY <1>4, <1>5
  <2>3. Matches(q, next) \subseteq Paths
    BY DEF Matches
  <2> HIDE DEF next
  <2> QED BY <1>4, <1>7, <2>1, <2>2, <2>3 DEF RowsIn
<1>9. {r \in RowsIn(q, next) : r.path = p} = IF rank = 0 THEN {} ELSE {row}
  <2>1. Row(q, next, p) = row
    BY <1>2 DEF Row
  <2>2. \A m \in Paths : Row(q, next, m).path = m
    BY DEF Row
  <2>3. Matches(q, next) \subseteq Paths /\ (p \in Matches(q, next) <=> rank # 0)
    BY <1>4, <1>5 DEF Matches
  <2> HIDE DEF next, row, rank
  <2> QED BY <2>1, <2>2, <2>3 DEF RowsIn
<1>10. /\ less \in PageSet /\ less.query = q /\ less.boundary = page.boundary
       /\ less.matched = Cardinality(Matches(q, index) \ {p})
       /\ less.rows = {r \in page.rows : r.path # p}
  <2>1. /\ less \in PageSet /\ less.query = q /\ less.boundary = page.boundary
        /\ less.matched = IF RankOf(q, p, old) > 0 THEN page.matched - 1 ELSE page.matched
        /\ less.rows = {r \in page.rows : r.path # p}
    <3> DEFINE k == IF RankOf(q, p, old) > 0 THEN page.matched - 1 ELSE page.matched
               R == {r \in page.rows : r.path # p}
    <3>1. k \in Int /\ R \in SUBSET PageRows
      BY <1>1
    <3>2. less = [page EXCEPT !.matched = k, !.rows = R]
      OBVIOUS
    <3> HIDE DEF k, R, less
    <3>3. less \in PageSet /\ less.query = q /\ less.boundary = page.boundary /\ less.matched = k /\ less.rows = R
      BY <3>1, <3>2 DEF PageSet
    <3> QED BY <3>3 DEF k, R
  <2>2. Cardinality(Matches(q, index) \ {p})
          = IF p \in Matches(q, index) THEN Cardinality(Matches(q, index)) - 1 ELSE Cardinality(Matches(q, index))
    BY <1>4, FS_RemoveElement
  <2> HIDE DEF less
  <2> QED BY <1>4, <1>6, <2>1, <2>2
<1>11. Cardinality(Matches(q, index) \cup {p}) = Cardinality(Matches(q, index) \ {p}) + 1
  <2>1. IsFiniteSet(Matches(q, index) \ {p}) /\ p \notin Matches(q, index) \ {p}
    BY <1>4, FS_RemoveElement
  <2>2. (Matches(q, index) \ {p}) \cup {p} = Matches(q, index) \cup {p}
    OBVIOUS
  <2> QED BY <2>1, <2>2, FS_AddElement
<1>12. /\ more \in PageSet /\ more.query = q /\ more.boundary = page.boundary
       /\ more.matched = Cardinality(Matches(q, index) \cup {p})
       /\ more.rows = {r \in page.rows : r.path # p}
  <2>1. /\ more \in PageSet /\ more.query = q /\ more.boundary = page.boundary
        /\ more.matched = less.matched + 1 /\ more.rows = less.rows
    <3> HIDE DEF less
    <3> QED BY <1>10 DEF PageSet
  <2> HIDE DEF less, more
  <2> QED BY <1>10, <1>11, <2>1
<1>13. page.rows = IF page.boundary = 0 THEN RowsIn(q, index)
                   ELSE {r \in RowsIn(q, index) : r.rank <= page.boundary}
  BY DEF PageOf
<1> HIDE DEF less, more
<1>14. CASE rank = 0
  <2>1. UpdatePage(page, p, old, new) = less
    BY <1>14 DEF UpdatePage, less
  <2>2. \A r \in RowsIn(q, next) : r.path # p
    BY <1>9, <1>14
  <2>3. RowsIn(q, next) = {r \in RowsIn(q, index) : r.path # p}
    BY <1>8, <2>2
  <2>4. less.rows = IF less.boundary = 0 THEN RowsIn(q, next)
                    ELSE {r \in RowsIn(q, next) : r.rank <= less.boundary}
    <3> HIDE DEF next
    <3> QED BY <1>10, <1>13, <2>3
  <2>5. Matches(q, next) = Matches(q, index) \ {p}
    BY <1>5, <1>14
  <2> QED BY <1>10, <2>1, <2>4, <2>5 DEF PageOf
<1>15. CASE rank # 0 /\ page.boundary # 0 /\ rank > page.boundary
  <2>1. UpdatePage(page, p, old, new) = more
    BY <1>15 DEF UpdatePage, less, more
  <2>2. \A r \in RowsIn(q, next) : r.path = p => r = row /\ r.rank = rank
    BY <1>9, <1>15
  <2>3. {r \in RowsIn(q, next) : r.rank <= page.boundary}
          = {r \in {s \in RowsIn(q, index) : s.path # p} : r.rank <= page.boundary}
    <3> HIDE DEF next, rank, row
    <3> QED BY <1>1, <1>3, <1>8, <1>15, <2>2
  <2>4. more.rows = {r \in RowsIn(q, next) : r.rank <= more.boundary}
    <3> HIDE DEF next, rank, row
    <3> QED BY <1>12, <1>13, <1>15, <2>3
  <2>5. Matches(q, next) = Matches(q, index) \cup {p}
    BY <1>5, <1>15
  <2>6. PageOf(more, next)
    <3> HIDE DEF next, rank, row
    <3> QED BY <1>12, <1>15, <2>4, <2>5 DEF PageOf
  <2> QED BY <1>12, <2>1, <2>6
<1>16. CASE rank # 0 /\ ~(page.boundary # 0 /\ rank > page.boundary)
  <2>1. UpdatePage(page, p, old, new) = Trim(put)
    BY <1>16 DEF UpdatePage, less, more
  <2>2. row \in PageRows /\ row.rank = rank /\ row.path = p
    BY <1>3 DEF PageRows
  <2>3. /\ put \in PageSet /\ put.query = q /\ put.boundary = page.boundary
        /\ put.matched = more.matched /\ put.rows = more.rows \cup {row}
    <3> HIDE DEF row
    <3> QED BY <1>12, <2>2 DEF PageSet
  <2> HIDE DEF put
  <2>4. RowsIn(q, next) = {r \in RowsIn(q, index) : r.path # p} \cup {row}
    <3> HIDE DEF next, row, rank
    <3> QED BY <1>8, <1>9, <1>16
  <2>5. put.rows = IF put.boundary = 0 THEN RowsIn(q, next)
                   ELSE {r \in RowsIn(q, next) : r.rank <= put.boundary}
    <3>1. CASE page.boundary = 0
      <4> HIDE DEF next, row, rank
      <4> QED BY <1>12, <1>13, <2>3, <2>4, <3>1
    <3>2. CASE page.boundary # 0
      <4>1. row.rank <= page.boundary
        BY <1>1, <1>3, <1>16, <2>2, <3>2
      <4> HIDE DEF next, row, rank
      <4> QED BY <1>12, <1>13, <2>3, <2>4, <3>2, <4>1
    <3> QED BY <3>1, <3>2
  <2>6. Matches(q, next) = Matches(q, index) \cup {p}
    BY <1>5, <1>16
  <2>7. PageOf(put, next)
    <3> HIDE DEF next, row
    <3> QED BY <1>12, <2>3, <2>5, <2>6 DEF PageOf
  <2>8. Trim(put) \in PageSet /\ PageOf(Trim(put), next) /\ Trim(put).query = put.query
    <3> HIDE DEF next
    <3> QED BY <1>2, <2>3, <2>7, TrimExact
  <2> QED BY <2>1, <2>3, <2>8
<1> QED BY <1>14, <1>15, <1>16
-----------------------------------------------------------------------------
(* The journal: the edits since a token lead from one index to another. *)
Edits == [revision : Nat, path : Paths, old : Records \cup {Nothing}, new : Records \cup {Nothing},
          invalidated : BOOLEAN]

StepsTo(h, edits, token) ==
  \A k \in 1 .. Len(edits) :
    IF edits[k].revision > token
    THEN edits[k].old = h[k - 1][edits[k].path] /\ h[k] = [h[k - 1] EXCEPT ![edits[k].path] = edits[k].new]
    ELSE h[k] = h[k - 1]
Usable(edits, token) == \A i \in 1 .. Len(edits) : edits[i].revision > token => ~edits[i].invalidated
Leads(edits, token, from, to) ==
  Usable(edits, token) =>
    \E h \in [0 .. Len(edits) -> Indexes] : h[0] = from /\ h[Len(edits)] = to /\ StepsTo(h, edits, token)

\* Edits that are all older than the token change nothing.
LEMMA LeadsNowhere ==
  ASSUME NEW edits \in Seq(Edits), NEW token \in Nat, NEW index \in Indexes,
         \A i \in 1 .. Len(edits) : edits[i].revision <= token
  PROVE  Leads(edits, token, index, index)
<1> DEFINE h == [k \in 0 .. Len(edits) |-> index]
<1>1. Len(edits) \in Nat /\ \A i \in 1 .. Len(edits) : edits[i].revision \in Nat
  <2>1. Len(edits) \in Nat /\ \A i \in 1 .. Len(edits) : edits[i] \in Edits
    OBVIOUS
  <2>2. \A e \in Edits : e.revision \in Nat
    BY DEF Edits
  <2> QED BY <2>1, <2>2
<1>2. h \in [0 .. Len(edits) -> Indexes] /\ h[0] = index /\ h[Len(edits)] = index
  BY <1>1
<1>3. StepsTo(h, edits, token)
  BY <1>1 DEF StepsTo
<1> HIDE DEF h
<1> QED BY <1>2, <1>3 DEF Leads

\* One more edit leads one step further.
LEMMA LeadsOn ==
  ASSUME NEW edits \in Seq(Edits), NEW token \in Nat, NEW from \in Indexes, NEW to \in Indexes,
         Leads(edits, token, from, to), NEW e \in Edits, e.revision > token, NEW next \in Indexes,
         e.invalidated \/ (e.old = to[e.path] /\ next = [to EXCEPT ![e.path] = e.new])
  PROVE  Leads(Append(edits, e), token, from, next)
<1> DEFINE n == Len(edits)
           more == Append(edits, e)
<1>1. /\ n \in Nat /\ Len(more) = n + 1 /\ more[n + 1] = e /\ \A k \in 1 .. n : more[k] = edits[k]
      /\ n + 1 \in 1 .. n + 1 /\ 1 .. n \subseteq 1 .. n + 1
  OBVIOUS
<1> HIDE DEF n, more
<1> SUFFICES ASSUME Usable(more, token)
             PROVE  \E h \in [0 .. n + 1 -> Indexes] : h[0] = from /\ h[n + 1] = next /\ StepsTo(h, more, token)
  BY <1>1 DEF Leads, more
<1>2. ~e.invalidated /\ e.old = to[e.path] /\ next = [to EXCEPT ![e.path] = e.new]
  BY <1>1 DEF Usable
<1>3. Usable(edits, token)
  BY <1>1 DEF Usable, n
<1>4. PICK g \in [0 .. n -> Indexes] : g[0] = from /\ g[n] = to /\ StepsTo(g, edits, token)
  BY <1>3 DEF Leads, n
<1> DEFINE h == [k \in 0 .. n + 1 |-> IF k <= n THEN g[k] ELSE next]
<1>5. h \in [0 .. n + 1 -> Indexes] /\ h[0] = from /\ h[n + 1] = next /\ h[n] = to /\ \A k \in 0 .. n : h[k] = g[k]
  BY <1>1, <1>4
<1> HIDE DEF h
<1>6. StepsTo(h, more, token)
  <2> SUFFICES ASSUME NEW k \in 1 .. n + 1
               PROVE  IF more[k].revision > token
                      THEN more[k].old = h[k - 1][more[k].path] /\ h[k] = [h[k - 1] EXCEPT ![more[k].path] = more[k].new]
                      ELSE h[k] = h[k - 1]
    BY <1>1 DEF StepsTo
  <2>1. CASE k = n + 1
    <3>1. k - 1 = n
      BY <1>1, <2>1
    <3> QED BY <1>1, <1>2, <1>5, <2>1, <3>1
  <2>2. CASE k \in 1 .. n
    <3>1. k \in 0 .. n /\ k - 1 \in 0 .. n
      BY <1>1, <2>2
    <3>2. IF edits[k].revision > token
          THEN edits[k].old = g[k - 1][edits[k].path] /\ g[k] = [g[k - 1] EXCEPT ![edits[k].path] = edits[k].new]
          ELSE g[k] = g[k - 1]
      BY <1>4, <2>2 DEF StepsTo, n
    <3> QED BY <1>1, <1>5, <2>2, <3>1, <3>2
  <2> QED BY <1>1, <2>1, <2>2
<1> QED BY <1>5, <1>6

\* A set of numbers with a bound has a greatest one.
LEMMA GreatestNumber ==
  ASSUME NEW S, S \subseteq Nat, S # {}, NEW b \in Nat, \A x \in S : x <= b
  PROVE  Max(S) \in S /\ \A x \in S : x <= Max(S)
<1> DEFINE T == {n \in Nat : \A x \in S : x <= n}
<1>1. PICK n \in T : \A m \in T : n <= m
  <2>1. T \subseteq Nat /\ T # {}
    OBVIOUS
  <2> HIDE DEF T
  <2> QED BY <2>1, Corrected!LeastNumber
<1>2. n \in S
  <2> SUFFICES ASSUME n \notin S PROVE FALSE
    OBVIOUS
  <2>1. \A x \in S : x <= n - 1
    BY <1>1
  <2>2. n - 1 \in T
    <3>1. PICK x \in S : x \in Nat
      OBVIOUS
    <3>2. n \in Nat /\ x <= n - 1
      BY <1>1, <2>1
    <3>3. n - 1 \in Nat
      BY <3>1, <3>2
    <3> QED BY <2>1, <3>3
  <2> QED BY <1>1, <2>2
<1>3. \E x \in S : \A y \in S : x >= y
  BY <1>1, <1>2
<1>4. Max(S) \in S /\ \A y \in S : Max(S) >= y
  BY <1>3, Zenon DEF Max
<1> QED BY <1>4

Journals == [revision : Nat, floor : Nat, edits : Seq(Edits)]

\* What is cut off the journal is never needed for a token that its floor allows.
LEMMA TrimKeepsLead ==
  ASSUME NEW j \in Journals, \A i \in 1 .. Len(j.edits) : j.edits[i].revision <= j.revision
  PROVE  LET t == TrimJournal(j)
         IN /\ t \in Journals /\ t.revision = j.revision /\ j.floor <= t.floor
            /\ \A i \in 1 .. Len(t.edits) : t.edits[i].revision <= t.revision
            /\ \A token \in Nat : \A from, to \in Indexes :
                 token >= t.floor /\ Leads(j.edits, token, from, to) => Leads(t.edits, token, from, to)
<1> DEFINE n == Len(j.edits)
           cut == n - Retained
           lost == {j.edits[i].revision : i \in 1 .. cut}
           t == TrimJournal(j)
<1>1. /\ j.revision \in Nat /\ j.floor \in Nat /\ j.edits \in Seq(Edits) /\ n \in Nat
      /\ \A i \in 1 .. n : j.edits[i] \in Edits /\ j.edits[i].revision \in Nat
  <2>1. j.revision \in Nat /\ j.floor \in Nat /\ j.edits \in Seq(Edits)
    BY DEF Journals
  <2>2. n \in Nat /\ \A i \in 1 .. n : j.edits[i] \in Edits
    BY <2>1
  <2>3. \A e \in Edits : e.revision \in Nat
    BY DEF Edits
  <2> QED BY <2>1, <2>2, <2>3
<1>2. Retained \in Nat
  BY PagesAssumption
<1>3. CASE cut <= 0
  <2>1. t = j
    BY <1>3 DEF TrimJournal
  <2> QED BY <1>1, <2>1
<1>4. CASE ~(cut <= 0)
  <2>1. cut \in 1 .. n /\ cut \in Nat /\ n - cut \in Nat
    BY <1>1, <1>2, <1>4
  <2>2. lost \subseteq Nat /\ \A x \in lost : x <= j.revision
    BY <1>1, <2>1
  <2>3. Max({j.floor} \cup lost) \in Nat /\ \A x \in {j.floor} \cup lost : x <= Max({j.floor} \cup lost)
    <3> DEFINE all == {j.floor} \cup lost
               b == j.revision + j.floor
    <3>1. all \subseteq Nat /\ all # {} /\ b \in Nat /\ \A x \in all : x <= b
      <4> HIDE DEF lost
      <4>0. all \subseteq Nat /\ all # {}
        BY <1>1, <2>2
      <4>1. b \in Nat /\ j.floor <= b
        <5> HIDE DEF all
        <5> QED BY <1>1
      <4>2. ASSUME NEW x \in lost PROVE x <= b
        <5>1. x \in Nat /\ x <= j.revision
          BY <2>2
        <5> QED BY <1>1, <5>1
      <4> QED BY <4>0, <4>1, <4>2
    <3> HIDE DEF all, b
    <3>2. Max(all) \in all /\ \A x \in all : x <= Max(all)
      BY <3>1, GreatestNumber
    <3> QED BY <3>1, <3>2 DEF all
  <2> DEFINE u == SubSeq(j.edits, cut + 1, n)
             floor == Max({j.floor} \cup lost)
  <2>4. t = [j EXCEPT !.floor = floor, !.edits = u]
    BY <1>4 DEF TrimJournal
  <2>5. u \in Seq(Edits) /\ Len(u) = n - cut /\ \A i \in 1 .. n - cut : u[i] = j.edits[cut + i]
    <3>0. n = Len(j.edits)
      OBVIOUS
    <3> HIDE DEF n, cut
    <3>1. cut + 1 \in Nat /\ n - (cut + 1) + 1 = n - cut /\ (\A i \in 1 .. n - cut : cut + 1 + i - 1 = cut + i)
          /\ cut + 1 \in 1 .. n + 1
      BY <1>1, <2>1
    <3>2. u \in Seq(Edits)
      BY <1>1, <2>1, <3>0, <3>1
    <3>3. Len(u) = n - cut /\ \A i \in 1 .. n - cut : u[i] = j.edits[cut + i]
      BY <1>1, <2>1, <3>0, <3>1
    <3> QED BY <3>2, <3>3
  <2> HIDE DEF u, floor, lost
  <2>6. /\ t \in Journals /\ t.revision = j.revision /\ t.floor = floor /\ t.edits = u /\ j.floor <= floor
    BY <2>3, <2>4, <2>5 DEF Journals, floor
  <2>7. \A i \in 1 .. Len(u) : u[i].revision <= j.revision
    <3>1. \A i \in 1 .. n : j.edits[i].revision <= j.revision
      OBVIOUS
    <3> HIDE DEF n, cut
    <3>2. \A i \in 1 .. n - cut : cut + i \in 1 .. n
      BY <1>1, <2>1
    <3> QED BY <2>5, <3>1, <3>2
  <2>8. ASSUME NEW token \in Nat, NEW from \in Indexes, NEW to \in Indexes,
               token >= floor, Leads(j.edits, token, from, to), Usable(u, token)
        PROVE  \E h \in [0 .. Len(u) -> Indexes] : h[0] = from /\ h[Len(u)] = to /\ StepsTo(h, u, token)
    <3>1. \A i \in 1 .. cut : j.edits[i].revision <= token
      <4> SUFFICES ASSUME NEW i \in 1 .. cut PROVE j.edits[i].revision <= token
        OBVIOUS
      <4>1. j.edits[i].revision \in {j.floor} \cup lost /\ j.edits[i].revision \in Nat
        BY <1>1, <2>1 DEF lost
      <4>2. floor \in Nat /\ j.edits[i].revision <= floor
        BY <2>3, <4>1 DEF floor
      <4> HIDE DEF floor, cut
      <4> QED BY <2>8, <4>1, <4>2
    <3>2. Usable(j.edits, token)
      <4> SUFFICES ASSUME NEW i \in 1 .. n, j.edits[i].revision > token PROVE ~j.edits[i].invalidated
        BY DEF Usable
      <4>1. i \notin 1 .. cut
        BY <1>1, <3>1
      <4>2. i - cut \in 1 .. n - cut /\ cut + (i - cut) = i
        BY <1>1, <2>1, <4>1
      <4>3. u[i - cut] = j.edits[i]
        BY <2>5, <4>2
      <4> QED BY <2>5, <2>8, <4>2, <4>3 DEF Usable
    <3>3. PICK g \in [0 .. n -> Indexes] : g[0] = from /\ g[n] = to /\ StepsTo(g, j.edits, token)
      BY <2>8, <3>2 DEF Leads
    <3>4. g[cut] = from
      <4> DEFINE Still == {k \in Nat : k <= cut => g[k] = from}
      <4>1. 0 \in Still
        BY <3>3
      <4>2. ASSUME NEW k \in Nat, k \in Still PROVE k + 1 \in Still
        <5> SUFFICES ASSUME k + 1 <= cut PROVE g[k + 1] = from
          OBVIOUS
        <5>1. k + 1 \in 1 .. cut /\ k + 1 \in 1 .. n /\ (k + 1) - 1 = k /\ g[k] = from
          BY <1>1, <2>1, <4>2
        <5>2. ~(j.edits[k + 1].revision > token)
          BY <1>1, <3>1, <5>1
        <5> QED BY <3>3, <5>1, <5>2 DEF StepsTo
      <4>3. cut \in Still
        <5> HIDE DEF Still
        <5> QED BY <2>1, <4>1, <4>2, Corrected!Induction
      <4> QED BY <2>1, <4>3
    <3> DEFINE h == [k \in 0 .. n - cut |-> g[cut + k]]
    <3>5. h \in [0 .. n - cut -> Indexes] /\ h[0] = from /\ h[n - cut] = to
      <4>1. \A k \in 0 .. n - cut : cut + k \in 0 .. n
        BY <1>1, <2>1
      <4>2. cut + 0 = cut /\ cut + (n - cut) = n /\ 0 \in 0 .. n - cut /\ n - cut \in 0 .. n - cut
        BY <1>1, <2>1
      <4> QED BY <3>3, <3>4, <4>1, <4>2
    <3>6. \A k \in 1 .. n - cut : h[k] = g[cut + k] /\ h[k - 1] = g[(cut + k) - 1]
      <4> SUFFICES ASSUME NEW k \in 1 .. n - cut PROVE h[k] = g[cut + k] /\ h[k - 1] = g[(cut + k) - 1]
        OBVIOUS
      <4>1. k \in 0 .. n - cut /\ k - 1 \in 0 .. n - cut /\ cut + (k - 1) = (cut + k) - 1
        BY <1>1, <2>1
      <4> QED BY <4>1
    <3> HIDE DEF h
    <3>7. StepsTo(h, u, token)
      <4> SUFFICES ASSUME NEW k \in 1 .. n - cut
                   PROVE  IF u[k].revision > token
                          THEN u[k].old = h[k - 1][u[k].path] /\ h[k] = [h[k - 1] EXCEPT ![u[k].path] = u[k].new]
                          ELSE h[k] = h[k - 1]
        BY <2>5 DEF StepsTo
      <4>1. cut + k \in 1 .. n
        BY <1>1, <2>1
      <4>2. IF j.edits[cut + k].revision > token
            THEN /\ j.edits[cut + k].old = g[(cut + k) - 1][j.edits[cut + k].path]
                 /\ g[cut + k] = [g[(cut + k) - 1] EXCEPT ![j.edits[cut + k].path] = j.edits[cut + k].new]
            ELSE g[cut + k] = g[(cut + k) - 1]
        BY <3>3, <4>1 DEF StepsTo
      <4> QED BY <2>5, <3>6, <4>2
    <3> QED BY <2>5, <3>5, <3>7
  <2>9. ASSUME NEW token \in Nat, NEW from \in Indexes, NEW to \in Indexes,
               token >= floor, Leads(j.edits, token, from, to)
        PROVE  Leads(u, token, from, to)
    <3> SUFFICES ASSUME Usable(u, token)
                 PROVE  \E h \in [0 .. Len(u) -> Indexes] : h[0] = from /\ h[Len(u)] = to /\ StepsTo(h, u, token)
      BY DEF Leads
    <3> QED BY <2>8, <2>9
  <2> HIDE DEF t
  <2> QED BY <2>6, <2>7, <2>9 DEF t
<1> QED BY <1>3, <1>4
-----------------------------------------------------------------------------
(* A page that is prepared. *)

\* The edits since the token make a page of the one index a page of the other.
LEMMA ReplayExact ==
  ASSUME NEW from \in Indexes, NEW to \in Indexes, NEW page \in PageSet, PageOf(page, from),
         journal.edits \in Seq(Edits), preparing.token \in Nat, CanReplay(preparing.token),
         Leads(journal.edits, preparing.token, from, to)
  PROVE  ReplayEdits(page) \in PageSet /\ PageOf(ReplayEdits(page), to)
<1> DEFINE n == Len(journal.edits)
<1>1. n \in Nat /\ DOMAIN journal.edits = 1 .. n /\ \A k \in 1 .. n : journal.edits[k] \in Edits
  OBVIOUS
<1>2. Usable(journal.edits, preparing.token)
  BY <1>1 DEF CanReplay, Usable
<1>3. PICK h \in [0 .. n -> Indexes] : h[0] = from /\ h[n] = to /\ StepsTo(h, journal.edits, preparing.token)
  BY <1>2 DEF Leads
<1> HIDE DEF n
<1> DEFINE Holds == [k \in 0 .. n |-> {pg \in PageSet : PageOf(pg, h[k])}]
<1>4. page \in Holds[0]
  BY <1>1, <1>3
<1>5. ASSUME NEW k \in 1 .. n, NEW a \in Holds[k - 1] PROVE Replay(a, journal.edits[k]) \in Holds[k]
  <2> DEFINE e == journal.edits[k]
  <2>1. k \in 0 .. n /\ k - 1 \in 0 .. n
    BY <1>1
  <2>2. a \in PageSet /\ PageOf(a, h[k - 1]) /\ h[k - 1] \in Indexes /\ h[k] \in Indexes
    BY <1>3, <2>1
  <2>3. e \in Edits /\ e.path \in Paths /\ e.new \in Records \cup {Nothing}
    BY <1>1 DEF Edits
  <2>4. IF e.revision > preparing.token
        THEN e.old = h[k - 1][e.path] /\ h[k] = [h[k - 1] EXCEPT ![e.path] = e.new]
        ELSE h[k] = h[k - 1]
    BY <1>3 DEF StepsTo, n
  <2> HIDE DEF e
  <2>5. Replay(a, e) \in PageSet /\ PageOf(Replay(a, e), h[k])
    <3>1. CASE e.revision > preparing.token
      <4>1. /\ UpdatePage(a, e.path, h[k - 1][e.path], e.new) \in PageSet
            /\ PageOf(UpdatePage(a, e.path, h[k - 1][e.path], e.new), [h[k - 1] EXCEPT ![e.path] = e.new])
        BY <2>2, <2>3, UpdateExact
      <4> QED BY <2>4, <3>1, <4>1 DEF Replay
    <3>2. CASE ~(e.revision > preparing.token)
      BY <2>2, <2>4, <3>2 DEF Replay
    <3> QED BY <3>1, <3>2
  <2> QED BY <2>1, <2>5 DEF e
<1>6. FoldLeft(Replay, page, journal.edits) \in Holds[n]
  <2> HIDE DEF Holds
  <2>1. Corrected!FoldLeft(Replay, page, journal.edits) \in Holds[n]
    BY <1>1, <1>4, <1>5, Corrected!FoldLeftInvariant
  <2> QED BY <2>1, PageFoldsAgree, Zenon
<1> QED BY <1>1, <1>3, <1>6 DEF ReplayEdits

\* What a search of a snapshot found is a page of it.
LEMMA SearchedPage ==
  ASSUME NEW q \in Queries, NEW index \in Indexes
  PROVE  LET found == Search(q, index, 0, Capacity)
             page == [query |-> q, matched |-> found.matched, rows |-> Range(found.hits),
                      boundary |-> IF found.matched > Len(found.hits) THEN Last(found.hits).rank ELSE 0]
         IN page \in PageSet /\ PageOf(page, index)
<1> DEFINE found == Search(q, index, 0, Capacity)
           page == [query |-> q, matched |-> found.matched, rows |-> Range(found.hits),
                    boundary |-> IF found.matched > Len(found.hits) THEN Last(found.hits).rank ELSE 0]
           T == RowsIn(q, index)
           c == Cardinality(T)
           hits == FirstOf(T, Capacity)
<1>1. /\ Ranked(T) /\ c \in Nat /\ c = Cardinality(Matches(q, index))
      /\ \A r \in T : r.rank \in Nat \ {0}
  BY RowsAreRanked
<1>2. found.matched = c /\ found.hits = hits
  <2>1. {r \in {Row(q, index, p) : p \in Matches(q, index)} : r.rank > 0} = T
    BY <1>1 DEF RowsIn
  <2> HIDE DEF T
  <2> QED BY <1>1, <2>1 DEF Search
<1> HIDE DEF found
<1>3. Capacity \in Nat \ {0}
  BY PagesAssumption
<1> DEFINE m == IF Capacity <= c THEN Capacity ELSE c
<1>4. /\ m \in Nat /\ hits \in Seq(T) /\ Len(hits) = m
      /\ Range(hits) = {r \in T : Cardinality(Better(T, r)) < Capacity}
  <2> HIDE DEF T
  <2> QED BY <1>1, <1>3, FirstRows
<1>5. T \subseteq PageRows
  BY <1>1 DEF Ranked
<1>6. CASE c > m
  <2>1. m = Capacity /\ Capacity \in 1 .. c
    BY <1>1, <1>3, <1>6
  <2> DEFINE last == hits[Capacity]
  <2>2. last \in T /\ Range(hits) = {r \in T : r.rank <= last.rank}
    <3> HIDE DEF T
    <3> QED BY <1>1, <2>1, UpToLast
  <2> HIDE DEF T
  <2>3. Last(hits) = last
    BY <1>4, <2>1 DEF Last
  <2> HIDE DEF hits, c, m, last
  <2>4. page = [query |-> q, matched |-> c, rows |-> {r \in T : r.rank <= last.rank}, boundary |-> last.rank]
    BY <1>2, <1>4, <1>6, <2>2, <2>3
  <2>5. last.rank \in Nat \ {0}
    BY <1>1, <2>2
  <2>6. /\ page.query = q /\ page.matched = c /\ page.boundary = last.rank
        /\ page.rows = {r \in T : r.rank <= last.rank}
    BY <2>4
  <2>7. page \in PageSet
    BY <1>1, <1>5, <2>4, <2>5 DEF PageSet
  <2> HIDE DEF page
  <2>8. PageOf(page, index)
    BY <1>1, <2>5, <2>6 DEF PageOf, T
  <2> QED BY <2>7, <2>8 DEF page, found
<1>7. CASE ~(c > m)
  <2>1. c <= Capacity
    BY <1>1, <1>3, <1>7
  <2>2. Range(hits) = T
    <3>1. \A r \in T : Cardinality(Better(T, r)) \in 0 .. c - 1
      <4> HIDE DEF T
      <4> QED BY <1>1, BetterCounts
    <3>2. \A r \in T : Cardinality(Better(T, r)) < Capacity
      <4> HIDE DEF T, c
      <4> QED BY <1>1, <1>3, <2>1, <3>1
    <3> HIDE DEF T, hits
    <3> QED BY <1>4, <3>2
  <2> HIDE DEF T, c, hits, m
  <2>3. page = [query |-> q, matched |-> c, rows |-> T, boundary |-> 0]
    BY <1>2, <1>4, <1>7, <2>2
  <2>4. page.query = q /\ page.matched = c /\ page.boundary = 0 /\ page.rows = T
    BY <2>3
  <2>5. page \in PageSet
    BY <1>1, <1>5, <2>3 DEF PageSet
  <2> HIDE DEF page
  <2>6. PageOf(page, index)
    BY <1>1, <2>4 DEF PageOf, T
  <2> QED BY <2>5, <2>6 DEF page, found
<1> QED BY <1>6, <1>7

\* A page that answers says what a search would say.
LEMMA ServedExact ==
  ASSUME NEW index \in Indexes, NEW page \in PageSet, PageOf(page, index),
         NEW limit \in Nat, NEW after \in Nat
  PROVE  Served(page, after, limit) \subseteq {Search(page.query, index, after, limit)}
<1> DEFINE q == page.query
           all == RowsIn(q, index)
           T == {r \in all : r.rank > after}
           A == {r \in page.rows : r.rank > after}
<1>1. q \in Queries /\ page.boundary \in Nat /\ page.matched = Cardinality(Matches(q, index))
  BY DEF PageSet, PageOf
<1>2. Ranked(T) /\ \A r \in all : r.rank \in Nat
  <2>1. T \in SUBSET RowsIn(q, index)
    OBVIOUS
  <2> QED BY <1>1, <2>1, RowsAreRanked
<1>3. Search(q, index, after, limit) = [hits |-> FirstOf(T, limit), matched |-> Cardinality(Matches(q, index))]
  BY DEF Search, RowsIn
<1>4. Served(page, after, limit)
        = IF page.boundary # 0 /\ Len(FirstOf(A, limit)) < limit THEN {}
          ELSE {[hits |-> FirstOf(A, limit), matched |-> page.matched]}
  BY DEF Served
<1>5. CASE page.boundary = 0
  <2>1. A = T
    BY <1>5 DEF PageOf
  <2> HIDE DEF A, T
  <2> QED BY <1>1, <1>3, <1>4, <1>5, <2>1
<1>6. CASE page.boundary # 0 /\ ~(Len(FirstOf(A, limit)) < limit)
  <2>1. A = {r \in T : r.rank <= page.boundary}
    BY <1>6 DEF PageOf
  <2> HIDE DEF A, T, all
  <2>2. Ranked(A)
    <3>1. A \in SUBSET T
      BY <2>1
    <3> QED BY <1>2, <3>1, FS_Subset DEF Ranked
  <2>3. Cardinality(A) \in Nat /\ Len(FirstOf(A, limit)) = IF limit <= Cardinality(A) THEN limit ELSE Cardinality(A)
    BY <2>2, FirstRows
  <2>4. Cardinality(A) >= limit
    BY <1>6, <2>3
  <2>5. FirstOf(A, limit) = FirstOf(T, limit)
    BY <1>1, <1>2, <2>1, <2>4, CutBeginsTheSame
  <2> QED BY <1>1, <1>3, <1>4, <1>6, <2>5
<1>7. CASE page.boundary # 0 /\ Len(FirstOf(A, limit)) < limit
  BY <1>4, <1>7
<1> QED BY <1>5, <1>6, <1>7
-----------------------------------------------------------------------------
(* The counts of a term: the listed paths whose names hold it. *)
Named(index, t) == {p \in Paths : index[p] # Nothing /\ t \in Letters[p]}
Counts == [Terms -> Int]

LEMMA NamedFinite ==
  ASSUME NEW index, NEW t
  PROVE  IsFiniteSet(Named(index, t)) /\ Cardinality(Named(index, t)) \in Nat
<1>1. Named(index, t) \in SUBSET Paths
  BY DEF Named
<1> QED BY <1>1, PagesAssumption, FS_Subset, FS_CardinalityType

LEMMA CountsType ==
  ASSUME NEW index
  PROVE  CountsOf(index) \in Counts /\ \A t \in Terms : CountsOf(index)[t] = Cardinality(Named(index, t))
<1>1. \A t \in Terms : Cardinality(Named(index, t)) \in Int
  BY NamedFinite
<1>2. CountsOf(index) = [t \in Terms |-> Cardinality(Named(index, t))]
  BY DEF CountsOf, Named
<1> QED BY <1>1, <1>2 DEF Counts

\* A record put, replaced or taken away changes the counts of its own name.
LEMMA RowCounts ==
  ASSUME NEW index \in Indexes, NEW p \in Paths, NEW new \in Records \cup {Nothing},
         NEW counted \in Counts, NEW short \in Counts, Plus(counted, short) = CountsOf(index)
  PROVE  LET more == AddName(short, p, NameWeight(index[p], new))
         IN more \in Counts /\ Plus(counted, more) = CountsOf([index EXCEPT ![p] = new])
<1> DEFINE next == [index EXCEPT ![p] = new]
           weight == NameWeight(index[p], new)
           more == AddName(short, p, weight)
<1>1. weight \in Int /\ weight = (IF new = Nothing THEN 0 ELSE 1) - (IF index[p] = Nothing THEN 0 ELSE 1)
  BY DEF NameWeight
<1>2. next[p] = new /\ \A m \in Paths : m # p => next[m] = index[m]
  BY DEF Indexes
<1> HIDE DEF weight, next
<1>3. more \in Counts /\ \A t \in Terms : more[t] = IF t \in Letters[p] THEN short[t] + weight ELSE short[t]
  <2>1. \A t \in Terms : short[t] \in Int
    BY DEF Counts
  <2> QED BY <1>1, <2>1 DEF AddName, Counts
<1>4. ASSUME NEW t \in Terms
      PROVE  Cardinality(Named(next, t)) = Cardinality(Named(index, t)) + (more[t] - short[t])
  <2> DEFINE N == Named(index, t)
  <2>0. IsFiniteSet(N) /\ Cardinality(N) \in Nat /\ short[t] \in Int
    BY NamedFinite DEF Counts
  <2>1. p \in N <=> index[p] # Nothing /\ t \in Letters[p]
    BY DEF Named
  <2>2. Named(next, t) = IF t \in Letters[p] THEN IF new = Nothing THEN N \ {p} ELSE N \cup {p} ELSE N
    <3>1. \A m \in Paths : m # p => (m \in Named(next, t) <=> m \in N)
      BY <1>2 DEF Named
    <3>2. p \in Named(next, t) <=> new # Nothing /\ t \in Letters[p]
      BY <1>2 DEF Named
    <3>3. Named(next, t) \subseteq Paths /\ N \subseteq Paths
      BY DEF Named
    <3> HIDE DEF N
    <3> QED BY <2>1, <3>1, <3>2, <3>3, SMTT(30) DEF N
  <2>3. Cardinality(N \ {p}) = IF p \in N THEN Cardinality(N) - 1 ELSE Cardinality(N)
    <3> HIDE DEF N
    <3> QED BY <2>0, FS_RemoveElement
  <2>4. Cardinality(N \cup {p}) = IF p \in N THEN Cardinality(N) ELSE Cardinality(N) + 1
    <3> HIDE DEF N
    <3> QED BY <2>0, FS_AddElement
  <2> HIDE DEF N, more
  <2>5. ASSUME t \notin Letters[p] PROVE Cardinality(Named(next, t)) = Cardinality(N) + (more[t] - short[t])
    BY <1>3, <2>0, <2>2, <2>5
  <2>6. ASSUME t \in Letters[p], new = Nothing
        PROVE  Cardinality(Named(next, t)) = Cardinality(N) + (more[t] - short[t])
    <3>1. Cardinality(Named(next, t)) = IF index[p] # Nothing THEN Cardinality(N) - 1 ELSE Cardinality(N)
      BY <2>1, <2>2, <2>3, <2>6
    <3>2. more[t] = short[t] + (0 - (IF index[p] = Nothing THEN 0 ELSE 1))
      BY <1>1, <1>3, <2>6
    <3> QED BY <2>0, <3>1, <3>2
  <2>7. ASSUME t \in Letters[p], new # Nothing
        PROVE  Cardinality(Named(next, t)) = Cardinality(N) + (more[t] - short[t])
    <3>1. Cardinality(Named(next, t)) = IF index[p] # Nothing THEN Cardinality(N) ELSE Cardinality(N) + 1
      BY <2>1, <2>2, <2>4, <2>7
    <3>2. more[t] = short[t] + (1 - (IF index[p] = Nothing THEN 0 ELSE 1))
      BY <1>1, <1>3, <2>7
    <3> QED BY <2>0, <3>1, <3>2
  <2> QED BY <2>5, <2>6, <2>7 DEF N
<1> HIDE DEF more
<1>5. \A t \in Terms : Plus(counted, more)[t] = CountsOf(next)[t]
  <2> SUFFICES ASSUME NEW t \in Terms PROVE Plus(counted, more)[t] = CountsOf(next)[t]
    OBVIOUS
  <2>1. counted[t] \in Int /\ short[t] \in Int /\ more[t] \in Int
    BY <1>3 DEF Counts
  <2>2. Plus(counted, short)[t] = counted[t] + short[t] /\ Plus(counted, more)[t] = counted[t] + more[t]
    BY DEF Plus
  <2>3. Plus(counted, short)[t] = Cardinality(Named(index, t)) /\ CountsOf(next)[t] = Cardinality(Named(next, t))
    BY CountsType
  <2> QED BY <1>4, <2>1, <2>2, <2>3
<1>6. Plus(counted, more) = CountsOf(next)
  <2>1. CountsOf(next) = [t \in Terms |-> CountsOf(next)[t]]
    BY DEF CountsOf
  <2>2. Plus(counted, more) = [t \in Terms |-> Plus(counted, more)[t]]
    BY DEF Plus
  <2>3. [t \in Terms |-> CountsOf(next)[t]] = [t \in Terms |-> Plus(counted, more)[t]]
    BY <1>5
  <2> QED BY <2>1, <2>2, <2>3, Zenon
<1> QED BY <1>3, <1>6 DEF more, next, weight

\* What a removed folder held is subtracted from the counts of every name.
LEMMA FolderCounts ==
  ASSUME NEW index \in Indexes, NEW root \in Paths,
         NEW counted \in Counts, NEW short \in Counts, Plus(counted, short) = CountsOf(index)
  PROVE  LET gone == {p \in AtOrBelow(root) : index[p] # Nothing}
             tally == [t \in Terms |-> -Cardinality({p \in gone : t \in Letters[p]})]
             less == Plus(Plus(counted, short), tally)
         IN /\ less \in Counts /\ NoShort \in Counts
            /\ Plus(less, NoShort) = CountsOf([p \in Paths |-> IF p \in gone THEN Nothing ELSE index[p]])
<1> DEFINE gone == {p \in AtOrBelow(root) : index[p] # Nothing}
           next == [p \in Paths |-> IF p \in gone THEN Nothing ELSE index[p]]
           G(t) == {p \in gone : t \in Letters[p]}
           tally == [t \in Terms |-> -Cardinality(G(t))]
           less == Plus(CountsOf(index), tally)
<1>1. ASSUME NEW t \in Terms
      PROVE  Cardinality(Named(next, t)) = Cardinality(Named(index, t)) - Cardinality(G(t)) /\ Cardinality(G(t)) \in Nat
  <2>1. G(t) \in SUBSET Named(index, t) /\ Named(next, t) = Named(index, t) \ G(t)
    BY DEF Named, AtOrBelow
  <2>2. IsFiniteSet(Named(index, t)) /\ IsFiniteSet(G(t)) /\ Cardinality(G(t)) \in Nat
    <3> HIDE DEF G
    <3> QED BY <2>1, NamedFinite, FS_Subset, FS_CardinalityType
  <2>3. Named(index, t) \cap G(t) = G(t)
    BY <2>1
  <2> HIDE DEF G, next
  <2>4. Cardinality(Named(index, t) \ G(t)) = Cardinality(Named(index, t)) - Cardinality(Named(index, t) \cap G(t))
    BY <2>2, FS_Difference
  <2> QED BY <2>1, <2>2, <2>3, <2>4
<1> HIDE DEF G, next
<1>2. \A t \in Terms : tally[t] = -Cardinality(G(t)) /\ tally[t] \in Int
  BY <1>1
<1> HIDE DEF tally
<1>3. ASSUME NEW t \in Terms PROVE less[t] = Cardinality(Named(next, t)) /\ less[t] \in Int
  <2>1. CountsOf(index)[t] = Cardinality(Named(index, t)) /\ Cardinality(Named(index, t)) \in Nat
    BY CountsType, NamedFinite
  <2>2. less[t] = CountsOf(index)[t] + tally[t]
    BY DEF Plus
  <2> HIDE DEF less
  <2> QED BY <1>1, <1>2, <2>1, <2>2
<1>4. less \in Counts /\ NoShort \in Counts
  <2>1. less = [t \in Terms |-> less[t]]
    BY DEF Plus
  <2> HIDE DEF less
  <2> QED BY <1>3, <2>1 DEF Counts, NoShort
<1> HIDE DEF less
<1>5. Plus(less, NoShort) = CountsOf(next)
  <2>1. \A t \in Terms : Plus(less, NoShort)[t] = less[t]
    BY <1>3 DEF Plus, NoShort
  <2>2. \A t \in Terms : CountsOf(next)[t] = less[t]
    BY <1>3, CountsType
  <2>3. CountsOf(next) = [t \in Terms |-> CountsOf(next)[t]]
    BY DEF CountsOf
  <2>4. Plus(less, NoShort) = [t \in Terms |-> Plus(less, NoShort)[t]]
    BY DEF Plus
  <2>5. [t \in Terms |-> CountsOf(next)[t]] = [t \in Terms |-> Plus(less, NoShort)[t]]
    BY <2>1, <2>2
  <2> QED BY <2>3, <2>4, <2>5, Zenon
<1>6. less = Plus(Plus(counted, short), tally)
  BY DEF less
<1> QED BY <1>4, <1>5, <1>6 DEF next, tally, G
-----------------------------------------------------------------------------
(* One change inside the transaction, and all changes of a batch. *)
Work == [listed : Indexes, pages : Seq(PageSet), counts : Counts, short : Counts, edits : Seq(Edits)]

\* What a reader that searches can rely on while its token is not too old.
Tracked(edits, index) ==
  preparing.step = "searching" /\ preparing.token >= journal.floor
    => Leads(edits, preparing.token, preparing.index, index)

WorkFor(w, index) ==
  /\ w.listed = index
  /\ \A i \in 1 .. Len(w.pages) : PageOf(w.pages[i], index)
  /\ Plus(w.counts, w.short) = CountsOf(index)
  /\ \A i \in 1 .. Len(w.edits) : w.edits[i].revision <= journal.revision + 1
  /\ Tracked(w.edits, index)

Preparings ==
  {Unprepared}
    \cup [step : {"opened"}, query : Queries, index : Indexes, length : Nat]
    \cup [step : {"searching"}, query : Queries, index : Indexes, token : Nat]

\* The token of a reader was a revision of the journal.
TokenKnown == preparing.step = "searching" => preparing.token <= journal.revision

LEMMA PreparingTypes ==
  ASSUME preparing \in Preparings
  PROVE  /\ preparing.step = "searching"
              => preparing.query \in Queries /\ preparing.index \in Indexes /\ preparing.token \in Nat
         /\ preparing.step = "opened"
              => preparing.query \in Queries /\ preparing.index \in Indexes /\ preparing.length \in Nat
  BY DEF Preparings, Unprepared

\* An edit of the next revision leads to what it says.
LEMMA EditTracked ==
  ASSUME preparing \in Preparings, TokenKnown, journal \in Journals,
         NEW edits \in Seq(Edits), NEW index \in Indexes, NEW next \in Indexes, NEW e \in Edits,
         \A i \in 1 .. Len(edits) : edits[i].revision <= journal.revision + 1,
         e.revision = journal.revision + 1, Tracked(edits, index),
         e.invalidated \/ (e.old = index[e.path] /\ next = [index EXCEPT ![e.path] = e.new])
  PROVE  /\ Append(edits, e) \in Seq(Edits) /\ Tracked(Append(edits, e), next)
         /\ \A i \in 1 .. Len(Append(edits, e)) : Append(edits, e)[i].revision <= journal.revision + 1
<1>1. journal.revision \in Nat
  BY DEF Journals
<1>2. Append(edits, e) \in Seq(Edits)
  OBVIOUS
<1>3. \A i \in 1 .. Len(Append(edits, e)) : Append(edits, e)[i].revision <= journal.revision + 1
  <2> SUFFICES ASSUME NEW i \in 1 .. Len(edits) + 1
               PROVE  Append(edits, e)[i].revision <= journal.revision + 1
    OBVIOUS
  <2>1. CASE i = Len(edits) + 1
    BY <1>1, <2>1
  <2>2. CASE i \in 1 .. Len(edits)
    <3>1. Append(edits, e)[i] = edits[i]
      BY <2>2
    <3> QED BY <2>2, <3>1
  <2> QED BY <2>1, <2>2
<1>4. Tracked(Append(edits, e), next)
  <2> SUFFICES ASSUME preparing.step = "searching", preparing.token >= journal.floor
               PROVE  Leads(Append(edits, e), preparing.token, preparing.index, next)
    BY DEF Tracked
  <2>1. preparing.token \in Nat /\ preparing.index \in Indexes /\ preparing.token <= journal.revision
    BY PreparingTypes DEF TokenKnown
  <2>2. e.revision > preparing.token
    BY <1>1, <2>1
  <2>3. Leads(edits, preparing.token, preparing.index, index)
    BY DEF Tracked
  <2> QED BY <2>1, <2>2, <2>3, LeadsOn
<1> QED BY <1>2, <1>3, <1>4

\* An upsert or a removal of one path.
LEMMA RowExact ==
  ASSUME preparing \in Preparings, TokenKnown, journal \in Journals,
         NEW index \in Indexes, NEW w \in Work, WorkFor(w, index), NEW c \in Changes, c.kind # "prefix"
  PROVE  ChangeRow(w, c) \in Work /\ WorkFor(ChangeRow(w, c), Effect(index, c))
<1> DEFINE p == c.path
           old == w.listed[p]
           new == IF c.kind = "upsert" THEN c.record ELSE Nothing
           next == [index EXCEPT ![p] = new]
           e == [revision |-> journal.revision + 1, path |-> p, old |-> old, new |-> new, invalidated |-> FALSE]
           short == AddName(w.short, p, NameWeight(old, new))
           corrected == [i \in 1 .. Len(w.pages) |-> UpdatePage(w.pages[i], p, old, new)]
           after == [w EXCEPT !.short = short, !.pages = corrected, !.edits = Append(w.edits, e), !.listed = next]
<1>1. /\ p \in Paths /\ new \in Records \cup {Nothing} /\ next \in Indexes
      /\ c.kind \in {"upsert", "remove"}
  BY DEF Changes, Indexes
<1>2. /\ w.listed = index /\ w.pages \in Seq(PageSet) /\ w.counts \in Counts /\ w.short \in Counts
      /\ w.edits \in Seq(Edits) /\ Plus(w.counts, w.short) = CountsOf(index)
  BY DEF Work, WorkFor
<1>3. Effect(index, c) = next
  BY <1>1 DEF Effect, Indexes
<1>4. CASE c.kind = "upsert" /\ old = new
  <2>1. ChangeRow(w, c) = w
    BY <1>4 DEF ChangeRow
  <2>2. next = index
    BY <1>1, <1>2, <1>4 DEF Indexes
  <2> QED BY <1>3, <2>1, <2>2
<1>5. CASE ~(c.kind = "upsert" /\ old = new)
  <2>1. ChangeRow(w, c) = after
    <3>1. DOMAIN w.pages = 1 .. Len(w.pages)
      BY <1>2
    <3> QED BY <1>2, <1>5, <3>1 DEF ChangeRow
  <2>2. short \in Counts /\ Plus(w.counts, short) = CountsOf(next)
    <3> HIDE DEF new
    <3>1. /\ AddName(w.short, p, NameWeight(index[p], new)) \in Counts
          /\ Plus(w.counts, AddName(w.short, p, NameWeight(index[p], new))) = CountsOf([index EXCEPT ![p] = new])
      <4>1. \A n \in Records \cup {Nothing} : \A a, b \in Counts : Plus(a, b) = CountsOf(index) =>
              /\ AddName(b, p, NameWeight(index[p], n)) \in Counts
              /\ Plus(a, AddName(b, p, NameWeight(index[p], n))) = CountsOf([index EXCEPT ![p] = n])
        <5>1. p \in Paths
          BY <1>1
        <5> HIDE DEF p
        <5> QED BY <5>1, RowCounts
      <4> QED BY <1>1, <1>2, <4>1
    <3> QED BY <1>2, <3>1
  <2>3. \A i \in 1 .. Len(w.pages) : corrected[i] \in PageSet /\ PageOf(corrected[i], next)
    <3> SUFFICES ASSUME NEW i \in 1 .. Len(w.pages)
                 PROVE  /\ UpdatePage(w.pages[i], p, old, new) \in PageSet
                        /\ PageOf(UpdatePage(w.pages[i], p, old, new), next)
      OBVIOUS
    <3>1. w.pages[i] \in PageSet /\ PageOf(w.pages[i], index)
      BY <1>2 DEF WorkFor
    <3> HIDE DEF new
    <3> QED BY <1>1, <1>2, <3>1, UpdateExact
  <2>4. corrected \in Seq(PageSet) /\ Len(corrected) = Len(w.pages)
    <3>1. Len(w.pages) \in Nat
      BY <1>2
    <3>2. corrected \in [1 .. Len(w.pages) -> PageSet]
      BY <2>3
    <3> HIDE DEF corrected
    <3> QED BY <3>1, <3>2
  <2>5. e \in Edits /\ e.revision = journal.revision + 1 /\ ~e.invalidated /\ e.old = index[e.path]
        /\ e.path = p /\ e.new = new
    <3>1. old \in Records \cup {Nothing} /\ journal.revision + 1 \in Nat
      BY <1>1, <1>2 DEF Indexes, Journals
    <3> HIDE DEF new
    <3> QED BY <1>1, <1>2, <3>1 DEF Edits
  <2>6. /\ Append(w.edits, e) \in Seq(Edits) /\ Tracked(Append(w.edits, e), next)
        /\ \A i \in 1 .. Len(Append(w.edits, e)) : Append(w.edits, e)[i].revision <= journal.revision + 1
    <3>1. next = [index EXCEPT ![e.path] = e.new]
      BY <2>5
    <3>2. \A i \in 1 .. Len(w.edits) : w.edits[i].revision <= journal.revision + 1
      BY DEF WorkFor
    <3>3. Tracked(w.edits, index)
      BY DEF WorkFor
    <3> HIDE DEF e, next
    <3> QED BY <1>1, <1>2, <2>5, <3>1, <3>2, <3>3, EditTracked
  <2> HIDE DEF e, short, corrected, next
  <2>7. after \in Work /\ after.listed = next /\ after.pages = corrected /\ after.counts = w.counts
        /\ after.short = short /\ after.edits = Append(w.edits, e)
    BY <1>1, <1>2, <2>2, <2>4, <2>6 DEF Work
  <2> HIDE DEF after
  <2>8. WorkFor(after, next)
    BY <2>2, <2>3, <2>4, <2>6, <2>7 DEF WorkFor
  <2> QED BY <1>3, <2>1, <2>7, <2>8
<1> QED BY <1>4, <1>5

\* A removed folder.
LEMMA FolderExact ==
  ASSUME preparing \in Preparings, TokenKnown, journal \in Journals,
         NEW index \in Indexes, NEW w \in Work, WorkFor(w, index), NEW c \in Changes, c.kind = "prefix"
  PROVE  RemoveSubtree(w, c.path) \in Work /\ WorkFor(RemoveSubtree(w, c.path), Effect(index, c))
<1> DEFINE root == c.path
           gone == {p \in AtOrBelow(root) : w.listed[p] # Nothing}
           tally == [t \in Terms |-> -Cardinality({p \in gone : t \in Letters[p]})]
           less == Plus(Plus(w.counts, w.short), tally)
           e == [revision |-> journal.revision + 1, path |-> root, old |-> Nothing, new |-> Nothing, invalidated |-> TRUE]
           next == [p \in Paths |-> IF p \in gone THEN Nothing ELSE w.listed[p]]
           after == [w EXCEPT !.counts = less, !.short = NoShort, !.pages = <<>>, !.edits = Append(w.edits, e),
                              !.listed = next]
<1>1. root \in Paths
  BY DEF Changes
<1>2. /\ w.listed = index /\ w.counts \in Counts /\ w.short \in Counts
      /\ w.edits \in Seq(Edits) /\ Plus(w.counts, w.short) = CountsOf(index)
  BY DEF Work, WorkFor
<1>3. RemoveSubtree(w, root) = after
  BY DEF RemoveSubtree
<1>4. Effect(index, c) = next /\ next \in Indexes
  BY <1>2 DEF Effect, Indexes
<1>5. less \in Counts /\ NoShort \in Counts /\ Plus(less, NoShort) = CountsOf(next)
  BY <1>1, <1>2, FolderCounts
<1>6. e \in Edits /\ e.revision = journal.revision + 1 /\ e.invalidated
  <2>1. journal.revision + 1 \in Nat
    BY DEF Journals
  <2> QED BY <1>1, <2>1 DEF Edits
<1> HIDE DEF e, next, less
<1>7. /\ Append(w.edits, e) \in Seq(Edits) /\ Tracked(Append(w.edits, e), next)
      /\ \A i \in 1 .. Len(Append(w.edits, e)) : Append(w.edits, e)[i].revision <= journal.revision + 1
  <2>1. \A i \in 1 .. Len(w.edits) : w.edits[i].revision <= journal.revision + 1
    BY DEF WorkFor
  <2>2. Tracked(w.edits, index)
    BY DEF WorkFor
  <2> QED BY <1>2, <1>4, <1>6, <2>1, <2>2, EditTracked
<1>8. /\ after \in Work /\ after.listed = next /\ after.pages = <<>> /\ after.counts = less
      /\ after.short = NoShort /\ after.edits = Append(w.edits, e)
  <2>1. <<>> \in Seq(PageSet)
    OBVIOUS
  <2>2. w \in Work
    OBVIOUS
  <2> QED BY <1>4, <1>5, <1>7, <2>1, <2>2 DEF Work
<1> HIDE DEF after
<1>9. WorkFor(after, next)
  BY <1>5, <1>7, <1>8 DEF WorkFor
<1> QED BY <1>3, <1>4, <1>8, <1>9

\* All changes of the batch.
LEMMA BatchExact ==
  ASSUME preparing \in Preparings, TokenKnown, journal \in Journals,
         NEW index \in Indexes, NEW w \in Work, WorkFor(w, index), NEW batch \in Seq(Changes)
  PROVE  /\ FoldLeft(Effect, index, batch) \in Indexes /\ FoldLeft(Maintain, w, batch) \in Work
         /\ WorkFor(FoldLeft(Maintain, w, batch), FoldLeft(Effect, index, batch))
<1> DEFINE n == Len(batch)
<1>1. n \in Nat /\ DOMAIN batch = 1 .. n /\ \A k \in 1 .. n : batch[k] \in Changes
  OBVIOUS
<1> HIDE DEF n
<1>2. PICK g : Meant!RunsLeft(g, index, batch, n) /\ FoldLeft(Effect, index, batch) = g[n]
  <2>1. PICK g : Meant!RunsLeft(g, index, batch, n) /\ Meant!FoldLeft(Effect, index, batch) = g[n]
    BY <1>1, Meant!LeftSteps, Zenon
  <2> QED BY <2>1, PageFoldsAgree, Zenon
<1> DEFINE Holds == [k \in 0 .. n |-> {x \in Work : g[k] \in Indexes /\ WorkFor(x, g[k])}]
<1>3. w \in Holds[0]
  BY <1>1, <1>2 DEF Meant!RunsLeft
<1>4. ASSUME NEW k \in 1 .. n, NEW a \in Holds[k - 1] PROVE Maintain(a, batch[k]) \in Holds[k]
  <2> DEFINE c == batch[k]
  <2>1. k \in 0 .. n /\ k - 1 \in 0 .. n /\ c \in Changes
    BY <1>1
  <2>2. a \in Work /\ g[k - 1] \in Indexes /\ WorkFor(a, g[k - 1])
    BY <2>1
  <2>3. g[k] = Effect(g[k - 1], c)
    BY <1>2 DEF Meant!RunsLeft
  <2> HIDE DEF c
  <2>4. g[k] \in Indexes
    BY <2>1, <2>2, <2>3 DEF Effect, Changes, Indexes
  <2>5. Maintain(a, c) \in Work /\ WorkFor(Maintain(a, c), g[k])
    <3>1. CASE c.kind = "prefix"
      BY <2>1, <2>2, <2>3, <3>1, FolderExact DEF Maintain
    <3>2. CASE c.kind # "prefix"
      BY <2>1, <2>2, <2>3, <3>2, RowExact DEF Maintain
    <3> QED BY <3>1, <3>2
  <2> QED BY <2>1, <2>4, <2>5 DEF c
<1>5. FoldLeft(Maintain, w, batch) \in Holds[n]
  <2> HIDE DEF Holds
  <2>1. Upkept!FoldLeft(Maintain, w, batch) \in Holds[n]
    BY <1>1, <1>3, <1>4, Upkept!FoldLeftInvariant
  <2> QED BY <2>1, PageFoldsAgree, Zenon
<1> QED BY <1>1, <1>2, <1>5
-----------------------------------------------------------------------------
(* The invariant. *)
PagesTypes ==
  /\ logged \in [index : Indexes, length : Nat] /\ toCommit \in Seq(Changes) /\ listed \in Indexes
  /\ pages \in Seq(PageSet) /\ journal \in Journals /\ counts \in Counts /\ preparing \in Preparings

\* The log is what the catalog lists and the batch it lacks.
CatalogFollowsLog == logged.index = FoldLeft(Effect, listed, toCommit)

PagesKept ==
  /\ \A i \in 1 .. Len(pages) : PageOf(pages[i], listed)
  /\ counts = CountsOf(listed)

JournalKept ==
  /\ \A i \in 1 .. Len(journal.edits) : journal.edits[i].revision <= journal.revision
  /\ TokenKnown
  /\ Tracked(journal.edits, listed)

\* A snapshot as long as the log is the log.
SnapshotKnown ==
  preparing.step = "opened" =>
    /\ preparing.length <= logged.length
    /\ preparing.length = logged.length => preparing.index = logged.index

PagesInv == PagesTypes /\ CatalogFollowsLog /\ PagesKept /\ JournalKept /\ SnapshotKnown
-----------------------------------------------------------------------------
LEMMA PagesInvInitially ==
  ASSUME PagesInit PROVE PagesInv
<1>1. FirstListed \in Indexes
  BY PagesAssumption
<1>2. PagesTypes
  <2>1. CountsOf(FirstListed) \in Counts
    BY CountsType
  <2> QED BY <1>1, <2>1 DEF PagesInit, PagesTypes, Journals, Preparings
<1>3. CatalogFollowsLog
  BY NothingMeant DEF PagesInit, CatalogFollowsLog
<1>4. PagesKept /\ JournalKept /\ SnapshotKnown
  BY DEF PagesInit, PagesKept, JournalKept, SnapshotKnown, TokenKnown, Tracked, Unprepared
<1> QED BY <1>2, <1>3, <1>4 DEF PagesInv

LEMMA LogBatchKeeps ==
  ASSUME PagesInv, NEW b \in PageBatches, LogBatch(b)
  PROVE  PagesInv'
<1>1. b \in Seq(Changes)
  BY PagesAssumption
<1>2. /\ logged \in [index : Indexes, length : Nat] /\ listed \in Indexes /\ logged.index = listed
      /\ logged'.index = FoldLeft(Effect, listed, b) /\ logged'.length = logged.length + 1
      /\ logged' = [index |-> FoldLeft(Effect, listed, b), length |-> logged.length + 1]
  BY NothingMeant DEF PagesInv, PagesTypes, CatalogFollowsLog, LogBatch
<1>3. FoldLeft(Effect, listed, b) \in Indexes
  <2>1. DOMAIN b = 1 .. Len(b) /\ Len(b) \in Nat
    BY <1>1
  <2>2. \A k \in 1 .. Len(b) : \A a \in Indexes : Effect(a, b[k]) \in Indexes
    <3>1. \A k \in 1 .. Len(b) : b[k] \in Changes
      BY <1>1
    <3> QED BY <3>1 DEF Effect, Changes, Indexes
  <2>3. Meant!FoldLeft(Effect, listed, b) \in Indexes
    BY <1>2, <2>1, <2>2, Meant!FoldLeftPreserves
  <2> QED BY <2>3, PageFoldsAgree, Zenon
<1>4. PagesTypes'
  BY <1>1, <1>2, <1>3 DEF PagesInv, PagesTypes, LogBatch
<1>5. CatalogFollowsLog'
  BY <1>2 DEF CatalogFollowsLog, LogBatch
<1>6. PagesKept' /\ JournalKept'
  BY DEF PagesInv, PagesKept, JournalKept, LogBatch, TokenKnown, Tracked
<1>7. SnapshotKnown'
  <2>1. preparing.step = "opened" => preparing.length \in Nat
    BY PreparingTypes DEF PagesInv, PagesTypes
  <2> QED BY <1>2, <2>1 DEF PagesInv, SnapshotKnown, LogBatch
<1> QED BY <1>4, <1>5, <1>6, <1>7 DEF PagesInv

LEMMA CommitBatchKeeps ==
  ASSUME PagesInv, CommitBatch
  PROVE  PagesInv'
<1> DEFINE w0 == [listed |-> listed, pages |-> pages, counts |-> counts, short |-> NoShort, edits |-> journal.edits]
           w == FoldLeft(Maintain, w0, toCommit)
           j == [journal EXCEPT !.revision = @ + 1, !.edits = w.edits]
<1>1. /\ preparing \in Preparings /\ TokenKnown /\ journal \in Journals /\ listed \in Indexes
      /\ toCommit \in Seq(Changes) /\ pages \in Seq(PageSet) /\ counts \in Counts
      /\ journal.revision \in Nat /\ journal.floor \in Nat /\ journal.edits \in Seq(Edits)
  BY DEF PagesInv, PagesTypes, JournalKept, Journals
<1>2. w0 \in Work /\ WorkFor(w0, listed)
  <2>1. NoShort \in Counts /\ \A t \in Terms : NoShort[t] = 0
    BY DEF NoShort, Counts
  <2>2. w0 \in Work
    BY <1>1, <2>1 DEF Work
  <2>3. Plus(counts, NoShort) = counts
    BY <1>1, <2>1 DEF Plus, Counts
  <2>4. \A i \in 1 .. Len(journal.edits) : journal.edits[i].revision <= journal.revision + 1
    <3> SUFFICES ASSUME NEW i \in 1 .. Len(journal.edits) PROVE journal.edits[i].revision <= journal.revision + 1
      OBVIOUS
    <3>1. journal.edits[i].revision \in Nat
      <4>1. journal.edits[i] \in Edits
        BY <1>1
      <4> QED BY <4>1 DEF Edits
    <3>2. journal.edits[i].revision <= journal.revision
      BY DEF PagesInv, JournalKept
    <3> QED BY <1>1, <3>1, <3>2
  <2> QED BY <2>2, <2>3, <2>4 DEF WorkFor, PagesInv, PagesKept, JournalKept
<1> HIDE DEF w0
<1>3. w \in Work /\ WorkFor(w, FoldLeft(Effect, listed, toCommit)) /\ FoldLeft(Effect, listed, toCommit) \in Indexes
  BY <1>1, <1>2, BatchExact
<1>4. /\ toCommit' = <<>> /\ listed' = w.listed /\ pages' = w.pages /\ counts' = Plus(w.counts, w.short)
      /\ journal' = TrimJournal(j) /\ logged' = logged /\ preparing' = preparing
  BY DEF CommitBatch, w0
<1> HIDE DEF w
<1>5. /\ w.listed = logged.index /\ w.listed \in Indexes /\ w.pages \in Seq(PageSet) /\ w.edits \in Seq(Edits)
      /\ \A i \in 1 .. Len(w.pages) : PageOf(w.pages[i], w.listed)
      /\ Plus(w.counts, w.short) = CountsOf(w.listed)
      /\ \A i \in 1 .. Len(w.edits) : w.edits[i].revision <= journal.revision + 1
      /\ Tracked(w.edits, w.listed)
  BY <1>3 DEF Work, WorkFor, PagesInv, CatalogFollowsLog
<1>6. /\ j \in Journals /\ j.revision = journal.revision + 1 /\ j.floor = journal.floor /\ j.edits = w.edits
  <2>1. journal \in [revision : Nat, floor : Nat, edits : Seq(Edits)] /\ journal.revision + 1 \in Nat
    BY <1>1 DEF Journals
  <2> QED BY <1>5, <2>1 DEF Journals
<1> HIDE DEF j
<1>7. /\ journal' \in Journals /\ journal'.revision = j.revision /\ j.floor <= journal'.floor
      /\ \A i \in 1 .. Len(journal'.edits) : journal'.edits[i].revision <= journal'.revision
      /\ \A token \in Nat : \A from, to \in Indexes :
           token >= journal'.floor /\ Leads(j.edits, token, from, to) => Leads(journal'.edits, token, from, to)
  BY <1>4, <1>5, <1>6, TrimKeepsLead
<1>8. PagesTypes'
  <2>1. CountsOf(w.listed) \in Counts
    BY CountsType
  <2>2. <<>> \in Seq(Changes)
    OBVIOUS
  <2> QED BY <1>1, <1>4, <1>5, <1>7, <2>1, <2>2 DEF PagesInv, PagesTypes
<1>9. CatalogFollowsLog'
  <2>1. FoldLeft(Effect, w.listed, <<>>) = w.listed
    BY NothingMeant
  <2> QED BY <1>4, <1>5, <2>1 DEF CatalogFollowsLog
<1>10. PagesKept'
  BY <1>4, <1>5 DEF PagesKept
<1>11. JournalKept'
  <2>1. TokenKnown'
    <3>1. preparing.step = "searching" => preparing.token \in Nat
      BY <1>1, PreparingTypes
    <3> QED BY <1>1, <1>4, <1>6, <1>7, <3>1 DEF TokenKnown
  <2>2. Tracked(journal.edits, listed)'
    <3> SUFFICES ASSUME preparing.step = "searching", preparing.token >= journal'.floor
                 PROVE  Leads(journal'.edits, preparing.token, preparing.index, w.listed)
      BY <1>4 DEF Tracked
    <3>1. preparing.token \in Nat /\ preparing.index \in Indexes
      BY <1>1, PreparingTypes
    <3>2. preparing.token >= journal.floor
      <4>1. journal'.floor \in Nat
        BY <1>7 DEF Journals
      <4> QED BY <1>1, <1>6, <1>7, <3>1, <4>1
    <3>3. Leads(w.edits, preparing.token, preparing.index, w.listed)
      BY <1>5, <3>2 DEF Tracked
    <3> QED BY <1>5, <1>6, <1>7, <3>1, <3>3
  <2> QED BY <1>7, <2>1, <2>2 DEF JournalKept
<1>12. SnapshotKnown'
  BY <1>4 DEF PagesInv, SnapshotKnown
<1> QED BY <1>8, <1>9, <1>10, <1>11, <1>12 DEF PagesInv

LEMMA OpenSnapshotKeeps ==
  ASSUME PagesInv, NEW q \in Queries, OpenSnapshot(q)
  PROVE  PagesInv'
<1>1. /\ preparing' = [step |-> "opened", query |-> q, index |-> logged.index, length |-> logged.length]
      /\ UNCHANGED <<logged, toCommit, listed, pages, journal, counts>>
  BY DEF OpenSnapshot
<1>2. logged.index \in Indexes /\ logged.length \in Nat
  BY DEF PagesInv, PagesTypes
<1>3. /\ preparing'.step = "opened" /\ preparing'.index = logged.index /\ preparing'.length = logged.length
      /\ preparing' \in Preparings
  BY <1>1, <1>2 DEF Preparings
<1>4. PagesTypes' /\ CatalogFollowsLog' /\ PagesKept'
  BY <1>1, <1>3 DEF PagesInv, PagesTypes, CatalogFollowsLog, PagesKept
<1>5. JournalKept' /\ SnapshotKnown'
  BY <1>1, <1>2, <1>3 DEF PagesInv, JournalKept, TokenKnown, Tracked, SnapshotKnown
<1> QED BY <1>4, <1>5 DEF PagesInv

LEMMA TakeTokenKeeps ==
  ASSUME PagesInv, TakeToken
  PROVE  PagesInv'
<1>1. /\ preparing.step = "opened" /\ UNCHANGED <<logged, toCommit, listed, pages, journal, counts>>
      /\ journal \in Journals /\ journal.revision \in Nat /\ journal.edits \in Seq(Edits) /\ listed \in Indexes
      /\ preparing \in Preparings
  BY DEF TakeToken, PagesInv, PagesTypes, Journals
<1>2. CASE toCommit = <<>> /\ preparing.length = logged.length
  <2>1. preparing' = [step |-> "searching", query |-> preparing.query, index |-> preparing.index,
                      token |-> journal.revision]
    BY <1>2 DEF TakeToken
  <2>2. preparing.query \in Queries /\ preparing.index \in Indexes
    BY <1>1, PreparingTypes
  <2>3. preparing.index = listed
    <3>1. FoldLeft(Effect, listed, <<>>) = listed
      BY NothingMeant
    <3> QED BY <1>1, <1>2, <3>1 DEF PagesInv, CatalogFollowsLog, SnapshotKnown
  <2>4. /\ preparing' \in Preparings /\ preparing'.step = "searching" /\ preparing'.index = listed
        /\ preparing'.token = journal.revision
    BY <1>1, <2>1, <2>2, <2>3 DEF Preparings
  <2>5. Leads(journal.edits, journal.revision, listed, listed)
    BY <1>1, LeadsNowhere DEF PagesInv, JournalKept
  <2>6. JournalKept'
    BY <1>1, <2>4, <2>5 DEF PagesInv, JournalKept, TokenKnown, Tracked
  <2> QED BY <1>1, <2>4, <2>6 DEF PagesInv, PagesTypes, CatalogFollowsLog, PagesKept, SnapshotKnown
<1>3. CASE ~(toCommit = <<>> /\ preparing.length = logged.length)
  <2>1. preparing' = Unprepared /\ preparing' \in Preparings /\ preparing'.step = "none"
    BY <1>3 DEF TakeToken, Unprepared, Preparings
  <2> QED BY <1>1, <2>1 DEF PagesInv, PagesTypes, CatalogFollowsLog, PagesKept, SnapshotKnown, JournalKept,
             TokenKnown, Tracked
<1> QED BY <1>2, <1>3

\* Pages that were kept stay what they were.
LEMMA OthersKept ==
  ASSUME NEW S, NEW ps \in Seq(S)
  PROVE  FoldLeft(KeepOthers, <<>>, ps) \in Seq(S)
<1>1. Len(ps) \in Nat /\ DOMAIN ps = 1 .. Len(ps) /\ <<>> \in Seq(S) /\ \A k \in 1 .. Len(ps) : ps[k] \in S
  OBVIOUS
<1>2. \A k \in 1 .. Len(ps) : \A a \in Seq(S) : KeepOthers(a, ps[k]) \in Seq(S)
  BY <1>1 DEF KeepOthers
<1>3. Spared!FoldLeft(KeepOthers, <<>>, ps) \in Seq(S)
  BY <1>1, <1>2, Spared!FoldLeftPreserves
<1> QED BY <1>3, PageFoldsAgree, Zenon

LEMMA EvictKeeps ==
  ASSUME NEW S, NEW ps \in Seq(S)
  PROVE  Evict(ps) \in Seq(S)
<1> DEFINE two == {1, Len(ps) - MaxPages + 1}
<1>1. Len(ps) \in Nat /\ MaxPages \in Nat \ {0} /\ \A k \in 1 .. Len(ps) : ps[k] \in S
  BY PagesAssumption
<1>2. \E x \in two : \A y \in two : x >= y
  BY <1>1
<1> HIDE DEF two
<1>3. Max(two) \in two /\ \A y \in two : Max(two) >= y
  BY <1>2, Zenon DEF Max
<1>4. Max(two) \in Nat /\ Max(two) >= 1
  BY <1>1, <1>3 DEF two
<1>5. SubSeq(ps, Max(two), Len(ps)) \in Seq(S)
  BY <1>1, <1>4
<1> QED BY <1>5 DEF Evict, two

LEMMA SavePageKeeps ==
  ASSUME PagesInv, SavePage
  PROVE  PagesInv'
<1> DEFINE q == preparing.query
           found == Search(q, preparing.index, 0, Capacity)
           page == [query |-> q, matched |-> found.matched, rows |-> Range(found.hits),
                    boundary |-> IF found.matched > Len(found.hits) THEN Last(found.hits).rank ELSE 0]
           Exact == {p \in PageSet : PageOf(p, listed)}
<1>1. /\ preparing.step = "searching" /\ preparing \in Preparings /\ journal \in Journals /\ listed \in Indexes
      /\ journal.edits \in Seq(Edits) /\ pages \in Seq(PageSet)
      /\ preparing' = Unprepared /\ UNCHANGED <<logged, toCommit, listed, journal, counts>>
      /\ pages' = IF CanReplay(preparing.token)
                  THEN Evict(Append(FoldLeft(KeepOthers, <<>>, pages), ReplayEdits(page)))
                  ELSE pages
  BY DEF SavePage, PagesInv, PagesTypes, Journals
<1>2. q \in Queries /\ preparing.index \in Indexes /\ preparing.token \in Nat
  BY <1>1, PreparingTypes
<1>3. page \in PageSet /\ PageOf(page, preparing.index)
  BY <1>2, SearchedPage
<1> HIDE DEF page, found
<1>4. pages \in Seq(Exact)
  <2>1. \A i \in 1 .. Len(pages) : pages[i] \in Exact
    BY <1>1 DEF PagesInv, PagesKept
  <2> HIDE DEF Exact
  <2> QED BY <1>1, <2>1
<1>5. pages' \in Seq(Exact)
  <2>1. CASE CanReplay(preparing.token)
    <3>1. Leads(journal.edits, preparing.token, preparing.index, listed)
      <4>1. preparing.token >= journal.floor
        BY <2>1 DEF CanReplay
      <4> QED BY <1>1, <4>1 DEF PagesInv, JournalKept, Tracked
    <3>2. ReplayEdits(page) \in Exact
      <4> HIDE DEF page
      <4> QED BY <1>1, <1>2, <1>3, <2>1, <3>1, ReplayExact
    <3> HIDE DEF Exact
    <3>3. Append(FoldLeft(KeepOthers, <<>>, pages), ReplayEdits(page)) \in Seq(Exact)
      BY <1>4, <3>2, OthersKept
    <3> QED BY <1>1, <2>1, <3>3, EvictKeeps
  <2>2. CASE ~CanReplay(preparing.token)
    BY <1>1, <1>4, <2>2
  <2> QED BY <2>1, <2>2
<1>6. pages' \in Seq(PageSet) /\ \A i \in 1 .. Len(pages') : PageOf(pages'[i], listed)
  <2>1. Exact \subseteq PageSet /\ \A p \in Exact : PageOf(p, listed)
    OBVIOUS
  <2> HIDE DEF Exact
  <2>2. \A i \in 1 .. Len(pages') : pages'[i] \in Exact
    BY <1>5
  <2> QED BY <1>5, <2>1, <2>2
<1>7. preparing' \in Preparings /\ preparing'.step = "none"
  BY <1>1 DEF Preparings, Unprepared
<1>8. PagesTypes' /\ CatalogFollowsLog' /\ PagesKept'
  BY <1>1, <1>6, <1>7 DEF PagesInv, PagesTypes, CatalogFollowsLog, PagesKept
<1>9. JournalKept' /\ SnapshotKnown'
  BY <1>1, <1>7 DEF PagesInv, JournalKept, TokenKnown, Tracked, SnapshotKnown
<1> QED BY <1>8, <1>9 DEF PagesInv

LEMMA PagesInvKept ==
  ASSUME PagesInv, [PagesNext]_pageVars
  PROVE  PagesInv'
<1>1. CASE \E b \in PageBatches : LogBatch(b)
  BY <1>1, LogBatchKeeps
<1>2. CASE CommitBatch
  BY <1>2, CommitBatchKeeps
<1>3. CASE \E q \in Queries : OpenSnapshot(q)
  BY <1>3, OpenSnapshotKeeps
<1>4. CASE TakeToken
  BY <1>4, TakeTokenKeeps
<1>5. CASE SavePage
  BY <1>5, SavePageKeeps
<1>6. CASE UNCHANGED pageVars
  BY <1>6 DEF pageVars, PagesInv, PagesTypes, CatalogFollowsLog, PagesKept, JournalKept, TokenKnown, Tracked,
     SnapshotKnown
<1> QED BY <1>1, <1>2, <1>3, <1>4, <1>5, <1>6 DEF PagesNext

\* The invariant says what a page and a count promise.
LEMMA PagesInvSays ==
  ASSUME PagesInv PROVE PagesSound
<1>1. ShortCountsExact
  BY DEF PagesInv, PagesKept, ShortCountsExact
<1>2. ASSUME toCommit = <<>>, NEW i \in DOMAIN pages, NEW limit \in 1 .. Capacity,
             NEW after \in {0} \cup {r.rank : r \in pages[i].rows}
      PROVE  Served(pages[i], after, limit) \subseteq {Search(pages[i].query, logged.index, after, limit)}
  <2>1. i \in 1 .. Len(pages) /\ pages[i] \in PageSet /\ listed \in Indexes /\ Capacity \in Nat
    BY PagesAssumption DEF PagesInv, PagesTypes
  <2>2. PageOf(pages[i], listed)
    BY <2>1 DEF PagesInv, PagesKept
  <2>3. logged.index = listed
    BY <1>2, NothingMeant DEF PagesInv, CatalogFollowsLog
  <2>4. after \in Nat
    <3>1. \A r \in pages[i].rows : r.rank \in Nat
      BY <2>1 DEF PageSet, PageRows
    <3> QED BY <1>2, <3>1
  <2>5. limit \in Nat
    BY <2>1
  <2> QED BY <2>1, <2>2, <2>3, <2>4, <2>5, ServedExact
<1> QED BY <1>1, <1>2 DEF PagesSound, PageExact

\* A prepared page that answers gives the hits and the number of matches of a
\* search, and the counts of short terms are those of the listed rows, for
\* every index, query, journal length and number of pages and commits
\* (browse/search_cache/, browse/short_counts/).
THEOREM PagesSoundHolds == PagesSpec => []PagesSound
<1>1. PagesInit => PagesInv
  BY PagesInvInitially
<1>2. PagesInv /\ [PagesNext]_pageVars => PagesInv'
  BY PagesInvKept
<1>3. PagesInv => PagesSound
  BY PagesInvSays
<1> QED BY <1>1, <1>2, <1>3, PTL DEF PagesSpec
=============================================================================
