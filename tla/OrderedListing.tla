--------------------------- MODULE OrderedListing ---------------------------
(***************************************************************************)
(* Lists of the browse catalog in a chosen order, read page by page.  A    *)
(* page merges three sorted sources: the rows of the pinned base, found by *)
(* scanning flat columns in growing chunks; the changed rows of the small  *)
(* table, read by key in fixed pages; and, while the catalog is behind,    *)
(* the log, which hides both.  The next page starts after the last row     *)
(* shown, whatever was written since.  Paths are their ranks in path       *)
(* order, and a base row is known by its place in that order.              *)
(***************************************************************************)
EXTENDS Integers, Sequences, FiniteSets, FiniteSetsExt, SequencesExt

CONSTANTS
  BaseRows,          \* the pinned base: records in path order, one per path
  NameOf,            \* the name of every path, a sequence of letters
  ExtOf,             \* and its extension
  ListingWrites,     \* what writers submit: records, and paths to drop
  ListQueries,       \* the lists a user asks for
  FirstChunk, LargestChunk,   \* rows of the first and the largest column scan
  LivePage,          \* rows of one read of the changed rows
  PageRows,          \* rows of a page
  KnownExts,         \* extensions the columns have a number for
  SizeMax,           \* the largest size the columns can hold
  LatestTime,        \* times after it are taken for broken ones
  MaxListingWrites   \* bound on the writes

NoRow == [path |-> 0]
NoList == [sort |-> "none"]

ASSUME ListingAssumption ==
  /\ \A i, j \in DOMAIN BaseRows : i < j => BaseRows[i].path < BaseRows[j].path
  /\ \A w \in ListingWrites : w.path \in DOMAIN NameOf
  /\ {FirstChunk, LargestChunk, LivePage, PageRows} \subseteq Nat \ {0}

VARIABLES
  deadRows,    \* base rows that were replaced or removed
  liveRows,    \* changed rows of the table, one per path
  unfolded,    \* the writes in the log since the last compaction
  reflected,   \* how many of them the catalog was told of
  written,     \* writes in all
  truth,       \* the index the writes mean
  folded,      \* the index of the base on disk, newer than the pinned one
  wanted,      \* the list being read, if one is
  shown,       \* its rows so far
  touched,     \* paths written since the list was asked for
  reachedEnd   \* the last page was not full

listingVars == <<deadRows, liveRows, unfolded, reflected, written, truth, folded, wanted, shown, touched, reachedEnd>>

RowIds == DOMAIN BaseRows
-----------------------------------------------------------------------------
(* The order of records. *)
Arranged(S, Before(_, _)) ==
  [k \in 1 .. Cardinality(S) |-> CHOOSE r \in S : Cardinality({s \in S : Before(s, r)}) = k - 1]

FirstRows(rows, n) == SubSeq(rows, 1, Min({n, Len(rows)}))

Lower(S) == IF S = {} THEN 0 ELSE Max(S)

\* Names compare letter by letter; a shorter name comes before its extensions.
NameBefore(m, n) ==
  LET alike == Lower({k \in 0 .. Min({Len(m), Len(n)}) : SubSeq(m, 1, k) = SubSeq(n, 1, k)}) IN
  IF alike = Len(m) THEN Len(n) > Len(m) ELSE alike # Len(n) /\ m[alike + 1] < n[alike + 1]

SortTime(r) == IF r.time > LatestTime THEN 0 ELSE r.time
Descends(sort) == sort \in {"NameDesc", "PathDesc", "SizeDesc", "TimeDesc"}
Column(sort) == CASE sort \in {"NameAsc", "NameDesc"} -> "name" [] sort \in {"PathAsc", "PathDesc"} -> "path"
                  [] sort \in {"SizeAsc", "SizeDesc"} -> "size" [] OTHER -> "time"

RisesAbove(sort, r, s) ==
  LET tie == r.path < s.path IN
  CASE Column(sort) = "name" -> IF NameOf[r.path] = NameOf[s.path] THEN tie
                                ELSE NameBefore(NameOf[r.path], NameOf[s.path])
    [] Column(sort) = "path" -> tie
    [] Column(sort) = "size" -> r.size < s.size \/ (r.size = s.size /\ tie)
    [] OTHER -> SortTime(r) < SortTime(s) \/ (SortTime(r) = SortTime(s) /\ tie)

\* compare_records: r is listed before s.
ListedBefore(sort, r, s) ==
  RisesAbove(sort, IF Descends(sort) THEN s ELSE r, IF Descends(sort) THEN r ELSE s)
-----------------------------------------------------------------------------
(* Filters. *)
UnderRoot(p, root) == p = root.at \/ (root.low <= p /\ p < root.high)
InScopes(q, p) == q.scopes = {} \/ \E root \in q.scopes : UnderRoot(p, root)

PassesFilters(q, r) ==
  /\ q.kinds = {} \/ r.kind \in q.kinds
  /\ q.exts = {} \/ ExtOf[r.path] \in q.exts
  /\ q.min <= r.size /\ r.size <= q.max
  /\ InScopes(q, r.path)
  /\ \A root \in q.excluded : ~UnderRoot(r.path, root)

\* Extensions beyond the table share one number, and sizes beyond the column
\* are cut, so the columns may only let through what they cannot tell.
ExtNumber(ext) == IF ext \in KnownExts THEN ext ELSE "other"
SizeColumn(i) == Min({BaseRows[i].size, SizeMax})
Overflowed == \E i \in RowIds : ExtOf[BaseRows[i].path] \notin KnownExts

LowerBound(p) == 1 + Cardinality({i \in RowIds : BaseRows[i].path < p})

\* Scopes become intervals of rows; a scope whose case is ignored cannot.
JoinIntervals(joined, r) ==
  IF joined # <<>> /\ r[1] <= Last(joined)[2]
  THEN Append(Front(joined), <<Last(joined)[1], Max({Last(joined)[2], r[2]})>>)
  ELSE Append(joined, r)

RowIntervals(roots) ==
  LET all == UNION {{<<LowerBound(root.at), LowerBound(root.at + 1)>>,
                     <<LowerBound(root.low), LowerBound(root.high)>>} : root \in roots}
  IN FoldLeft(JoinIntervals, <<>>,
              Arranged({r \in all : r[1] < r[2]},
                           LAMBDA a, b : a[1] < b[1] \/ (a[1] = b[1] /\ a[2] < b[2])))

Narrows(q) == q.scopes # {} /\ q.exact
InIntervals(rs, i) ==
  LET begun == {k \in DOMAIN rs : rs[k][1] <= i} IN begun # {} /\ i < rs[Max(begun)][2]

ColumnsAccept(q, i) ==
  /\ q.kinds = {} \/ BaseRows[i].kind \in q.kinds
  /\ q.exts = {} \/ ExtNumber(ExtOf[BaseRows[i].path]) \in
                      (q.exts \cap KnownExts) \cup (IF Overflowed THEN {"other"} ELSE {})
  /\ SizeColumn(i) = SizeMax \/ (q.min <= SizeColumn(i) /\ SizeColumn(i) <= q.max)
  /\ Narrows(q) => InIntervals(RowIntervals(q.scopes), i)
  /\ q.exact => ~InIntervals(RowIntervals(q.excluded), i)
-----------------------------------------------------------------------------
(* Base rows: one scan returns the first n rows after a boundary.  A row's  *)
(* value packs its key and its place; a boundary is such a value too.       *)
Width == Len(BaseRows) + 2
Pack(key, bound) == key * Width + bound

\* Columns::build sorts the rows by name once; equal names stay in path order.
PlaceByName == [i \in RowIds |->
  LET name == NameOf[BaseRows[i].path]
      ahead == {j \in RowIds : LET n == NameOf[BaseRows[j].path] IN
                                NameBefore(n, name) \/ (n = name /\ j <= i)}
  IN Cardinality(ahead)]

\* Times before 1970 are stored as 1970, times too late as 1970 as well.
TimeColumn(i) == IF BaseRows[i].time > LatestTime THEN 0 ELSE Max({0, BaseRows[i].time})

RowKey(sort, i) ==
  CASE Column(sort) = "name" -> PlaceByName[i] [] Column(sort) = "path" -> i
    [] Column(sort) = "size" -> SizeColumn(i) [] OTHER -> TimeColumn(i)
RowValue(sort, i) == Pack(RowKey(sort, i), i)

AfterBoundary(sort, boundary, i) ==
  boundary = <<>> \/ (RowValue(sort, i) < boundary[1] <=> Descends(sort))

ScannedBefore(sort, a, b) == IF Descends(sort) THEN b < a ELSE a < b

Scan(q, boundary, n) ==
  LET found == {i \in RowIds : /\ i \notin deadRows /\ AfterBoundary(q.sort, boundary, i)
                               /\ ColumnsAccept(q, i)}
      order == Arranged(found, LAMBDA i, j :
                 ScannedBefore(q.sort, RowValue(q.sort, i), RowValue(q.sort, j)))
  IN FirstRows(order, n)

\* Where the list goes on after a record that need not be a base row.
AnchorBoundary(sort, after) ==
  LET bound == IF Descends(sort) THEN LowerBound(after.path) ELSE LowerBound(after.path + 1)
      before == {i \in RowIds :
                   LET r == BaseRows[i] m == NameOf[r.path] n == NameOf[after.path] IN
                   \/ NameBefore(m, n)
                   \/ m = n /\ (r.path < after.path \/ (~Descends(sort) /\ r.path = after.path))}
  IN CASE Column(sort) = "size" -> <<Pack(Min({after.size, SizeMax}), bound)>>
       [] Column(sort) = "time" -> <<Pack(IF after.time > LatestTime THEN 0 ELSE Max({0, after.time}), bound)>>
       [] Column(sort) = "path" -> <<Pack(bound, 0)>>
       [] OTHER -> <<Pack(1 + Cardinality(before), 0)>>

(* Mutant: an ascending scan resumes at the last row of the chunk. *)
AtChunk(sort, i) ==
  IF Column(sort) \in {"size", "time"}
  THEN <<Pack(RowKey(sort, i), i)>>
  ELSE <<Pack(RowKey(sort, i), 0)>>

PastChunk(sort, i) ==
  IF Column(sort) \in {"size", "time"}
  THEN <<Pack(RowKey(sort, i), IF Descends(sort) THEN i ELSE i + 1)>>
  ELSE <<Pack(IF Descends(sort) THEN RowKey(sort, i) ELSE RowKey(sort, i) + 1, 0)>>

RECURSIVE BaseSide(_, _, _)
BaseSide(q, boundary, chunk) ==
  LET found == Scan(q, boundary, chunk) IN
  found \o IF Len(found) < chunk THEN <<>>
           ELSE BaseSide(q, PastChunk(q.sort, Last(found)), Min({2 * chunk, LargestChunk}))
-----------------------------------------------------------------------------
(* Changed rows, and the log. *)
RECURSIVE LiveSide(_, _)
LiveSide(q, anchor) ==
  LET rows == {r \in liveRows : /\ PassesFilters(q, r)
                                /\ anchor = NoRow \/ ListedBefore(q.sort, anchor, r)}
      page == FirstRows(Arranged(rows, LAMBDA r, s : ListedBefore(q.sort, r, s)), LivePage)
  IN page \o IF Len(page) < LivePage THEN <<>> ELSE LiveSide(q, Last(page))

IsGone(w) == "gone" \in DOMAIN w
Behind == reflected < Len(unfolded)

\* The overlay of the whole log, as the reader takes it when the catalog lags.
LastWrite(p) == unfolded[Lower({k \in DOMAIN unfolded : unfolded[k].path = p})]
Overlaid(p) == \E k \in DOMAIN unfolded : unfolded[k].path = p
OverlayRecords == {w \in {LastWrite(unfolded[k].path) : k \in DOMAIN unfolded} : ~IsGone(w)}

InLog(p) == Behind /\ Overlaid(p)
LogRecords == IF Behind THEN OverlayRecords ELSE {}

LogSide(q, after) ==
  Arranged({r \in LogRecords : PassesFilters(q, r) /\ (after = NoRow \/ ListedBefore(q.sort, after, r))},
               LAMBDA r, s : ListedBefore(q.sort, r, s))

\* Stream::next takes the best of the three heads; base before table before log.
RECURSIVE MergeHeads(_, _)
MergeHeads(sort, sides) ==
  LET ready == {k \in DOMAIN sides : sides[k] # <<>>}
      best == CHOOSE k \in ready : \A j \in ready :
                \/ ListedBefore(sort, Head(sides[k]), Head(sides[j]))
                \/ ~ListedBefore(sort, Head(sides[j]), Head(sides[k])) /\ k <= j
  IN IF ready = {} THEN <<>>
     ELSE <<Head(sides[best])>> \o MergeHeads(sort, [sides EXCEPT ![best] = Tail(@)])

RowsAt(ids) == [k \in DOMAIN ids |-> BaseRows[ids[k]]]
Eligible(q, rows) == SelectSeq(rows, LAMBDA r : ~InLog(r.path) /\ PassesFilters(q, r))

ListFrom(q, after) ==
  LET ids == BaseSide(q, IF after = NoRow THEN <<>> ELSE AnchorBoundary(q.sort, after), FirstChunk)
  IN MergeHeads(q.sort, <<Eligible(q, RowsAt(ids)), Eligible(q, LiveSide(q, after)), LogSide(q, after)>>)

ListPage(q, after) == FirstRows(ListFrom(q, after), PageRows)
-----------------------------------------------------------------------------
BaseIndex == [p \in DOMAIN NameOf |->
                IF \E i \in RowIds : BaseRows[i].path = p
                THEN BaseRows[CHOOSE i \in RowIds : BaseRows[i].path = p] ELSE NoRow]

ListingInit ==
  /\ deadRows = {} /\ liveRows = {} /\ unfolded = <<>> /\ reflected = 0 /\ written = 0
  /\ truth = BaseIndex /\ folded = BaseIndex
  /\ wanted = NoList /\ shown = <<>> /\ touched = {} /\ reachedEnd = FALSE

WriteRow(w) ==
  /\ written < MaxListingWrites /\ written' = written + 1
  /\ unfolded' = Append(unfolded, w)
  /\ truth' = [truth EXCEPT ![w.path] = IF IsGone(w) THEN NoRow ELSE w]
  /\ touched' = touched \cup {w.path}
  /\ UNCHANGED <<deadRows, liveRows, reflected, folded, wanted, shown, reachedEnd>>

ReflectWrite ==
  /\ Behind /\ reflected' = reflected + 1
  /\ LET w == unfolded[reflected + 1] IN
     /\ deadRows' = deadRows \cup {i \in RowIds : BaseRows[i].path = w.path}
     /\ liveRows' = {r \in liveRows : r.path # w.path} \cup (IF IsGone(w) THEN {} ELSE {w})
  /\ UNCHANGED <<unfolded, written, truth, folded, wanted, shown, touched, reachedEnd>>

\* A compaction empties the log; the catalog keeps its base, tombstones and rows.
FoldLog ==
  /\ ~Behind /\ unfolded # <<>>
  /\ unfolded' = <<>> /\ reflected' = 0 /\ folded' = truth
  /\ UNCHANGED <<deadRows, liveRows, written, truth, wanted, shown, touched, reachedEnd>>

AskList(q) ==
  /\ wanted = NoList /\ wanted' = q /\ touched' = {}
  /\ UNCHANGED <<deadRows, liveRows, unfolded, reflected, written, truth, folded, shown, reachedEnd>>

\* Every page is read under one snapshot of the catalog.
NextPage ==
  /\ wanted # NoList /\ ~reachedEnd
  /\ LET page == ListPage(wanted, IF shown = <<>> THEN NoRow ELSE Last(shown)) IN
     /\ shown' = shown \o page
     /\ reachedEnd' = (Len(page) < PageRows)
  /\ UNCHANGED <<deadRows, liveRows, unfolded, reflected, written, truth, folded, wanted, touched>>

ListingNext ==
  \/ \E w \in ListingWrites : WriteRow(w)
  \/ \E q \in ListQueries : AskList(q)
  \/ ReflectWrite \/ FoldLog \/ NextPage

ListingSpec == ListingInit /\ [][ListingNext]_listingVars
-----------------------------------------------------------------------------
\* Scrolling keeps its place whatever is written meanwhile: rows appear in the
\* order asked for and never twice, and of the paths nothing was written to
\* exactly the matching ones appear, every one before the last row shown.
ScrollKeepsPlace ==
  wanted # NoList =>
  LET Passed(r) == reachedEnd \/ (shown # <<>> /\ ~ListedBefore(wanted.sort, Last(shown), r)) IN
    /\ \A i, j \in DOMAIN shown : i < j => ListedBefore(wanted.sort, shown[i], shown[j])
    /\ \A p \in DOMAIN truth \ touched :
       /\ \A i \in DOMAIN shown : shown[i].path = p => truth[p] = shown[i] /\ PassesFilters(wanted, truth[p])
       /\ truth[p] # NoRow /\ PassesFilters(wanted, truth[p]) /\ Passed(truth[p])
            => truth[p] \in Range(shown)
=============================================================================
