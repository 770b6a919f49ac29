--------------------------- MODULE PreparedPages ---------------------------
(***************************************************************************)
(* Search results kept ready in the browse catalog.  A page holds the best *)
(* rows of one query, the number of all matches, and, when there are more  *)
(* matches than rows, the rank of the last row it can vouch for.  Every    *)
(* commit into the catalog corrects the pages and the counts of one- and   *)
(* two-letter searches in the same transaction, and writes the edit into a *)
(* bounded journal.  A page is computed outside any transaction from a     *)
(* snapshot of the log, so the edits since its token are replayed into it, *)
(* or it is given up when the journal no longer has them.                  *)
(***************************************************************************)
EXTENDS ChangeTables, SequencesExt

CONSTANTS
  Queries,         \* the searches that are prepared
  MatchRank,       \* for each query, path and record: its rank, 0 for no match
  Letters,         \* the one- and two-letter terms the name of a path holds
  FirstListed,     \* the index when the catalog was built
  PageBatches,     \* the batches writers commit
  Capacity,        \* rows of a page
  MaxPages,        \* pages kept
  Retained,        \* edits kept in the journal
  MaxCommits       \* bound on committed batches

\* A rank ends with the path, so that no two paths have the same.
ASSUME PagesAssumption ==
  /\ IsFiniteSet(Paths) /\ FirstListed \in Indexes /\ PageBatches \subseteq Seq(Changes)
  /\ Capacity \in Nat \ {0} /\ MaxPages \in Nat \ {0} /\ Retained \in Nat
  /\ \A q \in Queries : \A p \in Paths : \A r \in Records : MatchRank[q][p][r] \in Nat
  /\ \A q \in Queries : \A p1, p2 \in Paths : \A r1, r2 \in Records :
       p1 # p2 /\ MatchRank[q][p1][r1] = MatchRank[q][p2][r2] => MatchRank[q][p1][r1] = 0

VARIABLES
  logged,     \* the index the log stands for, and its length in batches
  toCommit,   \* the batch in the log that the catalog lacks
  listed,     \* the index the catalog shows
  pages,      \* the prepared pages, oldest first
  journal,    \* revision, floor and the retained edits
  counts,     \* matches of every one- and two-letter term
  preparing   \* one reader preparing a page

pageVars == <<logged, toCommit, listed, pages, journal, counts, preparing>>

Terms == UNION {Letters[p] : p \in Paths}
CountsOf(index) == [t \in Terms |-> Cardinality({p \in Paths : index[p] # Nothing /\ t \in Letters[p]})]
-----------------------------------------------------------------------------
(* A search over an index. *)
RankOf(q, p, r) == IF r = Nothing THEN 0 ELSE MatchRank[q][p][r]
Matches(q, index) == {p \in Paths : RankOf(q, p, index[p]) > 0}
Row(q, index, p) == [path |-> p, rank |-> RankOf(q, p, index[p]), record |-> index[p]]
Better(rows, r) == {s \in rows : s.rank < r.rank}
FirstOf(rows, n) == [i \in 1 .. Min({n, Cardinality(rows)}) |->
                       CHOOSE r \in rows : Cardinality(Better(rows, r)) = i - 1]
Search(q, index, after, limit) ==
  [hits |-> FirstOf({r \in {Row(q, index, p) : p \in Matches(q, index)} : r.rank > after}, limit),
   matched |-> Cardinality(Matches(q, index))]
-----------------------------------------------------------------------------
(* Keeping a page: boundary 0 says every match is in the page. *)
Trim(page) ==
  IF Cardinality(page.rows) <= Capacity THEN page
  ELSE LET last == FirstOf(page.rows, Capacity)[Capacity].rank IN
       [page EXCEPT !.rows = {r \in @ : r.rank <= last}, !.boundary = last]

UpdatePage(page, p, old, new) ==
  LET rank == RankOf(page.query, p, new)
      less == [page EXCEPT !.matched = IF RankOf(page.query, p, old) > 0 THEN @ - 1 ELSE @,
                           !.rows = {r \in @ : r.path # p}]
      more == [less EXCEPT !.matched = @ + 1]
  IN IF rank = 0 THEN less
     ELSE IF page.boundary # 0 /\ rank > page.boundary THEN more
     ELSE Trim([more EXCEPT !.rows = @ \cup {[path |-> p, rank |-> rank, record |-> new]}])

(* Mutant: forgotten is that an edit removed a folder, not only records. *)
CanReplayRetained(token) == token >= journal.floor

CanReplay(token) ==
  /\ token >= journal.floor
  /\ \A i \in DOMAIN journal.edits :
       journal.edits[i].revision > token => ~journal.edits[i].invalidated

Replay(page, e) ==
  IF e.revision > preparing.token THEN UpdatePage(page, e.path, e.old, e.new) ELSE page
ReplayEdits(page) == FoldLeft(Replay, page, journal.edits)

\* Only the newest edits stay; the floor is the last revision that lost one.
TrimJournal(j) ==
  LET cut == Len(j.edits) - Retained
      lost == {j.edits[i].revision : i \in 1 .. cut}
  IN IF cut <= 0 THEN j
     ELSE [j EXCEPT !.floor = Max({@} \cup lost), !.edits = SubSeq(@, cut + 1, Len(@))]

\* The page of the same search is replaced.
KeepOthers(kept, p) == IF p.query = preparing.query THEN kept ELSE Append(kept, p)
Evict(ps) == SubSeq(ps, Max({1, Len(ps) - MaxPages + 1}), Len(ps))
-----------------------------------------------------------------------------
(* One change inside the catalog's transaction; short is what the batch has  *)
(* not added to the counts yet.                                              *)
NoShort == [t \in Terms |-> 0]
AddName(n, p, weight) == [t \in Terms |-> IF t \in Letters[p] THEN n[t] + weight ELSE n[t]]
Plus(a, b) == [t \in Terms |-> a[t] + b[t]]

RemoveSubtree(w, root) ==
  LET gone == {p \in AtOrBelow(root) : w.listed[p] # Nothing}
      tally == [t \in Terms |-> -Cardinality({p \in gone : t \in Letters[p]})]
  IN [w EXCEPT !.counts = Plus(Plus(@, w.short), tally), !.short = NoShort,
               !.pages = <<>>,
               !.edits = Append(@, [revision |-> journal.revision + 1, path |-> root,
                                    old |-> Nothing, new |-> Nothing, invalidated |-> TRUE]),
               !.listed = [p \in Paths |-> IF p \in gone THEN Nothing ELSE @[p]]]

(* Mutant: a record that only changed is counted again. *)
NewNameOnly(old, new) == IF new = Nothing THEN -1 ELSE 1

\* What a change adds to the counts of its name.
NameWeight(old, new) == (IF new = Nothing THEN 0 ELSE 1) - (IF old = Nothing THEN 0 ELSE 1)

ChangeRow(w, c) ==
  LET p == c.path
      old == w.listed[p]
      new == IF c.kind = "upsert" THEN c.record ELSE Nothing
  IN IF c.kind = "upsert" /\ old = new THEN w
     ELSE [w EXCEPT !.short = AddName(@, p, NameWeight(old, new)),
                    !.pages = [i \in DOMAIN @ |-> UpdatePage(@[i], p, old, new)],
                    !.edits = Append(@, [revision |-> journal.revision + 1, path |-> p,
                                         old |-> old, new |-> new, invalidated |-> FALSE]),
                    !.listed[p] = new]

Maintain(w, c) == IF c.kind = "prefix" THEN RemoveSubtree(w, c.path) ELSE ChangeRow(w, c)
-----------------------------------------------------------------------------
Unprepared == [step |-> "none"]

PagesInit ==
  /\ logged = [index |-> FirstListed, length |-> 0] /\ toCommit = <<>>
  /\ listed = FirstListed
  /\ pages = <<>> /\ journal = [revision |-> 0, floor |-> 0, edits |-> <<>>]
  /\ counts = CountsOf(FirstListed)
  /\ preparing = Unprepared

LogBatch(b) ==
  /\ toCommit = <<>> /\ logged.length < MaxCommits
  /\ toCommit' = b
  /\ logged' = [index |-> FoldLeft(Effect, logged.index, b), length |-> logged.length + 1]
  /\ UNCHANGED <<listed, pages, journal, counts, preparing>>

CommitBatch ==
  LET w == FoldLeft(Maintain, [listed |-> listed, pages |-> pages, counts |-> counts,
                               short |-> NoShort, edits |-> journal.edits], toCommit)
  IN /\ toCommit # <<>> /\ toCommit' = <<>>
     /\ listed' = w.listed /\ pages' = w.pages /\ counts' = Plus(w.counts, w.short)
     /\ journal' = TrimJournal([journal EXCEPT !.revision = @ + 1, !.edits = w.edits])
     /\ UNCHANGED <<logged, preparing>>

OpenSnapshot(q) ==
  /\ preparing.step = "none"
  /\ preparing' = [step |-> "opened", query |-> q, index |-> logged.index, length |-> logged.length]
  /\ UNCHANGED <<logged, toCommit, listed, pages, journal, counts>>

\* preparation_token: the catalog covers the log, and the log is the snapshot.
TakeToken ==
  /\ preparing.step = "opened"
  /\ preparing' = IF toCommit = <<>> /\ preparing.length = logged.length
                  THEN [step |-> "searching", query |-> preparing.query, index |-> preparing.index,
                        token |-> journal.revision]
                  ELSE Unprepared
  /\ UNCHANGED <<logged, toCommit, listed, pages, journal, counts>>

SavePage ==
  LET q == preparing.query
      found == Search(q, preparing.index, 0, Capacity)
      page == [query |-> q, matched |-> found.matched, rows |-> Range(found.hits),
               boundary |-> IF found.matched > Len(found.hits) THEN Last(found.hits).rank ELSE 0]
  IN /\ preparing.step = "searching"
     /\ pages' = IF CanReplay(preparing.token)
                 THEN Evict(Append(FoldLeft(KeepOthers, <<>>, pages), ReplayEdits(page)))
                 ELSE pages
     /\ preparing' = Unprepared
     /\ UNCHANGED <<logged, toCommit, listed, journal, counts>>

PagesNext ==
  \/ \E b \in PageBatches : LogBatch(b)
  \/ CommitBatch
  \/ \E q \in Queries : OpenSnapshot(q)
  \/ TakeToken \/ SavePage

PagesSpec == PagesInit /\ [][PagesNext]_pageVars
-----------------------------------------------------------------------------
\* search_cached: nothing when the page ran out of rows it can vouch for.
Served(page, after, limit) ==
  LET hits == FirstOf({r \in page.rows : r.rank > after}, limit) IN
  IF page.boundary # 0 /\ Len(hits) < limit THEN {} ELSE {[hits |-> hits, matched |-> page.matched]}

\* A prepared page that answers gives exactly the hits, in order, and the
\* number of matches that a search of the base and the log would give, on the
\* first page and on later ones, whatever was committed while it was prepared.
PageExact ==
  toCommit = <<>> =>
    \A i \in DOMAIN pages : \A limit \in 1 .. Capacity :
      \A after \in {0} \cup {r.rank : r \in pages[i].rows} :
        Served(pages[i], after, limit) \subseteq {Search(pages[i].query, logged.index, after, limit)}

\* The counts of one- and two-letter searches are those of the listed rows.
ShortCountsExact == counts = CountsOf(listed)

\* Whatever the catalog prepared in advance, pages and counts, has kept up with
\* the rows it lists (browse/search_cache/, browse/short_counts/).
PagesSound == PageExact /\ ShortCountsExact
=============================================================================
