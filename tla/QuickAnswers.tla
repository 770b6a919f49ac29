---------------------------- MODULE QuickAnswers ----------------------------
(***************************************************************************)
(* Answers for the first page of a search that are found without looking   *)
(* at every record: names equal to the term and names beginning with it,   *)
(* newest first, from capped lists of the catalog; one- and two-letter     *)
(* searches; and the newest or largest files from a sidecar that keeps the *)
(* leaders of the base.  Each either proves that its rows are the rows of  *)
(* the full search or leaves the question to it.                           *)
(***************************************************************************)
EXTENDS OrderedListing

CONSTANTS
  QuickTerms,      \* searched terms, sequences of letters
  QuickLists,      \* filters of the listings answered from the leaders
  LetterK, KelvinSign,  \* two letters the search takes for one, but the table does not
  RecallCap,       \* rows taken of one list of equal or initial names
  InitialDepth,    \* base rows kept per first letter
  KeptLeaders,     \* rows of the sidecar in each order
  MaxCandidates    \* rows a one- or two-letter search looks at

NoAnswer == [answered |-> FALSE]
Answer(rows) == [answered |-> TRUE, rows |-> rows]
-----------------------------------------------------------------------------
(* The full search: a term may be anywhere in a name, best first. *)
Spelled(letters) == [k \in DOMAIN letters |-> IF letters[k] = KelvinSign THEN LetterK ELSE letters[k]]
Places(term, name) ==
  {k \in 1 .. Len(name) - Len(term) + 1 : SubSeq(Spelled(name), k, k + Len(term) - 1) = Spelled(term)}

ExactScore == 16777216
PrefixScore == 1048576
InnerScore == 4096
ScoreOf(term, r) ==
  LET name == NameOf[r.path] at == Places(term, name) IN
  IF at = {} THEN 0
  ELSE LET first == Min(at) IN
       (IF first > 1 THEN InnerScore
        ELSE IF Len(term) = Len(name) THEN ExactScore + PrefixScore ELSE PrefixScore)
         + 257 - first

BetterMatch(term, r, s) ==
  \/ ScoreOf(term, r) > ScoreOf(term, s)
  \/ ScoreOf(term, r) = ScoreOf(term, s) /\ ListedBefore("TimeDesc", r, s)

BestMatches(term, rows) == Arranged(rows, LAMBDA r, s : BetterMatch(term, r, s))
IndexRows == {truth[p] : p \in DOMAIN truth} \ {NoRow}
FullSearch(term, after, n) ==
  FirstRows(BestMatches(term, {r \in IndexRows : /\ ScoreOf(term, r) > 0
                                                 /\ after = NoRow \/ BetterMatch(term, after, r)}), n)
-----------------------------------------------------------------------------
(* Two lists, each newest first; the end of a list that was cut ends both. *)
NewestRows(rows) == Arranged(rows, LAMBDA r, s : ListedBefore("TimeDesc", r, s))

RECURSIVE MergeNewest(_, _, _, _)
MergeNewest(base, baseCut, live, liveCut) ==
  IF (base = <<>> /\ baseCut) \/ (live = <<>> /\ liveCut) THEN [rows |-> <<>>, incomplete |-> TRUE]
  ELSE IF base = <<>> /\ live = <<>> THEN [rows |-> <<>>, incomplete |-> FALSE]
  ELSE LET fromBase == live = <<>> \/ (base # <<>> /\ ListedBefore("TimeDesc", Head(base), Head(live)))
           rest == IF fromBase THEN MergeNewest(Tail(base), baseCut, live, liveCut)
                   ELSE MergeNewest(base, baseCut, Tail(live), liveCut)
       IN [rest EXCEPT !.rows = <<Head(IF fromBase THEN base ELSE live)>> \o @]

\* Rows of the base as the time column orders them; later paths first on a tie.
NewestBase(ids) ==
  RowsAt(Arranged(ids, LAMBDA i, j : RowValue("TimeDesc", i) > RowValue("TimeDesc", j)))
AliveRows(rows) == SelectSeq(rows, LAMBDA r : \A i \in deadRows : BaseRows[i] # r)

(* Mutant: the lists of a first letter are taken for complete. *)
InitialBaseUncut(letter) ==
  LET all == FirstRows(NewestBase({i \in RowIds : NameOf[BaseRows[i].path][1] = letter}), InitialDepth) IN
  [rows |-> AliveRows(all), cut |-> FALSE]

InitialBase(letter) ==
  LET all == FirstRows(NewestBase({i \in RowIds : NameOf[BaseRows[i].path][1] = letter}), InitialDepth) IN
  [rows |-> AliveRows(all), cut |-> Len(all) >= InitialDepth]
InitialLive(letter) ==
  FirstRows(NewestRows({r \in liveRows : NameOf[r.path][1] = letter}), RecallCap)

EqualBase(term) ==
  FirstRows(NewestBase({i \in RowIds \ deadRows : NameOf[BaseRows[i].path] = term}), RecallCap)
EqualLive(term) == FirstRows(NewestRows({r \in liveRows : NameOf[r.path] = term}), RecallCap)

NotInLog(rows) == SelectSeq(rows, LAMBDA r : ~InLog(r.path))

Capped(rows) == [rows |-> rows, cut |-> Len(rows) = RecallCap]
MergeLists(base, live) == MergeNewest(base.rows, base.cut, live.rows, live.cut)

\* Rows that end before n are an answer if nothing was cut off.
Proven(hits, incomplete, n) ==
  IF Len(hits) < n /\ incomplete THEN NoAnswer ELSE Answer(FirstRows(hits, n))

ExactFrom(list, n) == Proven(NotInLog(list.rows), list.incomplete, n)
QuickExact(term, n) == ExactFrom(MergeLists(Capped(EqualBase(term)), Capped(EqualLive(term))), n)

InitialRows(letter) == MergeLists(InitialBase(letter), Capped(InitialLive(letter)))

QuickPrefix(term, hits, n) ==
  LET more == SelectSeq(NotInLog(InitialRows(term[1]).rows),
                        LAMBDA r : NameOf[r.path] # term /\ IsPrefix(term, NameOf[r.path]))
  IN Proven(hits \o more, TRUE, n)

\* One letter that has a second spelling: both are looked up.
PrefixFrom(list, n) ==
  Proven(SelectSeq(NotInLog(list.rows), LAMBDA r : Len(NameOf[r.path]) # 1), list.incomplete, n)
LetterPrefix(letter, n) == PrefixFrom(InitialRows(letter), n)

JoinSpellings(exact, begun, n) ==
  LET equal == UNION {Range(a.rows) : a \in exact}
      all == IF Cardinality(equal) >= n THEN equal ELSE equal \cup UNION {Range(a.rows) : a \in begun}
  IN IF NoAnswer \in exact THEN NoAnswer
     ELSE IF Cardinality(equal) < n /\ NoAnswer \in begun THEN NoAnswer
     ELSE IF Cardinality(all) < n THEN NoAnswer
     ELSE Answer(FirstRows(BestMatches(<<LetterK>>, all), n))

QuickLetter(n) ==
  JoinSpellings({QuickExact(<<l>>, n) : l \in {LetterK, KelvinSign}},
                {LetterPrefix(l, n) : l \in {LetterK, KelvinSign}}, n)

\* Equal names that fill no page are followed by names that begin with the term.
AndPrefix(term, exact, n) ==
  IF exact.answered /\ Len(exact.rows) < n THEN QuickPrefix(term, exact.rows, n) ELSE exact

WithLog(term, found, n) ==
  IF ~found.answered THEN NoAnswer
  ELSE Answer(FirstRows(BestMatches(term, Range(found.rows) \cup {r \in LogRecords : ScoreOf(term, r) > 0}), n))

QuickAnswer(term, n) ==
  IF Len(term) > 1 /\ LetterK \in Range(term) THEN NoAnswer
  ELSE WithLog(term, AndPrefix(term, IF term = <<LetterK>> THEN QuickLetter(n) ELSE QuickExact(term, n), n), n)
-----------------------------------------------------------------------------
(* One- and two-letter searches, page by page, from a catalog that is not   *)
(* behind: equal names first, then names that begin with the term.          *)
NewestNamed(ids, after, n) ==
  FirstRows(NewestBase({i \in ids \ deadRows :
    after = NoRow \/ AfterBoundary("TimeDesc", AnchorBoundary("TimeDesc", after), i)}), n)
LiveNamed(rows, after, n) ==
  FirstRows(NewestRows({r \in rows : after = NoRow \/ ListedBefore("TimeDesc", after, r)}), n)

Begins(term, p) == NameOf[p] # term /\ IsPrefix(term, NameOf[p])

EqualNames(term, after, n) ==
  FirstRows(MergeNewest(NewestNamed({i \in RowIds : NameOf[BaseRows[i].path] = term}, after, n), FALSE,
                        LiveNamed({r \in liveRows : NameOf[r.path] = term}, after, n), FALSE).rows, n)

BegunNames(term, from, n) ==
  LET initial == LiveNamed({r \in liveRows : NameOf[r.path][1] = term[1]}, from, MaxCandidates) IN
  MergeNewest(NewestNamed({i \in RowIds : Begins(term, BaseRows[i].path)}, from, n), FALSE,
              FirstRows(SelectSeq(initial, LAMBDA r : Begins(term, r.path)), n), FALSE).rows

Both(term, equal, from, n) == FirstRows(equal \o BegunNames(term, from, n - Len(equal)), n)

ShortRelevance(term, after, n) ==
  LET score == IF after = NoRow THEN ExactScore + PrefixScore + 256 ELSE ScoreOf(term, after) IN
  IF score = PrefixScore + 256 THEN Proven(Both(term, <<>>, after, n), TRUE, n)
  ELSE IF score = ExactScore + PrefixScore + 256
       THEN Proven(Both(term, EqualNames(term, after, n), NoRow, n), TRUE, n) ELSE NoAnswer

Unfiltered(sort) ==
  [sort |-> sort, kinds |-> {}, exts |-> {}, min |-> 0, max |-> SizeMax,
   scopes |-> {}, excluded |-> {}, exact |-> TRUE]

\* A page is whole if it is full, or if no candidate was left out.
ShortHits(term, rows, n) ==
  Proven(SelectSeq(rows, LAMBDA r : Places(term, NameOf[r.path]) # {}), Len(rows) = MaxCandidates, n)
ShortOrdered(term, sort, after, n) ==
  ShortHits(term, FirstRows(ListFrom(Unfiltered(sort), after), MaxCandidates), n)
-----------------------------------------------------------------------------
(* The leaders of the base on disk, with the whole log merged over them. *)
FoldedRows == {folded[p] : p \in DOMAIN folded} \ {NoRow}
InOrder(sort, rows) == Arranged(rows, LAMBDA r, s : ListedBefore(sort, r, s))
Leaders(sort) == FirstRows(InOrder(sort, FoldedRows), KeptLeaders)

RankedAnswer(q, n) ==
  LET leaders == Leaders(q.sort)
      kept == SelectSeq(leaders, LAMBDA r : ~Overlaid(r.path) /\ PassesFilters(q, r))
      added == {r \in OverlayRecords : PassesFilters(q, r)}
  IN IF Len(kept) < n /\ Cardinality(FoldedRows) > Len(leaders) THEN NoAnswer
     ELSE Answer(FirstRows(InOrder(q.sort, Range(kept) \cup added), n))
-----------------------------------------------------------------------------
\* "Return a proven complete first page" (search_quick), "a listing the file
\* cannot answer exactly returns None" (RankedLists): whichever writes the
\* catalog has or lacks, an answer given is the answer of the full search.
\* (Answers do not depend on the list being read: one is not open.)
AnswersExact ==
  wanted = NoList =>
  LET Sound(a, rows) == a = NoAnswer \/ a = Answer(rows) IN
  \A n \in 1 .. PageRows :
    /\ \A t \in QuickTerms :
         /\ Sound(QuickAnswer(t, n), FullSearch(t, NoRow, n))
         /\ ~Behind /\ LetterK \notin Range(t) =>
              \A after \in {NoRow} \cup {r \in IndexRows : ScoreOf(t, r) > 0} :
                /\ Sound(ShortRelevance(t, after, n), FullSearch(t, after, n))
                /\ Sound(ShortOrdered(t, "NameAsc", after, n),
                     FirstRows(InOrder("NameAsc", {r \in IndexRows :
                       /\ ScoreOf(t, r) > 0
                       /\ after = NoRow \/ ListedBefore("NameAsc", after, r)}), n))
    /\ \A q \in QuickLists :
         Sound(RankedAnswer(q, n), FirstRows(InOrder(q.sort, {r \in IndexRows : PassesFilters(q, r)}), n))
=============================================================================
