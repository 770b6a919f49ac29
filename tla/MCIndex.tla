------------------------------ MODULE MCIndex ------------------------------
(***************************************************************************)
(* A small index for TLC: one folder d with a file ab ("a.b", which sorts   *)
(* between a and a/x) and a folder a that holds ax.  One run checks what    *)
(* is built on such an index; "part" is the component that moves, the       *)
(* others stay as they were at first.                                       *)
(***************************************************************************)
EXTENDS OverlayReaders, CatalogChildren, PreparedPages, IndexBlocks, QuickAnswers, CatalogBuild

VARIABLE part

Parts == {"overlay", "readers", "catalog", "pages", "blocks", "listing", "builds"}

Tree == {"d", "a", "ab", "ax"}
FoldersAbove == [p \in Tree |-> CASE p = "d" -> {} [] p = "ax" -> {"d", "a"} [] OTHER -> {"d"}]
ByteOrder == [p \in Tree |-> CASE p = "d" -> 1 [] p = "a" -> 2 [] p = "ab" -> 3 [] p = "ax" -> 4]
Upsert(p, r) == [kind |-> "upsert", path |-> p, record |-> r]
Removal(p) == [kind |-> "remove", path |-> p]
FolderRemoval(p) == [kind |-> "prefix", path |-> p]
HeldAs(p, r) == [path |-> p, record |-> r]
-----------------------------------------------------------------------------
(* The overlay and its readers. *)
FirstIndex == [p \in Tree |-> "r1"]
FolderWrites == {Upsert("ax", "r2"), Removal("ax"), FolderRemoval("a")}
ReaderWrites == {Upsert("ax", "r2"), FolderRemoval("a")}

(* The catalog: ab comes from two sources. *)
Pinned == <<HeldAs("d", "r1"), HeldAs("a", "r1"), HeldAs("ab", "r1"), HeldAs("ab", "r1"), HeldAs("ax", "r1")>>
RowWrites == {Upsert("ax", "r2"), Upsert("ab", "r1"), Removal("ab"), FolderRemoval("a"), FolderRemoval("d")}

(* Prepared pages: q2 matches fewer rows, and a record may move a row forward. *)
RankIn(q, p, r) ==
  IF p = "d" \/ (q = "q2" /\ (p = "a" \/ r = "r2")) THEN 0
  ELSE 2 * ByteOrder[p] + (IF r = "r1" THEN 0 ELSE IF p = "ax" THEN -5 ELSE 3)
Ranking == [q \in {"q1", "q2"} |-> [p \in Tree |-> [r \in {"r1", "r2"} |-> RankIn(q, p, r)]]]
LettersOf == [p \in Tree |-> CASE p = "d" -> {} [] p = "a" -> {"a"} [] OTHER -> {"a", p}]
Listing1 == [p \in Tree |-> IF p = "ab" THEN "nothing" ELSE "r1"]
Batches == {<<Upsert("ax", "r2")>>, <<FolderRemoval("a")>>, <<Removal("a")>>,
            <<Upsert("ab", "r1"), Upsert("ax", "r1")>>, <<Upsert("a", "r2"), Removal("ab")>>,
            <<Upsert("ab", "r2"), Upsert("ax", "r1"), FolderRemoval("a"), Upsert("ab", "r1")>>}

(* Blocks: nothing, a tree without ab, the whole tree. *)
Number == [r \in {"r1", "r2"} |-> IF r = "r1" THEN 1 ELSE 2]
Builds == {{}, {HeldAs(p, "r1") : p \in {"d", "a", "ax"}}, {HeldAs(p, "r1") : p \in Tree}}
-----------------------------------------------------------------------------
(* Listings: paths and letters are numbers; 9 is the Kelvin sign, 3 a K. *)
FileNames == <<<<1>>, <<1, 2>>, <<3>>, <<1>>, <<9, 2>>, <<2, 1>>, <<1, 1>>>>
Extensions == <<"x", "y", "z", "x", "y", "x", "x">>
FileRow(p, t, s) == [path |-> p, time |-> t, size |-> s, kind |-> "file"]
Rows == <<FileRow(1, 2, 1), FileRow(2, 1, 3), [FileRow(3, 3, 1) EXCEPT !.kind = "dir"],
          FileRow(4, 1, 2), FileRow(5, 3, 2), FileRow(7, 1, 2)>>
RowChanges == {FileRow(6, 1, 1), FileRow(2, 3, 2), FileRow(1, 7, 3), FileRow(7, 0, 1),
               [path |-> 4, gone |-> TRUE]}
Every(sort) == [sort |-> sort, kinds |-> {}, exts |-> {}, min |-> 0, max |-> 9,
                scopes |-> {}, excluded |-> {}, exact |-> TRUE]
Folder46 == [at |-> 2, low |-> 4, high |-> 6]
Folder24 == [at |-> 1, low |-> 2, high |-> 4]
Lists ==
  {Every(s) : s \in {"NameAsc", "NameDesc", "PathAsc", "PathDesc", "SizeAsc", "SizeDesc", "TimeAsc", "TimeDesc"}}
  \cup {[Every("TimeDesc") EXCEPT !.scopes = {Folder46}],
        [Every("SizeAsc") EXCEPT !.scopes = {Folder46, Folder24}, !.excluded = {[at |-> 1, low |-> 1, high |-> 1]}],
        [Every("NameAsc") EXCEPT !.scopes = {Folder46}, !.exact = FALSE],
        [Every("NameDesc") EXCEPT !.kinds = {"file"}, !.exts = {"x", "z"}],
        [Every("SizeDesc") EXCEPT !.min = 2, !.max = 3]}
SearchedTerms == {<<1>>, <<2>>, <<1, 2>>, <<3>>}
RankedQueries == {Every("TimeDesc"), [Every("SizeDesc") EXCEPT !.kinds = {"file"}]}
-----------------------------------------------------------------------------
IndexInit ==
  /\ part \in Parts
  /\ ReadersInit /\ CatalogInit /\ PagesInit /\ ListingInit
  /\ BlockInit /\ (part # "blocks" => entries = {})
  /\ CatalogBuildInit /\ (part # "builds" => ~sqlite.there)

Rest(moving) ==
  /\ UNCHANGED part
  /\ moving \notin {"overlay", "readers"} => UNCHANGED allVars
  /\ moving = "overlay" => UNCHANGED readerVars
  /\ moving = "readers" => UNCHANGED synced /\ ToSet(log'.frames) \subseteq ReaderWrites
  /\ moving # "catalog" => UNCHANGED catalogVars
  /\ moving # "pages" => UNCHANGED pageVars
  /\ moving # "blocks" => UNCHANGED blockVars
  /\ moving # "listing" => UNCHANGED listingVars
  /\ moving # "builds" => UNCHANGED buildVars

IndexNext ==
  \/ part = "overlay" /\ OverlayNext /\ Rest("overlay")
  \/ part = "readers" /\ ReadersNext /\ Rest("readers")
  \/ part = "catalog" /\ CatalogNext /\ Rest("catalog")
  \/ part = "pages" /\ PagesNext /\ Rest("pages")
  \/ part = "blocks" /\ BlockNext /\ Rest("blocks")
  \/ part = "listing" /\ ListingNext /\ Rest("listing")
  \/ part = "builds" /\ BuildNext /\ Rest("builds")

IndexSpec == IndexInit /\ [][IndexNext]_<<part, allVars, catalogVars, pageVars, blockVars, listingVars, buildVars>>
-----------------------------------------------------------------------------
(* What a component promises, while it moves. *)

\* The catalog lists exactly the children of every folder (browse/hierarchy.rs).
FoldersListed == part = "catalog" => ListingComplete

\* What the compact index answers from its blocks is what it holds: by folder
\* and by page, before and after copied blocks (compact/).
BlocksSound == part = "blocks" => ReadsExact /\ ScrollingShowsAll

\* Neither a page nor an early answer differs from the full listing or search
\* (browse/ordered.rs, browse/quick.rs, browse/query/short.rs, ranked.rs).
SearchSound == part = "listing" => ScrollKeepsPlace /\ AnswersExact
=============================================================================
