---------------------------- MODULE IndexBlocks ----------------------------
(* The base file: entries in path order, cut into compressed blocks, and a    *)
(* posting list that gives, for each trigram, the blocks it occurs in.  With  *)
(* the overlay of live changes it answers everything: searches page by page,  *)
(* the children and the subtree of a folder, the entries of a path.  A        *)
(* compaction writes the overlay into a new base, copying every block it      *)
(* leaves alone and renumbering its postings; when the entries of several     *)
(* sources interleave in path order it sorts everything anew instead.         *)
(*                                                                            *)
(* A path's trigrams are abstracted to one per name on it, so that a term is  *)
(* the name of a file or folder and matches every path it occurs in.  Block   *)
(* compression, checksums, version checks and the record codec are left out,  *)
(* and a listing's truncation to its largest files.                           *)
EXTENDS ChangeTables, Sequences

LOCAL INSTANCE FiniteSetsExt
LOCAL INSTANCE SequencesExt

CONSTANTS
    SizeOf,           \* the size a record gives
    SourceOf,         \* the source a record comes from
    FirstBase,        \* the entries the first base may be built from
    BlockRecords,     \* entries to a block
    PageLimit,        \* hits to a page
    MaxBlockChanges,  \* bound on the changes made between two compactions
    MaxCompactions    \* bound on the compactions

Entry == [path : Paths, record : Records]

BlocksAssumption ==
    /\ SizeOf \in [Records -> Nat] /\ SourceOf \in [Records -> Nat]
    /\ \A build \in FirstBase : build \subseteq Entry
    /\ BlockRecords \in Nat \ {0} /\ PageLimit \in Nat \ {0}
    /\ MaxBlockChanges \in Nat /\ MaxCompactions \in Nat
ASSUME BlocksAssumption

VARIABLES
    blocks,      \* the base: a sequence of blocks of entries
    postings,    \* pairs of a name and the number of a block it occurs in
    overlay,     \* the live changes: rows and removed prefixes
    entries,     \* ghost: what the index holds
    budget       \* changes and compactions left

blockVars == <<blocks, postings, overlay, entries, budget>>

----------------------------------------------------------------------------
(* Writing a base. *)
Earlier(e, f) == \/ Rank[e.path] < Rank[f.path]
                 \/ e.path = f.path /\ SourceOf[e.record] < SourceOf[f.record]
BlockOrder(es) == SetToSortSeq(es, Earlier)

NamesIn(block) == UNION {Ancestors(block[k].path) : k \in DOMAIN block}
Pairs(block, number) == NamesIn(block) \X {number}

NewOutput == [blocks |-> << >>, added |-> {}, buffer |-> << >>, moved |-> << >>]

FlushBlock(out) ==
    IF out.buffer = << >> THEN out
    ELSE [out EXCEPT !.blocks = Append(@, out.buffer),
                     !.added = @ \cup Pairs(out.buffer, Len(out.blocks) + 1),
                     !.buffer = << >>]

PushEntry(out, e) ==
    LET longer == [out EXCEPT !.buffer = Append(@, e)]
    IN IF Len(longer.buffer) = BlockRecords THEN FlushBlock(longer) ELSE longer

PushAll(out, es) == FoldLeft(PushEntry, out, es)

(* Mutant: the pending entries are not written before the copied block. *)
CopyBlockUnflushed(out, number) ==
    [out EXCEPT !.blocks = Append(@, blocks[number]),
                !.moved = @ @@ (number :> (Len(out.blocks) + 1))]

(* A block no change touches is copied; its postings will follow it. *)
CopyBlock(out, number) ==
    LET flushed == FlushBlock(out)
    IN [flushed EXCEPT !.blocks = Append(@, blocks[number]),
                       !.moved = @ @@ (number :> (Len(flushed.blocks) + 1))]

(* build_streamed: everything sorted, cut into blocks. *)
Rebuilt(es) ==
    LET out == FlushBlock(PushAll(NewOutput, BlockOrder(es)))
    IN [blocks |-> out.blocks, postings |-> out.added]

LiveRows == {p \in Paths : ~Shadows(overlay, p)}
Upserts == {[path |-> p, record |-> overlay.rows[p]] :
               p \in {q \in Paths : overlay.rows[q] \in Records}}

(* Does the next upsert fall into the block ending with this entry? *)
Reaches(waiting, last) ==
    waiting # << >> /\ Rank[Head(waiting).path] <= Rank[last.path]

(* The upserts before, or up to, a place in path order are written. *)
EmitUntil(st, limit) ==
    LET due(e) == Rank[e.path] <= limit
    IN [out |-> PushAll(st.out, SelectSeq(st.waiting, due)),
        waiting |-> SelectSeq(st.waiting, LAMBDA e : ~due(e))]

(* One block of the old base. *)
FoldBlock(st, number) ==
    LET block == blocks[number]
        first == block[1]
        last == block[Len(block)]
        before == EmitUntil(st, Rank[first.path] - 1)
        hidden(e) == Shadows(overlay, e.path)
        put(s, e) == LET upTo == EmitUntil(s, Rank[e.path] - 1)
                     IN [upTo EXCEPT !.out = PushEntry(@, e)]
        kept == SelectSeq(block, LAMBDA e : ~hidden(e))
    IN IF ~Reaches(before.waiting, last) /\ kept = block
       THEN [before EXCEPT !.out = CopyBlock(@, number)]
       ELSE EmitUntil(FoldLeft(put, before, kept), Rank[last.path])

(* The postings of copied blocks are carried over, renumbered. *)
CarriedPostings(out) ==
    {<<pair[1], out.moved[pair[2]]>> :
        pair \in {q \in postings : q[2] \in DOMAIN out.moved}}

Folded ==
    LET start == [out |-> NewOutput, waiting |-> BlockOrder(Upserts)]
        walked == FoldLeft(FoldBlock, start, [n \in DOMAIN blocks |-> n])
        out == FlushBlock(PushAll(walked.out, walked.waiting))
    IN [blocks |-> out.blocks,
        postings |-> out.added \cup CarriedPostings(out)]

EntriesIn(bs) == UNION {ToSet(bs[n]) : n \in DOMAIN bs}
Compacted == {e \in EntriesIn(blocks) : e.path \in LiveRows} \cup Upserts

(* The folder totals beside the base can be written only source by source. *)
SourcesInOrder(bs) ==
    LET all == FlattenSeq(bs)
    IN \A j, k \in DOMAIN all :
           j < k => SourceOf[all[j].record] <= SourceOf[all[k].record]

----------------------------------------------------------------------------
(* Reading.  A key is a place in path order: an entry is before it when its   *)
(* rank is less.  The key of a folder's content starts at the first path      *)
(* below it ("/d/"), and the key past it ends after the last ("/d0").         *)
StrictlyBelow(d) == AtOrBelow(d) \ {d}
ContentKey(d) == IF StrictlyBelow(d) = {} THEN Rank[d] + 1 ELSE Min({Rank[p] : p \in StrictlyBelow(d)})
PastKey(d) == IF StrictlyBelow(d) = {} THEN Rank[d] + 1 ELSE Max({Rank[p] : p \in StrictlyBelow(d)}) + 1

(* The first block that does not end before the key, by halving. *)
FirstBlock(key) ==
    LET RECURSIVE Between(_, _)
        Between(low, high) ==
            IF low = high THEN low
            ELSE LET middle == (low + high) \div 2
                     block == blocks[middle]
                 IN IF Rank[block[Len(block)].path] < key
                    THEN Between(middle + 1, high) ELSE Between(low, middle)
    IN Between(1, Len(blocks) + 1)

(* What a cursor placed at a key still has to read. *)
From(key) ==
    LET rest == FlattenSeq(SubSeq(blocks, FirstBlock(key), Len(blocks)))
        due == {k \in DOMAIN rest : Rank[rest[k].path] >= key}
    IN IF due = {} THEN << >> ELSE SubSeq(rest, Min(due), Len(rest))

Under(d, e) == e.path \in StrictlyBelow(d)

(* base_children: entries below a child are skipped with one search. *)
BaseChildren(d) ==
    LET RECURSIVE Walk(_)
        Walk(key) ==
            LET rest == From(key)
            IN IF rest = << >> \/ ~Under(d, Head(rest)) THEN {}
               ELSE LET here == Head(rest).path
                        same == {rest[k] : k \in {j \in DOMAIN rest : rest[j].path = here}}
                    IN IF IsParent(d, here)
                       THEN same \cup Walk(Rank[here] + 1)
                       ELSE Walk(PastKey(CHOOSE q \in Above[here] : IsParent(d, q)))
    IN Walk(ContentKey(d))

Shown(es) == {e \in es : ~Shadows(overlay, e.path)}

ListedChildren(d) ==
    Shown(BaseChildren(d)) \cup {e \in Upserts : IsParent(d, e.path)}

(* subtree_records: the run of entries that starts at the folder's content. *)
SubtreeRecords(d) ==
    LET rest == From(ContentKey(d))
        ends == {k \in DOMAIN rest : ~Under(d, rest[k])} \cup {Len(rest) + 1}
    IN Shown(ToSet(SubSeq(rest, 1, Min(ends) - 1)))
           \cup {e \in Upserts : Under(d, e)}

(* list_directory: bytes and entries below each child. *)
Listing(d) ==
    LET below == SubtreeRecords(d)
        bucket(q) == {e \in below : q \in Ancestors(e.path)}
    IN [q \in ChildrenOf(d) |->
           [size |-> MapThenSumSet(LAMBDA e : SizeOf[e.record], bucket(q)),
            count |-> Cardinality(bucket(q))]]

(* records_by_path: the entries of one path, whatever their source. *)
RecordsByPath(p) ==
    LET rest == From(Rank[p])
        ends == {k \in DOMAIN rest : Rank[rest[k].path] > Rank[p]} \cup {Len(rest) + 1}
    IN ToSet(SubSeq(rest, 1, Min(ends) - 1))

(* The blocks a search decodes: all, or those the term's postings name. *)
AnyName == "any"
CandidateBlocks(term) ==
    IF term = AnyName THEN DOMAIN blocks
    ELSE {pair[2] : pair \in {q \in postings : q[1] = term}}

MatchesTerm(term, e) == term = AnyName \/ term \in Ancestors(e.path)

Comes(sort, e, f) ==
    CASE sort = "path" -> Rank[e.path] < Rank[f.path]
      [] sort = "size" -> \/ SizeOf[e.record] > SizeOf[f.record]
                          \/ /\ SizeOf[e.record] = SizeOf[f.record]
                             /\ Rank[e.path] > Rank[f.path]

(* Mutant: the page repeats the entry the last one ended with. *)
FromCursor(sort, e, after) == after = << >> \/ ~Comes(sort, e, after[1])

(* A page starts strictly after the last entry of the page before. *)
PastCursor(sort, e, after) == after = << >> \/ Comes(sort, after[1], e)

(* Only the best of each group, and then of all, are kept. *)
Best(sort, es) ==
    LET order(e, f) == \/ Comes(sort, e, f)
                       \/ ~Comes(sort, f, e) /\ Earlier(e, f)
        sorted == SetToSortSeq(es, order)
    IN SubSeq(sorted, 1, Min({PageLimit, Len(sorted)}))

SearchPage(term, sort, after) ==
    LET hits(es) == {e \in es : MatchesTerm(term, e) /\ PastCursor(sort, e, after)}
        groups == {Best(sort, hits(Shown(ToSet(blocks[n])))) : n \in CandidateBlocks(term)}
    IN Best(sort, UNION {ToSet(group) : group \in groups}
                      \cup ToSet(Best(sort, hits(Upserts))))

(* The pages a user scrolls through, one after the other. *)
Scrolled(term, sort) ==
    LET RECURSIVE More(_, _)
        More(got, left) ==
            LET page == SearchPage(term, sort,
                            IF got = << >> THEN << >> ELSE <<got[Len(got)]>>)
            IN IF page = << >> \/ left = 0 THEN got ELSE More(got \o page, left - 1)
    IN More(<< >>, Cardinality(entries) + 1)

----------------------------------------------------------------------------
BlockInit ==
    /\ \E build \in FirstBase :
           /\ entries = build
           /\ blocks = Rebuilt(build).blocks
           /\ postings = Rebuilt(build).postings
    /\ overlay = [rows |-> NoRows, prefixes |-> {}]
    /\ budget = [changes |-> MaxBlockChanges, compactions |-> MaxCompactions]

(* A live change. *)
ChangeIndex(c) ==
    /\ budget.changes > 0
    /\ overlay' = ApplyOne(overlay, c)
    /\ entries' =
           CASE c.kind = "upsert" -> {e \in entries : e.path # c.path}
                                         \cup {[path |-> c.path, record |-> c.record]}
             [] c.kind = "remove" -> {e \in entries : e.path # c.path}
             [] c.kind = "prefix" -> {e \in entries : e.path \notin AtOrBelow(c.path)}
    /\ budget' = [budget EXCEPT !.changes = @ - 1]
    /\ UNCHANGED <<blocks, postings>>

(* A compaction folds the overlay into the base, or sorts everything anew. *)
CompactBase ==
    /\ budget.compactions > 0
    /\ overlay # [rows |-> NoRows, prefixes |-> {}]
    /\ LET new == IF SourcesInOrder(Folded.blocks) THEN Folded ELSE Rebuilt(Compacted)
       IN /\ blocks' = new.blocks
          /\ postings' = new.postings
    /\ overlay' = [rows |-> NoRows, prefixes |-> {}]
    /\ budget' = [changes |-> MaxBlockChanges, compactions |-> budget.compactions - 1]
    /\ UNCHANGED entries

BlockNext ==
    \/ \E c \in Changes : ChangeIndex(c)
    \/ CompactBase

BlockSpec == BlockInit /\ [][BlockNext]_blockVars

----------------------------------------------------------------------------
(* Whatever was changed and compacted, every folder lists exactly its         *)
(* children, its subtree and its totals, and a path has exactly its entries:  *)
(* the halving searches, the skipping of subtrees and the copied blocks all   *)
(* rest on the blocks staying in path order.                                  *)
(* (compact/children.rs, compact/listing.rs, compact/state.rs)                *)
ReadsExact ==
    \A d \in Paths :
        /\ ListedChildren(d) = {e \in entries : IsParent(d, e.path)}
        /\ SubtreeRecords(d) = {e \in entries : Under(d, e)}
        /\ Shown(RecordsByPath(d)) \cup {e \in Upserts : e.path = d}
               = {e \in entries : e.path = d}
        /\ \A q \in ChildrenOf(d) :
               Listing(d)[q].count = Cardinality({e \in entries : q \in Ancestors(e.path)})

(* Scrolling through the pages of any search shows every match once, in the   *)
(* order asked for: no block is missed by its postings, renumbered or new,    *)
(* and no hit is lost between two pages.  (compact/search.rs, compact/fold/)  *)
ScrollingShowsAll ==
    \A term \in Paths \cup {AnyName}, sort \in {"path", "size"} :
        LET got == Scrolled(term, sort)
        IN /\ ToSet(got) = {e \in entries : MatchesTerm(term, e)}
           /\ \A j, k \in DOMAIN got : j < k => Comes(sort, got[j], got[k])
=============================================================================
