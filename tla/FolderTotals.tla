---------------------------- MODULE FolderTotals ----------------------------
(***************************************************************************)
(* The sizes shown beside folders.  A compaction writes them into a        *)
(* sidecar while it streams the records once, in path order, through a     *)
(* stack of open folders; a shallow tree is derived from the sidecar.  A   *)
(* live answer corrects the sidecar by the tables of the log, where a      *)
(* removed folder is subtracted as a whole and every row by itself, and a  *)
(* folder can also be listed straight from the records.                    *)
(***************************************************************************)
EXTENDS ChangeTables, SequencesExt

CONSTANTS
  FolderRecords,   \* the records that are folders
  Bytes,           \* the size of every other record
  TotalsBase,      \* the index of the first base
  TotalsWrites,    \* the changes writers make
  MaxTotalsLog,    \* bound on changes between two compactions
  MaxTotalsFolds,  \* bound on compactions
  TreeDepth,       \* the deepest folder the tree covers
  TreeRows         \* files the tree names in one folder

ASSUME TotalsAssumption ==
  /\ FolderRecords \subseteq Records /\ TotalsBase \in Indexes /\ TotalsWrites \subseteq Changes
  /\ TreeRows \in Nat \ {0}

VARIABLES
  summed,      \* the index in the base
  sidecar,     \* the entries in its sidecar, in the order they were written
  overlaid,    \* the tables of the log
  changesIn,   \* how many changes they resolve
  folds        \* compactions so far

totalsVars == <<summed, sidecar, overlaid, changesIn, folds>>
-----------------------------------------------------------------------------
Zero == [bytes |-> 0, files |-> 0, dirs |-> 0]

\* What a record adds to every folder above it.
Share(r) == IF r \in FolderRecords THEN [Zero EXCEPT !.dirs = 1]
                                   ELSE [bytes |-> Bytes[r], files |-> 1, dirs |-> 0]
AddTotals(a, b) == [f \in DOMAIN Zero |-> a[f] + b[f]]
LessTotals(a, b) == [f \in DOMAIN Zero |-> a[f] - b[f]]
SumOf(S, Of(_)) == FoldSet(LAMBDA x, sum : AddTotals(Of(x), sum), Zero, S)
Listed(index) == {p \in Paths : index[p] # Nothing}
InPathOrder(S) == SetToSortSeq(S, Sorts)
FromRoot(p) == SetToSortSeq(Above[p], LAMBDA q, r : q \in Above[r])
-----------------------------------------------------------------------------
(* The stack of open folders. *)
Child(p, r) == [path |-> p, folder |-> r \in FolderRecords,
                totals |-> IF r \in FolderRecords THEN Zero ELSE Share(r)]
EmptyFolder(p) == [path |-> p, totals |-> Zero, children |-> <<>>]

OpenFolder(w, p) ==
  LET shown == [path |-> p, folder |-> TRUE, totals |-> Zero]
      n == Len(w.stack)
      above == IF n = 0 THEN <<>> ELSE [w.stack EXCEPT ![n].children = Append(@, shown)]
  IN [w EXCEPT !.stack = Append(above, EmptyFolder(p))]

(* Mutant: the folder's totals are not handed to its row in the folder above. *)
CloseFolderQuietly(w) ==
  [stack |-> SubSeq(w.stack, 1, Len(w.stack) - 1), out |-> Append(w.out, w.stack[Len(w.stack)])]

CloseFolder(w) ==
  LET n == Len(w.stack)
      done == w.stack[n]
      kids == w.stack[n - 1].children
      at == SelectLastInSeq(kids, LAMBDA c : c.folder /\ c.path = done.path)
  IN [stack |-> IF n = 1 THEN <<>>
                ELSE [SubSeq(w.stack, 1, n - 1) EXCEPT ![n - 1].children[at].totals = done.totals],
      out |-> Append(w.out, done)]

CloseDownTo(w, keep) ==
  FoldLeft(LAMBDA v, i : CloseFolder(v), w, [i \in 1 .. Len(w.stack) - keep |-> i])

\* One record; the folders it is not in are closed for good.
Push(w, row) ==
  LET desired == FromRoot(row.path)
      common == CHOOSE n \in 0 .. Len(desired) :
                  /\ n <= Len(w.stack) /\ \A i \in 1 .. n : w.stack[i].path = desired[i]
                  /\ n < Len(desired) /\ n < Len(w.stack) => w.stack[n + 1].path # desired[n + 1]
      placed == FoldLeft(OpenFolder, CloseDownTo(w, common),
                         SubSeq(desired, common + 1, Len(desired)))
      Counted(f) == [f EXCEPT !.totals = AddTotals(@, Share(row.record))]
      counted == [placed EXCEPT !.stack = FoldLeft(LAMBDA s, f : Append(s, Counted(f)), <<>>, placed.stack)]
      n == Len(counted.stack)
  IN IF row.record \in FolderRecords THEN OpenFolder(counted, row.path)
     ELSE IF n = 0 THEN counted
     ELSE [counted EXCEPT !.stack[n].children = Append(@, Child(row.path, row.record))]

RowsOf(index) == [i \in 1 .. Cardinality(Listed(index)) |->
                    LET p == InPathOrder(Listed(index))[i] IN [path |-> p, record |-> index[p]]]

FolderEntries(index) ==
  CloseDownTo(FoldLeft(Push, [stack |-> <<>>, out |-> <<>>], RowsOf(index)), 0).out
-----------------------------------------------------------------------------
(* The overlay: from_delta reads prefixes, then live rows, then removals. *)
NoTotals == [f \in DOMAIN Zero |-> -1]
NoEntry == [path |-> Nothing, totals |-> NoTotals, children |-> <<>>]
Kid(p) == [path |-> p, folder |-> FALSE, totals |-> NoTotals]
UnsaidKid == Kid(Unsaid)
GoneKid == Kid(Nothing)

BaseEntry(p) ==
  LET found == {i \in DOMAIN sidecar : sidecar[i].path = p} IN
  IF found = {} THEN NoEntry ELSE sidecar[CHOOSE i \in found : TRUE]

BareOverlay == [prefixes |-> {}, live |-> {}, adjusted |-> [p \in Paths |-> Zero],
                kids |-> [p \in Paths |-> [k \in Paths |-> UnsaidKid]]]

(* Mutant: only the removed folder itself is taken for removed. *)
BaseRemovedItself(v, p) == p \in v.prefixes

BaseRemoved(v, p) == Ancestors(p) \cap v.prefixes # {}

AggregateEntry(v, p) ==
  LET base == IF BaseRemoved(v, p) THEN NoEntry ELSE BaseEntry(p)
      old == IF base = NoEntry THEN Zero ELSE base.totals
      Sum(f) == Max({0, old[f] + v.adjusted[p][f]})
  IN IF base = NoEntry /\ p \notin v.live /\ v.adjusted[p] = Zero THEN NoTotals
     ELSE [f \in DOMAIN Zero |-> Sum(f)]

AdjustAbove(v, p, share) == [v EXCEPT !.adjusted = [q \in Paths |->
                               IF q \in Above[p] THEN AddTotals(@[q], share) ELSE @[q]]]
SetChild(v, p, child) == [v EXCEPT !.kids = [q \in Paths |->
                           IF IsParent(q, p) THEN [@[q] EXCEPT ![p] = child] ELSE @[q]]]
Withdraw(v, p, r) == SetChild(AdjustAbove(v, p, LessTotals(Zero, Share(r))), p, GoneKid)

RemovePrefix(v, root) ==
  LET whole == AggregateEntry(v, root)
      record == summed[root]
      counted == IF root \in v.live \/ record \in FolderRecords THEN 1 ELSE 0
      known == root \in v.live \/ BaseEntry(root) # NoEntry
      less == IF ~known THEN v
              ELSE SetChild(IF whole = NoTotals THEN v
                            ELSE AdjustAbove(v, root, LessTotals(Zero, [whole EXCEPT !.dirs = @ + counted])),
                            root, GoneKid)
      file == IF record = Nothing \/ record \in FolderRecords THEN less ELSE Withdraw(less, root, record)
      below == AtOrBelow(root)
  IN [file EXCEPT !.prefixes = (@ \ below) \cup {root}, !.live = @ \ below,
                  !.adjusted = [p \in Paths |-> IF p \in below THEN Zero ELSE @[p]],
                  !.kids = [p \in Paths |-> IF p \in below THEN BareOverlay.kids[p] ELSE @[p]]]

ApplyUpsert(v, p) ==
  LET new == overlaid.rows[p]
      old == IF BaseRemoved(v, p) THEN Nothing ELSE summed[p]
      gone == IF old = Nothing THEN v ELSE Withdraw(v, p, old)
      added == AdjustAbove(gone, p, Share(new))
  IN SetChild(IF new \in FolderRecords THEN [added EXCEPT !.live = @ \cup {p}] ELSE added,
              p, Child(p, new))

ApplyRemoval(v, p) ==
  IF BaseRemoved(v, p) \/ summed[p] = Nothing THEN v
  ELSE Withdraw([v EXCEPT !.live = @ \ {p}], p, summed[p])

FromDelta ==
  LET said == {p \in Paths : overlaid.rows[p] # Unsaid}
      live == {p \in said : overlaid.rows[p] # Nothing}
      pruned == FoldLeft(RemovePrefix, BareOverlay, InPathOrder(overlaid.prefixes))
  IN FoldLeft(ApplyRemoval, FoldLeft(ApplyUpsert, pruned, InPathOrder(live)), InPathOrder(said \ live))

\* The children shown, each folder with its own totals.
OverlayChildren(v, p) ==
  LET base == BaseEntry(p)
      old == IF BaseRemoved(v, p) \/ base = NoEntry THEN {}
             ELSE {c \in Range(base.children) : ~BaseRemoved(v, c.path)}
      kept == {c \in old : v.kids[p][c.path] = UnsaidKid}
      new == {v.kids[p][k] : k \in {k \in Paths : v.kids[p][k] \notin {UnsaidKid, GoneKid}}}
  IN {IF c.folder /\ AggregateEntry(v, c.path) # NoTotals
      THEN [c EXCEPT !.totals = AggregateEntry(v, c.path)] ELSE c : c \in kept \cup new}
-----------------------------------------------------------------------------
(* The tree: fragments of one folder are added up, the largest files named. *)
FilesOf(kids) == {c \in kids : ~c.folder}
Largest(files) == {c \in files : Cardinality({d \in files : d.totals.bytes > c.totals.bytes}) < TreeRows}

TreeListing(p) ==
  LET parts == {i \in DOMAIN sidecar : sidecar[i].path = p}
      kids == {[part |-> i, at |-> j] : i \in parts, j \in 1 .. Cardinality(Paths)}
      real == {k \in kids : k.at \in DOMAIN sidecar[k.part].children}
      KidAt(k) == sidecar[k.part].children[k.at]
      subs == {KidAt(k).path : k \in {k \in real : KidAt(k).folder}}
  IN [total |-> SumOf(parts, LAMBDA i : sidecar[i].totals),
      subdirs |-> [s \in subs |-> SumOf({k \in real : KidAt(k).folder /\ KidAt(k).path = s},
                                        LAMBDA k : KidAt(k).totals)],
      files |-> Largest(FilesOf({KidAt(k) : k \in real}))]

\* list_directory: every record below the folder, by the name it starts with.
DirectListing(index, p) ==
  LET below == {q \in Listed(index) : p \in Above[q]}
      Bucket(q) == CHOOSE k \in Paths : IsParent(p, k) /\ k \in Ancestors(q)
      deep == {q \in below : ~IsParent(p, q) \/ index[q] \in FolderRecords}
  IN [total |-> SumOf(below, LAMBDA q : Share(index[q])),
      subdirs |-> [s \in {Bucket(q) : q \in deep} |->
                     SumOf({q \in deep : Bucket(q) = s /\ q # s}, LAMBDA q : Share(index[q]))],
      files |-> Largest({Child(q, index[q]) : q \in below \ deep})]
-----------------------------------------------------------------------------
Live == Seen(summed, overlaid)
NoLog == [rows |-> NoRows, prefixes |-> {}]

TotalsInit ==
  /\ summed = TotalsBase /\ sidecar = FolderEntries(TotalsBase)
  /\ overlaid = NoLog /\ changesIn = 0 /\ folds = 0

LogChange(c) ==
  /\ changesIn < MaxTotalsLog
  /\ overlaid' = ApplyOne(overlaid, c) /\ changesIn' = changesIn + 1
  /\ UNCHANGED <<summed, sidecar, folds>>

FoldTotals ==
  /\ changesIn > 0 /\ folds < MaxTotalsFolds
  /\ summed' = Live /\ sidecar' = FolderEntries(Live)
  /\ overlaid' = NoLog /\ changesIn' = 0 /\ folds' = folds + 1

TotalsNext == (\E c \in TotalsWrites : LogChange(c)) \/ FoldTotals
TotalsSpec == TotalsInit /\ [][TotalsNext]_totalsVars
-----------------------------------------------------------------------------
\* The answer for a folder: its totals, and what is listed in it.
Answer(p) ==
  LET v == FromDelta
      entry == BaseEntry(p)
  IN IF changesIn = 0 THEN [totals |-> entry.totals, children |-> Range(entry.children)]
     ELSE [totals |-> AggregateEntry(v, p), children |-> OverlayChildren(v, p)]

\* A folder of the index shows the totals of everything below it, its files,
\* and its folders with their own totals, whatever the log did since the
\* sidecar was written: removals of whole folders, moves, folders that became
\* files and folders that came back.
LiveTotalsExact ==
  \A p \in {q \in Paths : Live[q] \in FolderRecords} :
    LET exact == DirectListing(Live, p)
        shown == Answer(p)
    IN /\ shown.totals = exact.total
       /\ \A k \in ChildrenOf(p) \cap Listed(Live) :
            [path |-> k, folder |-> Live[k] \in FolderRecords,
             totals |-> IF Live[k] \in FolderRecords THEN DirectListing(Live, k).total
                        ELSE Share(Live[k])] \in shown.children
       /\ \A c \in shown.children : ~c.folder => Live[c.path] \in Records \ FolderRecords

\* The tree, made from the sidecar, and the listing, made from the records,
\* show the same folder: totals, folders with their totals, largest files.
TreeMeansListing ==
  \A p \in {q \in Paths : summed[q] \in FolderRecords /\ Cardinality(Above[q]) <= TreeDepth} :
    LET tree == TreeListing(p)
        list == DirectListing(summed, p)
    IN /\ tree.total = list.total /\ tree.files = list.files
       /\ [s \in DOMAIN tree.subdirs |-> tree.subdirs[s].bytes]
            = [s \in DOMAIN list.subdirs |-> list.subdirs[s].bytes]
=============================================================================
