------------------------------ MODULE MftScan ------------------------------
(***************************************************************************)
(* The NTFS lane of a full scan.  The volume's table of files, $MFT, is     *)
(* itself in pieces, and the list of its pieces may go on in records of the *)
(* table.  The scan puts the list together, reads record after record while *)
(* the volume goes on changing, joins the names that overflowed into other  *)
(* records, and lists nothing unless every name leads up to the root.       *)
(* A file is known by the number of its record and a sequence that changes  *)
(* when the record is freed; writes reach the device later, in any order,   *)
(* and a record's two halves one after the other.  Not modelled: the boot    *)
(* sector, sizes and times, runs that leave the device.                     *)
(***************************************************************************)
EXTENDS Integers, SequencesExt

CONSTANTS
  MftRoot,          \* the record of the root folder, 5
  MftNumbers,       \* record numbers, 0 .. n
  FirstNumbers,     \* the records there are when the scan starts
  FirstMft,         \* the records then
  MftNames,         \* names
  Layouts,          \* the ways the table may lie on the device
  RecordClusters,   \* clusters of a record
  NamesMove,        \* BOOLEAN: a name may leave its file's first record for another one
  MaxMftOps         \* bound on changes of the volume during the scan

ASSUME MftAssumption ==
  /\ MftRoot \in FirstNumbers /\ FirstNumbers \subseteq MftNumbers
  /\ FirstNumbers = 0 .. Cardinality(FirstNumbers) - 1 /\ MftNumbers = 0 .. Cardinality(MftNumbers) - 1
  /\ RecordClusters \in Nat \ {0} /\ MaxMftOps \in Nat /\ NamesMove \in BOOLEAN

VARIABLES
  layout,     \* where the pieces of the table lie
  mft,        \* the records on the device
  cached,     \* those the volume has changed and not written yet
  halfway,    \* those of which only the first half is written
  scanning,   \* what the scan has gathered
  found,      \* what it listed
  named,      \* the names there have been since the scan began
  unmoved,    \* those that have been there all the time
  mftOps

mftVars == <<layout, mft, cached, halfway, scanning, found, named, unmoved, mftOps>>

Win32 == 1
Dos == 2
NoBase == [id |-> 0, seq |-> 0]
Unused(seq) == [alloc |-> FALSE, dir |-> FALSE, seq |-> seq, base |-> NoBase, names |-> {}]
-----------------------------------------------------------------------------
(* The pieces of the table.  A layout has the runs that fit in record 0, the  *)
(* attribute list, and what the records it names hold.                        *)
ClustersIn(runs) == FoldLeft(LAMBDA n, r : n + r.len, 0, runs)

\* A run list counts clusters from its own beginning.
ParseRunlist(pieces) ==
  [k \in DOMAIN pieces |-> [logical |-> ClustersIn(SubSeq(pieces, 1, k - 1)), len |-> pieces[k].len, at |-> pieces[k].at]]

Unplaced == [ok |-> TRUE, idx |-> 1, logical |-> 0, at |-> 0, placed |-> FALSE, got |-> <<>>]

\* RunCursor: go on where the last record ended, or look the place up.
SeekTo(runs, cursor, logical) ==
  LET holding == {k \in DOMAIN runs : runs[k].logical <= logical /\ logical < runs[k].logical + runs[k].len}
      k == Min(holding)
  IN IF cursor.placed /\ cursor.logical = logical THEN [cursor EXCEPT !.got = <<>>]
     ELSE IF holding = {} THEN [cursor EXCEPT !.ok = FALSE]
     ELSE [ok |-> TRUE, idx |-> k, logical |-> logical, at |-> runs[k].at + logical - runs[k].logical,
           placed |-> TRUE, got |-> <<>>]

\* The last cluster of a run, none of which is empty, is followed by the first
\* of the next.
ReadCluster(runs, cursor) ==
  IF ~cursor.ok \/ cursor.idx \notin DOMAIN runs THEN [cursor EXCEPT !.ok = FALSE]
  ELSE LET run == runs[cursor.idx]
           ends == cursor.logical + 1 = run.logical + run.len
           next == IF ends /\ cursor.idx + 1 \in DOMAIN runs THEN runs[cursor.idx + 1].at ELSE cursor.at + 1
       IN [cursor EXCEPT !.got = Append(@, cursor.at), !.logical = @ + 1, !.at = next,
                         !.idx = IF ends THEN @ + 1 ELSE @]

ReadAt(runs, cursor, n) ==
  FoldLeft(LAMBDA c, k : ReadCluster(runs, c), SeekTo(runs, cursor, n * RecordClusters),
           [k \in 1 .. RecordClusters |-> k])

\* Where a record lies.
AllPieces ==
  FoldLeft(LAMBDA ps, e : ps \o e.pieces, layout.first,
           SetToSortSeq(UNION Range(layout.held), LAMBDA a, b : a.vcn < b.vcn))
PositionsOf(n) ==
  LET all == ParseRunlist(AllPieces)
      at(c) == LET run == CHOOSE r \in Range(all) : r.logical <= c /\ c < r.logical + r.len
               IN run.at + c - run.logical
  IN [k \in 1 .. RecordClusters |-> at(n * RecordClusters + k - 1)]
IsRead(read, n) == read.ok /\ read.got = PositionsOf(n)

Declared == RecordClusters * Cardinality(FirstNumbers)
Goes(step) == scanning' = [scanning EXCEPT !.step = step]
ScanOnly == UNCHANGED <<layout, mft, cached, halfway, named, unmoved, mftOps>>

\* Record 0 is where the boot sector says; the list is followed in order.
MftRuns == ParseRunlist(layout.first)
ListEntries == SortSeq(SelectSeq(layout.list, LAMBDA e : e.vcn > 0), LAMBDA a, b : a.vcn < b.vcn)
ReadRunlist ==
  /\ scanning.step = "open"
  /\ scanning' = [scanning EXCEPT !.runs = MftRuns, !.list = ListEntries,
                     !.step = IF ClustersIn(MftRuns) < Declared /\ layout.list # <<>> THEN "follow" ELSE "check"]
  /\ ScanOnly /\ UNCHANGED found

\* The runs so far must reach the next part of the list, and the record that
\* holds it.
ExtensionRecordRuns(runs, entry) ==
  {e \in layout.held[entry.record] :
     /\ IsRead(ReadAt(runs, Unplaced, entry.record), entry.record)
     /\ entry.seq \in {0, mft[entry.record].seq} /\ e.attr = entry.attr /\ e.vcn = entry.vcn}

FollowList ==
  /\ scanning.step = "follow"
  /\ IF scanning.list = <<>> THEN Goes("check")
     ELSE LET entry == Head(scanning.list)
              more == ExtensionRecordRuns(scanning.runs, entry)
              runs == ParseRunlist((CHOOSE e \in more : TRUE).pieces)
          IN IF entry.vcn # ClustersIn(scanning.runs) \/ more = {} THEN Goes("failed")
             ELSE scanning' = [scanning EXCEPT !.list = Tail(@),
                                 !.runs = @ \o [k \in DOMAIN runs |-> [runs[k] EXCEPT !.logical = @ + entry.vcn]]]
  /\ ScanOnly /\ UNCHANGED found

CheckRuns ==
  /\ scanning.step = "check"
  /\ IF ClustersIn(scanning.runs) < Declared THEN Goes("failed") ELSE Goes("read")
  /\ ScanOnly /\ UNCHANGED found
-----------------------------------------------------------------------------
(* One record.                                                                *)
Link(n) == [parent |-> n.parent, pseq |-> n.pseq, name |-> n.name]
NameRank(n) == IF n.space = Dos THEN 1 ELSE 3

\* The best name and the links besides it, if the record has a name.
ParseRecord(record) ==
  LET best == CHOOSE n \in record.names : \A m \in record.names : NameRank(m) <= NameRank(n)
      links == {Link(n) : n \in {m \in record.names : m.space # Dos}}
  IN [seq |-> record.seq, dir |-> record.dir, link |-> Link(best),
      links |-> {l \in links : l.parent # best.parent \/ l.name # best.name}]

Gather(n, record) ==
  LET parsed == ParseRecord(record) IN
  IF n = MftRoot THEN [scanning EXCEPT !.root = [there |-> record.dir, seq |-> record.seq]]
  ELSE IF record.names = {} THEN scanning
  ELSE IF record.base # NoBase
    THEN [scanning EXCEPT !.extensions = Append(@, [base |-> record.base, parsed |-> parsed])]
  ELSE [scanning EXCEPT !.entries = [m \in DOMAIN @ \cup {n} |-> IF m = n THEN parsed ELSE @[m]]]

\* The ends of a record's sectors tell that its halves do not belong together.
IsTorn(n) == n \in halfway

ReadRecord ==
  /\ scanning.step = "read" /\ scanning.next \in FirstNumbers
  /\ LET n == scanning.next
         read == ReadAt(scanning.runs, scanning.cursor, n)
         gathered == IF mft[n].alloc THEN Gather(n, mft[n]) ELSE scanning
     IN IF ~IsRead(read, n) \/ (mft[n].alloc /\ IsTorn(n)) THEN Goes("failed")
        ELSE scanning' = [gathered EXCEPT !.next = @ + 1, !.cursor = read]
  /\ ScanOnly /\ UNCHANGED found
-----------------------------------------------------------------------------
(* The names.                                                                 *)
\* Names in a record of their own join the file that still has that sequence.
MergedLinks(id) ==
  LET base == scanning.entries[id]
      mine == {x \in Range(scanning.extensions) : x.base.id = id /\ x.base.seq \in {0, base.seq}}
      more == UNION {{x.parsed.link} \cup x.parsed.links : x \in mine}
  IN base.links \cup {l \in more : l.parent # base.link.parent \/ l.name # base.link.name}

\* The way up from a folder to the root; a folder's path is kept once found,
\* which changes nothing as the entries no longer change.
NoWay == <<"?">>
RECURSIVE WayUp(_, _, _)
WayUp(id, seq, seen) ==
  IF id = MftRoot THEN (IF seq \in {0, scanning.root.seq} THEN <<>> ELSE NoWay)
  ELSE IF id \in seen \/ id \notin DOMAIN scanning.entries THEN NoWay
  ELSE LET entry == scanning.entries[id]
           above == WayUp(entry.link.parent, entry.link.pseq, seen \cup {id})
       IN IF seq \notin {0, entry.seq} \/ ~entry.dir \/ above = NoWay THEN NoWay
          ELSE Append(above, entry.link.name)

PathAbove(l) == WayUp(l.parent, l.pseq, {})
LinksListed(id) ==
  {scanning.entries[id].link} \cup (IF scanning.entries[id].dir THEN {} ELSE MergedLinks(id))

\* Every name leads to the root, and no folder is below itself.
Valid ==
  /\ scanning.root.there
  /\ \A id \in DOMAIN scanning.entries :
       /\ \A l \in LinksListed(id) : PathAbove(l) # NoWay
       /\ scanning.entries[id].dir => WayUp(id, scanning.entries[id].seq, {}) # NoWay

Listing(id, l) == [id |-> id, seq |-> scanning.entries[id].seq, path |-> Append(PathAbove(l), l.name)]
EndMftScan ==
  /\ scanning.step = "read" /\ scanning.next \notin FirstNumbers
  /\ IF Valid
       THEN /\ Goes("listed")
            /\ found' = UNION {{Listing(id, l) : l \in LinksListed(id)} : id \in DOMAIN scanning.entries}
       ELSE Goes("failed") /\ UNCHANGED found
  /\ ScanOnly
-----------------------------------------------------------------------------
(* The volume.                                                                *)
MftScanning == scanning.step \notin {"listed", "failed"}
Table == [n \in MftNumbers |-> IF n \in DOMAIN cached THEN cached[n] ELSE mft[n]]
FileOf(table, n) == IF table[n].base = NoBase THEN [id |-> n, seq |-> table[n].seq] ELSE table[n].base
LinksIn(table) ==
  UNION {{[file |-> FileOf(table, n), at |-> Link(m)] : m \in {m \in table[n].names : m.space = Win32}} :
           n \in {n \in MftNumbers : table[n].alloc}}
NamedFiles == {n \in MftNumbers : Table[n].alloc /\ Table[n].base = NoBase /\ Table[n].names # {}}
Folders == {n \in MftNumbers : Table[n].alloc /\ Table[n].dir}
ExtensionsOf(n) == {m \in MftNumbers : Table[m].alloc /\ Table[m].base = FileOf(Table, n)}
Within(n) == {m \in UNION {Table[x].names : x \in MftNumbers} : m.parent = n /\ m.pseq = Table[n].seq}
RECURSIVE IsUnder(_, _)
IsUnder(n, top) ==
  n = top \/ (n # MftRoot /\ \E m \in Table[n].names : IsUnder(m.parent, top))
FreeNames ==
  {[parent |-> p, pseq |-> Table[p].seq, name |-> x, space |-> Win32] :
     <<p, x>> \in {<<p, x>> \in Folders \X MftNames : \A m \in Within(p) : m.name # x}}
Used(seq, dir, base, names) == [alloc |-> TRUE, dir |-> dir, seq |-> seq, base |-> base, names |-> names]

MayWrite == MftScanning /\ mftOps < MaxMftOps
WritesLater(records) ==
  LET after == [n \in MftNumbers |-> IF n \in DOMAIN records THEN records[n] ELSE Table[n]] IN
  /\ DOMAIN records \cap halfway = {}
  /\ cached' = [n \in DOMAIN cached \cup DOMAIN records |-> after[n]]
  /\ named' = named \cup LinksIn(after) /\ unmoved' = unmoved \cap LinksIn(after)
  /\ mftOps' = mftOps + 1
  /\ UNCHANGED <<layout, mft, halfway, scanning, found>>

\* A renamed or removed name takes its short form along.
Without(n, old) == {m \in Table[n].names : m # old /\ m.space # Dos}

RenamesName ==
  /\ MayWrite
  /\ \E n \in MftNumbers \ {0} : \E old \in Table[n].names, new \in FreeNames :
       /\ old.space = Win32 /\ (Table[n].dir => ~IsUnder(new.parent, n))
       /\ WritesLater([x \in {n} |-> [Table[n] EXCEPT !.names = Without(n, old) \cup {new}]])

RemovesName ==
  /\ MayWrite
  /\ \E n \in MftNumbers \ {0} : \E old \in Table[n].names :
       /\ old.space = Win32 /\ Within(n) = {}
       /\ Without(n, old) = {} /\ ExtensionsOf(n) # {} => NamesMove
       /\ WritesLater([x \in {n} |-> IF Without(n, old) = {} /\ ExtensionsOf(n) = {} THEN Unused(Table[n].seq + 1)
                                 ELSE [Table[n] EXCEPT !.names = Without(n, old)]])

\* A folder goes with all that is in it; a file may live on elsewhere.
ErasesFolder ==
  /\ MayWrite
  /\ \E n \in Folders \ {MftRoot} :
       LET kept(x) == {m \in Table[x].names : m.parent # n \/ m.pseq # Table[n].seq}
           inside == {x \in MftNumbers : Table[x].alloc /\ kept(x) # Table[x].names}
           gone == {n} \cup {x \in inside : kept(x) = {}}
       IN /\ \A x \in inside : ~Table[x].dir /\ (x \in gone => ExtensionsOf(x) \subseteq gone)
          /\ WritesLater([x \in {n} \cup inside |-> IF x \in gone THEN Unused(Table[x].seq + 1)
                                                ELSE [Table[x] EXCEPT !.names = kept(x)]])

CreatesFile ==
  /\ MayWrite
  /\ \E n \in MftNumbers : \E new \in FreeNames, dir \in BOOLEAN :
       /\ ~Table[n].alloc
       /\ WritesLater([x \in {n} |-> Used(Table[n].seq, dir, NoBase, {new})])

\* A further name, in the file's record or in one of its own, which may take
\* others along.
AddsName ==
  /\ MayWrite
  /\ \E n \in NamedFiles \ {0}, m \in MftNumbers : \E new \in FreeNames :
       /\ ~Table[n].dir
       /\ \/ m = n /\ WritesLater([x \in {n} |-> [Table[n] EXCEPT !.names = @ \cup {new}]])
          \/ /\ ~Table[m].alloc
             /\ \E taken \in IF NamesMove THEN SUBSET Table[n].names ELSE {{}} :
                  WritesLater([x \in {n, m} |-> IF x = n THEN [Table[n] EXCEPT !.names = @ \ taken]
                                            ELSE Used(Table[m].seq, FALSE, FileOf(Table, n), {new} \cup taken)])

WritesHalf ==
  \E n \in DOMAIN cached \ halfway :
    /\ MftScanning
    /\ mft' = [mft EXCEPT ![n] = [cached[n] EXCEPT !.names = mft[n].names]]
    /\ halfway' = halfway \cup {n}
    /\ UNCHANGED <<layout, cached, scanning, found, named, unmoved, mftOps>>

WritesRest ==
  \E n \in halfway :
    /\ MftScanning
    /\ mft' = [mft EXCEPT ![n] = cached[n]]
    /\ cached' = [m \in DOMAIN cached \ {n} |-> cached[m]]
    /\ halfway' = halfway \ {n}
    /\ UNCHANGED <<layout, scanning, found, named, unmoved, mftOps>>
-----------------------------------------------------------------------------
MftScanInit ==
  /\ layout \in Layouts
  /\ mft = FirstMft /\ cached = <<>> /\ halfway = {}
  /\ scanning = [step |-> "open", runs |-> <<>>, list |-> <<>>, next |-> 0, cursor |-> Unplaced,
                 entries |-> <<>>, extensions |-> <<>>, root |-> [there |-> FALSE, seq |-> 0]]
  /\ found = {}
  /\ named = LinksIn(FirstMft) /\ unmoved = LinksIn(FirstMft)
  /\ mftOps = 0

MftScanNext ==
  \/ ReadRunlist \/ FollowList \/ CheckRuns \/ ReadRecord \/ EndMftScan
  \/ RenamesName \/ RemovesName \/ ErasesFolder \/ CreatesFile \/ AddsName
  \/ WritesHalf \/ WritesRest

MftScanSpec == MftScanInit /\ [][MftScanNext]_mftVars
-----------------------------------------------------------------------------
\* The paths that names of a set spell for a file.
RECURSIVE PathsSpelled(_, _, _)
PathsSpelled(links, file, depth) ==
  IF file.id = MftRoot THEN {<<>>}
  ELSE IF depth = 0 THEN {}
  ELSE UNION {{Append(above, l.at.name) :
                 above \in PathsSpelled(links, [id |-> l.at.parent, seq |-> l.at.pseq], depth - 1)} :
                l \in {l \in links : l.file = file}}
Depth == Cardinality(MftNumbers)
ListedAs(file, path) == [id |-> file.id, seq |-> file.seq, path |-> path]

\* A scan that succeeds lists every name that was there all along, under
\* folders that were there all along, links in other records among them
\* (ntfs/src/lib.rs:97-130, extensions.rs).
UnmovedNamesListed ==
  scanning.step = "listed" =>
    \A file \in {l.file : l \in unmoved} : \A path \in PathsSpelled(unmoved, file, Depth) :
      file.id \in FirstNumbers => ListedAs(file, path) \in found

\* Every listed path is spelled by names the volume has had since the scan
\* began: a record that was used again hands no name or folder to another
\* file, a torn record none at all, and no short form is listed
\* (namespace.rs:39-113, extensions.rs:11-17, geometry.rs:183-203).
ListedWereNamed ==
  \A r \in found : r.path \in PathsSpelled(named, [id |-> r.id, seq |-> r.seq], Depth)

\* Nothing but a change of the volume makes a scan fail, however the table's
\* pieces lie (attr_list.rs:213-264, cursor.rs).
QuietScanSucceeds == scanning.step = "failed" => mftOps > 0

MftScanSound == UnmovedNamesListed /\ ListedWereNamed /\ QuietScanSucceeds
=============================================================================
