------------------------------ MODULE BtrfsScan ------------------------------
(***************************************************************************)
(* The Btrfs lane of a full scan.  Threads search ranges of inode numbers  *)
(* of the volume's metadata tree, batch after batch, each batch an ioctl   *)
(* that sees the tree of that moment, while the volume goes on changing.   *)
(* An inode's items may be split between two batches, links carry only     *)
(* their parent's number, and names lie in one arena per thread; paths are *)
(* put together at the end.                                                *)
(***************************************************************************)
EXTENDS Integers, SequencesExt

CONSTANTS
  RootIno,        \* the number of the volume's root folder, the least of all
  Inos,           \* inode numbers
  FolderInos,     \* those that are or would be folders
  LinkNames,      \* names of directory entries
  LongNames,      \* names whose references no longer fit the short form
  FirstLinks,     \* the links of the volume when the scan starts
  FirstInos,      \* its inodes then, with or without a link
  Shards,         \* the ranges of numbers, as a sequence of pairs
  MaxOffset,      \* the greatest offset of a key
  BatchItems,     \* bound on the items of one batch
  MaxVolumeOps    \* bound on changes of the volume during the scan

ASSUME BtrfsAssumption ==
  /\ RootIno \in FolderInos /\ FolderInos \subseteq Inos /\ LongNames \subseteq LinkNames
  /\ \A i \in Inos : RootIno <= i /\ i < MaxOffset
  /\ FirstLinks \subseteq [ino : Inos \ {RootIno}, parent : FolderInos, name : LinkNames]

VARIABLES
  volume,      \* inodes and links
  shards,      \* what each thread has read
  listed,      \* the records of the finished scan
  everLinked,  \* the links there have been since the scan began
  stable,      \* those that have been there all the time
  volumeOps

scanVars == <<volume, shards, listed, everLinked, stable, volumeOps>>

InodeItem == 1
InodeRef == 12
InodeExtref == 13
OtherItem == 24      \* items of other kinds lie between those of two inodes
NoIno == 0
Scanning == listed = {}

KeyOrder(S, Before(_, _)) == SortSeq(FoldSet(LAMBDA x, sorted : Append(sorted, x), <<>>, S), Before)
Precedes(k, l) ==
  \/ k[1] < l[1]
  \/ k[1] = l[1] /\ (k[2] < l[2] \/ (k[2] = l[2] /\ k[3] < l[3]))
-----------------------------------------------------------------------------
(* The tree: for each inode its item and, per parent, one reference that      *)
(* holds all its names there; long ones in extended references by hash.       *)
LinksOf(i) == {l \in volume.links : l.ino = i}
Item(i, type, offset, links) == [key |-> <<i, type, offset>>, links |-> links]
ItemsOf(i) ==
  LET short == {l \in LinksOf(i) : l.name \notin LongNames} IN
  {Item(i, InodeItem, 0, {}), Item(i, OtherItem, 0, {})}
    \cup {Item(i, InodeRef, p, {l \in short : l.parent = p}) : p \in {l.parent : l \in short}}
    \cup {Item(i, InodeExtref, MaxOffset, LinksOf(i) \ short) : x \in {x \in {1} : LinksOf(i) # short}}
Tree == UNION {ItemsOf(i) : i \in volume.inodes}

\* TREE_SEARCH_V2: the items from the cursor to the end of the range, in order.
Searched(s) ==
  KeyOrder({t \in Tree : /\ ~Precedes(t.key, s.cursor)
                        /\ ~Precedes(<<s.last, InodeExtref, MaxOffset>>, t.key)},
          LAMBDA a, b : Precedes(a.key, b.key))

NextKey(k) ==
  IF k[3] # MaxOffset THEN <<k[1], k[2], k[3] + 1>>
  ELSE IF k[2] < InodeExtref THEN <<k[1], k[2] + 1, 0>>
  ELSE <<k[1] + 1, InodeItem, 0>>
-----------------------------------------------------------------------------
(* One thread.                                                                *)
StartShard(range) ==
  [cursor |-> <<range[1], InodeItem, 0>>, last |-> range[2], ino |-> NoIno, meta |-> FALSE,
   links |-> <<>>, nodes |-> <<>>, names |-> <<>>, done |-> FALSE]

\* An inode is complete when the next one begins: a node for each link.
FinishNode(s) ==
  LET node(l) == [ino |-> s.ino, parent |-> l.parent, name |-> l.name]
      new == IF ~s.meta THEN <<>>
             ELSE IF s.ino = RootIno THEN <<[ino |-> RootIno, parent |-> NoIno, name |-> 0]>>
             ELSE [k \in DOMAIN s.links |-> node(s.links[k])]
  IN [s EXCEPT !.nodes = @ \o new, !.meta = FALSE, !.links = <<>>]

StoreName(s, l) ==
  [s EXCEPT !.names = Append(@, l.name),
            !.links = Append(@, [parent |-> l.parent, name |-> Len(s.names) + 1])]

UpdateItem(s, t) ==
  LET begun == IF s.ino = t.key[1] THEN s ELSE [FinishNode(s) EXCEPT !.ino = t.key[1]] IN
  IF t.key[2] = InodeItem THEN [begun EXCEPT !.meta = TRUE]
  ELSE FoldLeft(StoreName, begun, SetToSeq(t.links))

\* One ioctl, which returns as many items as fit.
ScanBatch(k) ==
  /\ Scanning /\ ~shards[k].done
  /\ LET s == shards[k]  found == Searched(s) IN
     IF found = <<>> THEN shards' = [shards EXCEPT ![k] = [FinishNode(s) EXCEPT !.done = TRUE]]
     ELSE \E n \in 1 .. Min({Len(found), BatchItems}) :
            shards' = [shards EXCEPT ![k] =
                         [FoldLeft(UpdateItem, s, SubSeq(found, 1, n)) EXCEPT !.cursor = NextKey(found[n].key)]]
  /\ UNCHANGED <<volume, listed, everLinked, stable, volumeOps>>
-----------------------------------------------------------------------------
(* The threads' nodes and names are appended; a node's name moves by what     *)
(* came before its thread's.                                                  *)
(* Mutant: the nodes keep the places their own thread gave them. *)
JoinUnshifted(all, s) == [nodes |-> all.nodes \o s.nodes, names |-> all.names \o s.names]

Join(all, s) ==
  [nodes |-> all.nodes \o [k \in DOMAIN s.nodes |->
               IF s.nodes[k].name = 0 THEN s.nodes[k]
               ELSE [s.nodes[k] EXCEPT !.name = @ + Len(all.names)]],
   names |-> all.names \o s.names]

Joined == FoldLeft(Join, [nodes |-> <<>>, names |-> <<>>], shards)

NoPath == <<"?">>
Known(paths, i) == paths[i] # NoPath

\* The chain of nodes from a folder up to one whose path is known; a folder
\* that moved meanwhile may have two nodes, and the search hits either of them.
RECURSIVE Chain(_, _, _)
Chain(paths, hit, chain) ==
  LET i == chain[1].parent IN
  IF i = NoIno THEN <<>>
  ELSE IF Known(paths, i) THEN chain
  ELSE IF i \notin DOMAIN hit \/ i \notin FolderInos \/ hit[i] \in Range(chain) THEN <<>>
  ELSE Chain(paths, hit, <<hit[i]>> \o chain)

AppendComponent(names, paths, n) == [paths EXCEPT ![n.ino] = Append(paths[n.parent], names[n.name])]

\* The paths of the folders above a node, its own among them if it has one.
EnsureDirPath(names, paths, hit, n) ==
  LET chain == Chain(paths, hit, <<n>>) IN
  IF chain = <<>> THEN [there |-> FALSE, paths |-> paths]
  ELSE [there |-> TRUE, paths |-> FoldLeft(LAMBDA p, m : AppendComponent(names, p, m), paths, Front(chain))]

RecordOf(i, path) == [ino |-> i, path |-> path]

\* Every node in order of its number.
Visit(names, hit, found, n) ==
  IF n.ino = RootIno THEN [found EXCEPT !.out = @ \cup {RecordOf(RootIno, <<>>)}]
  ELSE LET up == EnsureDirPath(names, found.paths, hit, n)
           path == Append(up.paths[n.parent], names[n.name])
       IN IF ~up.there THEN [found EXCEPT !.paths = up.paths]
          ELSE [out |-> found.out \cup {RecordOf(n.ino, path)},
                paths |-> IF n.ino \in FolderInos THEN [up.paths EXCEPT ![n.ino] = path] ELSE up.paths]

\* The sort is not stable and the search takes any node of a number.
Orders(nodes) ==
  LET Lower(a, b) == nodes[a].ino < nodes[b].ino
      Same(a, b) == nodes[a].ino = nodes[b].ino
  IN {KeyOrder(DOMAIN nodes, LAMBDA a, b : Lower(a, b) \/ (Same(a, b) /\ a < b)),
      KeyOrder(DOMAIN nodes, LAMBDA a, b : Lower(a, b) \/ (Same(a, b) /\ a > b))}
Hits(nodes) ==
  LET inos == {n.ino : n \in Range(nodes)} IN
  {h \in [inos -> Range(nodes)] : \A i \in inos : h[i].ino = i}

EndScanTree ==
  /\ Scanning /\ \A k \in DOMAIN shards : shards[k].done
  /\ LET all == Joined
         start == [out |-> {}, paths |-> [i \in Inos |-> IF i = RootIno THEN <<>> ELSE NoPath]]
     IN \E order \in Orders(all.nodes), hit \in Hits(all.nodes) :
          listed' = FoldLeft(LAMBDA f, k : Visit(all.names, hit, f, all.nodes[k]), start, order).out
  /\ UNCHANGED <<volume, shards, everLinked, stable, volumeOps>>
-----------------------------------------------------------------------------
(* The volume's users.                                                        *)
RECURSIVE InodesUnder(_)
InodesUnder(S) ==
  LET more == S \cup {l.ino : l \in {l \in volume.links : l.parent \in S}} IN
  IF more = S THEN S ELSE InodesUnder(more)

FreeLink(i) ==
  {l \in [ino : {i}, parent : FolderInos \cap InodesUnder({RootIno}), name : LinkNames] :
     ~\E m \in volume.links : m.parent = l.parent /\ m.name = l.name}

MayRelink == Scanning /\ volumeOps < MaxVolumeOps
Relink(links) ==
  /\ volumeOps' = volumeOps + 1
  /\ volume' = [links |-> links,
                inodes |-> {i \in Inos : i = RootIno \/ (\E l \in links : l.ino = i)
                                          \/ (i \in volume.inodes /\ LinksOf(i) = {})}]
  /\ everLinked' = everLinked \cup links /\ stable' = stable \cap links
  /\ UNCHANGED <<shards, listed>>

RenamesLink ==
  /\ MayRelink
  /\ \E l \in volume.links : \E m \in FreeLink(l.ino) :
       /\ l.ino \in FolderInos => m.parent \notin InodesUnder({l.ino})
       /\ Relink((volume.links \ {l}) \cup {m})

RemovesLink ==
  /\ MayRelink
  /\ \E l \in volume.links :
       /\ InodesUnder({l.ino}) = {l.ino}
       /\ Relink(volume.links \ {l})

CreatesLink ==
  /\ MayRelink
  /\ \E i \in Inos \ volume.inodes : \E m \in FreeLink(i) :
       /\ i \notin {l.ino : l \in everLinked}   \* numbers are never used again
       /\ Relink(volume.links \cup {m})

AddsLink ==
  /\ MayRelink
  /\ \E i \in {l.ino : l \in volume.links} \ FolderInos : \E m \in FreeLink(i) :
       Relink(volume.links \cup {m})
-----------------------------------------------------------------------------
BtrfsScanInit ==
  /\ volume = [inodes |-> FirstInos, links |-> FirstLinks]
  /\ shards = [k \in DOMAIN Shards |-> StartShard(Shards[k])]
  /\ listed = {} /\ everLinked = FirstLinks /\ stable = FirstLinks /\ volumeOps = 0

BtrfsScanNext ==
  \/ \E k \in DOMAIN shards : ScanBatch(k)
  \/ EndScanTree
  \/ RenamesLink \/ RemovesLink \/ CreatesLink \/ AddsLink

BtrfsScanSpec == BtrfsScanInit /\ [][BtrfsScanNext]_scanVars
-----------------------------------------------------------------------------
\* The paths that links of a set spell for an inode.
RECURSIVE Spells(_, _, _)
Spells(links, i, path) ==
  IF path = <<>> THEN i = RootIno
  ELSE \E l \in links : l.ino = i /\ l.name = Last(path) /\ Spells(links, l.parent, Front(path))

SpelledPaths(links) == {<<>>} \cup UNION {[1 .. n -> LinkNames] : n \in 1 .. Cardinality(FolderInos)}

\* Whatever happens to the volume between the batches of whichever thread, an
\* entry that was there all along, under folders that were there all along, is
\* listed under its path (linux/scan.rs:14-68).
StableEntriesListed ==
  ~Scanning => \A i \in Inos, path \in SpelledPaths(stable) :
                 Spells(stable, i, path) => RecordOf(i, path) \in listed

\* Every listed path is spelled by names the volume has had since the scan
\* began: no name is taken from another inode, no orphan is listed
\* (linux/parallel.rs:56-69, linux/scan.rs:27-38).
ListedWereThere == \A r \in listed : Spells(everLinked, r.ino, r.path)

TreeScanSound == StableEntriesListed /\ ListedWereThere
=============================================================================
