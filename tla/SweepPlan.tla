------------------------------ MODULE SweepPlan ------------------------------
(***************************************************************************)
(* What a sweep of a Btrfs subvolume makes of the inodes that changed      *)
(* since the last one: the entries of every changed folder are compared    *)
(* with the names the index holds, names that vanished are removed, new    *)
(* ones added, a vanished and a new name of the same inode are a move, and *)
(* the changed inodes that are still unaccounted for are refreshed.        *)
(* Hard links, and mounts of a part of the subvolume, are left out.        *)
(***************************************************************************)
EXTENDS Integers, FiniteSets, Sequences, SequencesExt

CONSTANTS
  Inodes,      \* inode numbers besides the root's
  Names,       \* file names
  MaxFsOps,    \* bound on operations between two sweeps
  SweepDepth   \* bound on the depth of a path

ASSUME SweepAssumption == Inodes \subseteq Nat \ {0} /\ {MaxFsOps, SweepDepth} \subseteq Nat

VARIABLES
  fs,        \* the subvolume: for each inode its folder, name, kind and size
  changes,   \* inodes changed since the cursor
  known,     \* the index: a record for each path
  before,    \* the index when the cursor was taken
  fsOps,     \* operations so far
  swept      \* the changes have been swept

planVars == <<fs, changes, known, before, fsOps, swept>>

Root == 0
Free == [dir |-> -1, name |-> "", kind |-> "none", size |-> 0]
Absent == [kind |-> "none", ino |-> -1, size |-> 0]
Nodes == {Free} \cup [dir : Inodes \cup {Root}, name : Names, kind : {"file", "dir"}, size : {0}]
RelativePaths == UNION {[1 .. n -> Names] : n \in 1 .. SweepDepth}

IsFolder(f, i) == i \in {Root} \cup {j \in Inodes : f[j].kind = "dir"}
Children(f, d) == {i \in Inodes : f[i].kind # "none" /\ f[i].dir = d}

Climb(f, i) ==
  FoldLeft(LAMBDA a, n : IF a.at = Root \/ f[a.at] = Free THEN a
                         ELSE [at |-> f[a.at].dir, path |-> <<f[a.at].name>> \o a.path],
           [at |-> i, path |-> <<>>], [n \in 1 .. SweepDepth |-> n])
DirPath(f, i) == Climb(f, i).path
Attached(f, i) == Climb(f, i).at = Root

Record(f, i) == [kind |-> f[i].kind, ino |-> i, size |-> f[i].size]

\* What the index holds when it is right.
ListingOf(f) ==
  LET path == [i \in Inodes |-> DirPath(f, i)] IN
  [p \in RelativePaths |-> LET at == {i \in Inodes : f[i] # Free /\ path[i] = p}
                           IN IF at = {} THEN Absent ELSE Record(f, CHOOSE i \in at : TRUE)]

WellFormed(f) ==
  \A i \in Inodes : f[i] # Free =>
    /\ Attached(f, i) /\ IsFolder(f, f[i].dir)
    /\ \A j \in Inodes \ {i} : f[j] # Free => DirPath(f, j) # DirPath(f, i)
    /\ \A j \in Inodes : j < i => f[j] # Free

PlanInit ==
  /\ fs \in {f \in [Inodes -> Nodes] : WellFormed(f)}
  /\ known = ListingOf(fs) /\ before = known
  /\ changes = {} /\ fsOps = 0 /\ swept = FALSE
-----------------------------------------------------------------------------
(* The file system: an operation changes the inode and the folders whose    *)
(* entries it changes, and a new file gets an inode never used before.      *)
NameFree(d, n) == \A i \in Children(fs, d) : fs[i].name # n
Touch(S) == changes' = changes \cup S

Operation ==
  /\ ~swept /\ fsOps < MaxFsOps /\ fsOps' = fsOps + 1
  /\ UNCHANGED <<known, before, swept>>

CreatesEntry(i, d, n, k) ==
  /\ Operation
  /\ fs[i] = Free /\ i \notin changes /\ IsFolder(fs, d) /\ NameFree(d, n)
  /\ Len(DirPath(fs, d)) < SweepDepth
  /\ fs' = [fs EXCEPT ![i] = [dir |-> d, name |-> n, kind |-> k, size |-> 0]]
  /\ Touch({i, d})

DeletesEntry(i) ==
  /\ Operation
  /\ fs[i] # Free /\ Children(fs, i) = {}
  /\ fs' = [fs EXCEPT ![i] = Free] /\ Touch({i, fs[i].dir})

RenamesEntry(i, d, n) ==
  LET moved == [fs EXCEPT ![i].dir = d, ![i].name = n] IN
  /\ Operation
  /\ fs[i] # Free /\ IsFolder(fs, d) /\ NameFree(d, n)
  /\ \A j \in Inodes : moved[j] # Free => Attached(moved, j)
  /\ fs' = moved /\ Touch({i, fs[i].dir, d})

Writes(i) ==
  /\ Operation
  /\ fs[i].kind = "file" /\ fs' = [fs EXCEPT ![i].size = 1] /\ Touch({i})
-----------------------------------------------------------------------------
(* The plan.                                                                *)
(* Mutant: a folder is compared only if it has entries left.                *)
FoldersWithEntries == {d \in changes : IsFolder(fs, d) /\ Children(fs, d) # {}}
ChangedFolders == {d \in changes : IsFolder(fs, d)}
KnownNames(path) == {n \in Names : Append(path, n) \in RelativePaths /\ known[Append(path, n)] # Absent}
NamesNow(d) == {fs[i].name : i \in Children(fs, d)}

Removed == UNION {{Append(DirPath(fs, d), n) : n \in KnownNames(DirPath(fs, d)) \ NamesNow(d)} : d \in ChangedFolders}
AddedIn(d) == {i \in Children(fs, d) : fs[i].name \notin KnownNames(DirPath(fs, d))}
Discovered == UNION {AddedIn(d) : d \in ChangedFolders}

MovesTo(p, i) == i \in Discovered /\ known[p].ino = i /\ known[p].kind = fs[i].kind
Moved(p) == \E i \in Discovered : MovesTo(p, i)
Handled == {i \in Discovered : \E p \in Removed : MovesTo(p, i)}
Below(p) == {q \in RelativePaths : IsStrictPrefix(p, q) /\ known[q] # Absent}

\* New folders nobody reported are searched as well.
WithNew(S) == S \cup UNION {AddedIn(d) : d \in {i \in S \ Handled : fs[i].kind = "dir"} \ ChangedFolders}
Added == FoldLeft(LAMBDA S, n : WithNew(S), Discovered, [n \in 1 .. SweepDepth |-> n])

RemovedPrefixes == {p \in Removed : known[p].kind = "dir" /\ ~Moved(p)}
RemovedPaths == (Removed \ RemovedPrefixes) \cup UNION {Below(p) : p \in {q \in Removed : Moved(q)}}

\* A moved folder takes what the index holds below it along.
Relocated ==
  UNION {UNION {{[path |-> DirPath(fs, i) \o SubSeq(q, Len(p) + 1, Len(q)), record |-> known[q]] :
                   q \in Below(p)} : i \in {j \in Discovered : MovesTo(p, j)}} : p \in Removed}

Found == {[path |-> DirPath(fs, i), record |-> Record(fs, i)] : i \in Added}
At(S, p) == \E change \in S : change.path = p
Newest(S, p) == (CHOOSE change \in S : change.path = p).record

SameContent(r, s) == r.size = s.size /\ r.kind = s.kind
Refreshed ==
  {[path |-> DirPath(fs, i), record |-> Record(fs, i)] :
     i \in {j \in changes \ {Root} : fs[j] # Free /\ ~SameContent(known[DirPath(fs, j)], Record(fs, j))}}

\* The prefixes come first, then for each path the change planned last.
Planned ==
  LET found == Found
      relocated == Relocated
      paths == RemovedPaths
      prefixes == RemovedPrefixes
      refreshed == Refreshed
  IN [p \in RelativePaths |->
        IF At(found, p) THEN Newest(found, p)
        ELSE IF At(relocated, p) THEN Newest(relocated, p)
        ELSE IF p \in paths THEN Absent
        ELSE IF At(refreshed, p) THEN Newest(refreshed, p)
        ELSE IF \E root \in prefixes : IsPrefix(root, p) THEN Absent
        ELSE known[p]]

Sweeps ==
  /\ ~swept /\ changes # {}
  /\ known' = Planned
  /\ changes' = {} /\ swept' = TRUE
  /\ UNCHANGED <<fs, before, fsOps>>

PlanNext ==
  \/ \E i \in Inodes, d \in Inodes \cup {Root}, n \in Names :
       RenamesEntry(i, d, n) \/ \E k \in {"file", "dir"} : CreatesEntry(i, d, n, k)
  \/ \E i \in Inodes : DeletesEntry(i) \/ Writes(i)
  \/ Sweeps
PlanSpec == PlanInit /\ [][PlanNext]_planVars
-----------------------------------------------------------------------------
\* Sweeping leaves no difference between the index and the subvolume: no stale
\* path, no missing one, no record of another kind or size.
SweepComplete ==
  LET now == ListingOf(fs) IN swept => \A p \in RelativePaths : SameContent(known[p], now[p])

\* The same wherever the folders above are the ones that were there before.
SweepExact ==
  LET now == ListingOf(fs) IN
  swept => \A p \in RelativePaths :
             \/ SameContent(known[p], now[p])
             \/ \E q \in RelativePaths : IsStrictPrefix(q, p) /\ before[q].ino # now[q].ino
=============================================================================
