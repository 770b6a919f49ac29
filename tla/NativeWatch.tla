----------------------------- MODULE NativeWatch -----------------------------
(***************************************************************************)
(* The live watch of a mount.  The kernel queues an event for each change  *)
(* of a name: the handle of the folder, the name, and the handle of what   *)
(* was changed.  The watch opens the folder by its handle and looks at     *)
(* what the name is NOW.  A folder that is gone by then must be accounted  *)
(* for by the removal of that folder, or of one above, in the same events  *)
(* or earlier; otherwise more events are awaited for a short while, and    *)
(* then coverage is given up.  Bursts are merged to one change per path.   *)
(* (On Btrfs coverage is never given up: the metadata sweep is asked to    *)
(* go over the range, see MetadataSweep.)                                  *)
(***************************************************************************)
EXTENDS PathTree, Sequences, SequencesExt

CONSTANTS
  WatchedPaths,  \* the paths of the mount
  MaxNameOps,    \* bound on changes of names
  MaxDeletedHandles  \* MAX_HANDLES

\* A path is in every folder above it, one in the other; it sorts after them.
ASSUME WatchAssumption ==
  /\ MaxNameOps \in Nat /\ IsFiniteSet(Paths) /\ WatchedPaths \subseteq Paths
  /\ \A p \in WatchedPaths : Above[p] \subseteq WatchedPaths
  /\ \A p \in Paths : Rank[p] \in 1 .. Cardinality(Paths)
  /\ \A p, q \in Paths : Rank[p] = Rank[q] => p = q
  /\ \A p \in Paths : \A q, r \in Above[p] : q = r \/ q \in Above[r] \/ r \in Above[q]
  /\ \A p \in Paths : \A q \in Above[p] : Rank[q] < Rank[p]

VARIABLES
  names,     \* the mount: a handle for each path, 0 if there is no such file
  handles,   \* handles given out so far
  nameOps,   \* changes so far
  queue,     \* the events the kernel holds
  held,      \* events read that could not be resolved yet
  deleted,   \* handles whose removal was seen, the oldest first
  pending,   \* the burst: one change per path, and removed folders
  heard,     \* the index: the handle each path is known by
  blind      \* coverage was given up, and the index marked stale

watchVars == <<names, handles, nameOps, queue, held, deleted, pending, heard, blind>>

RootHandle == 0
Gone == 0
Unseen == -1
IsDir(p) == \E q \in WatchedPaths : p \in Above[q]
HandleOfParent(n, p) == IF Above[p] = {} THEN RootHandle ELSE n[CHOOSE q \in Above[p] : IsParent(q, p)]
Lives(h) == h \in {RootHandle} \cup {names[p] : p \in {q \in Paths : names[q] # Gone}}

NoBurst == [rows |-> [p \in Paths |-> Unseen], prefixes |-> {}]

WatchInit ==
  /\ names = [p \in Paths |-> IF p \in WatchedPaths THEN Rank[p] ELSE Gone]
  /\ heard = names
  /\ handles = Cardinality(Paths) /\ nameOps = 0
  /\ queue = <<>> /\ held = <<>> /\ deleted = <<>> /\ pending = NoBurst /\ blind = FALSE
-----------------------------------------------------------------------------
(* What happens on the mount.                                               *)
Location(role, p) == [role |-> role, path |-> p, parent |-> HandleOfParent(names, p)]
Event(mask, target, locations) == [mask |-> mask, target |-> target, locations |-> locations]

Happens(event) ==
  /\ nameOps < MaxNameOps /\ nameOps' = nameOps + 1 /\ queue' = Append(queue, event)
  /\ UNCHANGED <<held, deleted, pending, heard, blind>>

CanHold(p) == p \in WatchedPaths /\ \A q \in Above[p] : names[q] # Gone

CreatesName(p) ==
  /\ names[p] = Gone /\ CanHold(p)
  /\ handles' = handles + 1 /\ names' = [names EXCEPT ![p] = handles + 1]
  /\ Happens(Event("create", handles + 1, <<Location("current", p)>>))

DeletesName(p) ==
  /\ names[p] # Gone /\ \A q \in ChildrenOf(p) : names[q] = Gone
  /\ names' = [names EXCEPT ![p] = Gone] /\ UNCHANGED handles
  /\ Happens(Event("delete", names[p], <<Location("current", p)>>))

\* Onto a name that is free, or another file's, which then has no name.
RenamesFile(p, q) ==
  /\ p # q /\ names[p] # Gone /\ ~IsDir(p) /\ ~IsDir(q) /\ CanHold(q)
  /\ names' = [names EXCEPT ![p] = Gone, ![q] = names[p]] /\ UNCHANGED handles
  /\ Happens(Event("rename", names[p], <<Location("old", p), Location("new", q)>>))

\* The event of an open file that is closed has its handle only.
ClosesFile(p) ==
  /\ names[p] # Gone /\ ~IsDir(p) /\ UNCHANGED <<names, handles>>
  /\ Happens(Event("close", names[p], <<>>))

\* The queue overflows, or a folder is renamed: nothing can be made of it.
Overflows == UNCHANGED <<names, handles>> /\ Happens(Event("overflow", Gone, <<>>))
-----------------------------------------------------------------------------
(* Changes, the later ones first said of a path replacing the earlier.      *)
RemovesPrefix(burst, p) ==
  [rows |-> [q \in Paths |-> IF q \in AtOrBelow(p) THEN Unseen ELSE burst.rows[q]],
   prefixes |-> (burst.prefixes \ AtOrBelow(p)) \cup {p}]
(* Mutant: the removal of a folder has the folder's key, which a folder     *)
(* created later takes.                                                     *)
SaysOnce(burst, p, h) == [burst EXCEPT !.rows[p] = h, !.prefixes = @ \ {p}]

Says(burst, p, h) == [burst EXCEPT !.rows[p] = h]

\* A removed folder takes the place of every earlier change below it.
Merged(burst, newer) ==
  [rows |-> [p \in Paths |-> IF newer.rows[p] # Unseen THEN newer.rows[p]
                            ELSE IF Ancestors(p) \cap newer.prefixes # {} THEN Unseen ELSE burst.rows[p]],
   prefixes |-> {q \in burst.prefixes : Ancestors(q) \cap newer.prefixes = {}} \cup newer.prefixes]

(* read_batch.  A delete is confirmed when its folder can still be opened;  *)
(* what was in a folder that is gone for certain is gone with it.           *)
Deletes(events) == {e \in ToSet(events) : e.mask = "delete"}
Confirmed(events) == {e.target : e \in {d \in Deletes(events) : Lives(d.locations[1].parent)}}
Inherit(events, gone) == gone \cup {e.target : e \in {d \in Deletes(events) : d.locations[1].parent \in gone}}
Accounted(events) ==
  FoldLeft(LAMBDA gone, n : Inherit(events, gone), ToSet(deleted) \cup Confirmed(events), events)

PathOf(h) == CHOOSE p \in Paths : names[p] = h

(* collect_named, collect_object: what is found where the event says.       *)
FoundFor(e) ==
  IF e.mask = "close"
  THEN <<IF Lives(e.target) THEN [path |-> PathOf(e.target), handle |-> e.target, folder |-> FALSE]
         ELSE [handle |-> Unseen]>>
  ELSE [i \in DOMAIN e.locations |->
          LET l == e.locations[i]
          IN IF ~Lives(l.parent) THEN [handle |-> Unseen]
             ELSE IF l.role = "old" \/ e.mask = "delete"
                  THEN [path |-> l.path, handle |-> Gone, folder |-> IsDir(l.path)]
             ELSE [path |-> l.path, handle |-> names[l.path], folder |-> FALSE]]

Adds(burst, c) ==
  IF c.handle = Unseen THEN burst
  ELSE IF c.folder THEN RemovesPrefix(burst, c.path) ELSE Says(burst, c.path, c.handle)
Collect(burst, found) == FoldLeft(Adds, burst, found)

Unresolved(e, gone) ==
  \/ e.mask = "close" /\ e.target \notin gone /\ ~Lives(e.target)
  \/ \E i \in DOMAIN e.locations : LET h == e.locations[i].parent IN ~Lives(h) /\ h \notin gone

\* The newest are kept; a handle that is there already keeps its place.
Remember(gone) ==
  LET all == deleted \o SetToSeq(gone \ ToSet(deleted))
  IN SubSeq(all, 1 + IF Len(all) > MaxDeletedHandles THEN Len(all) - MaxDeletedHandles ELSE 0, Len(all))

GivesUp == blind' = TRUE /\ held' = <<>> /\ queue' = <<>> /\ pending' = NoBurst /\ UNCHANGED deleted

ReadsBatch(n) ==
  LET events == held \o SubSeq(queue, 1, n)
      gone == Accounted(events)
  IN /\ ~blind /\ n <= Len(queue)
     /\ IF \E e \in ToSet(events) : e.mask = "overflow" THEN GivesUp
        ELSE /\ queue' = SubSeq(queue, n + 1, Len(queue)) /\ UNCHANGED blind
             /\ IF \E e \in ToSet(events) : Unresolved(e, gone)
                THEN held' = events /\ UNCHANGED <<deleted, pending>>
                ELSE /\ held' = <<>> /\ deleted' = Remember(gone)
                     /\ pending' = Merged(pending, FoldLeft(Collect, NoBurst, [k \in DOMAIN events |-> FoundFor(events[k])]))
     /\ UNCHANGED <<names, handles, nameOps, heard>>

\* Nothing more arrives in time to account for what could not be resolved.
WaitsInVain == ~blind /\ held # <<>> /\ GivesUp /\ UNCHANGED <<names, handles, nameOps, heard>>

CommitsBurst ==
  /\ ~blind /\ pending # NoBurst /\ held = <<>>
  /\ heard' = [p \in Paths |-> IF pending.rows[p] # Unseen THEN pending.rows[p]
                               ELSE IF Ancestors(p) \cap pending.prefixes # {} THEN Gone ELSE heard[p]]
  /\ pending' = NoBurst
  /\ UNCHANGED <<names, handles, nameOps, queue, held, deleted, blind>>

WatchNext ==
  \/ \E p \in WatchedPaths : CreatesName(p) \/ DeletesName(p) \/ ClosesFile(p) \/ \E q \in WatchedPaths : RenamesFile(p, q)
  \/ Overflows \/ WaitsInVain \/ CommitsBurst
  \/ \E n \in 1 .. MaxNameOps : ReadsBatch(n)
WatchSpec == WatchInit /\ [][WatchNext]_watchVars
-----------------------------------------------------------------------------
\* Once every event has been read and committed, and coverage was not given up,
\* the index knows exactly the files there are, each by its own handle: however
\* the events were cut into batches, and whatever had changed again by the time
\* an event was looked at.
WatchExact == queue = <<>> /\ held = <<>> /\ pending = NoBurst /\ ~blind => heard = names
=============================================================================
