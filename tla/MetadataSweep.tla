---------------------------- MODULE MetadataSweep ----------------------------
(***************************************************************************)
(* The sweep of one Btrfs subvolume against the live watch.  The sweep     *)
(* reads the last committed transaction, takes a place in the log, plans   *)
(* from what changed since its cursor, and commits the plan in batches.    *)
(* Before each batch it drops what the live watch has logged something     *)
(* newer about; a folder removal that meets a newer change is planned      *)
(* again.  Only then does the cursor move, to the transaction read first.  *)
(***************************************************************************)
EXTENDS ChangeTables, Sequences

CONSTANTS
  SweptPaths,      \* the paths that change
  SweptRecords,    \* what an edit may leave there
  MaxTransactions, \* bound on transactions of the file system
  MaxEdits,        \* bound on changes of the file system
  SweepBatch,      \* LIVE_COMMIT_BATCH
  ResolveAhead     \* TRUE if an event resolved before a sweep begins may be logged after

ASSUME SweptAssumption == SweptPaths \subseteq Paths /\ SweptRecords \subseteq Records

VARIABLES
  files,    \* the file system
  stamp,      \* the transaction of the last change of each path
  tx,         \* the transaction that is open
  edits,      \* changes so far
  events,     \* paths the live watch has been told of
  resolved,   \* what it has resolved and not yet logged
  live,       \* the index
  newer,      \* what was logged by the watch since the sweep's place in the log
  lost,       \* a compaction has reset the log since
  sweep,      \* the sweep in flight
  cursor      \* since, active, and the cursor that was saved

sweepVars == <<files, stamp, tx, edits, events, resolved, live, newer, lost, sweep, cursor>>

Idle == [step |-> "idle", committed |-> 0, active |-> FALSE, prefixes |-> {}, leaves |-> {}, retry |-> FALSE]
HasBelow(p) == AtOrBelow(p) # {p}

SweepInit ==
  /\ files \in {f \in Indexes : \A p \in Paths :
                   f[p] # Nothing => p \in SweptPaths /\ f[p] \in SweptRecords /\ \A q \in Above[p] : f[q] # Nothing}
  /\ live = files
  /\ stamp = [p \in Paths |-> 0] /\ tx = 2 /\ edits = 0
  /\ events = {} /\ resolved = <<>> /\ newer = {} /\ lost = FALSE
  /\ sweep = Idle /\ cursor = [since |-> 1, active |-> FALSE, saved |-> 1]
-----------------------------------------------------------------------------
(* The file system and the watch, which does not hear of everything.        *)
Stamped(S) == stamp' = [p \in Paths |-> IF p \in S THEN tx ELSE stamp[p]]
Heard(p) == \/ UNCHANGED events
            \/ events' = events \cup {p}

Edits(p, r) ==
  /\ edits < MaxEdits /\ edits' = edits + 1 /\ files[p] # r
  /\ \A q \in Above[p] : files[q] # Nothing
  /\ LET gone == IF r = Nothing THEN AtOrBelow(p) ELSE {p} IN
     /\ files' = [q \in Paths |-> IF q \in gone THEN r ELSE files[q]]
     /\ Stamped(gone) /\ Heard(p)
  /\ UNCHANGED <<tx, resolved, live, newer, lost, sweep, cursor>>

\* Other files change as well.
CommitsTransaction ==
  /\ tx < MaxTransactions
  /\ tx' = tx + 1
  /\ UNCHANGED <<files, stamp, edits, events, resolved, live, newer, lost, sweep, cursor>>

Observed(p) ==
  IF files[p] # Nothing THEN [kind |-> "upsert", path |-> p, record |-> files[p]]
  ELSE [kind |-> IF HasBelow(p) THEN "prefix" ELSE "remove", path |-> p]

Resolves(p) ==
  /\ p \in events /\ (ResolveAhead \/ sweep = Idle)
  /\ events' = events \ {p} /\ resolved' = Append(resolved, Observed(p))
  /\ UNCHANGED <<files, stamp, tx, edits, live, newer, lost, sweep, cursor>>

Logs(c) ==
  /\ live' = Effect(live, c)
  /\ newer' = IF sweep = Idle THEN newer ELSE newer \cup {c}
  /\ UNCHANGED <<files, stamp, tx, edits, lost, sweep, cursor>>

LogsResolved == resolved # <<>> /\ Logs(Head(resolved)) /\ resolved' = Tail(resolved) /\ UNCHANGED events
LogsEvent(p) == sweep # Idle /\ p \in events /\ Logs(Observed(p)) /\ events' = events \ {p} /\ UNCHANGED resolved

\* A compaction starts a new log: a place in the old one means nothing there.
Compacts ==
  /\ sweep.step = "commit" /\ ~lost /\ lost' = TRUE
  /\ UNCHANGED <<files, stamp, tx, edits, events, resolved, live, newer, sweep, cursor>>
-----------------------------------------------------------------------------
(* attempt *)
StartsAttempt ==
  /\ sweep = Idle /\ (ResolveAhead \/ resolved = <<>>) /\ (cursor.active \/ tx - 1 > cursor.since)
  /\ sweep' = [Idle EXCEPT !.step = "plan", !.committed = tx - 1]
  /\ newer' = {} /\ lost' = FALSE
  /\ UNCHANGED <<files, stamp, tx, edits, events, resolved, live, cursor>>

Changed == {p \in Paths : stamp[p] >= cursor.since}
Differs == {p \in Changed : files[p] # live[p]}
GoneFolders == {p \in Differs : HasBelow(p) /\ files[p] = Nothing}
Leaves == {Observed(p) : p \in {q \in Differs : Ancestors(q) \cap GoneFolders = {}}}

PlansSweep ==
  /\ sweep.step = "plan" /\ Changed # {}
  /\ sweep' = [sweep EXCEPT !.step = "commit", !.leaves = Leaves, !.prefixes = GoneFolders,
                            !.active = \E p \in Changed : stamp[p] > sweep.committed]
  /\ UNCHANGED <<files, stamp, tx, edits, events, resolved, live, newer, lost, cursor>>

Settles(since, active) ==
  /\ sweep' = Idle
  /\ cursor' = [since |-> since, active |-> active, saved |-> IF since # cursor.since THEN since ELSE cursor.saved]
  /\ UNCHANGED <<files, stamp, tx, edits, events, resolved, live, newer, lost>>

Later(t) == IF t > cursor.since THEN t ELSE cursor.since
FindsNothing == sweep.step = "plan" /\ Changed = {} /\ Settles(Later(sweep.committed), FALSE)

(* Pending::supersede, with everything logged since: what a change drops     *)
(* does not depend on the changes before it.                                *)
Conflicts(plan, c) ==
  {root \in plan.prefixes : c.path \in AtOrBelow(root) \/ (c.kind = "prefix" /\ root \in AtOrBelow(c.path))}
DropBelow(leaves, roots) == {l \in leaves : Ancestors(l.path) \cap roots = {}}

Supersede(plan, changes) ==
  LET conflicts == UNION {Conflicts(plan, c) : c \in changes}
      removed == {c.path : c \in {d \in changes : d.kind = "prefix"}}
  IN [plan EXCEPT !.prefixes = @ \ conflicts,
                  !.leaves = {l \in DropBelow(@, conflicts \cup removed) : \A c \in changes : l.path # c.path},
                  !.retry = @ \/ conflicts # {}]

(* commit::apply, one writer turn: at most SweepBatch changes, prefixes first. *)
InPlan(plan) == [kind : {"prefix"}, path : plan.prefixes] \cup plan.leaves
GoesBefore(c, d) == IF (c.kind = "prefix") = (d.kind = "prefix") THEN Sorts(c.path, d.path) ELSE c.kind = "prefix"
FirstOf(plan) ==
  {c \in InPlan(plan) : Cardinality({d \in InPlan(plan) : GoesBefore(d, c)}) < SweepBatch}

Unfinished(plan) == plan.prefixes # {} \/ plan.leaves # {}

\* The index after a batch: the leaves, one for a path, are applied last.
AfterBatch(batch) ==
  [p \in Paths |->
     LET leaves == {c \in batch : c.kind # "prefix" /\ c.path = p}
         roots == {c \in batch : c.kind = "prefix" /\ p \in AtOrBelow(c.path)}
     IN IF leaves # {} THEN Effect(live, CHOOSE c \in leaves : TRUE)[p]
        ELSE IF roots # {} THEN Nothing ELSE live[p]]

CommitsBatch ==
  LET plan == Supersede(sweep, newer)
      batch == FirstOf(plan)
  IN /\ sweep.step = "commit" /\ Unfinished(sweep) /\ ~lost
     /\ live' = AfterBatch(batch)
     /\ sweep' = [plan EXCEPT !.prefixes = {root \in @ : [kind |-> "prefix", path |-> root] \notin batch},
                              !.leaves = @ \ batch]
     /\ newer' = {}
     /\ UNCHANGED <<files, stamp, tx, edits, events, resolved, lost, cursor>>

\* The attempt is made again: WouldBlock, or a prefix that met a newer change.
Replans ==
  /\ sweep.step = "commit" /\ IF Unfinished(sweep) THEN lost ELSE sweep.retry
  /\ sweep' = Idle /\ UNCHANGED <<files, stamp, tx, edits, events, resolved, live, newer, lost, cursor>>

(* Mutant: the cursor moves to the transaction committed at the end.        *)
AdvancesToNewest ==
  sweep.step = "commit" /\ ~Unfinished(sweep) /\ ~sweep.retry /\ Settles(Later(tx - 1), sweep.active)

Advances ==
  sweep.step = "commit" /\ ~Unfinished(sweep) /\ ~sweep.retry /\ Settles(Later(sweep.committed), sweep.active)

\* The helper stops; the next one starts from the saved cursor.
RestartsSweep ==
  /\ events' = {} /\ resolved' = <<>> /\ newer' = {} /\ lost' = FALSE /\ sweep' = Idle
  /\ cursor' = [cursor EXCEPT !.since = cursor.saved, !.active = TRUE]
  /\ UNCHANGED <<files, stamp, tx, edits, live>>

SweepNext ==
  \/ \E p \in SweptPaths : \E r \in SweptRecords \cup {Nothing} : Edits(p, r)
  \/ \E p \in SweptPaths : Resolves(p) \/ LogsEvent(p)
  \/ CommitsTransaction \/ LogsResolved \/ Compacts \/ StartsAttempt \/ PlansSweep \/ FindsNothing
  \/ CommitsBatch \/ Replans \/ Advances \/ RestartsSweep
SweepSpec == SweepInit /\ [][SweepNext]_sweepVars
-----------------------------------------------------------------------------
\* Nothing falls between the watch and the sweep: what the index is wrong about
\* changed no earlier than the sweep's cursor, in memory and as saved, so that a
\* sweep looks at it (watch_sweep/reconcile.rs, pending.rs, commit.rs).
NoChangeForgotten ==
  \A p \in Paths : live[p] # files[p] => stamp[p] >= cursor.since /\ stamp[p] >= cursor.saved
=============================================================================
