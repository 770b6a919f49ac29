---------------------------- MODULE CatalogBuild ----------------------------
(***************************************************************************)
(* The browse catalog as four files that must fit together: the SQLite     *)
(* file (rows, tombstones and the names of two generations), the columns,  *)
(* a hard link that pins the base whose records the rows and columns       *)
(* address, and the base itself, which compactions replace.  A build       *)
(* publishes pin, columns and rows in three steps under a lock that only   *)
(* builders take; meanwhile the helper compacts and commits changes, and   *)
(* readers open the files one by one and keep them.  Any builder may be    *)
(* killed between two steps.                                               *)
(***************************************************************************)
EXTENDS Integers

CONSTANTS
  Builders,         \* the processes that prepare catalogs (desktop, terminal, helper)
  PreparedBefore,   \* subset of BOOLEAN: whether the helper starts with a catalog or could not prepare one
  CatalogReaders,   \* the readers that search one
  MaxGenerations,   \* bound on generations of the base
  MaxKills          \* bound on builders killed and backups that stay busy

VARIABLES
  active,     \* the generation of the published base
  pinned,     \* the generation of the base the catalog's link keeps, 0: no link
  columns,    \* the generation the columns were made from, 0: no columns
  sqlite,    \* the SQLite file: its two generations, whose blocks its tombstones address
  builds,  \* per builder, its step and the generation it prepares
  helper,     \* the writer: its step and generation, the pinned base it has decoded
  reading,    \* per reader, its step and what it has opened
  kills

buildVars == <<active, pinned, columns, sqlite, builds, helper, reading, kills>>

Generations == 0 .. MaxGenerations
NoCatalog == [there |-> FALSE, gen |-> 0, base |-> 0, addresses |-> {}]
EmptyFile == [NoCatalog EXCEPT !.there = TRUE]   \* created, without a table yet
CatalogOf(gen) == [there |-> TRUE, gen |-> gen, base |-> gen, addresses |-> {}]
NotPreparing == [step |-> "idle", gen |-> 0]
NotReading == [step |-> "closed", names |-> 0, blocks |-> 0, columns |-> 0, rows |-> 0]

CatalogBuildInit ==
  /\ active = 1
  /\ \/ TRUE \in PreparedBefore /\ sqlite = CatalogOf(1) /\ pinned = 1 /\ columns = 1
     \/ FALSE \in PreparedBefore /\ sqlite = NoCatalog /\ pinned = 0 /\ columns = 0
  /\ builds = [b \in Builders |-> NotPreparing]
  /\ helper = [step |-> "serving", gen |-> 1, held |-> 0]
  /\ reading = [r \in CatalogReaders |-> NotReading]
  /\ kills = 0

BuildTypeOK ==
  /\ {active, pinned, columns} \subseteq Generations
  /\ sqlite \in [there : BOOLEAN, gen : Generations, base : Generations, addresses : SUBSET Generations]
  /\ builds \in [Builders -> [step : {"idle", "locked", "built", "checked", "pinned", "columns"},
                                 gen : Generations]]
  /\ helper \in [step : {"serving", "published", "failed"}, gen : Generations, held : Generations]
-----------------------------------------------------------------------------
(* A build.                                                                   *)
IsCurrent(gen) == sqlite.gen = gen /\ pinned = sqlite.base /\ columns = pinned   \* gen > 0
Unlocked == \A b \in Builders : builds[b].step = "idle"
Go(b, step) == builds' = [builds EXCEPT ![b].step = step]

\* The builder opened the published base some time ago: a compaction may have
\* replaced it since.
Ensure(b) ==
  /\ Unlocked
  /\ \E gen \in 1 .. active :
       /\ ~IsCurrent(gen)
       /\ builds' = [builds EXCEPT ![b] = [step |-> "locked", gen |-> gen]]
  /\ UNCHANGED <<active, pinned, columns, sqlite, helper, reading, kills>>

StageCatalog(b) ==
  /\ builds[b].step = "locked"
  /\ IF IsCurrent(builds[b].gen) \/ active # builds[b].gen
       THEN builds' = [builds EXCEPT ![b] = NotPreparing]
       ELSE Go(b, "built")
  /\ UNCHANGED <<active, pinned, columns, sqlite, helper, reading, kills>>

CheckBase(b) ==
  /\ builds[b].step = "built"
  /\ IF active # builds[b].gen
       THEN builds' = [builds EXCEPT ![b] = NotPreparing]
       ELSE Go(b, "checked")
  /\ UNCHANGED <<active, pinned, columns, sqlite, helper, reading, kills>>

\* The link is made of whatever base is published now.
PinBase(b) ==
  /\ builds[b].step = "checked"
  /\ pinned' = active
  /\ Go(b, "pinned")
  /\ UNCHANGED <<active, columns, sqlite, helper, reading, kills>>

ReplaceColumns(b) ==
  /\ builds[b].step = "pinned"
  /\ columns' = builds[b].gen
  /\ Go(b, "columns")
  /\ UNCHANGED <<active, pinned, sqlite, helper, reading, kills>>

CreateRows(b) ==
  /\ builds[b].step = "columns" /\ ~sqlite.there
  /\ sqlite' = EmptyFile
  /\ UNCHANGED <<active, pinned, columns, builds, helper, reading, kills>>

\* One transaction of SQLite replaces every row of the file in place.
ReplaceRows(b) ==
  /\ builds[b].step = "columns" /\ sqlite.there
  /\ sqlite' = CatalogOf(builds[b].gen)
  /\ builds' = [builds EXCEPT ![b] = NotPreparing]
  /\ UNCHANGED <<active, pinned, columns, helper, reading, kills>>

\* The builder is killed, or the backup stays busy until it gives up.
AbandonBuild(b) ==
  /\ builds[b].step # "idle" /\ kills < MaxKills
  /\ kills' = kills + 1
  /\ builds' = [builds EXCEPT ![b] = NotPreparing]
  /\ UNCHANGED <<active, pinned, columns, sqlite, helper, reading>>
-----------------------------------------------------------------------------
(* The helper.                                                                *)
PublishCompaction ==
  /\ helper.step = "serving" /\ active < MaxGenerations
  /\ active' = active + 1
  /\ helper' = [helper EXCEPT !.step = "published"]
  /\ UNCHANGED <<pinned, columns, sqlite, builds, reading, kills>>

\* A catalog of another generation than the one compacted keeps its name; in a
\* file without tables the update is an error.
AdvanceCatalog ==
  /\ helper.step = "published"
  /\ sqlite' = IF sqlite.gen = helper.gen THEN [sqlite EXCEPT !.gen = active] ELSE sqlite
  /\ helper' = [helper EXCEPT !.step = IF sqlite = EmptyFile THEN "failed" ELSE "serving", !.gen = active]
  /\ UNCHANGED <<active, pinned, columns, builds, reading, kills>>

(* Mutant: the decoded blocks a writer keeps are looked up by path and     *)
(* generation of the index instead of the generation the catalog was made  *)
(* from.                                                                   *)
HoldsPath(base) == helper.held # 0

HoldsBase(base) == helper.held = base /\ pinned = base /\ base # 0

\* A committed change of the helper reaches the catalog of its generation.  It
\* needs the base whose blocks the catalog addresses: the one it holds, or the
\* pinned one.  A refused change marks the whole index stale.
CommitRows ==
  /\ helper.step = "serving"
  /\ sqlite = EmptyFile \/ sqlite.gen = helper.gen
  /\ IF sqlite # EmptyFile /\ (HoldsBase(sqlite.base) \/ pinned = sqlite.base)
       THEN LET held == IF HoldsBase(sqlite.base) THEN helper.held ELSE pinned IN
            /\ sqlite' = [sqlite EXCEPT !.addresses = @ \cup {held}]
            /\ helper' = [helper EXCEPT !.held = held]
       ELSE helper' = [helper EXCEPT !.step = "failed"] /\ UNCHANGED sqlite
  /\ UNCHANGED <<active, pinned, columns, builds, reading, kills>>
-----------------------------------------------------------------------------
(* A reader.                                                                  *)
OpenRows(r) ==
  /\ reading[r].step = "closed" /\ sqlite.gen # 0
  /\ reading' = [reading EXCEPT ![r] = [NotReading EXCEPT !.step = "rows", !.names = sqlite.base]]
  /\ UNCHANGED <<active, pinned, columns, sqlite, builds, helper, kills>>

OpenPinned(r) ==
  /\ reading[r].step = "rows"
  /\ reading' = [reading EXCEPT ![r] =
       IF pinned = @.names THEN [@ EXCEPT !.step = "base", !.blocks = pinned] ELSE NotReading]
  /\ UNCHANGED <<active, pinned, columns, sqlite, builds, helper, kills>>

(* Mutant: the header of the columns is checked for its form only. *)
AnyColumns(blocks) == TRUE

ColumnsFit(blocks) == columns = blocks

OpenColumns(r) ==
  /\ reading[r].step = "base"
  /\ reading' = [reading EXCEPT ![r] =
       IF ColumnsFit(@.blocks) THEN [@ EXCEPT !.step = "open", !.columns = columns] ELSE NotReading]
  /\ UNCHANGED <<active, pinned, columns, sqlite, builds, helper, kills>>

(* Mutant: a reader that has opened the catalog goes on with what it has. *)
StaysOpen(r) == TRUE

RequirePinnedBase(r) == sqlite.base = reading[r].blocks

\* An answer reads the rows of the file as it is now; a reader whose base they
\* do not address is closed instead.
AnswerFrom(r) ==
  /\ reading[r].step = "open"
  /\ reading' = [reading EXCEPT ![r] =
       IF RequirePinnedBase(r) THEN [@ EXCEPT !.rows = sqlite.base] ELSE NotReading]
  /\ UNCHANGED <<active, pinned, columns, sqlite, builds, helper, kills>>
-----------------------------------------------------------------------------
BuildNext ==
  \/ \E b \in Builders :
       \/ Ensure(b) \/ StageCatalog(b) \/ CheckBase(b) \/ PinBase(b)
       \/ ReplaceColumns(b) \/ CreateRows(b) \/ ReplaceRows(b) \/ AbandonBuild(b)
  \/ PublishCompaction \/ AdvanceCatalog \/ CommitRows
  \/ \E r \in CatalogReaders : OpenRows(r) \/ OpenPinned(r) \/ OpenColumns(r) \/ AnswerFrom(r)

CatalogBuildSpec == CatalogBuildInit /\ [][BuildNext]_buildVars
-----------------------------------------------------------------------------
(* Whatever rebuilds, compactions and commits come between its steps, an answer *)
(* joins rows, columns and records of one base: ids of one base never index   *)
(* the blocks or columns of another (browse/catalog.rs:146-166,               *)
(* browse/mod.rs:54-93).                                                      *)
AnswersJoinOneBase ==
  \A r \in CatalogReaders :
    reading[r].rows # 0 => reading[r].rows = reading[r].blocks /\ reading[r].blocks = reading[r].columns

(* Every tombstone of the catalog was looked up in the blocks of the base the *)
(* catalog addresses, also while a build pins another base underneath the     *)
(* writer (browse/updates/writer_cache.rs:49-75).                             *)
TombstonesAddressBase == sqlite.addresses \subseteq {sqlite.base}

JoinsOneBase == AnswersJoinOneBase /\ TombstonesAddressBase

(* "The pinned base blocks stay valid when the active compact base changes."  *)
(* (browse/updates.rs:41): a committed change finds the base of the catalog   *)
(* it is meant for and is never refused for another one's.                    *)
ChangesAccepted == helper.step # "failed"
=============================================================================
