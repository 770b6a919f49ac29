----------------------------- MODULE MCService -----------------------------
(***************************************************************************)
(* The helper and the desktop application, for TLC.  The helper's ways to   *)
(* bring the index up to date: a full rebuild, the sweep of Btrfs metadata  *)
(* (what it plans, and how it shares the index with the live watch), the    *)
(* native watch, the sessions of the service over restarts, and the first   *)
(* scan of a Btrfs or NTFS volume.  What the application shows and does: the totals of folders,       *)
(* moving files, undoing actions, results that stay current, and scans.     *)
(* "part" is the component that moves, the others stay as they were at      *)
(* first.                                                                   *)
(***************************************************************************)
EXTENDS FullRebuild, SweepPlan, MetadataSweep, NativeWatch, WatchSession, BtrfsScan, MftScan,
        FolderTotals, FileTransfer, FileActions, LiveResults, ScanSession

VARIABLE part

HelperParts == {"rebuild", "plan", "sweep", "watch", "session", "scan", "mft"}
DesktopParts == {"totals", "transfer", "actions", "results", "fullscan"}
Parts == HelperParts \cup DesktopParts

(* A folder r with a file ab and a folder a, which holds ax, which holds axy. *)
Places == {"r", "a", "ab", "ax", "axy"}
FoldersAbove == [p \in Places |-> CASE p = "r" -> {} [] p = "ax" -> {"r", "a"} [] p = "axy" -> {"r", "a", "ax"}
                                    [] OTHER -> {"r"}]
NameOrder == [p \in Places |-> CASE p = "r" -> 1 [] p = "a" -> 2 [] p = "ax" -> 3 [] p = "axy" -> 4 [] p = "ab" -> 5]
-----------------------------------------------------------------------------
(* The Btrfs volume: folder 2 with folder 3 in it, a file of two links, a     *)
(* file in 3, a file of no link; two threads share the numbers.             *)
LinkAs(i, p, n) == [ino |-> i, parent |-> p, name |-> n]
VolumeLinks == {LinkAs(2, 1, "a"), LinkAs(3, 2, "b"), LinkAs(4, 2, "a"), LinkAs(4, 1, "b"), LinkAs(5, 3, "a")}
TwoThreads == <<<<1, 3>>, <<4, 7>>>>

(* The NTFS volume: $MFT with a further record, a folder with a file of two    *)
(* names in it, one in a record of its own; the table in one to four pieces. *)
NameIn(p, seq, x, space) == [parent |-> p, pseq |-> seq, name |-> x, space |-> space]
FirstTable ==
  [n \in 0 .. 6 |->
     CASE n = 0 -> Used(1, FALSE, NoBase, {NameIn(5, 5, "m", Win32)})
       [] n = 1 -> Used(1, FALSE, [id |-> 0, seq |-> 1], {})
       [] n = 2 -> Used(1, FALSE, [id |-> 4, seq |-> 1], {NameIn(3, 1, "a", Win32)})
       [] n = 3 -> Used(1, TRUE, NoBase, {NameIn(5, 5, "a", Win32)})
       [] n = 4 -> Used(1, FALSE, NoBase, {NameIn(3, 1, "b", Win32), NameIn(3, 1, "t", Dos)})
       [] n = 5 -> Used(5, TRUE, NoBase, {})
       [] n = 6 -> Unused(1)]
Piece(len, place) == [len |-> len, at |-> place]
PartOf(n, attr, vcn) == [vcn |-> vcn, record |-> n, seq |-> 1, attr |-> attr]
HeldRuns(attr, vcn, pieces) == [attr |-> attr, vcn |-> vcn, pieces |-> pieces]
OnePiece == [first |-> <<Piece(12, 3)>>, list |-> <<>>, held |-> <<>>]
ManyPieces ==
  {[first |-> <<Piece(3, 20), Piece(2, 9)>>, list |-> <<PartOf(1, 2, 8), PartOf(0, 0, 0), PartOf(1, 1, 5)>>,
    held |-> [n \in {1} |-> {HeldRuns(1, 5, <<Piece(1, 0), Piece(2, 30)>>), HeldRuns(2, 8, <<Piece(4, 12)>>)}]],
   [first |-> <<Piece(4, 20)>>, list |-> <<PartOf(1, 1, 4), PartOf(3, 1, 9)>>,
    held |-> [n \in {1, 3} |-> IF n = 1 THEN {HeldRuns(1, 4, <<Piece(5, 40)>>)}
                               ELSE {HeldRuns(1, 9, <<Piece(2, 0), Piece(1, 5)>>)}]]}
MftLayouts == {OnePiece} \cup ManyPieces

(* The totals: axy is a file, ab is not there. *)
FileBytes == [f1 |-> 1, f2 |-> 2]
FirstTotals == [p \in Places |-> CASE p = "axy" -> "f1" [] p = "ab" -> "nothing" [] OTHER -> "dir"]
Upsert(p, r) == [kind |-> "upsert", path |-> p, record |-> r]
FolderWrites ==
  {Upsert("axy", "f1"), Upsert("axy", "f2"), Upsert("ab", "f1"), Upsert("ax", "dir"), Upsert("ax", "f1"), Upsert("a", "dir")}
  \cup [kind : {"remove"}, path : {"axy", "ax"}] \cup [kind : {"prefix"}, path : {"a", "ax"}]

(* The scanned entries. *)
OneEach == [e \in Entries |-> IF e = "e1" THEN "m1" ELSE "m2"]
-----------------------------------------------------------------------------
ServiceInit ==
  /\ part \in Parts
  /\ RebuildInit /\ (part # "rebuild" => disk = FilesAfter("clean"))
  /\ PlanInit /\ (part # "plan" => \A i \in Inodes : fs[i] = Free)
  /\ SweepInit /\ (part # "sweep" => \A p \in Paths : files[p] = Nothing)
  /\ WatchInit
  /\ SessionInit /\ (part # "session" => offline /\ seed.gen = 1)
  /\ BtrfsScanInit
  /\ MftScanInit /\ (part # "mft" => layout = OnePiece)
  /\ TotalsInit
  /\ TransferInit /\ (part # "transfer" => cut /\ at = Numbering)
  /\ ActionInit
  /\ LiveInit /\ screen.query = "p"   \* the queries are interchangeable
  /\ ScanInit /\ (part # "fullscan" => compact = NoIndex /\ ~watcher)

Rest(moving) ==
  /\ UNCHANGED part
  /\ moving # "rebuild" => UNCHANGED rebuildVars
  /\ moving # "plan" => UNCHANGED planVars
  /\ moving # "sweep" => UNCHANGED sweepVars
  /\ moving # "watch" => UNCHANGED watchVars
  /\ moving # "session" => UNCHANGED sessionVars
  /\ moving # "scan" => UNCHANGED scanVars
  /\ IF moving = "mft" THEN layout # OnePiece => mftOps' = mftOps ELSE UNCHANGED mftVars
  /\ moving # "totals" => UNCHANGED totalsVars
  /\ moving # "transfer" => UNCHANGED transferVars
  /\ moving # "actions" => UNCHANGED actionVars
  /\ moving # "results" => UNCHANGED liveVars
  /\ IF moving = "fullscan" THEN onDisk'["e2"] = 0 ELSE UNCHANGED fullScanVars   \* e1 stands for either entry

ServiceNext ==
  \/ part = "rebuild" /\ RebuildNext /\ Rest("rebuild")
  \/ part = "plan" /\ PlanNext /\ Rest("plan")
  \/ part = "sweep" /\ SweepNext /\ Rest("sweep")
  \/ part = "watch" /\ WatchNext /\ Rest("watch")
  \/ part = "session" /\ SessionNext /\ Rest("session")
  \/ part = "scan" /\ BtrfsScanNext /\ Rest("scan")
  \/ part = "mft" /\ MftScanNext /\ Rest("mft")
  \/ part = "totals" /\ TotalsNext /\ Rest("totals")
  \/ part = "transfer" /\ TransferNext /\ Rest("transfer")
  \/ part = "actions" /\ ActionNext /\ Rest("actions")
  \/ part = "results" /\ LiveNext /\ Rest("results")
  \/ part = "fullscan" /\ ScanNext /\ Rest("fullscan")

ServiceSpec ==
  ServiceInit /\ [][ServiceNext]_<<part, rebuildVars, planVars, sweepVars, watchVars, sessionVars, scanVars,
                                   mftVars, totalsVars, transferVars, actionVars, liveVars, fullScanVars>>
-----------------------------------------------------------------------------
(* What a component promises, while it moves. *)

\* Sweeping leaves no difference between the index and the subvolume wherever
\* the folders above are the ones that were there before
\* (watch_linux/sweep_plan.rs).
PlanExact == part = "plan" => SweepExact

\* Whatever happens to the volume while threads read it batch by batch, the
\* scan lists what was there all along, and nothing that never was
\* (btrfs linux/scan.rs, linux/parallel.rs; ntfs lib.rs, namespace.rs).
ScanExact == (part = "scan" => TreeScanSound) /\ (part = "mft" => MftScanSound)

\* The tree, the listing and the totals of a folder agree with the records
\* below it (dir_summary.rs, dir_overlay.rs, dir_tree.rs).
TotalsSound == part = "totals" => LiveTotalsExact /\ TreeMeansListing
=============================================================================
