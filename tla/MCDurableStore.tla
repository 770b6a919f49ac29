--------------------------- MODULE MCDurableStore ---------------------------
(***************************************************************************)
(* Model-checking instances of DurableStore: the sets of I/O calls that may *)
(* fail in each run.                                                       *)
(***************************************************************************)
EXTENDS DurableStore

(* Every call of a foreground compaction but the three whose error           *)
(* settle_delta takes for harmless although the files have already changed.  *)
ForegroundFaults ==
  {"append", "catalog", "cursor", "fold", "reset", "publish", "advance"}

(* Every call of a background compaction and of the writers beside it, but   *)
(* the catalog's own.                                                        *)
BackgroundFaults ==
  {"append", "cursor", "fold", "publish", "advance", "unmark", "tail", "intentSync",
   "install", "marker", "finish"}

(* Calls that fail while the published pair is untouched. *)
HarmlessFaults == {"fold", "tail", "intentSync", "ensure"}

BothModes == {"foreground", "background"}
=============================================================================
