---------------------------- MODULE FullRebuild ----------------------------
(***************************************************************************)
(* A whole new index beside the one in use: prepared under a first marker, *)
(* made ready under a second, then published by replacing the log, the     *)
(* base and its sidecars, in this order.  A crash may come between any two *)
(* files.  The next build, and every open of the index, first decides by   *)
(* the generation of the log whether to finish the publication or to drop  *)
(* it.  The marker and the stage have the names a compaction of the store  *)
(* uses, so a build may also meet what an interrupted compaction left.     *)
(***************************************************************************)
EXTENDS Integers, Sequences

CONSTANTS
  Leftovers,    \* what earlier processes may have left
  TornMarkers,  \* TRUE if a crash may come while the marker is written
  MaxBuilds,    \* bound on builds
  MaxLogged     \* bound on changes logged

VARIABLES
  disk,     \* the files, see FilesAfter
  covers,   \* for each generation, the changes its base holds
  logged,   \* the changes acknowledged so far are 1 .. logged
  step,     \* where the process that builds or recovers stands
  goal,     \* what it goes on to: "build", "open"
  opened    \* the store is open

rebuildVars == <<disk, covers, logged, step, goal, opened>>

None == 0
Torn == -1
Short == [gen |-> Torn, frames |-> {}]   \* a log cut below its header

CleanFiles(gen, frames) ==
  [base |-> gen, side |-> gen, log |-> [gen |-> gen, frames |-> frames], stage |-> None, ready |-> FALSE,
   stageLog |-> None, preparing |-> FALSE, marker |-> None, tail |-> <<>>]

(* Generation 1 lacks the changes 1 and 2, a compaction to generation 2 took *)
(* in change 1 or both, and was interrupted.                                 *)
FilesAfter(left) ==
  LET old == [CleanFiles(1, {1, 2}) EXCEPT !.stage = 2, !.ready = TRUE]
      tail == [gen |-> 2, frames |-> {2}]
  IN CASE left = "clean"       -> CleanFiles(1, {1, 2})
       [] left = "marked"      -> [old EXCEPT !.marker = 2]
       [] left = "cut"         -> [old EXCEPT !.marker = 2, !.log = Short]
       [] left = "reset"       -> [old EXCEPT !.marker = 2, !.log = [gen |-> 2, frames |-> {}]]
       [] left = "published"   -> [old EXCEPT !.marker = 2, !.log = [gen |-> 2, frames |-> {}],
                                              !.base = 2, !.side = 2]
       [] left = "tailed"      -> [old EXCEPT !.tail = <<1, 2>>]
       [] left = "installed"   -> [old EXCEPT !.tail = <<1, 2>>, !.log = tail]
       [] left = "tailMarked"  -> [old EXCEPT !.tail = <<1, 2>>, !.log = tail, !.marker = 2]

HasTail(left) == left \in {"tailed", "installed", "tailMarked"}

RebuildInit ==
  /\ \E left \in Leftovers :
       /\ disk = FilesAfter(left)
       /\ covers = <<{}, IF HasTail(left) THEN {1} ELSE {1, 2}>>
  /\ logged = 2 /\ step = "idle" /\ goal = "none" /\ opened = FALSE
-----------------------------------------------------------------------------
DropStage(d) == [d EXCEPT !.stage = None, !.ready = FALSE, !.stageLog = None]
Go(s) == step' = s /\ UNCHANGED <<covers, logged, goal, opened>>
Failed == step' = "idle" /\ goal' = "none" /\ UNCHANGED <<disk, covers, logged, opened>>

StartBuild ==
  /\ step = "idle" /\ ~opened /\ Len(covers) < MaxBuilds + 2
  /\ step' = "recover" /\ goal' = "build"
  /\ UNCHANGED <<disk, covers, logged, opened>>

\* An open recovers only what a full build left.
StartOpen ==
  /\ step = "idle" /\ ~opened
  /\ step' = (IF disk.preparing THEN "recover" ELSE "next") /\ goal' = "open"
  /\ UNCHANGED <<disk, covers, logged, opened>>

(* recover_streamed_publication *)
RecoverNothing ==
  /\ step = "recover" /\ disk.marker = None
  /\ IF disk.preparing THEN /\ disk' = DropStage(disk) /\ Go("forget")
                       ELSE /\ UNCHANGED disk /\ Go("next")

ForgetPreparation ==
  /\ step = "forget" /\ disk' = [disk EXCEPT !.preparing = FALSE] /\ Go("next")

RollBack ==
  /\ step = "recover" /\ disk.marker > 0 /\ disk.log.gen # disk.marker
  /\ disk' = DropStage(disk) /\ Go("unmarkOld")

UnmarkOld == step = "unmarkOld" /\ disk' = [disk EXCEPT !.marker = None] /\ Go("forget")

RecoverPublished ==
  /\ step = "recover" /\ disk.marker > 0 /\ disk.log.gen = disk.marker
  /\ disk.stage = None /\ disk.base = disk.marker
  /\ disk' = [disk EXCEPT !.marker = None] /\ Go("forget")

\* A marker that cannot be read, or a stage that does not match it, is an error.
RollForward ==
  /\ step = "recover" /\ disk.marker # None /\ disk.marker \in {Torn, disk.log.gen}
  /\ disk.stage # None \/ disk.base # disk.marker
  /\ IF disk.marker # Torn /\ disk.stage = disk.marker /\ disk.ready
     THEN /\ UNCHANGED disk /\ Go("publish")
     ELSE Failed
-----------------------------------------------------------------------------
(* build_streamed: the records were read before, the newest included. *)
Prepare ==
  /\ step = "next" /\ goal = "build"
  /\ disk' = [disk EXCEPT !.preparing = TRUE]
  /\ covers' = Append(covers, 1 .. logged)
  /\ step' = "stage" /\ UNCHANGED <<logged, goal, opened>>

Stage ==
  /\ step = "stage"
  /\ disk' = [disk EXCEPT !.stage = Len(covers), !.ready = FALSE] /\ Go("sidecars")

StageSidecars == step = "sidecars" /\ disk' = [disk EXCEPT !.ready = TRUE] /\ Go("mark")

CreateMarker == step = "mark" /\ disk' = [disk EXCEPT !.marker = Torn] /\ Go("writeMarker")
WriteMarker == step = "writeMarker" /\ disk' = [disk EXCEPT !.marker = disk.stage] /\ Go("publish")

(* publish_streamed_generation *)
StageLog ==
  /\ step = "publish" /\ disk.log.gen # disk.marker /\ disk.stageLog # disk.marker
  /\ disk' = [disk EXCEPT !.stageLog = disk.marker] /\ Go("publish")

ReplaceLog ==
  /\ step = "publish" /\ disk.log.gen # disk.marker /\ disk.stageLog = disk.marker
  /\ disk' = [disk EXCEPT !.log = [gen |-> disk.marker, frames |-> {}], !.stageLog = None]
  /\ Go("publish")

(* Mutant: the base is published before the log of its generation. *)
PublishBaseFirst ==
  /\ step = "publish" /\ disk.base # disk.stage
  /\ disk' = [disk EXCEPT !.base = disk.stage] /\ Go("publish")

PublishBase ==
  /\ step = "publish" /\ disk.log.gen = disk.marker
  /\ disk' = [disk EXCEPT !.base = disk.stage] /\ Go("publishSide")

PublishSide == step = "publishSide" /\ disk' = [disk EXCEPT !.side = disk.base] /\ Go("unmark")
Unmark == step = "unmark" /\ disk' = [disk EXCEPT !.marker = None] /\ Go("clean")
CleanStage == step = "clean" /\ disk' = DropStage(disk) /\ Go("unprepare")

\* The build is over, or the recovery goes on to what it was for.
Unprepare ==
  /\ step = "unprepare"
  /\ disk' = [disk EXCEPT !.preparing = FALSE]
  /\ IF goal = "build" /\ Len(covers) = disk.base
     THEN step' = "idle" /\ goal' = "none" /\ UNCHANGED <<covers, logged, opened>>
     ELSE Go("next")
-----------------------------------------------------------------------------
(* open_durable_pair after the recovery: the tail's intent, then the pair.   *)
TailOk(d) ==
  \/ d.tail = <<>>
  \/ IF d.log.gen = d.tail[1] THEN d.base = d.tail[1] /\ d.marker = None
     ELSE d.log.gen = d.tail[2] /\ d.base \in {d.tail[1], d.tail[2]}

FromStage(d) == d.stage # None /\ d.log.gen \in {d.stage, Torn} /\ d.base # d.log.gen

PairOk(d) ==
  IF d.marker = None THEN d.log.gen = d.base \/ FromStage(d)
  ELSE d.marker # Torn /\ (d.base = d.marker \/ d.stage = d.marker)

\* The changes the open pair stands for: a log that is reset, or was cut,
\* is the log of the stage, which holds the changes it had.
OpenedPair(d) ==
  LET gen == IF d.marker > 0 THEN d.marker ELSE IF FromStage(d) THEN d.stage ELSE d.base
  IN [CleanFiles(gen, IF d.log.gen = gen THEN d.log.frames ELSE {})
        EXCEPT !.side = IF d.base = gen /\ d.stage # gen THEN d.side ELSE gen]

Openable(d) == TailOk(d) /\ PairOk(d)

Opens ==
  /\ step = "next" /\ goal = "open"
  /\ IF Openable(disk) THEN /\ disk' = OpenedPair(disk) /\ opened' = TRUE
                            /\ step' = "idle" /\ goal' = "none" /\ UNCHANGED <<covers, logged>>
                       ELSE Failed

LogOne ==
  /\ opened /\ logged < MaxLogged
  /\ logged' = logged + 1
  /\ disk' = [disk EXCEPT !.log.frames = @ \cup {logged + 1}]
  /\ UNCHANGED <<covers, step, goal, opened>>

Stops ==
  /\ step # "idle" \/ opened
  /\ step = "writeMarker" => TornMarkers
  /\ step' = "idle" /\ goal' = "none" /\ opened' = FALSE
  /\ UNCHANGED <<disk, covers, logged>>

Recovering == RecoverNothing \/ ForgetPreparation \/ RollBack \/ UnmarkOld
                \/ RecoverPublished \/ RollForward
Building == Prepare \/ Stage \/ StageSidecars \/ CreateMarker \/ WriteMarker
Publishing == StageLog \/ ReplaceLog \/ PublishBase \/ PublishSide \/ Unmark \/ CleanStage \/ Unprepare

RebuildNext == StartBuild \/ StartOpen \/ Recovering \/ Building \/ Publishing \/ Opens \/ LogOne \/ Stops
RebuildSpec == RebuildInit /\ [][RebuildNext]_rebuildVars
-----------------------------------------------------------------------------
\* What an open makes of the files once an interrupted build is recovered.
Recovered(d) ==
  IF ~d.preparing \/ d.marker = Torn THEN d
  ELSE IF d.marker # None /\ d.log.gen = d.marker /\ d.stage # None
  THEN [CleanFiles(d.marker, d.log.frames) EXCEPT !.tail = d.tail]
  ELSE [DropStage(d) EXCEPT !.preparing = FALSE, !.marker = None]

\* Wherever a build or a recovery is cut short, the index can be opened, stands
\* for every change that was acknowledged (those in its base and those in its
\* log), and has the directory sidecars of its own base.
RebuildRecoverable ==
  LET d == Recovered(disk)
      pair == OpenedPair(d)
  IN (step = "writeMarker" => TornMarkers) =>
       /\ Openable(d)
       /\ covers[pair.base] \cup pair.log.frames = 1 .. logged
       /\ pair.side = pair.base
=============================================================================
