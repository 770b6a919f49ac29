---------------------------- MODULE ScanSession ----------------------------
(* A full scan, from the button to the published index.  The application      *)
(* starts a helper process per scan; the helper walks the requested mounts    *)
(* one after the other, sending for each the native cursor it captured first  *)
(* and then the records; a transport thread copies the messages into the      *)
(* application's one event queue and adds a final event, the completion or a  *)
(* failure.  The application spills the records and, when the completion is   *)
(* clean, builds the new index in a thread of its own.                        *)
(*                                                                            *)
(* Nothing in the queue says which scan a message belongs to.                 *)
(* Not modelled: lane labels and progress counts, the two-second delay before *)
(* an emptied index is rebuilt and the count of open lanes that prolongs it,  *)
(* the two-hour limit on a helper.                                            *)
EXTENDS Naturals, Sequences, FiniteSets

CONSTANTS
    Mounts,         \* the mounted file systems
    Entries,        \* the entries they hold
    MountOf,        \* which mount an entry is on
    MaxChanges,     \* bound on the changes made to entries during the run
    MaxScans,       \* bound on the scans the user starts
    AwaitHelper     \* the user starts a scan only when the last helper is gone

(* "idle" stands for no mount; every mount has a root folder, an entry.        *)
ASSUME ScanAssumption ==
    /\ MaxChanges \in Nat /\ MaxScans \in Nat
    /\ "idle" \notin Mounts /\ Entries # {}
    /\ MountOf \in [Entries -> Mounts]
    /\ AwaitHelper \in BOOLEAN

VARIABLES
    onDisk,      \* the generation of each entry's last change
    helpers,     \* one record per scan started: helper process and transport
    channel,     \* the application's event queue
    gui,         \* scanning, cancelling, failed, roots, dirty
    staging,     \* the spill: open or not, its records
    cursors,     \* the cursors received
    building,    \* the input of the build thread, or NoIndex
    compact,     \* the index searched, or NoIndex
    watcher,     \* the live-update service: on or not
    resuming     \* a thread is about to start the service

fullScanVars == <<onDisk, helpers, channel, gui, staging, cursors, building, compact,
                  watcher, resuming>>
buildVars == <<building, compact>>
userVars == <<gui, staging, cursors>>

NotStaged == [open |-> FALSE, records |-> {}]
Staged(records) == [open |-> TRUE, records |-> records]
NoIndex == [none |-> TRUE]
Generation == CHOOSE g \in {onDisk[e] : e \in Entries} : \A e \in Entries : onDisk[e] <= g
On(mount) == {e \in Entries : MountOf[e] = mount}
Numbers == DOMAIN helpers

NewHelper(roots) ==
    [is |-> "starting", todo |-> roots, lane |-> "idle", read |-> {},
     mounts |-> Cardinality(roots), errors |-> 0, cancelled |-> FALSE]
OverHelper == [NewHelper({}) EXCEPT !.is = "over"]
MountEvents == {"cursor", "records", "laneError", "complete", "refused", "fatal"}
HelperGone == /\ \A n \in Numbers : helpers[n].is = "over"
              /\ \A k \in DOMAIN channel : channel[k].kind \notin MountEvents

Resting(g) == ~g.scanning /\ building = NoIndex
(* The service is started again unless a scan or a build runs, or there is    *)
(* nothing to search.                                                         *)
Resume(g, build, index) ==
    resuming' = IF ~g.scanning /\ build = NoIndex /\ index # NoIndex
                THEN TRUE ELSE resuming

(* What an earlier run of the application may have published. *)
OldIndex == [none |-> FALSE, roots |-> Mounts,
             records |-> [entry : Entries, at : {0}], cursors |-> [mount : Mounts, since : {0}]]

ScanInit ==
    /\ onDisk = [e \in Entries |-> 0]
    /\ helpers = << >>
    /\ channel = << >>
    /\ gui = [scanning |-> FALSE, cancelling |-> FALSE, failed |-> FALSE,
              roots |-> {}, dirty |-> FALSE]
    /\ staging = NotStaged
    /\ cursors = {}
    /\ building = NoIndex
    /\ compact \in {NoIndex, OldIndex}
    /\ watcher \in BOOLEAN
    /\ resuming = (compact # NoIndex)

(* Anyone changes an entry. *)
ChangeEntry(e) ==
    /\ Generation < MaxChanges
    /\ onDisk' = [onDisk EXCEPT ![e] = Generation + 1]
    /\ UNCHANGED <<helpers, channel, userVars, buildVars, watcher, resuming>>

----------------------------------------------------------------------------
(* The buttons. *)
(* The user scans the selected roots; with none selected the index is emptied.*)
(* The spill may be refused.                                                  *)
BeginScan(roots) ==
    /\ ~gui.scanning /\ building = NoIndex /\ ~gui.cancelling
    /\ AwaitHelper => HelperGone
    /\ Len(helpers) < MaxScans
    /\ \/ /\ roots = {}
          /\ compact' = NoIndex
          /\ gui' = [gui EXCEPT !.dirty = TRUE]
          /\ UNCHANGED <<helpers, staging, cursors>>
       \/ /\ roots # {}
          /\ staging' = Staged({})
          /\ cursors' = {}
          /\ gui' = [scanning |-> TRUE, cancelling |-> FALSE, failed |-> FALSE,
                     roots |-> roots, dirty |-> FALSE]
          /\ helpers' = Append(helpers, NewHelper(roots))
          /\ UNCHANGED compact
       \/ /\ roots # {}
          /\ cursors' = {}
          /\ gui' = [gui EXCEPT !.failed = FALSE, !.roots = {}]
          /\ staging' = NotStaged
          /\ UNCHANGED <<helpers, compact>>
    /\ UNCHANGED <<onDisk, channel, building, watcher, resuming>>

CancelScan ==
    /\ gui.scanning /\ ~gui.cancelling
    /\ gui' = [gui EXCEPT !.cancelling = TRUE, !.failed = FALSE]
    /\ staging' = NotStaged
    /\ cursors' = {}
    /\ helpers' = [helpers EXCEPT ![Len(helpers)].cancelled = TRUE]
    /\ UNCHANGED <<onDisk, channel, buildVars, watcher, resuming>>

----------------------------------------------------------------------------
(* The transport thread and the helper process of one scan. *)
Say(event) == channel' = Append(channel, event)
SayNothing == UNCHANGED channel
Alone == UNCHANGED <<onDisk, userVars, buildVars, resuming>>

(* Access is refused; or the service is stopped and the helper started,       *)
(* unless the scan was cancelled meanwhile.                                   *)
Launch(n) ==
    /\ helpers[n].is = "starting"
    /\ \/ /\ helpers' = [helpers EXCEPT ![n].is = "failed"]
          /\ UNCHANGED watcher
       \/ /\ helpers' = [helpers EXCEPT ![n].is =
                             IF helpers[n].cancelled THEN "failed" ELSE "running"]
          /\ watcher' = FALSE
    /\ SayNothing
    /\ Alone

(* The request is not acceptable: an error message, then the helper leaves. *)
Refuse(n) ==
    /\ helpers[n].is = "running" /\ helpers[n].lane = "idle"
    /\ Cardinality(helpers[n].todo) = helpers[n].mounts
    /\ helpers' = [helpers EXCEPT ![n].is = "failed"]
    /\ Say([kind |-> "refused"])
    /\ UNCHANGED watcher
    /\ Alone

(* The lane of a mount begins with the cursor, before any record is read. *)
OpenLane(n, m) ==
    /\ helpers[n].is = "running" /\ helpers[n].lane = "idle"
    /\ m \in helpers[n].todo
    /\ helpers' = [helpers EXCEPT ![n].lane = m, ![n].read = {}]
    /\ Say([kind |-> "cursor", mount |-> m, since |-> Generation])
    /\ UNCHANGED watcher
    /\ Alone

ReadEntry(n, e) ==
    /\ helpers[n].is = "running"
    /\ e \in On(helpers[n].lane) \ helpers[n].read
    /\ helpers' = [helpers EXCEPT ![n].read = @ \cup {e}]
    /\ Say([kind |-> "records", mount |-> MountOf[e], entry |-> e, at |-> onDisk[e]])
    /\ UNCHANGED watcher
    /\ Alone

(* A lane ends when everything on its mount was read, or with an error. *)
CloseLane(n) ==
    /\ helpers[n].is = "running" /\ helpers[n].lane # "idle"
    /\ \/ /\ helpers[n].read = On(helpers[n].lane)
          /\ helpers' = [helpers EXCEPT ![n].lane = "idle",
                                        ![n].todo = @ \ {helpers[n].lane}]
          /\ SayNothing
       \/ /\ helpers' = [helpers EXCEPT ![n].lane = "idle",
                                        ![n].todo = @ \ {helpers[n].lane},
                                        ![n].errors = @ + 1]
          /\ Say([kind |-> "laneError"])
    /\ UNCHANGED watcher
    /\ Alone

(* The completion is written last; the transport keeps it until the process   *)
(* has ended well.                                                            *)
FinishScan(n) ==
    /\ helpers[n].is = "running" /\ helpers[n].lane = "idle" /\ helpers[n].todo = {}
    /\ helpers' = [helpers EXCEPT ![n].is = "finished"]
    /\ SayNothing
    /\ UNCHANGED watcher
    /\ Alone

(* The helper dies, or the guard sees the cancellation and kills it. *)
Die(n) ==
    /\ \/ helpers[n].is = "running"
       \/ helpers[n].is = "finished" /\ helpers[n].cancelled
    /\ helpers' = [helpers EXCEPT ![n].is = "failed"]
    /\ SayNothing
    /\ UNCHANGED watcher
    /\ Alone

(* The one final event of a scan. *)
Conclude(n) ==
    /\ helpers[n].is \in {"finished", "failed"}
    /\ helpers' = [helpers EXCEPT ![n] = OverHelper]
    /\ Say(IF helpers[n].is = "finished"
           THEN [kind |-> "complete", mounts |-> helpers[n].mounts,
                 errors |-> helpers[n].errors]
           ELSE [kind |-> "fatal"])
    /\ UNCHANGED watcher
    /\ Alone

----------------------------------------------------------------------------
(* The application takes events from the queue, one after the other. *)
Next1(kind) == channel # << >> /\ Head(channel).kind = kind /\ channel' = Tail(channel)
Outside == UNCHANGED <<onDisk, helpers, watcher>>

(* Mutant: the service is left off when a scan fails. *)
EndScanQuietly(cancelling) ==
    /\ gui' = [gui EXCEPT !.scanning = FALSE, !.failed = TRUE, !.roots = {},
                          !.cancelling = cancelling]
    /\ staging' = NotStaged
    /\ cursors' = {}
    /\ UNCHANGED resuming

(* end_scan: the scan is given up. *)
EndScan(cancelling) ==
    LET ended == [gui EXCEPT !.scanning = FALSE, !.failed = TRUE, !.roots = {},
                             !.cancelling = cancelling]
    IN /\ gui' = ended
       /\ staging' = NotStaged
       /\ cursors' = {}
       /\ Resume(ended, building, compact)

TakeCursor ==
    /\ Next1("cursor")
    /\ cursors' = IF gui.scanning /\ ~gui.cancelling /\ ~gui.failed
                  THEN cursors \cup {[mount |-> Head(channel).mount,
                                      since |-> Head(channel).since]}
                  ELSE cursors
    /\ Outside
    /\ UNCHANGED <<gui, staging, buildVars, resuming>>

(* Mutant: records the spill cannot take are skipped. *)
TakeRecordsOrSkip ==
    /\ Next1("records")
    /\ LET record == [entry |-> Head(channel).entry, at |-> Head(channel).at]
       IN staging' \in {staging, IF staging.open /\ Head(channel).mount \in gui.roots
                                 THEN Staged(staging.records \cup {record}) ELSE staging}
    /\ Outside
    /\ UNCHANGED <<gui, cursors, buildVars, resuming>>

(* Records outside the roots are dropped; a spill that fails ends the scan. *)
TakeRecords ==
    /\ Next1("records")
    /\ LET record == [entry |-> Head(channel).entry, at |-> Head(channel).at]
       IN \/ /\ staging' = IF staging.open /\ Head(channel).mount \in gui.roots
                           THEN Staged(staging.records \cup {record}) ELSE staging
             /\ UNCHANGED <<gui, cursors, resuming>>
          \/ /\ staging.open
             /\ EndScan(gui.cancelling)
    /\ Outside
    /\ UNCHANGED buildVars

TakeLaneError ==
    /\ Next1("laneError")
    /\ gui' = [gui EXCEPT !.failed = TRUE]
    /\ staging' = NotStaged
    /\ cursors' = {}
    /\ Outside
    /\ UNCHANGED <<buildVars, resuming>>

TakeRefusal ==
    /\ Next1("refused")
    /\ EndScan(gui.cancelling)
    /\ Outside
    /\ UNCHANGED buildVars

TakeFatal ==
    /\ Next1("fatal")
    /\ EndScan(FALSE)
    /\ Outside
    /\ UNCHANGED buildVars

(* A clean completion hands the spill to the build thread; one that arrives   *)
(* after a cancellation, or with an error, adopts nothing.                    *)
TakeCompletion ==
    /\ Next1("complete")
    /\ LET done == Head(channel)
           clean == done.mounts > 0 /\ done.errors = 0 /\ ~gui.failed
           adopt == /\ clean /\ ~gui.cancelling
                    /\ staging.open /\ staging.records # {}
           settled == [gui EXCEPT !.scanning = FALSE, !.cancelling = FALSE, !.roots = {},
                                  !.failed = gui.cancelling /\ ~clean]
       IN /\ building' = IF adopt
                         THEN [none |-> FALSE, records |-> staging.records, cursors |-> cursors,
                               roots |-> gui.roots]
                         ELSE building
          /\ gui' = settled
          /\ staging' = NotStaged
          /\ cursors' = IF gui.cancelling THEN cursors ELSE {}
          /\ Resume(settled, building', compact)
    /\ Outside
    /\ UNCHANGED compact

(* An index emptied because no root is selected is rebuilt from nothing. *)
RebuildEmpty ==
    /\ gui.dirty /\ building = NoIndex
    /\ \/ /\ building' = [none |-> FALSE, records |-> {}, cursors |-> cursors,
                          roots |-> {}]
          /\ cursors' = {}
          /\ UNCHANGED gui
       \/ /\ gui' = [gui EXCEPT !.dirty = FALSE]
          /\ UNCHANGED <<building, cursors>>
    /\ UNCHANGED <<onDisk, helpers, channel, staging, compact, watcher, resuming>>

(* The build thread, then its event. *)
TakeBuilt ==
    /\ building # NoIndex
    /\ \/ compact' = building /\ gui' = [gui EXCEPT !.dirty = FALSE]
       \/ compact' = compact /\ gui' = [gui EXCEPT !.dirty = FALSE]
    /\ building' = NoIndex
    /\ Resume(gui, NoIndex, compact')
    /\ Outside
    /\ UNCHANGED <<channel, staging, cursors>>

(* The service manager starts the service. *)
StartService ==
    /\ resuming
    /\ resuming' = FALSE
    /\ watcher' = TRUE
    /\ UNCHANGED <<onDisk, helpers, channel, userVars, buildVars>>

ScanNext ==
    \/ \E e \in Entries : ChangeEntry(e)
    \/ \E roots \in SUBSET Mounts : BeginScan(roots)
    \/ CancelScan
    \/ \E n \in Numbers : Launch(n)
    \/ \E n \in Numbers : Refuse(n)
    \/ \E n \in Numbers, m \in Mounts : OpenLane(n, m)
    \/ \E n \in Numbers, e \in Entries : ReadEntry(n, e)
    \/ \E n \in Numbers : CloseLane(n)
    \/ \E n \in Numbers : FinishScan(n)
    \/ \E n \in Numbers : Die(n)
    \/ \E n \in Numbers : Conclude(n)
    \/ TakeCursor
    \/ TakeRecords
    \/ TakeLaneError
    \/ TakeRefusal
    \/ TakeFatal
    \/ TakeCompletion
    \/ RebuildEmpty
    \/ TakeBuilt
    \/ StartService

ScanSpec == ScanInit /\ [][ScanNext]_fullScanVars

----------------------------------------------------------------------------
(* Whatever index the application adopts holds every entry of the roots it    *)
(* was asked to scan, and for each of their mounts a cursor from which        *)
(* everything the records missed can be caught up: a change no later than the *)
(* cursor is in the record.  (events.rs and scan_events.rs decide what may be *)
(* published; scan/view.rs captures the cursor.)                              *)
PublishedIsWhole ==
    compact # NoIndex =>
        \A m \in compact.roots :
            \E c \in compact.cursors :
                /\ c.mount = m
                /\ \A e \in On(m) :
                       /\ \E r \in compact.records : r.entry = e
                       /\ \A r \in compact.records :
                              r.entry = e /\ onDisk[e] <= c.since => r.at = onDisk[e]

(* Once nothing is under way and there is an index to keep current, the       *)
(* live-update service runs: every way a scan can end starts it again.        *)
ServiceComesBack ==
    (/\ Resting(gui) /\ HelperGone /\ ~resuming /\ helpers # << >> /\ compact # NoIndex)
        => watcher

(* Whatever way a scan ends, what is searched afterwards is whole and is kept *)
(* current (gui/src/app/events.rs, scan_events.rs).                           *)
ScanSound == PublishedIsWhole /\ ServiceComesBack
=============================================================================
