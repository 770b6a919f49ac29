---------------------------- MODULE FileTransfer ----------------------------
(***************************************************************************)
(* A folder moved, or copied, to another volume by the file manager of the *)
(* desktop application.  A rename cannot cross volumes, so the folder is   *)
(* recorded, copied to a private folder, published there under its name    *)
(* without replacing anything, flushed to disk, and only then removed:     *)
(* each file that still is what was recorded, by way of a holding folder.  *)
(* Meanwhile the files are edited, saved over, deleted and created, and    *)
(* another program may take the name; the machine may stop at any time.    *)
(***************************************************************************)
EXTENDS Naturals, FiniteSets

CONSTANTS
  Files,          \* names in the folder
  Linked,         \* those that have another name elsewhere at first
  Contents,       \* what a file may hold; all are of one size
  MaxUserEdits,   \* bound on edits
  TimesRestored   \* an edit may put the old time back between the check of a file and its holding

ASSUME TransferAssumption ==
  /\ IsFiniteSet(Files) /\ Linked \subseteq Files
  /\ Contents \subseteq Nat \ {0} /\ MaxUserEdits \in Nat /\ TimesRestored \in BOOLEAN

VARIABLES
  cut,      \* a move, and not a copy
  doing,    \* where the transfer is
  todo,     \* files the current phase has still to look at
  inodes,   \* files by number: content, modification and change time
  at,       \* the source folder: the number of each file, or NoItem
  folder,   \* the source folder exists
  current,  \* (history) the file the user last put at each name
  hold,     \* the holding folder
  record,   \* the snapshot
  matched,  \* files that were found to be what was recorded, and are held next
  staged,   \* the copy being made: the content of each file, or NoItem
  target,   \* whose the name at the destination is, and what it holds
  flushed,  \* the destination volume was synchronised
  seen,     \* (history) when each removed file was last looked at
  left,     \* items left at the original location
  result,   \* what was reported
  userEdits \* edits so far

transferVars == <<cut, doing, todo, inodes, at, folder, current, hold, record, matched,
                  staged, target, flushed, seen, left, result, userEdits>>

NoItem == 0
Now == userEdits + 1
Aliased(i) == i \in 1 .. Cardinality(Linked)
Empty == [f \in Files |-> NoItem]
Numbering == CHOOSE n \in [Files -> 1 .. Cardinality(Files)] :
               /\ \A f, g \in Files : n[f] = n[g] => f = g
               /\ \A f \in Linked : n[f] <= Cardinality(Linked)

TransferInit ==
  /\ cut \in BOOLEAN /\ doing = "record" /\ todo = Files
  /\ inodes = [i \in 1 .. Cardinality(Files) |-> [content |-> 1, mtime |-> 0, ctime |-> 0]]
  /\ at \in {[f \in Files |-> IF f \in there THEN Numbering[f] ELSE NoItem] : there \in SUBSET Files}
  /\ current = at /\ folder = TRUE /\ hold = Empty
  /\ record = [f \in Files |-> [ino |-> NoItem]] /\ matched = {} /\ staged = Empty
  /\ target = [by |-> "nobody", files |-> Empty] /\ flushed = FALSE
  /\ seen = Empty /\ left = 0 /\ result = "none" /\ userEdits = 0
-----------------------------------------------------------------------------
(* The user and other programs.                                             *)
ByUser == userEdits < MaxUserEdits /\ folder /\ userEdits' = userEdits + 1
Others == <<cut, doing, todo, folder, hold, record, matched, staged, target, flushed, seen, left, result>>

\* In place; the time of the last modification can be set back, the change time not.
WritesTo(i, content) ==
  /\ ByUser /\ (Aliased(i) \/ \E f \in Files : at[f] = i)
  /\ \E mtime \in {Now} \cup IF TimesRestored \/ \A f \in matched : at[f] # i \/ Aliased(i) THEN {inodes[i].mtime} ELSE {} :
       inodes' = [inodes EXCEPT ![i] = [content |-> content, mtime |-> mtime, ctime |-> Now]]
  /\ UNCHANGED <<Others, at, current>>

\* A new file, saved over what is there if there is anything.
Saves(f, content) ==
  LET i == Cardinality(DOMAIN inodes) + 1
  IN /\ ByUser /\ at' = [at EXCEPT ![f] = i] /\ current' = [current EXCEPT ![f] = i]
     /\ inodes' = [n \in 1 .. i |-> IF n < i THEN inodes[n] ELSE [content |-> content, mtime |-> Now, ctime |-> Now]]
     /\ UNCHANGED Others

Unlinks(f) ==
  /\ ByUser /\ at[f] # NoItem
  /\ at' = [at EXCEPT ![f] = NoItem] /\ current' = [current EXCEPT ![f] = NoItem]
  /\ UNCHANGED <<Others, inodes>>

TakesTarget ==
  /\ target.by = "nobody" /\ target' = [target EXCEPT !.by = "them"] /\ doing # "done"
  /\ UNCHANGED <<cut, doing, todo, inodes, at, folder, current, hold, record, matched, staged, flushed, seen, left, result, userEdits>>
-----------------------------------------------------------------------------
(* The transfer.                                                            *)
World == <<cut, inodes, at, folder, current, userEdits>>
Reports(said) == result' = said /\ doing' = "done" /\ todo' = {}
Enters(phase, files) == doing' = phase /\ todo' = files

\* Any error before the copy is published, a name that is taken among them:
\* the private folder is removed.
Fails ==
  /\ doing \in {"record", "copy"} /\ Reports("error") /\ staged' = Empty
  /\ UNCHANGED <<World, hold, matched, record, target, flushed, seen, left>>

Key(i) == [ino |-> i, mtime |-> inodes[i].mtime, ctime |-> inodes[i].ctime,
           digest |-> IF Aliased(i) THEN inodes[i].content ELSE NoItem]

TakesRecord(f) ==
  /\ doing = "record" /\ f \in todo
  /\ record' = [record EXCEPT ![f] = IF cut /\ at[f] # NoItem THEN Key(at[f]) ELSE @]
  /\ IF todo = {f} THEN Enters("copy", Files) ELSE Enters("record", todo \ {f})
  /\ UNCHANGED <<World, hold, matched, staged, target, flushed, seen, left, result>>

Copies(f) ==
  /\ doing = "copy" /\ f \in todo /\ todo' = todo \ {f}
  /\ staged' = [staged EXCEPT ![f] = IF at[f] = NoItem THEN NoItem ELSE inodes[at[f]].content]
  /\ UNCHANGED <<World, doing, hold, matched, record, target, flushed, seen, left, result>>

TakesName ==
  /\ doing = "copy" /\ todo = {} /\ target.by = "nobody"
  /\ target' = [by |-> "us", files |-> staged] /\ staged' = Empty
  /\ IF cut THEN Enters("sync", {}) /\ UNCHANGED result ELSE Reports("ok")
  /\ UNCHANGED <<World, hold, matched, record, flushed, seen, left>>

(* Mutant: the source is removed whether or not the copy could be flushed.  *)
SynchronisesOrNot ==
  /\ doing = "sync" /\ flushed' \in BOOLEAN
  /\ Enters("clean", {f \in Files : record[f].ino # NoItem}) /\ UNCHANGED result
  /\ UNCHANGED <<World, hold, matched, record, staged, target, seen, left>>

Synchronises ==
  /\ doing = "sync"
  /\ \/ flushed' = TRUE /\ Enters("clean", {f \in Files : record[f].ino # NoItem}) /\ UNCHANGED result
     \/ Reports("error") /\ UNCHANGED flushed
  /\ UNCHANGED <<World, hold, matched, record, staged, target, seen, left>>

SameKey(before, now) == [before EXCEPT !.ctime = now.ctime] = now
SameFile(before, now) == SameKey(before, now) /\ (before.digest # NoItem \/ before.ctime = now.ctime)
CopiedMatches(f) == record[f].digest \in {NoItem, target.files[f]}

(* Mutant: the copy itself is not compared with what was recorded.          *)
LooksAtSourceOnly(f) ==
  /\ doing = "clean" /\ f \in todo /\ hold[f] # NoItem
  /\ IF SameKey(record[f], Key(hold[f]))
     THEN /\ hold' = [hold EXCEPT ![f] = NoItem] /\ seen' = [seen EXCEPT ![f] = Now] /\ UNCHANGED <<left, at>>
     ELSE /\ left' = left + 1 /\ UNCHANGED seen
          /\ IF at[f] = NoItem
             THEN at' = [at EXCEPT ![f] = hold[f]] /\ hold' = [hold EXCEPT ![f] = NoItem]
             ELSE UNCHANGED <<at, hold>>
  /\ todo' = todo \ {f}
  /\ UNCHANGED <<cut, inodes, folder, current, userEdits, doing, record, matched, staged, target, flushed, result>>

\* A file that is gone, or is not what was recorded, is passed over.
Checks(f) ==
  /\ doing = "clean" /\ f \in todo \ matched /\ hold[f] = NoItem
  /\ IF at[f] # NoItem /\ SameFile(record[f], Key(at[f]))
     THEN matched' = matched \cup {f} /\ UNCHANGED <<todo, left>>
     ELSE todo' = todo \ {f} /\ left' = (IF at[f] = NoItem THEN left ELSE left + 1) /\ UNCHANGED matched
  /\ UNCHANGED <<World, doing, hold, record, staged, target, flushed, seen, result>>

\* Whatever is there now is held.
Holds(f) ==
  /\ doing = "clean" /\ f \in matched /\ matched' = matched \ {f}
  /\ hold' = [hold EXCEPT ![f] = at[f]] /\ at' = [at EXCEPT ![f] = NoItem]
  /\ IF at[f] # NoItem THEN UNCHANGED <<todo, left>> ELSE todo' = todo \ {f} /\ left' = left + 1
  /\ UNCHANGED <<cut, inodes, folder, current, userEdits, doing, record, staged, target, flushed, seen, result>>

\* What was held is removed if it still is what was recorded, and is what was
\* copied; else it is put back, or kept there if the name was taken meanwhile.
RemovesHeld(f) ==
  /\ doing = "clean" /\ f \in todo /\ hold[f] # NoItem
  /\ IF SameKey(record[f], Key(hold[f])) /\ CopiedMatches(f)
     THEN /\ hold' = [hold EXCEPT ![f] = NoItem] /\ seen' = [seen EXCEPT ![f] = Now] /\ UNCHANGED <<left, at>>
     ELSE /\ left' = left + 1 /\ UNCHANGED seen
          /\ IF at[f] = NoItem
             THEN at' = [at EXCEPT ![f] = hold[f]] /\ hold' = [hold EXCEPT ![f] = NoItem]
             ELSE UNCHANGED <<at, hold>>
  /\ todo' = todo \ {f}
  /\ UNCHANGED <<cut, inodes, folder, current, userEdits, doing, record, matched, staged, target, flushed, result>>

\* The folder goes if nothing is in it, the holding folder included.
RemovesFolder ==
  /\ doing = "clean" /\ todo = {}
  /\ folder' = (at # Empty \/ hold # Empty)
  /\ left' = IF folder' THEN left + 1 ELSE left
  /\ Reports(IF left' = 0 THEN "ok" ELSE "error")
  /\ UNCHANGED <<cut, inodes, at, current, userEdits, hold, record, matched, staged, target, flushed, seen>>

\* The process or the machine: what was not flushed is not there afterwards.
TransferStops ==
  /\ doing # "done" /\ Reports("stopped")
  /\ target' = IF target.by = "us" /\ ~flushed THEN [by |-> "nobody", files |-> Empty] ELSE target
  /\ UNCHANGED <<World, hold, matched, record, staged, flushed, seen, left>>

TransferNext ==
  \/ \E f \in Files : \/ Unlinks(f) \/ TakesRecord(f) \/ Copies(f) \/ Checks(f) \/ Holds(f) \/ RemovesHeld(f)
                      \/ \E c \in Contents : Saves(f, c)
  \/ \E i \in DOMAIN inodes, c \in Contents : WritesTo(i, c)
  \/ TakesTarget \/ Fails \/ TakesName \/ Synchronises \/ RemovesFolder \/ TransferStops
TransferSpec == TransferInit /\ [][TransferNext]_transferVars
-----------------------------------------------------------------------------
\* What the user last put at a name is there, or held, or at the destination;
\* or it has been edited through its other name since it was removed.
StillHeld(f) ==
  LET i == current[f]
  IN \/ i \in {NoItem, at[f], hold[f]}
     \/ target.by = "us" /\ target.files[f] = inodes[i].content
     \/ Aliased(i) /\ target.by = "us" /\ inodes[i].ctime >= seen[f]

\* A move loses nothing, whatever is edited, saved, put back or taken while it
\* runs and wherever it stops; and when it reports that all went well the
\* folder is gone from where it was.
MoveLosesNothing ==
  /\ \A f \in Files : StillHeld(f)
  /\ result = "ok" /\ cut => ~folder /\ at = Empty /\ hold = Empty
=============================================================================
