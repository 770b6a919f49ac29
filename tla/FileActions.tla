----------------------------- MODULE FileActions -----------------------------
(***************************************************************************)
(* Renaming, trashing and undoing in the desktop application.  The         *)
(* interface queues actions to one worker thread and takes its completions *)
(* once per frame.  Undo takes back the last thing that was done, so it    *)
(* waits until nothing is under way.  Several files trashed together are   *)
(* one thing to undo; those that could not be restored remain.             *)
(***************************************************************************)
EXTENDS Naturals, Sequences, SequencesExt, FiniteSets

CONSTANTS
  FileNames,   \* names in a folder
  Owned,       \* those that hold the user's files at first
  MaxActions   \* bound on actions asked for

VARIABLES
  holds,         \* the file with each name: the name it had at first, NoName, or Foreign
  trashed,       \* Trash: what each token holds and its original name
  tokens,        \* tokens given out
  untracked,     \* files in Trash whose token could not be identified; this is reported
  jobs,          \* actions queued to the worker
  completions,   \* what it has finished
  inProgress,    \* pending
  undoPending,   \* undo_pending
  undoWhenIdle,  \* undo_when_idle
  undoable,      \* undo: what can be taken back, the last one last
  dialog,        \* the name being changed in the rename dialog, or NoName
  asked          \* actions asked for

actionVars == <<holds, trashed, tokens, untracked, jobs, completions, inProgress,
                undoPending, undoWhenIdle, undoable, dialog, asked>>

NoName == "free"
Foreign == "foreign"
InTrash == "trash"

ASSUME ActionsAssumption ==
  Owned \subseteq FileNames /\ FileNames \cap {NoName, Foreign, InTrash} = {}

ActionInit ==
  /\ holds = [n \in FileNames |-> IF n \in Owned THEN n ELSE NoName]
  /\ trashed = <<>> /\ tokens = 0 /\ untracked = {}
  /\ jobs = <<>> /\ completions = <<>> /\ inProgress = 0
  /\ undoPending = FALSE /\ undoWhenIdle = FALSE /\ undoable = <<>>
  /\ dialog = NoName /\ asked = 0
-----------------------------------------------------------------------------
(* The interface.                                                           *)
Disk == <<holds, trashed, tokens, untracked>>
Job(action, undo) == [action |-> action, undo |-> undo]
Send(job) == jobs' = Append(jobs, job) /\ inProgress' = inProgress + 1
Asks == asked < MaxActions /\ asked' = asked + 1

OpensRename(n) ==
  /\ dialog' = n /\ Asks /\ n # dialog
  /\ UNCHANGED <<Disk, jobs, completions, inProgress, undoPending, undoWhenIdle, undoable>>

ConfirmsRename(to) ==
  /\ dialog # NoName /\ dialog' = NoName /\ Send(Job([do |-> "rename", from |-> dialog, to |-> to], FALSE))
  /\ UNCHANGED <<Disk, completions, undoPending, undoWhenIdle, undoable, asked>>

Trashes(names) ==
  /\ Asks /\ Send(Job([do |-> "trash", names |-> names], FALSE))
  /\ UNCHANGED <<Disk, completions, undoPending, undoWhenIdle, undoable, dialog>>

TakesBack(entry) == IF entry.do = "rename" THEN entry ELSE [do |-> "restore", tokens |-> entry.tokens]

(* Mutant: undo does not wait for what is under way.                        *)
UndoAtOnce(waiting, entries, busy) ==
  IF busy \/ entries = <<>> THEN UNCHANGED <<jobs, undoPending>> /\ inProgress' = waiting /\ undoWhenIdle' = FALSE
  ELSE /\ jobs' = Append(jobs, Job(TakesBack(Last(entries)), TRUE)) /\ inProgress' = waiting + 1
       /\ undoPending' = TRUE /\ undoWhenIdle' = FALSE

Undo(waiting, entries, busy) ==
  IF waiting # 0 THEN undoWhenIdle' = TRUE /\ undoPending' = busy /\ inProgress' = waiting /\ UNCHANGED jobs
  ELSE /\ undoWhenIdle' = FALSE
       /\ IF busy \/ entries = <<>> THEN undoPending' = busy /\ inProgress' = 0 /\ UNCHANGED jobs
          ELSE /\ jobs' = Append(jobs, Job(TakesBack(Last(entries)), TRUE))
               /\ inProgress' = 1 /\ undoPending' = TRUE

\* By the keyboard, which a dialog has to itself.
AsksUndo == Asks /\ dialog = NoName /\ Undo(inProgress, undoable, undoPending) /\ UNCHANGED <<Disk, completions, undoable, dialog>>
-----------------------------------------------------------------------------
(* The worker.  A name is never replaced, by a rename or a restore.         *)
Rename(from, to) ==
  IF holds[from] = NoName \/ holds[to] # NoName
  THEN {[ok |-> FALSE, holds |-> holds]}
  ELSE {[ok |-> TRUE, holds |-> [holds EXCEPT ![to] = holds[from], ![from] = NoName]]}

\* One file after the other: those that failed are reported and the others done.
\* Trash may lose track of one, and a restored file's information may remain.
PutInTrash(s, n) ==
  IF s.holds[n] = NoName THEN s
  ELSE [s EXCEPT !.holds[n] = NoName, !.trashed = Append(@, [file |-> s.holds[n], origin |-> n]),
                 !.tokens = Append(@, Len(s.trashed) + 1)]

TakeFromTrash(s, t) ==
  LET item == s.trashed[t]
  IN IF item.file = NoName \/ s.holds[item.origin] # NoName THEN [s EXCEPT !.tokens = Append(@, t)]
     ELSE [s EXCEPT !.holds[item.origin] = item.file, !.trashed[t].file = NoName]

Batch == [holds |-> holds, trashed |-> trashed, tokens |-> <<>>]

RunsRename ==
  LET a == Head(jobs).action
  IN /\ jobs # <<>> /\ a.do = "rename" /\ jobs' = Tail(jobs)
     /\ \E r \in Rename(a.from, a.to) :
          holds' = r.holds /\ completions' = Append(completions, [job |-> Head(jobs), ok |-> r.ok, tokens |-> <<>>])
     /\ UNCHANGED <<trashed, tokens, untracked, inProgress, undoPending, undoWhenIdle, undoable, dialog, asked>>

RunsTrash ==
  LET a == Head(jobs).action
      s == FoldLeft(PutInTrash, Batch, a.names)
  IN /\ jobs # <<>> /\ a.do = "trash" /\ jobs' = Tail(jobs)
     /\ holds' = s.holds /\ trashed' = s.trashed /\ tokens' = Len(s.trashed)
     /\ \E kept \in {s.tokens} \cup {RemoveAt(s.tokens, i) : i \in DOMAIN s.tokens} :
          /\ untracked' = untracked \cup {s.trashed[t].file : t \in ToSet(s.tokens) \ ToSet(kept)}
          /\ completions' = Append(completions, [job |-> Head(jobs), ok |-> kept # <<>>, tokens |-> kept])
     /\ UNCHANGED <<inProgress, undoPending, undoWhenIdle, undoable, dialog, asked>>

RunsRestore ==
  LET a == Head(jobs).action
      s == FoldLeft(TakeFromTrash, Batch, a.tokens)
  IN /\ jobs # <<>> /\ a.do = "restore" /\ jobs' = Tail(jobs)
     /\ holds' = s.holds /\ trashed' = s.trashed
     /\ \E stuck \in {<<>>} \cup {<<t>> : t \in ToSet(a.tokens) \ ToSet(s.tokens)} :
          completions' = Append(completions, [job |-> Head(jobs), ok |-> s.tokens \o stuck = <<>>,
                                              tokens |-> s.tokens \o stuck])
     /\ UNCHANGED <<tokens, untracked, inProgress, undoPending, undoWhenIdle, undoable, dialog, asked>>
-----------------------------------------------------------------------------
(* Another program creates and removes files of its own.                    *)
Occupies(n) ==
  /\ holds[n] \in {NoName, Foreign} /\ asked < MaxActions /\ asked' = asked + 1
  /\ holds' = [holds EXCEPT ![n] = IF @ = NoName THEN Foreign ELSE NoName]
  /\ UNCHANGED <<trashed, tokens, untracked, jobs, completions, inProgress, undoPending, undoWhenIdle, undoable, dialog>>
-----------------------------------------------------------------------------
(* complete_batch, complete_action, remember_undo                           *)
Complete(entries, c) ==
  LET a == c.job.action
  IN IF a.do = "restore"
     THEN IF c.tokens = <<>> THEN Front(entries)
          ELSE [entries EXCEPT ![Len(entries)] = [do |-> "trash", tokens |-> c.tokens]]
     ELSE IF ~c.ok THEN entries
     ELSE IF a.do = "trash" THEN Append(entries, [do |-> "trash", tokens |-> c.tokens])
     ELSE IF c.job.undo THEN Front(entries)
     ELSE Append(entries, [do |-> "rename", from |-> a.to, to |-> a.from])

\* A rename that failed is asked for again.
Reopens(c) == c.job.action.do = "rename" /\ ~c.ok /\ ~c.job.undo

Updates ==
  LET entries == FoldLeft(Complete, undoable, completions)
      waiting == inProgress - Len(completions)
      busy == undoPending /\ \A c \in ToSet(completions) : ~c.job.undo
      failed == SelectLastInSeq(completions, Reopens)
  IN /\ completions # <<>> /\ completions' = <<>>
     /\ undoable' = entries
     /\ dialog' = IF failed = 0 THEN dialog ELSE completions[failed].job.action.from
     /\ IF undoWhenIdle /\ waiting = 0 THEN Undo(0, entries, busy)
        ELSE inProgress' = waiting /\ undoPending' = busy /\ UNCHANGED <<jobs, undoWhenIdle>>
     /\ UNCHANGED <<Disk, asked>>

ActionNext ==
  \/ \E n \in FileNames : OpensRename(n) \/ ConfirmsRename(n) \/ Trashes(<<n>>) \/ Occupies(n)
  \/ \E n, o \in FileNames : n # o /\ Trashes(<<n, o>>)
  \/ AsksUndo \/ RunsRename \/ RunsTrash \/ RunsRestore \/ Updates
ActionSpec == ActionInit /\ [][ActionNext]_actionVars
-----------------------------------------------------------------------------
(* Where the user's files would be after everything was undone.             *)
Place(f) == IF \E n \in FileNames : holds[n] = f THEN CHOOSE n \in FileNames : holds[n] = f ELSE InTrash

\* What undoing one thing would do to a file, wherever it is.
UndoneFor(f, entry) ==
  [p \in FileNames \cup {InTrash} |->
     IF entry.do = "rename" THEN IF p = entry.from THEN entry.to ELSE p
     ELSE LET held == {t \in ToSet(entry.tokens) : trashed[t].file = f}
          IN IF held = {} THEN p ELSE trashed[CHOOSE t \in held : TRUE].origin]

Back(move, place) == move[place]

\* Whenever nothing is under way, what can be undone takes every file of the
\* user back to where it was at first, but for those that Trash lost track of:
\* however actions and undo were asked for while others were under way, and
\* whatever part of them failed.
UndoRestores ==
  inProgress = 0 =>
    \A f \in Owned \ untracked :
      FoldRight(Back, [k \in DOMAIN undoable |-> UndoneFor(f, undoable[k])], Place(f)) = f
=============================================================================
