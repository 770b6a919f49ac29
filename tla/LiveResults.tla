----------------------------- MODULE LiveResults -----------------------------
(***************************************************************************)
(* The results shown by the desktop application while the index changes    *)
(* under it.  A thread reports that files of the index changed; a frame,   *)
(* which runs when an event has arrived, takes the events and compares the *)
(* stamp of the log with the one it saw last; a worker answers the newest  *)
(* search only, from the base and the log as they are when it reads them.  *)
(***************************************************************************)
EXTENDS Integers, Sequences, SequencesExt

CONSTANTS
  Queries,         \* what may be searched for
  MaxIndexOps,     \* bound on changes and compactions
  MaxTyped,        \* bound on searches typed
  StartupChanges   \* the index may change before the log was first looked at

VARIABLES
  content,   \* what the index says: a version
  logStamp,  \* modification time and length of the log
  published, \* generation of the base
  boundTo,   \* generation of the log
  notice,    \* the kernel has changes of files to report
  inbox,     \* queue to the interface
  screen,    \* the interface
  latest,    \* the newest search
  searches,  \* queue to the worker
  worker,    \* the search it runs, if any, and the log it has loaded
  typed      \* searches typed so far

liveVars == <<content, logStamp, published, boundTo, notice, inbox, screen, latest, searches, worker, typed>>
Index == <<content, logStamp, published, boundTo, notice>>

Never == -1
Search(id, query, base) == [id |-> id, query |-> query, base |-> base]
NoSearch == Search(Never, "", Never)
NothingShown == [query |-> "", version |-> Never]

LiveInit ==
  /\ content = 1 /\ logStamp = 1 /\ published = 1 /\ boundTo = 1 /\ notice = FALSE /\ inbox = <<>>
  /\ \E q \in Queries :
       /\ screen = [query |-> q, seq |-> 1, searching |-> TRUE, base |-> 1, shownBase |-> Never,
                    seen |-> Never, shown |-> NothingShown]
       /\ searches = <<Search(1, q, 1)>>
  /\ latest = 1 /\ typed = 0
  /\ worker = [search |-> NoSearch, statted |-> Never, logStamp |-> Never, version |-> Never, base |-> Never]
-----------------------------------------------------------------------------
(* The index, changed by another process.                                   *)
Elsewhere == <<inbox, screen, latest, searches, worker, typed>>
MayChange == content + published < 2 + MaxIndexOps /\ (StartupChanges \/ screen.seen # Never)

ChangesIndex ==
  /\ MayChange /\ boundTo = published
  /\ content' = content + 1 /\ logStamp' = logStamp + 1 /\ notice' = TRUE /\ UNCHANGED <<published, boundTo, Elsewhere>>

PublishesCompaction ==
  /\ MayChange /\ boundTo = published
  /\ published' = published + 1 /\ notice' = TRUE /\ UNCHANGED <<content, logStamp, boundTo, Elsewhere>>

ResetsLog ==
  /\ boundTo # published
  /\ boundTo' = published /\ logStamp' = logStamp + 1 /\ notice' = TRUE /\ UNCHANGED <<content, published, Elsewhere>>

Notifies ==
  /\ notice /\ notice' = FALSE /\ inbox' = Append(inbox, [type |-> "changed"])
  /\ UNCHANGED <<content, logStamp, published, boundTo, screen, latest, searches, worker, typed>>
-----------------------------------------------------------------------------
(* The worker: the newest of the searches that are queued.                  *)
TakesSearch ==
  /\ worker.search = NoSearch /\ searches # <<>>
  /\ worker' = [worker EXCEPT !.search = Last(searches), !.statted = Never] /\ searches' = <<>>
  /\ UNCHANGED <<Index, inbox, screen, latest, typed>>

Answers(version) ==
  /\ inbox' = Append(inbox, [type |-> "done", id |-> worker.search.id, query |-> worker.search.query, version |-> version])
  /\ UNCHANGED <<Index, screen, latest, searches, typed>>

Gives(w) == [w EXCEPT !.search = NoSearch, !.statted = Never]

\* Superseded, or the base is not the one that was asked about.
Refuses ==
  /\ worker.search # NoSearch
  /\ IF worker.statted = Never THEN latest # worker.search.id \/ published # worker.search.base
     ELSE boundTo # worker.search.base /\ worker.statted # worker.logStamp
  /\ worker' = Gives([worker EXCEPT !.logStamp = Never]) /\ Answers(Never)

Stats ==
  /\ worker.search # NoSearch /\ worker.statted = Never
  /\ latest = worker.search.id /\ published = worker.search.base
  /\ worker' = [worker EXCEPT !.statted = logStamp, !.base = worker.search.base,
                              !.logStamp = IF worker.base = worker.search.base THEN @ ELSE Never]
  /\ UNCHANGED <<Index, inbox, screen, latest, searches, typed>>

\* The log is read again only when its logStamp is another one.
Finds ==
  /\ worker.search # NoSearch /\ worker.statted # Never
  /\ worker.statted = worker.logStamp \/ boundTo = worker.search.base
  /\ LET version == IF worker.statted = worker.logStamp THEN worker.version ELSE content
     IN worker' = Gives([worker EXCEPT !.logStamp = worker.statted, !.version = version]) /\ Answers(version)
-----------------------------------------------------------------------------
(* The interface.  Asking opens the base that is published.                 *)
Asked(s) == [s EXCEPT !.seq = @ + 1, !.searching = TRUE, !.base = published]
SearchJob(s) == Search(s.seq, s.query, s.base)

\* The answer to the newest search, if it has come; each search is answered once.
Answered(s) == {e \in ToSet(inbox) : e.type = "done" /\ e.id = s.seq}
Applied(s) ==
  IF Answered(s) = {} THEN {s}
  ELSE {[s EXCEPT !.searching = FALSE, !.shown = [query |-> e.query, version |-> e.version]] : e \in Answered(s)}

\* poll_delta
PollDue(s) == \E e \in ToSet(inbox) : e.type = "changed" \/ e.id = s.seq
LogMoved(s) == s.seen # Never /\ s.seen # logStamp

(* Mutant: a change that is noticed during a search is taken as seen.       *)
SeenAtOnce(s) == [s EXCEPT !.seen = logStamp]

\* Not during a search: its completion looks again.
SeenStamp(s) == IF LogMoved(s) /\ s.searching THEN s ELSE [s EXCEPT !.seen = logStamp]

AsksIndex(s, times) ==
  IF times = 0 THEN UNCHANGED <<latest, searches>>
  ELSE latest' = s.seq /\ searches' = Append(searches, SearchJob(s))

Frame ==
  \E applied \in Applied(screen) :
  LET replaced == applied.base # applied.shownBase
      anew == IF replaced THEN [Asked(applied) EXCEPT !.shownBase = published] ELSE applied
  IN /\ inbox' = <<>>
     /\ \E polls \in {TRUE} \cup IF PollDue(screen) THEN {} ELSE {FALSE} :
          LET again == polls /\ LogMoved(anew) /\ ~anew.searching
              polled == IF polls THEN SeenStamp(anew) ELSE anew
          IN /\ screen' = IF again THEN Asked(polled) ELSE polled
             /\ AsksIndex(screen', (IF replaced THEN 1 ELSE 0) + (IF again THEN 1 ELSE 0))
     /\ UNCHANGED <<Index, worker, typed>>

Types(q) ==
  /\ typed < MaxTyped /\ typed' = typed + 1 /\ q # screen.query
  /\ screen' = Asked([screen EXCEPT !.query = q]) /\ AsksIndex(screen', 1)
  /\ UNCHANGED <<Index, inbox, worker>>

LiveNext ==
  \/ ChangesIndex \/ PublishesCompaction \/ ResetsLog \/ Notifies
  \/ TakesSearch \/ Refuses \/ Stats \/ Finds
  \/ Frame
  \/ \E q \in Queries : Types(q)
LiveSpec == LiveInit /\ [][LiveNext]_liveVars
-----------------------------------------------------------------------------
\* When everything that was reported has been looked at and no search runs, what
\* is shown answers what was typed last, from the index as it is now: no change,
\* compaction or search that another overtook is missed.
SettledIsCurrent ==
  ~notice /\ inbox = <<>> /\ searches = <<>> /\ worker.search = NoSearch /\ boundTo = published
    => screen.shown = [query |-> screen.query, version |-> content]
=============================================================================
