------------------------- MODULE FileActions_proofs -------------------------
(***************************************************************************)
(* Undo takes back what was done: for every folder and any number of        *)
(* actions, failures, removals Trash lost track of, and undos.              *)
(*                                                                         *)
(* The argument: let Stack be what can be undone once all that is finished  *)
(* is known, and let every file be where it is now.  Undoing the entries of *)
(* Stack, the last first, takes each file home (StackRestores).  A worker   *)
(* step moves one file, or some to or from Trash, and its completion puts   *)
(* on Stack, or takes off it, the move that is its opposite.  That needs a  *)
(* file to be in one place (OnePlace), the tokens of the entries to be      *)
(* apart (TokensApart), and an undo to be the only job (UndoFirst), so that *)
(* what it takes back is still the last when it completes.                  *)
(***************************************************************************)
EXTENDS FileActions, SequenceTheorems, TLAPS

Spots == FileNames \cup {InTrash}
Content == FileNames \cup {NoName, Foreign}
TrashItems == [file : Content, origin : FileNames]

RenameActs == [do : {"rename"}, from : FileNames, to : FileNames]
TrashActs == [do : {"trash"}, names : Seq(FileNames)]
RestoreActs == [do : {"restore"}, tokens : Seq(Nat)]
ActionJobs == [action : RenameActs \cup TrashActs, undo : {FALSE}]
         \cup [action : RenameActs \cup RestoreActs, undo : {TRUE}]
Completions == [job : ActionJobs, ok : BOOLEAN, tokens : Seq(Nat)]
Entries == RenameActs \cup [do : {"trash"}, tokens : Seq(Nat)]

\* What can be undone once everything that is finished is known.
Stack == FoldLeft(Complete, undoable, completions)

ActionsTyped ==
  /\ tokens \in Nat /\ inProgress \in Nat
  /\ trashed \in Seq(TrashItems) /\ Len(trashed) = tokens
  /\ holds \in [FileNames -> Content]
  /\ jobs \in Seq(ActionJobs) /\ completions \in Seq(Completions)
  /\ undoable \in Seq(Entries) /\ Stack \in Seq(Entries)
  /\ dialog \in FileNames \cup {NoName}

\* A file of the user has one name, or is once in Trash.
OnePlace ==
  \A f \in Owned :
    /\ \A n, m \in FileNames : holds[n] = f /\ holds[m] = f => n = m
    /\ \A t, u \in 1 .. tokens : trashed[t].file = f /\ trashed[u].file = f => t = u
    /\ \A n \in FileNames, t \in 1 .. tokens : ~(holds[n] = f /\ trashed[t].file = f)

TokensOf(entry) == IF entry.do = "trash" THEN ToSet(entry.tokens) ELSE {}

\* Every token that can be undone was given out, and is in one entry.
TokensApart ==
  /\ \A i \in DOMAIN Stack : TokensOf(Stack[i]) \subseteq 1 .. tokens
  /\ \A i, j \in DOMAIN Stack : i # j => TokensOf(Stack[i]) \cap TokensOf(Stack[j]) = {}

\* An undo is asked for when nothing is under way, and takes back what is then the last.
UndoFirst ==
  /\ inProgress = Len(completions) + Len(jobs)
  /\ \A k \in DOMAIN completions : completions[k].job.undo =>
       k = 1 /\ undoable # <<>> /\ completions[k].job.action = TakesBack(Last(undoable))
  /\ \A k \in DOMAIN jobs : jobs[k].undo =>
       k = 1 /\ completions = <<>> /\ undoable # <<>> /\ jobs[k].action = TakesBack(Last(undoable))

Moves(f) == [k \in DOMAIN Stack |-> UndoneFor(f, Stack[k])]
StackRestores == \A f \in Owned \ untracked : FoldRight(Back, Moves(f), Place(f)) = f

UndoInv == ActionsTyped /\ OnePlace /\ TokensApart /\ UndoFirst /\ StackRestores
-----------------------------------------------------------------------------
C == INSTANCE FoldTheory WITH Op <- Complete
B == INSTANCE FoldTheory WITH Op <- Back
P == INSTANCE FoldTheory WITH Op <- PutInTrash
R == INSTANCE FoldTheory WITH Op <- TakeFromTrash

\* Where a file is, what undoing does to it and where everything undone takes it,
\* of given names, a given Trash and a given list of what can be undone.
PlaceIn(h, f) == IF \E n \in FileNames : h[n] = f THEN CHOOSE n \in FileNames : h[n] = f ELSE InTrash
UndoneIn(tr, f, entry) ==
  [p \in Spots |->
     IF entry.do = "rename" THEN IF p = entry.from THEN entry.to ELSE p
     ELSE LET held == {t \in ToSet(entry.tokens) : tr[t].file = f}
          IN IF held = {} THEN p ELSE tr[CHOOSE t \in held : TRUE].origin]
MovesIn(tr, stack, f) == [k \in DOMAIN stack |-> UndoneIn(tr, f, stack[k])]
BackFrom(tr, stack, f, p) == FoldRight(Back, MovesIn(tr, stack, f), p)

\* The folds of the model are those the theory of folds is about.
LEMMA FoldsAgree ==
  /\ \A base, seq : C!FoldLeft(Complete, base, seq) = FoldLeft(Complete, base, seq)
  /\ \A base, seq : P!FoldLeft(PutInTrash, base, seq) = FoldLeft(PutInTrash, base, seq)
  /\ \A base, seq : R!FoldLeft(TakeFromTrash, base, seq) = FoldLeft(TakeFromTrash, base, seq)
  /\ \A base, seq : B!FoldRight(Back, seq, base) = FoldRight(Back, seq, base)
<1>1. \A base, seq : C!FoldLeft(Complete, base, seq) = FoldLeft(Complete, base, seq)
  BY Zenon DEF FoldLeft, MapThenFoldSet, C!FoldLeft, C!MapThenFoldSet, Max, C!Max
<1>2. \A base, seq : P!FoldLeft(PutInTrash, base, seq) = FoldLeft(PutInTrash, base, seq)
  BY Zenon DEF FoldLeft, MapThenFoldSet, P!FoldLeft, P!MapThenFoldSet, Max, P!Max
<1>3. \A base, seq : R!FoldLeft(TakeFromTrash, base, seq) = FoldLeft(TakeFromTrash, base, seq)
  BY Zenon DEF FoldLeft, MapThenFoldSet, R!FoldLeft, R!MapThenFoldSet, Max, R!Max
<1>4. \A base, seq : B!FoldRight(Back, seq, base) = FoldRight(Back, seq, base)
  BY Zenon DEF FoldRight, MapThenFoldSet, B!FoldRight, B!MapThenFoldSet, Min, B!Min
<1> QED BY <1>1, <1>2, <1>3, <1>4

\* The list of what can be undone, one completion later.
LEMMA StackAppend ==
  ASSUME NEW base, NEW X, NEW seq \in Seq(X), NEW c
  PROVE  FoldLeft(Complete, base, Append(seq, c)) = Complete(FoldLeft(Complete, base, seq), c)
<1>1. C!FoldLeft(Complete, base, Append(seq, c)) = Complete(C!FoldLeft(Complete, base, seq), c)
  BY C!FoldLeftAppend, Zenon
<1> QED BY <1>1, FoldsAgree, Zenon

\* Without a completion nothing changes.
LEMMA StackEmpty == \A base : FoldLeft(Complete, base, <<>>) = base
BY FoldsAgree, C!FoldLeftEmpty, Zenon

\* What the last entry undoes is undone first.
LEMMA BackAppend ==
  ASSUME NEW X, NEW stack \in Seq(X), NEW e, NEW tr, NEW f, NEW p
  PROVE  BackFrom(tr, Append(stack, e), f, p) = BackFrom(tr, stack, f, UndoneIn(tr, f, e)[p])
<1> DEFINE moves == MovesIn(tr, stack, f)
           Y == {UndoneIn(tr, f, stack[k]) : k \in DOMAIN stack}
<1>1. moves \in Seq(Y) /\ Len(moves) = Len(stack) /\ Len(stack) \in Nat
  <2>1. moves = [k \in 1 .. Len(stack) |-> UndoneIn(tr, f, stack[k])] /\ Len(stack) \in Nat
    BY DEF MovesIn
  <2>2. \A k \in 1 .. Len(stack) : UndoneIn(tr, f, stack[k]) \in Y
    OBVIOUS
  <2> HIDE DEF moves, Y
  <2> QED BY <2>1, <2>2, IsASeq
<1>2. MovesIn(tr, Append(stack, e), f) = Append(moves, UndoneIn(tr, f, e))
  <2> DEFINE more == Append(stack, e)
  <2>1. /\ DOMAIN more = 1 .. Len(stack) + 1 /\ more[Len(stack) + 1] = e
        /\ \A k \in 1 .. Len(stack) : more[k] = stack[k]
    OBVIOUS
  <2> HIDE DEF more
  <2> DEFINE Z == Y \cup {UndoneIn(tr, f, e)}
             both == MovesIn(tr, more, f)
             then == Append(moves, UndoneIn(tr, f, e))
  <2>2. \A k \in 1 .. Len(stack) : moves[k] = UndoneIn(tr, f, stack[k])
    BY DEF MovesIn
  <2>3. \A k \in 1 .. Len(stack) + 1 : UndoneIn(tr, f, more[k]) \in Z
    BY <2>1
  <2>4. both = [k \in 1 .. Len(stack) + 1 |-> UndoneIn(tr, f, more[k])]
    BY <2>1 DEF MovesIn
  <2>5. both \in Seq(Z) /\ Len(both) = Len(stack) + 1
    <3> HIDE DEF both, Z, moves, Y
    <3>1. Len(stack) + 1 \in Nat
      BY <1>1
    <3>2. [k \in 1 .. Len(stack) + 1 |-> UndoneIn(tr, f, more[k])] \in Seq(Z)
      BY <3>1, <2>3, IsASeq
    <3> QED BY <3>1, <3>2, <2>4
  <2>6. then \in Seq(Z) /\ Len(then) = Len(stack) + 1 /\ then[Len(stack) + 1] = UndoneIn(tr, f, e)
        /\ \A k \in 1 .. Len(stack) : then[k] = moves[k]
    <3>1. moves \in Seq(Z) /\ UndoneIn(tr, f, e) \in Z
      <4> HIDE DEF moves, Y
      <4> QED BY <1>1
    <3> HIDE DEF moves, Y, Z
    <3> QED BY <3>1, <1>1
  <2>7. \A k \in 1 .. Len(stack) + 1 : both[k] = then[k]
    <3> HIDE DEF both, moves, then
    <3> QED BY SMTT(60), <1>1, <2>1, <2>2, <2>4, <2>6
  <2> HIDE DEF both, then, Z, moves, Y
  <2>8. both = then
    BY <2>5, <2>6, <2>7, SeqEqual
  <2> QED BY <2>8 DEF both, then, more
<1>3. FoldRight(Back, Append(moves, UndoneIn(tr, f, e)), p) = FoldRight(Back, moves, Back(UndoneIn(tr, f, e), p))
  <2> HIDE DEF moves, Y
  <2> QED BY ZenonT(60), <1>1, FoldsAgree, B!FoldRightAppend
<1> QED BY <1>2, <1>3, Zenon DEF BackFrom, Back

\* A list is its front and its last entry.
LEMMA FrontAndLast ==
  ASSUME NEW X, NEW s \in Seq(X), s # <<>>
  PROVE  /\ Front(s) \in Seq(X) /\ Len(Front(s)) = Len(s) - 1 /\ Len(s) \in Nat \ {0}
         /\ \A k \in 1 .. Len(s) - 1 : Front(s)[k] = s[k]
         /\ s = Append(Front(s), Last(s)) /\ Last(s) \in X /\ Last(s) = s[Len(s)]
<1>1. Len(s) \in Nat \ {0}
  OBVIOUS
<1>2. Front(s) = SubSeq(s, 1, Len(s) - 1) /\ Last(s) = s[Len(s)]
  BY DEF Front, Last
<1>3. /\ Front(s) \in Seq(X) /\ Len(Front(s)) = Len(s) - 1
      /\ \A k \in 1 .. Len(s) - 1 : Front(s)[k] = s[k]
  <2>1. \A i \in 1 .. Len(s) - 1 : s[i] \in X
    BY <1>1
  <2>2. Len(s) - 1 \in Nat
    BY <1>1
  <2> DEFINE u == SubSeq(s, 1, Len(s) - 1)
  <2>3. /\ u \in Seq(X)
        /\ Len(u) = IF 1 <= Len(s) - 1 THEN Len(s) - 1 - 1 + 1 ELSE 0
        /\ \A i \in 1 .. Len(s) - 1 - 1 + 1 : u[i] = s[1 + i - 1]
    BY SMTT(60), <2>1, <2>2, SubSeqProperties
  <2> HIDE DEF u
  <2>4. Len(u) = Len(s) - 1 /\ \A i \in 1 .. Len(s) - 1 : u[i] = s[i]
    <3>1. Len(s) - 1 - 1 + 1 = Len(s) - 1 /\ \A i \in 1 .. Len(s) - 1 : 1 + i - 1 = i
      BY <1>1
    <3>2. Len(u) = Len(s) - 1
      <4>1. \A n \in Nat \ {0} : (IF 1 <= n - 1 THEN n - 1 - 1 + 1 ELSE 0) = n - 1
        OBVIOUS
      <4> QED BY <4>1, <2>3, <1>1, Zenon
    <3> QED BY <3>1, <3>2, <2>3
  <2> QED BY <1>2, <2>3, <2>4, Zenon DEF u
<1>4. s = Append(Front(s), Last(s)) 
  <2> DEFINE t == Append(Front(s), Last(s))
  <2>1. t \in Seq(X) /\ Len(t) = Len(s)
    BY <1>1, <1>2, <1>3
  <2>2. \A k \in 1 .. Len(s) : t[k] = s[k]
    BY <1>1, <1>2, <1>3
  <2> HIDE DEF t
  <2>3. t = s
    BY <2>1, <2>2, SeqEqual
  <2> QED BY <2>3 DEF t
<1> QED BY <1>1, <1>2, <1>3, <1>4

\* What undoing does depends on Trash only for what the entry put there.
LEMMA SameUndone ==
  ASSUME NEW tr, NEW other, NEW f, NEW e,
         \A t \in TokensOf(e) : (tr[t].file = f <=> other[t].file = f) /\ tr[t].origin = other[t].origin,
         e.do \in {"rename", "trash"}
  PROVE  UndoneIn(tr, f, e) = UndoneIn(other, f, e)
<1>1. CASE e.do = "rename"
  BY <1>1 DEF UndoneIn
<1>2. CASE e.do = "trash"
  <2> DEFINE held == {t \in ToSet(e.tokens) : tr[t].file = f}
  <2>1. held = {t \in ToSet(e.tokens) : other[t].file = f}
    BY <1>2 DEF TokensOf
  <2>2. held # {} => (CHOOSE t \in held : TRUE) \in ToSet(e.tokens)
    OBVIOUS
  <2>3. held # {} => tr[CHOOSE t \in held : TRUE].origin = other[CHOOSE t \in held : TRUE].origin
    <3> HIDE DEF held
    <3> QED BY <1>2, <2>2 DEF TokensOf
  <2>4. \A p \in Spots : UndoneIn(tr, f, e)[p] = IF held = {} THEN p ELSE tr[CHOOSE t \in held : TRUE].origin
    BY <1>2 DEF UndoneIn
  <2>a. \A p \in Spots : UndoneIn(other, f, e)[p] =
          LET now == {t \in ToSet(e.tokens) : other[t].file = f}
          IN IF now = {} THEN p ELSE other[CHOOSE t \in now : TRUE].origin
    BY <1>2 DEF UndoneIn
  <2>5. \A p \in Spots : UndoneIn(other, f, e)[p] = IF held = {} THEN p ELSE other[CHOOSE t \in held : TRUE].origin
    <3> HIDE DEF held
    <3> QED BY <2>1, <2>a
  <2> HIDE DEF held
  <2>6. \A p \in Spots : UndoneIn(tr, f, e)[p] = UndoneIn(other, f, e)[p]
    BY <2>3, <2>4, <2>5
  <2> QED BY <2>6 DEF UndoneIn
<1> QED BY <1>1, <1>2

\* Undoing everything depends on Trash only for what the entries put there.
LEMMA SameBack ==
  ASSUME NEW tr, NEW other, NEW f, NEW stack \in Seq(Entries), NEW p,
         \A i \in DOMAIN stack : \A t \in TokensOf(stack[i]) :
           (tr[t].file = f <=> other[t].file = f) /\ tr[t].origin = other[t].origin
  PROVE  BackFrom(tr, stack, f, p) = BackFrom(other, stack, f, p)
<1>1. \A i \in DOMAIN stack : stack[i].do \in {"rename", "trash"}
  BY DEF Entries, RenameActs
<1>2. \A i \in DOMAIN stack : UndoneIn(tr, f, stack[i]) = UndoneIn(other, f, stack[i])
  BY <1>1, SameUndone
<1>3. MovesIn(tr, stack, f) = MovesIn(other, stack, f)
  BY <1>2, Zenon DEF MovesIn
<1> QED BY <1>3 DEF BackFrom

\* The place of a file with one name, or with none.
LEMMA PlaceIs ==
  ASSUME NEW h, NEW f, \A n, m \in FileNames : h[n] = f /\ h[m] = f => n = m
  PROVE  /\ \A n \in FileNames : h[n] = f => PlaceIn(h, f) = n
         /\ (\A n \in FileNames : h[n] # f) => PlaceIn(h, f) = InTrash
BY DEF PlaceIn

\* That everything goes back, said of given names, Trash and list.
LEMMA StackRestoresIs ==
  StackRestores <=> \A f \in Owned \ untracked : BackFrom(trashed, Stack, f, PlaceIn(holds, f)) = f
BY Zenon DEF StackRestores, BackFrom, Moves, MovesIn, UndoneFor, UndoneIn, Place, PlaceIn, Spots
-----------------------------------------------------------------------------
Batches == [holds : [FileNames -> Content], trashed : Seq(TrashItems), tokens : Seq(Nat)]

\* What trashing some names one after the other leads to: the files of some names
\* have moved to Trash, each to a token of its own.
TrashedFrom(h, tr) ==
  {s \in Batches :
     LET new == Len(tr) + 1 .. Len(s.trashed)
     IN /\ Len(tr) <= Len(s.trashed)
        /\ \A t \in 1 .. Len(tr) : s.trashed[t] = tr[t]
        /\ ToSet(s.tokens) = new
        /\ \A n \in FileNames : s.holds[n] # h[n] =>
             s.holds[n] = NoName /\ \E t \in new : s.trashed[t].origin = n
        /\ \A t \in new : /\ s.trashed[t].file = h[s.trashed[t].origin]
                          /\ s.trashed[t].file # NoName
                          /\ s.holds[s.trashed[t].origin] = NoName
        /\ \A t, u \in new : s.trashed[t].origin = s.trashed[u].origin => t = u}

\* What restoring leads to: every token is kept or its file is back under its own
\* name, which was free.
RestoredFrom(h, tr, toks, k) ==
  {s \in Batches :
     /\ Len(s.trashed) = Len(tr)
     /\ \A t \in 1 .. Len(tr) : s.trashed[t].origin = tr[t].origin
     /\ ToSet(s.tokens) \subseteq ToSet(toks)
     /\ \A t \in 1 .. Len(tr) : s.trashed[t].file # tr[t].file =>
          t \in ToSet(toks) /\ s.trashed[t].file = NoName /\ s.holds[tr[t].origin] = tr[t].file
     /\ \A n \in FileNames : s.holds[n] # h[n] =>
          h[n] = NoName /\ \E t \in 1 .. Len(tr) :
            tr[t].origin = n /\ tr[t].file = s.holds[n] /\ s.trashed[t].file = NoName /\ tr[t].file # NoName
     /\ \A i \in 1 .. k : toks[i] \in ToSet(s.tokens) \/ s.trashed[toks[i]].file = NoName}

\* What a longer list holds.
LEMMA ToSetAppend ==
  ASSUME NEW X, NEW s \in Seq(X), NEW e
  PROVE  ToSet(Append(s, e)) = ToSet(s) \cup {e}
<1>1. /\ DOMAIN Append(s, e) = 1 .. Len(s) + 1 /\ DOMAIN s = 1 .. Len(s)
      /\ Append(s, e)[Len(s) + 1] = e /\ Len(s) \in Nat
      /\ \A k \in 1 .. Len(s) : Append(s, e)[k] = s[k]
  OBVIOUS
<1>2. 1 .. Len(s) + 1 = (1 .. Len(s)) \cup {Len(s) + 1}
  BY <1>1
<1> DEFINE more == Append(s, e)
<1> HIDE DEF more
<1> QED BY <1>1, <1>2 DEF ToSet, more

\* One name put in Trash: its file is there, under the next token.
LEMMA PutOne ==
  ASSUME NEW h \in [FileNames -> Content], NEW tr \in Seq(TrashItems),
         NEW s \in TrashedFrom(h, tr), NEW n \in FileNames
  PROVE  PutInTrash(s, n) \in TrashedFrom(h, tr)
<1>1. CASE s.holds[n] = NoName
  BY <1>1 DEF PutInTrash
<1>2. CASE s.holds[n] # NoName
  <2> DEFINE item == [file |-> s.holds[n], origin |-> n]
             r == PutInTrash(s, n)
             top == Len(s.trashed) + 1
  <2>0. s \in Batches
    BY DEF TrashedFrom
  <2>1. /\ r.holds = [s.holds EXCEPT ![n] = NoName]
        /\ r.trashed = Append(s.trashed, item)
        /\ r.tokens = Append(s.tokens, top)
        /\ r = [holds |-> r.holds, trashed |-> r.trashed, tokens |-> r.tokens]
    BY <1>2, <2>0 DEF PutInTrash, Batches
  <2>2. item \in TrashItems /\ item.file = s.holds[n] /\ item.origin = n
    BY <2>0 DEF Batches, TrashItems, Content
  <2>3. /\ s.trashed \in Seq(TrashItems) /\ Len(s.trashed) \in Nat /\ top \in Nat
        /\ s.tokens \in Seq(Nat) /\ s.holds \in [FileNames -> Content] /\ Len(tr) \in Nat
    BY <2>0 DEF Batches
  <2> HIDE DEF item, r
  <2>4. /\ r.trashed \in Seq(TrashItems) /\ Len(r.trashed) = top /\ r.trashed[top] = item
        /\ \A t \in 1 .. Len(s.trashed) : r.trashed[t] = s.trashed[t]
    BY <2>1, <2>2, <2>3
  <2>5. r.tokens \in Seq(Nat) /\ ToSet(r.tokens) = ToSet(s.tokens) \cup {top}
    BY <2>1, <2>3, ToSetAppend
  <2>6. /\ r.holds \in [FileNames -> Content] /\ r.holds[n] = NoName
        /\ \A m \in FileNames : m # n => r.holds[m] = s.holds[m]
    BY <2>1, <2>3 DEF Content
  <2>7. r \in Batches
    BY <2>1, <2>4, <2>5, <2>6 DEF Batches
  <2> DEFINE new == Len(tr) + 1 .. Len(s.trashed)
             now == Len(tr) + 1 .. Len(r.trashed)
  <2>8. /\ Len(tr) <= Len(s.trashed)
        /\ \A t \in 1 .. Len(tr) : s.trashed[t] = tr[t]
        /\ ToSet(s.tokens) = new
        /\ \A m \in FileNames : s.holds[m] # h[m] =>
             s.holds[m] = NoName /\ \E t \in new : s.trashed[t].origin = m
        /\ \A t \in new : /\ s.trashed[t].file = h[s.trashed[t].origin]
                          /\ s.trashed[t].file # NoName
                          /\ s.holds[s.trashed[t].origin] = NoName
        /\ \A t, u \in new : s.trashed[t].origin = s.trashed[u].origin => t = u
    BY DEF TrashedFrom
  <2>9. /\ now = new \cup {top} /\ new \subseteq 1 .. Len(s.trashed) /\ top \in now
        /\ 1 .. Len(tr) \subseteq 1 .. Len(s.trashed) /\ top \notin new
    BY <2>3, <2>4, <2>8
  <2>10. \A t \in new : r.trashed[t] = s.trashed[t]
    BY <2>4, <2>9
  <2>10a. \A t \in new : s.trashed[t].origin \in FileNames /\ s.trashed[t].origin # n
    <3>1. \A t \in 1 .. Len(s.trashed) : s.trashed[t] \in TrashItems
      BY <2>3
    <3>2. \A t \in new : s.trashed[t].origin \in FileNames
      <4> HIDE DEF new
      <4> QED BY <3>1, <2>9 DEF TrashItems
    <3>3. \A t \in new : s.trashed[t].origin # n
      <4> HIDE DEF new
      <4> QED BY <1>2, <2>8
    <3> QED BY <3>2, <3>3
  <2>10b. s.holds[n] = h[n]
    BY <1>2, <2>8
  <2> HIDE DEF new, now, top
  <2>11. Len(tr) <= Len(r.trashed) /\ \A t \in 1 .. Len(tr) : r.trashed[t] = tr[t]
    BY <2>3, <2>4, <2>8, <2>9 DEF top
  <2>12. ToSet(r.tokens) = now
    BY <2>5, <2>8, <2>9
  <2>13. ASSUME NEW m \in FileNames, r.holds[m] # h[m]
         PROVE  r.holds[m] = NoName /\ \E t \in now : r.trashed[t].origin = m
    <3>1. CASE m = n
      BY <3>1, <2>2, <2>4, <2>6, <2>9
    <3>2. CASE m # n
      <4>1. s.holds[m] = NoName /\ \E t \in new : s.trashed[t].origin = m
        BY <2>13, <3>2, <2>6, <2>8
      <4> QED BY <4>1, <3>2, <2>6, <2>9, <2>10
    <3> QED BY <3>1, <3>2
  <2>14. \A t \in now : /\ r.trashed[t].file = h[r.trashed[t].origin]
                        /\ r.trashed[t].file # NoName
                        /\ r.holds[r.trashed[t].origin] = NoName
    BY SMTT(60), <1>2, <2>2, <2>4, <2>6, <2>8, <2>9, <2>10, <2>10a, <2>10b
  <2>15. \A t, u \in now : r.trashed[t].origin = r.trashed[u].origin => t = u
    BY SMTT(60), <2>2, <2>4, <2>8, <2>9, <2>10, <2>10a
  <2> QED BY <2>7, <2>11, <2>12, <2>13, <2>14, <2>15 DEF TrashedFrom, r, now
<1> QED BY <1>1, <1>2

\* Names put in Trash, one after the other: each file is under one of the new tokens.
LEMMA PutInTrashDoes ==
  ASSUME NEW h \in [FileNames -> Content], NEW tr \in Seq(TrashItems), NEW names \in Seq(FileNames)
  PROVE  FoldLeft(PutInTrash, [holds |-> h, trashed |-> tr, tokens |-> <<>>], names) \in TrashedFrom(h, tr)
<1> DEFINE base == [holds |-> h, trashed |-> tr, tokens |-> <<>>]
           n == Len(names)
           S == TrashedFrom(h, tr)
<1>1. n \in Nat /\ DOMAIN names = 1 .. n /\ \A k \in 1 .. n : names[k] \in FileNames
  OBVIOUS
<1>2. base \in S
  <2>1. base \in Batches /\ Len(tr) \in Nat /\ Len(tr) + 1 .. Len(tr) = {} /\ ToSet(<<>>) = {}
    BY DEF Batches, ToSet
  <2>2. base.holds = h /\ base.trashed = tr /\ base.tokens = <<>>
    OBVIOUS
  <2>3. Len(tr) <= Len(tr)
    BY <2>1
  <2> HIDE DEF base
  <2> QED BY <2>1, <2>2, <2>3 DEF TrashedFrom
<1>3. \A k \in 1 .. n : \A a \in S : PutInTrash(a, names[k]) \in S
  BY <1>1, PutOne
<1> HIDE DEF base, n, S
<1>4. P!FoldLeft(PutInTrash, base, names) \in S
  BY <1>1, <1>2, <1>3, P!FoldLeftPreserves, Zenon
<1> QED BY <1>4, FoldsAgree, Zenon DEF base, S

\* One token taken from Trash: its file is where it came from, if that is free.
LEMMA TakeOne ==
  ASSUME NEW h \in [FileNames -> Content], NEW tr \in Seq(TrashItems), NEW toks \in Seq(Nat),
         ToSet(toks) \subseteq 1 .. Len(tr), NEW k \in 1 .. Len(toks),
         NEW s \in RestoredFrom(h, tr, toks, k - 1)
  PROVE  TakeFromTrash(s, toks[k]) \in RestoredFrom(h, tr, toks, k)
<1> DEFINE t == toks[k]
           r == TakeFromTrash(s, t)
           n == tr[t].origin
           length == Len(tr)
           kept == ToSet(toks)
<1>1. t \in 1 .. length /\ t \in kept /\ t \in Nat /\ Len(toks) \in Nat
  BY DEF ToSet
<1>2. s \in Batches
  BY DEF RestoredFrom
<1>3. /\ s.trashed \in Seq(TrashItems) /\ s.tokens \in Seq(Nat) /\ s.holds \in [FileNames -> Content]
      /\ s = [holds |-> s.holds, trashed |-> s.trashed, tokens |-> s.tokens]
  BY <1>2 DEF Batches
<1>4. /\ Len(s.trashed) = length
      /\ \A u \in 1 .. length : s.trashed[u].origin = tr[u].origin
      /\ ToSet(s.tokens) \subseteq kept
      /\ \A u \in 1 .. length : s.trashed[u].file # tr[u].file =>
           u \in kept /\ s.trashed[u].file = NoName /\ s.holds[tr[u].origin] = tr[u].file
      /\ \A m \in FileNames : s.holds[m] # h[m] =>
           h[m] = NoName /\ \E u \in 1 .. length :
             tr[u].origin = m /\ tr[u].file = s.holds[m] /\ s.trashed[u].file = NoName /\ tr[u].file # NoName
      /\ \A i \in 1 .. k - 1 : toks[i] \in ToSet(s.tokens) \/ s.trashed[toks[i]].file = NoName
  BY DEF RestoredFrom
<1>5. \A u \in 1 .. length : s.trashed[u] \in TrashItems /\ tr[u].origin \in FileNames
  <2>1. \A u \in 1 .. length : s.trashed[u] \in TrashItems
    BY <1>3, <1>4
  <2>2. \A u \in 1 .. length : s.trashed[u].origin = tr[u].origin
    BY <1>4
  <2> HIDE DEF length
  <2> QED BY <2>1, <2>2 DEF TrashItems
<1>6. n \in FileNames /\ s.trashed[t].origin = n
  BY <1>1, <1>4, <1>5
<1>7. \A i \in 1 .. k : i \in 1 .. k - 1 \/ i = k
  BY <1>1
<1>8. CASE s.trashed[t].file = NoName \/ s.holds[n] # NoName
  <2>1. r = [holds |-> s.holds, trashed |-> s.trashed, tokens |-> Append(s.tokens, t)]
    BY <1>3, <1>6, <1>8 DEF TakeFromTrash
  <2>2. /\ r.holds = s.holds /\ r.trashed = s.trashed /\ r.tokens = Append(s.tokens, t)
        /\ Append(s.tokens, t) \in Seq(Nat)
    BY <1>1, <1>3, <2>1
  <2>3. r \in Batches
    BY <1>3, <2>1, <2>2 DEF Batches
  <2>4. ToSet(r.tokens) = ToSet(s.tokens) \cup {t}
    BY <1>3, <2>2, ToSetAppend
  <2> HIDE DEF t, r, n, length, kept
  <2>5. \A i \in 1 .. k : toks[i] \in ToSet(r.tokens) \/ r.trashed[toks[i]].file = NoName
    BY <1>4, <1>7, <2>2, <2>4 DEF t
  <2>6. ToSet(r.tokens) \subseteq kept
    BY <1>1, <1>4, <2>4
  <2>7. r \in RestoredFrom(h, tr, toks, k)
    <3>1. /\ Len(r.trashed) = length
          /\ \A u \in 1 .. length : r.trashed[u].origin = tr[u].origin
          /\ \A u \in 1 .. length : r.trashed[u].file # tr[u].file =>
               u \in kept /\ r.trashed[u].file = NoName /\ r.holds[tr[u].origin] = tr[u].file
      BY SMTT(60), <1>4, <2>2
    <3>2. ASSUME NEW m \in FileNames, r.holds[m] # h[m]
          PROVE  h[m] = NoName /\ \E u \in 1 .. length :
              tr[u].origin = m /\ tr[u].file = r.holds[m] /\ r.trashed[u].file = NoName /\ tr[u].file # NoName
      <4>1. r.holds = s.holds /\ r.trashed = s.trashed
        BY <2>2
      <4>2. s.holds[m] # h[m]
        BY <3>2, <4>1
      <4>3. h[m] = NoName
        BY <1>4, <4>2
      <4>4. PICK u \in 1 .. length :
              tr[u].origin = m /\ tr[u].file = s.holds[m] /\ s.trashed[u].file = NoName /\ tr[u].file # NoName
        BY <1>4, <4>2
      <4>5. tr[u].origin = m /\ tr[u].file = r.holds[m] /\ r.trashed[u].file = NoName /\ tr[u].file # NoName
        BY <4>1, <4>4
      <4> QED BY <4>3, <4>5
    <3> QED BY <3>1, <3>2, <2>3, <2>5, <2>6, Zenon DEF RestoredFrom, length, kept
  <2> QED BY <2>7 DEF r, t
<1>9. CASE s.trashed[t].file # NoName /\ s.holds[n] = NoName
  <2> DEFINE item == [file |-> NoName, origin |-> n]
             file == s.trashed[t].file
  <2>1. /\ r.holds = [s.holds EXCEPT ![n] = file]
        /\ r.trashed = [s.trashed EXCEPT ![t].file = NoName]
        /\ r.tokens = s.tokens
        /\ r = [holds |-> r.holds, trashed |-> r.trashed, tokens |-> r.tokens]
    BY <1>3, <1>6, <1>9 DEF TakeFromTrash
  <2>2. s.trashed[t] = [file |-> file, origin |-> n] /\ file \in Content
    BY <1>1, <1>5, <1>6 DEF TrashItems
  <2>3. r.trashed = [s.trashed EXCEPT ![t] = item]
    <3>1. [s.trashed EXCEPT ![t].file = NoName] = [s.trashed EXCEPT ![t] = [s.trashed[t] EXCEPT !.file = NoName]]
      OBVIOUS
    <3>2. [s.trashed[t] EXCEPT !.file = NoName] = item
      BY SMTT(60), <2>2
    <3> QED BY <2>1, <3>1, <3>2
  <2>4. item \in TrashItems /\ item.file = NoName /\ item.origin = n
    BY <1>6 DEF TrashItems, Content
  <2> HIDE DEF item, r, file, n
  <2>5. /\ r.trashed \in Seq(TrashItems) /\ Len(r.trashed) = length /\ r.trashed[t] = item
        /\ \A u \in 1 .. length : u # t => r.trashed[u] = s.trashed[u]
    BY <1>1, <1>3, <1>4, <2>3, <2>4
  <2>6. /\ r.holds \in [FileNames -> Content] /\ r.holds[n] = file
        /\ \A m \in FileNames : m # n => r.holds[m] = s.holds[m]
    BY <1>3, <1>6, <2>1, <2>2
  <2>7. r \in Batches
    BY <1>3, <2>1, <2>5, <2>6 DEF Batches
  <2> HIDE DEF t, length, kept
  <2>8. file = tr[t].file /\ file # NoName
    BY <1>1, <1>4, <1>9 DEF file
  <2>9. \A u \in 1 .. length : r.trashed[u].origin = tr[u].origin
    <3>1. r.trashed[t].origin = tr[t].origin
      BY <2>4, <2>5 DEF n
    <3>2. \A u \in 1 .. length : u # t => r.trashed[u].origin = s.trashed[u].origin
      BY <2>5
    <3>3. \A u \in 1 .. length : s.trashed[u].origin = tr[u].origin
      BY <1>4 DEF length
    <3> QED BY <3>1, <3>2, <3>3
  <2>10. ASSUME NEW u \in 1 .. length, r.trashed[u].file # tr[u].file
         PROVE  u \in kept /\ r.trashed[u].file = NoName /\ r.holds[tr[u].origin] = tr[u].file
    <3>1. CASE u = t
      BY <3>1, <1>1, <2>4, <2>5, <2>6, <2>8 DEF n
    <3>2. CASE u # t
      <4>1. u \in kept /\ s.trashed[u].file = NoName /\ s.holds[tr[u].origin] = tr[u].file
            /\ tr[u].file # NoName
        BY SMTT(60), <2>10, <3>2, <1>4, <2>5
      <4>2. tr[u].origin # n /\ tr[u].origin \in FileNames
        BY <4>1, <1>5, <1>9
      <4> QED BY <4>1, <4>2, <3>2, <2>5, <2>6
    <3> QED BY <3>1, <3>2
  <2>11. ASSUME NEW m \in FileNames, r.holds[m] # h[m]
         PROVE  h[m] = NoName /\ \E u \in 1 .. length :
                  tr[u].origin = m /\ tr[u].file = r.holds[m] /\ r.trashed[u].file = NoName /\ tr[u].file # NoName
    <3>1. CASE m = n
      <4>1. h[m] = NoName
        BY <3>1, <1>4, <1>9
      <4> QED BY <4>1, <3>1, <1>1, <2>4, <2>5, <2>6, <2>8 DEF n
    <3>2. CASE m # n
      <4>1. s.holds[m] # h[m] /\ r.holds[m] = s.holds[m]
        BY <2>11, <3>2, <2>6
      <4>2. PICK u \in 1 .. length :
              tr[u].origin = m /\ tr[u].file = s.holds[m] /\ s.trashed[u].file = NoName /\ tr[u].file # NoName
        BY <4>1, <1>4
      <4>3. h[m] = NoName
        BY <4>1, <1>4
      <4>4. u # t
        BY <4>2, <1>9
      <4> QED BY <4>1, <4>2, <4>3, <4>4, <2>5
    <3> QED BY <3>1, <3>2
  <2>12. \A i \in 1 .. k : toks[i] \in ToSet(r.tokens) \/ r.trashed[toks[i]].file = NoName
    <3>1. \A i \in 1 .. k - 1 : toks[i] \in 1 .. length
      BY DEF ToSet, length
    <3> QED BY SMTT(60), <3>1, <1>4, <1>7, <2>1, <2>4, <2>5 DEF t
  <2>13. ToSet(r.tokens) \subseteq kept
    BY <1>4, <2>1
  <2> QED BY <2>5, <2>7, <2>9, <2>10, <2>11, <2>12, <2>13 DEF RestoredFrom, r, t, length, kept
<1> QED BY <1>8, <1>9

\* Tokens taken from Trash, one after the other: the files of the others stay.
LEMMA TakeFromTrashDoes ==
  ASSUME NEW h \in [FileNames -> Content], NEW tr \in Seq(TrashItems), NEW toks \in Seq(Nat),
         ToSet(toks) \subseteq 1 .. Len(tr)
  PROVE  FoldLeft(TakeFromTrash, [holds |-> h, trashed |-> tr, tokens |-> <<>>], toks)
           \in RestoredFrom(h, tr, toks, Len(toks))
<1> DEFINE base == [holds |-> h, trashed |-> tr, tokens |-> <<>>]
           n == Len(toks)
           S == [k \in 0 .. n |-> RestoredFrom(h, tr, toks, k)]
<1>1. n \in Nat /\ DOMAIN toks = 1 .. n
  OBVIOUS
<1>2. base \in S[0]
  <2>1. base \in Batches /\ ToSet(<<>>) = {}
    BY DEF Batches, ToSet
  <2>2. base \in RestoredFrom(h, tr, toks, 0)
    BY <2>1 DEF RestoredFrom
  <2> QED BY <2>2, <1>1
<1>3. \A k \in 1 .. n : S[k - 1] = RestoredFrom(h, tr, toks, k - 1) /\ S[k] = RestoredFrom(h, tr, toks, k)
  BY <1>1
<1>4. \A k \in 1 .. n : \A a \in S[k - 1] : TakeFromTrash(a, toks[k]) \in S[k]
  <2> HIDE DEF S
  <2> SUFFICES ASSUME NEW k \in 1 .. n, NEW a \in S[k - 1] PROVE TakeFromTrash(a, toks[k]) \in S[k]
    OBVIOUS
  <2>1. a \in RestoredFrom(h, tr, toks, k - 1)
    BY <1>3
  <2>2. TakeFromTrash(a, toks[k]) \in RestoredFrom(h, tr, toks, k)
    BY <2>1, TakeOne
  <2> QED BY <1>3, <2>2
<1>5. S[n] = RestoredFrom(h, tr, toks, n)
  BY <1>1
<1> HIDE DEF base, n, S
<1>6. R!FoldLeft(TakeFromTrash, base, toks) \in S[n]
  BY <1>1, <1>2, <1>4, R!FoldLeftInvariant, Zenon
<1> QED BY <1>5, <1>6, FoldsAgree, Zenon DEF base, n
-----------------------------------------------------------------------------
OneIn(h, tr) ==
  \A f \in Owned :
    /\ \A n, m \in FileNames : h[n] = f /\ h[m] = f => n = m
    /\ \A t, u \in 1 .. Len(tr) : tr[t].file = f /\ tr[u].file = f => t = u
    /\ \A n \in FileNames, t \in 1 .. Len(tr) : ~(h[n] = f /\ tr[t].file = f)
ApartIn(tr, stack) ==
  /\ \A i \in DOMAIN stack : TokensOf(stack[i]) \subseteq 1 .. Len(tr)
  /\ \A i, j \in DOMAIN stack : i # j => TokensOf(stack[i]) \cap TokensOf(stack[j]) = {}
RestoresIn(h, tr, lost, stack) == \A f \in Owned \ lost : BackFrom(tr, stack, f, PlaceIn(h, f)) = f
Renamed(h, from, to) == [h EXCEPT ![to] = h[from], ![from] = NoName]
RenameEntry(from, to) == [do |-> "rename", from |-> from, to |-> to]
TrashEntry(toks) == [do |-> "trash", tokens |-> toks]

\* What a name can hold.
LEMMA FileKinds ==
  /\ \A f \in Owned : f \in FileNames /\ f # NoName /\ f # Foreign
  /\ InTrash \notin FileNames /\ NoName # Foreign /\ NoName \notin FileNames /\ Foreign \notin FileNames
  /\ \A f \in FileNames : f # NoName /\ f # InTrash
BY ActionsAssumption DEF NoName, Foreign, InTrash

\* An entry is a rename, or what was put in Trash.
LEMMA EntryKinds ==
  /\ \A from, to \in FileNames : RenameEntry(from, to) \in Entries /\ TokensOf(RenameEntry(from, to)) = {}
  /\ \A toks \in Seq(Nat) : TrashEntry(toks) \in Entries /\ TokensOf(TrashEntry(toks)) = ToSet(toks)
BY DEF RenameEntry, TrashEntry, Entries, RenameActs, TokensOf

\* A file is under a name or in Trash.
LEMMA PlaceTyped ==
  ASSUME NEW h, NEW f PROVE PlaceIn(h, f) \in Spots
BY DEF PlaceIn, Spots

\* Undoing a rename moves what is under the later name.
LEMMA UndoneRename ==
  ASSUME NEW tr, NEW f, NEW from, NEW to, NEW p \in Spots
  PROVE  UndoneIn(tr, f, RenameEntry(from, to))[p] = IF p = from THEN to ELSE p
BY DEF UndoneIn, RenameEntry

\* Undoing a removal moves the files of its tokens.
LEMMA UndoneTrash ==
  ASSUME NEW tr, NEW f, NEW toks, NEW p \in Spots
  PROVE  /\ (\A t \in ToSet(toks) : tr[t].file # f) => UndoneIn(tr, f, TrashEntry(toks))[p] = p
         /\ \A t \in ToSet(toks) :
              tr[t].file = f /\ (\A u \in ToSet(toks) : tr[u].file = f => u = t)
                => UndoneIn(tr, f, TrashEntry(toks))[p] = tr[t].origin
<1>1. UndoneIn(tr, f, TrashEntry(toks))[p] =
        LET held == {t \in ToSet(toks) : tr[t].file = f}
        IN IF held = {} THEN p ELSE tr[CHOOSE t \in held : TRUE].origin
  BY DEF UndoneIn, TrashEntry
<1>2. ASSUME NEW t \in ToSet(toks), tr[t].file = f, \A u \in ToSet(toks) : tr[u].file = f => u = t
      PROVE  UndoneIn(tr, f, TrashEntry(toks))[p] = tr[t].origin
  <2>1. {u \in ToSet(toks) : tr[u].file = f} = {t}
    BY <1>2
  <2>2. (CHOOSE u \in {t} : TRUE) = t
    OBVIOUS
  <2> QED BY <1>1, <2>1, <2>2, Zenon
<1> QED BY <1>1, <1>2

\* One entry more, apart from the others.
LEMMA ApartAppend ==
  ASSUME NEW tr, NEW stack \in Seq(Entries), ApartIn(tr, stack), NEW e,
         TokensOf(e) \subseteq 1 .. Len(tr),
         \A i \in DOMAIN stack : TokensOf(stack[i]) \cap TokensOf(e) = {}
  PROVE  ApartIn(tr, Append(stack, e))
<1> DEFINE more == Append(stack, e)
           n == Len(stack)
<1>1. /\ n \in Nat /\ DOMAIN stack = 1 .. n /\ DOMAIN more = 1 .. n + 1
      /\ more[n + 1] = e /\ \A i \in 1 .. n : more[i] = stack[i]
  OBVIOUS
<1>2. \A i \in 1 .. n + 1 : i \in 1 .. n \/ i = n + 1
  BY <1>1
<1> HIDE DEF more, n
<1> QED BY <1>1, <1>2 DEF ApartIn, more

\* Without the last entry the others are still apart.
LEMMA ApartFront ==
  ASSUME NEW tr, NEW stack \in Seq(Entries), ApartIn(tr, stack), stack # <<>>
  PROVE  /\ ApartIn(tr, Front(stack))
         /\ TokensOf(Last(stack)) \subseteq 1 .. Len(tr)
         /\ \A i \in DOMAIN Front(stack) : TokensOf(Front(stack)[i]) \cap TokensOf(Last(stack)) = {}
<1> DEFINE less == Front(stack)
           n == Len(stack)
<1>1. /\ n \in Nat \ {0} /\ DOMAIN stack = 1 .. n /\ DOMAIN less = 1 .. n - 1
      /\ Last(stack) = stack[n] /\ \A i \in 1 .. n - 1 : less[i] = stack[i]
  BY FrontAndLast
<1> HIDE DEF less, n
<1>2. \A i \in 1 .. n - 1 : i \in 1 .. n /\ i # n
  BY <1>1
<1>3. n \in 1 .. n
  BY <1>1
<1> QED BY <1>1, <1>2, <1>3 DEF ApartIn, less

MayRename(h, tr, from, to) ==
  /\ h \in [FileNames -> Content] /\ tr \in Seq(TrashItems) /\ OneIn(h, tr)
  /\ from \in FileNames /\ to \in FileNames /\ h[from] # NoName /\ h[to] = NoName

\* A name changed moves the file that had it and no other.
LEMMA RenameMoves ==
  ASSUME NEW h, NEW tr, NEW from, NEW to, MayRename(h, tr, from, to)
  PROVE  /\ Renamed(h, from, to) \in [FileNames -> Content] /\ OneIn(Renamed(h, from, to), tr)
         /\ \A f \in Owned : /\ PlaceIn(h, f) # to
                             /\ PlaceIn(Renamed(h, from, to), f) = IF PlaceIn(h, f) = from THEN to ELSE PlaceIn(h, f)
<1> USE DEF MayRename
<1> DEFINE now == Renamed(h, from, to)
<1>1. /\ now \in [FileNames -> Content] /\ from # to
      /\ now[to] = h[from] /\ now[from] = NoName
      /\ \A n \in FileNames : n # from /\ n # to => now[n] = h[n]
  BY DEF Content, Renamed
<1> HIDE DEF now
<1>2. ASSUME NEW f \in Owned
      PROVE  /\ \A n \in FileNames : now[n] = f <=> IF n = to THEN h[from] = f ELSE n # from /\ h[n] = f
             /\ f # NoName
  BY <1>1, FileKinds
<1>3. OneIn(now, tr)
  <2> SUFFICES ASSUME NEW f \in Owned
               PROVE  /\ \A n, m \in FileNames : now[n] = f /\ now[m] = f => n = m
                      /\ \A n \in FileNames, t \in 1 .. Len(tr) : ~(now[n] = f /\ tr[t].file = f)
    BY DEF OneIn
  <2> QED BY <1>2 DEF OneIn
<1>4. ASSUME NEW f \in Owned
      PROVE  /\ PlaceIn(h, f) # to
             /\ PlaceIn(now, f) = IF PlaceIn(h, f) = from THEN to ELSE PlaceIn(h, f)
  <2>1. /\ \A n, m \in FileNames : h[n] = f /\ h[m] = f => n = m
        /\ \A n, m \in FileNames : now[n] = f /\ now[m] = f => n = m
    BY <1>3 DEF OneIn
  <2>1a. /\ \A n \in FileNames : h[n] = f => PlaceIn(h, f) = n
         /\ (\A n \in FileNames : h[n] # f) => PlaceIn(h, f) = InTrash
    BY <2>1, PlaceIs, Zenon
  <2>1b. /\ \A n \in FileNames : now[n] = f => PlaceIn(now, f) = n
         /\ (\A n \in FileNames : now[n] # f) => PlaceIn(now, f) = InTrash
    BY <2>1, PlaceIs, Zenon
  <2>2. CASE \E n \in FileNames : h[n] = f
    <3>1. PICK n \in FileNames : h[n] = f
      BY <2>2
    <3>2. PlaceIn(h, f) = n /\ n # to
      BY <3>1, <2>1a, <1>2
    <3>3. CASE n = from
      <4>1. now[to] = f
        BY <3>1, <3>3, <1>1
      <4>2. PlaceIn(now, f) = to
        BY <4>1, <2>1a, <2>1b
      <4> QED BY <4>2, <3>2, <3>3
    <3>4. CASE n # from
      <4>1. now[n] = f
        BY <3>1, <3>2, <3>4, <1>1
      <4>2. PlaceIn(now, f) = n
        BY <4>1, <2>1a, <2>1b
      <4> QED BY <4>2, <3>2, <3>4
    <3> QED BY <3>3, <3>4
  <2>3. CASE ~\E n \in FileNames : h[n] = f
    <3>1. \A n \in FileNames : now[n] # f
      BY <2>3, <1>2
    <3>2. PlaceIn(h, f) = InTrash /\ PlaceIn(now, f) = InTrash
      BY <2>3, <3>1, <2>1a, <2>1b
    <3> QED BY <3>2, FileKinds
  <2> QED BY <2>2, <2>3
<1> QED BY <1>1, <1>3, <1>4 DEF now

\* With a rename as one more entry, everything goes back.
LEMMA RenameCanBeUndone ==
  ASSUME NEW h, NEW tr, NEW from, NEW to, MayRename(h, tr, from, to),
         NEW stack \in Seq(Entries), NEW lost, RestoresIn(h, tr, lost, stack)
  PROVE  RestoresIn(Renamed(h, from, to), tr, lost, Append(stack, RenameEntry(to, from)))
<1> SUFFICES ASSUME NEW f \in Owned \ lost
             PROVE  BackFrom(tr, Append(stack, RenameEntry(to, from)), f, PlaceIn(Renamed(h, from, to), f)) = f
  BY DEF RestoresIn
<1>1. UndoneIn(tr, f, RenameEntry(to, from))[PlaceIn(Renamed(h, from, to), f)] = PlaceIn(h, f)
  <2>1. /\ PlaceIn(h, f) # to
        /\ PlaceIn(Renamed(h, from, to), f) = IF PlaceIn(h, f) = from THEN to ELSE PlaceIn(h, f)
    BY RenameMoves
  <2>2. UndoneIn(tr, f, RenameEntry(to, from))[PlaceIn(Renamed(h, from, to), f)] =
          IF PlaceIn(Renamed(h, from, to), f) = to THEN from ELSE PlaceIn(Renamed(h, from, to), f)
    BY UndoneRename, PlaceTyped
  <2> QED BY <2>1, <2>2
<1>2. BackFrom(tr, stack, f, PlaceIn(h, f)) = f
  BY DEF RestoresIn
<1> QED BY <1>1, <1>2, BackAppend

\* The last rename undone, what is left takes everything back.
LEMMA RenameUndoes ==
  ASSUME NEW h, NEW tr, NEW from, NEW to, MayRename(h, tr, from, to),
         NEW stack \in Seq(Entries), stack # <<>>, Last(stack) = RenameEntry(from, to),
         NEW lost, RestoresIn(h, tr, lost, stack)
  PROVE  RestoresIn(Renamed(h, from, to), tr, lost, Front(stack))
<1> SUFFICES ASSUME NEW f \in Owned \ lost
             PROVE  BackFrom(tr, Front(stack), f, PlaceIn(Renamed(h, from, to), f)) = f
  BY DEF RestoresIn
<1>1. UndoneIn(tr, f, RenameEntry(from, to))[PlaceIn(h, f)] = PlaceIn(Renamed(h, from, to), f)
  <2>1. /\ PlaceIn(h, f) # to
        /\ PlaceIn(Renamed(h, from, to), f) = IF PlaceIn(h, f) = from THEN to ELSE PlaceIn(h, f)
    BY RenameMoves
  <2>2. UndoneIn(tr, f, RenameEntry(from, to))[PlaceIn(h, f)] =
          IF PlaceIn(h, f) = from THEN to ELSE PlaceIn(h, f)
    BY UndoneRename, PlaceTyped
  <2> QED BY <2>1, <2>2
<1>2. BackFrom(tr, stack, f, PlaceIn(h, f)) = f
  BY DEF RestoresIn
<1>3. stack = Append(Front(stack), RenameEntry(from, to)) /\ Front(stack) \in Seq(Entries)
  BY FrontAndLast
<1>4. BackFrom(tr, Append(Front(stack), RenameEntry(from, to)), f, PlaceIn(h, f)) =
        BackFrom(tr, Front(stack), f, UndoneIn(tr, f, RenameEntry(from, to))[PlaceIn(h, f)])
  BY <1>3, BackAppend
<1> QED BY <1>1, <1>2, <1>3, <1>4, Zenon
-----------------------------------------------------------------------------
MayTrash(h, tr, s) ==
  /\ h \in [FileNames -> Content] /\ tr \in Seq(TrashItems) /\ OneIn(h, tr)
  /\ s \in TrashedFrom(h, tr)

\* A file stays where it was, or is in Trash under a token of its own.
LEMMA TrashMoves ==
  ASSUME NEW h, NEW tr, NEW s, MayTrash(h, tr, s)
  PROVE  /\ OneIn(s.holds, s.trashed)
         /\ \A f \in Owned :
              \/ /\ PlaceIn(s.holds, f) = PlaceIn(h, f)
                 /\ \A t \in Len(tr) + 1 .. Len(s.trashed) : s.trashed[t].file # f
              \/ \E t \in Len(tr) + 1 .. Len(s.trashed) :
                   /\ s.trashed[t].file = f /\ s.trashed[t].origin = PlaceIn(h, f)
                   /\ \A u \in 1 .. Len(s.trashed) : s.trashed[u].file = f => u = t
<1> DEFINE new == Len(tr) + 1 .. Len(s.trashed)
           old == 1 .. Len(tr)
           all == 1 .. Len(s.trashed)
<1>1. /\ \A t \in old : s.trashed[t] = tr[t]
      /\ \A n \in FileNames : s.holds[n] # h[n] =>
           s.holds[n] = NoName /\ \E t \in new : s.trashed[t].origin = n
      /\ \A t \in new : /\ s.trashed[t].file = h[s.trashed[t].origin]
                        /\ s.trashed[t].file # NoName
                        /\ s.holds[s.trashed[t].origin] = NoName
      /\ \A t, u \in new : s.trashed[t].origin = s.trashed[u].origin => t = u
  BY DEF MayTrash, TrashedFrom
<1>2. /\ Len(tr) \in Nat /\ Len(s.trashed) \in Nat /\ Len(tr) <= Len(s.trashed)
      /\ s.trashed \in Seq(TrashItems)
  BY DEF MayTrash, TrashedFrom, Batches
<1>3. all = old \cup new /\ old \cap new = {}
  BY <1>2
<1>4. \A t \in new : s.trashed[t].origin \in FileNames
  <2>1. \A t \in all : s.trashed[t] \in TrashItems
    BY <1>2
  <2> HIDE DEF new, all, old
  <2> QED BY <2>1, <1>3 DEF TrashItems
<1> HIDE DEF new, old, all
<1>5. ASSUME NEW f \in Owned
      PROVE  /\ \A n, m \in FileNames : s.holds[n] = f /\ s.holds[m] = f => n = m
             /\ \A t, u \in all : s.trashed[t].file = f /\ s.trashed[u].file = f => t = u
             /\ \A n \in FileNames, t \in all : ~(s.holds[n] = f /\ s.trashed[t].file = f)
  <2>1. /\ \A n, m \in FileNames : h[n] = f /\ h[m] = f => n = m
        /\ \A t, u \in old : tr[t].file = f /\ tr[u].file = f => t = u
        /\ \A n \in FileNames, t \in old : ~(h[n] = f /\ tr[t].file = f)
    BY DEF MayTrash, OneIn, old
  <2>2. f # NoName
    BY FileKinds
  <2>3. \A n \in FileNames : s.holds[n] = f => h[n] = f
    BY <1>1, <2>2
  <2>4. \A t, u \in all : s.trashed[t].file = f /\ s.trashed[u].file = f => t = u
    <3> SUFFICES ASSUME NEW t \in all, NEW u \in all, s.trashed[t].file = f, s.trashed[u].file = f
                 PROVE  t = u
      OBVIOUS
    <3>1. CASE t \in old /\ u \in old
      BY <3>1, <1>1, <2>1
    <3>2. CASE t \in new /\ u \in new
      BY <3>2, <1>1, <1>4, <2>1
    <3>3. CASE t \in old /\ u \in new
      BY <3>3, <1>1, <1>4, <2>1
    <3>4. CASE t \in new /\ u \in old
      BY <3>4, <1>1, <1>4, <2>1
    <3> QED BY <3>1, <3>2, <3>3, <3>4, <1>3
  <2>5. \A n \in FileNames, t \in all : ~(s.holds[n] = f /\ s.trashed[t].file = f)
    <3> SUFFICES ASSUME NEW n \in FileNames, NEW t \in all, s.holds[n] = f, s.trashed[t].file = f
                 PROVE  FALSE
      OBVIOUS
    <3>1. h[n] = f
      BY <2>3
    <3>2. CASE t \in old
      BY <3>1, <3>2, <1>1, <2>1
    <3>3. CASE t \in new
      BY <3>1, <3>3, <1>1, <1>4, <2>1, <2>2
    <3> QED BY <3>2, <3>3, <1>3
  <2> QED BY <2>1, <2>3, <2>4, <2>5
<1>6. OneIn(s.holds, s.trashed)
  BY <1>5 DEF OneIn, all
<1>7. ASSUME NEW f \in Owned
      PROVE  \/ /\ PlaceIn(s.holds, f) = PlaceIn(h, f)
                /\ \A t \in new : s.trashed[t].file # f
             \/ \E t \in new :
                  /\ s.trashed[t].file = f /\ s.trashed[t].origin = PlaceIn(h, f)
                  /\ \A u \in all : s.trashed[u].file = f => u = t
  <2>1. /\ \A n \in FileNames : h[n] = f => PlaceIn(h, f) = n
        /\ (\A n \in FileNames : h[n] # f) => PlaceIn(h, f) = InTrash
    <3>1. \A n, m \in FileNames : h[n] = f /\ h[m] = f => n = m
      BY DEF MayTrash, OneIn
    <3> QED BY <3>1, PlaceIs, Zenon
  <2>2. /\ \A n \in FileNames : s.holds[n] = f => PlaceIn(s.holds, f) = n
        /\ (\A n \in FileNames : s.holds[n] # f) => PlaceIn(s.holds, f) = InTrash
    BY <1>5, PlaceIs, Zenon
  <2>3. f # NoName
    BY FileKinds
  <2>4. CASE \E n \in FileNames : h[n] = f
    <3>1. PICK n \in FileNames : h[n] = f
      BY <2>4
    <3>2. CASE s.holds[n] = f
      <4>1. \A t \in new : s.trashed[t].file # f
        BY <3>2, <1>3, <1>5
      <4> QED BY <4>1, <3>1, <3>2, <2>1, <2>2
    <3>3. CASE s.holds[n] # f
      <4>1. PICK t \in new : s.trashed[t].origin = n
        BY <3>1, <3>3, <1>1
      <4>2. s.trashed[t].file = f
        BY <4>1, <3>1, <1>1
      <4>3. \A u \in all : s.trashed[u].file = f => u = t
        BY <4>2, <1>3, <1>5
      <4> QED BY <4>1, <4>2, <4>3, <3>1, <2>1
    <3> QED BY <3>2, <3>3
  <2>5. CASE ~\E n \in FileNames : h[n] = f
    <3>1. \A t \in new : s.trashed[t].file # f
      BY <2>5, <1>1, <1>4
    <3>2. \A n \in FileNames : s.holds[n] # f
      BY <2>5, <1>1, <2>3
    <3> QED BY <3>1, <3>2, <2>1, <2>2, <2>5
  <2> QED BY <2>4, <2>5
<1> QED BY <1>6, <1>7, Zenon DEF new, all

\* The files that Trash may lose: those whose tokens are not kept.
Gone(lost, s, kept) == lost \cup {s.trashed[t].file : t \in ToSet(s.tokens) \ ToSet(kept)}

\* With a removal as one more entry, everything goes back.
LEMMA TrashCanBeUndone ==
  ASSUME NEW h, NEW tr, NEW s, MayTrash(h, tr, s),
         NEW stack \in Seq(Entries), ApartIn(tr, stack),
         NEW lost, RestoresIn(h, tr, lost, stack),
         NEW kept \in Seq(Nat), ToSet(kept) \subseteq ToSet(s.tokens)
  PROVE  /\ ApartIn(s.trashed, stack) /\ ApartIn(s.trashed, Append(stack, TrashEntry(kept)))
         /\ RestoresIn(s.holds, s.trashed, Gone(lost, s, kept), Append(stack, TrashEntry(kept)))
         /\ ToSet(kept) = {} => RestoresIn(s.holds, s.trashed, Gone(lost, s, kept), stack)
<1> DEFINE new == Len(tr) + 1 .. Len(s.trashed)
           old == 1 .. Len(tr)
           all == 1 .. Len(s.trashed)
           e == TrashEntry(kept)
           gone == Gone(lost, s, kept)
<1>1. /\ Len(tr) \in Nat /\ Len(s.trashed) \in Nat /\ Len(tr) <= Len(s.trashed)
      /\ ToSet(s.tokens) = new /\ \A t \in old : s.trashed[t] = tr[t]
  BY DEF MayTrash, TrashedFrom, Batches
<1>2. all = old \cup new /\ old \cap new = {}
  BY <1>1
<1>3. e \in Entries /\ TokensOf(e) = ToSet(kept)
  BY EntryKinds
<1> HIDE DEF new, old, all, e
<1>4. ApartIn(s.trashed, stack)
  BY <1>2 DEF ApartIn, old, all
<1>5. ApartIn(s.trashed, Append(stack, e))
  <2>1. TokensOf(e) \subseteq 1 .. Len(s.trashed)
    BY <1>1, <1>2, <1>3 DEF all
  <2>2. \A i \in DOMAIN stack : TokensOf(stack[i]) \cap TokensOf(e) = {}
    BY <1>1, <1>2, <1>3 DEF ApartIn, old
  <2> QED BY <1>4, <2>1, <2>2, ApartAppend
<1>6. ASSUME NEW f \in Owned \ gone
      PROVE  /\ BackFrom(s.trashed, Append(stack, e), f, PlaceIn(s.holds, f)) = f
             /\ ToSet(kept) = {} => BackFrom(s.trashed, stack, f, PlaceIn(s.holds, f)) = f
  <2>1. f \in Owned \ lost /\ \A t \in new : s.trashed[t].file = f => t \in ToSet(kept)
    BY <1>1 DEF Gone
  <2>2. BackFrom(tr, stack, f, PlaceIn(h, f)) = f
    BY <2>1 DEF RestoresIn
  <2>3. \A p : BackFrom(tr, stack, f, p) = BackFrom(s.trashed, stack, f, p)
    <3>1. \A i \in DOMAIN stack : \A t \in TokensOf(stack[i]) :
           (tr[t].file = f <=> s.trashed[t].file = f) /\ tr[t].origin = s.trashed[t].origin
      BY <1>1 DEF ApartIn, old
    <3> QED BY <3>1, SameBack
  <2>4. BackFrom(s.trashed, Append(stack, e), f, PlaceIn(s.holds, f)) =
          BackFrom(s.trashed, stack, f, UndoneIn(s.trashed, f, e)[PlaceIn(s.holds, f)])
    BY BackAppend
  <2>5. PlaceIn(s.holds, f) \in Spots
    BY PlaceTyped
  <2>6. \/ PlaceIn(s.holds, f) = PlaceIn(h, f) /\ \A t \in new : s.trashed[t].file # f
        \/ \E t \in new : /\ s.trashed[t].file = f /\ s.trashed[t].origin = PlaceIn(h, f)
                          /\ \A u \in all : s.trashed[u].file = f => u = t
    <3>1. f \in Owned
      OBVIOUS
    <3> QED BY <3>1, TrashMoves DEF new, all
  <2>7. CASE PlaceIn(s.holds, f) = PlaceIn(h, f) /\ \A t \in new : s.trashed[t].file # f
    <3>1. \A t \in ToSet(kept) : s.trashed[t].file # f
      BY <2>7, <1>1
    <3>2. UndoneIn(s.trashed, f, e)[PlaceIn(s.holds, f)] = PlaceIn(s.holds, f)
      BY <3>1, <2>5, UndoneTrash DEF e
    <3> QED BY <3>2, <2>2, <2>3, <2>4, <2>7
  <2>8. CASE \E t \in new : /\ s.trashed[t].file = f /\ s.trashed[t].origin = PlaceIn(h, f)
                            /\ \A u \in all : s.trashed[u].file = f => u = t
    <3>1. PICK t \in new : /\ s.trashed[t].file = f /\ s.trashed[t].origin = PlaceIn(h, f)
                           /\ \A u \in all : s.trashed[u].file = f => u = t
      BY <2>8
    <3>2. t \in ToSet(kept) /\ \A u \in ToSet(kept) : s.trashed[u].file = f => u = t
      BY <3>1, <2>1, <1>1, <1>2
    <3>3. UndoneIn(s.trashed, f, e)[PlaceIn(s.holds, f)] = PlaceIn(h, f)
      BY <3>1, <3>2, <2>5, UndoneTrash DEF e
    <3> QED BY <3>2, <3>3, <2>2, <2>3, <2>4
  <2> QED BY <2>6, <2>7, <2>8
<1> QED BY <1>4, <1>5, <1>6 DEF RestoresIn, e
-----------------------------------------------------------------------------
MayRestore(h, tr, toks, s, kept) ==
  /\ h \in [FileNames -> Content] /\ tr \in Seq(TrashItems) /\ OneIn(h, tr)
  /\ toks \in Seq(Nat) /\ ToSet(toks) \subseteq 1 .. Len(tr)
  /\ s \in RestoredFrom(h, tr, toks, Len(toks))
  /\ kept \in Seq(Nat) /\ ToSet(s.tokens) \subseteq ToSet(kept) /\ ToSet(kept) \subseteq ToSet(toks)

\* What is left to undo takes a file to the same place as what there was before.
LEMMA RestoreMoves ==
  ASSUME NEW h, NEW tr, NEW toks, NEW s, NEW kept, MayRestore(h, tr, toks, s, kept)
  PROVE  /\ OneIn(s.holds, s.trashed)
         /\ \A f \in Owned : UndoneIn(tr, f, TrashEntry(toks))[PlaceIn(h, f)] =
                             UndoneIn(s.trashed, f, TrashEntry(kept))[PlaceIn(s.holds, f)]
<1> DEFINE all == 1 .. Len(tr)
<1>1. /\ Len(s.trashed) = Len(tr)
      /\ \A t \in all : s.trashed[t].origin = tr[t].origin
      /\ \A t \in all : s.trashed[t].file # tr[t].file =>
           t \in ToSet(toks) /\ s.trashed[t].file = NoName /\ s.holds[tr[t].origin] = tr[t].file
      /\ \A n \in FileNames : s.holds[n] # h[n] =>
           h[n] = NoName /\ \E t \in all :
             tr[t].origin = n /\ tr[t].file = s.holds[n] /\ s.trashed[t].file = NoName /\ tr[t].file # NoName
      /\ \A i \in 1 .. Len(toks) : toks[i] \in ToSet(s.tokens) \/ s.trashed[toks[i]].file = NoName
  BY DEF MayRestore, RestoredFrom
<1>2. /\ ToSet(toks) \subseteq all /\ ToSet(s.tokens) \subseteq ToSet(kept) /\ ToSet(kept) \subseteq ToSet(toks)
      /\ \A t \in all : tr[t].origin \in FileNames
  <2>1. \A t \in all : tr[t] \in TrashItems
    BY DEF MayRestore
  <2> HIDE DEF all
  <2>2. \A t \in all : tr[t].origin \in FileNames
    BY <2>1 DEF TrashItems
  <2> QED BY <2>2 DEF MayRestore, all
<1>3. \A t \in ToSet(toks) : t \in ToSet(s.tokens) \/ s.trashed[t].file = NoName
  <2>1. DOMAIN toks = 1 .. Len(toks)
    BY DEF MayRestore
  <2>2. \A t \in ToSet(toks) : \E i \in 1 .. Len(toks) : t = toks[i]
    BY <2>1 DEF ToSet
  <2> QED BY <1>1, <2>2
<1> HIDE DEF all
<1>4. ASSUME NEW f \in Owned
      PROVE  /\ \A n, m \in FileNames : h[n] = f /\ h[m] = f => n = m
             /\ \A t, u \in all : tr[t].file = f /\ tr[u].file = f => t = u
             /\ \A n \in FileNames, t \in all : ~(h[n] = f /\ tr[t].file = f)
             /\ f # NoName
             /\ \A t \in all : s.trashed[t].file = f => tr[t].file = f
  <2>1. f # NoName
    BY FileKinds
  <2> QED BY <2>1, <1>1 DEF MayRestore, OneIn, all
<1>5. ASSUME NEW f \in Owned
      PROVE  /\ \A n, m \in FileNames : s.holds[n] = f /\ s.holds[m] = f => n = m
             /\ \A n \in FileNames, t \in all : ~(s.holds[n] = f /\ s.trashed[t].file = f)
  <2>1. \A n \in FileNames : s.holds[n] = f =>
          h[n] = f \/ \E t \in all : tr[t].origin = n /\ tr[t].file = f /\ s.trashed[t].file = NoName
    BY <1>1
  <2>2. \A n, m \in FileNames : s.holds[n] = f /\ s.holds[m] = f => n = m
    BY <2>1, <1>4
  <2>3. \A n \in FileNames, t \in all : ~(s.holds[n] = f /\ s.trashed[t].file = f)
    BY <2>1, <1>4
  <2> QED BY <2>2, <2>3
<1>6. OneIn(s.holds, s.trashed)
  BY <1>1, <1>4, <1>5 DEF OneIn, all
<1>7. ASSUME NEW f \in Owned
      PROVE  UndoneIn(tr, f, TrashEntry(toks))[PlaceIn(h, f)] =
             UndoneIn(s.trashed, f, TrashEntry(kept))[PlaceIn(s.holds, f)]
  <2>1. /\ \A n \in FileNames : h[n] = f => PlaceIn(h, f) = n
        /\ (\A n \in FileNames : h[n] # f) => PlaceIn(h, f) = InTrash
    BY <1>4, PlaceIs, Zenon
  <2>2. /\ \A n \in FileNames : s.holds[n] = f => PlaceIn(s.holds, f) = n
        /\ (\A n \in FileNames : s.holds[n] # f) => PlaceIn(s.holds, f) = InTrash
    BY <1>5, PlaceIs, Zenon
  <2>3. PlaceIn(h, f) \in Spots /\ PlaceIn(s.holds, f) \in Spots
    BY PlaceTyped
  <2>4. CASE \E t \in ToSet(toks) : tr[t].file = f
    <3>1. PICK t \in ToSet(toks) : tr[t].file = f
      BY <2>4
    <3>2. t \in all /\ \A u \in all : tr[u].file = f => u = t
      BY <3>1, <1>2, <1>4
    <3>3. UndoneIn(tr, f, TrashEntry(toks))[PlaceIn(h, f)] = tr[t].origin
      <4>1. \A u \in ToSet(toks) : tr[u].file = f => u = t
        BY <3>2, <1>2
      <4> QED BY <4>1, <3>1, <2>3, UndoneTrash
    <3>4. CASE s.trashed[t].file = f
      <4>1. t \in ToSet(kept)
        BY <3>1, <3>4, <1>2, <1>3, <1>4
      <4>2. \A u \in ToSet(kept) : s.trashed[u].file = f => u = t
        BY <3>2, <1>2, <1>4
      <4>3. UndoneIn(s.trashed, f, TrashEntry(kept))[PlaceIn(s.holds, f)] = s.trashed[t].origin
        BY <4>1, <4>2, <3>4, <2>3, UndoneTrash
      <4> QED BY <4>3, <3>2, <3>3, <1>1
    <3>5. CASE s.trashed[t].file # f
      <4>1. s.holds[tr[t].origin] = f /\ tr[t].origin \in FileNames
        BY <3>1, <3>2, <3>5, <1>1, <1>2
      <4>2. \A u \in ToSet(kept) : s.trashed[u].file # f
        BY <3>2, <3>5, <1>2, <1>4
      <4>3. UndoneIn(s.trashed, f, TrashEntry(kept))[PlaceIn(s.holds, f)] = PlaceIn(s.holds, f)
        BY <4>2, <2>3, UndoneTrash
      <4> QED BY <4>1, <4>3, <3>3, <2>2
    <3> QED BY <3>4, <3>5
  <2>5. CASE ~\E t \in ToSet(toks) : tr[t].file = f
    <3>1. UndoneIn(tr, f, TrashEntry(toks))[PlaceIn(h, f)] = PlaceIn(h, f)
      BY <2>5, <2>3, UndoneTrash
    <3>2. \A u \in ToSet(kept) : s.trashed[u].file # f
      BY <2>5, <1>2, <1>4
    <3>3. UndoneIn(s.trashed, f, TrashEntry(kept))[PlaceIn(s.holds, f)] = PlaceIn(s.holds, f)
      BY <3>2, <2>3, UndoneTrash
    <3>4. \A n \in FileNames : s.holds[n] = f <=> h[n] = f
      <4>1. ASSUME NEW n \in FileNames, s.holds[n] = f PROVE h[n] = f
        <5> SUFFICES ASSUME h[n] # f PROVE FALSE
          OBVIOUS
        <5>1. PICK t \in all : tr[t].file = f /\ s.trashed[t].file = NoName
          BY <4>1, <1>1
        <5> QED BY <5>1, <2>5, <1>1, <1>4
      <4>2. ASSUME NEW n \in FileNames, h[n] = f PROVE s.holds[n] = f
        BY <4>2, <1>1, <1>4
      <4> QED BY <4>1, <4>2
    <3>5. PlaceIn(h, f) = PlaceIn(s.holds, f)
      BY <3>4, <2>1, <2>2
    <3> QED BY <3>1, <3>3, <3>5
  <2> QED BY <2>4, <2>5
<1> QED BY <1>6, <1>7

\* The last removal undone, as far as it was, what is left takes everything back.
LEMMA RestoreUndoes ==
  ASSUME NEW h, NEW tr, NEW toks, NEW s, NEW kept, MayRestore(h, tr, toks, s, kept),
         NEW stack \in Seq(Entries), stack # <<>>, Last(stack) = TrashEntry(toks), ApartIn(tr, stack),
         NEW lost, RestoresIn(h, tr, lost, stack)
  PROVE  /\ ApartIn(s.trashed, Front(stack)) /\ ApartIn(s.trashed, Append(Front(stack), TrashEntry(kept)))
         /\ RestoresIn(s.holds, s.trashed, lost, Append(Front(stack), TrashEntry(kept)))
         /\ ToSet(kept) = {} => RestoresIn(s.holds, s.trashed, lost, Front(stack))
<1> DEFINE below == Front(stack)
<1>1. below \in Seq(Entries) /\ stack = Append(below, TrashEntry(toks))
  BY FrontAndLast
<1>2. toks \in Seq(Nat) /\ kept \in Seq(Nat) /\ ToSet(kept) \subseteq ToSet(toks)
      /\ Len(s.trashed) = Len(tr)
  BY DEF MayRestore, RestoredFrom
<1>3. TokensOf(TrashEntry(toks)) = ToSet(toks) /\ TokensOf(TrashEntry(kept)) = ToSet(kept)
  BY <1>2, EntryKinds
<1>4. /\ ApartIn(tr, below) /\ ToSet(toks) \subseteq 1 .. Len(tr)
      /\ \A i \in DOMAIN below : TokensOf(below[i]) \cap ToSet(toks) = {}
  BY <1>3, ApartFront
<1> HIDE DEF below
<1>5. ApartIn(s.trashed, below)
  BY <1>2, <1>4 DEF ApartIn
<1>6. ApartIn(s.trashed, Append(below, TrashEntry(kept)))
  <2>1. /\ TokensOf(TrashEntry(kept)) \subseteq 1 .. Len(s.trashed)
        /\ \A i \in DOMAIN below : TokensOf(below[i]) \cap TokensOf(TrashEntry(kept)) = {}
    BY <1>2, <1>3, <1>4
  <2> QED BY <2>1, <1>1, <1>5, ApartAppend
<1>7. ASSUME NEW f \in Owned \ lost
      PROVE  /\ BackFrom(s.trashed, Append(below, TrashEntry(kept)), f, PlaceIn(s.holds, f)) = f
             /\ ToSet(kept) = {} => BackFrom(s.trashed, below, f, PlaceIn(s.holds, f)) = f
  <2> DEFINE place == UndoneIn(s.trashed, f, TrashEntry(kept))[PlaceIn(s.holds, f)]
  <2>1. UndoneIn(tr, f, TrashEntry(toks))[PlaceIn(h, f)] = place
    BY RestoreMoves
  <2>2. BackFrom(tr, Append(below, TrashEntry(toks)), f, PlaceIn(h, f)) = f
    BY <1>1 DEF RestoresIn
  <2>3. BackFrom(tr, below, f, place) = f
    <3>1. BackFrom(tr, Append(below, TrashEntry(toks)), f, PlaceIn(h, f)) =
            BackFrom(tr, below, f, UndoneIn(tr, f, TrashEntry(toks))[PlaceIn(h, f)])
      BY <1>1, BackAppend
    <3> HIDE DEF place
    <3> QED BY <3>1, <2>1, <2>2
  <2>4. \A p : BackFrom(tr, below, f, p) = BackFrom(s.trashed, below, f, p)
    <3>1. \A i \in DOMAIN below : \A t \in TokensOf(below[i]) :
           (tr[t].file = f <=> s.trashed[t].file = f) /\ tr[t].origin = s.trashed[t].origin
      <4> SUFFICES ASSUME NEW i \in DOMAIN below, NEW t \in TokensOf(below[i])
                   PROVE  (tr[t].file = f <=> s.trashed[t].file = f) /\ tr[t].origin = s.trashed[t].origin
        OBVIOUS
      <4>1. t \notin ToSet(toks) /\ t \in 1 .. Len(tr)
        BY <1>4 DEF ApartIn
      <4> QED BY <4>1 DEF MayRestore, RestoredFrom
    <3> QED BY <3>1, <1>1, SameBack
  <2>5. BackFrom(s.trashed, Append(below, TrashEntry(kept)), f, PlaceIn(s.holds, f)) =
          BackFrom(s.trashed, below, f, place)
    BY <1>1, BackAppend
  <2>6. ToSet(kept) = {} => place = PlaceIn(s.holds, f)
    BY PlaceTyped, UndoneTrash
  <2> HIDE DEF place
  <2> QED BY <2>3, <2>4, <2>5, <2>6
<1> QED BY <1>5, <1>6, <1>7 DEF RestoresIn, below
-----------------------------------------------------------------------------
\* The invariant, part by part.
LEMMA UndoInvIs ==
  UndoInv => /\ ActionsTyped /\ UndoFirst /\ OneIn(holds, trashed) /\ ApartIn(trashed, Stack)
             /\ RestoresIn(holds, trashed, untracked, Stack)
BY StackRestoresIs DEF UndoInv, OnePlace, OneIn, TokensApart, ApartIn, RestoresIn, ActionsTyped

\* The invariant after a step, part by part.
LEMMA UndoInvNext ==
  ASSUME ActionsTyped', UndoFirst', OneIn(holds', trashed'), ApartIn(trashed', Stack'),
         RestoresIn(holds', trashed', untracked', Stack')
  PROVE  UndoInv'
<1>1. OnePlace'
  BY DEF OnePlace, OneIn, ActionsTyped
<1>2. TokensApart'
  BY DEF TokensApart, ApartIn, ActionsTyped
<1>3. StackRestores'
  <2>1. \A f : FoldRight(Back, Moves(f)', Place(f)') = BackFrom(trashed', Stack', f, PlaceIn(holds', f))
    BY Zenon DEF BackFrom, Moves, MovesIn, UndoneFor, UndoneIn, Place, PlaceIn, Spots
  <2> QED BY <2>1 DEF StackRestores, RestoresIn
<1> QED BY <1>1, <1>2, <1>3 DEF UndoInv

\* A job of the worker is a rename, a removal or a restoration.
LEMMA JobKinds ==
  ASSUME NEW j \in ActionJobs
  PROVE  /\ j.undo \in BOOLEAN
         /\ j.action.do = "rename" =>
              /\ j.action.from \in FileNames /\ j.action.to \in FileNames
              /\ j.action = RenameEntry(j.action.from, j.action.to)
         /\ j.action.do = "trash" => ~j.undo /\ j.action.names \in Seq(FileNames)
         /\ j.action.do = "restore" => j.undo /\ j.action.tokens \in Seq(Nat)
         /\ j.action.do \in {"rename", "trash", "restore"}
BY DEF ActionJobs, RenameActs, TrashActs, RestoreActs, RenameEntry

\* What a completion does to the list of what can be undone.
LEMMA CompleteIs ==
  ASSUME NEW stack, NEW c
  PROVE  /\ c.job.action.do = "rename" =>
              Complete(stack, c) = IF ~c.ok THEN stack ELSE IF c.job.undo THEN Front(stack)
                                   ELSE Append(stack, RenameEntry(c.job.action.to, c.job.action.from))
         /\ c.job.action.do = "trash" =>
              Complete(stack, c) = IF ~c.ok THEN stack ELSE Append(stack, TrashEntry(c.tokens))
         /\ c.job.action.do = "restore" =>
              Complete(stack, c) = IF c.tokens = <<>> THEN Front(stack)
                                   ELSE [stack EXCEPT ![Len(stack)] = TrashEntry(c.tokens)]
BY DEF Complete, RenameEntry, TrashEntry

\* The last entry in a new form, the others as they were.
LEMMA ReplaceLast ==
  ASSUME NEW X, NEW s \in Seq(X), s # <<>>, NEW e \in X
  PROVE  [s EXCEPT ![Len(s)] = e] = Append(Front(s), e)
<1> DEFINE new == [s EXCEPT ![Len(s)] = e]
           other == Append(Front(s), e)
<1>1. /\ Front(s) \in Seq(X) /\ Len(Front(s)) = Len(s) - 1 /\ Len(s) \in Nat \ {0}
      /\ \A k \in 1 .. Len(s) - 1 : Front(s)[k] = s[k]
  BY FrontAndLast
<1>2. new \in Seq(X) /\ Len(new) = Len(s) /\ \A k \in 1 .. Len(s) : new[k] = IF k = Len(s) THEN e ELSE s[k]
  OBVIOUS
<1>3. other \in Seq(X) /\ Len(other) = Len(s) /\ \A k \in 1 .. Len(s) : other[k] = IF k = Len(s) THEN e ELSE s[k]
  BY <1>1
<1> HIDE DEF new, other
<1>4. new = other
  BY <1>2, <1>3, SeqEqual
<1> QED BY <1>4 DEF new, other

\* A job that is done and not yet known of: what can be undone is known to follow.
LEMMA WorkerStep ==
  ASSUME UndoInv, NEW c \in Completions, jobs # <<>>, c.job = Head(jobs), jobs' = Tail(jobs),
         completions' = Append(completions, c), UNCHANGED <<inProgress, undoable>>
  PROVE  /\ Stack' = Complete(Stack, c) /\ UndoFirst'
         /\ jobs' \in Seq(ActionJobs) /\ completions' \in Seq(Completions)
         /\ Head(jobs).undo =>
              Stack # <<>> /\ Head(jobs).action = TakesBack(Last(Stack))
<1>1. /\ jobs \in Seq(ActionJobs) /\ completions \in Seq(Completions) /\ UndoFirst
  BY DEF UndoInv, ActionsTyped
<1>2. /\ Len(jobs) \in Nat \ {0} /\ Len(jobs') = Len(jobs) - 1 /\ Head(jobs) = jobs[1]
      /\ jobs' \in Seq(ActionJobs) /\ \A k \in 1 .. Len(jobs) - 1 : jobs'[k] = jobs[k + 1]
  BY <1>1
<1>3. /\ completions' \in Seq(Completions) /\ Len(completions') = Len(completions) + 1
      /\ Len(completions) \in Nat
      /\ \A k \in 1 .. Len(completions) : completions'[k] = completions[k]
      /\ completions'[Len(completions) + 1] = c
  BY <1>1
<1>4. Stack' = Complete(Stack, c)
  <2>1. FoldLeft(Complete, undoable, Append(completions, c)) = Complete(FoldLeft(Complete, undoable, completions), c)
    BY <1>1, StackAppend
  <2> QED BY <2>1 DEF Stack
<1>5. ASSUME Head(jobs).undo
      PROVE  /\ completions = <<>> /\ undoable # <<>> /\ Stack = undoable
             /\ Head(jobs).action = TakesBack(Last(undoable))
  <2>1. 1 \in DOMAIN jobs
    BY <1>1, <1>2
  <2>2. completions = <<>> /\ undoable # <<>> /\ jobs[1].action = TakesBack(Last(undoable))
    BY <2>1, <1>1, <1>2, <1>5 DEF UndoFirst
  <2>3. Stack = undoable
    BY <2>2, StackEmpty DEF Stack
  <2> QED BY <2>2, <2>3, <1>2
<1>6. UndoFirst'
  <2>1. inProgress' = Len(completions') + Len(jobs')
    BY <1>1, <1>2, <1>3 DEF UndoFirst
  <2>2. ASSUME NEW k \in DOMAIN completions', completions'[k].job.undo
        PROVE  k = 1 /\ undoable' # <<>> /\ completions'[k].job.action = TakesBack(Last(undoable'))
    <3>1. k \in 1 .. Len(completions) \/ k = Len(completions) + 1
      BY <1>3
    <3>2. CASE k \in 1 .. Len(completions)
      <4>1. k \in DOMAIN completions /\ completions'[k] = completions[k]
        BY <3>2, <1>1, <1>3
      <4> QED BY <4>1, <2>2, <1>1 DEF UndoFirst
    <3>3. CASE k = Len(completions) + 1
      <4>1. completions'[k] = c /\ Head(jobs).undo
        BY <3>3, <2>2, <1>3
      <4>2. completions = <<>> /\ undoable # <<>> /\ Head(jobs).action = TakesBack(Last(undoable))
        BY <4>1, <1>5
      <4>3. k = 1
        BY <3>3, <4>2
      <4> QED BY <4>1, <4>2, <4>3
    <3> QED BY <3>1, <3>2, <3>3
  <2>3. ASSUME NEW k \in DOMAIN jobs', jobs'[k].undo PROVE FALSE
    <3>1. k \in 1 .. Len(jobs) - 1
      BY <1>2
    <3>2. jobs'[k] = jobs[k + 1] /\ k + 1 \in DOMAIN jobs /\ k + 1 # 1
      BY <3>1, <1>1, <1>2
    <3> QED BY <3>2, <2>3, <1>1 DEF UndoFirst
  <2> QED BY <2>1, <2>2, <2>3 DEF UndoFirst
<1> QED BY <1>2, <1>3, <1>4, <1>5, <1>6

\* The worker renames, or fails to.
LEMMA RunsRenameKeeps ==
  ASSUME UndoInv, RunsRename
  PROVE  UndoInv'
<1> DEFINE j == Head(jobs)
           a == j.action
<1>1. /\ jobs # <<>> /\ a.do = "rename" /\ jobs' = Tail(jobs)
      /\ UNCHANGED <<trashed, tokens, untracked, inProgress, undoPending, undoWhenIdle, undoable, dialog, asked>>
  BY DEF RunsRename
<1>2. PICK r \in Rename(a.from, a.to) :
        holds' = r.holds /\ completions' = Append(completions, [job |-> j, ok |-> r.ok, tokens |-> <<>>])
  BY DEF RunsRename
<1> DEFINE c == [job |-> j, ok |-> r.ok, tokens |-> <<>>]
<1>3. /\ ActionsTyped /\ OneIn(holds, trashed) /\ ApartIn(trashed, Stack)
      /\ RestoresIn(holds, trashed, untracked, Stack)
  BY UndoInvIs
<1>4. j \in ActionJobs
  BY <1>1, <1>3 DEF ActionsTyped
<1>5. /\ a.from \in FileNames /\ a.to \in FileNames /\ a = RenameEntry(a.from, a.to) /\ j.undo \in BOOLEAN
  BY <1>1, <1>4, JobKinds
<1>6. r.ok \in BOOLEAN
  <2>1. r = [ok |-> FALSE, holds |-> r.holds] \/ r = [ok |-> TRUE, holds |-> r.holds]
    BY <1>2 DEF Rename
  <2>2. r.ok = FALSE \/ r.ok = TRUE
    BY <2>1
  <2> QED BY <2>2, Zenon
<1>7. c \in Completions /\ c.job = j /\ c.ok = r.ok
  BY <1>4, <1>6 DEF Completions
<1> HIDE DEF c
<1>8. /\ Stack' = Complete(Stack, c) /\ UndoFirst' /\ jobs' \in Seq(ActionJobs) /\ completions' \in Seq(Completions)
      /\ j.undo => Stack # <<>> /\ a = TakesBack(Last(Stack))
  <2>1. completions' = Append(completions, c)
    BY <1>2 DEF c
  <2> QED BY <2>1, <1>1, <1>7, WorkerStep
<1>9. Stack' = IF ~r.ok THEN Stack ELSE IF j.undo THEN Front(Stack) ELSE Append(Stack, RenameEntry(a.to, a.from))
  BY <1>1, <1>7, <1>8, CompleteIs
<1>10. Stack \in Seq(Entries) /\ holds \in [FileNames -> Content] /\ trashed \in Seq(TrashItems)
       /\ undoable \in Seq(Entries)
  BY <1>3 DEF ActionsTyped
<1>11. ASSUME Stack' \in Seq(Entries), holds' \in [FileNames -> Content] PROVE ActionsTyped'
  BY <1>1, <1>3, <1>8, <1>11 DEF ActionsTyped
<1>12. CASE ~r.ok
  <2>1. holds' = holds /\ Stack' = Stack
    BY <1>2, <1>9, <1>12 DEF Rename
  <2>2. ActionsTyped'
    BY <1>10, <1>11, <2>1
  <2> QED BY <1>1, <1>3, <1>8, <2>1, <2>2, UndoInvNext
<1>13. CASE r.ok
  <2>1. holds[a.from] # NoName /\ holds[a.to] = NoName /\ holds' = Renamed(holds, a.from, a.to)
    BY <1>2, <1>13 DEF Rename, Renamed
  <2>2. MayRename(holds, trashed, a.from, a.to)
    BY <1>3, <1>5, <1>10, <2>1 DEF MayRename
  <2>3. holds' \in [FileNames -> Content] /\ OneIn(holds', trashed)
    BY <2>1, <2>2, RenameMoves
  <2>4. CASE ~j.undo
    <3>1. Stack' = Append(Stack, RenameEntry(a.to, a.from))
      BY <1>9, <1>13, <2>4
    <3>2. RenameEntry(a.to, a.from) \in Entries /\ TokensOf(RenameEntry(a.to, a.from)) = {}
      BY <1>5, EntryKinds
    <3>3. Stack' \in Seq(Entries)
      BY <1>10, <3>1, <3>2
    <3>4. ApartIn(trashed, Stack')
      BY <1>3, <1>10, <3>1, <3>2, ApartAppend
    <3>5. RestoresIn(holds', trashed, untracked, Stack')
      BY <1>3, <1>10, <2>1, <2>2, <3>1, RenameCanBeUndone
    <3> QED BY <1>1, <1>8, <1>11, <2>3, <3>3, <3>4, <3>5, UndoInvNext
  <2>5. CASE j.undo
    <3>1. Stack # <<>> /\ a = TakesBack(Last(Stack)) /\ Stack' = Front(Stack)
      BY <1>8, <1>9, <1>13, <2>5
    <3>2. Front(Stack) \in Seq(Entries) /\ Last(Stack) \in Entries
      BY <1>10, <3>1, FrontAndLast
    <3>3. Last(Stack) = RenameEntry(a.from, a.to)
      BY <1>1, <1>5, <3>1 DEF TakesBack
    <3>4. ApartIn(trashed, Stack')
      BY <1>3, <1>10, <3>1, ApartFront
    <3>5. RestoresIn(holds', trashed, untracked, Stack')
      BY <1>3, <1>10, <2>1, <2>2, <3>1, <3>3, RenameUndoes
    <3> QED BY <1>1, <1>8, <1>11, <2>3, <3>1, <3>2, <3>4, <3>5, UndoInvNext
  <2> QED BY <1>5, <2>4, <2>5
<1> QED BY <1>6, <1>12, <1>13
\* All of a list but one.
LEMMA RemoveAtPart ==
  ASSUME NEW X, NEW s \in Seq(X), NEW i \in DOMAIN s
  PROVE  RemoveAt(s, i) \in Seq(X) /\ ToSet(RemoveAt(s, i)) \subseteq ToSet(s)
<1> DEFINE u == SubSeq(s, 1, i - 1)
           v == SubSeq(s, i + 1, Len(s))
           Y == ToSet(s)
<1>1. Len(s) \in Nat /\ i \in 1 .. Len(s) /\ DOMAIN s = 1 .. Len(s) /\ \A k \in 1 .. Len(s) : s[k] \in Y /\ s[k] \in X
  BY DEF ToSet
<1>2. u \in Seq(Y \cap X)
  <2>1. i - 1 \in Int /\ 1 \in Int /\ \A k \in 1 .. i - 1 : s[k] \in Y \cap X
    BY <1>1
  <2> QED BY <2>1, SubSeqProperties
<1>3. v \in Seq(Y \cap X)
  <2>1. i + 1 \in Int /\ Len(s) \in Int /\ \A k \in i + 1 .. Len(s) : s[k] \in Y \cap X
    BY <1>1
  <2> QED BY <2>1, SubSeqProperties
<1>4. RemoveAt(s, i) = u \o v
  BY DEF RemoveAt
<1> HIDE DEF u, v, Y
<1>5. RemoveAt(s, i) \in Seq(Y \cap X)
  BY <1>2, <1>3, <1>4
<1> DEFINE w == RemoveAt(s, i)
<1> HIDE DEF w
<1>6. \A w2 \in Seq(Y \cap X) : w2 \in Seq(X) /\ \A k \in DOMAIN w2 : w2[k] \in Y
  OBVIOUS
<1> QED BY <1>5, <1>6 DEF ToSet, Y

\* The worker puts files in Trash, and may lose track of one.
LEMMA RunsTrashKeeps ==
  ASSUME UndoInv, RunsTrash
  PROVE  UndoInv'
<1> DEFINE j == Head(jobs)
           a == j.action
           s == FoldLeft(PutInTrash, Batch, a.names)
<1>1. /\ jobs # <<>> /\ a.do = "trash" /\ jobs' = Tail(jobs)
      /\ holds' = s.holds /\ trashed' = s.trashed /\ tokens' = Len(s.trashed)
      /\ UNCHANGED <<inProgress, undoPending, undoWhenIdle, undoable, dialog, asked>>
  BY SMTT(60) DEF RunsTrash
<1>2. PICK kept \in {s.tokens} \cup {RemoveAt(s.tokens, i) : i \in DOMAIN s.tokens} :
        /\ untracked' = untracked \cup {s.trashed[t].file : t \in ToSet(s.tokens) \ ToSet(kept)}
        /\ completions' = Append(completions, [job |-> j, ok |-> kept # <<>>, tokens |-> kept])
  BY DEF RunsTrash
<1> DEFINE c == [job |-> j, ok |-> kept # <<>>, tokens |-> kept]
<1>3. /\ ActionsTyped /\ OneIn(holds, trashed) /\ ApartIn(trashed, Stack)
      /\ RestoresIn(holds, trashed, untracked, Stack)
  BY UndoInvIs
<1>4. j \in ActionJobs
  BY <1>1, <1>3 DEF ActionsTyped
<1>5. ~j.undo /\ a.names \in Seq(FileNames)
  BY <1>1, <1>4, JobKinds
<1>6. Stack \in Seq(Entries) /\ holds \in [FileNames -> Content] /\ trashed \in Seq(TrashItems)
      /\ undoable \in Seq(Entries)
  BY <1>3 DEF ActionsTyped
<1>7. s \in TrashedFrom(holds, trashed)
  BY <1>5, <1>6, PutInTrashDoes DEF Batch
<1> HIDE DEF s
<1>8. MayTrash(holds, trashed, s)
  BY <1>3, <1>6, <1>7 DEF MayTrash
<1>9. s.tokens \in Seq(Nat) /\ s.trashed \in Seq(TrashItems) /\ s.holds \in [FileNames -> Content]
      /\ Len(s.trashed) \in Nat
  BY <1>7 DEF TrashedFrom, Batches
<1>10. kept \in Seq(Nat) /\ ToSet(kept) \subseteq ToSet(s.tokens)
  BY <1>2, <1>9, RemoveAtPart
<1>11. c \in Completions /\ c.job = j /\ (c.ok <=> kept # <<>>) /\ c.tokens = kept
  BY <1>4, <1>10 DEF Completions
<1> HIDE DEF c
<1>12. /\ Stack' = Complete(Stack, c) /\ UndoFirst' /\ jobs' \in Seq(ActionJobs)
       /\ completions' \in Seq(Completions)
  <2>1. completions' = Append(completions, c)
    BY <1>2 DEF c
  <2> QED BY <2>1, <1>1, <1>11, WorkerStep
<1>13. Stack' = IF kept = <<>> THEN Stack ELSE Append(Stack, TrashEntry(kept))
  BY <1>1, <1>11, <1>12, CompleteIs
<1>14. TrashEntry(kept) \in Entries
  BY <1>10, EntryKinds
<1>15. Stack' \in Seq(Entries)
  BY <1>6, <1>13, <1>14
<1>16. ActionsTyped'
  BY <1>1, <1>3, <1>9, <1>12, <1>15 DEF ActionsTyped
<1>16a. untracked' = Gone(untracked, s, kept)
  BY <1>2 DEF Gone
<1>17. /\ ApartIn(s.trashed, Stack) /\ ApartIn(s.trashed, Append(Stack, TrashEntry(kept)))
       /\ RestoresIn(s.holds, s.trashed, untracked', Append(Stack, TrashEntry(kept)))
       /\ ToSet(kept) = {} => RestoresIn(s.holds, s.trashed, untracked', Stack)
  BY <1>16a, <1>3, <1>6, <1>8, <1>10, TrashCanBeUndone
<1>18. OneIn(s.holds, s.trashed)
  BY <1>8, TrashMoves
<1>19. kept = <<>> => ToSet(kept) = {}
  BY DEF ToSet
<1> QED BY <1>1, <1>12, <1>13, <1>16, <1>17, <1>18, <1>19, UndoInvNext

\* The worker takes files from Trash, as far as their places are free.
LEMMA RunsRestoreKeeps ==
  ASSUME UndoInv, RunsRestore
  PROVE  UndoInv'
<1> DEFINE j == Head(jobs)
           a == j.action
           s == FoldLeft(TakeFromTrash, Batch, a.tokens)
<1>1. /\ jobs # <<>> /\ a.do = "restore" /\ jobs' = Tail(jobs)
      /\ holds' = s.holds /\ trashed' = s.trashed
      /\ UNCHANGED <<tokens, untracked, inProgress, undoPending, undoWhenIdle, undoable, dialog, asked>>
  BY SMTT(60) DEF RunsRestore
<1>2. PICK stuck \in {<<>>} \cup {<<t>> : t \in ToSet(a.tokens) \ ToSet(s.tokens)} :
        completions' = Append(completions, [job |-> j, ok |-> s.tokens \o stuck = <<>>,
                                            tokens |-> s.tokens \o stuck])
  BY DEF RunsRestore
<1> DEFINE kept == s.tokens \o stuck
           c == [job |-> j, ok |-> kept = <<>>, tokens |-> kept]
<1>3. /\ ActionsTyped /\ OneIn(holds, trashed) /\ ApartIn(trashed, Stack)
      /\ RestoresIn(holds, trashed, untracked, Stack)
  BY UndoInvIs
<1>4. j \in ActionJobs
  BY <1>1, <1>3 DEF ActionsTyped
<1>5. j.undo /\ a.tokens \in Seq(Nat)
  BY <1>1, <1>4, JobKinds
<1>6. Stack \in Seq(Entries) /\ holds \in [FileNames -> Content] /\ trashed \in Seq(TrashItems)
      /\ undoable \in Seq(Entries) /\ Len(trashed) = tokens
  BY <1>3 DEF ActionsTyped
<1>7. completions' = Append(completions, c)
  BY <1>2
<1> HIDE DEF c
<1>8. Stack # <<>> /\ a = TakesBack(Last(Stack))
  <2>1. /\ jobs \in Seq(ActionJobs) /\ UndoFirst /\ Len(jobs) \in Nat \ {0} /\ 1 \in DOMAIN jobs /\ j = jobs[1]
    BY <1>1, <1>3 DEF ActionsTyped, UndoInv
  <2>2. completions = <<>> /\ undoable # <<>> /\ a = TakesBack(Last(undoable))
    BY <2>1, <1>5 DEF UndoFirst
  <2> QED BY <2>2, StackEmpty DEF Stack
<1>9. Last(Stack) = TrashEntry(a.tokens) /\ Last(Stack) \in Entries
  <2>1. Last(Stack) \in Entries
    BY <1>6, <1>8, FrontAndLast
  <2>2. Last(Stack).do # "rename"
    BY <1>1, <1>8 DEF TakesBack
  <2>3. Last(Stack) = TrashEntry(Last(Stack).tokens)
    BY <2>1, <2>2 DEF Entries, RenameActs, TrashEntry
  <2>4. a.tokens = Last(Stack).tokens
    BY <1>8, <2>2 DEF TakesBack
  <2> QED BY <2>1, <2>3, <2>4
<1>10. ToSet(a.tokens) \subseteq 1 .. Len(trashed)
  <2>1. TokensOf(TrashEntry(a.tokens)) = ToSet(a.tokens)
    BY <1>5, EntryKinds
  <2>2. TokensOf(Last(Stack)) \subseteq 1 .. Len(trashed)
    BY <1>3, <1>6, <1>8, ApartFront
  <2> QED BY <2>1, <2>2, <1>9
<1>11. s \in RestoredFrom(holds, trashed, a.tokens, Len(a.tokens))
  BY <1>5, <1>6, <1>10, TakeFromTrashDoes DEF Batch
<1> HIDE DEF s
<1>12. s.tokens \in Seq(Nat) /\ s.trashed \in Seq(TrashItems) /\ s.holds \in [FileNames -> Content]
       /\ Len(s.trashed) = Len(trashed) /\ ToSet(s.tokens) \subseteq ToSet(a.tokens)
  BY <1>11 DEF RestoredFrom, Batches
<1>13. kept \in Seq(Nat) /\ ToSet(s.tokens) \subseteq ToSet(kept) /\ ToSet(kept) \subseteq ToSet(a.tokens)
  <2>1. CASE stuck = <<>>
    <3>1. kept = s.tokens
      BY <2>1, <1>12
    <3> QED BY <3>1, <1>12
  <2>2. CASE stuck # <<>>
    <3>1. PICK t \in ToSet(a.tokens) : stuck = <<t>>
      BY <1>2, <2>2
    <3>2. t \in Nat
      BY <1>10, <1>6
    <3>3. kept = Append(s.tokens, t) /\ kept \in Seq(Nat)
      BY <1>12, <3>1, <3>2
    <3>4. ToSet(kept) = ToSet(s.tokens) \cup {t}
      BY <1>12, <3>3, ToSetAppend
    <3> QED BY <3>1, <3>3, <3>4, <1>12
  <2> QED BY <2>1, <2>2
<1> HIDE DEF kept
<1>14. c \in Completions /\ c.job = j /\ c.tokens = kept
  BY <1>4, <1>13 DEF Completions, c
<1>15. /\ Stack' = Complete(Stack, c) /\ UndoFirst' /\ jobs' \in Seq(ActionJobs)
       /\ completions' \in Seq(Completions)
  BY <1>1, <1>7, <1>14, WorkerStep
<1>16. TrashEntry(kept) \in Entries
  BY <1>13, EntryKinds
<1>17. Stack' = IF kept = <<>> THEN Front(Stack) ELSE Append(Front(Stack), TrashEntry(kept))
  <2>1. Stack' = IF kept = <<>> THEN Front(Stack) ELSE [Stack EXCEPT ![Len(Stack)] = TrashEntry(kept)]
    BY <1>1, <1>14, <1>15, CompleteIs
  <2>2. [Stack EXCEPT ![Len(Stack)] = TrashEntry(kept)] = Append(Front(Stack), TrashEntry(kept))
    BY <1>6, <1>8, <1>16, ReplaceLast
  <2> QED BY <2>1, <2>2
<1>18. Stack' \in Seq(Entries)
  <2>1. Front(Stack) \in Seq(Entries)
    BY <1>6, <1>8, FrontAndLast
  <2> QED BY <2>1, <1>16, <1>17
<1>19. ActionsTyped'
  BY <1>1, <1>3, <1>6, <1>12, <1>15, <1>18 DEF ActionsTyped
<1>20. MayRestore(holds, trashed, a.tokens, s, kept)
  BY <1>3, <1>5, <1>6, <1>10, <1>11, <1>13 DEF MayRestore
<1>21. /\ ApartIn(s.trashed, Front(Stack)) /\ ApartIn(s.trashed, Append(Front(Stack), TrashEntry(kept)))
       /\ RestoresIn(s.holds, s.trashed, untracked, Append(Front(Stack), TrashEntry(kept)))
       /\ ToSet(kept) = {} => RestoresIn(s.holds, s.trashed, untracked, Front(Stack))
  BY <1>3, <1>6, <1>8, <1>9, <1>20, RestoreUndoes
<1>22. OneIn(s.holds, s.trashed)
  BY <1>20, RestoreMoves
<1>23. kept = <<>> => ToSet(kept) = {}
  BY DEF ToSet
<1> QED BY <1>1, <1>15, <1>17, <1>19, <1>21, <1>22, <1>23, UndoInvNext
-----------------------------------------------------------------------------
\* At first nothing was done and nothing can be undone.
LEMMA ActionInitHolds == ActionInit => UndoInv
<1> SUFFICES ASSUME ActionInit PROVE UndoInv
  OBVIOUS
<1>1. /\ holds = [n \in FileNames |-> IF n \in Owned THEN n ELSE NoName]
      /\ trashed = <<>> /\ tokens = 0 /\ untracked = {} /\ jobs = <<>> /\ completions = <<>>
      /\ inProgress = 0 /\ undoable = <<>> /\ dialog = NoName
  BY DEF ActionInit
<1>2. Stack = <<>>
  BY <1>1, StackEmpty DEF Stack
<1>3. ActionsTyped
  BY <1>1, <1>2 DEF ActionsTyped, Content
<1>4. \A f \in Owned : f \in FileNames /\ holds[f] = f /\ \A n \in FileNames : holds[n] = f => n = f
  BY <1>1, FileKinds
<1>5. OnePlace
  BY <1>1, <1>4 DEF OnePlace
<1>6. TokensApart
  BY <1>2 DEF TokensApart
<1>7. UndoFirst
  BY <1>1 DEF UndoFirst
<1>8. StackRestores
  <2>1. ASSUME NEW f \in Owned PROVE BackFrom(trashed, Stack, f, PlaceIn(holds, f)) = f
    <3>1. PlaceIn(holds, f) = f
      BY <1>4, PlaceIs
    <3>2. MovesIn(trashed, <<>>, f) = <<>>
      BY DEF MovesIn
    <3>3. FoldRight(Back, <<>>, f) = f
      BY FoldsAgree, B!FoldRightEmpty, Zenon
    <3> QED BY <3>1, <3>2, <3>3, <1>2 DEF BackFrom
  <2> QED BY <2>1, StackRestoresIs
<1> QED BY <1>3, <1>5, <1>6, <1>7, <1>8 DEF UndoInv

\* The interface asks for something: the disk and what can be undone stay as they are.
LEMMA AskingKeeps ==
  ASSUME UndoInv, UNCHANGED <<holds, trashed, tokens, untracked>>, Stack' = Stack, UndoFirst',
         inProgress' \in Nat, jobs' \in Seq(ActionJobs), completions' \in Seq(Completions),
         undoable' \in Seq(Entries), dialog' \in FileNames \cup {NoName}
  PROVE  UndoInv'
<1>1. /\ ActionsTyped /\ OneIn(holds, trashed) /\ ApartIn(trashed, Stack)
      /\ RestoresIn(holds, trashed, untracked, Stack)
  BY UndoInvIs
<1>2. ActionsTyped'
  BY <1>1 DEF ActionsTyped
<1> QED BY <1>1, <1>2, UndoInvNext

\* A job is handed to the worker.
LEMMA SendKeeps ==
  ASSUME UndoInv, NEW job \in ActionJobs, ~job.undo, Send(job), UNCHANGED <<completions, undoable>>
  PROVE  UndoFirst' /\ jobs' \in Seq(ActionJobs) /\ inProgress' \in Nat
<1>1. /\ jobs \in Seq(ActionJobs) /\ inProgress \in Nat /\ UndoFirst /\ Len(completions) \in Nat
      /\ completions \in Seq(Completions)
  BY DEF UndoInv, ActionsTyped
<1>2. jobs' = Append(jobs, job) /\ inProgress' = inProgress + 1
  BY DEF Send
<1>3. /\ jobs' \in Seq(ActionJobs) /\ Len(jobs') = Len(jobs) + 1 /\ Len(jobs) \in Nat
      /\ jobs'[Len(jobs) + 1] = job /\ \A k \in 1 .. Len(jobs) : jobs'[k] = jobs[k]
  BY <1>1, <1>2
<1>4. ASSUME NEW k \in DOMAIN jobs', jobs'[k].undo
      PROVE  k = 1 /\ completions = <<>> /\ undoable # <<>> /\ jobs'[k].action = TakesBack(Last(undoable))
  <2>1. k \in 1 .. Len(jobs)
    BY <1>3, <1>4
  <2>2. k \in DOMAIN jobs /\ jobs'[k] = jobs[k]
    BY <1>1, <1>3, <2>1
  <2> QED BY <2>2, <1>1, <1>4 DEF UndoFirst
<1>5. UndoFirst'
  <2>1. inProgress' = Len(completions') + Len(jobs')
    BY <1>1, <1>2, <1>3 DEF UndoFirst
  <2> QED BY <2>1, <1>1, <1>4 DEF UndoFirst
<1> QED BY <1>1, <1>2, <1>3, <1>5
\* Undo is asked for: at once when nothing is under way, or when that is over.
LEMMA UndoKeeps ==
  ASSUME NEW waiting \in Nat, NEW entries \in Seq(Entries), NEW busy, Undo(waiting, entries, busy),
         jobs \in Seq(ActionJobs), waiting = Len(jobs), \A k \in DOMAIN jobs : ~jobs[k].undo \/ waiting # 0,
         undoable' = entries
  PROVE  /\ jobs' \in Seq(ActionJobs) /\ inProgress' \in Nat /\ inProgress' = Len(jobs')
         /\ jobs' = jobs \/ /\ jobs = <<>> /\ entries # <<>>
                            /\ jobs' = <<Job(TakesBack(Last(entries)), TRUE)>>
<1>1. CASE waiting # 0 \/ busy \/ entries = <<>>
  BY <1>1 DEF Undo
<1>2. CASE waiting = 0 /\ ~busy /\ entries # <<>>
  <2>1. jobs = <<>>
    <3>1. \A q \in Seq(ActionJobs) : Len(q) = 0 => q = <<>>
      OBVIOUS
    <3>2. Len(jobs) = 0
      BY <1>2
    <3> QED BY <3>1, <3>2
  <2>2. jobs' = Append(jobs, Job(TakesBack(Last(entries)), TRUE)) /\ inProgress' = 1
    BY <1>2 DEF Undo
  <2>3. Last(entries) \in Entries
    BY <1>2, FrontAndLast
  <2>4. TakesBack(Last(entries)) \in RenameActs \cup RestoreActs
    BY <2>3 DEF TakesBack, Entries, RenameActs, RestoreActs
  <2>5. Job(TakesBack(Last(entries)), TRUE) \in ActionJobs
    BY <2>4 DEF Job, ActionJobs
  <2>6. jobs' = <<Job(TakesBack(Last(entries)), TRUE)>>
    BY <2>1, <2>2
  <2>7. jobs' \in Seq(ActionJobs) /\ Len(jobs') = 1
    <3>1. \A job \in ActionJobs : <<job>> \in Seq(ActionJobs) /\ Len(<<job>>) = 1
      OBVIOUS
    <3> QED BY <2>5, <2>6, <3>1, Zenon
  <2> QED BY <1>2, <2>1, <2>2, <2>6, <2>7
<1> QED BY <1>1, <1>2

\* Undo is asked for.
LEMMA AsksUndoKeeps ==
  ASSUME UndoInv, AsksUndo
  PROVE  UndoInv'
<1>1. /\ Undo(inProgress, undoable, undoPending)
      /\ UNCHANGED <<holds, trashed, tokens, untracked, completions, undoable, dialog>>
  BY DEF AsksUndo, Disk
<1>2. /\ jobs \in Seq(ActionJobs) /\ completions \in Seq(Completions) /\ undoable \in Seq(Entries)
      /\ inProgress \in Nat /\ UndoFirst /\ Stack \in Seq(Entries) /\ dialog \in FileNames \cup {NoName}
  BY DEF UndoInv, ActionsTyped
<1>3. inProgress = Len(completions) + Len(jobs) /\ Len(completions) \in Nat /\ Len(jobs) \in Nat
  BY <1>2 DEF UndoFirst
<1>4. Stack' = Stack
  BY <1>1 DEF Stack
<1>5. CASE inProgress # 0
  <2>1. jobs' = jobs /\ inProgress' = inProgress
    BY <1>1, <1>5 DEF Undo
  <2>2. UndoFirst'
    BY <2>1, <1>1, <1>2 DEF UndoFirst
  <2> QED BY <2>1, <2>2, <1>1, <1>2, <1>4, AskingKeeps
<1>6. CASE inProgress = 0
  <2>1. Len(jobs) = 0 /\ completions = <<>> /\ jobs = <<>>
    BY <1>2, <1>3, <1>6
  <2>2. /\ jobs' \in Seq(ActionJobs) /\ inProgress' \in Nat /\ inProgress' = Len(jobs')
        /\ jobs' = jobs \/ /\ jobs = <<>> /\ undoable # <<>>
                           /\ jobs' = <<Job(TakesBack(Last(undoable)), TRUE)>>
    <3>1. \A k \in DOMAIN jobs : ~jobs[k].undo \/ inProgress # 0
      BY <2>1
    <3>2. inProgress = Len(jobs) /\ undoable' = undoable
      BY <1>1, <1>6, <2>1
    <3> QED BY <3>1, <3>2, <1>1, <1>2, UndoKeeps
  <2>3. UndoFirst'
    <3>1. \A k \in DOMAIN jobs' : k = 1 /\ undoable # <<>> /\ jobs'[k].action = TakesBack(Last(undoable))
      BY <2>1, <2>2 DEF Job
    <3>2. inProgress' = Len(completions') + Len(jobs')
      BY <1>1, <2>1, <2>2
    <3> QED BY <3>1, <3>2, <1>1, <2>1 DEF UndoFirst
  <2>4. completions' \in Seq(Completions) /\ undoable' \in Seq(Entries) /\ dialog' \in FileNames \cup {NoName}
    BY <1>1, <1>2
  <2> QED BY <2>2, <2>3, <2>4, <1>1, <1>4, AskingKeeps
<1> QED BY <1>5, <1>6

\* The interface takes in what is finished.
LEMMA UpdatesKeeps ==
  ASSUME UndoInv, Updates
  PROVE  UndoInv'
<1> DEFINE entries == FoldLeft(Complete, undoable, completions)
           waiting == inProgress - Len(completions)
           busy == undoPending /\ \A c \in ToSet(completions) : ~c.job.undo
           failed == SelectLastInSeq(completions, Reopens)
<1>1. /\ completions # <<>> /\ completions' = <<>> /\ undoable' = entries
      /\ dialog' = IF failed = 0 THEN dialog ELSE completions[failed].job.action.from
      /\ IF undoWhenIdle /\ waiting = 0 THEN Undo(0, entries, busy)
         ELSE inProgress' = waiting /\ undoPending' = busy /\ UNCHANGED <<jobs, undoWhenIdle>>
      /\ UNCHANGED <<holds, trashed, tokens, untracked>>
  BY DEF Updates, Disk
<1>2. /\ jobs \in Seq(ActionJobs) /\ completions \in Seq(Completions) /\ undoable \in Seq(Entries)
      /\ inProgress \in Nat /\ UndoFirst /\ Stack \in Seq(Entries) /\ dialog \in FileNames \cup {NoName}
  BY DEF UndoInv, ActionsTyped
<1>3. entries = Stack
  BY DEF Stack
<1>4. Stack' = Stack
  BY <1>1, StackEmpty DEF Stack
<1>5. /\ waiting = Len(jobs) /\ Len(jobs) \in Nat /\ Len(completions) \in Nat
      /\ \A k \in DOMAIN jobs : ~jobs[k].undo
  BY <1>1, <1>2 DEF UndoFirst
<1>6. dialog' \in FileNames \cup {NoName}
  <2> DEFINE I == {i \in 1 .. Len(completions) : Reopens(completions[i])}
  <2>1. failed = IF I # {} THEN Max(I) ELSE 0
    BY Zenon DEF SelectLastInSeq
  <2>2. CASE I = {}
    BY <2>1, <2>2, <1>1, <1>2
  <2>3. CASE I # {}
    <3>1. \E x \in I : \A y \in I : y <= x
      <4> DEFINE T == {Len(completions) - i : i \in I}
      <4>1. T \subseteq Nat /\ T # {}
        BY <1>5, <2>3
      <4>2. PICK n \in T : \A m \in T : n <= m
        BY <4>1, C!LeastNumber
      <4>3. PICK x \in I : n = Len(completions) - x
        BY <4>2
      <4>4. \A y \in I : Len(completions) - x <= Len(completions) - y
        BY <4>2, <4>3
      <4> QED BY <4>4, <1>5
    <3>2. Max(I) \in I
      BY <3>1, Zenon DEF Max
    <3>3. failed = Max(I) /\ failed \in 1 .. Len(completions) /\ Reopens(completions[failed])
      BY <2>1, <2>3, <3>2
    <3> HIDE DEF I, failed
    <3>4. completions[failed] \in Completions /\ failed # 0
      BY <3>3, <1>2
    <3>5. completions[failed].job \in ActionJobs /\ completions[failed].job.action.do = "rename"
      BY <3>3, <3>4 DEF Completions, Reopens
    <3>6. completions[failed].job.action.from \in FileNames
      BY <3>5, JobKinds
    <3> QED BY <3>4, <3>6, <1>1
  <2> QED BY <2>2, <2>3
<1> HIDE DEF entries, waiting, busy, failed
<1>7. /\ jobs' \in Seq(ActionJobs) /\ inProgress' \in Nat /\ inProgress' = Len(jobs')
      /\ jobs' = jobs \/ /\ jobs = <<>> /\ entries # <<>>
                         /\ jobs' = <<Job(TakesBack(Last(entries)), TRUE)>>
  <2>1. CASE undoWhenIdle /\ waiting = 0
    <3>1. entries \in Seq(Entries) /\ 0 \in Nat /\ Undo(0, entries, busy) /\ 0 = Len(jobs)
      BY <2>1, <1>1, <1>2, <1>3, <1>5
    <3> QED BY <3>1, <1>1, <1>2, <1>5, UndoKeeps
  <2>2. CASE ~(undoWhenIdle /\ waiting = 0)
    BY <2>2, <1>1, <1>2, <1>5
  <2> QED BY <2>1, <2>2
<1>8. UndoFirst'
  <2>1. \A k \in DOMAIN jobs' : jobs'[k].undo =>
          k = 1 /\ entries # <<>> /\ jobs'[k].action = TakesBack(Last(entries))
    BY <1>5, <1>7 DEF Job
  <2>2. inProgress' = Len(completions') + Len(jobs')
    BY <1>1, <1>7
  <2> QED BY <2>1, <2>2, <1>1 DEF UndoFirst
<1>9. completions' \in Seq(Completions) /\ undoable' \in Seq(Entries)
  BY <1>1, <1>2, <1>3
<1> QED BY <1>1, <1>4, <1>6, <1>7, <1>8, <1>9, AskingKeeps

\* An action is asked for.
LEMMA AsksKeep ==
  ASSUME UndoInv, NEW n \in FileNames, NEW o \in FileNames,
         OpensRename(n) \/ ConfirmsRename(n) \/ Trashes(<<n>>) \/ Trashes(<<n, o>>)
  PROVE  UndoInv'
<1>1. /\ jobs \in Seq(ActionJobs) /\ completions \in Seq(Completions) /\ undoable \in Seq(Entries)
      /\ inProgress \in Nat /\ UndoFirst /\ dialog \in FileNames \cup {NoName}
  BY DEF UndoInv, ActionsTyped
<1>2. CASE OpensRename(n)
  <2>1. UNCHANGED <<holds, trashed, tokens, untracked, jobs, completions, inProgress, undoable>> /\ dialog' = n
    BY <1>2 DEF OpensRename, Disk
  <2>2. Stack' = Stack
    BY <2>1 DEF Stack
  <2>3. UndoFirst'
    BY <2>1, <1>1 DEF UndoFirst
  <2> QED BY <2>1, <2>2, <2>3, <1>1, AskingKeeps
<1>3. CASE ConfirmsRename(n)
  <2> DEFINE job == Job([do |-> "rename", from |-> dialog, to |-> n], FALSE)
  <2>1. /\ UNCHANGED <<holds, trashed, tokens, untracked, completions, undoable>>
        /\ dialog # NoName /\ dialog' = NoName /\ Send(job)
    BY <1>3 DEF ConfirmsRename, Disk
  <2>2. job \in ActionJobs /\ ~job.undo
    BY <1>1, <2>1 DEF Job, ActionJobs, RenameActs
  <2>3. Stack' = Stack
    BY <2>1 DEF Stack
  <2> HIDE DEF job
  <2>4. UndoFirst' /\ jobs' \in Seq(ActionJobs) /\ inProgress' \in Nat
    BY <2>1, <2>2, SendKeeps
  <2> QED BY <2>1, <2>3, <2>4, <1>1, AskingKeeps
<1>4. ASSUME NEW names \in Seq(FileNames), Trashes(names) PROVE UndoInv'
  <2> DEFINE job == Job([do |-> "trash", names |-> names], FALSE)
  <2>1. UNCHANGED <<holds, trashed, tokens, untracked, completions, undoable, dialog>> /\ Send(job)
    BY <1>4 DEF Trashes, Disk
  <2>2. job \in ActionJobs /\ ~job.undo
    BY DEF Job, ActionJobs, TrashActs
  <2>3. Stack' = Stack
    BY <2>1 DEF Stack
  <2> HIDE DEF job
  <2>4. UndoFirst' /\ jobs' \in Seq(ActionJobs) /\ inProgress' \in Nat
    BY <2>1, <2>2, SendKeeps
  <2> QED BY <2>1, <2>3, <2>4, <1>1, AskingKeeps
<1>5. <<n>> \in Seq(FileNames) /\ <<n, o>> \in Seq(FileNames)
  OBVIOUS
<1> QED BY <1>2, <1>3, <1>4, <1>5

\* Someone else puts a file under a free name.
LEMMA OccupiesKeeps ==
  ASSUME UndoInv, NEW n \in FileNames, Occupies(n)
  PROVE  UndoInv'
<1>1. /\ ActionsTyped /\ OneIn(holds, trashed) /\ ApartIn(trashed, Stack) /\ UndoFirst
      /\ RestoresIn(holds, trashed, untracked, Stack)
  BY UndoInvIs
<1>2. /\ holds[n] \in {NoName, Foreign}
      /\ holds' = [holds EXCEPT ![n] = IF holds[n] = NoName THEN Foreign ELSE NoName]
      /\ UNCHANGED <<trashed, tokens, untracked, jobs, completions, inProgress, undoable, dialog>>
  BY DEF Occupies
<1>3. holds \in [FileNames -> Content]
  BY <1>1 DEF ActionsTyped
<1>4. holds' \in [FileNames -> Content]
  BY <1>2, <1>3 DEF Content
<1>5. \A f \in Owned : \A m \in FileNames : holds'[m] = f <=> holds[m] = f
  BY <1>2, <1>3, FileKinds
<1>6. Stack' = Stack
  BY <1>2 DEF Stack
<1>7. ActionsTyped'
  BY <1>1, <1>2, <1>4, <1>6 DEF ActionsTyped
<1>8. OneIn(holds', trashed')
  BY <1>1, <1>2, <1>5 DEF OneIn
<1>9. \A f \in Owned : PlaceIn(holds', f) = PlaceIn(holds, f)
  BY <1>5 DEF PlaceIn
<1>10. RestoresIn(holds', trashed', untracked', Stack')
  BY <1>1, <1>2, <1>6, <1>9 DEF RestoresIn
<1>11. UndoFirst'
  BY <1>1, <1>2 DEF UndoFirst
<1> QED BY <1>1, <1>2, <1>6, <1>7, <1>8, <1>10, <1>11, UndoInvNext

\* Every step keeps the invariant.
LEMMA ActionNextKeeps == UndoInv /\ [ActionNext]_actionVars => UndoInv'
<1> SUFFICES ASSUME UndoInv, [ActionNext]_actionVars PROVE UndoInv'
  OBVIOUS
<1>1. ASSUME NEW n \in FileNames, OpensRename(n) \/ ConfirmsRename(n) \/ Trashes(<<n>>) PROVE UndoInv'
  BY <1>1, AsksKeep
<1>2. ASSUME NEW n \in FileNames, Occupies(n) PROVE UndoInv'
  BY <1>2, OccupiesKeeps
<1>3. ASSUME NEW n \in FileNames, NEW o \in FileNames, Trashes(<<n, o>>) PROVE UndoInv'
  BY <1>3, AsksKeep
<1>4. CASE AsksUndo
  BY <1>4, AsksUndoKeeps
<1>5. CASE RunsRename
  BY <1>5, RunsRenameKeeps
<1>6. CASE RunsTrash
  BY <1>6, RunsTrashKeeps
<1>7. CASE RunsRestore
  BY <1>7, RunsRestoreKeeps
<1>8. CASE Updates
  BY <1>8, UpdatesKeeps
<1>9. CASE UNCHANGED actionVars
  <2>1. UNCHANGED <<holds, trashed, tokens, untracked, jobs, completions, inProgress, undoable, dialog>>
    BY <1>9 DEF actionVars
  <2>2. Stack' = Stack
    BY <2>1 DEF Stack
  <2>3. UndoFirst'
    BY <2>1 DEF UndoInv, UndoFirst
  <2>4. /\ jobs \in Seq(ActionJobs) /\ completions \in Seq(Completions) /\ undoable \in Seq(Entries)
        /\ inProgress \in Nat /\ dialog \in FileNames \cup {NoName}
    BY DEF UndoInv, ActionsTyped
  <2> QED BY <2>1, <2>2, <2>3, <2>4, AskingKeeps
<1> QED BY <1>1, <1>2, <1>3, <1>4, <1>5, <1>6, <1>7, <1>8, <1>9 DEF ActionNext

\* With nothing under way, the list the interface shows is the whole list.
LEMMA UndoInvImplies == UndoInv => UndoRestores
<1> SUFFICES ASSUME UndoInv, inProgress = 0, NEW f \in Owned \ untracked
             PROVE  FoldRight(Back, [k \in DOMAIN undoable |-> UndoneFor(f, undoable[k])], Place(f)) = f
  BY DEF UndoRestores
<1>1. completions = <<>>
  BY DEF UndoInv, UndoFirst, ActionsTyped
<1>2. Stack = undoable
  BY <1>1, StackEmpty DEF Stack
<1>3. FoldRight(Back, Moves(f), Place(f)) = f
  BY DEF UndoInv, StackRestores
<1> QED BY <1>2, <1>3, Zenon DEF Moves

\* Whenever nothing is under way, undoing everything would take every file of the
\* user back to where it was at first, but for those Trash lost track of
\* (file_operations.rs, completion.rs, trash.rs): for every folder, any number of
\* actions, failures and undos, in any order of asking and finishing.
THEOREM UndoRestoresHolds == ActionSpec => []UndoRestores
<1>1. ActionInit => UndoInv
  BY ActionInitHolds
<1>2. UndoInv /\ [ActionNext]_actionVars => UndoInv'
  BY ActionNextKeeps
<1>3. UndoInv => UndoRestores
  BY UndoInvImplies
<1> QED BY <1>1, <1>2, <1>3, PTL DEF ActionSpec
=============================================================================
