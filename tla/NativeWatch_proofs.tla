------------------------- MODULE NativeWatch_proofs -------------------------
(***************************************************************************)
(* The live watch of a mount ends at an exact index: for every tree of      *)
(* paths, any number of changes, and however events are cut into batches.   *)
(*                                                                         *)
(* The argument: were all that is still queued or held read at this moment  *)
(* and put on top of the burst and the index, the index would be the mount  *)
(* (WillBeExact).  A batch is read against the mount as it is when it is    *)
(* read, so nothing is lost by waiting.  When the mount changes, what the   *)
(* earlier events find changes with it, but only within the paths that the  *)
(* new event, which is read after them, tells all about (StepSound).  That  *)
(* needs the folder of an event to be, as long as it lives, where the name  *)
(* of the event is (EventsStay): folders do not move, and what is in a      *)
(* folder is removed before it (MountIsTree).                               *)
(***************************************************************************)
EXTENDS NativeWatch, SequenceTheorems, FiniteSetTheorems, TLAPS

\* What is found of an event on a given mount.
LivesIn(n, h) == h \in {RootHandle} \cup {n[p] : p \in {q \in Paths : n[q] # Gone}}
Missed == [handle |-> Unseen]
FoundAt(n, mask, l) ==
  IF ~LivesIn(n, l.parent) THEN Missed
  ELSE IF l.role = "old" \/ mask = "delete" THEN [path |-> l.path, handle |-> Gone, folder |-> IsDir(l.path)]
  ELSE [path |-> l.path, handle |-> n[l.path], folder |-> FALSE]
FoundClosed(n, h) ==
  IF LivesIn(n, h) THEN [path |-> CHOOSE p \in Paths : n[p] = h, handle |-> h, folder |-> FALSE] ELSE Missed
FindsIn(n, e) ==
  IF e.mask = "close" THEN <<FoundClosed(n, e.target)>>
  ELSE [i \in DOMAIN e.locations |-> FoundAt(n, e.mask, e.locations[i])]
FindsAll(n, events) == [k \in DOMAIN events |-> FindsIn(n, events[k])]

\* What one change says of a path, and how changes show on an index.
Word(c, q) ==
  IF c.handle = Unseen THEN Unseen
  ELSE IF c.folder THEN IF q \in AtOrBelow(c.path) THEN Gone ELSE Unseen
  ELSE IF q = c.path THEN c.handle ELSE Unseen
Shows(view, c) == [q \in Paths |-> IF Word(c, q) = Unseen THEN view[q] ELSE Word(c, q)]
ShowsAll(view, found) == FoldLeft(Shows, view, found)
After(view, founds) == FoldLeft(ShowsAll, view, founds)

\* The index once a burst is committed to it.
View(burst, index) ==
  [p \in Paths |-> IF burst.rows[p] # Unseen THEN burst.rows[p]
                   ELSE IF Ancestors(p) \cap burst.prefixes # {} THEN Gone ELSE index[p]]

Handles == Nat
Bursts == [rows : [Paths -> Handles \cup {Unseen}], prefixes : SUBSET Paths]
Parent(p) == CHOOSE q \in Above[p] : IsParent(q, p)
EventLocations == [role : {"current", "old", "new"}, path : WatchedPaths, parent : Handles]
WatchEvents == [mask : {"create", "delete", "rename", "close", "overflow"}, target : Handles,
                locations : Seq(EventLocations)]

MountTyped ==
  /\ handles \in Nat /\ names \in [Paths -> 0 .. handles] /\ heard \in [Paths -> Handles]
  /\ held \in Seq(WatchEvents) /\ queue \in Seq(WatchEvents) /\ pending \in Bursts
  /\ blind \in BOOLEAN

\* What is in a folder has every folder above it; a handle is that of one name.
TreeOf(n) ==
  /\ \A p \in Paths : n[p] # Gone => p \in WatchedPaths /\ \A q \in Above[p] : n[q] # Gone
  /\ \A p, q \in Paths : n[p] # Gone /\ n[p] = n[q] => p = q
MountIsTree == TreeOf(names)

\* The folder of an event is, while it lives, where the event's name is; the
\* handle of a folder never names anything else.
FolderStays(n, top, l) ==
  /\ l.parent <= top
  /\ IF Above[l.path] = {} THEN l.parent = RootHandle
     ELSE l.parent # RootHandle /\ \A q \in Paths : n[q] = l.parent => q = Parent(l.path)
EventOk(n, top, e) ==
  /\ \A i \in DOMAIN e.locations : FolderStays(n, top, e.locations[i])
  /\ e.mask = "close" => e.target \in 1 .. top

EventsOk(n, top, events) == \A k \in DOMAIN events : EventOk(n, top, events[k])
EventsStay == EventsOk(names, handles, held \o queue)

\* If everything still to be read were read now, the index would be exact.
Exact(n, index, events) == After(index, FindsAll(n, events)) = n
WillBeExact == ~blind => Exact(names, View(pending, heard), held \o queue)

WatchInv == MountTyped /\ MountIsTree /\ EventsStay /\ WillBeExact
-----------------------------------------------------------------------------
Said == INSTANCE FoldTheory WITH Op <- Adds
Gathered == INSTANCE FoldTheory WITH Op <- Collect
Shown == INSTANCE FoldTheory WITH Op <- Shows
ShownAll == INSTANCE FoldTheory WITH Op <- ShowsAll

\* The folds of the model are those the theory of folds is about.
LEMMA WatchFoldsAgree ==
  /\ \A base, seq : Said!FoldLeft(Adds, base, seq) = FoldLeft(Adds, base, seq)
  /\ \A base, seq : Gathered!FoldLeft(Collect, base, seq) = FoldLeft(Collect, base, seq)
  /\ \A base, seq : Shown!FoldLeft(Shows, base, seq) = FoldLeft(Shows, base, seq)
  /\ \A base, seq : ShownAll!FoldLeft(ShowsAll, base, seq) = FoldLeft(ShowsAll, base, seq)
<1>1. \A base, seq : Said!FoldLeft(Adds, base, seq) = FoldLeft(Adds, base, seq)
  BY Zenon DEF FoldLeft, MapThenFoldSet, Said!FoldLeft, Said!MapThenFoldSet, Max, Said!Max
<1>2. \A base, seq : Gathered!FoldLeft(Collect, base, seq) = FoldLeft(Collect, base, seq)
  BY Zenon DEF FoldLeft, MapThenFoldSet, Gathered!FoldLeft, Gathered!MapThenFoldSet, Max, Gathered!Max
<1>3. \A base, seq : Shown!FoldLeft(Shows, base, seq) = FoldLeft(Shows, base, seq)
  BY Zenon DEF FoldLeft, MapThenFoldSet, Shown!FoldLeft, Shown!MapThenFoldSet, Max, Shown!Max
<1>4. \A base, seq : ShownAll!FoldLeft(ShowsAll, base, seq) = FoldLeft(ShowsAll, base, seq)
  BY Zenon DEF FoldLeft, MapThenFoldSet, ShownAll!FoldLeft, ShownAll!MapThenFoldSet, Max, ShownAll!Max
<1> QED BY <1>1, <1>2, <1>3, <1>4

\* The values a fold goes through.
SaidSteps(f, burst, found, n) == f[0] = burst /\ \A k \in 1 .. n : f[k] = Adds(f[k - 1], found[k])
GatheredSteps(f, burst, founds, n) == f[0] = burst /\ \A k \in 1 .. n : f[k] = Collect(f[k - 1], founds[k])
ShownSteps(f, view, found, n) == f[0] = view /\ \A k \in 1 .. n : f[k] = Shows(f[k - 1], found[k])
ShownAllSteps(f, view, founds, n) == f[0] = view /\ \A k \in 1 .. n : f[k] = ShowsAll(f[k - 1], founds[k])

\* What one event adds to a burst, change by change.
LEMMA SaidStepwise ==
  ASSUME NEW burst, NEW found, NEW n \in Nat, DOMAIN found = 1 .. n
  PROVE  \E f : SaidSteps(f, burst, found, n) /\ Collect(burst, found) = f[n]
<1>1. PICK f : Said!RunsLeft(f, burst, found, n) /\ Said!FoldLeft(Adds, burst, found) = f[n]
  BY Said!LeftSteps, Zenon
<1> QED BY <1>1, WatchFoldsAgree, Zenon DEF Said!RunsLeft, SaidSteps, Collect

\* A burst, event by event.
LEMMA GatheredStepwise ==
  ASSUME NEW burst, NEW founds, NEW n \in Nat, DOMAIN founds = 1 .. n
  PROVE  \E f : GatheredSteps(f, burst, founds, n) /\ FoldLeft(Collect, burst, founds) = f[n]
<1>1. PICK f : Gathered!RunsLeft(f, burst, founds, n) /\ Gathered!FoldLeft(Collect, burst, founds) = f[n]
  BY Gathered!LeftSteps, Zenon
<1> QED BY <1>1, WatchFoldsAgree, Zenon DEF Gathered!RunsLeft, GatheredSteps

\* What one event shows on an index, change by change.
LEMMA ShownStepwise ==
  ASSUME NEW view, NEW found, NEW n \in Nat, DOMAIN found = 1 .. n
  PROVE  \E f : ShownSteps(f, view, found, n) /\ ShowsAll(view, found) = f[n]
<1>1. PICK f : Shown!RunsLeft(f, view, found, n) /\ Shown!FoldLeft(Shows, view, found) = f[n]
  BY Shown!LeftSteps, Zenon
<1> QED BY <1>1, WatchFoldsAgree, Zenon DEF Shown!RunsLeft, ShownSteps, ShowsAll

\* What events show on an index, one after the other.
LEMMA ShownAllStepwise ==
  ASSUME NEW view, NEW founds, NEW n \in Nat, DOMAIN founds = 1 .. n
  PROVE  \E f : ShownAllSteps(f, view, founds, n) /\ After(view, founds) = f[n]
<1>1. PICK f : ShownAll!RunsLeft(f, view, founds, n) /\ ShownAll!FoldLeft(ShowsAll, view, founds) = f[n]
  BY ShownAll!LeftSteps, Zenon
<1> QED BY <1>1, WatchFoldsAgree, Zenon DEF ShownAll!RunsLeft, ShownAllSteps, After

\* Induction over the natural numbers.
LEMMA NaturalInduction ==
  ASSUME NEW S, 0 \in S, \A n \in Nat : n \in S => n + 1 \in S
  PROVE  \A n \in Nat : n \in S
BY Said!Induction, Zenon

\* Nothing found changes nothing, and what is found later shows later.
LEMMA AfterNothing == \A view : After(view, <<>>) = view /\ ShowsAll(view, <<>>) = view
<1>1. \A view : After(view, <<>>) = view
  BY WatchFoldsAgree, ShownAll!FoldLeftEmpty, Zenon DEF After
<1>2. \A view : ShowsAll(view, <<>>) = view
  BY WatchFoldsAgree, Shown!FoldLeftEmpty, Zenon DEF ShowsAll
<1> QED BY <1>1, <1>2

\* One change shows as itself.
LEMMA ShowsOne == \A view, c : ShowsAll(view, <<c>>) = Shows(view, c)
<1> SUFFICES ASSUME NEW view, NEW c PROVE ShowsAll(view, <<c>>) = Shows(view, c)
  OBVIOUS
<1>1. DOMAIN <<c>> = 1 .. 1 /\ <<c>>[1] = c /\ 1 \in Nat
  OBVIOUS
<1>2. PICK f : ShownSteps(f, view, <<c>>, 1) /\ ShowsAll(view, <<c>>) = f[1]
  BY <1>1, ShownStepwise, Zenon
<1>3. f[1] = Shows(f[0], c) /\ f[0] = view
  <2>1. 1 \in 1 .. 1 /\ 1 - 1 = 0
    OBVIOUS
  <2> QED BY <1>1, <1>2, <2>1 DEF ShownSteps
<1> QED BY <1>2, <1>3

\* Two changes show one after the other.
LEMMA ShowsTwo == \A view, c, d : ShowsAll(view, <<c, d>>) = Shows(Shows(view, c), d)
<1> SUFFICES ASSUME NEW view, NEW c, NEW d PROVE ShowsAll(view, <<c, d>>) = Shows(Shows(view, c), d)
  OBVIOUS
<1>1. DOMAIN <<c, d>> = 1 .. 2 /\ <<c, d>>[1] = c /\ <<c, d>>[2] = d /\ 2 \in Nat
  OBVIOUS
<1>2. PICK f : ShownSteps(f, view, <<c, d>>, 2) /\ ShowsAll(view, <<c, d>>) = f[2]
  BY ZenonT(60), <1>1, ShownStepwise
<1>3. f[1] = Shows(f[0], c) /\ f[0] = view /\ f[2] = Shows(f[1], d)
  <2>1. 1 \in 1 .. 2 /\ 1 - 1 = 0 /\ 2 \in 1 .. 2 /\ 2 - 1 = 1
    OBVIOUS
  <2> QED BY <1>1, <1>2, <2>1 DEF ShownSteps
<1> QED BY <1>2, <1>3

FindsInto(n, events) == {FindsIn(n, events[k]) : k \in DOMAIN events}

\* What is found of events, event by event.
LEMMA FindsAllSeq ==
  ASSUME NEW X, NEW events \in Seq(X), NEW n
  PROVE  /\ FindsAll(n, events) \in Seq(FindsInto(n, events)) /\ Len(FindsAll(n, events)) = Len(events)
         /\ DOMAIN FindsAll(n, events) = 1 .. Len(events) /\ Len(events) \in Nat
         /\ \A k \in 1 .. Len(events) : FindsAll(n, events)[k] = FindsIn(n, events[k])
<1> DEFINE F == [k \in 1 .. Len(events) |-> FindsIn(n, events[k])]
           Y == FindsInto(n, events)
<1>1. Len(events) \in Nat /\ DOMAIN events = 1 .. Len(events)
  OBVIOUS
<1>2. FindsAll(n, events) = F
  BY <1>1 DEF FindsAll
<1>3. \A k \in 1 .. Len(events) : FindsIn(n, events[k]) \in Y
  BY <1>1 DEF FindsInto
<1>4. F \in Seq(Y)
  <2> HIDE DEF Y
  <2> QED BY <1>1, <1>3, IsASeq
<1>5. DOMAIN F = 1 .. Len(events) /\ \A k \in 1 .. Len(events) : F[k] = FindsIn(n, events[k])
  OBVIOUS
<1>6. Len(F) = Len(events)
  <2> HIDE DEF Y, F
  <2> QED BY <1>1, <1>4, <1>5
<1> QED BY <1>1, <1>2, <1>4, <1>5, <1>6, Zenon DEF Y

\* What is found of later events shows after what is found of the earlier.
LEMMA AfterConcat ==
  ASSUME NEW X, NEW events \in Seq(X), NEW more \in Seq(X), NEW n, NEW view
  PROVE  After(view, FindsAll(n, events \o more)) = After(After(view, FindsAll(n, events)), FindsAll(n, more))
<1> DEFINE F == FindsAll(n, events)
           G == FindsAll(n, more)
           all == events \o more
           H == FindsAll(n, all)
           Y == FindsInto(n, all)
           a == Len(events)
           b == Len(more)
<1>1. /\ all \in Seq(X) /\ a \in Nat /\ b \in Nat /\ Len(all) = a + b
      /\ \A k \in 1 .. a : all[k] = events[k]
      /\ \A k \in 1 .. b : all[a + k] = more[k]
      /\ DOMAIN all = 1 .. a + b
  OBVIOUS
<1> HIDE DEF all
<1>2. /\ H \in Seq(Y) /\ Len(H) = a + b
      /\ \A k \in 1 .. a + b : H[k] = FindsIn(n, all[k])
  BY <1>1, FindsAllSeq
<1>3. /\ F \in Seq(FindsInto(n, events)) /\ Len(F) = a /\ DOMAIN F = 1 .. a
      /\ \A k \in 1 .. a : F[k] = FindsIn(n, events[k])
  BY FindsAllSeq
<1>4. /\ G \in Seq(FindsInto(n, more)) /\ Len(G) = b /\ DOMAIN G = 1 .. b
      /\ \A k \in 1 .. b : G[k] = FindsIn(n, more[k])
  BY FindsAllSeq
<1>5. FindsInto(n, events) \subseteq Y
  <2> SUFFICES ASSUME NEW k \in DOMAIN events PROVE FindsIn(n, events[k]) \in Y
    BY DEF FindsInto
  <2>1. k \in 1 .. a /\ k \in DOMAIN all /\ all[k] = events[k]
    BY <1>1
  <2> QED BY <2>1 DEF FindsInto
<1>6. FindsInto(n, more) \subseteq Y
  <2> SUFFICES ASSUME NEW k \in DOMAIN more PROVE FindsIn(n, more[k]) \in Y
    BY DEF FindsInto
  <2>1. k \in 1 .. b /\ a + k \in DOMAIN all /\ all[a + k] = more[k]
    BY <1>1
  <2> QED BY <2>1 DEF FindsInto
<1> HIDE DEF F, G, H, Y, a, b
<1>7. F \in Seq(Y) /\ G \in Seq(Y)
  <2>1. \A S : S \subseteq Y => \A s \in Seq(S) : s \in Seq(Y)
    OBVIOUS
  <2> QED BY <1>3, <1>4, <1>5, <1>6, <2>1
<1>8. H = F \o G
  <2> DEFINE both == F \o G
  <2>1. /\ both \in Seq(Y) /\ Len(both) = a + b
        /\ \A k \in 1 .. a + b : both[k] = IF k <= a THEN F[k] ELSE G[k - a]
    BY ZenonT(60), <1>3, <1>4, <1>7, ConcatProperties
  <2> HIDE DEF both
  <2>2. ASSUME NEW k \in 1 .. a + b PROVE H[k] = both[k]
    <3>1. CASE k <= a
      <4>1. k \in 1 .. a
        BY <1>1, <3>1
      <4> QED BY <1>1, <1>2, <1>3, <2>1, <4>1
    <3>2. CASE k > a
      <4>1. k - a \in 1 .. b /\ a + (k - a) = k /\ ~(k <= a)
        BY <1>1, <3>2
      <4>2. all[k] = more[k - a]
        BY <1>1, <4>1
      <4> QED BY <1>2, <1>4, <2>1, <4>1, <4>2
    <3> QED BY <1>1, <3>1, <3>2
  <2>3. H = both
    BY <1>2, <2>1, <2>2, SeqEqual
  <2> QED BY <2>3 DEF both
<1>9. ShownAll!FoldLeft(ShowsAll, view, F \o G)
      = ShownAll!FoldLeft(ShowsAll, ShownAll!FoldLeft(ShowsAll, view, F), G)
  <2>1. \A Z, s, t, v : s \in Seq(Z) /\ t \in Seq(Z) =>
          ShownAll!FoldLeft(ShowsAll, v, s \o t) = ShownAll!FoldLeft(ShowsAll, ShownAll!FoldLeft(ShowsAll, v, s), t)
    BY ShownAll!FoldLeftConcat, SMT
  <2> QED BY <1>7, <2>1, SMT
<1> QED BY ZenonT(60), <1>8, <1>9, WatchFoldsAgree DEF After, F, G, H, all

\* What is found on two mounts says the same of every path outside a set.
SameOutside(D, c, d) == \A q \in Paths \ D : Word(c, q) = Word(d, q)
SameFound(D, found, other) ==
  \E m \in Nat : /\ DOMAIN found = 1 .. m /\ DOMAIN other = 1 .. m
                 /\ \A k \in 1 .. m : SameOutside(D, found[k], other[k])
SameView(D, view, other) == \A q \in Paths \ D : view[q] = other[q]

\* Changes that say the same outside a set show the same outside it.
LEMMA ShowsAlike ==
  ASSUME NEW D, NEW view, NEW other, SameView(D, view, other),
         NEW found, NEW others, SameFound(D, found, others)
  PROVE  SameView(D, ShowsAll(view, found), ShowsAll(other, others))
<1>1. PICK m \in Nat : /\ DOMAIN found = 1 .. m /\ DOMAIN others = 1 .. m
                       /\ \A k \in 1 .. m : SameOutside(D, found[k], others[k])
  BY DEF SameFound
<1>2. PICK f : ShownSteps(f, view, found, m) /\ ShowsAll(view, found) = f[m]
  BY <1>1, ShownStepwise
<1>3. PICK g : ShownSteps(g, other, others, m) /\ ShowsAll(other, others) = g[m]
  BY <1>1, ShownStepwise
<1> DEFINE Good == {k \in Nat : k <= m => SameView(D, f[k], g[k])}
<1>4. 0 \in Good
  BY <1>2, <1>3 DEF ShownSteps
<1>5. ASSUME NEW k \in Nat, k \in Good PROVE k + 1 \in Good
  <2> SUFFICES ASSUME k + 1 <= m PROVE SameView(D, f[k + 1], g[k + 1])
    OBVIOUS
  <2>1. k + 1 \in 1 .. m /\ (k + 1) - 1 = k /\ SameView(D, f[k], g[k])
    BY <1>1, <1>5
  <2>2. f[k + 1] = Shows(f[k], found[k + 1]) /\ g[k + 1] = Shows(g[k], others[k + 1])
    BY <1>2, <1>3, <2>1 DEF ShownSteps
  <2>3. SameOutside(D, found[k + 1], others[k + 1])
    BY <1>1, <2>1
  <2>4. ASSUME NEW q \in Paths \ D PROVE f[k + 1][q] = g[k + 1][q]
    BY <2>1, <2>2, <2>3 DEF SameView, SameOutside, Shows
  <2> QED BY <2>4 DEF SameView
<1>6. m \in Good
  <2> HIDE DEF Good
  <2> QED BY <1>1, <1>4, <1>5, NaturalInduction
<1> QED BY <1>1, <1>2, <1>3, <1>6

\* Outside the set two mounts differ in, events read on either show the same.
LEMMA AfterAlike ==
  ASSUME NEW D, NEW view, NEW n, NEW n2, NEW X, NEW events \in Seq(X),
         \A k \in DOMAIN events : SameFound(D, FindsIn(n, events[k]), FindsIn(n2, events[k]))
  PROVE  SameView(D, After(view, FindsAll(n, events)), After(view, FindsAll(n2, events)))
<1> DEFINE m == Len(events)
           F == FindsAll(n, events)
           G == FindsAll(n2, events)
<1>1. /\ m \in Nat /\ DOMAIN F = 1 .. m /\ DOMAIN G = 1 .. m
      /\ \A k \in 1 .. m : F[k] = FindsIn(n, events[k]) /\ G[k] = FindsIn(n2, events[k])
  BY FindsAllSeq
<1>2. \A k \in 1 .. m : SameFound(D, F[k], G[k])
  <2>1. DOMAIN events = 1 .. m
    OBVIOUS
  <2> HIDE DEF F, G, m
  <2> QED BY <1>1, <2>1
<1> HIDE DEF m, F, G
<1>3. PICK f : ShownAllSteps(f, view, F, m) /\ After(view, F) = f[m]
  BY <1>1, ShownAllStepwise
<1>4. PICK g : ShownAllSteps(g, view, G, m) /\ After(view, G) = g[m]
  BY <1>1, ShownAllStepwise
<1> DEFINE Good == {k \in Nat : k <= m => SameView(D, f[k], g[k])}
<1>5. 0 \in Good
  BY <1>3, <1>4 DEF ShownAllSteps, SameView
<1>6. ASSUME NEW k \in Nat, k \in Good PROVE k + 1 \in Good
  <2> SUFFICES ASSUME k + 1 <= m PROVE SameView(D, f[k + 1], g[k + 1])
    OBVIOUS
  <2>1. k + 1 \in 1 .. m /\ (k + 1) - 1 = k /\ SameView(D, f[k], g[k])
    BY <1>1, <1>6
  <2>2. f[k + 1] = ShowsAll(f[k], F[k + 1]) /\ g[k + 1] = ShowsAll(g[k], G[k + 1])
    BY <1>3, <1>4, <2>1 DEF ShownAllSteps
  <2>3. SameFound(D, F[k + 1], G[k + 1])
    BY <1>2, <2>1
  <2> QED BY <2>1, <2>2, <2>3, ShowsAlike
<1>7. m \in Good
  <2> HIDE DEF Good
  <2> QED BY <1>1, <1>5, <1>6, NaturalInduction
<1> QED BY <1>1, <1>3, <1>4, <1>7 DEF F, G
-----------------------------------------------------------------------------
(* Bursts.  What a burst says of an index is what its changes say, in turn. *)
ChangeOk(c) ==
  c.handle # Unseen => c.path \in Paths /\ c.handle \in Handles

\* The folders above a folder are above what is in it.
LEMMA TreeFacts ==
  /\ \A p \in Paths : Ancestors(p) \subseteq Paths /\ p \in Ancestors(p)
  /\ \A p \in Paths : \A q \in Ancestors(p) : Ancestors(q) \subseteq Ancestors(p)
BY PathsAssumption DEF PathsAreATree, Ancestors

\* An empty burst leaves the index as it is.
LEMMA NoBurstSaysNothing ==
  /\ NoBurst \in Bursts
  /\ \A index \in [Paths -> Handles] : View(NoBurst, index) = index
<1>1. NoBurst \in Bursts
  BY DEF NoBurst, Bursts, Unseen
<1>2. ASSUME NEW index \in [Paths -> Handles] PROVE View(NoBurst, index) = index
  <2>1. \A p \in Paths : View(NoBurst, index)[p] = index[p]
    BY DEF View, NoBurst
  <2>2. View(NoBurst, index) = [p \in Paths |-> View(NoBurst, index)[p]]
    BY DEF View
  <2> QED BY <2>1, <2>2
<1> QED BY <1>1, <1>2

\* A change added to a burst shows over what the burst says.
LEMMA AddsShows ==
  ASSUME NEW burst \in Bursts, NEW c, ChangeOk(c), NEW index
  PROVE  Adds(burst, c) \in Bursts /\ View(Adds(burst, c), index) = Shows(View(burst, index), c)
<1>0. burst = [rows |-> burst.rows, prefixes |-> burst.prefixes]
      /\ burst.rows \in [Paths -> Handles \cup {Unseen}] /\ burst.prefixes \in SUBSET Paths
  BY DEF Bursts
<1> DEFINE next == Adds(burst, c)
<1>1. next \in Bursts /\ \A q \in Paths : View(next, index)[q] = Shows(View(burst, index), c)[q]
  <2>1. CASE c.handle = Unseen
    <3>1. next = burst
      BY <2>1 DEF Adds
    <3>2. \A q \in Paths : Word(c, q) = Unseen
      BY <2>1 DEF Word
    <3> QED BY <3>1, <3>2 DEF Shows, View
  <2>2. CASE c.handle # Unseen /\ c.folder
    <3>1. c.path \in Paths
      BY <2>2 DEF ChangeOk
    <3>2. next = [rows |-> [q \in Paths |-> IF q \in AtOrBelow(c.path) THEN Unseen ELSE burst.rows[q]],
                  prefixes |-> (burst.prefixes \ AtOrBelow(c.path)) \cup {c.path}]
      BY <2>2 DEF Adds, RemovesPrefix
    <3>3. next \in Bursts
      BY <1>0, <3>1, <3>2 DEF Bursts
    <3> DEFINE R == next.rows
               X == next.prefixes
    <3>4. /\ \A q \in Paths : R[q] = IF q \in AtOrBelow(c.path) THEN Unseen ELSE burst.rows[q]
          /\ X = (burst.prefixes \ AtOrBelow(c.path)) \cup {c.path}
      BY <3>2
    <3>5. \A q \in Paths : View(next, index)[q] =
             IF R[q] # Unseen THEN R[q] ELSE IF Ancestors(q) \cap X # {} THEN Gone ELSE index[q]
      BY DEF View
    <3> HIDE DEF R, X, next
    <3>6. ASSUME NEW q \in Paths PROVE View(next, index)[q] = Shows(View(burst, index), c)[q]
      <4>1. CASE q \in AtOrBelow(c.path)
        <5>1. c.path \in Ancestors(q)
          BY <4>1 DEF AtOrBelow
        <5>2. R[q] = Unseen /\ Ancestors(q) \cap X # {}
          BY <3>4, <4>1, <5>1
        <5>3. View(next, index)[q] = Gone
          BY <3>5, <5>2
        <5>4. Word(c, q) = Gone /\ Gone # Unseen
          BY <2>2, <4>1 DEF Word, Gone, Unseen
        <5> QED BY <5>3, <5>4 DEF Shows
      <4>2. CASE q \notin AtOrBelow(c.path)
        <5>1. c.path \notin Ancestors(q)
          BY <4>2 DEF AtOrBelow
        <5>2. Ancestors(q) \cap AtOrBelow(c.path) = {}
          <6> SUFFICES ASSUME NEW r \in Ancestors(q), r \in AtOrBelow(c.path) PROVE FALSE
            OBVIOUS
          <6>1. c.path \in Ancestors(r)
            BY DEF AtOrBelow
          <6> QED BY <5>1, <6>1, TreeFacts
        <5>3. Ancestors(q) \cap X = Ancestors(q) \cap burst.prefixes /\ R[q] = burst.rows[q]
          BY <3>4, <4>2, <5>1, <5>2
        <5>4. Word(c, q) = Unseen
          BY <2>2, <4>2 DEF Word
        <5> QED BY <3>5, <5>3, <5>4 DEF Shows, View
      <4> QED BY <4>1, <4>2
    <3> QED BY <3>3, <3>6
  <2>3. CASE c.handle # Unseen /\ ~c.folder
    <3>1. c.path \in Paths /\ c.handle \in Handles
      BY <2>3 DEF ChangeOk
    <3>2. next = [rows |-> [burst.rows EXCEPT ![c.path] = c.handle], prefixes |-> burst.prefixes]
      BY <1>0, <2>3 DEF Adds, Says
    <3>3. next \in Bursts
      BY <1>0, <3>1, <3>2 DEF Bursts
    <3>4. \A q \in Paths : next.rows[q] = IF q = c.path THEN c.handle ELSE burst.rows[q]
      BY <1>0, <3>1, <3>2
    <3>5. next.prefixes = burst.prefixes
      BY <3>2
    <3> HIDE DEF next
    <3>6. ASSUME NEW q \in Paths PROVE View(next, index)[q] = Shows(View(burst, index), c)[q]
      <4>1. Word(c, q) = IF q = c.path THEN c.handle ELSE Unseen
        BY <2>3 DEF Word
      <4> QED BY <2>3, <3>4, <3>5, <4>1 DEF Shows, View
    <3> QED BY <3>3, <3>6
  <2> QED BY <2>1, <2>2, <2>3
<1>2. View(next, index) = [q \in Paths |-> View(next, index)[q]]
  BY DEF View
<1>3. Shows(View(burst, index), c) = [q \in Paths |-> Shows(View(burst, index), c)[q]]
  BY DEF Shows
<1> HIDE DEF next
<1>4. View(next, index) = Shows(View(burst, index), c)
  BY <1>1, <1>2, <1>3
<1> QED BY <1>1, <1>4 DEF next

FoundOk(found) == \E m \in Nat : DOMAIN found = 1 .. m /\ \A k \in 1 .. m : ChangeOk(found[k])

\* So do all the changes of an event.
LEMMA CollectShows ==
  ASSUME NEW burst \in Bursts, NEW found, FoundOk(found), NEW index
  PROVE  /\ Collect(burst, found) \in Bursts
         /\ View(Collect(burst, found), index) = ShowsAll(View(burst, index), found)
<1>1. PICK m \in Nat : DOMAIN found = 1 .. m /\ \A k \in 1 .. m : ChangeOk(found[k])
  BY DEF FoundOk
<1>2. PICK f : SaidSteps(f, burst, found, m) /\ Collect(burst, found) = f[m]
  BY <1>1, SaidStepwise
<1>3. PICK g : ShownSteps(g, View(burst, index), found, m) /\ ShowsAll(View(burst, index), found) = g[m]
  BY <1>1, ShownStepwise
<1> DEFINE Good == {k \in Nat : k <= m => f[k] \in Bursts /\ View(f[k], index) = g[k]}
<1>4. 0 \in Good
  BY <1>2, <1>3 DEF SaidSteps, ShownSteps
<1>5. ASSUME NEW k \in Nat, k \in Good PROVE k + 1 \in Good
  <2> SUFFICES ASSUME k + 1 <= m PROVE f[k + 1] \in Bursts /\ View(f[k + 1], index) = g[k + 1]
    OBVIOUS
  <2>1. k + 1 \in 1 .. m /\ (k + 1) - 1 = k /\ f[k] \in Bursts /\ View(f[k], index) = g[k]
    BY <1>1, <1>5
  <2>2. f[k + 1] = Adds(f[k], found[k + 1]) /\ g[k + 1] = Shows(g[k], found[k + 1])
    BY <1>2, <1>3, <2>1 DEF SaidSteps, ShownSteps
  <2>3. ChangeOk(found[k + 1])
    BY <1>1, <2>1
  <2> QED BY <2>1, <2>2, <2>3, AddsShows
<1>6. m \in Good
  <2> HIDE DEF Good
  <2> QED BY <1>1, <1>4, <1>5, NaturalInduction
<1> QED BY <1>1, <1>2, <1>3, <1>6

\* A burst that was gathered from events shows what they do, one after the other.
LEMMA BurstShows ==
  ASSUME NEW founds, NEW m \in Nat, DOMAIN founds = 1 .. m,
         \A k \in 1 .. m : FoundOk(founds[k]), NEW index \in [Paths -> Handles]
  PROVE  /\ FoldLeft(Collect, NoBurst, founds) \in Bursts
         /\ View(FoldLeft(Collect, NoBurst, founds), index) = After(index, founds)
<1>1. PICK f : GatheredSteps(f, NoBurst, founds, m) /\ FoldLeft(Collect, NoBurst, founds) = f[m]
  BY GatheredStepwise
<1>2. PICK g : ShownAllSteps(g, index, founds, m) /\ After(index, founds) = g[m]
  BY ShownAllStepwise
<1> DEFINE Good == {k \in Nat : k <= m => f[k] \in Bursts /\ View(f[k], index) = g[k]}
<1>3. 0 \in Good
  BY <1>1, <1>2, NoBurstSaysNothing DEF GatheredSteps, ShownAllSteps
<1>4. ASSUME NEW k \in Nat, k \in Good PROVE k + 1 \in Good
  <2> SUFFICES ASSUME k + 1 <= m PROVE f[k + 1] \in Bursts /\ View(f[k + 1], index) = g[k + 1]
    OBVIOUS
  <2>1. k + 1 \in 1 .. m /\ (k + 1) - 1 = k /\ f[k] \in Bursts /\ View(f[k], index) = g[k]
    BY <1>4
  <2>2. f[k + 1] = Collect(f[k], founds[k + 1]) /\ g[k + 1] = ShowsAll(g[k], founds[k + 1])
    BY <1>1, <1>2, <2>1 DEF GatheredSteps, ShownAllSteps
  <2>3. FoundOk(founds[k + 1])
    BY <2>1
  <2> QED BY <2>1, <2>2, <2>3, CollectShows
<1>5. m \in Good
  <2> HIDE DEF Good
  <2> QED BY <1>3, <1>4, NaturalInduction
<1> QED BY <1>1, <1>2, <1>5

\* A newer burst shows over what the older one says.
LEMMA MergedShows ==
  ASSUME NEW burst \in Bursts, NEW newer \in Bursts, NEW index
  PROVE  Merged(burst, newer) \in Bursts /\ View(Merged(burst, newer), index) = View(newer, View(burst, index))
<1> DEFINE m == Merged(burst, newer)
           R == m.rows
           X == m.prefixes
<1>1. /\ burst.rows \in [Paths -> Handles \cup {Unseen}] /\ burst.prefixes \in SUBSET Paths
      /\ newer.rows \in [Paths -> Handles \cup {Unseen}] /\ newer.prefixes \in SUBSET Paths
  BY DEF Bursts
<1>2. m \in Bursts
  BY <1>1 DEF Merged, Bursts
<1>3. /\ \A p \in Paths : R[p] = IF newer.rows[p] # Unseen THEN newer.rows[p]
                                ELSE IF Ancestors(p) \cap newer.prefixes # {} THEN Unseen ELSE burst.rows[p]
      /\ X = {q \in burst.prefixes : Ancestors(q) \cap newer.prefixes = {}} \cup newer.prefixes
  BY DEF Merged
<1>4. \A q \in Paths : View(m, index)[q] =
         IF R[q] # Unseen THEN R[q] ELSE IF Ancestors(q) \cap X # {} THEN Gone ELSE index[q]
  BY DEF View
<1>5. View(m, index) = [q \in Paths |-> View(m, index)[q]]
  BY DEF View
<1> HIDE DEF m, R, X
<1> DEFINE W == View(burst, index)
<1>6. /\ View(newer, W) = [q \in Paths |-> View(newer, W)[q]]
      /\ \A q \in Paths : View(newer, W)[q] =
           IF newer.rows[q] # Unseen THEN newer.rows[q]
           ELSE IF Ancestors(q) \cap newer.prefixes # {} THEN Gone ELSE W[q]
      /\ \A q \in Paths : W[q] =
           IF burst.rows[q] # Unseen THEN burst.rows[q]
           ELSE IF Ancestors(q) \cap burst.prefixes # {} THEN Gone ELSE index[q]
  BY DEF View
<1> HIDE DEF W
<1>7. ASSUME NEW q \in Paths PROVE View(m, index)[q] = View(newer, W)[q]
  <2>1. CASE newer.rows[q] # Unseen
    BY <1>3, <1>4, <1>6, <2>1
  <2>2. CASE newer.rows[q] = Unseen /\ Ancestors(q) \cap newer.prefixes # {}
    BY <1>3, <1>4, <1>6, <2>2
  <2>3. CASE newer.rows[q] = Unseen /\ Ancestors(q) \cap newer.prefixes = {}
    <3>1. \A r \in Ancestors(q) : Ancestors(r) \cap newer.prefixes = {}
      BY <2>3, TreeFacts
    <3>2. Ancestors(q) \cap X = Ancestors(q) \cap burst.prefixes
      BY <1>3, <2>3, <3>1
    <3> QED BY <1>3, <1>4, <1>6, <2>3, <3>2
  <2> QED BY <2>1, <2>2, <2>3
<1>8. View(m, index) = View(newer, W)
  BY <1>5, <1>6, <1>7
<1> QED BY <1>2, <1>8 DEF m, W
-----------------------------------------------------------------------------
(* The folders above a path. *)

\* A path in a folder has a nearest folder.
LEMMA ParentExists ==
  ASSUME NEW p \in Paths, Above[p] # {}
  PROVE  Parent(p) \in Above[p] /\ IsParent(Parent(p), p)
<1> DEFINE size == Cardinality(Paths)
           T == {size - Rank[q] : q \in Above[p]}
<1>1. Above[p] \subseteq Paths /\ size \in Nat /\ \A q \in Paths : Rank[q] \in 1 .. size
  BY PathsAssumption, WatchAssumption, FS_CardinalityType DEF PathsAreATree
<1>2. T \subseteq Nat /\ T # {}
  <2> HIDE DEF size
  <2>1. ASSUME NEW q \in Above[p] PROVE size - Rank[q] \in Nat
    <3>1. Rank[q] \in 1 .. size
      BY <1>1
    <3> QED BY <1>1, <3>1
  <2> QED BY <2>1
<1>3. PICK t \in T : \A u \in T : t <= u
  <2> HIDE DEF T
  <2> QED BY <1>2, Said!LeastNumber
<1> HIDE DEF size
<1>4. PICK q \in Above[p] : t = size - Rank[q]
  OBVIOUS
<1>5. ASSUME NEW r \in Above[p] PROVE r \in Ancestors(q)
  <2>1. size - Rank[q] <= size - Rank[r]
    BY <1>3, <1>4
  <2>2. Rank[q] \in Int /\ Rank[r] \in Int
    BY <1>1
  <2>3. ~(Rank[q] < Rank[r])
    BY <1>1, <2>1, <2>2
  <2>4. q \notin Above[r]
    BY <1>1, <2>3, WatchAssumption
  <2>5. q = r \/ r \in Above[q]
    BY <2>4, WatchAssumption
  <2> QED BY <2>5 DEF Ancestors
<1>6. \E r \in Above[p] : IsParent(r, p)
  BY <1>4, <1>5 DEF IsParent
<1> QED BY <1>6, Zenon DEF Parent

\* A folder with something in it, however deep, has something right in it.
LEMMA ChildOnTheWay ==
  ASSUME NEW r \in Paths, NEW p \in Above[r]
  PROVE  \E c \in ChildrenOf(p) : c \in Ancestors(r)
<1> DEFINE Between == {c \in Ancestors(r) : p \in Above[c]}
           T == {Rank[c] : c \in Between}
<1>1. Between \subseteq Paths /\ r \in Between /\ p \in Paths
  BY PathsAssumption, TreeFacts DEF PathsAreATree
<1>2. T \subseteq Nat /\ T # {}
  <2>1. \A c \in Paths : Rank[c] \in Nat
    BY WatchAssumption
  <2> HIDE DEF Between
  <2> QED BY <1>1, <2>1
<1>3. PICK t \in T : \A u \in T : t <= u
  <2> HIDE DEF T
  <2> QED BY <1>2, Said!LeastNumber
<1>4. PICK c \in Between : t = Rank[c]
  OBVIOUS
<1>5. ASSUME NEW s \in Above[c] PROVE s \in Ancestors(p)
  <2>1. s \in Paths /\ s \in Ancestors(r) /\ Rank[s] < Rank[c]
    BY <1>1, <1>4, PathsAssumption, WatchAssumption, TreeFacts DEF PathsAreATree, Ancestors
  <2>2. p \notin Above[s]
    <3> SUFFICES ASSUME p \in Above[s] PROVE FALSE
      OBVIOUS
    <3>1. Rank[s] \in T
      BY <2>1
    <3>2. Rank[c] <= Rank[s]
      BY <1>3, <1>4, <3>1
    <3>3. Rank[c] \in Int /\ Rank[s] \in Int
      BY <1>1, <2>1, WatchAssumption
    <3> QED BY <2>1, <3>2, <3>3
  <2>3. s = p \/ s \in Above[p] \/ p \in Above[s]
    BY <1>1, <1>4, WatchAssumption
  <2> QED BY <2>2, <2>3 DEF Ancestors
<1>6. IsParent(p, c) /\ c \in Paths
  BY <1>1, <1>4, <1>5 DEF IsParent
<1> QED BY <1>4, <1>6 DEF ChildrenOf
-----------------------------------------------------------------------------
(* What is found of an event, path by path. *)
Mounts == [Paths -> Handles]

\* A handle lives when a name has it, or as the root.
LEMMA LivesMeans ==
  ASSUME NEW n, NEW h
  PROVE  LivesIn(n, h) <=> h = RootHandle \/ (h # Gone /\ \E q \in Paths : n[q] = h)
BY DEF LivesIn, RootHandle, Gone

\* The parts of an event.
LEMMA EventFields ==
  ASSUME NEW e \in WatchEvents
  PROVE  /\ e.locations \in Seq(EventLocations) /\ e.target \in Handles
         /\ Len(e.locations) \in Nat /\ DOMAIN e.locations = 1 .. Len(e.locations)
         /\ \A i \in DOMAIN e.locations : /\ e.locations[i].path \in WatchedPaths /\ e.locations[i].path \in Paths
                                          /\ e.locations[i].parent \in Handles
<1>1. e.locations \in Seq(EventLocations) /\ e.target \in Handles
  BY DEF WatchEvents
<1>2. \A s \in Seq(EventLocations) : Len(s) \in Nat /\ DOMAIN s = 1 .. Len(s) /\ \A i \in DOMAIN s : s[i] \in EventLocations
  OBVIOUS
<1>3. \A l \in EventLocations : l.path \in WatchedPaths /\ l.path \in Paths /\ l.parent \in Handles
  BY WatchAssumption DEF EventLocations
<1> QED BY <1>1, <1>2, <1>3

\* What is found at one place of an event says this of a path.
LEMMA FoundAtSays ==
  ASSUME NEW n \in Mounts, NEW mask, NEW l, l.path \in Paths, NEW q
  PROVE  /\ ChangeOk(FoundAt(n, mask, l))
         /\ Word(FoundAt(n, mask, l), q) =
              IF ~LivesIn(n, l.parent) THEN Unseen
              ELSE IF l.role = "old" \/ mask = "delete"
                   THEN IF q \in (IF IsDir(l.path) THEN AtOrBelow(l.path) ELSE {l.path}) THEN Gone ELSE Unseen
                   ELSE IF q = l.path THEN n[l.path] ELSE Unseen
<1>1. n[l.path] \in Handles /\ n[l.path] # Unseen
  BY DEF Mounts, Handles, Unseen
<1>2. CASE ~LivesIn(n, l.parent)
  BY <1>2 DEF FoundAt, Missed, ChangeOk, Word
<1>3. CASE LivesIn(n, l.parent) /\ (l.role = "old" \/ mask = "delete")
  <2>1. FoundAt(n, mask, l) = [path |-> l.path, handle |-> Gone, folder |-> IsDir(l.path)]
    BY <1>3 DEF FoundAt
  <2> QED BY <1>3, <2>1 DEF ChangeOk, Word, Handles, Gone, Unseen
<1>4. CASE LivesIn(n, l.parent) /\ ~(l.role = "old" \/ mask = "delete")
  <2>1. FoundAt(n, mask, l) = [path |-> l.path, handle |-> n[l.path], folder |-> FALSE]
    BY <1>4 DEF FoundAt
  <2> QED BY <1>1, <1>4, <2>1 DEF ChangeOk, Word
<1> QED BY <1>2, <1>3, <1>4

\* What is found of a closed file says this of a path.
LEMMA FoundClosedSays ==
  ASSUME NEW n \in Mounts, TreeOf(n), NEW h \in Handles, h # Gone, NEW q \in Paths
  PROVE  ChangeOk(FoundClosed(n, h)) /\ Word(FoundClosed(n, h), q) = IF n[q] = h THEN h ELSE Unseen
<1>1. h # Unseen
  BY DEF Handles, Unseen
<1>2. CASE ~LivesIn(n, h)
  <2>1. n[q] # h
    BY <1>2, LivesMeans
  <2> QED BY <1>2, <2>1 DEF FoundClosed, Missed, ChangeOk, Word
<1>3. CASE LivesIn(n, h)
  <2> DEFINE p == CHOOSE p \in Paths : n[p] = h
  <2>1. p \in Paths /\ n[p] = h
    <3>1. \E r \in Paths : n[r] = h
      BY <1>3, LivesMeans DEF RootHandle, Gone
    <3> QED BY <3>1, Zenon
  <2>2. FoundClosed(n, h) = [path |-> p, handle |-> h, folder |-> FALSE]
    BY <1>3, Zenon DEF FoundClosed
  <2> HIDE DEF p
  <2>3. n[q] = h <=> q = p
    BY <2>1 DEF TreeOf
  <2> QED BY <1>1, <2>1, <2>2, <2>3 DEF ChangeOk, Word
<1> QED BY <1>2, <1>3

\* What is found of an event, place by place.
LEMMA FindsFields ==
  ASSUME NEW n, NEW e \in WatchEvents
  PROVE  /\ e.mask = "close" => FindsIn(n, e) = <<FoundClosed(n, e.target)>>
         /\ e.mask # "close" =>
              /\ DOMAIN FindsIn(n, e) = 1 .. Len(e.locations)
              /\ \A i \in 1 .. Len(e.locations) : FindsIn(n, e)[i] = FoundAt(n, e.mask, e.locations[i])
BY EventFields DEF FindsIn

\* What is found can be said in a burst.
LEMMA FindsOk ==
  ASSUME NEW n \in Mounts, TreeOf(n), NEW top, NEW e \in WatchEvents, EventOk(n, top, e)
  PROVE  FoundOk(FindsIn(n, e))
<1>1. CASE e.mask = "close"
  <2>1. e.target \in Handles /\ e.target # Gone
    BY <1>1, EventFields DEF EventOk, Gone
  <2>2. ASSUME NEW q \in Paths PROVE ChangeOk(FoundClosed(n, e.target))
    BY <2>1, FoundClosedSays
  <2>3. ChangeOk(FoundClosed(n, e.target))
    <3>1. CASE LivesIn(n, e.target)
      BY <2>1, <2>2, <3>1, LivesMeans DEF RootHandle, Gone
    <3>2. CASE ~LivesIn(n, e.target)
      BY <3>2 DEF FoundClosed, Missed, ChangeOk
    <3> QED BY <3>1, <3>2
  <2>4. \A c : DOMAIN <<c>> = 1 .. 1 /\ \A k \in 1 .. 1 : <<c>>[k] = c
    OBVIOUS
  <2>5. 1 \in Nat
    OBVIOUS
  <2>6. \A c : ChangeOk(c) => FoundOk(<<c>>)
    BY <2>4, <2>5, Zenon DEF FoundOk
  <2>7. FindsIn(n, e) = <<FoundClosed(n, e.target)>>
    BY <1>1, FindsFields
  <2> QED BY <2>3, <2>6, <2>7, Zenon
<1>2. CASE e.mask # "close"
  <2>1. ASSUME NEW i \in 1 .. Len(e.locations) PROVE ChangeOk(FoundAt(n, e.mask, e.locations[i]))
    <3>1. e.locations[i].path \in Paths
      BY EventFields
    <3> QED BY <3>1, FoundAtSays
  <2> QED BY <1>2, <2>1, EventFields, FindsFields DEF FoundOk
<1> QED BY <1>1, <1>2

\* Two mounts that differ in a set only; what lives in one folder only is in it.
Differ(D, n, n2, e) ==
  /\ \A q \in Paths \ D : n[q] = n2[q]
  /\ \A i \in DOMAIN e.locations :
       LET l == e.locations[i]
       IN (LivesIn(n, l.parent) <=> LivesIn(n2, l.parent)) \/ AtOrBelow(l.path) \subseteq D

\* An event shows the same, outside a set, on two mounts that differ in it only.
LEMMA EventAlike ==
  ASSUME NEW n \in Mounts, TreeOf(n), NEW n2 \in Mounts, TreeOf(n2), NEW top,
         NEW e \in WatchEvents, EventOk(n, top, e), NEW D, Differ(D, n, n2, e)
  PROVE  SameFound(D, FindsIn(n, e), FindsIn(n2, e))
<1>1. CASE e.mask = "close"
  <2>1. e.target \in Handles /\ e.target # Gone
    BY <1>1, EventFields DEF EventOk, Gone
  <2>2. SameOutside(D, FoundClosed(n, e.target), FoundClosed(n2, e.target))
    <3> SUFFICES ASSUME NEW q \in Paths \ D
                 PROVE  Word(FoundClosed(n, e.target), q) = Word(FoundClosed(n2, e.target), q)
      BY DEF SameOutside
    <3>1. n[q] = n2[q]
      BY DEF Differ
    <3> QED BY <2>1, <3>1, FoundClosedSays
  <2>3. \A c : DOMAIN <<c>> = 1 .. 1 /\ \A k \in 1 .. 1 : <<c>>[k] = c
    OBVIOUS
  <2>4. 1 \in Nat
    OBVIOUS
  <2>5. \A c, d : SameOutside(D, c, d) => SameFound(D, <<c>>, <<d>>)
    BY ZenonT(60), <2>3, <2>4 DEF SameFound
  <2>6. FindsIn(n, e) = <<FoundClosed(n, e.target)>> /\ FindsIn(n2, e) = <<FoundClosed(n2, e.target)>>
    BY <1>1, FindsFields
  <2> QED BY <2>2, <2>5, <2>6, Zenon
<1>2. CASE e.mask # "close"
  <2>1. ASSUME NEW i \in 1 .. Len(e.locations)
        PROVE  SameOutside(D, FoundAt(n, e.mask, e.locations[i]), FoundAt(n2, e.mask, e.locations[i]))
    <3> DEFINE l == e.locations[i]
    <3>1. /\ l.path \in Paths
          /\ (LivesIn(n, l.parent) <=> LivesIn(n2, l.parent)) \/ AtOrBelow(l.path) \subseteq D
      BY EventFields DEF Differ
    <3>2. l.path \in AtOrBelow(l.path)
      BY <3>1 DEF AtOrBelow, Ancestors
    <3> HIDE DEF l
    <3> SUFFICES ASSUME NEW q \in Paths \ D
                 PROVE  Word(FoundAt(n, e.mask, l), q) = Word(FoundAt(n2, e.mask, l), q)
      BY DEF SameOutside, l
    <3>3. n[q] = n2[q]
      BY DEF Differ
    <3>4. CASE LivesIn(n, l.parent) <=> LivesIn(n2, l.parent)
      BY <3>1, <3>3, <3>4, FoundAtSays
    <3>5. CASE AtOrBelow(l.path) \subseteq D
      <4>1. q # l.path /\ q \notin AtOrBelow(l.path)
        BY <3>2, <3>5
      <4>2. Word(FoundAt(n, e.mask, l), q) = Unseen
        BY <3>1, <4>1, FoundAtSays
      <4>3. Word(FoundAt(n2, e.mask, l), q) = Unseen
        BY <3>1, <4>1, FoundAtSays
      <4> QED BY <4>2, <4>3
    <3> QED BY <3>1, <3>4, <3>5
  <2> QED BY <1>2, <2>1, EventFields, FindsFields DEF SameFound
<1> QED BY <1>1, <1>2
-----------------------------------------------------------------------------
(* One change of the mount, and its event at the end of what is to be read. *)
GoodMount(n, top) == n \in Mounts /\ TreeOf(n) /\ top \in Nat /\ \A q \in Paths : n[q] <= top
MountOk(n, top, events) == GoodMount(n, top) /\ events \in Seq(WatchEvents) /\ EventsOk(n, top, events)
IsView(w) == w = [q \in Paths |-> w[q]]

\* The mount changes within a set of paths, and its event tells how.
Step(n, top, n2, top2, D, e) ==
  /\ GoodMount(n2, top2) /\ top <= top2
  /\ \A l \in EventLocations : FolderStays(n, top, l) =>
       /\ FolderStays(n2, top2, l)
       /\ (LivesIn(n, l.parent) <=> LivesIn(n2, l.parent)) \/ AtOrBelow(l.path) \subseteq D
  /\ \A q \in Paths \ D : n[q] = n2[q]
  /\ e \in WatchEvents /\ EventOk(n2, top2, e)
  /\ \A w : IsView(w) /\ SameView(D, w, n2) => ShowsAll(w, FindsIn(n2, e)) = n2

\* Changes shown on an index give an index.
LEMMA ShowsAllIsView ==
  ASSUME NEW view, IsView(view), NEW found, NEW m \in Nat, DOMAIN found = 1 .. m
  PROVE  IsView(ShowsAll(view, found))
<1>1. PICK f : ShownSteps(f, view, found, m) /\ ShowsAll(view, found) = f[m]
  BY ShownStepwise
<1> DEFINE Good == {k \in Nat : k <= m => IsView(f[k])}
<1>2. 0 \in Good
  BY <1>1 DEF ShownSteps
<1>3. ASSUME NEW k \in Nat, k \in Good PROVE k + 1 \in Good
  <2> SUFFICES ASSUME k + 1 <= m PROVE IsView(f[k + 1])
    OBVIOUS
  <2>1. k + 1 \in 1 .. m /\ (k + 1) - 1 = k
    OBVIOUS
  <2>2. f[k + 1] = Shows(f[k], found[k + 1])
    BY <1>1, <2>1 DEF ShownSteps
  <2>3. \A v, c : IsView(Shows(v, c))
    BY DEF IsView, Shows
  <2> QED BY <2>2, <2>3
<1>4. m \in Good
  <2> HIDE DEF Good
  <2> QED BY <1>2, <1>3, NaturalInduction
<1> QED BY <1>1, <1>4

\* So do the changes of many events.
LEMMA AfterIsView ==
  ASSUME NEW view, IsView(view), NEW founds, NEW m \in Nat, DOMAIN founds = 1 .. m,
         \A k \in 1 .. m : \E j \in Nat : DOMAIN founds[k] = 1 .. j
  PROVE  IsView(After(view, founds))
<1>1. PICK f : ShownAllSteps(f, view, founds, m) /\ After(view, founds) = f[m]
  BY ShownAllStepwise
<1> DEFINE Good == {k \in Nat : k <= m => IsView(f[k])}
<1>2. 0 \in Good
  BY <1>1 DEF ShownAllSteps
<1>3. ASSUME NEW k \in Nat, k \in Good PROVE k + 1 \in Good
  <2> SUFFICES ASSUME k + 1 <= m PROVE IsView(f[k + 1])
    OBVIOUS
  <2>1. k + 1 \in 1 .. m /\ (k + 1) - 1 = k /\ IsView(f[k])
    BY <1>3
  <2>2. f[k + 1] = ShowsAll(f[k], founds[k + 1])
    BY <1>1, <2>1 DEF ShownAllSteps
  <2>3. PICK j \in Nat : DOMAIN founds[k + 1] = 1 .. j
    BY <2>1
  <2> QED BY <2>1, <2>2, <2>3, ShowsAllIsView
<1>4. m \in Good
  <2> HIDE DEF Good
  <2> QED BY <1>2, <1>3, NaturalInduction
<1> QED BY <1>1, <1>4

\* One event shows what is found of it.
LEMMA AfterOne ==
  ASSUME NEW n, NEW e, NEW view
  PROVE  After(view, FindsAll(n, <<e>>)) = ShowsAll(view, FindsIn(n, e))
<1> DEFINE F == FindsAll(n, <<e>>)
<1>1. DOMAIN F = 1 .. 1 /\ F[1] = FindsIn(n, e) /\ 1 \in Nat
  BY DEF FindsAll
<1> HIDE DEF F
<1>2. PICK f : ShownAllSteps(f, view, F, 1) /\ After(view, F) = f[1]
  BY <1>1, ShownAllStepwise, Zenon
<1>3. f[1] = ShowsAll(f[0], F[1]) /\ f[0] = view
  <2>1. 1 \in 1 .. 1 /\ 1 - 1 = 0
    OBVIOUS
  <2> QED BY <1>2, <2>1 DEF ShownAllSteps
<1> QED BY <1>1, <1>2, <1>3 DEF F

\* One change of the mount keeps all events sound, and the index exact once they are read.
LEMMA StepSound ==
  ASSUME NEW n, NEW top, NEW events, MountOk(n, top, events), GoodMount(n, top),
         NEW n2, NEW top2, NEW D, NEW e, Step(n, top, n2, top2, D, e)
  PROVE  /\ MountOk(n2, top2, Append(events, e))
         /\ \A index \in Mounts : Exact(n, index, events) => Exact(n2, index, Append(events, e))
<1> DEFINE all == Append(events, e)
<1>1. events \in Seq(WatchEvents) /\ e \in WatchEvents /\ EventsOk(n, top, events)
  BY DEF MountOk, Step
<1>2. /\ all \in Seq(WatchEvents) /\ all = events \o <<e>> /\ <<e>> \in Seq(WatchEvents)
      /\ \A k \in DOMAIN all : (k \in DOMAIN events /\ all[k] = events[k]) \/ all[k] = e
  BY <1>1
<1>3. ASSUME NEW k \in DOMAIN events
      PROVE  events[k] \in WatchEvents /\ EventOk(n, top, events[k]) /\ EventOk(n2, top2, events[k])
             /\ Differ(D, n, n2, events[k])
  <2> DEFINE d == events[k]
  <2>1. d \in WatchEvents /\ EventOk(n, top, d)
    BY <1>1 DEF EventsOk
  <2> HIDE DEF d
  <2>2. ASSUME NEW i \in DOMAIN d.locations
        PROVE  d.locations[i] \in EventLocations /\ FolderStays(n, top, d.locations[i])
    <3>1. d.locations \in Seq(EventLocations)
      BY <2>1, EventFields
    <3>2. d.locations[i] \in EventLocations
      BY <3>1
    <3> QED BY <2>1, <3>2 DEF EventOk
  <2>3. EventOk(n2, top2, d)
    <3>1. ASSUME NEW i \in DOMAIN d.locations PROVE FolderStays(n2, top2, d.locations[i])
      BY <2>2 DEF Step
    <3>2. d.mask = "close" => d.target \in 1 .. top2
      <4>1. top \in Nat /\ top2 \in Nat /\ top <= top2
        BY DEF GoodMount, Step
      <4>2. d.mask = "close" => d.target \in 1 .. top
        BY <2>1 DEF EventOk
      <4> QED BY <4>1, <4>2
    <3> QED BY <3>1, <3>2 DEF EventOk
  <2>4. Differ(D, n, n2, d)
    <3>1. \A q \in Paths \ D : n[q] = n2[q]
      BY DEF Step
    <3>2. ASSUME NEW i \in DOMAIN d.locations
          PROVE  LET l == d.locations[i]
                 IN (LivesIn(n, l.parent) <=> LivesIn(n2, l.parent)) \/ AtOrBelow(l.path) \subseteq D
      BY <2>2 DEF Step
    <3> QED BY <3>1, <3>2, Zenon DEF Differ
  <2> QED BY <2>1, <2>3, <2>4 DEF d
<1>4. EventsOk(n2, top2, all)
  <2>1. EventOk(n2, top2, e)
    BY DEF Step
  <2> HIDE DEF all
  <2> QED BY <1>2, <1>3, <2>1 DEF EventsOk
<1>5. GoodMount(n2, top2)
  BY DEF Step
<1>6. ASSUME NEW index \in Mounts, Exact(n, index, events) PROVE Exact(n2, index, all)
  <2> DEFINE w == After(index, FindsAll(n2, events))
  <2>1. After(index, FindsAll(n2, all)) = ShowsAll(w, FindsIn(n2, e))
    <3>1. \A one \in Seq(WatchEvents) : After(index, FindsAll(n2, events \o one)) = After(w, FindsAll(n2, one))
      BY <1>1, AfterConcat
    <3> QED BY <1>2, <3>1, AfterOne
  <2>2. SameView(D, After(index, FindsAll(n, events)), w)
    <3>1. ASSUME NEW k \in DOMAIN events PROVE SameFound(D, FindsIn(n, events[k]), FindsIn(n2, events[k]))
      <4>1. n \in Mounts /\ TreeOf(n) /\ n2 \in Mounts /\ TreeOf(n2)
        BY <1>5 DEF GoodMount
      <4> QED BY <1>3, <4>1, EventAlike
    <3> QED BY <1>1, <3>1, AfterAlike
  <2>3. SameView(D, w, n2)
    <3>1. \A q \in Paths \ D : n[q] = n2[q]
      BY DEF Step
    <3> HIDE DEF w
    <3> QED BY <1>6, <2>2, <3>1 DEF SameView, Exact
  <2>4. IsView(w)
    <3> DEFINE m == Len(events)
               F == FindsAll(n2, events)
    <3>1. m \in Nat /\ DOMAIN F = 1 .. m /\ \A k \in 1 .. m : F[k] = FindsIn(n2, events[k])
      BY <1>1, FindsAllSeq
    <3>2. ASSUME NEW k \in 1 .. m PROVE \E j \in Nat : DOMAIN F[k] = 1 .. j
      <4>1. k \in DOMAIN events
        BY <1>1
      <4>2. FoundOk(FindsIn(n2, events[k]))
        <5>1. n2 \in Mounts /\ TreeOf(n2)
          BY <1>5 DEF GoodMount
        <5> QED BY <1>3, <4>1, <5>1, FindsOk
      <4>3. F[k] = FindsIn(n2, events[k])
        BY <3>1
      <4> QED BY <4>2, <4>3 DEF FoundOk
    <3>3. IsView(index)
      BY DEF IsView, Mounts
    <3> HIDE DEF m, F
    <3>4. IsView(After(index, F))
      BY <3>1, <3>2, <3>3, AfterIsView
    <3> QED BY <3>4 DEF F
  <2> HIDE DEF w
  <2>5. ShowsAll(w, FindsIn(n2, e)) = n2
    BY <2>3, <2>4 DEF Step
  <2> QED BY <2>1, <2>5 DEF Exact
<1> QED BY <1>2, <1>4, <1>5, <1>6 DEF MountOk
-----------------------------------------------------------------------------
(* The changes of the mount. *)

LocationOf(n, role, p) == [role |-> role, path |-> p, parent |-> HandleOfParent(n, p)]
MayHold(n, p) == p \in WatchedPaths /\ \A q \in Above[p] : n[q] # Gone

\* The paths of the mount, and which are folders.
LEMMA WatchedFacts ==
  /\ WatchedPaths \subseteq Paths /\ \A p \in Paths : Above[p] \subseteq Paths
  /\ \A p \in WatchedPaths : \A q \in Above[p] : IsDir(q)
  /\ \A p, q \in Paths : q \in AtOrBelow(p) <=> q = p \/ p \in Above[q]
  /\ \A p \in Paths : p \notin Above[p]
<1>1. WatchedPaths \subseteq Paths /\ \A p \in Paths : Above[p] \subseteq Paths
  BY PathsAssumption, WatchAssumption DEF PathsAreATree
<1>2. \A p \in WatchedPaths : \A q \in Above[p] : IsDir(q)
  BY DEF IsDir
<1>3. \A p, q \in Paths : q \in AtOrBelow(p) <=> q = p \/ p \in Above[q]
  BY DEF AtOrBelow, Ancestors
<1> QED BY <1>1, <1>2, <1>3, PathsAssumption DEF PathsAreATree

\* Where an event's folder is, if it still is anywhere.
LEMMA FolderOf ==
  ASSUME NEW n, NEW top \in Nat, NEW l \in EventLocations, FolderStays(n, top, l)
  PROVE  /\ l.parent <= top
         /\ l.parent # RootHandle =>
              /\ Parent(l.path) \in Above[l.path] /\ IsDir(Parent(l.path)) /\ Parent(l.path) \in Paths
              /\ \A q \in Paths : n[q] = l.parent => q = Parent(l.path)
         /\ l.parent = RootHandle => Above[l.path] = {}
<1>1. l.path \in WatchedPaths /\ l.path \in Paths
  BY WatchedFacts DEF EventLocations
<1>2. CASE l.parent # RootHandle
  <2>1. Above[l.path] # {} /\ \A q \in Paths : n[q] = l.parent => q = Parent(l.path)
    BY <1>2 DEF FolderStays
  <2>2. Parent(l.path) \in Above[l.path]
    BY <1>1, <2>1, ParentExists
  <2> QED BY <1>1, <2>1, <2>2, WatchedFacts DEF FolderStays
<1>3. CASE l.parent = RootHandle
  BY <1>3 DEF FolderStays
<1> QED BY <1>2, <1>3

\* A folder stays where it was when its handle did not go elsewhere.
LEMMA FolderStaysBy ==
  ASSUME NEW n, NEW top \in Nat, NEW l \in EventLocations, FolderStays(n, top, l),
         NEW n2, NEW top2 \in Nat, top <= top2,
         l.parent # RootHandle => \A q \in Paths : n2[q] = l.parent => q = Parent(l.path)
  PROVE  FolderStays(n2, top2, l)
<1>1. l.parent <= top2
  <2>1. l.parent \in Nat /\ l.parent <= top
    BY DEF EventLocations, Handles, FolderStays
  <2> QED BY <2>1
<1>2. Above[l.path] = {} => l.parent = RootHandle
  BY DEF FolderStays
<1>3. Above[l.path] # {} => l.parent # RootHandle
  BY DEF FolderStays
<1> QED BY <1>1, <1>2, <1>3 DEF FolderStays

\* A new event's folder is there.
LEMMA FolderIsThere ==
  ASSUME NEW n, NEW top, GoodMount(n, top), NEW p, MayHold(n, p), NEW role \in {"current", "old", "new"}
  PROVE  LET l == LocationOf(n, role, p)
         IN l \in EventLocations /\ FolderStays(n, top, l) /\ LivesIn(n, l.parent) /\ l.path = p /\ l.role = role
<1> DEFINE l == LocationOf(n, role, p)
<1>1. p \in WatchedPaths /\ p \in Paths /\ n \in Mounts /\ TreeOf(n) /\ top \in Nat /\ \A q \in Paths : n[q] <= top
  BY WatchedFacts DEF MayHold, GoodMount
<1>2. l.path = p /\ l.role = role /\ l.parent = HandleOfParent(n, p) /\ l = [role |-> role, path |-> p, parent |-> l.parent]
  BY DEF LocationOf
<1> HIDE DEF l
<1>3. CASE Above[p] = {}
  <2>1. l.parent = RootHandle
    BY <1>2, <1>3 DEF HandleOfParent
  <2>2. l \in EventLocations
    BY <1>1, <1>2, <2>1 DEF EventLocations, Handles, RootHandle
  <2>3. FolderStays(n, top, l)
    BY <1>1, <1>2, <1>3, <2>1 DEF FolderStays, RootHandle
  <2>4. LivesIn(n, l.parent)
    BY <2>1, LivesMeans
  <2> QED BY <1>2, <2>2, <2>3, <2>4 DEF l
<1>4. CASE Above[p] # {}
  <2>1. Parent(p) \in Above[p] /\ Parent(p) \in Paths
    BY <1>1, <1>4, ParentExists, WatchedFacts
  <2>2. l.parent = n[Parent(p)]
    BY <1>2, <1>4 DEF HandleOfParent, Parent
  <2>3. l.parent \in Handles /\ l.parent # Gone /\ l.parent <= top
    BY <1>1, <2>1, <2>2 DEF MayHold, Mounts
  <2>4. l \in EventLocations
    BY <1>1, <1>2, <2>3 DEF EventLocations
  <2>5. \A q \in Paths : n[q] = l.parent => q = Parent(p)
    BY <1>1, <2>1, <2>2, <2>3 DEF TreeOf
  <2>6. FolderStays(n, top, l)
    BY <1>2, <1>4, <2>3, <2>5 DEF FolderStays, RootHandle, Gone
  <2>7. LivesIn(n, l.parent)
    BY <2>1, <2>2, <2>3, LivesMeans
  <2> QED BY <1>2, <2>4, <2>6, <2>7 DEF l
<1> QED BY <1>3, <1>4

EventOf(mask, target, locations) == [mask |-> mask, target |-> target, locations |-> locations]

\* What is found of an event with one name, with two, and with none.
LEMMA FindsOne ==
  ASSUME NEW n, NEW mask, mask # "close", NEW target, NEW l
  PROVE  FindsIn(n, EventOf(mask, target, <<l>>)) = <<FoundAt(n, mask, l)>>
<1> DEFINE e == EventOf(mask, target, <<l>>)
<1>1. e.mask = mask /\ e.locations = <<l>>
  BY DEF EventOf
<1> HIDE DEF e
<1>2. FindsIn(n, e) = [i \in DOMAIN <<l>> |-> FoundAt(n, mask, <<l>>[i])]
  BY <1>1 DEF FindsIn
<1>3. \A c, d : [i \in DOMAIN <<c>> |-> FoundAt(n, mask, <<c>>[i])] = <<FoundAt(n, mask, c)>>
  OBVIOUS
<1> QED BY <1>2, <1>3 DEF e

\* An event with two names.
LEMMA FindsTwo ==
  ASSUME NEW n, NEW mask, mask # "close", NEW target, NEW l, NEW k
  PROVE  FindsIn(n, EventOf(mask, target, <<l, k>>)) = <<FoundAt(n, mask, l), FoundAt(n, mask, k)>>
<1> DEFINE e == EventOf(mask, target, <<l, k>>)
<1>1. e.mask = mask /\ e.locations = <<l, k>>
  BY DEF EventOf
<1> HIDE DEF e
<1>2. FindsIn(n, e) = [i \in DOMAIN <<l, k>> |-> FoundAt(n, mask, <<l, k>>[i])]
  BY <1>1 DEF FindsIn
<1>3. \A c, d : [i \in DOMAIN <<c, d>> |-> FoundAt(n, mask, <<c, d>>[i])] = <<FoundAt(n, mask, c), FoundAt(n, mask, d)>>
  OBVIOUS
<1> QED BY <1>2, <1>3 DEF e

\* An event with none.
LEMMA FindsNone ==
  ASSUME NEW n, NEW mask, mask # "close", NEW target
  PROVE  FindsIn(n, EventOf(mask, target, <<>>)) = <<>>
<1> DEFINE e == EventOf(mask, target, <<>>)
<1>1. e.mask = mask /\ e.locations = <<>>
  BY DEF EventOf
<1> HIDE DEF e
<1>2. FindsIn(n, e) = [i \in DOMAIN <<>> |-> FoundAt(n, mask, <<>>[i])]
  BY <1>1 DEF FindsIn
<1>3. [i \in DOMAIN <<>> |-> FoundAt(n, mask, <<>>[i])] = <<>>
  OBVIOUS
<1> QED BY <1>2, <1>3 DEF e

Masks == {"create", "delete", "rename", "close", "overflow"}

\* An event whose folders are where it says.
LEMMA EventOkOf ==
  ASSUME NEW mask \in Masks, NEW target \in Handles, NEW locations \in Seq(EventLocations), NEW n, NEW top,
         \A i \in DOMAIN locations : FolderStays(n, top, locations[i]), mask = "close" => target \in 1 .. top
  PROVE  EventOf(mask, target, locations) \in WatchEvents /\ EventOk(n, top, EventOf(mask, target, locations))
<1> DEFINE e == EventOf(mask, target, locations)
<1>1. e \in WatchEvents /\ e.mask = mask /\ e.target = target /\ e.locations = locations
  BY DEF EventOf, WatchEvents, Masks
<1> HIDE DEF e
<1>2. EventOk(n, top, e)
  BY <1>1 DEF EventOk
<1> QED BY <1>1, <1>2 DEF e

\* With one name.
LEMMA EventOkOne ==
  ASSUME NEW mask \in {"create", "delete"}, NEW target \in Handles, NEW l \in EventLocations,
         NEW n, NEW top, FolderStays(n, top, l)
  PROVE  EventOf(mask, target, <<l>>) \in WatchEvents /\ EventOk(n, top, EventOf(mask, target, <<l>>))
<1> DEFINE locations == <<l>>
<1>1. locations \in Seq(EventLocations) /\ \A i \in DOMAIN locations : locations[i] = l
  OBVIOUS
<1>2. mask \in Masks /\ mask # "close"
  BY DEF Masks
<1> HIDE DEF locations
<1>3. EventOf(mask, target, locations) \in WatchEvents /\ EventOk(n, top, EventOf(mask, target, locations))
  BY <1>1, <1>2, EventOkOf
<1> QED BY <1>3 DEF locations

\* With two.
LEMMA EventOkTwo ==
  ASSUME NEW target \in Handles, NEW l \in EventLocations, NEW k \in EventLocations,
         NEW n, NEW top, FolderStays(n, top, l), FolderStays(n, top, k)
  PROVE  EventOf("rename", target, <<l, k>>) \in WatchEvents /\ EventOk(n, top, EventOf("rename", target, <<l, k>>))
<1> DEFINE locations == <<l, k>>
<1>1. locations \in Seq(EventLocations) /\ \A i \in DOMAIN locations : locations[i] = l \/ locations[i] = k
  OBVIOUS
<1>2. "rename" \in Masks
  BY DEF Masks
<1> HIDE DEF locations
<1>3. EventOf("rename", target, locations) \in WatchEvents /\ EventOk(n, top, EventOf("rename", target, locations))
  BY <1>1, <1>2, EventOkOf
<1> QED BY <1>3 DEF locations

\* With none.
LEMMA EventOkNone ==
  ASSUME NEW mask \in {"close", "overflow"}, NEW target \in Handles, NEW n, NEW top, mask = "close" => target \in 1 .. top
  PROVE  EventOf(mask, target, <<>>) \in WatchEvents /\ EventOk(n, top, EventOf(mask, target, <<>>))
<1> DEFINE locations == <<>>
<1>1. locations \in Seq(EventLocations) /\ DOMAIN locations = {}
  OBVIOUS
<1>2. mask \in Masks
  BY DEF Masks
<1> HIDE DEF locations
<1>3. EventOf(mask, target, locations) \in WatchEvents /\ EventOk(n, top, EventOf(mask, target, locations))
  BY <1>1, <1>2, EventOkOf
<1> QED BY <1>3 DEF locations

\* What is found in a folder that is there: the name now, or that it is gone.
InFolder(n, l) == n \in Mounts /\ l.path \in Paths /\ LivesIn(n, l.parent)

\* A name that is there says its file, of itself only.
LEMMA FoundThere ==
  ASSUME NEW n, NEW x, InFolder(n, x), NEW mask, mask # "delete" /\ x.role # "old"
  PROVE  \A r : Word(FoundAt(n, mask, x), r) = IF r = x.path THEN n[x.path] ELSE Unseen
BY FoundAtSays DEF InFolder

\* So it is of the new name of a file.
LEMMA FoundRenamed ==
  ASSUME NEW n, NEW x, InFolder(n, x), x.role = "new"
  PROVE  \A r : Word(FoundAt(n, "rename", x), r) = IF r = x.path THEN n[x.path] ELSE Unseen
<1>1. "rename" # "delete" /\ x.role # "old"
  OBVIOUS
<1> QED BY <1>1, FoundThere

\* What a name that is gone says, of itself or of all that was in the folder.
LEMMA FoundGone ==
  ASSUME NEW n, NEW l, InFolder(n, l), NEW mask, l.role = "old" \/ mask = "delete"
  PROVE  \A q : Word(FoundAt(n, mask, l), q) =
                   IF q \in (IF IsDir(l.path) THEN AtOrBelow(l.path) ELSE {l.path}) THEN Gone ELSE Unseen
BY FoundAtSays DEF InFolder

\* A view that one change makes right where it was not.
Rights(n, w, D, c) ==
  /\ n \in Mounts /\ IsView(w) /\ SameView(D, w, n)
  /\ \A q \in Paths : Word(c, q) = n[q] \/ (Word(c, q) = Unseen /\ q \notin D)

\* Such a change makes the view the mount.
LEMMA ShowsRight ==
  ASSUME NEW n, NEW w, NEW D, NEW c, Rights(n, w, D, c)
  PROVE  Shows(w, c) = n
<1>1. n = [q \in Paths |-> n[q]] /\ \A q \in Paths : n[q] # Unseen
  BY DEF Rights, Mounts, Handles, Unseen
<1>2. ASSUME NEW q \in Paths PROVE Shows(w, c)[q] = n[q]
  BY <1>1 DEF Rights, Shows, SameView
<1>3. Shows(w, c) = [q \in Paths |-> Shows(w, c)[q]]
  BY DEF Shows
<1> QED BY <1>1, <1>2, <1>3

\* A name for a new file or folder.
LEMMA CreateSteps ==
  ASSUME NEW n, NEW top, GoodMount(n, top), NEW p, MayHold(n, p), n[p] = Gone, NEW n2,
         n2 = [n EXCEPT ![p] = top + 1]
  PROVE  \E D : Step(n, top, n2, top + 1, D, EventOf("create", top + 1, <<LocationOf(n, "current", p)>>))
<1> DEFINE l == LocationOf(n, "current", p)
           top2 == top + 1
           e == EventOf("create", top2, <<l>>)
<1>1. /\ p \in WatchedPaths /\ p \in Paths /\ n \in Mounts /\ TreeOf(n) /\ top \in Nat /\ top2 \in Nat /\ top < top2
      /\ top2 # Gone /\ \A q \in Paths : n[q] \in Nat /\ n[q] <= top
  BY WatchedFacts DEF MayHold, GoodMount, Mounts, Handles, Gone
<1>2. /\ n2 \in Mounts /\ \A q \in Paths : n2[q] = IF q = p THEN top2 ELSE n[q]
  BY <1>1 DEF Mounts, Handles
<1>3. /\ l \in EventLocations /\ FolderStays(n, top, l) /\ LivesIn(n, l.parent) /\ l.path = p /\ l.role = "current"
  BY FolderIsThere
<1> HIDE DEF l, top2
<1>4. GoodMount(n2, top2)
  <2>1. \A q \in Paths : n2[q] <= top2
    BY <1>1, <1>2
  <2>2. ASSUME NEW q \in Paths, n2[q] # Gone
        PROVE  q \in WatchedPaths /\ \A r \in Above[q] : n2[r] # Gone
    <3>1. q \in WatchedPaths /\ \A r \in Above[q] : n[r] # Gone
      BY <1>1, <1>2, <2>2 DEF TreeOf, MayHold
    <3>2. \A r \in Above[q] : r \in Paths
      BY WatchedFacts
    <3> QED BY <1>1, <1>2, <3>1, <3>2
  <2>3. ASSUME NEW q \in Paths, NEW r \in Paths, n2[q] # Gone, n2[q] = n2[r] PROVE q = r
    <3>1. \A s \in Paths : n[s] # top2
      BY <1>1
    <3> QED BY <1>1, <1>2, <2>3, <3>1 DEF TreeOf
  <2> QED BY <1>1, <1>2, <2>1, <2>2, <2>3 DEF GoodMount, TreeOf
<1>5. ASSUME NEW h \in Nat, h <= top PROVE LivesIn(n, h) <=> LivesIn(n2, h)
  <2>1. \A q \in Paths : h # Gone => (n[q] = h <=> n2[q] = h)
    BY <1>1, <1>2, <1>5
  <2> QED BY <2>1, LivesMeans
<1>6. ASSUME NEW k \in EventLocations, FolderStays(n, top, k)
      PROVE  FolderStays(n2, top2, k) /\ (LivesIn(n, k.parent) <=> LivesIn(n2, k.parent))
  <2>1. k.parent \in Nat /\ k.parent <= top
    BY <1>1, <1>6, FolderOf DEF EventLocations, Handles
  <2>2. k.parent # RootHandle => \A q \in Paths : n2[q] = k.parent => q = Parent(k.path)
    <3>1. \A q \in Paths : n2[q] = k.parent => n[q] = k.parent
      BY <1>1, <1>2, <2>1
    <3> QED BY <1>1, <1>6, <3>1, FolderOf
  <2>3. top <= top2
    BY <1>1
  <2> QED BY <1>1, <1>5, <1>6, <2>1, <2>2, <2>3, FolderStaysBy
<1>7. e \in WatchEvents /\ EventOk(n2, top2, e)
  <2>1. FolderStays(n2, top2, l) /\ top2 \in Handles
    BY <1>1, <1>3, <1>6 DEF Handles
  <2> QED BY <1>3, <2>1, EventOkOne
<1>8. ASSUME NEW w, IsView(w), SameView({p}, w, n2) PROVE ShowsAll(w, FindsIn(n2, e)) = n2
  <2> DEFINE c == FoundAt(n2, "create", l)
  <2>1. FindsIn(n2, e) = <<c>>
    BY FindsOne
  <2>2. LivesIn(n2, l.parent)
    BY <1>3, <1>6
  <2>3. \A q \in Paths : Word(c, q) = IF q = p THEN n2[p] ELSE Unseen
    <3>1. InFolder(n2, l) /\ "create" # "delete" /\ l.role # "old"
      BY <1>1, <1>2, <1>3, <2>2 DEF InFolder
    <3>2. \A q : Word(c, q) = IF q = l.path THEN n2[l.path] ELSE Unseen
      BY ZenonT(60), <3>1, FoundThere
    <3> HIDE DEF c
    <3> QED BY <1>3, <3>2
  <2> HIDE DEF c
  <2>4. Rights(n2, w, {p}, c)
    BY <1>2, <1>8, <2>3 DEF Rights
  <2>5. Shows(w, c) = n2
    BY <2>4, ShowsRight
  <2> QED BY <2>1, <2>5, ShowsOne
<1>9. \A q \in Paths \ {p} : n[q] = n2[q]
  BY <1>2
<1>10. top <= top2
  BY <1>1
<1> HIDE DEF e
<1>11. Step(n, top, n2, top2, {p}, e)
  BY <1>4, <1>6, <1>7, <1>8, <1>9, <1>10 DEF Step
<1> QED BY <1>11 DEF e, l, top2

\* A name is gone; that of a folder, with nothing left in it.
LEMMA DeleteSteps ==
  ASSUME NEW n, NEW top, GoodMount(n, top), NEW p \in WatchedPaths, n[p] # Gone,
         \A q \in ChildrenOf(p) : n[q] = Gone, NEW n2, n2 = [n EXCEPT ![p] = Gone]
  PROVE  \E D : Step(n, top, n2, top, D, EventOf("delete", n[p], <<LocationOf(n, "current", p)>>))
<1> DEFINE l == LocationOf(n, "current", p)
           e == EventOf("delete", n[p], <<l>>)
           D == IF IsDir(p) THEN AtOrBelow(p) ELSE {p}
<1>1. /\ p \in Paths /\ n \in Mounts /\ TreeOf(n) /\ top \in Nat
      /\ \A q \in Paths : n[q] \in Nat /\ n[q] <= top
  BY WatchedFacts DEF GoodMount, Mounts, Handles
<1>2. /\ n2 \in Mounts /\ \A q \in Paths : n2[q] = IF q = p THEN Gone ELSE n[q]
  BY <1>1 DEF Mounts, Handles, Gone
<1>3. /\ l \in EventLocations /\ FolderStays(n, top, l) /\ LivesIn(n, l.parent) /\ l.path = p /\ l.role = "current"
  <2>1. MayHold(n, p)
    BY <1>1 DEF MayHold, TreeOf
  <2> QED BY <2>1, FolderIsThere
<1> HIDE DEF l
<1>4. ASSUME NEW r \in Paths, p \in Above[r] PROVE n[r] = Gone
  <2>1. PICK c \in ChildrenOf(p) : c \in Ancestors(r)
    BY <1>4, ChildOnTheWay
  <2>2. n[c] = Gone /\ c \in Paths
    BY <2>1 DEF ChildrenOf
  <2>3. c = r \/ c \in Above[r]
    BY <2>1 DEF Ancestors
  <2> QED BY <1>1, <2>2, <2>3 DEF TreeOf
<1>5. GoodMount(n2, top)
  <2>1. \A q \in Paths : n2[q] <= top
    BY <1>1, <1>2 DEF Gone
  <2>2. ASSUME NEW q \in Paths, n2[q] # Gone
        PROVE  q \in WatchedPaths /\ \A r \in Above[q] : n2[r] # Gone
    <3>1. n[q] # Gone /\ q \in WatchedPaths /\ \A r \in Above[q] : r \in Paths /\ n[r] # Gone
      BY <1>1, <1>2, <2>2, WatchedFacts DEF TreeOf
    <3>2. p \notin Above[q]
      BY <1>4, <3>1
    <3> QED BY <1>2, <3>1, <3>2
  <2>3. ASSUME NEW q \in Paths, NEW r \in Paths, n2[q] # Gone, n2[q] = n2[r] PROVE q = r
    BY <1>1, <1>2, <2>3 DEF TreeOf
  <2> QED BY <1>1, <1>2, <2>1, <2>2, <2>3 DEF GoodMount, TreeOf
<1>6. ASSUME NEW h, h # n[p] PROVE LivesIn(n, h) <=> LivesIn(n2, h)
  <2>1. \A q \in Paths : h # Gone => (n[q] = h <=> n2[q] = h)
    BY <1>1, <1>2, <1>6
  <2> QED BY <2>1, LivesMeans
<1>7. ASSUME NEW k \in EventLocations, FolderStays(n, top, k) PROVE FolderStays(n2, top, k)
  <2>1. k.parent # RootHandle => \A q \in Paths : n2[q] = k.parent => q = Parent(k.path)
    <3>1. k.parent # RootHandle => \A q \in Paths : n2[q] = k.parent => n[q] = k.parent
      BY <1>1, <1>2 DEF RootHandle, Gone
    <3> QED BY <1>1, <1>7, <3>1, FolderOf
  <2>2. top <= top
    BY <1>1
  <2> QED BY <1>1, <1>7, <2>1, <2>2, FolderStaysBy
<1>8. ASSUME NEW k \in EventLocations, FolderStays(n, top, k)
      PROVE  (LivesIn(n, k.parent) <=> LivesIn(n2, k.parent)) \/ AtOrBelow(k.path) \subseteq D
  <2>1. CASE k.parent # n[p]
    BY <1>6, <2>1
  <2>2. CASE k.parent = n[p]
    <3>1. k.parent # RootHandle
      BY <2>2 DEF RootHandle, Gone
    <3>2. p \in Above[k.path] /\ IsDir(p)
      BY <1>1, <1>8, <2>2, <3>1, FolderOf
    <3>3. AtOrBelow(k.path) \subseteq AtOrBelow(p)
      <4>1. p \in Ancestors(k.path)
        BY <3>2 DEF Ancestors
      <4> QED BY <4>1, TreeFacts DEF AtOrBelow
    <3> QED BY <3>2, <3>3
  <2> QED BY <2>1, <2>2
<1>9. LivesIn(n2, l.parent)
  <2>1. l.parent # n[p]
    <3> SUFFICES ASSUME l.parent = n[p] PROVE FALSE
      OBVIOUS
    <3>1. l.parent # RootHandle
      BY DEF RootHandle, Gone
    <3>2. p \in Above[p]
      BY <1>1, <1>3, <3>1, FolderOf
    <3> QED BY <1>1, <3>2, WatchedFacts
  <2> QED BY <1>3, <1>6, <2>1
<1>10. e \in WatchEvents /\ EventOk(n2, top, e)
  <2>1. FolderStays(n2, top, l) /\ n[p] \in Handles
    BY <1>1, <1>3, <1>7 DEF Handles
  <2> QED BY <1>3, <2>1, EventOkOne
<1>11. \A q \in D : q \in Paths /\ n2[q] = Gone
  <2>1. CASE IsDir(p)
    <3>1. \A q \in AtOrBelow(p) : q \in Paths /\ (q = p \/ p \in Above[q])
      BY DEF AtOrBelow, Ancestors
    <3> QED BY <1>2, <1>4, <2>1, <3>1
  <2>2. CASE ~IsDir(p)
    BY <1>1, <1>2, <2>2
  <2> QED BY <2>1, <2>2
<1>12. p \in D
  BY <1>1 DEF AtOrBelow, Ancestors
<1> HIDE DEF D
<1>13. ASSUME NEW w, IsView(w), SameView(D, w, n2) PROVE ShowsAll(w, FindsIn(n2, e)) = n2
  <2> DEFINE c == FoundAt(n2, "delete", l)
  <2>1. FindsIn(n2, e) = <<c>>
    BY FindsOne
  <2>2. \A q \in Paths : Word(c, q) = IF q \in D THEN Gone ELSE Unseen
    <3>1. InFolder(n2, l)
      BY <1>1, <1>2, <1>3, <1>9 DEF InFolder
    <3> QED BY <1>3, <3>1, FoundGone DEF D
  <2> HIDE DEF c
  <2>3. Rights(n2, w, D, c)
    BY <1>2, <1>11, <1>13, <2>2 DEF Rights
  <2>4. Shows(w, c) = n2
    BY <2>3, ShowsRight
  <2> QED BY <2>1, <2>4, ShowsOne
<1>14. \A q \in Paths \ D : n[q] = n2[q]
  BY <1>2, <1>12
<1>15. top <= top
  BY <1>1
<1> HIDE DEF e
<1>16. Step(n, top, n2, top, D, e)
  BY <1>5, <1>7, <1>8, <1>10, <1>13, <1>14, <1>15 DEF Step
<1> QED BY <1>16 DEF e, l

\* A file has another name, and what had that name has none.
LEMMA RenameSteps ==
  ASSUME NEW n, NEW top, GoodMount(n, top), NEW p \in WatchedPaths, NEW q \in WatchedPaths, p # q,
         n[p] # Gone, ~IsDir(p), ~IsDir(q), MayHold(n, q), NEW n2, n2 = [n EXCEPT ![p] = Gone, ![q] = n[p]]
  PROVE  \E D : Step(n, top, n2, top, D,
                     EventOf("rename", n[p], <<LocationOf(n, "old", p), LocationOf(n, "new", q)>>))
<1> DEFINE l == LocationOf(n, "old", p)
           k == LocationOf(n, "new", q)
           e == EventOf("rename", n[p], <<l, k>>)
<1>1. /\ p \in Paths /\ q \in Paths /\ n \in Mounts /\ TreeOf(n) /\ top \in Nat
      /\ \A r \in Paths : n[r] \in Nat /\ n[r] <= top
  BY WatchedFacts DEF GoodMount, Mounts, Handles
<1>2. /\ n2 \in Mounts /\ \A r \in Paths : n2[r] = IF r = q THEN n[p] ELSE IF r = p THEN Gone ELSE n[r]
  BY <1>1 DEF Mounts, Handles, Gone
<1>3. /\ l \in EventLocations /\ FolderStays(n, top, l) /\ LivesIn(n, l.parent) /\ l.path = p /\ l.role = "old"
  <2>1. MayHold(n, p)
    BY <1>1 DEF MayHold, TreeOf
  <2> QED BY <2>1, FolderIsThere
<1>4. /\ k \in EventLocations /\ FolderStays(n, top, k) /\ LivesIn(n, k.parent) /\ k.path = q /\ k.role = "new"
  BY FolderIsThere
<1> HIDE DEF l, k
<1>5. GoodMount(n2, top)
  <2>1. \A r \in Paths : n2[r] <= top
    <3>1. Gone <= top
      BY <1>1 DEF Gone
    <3> QED BY <1>1, <1>2, <3>1
  <2>2. ASSUME NEW r \in Paths, n2[r] # Gone
        PROVE  r \in WatchedPaths /\ \A s \in Above[r] : n2[s] # Gone
    <3>1. r \in WatchedPaths /\ \A s \in Above[r] : s \in Paths /\ n[s] # Gone
      BY <1>1, <1>2, <2>2, WatchedFacts DEF TreeOf, MayHold
    <3>2. p \notin Above[r]
      BY <3>1, WatchedFacts
    <3> QED BY <1>2, <3>1, <3>2
  <2>3. ASSUME NEW r \in Paths, NEW s \in Paths, n2[r] # Gone, n2[r] = n2[s] PROVE r = s
    BY <1>1, <1>2, <2>3 DEF TreeOf
  <2> QED BY <1>1, <1>2, <2>1, <2>2, <2>3 DEF GoodMount, TreeOf
<1>6. ASSUME NEW m \in EventLocations, FolderStays(n, top, m)
      PROVE  /\ m.parent # RootHandle => m.parent # n[p] /\ m.parent # n[q]
             /\ LivesIn(n, m.parent) <=> LivesIn(n2, m.parent)
             /\ FolderStays(n2, top, m)
  <2>1. m.parent # RootHandle => m.parent # n[p] /\ m.parent # n[q]
    BY <1>1, <1>6, FolderOf
  <2>2. m.parent # RootHandle => \A r \in Paths : n[r] = m.parent <=> n2[r] = m.parent
    BY <1>1, <1>2, <2>1 DEF RootHandle, Gone
  <2>3. LivesIn(n, m.parent) <=> LivesIn(n2, m.parent)
    BY <2>2, LivesMeans
  <2>4. m.parent # RootHandle => \A r \in Paths : n2[r] = m.parent => r = Parent(m.path)
    BY <1>1, <1>6, <2>2, FolderOf
  <2>5. top <= top
    BY <1>1
  <2>6. FolderStays(n2, top, m)
    BY <1>1, <1>6, <2>4, <2>5, FolderStaysBy
  <2> QED BY <2>1, <2>3, <2>6
<1>7. e \in WatchEvents /\ EventOk(n2, top, e)
  <2>1. FolderStays(n2, top, l) /\ FolderStays(n2, top, k) /\ n[p] \in Handles
    BY <1>1, <1>3, <1>4, <1>6 DEF Handles
  <2> QED BY <1>3, <1>4, <2>1, EventOkTwo
<1>8. ASSUME NEW w, IsView(w), SameView({p, q}, w, n2) PROVE ShowsAll(w, FindsIn(n2, e)) = n2
  <2> DEFINE c == FoundAt(n2, "rename", l)
             d == FoundAt(n2, "rename", k)
             v == Shows(w, c)
  <2>1. FindsIn(n2, e) = <<c, d>>
    BY FindsTwo
  <2>2. \A r \in Paths : Word(c, r) = IF r = p THEN Gone ELSE Unseen
    <3>1. LivesIn(n2, l.parent)
      BY <1>3, <1>6
    <3>2. ~IsDir(l.path) /\ InFolder(n2, l) /\ l.role = "old"
      BY <1>1, <1>2, <1>3, <3>1 DEF InFolder
    <3>3. \A r : Word(c, r) = IF r \in (IF IsDir(l.path) THEN AtOrBelow(l.path) ELSE {l.path}) THEN Gone ELSE Unseen
      BY ZenonT(60), <3>2, FoundGone
    <3> HIDE DEF c
    <3> QED BY <1>3, <3>2, <3>3
  <2>3. \A r \in Paths : Word(d, r) = IF r = q THEN n2[q] ELSE Unseen
    <3>1. LivesIn(n2, k.parent)
      BY <1>4, <1>6
    <3>2. InFolder(n2, k) /\ k.role = "new"
      BY <1>1, <1>2, <1>4, <3>1 DEF InFolder
    <3>3. \A r : Word(d, r) = IF r = k.path THEN n2[k.path] ELSE Unseen
      BY <3>2, FoundRenamed, Zenon
    <3> HIDE DEF d
    <3> QED BY <1>4, <3>3
  <2> HIDE DEF c, d
  <2>4. IsView(v) /\ SameView({q}, v, n2)
    <3>1. IsView(v)
      BY DEF IsView, Shows
    <3>2. ASSUME NEW r \in Paths \ {q} PROVE v[r] = n2[r]
      <4>1. v[r] = IF Word(c, r) = Unseen THEN w[r] ELSE Word(c, r)
        BY DEF Shows
      <4>2. CASE r = p
        <5>1. n2[r] = Gone
          BY <1>1, <1>2, <4>2
        <5>2. Word(c, r) = Gone
          BY <1>1, <2>2, <4>2
        <5>3. Gone # Unseen
          BY DEF Gone, Unseen
        <5> HIDE DEF v
        <5> QED BY <4>1, <5>1, <5>2, <5>3
      <4>3. CASE r # p
        BY <1>8, <2>2, <4>1, <4>3 DEF SameView
      <4> QED BY <4>2, <4>3
    <3> HIDE DEF v
    <3> QED BY <3>1, <3>2 DEF SameView
  <2> HIDE DEF v
  <2>5. Rights(n2, v, {q}, d)
    BY <1>2, <2>3, <2>4 DEF Rights
  <2>6. Shows(v, d) = n2
    BY <2>5, ShowsRight
  <2>7. ShowsAll(w, <<c, d>>) = Shows(v, d)
    BY ShowsTwo DEF v
  <2> QED BY <2>1, <2>6, <2>7
<1>9. \A r \in Paths \ {p, q} : n[r] = n2[r]
  BY <1>2
<1>10. top <= top
  BY <1>1
<1> HIDE DEF e
<1>11. Step(n, top, n2, top, {p, q}, e)
  BY <1>5, <1>6, <1>7, <1>8, <1>9, <1>10 DEF Step
<1> QED BY <1>11 DEF e, l, k

\* Nothing changes: a file is closed, or the queue overflows.
LEMMA CloseSteps ==
  ASSUME NEW n, NEW top, GoodMount(n, top), NEW p \in Paths, n[p] # Gone
  PROVE  \E D : Step(n, top, n, top, D, EventOf("close", n[p], <<>>))
<1> DEFINE e == EventOf("close", n[p], <<>>)
<1>1. n \in Mounts /\ TreeOf(n) /\ top \in Nat /\ n[p] \in Nat /\ n[p] <= top /\ n[p] \in Handles
  BY DEF GoodMount, Mounts, Handles
<1>2. e \in WatchEvents /\ EventOk(n, top, e)
  <2>1. n[p] \in 1 .. top
    BY <1>1 DEF Gone
  <2> QED BY <1>1, <2>1, EventOkNone
<1>3. ASSUME NEW w, IsView(w), SameView({}, w, n) PROVE ShowsAll(w, FindsIn(n, e)) = n
  <2> DEFINE c == FoundClosed(n, n[p])
  <2>1. FindsIn(n, e) = <<c>>
    BY DEF FindsIn, EventOf
  <2>2. \A q \in Paths : Word(c, q) = IF n[q] = n[p] THEN n[p] ELSE Unseen
    BY <1>1, FoundClosedSays
  <2> HIDE DEF c
  <2>3. Rights(n, w, {}, c)
    BY <1>1, <1>3, <2>2 DEF Rights
  <2>4. Shows(w, c) = n
    BY <2>3, ShowsRight
  <2> QED BY <2>1, <2>4, ShowsOne
<1>4. top <= top
  BY <1>1
<1> HIDE DEF e
<1>5. Step(n, top, n, top, {}, e)
  BY <1>2, <1>3, <1>4 DEF Step
<1> QED BY <1>5 DEF e

\* The queue overflows: nothing changes.
LEMMA OverflowSteps ==
  ASSUME NEW n, NEW top, GoodMount(n, top)
  PROVE  \E D : Step(n, top, n, top, D, EventOf("overflow", Gone, <<>>))
<1> DEFINE e == EventOf("overflow", Gone, <<>>)
<1>1. n \in Mounts /\ top \in Nat /\ Gone \in Handles
  BY DEF GoodMount, Gone, Handles
<1>2. e \in WatchEvents /\ EventOk(n, top, e)
  BY <1>1, EventOkNone
<1>3. ASSUME NEW w, IsView(w), SameView({}, w, n) PROVE ShowsAll(w, FindsIn(n, e)) = n
  <2>1. FindsIn(n, e) = <<>>
    BY FindsNone
  <2>2. w = n
    BY <1>1, <1>3 DEF IsView, SameView, Mounts
  <2> QED BY <2>1, <2>2, AfterNothing
<1>4. top <= top
  BY <1>1
<1> HIDE DEF e
<1>5. Step(n, top, n, top, {}, e)
  BY <1>2, <1>3, <1>4 DEF Step
<1> QED BY <1>5 DEF e
-----------------------------------------------------------------------------
(* The invariant. *)

\* What the watch finds is what there is on the mount as it is.
LEMMA FindsAgree == \A e : FoundFor(e) = FindsIn(names, e)
<1> SUFFICES ASSUME NEW e PROVE FoundFor(e) = FindsIn(names, e)
  OBVIOUS
<1>1. \A h : Lives(h) <=> LivesIn(names, h)
  BY DEF Lives, LivesIn
<1>2. CASE e.mask = "close"
  <2>1. FoundFor(e) = <<IF Lives(e.target) THEN [path |-> PathOf(e.target), handle |-> e.target, folder |-> FALSE]
                     ELSE [handle |-> Unseen]>>
    BY <1>2, Zenon DEF FoundFor
  <2>2. FindsIn(names, e) = <<FoundClosed(names, e.target)>>
    BY <1>2, Zenon DEF FindsIn
  <2>3. (IF Lives(e.target) THEN [path |-> PathOf(e.target), handle |-> e.target, folder |-> FALSE]
         ELSE [handle |-> Unseen]) = FoundClosed(names, e.target)
    BY <1>1, Zenon DEF FoundClosed, PathOf, Missed
  <2> QED BY <2>1, <2>2, <2>3
<1>3. CASE e.mask # "close"
  <2>1. FoundFor(e) = [i \in DOMAIN e.locations |-> FoundAt(names, e.mask, e.locations[i])]
    BY <1>1, <1>3, Zenon DEF FoundFor, FoundAt, Missed
  <2> QED BY <1>3, <2>1, Zenon DEF FindsIn
<1> QED BY <1>2, <1>3

\* A burst committed to an index gives an index.
LEMMA ViewIsMount ==
  ASSUME NEW burst \in Bursts, NEW index \in Mounts
  PROVE  View(burst, index) \in Mounts
BY DEF View, Bursts, Mounts, Handles, Gone, Unseen

\* What the invariant says of the mount and of what is to be read.
LEMMA InvFacts ==
  ASSUME WatchInv
  PROVE  /\ MountOk(names, handles, held \o queue)
         /\ View(pending, heard) \in Mounts /\ heard \in Mounts /\ pending \in Bursts
         /\ held \in Seq(WatchEvents) /\ queue \in Seq(WatchEvents)
<1>1. MountTyped /\ TreeOf(names) /\ EventsOk(names, handles, held \o queue)
  BY DEF WatchInv, MountIsTree, EventsStay
<1>2. /\ handles \in Nat /\ names \in [Paths -> 0 .. handles] /\ heard \in Mounts /\ pending \in Bursts
      /\ held \in Seq(WatchEvents) /\ queue \in Seq(WatchEvents)
  BY <1>1 DEF MountTyped, Mounts
<1>3. held \o queue \in Seq(WatchEvents)
  BY <1>2
<1>4. names \in Mounts /\ \A q \in Paths : names[q] <= handles
  BY <1>2 DEF Mounts, Handles
<1> QED BY <1>1, <1>2, <1>3, <1>4, ViewIsMount DEF MountOk, GoodMount

\* And what it takes to say it.
LEMMA MountTypedBy ==
  ASSUME MountOk(names, handles, held \o queue), heard \in Mounts, pending \in Bursts,
         held \in Seq(WatchEvents), queue \in Seq(WatchEvents), blind \in BOOLEAN
  PROVE  MountTyped /\ MountIsTree /\ EventsStay
<1>1. handles \in Nat /\ names \in Mounts /\ \A q \in Paths : names[q] <= handles
  BY DEF MountOk, GoodMount
<1>2. names \in [Paths -> 0 .. handles]
  <2>1. \A q \in Paths : names[q] \in 0 .. handles
    BY <1>1 DEF Mounts, Handles
  <2>2. names = [q \in Paths |-> names[q]]
    BY <1>1 DEF Mounts
  <2> QED BY <2>1, <2>2
<1>3. MountTyped
  BY <1>1, <1>2 DEF MountTyped, Mounts
<1> QED BY <1>3 DEF MountIsTree, EventsStay, MountOk, GoodMount

\* The mount changes, and the event is queued.
LEMMA MountChanges ==
  ASSUME WatchInv, NEW e, \E D : Step(names, handles, names', handles', D, e),
         queue' = Append(queue, e), UNCHANGED <<held, pending, heard, blind>>
  PROVE  WatchInv'
<1>1. PICK D : Step(names, handles, names', handles', D, e)
  OBVIOUS
<1>2. e \in WatchEvents
  BY <1>1 DEF Step
<1>3. held' \o queue' = Append(held \o queue, e)
  <2>1. \A s, t \in Seq(WatchEvents) : \A d \in WatchEvents : s \o Append(t, d) = Append(s \o t, d)
    OBVIOUS
  <2> QED BY <1>2, <2>1, InvFacts
<1>4. /\ MountOk(names, handles, held \o queue) /\ GoodMount(names, handles)
  BY InvFacts DEF MountOk
<1>5. /\ MountOk(names', handles', held' \o queue')
      /\ \A index \in Mounts : Exact(names, index, held \o queue) => Exact(names', index, held' \o queue')
  BY <1>1, <1>3, <1>4, StepSound
<1>6. queue' \in Seq(WatchEvents) /\ held' \in Seq(WatchEvents) /\ heard' \in Mounts /\ pending' \in Bursts /\ blind' \in BOOLEAN
  BY <1>2, InvFacts DEF WatchInv, MountTyped
<1>7. (MountTyped /\ MountIsTree /\ EventsStay)'
  <2>1. handles' \in Nat /\ names' \in Mounts /\ \A q \in Paths : names'[q] <= handles'
    BY <1>5 DEF MountOk, GoodMount
  <2>2. names' \in [Paths -> 0 .. handles']
    <3>1. \A q \in Paths : names'[q] \in 0 .. handles'
      BY <2>1 DEF Mounts, Handles
    <3>2. names' = [q \in Paths |-> names'[q]]
      BY <2>1 DEF Mounts
    <3> QED BY <3>1, <3>2
  <2> QED BY <1>5, <1>6, <2>1, <2>2 DEF MountTyped, MountIsTree, EventsStay, MountOk, GoodMount, Mounts
<1>8. WillBeExact'
  <2> SUFFICES ASSUME ~blind' PROVE Exact(names', View(pending', heard'), held' \o queue')
    BY DEF WillBeExact
  <2>1. Exact(names, View(pending, heard), held \o queue)
    BY DEF WatchInv, WillBeExact
  <2> QED BY <1>5, <2>1, InvFacts
<1> QED BY <1>7, <1>8 DEF WatchInv

\* Names change on the mount.
LEMMA NamesChange ==
  ASSUME WatchInv, NEW p \in WatchedPaths, CreatesName(p) \/ DeletesName(p) \/ ClosesFile(p)
                   \/ \E q \in WatchedPaths : RenamesFile(p, q)
  PROVE  WatchInv'
<1>1. GoodMount(names, handles)
  BY InvFacts DEF MountOk
<1>2. /\ \A role, q : Location(role, q) = LocationOf(names, role, q)
      /\ \A mask, target, locations : Event(mask, target, locations) = EventOf(mask, target, locations)
  BY DEF Location, LocationOf, Event, EventOf
<1>3. \A q : CanHold(q) => MayHold(names, q)
  BY DEF CanHold, MayHold
<1>4. CASE CreatesName(p)
  <2> DEFINE e == EventOf("create", handles + 1, <<LocationOf(names, "current", p)>>)
  <2>1. /\ MayHold(names, p) /\ names[p] = Gone /\ names' = [names EXCEPT ![p] = handles + 1] /\ handles' = handles + 1
        /\ queue' = Append(queue, e) /\ UNCHANGED <<held, pending, heard, blind>>
    BY <1>2, <1>3, <1>4 DEF CreatesName, Happens
  <2>2. \E D : Step(names, handles, names', handles', D, e)
    BY <1>1, <2>1, CreateSteps
  <2> HIDE DEF e
  <2> QED BY <2>1, <2>2, MountChanges
<1>5. CASE DeletesName(p)
  <2> DEFINE e == EventOf("delete", names[p], <<LocationOf(names, "current", p)>>)
  <2>1. /\ names[p] # Gone /\ \A q \in ChildrenOf(p) : names[q] = Gone
        /\ names' = [names EXCEPT ![p] = Gone] /\ handles' = handles
        /\ queue' = Append(queue, e) /\ UNCHANGED <<held, pending, heard, blind>>
    BY <1>2, <1>5 DEF DeletesName, Happens
  <2>2. \E D : Step(names, handles, names', handles', D, e)
    BY <1>1, <2>1, DeleteSteps
  <2> HIDE DEF e
  <2> QED BY <2>1, <2>2, MountChanges
<1>6. CASE ClosesFile(p)
  <2> DEFINE e == EventOf("close", names[p], <<>>)
  <2>1. /\ names[p] # Gone /\ names' = names /\ handles' = handles /\ p \in Paths
        /\ queue' = Append(queue, e) /\ UNCHANGED <<held, pending, heard, blind>>
    BY <1>2, <1>6, WatchedFacts DEF ClosesFile, Happens
  <2>2. \E D : Step(names, handles, names', handles', D, e)
    BY <1>1, <2>1, CloseSteps
  <2> HIDE DEF e
  <2> QED BY <2>1, <2>2, MountChanges
<1>7. ASSUME NEW q \in WatchedPaths, RenamesFile(p, q) PROVE WatchInv'
  <2> DEFINE e == EventOf("rename", names[p], <<LocationOf(names, "old", p), LocationOf(names, "new", q)>>)
  <2>1. /\ p # q /\ names[p] # Gone /\ ~IsDir(p) /\ ~IsDir(q) /\ MayHold(names, q)
        /\ names' = [names EXCEPT ![p] = Gone, ![q] = names[p]] /\ handles' = handles
        /\ queue' = Append(queue, e) /\ UNCHANGED <<held, pending, heard, blind>>
    BY <1>2, <1>3, <1>7 DEF RenamesFile, Happens
  <2>2. \E D : Step(names, handles, names', handles', D, e)
    BY <1>1, <2>1, RenameSteps
  <2> HIDE DEF e
  <2> QED BY <2>1, <2>2, MountChanges
<1> QED BY <1>4, <1>5, <1>6, <1>7

\* The queue overflows.
LEMMA OverflowKeeps ==
  ASSUME WatchInv, Overflows
  PROVE  WatchInv'
<1> DEFINE e == EventOf("overflow", Gone, <<>>)
<1>1. GoodMount(names, handles)
  BY InvFacts DEF MountOk
<1>2. /\ names' = names /\ handles' = handles
      /\ queue' = Append(queue, e) /\ UNCHANGED <<held, pending, heard, blind>>
  BY DEF Overflows, Happens, Event, EventOf
<1>3. \E D : Step(names, handles, names', handles', D, e)
  BY <1>1, <1>2, OverflowSteps
<1> HIDE DEF e
<1> QED BY <1>2, <1>3, MountChanges

\* Nothing is to be read any more, and the index is known to be stale.
LEMMA GivingUpKeeps ==
  ASSUME WatchInv, GivesUp, UNCHANGED <<names, handles, nameOps, heard>>
  PROVE  WatchInv'
<1>1. blind' = TRUE /\ held' = <<>> /\ queue' = <<>> /\ pending' = NoBurst
  BY DEF GivesUp
<1>2. <<>> \in Seq(WatchEvents) /\ <<>> \o <<>> = <<>> /\ DOMAIN <<>> = {}
  OBVIOUS
<1>3. MountTyped'
  BY <1>1, <1>2, NoBurstSaysNothing DEF WatchInv, MountTyped
<1>4. MountIsTree'
  BY DEF WatchInv, MountIsTree
<1>5. EventsStay'
  <2>1. held' \o queue' = <<>>
    BY <1>1, <1>2
  <2>2. DOMAIN (held' \o queue') = {}
    BY <1>2, <2>1
  <2> QED BY <2>2 DEF EventsStay, EventsOk
<1> QED BY <1>1, <1>3, <1>4, <1>5 DEF WatchInv, WillBeExact

\* A burst is committed: the index is what it was going to be.
LEMMA CommitKeeps ==
  ASSUME WatchInv, CommitsBurst
  PROVE  WatchInv'
<1>1. /\ heard' = View(pending, heard) /\ pending' = NoBurst
      /\ UNCHANGED <<names, handles, nameOps, queue, held, deleted, blind>>
  BY DEF CommitsBurst, View
<1>2. heard' \in Mounts /\ pending' \in Bursts /\ View(pending', heard') = View(pending, heard)
  <2>1. View(pending, heard) \in [Paths -> Handles]
    BY InvFacts DEF Mounts
  <2> QED BY <1>1, <2>1, NoBurstSaysNothing DEF Mounts
<1>3. MountTyped'
  BY <1>1, <1>2 DEF WatchInv, MountTyped, Mounts
<1>4. MountIsTree' /\ EventsStay'
  BY <1>1 DEF WatchInv, MountIsTree, EventsStay
<1>5. WillBeExact'
  BY <1>1, <1>2 DEF WatchInv, WillBeExact
<1> QED BY <1>3, <1>4, <1>5 DEF WatchInv

\* A queue is read up to a place.
SplitsInto(h, q, a, b) ==
  a \in Seq(WatchEvents) /\ b \in Seq(WatchEvents) /\ h \o a \in Seq(WatchEvents) /\ (h \o a) \o b = h \o q

\* The two parts are sequences of events, and together what there was.
LEMMA SplitsAt ==
  \A h, q \in Seq(WatchEvents) : \A n \in Nat :
    n <= Len(q) => SplitsInto(h, q, SubSeq(q, 1, n), SubSeq(q, n + 1, Len(q)))
<1> SUFFICES ASSUME NEW h \in Seq(WatchEvents), NEW q \in Seq(WatchEvents), NEW n \in Nat, n <= Len(q)
             PROVE  SplitsInto(h, q, SubSeq(q, 1, n), SubSeq(q, n + 1, Len(q)))
  OBVIOUS
<1> DEFINE a == SubSeq(q, 1, n)
           b == SubSeq(q, n + 1, Len(q))
<1>1. /\ a \in Seq(WatchEvents) /\ Len(a) = n /\ \A i \in 1 .. n : a[i] = q[i]
      /\ b \in Seq(WatchEvents) /\ Len(b) = Len(q) - n /\ \A i \in 1 .. Len(q) - n : b[i] = q[n + i]
  OBVIOUS
<1> HIDE DEF a, b
<1> DEFINE ab == a \o b
<1>2. /\ ab \in Seq(WatchEvents) /\ Len(ab) = Len(q)
      /\ \A i \in 1 .. Len(q) : ab[i] = IF i <= n THEN a[i] ELSE b[i - n]
  BY <1>1, ConcatProperties
<1> HIDE DEF ab
<1>3. ASSUME NEW i \in 1 .. Len(q) PROVE ab[i] = q[i]
  <2>1. CASE i <= n
    <3>1. i \in 1 .. n
      BY <2>1
    <3> QED BY <1>1, <1>2, <2>1, <3>1
  <2>2. CASE ~(i <= n)
    <3>1. i - n \in 1 .. Len(q) - n /\ n + (i - n) = i
      BY <2>2
    <3> QED BY <1>1, <1>2, <2>2, <3>1
  <2> QED BY <2>1, <2>2
<1>4. ab = q
  BY <1>2, <1>3, SeqEqual
<1>5. (h \o a) \o b = h \o ab
  BY SMTT(60), <1>1, ConcatAssociative DEF ab
<1>6. h \o a \in Seq(WatchEvents)
  BY <1>1
<1> QED BY <1>1, <1>4, <1>5, <1>6 DEF a, b, SplitsInto

\* A batch is read: given up, kept for later, or put into the burst.
LEMMA ReadKeeps ==
  ASSUME WatchInv, NEW n \in 1 .. MaxNameOps, ReadsBatch(n)
  PROVE  WatchInv'
<1> DEFINE a == SubSeq(queue, 1, n)
           b == SubSeq(queue, n + 1, Len(queue))
           events == held \o a
           found == [k \in DOMAIN events |-> FoundFor(events[k])]
<1>1. n \in Nat /\ n <= Len(queue) /\ ~blind /\ UNCHANGED <<names, handles, nameOps, heard>>
  BY WatchAssumption DEF ReadsBatch
<1>2. /\ a \in Seq(WatchEvents) /\ b \in Seq(WatchEvents) /\ events \in Seq(WatchEvents)
      /\ events \o b = held \o queue
  <2>1. held \in Seq(WatchEvents) /\ queue \in Seq(WatchEvents)
    BY InvFacts
  <2>2. SplitsInto(held, queue, a, b)
    BY <1>1, <2>1, SplitsAt, Zenon
  <2> QED BY <2>2 DEF SplitsInto
<1>3. \/ GivesUp
      \/ queue' = b /\ held' = events /\ UNCHANGED <<blind, deleted, pending>>
      \/ queue' = b /\ held' = <<>> /\ UNCHANGED blind /\ pending' = Merged(pending, FoldLeft(Collect, NoBurst, found))
  BY DEF ReadsBatch
<1>4. CASE GivesUp
  BY <1>1, <1>4, GivingUpKeeps
<1> HIDE DEF a, b, events, found
<1>5. CASE queue' = b /\ held' = events /\ UNCHANGED <<blind, deleted, pending>>
  <2>1. held' \o queue' = held \o queue
    BY <1>2, <1>5
  <2>2. MountTyped'
    BY <1>1, <1>2, <1>5 DEF WatchInv, MountTyped
  <2>3. MountIsTree'
    BY <1>1 DEF WatchInv, MountIsTree
  <2>4. EventsStay' /\ WillBeExact'
    BY <1>1, <1>5, <2>1 DEF WatchInv, EventsStay, WillBeExact
  <2> QED BY <2>2, <2>3, <2>4 DEF WatchInv
<1>6. CASE /\ queue' = b /\ held' = <<>> /\ UNCHANGED blind
           /\ pending' = Merged(pending, FoldLeft(Collect, NoBurst, found))
  <2> DEFINE m == Len(events)
             burst == FoldLeft(Collect, NoBurst, found)
             view == View(pending, heard)
  <2>1. held' \o queue' = b
    <3>1. \A s \in Seq(WatchEvents) : <<>> \o s = s
      OBVIOUS
    <3> QED BY <1>2, <1>6, <3>1
  <2>2. found = FindsAll(names, events)
    BY FindsAgree DEF found, FindsAll
  <2>3. /\ m \in Nat /\ DOMAIN events = 1 .. m /\ DOMAIN found = 1 .. m
        /\ \A k \in 1 .. m : found[k] = FindsIn(names, events[k])
    <3>1. DOMAIN events = 1 .. m
      BY <1>2
    <3> QED BY <1>2, <2>2, <3>1, FindsAllSeq
  <2>0. \A s, t \in Seq(WatchEvents) : \A k \in DOMAIN t :
           Len(s) + k \in DOMAIN (s \o t) /\ (s \o t)[Len(s) + k] = t[k]
    OBVIOUS
  <2>4. EventsOk(names, handles, events) /\ EventsOk(names, handles, b)
    <3>1. EventsOk(names, handles, events \o b)
      BY <1>2 DEF WatchInv, EventsStay
    <3>2. ASSUME NEW k \in DOMAIN events PROVE EventOk(names, handles, events[k])
      <4>1. k \in DOMAIN (events \o b) /\ (events \o b)[k] = events[k]
        BY <1>2
      <4> QED BY <3>1, <4>1 DEF EventsOk
    <3>3. ASSUME NEW k \in DOMAIN b PROVE EventOk(names, handles, b[k])
      <4>1. Len(events) + k \in DOMAIN (events \o b) /\ (events \o b)[Len(events) + k] = b[k]
        BY <1>2, <2>0
      <4> QED BY <3>1, <4>1 DEF EventsOk
    <3> QED BY <3>2, <3>3 DEF EventsOk
  <2>5. \A k \in 1 .. m : FoundOk(found[k])
    <3> SUFFICES ASSUME NEW k \in 1 .. m PROVE FoundOk(found[k])
      OBVIOUS
    <3>0. k \in DOMAIN events
      BY <2>3
    <3>1. events[k] \in WatchEvents /\ EventOk(names, handles, events[k])
      <4>1. events[k] \in WatchEvents
        BY <1>2, <3>0
      <4> QED BY <2>4, <3>0, <4>1 DEF EventsOk
    <3>2. names \in Mounts /\ TreeOf(names)
      BY InvFacts DEF MountOk, GoodMount
    <3>3. FoundOk(FindsIn(names, events[k]))
      BY <3>1, <3>2, FindsOk
    <3> QED BY <2>3, <3>3
  <2>6. view \in [Paths -> Handles] /\ pending \in Bursts
    BY InvFacts DEF Mounts
  <2> HIDE DEF m, view
  <2>7. burst \in Bursts /\ View(burst, view) = After(view, found)
    BY <2>3, <2>5, <2>6, BurstShows
  <2> HIDE DEF burst
  <2>8. pending' \in Bursts /\ View(pending', heard') = View(burst, view)
    BY <1>1, <1>6, <2>6, <2>7, MergedShows DEF burst, view
  <2>9. MountTyped'
    <3>1. <<>> \in Seq(WatchEvents)
      OBVIOUS
    <3> QED BY <1>1, <1>2, <1>6, <2>8, <3>1 DEF WatchInv, MountTyped
  <2>10. MountIsTree'
    BY <1>1 DEF WatchInv, MountIsTree
  <2>11. EventsStay'
    BY <1>1, <2>1, <2>4 DEF EventsStay
  <2>12. WillBeExact'
    <3>1. After(view, FindsAll(names, events \o b)) = After(After(view, found), FindsAll(names, b))
      <4>1. \A n2, v : After(v, FindsAll(n2, events \o b)) = After(After(v, FindsAll(n2, events)), FindsAll(n2, b))
        BY <1>2, AfterConcat
      <4> QED BY <2>2, <4>1
    <3>2. After(view, FindsAll(names, events \o b)) = names
      BY <1>1, <1>2 DEF WatchInv, WillBeExact, Exact, view
    <3>3. After(View(pending', heard'), FindsAll(names, b)) = names
      BY <2>7, <2>8, <3>1, <3>2
    <3> QED BY <1>1, <2>1, <3>3 DEF WillBeExact, Exact
  <2> QED BY <2>9, <2>10, <2>11, <2>12 DEF WatchInv
<1> QED BY <1>3, <1>4, <1>5, <1>6

\* At first the index is the mount.
LEMMA WatchInvInit == WatchInit => WatchInv
<1> SUFFICES ASSUME WatchInit PROVE WatchInv
  OBVIOUS
<1> DEFINE size == Cardinality(Paths)
<1>1. /\ names = [p \in Paths |-> IF p \in WatchedPaths THEN Rank[p] ELSE Gone]
      /\ heard = names /\ handles = size
      /\ queue = <<>> /\ held = <<>> /\ pending = NoBurst /\ blind = FALSE
  BY DEF WatchInit
<1>2. size \in Nat /\ \A p \in Paths : Rank[p] \in 1 .. size
  BY WatchAssumption, FS_CardinalityType
<1> HIDE DEF size
<1>3. <<>> \in Seq(WatchEvents) /\ <<>> \o <<>> = <<>> /\ DOMAIN <<>> = {}
  OBVIOUS
<1>4. names \in [Paths -> 0 .. handles] /\ \A p \in Paths : names[p] = IF p \in WatchedPaths THEN Rank[p] ELSE Gone
  BY <1>1, <1>2 DEF Gone
<1>5. names \in [Paths -> Handles]
  BY <1>1, <1>2, <1>4 DEF Handles
<1>6. MountTyped
  BY <1>1, <1>2, <1>3, <1>4, <1>5, NoBurstSaysNothing DEF MountTyped
<1>7. MountIsTree
  <2>1. \A p \in Paths : names[p] # Gone <=> p \in WatchedPaths
    BY <1>2, <1>4 DEF Gone
  <2>2. \A p \in WatchedPaths : Above[p] \subseteq WatchedPaths
    BY WatchAssumption
  <2>3. \A p, q \in Paths : names[p] # Gone /\ names[p] = names[q] => p = q
    BY <1>4, <2>1, WatchAssumption
  <2> QED BY <2>1, <2>2, <2>3, WatchedFacts DEF MountIsTree, TreeOf
<1>8. EventsStay
  <2>1. DOMAIN (held \o queue) = {}
    BY <1>1, <1>3
  <2> QED BY <2>1 DEF EventsStay, EventsOk
<1>9. WillBeExact
  <2>1. held \o queue = <<>> /\ FindsAll(names, <<>>) = <<>>
    BY <1>1, <1>3 DEF FindsAll
  <2>2. View(pending, heard) = names
    BY <1>1, <1>5, NoBurstSaysNothing
  <2> QED BY <2>1, <2>2, AfterNothing DEF WillBeExact, Exact
<1> QED BY <1>6, <1>7, <1>8, <1>9 DEF WatchInv

\* Every step keeps the invariant.
LEMMA WatchInvNext == WatchInv /\ [WatchNext]_watchVars => WatchInv'
<1> SUFFICES ASSUME WatchInv, [WatchNext]_watchVars PROVE WatchInv'
  OBVIOUS
<1>1. ASSUME NEW p \in WatchedPaths, CreatesName(p) \/ DeletesName(p) \/ ClosesFile(p)
             \/ \E q \in WatchedPaths : RenamesFile(p, q)
      PROVE  WatchInv'
  BY <1>1, NamesChange
<1>2. CASE Overflows
  BY <1>2, OverflowKeeps
<1>3. CASE WaitsInVain
  BY <1>3, GivingUpKeeps DEF WaitsInVain
<1>4. CASE CommitsBurst
  BY <1>4, CommitKeeps
<1>5. ASSUME NEW n \in 1 .. MaxNameOps, ReadsBatch(n) PROVE WatchInv'
  BY <1>5, ReadKeeps
<1>6. CASE UNCHANGED watchVars
  BY <1>6 DEF watchVars, WatchInv, MountTyped, MountIsTree, EventsStay, WillBeExact
<1> QED BY <1>1, <1>2, <1>3, <1>4, <1>5, <1>6 DEF WatchNext

\* With nothing left to read, the index is exact.
LEMMA WatchInvExact == WatchInv => WatchExact
<1> SUFFICES ASSUME WatchInv, queue = <<>>, held = <<>>, pending = NoBurst, ~blind PROVE heard = names
  BY DEF WatchExact
<1>1. held \o queue = <<>> /\ FindsAll(names, <<>>) = <<>>
  BY DEF FindsAll
<1>2. View(pending, heard) = heard
  BY InvFacts, NoBurstSaysNothing DEF Mounts
<1> QED BY <1>1, <1>2, AfterNothing DEF WatchInv, WillBeExact, Exact

\* Once every event has been read and committed, and coverage was not given up, the
\* index has exactly the names of the mount, each with its own file (collection.rs,
\* burst.rs): for every tree of paths and any number of changes.
THEOREM WatchExactHolds == WatchSpec => []WatchExact
BY WatchInvInit, WatchInvNext, WatchInvExact, PTL DEF WatchSpec
=============================================================================
