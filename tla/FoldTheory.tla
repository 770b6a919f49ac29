----------------------------- MODULE FoldTheory -----------------------------
(***************************************************************************)
(* Folds over sequences, step by step.  FoldLeft and FoldRight of the       *)
(* community modules are defined by a fold over the set of places, and that *)
(* by a CHOOSE; here they are shown to go through one value for each place, *)
(* so that a property of a fold follows by induction over the places.       *)
(* A specification takes these facts for an operator of its own:            *)
(*   Steps == INSTANCE FoldTheory WITH Op <- Complete                       *)
(***************************************************************************)
EXTENDS Integers, Sequences, SequencesExt, NaturalsInduction, WellFoundedInduction, TLAPS

CONSTANT Op(_,_)  \* what is folded

\* Every set of numbers that is not empty has a least one.
LEMMA LeastNumber ==
  ASSUME NEW T, T \subseteq Nat, T # {}
  PROVE  \E n \in T : \A m \in T : n <= m
<1> DEFINE R == {ss \in Nat \X Nat : ss[1] < ss[2]}
<1>1. IsWellFoundedOn(R, Nat)
  BY NatLessThanWellFounded, Zenon DEF OpToRel
<1>2. PICK x \in T : \A y \in T : ~(<<y, x>> \in R)
  <2> HIDE DEF R
  <2> QED BY <1>1, WFMin
<1>3. ASSUME NEW m \in T PROVE x <= m
  <2>1. <<m, x>> \in Nat \X Nat /\ ~(<<m, x>> \in R)
    BY <1>2
  <2>2. ~(m < x)
    BY <2>1
  <2> QED BY <2>2
<1> QED BY <1>3

\* Induction over the natural numbers, for a set instead of a predicate.
LEMMA Induction ==
  ASSUME NEW S, 0 \in S, \A n \in Nat : n \in S => n + 1 \in S
  PROVE  Nat \subseteq S
<1> SUFFICES ASSUME Nat \ S # {} PROVE FALSE
  OBVIOUS
<1>1. PICK n \in Nat \ S : \A m \in Nat \ S : n <= m
  BY LeastNumber
<1>2. n # 0 /\ n - 1 \in Nat
  BY <1>1
<1> QED BY <1>1, <1>2

\* it gives the fold of the places up to n and of every part of them.
Unwinds(it, base, seq, n) ==
  it = [s \in SUBSET (1 .. n) |-> IF s = {} THEN base ELSE Op(it[s \ {Max(s)}], seq[Max(s)])]

\* Such a function exists, whatever is folded.
LEMMA UnwindsExists ==
  ASSUME NEW base, NEW seq, NEW n \in Nat
  PROVE  \E it : Unwinds(it, base, seq, n)
<1> DEFINE Good == {k \in Nat : \E it : Unwinds(it, base, seq, k)}
<1>1. 0 \in Good
  <2> DEFINE it == [s \in SUBSET (1 .. 0) |-> base]
  <2>1. Unwinds(it, base, seq, 0)
    BY DEF Unwinds
  <2> QED BY <2>1
<1>2. ASSUME NEW k \in Nat, k \in Good PROVE k + 1 \in Good
  <2>1. PICK it : Unwinds(it, base, seq, k)
    BY <1>2
  <2> DEFINE more == [s \in SUBSET (1 .. k + 1) |->
                        IF k + 1 \in s THEN Op(it[s \ {k + 1}], seq[k + 1]) ELSE it[s]]
  <2>2. ASSUME NEW s \in SUBSET (1 .. k + 1)
        PROVE  more[s] = IF s = {} THEN base ELSE Op(more[s \ {Max(s)}], seq[Max(s)])
    <3>1. CASE k + 1 \in s
      <4>1. Max(s) = k + 1
        <5>1. \A y \in s : k + 1 >= y
          OBVIOUS
        <5>2. \A x \in s : (\A y \in s : x >= y) => x = k + 1
          BY <3>1
        <5> QED BY <3>1, <5>1, <5>2, Zenon DEF Max
      <4>2. s \ {k + 1} \in SUBSET (1 .. k + 1) /\ k + 1 \notin s \ {k + 1}
        OBVIOUS
      <4> QED BY <3>1, <4>1, <4>2
    <3>2. CASE k + 1 \notin s
      <4>1. s \in SUBSET (1 .. k)
        BY <3>2
      <4>2. it[s] = IF s = {} THEN base ELSE Op(it[s \ {Max(s)}], seq[Max(s)])
        BY <2>1, <4>1 DEF Unwinds
      <4>3. s \ {Max(s)} \in SUBSET (1 .. k + 1) /\ k + 1 \notin s \ {Max(s)}
        BY <3>2
      <4> QED BY <3>2, <4>2, <4>3
    <3> QED BY <3>1, <3>2
  <2>3. Unwinds(more, base, seq, k + 1)
    <3> HIDE DEF more
    <3>1. more = [s \in SUBSET (1 .. k + 1) |-> more[s]]
      BY DEF more
    <3> QED BY <2>2, <3>1 DEF Unwinds
  <2> QED BY <2>3
<1> HIDE DEF Good
<1>3. n \in Good
  BY <1>1, <1>2, Induction
<1> QED BY <1>3 DEF Good

\* The fold from the left is the value for all the places.
LEMMA FoldLeftUnwinds ==
  ASSUME NEW base, NEW seq, NEW n \in Nat, DOMAIN seq = 1 .. n
  PROVE  \E it : Unwinds(it, base, seq, n) /\ FoldLeft(Op, base, seq) = it[1 .. n]
<1> DEFINE it == CHOOSE it : Unwinds(it, base, seq, n)
<1>1. Unwinds(it, base, seq, n)
  BY UnwindsExists, Zenon
<1>2. FoldLeft(Op, base, seq) = it[1 .. n]
  BY Zenon DEF FoldLeft, MapThenFoldSet, Unwinds
<1> QED BY <1>1, <1>2

\* f gives the values of a fold from the left, step by step.
RunsLeft(f, base, seq, n) ==
  f[0] = base /\ \A k \in 1 .. n : f[k] = Op(f[k - 1], seq[k])

\* A fold from the left goes through one value after every place.
LEMMA LeftSteps ==
  ASSUME NEW base, NEW seq, NEW n \in Nat, DOMAIN seq = 1 .. n
  PROVE  \E f : RunsLeft(f, base, seq, n) /\ FoldLeft(Op, base, seq) = f[n]
<1>1. PICK it : Unwinds(it, base, seq, n) /\ FoldLeft(Op, base, seq) = it[1 .. n]
  BY FoldLeftUnwinds
<1> DEFINE f == [k \in 0 .. n |-> it[1 .. k]]
<1>2. f[0] = base
  <2>1. 1 .. 0 = {} /\ {} \in SUBSET (1 .. n)
    OBVIOUS
  <2>2. it[{}] = base
    BY <1>1, <2>1 DEF Unwinds
  <2> QED BY <2>1, <2>2
<1>3. ASSUME NEW k \in 1 .. n PROVE f[k] = Op(f[k - 1], seq[k])
  <2>1. Max(1 .. k) = k
    <3>1. k \in 1 .. k /\ \A y \in 1 .. k : k >= y
      OBVIOUS
    <3>2. \A x \in 1 .. k : (\A y \in 1 .. k : x >= y) => x = k
      OBVIOUS
    <3> QED BY <3>1, <3>2, Zenon DEF Max
  <2>2. (1 .. k) \ {k} = 1 .. k - 1 /\ 1 .. k # {} /\ 1 .. k \in SUBSET (1 .. n)
    OBVIOUS
  <2>3. it[1 .. k] = Op(it[(1 .. k) \ {k}], seq[k])
    BY <1>1, <2>1, <2>2 DEF Unwinds
  <2>4. f[k] = it[1 .. k] /\ f[k - 1] = it[1 .. k - 1]
    OBVIOUS
  <2>5. it[1 .. k] = Op(it[1 .. k - 1], seq[k])
    BY <2>2, <2>3
  <2> HIDE DEF f
  <2> QED BY <2>4, <2>5
<1>4. RunsLeft(f, base, seq, n)
  BY <1>2, <1>3 DEF RunsLeft
<1>5. f[n] = it[1 .. n]
  OBVIOUS
<1> QED BY <1>1, <1>4, <1>5

\* The fold is the last value of any sequence of its steps.
THEOREM FoldLeftIs ==
  ASSUME NEW base, NEW seq, NEW n \in Nat, DOMAIN seq = 1 .. n,
         NEW f, RunsLeft(f, base, seq, n)
  PROVE  FoldLeft(Op, base, seq) = f[n]
<1>1. PICK g : RunsLeft(g, base, seq, n) /\ FoldLeft(Op, base, seq) = g[n]
  BY LeftSteps
<1> DEFINE Same == {k \in Nat : k <= n => f[k] = g[k]}
<1>2. 0 \in Same
  BY <1>1 DEF RunsLeft
<1>3. ASSUME NEW k \in Nat, k \in Same PROVE k + 1 \in Same
  <2> SUFFICES ASSUME k + 1 <= n PROVE f[k + 1] = g[k + 1]
    OBVIOUS
  <2>1. k + 1 \in 1 .. n /\ (k + 1) - 1 = k /\ f[k] = g[k]
    BY <1>3
  <2> QED BY <1>1, <2>1 DEF RunsLeft
<1>4. n \in Same
  <2> HIDE DEF Same
  <2> QED BY <1>2, <1>3, Induction
<1> QED BY <1>1, <1>4

\* What holds of the first value and of every next one holds of the fold; what
\* holds after k steps is the set Holds[k].
THEOREM FoldLeftInvariant ==
  ASSUME NEW base, NEW seq, NEW n \in Nat, DOMAIN seq = 1 .. n,
         NEW Holds, base \in Holds[0],
         \A k \in 1 .. n : \A a \in Holds[k - 1] : Op(a, seq[k]) \in Holds[k]
  PROVE  FoldLeft(Op, base, seq) \in Holds[n]
<1>1. PICK g : RunsLeft(g, base, seq, n) /\ FoldLeft(Op, base, seq) = g[n]
  BY LeftSteps
<1> DEFINE Sound == {k \in Nat : k <= n => g[k] \in Holds[k]}
<1>2. 0 \in Sound
  BY <1>1 DEF RunsLeft
<1>3. ASSUME NEW k \in Nat, k \in Sound PROVE k + 1 \in Sound
  <2> SUFFICES ASSUME k + 1 <= n PROVE g[k + 1] \in Holds[k + 1]
    OBVIOUS
  <2>1. k + 1 \in 1 .. n /\ (k + 1) - 1 = k /\ g[k] \in Holds[k]
    BY <1>3
  <2>2. g[k + 1] = Op(g[k], seq[k + 1])
    BY <1>1, <2>1 DEF RunsLeft
  <2> QED BY <2>1, <2>2
<1>4. n \in Sound
  <2> HIDE DEF Sound
  <2> QED BY <1>2, <1>3, Induction
<1> QED BY <1>1, <1>4

\* What holds of the first value, and of the next of any it holds of, holds of the fold.
THEOREM FoldLeftPreserves ==
  ASSUME NEW base, NEW seq, NEW n \in Nat, DOMAIN seq = 1 .. n,
         NEW S, base \in S, \A k \in 1 .. n : \A a \in S : Op(a, seq[k]) \in S
  PROVE  FoldLeft(Op, base, seq) \in S
<1> DEFINE Held == [k \in 0 .. n |-> S]
<1>1. base \in Held[0] /\ Held[n] = S
  OBVIOUS
<1>2. \A k \in 1 .. n : \A a \in Held[k - 1] : Op(a, seq[k]) \in Held[k]
  OBVIOUS
<1> HIDE DEF Held
<1> QED BY <1>1, <1>2, FoldLeftInvariant

\* Nothing folded is the first value (FoldLeft over the completions, the events and
\* the names of a job, when there are none).
THEOREM FoldLeftEmpty ==
  ASSUME NEW base
  PROVE  FoldLeft(Op, base, <<>>) = base
<1>1. DOMAIN <<>> = 1 .. 0
  OBVIOUS
<1>2. PICK f : RunsLeft(f, base, <<>>, 0) /\ FoldLeft(Op, base, <<>>) = f[0]
  BY <1>1, LeftSteps
<1> QED BY <1>2 DEF RunsLeft

\* One more at the end is one step more, after all the others.
THEOREM FoldLeftAppend ==
  ASSUME NEW base, NEW X, NEW seq \in Seq(X), NEW e
  PROVE  FoldLeft(Op, base, Append(seq, e)) = Op(FoldLeft(Op, base, seq), e)
<1> DEFINE n == Len(seq)
           more == Append(seq, e)
<1>1. /\ n \in Nat /\ DOMAIN seq = 1 .. n
      /\ DOMAIN more = 1 .. n + 1 /\ more[n + 1] = e
      /\ \A k \in 1 .. n : more[k] = seq[k]
  OBVIOUS
<1> HIDE DEF n, more
<1>2. PICK g : RunsLeft(g, base, more, n + 1) /\ FoldLeft(Op, base, more) = g[n + 1]
  BY <1>1, LeftSteps
<1>3. RunsLeft(g, base, seq, n)
  BY <1>1, <1>2 DEF RunsLeft
<1>4. FoldLeft(Op, base, seq) = g[n]
  BY <1>1, <1>2, <1>3, FoldLeftIs
<1>5. g[n + 1] = Op(g[n], e)
  <2>1. n + 1 \in 1 .. n + 1 /\ (n + 1) - 1 = n
    BY <1>1
  <2> QED BY <1>1, <1>2, <2>1 DEF RunsLeft
<1> QED BY <1>2, <1>4, <1>5 DEF more

\* One sequence after another is folded in two turns.
THEOREM FoldLeftConcat ==
  ASSUME NEW base, NEW X, NEW seq \in Seq(X), NEW more \in Seq(X)
  PROVE  FoldLeft(Op, base, seq \o more) = FoldLeft(Op, FoldLeft(Op, base, seq), more)
<1> DEFINE n == Len(seq)
           m == Len(more)
           all == seq \o more
<1>1. /\ n \in Nat /\ DOMAIN seq = 1 .. n /\ m \in Nat /\ DOMAIN more = 1 .. m
      /\ DOMAIN all = 1 .. n + m
      /\ \A k \in 1 .. n : all[k] = seq[k]
      /\ \A k \in 1 .. m : all[n + k] = more[k]
  OBVIOUS
<1> HIDE DEF n, m, all
<1>2. PICK g : RunsLeft(g, base, all, n + m) /\ FoldLeft(Op, base, all) = g[n + m]
  BY <1>1, LeftSteps
<1>3. RunsLeft(g, base, seq, n)
  BY <1>1, <1>2 DEF RunsLeft
<1>4. FoldLeft(Op, base, seq) = g[n]
  BY <1>1, <1>3, FoldLeftIs
<1> DEFINE h == [k \in 0 .. m |-> g[n + k]]
<1>5. RunsLeft(h, g[n], more, m)
  <2>1. h[0] = g[n]
    BY <1>1
  <2>2. ASSUME NEW k \in 1 .. m PROVE h[k] = Op(h[k - 1], more[k])
    <3>1. n + k \in 1 .. n + m /\ (n + k) - 1 = n + (k - 1)
      BY <1>1
    <3>2. g[n + k] = Op(g[n + (k - 1)], more[k])
      BY <1>1, <1>2, <3>1 DEF RunsLeft
    <3>3. h[k] = g[n + k] /\ h[k - 1] = g[n + (k - 1)]
      BY <1>1
    <3> HIDE DEF h
    <3> QED BY <3>2, <3>3
  <2> HIDE DEF h
  <2> QED BY <2>1, <2>2 DEF RunsLeft
<1>6. h[m] = g[n + m]
  BY <1>1
<1> HIDE DEF h
<1>7. FoldLeft(Op, g[n], more) = h[m]
  BY <1>1, <1>5, FoldLeftIs
<1> QED BY <1>2, <1>4, <1>6, <1>7 DEF all
-----------------------------------------------------------------------------
(* Folding from the right. *)

\* it gives the fold of the places from lo to n and of every part of them.
RightUnwinds(it, base, seq, lo, n) ==
  it = [s \in SUBSET (lo .. n) |-> IF s = {} THEN base ELSE Op(seq[Min(s)], it[s \ {Min(s)}])]

\* Such a function exists, whatever is folded.
LEMMA RightUnwindsExists ==
  ASSUME NEW base, NEW seq, NEW n \in Nat
  PROVE  \E it : RightUnwinds(it, base, seq, 1, n)
<1> DEFINE Good == {k \in Nat : k <= n => \E it : RightUnwinds(it, base, seq, n - k + 1, n)}
<1>1. 0 \in Good
  <2> DEFINE it == [s \in SUBSET (n - 0 + 1 .. n) |-> base]
  <2>1. n - 0 + 1 .. n = {}
    OBVIOUS
  <2>2. RightUnwinds(it, base, seq, n - 0 + 1, n)
    BY <2>1 DEF RightUnwinds
  <2> QED BY <2>2
<1>2. ASSUME NEW k \in Nat, k \in Good PROVE k + 1 \in Good
  <2> SUFFICES ASSUME k + 1 <= n PROVE \E it : RightUnwinds(it, base, seq, n - (k + 1) + 1, n)
    OBVIOUS
  <2> DEFINE lo == n - (k + 1) + 1
  <2>0. lo \in Int /\ lo <= n /\ n - k + 1 = lo + 1
    OBVIOUS
  <2>1. PICK it : RightUnwinds(it, base, seq, lo + 1, n)
    BY <1>2, <2>0
  <2> HIDE DEF lo
  <2> DEFINE more == [s \in SUBSET (lo .. n) |->
                        IF lo \in s THEN Op(seq[lo], it[s \ {lo}]) ELSE it[s]]
  <2>2. ASSUME NEW s \in SUBSET (lo .. n)
        PROVE  more[s] = IF s = {} THEN base ELSE Op(seq[Min(s)], more[s \ {Min(s)}])
    <3>1. CASE lo \in s
      <4>1. Min(s) = lo
        <5>1. \A y \in s : lo <= y
          BY <2>0
        <5>2. \A x \in s : (\A y \in s : x <= y) => x = lo
          BY <3>1, <2>0
        <5> QED BY <3>1, <5>1, <5>2, Zenon DEF Min
      <4>2. s \ {lo} \in SUBSET (lo .. n) /\ lo \notin s \ {lo}
        OBVIOUS
      <4> QED BY <3>1, <4>1, <4>2
    <3>2. CASE lo \notin s
      <4>1. s \in SUBSET (lo + 1 .. n)
        BY <3>2, <2>0
      <4>2. it[s] = IF s = {} THEN base ELSE Op(seq[Min(s)], it[s \ {Min(s)}])
        BY <2>1, <4>1 DEF RightUnwinds
      <4>3. s \ {Min(s)} \in SUBSET (lo .. n) /\ lo \notin s \ {Min(s)}
        BY <3>2
      <4> QED BY <3>2, <4>2, <4>3
    <3> QED BY <3>1, <3>2
  <2>3. RightUnwinds(more, base, seq, lo, n)
    <3>1. more = [s \in SUBSET (lo .. n) |-> more[s]]
      BY Zenon
    <3> HIDE DEF more
    <3> QED BY <2>2, <3>1 DEF RightUnwinds
  <2> QED BY <2>3 DEF lo
<1> HIDE DEF Good
<1>3. n \in Good
  BY <1>1, <1>2, Induction
<1>4. n - n + 1 = 1
  OBVIOUS
<1> QED BY <1>3, <1>4 DEF Good

\* The fold from the right is the value for all the places.
LEMMA FoldRightUnwinds ==
  ASSUME NEW base, NEW seq, NEW n \in Nat, DOMAIN seq = 1 .. n
  PROVE  \E it : RightUnwinds(it, base, seq, 1, n) /\ FoldRight(Op, seq, base) = it[1 .. n]
<1> DEFINE it == CHOOSE it : RightUnwinds(it, base, seq, 1, n)
<1>1. RightUnwinds(it, base, seq, 1, n)
  BY RightUnwindsExists, Zenon
<1>2. FoldRight(Op, seq, base) = it[1 .. n]
  BY Zenon DEF FoldRight, MapThenFoldSet, RightUnwinds
<1> QED BY <1>1, <1>2

\* f gives the values of a fold from the right: f[k] from place k on.
RunsRight(f, base, seq, n) ==
  f[n + 1] = base /\ \A k \in 1 .. n : f[k] = Op(seq[k], f[k + 1])

\* A fold from the right goes through one value before every place.
LEMMA RightSteps ==
  ASSUME NEW base, NEW seq, NEW n \in Nat, DOMAIN seq = 1 .. n
  PROVE  \E f : RunsRight(f, base, seq, n) /\ FoldRight(Op, seq, base) = f[1]
<1>1. PICK it : RightUnwinds(it, base, seq, 1, n) /\ FoldRight(Op, seq, base) = it[1 .. n]
  BY FoldRightUnwinds
<1> DEFINE f == [k \in 1 .. n + 1 |-> it[k .. n]]
<1>2. f[n + 1] = base
  <2>1. n + 1 .. n = {} /\ {} \in SUBSET (1 .. n) /\ n + 1 \in 1 .. n + 1
    OBVIOUS
  <2>2. it[{}] = base
    BY <1>1, <2>1 DEF RightUnwinds
  <2> QED BY <2>1, <2>2
<1>3. ASSUME NEW k \in 1 .. n PROVE f[k] = Op(seq[k], f[k + 1])
  <2>1. Min(k .. n) = k
    <3>1. k \in k .. n /\ \A y \in k .. n : k <= y
      OBVIOUS
    <3>2. \A x \in k .. n : (\A y \in k .. n : x <= y) => x = k
      OBVIOUS
    <3> QED BY <3>1, <3>2, Zenon DEF Min
  <2>2. (k .. n) \ {k} = k + 1 .. n /\ k .. n # {} /\ k .. n \in SUBSET (1 .. n)
    OBVIOUS
  <2>3. it[k .. n] = Op(seq[k], it[(k .. n) \ {k}])
    BY <1>1, <2>1, <2>2 DEF RightUnwinds
  <2>4. f[k] = it[k .. n] /\ f[k + 1] = it[k + 1 .. n]
    OBVIOUS
  <2>5. it[k .. n] = Op(seq[k], it[k + 1 .. n])
    BY <2>2, <2>3
  <2> HIDE DEF f
  <2> QED BY <2>4, <2>5
<1>4. RunsRight(f, base, seq, n)
  BY <1>2, <1>3 DEF RunsRight
<1>5. f[1] = it[1 .. n]
  OBVIOUS
<1> QED BY <1>1, <1>4, <1>5

\* The fold is the first value of any sequence of its steps.
THEOREM FoldRightIs ==
  ASSUME NEW base, NEW seq, NEW n \in Nat, DOMAIN seq = 1 .. n,
         NEW f, RunsRight(f, base, seq, n)
  PROVE  FoldRight(Op, seq, base) = f[1]
<1>1. PICK g : RunsRight(g, base, seq, n) /\ FoldRight(Op, seq, base) = g[1]
  BY RightSteps
<1> DEFINE Same == {k \in Nat : k <= n => f[n + 1 - k] = g[n + 1 - k]}
<1>2. 0 \in Same
  BY <1>1 DEF RunsRight
<1>3. ASSUME NEW k \in Nat, k \in Same PROVE k + 1 \in Same
  <2> SUFFICES ASSUME k + 1 <= n PROVE f[n + 1 - (k + 1)] = g[n + 1 - (k + 1)]
    OBVIOUS
  <2> DEFINE i == n + 1 - (k + 1)
  <2>1. i \in 1 .. n /\ n + 1 - k = i + 1
    OBVIOUS
  <2>2. f[i + 1] = g[i + 1]
    BY <1>3, <2>1
  <2> HIDE DEF i
  <2>3. f[i] = g[i]
    BY <1>1, <2>1, <2>2 DEF RunsRight
  <2> QED BY <2>3 DEF i
<1>4. n \in Same
  <2> HIDE DEF Same
  <2> QED BY <1>2, <1>3, Induction
<1>5. n + 1 - n = 1
  OBVIOUS
<1> QED BY <1>1, <1>4, <1>5

\* Nothing folded from the right is the first value.
THEOREM FoldRightEmpty ==
  ASSUME NEW base
  PROVE  FoldRight(Op, <<>>, base) = base
<1>1. DOMAIN <<>> = 1 .. 0
  OBVIOUS
<1>2. PICK f : RunsRight(f, base, <<>>, 0) /\ FoldRight(Op, <<>>, base) = f[1]
  BY <1>1, RightSteps
<1> QED BY <1>2 DEF RunsRight

\* What is last is the first step of a fold from the right: of a list of what can be
\* undone, the last entry is undone first.
THEOREM FoldRightAppend ==
  ASSUME NEW base, NEW X, NEW seq \in Seq(X), NEW e
  PROVE  FoldRight(Op, Append(seq, e), base) = FoldRight(Op, seq, Op(e, base))
<1> DEFINE n == Len(seq)
           more == Append(seq, e)
<1>1. /\ n \in Nat /\ DOMAIN seq = 1 .. n
      /\ DOMAIN more = 1 .. n + 1 /\ more[n + 1] = e
      /\ \A k \in 1 .. n : more[k] = seq[k]
  OBVIOUS
<1> HIDE DEF n, more
<1>2. PICK g : RunsRight(g, base, more, n + 1) /\ FoldRight(Op, more, base) = g[1]
  BY <1>1, RightSteps
<1>3. RunsRight(g, Op(e, base), seq, n)
  <2>1. g[n + 1] = Op(more[n + 1], g[(n + 1) + 1]) /\ g[(n + 1) + 1] = base
    BY <1>1, <1>2 DEF RunsRight
  <2>2. \A k \in 1 .. n : g[k] = Op(seq[k], g[k + 1])
    BY <1>1, <1>2 DEF RunsRight
  <2> QED BY <1>1, <2>1, <2>2 DEF RunsRight
<1>4. FoldRight(Op, seq, Op(e, base)) = g[1]
  BY ZenonT(60), <1>1, <1>3, FoldRightIs
<1> QED BY <1>2, <1>4 DEF more
=============================================================================
