--------------------------- MODULE Desktop_proofs ---------------------------
(***************************************************************************)
(* Proofs about the desktop application, for every folder, every content,  *)
(* every number of edits, searches and scans.                              *)
(*                                                                         *)
(* FileTransfer: what is removed is what was copied.  A file is looked at  *)
(* four times, when it is recorded, copied, checked and, being held,       *)
(* removed; CopiedForm, MatchedForm and HeldForm say what each look knows  *)
(* of the copy: as long as the change time (after the check: the           *)
(* modification time) is the recorded one, the copy has the content.  A    *)
(* file with another name elsewhere is compared by its content instead.    *)
(* LiveResults: what is shown when all is quiet is current.                *)
(* ScanSession: an index that is adopted is whole.                         *)
(***************************************************************************)
EXTENDS FileTransfer, LiveResults, ScanSession, FunctionTheorems, FiniteSetTheorems, SequenceTheorems, TLAPS

\* The numbers given to inodes so far.
Given == Cardinality(DOMAIN inodes)

Inodes == [content : Nat \ {0}, mtime : 0 .. userEdits, ctime : 0 .. userEdits]
Keys == [ino : 1 .. Given, mtime : 0 .. userEdits, ctime : 0 .. userEdits, digest : Nat]
Names == [Files -> 0 .. Given]

TransferTyped ==
  /\ cut \in BOOLEAN /\ userEdits \in Nat /\ left \in Nat /\ todo \subseteq Files /\ matched \subseteq Files
  /\ doing \in {"record", "copy", "sync", "clean", "done"}
  /\ Given \in Nat /\ inodes \in [1 .. Given -> Inodes]
  /\ at \in Names /\ hold \in Names /\ current \in Names
  /\ record \in [Files -> Keys \cup {[ino |-> NoItem]}]
  /\ staged \in [Files -> Nat] /\ seen \in [Files -> 0 .. Now]
  /\ target \in [by : {"nobody", "them", "us"}, files : [Files -> Nat]]
  /\ flushed \in BOOLEAN /\ folder \in BOOLEAN /\ result \in {"none", "ok", "error", "stopped"}

\* A file has one name: no number is at, held for, or last put at two of them.
Has(f) == {at[f], hold[f], current[f]} \ {NoItem}
OneName ==
  /\ \A f, g \in Files : f # g => Has(f) \cap Has(g) = {}
  /\ \A f \in Files : at[f] = hold[f] => at[f] = NoItem

\* The inode i is what was recorded of f, and nothing else is known to have it.
IsRecorded(f, i) == i = record[f].ino /\ i # NoItem /\ ~Aliased(i)

\* What is copied of f, wherever the copy is, and when it is known.
Copy(f) == IF doing = "copy" THEN staged[f] ELSE target.files[f]

IsCopied(f) ==
  \/ doing = "sync"
  \/ doing = "copy" /\ f \notin todo
  \/ doing = "clean" /\ f \in todo

CopiedForm(f) ==
  IsCopied(f) /\ IsRecorded(f, at[f]) /\ inodes[at[f]].ctime = record[f].ctime =>
    Copy(f) = inodes[at[f]].content

MatchedForm(f) ==
  f \in matched /\ doing = "clean" =>
    /\ f \in todo /\ hold[f] = NoItem
    /\ IsRecorded(f, at[f]) /\ inodes[at[f]].mtime = record[f].mtime =>
         target.files[f] = inodes[at[f]].content

HeldForm(f) ==
  (/\ hold[f] # NoItem /\ doing = "clean" /\ f \in todo
   /\ IsRecorded(f, hold[f]) /\ inodes[hold[f]].mtime = record[f].mtime)
  => target.files[f] = inodes[hold[f]].content

KeptForm(f) ==
  \/ current[f] \in {NoItem, at[f], hold[f]}
  \/ StillHeld(f) /\ flushed /\ (doing = "done" \/ (doing = "clean" /\ f \notin todo))

PhaseForm ==
  /\ doing = "clean" => \A f \in todo : record[f].ino # NoItem
  /\ doing \notin {"clean", "done"} => matched = {} /\ hold = Empty
  /\ doing \in {"sync", "clean"} => target.by = "us" /\ cut
  /\ doing = "clean" => flushed
  /\ doing \in {"record", "copy"} => target.by # "us"
  /\ result # "none" => doing = "done"
  /\ result = "ok" /\ cut => ~folder /\ at = Empty /\ hold = Empty

TransferInv ==
  /\ TransferTyped /\ OneName /\ PhaseForm
  /\ \A f \in Files : CopiedForm(f) /\ MatchedForm(f) /\ HeldForm(f) /\ KeptForm(f)
-----------------------------------------------------------------------------
(* The start. *)

LEMMA CardFiles ==
  /\ Cardinality(Files) \in Nat /\ Cardinality(Linked) \in Nat
  /\ Cardinality(Linked) <= Cardinality(Files)
  /\ IsFiniteSet(Linked) /\ IsFiniteSet(Files \ Linked)
  /\ Cardinality(Files \ Linked) = Cardinality(Files) - Cardinality(Linked)
<1>1. IsFiniteSet(Files) /\ Linked \in SUBSET Files
  BY TransferAssumption
<1>2. IsFiniteSet(Linked) /\ Cardinality(Linked) <= Cardinality(Files)
  BY <1>1, FS_Subset
<1>3. Files \cap Linked = Linked
  BY <1>1
<1> QED BY <1>1, <1>2, <1>3, FS_CardinalityType, FS_Difference

\* The files can be numbered, those with another name elsewhere first.
LEMMA NumbersExist ==
  /\ Numbering \in [Files -> 1 .. Cardinality(Files)]
  /\ \A f, g \in Files : Numbering[f] = Numbering[g] => f = g
<1> DEFINE L == Cardinality(Linked)
           N == Cardinality(Files)
           O == Files \ Linked
<1>1. L \in Nat /\ N \in Nat /\ L <= N /\ IsFiniteSet(Linked) /\ IsFiniteSet(O)
      /\ Cardinality(O) = N - L
  BY CardFiles
<1> HIDE DEF L, N
<1>2. IsFiniteSet(1 .. L) /\ Cardinality(1 .. L) = L
  BY <1>1, FS_Interval
<1>3. IsFiniteSet(L + 1 .. N) /\ Cardinality(L + 1 .. N) = N - L
  <2>1. L + 1 \in Int /\ N \in Int
    BY <1>1
  <2>2. /\ IsFiniteSet(L + 1 .. N)
        /\ Cardinality(L + 1 .. N) = IF L + 1 > N THEN 0 ELSE N - (L + 1) + 1
    BY <2>1, FS_Interval
  <2> QED BY <1>1, <2>2
<1>4. PICK a \in Bijection(Linked, 1 .. L) : TRUE
  <2>1. Cardinality(Linked) = Cardinality(1 .. L)
    BY <1>2 DEF L
  <2> QED BY <1>1, <1>2, <2>1, FS_SameCardinalityBij DEF ExistsBijection
<1>5. PICK b \in Bijection(O, L + 1 .. N) : TRUE
  BY <1>1, <1>3, FS_SameCardinalityBij DEF ExistsBijection
<1>6. a \in [Linked -> 1 .. L] /\ \A f, g \in Linked : a[f] = a[g] => f = g
  BY <1>4, Fun_BijectionProperties
<1>7. b \in [O -> L + 1 .. N] /\ \A f, g \in O : b[f] = b[g] => f = g
  <2> DEFINE U == L + 1 .. N
  <2>1. b \in Bijection(O, U)
    BY <1>5
  <2> HIDE DEF O, U
  <2>2. b \in [O -> U] /\ \A f, g \in O : b[f] = b[g] => f = g
    BY <2>1, Fun_BijectionProperties
  <2> QED BY <2>2 DEF U
<1> DEFINE n == [f \in Files |-> IF f \in Linked THEN a[f] ELSE b[f]]
<1>8. n \in [Files -> 1 .. N] /\ (\A f, g \in Files : n[f] = n[g] => f = g)
      /\ \A f \in Linked : n[f] <= L
  <2>1. \A f \in Linked : f \in Files /\ n[f] = a[f] /\ a[f] \in Nat /\ a[f] >= 1 /\ a[f] <= L
    BY <1>1, <1>6, TransferAssumption
  <2>2. \A f \in O : f \in Files /\ n[f] = b[f] /\ b[f] \in Nat /\ b[f] > L /\ b[f] <= N
    BY <1>1, <1>7
  <2>3. \A f \in Files : f \in Linked \/ f \in O
    OBVIOUS
  <2>4. n = [f \in Files |-> n[f]]
    OBVIOUS
  <2> HIDE DEF n, O
  <2>5. \A f \in Files : n[f] \in 1 .. N
    BY <1>1, <2>1, <2>2, <2>3
  <2>6. \A f, g \in Files : n[f] = n[g] => f = g
    BY <1>1, <1>6, <1>7, <2>1, <2>2, <2>3
  <2> QED BY <2>1, <2>4, <2>5, <2>6
<1> HIDE DEF n
<1> QED BY <1>8 DEF Numbering, L, N

LEMMA TransferInitInv == TransferInit => TransferInv
<1> SUFFICES ASSUME TransferInit PROVE TransferInv
  OBVIOUS
<1> DEFINE N == Cardinality(Files)
<1>1. N \in Nat
  BY CardFiles
<1>2. inodes = [i \in 1 .. N |-> [content |-> 1, mtime |-> 0, ctime |-> 0]] /\ userEdits = 0
  BY DEF TransferInit
<1>3. Given = N
  <2>1. DOMAIN inodes = 1 .. N
    BY <1>2
  <2> HIDE DEF N
  <2> QED BY <1>1, <2>1, FS_Interval DEF Given
<1>4. PICK there \in SUBSET Files :
        at = [f \in Files |-> IF f \in there THEN Numbering[f] ELSE NoItem]
  BY DEF TransferInit
<1> HIDE DEF N
<1>5. /\ at \in Names /\ current = at /\ hold = Empty /\ hold \in Names
      /\ \A f, g \in Files : at[f] = at[g] => f = g \/ at[f] = NoItem
  <2>1. \A f \in Files : Numbering[f] \in 1 .. N
    BY NumbersExist DEF N
  <2>2. current = at /\ hold = Empty
    BY DEF TransferInit
  <2>3. \A f, g \in Files : Numbering[f] = Numbering[g] => f = g
    BY NumbersExist
  <2>4. Empty \in Names
    BY <1>1, <1>3 DEF Empty, Names, NoItem
  <2>5. at \in Names
    BY <1>1, <1>3, <1>4, <2>1 DEF Names, NoItem
  <2>6. \A f, g \in Files : at[f] = at[g] => f = g \/ at[f] = NoItem
    BY <1>1, <1>4, <2>1, <2>3 DEF NoItem
  <2> QED BY <2>2, <2>4, <2>5, <2>6
<1>6. /\ cut \in BOOLEAN /\ doing = "record" /\ todo = Files /\ folder = TRUE /\ matched = {}
      /\ record = [f \in Files |-> [ino |-> NoItem]] /\ staged = Empty /\ seen = Empty
      /\ target = [by |-> "nobody", files |-> Empty] /\ flushed = FALSE /\ left = 0
      /\ result = "none"
  BY DEF TransferInit
<1>7. TransferTyped
  <2>1. inodes \in [1 .. Given -> Inodes]
    <3>1. [content |-> 1, mtime |-> 0, ctime |-> 0] \in Inodes
      BY <1>2 DEF Inodes
    <3> QED BY <1>2, <1>3, <3>1
  <2>2. Empty \in [Files -> Nat] /\ Empty \in [Files -> 0 .. Now]
    BY <1>2 DEF Empty, NoItem, Now
  <2> QED BY <1>1, <1>2, <1>3, <1>5, <1>6, <2>1, <2>2 DEF TransferTyped
<1>8. OneName
  <2>1. \A f \in Files : hold[f] = NoItem
    BY <1>5 DEF Empty
  <2>2. \A f \in Files : Has(f) = {at[f]} \ {NoItem}
    BY <1>5, <2>1 DEF Has
  <2> QED BY <1>5, <2>1, <2>2 DEF OneName
<1>9. PhaseForm
  BY <1>5, <1>6 DEF PhaseForm
<1>10. \A f \in Files : CopiedForm(f) /\ MatchedForm(f) /\ HeldForm(f) /\ KeptForm(f)
  BY <1>5, <1>6 DEF CopiedForm, IsCopied, MatchedForm, HeldForm, KeptForm
<1> QED BY <1>7, <1>8, <1>9, <1>10 DEF TransferInv

-----------------------------------------------------------------------------
(* The user and other programs. *)

\* What is recorded of a file with a number is a key.
LEMMA Recorded ==
  TransferTyped => \A f \in Files : record[f].ino # NoItem => record[f] \in Keys
BY DEF TransferTyped

\* More numbers and more edits leave everything of its type.
LEMMA Grows ==
  ASSUME TransferTyped, Given' \in Nat, Given' >= Given, userEdits' \in Nat,
         userEdits' >= userEdits
  PROVE  Inodes \subseteq Inodes' /\ Keys \subseteq Keys' /\ Names \subseteq Names'
<1>1. 0 .. userEdits \subseteq 0 .. userEdits' /\ 0 .. Given \subseteq 0 .. Given'
      /\ 1 .. Given \subseteq 1 .. Given'
  BY DEF TransferTyped
<1> QED BY <1>1 DEF Inodes, Keys, Names

\* A write in place shows in the change time, and, once a file was found to be
\* what was recorded, in the time of modification too.
LEMMA WritesToKeeps ==
  ASSUME TimesRestored = FALSE, TransferInv, NEW i \in DOMAIN inodes, NEW c \in Contents,
         WritesTo(i, c)
  PROVE  TransferInv'
<1>1. TransferTyped /\ OneName /\ PhaseForm
      /\ \A f \in Files : CopiedForm(f) /\ MatchedForm(f) /\ HeldForm(f) /\ KeptForm(f)
  BY DEF TransferInv
<1>2. /\ userEdits' = userEdits + 1 /\ userEdits \in Nat /\ userEdits < MaxUserEdits /\ folder
      /\ UNCHANGED <<Others, at, current>>
      /\ Aliased(i) \/ \E f \in Files : at[f] = i
  BY <1>1 DEF WritesTo, ByUser, TransferTyped
<1>3. PICK m \in {Now, inodes[i].mtime} :
        /\ inodes' = [inodes EXCEPT ![i] = [content |-> c, mtime |-> m, ctime |-> Now]]
        /\ m = Now \/ \A f \in matched : at[f] # i \/ Aliased(i)
  BY DEF WritesTo
<1>4. i \in 1 .. Given /\ DOMAIN inodes = 1 .. Given /\ inodes \in [1 .. Given -> Inodes]
      /\ Given \in Nat
  BY <1>1 DEF TransferTyped
<1>5. Given' = Given
  BY <1>3 DEF Given
<1>6. /\ inodes[i] \in Inodes
      /\ m \in 0 .. userEdits' /\ Now \in 0 .. userEdits' /\ c \in Nat \ {0}
  BY <1>2, <1>3, <1>4, TransferAssumption DEF Inodes, Now
<1> DEFINE new == [content |-> c, mtime |-> m, ctime |-> Now]
<1>7. new \in Inodes' /\ new.content = c /\ new.mtime = m /\ new.ctime = Now
  BY <1>6 DEF Inodes
<1>8. inodes' = [inodes EXCEPT ![i] = new]
  BY <1>3
<1> HIDE DEF new
<1>9. /\ inodes'[i] = new /\ \A j \in 1 .. Given : j # i => inodes'[j] = inodes[j]
  BY <1>4, <1>8
<1>10. Inodes \subseteq Inodes' /\ Keys \subseteq Keys' /\ Names \subseteq Names'
  BY <1>1, <1>2, <1>4, <1>5, Grows
<1>11. TransferTyped'
  <2>1. (inodes \in [1 .. Given -> Inodes])'
    BY <1>4, <1>5, <1>7, <1>8, <1>10
  <2>2. (seen \in [Files -> 0 .. Now])'
    BY <1>1, <1>2 DEF TransferTyped, Others, Now
  <2>3. (record \in [Files -> Keys \cup {[ino |-> NoItem]}])'
    BY <1>1, <1>2, <1>10 DEF TransferTyped, Others
  <2>4. (at \in Names /\ hold \in Names /\ current \in Names)'
    BY <1>1, <1>2, <1>10 DEF TransferTyped, Others
  <2> QED BY <1>1, <1>2, <1>4, <1>5, <2>1, <2>2, <2>3, <2>4 DEF TransferTyped, Others
<1>12. OneName'
  BY <1>1, <1>2 DEF OneName, Has, Others
<1>13. PhaseForm'
  BY <1>1, <1>2 DEF PhaseForm, Others
<1>14. ASSUME NEW f \in Files
       PROVE  (CopiedForm(f) /\ MatchedForm(f) /\ HeldForm(f) /\ KeptForm(f))'
  <2>1. at[f] \in 0 .. Given /\ hold[f] \in 0 .. Given /\ current[f] \in 0 .. Given
        /\ seen[f] \in 0 .. Now /\ Now \in Nat
    BY <1>1, <1>2 DEF TransferTyped, Names, Now
  <2>2. UNCHANGED <<at[f], hold[f], current[f], record[f], target, doing, todo, matched,
                    staged, flushed, seen>>
    BY <1>2 DEF Others
  <2>3. \A j : IsRecorded(f, j) => j \in 1 .. Given /\ ~Aliased(j)
                                   /\ record[f].ctime # Now /\ record[f].mtime # Now
    BY <1>1, <1>2, Recorded DEF IsRecorded, Keys, Now
  <2>4. \A j : IsRecorded(f, j)' <=> IsRecorded(f, j)
    BY <2>2 DEF IsRecorded, Aliased
  <2>5. CopiedForm(f)'
    <3>1. CASE at[f] = i
      <4> SUFFICES ASSUME IsRecorded(f, at[f])', inodes'[at'[f]].ctime = record'[f].ctime
                   PROVE  FALSE
        BY DEF CopiedForm
      <4> QED BY <1>7, <1>9, <2>2, <2>3, <2>4, <3>1
    <3>2. CASE at[f] # i /\ at[f] # NoItem
      <4>1. inodes'[at'[f]] = inodes[at[f]]
        BY <1>9, <2>1, <2>2, <3>2 DEF NoItem
      <4>2. CopiedForm(f)
        BY <1>1
      <4> QED BY <2>2, <2>4, <4>1, <4>2 DEF CopiedForm, IsCopied, Copy
    <3>3. CASE at[f] = NoItem
      BY <2>2, <3>3 DEF CopiedForm, IsRecorded
    <3> QED BY <3>1, <3>2, <3>3
  <2>6. MatchedForm(f)'
    <3>1. MatchedForm(f)
      BY <1>1
    <3>2. CASE at[f] = i
      <4>1. ASSUME f \in matched, IsRecorded(f, at[f]) PROVE inodes'[at[f]].mtime # record[f].mtime
        BY <1>3, <1>7, <1>9, <2>3, <3>2, <4>1
      <4> QED BY <2>2, <2>4, <3>1, <4>1 DEF MatchedForm
    <3>3. CASE at[f] # i /\ at[f] # NoItem
      <4>1. inodes'[at'[f]] = inodes[at[f]]
        BY <1>9, <2>1, <2>2, <3>3 DEF NoItem
      <4> QED BY <2>2, <2>4, <3>1, <4>1 DEF MatchedForm
    <3>4. CASE at[f] = NoItem
      BY <2>2, <3>1, <3>4 DEF MatchedForm, IsRecorded
    <3> QED BY <3>2, <3>3, <3>4
  <2>7. HeldForm(f)'
    <3> SUFFICES ASSUME hold[f] # NoItem, IsRecorded(f, hold[f])
                 PROVE  inodes'[hold[f]] = inodes[hold[f]]
      <4>1. HeldForm(f)
        BY <1>1
      <4> QED BY <2>2, <2>4, <4>1 DEF HeldForm
    <3>1. hold[f] # i
      BY <1>1, <1>2, <2>3 DEF OneName, Has
    <3> QED BY <1>9, <2>3, <3>1
  <2>8. KeptForm(f)'
    <3> SUFFICES ASSUME current[f] \notin {NoItem, at[f], hold[f]}
                 PROVE  StillHeld(f)'
      <4>1. KeptForm(f)
        BY <1>1
      <4> QED BY <2>2, <4>1 DEF KeptForm
    <3>1. target.by = "us"
          /\ (target.files[f] = inodes[current[f]].content
              \/ (Aliased(current[f]) /\ inodes[current[f]].ctime >= seen[f]))
      <4>1. KeptForm(f)
        BY <1>1
      <4>2. StillHeld(f)
        BY <4>1 DEF KeptForm
      <4> QED BY <4>2 DEF StillHeld
    <3>2. CASE current[f] = i
      <4>1. Aliased(i)
        BY <1>1, <1>2, <3>2 DEF OneName, Has
      <4>2. inodes'[current[f]].ctime >= seen[f]
        BY <1>7, <1>9, <2>1, <3>2
      <4> QED BY <2>2, <3>1, <3>2, <4>1, <4>2 DEF StillHeld, Aliased
    <3>3. CASE current[f] # i
      <4>1. inodes'[current[f]] = inodes[current[f]]
        BY <1>9, <2>1, <3>3 DEF NoItem
      <4> QED BY <2>2, <3>1, <4>1 DEF StillHeld, Aliased
    <3> QED BY <3>2, <3>3
  <2> QED BY <2>5, <2>6, <2>7, <2>8
<1> QED BY <1>11, <1>12, <1>13, <1>14 DEF TransferInv

\* A saved file has a number of its own, that nothing was recorded with.
LEMMA SavesKeeps ==
  ASSUME TransferInv, NEW s \in Files, NEW c \in Contents, Saves(s, c)
  PROVE  TransferInv'
<1> DEFINE i == Given + 1
<1>1. TransferTyped /\ OneName /\ PhaseForm
      /\ \A f \in Files : CopiedForm(f) /\ MatchedForm(f) /\ HeldForm(f) /\ KeptForm(f)
  BY DEF TransferInv
<1>2. /\ userEdits' = userEdits + 1 /\ userEdits \in Nat /\ userEdits < MaxUserEdits /\ folder
      /\ UNCHANGED Others
      /\ at' = [at EXCEPT ![s] = i] /\ current' = [current EXCEPT ![s] = i]
  BY <1>1 DEF Saves, ByUser, TransferTyped, Given
<1>3. Given \in Nat /\ inodes \in [1 .. Given -> Inodes] /\ i \in Nat
  BY <1>1 DEF TransferTyped
<1> DEFINE new == [content |-> c, mtime |-> Now, ctime |-> Now]
<1>4. inodes' = [n \in 1 .. i |-> IF n < i THEN inodes[n] ELSE new]
  BY DEF Saves, Given
<1>5. Given' = i
  <2>1. DOMAIN inodes' = 1 .. i
    BY <1>4
  <2>2. Cardinality(1 .. i) = IF 1 > i THEN 0 ELSE i - 1 + 1
    BY <1>3, FS_Interval
  <2> QED BY <1>3, <2>1, <2>2 DEF Given
<1>6. new \in Inodes'
  BY <1>2, TransferAssumption DEF Inodes, Now
<1> HIDE DEF new
<1>7. /\ i > Given /\ i \in 1 .. i
      /\ \A j \in 1 .. Given : j \in 1 .. i /\ j # i /\ inodes'[j] = inodes[j] /\ inodes[j] \in Inodes
  BY <1>3, <1>4
<1>8. Inodes \subseteq Inodes' /\ Keys \subseteq Keys' /\ Names \subseteq Names'
  BY <1>1, <1>2, <1>3, <1>5, Grows
<1>9. \A n \in 1 .. i : n < i => n \in 1 .. Given
  BY <1>3
<1> HIDE DEF i
<1>10. TransferTyped'
  <2>1. (inodes \in [1 .. Given -> Inodes])'
    <3>1. \A n \in 1 .. i : (IF n < i THEN inodes[n] ELSE new) \in Inodes'
      BY <1>6, <1>7, <1>8, <1>9
    <3> QED BY <1>4, <1>5, <3>1
  <2>2. (seen \in [Files -> 0 .. Now])'
    BY <1>1, <1>2 DEF TransferTyped, Others, Now
  <2>3. (record \in [Files -> Keys \cup {[ino |-> NoItem]}])'
    BY <1>1, <1>2, <1>8 DEF TransferTyped, Others
  <2>4. at \in Names' /\ current \in Names' /\ (hold \in Names)'
    BY <1>1, <1>2, <1>8 DEF TransferTyped, Others
  <2>5. at' \in Names' /\ current' \in Names'
    <3>1. i \in (0 .. Given)'
      BY <1>3, <1>5
    <3> QED BY <1>2, <2>4, <3>1 DEF Names
  <2> QED BY <1>1, <1>2, <1>3, <1>5, <2>1, <2>2, <2>3, <2>4, <2>5 DEF TransferTyped, Others
<1>11. /\ at'[s] = i /\ current'[s] = i /\ hold' = hold
       /\ \A f \in Files : /\ f # s => at'[f] = at[f] /\ current'[f] = current[f]
                           /\ {at[f], hold[f], current[f]} \subseteq 0 .. Given
  BY <1>1, <1>2 DEF TransferTyped, Names, Others
<1>12. \A f \in Files : i \notin {at[f], hold[f], current[f], record[f].ino} /\ i # NoItem
  <2>1. \A n \in 0 .. Given : n # i
    BY <1>3, <1>7
  <2>2. i # NoItem
    BY <1>3, <1>7 DEF NoItem
  <2>3. \A f \in Files : record[f].ino # i
    BY <1>1, <1>3, <2>1, <2>2, Recorded DEF Keys
  <2> QED BY <1>11, <2>1, <2>2, <2>3
<1>13. OneName'
  <2>1. \A f \in Files : f # s => Has(f)' = Has(f)
    BY <1>11 DEF Has
  <2>2. Has(s)' \subseteq Has(s) \cup {i} /\ \A f \in Files : i \notin Has(f)
    BY <1>11, <1>12 DEF Has
  <2>3. \A f, g \in Files : f # g => Has(f)' \cap Has(g)' = {}
    BY <1>1, <2>1, <2>2 DEF OneName
  <2>4. \A f \in Files : at'[f] = hold'[f] => at'[f] = NoItem
    BY <1>1, <1>11, <1>12 DEF OneName
  <2> QED BY <2>3, <2>4 DEF OneName
<1>14. PhaseForm'
  BY <1>1, <1>2 DEF PhaseForm, Others
<1>15. ASSUME NEW f \in Files
       PROVE  (CopiedForm(f) /\ MatchedForm(f) /\ HeldForm(f) /\ KeptForm(f))'
  <2>1. CopiedForm(f) /\ MatchedForm(f) /\ HeldForm(f) /\ KeptForm(f)
    BY <1>1
  <2>2. UNCHANGED <<hold[f], record[f], target, doing, todo, matched, staged, flushed, seen>>
    BY <1>2 DEF Others
  <2>3. \A j : IsRecorded(f, j)' <=> IsRecorded(f, j)
    BY <2>2 DEF IsRecorded, Aliased
  <2>4. \A j \in 0 .. Given : j # NoItem => inodes'[j] = inodes[j]
    BY <1>3, <1>7 DEF NoItem
  <2>5. f # s => at'[f] = at[f] /\ current'[f] = current[f]
    BY <1>11
  <2>6. f = s => ~IsRecorded(f, at'[f])
    BY <1>11, <1>12 DEF IsRecorded
  <2>7. \A j : IsRecorded(f, j) => j # NoItem
    BY DEF IsRecorded
  <2>8. CopiedForm(f)'
    BY <1>11, <2>1, <2>2, <2>3, <2>4, <2>5, <2>6, <2>7 DEF CopiedForm, IsCopied, Copy
  <2>9. MatchedForm(f)'
    BY <1>11, <2>1, <2>2, <2>3, <2>4, <2>5, <2>6, <2>7 DEF MatchedForm
  <2>10. HeldForm(f)'
    BY <1>11, <2>1, <2>2, <2>3, <2>4 DEF HeldForm
  <2>11. KeptForm(f)'
    <3>1. CASE f = s
      BY <1>11, <3>1 DEF KeptForm
    <3>2. CASE f # s
      <4>1. current[f] # NoItem => inodes'[current[f]] = inodes[current[f]]
        BY <1>11, <2>4
      <4> QED BY <2>1, <2>2, <2>5, <3>2, <4>1 DEF KeptForm, StillHeld, Aliased
    <3> QED BY <3>1, <3>2
  <2> QED BY <2>8, <2>9, <2>10, <2>11
<1> QED BY <1>10, <1>13, <1>14, <1>15 DEF TransferInv

\* A file that is deleted is asked for no more.
LEMMA UnlinksKeeps ==
  ASSUME TransferInv, NEW u \in Files, Unlinks(u)
  PROVE  TransferInv'
<1>1. TransferTyped /\ OneName /\ PhaseForm
      /\ \A f \in Files : CopiedForm(f) /\ MatchedForm(f) /\ HeldForm(f) /\ KeptForm(f)
  BY DEF TransferInv
<1>2. /\ userEdits' = userEdits + 1 /\ userEdits \in Nat /\ folder
      /\ UNCHANGED <<Others, inodes>>
      /\ at' = [at EXCEPT ![u] = NoItem] /\ current' = [current EXCEPT ![u] = NoItem]
  BY <1>1 DEF Unlinks, ByUser, TransferTyped
<1>3. Given' = Given /\ Given \in Nat
  BY <1>1, <1>2 DEF Given, TransferTyped
<1>4. Inodes \subseteq Inodes' /\ Keys \subseteq Keys' /\ Names \subseteq Names'
  BY <1>1, <1>2, <1>3, Grows
<1>5. TransferTyped'
  <2>1. (inodes \in [1 .. Given -> Inodes])'
    BY <1>1, <1>2, <1>3, <1>4 DEF TransferTyped
  <2>2. (seen \in [Files -> 0 .. Now])'
    BY <1>1, <1>2 DEF TransferTyped, Others, Now
  <2>3. (record \in [Files -> Keys \cup {[ino |-> NoItem]}])'
    BY <1>1, <1>2, <1>4 DEF TransferTyped, Others
  <2>4. at \in Names /\ current \in Names /\ hold \in Names /\ hold' = hold
    BY <1>1, <1>2 DEF TransferTyped, Others
  <2>5. (at \in Names /\ current \in Names /\ hold \in Names)'
    BY <1>2, <1>3, <2>4 DEF Names, NoItem
  <2> QED BY <1>1, <1>2, <1>3, <2>1, <2>2, <2>3, <2>5 DEF TransferTyped, Others
<1>6. /\ at'[u] = NoItem /\ current'[u] = NoItem /\ hold' = hold
      /\ \A f \in Files : f # u => at'[f] = at[f] /\ current'[f] = current[f]
  BY <1>1, <1>2 DEF TransferTyped, Names, Others
<1>7. OneName'
  <2>1. \A f \in Files : (Has(f))' \subseteq Has(f)
    BY <1>6 DEF Has
  <2> QED BY <1>1, <1>6, <2>1 DEF OneName
<1>8. PhaseForm'
  BY <1>1, <1>2 DEF PhaseForm, Others
<1>9. ASSUME NEW f \in Files
      PROVE  (CopiedForm(f) /\ MatchedForm(f) /\ HeldForm(f) /\ KeptForm(f))'
  <2>1. CopiedForm(f) /\ MatchedForm(f) /\ HeldForm(f) /\ KeptForm(f)
    BY <1>1
  <2>2. UNCHANGED <<hold[f], record[f], target, doing, todo, matched, staged, flushed, seen, inodes>>
    BY <1>2 DEF Others
  <2>3. \A j : IsRecorded(f, j)' <=> IsRecorded(f, j)
    BY <2>2 DEF IsRecorded, Aliased
  <2>4. f = u => ~IsRecorded(f, at'[f])
    BY <1>6 DEF IsRecorded
  <2>5. CopiedForm(f)'
    BY <1>6, <2>1, <2>2, <2>3, <2>4 DEF CopiedForm, IsCopied, Copy
  <2>6. MatchedForm(f)'
    BY <1>6, <2>1, <2>2, <2>3, <2>4 DEF MatchedForm
  <2>7. HeldForm(f)'
    BY <2>1, <2>2, <2>3 DEF HeldForm
  <2>8. KeptForm(f)'
    BY <1>6, <2>1, <2>2 DEF KeptForm, StillHeld, Aliased
  <2> QED BY <2>5, <2>6, <2>7, <2>8
<1> QED BY <1>5, <1>7, <1>8, <1>9 DEF TransferInv

\* The name at the destination can be taken only before the copy has it.
LEMMA TakesTargetKeeps ==
  ASSUME TransferInv, TakesTarget
  PROVE  TransferInv'
<1>1. TransferTyped /\ OneName /\ PhaseForm
      /\ \A f \in Files : CopiedForm(f) /\ MatchedForm(f) /\ HeldForm(f) /\ KeptForm(f)
  BY DEF TransferInv
<1>2. /\ UNCHANGED <<cut, doing, todo, inodes, at, folder, current, hold, record, matched, staged,
                     flushed, seen, left, result, userEdits>>
      /\ target' = [target EXCEPT !.by = "them"] /\ target.by = "nobody" /\ doing # "done"
  BY DEF TakesTarget
<1>3. target \in [by : {"nobody", "them", "us"}, files : [Files -> Nat]]
  BY <1>1 DEF TransferTyped
<1>4. /\ target'.by = "them" /\ target'.files = target.files
      /\ target' \in [by : {"nobody", "them", "us"}, files : [Files -> Nat]]
  BY <1>2, <1>3
<1>5. doing \in {"record", "copy"}
  BY <1>1, <1>2 DEF TransferTyped, PhaseForm
<1>6. TransferTyped'
  BY <1>1, <1>2, <1>4 DEF TransferTyped, Given, Inodes, Keys, Names, Now
<1>7. OneName'
  BY <1>1, <1>2 DEF OneName, Has
<1>8. PhaseForm'
  BY <1>1, <1>2, <1>4, <1>5 DEF PhaseForm
<1>9. ASSUME NEW f \in Files
      PROVE  (CopiedForm(f) /\ MatchedForm(f) /\ HeldForm(f) /\ KeptForm(f))'
  <2>1. CopiedForm(f) /\ MatchedForm(f) /\ HeldForm(f) /\ KeptForm(f)
    BY <1>1
  <2>2. current[f] \in {NoItem, at[f], hold[f]}
    BY <1>5, <2>1 DEF KeptForm
  <2> QED BY <1>2, <1>4, <1>5, <2>1, <2>2
      DEF CopiedForm, IsCopied, IsRecorded, Aliased, Copy, MatchedForm, HeldForm, KeptForm
<1> QED BY <1>6, <1>7, <1>8, <1>9 DEF TransferInv
-----------------------------------------------------------------------------
(* The transfer. *)

LEMMA FailsKeeps ==
  ASSUME TransferInv, Fails
  PROVE  TransferInv'
<1>1. TransferTyped /\ OneName /\ PhaseForm
      /\ \A f \in Files : CopiedForm(f) /\ MatchedForm(f) /\ HeldForm(f) /\ KeptForm(f)
  BY DEF TransferInv
<1>2. /\ UNCHANGED <<cut, inodes, at, folder, current, userEdits, hold, matched, record, target,
                     flushed, seen, left>>
      /\ doing \in {"record", "copy"} /\ doing' = "done" /\ result' = "error" /\ todo' = {}
      /\ staged' = Empty
  BY DEF Fails, World, Reports
<1>3. Empty \in [Files -> Nat]
  BY DEF Empty, NoItem
<1>4. TransferTyped'
  BY <1>1, <1>2, <1>3 DEF TransferTyped, Given, Inodes, Keys, Names, Now
<1>5. OneName'
  BY <1>1, <1>2 DEF OneName, Has
<1>6. PhaseForm'
  BY <1>1, <1>2 DEF PhaseForm
<1>7. ASSUME NEW f \in Files
      PROVE  (CopiedForm(f) /\ MatchedForm(f) /\ HeldForm(f) /\ KeptForm(f))'
  <2>1. current[f] \in {NoItem, at[f], hold[f]}
    BY <1>1, <1>2 DEF KeptForm
  <2> QED BY <1>2, <2>1 DEF CopiedForm, IsCopied, MatchedForm, HeldForm, KeptForm
<1> QED BY <1>4, <1>5, <1>6, <1>7 DEF TransferInv

\* What a look at a file finds.
LEMMA KeyTyped ==
  ASSUME TransferTyped, NEW i \in 0 .. Given, i # NoItem
  PROVE  /\ Key(i) \in Keys /\ Key(i).ino = i
         /\ Key(i).mtime = inodes[i].mtime /\ Key(i).ctime = inodes[i].ctime
         /\ Key(i).digest = IF Aliased(i) THEN inodes[i].content ELSE NoItem
         /\ inodes[i].content \in Nat \ {0}
<1>1. i \in 1 .. Given /\ inodes[i] \in Inodes
  BY DEF TransferTyped, NoItem
<1>2. (IF Aliased(i) THEN inodes[i].content ELSE NoItem) \in Nat
  BY <1>1 DEF Inodes, NoItem
<1> HIDE DEF Aliased
<1> QED BY <1>1, <1>2 DEF Key, Keys, Inodes

LEMMA TakesRecordKeeps ==
  ASSUME TransferInv, NEW r \in Files, TakesRecord(r)
  PROVE  TransferInv'
<1>1. TransferTyped /\ OneName /\ PhaseForm
      /\ \A f \in Files : CopiedForm(f) /\ MatchedForm(f) /\ HeldForm(f) /\ KeptForm(f)
  BY DEF TransferInv
<1>2. /\ UNCHANGED <<cut, inodes, at, folder, current, userEdits, hold, matched, staged, target,
                     flushed, seen, left, result>>
      /\ doing = "record"
      /\ record' = [record EXCEPT ![r] = IF cut /\ at[r] # NoItem THEN Key(at[r]) ELSE record[r]]
  BY DEF TakesRecord, World
<1>3. \/ doing' = "copy" /\ todo' = Files
      \/ doing' = "record" /\ todo' \subseteq Files
  BY <1>1 DEF TakesRecord, Enters, TransferTyped
<1>4. record' \in [Files -> Keys \cup {[ino |-> NoItem]}]
  <2>1. at[r] \in 0 .. Given /\ record \in [Files -> Keys \cup {[ino |-> NoItem]}]
    BY <1>1 DEF TransferTyped, Names
  <2>2. at[r] # NoItem => Key(at[r]) \in Keys
    BY <1>1, <2>1, KeyTyped
  <2> HIDE DEF Keys, Key
  <2> QED BY <1>2, <2>1, <2>2
<1>5. TransferTyped'
  BY <1>1, <1>2, <1>3, <1>4 DEF TransferTyped, Given, Inodes, Keys, Names, Now
<1>6. OneName'
  BY <1>1, <1>2 DEF OneName, Has
<1>7. PhaseForm'
  BY <1>1, <1>2, <1>3 DEF PhaseForm
<1>8. ASSUME NEW f \in Files
      PROVE  (CopiedForm(f) /\ MatchedForm(f) /\ HeldForm(f) /\ KeptForm(f))'
  <2>1. current[f] \in {NoItem, at[f], hold[f]}
    BY <1>1, <1>2 DEF KeptForm
  <2> QED BY <1>2, <1>3, <2>1 DEF CopiedForm, IsCopied, MatchedForm, HeldForm, KeptForm
<1> QED BY <1>5, <1>6, <1>7, <1>8 DEF TransferInv

LEMMA CopiesKeeps ==
  ASSUME TransferInv, NEW r \in Files, Copies(r)
  PROVE  TransferInv'
<1>1. TransferTyped /\ OneName /\ PhaseForm
      /\ \A f \in Files : CopiedForm(f) /\ MatchedForm(f) /\ HeldForm(f) /\ KeptForm(f)
  BY DEF TransferInv
<1>2. /\ UNCHANGED <<cut, inodes, at, folder, current, userEdits, doing, hold, matched, record,
                     target, flushed, seen, left, result>>
      /\ doing = "copy" /\ todo' = todo \ {r}
      /\ staged' = [staged EXCEPT ![r] = IF at[r] = NoItem THEN NoItem ELSE inodes[at[r]].content]
  BY DEF Copies, World
<1>3. staged \in [Files -> Nat] /\ at[r] \in 0 .. Given
      /\ (at[r] # NoItem => inodes[at[r]].content \in Nat)
  BY <1>1, KeyTyped DEF TransferTyped, Names
<1>4. /\ staged' \in [Files -> Nat] /\ (at[r] # NoItem => staged'[r] = inodes[at[r]].content)
      /\ \A f \in Files : f # r => staged'[f] = staged[f]
  BY <1>2, <1>3 DEF NoItem
<1>5. TransferTyped'
  BY <1>1, <1>2, <1>4 DEF TransferTyped, Given, Inodes, Keys, Names, Now
<1>6. OneName'
  BY <1>1, <1>2 DEF OneName, Has
<1>7. PhaseForm'
  BY <1>1, <1>2 DEF PhaseForm
<1>8. ASSUME NEW f \in Files
      PROVE  (CopiedForm(f) /\ MatchedForm(f) /\ HeldForm(f) /\ KeptForm(f))'
  <2>1. CopiedForm(f) /\ current[f] \in {NoItem, at[f], hold[f]}
    BY <1>1, <1>2 DEF KeptForm
  <2>2. CopiedForm(f)'
    BY <1>2, <1>4, <2>1 DEF CopiedForm, IsCopied, IsRecorded, Aliased, Copy
  <2> QED BY <1>2, <2>1, <2>2 DEF MatchedForm, HeldForm, KeptForm
<1> QED BY <1>5, <1>6, <1>7, <1>8 DEF TransferInv

LEMMA TakesNameKeeps ==
  ASSUME TransferInv, TakesName
  PROVE  TransferInv'
<1>1. TransferTyped /\ OneName /\ PhaseForm
      /\ \A f \in Files : CopiedForm(f) /\ MatchedForm(f) /\ HeldForm(f) /\ KeptForm(f)
  BY DEF TransferInv
<1>2. /\ UNCHANGED <<cut, inodes, at, folder, current, userEdits, hold, matched, record, flushed,
                     seen, left>>
      /\ doing = "copy" /\ todo = {} /\ staged' = Empty
      /\ target' = [by |-> "us", files |-> staged]
      /\ \/ cut /\ doing' = "sync" /\ todo' = {} /\ result' = result
         \/ ~cut /\ doing' = "done" /\ todo' = {} /\ result' = "ok"
  BY DEF TakesName, World, Enters, Reports
<1>3. staged \in [Files -> Nat] /\ Empty \in [Files -> Nat]
  BY <1>1 DEF TransferTyped, Empty, NoItem
<1>4. /\ target'.by = "us" /\ target'.files = staged
      /\ target' \in [by : {"nobody", "them", "us"}, files : [Files -> Nat]]
  BY <1>2, <1>3
<1>5. TransferTyped'
  BY <1>1, <1>2, <1>3, <1>4 DEF TransferTyped, Given, Inodes, Keys, Names, Now
<1>6. OneName'
  BY <1>1, <1>2 DEF OneName, Has
<1>7. PhaseForm'
  BY <1>1, <1>2, <1>4 DEF PhaseForm
<1>8. ASSUME NEW f \in Files
      PROVE  (CopiedForm(f) /\ MatchedForm(f) /\ HeldForm(f) /\ KeptForm(f))'
  <2>1. CopiedForm(f) /\ current[f] \in {NoItem, at[f], hold[f]}
    BY <1>1, <1>2 DEF KeptForm
  <2>2. CopiedForm(f)'
    BY <1>2, <1>4, <2>1 DEF CopiedForm, IsCopied, IsRecorded, Aliased, Copy
  <2> QED BY <1>1, <1>2, <2>1, <2>2 DEF PhaseForm, MatchedForm, HeldForm, KeptForm
<1> QED BY <1>5, <1>6, <1>7, <1>8 DEF TransferInv

LEMMA SynchronisesKeeps ==
  ASSUME TransferInv, Synchronises
  PROVE  TransferInv'
<1>1. TransferTyped /\ OneName /\ PhaseForm
      /\ \A f \in Files : CopiedForm(f) /\ MatchedForm(f) /\ HeldForm(f) /\ KeptForm(f)
  BY DEF TransferInv
<1>2. /\ UNCHANGED <<cut, inodes, at, folder, current, userEdits, hold, matched, record, staged,
                     target, seen, left>>
      /\ doing = "sync"
      /\ \/ /\ flushed' = TRUE /\ doing' = "clean" /\ result' = result
            /\ todo' = {f \in Files : record[f].ino # NoItem}
         \/ result' = "error" /\ doing' = "done" /\ todo' = {} /\ flushed' = flushed
  BY DEF Synchronises, World, Enters, Reports
<1>3. TransferTyped'
  BY <1>1, <1>2 DEF TransferTyped, Given, Inodes, Keys, Names, Now
<1>4. OneName'
  BY <1>1, <1>2 DEF OneName, Has
<1>5. PhaseForm'
  BY <1>1, <1>2 DEF PhaseForm
<1>6. ASSUME NEW f \in Files
      PROVE  (CopiedForm(f) /\ MatchedForm(f) /\ HeldForm(f) /\ KeptForm(f))'
  <2>1. CopiedForm(f) /\ current[f] \in {NoItem, at[f], hold[f]}
    BY <1>1, <1>2 DEF KeptForm
  <2>2. CopiedForm(f)'
    BY <1>2, <2>1 DEF CopiedForm, IsCopied, IsRecorded, Aliased, Copy
  <2>3. matched' = {} /\ hold'[f] = NoItem
    BY <1>1, <1>2 DEF PhaseForm, Empty
  <2> QED BY <1>2, <2>1, <2>2, <2>3 DEF MatchedForm, HeldForm, KeptForm
<1> QED BY <1>3, <1>4, <1>5, <1>6 DEF TransferInv

\* Two looks agree on all but the change time, and on it too but for a file
\* that is compared by its content.
LEMMA SameKeyMeans ==
  ASSUME NEW before \in Keys, NEW now \in Keys
  PROVE  /\ SameKey(before, now) => /\ before.ino = now.ino /\ before.mtime = now.mtime
                                    /\ before.digest = now.digest
         /\ SameFile(before, now) => SameKey(before, now)
                                     /\ (before.digest # NoItem \/ before.ctime = now.ctime)
<1>1. SameKey(before, now) => /\ before.ino = now.ino /\ before.mtime = now.mtime
                              /\ before.digest = now.digest
  BY DEF SameKey, Keys
<1> QED BY <1>1 DEF SameFile

LEMMA ChecksKeeps ==
  ASSUME TransferInv, NEW r \in Files, Checks(r)
  PROVE  TransferInv'
<1>1. TransferTyped /\ OneName /\ PhaseForm
      /\ \A f \in Files : CopiedForm(f) /\ MatchedForm(f) /\ HeldForm(f) /\ KeptForm(f)
  BY DEF TransferInv
<1>2. /\ UNCHANGED <<cut, inodes, at, folder, current, userEdits, doing, hold, record, staged,
                     target, flushed, seen, result>>
      /\ doing = "clean" /\ r \in todo /\ r \notin matched /\ hold[r] = NoItem
  BY DEF Checks, World
<1>3. \/ /\ at[r] # NoItem /\ SameFile(record[r], Key(at[r]))
         /\ matched' = matched \cup {r} /\ todo' = todo /\ left' = left
      \/ /\ todo' = todo \ {r} /\ matched' = matched
         /\ left' = IF at[r] = NoItem THEN left ELSE left + 1
  BY DEF Checks
<1>4. TransferTyped'
  <2>1. left' \in Nat /\ todo' \subseteq Files /\ matched' \subseteq Files
    BY <1>1, <1>3 DEF TransferTyped
  <2> QED BY <1>1, <1>2, <2>1 DEF TransferTyped, Given, Inodes, Keys, Names, Now
<1>5. OneName'
  BY <1>1, <1>2 DEF OneName, Has
<1>6. PhaseForm'
  BY <1>1, <1>2, <1>3 DEF PhaseForm
<1>7. at[r] # NoItem /\ SameFile(record[r], Key(at[r])) /\ IsRecorded(r, at[r])
        => target.files[r] = inodes[at[r]].content
  <2> SUFFICES ASSUME at[r] # NoItem, SameFile(record[r], Key(at[r])), IsRecorded(r, at[r])
               PROVE  target.files[r] = inodes[at[r]].content
    OBVIOUS
  <2>1. record[r] \in Keys
    BY <1>1, Recorded DEF IsRecorded
  <2>2. at[r] \in 0 .. Given
    BY <1>1 DEF TransferTyped, Names
  <2>3. /\ Key(at[r]) \in Keys /\ Key(at[r]).digest = NoItem
        /\ Key(at[r]).ctime = inodes[at[r]].ctime
    BY <1>1, <2>2, KeyTyped DEF IsRecorded
  <2>4. inodes[at[r]].ctime = record[r].ctime
    BY <2>1, <2>3, SameKeyMeans
  <2>5. CopiedForm(r)
    BY <1>1
  <2> QED BY <1>2, <2>4, <2>5 DEF CopiedForm, IsCopied, Copy
<1>8. ASSUME NEW f \in Files
      PROVE  (CopiedForm(f) /\ MatchedForm(f) /\ HeldForm(f) /\ KeptForm(f))'
  <2>1. CopiedForm(f) /\ MatchedForm(f) /\ HeldForm(f) /\ KeptForm(f)
    BY <1>1
  <2>2. todo' \subseteq todo /\ (f \in matched' => f \in todo' /\ (f = r \/ f \in matched))
        /\ (r \in matched' => at[r] # NoItem /\ SameFile(record[r], Key(at[r])))
    BY <1>2, <1>3, <2>1 DEF MatchedForm
  <2>3. CopiedForm(f)' /\ HeldForm(f)'
    BY <1>2, <2>1, <2>2 DEF CopiedForm, IsCopied, IsRecorded, Aliased, Copy, HeldForm
  <2>4. MatchedForm(f)'
    <3>1. \A j : IsRecorded(f, j)' <=> IsRecorded(f, j)
      BY <1>2 DEF IsRecorded, Aliased
    <3> QED BY <1>2, <1>7, <2>1, <2>2, <3>1 DEF MatchedForm
  <2>5. KeptForm(f)'
    BY <1>2, <2>1, <2>2 DEF KeptForm, StillHeld, Aliased
  <2> QED BY <2>3, <2>4, <2>5
<1> QED BY <1>4, <1>5, <1>6, <1>8 DEF TransferInv

LEMMA HoldsKeeps ==
  ASSUME TransferInv, NEW r \in Files, Holds(r)
  PROVE  TransferInv'
<1>1. TransferTyped /\ OneName /\ PhaseForm
      /\ \A f \in Files : CopiedForm(f) /\ MatchedForm(f) /\ HeldForm(f) /\ KeptForm(f)
  BY DEF TransferInv
<1>2. /\ UNCHANGED <<cut, inodes, folder, current, userEdits, doing, record, staged, target,
                     flushed, seen, result>>
      /\ doing = "clean" /\ r \in matched /\ matched' = matched \ {r}
      /\ hold' = [hold EXCEPT ![r] = at[r]] /\ at' = [at EXCEPT ![r] = NoItem]
  BY DEF Holds
<1>3. \/ at[r] # NoItem /\ todo' = todo /\ left' = left
      \/ at[r] = NoItem /\ todo' = todo \ {r} /\ left' = left + 1
  BY DEF Holds
<1>4. r \in todo /\ hold[r] = NoItem /\ MatchedForm(r)
  BY <1>1, <1>2 DEF MatchedForm
<1>5. /\ hold'[r] = at[r] /\ at'[r] = NoItem
      /\ \A f \in Files : f # r => at'[f] = at[f] /\ hold'[f] = hold[f]
  BY <1>1, <1>2 DEF TransferTyped, Names
<1>6. TransferTyped'
  <2>1. left' \in Nat /\ todo' \subseteq Files /\ matched' \subseteq Files
    BY <1>1, <1>2, <1>3 DEF TransferTyped
  <2>2. at \in [Files -> 0 .. Given] /\ hold \in [Files -> 0 .. Given] /\ Given \in Nat
    BY <1>1 DEF TransferTyped, Names
  <2>3. at' \in [Files -> 0 .. Given] /\ hold' \in [Files -> 0 .. Given]
    BY <1>2, <2>2 DEF NoItem
  <2>4. Given' = Given
    BY <1>2 DEF Given
  <2>5. (at \in Names /\ hold \in Names /\ current \in Names)'
    BY <1>1, <1>2, <2>3, <2>4 DEF TransferTyped, Names
  <2> QED BY <1>1, <1>2, <2>1, <2>4, <2>5 DEF TransferTyped, Inodes, Keys, Now
<1>7. OneName'
  <2>1. \A f \in Files : Has(f)' \subseteq Has(f)
    BY <1>2, <1>4, <1>5 DEF Has
  <2> QED BY <1>1, <1>5, <2>1 DEF OneName
<1>8. PhaseForm'
  BY <1>1, <1>2, <1>3 DEF PhaseForm
<1>9. ASSUME NEW f \in Files
      PROVE  (CopiedForm(f) /\ MatchedForm(f) /\ HeldForm(f) /\ KeptForm(f))'
  <2>1. CopiedForm(f) /\ MatchedForm(f) /\ HeldForm(f) /\ KeptForm(f)
    BY <1>1
  <2>2. \A j : IsRecorded(f, j)' <=> IsRecorded(f, j)
    BY <1>2 DEF IsRecorded, Aliased
  <2>3. ~IsRecorded(f, NoItem) /\ todo' \subseteq todo /\ (f # r => (f \in todo' <=> f \in todo))
    BY <1>3 DEF IsRecorded
  <2>4. CopiedForm(f)'
    BY <1>2, <1>5, <2>1, <2>2, <2>3 DEF CopiedForm, IsCopied, Copy
  <2>5. MatchedForm(f)'
    BY <1>2, <1>5, <2>1, <2>2, <2>3 DEF MatchedForm
  <2>6. HeldForm(f)'
    <3>1. CASE f = r
      BY <1>2, <1>4, <1>5, <2>2, <3>1 DEF HeldForm, MatchedForm
    <3>2. CASE f # r
      BY <1>2, <1>5, <2>1, <2>2, <2>3, <3>2 DEF HeldForm
    <3> QED BY <3>1, <3>2
  <2>7. KeptForm(f)'
    <3>1. CASE current[f] \in {NoItem, at[f], hold[f]}
      <4>1. current'[f] \in {NoItem, at'[f], hold'[f]}
        BY <1>2, <1>4, <1>5, <3>1
      <4> QED BY <4>1 DEF KeptForm
    <3>2. CASE current[f] \notin {NoItem, at[f], hold[f]}
      <4>1. StillHeld(f) /\ flushed /\ doing = "clean" /\ f \notin todo
        BY <1>2, <2>1, <3>2 DEF KeptForm
      <4>2. StillHeld(f)'
        BY <1>2, <3>2, <4>1 DEF StillHeld, Aliased
      <4> QED BY <1>2, <2>3, <4>1, <4>2 DEF KeptForm
    <3> QED BY <3>1, <3>2
  <2> QED BY <2>4, <2>5, <2>6, <2>7
<1> QED BY <1>6, <1>7, <1>8, <1>9 DEF TransferInv

\* What is removed is at the destination; or it has another name, and was at
\* the destination when it was removed.
LEMMA RemovesHeldKeeps ==
  ASSUME TransferInv, NEW r \in Files, RemovesHeld(r)
  PROVE  TransferInv'
<1>1. TransferTyped /\ OneName /\ PhaseForm
      /\ \A f \in Files : CopiedForm(f) /\ MatchedForm(f) /\ HeldForm(f) /\ KeptForm(f)
  BY DEF TransferInv
<1>2. /\ UNCHANGED <<cut, inodes, folder, current, userEdits, doing, record, matched, staged,
                     target, flushed, result>>
      /\ doing = "clean" /\ r \in todo /\ hold[r] # NoItem /\ todo' = todo \ {r}
  BY DEF RemovesHeld
<1> DEFINE Removed == SameKey(record[r], Key(hold[r])) /\ CopiedMatches(r)
<1>3. \/ /\ Removed /\ hold' = [hold EXCEPT ![r] = NoItem] /\ seen' = [seen EXCEPT ![r] = Now]
         /\ left' = left /\ at' = at
      \/ /\ at[r] = NoItem /\ at' = [at EXCEPT ![r] = hold[r]]
         /\ hold' = [hold EXCEPT ![r] = NoItem] /\ left' = left + 1 /\ seen' = seen
      \/ at' = at /\ hold' = hold /\ left' = left + 1 /\ seen' = seen
  BY DEF RemovesHeld
<1>4. /\ at \in [Files -> 0 .. Given] /\ hold \in [Files -> 0 .. Given] /\ Given \in Nat
      /\ seen \in [Files -> 0 .. Now] /\ Now \in Nat
  BY <1>1 DEF TransferTyped, Names, Now
<1>5. Removed /\ current[r] = hold[r] => StillHeld(r)'
  <2> SUFFICES ASSUME Removed, current[r] = hold[r] PROVE StillHeld(r)'
    OBVIOUS
  <2>1. record[r] \in Keys
    BY <1>1, <1>2, Recorded DEF PhaseForm
  <2>2. /\ Key(hold[r]) \in Keys /\ Key(hold[r]).ino = hold[r]
        /\ Key(hold[r]).mtime = inodes[hold[r]].mtime
        /\ Key(hold[r]).digest = IF Aliased(hold[r]) THEN inodes[hold[r]].content ELSE NoItem
        /\ inodes[hold[r]].content \in Nat \ {0}
    BY <1>1, <1>2, <1>4, KeyTyped
  <2>3. /\ record[r].ino = hold[r] /\ record[r].mtime = inodes[hold[r]].mtime
        /\ record[r].digest = Key(hold[r]).digest
    BY <2>1, <2>2, SameKeyMeans
  <2>4. target.files[r] = inodes[hold[r]].content
    <3>1. CASE Aliased(hold[r])
      BY <2>2, <2>3, <3>1 DEF CopiedMatches, NoItem
    <3>2. CASE ~Aliased(hold[r])
      BY <1>1, <1>2, <2>3, <3>2 DEF HeldForm, IsRecorded
    <3> QED BY <3>1, <3>2
  <2> QED BY <1>1, <1>2, <2>4 DEF StillHeld, PhaseForm
<1> HIDE DEF Removed
<1>6. TransferTyped'
  <2>1. left' \in Nat /\ todo' \subseteq Files
    BY <1>1, <1>2, <1>3 DEF TransferTyped
  <2>2. at' \in [Files -> 0 .. Given] /\ hold' \in [Files -> 0 .. Given]
        /\ seen' \in [Files -> 0 .. Now]
    BY <1>3, <1>4 DEF NoItem
  <2>3. Given' = Given /\ Now' = Now
    BY <1>2 DEF Given, Now
  <2>4. (at \in Names /\ hold \in Names /\ current \in Names)'
    BY <1>1, <1>2, <2>2, <2>3 DEF TransferTyped, Names
  <2> QED BY <1>1, <1>2, <2>1, <2>2, <2>3, <2>4 DEF TransferTyped, Inodes, Keys
<1>7. /\ \A f \in Files : f # r => at'[f] = at[f] /\ hold'[f] = hold[f] /\ seen'[f] = seen[f]
      /\ \/ Removed /\ at'[r] = at[r] /\ hold'[r] = NoItem
         \/ at[r] = NoItem /\ at'[r] = hold[r] /\ hold'[r] = NoItem
         \/ at'[r] = at[r] /\ hold'[r] = hold[r]
  BY <1>3, <1>4
<1>8. OneName'
  <2>1. \A f \in Files : Has(f)' \subseteq Has(f)
    BY <1>2, <1>7 DEF Has
  <2>2. \A f \in Files : at'[f] = hold'[f] => at'[f] = NoItem
    BY <1>1, <1>7 DEF OneName
  <2> QED BY <1>1, <2>1, <2>2 DEF OneName
<1>9. PhaseForm'
  BY <1>1, <1>2 DEF PhaseForm
<1>10. ASSUME NEW f \in Files
       PROVE  (CopiedForm(f) /\ MatchedForm(f) /\ HeldForm(f) /\ KeptForm(f))'
  <2>1. CopiedForm(f) /\ MatchedForm(f) /\ HeldForm(f) /\ KeptForm(f)
    BY <1>1
  <2>2. \A j : IsRecorded(f, j)' <=> IsRecorded(f, j)
    BY <1>2 DEF IsRecorded, Aliased
  <2>3. f # r => at'[f] = at[f] /\ hold'[f] = hold[f] /\ seen'[f] = seen[f]
    BY <1>7
  <2>4. f = r => f \notin todo' /\ f \notin matched'
    BY <1>1, <1>2 DEF MatchedForm
  <2>5. f # r => (f \in todo' <=> f \in todo)
    BY <1>2
  <2>6. (CopiedForm(f) /\ MatchedForm(f) /\ HeldForm(f))'
    BY <1>2, <2>1, <2>2, <2>3, <2>4, <2>5 DEF CopiedForm, IsCopied, Copy, MatchedForm, HeldForm
  <2>7. KeptForm(f)'
    <3>1. CASE f # r
      BY <1>2, <2>1, <2>3, <2>5, <3>1 DEF KeptForm, StillHeld, Aliased
    <3>2. CASE f = r
      <4>1. current[r] \in {NoItem, at[r], hold[r]}
        BY <1>2, <2>1, <3>2 DEF KeptForm
      <4>2. CASE Removed /\ current[r] = hold[r]
        <5>1. StillHeld(r)'
          BY <1>5, <4>2
        <5> QED BY <1>1, <1>2, <2>4, <3>2, <5>1 DEF KeptForm, PhaseForm
      <4>3. CASE ~(Removed /\ current[r] = hold[r])
        <5>1. current'[r] \in {NoItem, at'[r], hold'[r]}
          BY <1>2, <1>7, <4>1, <4>3
        <5> QED BY <3>2, <5>1 DEF KeptForm
      <4> QED BY <4>2, <4>3
    <3> QED BY <3>1, <3>2
  <2> QED BY <2>6, <2>7
<1> QED BY <1>6, <1>8, <1>9, <1>10 DEF TransferInv

LEMMA RemovesFolderKeeps ==
  ASSUME TransferInv, RemovesFolder
  PROVE  TransferInv'
<1>1. TransferTyped /\ OneName /\ PhaseForm
      /\ \A f \in Files : CopiedForm(f) /\ MatchedForm(f) /\ HeldForm(f) /\ KeptForm(f)
  BY DEF TransferInv
<1>2. /\ UNCHANGED <<cut, inodes, at, current, userEdits, hold, matched, record, staged, target,
                     flushed, seen>>
      /\ doing = "clean" /\ todo = {} /\ doing' = "done" /\ todo' = {}
      /\ folder' = (at # Empty \/ hold # Empty)
      /\ left' = IF folder' THEN left + 1 ELSE left
      /\ result' = IF left' = 0 THEN "ok" ELSE "error"
  BY DEF RemovesFolder, Reports
<1>3. folder' \in BOOLEAN /\ (folder' <=> at # Empty \/ hold # Empty)
  BY <1>2
<1>4. left' \in Nat /\ result' \in {"ok", "error"} /\ (result' = "ok" => ~folder')
  BY <1>1, <1>2, <1>3 DEF TransferTyped
<1>5. TransferTyped'
  BY <1>1, <1>2, <1>3, <1>4 DEF TransferTyped, Given, Inodes, Keys, Names, Now
<1>6. OneName'
  BY <1>1, <1>2 DEF OneName, Has
<1>7. PhaseForm'
  BY <1>1, <1>2, <1>3, <1>4 DEF PhaseForm, Empty
<1>8. ASSUME NEW f \in Files
      PROVE  (CopiedForm(f) /\ MatchedForm(f) /\ HeldForm(f) /\ KeptForm(f))'
  <2>1. KeptForm(f)
    BY <1>1
  <2>2. KeptForm(f)'
    BY <1>2, <2>1 DEF KeptForm, StillHeld, Aliased
  <2> QED BY <1>2, <2>2 DEF CopiedForm, IsCopied, MatchedForm, HeldForm
<1> QED BY <1>5, <1>6, <1>7, <1>8 DEF TransferInv

LEMMA TransferStopsKeeps ==
  ASSUME TransferInv, TransferStops
  PROVE  TransferInv'
<1>1. TransferTyped /\ OneName /\ PhaseForm
      /\ \A f \in Files : CopiedForm(f) /\ MatchedForm(f) /\ HeldForm(f) /\ KeptForm(f)
  BY DEF TransferInv
<1>2. /\ UNCHANGED <<cut, inodes, at, folder, current, userEdits, hold, matched, record, staged,
                     flushed, seen, left>>
      /\ doing # "done" /\ doing' = "done" /\ todo' = {} /\ result' = "stopped"
      /\ \/ ~flushed /\ target' = [by |-> "nobody", files |-> Empty]
         \/ target' = target
      /\ flushed => target' = target
  BY DEF TransferStops, World, Reports
<1>3. target' \in [by : {"nobody", "them", "us"}, files : [Files -> Nat]]
  <2>1. Empty \in [Files -> Nat]
    BY DEF Empty, NoItem
  <2>2. [by |-> "nobody", files |-> Empty] \in [by : {"nobody", "them", "us"}, files : [Files -> Nat]]
    BY <2>1
  <2>3. target \in [by : {"nobody", "them", "us"}, files : [Files -> Nat]]
    BY <1>1 DEF TransferTyped
  <2> QED BY <1>2, <2>2, <2>3
<1>4. TransferTyped'
  BY <1>1, <1>2, <1>3 DEF TransferTyped, Given, Inodes, Keys, Names, Now
<1>5. OneName'
  BY <1>1, <1>2 DEF OneName, Has
<1>6. doing = "clean" => flushed /\ target.by = "us"
  BY <1>1 DEF PhaseForm
<1>7. PhaseForm'
  BY <1>1, <1>2 DEF PhaseForm, TransferTyped
<1>8. ASSUME NEW f \in Files
      PROVE  (CopiedForm(f) /\ MatchedForm(f) /\ HeldForm(f) /\ KeptForm(f))'
  <2>1. KeptForm(f)
    BY <1>1
  <2>2. KeptForm(f)'
    BY <1>2, <2>1 DEF KeptForm, StillHeld, Aliased
  <2> QED BY <1>2, <2>2 DEF CopiedForm, IsCopied, MatchedForm, HeldForm
<1> QED BY <1>4, <1>5, <1>7, <1>8 DEF TransferInv
-----------------------------------------------------------------------------
LEMMA TransferStep == TimesRestored = FALSE /\ TransferInv /\ [TransferNext]_transferVars
                        => TransferInv'
<1> SUFFICES ASSUME TimesRestored = FALSE, TransferInv, [TransferNext]_transferVars
             PROVE  TransferInv'
  OBVIOUS
<1>1. CASE UNCHANGED transferVars
  BY ZenonT(60), <1>1 DEF transferVars, TransferInv, TransferTyped, OneName, PhaseForm, CopiedForm, MatchedForm,
     HeldForm, KeptForm, StillHeld, IsCopied, IsRecorded, Aliased, Copy, Has, Given, Inodes, Keys,
     Names, Now
<1>2. CASE \E f \in Files :
             \/ Unlinks(f) \/ TakesRecord(f) \/ Copies(f) \/ Checks(f) \/ Holds(f) \/ RemovesHeld(f)
             \/ \E c \in Contents : Saves(f, c)
  BY <1>2, UnlinksKeeps, TakesRecordKeeps, CopiesKeeps, ChecksKeeps, HoldsKeeps, RemovesHeldKeeps,
     SavesKeeps
<1>3. CASE \E i \in DOMAIN inodes, c \in Contents : WritesTo(i, c)
  BY <1>3, WritesToKeeps
<1>4. CASE \/ TakesTarget \/ Fails \/ TakesName \/ Synchronises \/ RemovesFolder \/ TransferStops
  BY <1>4, TakesTargetKeeps, FailsKeeps, TakesNameKeeps, SynchronisesKeeps, RemovesFolderKeeps,
     TransferStopsKeeps
<1> QED BY <1>1, <1>2, <1>3, <1>4 DEF TransferNext

\* A move to another volume loses nothing, whatever is edited, saved, deleted
\* or created meanwhile and wherever it stops, and leaves nothing behind when
\* it reports success; provided no edit puts the time of modification back
\* between the check of a file and its holding.
THEOREM MoveLosesNothingHolds ==
  ASSUME TimesRestored = FALSE
  PROVE  TransferSpec => []MoveLosesNothing
<1>1. TransferInv => MoveLosesNothing
  <2> SUFFICES ASSUME TransferInv PROVE MoveLosesNothing
    OBVIOUS
  <2>1. \A f \in Files : KeptForm(f)
    BY DEF TransferInv
  <2>2. \A f \in Files : StillHeld(f)
    BY <2>1 DEF KeptForm, StillHeld
  <2> QED BY <2>2 DEF MoveLosesNothing, TransferInv, PhaseForm
<1>2. TransferInv /\ [TransferNext]_transferVars => TransferInv'
  BY TransferStep
<1> QED BY <1>1, <1>2, TransferInitInv, PTL DEF TransferSpec
-----------------------------------------------------------------------------
(***************************************************************************)
(* LiveResults: a search, a look at the log and a change of the index are   *)
(* told apart by numbers, of searches and of the log.  AwaitedForm: the     *)
(* search that is awaited is on its way.  Pursued: an answer that the index *)
(* has left behind will be followed by another.  IdleForm: between searches *)
(* the log that was looked at is the one whose answer is shown.             *)
(***************************************************************************)

Positive == Nat \ {0}
Jobs == [id : Nat, query : Queries, base : Positive]
Stamps == Positive \cup {Never}
Changed == [type : {"changed"}]
Answer == [type : {"done"}, id : Nat, query : Queries, version : Stamps]
Shown == [query : Queries \cup {""}, version : Stamps]
Screens == [query : Queries, seq : Nat, searching : BOOLEAN, base : Positive, shownBase : Stamps,
            seen : Stamps, shown : Shown]
Workers == [search : Jobs \cup {NoSearch}, statted : Stamps, logStamp : Stamps, version : Stamps,
            base : Stamps]

LiveTyped ==
  /\ content \in Positive /\ logStamp \in Positive /\ published \in Positive /\ boundTo \in Positive
  /\ notice \in BOOLEAN
  /\ inbox \in Seq(Changed \cup Answer) /\ screen \in Screens /\ latest \in Nat
  /\ searches \in Seq(Jobs) /\ worker \in Workers /\ typed \in Nat

\* An answer the index may have left behind is not the last one.
Pursued(version) == version = content \/ LogMoved(screen) \/ boundTo # published

\* A search is an older one, or the one that is asked now.
SearchForm(j) == j.id <= screen.seq /\ (j.id = screen.seq => j = SearchJob(screen))

AnswerForm(e) ==
  e.type = "done" =>
    e.id <= screen.seq /\ (e.id = screen.seq => e.query = screen.query /\ Pursued(e.version))

\* What the interface has looked at; before its first look the index is the first.
SeenForm ==
  /\ latest = screen.seq /\ screen.seen <= logStamp
  /\ screen.seen = Never => screen.searching /\ logStamp = 1 /\ content = 1 /\ boundTo = published
  /\ screen.base # published => boundTo # published \/ LogMoved(screen)

SearchesForm ==
  /\ \A n \in DOMAIN searches : SearchForm(searches[n])
  /\ SearchForm(worker.search)
  /\ \A n \in DOMAIN inbox : AnswerForm(inbox[n])

\* The log the worker has loaded, and the look at it of a search under way.
LoadedForm ==
  /\ worker.statted <= logStamp /\ worker.logStamp <= logStamp
  /\ worker.search.id = screen.seq /\ worker.statted # Never => screen.seen <= worker.statted
  /\ worker.logStamp = logStamp => worker.version = content

AnswerComes == \E n \in DOMAIN inbox : inbox[n].type = "done" /\ inbox[n].id = screen.seq
ChangeComes == \E n \in DOMAIN inbox : inbox[n].type = "changed"

\* A search that is awaited is queued, under way or answered.
AwaitedForm ==
  screen.searching =>
    \/ searches # <<>> /\ Last(searches) = SearchJob(screen)
    \/ worker.search = SearchJob(screen)
    \/ AnswerComes

\* When none is awaited, a change of the log is reported; and if there was
\* none since it was looked at, what is shown is current.
IdleForm ==
  ~screen.searching =>
    /\ screen.seen # logStamp => notice \/ ChangeComes
    /\ screen.seen = logStamp /\ boundTo = published =>
         screen.shown = [query |-> screen.query, version |-> content]

LiveInv == LiveTyped /\ SeenForm /\ SearchesForm /\ LoadedForm /\ AwaitedForm /\ IdleForm
-----------------------------------------------------------------------------
LEMMA LiveInitInv == LiveInit => LiveInv
<1> SUFFICES ASSUME LiveInit PROVE LiveInv
  OBVIOUS
<1>1. PICK q \in Queries :
       /\ screen = [query |-> q, seq |-> 1, searching |-> TRUE, base |-> 1, shownBase |-> Never,
                    seen |-> Never, shown |-> NothingShown]
       /\ searches = <<Search(1, q, 1)>>
  BY DEF LiveInit
<1>2. /\ content = 1 /\ logStamp = 1 /\ published = 1 /\ boundTo = 1 /\ notice = FALSE /\ inbox = <<>>
      /\ latest = 1 /\ typed = 0
      /\ worker = [search |-> NoSearch, statted |-> Never, logStamp |-> Never, version |-> Never,
                   base |-> Never]
  BY DEF LiveInit
<1>3. /\ screen \in Screens /\ screen.seq = 1 /\ screen.query = q /\ screen.base = 1 /\ screen.searching
      /\ screen.seen = Never
  <2>1. NothingShown \in Shown /\ Never \in Stamps /\ 1 \in Positive
    BY DEF NothingShown, Shown, Stamps, Positive
  <2> HIDE DEF NothingShown, Never, Stamps, Positive, Shown
  <2> QED BY <1>1, <2>1 DEF Screens
<1>4. SearchJob(screen) = Search(1, q, 1) /\ Search(1, q, 1) \in Jobs
  BY <1>3 DEF SearchJob, Search, Jobs, Positive
<1>5. searches \in Seq(Jobs) /\ searches # <<>> /\ Last(searches) = SearchJob(screen)
      /\ DOMAIN searches = {1} /\ searches[1] = Search(1, q, 1)
  BY <1>1, <1>4 DEF Last
<1>6. worker \in Workers /\ worker.search = NoSearch /\ worker.statted = Never /\ worker.logStamp = Never
  <2>1. Never \in Stamps
    BY DEF Stamps, Positive
  <2> HIDE DEF Never, Stamps, Positive, NoSearch
  <2> QED BY <1>2, <2>1 DEF Workers
<1>7. NoSearch.id = Never
  BY DEF NoSearch, Search
<1>8. inbox \in Seq(Changed \cup Answer) /\ DOMAIN inbox = {}
  BY <1>2
<1>9. LiveTyped
  <2>1. 1 \in Positive /\ 1 \in Nat /\ 0 \in Nat
    BY DEF Positive
  <2> HIDE DEF Positive, Screens, Workers, Jobs, Changed, Answer
  <2> QED BY <1>2, <1>3, <1>5, <1>6, <1>8, <2>1 DEF LiveTyped
<1>10. SeenForm /\ LoadedForm
  BY <1>2, <1>3, <1>6, <1>7 DEF SeenForm, LoadedForm, Never
<1>11. SearchesForm
  <2>1. SearchForm(searches[1])
    BY <1>3, <1>4, <1>5 DEF SearchForm, Search
  <2>2. SearchForm(NoSearch)
    BY <1>3, <1>7 DEF SearchForm, Never
  <2> QED BY <1>5, <1>6, <1>8, <2>1, <2>2 DEF SearchesForm
<1>12. AwaitedForm /\ IdleForm
  BY <1>3, <1>5 DEF AwaitedForm, IdleForm
<1> QED BY <1>9, <1>10, <1>11, <1>12 DEF LiveInv
-----------------------------------------------------------------------------
(* The index, changed by another process. *)

LEMMA ChangesIndexKeeps ==
  ASSUME StartupChanges = FALSE, LiveInv, ChangesIndex
  PROVE  LiveInv'
<1>1. LiveTyped /\ SeenForm /\ SearchesForm /\ LoadedForm /\ AwaitedForm /\ IdleForm
  BY DEF LiveInv
<1>2. /\ UNCHANGED <<published, boundTo, inbox, screen, latest, searches, worker, typed>>
      /\ content' = content + 1 /\ logStamp' = logStamp + 1 /\ notice' = TRUE
      /\ screen.seen # Never
  BY DEF ChangesIndex, MayChange, Elsewhere
<1>3. /\ screen.seen \in Nat /\ screen.seen < logStamp' /\ logStamp \in Nat
      /\ worker.statted \in Stamps /\ worker.logStamp \in Stamps
      /\ worker.statted < logStamp' /\ worker.logStamp < logStamp'
  BY <1>1, <1>2 DEF LiveTyped, Screens, Workers, Stamps, Positive, SeenForm, LoadedForm, Never
<1>4. LogMoved(screen)'
  BY <1>2, <1>3 DEF LogMoved, Never
<1>5. LiveTyped'
  BY <1>1, <1>2 DEF LiveTyped, Positive
<1>6. SeenForm'
  BY <1>1, <1>2, <1>3, <1>4 DEF SeenForm
<1>7. SearchesForm'
  <2>1. \A e : AnswerForm(e) => AnswerForm(e)'
    BY <1>2, <1>4 DEF AnswerForm, Pursued
  <2>2. \A j : SearchForm(j)' <=> SearchForm(j)
    BY <1>2 DEF SearchForm
  <2> QED BY <1>1, <1>2, <2>1, <2>2 DEF SearchesForm
<1>8. LoadedForm'
  BY <1>1, <1>2, <1>3 DEF LoadedForm, Stamps, Positive, Never
<1>9. AwaitedForm'
  BY <1>1, <1>2 DEF AwaitedForm, AnswerComes
<1>10. IdleForm'
  BY <1>2, <1>3 DEF IdleForm
<1> QED BY <1>5, <1>6, <1>7, <1>8, <1>9, <1>10 DEF LiveInv

LEMMA PublishesCompactionKeeps ==
  ASSUME StartupChanges = FALSE, LiveInv, PublishesCompaction
  PROVE  LiveInv'
<1>1. LiveTyped /\ SeenForm /\ SearchesForm /\ LoadedForm /\ AwaitedForm /\ IdleForm
  BY DEF LiveInv
<1>2. /\ UNCHANGED <<content, logStamp, boundTo, inbox, screen, latest, searches, worker, typed>>
      /\ published' = published + 1 /\ notice' = TRUE /\ boundTo = published
      /\ screen.seen # Never
  BY DEF PublishesCompaction, MayChange, Elsewhere
<1>3. boundTo' # published'
  BY <1>1, <1>2 DEF LiveTyped
<1>4. LiveTyped'
  BY <1>1, <1>2 DEF LiveTyped, Positive
<1>5. SeenForm'
  BY <1>1, <1>2, <1>3 DEF SeenForm
<1>6. SearchesForm'
  <2>1. \A e : AnswerForm(e) => AnswerForm(e)'
    BY <1>2, <1>3 DEF AnswerForm, Pursued
  <2>2. \A j : SearchForm(j)' <=> SearchForm(j)
    BY <1>2 DEF SearchForm
  <2> QED BY <1>1, <1>2, <2>1, <2>2 DEF SearchesForm
<1>7. LoadedForm'
  BY <1>1, <1>2 DEF LoadedForm
<1>8. AwaitedForm'
  BY <1>1, <1>2 DEF AwaitedForm, AnswerComes
<1>9. IdleForm'
  BY <1>2, <1>3 DEF IdleForm
<1> QED BY <1>4, <1>5, <1>6, <1>7, <1>8, <1>9 DEF LiveInv

LEMMA ResetsLogKeeps ==
  ASSUME LiveInv, ResetsLog
  PROVE  LiveInv'
<1>1. LiveTyped /\ SeenForm /\ SearchesForm /\ LoadedForm /\ AwaitedForm /\ IdleForm
  BY DEF LiveInv
<1>2. /\ UNCHANGED <<content, published, inbox, screen, latest, searches, worker, typed>>
      /\ logStamp' = logStamp + 1 /\ notice' = TRUE /\ boundTo # published /\ boundTo' = published
  BY DEF ResetsLog, Elsewhere
<1>3. screen.seen # Never
  BY <1>1, <1>2 DEF SeenForm
<1>4. /\ screen.seen \in Nat /\ screen.seen < logStamp' /\ logStamp \in Nat
      /\ worker.statted \in Stamps /\ worker.logStamp \in Stamps
      /\ worker.statted < logStamp' /\ worker.logStamp < logStamp'
  BY <1>1, <1>2, <1>3 DEF LiveTyped, Screens, Workers, Stamps, Positive, SeenForm, LoadedForm, Never
<1>5. LogMoved(screen)'
  BY <1>2, <1>4 DEF LogMoved, Never
<1>6. LiveTyped'
  BY <1>1, <1>2 DEF LiveTyped, Positive
<1>7. SeenForm'
  BY <1>1, <1>2, <1>4, <1>5 DEF SeenForm, Never
<1>8. SearchesForm'
  <2>1. \A e : AnswerForm(e) => AnswerForm(e)'
    BY <1>2, <1>5 DEF AnswerForm, Pursued
  <2>2. \A j : SearchForm(j)' <=> SearchForm(j)
    BY <1>2 DEF SearchForm
  <2> QED BY <1>1, <1>2, <2>1, <2>2 DEF SearchesForm
<1>9. LoadedForm'
  BY <1>1, <1>2, <1>4 DEF LoadedForm, Stamps, Positive, Never
<1>10. AwaitedForm'
  BY <1>1, <1>2 DEF AwaitedForm, AnswerComes
<1>11. IdleForm'
  BY <1>2, <1>4 DEF IdleForm
<1> QED BY <1>6, <1>7, <1>8, <1>9, <1>10, <1>11 DEF LiveInv

\* What a sequence is after an element was appended.
LEMMA Appended ==
  ASSUME NEW S, NEW s \in Seq(S), NEW e \in S
  PROVE  /\ Append(s, e) \in Seq(S) /\ Append(s, e) # <<>> /\ Last(Append(s, e)) = e
         /\ \A n \in DOMAIN s : n \in DOMAIN Append(s, e) /\ Append(s, e)[n] = s[n]
         /\ \A n \in DOMAIN Append(s, e) : n \in DOMAIN s \/ Append(s, e)[n] = e
         /\ Len(s) + 1 \in DOMAIN Append(s, e) /\ Append(s, e)[Len(s) + 1] = e
BY DEF Last

LEMMA NotifiesKeeps ==
  ASSUME LiveInv, Notifies
  PROVE  LiveInv'
<1>1. LiveTyped /\ SeenForm /\ SearchesForm /\ LoadedForm /\ AwaitedForm /\ IdleForm
  BY DEF LiveInv
<1> DEFINE e == [type |-> "changed"]
<1>2. /\ UNCHANGED <<content, logStamp, published, boundTo, screen, latest, searches, worker, typed>>
      /\ notice' = FALSE /\ inbox' = Append(inbox, e)
  BY DEF Notifies
<1>3. e \in Changed \cup Answer /\ e.type = "changed" /\ e.type # "done"
  BY DEF Changed
<1> HIDE DEF e
<1>4. inbox \in Seq(Changed \cup Answer)
  BY <1>1 DEF LiveTyped
<1>5. /\ inbox' \in Seq(Changed \cup Answer)
      /\ \A n \in DOMAIN inbox : n \in DOMAIN inbox' /\ inbox'[n] = inbox[n]
      /\ \A n \in DOMAIN inbox' : n \in DOMAIN inbox \/ inbox'[n] = e
      /\ Len(inbox) + 1 \in DOMAIN inbox' /\ inbox'[Len(inbox) + 1] = e
  BY <1>2, <1>3, <1>4, Appended
<1>6. LiveTyped'
  BY <1>1, <1>2, <1>5 DEF LiveTyped
<1>7. SeenForm'
  BY <1>1, <1>2 DEF SeenForm, LogMoved
<1>8. SearchesForm'
  <2>1. \A x : AnswerForm(x)' <=> AnswerForm(x)
    BY <1>2 DEF AnswerForm, Pursued, LogMoved
  <2>2. \A j : SearchForm(j)' <=> SearchForm(j)
    BY <1>2 DEF SearchForm
  <2>3. AnswerForm(e)
    BY <1>3 DEF AnswerForm
  <2>4. \A n \in DOMAIN inbox' : AnswerForm(inbox'[n])
    BY <1>1, <1>5, <2>3 DEF SearchesForm
  <2> QED BY <1>1, <1>2, <2>1, <2>2, <2>4 DEF SearchesForm
<1>9. LoadedForm'
  BY <1>1, <1>2 DEF LoadedForm
<1>10. AwaitedForm'
  <2>1. AnswerComes => AnswerComes'
    BY <1>2, <1>5 DEF AnswerComes
  <2> QED BY <1>1, <1>2, <2>1 DEF AwaitedForm
<1>11. IdleForm'
  <2>1. ChangeComes'
    BY <1>3, <1>5 DEF ChangeComes
  <2> QED BY <1>1, <1>2, <2>1 DEF IdleForm
<1> QED BY <1>6, <1>7, <1>8, <1>9, <1>10, <1>11 DEF LiveInv
-----------------------------------------------------------------------------
(* The worker. *)

LEMMA TakesSearchKeeps ==
  ASSUME LiveInv, TakesSearch
  PROVE  LiveInv'
<1>1. LiveTyped /\ SeenForm /\ SearchesForm /\ LoadedForm /\ AwaitedForm /\ IdleForm
  BY DEF LiveInv
<1>2. /\ UNCHANGED <<content, logStamp, published, boundTo, notice, inbox, screen, latest, typed>>
      /\ worker.search = NoSearch /\ searches # <<>> /\ searches' = <<>>
      /\ worker' = [worker EXCEPT !.search = Last(searches), !.statted = Never]
  BY DEF TakesSearch, Index
<1>3. Last(searches) \in Jobs /\ SearchForm(Last(searches))
  BY <1>1, <1>2 DEF LiveTyped, Last, SearchesForm
<1>4. worker \in Workers
  BY <1>1 DEF LiveTyped
<1>5. /\ worker' \in Workers /\ worker'.search = Last(searches) /\ worker'.statted = Never
      /\ worker'.logStamp = worker.logStamp /\ worker'.version = worker.version
  <2>1. Never \in Stamps
    BY DEF Stamps, Positive
  <2> HIDE DEF Jobs, Stamps, Positive, Never, Last
  <2> QED BY <1>2, <1>3, <1>4, <2>1 DEF Workers
<1>6. LiveTyped'
  BY <1>1, <1>2, <1>5 DEF LiveTyped
<1>7. SeenForm'
  BY <1>1, <1>2 DEF SeenForm, LogMoved
<1>8. SearchesForm'
  <2>1. \A x : AnswerForm(x)' <=> AnswerForm(x)
    BY <1>2 DEF AnswerForm, Pursued, LogMoved
  <2>2. \A j : SearchForm(j)' <=> SearchForm(j)
    BY <1>2 DEF SearchForm
  <2> QED BY <1>1, <1>2, <1>3, <1>5, <2>1, <2>2 DEF SearchesForm
<1>9. LoadedForm'
  BY <1>1, <1>2, <1>5 DEF LoadedForm, LiveTyped, Never, Positive
<1>10. AwaitedForm'
  <2>1. AnswerComes' <=> AnswerComes
    BY <1>2 DEF AnswerComes
  <2>2. SearchJob(screen) # NoSearch
    <3>1. SearchJob(screen).id = screen.seq /\ NoSearch.id = Never
      BY DEF SearchJob, NoSearch, Search
    <3>2. screen.seq \in Nat
      BY <1>1 DEF LiveTyped, Screens
    <3> QED BY <3>1, <3>2 DEF Never
  <2>3. SearchJob(screen)' = SearchJob(screen)
    BY <1>2 DEF SearchJob
  <2> QED BY <1>1, <1>2, <1>5, <2>1, <2>2, <2>3 DEF AwaitedForm
<1>11. IdleForm'
  BY <1>1, <1>2 DEF IdleForm, ChangeComes
<1> QED BY <1>6, <1>7, <1>8, <1>9, <1>10, <1>11 DEF LiveInv

LEMMA StatsKeeps ==
  ASSUME LiveInv, Stats
  PROVE  LiveInv'
<1>1. LiveTyped /\ SeenForm /\ SearchesForm /\ LoadedForm /\ AwaitedForm /\ IdleForm
  BY DEF LiveInv
<1>2. /\ UNCHANGED <<content, logStamp, published, boundTo, notice, inbox, screen, latest, searches,
                     typed>>
      /\ worker.search # NoSearch
      /\ worker' = [worker EXCEPT !.statted = logStamp, !.base = worker.search.base,
                      !.logStamp = IF worker.base = worker.search.base THEN worker.logStamp ELSE Never]
  BY DEF Stats, Index
<1>3. worker \in Workers /\ worker.search \in Jobs /\ logStamp \in Positive
  BY <1>1, <1>2 DEF LiveTyped, Workers
<1>4. worker.search.base \in Positive
  BY <1>3 DEF Jobs
<1>5. /\ worker' \in Workers /\ worker'.search = worker.search /\ worker'.statted = logStamp
      /\ worker'.logStamp \in {worker.logStamp, Never} /\ worker'.version = worker.version
  <2>1. Never \in Stamps /\ Positive \subseteq Stamps
    BY DEF Stamps, Positive
  <2> DEFINE l == IF worker.base = worker.search.base THEN worker.logStamp ELSE Never
  <2>2. l \in {worker.logStamp, Never} /\ l \in Stamps
    BY <1>3, <2>1 DEF Workers
  <2>3. worker' = [worker EXCEPT !.statted = logStamp, !.base = worker.search.base, !.logStamp = l]
    BY <1>2
  <2> HIDE DEF Jobs, Stamps, Positive, Never, l
  <2> QED BY <1>3, <1>4, <2>1, <2>2, <2>3 DEF Workers
<1>6. LiveTyped'
  BY <1>1, <1>2, <1>5 DEF LiveTyped
<1>7. SeenForm'
  BY <1>1, <1>2 DEF SeenForm, LogMoved
<1>8. SearchesForm'
  <2>1. \A x : AnswerForm(x)' <=> AnswerForm(x)
    BY <1>2 DEF AnswerForm, Pursued, LogMoved
  <2>2. \A j : SearchForm(j)' <=> SearchForm(j)
    BY <1>2 DEF SearchForm
  <2> QED BY <1>1, <1>2, <1>5, <2>1, <2>2 DEF SearchesForm
<1>9. LoadedForm'
  <2>1. Never <= logStamp /\ Never # logStamp /\ logStamp <= logStamp
    BY <1>3 DEF Never, Positive
  <2>2. screen.seen <= logStamp
    BY <1>1 DEF SeenForm
  <2> QED BY <1>1, <1>2, <1>5, <2>1, <2>2 DEF LoadedForm
<1>10. AwaitedForm'
  BY <1>1, <1>2, <1>5 DEF AwaitedForm, AnswerComes
<1>11. IdleForm'
  BY <1>1, <1>2 DEF IdleForm, ChangeComes
<1> QED BY <1>6, <1>7, <1>8, <1>9, <1>10, <1>11 DEF LiveInv

\* An answer that is not taken for the last one, or is the current one, may come.
LEMMA AnswersKeep ==
  ASSUME LiveInv, NEW v \in Stamps, worker.search # NoSearch, Answers(v), worker' \in Workers,
         worker'.search = NoSearch, worker'.statted = Never, worker'.logStamp <= logStamp,
         worker'.logStamp = logStamp => worker'.version = content,
         worker.search.id = screen.seq => Pursued(v)
  PROVE  LiveInv'
<1>1. LiveTyped /\ SeenForm /\ SearchesForm /\ LoadedForm /\ AwaitedForm /\ IdleForm
  BY DEF LiveInv
<1> DEFINE e == [type |-> "done", id |-> worker.search.id, query |-> worker.search.query, version |-> v]
<1>2. /\ UNCHANGED <<content, logStamp, published, boundTo, notice, screen, latest, searches, typed>>
      /\ inbox' = Append(inbox, e)
  BY DEF Answers, Index
<1>3. worker.search \in Jobs
  BY <1>1 DEF LiveTyped, Workers
<1>4. /\ e \in Changed \cup Answer /\ e.type = "done" /\ e.id = worker.search.id
      /\ e.query = worker.search.query /\ e.version = v
  BY <1>3 DEF Jobs, Answer
<1> HIDE DEF e
<1>5. inbox \in Seq(Changed \cup Answer)
  BY <1>1 DEF LiveTyped
<1>6. /\ inbox' \in Seq(Changed \cup Answer)
      /\ \A n \in DOMAIN inbox : n \in DOMAIN inbox' /\ inbox'[n] = inbox[n]
      /\ \A n \in DOMAIN inbox' : n \in DOMAIN inbox \/ inbox'[n] = e
      /\ Len(inbox) + 1 \in DOMAIN inbox' /\ inbox'[Len(inbox) + 1] = e
  BY <1>2, <1>4, <1>5, Appended
<1>7. LiveTyped'
  BY <1>1, <1>2, <1>6 DEF LiveTyped
<1>8. SeenForm'
  BY <1>1, <1>2 DEF SeenForm, LogMoved
<1>9. NoSearch.id = Never /\ screen.seq \in Nat
  BY <1>1 DEF NoSearch, Search, LiveTyped, Screens
<1>10. SearchesForm'
  <2>1. \A x : AnswerForm(x)' <=> AnswerForm(x)
    BY <1>2 DEF AnswerForm, Pursued, LogMoved
  <2>2. \A j : SearchForm(j)' <=> SearchForm(j)
    BY <1>2 DEF SearchForm
  <2>3. AnswerForm(e)
    <3>1. SearchForm(worker.search)
      BY <1>1 DEF SearchesForm
    <3>2. SearchJob(screen).query = screen.query
      BY DEF SearchJob, Search
    <3> QED BY <1>4, <3>1, <3>2 DEF AnswerForm, SearchForm
  <2>4. \A n \in DOMAIN inbox' : AnswerForm(inbox'[n])
    BY <1>1, <1>6, <2>3 DEF SearchesForm
  <2>5. SearchForm(NoSearch)
    BY <1>9 DEF SearchForm, Never
  <2> QED BY <1>1, <1>2, <2>1, <2>2, <2>4, <2>5 DEF SearchesForm
<1>11. LoadedForm'
  BY <1>1, <1>2, <1>9 DEF LoadedForm, LiveTyped, Never, Positive
<1>12. AwaitedForm'
  <2>1. AnswerComes => AnswerComes'
    BY <1>2, <1>6 DEF AnswerComes
  <2>2. worker.search = SearchJob(screen) => AnswerComes'
    <3>1. SearchJob(screen).id = screen.seq
      BY DEF SearchJob, Search
    <3> QED BY <1>2, <1>4, <1>6, <3>1 DEF AnswerComes
  <2> QED BY <1>1, <1>2, <2>1, <2>2 DEF AwaitedForm
<1>13. IdleForm'
  <2>1. ChangeComes => ChangeComes'
    BY <1>2, <1>6 DEF ChangeComes
  <2> QED BY <1>1, <1>2, <2>1 DEF IdleForm
<1> QED BY <1>7, <1>8, <1>10, <1>11, <1>12, <1>13 DEF LiveInv

\* A refusal of the newest search is for a base or a log that is being replaced.
LEMMA RefusesKeeps ==
  ASSUME LiveInv, Refuses
  PROVE  LiveInv'
<1>1. LiveTyped /\ SeenForm /\ SearchesForm /\ LoadedForm /\ AwaitedForm /\ IdleForm
  BY DEF LiveInv
<1>2. worker.search # NoSearch /\ Answers(Never)
      /\ worker' = Gives([worker EXCEPT !.logStamp = Never])
  BY DEF Refuses
<1>3. worker \in Workers /\ Never \in Stamps /\ logStamp \in Nat
  BY <1>1 DEF LiveTyped, Stamps, Positive
<1>4. /\ worker' \in Workers /\ worker'.search = NoSearch /\ worker'.statted = Never
      /\ worker'.logStamp = Never
  <2>1. worker' = [worker EXCEPT !.search = NoSearch, !.statted = Never, !.logStamp = Never]
    BY <1>2, <1>3 DEF Gives, Workers
  <2> HIDE DEF NoSearch, Never, Jobs, Stamps, Positive
  <2> QED BY <1>3, <2>1 DEF Workers
<1>5. worker'.logStamp <= logStamp /\ worker'.logStamp # logStamp
  BY <1>3, <1>4 DEF Never
<1>6. worker.search.id = screen.seq => Pursued(Never)
  <2> SUFFICES ASSUME worker.search.id = screen.seq PROVE Pursued(Never)
    OBVIOUS
  <2>1. worker.search = SearchJob(screen)
    BY <1>1 DEF SearchesForm, SearchForm
  <2>2. worker.search.base = screen.base
    BY <2>1 DEF SearchJob, Search
  <2>3. screen.base # published \/ boundTo # screen.base
    BY <1>1, <2>2 DEF Refuses, SeenForm
  <2> QED BY <1>1, <2>3 DEF SeenForm, Pursued
<1> QED BY <1>2, <1>3, <1>4, <1>5, <1>6, AnswersKeep

LEMMA FindsKeeps ==
  ASSUME LiveInv, Finds
  PROVE  LiveInv'
<1>1. LiveTyped /\ SeenForm /\ SearchesForm /\ LoadedForm /\ AwaitedForm /\ IdleForm
  BY DEF LiveInv
<1> DEFINE v == IF worker.statted = worker.logStamp THEN worker.version ELSE content
<1>2. /\ worker.search # NoSearch /\ worker.statted # Never /\ Answers(v)
      /\ worker' = Gives([worker EXCEPT !.logStamp = worker.statted, !.version = v])
  BY DEF Finds
<1>3. worker \in Workers /\ Never \in Stamps /\ logStamp \in Positive /\ content \in Positive /\ v \in Stamps
      /\ worker.statted \in Positive
  BY <1>1, <1>2 DEF LiveTyped, Stamps, Positive, Workers
<1>4. worker.statted = logStamp => v = content
  BY <1>1 DEF LoadedForm
<1> HIDE DEF v
<1>5. /\ worker' \in Workers /\ worker'.search = NoSearch /\ worker'.statted = Never
      /\ worker'.logStamp = worker.statted /\ worker'.version = v
  <2>1. worker' = [worker EXCEPT !.search = NoSearch, !.statted = Never, !.logStamp = worker.statted,
                                 !.version = v]
    BY <1>2, <1>3 DEF Gives, Workers
  <2> HIDE DEF NoSearch, Never, Jobs, Stamps, Positive
  <2> QED BY <1>3, <2>1 DEF Workers
<1>6. worker.search.id = screen.seq => Pursued(v)
  <2> SUFFICES ASSUME worker.search.id = screen.seq, worker.statted # logStamp PROVE Pursued(v)
    BY <1>4 DEF Pursued
  <2>1. screen.seen <= worker.statted /\ worker.statted < logStamp
    BY <1>1, <1>2, <1>3 DEF LoadedForm, Positive
  <2>2. CASE screen.seen = Never
    BY <1>1, <1>2, <1>3, <2>1, <2>2 DEF SeenForm, Positive
  <2>3. CASE screen.seen # Never
    <3>1. screen.seen \in Nat
      BY <1>1, <2>3 DEF LiveTyped, Screens, Stamps, Positive
    <3> QED BY <1>3, <2>1, <2>3, <3>1 DEF Pursued, LogMoved, Positive
  <2> QED BY <2>2, <2>3
<1> QED BY <1>1, <1>2, <1>3, <1>4, <1>5, <1>6, AnswersKeep DEF LoadedForm
-----------------------------------------------------------------------------
(* The interface. *)

\* Asking again makes every answer that is still to come an old one.
LEMMA AskingKeeps ==
  ASSUME LiveInv, screen' \in Screens, screen'.seq = screen.seq + 1, screen'.searching,
         screen'.base = published, screen'.seen \in {screen.seen, logStamp},
         latest' = screen'.seq, searches' = Append(searches, SearchJob(screen)'),
         UNCHANGED <<Index, worker>>, inbox' \in {inbox, <<>>}, typed' \in Nat
  PROVE  LiveInv'
<1>1. LiveTyped /\ SeenForm /\ SearchesForm /\ LoadedForm /\ AwaitedForm /\ IdleForm
  BY DEF LiveInv
<1>2. UNCHANGED <<content, logStamp, published, boundTo, notice, worker>>
  BY DEF Index
<1>3. screen.seq \in Nat /\ screen'.seq > screen.seq /\ logStamp \in Positive
  BY <1>1 DEF LiveTyped, Screens
<1>4. /\ SearchJob(screen)' \in Jobs /\ (SearchJob(screen)').id = screen'.seq
      /\ searches \in Seq(Jobs)
  BY <1>1 DEF SearchJob, Search, Jobs, Screens, LiveTyped
<1>5. /\ searches' \in Seq(Jobs) /\ searches' # <<>> /\ Last(searches)' = SearchJob(screen)'
      /\ \A n \in DOMAIN searches' : \/ n \in DOMAIN searches /\ searches'[n] = searches[n]
                                     \/ searches'[n] = SearchJob(screen)'
  <2> DEFINE j == SearchJob(screen)'
  <2>1. j \in Jobs /\ searches' = Append(searches, j)
    BY <1>4
  <2> HIDE DEF j
  <2>2. /\ searches' \in Seq(Jobs) /\ searches' # <<>> /\ Last(searches') = j
        /\ \A n \in DOMAIN searches' : \/ n \in DOMAIN searches /\ searches'[n] = searches[n]
                                       \/ searches'[n] = j
    BY <1>4, <2>1, Appended
  <2> QED BY <2>2 DEF j, Last
<1>6. /\ inbox' \in Seq(Changed \cup Answer)
      /\ \A n \in DOMAIN inbox' : n \in DOMAIN inbox /\ inbox'[n] = inbox[n]
  <2>1. inbox \in Seq(Changed \cup Answer)
    BY <1>1 DEF LiveTyped
  <2>2. CASE inbox' = inbox
    BY <2>1, <2>2
  <2>3. CASE inbox' = <<>>
    BY <2>3
  <2> QED BY <2>2, <2>3
<1>7. LiveTyped'
  BY <1>1, <1>2, <1>3, <1>5, <1>6 DEF LiveTyped, Screens
<1>8. SeenForm'
  BY <1>1, <1>2, <1>3 DEF SeenForm, Positive, Never
<1>9. \A j : SearchForm(j) /\ j.id \in Nat \cup {Never} =>
               SearchForm(j)' /\ j.id # screen'.seq
  BY <1>3 DEF SearchForm, Never
<1>10. worker.search.id \in Nat \cup {Never}
  <2>1. NoSearch.id = Never
    BY DEF NoSearch, Search
  <2>2. worker.search \in Jobs \/ worker.search = NoSearch
    BY <1>1 DEF LiveTyped, Workers
  <2> QED BY <2>1, <2>2 DEF Jobs
<1>11. SearchesForm'
  <2>1. ASSUME NEW j, j \in Jobs, SearchForm(j) PROVE SearchForm(j)'
    BY <1>9, <2>1 DEF Jobs
  <2>2. \A n \in DOMAIN searches : searches[n] \in Jobs /\ SearchForm(searches[n])
    BY <1>1, <1>4 DEF SearchesForm
  <2>3. ASSUME NEW j, j = SearchJob(screen)' PROVE SearchForm(j)'
    BY <1>3, <1>4, <2>3 DEF SearchForm, Screens
  <2>4. (\A n \in DOMAIN searches : SearchForm(searches[n]))'
    BY <1>5, <2>1, <2>2, <2>3
  <2>5. SearchForm(worker.search)'
    BY <1>1, <1>2, <1>9, <1>10 DEF SearchesForm
  <2>6. ASSUME NEW n \in DOMAIN inbox, inbox[n].type = "done" PROVE inbox[n].id <= screen.seq
                                                                    /\ inbox[n].id \in Nat
    BY <1>1, <2>6 DEF LiveTyped, SearchesForm, AnswerForm, Changed, Answer
  <2>7. (\A n \in DOMAIN inbox : AnswerForm(inbox[n]))'
    BY <1>3, <1>6, <2>6 DEF AnswerForm
  <2> QED BY <2>4, <2>5, <2>7 DEF SearchesForm
<1>12. LoadedForm'
  BY <1>1, <1>2, <1>9, <1>10 DEF LoadedForm, SearchesForm
<1>13. AwaitedForm' /\ IdleForm'
  BY <1>5 DEF AwaitedForm, IdleForm
<1> QED BY <1>7, <1>8, <1>11, <1>12, <1>13 DEF LiveInv

\* What asking changes of the interface.
LEMMA AskedOf ==
  ASSUME published \in Positive, NEW s \in Screens
  PROVE  /\ Asked(s) \in Screens /\ Asked(s).seq = s.seq + 1 /\ Asked(s).searching
         /\ Asked(s).base = published /\ Asked(s).seen = s.seen
<1>1. s.seq + 1 \in Nat
  BY DEF Screens
<1>2. Asked(s) = [s EXCEPT !.seq = s.seq + 1, !.searching = TRUE, !.base = published]
  BY DEF Asked, Screens
<1> HIDE DEF Stamps, Positive, Shown
<1> QED BY <1>1, <1>2 DEF Screens

\* What looking at the log changes of it.
LEMMA SeenOf ==
  ASSUME logStamp \in Positive, NEW s \in Screens
  PROVE  /\ SeenStamp(s) \in Screens
         /\ SeenStamp(s).seen = IF LogMoved(s) /\ s.searching THEN s.seen ELSE logStamp
         /\ SeenStamp(s).query = s.query /\ SeenStamp(s).seq = s.seq /\ SeenStamp(s).base = s.base
         /\ SeenStamp(s).searching = s.searching /\ SeenStamp(s).shown = s.shown
<1>1. logStamp \in Stamps
  BY DEF Stamps
<1>2. CASE LogMoved(s) /\ s.searching
  BY <1>2 DEF SeenStamp
<1>3. CASE ~(LogMoved(s) /\ s.searching)
  <2> HIDE DEF Stamps, Positive, Shown, LogMoved
  <2> QED BY <1>1, <1>3 DEF SeenStamp, Screens
<1> QED BY <1>2, <1>3

\* What the answer to the newest search changes of it.
LEMMA AppliedOf ==
  ASSUME LiveInv, NEW s \in Applied(screen)
  PROVE  /\ s \in Screens /\ s.query = screen.query /\ s.seq = screen.seq /\ s.base = screen.base
         /\ s.seen = screen.seen
         /\ ~AnswerComes => s = screen
         /\ AnswerComes => /\ ~s.searching /\ s.shown = [query |-> screen.query, version |-> s.shown.version]
                           /\ Pursued(s.shown.version)
<1>1. LiveTyped /\ SearchesForm
  BY DEF LiveInv
<1>2. screen \in Screens /\ inbox \in Seq(Changed \cup Answer)
  BY <1>1 DEF LiveTyped
<1>3. AnswerComes <=> Answered(screen) # {}
  BY <1>2 DEF AnswerComes, Answered, ToSet
<1>4. CASE Answered(screen) = {}
  BY <1>2, <1>3, <1>4 DEF Applied
<1>5. CASE Answered(screen) # {}
  <2>1. PICK e \in Answered(screen) :
          s = [screen EXCEPT !.searching = FALSE, !.shown = [query |-> e.query, version |-> e.version]]
    BY <1>5 DEF Applied
  <2>2. e \in Answer /\ AnswerForm(e) /\ e.type = "done" /\ e.id = screen.seq
    BY <1>1, <1>2 DEF Answered, ToSet, SearchesForm, Changed
  <2>3. e.query = screen.query /\ Pursued(e.version)
    BY <2>2 DEF AnswerForm
  <2> DEFINE a == [query |-> e.query, version |-> e.version]
  <2>4. a \in Shown /\ a.query = e.query /\ a.version = e.version
    BY <2>2 DEF Answer, Shown
  <2>5. s = [screen EXCEPT !.searching = FALSE, !.shown = a]
    BY <2>1
  <2>6. a = [query |-> screen.query, version |-> a.version]
    BY <2>3
  <2> HIDE DEF a
  <2>7. /\ s \in Screens /\ s.query = screen.query /\ s.seq = screen.seq /\ s.base = screen.base
        /\ s.seen = screen.seen /\ s.searching = FALSE /\ s.shown = a
    <3> HIDE DEF Stamps, Positive, Shown
    <3> QED BY <1>2, <2>4, <2>5 DEF Screens
  <2> QED BY <1>3, <1>5, <2>3, <2>4, <2>6, <2>7
<1> QED BY <1>4, <1>5

\* A frame that asks nothing: what was answered is shown, and stays if the log
\* is as it was looked at.
LEMMA ShowingKeeps ==
  ASSUME LiveInv, NEW s \in Applied(screen), NEW polls \in BOOLEAN, ~polls => ~PollDue(screen),
         ~(polls /\ LogMoved(s) /\ ~s.searching),
         screen' = IF polls THEN SeenStamp(s) ELSE s,
         UNCHANGED <<Index, worker, typed, latest, searches>>, inbox' = <<>>
  PROVE  LiveInv'
<1>1. LiveTyped /\ SeenForm /\ SearchesForm /\ LoadedForm /\ AwaitedForm /\ IdleForm
  BY DEF LiveInv
<1>2. UNCHANGED <<content, logStamp, published, boundTo, notice, worker, typed, latest, searches>>
  BY DEF Index
<1>3. /\ s \in Screens /\ s.query = screen.query /\ s.seq = screen.seq /\ s.base = screen.base
      /\ s.seen = screen.seen
      /\ ~AnswerComes => s = screen
      /\ AnswerComes => /\ ~s.searching /\ s.shown = [query |-> screen.query, version |-> s.shown.version]
                        /\ Pursued(s.shown.version)
  BY AppliedOf
<1>4. logStamp \in Positive /\ screen \in Screens
  BY <1>1 DEF LiveTyped
<1>5. /\ screen' \in Screens /\ screen'.query = s.query /\ screen'.seq = s.seq /\ screen'.base = s.base
      /\ screen'.searching = s.searching /\ screen'.shown = s.shown
      /\ ~polls => screen'.seen = s.seen
      /\ polls => screen'.seen = IF LogMoved(s) /\ s.searching THEN s.seen ELSE logStamp
  BY <1>3, <1>4, SeenOf
<1>6. LogMoved(s) <=> LogMoved(screen)
  BY <1>3 DEF LogMoved
<1>7. screen'.seen = screen.seen \/ (screen.seen = Never /\ screen'.seen = logStamp)
  BY <1>3, <1>5, <1>6 DEF LogMoved
<1>8. AnswerComes \/ ChangeComes => polls
  BY DEF AnswerComes, ChangeComes, PollDue, ToSet
<1>9. ~s.searching /\ polls => screen'.seen = logStamp
  BY <1>5
<1>10. LiveTyped'
  BY <1>1, <1>2, <1>5 DEF LiveTyped
<1>11. SeenForm'
  <2>1. screen'.seen <= logStamp
    BY <1>1, <1>4, <1>7 DEF SeenForm, Positive
  <2>2. screen'.seen = Never => screen'.searching /\ logStamp = 1 /\ content = 1 /\ boundTo = published
    <3> SUFFICES ASSUME screen'.seen = Never PROVE screen'.searching /\ screen.seen = Never
      BY <1>1 DEF SeenForm
    <3>1. screen.seen = Never
      BY <1>4, <1>7 DEF Positive, Never
    <3>2. screen.searching
      BY <1>1, <3>1 DEF SeenForm
    <3>3. ~AnswerComes
      BY <1>3, <1>4, <1>8, <1>9 DEF Positive, Never
    <3> QED BY <1>3, <1>5, <3>1, <3>2, <3>3
  <2>3. screen'.base # published => boundTo # published \/ LogMoved(screen)'
    BY <1>1, <1>2, <1>3, <1>4, <1>5, <1>7 DEF SeenForm, LogMoved
  <2> QED BY <1>1, <1>2, <1>3, <1>5, <2>1, <2>2, <2>3 DEF SeenForm
<1>12. SearchesForm'
  <2>1. \A j : SearchForm(j)' <=> SearchForm(j)
    BY <1>3, <1>5 DEF SearchForm, SearchJob
  <2> QED BY <1>1, <1>2, <2>1 DEF SearchesForm
<1>13. LoadedForm'
  <2>1. ASSUME worker.search.id = screen.seq, worker.statted # Never
        PROVE  screen'.seen <= worker.statted
    <3>1. worker.statted \in Positive
      BY <1>1, <2>1 DEF LiveTyped, Workers, Stamps
    <3> QED BY <1>1, <1>7, <2>1, <3>1 DEF LoadedForm, SeenForm, Positive
  <2> QED BY <1>1, <1>2, <1>3, <1>5, <2>1 DEF LoadedForm
<1>14. AwaitedForm'
  <2> SUFFICES ASSUME s.searching PROVE \/ searches # <<>> /\ Last(searches) = SearchJob(screen)
                                        \/ worker.search = SearchJob(screen)
    <3>1. SearchJob(screen)' = SearchJob(screen)
      BY <1>3, <1>5 DEF SearchJob
    <3> QED BY <1>2, <1>5, <3>1 DEF AwaitedForm
  <2> QED BY <1>1, <1>3 DEF AwaitedForm
<1>15. IdleForm'
  <2> SUFFICES ASSUME ~s.searching
               PROVE  /\ screen'.seen # logStamp => notice
                      /\ screen'.seen = logStamp /\ boundTo = published =>
                           s.shown = [query |-> screen.query, version |-> content]
    BY <1>2, <1>3, <1>5 DEF IdleForm
  <2>1. CASE AnswerComes
    <3>1. screen'.seen = logStamp
      BY <1>8, <1>9, <2>1
    <3>2. ~LogMoved(screen)
      BY <1>6, <1>8, <2>1
    <3> QED BY <1>3, <2>1, <3>1, <3>2 DEF Pursued
  <2>2. CASE ~AnswerComes
    <3>1. s = screen /\ screen.seen # Never
      BY <1>1, <1>3, <2>2 DEF SeenForm
    <3>2. screen'.seen = screen.seen
      BY <1>7, <3>1
    <3>3. screen.seen # logStamp => notice
      <4>1. ChangeComes => screen'.seen = logStamp
        BY <1>8, <1>9
      <4> QED BY <1>1, <3>1, <3>2, <4>1 DEF IdleForm
    <3> QED BY <1>1, <3>1, <3>2, <3>3 DEF IdleForm
  <2> QED BY <2>1, <2>2
<1> QED BY <1>10, <1>11, <1>12, <1>13, <1>14, <1>15 DEF LiveInv

LEMMA FrameKeeps ==
  ASSUME LiveInv, Frame
  PROVE  LiveInv'
<1>1. LiveTyped
  BY DEF LiveInv
<1>2. PICK s \in Applied(screen) :
  LET replaced == s.base # s.shownBase
      anew == IF replaced THEN [Asked(s) EXCEPT !.shownBase = published] ELSE s
  IN /\ inbox' = <<>>
     /\ \E polls \in {TRUE} \cup IF PollDue(screen) THEN {} ELSE {FALSE} :
          LET again == polls /\ LogMoved(anew) /\ ~anew.searching
              polled == IF polls THEN SeenStamp(anew) ELSE anew
          IN /\ screen' = IF again THEN Asked(polled) ELSE polled
             /\ AsksIndex(screen', (IF replaced THEN 1 ELSE 0) + (IF again THEN 1 ELSE 0))
     /\ UNCHANGED <<Index, worker, typed>>
  BY DEF Frame
<1>3. /\ s \in Screens /\ s.query = screen.query /\ s.seq = screen.seq /\ s.base = screen.base
      /\ s.seen = screen.seen
  BY AppliedOf
<1>4. logStamp \in Positive /\ published \in Positive /\ typed \in Nat /\ screen.seq \in Nat
  BY <1>1 DEF LiveTyped, Screens
<1>5. UNCHANGED <<Index, worker, typed>> /\ inbox' = <<>>
  BY <1>2
<1>6. CASE s.base # s.shownBase
  <2> DEFINE anew == [Asked(s) EXCEPT !.shownBase = published]
  <2>1. PICK polls \in {TRUE} \cup IF PollDue(screen) THEN {} ELSE {FALSE} :
          LET again == polls /\ LogMoved(anew) /\ ~anew.searching
              polled == IF polls THEN SeenStamp(anew) ELSE anew
          IN /\ screen' = IF again THEN Asked(polled) ELSE polled
             /\ AsksIndex(screen', 1 + (IF again THEN 1 ELSE 0))
    BY <1>2, <1>6
  <2>2. /\ anew \in Screens /\ anew.seq = screen.seq + 1 /\ anew.searching /\ anew.base = published
        /\ anew.seen = screen.seen
    <3> DEFINE asked == Asked(s)
    <3>1. /\ asked \in Screens /\ asked.seq = screen.seq + 1 /\ asked.searching
          /\ asked.base = published /\ asked.seen = screen.seen /\ published \in Stamps
      BY <1>3, <1>4, AskedOf DEF Stamps
    <3>2. anew = [asked EXCEPT !.shownBase = published]
      OBVIOUS
    <3> HIDE DEF asked, anew, Stamps, Positive, Shown
    <3> QED BY <3>1, <3>2 DEF Screens
  <2> HIDE DEF anew
  <2>3. screen' = (IF polls THEN SeenStamp(anew) ELSE anew) /\ AsksIndex(screen', 1)
    BY <2>1, <2>2
  <2>4. /\ screen' \in Screens /\ screen'.seq = screen.seq + 1 /\ screen'.searching
        /\ screen'.base = published /\ screen'.seen \in {screen.seen, logStamp}
    BY <1>4, <2>2, <2>3, SeenOf
  <2>5. latest' = screen'.seq /\ searches' = Append(searches, SearchJob(screen)')
    BY <2>3 DEF AsksIndex, SearchJob
  <2> QED BY <1>4, <1>5, <2>4, <2>5, AskingKeeps
<1>7. CASE s.base = s.shownBase
  <2>1. PICK polls \in {TRUE} \cup IF PollDue(screen) THEN {} ELSE {FALSE} :
          LET again == polls /\ LogMoved(s) /\ ~s.searching
              polled == IF polls THEN SeenStamp(s) ELSE s
          IN /\ screen' = IF again THEN Asked(polled) ELSE polled
             /\ AsksIndex(screen', 0 + (IF again THEN 1 ELSE 0))
    BY <1>2, <1>7
  <2>2. polls \in BOOLEAN /\ (~polls => ~PollDue(screen))
    OBVIOUS
  <2>3. CASE polls /\ LogMoved(s) /\ ~s.searching
    <3> DEFINE polled == SeenStamp(s)
    <3>1. screen' = Asked(polled) /\ AsksIndex(screen', 1)
      BY <2>1, <2>3
    <3>2. polled \in Screens /\ polled.seq = screen.seq /\ polled.seen = logStamp
      BY <1>3, <1>4, <2>3, SeenOf
    <3> HIDE DEF polled
    <3>3. /\ screen' \in Screens /\ screen'.seq = screen.seq + 1 /\ screen'.searching
          /\ screen'.base = published /\ screen'.seen \in {screen.seen, logStamp}
      BY <1>4, <3>1, <3>2, AskedOf
    <3>4. latest' = screen'.seq /\ searches' = Append(searches, SearchJob(screen)')
      BY <3>1 DEF AsksIndex, SearchJob
    <3> QED BY <1>4, <1>5, <3>3, <3>4, AskingKeeps
  <2>4. CASE ~(polls /\ LogMoved(s) /\ ~s.searching)
    <3>1. screen' = (IF polls THEN SeenStamp(s) ELSE s) /\ UNCHANGED <<latest, searches>>
      BY <2>1, <2>4 DEF AsksIndex
    <3> QED BY <1>5, <2>2, <2>4, <3>1, ShowingKeeps
  <2> QED BY <2>3, <2>4
<1> QED BY <1>6, <1>7

LEMMA TypesKeeps ==
  ASSUME LiveInv, NEW q \in Queries, Types(q)
  PROVE  LiveInv'
<1>1. screen \in Screens /\ published \in Positive /\ typed \in Nat
  BY DEF LiveInv, LiveTyped
<1> DEFINE s == [screen EXCEPT !.query = q]
<1>2. /\ screen' = Asked(s) /\ AsksIndex(screen', 1) /\ typed' = typed + 1
      /\ UNCHANGED <<Index, inbox, worker>>
  BY DEF Types
<1>3. s \in Screens /\ s.seq = screen.seq /\ s.seen = screen.seen
  <2> HIDE DEF Stamps, Positive, Shown
  <2> QED BY <1>1 DEF Screens
<1> HIDE DEF s
<1>4. /\ screen' \in Screens /\ screen'.seq = screen.seq + 1 /\ screen'.searching
      /\ screen'.base = published /\ screen'.seen = screen.seen
  BY <1>1, <1>2, <1>3, AskedOf
<1>5. latest' = screen'.seq /\ searches' = Append(searches, SearchJob(screen)')
  BY <1>2 DEF AsksIndex, SearchJob
<1> QED BY <1>1, <1>2, <1>4, <1>5, AskingKeeps
-----------------------------------------------------------------------------
LEMMA LiveStep == StartupChanges = FALSE /\ LiveInv /\ [LiveNext]_liveVars => LiveInv'
<1> SUFFICES ASSUME StartupChanges = FALSE, LiveInv, [LiveNext]_liveVars PROVE LiveInv'
  OBVIOUS
<1>1. CASE UNCHANGED liveVars
  BY <1>1 DEF liveVars, LiveInv, LiveTyped, SeenForm, SearchesForm, LoadedForm, AwaitedForm, IdleForm,
     SearchForm, AnswerForm, Pursued, LogMoved, AnswerComes, ChangeComes, SearchJob
<1>2. CASE LiveNext
  BY <1>2, ChangesIndexKeeps, PublishesCompactionKeeps, ResetsLogKeeps, NotifiesKeeps,
     TakesSearchKeeps, RefusesKeeps, StatsKeeps, FindsKeeps, FrameKeeps, TypesKeeps DEF LiveNext
<1> QED BY <1>1, <1>2

\* Whatever changes of the index, compactions, searches and frames come in
\* between, what is shown when all is quiet answers what was typed last from the
\* index as it is; provided the index does not change before the interface
\* looked at its log for the first time.
THEOREM SettledIsCurrentHolds ==
  ASSUME StartupChanges = FALSE
  PROVE  LiveSpec => []SettledIsCurrent
<1>1. LiveInv => SettledIsCurrent
  <2> SUFFICES ASSUME LiveInv, ~notice, inbox = <<>>, searches = <<>>, worker.search = NoSearch,
                      boundTo = published
               PROVE  screen.shown = [query |-> screen.query, version |-> content]
    BY DEF SettledIsCurrent
  <2>1. ~AnswerComes /\ ~ChangeComes
    BY DEF AnswerComes, ChangeComes
  <2>2. SearchJob(screen) # NoSearch
    <3>1. SearchJob(screen).id = screen.seq /\ NoSearch.id = Never
      BY DEF SearchJob, NoSearch, Search
    <3>2. screen.seq \in Nat
      BY DEF LiveInv, LiveTyped, Screens
    <3> QED BY <3>1, <3>2 DEF Never
  <2>3. ~screen.searching
    BY <2>1, <2>2 DEF LiveInv, AwaitedForm
  <2> QED BY <2>1, <2>3 DEF LiveInv, IdleForm
<1>2. LiveInv /\ [LiveNext]_liveVars => LiveInv'
  BY LiveStep
<1> QED BY <1>1, <1>2, LiveInitInv, PTL DEF LiveSpec
-----------------------------------------------------------------------------
(***************************************************************************)
(* ScanSession: while a scan goes well, what has arrived and what is on its *)
(* way together are what its helper has read (Flow): whole mounts, a part   *)
(* of the one it reads, and nothing of the others; the completion comes     *)
(* last, when no mount is left.  Anything that goes wrong closes the spill. *)
(* Only the newest helper speaks, as scans begin when the last is gone.     *)
(***************************************************************************)

\* What is sent, and what the variables hold.
ScanRecords == [entry : Entries, at : Nat]
ScanCursors == [mount : Mounts, since : Nat]
RootCounts == {Cardinality(roots) : roots \in SUBSET Mounts}
Helpers == [is : {"starting", "running", "finished", "failed", "over"}, todo : SUBSET Mounts,
            lane : Mounts \cup {"idle"}, read : SUBSET Entries, mounts : RootCounts, errors : Nat,
            cancelled : BOOLEAN]
RecordSent == [kind : {"records"}, mount : Mounts, entry : Entries, at : Nat]
CursorSent == [kind : {"cursor"}, mount : Mounts, since : Nat]
ScanEvents ==
  RecordSent \cup CursorSent \cup [kind : {"laneError", "refused", "fatal"}]
  \cup [kind : {"complete"}, mounts : RootCounts, errors : Nat]
ScanStates == [scanning : BOOLEAN, cancelling : BOOLEAN, failed : BOOLEAN, roots : SUBSET Mounts,
               dirty : BOOLEAN]
Spills == [open : BOOLEAN, records : SUBSET ScanRecords]
Adopted == [none : {FALSE}, records : SUBSET ScanRecords, cursors : SUBSET ScanCursors,
            roots : SUBSET Mounts]

\* The types.
ScanTyped ==
  /\ onDisk \in [Entries -> Nat] /\ helpers \in Seq(Helpers) /\ channel \in Seq(ScanEvents)
  /\ gui \in ScanStates /\ staging \in Spills /\ cursors \in SUBSET ScanCursors
  /\ building \in Adopted \cup {NoIndex} /\ compact \in Adopted \cup {NoIndex}
  /\ watcher \in BOOLEAN /\ resuming \in BOOLEAN

\* Some entry has the newest generation.
HasNewest == \E e \in Entries : \A f \in Entries : onDisk[f] <= onDisk[e]

\* With the entries as in d, the records hold what was read of a mount, as it
\* is unless it changed after the mount's cursor.
Sound(d, records, since, m, read) ==
  \E c \in since :
    /\ c.mount = m /\ \E f \in Entries : c.since <= d[f]
    /\ \A e \in On(m) :
         /\ e \in read => \E r \in records : r.entry = e
         /\ \A r \in records : r.entry = e /\ d[e] <= c.since => r.at = d[e]

\* What messages carry; and all that has arrived or is on its way.
RecordOf(event) ==
  IF event.kind = "records" THEN {[entry |-> event.entry, at |-> event.at]} ELSE {}
CursorOf(event) ==
  IF event.kind = "cursor" THEN {[mount |-> event.mount, since |-> event.since]} ELSE {}
RecordsIn(s) == UNION {RecordOf(s[k]) : k \in DOMAIN s}
CursorsIn(s) == UNION {CursorOf(s[k]) : k \in DOMAIN s}
AllRecords == staging.records \cup RecordsIn(channel)
AllCursors == cursors \cup CursorsIn(channel)

\* The helper of the last scan; only it may still speak.
Newest == helpers[Len(helpers)]
OnlyNewestSpeaks ==
  /\ \A n \in Numbers : n < Len(helpers) => helpers[n].is = "over"
  /\ gui.scanning => helpers # <<>>
  /\ \A n \in Numbers : helpers[n].is = "starting" => channel = <<>> /\ gui.scanning
  /\ \A n \in Numbers : helpers[n].is \in {"finished", "over"} =>
                         helpers[n].todo = {} /\ helpers[n].lane = "idle"
  /\ \A k \in DOMAIN channel :
       /\ channel[k].kind = "complete" =>
            k = Len(channel) /\ \A n \in Numbers : helpers[n].is = "over"
       /\ channel[k].kind = "records" => channel[k].mount = MountOf[channel[k].entry]

\* The mounts a helper is done with are sound, the one it reads is so far, and
\* of the others nothing was sent.
Flow(d, h, records, since, roots) ==
  /\ h.todo \subseteq roots /\ h.lane \in h.todo \cup {"idle"}
  /\ \A m \in roots \ h.todo : Sound(d, records, since, m, On(m))
  /\ \A m \in h.todo : m # h.lane => \A r \in records : MountOf[r.entry] # m
  /\ h.lane # "idle" => Sound(d, records, since, h.lane, h.read)
  /\ \A r \in records : MountOf[r.entry] \in roots

\* No message reports a failure.
NoFailure(s) == \A k \in DOMAIN s : s[k].kind \notin {"laneError", "refused", "fatal"}

\* Only a scan that goes well has a spill, and what arrived and what is on its
\* way together are in order.
StagingForm ==
  /\ staging.open => gui.scanning /\ ~gui.cancelling /\ ~gui.failed
  /\ gui.dirty => ~gui.scanning
  /\ staging.open /\ Newest.is # "failed" /\ NoFailure(channel) =>
       Flow(onDisk, Newest, AllRecords, AllCursors, gui.roots)

\* An index is sound for all its roots.
IndexSound(d, x) == x # NoIndex => \A m \in x.roots : Sound(d, x.records, x.cursors, m, On(m))

\* The service runs or is about to, unless a scan or a build is under way.
ServiceForm ==
  ~gui.scanning /\ building = NoIndex /\ compact # NoIndex => resuming \/ watcher

\* The inductive invariant.
ScanInv ==
  /\ ScanTyped /\ HasNewest /\ OnlyNewestSpeaks /\ StagingForm
  /\ IndexSound(onDisk, building) /\ IndexSound(onDisk, compact) /\ ServiceForm
-----------------------------------------------------------------------------
(* What it means for records to be sound. *)

\* The newest generation is a number that some entry has.
LEMMA GenerationIsNewest ==
  ASSUME onDisk \in [Entries -> Nat], HasNewest
  PROVE  /\ Generation \in Nat /\ \A e \in Entries : onDisk[e] <= Generation
         /\ \E f \in Entries : Generation = onDisk[f]
<1> DEFINE IsNewest(g) == g \in {onDisk[e] : e \in Entries} /\ \A e \in Entries : onDisk[e] <= g
<1>1. \E g : IsNewest(g)
  BY DEF HasNewest
<1>2. IsNewest(CHOOSE g : IsNewest(g))
  BY <1>1
<1>3. Generation = CHOOSE g : IsNewest(g)
  BY DEF Generation
<1> QED BY <1>2, <1>3

\* A change of an entry leaves records sound: it is newer than every cursor.
LEMMA SoundAfterChange ==
  ASSUME onDisk \in [Entries -> Nat], HasNewest, NEW e \in Entries, ScanAssumption,
         NEW records \in SUBSET ScanRecords, NEW since \in SUBSET ScanCursors, NEW m \in Mounts,
         NEW read,
         Sound(onDisk, records, since, m, read)
  PROVE  Sound([onDisk EXCEPT ![e] = Generation + 1], records, since, m, read)
<1> DEFINE d == [onDisk EXCEPT ![e] = Generation + 1]
<1>1. PICK c \in since :
        /\ c.mount = m /\ \E f \in Entries : c.since <= onDisk[f]
        /\ \A x \in On(m) :
             /\ x \in read => \E r \in records : r.entry = x
             /\ \A r \in records : r.entry = x /\ onDisk[x] <= c.since => r.at = onDisk[x]
  BY DEF Sound
<1>2. Generation \in Nat /\ \A x \in Entries : onDisk[x] <= Generation
  BY GenerationIsNewest
<1>3. c.since \in Nat /\ c.since <= Generation
  BY <1>1, <1>2 DEF ScanCursors
<1>4. d \in [Entries -> Nat] /\ d[e] = Generation + 1 /\ \A x \in Entries : x # e => d[x] = onDisk[x]
  BY <1>2
<1>5. \E f \in Entries : c.since <= d[f]
  BY <1>2, <1>3, <1>4
<1>6. \A x \in On(m) : x \in Entries /\ (d[x] <= c.since => d[x] = onDisk[x])
  BY <1>2, <1>3, <1>4 DEF On
<1> HIDE DEF d
<1>7. Sound(d, records, since, m, read)
  BY <1>1, <1>5, <1>6 DEF Sound
<1> QED BY <1>7 DEF d

\* A record of what an entry is like adds the entry to what was read of its mount.
LEMMA SoundWithRecord ==
  ASSUME NEW d \in [Entries -> Nat], NEW records, NEW since, NEW m, NEW read, NEW e \in Entries,
         Sound(d, records, since, m, read)
  PROVE  Sound(d, records \cup {[entry |-> e, at |-> d[e]]}, since, m, read \cup {e})
<1> DEFINE new == [entry |-> e, at |-> d[e]]
           more == records \cup {new}
<1>1. PICK c \in since :
        /\ c.mount = m /\ \E f \in Entries : c.since <= d[f]
        /\ \A x \in On(m) :
             /\ x \in read => \E r \in records : r.entry = x
             /\ \A r \in records : r.entry = x /\ d[x] <= c.since => r.at = d[x]
  BY DEF Sound
<1>2. new.entry = e /\ new.at = d[e] /\ new \in more /\ \A r \in more : r \in records \/ r = new
  OBVIOUS
<1>3. \A r \in records : r \in more
  OBVIOUS
<1> HIDE DEF new, more
<1>4. ASSUME NEW x \in On(m)
      PROVE  /\ x \in read \cup {e} => \E r \in more : r.entry = x
             /\ \A r \in more : r.entry = x /\ d[x] <= c.since => r.at = d[x]
  BY <1>1, <1>2, <1>3
<1>5. Sound(d, more, since, m, read \cup {e})
  BY <1>1, <1>4 DEF Sound
<1> QED BY <1>5 DEF more, new

\* More cursors take nothing away.
LEMMA SoundWithCursor ==
  ASSUME NEW d, NEW records, NEW since, NEW more, NEW m, NEW read, since \subseteq more,
         Sound(d, records, since, m, read)
  PROVE  Sound(d, records, more, m, read)
  BY DEF Sound

\* Of a mount nothing was sent of, nothing is wrong after its cursor.
LEMMA SoundAtFirst ==
  ASSUME NEW d, NEW records, NEW since, NEW m, NEW c \in since, c.mount = m,
         \E f \in Entries : c.since <= d[f], \A r \in records : MountOf[r.entry] # m
  PROVE  Sound(d, records, since, m, {})
  BY DEF Sound, On

\* Sound to what was read, and read to the end: sound.
LEMMA SoundWithLess ==
  ASSUME NEW d, NEW records, NEW since, NEW m, NEW read, NEW less, less \subseteq read,
         Sound(d, records, since, m, read)
  PROVE  Sound(d, records, since, m, less)
  BY DEF Sound
-----------------------------------------------------------------------------
(* What is on its way. *)

\* A message is added at the end of the queue.
LEMMA SentMore ==
  ASSUME NEW s \in Seq(ScanEvents), NEW event \in ScanEvents
  PROVE  /\ Append(s, event) \in Seq(ScanEvents) /\ Len(Append(s, event)) = Len(s) + 1
         /\ DOMAIN Append(s, event) = DOMAIN s \cup {Len(s) + 1}
         /\ \A k \in DOMAIN s : Append(s, event)[k] = s[k] /\ k # Len(s) + 1
         /\ Append(s, event)[Len(s) + 1] = event
  OBVIOUS

\* It adds its record, if it is one, to those on their way.
LEMMA RecordsSent ==
  ASSUME NEW s \in Seq(ScanEvents), NEW event \in ScanEvents
  PROVE  RecordsIn(Append(s, event)) = RecordsIn(s) \cup RecordOf(event)
<1> DEFINE t == Append(s, event)
<1>1. /\ DOMAIN t = DOMAIN s \cup {Len(s) + 1} /\ \A k \in DOMAIN s : t[k] = s[k]
      /\ t[Len(s) + 1] = event
  BY SentMore
<1> HIDE DEF t
<1>2. RecordsIn(t) = RecordsIn(s) \cup RecordOf(event)
  BY <1>1 DEF RecordsIn
<1> QED BY <1>2 DEF t

\* And its cursor, if it is one.
LEMMA CursorsSent ==
  ASSUME NEW s \in Seq(ScanEvents), NEW event \in ScanEvents
  PROVE  CursorsIn(Append(s, event)) = CursorsIn(s) \cup CursorOf(event)
<1> DEFINE t == Append(s, event)
<1>1. /\ DOMAIN t = DOMAIN s \cup {Len(s) + 1} /\ \A k \in DOMAIN s : t[k] = s[k]
      /\ t[Len(s) + 1] = event
  BY SentMore
<1> HIDE DEF t
<1>2. CursorsIn(t) = CursorsIn(s) \cup CursorOf(event)
  BY <1>1 DEF CursorsIn
<1> QED BY <1>2 DEF t

\* A message is taken from the front.
LEMMA TakenOne ==
  ASSUME NEW s \in Seq(ScanEvents), s # <<>>
  PROVE  /\ Head(s) = s[1] /\ Head(s) \in ScanEvents /\ 1 \in DOMAIN s
         /\ Tail(s) \in Seq(ScanEvents) /\ Len(Tail(s)) = Len(s) - 1
         /\ \A k \in DOMAIN Tail(s) : Tail(s)[k] = s[k + 1] /\ k + 1 \in DOMAIN s
         /\ \A k \in DOMAIN s : k = 1 \/ (k - 1 \in DOMAIN Tail(s) /\ s[k] = Tail(s)[k - 1])
  OBVIOUS

\* What it says was on its way before.
LEMMA RecordsTaken ==
  ASSUME NEW s \in Seq(ScanEvents), s # <<>>
  PROVE  RecordsIn(s) = RecordsIn(Tail(s)) \cup RecordOf(Head(s))
<1> DEFINE t == Tail(s)
           first == Head(s)
<1>1. /\ \A k \in DOMAIN t : t[k] = s[k + 1] /\ k + 1 \in DOMAIN s
      /\ \A k \in DOMAIN s : k = 1 \/ (k - 1 \in DOMAIN t /\ s[k] = t[k - 1])
      /\ 1 \in DOMAIN s /\ first = s[1]
  BY TakenOne
<1> HIDE DEF t, first
<1>2. RecordsIn(s) = RecordsIn(t) \cup RecordOf(first)
  BY <1>1 DEF RecordsIn
<1> QED BY <1>2 DEF t, first

\* And so was its cursor.
LEMMA CursorsTaken ==
  ASSUME NEW s \in Seq(ScanEvents), s # <<>>
  PROVE  CursorsIn(s) = CursorsIn(Tail(s)) \cup CursorOf(Head(s))
<1> DEFINE t == Tail(s)
           first == Head(s)
<1>1. /\ \A k \in DOMAIN t : t[k] = s[k + 1] /\ k + 1 \in DOMAIN s
      /\ \A k \in DOMAIN s : k = 1 \/ (k - 1 \in DOMAIN t /\ s[k] = t[k - 1])
      /\ 1 \in DOMAIN s /\ first = s[1]
  BY TakenOne
<1> HIDE DEF t, first
<1>2. CursorsIn(s) = CursorsIn(t) \cup CursorOf(first)
  BY <1>1 DEF CursorsIn
<1> QED BY <1>2 DEF t, first

\* Records and cursors on their way are records and cursors.
LEMMA SentTyped ==
  ASSUME NEW s \in Seq(ScanEvents)
  PROVE  RecordsIn(s) \subseteq ScanRecords /\ CursorsIn(s) \subseteq ScanCursors
<1>1. \A k \in DOMAIN s : s[k] \in ScanEvents
  OBVIOUS
<1>2. \A x \in ScanEvents : x.kind = "records" => x.entry \in Entries /\ x.at \in Nat
  BY DEF ScanEvents, RecordSent, CursorSent
<1>3. \A x \in ScanEvents : x.kind = "cursor" => x.mount \in Mounts /\ x.since \in Nat
  BY DEF ScanEvents, RecordSent, CursorSent
<1>4. RecordsIn(s) \subseteq ScanRecords
  BY <1>1, <1>2 DEF RecordsIn, RecordOf, ScanRecords
<1>5. CursorsIn(s) \subseteq ScanCursors
  BY <1>1, <1>3 DEF CursorsIn, CursorOf, ScanCursors
<1> QED BY <1>4, <1>5
-----------------------------------------------------------------------------
(* The helper's steps. *)

\* A helper that is not over is the newest, and no completion is on its way.
LEMMA WhoSpeaks ==
  ASSUME ScanTyped, OnlyNewestSpeaks, NEW n \in Numbers, helpers[n].is # "over"
  PROVE  /\ n = Len(helpers) /\ helpers[n] = Newest /\ helpers[n] \in Helpers
         /\ \A k \in DOMAIN channel : channel[k].kind # "complete"
<1>1. helpers \in Seq(Helpers) /\ Len(helpers) \in Nat /\ n \in 1 .. Len(helpers) /\ helpers[n] \in Helpers
  BY DEF ScanTyped, Numbers
<1>2. n = Len(helpers)
  BY <1>1 DEF OnlyNewestSpeaks, Numbers
<1> QED BY <1>1, <1>2 DEF OnlyNewestSpeaks, Newest

\* Whatever the newest helper does, and says, keeps the invariant if it keeps
\* the flow.
LEMMA HelperMoves ==
  ASSUME ScanInv, NEW n \in Numbers, helpers[n].is # "over", NEW h \in Helpers,
         helpers' = [helpers EXCEPT ![n] = h], Alone,
         h.is # "starting", h.is \in {"finished", "over"} => h.todo = {} /\ h.lane = "idle",
         \/ channel' = channel
         \/ \E event \in ScanEvents :
              /\ channel' = Append(channel, event)
              /\ event.kind = "complete" => h.is = "over"
              /\ event.kind = "records" => event.mount = MountOf[event.entry],
         watcher' = watcher \/ (watcher' = FALSE /\ gui.scanning),
         staging.open /\ h.is # "failed" /\ NoFailure(channel') =>
           Flow(onDisk, h, staging.records \cup RecordsIn(channel'), cursors \cup CursorsIn(channel'),
                gui.roots)
  PROVE  ScanInv'
<1>1. /\ n = Len(helpers) /\ helpers \in Seq(Helpers) /\ channel \in Seq(ScanEvents)
      /\ \A k \in DOMAIN channel : channel[k].kind # "complete"
  BY WhoSpeaks DEF ScanInv, ScanTyped
<1>2. /\ helpers' \in Seq(Helpers) /\ Len(helpers') = Len(helpers) /\ helpers'[n] = h
      /\ DOMAIN helpers' = DOMAIN helpers /\ \A i \in DOMAIN helpers : i # n => helpers'[i] = helpers[i]
  BY <1>1 DEF Numbers
<1> DEFINE ChannelForm ==
             /\ channel' \in Seq(ScanEvents)
             /\ \A k \in DOMAIN channel' :
                  /\ channel'[k].kind = "complete" => k = Len(channel') /\ h.is = "over"
                  /\ channel'[k].kind = "records" => channel'[k].mount = MountOf[channel'[k].entry]
<1>3. ChannelForm
  <2>1. CASE channel' = channel
    BY <1>1, <2>1 DEF ScanInv, OnlyNewestSpeaks
  <2>2. ASSUME NEW event \in ScanEvents, channel' = Append(channel, event),
               event.kind = "complete" => h.is = "over",
               event.kind = "records" => event.mount = MountOf[event.entry]
        PROVE  ChannelForm
    <3> DEFINE t == Append(channel, event)
    <3>1. /\ t \in Seq(ScanEvents) /\ Len(t) = Len(channel) + 1
          /\ DOMAIN t = DOMAIN channel \cup {Len(channel) + 1}
          /\ \A k \in DOMAIN channel : t[k] = channel[k] /\ k # Len(channel) + 1
          /\ t[Len(channel) + 1] = event
      BY <1>1, SentMore
    <3> HIDE DEF t
    <3>2. \A k \in DOMAIN channel :
            channel[k].kind = "records" => channel[k].mount = MountOf[channel[k].entry]
      BY DEF ScanInv, OnlyNewestSpeaks
    <3>3. \A k \in DOMAIN t :
            /\ t[k].kind = "complete" => k = Len(t) /\ h.is = "over"
            /\ t[k].kind = "records" => t[k].mount = MountOf[t[k].entry]
      BY <1>1, <2>2, <3>1, <3>2
    <3>4. channel' = t
      BY <2>2 DEF t
    <3> QED BY <3>1, <3>3, <3>4
  <2> QED BY <2>1, <2>2
<1>4. UNCHANGED <<onDisk, gui, staging, cursors, building, compact, resuming>>
  BY DEF Alone, userVars, buildVars
<1>5. ScanTyped'
  BY <1>2, <1>3, <1>4 DEF ScanInv, ScanTyped
<1>6. Newest' = h
  BY <1>1, <1>2 DEF Newest
<1>7. \A i \in DOMAIN helpers' : i < Len(helpers') => helpers'[i].is = "over"
  BY <1>1, <1>2 DEF ScanInv, OnlyNewestSpeaks, Numbers
<1>8. \A i \in DOMAIN helpers' : i # n => helpers'[i].is = "over"
  BY <1>1, <1>2, <1>7
<1>9. OnlyNewestSpeaks'
  <2>1. gui'.scanning => helpers' # <<>>
    BY <1>1, <1>2
  <2>2. \A i \in DOMAIN helpers' :
           /\ helpers'[i].is = "starting" => FALSE
           /\ helpers'[i].is \in {"finished", "over"} => helpers'[i].todo = {} /\ helpers'[i].lane = "idle"
    BY <1>2, <1>8 DEF ScanInv, OnlyNewestSpeaks, Numbers
  <2>3. h.is = "over" => \A i \in DOMAIN helpers' : helpers'[i].is = "over"
    BY <1>2, <1>8
  <2> QED BY <1>3, <1>7, <2>1, <2>2, <2>3 DEF OnlyNewestSpeaks, Numbers
<1>10. StagingForm'
  BY <1>4, <1>6 DEF ScanInv, StagingForm, AllRecords, AllCursors
<1>11. HasNewest' /\ IndexSound(onDisk, building)' /\ IndexSound(onDisk, compact)'
  BY <1>4 DEF ScanInv, HasNewest, IndexSound
<1>12. ServiceForm'
  BY <1>4 DEF ScanInv, ServiceForm
<1> QED BY <1>5, <1>9, <1>10, <1>11, <1>12 DEF ScanInv

\* What the newest helper did so far is in order, while nothing failed.
LEMMA FlowSoFar ==
  ASSUME ScanInv, NEW n \in Numbers, helpers[n].is \notin {"over", "failed"}, staging.open,
         NoFailure(channel)
  PROVE  Flow(onDisk, helpers[n], AllRecords, AllCursors, gui.roots)
BY WhoSpeaks DEF ScanInv, StagingForm

\* A message that reports no failure leaves none on its way out.
LEMMA NoFailureBefore ==
  ASSUME NEW s \in Seq(ScanEvents), NEW event \in ScanEvents, NoFailure(Append(s, event))
  PROVE  NoFailure(s) /\ event.kind \notin {"laneError", "refused", "fatal"}
<1> DEFINE t == Append(s, event)
<1>1. /\ DOMAIN t = DOMAIN s \cup {Len(s) + 1} /\ \A k \in DOMAIN s : t[k] = s[k]
      /\ t[Len(s) + 1] = event
  BY SentMore
<1>2. NoFailure(t)
  OBVIOUS
<1> HIDE DEF t
<1> QED BY <1>1, <1>2 DEF NoFailure

\* A message that carries nothing changes nothing of what is on its way.
LEMMA NothingCarried ==
  ASSUME NEW s \in Seq(ScanEvents), NEW event \in ScanEvents, event.kind \notin {"records", "cursor"}
  PROVE  RecordsIn(Append(s, event)) = RecordsIn(s) /\ CursorsIn(Append(s, event)) = CursorsIn(s)
BY RecordsSent, CursorsSent DEF RecordOf, CursorOf

\* The service goes off only while a scan is under way.
LEMMA LaunchInv ==
  ASSUME ScanInv, ScanAssumption, NEW n \in Numbers, Launch(n)
  PROVE  ScanInv'
<1>1. helpers[n].is = "starting" /\ helpers[n] \in Helpers /\ helpers \in Seq(Helpers)
  BY WhoSpeaks DEF Launch, ScanInv, ScanTyped
<1>2. gui.scanning /\ channel' = channel /\ Alone
  BY <1>1 DEF Launch, SayNothing, ScanInv, OnlyNewestSpeaks
<1>3. ASSUME NEW is \in {"failed", "running"}, helpers' = [helpers EXCEPT ![n].is = is],
             watcher' = watcher \/ watcher' = FALSE
      PROVE  ScanInv'
  <2> DEFINE h == [helpers[n] EXCEPT !.is = is]
  <2>1. h \in Helpers /\ h.is = is /\ h.todo = helpers[n].todo /\ h.lane = helpers[n].lane
        /\ h.read = helpers[n].read
    BY <1>1 DEF Helpers
  <2>2. helpers' = [helpers EXCEPT ![n] = h]
    BY <1>1, <1>3
  <2> HIDE DEF h
  <2>3. staging.open /\ NoFailure(channel) =>
          Flow(onDisk, h, staging.records \cup RecordsIn(channel), cursors \cup CursorsIn(channel),
               gui.roots)
    BY <1>1, <2>1, FlowSoFar DEF Flow, AllRecords, AllCursors
  <2> QED BY <1>1, <1>2, <1>3, <2>1, <2>2, <2>3, HelperMoves
<1> QED BY <1>1, <1>3 DEF Launch

\* Nothing is asked of a helper that has failed.
LEMMA FailedInv ==
  ASSUME ScanInv, NEW n \in Numbers, helpers[n].is # "over", Alone, watcher' = watcher,
         helpers' = [helpers EXCEPT ![n].is = "failed"],
         channel' = channel \/ channel' = Append(channel, [kind |-> "refused"])
  PROVE  ScanInv'
<1> DEFINE h == [helpers[n] EXCEPT !.is = "failed"]
           event == [kind |-> "refused"]
<1>1. helpers[n] \in Helpers /\ helpers \in Seq(Helpers)
  BY WhoSpeaks DEF ScanInv, ScanTyped
<1>2. h \in Helpers /\ h.is = "failed"
  BY <1>1 DEF Helpers
<1>3. helpers' = [helpers EXCEPT ![n] = h]
  BY <1>1
<1>4. event \in ScanEvents /\ event.kind = "refused"
  BY DEF ScanEvents
<1> HIDE DEF h, event
<1> QED BY <1>2, <1>3, <1>4, HelperMoves DEF event

\* A cursor is taken before anything is read.
LEMMA OpenLaneInv ==
  ASSUME ScanInv, ScanAssumption, NEW n \in Numbers, NEW m \in Mounts, OpenLane(n, m)
  PROVE  ScanInv'
<1> DEFINE h == [helpers[n] EXCEPT !.lane = m, !.read = {}]
           cursor == [mount |-> m, since |-> Generation]
           event == [kind |-> "cursor", mount |-> m, since |-> Generation]
           records == AllRecords
           since == AllCursors \cup {cursor}
<1>1. /\ helpers[n] \in Helpers /\ helpers[n].is = "running" /\ helpers[n].lane = "idle"
      /\ m \in helpers[n].todo
      /\ helpers \in Seq(Helpers) /\ channel \in Seq(ScanEvents) /\ helpers' = [helpers EXCEPT ![n] = h]
      /\ channel' = Append(channel, event)
  BY WhoSpeaks DEF OpenLane, ScanInv, ScanTyped, Say
<1>2. /\ h \in Helpers /\ h.is = "running" /\ h.lane = m /\ h.read = {} /\ h.todo = helpers[n].todo
      /\ "idle" \notin h.todo /\ m # "idle"
  BY <1>1 DEF Helpers, ScanAssumption
<1>3. Generation \in Nat /\ \E f \in Entries : Generation = onDisk[f]
  BY GenerationIsNewest DEF ScanInv, ScanTyped
<1>4. event \in ScanEvents /\ event.kind = "cursor" /\ event.mount = m /\ event.since = Generation
  BY <1>3 DEF ScanEvents, CursorSent
<1>5. cursor.mount = m /\ cursor.since = Generation /\ cursor \in since
  OBVIOUS
<1>6. /\ [mount |-> event.mount, since |-> event.since] = cursor
      /\ RecordsIn(Append(channel, event)) = RecordsIn(channel)
      /\ CursorsIn(Append(channel, event)) = CursorsIn(channel) \cup {cursor}
  BY <1>1, <1>4, RecordsSent, CursorsSent DEF RecordOf, CursorOf
<1>7. Alone /\ watcher' = watcher
  BY DEF OpenLane
<1>8. staging.records \cup RecordsIn(channel') = records /\ cursors \cup CursorsIn(channel') = since
  BY <1>1, <1>6 DEF AllRecords, AllCursors
<1>9. \A f \in Entries : onDisk[f] <= onDisk[f]
  BY DEF ScanInv, ScanTyped
<1> HIDE DEF h, cursor, event, since, records
<1>10. ASSUME staging.open, NoFailure(channel') PROVE Flow(onDisk, h, records, since, gui.roots)
  <2>1. Flow(onDisk, helpers[n], records, AllCursors, gui.roots)
    BY <1>1, <1>4, <1>10, NoFailureBefore, FlowSoFar DEF records
  <2>2. Sound(onDisk, records, since, m, {})
    BY <1>1, <1>3, <1>5, <1>9, <2>1, SoundAtFirst DEF Flow, ScanAssumption
  <2>3. \A x \in gui.roots \ h.todo : Sound(onDisk, records, since, x, On(x))
    BY <1>2, <2>1, SoundWithCursor DEF Flow, since
  <2> QED BY <1>1, <1>2, <2>1, <2>2, <2>3 DEF Flow
<1> QED BY <1>1, <1>2, <1>4, <1>7, <1>8, <1>10, HelperMoves

\* What is read is what is there.
LEMMA ReadEntryInv ==
  ASSUME ScanInv, ScanAssumption, NEW n \in Numbers, NEW e \in Entries, ReadEntry(n, e)
  PROVE  ScanInv'
<1> DEFINE h == [helpers[n] EXCEPT !.read = @ \cup {e}]
           given == [entry |-> e, at |-> onDisk[e]]
           event == [kind |-> "records", mount |-> MountOf[e], entry |-> e, at |-> onDisk[e]]
           records == AllRecords \cup {given}
           since == AllCursors
           lane == helpers[n].lane
<1>1. /\ helpers[n] \in Helpers /\ helpers[n].is = "running" /\ e \in On(lane)
      /\ helpers \in Seq(Helpers) /\ channel \in Seq(ScanEvents) /\ helpers' = [helpers EXCEPT ![n] = h]
      /\ channel' = Append(channel, event)
  BY WhoSpeaks DEF ReadEntry, ScanInv, ScanTyped, Say
<1>2. /\ h \in Helpers /\ h.is = "running" /\ h.lane = lane /\ h.read = helpers[n].read \cup {e}
      /\ h.todo = helpers[n].todo
  BY <1>1 DEF Helpers
<1>3. lane \in Mounts /\ lane # "idle" /\ MountOf[e] = lane /\ onDisk \in [Entries -> Nat]
  BY <1>1 DEF On, ScanAssumption, ScanInv, ScanTyped
<1>4. event \in ScanEvents /\ event.kind = "records" /\ event.mount = MountOf[event.entry]
  BY <1>3 DEF ScanEvents, RecordSent
<1>5. [entry |-> event.entry, at |-> event.at] = given /\ given.entry = e
  OBVIOUS
<1>6. /\ RecordsIn(Append(channel, event)) = RecordsIn(channel) \cup {given}
      /\ CursorsIn(Append(channel, event)) = CursorsIn(channel)
  BY <1>1, <1>4, <1>5, RecordsSent, CursorsSent DEF RecordOf, CursorOf
<1>7. Alone /\ watcher' = watcher
  BY DEF ReadEntry
<1>8. staging.records \cup RecordsIn(channel') = records /\ cursors \cup CursorsIn(channel') = since
  BY <1>1, <1>6 DEF AllRecords, AllCursors
<1>9. \A x, read : Sound(onDisk, AllRecords, since, x, read) =>
        Sound(onDisk, records, since, x, read \cup {e}) /\ Sound(onDisk, records, since, x, read)
  <2> SUFFICES ASSUME NEW x, NEW read, Sound(onDisk, AllRecords, since, x, read)
               PROVE  /\ Sound(onDisk, records, since, x, read \cup {e})
                      /\ Sound(onDisk, records, since, x, read)
    OBVIOUS
  <2>1. Sound(onDisk, records, since, x, read \cup {e})
    BY <1>3, SoundWithRecord
  <2> QED BY <2>1, SoundWithLess, Zenon
<1> HIDE DEF h, given, event
<1>10. ASSUME staging.open, NoFailure(channel') PROVE Flow(onDisk, h, records, since, gui.roots)
  <2>1. Flow(onDisk, helpers[n], AllRecords, since, gui.roots)
    BY <1>1, <1>4, <1>10, NoFailureBefore, FlowSoFar
  <2>2. Sound(onDisk, records, since, h.lane, h.read)
    BY <1>2, <1>3, <1>9, <2>1 DEF Flow
  <2>3. \A x \in gui.roots \ h.todo : Sound(onDisk, records, since, x, On(x))
    BY <1>2, <1>9, <2>1 DEF Flow
  <2>4. \A r \in records : r \in AllRecords \/ MountOf[r.entry] = lane
    BY <1>3, <1>5
  <2> HIDE DEF records, since
  <2> QED BY <1>2, <1>3, <2>1, <2>2, <2>3, <2>4 DEF Flow
<1> HIDE DEF records, since
<1> QED BY <1>1, <1>2, <1>4, <1>7, <1>8, <1>10, HelperMoves

\* A lane that ends without an error was read to the end.
LEMMA CloseLaneInv ==
  ASSUME ScanInv, ScanAssumption, NEW n \in Numbers, CloseLane(n)
  PROVE  ScanInv'
<1> DEFINE lane == helpers[n].lane
           event == [kind |-> "laneError"]
<1>1. /\ helpers[n] \in Helpers /\ helpers[n].is = "running" /\ lane # "idle"
      /\ helpers \in Seq(Helpers) /\ channel \in Seq(ScanEvents) /\ Alone /\ watcher' = watcher
  BY WhoSpeaks DEF CloseLane, ScanInv, ScanTyped
<1>2. CASE /\ helpers[n].read = On(lane) /\ channel' = channel
           /\ helpers' = [helpers EXCEPT ![n].lane = "idle", ![n].todo = @ \ {helpers[n].lane}]
  <2> DEFINE h == [helpers[n] EXCEPT !.lane = "idle", !.todo = @ \ {helpers[n].lane}]
  <2>1. /\ h \in Helpers /\ h.is = "running" /\ h.lane = "idle" /\ h.todo = helpers[n].todo \ {lane}
    BY <1>1 DEF Helpers
  <2>2. helpers' = [helpers EXCEPT ![n] = h]
    BY <1>1, <1>2
  <2> HIDE DEF h
  <2>3. ASSUME staging.open, NoFailure(channel) PROVE Flow(onDisk, h, AllRecords, AllCursors, gui.roots)
    <3>1. Flow(onDisk, helpers[n], AllRecords, AllCursors, gui.roots)
      BY <1>1, <2>3, FlowSoFar
    <3>2. \A m \in gui.roots \ h.todo : Sound(onDisk, AllRecords, AllCursors, m, On(m))
      BY <1>1, <1>2, <2>1, <3>1 DEF Flow
    <3> QED BY <1>1, <2>1, <3>1, <3>2 DEF Flow
  <2> QED BY <1>1, <1>2, <2>1, <2>2, <2>3, HelperMoves DEF AllRecords, AllCursors
<1>3. CASE /\ channel' = Append(channel, event)
           /\ helpers' = [helpers EXCEPT ![n].lane = "idle", ![n].todo = @ \ {helpers[n].lane},
                                         ![n].errors = @ + 1]
  <2> DEFINE more == helpers[n].errors + 1
             h == [helpers[n] EXCEPT !.lane = "idle", !.todo = @ \ {helpers[n].lane}, !.errors = more]
  <2>1. /\ h \in Helpers /\ h.is = "running"
    <3>1. more \in Nat
      BY <1>1 DEF Helpers
    <3> HIDE DEF more
    <3> QED BY <1>1, <3>1 DEF Helpers
  <2>2. helpers' = [helpers EXCEPT ![n] = h]
    BY <1>1, <1>3
  <2> HIDE DEF h
  <2>3. event \in ScanEvents /\ event.kind = "laneError"
    BY DEF ScanEvents
  <2>4. ~NoFailure(channel')
    BY <1>1, <1>3, <2>3, NoFailureBefore
  <2> HIDE DEF event
  <2> QED BY <1>1, <1>3, <2>1, <2>2, <2>3, <2>4, HelperMoves
<1> QED BY <1>2, <1>3 DEF CloseLane, Say, SayNothing

\* A helper finishes when no lane is left.
LEMMA FinishScanInv ==
  ASSUME ScanInv, NEW n \in Numbers, FinishScan(n)
  PROVE  ScanInv'
<1> DEFINE h == [helpers[n] EXCEPT !.is = "finished"]
<1>1. /\ helpers[n] \in Helpers /\ helpers[n].is = "running" /\ helpers[n].lane = "idle"
      /\ helpers[n].todo = {}
      /\ helpers \in Seq(Helpers) /\ Alone /\ watcher' = watcher /\ channel' = channel
      /\ helpers' = [helpers EXCEPT ![n] = h]
  BY WhoSpeaks DEF FinishScan, ScanInv, ScanTyped, SayNothing
<1>2. /\ h \in Helpers /\ h.is = "finished" /\ h.lane = "idle" /\ h.todo = {}
  BY <1>1 DEF Helpers
<1> HIDE DEF h
<1>3. staging.open /\ NoFailure(channel) => Flow(onDisk, h, AllRecords, AllCursors, gui.roots)
  BY <1>1, <1>2, FlowSoFar DEF Flow
<1> QED BY <1>1, <1>2, <1>3, HelperMoves DEF AllRecords, AllCursors

\* A completion is sent by a helper that has read everything.
LEMMA ConcludeInv ==
  ASSUME ScanInv, NEW n \in Numbers, Conclude(n)
  PROVE  ScanInv'
<1>1. /\ helpers[n] \in Helpers /\ helpers[n].is \in {"finished", "failed"}
      /\ helpers \in Seq(Helpers) /\ channel \in Seq(ScanEvents) /\ Alone /\ watcher' = watcher
      /\ helpers' = [helpers EXCEPT ![n] = OverHelper]
  BY WhoSpeaks DEF Conclude, ScanInv, ScanTyped
<1>2. OverHelper \in Helpers /\ OverHelper.is = "over" /\ OverHelper.todo = {} /\ OverHelper.lane = "idle"
  <2>1. Cardinality({}) \in RootCounts
    BY DEF RootCounts
  <2> QED BY <2>1 DEF OverHelper, NewHelper, Helpers
<1>3. CASE helpers[n].is = "finished"
  <2> DEFINE event == [kind |-> "complete", mounts |-> helpers[n].mounts, errors |-> helpers[n].errors]
  <2>1. channel' = Append(channel, event)
    BY <1>3 DEF Conclude, Say
  <2>2. event \in ScanEvents /\ event.kind = "complete"
    BY <1>1 DEF ScanEvents, Helpers
  <2> HIDE DEF event
  <2>3. RecordsIn(channel') = RecordsIn(channel) /\ CursorsIn(channel') = CursorsIn(channel)
    BY <1>1, <2>1, <2>2, NothingCarried
  <2>4. helpers[n].todo = {} /\ helpers[n].lane = "idle"
    BY <1>3 DEF ScanInv, OnlyNewestSpeaks
  <2>5. ASSUME staging.open, NoFailure(channel')
        PROVE  Flow(onDisk, OverHelper, AllRecords, AllCursors, gui.roots)
    <3>1. Flow(onDisk, helpers[n], AllRecords, AllCursors, gui.roots)
      BY <1>1, <1>3, <2>1, <2>2, <2>5, NoFailureBefore, FlowSoFar
    <3> QED BY <1>2, <2>4, <3>1 DEF Flow
  <2> QED BY <1>1, <1>2, <2>1, <2>2, <2>3, <2>5, HelperMoves DEF AllRecords, AllCursors
<1>4. CASE helpers[n].is = "failed"
  <2> DEFINE event == [kind |-> "fatal"]
  <2>1. channel' = Append(channel, event)
    BY <1>4 DEF Conclude, Say
  <2>2. event \in ScanEvents /\ event.kind = "fatal"
    BY DEF ScanEvents
  <2>3. ~NoFailure(channel')
    BY <1>1, <2>1, <2>2, NoFailureBefore
  <2> HIDE DEF event
  <2> QED BY <1>1, <1>2, <2>1, <2>2, <2>3, HelperMoves
<1> QED BY <1>1, <1>3, <1>4
-----------------------------------------------------------------------------
(* The user's steps. *)

\* When the last helper is gone, its messages are too.
LEMMA QueueIsEmpty ==
  ASSUME channel \in Seq(ScanEvents), HelperGone
  PROVE  channel = <<>>
<1>1. \A k \in DOMAIN channel : channel[k] \in ScanEvents
  OBVIOUS
<1>2. \A event \in ScanEvents : event.kind \in MountEvents
  BY DEF ScanEvents, RecordSent, CursorSent, MountEvents
<1>3. \A k \in DOMAIN channel : FALSE
  BY <1>1, <1>2 DEF HelperGone
<1>4. 1 \notin DOMAIN channel
  BY <1>3
<1>5. Len(channel) = 0
  BY <1>4
<1> QED BY <1>5

\* Without a spill, a scan or a helper that starts, nothing is asked of them.
LEMMA NothingStaged ==
  ASSUME ScanTyped', ~staging'.open, gui'.dirty => ~gui'.scanning
  PROVE  StagingForm'
BY DEF StagingForm

\* A change is newer than whatever was sent.
LEMMA ChangeEntryInv ==
  ASSUME ScanInv, ScanAssumption, NEW e \in Entries, ChangeEntry(e)
  PROVE  ScanInv'
<1>1. /\ onDisk' = [onDisk EXCEPT ![e] = Generation + 1] /\ onDisk \in [Entries -> Nat] /\ HasNewest
      /\ UNCHANGED <<helpers, channel, gui, staging, cursors, building, compact, watcher, resuming>>
  BY DEF ChangeEntry, ScanInv, ScanTyped, userVars, buildVars
<1>2. Generation \in Nat /\ \A f \in Entries : onDisk[f] <= Generation
  BY <1>1, GenerationIsNewest
<1>3. onDisk' \in [Entries -> Nat]
  BY <1>1, <1>2
<1>4. HasNewest'
  BY <1>1, <1>2, <1>3 DEF HasNewest
<1>5. ScanTyped'
  BY <1>1, <1>3 DEF ScanInv, ScanTyped
<1>6. OnlyNewestSpeaks' /\ ServiceForm'
  BY <1>1 DEF ScanInv, OnlyNewestSpeaks, ServiceForm, Numbers
<1>7. \A read : \A records \in SUBSET ScanRecords, since \in SUBSET ScanCursors, m \in Mounts :
        Sound(onDisk, records, since, m, read) => Sound(onDisk', records, since, m, read)
  BY <1>1, SoundAfterChange
<1>8. \A x \in Adopted \cup {NoIndex} : IndexSound(onDisk, x) => IndexSound(onDisk', x)
  BY <1>7 DEF IndexSound, Adopted
<1>9. IndexSound(onDisk', building) /\ IndexSound(onDisk', compact)
  BY <1>8 DEF ScanInv, ScanTyped
<1>10. AllRecords \in SUBSET ScanRecords /\ AllCursors \in SUBSET ScanCursors
  BY SentTyped DEF AllRecords, AllCursors, ScanInv, ScanTyped, Spills
<1>11. StagingForm'
  <2>1. /\ (staging.open => gui.scanning /\ ~gui.cancelling /\ ~gui.failed)' /\ (gui.dirty => ~gui.scanning)'
    BY <1>1 DEF ScanInv, StagingForm
  <2>2. ASSUME staging.open, Newest.is # "failed", NoFailure(channel)
        PROVE  Flow(onDisk', Newest, AllRecords, AllCursors, gui.roots)
    <3>1. Flow(onDisk, Newest, AllRecords, AllCursors, gui.roots)
      BY <2>2 DEF ScanInv, StagingForm
    <3>2. gui.roots \subseteq Mounts
      BY DEF ScanInv, ScanTyped, ScanStates
    <3>3. \A m \in gui.roots \ Newest.todo : Sound(onDisk', AllRecords, AllCursors, m, On(m))
      BY <1>7, <1>10, <3>1, <3>2 DEF Flow
    <3>4. Newest.lane # "idle" => Newest.lane \in Mounts
      BY <3>1, <3>2 DEF Flow
    <3>5. Newest.lane # "idle" => Sound(onDisk', AllRecords, AllCursors, Newest.lane, Newest.read)
      BY <1>7, <1>10, <3>1, <3>4 DEF Flow
    <3> QED BY <3>1, <3>3, <3>5 DEF Flow
  <2> QED BY <1>1, <2>1, <2>2 DEF StagingForm, AllRecords, AllCursors, Newest
<1> QED BY <1>1, <1>4, <1>5, <1>6, <1>9, <1>11 DEF ScanInv, IndexSound

\* A scan begins with an empty queue: the last helper is gone.
LEMMA BeginScanInv ==
  ASSUME ScanInv, ScanAssumption, AwaitHelper = TRUE, NEW roots \in SUBSET Mounts, BeginScan(roots)
  PROVE  ScanInv'
<1>1. /\ ~gui.scanning /\ building = NoIndex /\ HelperGone
      /\ UNCHANGED <<onDisk, channel, building, watcher, resuming>>
  BY DEF BeginScan
<1>2. channel = <<>>
  BY <1>1, QueueIsEmpty DEF ScanInv, ScanTyped
<1>3. HasNewest' /\ IndexSound(onDisk, building)'
  BY <1>1 DEF ScanInv, HasNewest, IndexSound
<1>4. gui \in ScanStates /\ staging \in Spills /\ helpers \in Seq(Helpers)
  BY DEF ScanInv, ScanTyped
<1>5. ~staging.open
  BY <1>1 DEF ScanInv, StagingForm
<1>6. CASE /\ compact' = NoIndex /\ gui' = [gui EXCEPT !.dirty = TRUE]
           /\ UNCHANGED <<helpers, staging, cursors>>
  <2>1. gui' \in ScanStates /\ gui'.scanning = gui.scanning
    BY <1>4, <1>6 DEF ScanStates
  <2>2. ScanTyped'
    BY <1>1, <1>6, <2>1 DEF ScanInv, ScanTyped
  <2>3. OnlyNewestSpeaks'
    BY <1>1, <1>6, <2>1 DEF ScanInv, OnlyNewestSpeaks, Numbers
  <2>4. StagingForm'
    BY <1>1, <1>5, <1>6, <2>1, <2>2, NothingStaged
  <2> QED BY <1>3, <1>6, <2>2, <2>3, <2>4 DEF ScanInv, IndexSound, ServiceForm
<1>7. CASE /\ cursors' = {} /\ gui' = [gui EXCEPT !.failed = FALSE, !.roots = {}]
           /\ staging' = NotStaged /\ UNCHANGED <<helpers, compact>>
  <2>1. gui' \in ScanStates /\ gui'.scanning = gui.scanning
    BY <1>4, <1>7 DEF ScanStates
  <2>2. ScanTyped' /\ ~staging'.open
    BY <1>1, <1>7, <2>1 DEF ScanInv, ScanTyped, NotStaged, Spills
  <2>3. OnlyNewestSpeaks'
    BY <1>1, <1>7, <2>1 DEF ScanInv, OnlyNewestSpeaks, Numbers
  <2>4. StagingForm'
    BY <1>1, <2>1, <2>2, NothingStaged
  <2> QED BY <1>1, <1>3, <1>7, <2>1, <2>2, <2>3, <2>4 DEF ScanInv, IndexSound, ServiceForm
<1>8. CASE /\ staging' = Staged({}) /\ cursors' = {}
           /\ gui' = [scanning |-> TRUE, cancelling |-> FALSE, failed |-> FALSE, roots |-> roots,
                      dirty |-> FALSE]
           /\ helpers' = Append(helpers, NewHelper(roots)) /\ UNCHANGED compact
  <2> DEFINE h == NewHelper(roots)
  <2>1. h \in Helpers /\ h.is = "starting" /\ h.todo = roots /\ h.lane = "idle"
    BY DEF NewHelper, Helpers, RootCounts
  <2>2. /\ gui' \in ScanStates /\ gui'.scanning /\ ~gui'.cancelling /\ ~gui'.failed
        /\ ~gui'.dirty /\ gui'.roots = roots
    BY <1>8 DEF ScanStates
  <2> HIDE DEF h
  <2>3. /\ helpers' \in Seq(Helpers) /\ Len(helpers') = Len(helpers) + 1 /\ helpers'[Len(helpers')] = h
        /\ DOMAIN helpers' = DOMAIN helpers \cup {Len(helpers')} /\ Len(helpers) \in Nat
        /\ DOMAIN helpers = 1 .. Len(helpers) /\ \A n \in DOMAIN helpers : helpers'[n] = helpers[n]
    BY <1>4, <1>8, <2>1 DEF h
  <2>4. staging' \in Spills /\ staging'.records = {}
    BY <1>8 DEF Staged, Spills
  <2>5. ScanTyped'
    BY <1>1, <1>8, <2>2, <2>3, <2>4 DEF ScanInv, ScanTyped
  <2>6. \A n \in DOMAIN helpers :
          helpers'[n].is = "over" /\ helpers'[n].todo = {} /\ helpers'[n].lane = "idle"
    BY <1>1, <2>3 DEF HelperGone, Numbers, ScanInv, OnlyNewestSpeaks
  <2>7. OnlyNewestSpeaks'
    BY <1>1, <1>2, <2>1, <2>2, <2>3, <2>6 DEF OnlyNewestSpeaks, Numbers
  <2>8. Newest' = h
    BY <2>3 DEF Newest
  <2>9. AllRecords' = {}
    BY <1>1, <1>2, <2>4 DEF AllRecords, RecordsIn
  <2>10. Flow(onDisk', h, AllRecords', AllCursors', roots)
    BY <2>1, <2>9 DEF Flow
  <2>11. StagingForm'
    BY <2>2, <2>8, <2>10 DEF StagingForm
  <2> QED BY <1>3, <1>1, <1>8, <2>2, <2>5, <2>7, <2>11 DEF ScanInv, IndexSound, ServiceForm
<1> QED BY <1>6, <1>7, <1>8 DEF BeginScan

\* A cancelled scan has no spill.
LEMMA CancelScanInv ==
  ASSUME ScanInv, CancelScan
  PROVE  ScanInv'
<1> DEFINE n == Len(helpers)
           h == [helpers[n] EXCEPT !.cancelled = TRUE]
<1>1. /\ gui.scanning /\ gui' = [gui EXCEPT !.cancelling = TRUE, !.failed = FALSE]
      /\ staging' = NotStaged /\ cursors' = {} /\ helpers \in Seq(Helpers) /\ gui \in ScanStates
      /\ UNCHANGED <<onDisk, channel, building, compact, watcher, resuming>>
  BY DEF CancelScan, ScanInv, ScanTyped, buildVars
<1>2. n \in DOMAIN helpers /\ helpers[n] \in Helpers /\ helpers' = [helpers EXCEPT ![n] = h]
  BY <1>1 DEF ScanInv, OnlyNewestSpeaks, CancelScan
<1>3. /\ h \in Helpers /\ h.is = helpers[n].is /\ h.todo = helpers[n].todo
      /\ h.lane = helpers[n].lane
  BY <1>2 DEF Helpers
<1> HIDE DEF h
<1>4. /\ helpers' \in Seq(Helpers) /\ Len(helpers') = n /\ DOMAIN helpers' = DOMAIN helpers
      /\ \A k \in DOMAIN helpers : /\ helpers'[k].is = helpers[k].is /\ helpers'[k].todo = helpers[k].todo
                                   /\ helpers'[k].lane = helpers[k].lane
  BY <1>1, <1>2, <1>3
<1>5. gui' \in ScanStates /\ gui'.scanning /\ gui'.dirty = gui.dirty
  BY <1>1 DEF ScanStates
<1>6. ScanTyped' /\ ~staging'.open
  BY <1>1, <1>4, <1>5 DEF ScanInv, ScanTyped, NotStaged, Spills
<1>7. OnlyNewestSpeaks'
  BY <1>1, <1>2, <1>4, <1>5 DEF ScanInv, OnlyNewestSpeaks, Numbers
<1>8. StagingForm'
  BY <1>1, <1>5, <1>6, NothingStaged DEF ScanInv, StagingForm
<1> QED BY <1>1, <1>5, <1>6, <1>7, <1>8 DEF ScanInv, HasNewest, IndexSound, ServiceForm
-----------------------------------------------------------------------------
(* The application's steps. *)

\* A message is taken: the newest helper is the only one that speaks still.
LEMMA TakenForm ==
  ASSUME ScanInv, channel # <<>>, channel' = Tail(channel), Outside,
         gui'.scanning \in BOOLEAN, gui'.scanning => gui.scanning
  PROVE  /\ OnlyNewestSpeaks' /\ HasNewest' /\ Newest' = Newest
         /\ channel' \in Seq(ScanEvents) /\ Head(channel) \in ScanEvents
         /\ Head(channel).kind = "records" => Head(channel).mount = MountOf[Head(channel).entry]
         /\ NoFailure(channel') /\ Head(channel).kind \notin {"laneError", "refused", "fatal"} =>
              NoFailure(channel)
<1> DEFINE t == Tail(channel)
           first == Head(channel)
<1>1. /\ first = channel[1] /\ first \in ScanEvents /\ 1 \in DOMAIN channel
      /\ t \in Seq(ScanEvents) /\ Len(t) = Len(channel) - 1 /\ Len(channel) \in Nat
      /\ \A k \in DOMAIN t : t[k] = channel[k + 1] /\ k + 1 \in DOMAIN channel /\ k \in Nat
      /\ \A k \in DOMAIN channel : k = 1 \/ (k - 1 \in DOMAIN t /\ channel[k] = t[k - 1])
  BY TakenOne DEF ScanInv, ScanTyped
<1>2. helpers' = helpers /\ onDisk' = onDisk /\ channel' = t
  BY DEF Outside
<1> HIDE DEF t, first
<1>3. \A k \in DOMAIN t :
        /\ t[k].kind = "complete" => k = Len(t) /\ \A n \in Numbers : helpers[n].is = "over"
        /\ t[k].kind = "records" => t[k].mount = MountOf[t[k].entry]
  BY <1>1 DEF ScanInv, OnlyNewestSpeaks
<1>4. \A n \in Numbers : helpers[n].is # "starting"
  BY DEF ScanInv, OnlyNewestSpeaks
<1>5. OnlyNewestSpeaks'
  BY <1>2, <1>3, <1>4 DEF ScanInv, OnlyNewestSpeaks, Numbers
<1>6. first.kind = "records" => first.mount = MountOf[first.entry]
  BY <1>1 DEF ScanInv, OnlyNewestSpeaks
<1>7. HasNewest' /\ Newest' = Newest
  BY <1>2 DEF ScanInv, HasNewest, Newest
<1>8. NoFailure(t) /\ first.kind \notin {"laneError", "refused", "fatal"} => NoFailure(channel)
  BY <1>1 DEF NoFailure
<1> QED BY <1>1, <1>2, <1>5, <1>6, <1>7, <1>8 DEF first

\* A message that ends the spill leaves nothing to ask of it.
LEMMA TakenUnstaged ==
  ASSUME ScanInv, channel # <<>>, channel' = Tail(channel), Outside,
         gui' \in ScanStates, gui'.scanning => gui.scanning, gui'.dirty = gui.dirty,
         staging' = NotStaged, cursors' \in SUBSET ScanCursors,
         building' \in Adopted \cup {NoIndex}, IndexSound(onDisk, building'), compact' = compact,
         resuming' \in BOOLEAN, ServiceForm'
  PROVE  ScanInv'
<1>1. OnlyNewestSpeaks' /\ HasNewest' /\ channel' \in Seq(ScanEvents)
  BY TakenForm DEF ScanStates
<1>2. ScanTyped' /\ ~staging'.open
  BY <1>1 DEF ScanInv, ScanTyped, NotStaged, Spills, Outside
<1>3. StagingForm'
  BY <1>2, NothingStaged DEF ScanInv, StagingForm
<1> QED BY <1>1, <1>2, <1>3 DEF ScanInv, IndexSound, Outside

\* The scan is given up.
LEMMA EndScanInv ==
  ASSUME ScanInv, channel # <<>>, channel' = Tail(channel), Outside, UNCHANGED buildVars,
         NEW cancelling \in BOOLEAN, EndScan(cancelling)
  PROVE  ScanInv'
<1>1. gui' = [gui EXCEPT !.scanning = FALSE, !.failed = TRUE, !.roots = {}, !.cancelling = cancelling]
      /\ staging' = NotStaged /\ cursors' = {} /\ building' = building /\ compact' = compact
      /\ Resume(gui', building, compact)
  BY DEF EndScan, buildVars
<1>2. gui' \in ScanStates /\ ~gui'.scanning /\ gui'.dirty = gui.dirty
  BY <1>1 DEF ScanInv, ScanTyped, ScanStates
<1>3. resuming' \in BOOLEAN /\ ServiceForm'
  BY <1>1, <1>2 DEF Resume, ServiceForm, ScanInv, ScanTyped
<1> QED BY <1>1, <1>2, <1>3, TakenUnstaged DEF ScanInv, ScanTyped

\* A cursor that arrives was on its way.
LEMMA TakeCursorInv ==
  ASSUME ScanInv, TakeCursor
  PROVE  ScanInv'
<1> DEFINE cursor == [mount |-> Head(channel).mount, since |-> Head(channel).since]
<1>1. /\ channel # <<>> /\ channel' = Tail(channel) /\ Outside /\ Head(channel).kind = "cursor"
      /\ UNCHANGED <<onDisk, helpers, watcher, gui, staging, building, compact, resuming>>
      /\ channel \in Seq(ScanEvents)
  BY DEF TakeCursor, Next1, Outside, buildVars, ScanInv, ScanTyped
<1>2. cursors' = IF gui.scanning /\ ~gui.cancelling /\ ~gui.failed THEN cursors \cup {cursor} ELSE cursors
  BY DEF TakeCursor
<1>3. /\ OnlyNewestSpeaks' /\ HasNewest' /\ Newest' = Newest /\ channel' \in Seq(ScanEvents)
      /\ Head(channel) \in ScanEvents /\ NoFailure(channel') => NoFailure(channel)
  BY <1>1, TakenForm DEF ScanInv, ScanTyped, ScanStates
<1>4. cursor \in ScanCursors
  BY <1>1, <1>3 DEF ScanEvents, RecordSent, CursorSent, ScanCursors
<1>5. RecordsIn(channel) = RecordsIn(channel') /\ CursorsIn(channel) = CursorsIn(channel') \cup {cursor}
  BY <1>1, RecordsTaken, CursorsTaken DEF RecordOf, CursorOf
<1> HIDE DEF cursor
<1>6. ScanTyped'
  BY <1>1, <1>2, <1>3, <1>4 DEF ScanInv, ScanTyped
<1>7. StagingForm'
  <2>1. staging.open => AllRecords' = AllRecords /\ AllCursors' = AllCursors
    BY <1>1, <1>2, <1>5 DEF ScanInv, StagingForm, AllRecords, AllCursors
  <2> QED BY <1>1, <1>3, <2>1 DEF ScanInv, StagingForm
<1> QED BY <1>1, <1>3, <1>6, <1>7 DEF ScanInv, IndexSound, ServiceForm

\* No record of a scan that goes well is dropped: it is of one of the roots.
LEMMA TakeRecordsInv ==
  ASSUME ScanInv, TakeRecords
  PROVE  ScanInv'
<1> DEFINE given == [entry |-> Head(channel).entry, at |-> Head(channel).at]
           mount == Head(channel).mount
<1>1. /\ channel # <<>> /\ channel' = Tail(channel) /\ Outside /\ Head(channel).kind = "records"
      /\ UNCHANGED <<onDisk, helpers, watcher, building, compact>> /\ UNCHANGED buildVars
      /\ channel \in Seq(ScanEvents) /\ gui.scanning \in BOOLEAN /\ gui.cancelling \in BOOLEAN
  BY DEF TakeRecords, Next1, Outside, buildVars, ScanInv, ScanTyped, ScanStates
<1>2. CASE staging.open /\ EndScan(gui.cancelling)
  BY <1>1, <1>2, EndScanInv
<1>3. CASE /\ staging' = IF staging.open /\ mount \in gui.roots
                         THEN Staged(staging.records \cup {given}) ELSE staging
           /\ UNCHANGED <<gui, cursors, resuming>>
  <2>1. /\ OnlyNewestSpeaks' /\ HasNewest' /\ Newest' = Newest /\ channel' \in Seq(ScanEvents)
        /\ Head(channel) \in ScanEvents /\ NoFailure(channel') => NoFailure(channel)
        /\ mount = MountOf[Head(channel).entry]
    BY <1>1, <1>3, TakenForm DEF ScanInv, ScanTyped, ScanStates
  <2>2. given \in ScanRecords /\ given.entry = Head(channel).entry
    BY <1>1, <2>1 DEF ScanEvents, RecordSent, CursorSent, ScanRecords
  <2>3. RecordsIn(channel) = RecordsIn(channel') \cup {given} /\ CursorsIn(channel) = CursorsIn(channel')
    BY <1>1, RecordsTaken, CursorsTaken DEF RecordOf, CursorOf
  <2>4. /\ staging' \in Spills /\ staging'.open = staging.open
        /\ staging.open /\ mount \in gui.roots => staging'.records = staging.records \cup {given}
    BY <1>3, <2>2 DEF ScanInv, ScanTyped, Spills, Staged
  <2> HIDE DEF given, mount
  <2>5. ScanTyped'
    BY <1>1, <1>3, <2>1, <2>4 DEF ScanInv, ScanTyped
  <2>6. StagingForm'
    <3>1. AllCursors' = AllCursors
      BY <1>3, <2>3 DEF AllCursors
    <3>2. ASSUME staging.open, Newest.is # "failed", NoFailure(channel)
          PROVE  Flow(onDisk, Newest, AllRecords', AllCursors, gui.roots)
      <4>1. Flow(onDisk, Newest, AllRecords, AllCursors, gui.roots)
        BY <3>2 DEF ScanInv, StagingForm
      <4>2. given \in AllRecords
        BY <2>3 DEF AllRecords
      <4>3. mount \in gui.roots
        BY <2>1, <2>2, <4>1, <4>2 DEF Flow
      <4>4. AllRecords' = AllRecords
        BY <2>3, <2>4, <3>2, <4>3 DEF AllRecords
      <4> QED BY <4>1, <4>4
    <3> QED BY <1>1, <1>3, <2>1, <2>4, <3>1, <3>2 DEF ScanInv, StagingForm
  <2> QED BY <1>1, <1>3, <2>1, <2>5, <2>6 DEF ScanInv, IndexSound, ServiceForm
<1> QED BY <1>2, <1>3 DEF TakeRecords

\* A lane's error closes the spill.
LEMMA TakeLaneErrorInv ==
  ASSUME ScanInv, TakeLaneError
  PROVE  ScanInv'
<1>1. /\ channel # <<>> /\ channel' = Tail(channel) /\ Outside /\ gui' = [gui EXCEPT !.failed = TRUE]
      /\ staging' = NotStaged /\ cursors' = {} /\ UNCHANGED <<building, compact, resuming, watcher>>
  BY DEF TakeLaneError, Next1, buildVars, Outside
<1>2. gui' \in ScanStates /\ gui'.scanning = gui.scanning /\ gui'.dirty = gui.dirty
  BY <1>1 DEF ScanInv, ScanTyped, ScanStates
<1>3. ServiceForm' /\ resuming' \in BOOLEAN
  BY <1>1, <1>2 DEF ScanInv, ScanTyped, ServiceForm
<1> QED BY <1>1, <1>2, <1>3, TakenUnstaged DEF ScanInv, ScanTyped

\* A refusal and a failure end the scan.
LEMMA TakeRefusalInv ==
  ASSUME ScanInv, TakeRefusal \/ TakeFatal
  PROVE  ScanInv'
<1>1. gui.cancelling \in BOOLEAN
  BY DEF ScanInv, ScanTyped, ScanStates
<1> QED BY <1>1, EndScanInv DEF TakeRefusal, TakeFatal, Next1

\* The completion comes last: what has arrived is all there was.
LEMMA TakeCompletionInv ==
  ASSUME ScanInv, TakeCompletion
  PROVE  ScanInv'
<1> DEFINE done == Head(channel)
           clean == done.mounts > 0 /\ done.errors = 0 /\ ~gui.failed
           adopt == clean /\ ~gui.cancelling /\ staging.open /\ staging.records # {}
           settled == [gui EXCEPT !.scanning = FALSE, !.cancelling = FALSE, !.roots = {},
                                  !.failed = gui.cancelling /\ ~clean]
           adopted == [none |-> FALSE, records |-> staging.records, cursors |-> cursors,
                       roots |-> gui.roots]
<1>1. /\ channel # <<>> /\ channel' = Tail(channel) /\ Outside /\ done.kind = "complete"
      /\ building' = IF adopt THEN adopted ELSE building
      /\ gui' = settled /\ staging' = NotStaged /\ cursors' = IF gui.cancelling THEN cursors ELSE {}
      /\ Resume(settled, building', compact) /\ compact' = compact
  BY DEF TakeCompletion, Next1
<1>2. /\ gui \in ScanStates /\ staging \in Spills /\ cursors \in SUBSET ScanCursors
      /\ channel \in Seq(ScanEvents)
  BY DEF ScanInv, ScanTyped
<1>3. gui' \in ScanStates /\ ~gui'.scanning /\ gui'.dirty = gui.dirty
  BY <1>1, <1>2 DEF ScanStates
<1>4. adopted \in Adopted /\ adopted.records = staging.records /\ adopted.cursors = cursors
      /\ adopted.roots = gui.roots
  BY <1>2 DEF Adopted, Spills, ScanStates
<1>5. IndexSound(onDisk, building')
  <2>1. CASE ~adopt
    BY <1>1, <2>1 DEF ScanInv
  <2>2. CASE adopt
    <3>1. 1 \in DOMAIN channel /\ channel[1] = done
      BY <1>1, <1>2, TakenOne
    <3>2. Len(channel) = 1 /\ \A n \in Numbers : helpers[n].is = "over"
      BY <1>1, <3>1 DEF ScanInv, OnlyNewestSpeaks
    <3>3. \A k \in DOMAIN channel : k = 1
      BY <1>2, <3>2
    <3>4. AllRecords = staging.records /\ AllCursors = cursors
      BY <1>1, <3>1, <3>3 DEF AllRecords, AllCursors, RecordsIn, CursorsIn, RecordOf, CursorOf
    <3>5. NoFailure(channel)
      BY <1>1, <3>1, <3>3 DEF NoFailure
    <3>6. Newest.is = "over" /\ Newest \in Helpers
      BY <2>2, <3>2 DEF ScanInv, StagingForm, OnlyNewestSpeaks, Newest, Numbers, ScanTyped
    <3>7. Flow(onDisk, Newest, staging.records, cursors, gui.roots)
      BY <2>2, <3>4, <3>5, <3>6 DEF ScanInv, StagingForm
    <3>8. Newest.todo = {}
      BY <2>2, <3>6 DEF ScanInv, StagingForm, OnlyNewestSpeaks, Newest, Numbers, ScanTyped
    <3>9. building' = adopted
      BY <1>1, <2>2
    <3> HIDE DEF adopted
    <3> QED BY <1>4, <3>7, <3>8, <3>9 DEF Flow, IndexSound
  <2> QED BY <2>1, <2>2
<1>6. building' \in Adopted \cup {NoIndex} /\ cursors' \in SUBSET ScanCursors
  BY <1>1, <1>2, <1>4 DEF ScanInv, ScanTyped
<1>7. resuming' \in BOOLEAN /\ ServiceForm'
  BY <1>1, <1>3 DEF ScanInv, ScanTyped, Resume, ServiceForm
<1> HIDE DEF done, settled, adopted, adopt, clean
<1> QED BY <1>1, <1>3, <1>5, <1>6, <1>7, TakenUnstaged

\* An emptied index has no roots to be sound for.
LEMMA RebuildEmptyInv ==
  ASSUME ScanInv, RebuildEmpty
  PROVE  ScanInv'
<1> DEFINE empty == [none |-> FALSE, records |-> {}, cursors |-> cursors, roots |-> {}]
<1>1. /\ gui.dirty /\ ~gui.scanning /\ ~staging.open /\ building = NoIndex /\ gui \in ScanStates
      /\ UNCHANGED <<onDisk, helpers, channel, staging, compact, watcher, resuming>>
  BY DEF RebuildEmpty, ScanInv, ScanTyped, StagingForm
<1>2. CASE building' = empty /\ cursors' = {} /\ UNCHANGED gui
  <2>1. empty \in Adopted /\ empty.roots = {} /\ empty.none = FALSE /\ NoIndex.none = TRUE
    BY DEF ScanInv, ScanTyped, Adopted, NoIndex
  <2> HIDE DEF empty
  <2>2. ScanTyped'
    BY <1>1, <1>2, <2>1 DEF ScanInv, ScanTyped
  <2>3. StagingForm'
    BY <1>1, <1>2, <2>2, NothingStaged
  <2>4. IndexSound(onDisk, building)' /\ building' # NoIndex
    BY <1>2, <2>1 DEF IndexSound
  <2> QED
    BY <1>1, <1>2, <2>2, <2>3, <2>4
    DEF ScanInv, HasNewest, IndexSound, ServiceForm, OnlyNewestSpeaks, Numbers
<1>3. CASE gui' = [gui EXCEPT !.dirty = FALSE] /\ UNCHANGED <<building, cursors>>
  <2>1. gui' \in ScanStates /\ gui'.scanning = gui.scanning
    BY <1>1, <1>3 DEF ScanStates
  <2>2. ScanTyped'
    BY <1>1, <1>3, <2>1 DEF ScanInv, ScanTyped
  <2>3. StagingForm'
    BY <1>1, <2>1, <2>2, NothingStaged
  <2> QED
    BY <1>1, <1>3, <2>1, <2>2, <2>3
    DEF ScanInv, HasNewest, IndexSound, ServiceForm, OnlyNewestSpeaks, Numbers
<1> QED BY <1>2, <1>3 DEF RebuildEmpty

\* What was built is adopted as it is, or not at all.
LEMMA TakeBuiltInv ==
  ASSUME ScanInv, TakeBuilt
  PROVE  ScanInv'
<1>1. /\ building # NoIndex /\ compact' \in {building, compact} /\ gui' = [gui EXCEPT !.dirty = FALSE]
      /\ building' = NoIndex /\ Resume(gui, NoIndex, compact') /\ gui \in ScanStates
      /\ UNCHANGED <<onDisk, helpers, watcher, channel, staging, cursors>>
  BY DEF TakeBuilt, Outside, ScanInv, ScanTyped
<1>2. gui' \in ScanStates /\ gui'.scanning = gui.scanning /\ ~gui'.dirty
      /\ gui'.cancelling = gui.cancelling /\ gui'.failed = gui.failed /\ gui'.roots = gui.roots
  BY <1>1 DEF ScanStates
<1>3. resuming' \in BOOLEAN /\ ServiceForm'
  BY <1>1, <1>2 DEF Resume, ServiceForm, ScanInv, ScanTyped
<1>4. ScanTyped'
  BY <1>1, <1>2, <1>3 DEF ScanInv, ScanTyped
<1>5. IndexSound(onDisk, building)' /\ IndexSound(onDisk, compact)'
  BY <1>1 DEF ScanInv, IndexSound
<1>6. StagingForm'
  BY <1>1, <1>2 DEF ScanInv, StagingForm, AllRecords, AllCursors, Newest
<1>7. OnlyNewestSpeaks' /\ HasNewest'
  BY <1>1, <1>2 DEF ScanInv, OnlyNewestSpeaks, HasNewest, Numbers
<1> QED BY <1>3, <1>4, <1>5, <1>6, <1>7 DEF ScanInv

\* The service starts.
LEMMA StartServiceInv ==
  ASSUME ScanInv, StartService \/ UNCHANGED fullScanVars
  PROVE  ScanInv'
<1>1. /\ UNCHANGED <<onDisk, helpers, channel, gui, staging, cursors, building, compact>>
      /\ watcher' \in BOOLEAN /\ resuming' \in BOOLEAN
      /\ resuming' \/ watcher' \/ (~resuming /\ ~watcher)
  BY DEF StartService, userVars, buildVars, fullScanVars, ScanInv, ScanTyped
<1>2. ScanTyped' /\ ServiceForm'
  BY <1>1 DEF ScanInv, ScanTyped, ServiceForm
<1>3. StagingForm'
  BY <1>1 DEF ScanInv, StagingForm, AllRecords, AllCursors, Newest
<1> QED
  BY <1>1, <1>2, <1>3 DEF ScanInv, OnlyNewestSpeaks, HasNewest, IndexSound, Numbers
-----------------------------------------------------------------------------
(* The theorem. *)

\* An index of an earlier run is sound.
LEMMA ScanInitInv ==
  ASSUME ScanAssumption, ScanInit
  PROVE  ScanInv
<1>1. /\ onDisk = [e \in Entries |-> 0] /\ helpers = <<>> /\ channel = <<>> /\ cursors = {}
      /\ staging = NotStaged /\ building = NoIndex /\ compact \in {NoIndex, OldIndex}
      /\ watcher \in BOOLEAN
      /\ resuming = (compact # NoIndex)
      /\ gui = [scanning |-> FALSE, cancelling |-> FALSE, failed |-> FALSE, roots |-> {}, dirty |-> FALSE]
  BY DEF ScanInit
<1>2. OldIndex \in Adopted
  BY DEF OldIndex, Adopted, ScanRecords, ScanCursors
<1>3. gui \in ScanStates /\ ~gui.scanning /\ ~gui.dirty
  BY <1>1 DEF ScanStates
<1>4. staging \in Spills /\ ~staging.open
  BY <1>1 DEF NotStaged, Spills
<1>5. ScanTyped
  BY <1>1, <1>2, <1>3, <1>4 DEF ScanTyped
<1>6. HasNewest
  BY <1>1 DEF HasNewest, ScanAssumption
<1>7. OnlyNewestSpeaks
  BY <1>1, <1>3 DEF OnlyNewestSpeaks, Numbers
<1>8. StagingForm
  BY <1>3, <1>4 DEF StagingForm
<1>9. \A m \in Mounts : Sound(onDisk, OldIndex.records, OldIndex.cursors, m, On(m))
  <2> TAKE m \in Mounts
  <2>1. PICK c \in OldIndex.cursors : c.mount = m /\ c.since = 0
    <3>1. [mount |-> m, since |-> 0] \in OldIndex.cursors
      BY DEF OldIndex
    <3> QED BY <3>1
  <2>2. \A e \in Entries : [entry |-> e, at |-> 0] \in OldIndex.records
    BY DEF OldIndex
  <2>3. \A r \in OldIndex.records : r.at = 0
    BY DEF OldIndex
  <2>4. \E f \in Entries : c.since <= onDisk[f]
    BY <1>1, <2>1 DEF ScanAssumption
  <2>5. \A e \in On(m) : e \in Entries /\ onDisk[e] = 0
    BY <1>1 DEF On
  <2>6. \A e \in On(m) : \E r \in OldIndex.records : r.entry = e
    BY <2>2, <2>5
  <2> QED BY <2>1, <2>3, <2>4, <2>5, <2>6 DEF Sound
<1>10. IndexSound(onDisk, building) /\ IndexSound(onDisk, compact)
  <2>1. OldIndex.roots = Mounts
    BY DEF OldIndex
  <2> QED BY <1>1, <1>9, <2>1 DEF IndexSound
<1>11. ServiceForm
  BY <1>1 DEF ServiceForm
<1> QED BY <1>5, <1>6, <1>7, <1>8, <1>10, <1>11 DEF ScanInv

\* Every step keeps the invariant.
LEMMA ScanStep ==
  ASSUME ScanAssumption, AwaitHelper = TRUE, ScanInv, [ScanNext]_fullScanVars
  PROVE  ScanInv'
<1>1. ASSUME NEW n \in Numbers, Refuse(n) \/ Die(n) PROVE ScanInv'
  <2>1. /\ helpers[n].is # "over" /\ Alone /\ watcher' = watcher
        /\ helpers' = [helpers EXCEPT ![n].is = "failed"]
        /\ channel' = channel \/ channel' = Append(channel, [kind |-> "refused"])
    BY <1>1 DEF Refuse, Die, Say, SayNothing
  <2> QED BY <2>1, FailedInv
<1> QED
  BY <1>1, ChangeEntryInv, BeginScanInv, CancelScanInv, LaunchInv, OpenLaneInv, ReadEntryInv, CloseLaneInv,
     FinishScanInv, ConcludeInv, TakeCursorInv, TakeRecordsInv, TakeLaneErrorInv, TakeRefusalInv,
     TakeCompletionInv, RebuildEmptyInv, TakeBuiltInv, StartServiceInv
  DEF ScanNext

(* Whatever the helper, the transport, the user and the spill do, and        *)
(* whenever they fail, an index that is adopted holds every entry of its     *)
(* roots with cursors that catch up the rest, and live updates are on again  *)
(* when all is over; for a user who starts no scan before the last helper is *)
(* gone, as a cancelled helper's messages are taken for the next one's.      *)
THEOREM ScanSoundHolds ==
  ASSUME AwaitHelper = TRUE
  PROVE  ScanSpec => []ScanSound
<1>1. ScanInv => ScanSound
  <2> SUFFICES ASSUME ScanInv PROVE ScanSound
    OBVIOUS
  <2>1. PublishedIsWhole
    <3>1. compact # NoIndex =>
            \A m \in compact.roots : Sound(onDisk, compact.records, compact.cursors, m, On(m))
      BY DEF ScanInv, IndexSound
    <3> QED BY <3>1 DEF PublishedIsWhole, Sound
  <2>2. ServiceComesBack
    BY DEF ScanInv, ServiceForm, ServiceComesBack, Resting
  <2> QED BY <2>1, <2>2 DEF ScanSound
<1>2. ScanInv /\ [ScanNext]_fullScanVars => ScanInv'
  BY ScanStep, ScanAssumption
<1>3. ScanInit => ScanInv
  BY ScanInitInv, ScanAssumption
<1> QED BY <1>1, <1>2, <1>3, PTL DEF ScanSpec
=============================================================================
