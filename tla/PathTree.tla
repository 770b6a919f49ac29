------------------------------ MODULE PathTree ------------------------------
(***************************************************************************)
(* The absolute paths an index is about, as the code sees them: strings    *)
(* ordered byte by byte, and the relation "is a folder above".  The two    *)
(* are independent: "/a.b" sorts between "/a" and "/a/x" although it is    *)
(* not below "/a".                                                         *)
(***************************************************************************)
EXTENDS Integers, FiniteSets

CONSTANTS
  Paths,   \* the paths
  Above,   \* for each path, the paths of the folders strictly above it
  Rank     \* the place of each path in byte order

PathsAreATree ==
  /\ Above \in [Paths -> SUBSET Paths]
  /\ \A p \in Paths : p \notin Above[p]
  /\ \A p \in Paths : \A q \in Above[p] : Above[q] \subseteq Above[p]

ASSUME PathsAssumption == PathsAreATree

\* The path itself and every folder above it.
Ancestors(p) == {p} \cup Above[p]

AtOrBelow(root) == {p \in Paths : root \in Ancestors(p)}

\* The folder a path is listed in: the nearest one above it.
IsParent(q, p) == /\ q \in Above[p]
                  /\ \A r \in Above[p] : r \in Ancestors(q)

ChildrenOf(q) == {p \in Paths : IsParent(q, p)}

Sorts(p, q) == Rank[p] < Rank[q]
=============================================================================
