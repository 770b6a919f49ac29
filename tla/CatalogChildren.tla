--------------------------- MODULE CatalogChildren ---------------------------
(***************************************************************************)
(* How the catalog lists the children of a folder: it walks the paths below *)
(* the folder in order, in the pinned rows and in the live entries at once, *)
(* and jumps over what is below each child.                                *)
(***************************************************************************)
EXTENDS CatalogRows

NextLive(t, i) == Min({j \in i .. Len(PinnedRows) + 1 : j \notin Ids \/ ~ContainsId(t, j)})

(* directory_children: records in path order, jumping over each child's      *)
(* subtree; a child that has no record yet is made up from what is below it. *)
ChildTowards(q, p) == CHOOSE r \in Ancestors(p) : IsParent(q, r)

(* Mutant: a live entry is looked for only when no base row is left. *)
FirstFromBase(c, t, from, S) ==
  LET ids == {i \in IdsOf(S) : Rank[PinnedRows[i].path] >= from}
      base == IF ids = {} THEN {} ELSE {PinnedRows[i].path : i \in {NextLive(t, Min(ids))} \cap IdsOf(S)}
      live == {p \in S : Rank[p] >= from /\ c.entries[p] # Nothing}
      found == IF base # {} THEN base ELSE live
  IN IF found = {} THEN {} ELSE {CHOOSE p \in found : \A r \in found : Rank[p] <= Rank[r]}

\* The first record in path order at or after a cursor that has a path in S.
FirstFrom(c, t, from, S) ==
  LET ids == {i \in IdsOf(S) : Rank[PinnedRows[i].path] >= from}
      base == IF ids = {} THEN {} ELSE {PinnedRows[i].path : i \in {NextLive(t, Min(ids))} \cap IdsOf(S)}
      live == {p \in S : Rank[p] >= from /\ c.entries[p] # Nothing}
      found == base \cup live
  IN IF found = {} THEN {} ELSE {CHOOSE p \in found : \A r \in found : Rank[p] <= Rank[r]}

RECURSIVE ChildrenFrom(_, _, _, _, _)
ChildrenFrom(c, t, q, from, out) ==
  LET first == FirstFrom(c, t, from, Below(q)) IN
  IF first = {} THEN out
  ELSE LET p == CHOOSE p \in first : TRUE
           child == ChildTowards(q, p)
       IN IF p = child
          THEN ChildrenFrom(c, t, q, Rank[p] + 1, Append(out, [path |-> p, real |-> TRUE]))
          ELSE ChildrenFrom(c, t, q, 1 + Max({Rank[r] : r \in Below(child)}),
                        IF out # <<>> /\ Last(out).path = child THEN out
                        ELSE Append(out, [path |-> child, real |-> FALSE]))

DirectoryChildren(c, q) == ChildrenFrom(c, TombstonesFor(c), q, 0, <<>>)
-----------------------------------------------------------------------------
\* Every child of a folder is listed, as a record when it has one, and nothing
\* else is, although whole subtrees are jumped over.
ListingComplete ==
  \A q \in Paths :
    LET listed == Range(DirectoryChildren(catalog, q))
        Exists(p) == FindRecord(catalog, p) # Nothing
    IN /\ {l.path : l \in listed} = {p \in ChildrenOf(q) : \E r \in AtOrBelow(p) : Exists(r)}
       /\ {l.path : l \in {l \in listed : l.real}} = {p \in ChildrenOf(q) : Exists(p)}

\* No child is listed twice ("Read direct children through path keys, jumping
\* past each child's subtree", BrowserIndex::directory_children).
ListedOnce ==
  \A q \in Paths : LET l == DirectoryChildren(catalog, q) IN
    \A i, j \in DOMAIN l : l[i].path = l[j].path => i = j
==============================================================================
