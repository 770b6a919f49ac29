---------------------------- MODULE ChangeTables ----------------------------
(***************************************************************************)
(* What one change means for an index, and the tables a sequence of        *)
(* changes is resolved into: one row for each path something was said      *)
(* about, and the removed folders as prefixes.                             *)
(***************************************************************************)
EXTENDS PathTree

CONSTANT Records   \* what an upsert can say of a path

Nothing == "nothing"   \* no record: never there, or removed
Unsaid  == "unsaid"    \* the changes table has no row for the path

Indexes == [Paths -> Records \cup {Nothing}]

Changes == [kind : {"upsert"}, path : Paths, record : Records]
             \cup [kind : {"remove", "prefix"}, path : Paths]

ASSUME RecordsAssumption == Nothing \notin Records /\ Unsaid \notin Records

NoRows == [p \in Paths |-> Unsaid]
(* The abstract meaning of one change. *)
Effect(index, c) ==
  [p \in Paths |->
     IF c.kind = "upsert" /\ p = c.path THEN c.record
     ELSE IF \/ c.kind = "remove" /\ p = c.path
             \/ c.kind = "prefix" /\ p \in AtOrBelow(c.path)
          THEN Nothing ELSE index[p]]

(* What the resolved tables do with it: apply_one and prefixes::apply. *)
RemoveFolder(o, root) ==
  LET kept == o.prefixes \ AtOrBelow(root) IN
  [o EXCEPT !.rows = [p \in Paths |-> IF p \in AtOrBelow(root) THEN Unsaid
                                                            ELSE o.rows[p]],
            !.prefixes = IF Ancestors(root) \cap kept # {} THEN kept
                                                          ELSE kept \cup {root}]

ApplyOne(o, c) ==
  IF c.kind = "prefix" THEN RemoveFolder(o, c.path)
  ELSE [o EXCEPT !.rows[c.path] = IF c.kind = "upsert" THEN c.record ELSE Nothing]

(* How the tables are read. *)
Covered(o, p) == Ancestors(p) \cap o.prefixes # {}
IsRemoved(o, p) == IF o.rows[p] # Unsaid THEN o.rows[p] = Nothing ELSE Covered(o, p)
Shadows(o, p) == o.rows[p] # Unsaid \/ Covered(o, p)

\* A reader lists a base record unless it is shadowed, and every live row.
Seen(b, o) ==
  [p \in Paths |-> IF Shadows(o, p)
                   THEN IF IsRemoved(o, p) THEN Nothing ELSE o.rows[p]
                   ELSE b[p]]
=============================================================================
