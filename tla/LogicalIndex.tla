---------------------------- MODULE LogicalIndex ----------------------------
(***************************************************************************)
(* What a durable index promises to the writers of changes, with no files:  *)
(* the changes 1..kept are the ones an open would serve, and the changes    *)
(* 1..acked are the ones whose writer was told so.  A change is kept before *)
(* it is acknowledged, only a crash takes changes back, and it never takes  *)
(* an acknowledged one.                                                     *)
(***************************************************************************)
EXTENDS Naturals

CONSTANT MaxChange  \* bound: number of changes ever written

VARIABLES kept, acked, open

vars == <<kept, acked, open>>

Init == kept \in 0 .. MaxChange /\ acked = kept /\ open = FALSE

Write ==
  /\ open /\ kept < MaxChange
  /\ kept' = kept + 1
  /\ UNCHANGED <<acked, open>>

Acknowledge ==
  /\ open
  /\ acked' = kept
  /\ UNCHANGED <<kept, open>>

Open ==
  /\ ~open /\ open' = TRUE
  /\ UNCHANGED <<kept, acked>>

Crash ==
  /\ open /\ open' = FALSE
  /\ kept' \in acked .. kept
  /\ UNCHANGED acked

Next == Write \/ Acknowledge \/ Open \/ Crash

Spec == Init /\ [][Next]_vars
=============================================================================
