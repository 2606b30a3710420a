------------------------------ MODULE MCHandoff ------------------------------
(***************************************************************************)
(* Small instances of Handoff.  The trigger consumer subscribes to a topic *)
(* pattern, so it may own two partitions; the decision consumer owns one.  *)
(***************************************************************************)
EXTENDS Handoff

CONSTANTS triggers, decisions,  \* the two poll loops
          t1, t2, d1            \* the partitions

MCPollers == {triggers, decisions}
MCOnly    == {triggers}
MCOwner   == [tp \in Partitions |-> IF tp = d1 THEN decisions ELSE triggers]

\* The second trigger is malformed.
MCPoison == {<<t1, 1>>} \cap Messages
=============================================================================
