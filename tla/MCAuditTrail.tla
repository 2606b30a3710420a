----------------------------- MODULE MCAuditTrail -----------------------------
(***************************************************************************)
(* Instances of AuditTrail for TLC.  The runs are alike.                   *)
(***************************************************************************)
EXTENDS AuditTrail, TLC

CONSTANTS r1, r2

TwoRuns == {r1, r2}

RunSymmetry == Permutations(Runs)
=============================================================================
