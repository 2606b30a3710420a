--------------------------- MODULE MCSpecialistGraph ---------------------------
(***************************************************************************)
(* Instances of SpecialistGraph for TLC.                                   *)
(***************************************************************************)
EXTENDS SpecialistGraph

TwoRepos == {"a", "b"}
=============================================================================
