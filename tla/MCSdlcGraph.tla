------------------------------ MODULE MCSdlcGraph ------------------------------
(***************************************************************************)
(* Instances of SdlcGraph for TLC.                                         *)
(***************************************************************************)
EXTENDS SdlcGraph

\* A new file and one that the target's .gitignore covers.
NewFiles == {"new", "cache"}
IgnoredFiles == {"cache"}

\* A file of the clone and a new one.
ClonedFiles == {"app", "new"}
TrackedFiles == {"app"}
=============================================================================
