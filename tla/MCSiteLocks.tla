---------------------------- MODULE MCSiteLocks ----------------------------
(***************************************************************************)
(* Instances of SiteLocks for TLC.                                         *)
(***************************************************************************)
EXTENDS SiteLocks, TLC

Symmetric == Permutations(Tasks) \cup Permutations(Locks) \cup Permutations(Slugs)
============================================================================
