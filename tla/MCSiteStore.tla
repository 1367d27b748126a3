---------------------------- MODULE MCSiteStore ----------------------------
(***************************************************************************)
(* Instances of SiteStore for TLC.                                         *)
(***************************************************************************)
EXTENDS SiteStore, TLC

\* Each of "a" and "a/b" may be a file or a folder.
TwoPaths == {"a", "a/b"}
ThreePaths == {"a", "a/b", "a/b/c"}
PathsAncestors ==
    [p \in Paths |-> CASE p = "a" -> {} [] p = "a/b" -> {"a"} [] p = "a/b/c" -> {"a", "a/b"}]

Symmetric == Permutations(Requests) \cup Permutations(Listers)
============================================================================
