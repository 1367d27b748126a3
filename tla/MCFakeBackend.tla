--------------------------- MODULE MCFakeBackend ---------------------------
(***************************************************************************)
(* Instances of FakeBackend for TLC.                                       *)
(***************************************************************************)
EXTENDS FakeBackend

\* A chain of three, each a file or a folder.
ThreePaths == {"a", "a/b", "a/b/c"}
TwoPaths == {"a", "a/b"}
PathsAncestors ==
    [p \in Paths |-> CASE p = "a" -> {} [] p = "a/b" -> {"a"} [] p = "a/b/c" -> {"a", "a/b"}]
=============================================================================
