---------------------------- MODULE SiteContract ----------------------------
(***************************************************************************)
(* The backend's store of a site implements the contract of SiteTree: the  *)
(* lock, the staging area, the removals in threads and the index make each *)
(* request one atomic change of the tree, decided by the same rules.       *)
(***************************************************************************)
EXTENDS SiteStore

\* A site exists from the moment its folder is made, so that its creation can
\* no longer be refused, until its folder is parked.
SiteSeen ==
    IF \E r \in Requests : pc[r] = "parked" THEN 0
    ELSE IF \E r \in Requests : pc[r] = "made"
    THEN req[CHOOSE r \in Requests : pc[r] = "made"].site
    ELSE row

\* What a recursive deletion under way is removing is gone.
Hidden(p) == \E r \in Requests : pc[r] = "removing" /\ req[r].path \in Ancestors[p] \cup {p}

TreeSeen ==
    [files   |-> [p \in Paths |-> IF Hidden(p) THEN 0 ELSE tree[p].ver],
     folders |-> {p \in Paths : tree[p].kind = "folder" /\ ~Hidden(p)}]

\* A request has taken effect once its change of the volume is made or begun.
Effected == {r \in Requests : pc[r] \in MidSection \cup {"removing", "purging"}}

Contract == INSTANCE SiteTree WITH site <- SiteSeen, tree <- TreeSeen, calls <- req, done <- Effected

\* With no faults, uploads, deletions, creations and deletions of the site
\* that overlap in any way leave exactly the trees, and have exactly the
\* outcomes, that some order of atomic requests has under the rules of the
\* contract: storage.py's locks, staging and threads do not show.
ImplementsContract == Contract!Spec
=============================================================================
