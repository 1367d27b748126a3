--------------------------- MODULE MCSiteContract ---------------------------
(***************************************************************************)
(* Instances of SiteContract for TLC: the paths of MCSiteStore.            *)
(***************************************************************************)
EXTENDS SiteContract, MCSiteStore
=============================================================================
