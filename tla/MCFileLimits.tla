---------------------------- MODULE MCFileLimits ----------------------------
(***************************************************************************)
(* Instances of FileLimits for TLC: caps of a few lines of base64, so that *)
(* sizes at, one below and one above each of them occur, and the wrapped   *)
(* text of a file at the cap ends in a full line and in part of one.       *)
(***************************************************************************)
EXTENDS FileLimits
=============================================================================
