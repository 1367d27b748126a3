---------------------------- MODULE MCUploadPage ----------------------------
(***************************************************************************)
(* Instances of UploadPage for TLC.                                        *)
(***************************************************************************)
EXTENDS UploadPage

CONSTANT k1

\* An upload of up to two files, and one of a file that overlaps it.
Picked == [b \in Batches |-> IF b = k1 THEN 2 ELSE 1]
=============================================================================
