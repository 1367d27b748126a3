------------------------------ MODULE MCNaming ------------------------------
(***************************************************************************)
(* Instances of Naming for TLC: limits of a few characters, which texts of *)
(* five or six pass.                                                       *)
(***************************************************************************)
EXTENDS Naming
=============================================================================
