----------------------------- MODULE MCRecreate -----------------------------
(***************************************************************************)
(* Recreate for TLC.                                                       *)
(***************************************************************************)
EXTENDS Recreate
=============================================================================
