--------------------------- MODULE MCMessageFile ----------------------------
(***************************************************************************)
(* MessageFile for TLC.  Two texts tell one edit from another.             *)
(***************************************************************************)
EXTENDS MessageFile
=============================================================================
