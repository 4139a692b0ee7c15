----------------------------- MODULE MCCooldown -----------------------------
(* TLC's instance of Cooldown: ids are model values, the clock is bounded. *)
EXTENDS Cooldown, TLC
=============================================================================
