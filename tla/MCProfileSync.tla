----------------------------- MODULE MCProfileSync -----------------------------
(* Instances of ProfileSync for TLC.                                          *)
EXTENDS ProfileSync, TLC

=============================================================================
