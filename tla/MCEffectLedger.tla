--------------------------- MODULE MCEffectLedger ---------------------------
(* Instantiates EffectLedger for TLC. *)
EXTENDS EffectLedger
=============================================================================
