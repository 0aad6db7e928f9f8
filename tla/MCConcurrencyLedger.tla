------------------------- MODULE MCConcurrencyLedger -------------------------
(* Instances of ConcurrencyLedger for TLC. *)
EXTENDS ConcurrencyLedger
=============================================================================
