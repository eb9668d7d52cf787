------------------------------ MODULE MCStock -------------------------------
(* Stock on its own for TLC.                                                *)
EXTENDS Stock

CONSTANTS s1, a1
=============================================================================
