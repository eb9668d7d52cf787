----------------------------- MODULE MCReceipts -----------------------------
(* Receipts for TLC: two uploads of one file under one key.  The database  *)
(* may lose the answer to a commit.                                        *)
EXTENDS Receipts

CONSTANTS u1, u2, k1, m1, c1
=============================================================================
