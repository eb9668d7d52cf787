----------------------------- MODULE MCAfterSale -----------------------------
(* What goes on after a sale, for TLC: refunds (RefundSettlement), and the *)
(* uploads and the purge of receipts (Receipts, whose reviews are checked  *)
(* with MCOffers).  They share nothing, so that interleaving them would    *)
(* show nothing: the run checks each beside the other at rest.             *)
EXTENDS RefundSettlement, Receipts

CONSTANTS p1, p2, k1, k2, t1, t2, t3, t4, u1, u2, m1

VARIABLE running  \* the component that runs

afterSaleVars == <<running, vars, receiptVars>>

(* Parts of a refund of three: one of each fits, not two of the larger.    *)
SomeBodies == { [amount |-> 2, bound |-> FALSE], [amount |-> 1, bound |-> TRUE] }

AfterSaleInit == running \in {"refund", "purge"} /\ Init /\ ReceiptsInit

AfterSaleNext ==
  /\ \/ running = "refund" /\ Next /\ UNCHANGED receiptVars
     \/ running = "purge" /\ ReceiptsNext /\ UNCHANGED <<vars, saleVars, review>>
  /\ UNCHANGED running

AfterSaleSpec ==
  /\ AfterSaleInit /\ [][AfterSaleNext]_afterSaleVars
  /\ Fairness /\ WF_receiptVars(running = "purge" /\ PurgeStep)
=============================================================================
