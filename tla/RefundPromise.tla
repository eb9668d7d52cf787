---------------------------- MODULE RefundPromise ----------------------------
(***************************************************************************)
(* What the settlement of a refund promises to the customer and to the     *)
(* books, without handlers, slots, leases and tokens: a key is worth one   *)
(* payment, which fits what is still owed; its receipt says what was paid  *)
(* by then and is never written again; and whoever is answered under a key *)
(* is told its receipt.                                                    *)
(***************************************************************************)
EXTENDS Naturals

CONSTANT Keys  \* request keys

VARIABLES
  owed,      \* what the refund is of
  paid,      \* what was paid of it
  receipts,  \* of the keys that paid
  told       \* answers given

vars == <<owed, paid, receipts, told>>

Init ==
  /\ owed \in Nat \ {0}
  /\ paid = 0
  /\ receipts = [k \in {} |-> 0]
  /\ told = {}

Receipt(cents) ==
  [amount |-> cents, settled |-> paid + cents, outstanding |-> owed - (paid + cents)]

Tell(key, receipt) == told' = told \cup {[key |-> key, response |-> receipt]}

(* The answer may be lost on its way.                                      *)
Pay(key, cents) ==
  /\ key \notin DOMAIN receipts
  /\ paid + cents <= owed
  /\ paid' = paid + cents
  /\ receipts' = [k \in DOMAIN receipts \cup {key} |->
                    IF k = key THEN Receipt(cents) ELSE receipts[k]]
  /\ UNCHANGED told \/ Tell(key, Receipt(cents))
  /\ UNCHANGED owed

Repeat(key) ==
  /\ key \in DOMAIN receipts
  /\ Tell(key, receipts[key])
  /\ UNCHANGED <<owed, paid, receipts>>

Next == \E key \in Keys : Repeat(key) \/ \E cents \in 1..owed : Pay(key, cents)

Spec == Init /\ [][Next]_vars
=============================================================================
