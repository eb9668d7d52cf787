---------------------------- MODULE SalePromise ----------------------------
(***************************************************************************)
(* What a sale promises to its customer and to the books, without handlers,*)
(* locks or tables: a request is one indivisible step, a request key is    *)
(* worth one step, money comes in only while something is owed, goods go   *)
(* out once, and a cancellation gives back all of the goods and all of the *)
(* money that was not change.  Nothing is promised of a sale once somebody *)
(* has taken back what another request decided.                            *)
(***************************************************************************)
EXTENDS Naturals

CONSTANTS Keys,       \* request keys
          CancelKey   \* the key every cancellation of the sale carries

VARIABLES
  status,    \* "none", "open", "agreed", "undone" or "gone"
  price,     \* what the customer is to pay
  received,  \* money handed over, change included
  returned,  \* money given back by the cancellation
  goods,     \* units of merchandise that are out of the shop
  used,      \* keys that had their effect
  void       \* a decision was taken back: nothing is promised any more

vars == <<status, price, received, returned, goods, used, void>>

Init ==
  /\ status = "none"
  /\ price = 0
  /\ received = 0
  /\ returned = 0
  /\ goods = 0
  /\ used = {}
  /\ void = FALSE

Open ==
  /\ status = "none"
  /\ status' = "open"
  /\ UNCHANGED <<price, received, returned, goods, used>>

Discard ==
  /\ status = "open"
  /\ status' = "gone"
  /\ UNCHANGED <<price, received, returned, goods, used>>

(* Agreed on credit and without a key of the customer.                     *)
Order ==
  /\ status = "none"
  /\ status' = "agreed"
  /\ price' \in Nat
  /\ goods' = price'
  /\ UNCHANGED <<received, returned, used>>

Agree(key) ==
  /\ status = "open"
  /\ key \notin used
  /\ status' = "agreed"
  /\ price' \in Nat
  /\ goods' = price'
  /\ received' \in Nat
  /\ used' = used \cup {key}
  /\ UNCHANGED returned

Pay(key) ==
  /\ status = "agreed"
  /\ key \notin used
  /\ received' \in Nat
  /\ received' > received
  /\ received' <= price
  /\ used' = used \cup {key}
  /\ UNCHANGED <<status, price, returned, goods>>

Undo ==
  /\ status = "agreed"
  /\ CancelKey \notin used
  /\ status' = "undone"
  /\ returned' = IF received <= price THEN received ELSE price
  /\ goods' = 0
  /\ used' = used \cup {CancelKey}
  /\ UNCHANGED <<price, received>>

Request ==
  \/ Open
  \/ Discard
  \/ Order
  \/ \E key \in Keys : Agree(key) \/ Pay(key)
  \/ Undo

(* The promise holds until it is void.                                     *)
Next ==
  \/ Request /\ UNCHANGED void
  \/ void'

Spec == Init /\ [][Next]_vars
=============================================================================
