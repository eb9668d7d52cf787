----------------------------- MODULE BotPromise -----------------------------
(***************************************************************************)
(* What the chatbot is promised when it sells, without slots, locks, steps *)
(* and failures: an order, by which route and under which key ever, is     *)
(* sold in one step, with its quote and its customer, or not at all; a key *)
(* sells once on its route, a quote once on either; and whoever is         *)
(* answered is told of the sale of what he asked for.                      *)
(***************************************************************************)
EXTENDS Naturals

CONSTANTS Orders, NoQuote

VARIABLES
  customers,  \* that have the phone
  strangers,  \* somebody else than a checkout added one
  sales,      \* orders that were sold
  spent,      \* quotes of theirs
  told        \* what was asked for and what was answered

vars == <<customers, strangers, sales, spent, told>>

Init ==
  /\ customers \in {0, 1} /\ strangers = FALSE
  /\ sales = {} /\ spent = {} /\ told = {}

Says(order) == told' = told \cup {[asked |-> order, got |-> order]}

(* A customer is created where the phone has none, or had one too many.    *)
Knows(order) ==
  \/ UNCHANGED customers
  \/ /\ order.via = "checkout" /\ (customers = 0 \/ strangers)
     /\ customers' = customers + 1

Sell(order) ==
  /\ \A sale \in sales : sale.via = order.via => sale.key # order.key
  /\ order.cart.quote \notin spent
  /\ sales' = sales \cup {order}
  /\ spent' = spent \cup ({order.cart.quote} \ {NoQuote})
  /\ Knows(order)
  /\ UNCHANGED told \/ Says(order)
  /\ UNCHANGED strangers

Answer(order) ==
  /\ order \in sales /\ Says(order)
  /\ UNCHANGED <<customers, strangers, sales, spent>>

Stranger ==
  /\ customers' = customers + 1 /\ strangers' = TRUE
  /\ UNCHANGED <<sales, spent, told>>

Next == Stranger \/ \E order \in Orders : Sell(order) \/ Answer(order)

Spec == Init /\ [][Next]_vars
=============================================================================
