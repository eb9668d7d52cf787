--------------------------- MODULE PurchasePromise ---------------------------
(***************************************************************************)
(* What commands on purchase orders and suppliers promise, without         *)
(* transactions, locks, versions that are compared, tokens and failures:   *)
(* each takes effect in one step, on what orders, suppliers and the        *)
(* product are in this step, once under its key, or not at all; and an     *)
(* order is confirmed as it is, which is as its buyer saw it.              *)
(***************************************************************************)
EXTENDS Naturals

CONSTANTS Orders, Suppliers, Looks, Lines, CommandKeys, MaxVersion, Collection, NoOne

VARIABLES
  orders,
  suppliers,
  fits,     \* the product is sold in the unit that lines name
  effects   \* that commands had

vars == <<orders, suppliers, fits, effects>>

NoOrder == [status |-> "NONE", version |-> 0, supplier |-> NoOne, lines |-> "short",
            agreed |-> NoOne]
NoSupplier == [version |-> 0, look |-> NoOne]

Effect(key, op, on, version, what, object) ==
  [key |-> key, request |-> [op |-> op, on |-> on, version |-> version, what |-> what],
   object |-> object, version |-> version + 1]

Init ==
  /\ orders = [o \in Orders |-> NoOrder]
  /\ suppliers \in [Suppliers -> {NoSupplier} \cup [version : {1}, look : Looks]]
  /\ fits = TRUE
  /\ effects = {Effect(NoOne, "ADD", Collection, 0, suppliers[s].look, s) :
                  s \in {i \in Suppliers : suppliers[i] # NoSupplier}}

Does(key, op, on, version, what, object) ==
  /\ ~\E e \in effects : e.key = key /\ e.request.op = op /\ e.request.on = on
  /\ version < MaxVersion
  /\ effects' = effects \cup {Effect(key, op, on, version, what, object)}

Active(s) == suppliers[s].look # NoOne /\ suppliers[s].look.status = "ACTIVE"
Exists(o) == orders[o].status \in {"DRAFT", "CONFIRMED", "CANCELLED"}

Becomes(o, status, content, agreed) ==
  /\ orders' = [orders EXCEPT ![o] =
       [status |-> status, version |-> @.version + 1,
        supplier |-> content.supplier, lines |-> content.lines, agreed |-> agreed]]
  /\ UNCHANGED <<suppliers, fits>>

Create(key, o, content) ==
  /\ orders[o] = NoOrder
  /\ content.supplier = NoOne \/ Active(content.supplier)
  /\ content.lines = "short" \/ fits
  /\ Becomes(o, "DRAFT", content, orders[o].agreed)
  /\ Does(key, "CREATE", Collection, 0, content, o)

(* What is on an order may stay there, although it could not be taken now. *)
Replace(key, o, content) ==
  /\ orders[o].status = "DRAFT"
  /\ content.supplier \in {NoOne, orders[o].supplier} \/ Active(content.supplier)
  /\ content.lines \in {"short", orders[o].lines} \/ fits
  /\ Becomes(o, "DRAFT", content, orders[o].agreed)
  /\ Does(key, "REPLACE", o, orders[o].version, content, o)

Seen(o) ==
  [supplier |-> orders[o].supplier, lines |-> orders[o].lines, fits |-> fits,
   from |-> suppliers[orders[o].supplier]]

Confirm(key, o) ==
  /\ orders[o].status = "DRAFT"
  /\ orders[o].supplier # NoOne /\ Active(orders[o].supplier)
  /\ orders[o].lines = "whole" /\ fits
  /\ Becomes(o, "CONFIRMED", orders[o], Seen(o))
  /\ Does(key, "CONFIRM", o, orders[o].version, Seen(o), o)

Cancel(key, o) ==
  /\ orders[o].status \in {"DRAFT", "CONFIRMED"}
  /\ Becomes(o, "CANCELLED", orders[o], orders[o].agreed)
  /\ Does(key, "CANCEL", o, orders[o].version, NoOne, o)

Delete(key, o) ==
  /\ orders[o].status = "DRAFT"
  /\ Becomes(o, "DELETED", orders[o], orders[o].agreed)
  /\ Does(key, "DELETE", o, orders[o].version, NoOne, o)

-----------------------------------------------------------------------------
Turns(s, look) ==
  /\ suppliers' = [suppliers EXCEPT ![s] = [version |-> @.version + 1, look |-> look]]
  /\ UNCHANGED <<orders, fits>>

Add(key, s, look) ==
  /\ suppliers[s] = NoSupplier
  /\ Turns(s, look)
  /\ Does(key, "ADD", Collection, 0, look, s)

Update(key, s, look) ==
  /\ suppliers[s].look # NoOne
  /\ Turns(s, look)
  /\ Does(key, "UPDATE", s, suppliers[s].version, look, s)

Remove(key, s) ==
  /\ suppliers[s].look # NoOne
  /\ ~\E o \in Orders : Exists(o) /\ orders[o].supplier = s
  /\ Turns(s, NoOne)
  /\ Does(key, "REMOVE", s, suppliers[s].version, NoOne, s)

ChangeProduct == fits' = ~fits /\ UNCHANGED <<orders, suppliers, effects>>

OrderCommand(key, o) ==
  \/ \E content \in [supplier : Suppliers \cup {NoOne}, lines : Lines] :
       Create(key, o, content) \/ Replace(key, o, content)
  \/ Confirm(key, o) \/ Cancel(key, o) \/ Delete(key, o)

SupplierCommand(key, s) ==
  \/ \E look \in Looks : Add(key, s, look) \/ Update(key, s, look)
  \/ Remove(key, s)

(* Whatever a command does leaves an effect.                               *)
Next ==
  \/ /\ effects' # effects
     /\ \E key \in CommandKeys :
          \/ \E o \in Orders : OrderCommand(key, o)
          \/ \E s \in Suppliers : SupplierCommand(key, s)
  \/ ChangeProduct

Spec == Init /\ [][Next]_vars
=============================================================================
