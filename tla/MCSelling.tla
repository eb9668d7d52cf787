----------------------------- MODULE MCSelling -----------------------------
(* A sale, for TLC: the requests on it (SaleLifecycle), the routes that     *)
(* carry it (DeliveryRoutes), and the orders that bring in what is sold    *)
(* (Procurement).  Each knows of the others only what its own actions say  *)
(* of them (the sales of DeliveryRoutes), so that interleaving them would  *)
(* show nothing: the run checks each beside the others at rest.  Their     *)
(* sets share model values, and so their permutations.                     *)
EXTENDS MCSaleLifecycle, DeliveryRoutes, Procurement

CONSTANTS sa, sc, o1, s1, c1

VARIABLE selling  \* the component that runs

sellingVars == <<selling, vars, routesVars, procurementVars>>

SellingSymmetry ==
  Permutations({p1, p2}) \cup Permutations({k1, k2}) \cup Permutations({r1, r2})

(* The sale is explored twice: by its two handlers with every body while   *)
(* nobody works on a copy of it, and with few bodies while one of the two  *)
(* works on a copy and the other charges, collects or cancels behind it.   *)
Copies == {p \in Procs : pc[p] \in {"editing", "checked", "saving"}}

FewBodies ==
  /\ sale.items \in FewQuantities
  /\ \A p \in Copies : draft[p].items \in FewQuantities
  /\ \A sid \in SlotIds : slots[sid].status # "FREE" =>
       slots[sid].body \in FewCharges \cup FewCollections \cup Reasons

(* One sale is shipped, and may be saved from a copy; the other one keeps  *)
(* it company on the routes.  One request plans while the other one drives, *)
(* and nobody asks for a canceled route, which every command refuses.      *)
OneInFocus ==
  /\ \A s \in RouteSales \ SaleSavers : parcel[s].delivery # "SHIPPED"
  /\ \A p, q \in Requests : at[p] = "planning" /\ at[q] = "planning" => p = q
  /\ \A q \in Requests : snapshot[q].status # "CANCELLED"

SomeLooks == {[name |-> "any", status |-> status] : status \in {"ACTIVE", "ARCHIVED"}}

(* The product is changed under the eyes of a transaction, and the last of *)
(* the calls repeats one.                                                  *)
ChangesMatter == productFits' # productFits => \E c \in Buyers : InTransaction(c)

LastRepeats ==
  calls < calls' /\ calls' = MaxCalls => \A c \in Buyers : command'[c].request = command[c].request

SellingInit ==
  /\ selling \in {"sale", "copies", "routes", "orders"}
  /\ Init /\ RoutesInit /\ ProcurementInit
  /\ \A s \in Suppliers : supplier[s] # NoSupplier => supplier[s].look.status = "ACTIVE"
  /\ selling # "orders" => written = {}

SellingNext ==
  /\ \/ selling = "sale" /\ Next /\ Copies' = {}
        /\ UNCHANGED <<routesVars, procurementVars>>
     \/ selling = "copies" /\ Next /\ Cardinality(Copies') <= 1 /\ FewBodies'
        /\ UNCHANGED <<routesVars, procurementVars>>
     \/ selling = "routes" /\ RoutesNext /\ OneInFocus'
        /\ UNCHANGED <<vars, procurementVars>>
     \/ selling = "orders" /\ ProcurementNext /\ ChangesMatter /\ LastRepeats
        /\ UNCHANGED <<vars, routesVars>>
  /\ UNCHANGED selling

SellingSpec == SellingInit /\ [][SellingNext]_sellingVars
=============================================================================
