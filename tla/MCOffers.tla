------------------------------ MODULE MCOffers ------------------------------
(* How a sale comes about, for TLC: the product that it takes from (Stock), *)
(* the prices of a draft (DraftPricing), and the sales that the chatbot     *)
(* makes (BotSales).  They share nothing, so that interleaving them would   *)
(* show nothing: the run checks each beside the others at rest.  Their sets *)
(* share model values, and so their permutations.                           *)
EXTENDS DraftPricing, BotSales, Stock, TLC

CONSTANTS p1, p2, c1, c2, c3, x1, a1, q1, pl1, pl2

OffersSymmetry == Permutations({p1, p2}) \cup Permutations({c1, c2, c3})

-----------------------------------------------------------------------------
(* A quoted delivery to the saved address, to a new one, and no quote.     *)
SomeCarts == { [quote |-> q1, saved |-> TRUE, place |-> pl1],
               [quote |-> q1, saved |-> FALSE, place |-> pl1],
               [quote |-> NoQuote, saved |-> FALSE, place |-> pl1] }

(* Three calls, two of them at a time.  Under two keys, they compete for   *)
(* the quote.  The address is edited, or somebody adds a customer.         *)
FewCalls ==
  /\ strangers => home = pl1
  /\ \E c \in Calls : todo[c] = <<>>
  /\ \A c, d \in Calls : call[c].key # call[d].key /\ call[d] # NotCalled /\ call[c] # NotCalled
                         => call[c].cart.quote # NoQuote

(* The second lot is there for the order in which lots are sold: it comes   *)
(* without variants.  Neither that order nor dates matter to adjusters and  *)
(* thresholds, or where there are variants; nor do thresholds matter to a   *)
(* product that was a service.                                              *)
Used(rows) == {r \in DOMAIN rows : rows[r].state # "NONE"}

Plain == product.min = 0 /\ ~recast /\ \A a \in Adjusters : seen[a] = Unread

FewAtOnce ==
  /\ Used(lot) \ {1} # {} => Used(variant) = {} /\ Plain
  /\ today > 0 \/ (\E l \in Lots : lot[l].expires > 0) => Used(variant) = {} /\ Plain
  /\ recast => product.min = 0 /\ \A v \in Variants : variant[v].min = 0
  /\ \A l \in Lots : lot[l].state = "GONE" => lot[l].expires = 0
  /\ \A v \in Variants : variant[v].state = "GONE" => variant[v].min = 0

-----------------------------------------------------------------------------
(* Two wares.  The first has a tier and is on the customer's list too.     *)

CustomersList == [c \in Customers |-> "wholesale"]

TwoLists == [public |-> 1 :> (1 :> 4 @@ 2 :> 3) @@ 2 :> (1 :> 2), wholesale |-> 1 :> (1 :> 3)]

OneCatalogue == {TwoLists}

TwoCentsOff == {[percent |-> 0, off |-> 2]}

Offer(type) ==
  [type |-> type, manual |-> FALSE, tier |-> [w \in Wares |-> 0], percent |-> 0, off |-> 0,
   buy |-> 1, get |-> 1, buys |-> {}, gets |-> {}, lists |-> {}, min |-> 0,
   audience |-> Customers \cup {NoCustomer}, units |-> Unlimited]

(* None at all, and pairs that compete: a limited one for a product with a  *)
(* manual one for all; units with the whole order; what is bought with what *)
(* is got, before an order that is for a list and limited.                 *)
NoneOrPairs ==
  {<<>>,
   1 :> [Offer("PRODUCT_DISCOUNT") EXCEPT !.tier = (1 :> 3 @@ 2 :> 0), !.percent = 50, !.units = 2]
     @@ 2 :> [Offer("PRODUCT_DISCOUNT") EXCEPT !.tier = (1 :> 1 @@ 2 :> 1), !.off = 1, !.manual = TRUE],
   1 :> [Offer("BUY_X_GET_Y") EXCEPT !.tier = (1 :> 2 @@ 2 :> 0), !.percent = 100, !.units = 1,
                                     !.audience = Customers]
     @@ 2 :> [Offer("ORDER_DISCOUNT") EXCEPT !.percent = 50, !.min = 4, !.manual = TRUE],
   1 :> [Offer("ADVANCED") EXCEPT !.buys = {1}, !.gets = {1, 2}, !.buy = 2, !.percent = 100]
     @@ 2 :> [Offer("ORDER_DISCOUNT") EXCEPT !.off = 1, !.lists = {"wholesale"}, !.units = 3]}

-----------------------------------------------------------------------------
VARIABLE offering  \* the component that runs

offersVars == <<offering, pricingVars, botVars, stockVars>>

(* The last thing that happens before the charge happens elsewhere.        *)
SellerFirst ==
  \/ steps # MaxSteps - 1 /\ PricingNext
  \/ /\ steps = MaxSteps - 1 /\ ~charged
     /\ \/ Others /\ steps' = MaxSteps
        \/ ChargeDraft /\ UNCHANGED steps

OffersInit ==
  /\ offering \in {"pricing", "bot", "stock"}
  /\ PricingInit /\ BotInit /\ StockInit
  /\ offering # "pricing" => promotions = <<>>
  /\ home = pl1 /\ (offering # "bot" => profiles = 0)

OffersNext ==
  /\ \/ offering = "pricing" /\ SellerFirst /\ UNCHANGED <<botVars, stockVars>>
     \/ offering = "bot" /\ BotNext /\ FewCalls' /\ UNCHANGED <<pricingVars, stockVars>>
     \/ offering = "stock" /\ StockNext /\ FewAtOnce' /\ UNCHANGED <<pricingVars, botVars>>
  /\ UNCHANGED offering

OffersSpec == OffersInit /\ [][OffersNext]_offersVars
=============================================================================
