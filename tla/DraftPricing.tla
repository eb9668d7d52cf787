---------------------------- MODULE DraftPricing ----------------------------
(***************************************************************************)
(* What a draft costs: the lines of a sale at the counter, the catalogue   *)
(* they are priced from, the discounts that the seller grants by hand, the *)
(* promotions that the engine grants, and the charge, which prices the     *)
(* draft once more inside its transaction.  The seller is alone with his   *)
(* draft; meanwhile prices are raised, promotions end, and other sales     *)
(* take units of limited promotions or give them back.                     *)
(*                                                                         *)
(* A line is known by its ware, a product or a variant: the lines of one   *)
(* ware are stacked.  The ids of lines are random: wares are numbered in   *)
(* the order of the ids of their lines.  Titles, the percentages that are  *)
(* shown and the kind of a reward are left out.                            *)
(***************************************************************************)
EXTENDS Integers, FiniteSets, FiniteSetsExt, Functions

CONSTANTS
  Wares,          \* numbers
  Lists,          \* global price lists
  DefaultList,    \* PUBLICO
  Customers,
  ListOf,         \* the price list of a customer, or NoList
  Catalogues,     \* [Lists -> prices of the wares on it, by minimum quantity]
  Promotions,     \* the configurations: [numbers -> Promotion]
  MaxQuantity,    \* units on hand of every ware
  HandCuts,       \* discounts that a seller grants by hand
  HandPrices,     \* prices that a seller sets by hand
  MaxSteps        \* bound on what happens before the charge

NoList == "no list"
NoPromotion == 0
NoCustomer == "nobody"
Unlimited == -1
Unset == -1

Discounts == [percent : Nat, off : Nat]

Offers ==
  [type : {"PRODUCT_DISCOUNT", "BUY_X_GET_Y", "ADVANCED", "ORDER_DISCOUNT"},
   manual : BOOLEAN, tier : [Wares -> Nat], percent : Nat, off : Nat,
   buy : Nat \ {0}, get : Nat \ {0}, buys : SUBSET Wares, gets : SUBSET Wares,
   lists : SUBSET Lists, min : Nat, audience : SUBSET (Customers \cup {NoCustomer}),
   units : Nat \cup {Unlimited}]

(* Every price list has some wares, and for these a price from one unit on. *)
IsCatalogue(c) ==
  /\ DOMAIN c = Lists
  /\ DOMAIN c[DefaultList] = Wares
  /\ \A l \in Lists : \A w \in DOMAIN c[l] :
       /\ w \in Wares
       /\ IsFiniteSet(DOMAIN c[l][w]) /\ 1 \in DOMAIN c[l][w]
       /\ \A k \in DOMAIN c[l][w] : k \in Nat /\ c[l][w][k] \in Nat

ASSUME PricingAssumption ==
  /\ Wares \subseteq Nat /\ IsFiniteSet(Wares)
  /\ DefaultList \in Lists
  /\ NoList \notin Lists /\ NoCustomer \notin Customers
  /\ ListOf \in [Customers -> Lists \cup {NoList}]
  /\ \A c \in Catalogues : IsCatalogue(c)
  /\ \A f \in Promotions :
       /\ IsFiniteSet(DOMAIN f) /\ DOMAIN f \subseteq Nat \ {NoPromotion}
       /\ \A p \in DOMAIN f : f[p] \in Offers
  /\ MaxQuantity \in Nat /\ MaxSteps \in Nat
  /\ HandCuts \subseteq Discounts
  /\ HandPrices \subseteq Nat \ {0}

VARIABLES
  draft,       \* the aggregate as it is stored
  prices,      \* the catalogue
  promotions,  \* as they were configured
  live,        \* the promotions that are ACTIVE
  left,        \* units left of each, or Unlimited
  fresh,       \* observer: nothing since the last recompute may change its outcome
  charged,     \* the sale was confirmed
  steps        \* counts what happened before the charge

pricingVars == <<draft, prices, promotions, live, left, fresh, charged, steps>>

outside == <<prices, promotions, live, left>>

(* A SaleItem.  Its discount is present when pre is set; it is the seller's *)
(* when it names no promotion.                                             *)
NewLine(w, n) ==
  [qty |-> n, price |-> prices[DefaultList][w][1], source |-> "default",
   list |-> NoList, pre |-> Unset, cut |-> 0, promo |-> NoPromotion]

NoOrder == [promo |-> NoPromotion, cents |-> 0]

EmptyDraft ==
  [lines |-> <<>>, list |-> NoList, explicit |-> FALSE, customer |-> NoCustomer,
   order |-> NoOrder, vetoed |-> {}, optedIn |-> {}]

InCart == DOMAIN draft.lines

PricingInit ==
  /\ draft = EmptyDraft
  /\ prices \in Catalogues
  /\ promotions \in Promotions
  /\ live = DOMAIN promotions
  /\ left = [p \in DOMAIN promotions |-> promotions[p].units]
  /\ fresh = TRUE
  /\ charged = FALSE
  /\ steps = 0

-----------------------------------------------------------------------------
(* Prices and discounts of one line. *)

Base(line) == IF line.pre = Unset THEN line.price ELSE line.pre
ByHand(line) == line.pre # Unset /\ line.promo = NoPromotion

(* selectEffectivePrice: the tier with the greatest minimum that is met. *)
TierFor(tiers, n) == Max({k \in DOMAIN tiers : k = 1 \/ (k <= n /\ tiers[k] > 0)})
EffectivePrice(tiers, n) == tiers[TierFor(tiers, n)]

Percent(cents, n) == (cents * n + 50) \div 100  \* Math.round
ClampedPercent(n) == Max({1, Min({n, 99})})

(* A discount, of a promotion or by hand, is a percentage or an amount. *)
CutOf(discount, cents) ==
  IF discount.percent > 0 THEN Percent(cents, ClampedPercent(discount.percent))
  ELSE discount.off

(* SaleItem.applyDiscount leaves at least a cent. *)
Grantable(line, discount) == Base(line) - CutOf(discount, Base(line)) >= 1

Discounted(line, discount, p) ==
  LET base == Base(line)
      cut == CutOf(discount, base)
  IN [line EXCEPT !.pre = base, !.cut = cut, !.price = base - cut, !.promo = p]

WithoutDiscount(line) ==
  [line EXCEPT !.price = Base(line), !.pre = Unset, !.cut = 0, !.promo = NoPromotion]

-----------------------------------------------------------------------------
(* The engine, on the lines of a draft d whose promotions were cleared and  *)
(* whose prices were renewed, and on a snapshot c of the promotions that    *)
(* are candidates of a pass.                                                *)

OnList(promo, line) == promo.lists = {} \/ line.list \in promo.lists

Admitted(c, d) ==
  {p \in DOMAIN c : /\ p \notin d.vetoed
                    /\ c[p].manual => p \in d.optedIn
                    /\ d.customer \in c[p].audience}

Winner(p, units, cents) == [promo |-> p, units |-> units, saving |-> cents]
Nothing == Winner(NoPromotion, 0, 0)

(* The greatest saving, of equal ones the lowest id. *)
BestOf(results) ==
  IF results = {} THEN Nothing
  ELSE CHOOSE r \in results : \A q \in results :
         r.saving > q.saving \/ (r.saving = q.saving /\ r.promo <= q.promo)

UnitCut(promo, cents) == Min({CutOf(promo, cents), cents})

(* pickBestPerLine: only the most specific targets compete, by the unit. *)
ProductResults(c, d, w) ==
  LET line == d.lines[w]
      eligible == {p \in Admitted(c, d) :
                     /\ c[p].type = "PRODUCT_DISCOUNT"
                     /\ c[p].tier[w] > 0
                     /\ OnList(c[p], line)
                     /\ UnitCut(c[p], Base(line)) > 0}
  IN {Winner(p, line.qty, UnitCut(c[p], Base(line)) * line.qty) :
        p \in {q \in eligible : \A r \in eligible : c[r].tier[w] <= c[q].tier[w]}}

(* computeBuyXGetYReward: of every buy + get units, get are cheaper. *)
GroupUnits(promo, n) == (n \div (promo.buy + promo.get)) * promo.get

BuyXGetYResults(c, d, w) ==
  LET line == d.lines[w]
  IN {Winner(p, GroupUnits(c[p], line.qty),
             GroupUnits(c[p], line.qty) * Percent(Base(line), c[p].percent)) :
        p \in {q \in Admitted(c, d) : /\ c[q].type = "BUY_X_GET_Y"
                                     /\ c[q].tier[w] > 0
                                     /\ OnList(c[q], line)}}

(* computeAdvancedReward: units bought of some wares make units of others  *)
(* cheaper, in the order of the ids of the lines.                          *)
Counted(d, promo, wares) ==
  {w \in wares \cap DOMAIN d.lines : ~ByHand(d.lines[w]) /\ OnList(promo, d.lines[w])}

Quantity(d, wares) == SumFunctionOnSet([w \in wares |-> d.lines[w].qty], wares)

AdvancedUnits(d, promo, w) ==
  LET buying == Counted(d, promo, promo.buys)
      getting == Counted(d, promo, promo.gets) \ buying
      pool == (Quantity(d, buying) \div promo.buy) * promo.get
      before == Quantity(d, {v \in getting : v < w})
  IN IF w \notin getting THEN 0
     ELSE Min({d.lines[w].qty, Max({0, pool - before})})

AdvancedResults(c, d, w) ==
  {Winner(p, AdvancedUnits(d, c[p], w),
          AdvancedUnits(d, c[p], w) * Percent(Base(d.lines[w]), c[p].percent)) :
     p \in {q \in Admitted(c, d) : c[q].type = "ADVANCED" /\ ~c[q].manual}}

(* One result per line, by what the whole line saves; none on a line that  *)
(* the seller discounted.                                                  *)
LineResult(c, d, w) ==
  IF ByHand(d.lines[w]) THEN Nothing
  ELSE BestOf({r \in {BestOf(ProductResults(c, d, w))}
                       \cup BuyXGetYResults(c, d, w) \cup AdvancedResults(c, d, w) :
                 r.saving > 0})

(* What the engine takes off a line before it looks at the order: the whole *)
(* reward, but one unit's share of a product discount.                     *)
TakenOff(c, line, result) ==
  IF result.promo = NoPromotion THEN 0
  ELSE IF c[result.promo].type = "PRODUCT_DISCOUNT" THEN result.saving \div line.qty
  ELSE result.saving

OrderResult(c, d, results) ==
  LET carted == DOMAIN d.lines
      worth == [w \in carted |-> Base(d.lines[w]) * d.lines[w].qty]
      rest == [w \in carted |-> worth[w] - TakenOff(c, d.lines[w], results[w])]
      before == SumFunctionOnSet(worth, carted)
      after == SumFunctionOnSet(rest, carted)
  IN BestOf({r \in {Winner(p, Quantity(d, carted), UnitCut(c[p], after)) :
                      p \in {q \in Admitted(c, d) :
                               /\ c[q].type = "ORDER_DISCOUNT"
                               /\ \A w \in carted : OnList(c[q], d.lines[w])
                               /\ before >= c[q].min
                               /\ after > 0}} : r.saving > 0})

Evaluation(c, d) ==
  LET results == [w \in DOMAIN d.lines |-> LineResult(c, d, w)]
  IN [lines |-> results, order |-> OrderResult(c, d, results)]

Demand(evaluation, p) ==
  LET won == {w \in DOMAIN evaluation.lines : evaluation.lines[w].promo = p}
  IN SumFunctionOnSet([w \in won |-> evaluation.lines[w].units], won)
       + (IF evaluation.order.promo = p THEN evaluation.order.units ELSE 0)

Overruns(evaluation) ==
  {p \in live : left[p] # Unlimited /\ Demand(evaluation, p) > left[p]}

Candidates(out) == [p \in live \ out |-> promotions[p]]

(* evaluate: passes until no promotion is granted beyond what is left.     *)
(* Each pass but the last excludes one more, so there is one per promotion.*)
AfterPasses(next, n) ==
  LET out[k \in 0..n] == IF k = 0 THEN {} ELSE next[out[k - 1]]
  IN out[n]

CapacityExcluded(d) ==
  AfterPasses([out \in SUBSET live |-> out \cup Overruns(Evaluation(Candidates(out), d))],
              Cardinality(DOMAIN promotions))

(* The opted-in promotions that still have a target in the cart.           *)
Targetable(d) ==
  {p \in d.optedIn \cap live :
     /\ promotions[p].manual /\ p \notin d.vetoed
     /\ \/ promotions[p].type = "ORDER_DISCOUNT"
        \/ /\ promotions[p].type \in {"PRODUCT_DISCOUNT", "BUY_X_GET_Y"}
           /\ \E w \in DOMAIN d.lines : promotions[p].tier[w] > 0}

-----------------------------------------------------------------------------
(* recomputePricingAndPromotions: clear, reprice, evaluate, apply, prune.  *)

ClearedEntirely(line) == WithoutDiscount(line)  \* deviation, for mutation
Cleared(line) == IF line.promo = NoPromotion THEN line ELSE WithoutDiscount(line)

SaleList(d) == IF d.list # NoList THEN d.list ELSE DefaultList

(* A line keeps its price if the seller made it or its list has none.      *)
Repriced(d, w, line) ==
  LET list == IF line.list # NoList THEN line.list ELSE SaleList(d)
  IN IF line.source = "custom" \/ ByHand(line) \/ w \notin DOMAIN prices[list] THEN line
     ELSE [line EXCEPT !.price = EffectivePrice(prices[list][w], line.qty), !.source = "price_list"]

Unpromoted(d) == [d EXCEPT !.lines = [w \in DOMAIN d.lines |-> Cleared(d.lines[w])]]

ClearedAndRepriced(d) ==
  [d EXCEPT !.lines = [w \in DOMAIN d.lines |-> Repriced(d, w, Cleared(d.lines[w]))]]

Applied(line, result) ==
  IF result.promo = NoPromotion THEN line
  ELSE IF promotions[result.promo].type = "PRODUCT_DISCOUNT"
  THEN Discounted(line, promotions[result.promo], result.promo)
  ELSE [line EXCEPT !.pre = line.price, !.cut = result.saving, !.promo = result.promo]

(* The clean draft, what is excluded from it, and what each line wins.     *)
Outcome(clean, out) ==
  [clean |-> clean, out |-> out, result |-> Evaluation(Candidates(out), clean)]

(* evaluatePromotionsForSale, and the recompute before it.                 *)
EvaluatedClean(clean) == Outcome(clean, CapacityExcluded(clean))

Evaluated(d) == EvaluatedClean(ClearedAndRepriced(d))

(* A discount that would leave less than a cent fails the whole handler.   *)
Applicable(e) ==
  \A w \in DOMAIN e.clean.lines :
    LET p == e.result.lines[w].promo IN
    p # NoPromotion /\ promotions[p].type = "PRODUCT_DISCOUNT"
      => Grantable(e.clean.lines[w], promotions[p])

Recomputed(e) ==
  [e.clean EXCEPT
     !.lines = [w \in DOMAIN @ |-> Applied(@[w], e.result.lines[w])],
     !.order = [promo |-> e.result.order.promo, cents |-> e.result.order.saving],
     !.optedIn = Targetable(e.clean)]

AppliedPromotions(d) ==
  ({d.lines[w].promo : w \in DOMAIN d.lines} \cup {d.order.promo}) \ {NoPromotion}

-----------------------------------------------------------------------------
(* The handlers.  Most of them save what the recompute makes of an edit;   *)
(* some save the edit alone.                                               *)

Finish(e) ==
  /\ Applicable(e)
  /\ draft' = Recomputed(e)
  /\ fresh' = TRUE
  /\ UNCHANGED <<outside, charged>>

Recompute(d) == Finish(Evaluated(d))

Save(d) ==
  /\ draft' = d
  /\ fresh' = FALSE
  /\ UNCHANGED <<outside, charged>>

WithLine(d, w, line) ==
  [d EXCEPT !.lines = [v \in DOMAIN d.lines \cup {w} |-> IF v = w THEN line ELSE d.lines[v]]]

WithoutLine(d, w) ==
  [d EXCEPT !.lines = [v \in DOMAIN d.lines \ {w} |-> d.lines[v]]]

OptedOut(d, p) == [d EXCEPT !.optedIn = @ \ {p}]

OptedIn(d, p) == [d EXCEPT !.optedIn = @ \cup {p}, !.vetoed = @ \ {p}]

Vetoed(d, p) == [OptedOut(d, p) EXCEPT !.vetoed = @ \cup {p}]

(* A promotion that a line loses is opted out with its last line.          *)
OptedOutWithLine(d, p) ==
  IF \E w \in DOMAIN d.lines : d.lines[w].promo = p THEN d ELSE OptedOut(d, p)

AddItem(w, n) ==
  LET line == IF w \in InCart THEN [draft.lines[w] EXCEPT !.qty = @ + n] ELSE NewLine(w, n)
  IN /\ line.qty <= MaxQuantity
     /\ Recompute(WithLine(draft, w, line))

UpdateItemQuantity(w, n) ==
  /\ w \in InCart
  /\ n <= MaxQuantity
  /\ Recompute(WithLine(draft, w, [draft.lines[w] EXCEPT !.qty = n]))

RemoveItem(w) ==
  /\ w \in InCart
  /\ Recompute(OptedOutWithLine(WithoutLine(draft, w), draft.lines[w].promo))

ClearItems == Save([draft EXCEPT !.lines = <<>>])

OverrideWithList(w, l) ==
  /\ w \in InCart /\ w \in DOMAIN prices[l]
  /\ Recompute(WithLine(draft, w,
       [WithoutDiscount(draft.lines[w]) EXCEPT
          !.price = EffectivePrice(prices[l][w], draft.lines[w].qty),
          !.source = "price_list", !.list = l]))

OverrideWithPrice(w, cents) ==
  /\ w \in InCart
  /\ Recompute(WithLine(draft, w,
       [WithoutDiscount(draft.lines[w]) EXCEPT
          !.price = cents, !.source = "custom", !.list = NoList]))

ApplyItemDiscount(w, discount) ==
  /\ w \in InCart
  /\ Grantable(draft.lines[w], discount)
  /\ Save(WithLine(draft, w, Discounted(draft.lines[w], discount, NoPromotion)))

RemoveItemDiscount(w) ==
  /\ w \in InCart
  /\ Recompute(OptedOutWithLine(WithLine(draft, w, WithoutDiscount(draft.lines[w])),
                                draft.lines[w].promo))

(* A line whose price an amount would exceed is skipped, and so is a line  *)
(* with a discount if the seller says so; a percentage that leaves nothing *)
(* fails the request.                                                      *)
ApplyGlobalDiscount(discount, skip) ==
  LET chosen == {w \in InCart : skip => draft.lines[w].pre = Unset}
      granted == {w \in chosen : Grantable(draft.lines[w], discount)}
  IN /\ discount.percent > 0 => granted = chosen
     /\ Save([draft EXCEPT !.lines =
          [w \in InCart |-> IF w \in granted
                            THEN Discounted(draft.lines[w], discount, NoPromotion)
                            ELSE draft.lines[w]]])

RemoveGlobalDiscount ==
  Save([draft EXCEPT !.lines = [w \in InCart |-> WithoutDiscount(draft.lines[w])]])

ApplyManualPromotion(p) == Recompute(OptedIn(draft, p))

RemoveManualPromotion(p) == Recompute(OptedOut(draft, p))

RemoveAppliedPromotion(p) ==
  Recompute(IF p \in draft.optedIn THEN OptedOut(draft, p) ELSE Vetoed(draft, p))

AssignCustomer(c) ==
  Recompute([draft EXCEPT !.customer = c,
               !.list = IF draft.explicit \/ ListOf[c] = NoList THEN @ ELSE ListOf[c]])

ClearCustomer ==
  /\ draft.customer # NoCustomer
  /\ Save([draft EXCEPT !.customer = NoCustomer])

SetSalePriceList(l) == Recompute([draft EXCEPT !.list = l, !.explicit = TRUE])

(* resolveChargeValidationPrice: the price a line must have been based on. *)
StandsAtPrice(w) ==
  LET line == draft.lines[w]
      list == IF line.list # NoList THEN line.list ELSE SaleList(draft)
  IN IF line.source = "price_list" /\ (line.list # NoList \/ draft.list # NoList)
     THEN w \in DOMAIN prices[list] /\ Base(line) = EffectivePrice(prices[list][w], line.qty)
     ELSE Base(line) = prices[DefaultList][w][1]

(* Deviation, for mutation: a discount by hand makes a price as custom. *)
PriceStandsOrByHand(w) ==
  draft.lines[w].source = "custom" \/ ByHand(draft.lines[w]) \/ StandsAtPrice(w)

PriceStands(w) == draft.lines[w].source = "custom" \/ StandsAtPrice(w)

(* The charge is refused when a promotion it was quoted with is exhausted. *)
QuoteStandsWhenHeld(e) ==  \* deviation, for mutation: the order is forgotten
  {draft.lines[w].promo : w \in InCart} \cap e.out = {}
QuoteStands(e) == AppliedPromotions(draft) \cap e.out = {}

ConfirmAs(e) ==
  /\ Applicable(e)
  /\ QuoteStands(e)
  /\ draft' = Recomputed(e)
  /\ charged' = TRUE
  /\ UNCHANGED <<outside, fresh>>

(* executeChargeDraft, up to its totals.  The claims of units, stock and   *)
(* payments that follow roll it back when they fail.                       *)
ChargeDraft ==
  /\ \A w \in InCart : PriceStands(w)
  /\ ConfirmAs(Evaluated(draft))

-----------------------------------------------------------------------------
(* Meanwhile, elsewhere. *)

Elsewhere == UNCHANGED <<draft, promotions, charged>>

RaisePrice(l, w, k) ==
  /\ w \in DOMAIN prices[l] /\ k \in DOMAIN prices[l][w]
  /\ prices' = [prices EXCEPT ![l][w][k] = @ + 1]
  /\ fresh' = (fresh /\ ~(l = DefaultList /\ k > 1))
  /\ Elsewhere
  /\ UNCHANGED <<live, left>>

TakeUnit(p) ==
  /\ left[p] > 0
  /\ left' = [left EXCEPT ![p] = @ - 1]
  /\ fresh' = (fresh /\ \/ p \in AppliedPromotions(draft)
                        \/ Overruns(Evaluation(Candidates({}), Unpromoted(draft))) = {})
  /\ Elsewhere
  /\ UNCHANGED <<prices, live>>

ReturnUnit(p) ==
  /\ left[p] # Unlimited /\ left[p] < promotions[p].units
  /\ left' = [left EXCEPT ![p] = @ + 1]
  /\ fresh' = FALSE
  /\ Elsewhere
  /\ UNCHANGED <<prices, live>>

EndPromotion(p) ==
  /\ p \in live
  /\ live' = live \ {p}
  /\ fresh' = FALSE
  /\ Elsewhere
  /\ UNCHANGED <<prices, left>>

Seller ==
  \/ \E w \in Wares :
       \/ \E n \in 1..MaxQuantity : AddItem(w, n) \/ UpdateItemQuantity(w, n)
       \/ RemoveItem(w)
       \/ \E l \in Lists : OverrideWithList(w, l)
       \/ \E cents \in HandPrices : OverrideWithPrice(w, cents)
       \/ \E discount \in HandCuts : ApplyItemDiscount(w, discount)
       \/ RemoveItemDiscount(w)
  \/ ClearItems
  \/ \E discount \in HandCuts, skip \in BOOLEAN : ApplyGlobalDiscount(discount, skip)
  \/ RemoveGlobalDiscount
  \/ \E p \in DOMAIN promotions :
       \/ ApplyManualPromotion(p)
       \/ RemoveManualPromotion(p)
       \/ RemoveAppliedPromotion(p)
  \/ \E c \in Customers : AssignCustomer(c)
  \/ ClearCustomer
  \/ \E l \in Lists \cup {NoList} : SetSalePriceList(l)

Others ==
  \/ \E l \in Lists, w \in Wares, k \in 1..MaxQuantity : RaisePrice(l, w, k)
  \/ \E p \in DOMAIN promotions : TakeUnit(p) \/ ReturnUnit(p) \/ EndPromotion(p)

PricingNext ==
  /\ ~charged
  /\ \/ steps < MaxSteps /\ steps' = steps + 1 /\ (Seller \/ Others)
     \/ ChargeDraft /\ UNCHANGED steps

PricingSpec == PricingInit /\ [][PricingNext]_pricingVars

-----------------------------------------------------------------------------
(* A draft that was recomputed last is charged exactly as it is shown, or  *)
(* not at all, although prices were raised and other sales took units of   *)
(* its promotions since ("the charged total can NEVER drift from the draft *)
(* preview", executeChargeDraft).  It is no longer fresh when a promotion  *)
(* ended, units came back, a tier of the default list was raised, or units *)
(* were taken of a promotion that it does without while others are left    *)
(* out for want of units, whose passes may then end elsewhere: these the   *)
(* charge does not notice.                                                 *)
FreshPreviewIsCharged ==
  [][charged' /\ ~charged /\ fresh => draft' = draft]_pricingVars

(* Whatever came in between, no line is charged from a price that none of  *)
(* its lists has today, unless the seller set it (PRICE_OUT_OF_DATE).      *)
ChargedAtTodaysPrice ==
  charged => \A w \in InCart :
    \/ draft.lines[w].source = "custom"
    \/ \E l \in {draft.lines[w].list, draft.list, DefaultList} \cap Lists :
         /\ w \in DOMAIN prices[l]
         /\ \E k \in DOMAIN prices[l][w] : Base(draft.lines[w]) = prices[l][w][k]

(* The price that a seller made for a line, if he did.                     *)
OwnPrice(line) ==
  IF ByHand(line) THEN line.price ELSE IF line.source = "custom" THEN Base(line) ELSE Unset

AimedAt(w) ==
  \/ \E l \in Lists : OverrideWithList(w, l)
  \/ \E cents \in HandPrices : OverrideWithPrice(w, cents)
  \/ \E discount \in HandCuts : ApplyItemDiscount(w, discount)
  \/ RemoveItemDiscount(w)
  \/ \E discount \in HandCuts, skip \in BOOLEAN : ApplyGlobalDiscount(discount, skip)
  \/ RemoveGlobalDiscount

AsDecided ==
  /\ AppliedPromotions(draft) \cap draft.vetoed = {}
  /\ \A p \in AppliedPromotions(draft) : promotions[p].manual => p \in draft.optedIn
  /\ draft.optedIn \cap draft.vetoed = {}

PricesStay ==
  \A w \in InCart \cap InCart' :
    LET before == OwnPrice(draft.lines[w])
    IN before # Unset /\ OwnPrice(draft'.lines[w]) # before => AimedAt(w)

(* What the seller decided stands, whatever lines, lists, customers and    *)
(* promotions come and go: a vetoed promotion is not applied, a manual one *)
(* only while he wants it, none is both wanted and refused, and the price  *)
(* he made changes only by what he does to it (optInManualPromotion,       *)
(* addVetoedPromotion, repriceNonStickyLines).                             *)
SellerDecides == [][AsDecided' /\ PricesStay]_pricingVars
=============================================================================
