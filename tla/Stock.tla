------------------------------- MODULE Stock --------------------------------
(***************************************************************************)
(* The stock of one product: its untracked units, its lots and its         *)
(* variants, the journal of everything that changes them, the sales that   *)
(* take from them and give back, the adjustments that people make from     *)
(* what they read, and the low-stock alerts.                               *)
(*                                                                         *)
(* Whatever changes stock holds the row lock of the product until it       *)
(* commits: every operation is one step.  An adjustment reads first, and   *)
(* names the version it read.                                              *)
(***************************************************************************)
EXTENDS Integers, FiniteSets, FiniteSetsExt

CONSTANTS
  Lots,        \* ids of lots: the order of two lots that expire on one day
  Variants,    \* ids of variants
  StockSales,  \* sales that name the product
  Adjusters,   \* people that adjust stock at the same time
  MaxOnHand,    \* bound on a quantity (MAX_POSTGRES_INT)
  Thresholds,  \* minimum quantities that requests name
  MaxDay       \* bound on the business date and on dates of expiry

Untracked == 0
Buckets == {Untracked} \cup Lots \cup Variants
AlertKeys == {Untracked} \cup Variants   \* the alert of the product is keyed 0
Days == 0..MaxDay
OnHand == 0..MaxOnHand

ASSUME StockConstants ==
  /\ Lots \subseteq Nat \ {0} /\ Variants \subseteq Nat \ {0}
  /\ Lots \cap Variants = {} /\ IsFiniteSet(Lots) /\ IsFiniteSet(Variants)
  /\ MaxOnHand \in Nat \ {0} /\ MaxDay \in Nat
  /\ 0 \in Thresholds /\ Thresholds \subseteq Nat

VARIABLES
  product,   \* the row of the product
  lot,       \* its lots
  variant,   \* its variants
  journal,   \* stock_movements: the sum of the deltas of each bucket
  order,     \* status of each sale
  taken,     \* what its SALE rows took of each bucket
  given,     \* what its SALE_CANCELLATION rows gave back
  alerted,   \* stock_alert_states
  seen,      \* what each adjuster has read
  today,     \* the business date
  recast     \* history: the product has been a service

saleRows == <<order, taken, given>>
stockVars == <<product, lot, variant, journal, saleRows, alerted, seen, today, recast>>

NoMove == [b \in Buckets |-> 0]
Unread == [bucket |-> -1, units |-> 0]

StockInit ==
  /\ product = [state |-> "NONE", kind |-> "PRODUCT", tracked |-> FALSE, useLots |-> FALSE,
                hasVariants |-> FALSE, quantity |-> 0, min |-> 0]
  /\ lot = [l \in Lots |-> [state |-> "NONE", quantity |-> 0, expires |-> 0]]
  /\ variant = [v \in Variants |-> [state |-> "NONE", quantity |-> 0, min |-> 0]]
  /\ journal = NoMove
  /\ order = [s \in StockSales |-> "DRAFT"]
  /\ taken = [s \in StockSales |-> NoMove] /\ given = [s \in StockSales |-> NoMove]
  /\ alerted = [k \in AlertKeys |-> FALSE]
  /\ seen = [a \in Adjusters |-> Unread]
  /\ today = 0 /\ recast = FALSE

-----------------------------------------------------------------------------
(* The state of the stock *)

IsLive == product.state = "LIVE"
Total(move, set) == SumFunctionOnSet(move, set)
InLots(set) == SumFunctionOnSet([l \in Lots |-> lot[l].quantity], set)

(* StockPlan.untracked.                                                    *)
Loose == product.quantity - InLots(Lots)

Units(b) == CASE b = Untracked  -> Loose
              [] b \in Lots     -> lot[b].quantity
              [] b \in Variants -> variant[b].quantity

(* StockPlan.has.                                                          *)
Has(b) == CASE b = Untracked  -> IsLive /\ ~product.hasVariants
            [] b \in Lots     -> lot[b].state = "LIVE"
            [] b \in Variants -> variant[b].state = "LIVE"

(* What applyUntracked, applyLot and applyVariant refuse.                  *)
Accepts(b) == Has(b) /\ (b \in Lots => ~product.hasVariants)
                     /\ (b = Untracked => product.tracked)

-----------------------------------------------------------------------------
(* StockJournalWriter.persist, and the alerts that its rows raise *)

(* The buckets whose stockVersion goes up.                                 *)
VersionedByLastRow(move) ==
  {b \in Buckets : move[b] # 0 /\ (b = Untracked => \A l \in Lots : move[l] = 0)}

Versioned(move) == {b \in Buckets : move[b] # 0}

(* A version that has gone up refuses the adjustment: it is read again.    *)
Reread(move) ==
  [a \in Adjusters |-> IF seen[a].bucket \in Versioned(move) THEN Unread ELSE seen[a]]

Raised(row, units) == [row EXCEPT !.quantity = @ + units]

(* The change of product.quantity.                                         *)
OfProduct(move) == move[Untracked] + Total(move, Lots)

StaysInRange(move) ==
  /\ \A b \in Buckets : Units(b) + move[b] \in OnHand
  /\ product.quantity + OfProduct(move) \in OnHand

(* Rows, versions and journal; the rows come as the operation has          *)
(* created or edited them.                                                 *)
Persist(move, productRow, lots, variants) ==
  /\ StaysInRange(move)
  /\ product' = Raised(productRow, OfProduct(move))
  /\ lot' = [l \in Lots |-> Raised(lots[l], move[l])]
  /\ variant' = [v \in Variants |-> Raised(variants[v], move[v])]
  /\ journal' = [b \in Buckets |-> journal[b] + move[b]]

(* LowStockCrossing.record for one balance.                                *)
Judged(flag, before, after, min, usesLots) ==
  IF after > min THEN flag /\ after <= before
                 ELSE flag \/ (~usesLots /\ before > min)

AlertsAfter(move) ==
  [k \in AlertKeys |->
     IF k = Untracked
     THEN Judged(alerted[k], product.quantity, product.quantity + OfProduct(move),
                 product.min, product.useLots)
     ELSE Judged(alerted[k], variant[k].quantity, variant[k].quantity + move[k],
                 variant[k].min, FALSE)]

(* rearmAlertAfterEdit: strictly above the threshold, and tracked.         *)
RearmsLate(tracked, quantity, min) == tracked /\ quantity > min + 1

Rearms(tracked, quantity, min) == tracked /\ quantity > min

-----------------------------------------------------------------------------
(* Products *)

(* Product.normalizeStockConfiguration, without quantity, which no save    *)
(* writes.                                                                 *)
Normalized(row) ==
  IF ~row.tracked \/ row.hasVariants THEN [row EXCEPT !.useLots = FALSE, !.min = 0] ELSE row

(* create, with the lots and variants of the request, which bring units    *)
(* each.                                                                   *)
CreateProduct(tracked, useLots, hasVariants, units, min, newLots, day, newVariants) ==
  LET row == Normalized([product EXCEPT !.state = "LIVE", !.tracked = tracked,
               !.useLots = useLots, !.hasVariants = hasVariants, !.min = min])
      loose == IF tracked /\ ~hasVariants /\ ~useLots THEN units ELSE 0
      move == [b \in Buckets |-> CASE b = Untracked -> loose
                                   [] b # Untracked -> IF b \in newLots \cup newVariants
                                                       THEN units ELSE 0]
  IN
  /\ product.state = "NONE"
  /\ newVariants # {} => hasVariants
  /\ newLots # {} => useLots /\ ~hasVariants
  /\ Persist(move, row,
             [l \in Lots |-> IF l \in newLots
                             THEN [state |-> "LIVE", quantity |-> 0, expires |-> day] ELSE lot[l]],
             [v \in Variants |-> IF v \in newVariants
                                 THEN [state |-> "LIVE", quantity |-> 0,
                                       min |-> IF tracked THEN min ELSE 0] ELSE variant[v]])
  /\ UNCHANGED <<saleRows, alerted, seen, today, recast>>

(* removeProductStock: what disappears with the parent's own stock.        *)
RemovalOfLots ==
  [b \in Buckets |-> CASE b \in Variants  -> -variant[b].quantity
                       [] b \in Lots      -> IF product.hasVariants THEN 0 ELSE -lot[b].quantity
                       [] b = Untracked   -> 0]

Removal ==
  [b \in Buckets |-> CASE b \in Variants  -> -variant[b].quantity
                       [] b \in Lots      -> IF product.hasVariants THEN 0 ELSE -lot[b].quantity
                       [] b = Untracked   -> IF Accepts(Untracked) THEN -Loose ELSE 0]

(* remove; lots and variants go with the product (ON DELETE CASCADE).      *)
RemoveProduct ==
  LET gone(row) == IF row.state = "LIVE" THEN [row EXCEPT !.state = "GONE"] ELSE row IN
  /\ IsLive
  /\ Persist(Removal, gone(product), [l \in Lots |-> gone(lot[l])],
             [v \in Variants |-> gone(variant[v])])
  /\ seen' = Reread(Removal)
  /\ UNCHANGED <<saleRows, alerted, today, recast>>

-----------------------------------------------------------------------------
(* update: requests that change one setting of the product *)

Settings == <<lot, variant, journal, saleRows, seen, today, recast>>

EditMin(min) ==
  /\ IsLive
  /\ product' = Normalized([product EXCEPT !.min = min])
  /\ alerted' = [alerted EXCEPT ![Untracked] =
       @ /\ ~Rearms(product.tracked, product.quantity, product'.min)]
  /\ UNCHANGED Settings

SwitchLots(useLots) ==
  /\ IsLive
  /\ product' = Normalized([product EXCEPT !.useLots = useLots])
  /\ UNCHANGED <<Settings, alerted>>

(* assertNoStockToUntrack; the quantity of a product with variants is read *)
(* as zero.  The thresholds of the variants go.                            *)
Untracks ==
  /\ ~product.hasVariants => product.quantity = 0
  /\ \A v \in Variants : variant[v].state = "LIVE" => variant[v].quantity = 0
  /\ variant' = [v \in Variants |-> [variant[v] EXCEPT !.min = 0]]

Untrack ==
  /\ IsLive /\ product.tracked
  /\ Untracks
  /\ product' = Normalized([product EXCEPT !.tracked = FALSE])
  /\ UNCHANGED <<lot, journal, saleRows, alerted, seen, today, recast>>

Track ==
  /\ IsLive /\ ~product.tracked
  /\ product' = Normalized([product EXCEPT !.tracked = TRUE])
  /\ UNCHANGED <<Settings, alerted>>

EnableVariants ==
  /\ IsLive /\ ~product.hasVariants
  /\ Persist(Removal, Normalized([product EXCEPT !.hasVariants = TRUE]), lot, variant)
  /\ alerted' = AlertsAfter(Removal)
  /\ seen' = Reread(Removal)
  /\ UNCHANGED <<saleRows, today, recast>>

DisableVariants ==
  /\ IsLive /\ product.hasVariants
  /\ \A v \in Variants : variant[v].state # "LIVE"
  /\ product' = Normalized([product EXCEPT !.hasVariants = FALSE])
  /\ UNCHANGED <<Settings, alerted>>

(* PRODUCT to SERVICE: assertTypeChangeAllowed sees the quantity of the    *)
(* product, read as zero when it has variants or is not tracked, and its   *)
(* lots, not its variants.                                                 *)
ToService ==
  /\ IsLive /\ product.kind = "PRODUCT"
  /\ product.tracked /\ ~product.hasVariants => product.quantity = 0
  /\ \A l \in Lots : lot[l].state = "LIVE" => lot[l].quantity = 0
  /\ Persist(Removal, Normalized([product EXCEPT !.kind = "SERVICE", !.tracked = FALSE]), lot, variant)
  /\ seen' = Reread(Removal)
  /\ recast' = TRUE
  /\ UNCHANGED <<saleRows, alerted, today>>

(* SERVICE to PRODUCT.  A request that names no minimum leaves none, and   *)
(* re-arms nothing.                                                        *)
ToProduct(tracked, useLots, min, named) ==
  /\ ~named => min = 0
  /\ IsLive /\ product.kind = "SERVICE"
  /\ product' = Normalized([product EXCEPT !.kind = "PRODUCT", !.tracked = tracked,
                                           !.useLots = useLots, !.min = min])
  /\ alerted' = [alerted EXCEPT ![Untracked] =
       @ /\ ~(named /\ Rearms(tracked, product.quantity, product'.min))]
  /\ IF product.tracked /\ ~tracked THEN Untracks ELSE UNCHANGED variant
  /\ UNCHANGED <<lot, journal, saleRows, seen, today, recast>>

-----------------------------------------------------------------------------
(* Variants and lots *)

(* addVariant: the first one zeroes the product, after the journal.        *)
AddVariant(v, min, units) ==
  LET first == ~product.hasVariants
      move == [(IF first THEN Removal ELSE NoMove) EXCEPT ![v] = units]
      row == [state |-> "LIVE", quantity |-> 0, min |-> IF product.tracked THEN min ELSE 0]
      zeroed == [product EXCEPT !.hasVariants = TRUE, !.useLots = FALSE, !.min = 0,
                                !.quantity = -OfProduct(move)]
  IN
  /\ IsLive /\ variant[v].state = "NONE"
  /\ Persist(move, IF first THEN zeroed ELSE product, lot, [variant EXCEPT ![v] = row])
  /\ alerted' = AlertsAfter([move EXCEPT ![v] = 0])
  /\ seen' = Reread(move)
  /\ UNCHANGED <<saleRows, today, recast>>

EditVariantMin(v, min) ==
  /\ IsLive /\ variant[v].state = "LIVE"
  /\ variant' = [variant EXCEPT ![v].min = IF product.tracked THEN min ELSE 0]
  /\ alerted' = [alerted EXCEPT ![v] =
       @ /\ ~Rearms(product.tracked, variant[v].quantity, variant'[v].min)]
  /\ UNCHANGED <<product, lot, journal, saleRows, seen, today, recast>>

RemoveVariant(v) ==
  LET move == [NoMove EXCEPT ![v] = -variant[v].quantity]
      last == \A w \in Variants \ {v} : variant[w].state # "LIVE"
  IN
  /\ IsLive /\ variant[v].state = "LIVE"
  /\ Persist(move, [product EXCEPT !.hasVariants = @ /\ ~last], lot,
             [variant EXCEPT ![v].state = "GONE"])
  /\ seen' = Reread(move)
  /\ UNCHANGED <<saleRows, alerted, today, recast>>

AddLot(l, day, units) ==
  LET move == [NoMove EXCEPT ![l] = units] IN
  /\ IsLive /\ product.kind = "PRODUCT" /\ product.useLots /\ ~product.hasVariants
  /\ lot[l].state = "NONE"
  /\ Persist(move, product,
             [lot EXCEPT ![l] = [state |-> "LIVE", quantity |-> 0, expires |-> day]], variant)
  /\ alerted' = AlertsAfter(move)
  /\ seen' = Reread(move)
  /\ UNCHANGED <<saleRows, today, recast>>

EditLotDate(l, day) ==
  /\ lot[l].state = "LIVE"
  /\ lot' = [lot EXCEPT ![l].expires = day]
  /\ UNCHANGED <<product, variant, journal, saleRows, alerted, seen, today, recast>>

RemoveLot(l) ==
  /\ lot[l].state = "LIVE" /\ lot[l].quantity = 0
  /\ lot' = [lot EXCEPT ![l].state = "GONE"]
  /\ UNCHANGED <<product, variant, journal, saleRows, alerted, seen, today, recast>>

-----------------------------------------------------------------------------
(* Sales *)

(* isLotExpired, and the order of allocateFefo.                            *)
Sellable == {l \in Lots : lot[l].state = "LIVE" /\ lot[l].quantity > 0 /\ lot[l].expires >= today}
Sooner(l) == {k \in Sellable : \/ lot[k].expires < lot[l].expires
                               \/ lot[k].expires = lot[l].expires /\ k < l}

Left(units, set) == Max({0, units - InLots(set)})

(* allocateFefo: what each lot gives after the lots that expire before it. *)
Allotment(units) ==
  [b \in Buckets |->
     CASE b = Untracked  -> -Left(units, Sellable)
       [] b \in Lots     -> IF b \in Sellable
                            THEN -Min({lot[b].quantity, Left(units, Sooner(b))}) ELSE 0
       [] b \in Variants -> 0]

Take(s, move) ==
  /\ order[s] = "DRAFT"
  /\ Persist(move, product, lot, variant)
  /\ order' = [order EXCEPT ![s] = "CONFIRMED"]
  /\ taken' = [taken EXCEPT ![s] = [b \in Buckets |-> -move[b]]]
  /\ alerted' = AlertsAfter(move)
  /\ seen' = Reread(move)
  /\ UNCHANGED <<given, today, recast>>

(* A line of the product; one that is not tracked takes nothing.           *)
ChargeProduct(s, units) ==
  /\ IsLive
  /\ IF product.tracked
     THEN Left(units, Sellable) <= Loose /\ Take(s, Allotment(units))
     ELSE Take(s, NoMove)

ChargeVariant(s, v, units) ==
  /\ variant[v].state = "LIVE"
  /\ Take(s, [NoMove EXCEPT ![v] = -units])

(* mapSaleReversal, without the buckets that the product has not.          *)
Restored(s) ==
  LET vanished == {l \in Lots : ~Has(l)} IN
  [b \in Buckets |->
     CASE b # Untracked -> IF Has(b) THEN taken[s][b] ELSE 0
       [] b = Untracked -> IF Accepts(b) THEN taken[s][b] + Total(taken[s], vanished) ELSE 0]

(* reverseSale counts the SALE_CANCELLATION rows under the product lock.   *)
Reversed(s) == given[s] # NoMove

(* applyLot throws, and the cancellation with it.                          *)
Blocked(s) == ~Reversed(s) /\ \E l \in Lots : taken[s][l] > 0 /\ Has(l) /\ ~Accepts(l)

(* cancelSale; a sale that an older copy made CONFIRMED again is canceled  *)
(* again.                                                                  *)
ReverseSale(s) ==
  LET move == IF Reversed(s) THEN NoMove ELSE Restored(s) IN
  /\ order[s] \in {"CONFIRMED", "CANCELED"}
  /\ ~Blocked(s)
  /\ Persist(move, product, lot, variant)
  /\ order' = [order EXCEPT ![s] = "CANCELED"]
  /\ given' = [given EXCEPT ![s] = [b \in Buckets |-> @[b] + move[b]]]
  /\ alerted' = AlertsAfter(move)
  /\ seen' = Reread(move)
  /\ UNCHANGED <<taken, today, recast>>

-----------------------------------------------------------------------------
(* Adjustments *)

ReadStock(a, b) ==
  /\ IsLive /\ Has(b)
  /\ seen' = [seen EXCEPT ![a] = [bucket |-> b, units |-> Units(b)]]
  /\ UNCHANGED <<product, lot, variant, journal, saleRows, alerted, today, recast>>

(* InventoryCommands.execute: expectedVersion is the version that was read.*)
Adjust(a, delta) ==
  LET move == [NoMove EXCEPT ![seen[a].bucket] = delta] IN
  /\ seen[a].bucket \in Buckets
  /\ IsLive /\ product.tracked /\ product.kind = "PRODUCT"
  /\ Accepts(seen[a].bucket)
  /\ Persist(move, product, lot, variant)
  /\ alerted' = AlertsAfter(move)
  /\ seen' = [Reread(move) EXCEPT ![a] = Unread]
  /\ UNCHANGED <<saleRows, today, recast>>

NextDay ==
  /\ today < MaxDay
  /\ today' = today + 1
  /\ UNCHANGED <<product, lot, variant, journal, saleRows, alerted, seen, recast>>

-----------------------------------------------------------------------------
StockNext ==
  \/ /\ product.state = "NONE"
     /\ \E tracked, useLots, hasVariants \in BOOLEAN, units \in OnHand, min \in Thresholds,
           newLots \in SUBSET Lots, day \in Days, newVariants \in SUBSET Variants :
          CreateProduct(tracked, useLots, hasVariants, units, min, newLots, day, newVariants)
  \/ RemoveProduct
  \/ \E min \in Thresholds : EditMin(min)
  \/ \E useLots \in BOOLEAN : SwitchLots(useLots)
  \/ Untrack \/ Track \/ EnableVariants \/ DisableVariants \/ ToService
  \/ \E tracked, useLots, named \in BOOLEAN, min \in Thresholds :
       ToProduct(tracked, useLots, min, named)
  \/ \E v \in Variants : \/ \E min \in Thresholds : \/ EditVariantMin(v, min)
                                                    \/ \E u \in OnHand : AddVariant(v, min, u)
                         \/ RemoveVariant(v)
  \/ \E l \in Lots : \/ \E day \in Days : \/ EditLotDate(l, day)
                                          \/ \E u \in OnHand : AddLot(l, day, u)
                     \/ RemoveLot(l)
  \/ \E s \in StockSales : \/ \E u \in OnHand \ {0} : \/ ChargeProduct(s, u)
                                                          \/ \E v \in Variants : ChargeVariant(s, v, u)
                           \/ ReverseSale(s)
  \/ \E a \in Adjusters : \/ \E b \in Buckets : ReadStock(a, b)
                          \/ \E d \in (-MaxOnHand..MaxOnHand) \ {0} : Adjust(a, d)
  \/ NextDay

StockSpec == StockInit /\ [][StockNext]_stockVars

-----------------------------------------------------------------------------
(* "Keeps the balance chain exact": whatever the product is converted to,  *)
(* the movements of a bucket sum up to what it holds, and to nothing once  *)
(* it is gone; the parent of variants holds nothing and no lot holds units *)
(* that the product has not (persist, removeProductStock, addVariant).     *)
JournalIsStock ==
  /\ journal[Untracked] = IF IsLive THEN Loose ELSE 0
  /\ \A l \in Lots : journal[l] = IF lot[l].state = "LIVE" THEN lot[l].quantity ELSE 0
  /\ \A v \in Variants : journal[v] = IF variant[v].state = "LIVE" THEN variant[v].quantity ELSE 0
  /\ Loose >= 0
  /\ IsLive /\ product.hasVariants => product.quantity = 0 /\ InLots(Lots) = 0

(* A sale gives back at most what it took, however often it is canceled:   *)
(* to the variant or the lot it took it from, or to the untracked units    *)
(* when the lot is gone (reverseSale, mapSaleReversal).                    *)
RestoredOnce ==
  \A s \in StockSales :
    /\ \A b \in Lots \cup Variants : given[s][b] <= taken[s][b]
    /\ Total(given[s], {Untracked} \cup Lots) <= Total(taken[s], {Untracked} \cup Lots)

(* The journal explains every unit, and restores none twice.               *)
JournalAddsUp == JournalIsStock /\ RestoredOnce

(* The version that an adjuster read stands for the balance he read: an    *)
(* adjustment that is accepted changes what he saw (checkVersion).         *)
VersionTellsBalance ==
  \A a \in Adjusters :
    seen[a].bucket \in Buckets /\ Has(seen[a].bucket) => Units(seen[a].bucket) = seen[a].units

(* Stock above its threshold always has its alert armed, whether units or  *)
(* the threshold moved: otherwise the next shortage goes unnoticed         *)
(* (LowStockCrossing, rearmAlertAfterEdit).  Only what was a service can   *)
(* escape: a conversion back that names no minimum lowers it to nothing    *)
(* and re-arms nothing, and no conversion moves a row of the variants.     *)
ArmedAboveThreshold ==
  IsLive /\ product.tracked /\ ~recast =>
    /\ product.quantity > product.min => ~alerted[Untracked]
    /\ \A v \in Variants :
         variant[v].state = "LIVE" /\ variant[v].quantity > variant[v].min => ~alerted[v]

(* "The system MUST allow cancellation of a CONFIRMED sale that is not     *)
(* SHIPPED or DELIVERED": the journal never refuses to restore one.        *)
CancellationRestores ==
  \A s \in StockSales : order[s] = "CONFIRMED" => ~Blocked(s)
=============================================================================
