------------------------- MODULE PromotionCapacity --------------------------
(***************************************************************************)
(* The product units a promotion may give away.  A confirmed sale claims   *)
(* units of the promotions it used: it inserts a row per promotion in the  *)
(* ledger promotion_usages and raises consumedProductUnits of the          *)
(* promotion, in its own transaction; a cancellation stamps the rows and   *)
(* lowers the counters.  Meanwhile operators edit promotions (an edit      *)
(* reads the promotion, validates, and saves it in a later transaction)    *)
(* and delete them.                                                        *)
(*                                                                         *)
(* A transaction raises each counter by one guarded UPDATE, which locks    *)
(* the row until it commits: it is one step here.                          *)
(***************************************************************************)
EXTENDS Integers, FiniteSets, Functions

CONSTANTS
  Promos,     \* promotions
  PromoSales, \* sales
  Editors,    \* operators that edit a promotion at the same time
  Caps,       \* values of maxProductUnits
  MaxUnits,   \* units of one promotion that one sale takes
  IntMax,     \* PG_INT_MAX
  MaxEdits,   \* bound on the edits and on the drafts written back
  NoCap,      \* maxProductUnits is null
  Keep        \* a request without maxProductUnits

ASSUME CapacityAssumption ==
  /\ Caps \subseteq 1..IntMax
  /\ MaxUnits \in Nat \ {0} /\ IntMax \in Nat /\ MaxEdits \in Nat
  /\ NoCap \notin Int /\ Keep \notin Int \cup {NoCap}

VARIABLES
  promo,      \* promotions
  usage,      \* promotion_usages, by sale and promotion
  claimSale,  \* status of each sale
  edit,       \* what each operator has read and asked for
  edits,      \* edits and written-back drafts so far
  announced,  \* near-capacity events per promotion
  restored,   \* history: ledger rows of each promotion that were restored
  recapped,   \* history: promotions whose cap an edit changed
  revived     \* history: promotions an edit inserted again after a deletion

ledgerVars == <<usage, claimSale, announced, restored>>
editVars == <<edit, edits, recapped, revived>>
capacityVars == <<promo, usage, claimSale, edit, edits, announced, restored, recapped, revived>>

-----------------------------------------------------------------------------
Promotion == [exists : BOOLEAN, cap : Caps \cup {NoCap}, consumed : 0..IntMax]

NoUsage == [state |-> "NONE", units |-> 0]
NoEdit == [busy |-> FALSE, cap |-> Keep, copy |-> [cap |-> NoCap, consumed |-> 0]]

CapacityInit ==
  /\ promo \in [Promos -> Promotion]
  /\ \A p \in Promos : promo[p].exists /\ promo[p].consumed = 0
  /\ usage = [s \in PromoSales |-> [p \in Promos |-> NoUsage]]
  /\ claimSale = [s \in PromoSales |-> "DRAFT"]
  /\ edit = [e \in Editors |-> [p \in Promos |-> NoEdit]]
  /\ edits = 0
  /\ announced = [p \in Promos |-> 0]
  /\ restored = [p \in Promos |-> 0]
  /\ recapped = {}
  /\ revived = {}

-----------------------------------------------------------------------------
(* Claiming: claimForSale *)

(* The WHERE clause of the guarded increment.                              *)
Fits(p, units) ==
  /\ promo[p].consumed <= IntMax - units
  /\ promo[p].cap # NoCap => promo[p].consumed <= promo[p].cap - units

(* publishNearCapacityIfCrossed.                                           *)
Crossed(p, units) ==
  /\ promo[p].cap # NoCap
  /\ promo[p].consumed * 5 < promo[p].cap * 4
  /\ (promo[p].consumed + units) * 5 >= promo[p].cap * 4

(* The ledger row is inserted unless there is one.                         *)
InsertedAlways(s, p) == TRUE

Inserted(s, p) == usage[s][p].state = "NONE"

(* assertIdempotentRetry.                                                  *)
Repeated(s, p, units) == usage[s][p] = [state |-> "ACTIVE", units |-> units]

(* A charge, or the confirmation of a sale of the bot, with the units of   *)
(* each promotion that its lines used; claims holds no zero.               *)
Claim(s, claims) ==
  LET claimed == DOMAIN claims
      new == {p \in claimed : Inserted(s, p)}
  IN
  /\ claimSale[s] = "DRAFT"
  /\ \A p \in claimed : promo[p].exists
  /\ \A p \in new : Fits(p, claims[p])
  /\ \A p \in claimed \ new : Repeated(s, p, claims[p])
  /\ claimSale' = [claimSale EXCEPT ![s] = "CONFIRMED"]
  /\ usage' = [usage EXCEPT ![s] = [p \in Promos |->
                 IF p \in new THEN [state |-> "ACTIVE", units |-> claims[p]] ELSE @[p]]]
  /\ promo' = [p \in Promos |->
                 IF p \in new THEN [promo[p] EXCEPT !.consumed = @ + claims[p]] ELSE promo[p]]
  /\ announced' = [p \in Promos |->
                     announced[p] + IF p \in new /\ Crossed(p, claims[p]) THEN 1 ELSE 0]
  /\ UNCHANGED <<restored, editVars>>

(* A stale edit of the lines of a sale writes it back as a draft           *)
(* (saveDraftItems): its ledger rows stay.                                 *)
WriteDraftBack(s) ==
  /\ claimSale[s] \in {"CONFIRMED", "CANCELED"}
  /\ edits < MaxEdits
  /\ edits' = edits + 1
  /\ claimSale' = [claimSale EXCEPT ![s] = "DRAFT"]
  /\ UNCHANGED <<promo, usage, announced, restored, edit, recapped, revived>>

-----------------------------------------------------------------------------
(* Giving back: restoreForSale *)

Restorable(s, p) == usage[s][p].state = "ACTIVE"

(* A cancellation: the guarded decrement fails the transaction if the      *)
(* counter is below the ledger.                                            *)
CancelClaims(s) ==
  LET rows == {p \in Promos : Restorable(s, p)}
  IN
  /\ claimSale[s] = "CONFIRMED"
  /\ \A p \in rows : promo[p].consumed >= usage[s][p].units
  /\ claimSale' = [claimSale EXCEPT ![s] = "CANCELED"]
  /\ usage' = [usage EXCEPT ![s] = [p \in Promos |->
                 IF p \in rows THEN [@[p] EXCEPT !.state = "RESTORED"] ELSE @[p]]]
  /\ promo' = [p \in Promos |->
                 IF p \in rows THEN [promo[p] EXCEPT !.consumed = @ - usage[s][p].units]
                               ELSE promo[p]]
  /\ restored' = [p \in Promos |-> restored[p] + IF p \in rows THEN 1 ELSE 0]
  /\ UNCHANGED <<announced, editVars>>

-----------------------------------------------------------------------------
(* Editing *)

Asked(request, copy) == IF request = Keep THEN copy.cap ELSE request

(* updateMaxProductUnits: validated against the counter as it was read.    *)
Valid(cap, consumed) == cap # NoCap => consumed <= cap

(* update reads the promotion ...                                          *)
Read(e, p, request) ==
  LET copy == [cap |-> promo[p].cap, consumed |-> promo[p].consumed]
  IN
  /\ ~edit[e][p].busy
  /\ edits < MaxEdits
  /\ promo[p].exists
  /\ Valid(Asked(request, copy), copy.consumed)
  /\ edits' = edits + 1
  /\ edit' = [edit EXCEPT ![e][p] = [busy |-> TRUE, cap |-> request, copy |-> copy]]
  /\ UNCHANGED <<promo, ledgerVars, recapped, revived>>

(* The counter a save leaves: an update never writes it, an insert writes  *)
(* the one that was read.                                                  *)
SavedCounter(p, copy) == IF promo[p].exists THEN promo[p].consumed ELSE copy.consumed

(* ... and saves it, later: the upsert, then the cap if the live counter   *)
(* allows it; the transaction is rolled back if not.                       *)
RecapsBlind(cap, consumed) == TRUE

Recaps(cap, consumed) == cap # NoCap => consumed <= cap

Save(e, p) ==
  LET copy == edit[e][p].copy
      cap == Asked(edit[e][p].cap, copy)
      consumed == SavedCounter(p, copy)
  IN
  /\ edit[e][p].busy
  /\ edit' = [edit EXCEPT ![e][p] = NoEdit]
  /\ IF Recaps(cap, consumed)
       THEN /\ promo' = [promo EXCEPT ![p] = [exists |-> TRUE, cap |-> cap,
                                             consumed |-> consumed]]
            /\ recapped' = IF cap # promo[p].cap THEN recapped \cup {p} ELSE recapped
            /\ revived' = IF promo[p].exists THEN revived ELSE revived \cup {p}
       ELSE UNCHANGED <<promo, recapped, revived>>
  /\ UNCHANGED <<ledgerVars, edits>>

(* remove: the ledger rows go with the promotion (ON DELETE CASCADE).      *)
Delete(p) ==
  /\ promo[p].exists
  /\ promo' = [promo EXCEPT ![p] = [exists |-> FALSE, cap |-> NoCap, consumed |-> 0]]
  /\ usage' = [s \in PromoSales |-> [usage[s] EXCEPT ![p] = NoUsage]]
  /\ UNCHANGED <<claimSale, announced, restored, editVars>>

-----------------------------------------------------------------------------
Claims == UNION {[ps -> 1..MaxUnits] : ps \in SUBSET Promos}

CapacityNext ==
  \/ \E s \in PromoSales : \/ \E claims \in Claims : Claim(s, claims)
                      \/ WriteDraftBack(s)
                      \/ CancelClaims(s)
  \/ \E p \in Promos : \/ \E e \in Editors :
                            \/ \E request \in Caps \cup {NoCap, Keep} : Read(e, p, request)
                            \/ Save(e, p)
                       \/ Delete(p)

CapacitySpec == CapacityInit /\ [][CapacityNext]_capacityVars

-----------------------------------------------------------------------------
(* Every row holds the values its columns can hold: no counter overflows   *)
(* or goes below zero.                                                     *)
CapacityTypeOK ==
  /\ promo \in [Promos -> Promotion]
  /\ usage \in [PromoSales -> [Promos -> [state : {"NONE", "ACTIVE", "RESTORED"},
                                     units : 0..MaxUnits]]]
  /\ claimSale \in [PromoSales -> {"DRAFT", "CONFIRMED", "CANCELED"}]
  /\ edit \in [Editors -> [Promos ->
                 [busy : BOOLEAN, cap : Caps \cup {NoCap, Keep},
                  copy : [cap : Caps \cup {NoCap}, consumed : 0..IntMax]]]]
  /\ edits \in Nat
  /\ announced \in [Promos -> Nat] /\ restored \in [Promos -> Nat]
  /\ recapped \subseteq Promos /\ revived \subseteq Promos

(* No interleaving of sales and edits gives away more than the cap, even   *)
(* though an edit validates the cap against a counter it read earlier      *)
(* (claimForSale, save).                                                   *)
WithinCap ==
  \A p \in Promos : promo[p].cap # NoCap => promo[p].consumed <= promo[p].cap

Active(p) == {s \in PromoSales : usage[s][p].state = "ACTIVE"}
LedgerSum(p) == SumFunction([s \in Active(p) |-> usage[s][p].units])

(* The counter says exactly what the ledger says, charges that are         *)
(* repeated after a sale went back to draft included (claimForSale).  Only *)
(* an edit that brings a deleted promotion back may leave it above the     *)
(* ledger; it is never below it, which would refuse a cancellation         *)
(* (restoreForSale).                                                       *)
LedgerExact ==
  \A p \in Promos :
    /\ LedgerSum(p) <= promo[p].consumed
    /\ p \notin revived => promo[p].consumed = LedgerSum(p)

(* A canceled sale holds no units (restoreForSale).                        *)
CanceledHoldsNothing ==
  \A s \in PromoSales : claimSale[s] = "CANCELED" =>
    \A p \in Promos : usage[s][p].state # "ACTIVE"

(* A promotion whose cap stays as it is reaches four fifths of it only     *)
(* with an announcement, and is announced once per crossing                *)
(* (publishNearCapacityIfCrossed).                                         *)
NearCapacityAnnounced ==
  \A p \in Promos \ (recapped \cup revived) :
    /\ promo[p].cap # NoCap /\ promo[p].consumed * 5 >= promo[p].cap * 4
         => announced[p] >= 1
    /\ announced[p] <= 1 + restored[p]
=============================================================================
