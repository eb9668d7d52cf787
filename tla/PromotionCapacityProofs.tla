---------------------- MODULE PromotionCapacityProofs -----------------------
(***************************************************************************)
(* Proofs about PromotionCapacity, for any promotions, sales, operators    *)
(* and caps.  The type invariant, the cap and the emptiness of canceled    *)
(* sales are inductive together: a claim raises a counter only where the   *)
(* row it locks leaves room, and an edit lowers a cap only onto the live   *)
(* counter.  On them stands the ledger: a deleted promotion has no active  *)
(* row, so what an edit inserts again is never below the ledger.           *)
(***************************************************************************)
EXTENDS PromotionCapacity, SumProofs, TLAPS

Inv ==
  /\ CapacityTypeOK
  /\ WithinCap
  /\ CanceledHoldsNothing

Usage == [state : {"NONE", "ACTIVE", "RESTORED"}, units : 0..MaxUnits]

Edit == [busy : BOOLEAN, cap : Caps \cup {NoCap, Keep},
         copy : [cap : Caps \cup {NoCap}, consumed : 0..IntMax]]

(* The empty rows are rows.                                                *)
LEMMA EmptyRows == NoUsage \in Usage /\ NoEdit \in Edit
BY CapacityAssumption DEF NoUsage, NoEdit, Usage, Edit

-----------------------------------------------------------------------------
(* Nothing is claimed before the first sale.                               *)
LEMMA InvAtFirst == CapacityInit => Inv
<1> SUFFICES ASSUME CapacityInit PROVE Inv
  OBVIOUS
<1> USE CapacityAssumption DEF CapacityInit
<1>1. \A p \in Promos : promo[p].consumed = 0 /\ promo[p].cap \in Caps \cup {NoCap}
  BY DEF Promotion
<1>2. usage \in [PromoSales -> [Promos -> Usage]] /\ edit \in [Editors -> [Promos -> Edit]]
  BY EmptyRows
<1>3. CapacityTypeOK
  BY <1>2 DEF CapacityTypeOK, Usage, Edit
<1>4. WithinCap
  <2> SUFFICES ASSUME NEW p \in Promos, promo[p].cap # NoCap
               PROVE  0 <= promo[p].cap
    BY <1>1 DEF WithinCap
  <2>1. promo[p].cap \in 1..IntMax
    BY <1>1
  <2> QED
    BY <2>1
<1>5. CanceledHoldsNothing
  BY DEF CanceledHoldsNothing
<1> QED
  BY <1>3, <1>4, <1>5 DEF Inv

(* A claim finds room under the cap and within the integer.                *)
LEMMA ClaimKeeps ==
  ASSUME Inv, NEW s \in PromoSales, NEW claims \in Claims, Claim(s, claims)
  PROVE  Inv'
<1> DEFINE claimed == DOMAIN claims
           new == {p \in claimed : Inserted(s, p)}
<1> USE CapacityAssumption DEF Inv
<1>1. claimed \subseteq Promos /\ \A p \in claimed : claims[p] \in 1..MaxUnits
  BY DEF Claims
<1>2. /\ \A p \in new : Fits(p, claims[p]) /\ p \in claimed
      /\ claimSale' = [claimSale EXCEPT ![s] = "CONFIRMED"]
      /\ usage' = [usage EXCEPT ![s] = [p \in Promos |->
                     IF p \in new THEN [state |-> "ACTIVE", units |-> claims[p]] ELSE @[p]]]
      /\ promo' = [p \in Promos |->
                     IF p \in new THEN [promo[p] EXCEPT !.consumed = @ + claims[p]]
                                  ELSE promo[p]]
      /\ announced' = [p \in Promos |->
                         announced[p] + IF p \in new /\ Crossed(p, claims[p]) THEN 1 ELSE 0]
      /\ UNCHANGED <<restored, editVars>>
  BY DEF Claim
<1> HIDE DEF new, claimed
<1>3. \A p \in Promos : /\ promo'[p] \in Promotion
                        /\ promo'[p].cap # NoCap => promo'[p].consumed <= promo'[p].cap
  <2> TAKE p \in Promos
  <2>1. promo[p] \in Promotion /\ (promo[p].cap # NoCap => promo[p].consumed <= promo[p].cap)
    BY DEF CapacityTypeOK, WithinCap
  <2>2. CASE p \in new
    <3> DEFINE r == [promo[p] EXCEPT !.consumed = @ + claims[p]]
    <3>1. promo'[p] = r /\ claims[p] \in 1..MaxUnits /\ Fits(p, claims[p])
      BY <1>1, <1>2, <2>2
    <3>2. /\ r.exists = promo[p].exists /\ r.cap = promo[p].cap
          /\ r.consumed = promo[p].consumed + claims[p]
          /\ r = [exists |-> r.exists, cap |-> r.cap, consumed |-> r.consumed]
      BY <2>1 DEF Promotion
    <3>3. /\ promo[p].consumed \in 0..IntMax /\ promo[p].consumed + claims[p] <= IntMax
          /\ promo[p].cap # NoCap =>
               promo[p].cap \in Int /\ promo[p].consumed + claims[p] <= promo[p].cap
      BY <2>1, <3>1 DEF Fits, Promotion
    <3>4. r \in Promotion
      <4>1. r.consumed \in 0..IntMax
        BY <3>1, <3>2, <3>3
      <4>2. r.exists \in BOOLEAN /\ r.cap \in Caps \cup {NoCap}
        BY <2>1, <3>2 DEF Promotion
      <4> HIDE DEF r
      <4> QED
        BY <3>2, <4>1, <4>2 DEF Promotion
    <3> QED
      BY <3>1, <3>2, <3>3, <3>4
  <2>3. CASE p \notin new
    BY <1>2, <2>1, <2>3
  <2> QED
    BY <2>2, <2>3
<1>4. usage' \in [PromoSales -> [Promos -> Usage]]
  <2> DEFINE row == [p \in Promos |->
                       IF p \in new THEN [state |-> "ACTIVE", units |-> claims[p]]
                                    ELSE usage[s][p]]
  <2>1. usage \in [PromoSales -> [Promos -> Usage]]
    BY DEF CapacityTypeOK, Usage
  <2>2. \A p \in new : [state |-> "ACTIVE", units |-> claims[p]] \in Usage
    BY <1>1, <1>2 DEF Usage
  <2>3. row \in [Promos -> Usage]
    BY <2>1, <2>2
  <2>4. usage' = [usage EXCEPT ![s] = row]
    BY <1>2
  <2> HIDE DEF row
  <2> QED
    BY <2>1, <2>3, <2>4
<1>5. /\ promo' \in [Promos -> Promotion] /\ WithinCap'
      /\ claimSale' \in [PromoSales -> {"DRAFT", "CONFIRMED", "CANCELED"}]
      /\ announced' \in [Promos -> Nat]
  <2>1. promo' \in [Promos -> Promotion] /\ WithinCap'
    BY <1>2, <1>3 DEF WithinCap
  <2>2. announced' \in [Promos -> Nat]
    BY <1>2 DEF CapacityTypeOK
  <2> QED
    BY <1>2, <2>1, <2>2 DEF CapacityTypeOK
<1>6. CapacityTypeOK'
  BY <1>2, <1>4, <1>5 DEF CapacityTypeOK, Usage, editVars
<1>7. CanceledHoldsNothing'
  BY <1>2 DEF CanceledHoldsNothing, CapacityTypeOK
<1> QED
  BY <1>5, <1>6, <1>7

(* A cancellation lowers a counter by no more than it holds.               *)
LEMMA CancelKeeps ==
  ASSUME Inv, NEW s \in PromoSales, CancelClaims(s)
  PROVE  Inv'
<1> DEFINE rows == {p \in Promos : Restorable(s, p)}
<1> USE CapacityAssumption DEF Inv
<1>1. /\ \A p \in rows : promo[p].consumed >= usage[s][p].units
      /\ claimSale' = [claimSale EXCEPT ![s] = "CANCELED"]
      /\ usage' = [usage EXCEPT ![s] = [p \in Promos |->
                     IF p \in rows THEN [@[p] EXCEPT !.state = "RESTORED"] ELSE @[p]]]
      /\ promo' = [p \in Promos |->
                     IF p \in rows THEN [promo[p] EXCEPT !.consumed = @ - usage[s][p].units]
                                   ELSE promo[p]]
      /\ restored' = [p \in Promos |-> restored[p] + IF p \in rows THEN 1 ELSE 0]
      /\ UNCHANGED <<announced, editVars>>
  BY DEF CancelClaims
<1>2. \A p \in Promos : p \notin rows => usage[s][p].state # "ACTIVE"
  BY DEF Restorable
<1> HIDE DEF rows
<1>3. \A p \in Promos : /\ promo'[p] \in Promotion
                        /\ promo'[p].cap # NoCap => promo'[p].consumed <= promo'[p].cap
  <2> TAKE p \in Promos
  <2>1. promo[p] \in Promotion /\ (promo[p].cap # NoCap => promo[p].consumed <= promo[p].cap)
    BY DEF CapacityTypeOK, WithinCap
  <2>2. CASE p \in rows
    <3> DEFINE r == [promo[p] EXCEPT !.consumed = @ - usage[s][p].units]
    <3>1. /\ promo'[p] = r /\ usage[s][p].units \in Nat
          /\ promo[p].consumed >= usage[s][p].units
      BY <1>1, <2>2 DEF CapacityTypeOK
    <3>2. /\ r.exists = promo[p].exists /\ r.cap = promo[p].cap
          /\ r.consumed = promo[p].consumed - usage[s][p].units
          /\ r = [exists |-> r.exists, cap |-> r.cap, consumed |-> r.consumed]
      BY <2>1, <3>1 DEF Promotion
    <3>3. /\ promo[p].consumed \in 0..IntMax
          /\ promo[p].cap # NoCap => promo[p].cap \in Int
      <4>1. promo[p].consumed \in 0..IntMax /\ promo[p].cap \in Caps \cup {NoCap}
        BY <2>1 DEF Promotion
      <4>2. \A c \in Caps : c \in Int
        OBVIOUS
      <4> QED
        BY <4>1, <4>2
    <3>4. r \in Promotion
      <4>1. r.consumed \in 0..IntMax
        BY <3>1, <3>2, <3>3
      <4>2. r.exists \in BOOLEAN /\ r.cap \in Caps \cup {NoCap}
        BY <2>1, <3>2 DEF Promotion
      <4> HIDE DEF r
      <4> QED
        BY <3>2, <4>1, <4>2 DEF Promotion
    <3> QED
      BY <2>1, <3>1, <3>2, <3>3, <3>4
  <2>3. CASE p \notin rows
    BY <1>1, <2>1, <2>3
  <2> QED
    BY <2>2, <2>3
<1>4. /\ usage' \in [PromoSales -> [Promos -> Usage]]
      /\ \A p \in Promos : usage'[s][p].state # "ACTIVE"
      /\ \A t \in PromoSales : t # s => usage'[t] = usage[t]
  <2> DEFINE row == [p \in Promos |->
                       IF p \in rows THEN [usage[s][p] EXCEPT !.state = "RESTORED"]
                                     ELSE usage[s][p]]
  <2>1. usage \in [PromoSales -> [Promos -> Usage]]
    BY DEF CapacityTypeOK, Usage
  <2>2. \A p \in Promos : /\ [usage[s][p] EXCEPT !.state = "RESTORED"] \in Usage
                          /\ [usage[s][p] EXCEPT !.state = "RESTORED"].state = "RESTORED"
    <3> TAKE p \in Promos
    <3>1. usage[s][p] \in Usage
      BY <2>1
    <3> QED
      BY <3>1 DEF Usage
  <2>3. row \in [Promos -> Usage] /\ \A p \in Promos : row[p].state # "ACTIVE"
    BY <1>2, <2>1, <2>2
  <2>4. usage' = [usage EXCEPT ![s] = row]
    BY <1>1
  <2> HIDE DEF row
  <2> QED
    BY <2>1, <2>3, <2>4
<1>5. promo' \in [Promos -> Promotion] /\ WithinCap'
  BY <1>1, <1>3 DEF WithinCap
<1>6. restored' \in [Promos -> Nat]
  BY <1>1 DEF CapacityTypeOK
<1>7. CapacityTypeOK'
  BY <1>1, <1>4, <1>5, <1>6 DEF CapacityTypeOK, Usage, editVars
<1>8. CanceledHoldsNothing'
  BY <1>1, <1>4 DEF CanceledHoldsNothing, CapacityTypeOK
<1> QED
  BY <1>5, <1>7, <1>8

(* An edit leaves the counter to the ledger and a cap that holds it; an    *)
(* insertion writes what was read; a deletion leaves nothing.              *)
LEMMA EditKeeps ==
  ASSUME Inv, NEW p \in Promos,
         \/ \E e \in Editors : \/ \E request \in Caps \cup {NoCap, Keep} : Read(e, p, request)
                               \/ Save(e, p)
         \/ Delete(p)
  PROVE  Inv'
<1> USE CapacityAssumption DEF Inv
<1>1. ASSUME NEW e \in Editors, NEW request \in Caps \cup {NoCap, Keep}, Read(e, p, request)
      PROVE  Inv'
  <2> DEFINE r == [busy |-> TRUE, cap |-> request,
                   copy |-> [cap |-> promo[p].cap, consumed |-> promo[p].consumed]]
  <2>1. r \in Edit
    BY DEF CapacityTypeOK, Promotion, Edit
  <2>2. /\ edit' = [edit EXCEPT ![e][p] = r] /\ edits' = edits + 1
        /\ UNCHANGED <<promo, usage, claimSale, announced, restored, recapped, revived>>
    BY <1>1 DEF Read, ledgerVars
  <2> HIDE DEF r
  <2>3. edit' \in [Editors -> [Promos -> Edit]]
    BY <2>1, <2>2 DEF CapacityTypeOK, Edit
  <2> QED
    BY <2>2, <2>3 DEF CapacityTypeOK, WithinCap, CanceledHoldsNothing, Edit
<1>2. ASSUME NEW e \in Editors, Save(e, p)
      PROVE  Inv'
  <2> DEFINE copy == edit[e][p].copy
             cap == Asked(edit[e][p].cap, copy)
             consumed == SavedCounter(p, copy)
             r == [exists |-> TRUE, cap |-> cap, consumed |-> consumed]
  <2>1. /\ copy.cap \in Caps \cup {NoCap} /\ copy.consumed \in 0..IntMax
        /\ edit[e][p].cap \in Caps \cup {NoCap, Keep}
    BY DEF CapacityTypeOK
  <2>2. cap \in Caps \cup {NoCap} /\ consumed \in 0..IntMax
    BY <2>1 DEF Asked, SavedCounter, CapacityTypeOK, Promotion
  <2>3. edit' = [edit EXCEPT ![e][p] = NoEdit]
    BY <1>2 DEF Save
  <2>4. edit' \in [Editors -> [Promos -> Edit]]
    BY <2>3, EmptyRows DEF CapacityTypeOK, Edit
  <2>5. \/ UNCHANGED <<promo, recapped, revived>>
        \/ /\ promo' = [promo EXCEPT ![p] = r] /\ (cap # NoCap => consumed <= cap)
           /\ recapped' \subseteq recapped \cup {p} /\ revived' \subseteq revived \cup {p}
    BY <1>2 DEF Save, Recaps
  <2>6. UNCHANGED <<usage, claimSale, announced, restored, edits>>
    BY <1>2 DEF Save, ledgerVars
  <2>7. r \in Promotion /\ r.cap = cap /\ r.consumed = consumed
    BY <2>2 DEF Promotion
  <2> HIDE DEF copy, cap, consumed, r
  <2>8. promo' \in [Promos -> Promotion] /\ WithinCap'
    BY <2>5, <2>7 DEF CapacityTypeOK, WithinCap
  <2> QED
    BY <2>4, <2>5, <2>6, <2>8 DEF CapacityTypeOK, CanceledHoldsNothing, Edit
<1>3. CASE Delete(p)
  <2> DEFINE r == [exists |-> FALSE, cap |-> NoCap, consumed |-> 0]
  <2>1. r \in Promotion /\ r.cap = NoCap
    BY DEF Promotion
  <2>2. /\ promo' = [promo EXCEPT ![p] = r]
        /\ usage' = [s \in PromoSales |-> [usage[s] EXCEPT ![p] = NoUsage]]
        /\ UNCHANGED <<claimSale, announced, restored, edit, edits, recapped, revived>>
    BY <1>3 DEF Delete, editVars
  <2> HIDE DEF r
  <2>3. promo' \in [Promos -> Promotion] /\ WithinCap'
    BY <2>1, <2>2 DEF CapacityTypeOK, WithinCap
  <2>4. usage \in [PromoSales -> [Promos -> Usage]]
    BY DEF CapacityTypeOK, Usage
  <2>5. usage' \in [PromoSales -> [Promos -> Usage]]
    BY <2>2, <2>4, EmptyRows
  <2>6. \A s \in PromoSales, q \in Promos : usage'[s][q].state = "ACTIVE" => usage[s][q].state = "ACTIVE"
    BY <2>2, <2>4 DEF NoUsage
  <2> QED
    BY <2>2, <2>3, <2>5, <2>6 DEF CapacityTypeOK, CanceledHoldsNothing, Usage
<1> QED
  BY <1>1, <1>2, <1>3

-----------------------------------------------------------------------------
(* Every step keeps the invariant.                                         *)
LEMMA StepKeeps == Inv /\ [CapacityNext]_capacityVars => Inv'
<1> SUFFICES ASSUME Inv, [CapacityNext]_capacityVars PROVE Inv'
  OBVIOUS
<1>1. CASE UNCHANGED capacityVars
  BY <1>1 DEF Inv, capacityVars, CapacityTypeOK, WithinCap, CanceledHoldsNothing
<1>2. ASSUME NEW s \in PromoSales, WriteDraftBack(s) PROVE Inv'
  BY <1>2 DEF Inv, WriteDraftBack, CapacityTypeOK, WithinCap, CanceledHoldsNothing
<1>3. CASE \E s \in PromoSales : (\E claims \in Claims : Claim(s, claims)) \/ CancelClaims(s)
  BY <1>3, ClaimKeeps, CancelKeeps
<1>4. CASE \E p \in Promos : \/ \E e \in Editors :
                                  \/ \E request \in Caps \cup {NoCap, Keep} : Read(e, p, request)
                                  \/ Save(e, p)
                             \/ Delete(p)
  BY <1>4, EditKeeps
<1> QED
  BY <1>1, <1>2, <1>3, <1>4 DEF CapacityNext

-----------------------------------------------------------------------------
(* The ledger of one promotion in two states u and v of the rows.          *)
ActiveIn(u, p) == {s \in PromoSales : u[s][p].state = "ACTIVE"}
SumIn(u, p) == SumFunction([s \in ActiveIn(u, p) |-> u[s][p].units])

(* The active rows of a promotion are finitely many, there are none when it *)
(* is deleted, and the counter is their sum or, revived, at least that.    *)
BookIn(u, row, again, p) ==
  /\ IsFiniteSet(ActiveIn(u, p))
  /\ ~row.exists => ActiveIn(u, p) = {}
  /\ SumIn(u, p) <= row.consumed
  /\ p \notin again => row.consumed = SumIn(u, p)

Booked == \A p \in Promos : BookIn(usage, promo[p], revived, p)

(* A row more adds its units, a row less takes them.                       *)
LEMMA RowAdds ==
  ASSUME NEW u, NEW v, NEW p, NEW s,
         IsFiniteSet(ActiveIn(u, p)), s \notin ActiveIn(u, p),
         ActiveIn(v, p) = ActiveIn(u, p) \cup {s},
         \A t \in ActiveIn(u, p) : v[t][p].units = u[t][p].units,
         \A t \in ActiveIn(v, p) : v[t][p].units \in Nat
  PROVE  SumIn(v, p) = v[s][p].units + SumIn(u, p)
<1> DEFINE S == ActiveIn(u, p)
           f == [t \in S |-> u[t][p].units]
           g == [t \in S \cup {s} |-> v[t][p].units]
<1>1. SumIn(u, p) = SumFunctionOnSet(f, S)
  BY DEF SumIn, SumFunction
<1>2. SumIn(v, p) = SumFunctionOnSet(g, S \cup {s})
  BY DEF SumIn, SumFunction
<1>3. Integral(g, S \cup {s}) /\ g[s] = v[s][p].units /\ \A t \in S : g[t] = f[t]
  BY DEF Integral
<1> HIDE DEF S, f, g
<1>4. SumFunctionOnSet(g, S \cup {s}) = g[s] + SumFunctionOnSet(g, S)
  BY <1>3, SumAdd DEF S
<1>5. SumFunctionOnSet(f, S) = SumFunctionOnSet(g, S)
  BY <1>3, SumSame DEF S
<1> QED
  BY <1>1, <1>2, <1>3, <1>4, <1>5

(* The same active rows have the same sum.                                 *)
LEMMA RowsStay ==
  ASSUME NEW u, NEW v, NEW p, ActiveIn(v, p) = ActiveIn(u, p),
         \A t \in ActiveIn(u, p) : v[t][p].units = u[t][p].units
  PROVE  SumIn(v, p) = SumIn(u, p)
BY DEF SumIn

(* A sum of units is a natural, and none at all for no rows.               *)
LEMMA SumOfRows ==
  ASSUME NEW u, NEW p, IsFiniteSet(ActiveIn(u, p)),
         \A t \in ActiveIn(u, p) : u[t][p].units \in Nat
  PROVE  SumIn(u, p) \in Nat /\ (ActiveIn(u, p) = {} => SumIn(u, p) = 0)
<1> DEFINE f == [t \in ActiveIn(u, p) |-> u[t][p].units]
<1>1. SumIn(u, p) = SumFunctionOnSet(f, ActiveIn(u, p))
  BY DEF SumIn, SumFunction
<1>2. \A t \in ActiveIn(u, p) : f[t] \in Nat
  OBVIOUS
<1> HIDE DEF f
<1> QED
  BY <1>1, <1>2, SumNatural, SumOfNone

(* Where the rows of a promotion stay, its counter must.                   *)
LEMMA BookStays ==
  ASSUME NEW u, NEW v, NEW row, NEW next, NEW again, NEW after, NEW p, BookIn(u, row, again, p),
         \A s \in PromoSales : v[s][p] = u[s][p],
         next.consumed = row.consumed, next.exists = row.exists,
         p \in again => p \in after
  PROVE  BookIn(v, next, after, p)
<1>1. ActiveIn(v, p) = ActiveIn(u, p)
  BY DEF ActiveIn
<1>2. SumIn(v, p) = SumIn(u, p)
  BY <1>1, RowsStay DEF ActiveIn
<1> QED
  BY <1>1, <1>2 DEF BookIn

(* No row is active before the first sale.                                 *)
LEMMA BookedAtFirst == CapacityInit => Booked
<1> SUFFICES ASSUME CapacityInit, NEW p \in Promos
             PROVE  BookIn(usage, promo[p], revived, p)
  BY DEF Booked
<1>1. ActiveIn(usage, p) = {}
  BY DEF CapacityInit, ActiveIn, NoUsage
<1>2. IsFiniteSet({}) /\ SumIn(usage, p) = 0
  BY <1>1, FS_EmptySet, SumOfRows
<1>3. promo[p].exists /\ promo[p].consumed = 0
  BY DEF CapacityInit
<1> QED
  BY <1>1, <1>2, <1>3 DEF BookIn

(* A claim books in the ledger what it adds to the counter.                *)
LEMMA ClaimBooks ==
  ASSUME Inv, Booked, NEW s \in PromoSales, NEW claims \in Claims, Claim(s, claims)
  PROVE  Booked'
<1> DEFINE claimed == DOMAIN claims
           new == {p \in claimed : Inserted(s, p)}
<1>1. claimed \subseteq Promos /\ \A p \in claimed : claims[p] \in 1..MaxUnits
  BY DEF Claims
<1>2. /\ \A p \in new : p \in claimed /\ usage[s][p].state = "NONE" /\ promo[p].exists
      /\ usage' = [usage EXCEPT ![s] = [p \in Promos |->
                     IF p \in new THEN [state |-> "ACTIVE", units |-> claims[p]] ELSE @[p]]]
      /\ promo' = [p \in Promos |->
                     IF p \in new THEN [promo[p] EXCEPT !.consumed = @ + claims[p]]
                                  ELSE promo[p]]
      /\ revived' = revived
  BY DEF Claim, Inserted, editVars
<1> HIDE DEF new, claimed
<1>3. ASSUME NEW p \in Promos
      PROVE  BookIn(usage', promo'[p], revived', p)
  <2>1. \A t \in PromoSales \ {s} : usage'[t] = usage[t]
    BY <1>2 DEF Inv, CapacityTypeOK
  <2>2. CASE p \notin new
    <3>1. usage'[s][p] = usage[s][p] /\ promo'[p] = promo[p]
      BY <1>2, <2>2 DEF Inv, CapacityTypeOK
    <3>2. \A t \in PromoSales : usage'[t][p] = usage[t][p]
      BY <2>1, <3>1
    <3>3. BookIn(usage, promo[p], revived, p)
      BY DEF Booked
    <3>4. revived' = revived
      BY <1>2
    <3> QED
      BY <3>1, <3>2, <3>3, <3>4, BookStays
  <2>3. CASE p \in new
    <3>1. usage'[s][p] = [state |-> "ACTIVE", units |-> claims[p]]
      BY <1>2, <2>3 DEF Inv, CapacityTypeOK
    <3>2. /\ promo'[p].consumed = promo[p].consumed + claims[p]
          /\ promo'[p].exists
          /\ claims[p] \in Nat /\ promo[p].consumed \in Nat
      <4>1. claims[p] \in Nat
        BY <1>1, <1>2, <2>3, CapacityAssumption
      <4>2. promo[p] \in Promotion /\ promo[p].consumed \in Nat
        BY CapacityAssumption DEF Inv, CapacityTypeOK, Promotion
      <4>3. promo'[p] = [promo[p] EXCEPT !.consumed = @ + claims[p]] /\ promo[p].exists
        BY <1>2, <2>3
      <4> QED
        BY <4>1, <4>2, <4>3 DEF Promotion
    <3>3. /\ s \notin ActiveIn(usage, p)
          /\ ActiveIn(usage', p) = ActiveIn(usage, p) \cup {s}
          /\ \A t \in ActiveIn(usage, p) : /\ usage'[t][p].units = usage[t][p].units
                                           /\ usage[t][p].units \in Nat
      BY <1>2, <2>1, <2>3, <3>1 DEF ActiveIn, Inv, CapacityTypeOK
    <3>4. IsFiniteSet(ActiveIn(usage, p)) /\ IsFiniteSet(ActiveIn(usage', p))
      BY <3>3, FS_AddElement DEF Booked, BookIn
    <3>5. /\ SumIn(usage', p) = usage'[s][p].units + SumIn(usage, p)
          /\ SumIn(usage, p) \in Nat
      <4>1. \A t \in ActiveIn(usage', p) : usage'[t][p].units \in Nat
        BY <3>1, <3>2, <3>3
      <4> QED
        BY <3>3, <3>4, <4>1, RowAdds, SumOfRows
    <3>6. /\ SumIn(usage, p) <= promo[p].consumed
          /\ p \notin revived => promo[p].consumed = SumIn(usage, p)
      BY DEF Booked, BookIn
    <3>7. usage'[s][p].units = claims[p]
      BY <3>1
    <3> QED
      BY <3>7, <1>2, <3>1, <3>2, <3>4, <3>5, <3>6 DEF BookIn
  <2> QED
    BY <2>2, <2>3
<1> QED
  BY <1>3 DEF Booked

(* A cancellation takes from the counter what it takes from the ledger.    *)
LEMMA CancelBooks ==
  ASSUME Inv, Booked, NEW s \in PromoSales, CancelClaims(s)
  PROVE  Booked'
<1>1. /\ usage' = [usage EXCEPT ![s] = [p \in Promos |->
                     IF Restorable(s, p) THEN [@[p] EXCEPT !.state = "RESTORED"] ELSE @[p]]]
      /\ promo' = [p \in Promos |->
                     IF Restorable(s, p)
                     THEN [promo[p] EXCEPT !.consumed = @ - usage[s][p].units]
                     ELSE promo[p]]
      /\ revived' = revived
  BY DEF CancelClaims, editVars
<1>2. ASSUME NEW p \in Promos
      PROVE  BookIn(usage', promo'[p], revived', p)
  <2>1. \A t \in PromoSales \ {s} : usage'[t] = usage[t]
    BY <1>1 DEF Inv, CapacityTypeOK
  <2>2. CASE ~Restorable(s, p)
    <3>1. usage'[s][p] = usage[s][p] /\ promo'[p] = promo[p]
      BY <1>1, <2>2 DEF Inv, CapacityTypeOK
    <3>2. \A t \in PromoSales : usage'[t][p] = usage[t][p]
      BY <2>1, <3>1
    <3>3. BookIn(usage, promo[p], revived, p)
      BY DEF Booked
    <3>4. revived' = revived
      BY <1>1
    <3> QED
      BY <3>1, <3>2, <3>3, <3>4, BookStays
  <2>3. CASE Restorable(s, p)
    <3>1. /\ usage[s][p].state = "ACTIVE" /\ usage'[s][p].state = "RESTORED"
          /\ usage[s][p].units \in Nat
      BY <1>1, <2>3 DEF Restorable, Inv, CapacityTypeOK
    <3>2. /\ promo'[p].consumed = promo[p].consumed - usage[s][p].units
          /\ promo'[p].exists = promo[p].exists
          /\ promo[p].consumed \in Nat
      BY <1>1, <2>3 DEF Inv, CapacityTypeOK, Promotion
    <3>3. /\ s \notin ActiveIn(usage', p)
          /\ ActiveIn(usage, p) = ActiveIn(usage', p) \cup {s}
          /\ \A t \in ActiveIn(usage', p) : usage[t][p].units = usage'[t][p].units
          /\ \A t \in ActiveIn(usage, p) : usage[t][p].units \in Nat
      <4>1. \A t \in PromoSales : /\ t # s => usage'[t] = usage[t]
                                 /\ usage[t][p].units \in Nat
        BY <2>1 DEF Inv, CapacityTypeOK
      <4>2. ActiveIn(usage, p) = ActiveIn(usage', p) \cup {s} /\ s \notin ActiveIn(usage', p)
        BY <3>1, <4>1 DEF ActiveIn
      <4> QED
        BY <4>1, <4>2 DEF ActiveIn
    <3>4. IsFiniteSet(ActiveIn(usage', p)) /\ promo[p].exists
      BY <3>3, FS_Subset DEF Booked, BookIn
    <3>5. /\ SumIn(usage, p) = usage[s][p].units + SumIn(usage', p)
          /\ SumIn(usage', p) \in Nat
      BY <3>3, <3>4, RowAdds, SumOfRows
    <3>6. /\ SumIn(usage, p) <= promo[p].consumed
          /\ p \notin revived => promo[p].consumed = SumIn(usage, p)
      BY DEF Booked, BookIn
    <3> QED
      BY <1>1, <3>1, <3>2, <3>4, <3>5, <3>6 DEF BookIn
  <2> QED
    BY <2>2, <2>3
<1> QED
  BY <1>2 DEF Booked

(* An edit that saves leaves the counter, or inserts a promotion that has  *)
(* no rows.                                                                *)
LEMMA SaveBooks ==
  ASSUME Inv, Booked, NEW q \in Promos, NEW e \in Editors, Save(e, q)
  PROVE  Booked'
<1>1. /\ usage' = usage
      /\ \/ promo' = promo /\ revived' = revived
         \/ /\ promo'[q].exists /\ promo'[q].consumed = SavedCounter(q, edit[e][q].copy)
            /\ \A p \in Promos \ {q} : promo'[p] = promo[p]
            /\ revived' = IF promo[q].exists THEN revived ELSE revived \cup {q}
  BY DEF Save, ledgerVars, Inv, CapacityTypeOK
<1>2. ASSUME NEW p \in Promos
      PROVE  BookIn(usage', promo'[p], revived', p)
  <2>1. CASE promo'[p].consumed = promo[p].consumed /\ promo'[p].exists = promo[p].exists
    <3>1. p \in revived => p \in revived'
      BY <1>1
    <3> QED
      BY <1>1, <2>1, <3>1, BookStays DEF Booked
  <2>2. CASE ~(promo'[p].consumed = promo[p].consumed /\ promo'[p].exists = promo[p].exists)
    <3>1. p = q /\ ~promo[q].exists /\ q \in revived'
      <4>1. p = q
        BY <1>1, <2>2
      <4>2. CASE promo[q].exists
        BY <1>1, <2>2, <4>1, <4>2 DEF SavedCounter, Inv, CapacityTypeOK, Promotion
      <4> QED
        BY <1>1, <2>2, <4>1, <4>2
    <3>2. promo'[q].exists /\ promo'[q].consumed \in Nat
      BY <1>1, <2>2, <3>1 DEF SavedCounter, Inv, CapacityTypeOK
    <3>3. ActiveIn(usage, q) = {} /\ IsFiniteSet(ActiveIn(usage, q))
      BY <3>1 DEF Booked, BookIn
    <3>4. SumIn(usage, q) = 0
      BY <3>3, SumOfRows
    <3> QED
      BY <1>1, <3>1, <3>2, <3>3, <3>4 DEF BookIn
  <2> QED
    BY <2>1, <2>2
<1> QED
  BY <1>2 DEF Booked

(* A deletion leaves neither rows nor a counter.                           *)
LEMMA DeleteBooks ==
  ASSUME Inv, Booked, NEW q \in Promos, Delete(q)
  PROVE  Booked'
<1>1. /\ promo'[q].consumed = 0
      /\ \A p \in Promos \ {q} : promo'[p] = promo[p]
      /\ \A s \in PromoSales :
           /\ usage'[s][q] = NoUsage
           /\ \A p \in Promos \ {q} : usage'[s][p] = usage[s][p]
      /\ revived' = revived
  BY DEF Delete, editVars, Inv, CapacityTypeOK
<1>2. ASSUME NEW p \in Promos
      PROVE  BookIn(usage', promo'[p], revived', p)
  <2>1. CASE p # q
    BY <1>1, <2>1, BookStays DEF Booked
  <2>2. CASE p = q
    <3>1. ActiveIn(usage', q) = {}
      BY <1>1 DEF ActiveIn, NoUsage
    <3>2. SumIn(usage', q) = 0 /\ IsFiniteSet(ActiveIn(usage', q))
      BY <3>1, FS_EmptySet, SumOfRows
    <3> QED
      BY <1>1, <2>2, <3>1, <3>2 DEF BookIn
  <2> QED
    BY <2>1, <2>2
<1> QED
  BY <1>2 DEF Booked

(* Steps that touch neither rows nor promotions keep the ledger too.       *)
LEMMA OthersBook ==
  ASSUME Booked, UNCHANGED <<promo, usage, revived>>
  PROVE  Booked'
BY BookStays DEF Booked

(* So the ledger is kept by every step.                                    *)
LEMMA StepBooks == Inv /\ Booked /\ [CapacityNext]_capacityVars => Booked'
<1> SUFFICES ASSUME Inv, Booked, [CapacityNext]_capacityVars PROVE Booked'
  OBVIOUS
<1>1. CASE UNCHANGED capacityVars
  BY <1>1, OthersBook DEF capacityVars
<1>2. ASSUME NEW s \in PromoSales, WriteDraftBack(s) PROVE Booked'
  BY <1>2, OthersBook DEF WriteDraftBack
<1>3. ASSUME NEW e \in Editors, NEW p \in Promos, NEW request \in Caps \cup {NoCap, Keep},
             Read(e, p, request)
      PROVE  Booked'
  BY <1>3, OthersBook DEF Read, ledgerVars
<1> QED
  BY <1>1, <1>2, <1>3, ClaimBooks, CancelBooks, SaveBooks, DeleteBooks DEF CapacityNext

(* No counter overflows or goes below zero, no promotion gives away more   *)
(* than its cap, and a canceled sale holds no units (claimForSale,         *)
(* restoreForSale, save).                                                  *)
THEOREM CapacityIsKept == CapacitySpec => [](CapacityTypeOK /\ WithinCap /\ CanceledHoldsNothing)
<1>1. Inv => CapacityTypeOK /\ WithinCap /\ CanceledHoldsNothing
  BY DEF Inv
<1> QED
  BY <1>1, InvAtFirst, StepKeeps, PTL DEF CapacitySpec

(* The counter of a promotion is the sum of its active ledger rows; only   *)
(* an edit that brings a deleted promotion back leaves it above, and it is *)
(* never below (claimForSale, restoreForSale, save).                       *)
THEOREM CounterIsLedger == CapacitySpec => []LedgerExact
<1>1. Booked => LedgerExact
  BY DEF Booked, BookIn, LedgerExact, LedgerSum, SumIn, Active, ActiveIn
<1> QED
  BY <1>1, InvAtFirst, BookedAtFirst, StepKeeps, StepBooks, PTL DEF CapacitySpec

-----------------------------------------------------------------------------
(* What was announced of a promotion whose cap nobody changed: below four  *)
(* fifths no more often than units came back, above them at least once.    *)
Near(p) == promo[p].consumed * 5 >= promo[p].cap * 4

ToldAt(p) ==
  p \notin recapped \cup revived =>
    /\ announced[p] <= 1 + restored[p]
    /\ promo[p].cap # NoCap /\ Near(p) => announced[p] >= 1
    /\ promo[p].cap # NoCap /\ ~Near(p) => announced[p] <= restored[p]

Told == \A p \in Promos : ToldAt(p)

(* Nothing is near a cap before the first sale.                            *)
LEMMA ToldAtFirst == CapacityInit => Told
<1> SUFFICES ASSUME CapacityInit, NEW p \in Promos PROVE ToldAt(p)
  BY DEF Told
<1>1. announced[p] = 0 /\ restored[p] = 0 /\ promo[p].consumed = 0
  BY DEF CapacityInit
<1>2. promo[p].cap # NoCap => promo[p].cap \in Nat \ {0}
  <2>1. promo[p].cap \in Caps \cup {NoCap}
    BY DEF CapacityInit, Promotion
  <2>2. \A c \in Caps : c \in Nat \ {0}
    BY CapacityAssumption
  <2> QED
    BY <2>1, <2>2
<1> QED
  BY <1>1, <1>2 DEF ToldAt, Near

(* The numbers of one promotion.                                           *)
LEMMA Numbers ==
  ASSUME Inv, NEW p \in Promos
  PROVE  /\ promo[p] \in Promotion /\ promo[p].consumed \in Nat
         /\ promo[p].cap # NoCap => promo[p].cap \in Nat
         /\ announced[p] \in Nat /\ restored[p] \in Nat
<1>1. promo[p] \in Promotion /\ announced[p] \in Nat /\ restored[p] \in Nat
  BY DEF Inv, CapacityTypeOK
<1>2. promo[p].cap \in Caps \cup {NoCap} /\ promo[p].consumed \in 0..IntMax
  BY <1>1 DEF Promotion
<1>3. \A c \in Caps : c \in Nat
  BY CapacityAssumption
<1>4. promo[p].consumed \in Nat
  <2>1. IntMax \in Nat
    BY CapacityAssumption
  <2> QED
    BY <1>2, <2>1
<1> QED
  BY <1>1, <1>2, <1>3, <1>4

(* A claim that crosses announces.                                         *)
LEMMA ClaimTells ==
  ASSUME Inv, Told, NEW s \in PromoSales, NEW claims \in Claims, Claim(s, claims)
  PROVE  Told'
<1> SUFFICES ASSUME NEW p \in Promos PROVE ToldAt(p)'
  BY DEF Told
<1> DEFINE new == p \in DOMAIN claims /\ Inserted(s, p)
<1>1. /\ promo'[p] = IF new THEN [promo[p] EXCEPT !.consumed = @ + claims[p]] ELSE promo[p]
      /\ announced'[p] = announced[p] + IF new /\ Crossed(p, claims[p]) THEN 1 ELSE 0
      /\ restored' = restored /\ recapped' = recapped /\ revived' = revived
  BY DEF Claim, editVars
<1>2. new => claims[p] \in Nat
  BY CapacityAssumption DEF Claims
<1> HIDE DEF new
<1>3. ToldAt(p)
  BY DEF Told
<1>4. CASE ~new
  BY <1>1, <1>3, <1>4, Numbers DEF ToldAt, Near
<1>5. CASE new
  <2>1. promo'[p].cap = promo[p].cap /\ promo'[p].consumed = promo[p].consumed + claims[p]
    BY <1>1, <1>5, Numbers DEF Promotion
  <2>2. Crossed(p, claims[p]) <=> promo[p].cap # NoCap /\ ~Near(p) /\ Near(p)'
    BY <1>2, <1>5, <2>1, Numbers DEF Crossed, Near
  <2>3. promo[p].cap # NoCap /\ Near(p) => Near(p)'
    BY <1>2, <1>5, <2>1, Numbers DEF Near
  <2> QED
    BY <1>1, <1>3, <1>5, <2>1, <2>2, <2>3, Numbers DEF ToldAt
<1> QED
  BY <1>4, <1>5

(* Units that come back allow one announcement more.                       *)
LEMMA CancelTells ==
  ASSUME Inv, Told, NEW s \in PromoSales, CancelClaims(s)
  PROVE  Told'
<1> SUFFICES ASSUME NEW p \in Promos PROVE ToldAt(p)'
  BY DEF Told
<1>1. /\ promo'[p] = IF Restorable(s, p)
                     THEN [promo[p] EXCEPT !.consumed = @ - usage[s][p].units] ELSE promo[p]
      /\ restored'[p] = restored[p] + IF Restorable(s, p) THEN 1 ELSE 0
      /\ announced' = announced /\ recapped' = recapped /\ revived' = revived
  BY DEF CancelClaims, editVars
<1>2. ToldAt(p)
  BY DEF Told
<1>3. CASE ~Restorable(s, p)
  BY <1>1, <1>2, <1>3, Numbers DEF ToldAt, Near
<1>4. CASE Restorable(s, p)
  <2>1. /\ promo'[p].cap = promo[p].cap
        /\ promo'[p].consumed = promo[p].consumed - usage[s][p].units
    BY <1>1, <1>4, Numbers DEF Promotion
  <2>2. usage[s][p].units \in Nat
    BY DEF Inv, CapacityTypeOK
  <2>3. promo[p].cap # NoCap /\ Near(p)' => Near(p)
    BY <2>1, <2>2, Numbers DEF Near
  <2> QED
    BY <1>1, <1>2, <1>4, <2>1, <2>3, Numbers DEF ToldAt
<1> QED
  BY <1>3, <1>4

(* A saved edit leaves cap and counter, or is remembered.                  *)
LEMMA SaveTells ==
  ASSUME Inv, Told, NEW q \in Promos, NEW e \in Editors, Save(e, q)
  PROVE  Told'
<1> SUFFICES ASSUME NEW p \in Promos, p \notin recapped' \cup revived' PROVE ToldAt(p)'
  BY DEF Told, ToldAt
<1>1. UNCHANGED <<announced, restored>> /\ recapped \subseteq recapped' /\ revived \subseteq revived'
  BY DEF Save, ledgerVars
<1>2. promo'[p].cap = promo[p].cap /\ promo'[p].consumed = promo[p].consumed
  <2>1. CASE promo' = promo
    BY <2>1
  <2>2. CASE promo' # promo
    <3>1. /\ promo' = [promo EXCEPT ![q] = [exists |-> TRUE, cap |-> Asked(edit[e][q].cap, edit[e][q].copy),
                                            consumed |-> SavedCounter(q, edit[e][q].copy)]]
          /\ q \notin recapped' => Asked(edit[e][q].cap, edit[e][q].copy) = promo[q].cap
          /\ q \notin revived' => promo[q].exists
      BY <2>2 DEF Save
    <3> QED
      BY <3>1 DEF SavedCounter, Inv, CapacityTypeOK
  <2> QED
    BY <2>1, <2>2
<1>3. ToldAt(p)
  BY DEF Told
<1> QED
  BY <1>1, <1>2, <1>3 DEF ToldAt, Near

(* So do all steps.                                                        *)
LEMMA StepTells == Inv /\ Told /\ [CapacityNext]_capacityVars => Told'
<1> SUFFICES ASSUME Inv, Told, [CapacityNext]_capacityVars PROVE Told'
  OBVIOUS
<1>1. CASE UNCHANGED capacityVars
  BY <1>1 DEF capacityVars, Told, ToldAt, Near
<1>2. ASSUME NEW s \in PromoSales, WriteDraftBack(s) PROVE Told'
  BY <1>2 DEF WriteDraftBack, Told, ToldAt, Near
<1>3. ASSUME NEW e \in Editors, NEW p \in Promos, NEW request \in Caps \cup {NoCap, Keep},
             Read(e, p, request)
      PROVE  Told'
  BY <1>3 DEF Read, ledgerVars, Told, ToldAt, Near
<1>4. ASSUME NEW q \in Promos, Delete(q) PROVE Told'
  <2> SUFFICES ASSUME NEW p \in Promos PROVE ToldAt(p)'
    BY DEF Told
  <2>1. /\ UNCHANGED <<announced, restored, recapped, revived>>
        /\ p = q => promo'[p].cap = NoCap
        /\ p # q => promo'[p] = promo[p]
    BY <1>4 DEF Delete, editVars, Inv, CapacityTypeOK
  <2>2. ToldAt(p)
    BY DEF Told
  <2> QED
    BY <2>1, <2>2 DEF ToldAt, Near
<1> QED
  BY <1>1, <1>2, <1>3, <1>4, ClaimTells, CancelTells, SaveTells DEF CapacityNext

(* While its cap stands, a promotion reaches four fifths of it only with   *)
(* an announcement, and is announced once per crossing                     *)
(* (publishNearCapacityIfCrossed).                                         *)
THEOREM CrossingsAreTold == CapacitySpec => []NearCapacityAnnounced
<1>1. Inv /\ Told => NearCapacityAnnounced
  BY Numbers DEF Told, ToldAt, Near, NearCapacityAnnounced
<1> QED
  BY <1>1, InvAtFirst, ToldAtFirst, StepKeeps, StepTells, PTL DEF CapacitySpec
=============================================================================
