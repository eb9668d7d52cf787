--------------------------- MODULE SellingProofs ---------------------------
(***************************************************************************)
(* Proofs about the routes that carry sales and the chatbot that makes     *)
(* them, for any number of routes, sales, requests, calls, keys, carts and *)
(* quotes.                                                                 *)
(*                                                                         *)
(* DeliveryRoutes: Inv adds to the invariants of the runs that a draft has *)
(* no completed stop (so no edit of a draft loses one) and, when nobody    *)
(* saves a sale from an older copy, that no such copy exists.              *)
(*                                                                         *)
(* BotSales: BotInv says of each call what it holds at each step on its    *)
(* way, whose slot or receipt stands under its key, and what its quote was *)
(* verified against; and that no two calls hold the same lock.             *)
(***************************************************************************)
EXTENDS DeliveryRoutes, BotSales, TLAPS

-----------------------------------------------------------------------------
(* Delivery routes                                                         *)

ThankedOnce ==
  \A r \in Routes, s \in RouteSales :
    thanked[r][s] = IF stop[r][s] = "COMPLETED" THEN 1 ELSE 0

Mirrored ==
  \A s \in RouteSales \ SaleSavers :
    /\ copy[s] = NoCopy
    /\ \A r \in Routes : stop[r][s] = "COMPLETED" =>
         parcel[s] = [status |-> "CONFIRMED", delivery |-> "DELIVERED"]

Inv == RoutesInv /\ ThankedOnce /\ Mirrored

RequestsTyped ==
  /\ at \in [Requests -> {"idle", "planning", "reading", "ready"}]
  /\ plan \in [Requests -> SUBSET RouteSales]
  /\ snapshot \in [Requests -> Snapshot]
  /\ \A q \in Requests :
       at[q] \in {"reading", "ready"} => snapshot[q].route \in Routes

RowsTyped ==
  /\ route \in [Routes -> RouteStatus]
  /\ stop \in [Routes -> Stops]
  /\ reserved \in [Routes -> SUBSET RouteSales]
  /\ thanked \in [Routes -> [RouteSales -> Nat]]

SalesTyped ==
  /\ parcel \in [RouteSales -> Parcel]
  /\ copy \in [RouteSales -> Parcel \cup {NoCopy}]

FinalAt(r) ==
  /\ route[r] \in {"COMPLETED", "CANCELLED", "DELETED"} =>
       route'[r] = route[r] /\ stop'[r] = stop[r]
  /\ route[r] = "ACTIVE" =>
       \A s \in RouteSales :
         /\ stop[r][s] # "PENDING" => stop'[r][s] = stop[r][s]
         /\ stop[r][s] = "PENDING" => stop'[r][s] # "NONE"

(* What a step from an inductive state does.                               *)
Kept == Inv' /\ \A r \in Routes : FinalAt(r)

-----------------------------------------------------------------------------
(* A snapshot stays one when it becomes stale or gets the stops.           *)
LEMMA SnapshotFields ==
  ASSUME NEW x \in Snapshot
  PROVE  /\ [x EXCEPT !.current = FALSE] \in Snapshot
         /\ [x EXCEPT !.current = FALSE].route = x.route
         /\ \A st \in Stops : /\ [x EXCEPT !.stops = st] \in Snapshot
                             /\ [x EXCEPT !.stops = st].route = x.route
  BY DEF Snapshot

(* Making the snapshots of a route stale keeps all of them, and what they  *)
(* are of.                                                                 *)
LEMMA TouchedTyped ==
  ASSUME NEW snap \in [Requests -> Snapshot], NEW r
  PROVE  /\ Touched(snap, r) \in [Requests -> Snapshot]
         /\ \A q \in Requests : Touched(snap, r)[q].route = snap[q].route
  BY SnapshotFields DEF Touched

USE DEF StopStatus, Stops, Parcel

-----------------------------------------------------------------------------
(* The invariant holds before the first request.                           *)
LEMMA InvAtFirst == RoutesInit => Inv
<1> SUFFICES ASSUME RoutesInit PROVE Inv
  OBVIOUS
<1>1. RoutesTypeOK
  BY DEF RoutesInit, RoutesTypeOK, NoStops, NoSnapshot, Snapshot, RouteStatus, NoCopy
<1>2. DraftsPending /\ ReservationsExact /\ CompletesWithItsStops
  BY DEF RoutesInit, DraftsPending, ReservationsExact, CompletesWithItsStops, Live,
         OnRoute, NoStops
<1>3. ThankedOnce /\ Mirrored
  BY DEF RoutesInit, ThankedOnce, Mirrored, NoStops
<1> QED
  BY <1>1, <1>2, <1>3 DEF Inv, RoutesInv

-----------------------------------------------------------------------------
(* The type invariant, table by table.                                     *)
LEMMA TypedParts == RoutesTypeOK <=> RequestsTyped /\ RowsTyped /\ SalesTyped
  BY DEF RoutesTypeOK, RequestsTyped, RowsTyped, SalesTyped

(* A request forgets what it read, and the snapshots of some route become  *)
(* stale, or neither.                                                      *)
LEMMA ForgetTyped ==
  ASSUME RequestsTyped, NEW q \in Requests, Finish(q),
         NEW snap, snap \in {snapshot, [snapshot EXCEPT ![q] = NoSnapshot]},
         snapshot' = snap \/ \E r \in Routes : snapshot' = Touched(snap, r)
  PROVE  RequestsTyped'
<1>1. NoSnapshot \in Snapshot
  BY DEF NoSnapshot, NoStops, Snapshot, RouteStatus
<1>2. /\ snap \in [Requests -> Snapshot]
      /\ \A p \in Requests \ {q} : snap[p] = snapshot[p]
  BY <1>1 DEF RequestsTyped
<1>3. /\ snapshot' \in [Requests -> Snapshot]
      /\ \A p \in Requests : snapshot'[p].route = snap[p].route
  BY <1>2, TouchedTyped
<1> QED
  BY <1>2, <1>3 DEF RequestsTyped, Finish

(* A writer that is no request makes the snapshots of a route stale.       *)
LEMMA TouchTyped ==
  ASSUME RequestsTyped, UNCHANGED <<at, plan>>, NEW r \in Routes,
         NEW snap \in [Requests -> Snapshot],
         \A q \in Requests : snap[q].route = snapshot[q].route,
         snapshot' = Touched(snap, r)
  PROVE  RequestsTyped'
  BY TouchedTyped DEF RequestsTyped

(* The steps that write no route keep everything said about routes.        *)
LEMMA RowsUntouched ==
  ASSUME Inv, UNCHANGED <<route, stop, reserved, thanked>>
  PROVE  /\ DraftsPending' /\ ReservationsExact' /\ CompletesWithItsStops'
         /\ ThankedOnce'
         /\ \A r \in Routes : FinalAt(r)
  BY DEF Inv, RoutesInv, DraftsPending, ReservationsExact, CompletesWithItsStops,
         ThankedOnce, FinalAt, Live, OnRoute, Pending

-----------------------------------------------------------------------------
(* The requests that read, lose or replay.                                 *)
LEMMA ReadingKept ==
  ASSUME Inv, NEW q \in Requests,
         \/ \E s \in RouteSales : Probe(q, s)
         \/ \E r \in Routes : ReadRoute(q, r)
         \/ ReadStops(q)
         \/ LoseRace(q)
  PROVE  Kept
<1> USE DEF Inv, RoutesInv, RoutesTypeOK, Finish
<1>1. UNCHANGED <<route, stop, reserved, parcel, thanked, copy>>
  BY DEF Probe, ReadRoute, ReadStops, LoseRace
<1>2. RoutesTypeOK'
  <2>1. CASE \E s \in RouteSales : Probe(q, s)
    BY <1>1, <2>1 DEF Probe
  <2>2. CASE \E r \in Routes : ReadRoute(q, r)
    BY <1>1, <2>2 DEF ReadRoute, Snapshot, NoStops
  <2>3. CASE ReadStops(q)
    <3> DEFINE read == [snapshot[q] EXCEPT !.stops = stop[snapshot[q].route]]
    <3>1. stop[snapshot[q].route] \in Stops
      BY <2>3 DEF ReadStops
    <3>2. read \in Snapshot /\ read.route = snapshot[q].route
      BY <3>1, SnapshotFields
    <3>3. snapshot' = [snapshot EXCEPT ![q] = read]
      BY <2>3 DEF ReadStops
    <3> HIDE DEF read
    <3> QED
      BY ZenonT(60), <1>1, <2>3, <3>2, <3>3 DEF ReadStops
  <2>4. CASE LoseRace(q)
    BY <1>1, <2>4, ForgetTyped, TypedParts DEF LoseRace, RequestsTyped
  <2> QED
    BY <2>1, <2>2, <2>3, <2>4
<1>3. Mirrored'
  BY <1>1 DEF Mirrored
<1> QED
  BY <1>1, <1>2, <1>3, RowsUntouched DEF Kept

(* A request that lost its snapshot, or replays a check-in.                *)
LEMMA ReplayKept ==
  ASSUME Inv, NEW q \in Requests, NEW s \in RouteSales, ReplayCheckIn(q, s)
  PROVE  Kept
<1> USE DEF Inv, RoutesInv, RoutesTypeOK
<1>1. UNCHANGED <<route, stop, reserved, thanked, copy>>
  BY DEF ReplayCheckIn
<1>2. RoutesTypeOK'
  <2>1. RequestsTyped'
    BY ForgetTyped, TypedParts DEF ReplayCheckIn
  <2>2. SalesTyped'
    BY <1>1 DEF ReplayCheckIn, MarkSaleDelivered, SalesTyped
  <2> QED
    BY <1>1, <2>1, <2>2 DEF RequestsTyped, SalesTyped
<1>3. Mirrored'
  BY <1>1 DEF Mirrored, ReplayCheckIn, MarkSaleDelivered, Markable
<1> QED
  BY <1>1, <1>2, <1>3, RowsUntouched DEF Kept

(* The sale side writes no route.                                          *)
LEMMA SaleSideKept ==
  ASSUME Inv, NEW s \in RouteSales,
         CancelSale(s) \/ ShipSale(s) \/ LoadSale(s) \/ SaveSale(s)
  PROVE  Kept
<1> USE DEF Inv, RoutesInv, RoutesTypeOK
<1>1. UNCHANGED <<route, stop, reserved, thanked, requestVars>>
  BY DEF CancelSale, ShipSale, LoadSale, SaveSale
<1>2. RoutesTypeOK'
  <2>1. SalesTyped'
    <3>1. CASE CancelSale(s)
      BY <3>1 DEF CancelSale, SalesTyped
    <3>2. CASE ShipSale(s)
      BY <3>2 DEF ShipSale, SalesTyped
    <3>3. CASE LoadSale(s)
      BY <3>3 DEF LoadSale, SalesTyped
    <3>4. CASE SaveSale(s)
      BY <3>4 DEF SaveSale, SalesTyped
    <3> QED
      BY <3>1, <3>2, <3>3, <3>4
  <2> QED
    BY <1>1, <2>1 DEF SalesTyped, requestVars
<1>3. Mirrored'
  BY <1>1 DEF Mirrored, CancelSale, ShipSale, Shippable, LoadSale, SaveSale
<1> QED
  BY <1>1, <1>2, <1>3, RowsUntouched DEF Kept

-----------------------------------------------------------------------------
(* The edits of a draft.                                                   *)
LEMMA DraftEditKept ==
  ASSUME Inv, NEW r \in Routes,
         \/ \E q \in Requests : CreateRoute(q, r)
         \/ \E q \in Requests, s \in RouteSales : AddStop(q, r, s)
         \/ RewriteRoute(r)
         \/ StartRoute(r)
         \/ DeleteRoute(r)
  PROVE  Kept
<1> USE DEF Inv, RoutesInv
<1>1. RoutesTypeOK'
  <2>1. RequestsTyped'
    <3>1. CASE \E q \in Requests : Finish(q)
      BY <3>1, ForgetTyped, TypedParts
         DEF CreateRoute, AddStop, RewriteRoute, StartRoute, DeleteRoute
    <3>2. CASE UNCHANGED <<at, plan>>
      BY <3>2, TouchTyped, TypedParts
         DEF CreateRoute, AddStop, RewriteRoute, StartRoute, DeleteRoute, RequestsTyped
    <3> QED
      BY <3>1, <3>2 DEF CreateRoute, AddStop, RewriteRoute, StartRoute, DeleteRoute
  <2>2. RowsTyped'
    <3> USE DEF RoutesTypeOK, RowsTyped, RouteStatus, OnRoute
    <3>1. CASE \E q \in Requests : CreateRoute(q, r)
      BY <3>1 DEF CreateRoute
    <3>2. CASE \E q \in Requests, s \in RouteSales : AddStop(q, r, s)
      BY <3>2 DEF AddStop
    <3>3. CASE RewriteRoute(r)
      BY <3>3 DEF RewriteRoute
    <3>4. CASE StartRoute(r)
      BY <3>4 DEF StartRoute
    <3>5. CASE DeleteRoute(r)
      BY <3>5 DEF DeleteRoute
    <3> QED
      BY <3>1, <3>2, <3>3, <3>4, <3>5
  <2>3. SalesTyped'
    BY TypedParts DEF CreateRoute, AddStop, RewriteRoute, StartRoute, DeleteRoute,
                      SalesTyped
  <2> QED
    BY <2>1, <2>2, <2>3 DEF RoutesTypeOK, RequestsTyped, RowsTyped, SalesTyped
<1>2. /\ route[r] \in {"ABSENT", "DRAFT"}
      /\ \A d \in Routes \ {r} : /\ route'[d] = route[d]
                                 /\ stop'[d] = stop[d]
                                 /\ reserved'[d] = reserved[d]
      /\ \A s \in RouteSales : stop'[r][s] # "COMPLETED"
      /\ UNCHANGED <<parcel, thanked, copy>>
  <2> USE DEF DraftsPending, RoutesTypeOK
  <2>1. CASE \E q \in Requests : CreateRoute(q, r)
    BY <2>1 DEF CreateRoute
  <2>2. CASE \E q \in Requests, s \in RouteSales : AddStop(q, r, s)
    BY <2>2 DEF AddStop
  <2>3. CASE RewriteRoute(r)
    BY <2>3 DEF RewriteRoute
  <2>4. CASE StartRoute(r)
    BY <2>4 DEF StartRoute, Startable
  <2>5. CASE DeleteRoute(r)
    BY <2>5 DEF DeleteRoute
  <2> QED
    BY <2>1, <2>2, <2>3, <2>4, <2>5
<1>3. \/ /\ route'[r] \in {"DRAFT", "DELETED", "ACTIVE"}
         /\ reserved'[r] = IF route'[r] = "DELETED" THEN {} ELSE OnRoute(r)'
         /\ route'[r] = "DELETED" => OnRoute(r)' = {}
         /\ route'[r] = "ACTIVE" => OnRoute(r)' # {}
  <2>1. route[r] = "ABSENT" => OnRoute(r) = {}
    BY DEF DraftsPending, OnRoute, NoStops
  <2>2. reserved[r] = OnRoute(r)
    BY <1>2, <2>1 DEF ReservationsExact, Live
  <2>3. CASE \E q \in Requests : CreateRoute(q, r)
    BY <2>3 DEF CreateRoute, OnRoute, RoutesTypeOK
  <2>4. CASE \E q \in Requests, s \in RouteSales : AddStop(q, r, s)
    BY <2>2, <2>4 DEF AddStop, OnRoute, RoutesTypeOK
  <2>5. CASE RewriteRoute(r)
    BY <2>2, <2>5 DEF RewriteRoute, OnRoute
  <2>6. CASE StartRoute(r)
    BY <2>6 DEF StartRoute, Startable, OnRoute, RoutesTypeOK
  <2>7. CASE DeleteRoute(r)
    BY <2>2, <2>7 DEF DeleteRoute, OnRoute, RoutesTypeOK
  <2> QED
    BY <2>3, <2>4, <2>5, <2>6, <2>7
<1>4. \A d \in Routes \ {r} : reserved'[r] \cap reserved[d] = {}
  <2>1. CASE \E q \in Requests : CreateRoute(q, r)
    BY <2>1 DEF CreateRoute, UnreservedBy, RoutesTypeOK
  <2>2. CASE \E q \in Requests, s \in RouteSales : AddStop(q, r, s)
    BY <2>2 DEF AddStop, UnreservedBy, ReservationsExact, RoutesTypeOK
  <2>3. CASE RewriteRoute(r) \/ DeleteRoute(r)
    BY <2>3 DEF RewriteRoute, DeleteRoute, ReservationsExact
  <2>4. CASE StartRoute(r)
    BY <2>4 DEF StartRoute, UnreservedBy, RoutesTypeOK
  <2> QED
    BY <2>1, <2>2, <2>3, <2>4
<1>5. DraftsPending'
  <2>1. stop'[r] \in Stops
    BY <1>1 DEF RoutesTypeOK
  <2>2. route'[r] = "DELETED" => stop'[r] = NoStops
    BY <1>3, <2>1 DEF OnRoute, NoStops
  <2>3. route'[r] # "ABSENT"
    BY <1>3
  <2>4. \A d \in Routes \ {r} : /\ route'[d] = route[d]
                                /\ stop'[d] = stop[d]
    BY <1>2
  <2>5. NoStops' = NoStops
    BY DEF NoStops
  <2> QED
    BY <1>2, <2>2, <2>3, <2>4, <2>5 DEF DraftsPending
<1>6. ReservationsExact'
  <2>1. \A d \in Routes \ {r} : Live(d)' = Live(d) /\ OnRoute(d)' = OnRoute(d)
    BY <1>2 DEF Live, OnRoute
  <2>2. reserved'[r] = IF Live(r)' THEN OnRoute(r)' ELSE {}
    BY <1>3 DEF Live
  <2> QED
    BY <1>2, <1>4, <2>1, <2>2 DEF ReservationsExact
<1>7. CompletesWithItsStops'
  <2>1. route'[r] = "ACTIVE" => Pending(stop'[r]) # {}
    BY <1>1, <1>2, <1>3 DEF RoutesTypeOK, OnRoute, Pending
  <2>2. \A d \in Routes \ {r} : Pending(stop'[d]) = Pending(stop[d]) /\ OnRoute(d)' = OnRoute(d)
    BY <1>2 DEF Pending, OnRoute
  <2> QED
    BY <1>2, <1>3, <2>1, <2>2 DEF CompletesWithItsStops
<1>8. ThankedOnce'
  BY <1>2 DEF ThankedOnce, DraftsPending, RoutesTypeOK, NoStops
<1>9. Mirrored'
  BY <1>2 DEF Mirrored
<1>10. \A d \in Routes : FinalAt(d)
  BY <1>2 DEF FinalAt
<1> QED
  BY <1>1, <1>5, <1>6, <1>7, <1>8, <1>9, <1>10 DEF Kept

(* A transfer between two drafts.                                          *)
LEMMA TransferKept ==
  ASSUME Inv, NEW r \in Routes, NEW d \in Routes, NEW s \in RouteSales,
         TransferStop(r, d, s)
  PROVE  Kept
<1> USE DEF Inv, RoutesInv
<1>1. RoutesTypeOK'
  <2>1. /\ Touched(snapshot, r) \in [Requests -> Snapshot]
        /\ \A q \in Requests : Touched(snapshot, r)[q].route = snapshot[q].route
    BY TouchedTyped DEF RoutesTypeOK
  <2>2. RequestsTyped'
    BY <2>1, TouchTyped, TypedParts DEF TransferStop
  <2>3. RowsTyped' /\ SalesTyped'
    BY TypedParts DEF TransferStop, RowsTyped, SalesTyped
  <2> QED
    BY <2>2, <2>3 DEF RoutesTypeOK, RequestsTyped, RowsTyped, SalesTyped
<1>2. /\ r # d /\ route[r] = "DRAFT" /\ route[d] = "DRAFT"
      /\ \A e \in Routes \ {r, d} : stop'[e] = stop[e] /\ reserved'[e] = reserved[e]
      /\ \A t \in RouteSales : stop'[r][t] = IF t = s THEN "NONE" ELSE stop[r][t]
      /\ \A t \in RouteSales : stop'[d][t] = IF t = s THEN "PENDING" ELSE stop[d][t]
      /\ reserved'[r] = reserved[r] \ {s}
      /\ reserved'[d] = reserved[d] \cup {s}
      /\ UNCHANGED <<route, parcel, thanked, copy>>
  BY DEF TransferStop, RoutesTypeOK
<1>3. DraftsPending'
  BY <1>2 DEF DraftsPending
<1>4. ReservationsExact'
  <2>1. \A e \in Routes : reserved'[e] = IF Live(e)' THEN OnRoute(e)' ELSE {}
    <3>1. \A e \in Routes \ {r, d} : Live(e)' = Live(e) /\ OnRoute(e)' = OnRoute(e)
      BY <1>2 DEF Live, OnRoute
    <3>2. Live(r)' /\ Live(d)' /\ Live(r) /\ Live(d)
      BY <1>2 DEF Live
    <3>3. OnRoute(r)' = OnRoute(r) \ {s} /\ OnRoute(d)' = OnRoute(d) \cup {s}
      BY <1>2 DEF OnRoute
    <3> QED
      BY <1>2, <3>1, <3>2, <3>3 DEF ReservationsExact
  <2>2. \A e \in Routes \ {r, d} : s \notin reserved[e]
    BY DEF TransferStop, UnreservedBy
  <2> QED
    BY <1>2, <2>1, <2>2 DEF ReservationsExact
<1>5. CompletesWithItsStops'
  BY <1>2 DEF CompletesWithItsStops, Pending, OnRoute
<1>6. ThankedOnce'
  BY <1>2 DEF ThankedOnce, DraftsPending
<1>7. Mirrored'
  BY <1>2 DEF Mirrored
<1>8. \A e \in Routes : FinalAt(e)
  BY <1>2 DEF FinalAt
<1> QED
  BY <1>1, <1>3, <1>4, <1>5, <1>6, <1>7, <1>8 DEF Kept

-----------------------------------------------------------------------------
(* The check-in of a pending stop: its compare-and-set proves that the     *)
(* route is active and the stop pending when they are written.             *)
LEMMA CheckInKept ==
  ASSUME Inv, NEW q \in Requests, NEW s \in RouteSales, CheckIn(q, s)
  PROVE  Kept
<1> USE DEF Inv, RoutesInv
<1>0. PICK r \in Routes : r = snapshot[q].route
  BY DEF CheckIn, RoutesTypeOK
<1> DEFINE driven == [stop[r] EXCEPT ![s] = "COMPLETED"]
<1>1. /\ route[r] = "ACTIVE" /\ stop[r][s] = "PENDING"
      /\ Markable(s)
  BY <1>0 DEF CheckIn, Unchanged, RoutesTypeOK, MarkSaleDelivered
<1>2. /\ \A e \in Routes \ {r} : /\ route'[e] = route[e] /\ stop'[e] = stop[e]
                                 /\ reserved'[e] = reserved[e]
                                 /\ thanked'[e] = thanked[e]
      /\ \A t \in RouteSales : stop'[r][t] = IF t = s THEN "COMPLETED" ELSE stop[r][t]
      /\ \A t \in RouteSales : thanked'[r][t] = IF t = s THEN thanked[r][t] + 1
                                                ELSE thanked[r][t]
      /\ parcel' = [parcel EXCEPT ![s].delivery = "DELIVERED"]
      /\ UNCHANGED copy
  BY <1>0, <1>1 DEF CheckIn, RoutesTypeOK, MarkSaleDelivered
<1>3. \/ /\ Pending(driven) # {}
         /\ route'[r] = "ACTIVE" /\ reserved'[r] = reserved[r]
      \/ /\ Pending(driven) = {}
         /\ route'[r] = "COMPLETED" /\ reserved'[r] = {}
  BY <1>0, <1>1 DEF CheckIn, RouteOpen, RoutesTypeOK
<1>4. Pending(stop'[r]) = Pending(driven)
  BY <1>1, <1>2 DEF Pending, RoutesTypeOK
<1>5. RoutesTypeOK'
  <2>1. RequestsTyped'
    BY <1>0, ForgetTyped, TypedParts DEF CheckIn
  <2>2. RowsTyped'
    BY <1>0, <1>1 DEF CheckIn, RoutesTypeOK, RowsTyped, RouteStatus
  <2>3. SalesTyped'
    BY SMTT(30), <1>2 DEF RoutesTypeOK, SalesTyped
  <2> QED
    BY <2>1, <2>2, <2>3 DEF RoutesTypeOK, RequestsTyped, RowsTyped, SalesTyped
<1>6. DraftsPending'
  BY <1>1, <1>2, <1>3 DEF DraftsPending
<1>7. ReservationsExact'
  <2>1. \A e \in Routes : OnRoute(e)' = OnRoute(e)
    <3>1. OnRoute(r)' = {t \in RouteSales : (IF t = s THEN "COMPLETED" ELSE stop[r][t]) # "NONE"}
      BY <1>1, <1>2 DEF OnRoute
    <3>2. OnRoute(r)' = OnRoute(r)
      BY <1>1, <3>1 DEF OnRoute
    <3> QED
      BY <1>2, <3>2 DEF OnRoute
  <2>2. \A e \in Routes \ {r} : Live(e)' = Live(e)
    BY <1>2 DEF Live
  <2>3. Live(r) /\ (Live(r)' <=> route'[r] = "ACTIVE")
    BY <1>1, <1>3 DEF Live
  <2> QED
    BY ZenonT(60), <1>1, <1>2, <1>3, <2>1, <2>2, <2>3 DEF ReservationsExact
<1>8. CompletesWithItsStops'
  BY <1>1, <1>2, <1>3, <1>4 DEF CompletesWithItsStops, Pending, OnRoute
<1>9. ThankedOnce'
  <2>1. thanked[r][s] = 0
    BY <1>1 DEF ThankedOnce
  <2> QED
    BY <1>1, <1>2, <2>1 DEF ThankedOnce
<1>10. Mirrored'
  <2>1. parcel'[s] = [status |-> "CONFIRMED", delivery |-> "DELIVERED"]
    BY <1>1, <1>2 DEF Markable, RoutesTypeOK
  <2>2. \A t \in RouteSales \ {s} : parcel'[t] = parcel[t]
    BY <1>2 DEF RoutesTypeOK
  <2>3. \A e \in Routes, t \in RouteSales \ {s} : stop'[e][t] = stop[e][t]
    BY <1>1, <1>2
  <2> QED
    BY <1>2, <2>1, <2>2, <2>3 DEF Mirrored
<1>11. \A e \in Routes : FinalAt(e)
  BY <1>1, <1>2 DEF FinalAt
<1> QED
  BY <1>5, <1>6, <1>7, <1>8, <1>9, <1>10, <1>11 DEF Kept

(* The cancellation of a route.                                            *)
LEMMA CancelRouteKept ==
  ASSUME Inv, NEW q \in Requests, CancelRoute(q)
  PROVE  Kept
<1> USE DEF Inv, RoutesInv
<1>0. PICK r \in Routes : r = snapshot[q].route
  BY DEF CancelRoute, RoutesTypeOK
<1>1. /\ route[r] \in {"DRAFT", "ACTIVE"}
      /\ route' = [route EXCEPT ![r] = "CANCELLED"]
      /\ reserved' = [reserved EXCEPT ![r] = {}]
      /\ UNCHANGED <<stop, parcel, thanked, copy>>
  BY <1>0 DEF CancelRoute, Unchanged, RoutesTypeOK
<1>2. RoutesTypeOK'
  <2>1. RequestsTyped'
    BY <1>0, ForgetTyped, TypedParts DEF CancelRoute
  <2>2. /\ route' \in [Routes -> RouteStatus]
        /\ reserved' \in [Routes -> SUBSET RouteSales]
    BY <1>1 DEF RoutesTypeOK, RouteStatus
  <2> QED
    BY <1>1, <2>1, <2>2 DEF RequestsTyped, RoutesTypeOK
<1>3. DraftsPending' /\ CompletesWithItsStops' /\ ReservationsExact'
  <2>1. \A e \in Routes : route'[e] = IF e = r THEN "CANCELLED" ELSE route[e]
    BY <1>1 DEF RoutesTypeOK
  <2>2. \A e \in Routes : reserved'[e] = IF e = r THEN {} ELSE reserved[e]
    BY <1>1 DEF RoutesTypeOK
  <2>3. DraftsPending'
    BY <1>1, <2>1 DEF DraftsPending
  <2>4. CompletesWithItsStops'
    BY <1>1, <2>1 DEF CompletesWithItsStops, OnRoute
  <2>5. \A e \in Routes : OnRoute(e)' = OnRoute(e) /\ (Live(e)' <=> e # r /\ Live(e))
    BY <1>1, <2>1 DEF OnRoute, Live
  <2> QED
    BY <2>2, <2>3, <2>4, <2>5 DEF ReservationsExact
<1>4. ThankedOnce' /\ Mirrored'
  BY <1>1 DEF ThankedOnce, Mirrored
<1>5. \A e \in Routes : FinalAt(e)
  BY <1>1 DEF FinalAt, RoutesTypeOK
<1> QED
  BY <1>2, <1>3, <1>4, <1>5 DEF Kept

-----------------------------------------------------------------------------
(* Every step keeps the invariant and the history of every route.          *)
LEMMA StepKept == Inv /\ [RoutesNext]_routesVars => Kept
<1> SUFFICES ASSUME Inv, [RoutesNext]_routesVars PROVE Kept
  OBVIOUS
<1>1. CASE UNCHANGED routesVars
  <2>1. UNCHANGED <<route, stop, reserved, parcel, thanked, at, plan, snapshot, copy>>
    BY <1>1 DEF routesVars, requestVars
  <2> QED
    BY <2>1, RowsUntouched DEF Kept, Inv, RoutesInv, RoutesTypeOK, Mirrored
<1>2. CASE RoutesNext
  BY <1>2, ReadingKept, ReplayKept, SaleSideKept, DraftEditKept, TransferKept,
     CheckInKept, CancelRouteKept DEF RoutesNext
<1> QED
  BY <1>1, <1>2

(* The invariant holds in every state.                                     *)
LEMMA InvAlways == RoutesSpec => []Inv
<1>1. RoutesInit => Inv
  BY InvAtFirst
<1>2. Inv /\ [RoutesNext]_routesVars => Inv'
  BY StepKept DEF Kept
<1> QED
  BY <1>1, <1>2, PTL DEF RoutesSpec

(* A sale is reserved by the one live route it rides on, and a route is    *)
(* active as long as somebody waits on it and no longer, whatever requests *)
(* race (commitTransition, reconcileRouteCompletion).                      *)
THEOREM EndsAreMet == RoutesSpec => []RoutesEndWithTheirStops
<1>1. Inv => RoutesEndWithTheirStops
  BY DEF Inv, RoutesInv, RoutesEndWithTheirStops
<1> QED
  BY <1>1, InvAlways, PTL

(* A completed stop is a delivered sale, unless somebody saves it from an  *)
(* older copy, and its customer was thanked once (checkInStop).            *)
THEOREM DeliveredAndThanked == RoutesSpec => []CompletedMeansDelivered
<1>1. Inv => CompletedMeansDelivered
  BY DEF Inv, ThankedOnce, Mirrored, CompletedMeansDelivered
<1> QED
  BY <1>1, InvAlways, PTL

(* No stale snapshot undoes a completed stop or a terminal route           *)
(* (commitTransition, runTransitionWithStaleRetry).                        *)
THEOREM RouteHistoryKept == RoutesSpec => RouteHistoryIsFinal
<1>1. Inv /\ [RoutesNext]_routesVars
        => [\A r \in Routes :
              /\ route[r] \in {"COMPLETED", "CANCELLED", "DELETED"} =>
                   route'[r] = route[r] /\ stop'[r] = stop[r]
              /\ route[r] = "ACTIVE" =>
                   \A s \in RouteSales :
                     /\ stop[r][s] # "PENDING" => stop'[r][s] = stop[r][s]
                     /\ stop[r][s] = "PENDING" => stop'[r][s] # "NONE"]_routesVars
  BY StepKept DEF Kept, FinalAt
<1> QED
  BY <1>1, InvAlways, PTL DEF RoutesSpec, RouteHistoryIsFinal

-----------------------------------------------------------------------------
(* The ways of BotSales: what a call may still have to do for a sale or a  *)
(* checkout, with and without a quote.                                     *)
PlainSales == {<<"sell", "stamp">>, <<"stamp">>, <<>>}

QuotedSales ==
  {<<"verify", "customer", "quote", "sell", "stamp">>,
   <<"customer", "quote", "sell", "stamp">>,
   <<"quote", "sell", "stamp">>} \cup PlainSales

PlainCheckouts == {<<"phone", "customer", "sell">>, <<"customer", "sell">>, <<"sell">>, <<>>}

QuotedCheckouts ==
  {<<"phone", "customer", "verify", "quote", "sell">>,
   <<"customer", "verify", "quote", "sell">>,
   <<"verify", "quote", "sell">>,
   <<"quote", "sell">>,
   <<"sell">>, <<>>}

Way(via, quoted) ==
  CASE via = "sale" /\ quoted      -> QuotedSales
    [] via = "sale" /\ ~quoted     -> PlainSales
    [] via = "checkout" /\ quoted  -> QuotedCheckouts
    [] via = "checkout" /\ ~quoted -> PlainCheckouts
    [] OTHER                       -> {<<>>}

Stage(p) == IF p = <<>> THEN "over" ELSE Head(p)

(* A sale without a quote is sold and stamped.                             *)
LEMMA OfPlainSale ==
  ASSUME NEW p \in PlainSales
  PROVE  /\ Stage(p) \in {"over", "sell", "stamp"}
         /\ Stage(p) = "over" <=> p = <<>>
         /\ p # <<>> => Tail(p) \in PlainSales
         /\ Stage(p) = "sell" => Stage(Tail(p)) = "stamp"
         /\ Stage(p) = "stamp" => Stage(Tail(p)) = "over"
<1>1. CASE p = <<"sell", "stamp">>
  BY <1>1 DEF Stage, PlainSales
<1>2. CASE p = <<"stamp">>
  BY <1>2 DEF Stage, PlainSales
<1>3. CASE p = <<>>
  BY <1>3 DEF Stage
<1> QED
  BY <1>1, <1>2, <1>3 DEF PlainSales

(* One with a quote takes the customer before the quote.                   *)
LEMMA OfQuotedSale ==
  ASSUME NEW p \in QuotedSales
  PROVE  /\ Stage(p) \in {"over", "verify", "customer", "quote", "sell", "stamp"}
         /\ Stage(p) = "over" <=> p = <<>>
         /\ p # <<>> => Tail(p) \in QuotedSales
         /\ Stage(p) = "verify" => Stage(Tail(p)) = "customer"
         /\ Stage(p) = "customer" => Stage(Tail(p)) = "quote"
         /\ Stage(p) = "quote" => Stage(Tail(p)) = "sell"
         /\ Stage(p) = "sell" => Stage(Tail(p)) = "stamp"
         /\ Stage(p) = "stamp" => Stage(Tail(p)) = "over"
<1>1. CASE p = <<"verify", "customer", "quote", "sell", "stamp">>
  BY <1>1 DEF Stage, QuotedSales
<1>2. CASE p = <<"customer", "quote", "sell", "stamp">>
  BY <1>2 DEF Stage, QuotedSales
<1>3. CASE p = <<"quote", "sell", "stamp">>
  BY <1>3 DEF Stage, QuotedSales, PlainSales
<1>4. CASE p \in PlainSales
  BY <1>4, OfPlainSale DEF QuotedSales
<1> QED
  BY <1>1, <1>2, <1>3, <1>4 DEF QuotedSales

(* A checkout takes the phone, then the customer.                          *)
LEMMA OfPlainCheckout ==
  ASSUME NEW p \in PlainCheckouts
  PROVE  /\ Stage(p) \in {"over", "phone", "customer", "sell"}
         /\ Stage(p) = "over" <=> p = <<>>
         /\ p # <<>> => Tail(p) \in PlainCheckouts
         /\ Stage(p) = "phone" => Stage(Tail(p)) = "customer"
         /\ Stage(p) = "customer" => Stage(Tail(p)) = "sell"
         /\ Stage(p) = "sell" => Stage(Tail(p)) = "over"
<1>1. CASE p = <<"phone", "customer", "sell">>
  BY <1>1 DEF Stage, PlainCheckouts
<1>2. CASE p = <<"customer", "sell">>
  BY <1>2 DEF Stage, PlainCheckouts
<1>3. CASE p = <<"sell">>
  BY <1>3 DEF Stage, PlainCheckouts
<1>4. CASE p = <<>>
  BY <1>4 DEF Stage
<1> QED
  BY <1>1, <1>2, <1>3, <1>4 DEF PlainCheckouts

(* Then it verifies and takes its quote, if it has one.                    *)
LEMMA OfQuotedCheckout ==
  ASSUME NEW p \in QuotedCheckouts
  PROVE  /\ Stage(p) \in {"over", "phone", "customer", "verify", "quote", "sell"}
         /\ Stage(p) = "over" <=> p = <<>>
         /\ p # <<>> => Tail(p) \in QuotedCheckouts
         /\ Stage(p) = "phone" => Stage(Tail(p)) = "customer"
         /\ Stage(p) = "customer" => Stage(Tail(p)) = "verify"
         /\ Stage(p) = "verify" => Stage(Tail(p)) = "quote"
         /\ Stage(p) = "quote" => Stage(Tail(p)) = "sell"
         /\ Stage(p) = "sell" => Stage(Tail(p)) = "over"
<1>1. CASE p = <<"phone", "customer", "verify", "quote", "sell">>
  BY <1>1 DEF Stage, QuotedCheckouts
<1>2. CASE p = <<"customer", "verify", "quote", "sell">>
  BY <1>2 DEF Stage, QuotedCheckouts
<1>3. CASE p = <<"verify", "quote", "sell">>
  BY <1>3 DEF Stage, QuotedCheckouts
<1>4. CASE p = <<"quote", "sell">>
  BY <1>4 DEF Stage, QuotedCheckouts
<1>5. CASE p = <<"sell">>
  BY <1>5 DEF Stage, QuotedCheckouts
<1>6. CASE p = <<>>
  BY <1>6 DEF Stage
<1> QED
  BY <1>1, <1>2, <1>3, <1>4, <1>5, <1>6 DEF QuotedCheckouts

(* All four ways at once: what comes after each step.                      *)
LEMMA OnTheWay ==
  ASSUME NEW via, NEW quoted \in BOOLEAN, NEW p \in Way(via, quoted)
  PROVE  /\ Stage(p) = "over" <=> p = <<>>
         /\ Stage(p) \in {"over", "phone", "customer", "verify", "quote", "sell", "stamp"}
         /\ p # <<>> => Tail(p) \in Way(via, quoted) /\ via \in {"sale", "checkout"}
         /\ Stage(p) = "phone" => via = "checkout" /\ Stage(Tail(p)) = "customer"
         /\ Stage(p) = "customer" /\ via = "sale" => quoted /\ Stage(Tail(p)) = "quote"
         /\ Stage(p) = "customer" /\ via = "checkout" =>
              Stage(Tail(p)) = IF quoted THEN "verify" ELSE "sell"
         /\ Stage(p) = "verify" =>
              quoted /\ Stage(Tail(p)) = IF via = "sale" THEN "customer" ELSE "quote"
         /\ Stage(p) = "quote" => quoted /\ Stage(Tail(p)) = "sell"
         /\ Stage(p) = "sell" => Stage(Tail(p)) = IF via = "sale" THEN "stamp" ELSE "over"
         /\ Stage(p) = "stamp" => via = "sale" /\ Stage(Tail(p)) = "over"
<1>1. CASE via = "sale" /\ quoted
  BY <1>1, OfQuotedSale DEF Way
<1>2. CASE via = "sale" /\ ~quoted
  BY <1>2, OfPlainSale DEF Way
<1>3. CASE via = "checkout" /\ quoted
  BY <1>3, OfQuotedCheckout DEF Way
<1>4. CASE via = "checkout" /\ ~quoted
  BY <1>4, OfPlainCheckout DEF Way
<1>5. CASE via \notin {"sale", "checkout"}
  BY <1>5 DEF Way, Stage
<1> QED
  BY <1>1, <1>2, <1>3, <1>4, <1>5

(* A call starts at the beginning of its way.                              *)
LEMMA PathStarts ==
  ASSUME NEW via \in {"sale", "checkout"}, NEW cart
  PROVE  /\ Path(via, cart) \in Way(via, cart.quote # NoQuote)
         /\ via = "checkout" => Stage(Path(via, cart)) = "phone"
         /\ via = "sale" =>
              Stage(Path(via, cart)) = IF cart.quote = NoQuote THEN "sell" ELSE "verify"
<1>1. CASE via = "sale"
  BY <1>1 DEF Path, QuotedSale, Way, QuotedSales, PlainSales, Stage
<1>2. CASE via = "checkout"
  BY <1>2 DEF Path, Way, QuotedCheckouts, PlainCheckouts, Stage
<1> QED
  BY <1>1, <1>2

-----------------------------------------------------------------------------
At(c) == Stage(todo[c])
Quoted(c) == call[c].via # "none" /\ call[c].cart.quote # NoQuote
Has(c) == sold[c] # NothingSold
KeyLock(k) == <<"key", k>>
QuoteRow(q) == <<"quote", q>>

Call ==
  [via : {"none", "sale", "checkout"}, key : BotKeys \cup {Nobody},
   cart : Carts \cup {Nobody}, creates : BOOLEAN, answer : Calls \cup {Nobody}]

Entry == [owner : Calls \cup {Nobody}, done : BOOLEAN]

BotTypeOK ==
  /\ profiles \in Nat /\ strangers \in BOOLEAN
  /\ home \in Places
  /\ shipQuote \in [ShipQuotes -> [status : {"NONE", "LIVE", "EXPIRED"}, place : Places \cup {Nobody}]]
  /\ slot \in [BotKeys -> Entry] /\ receipt \in [BotKeys -> Entry]
  /\ sold \in [Calls -> [quote : ShipQuotes \cup {NoQuote}, place : Places \cup {Nobody},
                         fresh : BOOLEAN]]
  /\ call \in [Calls -> Call]
  /\ todo = [c \in Calls |-> todo[c]] /\ held = [c \in Calls |-> held[c]]

(* What a call holds at each stage.                                        *)
HoldsKey(c) == call[c].via = "checkout" /\ At(c) # "over"
HoldsPhone(c) == call[c].via = "checkout" /\ At(c) \notin {"over", "phone"}
Matched(c) == call[c].via = "checkout" /\ At(c) \in {"verify", "quote", "sell"}
HoldsCustomer(c) ==
  \/ call[c].via = "sale" /\ Quoted(c) /\ At(c) \in {"quote", "sell"}
  \/ Matched(c) /\ ~call[c].creates
HoldsQuote(c) == Quoted(c) /\ At(c) = "sell"

Holds(c) ==
  (IF HoldsKey(c) THEN {KeyLock(call[c].key)} ELSE {}) \cup
  (IF HoldsPhone(c) THEN {PhoneLock} ELSE {}) \cup
  (IF HoldsCustomer(c) THEN {CustomerLock} ELSE {}) \cup
  (IF Matched(c) /\ call[c].cart.saved THEN {AddressLock} ELSE {}) \cup
  (IF HoldsQuote(c) THEN {QuoteRow(call[c].cart.quote)} ELSE {})

(* A sale that began owns its slot for good.                               *)
SaleAt(c) ==
  call[c].via = "sale" =>
    /\ ~call[c].creates
    /\ At(c) # "over" \/ Has(c) => slot[call[c].key].owner = c
    /\ At(c) \in {"verify", "customer", "quote", "sell"} => ~Has(c)
    /\ At(c) = "stamp" => Has(c)

(* A checkout finds no receipt until it leaves its own; it creates a       *)
(* customer only where there is none, and its quote is for its address.    *)
CheckoutAt(c) ==
  call[c].via = "checkout" =>
    /\ At(c) # "over" => receipt[call[c].key] = NoEntry /\ ~Has(c)
    /\ Has(c) => receipt[call[c].key].owner = c
    /\ At(c) = "phone" \/ At(c) = "customer" => ~call[c].creates
    /\ call[c].creates /\ At(c) # "over" => ~call[c].cart.saved /\ (~strangers => profiles = 0)
    /\ Quoted(c) /\ At(c) \in {"quote", "sell"} =>
         /\ shipQuote[call[c].cart.quote].status # "NONE"
         /\ shipQuote[call[c].cart.quote].place = Target(c)

SoldAt(c) ==
  sold[c].quote # NoQuote =>
    /\ sold[c].fresh
    /\ shipQuote[sold[c].quote].status # "NONE"
    /\ call[c].via = "checkout" => sold[c].place = shipQuote[sold[c].quote].place

Answered(c, d) ==
  Has(d) /\ call[d].cart = call[c].cart /\ call[d].key = call[c].key /\ call[d].via = call[c].via

Sane(c) ==
  /\ call[c].via # "none" => call[c].key \in BotKeys /\ call[c].cart \in Carts
  /\ call[c].via = "none" => ~Has(c)
  /\ todo[c] \in Way(call[c].via, Quoted(c))
  /\ held[c] = Holds(c)
  /\ SaleAt(c) /\ CheckoutAt(c) /\ SoldAt(c)
  /\ \A d \in Calls : call[c].answer = d => Answered(c, d)

(* Slots and receipts are of calls under their key, and a stamp is of a    *)
(* call that sold.                                                         *)
EntryAt(k) ==
  /\ \A d \in Calls : slot[k].owner = d => call[d].via = "sale" /\ call[d].key = k
  /\ slot[k].done => slot[k].owner \in Calls /\ Has(slot[k].owner)
  /\ \A d \in Calls : receipt[k].owner = d => call[d].via = "checkout" /\ call[d].key = k
  /\ receipt[k].done => receipt[k].owner \in Calls /\ Has(receipt[k].owner)

Apart == \A c, d \in Calls : c # d => held[c] \cap held[d] = {}

SpentOnce == \A c, d \in Calls : sold[c].quote = sold[d].quote /\ sold[c].quote # NoQuote => c = d

BotInv ==
  /\ BotTypeOK
  /\ \A c \in Calls : Sane(c)
  /\ \A k \in BotKeys : EntryAt(k)
  /\ Apart
  /\ SpentOnce
  /\ OneCustomerPerPhone

-----------------------------------------------------------------------------
(* Locks of different kinds are different.                                 *)
LEMMA LocksDiffer ==
  /\ PhoneLock # CustomerLock /\ PhoneLock # AddressLock /\ CustomerLock # AddressLock
  /\ \A k, q : /\ KeyLock(k) \notin {PhoneLock, CustomerLock, AddressLock, QuoteRow(q)}
               /\ QuoteRow(q) \notin {PhoneLock, CustomerLock, AddressLock}
               /\ <<"nothing">> \notin {KeyLock(k), PhoneLock, CustomerLock, AddressLock, QuoteRow(q)}
BY DEF PhoneLock, CustomerLock, AddressLock, KeyLock, QuoteRow

(* Locks of different rows are different.                                  *)
LEMMA LocksOfRows ==
  \A k, l : /\ KeyLock(k) = KeyLock(l) => k = l
            /\ QuoteRow(k) = QuoteRow(l) => k = l
BY DEF KeyLock, QuoteRow

(* Where a call stands on its way.                                         *)
LEMMA StandsAt ==
  ASSUME BotInv, NEW c \in Calls
  PROVE  /\ At(c) = "over" <=> todo[c] = <<>>
         /\ At(c) \in {"over", "phone", "customer", "verify", "quote", "sell", "stamp"}
         /\ At(c) # "over" => /\ call[c].via \in {"sale", "checkout"}
                              /\ Tail(todo[c]) \in Way(call[c].via, Quoted(c))
         /\ \A step : Doing(c, step) => At(c) = step /\ At(c) # "over"
         /\ At(c) = "phone" => call[c].via = "checkout" /\ Stage(Tail(todo[c])) = "customer"
         /\ At(c) = "customer" /\ call[c].via = "sale" =>
              Quoted(c) /\ Stage(Tail(todo[c])) = "quote"
         /\ At(c) = "customer" /\ call[c].via = "checkout" =>
              Stage(Tail(todo[c])) = IF Quoted(c) THEN "verify" ELSE "sell"
         /\ At(c) = "verify" =>
              /\ Quoted(c)
              /\ Stage(Tail(todo[c])) = IF call[c].via = "sale" THEN "customer" ELSE "quote"
         /\ At(c) = "quote" => Quoted(c) /\ Stage(Tail(todo[c])) = "sell"
         /\ At(c) = "sell" =>
              Stage(Tail(todo[c])) = IF call[c].via = "sale" THEN "stamp" ELSE "over"
         /\ At(c) = "stamp" => call[c].via = "sale" /\ Stage(Tail(todo[c])) = "over"
<1>1. todo[c] \in Way(call[c].via, Quoted(c)) /\ Quoted(c) \in BOOLEAN
  BY DEF BotInv, Sane, Quoted
<1>2. \A step : Doing(c, step) => Stage(todo[c]) = step /\ todo[c] # <<>>
  BY DEF Doing, Stage
<1> QED
  BY <1>1, <1>2, OnTheWay DEF At

-----------------------------------------------------------------------------
(* No call waits for all the others: who can sell waits for nobody, then   *)
(* who wants a quote, then who wants the customer, then who wants a phone. *)
LEMMA NobodyWaitsInACircle == BotInv => NoCircularWait
<1> SUFFICES ASSUME BotInv, NEW S \in SUBSET Calls, S # {}
             PROVE  \E c \in S : \A d \in S \ {c} : Wanted(c) \notin held[d]
  BY DEF NoCircularWait
<1>1. \A d \in S : held[d] = Holds(d) /\ d \in Calls
  BY DEF BotInv, Sane
<1>2. \A c, d \in S : c # d => held[c] \cap held[d] = {}
  BY DEF BotInv, Apart
<1>3. \A d \in S : <<"nothing">> \notin held[d]
  BY <1>1, LocksDiffer DEF Holds
<1>4. \A d \in S : /\ PhoneLock \in held[d] <=> HoldsPhone(d)
                   /\ CustomerLock \in held[d] <=> HoldsCustomer(d)
                   /\ \A q : QuoteRow(q) \in held[d] =>
                        HoldsQuote(d)
  BY <1>1, LocksDiffer DEF Holds
<1>5. \A c \in S : Wanted(c) \in {PhoneLock, CustomerLock, QuoteRow(call[c].cart.quote), <<"nothing">>}
  BY DEF Wanted, QuoteLock, QuoteRow
<1>6. CASE \E c \in S : Wanted(c) = <<"nothing">> \/ Wanted(c) \in held[c]
  BY <1>2, <1>3, <1>6
<1>7. CASE \A c \in S : Wanted(c) # <<"nothing">> /\ Wanted(c) \notin held[c]
  <2>1. \A c \in S : ~HoldsQuote(c)
    <3> SUFFICES ASSUME NEW c \in S, HoldsQuote(c) PROVE FALSE
      OBVIOUS
    <3>1. At(c) = "sell" /\ Quoted(c) /\ call[c].via \in {"sale", "checkout"}
      BY StandsAt DEF HoldsQuote
    <3>2. Wanted(c) = IF call[c].creates THEN <<"nothing">> ELSE CustomerLock
      BY <3>1, StandsAt DEF Wanted, Doing, At, Stage
    <3>3. ~call[c].creates
      BY <1>7, <3>2
    <3>4. HoldsCustomer(c)
      BY <3>1, <3>3 DEF HoldsCustomer, Matched
    <3> QED
      BY <1>4, <1>7, <3>2, <3>3, <3>4
  <2>2. CASE \E c \in S : Wanted(c) = QuoteRow(call[c].cart.quote)
    BY <1>4, <2>1, <2>2
  <2>3. CASE \A c \in S : Wanted(c) # QuoteRow(call[c].cart.quote)
    <3>1. \A c \in S : At(c) # "quote" /\ At(c) # "verify" /\ At(c) # "over" /\ At(c) # "stamp"
      <4> TAKE c \in S
      <4>1. At(c) = "quote" => Wanted(c) = QuoteRow(call[c].cart.quote)
        BY StandsAt DEF Wanted, Doing, At, Stage, QuoteLock, QuoteRow
      <4>2. At(c) \in {"verify", "over", "stamp"} => Wanted(c) = <<"nothing">>
        BY StandsAt DEF Wanted, Doing, At, Stage
      <4> QED
        BY <1>7, <2>3, <4>1, <4>2
    <3>2. \A c \in S : ~HoldsCustomer(c)
      <4> SUFFICES ASSUME NEW c \in S, HoldsCustomer(c) PROVE FALSE
        OBVIOUS
      <4>1. At(c) = "sell" /\ (Quoted(c) \/ call[c].via = "checkout")
        BY <3>1, StandsAt DEF HoldsCustomer, Matched
      <4>2. Wanted(c) = IF call[c].creates THEN <<"nothing">> ELSE CustomerLock
        BY <4>1, StandsAt DEF Wanted, Doing, At, Stage
      <4> QED
        BY <1>4, <1>7, <4>2
    <3>3. CASE \E c \in S : Wanted(c) = CustomerLock
      BY <1>4, <3>2, <3>3
    <3>4. CASE \A c \in S : Wanted(c) # CustomerLock
      <4>1. \A c \in S : ~HoldsPhone(c)
        <5> SUFFICES ASSUME NEW c \in S, HoldsPhone(c) PROVE FALSE
          OBVIOUS
        <5>1. At(c) \in {"customer", "sell"}
          BY <3>1, StandsAt DEF HoldsPhone
        <5>2. Wanted(c) \in {CustomerLock, <<"nothing">>}
          BY <5>1, StandsAt DEF Wanted, Doing, At, Stage
        <5> QED
          BY <1>7, <3>4, <5>2
      <4> QED
        BY <1>4, <1>5, <1>7, <2>3, <3>4, <4>1
    <3> QED
      BY <3>3, <3>4
  <2> QED
    BY <2>2, <2>3
<1> QED
  BY <1>6, <1>7

-----------------------------------------------------------------------------
(* What a step of one call leaves to the others: their own rows, what they *)
(* hold, and what they rely on.                                            *)
Alone(c) ==
  \A d \in Calls \ {c} : /\ call'[d] = call[d] /\ todo'[d] = todo[d]
                         /\ held'[d] = held[d] /\ sold'[d] = sold[d]

QuotesStay ==
  \A q \in ShipQuotes : shipQuote[q].status # "NONE" =>
    shipQuote'[q].status # "NONE" /\ shipQuote'[q].place = shipQuote[q].place

SalesStay ==
  \A d \in Calls : Has(d) =>
    /\ Has(d)'
    /\ call'[d].via = call[d].via /\ call'[d].key = call[d].key /\ call'[d].cart = call[d].cart

RelyOn(d) ==
  /\ call[d].via = "sale" /\ slot[call[d].key].owner = d => slot'[call[d].key].owner = d
  /\ call[d].via = "checkout" /\ receipt[call[d].key].owner = d => receipt'[call[d].key].owner = d
  /\ call[d].via = "checkout" /\ At(d) # "over" => receipt'[call[d].key] = receipt[call[d].key]
  /\ call[d].via = "checkout" /\ At(d) # "over" /\ call[d].creates =>
       (profiles = 0 /\ ~strangers' => profiles' = 0)
  /\ AddressLock \in held[d] => home' = home

Aside(c) ==
  /\ Alone(c) /\ QuotesStay /\ SalesStay
  /\ strangers => strangers'
  /\ \A d \in Calls \ {c} : RelyOn(d)

(* A call that a step does not disturb stays as it was.                    *)
LEMMA OthersSane ==
  ASSUME BotInv, NEW c, Aside(c), NEW d \in Calls, d # c
  PROVE  Sane(d)'
<1>1. call'[d] = call[d] /\ todo'[d] = todo[d] /\ held'[d] = held[d] /\ sold'[d] = sold[d]
  BY DEF Aside, Alone
<1>2. /\ At(d)' = At(d) /\ (Has(d)' <=> Has(d)) /\ (Quoted(d)' <=> Quoted(d))
      /\ Holds(d)' = Holds(d) /\ (Matched(d)' <=> Matched(d))
  BY <1>1 DEF At, Has, Quoted, Holds, HoldsKey, HoldsPhone, HoldsCustomer, Matched, HoldsQuote
<1>3. Sane(d)
  BY DEF BotInv
<1>4. RelyOn(d)
  BY DEF Aside
<1>5. SaleAt(d)'
  BY <1>1, <1>2, <1>3, <1>4 DEF Sane, SaleAt, RelyOn
<1>6. SoldAt(d)'
  <2>1. sold[d].quote # NoQuote => sold[d].quote \in ShipQuotes
    BY DEF BotInv, BotTypeOK
  <2> QED
    BY <1>1, <1>3, <2>1 DEF Sane, SoldAt, Aside, QuotesStay
<1>7. CheckoutAt(d)'
  <2> SUFFICES ASSUME call[d].via = "checkout"
               PROVE  CheckoutAt(d)'
    BY <1>1 DEF CheckoutAt
  <2>1. /\ At(d) # "over" => receipt'[call[d].key] = NoEntry /\ ~Has(d)
        /\ Has(d) => receipt'[call[d].key].owner = d
        /\ At(d) = "phone" \/ At(d) = "customer" => ~call[d].creates
        /\ call[d].creates /\ At(d) # "over" => ~call[d].cart.saved /\ (~strangers' => profiles' = 0)
    BY <1>3, <1>4 DEF Sane, CheckoutAt, RelyOn, Aside
  <2>2. ASSUME Quoted(d), At(d) \in {"quote", "sell"}
        PROVE  /\ shipQuote'[call[d].cart.quote].status # "NONE"
               /\ shipQuote'[call[d].cart.quote].place = Target(d)'
    <3>1. call[d].cart.quote \in ShipQuotes
      BY <1>3, <2>2, CartsAssumption DEF Sane, Cart, Quoted
    <3>2. Target(d)' = Target(d)
      <4>1. call[d].cart.saved => AddressLock \in held[d]
        BY <1>3, <2>2 DEF Sane, Holds, Matched
      <4> QED
        BY <1>1, <1>4, <4>1 DEF Target, RelyOn
    <3> QED
      BY <1>3, <2>2, <3>1, <3>2 DEF Sane, CheckoutAt, Aside, QuotesStay
  <2> QED
    BY <1>1, <1>2, <2>1, <2>2 DEF CheckoutAt
<1>8. \A e \in Calls : call'[d].answer = e => Answered(d, e)'
  BY <1>1, <1>3 DEF Sane, Answered, Aside, SalesStay
<1>9. todo'[d] \in Way(call'[d].via, Quoted(d)')
  BY <1>1, <1>3 DEF Sane, Quoted
<1> QED
  BY <1>1, <1>2, <1>3, <1>5, <1>6, <1>7, <1>8, <1>9 DEF Sane

-----------------------------------------------------------------------------
(* The steps on the way                                                    *)

(* A call that only walks on, and takes locks that are free, keeps all but *)
(* what its place on the way says of it.                                   *)
LEMMA WalkKept ==
  ASSUME BotInv, NEW c \in Calls, NEW b \in BOOLEAN, NEW L,
         At(c) # "over", Goes(c),
         call' = [call EXCEPT ![c].creates = b], held' = [held EXCEPT ![c] = @ \cup L],
         UNCHANGED <<profiles, strangers, home, shipQuote, slot, receipt, sold>>,
         \A d \in Calls \ {c} : L \cap held[d] = {},
         held'[c] = Holds(c)', SaleAt(c)', CheckoutAt(c)'
  PROVE  BotInv'
<1>1. BotTypeOK'
  BY ZenonT(60) DEF BotInv, BotTypeOK, Goes, Call
<1>2. /\ \A d \in Calls : /\ call'[d].via = call[d].via /\ call'[d].key = call[d].key
                          /\ call'[d].cart = call[d].cart /\ call'[d].answer = call[d].answer
                          /\ sold'[d] = sold[d] /\ (Has(d)' <=> Has(d))
      /\ \A d \in Calls \ {c} : call'[d] = call[d] /\ todo'[d] = todo[d] /\ held'[d] = held[d]
  BY DEF BotInv, BotTypeOK, Goes, Call, Has
<1>3. Sane(c)'
  <2>1. todo'[c] = Tail(todo[c])
    BY DEF BotInv, BotTypeOK, Goes
  <2>2. todo'[c] \in Way(call'[c].via, Quoted(c)')
    BY <1>2, <2>1, StandsAt DEF Quoted
  <2>3. Sane(c)
    BY DEF BotInv
  <2>4. SoldAt(c)'
    BY <1>2, <2>3 DEF Sane, SoldAt
  <2>5. \A d \in Calls : call'[c].answer = d => Answered(c, d)'
    BY <1>2, <2>3 DEF Sane, Answered
  <2> QED
    BY <1>2, <2>2, <2>3, <2>4, <2>5 DEF Sane
<1>4. Aside(c)
  BY <1>2 DEF Aside, Alone, QuotesStay, SalesStay, RelyOn
<1>5. \A d \in Calls : Sane(d)'
  BY <1>3, <1>4, OthersSane
<1>6. \A k \in BotKeys : EntryAt(k)'
  <2> TAKE k \in BotKeys
  <2>1. EntryAt(k)
    BY DEF BotInv
  <2> QED
    BY <1>2, <2>1 DEF EntryAt
<1>7. Apart'
  <2>1. held'[c] = held[c] \cup L
    BY DEF BotInv, BotTypeOK
  <2> QED
    BY <1>2, <2>1 DEF BotInv, Apart
<1> QED
  BY <1>1, <1>5, <1>6, <1>7 DEF BotInv, SpentOnce, OneCustomerPerPhone

(* The phone of a checkout.                                                *)
LEMMA LockPhoneKept == ASSUME BotInv, NEW c \in Calls, LockPhone(c) PROVE BotInv'
<1>1. At(c) = "phone" /\ call[c].via = "checkout" /\ todo'[c] = Tail(todo[c])
  BY StandsAt DEF LockPhone, Goes, BotInv, BotTypeOK
<1>2. At(c)' = "customer" /\ call' = call /\ held'[c] = held[c] \cup {PhoneLock}
  BY <1>1, StandsAt DEF LockPhone, Locks, At, BotInv, BotTypeOK
<1>3. Sane(c)
  BY DEF BotInv
<1>4. held'[c] = Holds(c)'
  BY <1>1, <1>2, <1>3 DEF Sane, Holds, HoldsKey, HoldsPhone, HoldsCustomer, Matched, HoldsQuote
<1>5. SaleAt(c)' /\ CheckoutAt(c)'
  BY <1>1, <1>2, <1>3 DEF Sane, SaleAt, CheckoutAt, LockPhone, Has, Quoted
<1>6. call' = [call EXCEPT ![c].creates = call[c].creates] /\ call[c].creates \in BOOLEAN
  BY <1>2 DEF BotInv, BotTypeOK, Call
<1>7. \A d \in Calls \ {c} : {PhoneLock} \cap held[d] = {}
  BY DEF LockPhone, Free
<1> QED
  BY <1>1, <1>2, <1>4, <1>5, <1>6, <1>7, WalkKept DEF LockPhone, Locks

(* The customer of a quoted sale.                                          *)
LEMMA LockCustomerKept == ASSUME BotInv, NEW c \in Calls, LockCustomer(c) PROVE BotInv'
<1>1. At(c) = "customer" /\ call[c].via = "sale" /\ Quoted(c) /\ todo'[c] = Tail(todo[c])
  BY StandsAt DEF LockCustomer, Goes, BotInv, BotTypeOK
<1>2. At(c)' = "quote" /\ call' = call /\ held'[c] = held[c] \cup {CustomerLock}
  BY <1>1, StandsAt DEF LockCustomer, Locks, At, BotInv, BotTypeOK
<1>3. Sane(c)
  BY DEF BotInv
<1>4. held'[c] = Holds(c)'
  BY <1>1, <1>2, <1>3 DEF Sane, Holds, HoldsKey, HoldsPhone, HoldsCustomer, Matched, HoldsQuote, Quoted
<1>5. SaleAt(c)' /\ CheckoutAt(c)'
  BY <1>1, <1>2, <1>3 DEF Sane, SaleAt, CheckoutAt, LockCustomer, Has, Quoted
<1>6. call' = [call EXCEPT ![c].creates = call[c].creates] /\ call[c].creates \in BOOLEAN
  BY <1>2 DEF BotInv, BotTypeOK, Call
<1>7. \A d \in Calls \ {c} : {CustomerLock} \cap held[d] = {}
  BY DEF LockCustomer, Free
<1> QED
  BY <1>1, <1>2, <1>4, <1>5, <1>6, <1>7, WalkKept DEF LockCustomer, Locks

(* The quote of either route.                                              *)
LEMMA LockQuoteKept == ASSUME BotInv, NEW c \in Calls, LockQuote(c) PROVE BotInv'
<1>1. At(c) = "quote" /\ Quoted(c) /\ todo'[c] = Tail(todo[c]) /\ call[c].via \in {"sale", "checkout"}
  BY StandsAt DEF LockQuote, Goes, BotInv, BotTypeOK
<1>2. /\ At(c)' = "sell" /\ call' = call
      /\ held'[c] = held[c] \cup {QuoteLock(c)} /\ QuoteLock(c) = QuoteRow(call[c].cart.quote)
  BY <1>1, StandsAt DEF LockQuote, Locks, At, BotInv, BotTypeOK, QuoteLock, QuoteRow
<1>3. Sane(c)
  BY DEF BotInv
<1>4. held'[c] = Holds(c)'
  BY <1>1, <1>2, <1>3 DEF Sane, Holds, HoldsKey, HoldsPhone, HoldsCustomer, Matched, HoldsQuote, Quoted
<1>5. SaleAt(c)' /\ CheckoutAt(c)'
  BY <1>1, <1>2, <1>3 DEF Sane, SaleAt, CheckoutAt, LockQuote, Has, Quoted, Target
<1>6. call' = [call EXCEPT ![c].creates = call[c].creates] /\ call[c].creates \in BOOLEAN
  BY <1>2 DEF BotInv, BotTypeOK, Call
<1>7. \A d \in Calls \ {c} : {QuoteLock(c)} \cap held[d] = {}
  BY DEF LockQuote, Free
<1> QED
  BY <1>1, <1>2, <1>4, <1>5, <1>6, <1>7, WalkKept DEF LockQuote, Locks

(* A quote that is verified is live, and for the address of a checkout.    *)
LEMMA VerifyKept == ASSUME BotInv, NEW c \in Calls, Verify(c) PROVE BotInv'
<1>1. At(c) = "verify" /\ Quoted(c) /\ todo'[c] = Tail(todo[c]) /\ call[c].via \in {"sale", "checkout"}
  BY StandsAt DEF Verify, Goes, BotInv, BotTypeOK
<1>2. /\ At(c)' = IF call[c].via = "sale" THEN "customer" ELSE "quote"
      /\ call' = call /\ held' = held
  BY <1>1, StandsAt DEF Verify, At
<1>3. Sane(c)
  BY DEF BotInv
<1>4. held'[c] = Holds(c)'
  BY <1>1, <1>2, <1>3 DEF Sane, Holds, HoldsKey, HoldsPhone, HoldsCustomer, Matched, HoldsQuote, Quoted
<1>5. SaleAt(c)' /\ CheckoutAt(c)'
  BY <1>1, <1>2, <1>3 DEF Sane, SaleAt, CheckoutAt, Verify, Verified, Has, Quoted, Target
<1>6. call' = [call EXCEPT ![c].creates = call[c].creates] /\ call[c].creates \in BOOLEAN
  BY <1>2 DEF BotInv, BotTypeOK, Call
<1>7. held' = [held EXCEPT ![c] = @ \cup {}]
  BY <1>2 DEF BotInv, BotTypeOK
<1>8. \A d \in Calls \ {c} : {} \cap held[d] = {}
  OBVIOUS
<1> QED
  BY <1>1, <1>2, <1>4, <1>5, <1>6, <1>7, <1>8, WalkKept DEF Verify

(* The customer of a checkout: nobody can hold his address without holding *)
(* him, so that both are free or neither is.                               *)
LEMMA MatchCustomerKept == ASSUME BotInv, NEW c \in Calls, MatchCustomer(c) PROVE BotInv'
<1> DEFINE L == IF profiles = 0 THEN {}
                ELSE {CustomerLock} \cup IF call[c].cart.saved THEN {AddressLock} ELSE {}
           b == profiles = 0 \/ call[c].creates
<1>1. At(c) = "customer" /\ call[c].via = "checkout" /\ todo'[c] = Tail(todo[c])
  BY StandsAt DEF MatchCustomer, Goes, BotInv, BotTypeOK
<1>2. Sane(c) /\ ~call[c].creates
  BY <1>1 DEF BotInv, Sane, CheckoutAt
<1>3. /\ At(c)' \in {"verify", "sell"} /\ (Quoted(c) <=> At(c)' = "verify")
  BY <1>1, StandsAt DEF At
<1>4. /\ call' = [call EXCEPT ![c].creates = b] /\ b \in BOOLEAN
      /\ held' = [held EXCEPT ![c] = @ \cup L]
  <2>1. call \in [Calls -> Call] /\ held = [d \in Calls |-> held[d]]
    BY DEF BotInv, BotTypeOK
  <2>2. CASE profiles = 0
    <3>1. held = [held EXCEPT ![c] = @ \cup {}]
      BY <2>1
    <3> QED
      BY <2>2, <3>1 DEF MatchCustomer
  <2>3. CASE profiles # 0
    <3>1. call = [call EXCEPT ![c].creates = FALSE]
      BY <1>2, <2>1 DEF Call
    <3> QED
      BY <1>2, <2>3, <3>1 DEF MatchCustomer, Locks
  <2> QED
    BY <2>2, <2>3
<1>5. /\ call'[c].creates = (profiles = 0) /\ call'[c].via = "checkout"
      /\ call'[c].key = call[c].key /\ call'[c].cart = call[c].cart
      /\ held'[c] = held[c] \cup L
  BY <1>1, <1>2, <1>4 DEF BotInv, BotTypeOK, Call
<1>6. call[c].cart.saved => profiles # 0
  BY DEF MatchCustomer, Matches
<1>7. held'[c] = Holds(c)'
  BY <1>1, <1>2, <1>3, <1>5, <1>6
  DEF Sane, Holds, HoldsKey, HoldsPhone, HoldsCustomer, Matched, HoldsQuote, Quoted
<1>8. SaleAt(c)' /\ CheckoutAt(c)'
  BY <1>1, <1>2, <1>3, <1>5, <1>6 DEF Sane, SaleAt, CheckoutAt, MatchCustomer, Has, Quoted
<1>9. \A d \in Calls \ {c} : L \cap held[d] = {}
  <2> SUFFICES ASSUME NEW d \in Calls \ {c}, profiles # 0
               PROVE  CustomerLock \notin held[d] /\ AddressLock \notin held[d]
    OBVIOUS
  <2>1. CustomerLock \notin held[d]
    BY DEF MatchCustomer, Free
  <2>2. Sane(d)
    BY DEF BotInv
  <2>3. AddressLock \in held[d] => Matched(d) /\ call[d].cart.saved
    BY <2>2, LocksDiffer DEF Sane, Holds
  <2>4. Matched(d) /\ call[d].cart.saved => HoldsCustomer(d)
    BY <2>2 DEF Sane, CheckoutAt, Matched, HoldsCustomer
  <2>5. HoldsCustomer(d) => CustomerLock \in held[d]
    BY <2>2 DEF Sane, Holds
  <2> QED
    BY <2>1, <2>3, <2>4, <2>5
<1> HIDE DEF L, b
<1> QED
  BY <1>1, <1>4, <1>5, <1>7, <1>8, <1>9, WalkKept DEF MatchCustomer

-----------------------------------------------------------------------------
(* The steps at the beginning                                              *)

(* A call that has not been made has nothing to do and holds nothing.      *)
LEMMA Unborn ==
  ASSUME BotInv, NEW c \in Calls, call[c] = NotCalled
  PROVE  ~Has(c) /\ todo[c] = <<>> /\ held[c] = {}
<1>1. Sane(c) /\ call[c].via = "none"
  BY DEF BotInv, NotCalled
<1>2. ~Has(c) /\ todo[c] \in {<<>>}
  BY <1>1 DEF Sane, Way
<1>3. At(c) = "over"
  BY <1>2 DEF At, Stage
<1> QED
  BY <1>1, <1>2, <1>3 DEF Sane, Holds, HoldsKey, HoldsPhone, HoldsCustomer, Matched, HoldsQuote, Quoted

(* What a call is after it asked.                                          *)
LEMMA AsksFor ==
  ASSUME BotInv, NEW c \in Calls, NEW via \in {"sale", "checkout"}, NEW k \in BotKeys, NEW cart \in Carts,
         NEW a \in Calls \cup {Nobody}, Asks(c, via, k, cart, a)
  PROVE  /\ call'[c] = [via |-> via, key |-> k, cart |-> cart, creates |-> FALSE, answer |-> a]
         /\ \A d \in Calls \ {c} : call'[d] = call[d]
         /\ call' \in [Calls -> Call]
BY DEF Asks, BotInv, BotTypeOK, Call

(* A call that is only answered, from what an earlier one left.            *)
LEMMA AnswerKept ==
  ASSUME BotInv, NEW c \in Calls, NEW via \in {"sale", "checkout"}, NEW k \in BotKeys, NEW cart \in Carts,
         NEW a \in Calls \cup {Nobody}, call[c] = NotCalled, Asks(c, via, k, cart, a),
         UNCHANGED <<profiles, strangers, home, shipQuote, slot, receipt, sold, todo, held>>,
         a \in Calls => Has(a) /\ call[a].cart = cart /\ call[a].key = k /\ call[a].via = via
  PROVE  BotInv'
<1>1. /\ call'[c] = [via |-> via, key |-> k, cart |-> cart, creates |-> FALSE, answer |-> a]
      /\ \A d \in Calls \ {c} : call'[d] = call[d]
      /\ call' \in [Calls -> Call]
  BY AsksFor
<1>2. BotTypeOK'
  BY <1>1 DEF BotInv, BotTypeOK
<1>3. ~Has(c) /\ todo[c] = <<>> /\ held[c] = {}
  BY Unborn
<1>4. Aside(c)
  BY <1>1, <1>3 DEF Aside, Alone, QuotesStay, SalesStay, RelyOn, Has
<1>5. Sane(c)'
  <2>1. At(c)' = "over" /\ ~Has(c)'
    BY <1>3 DEF At, Stage, Has
  <2>2. todo'[c] \in Way(via, Quoted(c)')
    BY <1>3 DEF Way, PlainSales, QuotedSales, PlainCheckouts, QuotedCheckouts, Quoted
  <2>3. held'[c] = Holds(c)'
    BY <1>3, <2>1 DEF Holds, HoldsKey, HoldsPhone, HoldsCustomer, Matched, HoldsQuote
  <2>4. SaleAt(c)' /\ CheckoutAt(c)'
    BY <1>1, <2>1 DEF SaleAt, CheckoutAt
  <2>5. sold'[c].quote = NoQuote
    BY <1>3 DEF Has, NothingSold
  <2>6. \A d \in Calls : call'[c].answer = d => Answered(c, d)'
    BY <1>1, <1>3 DEF Answered, Has
  <2> QED
    BY <1>1, <2>1, <2>2, <2>3, <2>4, <2>5, <2>6 DEF Sane, SoldAt
<1>6. \A d \in Calls : Sane(d)'
  BY <1>4, <1>5, OthersSane
<1>7. \A l \in BotKeys : EntryAt(l)'
  <2> TAKE l \in BotKeys
  <2>1. EntryAt(l) /\ call[c].via = "none"
    BY DEF BotInv, NotCalled
  <2> QED
    BY <1>1, <2>1 DEF EntryAt, Has
<1> QED
  BY <1>2, <1>6, <1>7 DEF BotInv, Apart, SpentOnce, OneCustomerPerPhone

(* A sale takes a slot that nobody has, for good.                          *)
LEMMA RegisterSaleKept ==
  ASSUME BotInv, NEW c \in Calls, NEW k \in BotKeys, NEW cart \in Carts, RegisterSale(c, k, cart)
  PROVE  BotInv'
<1> call[c] = NotCalled /\ UNCHANGED <<profiles, strangers, home, shipQuote, receipt, sold, held>>
  BY DEF RegisterSale
<1>1. ~Has(c) /\ todo[c] = <<>> /\ held[c] = {}
  BY Unborn
<1>2. EntryAt(k) /\ Nobody \notin Calls
  BY CartsAssumption DEF BotInv
<1>3. CASE slot[k] # NoEntry
  <2> DEFINE a == IF slot[k].done /\ call[slot[k].owner].cart = cart THEN slot[k].owner ELSE Nobody
  <2>1. Asks(c, "sale", k, cart, a) /\ UNCHANGED <<slot, todo>>
    BY <1>3 DEF RegisterSale
  <2>2. /\ a \in Calls \cup {Nobody}
        /\ a \in Calls => Has(a) /\ call[a].cart = cart /\ call[a].key = k /\ call[a].via = "sale"
    BY <1>2 DEF EntryAt, BotInv, BotTypeOK, Entry
  <2> HIDE DEF a
  <2> QED
    BY <2>1, <2>2, AnswerKept
<1>4. CASE slot[k] = NoEntry
  <2>1. /\ call'[c] = [via |-> "sale", key |-> k, cart |-> cart, creates |-> FALSE, answer |-> Nobody]
        /\ \A d \in Calls \ {c} : call'[d] = call[d] /\ todo'[d] = todo[d]
        /\ call' \in [Calls -> Call]
        /\ todo' = [d \in Calls |-> todo'[d]] /\ todo'[c] = Path("sale", cart)
        /\ slot'[k] = [owner |-> c, done |-> FALSE]
        /\ \A l \in BotKeys \ {k} : slot'[l] = slot[l]
        /\ slot' \in [BotKeys -> Entry]
    <3>1. Asks(c, "sale", k, cart, Nobody)
      BY <1>4 DEF RegisterSale
    <3>2. slot' = [slot EXCEPT ![k] = [owner |-> c, done |-> FALSE]]
          /\ todo' = [todo EXCEPT ![c] = Path("sale", cart)]
      BY <1>4 DEF RegisterSale
    <3>3. todo = [d \in Calls |-> todo[d]] /\ slot \in [BotKeys -> Entry]
      BY DEF BotInv, BotTypeOK
    <3>4. /\ \A d \in Calls \ {c} : todo'[d] = todo[d]
          /\ todo' = [d \in Calls |-> todo'[d]] /\ todo'[c] = Path("sale", cart)
      BY <3>2, <3>3
    <3>5. /\ slot'[k] = [owner |-> c, done |-> FALSE]
          /\ \A l \in BotKeys \ {k} : slot'[l] = slot[l]
          /\ slot' \in [BotKeys -> Entry]
      BY <3>2, <3>3 DEF Entry
    <3> QED
      BY <3>1, <3>4, <3>5, AsksFor
  <2>2. BotTypeOK'
    BY <2>1 DEF BotInv, BotTypeOK
  <2>3. Aside(c)
    <3>1. \A d \in Calls \ {c} : RelyOn(d)
      <4> TAKE d \in Calls \ {c}
      <4>1. call[d].via = "sale" /\ slot[call[d].key].owner = d => slot'[call[d].key].owner = d
        <5>1. call[d].via = "sale" => call[d].key \in BotKeys
          BY DEF BotInv, Sane
        <5> QED
          BY <1>2, <1>4, <2>1, <5>1 DEF NoEntry
      <4> QED
        BY <4>1 DEF RelyOn
    <3> QED
      BY <1>1, <2>1, <3>1 DEF Aside, Alone, QuotesStay, SalesStay, Has
  <2>4. Sane(c)'
    <3>1. At(c)' = (IF cart.quote = NoQuote THEN "sell" ELSE "verify") /\ ~Has(c)'
      BY <1>1, <2>1, PathStarts DEF At, Has
    <3>2. todo'[c] \in Way("sale", Quoted(c)')
      BY <2>1, PathStarts DEF Quoted
    <3>3. held'[c] = Holds(c)'
      BY <1>1, <2>1, <3>1 DEF Holds, HoldsKey, HoldsPhone, HoldsCustomer, Matched, HoldsQuote, Quoted
    <3>4. SaleAt(c)' /\ CheckoutAt(c)'
      BY <2>1, <3>1 DEF SaleAt, CheckoutAt
    <3>5. sold'[c].quote = NoQuote
      BY <1>1 DEF Has, NothingSold
    <3> QED
      BY <1>2, <2>1, <3>1, <3>2, <3>3, <3>4, <3>5 DEF Sane, SoldAt
  <2>5. \A d \in Calls : Sane(d)'
    BY <2>3, <2>4, OthersSane
  <2>6. \A l \in BotKeys : EntryAt(l)'
    <3> TAKE l \in BotKeys
    <3>1. EntryAt(l) /\ call[c].via = "none"
      BY DEF BotInv, NotCalled
    <3> QED
      BY <1>2, <2>1, <3>1 DEF EntryAt, Has
  <2> QED
    BY <2>2, <2>5, <2>6 DEF BotInv, Apart, SpentOnce, OneCustomerPerPhone
<1> QED
  BY <1>3, <1>4

(* A checkout begins under the lock of its key, and only where there is no *)
(* receipt yet.                                                            *)
LEMMA CheckoutKept ==
  ASSUME BotInv, NEW c \in Calls, NEW k \in BotKeys, NEW cart \in Carts, Checkout(c, k, cart)
  PROVE  BotInv'
<1> call[c] = NotCalled /\ UNCHANGED <<profiles, strangers, home, shipQuote, slot, receipt, sold>>
  BY DEF Checkout
<1>1. ~Has(c) /\ todo[c] = <<>> /\ held[c] = {}
  BY Unborn
<1>2. EntryAt(k) /\ Nobody \notin Calls
  BY CartsAssumption DEF BotInv
<1>3. CASE ~(Free(<<"key", k>>, c) /\ receipt[k] = NoEntry)
  <2> DEFINE a == IF receipt[k].done /\ call[receipt[k].owner].cart = cart THEN receipt[k].owner ELSE Nobody
  <2>1. Asks(c, "checkout", k, cart, a) /\ UNCHANGED <<todo, held>>
    BY <1>3 DEF Checkout
  <2>2. /\ a \in Calls \cup {Nobody}
        /\ a \in Calls => Has(a) /\ call[a].cart = cart /\ call[a].key = k /\ call[a].via = "checkout"
    BY <1>2 DEF EntryAt, BotInv, BotTypeOK, Entry
  <2> HIDE DEF a
  <2> QED
    BY <2>1, <2>2, AnswerKept
<1>4. CASE Free(<<"key", k>>, c) /\ receipt[k] = NoEntry
  <2>1. /\ call'[c] = [via |-> "checkout", key |-> k, cart |-> cart, creates |-> FALSE, answer |-> Nobody]
        /\ \A d \in Calls \ {c} : call'[d] = call[d] /\ todo'[d] = todo[d] /\ held'[d] = held[d]
        /\ call' \in [Calls -> Call]
        /\ todo' = [d \in Calls |-> todo'[d]] /\ todo'[c] = Path("checkout", cart)
        /\ held' = [d \in Calls |-> held'[d]] /\ held'[c] = {KeyLock(k)}
    <3>1. Asks(c, "checkout", k, cart, Nobody)
      BY <1>4 DEF Checkout
    <3>2. todo' = [todo EXCEPT ![c] = Path("checkout", cart)] /\ Locks(c, {<<"key", k>>})
      BY <1>4 DEF Checkout
    <3>3. todo = [d \in Calls |-> todo[d]] /\ held = [d \in Calls |-> held[d]]
      BY DEF BotInv, BotTypeOK
    <3>4. /\ \A d \in Calls \ {c} : todo'[d] = todo[d] /\ held'[d] = held[d]
          /\ todo' = [d \in Calls |-> todo'[d]] /\ todo'[c] = Path("checkout", cart)
          /\ held' = [d \in Calls |-> held'[d]] /\ held'[c] = {KeyLock(k)}
      BY <1>1, <3>2, <3>3 DEF Locks, KeyLock
    <3> QED
      BY <3>1, <3>4, AsksFor
  <2>2. BotTypeOK'
    BY <2>1 DEF BotInv, BotTypeOK
  <2>3. Aside(c)
    BY <1>1, <2>1 DEF Aside, Alone, QuotesStay, SalesStay, RelyOn, Has
  <2>4. Sane(c)'
    <3>1. At(c)' = "phone" /\ ~Has(c)'
      BY <1>1, <2>1, PathStarts DEF At, Has
    <3>2. todo'[c] \in Way("checkout", Quoted(c)')
      BY <2>1, PathStarts DEF Quoted
    <3>3. held'[c] = Holds(c)'
      BY <2>1, <3>1 DEF Holds, HoldsKey, HoldsPhone, HoldsCustomer, Matched, HoldsQuote, Quoted
    <3>4. SaleAt(c)' /\ CheckoutAt(c)'
      BY <1>4, <2>1, <3>1 DEF SaleAt, CheckoutAt
    <3>5. sold'[c].quote = NoQuote
      BY <1>1 DEF Has, NothingSold
    <3> QED
      BY <1>2, <2>1, <3>1, <3>2, <3>3, <3>4, <3>5 DEF Sane, SoldAt
  <2>5. \A d \in Calls : Sane(d)'
    BY <2>3, <2>4, OthersSane
  <2>6. \A l \in BotKeys : EntryAt(l)'
    <3> TAKE l \in BotKeys
    <3>1. EntryAt(l) /\ call[c].via = "none"
      BY DEF BotInv, NotCalled
    <3> QED
      BY <1>2, <2>1, <3>1 DEF EntryAt, Has
  <2>7. Apart'
    BY <1>4, <2>1 DEF BotInv, Apart, Free, KeyLock
  <2> QED
    BY <2>2, <2>5, <2>6, <2>7 DEF BotInv, SpentOnce, OneCustomerPerPhone
<1> QED
  BY <1>3, <1>4

-----------------------------------------------------------------------------
(* The steps at the end                                                    *)

(* A sale that is stamped is the sale of its slot.                         *)
LEMMA StampSaleKept == ASSUME BotInv, NEW c \in Calls, StampSale(c) PROVE BotInv'
<1> DEFINE k == call[c].key
<1> UNCHANGED <<profiles, strangers, home, shipQuote, receipt, sold, held>>
  BY DEF StampSale
<1>1. At(c) = "stamp" /\ call[c].via = "sale"
  BY StandsAt DEF StampSale
<1>2. Sane(c)
  BY DEF BotInv
<1>3. Has(c) /\ k \in BotKeys /\ slot[k].owner = c
  BY <1>1, <1>2 DEF Sane, SaleAt
<1>4. /\ call' = [call EXCEPT ![c].answer = c] /\ slot' = [slot EXCEPT ![k].done = TRUE]
      /\ todo' = [todo EXCEPT ![c] = Tail(@)]
  BY DEF StampSale, Goes
<1>5. /\ call \in [Calls -> Call] /\ slot \in [BotKeys -> Entry] /\ todo = [d \in Calls |-> todo[d]]
  BY DEF BotInv, BotTypeOK
<1>6. /\ call' \in [Calls -> Call] /\ call'[c] = [call[c] EXCEPT !.answer = c]
      /\ \A d \in Calls \ {c} : call'[d] = call[d]
  BY <1>4, <1>5 DEF Call
<1>7. /\ slot' \in [BotKeys -> Entry] /\ slot'[k].owner = c
      /\ \A l \in BotKeys \ {k} : slot'[l] = slot[l]
  BY <1>3, <1>4, <1>5 DEF Entry
<1>8. /\ todo' = [d \in Calls |-> todo'[d]] /\ todo'[c] = Tail(todo[c])
      /\ \A d \in Calls \ {c} : todo'[d] = todo[d]
  BY <1>4, <1>5
<1> HIDE DEF k
<1>9. BotTypeOK'
  BY <1>6, <1>7, <1>8 DEF BotInv, BotTypeOK
<1>10. /\ call'[c].via = "sale" /\ call'[c].key = k /\ call'[c].cart = call[c].cart
       /\ call'[c].creates = call[c].creates /\ call'[c].answer = c
  BY <1>1, <1>5, <1>6 DEF Call, k
<1>11. Aside(c)
  <2>1. \A d \in Calls \ {c} : RelyOn(d)
    <3> TAKE d \in Calls \ {c}
    <3>1. call[d].via = "sale" => call[d].key \in BotKeys
      BY DEF BotInv, Sane
    <3> QED
      BY <1>3, <1>7, <3>1 DEF RelyOn
  <2> QED
    BY <1>6, <1>8, <1>10, <1>1, <2>1 DEF Aside, Alone, QuotesStay, SalesStay, Has, k
<1>12. Sane(c)'
  <2>1. At(c)' = "over" /\ Has(c)' /\ (Quoted(c)' <=> Quoted(c))
    BY <1>1, <1>3, <1>8, <1>10, StandsAt DEF At, Has, Quoted
  <2>2. todo'[c] \in Way("sale", Quoted(c)')
    BY <1>1, <1>8, <1>10, StandsAt DEF Quoted
  <2>3. held'[c] = Holds(c)'
    BY <1>1, <1>2, <1>10, <2>1
    DEF Sane, Holds, HoldsKey, HoldsPhone, HoldsCustomer, Matched, HoldsQuote
  <2>4. SaleAt(c)' /\ CheckoutAt(c)' /\ SoldAt(c)'
    BY <1>1, <1>2, <1>7, <1>10, <2>1 DEF Sane, SaleAt, CheckoutAt, SoldAt
  <2>5. \A d \in Calls : call'[c].answer = d => Answered(c, d)'
    BY <1>10, <2>1 DEF Answered
  <2> QED
    BY <1>2, <1>3, <1>10, <2>1, <2>2, <2>3, <2>4, <2>5 DEF Sane, k
<1>13. \A d \in Calls : Sane(d)'
  BY <1>11, <1>12, OthersSane
<1>14. \A l \in BotKeys : EntryAt(l)'
  <2> TAKE l \in BotKeys
  <2>1. EntryAt(l)
    BY DEF BotInv
  <2>2. \A d \in Calls : call'[d].via = call[d].via /\ call'[d].key = call[d].key /\ (Has(d)' <=> Has(d))
    BY <1>1, <1>6, <1>10 DEF Has, k
  <2>3. slot'[l].owner = slot[l].owner /\ (slot'[l].done => slot[l].done \/ l = k)
    BY <1>3, <1>7
  <2> QED
    BY <1>3, <2>1, <2>2, <2>3 DEF EntryAt
<1> QED
  BY <1>9, <1>13, <1>14 DEF BotInv, Apart, SpentOnce, OneCustomerPerPhone

(* A sale spends its quote, leaves the receipt of a checkout, and lets go  *)
(* of everything.  Two checkouts cannot both have created the customer:    *)
(* each holds the phone.                                                   *)
LEMMA SellKept == ASSUME BotInv, NEW c \in Calls, Sell(c) PROVE BotInv'
<1> DEFINE q == call[c].cart.quote
           k == call[c].key
           sale == [quote |-> q, place |-> Target(c),
                    fresh |-> q = NoQuote \/ shipQuote[q].status = "LIVE"]
<1> UNCHANGED <<strangers, home, shipQuote, slot>>
  BY DEF Sell
<1>1. At(c) = "sell" /\ call[c].via \in {"sale", "checkout"}
  BY StandsAt DEF Sell
<1>2. Sane(c)
  BY DEF BotInv
<1>3. k \in BotKeys /\ call[c].cart \in Cart /\ q \in ShipQuotes \cup {NoQuote} /\ (Quoted(c) <=> q # NoQuote)
  BY <1>1, <1>2, CartsAssumption DEF Sane, Cart, Quoted
<1>4. ~Has(c)
  BY <1>1, <1>2 DEF Sane, SaleAt, CheckoutAt
<1>5. /\ sale \in [quote : ShipQuotes \cup {NoQuote}, place : Places \cup {Nobody}, fresh : BOOLEAN]
      /\ sale.fresh /\ sale.quote = q /\ sale.place = Target(c) /\ sale # NothingSold
  <2>1. Target(c) \in Places
    BY <1>3 DEF Target, Cart, BotInv, BotTypeOK
  <2>2. q # NoQuote => shipQuote[q].status = "LIVE"
    BY DEF Sell, Usable
  <2> QED
    BY <1>3, <2>1, <2>2 DEF NothingSold
<1>6. /\ sold' = [sold EXCEPT ![c] = sale]
      /\ held' = [held EXCEPT ![c] = {}] /\ todo' = [todo EXCEPT ![c] = Tail(@)]
      /\ receipt' = IF call[c].via = "checkout"
                    THEN [receipt EXCEPT ![k] = [owner |-> c, done |-> TRUE]] ELSE receipt
      /\ profiles' = IF call[c].creates THEN profiles + 1 ELSE profiles
      /\ call' = IF call[c].via = "checkout" THEN [call EXCEPT ![c].answer = c] ELSE call
  BY DEF Sell, Goes
<1>7. /\ call \in [Calls -> Call] /\ receipt \in [BotKeys -> Entry] /\ todo = [d \in Calls |-> todo[d]]
      /\ held = [d \in Calls |-> held[d]] /\ profiles \in Nat
      /\ sold \in [Calls -> [quote : ShipQuotes \cup {NoQuote}, place : Places \cup {Nobody},
                             fresh : BOOLEAN]]
  BY DEF BotInv, BotTypeOK
<1> HIDE DEF sale
<1>8. /\ call' \in [Calls -> Call] /\ \A d \in Calls \ {c} : call'[d] = call[d]
      /\ \A d \in Calls : /\ call'[d].via = call[d].via /\ call'[d].key = call[d].key
                          /\ call'[d].cart = call[d].cart /\ call'[d].creates = call[d].creates
      /\ call'[c].answer = IF call[c].via = "checkout" THEN c ELSE call[c].answer
  <2>1. CASE call[c].via = "checkout"
    BY <1>6, <1>7, <2>1 DEF Call
  <2>2. CASE call[c].via # "checkout"
    BY <1>6, <1>7, <2>2
  <2> QED
    BY <2>1, <2>2
<1>9. /\ sold'[c] = sale /\ \A d \in Calls \ {c} : sold'[d] = sold[d]
      /\ sold' \in [Calls -> [quote : ShipQuotes \cup {NoQuote}, place : Places \cup {Nobody},
                              fresh : BOOLEAN]]
  BY <1>5, <1>6, <1>7
<1>10. /\ held'[c] = {} /\ held' = [d \in Calls |-> held'[d]]
       /\ todo'[c] = Tail(todo[c]) /\ todo' = [d \in Calls |-> todo'[d]]
       /\ \A d \in Calls \ {c} : todo'[d] = todo[d] /\ held'[d] = held[d]
  BY <1>6, <1>7
<1>11. /\ receipt' \in [BotKeys -> Entry]
       /\ \A l \in BotKeys : call[c].via # "checkout" \/ l # k => receipt'[l] = receipt[l]
       /\ call[c].via = "checkout" => receipt'[k] = [owner |-> c, done |-> TRUE]
  BY <1>3, <1>6, <1>7 DEF Entry
<1>12. profiles' \in Nat
  BY <1>6, <1>7
<1> HIDE DEF k
<1>13. BotTypeOK'
  BY <1>8, <1>9, <1>10, <1>11, <1>12 DEF BotInv, BotTypeOK
<1>14. \A d \in Calls : Has(d)' <=> Has(d) \/ d = c
  BY <1>4, <1>5, <1>9 DEF Has
<1>15. Aside(c)
  <2>1. \A d \in Calls \ {c} : RelyOn(d)
    <3> TAKE d \in Calls \ {c}
    <3>1. Sane(d) /\ held[c] \cap held[d] = {}
      BY DEF BotInv, Apart
    <3>2. ASSUME call[d].via = "checkout", call[c].via = "checkout", At(d) # "over"
          PROVE  call[d].key \in BotKeys /\ call[d].key # k
      <4>1. KeyLock(k) \in held[c] /\ KeyLock(call[d].key) \in held[d]
        BY <1>1, <1>2, <3>1, <3>2 DEF Sane, Holds, HoldsKey, k
      <4> QED
        BY <3>1, <3>2, <4>1 DEF Sane
    <3>3. call[d].via = "checkout" /\ At(d) # "over" => receipt'[call[d].key] = receipt[call[d].key]
      BY <1>11, <3>1, <3>2 DEF Sane
    <3>4. call[d].via = "checkout" /\ receipt[call[d].key].owner = d =>
            receipt'[call[d].key].owner = d
      <4>1. call[d].via = "checkout" => call[d].key \in BotKeys
        BY <3>1 DEF Sane
      <4>2. call[c].via = "checkout" => receipt[k] = NoEntry
        BY <1>1, <1>2 DEF Sane, CheckoutAt, k
      <4>3. receipt[k] = NoEntry => receipt[k].owner # d
        BY CartsAssumption DEF NoEntry
      <4> QED
        BY <1>11, <4>1, <4>2, <4>3
    <3>5. call[d].via = "checkout" /\ At(d) # "over" /\ call[d].creates => ~call[c].creates
      <4> SUFFICES ASSUME call[d].via = "checkout", At(d) # "over", call[d].creates, call[c].creates
                   PROVE  FALSE
        OBVIOUS
      <4>1. HoldsPhone(d)
        BY <3>1 DEF Sane, CheckoutAt, HoldsPhone
      <4>2. HoldsPhone(c)
        BY <1>1, <1>2 DEF Sane, SaleAt, HoldsPhone
      <4>3. PhoneLock \in held[c] /\ PhoneLock \in held[d]
        BY <1>2, <3>1, <4>1, <4>2 DEF Sane, Holds
      <4> QED
        BY <3>1, <4>3
    <3> QED
      BY <1>6, <3>3, <3>4, <3>5 DEF RelyOn
  <2> QED
    BY <1>8, <1>9, <1>10, <1>14, <2>1 DEF Aside, Alone, QuotesStay, SalesStay
<1>16. Sane(c)'
  <2>1. At(c)' = IF call[c].via = "sale" THEN "stamp" ELSE "over"
    BY <1>1, <1>10, StandsAt DEF At
  <2>2. todo'[c] \in Way(call'[c].via, Quoted(c)')
    BY <1>1, <1>8, <1>10, StandsAt DEF Quoted
  <2>3. held'[c] = Holds(c)'
    BY <1>1, <1>8, <1>10, <2>1 DEF Holds, HoldsKey, HoldsPhone, HoldsCustomer, Matched, HoldsQuote
  <2>4. SaleAt(c)'
    BY <1>1, <1>2, <1>8, <1>14, <2>1 DEF Sane, SaleAt
  <2>5. CheckoutAt(c)'
    BY <1>3, <1>8, <1>11, <2>1 DEF CheckoutAt, k
  <2>6. SoldAt(c)'
    <3>1. q # NoQuote => shipQuote[q].status = "LIVE"
      BY DEF Sell, Usable
    <3>2. q # NoQuote /\ call[c].via = "checkout" => Target(c) = shipQuote[q].place
      BY <1>1, <1>2, <1>3 DEF Sane, CheckoutAt
    <3> QED
      BY <1>5, <1>8, <1>9, <3>1, <3>2 DEF SoldAt
  <2>7. \A d \in Calls : call'[c].answer = d => Answered(c, d)'
    <3> SUFFICES ASSUME NEW d \in Calls, call'[c].answer = d
                 PROVE  Answered(c, d)'
      OBVIOUS
    <3>1. d = c \/ Answered(c, d)
      BY <1>2, <1>8 DEF Sane
    <3> QED
      BY <1>8, <1>14, <3>1 DEF Answered
  <2> QED
    BY <1>2, <1>3, <1>8, <1>1, <2>2, <2>3, <2>4, <2>5, <2>6, <2>7 DEF Sane, k
<1>17. \A d \in Calls : Sane(d)'
  BY <1>15, <1>16, OthersSane
<1>18. \A l \in BotKeys : EntryAt(l)'
  <2> TAKE l \in BotKeys
  <2>1. EntryAt(l)
    BY DEF BotInv
  <2>2. CASE call[c].via = "checkout" /\ l = k
    BY <1>8, <1>11, <1>14, <2>1, <2>2 DEF EntryAt, k
  <2>3. CASE ~(call[c].via = "checkout" /\ l = k)
    BY <1>8, <1>11, <1>14, <2>1, <2>3 DEF EntryAt
  <2> QED
    BY <2>2, <2>3
<1>19. Apart'
  BY <1>10 DEF BotInv, Apart
<1>20. SpentOnce'
  <2>1. \A d \in Calls : q # NoQuote => sold[d].quote # q
    BY DEF Sell, Usable, Spent, NothingSold
  <2> QED
    BY <1>5, <1>9, <2>1 DEF BotInv, SpentOnce
<1>21. OneCustomerPerPhone'
  <2>1. call[c].creates => (~strangers => profiles = 0)
    BY <1>1, <1>2 DEF Sane, SaleAt, CheckoutAt
  <2> QED
    BY <1>6, <1>7, <2>1 DEF BotInv, OneCustomerPerPhone
<1> QED
  BY <1>13, <1>17, <1>18, <1>19, <1>20, <1>21 DEF BotInv

(* A call that fails lets go of everything, and of its slot only where it  *)
(* has not sold.                                                           *)
LEMMA FailKept == ASSUME BotInv, NEW c \in Calls, Fail(c) PROVE BotInv'
<1> DEFINE k == call[c].key
<1> UNCHANGED <<profiles, strangers, home, shipQuote, receipt, sold, call>>
  BY DEF Fail
<1>1. Sane(c) /\ At(c) # "over" /\ call[c].via \in {"sale", "checkout"} /\ k \in BotKeys
  <2>1. Sane(c) /\ At(c) # "over"
    BY StandsAt DEF BotInv, Fail
  <2> QED
    BY <2>1, StandsAt DEF Sane
<1>2. /\ todo'[c] = <<>> /\ held'[c] = {}
      /\ todo' = [d \in Calls |-> todo'[d]] /\ held' = [d \in Calls |-> held'[d]]
      /\ \A d \in Calls \ {c} : todo'[d] = todo[d] /\ held'[d] = held[d]
  BY DEF Fail, Ends, BotInv, BotTypeOK
<1>3. \/ slot' = slot
      \/ /\ call[c].via = "sale" /\ ~Has(c) /\ slot[k].owner = c
         /\ slot' = [slot EXCEPT ![k] = NoEntry]
  <2>1. Released(c) => call[c].via = "sale" /\ At(c) \in {"verify", "sell"}
    BY StandsAt DEF Released
  <2> QED
    BY <1>1, <2>1 DEF Fail, Sane, SaleAt
<1>4. slot \in [BotKeys -> Entry] /\ NoEntry \in Entry
  BY DEF BotInv, BotTypeOK, NoEntry, Entry
<1>5. BotTypeOK'
  BY <1>2, <1>3, <1>4 DEF BotInv, BotTypeOK
<1>6. Aside(c)
  <2>1. \A d \in Calls \ {c} : call[d].via = "sale" /\ slot[call[d].key].owner = d =>
          slot'[call[d].key].owner = d
    <3> TAKE d \in Calls \ {c}
    <3>1. call[d].via = "sale" => call[d].key \in BotKeys
      BY DEF BotInv, Sane
    <3> QED
      BY <1>3, <1>4, <3>1
  <2> QED
    BY <1>2, <2>1 DEF Aside, Alone, QuotesStay, SalesStay, RelyOn, Has
<1> HIDE DEF k
<1>7. Sane(c)'
  <2>1. At(c)' = "over" /\ (Has(c)' <=> Has(c))
    BY <1>2 DEF At, Stage, Has
  <2>2. todo'[c] \in Way(call'[c].via, Quoted(c)')
    <3>1. Quoted(c)' \in BOOLEAN
      BY DEF Quoted
    <3> QED
      BY <1>1, <1>2, <3>1 DEF Way, PlainSales, QuotedSales, PlainCheckouts, QuotedCheckouts
  <2>3. held'[c] = Holds(c)'
    BY <1>2, <2>1 DEF Holds, HoldsKey, HoldsPhone, HoldsCustomer, Matched, HoldsQuote
  <2>4. SaleAt(c)'
    BY <1>1, <1>3, <2>1 DEF Sane, SaleAt, k
  <2>5. CheckoutAt(c)'
    BY <1>1, <2>1 DEF Sane, CheckoutAt
  <2>6. SoldAt(c)'
    BY <1>1 DEF Sane, SoldAt
  <2>7. \A d \in Calls : call'[c].answer = d => Answered(c, d)'
    BY <1>1 DEF Sane, Answered, Has
  <2> QED
    BY <1>1, <2>1, <2>2, <2>3, <2>4, <2>5, <2>6, <2>7 DEF Sane
<1>8. \A d \in Calls : Sane(d)'
  BY <1>6, <1>7, OthersSane
<1>9. \A l \in BotKeys : EntryAt(l)'
  <2> TAKE l \in BotKeys
  <2>1. EntryAt(l)
    BY DEF BotInv
  <2>2. slot'[l] = slot[l] \/ slot'[l] = NoEntry
    BY <1>3, <1>4
  <2> QED
    BY <2>1, <2>2, CartsAssumption DEF EntryAt, Has, NoEntry
<1>10. Apart'
  BY <1>2 DEF BotInv, Apart
<1> QED
  BY <1>5, <1>8, <1>9, <1>10 DEF BotInv, SpentOnce, OneCustomerPerPhone

-----------------------------------------------------------------------------
(* The steps around the calls, which leave every one of them aside.        *)
LEMMA WorldKept ==
  ASSUME BotInv, UNCHANGED <<slot, receipt, sold, call, todo, held>>,
         BotTypeOK', OneCustomerPerPhone', QuotesStay,
         strangers => strangers',
         profiles = 0 /\ ~strangers' => profiles' = 0,
         home' = home \/ \A d \in Calls : AddressLock \notin held[d]
  PROVE  BotInv'
<1>1. Aside(Nobody) /\ Nobody \notin Calls
  BY CartsAssumption DEF Aside, Alone, SalesStay, RelyOn, Has
<1>2. \A d \in Calls : Sane(d)'
  BY <1>1, OthersSane
<1>3. \A k \in BotKeys : EntryAt(k)'
  <2> TAKE k \in BotKeys
  <2>1. EntryAt(k)
    BY DEF BotInv
  <2> QED
    BY <2>1 DEF EntryAt, Has
<1> QED
  BY <1>2, <1>3 DEF BotInv, Apart, SpentOnce

(* A quote keeps its address once it is issued.                            *)
LEMMA QuotesKept ==
  ASSUME BotInv, NEW q \in ShipQuotes, ExpireQuote(q) \/ \E place \in Places : IssueQuote(q, place)
  PROVE  BotInv'
<1> DEFINE Quote == [status : {"NONE", "LIVE", "EXPIRED"}, place : Places \cup {Nobody}]
<1>1. /\ UNCHANGED <<profiles, strangers, home, slot, receipt, sold, call, todo, held>>
      /\ shipQuote \in [ShipQuotes -> Quote]
  BY DEF ExpireQuote, IssueQuote, BotInv, BotTypeOK
<1>2. shipQuote' \in [ShipQuotes -> Quote] /\ QuotesStay
  <2>1. CASE ExpireQuote(q)
    BY <1>1, <2>1 DEF ExpireQuote, QuotesStay
  <2>2. ASSUME NEW place \in Places, IssueQuote(q, place)
        PROVE  shipQuote' \in [ShipQuotes -> Quote] /\ QuotesStay
    BY <1>1, <2>2 DEF IssueQuote, QuotesStay
  <2> QED
    BY <2>1, <2>2
<1>3. BotTypeOK'
  BY <1>1, <1>2 DEF BotInv, BotTypeOK
<1> QED
  BY <1>1, <1>2, <1>3, WorldKept DEF BotInv, OneCustomerPerPhone

(* The address and the customers, as others write them.                    *)
LEMMA CustomersKept ==
  ASSUME BotInv, WriteCustomer \/ \E place \in Places : EditAddress(place)
  PROVE  BotInv'
<1>1. BotTypeOK'
  <2>1. profiles' \in Nat /\ strangers' \in BOOLEAN /\ home' \in Places
    <3>1. profiles \in Nat /\ strangers \in BOOLEAN /\ home \in Places
      BY DEF BotInv, BotTypeOK
    <3>2. profiles' \in Nat
      BY <3>1 DEF WriteCustomer, EditAddress
    <3>3. strangers' \in BOOLEAN /\ home' \in Places
      BY <3>1, Zenon DEF WriteCustomer, EditAddress
    <3> QED
      BY <3>2, <3>3
  <2>2. UNCHANGED <<shipQuote, slot, receipt, sold, call, todo, held>>
    BY DEF WriteCustomer, EditAddress
  <2> QED
    BY <2>1, <2>2 DEF BotInv, BotTypeOK
<1>2. QuotesStay /\ OneCustomerPerPhone' /\ UNCHANGED <<slot, receipt, sold, call, todo, held>>
  BY DEF WriteCustomer, EditAddress, QuotesStay, BotInv, OneCustomerPerPhone
<1> QED
  BY <1>1, <1>2, WorldKept DEF WriteCustomer, EditAddress, BotInv, BotTypeOK

-----------------------------------------------------------------------------
(* Before the first call.                                                  *)
LEMMA BotInvAtFirst == BotInit => BotInv
<1> SUFFICES ASSUME BotInit PROVE BotInv
  OBVIOUS
<1>1. /\ \A k \in BotKeys : slot[k] = NoEntry /\ receipt[k] = NoEntry
      /\ \A c \in Calls : /\ sold[c] = NothingSold /\ call[c] = NotCalled
                          /\ todo[c] = <<>> /\ held[c] = {}
  BY DEF BotInit
<1>2. BotTypeOK
  <2>1. NoEntry \in Entry /\ NotCalled \in Call
    BY DEF NoEntry, Entry, NotCalled, Call
  <2>2. NothingSold \in [quote : ShipQuotes \cup {NoQuote}, place : Places \cup {Nobody}, fresh : BOOLEAN]
    BY DEF NothingSold
  <2>3. todo = [c \in Calls |-> todo[c]] /\ held = [c \in Calls |-> held[c]]
    BY DEF BotInit
  <2>4. /\ slot \in [BotKeys -> Entry] /\ receipt \in [BotKeys -> Entry]
        /\ call \in [Calls -> Call]
    BY <2>1 DEF BotInit
  <2>5. profiles \in Nat
    BY DEF BotInit
  <2>6. strangers \in BOOLEAN
    BY Zenon DEF BotInit
  <2>7. /\ home \in Places
        /\ shipQuote \in [ShipQuotes -> [status : {"NONE", "LIVE", "EXPIRED"},
                                        place : Places \cup {Nobody}]]
    BY DEF BotInit
  <2>8. sold \in [Calls -> [quote : ShipQuotes \cup {NoQuote}, place : Places \cup {Nobody},
                           fresh : BOOLEAN]]
    BY <2>2 DEF BotInit
  <2> QED
    BY <2>3, <2>4, <2>5, <2>6, <2>7, <2>8 DEF BotTypeOK
<1>3. \A c \in Calls : Sane(c)
  <2> TAKE c \in Calls
  <2>1. call[c].via = "none" /\ At(c) = "over" /\ ~Has(c) /\ todo[c] \in Way("none", Quoted(c))
    BY <1>1 DEF NotCalled, At, Stage, Has, Way, Quoted
  <2>2. held[c] = Holds(c)
    BY <1>1, <2>1 DEF Holds, HoldsKey, HoldsPhone, HoldsCustomer, Matched, HoldsQuote, Quoted
  <2>3. \A d \in Calls : call[c].answer # d
    BY <1>1, CartsAssumption DEF NotCalled
  <2> QED
    BY <1>1, <2>1, <2>2, <2>3 DEF Sane, SaleAt, CheckoutAt, SoldAt, NothingSold
<1>4. \A k \in BotKeys : EntryAt(k)
  BY <1>1, CartsAssumption DEF EntryAt, NoEntry
<1>5. Apart /\ SpentOnce /\ OneCustomerPerPhone
  BY <1>1 DEF BotInit, Apart, SpentOnce, NothingSold, OneCustomerPerPhone
<1> QED
  BY <1>2, <1>3, <1>4, <1>5 DEF BotInv

(* No step of the bot breaks it.                                           *)
LEMMA BotStepKept == BotInv /\ [BotNext]_botVars => BotInv'
<1> SUFFICES ASSUME BotInv, [BotNext]_botVars PROVE BotInv'
  OBVIOUS
<1>1. ASSUME NEW c \in Calls, NEW k \in BotKeys, NEW cart \in Carts,
             RegisterSale(c, k, cart) \/ Checkout(c, k, cart)
      PROVE  BotInv'
  BY <1>1, RegisterSaleKept, CheckoutKept
<1>2. ASSUME NEW c \in Calls,
             \/ LockPhone(c) \/ MatchCustomer(c) \/ LockCustomer(c)
             \/ Verify(c) \/ LockQuote(c) \/ Sell(c) \/ StampSale(c) \/ Fail(c)
      PROVE  BotInv'
  BY <1>2, LockPhoneKept, MatchCustomerKept, LockCustomerKept, VerifyKept, LockQuoteKept, SellKept,
     StampSaleKept, FailKept
<1>3. ASSUME NEW q \in ShipQuotes, ExpireQuote(q) \/ \E place \in Places : IssueQuote(q, place)
      PROVE  BotInv'
  BY <1>3, QuotesKept
<1>4. CASE WriteCustomer \/ \E place \in Places : EditAddress(place)
  BY <1>4, CustomersKept
<1>5. CASE UNCHANGED botVars
  <2>1. BotTypeOK' /\ OneCustomerPerPhone' /\ QuotesStay
    BY <1>5 DEF botVars, BotInv, BotTypeOK, OneCustomerPerPhone, QuotesStay
  <2> QED
    BY <1>5, <2>1, WorldKept DEF botVars
<1> QED
  BY <1>1, <1>2, <1>3, <1>4, <1>5 DEF BotNext

(* And so it always holds.                                                 *)
LEMMA BotInvAlways == BotSpec => []BotInv
BY BotInvAtFirst, BotStepKept, PTL DEF BotSpec

(* A key sells once on its route, however often it is retried and wherever *)
(* calls die; who is answered gets the sale he asked for; and racing       *)
(* checkouts create one customer.                                          *)
THEOREM NothingIsMadeTwice == BotSpec => []NothingTwice
<1>1. BotInv => NothingTwice
  <2> SUFFICES ASSUME BotInv PROVE OneSalePerBotKey
    BY DEF BotInv, NothingTwice
  <2> SUFFICES ASSUME NEW c \in Calls, NEW d \in Calls
               PROVE  /\ Has(c) /\ Has(d) /\ call[c].via = call[d].via /\ call[c].key = call[d].key => c = d
                      /\ call[c].answer = d => Answered(c, d)
    BY DEF OneSalePerBotKey, Has, Answered
  <2>1. Sane(c) /\ Sane(d) /\ call[c].via \in {"none", "sale", "checkout"}
    BY DEF BotInv, BotTypeOK, Call
  <2> QED
    BY <2>1 DEF Sane, SaleAt, CheckoutAt
<1> QED
  BY <1>1, BotInvAlways, PTL

(* A shipping quote is spent once over both routes, while it is live; and  *)
(* by a checkout on the address that was quoted.                           *)
THEOREM QuotesAreHonoured == BotSpec => []QuoteIsHonoured
<1>1. BotInv => QuoteIsHonoured
  BY DEF BotInv, Sane, SoldAt, SpentOnce, QuoteIsHonoured
<1> QED
  BY <1>1, BotInvAlways, PTL

(* However many sales and checkouts of however many quotes are in progress *)
(* for one customer, they never all wait for each other.                   *)
THEOREM SalesNeverDeadlock == BotSpec => []NoCircularWait
BY NobodyWaitsInACircle, BotInvAlways, PTL

-----------------------------------------------------------------------------
(* The bot is promised less than it sees: the steps of BotPromise.         *)

Orders == [via : {"sale", "checkout"}, key : BotKeys, cart : Carts]
SalesOf == {OrderOf(c) : c \in Buyers}
SpentOf == {sold[c].quote : c \in Buyers} \ {NoQuote}
ToldOf == {[asked |-> OrderOf(c), got |-> OrderOf(call[c].answer)] : c \in Listeners}

ShopStep == [Shop!Next]_<<profiles, strangers, SalesOf, SpentOf, ToldOf>>

(* What buyers asked for and who was answered with it.                     *)
SameOrders == \A c \in Buyers : OrderOf(c)' = OrderOf(c)

LEMMA ListenersHear ==
  ASSUME BotInv, NEW c \in Listeners
  PROVE  /\ call[c].answer \in Buyers
         /\ OrderOf(call[c].answer) = OrderOf(c) /\ OrderOf(c) \in SalesOf
<1>1. call[c].answer \in Calls /\ Sane(c)
  BY DEF Listeners, BotInv, BotTypeOK, Call
<1> PICK d : d = call[c].answer
  OBVIOUS
<1>2. Answered(c, d) /\ d \in Calls
  BY <1>1 DEF Sane
<1>3. d \in Buyers /\ OrderOf(d) = OrderOf(c)
  BY <1>2 DEF Answered, Has, Buyers, OrderOf
<1>4. OrderOf(d) \in SalesOf
  BY <1>3 DEF SalesOf
<1> QED
  BY <1>3, <1>4

(* What is told are the orders of those who were answered.                 *)
AskedOf == {[asked |-> OrderOf(c), got |-> OrderOf(c)] : c \in Listeners}
ToldAsAsked == ToldOf = AskedOf

LEMMA ToldIsAsked == BotInv => ToldAsAsked
BY ListenersHear DEF ToldOf, AskedOf, ToldAsAsked

(* An order is one of those that can be asked for.                         *)
LEMMA OrdersFit ==
  ASSUME BotInv, NEW c \in Calls, call[c].via # "none"
  PROVE  OrderOf(c) \in Orders
BY DEF BotInv, BotTypeOK, Call, Sane, OrderOf, Orders

(* Steps that neither sell nor answer.                                     *)
LEMMA NothingHeard ==
  ASSUME BotInv, BotInv', UNCHANGED <<profiles, strangers, sold>>,
         \A c \in Calls : call'[c].answer = call[c].answer,
         \A c \in Calls : call[c].via # "none" => OrderOf(c)' = OrderOf(c)
  PROVE  ShopStep
<1>1. \A c \in Buyers \cup Listeners : c \in Calls /\ call[c].via # "none"
  <2>1. \A c \in Calls : Sane(c)
    BY DEF BotInv
  <2>2. \A c \in Listeners : call[c].answer \in Calls
    BY DEF Listeners, BotInv, BotTypeOK, Call
  <2>3. \A c \in Listeners : call[call[c].answer].via # "none" /\ call[c].via = call[call[c].answer].via
    BY <2>1, <2>2 DEF Listeners, Sane, Answered, Has
  <2> QED
    BY <2>1, <2>3 DEF Buyers, Listeners, Sane, Has
<1>2. Buyers' = Buyers /\ Listeners' = Listeners
  BY DEF Buyers, Listeners
<1>3. \A c \in Buyers \cup Listeners : OrderOf(c)' = OrderOf(c)
  BY <1>1
<1>4. SalesOf' = SalesOf
  BY <1>2, <1>3 DEF SalesOf
<1>5. SpentOf' = SpentOf
  BY <1>2 DEF SpentOf
<1>6. ToldOf' = ToldOf
  <2>1. AskedOf' = AskedOf
    BY <1>2, <1>3 DEF AskedOf
  <2>2. ToldAsAsked /\ ToldAsAsked'
    BY ToldIsAsked, PTL
  <2> QED
    BY <2>1, <2>2 DEF ToldAsAsked
<1> QED
  BY <1>4, <1>5, <1>6 DEF ShopStep

(* An answer to one who was not answered yet.                              *)
LEMMA AnswerHeard ==
  ASSUME BotInv, BotInv', UNCHANGED <<profiles, strangers, sold>>, NEW c \in Calls,
         c \in Listeners', \A d \in Calls \ {c} : call'[d] = call[d],
         OrderOf(c)' \in SalesOf, c \in Buyers \cup Listeners => OrderOf(c)' = OrderOf(c)
  PROVE  ShopStep
<1> PICK o : o = OrderOf(c)'
  OBVIOUS
<1>1. Buyers' = Buyers /\ Listeners' = Listeners \cup {c}
  BY DEF Buyers, Listeners
<1>2. \A d \in Buyers \cup Listeners : OrderOf(d)' = OrderOf(d)
  BY DEF Buyers, Listeners, OrderOf
<1>3. SalesOf' = SalesOf
  BY <1>1, <1>2 DEF SalesOf
<1>4. SpentOf' = SpentOf
  BY <1>1 DEF SpentOf
<1>5. AskedOf' = AskedOf \cup {[asked |-> o, got |-> o]}
  BY <1>1, <1>2 DEF AskedOf
<1>6. ToldAsAsked /\ ToldAsAsked'
  BY ToldIsAsked, PTL
<1>7. o \in SalesOf /\ ToldOf' = ToldOf \cup {[asked |-> o, got |-> o]}
  BY <1>5, <1>6 DEF ToldAsAsked
<1>8. o \in Orders
  BY <1>7, OrdersFit DEF SalesOf, Buyers, BotInv, Sane, Has
<1>9. Shop!Answer(o)
  BY <1>3, <1>4, <1>7 DEF Shop!Answer, Shop!Says, SalesOf, SpentOf, ToldOf
<1> QED
  BY <1>8, <1>9 DEF ShopStep, Shop!Next, Orders

LEMMA StrangerComes == ASSUME WriteCustomer PROVE ShopStep
<1>1. UNCHANGED <<sold, call>>
  BY DEF WriteCustomer
<1>2. Buyers' = Buyers /\ Listeners' = Listeners /\ \A c : OrderOf(c)' = OrderOf(c)
  BY <1>1 DEF Buyers, Listeners, OrderOf
<1>3. UNCHANGED <<SalesOf, SpentOf, ToldOf>>
  BY <1>1 DEF SalesOf, SpentOf, ToldOf, Buyers, Listeners, OrderOf
<1>4. Shop!Stranger
  BY <1>3 DEF WriteCustomer, Shop!Stranger, SalesOf, SpentOf, ToldOf
<1> QED
  BY <1>4 DEF ShopStep, Shop!Next

(* A call that asks is answered at once, from what an earlier one left, or *)
(* goes its way.                                                           *)
LEMMA AskingIsPromised ==
  ASSUME BotInv, BotInv', NEW c \in Calls, NEW via \in {"sale", "checkout"}, NEW k \in BotKeys,
         NEW cart \in Carts, NEW a \in Calls \cup {Nobody},
         call[c] = NotCalled, Asks(c, via, k, cart, a), UNCHANGED <<profiles, strangers, sold>>
  PROVE  ShopStep
<1>1. /\ call'[c] = [via |-> via, key |-> k, cart |-> cart, creates |-> FALSE, answer |-> a]
      /\ \A d \in Calls \ {c} : call'[d] = call[d]
  BY AsksFor
<1>2. c \notin Buyers \cup Listeners /\ call[c].via = "none"
  <2>1. call[c].via = "none" /\ call[c].answer = Nobody
    BY DEF NotCalled
  <2>2. ~Has(c)
    BY Unborn
  <2> QED
    BY <2>1, <2>2 DEF Buyers, Listeners, Has
<1>3. CASE a = Nobody
  BY <1>1, <1>2, <1>3, NothingHeard DEF OrderOf, NotCalled
<1>4. CASE a \in Calls
  <2>1. c \in Listeners'
    BY <1>1, <1>4, CartsAssumption DEF Listeners
  <2>2. Sane(c)' /\ call'[c].answer = a
    BY <1>1 DEF BotInv
  <2>3. Answered(c, a)'
    BY <1>4, <2>2 DEF Sane
  <2>4. a \in Buyers /\ a # c
    BY <1>2, <1>4, <2>3 DEF Answered, Has, Buyers
  <2>5. OrderOf(c)' = OrderOf(a)
    <3>1. call'[a] = call[a]
      BY <1>1, <1>4, <2>4
    <3>2. /\ call'[a].via = call'[c].via /\ call'[a].key = call'[c].key
          /\ call'[a].cart = call'[c].cart
      BY <2>3 DEF Answered
    <3> QED
      BY <3>1, <3>2 DEF OrderOf
  <2>6. OrderOf(c)' \in SalesOf
    BY <2>4, <2>5 DEF SalesOf
  <2> QED
    BY <1>1, <1>2, <2>1, <2>6, AnswerHeard
<1> QED
  BY <1>3, <1>4

LEMMA RegisteringIsPromised ==
  ASSUME BotInv, BotInv', NEW c \in Calls, NEW k \in BotKeys, NEW cart \in Carts,
         RegisterSale(c, k, cart)
  PROVE  ShopStep
<1> DEFINE a == IF slot[k] = NoEntry THEN Nobody
                ELSE IF slot[k].done /\ call[slot[k].owner].cart = cart THEN slot[k].owner ELSE Nobody
<1>1. a \in Calls \cup {Nobody}
  BY DEF BotInv, BotTypeOK, Entry
<1>2. Asks(c, "sale", k, cart, a)
  BY DEF RegisterSale
<1> HIDE DEF a
<1> QED
  BY <1>1, <1>2, AskingIsPromised DEF RegisterSale

LEMMA CheckingOutIsPromised ==
  ASSUME BotInv, BotInv', NEW c \in Calls, NEW k \in BotKeys, NEW cart \in Carts,
         Checkout(c, k, cart)
  PROVE  ShopStep
<1> DEFINE a == IF Free(<<"key", k>>, c) /\ receipt[k] = NoEntry THEN Nobody
                ELSE IF receipt[k].done /\ call[receipt[k].owner].cart = cart
                     THEN receipt[k].owner ELSE Nobody
<1>1. a \in Calls \cup {Nobody}
  BY DEF BotInv, BotTypeOK, Entry
<1>2. Asks(c, "checkout", k, cart, a)
  BY DEF Checkout
<1> HIDE DEF a
<1> QED
  BY <1>1, <1>2, AskingIsPromised DEF Checkout

(* The steps on the way: locks, the customer, the quote, and what fails.   *)
LEMMA WalkingIsPromised ==
  ASSUME BotInv, BotInv', NEW c \in Calls,
         LockPhone(c) \/ MatchCustomer(c) \/ LockCustomer(c) \/ Verify(c) \/ LockQuote(c) \/ Fail(c)
  PROVE  ShopStep
<1>1. /\ UNCHANGED <<profiles, strangers, sold>>
      /\ call' = call \/ call' = [call EXCEPT ![c].creates = TRUE]
  BY DEF LockPhone, MatchCustomer, LockCustomer, Verify, LockQuote, Fail
<1>2. call \in [Calls -> Call]
  BY DEF BotInv, BotTypeOK
<1>3. \A d \in Calls : call'[d].answer = call[d].answer /\ OrderOf(d)' = OrderOf(d)
  BY <1>1, <1>2 DEF Call, OrderOf
<1> QED
  BY <1>1, <1>3, NothingHeard

LEMMA StampingIsPromised ==
  ASSUME BotInv, BotInv', NEW c \in Calls, StampSale(c)
  PROVE  ShopStep
<1>1. /\ UNCHANGED <<profiles, strangers, sold>>
      /\ call' = [call EXCEPT ![c].answer = c]
  BY DEF StampSale
<1>2. call \in [Calls -> Call] /\ Sane(c)
  BY DEF BotInv, BotTypeOK
<1>3. /\ call'[c].answer = c /\ OrderOf(c)' = OrderOf(c)
      /\ \A d \in Calls \ {c} : call'[d] = call[d]
  BY <1>1, <1>2 DEF Call, OrderOf
<1>4. c \in Listeners'
  BY <1>3, CartsAssumption DEF Listeners
<1>5. c \in Buyers
  BY <1>2, StandsAt DEF StampSale, Sane, SaleAt, Has, Buyers
<1>6. OrderOf(c)' \in SalesOf
  BY <1>3, <1>5 DEF SalesOf
<1> QED
  BY <1>1, <1>3, <1>4, <1>6, AnswerHeard

(* What sells under its key was not sold under it before.                  *)
LEMMA SellsOncePerKey ==
  ASSUME BotInv, NEW c \in Calls, At(c) = "sell", call[c].via \in {"sale", "checkout"},
         NEW d \in Buyers, call[d].via = call[c].via
  PROVE  call[d].key # call[c].key
<1>1. Sane(c) /\ Sane(d) /\ Has(d) /\ d \in Calls
  BY DEF BotInv, Buyers, Has
<1>2. ~Has(c)
  BY <1>1 DEF Sane, SaleAt, CheckoutAt
<1>3. c # d
  BY <1>1, <1>2
<1>4. CASE call[c].via = "sale"
  BY <1>1, <1>3, <1>4 DEF Sane, SaleAt
<1>5. CASE call[c].via = "checkout"
  BY <1>1, <1>5, CartsAssumption DEF Sane, CheckoutAt, NoEntry
<1> QED
  BY <1>4, <1>5

LEMMA SellingIsPromised ==
  ASSUME BotInv, BotInv', NEW c \in Calls, Sell(c)
  PROVE  ShopStep
<1> PICK o : o = OrderOf(c)
  OBVIOUS
<1> DEFINE q == call[c].cart.quote
           sale == [quote |-> q, place |-> Target(c),
                    fresh |-> q = NoQuote \/ shipQuote[q].status = "LIVE"]
<1>1. At(c) = "sell" /\ call[c].via \in {"sale", "checkout"}
  BY StandsAt DEF Sell
<1>2. Sane(c) /\ o \in Orders
  BY <1>1, OrdersFit DEF BotInv
<1>3. ~Has(c)
  BY <1>1, <1>2 DEF Sane, SaleAt, CheckoutAt
<1>4. sale.fresh /\ sale.quote = q /\ q \notin SpentOf
  <2>1. sale.fresh /\ q \notin SpentOf
    BY DEF Sell, Usable, Spent, SpentOf, Buyers
  <2> QED
    BY <2>1
<1>5. sale # NothingSold
  BY <1>4 DEF NothingSold
<1>6. /\ sold' = [sold EXCEPT ![c] = sale]
      /\ profiles' = IF call[c].creates THEN profiles + 1 ELSE profiles
      /\ call' = IF call[c].via = "checkout" THEN [call EXCEPT ![c].answer = c] ELSE call
      /\ UNCHANGED strangers
  BY DEF Sell
<1>7. sold = [d \in Calls |-> sold[d]] /\ call \in [Calls -> Call]
  BY DEF BotInv, BotTypeOK
<1> HIDE DEF sale
<1>8. sold'[c] = sale /\ \A d \in Calls \ {c} : sold'[d] = sold[d]
  BY <1>6, <1>7
<1>9. /\ \A d \in Calls : OrderOf(d)' = OrderOf(d)
      /\ \A d \in Calls \ {c} : call'[d].answer = call[d].answer
      /\ call'[c].answer = IF call[c].via = "checkout" THEN c ELSE call[c].answer
  <2>1. CASE call[c].via = "checkout"
    BY <1>6, <1>7, <2>1 DEF Call, OrderOf
  <2>2. CASE call[c].via # "checkout"
    BY <1>6, <1>7, <2>2 DEF OrderOf
  <2> QED
    BY <2>1, <2>2
<1>10. Buyers' = Buyers \cup {c} /\ c \notin Buyers
  BY <1>3, <1>5, <1>8 DEF Buyers, Has
<1>11. SalesOf' = SalesOf \cup {o}
  BY <1>9, <1>10 DEF SalesOf, Buyers
<1>12. SpentOf' = SpentOf \cup ({q} \ {NoQuote})
  <2>1. \A d \in Buyers : sold'[d] = sold[d]
    BY <1>8, <1>10 DEF Buyers
  <2> QED
    BY <1>4, <1>8, <1>10, <2>1 DEF SpentOf
<1>13. o.cart.quote = q /\ o.via = call[c].via /\ o.key = call[c].key
  BY DEF OrderOf
<1>14. \A s \in SalesOf : s.via = o.via => s.key # o.key
  BY <1>1, <1>13, SellsOncePerKey DEF SalesOf, OrderOf
<1>15. IF o.via = "checkout" THEN ToldOf' = ToldOf \cup {[asked |-> o, got |-> o]}
                             ELSE ToldOf' = ToldOf
  <2>1. ToldAsAsked /\ ToldAsAsked'
    BY ToldIsAsked, PTL
  <2>2. CASE o.via = "checkout"
    <3>1. Listeners' = Listeners \cup {c}
      BY <1>9, <1>13, <2>2, CartsAssumption DEF Listeners
    <3>2. AskedOf' = AskedOf \cup {[asked |-> o, got |-> o]}
      BY <1>9, <3>1 DEF AskedOf, Listeners
    <3> QED
      BY <2>1, <2>2, <3>2 DEF ToldAsAsked
  <2>3. CASE o.via # "checkout"
    <3>1. Listeners' = Listeners
      BY <1>9, <1>13, <2>3 DEF Listeners
    <3>2. AskedOf' = AskedOf
      BY <1>9, <3>1 DEF AskedOf, Listeners
    <3> QED
      BY <2>1, <2>3, <3>2 DEF ToldAsAsked
  <2> QED
    BY <2>2, <2>3
<1>16. \/ profiles' = profiles
       \/ o.via = "checkout" /\ (profiles = 0 \/ strangers) /\ profiles' = profiles + 1
  <2>1. CASE ~call[c].creates
    <3>1. profiles' = IF call[c].creates THEN profiles + 1 ELSE profiles
      BY <1>6
    <3>2. profiles' = profiles
      BY ONLY <2>1, <3>1, Zenon
    <3> QED
      BY <3>2
  <2>2. CASE call[c].creates
    <3>1. call[c].via = "checkout" /\ At(c) # "over"
      BY <1>1, <1>2, <2>2 DEF Sane, SaleAt
    <3>2. ~strangers => profiles = 0
      BY <1>2, <2>2, <3>1 DEF Sane, CheckoutAt
    <3>3. profiles' = profiles + 1
      BY <1>6, <2>2
    <3>4. profiles = 0 \/ strangers
      BY <3>2, Zenon
    <3> QED
      BY <1>13, <3>1, <3>3, <3>4, Zenon
  <2> QED
    BY <2>1, <2>2
<1> HIDE DEF q
<1>17. Shop!Knows(o)
  BY <1>16 DEF Shop!Knows
<1>18. ToldOf' = ToldOf \/ Shop!Says(o)
  BY <1>15 DEF Shop!Says, ToldOf
<1>19. Shop!Sell(o)
  BY <1>4, <1>6, <1>11, <1>12, <1>13, <1>14, <1>17, <1>18
     DEF Shop!Sell, SalesOf, SpentOf, ToldOf
<1> QED
  BY <1>2, <1>19 DEF ShopStep, Shop!Next, Orders

LEMMA BotStepIsPromised == BotInv /\ BotInv' /\ [BotNext]_botVars => ShopStep
<1> SUFFICES ASSUME BotInv, BotInv', [BotNext]_botVars PROVE ShopStep
  OBVIOUS
<1>1. ASSUME NEW c \in Calls, NEW k \in BotKeys, NEW cart \in Carts,
             RegisterSale(c, k, cart) \/ Checkout(c, k, cart)
      PROVE  ShopStep
  BY <1>1, RegisteringIsPromised, CheckingOutIsPromised
<1>2. ASSUME NEW c \in Calls,
             \/ LockPhone(c) \/ MatchCustomer(c) \/ LockCustomer(c)
             \/ Verify(c) \/ LockQuote(c) \/ Sell(c) \/ StampSale(c) \/ Fail(c)
      PROVE  ShopStep
  BY <1>2, WalkingIsPromised, SellingIsPromised, StampingIsPromised
<1>3. ASSUME UNCHANGED <<profiles, strangers, sold, call>> PROVE ShopStep
  BY <1>3, NothingHeard DEF OrderOf
<1>4. ASSUME NEW q \in ShipQuotes, ExpireQuote(q) \/ \E place \in Places : IssueQuote(q, place)
      PROVE  ShopStep
  BY <1>3, <1>4 DEF ExpireQuote, IssueQuote
<1>5. CASE \E place \in Places : EditAddress(place)
  BY <1>3, <1>5 DEF EditAddress
<1>6. CASE WriteCustomer
  BY <1>6, StrangerComes
<1>7. CASE UNCHANGED botVars
  BY <1>3, <1>7 DEF botVars
<1> QED
  BY <1>1, <1>2, <1>4, <1>5, <1>6, <1>7 DEF BotNext

(* Whatever calls, retries, failures and deaths the two routes see, the    *)
(* chatbot sees what BotPromise allows: a sale at a time, one for a key    *)
(* and one for a quote, and answers about the sale that was asked for.     *)
THEOREM BotKeepsPromise == BotSpec => SoldAsPromised
<1>1. BotInit => Shop!Init
  <2> SUFFICES ASSUME BotInit PROVE Shop!Init
    OBVIOUS
  <2>1. Buyers = {} /\ Listeners = {}
    BY DEF BotInit, Buyers, Listeners, NotCalled
  <2> QED
    BY <2>1 DEF BotInit, Shop!Init
<1>2. BotInv /\ BotInv' /\ [BotNext]_botVars => [Shop!Next]_(Shop!vars)
  BY BotStepIsPromised DEF ShopStep, Shop!vars, SalesOf, SpentOf, ToldOf
<1> QED
  BY <1>1, <1>2, BotInvAlways, PTL DEF BotSpec, SoldAsPromised, Shop!Spec
=============================================================================
