--------------------------- MODULE DeliveryRoutes ---------------------------
(***************************************************************************)
(* The delivery routes of a tenant, the sales that ride on them and the    *)
(* requests that plan, drive and cancel them.                              *)
(*                                                                         *)
(* A request that edits a draft route, or starts it, holds the row lock of *)
(* the route from its read to its commit: one step.  A check-in and a      *)
(* cancellation hold no lock: they read the row of the route, then its     *)
(* stops, and commit with a compare-and-set on what they read.  The        *)
(* eligibility of a sale is read before, and outside, the write that       *)
(* relies on it.                                                           *)
(*                                                                         *)
(* The order of the stops and the driver are left out: every write of the  *)
(* row is assumed to give it a new updatedAt.                              *)
(***************************************************************************)
EXTENDS Naturals

CONSTANTS
  Routes,       \* ids of routes
  RouteSales,   \* sales that have a shipping address
  Requests,     \* requests that may be in flight at the same time
  SaleSavers    \* the sales somebody may save from an aggregate read earlier

ASSUME RouteConstants == SaleSavers \subseteq RouteSales

VARIABLES
  route,      \* delivery_routes.status
  stop,       \* status of the stop of each sale on each route
  reserved,   \* the sales each route reserves (stops with an activeRouteId)
  parcel,     \* status and deliveryStatus of each sale
  thanked,    \* thank-you rows published for each route and sale
  at,         \* where each request is
  plan,       \* the sales each request has seen eligible
  snapshot,   \* the route each request has read
  copy        \* the aggregate each writer of a sale has read

requestVars == <<at, plan, snapshot>>
routesVars == <<route, stop, reserved, parcel, thanked, requestVars, copy>>

RouteStatus == {"ABSENT", "DRAFT", "ACTIVE", "COMPLETED", "CANCELLED", "DELETED"}
StopStatus == {"NONE", "PENDING", "COMPLETED"}
Stops == [RouteSales -> StopStatus]
NoStops == [s \in RouteSales |-> "NONE"]
Parcel == [status : {"CONFIRMED", "CANCELED"},
           delivery : {"PENDING", "SHIPPED", "DELIVERED"}]

Snapshot == [route : Routes \cup {"none"}, status : RouteStatus,
             stops : Stops, current : BOOLEAN]
NoSnapshot == [route |-> "none", status |-> "ABSENT", stops |-> NoStops,
               current |-> FALSE]
NoCopy == [status |-> "none", delivery |-> "none"]

OnRoute(r) == {s \in RouteSales : stop[r][s] # "NONE"}
Pending(stops) == {s \in RouteSales : stops[s] = "PENDING"}
Live(r) == route[r] \in {"DRAFT", "ACTIVE"}

RoutesInit ==
  /\ route = [r \in Routes |-> "ABSENT"]
  /\ stop = [r \in Routes |-> NoStops]
  /\ reserved = [r \in Routes |-> {}]
  /\ parcel = [s \in RouteSales |-> [status |-> "CONFIRMED", delivery |-> "PENDING"]]
  /\ thanked = [r \in Routes |-> [s \in RouteSales |-> 0]]
  /\ at = [q \in Requests |-> "idle"]
  /\ plan = [q \in Requests |-> {}]
  /\ snapshot = [q \in Requests |-> NoSnapshot]
  /\ copy = [s \in RouteSales |-> NoCopy]

(* Every write of the row of a route makes the snapshots of it stale.      *)
Touched(snap, r) ==
  [q \in Requests |->
     IF snap[q].route = r THEN [snap[q] EXCEPT !.current = FALSE] ELSE snap[q]]

(* A request answers, loses its race or dies, and forgets what it read.    *)
Finish(q) ==
  /\ at' = [at EXCEPT ![q] = "idle"]
  /\ plan' = [plan EXCEPT ![q] = {}]

-----------------------------------------------------------------------------
(* Planning: requests that hold the row lock of the routes they write *)

(* checkSaleEligibility: of the sale's status, nothing is asked.           *)
Probe(q, s) ==
  /\ at[q] \in {"idle", "planning"}
  /\ parcel[s].delivery \in {"PENDING", "SHIPPED"}
  /\ at' = [at EXCEPT ![q] = "planning"]
  /\ plan' = [plan EXCEPT ![q] = @ \cup {s}]
  /\ UNCHANGED <<route, stop, reserved, parcel, thanked, snapshot, copy>>

(* save: the pre-check of the conflicts and the unique index on the sales  *)
(* with a marker.                                                          *)
UnreservedByActive(others, sales) ==
  \A r \in others : route[r] = "ACTIVE" => reserved[r] \cap sales = {}

UnreservedBy(others, sales) == \A r \in others : reserved[r] \cap sales = {}

(* create: a draft reserves its sales at once.                             *)
CreateRoute(q, r) ==
  /\ at[q] = "planning"
  /\ route[r] = "ABSENT"
  /\ UnreservedBy(Routes, plan[q])
  /\ route' = [route EXCEPT ![r] = "DRAFT"]
  /\ stop' = [stop EXCEPT ![r] = [s \in RouteSales |->
                IF s \in plan[q] THEN "PENDING" ELSE "NONE"]]
  /\ reserved' = [reserved EXCEPT ![r] = plan[q]]
  /\ snapshot' = Touched(snapshot, r)
  /\ Finish(q)
  /\ UNCHANGED <<parcel, thanked, copy>>

(* addStop: a sale already on this route trips the unique index as well.   *)
AddStop(q, r, s) ==
  /\ at[q] = "planning"
  /\ plan[q] = {s}
  /\ route[r] = "DRAFT"
  /\ UnreservedBy(Routes, {s})
  /\ stop' = [stop EXCEPT ![r][s] = "PENDING"]
  /\ reserved' = [reserved EXCEPT ![r] = @ \cup {s}]
  /\ snapshot' = Touched(snapshot, r)
  /\ Finish(q)
  /\ UNCHANGED <<route, parcel, thanked, copy>>

(* reorderStops and update rewrite a draft as it is.                       *)
RewriteRoute(r) ==
  /\ route[r] = "DRAFT"
  /\ snapshot' = Touched(snapshot, r)
  /\ UNCHANGED <<route, stop, reserved, parcel, thanked, at, plan, copy>>

(* transferStop: both rows are locked, the origin is saved first.          *)
TransferStop(r, d, s) ==
  /\ r # d
  /\ route[r] = "DRAFT" /\ route[d] = "DRAFT"
  /\ stop[r][s] # "NONE" /\ stop[d][s] = "NONE"
  /\ UnreservedBy(Routes \ {r, d}, {s})
  /\ stop' = [stop EXCEPT ![r][s] = "NONE", ![d][s] = "PENDING"]
  /\ reserved' = [reserved EXCEPT ![r] = @ \ {s}, ![d] = @ \cup {s}]
  /\ snapshot' = Touched(Touched(snapshot, r), d)
  /\ UNCHANGED <<route, parcel, thanked, at, plan, copy>>

(* start: the sales are not asked again.                                   *)
Startable(r) == route[r] = "DRAFT" /\ OnRoute(r) # {}

StartRoute(r) ==
  /\ Startable(r)
  /\ UnreservedBy(Routes \ {r}, OnRoute(r))
  /\ route' = [route EXCEPT ![r] = "ACTIVE"]
  /\ reserved' = [reserved EXCEPT ![r] = OnRoute(r)]
  /\ snapshot' = Touched(snapshot, r)
  /\ UNCHANGED <<stop, parcel, thanked, at, plan, copy>>

(* delete: a draft whose stops were all transferred away.                  *)
DeleteRoute(r) ==
  /\ route[r] = "DRAFT"
  /\ OnRoute(r) = {}
  /\ route' = [route EXCEPT ![r] = "DELETED"]
  /\ snapshot' = Touched(snapshot, r)
  /\ UNCHANGED <<stop, reserved, parcel, thanked, at, plan, copy>>

-----------------------------------------------------------------------------
(* Driving: requests that hold no lock *)

(* loadRoute, first query: the row.                                        *)
ReadRoute(q, r) ==
  /\ at[q] = "idle"
  /\ route[r] \notin {"ABSENT", "DELETED"}
  /\ at' = [at EXCEPT ![q] = "reading"]
  /\ snapshot' = [snapshot EXCEPT ![q] =
       [route |-> r, status |-> route[r], stops |-> NoStops, current |-> TRUE]]
  /\ UNCHANGED <<route, stop, reserved, parcel, thanked, plan, copy>>

(* loadRoute, second query: the stops, as they are by then.                *)
ReadStops(q) ==
  /\ at[q] = "reading"
  /\ at' = [at EXCEPT ![q] = "ready"]
  /\ snapshot' = [snapshot EXCEPT ![q].stops = stop[snapshot[q].route]]
  /\ UNCHANGED <<route, stop, reserved, parcel, thanked, plan, copy>>

(* commitTransition: the row and the stops the transition changes are      *)
(* still what was read.                                                    *)
RowUnchecked(q, sales) ==
  \A s \in sales : stop[snapshot[q].route][s] = snapshot[q].stops[s]

Unchanged(q, sales) ==
  /\ snapshot[q].current
  /\ route[snapshot[q].route] = snapshot[q].status
  /\ \A s \in sales : stop[snapshot[q].route][s] = snapshot[q].stops[s]

(* PrismaSaleRepository.markSaleDelivered.                                 *)
MarkableOnceCanceled(s) == TRUE

Markable(s) == parcel[s].status = "CONFIRMED"

MarkSaleDelivered(s) ==
  /\ Markable(s)
  /\ parcel' = [parcel EXCEPT ![s].delivery = "DELIVERED"]

(* reconcileRouteCompletion, on the persisted stops.                       *)
RouteOpen(stops) == Pending(stops) # {}

(* checkInStop of a pending stop: the stop, the route when it was the last *)
(* one, the sale and the thank-you row commit together or not at all.      *)
CheckIn(q, s) ==
  LET r == snapshot[q].route
      driven == [stop[r] EXCEPT ![s] = "COMPLETED"]
  IN
  /\ at[q] = "ready"
  /\ snapshot[q].status = "ACTIVE"
  /\ snapshot[q].stops[s] = "PENDING"
  /\ Unchanged(q, {s})
  /\ MarkSaleDelivered(s)
  /\ stop' = [stop EXCEPT ![r] = driven]
  /\ route' = [route EXCEPT ![r] = IF RouteOpen(driven) THEN @ ELSE "COMPLETED"]
  /\ reserved' = [reserved EXCEPT ![r] = IF RouteOpen(driven) THEN @ ELSE {}]
  /\ thanked' = [thanked EXCEPT ![r][s] = @ + 1]
  /\ snapshot' = Touched([snapshot EXCEPT ![q] = NoSnapshot], r)
  /\ Finish(q)
  /\ UNCHANGED copy

(* checkInStop of a completed stop: only the mirror is written again, the  *)
(* row of the route gets the updatedAt it had.                             *)
ReplayCheckIn(q, s) ==
  /\ at[q] = "ready"
  /\ snapshot[q].status \in {"ACTIVE", "COMPLETED"}
  /\ snapshot[q].stops[s] = "COMPLETED"
  /\ Unchanged(q, {})
  /\ MarkSaleDelivered(s)
  /\ snapshot' = [snapshot EXCEPT ![q] = NoSnapshot]
  /\ Finish(q)
  /\ UNCHANGED <<route, stop, reserved, thanked, copy>>

(* cancel: releases the sales, leaves the stops as they are.               *)
CancelRoute(q) ==
  LET r == snapshot[q].route IN
  /\ at[q] = "ready"
  /\ snapshot[q].status \in {"DRAFT", "ACTIVE"}
  /\ Unchanged(q, reserved[r])
  /\ route' = [route EXCEPT ![r] = "CANCELLED"]
  /\ reserved' = [reserved EXCEPT ![r] = {}]
  /\ snapshot' = Touched([snapshot EXCEPT ![q] = NoSnapshot], r)
  /\ Finish(q)
  /\ UNCHANGED <<stop, parcel, thanked, copy>>

(* A stale snapshot, a refusal or a crash; a stale request starts over, as *)
(* ReadRoute, a bounded number of times.                                   *)
LoseRace(q) ==
  /\ at[q] # "idle"
  /\ snapshot' = [snapshot EXCEPT ![q] = NoSnapshot]
  /\ Finish(q)
  /\ UNCHANGED <<route, stop, reserved, parcel, thanked, copy>>

-----------------------------------------------------------------------------
(* The sale side *)

(* cancelSale, under the lock of the sale.                                 *)
CancelSale(s) ==
  /\ parcel[s] = [status |-> "CONFIRMED", delivery |-> "PENDING"]
  /\ parcel' = [parcel EXCEPT ![s].status = "CANCELED"]
  /\ UNCHANGED <<route, stop, reserved, thanked, requestVars, copy>>

(* setDeliveryMetadata, one conditional statement.                         *)
Shippable(s) == parcel[s].status = "CONFIRMED" /\ parcel[s].delivery # "DELIVERED"

ShipSale(s) ==
  /\ Shippable(s)
  /\ parcel' = [parcel EXCEPT ![s].delivery = "SHIPPED"]
  /\ UNCHANGED <<route, stop, reserved, thanked, requestVars, copy>>

(* assignSeller, clearSeller, setDueDate: findById ...                     *)
LoadSale(s) ==
  /\ s \in SaleSavers
  /\ copy[s] = NoCopy
  /\ parcel[s].status = "CONFIRMED"
  /\ copy' = [copy EXCEPT ![s] = parcel[s]]
  /\ UNCHANGED <<route, stop, reserved, parcel, thanked, requestVars>>

(* ... and save, which writes status and deliveryStatus as they were read. *)
SaveSale(s) ==
  /\ copy[s] # NoCopy
  /\ parcel' = [parcel EXCEPT ![s] = copy[s]]
  /\ copy' = [copy EXCEPT ![s] = NoCopy]
  /\ UNCHANGED <<route, stop, reserved, thanked, requestVars>>

-----------------------------------------------------------------------------
RoutesNext ==
  \/ \E q \in Requests :
       \/ ReadStops(q)
       \/ CancelRoute(q)
       \/ LoseRace(q)
       \/ \E s \in RouteSales : Probe(q, s) \/ CheckIn(q, s) \/ ReplayCheckIn(q, s)
       \/ \E r \in Routes :
            \/ CreateRoute(q, r)
            \/ ReadRoute(q, r)
            \/ \E s \in RouteSales : AddStop(q, r, s)
  \/ \E r \in Routes :
       \/ RewriteRoute(r)
       \/ StartRoute(r)
       \/ DeleteRoute(r)
       \/ \E d \in Routes, s \in RouteSales : TransferStop(r, d, s)
  \/ \E s \in RouteSales :
       \/ CancelSale(s)
       \/ ShipSale(s)
       \/ LoadSale(s)
       \/ SaveSale(s)

RoutesSpec == RoutesInit /\ [][RoutesNext]_routesVars

-----------------------------------------------------------------------------
(* Every row and every request holds the values it can hold.               *)
RoutesTypeOK ==
  /\ route \in [Routes -> RouteStatus]
  /\ stop \in [Routes -> Stops]
  /\ reserved \in [Routes -> SUBSET RouteSales]
  /\ parcel \in [RouteSales -> Parcel]
  /\ thanked \in [Routes -> [RouteSales -> Nat]]
  /\ at \in [Requests -> {"idle", "planning", "reading", "ready"}]
  /\ plan \in [Requests -> SUBSET RouteSales]
  /\ snapshot \in [Requests -> Snapshot]
  /\ \A q \in Requests :
       at[q] \in {"reading", "ready"} => snapshot[q].route \in Routes
  /\ copy \in [RouteSales -> Parcel \cup {NoCopy}]

(* "The stop is the single source of truth for this sale was delivered":   *)
(* the sale of a completed stop is a delivered sale, canceled by nobody,   *)
(* unless somebody saves it from a copy; its customer was thanked once, and*)
(* nobody else was (checkInStop, markSaleDelivered).                       *)
CompletedMeansDelivered ==
  \A r \in Routes, s \in RouteSales :
    /\ stop[r][s] = "COMPLETED" /\ s \notin SaleSavers =>
         parcel[s] = [status |-> "CONFIRMED", delivery |-> "DELIVERED"]
    /\ thanked[r][s] = IF stop[r][s] = "COMPLETED" THEN 1 ELSE 0

(* A sale is reserved by one route at a time, by exactly the draft or      *)
(* active route it rides on: no race of a start, a transfer, a check-in    *)
(* and a cancellation leaks a reservation or drops one early.              *)
ReservationsExact ==
  \A r \in Routes :
    /\ reserved[r] = IF Live(r) THEN OnRoute(r) ELSE {}
    /\ \A d \in Routes \ {r} : reserved[r] \cap reserved[d] = {}

(* An active route has somebody to visit and a completed one has nobody:   *)
(* two last check-ins at a time do not leave a route open for ever.        *)
CompletesWithItsStops ==
  \A r \in Routes :
    /\ route[r] = "ACTIVE" => Pending(stop[r]) # {}
    /\ route[r] = "COMPLETED" => Pending(stop[r]) = {} /\ OnRoute(r) # {}

(* Reservations and routes end with the stops they are for, neither before *)
(* nor after (reconcileRouteCompletion, setActiveRouteId).                 *)
RoutesEndWithTheirStops == ReservationsExact /\ CompletesWithItsStops

(* A completed stop stays completed, a terminal route keeps its status and *)
(* its stops, and a route that left DRAFT keeps its list of sales, whatever*)
(* stale snapshot a request commits.                                       *)
RouteHistoryIsFinal ==
  [][\A r \in Routes :
       /\ route[r] \in {"COMPLETED", "CANCELLED", "DELETED"} =>
            route'[r] = route[r] /\ stop'[r] = stop[r]
       /\ route[r] = "ACTIVE" =>
            \A s \in RouteSales :
              /\ stop[r][s] # "PENDING" => stop'[r][s] = stop[r][s]
              /\ stop[r][s] = "PENDING" => stop'[r][s] # "NONE"]_routesVars

(* No stop of a route that was never started is completed.                 *)
DraftsPending ==
  \A r \in Routes :
    /\ route[r] \in {"ABSENT", "DELETED"} => stop[r] = NoStops
    /\ route[r] = "DRAFT" => \A s \in RouteSales : stop[r][s] # "COMPLETED"

(* The inductive invariant behind the properties above.                    *)
RoutesInv ==
  /\ RoutesTypeOK
  /\ DraftsPending
  /\ ReservationsExact
  /\ CompletesWithItsStops
=============================================================================
