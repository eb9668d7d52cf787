SPECIFICATION SellingSpec
CONSTANTS
  p1 = p1
  p2 = p2
  k1 = k1
  k2 = k2
  r1 = r1
  r2 = r2
  Procs <- TwoProcs
  Keys <- TwoKeys
  Quantities <- SomeQuantities
  Charges <- SomeCharges
  Collections <- SomeCollections
  Reasons = {r1, r2}
  StaleWriters = {"edit", "meta"}
  sa = sa
  sc = sc
  Routes = {k1, k2}
  RouteSales = {sa, sc}
  SaleSavers = {sc}
  Requests = {r1, r2}
  o1 = o1
  s1 = s1
  c1 = c1
  Orders = {o1}
  Suppliers = {s1}
  Buyers = {p1, p2}
  CommandKeys = {c1}
  Looks <- SomeLooks
  Lines = {"short", "whole"}
  MaxVersion = 3
  MaxCalls = 4
  Collection = Collection
  NoOne = NoOne
SYMMETRY SellingSymmetry
CHECK_DEADLOCK FALSE
INVARIANTS
  BooksAgree
  OneEffectPerKey
  RoutesEndWithTheirStops
  CompletedMeansDelivered
  ToldOfItsEffect
PROPERTIES
  ConfirmedIsBinding
  PromiseKept
  RouteHistoryIsFinal
  OrdersAsPromised
