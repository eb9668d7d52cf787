SPECIFICATION OffersSpec
CONSTANTS
  p1 = p1
  p2 = p2
  c1 = c1
  c2 = c2
  c3 = c3
  x1 = x1
  a1 = a1
  q1 = q1
  pl1 = pl1
  pl2 = pl2
  Calls = {c1, c2, c3}
  BotKeys = {p1, p2}
  Carts <- SomeCarts
  ShipQuotes = {q1}
  NoQuote = NoQuote
  Places = {pl1, pl2}
  Nobody = Nobody
  Wares = {1, 2}
  Lists = {"public", "wholesale"}
  DefaultList = "public"
  Customers = {x1}
  ListOf <- CustomersList
  Catalogues <- OneCatalogue
  Promotions <- NoneOrPairs
  MaxQuantity = 2
  HandCuts <- TwoCentsOff
  HandPrices = {5}
  MaxSteps = 5
  Lots = {1, 2}
  Variants = {3}
  StockSales = {x1}
  Adjusters = {a1}
  MaxOnHand = 2
  Thresholds = {0, 1}
  MaxDay = 1
SYMMETRY OffersSymmetry
CHECK_DEADLOCK FALSE
INVARIANTS
  QuoteIsHonoured
  NoCircularWait
  JournalAddsUp
  VersionTellsBalance
  ArmedAboveThreshold
  ChargedAtTodaysPrice
PROPERTIES
  SoldAsPromised
  FreshPreviewIsCharged
  SellerDecides
