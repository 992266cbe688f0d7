CONSTANTS
  r1 = r1
  r2 = r2
  phone = phone
  case = case
  cash = cash
  card = card
  bundle = bundle
  Unset = Unset
  Requests = {r1, r2}
  Products = {phone, case}
  Carts = {cash, card, bundle}
  Prices = {10, 11}
  TaxRates = {0, 1}
  Method <- MCMethod
  Demand <- MCDemand
  Total <- MCTotal
  Sold <- MCSold
  LineQuantityMax = 2
  TotalMax = 100
  StockMax = 2
  LedgerMax = 2
SPECIFICATION Scenes
SYMMETRY Symmetric
INVARIANTS TypeOK SoldOnce SoldAsCharged ChargeOnRecord ReceiptsInSequence LedgerExplainsStock VoidReturnsWhatWasSold JobsAimAtSales
PROPERTIES EvidenceIsKept ImplementsShop
