\* Any requests overlap: StockConserved fails.
CONSTANTS
  r1 = r1
  r2 = r2
  r3 = r3
  r4 = r4
  e1 = e1
  l1 = l1
  l2 = l2
  s1 = s1
  Requests = {r1, r2, e1}
  Earlier = {e1}
  Listings = {l1}
  Sellers = {s1}
  SellerOf <- OneSeller
  InitialStock <- OneEach
  MaxQuantity = 1
  Null = Null
  Isolation = "none"
SPECIFICATION Spec
PROPERTY StockConserved
