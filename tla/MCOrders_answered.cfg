\* Liveness: any requests overlap.
CONSTANTS
  r1 = r1
  r2 = r2
  r3 = r3
  r4 = r4
  e1 = e1
  l1 = l1
  l2 = l2
  s1 = s1
  Requests = {r1, r2, r3}
  Earlier = {}
  Listings = {l1, l2}
  Sellers = {s1}
  SellerOf <- OneSeller
  InitialStock <- ScarceStock
  MaxQuantity = 1
  Null = Null
  Isolation = "none"
SPECIFICATION FairSpec
PROPERTY EveryRequestAnswered
