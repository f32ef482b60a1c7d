\* Requests about one order do not overlap.
CONSTANTS
  r1 = r1
  r2 = r2
  r3 = r3
  r4 = r4
  e1 = e1
  l1 = l1
  l2 = l2
  s1 = s1
  Requests = {r1, r2, r3, e1}
  Earlier = {e1}
  Listings = {l1, l2}
  Sellers = {s1}
  SellerOf <- OneSeller
  InitialStock <- ScarceStock
  MaxQuantity = 1
  Null = Null
  Isolation = "order"
SPECIFICATION Spec
SYMMETRY RequestSymmetry
INVARIANT ChargedIffCompleted
PROPERTIES StockConserved StatusMachine ImplementsInventoryOnce
