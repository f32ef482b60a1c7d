CONSTANTS
  c1 = c1  c2 = c2
  q1 = q1  q2 = q2  bad = bad
  f0 = f0  f1 = f1
  p1 = p1  p2 = p2
  g1 = g1  g2 = g2
  t1 = t1  t2 = t2  t3 = t3
  a1 = a1  a2 = a2
  o1 = o1  o2 = o2
  Null = Null
  Categories = {c1, c2}
  LastPage = 3
  LastFull = TRUE
  Queries = {q1, q2, bad}
  Refused = {bad}
  FilterSets = {f0, f1}
  DefaultFilters = f0
  CacheMax = 2
  OrderCount = 2
  Tabs = {"all", "confirmed"}
  Images = {p1, p2}
  MaxImages = 2
  MaxListings = 2
  MaxRetries = 1
  MaxStock = 2
  Goods = {g1, g2}
  MaxLoginAttempts = 2
  Texts = {t1, t2, t3}
  RefusedTexts = {t3}
  CityOptions = {t1}
  Sanitized <- PlainTexts
  NormalCity <- CityNames
  StoredProfiles <- Registered
  Pictures = {a1, a2}
  CompletedOrders = {o1, o2}
  MaxFlight = 3
  MaxInput = 3
SPECIFICATION Spec
CHECK_DEADLOCK FALSE
INVARIANTS
  TypeOK
  NoPageTwice LastSearchShown StatusExplained
  ImagesAsWanted OneListingPerForm ListingExplained BoostMatchesPayment
  HeartExplained SignInExplained ProfileExplained
PROPERTIES
  CatalogLoadingEnds RefusedOnlyWhenStale SavesWhatWasGiven
