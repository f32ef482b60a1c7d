\* One tab, two requests at a time.
CONSTANTS
  c0 = c0
  c1 = c1
  c2 = c2
  c3 = c3
  c4 = c4
  c5 = c5
  c6 = c6
  q1 = q1
  q2 = q2
  Requests = {q1, q2}
  Calls = {c0, c1, c2, c3, c4, c5, c6}
  Earlier = c0
  Null = Null
SPECIFICATION FairSpec
INVARIANTS TypeOK StoredTokenExplained
PROPERTY EveryRequestSettles
