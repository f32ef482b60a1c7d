\* Any calls with any tokens, overlapping.
CONSTANTS
  c1 = c1
  c2 = c2
  c3 = c3
  c4 = c4
  c5 = c5
  Calls = {c1, c2, c3, c4, c5}
  Null = Null
SPECIFICATION Spec
SYMMETRY CallSymmetry
INVARIANTS OneActive LogoutEndsOrOvertaken
PROPERTY ImplementsSessionLine
