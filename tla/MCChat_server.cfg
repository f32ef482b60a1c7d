\* Overlapping calls of both participants.
CONSTANTS
  c1 = c1
  c2 = c2
  c3 = c3
  MaxMessages = 3
  Earlier = 1
  Calls = {c1, c2, c3}
SPECIFICATION Spec
SYMMETRY CallSymmetry
INVARIANT InboxFollowsNewest
PROPERTIES ReadSticks ImplementsChatLog
