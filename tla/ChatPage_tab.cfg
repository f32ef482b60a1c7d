\* A chat of a message or none, two calls of the participants.
CONSTANTS
  MaxMessages = 2
  Earlier = 1
  MaxCalls = 2
  Me = "buyer"
SPECIFICATION FairSpec
INVARIANTS TypeOK NoDuplicates
PROPERTIES NewestShown ReceiptsSettle
