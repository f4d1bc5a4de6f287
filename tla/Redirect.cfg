SPECIFICATION RedirectFairSpec
CONSTANTS
  Servers = {1, 2}
  Clients = {c1}
  server_id <- OwnId
  Timely = TRUE
  MaxCrashes = 2
INVARIANTS
  RedirectTypeOK
  ClientsFollowThePrimary
PROPERTIES
  HighestTakesOver
\* A client that found no primary waits for ever.
CHECK_DEADLOCK FALSE
