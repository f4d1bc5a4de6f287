SPECIFICATION Spec
CONSTANTS
  Servers = {1, 2}
  server_id <- OwnId
  Timely = FALSE
  MaxCrashes = 2
INVARIANTS
  TypeOK
  OnlyPrimariesEnlist
\* When packets are late two primaries may depose each other, and nobody moves again.
CHECK_DEADLOCK FALSE
