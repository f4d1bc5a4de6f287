SPECIFICATION Spec
CONSTANTS
  Servers = {1, 2, 3}
  server_id <- OwnId
  Timely = TRUE
  MaxCrashes = 1
INVARIANTS
  OnePrimaryAmongAcquainted
  BackupsEnlisted
  SomebodyInCharge
CONSTRAINT FewPackets
