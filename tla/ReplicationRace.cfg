SPECIFICATION Spec
CONSTANTS
  c1 = c1
  c2 = c2
  Clients = {c1, c2}
  InitialBalance = 1
  Values = {1}
  MaxSeqn <- OneEach
  Backups = {b1}
  MaxRegistrations = 1
  MaxFaults = 0
INVARIANTS
  SyncConcluded
