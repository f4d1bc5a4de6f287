SPECIFICATION Spec
CONSTANTS
  c1 = c1
  c2 = c2
  Clients = {c1, c2}
  InitialBalance = 1
  Values = {1}
  MaxSeqn <- TwoAndOne
  Backups = {b1}
  MaxRegistrations = 2
  MaxFaults = 1
INVARIANTS
  TypeOK
  NothingForgotten
  SyncedUnlessOvertaken
  BackupNeverAhead
