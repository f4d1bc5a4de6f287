SPECIFICATION FairSpec
CONSTANTS
  Threads <- Five
  Interface = "interface"
  MaxEvents = 2
INVARIANTS
  DisplayTypeOK
  FieldsTellTheTruth
  MutualExclusion
  NoStrandedWriter
  NoStrandedReader
  NothingUnseen
PROPERTIES
  ReadersWritersSpec
  WritersProgress
  ReadersServedAfterWriters
  SettlesAfterWriters
