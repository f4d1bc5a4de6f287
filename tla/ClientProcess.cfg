SPECIFICATION ProcessFairSpec
CONSTANTS
  c1 = c1
  c2 = c2
  Clients = {c1, c2}
  InitialBalance = 2
  Values <- Pays
  MaxRetries = 2
  MaxSeqn = 3
  MaxCommands <- ThreeLines
  MaxStarts <- OneStart
  MaxLines <- ThreeLines
INVARIANTS
  ProcessTypeOK
  SleepsOnlyWithoutWork
  EndOfInputFinishesWork
PROPERTIES
  EveryLineConcludes
  EndOfInputEnds
