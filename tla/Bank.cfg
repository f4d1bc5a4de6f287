SPECIFICATION Spec
CONSTANTS
  Clients = {c1, c2}
  InitialBalance = 2
  Values <- MCValues
  MaxSeqn = 3
SYMMETRY ClientSymmetry
INVARIANTS
  TypeOK
  GaplessHistory
  MoneyConserved
  HistoryExplainsBook
  SolventUnlessNegative
