SPECIFICATION FailoverSpec
CONSTANTS
  c1 = c1
  c2 = c2
  Clients = {c1, c2}
  InitialBalance = 2
  Servers = {1, 2, 3}
  server_id <- OwnId
  Timely = TRUE
  MaxCrashes = 2
  Requests <- OnePayment
  MaxThreads = 1
INVARIANTS
  FailoverTypeOK
  ConfirmedSurvives
  HeirsAgree
PROPERTIES
  NoPaymentTwice
CONSTRAINT Unbroken
ACTION_CONSTRAINT ThirdServer
