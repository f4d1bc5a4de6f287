------------------------------- MODULE Ledger -------------------------------
(***************************************************************************)
(* The data every server keeps about the clients and their transactions    *)
(* (the fields clients, transaction_history, num_transactions,             *)
(* total_transferred and total_balance of class Server), and what the      *)
(* server's code does to them.  A ledger is a value: the state machines    *)
(* that extend this module keep one ledger per server in a variable.       *)
(*                                                                         *)
(* The vector of ClientDTO is the set L.registered with two functions.     *)
(* For an address that is not registered they hold what the constructor    *)
(* of ClientDTO would give it, so registering an address adds it to the    *)
(* set.  Balances are floats in the code; sums of the modelled size are    *)
(* exact there, so they are integers here.  last_log_info is left out: it  *)
(* is read only to print a line.                                           *)
(***************************************************************************)
EXTENDS Integers, Sequences

CONSTANTS
  Clients,        \* client addresses (IPv4); the code identifies a client by its address
  InitialBalance  \* INITIAL_BALANCE, 1000 in utils.h

ASSUME InitialBalanceAssumption == InitialBalance \in Nat

Transaction == [id : Nat, source : Clients, dest : Clients, value : Int, seqn : Nat]

LedgerType ==
  [registered : SUBSET Clients, balance : [Clients -> Int], lastReq : [Clients -> Nat],
   history : Seq(Transaction), numTransactions : Nat, totalTransferred : Int,
   totalBalance : Int]

\* Mutant: a client is created expecting the request number 0.
EmptyLedgerFromMinusOne ==
  [registered |-> {}, balance |-> [c \in Clients |-> InitialBalance],
   lastReq |-> [c \in Clients |-> -1], history |-> <<>>, numTransactions |-> 0,
   totalTransferred |-> 0, totalBalance |-> 0]

EmptyLedger ==
  [registered |-> {}, balance |-> [c \in Clients |-> InitialBalance],
   lastReq |-> [c \in Clients |-> 0], history |-> <<>>, numTransactions |-> 0,
   totalTransferred |-> 0, totalBalance |-> 0]

findClient(L, c) == c \in L.registered

-----------------------------------------------------------------------------
(* Registration of a client that was discovered.                           *)

\* Mutant: the balance total follows the discovery and not the registration.
wasClientAddedAgain(L, c) ==
  [L EXCEPT !.registered = @ \cup {c}, !.totalBalance = @ + InitialBalance]

wasClientAdded(L, c) ==
  IF findClient(L, c) THEN L
  ELSE [L EXCEPT !.registered = @ \cup {c}, !.totalBalance = @ + InitialBalance]

-----------------------------------------------------------------------------
(* A transaction request of s: pay v to d, with the request number n.      *)

Statuses ==
  {"SUCCESS", "ERROR_CLIENT_NOT_FOUND", "ERROR_DUPLICATE_REQUEST",
   "ERROR_INSUFFICIENT_FUNDS", "ERROR_OUT_OF_SEQUENCE"}

\* Mutant: a request that skips numbers is not refused.
validateTransactionSkips(L, s, d, v, n) ==
  IF ~findClient(L, s) \/ ~findClient(L, d) THEN "ERROR_CLIENT_NOT_FOUND"
  ELSE IF n <= L.lastReq[s] THEN "ERROR_DUPLICATE_REQUEST"
  ELSE IF L.balance[s] < v THEN "ERROR_INSUFFICIENT_FUNDS"
  ELSE "SUCCESS"

\* Mutant: the number of the last request itself is taken again.
validateTransactionRepeats(L, s, d, v, n) ==
  IF ~findClient(L, s) \/ ~findClient(L, d) THEN "ERROR_CLIENT_NOT_FOUND"
  ELSE IF n < L.lastReq[s] THEN "ERROR_DUPLICATE_REQUEST"
  ELSE IF n > L.lastReq[s] + 1 THEN "ERROR_OUT_OF_SEQUENCE"
  ELSE IF L.balance[s] < v THEN "ERROR_INSUFFICIENT_FUNDS"
  ELSE "SUCCESS"

\* Mutant: an off-by-one in the funds check.
validateTransactionOverdraws(L, s, d, v, n) ==
  IF ~findClient(L, s) \/ ~findClient(L, d) THEN "ERROR_CLIENT_NOT_FOUND"
  ELSE IF n <= L.lastReq[s] THEN "ERROR_DUPLICATE_REQUEST"
  ELSE IF n > L.lastReq[s] + 1 THEN "ERROR_OUT_OF_SEQUENCE"
  ELSE IF L.balance[s] < v - 1 THEN "ERROR_INSUFFICIENT_FUNDS"
  ELSE "SUCCESS"

validateTransaction(L, s, d, v, n) ==
  IF ~findClient(L, s) \/ ~findClient(L, d) THEN "ERROR_CLIENT_NOT_FOUND"
  ELSE IF n <= L.lastReq[s] THEN "ERROR_DUPLICATE_REQUEST"
  ELSE IF n > L.lastReq[s] + 1 THEN "ERROR_OUT_OF_SEQUENCE"
  ELSE IF L.balance[s] < v THEN "ERROR_INSUFFICIENT_FUNDS"
  ELSE "SUCCESS"

setBalance(balance, c, b) == [balance EXCEPT ![c] = b]

\* Mutant: both balances are read before either is written, which turns a
\* transfer to oneself into a deposit.
executeTransactionStaleRead(L, s, d, v, n) ==
  [L EXCEPT !.balance = setBalance(setBalance(L.balance, s, L.balance[s] - v),
                                   d, L.balance[d] + v),
            !.lastReq[s] = n]

\* The debit is stored before the destination's balance is read: a transfer to
\* oneself changes nothing but the request number.
executeTransaction(L, s, d, v, n) ==
  LET debited == setBalance(L.balance, s, L.balance[s] - v) IN
    [L EXCEPT !.balance = setBalance(debited, d, debited[d] + v), !.lastReq[s] = n]

newTransaction(L, s, d, v, n) ==
  [id |-> L.numTransactions + 1, source |-> s, dest |-> d, value |-> v, seqn |-> n]

updateAndLogTransaction(L, s, d, v, n) ==
  [L EXCEPT !.numTransactions = @ + 1, !.totalTransferred = @ + v,
            !.history = Append(@, newTransaction(L, s, d, v, n))]

\* The status sent back and the ledger the request leaves.  The balance and the
\* last request number of the answer are only printed by the client.
handleTransactionLogic(L, s, d, v, n) ==
  LET status == validateTransaction(L, s, d, v, n) IN
    [status |-> status,
     ledger |-> IF status = "SUCCESS"
                THEN updateAndLogTransaction(executeTransaction(L, s, d, v, n), s, d, v, n)
                ELSE L]
=============================================================================
