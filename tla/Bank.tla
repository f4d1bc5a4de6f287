-------------------------------- MODULE Bank --------------------------------
(***************************************************************************)
(* One server that stays primary: the account book its handler threads     *)
(* share.  Server::addClient and Server::processTransaction do all their   *)
(* work on it between writer_lock and writer_unlock, so each is one step   *)
(* (module RWLock shows that the lock gives that exclusion).  Requests     *)
(* come in any order and any number of times: UDP and the retries of the   *)
(* clients deliver whatever number they like, which module ClientSession   *)
(* spells out and shows to be an implementation of this one.               *)
(***************************************************************************)
EXTENDS Ledger, FiniteSets, Functions

CONSTANTS
  Values,  \* amounts a user can ask for: any int, negative ones included
  MaxSeqn  \* bound: the largest request number a client gets to

ASSUME ValuesAssumption == Values \subseteq Int /\ MaxSeqn \in Nat

VARIABLE ledger

Init == ledger = EmptyLedger

addClient(c) == ledger' = wasClientAdded(ledger, c)

processTransaction(s, d, v, n) == ledger' = handleTransactionLogic(ledger, s, d, v, n).ledger

Next ==
  \/ \E c \in Clients : addClient(c)
  \/ \E s, d \in Clients, v \in Values, n \in 1..MaxSeqn : processTransaction(s, d, v, n)

Spec == Init /\ [][Next]_ledger

-----------------------------------------------------------------------------
Entries == DOMAIN ledger.history

\* The amounts of the history, and the entries that say c was paid or paid.
amounts == [i \in Entries |-> ledger.history[i].value]

Receipts(c) == {i \in Entries : ledger.history[i].dest = c}
Payments(c) == {i \in Entries : ledger.history[i].source = c}

\* The ledger is a ledger.
TypeOK == ledger \in LedgerType

\* Each client's numbers stand in the history as 1, 2, ... up to its last
\* request: no request is executed twice, none is skipped, none overtakes an
\* earlier one, whatever is repeated or reordered on the way.
GaplessHistory ==
  /\ \A i \in Entries :
        ledger.history[i].seqn \in 1..ledger.lastReq[ledger.history[i].source]
  /\ \A i, j \in Entries :
        i < j /\ ledger.history[i].source = ledger.history[j].source
          => ledger.history[i].seqn < ledger.history[j].seqn
  /\ \A c \in Clients : \A n \in 1..ledger.lastReq[c] :
        \E i \in Entries : ledger.history[i].source = c /\ ledger.history[i].seqn = n

\* The money in the accounts is what registration put there, and it is what the
\* server prints as the total: transfers, those to oneself included, neither
\* create nor destroy any.
MoneyConserved ==
  /\ SumFunctionOnSet(ledger.balance, ledger.registered) = ledger.totalBalance
  /\ ledger.totalBalance = InitialBalance * Cardinality(ledger.registered)

\* The history explains the book: every balance is the initial one plus what
\* the history says was received less what it says was paid, and the counters
\* the server prints are those of the history.
HistoryExplainsBook ==
  /\ \A c \in Clients :
       ledger.balance[c] = InitialBalance + SumFunctionOnSet(amounts, Receipts(c))
                                          - SumFunctionOnSet(amounts, Payments(c))
  /\ ledger.totalTransferred = SumFunctionOnSet(amounts, Entries)
  /\ ledger.numTransactions = Len(ledger.history)
  /\ \A i \in Entries : ledger.history[i].id = i

\* Nobody is overdrawn unless someone was paid a negative amount, which the code
\* accepts (clients parse any int) and which debits the destination unchecked.
SolventUnlessNegative ==
  (\A i \in Entries : ledger.history[i].value >= 0)
    => \A c \in Clients : ledger.balance[c] >= 0
=============================================================================
