------------------------------- MODULE Ledger -------------------------------
(***************************************************************************)
(* The wallet ledger, internal/module/ledger: Debit, Credit, DebitWithRetry, *)
(* CreditWithRetry with their row-lock fallback, and EnsureWallet, run by  *)
(* concurrent sessions.  A session is one goroutine inside one database     *)
(* transaction opened by its caller; the operation is the transaction's     *)
(* only ledger call, as in every caller (order, refund, recharge).          *)
(*                                                                         *)
(* The database is MySQL/InnoDB with the server's isolation level, which    *)
(* the connection strings do not set: REPEATABLE READ by default.  What the *)
(* code relies on is modelled: a plain SELECT reads the transaction's      *)
(* snapshot, fixed at its first read; UPDATE and SELECT ... FOR UPDATE     *)
(* read the latest committed row and keep its lock until the transaction   *)
(* ends (REPEATABLE READ keeps it even when the WHERE did not match); what  *)
(* a transaction wrote is seen by others only after it commits.            *)
(*                                                                         *)
(* Amounts are integers (a unit of 10^-6, the column's scale); notes,      *)
(* types and related ids are left out.                                     *)
(***************************************************************************)
EXTENDS Integers, Sequences

CONSTANTS Users,          \* the owners of wallets
          Sessions,       \* the goroutines that call the ledger
          Amounts,        \* the amounts callers ask for, some not positive
          MaxRetries,     \* the rounds of the WithRetry loops (an argument, 3 if not positive)
          RepeatableRead, \* FALSE: the server runs READ COMMITTED
          MaxPosts,       \* bound: no call starts on a wallet with this many lines
          NoWallet, NoSession, NoRequest

ASSUME AmountsAssumption == Amounts \subseteq Int
ASSUME MaxRetriesAssumption == MaxRetries \in Nat \ {0}
ASSUME IsolationAssumption == RepeatableRead \in BOOLEAN
ASSUME NoSessionAssumption == NoSession \notin Sessions
ASSUME NoWalletAssumption == NoWallet \notin [balance : Int, version : Nat]

VARIABLES wallet,   \* wallet[u]: the committed row, or NoWallet
          entries,  \* entries[u]: the committed ledger entries, oldest first
          lock,     \* lock[u]: the session that holds the row's lock
          pc,       \* pc[s]: where session s is
          request,  \* request[s]: the call it serves
          attempt,  \* attempt[s]: the loop counter of the WithRetry calls
          seen,     \* seen[s]: the wallet the session last read
          row,      \* row[s]: its uncommitted wallet row
          draft     \* draft[s]: its uncommitted entries, at most one

vars == <<wallet, entries, lock, pc, request, attempt, seen, row, draft>>

Wallet == [balance : Int, version : Nat]
Entry == [amount : Int, after : Int]
Debits == {"Debit", "DebitWithRetry"}
Retrying == {"DebitWithRetry", "CreditWithRetry"}
Calls == {"Debit", "Credit", "DebitWithRetry", "CreditWithRetry"}
Request == [call : Calls \cup {"EnsureWallet"}, user : Users, amount : Int]

-----------------------------------------------------------------------------
User(s) == request[s].user

(* The signed amount of the entry: debits are recorded negative.           *)
Signed(s) == IF request[s].call \in Debits
             THEN -request[s].amount ELSE request[s].amount

NewBalance(s) == seen[s].balance + Signed(s)

(* Debits refuse a wallet that holds less than the amount; credits, whose  *)
(* amount is positive, cannot fail here.                                   *)
BalanceUnchecked(s, w) == TRUE
Covers(s, w) == w.balance + Signed(s) >= 0

(* A statement that locks the row waits until no other session holds it.   *)
RowLockIgnored(s) == TRUE
RowFree(s) == lock[User(s)] \in {NoSession, s}

VersionIgnored(s) == TRUE
VersionMatches(s) == wallet[User(s)].version = seen[s].version

(* The end of a transaction, committed or not, frees what it locked.       *)
LockLeaked(s) == lock
Released(s) == [u \in Users |-> IF lock[u] = s THEN NoSession ELSE lock[u]]

(* A failed round of the loop is repeated, except the last.                *)
NextRoundOneTooMany(s) == IF attempt[s] + 1 <= MaxRetries THEN "read" ELSE "lock"
NextRound(s) == IF attempt[s] + 1 < MaxRetries THEN "read" ELSE "lock"

(* The version the fallback writes is computed in the program.             *)
NextVersion(s) == seen[s].version + 1

Goto(s, label) == pc' = [pc EXCEPT ![s] = label]

Finish(s) ==
  /\ Goto(s, "idle")
  /\ lock' = Released(s)
  /\ request' = [request EXCEPT ![s] = NoRequest]
  /\ attempt' = [attempt EXCEPT ![s] = 0]
  /\ seen' = [seen EXCEPT ![s] = NoWallet]
  /\ row' = [row EXCEPT ![s] = NoWallet]
  /\ draft' = [draft EXCEPT ![s] = <<>>]

-----------------------------------------------------------------------------
Init ==
  /\ wallet = [u \in Users |-> NoWallet]
  /\ entries = [u \in Users |-> <<>>]
  /\ lock = [u \in Users |-> NoSession]
  /\ pc = [s \in Sessions |-> "idle"]
  /\ request = [s \in Sessions |-> NoRequest]
  /\ attempt = [s \in Sessions |-> 0]
  /\ seen = [s \in Sessions |-> NoWallet]
  /\ row = [s \in Sessions |-> NoWallet]
  /\ draft = [s \in Sessions |-> <<>>]

(* A caller begins a transaction and calls the ledger; an amount that is    *)
(* not positive is an error and the caller rolls back.                     *)
Begin(s, c, u, a) ==
  /\ pc[s] = "idle"
  /\ Len(entries[u]) < MaxPosts
  /\ request' = [request EXCEPT ![s] = [call |-> c, user |-> u, amount |-> a]]
  /\ Goto(s, IF a > 0 THEN "read" ELSE "abort")
  /\ UNCHANGED <<wallet, entries, lock, attempt, seen, row, draft>>

(* The wallet read at the head of every call and of every retry.  On a     *)
(* retry REPEATABLE READ answers from the snapshot of the first read.      *)
GetWalletWithTx(s) ==
  /\ pc[s] = "read"
  /\ LET w == IF RepeatableRead /\ attempt[s] > 0
              THEN seen[s] ELSE wallet[User(s)]
     IN /\ seen' = [seen EXCEPT ![s] = w]
        /\ Goto(s, IF w # NoWallet /\ Covers(s, w) THEN "cas" ELSE "abort")
  /\ UNCHANGED <<wallet, entries, lock, request, attempt, row, draft>>

(* The versioned UPDATE, one row affected.                                 *)
CASHit(s) ==
  /\ pc[s] = "cas"
  /\ RowFree(s)
  /\ VersionMatches(s)
  /\ lock' = [lock EXCEPT ![User(s)] = s]
  /\ row' = [row EXCEPT ![s] = [balance |-> NewBalance(s),
                               version |-> wallet[User(s)].version + 1]]
  /\ Goto(s, "entry")
  /\ UNCHANGED <<wallet, entries, request, attempt, seen, draft>>

(* The versioned UPDATE, no row affected: Debit and Credit fail; the       *)
(* WithRetry calls sleep and read again, then fall back to the row lock.   *)
CASMiss(s) ==
  /\ pc[s] = "cas"
  /\ RowFree(s)
  /\ ~VersionMatches(s)
  /\ lock' = IF RepeatableRead THEN [lock EXCEPT ![User(s)] = s] ELSE lock
  /\ attempt' = [attempt EXCEPT ![s] = @ + 1]
  /\ Goto(s, IF request[s].call \in Retrying THEN NextRound(s) ELSE "abort")
  /\ UNCHANGED <<wallet, entries, request, seen, row, draft>>

(* debitWithLock and creditWithLock: SELECT ... FOR UPDATE ...             *)
LockWallet(s) ==
  /\ pc[s] = "lock"
  /\ RowFree(s)
  /\ lock' = [lock EXCEPT ![User(s)] = s]
  /\ seen' = [seen EXCEPT ![s] = wallet[User(s)]]
  /\ Goto(s, IF Covers(s, wallet[User(s)]) THEN "write" ELSE "abort")
  /\ UNCHANGED <<wallet, entries, request, attempt, row, draft>>

(* ... then an UPDATE with the values computed in the program.             *)
UpdateLocked(s) ==
  /\ pc[s] = "write"
  /\ row' = [row EXCEPT ![s] = [balance |-> NewBalance(s),
                               version |-> NextVersion(s)]]
  /\ Goto(s, "entry")
  /\ UNCHANGED <<wallet, entries, lock, request, attempt, seen, draft>>

CreateEntry(s) ==
  /\ pc[s] = "entry"
  /\ draft' = [draft EXCEPT ![s] =
                 <<[amount |-> Signed(s), after |-> NewBalance(s)]>>]
  /\ Goto(s, "commit")
  /\ UNCHANGED <<wallet, entries, lock, request, attempt, seen, row>>

(* Entries are inserted, never updated.                                    *)
Journalled(s) == [entries EXCEPT ![User(s)] = @ \o draft[s]]

Commit(s) ==
  /\ pc[s] = "commit"
  /\ wallet' = [wallet EXCEPT ![User(s)] = row[s]]
  /\ entries' = Journalled(s)
  /\ Finish(s)

(* The call returned an error and its caller's transaction rolls back.     *)
Rollback(s) ==
  /\ pc[s] = "abort"
  /\ Finish(s)
  /\ UNCHANGED <<wallet, entries>>

(* A statement fails, the caller's own work fails, or the process dies:     *)
(* the database rolls the transaction back wherever it was.                *)
Fault(s) ==
  /\ pc[s] \notin {"idle", "abort"}
  /\ Finish(s)
  /\ UNCHANGED <<wallet, entries>>

(* EnsureWallet runs outside any transaction: it returns the wallet it     *)
(* finds and only inserts one when it found none.                          *)
EnsureFound(s, u) ==
  /\ pc[s] = "idle"
  /\ wallet[u] # NoWallet
  /\ UNCHANGED vars

EnsureGet(s, u) ==
  /\ pc[s] = "idle"
  /\ wallet[u] = NoWallet
  /\ request' = [request EXCEPT ![s] =
                   [call |-> "EnsureWallet", user |-> u, amount |-> 0]]
  /\ Goto(s, "create")
  /\ UNCHANGED <<wallet, entries, lock, attempt, seen, row, draft>>

(* The unique index on user_id lets one insert through; the call that lost *)
(* reads again and returns the winner's wallet.                            *)
InsertUnchecked(s) == [wallet EXCEPT ![User(s)] = [balance |-> 0, version |-> 0]]
InsertWallet(s) ==
  IF wallet[User(s)] = NoWallet
  THEN [wallet EXCEPT ![User(s)] = [balance |-> 0, version |-> 0]]
  ELSE wallet

EnsureCreate(s) ==
  /\ pc[s] = "create"
  /\ wallet' = InsertWallet(s)
  /\ Finish(s)
  /\ UNCHANGED entries

Step(s) ==
  \/ GetWalletWithTx(s) \/ CASHit(s) \/ CASMiss(s)
  \/ LockWallet(s) \/ UpdateLocked(s) \/ CreateEntry(s)
  \/ Commit(s) \/ Rollback(s) \/ EnsureCreate(s)

Next ==
  \E s \in Sessions :
    \/ \E c \in Calls, u \in Users, a \in Amounts : Begin(s, c, u, a)
    \/ \E u \in Users : EnsureFound(s, u) \/ EnsureGet(s, u)
    \/ Step(s)
    \/ Fault(s)

Spec == Init /\ [][Next]_vars

(* A goroutine keeps running, and InnoDB grants a row lock to its waiters   *)
(* in order, so a statement that waits for a lock is not passed over for   *)
(* ever.  Callers need never call, and nothing makes a fault happen.       *)
Fairness ==
  \A s \in Sessions :
    /\ WF_vars(GetWalletWithTx(s) \/ UpdateLocked(s) \/ CreateEntry(s)
               \/ Commit(s) \/ Rollback(s) \/ EnsureCreate(s))
    /\ SF_vars(CASHit(s) \/ CASMiss(s) \/ LockWallet(s))

FairSpec == Spec /\ Fairness
-----------------------------------------------------------------------------
Labels == {"idle", "read", "cas", "lock", "write", "entry", "commit",
           "abort", "create"}

(* Every variable stays in its domain; the retry loop makes at most        *)
(* MaxRetries rounds.                                                      *)
TypeOK ==
  /\ wallet \in [Users -> Wallet \cup {NoWallet}]
  /\ entries \in [Users -> Seq(Entry)]
  /\ lock \in [Users -> Sessions \cup {NoSession}]
  /\ pc \in [Sessions -> Labels]
  /\ request \in [Sessions -> Request \cup {NoRequest}]
  /\ attempt \in [Sessions -> 0..MaxRetries]
  /\ seen \in [Sessions -> Wallet \cup {NoWallet}]
  /\ row \in [Sessions -> Wallet \cup {NoWallet}]
  /\ draft \in [Sessions -> Seq(Entry)]

(* No interleaving of debits overdraws a wallet: the check on a possibly   *)
(* stale balance is made good by the versioned update or the row lock.     *)
NoOverdraft == \A u \in Users : wallet[u] # NoWallet => wallet[u].balance >= 0

(* Every entry's BalanceAfter is the BalanceAfter before it plus its own   *)
(* amount, and the wallet holds the BalanceAfter of its last entry: no     *)
(* update is lost, none is journalled twice, none is left unjournalled.    *)
After(u, i) == IF i = 0 THEN 0 ELSE entries[u][i].after

JournalChained ==
  \A u \in Users : \A i \in 1..Len(entries[u]) :
    entries[u][i].after = After(u, i - 1) + entries[u][i].amount

WalletIsLastEntry ==
  \A u \in Users :
    IF wallet[u] = NoWallet THEN entries[u] = <<>>
    ELSE wallet[u].balance = After(u, Len(entries[u]))

(* The version counts the wallet's entries, so a version that still        *)
(* matches means that nothing was posted since the read.                   *)
VersionCountsEntries ==
  \A u \in Users :
    wallet[u] # NoWallet => wallet[u].version = Len(entries[u])

(* A statement of session s waits for a row lock.                          *)
Waits(s) == pc[s] \in {"cas", "lock"} /\ ~ RowFree(s)

(* Calls never wait in a circle, nor for a lock nobody will free: whoever  *)
(* a session waits for is another session, in the middle of a call on the  *)
(* same wallet, that itself waits for nobody.                              *)
WaitsForWorker ==
  \A s \in Sessions : Waits(s) =>
    /\ lock[User(s)] \in Sessions \ {s}
    /\ pc[lock[User(s)]] \notin {"idle", "create"}
    /\ User(lock[User(s)]) = User(s)
    /\ ~ Waits(lock[User(s)])

(* Every call comes to an end, whatever the others do: the retries are     *)
(* finite, and no session waits for ever for the row lock.                 *)
CallsReturn == \A s \in Sessions : pc[s] # "idle" ~> pc[s] = "idle"

(* The refinement of Account: its journal is the committed entries.        *)
Positive == {a \in Amounts : a > 0}
SignedAmounts == Positive \cup {-a : a \in Positive}
OpenUsers == {u \in Users : wallet[u] # NoWallet}
Balances == [u \in Users |-> IF wallet[u] = NoWallet THEN 0 ELSE wallet[u].balance]

Abstract == INSTANCE Account WITH
  Postings <- SignedAmounts,
  open <- OpenUsers,
  balance <- Balances,
  journal <- entries

(* Every posting of the concurrent ledger takes effect at one instant, its *)
(* commit, exactly as Account posts.                                       *)
ImplementsAccount == Abstract!Spec
=============================================================================
