---------------------------- MODULE LedgerProofs ----------------------------
(***************************************************************************)
(* Theorems of Ledger, for any set of users and sessions, any amounts, any *)
(* number of retries and either isolation level.                           *)
(*                                                                         *)
(* The argument: a session that has written the wallet holds the row's     *)
(* lock and has read the committed wallet (Prepared); a session that has    *)
(* only read holds nothing, but what it read is either the committed wallet *)
(* or an older version of it (Remembers), so the versioned update cannot    *)
(* take an old balance for the current one.                                *)
(*                                                                         *)
(* Progress: a lock is held by a session that works on that wallet and     *)
(* waits for none (LockInv), as a transaction has one ledger call, and its *)
(* own steps bring a call closer to its end (StepsLeft).                   *)
(***************************************************************************)
EXTENDS Ledger, TLAPS

(* What session s knows of its wallet after a plain read.                  *)
Remembers(s) ==
  /\ seen[s] \in Wallet
  /\ wallet[User(s)] \in Wallet
  /\ seen[s].version <= wallet[User(s)].version
  /\ seen[s].version = wallet[User(s)].version => seen[s] = wallet[User(s)]

(* What it knows once it has locked the row.                               *)
Prepared(s) ==
  /\ lock[User(s)] = s
  /\ seen[s] \in Wallet
  /\ seen[s] = wallet[User(s)]
  /\ NewBalance(s) >= 0

NextRow(s) == [balance |-> NewBalance(s), version |-> seen[s].version + 1]
NextEntry(s) == [amount |-> Signed(s), after |-> NewBalance(s)]

SessionInv(s) ==
  /\ pc[s] = "idle" => attempt[s] = 0
  /\ pc[s] \in {"idle", "read", "cas"} => attempt[s] < MaxRetries
  /\ pc[s] # "idle" => request[s] \in Request
  /\ pc[s] \notin {"idle", "abort", "create"} => request[s].amount \in Positive
  /\ pc[s] \in {"lock", "cas"} \/ (pc[s] = "read" /\ attempt[s] > 0) => Remembers(s)
  /\ pc[s] = "cas" => NewBalance(s) >= 0
  /\ pc[s] \in {"write", "entry", "commit"} => Prepared(s)
  /\ pc[s] \in {"entry", "commit"} => row[s] = NextRow(s)
  /\ pc[s] = "commit" => draft[s] = <<NextEntry(s)>>

WalletInv(u) ==
  /\ wallet[u] = NoWallet => entries[u] = <<>>
  /\ wallet[u] # NoWallet =>
       /\ wallet[u].balance >= 0
       /\ wallet[u].version = Len(entries[u])
       /\ wallet[u].balance = After(u, Len(entries[u]))
  /\ \A i \in 1..Len(entries[u]) :
       entries[u][i].after = After(u, i - 1) + entries[u][i].amount

IInv ==
  /\ TypeOK
  /\ \A s \in Sessions : SessionInv(s)
  /\ \A u \in Users : WalletInv(u)

-----------------------------------------------------------------------------
LEMMA InitInv == Init => IInv
  BY MaxRetriesAssumption DEF Init, IInv, TypeOK, SessionInv, WalletInv, Labels

(* A step that leaves the committed wallets and entries alone keeps the    *)
(* wallets' part of the invariant.                                         *)
LEMMA WalletsKept ==
  ASSUME \A u \in Users : WalletInv(u), UNCHANGED <<wallet, entries>>
  PROVE  \A u \in Users : WalletInv(u)'
  BY DEF WalletInv, After

(* A session is not disturbed by another that changes no committed wallet  *)
(* and takes or frees no lock but its own.                                 *)
LEMMA OthersKept ==
  ASSUME NEW s \in Sessions, NEW t \in Sessions, SessionInv(t),
         UNCHANGED wallet,
         lock[User(t)] = t => lock'[User(t)] = t,
         pc'[t] = pc[t], request'[t] = request[t], attempt'[t] = attempt[t],
         seen'[t] = seen[t], row'[t] = row[t], draft'[t] = draft[t]
  PROVE  SessionInv(t)'
  BY DEF SessionInv, Remembers, Prepared, NextRow, NextEntry, NewBalance,
         Signed, User

(* Every action that is not a commit or a wallet's creation.               *)
LEMMA QuietStep ==
  ASSUME NEW s \in Sessions, IInv, TypeOK', SessionInv(s)',
         UNCHANGED <<wallet, entries>>,
         \A u \in Users : lock'[u] = lock[u] \/ (lock[u] \in {s, NoSession} /\ lock'[u] \in {s, NoSession}),
         \A t \in Sessions \ {s} :
           /\ pc'[t] = pc[t]
           /\ request'[t] = request[t]
           /\ attempt'[t] = attempt[t]
           /\ seen'[t] = seen[t]
           /\ row'[t] = row[t]
           /\ draft'[t] = draft[t]
  PROVE  IInv'
<1>1. ASSUME NEW t \in Sessions \ {s}
      PROVE  SessionInv(t)'
  <2>1. CASE pc[t] = "idle"
    BY <2>1 DEF IInv, SessionInv
  <2>2. CASE pc[t] # "idle"
    <3>1. User(t) \in Users
      BY <2>2 DEF IInv, SessionInv, User, Request
    <3>2. lock[User(t)] = t => lock'[User(t)] = t
      BY <3>1, NoSessionAssumption
    <3> QED
      BY <3>2, OthersKept DEF IInv
  <2> QED BY <2>1, <2>2
<1>2. \A u \in Users : WalletInv(u)'
  BY WalletsKept DEF IInv
<1> QED BY <1>1, <1>2 DEF IInv

LEMMA FinishStep ==
  ASSUME NEW s \in Sessions, IInv, Finish(s), UNCHANGED <<wallet, entries>>
  PROVE  IInv'
<1>1. TypeOK'
  BY MaxRetriesAssumption DEF IInv, TypeOK, Finish, Goto, Released, Labels
<1>2. SessionInv(s)'
  BY <1>1, MaxRetriesAssumption DEF SessionInv, Finish, Goto, IInv, TypeOK
<1> QED
  BY <1>1, <1>2, QuietStep DEF Finish, Goto, Released, IInv, TypeOK

LEMMA BeginStep ==
  ASSUME NEW s \in Sessions, NEW c \in Calls, NEW u \in Users, NEW a \in Amounts,
         IInv, Begin(s, c, u, a)
  PROVE  IInv'
<1>1. TypeOK'
  BY AmountsAssumption DEF IInv, TypeOK, Begin, Goto, Labels, Request
<1>2. SessionInv(s)'
  BY <1>1, AmountsAssumption DEF SessionInv, Begin, Goto, IInv, TypeOK, Request,
                                  Positive
<1> QED
  BY <1>1, <1>2, QuietStep DEF Begin, Goto, IInv, TypeOK

LEMMA GetWalletStep ==
  ASSUME NEW s \in Sessions, IInv, GetWalletWithTx(s)
  PROVE  IInv'
<1>1. seen'[s] \in Wallet \cup {NoWallet}
  BY DEF IInv, TypeOK, GetWalletWithTx, SessionInv, User, Request
<1>2. TypeOK'
  BY <1>1 DEF IInv, TypeOK, GetWalletWithTx, Goto, Labels
<1>3. SessionInv(s)'
  <2>1. CASE pc'[s] = "abort"
    BY <2>1 DEF IInv, TypeOK, SessionInv, GetWalletWithTx, Goto
  <2>2. CASE pc'[s] # "abort"
    <3>1. pc'[s] = "cas" /\ Covers(s, seen'[s]) /\ seen'[s] # NoWallet
      BY <2>2 DEF IInv, TypeOK, GetWalletWithTx, Goto
    <3>2. User(s) \in Users /\ User(s)' = User(s) /\ Signed(s)' = Signed(s)
      BY DEF IInv, SessionInv, GetWalletWithTx, User, Request, Signed
    <3>3. Remembers(s)'
      BY <1>1, <3>1, <3>2 DEF IInv, TypeOK, SessionInv, GetWalletWithTx, Remembers, Wallet
    <3> QED
      BY <3>1, <3>2, <3>3 DEF IInv, SessionInv, GetWalletWithTx, Covers, NewBalance
  <2> QED BY <2>1, <2>2
<1> QED
  BY <1>2, <1>3, QuietStep DEF GetWalletWithTx, Goto, IInv, TypeOK

LEMMA SignedInt ==
  ASSUME NEW s \in Sessions, request[s] \in Request
  PROVE  Signed(s) \in Int /\ User(s) \in Users
  BY DEF Signed, User, Request

LEMMA CASHitStep ==
  ASSUME NEW s \in Sessions, IInv, CASHit(s)
  PROVE  IInv'
<1>1. Remembers(s) /\ request[s] \in Request /\ NewBalance(s) >= 0
  BY DEF IInv, SessionInv, CASHit
<1>2. /\ seen[s] = wallet[User(s)]
      /\ seen[s] \in Wallet
      /\ NewBalance(s) \in Int
      /\ User(s) \in Users
  BY <1>1, SignedInt DEF Remembers, CASHit, VersionMatches, NewBalance, Wallet
<1>3. TypeOK'
  BY <1>2 DEF IInv, TypeOK, CASHit, Goto, Labels, Wallet
<1>4. SessionInv(s)'
  BY <1>1, <1>2 DEF IInv, TypeOK, SessionInv, CASHit, Goto, Prepared, NextRow,
                    NewBalance, Signed, User
<1> QED
  BY <1>2, <1>3, <1>4, QuietStep DEF CASHit, RowFree, Goto, IInv, TypeOK

LEMMA CASMissStep ==
  ASSUME NEW s \in Sessions, IInv, CASMiss(s)
  PROVE  IInv'
<1>1. Remembers(s) /\ request[s] \in Request /\ User(s) \in Users
  BY SignedInt DEF IInv, SessionInv, CASMiss
<1>2. attempt[s] + 1 \in 0..MaxRetries
  BY MaxRetriesAssumption DEF IInv, TypeOK, SessionInv, CASMiss
<1>3. TypeOK'
  BY <1>1, <1>2 DEF IInv, TypeOK, CASMiss, Goto, Labels, NextRound
<1>4. SessionInv(s)'
  BY <1>1, <1>2, MaxRetriesAssumption DEF NextRound, IInv, TypeOK, SessionInv, CASMiss, Goto, Remembers, User
<1> QED
  BY <1>1, <1>3, <1>4, QuietStep DEF CASMiss, RowFree, Goto, IInv, TypeOK

LEMMA LockWalletStep ==
  ASSUME NEW s \in Sessions, IInv, LockWallet(s)
  PROVE  IInv'
<1>1. Remembers(s) /\ request[s] \in Request /\ User(s) \in Users
  BY SignedInt DEF IInv, SessionInv, LockWallet
<1>2. TypeOK'
  BY <1>1 DEF IInv, TypeOK, LockWallet, Goto, Labels
<1>3. SessionInv(s)'
  BY <1>1 DEF IInv, TypeOK, SessionInv, LockWallet, Goto, Remembers, Prepared,
              NewBalance, Signed, User, Covers
<1> QED
  BY <1>1, <1>2, <1>3, QuietStep DEF LockWallet, RowFree, Goto, IInv, TypeOK

LEMMA UpdateLockedStep ==
  ASSUME NEW s \in Sessions, IInv, UpdateLocked(s)
  PROVE  IInv'
<1>1. Prepared(s) /\ request[s] \in Request
  BY DEF IInv, SessionInv, UpdateLocked
<1>2. NewBalance(s) \in Int /\ seen[s].version + 1 \in Nat
  BY <1>1, SignedInt DEF Prepared, NewBalance, Wallet
<1>3. TypeOK'
  BY <1>2 DEF NextVersion, IInv, TypeOK, UpdateLocked, Goto, Labels, Wallet
<1>4. SessionInv(s)'
  BY <1>1, <1>3 DEF NextVersion, IInv, TypeOK, SessionInv, UpdateLocked, Goto, Prepared, NextRow,
              NewBalance, Signed, User
<1> QED
  BY <1>3, <1>4, QuietStep DEF UpdateLocked, Goto, IInv, TypeOK

LEMMA CreateEntryStep ==
  ASSUME NEW s \in Sessions, IInv, CreateEntry(s)
  PROVE  IInv'
<1>1. Prepared(s) /\ request[s] \in Request /\ row[s] = NextRow(s)
  BY DEF IInv, SessionInv, CreateEntry
<1>2. <<NextEntry(s)>> \in Seq(Entry)
  BY <1>1, SignedInt DEF Prepared, NewBalance, Wallet, NextEntry, Entry
<1>3. TypeOK'
  BY <1>2 DEF IInv, TypeOK, CreateEntry, Goto, Labels, NextEntry
<1>4. SessionInv(s)'
  BY <1>1 DEF IInv, TypeOK, SessionInv, CreateEntry, Goto, Prepared, NextRow,
              NextEntry, NewBalance, Signed, User
<1> QED
  BY <1>3, <1>4, QuietStep DEF CreateEntry, Goto, IInv, TypeOK

(* A commit replaces one wallet by the row its session prepared and        *)
(* appends the entry drafted with it.                                      *)
LEMMA CommitEffect ==
  ASSUME NEW s \in Sessions, IInv, Commit(s)
  PROVE  /\ User(s) \in Users
         /\ wallet[User(s)] \in Wallet
         /\ Signed(s) \in Int
         /\ wallet[User(s)].balance + Signed(s) >= 0
         /\ lock[User(s)] = s
         /\ wallet' = [wallet EXCEPT ![User(s)] =
                         [balance |-> wallet[User(s)].balance + Signed(s),
                          version |-> wallet[User(s)].version + 1]]
         /\ entries' = [entries EXCEPT ![User(s)] =
                          Append(@, [amount |-> Signed(s),
                                     after |-> wallet[User(s)].balance + Signed(s)])]
<1>1. /\ Prepared(s)
      /\ request[s] \in Request
      /\ row[s] = NextRow(s)
      /\ draft[s] = <<NextEntry(s)>>
  BY DEF IInv, SessionInv, Commit
<1>2. Signed(s) \in Int /\ User(s) \in Users
  BY <1>1, SignedInt
<1>3. entries[User(s)] \in Seq(Entry) /\ NextEntry(s) \in Entry
  BY <1>1, <1>2 DEF IInv, TypeOK, NextEntry, Entry, NewBalance, Prepared, Wallet
<1>4. entries[User(s)] \o <<NextEntry(s)>> = Append(entries[User(s)], NextEntry(s))
  BY <1>3
<1> QED
  BY <1>1, <1>2, <1>4 DEF Commit, Journalled, Prepared, NextRow, NextEntry, NewBalance

LEMMA CommitStep ==
  ASSUME NEW s \in Sessions, IInv, Commit(s)
  PROVE  IInv'
<1> DEFINE v == User(s)
           bal == wallet[v].balance + Signed(s)
<1>1. /\ v \in Users
      /\ wallet[v] \in Wallet
      /\ Signed(s) \in Int
      /\ bal >= 0
      /\ lock[v] = s
  BY CommitEffect
<1>2. /\ bal \in Int
      /\ entries[v] \in Seq(Entry)
      /\ [amount |-> Signed(s), after |-> bal] \in Entry
      /\ [balance |-> bal, version |-> wallet[v].version + 1] \in Wallet
  BY <1>1 DEF Wallet, Entry, IInv, TypeOK
<1>3. /\ wallet' = [wallet EXCEPT ![v] = [balance |-> bal,
                                          version |-> wallet[v].version + 1]]
      /\ entries' = [entries EXCEPT ![v] =
                       Append(@, [amount |-> Signed(s), after |-> bal])]
      /\ Finish(s)
  BY CommitEffect DEF Commit
<1>4. TypeOK'
  BY MaxRetriesAssumption, <1>1, <1>2, <1>3 DEF IInv, TypeOK, Finish, Goto, Released, Labels
<1>5. SessionInv(s)'
  BY <1>3, <1>4, MaxRetriesAssumption DEF SessionInv, Finish, Goto, IInv, TypeOK
<1>6. ASSUME NEW t \in Sessions \ {s}
      PROVE  SessionInv(t)'
  <2>1. /\ SessionInv(t)
        /\ pc'[t] = pc[t]
        /\ request'[t] = request[t]
        /\ attempt'[t] = attempt[t]
        /\ seen'[t] = seen[t]
        /\ row'[t] = row[t]
        /\ draft'[t] = draft[t]
    BY <1>3 DEF IInv, TypeOK, Finish, Goto
  <2>2. CASE pc[t] = "idle"
    BY <2>1, <2>2 DEF SessionInv
  <2>3. CASE pc[t] # "idle" /\ User(t) # v
    <3>1. User(t) \in Users
      BY <2>1, <2>3 DEF SessionInv, User, Request
    <3>2. wallet'[User(t)] = wallet[User(t)]
      BY <1>3, <2>3, <3>1 DEF IInv, TypeOK
    <3>3. lock[User(t)] = t => lock'[User(t)] = t
      BY <1>3, <3>1 DEF Finish, Released
    <3> QED
      BY <2>1, <3>2, <3>3 DEF SessionInv, Remembers, Prepared, NextRow,
                              NextEntry, NewBalance, Signed, User
  <2>4. CASE pc[t] # "idle" /\ User(t) = v
    <3>1. ~ Prepared(t)
      BY <1>1, <2>4 DEF Prepared
    <3>2. /\ wallet'[v] \in Wallet
          /\ wallet'[v].version = wallet[v].version + 1
          /\ wallet[v].version \in Nat
      BY <1>1, <1>2, <1>3 DEF IInv, TypeOK, Wallet
    <3>3. ASSUME Remembers(t)
          PROVE  Remembers(t)'
      <4>1. User(t)' = v
        BY <2>1, <2>4 DEF User
      <4>2. seen[t].version \in Nat /\ seen[t].version <= wallet[v].version
        BY <2>4, <3>3 DEF Remembers, Wallet
      <4> QED
        BY <2>1, <3>2, <3>3, <4>1, <4>2 DEF Remembers
    <3> QED
      BY <2>1, <3>1, <3>3 DEF SessionInv, NewBalance, Signed
  <2> QED BY <2>2, <2>3, <2>4
<1>7. ASSUME NEW u \in Users
      PROVE  WalletInv(u)'
  <2>1. CASE u # v
    BY <1>3, <2>1 DEF IInv, TypeOK, WalletInv, After
  <2>2. CASE u = v
    <3> PICK e \in Entry : e = [amount |-> Signed(s), after |-> bal]
      BY <1>2
    <3> PICK n \in Nat : n = Len(entries[v])
      BY <1>2
    <3>1. entries'[u] = Append(entries[v], e)
      BY <1>1, <1>3, <2>2 DEF IInv, TypeOK
    <3>2. /\ Len(entries'[u]) = n + 1
          /\ entries'[u][n + 1] = e
          /\ \A i \in 1..n : entries'[u][i] = entries[v][i]
      BY <1>1, <3>1
    <3>3. wallet[v] # NoWallet
      BY <1>1, NoWalletAssumption DEF Wallet
    <3>4. /\ wallet[v].balance = After(v, n)
          /\ wallet[v].version = n
          /\ \A i \in 1..n : entries[v][i].after = After(v, i - 1) + entries[v][i].amount
      BY <3>3, <1>1 DEF IInv, WalletInv
    <3>5. /\ wallet'[u].balance = bal
          /\ wallet'[u].version = n + 1
      BY <1>1, <1>3, <2>2, <3>4 DEF IInv, TypeOK
    <3>6. \A i \in 0..n : After(u, i)' = After(v, i)
      BY <3>2 DEF After
    <3>7. After(u, n + 1)' = bal
      BY <3>2 DEF After
    <3>8. \A i \in 1..Len(entries'[u]) :
             entries'[u][i].after = After(u, i - 1)' + entries'[u][i].amount
      <4> TAKE i \in 1..Len(entries'[u])
      <4>1. CASE i = n + 1
        BY <4>1, <3>2, <3>4, <3>6
      <4>2. CASE i # n + 1
        <5>1. i \in 1..n /\ i - 1 \in 0..n
          BY <4>2, <3>2
        <5> QED
          BY <5>1, <3>2, <3>4, <3>6
      <4> QED BY <4>1, <4>2
    <3>9. entries'[u] # <<>> /\ wallet'[u] # NoWallet
      BY <3>2, <1>1, <1>3, <2>2, NoWalletAssumption DEF Wallet, IInv, TypeOK
    <3> QED
      BY <1>1, <3>2, <3>5, <3>7, <3>8, <3>9 DEF WalletInv
  <2> QED BY <2>1, <2>2
<1> QED BY <1>4, <1>5, <1>6, <1>7 DEF IInv

LEMMA EnsureGetStep ==
  ASSUME NEW s \in Sessions, NEW u \in Users, IInv, EnsureGet(s, u)
  PROVE  IInv'
<1>1. TypeOK'
  BY DEF IInv, TypeOK, EnsureGet, Goto, Labels, Request
<1>2. SessionInv(s)'
  BY DEF SessionInv, EnsureGet, Goto, IInv, TypeOK, Request
<1> QED
  BY <1>1, <1>2, QuietStep DEF EnsureGet, Goto, IInv, TypeOK

(* A new wallet disturbs nobody: whoever has read a wallet has read one    *)
(* that exists.                                                            *)
LEMMA EnsureCreateStep ==
  ASSUME NEW s \in Sessions, IInv, EnsureCreate(s)
  PROVE  IInv'
<1>1. CASE wallet[User(s)] # NoWallet
  BY <1>1, FinishStep DEF EnsureCreate, InsertWallet
<1>2. CASE wallet[User(s)] = NoWallet
  <2>1. User(s) \in Users
    BY SignedInt DEF IInv, SessionInv, EnsureCreate
  <2>2. /\ wallet' = [wallet EXCEPT ![User(s)] = [balance |-> 0, version |-> 0]]
        /\ Finish(s)
        /\ UNCHANGED entries
    BY <1>2 DEF EnsureCreate, InsertWallet
  <2>3. TypeOK'
    BY <2>1, <2>2, MaxRetriesAssumption DEF IInv, TypeOK, Finish, Goto, Released, Labels, Wallet
  <2>4. SessionInv(s)'
    BY <2>2, <2>3, MaxRetriesAssumption DEF SessionInv, Finish, Goto, IInv, TypeOK
  <2>5. ASSUME NEW t \in Sessions \ {s}
        PROVE  SessionInv(t)'
    <3>1. /\ SessionInv(t)
          /\ pc'[t] = pc[t]
          /\ request'[t] = request[t]
          /\ attempt'[t] = attempt[t]
          /\ seen'[t] = seen[t]
          /\ row'[t] = row[t]
          /\ draft'[t] = draft[t]
      BY <2>2 DEF IInv, TypeOK, Finish, Goto
    <3>2. CASE pc[t] = "idle"
      BY <3>1, <3>2 DEF SessionInv
    <3>3. CASE pc[t] # "idle" /\ User(t) # User(s)
      <4>1. User(t) \in Users
        BY <3>1, <3>3 DEF SessionInv, User, Request
      <4>2. wallet'[User(t)] = wallet[User(t)]
        BY <2>2, <3>3, <4>1 DEF IInv, TypeOK
      <4>3. lock[User(t)] = t => lock'[User(t)] = t
        BY <2>2, <4>1 DEF Finish, Released
      <4> QED
        BY <3>1, <4>2, <4>3 DEF SessionInv, Remembers, Prepared, NextRow,
                                NextEntry, NewBalance, Signed, User
    <3>4. CASE pc[t] # "idle" /\ User(t) = User(s)
      <4>1. ~ Remembers(t) /\ ~ Prepared(t)
        BY <1>2, <3>4, NoWalletAssumption DEF Remembers, Prepared, Wallet
      <4> QED
        BY <3>1, <4>1 DEF SessionInv
    <3> QED BY <3>2, <3>3, <3>4
  <2>6. ASSUME NEW u \in Users
        PROVE  WalletInv(u)'
    <3>1. entries[User(s)] = <<>>
      BY <1>2, <2>1 DEF IInv, WalletInv
    <3>2. CASE u = User(s)
      <4>1. /\ wallet'[u] = [balance |-> 0, version |-> 0]
            /\ entries'[u] = <<>>
            /\ [balance |-> 0, version |-> 0] # NoWallet
        BY <2>1, <2>2, <3>1, <3>2, NoWalletAssumption DEF IInv, TypeOK
      <4> QED
        BY <4>1 DEF WalletInv, After
    <3>3. CASE u # User(s)
      BY <2>2, <3>3 DEF IInv, TypeOK, WalletInv, After
    <3> QED BY <3>2, <3>3
  <2> QED BY <2>3, <2>4, <2>5, <2>6 DEF IInv
<1> QED BY <1>1, <1>2

LEMMA NextInv == IInv /\ [Next]_vars => IInv'
<1> SUFFICES ASSUME IInv, [Next]_vars PROVE IInv'
  OBVIOUS
<1>1. CASE UNCHANGED vars
  <2>1. \A s \in Sessions : SessionInv(s)'
    BY <1>1 DEF vars, IInv, SessionInv, Remembers, Prepared, NextRow,
                NextEntry, NewBalance, Signed, User
  <2> QED
    BY <1>1, <2>1, WalletsKept DEF vars, IInv, TypeOK
<1>2. ASSUME NEW s \in Sessions, NEW c \in Calls, NEW u \in Users,
             NEW a \in Amounts, Begin(s, c, u, a)
      PROVE  IInv'
  BY <1>2, BeginStep
<1>3. ASSUME NEW s \in Sessions, NEW u \in Users, EnsureGet(s, u)
      PROVE  IInv'
  BY <1>3, EnsureGetStep
<1>4. ASSUME NEW s \in Sessions, NEW u \in Users, EnsureFound(s, u)
      PROVE  IInv'
  BY <1>1, <1>4 DEF EnsureFound
<1>5. ASSUME NEW s \in Sessions, Step(s)
      PROVE  IInv'
  <2>1. CASE Rollback(s)
    BY <2>1, FinishStep DEF Rollback
  <2> QED
    BY <1>5, <2>1, GetWalletStep, CASHitStep, CASMissStep, LockWalletStep,
       UpdateLockedStep, CreateEntryStep, CommitStep, EnsureCreateStep DEF Step
<1>6. ASSUME NEW s \in Sessions, Fault(s)
      PROVE  IInv'
  BY <1>6, FinishStep DEF Fault
<1> QED
  BY <1>1, <1>2, <1>3, <1>4, <1>5, <1>6 DEF Next

(* The inductive invariant holds of every behaviour.                       *)
THEOREM LedgerInvariant == Spec => []IInv
  BY InitInv, NextInv, PTL DEF Spec

(* Every variable of the ledger stays in its domain.                       *)
THEOREM LedgerTypes == Spec => []TypeOK
<1>1. IInv => TypeOK
  BY DEF IInv
<1> QED BY <1>1, LedgerInvariant, PTL

(* For any number of concurrent debits no wallet is overdrawn.             *)
THEOREM NeverOverdrawn == Spec => []NoOverdraft
<1>1. IInv => NoOverdraft
  BY DEF IInv, WalletInv, NoOverdraft
<1> QED BY <1>1, LedgerInvariant, PTL

(* The entries of a wallet follow on from each other, without a gap, from  *)
(* zero: none is lost or posted on an outdated balance.                    *)
THEOREM EntriesChain == Spec => []JournalChained
<1>1. IInv => JournalChained
  BY DEF IInv, WalletInv, JournalChained
<1> QED BY <1>1, LedgerInvariant, PTL

(* Balance and journal agree in every state: a wallet holds what its last  *)
(* entry left.                                                             *)
THEOREM BalanceIsJournal == Spec => []WalletIsLastEntry
<1>1. IInv => WalletIsLastEntry
  BY DEF IInv, WalletInv, WalletIsLastEntry
<1> QED BY <1>1, LedgerInvariant, PTL

(* The version of a wallet is the number of its entries.                   *)
THEOREM VersionIsLength == Spec => []VersionCountsEntries
<1>1. IInv => VersionCountsEntries
  BY DEF IInv, WalletInv, VersionCountsEntries
<1> QED BY <1>1, LedgerInvariant, PTL

-----------------------------------------------------------------------------
(* A step leaves every wallet and its entries alone, creates one wallet, or *)
(* commits one posting.                                                    *)
LEMMA StepEffect ==
  ASSUME IInv, [Next]_vars
  PROVE  \/ UNCHANGED <<wallet, entries>>
         \/ \E s \in Sessions : Commit(s)
         \/ \E u \in Users :
              /\ wallet' = [wallet EXCEPT ![u] = [balance |-> 0, version |-> 0]]
              /\ wallet[u] = NoWallet
              /\ UNCHANGED entries
<1>1. ASSUME NEW s \in Sessions, EnsureCreate(s)
      PROVE  \/ UNCHANGED <<wallet, entries>>
             \/ \E u \in Users :
                  /\ wallet' = [wallet EXCEPT ![u] = [balance |-> 0, version |-> 0]]
                  /\ wallet[u] = NoWallet
                  /\ UNCHANGED entries
  <2>1. User(s) \in Users
    BY <1>1, SignedInt DEF IInv, SessionInv, EnsureCreate
  <2> QED
    BY <1>1, <2>1 DEF EnsureCreate, InsertWallet
<1> QED
  BY <1>1 DEF Next, Step, vars, Begin, EnsureFound, EnsureGet, GetWalletWithTx,
     CASHit, CASMiss, LockWallet, UpdateLocked, CreateEntry, Rollback, Fault

-----------------------------------------------------------------------------
LEMMA InitMaps == Init => Abstract!Init
<1> SUFFICES ASSUME Init PROVE Abstract!Init
  OBVIOUS
<1>1. OpenUsers = {} /\ Balances = [u \in Users |-> 0]
  BY DEF Init, OpenUsers, Balances
<1> QED
  BY <1>1 DEF Init, Abstract!Init, OpenUsers, Balances

LEMMA CommitMaps ==
  ASSUME NEW s \in Sessions, IInv, Commit(s)
  PROVE  \E a \in SignedAmounts : Abstract!Post(User(s), a)
<1> DEFINE v == User(s)
<1>1. Signed(s) \in SignedAmounts
  BY AmountsAssumption DEF IInv, SessionInv, Commit, Signed, SignedAmounts, Positive
<1>2. /\ v \in Users
      /\ wallet[v] \in Wallet
      /\ Signed(s) \in Int
      /\ wallet[v].balance + Signed(s) >= 0
      /\ wallet \in [Users -> Wallet \cup {NoWallet}]
  BY CommitEffect DEF IInv, TypeOK
<1>3. /\ wallet' = [wallet EXCEPT ![v] = [balance |-> wallet[v].balance + Signed(s),
                                          version |-> wallet[v].version + 1]]
      /\ entries' = [entries EXCEPT ![v] =
           Append(@, [amount |-> Signed(s), after |-> wallet[v].balance + Signed(s)])]
  BY CommitEffect
<1>4. wallet[v] # NoWallet /\ wallet'[v] # NoWallet
  <2>1. wallet'[v] \in [balance : Int, version : Nat]
    BY <1>2, <1>3 DEF Wallet
  <2> QED BY <1>2, <2>1, NoWalletAssumption DEF Wallet
<1>5. v \in OpenUsers /\ Balances[v] = wallet[v].balance
  BY <1>2, <1>4 DEF OpenUsers, Balances
<1>6. OpenUsers' = OpenUsers
  BY <1>2, <1>3, <1>4 DEF OpenUsers
<1>7. Balances' = [Balances EXCEPT ![v] = @ + Signed(s)]
  <2>1. ASSUME NEW u \in Users
        PROVE  Balances'[u] = [Balances EXCEPT ![v] = @ + Signed(s)][u]
    BY <1>2, <1>3, <1>4 DEF Balances
  <2> QED BY <2>1 DEF Balances
<1>8. entries' = [entries EXCEPT ![v] =
        Append(@, [amount |-> Signed(s), after |-> Balances[v] + Signed(s)])]
  BY <1>3, <1>5
<1>9. Abstract!Post(v, Signed(s))
  <2> DEFINE bal == Balances
             opn == OpenUsers
  <2>1. /\ v \in opn
        /\ bal[v] + Signed(s) >= 0
        /\ bal' = [bal EXCEPT ![v] = @ + Signed(s)]
        /\ entries' = [entries EXCEPT ![v] =
              Append(@, [amount |-> Signed(s), after |-> bal[v] + Signed(s)])]
        /\ opn' = opn
    BY <1>2, <1>5, <1>6, <1>7, <1>8
  <2> QED
    BY <2>1, Zenon DEF Abstract!Post, OpenUsers, Balances
<1> QED
  BY <1>1, <1>9, Zenon DEF Abstract!Post

LEMMA CreateMaps ==
  ASSUME NEW u \in Users, IInv,
         wallet' = [wallet EXCEPT ![u] = [balance |-> 0, version |-> 0]],
         wallet[u] = NoWallet,
         UNCHANGED entries
  PROVE  Abstract!Open(u)
<1>1. wallet \in [Users -> Wallet \cup {NoWallet}]
  BY DEF IInv, TypeOK
<1>2. wallet'[u] # NoWallet
  <2>1. wallet'[u] \in [balance : Int, version : Nat]
    BY <1>1
  <2> QED BY <2>1, NoWalletAssumption
<1>3. OpenUsers' = OpenUsers \cup {u}
  BY <1>1, <1>2 DEF OpenUsers
<1>4. Balances' = Balances
  <2>1. ASSUME NEW w \in Users
        PROVE  Balances'[w] = Balances[w]
    BY <1>1, <1>2 DEF Balances
  <2> QED BY <2>1 DEF Balances
<1> QED
  BY <1>3, <1>4 DEF Abstract!Open, OpenUsers, Balances

(* The concurrent ledger with its retries, locks and crashes is an Account: *)
(* every posting takes effect at its commit, and no other step shows.      *)
THEOREM LedgerImplementsAccount == Spec => ImplementsAccount
<1>1. ASSUME IInv, [Next]_vars
      PROVE  [Abstract!Next]_(Abstract!vars)
  <2>1. CASE UNCHANGED <<wallet, entries>>
    BY <2>1 DEF Abstract!vars, OpenUsers, Balances
  <2>2. ASSUME NEW s \in Sessions, Commit(s)
        PROVE  Abstract!Next
    <3>1. User(s) \in Users
      BY <1>1, <2>2, CommitEffect
    <3> QED
      BY <1>1, <2>2, <3>1, CommitMaps DEF Abstract!Next, SignedAmounts
  <2>3. ASSUME NEW u \in Users,
               wallet' = [wallet EXCEPT ![u] = [balance |-> 0, version |-> 0]],
               wallet[u] = NoWallet,
               UNCHANGED entries
        PROVE  Abstract!Next
    BY <1>1, <2>3, CreateMaps DEF Abstract!Next
  <2> QED
    BY <1>1, <2>1, <2>2, <2>3, StepEffect
<1> QED
  BY <1>1, InitMaps, LedgerInvariant, PTL DEF Spec, ImplementsAccount, Abstract!Spec
-----------------------------------------------------------------------------
(* Who holds a row lock is at work, on that row.                           *)
LockInv ==
  \A u \in Users, s \in Sessions : lock[u] = s =>
    /\ pc[s] \notin {"idle", "create"}
    /\ User(s) = u

(* The most steps the call of session s can still take.                    *)
StepsLeft(s) ==
  CASE pc[s] = "idle" -> 0
    [] pc[s] \in {"abort", "create"} -> 1
    [] pc[s] = "commit" -> 2
    [] pc[s] = "entry" -> 3
    [] pc[s] = "write" -> 4
    [] pc[s] = "lock" -> 5
    [] pc[s] = "cas" -> 5 + 2 * (MaxRetries - attempt[s])
    [] pc[s] = "read" -> 6 + 2 * (MaxRetries - attempt[s])

(* A session that is in a call either makes a step towards its end or is    *)
(* left exactly where it was by a step of another.                         *)
Approaches(s) ==
  pc[s] # "idle" =>
    \/ StepsLeft(s)' < StepsLeft(s)
    \/ UNCHANGED <<pc[s], request[s], attempt[s], seen[s], row[s], draft[s]>>

(* A wallet, once there, is never removed or reset, and its version only   *)
(* grows: a version that is still the same is still the same wallet.       *)
VersionsNameStates ==
  [][\A u \in Users : wallet[u] # NoWallet =>
       /\ wallet'[u] # NoWallet
       /\ wallet'[u].version \in {wallet[u].version, wallet[u].version + 1}
       /\ wallet'[u].version = wallet[u].version => wallet'[u] = wallet[u]]_wallet

(* Steps of session s that take no lock, or the lock of its own row, keep  *)
(* every lock with a session at work on the row.                           *)
LEMMA WorkKeepsLocks ==
  ASSUME NEW s \in Sessions, IInv, LockInv,
         pc'[s] \notin {"idle", "create"},
         request'[s] = request[s],
         \A t \in Sessions \ {s} : pc'[t] = pc[t] /\ request'[t] = request[t],
         \/ UNCHANGED lock
         \/ lock' = [lock EXCEPT ![User(s)] = s]
  PROVE  LockInv'
<1> SUFFICES ASSUME NEW u \in Users, NEW t \in Sessions, lock'[u] = t
             PROVE  /\ pc'[t] \notin {"idle", "create"}
                    /\ User(t)' = u
  BY DEF LockInv
<1>1. lock \in [Users -> Sessions \cup {NoSession}]
  BY DEF IInv, TypeOK
<1>2. CASE lock'[u] = lock[u]
  BY <1>2 DEF LockInv, User
<1>3. CASE lock'[u] # lock[u]
  BY <1>1, <1>3 DEF User
<1> QED BY <1>2, <1>3

(* An idle session holds no lock, so a call begins without one.            *)
LEMMA CallKeepsLocks ==
  ASSUME NEW s \in Sessions, IInv, LockInv, pc[s] = "idle", UNCHANGED lock,
         \A t \in Sessions \ {s} : pc'[t] = pc[t] /\ request'[t] = request[t]
  PROVE  LockInv'
<1> SUFFICES ASSUME NEW u \in Users, NEW t \in Sessions, lock'[u] = t
             PROVE  /\ pc'[t] \notin {"idle", "create"}
                    /\ User(t)' = u
  BY DEF LockInv
<1>1. lock[u] = t /\ t # s
  BY DEF LockInv
<1> QED BY <1>1 DEF LockInv, User

LEMMA FinishFreesLocks ==
  ASSUME NEW s \in Sessions, IInv, LockInv, Finish(s)
  PROVE  LockInv'
<1> SUFFICES ASSUME NEW u \in Users, NEW t \in Sessions, lock'[u] = t
             PROVE  /\ pc'[t] \notin {"idle", "create"}
                    /\ User(t)' = u
  BY DEF LockInv
<1>1. lock[u] = t /\ t # s
  BY NoSessionAssumption DEF IInv, TypeOK, Finish, Released
<1> QED BY <1>1 DEF LockInv, User, Finish, Goto, IInv, TypeOK

LEMMA LocksKept == IInv /\ LockInv /\ [Next]_vars => LockInv'
<1> SUFFICES ASSUME IInv, LockInv, [Next]_vars PROVE LockInv'
  OBVIOUS
<1>1. CASE UNCHANGED vars
  BY <1>1 DEF vars, LockInv, User
<1>2. ASSUME NEW s \in Sessions, NEW c \in Calls, NEW u \in Users,
             NEW a \in Amounts, Begin(s, c, u, a)
      PROVE  LockInv'
  BY <1>2, CallKeepsLocks DEF Begin, Goto, IInv, TypeOK
<1>3. ASSUME NEW s \in Sessions, NEW u \in Users,
             EnsureFound(s, u) \/ EnsureGet(s, u)
      PROVE  LockInv'
  BY <1>1, <1>3, CallKeepsLocks DEF EnsureFound, EnsureGet, Goto, IInv, TypeOK
<1>4. ASSUME NEW s \in Sessions, GetWalletWithTx(s)
      PROVE  LockInv'
  BY <1>4, WorkKeepsLocks DEF GetWalletWithTx, Goto, IInv, TypeOK
<1>5. ASSUME NEW s \in Sessions, CASHit(s)
      PROVE  LockInv'
  BY <1>5, WorkKeepsLocks DEF CASHit, Goto, IInv, TypeOK
<1>6. ASSUME NEW s \in Sessions, CASMiss(s)
      PROVE  LockInv'
  BY <1>6, WorkKeepsLocks DEF CASMiss, NextRound, Goto, IInv, TypeOK
<1>7. ASSUME NEW s \in Sessions, LockWallet(s)
      PROVE  LockInv'
  BY <1>7, WorkKeepsLocks DEF LockWallet, Goto, IInv, TypeOK
<1>8. ASSUME NEW s \in Sessions, UpdateLocked(s) \/ CreateEntry(s)
      PROVE  LockInv'
  BY <1>8, WorkKeepsLocks DEF UpdateLocked, CreateEntry, Goto, IInv, TypeOK
<1>9. ASSUME NEW s \in Sessions,
             Commit(s) \/ Rollback(s) \/ Fault(s) \/ EnsureCreate(s)
      PROVE  LockInv'
  BY <1>9, FinishFreesLocks DEF Commit, Rollback, Fault, EnsureCreate
<1> QED
  BY <1>1, <1>2, <1>3, <1>4, <1>5, <1>6, <1>7, <1>8, <1>9 DEF Next, Step

(* Row locks never deadlock and are never left behind: a session that      *)
(* waits, in the versioned update or in the fallback's FOR UPDATE, waits   *)
(* for a session at work on the same wallet that waits for nobody.  This   *)
(* rests on each transaction making one ledger call.                       *)
THEOREM NoLockCycle == Spec => []WaitsForWorker
<1>1. Init => LockInv
  BY NoSessionAssumption DEF Init, LockInv
<1>2. IInv /\ LockInv => WaitsForWorker
  <2> SUFFICES ASSUME IInv, LockInv, NEW s \in Sessions, Waits(s)
               PROVE  /\ lock[User(s)] \in Sessions \ {s}
                      /\ pc[lock[User(s)]] \notin {"idle", "create"}
                      /\ User(lock[User(s)]) = User(s)
                      /\ ~ Waits(lock[User(s)])
    BY DEF WaitsForWorker
  <2>1. User(s) \in Users
    BY SignedInt DEF IInv, SessionInv, Waits
  <2>2. lock[User(s)] \in Sessions \ {s} /\ lock[User(s)] # NoSession
    BY <2>1, NoSessionAssumption DEF Waits, RowFree, IInv, TypeOK
  <2> QED
    BY <2>1, <2>2 DEF LockInv, Waits, RowFree
<1> QED
  BY <1>1, <1>2, LocksKept, LedgerInvariant, PTL DEF Spec

-----------------------------------------------------------------------------
LEMMA StepsBounded ==
  ASSUME NEW s \in Sessions, IInv
  PROVE  /\ StepsLeft(s) \in 0..(2 * MaxRetries + 6)
         /\ StepsLeft(s) = 0 => pc[s] = "idle"
<1>1. pc[s] \in Labels /\ attempt[s] \in 0..MaxRetries /\ MaxRetries \in Nat
  BY MaxRetriesAssumption DEF IInv, TypeOK
<1>2. ASSUME NEW n \in 0..MaxRetries
      PROVE  5 + 2 * n \in 1..(2 * MaxRetries + 6) /\ 6 + 2 * n \in 1..(2 * MaxRetries + 6)
  BY <1>1, <1>2
<1>3. MaxRetries - attempt[s] \in 0..MaxRetries
  BY <1>1
<1>4. CASE pc[s] = "cas"
  <2>1. StepsLeft(s) = 5 + 2 * (MaxRetries - attempt[s])
    BY <1>4 DEF StepsLeft
  <2> QED BY <1>2, <1>3, <1>4, <2>1
<1>5. CASE pc[s] = "read"
  <2>1. StepsLeft(s) = 6 + 2 * (MaxRetries - attempt[s])
    BY <1>5 DEF StepsLeft
  <2> QED BY <1>2, <1>3, <1>5, <2>1
<1>6. CASE pc[s] \notin {"idle", "cas", "read"}
  <2>1. StepsLeft(s) \in 1..5
    BY <1>1, <1>6 DEF StepsLeft, Labels
  <2> QED BY <1>1, <1>6, <2>1
<1>7. CASE pc[s] = "idle"
  BY <1>1, <1>7 DEF StepsLeft
<1> QED BY <1>4, <1>5, <1>6, <1>7

(* The session that moves comes closer to the end of its call.             *)
LEMMA MoveApproaches ==
  ASSUME NEW s \in Sessions, IInv, Step(s) \/ Fault(s)
  PROVE  StepsLeft(s)' < StepsLeft(s)
<1>1. /\ pc[s] \in Labels
      /\ attempt[s] \in 0..MaxRetries
      /\ MaxRetries \in Nat
      /\ pc[s] \in {"idle", "read", "cas"} => attempt[s] < MaxRetries
      /\ pc \in [Sessions -> Labels]
      /\ attempt \in [Sessions -> 0..MaxRetries]
  BY MaxRetriesAssumption DEF IInv, TypeOK, SessionInv
<1>2. CASE GetWalletWithTx(s)
  BY <1>1, <1>2 DEF GetWalletWithTx, Goto, StepsLeft
<1>3. CASE CASHit(s)
  BY <1>1, <1>3 DEF CASHit, Goto, StepsLeft
<1>4. CASE CASMiss(s)
  <2>1. attempt'[s] = attempt[s] + 1
    BY <1>1, <1>4 DEF CASMiss
  <2>2. \/ pc'[s] = "read" /\ attempt[s] + 1 < MaxRetries
        \/ pc'[s] = "lock"
        \/ pc'[s] = "abort"
    BY <1>1, <1>4 DEF CASMiss, Goto, NextRound
  <2> QED
    BY <1>1, <1>4, <2>1, <2>2 DEF CASMiss, StepsLeft
<1>5. CASE LockWallet(s)
  BY <1>1, <1>5 DEF LockWallet, Goto, StepsLeft
<1>6. CASE UpdateLocked(s) \/ CreateEntry(s)
  BY <1>1, <1>6 DEF UpdateLocked, CreateEntry, Goto, StepsLeft
<1>7. CASE Commit(s) \/ Rollback(s) \/ EnsureCreate(s) \/ Fault(s)
  <2>1. pc'[s] = "idle" /\ pc[s] \in Labels \ {"idle"}
    BY <1>1, <1>7 DEF Commit, Rollback, EnsureCreate, Fault, Finish, Goto
  <2>2. StepsLeft(s)' = 0
    BY <2>1 DEF StepsLeft
  <2>3. StepsLeft(s) \in Nat \ {0}
    <3>1. StepsLeft(s) \in 0..(2 * MaxRetries + 6) /\ StepsLeft(s) # 0
      BY <2>1, StepsBounded
    <3> QED BY <1>1, <3>1
  <2> QED BY <2>2, <2>3
<1> QED
  BY <1>2, <1>3, <1>4, <1>5, <1>6, <1>7 DEF Step

(* No call of the ledger loops: whatever the others do, each of its own    *)
(* steps uses up one of the 2 * MaxRetries + 6 a call has, and no other    *)
(* session moves it back.  With NoLockCycle this is the safety part of     *)
(* CallsReturn.                                                            *)
THEOREM CallsNeverLoop ==
  Spec => [][\A s \in Sessions :
               Approaches(s) /\ StepsLeft(s) \in 0..(2 * MaxRetries + 6)]_vars
<1>1. IInv => \A s \in Sessions : StepsLeft(s) \in 0..(2 * MaxRetries + 6)
  BY StepsBounded
<1>2. ASSUME IInv, Next, NEW s \in Sessions
      PROVE  Approaches(s)
  <2> SUFFICES ASSUME pc[s] # "idle"
               PROVE  \/ StepsLeft(s)' < StepsLeft(s)
                      \/ UNCHANGED <<pc[s], request[s], attempt[s],
                                     seen[s], row[s], draft[s]>>
    BY DEF Approaches
  <2>1. ASSUME NEW t \in Sessions, Step(t) \/ Fault(t)
        PROVE  \/ StepsLeft(s)' < StepsLeft(s)
               \/ UNCHANGED <<pc[s], request[s], attempt[s],
                              seen[s], row[s], draft[s]>>
    <3>1. CASE t = s
      BY <1>2, <2>1, <3>1, MoveApproaches
    <3>2. CASE t # s
      BY <1>2, <2>1, <3>2 DEF Step, Fault, GetWalletWithTx, CASHit, CASMiss,
         LockWallet, UpdateLocked, CreateEntry, Commit, Rollback, EnsureCreate,
         Finish, Goto, IInv, TypeOK
    <3> QED BY <3>1, <3>2
  <2>2. ASSUME NEW t \in Sessions, NEW c \in Calls, NEW u \in Users,
               NEW a \in Amounts, Begin(t, c, u, a)
        PROVE  UNCHANGED <<pc[s], request[s], attempt[s], seen[s], row[s], draft[s]>>
    BY <1>2, <2>2 DEF Begin, Goto, IInv, TypeOK
  <2>3. ASSUME NEW t \in Sessions, NEW u \in Users,
               EnsureFound(t, u) \/ EnsureGet(t, u)
        PROVE  UNCHANGED <<pc[s], request[s], attempt[s], seen[s], row[s], draft[s]>>
    BY <1>2, <2>3 DEF EnsureFound, EnsureGet, Goto, IInv, TypeOK, vars
  <2> QED
    BY <1>2, <2>1, <2>2, <2>3 DEF Next
<1>3. IInv /\ [Next]_vars =>
        [\A s \in Sessions :
           Approaches(s) /\ StepsLeft(s) \in 0..(2 * MaxRetries + 6)]_vars
  BY <1>1, <1>2
<1> QED
  BY <1>3, LedgerInvariant, PTL DEF Spec

(* The versions of a wallet name its states one by one: the compare-and-   *)
(* swap on the version cannot succeed on a wallet that was changed and     *)
(* changed back, and a second EnsureWallet never resets the first's.       *)
THEOREM VersionsNeverReused == Spec => VersionsNameStates
<1>1. ASSUME IInv, [Next]_vars, NEW u \in Users, wallet[u] # NoWallet
      PROVE  /\ wallet'[u] # NoWallet
             /\ wallet'[u].version \in {wallet[u].version, wallet[u].version + 1}
             /\ wallet'[u].version = wallet[u].version => wallet'[u] = wallet[u]
  <2>1. wallet \in [Users -> Wallet \cup {NoWallet}]
    BY <1>1 DEF IInv, TypeOK
  <2>2. wallet[u].version \in Nat /\ wallet[u].version + 1 # wallet[u].version
    BY <1>1, <2>1 DEF Wallet
  <2>3. CASE wallet'[u] = wallet[u]
    BY <1>1, <2>3
  <2>4. ASSUME NEW s \in Sessions, Commit(s), User(s) = u
        PROVE  /\ wallet'[u] # NoWallet
               /\ wallet'[u].version = wallet[u].version + 1
    <3>1. /\ wallet' = [wallet EXCEPT ![u] =
                           [balance |-> wallet[u].balance + Signed(s),
                            version |-> wallet[u].version + 1]]
          /\ wallet[u] \in Wallet
          /\ Signed(s) \in Int
      BY <1>1, <2>4, CommitEffect
    <3>2. wallet'[u] \in [balance : Int, version : Nat] /\ wallet'[u].version = wallet[u].version + 1
      BY <2>1, <2>2, <3>1 DEF Wallet
    <3> QED
      BY <3>1, <3>2, NoWalletAssumption
  <2>5. ASSUME NEW s \in Sessions, Commit(s), User(s) # u
        PROVE  wallet'[u] = wallet[u]
    BY <2>1, <2>5 DEF Commit
  <2>6. ASSUME NEW v \in Users, wallet[v] = NoWallet,
               wallet' = [wallet EXCEPT ![v] = [balance |-> 0, version |-> 0]]
        PROVE  wallet'[u] = wallet[u]
    BY <1>1, <2>1, <2>6
  <2> QED
    BY <1>1, <2>2, <2>3, <2>4, <2>5, <2>6, StepEffect
<1>2. IInv /\ [Next]_vars =>
        [\A u \in Users : wallet[u] # NoWallet =>
           /\ wallet'[u] # NoWallet
           /\ wallet'[u].version \in {wallet[u].version, wallet[u].version + 1}
           /\ wallet'[u].version = wallet[u].version => wallet'[u] = wallet[u]]_wallet
  BY <1>1
<1> QED
  BY <1>2, LedgerInvariant, PTL DEF Spec, VersionsNameStates
=============================================================================
