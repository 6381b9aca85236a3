------------------------------ MODULE Recharge ------------------------------
(***************************************************************************)
(* Recharge applications (internal/module/recharge): Apply, Approve and    *)
(* Reject, composed with the orders that are paid from the same wallets    *)
(* (OrderRefund).  Steps are cut as there: plain reads apart, the locking  *)
(* statements of a transaction with its commit; but Approve updates its    *)
(* application first, so that row stays locked while the wallet is read.   *)
(***************************************************************************)
EXTENDS OrderRefund

CONSTANTS Reviewers,    \* request handlers of recharges
          RechargeKeys, \* idempotency keys, NoKey among them
          NoKey,        \* the empty key
          Amounts       \* amounts applied for

ASSUME RechargeAssumption ==
  /\ NoKey \in RechargeKeys
  /\ Amounts \subseteq Int
  /\ None \notin RechargeKeys

VARIABLES recharges, \* recharges[r]: the committed recharge_orders row, or None
          at,        \* at[h]: where a handler is
          call,      \* call[h]: the application it serves
          seenRow,   \* seenRow[h]: the row it has read
          seenPurse  \* seenPurse[h]: the wallet its Credit has read

review == <<at, call, seenRow, seenPurse>>
allVars == <<vars, recharges, review>>

Application == [user : Customers, amount : Nat \ {0}, key : RechargeKeys,
                status : {"Pending", "Rejected", "Completed"}, version : Nat]
ASSUME NoApplicationAssumption == None \notin Application
NoCall == [id |-> None, user |-> None, amount |-> 0, key |-> NoKey]

RInit ==
  /\ Init
  /\ recharges = [r \in Recharges |-> None]
  /\ at = [h \in Reviewers |-> "idle"]
  /\ call = [h \in Reviewers |-> NoCall]
  /\ seenRow = [h \in Reviewers |-> None]
  /\ seenPurse = [h \in Reviewers |-> None]

At(h, label) == at' = [at EXCEPT ![h] = label]
Leave(h) ==
  /\ At(h, "idle")
  /\ call' = [call EXCEPT ![h] = NoCall]
  /\ seenRow' = [seenRow EXCEPT ![h] = None]
  /\ seenPurse' = [seenPurse EXCEPT ![h] = None]

(* Apply: a key that is there answers with its row; the empty key is not   *)
(* looked up ...                                                           *)
KeyUsed(k) == \E r \in Recharges : recharges[r] # None /\ recharges[r].key = k
Apply(h, c, k, a) ==
  /\ at[h] = "idle"
  /\ \E r \in Recharges : recharges[r] = None
  /\ k = NoKey \/ ~KeyUsed(k)
  /\ a > 0
  /\ At(h, "insert")
  /\ call' = [call EXCEPT ![h] = [id |-> None, user |-> c, amount |-> a, key |-> k]]
  /\ UNCHANGED <<vars, recharges, seenRow, seenPurse>>

(* ... but the unique index has it like any other, and decides the race.   *)
Insert(h, r) ==
  /\ at[h] = "insert"
  /\ recharges[r] = None
  /\ IF KeyUsed(call[h].key) THEN UNCHANGED recharges
     ELSE recharges' = [recharges EXCEPT ![r] =
            [user |-> call[h].user, amount |-> call[h].amount, key |-> call[h].key,
             status |-> "Pending", version |-> 0]]
  /\ Leave(h)
  /\ UNCHANGED vars

(* Approve and Reject read the row and check that it is pending.           *)
GetPending(h, r, verdict) ==
  /\ at[h] = "idle"
  /\ recharges[r] # None
  /\ recharges[r].status = "Pending"
  /\ At(h, verdict)
  /\ call' = [call EXCEPT ![h].id = r]
  /\ seenRow' = [seenRow EXCEPT ![h] = recharges[r]]
  /\ UNCHANGED <<vars, recharges, seenPurse>>

(* Nobody between the update of the row and the end of that transaction.   *)
RowFree(r) == \A h \in Reviewers : ~(at[h] = "credit" /\ call[h].id = r)

(* The WHERE clause of UpdateStatusCAS.                                    *)
ById(h) == TRUE
Unreviewed(h) ==
  /\ recharges[call[h].id].status = "Pending"
  /\ recharges[call[h].id].version = seenRow[h].version

Reviewed(h, status) ==
  recharges' = [recharges EXCEPT ![call[h].id].status = status,
                                 ![call[h].id].version = @ + 1]

(* Approve: the update, not committed yet, and Credit's read of the wallet *)
Approving(h) ==
  /\ at[h] = "approve"
  /\ RowFree(call[h].id)
  /\ IF Unreviewed(h)
     THEN /\ At(h, "credit")
          /\ seenPurse' = [seenPurse EXCEPT ![h] = wallet[seenRow[h].user]]
          /\ UNCHANGED <<call, seenRow>>
     ELSE Leave(h)
  /\ UNCHANGED <<vars, recharges>>

(* ... then its versioned update and its entry, and the commit; a wallet   *)
(* that has moved rolls the review back.                                   *)
WalletUnmoved(h) == wallet[seenRow[h].user].version = seenPurse[h].version
CreditRecharge(h) ==
  /\ at[h] = "credit"
  /\ IF WalletUnmoved(h)
     THEN /\ Post(seenRow[h].user, seenRow[h].amount, "recharge", call[h].id)
          /\ Reviewed(h, "Completed")
     ELSE UNCHANGED <<wallet, entries, recharges>>
  /\ Leave(h)
  /\ UNCHANGED <<orders, refunds, audit, local>>

RejectRecharge(h) ==
  /\ at[h] = "reject"
  /\ RowFree(call[h].id)
  /\ IF Unreviewed(h) THEN Reviewed(h, "Rejected") ELSE UNCHANGED recharges
  /\ Leave(h)
  /\ UNCHANGED vars

(* A statement fails or the process dies.                                  *)
FailReview(h) ==
  /\ at[h] # "idle"
  /\ Leave(h)
  /\ UNCHANGED <<vars, recharges>>

Review(h) ==
  \/ \E c \in Customers, k \in RechargeKeys, a \in Amounts : Apply(h, c, k, a)
  \/ \E r \in Recharges : Insert(h, r)
  \/ \E r \in Recharges, verdict \in {"approve", "reject"} : GetPending(h, r, verdict)
  \/ Approving(h) \/ CreditRecharge(h) \/ RejectRecharge(h) \/ FailReview(h)

RNext ==
  \/ Next /\ UNCHANGED <<recharges, review>>
  \/ \E h \in Reviewers : Review(h)

RSpec == RInit /\ [][RNext]_allVars
-----------------------------------------------------------------------------
Stations == {"idle", "insert", "approve", "credit", "reject"}
Served == [id : Recharges \cup {None}, user : Customers \cup {None}, amount : Int,
           key : RechargeKeys]

(* Every variable stays in its domain.                                     *)
RechargeTypeOK ==
  /\ recharges \in [Recharges -> Application \cup {None}]
  /\ at \in [Reviewers -> Stations]
  /\ call \in [Reviewers -> Served]
  /\ seenRow \in [Reviewers -> Application \cup {None}]
  /\ seenPurse \in [Reviewers -> Wallet \cup {None}]

RechargeEntries(r) == {e \in entries : e.type = "recharge" /\ e.related = r}

(* However many administrators review an application, and whatever is paid *)
(* from the wallet meanwhile, its user gets the amount once if it has been *)
(* completed and never otherwise; a failed review leaves no trace.         *)
RechargedOnce ==
  \A r \in Recharges :
    IF recharges[r] # None /\ recharges[r].status = "Completed"
    THEN \E e \in entries : /\ RechargeEntries(r) = {e}
                            /\ e.amount = recharges[r].amount
                            /\ e.customer = recharges[r].user
    ELSE RechargeEntries(r) = {}
=============================================================================
