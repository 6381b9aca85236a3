---------------------------- MODULE OrderRefund ----------------------------
(***************************************************************************)
(* Orders, refund applications and the customers' wallets together:        *)
(* order.CreateOrder and TransitionStatus (internal/module/order), refund   *)
(* Apply, Approve and Reject (internal/module/refund), with the ledger's   *)
(* Debit and Credit inside their transactions.                             *)
(*                                                                         *)
(* A session is one request handler.  Between two of its steps any other   *)
(* session may run, and the process may die (Fail).  A transaction's       *)
(* first plain read is a step of its own (its result is stale from then    *)
(* on); its locking statements and its commit are one step, because once a  *)
(* row is updated no other transaction can touch it before the commit.     *)
(* Module Ledger has the same wallet operations statement by statement.    *)
(*                                                                         *)
(* Webhook notification after a transition is left out (NotifyURL).        *)
(***************************************************************************)
EXTENDS Integers, FiniteSets

CONSTANTS Sessions,     \* request handlers
          Customers,    \* customers, each with a wallet
          Orders,       \* identities of order rows
          Refunds,      \* identities of refund_orders rows
          Recharges,    \* identities of recharge_orders rows
          Keys,         \* (app, customer_order_id) pairs with a non-empty id
          Prices,       \* order totals, UnitPrice * BuyNumber
          RefundSums,   \* amounts applied for
          StartBalance, \* the wallets' opening balance
          MaxVersion,   \* bound: no transition starts on an order this far on
          MaxRecharges, \* bound: recharges of other requests per wallet
          None

ASSUME PricesAssumption == Prices \subseteq Nat \ {0}
ASSUME RefundSumsAssumption == RefundSums \subseteq Int
ASSUME StartBalanceAssumption == StartBalance \in Nat
ASSUME MaxVersionAssumption == MaxVersion \in Nat
ASSUME NoneAssumption == None \notin Orders \cup Refunds \cup Recharges \cup Keys \cup Customers

VARIABLES orders,  \* orders[o]: the committed row, or None
          refunds, \* refunds[r]: the committed row, or None
          wallet,  \* wallet[c] = [balance, version]
          entries, \* ledger entries; nr is the wallet version they produced,
                   \* after the balance it holds (BalanceAfter)
          audit,   \* order_status_changes; nr is the order version they record
          pc, job, \* where each session is, and the call it serves
          seenOrder, seenWallet \* the rows it last read

data == <<orders, refunds, wallet, entries, audit>>
local == <<pc, job, seenOrder, seenWallet>>
vars == <<data, local>>

Statuses == {"Paid", "Pending", "Processing", "Replenishing", "Refunding",
             "Completed", "Returned", "Refunded", "Abnormal"}

Order == [customer : Customers, key : Keys \cup {None}, amount : Prices,
          refunded : Int, status : Statuses, version : Nat]
Refund == [order : Orders, customer : Customers, amount : Nat \ {0},
           status : {"Pending", "Rejected", "Completed"}]
ASSUME NoRowAssumption == None \notin Order \cup Refund
Wallet == [balance : Int, version : Nat]
Entry == [customer : Customers, nr : Nat, amount : Int, after : Int,
          type : {"recharge", "order_pay", "order_refund", "refund"},
          related : Orders \cup Refunds \cup Recharges \cup {None}]
Audit == [order : Orders, nr : Nat, from : Statuses, to : Statuses]

(* A call carries what its steps need of its arguments.                    *)
Job == [customer : Customers \cup {None}, key : Keys \cup {None}, amount : Int,
        order : Orders \cup {None}, to : Statuses \cup {None},
        refund : Refunds \cup {None}]
Blank == [customer |-> None, key |-> None, amount |-> 0, order |-> None,
          to |-> None, refund |-> None]

-----------------------------------------------------------------------------
ValidTransitions ==
  [st \in Statuses |->
     CASE st = "Paid" -> {"Pending", "Processing"}
       [] st = "Pending" -> {"Processing"}
       [] st = "Processing" -> {"Completed", "Replenishing", "Refunding", "Abnormal"}
       [] st = "Replenishing" -> {"Processing", "Completed"}
       [] st = "Refunding" -> {"Returned"}
       [] st = "Returned" -> {"Refunded"}
       [] st = "Abnormal" -> {"Processing", "Completed", "Refunding"}
       [] OTHER -> {}]

IsValidTransition(from, to) == to \in ValidTransitions[from]

(* The WHERE clause of UpdateStatusCAS: the row is still the one read.      *)
IdOnly(s, o) == TRUE
SameOrder(s, o) == /\ orders[o].status = seenOrder[s].status
                   /\ orders[o].version = seenOrder[s].version

SameWallet(s, c) == wallet[c].version = seenWallet[s].version

(* Debit: the balance read covers the amount.                              *)
Covered(s, c) == wallet[c].balance >= job[s].amount

Goto(s, label) == pc' = [pc EXCEPT ![s] = label]

Return(s) ==
  /\ Goto(s, "idle")
  /\ job' = [job EXCEPT ![s] = Blank]
  /\ seenOrder' = [seenOrder EXCEPT ![s] = None]
  /\ seenWallet' = [seenWallet EXCEPT ![s] = None]

(* The ledger's part of a commit: the wallet row and the entry.            *)
Post(c, a, typ, rel) ==
  /\ wallet' = [wallet EXCEPT ![c] = [balance |-> @.balance + a,
                                     version |-> @.version + 1]]
  /\ entries' = entries \cup
       {[customer |-> c, nr |-> wallet[c].version + 1, amount |-> a,
         after |-> wallet[c].balance + a, type |-> typ, related |-> rel]}

Change(o, from, to, n) == [order |-> o, nr |-> n, from |-> from, to |-> to]

-----------------------------------------------------------------------------
Init ==
  /\ orders = [o \in Orders |-> None]
  /\ refunds = [r \in Refunds |-> None]
  /\ wallet = [c \in Customers |-> [balance |-> StartBalance, version |-> 0]]
  /\ entries = {}
  /\ audit = {}
  /\ pc = [s \in Sessions |-> "idle"]
  /\ job = [s \in Sessions |-> Blank]
  /\ seenOrder = [s \in Sessions |-> None]
  /\ seenWallet = [s \in Sessions |-> None]

(* CreateOrder: the idempotency check.  An order found is returned as it   *)
(* is; without a customer_order_id there is no check.                      *)
KeyTaken(k) == k # None /\ \E o \in Orders : orders[o] # None /\ orders[o].key = k

FindByCustomerOrderID(s, c, k, p) ==
  /\ pc[s] = "idle"
  /\ \E o \in Orders : orders[o] = None
  /\ ~KeyTaken(k)
  /\ Goto(s, "pay")
  /\ job' = [job EXCEPT ![s] = [Blank EXCEPT !.customer = c, !.key = k, !.amount = p]]
  /\ UNCHANGED <<data, seenOrder, seenWallet>>

(* In the transaction, after the insert: Debit reads the wallet.           *)
DebitRead(s) ==
  /\ pc[s] = "pay"
  /\ IF Covered(s, job[s].customer)
     THEN /\ seenWallet' = [seenWallet EXCEPT ![s] = wallet[job[s].customer]]
          /\ Goto(s, "commitOrder")
          /\ UNCHANGED <<job, seenOrder>>
     ELSE Return(s)
  /\ UNCHANGED data

(* A debit that lost the race on the wallet rolls the insert back.         *)
InsertKept(s, o, row) == [orders EXCEPT ![o] = row]
InsertRolledBack(s, o, row) == orders

(* Versioned wallet update, entry, buy parameters, commit.                 *)
CreateOrder(s, o) ==
  /\ pc[s] = "commitOrder"
  /\ orders[o] = None
  /\ LET row == [customer |-> job[s].customer, key |-> job[s].key,
                 amount |-> job[s].amount, refunded |-> 0,
                 status |-> "Paid", version |-> 0]
     IN IF SameWallet(s, job[s].customer)
        THEN /\ orders' = [orders EXCEPT ![o] = row]
             /\ Post(job[s].customer, -job[s].amount, "order_pay", o)
        ELSE /\ orders' = InsertRolledBack(s, o, row)
             /\ UNCHANGED <<wallet, entries>>
  /\ Return(s)
  /\ UNCHANGED <<refunds, audit>>

-----------------------------------------------------------------------------
(* TransitionStatus: read the order and check the table.  Customers may    *)
(* ask for Refunding, suppliers and administrators for any status.         *)
FindOrder(s, o, to) ==
  /\ pc[s] = "idle"
  /\ orders[o] # None
  /\ orders[o].version < MaxVersion
  /\ IsValidTransition(orders[o].status, to)
  /\ seenOrder' = [seenOrder EXCEPT ![s] = orders[o]]
  /\ job' = [job EXCEPT ![s] = [Blank EXCEPT !.order = o, !.to = to]]
  /\ Goto(s, "cas")
  /\ UNCHANGED <<data, seenWallet>>

(* A transition the table does not have is refused.                        *)
TransitionRefused(s, o, to) ==
  /\ pc[s] = "idle"
  /\ orders[o] # None
  /\ ~IsValidTransition(orders[o].status, to)
  /\ UNCHANGED vars

UpdateStatusCAS(s) ==
  /\ pc[s] = "cas"
  /\ LET o == job[s].order
     IN IF SameOrder(s, o)
        THEN /\ orders' = [orders EXCEPT ![o].status = job[s].to,
                                         ![o].version = @ + 1]
             /\ Goto(s, "audit")
             /\ UNCHANGED <<job, seenOrder, seenWallet>>
        ELSE Return(s) /\ UNCHANGED orders
  /\ UNCHANGED <<refunds, wallet, entries, audit>>

(* The audit row is written after the status is committed; its failure is  *)
(* only logged.  A transition to Refunded goes on to pay the money back.   *)
CreateStatusChange(s) ==
  /\ pc[s] = "audit"
  /\ \/ audit' = audit \cup {Change(job[s].order, seenOrder[s].status, job[s].to,
                                    seenOrder[s].version + 1)}
     \/ UNCHANGED audit
  /\ IF job[s].to = "Refunded"
     THEN Goto(s, "refund") /\ UNCHANGED <<job, seenOrder, seenWallet>>
     ELSE Return(s)
  /\ UNCHANGED <<orders, refunds, wallet, entries>>

(* processRefund: Credit reads the wallet ...                              *)
CreditRead(s) ==
  /\ pc[s] = "refund"
  /\ seenWallet' = [seenWallet EXCEPT ![s] = wallet[seenOrder[s].customer]]
  /\ Goto(s, "credit")
  /\ UNCHANGED <<data, job, seenOrder>>

(* ... and its versioned update decides.  The amount comes from the row    *)
(* read before the transition.                                             *)
ProcessRefund(s) ==
  /\ pc[s] = "credit"
  /\ LET ord == seenOrder[s]
     IN IF SameWallet(s, ord.customer)
        THEN Post(ord.customer, IF ord.refunded > 0 THEN ord.refunded ELSE ord.amount,
                  "order_refund", job[s].order)
        ELSE UNCHANGED <<wallet, entries>>
  /\ Return(s)
  /\ UNCHANGED <<orders, refunds, audit>>
-----------------------------------------------------------------------------
(* Apply: the order is the customer's, and the sum is positive and not     *)
(* more than what the order row read has left.                             *)
AnySum(o, a) == a <= orders[o].amount - orders[o].refunded
Refundable(o, a) == a > 0 /\ a <= orders[o].amount - orders[o].refunded

ApplyCheck(s, c, o, a) ==
  /\ pc[s] = "idle"
  /\ orders[o] # None
  /\ orders[o].version < MaxVersion
  /\ \E r \in Refunds : refunds[r] = None
  /\ orders[o].customer = c
  /\ Refundable(o, a)
  /\ job' = [job EXCEPT ![s] = [Blank EXCEPT !.customer = c, !.order = o, !.amount = a]]
  /\ Goto(s, "apply")
  /\ UNCHANGED <<data, seenOrder, seenWallet>>

(* The application is committed before the order's transition is tried.    *)
CreateRefund(s, r) ==
  /\ pc[s] = "apply"
  /\ refunds[r] = None
  /\ refunds' = [refunds EXCEPT ![r] =
       [order |-> job[s].order, customer |-> job[s].customer,
        amount |-> job[s].amount, status |-> "Pending"]]
  /\ job' = [job EXCEPT ![s].to = "Refunding"]
  /\ Goto(s, "find")
  /\ UNCHANGED <<orders, wallet, entries, audit, seenOrder, seenWallet>>

(* TransitionStatus to Refunding, from Apply.                              *)
FindApplied(s) ==
  /\ pc[s] = "find"
  /\ LET o == job[s].order
     IN IF IsValidTransition(orders[o].status, "Refunding")
        THEN /\ seenOrder' = [seenOrder EXCEPT ![s] = orders[o]]
             /\ Goto(s, "cas")
             /\ UNCHANGED <<job, seenWallet>>
        ELSE Return(s)
  /\ UNCHANGED data

(* Approve and Reject first look at the application outside any            *)
(* transaction.                                                            *)
ReviewCheck(s, r, verdict) ==
  /\ pc[s] = "idle"
  /\ refunds[r] # None
  /\ refunds[r].status = "Pending"
  /\ job' = [job EXCEPT ![s] = [Blank EXCEPT !.refund = r]]
  /\ Goto(s, verdict)
  /\ UNCHANGED <<data, seenOrder, seenWallet>>

(* Approve's transaction: after the application's update Credit reads the  *)
(* wallet.                                                                 *)
ApproveRead(s) ==
  /\ pc[s] = "approve"
  /\ LET rf == refunds[job[s].refund]
     IN IF rf.status = "Pending"
        THEN /\ seenWallet' = [seenWallet EXCEPT ![s] = wallet[rf.customer]]
             /\ Goto(s, "commitApprove")
             /\ UNCHANGED <<job, seenOrder>>
        ELSE Return(s)
  /\ UNCHANGED data

(* The order may still be refunded by this sum, and its last transition    *)
(* starts from Returned, reached from Refunding in the same transaction.   *)
AnyStatus(o, a) == orders[o].refunded + a <= orders[o].amount
Approvable(o, a) ==
  /\ orders[o].refunded + a <= orders[o].amount
  /\ orders[o].status \in {"Refunding", "Returned"}

(* The order after the approval: refund_amount without a version, then one *)
(* or two versioned transitions.                                           *)
Hops(o) == IF orders[o].status = "Refunding" THEN 2 ELSE 1
SumForgotten(o, a) ==
  [orders EXCEPT ![o].status = "Refunded", ![o].version = @ + Hops(o)]
ApprovedOrders(o, a) ==
  [orders EXCEPT ![o].status = "Refunded", ![o].refunded = @ + a,
                 ![o].version = @ + Hops(o)]

(* When any statement of the transaction fails nothing of it remains.      *)
Claimed(r) == [refunds EXCEPT ![r].status = "Completed"]
Unclaimed(r) == refunds

Approve(s) ==
  /\ pc[s] = "commitApprove"
  /\ LET r == job[s].refund
         a == refunds[r].amount
         o == refunds[r].order
         n == orders[o].version + Hops(o)
     IN IF /\ refunds[r].status = "Pending"
           /\ SameWallet(s, refunds[r].customer)
           /\ Approvable(o, a)
        THEN /\ refunds' = [refunds EXCEPT ![r].status = "Completed"]
             /\ Post(refunds[r].customer, a, "refund", r)
             /\ orders' = ApprovedOrders(o, a)
             /\ audit' = audit \cup
                  {Change(o, "Returned", "Refunded", n)} \cup
                  {Change(o, "Refunding", "Returned", n - 1) : h \in 1..(Hops(o) - 1)}
        ELSE /\ refunds' = Unclaimed(r)
             /\ UNCHANGED <<orders, wallet, entries, audit>>
  /\ Return(s)

(* Reject's transaction: the application is rejected; if the order is not  *)
(* Refunding that is all.                                                  *)
RejectRead(s) ==
  /\ pc[s] = "reject"
  /\ LET r == job[s].refund
         o == refunds[r].order
     IN CASE refunds[r].status # "Pending" ->
               Return(s) /\ UNCHANGED refunds
          [] refunds[r].status = "Pending" /\ orders[o].status # "Refunding" ->
               /\ refunds' = [refunds EXCEPT ![r].status = "Rejected"]
               /\ Return(s)
          [] OTHER ->
               /\ seenOrder' = [seenOrder EXCEPT ![s] = orders[o]]
               /\ Goto(s, "revert")
               /\ UNCHANGED <<refunds, job, seenWallet>>
  /\ UNCHANGED <<orders, wallet, entries, audit>>

(* Otherwise the order goes back to Processing, if it is still the row     *)
(* read; if it is not, the rejection is rolled back too.                   *)
Reject(s) ==
  /\ pc[s] = "revert"
  /\ LET r == job[s].refund
         o == refunds[r].order
     IN IF refunds[r].status = "Pending" /\ SameOrder(s, o)
        THEN /\ refunds' = [refunds EXCEPT ![r].status = "Rejected"]
             /\ orders' = [orders EXCEPT ![o].status = "Processing", ![o].version = @ + 1]
             /\ audit' = audit \cup
                  {Change(o, "Refunding", "Processing", seenOrder[s].version + 1)}
        ELSE UNCHANGED <<refunds, orders, audit>>
  /\ Return(s)
  /\ UNCHANGED <<wallet, entries>>

-----------------------------------------------------------------------------
(* Another request's recharge is approved: the wallet moves meanwhile.     *)
(* Module Recharge has the applications and their approval step by step.   *)
Recharge(c) ==
  /\ Cardinality({e \in entries : e.customer = c /\ e.type = "recharge"}) < MaxRecharges
  /\ Post(c, 1, "recharge", None)
  /\ UNCHANGED <<orders, refunds, audit, local>>

(* A statement or the connection fails, or the process dies: an open       *)
(* transaction is rolled back and the rest of the handler does not happen. *)
Fail(s) ==
  /\ pc[s] # "idle"
  /\ Return(s)
  /\ UNCHANGED data

Start(s) ==
  \/ \E c \in Customers, k \in Keys \cup {None}, p \in Prices :
       FindByCustomerOrderID(s, c, k, p)
  \/ \E o \in Orders, to \in Statuses : FindOrder(s, o, to) \/ TransitionRefused(s, o, to)
  \/ \E c \in Customers, o \in Orders, a \in RefundSums : ApplyCheck(s, c, o, a)
  \/ \E r \in Refunds, verdict \in {"approve", "reject"} : ReviewCheck(s, r, verdict)

Continue(s) ==
  \/ DebitRead(s) \/ \E o \in Orders : CreateOrder(s, o)
  \/ UpdateStatusCAS(s) \/ CreateStatusChange(s) \/ CreditRead(s) \/ ProcessRefund(s)
  \/ \E r \in Refunds : CreateRefund(s, r)
  \/ FindApplied(s)
  \/ ApproveRead(s) \/ Approve(s) \/ RejectRead(s) \/ Reject(s)

Serve ==
  \/ \E s \in Sessions : Start(s) \/ Continue(s)
  \/ \E c \in Customers : Recharge(c)

Next == Serve \/ \E s \in Sessions : Fail(s)

Spec == Init /\ [][Next]_vars

(* The same system when nothing ever fails.                                *)
FaultFreeSpec == Init /\ [][Serve]_vars
-----------------------------------------------------------------------------
Labels == {"idle", "pay", "commitOrder", "cas", "audit", "refund", "credit", "apply",
           "find", "approve", "commitApprove", "reject", "revert"}

(* Every variable stays in its domain.                                     *)
TypeOK ==
  /\ orders \in [Orders -> Order \cup {None}]
  /\ refunds \in [Refunds -> Refund \cup {None}]
  /\ wallet \in [Customers -> Wallet]
  /\ entries \subseteq Entry
  /\ audit \subseteq Audit
  /\ pc \in [Sessions -> Labels]
  /\ job \in [Sessions -> Job]
  /\ seenOrder \in [Sessions -> Order \cup {None}]
  /\ seenWallet \in [Sessions -> Wallet \cup {None}]

Created == {o \in Orders : orders[o] # None}
Applied == {r \in Refunds : refunds[r] # None}
PaymentsOf(o) == {e \in entries : e.type = "order_pay" /\ e.related = o}
RefundEntries(r) == {e \in entries : e.type = "refund" /\ e.related = r}

(* The money given back for an order: by TransitionStatus under the        *)
(* order's id, by Approve under the application's.                         *)
CreditsOf(o) ==
  {e \in entries : \/ e.type = "order_refund" /\ e.related = o
                   \/ e.type = "refund" /\ \E r \in Applied :
                        refunds[r].order = o /\ e.related = r}

(* An order row and its payment exist together: one debit of the order's   *)
(* amount from its customer for every order, none without an order, and no *)
(* race of orders overdraws a wallet.                                      *)
PaidOnce ==
  /\ \A o \in Orders :
       PaymentsOf(o) # {} => orders[o] # None
  /\ \A o \in Created :
       \E e \in PaymentsOf(o) :
         /\ PaymentsOf(o) = {e}
         /\ e.customer = orders[o].customer
         /\ e.amount = -orders[o].amount
  /\ \A c \in Customers : wallet[c].balance >= 0

(* However many applications are approved and whoever transitions the      *)
(* order by hand, its customer gets money back at most once, never more    *)
(* than was paid, and only when the order has reached Refunded.            *)
CreditedOnce ==
  \A o \in Created : \A e \in CreditsOf(o) :
    /\ orders[o].status = "Refunded"
    /\ CreditsOf(o) = {e}
    /\ e.amount > 0
    /\ e.amount <= orders[o].amount
    /\ e.customer = orders[o].customer

(* A completed application has been paid, exactly its amount, to its       *)
(* customer; no other application has.                                     *)
CompletedIsCredited ==
  \A r \in Refunds :
    IF r \in Applied /\ refunds[r].status = "Completed"
    THEN \E e \in entries : /\ RefundEntries(r) = {e}
                            /\ e.amount = refunds[r].amount
                            /\ e.customer = refunds[r].customer
    ELSE RefundEntries(r) = {}

(* refund_amount is the amount of the order's completed application.       *)
RefundAmountAgrees ==
  \A o \in Created :
    LET done == {r \in Applied : refunds[r].order = o /\ refunds[r].status = "Completed"}
    IN IF done = {} THEN orders[o].refunded = 0
       ELSE \A r \in done : orders[o].refunded = refunds[r].amount

(* The audit trail, gaps aside, is the order's history: a record starts    *)
(* from the status the one before it ended in, and the last ends in the    *)
(* order's status.                                                         *)
AuditChained ==
  \A ch \in audit :
    /\ ch.nr <= orders[ch.order].version
    /\ ch.nr = orders[ch.order].version => ch.to = orders[ch.order].status
    /\ \A nx \in audit :
         (nx.order = ch.order /\ nx.nr = ch.nr + 1) => nx.from = ch.to

(* An order moves along the table, two hops at a time when a refund is     *)
(* approved, or back to Processing when one is rejected: never from a      *)
(* status another session has meanwhile left.  An order that the table     *)
(* does not lead on from and an application that has been reviewed stay    *)
(* what they are, their amounts included.                                  *)
StatusMoves ==
  [][/\ \A o \in Created : orders'[o] # orders[o] =>
          \/ IsValidTransition(orders[o].status, orders'[o].status)
          \/ orders[o].status = "Refunding" /\ orders'[o].status \in {"Refunded", "Processing"}
     /\ \A r \in Applied : refunds'[r] # refunds[r] =>
          refunds[r].status = "Pending"]_<<orders, refunds>>

(* The refinement of Account, from the opening balances on: the journal of *)
(* a wallet is its entries in the order of the versions they produced.     *)
Line(c, i) == CHOOSE e \in entries : e.customer = c /\ e.nr = i
Balances == [c \in Customers |-> wallet[c].balance]
Journal ==
  [c \in Customers |-> [i \in 1..wallet[c].version |->
     [amount |-> Line(c, i).amount, after |-> Line(c, i).after]]]

Abstract == INSTANCE Account WITH
  Users <- Customers, Postings <- Int,
  open <- Customers, balance <- Balances, journal <- Journal

(* Orders, refunds and recharges move the wallets only as Account does:    *)
(* one posting at a time, each with its own line in the journal and the    *)
(* balance after it, none that overdraws.                                  *)
WalletsAreAccounts == Abstract!SpecInUse

-----------------------------------------------------------------------------
(* What comments say and the code does not do.                             *)

(* order/service.go:72, "check idempotence (customer_order_id unique)".    *)
OneOrderPerKey ==
  \A o, q \in Created : orders[o].key = orders[q].key /\ orders[o].key # None => o = q

(* order/service.go:158, "if it is the refund terminal state, run the       *)
(* refund": once the handler has returned the money is back.               *)
RefundedIsCredited ==
  (\A s \in Sessions : pc[s] = "idle") =>
    \A o \in Created : orders[o].status = "Refunded" => CreditsOf(o) # {}
=============================================================================
