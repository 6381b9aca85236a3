---------------------------- MODULE RefundProofs ----------------------------
(***************************************************************************)
(* Theorems of OrderRefund about the money that goes back and about the    *)
(* orders' history, on top of the invariant of OrderProofs.                *)
(*                                                                         *)
(* Money: an order that has not reached Refunded has been credited by      *)
(* nobody and nobody is about to; one that has was brought there either by *)
(* the approval that completed its only application, or by one session     *)
(* that owes it a credit until it pays or dies (Payer).                    *)
(*                                                                         *)
(* History: whatever anybody remembers of an order, a status with the      *)
(* version it belongs to, is consistent (Facts), so audit rows written     *)
(* late still chain.                                                       *)
(*                                                                         *)
(* Loss: an order is forsaken when it is Refunded, nobody has paid and     *)
(* nobody owes it a credit any more; that begins with the step that takes  *)
(* its payer away, and nothing ends it.                                    *)
(***************************************************************************)
EXTENDS OrderProofs

(* Session s moved order o to Refunded and has not paid yet.               *)
Payer(s, o) ==
  /\ job[s].order = o
  /\ pc[s] \in {"refund", "credit"} \/ (pc[s] = "audit" /\ job[s].to = "Refunded")

DoneOf(o) == {r \in Applied : refunds[r].order = o /\ refunds[r].status = "Completed"}
HandCredits(o) == {e \in entries : e.type = "order_refund" /\ e.related = o}

Knows(s) ==
  /\ pc[s] \in {"cas", "audit", "refund", "credit"} =>
       /\ seenOrder[s].refunded = 0
       /\ seenOrder[s].amount = orders[job[s].order].amount
       /\ seenOrder[s].customer = orders[job[s].order].customer
  /\ pc[s] = "cas" => IsValidTransition(seenOrder[s].status, job[s].to)
  /\ pc[s] = "revert" => seenOrder[s].status = "Refunding"
  /\ pc[s] = "apply" => job[s].customer = orders[job[s].order].customer

AppInv(r) ==
  /\ r \in Applied => refunds[r].customer = orders[refunds[r].order].customer
  /\ IF r \in Applied /\ refunds[r].status = "Completed"
     THEN \E e \in entries : /\ RefundEntries(r) = {e}
                             /\ e.amount = refunds[r].amount
                             /\ e.customer = refunds[r].customer
     ELSE RefundEntries(r) = {}

(* Nothing of the order has been given back and nobody owes it.            *)
Untouched(o) ==
  HandCredits(o) = {} /\ DoneOf(o) = {} /\ \A s \in Sessions : ~Payer(s, o)

OrdInv(o) ==
  /\ orders[o] = None \/ orders[o].status # "Refunded" => Untouched(o)
  /\ DoneOf(o) # {} => HandCredits(o) = {} /\ \A s \in Sessions : ~Payer(s, o)
  /\ \A r, q \in DoneOf(o) : r = q
  /\ \A r \in DoneOf(o) : /\ orders[o].refunded = refunds[r].amount
                          /\ refunds[r].amount <= orders[o].amount
  /\ orders[o] # None /\ DoneOf(o) = {} => orders[o].refunded = 0
  /\ \A s, t \in Sessions : Payer(s, o) /\ Payer(t, o) => s = t
  /\ \A s \in Sessions : Payer(s, o) => HandCredits(o) = {}
  /\ \A e, f \in HandCredits(o) : e = f
  /\ \A e \in HandCredits(o) : /\ e.amount = orders[o].amount
                               /\ e.customer = orders[o].customer

RInv ==
  /\ IInv
  /\ \A s \in Sessions : Knows(s)
  /\ \A r \in Refunds : AppInv(r)
  /\ \A o \in Orders : OrdInv(o)

USE PricesAssumption, NoneAssumption, NoRowAssumption
-----------------------------------------------------------------------------
LEMMA InitRefunds == Init => RInv
<1> SUFFICES ASSUME Init  PROVE RInv
  OBVIOUS
<1>1. IInv
  BY InitInv
<1>2. \A s \in Sessions : Knows(s) /\ \A o \in Orders : ~Payer(s, o)
  BY DEF Init, Knows, Payer
<1>3. \A r \in Refunds : AppInv(r)
  BY DEF Init, AppInv, Applied, RefundEntries
<1>4. \A o \in Orders : OrdInv(o)
  BY <1>2 DEF Init, OrdInv, Untouched, DoneOf, Applied, HandCredits
<1> QED
  BY <1>1, <1>2, <1>3, <1>4 DEF RInv

(* Rows as a step leaves them that gives nothing back.                     *)
OrderQuiet(o) ==
  IF orders[o] = None
  THEN orders'[o] = None \/ (orders'[o].status # "Refunded" /\ orders'[o].refunded = 0)
  ELSE /\ orders'[o] # None
       /\ orders'[o].customer = orders[o].customer
       /\ orders'[o].amount = orders[o].amount
       /\ orders'[o].refunded = orders[o].refunded
       /\ orders'[o].status = "Refunded" <=> orders[o].status = "Refunded"

RefundQuiet(r) ==
  IF refunds[r] = None
  THEN refunds'[r] = None \/
       /\ refunds'[r].status # "Completed"
       /\ refunds'[r].customer = orders'[refunds'[r].order].customer
  ELSE /\ refunds'[r] # None
       /\ refunds'[r].order = refunds[r].order
       /\ refunds'[r].customer = refunds[r].customer
       /\ refunds'[r].amount = refunds[r].amount
       /\ refunds'[r].status = "Completed" <=> refunds[r].status = "Completed"

NoCredit ==
  /\ entries \subseteq entries'
  /\ \A e \in entries' \ entries : e.type \notin {"order_refund", "refund"}

LEMMA QuietKept ==
  ASSUME RInv, IInv', \A s \in Sessions : Knows(s)',
         \A o \in Orders : OrderQuiet(o), \A r \in Refunds : RefundQuiet(r), NoCredit,
         \A s \in Sessions : \A o \in Orders : Payer(s, o)' => Payer(s, o)
  PROVE  RInv'
<1>1. ASSUME NEW r \in Refunds  PROVE AppInv(r)'
  <2>1. RefundEntries(r)' = RefundEntries(r)
    BY DEF RefundEntries, NoCredit
  <2>2. AppInv(r) /\ RefundQuiet(r) /\ RowInv(r)
    BY DEF RInv, IInv
  <2>3. r \in Applied => OrderQuiet(refunds[r].order) /\ orders[refunds[r].order] # None
    BY <2>2 DEF Applied, RowInv, OrderThere
  <2> QED
    BY <2>1, <2>2, <2>3 DEF AppInv, Applied, RefundQuiet, OrderQuiet, NoCredit
<1>2. ASSUME NEW o \in Orders  PROVE OrdInv(o)'
  <2>1. HandCredits(o)' = HandCredits(o)
    BY DEF HandCredits, NoCredit
  <2>2. DoneOf(o)' = DoneOf(o) /\ \A r \in DoneOf(o) : refunds'[r].amount = refunds[r].amount
    BY DEF DoneOf, Applied, RefundQuiet
  <2>3. OrdInv(o) /\ OrderQuiet(o)
    BY DEF RInv
  <2>4. orders[o] = None => HandCredits(o) = {} /\ DoneOf(o) = {} /\ \A s \in Sessions : ~Payer(s, o)
    BY <2>3 DEF OrdInv, Untouched
  <2>5. Untouched(o) => Untouched(o)'
    BY <2>1, <2>2 DEF Untouched
  <2> QED
    BY <2>1, <2>2, <2>3, <2>4, <2>5 DEF OrdInv, OrderQuiet
<1> QED
  BY <1>1, <1>2 DEF RInv

(* The other sessions while one takes a step.                              *)
Others(s) ==
  \A t \in Sessions \ {s} : /\ pc'[t] = pc[t] /\ job'[t] = job[t]
                            /\ seenOrder'[t] = seenOrder[t]

LEMMA OnlyOne ==
  ASSUME IInv, NEW s \in Sessions, Start(s) \/ Continue(s) \/ Fail(s)
  PROVE  Others(s)
<1> USE DEF IInv, TypeOK, Others, Goto
<1>1. Return(s) => Others(s)
  BY DEF Return
<1>2. CASE Start(s)
  BY <1>2 DEF Start, FindByCustomerOrderID, FindOrder, TransitionRefused, ApplyCheck,
     ReviewCheck, vars, local
<1>3. CASE DebitRead(s) \/ \E o \in Orders : CreateOrder(s, o)
  BY <1>1, <1>3 DEF DebitRead, CreateOrder
<1>4. CASE UpdateStatusCAS(s) \/ CreateStatusChange(s) \/ CreditRead(s) \/ ProcessRefund(s)
  BY <1>1, <1>4 DEF UpdateStatusCAS, CreateStatusChange, CreditRead, ProcessRefund
<1>5. CASE (\E r \in Refunds : CreateRefund(s, r)) \/ FindApplied(s)
  BY <1>1, <1>5 DEF CreateRefund, FindApplied
<1>6. CASE ApproveRead(s) \/ Approve(s) \/ RejectRead(s) \/ Reject(s)
  BY <1>1, <1>6 DEF ApproveRead, Approve, RejectRead, Reject
<1>7. CASE Fail(s)
  BY <1>1, <1>7 DEF Fail
<1> QED
  BY <1>2, <1>3, <1>4, <1>5, <1>6, <1>7 DEF Continue

LEMMA OthersKnow ==
  ASSUME RInv, NEW s \in Sessions, Others(s), NEW t \in Sessions \ {s},
         \A o \in Orders : orders[o] \in Order =>
            orders'[o].customer = orders[o].customer /\ orders'[o].amount = orders[o].amount
  PROVE  Knows(t)'
<1>1. Knows(t) /\ SessionInv(t)
  BY DEF RInv, IInv
<1>2. /\ pc'[t] = pc[t] /\ job'[t] = job[t] /\ seenOrder'[t] = seenOrder[t]
  BY DEF Others
<1>3. pc[t] \in {"cas", "audit", "refund", "credit", "apply"} =>
        /\ orders'[job[t].order].customer = orders[job[t].order].customer
        /\ orders'[job[t].order].amount = orders[job[t].order].amount
  BY <1>1 DEF SessionInv, OrderThere
<1> QED
  BY <1>1, <1>2, <1>3 DEF Knows, IsValidTransition

LEMMA QuietStep ==
  ASSUME RInv, IInv', NEW s \in Sessions, Others(s), Knows(s)',
         \A o \in Orders : OrderQuiet(o), \A r \in Refunds : RefundQuiet(r), NoCredit,
         \A o \in Orders : Payer(s, o)' => Payer(s, o)
  PROVE  RInv'
<1>1. \A o \in Orders : orders[o] \in Order =>
        orders'[o].customer = orders[o].customer /\ orders'[o].amount = orders[o].amount
  BY DEF OrderQuiet
<1>2. \A t \in Sessions : Knows(t)'
  BY <1>1, OthersKnow
<1>3. \A t \in Sessions : \A o \in Orders : Payer(t, o)' => Payer(t, o)
  BY DEF Payer, Others
<1> QED
  BY <1>2, <1>3, QuietKept

LEMMA StillQuiet ==
  /\ UNCHANGED orders => \A o \in Orders : OrderQuiet(o)
  /\ UNCHANGED refunds => \A r \in Refunds : RefundQuiet(r)
  /\ UNCHANGED entries => NoCredit
  BY DEF OrderQuiet, RefundQuiet, NoCredit

LEMMA IdleKnows ==
  ASSUME IInv, NEW s \in Sessions, Return(s)
  PROVE  Knows(s)' /\ \A o \in Orders : ~Payer(s, o)'
  BY DEF Return, Goto, IInv, TypeOK, Knows, Payer

LEMMA ReturnQuiet ==
  ASSUME RInv, IInv', NEW s \in Sessions, Others(s), Return(s),
         \A o \in Orders : OrderQuiet(o), \A r \in Refunds : RefundQuiet(r), NoCredit
  PROVE  RInv'
<1>1. Knows(s)' /\ \A o \in Orders : ~Payer(s, o)'
  BY IdleKnows DEF RInv
<1> QED
  BY <1>1, QuietStep

LEMMA StartRefunds ==
  ASSUME RInv, IInv', NEW s \in Sessions, Start(s)
  PROVE  RInv'
<1> USE DEF RInv, IInv, TypeOK, Goto
<1>1. Others(s)
  BY OnlyOne
<1>2. UNCHANGED data
  BY DEF Start, FindByCustomerOrderID, FindOrder, TransitionRefused, ApplyCheck, ReviewCheck,
     vars
<1>3. CASE UNCHANGED vars
  BY <1>1, <1>2, <1>3, StillQuiet, QuietStep DEF vars, data, local, Knows, IsValidTransition, Payer
<1>4. ASSUME pc'[s] \in {"pay", "apply", "approve", "reject", "cas"}, Knows(s)'
      PROVE  RInv'
  <2>1. \A o \in Orders : ~Payer(s, o)'
    BY <1>4 DEF Payer
  <2> QED
    BY <1>1, <1>2, <1>4, <2>1, StillQuiet, QuietStep DEF data
<1>5. ASSUME NEW c \in Customers, NEW k \in Keys \cup {None}, NEW p \in Prices,
             FindByCustomerOrderID(s, c, k, p)
      PROVE  RInv'
  BY <1>4, <1>5 DEF FindByCustomerOrderID, Knows
<1>6. ASSUME NEW o \in Orders, NEW to \in Statuses, FindOrder(s, o, to)
      PROVE  RInv'
  <2>1. pc'[s] = "cas" /\ seenOrder'[s] = orders[o] /\ orders[o] # None
        /\ IsValidTransition(orders[o].status, to)
    BY <1>6 DEF FindOrder
  <2>2. job'[s].order = o /\ job'[s].to = to
    BY <1>6 DEF FindOrder, Blank
  <2>3. orders[o].status \in Statuses
    BY <2>1 DEF Order
  <2>4. orders[o].status # "Refunded"
    BY <2>1, <2>3 DEF IsValidTransition, ValidTransitions
  <2>5. orders[o].refunded = 0
    BY <2>1, <2>4 DEF OrdInv, Untouched
  <2>6. Knows(s)'
    BY <1>2, <2>1, <2>2, <2>5 DEF Knows, IsValidTransition, data
  <2> QED
    BY <1>4, <2>1, <2>6
<1>7. ASSUME NEW c \in Customers, NEW o \in Orders, NEW a \in RefundSums,
             ApplyCheck(s, c, o, a)
      PROVE  RInv'
  <2>1. pc'[s] = "apply" /\ orders[o].customer = c
    BY <1>7 DEF ApplyCheck
  <2>2. job'[s].order = o /\ job'[s].customer = c
    BY <1>7 DEF ApplyCheck, Blank
  <2>3. Knows(s)'
    BY <1>2, <2>1, <2>2 DEF Knows, data
  <2> QED
    BY <1>4, <2>1, <2>3
<1>8. ASSUME NEW r \in Refunds, NEW verdict \in {"approve", "reject"},
             ReviewCheck(s, r, verdict)
      PROVE  RInv'
  BY <1>4, <1>8 DEF ReviewCheck, Knows
<1> QED
  BY <1>3, <1>5, <1>6, <1>7, <1>8 DEF Start, TransitionRefused

LEMMA PaymentRefunds ==
  ASSUME RInv, IInv', NEW s \in Sessions, Others(s),
         DebitRead(s) \/ \E o \in Orders : CreateOrder(s, o)
  PROVE  RInv'
<1> USE DEF RInv, IInv, TypeOK, Goto
<1>1. CASE DebitRead(s)
  <2>1. UNCHANGED <<orders, refunds, entries>>
    BY <1>1 DEF DebitRead, data
  <2>2. CASE Return(s)
    BY <2>1, <2>2, StillQuiet, ReturnQuiet
  <2>3. CASE Goto(s, "commitOrder")
    <3>1. pc'[s] = "commitOrder"
      BY <2>3
    <3>2. Knows(s)' /\ \A o \in Orders : ~Payer(s, o)'
      BY <3>1 DEF Knows, Payer
    <3> QED
      BY <2>1, <3>2, StillQuiet, QuietStep
  <2> QED
    BY <1>1, <2>2, <2>3 DEF DebitRead
<1>2. ASSUME NEW o \in Orders, CreateOrder(s, o)  PROVE RInv'
  <2>1. Return(s) /\ orders[o] = None /\ UNCHANGED refunds
    BY <1>2 DEF CreateOrder
  <2>2. ASSUME NEW q \in Orders  PROVE OrderQuiet(q)
    BY <1>2 DEF CreateOrder, InsertRolledBack, OrderQuiet
  <2>3. NoCredit
    BY <1>2 DEF CreateOrder, Post, NoCredit
  <2> QED
    BY <2>1, <2>2, <2>3, StillQuiet, ReturnQuiet
<1> QED
  BY <1>1, <1>2

(* The transition to Refunded makes the session a payer, the only one.     *)
LEMMA TransitionRefunds ==
  ASSUME RInv, IInv', NEW s \in Sessions, Others(s), UpdateStatusCAS(s)
  PROVE  RInv'
<1> DEFINE o == job[s].order
           st == job[s].to
<1> USE DEF RInv, IInv, TypeOK, Goto
<1>1. pc[s] = "cas" /\ UNCHANGED <<refunds, wallet, entries, audit>>
  BY DEF UpdateStatusCAS
<1>2. o \in Orders /\ orders[o] \in Order /\ st \in Statuses /\ Knows(s)
  BY <1>1, Unmoved DEF SessionInv, OrderThere
<1>3. CASE ~SameOrder(s, o)
  BY <1>1, <1>3, StillQuiet, ReturnQuiet DEF UpdateStatusCAS
<1>4. CASE SameOrder(s, o)
  <2>1. /\ orders' = [orders EXCEPT ![o].status = st, ![o].version = @ + 1]
        /\ Goto(s, "audit") /\ UNCHANGED <<job, seenOrder, seenWallet>>
    BY <1>4 DEF UpdateStatusCAS
  <2>2. /\ OrdersKept /\ orders'[o].status = st /\ orders'[o].refunded = orders[o].refunded
        /\ \A q \in Orders \ {o} : orders'[q] = orders[q]
    <3> HIDE DEF o, st
    <3> QED
      BY <1>2, <2>1, Transition
  <2>3. orders[o].status # "Refunded"
    <3>1. IsValidTransition(orders[o].status, st)
      BY <1>1, <1>2, <1>4 DEF Knows, SameOrder
    <3> QED
      BY <1>2, <3>1 DEF IsValidTransition, ValidTransitions, Order
  <2>4. pc'[s] = "audit"
    BY <2>1
  <2>5. Knows(s)'
    BY <1>1, <1>2, <2>1, <2>2, <2>4 DEF Knows, OrdersKept
  <2>6. ASSUME NEW q \in Orders, q # o \/ st # "Refunded"  PROVE OrderQuiet(q)
    BY <1>2, <2>2, <2>3, <2>6 DEF OrderQuiet, OrdersKept
  <2>7. CASE st # "Refunded"
    <3>1. \A q \in Orders : ~Payer(s, q)'
      BY <2>1, <2>4, <2>7 DEF Payer
    <3> QED
      BY <1>1, <2>5, <2>6, <2>7, <3>1, StillQuiet, QuietStep
  <2>8. CASE st = "Refunded"
    <3>1. Untouched(o) /\ orders[o].refunded = 0
      BY <1>2, <2>3 DEF OrdInv, Untouched
    <3>2. ASSUME NEW t \in Sessions  PROVE Knows(t)'
      BY <1>2, <2>2, <2>5, OthersKnow DEF OrdersKept
    <3>3. ASSUME NEW r \in Refunds  PROVE AppInv(r)'
      <4>1. RefundEntries(r)' = RefundEntries(r) /\ AppInv(r) /\ RowInv(r)
        BY <1>1 DEF RefundEntries
      <4> QED
        BY <1>1, <4>1, <2>2 DEF AppInv, Applied, RowInv, OrderThere, OrdersKept
    <3>4. ASSUME NEW q \in Orders  PROVE OrdInv(q)'
      <4>1. HandCredits(q)' = HandCredits(q) /\ DoneOf(q)' = DoneOf(q) /\ OrdInv(q)
        BY <1>1 DEF HandCredits, DoneOf, Applied
      <4>2. \A t \in Sessions \ {s} : Payer(t, q)' <=> Payer(t, q)
        BY DEF Payer, Others
      <4>3. CASE q = o
        <5>1. HandCredits(q)' = {} /\ DoneOf(q)' = {}
          BY <3>1, <4>1, <4>3 DEF Untouched
        <5>2. \A t \in Sessions \ {s} : ~Payer(t, q)'
          BY <3>1, <4>2, <4>3 DEF Untouched
        <5>3. orders'[q] # None /\ orders'[q].refunded = 0 /\ orders'[q].status = "Refunded"
          BY <1>2, <2>2, <2>8, <3>1, <4>3 DEF OrdersKept
        <5> QED
          BY <5>1, <5>2, <5>3 DEF OrdInv
      <4>4. CASE q # o
        <5>1. \A t \in Sessions : Payer(t, q)' => Payer(t, q)
          BY <2>1, <4>2, <4>4 DEF Payer
        <5>2. Untouched(q) => Untouched(q)'
          BY <4>1, <5>1 DEF Untouched
        <5> QED
          BY <1>1, <2>2, <4>1, <4>4, <5>1, <5>2 DEF OrdInv
      <4> QED
        BY <4>3, <4>4
    <3> QED
      BY <3>2, <3>3, <3>4
  <2> QED
    BY <2>7, <2>8
<1> QED
  BY <1>3, <1>4

-----------------------------------------------------------------------------
LEMMA AuditRefunds ==
  ASSUME RInv, IInv', NEW s \in Sessions, Others(s), CreateStatusChange(s) \/ CreditRead(s)
  PROVE  RInv'
<1> USE DEF RInv, IInv, TypeOK, Goto
<1>1. UNCHANGED <<orders, refunds, entries>>
  BY DEF CreateStatusChange, CreditRead, data
<1>2. CASE Return(s)
  BY <1>1, <1>2, StillQuiet, ReturnQuiet
<1>3. ASSUME UNCHANGED <<job, seenOrder>>, pc'[s] \in {"refund", "credit"},
             pc[s] = "refund" \/ (pc[s] = "audit" /\ job[s].to = "Refunded")
      PROVE  RInv'
  <2>1. Knows(s)'
    BY <1>1, <1>3 DEF Knows
  <2>2. \A o \in Orders : Payer(s, o)' => Payer(s, o)
    BY <1>3 DEF Payer
  <2> QED
    BY <1>1, <2>1, <2>2, StillQuiet, QuietStep
<1>4. CASE CreateStatusChange(s) /\ job[s].to = "Refunded"
  BY <1>3, <1>4 DEF CreateStatusChange
<1>5. CASE CreateStatusChange(s) /\ job[s].to # "Refunded"
  BY <1>2, <1>5 DEF CreateStatusChange
<1>6. CASE CreditRead(s)
  BY <1>3, <1>6 DEF CreditRead
<1> QED
  BY <1>4, <1>5, <1>6

(* What a commit adds to the entries.                                      *)
LEMMA Posted ==
  ASSUME NEW c, NEW a, NEW typ, NEW rel, Post(c, a, typ, rel)
  PROVE  \E e : /\ entries' = entries \cup {e}
                /\ e.customer = c /\ e.amount = a /\ e.type = typ /\ e.related = rel
<1> DEFINE e == [customer |-> c, nr |-> wallet[c].version + 1, amount |-> a,
                 after |-> wallet[c].balance + a, type |-> typ, related |-> rel]
<1>1. entries' = entries \cup {e}
  BY DEF Post
<1>2. e.customer = c /\ e.amount = a /\ e.type = typ /\ e.related = rel
  OBVIOUS
<1> HIDE DEF e
<1> QED
  BY <1>1, <1>2

(* The payer pays, and is one no longer.                                   *)
LEMMA PayingRefunds ==
  ASSUME RInv, IInv', NEW s \in Sessions, Others(s), ProcessRefund(s)
  PROVE  RInv'
<1> USE DEF RInv, IInv, TypeOK
<1>1. pc[s] = "credit" /\ Return(s) /\ UNCHANGED <<orders, refunds, audit>>
  BY DEF ProcessRefund
<1>2. CASE ~SameWallet(s, seenOrder[s].customer)
  <2>1. UNCHANGED entries
    BY <1>2 DEF ProcessRefund
  <2> QED
    BY <1>1, <2>1, StillQuiet, ReturnQuiet
<1>3. CASE SameWallet(s, seenOrder[s].customer)
  <2>1. PICK o \in Orders : o = job[s].order /\ orders[o] \in Order
    BY <1>1, Unmoved DEF SessionInv, OrderThere
  <2>2. /\ seenOrder[s].refunded = 0
        /\ seenOrder[s].amount = orders[o].amount
        /\ seenOrder[s].customer = orders[o].customer
    BY <1>1, <2>1 DEF Knows
  <2>3. Post(orders[o].customer, orders[o].amount, "order_refund", o)
    BY <1>3, <2>1, <2>2 DEF ProcessRefund
  <2>4. PICK e : /\ entries' = entries \cup {e}
                 /\ e.customer = orders[o].customer /\ e.amount = orders[o].amount
                 /\ e.type = "order_refund" /\ e.related = o
    BY <2>3, Posted
  <2>5. Payer(s, o) /\ OrdInv(o) /\ orders[o] # None
    BY <1>1, <2>1 DEF Payer
  <2>6. HandCredits(o) = {} /\ DoneOf(o) = {} /\ orders[o].status = "Refunded"
        /\ \A t \in Sessions \ {s} : ~Payer(t, o)
    BY <2>5 DEF OrdInv, Untouched
  <2>7. Knows(s)' /\ \A q \in Orders : ~Payer(s, q)'
    BY <1>1, IdleKnows
  <2>8. ASSUME NEW t \in Sessions  PROVE Knows(t)'
    BY <1>1, <2>7, OthersKnow
  <2>9. ASSUME NEW r \in Refunds  PROVE AppInv(r)'
    <3>1. RefundEntries(r)' = RefundEntries(r)
      BY <2>4 DEF RefundEntries
    <3>2. /\ (r \in Applied)' <=> r \in Applied
          /\ refunds'[r] = refunds[r] /\ orders' = orders
          /\ RefundEntries(r) \subseteq entries /\ entries \subseteq entries'
      BY <1>1, <2>4 DEF Applied, RefundEntries
    <3>3. AppInv(r)
      OBVIOUS
    <3> HIDE DEF RInv, IInv, TypeOK
    <3> QED
      BY <3>1, <3>2, <3>3 DEF AppInv
  <2>10. ASSUME NEW q \in Orders  PROVE OrdInv(q)'
    <3>1. DoneOf(q)' = DoneOf(q) /\ OrdInv(q)
      BY <1>1 DEF DoneOf, Applied
    <3>2. \A t \in Sessions : Payer(t, q)' => Payer(t, q) /\ t # s
      BY <2>7 DEF Payer, Others
    <3>3. CASE q = o
      <4>1. HandCredits(q)' = {e}
        BY <2>4, <2>6, <3>3 DEF HandCredits
      <4>2. \A t \in Sessions : ~Payer(t, q)'
        BY <2>6, <3>2, <3>3
      <4> QED
        BY <1>1, <2>4, <2>5, <2>6, <3>1, <3>3, <4>1, <4>2 DEF OrdInv
    <3>4. CASE q # o
      <4>1. HandCredits(q)' = HandCredits(q)
        BY <2>4, <3>4 DEF HandCredits
      <4>2. Untouched(q) => Untouched(q)'
        BY <3>1, <3>2, <4>1 DEF Untouched
      <4> QED
        BY <1>1, <3>1, <3>2, <4>1, <4>2 DEF OrdInv
    <3> QED
      BY <3>3, <3>4
  <2> QED
    BY <2>8, <2>9, <2>10
<1> QED
  BY <1>2, <1>3

-----------------------------------------------------------------------------
LEMMA ApplyRefunds ==
  ASSUME RInv, IInv', NEW s \in Sessions, Others(s),
         FindApplied(s) \/ \E r \in Refunds : CreateRefund(s, r)
  PROVE  RInv'
<1> USE DEF RInv, IInv, TypeOK, Goto
<1>1. ASSUME NEW r \in Refunds, CreateRefund(s, r)  PROVE RInv'
  <2>1. pc[s] = "apply" /\ refunds[r] = None /\ pc'[s] = "find"
        /\ UNCHANGED <<orders, entries>>
    BY <1>1 DEF CreateRefund
  <2>2. job[s].customer = orders[job[s].order].customer
    BY <2>1 DEF Knows
  <2>3. \A q \in Refunds : RefundQuiet(q)
    BY <1>1, <2>1, <2>2 DEF CreateRefund, RefundQuiet
  <2>4. Knows(s)' /\ \A o \in Orders : ~Payer(s, o)'
    BY <2>1 DEF Knows, Payer
  <2> QED
    BY <2>1, <2>3, <2>4, StillQuiet, QuietStep
<1>2. CASE FindApplied(s)
  <2>1. pc[s] = "find" /\ UNCHANGED <<orders, refunds, entries>>
    BY <1>2 DEF FindApplied, data
  <2>2. CASE Return(s)
    BY <2>1, <2>2, StillQuiet, ReturnQuiet
  <2>3. CASE ~Return(s)
    <3>1. PICK o \in Orders : o = job[s].order /\ orders[o] \in Order /\ job[s].to = "Refunding"
      BY <2>1, Unmoved DEF SessionInv, OrderThere
    <3>2. /\ seenOrder'[s] = orders[o] /\ pc'[s] = "cas" /\ UNCHANGED job
          /\ IsValidTransition(orders[o].status, "Refunding")
      BY <1>2, <2>3, <3>1 DEF FindApplied
    <3>3. orders[o].status # "Refunded"
      BY <3>1, <3>2 DEF IsValidTransition, ValidTransitions, Order
    <3>4. orders[o].refunded = 0
      BY <3>1, <3>3 DEF OrdInv, Untouched
    <3>5. Knows(s)' /\ \A q \in Orders : ~Payer(s, q)'
      BY <2>1, <3>1, <3>2, <3>4 DEF Knows, Payer, IsValidTransition
    <3> QED
      BY <2>1, <3>5, StillQuiet, QuietStep
  <2> QED
    BY <2>2, <2>3
<1> QED
  BY <1>1, <1>2

LEMMA RejectRefunds ==
  ASSUME RInv, IInv', NEW s \in Sessions, Others(s), RejectRead(s) \/ Reject(s)
  PROVE  RInv'
<1> USE DEF RInv, IInv, TypeOK, Goto
<1>1. PICK r \in Refunds : r = job[s].refund /\ refunds[r] \in Refund
  BY Unmoved DEF SessionInv, RefundThere, RejectRead, Reject
<1>2. PICK o \in Orders : o = refunds[r].order /\ orders[o] \in Order
  BY <1>1 DEF RowInv, OrderThere
<1>3. UNCHANGED entries
  BY DEF RejectRead, Reject
<1>4. ASSUME refunds[r].status = "Pending", refunds' = [refunds EXCEPT ![r].status = "Rejected"]
      PROVE  \A q \in Refunds : RefundQuiet(q)
  BY <1>1, <1>4 DEF RefundQuiet, Refund
<1>5. CASE RejectRead(s)
  <2>1. UNCHANGED orders
    BY <1>5 DEF RejectRead
  <2>2. CASE Return(s)
    <3>1. \A q \in Refunds : RefundQuiet(q)
      BY <1>1, <1>2, <1>4, <1>5, <2>2, StillQuiet DEF RejectRead
    <3> QED
      BY <1>3, <2>1, <2>2, <3>1, StillQuiet, ReturnQuiet
  <2>3. CASE ~Return(s)
    <3>1. /\ seenOrder'[s] = orders[o] /\ orders[o].status = "Refunding"
          /\ pc'[s] = "revert" /\ UNCHANGED refunds
      BY <1>1, <1>2, <1>5, <2>3 DEF RejectRead
    <3>2. Knows(s)' /\ \A q \in Orders : ~Payer(s, q)'
      BY <3>1 DEF Knows, Payer
    <3> QED
      BY <1>3, <2>1, <3>1, <3>2, StillQuiet, QuietStep
  <2> QED
    BY <2>2, <2>3
<1>6. CASE Reject(s)
  <2>1. pc[s] = "revert" /\ Return(s)
    BY <1>6 DEF Reject
  <2>2. CASE UNCHANGED <<refunds, orders>>
    BY <1>3, <2>1, <2>2, StillQuiet, ReturnQuiet
  <2>3. CASE ~UNCHANGED <<refunds, orders>>
    <3>1. /\ refunds[r].status = "Pending" /\ SameOrder(s, o)
          /\ refunds' = [refunds EXCEPT ![r].status = "Rejected"]
          /\ orders' = [orders EXCEPT ![o].status = "Processing", ![o].version = @ + 1]
      BY <1>1, <1>2, <1>6, <2>3 DEF Reject
    <3>2. orders[o].status = "Refunding"
      BY <2>1, <3>1 DEF Knows, SameOrder
    <3>3. /\ OrdersKept /\ orders'[o].status = "Processing"
          /\ orders'[o].refunded = orders[o].refunded
          /\ \A q \in Orders \ {o} : orders'[q] = orders[q]
      BY <1>2, <3>1, Transition DEF Statuses
    <3>4. \A q \in Orders : OrderQuiet(q)
      BY <1>2, <3>2, <3>3 DEF OrderQuiet, OrdersKept
    <3> QED
      BY <1>3, <1>4, <2>1, <3>1, <3>4, StillQuiet, ReturnQuiet
  <2> QED
    BY <2>2, <2>3
<1> QED
  BY <1>5, <1>6

(* An approval completes the order's first application, pays it and moves  *)
(* the order to Refunded, all at once.                                     *)
LEMMA ApproveRefunds ==
  ASSUME RInv, IInv', NEW s \in Sessions, Others(s), ApproveRead(s) \/ Approve(s)
  PROVE  RInv'
<1> USE DEF RInv, IInv, TypeOK
<1>1. CASE ApproveRead(s)
  <2>1. UNCHANGED <<orders, refunds, entries>>
    BY <1>1 DEF ApproveRead, data
  <2>2. CASE Return(s)
    BY <2>1, <2>2, StillQuiet, ReturnQuiet
  <2>3. CASE Goto(s, "commitApprove")
    <3>1. Knows(s)' /\ \A o \in Orders : ~Payer(s, o)'
      BY <2>3 DEF Knows, Payer, Goto
    <3> QED
      BY <2>1, <3>1, StillQuiet, QuietStep
  <2> QED
    BY <1>1, <2>2, <2>3 DEF ApproveRead
<1>2. CASE Approve(s)
  <2>1. pc[s] = "commitApprove" /\ Return(s)
    BY <1>2 DEF Approve
  <2>2. PICK r \in Refunds : r = job[s].refund /\ refunds[r] \in Refund
    BY <2>1, Unmoved DEF SessionInv, RefundThere
  <2>3. PICK o \in Orders : o = refunds[r].order /\ orders[o] \in Order
    BY <2>2 DEF RowInv, OrderThere
  <2>4. PICK a \in Nat \ {0} : a = refunds[r].amount
    BY <2>2 DEF Refund
  <2>5. CASE ~(/\ refunds[r].status = "Pending"
               /\ SameWallet(s, refunds[r].customer)
               /\ Approvable(o, a))
    <3>1. UNCHANGED <<orders, refunds, entries>>
      BY <1>2, <2>2, <2>3, <2>4, <2>5 DEF Approve, Unclaimed
    <3> QED
      BY <2>1, <3>1, StillQuiet, ReturnQuiet
  <2>6. CASE /\ refunds[r].status = "Pending"
             /\ SameWallet(s, refunds[r].customer)
             /\ Approvable(o, a)
    <3>1. /\ refunds' = [refunds EXCEPT ![r].status = "Completed"]
          /\ Post(refunds[r].customer, a, "refund", r)
          /\ orders' = ApprovedOrders(o, a)
      BY <1>2, <2>2, <2>3, <2>4, <2>6 DEF Approve
    <3>2. orders[o].status # "Refunded" /\ orders[o].refunded + a <= orders[o].amount
      BY <2>6 DEF Approvable
    <3>3. Untouched(o) /\ orders[o].refunded = 0
      BY <2>3, <3>2 DEF OrdInv, Untouched
    <3>4. a <= orders[o].amount
      BY <3>2, <3>3
    <3>5. /\ OrdersKept /\ orders'[o].status = "Refunded"
          /\ orders'[o].refunded = orders[o].refunded + a
          /\ \A q \in Orders \ {o} : orders'[q] = orders[q]
      BY <2>3, <3>1, ApprovedOrder
    <3>6. orders'[o].refunded = a /\ orders'[o].amount = orders[o].amount
          /\ orders'[o].customer = orders[o].customer /\ orders'[o] # None
      BY <2>3, <3>3, <3>5 DEF OrdersKept
    <3>7. PICK e : /\ entries' = entries \cup {e}
                   /\ e.customer = refunds[r].customer /\ e.amount = a
                   /\ e.type = "refund" /\ e.related = r
      BY <3>1, Posted
    <3>8. PICK row : /\ refunds' = [refunds EXCEPT ![r] = row]
                     /\ row \in Refund /\ row.status = "Completed" /\ row.order = o
                     /\ row.amount = a /\ row.customer = refunds[r].customer
      <4>1. [refunds[r] EXCEPT !.status = "Completed"] \in Refund
        BY <2>2 DEF Refund
      <4>2. ASSUME NEW row, row = [refunds[r] EXCEPT !.status = "Completed"]
            PROVE  /\ row.status = "Completed" /\ row.order = o
                   /\ row.amount = a /\ row.customer = refunds[r].customer
        BY <2>2, <2>3, <2>4, <4>2 DEF Refund
      <4>3. refunds' = [refunds EXCEPT ![r] = [refunds[r] EXCEPT !.status = "Completed"]]
        BY <3>1
      <4> QED
        BY <4>1, <4>2, <4>3
    <3>9. refunds'[r] = row /\ \A q \in Refunds \ {r} : refunds'[q] = refunds[q]
      BY <3>8
    <3>10. AppInv(r) /\ refunds[r] # None /\ refunds[r].status = "Pending"
      BY <2>2, <2>6
    <3>11. refunds[r].customer = orders[o].customer /\ RefundEntries(r) = {}
      BY <2>3, <3>10 DEF AppInv, Applied
    <3>12. Knows(s)' /\ \A q \in Orders : ~Payer(s, q)'
      BY <2>1, IdleKnows
    <3>13. ASSUME NEW t \in Sessions  PROVE Knows(t)'
      BY <3>5, <3>12, OthersKnow DEF OrdersKept
    <3>14. ASSUME NEW q \in Refunds  PROVE AppInv(q)'
      <4>1. CASE q = r
        <5>1. RefundEntries(q)' = {e}
          BY <3>7, <3>11, <4>1 DEF RefundEntries
        <5>2. (q \in Applied)' /\ refunds'[q] = row
          BY <2>2, <3>8, <3>9, <4>1 DEF Applied
        <5> QED
          BY <3>6, <3>7, <3>8, <3>11, <5>1, <5>2 DEF AppInv
      <4>2. CASE q # r
        <5>1. RefundEntries(q)' = RefundEntries(q)
          BY <3>7, <4>2 DEF RefundEntries
        <5>2. refunds'[q] = refunds[q] /\ ((q \in Applied)' <=> q \in Applied)
              /\ RefundEntries(q) \subseteq entries /\ entries \subseteq entries'
          BY <3>7, <3>9, <4>2 DEF Applied, RefundEntries
        <5>3. AppInv(q) /\ RowInv(q)
          OBVIOUS
        <5>4. q \in Applied => orders'[refunds[q].order].customer = orders[refunds[q].order].customer
          BY <3>5, <5>3 DEF RowInv, OrderThere, Applied, OrdersKept
        <5> HIDE DEF RInv, IInv, TypeOK
        <5> QED
          BY <5>1, <5>2, <5>3, <5>4 DEF AppInv
      <4> QED
        BY <4>1, <4>2
    <3>15. ASSUME NEW q \in Orders  PROVE OrdInv(q)'
      <4>1. OrdInv(q) /\ HandCredits(q)' = HandCredits(q)
        BY <3>7 DEF HandCredits
      <4>2. \A t \in Sessions : Payer(t, q)' => Payer(t, q)
        BY <3>12 DEF Payer, Others
      <4>3. CASE q = o
        <5>1. DoneOf(q)' = {r}
          BY <2>2, <3>3, <3>8, <3>9, <4>3 DEF DoneOf, Applied, Untouched
        <5>2. HandCredits(q)' = {} /\ \A t \in Sessions : ~Payer(t, q)'
          BY <3>3, <4>1, <4>2, <4>3 DEF Untouched
        <5>3. refunds'[r].amount = a
          BY <3>8, <3>9
        <5> HIDE DEF RInv, IInv, TypeOK
        <5> QED
          BY <3>4, <3>5, <3>6, <4>3, <5>1, <5>2, <5>3 DEF OrdInv
      <4>4. CASE q # o
        <5>1. DoneOf(q)' = DoneOf(q)
          BY <2>3, <3>8, <3>9, <4>4 DEF DoneOf, Applied
        <5>2. Untouched(q) => Untouched(q)'
          BY <4>1, <4>2, <5>1 DEF Untouched
        <5>3. orders'[q] = orders[q] /\ \A x \in DoneOf(q) : refunds'[x] = refunds[x]
          BY <2>3, <3>5, <3>9, <4>4 DEF DoneOf, Applied
        <5> HIDE DEF RInv, IInv, TypeOK
        <5> QED
          BY <4>1, <4>2, <5>1, <5>2, <5>3 DEF OrdInv
      <4> QED
        BY <4>3, <4>4
    <3> QED
      BY <3>13, <3>14, <3>15
  <2> QED
    BY <2>5, <2>6
<1> QED
  BY <1>1, <1>2

LEMMA PaysInRefunds ==
  ASSUME RInv, IInv', PaysIn
  PROVE  RInv'
<1>1. UNCHANGED <<orders, refunds, pc, job, seenOrder>>
  BY DEF PaysIn, local
<1>2. NoCredit
  BY DEF PaysIn, Post, NoCredit
<1>3. \A t \in Sessions : Knows(t)' /\ \A o \in Orders : Payer(t, o)' => Payer(t, o)
  BY <1>1 DEF RInv, Knows, IsValidTransition, Payer
<1> QED
  BY <1>1, <1>2, <1>3, StillQuiet, QuietKept

LEMMA NextRefunds == RInv /\ [Next]_vars => RInv'
<1> SUFFICES ASSUME RInv, [Next]_vars  PROVE RInv'
  OBVIOUS
<1>1. IInv /\ IInv'
  BY NextInv DEF RInv
<1>2. ASSUME NEW s \in Sessions, Start(s)  PROVE RInv'
  BY <1>1, <1>2, StartRefunds
<1>3. ASSUME NEW s \in Sessions, Continue(s)  PROVE RInv'
  <2>1. Others(s)
    BY <1>1, <1>3, OnlyOne
  <2> QED
    BY <1>1, <1>3, <2>1, PaymentRefunds, TransitionRefunds, AuditRefunds, PayingRefunds,
       ApplyRefunds, RejectRefunds, ApproveRefunds DEF Continue
<1>4. ASSUME NEW s \in Sessions, Fail(s)  PROVE RInv'
  <2>1. Others(s)
    BY <1>1, <1>4, OnlyOne
  <2> QED
    BY <1>1, <1>4, <2>1, StillQuiet, ReturnQuiet DEF Fail, data
<1>5. ASSUME NEW c \in Customers, Recharge(c)  PROVE RInv'
  BY <1>1, <1>5, RechargePaysIn, PaysInRefunds
<1>6. CASE UNCHANGED vars
  <2>1. UNCHANGED <<orders, refunds, entries, pc, job, seenOrder>>
    BY <1>6 DEF vars, data, local
  <2>2. \A t \in Sessions : Knows(t)' /\ \A o \in Orders : Payer(t, o)' => Payer(t, o)
    BY <2>1 DEF RInv, Knows, IsValidTransition, Payer
  <2> QED
    BY <1>1, <2>1, <2>2, StillQuiet, QuietKept
<1> QED
  BY <1>2, <1>3, <1>4, <1>5, <1>6 DEF Next, Serve

LEMMA RefundInvariant == Spec => []RInv
  BY InitRefunds, NextRefunds, PTL DEF Spec

-----------------------------------------------------------------------------
LEMMA CreditedByInvariant == RInv => CreditedOnce
<1> SUFFICES ASSUME RInv, NEW o \in Created, NEW e \in CreditsOf(o)
             PROVE  /\ orders[o].status = "Refunded"
                    /\ CreditsOf(o) = {e}
                    /\ e.amount > 0
                    /\ e.amount <= orders[o].amount
                    /\ e.customer = orders[o].customer
  BY DEF CreditedOnce
<1>1. o \in Orders /\ orders[o] # None /\ OrdInv(o) /\ orders[o] \in Order
  BY DEF Created, RInv, IInv, TypeOK
<1>2. orders[o].amount \in Nat \ {0}
  BY <1>1 DEF Order
<1>3. ASSUME NEW f \in CreditsOf(o), f \notin HandCredits(o)
      PROVE  \E r \in DoneOf(o) : /\ RefundEntries(r) = {f}
                                   /\ f.amount = refunds[r].amount
                                   /\ f.customer = orders[o].customer
  <2>1. f \in entries
    BY DEF CreditsOf
  <2>2. PICK r \in Applied : f.type = "refund" /\ refunds[r].order = o /\ f.related = r
    BY <1>3 DEF CreditsOf, HandCredits
  <2>3. f \in RefundEntries(r) /\ r \in Refunds
    BY <2>1, <2>2 DEF RefundEntries, Applied
  <2>4. AppInv(r)
    BY <2>3 DEF RInv
  <2> QED
    BY <2>2, <2>3, <2>4 DEF AppInv, DoneOf
<1>4. CASE e \in HandCredits(o)
  <2>1. DoneOf(o) = {}
    BY <1>1, <1>4 DEF OrdInv
  <2>2. \A f \in CreditsOf(o) : f \in HandCredits(o)
    BY <1>3, <2>1
  <2> QED
    BY <1>1, <1>2, <1>4, <2>2 DEF OrdInv, Untouched
<1>5. CASE e \notin HandCredits(o)
  <2>1. PICK r \in DoneOf(o) : /\ RefundEntries(r) = {e}
                               /\ e.amount = refunds[r].amount
                               /\ e.customer = orders[o].customer
    BY <1>3, <1>5
  <2>2. HandCredits(o) = {} /\ \A q \in DoneOf(o) : q = r
    BY <1>1, <2>1 DEF OrdInv
  <2>3. \A f \in CreditsOf(o) : f = e
    BY <1>3, <2>1, <2>2
  <2>4. refunds[r].amount \in Nat \ {0} /\ refunds[r].amount <= orders[o].amount
    BY <1>1, <2>1 DEF OrdInv, DoneOf, Applied, RInv, IInv, TypeOK, Refund
  <2>5. orders[o].status = "Refunded"
    BY <1>1, <2>1 DEF OrdInv, Untouched
  <2> QED
    BY <2>1, <2>3, <2>4, <2>5
<1> QED
  BY <1>4, <1>5

(* However many applications are approved and whoever moves the order by   *)
(* hand, its customer gets money back at most once, never more than was    *)
(* paid, and only when the order has reached Refunded.                     *)
THEOREM CreditedAtMostOnce == Spec => []CreditedOnce
  BY CreditedByInvariant, RefundInvariant, PTL

LEMMA CompletedByInvariant == RInv => CompletedIsCredited
  BY DEF RInv, AppInv, CompletedIsCredited

(* A completed application has been paid, exactly its amount, to its       *)
(* customer; no other application has.                                     *)
THEOREM CompletedIsPaid == Spec => []CompletedIsCredited
  BY CompletedByInvariant, RefundInvariant, PTL

LEMMA AmountByInvariant == RInv => RefundAmountAgrees
  BY DEF RInv, OrdInv, DoneOf, RefundAmountAgrees, Created

(* The order's refund_amount is the amount of its completed application,   *)
(* and zero without one.                                                   *)
THEOREM RefundAmountIsTheApplications == Spec => []RefundAmountAgrees
  BY AmountByInvariant, RefundInvariant, PTL

Moves ==
  /\ \A o \in Created : orders'[o] # orders[o] =>
       \/ IsValidTransition(orders[o].status, orders'[o].status)
       \/ orders[o].status = "Refunding" /\ orders'[o].status \in {"Refunded", "Processing"}
  /\ \A r \in Applied : refunds'[r] # refunds[r] => refunds[r].status = "Pending"

LEMMA StepMoves == RInv /\ [Next]_vars => [Moves]_<<orders, refunds>>
<1> SUFFICES ASSUME RInv, Next  PROVE Moves \/ UNCHANGED <<orders, refunds>>
  BY DEF vars, data
<1> USE DEF Moves, RInv, IInv, TypeOK
<1>1. ASSUME NEW s \in Sessions, NEW o \in Orders, CreateOrder(s, o)  PROVE Moves
  BY <1>1 DEF CreateOrder, InsertRolledBack, Created
<1>2. ASSUME NEW s \in Sessions, UpdateStatusCAS(s)
      PROVE  Moves \/ UNCHANGED <<orders, refunds>>
  <2>1. PICK o \in Orders : o = job[s].order /\ orders[o] \in Order
    BY <1>2, Unmoved DEF SessionInv, OrderThere, UpdateStatusCAS
  <2>2. PICK st \in Statuses : st = job[s].to
    BY <1>2, Unmoved DEF SessionInv, UpdateStatusCAS
  <2>3. CASE SameOrder(s, o)
    <3>1. orders' = [orders EXCEPT ![o].status = st, ![o].version = @ + 1] /\ UNCHANGED refunds
      BY <1>2, <2>1, <2>2, <2>3 DEF UpdateStatusCAS
    <3>2. IsValidTransition(orders[o].status, st)
      BY <1>2, <2>1, <2>2, <2>3 DEF UpdateStatusCAS, Knows, SameOrder
    <3>3. orders'[o].status = st /\ \A q \in Orders \ {o} : orders'[q] = orders[q]
      BY <2>1, <3>1, Transition
    <3> QED
      BY <3>1, <3>2, <3>3 DEF Created
  <2>4. CASE ~SameOrder(s, o)
    BY <1>2, <2>1, <2>4 DEF UpdateStatusCAS
  <2> QED
    BY <2>3, <2>4
<1>3. ASSUME NEW s \in Sessions, NEW r \in Refunds, CreateRefund(s, r)  PROVE Moves
  BY <1>3 DEF CreateRefund, Applied
<1>4. ASSUME NEW s \in Sessions, Approve(s)
      PROVE  Moves \/ UNCHANGED <<orders, refunds>>
  <2>1. PICK r \in Refunds : r = job[s].refund /\ refunds[r] \in Refund
    BY <1>4, Unmoved DEF SessionInv, RefundThere, Approve
  <2>2. PICK o \in Orders : o = refunds[r].order /\ orders[o] \in Order
    BY <2>1 DEF RowInv, OrderThere
  <2>3. CASE ~UNCHANGED <<orders, refunds>>
    <3>0. PICK a \in Int : a = refunds[r].amount
      BY <2>1 DEF Refund
    <3>1. /\ refunds[r].status = "Pending" /\ Approvable(o, a)
          /\ refunds' = [refunds EXCEPT ![r].status = "Completed"]
          /\ orders' = ApprovedOrders(o, a)
      BY <1>4, <2>1, <2>2, <2>3, <3>0 DEF Approve, Unclaimed
    <3>2. orders'[o].status = "Refunded" /\ \A q \in Orders \ {o} : orders'[q] = orders[q]
      BY <2>2, <3>1, ApprovedOrder
    <3>3. orders[o].status = "Refunding" \/ IsValidTransition(orders[o].status, "Refunded")
      BY <3>1 DEF Approvable, IsValidTransition, ValidTransitions, Statuses
    <3> QED
      BY <2>1, <3>1, <3>2, <3>3 DEF Created, Applied
  <2> QED
    BY <2>3
<1>5. ASSUME NEW s \in Sessions, RejectRead(s) \/ Reject(s)
      PROVE  Moves \/ UNCHANGED <<orders, refunds>>
  <2>1. PICK r \in Refunds : r = job[s].refund /\ refunds[r] \in Refund
    BY <1>5, Unmoved DEF SessionInv, RefundThere, RejectRead, Reject
  <2>2. PICK o \in Orders : o = refunds[r].order /\ orders[o] \in Order
    BY <2>1 DEF RowInv, OrderThere
  <2>3. CASE RejectRead(s)
    BY <2>1, <2>3 DEF RejectRead, Applied
  <2>4. CASE Reject(s) /\ ~UNCHANGED <<orders, refunds>>
    <3>1. /\ refunds[r].status = "Pending" /\ SameOrder(s, o)
          /\ refunds' = [refunds EXCEPT ![r].status = "Rejected"]
          /\ orders' = [orders EXCEPT ![o].status = "Processing", ![o].version = @ + 1]
      BY <2>1, <2>2, <2>4 DEF Reject
    <3>2. orders[o].status = "Refunding"
      BY <2>4, <3>1 DEF Knows, SameOrder, Reject
    <3>3. orders'[o].status = "Processing" /\ \A q \in Orders \ {o} : orders'[q] = orders[q]
      BY <2>2, <3>1, Transition DEF Statuses
    <3> QED
      BY <2>1, <3>1, <3>2, <3>3 DEF Created, Applied
  <2> QED
    BY <1>5, <2>3, <2>4
<1>6. ASSUME NEW s \in Sessions, Start(s) \/ Fail(s)  PROVE UNCHANGED <<orders, refunds>>
  BY <1>6 DEF Start, FindByCustomerOrderID, FindOrder, TransitionRefused, ApplyCheck,
     ReviewCheck, Fail, vars, data
<1>7. ASSUME NEW c \in Customers, Recharge(c)  PROVE UNCHANGED <<orders, refunds>>
  BY <1>7 DEF Recharge
<1>8. ASSUME NEW s \in Sessions,
             \/ DebitRead(s) \/ CreateStatusChange(s) \/ CreditRead(s) \/ ProcessRefund(s)
             \/ FindApplied(s) \/ ApproveRead(s)
      PROVE  UNCHANGED <<orders, refunds>>
  BY <1>8 DEF DebitRead, CreateStatusChange, CreditRead, ProcessRefund, FindApplied,
     ApproveRead, data
<1> HIDE DEF Moves, RInv, IInv, TypeOK
<1> QED
  BY <1>1, <1>2, <1>3, <1>4, <1>5, <1>6, <1>7, <1>8 DEF Next, Serve, Continue

(* An order moves along the table, or by an approval or a rejection from   *)
(* Refunding, never from a status another session has left; a final order  *)
(* and a reviewed application stay what they are.                          *)
THEOREM OrdersMoveAlongTheTable == Spec => StatusMoves
<1>1. Spec => [][Moves]_<<orders, refunds>>
  BY StepMoves, RefundInvariant, PTL DEF Spec
<1> QED
  BY <1>1 DEF StatusMoves, Moves

-----------------------------------------------------------------------------
(* What session s remembers of order o: at version n its status was st.    *)
Recalls(s, o, n, st) ==
  \/ /\ pc[s] \in {"cas", "audit"} /\ job[s].order = o
     /\ n = seenOrder[s].version /\ st = seenOrder[s].status
  \/ /\ pc[s] = "audit" /\ job[s].order = o
     /\ n = seenOrder[s].version + 1 /\ st = job[s].to
  \/ /\ pc[s] = "revert" /\ refunds[job[s].refund].order = o
     /\ n = seenOrder[s].version /\ st = seenOrder[s].status

Recorded(o, n, st) ==
  \E ch \in audit : /\ ch.order = o
                    /\ (n = ch.nr /\ st = ch.to) \/ (n = ch.nr - 1 /\ st = ch.from)

IsNow(o, n, st) == orders[o] # None /\ n = orders[o].version /\ st = orders[o].status

Fact(o, n, st) ==
  IsNow(o, n, st) \/ Recorded(o, n, st) \/ \E s \in Sessions : Recalls(s, o, n, st)

Consistent(o) ==
  \A n, st, tu :
    /\ Fact(o, n, st) => orders[o] # None /\ n <= orders[o].version
    /\ Fact(o, n, st) /\ Fact(o, n, tu) => st = tu

HInv == RInv /\ \A o \in Orders : Consistent(o)

LEMMA InitHistory == Init => HInv
<1> SUFFICES ASSUME Init  PROVE HInv
  OBVIOUS
<1>1. RInv
  BY InitRefunds
<1>2. ASSUME NEW o, NEW n, NEW st, o \in Orders  PROVE ~Fact(o, n, st)
  BY <1>2 DEF Init, Fact, IsNow, Recorded, Recalls
<1> QED
  BY <1>1, <1>2 DEF HInv, Consistent

(* Of an order nothing is forgotten that matters, and nothing new is       *)
(* learned but of versions it has just reached.                            *)
OldNews(o) ==
  /\ orders[o] # None => orders'[o] # None /\ orders'[o].version = orders[o].version
  /\ \A n, st : Fact(o, n, st)' => Fact(o, n, st)

NewNews(o) ==
  /\ orders'[o] # None
  /\ \A n, st : Fact(o, n, st)' =>
       \/ Fact(o, n, st) /\ n <= orders[o].version /\ n <= orders'[o].version
       \/ /\ orders[o] = None \/ ~(n <= orders[o].version)
          /\ n <= orders'[o].version
          /\ \A tu : Fact(o, n, tu)' => tu = st

LEMMA NewsConsistent ==
  ASSUME NEW o \in Orders, Consistent(o), orders[o] \in Order \cup {None},
         orders'[o] \in Order \cup {None}, OldNews(o) \/ NewNews(o)
  PROVE  Consistent(o)'
<1>1. CASE OldNews(o)
  BY <1>1 DEF OldNews, Consistent
<1>2. CASE NewNews(o)
  <2> SUFFICES ASSUME NEW n, NEW st, NEW tu, Fact(o, n, st)'
               PROVE  /\ orders'[o] # None /\ n <= orders'[o].version
                      /\ Fact(o, n, tu)' => st = tu
    BY DEF Consistent
  <2>1. CASE Fact(o, n, st) /\ n <= orders[o].version /\ n <= orders'[o].version
    <3>1. orders[o] # None
      BY <2>1 DEF Consistent
    <3> QED
      BY <1>2, <2>1, <3>1 DEF NewNews, Consistent
  <2>2. CASE ~(Fact(o, n, st) /\ n <= orders[o].version /\ n <= orders'[o].version)
    BY <1>2, <2>2 DEF NewNews
  <2> QED
    BY <2>1, <2>2
<1> QED
  BY <1>1, <1>2

(* Which order an application is about never changes.                      *)
SameOrders == \A r \in Refunds : refunds[r] \in Refund => refunds'[r].order = refunds[r].order

LEMMA ApplicationsKeepOrder ==
  ASSUME RInv, NEW s \in Sessions, Start(s) \/ Continue(s) \/ Fail(s)
  PROVE  SameOrders
<1> USE DEF RInv, IInv, TypeOK, SameOrders
<1>1. UNCHANGED refunds => SameOrders
  OBVIOUS
<1>2. ASSUME NEW r \in Refunds, NEW st, refunds' = [refunds EXCEPT ![r].status = st]
      PROVE  SameOrders
  BY <1>2 DEF Refund
<1>3. CASE Start(s) \/ Fail(s)
  BY <1>1, <1>3 DEF Start, FindByCustomerOrderID, FindOrder, TransitionRefused, ApplyCheck,
     ReviewCheck, Fail, vars, data
<1>4. CASE \/ DebitRead(s) \/ \E o \in Orders : CreateOrder(s, o)
           \/ UpdateStatusCAS(s) \/ CreateStatusChange(s) \/ CreditRead(s)
           \/ ProcessRefund(s) \/ FindApplied(s) \/ ApproveRead(s)
  BY <1>1, <1>4 DEF DebitRead, CreateOrder, UpdateStatusCAS, CreateStatusChange, CreditRead,
     ProcessRefund, FindApplied, ApproveRead, data
<1>5. ASSUME NEW r \in Refunds, CreateRefund(s, r)  PROVE SameOrders
  BY <1>5 DEF CreateRefund
<1>6. CASE Approve(s) \/ RejectRead(s) \/ Reject(s)
  <2>1. job[s].refund \in Refunds
    BY <1>6, Unmoved DEF Approve, RejectRead, Reject, SessionInv, RefundThere
  <2> QED
    BY <1>1, <1>2, <1>6, <2>1 DEF Approve, Unclaimed, RejectRead, Reject
<1> QED
  BY <1>3, <1>4, <1>5, <1>6 DEF Continue

LEMMA RecallsStay ==
  ASSUME RInv, NEW s \in Sessions, Others(s), SameOrders, NEW t \in Sessions \ {s},
         NEW o \in Orders, NEW n, NEW st
  PROVE  Recalls(t, o, n, st)' <=> Recalls(t, o, n, st)
<1>1. pc[t] = "revert" => job[t].refund \in Refunds /\ refunds[job[t].refund] \in Refund
  BY DEF RInv, IInv, SessionInv, RefundThere
<1> QED
  BY <1>1 DEF Recalls, Others, SameOrders

LEMMA FactTyped ==
  ASSUME RInv, NEW o \in Orders, NEW n, NEW st, Fact(o, n, st)
  PROVE  n \in Int
<1>1. CASE IsNow(o, n, st)
  BY <1>1 DEF IsNow, RInv, IInv, TypeOK, Order
<1>2. CASE Recorded(o, n, st)
  BY <1>2 DEF Recorded, RInv, IInv, TypeOK, Audit
<1>3. ASSUME NEW s \in Sessions, Recalls(s, o, n, st)  PROVE n \in Int
  <2>1. seenOrder[s] \in Order
    BY <1>3 DEF Recalls, RInv, IInv, SessionInv
  <2>2. seenOrder[s].version \in Int
    BY <2>1 DEF Order
  <2> QED
    BY <1>3, <2>2 DEF Recalls
<1> QED
  BY <1>1, <1>2, <1>3 DEF Fact

(* A step that leaves the orders alone.                                    *)
LEMMA QuietHistory ==
  ASSUME HInv, RInv', NEW s \in Sessions, Others(s), SameOrders, UNCHANGED orders,
         ASSUME NEW o \in Orders, NEW n, NEW st, Recalls(s, o, n, st)' PROVE Fact(o, n, st),
         ASSUME NEW o \in Orders, NEW n, NEW st, Recorded(o, n, st)' PROVE Fact(o, n, st)
  PROVE  HInv'
<1> SUFFICES ASSUME NEW o \in Orders  PROVE Consistent(o)'
  BY DEF HInv
<1>1. ASSUME NEW n, NEW st, Fact(o, n, st)'  PROVE Fact(o, n, st)
  <2>1. CASE IsNow(o, n, st)'
    BY <2>1 DEF Fact, IsNow
  <2>2. CASE Recorded(o, n, st)'
    BY <2>2
  <2>3. ASSUME NEW t \in Sessions, Recalls(t, o, n, st)'  PROVE Fact(o, n, st)
    <3>1. CASE t = s
      BY <2>3, <3>1
    <3>2. CASE t # s
      <4>1. Recalls(t, o, n, st)
        BY <2>3, <3>2, RecallsStay DEF HInv
      <4> QED
        BY <4>1 DEF Fact
    <3> QED
      BY <3>1, <3>2
  <2> QED
    BY <1>1, <2>1, <2>2, <2>3 DEF Fact
<1>2. OldNews(o)
  BY <1>1 DEF OldNews
<1> QED
  BY <1>2, NewsConsistent DEF HInv, RInv, IInv, TypeOK

LEMMA RecordedStay ==
  UNCHANGED audit => \A o, n, st : Recorded(o, n, st)' => Fact(o, n, st)
  BY DEF Recorded, Fact

(* Reads of an order, and steps that only forget.                          *)
LEMMA ForgettingHistory ==
  ASSUME HInv, RInv', NEW s \in Sessions, Others(s), SameOrders, UNCHANGED <<orders, audit>>,
         pc'[s] \notin {"cas", "audit", "revert"}
  PROVE  HInv'
<1>1. ASSUME NEW o, NEW n, NEW st  PROVE ~Recalls(s, o, n, st)'
  BY DEF Recalls
<1> QED
  BY <1>1, RecordedStay, QuietHistory

LEMMA ReadingHistory ==
  ASSUME HInv, RInv', NEW s \in Sessions, Others(s), SameOrders, UNCHANGED <<orders, audit>>,
         NEW o \in Orders, orders[o] # None, seenOrder'[s] = orders[o],
         \/ pc'[s] = "cas" /\ job'[s].order = o
         \/ pc'[s] = "revert" /\ refunds'[job'[s].refund].order = o
  PROVE  HInv'
<1>1. ASSUME NEW q \in Orders, NEW n, NEW st, Recalls(s, q, n, st)'  PROVE Fact(q, n, st)
  BY <1>1 DEF Recalls, Fact, IsNow
<1> QED
  BY <1>1, RecordedStay, QuietHistory

LEMMA OrdersAloneHistory ==
  ASSUME HInv, RInv', NEW s \in Sessions, Others(s), SameOrders,
         \/ Start(s) \/ Fail(s) \/ DebitRead(s) \/ CreditRead(s) \/ ProcessRefund(s)
         \/ FindApplied(s) \/ ApproveRead(s) \/ RejectRead(s)
         \/ \E r \in Refunds : CreateRefund(s, r)
  PROVE  HInv'
<1> USE DEF HInv, RInv, IInv, TypeOK, Goto
<1>1. UNCHANGED <<orders, audit>>
  BY DEF Start, FindByCustomerOrderID, FindOrder, TransitionRefused, ApplyCheck, ReviewCheck,
     Fail, DebitRead, CreditRead, ProcessRefund, FindApplied, ApproveRead, RejectRead,
     CreateRefund, vars, data
<1>2. Return(s) => pc'[s] = "idle"
  BY DEF Return
<1>3. CASE pc'[s] \notin {"cas", "audit", "revert"}
  <2> HIDE DEF HInv, RInv, IInv, TypeOK, Goto
  <2> QED
    BY <1>1, <1>3, ForgettingHistory
<1>4. ASSUME NEW o \in Orders, NEW to \in Statuses, FindOrder(s, o, to)  PROVE HInv'
  <2>1. orders[o] # None /\ seenOrder'[s] = orders[o] /\ pc'[s] = "cas" /\ job'[s].order = o
    BY <1>4 DEF FindOrder, Blank
  <2> HIDE DEF HInv, RInv, IInv, TypeOK, Goto
  <2> QED
    BY <1>1, <2>1, ReadingHistory
<1>5. CASE UNCHANGED vars
  <2>1. \A o, n, st : Recalls(s, o, n, st)' => Fact(o, n, st)
    BY <1>5 DEF vars, data, local, Recalls, Fact
  <2> HIDE DEF HInv, RInv, IInv, TypeOK, Goto
  <2> QED
    BY <1>1, <2>1, RecordedStay, QuietHistory
<1>6. CASE FindApplied(s)
  <2>1. PICK o \in Orders : o = job[s].order /\ orders[o] \in Order
    BY <1>6, Unmoved DEF FindApplied, SessionInv, OrderThere
  <2>2. CASE Return(s)
    BY <1>2, <1>3, <2>2
  <2>3. CASE ~Return(s)
    <3>1. seenOrder'[s] = orders[o] /\ pc'[s] = "cas" /\ job'[s].order = o /\ orders[o] # None
      BY <1>6, <2>1, <2>3 DEF FindApplied
    <3> HIDE DEF HInv, RInv, IInv, TypeOK, Goto
    <3> QED
      BY <1>1, <3>1, ReadingHistory
  <2> QED
    BY <2>2, <2>3
<1>7. CASE RejectRead(s)
  <2>1. PICK r \in Refunds : r = job[s].refund /\ refunds[r] \in Refund
    BY <1>7, Unmoved DEF RejectRead, SessionInv, RefundThere
  <2>2. PICK o \in Orders : o = refunds[r].order /\ orders[o] \in Order
    BY <2>1 DEF RowInv, OrderThere
  <2>3. CASE Return(s)
    BY <1>2, <1>3, <2>3
  <2>4. CASE ~Return(s)
    <3>1. /\ seenOrder'[s] = orders[o] /\ pc'[s] = "revert" /\ orders[o] # None
          /\ UNCHANGED <<refunds, job>>
      BY <1>7, <2>1, <2>2, <2>4 DEF RejectRead
    <3>2. refunds'[job'[s].refund].order = o
      BY <2>1, <2>2, <3>1
    <3> HIDE DEF HInv, RInv, IInv, TypeOK, Goto
    <3> QED
      BY <1>1, <3>1, <3>2, ReadingHistory
  <2> QED
    BY <2>3, <2>4
<1>8. CASE Start(s)
  <2>1. ASSUME NEW c \in Customers, NEW k \in Keys \cup {None}, NEW p \in Prices,
               FindByCustomerOrderID(s, c, k, p)
        PROVE  HInv'
    BY <1>3, <2>1 DEF FindByCustomerOrderID
  <2>2. ASSUME NEW c \in Customers, NEW o \in Orders, NEW a \in RefundSums,
               ApplyCheck(s, c, o, a)
        PROVE  HInv'
    BY <1>3, <2>2 DEF ApplyCheck
  <2>3. ASSUME NEW r \in Refunds, NEW verdict \in {"approve", "reject"},
               ReviewCheck(s, r, verdict)
        PROVE  HInv'
    BY <1>3, <2>3 DEF ReviewCheck
  <2> HIDE DEF HInv, RInv, IInv, TypeOK, Goto
  <2> QED
    BY <1>4, <1>5, <1>8, <2>1, <2>2, <2>3 DEF Start, TransitionRefused
<1>9. CASE \/ Fail(s) \/ DebitRead(s) \/ CreditRead(s) \/ ProcessRefund(s) \/ ApproveRead(s)
           \/ \E r \in Refunds : CreateRefund(s, r)
  <2>1. pc'[s] \notin {"cas", "audit", "revert"}
    BY <1>2, <1>9 DEF Fail, DebitRead, CreditRead, ProcessRefund, ApproveRead, CreateRefund
  <2> QED
    BY <1>3, <2>1
<1> QED
  BY <1>6, <1>7, <1>8, <1>9

(* The audit row records what its session remembers.                       *)
LEMMA AuditHistory ==
  ASSUME HInv, RInv', NEW s \in Sessions, Others(s), SameOrders, CreateStatusChange(s)
  PROVE  HInv'
<1> DEFINE ch == Change(job[s].order, seenOrder[s].status, job[s].to, seenOrder[s].version + 1)
<1>1. pc[s] = "audit" /\ UNCHANGED orders /\ audit' \subseteq audit \cup {ch}
  BY DEF CreateStatusChange
<1>2. pc'[s] \notin {"cas", "audit", "revert"}
  BY DEF CreateStatusChange, Return, Goto, HInv, RInv, IInv, TypeOK
<1>3. seenOrder[s].version \in Nat
  BY <1>1 DEF HInv, RInv, IInv, SessionInv, Order
<1>4. ASSUME NEW o \in Orders, NEW n, NEW st, Recorded(o, n, st)'  PROVE Fact(o, n, st)
  <2>1. PICK x \in audit' : /\ x.order = o
                            /\ (n = x.nr /\ st = x.to) \/ (n = x.nr - 1 /\ st = x.from)
    BY <1>4 DEF Recorded
  <2>2. CASE x \in audit
    BY <2>1, <2>2 DEF Fact, Recorded
  <2>3. CASE x = ch
    <3>1. /\ ch.order = job[s].order /\ ch.nr = seenOrder[s].version + 1
          /\ ch.from = seenOrder[s].status /\ ch.to = job[s].to
      BY DEF Change
    <3>2. ch.nr - 1 = seenOrder[s].version
      BY <1>3, <3>1
    <3> HIDE DEF ch
    <3>3. Recalls(s, o, n, st)
      BY <1>1, <2>1, <2>3, <3>1, <3>2 DEF Recalls
    <3> QED
      BY <3>3 DEF Fact
  <2> QED
    BY <1>1, <2>1, <2>2, <2>3
<1>5. ASSUME NEW o, NEW n, NEW st  PROVE ~Recalls(s, o, n, st)'
  BY <1>2 DEF Recalls
<1> QED
  BY <1>1, <1>4, <1>5, QuietHistory

(* A step that moves one order: hist gives its status at the versions it   *)
(* has just reached.                                                       *)
LEMMA MovingHistory ==
  ASSUME HInv, RInv', NEW s \in Sessions, Others(s), SameOrders, NEW o \in Orders,
         \A q \in Orders \ {o} : orders'[q] = orders[q],
         orders'[o] # None, orders[o] # None => orders'[o].version > orders[o].version,
         NEW hist,
         \A n \in DOMAIN hist : /\ orders[o] = None \/ ~(n <= orders[o].version)
                                /\ n <= orders'[o].version,
         \A q \in Orders : \A n, st :
            Recalls(s, q, n, st)' \/ Recorded(q, n, st)' \/ IsNow(q, n, st)' =>
              Fact(q, n, st) \/ (q = o /\ n \in DOMAIN hist /\ st = hist[n])
  PROVE  HInv'
<1>1. ASSUME NEW q \in Orders, NEW n, NEW st, Fact(q, n, st)'
      PROVE  Fact(q, n, st) \/ (q = o /\ n \in DOMAIN hist /\ st = hist[n])
  <2>1. ASSUME NEW t \in Sessions \ {s}, Recalls(t, q, n, st)'  PROVE Fact(q, n, st)
    <3>1. Recalls(t, q, n, st)
      BY <2>1, RecallsStay DEF HInv
    <3> QED
      BY <3>1 DEF Fact
  <2>2. CASE Recalls(s, q, n, st)' \/ Recorded(q, n, st)' \/ IsNow(q, n, st)'
    BY <2>2
  <2> QED
    BY <1>1, <2>1, <2>2 DEF Fact
<1>2. ASSUME NEW q \in Orders, q # o  PROVE Consistent(q)'
  <2>1. OldNews(q)
    BY <1>1, <1>2 DEF OldNews
  <2> QED
    BY <2>1, NewsConsistent DEF HInv, RInv, IInv, TypeOK
<1>3. Consistent(o)'
  <2>1. ASSUME NEW n, NEW st, Fact(o, n, st)
        PROVE  /\ orders[o] # None /\ n <= orders[o].version /\ n <= orders'[o].version
               /\ n \notin DOMAIN hist
    <3>1. orders[o] # None /\ n <= orders[o].version
      BY <2>1 DEF HInv, Consistent
    <3>2. n \in Int /\ orders[o].version \in Int /\ orders'[o].version \in Int
      <4>1. n \in Int
        BY <2>1, FactTyped DEF HInv
      <4> QED
        BY <3>1, <4>1 DEF HInv, RInv, IInv, TypeOK, Order
    <3> QED
      BY <3>1, <3>2
  <2>2. NewNews(o)
    BY <1>1, <2>1 DEF NewNews
  <2> QED
    BY <2>2, NewsConsistent DEF HInv, RInv, IInv, TypeOK
<1> QED
  BY <1>2, <1>3 DEF HInv

LEMMA CreationHistory ==
  ASSUME HInv, RInv', NEW s \in Sessions, Others(s), SameOrders, NEW o \in Orders,
         CreateOrder(s, o)
  PROVE  HInv'
<1>1. pc'[s] = "idle" /\ UNCHANGED audit /\ orders[o] = None
  BY DEF CreateOrder, Return, Goto, HInv, RInv, IInv, TypeOK
<1>2. CASE UNCHANGED orders
  BY <1>1, <1>2, ForgettingHistory
<1>3. CASE ~UNCHANGED orders
  <2>1. PICK row : /\ orders' = [orders EXCEPT ![o] = row]
                   /\ row.version = 0 /\ row.status = "Paid" /\ row # None
    <3> DEFINE row == [customer |-> job[s].customer, key |-> job[s].key,
                       amount |-> job[s].amount, refunded |-> 0,
                       status |-> "Paid", version |-> 0]
    <3>1. orders' = [orders EXCEPT ![o] = row]
      BY <1>3 DEF CreateOrder, InsertRolledBack
    <3>2. row.version = 0 /\ row.status = "Paid"
      OBVIOUS
    <3>3. row \in Order
      <4>1. pc[s] = "commitOrder"
        BY DEF CreateOrder
      <4>2. job[s].customer \in Customers /\ job[s].amount \in Prices
            /\ job[s].key \in Keys \cup {None}
        BY <4>1, Unmoved DEF HInv, RInv, SessionInv, Job
      <4> QED
        BY <4>2 DEF Order, Statuses
    <3> QED
      BY <3>1, <3>2, <3>3
  <2>2. orders'[o] = row /\ \A q \in Orders \ {o} : orders'[q] = orders[q]
    BY <2>1 DEF HInv, RInv, IInv, TypeOK
  <2> DEFINE hist == [n \in {0} |-> "Paid"]
  <2>3. \A n \in DOMAIN hist : n <= orders'[o].version
    BY <2>1, <2>2
  <2>4. ASSUME NEW q \in Orders, NEW n, NEW st,
               Recalls(s, q, n, st)' \/ Recorded(q, n, st)' \/ IsNow(q, n, st)'
        PROVE  Fact(q, n, st) \/ (q = o /\ n \in DOMAIN hist /\ st = hist[n])
    <3>1. ~Recalls(s, q, n, st)'
      BY <1>1 DEF Recalls
    <3>2. IsNow(q, n, st)' => IsNow(q, n, st) \/ (q = o /\ n = 0 /\ st = "Paid")
      BY <2>1, <2>2 DEF IsNow
    <3> QED
      BY <1>1, <2>4, <3>1, <3>2, RecordedStay DEF Fact
  <2> HIDE DEF hist
  <2> QED
    BY <1>1, <2>1, <2>2, <2>3, <2>4, MovingHistory
<1> QED
  BY <1>2, <1>3

LEMMA TransitionHistory ==
  ASSUME HInv, RInv', NEW s \in Sessions, Others(s), SameOrders, UpdateStatusCAS(s)
  PROVE  HInv'
<1>1. pc[s] = "cas" /\ UNCHANGED audit
  BY DEF UpdateStatusCAS
<1>2. PICK o \in Orders, st \in Statuses : o = job[s].order /\ st = job[s].to
                                           /\ orders[o] \in Order
  BY <1>1, Unmoved DEF HInv, RInv, SessionInv, OrderThere
<1>3. CASE ~SameOrder(s, o)
  <2>1. UNCHANGED orders /\ pc'[s] = "idle"
    BY <1>2, <1>3 DEF UpdateStatusCAS, Return, Goto, HInv, RInv, IInv, TypeOK
  <2> QED
    BY <1>1, <2>1, ForgettingHistory
<1>4. CASE SameOrder(s, o)
  <2>1. /\ orders' = [orders EXCEPT ![o].status = st, ![o].version = @ + 1]
        /\ Goto(s, "audit") /\ UNCHANGED <<job, seenOrder>>
    BY <1>2, <1>4 DEF UpdateStatusCAS
  <2>2. PICK v \in Nat : v = orders[o].version
    BY <1>2 DEF Order
  <2>3. /\ orders'[o].status = st /\ orders'[o] \in Order
        /\ \A q \in Orders \ {o} : orders'[q] = orders[q]
    <3>1. IInv
      BY DEF HInv, RInv
    <3>0. /\ orders[o] \in Order
          /\ orders' = [orders EXCEPT ![o].status = st, ![o].version = @ + 1]
      BY <1>2, <2>1
    <3>2. /\ OrdersKept /\ orders'[o].status = st
          /\ \A q \in Orders \ {o} : orders'[q] = orders[q]
      BY <3>0, <3>1, Transition
    <3> QED
      BY <1>2, <3>2 DEF OrdersKept
  <2>4. orders'[o].version = v + 1
    BY <1>2, <2>1, <2>2 DEF HInv, RInv, IInv, TypeOK, Order
  <2> DEFINE hist == [n \in {v + 1} |-> st]
  <2>5. \A n \in DOMAIN hist : ~(n <= orders[o].version) /\ n <= orders'[o].version
    BY <2>2, <2>4
  <2>6. ASSUME NEW q \in Orders, NEW n, NEW tu,
               Recalls(s, q, n, tu)' \/ Recorded(q, n, tu)' \/ IsNow(q, n, tu)'
        PROVE  Fact(q, n, tu) \/ (q = o /\ n \in DOMAIN hist /\ tu = hist[n])
    <3>1. IsNow(q, n, tu)' => IsNow(q, n, tu) \/ (q = o /\ n = v + 1 /\ tu = st)
      BY <2>3, <2>4 DEF IsNow
    <3>2. seenOrder[s].version = v /\ seenOrder[s].status = orders[o].status
      BY <1>4, <2>2 DEF SameOrder
    <3>3. pc'[s] = "audit" /\ seenOrder'[s] = seenOrder[s] /\ job'[s] = job[s]
      BY <2>1 DEF Goto, HInv, RInv, IInv, TypeOK
    <3>4. Recalls(s, q, n, tu)' => IsNow(q, n, tu) \/ (q = o /\ n = v + 1 /\ tu = st)
      BY <1>2, <2>2, <3>2, <3>3 DEF Recalls, IsNow
    <3> QED
      BY <1>1, <2>6, <3>1, <3>4, RecordedStay DEF Fact
  <2>7. orders'[o] # None /\ orders'[o].version > orders[o].version
    BY <2>2, <2>3, <2>4
  <2> HIDE DEF hist
  <2> QED
    BY <2>3, <2>5, <2>6, <2>7, MovingHistory
<1> QED
  BY <1>3, <1>4

(* A rejection takes the order back to Processing.                         *)
LEMMA RejectHistory ==
  ASSUME HInv, RInv', NEW s \in Sessions, Others(s), SameOrders, Reject(s)
  PROVE  HInv'
<1>1. pc[s] = "revert" /\ pc'[s] = "idle"
  BY DEF Reject, Return, Goto, HInv, RInv, IInv, TypeOK
<1>2. PICK r \in Refunds : r = job[s].refund /\ refunds[r] \in Refund
  BY <1>1, Unmoved DEF HInv, RInv, SessionInv, RefundThere
<1>3. PICK o \in Orders : o = refunds[r].order /\ orders[o] \in Order
  BY <1>2 DEF HInv, RInv, IInv, RowInv, OrderThere
<1>4. CASE ~(refunds[r].status = "Pending" /\ SameOrder(s, o))
  <2>1. UNCHANGED <<orders, audit>>
    BY <1>2, <1>3, <1>4 DEF Reject
  <2> QED
    BY <1>1, <2>1, ForgettingHistory
<1>5. CASE refunds[r].status = "Pending" /\ SameOrder(s, o)
  <2>1. /\ orders' = [orders EXCEPT ![o].status = "Processing", ![o].version = @ + 1]
        /\ audit' = audit \cup {Change(o, "Refunding", "Processing", seenOrder[s].version + 1)}
    BY <1>2, <1>3, <1>5 DEF Reject
  <2>2. PICK v \in Nat : v = orders[o].version
    BY <1>3 DEF Order
  <2>3. seenOrder[s].version = v /\ orders[o].status = "Refunding"
    BY <1>1, <1>5, <2>2 DEF SameOrder, HInv, RInv, Knows
  <2>4. /\ orders'[o].status = "Processing" /\ orders'[o] \in Order
        /\ \A q \in Orders \ {o} : orders'[q] = orders[q]
    <3>1. IInv
      BY DEF HInv, RInv
    <3>2. orders[o] \in Order /\ "Processing" \in Statuses
      BY <1>3 DEF Statuses
    <3>3. /\ OrdersKept /\ orders'[o].status = "Processing"
          /\ \A q \in Orders \ {o} : orders'[q] = orders[q]
      BY <2>1, <3>1, <3>2, Transition
    <3> QED
      BY <3>2, <3>3 DEF OrdersKept
  <2>5. orders'[o].version = v + 1
    BY <1>3, <2>1, <2>2 DEF HInv, RInv, IInv, TypeOK, Order
  <2> DEFINE hist == [n \in {v + 1} |-> "Processing"]
  <2>6. \A n \in DOMAIN hist : ~(n <= orders[o].version) /\ n <= orders'[o].version
    BY <2>2, <2>5
  <2>7. ASSUME NEW q \in Orders, NEW n, NEW tu,
               Recalls(s, q, n, tu)' \/ Recorded(q, n, tu)' \/ IsNow(q, n, tu)'
        PROVE  Fact(q, n, tu) \/ (q = o /\ n \in DOMAIN hist /\ tu = hist[n])
    <3>1. IsNow(q, n, tu)' =>
            IsNow(q, n, tu) \/ (q = o /\ n = v + 1 /\ tu = "Processing")
      BY <2>4, <2>5 DEF IsNow
    <3>2. ~Recalls(s, q, n, tu)'
      BY <1>1 DEF Recalls
    <3>3. Recorded(q, n, tu)' =>
            \/ Recorded(q, n, tu)
            \/ q = o /\ n = v + 1 /\ tu = "Processing"
            \/ q = o /\ n = v /\ tu = "Refunding"
      BY <2>1, <2>3 DEF Recorded, Change
    <3>4. q = o /\ n = v /\ tu = "Refunding" => IsNow(q, n, tu)
      BY <1>3, <2>2, <2>3 DEF IsNow
    <3> QED
      BY <2>7, <3>1, <3>2, <3>3, <3>4 DEF Fact
  <2>8. orders'[o] # None /\ orders'[o].version > orders[o].version
    BY <2>2, <2>4, <2>5
  <2> HIDE DEF hist
  <2> QED
    BY <2>4, <2>6, <2>7, <2>8, MovingHistory
<1> QED
  BY <1>4, <1>5

(* An approval takes it to Refunded, over Returned if it was not there.    *)
LEMMA ApprovalHistory ==
  ASSUME HInv, RInv', NEW s \in Sessions, Others(s), SameOrders, Approve(s)
  PROVE  HInv'
<1>1. pc[s] = "commitApprove" /\ pc'[s] = "idle"
  BY DEF Approve, Return, Goto, HInv, RInv, IInv, TypeOK
<1>2. PICK r \in Refunds : r = job[s].refund /\ refunds[r] \in Refund
  BY <1>1, Unmoved DEF HInv, RInv, SessionInv, RefundThere
<1>3. PICK o \in Orders : o = refunds[r].order /\ orders[o] \in Order
  BY <1>2 DEF HInv, RInv, IInv, RowInv, OrderThere
<1>4. PICK a \in Int : a = refunds[r].amount
  BY <1>2 DEF Refund
<1>5. CASE UNCHANGED <<orders, audit>>
  BY <1>1, <1>5, ForgettingHistory
<1>6. CASE ~UNCHANGED <<orders, audit>>
  <2>1. PICK v \in Nat : v = orders[o].version
    BY <1>3 DEF Order
  <2>2. PICK h \in {1, 2} : h = Hops(o)
    BY DEF Hops
  <2>3. /\ orders' = ApprovedOrders(o, a)
        /\ orders[o].status \in {"Refunding", "Returned"}
        /\ audit' = audit \cup {Change(o, "Returned", "Refunded", v + h)} \cup
              {Change(o, "Refunding", "Returned", v + h - 1) : k \in 1..(h - 1)}
    <3> DEFINE n == orders[o].version + Hops(o)
    <3>1. /\ orders' = ApprovedOrders(o, a)
          /\ orders[o].status \in {"Refunding", "Returned"}
          /\ audit' = audit \cup {Change(o, "Returned", "Refunded", n)} \cup
                {Change(o, "Refunding", "Returned", n - 1) : k \in 1..(Hops(o) - 1)}
      BY <1>2, <1>3, <1>4, <1>6 DEF Approve, Approvable
    <3>2. n = v + h
      BY <2>1, <2>2
    <3> HIDE DEF n
    <3> QED
      BY <2>2, <3>1, <3>2
  <2>4. /\ orders'[o].status = "Refunded" /\ orders'[o] \in Order
        /\ \A q \in Orders \ {o} : orders'[q] = orders[q]
    <3>1. IInv /\ orders[o] \in Order
      BY <1>3 DEF HInv, RInv
    <3>2. /\ OrdersKept /\ orders'[o].status = "Refunded"
          /\ \A q \in Orders \ {o} : orders'[q] = orders[q]
      BY <2>3, <3>1, ApprovedOrder
    <3> QED
      BY <3>1, <3>2 DEF OrdersKept
  <2>5. orders'[o].version = v + h
    BY <1>3, <2>1, <2>2, <2>3 DEF ApprovedOrders, HInv, RInv, IInv, TypeOK, Order
  <2>6. h = 2 <=> orders[o].status = "Refunding"
    BY <2>2 DEF Hops
  <2> DEFINE hist == [n \in v + 1 .. v + h |-> IF n = v + h THEN "Refunded" ELSE "Returned"]
  <2>7. \A n \in DOMAIN hist : ~(n <= orders[o].version) /\ n <= orders'[o].version
    BY <2>1, <2>5
  <2>8. ASSUME NEW q \in Orders, NEW n, NEW tu,
               Recalls(s, q, n, tu)' \/ Recorded(q, n, tu)' \/ IsNow(q, n, tu)'
        PROVE  Fact(q, n, tu) \/ (q = o /\ n \in DOMAIN hist /\ tu = hist[n])
    <3> DEFINE New == q = o /\ n \in DOMAIN hist /\ tu = hist[n]
    <3>1. q = o /\ n = v + h /\ tu = "Refunded" => New
      BY <2>2
    <3>2. q = o /\ n = v + 1 /\ h = 2 /\ tu = "Returned" => New
      OBVIOUS
    <3>3. q = o /\ n = v /\ tu = orders[o].status => IsNow(q, n, tu)
      BY <1>3, <2>1 DEF IsNow
    <3> HIDE DEF New
    <3>4. IsNow(q, n, tu)' => IsNow(q, n, tu) \/ New
      BY <2>4, <2>5, <3>1 DEF IsNow
    <3>5. ~Recalls(s, q, n, tu)'
      BY <1>1 DEF Recalls
    <3>6. Recorded(q, n, tu)' =>
            \/ Recorded(q, n, tu)
            \/ q = o /\ n = v + h /\ tu = "Refunded"
            \/ q = o /\ n = v + h - 1 /\ tu = "Returned"
            \/ q = o /\ h = 2 /\ n = v + h - 2 /\ tu = "Refunding"
      <4>1. ASSUME NEW ch \in audit', ch \notin audit
            PROVE  \/ ch = Change(o, "Returned", "Refunded", v + h)
                   \/ h = 2 /\ ch = Change(o, "Refunding", "Returned", v + h - 1)
        BY <2>2, <2>3, <4>1
      <4>2. v + h - 1 - 1 = v + h - 2
        BY <2>2
      <4> QED
        BY <4>1, <4>2 DEF Recorded, Change
    <3>7. h = 1 => v + h - 1 = v /\ orders[o].status = "Returned"
      BY <2>2, <2>3, <2>6
    <3>8. h = 2 => v + h - 1 = v + 1 /\ v + h - 2 = v /\ orders[o].status = "Refunding"
      BY <2>6
    <3>9. Recorded(q, n, tu)' => Recorded(q, n, tu) \/ IsNow(q, n, tu) \/ New
      BY <2>2, <3>1, <3>2, <3>3, <3>6, <3>7, <3>8
    <3> QED
      BY <2>8, <3>4, <3>5, <3>9 DEF Fact, New
  <2>9. orders'[o] # None /\ orders'[o].version > orders[o].version
    BY <2>1, <2>2, <2>4, <2>5
  <2> HIDE DEF hist
  <2> QED
    BY <2>4, <2>7, <2>8, <2>9, MovingHistory
<1> QED
  BY <1>5, <1>6

LEMMA NextHistory == HInv /\ [Next]_vars => HInv'
<1> SUFFICES ASSUME HInv, [Next]_vars  PROVE HInv'
  OBVIOUS
<1>1. RInv /\ RInv'
  BY NextRefunds DEF HInv
<1>2. ASSUME NEW s \in Sessions, Start(s) \/ Continue(s) \/ Fail(s)  PROVE HInv'
  <2>1. Others(s) /\ SameOrders
    BY <1>1, <1>2, OnlyOne, ApplicationsKeepOrder DEF RInv
  <2>2. CASE Start(s) \/ Fail(s)
    BY <1>1, <2>1, <2>2, OrdersAloneHistory
  <2>3. CASE Continue(s)
    BY <1>1, <2>1, <2>3, OrdersAloneHistory, AuditHistory, CreationHistory,
       TransitionHistory, RejectHistory, ApprovalHistory DEF Continue
  <2> QED
    BY <1>2, <2>2, <2>3
<1>3. ASSUME UNCHANGED <<orders, refunds, audit, pc, job, seenOrder>>  PROVE HInv'
  BY <1>1, <1>3 DEF HInv, Consistent, Fact, IsNow, Recorded, Recalls
<1>4. ASSUME NEW c \in Customers, Recharge(c)  PROVE HInv'
  BY <1>3, <1>4 DEF Recharge, local
<1>5. CASE UNCHANGED vars
  BY <1>3, <1>5 DEF vars, data, local
<1> QED
  BY <1>2, <1>4, <1>5 DEF Next, Serve

LEMMA HistoryInvariant == Spec => []HInv
  BY InitHistory, NextHistory, PTL DEF Spec

LEMMA ChainedByInvariant == HInv => AuditChained
<1> SUFFICES ASSUME HInv, NEW ch \in audit
             PROVE  /\ ch.nr <= orders[ch.order].version
                    /\ ch.nr = orders[ch.order].version => ch.to = orders[ch.order].status
                    /\ \A nx \in audit :
                         (nx.order = ch.order /\ nx.nr = ch.nr + 1) => nx.from = ch.to
  BY DEF AuditChained
<1>1. audit \subseteq Audit /\ ch.order \in Orders /\ ch.nr \in Nat
  BY DEF HInv, RInv, IInv, TypeOK, Audit
<1>2. Consistent(ch.order)
  BY <1>1 DEF HInv
<1>3. Fact(ch.order, ch.nr, ch.to)
  BY DEF Fact, Recorded
<1>4. orders[ch.order] # None /\ ch.nr <= orders[ch.order].version
  BY <1>2, <1>3 DEF Consistent
<1>5. Fact(ch.order, orders[ch.order].version, orders[ch.order].status)
  BY <1>4 DEF Fact, IsNow
<1>6. ASSUME NEW nx \in audit, nx.order = ch.order, nx.nr = ch.nr + 1
      PROVE  nx.from = ch.to
  <2>1. nx.nr - 1 = ch.nr
    BY <1>1, <1>6
  <2>2. Fact(ch.order, ch.nr, nx.from)
    BY <1>6, <2>1 DEF Fact, Recorded
  <2> QED
    BY <1>2, <1>3, <2>2 DEF Consistent
<1> QED
  BY <1>2, <1>3, <1>4, <1>5, <1>6 DEF Consistent

(* The audit trail, gaps aside, is the order's history, although each of   *)
(* its rows is written after the transition it records and may be lost.    *)
THEOREM AuditTrailChains == Spec => []AuditChained
  BY ChainedByInvariant, HistoryInvariant, PTL

-----------------------------------------------------------------------------
(* All of this beside the reviews of recharges, which pay into the same    *)
(* wallets.                                                                *)
LEMMA ComposedHistory == RSpec => []HInv
<1>1. RInit => HInv
  BY InitHistory DEF RInit
<1>2. CreditInv /\ HInv /\ [RNext]_allVars => HInv'
  <2> SUFFICES ASSUME CreditInv, HInv, [RNext]_allVars  PROVE HInv'
    OBVIOUS
  <2>1. CASE [Next]_vars
    BY <2>1, NextHistory
  <2>2. CASE PaysIn
    <3>1. RInv /\ IInv'
      BY <2>2, PaysInKept DEF HInv, RInv
    <3>2. RInv'
      BY <2>2, <3>1, PaysInRefunds
    <3>3. UNCHANGED <<orders, refunds, audit, pc, job, seenOrder>>
      BY <2>2 DEF PaysIn, local
    <3> QED
      BY <3>2, <3>3 DEF HInv, Consistent, Fact, IsNow, Recorded, Recalls
  <2> QED
    BY <2>1, <2>2, ComposedStep
<1> QED
  BY <1>1, <1>2, RechargeInvariant, PTL DEF RSpec

(* With recharges reviewed at the same time: every row stays well formed,  *)
(* an order is credited at most once and only when Refunded, a completed    *)
(* application has been paid and refund_amount is its amount, and the audit *)
(* trail chains.                                                           *)
THEOREM RefundsBesideRecharges ==
  RSpec => [](TypeOK /\ CreditedOnce /\ CompletedIsCredited /\ RefundAmountAgrees
                     /\ AuditChained)
<1>1. HInv => TypeOK /\ RInv
  BY DEF HInv, RInv, IInv
<1> QED
  BY <1>1, CreditedByInvariant, CompletedByInvariant, AmountByInvariant,
     ChainedByInvariant, ComposedHistory, PTL

(* With recharges reviewed at the same time an order still moves only      *)
(* along the table, by an approval or by a rejection.                      *)
THEOREM MovesBesideRecharges == RSpec => StatusMoves
<1>1. CreditInv /\ HInv /\ [RNext]_allVars => [Moves]_<<orders, refunds>>
  <2>1. PaysIn => UNCHANGED <<orders, refunds>>
    BY DEF PaysIn
  <2> QED
    BY <2>1, ComposedStep, StepMoves DEF HInv
<1>2. RSpec => [][Moves]_<<orders, refunds>>
  BY <1>1, RechargeInvariant, ComposedHistory, PTL DEF RSpec
<1> QED
  BY <1>2 DEF StatusMoves, Moves

-----------------------------------------------------------------------------
(* The order is Refunded, has been credited nothing, and no session is     *)
(* about to: nothing in the code looks for such an order again.            *)
Lost(o) ==
  /\ o \in Created /\ orders[o].status = "Refunded"
  /\ CreditsOf(o) = {} /\ \A s \in Sessions : ~Payer(s, o)

(* How session s loses the money it owes: it dies or a statement of its    *)
(* fails, or the wallet has moved since its Credit read it.                *)
Loses(s, o) ==
  /\ Payer(s, o)
  /\ Fail(s) \/ (ProcessRefund(s) /\ ~SameWallet(s, orders[o].customer))

(* Seen by the invariant's parts.                                          *)
Forsaken(o) == orders[o] # None /\ orders[o].status = "Refunded" /\ Untouched(o)

LEMMA LostIsForsaken == RInv => \A o \in Orders : Lost(o) <=> Forsaken(o)
<1> SUFFICES ASSUME RInv, NEW o \in Orders
             PROVE  CreditsOf(o) = {} <=> HandCredits(o) = {} /\ DoneOf(o) = {}
  BY DEF Lost, Forsaken, Untouched, Created
<1>1. ASSUME NEW e \in CreditsOf(o), e \notin HandCredits(o)  PROVE DoneOf(o) # {}
  <2>1. PICK r \in Applied : e \in entries /\ e.type = "refund" /\ refunds[r].order = o /\ e.related = r
    BY <1>1 DEF CreditsOf, HandCredits
  <2>2. r \in Refunds /\ e \in RefundEntries(r)
    BY <2>1 DEF Applied, RefundEntries
  <2> QED
    BY <2>1, <2>2 DEF RInv, AppInv, DoneOf
<1>2. ASSUME NEW r \in DoneOf(o)  PROVE CreditsOf(o) # {}
  <2>1. r \in Applied /\ r \in Refunds /\ refunds[r].order = o /\ refunds[r].status = "Completed"
    BY DEF DoneOf, Applied
  <2>2. PICK e \in entries : RefundEntries(r) = {e}
    BY <2>1 DEF RInv, AppInv
  <2>3. e.type = "refund" /\ e.related = r
    BY <2>2 DEF RefundEntries
  <2> QED
    BY <2>1, <2>3 DEF CreditsOf
<1>3. HandCredits(o) \subseteq CreditsOf(o)
  BY DEF HandCredits, CreditsOf
<1> QED
  BY <1>1, <1>2, <1>3

LEMMA QuietForsakes ==
  ASSUME NEW o \in Orders, OrderQuiet(o), \A r \in Refunds : RefundQuiet(r), NoCredit,
         \A t \in Sessions : Payer(t, o)' <=> Payer(t, o)
  PROVE  Forsaken(o)' <=> Forsaken(o)
<1>1. HandCredits(o)' = HandCredits(o)
  BY DEF HandCredits, NoCredit
<1>2. DoneOf(o)' = DoneOf(o)
  BY DEF DoneOf, Applied, RefundQuiet
<1> QED
  BY <1>1, <1>2 DEF Forsaken, Untouched, OrderQuiet

(* The steps that neither complete an application nor credit an order nor  *)
(* take one to Refunded.                                                   *)
Elsewhere(s) ==
  \/ Start(s) \/ DebitRead(s) \/ \E o \in Orders : CreateOrder(s, o)
  \/ \E r \in Refunds : CreateRefund(s, r)
  \/ FindApplied(s) \/ ApproveRead(s) \/ RejectRead(s) \/ Reject(s)

LEMMA ElsewhereQuiet ==
  ASSUME RInv, NEW s \in Sessions, Elsewhere(s)
  PROVE  /\ \A o \in Orders : OrderQuiet(o)
         /\ \A r \in Refunds : RefundQuiet(r)
         /\ NoCredit
<1> USE DEF RInv, IInv, TypeOK, Goto
<1>1. CASE Start(s) \/ DebitRead(s) \/ FindApplied(s) \/ ApproveRead(s)
  <2>1. UNCHANGED data
    BY <1>1 DEF Start, FindByCustomerOrderID, FindOrder, TransitionRefused, ApplyCheck,
       ReviewCheck, vars, DebitRead, FindApplied, ApproveRead
  <2> QED
    BY <2>1, StillQuiet DEF data
<1>2. ASSUME NEW o \in Orders, CreateOrder(s, o)
      PROVE  (\A q \in Orders : OrderQuiet(q)) /\ (\A r \in Refunds : RefundQuiet(r)) /\ NoCredit
  <2>1. ASSUME NEW q \in Orders  PROVE OrderQuiet(q)
    BY <1>2 DEF CreateOrder, InsertRolledBack, OrderQuiet
  <2>2. NoCredit /\ UNCHANGED refunds
    BY <1>2 DEF CreateOrder, Post, NoCredit
  <2> QED
    BY <2>1, <2>2, StillQuiet
<1>3. ASSUME NEW r \in Refunds, CreateRefund(s, r)
      PROVE  (\A q \in Orders : OrderQuiet(q)) /\ (\A q \in Refunds : RefundQuiet(q)) /\ NoCredit
  <2>1. pc[s] = "apply" /\ refunds[r] = None /\ UNCHANGED <<orders, entries>>
    BY <1>3 DEF CreateRefund
  <2>2. job[s].customer = orders[job[s].order].customer
    BY <2>1 DEF Knows
  <2>3. \A q \in Refunds : RefundQuiet(q)
    BY <1>3, <2>1, <2>2 DEF CreateRefund, RefundQuiet
  <2> QED
    BY <2>1, <2>3, StillQuiet
<1>4. CASE RejectRead(s) \/ Reject(s)
  <2>1. PICK r \in Refunds : r = job[s].refund /\ refunds[r] \in Refund
    BY <1>4, Unmoved DEF SessionInv, RefundThere, RejectRead, Reject
  <2>2. PICK o \in Orders : o = refunds[r].order /\ orders[o] \in Order
    BY <2>1 DEF RowInv, OrderThere
  <2>3. UNCHANGED entries
    BY <1>4 DEF RejectRead, Reject
  <2>4. \A q \in Refunds : RefundQuiet(q)
    <3>1. ASSUME refunds[r].status = "Pending", refunds' = [refunds EXCEPT ![r].status = "Rejected"]
          PROVE  \A q \in Refunds : RefundQuiet(q)
      BY <2>1, <3>1 DEF RefundQuiet, Refund
    <3>2. \/ UNCHANGED refunds
          \/ refunds[r].status = "Pending" /\ refunds' = [refunds EXCEPT ![r].status = "Rejected"]
      BY <1>4, <2>1, <2>2 DEF RejectRead, Reject
    <3> QED
      BY <3>1, <3>2, StillQuiet
  <2>5. \A q \in Orders : OrderQuiet(q)
    <3>1. CASE UNCHANGED orders
      BY <3>1, StillQuiet
    <3>2. CASE ~UNCHANGED orders
      <4>1. /\ SameOrder(s, o) /\ pc[s] = "revert"
            /\ orders' = [orders EXCEPT ![o].status = "Processing", ![o].version = @ + 1]
        BY <1>4, <2>1, <2>2, <3>2 DEF RejectRead, Reject
      <4>2. orders[o].status = "Refunding"
        BY <4>1 DEF Knows, SameOrder
      <4>3. /\ OrdersKept /\ orders'[o].status = "Processing"
            /\ orders'[o].refunded = orders[o].refunded
            /\ \A q \in Orders \ {o} : orders'[q] = orders[q]
        BY <2>2, <4>1, Transition DEF Statuses
      <4> QED
        BY <2>2, <4>2, <4>3 DEF OrderQuiet, OrdersKept
    <3> QED
      BY <3>1, <3>2
  <2> QED
    BY <2>3, <2>4, <2>5, StillQuiet
<1> QED
  BY <1>1, <1>2, <1>3, <1>4 DEF Elsewhere

LEMMA ElsewhereOwes ==
  ASSUME RInv, NEW s \in Sessions, Elsewhere(s), NEW o
  PROVE  Payer(s, o)' <=> Payer(s, o)
<1> USE DEF RInv, IInv, TypeOK, Goto
<1>1. CASE UNCHANGED vars
  BY <1>1 DEF vars, local, Payer
<1>2. CASE ~UNCHANGED vars
  <2>1. Return(s) => pc'[s] = "idle"
    BY DEF Return
  <2>2. pc[s] \notin {"audit", "refund", "credit"} /\ pc'[s] \notin {"audit", "refund", "credit"}
    <3>1. CASE Start(s)
      BY <1>2, <3>1 DEF Start, FindByCustomerOrderID, FindOrder, TransitionRefused, ApplyCheck,
         ReviewCheck
    <3>2. CASE DebitRead(s) \/ \E q \in Orders : CreateOrder(s, q)
      BY <2>1, <3>2 DEF DebitRead, CreateOrder
    <3>3. CASE (\E r \in Refunds : CreateRefund(s, r)) \/ FindApplied(s)
      BY <2>1, <3>3 DEF CreateRefund, FindApplied
    <3>4. CASE ApproveRead(s) \/ RejectRead(s) \/ Reject(s)
      BY <2>1, <3>4 DEF ApproveRead, RejectRead, Reject
    <3> QED
      BY <3>1, <3>2, <3>3, <3>4 DEF Elsewhere
  <2> QED
    BY <2>2 DEF Payer
<1> QED
  BY <1>1, <1>2

(* What one session's step does to one order's prospects.                  *)
Prospects(s, o) ==
  /\ Forsaken(o) => Forsaken(o)'
  /\ Forsaken(o)' => Forsaken(o) \/ Loses(s, o)

LEMMA OthersOwe ==
  ASSUME NEW s, Others(s), NEW t \in Sessions \ {s}, NEW o
  PROVE  Payer(t, o)' <=> Payer(t, o)
  BY DEF Others, Payer

LEMMA SteadyProspects ==
  ASSUME NEW s \in Sessions, Others(s), NEW o \in Orders, OrderQuiet(o),
         \A r \in Refunds : RefundQuiet(r), NoCredit, Payer(s, o)' <=> Payer(s, o)
  PROVE  Prospects(s, o)
<1>1. \A t \in Sessions : Payer(t, o)' <=> Payer(t, o)
  BY OthersOwe
<1> QED
  BY <1>1, QuietForsakes DEF Prospects

LEMMA OwingProspects ==
  ASSUME RInv, NEW s \in Sessions, Others(s), NEW o \in Orders,
         CreateStatusChange(s) \/ CreditRead(s)
  PROVE  Prospects(s, o)
<1> USE DEF RInv, IInv, TypeOK, Goto
<1>1. UNCHANGED <<orders, refunds, entries>>
  BY DEF CreateStatusChange, CreditRead, data
<1>2. Payer(s, o)' <=> Payer(s, o)
  <2>1. CASE CreateStatusChange(s) /\ job[s].to = "Refunded"
    BY <2>1 DEF CreateStatusChange, Payer
  <2>2. CASE CreateStatusChange(s) /\ job[s].to # "Refunded"
    BY <2>2 DEF CreateStatusChange, Payer, Return
  <2>3. CASE CreditRead(s)
    BY <2>3 DEF CreditRead, Payer
  <2> QED
    BY <2>1, <2>2, <2>3
<1> QED
  BY <1>1, <1>2, StillQuiet, SteadyProspects

(* A session that leaves and pays nothing: whom it owed, it loses.         *)
LEMMA LeavingProspects ==
  ASSUME RInv, NEW s \in Sessions, Others(s), NEW o \in Orders, Return(s),
         UNCHANGED <<orders, refunds, entries>>,
         \/ Fail(s)
         \/ ProcessRefund(s) /\ (Payer(s, o) => ~SameWallet(s, orders[o].customer))
  PROVE  Prospects(s, o)
<1>1. ~Payer(s, o)'
  BY IdleKnows DEF RInv
<1>2. CASE Payer(s, o)
  <2>1. Loses(s, o)
    BY <1>2 DEF Loses
  <2>2. ~Forsaken(o)
    BY <1>2 DEF Forsaken, Untouched
  <2> QED
    BY <2>1, <2>2 DEF Prospects
<1>3. CASE ~Payer(s, o)
  BY <1>1, <1>3, StillQuiet, SteadyProspects
<1> QED
  BY <1>2, <1>3

LEMMA PayingProspects ==
  ASSUME RInv, NEW s \in Sessions, Others(s), NEW o \in Orders, ProcessRefund(s)
  PROVE  Prospects(s, o)
<1>1. pc[s] = "credit" /\ Return(s) /\ UNCHANGED <<orders, refunds>>
  BY DEF ProcessRefund
<1>2. PICK p \in Orders : p = job[s].order /\ orders[p] \in Order
  BY <1>1, Unmoved DEF SessionInv, OrderThere, RInv
<1>3. Payer(s, p) /\ seenOrder[s].customer = orders[p].customer
  BY <1>1, <1>2 DEF Payer, Knows, RInv
<1>4. Payer(s, o) => o = p
  BY <1>2 DEF Payer
<1>5. CASE ~SameWallet(s, orders[p].customer)
  <2>1. UNCHANGED entries
    BY <1>3, <1>5 DEF ProcessRefund
  <2> QED
    BY <1>1, <1>4, <1>5, <2>1, LeavingProspects
<1>6. CASE SameWallet(s, orders[p].customer)
  <2>1. PICK e : /\ entries' = entries \cup {e}
                 /\ e.type = "order_refund" /\ e.related = p
    <3>1. \E a : Post(orders[p].customer, a, "order_refund", p)
      BY <1>2, <1>3, <1>6 DEF ProcessRefund
    <3> QED
      BY <3>1, Posted
  <2>2. CASE o = p
    <3>1. e \in HandCredits(o)'
      BY <2>1, <2>2 DEF HandCredits
    <3>2. ~Forsaken(o) /\ ~Forsaken(o)'
      BY <1>3, <2>2, <3>1 DEF Forsaken, Untouched
    <3> QED
      BY <3>2 DEF Prospects
  <2>3. CASE o # p
    <3>1. HandCredits(o)' = HandCredits(o)
      BY <2>1, <2>3 DEF HandCredits
    <3>2. DoneOf(o)' = DoneOf(o)
      BY <1>1 DEF DoneOf, Applied
    <3>3. ~Payer(s, o)' /\ ~Payer(s, o)
      BY <1>1, <1>4, <2>3, IdleKnows DEF RInv
    <3>4. \A t \in Sessions : Payer(t, o)' <=> Payer(t, o)
      BY <3>3, OthersOwe
    <3> QED
      BY <1>1, <3>1, <3>2, <3>4 DEF Prospects, Forsaken, Untouched
  <2> QED
    BY <2>2, <2>3
<1> QED
  BY <1>5, <1>6

LEMMA TransitionProspects ==
  ASSUME RInv, NEW s \in Sessions, Others(s), NEW o \in Orders, UpdateStatusCAS(s)
  PROVE  Prospects(s, o)
<1> USE DEF RInv, IInv, TypeOK, Goto
<1>1. pc[s] = "cas" /\ UNCHANGED <<refunds, entries>>
  BY DEF UpdateStatusCAS
<1>2. PICK p \in Orders : p = job[s].order /\ orders[p] \in Order /\ Knows(s)
  BY <1>1, Unmoved DEF SessionInv, OrderThere
<1>3. PICK st \in Statuses : st = job[s].to
  BY <1>1, Unmoved DEF SessionInv
<1>4. CASE ~SameOrder(s, p)
  <2>1. Return(s) /\ UNCHANGED orders
    BY <1>2, <1>4 DEF UpdateStatusCAS
  <2>2. ~Payer(s, o) /\ ~Payer(s, o)'
    BY <1>1, <2>1, IdleKnows DEF Payer
  <2> QED
    BY <1>1, <2>1, <2>2, StillQuiet, SteadyProspects
<1>5. CASE SameOrder(s, p)
  <2>1. /\ orders' = [orders EXCEPT ![p].status = st, ![p].version = @ + 1]
        /\ pc'[s] = "audit" /\ UNCHANGED job
    BY <1>2, <1>3, <1>5 DEF UpdateStatusCAS
  <2>2. /\ OrdersKept /\ orders'[p].status = st /\ orders'[p].refunded = orders[p].refunded
        /\ \A q \in Orders \ {p} : orders'[q] = orders[q]
    BY <1>2, <2>1, Transition
  <2>3. orders[p].status # "Refunded"
    <3>1. IsValidTransition(orders[p].status, st)
      BY <1>1, <1>2, <1>3, <1>5 DEF Knows, SameOrder
    <3> QED
      BY <1>2, <3>1 DEF IsValidTransition, ValidTransitions, Order
  <2>4. CASE o = p /\ st = "Refunded"
    <3>1. Payer(s, o)'
      BY <1>2, <1>3, <2>1, <2>4 DEF Payer
    <3>2. ~Forsaken(o) /\ ~Forsaken(o)'
      BY <2>3, <2>4, <3>1 DEF Forsaken, Untouched
    <3> QED
      BY <3>2 DEF Prospects
  <2>5. CASE ~(o = p /\ st = "Refunded")
    <3>1. OrderQuiet(o)
      BY <1>2, <2>2, <2>3, <2>5 DEF OrderQuiet, OrdersKept
    <3>2. ~Payer(s, o) /\ ~Payer(s, o)'
      BY <1>1, <1>2, <1>3, <2>1, <2>5 DEF Payer
    <3> QED
      BY <1>1, <3>1, <3>2, StillQuiet, SteadyProspects
  <2> QED
    BY <2>4, <2>5
<1> QED
  BY <1>4, <1>5

LEMMA ApprovalProspects ==
  ASSUME RInv, NEW s \in Sessions, Others(s), NEW o \in Orders, Approve(s)
  PROVE  Prospects(s, o)
<1> USE DEF RInv, IInv, TypeOK
<1>1. pc[s] = "commitApprove" /\ Return(s)
  BY DEF Approve
<1>2. PICK r \in Refunds : r = job[s].refund /\ refunds[r] \in Refund
  BY <1>1, Unmoved DEF SessionInv, RefundThere
<1>3. PICK p \in Orders : p = refunds[r].order /\ orders[p] \in Order
  BY <1>2 DEF RowInv, OrderThere
<1>4. PICK a \in Int : a = refunds[r].amount
  BY <1>2 DEF Refund
<1>5. ~Payer(s, o) /\ ~Payer(s, o)'
  BY <1>1, IdleKnows DEF Payer
<1>6. CASE UNCHANGED <<orders, refunds, entries>>
  BY <1>5, <1>6, StillQuiet, SteadyProspects
<1>7. CASE ~UNCHANGED <<orders, refunds, entries>>
  <2>1. /\ Approvable(p, a)
        /\ refunds' = [refunds EXCEPT ![r].status = "Completed"]
        /\ Post(refunds[r].customer, a, "refund", r)
        /\ orders' = ApprovedOrders(p, a)
    BY <1>2, <1>3, <1>4, <1>7 DEF Approve, Unclaimed
  <2>2. /\ orders[p].status # "Refunded" /\ orders'[p].status = "Refunded"
        /\ \A q \in Orders \ {p} : orders'[q] = orders[q]
    BY <1>3, <2>1, ApprovedOrder DEF Approvable
  <2>3. /\ refunds'[r].order = p /\ refunds'[r].status = "Completed" /\ refunds'[r] # None
        /\ \A q \in Refunds \ {r} : refunds'[q] = refunds[q]
    <3>1. [refunds[r] EXCEPT !.status = "Completed"] \in Refund
      BY <1>2 DEF Refund
    <3>2. refunds'[r] = [refunds[r] EXCEPT !.status = "Completed"]
      BY <1>2, <2>1
    <3>3. refunds'[r].order = p /\ refunds'[r].status = "Completed"
      BY <1>2, <1>3, <3>2 DEF Refund
    <3> QED
      BY <1>2, <2>1, <3>1, <3>2, <3>3
  <2>4. CASE o = p
    <3>1. r \in DoneOf(o)'
      BY <1>2, <2>3, <2>4 DEF DoneOf, Applied
    <3>2. ~Forsaken(o) /\ ~Forsaken(o)'
      BY <2>2, <2>4, <3>1 DEF Forsaken, Untouched
    <3> QED
      BY <3>2 DEF Prospects
  <2>5. CASE o # p
    <3>1. DoneOf(o)' = DoneOf(o)
      BY <1>2, <1>3, <2>3, <2>5 DEF DoneOf, Applied
    <3>2. HandCredits(o)' = HandCredits(o)
      BY <2>1, Posted DEF HandCredits
    <3>3. \A t \in Sessions : Payer(t, o)' <=> Payer(t, o)
      BY <1>5, OthersOwe
    <3> QED
      BY <2>2, <2>5, <3>1, <3>2, <3>3 DEF Prospects, Forsaken, Untouched
  <2> QED
    BY <2>4, <2>5
<1> QED
  BY <1>6, <1>7

LEMMA StepProspects ==
  ASSUME RInv, NEW s \in Sessions, Start(s) \/ Continue(s) \/ Fail(s), NEW o \in Orders
  PROVE  Prospects(s, o)
<1>1. IInv
  BY DEF RInv
<1>2. Others(s)
  BY <1>1, OnlyOne
<1>3. CASE Elsewhere(s)
  BY <1>2, <1>3, ElsewhereQuiet, ElsewhereOwes, SteadyProspects
<1>4. CASE Fail(s)
  BY <1>2, <1>4, LeavingProspects DEF Fail, data
<1> QED
  BY <1>2, <1>3, <1>4, OwingProspects, PayingProspects, TransitionProspects,
     ApprovalProspects DEF Continue, Elsewhere

Forgiving ==
  \A o \in Orders : /\ Lost(o) => Lost(o)'
                    /\ Lost(o)' => Lost(o) \/ \E s \in Sessions : Loses(s, o)

LEMMA StepLoses == RInv /\ RInv' /\ ([Next]_vars \/ PaysIn) => Forgiving
<1> SUFFICES ASSUME RInv, RInv', [Next]_vars \/ PaysIn  PROVE Forgiving
  OBVIOUS
<1>1. RInv' => (\A o \in Orders : Lost(o) <=> Forsaken(o))'
  BY LostIsForsaken, PTL
<1>2. \A o \in Orders : Lost(o)' <=> Forsaken(o)'
  BY <1>1
<1> SUFFICES ASSUME NEW o \in Orders
             PROVE  /\ Forsaken(o) => Forsaken(o)'
                    /\ Forsaken(o)' => Forsaken(o) \/ \E s \in Sessions : Loses(s, o)
  BY <1>2, LostIsForsaken DEF Forgiving
<1>3. ASSUME NEW s \in Sessions, Start(s) \/ Continue(s) \/ Fail(s)
      PROVE  Prospects(s, o)
  BY <1>3, StepProspects
<1>4. ASSUME UNCHANGED <<orders, refunds, pc, job>>, NoCredit
      PROVE  Forsaken(o)' <=> Forsaken(o)
  <2>1. \A t \in Sessions : Payer(t, o)' <=> Payer(t, o)
    BY <1>4 DEF Payer
  <2> QED
    BY <1>4, <2>1, StillQuiet, QuietForsakes
<1>5. CASE PaysIn
  <2>1. UNCHANGED <<orders, refunds, pc, job>> /\ NoCredit
    BY <1>5 DEF PaysIn, local, Post, NoCredit
  <2> QED
    BY <1>4, <2>1
<1>6. CASE UNCHANGED vars
  BY <1>4, <1>6, StillQuiet DEF vars, data, local
<1>7. ASSUME NEW c \in Customers, Recharge(c)  PROVE PaysIn
  BY <1>7, RechargePaysIn
<1> QED
  BY <1>3, <1>5, <1>6, <1>7 DEF Next, Serve, Prospects

(* What becomes of the money of an order that has been moved to Refunded   *)
(* by hand, with everything else going on: it is lost only by the session  *)
(* that moved the order, when that session dies or a statement of it fails  *)
(* or its Credit meets a wallet that has moved; and an order whose refund   *)
(* has been lost is never paid by anybody any more.                        *)
THEOREM LostOnlyByItsPayerAndForGood == RSpec => [][Forgiving]_vars
<1>1. CreditInv /\ HInv /\ HInv' /\ [RNext]_allVars => [Forgiving]_vars
  BY ComposedStep, StepLoses DEF HInv
<1> QED
  BY <1>1, RechargeInvariant, ComposedHistory, PTL DEF RSpec
=============================================================================
