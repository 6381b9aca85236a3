---------------------------- MODULE OrderProofs ----------------------------
(***************************************************************************)
(* Theorems of OrderRefund and Recharge about what is paid and credited    *)
(* from one wallet, for any customers, orders, applications, prices,       *)
(* numbers of sessions and bounds.                                         *)
(*                                                                         *)
(* Payments: the wallet a session has read is the wallet of now or an      *)
(* older version of it (Remembers), so a versioned update that succeeds    *)
(* starts from the balance that was found to cover the order.              *)
(*                                                                         *)
(* Beside recharges: a review of an application is, to the orders, money   *)
(* that comes in (PaysIn), so a step of the composition keeps IInv too.    *)
(*                                                                         *)
(* Accounts: every posting takes the number after the last one (Numbered), *)
(* so the entries by number are a journal that only grows at its end.      *)
(*                                                                         *)
(* Keys: while one call with a key is open its check stays true (KeyInv).  *)
(***************************************************************************)
EXTENDS Recharge, Sequences, TLAPS

(* What session s knows of a wallet it has read.                           *)
Remembers(s, c) ==
  /\ seenWallet[s] \in Wallet
  /\ seenWallet[s].version <= wallet[c].version
  /\ seenWallet[s].version = wallet[c].version => seenWallet[s] = wallet[c]

OrderThere(o) == o \in Orders /\ orders[o] \in Order
RefundThere(r) == r \in Refunds /\ refunds[r] \in Refund

SessionInv(s) ==
  /\ pc[s] \in {"pay", "commitOrder"} =>
       job[s].customer \in Customers /\ job[s].amount \in Prices
  /\ pc[s] = "commitOrder" =>
       Remembers(s, job[s].customer) /\ job[s].amount <= seenWallet[s].balance
  /\ pc[s] \in {"cas", "audit", "refund", "credit", "apply", "find"} => OrderThere(job[s].order)
  /\ pc[s] \in {"cas", "audit", "refund", "credit", "revert"} => seenOrder[s] \in Order
  /\ pc[s] \in {"cas", "audit"} => job[s].to \in Statuses
  /\ pc[s] = "find" => job[s].to = "Refunding"
  /\ pc[s] = "apply" => job[s].customer \in Customers /\ job[s].amount \in Nat \ {0}
  /\ pc[s] \in {"approve", "commitApprove", "reject", "revert"} => RefundThere(job[s].refund)

RowInv(r) == refunds[r] # None => OrderThere(refunds[r].order)

PayInv(o) ==
  IF orders[o] # None
  THEN \E e \in PaymentsOf(o) : /\ PaymentsOf(o) = {e}
                                /\ e.customer = orders[o].customer
                                /\ e.amount = -orders[o].amount
  ELSE PaymentsOf(o) = {}

IInv ==
  /\ TypeOK
  /\ \A s \in Sessions : SessionInv(s)
  /\ \A r \in Refunds : RowInv(r)
  /\ \A o \in Orders : PayInv(o)
  /\ \A c \in Customers : wallet[c].balance >= 0

USE PricesAssumption, StartBalanceAssumption, NoneAssumption, NoRowAssumption
-----------------------------------------------------------------------------
LEMMA InitInv == Init => IInv
<1> SUFFICES ASSUME Init  PROVE IInv
  OBVIOUS
<1>1. Blank \in Job
  BY DEF Blank, Job
<1>2. TypeOK
  BY <1>1 DEF Init, TypeOK, Labels, Wallet
<1> QED
  BY <1>2 DEF Init, IInv, SessionInv, RowInv, PayInv, PaymentsOf

(* What a step does to the rows, put so that the steps can share it.       *)
LocalTypes ==
  /\ pc \in [Sessions -> Labels]
  /\ job \in [Sessions -> Job]
  /\ seenOrder \in [Sessions -> Order \cup {None}]
  /\ seenWallet \in [Sessions -> Wallet \cup {None}]

Locals(s) ==
  /\ LocalTypes'
  /\ \A t \in Sessions \ {s} : /\ pc'[t] = pc[t]
                               /\ job'[t] = job[t]
                               /\ seenOrder'[t] = seenOrder[t]
                               /\ seenWallet'[t] = seenWallet[t]

OrdersKept ==
  /\ orders' \in [Orders -> Order \cup {None}]
  /\ \A o \in Orders :
       IF orders[o] = None THEN orders'[o] = None
       ELSE /\ orders'[o] \in Order
            /\ orders'[o].customer = orders[o].customer
            /\ orders'[o].amount = orders[o].amount

RefundsKept ==
  /\ refunds' \in [Refunds -> Refund \cup {None}]
  /\ \A r \in Refunds :
       refunds[r] \in Refund =>
         /\ refunds'[r] \in Refund
         /\ refunds'[r].order = refunds[r].order
         /\ refunds'[r].customer = refunds[r].customer
         /\ refunds'[r].amount = refunds[r].amount

WalletsMove ==
  /\ wallet' \in [Customers -> Wallet]
  /\ \A c \in Customers :
       /\ wallet'[c] = wallet[c] \/ wallet'[c].version > wallet[c].version
       /\ wallet'[c].balance >= 0

Unpaid ==
  /\ entries' \subseteq Entry
  /\ \A e \in entries' \ entries : e.type # "order_pay"
  /\ entries \subseteq entries'

LEMMA OtherSessionKept ==
  ASSUME TypeOK, NEW t \in Sessions, SessionInv(t),
         pc'[t] = pc[t], job'[t] = job[t],
         seenOrder'[t] = seenOrder[t], seenWallet'[t] = seenWallet[t],
         \A o \in Orders : orders[o] \in Order => orders'[o] \in Order,
         RefundsKept, WalletsMove
  PROVE  SessionInv(t)'
<1>2. OrderThere(job[t].order) => OrderThere(job[t].order)'
  BY DEF OrderThere
<1>3. RefundThere(job[t].refund) => RefundThere(job[t].refund)'
  BY DEF RefundThere, RefundsKept
<1>4. job[t].customer \in Customers /\ Remembers(t, job[t].customer) =>
        Remembers(t, job[t].customer)'
  <2> SUFFICES ASSUME job[t].customer \in Customers, Remembers(t, job[t].customer)
               PROVE  Remembers(t, job[t].customer)'
    OBVIOUS
  <2> DEFINE c == job[t].customer
  <2>1. wallet[c] \in Wallet /\ wallet'[c] \in Wallet /\ seenWallet[t] \in Wallet
    BY DEF TypeOK, WalletsMove, Remembers
  <2>2. wallet[c].version \in Nat /\ wallet'[c].version \in Nat /\ seenWallet[t].version \in Nat
    BY <2>1 DEF Wallet
  <2>3. wallet'[c] = wallet[c] \/ wallet'[c].version > wallet[c].version
    BY DEF WalletsMove
  <2>4. CASE wallet'[c] = wallet[c]
    BY <2>4 DEF Remembers
  <2>5. CASE wallet'[c].version > wallet[c].version
    BY <2>1, <2>2, <2>5 DEF Remembers
  <2> QED
    BY <2>3, <2>4, <2>5
<1> QED
  BY <1>2, <1>3, <1>4 DEF SessionInv

(* A step that pays for no order.                                          *)
LEMMA RowsKept ==
  ASSUME IInv, LocalTypes', \A t \in Sessions : SessionInv(t)',
         OrdersKept, RefundsKept, WalletsMove, Unpaid, audit' \subseteq Audit,
         \A r \in Refunds : refunds'[r] # refunds[r] => RowInv(r)'
  PROVE  IInv'
<1>1. TypeOK'
  BY DEF TypeOK, LocalTypes, OrdersKept, RefundsKept, WalletsMove, Unpaid
<1>3. ASSUME NEW r \in Refunds  PROVE RowInv(r)'
  BY DEF IInv, TypeOK, RowInv, OrderThere, OrdersKept
<1>4. ASSUME NEW o \in Orders  PROVE PayInv(o)'
  <2>1. PaymentsOf(o)' = PaymentsOf(o)
    BY DEF PaymentsOf, Unpaid
  <2>2. PayInv(o)
    BY DEF IInv
  <2> QED
    BY <2>1, <2>2 DEF PayInv, OrdersKept
<1> QED
  BY <1>1, <1>3, <1>4 DEF IInv, WalletsMove

(* The same, of one session's step.                                        *)
LEMMA StepKept ==
  ASSUME IInv, NEW s \in Sessions, Locals(s), SessionInv(s)',
         OrdersKept, RefundsKept, WalletsMove, Unpaid, audit' \subseteq Audit,
         \A r \in Refunds : refunds'[r] # refunds[r] => RowInv(r)'
  PROVE  IInv'
<1>1. ASSUME NEW t \in Sessions \ {s}  PROVE SessionInv(t)'
  BY OtherSessionKept DEF OrdersKept, IInv, Locals
<1> QED
  BY <1>1, RowsKept DEF Locals

LEMMA Still ==
  ASSUME IInv
  PROVE  /\ UNCHANGED orders => OrdersKept
         /\ UNCHANGED refunds => RefundsKept
         /\ UNCHANGED wallet => WalletsMove
         /\ UNCHANGED entries => Unpaid
         /\ UNCHANGED audit => audit' \subseteq Audit
  BY DEF IInv, TypeOK, OrdersKept, RefundsKept, WalletsMove, Unpaid

LEMMA ReturnKept ==
  ASSUME IInv, NEW s \in Sessions, Return(s)
  PROVE  Locals(s) /\ SessionInv(s)' /\ pc'[s] = "idle"
<1>1. Blank \in Job
  BY DEF Blank, Job
<1> QED
  BY <1>1 DEF Return, Goto, IInv, TypeOK, Locals, LocalTypes, SessionInv, Labels

(* Money given back, or paid in.                                           *)
LEMMA PostKept ==
  ASSUME IInv, NEW c \in Customers, NEW a \in Int, wallet[c].balance + a >= 0,
         NEW typ \in {"recharge", "order_pay", "order_refund", "refund"},
         NEW rel \in Orders \cup Refunds \cup Recharges \cup {None}, Post(c, a, typ, rel)
  PROVE  /\ WalletsMove
         /\ entries' \subseteq Entry /\ entries \subseteq entries'
         /\ typ # "order_pay" => Unpaid
<1>1. wallet \in [Customers -> Wallet] /\ wallet[c] \in Wallet /\ entries \subseteq Entry
  BY DEF IInv, TypeOK
<1>2. wallet[c].balance + a \in Int /\ wallet[c].version + 1 \in Nat
      /\ wallet[c].version \in Nat
  BY <1>1 DEF Wallet
<1> DEFINE w == [balance |-> wallet[c].balance + a, version |-> wallet[c].version + 1]
           e == [customer |-> c, nr |-> wallet[c].version + 1, amount |-> a,
                 after |-> wallet[c].balance + a, type |-> typ, related |-> rel]
<1>3. w \in Wallet /\ w.balance >= 0 /\ w.version > wallet[c].version
  BY <1>2 DEF Wallet
<1>4. e \in Entry /\ e.type = typ
  BY <1>2 DEF Entry
<1>5. wallet' = [wallet EXCEPT ![c] = w] /\ entries' = entries \cup {e}
  BY <1>1 DEF Post
<1> HIDE DEF w, e
<1>6. WalletsMove
  BY <1>1, <1>3, <1>5 DEF WalletsMove, IInv
<1> QED
  BY <1>1, <1>4, <1>5, <1>6 DEF Unpaid

(* One order's row is replaced by another of the same order.               *)
LEMMA RowReplaced ==
  ASSUME IInv, NEW o \in Orders, orders[o] \in Order, NEW row \in Order,
         row.customer = orders[o].customer, row.amount = orders[o].amount,
         orders' = [orders EXCEPT ![o] = row]
  PROVE  OrdersKept /\ orders'[o] = row
  BY DEF OrdersKept, IInv, TypeOK

(* A transition: status and version.                                       *)
LEMMA Transition ==
  ASSUME IInv, NEW o \in Orders, orders[o] \in Order, NEW st \in Statuses,
         orders' = [orders EXCEPT ![o].status = st, ![o].version = @ + 1]
  PROVE  /\ OrdersKept
         /\ orders'[o].status = st
         /\ orders'[o].refunded = orders[o].refunded
         /\ \A q \in Orders \ {o} : orders'[q] = orders[q]
<1>1. PICK n \in Nat : n = orders[o].version + 1
  BY DEF Order
<1> DEFINE row == [orders[o] EXCEPT !.status = st, !.version = n]
<1>2. /\ row \in Order
      /\ row.status = st
      /\ row.customer = orders[o].customer /\ row.amount = orders[o].amount
      /\ row.refunded = orders[o].refunded
  <2>1. row \in Order
    BY DEF Order
  <2>2. row.status = st /\ row.customer = orders[o].customer
    BY DEF Order
  <2>3. row.amount = orders[o].amount /\ row.refunded = orders[o].refunded
    BY DEF Order
  <2> QED
    BY <2>1, <2>2, <2>3
<1>3. orders' = [orders EXCEPT ![o] = row]
  BY <1>1 DEF IInv, TypeOK
<1> HIDE DEF row
<1> QED
  BY <1>2, <1>3, RowReplaced DEF IInv, TypeOK

-----------------------------------------------------------------------------
(* A call that begins.                                                     *)
LEMMA BegunKept ==
  ASSUME IInv, NEW s \in Sessions, NEW label \in Labels, NEW j \in Job,
         NEW so \in Order \cup {None}, Goto(s, label), job' = [job EXCEPT ![s] = j],
         seenOrder' = [seenOrder EXCEPT ![s] = so], UNCHANGED <<data, seenWallet>>,
         SessionInv(s)'
  PROVE  IInv'
<1>1. Locals(s)
  BY DEF Goto, Locals, LocalTypes, IInv, TypeOK
<1> QED
  BY <1>1, Still, StepKept DEF data

LEMMA StartKept ==
  ASSUME IInv, NEW s \in Sessions, Start(s)
  PROVE  IInv'
<1> Blank \in Job
  BY DEF Blank, Job
<1>1. ASSUME NEW c \in Customers, NEW k \in Keys \cup {None}, NEW p \in Prices,
             FindByCustomerOrderID(s, c, k, p)
      PROVE  IInv'
  <2> DEFINE j == [Blank EXCEPT !.customer = c, !.key = k, !.amount = p]
  <2> p \in Int
    OBVIOUS
  <2>0. j \in Job
    BY DEF Job
  <2>1. j.customer = c /\ j.amount = p
    BY DEF Job
  <2>2. /\ Goto(s, "pay") /\ job' = [job EXCEPT ![s] = j] /\ "pay" \in Labels
        /\ seenOrder' = [seenOrder EXCEPT ![s] = seenOrder[s]] /\ UNCHANGED <<data, seenWallet>>
    BY <1>1 DEF FindByCustomerOrderID, Labels, IInv, TypeOK
  <2> HIDE DEF j
  <2>3. SessionInv(s)'
    BY <2>0, <2>1, <2>2 DEF SessionInv, Goto, IInv, TypeOK
  <2> QED
    BY <2>0, <2>1, <2>2, <2>3, BegunKept DEF IInv, TypeOK
<1>2. ASSUME NEW o \in Orders, NEW to \in Statuses, FindOrder(s, o, to)
      PROVE  IInv'
  <2> DEFINE j == [Blank EXCEPT !.order = o, !.to = to]
  <2>1. j \in Job /\ j.order = o /\ j.to = to
    BY DEF Job
  <2>2. /\ Goto(s, "cas") /\ job' = [job EXCEPT ![s] = j] /\ "cas" \in Labels
        /\ seenOrder' = [seenOrder EXCEPT ![s] = orders[o]] /\ UNCHANGED <<data, seenWallet>>
        /\ orders[o] \in Order
    BY <1>2 DEF FindOrder, Labels, IInv, TypeOK
  <2> HIDE DEF j
  <2>3. SessionInv(s)'
    BY <2>1, <2>2 DEF SessionInv, OrderThere, Goto, data, IInv, TypeOK
  <2> QED
    BY <2>1, <2>2, <2>3, BegunKept
<1>3. ASSUME NEW c \in Customers, NEW o \in Orders, NEW a \in RefundSums,
             ApplyCheck(s, c, o, a)
      PROVE  IInv'
  <2> DEFINE j == [Blank EXCEPT !.customer = c, !.order = o, !.amount = a]
  <2>1. a \in Int /\ a > 0
    BY <1>3, RefundSumsAssumption DEF ApplyCheck, Refundable
  <2>2. j \in Job /\ j.customer = c /\ j.order = o /\ j.amount = a
    BY <2>1 DEF Job
  <2>3. /\ Goto(s, "apply") /\ job' = [job EXCEPT ![s] = j] /\ "apply" \in Labels
        /\ seenOrder' = [seenOrder EXCEPT ![s] = seenOrder[s]] /\ UNCHANGED <<data, seenWallet>>
        /\ orders[o] \in Order
    BY <1>3 DEF ApplyCheck, Labels, IInv, TypeOK
  <2> HIDE DEF j
  <2>4. SessionInv(s)'
    BY <2>1, <2>2, <2>3 DEF SessionInv, OrderThere, Goto, data, IInv, TypeOK
  <2> QED
    BY <2>2, <2>3, <2>4, BegunKept DEF IInv, TypeOK
<1>4. ASSUME NEW r \in Refunds, NEW verdict \in {"approve", "reject"},
             ReviewCheck(s, r, verdict)
      PROVE  IInv'
  <2> DEFINE j == [Blank EXCEPT !.refund = r]
  <2>1. j \in Job /\ j.refund = r
    BY DEF Job
  <2>2. /\ Goto(s, verdict) /\ job' = [job EXCEPT ![s] = j] /\ verdict \in Labels
        /\ seenOrder' = [seenOrder EXCEPT ![s] = seenOrder[s]] /\ UNCHANGED <<data, seenWallet>>
        /\ refunds[r] \in Refund
    BY <1>4 DEF ReviewCheck, Labels, IInv, TypeOK
  <2> HIDE DEF j
  <2>3. SessionInv(s)'
    BY <2>1, <2>2 DEF SessionInv, RefundThere, Goto, data, IInv, TypeOK
  <2> QED
    BY <2>1, <2>2, <2>3, BegunKept DEF IInv, TypeOK
<1>5. ASSUME NEW o \in Orders, NEW to \in Statuses, TransitionRefused(s, o, to)
      PROVE  IInv'
  <2>1. Locals(s) /\ SessionInv(s)'
    BY <1>5 DEF TransitionRefused, vars, data, local, Locals, LocalTypes, IInv, TypeOK, SessionInv,
       Remembers, OrderThere, RefundThere
  <2> QED
    BY <1>5, <2>1, Still, StepKept DEF TransitionRefused, vars, data
<1> QED
  BY <1>1, <1>2, <1>3, <1>4, <1>5 DEF Start

-----------------------------------------------------------------------------
(* A step that goes on to another label.                                   *)
LEMMA Moved ==
  ASSUME IInv, NEW s \in Sessions, NEW label \in Labels, NEW j \in Job,
         NEW so \in Order \cup {None}, NEW sw \in Wallet \cup {None},
         Goto(s, label), job' = [job EXCEPT ![s] = j],
         seenOrder' = [seenOrder EXCEPT ![s] = so],
         seenWallet' = [seenWallet EXCEPT ![s] = sw]
  PROVE  /\ Locals(s)
         /\ pc'[s] = label /\ job'[s] = j /\ seenOrder'[s] = so /\ seenWallet'[s] = sw
  BY DEF Goto, Locals, LocalTypes, IInv, TypeOK

LEMMA Unmoved ==
  ASSUME IInv, NEW s \in Sessions
  PROVE  /\ UNCHANGED job => job' = [job EXCEPT ![s] = job[s]]
         /\ UNCHANGED seenOrder => seenOrder' = [seenOrder EXCEPT ![s] = seenOrder[s]]
         /\ UNCHANGED seenWallet => seenWallet' = [seenWallet EXCEPT ![s] = seenWallet[s]]
         /\ job[s] \in Job /\ seenOrder[s] \in Order \cup {None}
         /\ seenWallet[s] \in Wallet \cup {None}
         /\ SessionInv(s)
  BY DEF IInv, TypeOK

(* A step that only reads.                                                 *)
LEMMA ReadKept ==
  ASSUME IInv, NEW s \in Sessions, Locals(s), SessionInv(s)', UNCHANGED data
  PROVE  IInv'
  BY Still, StepKept DEF data

LEMMA ReturnOnly ==
  ASSUME IInv, NEW s \in Sessions, Return(s), UNCHANGED data
  PROVE  IInv'
  BY ReturnKept, ReadKept

LEMMA DebitReadKept ==
  ASSUME IInv, NEW s \in Sessions, DebitRead(s)
  PROVE  IInv'
<1> UNCHANGED data /\ pc[s] = "pay" /\ UNCHANGED wallet
  BY DEF DebitRead, data
<1> DEFINE c == job[s].customer
<1>1. c \in Customers /\ job[s].amount \in Prices /\ wallet[c] \in Wallet
  BY Unmoved DEF SessionInv, IInv, TypeOK
<1>2. CASE Covered(s, c)
  <2>1. /\ seenWallet' = [seenWallet EXCEPT ![s] = wallet[c]]
        /\ Goto(s, "commitOrder") /\ UNCHANGED <<job, seenOrder>>
    BY <1>2 DEF DebitRead
  <2>2. Locals(s) /\ pc'[s] = "commitOrder" /\ job'[s] = job[s] /\ seenWallet'[s] = wallet[c]
    BY <1>1, <2>1 DEF Labels, Goto, Locals, LocalTypes, IInv, TypeOK
  <2>3. Remembers(s, c)'
    BY <1>1, <2>2 DEF Remembers, Wallet
  <2>4. SessionInv(s)'
    BY <1>1, <1>2, <2>2, <2>3 DEF SessionInv, Covered
  <2> QED
    BY <2>2, <2>4, ReadKept
<1>3. CASE ~Covered(s, c)
  BY <1>3, ReturnOnly DEF DebitRead
<1> QED
  BY <1>2, <1>3

(* The versioned debit: the balance is still the one that covered it.      *)
LEMMA CreateOrderKept ==
  ASSUME IInv, NEW s \in Sessions, NEW o \in Orders, CreateOrder(s, o)
  PROVE  IInv'
<1> DEFINE c == job[s].customer
           a == job[s].amount
<1>1. /\ pc[s] = "commitOrder" /\ Return(s) /\ UNCHANGED <<refunds, audit>>
      /\ orders[o] = None
  BY DEF CreateOrder
<1>2. /\ c \in Customers /\ a \in Prices /\ a \in Nat \ {0}
      /\ Remembers(s, c) /\ a <= seenWallet[s].balance
      /\ job[s].key \in Keys \cup {None} /\ wallet[c] \in Wallet
  BY <1>1, Unmoved DEF SessionInv, Job, IInv, TypeOK
<1>3. Locals(s) /\ SessionInv(s)'
  BY <1>1, ReturnKept
<1>4. CASE ~SameWallet(s, c)
  BY <1>1, <1>4, ReturnOnly DEF CreateOrder, InsertRolledBack, data
<1>5. CASE SameWallet(s, c)
  <2> DEFINE row == [customer |-> c, key |-> job[s].key, amount |-> a, refunded |-> 0,
                     status |-> "Paid", version |-> 0]
             e == [customer |-> c, nr |-> wallet[c].version + 1, amount |-> -a,
                   after |-> wallet[c].balance + -a, type |-> "order_pay", related |-> o]
  <2>1. orders' = [orders EXCEPT ![o] = row] /\ Post(c, -a, "order_pay", o)
    BY <1>5 DEF CreateOrder
  <2>2. row \in Order /\ row.customer = c /\ row.amount = a
    BY <1>2 DEF Order, Statuses
  <2>3. entries' = entries \cup {e}
    BY <2>1 DEF Post
  <2>4. wallet[c].balance - a >= 0
    BY <1>2, <1>5 DEF SameWallet, Remembers, Wallet
  <2>5. WalletsMove /\ entries' \subseteq Entry
    <3>1. -a \in Int /\ wallet[c].balance + -a >= 0
      BY <1>2, <2>4 DEF Wallet
    <3> HIDE DEF c, a
    <3> QED
      BY <1>2, <2>1, <3>1, PostKept
  <2>6. e.type = "order_pay" /\ e.related = o /\ e.customer = c /\ e.amount = -a
    OBVIOUS
  <2> HIDE DEF row, e
  <2>7. orders' \in [Orders -> Order \cup {None}] /\ orders'[o] = row
        /\ \A q \in Orders \ {o} : orders'[q] = orders[q]
    BY <2>1, <2>2 DEF IInv, TypeOK
  <2>8. RefundsKept
    BY <1>1, Still
  <2>9. TypeOK'
    BY <1>1, <1>3, <2>5, <2>7 DEF TypeOK, IInv, Locals, LocalTypes, WalletsMove
  <2>10. ASSUME NEW t \in Sessions \ {s}  PROVE SessionInv(t)'
    BY <1>3, <2>2, <2>5, <2>7, <2>8, OtherSessionKept DEF IInv, Locals
  <2>11. ASSUME NEW r \in Refunds  PROVE RowInv(r)'
    BY <1>1, <2>2, <2>7 DEF IInv, TypeOK, RowInv, OrderThere
  <2>12. ASSUME NEW q \in Orders  PROVE PayInv(q)'
    <3>1. PayInv(q)
      BY DEF IInv
    <3>2. CASE q = o
      <4>1. PaymentsOf(o) = {}
        BY <1>1, <3>1, <3>2 DEF PayInv
      <4>2. PaymentsOf(o)' = {e}
        BY <2>3, <2>6, <4>1 DEF PaymentsOf
      <4> QED
        BY <2>2, <2>6, <2>7, <3>2, <4>2 DEF PayInv
    <3>3. CASE q # o
      <4>1. PaymentsOf(q)' = PaymentsOf(q)
        BY <2>3, <2>6, <3>3 DEF PaymentsOf
      <4> QED
        BY <2>7, <3>1, <3>3, <4>1 DEF PayInv
    <3> QED
      BY <3>2, <3>3
  <2> QED
    BY <1>3, <2>5, <2>9, <2>10, <2>11, <2>12 DEF IInv, WalletsMove
<1> QED
  BY <1>4, <1>5

LEMMA UpdateStatusCASKept ==
  ASSUME IInv, NEW s \in Sessions, UpdateStatusCAS(s)
  PROVE  IInv'
<1> DEFINE o == job[s].order
           st == job[s].to
<1>1. pc[s] = "cas" /\ UNCHANGED <<refunds, wallet, entries, audit>>
  BY DEF UpdateStatusCAS
<1>2. o \in Orders /\ orders[o] \in Order /\ st \in Statuses /\ seenOrder[s] \in Order
  BY <1>1, Unmoved DEF SessionInv, OrderThere
<1>3. CASE ~SameOrder(s, o)
  BY <1>1, <1>3, ReturnOnly DEF UpdateStatusCAS, data
<1>4. CASE SameOrder(s, o)
  <2>1. /\ orders' = [orders EXCEPT ![o].status = st, ![o].version = @ + 1]
        /\ Goto(s, "audit") /\ UNCHANGED <<job, seenOrder, seenWallet>>
    BY <1>4 DEF UpdateStatusCAS
  <2>2. Locals(s) /\ pc'[s] = "audit"
    BY <2>1 DEF Labels, Goto, Locals, LocalTypes, IInv, TypeOK
  <2>3. OrdersKept
    <3> HIDE DEF o, st
    <3> QED
      BY <1>2, <2>1, Transition
  <2>4. SessionInv(s)'
    BY <1>2, <2>1, <2>2, <2>3 DEF SessionInv, OrderThere, OrdersKept
  <2> QED
    BY <1>1, <2>2, <2>3, <2>4, Still, StepKept
<1> QED
  BY <1>3, <1>4

LEMMA ChangeIsAudit ==
  ASSUME NEW o \in Orders, NEW from \in Statuses, NEW to \in Statuses, NEW n \in Nat
  PROVE  Change(o, from, to, n) \in Audit
  BY DEF Change, Audit

LEMMA CreateStatusChangeKept ==
  ASSUME IInv, NEW s \in Sessions, CreateStatusChange(s)
  PROVE  IInv'
<1> DEFINE ch == Change(job[s].order, seenOrder[s].status, job[s].to, seenOrder[s].version + 1)
<1>1. pc[s] = "audit" /\ UNCHANGED <<orders, refunds, wallet, entries>>
      /\ (audit' = audit \cup {ch} \/ UNCHANGED audit)
  BY DEF CreateStatusChange
<1>2. OrderThere(job[s].order) /\ job[s].to \in Statuses /\ seenOrder[s] \in Order
  BY <1>1, Unmoved DEF SessionInv
<1>3. ch \in Audit
  <2>1. seenOrder[s].status \in Statuses /\ seenOrder[s].version + 1 \in Nat
    BY <1>2 DEF Order
  <2> QED
    BY <1>2, <2>1, ChangeIsAudit DEF OrderThere
<1>4. audit' \subseteq Audit
  <2> HIDE DEF ch
  <2> QED
    BY <1>1, <1>3 DEF IInv, TypeOK
<1>5. Locals(s) /\ SessionInv(s)'
  <2>1. CASE job[s].to = "Refunded"
    <3>1. Goto(s, "refund") /\ UNCHANGED <<job, seenOrder, seenWallet>>
      BY <2>1 DEF CreateStatusChange
    <3>2. Locals(s) /\ pc'[s] = "refund"
      BY <3>1 DEF Labels, Goto, Locals, LocalTypes, IInv, TypeOK
    <3> QED
      BY <1>1, <1>2, <3>1, <3>2 DEF SessionInv, OrderThere
  <2>2. CASE job[s].to # "Refunded"
    BY <2>2, ReturnKept DEF CreateStatusChange
  <2> QED
    BY <2>1, <2>2
<1> QED
  BY <1>1, <1>4, <1>5, Still, StepKept

LEMMA CreditReadKept ==
  ASSUME IInv, NEW s \in Sessions, CreditRead(s)
  PROVE  IInv'
<1>1. /\ pc[s] = "refund" /\ Goto(s, "credit") /\ UNCHANGED <<data, job, seenOrder>>
      /\ seenWallet' = [seenWallet EXCEPT ![s] = wallet[seenOrder[s].customer]]
  BY DEF CreditRead
<1>2. OrderThere(job[s].order) /\ seenOrder[s] \in Order
  BY <1>1, Unmoved DEF SessionInv
<1>3. wallet[seenOrder[s].customer] \in Wallet
  BY <1>2 DEF Order, IInv, TypeOK
<1>4. Locals(s) /\ pc'[s] = "credit"
  BY <1>1, <1>3 DEF Labels, Goto, Locals, LocalTypes, IInv, TypeOK
<1>5. SessionInv(s)'
  BY <1>1, <1>2, <1>4 DEF SessionInv, OrderThere, data
<1> QED
  BY <1>1, <1>4, <1>5, ReadKept

LEMMA ProcessRefundKept ==
  ASSUME IInv, NEW s \in Sessions, ProcessRefund(s)
  PROVE  IInv'
<1> DEFINE c == seenOrder[s].customer
           a == IF seenOrder[s].refunded > 0 THEN seenOrder[s].refunded
                ELSE seenOrder[s].amount
<1>1. pc[s] = "credit" /\ Return(s) /\ UNCHANGED <<orders, refunds, audit>>
  BY DEF ProcessRefund
<1>2. job[s].order \in Orders /\ seenOrder[s] \in Order
  BY <1>1, Unmoved DEF SessionInv, OrderThere
<1>3. c \in Customers /\ a \in Nat
  BY <1>2 DEF Order
<1>4. WalletsMove /\ Unpaid
  <2>1. CASE SameWallet(s, c)
    <3>1. Post(c, a, "order_refund", job[s].order)
      BY <2>1 DEF ProcessRefund
    <3>2. a \in Int /\ wallet[c].balance + a >= 0
      <4> HIDE DEF c, a
      <4> QED
        BY <1>3 DEF IInv, TypeOK, Wallet
    <3> HIDE DEF c, a
    <3> QED
      BY <1>2, <1>3, <3>1, <3>2, PostKept
  <2>2. CASE ~SameWallet(s, c)
    BY <2>2, Still DEF ProcessRefund
  <2> QED
    BY <2>1, <2>2
<1> QED
  BY <1>1, <1>4, ReturnKept, Still, StepKept

-----------------------------------------------------------------------------
LEMMA CreateRefundKept ==
  ASSUME IInv, NEW s \in Sessions, NEW r \in Refunds, CreateRefund(s, r)
  PROVE  IInv'
<1> DEFINE row == [order |-> job[s].order, customer |-> job[s].customer,
                   amount |-> job[s].amount, status |-> "Pending"]
           j == [job[s] EXCEPT !.to = "Refunding"]
<1>1. /\ pc[s] = "apply" /\ refunds[r] = None /\ Goto(s, "find")
      /\ refunds' = [refunds EXCEPT ![r] = row]
      /\ UNCHANGED <<orders, wallet, entries, audit, seenOrder, seenWallet>>
  BY DEF CreateRefund
<1>2. /\ OrderThere(job[s].order) /\ job[s] \in Job
      /\ job[s].customer \in Customers /\ job[s].amount \in Nat \ {0}
  BY <1>1, Unmoved DEF SessionInv
<1>3. row \in Refund /\ row.order = job[s].order
  BY <1>2 DEF Refund, OrderThere
<1>4. j \in Job
  BY <1>2 DEF Job, Statuses
<1>5. j.to = "Refunding" /\ j.order = job[s].order
  BY <1>2 DEF Job
<1>6. job' = [job EXCEPT ![s] = j]
  BY DEF CreateRefund, IInv, TypeOK
<1> HIDE DEF row, j
<1>7. Locals(s) /\ pc'[s] = "find" /\ job'[s] = j
  BY <1>1, <1>4, <1>6 DEF Labels, Goto, Locals, LocalTypes, IInv, TypeOK
<1>8. SessionInv(s)'
  BY <1>1, <1>2, <1>5, <1>7 DEF SessionInv, OrderThere
<1>9. RefundsKept /\ \A q \in Refunds : refunds'[q] # refunds[q] => RowInv(q)'
  BY <1>1, <1>2, <1>3 DEF RefundsKept, RowInv, OrderThere, IInv, TypeOK
<1> QED
  BY <1>1, <1>7, <1>8, <1>9, Still, StepKept

LEMMA FindAppliedKept ==
  ASSUME IInv, NEW s \in Sessions, FindApplied(s)
  PROVE  IInv'
<1> DEFINE o == job[s].order
<1>1. pc[s] = "find" /\ UNCHANGED data
  BY DEF FindApplied
<1>2. OrderThere(o) /\ job[s].to = "Refunding"
  BY <1>1, Unmoved DEF SessionInv
<1>3. CASE IsValidTransition(orders[o].status, "Refunding")
  <2>1. /\ seenOrder' = [seenOrder EXCEPT ![s] = orders[o]]
        /\ Goto(s, "cas") /\ UNCHANGED <<job, seenWallet>>
    BY <1>3 DEF FindApplied
  <2>2. Locals(s) /\ pc'[s] = "cas" /\ seenOrder'[s] = orders[o]
    BY <1>2, <2>1 DEF OrderThere, Labels, Goto, Locals, LocalTypes, IInv, TypeOK
  <2>3. SessionInv(s)'
    BY <1>1, <1>2, <2>1, <2>2 DEF SessionInv, OrderThere, Statuses, data
  <2> QED
    BY <1>1, <2>2, <2>3, ReadKept
<1>4. CASE ~IsValidTransition(orders[o].status, "Refunding")
  BY <1>1, <1>4, ReturnOnly DEF FindApplied
<1> QED
  BY <1>3, <1>4

(* An application that is reviewed keeps what it asks for.                 *)
LEMMA RefundReviewed ==
  ASSUME IInv, NEW r \in Refunds, refunds[r] \in Refund,
         NEW st \in {"Pending", "Rejected", "Completed"},
         refunds' = [refunds EXCEPT ![r].status = st], OrdersKept
  PROVE  RefundsKept /\ \A q \in Refunds : refunds'[q] # refunds[q] => RowInv(q)'
<1> DEFINE row == [refunds[r] EXCEPT !.status = st]
<1>1. row \in Refund
  BY DEF Refund
<1>2. row.order = refunds[r].order /\ row.customer = refunds[r].customer
  BY DEF Refund
<1>3. row.amount = refunds[r].amount
  BY DEF Refund
<1>4. refunds' = [refunds EXCEPT ![r] = row]
  BY DEF IInv, TypeOK
<1>5. OrderThere(refunds[r].order)
  BY DEF IInv, RowInv
<1> HIDE DEF row
<1>6. RefundsKept
  BY <1>1, <1>2, <1>3, <1>4 DEF RefundsKept, IInv, TypeOK
<1>7. RowInv(r)'
  BY <1>1, <1>2, <1>4, <1>5 DEF RowInv, OrderThere, OrdersKept, IInv, TypeOK
<1>8. \A q \in Refunds : refunds'[q] # refunds[q] => q = r
  BY <1>4 DEF IInv, TypeOK
<1> QED
  BY <1>6, <1>7, <1>8

(* What a session knows of the application it reviews.                     *)
LEMMA UnderReview ==
  ASSUME IInv, NEW s \in Sessions,
         pc[s] \in {"approve", "commitApprove", "reject", "revert"}
  PROVE  LET r == job[s].refund
         IN /\ r \in Refunds /\ refunds[r] \in Refund
            /\ OrderThere(refunds[r].order)
            /\ refunds[r].customer \in Customers /\ refunds[r].amount \in Nat \ {0}
<1>1. RefundThere(job[s].refund)
  BY Unmoved DEF SessionInv
<1> QED
  BY <1>1 DEF RefundThere, IInv, RowInv, Refund

LEMMA ApproveReadKept ==
  ASSUME IInv, NEW s \in Sessions, ApproveRead(s)
  PROVE  IInv'
<1> DEFINE rf == refunds[job[s].refund]
<1>1. pc[s] = "approve" /\ UNCHANGED data
  BY DEF ApproveRead
<1>2. RefundThere(job[s].refund) /\ wallet[rf.customer] \in Wallet
  BY <1>1, UnderReview DEF RefundThere, IInv, TypeOK
<1>3. CASE rf.status = "Pending"
  <2>1. /\ seenWallet' = [seenWallet EXCEPT ![s] = wallet[rf.customer]]
        /\ Goto(s, "commitApprove") /\ UNCHANGED <<job, seenOrder>>
    BY <1>3 DEF ApproveRead
  <2>2. Locals(s) /\ pc'[s] = "commitApprove"
    BY <1>2, <2>1 DEF Labels, Goto, Locals, LocalTypes, IInv, TypeOK
  <2>3. SessionInv(s)'
    BY <1>1, <1>2, <2>1, <2>2 DEF SessionInv, RefundThere, data
  <2> QED
    BY <1>1, <2>2, <2>3, ReadKept
<1>4. CASE rf.status # "Pending"
  BY <1>1, <1>4, ReturnOnly DEF ApproveRead
<1> QED
  BY <1>3, <1>4

(* The order after an approval.                                            *)
LEMMA ApprovedOrder ==
  ASSUME IInv, NEW o \in Orders, orders[o] \in Order, NEW a \in Int,
         orders' = ApprovedOrders(o, a)
  PROVE  /\ OrdersKept
         /\ orders'[o].status = "Refunded"
         /\ orders'[o].refunded = orders[o].refunded + a
         /\ \A q \in Orders \ {o} : orders'[q] = orders[q]
<1>1. PICK n \in Nat : n = orders[o].version + Hops(o)
  BY DEF Order, Hops
<1>2. PICK m \in Int : m = orders[o].refunded + a
  BY DEF Order
<1> DEFINE row == [orders[o] EXCEPT !.status = "Refunded", !.refunded = m, !.version = n]
<1>3. row \in Order
  BY DEF Order, Statuses
<1>4. row.status = "Refunded" /\ row.customer = orders[o].customer
  BY DEF Order
<1>5. row.amount = orders[o].amount /\ row.refunded = m
  BY DEF Order
<1>6. orders' = [orders EXCEPT ![o] = row]
  BY <1>1, <1>2 DEF ApprovedOrders, IInv, TypeOK
<1> HIDE DEF row
<1> QED
  BY <1>2, <1>3, <1>4, <1>5, <1>6, RowReplaced DEF IInv, TypeOK

LEMMA ApproveKept ==
  ASSUME IInv, NEW s \in Sessions, Approve(s)
  PROVE  IInv'
<1> DEFINE r == job[s].refund
           a == refunds[r].amount
           o == refunds[r].order
           n == orders[o].version + Hops(o)
           Goes == /\ refunds[r].status = "Pending"
                   /\ SameWallet(s, refunds[r].customer)
                   /\ Approvable(o, a)
<1>1. pc[s] = "commitApprove" /\ Return(s)
  BY DEF Approve
<1>2. /\ r \in Refunds /\ refunds[r] \in Refund /\ o \in Orders /\ orders[o] \in Order
      /\ refunds[r].customer \in Customers /\ a \in Nat \ {0}
  BY <1>1, UnderReview DEF OrderThere
<1>3. CASE ~Goes
  BY <1>1, <1>3, ReturnOnly DEF Approve, Unclaimed, data
<1>4. CASE Goes
  <2>1. /\ refunds' = [refunds EXCEPT ![r].status = "Completed"]
        /\ Post(refunds[r].customer, a, "refund", r)
        /\ orders' = ApprovedOrders(o, a)
        /\ audit' = audit \cup
             {Change(o, "Returned", "Refunded", n)} \cup
             {Change(o, "Refunding", "Returned", n - 1) : h \in 1..(Hops(o) - 1)}
    BY <1>4 DEF Approve
  <2>2. n \in Nat /\ n - 1 \in Nat
    BY <1>2 DEF Order, Hops
  <2>3. audit' \subseteq Audit
    <3>1. Change(o, "Returned", "Refunded", n) \in Audit
      BY <1>2, <2>2, ChangeIsAudit DEF Statuses
    <3>2. Change(o, "Refunding", "Returned", n - 1) \in Audit
      BY <1>2, <2>2, ChangeIsAudit DEF Statuses
    <3> HIDE DEF o, n
    <3> QED
      BY <2>1, <3>1, <3>2 DEF IInv, TypeOK
  <2>4. a \in Int /\ wallet[refunds[r].customer].balance + a >= 0
    <3> HIDE DEF a, r
    <3> QED
      BY <1>2 DEF IInv, TypeOK, Wallet
  <2> HIDE DEF r, a, o, n
  <2>5. OrdersKept
    BY <1>2, <2>1, <2>4, ApprovedOrder
  <2>6. RefundsKept /\ \A q \in Refunds : refunds'[q] # refunds[q] => RowInv(q)'
    BY <1>2, <2>1, <2>5, RefundReviewed
  <2>7. WalletsMove /\ Unpaid
    BY <1>2, <2>1, <2>4, PostKept
  <2> QED
    BY <1>1, <2>3, <2>5, <2>6, <2>7, ReturnKept, StepKept
<1> QED
  BY <1>3, <1>4

LEMMA RejectReadKept ==
  ASSUME IInv, NEW s \in Sessions, RejectRead(s)
  PROVE  IInv'
<1> DEFINE r == job[s].refund
           o == refunds[r].order
<1>1. pc[s] = "reject" /\ UNCHANGED <<orders, wallet, entries, audit>>
  BY DEF RejectRead
<1>2. r \in Refunds /\ refunds[r] \in Refund /\ o \in Orders /\ orders[o] \in Order
  BY <1>1, UnderReview DEF OrderThere
<1>3. CASE refunds[r].status # "Pending"
  BY <1>1, <1>3, ReturnOnly DEF RejectRead, data
<1>4. CASE refunds[r].status = "Pending" /\ orders[o].status # "Refunding"
  <2>1. refunds' = [refunds EXCEPT ![r].status = "Rejected"] /\ Return(s)
    BY <1>4 DEF RejectRead
  <2> HIDE DEF r, o
  <2>2. RefundsKept /\ \A q \in Refunds : refunds'[q] # refunds[q] => RowInv(q)'
    BY <1>1, <1>2, <2>1, RefundReviewed, Still
  <2> QED
    BY <1>1, <2>1, <2>2, ReturnKept, Still, StepKept
<1>5. CASE refunds[r].status = "Pending" /\ orders[o].status = "Refunding"
  <2>1. /\ seenOrder' = [seenOrder EXCEPT ![s] = orders[o]]
        /\ Goto(s, "revert") /\ UNCHANGED <<refunds, job, seenWallet>>
    BY <1>5 DEF RejectRead
  <2>2. Locals(s) /\ pc'[s] = "revert" /\ seenOrder'[s] = orders[o]
    BY <1>2, <2>1 DEF Labels, Goto, Locals, LocalTypes, IInv, TypeOK
  <2>3. SessionInv(s)'
    BY <1>1, <1>2, <2>1, <2>2 DEF SessionInv, RefundThere
  <2> QED
    BY <1>1, <2>1, <2>2, <2>3, ReadKept DEF data
<1> QED
  BY <1>3, <1>4, <1>5

LEMMA RejectKept ==
  ASSUME IInv, NEW s \in Sessions, Reject(s)
  PROVE  IInv'
<1> DEFINE r == job[s].refund
           o == refunds[r].order
           ch == Change(o, "Refunding", "Processing", seenOrder[s].version + 1)
           Goes == refunds[r].status = "Pending" /\ SameOrder(s, o)
<1>1. pc[s] = "revert" /\ Return(s) /\ UNCHANGED <<wallet, entries>>
  BY DEF Reject
<1>2. /\ r \in Refunds /\ refunds[r] \in Refund /\ o \in Orders /\ orders[o] \in Order
      /\ seenOrder[s] \in Order
  BY <1>1, UnderReview, Unmoved DEF OrderThere, SessionInv
<1>3. CASE ~Goes
  BY <1>1, <1>3, ReturnOnly DEF Reject, data
<1>4. CASE Goes
  <2>1. /\ refunds' = [refunds EXCEPT ![r].status = "Rejected"]
        /\ orders' = [orders EXCEPT ![o].status = "Processing", ![o].version = @ + 1]
        /\ audit' = audit \cup {ch}
    BY <1>4 DEF Reject
  <2>2. ch \in Audit
    <3>1. seenOrder[s].version + 1 \in Nat
      BY <1>2 DEF Order
    <3> QED
      BY <1>2, <3>1, ChangeIsAudit DEF Statuses
  <2> HIDE DEF r, o, ch
  <2>3. audit' \subseteq Audit
    BY <2>1, <2>2 DEF IInv, TypeOK
  <2>4. OrdersKept
    <3>1. "Processing" \in Statuses
      BY DEF Statuses
    <3> QED
      BY <1>2, <2>1, <3>1, Transition
  <2>5. RefundsKept /\ \A q \in Refunds : refunds'[q] # refunds[q] => RowInv(q)'
    BY <1>2, <2>1, <2>4, RefundReviewed
  <2> QED
    BY <1>1, <2>3, <2>4, <2>5, ReturnKept, Still, StepKept
<1> QED
  BY <1>3, <1>4

-----------------------------------------------------------------------------
(* Money comes in from outside the orders.                                 *)
PaysIn ==
  /\ \E c \in Customers, a \in Nat, rel \in Recharges \cup {None} :
       Post(c, a, "recharge", rel)
  /\ UNCHANGED <<orders, refunds, audit, local>>

LEMMA PaysInKept == IInv /\ PaysIn => IInv'
<1> SUFFICES ASSUME IInv, PaysIn  PROVE IInv'
  OBVIOUS
<1>1. PICK c \in Customers, a \in Nat, rel \in Recharges \cup {None} :
        Post(c, a, "recharge", rel)
  BY DEF PaysIn
<1>2. UNCHANGED <<orders, refunds, audit, local>>
  BY DEF PaysIn
<1>3. wallet[c].balance + a >= 0
  BY DEF IInv, TypeOK, Wallet
<1>4. WalletsMove /\ Unpaid
  BY <1>1, <1>3, PostKept
<1>5. OrdersKept /\ RefundsKept
  BY <1>2, Still
<1>6. LocalTypes'
  BY <1>2 DEF local, LocalTypes, IInv, TypeOK
<1>7. ASSUME NEW t \in Sessions  PROVE SessionInv(t)'
  BY <1>2, <1>4, <1>5, OtherSessionKept DEF local, IInv, OrdersKept
<1> QED
  BY <1>2, <1>4, <1>5, <1>6, <1>7, Still, RowsKept

LEMMA RechargePaysIn ==
  ASSUME NEW c \in Customers, Recharge(c)
  PROVE  PaysIn
  BY DEF Recharge, PaysIn

LEMMA NextInv == IInv /\ [Next]_vars => IInv'
<1> SUFFICES ASSUME IInv, [Next]_vars  PROVE IInv'
  OBVIOUS
<1>1. ASSUME NEW s \in Sessions, Start(s)  PROVE IInv'
  BY <1>1, StartKept
<1>2. ASSUME NEW s \in Sessions, Continue(s)  PROVE IInv'
  BY <1>2, DebitReadKept, CreateOrderKept, UpdateStatusCASKept, CreateStatusChangeKept,
     CreditReadKept, ProcessRefundKept, CreateRefundKept, FindAppliedKept,
     ApproveReadKept, ApproveKept, RejectReadKept, RejectKept DEF Continue
<1>3. ASSUME NEW c \in Customers, Recharge(c)  PROVE IInv'
  BY <1>3, RechargePaysIn, PaysInKept
<1>4. ASSUME NEW s \in Sessions, Fail(s)  PROVE IInv'
  BY <1>4, ReturnOnly DEF Fail
<1>5. CASE UNCHANGED vars
  BY <1>5 DEF vars, data, local, IInv, TypeOK, SessionInv, Remembers, OrderThere,
     RefundThere, RowInv, PayInv, PaymentsOf
<1> QED
  BY <1>1, <1>2, <1>3, <1>4, <1>5 DEF Next, Serve

LEMMA OrderInvariant == Spec => []IInv
  BY InitInv, NextInv, PTL DEF Spec

LEMMA PaidByInvariant == IInv => PaidOnce
  BY DEF IInv, PayInv, PaidOnce, Created

(* Every variable stays in its domain, whatever the sessions do and        *)
(* wherever they fail.                                                     *)
THEOREM OrderTypes == Spec => []TypeOK
<1>1. IInv => TypeOK
  BY DEF IInv
<1> QED
  BY <1>1, OrderInvariant, PTL

(* Every order is paid by exactly one debit of its amount from its         *)
(* customer, there is no debit without its order, and no race of orders    *)
(* overdraws a wallet.                                                     *)
THEOREM EveryOrderPaidOnce == Spec => []PaidOnce
  BY PaidByInvariant, OrderInvariant, PTL

-----------------------------------------------------------------------------
(***************************************************************************)
(* Recharges.  An approval that has updated its application holds the row  *)
(* until it ends, so the row is still pending when the credit is committed *)
(* and nobody else is about to credit it; and no order, refund or other    *)
(* recharge writes an entry under an application's id.                     *)
(***************************************************************************)

(* The row of an application whose user has been given its amount once.    *)
Paid(r) ==
  \E e \in entries : /\ RechargeEntries(r) = {e}
                     /\ e.amount = recharges[r].amount
                     /\ e.customer = recharges[r].user
IsCompleted(r) == recharges[r] # None /\ recharges[r].status = "Completed"
PaidIfCompleted(r) == IF IsCompleted(r) THEN Paid(r) ELSE RechargeEntries(r) = {}

(* What a handler knows: its row is there and, apart from its status and   *)
(* version, still what was read.                                           *)
KnowsRow(h) ==
  /\ call[h].id \in Recharges
  /\ recharges[call[h].id] \in Application
  /\ seenRow[h] \in Application
  /\ seenRow[h].user = recharges[call[h].id].user
  /\ seenRow[h].amount = recharges[call[h].id].amount

(* An approval between its update and its end holds the row.               *)
Holds(h) ==
  /\ recharges[call[h].id].status = "Pending"
  /\ \A g \in Reviewers : at[g] = "credit" /\ call[g].id = call[h].id => g = h

HandlerInv(h) ==
  /\ at[h] = "insert" => call[h].user \in Customers /\ call[h].amount \in Nat \ {0}
  /\ at[h] \in {"approve", "credit", "reject"} => KnowsRow(h)
  /\ at[h] = "credit" => Holds(h)

Rows ==
  /\ recharges \in [Recharges -> Application \cup {None}]
  /\ at \in [Reviewers -> Stations]
  /\ call \in [Reviewers -> Served]
  /\ seenRow \in [Reviewers -> Application \cup {None}]

CreditInv ==
  /\ Rows
  /\ \A h \in Reviewers : HandlerInv(h)
  /\ \A r \in Recharges : PaidIfCompleted(r)
-----------------------------------------------------------------------------
LEMMA InitCredits == RInit => CreditInv
<1> SUFFICES ASSUME RInit  PROVE CreditInv
  OBVIOUS
<1>1. Rows
  BY RechargeAssumption DEF RInit, Rows, Stations, Served, NoCall
<1>2. \A h \in Reviewers : HandlerInv(h)
  BY DEF RInit, HandlerInv
<1>3. \A r \in Recharges : PaidIfCompleted(r)
  BY DEF RInit, Init, PaidIfCompleted, IsCompleted, RechargeEntries
<1> QED
  BY <1>1, <1>2, <1>3 DEF CreditInv

(* The entries a step of orders and refunds adds are no application's.     *)
Foreign(e) == ~(e.type = "recharge" /\ e.related \in Recharges)

LEMMA OrdersPostElsewhere ==
  ASSUME Next
  PROVE  entries' = entries \/ \E e : Foreign(e) /\ entries' = entries \cup {e}
<1>1. ASSUME NEW s \in Sessions, Start(s) \/ Fail(s)  PROVE entries' = entries
  BY <1>1 DEF Start, FindByCustomerOrderID, FindOrder, TransitionRefused,
     ApplyCheck, ReviewCheck, Fail, data, vars
<1>2. ASSUME NEW c, NEW a, NEW typ, NEW rel, Post(c, a, typ, rel),
             typ # "recharge" \/ rel \notin Recharges
      PROVE  \E e : Foreign(e) /\ entries' = entries \cup {e}
  <2> DEFINE e == [customer |-> c, nr |-> wallet[c].version + 1, amount |-> a,
                   after |-> wallet[c].balance + a, type |-> typ, related |-> rel]
  <2>1. Foreign(e)
    BY <1>2 DEF Foreign
  <2>2. entries' = entries \cup {e}
    BY <1>2 DEF Post
  <2> QED
    BY <2>1, <2>2
<1>3. ASSUME NEW s \in Sessions, NEW o \in Orders, CreateOrder(s, o)
      PROVE  entries' = entries \/ \E e : Foreign(e) /\ entries' = entries \cup {e}
  BY <1>2, <1>3 DEF CreateOrder
<1>4. ASSUME NEW s \in Sessions, ProcessRefund(s)
      PROVE  entries' = entries \/ \E e : Foreign(e) /\ entries' = entries \cup {e}
  <2>1. CASE entries' = entries
    BY <2>1
  <2>2. ASSUME NEW a, Post(seenOrder[s].customer, a, "order_refund", job[s].order)
        PROVE  \E e : Foreign(e) /\ entries' = entries \cup {e}
    BY <1>2, <2>2
  <2> QED
    BY <1>4, <2>1, <2>2 DEF ProcessRefund
<1>5. ASSUME NEW s \in Sessions, Approve(s)
      PROVE  entries' = entries \/ \E e : Foreign(e) /\ entries' = entries \cup {e}
  BY <1>2, <1>5 DEF Approve
<1>6. ASSUME NEW c \in Customers, Recharge(c)
      PROVE  entries' = entries \/ \E e : Foreign(e) /\ entries' = entries \cup {e}
  BY <1>2, <1>6, NoneAssumption DEF Recharge
<1>7. ASSUME NEW s \in Sessions, Continue(s)
      PROVE  entries' = entries \/ \E e : Foreign(e) /\ entries' = entries \cup {e}
  BY <1>3, <1>4, <1>5, <1>7 DEF Continue, DebitRead, UpdateStatusCAS,
     CreateStatusChange, CreditRead, CreateRefund, FindApplied, ApproveRead,
     RejectRead, Reject, data
<1> QED
  BY <1>1, <1>6, <1>7 DEF Next, Serve

(* Entries that are no application's do not matter to one.                 *)
LEMMA RowsUntouched ==
  ASSUME UNCHANGED recharges,
         entries' = entries \/ \E e : Foreign(e) /\ entries' = entries \cup {e},
         NEW r \in Recharges, PaidIfCompleted(r)
  PROVE  PaidIfCompleted(r)'
<1>1. RechargeEntries(r)' = RechargeEntries(r) /\ entries \subseteq entries'
  BY DEF RechargeEntries, Foreign
<1> QED
  BY <1>1 DEF PaidIfCompleted, IsCompleted, Paid

-----------------------------------------------------------------------------
(* Handlers that do not take part in a step: their row keeps its user, its *)
(* amount and, if they hold it, its status.                                *)
LEMMA OtherHandlerKept ==
  ASSUME NEW h \in Reviewers, HandlerInv(h),
         at'[h] = at[h], call'[h] = call[h], seenRow'[h] = seenRow[h],
         \A r \in Recharges : recharges[r] \in Application =>
           /\ recharges'[r] \in Application
           /\ recharges'[r].user = recharges[r].user
           /\ recharges'[r].amount = recharges[r].amount,
         at[h] = "credit" => recharges'[call[h].id] = recharges[call[h].id],
         \A g \in Reviewers : at'[g] = "credit" /\ g # h =>
           \/ at[g] = "credit" /\ call'[g] = call[g]
           \/ at[h] = "credit" => call'[g].id # call[h].id
  PROVE  HandlerInv(h)'
  BY DEF HandlerInv, KnowsRow, Holds

(* A handler whose call is over.                                           *)
LEMMA LeaveKept ==
  ASSUME Rows, NEW h \in Reviewers, Leave(h)
  PROVE  /\ at' \in [Reviewers -> Stations]
         /\ call' \in [Reviewers -> Served]
         /\ seenRow' \in [Reviewers -> Application \cup {None}]
         /\ at'[h] = "idle"
         /\ HandlerInv(h)'
         /\ \A g \in Reviewers \ {h} :
              at'[g] = at[g] /\ call'[g] = call[g] /\ seenRow'[g] = seenRow[g]
  BY RechargeAssumption DEF Rows, Leave, At, Stations, Served, NoCall, HandlerInv

(* When a handler leaves and the rows stay, so does the invariant.         *)
LEMMA QuietLeave ==
  ASSUME CreditInv, NEW h \in Reviewers, Leave(h), UNCHANGED <<recharges, entries>>
  PROVE  CreditInv'
<1>1. Rows'
  BY LeaveKept DEF CreditInv, Rows
<1>2. \A g \in Reviewers : HandlerInv(g)'
  BY LeaveKept, OtherHandlerKept DEF CreditInv
<1>3. \A r \in Recharges : PaidIfCompleted(r)'
  BY RowsUntouched DEF CreditInv
<1> QED
  BY <1>1, <1>2, <1>3 DEF CreditInv

-----------------------------------------------------------------------------
LEMMA ApplyKept ==
  ASSUME CreditInv, NEW h \in Reviewers, NEW c \in Customers, NEW k \in RechargeKeys,
         NEW a \in Amounts, Apply(h, c, k, a)
  PROVE  CreditInv'
<1> DEFINE made == [id |-> None, user |-> c, amount |-> a, key |-> k]
<1>1. /\ at' = [at EXCEPT ![h] = "insert"]
      /\ call' = [call EXCEPT ![h] = made]
      /\ UNCHANGED <<recharges, entries, seenRow>>
  BY DEF Apply, At, vars, data
<1>2. made \in Served /\ made.user \in Customers /\ made.amount \in Nat \ {0}
  <2>1. a \in Int /\ a > 0
    BY RechargeAssumption DEF Apply
  <2> QED
    BY <2>1 DEF Served
<1> HIDE DEF made
<1>3. Rows'
  BY <1>1, <1>2 DEF CreditInv, Rows, Stations
<1>4. ASSUME NEW g \in Reviewers  PROVE HandlerInv(g)'
  <2>1. CASE g = h
    BY <1>1, <1>2, <2>1 DEF CreditInv, Rows, HandlerInv
  <2>2. CASE g # h
    BY <1>1, <2>2, OtherHandlerKept DEF CreditInv, Rows
  <2> QED
    BY <2>1, <2>2
<1>5. \A r \in Recharges : PaidIfCompleted(r)'
  BY <1>1, RowsUntouched DEF CreditInv
<1> QED
  BY <1>3, <1>4, <1>5 DEF CreditInv

LEMMA InsertKeeps ==
  ASSUME CreditInv, NEW h \in Reviewers, NEW r \in Recharges, Insert(h, r)
  PROVE  CreditInv'
<1>1. CASE KeyUsed(call[h].key)
  BY <1>1, QuietLeave DEF Insert, vars, data
<1>2. CASE ~KeyUsed(call[h].key)
  <2> DEFINE row == [user |-> call[h].user, amount |-> call[h].amount,
                     key |-> call[h].key, status |-> "Pending", version |-> 0]
  <2>1. row \in Application /\ row.status = "Pending"
    <3>1. call[h] \in Served /\ call[h].user \in Customers /\ call[h].amount \in Nat \ {0}
      BY DEF Insert, CreditInv, Rows, HandlerInv
    <3> QED
      BY <3>1 DEF Application, Served
  <2>2. /\ recharges' = [recharges EXCEPT ![r] = row]
        /\ Leave(h)
        /\ entries' = entries
        /\ recharges[r] = None
    BY <1>2 DEF Insert, vars, data
  <2> HIDE DEF row
  <2>3. Rows'
    BY <2>1, <2>2, LeaveKept DEF CreditInv, Rows
  <2>4. \A q \in Recharges : recharges[q] \in Application => recharges'[q] = recharges[q]
    BY <2>2, NoApplicationAssumption DEF CreditInv, Rows
  <2>5. ASSUME NEW g \in Reviewers  PROVE HandlerInv(g)'
    <3>1. CASE g = h
      BY <2>2, <3>1, LeaveKept DEF CreditInv
    <3>2. CASE g # h
      <4>1. at[g] = "credit" => recharges[call[g].id] \in Application /\ call[g].id \in Recharges
        BY DEF CreditInv, HandlerInv, KnowsRow
      <4> QED
        BY <2>2, <2>4, <3>2, <4>1, LeaveKept, OtherHandlerKept DEF CreditInv
    <3> QED
      BY <3>1, <3>2
  <2>6. ASSUME NEW q \in Recharges  PROVE PaidIfCompleted(q)'
    BY <2>1, <2>2 DEF CreditInv, Rows, PaidIfCompleted, IsCompleted, Paid, RechargeEntries
  <2> QED
    BY <2>3, <2>5, <2>6 DEF CreditInv
<1> QED
  BY <1>1, <1>2

LEMMA GetPendingKept ==
  ASSUME CreditInv, NEW h \in Reviewers, NEW r \in Recharges,
         NEW verdict \in {"approve", "reject"}, GetPending(h, r, verdict)
  PROVE  CreditInv'
<1>1. /\ at' = [at EXCEPT ![h] = verdict]
      /\ call' = [call EXCEPT ![h].id = r]
      /\ seenRow' = [seenRow EXCEPT ![h] = recharges[r]]
      /\ recharges[r] \in Application
      /\ UNCHANGED <<recharges, entries>>
  BY DEF GetPending, At, vars, data, CreditInv, Rows
<1>2. call' \in [Reviewers -> Served] /\ call'[h].id = r
  <2>1. call[h] \in Served
    BY DEF CreditInv, Rows
  <2>2. [call[h] EXCEPT !.id = r] \in Served /\ [call[h] EXCEPT !.id = r].id = r
    BY <2>1 DEF Served
  <2> QED
    BY <1>1, <2>2 DEF CreditInv, Rows
<1>3. Rows'
  BY <1>1, <1>2 DEF CreditInv, Rows, Stations
<1>4. ASSUME NEW g \in Reviewers  PROVE HandlerInv(g)'
  <2>1. CASE g = h
    BY <1>1, <1>2, <2>1 DEF CreditInv, Rows, HandlerInv, KnowsRow
  <2>2. CASE g # h
    BY <1>1, <2>2, OtherHandlerKept DEF CreditInv, Rows
  <2> QED
    BY <2>1, <2>2
<1>5. \A q \in Recharges : PaidIfCompleted(q)'
  BY <1>1, RowsUntouched DEF CreditInv
<1> QED
  BY <1>3, <1>4, <1>5 DEF CreditInv

LEMMA ApprovingKept ==
  ASSUME CreditInv, NEW h \in Reviewers, Approving(h)
  PROVE  CreditInv'
<1>1. CASE ~Unreviewed(h)
  BY <1>1, QuietLeave DEF Approving, vars, data
<1>2. CASE Unreviewed(h)
  <2>1. /\ at[h] = "approve"
        /\ RowFree(call[h].id)
        /\ at' = [at EXCEPT ![h] = "credit"]
        /\ UNCHANGED <<call, seenRow, recharges, entries>>
    BY <1>2 DEF Approving, At, vars, data
  <2>2. Rows'
    BY <2>1 DEF CreditInv, Rows, Stations
  <2>3. ASSUME NEW g \in Reviewers  PROVE HandlerInv(g)'
    <3>1. CASE g = h
      BY <1>2, <2>1, <3>1 DEF CreditInv, Rows, HandlerInv, KnowsRow, Holds, RowFree, Unreviewed
    <3>2. CASE g # h
      BY <2>1, <3>2 DEF CreditInv, Rows, HandlerInv, KnowsRow, Holds, RowFree
    <3> QED
      BY <3>1, <3>2
  <2>4. \A r \in Recharges : PaidIfCompleted(r)'
    BY <2>1, RowsUntouched DEF CreditInv
  <2> QED
    BY <2>2, <2>3, <2>4 DEF CreditInv
<1> QED
  BY <1>1, <1>2

(* The row a review leaves behind.                                         *)
LEMMA ReviewedApplication ==
  ASSUME NEW x \in Application, NEW status \in {"Completed", "Rejected"}
  PROVE  LET y == [x EXCEPT !.status = status, !.version = @ + 1]
         IN /\ y \in Application
            /\ y.status = status
            /\ y.user = x.user
            /\ y.amount = x.amount
<1>1. x.version + 1 \in Nat
  BY DEF Application
<1>2. ASSUME NEW v \in Nat
      PROVE  LET y == [x EXCEPT !.status = status, !.version = v]
             IN y \in Application /\ y.status = status
  BY DEF Application
<1>3. ASSUME NEW v \in Nat
      PROVE  LET y == [x EXCEPT !.status = status, !.version = v]
             IN y.user = x.user /\ y.amount = x.amount
  BY DEF Application
<1> QED
  BY <1>1, <1>2, <1>3

LEMMA ReviewedRow ==
  ASSUME Rows, NEW h \in Reviewers, KnowsRow(h),
         NEW status \in {"Completed", "Rejected"}, Reviewed(h, status)
  PROVE  /\ recharges' \in [Recharges -> Application \cup {None}]
         /\ recharges'[call[h].id] \in Application
         /\ recharges'[call[h].id].status = status
         /\ recharges'[call[h].id].user = recharges[call[h].id].user
         /\ recharges'[call[h].id].amount = recharges[call[h].id].amount
         /\ \A r \in Recharges \ {call[h].id} : recharges'[r] = recharges[r]
<1> DEFINE r == call[h].id
           row == [recharges[r] EXCEPT !.status = status, !.version = @ + 1]
<1>1. recharges' = [recharges EXCEPT ![r] = row]
  BY DEF Reviewed, Rows, KnowsRow
<1>2. /\ row \in Application
      /\ row.status = status
      /\ row.user = recharges[r].user
      /\ row.amount = recharges[r].amount
  <2>1. PICK x \in Application : x = recharges[r]
    BY DEF KnowsRow
  <2> DEFINE y == [x EXCEPT !.status = status, !.version = @ + 1]
  <2>2. y \in Application /\ y.status = status /\ y.user = x.user /\ y.amount = x.amount
    BY ReviewedApplication
  <2> QED
    BY <2>1, <2>2
<1> QED
  BY <1>1, <1>2 DEF Rows, KnowsRow

LEMMA CreditRechargeKept ==
  ASSUME CreditInv, NEW h \in Reviewers, CreditRecharge(h)
  PROVE  CreditInv'
<1>1. CASE ~WalletUnmoved(h)
  BY <1>1, QuietLeave DEF CreditRecharge
<1>2. CASE WalletUnmoved(h)
  <2> DEFINE r == call[h].id
             e == [customer |-> seenRow[h].user, nr |-> wallet[seenRow[h].user].version + 1,
                   amount |-> seenRow[h].amount,
                   after |-> wallet[seenRow[h].user].balance + seenRow[h].amount,
                   type |-> "recharge", related |-> r]
  <2>1. at[h] = "credit" /\ Reviewed(h, "Completed") /\ Leave(h)
    BY <1>2 DEF CreditRecharge
  <2>2. entries' = entries \cup {e}
    BY <1>2 DEF CreditRecharge, Post
  <2>3. Rows /\ KnowsRow(h) /\ Holds(h) /\ r \in Recharges
    BY <2>1 DEF CreditInv, HandlerInv, KnowsRow
  <2>4. /\ e.type = "recharge" /\ e.related = r
        /\ e.amount = recharges[r].amount /\ e.customer = recharges[r].user
    BY <2>3 DEF KnowsRow
  <2> HIDE DEF e
  <2>5. Rows'
    BY <2>1, <2>3, ReviewedRow, LeaveKept DEF Rows
  <2>6. ASSUME NEW g \in Reviewers  PROVE HandlerInv(g)'
    <3>1. CASE g = h
      BY <2>1, <2>3, <3>1, LeaveKept
    <3>2. CASE g # h
      <4>1. at[g] = "credit" => call[g].id # r /\ call[g].id \in Recharges
        BY <2>1, <2>3, <3>2 DEF Holds, CreditInv, HandlerInv, KnowsRow
      <4> QED
        BY <2>1, <2>3, <3>2, <4>1, ReviewedRow, LeaveKept, OtherHandlerKept DEF CreditInv
    <3> QED
      BY <3>1, <3>2
  <2>7. ASSUME NEW q \in Recharges  PROVE PaidIfCompleted(q)'
    <3>1. CASE q = r
      <4>1. RechargeEntries(q) = {}
        BY <2>3, <3>1 DEF CreditInv, PaidIfCompleted, IsCompleted, Holds
      <4>2. RechargeEntries(q)' = {e}
        BY <2>2, <2>4, <3>1, <4>1 DEF RechargeEntries
      <4>3. /\ recharges'[q].amount = recharges[q].amount
            /\ recharges'[q].user = recharges[q].user
            /\ recharges'[q].status = "Completed"
            /\ recharges'[q] \in Application
        BY <2>1, <2>3, <3>1, ReviewedRow
      <4>4. IsCompleted(q)'
        BY <4>3, NoApplicationAssumption DEF IsCompleted
      <4> QED
        BY <2>2, <2>4, <3>1, <4>2, <4>3, <4>4 DEF PaidIfCompleted, Paid
    <3>2. CASE q # r
      <4>1. recharges'[q] = recharges[q]
        BY <2>1, <2>3, <3>2, ReviewedRow
      <4>2. RechargeEntries(q)' = RechargeEntries(q)
        BY <2>2, <2>4, <3>2 DEF RechargeEntries
      <4> QED
        BY <2>2, <4>1, <4>2 DEF CreditInv, PaidIfCompleted, IsCompleted, Paid
    <3> QED
      BY <3>1, <3>2
  <2> QED
    BY <2>5, <2>6, <2>7 DEF CreditInv
<1> QED
  BY <1>1, <1>2

LEMMA RejectRechargeKept ==
  ASSUME CreditInv, NEW h \in Reviewers, RejectRecharge(h)
  PROVE  CreditInv'
<1>1. CASE ~Unreviewed(h)
  BY <1>1, QuietLeave DEF RejectRecharge, vars, data
<1>2. CASE Unreviewed(h)
  <2> DEFINE r == call[h].id
  <2>1. /\ at[h] = "reject" /\ RowFree(r) /\ Reviewed(h, "Rejected") /\ Leave(h)
        /\ entries' = entries
    BY <1>2 DEF RejectRecharge, vars, data
  <2>2. Rows /\ KnowsRow(h) /\ r \in Recharges /\ recharges[r].status = "Pending"
    BY <1>2, <2>1 DEF CreditInv, HandlerInv, KnowsRow, Unreviewed
  <2>3. Rows'
    BY <2>1, <2>2, ReviewedRow, LeaveKept DEF Rows
  <2>4. ASSUME NEW g \in Reviewers  PROVE HandlerInv(g)'
    <3>1. CASE g = h
      BY <2>1, <2>2, <3>1, LeaveKept
    <3>2. CASE g # h
      <4>1. at[g] = "credit" => call[g].id # r /\ call[g].id \in Recharges
        BY <2>1, <2>2, <3>2 DEF RowFree, CreditInv, HandlerInv, KnowsRow
      <4> QED
        BY <2>1, <2>2, <3>2, <4>1, ReviewedRow, LeaveKept, OtherHandlerKept DEF CreditInv
    <3> QED
      BY <3>1, <3>2
  <2>5. ASSUME NEW q \in Recharges  PROVE PaidIfCompleted(q)'
    <3>1. RechargeEntries(q)' = RechargeEntries(q)
      BY <2>1 DEF RechargeEntries
    <3>2. CASE q = r
      BY <2>1, <2>2, <3>1, <3>2, ReviewedRow DEF CreditInv, PaidIfCompleted, IsCompleted
    <3>3. CASE q # r
      <4>1. recharges'[q] = recharges[q]
        BY <2>1, <2>2, <3>3, ReviewedRow
      <4> QED
        BY <2>1, <3>1, <4>1 DEF CreditInv, PaidIfCompleted, IsCompleted, Paid
    <3> QED
      BY <3>2, <3>3
  <2> QED
    BY <2>3, <2>4, <2>5 DEF CreditInv
<1> QED
  BY <1>1, <1>2

-----------------------------------------------------------------------------
(* CreditInv is inductive: a credit is committed only for a row that the        *)
(* approval holds and that is still pending.                               *)
THEOREM RechargeInvariant == RSpec => []CreditInv
<1>1. CreditInv /\ [RNext]_allVars => CreditInv'
  <2> SUFFICES ASSUME CreditInv, [RNext]_allVars  PROVE CreditInv'
    OBVIOUS
  <2>1. ASSUME UNCHANGED <<recharges, at, call, seenRow>>,
               entries' = entries \/ \E e : Foreign(e) /\ entries' = entries \cup {e}
        PROVE  CreditInv'
    <3>1. \A r \in Recharges : PaidIfCompleted(r)'
      BY <2>1, RowsUntouched DEF CreditInv
    <3>2. Rows' /\ \A h \in Reviewers : HandlerInv(h)'
      BY <2>1 DEF CreditInv, Rows, HandlerInv, KnowsRow, Holds
    <3> QED
      BY <3>1, <3>2 DEF CreditInv
  <2>2. CASE UNCHANGED allVars
    BY <2>1, <2>2 DEF allVars, review, vars, data
  <2>3. CASE Next /\ UNCHANGED <<recharges, review>>
    BY <2>1, <2>3, OrdersPostElsewhere DEF review
  <2>4. ASSUME NEW h \in Reviewers, Review(h)  PROVE CreditInv'
    <3>1. CASE FailReview(h)
      BY <3>1, QuietLeave DEF FailReview, vars, data
    <3> QED
      BY <2>4, <3>1, ApplyKept, InsertKeeps, GetPendingKept, ApprovingKept,
         CreditRechargeKept, RejectRechargeKept DEF Review
  <2> QED
    BY <2>2, <2>3, <2>4 DEF RNext
<1> QED
  BY <1>1, InitCredits, PTL DEF RSpec

(* Approve, Reject and the payments of orders: a completed application has *)
(* been credited exactly once, with its amount and to its user, and no     *)
(* other application has.                                                  *)
THEOREM CreditedExactlyOnce == RSpec => []RechargedOnce
<1>1. CreditInv => RechargedOnce
  BY DEF CreditInv, PaidIfCompleted, IsCompleted, Paid, RechargedOnce
<1> QED
  BY <1>1, RechargeInvariant, PTL

-----------------------------------------------------------------------------
(* To the orders a review of an application is money that comes in, if     *)
(* anything, so what holds of them alone holds beside the reviews.         *)
LEMMA ReviewPaysIn ==
  ASSUME CreditInv, NEW h \in Reviewers, Review(h)
  PROVE  UNCHANGED vars \/ PaysIn
<1>1. CASE CreditRecharge(h) /\ WalletUnmoved(h)
  <2>1. /\ Post(seenRow[h].user, seenRow[h].amount, "recharge", call[h].id)
        /\ UNCHANGED <<orders, refunds, audit, local>>
        /\ at[h] = "credit"
    BY <1>1 DEF CreditRecharge
  <2>2. /\ seenRow[h].user \in Customers /\ seenRow[h].amount \in Nat
        /\ call[h].id \in Recharges
    BY <2>1 DEF CreditInv, HandlerInv, KnowsRow, Rows, Application
  <2> QED
    BY <2>1, <2>2 DEF PaysIn
<1>2. CASE CreditRecharge(h) /\ ~WalletUnmoved(h)
  BY <1>2 DEF CreditRecharge, vars, data
<1>3. CASE ~CreditRecharge(h)
  BY <1>3 DEF Review, Apply, Insert, GetPending, Approving, RejectRecharge, FailReview
<1> QED
  BY <1>1, <1>2, <1>3

LEMMA ComposedStep == CreditInv /\ [RNext]_allVars => [Next]_vars \/ PaysIn
  BY ReviewPaysIn DEF RNext, allVars

LEMMA ComposedInvariant == RSpec => []IInv
<1>1. CreditInv /\ IInv /\ [RNext]_allVars => IInv'
  BY ComposedStep, NextInv, PaysInKept
<1>2. RInit => IInv
  BY InitInv DEF RInit
<1> QED
  BY <1>1, <1>2, RechargeInvariant, PTL DEF RSpec

(* Orders paid from wallets that recharges move meanwhile: still one debit *)
(* of the order's amount for every order, and no wallet overdrawn.         *)
THEOREM PaidOnceBesideRecharges == RSpec => []PaidOnce
  BY PaidByInvariant, ComposedInvariant, PTL

-----------------------------------------------------------------------------
(* The entries of a wallet are numbered by its versions: each number up to *)
(* the version of now is there once, none beyond.                          *)
Numbered(c) ==
  /\ \A e \in entries : e.customer = c => e.nr \in 1..wallet[c].version
  /\ \A i \in 1..wallet[c].version : \E e \in entries : e.customer = c /\ e.nr = i
  /\ \A e, f \in entries :
       (e.customer = c /\ f.customer = c /\ e.nr = f.nr) => e = f

JInv == IInv /\ \A c \in Customers : Numbered(c)

(* All that ever happens to the wallets and the entries.                   *)
Posts(c, a) ==
  /\ wallet[c].balance + a >= 0
  /\ \E typ \in {"recharge", "order_pay", "order_refund", "refund"},
        rel \in Orders \cup Refunds \cup Recharges \cup {None} : Post(c, a, typ, rel)

WalletsMoveAsPosted ==
  UNCHANGED <<wallet, entries>> \/ \E c \in Customers, a \in Int : Posts(c, a)

LEMMA CoveredStep ==
  ASSUME IInv, NEW s \in Sessions, NEW o \in Orders, CreateOrder(s, o)
  PROVE  WalletsMoveAsPosted
<1> DEFINE c == job[s].customer
           a == job[s].amount
<1>1. /\ c \in Customers /\ a \in Nat /\ wallet[c] \in Wallet
      /\ Remembers(s, c) /\ a <= seenWallet[s].balance
  BY Unmoved DEF CreateOrder, SessionInv, IInv, TypeOK
<1>2. CASE SameWallet(s, c)
  <2>1. Post(c, -a, "order_pay", o)
    BY <1>2 DEF CreateOrder
  <2>2. wallet[c].balance + -a >= 0 /\ -a \in Int
    BY <1>1, <1>2 DEF SameWallet, Remembers, Wallet
  <2> HIDE DEF c, a
  <2> QED
    BY <1>1, <2>1, <2>2 DEF WalletsMoveAsPosted, Posts
<1>3. CASE ~SameWallet(s, c)
  BY <1>3 DEF CreateOrder, WalletsMoveAsPosted
<1> QED
  BY <1>2, <1>3

(* A posting of something that is not negative always covers itself.       *)
LEMMA GivingStep ==
  ASSUME IInv, NEW c \in Customers, NEW a \in Nat,
         NEW typ \in {"recharge", "order_refund", "refund"},
         NEW rel \in Orders \cup Refunds \cup Recharges \cup {None}, Post(c, a, typ, rel)
  PROVE  WalletsMoveAsPosted
<1>1. wallet[c].balance + a >= 0
  BY DEF IInv, TypeOK, Wallet
<1> QED
  BY <1>1 DEF WalletsMoveAsPosted, Posts

LEMMA RefundingStep ==
  ASSUME IInv, NEW s \in Sessions, ProcessRefund(s) \/ Approve(s)
  PROVE  WalletsMoveAsPosted
<1>1. UNCHANGED <<wallet, entries>> => WalletsMoveAsPosted
  BY DEF WalletsMoveAsPosted
<1>2. CASE ProcessRefund(s)
  <2> DEFINE ord == seenOrder[s]
             a == IF ord.refunded > 0 THEN ord.refunded ELSE ord.amount
  <2>1. ord \in Order /\ OrderThere(job[s].order)
    BY <1>2, Unmoved DEF ProcessRefund, SessionInv
  <2>2. a \in Nat /\ ord.customer \in Customers /\ job[s].order \in Orders
    BY <2>1 DEF Order, OrderThere
  <2>3. Post(ord.customer, a, "order_refund", job[s].order) \/ UNCHANGED <<wallet, entries>>
    BY <1>2 DEF ProcessRefund
  <2> HIDE DEF ord, a
  <2> QED
    BY <1>1, <2>2, <2>3, GivingStep
<1>3. CASE Approve(s)
  <2> DEFINE rf == refunds[job[s].refund]
  <2>1. rf \in Refund /\ job[s].refund \in Refunds
    BY <1>3, Unmoved DEF Approve, SessionInv, RefundThere
  <2>2. rf.customer \in Customers /\ rf.amount \in Nat
    BY <2>1 DEF Refund
  <2>3. Post(rf.customer, rf.amount, "refund", job[s].refund) \/ UNCHANGED <<wallet, entries>>
    BY <1>3 DEF Approve
  <2> HIDE DEF rf
  <2> QED
    BY <1>1, <2>1, <2>2, <2>3, GivingStep
<1> QED
  BY <1>2, <1>3

LEMMA StepPosts ==
  ASSUME IInv, [Next]_vars \/ PaysIn
  PROVE  WalletsMoveAsPosted
<1>1. UNCHANGED <<wallet, entries>> => WalletsMoveAsPosted
  BY DEF WalletsMoveAsPosted
<1>2. CASE PaysIn
  BY <1>2, GivingStep DEF PaysIn
<1>3. ASSUME NEW s \in Sessions, Start(s) \/ Fail(s)
      PROVE  UNCHANGED <<wallet, entries>>
  BY <1>3 DEF Start, FindByCustomerOrderID, FindOrder, TransitionRefused,
     ApplyCheck, ReviewCheck, Fail, data, vars
<1>4. ASSUME NEW s \in Sessions, Continue(s)
      PROVE  WalletsMoveAsPosted
  <2>1. CASE \/ DebitRead(s) \/ UpdateStatusCAS(s) \/ CreateStatusChange(s) \/ CreditRead(s)
             \/ FindApplied(s) \/ ApproveRead(s) \/ RejectRead(s) \/ Reject(s)
             \/ \E r \in Refunds : CreateRefund(s, r)
    BY <1>1, <2>1 DEF DebitRead, UpdateStatusCAS, CreateStatusChange, CreditRead,
       CreateRefund, FindApplied, ApproveRead, RejectRead, Reject, data
  <2> QED
    BY <1>4, <2>1, CoveredStep, RefundingStep DEF Continue
<1>5. ASSUME NEW c \in Customers, Recharge(c)
      PROVE  WalletsMoveAsPosted
  BY <1>2, <1>5, RechargePaysIn
<1>6. CASE UNCHANGED vars
  BY <1>1, <1>6 DEF vars, data
<1> QED
  BY <1>1, <1>2, <1>3, <1>4, <1>5, <1>6 DEF Next, Serve

(* One posting: the wallet, and the one entry that is new.                 *)
LEMMA PostingEffect ==
  ASSUME IInv, NEW c \in Customers, NEW a \in Int, Posts(c, a)
  PROVE  /\ wallet[c].version \in Nat /\ wallet[c].balance \in Int
         /\ wallet'[c].version = wallet[c].version + 1
         /\ wallet'[c].balance = wallet[c].balance + a
         /\ \A d \in Customers \ {c} : wallet'[d] = wallet[d]
         /\ \E e : /\ entries' = entries \cup {e}
                   /\ e.customer = c /\ e.nr = wallet[c].version + 1
                   /\ e.amount = a /\ e.after = wallet[c].balance + a
<1>1. wallet \in [Customers -> Wallet]
  BY DEF IInv, TypeOK
<1>2. wallet[c].version \in Nat /\ wallet[c].balance \in Int
  BY <1>1 DEF Wallet
<1>3. PICK typ, rel : Post(c, a, typ, rel)
  BY DEF Posts
<1> DEFINE w == [balance |-> wallet[c].balance + a, version |-> wallet[c].version + 1]
           e == [customer |-> c, nr |-> wallet[c].version + 1, amount |-> a,
                 after |-> wallet[c].balance + a, type |-> typ, related |-> rel]
<1>4. wallet' = [wallet EXCEPT ![c] = w] /\ entries' = entries \cup {e}
  BY <1>1, <1>3 DEF Post
<1>5. /\ e.customer = c /\ e.nr = wallet[c].version + 1
      /\ e.amount = a /\ e.after = wallet[c].balance + a
      /\ w.version = wallet[c].version + 1 /\ w.balance = wallet[c].balance + a
  OBVIOUS
<1> HIDE DEF w, e
<1> QED
  BY <1>1, <1>2, <1>4, <1>5

LEMMA NumberedPosting ==
  ASSUME JInv, NEW c \in Customers, NEW a \in Int, Posts(c, a), NEW d \in Customers
  PROVE  Numbered(d)'
<1>1. Numbered(d) /\ IInv
  BY DEF JInv
<1>2. PICK e : /\ entries' = entries \cup {e}
               /\ e.customer = c /\ e.nr = wallet[c].version + 1
  BY <1>1, PostingEffect
<1>3. CASE d = c
  <2> DEFINE n == wallet[c].version
  <2>1. n \in Nat /\ wallet'[c].version = n + 1
    BY <1>1, PostingEffect
  <2>2. 1..(n + 1) = (1..n) \cup {n + 1} /\ n + 1 \notin 1..n
    BY <2>1
  <2>3. /\ \A f \in entries : f.customer = c => f.nr \in 1..n
        /\ \A i \in 1..n : \E f \in entries : f.customer = c /\ f.nr = i
        /\ \A f, g \in entries : (f.customer = c /\ g.customer = c /\ f.nr = g.nr) => f = g
    BY <1>1, <1>3 DEF Numbered
  <2> HIDE DEF n
  <2> USE <1>2, <2>1, <2>2, <2>3 DEF n
  <2>4. \A f \in entries' : f.customer = c => f.nr \in 1..(n + 1)
    OBVIOUS
  <2>5. \A i \in 1..(n + 1) : \E f \in entries' : f.customer = c /\ f.nr = i
    OBVIOUS
  <2>6. \A f, g \in entries' : (f.customer = c /\ g.customer = c /\ f.nr = g.nr) => f = g
    OBVIOUS
  <2> QED
    BY <1>3, <2>1, <2>4, <2>5, <2>6 DEF Numbered
<1>4. CASE d # c
  BY <1>1, <1>2, <1>4, PostingEffect DEF Numbered
<1> QED
  BY <1>3, <1>4

(* JInv is inductive.                                                      *)
LEMMA JournalInvariant == RSpec => []JInv
<1>1. RInit => JInv
  <2>1. Init => \A c \in Customers : Numbered(c)
    BY DEF Init, Numbered
  <2> QED
    BY <2>1, InitInv DEF RInit, JInv
<1>2. CreditInv /\ JInv /\ [RNext]_allVars => JInv'
  <2> SUFFICES ASSUME CreditInv, JInv, [RNext]_allVars  PROVE JInv'
    OBVIOUS
  <2>1. IInv /\ ([Next]_vars \/ PaysIn)
    BY ComposedStep DEF JInv
  <2>2. IInv'
    BY <2>1, NextInv, PaysInKept
  <2>3. CASE UNCHANGED <<wallet, entries>>
    BY <2>2, <2>3 DEF JInv, Numbered
  <2>4. ASSUME NEW c \in Customers, NEW a \in Int, Posts(c, a)  PROVE JInv'
    BY <2>2, <2>4, NumberedPosting DEF JInv
  <2> QED
    BY <2>1, <2>3, <2>4, StepPosts DEF WalletsMoveAsPosted
<1> QED
  BY <1>1, <1>2, RechargeInvariant, PTL DEF RSpec

-----------------------------------------------------------------------------
(* The refinement of Account.                                              *)
LEMMA OpeningMaps == Init => Abstract!InUse
<1> SUFFICES ASSUME Init  PROVE Abstract!InUse
  OBVIOUS
<1>1. Balances \in [Customers -> Nat]
  BY StartBalanceAssumption DEF Init, Balances
<1>2. Journal = [c \in Customers |-> <<>>]
  <2>1. ASSUME NEW c \in Customers  PROVE Journal[c] = <<>>
    BY DEF Init, Journal
  <2> QED
    BY <2>1 DEF Journal
<1> QED
  BY <1>1, <1>2 DEF Abstract!InUse

(* A line written stays as it is.                                          *)
LEMMA LinesStay ==
  ASSUME JInv, NEW c \in Customers, NEW i \in 1..wallet[c].version, NEW e,
         entries' = entries \cup {e}, ~(e.customer = c /\ e.nr = i)
  PROVE  Line(c, i)' = Line(c, i)
<1>1. PICK f \in entries : /\ f.customer = c /\ f.nr = i
                           /\ \A g \in entries : g.customer = c /\ g.nr = i => g = f
  BY DEF JInv, Numbered
<1>2. Line(c, i) = f
  BY <1>1 DEF Line
<1>3. Line(c, i)' = f
  BY <1>1 DEF Line
<1> QED
  BY <1>2, <1>3

JournalLine == [amount : Int, after : Int]

LEMMA LinesTyped ==
  ASSUME JInv, NEW c \in Customers, NEW i \in 1..wallet[c].version
  PROVE  Line(c, i).amount \in Int /\ Line(c, i).after \in Int
<1>1. PICK f \in entries : f.customer = c /\ f.nr = i
  BY DEF JInv, Numbered
<1>2. Line(c, i) \in entries
  BY <1>1 DEF Line
<1> QED
  BY <1>2 DEF JInv, IInv, TypeOK, Entry

LEMMA Appended ==
  ASSUME NEW n \in Nat, NEW S, NEW f \in [1..n -> S], NEW x \in S
  PROVE  Append(f, x) = [i \in 1..(n + 1) |-> IF i = n + 1 THEN x ELSE f[i]]
<1> DEFINE g == Append(f, x)
<1>1. f \in Seq(S) /\ Len(f) = n
  OBVIOUS
<1>2. g \in Seq(S) /\ Len(g) = n + 1
  BY <1>1
<1>3. g \in [1..(n + 1) -> S]
  <2>1. ASSUME NEW h \in Seq(S)  PROVE h \in [1..Len(h) -> S]
    OBVIOUS
  <2> HIDE DEF g
  <2> QED
    BY <1>2, <2>1
<1>4. \A i \in 1..(n + 1) : g[i] = IF i = n + 1 THEN x ELSE f[i]
  BY <1>1
<1> HIDE DEF g
<1>5. g = [i \in 1..(n + 1) |-> IF i = n + 1 THEN x ELSE f[i]]
  BY <1>3, <1>4
<1> QED
  BY <1>5 DEF g

LEMMA PostingMaps ==
  ASSUME JInv, NEW c \in Customers, NEW a \in Int, Posts(c, a)
  PROVE  Abstract!Post(c, a)
<1>1. IInv
  BY DEF JInv
<1>0. PICK n \in Nat, b \in Int : n = wallet[c].version /\ b = wallet[c].balance
  BY <1>1, PostingEffect
<1> DEFINE new == [amount |-> a, after |-> b + a]
<1>2. /\ wallet'[c].version = n + 1 /\ wallet'[c].balance = b + a
      /\ \A d \in Customers \ {c} : wallet'[d] = wallet[d]
  BY <1>0, <1>1, PostingEffect
<1>3. PICK e : /\ entries' = entries \cup {e}
               /\ e.customer = c /\ e.nr = n + 1 /\ e.amount = a /\ e.after = b + a
  BY <1>0, <1>1, PostingEffect
<1>4. b + a >= 0
  BY <1>0 DEF Posts
<1>5. Balances' = [Balances EXCEPT ![c] = b + a]
  BY <1>0, <1>2 DEF Balances
<1>6. ASSUME NEW d \in Customers, d # c  PROVE Journal'[d] = Journal[d]
  <2>1. \A i \in 1..wallet[d].version : Line(d, i)' = Line(d, i)
    BY <1>3, <1>6, LinesStay
  <2> QED
    BY <1>0, <1>2, <1>6, <2>1 DEF Journal
<1>7. Journal'[c] = Append(Journal[c], new)
  <2>1. \A i \in 1..n : Line(c, i)' = Line(c, i)
    BY <1>0, <1>2, <1>3, LinesStay
  <2>2. Line(c, n + 1)' = e
    <3>1. \A f \in entries : ~(f.customer = c /\ f.nr = n + 1)
      BY <1>0, <1>2 DEF JInv, Numbered
    <3>2. e \in entries' /\ \A f \in entries' : f.customer = c /\ f.nr = n + 1 <=> f = e
      BY <1>3, <3>1
    <3> QED
      BY <3>2 DEF Line
  <2> DEFINE old == [i \in 1..n |-> [amount |-> Line(c, i).amount, after |-> Line(c, i).after]]
  <2>3. Journal[c] = old
    BY <1>0 DEF Journal
  <2>4. Journal'[c] = [i \in 1..(n + 1) |-> IF i = n + 1 THEN new ELSE old[i]]
    <3>1. Journal'[c] = [i \in 1..(n + 1) |-> [amount |-> Line(c, i)'.amount,
                                               after |-> Line(c, i)'.after]]
      BY <1>0, <1>2 DEF Journal
    <3>2. ASSUME NEW i \in 1..(n + 1)
          PROVE  [amount |-> Line(c, i)'.amount, after |-> Line(c, i)'.after]
                   = IF i = n + 1 THEN new ELSE old[i]
      <4>1. CASE i = n + 1
        BY <1>3, <2>2, <4>1
      <4>2. CASE i # n + 1
        <5>1. i \in 1..n
          BY <1>0, <1>2, <4>2
        <5> QED
          BY <2>1, <4>2, <5>1
      <4> QED
        BY <4>1, <4>2
    <3> QED
      BY <3>1, <3>2
  <2>5. old \in [1..n -> JournalLine] /\ new \in JournalLine
    BY <1>0, <1>1, LinesTyped DEF JournalLine
  <2> HIDE DEF new, old
  <2>6. Append(old, new) = [i \in 1..(n + 1) |-> IF i = n + 1 THEN new ELSE old[i]]
    BY <2>5, Appended
  <2> QED
    BY <2>3, <2>4, <2>6
<1>8. Journal' = [Journal EXCEPT ![c] = Append(Journal[c], new)]
  BY <1>6, <1>7 DEF Journal
<1>9. Balances[c] = b
  BY <1>0 DEF Balances
<1> HIDE DEF new
<1> QED
  BY <1>4, <1>5, <1>8, <1>9 DEF Abstract!Post, new

(* Whatever the handlers of orders, refunds and recharges do together, a   *)
(* wallet moves as Account promises: each commit posts one amount with one *)
(* line, in sequence, carrying the balance it leaves, and none overdraws.  *)
THEOREM WalletsImplementAccount == RSpec => WalletsAreAccounts
<1>1. CreditInv /\ JInv /\ [RNext]_allVars => [Abstract!Next]_(Abstract!vars)
  <2> SUFFICES ASSUME CreditInv, JInv, [RNext]_allVars
               PROVE  [Abstract!Next]_(Abstract!vars)
    OBVIOUS
  <2>1. WalletsMoveAsPosted
    BY ComposedStep, StepPosts DEF JInv
  <2>2. CASE UNCHANGED <<wallet, entries>>
    BY <2>2 DEF Abstract!vars, Balances, Journal, Line
  <2>3. ASSUME NEW c \in Customers, NEW a \in Int, Posts(c, a)  PROVE Abstract!Next
    BY <2>3, PostingMaps DEF Abstract!Next
  <2> QED
    BY <2>1, <2>2, <2>3 DEF WalletsMoveAsPosted
<1>2. RInit => Abstract!InUse
  BY OpeningMaps DEF RInit
<1> QED
  BY <1>1, <1>2, RechargeInvariant, JournalInvariant, PTL
     DEF RSpec, WalletsAreAccounts, Abstract!SpecInUse

-----------------------------------------------------------------------------
(* The idempotency check.  A call with a key is open from its check to its  *)
(* commit; while it is the only one open the check stays true.              *)
Creating(s, k) == pc[s] \in {"pay", "commitOrder"} /\ job[s].key = k

OneAtATime ==
  \A k \in Keys, s, t \in Sessions : Creating(s, k) /\ Creating(t, k) => s = t

KeyInv ==
  /\ OneOrderPerKey
  /\ \A k \in Keys, s \in Sessions : Creating(s, k) => ~KeyTaken(k)

(* No order is created, and a call is open only if it was.                  *)
KeysStay ==
  \A o \in Orders : /\ orders'[o] = None <=> orders[o] = None
                    /\ orders'[o] # None => orders'[o].key = orders[o].key
OpenedBefore(s) == \A k \in Keys : Creating(s, k)' => Creating(s, k)

LEMMA TakenStays ==
  ASSUME KeysStay, NEW k
  PROVE  KeyTaken(k)' <=> KeyTaken(k)
  BY DEF KeysStay, KeyTaken

LEMMA QuietKeys ==
  ASSUME KeyInv, KeysStay, \A s \in Sessions : OpenedBefore(s)
  PROVE  KeyInv'
<1>1. OneOrderPerKey'
  BY DEF KeyInv, OneOrderPerKey, Created, KeysStay
<1>2. ASSUME NEW k \in Keys, NEW s \in Sessions, Creating(s, k)'  PROVE ~KeyTaken(k)'
  BY <1>2, TakenStays DEF KeyInv, OpenedBefore
<1> QED
  BY <1>1, <1>2 DEF KeyInv

LEMMA ReturnCloses ==
  ASSUME IInv, NEW s \in Sessions, Return(s)
  PROVE  /\ \A k \in Keys : ~Creating(s, k)'
         /\ \A t \in Sessions : OpenedBefore(t)
<1>1. pc'[s] = "idle"
  BY ReturnKept
<1>2. ASSUME NEW t \in Sessions \ {s}  PROVE pc'[t] = pc[t] /\ job'[t] = job[t]
  BY DEF Return, Goto, IInv, TypeOK
<1> QED
  BY <1>1, <1>2 DEF OpenedBefore, Creating

(* A session goes on, outside CreateOrder or with the call it has.          *)
LEMMA GoesOn ==
  ASSUME IInv, NEW s \in Sessions, NEW label, NEW j,
         Goto(s, label), job' = [job EXCEPT ![s] = j],
         \/ label \notin {"pay", "commitOrder"}
         \/ pc[s] = "pay" /\ j = job[s]
  PROVE  \A t \in Sessions : OpenedBefore(t)
<1>1. pc'[s] = label /\ job'[s] = j
  BY DEF Goto, IInv, TypeOK
<1>2. ASSUME NEW t \in Sessions \ {s}  PROVE pc'[t] = pc[t] /\ job'[t] = job[t]
  BY DEF Goto, IInv, TypeOK
<1> QED
  BY <1>1, <1>2 DEF OpenedBefore, Creating

LEMMA CheckedKey ==
  ASSUME IInv, KeyInv, NEW s \in Sessions, NEW c \in Customers,
         NEW k \in Keys \cup {None}, NEW p \in Prices, FindByCustomerOrderID(s, c, k, p)
  PROVE  KeyInv'
<1> DEFINE j == [Blank EXCEPT !.customer = c, !.key = k, !.amount = p]
<1>1. /\ UNCHANGED orders /\ ~KeyTaken(k)
      /\ Goto(s, "pay") /\ job' = [job EXCEPT ![s] = j]
  BY DEF FindByCustomerOrderID, data
<1>2. j.key = k
  BY DEF Blank
<1> HIDE DEF j
<1>3. job'[s] = j /\ \A t \in Sessions \ {s} : pc'[t] = pc[t] /\ job'[t] = job[t]
  BY <1>1 DEF Goto, IInv, TypeOK
<1>4. KeysStay
  BY <1>1 DEF KeysStay
<1>5. OneOrderPerKey'
  BY <1>1 DEF KeyInv, OneOrderPerKey, Created
<1>6. ASSUME NEW m \in Keys, NEW t \in Sessions, Creating(t, m)'  PROVE ~KeyTaken(m)'
  <2>1. CASE t = s
    BY <1>1, <1>2, <1>3, <1>4, <1>6, <2>1, TakenStays DEF Creating
  <2>2. CASE t # s
    <3>1. Creating(t, m)
      BY <1>3, <1>6, <2>2 DEF Creating
    <3> QED
      BY <1>4, <3>1, TakenStays DEF KeyInv
  <2> QED
    BY <2>1, <2>2
<1> QED
  BY <1>5, <1>6 DEF KeyInv

(* The commit: nobody else is about to take the key.                        *)
LEMMA CreatedKey ==
  ASSUME IInv, KeyInv, OneAtATime, NEW s \in Sessions, NEW o \in Orders, CreateOrder(s, o)
  PROVE  KeyInv'
<1> DEFINE k == job[s].key
<1>1. pc[s] = "commitOrder" /\ orders[o] = None /\ Return(s) /\ k \in Keys \cup {None}
  BY Unmoved DEF CreateOrder, Job
<1>2. CASE UNCHANGED orders
  <2>1. KeysStay
    BY <1>2 DEF KeysStay
  <2> QED
    BY <1>1, <2>1, ReturnCloses, QuietKeys
<1>3. CASE ~UNCHANGED orders
  <2> DEFINE row == [customer |-> job[s].customer, key |-> k, amount |-> job[s].amount,
                     refunded |-> 0, status |-> "Paid", version |-> 0]
  <2>1. orders' = [orders EXCEPT ![o] = row]
    BY <1>3 DEF CreateOrder, InsertRolledBack
  <2>2. row.key = k
    OBVIOUS
  <2> HIDE DEF row
  <2>3. orders'[o] = row /\ \A q \in Orders \ {o} : orders'[q] = orders[q]
    BY <2>1 DEF IInv, TypeOK
  <2>4. k # None => k \in Keys /\ Creating(s, k) /\ ~KeyTaken(k)
    BY <1>1 DEF Creating, KeyInv
  <2>5. OneOrderPerKey'
    <3> SUFFICES ASSUME NEW p \in Orders, NEW q \in Orders, orders'[p] # None, orders'[q] # None,
                        orders'[p].key = orders'[q].key, orders'[p].key # None
                 PROVE  p = q
      BY DEF OneOrderPerKey, Created
    <3>1. CASE p # o /\ q # o
      BY <2>3, <3>1 DEF KeyInv, OneOrderPerKey, Created
    <3>2. CASE p = o \/ q = o
      BY <2>2, <2>3, <2>4, <3>2 DEF KeyTaken
    <3> QED
      BY <3>1, <3>2
  <2>6. ASSUME NEW m \in Keys, NEW t \in Sessions, Creating(t, m)'  PROVE ~KeyTaken(m)'
    <3>1. t # s /\ Creating(t, m)
      BY <1>1, <2>6, ReturnCloses DEF OpenedBefore
    <3>2. ~KeyTaken(m) /\ m # k
      BY <2>4, <3>1 DEF OneAtATime, Creating, KeyInv
    <3> QED
      BY <2>2, <2>3, <3>2 DEF KeyTaken
  <2> QED
    BY <2>5, <2>6 DEF KeyInv
<1> QED
  BY <1>2, <1>3

(* Updates of an order leave its key alone.                                 *)
LEMMA RowUpdated ==
  ASSUME IInv, NEW o \in Orders, orders[o] \in Order,
         NEW st \in Statuses, NEW n \in Nat, NEW x \in Int,
         orders' = [orders EXCEPT ![o] =
                      [@ EXCEPT !.status = st, !.version = n, !.refunded = x]]
  PROVE  KeysStay
<1> DEFINE row == [orders[o] EXCEPT !.status = st, !.version = n, !.refunded = x]
<1>1. row \in Order
  BY DEF Order
<1>2. row.key = orders[o].key
  BY DEF Order
<1>3. orders' = [orders EXCEPT ![o] = row]
  BY DEF IInv, TypeOK
<1> HIDE DEF row
<1>4. row # None /\ orders[o] # None
  BY <1>1
<1> QED
  BY <1>2, <1>3, <1>4 DEF KeysStay, IInv, TypeOK

LEMMA UpdatesKeepKeys ==
  ASSUME IInv, NEW s \in Sessions, UpdateStatusCAS(s) \/ Approve(s) \/ Reject(s)
  PROVE  KeysStay
<1>1. UNCHANGED orders => KeysStay
  BY DEF KeysStay
<1>2. ASSUME NEW o \in Orders, orders[o] \in Order, NEW st \in Statuses,
             orders' = [orders EXCEPT ![o].status = st, ![o].version = @ + 1]
      PROVE  KeysStay
  <2>1. PICK n \in Nat, x \in Int : n = orders[o].version + 1 /\ x = orders[o].refunded
    BY <1>2 DEF Order
  <2>2. orders' = [orders EXCEPT ![o] =
                     [@ EXCEPT !.status = st, !.version = n, !.refunded = x]]
    BY <1>2, <2>1 DEF IInv, TypeOK, Order
  <2>3. orders[o] \in Order
    BY <1>2
  <2> QED
    BY <2>1, <2>2, <2>3, RowUpdated
<1>3. CASE UpdateStatusCAS(s)
  <2> DEFINE o == job[s].order
  <2>1. o \in Orders /\ orders[o] \in Order /\ job[s].to \in Statuses
    BY <1>3, Unmoved DEF UpdateStatusCAS, SessionInv, OrderThere
  <2>2. \/ UNCHANGED orders
        \/ orders' = [orders EXCEPT ![o].status = job[s].to, ![o].version = @ + 1]
    BY <1>3 DEF UpdateStatusCAS
  <2> HIDE DEF o
  <2> QED
    BY <1>1, <1>2, <2>1, <2>2
<1>4. CASE Reject(s)
  <2> DEFINE o == refunds[job[s].refund].order
  <2>1. o \in Orders /\ orders[o] \in Order
    BY <1>4, UnderReview DEF Reject, OrderThere
  <2>2. \/ UNCHANGED orders
        \/ orders' = [orders EXCEPT ![o].status = "Processing", ![o].version = @ + 1]
    BY <1>4 DEF Reject
  <2> HIDE DEF o
  <2> QED
    BY <1>1, <1>2, <2>1, <2>2 DEF Statuses
<1>5. CASE Approve(s)
  <2> DEFINE rf == refunds[job[s].refund]
             o == rf.order
  <2>1. rf.amount \in Nat /\ o \in Orders /\ orders[o] \in Order
    BY <1>5, UnderReview DEF Approve, OrderThere
  <2>2. UNCHANGED orders \/ orders' = ApprovedOrders(o, rf.amount)
    BY <1>5 DEF Approve
  <2> HIDE DEF rf, o
  <2>3. ASSUME orders' = ApprovedOrders(o, rf.amount)  PROVE KeysStay
    <3>1. PICK n \in Nat, x \in Int :
            n = orders[o].version + Hops(o) /\ x = orders[o].refunded + rf.amount
      BY <2>1 DEF Order, Hops
    <3>2. orders' = [orders EXCEPT ![o] =
                       [@ EXCEPT !.status = "Refunded", !.version = n, !.refunded = x]]
      BY <2>1, <2>3, <3>1 DEF ApprovedOrders, IInv, TypeOK, Order
    <3> QED
      BY <2>1, <3>2, RowUpdated DEF Statuses
  <2> QED
    BY <1>1, <2>2, <2>3
<1> QED
  BY <1>3, <1>4, <1>5

LEMMA StepKeys ==
  ASSUME IInv, KeyInv, OneAtATime, [Next]_vars \/ PaysIn
  PROVE  KeyInv'
<1>1. UNCHANGED orders => KeysStay
  BY DEF KeysStay
<1>2. ASSUME UNCHANGED <<orders, local>>  PROVE KeyInv'
  <2>1. \A t \in Sessions : OpenedBefore(t)
    BY <1>2 DEF local, OpenedBefore, Creating
  <2> QED
    BY <1>1, <1>2, <2>1, QuietKeys
<1>3. ASSUME NEW s \in Sessions, Return(s), KeysStay  PROVE KeyInv'
  BY <1>3, ReturnCloses, QuietKeys
<1>4. ASSUME NEW s \in Sessions, Start(s)  PROVE KeyInv'
  <2>1. ASSUME NEW o \in Orders, NEW to \in Statuses, TransitionRefused(s, o, to)
        PROVE  KeyInv'
    BY <1>2, <2>1 DEF TransitionRefused, vars, data
  <2>2. ASSUME NEW o \in Orders, NEW to \in Statuses, FindOrder(s, o, to)  PROVE KeyInv'
    BY <1>1, <2>2, GoesOn, QuietKeys DEF FindOrder, data
  <2>3. ASSUME NEW c \in Customers, NEW o \in Orders, NEW a \in RefundSums,
               ApplyCheck(s, c, o, a)
        PROVE  KeyInv'
    BY <1>1, <2>3, GoesOn, QuietKeys DEF ApplyCheck, data
  <2>4. ASSUME NEW r \in Refunds, NEW verdict \in {"approve", "reject"},
               ReviewCheck(s, r, verdict)
        PROVE  KeyInv'
    BY <1>1, <2>4, GoesOn, QuietKeys DEF ReviewCheck, data
  <2> QED
    BY <1>4, <2>1, <2>2, <2>3, <2>4, CheckedKey DEF Start
<1>5. ASSUME NEW s \in Sessions, Continue(s)  PROVE KeyInv'
  <2>1. CASE DebitRead(s)
    BY <1>1, <1>3, <2>1, Unmoved, GoesOn, QuietKeys DEF DebitRead, data
  <2>2. CASE UpdateStatusCAS(s)
    BY <1>3, <2>2, Unmoved, GoesOn, QuietKeys, UpdatesKeepKeys DEF UpdateStatusCAS
  <2>3. CASE CreateStatusChange(s)
    BY <1>1, <1>3, <2>3, Unmoved, GoesOn, QuietKeys DEF CreateStatusChange
  <2>4. CASE CreditRead(s) \/ FindApplied(s)
    BY <1>1, <1>3, <2>4, Unmoved, GoesOn, QuietKeys DEF CreditRead, FindApplied, data
  <2>5. CASE ProcessRefund(s)
    BY <1>1, <1>3, <2>5 DEF ProcessRefund
  <2>6. ASSUME NEW r \in Refunds, CreateRefund(s, r)  PROVE KeyInv'
    <3>1. job' = [job EXCEPT ![s] = [job[s] EXCEPT !.to = "Refunding"]]
      BY <2>6 DEF CreateRefund, IInv, TypeOK
    <3> QED
      BY <1>1, <2>6, <3>1, GoesOn, QuietKeys DEF CreateRefund
  <2>7. CASE ApproveRead(s)
    BY <1>1, <1>3, <2>7, Unmoved, GoesOn, QuietKeys DEF ApproveRead, data
  <2>8. CASE Approve(s) \/ Reject(s)
    BY <1>3, <2>8, UpdatesKeepKeys DEF Approve, Reject
  <2>9. CASE RejectRead(s)
    BY <1>1, <1>3, <2>9, Unmoved, GoesOn, QuietKeys DEF RejectRead
  <2> QED
    BY <1>5, <2>1, <2>2, <2>3, <2>4, <2>5, <2>6, <2>7, <2>8, <2>9, CreatedKey DEF Continue
<1>6. ASSUME NEW s \in Sessions, Fail(s)  PROVE KeyInv'
  BY <1>1, <1>3, <1>6 DEF Fail, data
<1>7. ASSUME NEW c \in Customers, Recharge(c)  PROVE KeyInv'
  BY <1>2, <1>7 DEF Recharge
<1>8. CASE PaysIn
  BY <1>2, <1>8 DEF PaysIn
<1>9. CASE UNCHANGED vars
  BY <1>2, <1>9 DEF vars, data
<1> QED
  BY <1>4, <1>5, <1>6, <1>7, <1>8, <1>9 DEF Next, Serve

(* What is left of "check idempotence" (order/service.go:72): two orders    *)
(* get one key only when two calls with it are open at once, between the    *)
(* check and the commit.  A caller who never has two such calls under way   *)
(* gets one order per key, however often it repeats the call, whatever else *)
(* goes on and wherever a call dies.                                        *)
THEOREM OneOrderPerKeyUnlessRacing == RSpec /\ []OneAtATime => []OneOrderPerKey
<1>1. RInit => KeyInv
  BY DEF RInit, Init, KeyInv, OneOrderPerKey, Created, Creating
<1>2. CreditInv /\ IInv /\ KeyInv /\ OneAtATime /\ [RNext]_allVars => KeyInv'
  BY ComposedStep, StepKeys
<1>3. KeyInv => OneOrderPerKey
  BY DEF KeyInv
<1> QED
  BY <1>1, <1>2, <1>3, RechargeInvariant, ComposedInvariant, PTL DEF RSpec
=============================================================================
