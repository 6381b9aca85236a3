----------------------------- MODULE CardIssue -----------------------------
(***************************************************************************)
(* Card goods: GoodsBuy (internal/http/openapi/customer) with IssueCards   *)
(* and LockAndBind (internal/module/card), the queued ImportCards, and     *)
(* UpdateGoods (internal/module/goods), for one product whose goods row    *)
(* allows repeated purchases.                                              *)
(*                                                                         *)
(* IssueCards gets the plain connection, so each of its statements commits *)
(* alone and sessions interleave between any two of them.  The payment of  *)
(* the order is in module OrderRefund; here it succeeds or refuses.        *)
(***************************************************************************)
EXTENDS Integers, Sequences, FiniteSets, FiniteSetsExt

CONSTANTS Sessions,    \* request handlers
          Orders,      \* identities of order rows
          Keys,        \* customer_order_ids
          Quantities,  \* numbers of cards bought
          Batches,     \* imports an administrator enqueues
          BatchSize,   \* cards in a batch
          MinFetch,    \* least page of available cards, 10 in the code
          MaxCards,    \* bound: no import beyond this many cards
          MaxEdits,    \* bound: edits of the goods row
          MaxCalls,    \* bound: purchases
          MaxFaults,   \* bound: statements of LockAndBind that fail
          None

ASSUME QuantitiesAssumption == Quantities \subseteq Nat \ {0}
ASSUME BatchSizeAssumption == BatchSize \in Nat \ {0}
ASSUME MinFetchAssumption == MinFetch \in Nat \ {0}
ASSUME NoneAssumption == None \notin Orders \cup Keys

VARIABLES stock,    \* goods.stock
          cards,    \* the cards in id order: [batch, order], order None if available
          queued,   \* batches whose card:import job waits
          orders,   \* orders[o]: the row's [key, number], or None
          answers,  \* the successful answers: [order, number, cards] of each
          pc,       \* where each session is
          job,      \* its call: [key, number, order]
          page,     \* the card ids it fetched and has not tried yet, least first
          issued,   \* the card ids it has bound
          offset, attempts, \* of its fetching loop
          seenStock,\* the stock it read with the goods row, when editing
          edits, calls, faults \* counters of the bounds

goods == <<stock, cards, queued>>
loop == <<page, issued, offset, attempts>>
bounds == <<edits, calls, faults>>
vars == <<goods, orders, answers, pc, job, loop, seenStock, bounds>>

Card == [batch : Batches, order : Orders \cup {None}]
Order == [key : Keys \cup {None}, number : Quantities]
ASSUME NoOrderAssumption == None \notin Order
Job == [key : Keys \cup {None}, number : Quantities \cup {0}, order : Orders \cup {None}]
Blank == [key |-> None, number |-> 0, order |-> None]

-----------------------------------------------------------------------------
Ids == 1..Len(cards)
Available == {i \in Ids : cards[i].order = None}
Bound(o) == {i \in Ids : cards[i].order = o}

Goto(s, label) == pc' = [pc EXCEPT ![s] = label]

Return(s) ==
  /\ Goto(s, "idle")
  /\ job' = [job EXCEPT ![s] = Blank]
  /\ page' = [page EXCEPT ![s] = {}]
  /\ issued' = [issued EXCEPT ![s] = {}]
  /\ offset' = [offset EXCEPT ![s] = 0]
  /\ attempts' = [attempts EXCEPT ![s] = 0]
  /\ seenStock' = [seenStock EXCEPT ![s] = 0]

Init ==
  /\ stock = 0
  /\ cards = <<>>
  /\ queued = Batches
  /\ orders = [o \in Orders |-> None]
  /\ answers = <<>>
  /\ pc = [s \in Sessions |-> "idle"]
  /\ job = [s \in Sessions |-> Blank]
  /\ page = [s \in Sessions |-> {}]
  /\ issued = [s \in Sessions |-> {}]
  /\ offset = [s \in Sessions |-> 0]
  /\ attempts = [s \in Sessions |-> 0]
  /\ seenStock = [s \in Sessions |-> 0]
  /\ edits = 0
  /\ calls = 0
  /\ faults = 0

(* A worker imports a batch: the cards and the stock are one transaction.  *)
(* If it dies before the job is done the queue delivers the job again, and *)
(* its cards are imported again.                                           *)
FreshCard(b) == [batch |-> b, order |-> None]
NewCardsOnce(b) ==
  IF \E i \in Ids : cards[i].batch = b THEN <<>> ELSE [i \in 1..BatchSize |-> FreshCard(b)]
NewCards(b) == [i \in 1..BatchSize |-> FreshCard(b)]

ImportCards(b) ==
  /\ b \in queued
  /\ Len(cards) + BatchSize <= MaxCards
  /\ cards' = cards \o NewCards(b)
  /\ stock' = stock + BatchSize
  /\ queued' \in {queued, queued \ {b}}
  /\ UNCHANGED <<orders, answers, pc, job, loop, seenStock, bounds>>

(* UpdateGoods reads the goods row ...                                     *)
FindBySN(s) ==
  /\ pc[s] = "idle"
  /\ edits < MaxEdits
  /\ edits' = edits + 1
  /\ seenStock' = [seenStock EXCEPT ![s] = stock]
  /\ Goto(s, "save")
  /\ UNCHANGED <<goods, orders, answers, job, loop, calls, faults>>

(* ... and saves all of its columns.                                       *)
UpdateGoods(s) ==
  /\ pc[s] = "save"
  /\ stock' = seenStock[s]
  /\ Return(s)
  /\ UNCHANGED <<cards, queued, orders, answers, bounds>>

-----------------------------------------------------------------------------
(* GoodsBuy: the goods row says there is enough.                           *)
ValidatePurchase(s, k, n) ==
  /\ pc[s] = "idle"
  /\ calls < MaxCalls
  /\ calls' = calls + 1
  /\ n <= stock
  /\ job' = [job EXCEPT ![s] = [Blank EXCEPT !.key = k, !.number = n]]
  /\ Goto(s, "find")
  /\ UNCHANGED <<goods, orders, answers, loop, seenStock, edits, faults>>

(* CreateOrder: an order already there for the customer_order_id is        *)
(* returned, and the purchase goes on to issue cards for it.               *)
KeyTaken(k) == k # None /\ \E o \in Orders : orders[o] # None /\ orders[o].key = k

FindByCustomerOrderID(s) ==
  /\ pc[s] = "find"
  /\ IF KeyTaken(job[s].key)
     THEN \E o \in Orders :
            /\ orders[o] # None
            /\ orders[o].key = job[s].key
            /\ job' = [job EXCEPT ![s].order = o]
            /\ Goto(s, "fetch")
     ELSE Goto(s, "create") /\ UNCHANGED job
  /\ UNCHANGED <<goods, orders, answers, loop, seenStock, bounds>>

CreateOrder(s, o) ==
  /\ pc[s] = "create"
  /\ orders[o] = None
  /\ orders' = [orders EXCEPT ![o] = [key |-> job[s].key, number |-> job[s].number]]
  /\ job' = [job EXCEPT ![s].order = o]
  /\ Goto(s, "fetch")
  /\ UNCHANGED <<goods, answers, loop, seenStock, bounds>>

Remaining(s) == job[s].number - Cardinality(issued[s])
FetchSize(s) == Max({MinFetch, 2 * Remaining(s)})

(* The next page of available cards in id order, past the rows that        *)
(* earlier pages had, counted in what is available now.                    *)
Before(i) == {j \in Available : j < i}
PageOf(s) ==
  {i \in Available : Cardinality(Before(i)) \in offset[s] .. offset[s] + FetchSize(s) - 1}

(* The loop goes on while cards are missing and rounds are left.           *)
Looping(s) == Remaining(s) > 0 /\ attempts[s] < 3 * job[s].number

FetchAvailable(s) ==
  /\ pc[s] = "fetch"
  /\ Looping(s)
  /\ PageOf(s) # {}
  /\ page' = [page EXCEPT ![s] = PageOf(s)]
  /\ attempts' = [attempts EXCEPT ![s] = @ + 1]
  /\ offset' = [offset EXCEPT ![s] = @ + FetchSize(s)]
  /\ Goto(s, "bind")
  /\ UNCHANGED <<goods, orders, answers, job, issued, seenStock, bounds>>

(* LockAndBind takes the card if it is still available, and IssueCards     *)
(* goes on to the next one until it has as many as it wants.               *)
AnyCard(i) == TRUE
StillAvailable(i) == cards[i].order = None
Never(s) == FALSE
EnoughWith(s) == Cardinality(issued'[s]) = job[s].number

First(s, i) == i \in page[s] /\ \A j \in page[s] : i <= j

NextCard(s, i) ==
  LET rest == page[s] \ {i}
  IN IF rest = {} \/ EnoughWith(s)
     THEN Goto(s, "fetch") /\ page' = [page EXCEPT ![s] = {}]
     ELSE page' = [page EXCEPT ![s] = rest] /\ UNCHANGED pc

LockAndBind(s, i) ==
  /\ pc[s] = "bind"
  /\ First(s, i)
  /\ IF StillAvailable(i)
     THEN /\ cards' = [cards EXCEPT ![i].order = job[s].order]
          /\ issued' = [issued EXCEPT ![s] = @ \cup {i}]
     ELSE UNCHANGED <<cards, issued>>
  /\ NextCard(s, i)
  /\ UNCHANGED <<stock, queued, orders, answers, job, offset, attempts, seenStock, bounds>>

(* A statement that fails, before or after it took the card, is treated    *)
(* like a card that somebody else took.                                    *)
LockAndBindError(s, i) ==
  /\ pc[s] = "bind"
  /\ First(s, i)
  /\ faults < MaxFaults
  /\ faults' = faults + 1
  /\ \/ UNCHANGED cards
     \/ StillAvailable(i) /\ cards' = [cards EXCEPT ![i].order = job[s].order]
  /\ UNCHANGED issued
  /\ NextCard(s, i)
  /\ UNCHANGED <<stock, queued, orders, answers, job, offset, attempts, seenStock, edits, calls>>

(* All cards are bound and the customer gets them ...                      *)
SomeCards(s) == issued[s] # {}
Complete(s) == Remaining(s) = 0

IssueCards(s) ==
  /\ pc[s] = "fetch"
  /\ Complete(s)
  /\ answers' = Append(answers, [order |-> job[s].order, number |-> job[s].number, cards |-> issued[s]])
  /\ Return(s)
  /\ UNCHANGED <<goods, orders, bounds>>

(* ... or the call gives up: the order is kept, without status or refund,  *)
(* and so are the cards it has bound.                                      *)
Shortage(s) ==
  /\ pc[s] = "fetch"
  /\ ~Complete(s)
  /\ Looping(s) => PageOf(s) = {}
  /\ Return(s)
  /\ UNCHANGED <<goods, orders, answers, bounds>>

(* The payment is refused, another statement fails or the process dies.    *)
Fail(s) ==
  /\ pc[s] # "idle"
  /\ Return(s)
  /\ UNCHANGED <<goods, orders, answers, bounds>>

Next ==
  \/ \E b \in Batches : ImportCards(b)
  \/ \E s \in Sessions :
       \/ FindBySN(s) \/ UpdateGoods(s)
       \/ \E k \in Keys \cup {None}, n \in Quantities : ValidatePurchase(s, k, n)
       \/ FindByCustomerOrderID(s)
       \/ \E o \in Orders : CreateOrder(s, o)
       \/ FetchAvailable(s)
       \/ \E i \in Ids : LockAndBind(s, i) \/ LockAndBindError(s, i)
       \/ IssueCards(s) \/ Shortage(s) \/ Fail(s)

Spec == Init /\ [][Next]_vars
-----------------------------------------------------------------------------
Labels == {"idle", "save", "find", "create", "fetch", "bind"}

(* Every variable stays in its domain, and a call never binds more cards   *)
(* than it was asked for.                                                  *)
TypeOK ==
  /\ stock \in Nat
  /\ cards \in Seq(Card)
  /\ queued \subseteq Batches
  /\ orders \in [Orders -> Order \cup {None}]
  /\ answers \in Seq([order : Orders, number : Quantities, cards : SUBSET Ids])
  /\ pc \in [Sessions -> Labels]
  /\ job \in [Sessions -> Job]
  /\ \A s \in Sessions :
       /\ page[s] \subseteq Ids
       /\ issued[s] \subseteq Ids
       /\ Cardinality(issued[s]) <= job[s].number
  /\ offset \in [Sessions -> Nat]
  /\ attempts \in [Sessions -> Nat]
  /\ seenStock \in [Sessions -> Nat]

(* No card is handed out twice: answers about different orders, and the    *)
(* repeated answers about one order, never share a card; and an answer has *)
(* as many cards as were asked for, all bound to its order.                *)
HandedOnce ==
  \A i \in 1..Len(answers) :
    /\ Cardinality(answers[i].cards) = answers[i].number
    /\ answers[i].cards \subseteq Bound(answers[i].order)
    /\ \A j \in 1..Len(answers) : i # j => answers[i].cards \cap answers[j].cards = {}

(* Unless a statement failed half-way, an order without customer_order_id  *)
(* never binds more cards than it has paid for.  (One with such an id may: *)
(* a repeated call is given the order again and issues cards again.)       *)
PaidInCards ==
  faults = 0 =>
    \A o \in Orders :
      orders[o] # None /\ orders[o].key = None => Cardinality(Bound(o)) <= orders[o].number

(* The goods row never promises more cards than were ever imported.        *)
StockIsBacked == stock <= Len(cards)

-----------------------------------------------------------------------------
(* card/service.go:138, "if a card was snatched, retry with the next": a   *)
(* call that gives up has tried every card that is available.              *)
ShortageIsReal ==
  [][\A s \in Sessions : Shortage(s) => Cardinality(Available) < Remaining(s)]_vars
=============================================================================
