----------------------------- MODULE CardProofs -----------------------------
(***************************************************************************)
(* Theorems of CardIssue, for any sessions, orders, batches, quantities,   *)
(* page sizes and bounds.                                                  *)
(*                                                                         *)
(* A card changes once, from available to bound, and whoever binds it has  *)
(* it in `issued` until the call ends.  So what the calls under way hold   *)
(* and what has been answered are all disjoint (Handed); and an order      *)
(* nobody can ask for again is served by one call, which holds all of its  *)
(* cards until it ends (Paid).                                             *)
(*                                                                         *)
(* A page of the loop starts at the offset-th available id, so an empty one *)
(* means that no more ids than that are available (Ranked, PageSize).      *)
(***************************************************************************)
EXTENDS CardIssue, FiniteSetTheorems, SequenceTheorems, WellFoundedInduction, TLAPS

Serving(s) == pc[s] \in {"fetch", "bind"}

(* What a call knows where it is.                                          *)
SessionInv(s) ==
  /\ Serving(s) => /\ job[s].order \in Orders
                   /\ orders[job[s].order] # None
                   /\ orders[job[s].order].key = None =>
                        job[s].number = orders[job[s].order].number
  /\ pc[s] = "create" => job[s].number \in Quantities
  /\ pc[s] = "find" => job[s].number \in Quantities
  /\ Serving(s) => job[s].number \in Quantities
  /\ ~Serving(s) => issued[s] = {} /\ job[s].order = None
  /\ pc[s] = "bind" => page[s] # {} /\ Cardinality(issued[s]) < job[s].number
  /\ issued[s] \subseteq Bound(job[s].order)

(* No two calls hold a card, and no call holds one that was handed out.    *)
Handed ==
  /\ HandedOnce
  /\ \A s, t \in Sessions : s # t => issued[s] \cap issued[t] = {}
  /\ \A s \in Sessions : \A n \in 1..Len(answers) : answers[n].cards \cap issued[s] = {}

(* An order without a key is served by one call, which holds its cards.    *)
Paid ==
  \A o \in Orders :
    orders[o] # None /\ orders[o].key = None =>
      /\ Cardinality(Bound(o)) <= orders[o].number
      /\ \A s \in Sessions :
           Serving(s) /\ job[s].order = o =>
             /\ Bound(o) = issued[s]
             /\ \A t \in Sessions \ {s} : ~(Serving(t) /\ job[t].order = o)

(* No card is bound to an order that is not there.                         *)
BoundToOrders == \A i \in Ids : cards[i].order # None => orders[cards[i].order] # None

Backed == stock <= Len(cards) /\ \A s \in Sessions : seenStock[s] <= Len(cards)

IInv ==
  /\ TypeOK
  /\ page = [s \in Sessions |-> page[s]]
  /\ issued = [s \in Sessions |-> issued[s]]
  /\ faults \in Nat
  /\ \A s \in Sessions : SessionInv(s)
  /\ Handed
  /\ BoundToOrders
  /\ faults = 0 => Paid
  /\ Backed

USE QuantitiesAssumption, BatchSizeAssumption, NoneAssumption
-----------------------------------------------------------------------------
LEMMA InitInv == Init => IInv
<1> SUFFICES ASSUME Init  PROVE IInv
  OBVIOUS
<1> USE DEF Init
<1>1. TypeOK
  BY FS_EmptySet DEF TypeOK, Labels, Job, Blank, Ids
<1>2. \A s \in Sessions : SessionInv(s)
  BY DEF SessionInv, Serving, Blank, Bound
<1>3. Handed
  BY DEF Handed, HandedOnce
<1>4. Paid /\ BoundToOrders /\ Backed
  BY DEF Paid, BoundToOrders, Backed, Ids
<1> QED
  BY <1>1, <1>2, <1>3, <1>4 DEF IInv

(* What a call that returns leaves behind.                                 *)
LEMMA ReturnTypes ==
  ASSUME IInv, NEW s \in Sessions, Return(s), UNCHANGED cards
  PROVE  /\ pc' \in [Sessions -> Labels]
         /\ job' \in [Sessions -> Job]
         /\ \A t \in Sessions :
              /\ page'[t] \subseteq Ids'
              /\ issued'[t] \subseteq Ids'
              /\ Cardinality(issued'[t]) <= job'[t].number
         /\ offset' \in [Sessions -> Nat]
         /\ attempts' \in [Sessions -> Nat]
         /\ seenStock' \in [Sessions -> Nat]
         /\ page' = [t \in Sessions |-> page'[t]]
         /\ issued' = [t \in Sessions |-> issued'[t]]
<1> USE DEF IInv, TypeOK, Return, Goto
<1>1. pc' \in [Sessions -> Labels] /\ job' \in [Sessions -> Job]
  BY DEF Labels, Job, Blank
<1>2. \A t \in Sessions :
        /\ page'[t] \subseteq Ids'
        /\ issued'[t] \subseteq Ids'
        /\ Cardinality(issued'[t]) <= job'[t].number
  BY FS_EmptySet DEF Ids, Blank
<1> QED
  BY <1>1, <1>2

(* ... as far as the others are concerned, nothing.                        *)
LEMMA ReturnInv ==
  ASSUME IInv, NEW s \in Sessions, Return(s), UNCHANGED <<cards, orders>>
  PROVE  /\ \A t \in Sessions : SessionInv(t)'
         /\ BoundToOrders'
         /\ Paid => Paid'
<1> USE DEF IInv, TypeOK, Return, Goto
<1>1. \A t \in Sessions : SessionInv(t)'
  <2> SUFFICES ASSUME NEW t \in Sessions  PROVE SessionInv(t)'
    OBVIOUS
  <2>1. CASE t = s
    BY <2>1 DEF SessionInv, Serving, Blank, Bound, Ids
  <2>2. CASE t # s
    BY <2>2 DEF SessionInv, Serving, Bound, Ids
  <2> QED
    BY <2>1, <2>2
<1>2. BoundToOrders'
  BY DEF BoundToOrders, Ids
<1>3. ASSUME Paid  PROVE Paid'
  BY <1>3 DEF Paid, Serving, Bound, Ids
<1> QED
  BY <1>1, <1>2, <1>3

LEMMA FailKeeps ==
  ASSUME IInv, NEW s \in Sessions, Fail(s) \/ Shortage(s)
  PROVE  IInv'
<1>1. Return(s) /\ UNCHANGED <<goods, orders, answers, bounds>>
  BY DEF Fail, Shortage
<1> USE <1>1 DEF goods, bounds
<1>2. TypeOK'
  BY ReturnTypes DEF IInv, TypeOK, Ids
<1>3. Handed'
  BY DEF IInv, Handed, HandedOnce, Return, Bound, Ids
<1>4. Backed'
  BY DEF IInv, TypeOK, Backed, Return
<1> QED
  BY <1>2, <1>3, <1>4, ReturnTypes, ReturnInv DEF IInv

LEMMA UpdateGoodsKeeps ==
  ASSUME IInv, NEW s \in Sessions, UpdateGoods(s)
  PROVE  IInv'
<1> USE DEF UpdateGoods, bounds
<1>1. TypeOK'
  BY ReturnTypes DEF IInv, TypeOK, Ids
<1>2. Handed'
  BY DEF IInv, Handed, HandedOnce, Return, Bound, Ids
<1>3. Backed'
  BY DEF IInv, TypeOK, Backed, Return
<1> QED
  BY <1>1, <1>2, <1>3, ReturnTypes, ReturnInv DEF IInv

LEMMA FindBySNKeeps ==
  ASSUME IInv, NEW s \in Sessions, FindBySN(s)
  PROVE  IInv'
<1> USE DEF FindBySN, goods, loop, Goto, IInv, TypeOK
<1>1. TypeOK'
  BY DEF Labels, Ids
<1>2. \A t \in Sessions : SessionInv(t)'
  BY DEF SessionInv, Serving, Bound, Ids
<1>3. Handed' /\ BoundToOrders'
  BY DEF Handed, HandedOnce, BoundToOrders, Bound, Ids
<1>4. faults' = 0 => Paid'
  BY DEF Paid, Serving, Bound, Ids
<1>5. Backed'
  BY DEF Backed
<1> QED
  BY <1>1, <1>2, <1>3, <1>4, <1>5

(* Of the cards, nothing changes as long as calls only move on or forget.  *)
LEMMA CardsKept ==
  ASSUME IInv, UNCHANGED <<cards, orders, answers, issued>>,
         \A t \in Sessions : Serving(t)' => Serving(t) /\ job'[t].order = job[t].order
  PROVE  Handed' /\ BoundToOrders' /\ (Paid => Paid')
<1>1. Handed'
  BY DEF IInv, Handed, HandedOnce, Bound, Ids
<1>2. BoundToOrders'
  BY DEF IInv, BoundToOrders, Ids
<1>3. ASSUME Paid  PROVE Paid'
  <2>1. /\ orders' = orders /\ issued' = issued
        /\ \A o \in Orders : Bound(o)' = Bound(o)
    BY DEF Bound, Ids
  <2>2. \A o \in Orders, t \in Sessions : Serving(t)' /\ job'[t].order = o =>
                                         Serving(t) /\ job[t].order = o
    BY DEF Serving
  <2> QED
    BY <1>3, <2>1, <2>2 DEF Paid, Serving
<1> QED
  BY <1>1, <1>2, <1>3

(* What TypeOK says of the calls, without the cards.                       *)
LEMMA Calls ==
  ASSUME IInv
  PROVE  /\ pc \in [Sessions -> Labels]
         /\ job \in [Sessions -> Job]
         /\ orders \in [Orders -> Order \cup {None}]
         /\ \A s \in Sessions :
              /\ job[s].number \in Nat
              /\ IsFiniteSet(issued[s])
              /\ Cardinality(issued[s]) \in Nat
              /\ Cardinality(issued[s]) <= job[s].number
<1>1. \A s \in Sessions : job[s].number \in Nat
  BY DEF IInv, TypeOK, Job
<1>2. IsFiniteSet(Ids)
  <2>1. Len(cards) \in Int
    BY DEF IInv, TypeOK
  <2> QED
    BY <2>1, FS_Interval DEF Ids
<1>3. \A s \in Sessions : issued[s] \subseteq Ids
  BY DEF IInv, TypeOK
<1>4. \A s \in Sessions : IsFiniteSet(issued[s]) /\ Cardinality(issued[s]) \in Nat
  BY <1>2, <1>3, FS_Subset, FS_CardinalityType
<1> QED
  BY <1>1, <1>4 DEF IInv, TypeOK

LEMMA Answers ==
  ASSUME IInv
  PROVE  /\ Len(answers) \in Nat
         /\ \A n \in 1..Len(answers) :
              answers[n] \in [order : Orders, number : Quantities, cards : SUBSET Ids]
<1> DEFINE Answer == [order : Orders, number : Quantities, cards : SUBSET Ids]
<1>1. answers \in Seq(Answer)
  BY DEF IInv, TypeOK
<1> HIDE DEF Answer
<1>2. Len(answers) \in Nat /\ \A n \in 1..Len(answers) : answers[n] \in Answer
  BY <1>1
<1> QED
  BY <1>2 DEF Answer

LEMMA ValidatePurchaseKeeps ==
  ASSUME IInv, NEW s \in Sessions, NEW k \in Keys \cup {None}, NEW n \in Quantities,
         ValidatePurchase(s, k, n)
  PROVE  IInv'
<1> USE DEF ValidatePurchase, goods, loop, Goto
<1>1. pc' \in [Sessions -> Labels] /\ job' \in [Sessions -> Job]
  BY Calls DEF Labels, Job, Blank
<1>2. /\ job'[s].number = n /\ job'[s].order = None
      /\ pc'[s] = "find" /\ issued[s] = {}
      /\ \A t \in Sessions \ {s} : job'[t] = job[t] /\ pc'[t] = pc[t]
  BY Calls DEF Blank, IInv, SessionInv, Serving
<1>3. \A t \in Sessions : Cardinality(issued[t]) <= job'[t].number
  BY <1>2, Calls, FS_EmptySet
<1>4. TypeOK'
  BY <1>1, <1>3 DEF IInv, TypeOK, Ids
<1>5. \A t \in Sessions : SessionInv(t)'
  <2> SUFFICES ASSUME NEW t \in Sessions  PROVE SessionInv(t)'
    OBVIOUS
  <2>1. CASE t = s
    <3>1. /\ pc'[t] = "find" /\ issued'[t] = {}
          /\ job'[t].number \in Quantities /\ job'[t].order = None
      BY <1>2, <2>1
    <3> QED
      BY <3>1 DEF SessionInv, Serving
  <2>2. CASE t # s
    BY <1>2, <2>2 DEF IInv, SessionInv, Serving, Bound, Ids
  <2> QED
    BY <2>1, <2>2
<1>6. Handed' /\ BoundToOrders' /\ (Paid => Paid')
  BY <1>2, CardsKept DEF Serving
<1>7. Backed'
  BY DEF IInv, Backed
<1> QED
  BY <1>4, <1>5, <1>6, <1>7 DEF IInv

(* Only an order with a key is found again.                                *)
LEMMA FindByCustomerOrderIDKeeps ==
  ASSUME IInv, NEW s \in Sessions, FindByCustomerOrderID(s)
  PROVE  IInv'
<1> USE DEF FindByCustomerOrderID, goods, loop, bounds, Goto
<1>1. CASE ~KeyTaken(job[s].key)
  <2>1. /\ pc' \in [Sessions -> Labels] /\ job' = job
        /\ pc[s] = "find" /\ pc'[s] = "create"
        /\ \A t \in Sessions \ {s} : pc'[t] = pc[t]
    BY <1>1, Calls DEF Labels
  <2>2. TypeOK'
    BY <2>1 DEF IInv, TypeOK, Ids
  <2>3. \A t \in Sessions : SessionInv(t)'
    BY <2>1 DEF IInv, SessionInv, Serving, Bound, Ids
  <2>4. Handed' /\ BoundToOrders' /\ (Paid => Paid')
    BY <2>1, CardsKept DEF Serving
  <2>5. Backed'
    BY DEF IInv, Backed
  <2> QED
    BY <2>2, <2>3, <2>4, <2>5 DEF IInv
<1>2. CASE KeyTaken(job[s].key)
  <2>1. PICK o \in Orders :
          /\ orders[o] # None
          /\ orders[o].key = job[s].key
          /\ job' = [job EXCEPT ![s].order = o]
          /\ pc' = [pc EXCEPT ![s] = "fetch"]
    BY <1>2
  <2>2. orders[o].key # None
    BY <1>2, <2>1 DEF KeyTaken
  <2>3. /\ job'[s].order = o /\ job'[s].number = job[s].number /\ job'[s] \in Job
        /\ pc[s] = "find" /\ pc'[s] = "fetch"
        /\ \A t \in Sessions \ {s} : job'[t] = job[t] /\ pc'[t] = pc[t]
    BY <2>1, Calls DEF Job
  <2>4. pc' \in [Sessions -> Labels] /\ job' \in [Sessions -> Job]
    BY <2>1, <2>3, Calls DEF Labels
  <2>5. TypeOK'
    BY <2>3, <2>4 DEF IInv, TypeOK, Ids
  <2>6. \A t \in Sessions : SessionInv(t)'
    BY <2>1, <2>2, <2>3 DEF IInv, SessionInv, Serving, Bound, Ids
  <2>7. Handed' /\ BoundToOrders'
    BY DEF IInv, Handed, HandedOnce, BoundToOrders, Bound, Ids
  <2>8. Paid => Paid'
    BY <2>2, <2>3 DEF Paid, Serving, Bound, Ids
  <2>9. Backed'
    BY DEF IInv, Backed
  <2> QED
    BY <2>5, <2>6, <2>7, <2>8, <2>9 DEF IInv
<1> QED
  BY <1>1, <1>2

(* The order is new and has no cards.                                      *)
LEMMA CreateOrderKeeps ==
  ASSUME IInv, NEW s \in Sessions, NEW o \in Orders, CreateOrder(s, o)
  PROVE  IInv'
<1> USE DEF CreateOrder, goods, loop, bounds, Goto
<1>1. /\ pc' \in [Sessions -> Labels]
      /\ pc[s] = "create" /\ pc'[s] = "fetch"
      /\ job'[s].order = o /\ job'[s].number = job[s].number /\ job'[s].key = job[s].key
      /\ job'[s] \in Job
      /\ \A t \in Sessions \ {s} : job'[t] = job[t] /\ pc'[t] = pc[t]
  BY Calls DEF Labels, Job
<1>2. job[s].number \in Quantities /\ issued[s] = {}
  BY <1>1 DEF IInv, SessionInv, Serving
<1>3. /\ orders[o] = None /\ orders'[o] = [key |-> job[s].key, number |-> job[s].number]
      /\ \A p \in Orders \ {o} : orders'[p] = orders[p]
      /\ orders'[o] # None
      /\ orders' \in [Orders -> Order \cup {None}]
  BY <1>2, Calls, NoOrderAssumption DEF Order, Job
<1>4. job' \in [Sessions -> Job]
  BY <1>1, Calls
<1>5. TypeOK'
  BY <1>1, <1>3, <1>4 DEF IInv, TypeOK, Ids
<1>6. \A t \in Sessions : SessionInv(t)'
  <2> SUFFICES ASSUME NEW t \in Sessions  PROVE SessionInv(t)'
    OBVIOUS
  <2>1. CASE t = s
    BY <1>1, <1>2, <1>3, <2>1 DEF SessionInv, Serving, Bound, Ids
  <2>2. CASE t # s
    BY <1>1, <1>3, <2>2 DEF IInv, SessionInv, Serving, Bound, Ids
  <2> QED
    BY <2>1, <2>2
<1>7. Handed'
  BY DEF IInv, Handed, HandedOnce, Bound, Ids
<1>8. BoundToOrders'
  BY <1>3, Calls DEF IInv, BoundToOrders, Ids, TypeOK, Card
<1>9. ASSUME Paid  PROVE Paid'
  <2> SUFFICES ASSUME NEW p \in Orders, orders'[p] # None, orders'[p].key = None
               PROVE  /\ Cardinality(Bound(p)') <= orders'[p].number
                      /\ \A t \in Sessions :
                           Serving(t)' /\ job'[t].order = p =>
                             /\ Bound(p)' = issued'[t]
                             /\ \A u \in Sessions \ {t} : ~(Serving(u)' /\ job'[u].order = p)
    BY DEF Paid
  <2>1. CASE p = o
    <3>1. Bound(o)' = {}
      BY <1>3 DEF IInv, Bound, BoundToOrders, Ids
    <3>2. \A u \in Sessions \ {s} : ~(Serving(u)' /\ job'[u].order = o)
      BY <1>1, <1>3 DEF IInv, SessionInv, Serving
    <3>3. Cardinality(Bound(o)') <= orders'[o].number
      BY <1>2, <1>3, <3>1, FS_EmptySet
    <3> QED
      BY <1>2, <2>1, <3>1, <3>2, <3>3
  <2>2. CASE p # o
    <3>1. orders[p] = orders'[p] /\ Bound(p)' = Bound(p)
      BY <1>3, <2>2 DEF Bound, Ids
    <3>2. \A t \in Sessions : Serving(t)' /\ job'[t].order = p =>
                               Serving(t) /\ job[t].order = p
      BY <1>1, <2>2 DEF Serving
    <3> QED
      BY <1>9, <3>1, <3>2 DEF Paid, Serving
  <2> QED
    BY <2>1, <2>2
<1>10. Backed'
  BY DEF IInv, Backed
<1> QED
  BY <1>5, <1>6, <1>7, <1>8, <1>9, <1>10 DEF IInv

LEMMA MaxOfTwo ==
  ASSUME NEW a \in Nat, NEW b \in Nat
  PROVE  Max({a, b}) \in Nat
<1>1. \E x \in {a, b} : \A y \in {a, b} : x >= y
  <2>1. CASE a >= b
    BY <2>1
  <2>2. CASE b >= a
    BY <2>2
  <2> QED
    BY <2>1, <2>2
<1> QED
  BY <1>1 DEF Max

LEMMA FetchAvailableKeeps ==
  ASSUME IInv, NEW s \in Sessions, FetchAvailable(s)
  PROVE  IInv'
<1> USE DEF FetchAvailable, goods, bounds, Goto
<1>1. Remaining(s) \in Nat \ {0}
  BY Calls DEF Looping, Remaining
<1>2. FetchSize(s) \in Nat
  BY <1>1, MaxOfTwo, MinFetchAssumption DEF FetchSize
<1>3. PageOf(s) \subseteq Ids
  BY DEF PageOf, Available
<1>4. /\ pc' \in [Sessions -> Labels]
      /\ pc[s] = "fetch" /\ pc'[s] = "bind"
      /\ \A t \in Sessions \ {s} : pc'[t] = pc[t]
  BY Calls DEF Labels
<1>5. /\ page'[s] = PageOf(s)
      /\ \A t \in Sessions \ {s} : page'[t] = page[t]
      /\ page' = [t \in Sessions |-> page'[t]]
  BY DEF IInv
<1>6. offset' \in [Sessions -> Nat] /\ attempts' \in [Sessions -> Nat]
  BY <1>2 DEF IInv, TypeOK
<1>7. TypeOK'
  BY <1>3, <1>4, <1>5, <1>6 DEF IInv, TypeOK, Ids
<1>8. \A t \in Sessions : SessionInv(t)'
  <2>1. Cardinality(issued[s]) < job[s].number
    BY <1>1, Calls DEF Remaining
  <2> SUFFICES ASSUME NEW t \in Sessions  PROVE SessionInv(t)'
    OBVIOUS
  <2>2. UNCHANGED <<cards, orders, job, issued>> /\ SessionInv(t) /\ PageOf(s) # {}
    BY DEF IInv
  <2> HIDE DEF FetchAvailable, goods, bounds, Goto
  <2>3. CASE t = s
    BY <1>4, <1>5, <2>1, <2>2, <2>3 DEF SessionInv, Serving, Bound, Ids
  <2>4. CASE t # s
    <3>1. pc'[t] = pc[t] /\ page'[t] = page[t]
      BY <1>4, <1>5, <2>4
    <3>2. Bound(job[t].order)' = Bound(job[t].order)
      BY <2>2 DEF Bound, Ids
    <3> QED
      BY <2>2, <3>1, <3>2 DEF SessionInv, Serving
  <2> QED
    BY <2>3, <2>4
<1>9. Handed' /\ BoundToOrders' /\ (Paid => Paid')
  BY <1>4, CardsKept DEF Serving
<1>10. Backed'
  BY DEF IInv, Backed
<1> QED
  BY <1>5, <1>7, <1>8, <1>9, <1>10 DEF IInv

-----------------------------------------------------------------------------
(* LockAndBind, whether the card was taken or not.                         *)
LEMMA NextCardKeeps ==
  ASSUME IInv, NEW s \in Sessions, NEW i \in Ids,
         pc[s] = "bind", First(s, i), NextCard(s, i),
         UNCHANGED <<stock, queued, orders, answers, job, offset, attempts, seenStock>>,
         cards' \in Seq(Card), Len(cards') = Len(cards),
         issued' = [t \in Sessions |-> issued'[t]],
         \A t \in Sessions \ {s} : issued'[t] = issued[t],
         issued'[s] \subseteq Ids,
         Cardinality(issued'[s]) \in Nat,
         Cardinality(issued'[s]) <= job[s].number,
         \A t \in Sessions : issued'[t] \subseteq Bound(job[t].order)',
         faults' \in Nat
  PROVE  /\ TypeOK'
         /\ page' = [t \in Sessions |-> page'[t]]
         /\ \A t \in Sessions : SessionInv(t)'
         /\ Backed'
         /\ \A t \in Sessions : Serving(t)' <=> Serving(t)
<1>1. /\ pc' \in [Sessions -> Labels]
      /\ page' = [t \in Sessions |-> page'[t]]
      /\ \A t \in Sessions \ {s} : pc'[t] = pc[t] /\ page'[t] = page[t]
      /\ pc'[s] = "fetch" \/ pc'[s] = "bind"
      /\ page'[s] \subseteq Ids
      /\ pc'[s] = "bind" => page'[s] # {} /\ Cardinality(issued'[s]) # job[s].number
  <2>1. page[s] \subseteq Ids
    BY DEF IInv, TypeOK
  <2>2. CASE page[s] \ {i} = {} \/ EnoughWith(s)
    BY <2>1, <2>2, Calls DEF NextCard, Goto, Labels, IInv
  <2>3. CASE ~(page[s] \ {i} = {} \/ EnoughWith(s))
    BY <2>1, <2>3, Calls DEF NextCard, EnoughWith, Labels, IInv
  <2> QED
    BY <2>2, <2>3
<1>2. Ids' = Ids
  BY DEF Ids
<1>3. \A t \in Sessions : page'[t] \subseteq Ids /\ issued'[t] \subseteq Ids
                          /\ Cardinality(issued'[t]) <= job[t].number
  BY <1>1 DEF IInv, TypeOK
<1>4. TypeOK'
  BY <1>1, <1>2, <1>3 DEF IInv, TypeOK
<1>5. \A t \in Sessions : Serving(t)' <=> Serving(t)
  BY <1>1 DEF Serving
<1>6. \A t \in Sessions : SessionInv(t)'
  <2> SUFFICES ASSUME NEW t \in Sessions  PROVE SessionInv(t)'
    OBVIOUS
  <2>1. CASE t = s
    <3>1. Cardinality(issued'[s]) # job[s].number => Cardinality(issued'[s]) < job[s].number
      BY Calls
    <3> QED
      BY <1>1, <2>1, <3>1 DEF IInv, SessionInv, Serving
  <2>2. CASE t # s
    BY <1>1, <2>2 DEF IInv, SessionInv, Serving
  <2> QED
    BY <2>1, <2>2
<1>7. Backed'
  BY DEF IInv, Backed
<1> QED
  BY <1>1, <1>4, <1>5, <1>6, <1>7

(* A card is bound that nobody held and that nobody was given.             *)
LEMMA Binding ==
  ASSUME IInv, NEW i \in Ids, NEW o \in Orders, cards[i].order = None, orders[o] # None,
         cards' = [cards EXCEPT ![i].order = o], UNCHANGED <<answers, orders, job>>
  PROVE  /\ cards' \in Seq(Card) /\ Len(cards') = Len(cards)
         /\ \A p \in Orders \ {o} : Bound(p)' = Bound(p)
         /\ Bound(o)' = Bound(o) \cup {i}
         /\ \A t \in Sessions : i \notin issued[t] /\ issued[t] \subseteq Bound(job[t].order)'
         /\ \A n \in 1..Len(answers) : i \notin answers[n].cards
         /\ HandedOnce'
         /\ BoundToOrders'
<1>1. /\ cards' \in Seq(Card) /\ Len(cards') = Len(cards)
      /\ cards'[i].order = o
      /\ \A j \in Ids \ {i} : cards'[j] = cards[j]
  <2>1. cards \in Seq(Card) /\ i \in 1..Len(cards)
    BY DEF IInv, TypeOK, Ids
  <2>2. cards[i] \in Card
    BY <2>1
  <2> DEFINE card == [cards[i] EXCEPT !.order = o]
  <2>3. card \in Card /\ card.order = o
    BY <2>2 DEF Card
  <2>4. cards' = [cards EXCEPT ![i] = card]
    OBVIOUS
  <2> HIDE DEF card
  <2> QED
    BY <2>1, <2>3, <2>4 DEF Ids
<1>2. Ids' = Ids
  BY <1>1 DEF Ids
<1>3. /\ \A p \in Orders \ {o} : Bound(p)' = Bound(p)
      /\ Bound(o)' = Bound(o) \cup {i}
  BY <1>1, <1>2 DEF Bound
<1>4. \A p \in Orders : i \notin Bound(p) /\ Bound(p) \subseteq Bound(p)'
  BY <1>3 DEF Bound
<1>5. \A t \in Sessions : i \notin issued[t] /\ issued[t] \subseteq Bound(job[t].order)'
  <2> SUFFICES ASSUME NEW t \in Sessions
               PROVE  i \notin issued[t] /\ issued[t] \subseteq Bound(job[t].order)'
    OBVIOUS
  <2>1. CASE Serving(t)
    <3>1. job[t].order \in Orders /\ issued[t] \subseteq Bound(job[t].order)
      BY <2>1 DEF IInv, SessionInv
    <3> QED
      BY <1>4, <3>1
  <2>2. CASE ~Serving(t)
    <3>1. issued[t] = {}
      BY <2>2 DEF IInv, SessionInv
    <3> QED
      BY <3>1
  <2> QED
    BY <2>1, <2>2
<1>6. \A n \in 1..Len(answers) : answers[n].order \in Orders
  BY Answers
<1>7. \A n \in 1..Len(answers) : answers[n].cards \subseteq Bound(answers[n].order)
  BY DEF IInv, Handed, HandedOnce
<1>8. \A n \in 1..Len(answers) : i \notin answers[n].cards
  BY <1>4, <1>6, <1>7
<1>9. HandedOnce'
  <2>1. \A n \in 1..Len(answers) : answers[n].cards \subseteq Bound(answers[n].order)'
    BY <1>4, <1>6, <1>7
  <2> QED
    BY <2>1 DEF IInv, Handed, HandedOnce
<1>10. BoundToOrders'
  BY <1>1, <1>2 DEF IInv, BoundToOrders
<1> QED
  BY <1>1, <1>3, <1>5, <1>8, <1>9, <1>10

LEMMA LockAndBindKeeps ==
  ASSUME IInv, NEW s \in Sessions, NEW i \in Ids, LockAndBind(s, i)
  PROVE  IInv'
<1> USE DEF LockAndBind
<1>0. PICK o \in Orders : o = job[s].order
  BY DEF IInv, SessionInv, Serving
<1>1. /\ orders[o] # None
      /\ orders[o].key = None => job[s].number = orders[o].number
      /\ Serving(s) /\ Cardinality(issued[s]) < job[s].number
  BY <1>0 DEF IInv, SessionInv, Serving
<1>2. /\ orders' = orders /\ answers' = answers /\ job' = job /\ faults' = faults
      /\ faults \in Nat
  BY DEF bounds, IInv
<1>3. CASE StillAvailable(i)
  <2>1. cards' = [cards EXCEPT ![i].order = o] /\ cards[i].order = None
    BY <1>0, <1>3 DEF StillAvailable
  <2>2. /\ issued' = [t \in Sessions |-> issued'[t]]
        /\ issued'[s] = issued[s] \cup {i}
        /\ \A t \in Sessions \ {s} : issued'[t] = issued[t]
    BY <1>3 DEF IInv
  <2>3. /\ cards' \in Seq(Card) /\ Len(cards') = Len(cards)
        /\ \A p \in Orders \ {o} : Bound(p)' = Bound(p)
        /\ Bound(o)' = Bound(o) \cup {i}
        /\ \A t \in Sessions : i \notin issued[t] /\ issued[t] \subseteq Bound(job[t].order)'
        /\ \A n \in 1..Len(answers) : i \notin answers[n].cards
        /\ HandedOnce'
        /\ BoundToOrders'
    BY <1>1, <1>2, <2>1, Binding
  <2>4. Cardinality(issued'[s]) = Cardinality(issued[s]) + 1
    BY <2>2, <2>3, Calls, FS_AddElement
  <2>5. Cardinality(issued'[s]) \in Nat /\ Cardinality(issued'[s]) <= job[s].number
    BY <1>1, <2>4, Calls
  <2>6. issued'[s] \subseteq Ids
    BY <2>2 DEF IInv, TypeOK
  <2>7. \A t \in Sessions : issued'[t] \subseteq Bound(job[t].order)'
    BY <1>0, <1>2, <2>2, <2>3 DEF Bound
  <2>8. /\ TypeOK'
        /\ page' = [t \in Sessions |-> page'[t]]
        /\ \A t \in Sessions : SessionInv(t)'
        /\ Backed'
        /\ \A t \in Sessions : Serving(t)' <=> Serving(t)
    BY <1>2, <2>2, <2>3, <2>5, <2>6, <2>7, NextCardKeeps
  <2>9. Handed'
    BY <1>2, <2>2, <2>3 DEF IInv, Handed
  <2>10. ASSUME Paid  PROVE Paid'
    <3> SUFFICES ASSUME NEW p \in Orders, orders[p] # None, orders[p].key = None
                 PROVE  /\ Cardinality(Bound(p)') <= orders[p].number
                        /\ \A t \in Sessions :
                             Serving(t) /\ job[t].order = p =>
                               /\ Bound(p)' = issued'[t]
                               /\ \A u \in Sessions \ {t} : ~(Serving(u) /\ job[u].order = p)
      BY <1>2, <2>8 DEF Paid
    <3>1. CASE p = o
      <4>1. Bound(o) = issued[s] /\ \A u \in Sessions \ {s} : ~(Serving(u) /\ job[u].order = o)
        BY <1>0, <1>1, <2>10, <3>1 DEF Paid
      <4>2. Bound(o)' = issued'[s]
        BY <2>2, <2>3, <4>1
      <4>3. Cardinality(Bound(o)') <= orders[o].number
        BY <1>1, <2>5, <3>1, <4>2
      <4>4. \A t \in Sessions : Serving(t) /\ job[t].order = p => t = s
        BY <3>1, <4>1
      <4>5. \A u \in Sessions \ {s} : ~(Serving(u) /\ job[u].order = p)
        BY <3>1, <4>1
      <4> QED
        BY <3>1, <4>2, <4>3, <4>4, <4>5
    <3>2. CASE p # o
      <4>1. Bound(p)' = Bound(p)
        BY <2>3, <3>2
      <4>2. \A t \in Sessions : job[t].order = p => issued'[t] = issued[t]
        BY <1>0, <2>2, <3>2
      <4> QED
        BY <2>10, <4>1, <4>2 DEF Paid
    <3> QED
      BY <3>1, <3>2
  <2> QED
    BY <1>2, <2>2, <2>3, <2>8, <2>9, <2>10 DEF IInv
<1>4. CASE ~StillAvailable(i)
  <2>1. cards' = cards /\ issued' = issued
    BY <1>4
  <2>2. /\ \A t \in Sessions : issued[t] \subseteq Bound(job[t].order)
        /\ cards \in Seq(Card) /\ issued[s] \subseteq Ids
        /\ issued = [t \in Sessions |-> issued[t]]
    BY DEF IInv, SessionInv, TypeOK
  <2>3. \A t \in Sessions : issued'[t] \subseteq Bound(job[t].order)'
    BY <1>2, <2>1, <2>2 DEF Bound, Ids
  <2>4. /\ TypeOK'
        /\ page' = [t \in Sessions |-> page'[t]]
        /\ \A t \in Sessions : SessionInv(t)'
        /\ Backed'
        /\ \A t \in Sessions : Serving(t)' <=> Serving(t)
    BY <1>2, <2>1, <2>2, <2>3, NextCardKeeps, Calls
  <2>5. Handed' /\ BoundToOrders' /\ (Paid => Paid')
    BY <1>2, <2>1, <2>4, CardsKept
  <2> QED
    BY <1>2, <2>1, <2>2, <2>4, <2>5 DEF IInv
<1> QED
  BY <1>3, <1>4

(* Here a card may be bound that the call does not know of.                *)
LEMMA LockAndBindErrorKeeps ==
  ASSUME IInv, NEW s \in Sessions, NEW i \in Ids, LockAndBindError(s, i)
  PROVE  IInv'
<1> USE DEF LockAndBindError
<1>0. PICK o \in Orders : o = job[s].order
  BY DEF IInv, SessionInv, Serving
<1>1. orders[o] # None
  BY <1>0 DEF IInv, SessionInv, Serving
<1>2. /\ orders' = orders /\ answers' = answers /\ job' = job /\ issued' = issued
      /\ faults' \in Nat \ {0}
  BY DEF IInv
<1>3. /\ cards' \in Seq(Card) /\ Len(cards') = Len(cards)
      /\ \A t \in Sessions : issued[t] \subseteq Bound(job[t].order)'
      /\ HandedOnce'
      /\ BoundToOrders'
  <2>1. CASE cards' = cards
    <3>1. \A t \in Sessions : issued[t] \subseteq Bound(job[t].order)'
      BY <1>2, <2>1 DEF IInv, SessionInv, Bound, Ids
    <3>2. HandedOnce' /\ BoundToOrders'
      BY <1>2, <2>1 DEF IInv, Handed, HandedOnce, BoundToOrders, Bound, Ids
    <3> QED
      BY <2>1, <3>1, <3>2 DEF IInv, TypeOK
  <2>2. CASE StillAvailable(i) /\ cards' = [cards EXCEPT ![i].order = o]
    BY <1>0, <1>1, <1>2, <2>2, Binding DEF StillAvailable
  <2> QED
    BY <1>0, <2>1, <2>2
<1>4. issued[s] \subseteq Ids /\ issued = [t \in Sessions |-> issued[t]]
  BY DEF IInv, TypeOK
<1>5. /\ TypeOK'
      /\ page' = [t \in Sessions |-> page'[t]]
      /\ \A t \in Sessions : SessionInv(t)'
      /\ Backed'
  BY <1>2, <1>3, <1>4, NextCardKeeps, Calls
<1>6. Handed'
  BY <1>2, <1>3 DEF IInv, Handed
<1> QED
  BY <1>2, <1>3, <1>4, <1>5, <1>6 DEF IInv

(* The cards go from the call to the answer.                               *)
LEMMA IssueCardsKeeps ==
  ASSUME IInv, NEW s \in Sessions, IssueCards(s)
  PROVE  IInv'
<1> USE DEF IssueCards, goods, bounds
<1>0. PICK answer :
        answer = [order |-> job[s].order, number |-> job[s].number, cards |-> issued[s]]
  OBVIOUS
<1>1. Return(s) /\ UNCHANGED <<cards, orders>>
  OBVIOUS
<1>2. /\ job[s].order \in Orders /\ job[s].number \in Quantities
      /\ issued[s] \subseteq Bound(job[s].order) /\ issued[s] \subseteq Ids
      /\ Cardinality(issued[s]) = job[s].number
  BY Calls DEF IInv, TypeOK, SessionInv, Serving, Complete, Remaining
<1>3. answers' = Append(answers, answer)
  BY <1>0
<1>4. answers' \in Seq([order : Orders, number : Quantities, cards : SUBSET Ids])
  BY <1>0, <1>2, <1>3 DEF IInv, TypeOK
<1>5. TypeOK'
  BY <1>4, ReturnTypes DEF IInv, TypeOK, Ids
<1>6. /\ Len(answers') = Len(answers) + 1 /\ Len(answers) \in Nat
      /\ answers'[Len(answers) + 1] = answer
      /\ \A n \in 1..Len(answers) : answers'[n] = answers[n]
  BY <1>3 DEF IInv, TypeOK
<1>7. /\ issued'[s] = {}
      /\ \A t \in Sessions \ {s} : issued'[t] = issued[t]
  BY <1>1 DEF Return, IInv
<1>8. \A p \in Orders : Bound(p)' = Bound(p)
  BY DEF Bound, Ids
<1>9. HandedOnce'
  <2>1. \A n \in 1..Len(answers) : answers[n].order \in Orders
    BY Answers
  <2>2. \A n \in 1..Len(answers) : answers[n].cards \cap issued[s] = {}
    BY DEF IInv, Handed
  <2> SUFFICES ASSUME NEW m \in 1..Len(answers')
               PROVE  /\ Cardinality(answers'[m].cards) = answers'[m].number
                      /\ answers'[m].cards \subseteq Bound(answers[m].order)'
                      /\ \A n \in 1..Len(answers') :
                           m # n => answers'[m].cards \cap answers'[n].cards = {}
    BY DEF HandedOnce, Bound, Ids
  <2>3. CASE m = Len(answers) + 1
    <3>1. answers'[m] = answer /\ Cardinality(answer.cards) = answer.number
      BY <1>0, <1>2, <1>6, <2>3
    <3>2. answer.cards \subseteq Bound(answers[m].order)'
      BY <1>0, <1>2, <3>1 DEF Bound, Ids
    <3>3. \A n \in 1..Len(answers') : m # n => answer.cards \cap answers'[n].cards = {}
      BY <1>0, <1>6, <2>2, <2>3
    <3> QED
      BY <3>1, <3>2, <3>3
  <2>4. CASE m # Len(answers) + 1
    <3>1. /\ m \in 1..Len(answers)
          /\ Cardinality(answers[m].cards) = answers[m].number
          /\ answers[m].cards \subseteq Bound(answers[m].order)
          /\ \A n \in 1..Len(answers) : m # n => answers[m].cards \cap answers[n].cards = {}
      BY <1>6, <2>4 DEF IInv, Handed, HandedOnce
    <3>2. answers[m].cards \cap answer.cards = {}
      BY <1>0, <2>2, <3>1
    <3>3. answers'[m] = answers[m] /\ answers'[m].cards \subseteq Bound(answers[m].order)'
      BY <1>6, <3>1 DEF Bound, Ids
    <3>4. \A n \in 1..Len(answers') :
            \/ n = Len(answers) + 1 /\ answers'[n] = answer
            \/ n \in 1..Len(answers) /\ answers'[n] = answers[n]
      BY <1>6
    <3> QED
      BY <3>1, <3>2, <3>3, <3>4
  <2> QED
    BY <2>3, <2>4
<1>10. Handed'
  <2>1. \A t, u \in Sessions : t # u => issued'[t] \cap issued'[u] = {}
    BY <1>7 DEF IInv, Handed
  <2>2. \A t \in Sessions : \A n \in 1..Len(answers') : answers'[n].cards \cap issued'[t] = {}
    <3> SUFFICES ASSUME NEW t \in Sessions, t # s, NEW n \in 1..Len(answers) + 1
                 PROVE  answers'[n].cards \cap issued[t] = {}
      BY <1>6, <1>7
    <3>1. CASE n = Len(answers) + 1
      BY <1>0, <1>6, <3>1 DEF IInv, Handed
    <3>2. CASE n # Len(answers) + 1
      <4>1. n \in 1..Len(answers)
        BY <1>6, <3>2
      <4> QED
        BY <1>6, <4>1 DEF IInv, Handed
    <3> QED
      BY <3>1, <3>2
  <2> QED
    BY <1>9, <2>1, <2>2 DEF Handed
<1>11. Backed'
  BY <1>1 DEF IInv, TypeOK, Backed, Return
<1> QED
  BY <1>1, <1>5, <1>10, <1>11, ReturnTypes, ReturnInv DEF IInv

(* New cards are available.                                                *)
LEMMA ImportCardsKeeps ==
  ASSUME IInv, NEW b \in Batches, ImportCards(b)
  PROVE  IInv'
<1> USE DEF ImportCards, loop, bounds
<1>1. NewCards(b) \in Seq(Card) /\ Len(NewCards(b)) = BatchSize
  BY DEF NewCards, FreshCard, Card
<1>2. \A n \in 1..BatchSize : NewCards(b)[n].order = None
  BY DEF NewCards, FreshCard
<1>3. /\ cards' \in Seq(Card) /\ Len(cards') = Len(cards) + BatchSize
      /\ Len(cards) \in Nat
      /\ \A i \in 1..Len(cards) : cards'[i] = cards[i]
      /\ \A i \in 1..Len(cards') : i > Len(cards) => cards'[i].order = None
  <2>1. cards \in Seq(Card) /\ cards' = cards \o NewCards(b)
    BY DEF IInv, TypeOK
  <2> DEFINE both == cards \o NewCards(b)
  <2>2. /\ both \in Seq(Card) /\ Len(both) = Len(cards) + BatchSize
        /\ \A i \in 1..Len(cards) + BatchSize :
             both[i] = IF i <= Len(cards) THEN cards[i] ELSE NewCards(b)[i - Len(cards)]
    <3> HIDE DEF ImportCards
    <3> QED
      BY <1>1, <2>1, ConcatProperties
  <2>3. cards' = both /\ Len(cards) \in Nat
    BY <2>1
  <2> HIDE DEF both, ImportCards
  <2>4. ASSUME NEW i \in 1..Len(cards'), i > Len(cards)  PROVE cards'[i].order = None
    <3>1. i - Len(cards) \in 1..BatchSize /\ ~(i <= Len(cards))
      BY <2>2, <2>3, <2>4
    <3>2. cards'[i] = NewCards(b)[i - Len(cards)]
      BY <2>2, <2>3, <3>1
    <3> QED
      BY <1>2, <3>1, <3>2
  <2>5. \A i \in 1..Len(cards) : cards'[i] = cards[i]
    BY <2>2, <2>3
  <2> QED
    BY <2>2, <2>3, <2>4, <2>5
<1>4. Ids \subseteq Ids'
  BY <1>3 DEF Ids
<1>5. \A o \in Orders : Bound(o)' = Bound(o)
  <2> SUFFICES ASSUME NEW o \in Orders, NEW i
               PROVE  i \in Bound(o)' <=> i \in Bound(o)
    OBVIOUS
  <2>1. CASE i \in Ids
    BY <1>3, <1>4, <2>1 DEF Bound, Ids
  <2>2. CASE i \notin Ids
    BY <1>3, <2>2 DEF Bound, Ids
  <2> QED
    BY <2>1, <2>2
<1>6. answers' \in Seq([order : Orders, number : Quantities, cards : SUBSET Ids'])
  <2> DEFINE Old == [order : Orders, number : Quantities, cards : SUBSET Ids]
  <2> DEFINE New == [order : Orders, number : Quantities, cards : SUBSET Ids']
  <2>1. Old \subseteq New
    BY <1>4
  <2>2. answers' \in Seq(Old)
    BY DEF IInv, TypeOK
  <2> HIDE DEF Old, New
  <2>3. answers' \in Seq(New)
    BY <2>1, <2>2, SeqMonotonic
  <2> QED
    BY <2>3 DEF New
<1>7. TypeOK'
  BY <1>3, <1>4, <1>6 DEF IInv, TypeOK
<1>8. \A s \in Sessions : SessionInv(s)'
  <2> SUFFICES ASSUME NEW s \in Sessions  PROVE SessionInv(s)'
    OBVIOUS
  <2>1. CASE Serving(s)
    BY <1>5, <2>1 DEF IInv, SessionInv, Serving
  <2>2. CASE ~Serving(s)
    BY <2>2 DEF IInv, SessionInv, Serving
  <2> QED
    BY <2>1, <2>2
<1>9. Handed'
  <2>1. \A n \in 1..Len(answers) : answers[n].order \in Orders
    BY Answers
  <2> QED
    BY <1>5, <2>1 DEF IInv, Handed, HandedOnce
<1>10. BoundToOrders'
  BY <1>3 DEF IInv, BoundToOrders, Ids
<1>11. faults' = 0 => Paid'
  BY <1>5 DEF IInv, Paid, Serving
<1>12. Backed'
  BY <1>3 DEF IInv, TypeOK, Backed
<1> QED
  BY <1>7, <1>8, <1>9, <1>10, <1>11, <1>12 DEF IInv

LEMMA NextInv == IInv /\ [Next]_vars => IInv'
<1> SUFFICES ASSUME IInv, [Next]_vars  PROVE IInv'
  OBVIOUS
<1>1. ASSUME NEW b \in Batches, ImportCards(b)  PROVE IInv'
  BY <1>1, ImportCardsKeeps
<1>2. ASSUME NEW s \in Sessions, FindBySN(s) \/ UpdateGoods(s)  PROVE IInv'
  BY <1>2, FindBySNKeeps, UpdateGoodsKeeps
<1>3. ASSUME NEW s \in Sessions, NEW k \in Keys \cup {None}, NEW n \in Quantities,
             ValidatePurchase(s, k, n)
      PROVE  IInv'
  BY <1>3, ValidatePurchaseKeeps
<1>4. ASSUME NEW s \in Sessions, FindByCustomerOrderID(s)  PROVE IInv'
  BY <1>4, FindByCustomerOrderIDKeeps
<1>5. ASSUME NEW s \in Sessions, NEW o \in Orders, CreateOrder(s, o)  PROVE IInv'
  BY <1>5, CreateOrderKeeps
<1>6. ASSUME NEW s \in Sessions, FetchAvailable(s)  PROVE IInv'
  BY <1>6, FetchAvailableKeeps
<1>7. ASSUME NEW s \in Sessions, NEW i \in Ids, LockAndBind(s, i) \/ LockAndBindError(s, i)
      PROVE  IInv'
  BY <1>7, LockAndBindKeeps, LockAndBindErrorKeeps
<1>8. ASSUME NEW s \in Sessions, IssueCards(s) \/ Shortage(s) \/ Fail(s)  PROVE IInv'
  BY <1>8, IssueCardsKeeps, FailKeeps
<1>9. CASE UNCHANGED vars
  <2> USE <1>9 DEF vars, goods, loop, bounds
  <2>1. TypeOK'
    BY DEF IInv, TypeOK, Ids
  <2>2. \A s \in Sessions : SessionInv(s)'
    BY DEF IInv, SessionInv, Serving, Bound, Ids
  <2>3. Handed' /\ BoundToOrders' /\ (Paid => Paid')
    BY CardsKept DEF Serving
  <2>4. Backed'
    BY DEF IInv, Backed
  <2> QED
    BY <2>1, <2>2, <2>3, <2>4 DEF IInv
<1> QED
  BY <1>1, <1>2, <1>3, <1>4, <1>5, <1>6, <1>7, <1>8, <1>9 DEF Next

LEMMA CardInvariant == Spec => []IInv
  BY InitInv, NextInv, PTL DEF Spec

(* Every variable stays in its domain, and a call never binds more cards   *)
(* than it was asked for.                                                  *)
THEOREM CardTypes == Spec => []TypeOK
<1>1. IInv => TypeOK
  BY DEF IInv
<1> QED
  BY <1>1, CardInvariant, PTL

(* No card is handed out twice, to whatever orders, and an answer has the  *)
(* cards that were asked for, all bound to its order.                      *)
THEOREM CardsAreHandedOnce == Spec => []HandedOnce
<1>1. IInv => HandedOnce
  BY DEF IInv, Handed
<1> QED
  BY <1>1, CardInvariant, PTL

(* Unless a statement failed half-way, an order without customer_order_id  *)
(* binds no more cards than it has paid for.                               *)
THEOREM CardsArePaid == Spec => []PaidInCards
<1>1. IInv => PaidInCards
  BY DEF IInv, Paid, PaidInCards
<1> QED
  BY <1>1, CardInvariant, PTL

(* However imports, repeated imports and edits of the goods row interleave *)
(* the row never promises more cards than were imported.                   *)
THEOREM StockHasCards == Spec => []StockIsBacked
<1>1. IInv => StockIsBacked
  BY DEF IInv, Backed, StockIsBacked
<1> QED
  BY <1>1, CardInvariant, PTL

-----------------------------------------------------------------------------
(* Cards are added at the end and keep their batch, and a card once bound  *)
(* stays with its order.                                                   *)
CardsStay ==
  \A i \in 1..Len(cards) :
    /\ i \in 1..Len(cards')
    /\ cards'[i].batch = cards[i].batch
    /\ cards[i].order # None => cards'[i] = cards[i]

(* An order's key and number of cards are never written again.             *)
OrdersStay == \A o \in Orders : orders[o] # None => orders'[o] = orders[o]

LEMMA ImportedCardsStay ==
  ASSUME IInv, NEW b \in Batches, ImportCards(b)
  PROVE  CardsStay
<1>1. cards \in Seq(Card) /\ cards' = cards \o NewCards(b)
  BY DEF ImportCards, IInv, TypeOK
<1>2. NewCards(b) \in Seq(Card)
  BY BatchSizeAssumption DEF NewCards, FreshCard, Card
<1> HIDE DEF NewCards
<1>3. /\ Len(cards') = Len(cards) + Len(NewCards(b))
      /\ \A i \in 1..Len(cards) : cards'[i] = cards[i]
      /\ Len(cards) \in Nat /\ Len(NewCards(b)) \in Nat
  BY <1>1, <1>2
<1> QED
  BY <1>3 DEF CardsStay

LEMMA BoundCardsStay ==
  ASSUME IInv, NEW i \in Ids, NEW o, cards[i].order = None,
         cards' = [cards EXCEPT ![i].order = o]
  PROVE  CardsStay
<1>1. cards \in Seq(Card)
  BY DEF IInv, TypeOK
<1>2. /\ Len(cards') = Len(cards)
      /\ \A j \in 1..Len(cards) : j # i => cards'[j] = cards[j]
      /\ cards'[i] = [cards[i] EXCEPT !.order = o]
  BY <1>1 DEF Ids
<1>3. cards'[i].batch = cards[i].batch
  <2>1. cards[i] \in Card
    BY <1>1 DEF Ids
  <2> QED
    BY <1>2, <2>1 DEF Card
<1> QED
  BY <1>2, <1>3 DEF CardsStay, Ids

(* Nothing a customer was given is taken back: every card an answer names  *)
(* is bound for good, imports delivered again only add cards, and no call, *)
(* failed or repeated, rewrites an order or an earlier answer.             *)
THEOREM NothingTakenBack ==
  Spec => [][/\ CardsStay
             /\ OrdersStay
             /\ \A n \in 1..Len(answers) : n \in 1..Len(answers') /\ answers'[n] = answers[n]]_vars
<1> DEFINE AnswersStay ==
      \A n \in 1..Len(answers) : n \in 1..Len(answers') /\ answers'[n] = answers[n]
<1>1. ASSUME IInv, Next  PROVE CardsStay
  <2>1. CASE UNCHANGED cards
    BY <2>1 DEF CardsStay
  <2>2. ASSUME NEW s \in Sessions, NEW i \in Ids, LockAndBind(s, i) \/ LockAndBindError(s, i)
        PROVE  CardsStay
    BY <1>1, <2>1, <2>2, BoundCardsStay DEF LockAndBind, LockAndBindError, StillAvailable
  <2> QED
    BY <1>1, <2>1, <2>2, ImportedCardsStay DEF Next, FindBySN, UpdateGoods,
       ValidatePurchase, FindByCustomerOrderID, CreateOrder, FetchAvailable,
       IssueCards, Shortage, Fail, goods
<1>2. ASSUME IInv, Next  PROVE OrdersStay
  <2>1. CASE UNCHANGED orders
    BY <2>1 DEF OrdersStay
  <2>2. ASSUME NEW s \in Sessions, NEW o \in Orders, CreateOrder(s, o)
        PROVE  OrdersStay
    <3>1. orders \in [Orders -> Order \cup {None}]
      BY <1>1, <1>2 DEF IInv, TypeOK
    <3> QED
      BY <2>2, <3>1 DEF CreateOrder, OrdersStay
  <2> QED
    BY <1>2, <2>1, <2>2 DEF Next, FindBySN, UpdateGoods, ImportCards,
       ValidatePurchase, FindByCustomerOrderID, FetchAvailable, LockAndBind,
       LockAndBindError, IssueCards, Shortage, Fail
<1>3. ASSUME IInv, Next  PROVE AnswersStay
  <2>1. CASE UNCHANGED answers
    BY <2>1
  <2>2. ASSUME NEW s \in Sessions, IssueCards(s)
        PROVE  AnswersStay
    <3> DEFINE Answer == [order : Orders, number : Quantities, cards : SUBSET Ids]
               a == [order |-> job[s].order, number |-> job[s].number, cards |-> issued[s]]
    <3>1. answers \in Seq(Answer)
      BY <1>3 DEF IInv, TypeOK
    <3>2. answers' = Append(answers, a)
      BY <2>2 DEF IssueCards
    <3> HIDE DEF Answer, a
    <3> QED
      BY <3>1, <3>2
  <2> QED
    BY <1>3, <2>1, <2>2 DEF Next, FindBySN, UpdateGoods, ImportCards,
       ValidatePurchase, FindByCustomerOrderID, CreateOrder, FetchAvailable,
       LockAndBind, LockAndBindError, Shortage, Fail
<1>4. IInv /\ [Next]_vars => [CardsStay /\ OrdersStay /\ AnswersStay]_vars
  BY <1>1, <1>2, <1>3
<1> QED
  BY <1>4, CardInvariant, PTL DEF Spec

-----------------------------------------------------------------------------
(* Numbers have a least element: of the intervals 1..n, none of which      *)
(* contains itself properly, one is minimal.                               *)
LEMMA Least ==
  ASSUME NEW S \in SUBSET Nat, S # {}
  PROVE  \E m \in S : \A k \in S : m <= k
<1> DEFINE T == {1..n : n \in S}
<1>1. T \subseteq FiniteSubsetsOf(Nat) /\ T # {}
  <2>1. \A n \in S : 1..n \in SUBSET Nat /\ IsFiniteSet(1..n)
    BY FS_Interval
  <2> QED BY <2>1 DEF FiniteSubsetsOf
<1> HIDE DEF T
<1>2. PICK x \in T : \A y \in T : ~ (<<y, x>> \in StrictSubsetOrdering(Nat))
  BY <1>1, FS_StrictSubsetOrderingWellFounded, WFMin
<1>3. PICK m \in S : x = 1..m
  BY DEF T
<1>4. ASSUME NEW k \in S, k < m  PROVE FALSE
  <2>1. 1..k \subseteq 1..m /\ m \in 1..m /\ m \notin 1..k
    BY <1>4
  <2>2. 1..k \in SUBSET Nat /\ 1..m \in SUBSET Nat /\ 1..k # 1..m
    BY <2>1
  <2>3. <<1..k, x>> \in StrictSubsetOrdering(Nat)
    BY <1>3, <2>1, <2>2 DEF StrictSubsetOrdering
  <2>4. 1..k \in T
    BY DEF T
  <2> QED BY <1>2, <2>3, <2>4
<1> QED
  BY <1>4

LEMMA Greatest ==
  ASSUME NEW n \in Nat, NEW S \in SUBSET (0..n), S # {}
  PROVE  \E m \in S : \A k \in S : k <= m
<1> DEFINE T == {n - k : k \in S}
<1>1. T \in SUBSET Nat /\ T # {}
  OBVIOUS
<1> HIDE DEF T
<1>2. PICK x \in T : \A y \in T : x <= y
  BY <1>1, Least
<1>3. PICK m \in S : x = n - m
  BY DEF T
<1>4. \A k \in S : n - k \in T
  BY DEF T
<1>5. \A k \in S : k <= m
  BY <1>2, <1>3, <1>4
<1> QED
  BY <1>5

LEMMA PageSize ==
  ASSUME NEW a \in Nat \ {0}, NEW b \in Nat
  PROVE  Max({a, b}) >= 1
<1>1. \E x \in {a, b} : \A y \in {a, b} : x >= y
  <2>1. CASE a >= b
    BY <2>1
  <2>2. CASE b >= a
    BY <2>2
  <2> QED BY <2>1, <2>2
<1>2. Max({a, b}) \in {a, b} /\ Max({a, b}) >= a
  BY <1>1 DEF Max
<1> QED BY <1>2

LEMMA AvailableCards ==
  ASSUME IInv
  PROVE  /\ Len(cards) \in Nat
         /\ Available \subseteq 1..Len(cards)
         /\ \A A \in SUBSET Available : IsFiniteSet(A) /\ Cardinality(A) \in Nat
<1>1. cards \in Seq(Card)
  BY DEF IInv, TypeOK
<1>2. Len(cards) \in Nat
  BY <1>1
<1>3. Available \subseteq 1..Len(cards)
  BY DEF Available, Ids
<1>4. IsFiniteSet(1..Len(cards))
  BY <1>2, FS_Interval
<1>5. ASSUME NEW A \in SUBSET Available
      PROVE  IsFiniteSet(A) /\ Cardinality(A) \in Nat
  <2>1. A \subseteq 1..Len(cards)
    BY <1>3
  <2> QED BY <1>4, <2>1, FS_Subset, FS_CardinalityType
<1> QED BY <1>2, <1>3, <1>5

(* The available cards are numbered from zero without a gap.               *)
LEMMA Ranked ==
  ASSUME IInv, NEW r \in Nat, r < Cardinality(Available)
  PROVE  \E i \in Available : Cardinality(Before(i)) = r
<1>1. PICK n \in Nat : n = Len(cards)
  BY AvailableCards
<1>2. Available \subseteq 1..n /\ IsFiniteSet(Available) /\ Cardinality(Available) \in Nat
  BY <1>1, AvailableCards
<1>3. ASSUME NEW A \in SUBSET Available
      PROVE  IsFiniteSet(A) /\ Cardinality(A) \in Nat
  BY AvailableCards
<1>4. \A i : Before(i) \in SUBSET Available
  BY DEF Before
<1>5. ASSUME NEW A \in SUBSET Available, A # {}
      PROVE  \E m \in A : \A k \in A : k <= m
  <2>1. A \in SUBSET (0..n)
    BY <1>2
  <2> QED BY <1>5, <2>1, Greatest
<1> DEFINE B == {i \in Available : Cardinality(Before(i)) >= r}
<1>6. B # {}
  <2>1. Available # {}
    BY <1>2, FS_EmptySet
  <2>2. PICK m \in Available : \A k \in Available : k <= m
    BY <1>5, <2>1
  <2>3. Before(m) = Available \ {m}
    <3>1. \A k \in Available : k < m <=> k # m
      BY <1>2, <2>2
    <3> QED BY <3>1 DEF Before
  <2>4. Cardinality(Before(m)) = Cardinality(Available) - 1
    BY <1>2, <2>2, <2>3, FS_RemoveElement
  <2> QED BY <1>2, <2>2, <2>4
<1>7. B \in SUBSET Nat
  <2>1. Available \subseteq Nat
    BY <1>2
  <2> QED BY <2>1
<1>8. PICK i \in B : \A k \in B : i <= k
  BY <1>6, <1>7, Least
<1>9. Cardinality(Before(i)) = r
  <2> SUFFICES ASSUME Cardinality(Before(i)) # r  PROVE FALSE
    OBVIOUS
  <2>1. Cardinality(Before(i)) \in Nat /\ Cardinality(Before(i)) > r
    BY <1>3, <1>4
  <2>2. Before(i) # {}
    BY <2>1, FS_EmptySet
  <2>3. PICK p \in Before(i) : \A k \in Before(i) : k <= p
    BY <1>4, <1>5, <2>2
  <2>4. p \in Available /\ p < i /\ i \in 1..n
    BY <1>2, <2>3 DEF Before
  <2>5. Before(p) = Before(i) \ {p}
    <3>1. \A k \in Available : k \in 1..n
      BY <1>2
    <3>2. \A k \in Available : k < p <=> k < i /\ k # p
      BY <2>3, <2>4, <3>1 DEF Before
    <3> QED BY <2>4, <3>2 DEF Before
  <2>6. Cardinality(Before(p)) = Cardinality(Before(i)) - 1
    BY <1>3, <1>4, <2>3, <2>5, FS_RemoveElement
  <2>7. p \in B
    BY <2>1, <2>4, <2>6
  <2> QED BY <1>2, <1>8, <2>4, <2>7
<1> QED
  BY <1>9

(* The comment at card/service.go:138 does not hold: a call may give up    *)
(* with cards left.  But it leaves no more than it has skipped by the      *)
(* offset of its pages, and none at all if it gives up at its first page;  *)
(* unless it has had all its rounds, three for each card asked for.        *)
THEOREM ShortageLeavesSkippedCards ==
  Spec => [][\A s \in Sessions : Shortage(s) =>
               \/ Cardinality(Available) <= offset[s]
               \/ attempts[s] >= 3 * job[s].number]_vars
<1>1. ASSUME IInv, NEW s \in Sessions, Shortage(s)
      PROVE  \/ Cardinality(Available) <= offset[s]
             \/ attempts[s] >= 3 * job[s].number
  <2>1. /\ offset[s] \in Nat /\ attempts[s] \in Nat /\ job[s].number \in Nat
        /\ Remaining(s) \in Nat \ {0}
    BY <1>1, Calls DEF IInv, TypeOK, Shortage, Complete, Remaining
  <2>2. CASE ~ Looping(s)
    BY <2>1, <2>2 DEF Looping
  <2>3. CASE PageOf(s) = {}
    <3> SUFFICES ASSUME ~ (Cardinality(Available) <= offset[s])  PROVE FALSE
      OBVIOUS
    <3>1. Cardinality(Available) \in Nat
      BY <1>1, AvailableCards
    <3>2. PICK i \in Available : Cardinality(Before(i)) = offset[s]
      BY <1>1, <2>1, <3>1, Ranked
    <3>3. FetchSize(s) \in Nat \ {0}
      BY <2>1, MinFetchAssumption, MaxOfTwo, PageSize DEF FetchSize
    <3>4. i \in PageOf(s)
      BY <2>1, <3>2, <3>3 DEF PageOf
    <3> QED BY <2>3, <3>4
  <2> QED BY <1>1, <2>2, <2>3 DEF Shortage
<1>2. IInv /\ [Next]_vars =>
        [\A s \in Sessions : Shortage(s) =>
           \/ Cardinality(Available) <= offset[s]
           \/ attempts[s] >= 3 * job[s].number]_vars
  BY <1>1
<1> QED
  BY <1>2, CardInvariant, PTL DEF Spec
=============================================================================
