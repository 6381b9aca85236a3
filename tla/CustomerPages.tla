---------------------------- MODULE CustomerPages ----------------------------
(***************************************************************************)
(* The pages of the customer portal, web/customer: orders, API keys and    *)
(* account.  They keep their data themselves: generating a key and         *)
(* searching wait for a timer, everything else happens at once.            *)
(***************************************************************************)
EXTENDS Shell

CONSTANT MaxKeys \* bound: API keys on the page

CustomerRoutes == {"/orders", "/api-keys", "/account"}
CustomerHome == "/orders"
CustomerMenu == {"/orders", "/api-keys", "/account"}
-----------------------------------------------------------------------------
(* views/Orders.vue: the list shows all orders, whatever is searched for.  *)
OrderIds == {"", "some"}
StatusOptions == {"", "processing", "completed", "failed"}
EmptySearch == [orderId |-> "", status |-> ""]
FreshSearch == [search |-> EmptySearch, loading |-> FALSE]

OrdersPage == At("customer", "/orders")

TypeSearch(orderId, status) ==
  /\ OrdersPage
  /\ Click([view EXCEPT !.search = [orderId |-> orderId, status |-> status]])

(* The table that is loading keeps no click from the button: searches      *)
(* overlap, and the timer of the first ends the loading of all.            *)
HandleSearch ==
  /\ OrdersPage /\ ~Masked
  /\ live + orphans < MaxTimers
  /\ view' = [view EXCEPT !.loading = TRUE]
  /\ StartTimer
  /\ UNCHANGED <<place, box, history>>

SearchEnds ==
  /\ OrdersPage
  /\ TimerFires
  /\ view' = [view EXCEPT !.loading = FALSE]
  /\ UNCHANGED <<place, box, history>>

HandleReset == OrdersPage /\ Click([view EXCEPT !.search = EmptySearch])
-----------------------------------------------------------------------------
(* views/ApiKeys.vue                                                       *)
Key == [id : Nat \ {0}, status : {"active", "revoked"}]
FirstKey == [id |-> 1, status |-> "active"]
FreshKeys == [keys |-> <<FirstKey>>, loading |-> FALSE]

KeysPage == At("customer", "/api-keys")

(* The button turns while loading and takes no clicks then.                *)
GenerateAlways == TRUE
GenerateTakesClicks == ~view.loading

HandleGenerate ==
  /\ KeysPage
  /\ GenerateTakesClicks
  /\ Len(view.keys) + live < MaxKeys
  /\ live + orphans < MaxTimers
  /\ Ask("generate", None)

(* The page may have been left with the box on the screen.                 *)
GenerateConfirmed ==
  /\ Answered("generate")
  /\ \/ /\ box.live
        /\ view' = [view EXCEPT !.loading = TRUE]
        /\ StartTimer
     \/ /\ ~box.live
        /\ orphans' = orphans + 1
        /\ UNCHANGED <<view, live>>
  /\ UNCHANGED <<place, history>>

NewKey == [id |-> Len(view.keys) + 1, status |-> "active"]
StillTurning == [view EXCEPT !.keys = Append(@, NewKey)]
Generated == [view EXCEPT !.keys = Append(@, NewKey), !.loading = FALSE]
KeyGenerated ==
  /\ KeysPage
  /\ TimerFires
  /\ view' = Generated
  /\ UNCHANGED <<place, box, history>>

RevokeShown(key) == key.status = "active"
HandleRevoke(i) ==
  /\ KeysPage
  /\ i \in DOMAIN view.keys
  /\ RevokeShown(view.keys[i])
  /\ Ask("revoke", i)

RevokeConfirmed ==
  /\ Answered("revoke")
  /\ view' = IF box.live THEN [view EXCEPT !.keys[box.row].status = "revoked"] ELSE view
  /\ UNCHANGED <<place, timers, history>>
-----------------------------------------------------------------------------
(* views/Account.vue: applying for an amount to be paid in.  The balance   *)
(* and its records stay what they are.                                     *)
Amounts == {None, 0, 1}
FreshRecharge == [dialog |-> "closed", amount |-> None]
RechargeView == [dialog : DialogStates, amount : Amounts]

CustomerAccount == At("customer", "/account")

HandleRecharge == CustomerAccount /\ Click(OpenDialog)
TypeRecharge(amount) == CustomerAccount /\ TypeIn([view EXCEPT !.amount = amount])
CloseRecharge == CustomerAccount /\ CloseDialog

RechargeValid(amount) == amount # None /\ amount > 0
RechargeKept == view
RechargeEmptied == [view EXCEPT !.amount = None]
SubmitRecharge ==
  /\ CustomerAccount
  /\ RechargeValid(view.amount)
  /\ Submit(RechargeEmptied)
-----------------------------------------------------------------------------
CustomerFresh(path) ==
  CASE path = "/orders" -> FreshSearch
    [] path = "/api-keys" -> FreshKeys
    [] path = "/account" -> FreshRecharge

CustomerView(path) ==
  CASE path = "/orders" -> [search : [orderId : OrderIds, status : StatusOptions],
                            loading : BOOLEAN]
    [] path = "/api-keys" -> [keys : Seq(Key), loading : BOOLEAN]
    [] path = "/account" -> RechargeView

CustomerStep ==
  \/ \E orderId \in OrderIds, status \in StatusOptions : TypeSearch(orderId, status)
  \/ HandleSearch \/ SearchEnds \/ HandleReset
  \/ HandleGenerate \/ GenerateConfirmed \/ KeyGenerated
  \/ \E i \in 1..MaxKeys : HandleRevoke(i)
  \/ RevokeConfirmed
  \/ HandleRecharge \/ CloseRecharge \/ SubmitRecharge
  \/ \E amount \in Amounts : TypeRecharge(amount)
=============================================================================
