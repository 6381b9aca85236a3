---------------------------- MODULE SupplierPages ----------------------------
(***************************************************************************)
(* The pages of the supplier portal, web/supplier: goods with an edit      *)
(* dialog, card batches with an import dialog, orders and account.         *)
(***************************************************************************)
EXTENDS Shell

CONSTANTS ProductNames, Prices \* what may be typed into the edit form

ASSUME ProductAssumption == ProductNames # {} /\ Prices # {}

SupplierRoutes == {"/goods", "/cards", "/orders", "/account"}
SupplierHome == "/goods"
SupplierMenu == {"/goods", "/cards", "/orders", "/account"}
-----------------------------------------------------------------------------
(* views/GoodsManage.vue; the first name and price stand for what a row    *)
(* starts with.                                                            *)
Products == 1..3
Statuses == {"online", "offline"}
Product == [name : ProductNames, price : Prices, status : Statuses]
FirstProducts ==
  [i \in Products |->
     [name |-> CHOOSE n \in ProductNames : TRUE, price |-> CHOOSE p \in Prices : TRUE,
      status |-> IF i = 3 THEN "offline" ELSE "online"]]
FreshGoods ==
  [products |-> FirstProducts, dialog |-> "closed", id |-> 0, form |-> None]

GoodsPage == At("supplier", "/goods")

(* The form is a copy of the row.                                          *)
HandleEdit(i) ==
  /\ GoodsPage
  /\ Click([OpenDialog EXCEPT !.id = i, !.form = view.products[i]])

RowTyped(product) == [view EXCEPT !.form = product, !.products[view.id] = product]
FormTyped(product) == [view EXCEPT !.form = product]
TypeProduct(product) ==
  /\ GoodsPage
  /\ DialogClicked
  /\ view' = FormTyped(product)
  /\ UNCHANGED <<place, box, timers, history>>
CloseEdit == GoodsPage /\ CloseDialog

SubmitEdit ==
  /\ GoodsPage
  /\ DialogClicked
  /\ view' = [view EXCEPT !.products[view.id] = view.form, !.dialog = "closing"]
  /\ UNCHANGED <<place, box, timers, history>>

Toggled(status) == IF status = "online" THEN "offline" ELSE "online"
HandleToggleStatus(i) ==
  GoodsPage /\ Click([view EXCEPT !.products[i].status = Toggled(@)])
-----------------------------------------------------------------------------
(* views/CardManage.vue; the form is the set of its fields that are filled *)
(* in.  What is imported does not get into the list of batches.            *)
ImportFields == {"product", "content"}
FreshImport == [dialog |-> "closed", form |-> {}]
ImportComplete(form) == form = ImportFields

CardsPage == At("supplier", "/cards")

HandleImport == CardsPage /\ Click(OpenDialog)
TypeImport(form) == CardsPage /\ TypeIn([view EXCEPT !.form = form])
CloseImport == CardsPage /\ CloseDialog

SubmitImport ==
  /\ CardsPage
  /\ ImportComplete(view.form)
  /\ Submit([view EXCEPT !.form = {}])
-----------------------------------------------------------------------------
(* views/OrderProcess.vue                                                  *)
OrderStatuses == {"pending", "processing", "completed"}
FreshOrders == [status |-> <<"pending", "pending", "processing", "completed">>]

SupplierOrders == At("supplier", "/orders")

(* A row has one control: the button to begin, the button to complete, or  *)
(* a remark that it is done.                                               *)
ProcessAlwaysShown(status) == TRUE
ProcessShown(status) == status = "pending"
CompleteShown(status) == status = "processing"

HandleProcess(i) ==
  /\ SupplierOrders
  /\ ProcessShown(view.status[i])
  /\ Click([view EXCEPT !.status[i] = "processing"])

HandleComplete(i) ==
  /\ SupplierOrders
  /\ CompleteShown(view.status[i])
  /\ Ask("complete", i)

CompleteConfirmed ==
  /\ Answered("complete")
  /\ view' = IF box.live THEN [view EXCEPT !.status[box.row] = "completed"] ELSE view
  /\ UNCHANGED <<place, timers, history>>
-----------------------------------------------------------------------------
(* views/Account.vue: applying for an amount to be paid out.               *)
Payouts == {None, 0, 1}
FreshWithdraw == [dialog |-> "closed", payout |-> None]

SupplierAccount == At("supplier", "/account")

HandleWithdraw == SupplierAccount /\ Click(OpenDialog)
TypeWithdraw(payout) == SupplierAccount /\ TypeIn([view EXCEPT !.payout = payout])
CloseWithdraw == SupplierAccount /\ CloseDialog

WithdrawValid(payout) == payout # None /\ payout > 0
SubmitWithdraw ==
  /\ SupplierAccount
  /\ WithdrawValid(view.payout)
  /\ Submit([view EXCEPT !.payout = None])
-----------------------------------------------------------------------------
SupplierFresh(path) ==
  CASE path = "/goods" -> FreshGoods
    [] path = "/cards" -> FreshImport
    [] path = "/orders" -> FreshOrders
    [] path = "/account" -> FreshWithdraw

SupplierView(path) ==
  CASE path = "/goods" -> [products : [Products -> Product], dialog : DialogStates,
                           id : Products \cup {0}, form : Product \cup {None}]
    [] path = "/cards" -> [dialog : DialogStates, form : SUBSET ImportFields]
    [] path = "/orders" -> [status : [1..4 -> OrderStatuses]]
    [] path = "/account" -> [dialog : DialogStates, payout : Payouts]

SupplierStep ==
  \/ \E i \in Products : HandleEdit(i) \/ HandleToggleStatus(i)
  \/ \E product \in Product : TypeProduct(product)
  \/ CloseEdit \/ SubmitEdit
  \/ \E form \in SUBSET ImportFields : TypeImport(form)
  \/ HandleImport \/ CloseImport \/ SubmitImport
  \/ \E i \in 1..4 : HandleProcess(i) \/ HandleComplete(i)
  \/ CompleteConfirmed
  \/ \E payout \in Payouts : TypeWithdraw(payout)
  \/ HandleWithdraw \/ CloseWithdraw \/ SubmitWithdraw
=============================================================================
