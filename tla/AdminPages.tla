----------------------------- MODULE AdminPages -----------------------------
(***************************************************************************)
(* The pages of the admin console, web/admin, behind the login: lists of   *)
(* goods, orders and users with a filter, the details of an order, and the *)
(* settings.  Who gets to them is AdminConsole's matter.                   *)
(***************************************************************************)
EXTENDS Shell

AdminPaths == {"/dashboard", "/goods", "/orders", "/users", "/settings"}
AdminHome == "/dashboard"
AdminMenu == {"/dashboard", "/goods", "/orders", "/users", "/settings"}
-----------------------------------------------------------------------------
(* views/GoodsManage.vue: something is searched for or nothing.            *)
Queries == {"", "some"}
SearchGoods(query) == At("admin", "/goods") /\ Click([view EXCEPT !.query = query])
-----------------------------------------------------------------------------
(* views/UserManage.vue                                                    *)
RoleOptions == {"", "admin", "supplier", "reseller", "user"}
FilterUsers(role) == At("admin", "/users") /\ Click([view EXCEPT !.role = role])
-----------------------------------------------------------------------------
(* views/OrderManage.vue: a list with a filter, and the details of one.    *)
OrderStates == <<"completed", "unsent", "completed", "refunded", "unpaid">>
StateOptions == {"", "unpaid", "unsent", "completed", "refunded"}
FreshList == [filter |-> "", dialog |-> "closed", current |-> None]

OrderList == At("admin", "/orders")

FilteredOrders(state) == {i \in DOMAIN OrderStates : state \in {"", OrderStates[i]}}
FilterOrders(state) == OrderList /\ Click([view EXCEPT !.filter = state])
ShowDetail(i) ==
  /\ OrderList
  /\ i \in FilteredOrders(view.filter)
  /\ Click([OpenDialog EXCEPT !.current = i])
CloseDetail == OrderList /\ CloseDialog
-----------------------------------------------------------------------------
(* views/Settings.vue; the form bounds the order timeout, but its field    *)
(* may be left empty.                                                      *)
Minutes == {None, 1, 30, 2000}
Unclamped(n) == n
Clamped(n) == IF n = None THEN None ELSE IF n < 5 THEN 5 ELSE IF n > 1440 THEN 1440 ELSE n
FreshSettings == [orderTimeout |-> 30, registration |-> TRUE, maintenance |-> FALSE]

SettingsPage == At("admin", "/settings")

EnterTimeout(n) == SettingsPage /\ Click([view EXCEPT !.orderTimeout = Clamped(n)])
SwitchRegistration == SettingsPage /\ Click([view EXCEPT !.registration = ~@])
SwitchMaintenance == SettingsPage /\ Click([view EXCEPT !.maintenance = ~@])
-----------------------------------------------------------------------------
AdminFresh(path) ==
  CASE path = "/dashboard" -> NoView
    [] path = "/goods" -> [query |-> ""]
    [] path = "/users" -> [role |-> ""]
    [] path = "/orders" -> FreshList
    [] path = "/settings" -> FreshSettings

AdminView(path) ==
  CASE path = "/dashboard" -> {NoView}
    [] path = "/goods" -> [query : Queries]
    [] path = "/users" -> [role : RoleOptions]
    [] path = "/orders" -> [filter : StateOptions, dialog : DialogStates,
                            current : DOMAIN OrderStates \cup {None}]
    [] path = "/settings" -> [orderTimeout : 5..1440 \cup {None},
                              registration : BOOLEAN, maintenance : BOOLEAN]

AdminStep ==
  \/ \E query \in Queries : SearchGoods(query)
  \/ \E role \in RoleOptions : FilterUsers(role)
  \/ \E state \in StateOptions : FilterOrders(state)
  \/ \E i \in DOMAIN OrderStates : ShowDetail(i)
  \/ CloseDetail
  \/ \E n \in Minutes : EnterTimeout(n)
  \/ SwitchRegistration \/ SwitchMaintenance
=============================================================================
