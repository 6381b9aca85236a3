--------------------------- MODULE WebPagesProofs ---------------------------
(***************************************************************************)
(* Theorems of WebPages, for any bounds, names and prices.                 *)
(*                                                                         *)
(* The argument: a dialog's form that has something in it was typed since  *)
(* the last submission, so its button cannot be used twice; a message box  *)
(* whose page is still shown covers that page, so that no second key is    *)
(* asked for; and a page that is loading has counted the timer that ends   *)
(* it.  What a step changes on a page that stays follows from that and     *)
(* from Steady: a box about an order covers it while it is in processing.  *)
(***************************************************************************)
EXTENDS WebPages, TLAPS

SearchView == [search : [orderId : OrderIds, status : StatusOptions], loading : BOOLEAN]
KeysView == [keys : Seq(Key), loading : BOOLEAN]
GoodsView == [products : [Products -> Product], dialog : DialogStates,
              id : Products \cup {0}, form : Product \cup {None}]
ImportView == [dialog : DialogStates, form : SUBSET ImportFields]
ProcessView == [status : [1..4 -> OrderStatuses]]
WithdrawView == [dialog : DialogStates, payout : Payouts]
ListView == [filter : StateOptions, dialog : DialogStates,
             current : DOMAIN OrderStates \cup {None}]
SettingsView == [orderTimeout : 5..1440 \cup {None},
                 registration : BOOLEAN, maintenance : BOOLEAN]

AdminDashboard == At("admin", "/dashboard")
AdminGoods == At("admin", "/goods")
AdminUsers == At("admin", "/users")

(* Something has been typed in that no submission has used up.             *)
Unspent == submitted < typed

(* The state of the page shown.                                            *)
CustomerInv ==
  /\ OrdersPage => view \in SearchView /\ (view.loading => live > 0)
  /\ KeysPage => view \in KeysView /\ live = IF view.loading THEN 1 ELSE 0
  /\ CustomerAccount => view \in RechargeView /\ (view.amount # None => Unspent)
SupplierInv ==
  /\ GoodsPage =>
       /\ view \in GoodsView
       /\ view.dialog # "closed" => view.id \in Products /\ view.form \in Product
  /\ CardsPage => view \in ImportView /\ (view.form # {} => Unspent)
  /\ SupplierOrders => view \in ProcessView
  /\ SupplierAccount => view \in WithdrawView /\ (view.payout # None => Unspent)
AdminInv ==
  /\ AdminDashboard => view = NoView
  /\ AdminGoods => view \in [query : Queries]
  /\ AdminUsers => view \in [role : RoleOptions]
  /\ OrderList => view \in ListView
  /\ SettingsPage => view \in SettingsView
PageInv ==
  /\ page = None => view = NoView
  /\ CustomerInv /\ SupplierInv /\ AdminInv

(* The page of a message box that is still shown waits for the answer.     *)
BoxInv ==
  /\ box \in Boxes \cup {None}
  /\ box # None /\ box.kind = "generate" => MaxTimers > 0
  /\ box # None /\ box.live =>
       \/ box.kind = "generate" /\ KeysPage /\ ~view.loading
       \/ box.kind = "revoke" /\ KeysPage /\ box.row \in DOMAIN view.keys
       \/ box.kind = "complete" /\ SupplierOrders /\ box.row \in 1..4

ShellInv ==
  /\ site \in Sites
  /\ page \in Routes[site] \cup {None}
  /\ heading \in Routes[site] \cup {None}
  /\ visited \subseteq Routes[site]
  /\ live \in 0..MaxTimers
  /\ orphans \in Nat
  /\ typed \in 0..MaxTyped
  /\ submitted \in Nat
  /\ submitted <= typed

IInv == ShellInv /\ PageInv /\ BoxInv

USE ShellAssumption, NoneAssumption DEF Sites, At
-----------------------------------------------------------------------------
(* The pages are told apart by their site and path: what a page asks of    *)
(* its state is all that is asked.                                         *)
LEMMA PagesApart ==
  ASSUME page' # None
  PROVE  /\ site' = "customer" /\ CustomerInv' => PageInv'
         /\ site' = "supplier" /\ SupplierInv' => PageInv'
         /\ site' = "admin" /\ AdminInv' => PageInv'
  BY DEF PageInv, CustomerInv, SupplierInv, AdminInv, OrdersPage, KeysPage,
     CustomerAccount, GoodsPage, CardsPage, SupplierOrders, SupplierAccount,
     AdminDashboard, AdminGoods, AdminUsers, OrderList, SettingsPage

LEMMA RoutesOf ==
  /\ Routes["customer"] = CustomerRoutes /\ Home["customer"] = CustomerHome
  /\ Routes["supplier"] = SupplierRoutes /\ Home["supplier"] = SupplierHome
  /\ Routes["admin"] = AdminPaths /\ Home["admin"] = AdminHome
  BY DEF Routes, Home

LEMMA InitInv == Init => IInv
<1> SUFFICES ASSUME Init  PROVE IInv
  OBVIOUS
<1>1. ShellInv
  BY DEF Init, ShellInv
<1>2. PageInv
  BY RoutesOf DEF Init, PageInv, CustomerInv, SupplierInv, AdminInv, OrdersPage,
     KeysPage, CustomerAccount, GoodsPage, CardsPage, SupplierOrders,
     SupplierAccount, AdminDashboard, AdminGoods, AdminUsers, OrderList,
     SettingsPage, CustomerRoutes, SupplierRoutes, AdminPaths
<1>3. BoxInv
  BY DEF Init, BoxInv
<1> QED
  BY <1>1, <1>2, <1>3 DEF IInv

-----------------------------------------------------------------------------
(* The state every page starts in.                                         *)
LEMMA FreshCustomer ==
  ASSUME site' = "customer", page' \in CustomerRoutes, view' = CustomerFresh(page'),
         live' = 0
  PROVE  PageInv'
<1>1. FreshSearch \in SearchView /\ ~FreshSearch.loading
  BY DEF FreshSearch, SearchView, EmptySearch, OrderIds, StatusOptions
<1>2. FreshKeys \in KeysView /\ ~FreshKeys.loading
  BY DEF FreshKeys, KeysView, FirstKey, Key
<1>3. FreshRecharge \in RechargeView /\ FreshRecharge.amount = None
  BY DEF FreshRecharge, RechargeView, DialogStates, Amounts
<1>4. CustomerInv'
  BY <1>1, <1>2, <1>3 DEF CustomerInv, CustomerRoutes, CustomerFresh, OrdersPage,
     KeysPage, CustomerAccount
<1> QED
  BY <1>4, PagesApart DEF CustomerRoutes

LEMMA FreshSupplier ==
  ASSUME site' = "supplier", page' \in SupplierRoutes, view' = SupplierFresh(page')
  PROVE  PageInv'
<1>1. FreshGoods \in GoodsView /\ FreshGoods.dialog = "closed"
  <2>1. \A i \in Products : FirstProducts[i] \in Product
    BY ProductAssumption DEF FirstProducts, Product, Statuses
  <2>2. FirstProducts \in [Products -> Product]
    BY <2>1 DEF FirstProducts
  <2> QED
    BY <2>2 DEF FreshGoods, GoodsView, DialogStates
<1>2. FreshImport \in ImportView /\ FreshImport.form = {}
  BY DEF FreshImport, ImportView, DialogStates
<1>3. FreshOrders \in ProcessView
  BY DEF FreshOrders, ProcessView, OrderStatuses
<1>4. FreshWithdraw \in WithdrawView /\ FreshWithdraw.payout = None
  BY DEF FreshWithdraw, WithdrawView, DialogStates, Payouts
<1>5. SupplierInv'
  BY <1>1, <1>2, <1>3, <1>4 DEF SupplierInv, SupplierRoutes, SupplierFresh, GoodsPage,
     CardsPage, SupplierOrders, SupplierAccount
<1> QED
  BY <1>5, PagesApart DEF SupplierRoutes

LEMMA FreshAdmin ==
  ASSUME site' = "admin", page' \in AdminPaths, view' = AdminFresh(page')
  PROVE  PageInv'
<1>1. FreshList \in ListView
  BY DEF FreshList, ListView, DialogStates, StateOptions
<1>2. FreshSettings \in SettingsView
  BY DEF FreshSettings, SettingsView
<1>3. [query |-> ""] \in [query : Queries] /\ [role |-> ""] \in [role : RoleOptions]
  BY DEF Queries, RoleOptions
<1>4. AdminInv'
  BY <1>1, <1>2, <1>3 DEF AdminInv, AdminPaths, AdminFresh, AdminDashboard, AdminGoods,
     AdminUsers, OrderList, SettingsPage
<1> QED
  BY <1>4, PagesApart DEF AdminPaths

(* A box that is left on the screen when its page goes.                    *)
LEMMA BoxLeft ==
  ASSUME BoxInv, box' = IF box = None THEN None ELSE [box EXCEPT !.live = FALSE]
  PROVE  BoxInv'
<1>1. CASE box = None
  BY <1>1 DEF BoxInv
<1>2. CASE box # None
  <2>1. box \in Boxes /\ box' = [box EXCEPT !.live = FALSE]
    BY <1>2 DEF BoxInv
  <2>2. box' \in Boxes /\ ~box'.live /\ box'.kind = box.kind
    BY <2>1 DEF Boxes
  <2> QED
    BY <1>2, <2>2 DEF BoxInv
<1> QED
  BY <1>1, <1>2

LEMMA MountKept ==
  ASSUME IInv, NEW path \in Routes[site], Mount(path, Fresh(path))
  PROVE  IInv'
<1>1. BoxInv'
  BY BoxLeft DEF Mount, IInv
<1>2. page' = path /\ site' = site /\ view' = Fresh(path) /\ live' = 0 /\ path # None
  BY RoutesOf DEF Mount, IInv, ShellInv
<1>3. PageInv'
  BY <1>2, RoutesOf, FreshCustomer, FreshSupplier, FreshAdmin DEF Fresh, IInv, ShellInv
<1>4. ShellInv'
  BY <1>2 DEF Mount, history, IInv, ShellInv
<1> QED
  BY <1>1, <1>3, <1>4 DEF IInv

LEMMA StartKept ==
  ASSUME IInv, NEW path \in Routes[site] \cup {"/"}, Start(path)
  PROVE  IInv'
<1>1. Home[site] \in Routes[site]
  BY RoutesOf DEF IInv, ShellInv, CustomerHome, SupplierHome, AdminHome, CustomerRoutes,
     SupplierRoutes, AdminPaths
<1> DEFINE p == IF path = "/" THEN Home[site] ELSE path
<1>2. p \in Routes[site] /\ Mount(p, Fresh(p))
  BY <1>1 DEF Start
<1> QED
  BY <1>2, MountKept

-----------------------------------------------------------------------------
(* Steps that leave the page and its state alone.                          *)
LEMMA PageUntouched ==
  ASSUME PageInv, UNCHANGED <<site, page, view, live, typed, submitted>>
  PROVE  PageInv'
  BY DEF PageInv, CustomerInv, SupplierInv, AdminInv, OrdersPage, KeysPage,
     CustomerAccount, GoodsPage, CardsPage, SupplierOrders, SupplierAccount,
     AdminDashboard, AdminGoods, AdminUsers, OrderList, SettingsPage, Unspent

LEMMA BoxUntouched ==
  ASSUME BoxInv, UNCHANGED <<site, page, view, box>>
  PROVE  BoxInv'
  BY DEF BoxInv, KeysPage, SupplierOrders

LEMMA PushKept ==
  ASSUME IInv, NEW path \in Routes[site], Push(path)
  PROVE  IInv'
<1>1. ShellInv'
  BY DEF Push, timers, history, IInv, ShellInv
<1> QED
  BY <1>1, PageUntouched, BoxUntouched DEF Push, timers, history, IInv

LEMMA ReloadKept ==
  ASSUME IInv, Reload
  PROVE  IInv'
<1>1. ShellInv'
  BY DEF Reload, history, IInv, ShellInv
<1>2. PageInv'
  BY RoutesOf DEF Reload, PageInv, CustomerInv, SupplierInv, AdminInv, OrdersPage,
     KeysPage, CustomerAccount, GoodsPage, CardsPage, SupplierOrders,
     SupplierAccount, AdminDashboard, AdminGoods, AdminUsers, OrderList,
     SettingsPage, CustomerRoutes, SupplierRoutes, AdminPaths
<1>3. BoxInv'
  BY DEF Reload, BoxInv
<1> QED
  BY <1>1, <1>2, <1>3 DEF IInv

LEMMA CancelBoxKept ==
  ASSUME IInv, CancelBox
  PROVE  IInv'
<1>1. ShellInv'
  BY DEF CancelBox, place, timers, history, IInv, ShellInv
<1>2. BoxInv'
  BY DEF CancelBox, BoxInv
<1> QED
  BY <1>1, <1>2, PageUntouched DEF CancelBox, place, timers, history, IInv

LEMMA OrphanFiresKept ==
  ASSUME IInv, OrphanFires
  PROVE  IInv'
<1>1. ShellInv'
  BY DEF OrphanFires, place, history, IInv, ShellInv
<1> QED
  BY <1>1, PageUntouched, BoxUntouched DEF OrphanFires, place, history, IInv

-----------------------------------------------------------------------------
(* The ways a page changes its state keep what the shell knows.            *)
LEMMA ClickKept ==
  ASSUME IInv, NEW v, Click(v), PageInv'
  PROVE  IInv'
<1>1. ShellInv'
  BY DEF Click, place, timers, history, IInv, ShellInv
<1>2. BoxInv'
  BY DEF Click, Masked, BoxInv, IInv
<1> QED
  BY <1>1, <1>2 DEF IInv

(* A dialog is closed or edited.                                           *)
LEMMA DialogStepKept ==
  ASSUME IInv, box = None, UNCHANGED <<place, box, timers, history>>, PageInv'
  PROVE  IInv'
<1>1. ShellInv'
  BY DEF place, timers, history, IInv, ShellInv
<1>2. BoxInv'
  BY DEF BoxInv
<1> QED
  BY <1>1, <1>2 DEF IInv

LEMMA TypeInKept ==
  ASSUME IInv, NEW v, TypeIn(v), PageInv'
  PROVE  IInv'
<1>1. ShellInv'
  BY DEF TypeIn, place, timers, IInv, ShellInv
<1>2. BoxInv'
  BY DEF TypeIn, DialogClicked, BoxInv
<1> QED
  BY <1>1, <1>2 DEF IInv

LEMMA SubmitKept ==
  ASSUME IInv, NEW v, Submit(v), Unspent, PageInv'
  PROVE  IInv'
<1>1. ShellInv'
  BY DEF Submit, place, timers, IInv, ShellInv, Unspent
<1>2. BoxInv'
  BY DEF Submit, DialogClicked, BoxInv
<1> QED
  BY <1>1, <1>2 DEF IInv

LEMMA AskKept ==
  ASSUME IInv, NEW kind, NEW row, Ask(kind, row),
         \/ kind = "generate" /\ row = None /\ KeysPage /\ ~view.loading /\ MaxTimers > 0
         \/ kind = "revoke" /\ KeysPage /\ row \in DOMAIN view.keys /\ row \in Nat
         \/ kind = "complete" /\ SupplierOrders /\ row \in 1..4
  PROVE  IInv'
<1>1. ShellInv'
  BY DEF Ask, place, timers, history, IInv, ShellInv
<1>2. box' = [kind |-> kind, row |-> row, live |-> TRUE]
  BY DEF Ask
<1>3. box' \in Boxes /\ box'.kind = kind /\ box'.row = row /\ box'.live
  BY <1>2 DEF Boxes
<1>4. BoxInv'
  BY <1>3 DEF Ask, place, BoxInv, KeysPage, SupplierOrders
<1> QED
  BY <1>1, <1>4, PageUntouched DEF Ask, place, timers, history, IInv

(* A page that stays, and all that its new state has to satisfy.           *)
LEMMA SearchShown ==
  ASSUME OrdersPage, UNCHANGED place,
         view' \in SearchView, view'.loading => live' > 0
  PROVE  PageInv'
  BY PagesApart DEF place, CustomerInv, CustomerRoutes, OrdersPage, KeysPage, CustomerAccount

LEMMA KeysShown ==
  ASSUME KeysPage, UNCHANGED place, view' \in KeysView,
         live' = IF view'.loading THEN 1 ELSE 0
  PROVE  PageInv'
  BY PagesApart DEF place, CustomerInv, CustomerRoutes, OrdersPage, KeysPage, CustomerAccount

LEMMA RechargeShown ==
  ASSUME CustomerAccount, UNCHANGED place,
         view' \in RechargeView, view'.amount # None => Unspent'
  PROVE  PageInv'
  BY PagesApart DEF place, CustomerInv, CustomerRoutes, OrdersPage, KeysPage, CustomerAccount

LEMMA GoodsShown ==
  ASSUME GoodsPage, UNCHANGED place, view' \in GoodsView,
         view'.dialog # "closed" => view'.id \in Products /\ view'.form \in Product
  PROVE  PageInv'
  BY PagesApart DEF place, SupplierInv, SupplierRoutes, GoodsPage, CardsPage,
     SupplierOrders, SupplierAccount

LEMMA ImportShown ==
  ASSUME CardsPage, UNCHANGED place,
         view' \in ImportView, view'.form # {} => Unspent'
  PROVE  PageInv'
  BY PagesApart DEF place, SupplierInv, SupplierRoutes, GoodsPage, CardsPage,
     SupplierOrders, SupplierAccount

LEMMA OrdersShown ==
  ASSUME SupplierOrders, UNCHANGED place, view' \in ProcessView
  PROVE  PageInv'
  BY PagesApart DEF place, SupplierInv, SupplierRoutes, GoodsPage, CardsPage,
     SupplierOrders, SupplierAccount

LEMMA WithdrawShown ==
  ASSUME SupplierAccount, UNCHANGED place,
         view' \in WithdrawView, view'.payout # None => Unspent'
  PROVE  PageInv'
  BY PagesApart DEF place, SupplierInv, SupplierRoutes, GoodsPage, CardsPage,
     SupplierOrders, SupplierAccount

LEMMA QueryShown ==
  ASSUME AdminGoods, UNCHANGED place, view' \in [query : Queries]
  PROVE  PageInv'
  BY PagesApart DEF place, AdminInv, AdminPaths, AdminDashboard, AdminGoods, AdminUsers,
     OrderList, SettingsPage

LEMMA RoleShown ==
  ASSUME AdminUsers, UNCHANGED place, view' \in [role : RoleOptions]
  PROVE  PageInv'
  BY PagesApart DEF place, AdminInv, AdminPaths, AdminDashboard, AdminGoods, AdminUsers,
     OrderList, SettingsPage

LEMMA ListShown ==
  ASSUME OrderList, UNCHANGED place, view' \in ListView
  PROVE  PageInv'
  BY PagesApart DEF place, AdminInv, AdminPaths, AdminDashboard, AdminGoods, AdminUsers,
     OrderList, SettingsPage

LEMMA SettingsShown ==
  ASSUME SettingsPage, UNCHANGED place, view' \in SettingsView
  PROVE  PageInv'
  BY PagesApart DEF place, AdminInv, AdminPaths, AdminDashboard, AdminGoods, AdminUsers,
     OrderList, SettingsPage

(* A dialog that has faded; its form is still there.                       *)
LEMMA DialogFadesKept ==
  ASSUME IInv, DialogFades
  PROVE  IInv'
<1>1. ShellInv'
  BY DEF DialogFades, place, timers, history, IInv, ShellInv
<1>2. /\ view' = [view EXCEPT !.dialog = "closed"]
      /\ UNCHANGED <<place, box, live, typed, submitted>>
      /\ "dialog" \in DOMAIN view
  BY DEF DialogFades, HasDialog, timers, history
<1>3. ~OrdersPage /\ ~KeysPage /\ ~SupplierOrders
  BY <1>2 DEF IInv, PageInv, CustomerInv, SupplierInv, SearchView, KeysView, ProcessView
<1>4. BoxInv'
  BY <1>2, <1>3 DEF IInv, BoxInv
<1>5. CASE CustomerAccount
  <2>1. view' \in RechargeView /\ view'.amount = view.amount
    BY <1>2, <1>5 DEF IInv, PageInv, CustomerInv, RechargeView, DialogStates
  <2> QED
    BY <1>1, <1>2, <1>4, <1>5, <2>1, RechargeShown DEF IInv, PageInv, CustomerInv, Unspent
<1>6. CASE GoodsPage
  <2>1. view' \in GoodsView /\ view'.dialog = "closed"
    BY <1>2, <1>6 DEF IInv, PageInv, SupplierInv, GoodsView, DialogStates
  <2> QED
    BY <1>1, <1>2, <1>4, <1>6, <2>1, GoodsShown DEF IInv, PageInv, SupplierInv, Unspent
<1>7. CASE CardsPage
  <2>1. view' \in ImportView /\ view'.form = view.form
    BY <1>2, <1>7 DEF IInv, PageInv, SupplierInv, ImportView, DialogStates
  <2> QED
    BY <1>1, <1>2, <1>4, <1>7, <2>1, ImportShown DEF IInv, PageInv, SupplierInv, Unspent
<1>8. CASE SupplierAccount
  <2>1. view' \in WithdrawView /\ view'.payout = view.payout
    BY <1>2, <1>8 DEF IInv, PageInv, SupplierInv, WithdrawView, DialogStates
  <2> QED
    BY <1>1, <1>2, <1>4, <1>8, <2>1, WithdrawShown DEF IInv, PageInv, SupplierInv, Unspent
<1>9. CASE OrderList
  <2>1. view' \in ListView
    BY <1>2, <1>9 DEF IInv, PageInv, AdminInv, ListView, DialogStates
  <2> QED
    BY <1>1, <1>2, <1>4, <1>9, <2>1, ListShown DEF IInv, PageInv, AdminInv, Unspent
<1>10. CustomerAccount \/ GoodsPage \/ CardsPage \/ SupplierAccount \/ OrderList
  <2>1. page # None
    BY <1>2 DEF IInv, PageInv, NoView
  <2>2. ~AdminDashboard /\ ~AdminGoods /\ ~AdminUsers /\ ~SettingsPage
    BY <1>2 DEF IInv, PageInv, AdminInv, NoView, SettingsView
  <2> QED
    BY <1>3, <2>1, <2>2, RoutesOf DEF IInv, ShellInv, OrdersPage, KeysPage,
       CustomerAccount, GoodsPage, CardsPage, SupplierOrders, SupplierAccount,
       AdminDashboard, AdminGoods, AdminUsers, OrderList, SettingsPage,
       CustomerRoutes, SupplierRoutes, AdminPaths
<1> QED
  BY <1>5, <1>6, <1>7, <1>8, <1>9, <1>10

-----------------------------------------------------------------------------
(* The customer portal.                                                    *)
LEMMA OrdersKept ==
  ASSUME IInv,
         \/ \E orderId \in OrderIds, status \in StatusOptions : TypeSearch(orderId, status)
         \/ HandleSearch \/ SearchEnds \/ HandleReset
  PROVE  IInv'
<1> OrdersPage /\ view \in SearchView /\ (view.loading => live > 0)
  BY DEF TypeSearch, HandleSearch, SearchEnds, HandleReset, IInv, PageInv, CustomerInv
<1>1. ASSUME NEW orderId \in OrderIds, NEW status \in StatusOptions,
             TypeSearch(orderId, status)
      PROVE  IInv'
  <2> DEFINE v == [view EXCEPT !.search = [orderId |-> orderId, status |-> status]]
  <2>1. Click(v) /\ v \in SearchView /\ v.loading = view.loading
    BY <1>1 DEF TypeSearch, SearchView
  <2> HIDE DEF v
  <2> QED
    BY <2>1, SearchShown, ClickKept DEF Click, timers
<1>2. CASE HandleReset
  <2> DEFINE v == [view EXCEPT !.search = EmptySearch]
  <2>1. Click(v) /\ v \in SearchView /\ v.loading = view.loading
    BY <1>2 DEF HandleReset, SearchView, EmptySearch, OrderIds, StatusOptions
  <2> HIDE DEF v
  <2> QED
    BY <2>1, SearchShown, ClickKept DEF Click, timers
<1>3. CASE HandleSearch \/ SearchEnds
  <2>1. view' \in SearchView
    BY <1>3 DEF HandleSearch, SearchEnds, SearchView
  <2>2. view'.loading => live' > 0
    BY <1>3 DEF HandleSearch, SearchEnds, StartTimer, SearchView, IInv, ShellInv
  <2>3. ShellInv'
    BY <1>3 DEF HandleSearch, SearchEnds, StartTimer, TimerFires, place, history, IInv,
       ShellInv
  <2>4. BoxInv'
    BY <1>3 DEF HandleSearch, SearchEnds, place, IInv, BoxInv, OrdersPage, KeysPage,
       SupplierOrders
  <2> QED
    BY <1>3, <2>1, <2>2, <2>3, <2>4, SearchShown DEF HandleSearch, SearchEnds, IInv
<1> QED
  BY <1>1, <1>2, <1>3

LEMMA KeysKept ==
  ASSUME IInv,
         \/ HandleGenerate \/ KeyGenerated
         \/ \E i \in 1..MaxKeys : HandleRevoke(i)
  PROVE  IInv'
<1> /\ KeysPage /\ view \in KeysView /\ live = IF view.loading THEN 1 ELSE 0
    /\ view.keys \in Seq(Key)
  BY DEF HandleGenerate, KeyGenerated, HandleRevoke, IInv, PageInv, CustomerInv, KeysView
<1>1. CASE HandleGenerate
  BY <1>1, AskKept DEF HandleGenerate, GenerateTakesClicks, IInv, ShellInv
<1>2. ASSUME NEW i \in 1..MaxKeys, HandleRevoke(i)  PROVE IInv'
  <2>1. i \in DOMAIN view.keys /\ i \in Nat
    BY <1>2 DEF HandleRevoke
  <2> QED
    BY <1>2, <2>1, AskKept DEF HandleRevoke
<1>3. CASE KeyGenerated
  <2>1. NewKey \in Key
    BY DEF NewKey, Key
  <2>2. /\ view' \in KeysView /\ ~view'.loading
        /\ view'.keys = Append(view.keys, NewKey)
    <3> DEFINE keys == Append(view.keys, NewKey)
    <3>1. keys \in Seq(Key)
      BY <2>1
    <3>2. view' = [view EXCEPT !.keys = keys, !.loading = FALSE]
      BY <1>3 DEF KeyGenerated, Generated
    <3> HIDE DEF keys
    <3>3. view' \in KeysView /\ ~view'.loading /\ view'.keys = keys
      BY <3>1, <3>2 DEF KeysView
    <3> QED
      BY <3>3 DEF keys
  <2>3. live > 0 /\ live' = 0 /\ view.loading /\ UNCHANGED <<place, box, orphans, history>>
    BY <1>3 DEF KeyGenerated, TimerFires
  <2>4. ShellInv'
    BY <2>3 DEF place, history, IInv, ShellInv
  <2>5. BoxInv'
    BY <2>2, <2>3 DEF place, IInv, BoxInv, KeysPage, SupplierOrders
  <2> QED
    BY <2>2, <2>3, <2>4, <2>5, KeysShown DEF IInv
<1> QED
  BY <1>1, <1>2, <1>3

(* A box about a key is answered, on its page or after that has gone.      *)
LEMMA KeyAnswersKept ==
  ASSUME IInv, GenerateConfirmed \/ RevokeConfirmed
  PROVE  IInv'
<1>1. /\ box # None /\ box \in Boxes /\ box' = None
      /\ UNCHANGED <<place, typed, submitted>>
  BY DEF GenerateConfirmed, RevokeConfirmed, Answered, timers, history, IInv, BoxInv
<1>2. BoxInv'
  BY <1>1 DEF BoxInv
<1>3. CASE GenerateConfirmed /\ box.live
  <2>1. /\ KeysPage /\ ~view.loading /\ MaxTimers > 0 /\ view \in KeysView /\ live = 0
    BY <1>3 DEF GenerateConfirmed, Answered, IInv, BoxInv, PageInv, CustomerInv
  <2>2. view' = [view EXCEPT !.loading = TRUE] /\ live' = 1 /\ orphans' = orphans
    BY <1>3, <2>1 DEF GenerateConfirmed, StartTimer
  <2>3. view' \in KeysView /\ view'.loading
    BY <2>1, <2>2 DEF KeysView
  <2>4. ShellInv'
    BY <1>1, <2>1, <2>2 DEF place, IInv, ShellInv
  <2> QED
    BY <1>1, <1>2, <2>1, <2>2, <2>3, <2>4, KeysShown DEF IInv
<1>4. CASE GenerateConfirmed /\ ~box.live
  <2>1. orphans' = orphans + 1 /\ UNCHANGED <<view, live>>
    BY <1>4 DEF GenerateConfirmed
  <2>2. ShellInv'
    BY <1>1, <2>1 DEF place, IInv, ShellInv
  <2> QED
    BY <1>1, <1>2, <2>1, <2>2, PageUntouched DEF place, IInv
<1>5. CASE RevokeConfirmed
  <2>1. ShellInv' /\ live' = live
    BY <1>1, <1>5 DEF RevokeConfirmed, timers, place, IInv, ShellInv
  <2>2. CASE ~box.live
    BY <1>1, <1>2, <1>5, <2>1, <2>2, PageUntouched DEF RevokeConfirmed, place, IInv
  <2>3. CASE box.live
    <3>1. /\ KeysPage /\ box.row \in DOMAIN view.keys /\ view \in KeysView
          /\ live = IF view.loading THEN 1 ELSE 0
          /\ view' = [view EXCEPT !.keys[box.row].status = "revoked"]
      BY <1>5, <2>3 DEF RevokeConfirmed, Answered, IInv, BoxInv, PageInv, CustomerInv
    <3> DEFINE key == [view.keys[box.row] EXCEPT !.status = "revoked"]
               keys == [view.keys EXCEPT ![box.row] = key]
    <3>2. view.keys \in Seq(Key) /\ view.keys[box.row] \in Key
      BY <3>1 DEF KeysView
    <3>3. key \in Key
      BY <3>2 DEF Key
    <3>4. keys \in Seq(Key)
      BY <3>1, <3>2, <3>3
    <3>5. view' = [view EXCEPT !.keys = keys]
      BY <3>1 DEF KeysView
    <3> HIDE DEF keys
    <3>6. view' \in KeysView /\ view'.loading = view.loading
      BY <3>1, <3>4, <3>5 DEF KeysView
    <3> QED
      BY <1>1, <1>2, <2>1, <3>1, <3>6, KeysShown DEF IInv
  <2> QED
    BY <2>2, <2>3
<1> QED
  BY <1>3, <1>4, <1>5

LEMMA CustomerAccountKept ==
  ASSUME IInv,
         \/ HandleRecharge \/ CloseRecharge \/ SubmitRecharge
         \/ \E amount \in Amounts : TypeRecharge(amount)
  PROVE  IInv'
<1> CustomerAccount /\ view \in RechargeView /\ (view.amount # None => Unspent)
  BY DEF HandleRecharge, CloseRecharge, SubmitRecharge, TypeRecharge, IInv, PageInv,
     CustomerInv
<1>1. CASE HandleRecharge
  <2>1. Click(OpenDialog) /\ OpenDialog \in RechargeView /\ OpenDialog.amount = view.amount
    BY <1>1 DEF HandleRecharge, OpenDialog, RechargeView, DialogStates
  <2> QED
    BY <2>1, RechargeShown, ClickKept DEF Click, history, Unspent
<1>2. CASE CloseRecharge
  <2>1. box = None /\ UNCHANGED <<place, box, timers, history>>
    BY <1>2 DEF CloseRecharge, CloseDialog
  <2>2. view' \in RechargeView /\ view'.amount = view.amount
    BY <1>2 DEF CloseRecharge, CloseDialog, RechargeView, DialogStates
  <2> QED
    BY <2>1, <2>2, RechargeShown, DialogStepKept DEF history, Unspent
<1>3. CASE SubmitRecharge
  <2>1. Submit(RechargeEmptied) /\ Unspent
    BY <1>3 DEF SubmitRecharge, RechargeValid
  <2>2. view' \in RechargeView /\ view'.amount = None
    BY <2>1 DEF Submit, RechargeEmptied, RechargeView, DialogStates, Amounts
  <2> QED
    BY <2>1, <2>2, RechargeShown, SubmitKept DEF Submit
<1>4. ASSUME NEW amount \in Amounts, TypeRecharge(amount)  PROVE IInv'
  <2> DEFINE v == [view EXCEPT !.amount = amount]
  <2>1. TypeIn(v) /\ v \in RechargeView
    BY <1>4 DEF TypeRecharge, RechargeView
  <2> HIDE DEF v
  <2>2. Unspent'
    BY <2>1 DEF TypeIn, IInv, ShellInv, Unspent
  <2> QED
    BY <2>1, <2>2, RechargeShown, TypeInKept DEF TypeIn
<1> QED
  BY <1>1, <1>2, <1>3, <1>4

LEMMA CustomerKept ==
  ASSUME IInv, CustomerStep
  PROVE  IInv'
  BY OrdersKept, KeysKept, KeyAnswersKept, CustomerAccountKept DEF CustomerStep

-----------------------------------------------------------------------------
(* The supplier portal.                                                    *)
LEMMA GoodsKept ==
  ASSUME IInv,
         \/ \E i \in Products : HandleEdit(i) \/ HandleToggleStatus(i)
         \/ \E product \in Product : TypeProduct(product)
         \/ CloseEdit \/ SubmitEdit
  PROVE  IInv'
<1> /\ GoodsPage /\ view \in GoodsView
    /\ view.dialog # "closed" => view.id \in Products /\ view.form \in Product
  BY DEF HandleEdit, HandleToggleStatus, TypeProduct, CloseEdit, SubmitEdit, IInv,
     PageInv, SupplierInv
<1>1. ASSUME NEW i \in Products, HandleEdit(i)  PROVE IInv'
  <2> DEFINE v == [OpenDialog EXCEPT !.id = i, !.form = view.products[i]]
  <2>1. Click(v) /\ view.products[i] \in Product
    BY <1>1 DEF HandleEdit, GoodsView
  <2>2. v \in GoodsView /\ v.id = i /\ v.form = view.products[i]
    BY <2>1 DEF OpenDialog, GoodsView, DialogStates
  <2> HIDE DEF v
  <2> QED
    BY <2>1, <2>2, GoodsShown, ClickKept DEF Click
<1>2. ASSUME NEW i \in Products, HandleToggleStatus(i)  PROVE IInv'
  <2> DEFINE product == [view.products[i] EXCEPT !.status = Toggled(@)]
             products == [view.products EXCEPT ![i] = product]
             v == [view EXCEPT !.products = products]
  <2>1. view.products \in [Products -> Product] /\ view.products[i] \in Product
    BY DEF GoodsView
  <2>2. product \in Product
    BY <2>1 DEF Product, Toggled, Statuses
  <2>3. products \in [Products -> Product]
    BY <2>1, <2>2
  <2>4. Click(v)
    BY <1>2 DEF HandleToggleStatus, GoodsView
  <2> HIDE DEF products
  <2>5. v \in GoodsView /\ v.dialog = view.dialog /\ v.id = view.id /\ v.form = view.form
    BY <2>3 DEF GoodsView
  <2> HIDE DEF v
  <2> QED
    BY <2>4, <2>5, GoodsShown, ClickKept DEF Click
<1>3. ASSUME NEW product \in Product, TypeProduct(product)  PROVE IInv'
  <2>1. /\ box = None /\ view.dialog # "closed"
        /\ view' = [view EXCEPT !.form = product]
        /\ UNCHANGED <<place, box, timers, history>>
    BY <1>3 DEF TypeProduct, DialogClicked, FormTyped
  <2>2. view' \in GoodsView /\ view'.id = view.id /\ view'.form = product
    BY <2>1 DEF GoodsView
  <2> QED
    BY <2>1, <2>2, GoodsShown, DialogStepKept
<1>4. CASE CloseEdit
  <2>1. /\ box = None /\ view.dialog = "open"
        /\ view' = [view EXCEPT !.dialog = "closing"]
        /\ UNCHANGED <<place, box, timers, history>>
    BY <1>4 DEF CloseEdit, CloseDialog
  <2>2. view' \in GoodsView /\ view'.id = view.id /\ view'.form = view.form
    BY <2>1 DEF GoodsView, DialogStates
  <2> QED
    BY <2>1, <2>2, GoodsShown, DialogStepKept
<1>5. CASE SubmitEdit
  <2> DEFINE products == [view.products EXCEPT ![view.id] = view.form]
  <2>1. /\ box = None /\ view.dialog # "closed"
        /\ view' = [view EXCEPT !.products = products, !.dialog = "closing"]
        /\ UNCHANGED <<place, box, timers, history>>
    BY <1>5 DEF SubmitEdit, DialogClicked
  <2>2. products \in [Products -> Product]
    BY <2>1 DEF GoodsView
  <2> HIDE DEF products
  <2>3. view' \in GoodsView /\ view'.id = view.id /\ view'.form = view.form
    BY <2>1, <2>2 DEF GoodsView, DialogStates
  <2> QED
    BY <2>1, <2>3, GoodsShown, DialogStepKept
<1> QED
  BY <1>1, <1>2, <1>3, <1>4, <1>5

LEMMA CardsKept ==
  ASSUME IInv,
         \/ \E form \in SUBSET ImportFields : TypeImport(form)
         \/ HandleImport \/ CloseImport \/ SubmitImport
  PROVE  IInv'
<1> CardsPage /\ view \in ImportView /\ (view.form # {} => Unspent)
  BY DEF TypeImport, HandleImport, CloseImport, SubmitImport, IInv, PageInv, SupplierInv
<1>1. CASE HandleImport
  <2>1. Click(OpenDialog) /\ OpenDialog \in ImportView /\ OpenDialog.form = view.form
    BY <1>1 DEF HandleImport, OpenDialog, ImportView, DialogStates
  <2> QED
    BY <2>1, ImportShown, ClickKept DEF Click, history, Unspent
<1>2. CASE CloseImport
  <2>1. box = None /\ UNCHANGED <<place, box, timers, history>>
    BY <1>2 DEF CloseImport, CloseDialog
  <2>2. view' \in ImportView /\ view'.form = view.form
    BY <1>2 DEF CloseImport, CloseDialog, ImportView, DialogStates
  <2> QED
    BY <2>1, <2>2, ImportShown, DialogStepKept DEF history, Unspent
<1>3. CASE SubmitImport
  <2> DEFINE v == [view EXCEPT !.form = {}]
  <2>1. Submit(v) /\ Unspent
    BY <1>3 DEF SubmitImport, ImportComplete, ImportFields
  <2>2. view' \in ImportView /\ view'.form = {}
    BY <2>1 DEF Submit, ImportView, DialogStates
  <2> HIDE DEF v
  <2> QED
    BY <2>1, <2>2, ImportShown, SubmitKept DEF Submit
<1>4. ASSUME NEW form \in SUBSET ImportFields, TypeImport(form)  PROVE IInv'
  <2> DEFINE v == [view EXCEPT !.form = form]
  <2>1. TypeIn(v) /\ v \in ImportView
    BY <1>4 DEF TypeImport, ImportView
  <2> HIDE DEF v
  <2>2. Unspent'
    BY <2>1 DEF TypeIn, IInv, ShellInv, Unspent
  <2> QED
    BY <2>1, <2>2, ImportShown, TypeInKept DEF TypeIn
<1> QED
  BY <1>1, <1>2, <1>3, <1>4

LEMMA ProcessKept ==
  ASSUME IInv, \E i \in 1..4 : HandleProcess(i) \/ HandleComplete(i)
  PROVE  IInv'
<1> SupplierOrders /\ view \in ProcessView
  BY DEF HandleProcess, HandleComplete, IInv, PageInv, SupplierInv
<1>1. ASSUME NEW i \in 1..4, HandleProcess(i)  PROVE IInv'
  <2> DEFINE v == [view EXCEPT !.status[i] = "processing"]
  <2>1. Click(v) /\ v \in ProcessView
    BY <1>1 DEF HandleProcess, ProcessView, OrderStatuses
  <2> HIDE DEF v
  <2> QED
    BY <2>1, OrdersShown, ClickKept DEF Click
<1>2. ASSUME NEW i \in 1..4, HandleComplete(i)  PROVE IInv'
  BY <1>2, AskKept DEF HandleComplete
<1> QED
  BY <1>1, <1>2

LEMMA CompleteConfirmedKept ==
  ASSUME IInv, CompleteConfirmed
  PROVE  IInv'
<1>1. /\ box # None /\ box' = None
      /\ UNCHANGED <<place, timers, history>>
  BY DEF CompleteConfirmed, Answered
<1>2. BoxInv' /\ ShellInv'
  BY <1>1 DEF BoxInv, place, timers, history, IInv, ShellInv
<1>3. CASE ~box.live
  BY <1>1, <1>2, <1>3, PageUntouched DEF CompleteConfirmed, place, timers, history, IInv
<1>4. CASE box.live
  <2>1. SupplierOrders /\ box.row \in 1..4 /\ view \in ProcessView
    BY <1>4 DEF CompleteConfirmed, Answered, IInv, BoxInv, PageInv, SupplierInv
  <2>2. view' = [view EXCEPT !.status[box.row] = "completed"]
    BY <1>4 DEF CompleteConfirmed
  <2>3. view' \in ProcessView
    BY <2>1, <2>2 DEF ProcessView, OrderStatuses
  <2> QED
    BY <1>1, <1>2, <2>1, <2>3, OrdersShown DEF IInv
<1> QED
  BY <1>3, <1>4

LEMMA SupplierAccountKept ==
  ASSUME IInv,
         \/ \E payout \in Payouts : TypeWithdraw(payout)
         \/ HandleWithdraw \/ CloseWithdraw \/ SubmitWithdraw
  PROVE  IInv'
<1> SupplierAccount /\ view \in WithdrawView /\ (view.payout # None => Unspent)
  BY DEF TypeWithdraw, HandleWithdraw, CloseWithdraw, SubmitWithdraw, IInv, PageInv,
     SupplierInv
<1>1. CASE HandleWithdraw
  <2>1. Click(OpenDialog) /\ OpenDialog \in WithdrawView /\ OpenDialog.payout = view.payout
    BY <1>1 DEF HandleWithdraw, OpenDialog, WithdrawView, DialogStates
  <2> QED
    BY <2>1, WithdrawShown, ClickKept DEF Click, history, Unspent
<1>2. CASE CloseWithdraw
  <2>1. box = None /\ UNCHANGED <<place, box, timers, history>>
    BY <1>2 DEF CloseWithdraw, CloseDialog
  <2>2. view' \in WithdrawView /\ view'.payout = view.payout
    BY <1>2 DEF CloseWithdraw, CloseDialog, WithdrawView, DialogStates
  <2> QED
    BY <2>1, <2>2, WithdrawShown, DialogStepKept DEF history, Unspent
<1>3. CASE SubmitWithdraw
  <2> DEFINE v == [view EXCEPT !.payout = None]
  <2>1. Submit(v) /\ Unspent
    BY <1>3 DEF SubmitWithdraw, WithdrawValid
  <2>2. view' \in WithdrawView /\ view'.payout = None
    BY <2>1 DEF Submit, WithdrawView, DialogStates, Payouts
  <2> HIDE DEF v
  <2> QED
    BY <2>1, <2>2, WithdrawShown, SubmitKept DEF Submit
<1>4. ASSUME NEW payout \in Payouts, TypeWithdraw(payout)  PROVE IInv'
  <2> DEFINE v == [view EXCEPT !.payout = payout]
  <2>1. TypeIn(v) /\ v \in WithdrawView
    BY <1>4 DEF TypeWithdraw, WithdrawView
  <2> HIDE DEF v
  <2>2. Unspent'
    BY <2>1 DEF TypeIn, IInv, ShellInv, Unspent
  <2> QED
    BY <2>1, <2>2, WithdrawShown, TypeInKept DEF TypeIn
<1> QED
  BY <1>1, <1>2, <1>3, <1>4

LEMMA SupplierKept ==
  ASSUME IInv, SupplierStep
  PROVE  IInv'
  BY GoodsKept, CardsKept, ProcessKept, CompleteConfirmedKept, SupplierAccountKept
  DEF SupplierStep

-----------------------------------------------------------------------------
(* The admin console.                                                      *)
LEMMA AdminKept ==
  ASSUME IInv, AdminStep
  PROVE  IInv'
<1>1. ASSUME NEW query \in Queries, SearchGoods(query)  PROVE IInv'
  <2> DEFINE v == [view EXCEPT !.query = query]
  <2>1. AdminGoods /\ Click(v) /\ v \in [query : Queries]
    BY <1>1 DEF SearchGoods, AdminGoods, IInv, PageInv, AdminInv
  <2> HIDE DEF v
  <2> QED
    BY <2>1, QueryShown, ClickKept DEF Click
<1>2. ASSUME NEW role \in RoleOptions, FilterUsers(role)  PROVE IInv'
  <2> DEFINE v == [view EXCEPT !.role = role]
  <2>1. AdminUsers /\ Click(v) /\ v \in [role : RoleOptions]
    BY <1>2 DEF FilterUsers, AdminUsers, IInv, PageInv, AdminInv
  <2> HIDE DEF v
  <2> QED
    BY <2>1, RoleShown, ClickKept DEF Click
<1>3. ASSUME NEW state \in StateOptions, FilterOrders(state)  PROVE IInv'
  <2> DEFINE v == [view EXCEPT !.filter = state]
  <2>1. OrderList /\ Click(v) /\ v \in ListView
    BY <1>3 DEF FilterOrders, IInv, PageInv, AdminInv, ListView
  <2> HIDE DEF v
  <2> QED
    BY <2>1, ListShown, ClickKept DEF Click
<1>4. ASSUME NEW i \in DOMAIN OrderStates, ShowDetail(i)  PROVE IInv'
  <2> DEFINE v == [OpenDialog EXCEPT !.current = i]
  <2>1. OrderList /\ Click(v) /\ view \in ListView
    BY <1>4 DEF ShowDetail, IInv, PageInv, AdminInv
  <2>2. v \in ListView
    BY <2>1 DEF OpenDialog, ListView, DialogStates
  <2> HIDE DEF v
  <2> QED
    BY <2>1, <2>2, ListShown, ClickKept DEF Click
<1>5. CASE CloseDetail
  <2>1. /\ OrderList /\ box = None /\ UNCHANGED <<place, box, timers, history>>
        /\ view' = [view EXCEPT !.dialog = "closing"] /\ view \in ListView
    BY <1>5 DEF CloseDetail, CloseDialog, IInv, PageInv, AdminInv
  <2>2. view' \in ListView
    BY <2>1 DEF ListView, DialogStates
  <2> QED
    BY <2>1, <2>2, ListShown, DialogStepKept
<1>6. ASSUME NEW v, SettingsPage, Click(v), v \in SettingsView  PROVE IInv'
  BY <1>6, SettingsShown, ClickKept DEF Click
<1>7. ASSUME NEW n \in Minutes, EnterTimeout(n)  PROVE IInv'
  <2>1. Clamped(n) \in 5..1440 \cup {None}
    BY DEF Clamped, Minutes
  <2> DEFINE v == [view EXCEPT !.orderTimeout = Clamped(n)]
  <2>2. SettingsPage /\ Click(v) /\ view \in SettingsView
    BY <1>7 DEF EnterTimeout, IInv, PageInv, AdminInv
  <2>3. v \in SettingsView
    BY <2>1, <2>2 DEF SettingsView
  <2> HIDE DEF v
  <2> QED
    BY <1>6, <2>2, <2>3
<1>8. CASE SwitchRegistration
  <2> DEFINE v == [view EXCEPT !.registration = ~@]
  <2>1. SettingsPage /\ Click(v) /\ view \in SettingsView
    BY <1>8 DEF SwitchRegistration, IInv, PageInv, AdminInv
  <2>2. ASSUME NEW b \in BOOLEAN  PROVE [view EXCEPT !.registration = b] \in SettingsView
    BY <2>1 DEF SettingsView
  <2>3. (~view.registration) \in BOOLEAN
    OBVIOUS
  <2>4. v \in SettingsView
    BY <2>2, <2>3
  <2> HIDE DEF v
  <2> QED
    BY <1>6, <2>1, <2>4
<1>9. CASE SwitchMaintenance
  <2> DEFINE v == [view EXCEPT !.maintenance = ~@]
  <2>1. SettingsPage /\ Click(v) /\ view \in SettingsView
    BY <1>9 DEF SwitchMaintenance, IInv, PageInv, AdminInv
  <2>2. ASSUME NEW b \in BOOLEAN  PROVE [view EXCEPT !.maintenance = b] \in SettingsView
    BY <2>1 DEF SettingsView
  <2>3. (~view.maintenance) \in BOOLEAN
    OBVIOUS
  <2>4. v \in SettingsView
    BY <2>2, <2>3
  <2> HIDE DEF v
  <2> QED
    BY <1>6, <2>1, <2>4
<1> QED
  BY <1>1, <1>2, <1>3, <1>4, <1>5, <1>7, <1>8, <1>9 DEF AdminStep

-----------------------------------------------------------------------------
(* IInv is inductive, for all three sites.                                 *)
THEOREM WebInvariant == Spec => []IInv
<1>1. IInv /\ [Next]_shell => IInv'
  <2> SUFFICES ASSUME IInv, [Next]_shell  PROVE IInv'
    OBVIOUS
  <2>1. CASE UNCHANGED shell
    <3>1. ShellInv'
      BY <2>1 DEF shell, place, timers, history, IInv, ShellInv
    <3> QED
      BY <2>1, <3>1, PageUntouched, BoxUntouched DEF shell, place, timers, history, IInv
  <2>2. CASE Next
    <3>1. ASSUME NEW path \in Routes[site] \cup {"/"}, Start(path)  PROVE IInv'
      BY <3>1, StartKept
    <3>2. ASSUME NEW path \in Routes[site], MenuClick(path) \/ Traverse(path)  PROVE IInv'
      BY <3>2, PushKept DEF MenuClick, Traverse
    <3>3. CASE Show
      BY <3>3, MountKept DEF Show, IInv, ShellInv
    <3> QED
      BY <2>2, <3>1, <3>2, <3>3, ReloadKept, CancelBoxKept, DialogFadesKept,
         OrphanFiresKept, CustomerKept, SupplierKept, AdminKept DEF Next
  <2> QED
    BY <2>1, <2>2
<1> QED
  BY <1>1, InitInv, PTL DEF Spec

(* Every page's state stays in its domain, whichever page, box or timer    *)
(* touches it.                                                             *)
THEOREM WebTypes == Spec => []TypeOK
<1>1. IInv => TypeOK
  <2> SUFFICES ASSUME IInv  PROVE TypeOK
    OBVIOUS
  <2>1. view \in ViewType
    <3>1. CASE page = None
      BY <3>1 DEF IInv, PageInv, ViewType
    <3>2. CASE page # None /\ site = "customer"
      BY <3>2, RoutesOf DEF IInv, ShellInv, PageInv, CustomerInv, ViewType, CustomerView,
         CustomerRoutes, OrdersPage, KeysPage, CustomerAccount, SearchView, KeysView
    <3>3. CASE page # None /\ site = "supplier"
      BY <3>3, RoutesOf DEF IInv, ShellInv, PageInv, SupplierInv, ViewType, SupplierView,
         SupplierRoutes, GoodsPage, CardsPage, SupplierOrders, SupplierAccount,
         GoodsView, ImportView, ProcessView, WithdrawView
    <3>4. CASE page # None /\ site = "admin"
      BY <3>4, RoutesOf DEF IInv, ShellInv, PageInv, AdminInv, ViewType, AdminView,
         AdminPaths, AdminDashboard, AdminGoods, AdminUsers, OrderList, SettingsPage,
         ListView, SettingsView
    <3> QED
      BY <3>1, <3>2, <3>3, <3>4 DEF IInv, ShellInv
  <2> QED
    BY <2>1 DEF TypeOK, IInv, ShellInv, BoxInv
<1> QED
  BY <1>1, WebInvariant, PTL

(* The dialogs of the two accounts and of the card import: nothing is      *)
(* accepted twice.                                                         *)
THEOREM NothingTwice == Spec => []AcceptedOnce
<1>1. IInv => AcceptedOnce
  BY DEF IInv, ShellInv, AcceptedOnce
<1> QED
  BY <1>1, WebInvariant, PTL

(* handleSearch and handleGenerate: a page that is loading has the timer   *)
(* that will end it, and the page of keys has one at most.                 *)
THEOREM TimerForLoading == Spec => []LoadingHasTimer
<1>1. IInv => LoadingHasTimer
  <2> SUFFICES ASSUME IInv  PROVE LoadingHasTimer
    OBVIOUS
  <2>1. KeysPage => live = IF view.loading THEN 1 ELSE 0
    BY DEF IInv, PageInv, CustomerInv
  <2>2. IsLoading => OrdersPage \/ KeysPage
    <3> SUFFICES ASSUME "loading" \in DOMAIN view  PROVE OrdersPage \/ KeysPage
      BY DEF IsLoading
    <3>1. ~CustomerAccount
      BY DEF IInv, PageInv, CustomerInv, RechargeView
    <3>2. ~GoodsPage /\ ~CardsPage /\ ~SupplierOrders /\ ~SupplierAccount
      BY DEF IInv, PageInv, SupplierInv, GoodsView, ImportView, ProcessView, WithdrawView
    <3>3. ~AdminDashboard /\ ~AdminGoods /\ ~AdminUsers /\ ~OrderList /\ ~SettingsPage
      BY DEF IInv, PageInv, AdminInv, NoView, ListView, SettingsView
    <3>4. page # None
      BY DEF IInv, PageInv, NoView
    <3> QED
      BY <3>1, <3>2, <3>3, <3>4, RoutesOf DEF IInv, ShellInv, OrdersPage, KeysPage,
         CustomerAccount, GoodsPage, CardsPage, SupplierOrders, SupplierAccount,
         AdminDashboard, AdminGoods, AdminUsers, OrderList, SettingsPage,
         CustomerRoutes, SupplierRoutes, AdminPaths
  <2>3. OrdersPage /\ IsLoading => live > 0
    BY DEF IsLoading, IInv, PageInv, CustomerInv
  <2> QED
    BY <2>1, <2>2, <2>3 DEF LoadingHasTimer, IsLoading
<1> QED
  BY <1>1, WebInvariant, PTL

-----------------------------------------------------------------------------
(* A way to a page leads to another page than the one that is shown, and   *)
(* the order a box asks about is still being processed.                    *)
Steady ==
  /\ heading # None => heading # page
  /\ box # None /\ box.live /\ box.kind = "complete" =>
       view.status[box.row] = "processing"

(* On a page that stays, only the page's own steps and a fading dialog     *)
(* change its state.                                                       *)
LEMMA StayingSteps ==
  ASSUME IInv, Steady, [Next]_shell, page # None, page' = page
  PROVE  \/ view' = view
         \/ DialogFades \/ CustomerStep \/ SupplierStep \/ AdminStep
<1>1. CASE UNCHANGED shell
  BY <1>1 DEF shell
<1>2. ~(Show \/ Reload \/ \E path \in Routes[site] \cup {"/"} : Start(path))
  BY DEF Show, Mount, Reload, Start, Steady
<1>3. ASSUME NEW path, MenuClick(path) \/ Traverse(path)  PROVE view' = view
  BY <1>3 DEF MenuClick, Traverse, Push
<1>4. CancelBox \/ OrphanFires => view' = view
  BY DEF CancelBox, OrphanFires
<1> QED
  BY <1>1, <1>2, <1>3, <1>4 DEF Next

(* The answer to a box of a page that is not shown changes nothing here.   *)
LEMMA StrangeAnswers ==
  ASSUME IInv
  PROVE  /\ ~KeysPage /\ (GenerateConfirmed \/ RevokeConfirmed) => view' = view
         /\ ~SupplierOrders /\ CompleteConfirmed => view' = view
  BY DEF IInv, BoxInv, GenerateConfirmed, RevokeConfirmed, CompleteConfirmed, Answered

LEMMA KeysSteps ==
  ASSUME IInv, Steady, [Next]_shell, KeysPage, page' = page
  PROVE  view' = view \/ KeyGenerated \/ GenerateConfirmed \/ RevokeConfirmed
<1>1. page # None /\ page = "/api-keys" /\ site = "customer"
  BY DEF KeysPage, CustomerRoutes
<1>2. ~DialogFades
  BY DEF DialogFades, HasDialog, IInv, PageInv, CustomerInv, KeysView
<1>3. CustomerStep => view' = view \/ KeyGenerated \/ GenerateConfirmed \/ RevokeConfirmed
  BY <1>1 DEF CustomerStep, OrdersPage, CustomerAccount, TypeSearch, HandleSearch,
     SearchEnds, HandleReset, HandleGenerate, HandleRevoke, Ask, HandleRecharge,
     CloseRecharge, SubmitRecharge, TypeRecharge
<1>4. SupplierStep => view' = view
  BY <1>1, StrangeAnswers DEF SupplierStep, GoodsPage, CardsPage, SupplierOrders,
     SupplierAccount, HandleEdit, HandleToggleStatus, TypeProduct, CloseEdit, SubmitEdit,
     TypeImport, HandleImport, CloseImport, SubmitImport, HandleProcess, HandleComplete,
     TypeWithdraw, HandleWithdraw, CloseWithdraw, SubmitWithdraw
<1>5. ~AdminStep
  BY <1>1 DEF AdminStep, SearchGoods, FilterUsers, FilterOrders, ShowDetail, CloseDetail,
     EnterTimeout, SwitchRegistration, SwitchMaintenance, OrderList, SettingsPage
<1> QED
  BY <1>1, <1>2, <1>3, <1>4, <1>5, StayingSteps

LEMMA ProcessSteps ==
  ASSUME IInv, Steady, [Next]_shell, SupplierOrders, page' = page
  PROVE  view' = view \/ CompleteConfirmed \/ \E i \in 1..4 : HandleProcess(i)
<1>1. page # None /\ page = "/orders" /\ site = "supplier"
  BY DEF SupplierOrders, SupplierRoutes
<1>2. ~DialogFades
  BY DEF DialogFades, HasDialog, IInv, PageInv, SupplierInv, ProcessView
<1>3. CustomerStep => view' = view
  BY <1>1, StrangeAnswers DEF CustomerStep, OrdersPage, CustomerAccount, KeysPage,
     TypeSearch, HandleSearch, SearchEnds, HandleReset, HandleGenerate, HandleRevoke, Ask,
     KeyGenerated, HandleRecharge, CloseRecharge, SubmitRecharge, TypeRecharge
<1>4. SupplierStep =>
        view' = view \/ CompleteConfirmed \/ \E i \in 1..4 : HandleProcess(i)
  BY <1>1 DEF SupplierStep, GoodsPage, CardsPage, SupplierAccount, HandleEdit,
     HandleToggleStatus, TypeProduct, CloseEdit, SubmitEdit, TypeImport, HandleImport,
     CloseImport, SubmitImport, HandleComplete, Ask, TypeWithdraw, HandleWithdraw,
     CloseWithdraw, SubmitWithdraw
<1>5. ~AdminStep
  BY <1>1 DEF AdminStep, SearchGoods, FilterUsers, FilterOrders, ShowDetail, CloseDetail,
     EnterTimeout, SwitchRegistration, SwitchMaintenance, OrderList, SettingsPage
<1> QED
  BY <1>1, <1>2, <1>3, <1>4, <1>5, StayingSteps

LEMMA GoodsSteps ==
  ASSUME IInv, Steady, [Next]_shell, GoodsPage, page' = page, view.dialog # "closed"
  PROVE  \/ view' = view
         \/ DialogFades \/ CloseEdit \/ SubmitEdit
         \/ \E product \in Product : TypeProduct(product)
<1>1. page # None /\ page = "/goods" /\ site = "supplier"
  BY DEF GoodsPage, SupplierRoutes
<1>2. Masked
  BY DEF Masked, HasDialog, IInv, PageInv, SupplierInv, GoodsView
<1>3. CustomerStep => view' = view
  BY <1>1, StrangeAnswers DEF CustomerStep, OrdersPage, CustomerAccount, KeysPage,
     TypeSearch, HandleSearch, SearchEnds, HandleReset, HandleGenerate, HandleRevoke, Ask,
     KeyGenerated, HandleRecharge, CloseRecharge, SubmitRecharge, TypeRecharge
<1>4. SupplierStep => \/ view' = view \/ CloseEdit \/ SubmitEdit
                      \/ \E product \in Product : TypeProduct(product)
  BY <1>1, <1>2, StrangeAnswers DEF SupplierStep, CardsPage, SupplierOrders,
     SupplierAccount, HandleEdit, HandleToggleStatus, Click, TypeImport, HandleImport,
     CloseImport, SubmitImport, HandleProcess, HandleComplete, Ask, TypeWithdraw,
     HandleWithdraw, CloseWithdraw, SubmitWithdraw
<1>5. AdminStep => FALSE
  BY <1>1 DEF AdminStep, SearchGoods, FilterUsers, FilterOrders, ShowDetail, CloseDetail,
     EnterTimeout, SwitchRegistration, SwitchMaintenance, OrderList, SettingsPage
<1> QED
  BY <1>1, <1>3, <1>4, <1>5, StayingSteps

-----------------------------------------------------------------------------
LEMMA SteadyBegins == Init => Steady
  BY DEF Init, Steady

LEMMA SteadyGoesOn == IInv /\ Steady /\ [Next]_shell => Steady'
<1> SUFFICES ASSUME IInv, Steady, [Next]_shell  PROVE Steady'
  OBVIOUS
<1> DEFINE Asked == box # None /\ box.live /\ box.kind = "complete"
<1>1. heading' # None => heading' # page'
  <2>1. CASE UNCHANGED place
    BY <2>1 DEF place, Steady
  <2>2. ASSUME NEW path, Push(path)  PROVE heading' # None => heading' # page'
    BY <2>2 DEF Push
  <2>3. Reload \/ (\E path, v : Mount(path, v)) => heading' = None
    BY DEF Reload, Mount
  <2>4. \/ UNCHANGED place \/ Reload
        \/ \E path : Push(path)
        \/ \E path, v : Mount(path, v)
    BY DEF Next, shell, MenuClick, Traverse, Start, Show, CancelBox, OrphanFires,
       DialogFades, CustomerStep, TypeSearch, HandleSearch, SearchEnds, HandleReset,
       HandleGenerate, HandleRevoke, Ask, Click, GenerateConfirmed, KeyGenerated,
       RevokeConfirmed, HandleRecharge, CloseRecharge, SubmitRecharge, TypeRecharge,
       TypeIn, Submit, CloseDialog, SupplierStep, HandleEdit, HandleToggleStatus,
       TypeProduct, CloseEdit, SubmitEdit, TypeImport, HandleImport, CloseImport,
       SubmitImport, HandleProcess, HandleComplete, CompleteConfirmed, TypeWithdraw,
       HandleWithdraw, CloseWithdraw, SubmitWithdraw, AdminStep, SearchGoods,
       FilterUsers, FilterOrders, ShowDetail, CloseDetail, EnterTimeout,
       SwitchRegistration, SwitchMaintenance
  <2> QED
    BY <2>1, <2>2, <2>3, <2>4
<1>2. Asked' => view'.status[box'.row] = "processing"
  <2>1. ASSUME box' = box, view' = view  PROVE Asked' => view'.status[box'.row] = "processing"
    BY <2>1 DEF Steady
  <2>2. ASSUME NEW i \in 1..4, HandleComplete(i)  PROVE view'.status[box'.row] = "processing"
    BY <2>2 DEF HandleComplete, CompleteShown, Ask
  <2>3. ASSUME NEW kind, NEW row, Ask(kind, row), kind # "complete"  PROVE ~Asked'
    BY <2>3 DEF Ask
  <2>4. ASSUME NEW path, NEW v, Mount(path, v)  PROVE ~Asked'
    <3>1. box # None => box \in Boxes
      BY DEF IInv, BoxInv
    <3> QED
      BY <2>4, <3>1 DEF Mount, Boxes
  <2>5. Asked => SupplierOrders /\ view \in ProcessView
    BY DEF IInv, BoxInv, PageInv, SupplierInv
  <2>6. ~DialogFades \/ ~Asked
    BY <2>5 DEF DialogFades, HasDialog, ProcessView
  <2>7. SearchEnds \/ KeyGenerated \/ HandleSearch => ~Asked
    BY <2>5 DEF SearchEnds, KeyGenerated, HandleSearch, OrdersPage, KeysPage, SupplierOrders
  <2>8. \/ box' = box /\ view' = view
        \/ box' = None
        \/ box' = box /\ (~Asked \/ DialogFades \/ SearchEnds \/ KeyGenerated \/ HandleSearch)
        \/ \E i \in 1..4 : HandleComplete(i)
        \/ \E kind, row : Ask(kind, row) /\ kind # "complete"
        \/ \E path, v : Mount(path, v)
    <3>1. CASE CustomerStep
      BY <3>1 DEF CustomerStep, TypeSearch, HandleSearch, SearchEnds, HandleReset,
         HandleGenerate, HandleRevoke, Click, Masked, GenerateConfirmed, Answered,
         KeyGenerated, RevokeConfirmed, HandleRecharge, CloseRecharge, SubmitRecharge,
         TypeRecharge, TypeIn, DialogClicked, Submit, CloseDialog
    <3>2. CASE SupplierStep
      BY <3>2 DEF SupplierStep, HandleEdit, HandleToggleStatus, TypeProduct, CloseEdit,
         SubmitEdit, TypeImport, HandleImport, CloseImport, SubmitImport, HandleProcess,
         CompleteConfirmed, Answered, TypeWithdraw, HandleWithdraw, CloseWithdraw,
         SubmitWithdraw, Click, Masked, TypeIn, DialogClicked, Submit, CloseDialog
    <3>3. CASE AdminStep
      BY <3>3 DEF AdminStep, SearchGoods, FilterUsers, FilterOrders, ShowDetail,
         CloseDetail, EnterTimeout, SwitchRegistration, SwitchMaintenance, Click, Masked,
         CloseDialog
    <3>4. CASE UNCHANGED shell \/ CancelBox \/ OrphanFires \/ DialogFades \/ Reload
      BY <3>4 DEF shell, CancelBox, OrphanFires, DialogFades, Reload
    <3>5. ASSUME NEW path, MenuClick(path) \/ Traverse(path) \/ Start(path)
          PROVE  (box' = box /\ view' = view) \/ \E q, v : Mount(q, v)
      BY <3>5 DEF MenuClick, Traverse, Push, Start
    <3>6. Show => \E path, v : Mount(path, v)
      BY DEF Show
    <3> QED
      BY <3>1, <3>2, <3>3, <3>4, <3>5, <3>6 DEF Next
  <2> HIDE DEF Asked
  <2>9. box' = None => ~Asked'
    BY DEF Asked
  <2>10. box' = box /\ ~Asked => ~Asked'
    BY DEF Asked
  <2> QED
    BY <2>1, <2>2, <2>3, <2>4, <2>6, <2>7, <2>8, <2>9, <2>10
<1> QED
  BY <1>1, <1>2 DEF Steady

(* handleEdit and submitEdit: the list stands still under the dialog, and  *)
(* what is saved is saved in the row that was opened.                      *)
THEOREM OneRowEdited == Spec => EditsOneRow
<1> DEFINE Kept ==
      GoodsPage /\ view.dialog # "closed" /\ page' = page =>
        /\ view'.dialog = "open" => view'.products = view.products
        /\ \A i \in Products \ {view.id} : view'.products[i] = view.products[i]
<1>1. ASSUME IInv, Steady, [Next]_shell  PROVE [Kept]_shell
  <2> SUFFICES ASSUME GoodsPage, view.dialog # "closed", page' = page
               PROVE  /\ view'.dialog = "open" => view'.products = view.products
                      /\ \A i \in Products \ {view.id} :
                           view'.products[i] = view.products[i]
    OBVIOUS
  <2>1. view \in GoodsView /\ view.id \in Products
    BY <1>1 DEF IInv, PageInv, SupplierInv
  <2>2. CASE SubmitEdit
    BY <2>1, <2>2 DEF SubmitEdit, GoodsView
  <2>3. CASE DialogFades \/ CloseEdit \/ \E product \in Product : TypeProduct(product)
    BY <2>1, <2>3 DEF DialogFades, CloseEdit, CloseDialog, TypeProduct, FormTyped, GoodsView
  <2> QED
    BY <1>1, <2>2, <2>3, GoodsSteps
<1>2. IInv /\ Steady /\ [Next]_shell => Steady'
  BY SteadyGoesOn
<1> QED
  BY <1>1, <1>2, SteadyBegins, WebInvariant, PTL DEF Spec, EditsOneRow

(* handleRevoke, handleProcess and handleComplete: no key and no order     *)
(* goes back, though boxes are answered long after they were opened.       *)
THEOREM NothingGoesBack == Spec => OnlyOnward
<1> DEFINE Kept ==
      page' = page =>
        /\ KeysPage => \A i \in DOMAIN view.keys :
                         view.keys[i].status = "revoked" => view'.keys[i] = view.keys[i]
        /\ SupplierOrders => \A i \in DOMAIN view.status :
                               view'.status[i] \in OnwardFrom(view.status[i])
<1>1. ASSUME IInv, Steady, [Next]_shell  PROVE [Kept]_shell
  <2>1. ASSUME KeysPage, page' = page, NEW i \in DOMAIN view.keys,
               view.keys[i].status = "revoked"
        PROVE  view'.keys[i] = view.keys[i]
    <3>1. view \in KeysView /\ view.keys \in Seq(Key) /\ view.keys[i] \in Key
      BY <1>1, <2>1 DEF IInv, PageInv, CustomerInv, KeysView
    <3>2. CASE KeyGenerated
      <4>1. view'.keys = Append(view.keys, NewKey)
        BY <3>1, <3>2 DEF KeyGenerated, Generated, KeysView
      <4> QED
        BY <3>1, <4>1
    <3>3. CASE GenerateConfirmed
      BY <3>1, <3>3 DEF GenerateConfirmed, KeysView
    <3>4. CASE RevokeConfirmed
      <4>1. CASE ~box.live
        BY <3>4, <4>1 DEF RevokeConfirmed
      <4>2. CASE box.live /\ box.row # i
        BY <3>1, <3>4, <4>2 DEF RevokeConfirmed, KeysView
      <4>3. CASE box.live /\ box.row = i
        <5>1. view'.keys[i] = [view.keys[i] EXCEPT !.status = "revoked"]
          BY <2>1, <3>1, <3>4, <4>3 DEF RevokeConfirmed, KeysView
        <5> QED
          BY <2>1, <3>1, <5>1 DEF Key
      <4> QED
        BY <4>1, <4>2, <4>3
    <3> QED
      BY <1>1, <2>1, <3>2, <3>3, <3>4, KeysSteps
  <2>2. ASSUME SupplierOrders, page' = page, NEW i \in DOMAIN view.status
        PROVE  view'.status[i] \in OnwardFrom(view.status[i])
    <3>1. view \in ProcessView /\ i \in 1..4 /\ view.status[i] \in OrderStatuses
      BY <1>1, <2>2 DEF IInv, PageInv, SupplierInv, ProcessView
    <3>2. CASE view' = view
      BY <3>1, <3>2 DEF OnwardFrom, OrderStatuses
    <3>3. ASSUME NEW j \in 1..4, HandleProcess(j)
          PROVE  view'.status[i] \in OnwardFrom(view.status[i])
      BY <3>1, <3>3 DEF HandleProcess, ProcessShown, Click, OnwardFrom, OrderStatuses,
         ProcessView
    <3>4. CASE CompleteConfirmed /\ box.live
      <4>1. view.status[box.row] = "processing" /\ box.row \in 1..4
        BY <1>1, <3>4 DEF CompleteConfirmed, Answered, Steady, IInv, BoxInv
      <4> QED
        BY <3>1, <3>4, <4>1 DEF CompleteConfirmed, OnwardFrom, OrderStatuses, ProcessView
    <3>5. CASE CompleteConfirmed /\ ~box.live
      BY <3>2, <3>5 DEF CompleteConfirmed
    <3> QED
      BY <1>1, <2>2, <3>2, <3>3, <3>4, <3>5, ProcessSteps
  <2> QED
    BY <2>1, <2>2
<1>2. IInv /\ Steady /\ [Next]_shell => Steady'
  BY SteadyGoesOn
<1> QED
  BY <1>1, <1>2, SteadyBegins, WebInvariant, PTL DEF Spec, OnlyOnward
=============================================================================
