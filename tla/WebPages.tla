------------------------------ MODULE WebPages ------------------------------
(***************************************************************************)
(* One tab that runs one of the three web front ends: the shell, the pages *)
(* of the three sites, and the ways from page to page.                     *)
(***************************************************************************)
EXTENDS CustomerPages, SupplierPages, AdminPages

Sites == {"customer", "supplier", "admin"}
Routes == [customer |-> CustomerRoutes, supplier |-> SupplierRoutes, admin |-> AdminPaths]
Home == [customer |-> CustomerHome, supplier |-> SupplierHome, admin |-> AdminHome]
Menu == [customer |-> CustomerMenu, supplier |-> SupplierMenu, admin |-> AdminMenu]

ASSUME NoneAssumption ==
  None \notin Boxes \cup CustomerRoutes \cup SupplierRoutes \cup AdminPaths

Fresh(path) ==
  CASE site = "customer" -> CustomerFresh(path)
    [] site = "supplier" -> SupplierFresh(path)
    [] site = "admin" -> AdminFresh(path)

ViewType ==
  CASE page = None -> {NoView}
    [] page # None /\ site = "customer" -> CustomerView(page)
    [] page # None /\ site = "supplier" -> SupplierView(page)
    [] page # None /\ site = "admin" -> AdminView(page)

TypeOK ==
  /\ site \in Sites
  /\ page \in Routes[site] \cup {None}
  /\ heading \in Routes[site] \cup {None}
  /\ visited \subseteq Routes[site]
  /\ view \in ViewType
  /\ box \in Boxes \cup {None}
  /\ live \in 0..MaxTimers
  /\ orphans \in Nat
  /\ typed \in 0..MaxTyped
  /\ submitted \in Nat

Init ==
  /\ site \in Sites
  /\ page = None
  /\ heading = None
  /\ visited = {}
  /\ view = NoView
  /\ box = None
  /\ live = 0
  /\ orphans = 0
  /\ typed = 0
  /\ submitted = 0

(* An address is opened, "/" standing for the home page.                   *)
Start(path) ==
  /\ page = None
  /\ LET p == IF path = "/" THEN Home[site] ELSE path IN Mount(p, Fresh(p))

(* The menu, which whatever covers the page covers too ...                 *)
MenuClick(path) == ~Masked /\ path \in Menu[site] /\ Push(path)

(* ... Back and Forward, which nothing covers ...                          *)
Traverse(path) == path \in visited \ {page} /\ Push(path)

(* ... and the page at the end of the way.                                 *)
Show == heading # None /\ Mount(heading, Fresh(heading))

Next ==
  \/ \E path \in Routes[site] \cup {"/"} : Start(path)
  \/ \E path \in Routes[site] : MenuClick(path) \/ Traverse(path)
  \/ Show
  \/ Reload
  \/ CancelBox \/ DialogFades \/ OrphanFires
  \/ CustomerStep \/ SupplierStep \/ AdminStep

(* Timers fire while the tab is open; nobody need click anything.          *)
Fairness == WF_shell(SearchEnds) /\ WF_shell(KeyGenerated)

Spec == Init /\ [][Next]_shell /\ Fairness
-----------------------------------------------------------------------------
(* A page that says it is loading has a timer that will end it, whatever   *)
(* was left, covered or confirmed in between; and on the page of API keys  *)
(* there is at most one: no second key is under way while one is.          *)
LoadingHasTimer ==
  /\ IsLoading => live > 0
  /\ KeysPage => live = IF view.loading THEN 1 ELSE 0

(* No application and no import is accepted that was not typed in since    *)
(* the last one: a second click on a button that is fading, or a dialog    *)
(* that is opened again, repeats nothing.                                  *)
AcceptedOnce == submitted <= typed

(* While a product is being edited the list of products stands still, and  *)
(* saving, twice and while the dialog fades too, changes that product only.*)
EditsOneRow ==
  [][GoodsPage /\ view.dialog # "closed" /\ page' = page =>
       /\ view'.dialog = "open" => view'.products = view.products
       /\ \A i \in Products \ {view.id} : view'.products[i] = view.products[i]]_shell

(* On a page that stays, no revoked key is active again and no order takes *)
(* a step back or skips one, whichever boxes of this or of an earlier      *)
(* visit of the page are answered meanwhile.                               *)
OnwardFrom(status) ==
  CASE status = "pending" -> {"pending", "processing"}
    [] status = "processing" -> {"processing", "completed"}
    [] status = "completed" -> {"completed"}
OnlyOnward ==
  [][page' = page =>
       /\ KeysPage => \A i \in DOMAIN view.keys :
                        view.keys[i].status = "revoked" => view'.keys[i] = view.keys[i]
       /\ SupplierOrders => \A i \in DOMAIN view.status :
                              view'.status[i] \in OnwardFrom(view.status[i])]_shell

(* Loading comes to an end, on every page and however often it is asked    *)
(* for.                                                                    *)
LoadingEnds == IsLoading ~> ~IsLoading
=============================================================================
