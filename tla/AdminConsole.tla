---------------------------- MODULE AdminConsole ----------------------------
(***************************************************************************)
(* Signing in and out of the admin console, web/admin: the router with its *)
(* guard, the login page, and the layout of all other pages, in several    *)
(* tabs of one browser.  The tabs share localStorage, and nothing else.    *)
(*                                                                         *)
(* A navigation takes three steps: router.push sets its target, beforeEach *)
(* looks at the token, and the route is shown once its component has been  *)
(* loaded.  A later push cancels an earlier one that is not shown yet.     *)
(***************************************************************************)
EXTENDS Naturals

CONSTANTS Tabs,        \* tabs of the browser
          MaxMoves,    \* bound: what users do besides typing
          MaxFailures, \* bound: components that fail to load
          None

ASSUME BoundsAssumption == MaxMoves \in Nat /\ MaxFailures \in Nat

VARIABLES token,  \* localStorage "token": the one every login sets, or None
          shown,  \* shown[t]: the route a tab shows, None before the first
          going,  \* going[t]: its navigation [to, checked], or None
          filled, \* filled[t]: the fields of its login form that are filled in
          remover,     \* history: the tab that signed out last
          clean,       \* history: no token since t's navigation began
          interrupted, \* history: a navigation of t was cut off on the page it shows
          moves, failures \* counters of the bounds

browser == <<token, shown, going, filled>>
history == <<remover, clean, interrupted>>
bounds == <<moves, failures>>
vars == <<browser, history, bounds>>

Login == "/login"
Children == {"/dashboard", "/goods", "/orders", "/users", "/settings"}
Routes == {Login} \cup Children
ResolvedAsTyped(path) == path
Resolve(path) == IF path = "/" THEN "/dashboard" ELSE path

Fields == {"username", "password"}
Complete(form) == form = Fields

Token == "admin-token"
Navigation == [to : Routes, checked : BOOLEAN]

ASSUME NoneAssumption == None \notin Routes \cup {Token} \cup Navigation

TypeOK ==
  /\ token \in {None, Token}
  /\ shown \in [Tabs -> Routes \cup {None}]
  /\ going \in [Tabs -> Navigation \cup {None}]
  /\ filled \in [Tabs -> SUBSET Fields]
  /\ remover \in Tabs \cup {None}
  /\ clean \in [Tabs -> BOOLEAN]
  /\ interrupted \in [Tabs -> BOOLEAN]
  /\ moves \in 0..MaxMoves
  /\ failures \in 0..MaxFailures

Init ==
  /\ token = None
  /\ shown = [t \in Tabs |-> None]
  /\ going = [t \in Tabs |-> None]
  /\ filled = [t \in Tabs |-> {}]
  /\ remover = None
  /\ clean = [t \in Tabs |-> FALSE]
  /\ interrupted = [t \in Tabs |-> FALSE]
  /\ moves = 0
  /\ failures = 0

Moved == moves < MaxMoves /\ moves' = moves + 1

(* router.push takes the place of a navigation that is under way; a push   *)
(* to the route shown is refused as a duplicate, but it cancels too.       *)
Heading(t, path) ==
  IF path = shown[t] THEN None ELSE [to |-> path, checked |-> FALSE]

(* The address of a page is typed in, or the page reloaded: the program is *)
(* started anew.                                                           *)
Open(t, path) ==
  /\ Moved
  /\ shown' = [shown EXCEPT ![t] = None]
  /\ going' = [going EXCEPT ![t] = [to |-> Resolve(path), checked |-> FALSE]]
  /\ filled' = [filled EXCEPT ![t] = {}]
  /\ clean' = [clean EXCEPT ![t] = (token = None)]
  /\ interrupted' = [interrupted EXCEPT ![t] = FALSE]
  /\ UNCHANGED <<token, remover, failures>>

(* A click on the menu, which every page but the login page has.           *)
HasMenu(t) == shown[t] \in Children
MenuClick(t, path) ==
  /\ Moved
  /\ HasMenu(t)
  /\ path \in Children
  /\ going' = [going EXCEPT ![t] = Heading(t, path)]
  /\ clean' = [clean EXCEPT ![t] = (token = None)]
  /\ interrupted' = [interrupted EXCEPT ![t] =
                       @ \/ (going[t] # None /\ path = shown[t])]
  /\ UNCHANGED <<token, shown, filled, remover, failures>>

(* Back or Forward, to whatever page was shown or opened before.           *)
Traverse(t, path) ==
  /\ Moved
  /\ shown[t] \notin {None, path}
  /\ going' = [going EXCEPT ![t] = Heading(t, path)]
  /\ clean' = [clean EXCEPT ![t] = (token = None)]
  /\ UNCHANGED <<token, shown, filled, remover, interrupted, failures>>

(* router.beforeEach: who has no token is sent to the login page.          *)
AdmittedAlways(to) == TRUE
Admitted(to) == to = Login \/ token # None
BeforeEachAborts(t) ==
  /\ going[t] # None
  /\ ~going[t].checked
  /\ going' = [going EXCEPT ![t] = IF Admitted(@.to) THEN [@ EXCEPT !.checked = TRUE]
                                   ELSE None]
  /\ UNCHANGED <<token, shown, filled, history, bounds>>
BeforeEach(t) ==
  /\ going[t] # None
  /\ ~going[t].checked
  /\ going' = [going EXCEPT ![t] = IF Admitted(@.to) THEN [@ EXCEPT !.checked = TRUE]
                                   ELSE Heading(t, Login)]
  /\ UNCHANGED <<token, shown, filled, history, bounds>>

(* The component of the route has been loaded and takes the place of the   *)
(* page shown, whose state is gone.                                        *)
Show(t) ==
  /\ going[t] # None
  /\ going[t].checked
  /\ shown' = [shown EXCEPT ![t] = going[t].to]
  /\ going' = [going EXCEPT ![t] = None]
  /\ filled' = [filled EXCEPT ![t] = {}]
  /\ interrupted' = [interrupted EXCEPT ![t] = FALSE]
  /\ UNCHANGED <<token, remover, clean, bounds>>

(* It could not be loaded: the page shown stays.                           *)
LoadFails(t) ==
  /\ failures < MaxFailures
  /\ failures' = failures + 1
  /\ going[t] # None
  /\ going[t].checked
  /\ going' = [going EXCEPT ![t] = None]
  /\ interrupted' = [interrupted EXCEPT ![t] = TRUE]
  /\ UNCHANGED <<token, shown, filled, remover, clean, moves>>

OnLoginPage(t) == shown[t] = Login
TypeInto(t, field) ==
  /\ OnLoginPage(t)
  /\ filled' = [filled EXCEPT ![t] = IF field \in @ THEN @ \ {field} ELSE @ \cup {field}]
  /\ UNCHANGED <<token, shown, going, history, bounds>>

(* handleLogin, by the button or by Enter: the form asks for both fields.  *)
HandleLogin(t) ==
  /\ Moved
  /\ OnLoginPage(t)
  /\ Complete(filled[t])
  /\ token' = Token
  /\ going' = [going EXCEPT ![t] = Heading(t, "/dashboard")]
  /\ clean' = [u \in Tabs |-> FALSE]
  /\ UNCHANGED <<shown, filled, remover, interrupted, failures>>

(* handleLogout, in the menu of the header.                                *)
CanLogOut(t) == shown[t] \in Children
LogoutStays(t) ==
  /\ Moved
  /\ CanLogOut(t)
  /\ token' = None
  /\ remover' = t
  /\ clean' = [clean EXCEPT ![t] = TRUE]
  /\ interrupted' = [interrupted EXCEPT ![t] = FALSE]
  /\ UNCHANGED <<shown, going, filled, failures>>
HandleLogout(t) ==
  /\ Moved
  /\ CanLogOut(t)
  /\ token' = None
  /\ going' = [going EXCEPT ![t] = Heading(t, Login)]
  /\ remover' = t
  /\ clean' = [clean EXCEPT ![t] = TRUE]
  /\ interrupted' = [interrupted EXCEPT ![t] = FALSE]
  /\ UNCHANGED <<shown, filled, failures>>

Next ==
  \E t \in Tabs :
    \/ \E path \in Routes \cup {"/"} : Open(t, path)
    \/ \E path \in Routes : MenuClick(t, path) \/ Traverse(t, path)
    \/ BeforeEach(t)
    \/ Show(t)
    \/ LoadFails(t)
    \/ \E field \in Fields : TypeInto(t, field)
    \/ HandleLogin(t)
    \/ HandleLogout(t)

(* The router does what it has begun; users need not do anything.          *)
Fairness == \A t \in Tabs : WF_vars(BeforeEach(t)) /\ WF_vars(Show(t))

Spec == Init /\ [][Next]_vars /\ Fairness
-----------------------------------------------------------------------------
(* A page other than the login page is entered only if there was a token   *)
(* at some time since the navigation to it began: who signed out, in       *)
(* whatever tab, gets to no page by a move begun afterwards.               *)
EnteredWithToken ==
  [][\A t \in Tabs :
       shown'[t] \in Children /\ shown'[t] # shown[t] => ~clean[t]]_vars

(* A tab may stay on a page without a token, but never without a reason:   *)
(* another tab signed out, or its own way out was cut off by a component   *)
(* that did not load or by a click on the page it still shows.             *)
Stranded(t) == shown[t] \in Children /\ token = None /\ going[t] = None
StrandedForAReason ==
  \A t \in Tabs : Stranded(t) => remover # t \/ interrupted[t]

(* Whoever moves without a token, and nobody signs in meanwhile, gets to   *)
(* the login page unless the way there is cut off.                         *)
EndsAtLogin ==
  \A t \in Tabs :
    clean[t] /\ going[t] # None
      ~> shown[t] = Login \/ ~clean[t] \/ interrupted[t]
=============================================================================
