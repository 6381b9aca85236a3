------------------------- MODULE AdminConsoleProofs -------------------------
(***************************************************************************)
(* Theorems of AdminConsole, for any number of tabs and moves.             *)
(*                                                                         *)
(* The argument: without a token a navigation that has passed the guard    *)
(* goes to the login page, unless the token was taken away after it had    *)
(* passed; and only another tab can do that, because signing out begins a  *)
(* new navigation in its own tab.                                          *)
(***************************************************************************)
EXTENDS AdminConsole, TLAPS

(* The guard has let the navigation of t through.                          *)
Passed(t) == going[t] # None /\ going[t].checked

TabInv(t) ==
  /\ clean[t] => token = None
  /\ clean[t] /\ Passed(t) => going[t].to = Login
  /\ Passed(t) /\ token = None /\ going[t].to \in Children => remover # t
  /\ Stranded(t) => remover # t \/ interrupted[t]

IInv == TypeOK /\ \A t \in Tabs : TabInv(t)

Step(t) ==
  \/ \E path \in Routes \cup {"/"} : Open(t, path)
  \/ \E path \in Routes : MenuClick(t, path) \/ Traverse(t, path)
  \/ BeforeEach(t)
  \/ Show(t)
  \/ LoadFails(t)
  \/ \E field \in Fields : TypeInto(t, field)
  \/ HandleLogin(t)
  \/ HandleLogout(t)

USE DEF Login, Children, Routes, Token, Navigation
-----------------------------------------------------------------------------
LEMMA InitInv == Init => IInv
  BY BoundsAssumption, NoneAssumption
  DEF Init, IInv, TypeOK, TabInv, Passed, Stranded

LEMMA HeadingType ==
  ASSUME NEW t \in Tabs, NEW path \in Routes
  PROVE  /\ Heading(t, path) \in Navigation \cup {None}
         /\ Heading(t, path) = None => path = shown[t]
         /\ Heading(t, path) # None => /\ ~Heading(t, path).checked
                                       /\ Heading(t, path).to = path
<1>1. CASE path = shown[t]
  BY <1>1 DEF Heading
<1>2. CASE path # shown[t]
  <2>1. Heading(t, path) = [to |-> path, checked |-> FALSE]
    BY <1>2 DEF Heading
  <2>2. Heading(t, path) \in Navigation
    BY <2>1
  <2>3. ~Heading(t, path).checked /\ Heading(t, path).to = path
    BY <2>1
  <2>4. Heading(t, path) # None
    BY <2>2, NoneAssumption
  <2> QED
    BY <2>2, <2>3, <2>4
<1> QED
  BY <1>1, <1>2

(* Every step keeps the variables in their domains.                        *)
LEMMA TypesKept ==
  ASSUME TypeOK, NEW t \in Tabs, Step(t)
  PROVE  TypeOK'
<1> USE BoundsAssumption DEF TypeOK
<1>1. ASSUME NEW path \in Routes \cup {"/"}, Open(t, path)  PROVE TypeOK'
  BY <1>1 DEF Open, Moved, Resolve
<1>2. ASSUME NEW path \in Routes, MenuClick(t, path)  PROVE TypeOK'
  BY <1>2, HeadingType DEF MenuClick, Moved
<1>3. ASSUME NEW path \in Routes, Traverse(t, path)  PROVE TypeOK'
  BY <1>3, HeadingType DEF Traverse, Moved
<1>4. CASE BeforeEach(t)
  <2>1. going[t] \in Navigation
    BY <1>4 DEF BeforeEach
  <2> QED
    BY <1>4, <2>1, HeadingType DEF BeforeEach, history, bounds
<1>5. CASE Show(t)
  <2>1. going[t] \in Navigation
    BY <1>5 DEF Show
  <2> QED
    BY <1>5, <2>1 DEF Show, bounds
<1>6. CASE LoadFails(t)
  BY <1>6 DEF LoadFails
<1>7. ASSUME NEW field \in Fields, TypeInto(t, field)  PROVE TypeOK'
  BY <1>7 DEF TypeInto, history, bounds
<1>8. CASE HandleLogin(t)
  BY <1>8, HeadingType DEF HandleLogin, Moved
<1>9. CASE HandleLogout(t)
  BY <1>9, HeadingType DEF HandleLogout, Moved
<1> QED
  BY <1>1, <1>2, <1>3, <1>4, <1>5, <1>6, <1>7, <1>8, <1>9 DEF Step

(* A tab is not disturbed by what another does, signing in and out apart.  *)
LEMMA OtherTabKept ==
  ASSUME NEW u \in Tabs, TabInv(u), token' = token, remover' = remover,
         shown'[u] = shown[u], going'[u] = going[u], clean'[u] = clean[u],
         interrupted'[u] = interrupted[u]
  PROVE  TabInv(u)'
  BY DEF TabInv, Passed, Stranded

LEMMA TabsKept ==
  ASSUME IInv, NEW t \in Tabs, Step(t), NEW u \in Tabs
  PROVE  TabInv(u)'
<1> USE NoneAssumption DEF IInv, TypeOK
<1>a. TabInv(u) /\ TabInv(t)
  OBVIOUS
<1>1. ASSUME NEW path \in Routes \cup {"/"}, Open(t, path)  PROVE TabInv(u)'
  <2>1. CASE u = t
    BY <1>a, <1>1, <2>1 DEF Open, Moved, Resolve, TabInv, Passed, Stranded
  <2>2. CASE u # t
    BY <1>a, <1>1, <2>2, OtherTabKept DEF Open
  <2> QED  BY <2>1, <2>2
<1>2. ASSUME NEW path \in Routes, MenuClick(t, path)  PROVE TabInv(u)'
  <2>1. CASE u = t
    BY <1>a, <1>2, <2>1, HeadingType DEF MenuClick, Heading, TabInv, Passed, Stranded
  <2>2. CASE u # t
    BY <1>a, <1>2, <2>2, OtherTabKept DEF MenuClick
  <2> QED  BY <2>1, <2>2
<1>3. ASSUME NEW path \in Routes, Traverse(t, path)  PROVE TabInv(u)'
  <2>1. CASE u = t
    BY <1>a, <1>3, <2>1, HeadingType DEF Traverse, TabInv, Passed, Stranded
  <2>2. CASE u # t
    BY <1>a, <1>3, <2>2, OtherTabKept DEF Traverse
  <2> QED  BY <2>1, <2>2
<1>4. CASE BeforeEach(t)
  <2>1. CASE u = t
    <3>1. going[t] \in Navigation /\ UNCHANGED <<token, shown, clean, remover, interrupted>>
      BY <1>4 DEF BeforeEach, history
    <3>2. CASE Admitted(going[t].to)
      <4>1. going'[t] = [going[t] EXCEPT !.checked = TRUE]
        BY <1>4, <3>2 DEF BeforeEach
      <4> QED
        BY <1>a, <2>1, <3>1, <3>2, <4>1 DEF Admitted, TabInv, Passed, Stranded
    <3>3. CASE ~Admitted(going[t].to)
      <4>1. going'[t] = Heading(t, Login)
        BY <1>4, <3>3 DEF BeforeEach
      <4> QED
        BY <1>a, <2>1, <3>1, <4>1, HeadingType DEF TabInv, Passed, Stranded
    <3> QED  BY <3>2, <3>3
  <2>2. CASE u # t
    BY <1>a, <1>4, <2>2, OtherTabKept DEF BeforeEach, history
  <2> QED  BY <2>1, <2>2
<1>5. CASE Show(t)
  <2>1. CASE u = t
    BY <1>a, <1>5, <2>1 DEF Show, TabInv, Passed, Stranded
  <2>2. CASE u # t
    BY <1>a, <1>5, <2>2, OtherTabKept DEF Show
  <2> QED  BY <2>1, <2>2
<1>6. CASE LoadFails(t)
  <2>1. CASE u = t
    BY <1>a, <1>6, <2>1 DEF LoadFails, TabInv, Passed, Stranded
  <2>2. CASE u # t
    BY <1>a, <1>6, <2>2, OtherTabKept DEF LoadFails
  <2> QED  BY <2>1, <2>2
<1>7. ASSUME NEW field \in Fields, TypeInto(t, field)  PROVE TabInv(u)'
  BY <1>a, <1>7, OtherTabKept DEF TypeInto, history
<1>8. CASE HandleLogin(t)
  BY <1>a, <1>8 DEF HandleLogin, TabInv, Passed, Stranded
<1>9. CASE HandleLogout(t)
  <2>1. CASE u = t
    BY <1>a, <1>9, <2>1, HeadingType DEF HandleLogout, CanLogOut, TabInv, Passed, Stranded
  <2>2. CASE u # t
    BY <1>a, <1>9, <2>2 DEF HandleLogout, TabInv, Passed, Stranded
  <2> QED  BY <2>1, <2>2
<1> QED
  BY <1>1, <1>2, <1>3, <1>4, <1>5, <1>6, <1>7, <1>8, <1>9 DEF Step

(* IInv is inductive: what a tab knows of the token and of its own way     *)
(* survives every step of every tab.                                       *)
THEOREM ConsoleInvariant == Spec => []IInv
<1>1. IInv /\ [Next]_vars => IInv'
  <2> SUFFICES ASSUME IInv, [Next]_vars  PROVE IInv'
    OBVIOUS
  <2>1. CASE UNCHANGED vars
    BY <2>1 DEF IInv, TypeOK, TabInv, Passed, Stranded, vars, browser, history, bounds
  <2>2. CASE Next
    <3>1. PICK t \in Tabs : Step(t)
      BY <2>2 DEF Next, Step
    <3> QED
      BY <3>1, TypesKept, TabsKept DEF IInv
  <2> QED
    BY <2>1, <2>2
<1> QED
  BY <1>1, InitInv, PTL DEF Spec

-----------------------------------------------------------------------------
(* Every variable stays in its domain.                                     *)
THEOREM ConsoleTypes == Spec => []TypeOK
<1>1. IInv => TypeOK
  BY DEF IInv
<1> QED
  BY <1>1, ConsoleInvariant, PTL

(* handleLogout and the guard: a tab that stays on a page without a token  *)
(* was signed out by another tab, or its way out was cut off.              *)
THEOREM StrandedHasReason == Spec => []StrandedForAReason
<1>1. IInv => StrandedForAReason
  BY DEF IInv, TabInv, StrandedForAReason
<1> QED
  BY <1>1, ConsoleInvariant, PTL

(* router.beforeEach: no page but the login page is entered by a move      *)
(* begun after the token was gone.                                         *)
THEOREM NoEntryWithoutToken == Spec => EnteredWithToken
<1> DEFINE Entered == \A t \in Tabs :
             shown'[t] \in Children /\ shown'[t] # shown[t] => ~clean[t]
<1>1. ASSUME IInv, [Next]_vars  PROVE [Entered]_vars
  <2>1. CASE UNCHANGED vars
    BY <2>1
  <2>2. ASSUME NEW t \in Tabs, Step(t), NEW u \in Tabs,
               shown'[u] \in Children, shown'[u] # shown[u]
        PROVE  ~clean[u]
    <3>1. Show(t)
      <4>1. ASSUME NEW path \in Routes \cup {"/"}, Open(t, path)  PROVE FALSE
        <5>1. shown' = [shown EXCEPT ![t] = None]
          BY <4>1 DEF Open
        <5> QED
          BY <1>1, <2>2, <5>1, NoneAssumption DEF IInv, TypeOK
      <4>2. shown' = shown => FALSE
        BY <2>2
      <4> QED
        BY <2>2, <4>1, <4>2 DEF Step, MenuClick, Traverse, BeforeEach, LoadFails,
           TypeInto, HandleLogin, HandleLogout
    <3>2. u = t
      BY <2>2, <3>1 DEF Show, IInv, TypeOK
    <3> QED
      BY <1>1, <2>2, <3>1, <3>2 DEF Show, IInv, TypeOK, TabInv, Passed
  <2> QED
    BY <1>1, <2>1, <2>2 DEF Next, Step
<1> QED
  BY <1>1, ConsoleInvariant, PTL DEF Spec, EnteredWithToken
=============================================================================
