------------------------------- MODULE Shell -------------------------------
(***************************************************************************)
(* What the pages of the web front ends share: one tab of a browser that   *)
(* runs one of the three sites, the page it shows with that page's state,  *)
(* message boxes, dialogs and timers.                                      *)
(*                                                                         *)
(* A page is mounted anew whenever it is shown and its state is dropped    *)
(* when it is left.  Timers it has started and a message box it has opened *)
(* survive it: what they do then, they do to the state that was dropped.   *)
(***************************************************************************)
EXTENDS Naturals, Sequences

CONSTANTS MaxTimers, \* bound: timers that run at once
          MaxTyped,  \* bound: entries typed into dialogs
          None

ASSUME ShellAssumption ==
  /\ MaxTimers \in Nat
  /\ MaxTyped \in Nat
  /\ None \notin Nat

VARIABLES site,    \* which of the three programs the tab runs
          page,    \* the path of the page it shows, None while it starts
          heading, \* the path it is on its way to, or None
          visited, \* the pages Back and Forward lead to
          view,    \* the reactive state of the page shown
          box,     \* the message box on the screen [kind, row, live], or None
          live,    \* timers the page shown has started
          orphans, \* timers of pages that have been left
          typed,   \* history: entries typed into dialogs
          submitted \* history: amounts and imports accepted

place == <<site, page, heading, visited>>
timers == <<live, orphans>>
history == <<typed, submitted>>
shell == <<place, view, box, timers, history>>

NoView == <<>>

DialogStates == {"closed", "open", "closing"}
HasDialog == "dialog" \in DOMAIN view
IsLoading == "loading" \in DOMAIN view /\ view.loading

(* A box or a dialog covers the page, until the dialog has faded away, and *)
(* keeps clicks from everything but itself.  It does not cover Back.       *)
Masked == box # None \/ (HasDialog /\ view.dialog # "closed")

At(s, path) == site = s /\ page = path

(* A click or an entry on a page that nothing covers.                      *)
Click(v) ==
  /\ ~Masked
  /\ view' = v
  /\ UNCHANGED <<place, box, timers, history>>

Boxes == [kind : {"generate", "revoke", "complete"}, row : Nat \cup {None}, live : BOOLEAN]

(* ElMessageBox.confirm: what happens next is the page's affair, also when *)
(* the page has been left.                                                 *)
Ask(kind, row) ==
  /\ ~Masked
  /\ box' = [kind |-> kind, row |-> row, live |-> TRUE]
  /\ UNCHANGED <<place, view, timers, history>>
Answered(kind) == box # None /\ box.kind = kind /\ box' = None
CancelBox ==
  /\ box # None
  /\ box' = None
  /\ UNCHANGED <<place, view, timers, history>>

(* setTimeout, and a timer that fires for a page that was left.            *)
StartTimer == live' = live + 1 /\ UNCHANGED orphans
TimerFires == live > 0 /\ live' = live - 1 /\ UNCHANGED orphans
OrphanFires ==
  /\ orphans > 0
  /\ orphans' = orphans - 1
  /\ UNCHANGED <<place, view, box, live, history>>

(* A dialog that is told to close takes clicks until it has faded.         *)
OpenDialog == [view EXCEPT !.dialog = "open"]
CloseDialog ==
  /\ view.dialog = "open"
  /\ box = None
  /\ view' = [view EXCEPT !.dialog = "closing"]
  /\ UNCHANGED <<place, box, timers, history>>
DialogFades ==
  /\ HasDialog
  /\ view.dialog = "closing"
  /\ view' = [view EXCEPT !.dialog = "closed"]
  /\ UNCHANGED <<place, box, timers, history>>
DialogClicked == view.dialog # "closed" /\ box = None

(* What is typed into a dialog ...                                         *)
TypeIn(v) ==
  /\ DialogClicked
  /\ typed < MaxTyped
  /\ typed' = typed + 1
  /\ view' = v
  /\ UNCHANGED <<place, box, timers, submitted>>

(* ... and what its button makes of it: v, the form emptied.               *)
Submit(v) ==
  /\ DialogClicked
  /\ view' = [v EXCEPT !.dialog = "closing"]
  /\ submitted' = submitted + 1
  /\ UNCHANGED <<place, box, timers, typed>>

(* The router: a way to a page is begun by a click or by Back or Forward;  *)
(* the page is shown, in state v, once its component has been loaded.  On  *)
(* the way to the page that is shown already nothing happens, but the way  *)
(* begun before is given up.                                               *)
Push(path) ==
  /\ page # None
  /\ heading' = IF path = page THEN None ELSE path
  /\ UNCHANGED <<site, page, visited, view, box, timers, history>>
Mount(path, v) ==
  /\ page' = path
  /\ heading' = None
  /\ visited' = visited \cup {path}
  /\ view' = v
  /\ box' = IF box = None THEN None ELSE [box EXCEPT !.live = FALSE]
  /\ live' = 0
  /\ orphans' = orphans + live
  /\ UNCHANGED <<site, history>>

(* The tab is reloaded and the program starts from nothing: by the user's  *)
(* wish, or by Enter in a form that has one field only, which submits it.  *)
Reload ==
  /\ page # None
  /\ page' = None
  /\ heading' = None
  /\ view' = NoView
  /\ box' = None
  /\ live' = 0
  /\ orphans' = 0
  /\ UNCHANGED <<site, visited, history>>
=============================================================================
