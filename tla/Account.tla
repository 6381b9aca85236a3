------------------------------ MODULE Account ------------------------------
(***************************************************************************)
(* What the ledger promises its callers, with no transaction, version or   *)
(* lock in sight: a customer account is opened once, every posting moves   *)
(* the balance and writes one journal line in the same instant, and no     *)
(* posting may take the balance below zero.                                *)
(***************************************************************************)
EXTENDS Integers, Sequences

CONSTANTS Users,
          Postings  \* the signed amounts that may be posted

VARIABLES open,     \* the users whose wallet exists
          balance,  \* balance[u], 0 while the wallet does not exist
          journal   \* journal[u], the lines [amount, after] oldest first

vars == <<open, balance, journal>>

Init ==
  /\ open = {}
  /\ balance = [u \in Users |-> 0]
  /\ journal = [u \in Users |-> <<>>]

Open(u) ==
  /\ open' = open \cup {u}
  /\ UNCHANGED <<balance, journal>>

(* A posting of a signed amount: positive in, negative out.                *)
Post(u, a) ==
  /\ u \in open
  /\ balance[u] + a >= 0
  /\ balance' = [balance EXCEPT ![u] = @ + a]
  /\ journal' = [journal EXCEPT ![u] =
                   Append(@, [amount |-> a, after |-> balance[u] + a])]
  /\ UNCHANGED open

Next == \E u \in Users : Open(u) \/ \E a \in Postings : Post(u, a)

Spec == Init /\ [][Next]_vars

(* The same seen from when every wallet was there and held something.      *)
InUse ==
  /\ open = Users
  /\ balance \in [Users -> Nat]
  /\ journal = [u \in Users |-> <<>>]

SpecInUse == InUse /\ [][Next]_vars
=============================================================================
