---------------------------- MODULE NotifyProofs ----------------------------
(***************************************************************************)
(* Theorems of Notify, for any callbacks, any finite number of sessions    *)
(* and any bounds.                                                         *)
(*                                                                         *)
(* The argument counts who may still POST for a callback: the jobs in the  *)
(* queue and the sessions that hold it (Holders).  A delivery, a lookup    *)
(* that fails and a worker that dies only pass that right on, or give it   *)
(* up; a sweep is the one thing that adds to it.  An event that has not    *)
(* been POSTed has such a holder.                                          *)
(***************************************************************************)
EXTENDS Notify, FiniteSetTheorems, TLAPS

(* Session s may still POST for callback c.                                *)
Holds(s, c) ==
  \/ pc[s] \in {"dispatch", "lookup", "read", "post"} /\ job[s] = c
  \/ \E r \in batch[s] : r.id = c

Holders(c) == {s \in Sessions : Holds(s, c)}

SessionInv(s) ==
  /\ pc[s] \notin {"idle", "sweep"} => job[s] \in Callbacks /\ row[job[s]] \in Row
  /\ fromQueue[s] => pc[s] \in {"lookup", "read", "post", "save", "ack"} /\ batch[s] = {}
  /\ pc[s] \in {"idle", "dispatch", "lookup", "read", "ack"} => batch[s] = {}
  /\ \A r \in batch[s] : row[r.id] \in Row
  /\ \A r, q \in batch[s] : r.id = q.id => r = q
  /\ pc[s] \in {"post", "save"} => \A r \in batch[s] : r.id # job[s]
  /\ pc[s] \in {"post", "save"} /\ copy[s].success => job[s] \in heard

(* How often it may be POSTed: once, and once more for each enqueueing that *)
(* failed after the job was stored, each crash and each sweep.             *)
Allowed(c) == (IF row[c] = None THEN 0 ELSE 1) + doubled[c] + crashes + sweeps

CallbackInv(c) ==
  /\ row[c] = None => queued[c] = 0 /\ posts[c] = 0
  /\ row[c] # None /\ row[c].success => c \in heard
  /\ posts[c] + queued[c] + Cardinality(Holders(c)) <= Allowed(c)

IInv ==
  /\ TypeOK
  /\ batch = [s \in Sessions |-> batch[s]]
  /\ \A s \in Sessions : SessionInv(s)
  /\ \A c \in Callbacks : CallbackInv(c)

USE NoneAssumption, NoRowAssumption, SessionsAssumption
-----------------------------------------------------------------------------
(* The rest of the system while session s takes a step.                    *)
Others(s) ==
  /\ \A t \in Sessions \ {s} :
       /\ pc'[t] = pc[t] /\ job'[t] = job[t] /\ fromQueue'[t] = fromQueue[t]
       /\ copy'[t] = copy[t] /\ batch'[t] = batch[t]
  /\ \A c \in Callbacks : /\ row[c] \in Row => row'[c] \in Row
                          /\ (c \in heard => c \in heard')

LEMMA OtherSessionKept ==
  ASSUME IInv, NEW s \in Sessions, Others(s), TypeOK', NEW t \in Sessions \ {s}
  PROVE  SessionInv(t)'
<1>1. SessionInv(t) /\ \A r \in batch[t] : r.id \in Callbacks
  BY DEF IInv, TypeOK
<1>3. pc[t] \in {"post", "save"} => job[t] \in Callbacks
  BY <1>1 DEF SessionInv
<1>4. pc[t] \in {"post", "save"} /\ copy[t].success => job[t] \in heard'
  BY <1>1, <1>3 DEF SessionInv, Others
<1> QED
  BY <1>1, <1>4 DEF SessionInv, Others

LEMMA HoldersFinite ==
  ASSUME NEW c
  PROVE  IsFiniteSet(Holders(c)) /\ Cardinality(Holders(c)) \in Nat
BY FS_Subset, FS_CardinalityType DEF Holders

LEMMA HoldersFinite2 ==
  ASSUME NEW c
  PROVE  IsFiniteSet(Holders(c)') /\ Cardinality(Holders(c)') \in Nat
BY FS_Subset, FS_CardinalityType DEF Holders

Token(s, c) == IF Holds(s, c) THEN 1 ELSE 0

(* The step of one session changes the number of holders by that session.  *)
LEMMA HoldersCounted ==
  ASSUME NEW s \in Sessions, Others(s), NEW c
  PROVE  Cardinality(Holders(c)') - Token(s, c)' = Cardinality(Holders(c)) - Token(s, c)
<1> DEFINE A == Holders(c)
           B == Holders(c)'
<1>1. A \ {s} = B \ {s}
  BY DEF Holders, Holds, Others
<1>2. /\ s \in A <=> Holds(s, c)
      /\ s \in B <=> Holds(s, c)'
  BY DEF Holders
<1>3. IsFiniteSet(A) /\ Cardinality(A) \in Nat /\ IsFiniteSet(B) /\ Cardinality(B) \in Nat
  BY HoldersFinite, HoldersFinite2
<1> HIDE DEF A, B
<1>4. Cardinality(A \ {s}) = IF s \in A THEN Cardinality(A) - 1 ELSE Cardinality(A)
  BY <1>3, FS_RemoveElement
<1>5. Cardinality(B \ {s}) = IF s \in B THEN Cardinality(B) - 1 ELSE Cardinality(B)
  BY <1>3, FS_RemoveElement
<1>6. Token(s, c) = IF s \in A THEN 1 ELSE 0
  BY <1>2 DEF Token
<1>7. Token(s, c)' = IF s \in B THEN 1 ELSE 0
  BY <1>2 DEF Token
<1>8. Cardinality(B) - Token(s, c)' = Cardinality(A) - Token(s, c)
  BY <1>1, <1>3, <1>4, <1>5, <1>6, <1>7
<1> QED
  BY <1>8 DEF A, B

(* A step of session s, which passes tokens on.                            *)
LEMMA StepKept ==
  ASSUME IInv, NEW s \in Sessions, Others(s), TypeOK',
         batch' = [t \in Sessions |-> batch'[t]], SessionInv(s)',
         \A c \in Callbacks :
           /\ row'[c] = None => queued'[c] = 0 /\ posts'[c] = 0
           /\ row'[c] # None /\ row'[c].success => c \in heard'
           /\ posts'[c] + queued'[c] + Token(s, c)' - Allowed(c)' <=
                posts[c] + queued[c] + Token(s, c) - Allowed(c)
  PROVE  IInv'
<1>1. \A t \in Sessions : SessionInv(t)'
  BY OtherSessionKept
<1>2. ASSUME NEW c \in Callbacks  PROVE CallbackInv(c)'
  <2>1. Cardinality(Holders(c)') - Token(s, c)' = Cardinality(Holders(c)) - Token(s, c)
    BY HoldersCounted
  <2>2. /\ Cardinality(Holders(c)') \in Nat /\ Cardinality(Holders(c)) \in Nat
        /\ Token(s, c)' \in Nat /\ Token(s, c) \in Nat
    BY HoldersFinite, HoldersFinite2 DEF Token
  <2>3. /\ posts[c] \in Nat /\ queued[c] \in Nat /\ Allowed(c) \in Nat
        /\ posts'[c] \in Nat /\ queued'[c] \in Nat /\ Allowed(c)' \in Nat
    BY DEF IInv, TypeOK, Allowed
  <2>4. posts[c] + queued[c] + Cardinality(Holders(c)) <= Allowed(c)
    BY DEF IInv, CallbackInv
  <2>5. posts'[c] + queued'[c] + Cardinality(Holders(c)') <= Allowed(c)'
    BY <2>1, <2>2, <2>3, <2>4
  <2> QED
    BY <2>5 DEF CallbackInv
<1> QED
  BY <1>1, <1>2 DEF IInv

-----------------------------------------------------------------------------
LEMMA InitInv == Init => IInv
<1> SUFFICES ASSUME Init  PROVE IInv
  OBVIOUS
<1>1. TypeOK
  BY DEF Init, TypeOK, Labels, Row, Fresh
<1>2. \A s \in Sessions : SessionInv(s)
  BY DEF Init, SessionInv
<1>3. ASSUME NEW c \in Callbacks  PROVE CallbackInv(c)
  <2>1. Holders(c) = {}
    BY DEF Init, Holders, Holds
  <2> QED
    BY <2>1, FS_EmptySet DEF Init, CallbackInv, Allowed
<1> QED
  BY <1>1, <1>2, <1>3 DEF IInv, Init

(* The session's own variables after its step.                             *)
Locals(s) ==
  /\ pc' \in [Sessions -> Labels]
  /\ job' \in [Sessions -> Callbacks \cup {None}]
  /\ fromQueue' \in [Sessions -> BOOLEAN]
  /\ copy' \in [Sessions -> Row]
  /\ batch' = [t \in Sessions |-> batch'[t]]
  /\ \A r \in batch'[s] : r.id \in Callbacks /\ r.copy \in Row /\ ~r.copy.success
  /\ \A t \in Sessions \ {s} :
       /\ pc'[t] = pc[t] /\ job'[t] = job[t] /\ fromQueue'[t] = fromQueue[t]
       /\ copy'[t] = copy[t] /\ batch'[t] = batch[t]

(* Passing a token on, with what the step does to the shared variables.    *)
LEMMA Passed ==
  ASSUME IInv, NEW s \in Sessions, Locals(s), SessionInv(s)',
         row' \in [Callbacks -> Row \cup {None}], queued' \in [Callbacks -> Nat],
         posts' \in [Callbacks -> Nat], heard' \subseteq Callbacks,
         doubled' \in [Callbacks -> Nat], sweeps' \in Nat, crashes' \in Nat, faults' \in Nat,
         \A c \in Callbacks :
           /\ row[c] \in Row => row'[c] \in Row
           /\ (c \in heard => c \in heard')
           /\ row'[c] = None => queued'[c] = 0 /\ posts'[c] = 0
           /\ row'[c] # None /\ row'[c].success => c \in heard'
           /\ posts'[c] + queued'[c] + Token(s, c)' - Allowed(c)' <=
                posts[c] + queued[c] + Token(s, c) - Allowed(c)
  PROVE  IInv'
<1>1. TypeOK'
  BY DEF TypeOK, IInv, Locals
<1>2. Others(s)
  BY DEF Others, Locals
<1> QED
  BY <1>1, <1>2, StepKept DEF Locals

LEMMA ReturnKept ==
  ASSUME IInv, NEW s \in Sessions, Return(s)
  PROVE  /\ Locals(s) /\ SessionInv(s)'
         /\ pc'[s] = "idle" /\ \A c : Token(s, c)' = 0
<1>1. Fresh \in Row
  BY DEF Fresh, Row
<1>2. /\ pc'[s] = "idle" /\ fromQueue'[s] = FALSE /\ batch'[s] = {}
      /\ \A t \in Sessions \ {s} :
           /\ pc'[t] = pc[t] /\ job'[t] = job[t] /\ fromQueue'[t] = fromQueue[t]
           /\ copy'[t] = copy[t] /\ batch'[t] = batch[t]
  BY DEF Return, Goto, IInv, TypeOK
<1>3. /\ pc' \in [Sessions -> Labels] /\ job' \in [Sessions -> Callbacks \cup {None}]
      /\ fromQueue' \in [Sessions -> BOOLEAN] /\ copy' \in [Sessions -> Row]
  BY <1>1 DEF Return, Goto, IInv, TypeOK, Labels
<1>4. batch' = [t \in Sessions |-> batch'[t]]
  BY DEF Return, IInv
<1>5. \A c : ~Holds(s, c)'
  BY <1>2 DEF Holds
<1> QED
  BY <1>2, <1>3, <1>4, <1>5 DEF Locals, SessionInv, Token

(* What does not change is as good as before.                              *)
LEMMA Still ==
  ASSUME IInv, NEW c \in Callbacks
  PROVE  /\ row[c] = None => queued[c] = 0 /\ posts[c] = 0
         /\ row[c] # None => row[c] \in Row
         /\ row[c] # None /\ row[c].success => c \in heard
         /\ posts[c] \in Nat /\ queued[c] \in Nat
         /\ Allowed(c) \in Nat /\ doubled[c] \in Nat /\ crashes \in Nat /\ sweeps \in Nat /\ faults \in Nat
         /\ \A s \in Sessions : Token(s, c) \in Nat
  BY DEF IInv, TypeOK, CallbackInv, Token, Allowed

LEMMA SendKept ==
  ASSUME IInv, NEW s \in Sessions, NEW c \in Callbacks, SendOrderCallback(s, c)
  PROVE  IInv'
<1>1. /\ pc[s] = "idle" /\ row[c] = None /\ row' = [row EXCEPT ![c] = Fresh]
      /\ job' = [job EXCEPT ![s] = c] /\ Goto(s, "dispatch")
      /\ UNCHANGED <<queued, fromQueue, copy, batch, endpoint, bounds>>
  BY DEF SendOrderCallback
<1>2. Fresh \in Row /\ ~Fresh.success
  BY DEF Fresh, Row
<1>3. Locals(s) /\ pc'[s] = "dispatch" /\ job'[s] = c
  BY <1>1 DEF Locals, Goto, Labels, IInv, TypeOK
<1>4. batch[s] = {} /\ fromQueue[s] = FALSE
  BY <1>1 DEF IInv, SessionInv, TypeOK
<1>5. /\ row' \in [Callbacks -> Row \cup {None}] /\ row'[c] = Fresh
      /\ \A d \in Callbacks \ {c} : row'[d] = row[d]
  BY <1>1, <1>2 DEF IInv, TypeOK
<1>6. SessionInv(s)'
  BY <1>1, <1>2, <1>3, <1>4, <1>5 DEF SessionInv
<1>7. ASSUME NEW d \in Callbacks
      PROVE  /\ row[d] \in Row => row'[d] \in Row
             /\ (d \in heard => d \in heard')
             /\ row'[d] = None => queued'[d] = 0 /\ posts'[d] = 0
             /\ row'[d] # None /\ row'[d].success => d \in heard'
  BY <1>1, <1>2, <1>5, Still DEF endpoint
<1>8. ASSUME NEW d \in Callbacks
      PROVE  posts'[d] + queued'[d] + Token(s, d)' - Allowed(d)' <=
               posts[d] + queued[d] + Token(s, d) - Allowed(d)
  <2>1. posts'[d] = posts[d] /\ queued'[d] = queued[d] /\ posts[d] \in Nat /\ queued[d] \in Nat
    BY <1>1, Still DEF endpoint
  <2>2. CASE d = c
    <3>1. Allowed(d)' = Allowed(d) + 1 /\ Allowed(d) \in Nat
      BY <1>1, <1>2, <1>5, <2>2, Still DEF Allowed, bounds
    <3>2. Token(s, d)' = 1 /\ Token(s, d) \in {0, 1}
      BY <1>3, <2>2 DEF Token, Holds
    <3> QED
      BY <2>1, <3>1, <3>2
  <2>3. CASE d # c
    <3>1. Allowed(d)' = Allowed(d) /\ Allowed(d) \in Nat
      BY <1>1, <1>5, <2>3, Still DEF Allowed, bounds
    <3>2. Token(s, d)' = 0 /\ Token(s, d) = 0
      BY <1>1, <1>3, <1>4, <2>3 DEF Token, Holds
    <3> QED
      BY <2>1, <3>1, <3>2
  <2> QED
    BY <2>2, <2>3
<1>9. /\ queued' \in [Callbacks -> Nat] /\ posts' \in [Callbacks -> Nat]
      /\ heard' \subseteq Callbacks /\ doubled' \in [Callbacks -> Nat]
      /\ sweeps' \in Nat /\ crashes' \in Nat /\ faults' \in Nat
  BY <1>1 DEF endpoint, bounds, IInv, TypeOK
<1> QED
  BY <1>3, <1>5, <1>6, <1>7, <1>8, <1>9, Passed

-----------------------------------------------------------------------------
(* A step that leaves the rows and the endpoint alone.                     *)
LEMMA HandedOver ==
  ASSUME IInv, NEW s \in Sessions, Locals(s), SessionInv(s)',
         UNCHANGED <<row, endpoint, doubled, crashes, sweeps>>, faults' \in Nat,
         queued' \in [Callbacks -> Nat],
         \A c \in Callbacks : /\ queued'[c] + Token(s, c)' <= queued[c] + Token(s, c)
                              /\ row[c] = None => queued'[c] = 0
  PROVE  IInv'
<1>1. ASSUME NEW c \in Callbacks
      PROVE  /\ row[c] \in Row => row'[c] \in Row
             /\ (c \in heard => c \in heard')
             /\ row'[c] = None => queued'[c] = 0 /\ posts'[c] = 0
             /\ row'[c] # None /\ row'[c].success => c \in heard'
  BY Still DEF endpoint
<1>2. ASSUME NEW c \in Callbacks
      PROVE  posts'[c] + queued'[c] + Token(s, c)' - Allowed(c)' <=
               posts[c] + queued[c] + Token(s, c) - Allowed(c)
  <2>1. posts'[c] = posts[c] /\ Allowed(c)' = Allowed(c)
    BY DEF endpoint, Allowed
  <2>2. /\ posts[c] \in Nat /\ Allowed(c) \in Nat /\ Token(s, c) \in Nat /\ Token(s, c)' \in Nat
        /\ queued[c] \in Nat /\ queued'[c] \in Nat
    BY Still DEF Token
  <2>3. queued'[c] + Token(s, c)' <= queued[c] + Token(s, c)
    OBVIOUS
  <2> QED
    BY <2>1, <2>2, <2>3
<1>3. /\ row' \in [Callbacks -> Row \cup {None}] /\ posts' \in [Callbacks -> Nat]
      /\ heard' \subseteq Callbacks /\ doubled' \in [Callbacks -> Nat] /\ sweeps' \in Nat /\ crashes' \in Nat
  BY DEF endpoint, IInv, TypeOK
<1> QED
  BY <1>1, <1>2, <1>3, Passed

LEMMA Enqueued ==
  ASSUME IInv, NEW c \in Callbacks, Enqueue(c)
  PROVE  /\ queued' \in [Callbacks -> Nat]
         /\ queued'[c] = queued[c] + 1
         /\ \A d \in Callbacks \ {c} : queued'[d] = queued[d]
  BY DEF Enqueue, IInv, TypeOK

(* A session that delivers one callback holds the token of that one.       *)
LEMMA OneToken ==
  ASSUME IInv, NEW s \in Sessions, pc[s] \in {"dispatch", "lookup", "read"}
  PROVE  /\ job[s] \in Callbacks /\ row[job[s]] \in Row /\ batch[s] = {}
         /\ Token(s, job[s]) = 1
         /\ \A c \in Callbacks \ {job[s]} : Token(s, c) = 0
  BY DEF IInv, SessionInv, Token, Holds

(* An enqueueing that fails after the job was stored makes two holders of  *)
(* one, and says so in doubled.                                            *)
LEMMA StoredAndRefusedKept ==
  ASSUME IInv, NEW s \in Sessions, pc[s] = "dispatch", StoredAndRefused(s),
         UNCHANGED <<row, endpoint, sweeps, crashes, faults>>
  PROVE  IInv'
<1> DEFINE c == job[s]
<1>1. /\ Goto(s, "read") /\ Enqueue(c) /\ doubled' = [doubled EXCEPT ![c] = @ + 1]
      /\ UNCHANGED <<job, fromQueue, copy, batch>>
  BY DEF StoredAndRefused
<1>2. c \in Callbacks /\ row[c] \in Row
  BY OneToken
<1>3. Locals(s) /\ pc'[s] = "read"
  BY <1>1 DEF Locals, Goto, Labels, IInv, TypeOK
<1>4. SessionInv(s)'
  BY <1>1, <1>3, OneToken DEF SessionInv, IInv
<1>5. /\ doubled' \in [Callbacks -> Nat] /\ doubled'[c] = doubled[c] + 1
      /\ \A d \in Callbacks \ {c} : doubled'[d] = doubled[d]
  BY <1>1, <1>2 DEF IInv, TypeOK
<1>6. /\ queued' \in [Callbacks -> Nat] /\ queued'[c] = queued[c] + 1
      /\ \A d \in Callbacks \ {c} : queued'[d] = queued[d]
  BY <1>1, <1>2, Enqueued
<1>7. ASSUME NEW d \in Callbacks
      PROVE  /\ row[d] \in Row => row'[d] \in Row
             /\ (d \in heard => d \in heard')
             /\ row'[d] = None => queued'[d] = 0 /\ posts'[d] = 0
             /\ row'[d] # None /\ row'[d].success => d \in heard'
  BY <1>2, <1>6, Still DEF endpoint
<1>8. ASSUME NEW d \in Callbacks
      PROVE  posts'[d] + queued'[d] + Token(s, d)' - Allowed(d)' <=
               posts[d] + queued[d] + Token(s, d) - Allowed(d)
  <2>1. Token(s, d)' = Token(s, d) /\ posts'[d] = posts[d]
    BY <1>1, <1>3 DEF Token, Holds, endpoint
  <2>2. /\ posts[d] \in Nat /\ queued[d] \in Nat /\ Allowed(d) \in Nat
        /\ Token(s, d) \in Nat
    BY Still
  <2>3. queued'[d] = queued[d] + (IF d = c THEN 1 ELSE 0)
    BY <1>6, <2>2
  <2>4. Allowed(d)' = Allowed(d) + (IF d = c THEN 1 ELSE 0)
    BY <1>5, Still DEF Allowed
  <2> QED
    BY <2>1, <2>2, <2>3, <2>4
<1>9. /\ row' \in [Callbacks -> Row \cup {None}] /\ posts' \in [Callbacks -> Nat]
      /\ heard' \subseteq Callbacks
      /\ sweeps' \in Nat /\ crashes' \in Nat /\ faults' \in Nat
  BY DEF endpoint, IInv, TypeOK
<1> QED
  BY <1>3, <1>4, <1>5, <1>6, <1>7, <1>8, <1>9, Passed

LEMMA DispatchKept ==
  ASSUME IInv, NEW s \in Sessions, Dispatch(s)
  PROVE  IInv'
<1>1. pc[s] = "dispatch" /\ UNCHANGED <<row, endpoint, sweeps, crashes, faults>>
  BY DEF Dispatch
<1>2. faults' \in Nat
  BY <1>1 DEF IInv, TypeOK
<1>3. CASE Queued(s)
  <2>1. Return(s) /\ Enqueue(job[s]) /\ UNCHANGED doubled
    BY <1>3 DEF Queued
  <2>2. ASSUME NEW c \in Callbacks
        PROVE  /\ queued'[c] + Token(s, c)' <= queued[c] + Token(s, c)
               /\ row[c] = None => queued'[c] = 0
    BY <1>1, <2>1, OneToken, Enqueued, Still, ReturnKept
  <2> QED
    BY <1>1, <1>2, <2>1, <2>2, OneToken, Enqueued, ReturnKept, HandedOver
<1>4. CASE Refused(s)
  <2>1. Goto(s, "read") /\ UNCHANGED <<queued, job, fromQueue, copy, batch, doubled>>
    BY <1>4 DEF Refused
  <2>2. Locals(s) /\ pc'[s] = "read"
    BY <2>1 DEF Locals, Goto, Labels, IInv, TypeOK
  <2>3. SessionInv(s)'
    BY <1>1, <2>1, <2>2, OneToken DEF SessionInv, IInv
  <2>4. ASSUME NEW c \in Callbacks
        PROVE  /\ queued'[c] + Token(s, c)' <= queued[c] + Token(s, c)
               /\ row[c] = None => queued'[c] = 0
    <3>1. Token(s, c)' = Token(s, c)
      BY <1>1, <2>1, <2>2 DEF Token, Holds
    <3> QED
      BY <2>1, <3>1, Still
  <2>5. queued' \in [Callbacks -> Nat]
    BY <2>1 DEF IInv, TypeOK
  <2> QED
    BY <1>1, <1>2, <2>1, <2>2, <2>3, <2>4, <2>5, HandedOver
<1>5. CASE StoredAndRefused(s)
  BY <1>1, <1>5, StoredAndRefusedKept
<1> QED
  BY <1>3, <1>4, <1>5 DEF Dispatch, Dispatched

LEMMA TakeJobKept ==
  ASSUME IInv, NEW s \in Sessions, NEW c \in Callbacks, TakeJob(s, c)
  PROVE  IInv'
<1>1. /\ pc[s] = "idle" /\ queued[c] > 0 /\ queued' = [queued EXCEPT ![c] = @ - 1]
      /\ job' = [job EXCEPT ![s] = c] /\ fromQueue' = [fromQueue EXCEPT ![s] = TRUE]
      /\ Goto(s, "lookup") /\ UNCHANGED <<row, copy, batch, endpoint, bounds>>
  BY DEF TakeJob
<1>2. batch[s] = {} /\ row[c] \in Row /\ queued[c] \in Nat
  BY <1>1, Still DEF IInv, SessionInv
<1>3. Locals(s) /\ pc'[s] = "lookup" /\ job'[s] = c
  BY <1>1 DEF Locals, Goto, Labels, IInv, TypeOK
<1>4. SessionInv(s)'
  BY <1>1, <1>2, <1>3 DEF SessionInv
<1>5. /\ queued' \in [Callbacks -> Nat] /\ queued'[c] = queued[c] - 1
      /\ \A d \in Callbacks \ {c} : queued'[d] = queued[d]
  BY <1>1, <1>2 DEF IInv, TypeOK
<1>6. ASSUME NEW d \in Callbacks
      PROVE  /\ queued'[d] + Token(s, d)' <= queued[d] + Token(s, d)
             /\ row[d] = None => queued'[d] = 0
  <2>1. Token(s, d) = 0 /\ Token(s, d)' = IF d = c THEN 1 ELSE 0
    BY <1>1, <1>2, <1>3 DEF Token, Holds
  <2> QED
    BY <1>2, <1>5, <2>1, Still
<1>7. faults' \in Nat /\ UNCHANGED <<doubled, crashes, sweeps>>
  BY <1>1 DEF bounds, IInv, TypeOK
<1> QED
  BY <1>1, <1>3, <1>4, <1>5, <1>6, <1>7, HandedOver

LEMMA ReadKept ==
  ASSUME IInv, NEW s \in Sessions, DeliverCallback(s) \/ GetCallbackByID(s)
  PROVE  IInv'
<1>1. pc[s] \in {"lookup", "read"} /\ UNCHANGED <<row, queued, job, fromQueue, batch, endpoint, bounds>>
  BY DEF DeliverCallback, GetCallbackByID
<1>2. faults' \in Nat /\ UNCHANGED <<doubled, crashes, sweeps>> /\ queued' \in [Callbacks -> Nat]
  BY <1>1 DEF bounds, IInv, TypeOK
<1>3. /\ pc'[s] \in {"read", "post"} /\ pc' \in [Sessions -> Labels]
      /\ \A t \in Sessions \ {s} : pc'[t] = pc[t]
  BY DEF DeliverCallback, GetCallbackByID, Goto, Labels, IInv, TypeOK
<1>4. /\ copy' \in [Sessions -> Row] /\ \A t \in Sessions \ {s} : copy'[t] = copy[t]
      /\ pc'[s] = "post" => copy'[s] = row[job[s]]
  BY <1>1, OneToken DEF DeliverCallback, GetCallbackByID, Goto, IInv, TypeOK
<1>5. Locals(s)
  BY <1>1, <1>3, <1>4 DEF Locals, IInv, TypeOK
<1>6. copy'[s].success /\ pc'[s] = "post" => job[s] \in heard
  BY <1>1, <1>4, OneToken, Still
<1>7. SessionInv(s)'
  BY <1>1, <1>3, <1>6, OneToken DEF SessionInv, IInv, endpoint
<1>8. ASSUME NEW c \in Callbacks
      PROVE  /\ queued'[c] + Token(s, c)' <= queued[c] + Token(s, c)
             /\ row[c] = None => queued'[c] = 0
  <2>1. Token(s, c)' = Token(s, c)
    BY <1>1, <1>3 DEF Token, Holds
  <2> QED
    BY <1>1, <2>1, Still
<1> QED
  BY <1>1, <1>2, <1>5, <1>7, <1>8, HandedOver

-----------------------------------------------------------------------------
LEMMA NextPendingKept ==
  ASSUME IInv, NEW s \in Sessions, NextPending(s)
  PROVE  IInv'
<1>1. pc[s] = "sweep" /\ UNCHANGED <<row, queued, endpoint, bounds>>
  BY DEF NextPending
<1>2. faults' \in Nat /\ UNCHANGED <<doubled, crashes, sweeps>> /\ queued' \in [Callbacks -> Nat]
  BY <1>1 DEF bounds, IInv, TypeOK
<1>3. CASE Return(s)
  <2>1. \A c \in Callbacks : Token(s, c)' = 0 /\ Token(s, c) \in Nat
    BY <1>3, ReturnKept, Still
  <2>2. \A c \in Callbacks : /\ queued'[c] + Token(s, c)' <= queued[c] + Token(s, c)
                             /\ row[c] = None => queued'[c] = 0
    BY <1>1, <2>1, Still
  <2> QED
    BY <1>1, <1>2, <1>3, <2>2, ReturnKept, HandedOver
<1>4. ASSUME NEW r \in batch[s],
             job' = [job EXCEPT ![s] = r.id], copy' = [copy EXCEPT ![s] = r.copy],
             batch' = [batch EXCEPT ![s] = @ \ {r}], Goto(s, "post"), UNCHANGED fromQueue
      PROVE  IInv'
  <2>1. /\ r.id \in Callbacks /\ r.copy \in Row /\ ~r.copy.success /\ row[r.id] \in Row
        /\ \A q \in batch[s] \ {r} : q.id # r.id
        /\ fromQueue[s] = FALSE
    BY <1>1 DEF IInv, TypeOK, SessionInv
  <2>2. pc'[s] = "post" /\ job'[s] = r.id /\ copy'[s] = r.copy /\ batch'[s] = batch[s] \ {r}
    BY <1>4 DEF Goto, IInv, TypeOK
  <2>3. Locals(s)
    BY <1>4, <2>1, <2>2 DEF Locals, Goto, Labels, IInv, TypeOK
  <2>4. SessionInv(s)'
    BY <1>1, <1>4, <2>1, <2>2 DEF SessionInv, IInv
  <2>5. ASSUME NEW c \in Callbacks
        PROVE  /\ queued'[c] + Token(s, c)' <= queued[c] + Token(s, c)
               /\ row[c] = None => queued'[c] = 0
    <3>1. Token(s, c)' = Token(s, c)
      BY <1>1, <1>4, <2>1, <2>2 DEF Token, Holds
    <3> QED
      BY <1>1, <3>1, Still
  <2> QED
    BY <1>1, <1>2, <2>3, <2>4, <2>5, HandedOver
<1> QED
  BY <1>3, <1>4 DEF NextPending

(* A delivery is over: its session keeps at most the tokens of its sweep.  *)
LEMMA DoneKept ==
  ASSUME IInv, NEW s \in Sessions, pc[s] \in {"read", "save"}, Done(s),
         \A c \in Callbacks : row[c] \in Row => row'[c] \in Row
  PROVE  /\ Locals(s) /\ SessionInv(s)'
         /\ \A c \in Callbacks : Token(s, c)' <= Token(s, c)
<1>1. CASE ~fromQueue[s] /\ batch[s] = {}
  <2>1. Return(s)
    BY <1>1 DEF Done
  <2> QED
    BY <2>1, ReturnKept, Still
<1>2. CASE ~(~fromQueue[s] /\ batch[s] = {})
  <2>1. /\ Goto(s, IF fromQueue[s] THEN "ack" ELSE "sweep")
        /\ copy' = [copy EXCEPT ![s] = Fresh]
        /\ UNCHANGED <<job, fromQueue, batch>>
    BY <1>2 DEF Done
  <2>2. Fresh \in Row
    BY DEF Fresh, Row
  <2>3. Locals(s) /\ pc'[s] = IF fromQueue[s] THEN "ack" ELSE "sweep"
    BY <2>1, <2>2 DEF Locals, Goto, Labels, IInv, TypeOK
  <2>4. fromQueue[s] => batch[s] = {}
    BY DEF IInv, SessionInv
  <2>5. SessionInv(s)'
    BY <1>2, <2>1, <2>3, <2>4 DEF SessionInv, IInv, TypeOK
  <2>6. ASSUME NEW c \in Callbacks  PROVE Token(s, c)' <= Token(s, c)
    <3>1. Holds(s, c)' => Holds(s, c)
      BY <2>1, <2>3 DEF Holds
    <3> QED
      BY <3>1 DEF Token
  <2> QED
    BY <2>3, <2>5, <2>6
<1> QED
  BY <1>1, <1>2

LEMMA PostKept ==
  ASSUME IInv, NEW s \in Sessions, DoHTTPPost(s)
  PROVE  IInv'
<1> DEFINE c == job[s]
<1>1. /\ pc[s] = "post" /\ posts' = [posts EXCEPT ![c] = @ + 1] /\ Goto(s, "save")
      /\ UNCHANGED <<row, queued, job, fromQueue, batch, bounds>>
  BY DEF DoHTTPPost
<1>2. c \in Callbacks /\ row[c] \in Row /\ copy[s] \in Row /\ \A r \in batch[s] : r.id # c
  BY <1>1 DEF IInv, SessionInv, TypeOK
<1>3. /\ copy' \in [Sessions -> Row] /\ \A t \in Sessions \ {s} : copy'[t] = copy[t]
      /\ heard' \subseteq Callbacks /\ \A d \in Callbacks : (d \in heard => d \in heard')
      /\ copy'[s].success => c \in heard'
  <2>1. CASE /\ copy' = [copy EXCEPT ![s].success = TRUE]
             /\ heard' = heard \cup {c}
    <3>1. [copy[s] EXCEPT !.success = TRUE] \in Row
      BY <1>2 DEF Row
    <3> QED
      BY <1>2, <2>1, <3>1 DEF IInv, TypeOK
  <2>2. CASE copy' = [copy EXCEPT ![s] = AfterFailure(@)] /\ UNCHANGED heard
    <3>1. AfterFailure(copy[s]) \in Row
      BY <1>2 DEF AfterFailure, Row
    <3>2. AfterFailure(copy[s]).success = copy[s].success
      BY <1>2 DEF AfterFailure, Row
    <3>3. copy' = [copy EXCEPT ![s] = AfterFailure(copy[s])]
      BY <2>2
    <3>4. copy[s].success => c \in heard
      BY <1>1 DEF IInv, SessionInv
    <3> QED
      BY <1>2, <2>2, <3>1, <3>2, <3>3, <3>4 DEF IInv, TypeOK
  <2> QED
    BY <2>1, <2>2 DEF DoHTTPPost
<1>4. Locals(s) /\ pc'[s] = "save"
  BY <1>1, <1>3 DEF Locals, Goto, Labels, IInv, TypeOK
<1>5. SessionInv(s)'
  BY <1>1, <1>2, <1>3, <1>4 DEF SessionInv, IInv
<1>6. /\ posts' \in [Callbacks -> Nat] /\ posts'[c] = posts[c] + 1
      /\ \A d \in Callbacks \ {c} : posts'[d] = posts[d]
  BY <1>1, <1>2 DEF IInv, TypeOK
<1>7. ASSUME NEW d \in Callbacks
      PROVE  /\ row[d] \in Row => row'[d] \in Row
             /\ (d \in heard => d \in heard')
             /\ row'[d] = None => queued'[d] = 0 /\ posts'[d] = 0
             /\ row'[d] # None /\ row'[d].success => d \in heard'
  <2>1. row[d] # None /\ row[d].success => d \in heard'
    BY <1>3, Still
  <2>2. row[d] = None => posts'[d] = 0
    BY <1>2, <1>6, Still
  <2> QED
    BY <1>1, <1>3, <2>1, <2>2, Still
<1>8. ASSUME NEW d \in Callbacks
      PROVE  posts'[d] + queued'[d] + Token(s, d)' - Allowed(d)' <=
               posts[d] + queued[d] + Token(s, d) - Allowed(d)
  <2>1. Allowed(d)' = Allowed(d) /\ queued'[d] = queued[d]
    BY <1>1 DEF Allowed, bounds
  <2>2. posts'[d] + Token(s, d)' = posts[d] + Token(s, d)
    <3>1. CASE d = c
      <4>1. Token(s, d) = 1 /\ Token(s, d)' = 0
        BY <1>1, <1>2, <1>4, <3>1 DEF Token, Holds
      <4> QED
        BY <1>6, <3>1, <4>1, Still
    <3>2. CASE d # c
      <4>1. Token(s, d)' = Token(s, d)
        BY <1>1, <1>4, <3>2 DEF Token, Holds
      <4> QED
        BY <1>6, <3>2, <4>1
    <3> QED
      BY <3>1, <3>2
  <2>3. /\ posts[d] \in Nat /\ posts'[d] \in Nat /\ queued[d] \in Nat /\ Allowed(d) \in Nat
        /\ Token(s, d) \in Nat /\ Token(s, d)' \in Nat
    BY <1>6, Still DEF Token
  <2> QED
    BY <2>1, <2>2, <2>3
<1>9. /\ row' \in [Callbacks -> Row \cup {None}] /\ queued' \in [Callbacks -> Nat]
      /\ doubled' \in [Callbacks -> Nat]
      /\ sweeps' \in Nat /\ crashes' \in Nat /\ faults' \in Nat
  BY <1>1 DEF bounds, IInv, TypeOK
<1> QED
  BY <1>3, <1>4, <1>5, <1>6, <1>7, <1>8, <1>9, Passed

-----------------------------------------------------------------------------
LEMMA UpdateCallbackKept ==
  ASSUME IInv, NEW s \in Sessions, UpdateCallback(s)
  PROVE  IInv'
<1> DEFINE c == job[s]
<1>1. /\ pc[s] = "save" /\ row' = [row EXCEPT ![c] = copy[s]] /\ Done(s)
      /\ UNCHANGED <<queued, endpoint, bounds>>
  BY DEF UpdateCallback
<1>2. /\ c \in Callbacks /\ row[c] \in Row /\ copy[s] \in Row
      /\ copy[s].success => c \in heard
  BY <1>1 DEF IInv, SessionInv, TypeOK
<1>3. /\ row' \in [Callbacks -> Row \cup {None}] /\ row'[c] = copy[s]
      /\ \A d \in Callbacks \ {c} : row'[d] = row[d]
  BY <1>1, <1>2 DEF IInv, TypeOK
<1>4. /\ Locals(s) /\ SessionInv(s)'
      /\ \A d \in Callbacks : Token(s, d)' <= Token(s, d)
  BY <1>1, <1>2, <1>3, DoneKept
<1>5. ASSUME NEW d \in Callbacks
      PROVE  /\ row[d] \in Row => row'[d] \in Row
             /\ (d \in heard => d \in heard')
             /\ row'[d] = None => queued'[d] = 0 /\ posts'[d] = 0
             /\ row'[d] # None /\ row'[d].success => d \in heard'
  BY <1>1, <1>2, <1>3, Still DEF endpoint
<1>6. ASSUME NEW d \in Callbacks
      PROVE  posts'[d] + queued'[d] + Token(s, d)' - Allowed(d)' <=
               posts[d] + queued[d] + Token(s, d) - Allowed(d)
  <2>1. Allowed(d)' = Allowed(d) /\ queued'[d] = queued[d] /\ posts'[d] = posts[d]
    BY <1>1, <1>2, <1>3 DEF Allowed, bounds, endpoint
  <2>2. /\ posts[d] \in Nat /\ queued[d] \in Nat /\ Allowed(d) \in Nat
        /\ Token(s, d) \in Nat /\ Token(s, d)' \in Nat
    BY Still DEF Token
  <2>3. Token(s, d)' <= Token(s, d)
    BY <1>4
  <2> QED
    BY <2>1, <2>2, <2>3
<1>7. /\ queued' \in [Callbacks -> Nat] /\ posts' \in [Callbacks -> Nat]
      /\ heard' \subseteq Callbacks /\ doubled' \in [Callbacks -> Nat]
      /\ sweeps' \in Nat /\ crashes' \in Nat /\ faults' \in Nat
  BY <1>1 DEF endpoint, bounds, IInv, TypeOK
<1> HIDE DEF c
<1> QED
  BY <1>3, <1>4, <1>5, <1>6, <1>7, Passed

(* A sweep adds a token of every callback it is about to POST for.         *)
LEMMA SweepKept ==
  ASSUME IInv, NEW s \in Sessions, RetryPendingCallbacks(s)
  PROVE  IInv'
<1> DEFINE rows == {[id |-> c, copy |-> row[c]] : c \in {d \in Callbacks : Pending(d)}}
<1>1. /\ pc[s] = "idle" /\ sweeps' = sweeps + 1 /\ batch' = [batch EXCEPT ![s] = rows]
      /\ Goto(s, "sweep")
      /\ UNCHANGED <<row, queued, job, fromQueue, copy, endpoint, doubled, crashes, faults>>
  BY DEF RetryPendingCallbacks
<1>2. ASSUME NEW r \in rows
      PROVE  /\ r.id \in Callbacks /\ r.copy \in Row /\ ~r.copy.success
             /\ row[r.id] \in Row /\ r = [id |-> r.id, copy |-> row[r.id]]
  BY Still DEF Pending
<1>3. \A r, q \in rows : r.id = q.id => r = q
  BY <1>2
<1> HIDE DEF rows
<1>4. Locals(s) /\ pc'[s] = "sweep" /\ batch'[s] = rows
  BY <1>1, <1>2 DEF Locals, Goto, Labels, IInv, TypeOK
<1>5. fromQueue[s] = FALSE
  BY <1>1 DEF IInv, SessionInv, TypeOK
<1>6. SessionInv(s)'
  BY <1>1, <1>2, <1>3, <1>4, <1>5 DEF SessionInv
<1>7. ASSUME NEW d \in Callbacks
      PROVE  /\ row[d] \in Row => row'[d] \in Row
             /\ (d \in heard => d \in heard')
             /\ row'[d] = None => queued'[d] = 0 /\ posts'[d] = 0
             /\ row'[d] # None /\ row'[d].success => d \in heard'
  BY <1>1, Still DEF endpoint
<1>8. ASSUME NEW d \in Callbacks
      PROVE  posts'[d] + queued'[d] + Token(s, d)' - Allowed(d)' <=
               posts[d] + queued[d] + Token(s, d) - Allowed(d)
  <2>1. /\ Allowed(d)' = Allowed(d) + 1
        /\ queued'[d] = queued[d] /\ posts'[d] = posts[d]
    BY <1>1, Still DEF Allowed, endpoint
  <2>2. /\ posts[d] \in Nat /\ queued[d] \in Nat /\ Allowed(d) \in Nat
        /\ Token(s, d) \in Nat /\ Token(s, d)' \in {0, 1}
    BY Still DEF Token
  <2> QED
    BY <2>1, <2>2
<1>9. /\ row' \in [Callbacks -> Row \cup {None}] /\ queued' \in [Callbacks -> Nat]
      /\ posts' \in [Callbacks -> Nat] /\ heard' \subseteq Callbacks
      /\ doubled' \in [Callbacks -> Nat]
      /\ sweeps' \in Nat /\ crashes' \in Nat /\ faults' \in Nat
  BY <1>1 DEF endpoint, IInv, TypeOK
<1> QED
  BY <1>4, <1>6, <1>7, <1>8, <1>9, Passed

(* A lookup that fails gives the job back, any other failure gives up.     *)
LEMMA DBErrorKept ==
  ASSUME IInv, NEW s \in Sessions, DBError(s)
  PROVE  IInv'
<1>1. /\ pc[s] \in {"lookup", "read", "save"} /\ faults' = faults + 1
      /\ IF pc[s] = "lookup" THEN Enqueue(job[s]) /\ Return(s) ELSE UNCHANGED queued /\ Done(s)
      /\ UNCHANGED <<row, endpoint, doubled, sweeps, crashes>>
  BY DEF DBError
<1>2. faults' \in Nat
  BY <1>1 DEF IInv, TypeOK
<1>3. CASE pc[s] = "lookup"
  <2>1. ASSUME NEW c \in Callbacks
        PROVE  /\ queued'[c] + Token(s, c)' <= queued[c] + Token(s, c)
               /\ row[c] = None => queued'[c] = 0
    BY <1>1, <1>3, OneToken, Enqueued, ReturnKept, Still
  <2>2. queued' \in [Callbacks -> Nat]
    BY <1>1, <1>3, OneToken, Enqueued
  <2> QED
    BY <1>1, <1>2, <1>3, <2>1, <2>2, ReturnKept, HandedOver
<1>4. CASE pc[s] # "lookup"
  <2>1. /\ Locals(s) /\ SessionInv(s)'
        /\ \A c \in Callbacks : Token(s, c)' <= Token(s, c)
    BY <1>1, <1>4, DoneKept
  <2>2. ASSUME NEW c \in Callbacks
        PROVE  /\ queued'[c] + Token(s, c)' <= queued[c] + Token(s, c)
               /\ row[c] = None => queued'[c] = 0
    <3>1. Token(s, c)' <= Token(s, c) /\ Token(s, c)' \in Nat /\ Token(s, c) \in Nat
      BY <2>1, Still DEF Token
    <3> QED
      BY <1>1, <1>4, <3>1, Still
  <2>3. queued' \in [Callbacks -> Nat]
    BY <1>1, <1>4 DEF IInv, TypeOK
  <2> QED
    BY <1>1, <1>2, <2>1, <2>2, <2>3, HandedOver
<1> QED
  BY <1>3, <1>4

(* What ends without a trace: a goroutine or a sweep that dies, a job done. *)
LEMMA LeftKept ==
  ASSUME IInv, NEW s \in Sessions, Return(s), faults' \in Nat,
         UNCHANGED <<row, queued, endpoint, doubled, sweeps, crashes>>
  PROVE  IInv'
<1>1. queued' \in [Callbacks -> Nat]
  BY DEF IInv, TypeOK
<1>2. ASSUME NEW c \in Callbacks
      PROVE  /\ queued'[c] + Token(s, c)' <= queued[c] + Token(s, c)
             /\ row[c] = None => queued'[c] = 0
  <2>1. Token(s, c)' = 0 /\ Token(s, c) \in Nat
    BY ReturnKept, Still
  <2> QED
    BY <2>1, Still
<1> QED
  BY <1>1, <1>2, ReturnKept, HandedOver

LEMMA GoneKept ==
  ASSUME IInv, NEW s \in Sessions, Die(s) \/ JobDone(s)
  PROVE  IInv'
<1>1. faults' \in Nat
  BY DEF Die, JobDone, bounds, IInv, TypeOK
<1> QED
  BY <1>1, LeftKept DEF Die, JobDone, bounds

(* A worker that dies gives its job back, wherever it was.                 *)
LEMMA WorkerDiesKept ==
  ASSUME IInv, NEW s \in Sessions, WorkerDies(s)
  PROVE  IInv'
<1>1. /\ fromQueue[s] /\ crashes' = crashes + 1 /\ Enqueue(job[s]) /\ Return(s)
      /\ UNCHANGED <<row, endpoint, doubled, sweeps, faults>>
  BY DEF WorkerDies
<1>2. job[s] \in Callbacks /\ row[job[s]] \in Row
  BY <1>1 DEF IInv, SessionInv
<1>3. Locals(s) /\ SessionInv(s)' /\ \A c : Token(s, c)' = 0
  BY <1>1, ReturnKept
<1>4. /\ queued' \in [Callbacks -> Nat] /\ queued'[job[s]] = queued[job[s]] + 1
      /\ \A d \in Callbacks \ {job[s]} : queued'[d] = queued[d]
  BY <1>1, <1>2, Enqueued
<1>5. ASSUME NEW d \in Callbacks
      PROVE  /\ row[d] \in Row => row'[d] \in Row
             /\ (d \in heard => d \in heard')
             /\ row'[d] = None => queued'[d] = 0 /\ posts'[d] = 0
             /\ row'[d] # None /\ row'[d].success => d \in heard'
  BY <1>1, <1>2, <1>4, Still DEF endpoint
<1>6. ASSUME NEW d \in Callbacks
      PROVE  posts'[d] + queued'[d] + Token(s, d)' - Allowed(d)' <=
               posts[d] + queued[d] + Token(s, d) - Allowed(d)
  <2>1. Allowed(d)' = Allowed(d) + 1 /\ posts'[d] = posts[d] /\ queued'[d] <= queued[d] + 1
    BY <1>1, <1>4, Still DEF Allowed, endpoint
  <2>2. /\ posts[d] \in Nat /\ queued[d] \in Nat /\ queued'[d] \in Nat /\ Allowed(d) \in Nat
        /\ Token(s, d) \in Nat /\ Token(s, d)' = 0
    BY <1>3, <1>4, Still
  <2> QED
    BY <2>1, <2>2
<1>7. /\ row' \in [Callbacks -> Row \cup {None}] /\ posts' \in [Callbacks -> Nat]
      /\ heard' \subseteq Callbacks /\ doubled' \in [Callbacks -> Nat]
      /\ sweeps' \in Nat /\ crashes' \in Nat /\ faults' \in Nat
  BY <1>1 DEF endpoint, IInv, TypeOK
<1> QED
  BY <1>3, <1>4, <1>5, <1>6, <1>7, Passed

LEMMA NextInv == IInv /\ [Next]_vars => IInv'
<1> SUFFICES ASSUME IInv, [Next]_vars  PROVE IInv'
  OBVIOUS
<1>1. CASE UNCHANGED vars
  BY <1>1 DEF vars, local, endpoint, bounds, IInv, TypeOK, SessionInv, CallbackInv, Allowed,
     Holders, Holds
<1>2. CASE Next
  BY <1>2, SendKept, TakeJobKept, DispatchKept, ReadKept, NextPendingKept, PostKept,
     UpdateCallbackKept, SweepKept, DBErrorKept, GoneKept, WorkerDiesKept DEF Next, Execute
<1> QED
  BY <1>1, <1>2

LEMMA NotifyInvariant == Spec => []IInv
  BY InitInv, NextInv, PTL DEF Spec

(* Every variable stays in its domain, and a sweep holds only rows it has  *)
(* read undelivered.                                                       *)
THEOREM NotifyTypes == Spec => []TypeOK
<1>1. IInv => TypeOK
  BY DEF IInv
<1> QED
  BY <1>1, NotifyInvariant, PTL

(* A row that says success was answered with a 2xx, though deliveries      *)
(* overlap and write back copies that are out of date.                     *)
THEOREM SuccessWasHeard == Spec => []SuccessIsHeard
<1>1. IInv => SuccessIsHeard
  BY DEF IInv, CallbackInv, SuccessIsHeard
<1> QED
  BY <1>1, NotifyInvariant, PTL

(* An event is POSTed at most once, and once more for every worker that    *)
(* died, every sweep that ran and every enqueueing of it that failed after *)
(* the job was stored.                                                     *)
THEOREM PostsAreBudgeted == Spec => []PostsBudgeted
<1>1. IInv => PostsBudgeted
  <2> SUFFICES ASSUME IInv, NEW c \in Callbacks  PROVE posts[c] <= 1 + doubled[c] + crashes + sweeps
    BY DEF PostsBudgeted
  <2>1. posts[c] + queued[c] + Cardinality(Holders(c)) <= Allowed(c)
    BY DEF IInv, CallbackInv
  <2>2. Allowed(c) <= 1 + doubled[c] + crashes + sweeps
    BY Still DEF Allowed
  <2> QED
    BY <2>1, <2>2, Still, HoldersFinite
<1> QED
  BY <1>1, NotifyInvariant, PTL

-----------------------------------------------------------------------------
(* While no sweep has run, a callback whose job was not stored beside a    *)
(* goroutine is in one hand: its job in the queue or the one session that  *)
(* carries it.  So the row stays as that session has read it.              *)
Carries(s, c) == pc[s] \notin {"idle", "sweep"} /\ job[s] = c

OneHand(c) ==
  doubled[c] = 0 =>
    /\ queued[c] <= 1
    /\ \A s \in Sessions : Carries(s, c) =>
         queued[c] = 0 /\ \A t \in Sessions \ {s} : ~Carries(t, c)

NoSweep(s) == pc[s] # "sweep" /\ batch[s] = {}

UpToDate(s) ==
  pc[s] \in {"post", "save"} /\ doubled[job[s]] = 0 /\ row[job[s]].success => copy[s].success

Unswept ==
  sweeps = 0 =>
    /\ \A c \in Callbacks : OneHand(c)
    /\ \A s \in Sessions : NoSweep(s) /\ UpToDate(s)

LEMMA InitUnswept == Init => Unswept
  BY DEF Init, Unswept, OneHand, NoSweep, UpToDate, Carries

(* What session s takes or gives back is its own.                          *)
LEMMA HandsKept ==
  ASSUME IInv, Unswept, NEW s \in Sessions, Others(s), sweeps' = sweeps,
         queued' \in [Callbacks -> Nat],
         \A c \in Callbacks :
           doubled'[c] = 0 =>
             /\ doubled[c] = 0
             /\ Carries(s, c)' /\ sweeps = 0 =>
                  queued'[c] = 0 /\ \A t \in Sessions \ {s} : ~Carries(t, c)
             /\ queued'[c] <= queued[c] \/ (queued'[c] = queued[c] + 1 /\ Carries(s, c)),
         \A c \in Callbacks : row'[c] = row[c] \/ Carries(s, c) \/ row[c] = None,
         sweeps = 0 => NoSweep(s)' /\ UpToDate(s)'
  PROVE  Unswept'
<1> SUFFICES ASSUME sweeps = 0
             PROVE  /\ \A c \in Callbacks : OneHand(c)'
                    /\ \A t \in Sessions : NoSweep(t)' /\ UpToDate(t)'
  BY DEF Unswept
<1>1. ASSUME NEW c \in Callbacks, doubled'[c] = 0  PROVE OneHand(c)'
  <2>1. OneHand(c) /\ doubled[c] = 0 /\ queued[c] \in Nat /\ queued'[c] \in Nat
    BY <1>1 DEF Unswept, IInv, TypeOK
  <2>2. \A t \in Sessions \ {s} : Carries(t, c)' <=> Carries(t, c)
    BY DEF Others, Carries
  <2>3. CASE queued'[c] <= queued[c]
    BY <1>1, <2>1, <2>2, <2>3 DEF OneHand
  <2>4. CASE queued'[c] = queued[c] + 1 /\ Carries(s, c)
    BY <1>1, <2>1, <2>2, <2>4 DEF OneHand
  <2> QED
    BY <1>1, <2>3, <2>4
<1>2. \A c \in Callbacks : OneHand(c)'
  BY <1>1 DEF OneHand
<1>3. ASSUME NEW t \in Sessions, t # s  PROVE NoSweep(t)' /\ UpToDate(t)'
  <2>1. /\ NoSweep(t) /\ UpToDate(t)
        /\ pc'[t] = pc[t] /\ job'[t] = job[t] /\ copy'[t] = copy[t] /\ batch'[t] = batch[t]
    BY <1>3 DEF Unswept, Others
  <2>2. CASE pc[t] \in {"post", "save"} /\ doubled'[job[t]] = 0
    <3>1. job[t] \in Callbacks /\ Carries(t, job[t]) /\ row[job[t]] # None
      BY <2>2 DEF IInv, SessionInv, Carries
    <3>2. doubled[job[t]] = 0 /\ ~Carries(s, job[t])
      BY <1>3, <2>2, <3>1 DEF Unswept, OneHand
    <3>3. row'[job[t]] = row[job[t]]
      BY <3>1, <3>2
    <3> QED
      BY <2>1, <3>2, <3>3 DEF NoSweep, UpToDate
  <2>3. CASE ~(pc[t] \in {"post", "save"} /\ doubled'[job[t]] = 0)
    BY <2>1, <2>3 DEF NoSweep, UpToDate
  <2> QED
    BY <2>2, <2>3
<1> QED
  BY <1>2, <1>3

(* No step but that of a sweep makes or takes anything for others.         *)
LEMMA OwnStep ==
  ASSUME IInv, NEW s \in Sessions,
         \/ Execute(s) \/ DBError(s) \/ Die(s) \/ WorkerDies(s)
         \/ \E c \in Callbacks : SendOrderCallback(s, c) \/ TakeJob(s, c)
  PROVE  Others(s)
<1>1. \A t \in Sessions \ {s} :
        /\ pc'[t] = pc[t] /\ job'[t] = job[t] /\ fromQueue'[t] = fromQueue[t]
        /\ copy'[t] = copy[t] /\ batch'[t] = batch[t]
  <2> USE DEF IInv, TypeOK, Return, Goto, Done
  <2>1. CASE Execute(s)
    BY <2>1 DEF Execute, Dispatch, Dispatched, Queued, Refused, StoredAndRefused,
       DeliverCallback, GetCallbackByID, NextPending, DoHTTPPost, UpdateCallback, JobDone
  <2>2. CASE DBError(s) \/ Die(s) \/ WorkerDies(s)
    BY <2>2 DEF DBError, Die, WorkerDies
  <2>3. ASSUME NEW c \in Callbacks, SendOrderCallback(s, c) \/ TakeJob(s, c)
        PROVE  \A t \in Sessions \ {s} :
                 /\ pc'[t] = pc[t] /\ job'[t] = job[t] /\ fromQueue'[t] = fromQueue[t]
                 /\ copy'[t] = copy[t] /\ batch'[t] = batch[t]
    BY <2>3 DEF SendOrderCallback, TakeJob
  <2> QED
    BY <2>1, <2>2, <2>3
<1>2. \A c \in Callbacks : /\ row[c] \in Row => row'[c] \in Row
                           /\ (c \in heard => c \in heard')
  <2> USE DEF IInv, TypeOK, endpoint
  <2>1. CASE Execute(s)
    BY <2>1 DEF Execute, Dispatch, DeliverCallback, GetCallbackByID, NextPending,
       DoHTTPPost, UpdateCallback, JobDone
  <2>2. CASE DBError(s) \/ Die(s) \/ WorkerDies(s)
    BY <2>2 DEF DBError, Die, WorkerDies
  <2>3. ASSUME NEW c \in Callbacks, SendOrderCallback(s, c) \/ TakeJob(s, c)
        PROVE  \A d \in Callbacks : /\ row[d] \in Row => row'[d] \in Row
                                    /\ (d \in heard => d \in heard')
    BY <2>3 DEF SendOrderCallback, TakeJob
  <2> QED
    BY <2>1, <2>2, <2>3
<1> QED
  BY <1>1, <1>2 DEF Others

(* What a session that ends a delivery leaves behind.                      *)
LEMMA ReturnsUnswept ==
  ASSUME IInv, NEW s \in Sessions, Return(s)
  PROVE  NoSweep(s)' /\ UpToDate(s)' /\ \A c \in Callbacks : ~Carries(s, c)'
<1>1. pc'[s] = "idle" /\ batch'[s] = {}
  BY DEF IInv, TypeOK, Return, Goto
<1> QED
  BY <1>1 DEF NoSweep, UpToDate, Carries

LEMMA DoneUnswept ==
  ASSUME IInv, NEW s \in Sessions, NoSweep(s), pc[s] \in {"read", "save"}, Done(s)
  PROVE  NoSweep(s)' /\ UpToDate(s)' /\ \A c \in Callbacks : Carries(s, c)' => Carries(s, c)
<1>1. CASE ~fromQueue[s]
  BY <1>1, ReturnsUnswept DEF Done, NoSweep
<1>2. CASE fromQueue[s]
  <2>1. pc'[s] = "ack" /\ job'[s] = job[s] /\ batch'[s] = {}
    BY <1>2 DEF Done, Goto, NoSweep, IInv, TypeOK
  <2> QED
    BY <2>1 DEF NoSweep, UpToDate, Carries
<1> QED
  BY <1>1, <1>2

(* A step within a delivery: what s holds it has held before.              *)
LEMMA WorkUnswept ==
  ASSUME IInv, Unswept, NEW s \in Sessions, Others(s), UNCHANGED <<queued, doubled, sweeps>>,
         \A c \in Callbacks : Carries(s, c)' => Carries(s, c),
         \A c \in Callbacks : row'[c] = row[c] \/ Carries(s, c),
         sweeps = 0 => NoSweep(s)' /\ UpToDate(s)'
  PROVE  Unswept'
<1>1. queued' \in [Callbacks -> Nat] /\ queued \in [Callbacks -> Nat]
  BY DEF IInv, TypeOK
<1>2. ASSUME NEW c \in Callbacks, doubled'[c] = 0
      PROVE  /\ doubled[c] = 0
             /\ Carries(s, c)' /\ sweeps = 0 =>
                  queued'[c] = 0 /\ \A t \in Sessions \ {s} : ~Carries(t, c)
             /\ queued'[c] <= queued[c]
  BY <1>1, <1>2 DEF Unswept, OneHand
<1> QED
  BY <1>1, <1>2, HandsKept

(* Whether the job is stored, refused or both.                             *)
LEMMA DispatchUnswept ==
  ASSUME IInv, Unswept, NEW s \in Sessions, Dispatch(s)
  PROVE  Unswept'
<1>1. /\ sweeps' = sweeps /\ row' = row /\ pc[s] = "dispatch" /\ Dispatched(s)
      /\ queued \in [Callbacks -> Nat] /\ doubled \in [Callbacks -> Nat]
  BY DEF Dispatch, IInv, TypeOK
<1>2. job[s] \in Callbacks /\ Carries(s, job[s]) /\ Others(s)
  BY <1>1, OwnStep DEF IInv, SessionInv, Carries, Execute
<1>3. ASSUME Enqueue(job[s])
      PROVE  /\ queued' \in [Callbacks -> Nat]
             /\ \A c \in Callbacks :
                  queued'[c] <= queued[c] \/ (queued'[c] = queued[c] + 1 /\ Carries(s, c))
             /\ \A c \in Callbacks \ {job[s]} : queued'[c] = queued[c]
  BY <1>1, <1>2, <1>3, Enqueued
<1>4. ASSUME Goto(s, "read"), UNCHANGED <<job, batch>>
      PROVE  /\ sweeps = 0 => NoSweep(s)' /\ UpToDate(s)'
             /\ \A c \in Callbacks : Carries(s, c)' => Carries(s, c) /\ c = job[s]
  <2>1. pc'[s] = "read" /\ job'[s] = job[s] /\ batch' = batch
    BY <1>4 DEF IInv, TypeOK, Goto
  <2> QED
    BY <1>1, <2>1 DEF Unswept, NoSweep, UpToDate, Carries
<1>5. CASE Queued(s)
  <2>1. Return(s) /\ Enqueue(job[s]) /\ doubled' = doubled
    BY <1>5 DEF Queued
  <2> QED
    BY <1>1, <1>2, <1>3, <2>1, ReturnsUnswept, HandsKept
<1>6. CASE Refused(s)
  <2>1. Goto(s, "read") /\ UNCHANGED <<queued, doubled, job, batch>>
    BY <1>6 DEF Refused
  <2> QED
    BY <1>1, <1>2, <1>4, <2>1, WorkUnswept
<1>7. CASE StoredAndRefused(s)
  <2>1. /\ Goto(s, "read") /\ UNCHANGED <<job, batch>> /\ Enqueue(job[s])
        /\ doubled' = [doubled EXCEPT ![job[s]] = @ + 1]
    BY <1>7 DEF StoredAndRefused
  <2>2. \A c \in Callbacks : doubled'[c] = 0 => doubled[c] = 0 /\ c # job[s]
    BY <1>1, <1>2, <2>1
  <2> QED
    BY <1>1, <1>2, <1>3, <1>4, <2>1, <2>2, HandsKept
<1> QED
  BY <1>1, <1>5, <1>6, <1>7 DEF Dispatched

LEMMA ExecuteUnswept ==
  ASSUME IInv, Unswept, NEW s \in Sessions, Execute(s)
  PROVE  Unswept'
<1>1. Others(s)
  BY OwnStep
<1>2. sweeps = 0 => NoSweep(s) /\ UpToDate(s)
  BY DEF Unswept
<1>3. CASE DeliverCallback(s)
  <2>1. /\ UNCHANGED <<row, queued, doubled, sweeps, batch>>
        /\ pc[s] = "lookup" /\ pc'[s] = "read" /\ job'[s] = job[s]
    BY <1>3 DEF DeliverCallback, Goto, bounds, IInv, TypeOK
  <2>2. sweeps = 0 => NoSweep(s)' /\ UpToDate(s)'
    BY <1>2, <2>1 DEF NoSweep, UpToDate
  <2> QED
    BY <1>1, <2>1, <2>2, WorkUnswept DEF Carries
<1>4. CASE GetCallbackByID(s)
  <2>1. /\ UNCHANGED <<row, queued, doubled, sweeps, batch>>
        /\ pc[s] = "read" /\ pc'[s] = "post" /\ job'[s] = job[s] /\ copy'[s] = row[job[s]]
    BY <1>4 DEF GetCallbackByID, Goto, bounds, IInv, TypeOK
  <2>2. sweeps = 0 => NoSweep(s)' /\ UpToDate(s)'
    BY <1>2, <2>1 DEF NoSweep, UpToDate
  <2> QED
    BY <1>1, <2>1, <2>2, WorkUnswept DEF Carries
<1>5. CASE NextPending(s)
  <2>1. sweeps' = sweeps /\ sweeps # 0
    BY <1>2, <1>5 DEF NextPending, NoSweep, bounds
  <2> QED
    BY <2>1 DEF Unswept
<1>6. CASE DoHTTPPost(s)
  <2>1. copy[s] \in Row
    BY DEF IInv, TypeOK
  <2>2. copy[s].success => copy'[s].success
    BY <1>6, <2>1 DEF DoHTTPPost, AfterFailure, IInv, TypeOK, Row
  <2>3. /\ UNCHANGED <<row, queued, doubled, sweeps, batch>>
        /\ pc[s] = "post" /\ pc'[s] = "save" /\ job'[s] = job[s]
    BY <1>6 DEF DoHTTPPost, Goto, bounds, IInv, TypeOK
  <2>4. sweeps = 0 => NoSweep(s)' /\ UpToDate(s)'
    BY <1>2, <2>2, <2>3 DEF NoSweep, UpToDate
  <2> QED
    BY <1>1, <2>3, <2>4, WorkUnswept DEF Carries
<1>7. CASE UpdateCallback(s)
  <2>1. UNCHANGED <<queued, doubled, sweeps>> /\ pc[s] = "save" /\ Done(s)
    BY <1>7 DEF UpdateCallback, bounds
  <2>2. CASE sweeps # 0
    BY <2>1, <2>2 DEF Unswept
  <2>3. CASE sweeps = 0
    <3>1. \A c \in Callbacks : row'[c] = row[c] \/ Carries(s, c)
      BY <1>7, <2>1 DEF UpdateCallback, Carries, IInv, TypeOK
    <3> QED
      BY <1>1, <1>2, <2>1, <2>3, <3>1, DoneUnswept, WorkUnswept
  <2> QED
    BY <2>2, <2>3
<1>8. CASE JobDone(s)
  <2>1. UNCHANGED <<row, queued, doubled, sweeps>> /\ Return(s)
    BY <1>8 DEF JobDone, bounds
  <2> QED
    BY <1>1, <2>1, ReturnsUnswept, WorkUnswept
<1> QED
  BY <1>3, <1>4, <1>5, <1>6, <1>7, <1>8, DispatchUnswept DEF Execute

LEMMA CallsUnswept ==
  ASSUME IInv, Unswept, NEW s \in Sessions, NEW c \in Callbacks,
         SendOrderCallback(s, c) \/ TakeJob(s, c)
  PROVE  Unswept'
<1>1. /\ Others(s) /\ queued \in [Callbacks -> Nat]
      /\ queued' \in [Callbacks -> Nat]
  <2>1. queued \in [Callbacks -> Nat]
    BY DEF IInv, TypeOK
  <2> QED
    BY <2>1, OwnStep DEF SendOrderCallback, TakeJob
<1>2. sweeps = 0 => NoSweep(s) /\ UpToDate(s) /\ \A d \in Callbacks : OneHand(d)
  BY DEF Unswept
<1>3. /\ sweeps' = sweeps /\ doubled' = doubled /\ batch' = batch /\ job'[s] = c
      /\ pc'[s] \in {"dispatch", "lookup"} /\ pc[s] = "idle"
  BY DEF SendOrderCallback, TakeJob, Goto, bounds, IInv, TypeOK
<1>4. sweeps = 0 => NoSweep(s)' /\ UpToDate(s)'
  BY <1>2, <1>3 DEF NoSweep, UpToDate
<1>5. \A d \in Callbacks : Carries(s, d)' => d = c
  BY <1>3 DEF Carries
<1>6. CASE SendOrderCallback(s, c)
  <2>1. /\ queued' = queued /\ row[c] = None
        /\ \A d \in Callbacks \ {c} : row'[d] = row[d]
    BY <1>6 DEF SendOrderCallback, IInv, TypeOK
  <2>2. queued[c] = 0 /\ \A t \in Sessions : ~Carries(t, c)
    BY <2>1 DEF IInv, CallbackInv, SessionInv, Carries
  <2> QED
    BY <1>1, <1>3, <1>4, <1>5, <2>1, <2>2, HandsKept
<1>7. CASE TakeJob(s, c)
  <2>1. /\ row' = row /\ queued[c] > 0 /\ queued'[c] = queued[c] - 1
        /\ \A d \in Callbacks \ {c} : queued'[d] = queued[d]
    BY <1>7 DEF TakeJob, IInv, TypeOK
  <2>2. sweeps = 0 /\ doubled[c] = 0 => queued'[c] = 0 /\ \A t \in Sessions : ~Carries(t, c)
    BY <1>1, <1>2, <2>1 DEF OneHand
  <2>3. \A d \in Callbacks : queued'[d] <= queued[d]
    BY <1>1, <2>1
  <2> QED
    BY <1>1, <1>3, <1>4, <1>5, <2>1, <2>2, <2>3, HandsKept
<1> QED
  BY <1>6, <1>7

(* A job goes back to the queue from the hand that carried it.             *)
LEMMA FailuresUnswept ==
  ASSUME IInv, Unswept, NEW s \in Sessions, DBError(s) \/ Die(s) \/ WorkerDies(s)
  PROVE  Unswept'
<1>1. Others(s) /\ queued \in [Callbacks -> Nat]
  BY OwnStep DEF IInv, TypeOK
<1>2. UNCHANGED <<row, doubled, sweeps>>
  BY DEF DBError, Die, WorkerDies
<1>3. CASE Return(s) /\ Enqueue(job[s]) /\ pc[s] \notin {"idle", "sweep"}
  <2>1. job[s] \in Callbacks /\ Carries(s, job[s])
    BY <1>3 DEF IInv, SessionInv, Carries
  <2>2. /\ queued' \in [Callbacks -> Nat] /\ queued'[job[s]] = queued[job[s]] + 1
        /\ \A c \in Callbacks \ {job[s]} : queued'[c] = queued[c]
    BY <1>3, <2>1, Enqueued
  <2>3. \A c \in Callbacks : queued'[c] <= queued[c] \/ (queued'[c] = queued[c] + 1 /\ Carries(s, c))
    BY <1>1, <2>1, <2>2
  <2> QED
    BY <1>1, <1>2, <1>3, <2>2, <2>3, ReturnsUnswept, HandsKept
<1>4. CASE Return(s) /\ UNCHANGED queued
  BY <1>1, <1>2, <1>4, ReturnsUnswept, WorkUnswept
<1>5. CASE Done(s) /\ UNCHANGED queued /\ pc[s] \in {"read", "save"}
  <2>1. CASE sweeps # 0
    BY <1>2, <2>1 DEF Unswept
  <2>2. CASE sweeps = 0
    BY <1>1, <1>2, <1>5, <2>2, DoneUnswept, WorkUnswept DEF Unswept
  <2> QED
    BY <2>1, <2>2
<1>6. \/ Return(s) /\ Enqueue(job[s]) /\ pc[s] \notin {"idle", "sweep"}
      \/ Return(s) /\ UNCHANGED queued
      \/ Done(s) /\ UNCHANGED queued /\ pc[s] \in {"read", "save"}
  BY DEF DBError, Die, WorkerDies, IInv, SessionInv
<1> QED
  BY <1>3, <1>4, <1>5, <1>6

LEMMA NextUnswept == IInv /\ Unswept /\ [Next]_vars => Unswept'
<1> SUFFICES ASSUME IInv, Unswept, [Next]_vars  PROVE Unswept'
  OBVIOUS
<1>1. CASE UNCHANGED vars
  BY <1>1 DEF vars, local, bounds, Unswept, OneHand, NoSweep, UpToDate, Carries
<1>2. ASSUME NEW s \in Sessions, RetryPendingCallbacks(s)  PROVE Unswept'
  <2>1. sweeps' # 0
    BY <1>2 DEF RetryPendingCallbacks, IInv, TypeOK
  <2> QED
    BY <2>1 DEF Unswept
<1> QED
  BY <1>1, <1>2, ExecuteUnswept, CallsUnswept, FailuresUnswept DEF Next

(* Until a sweep runs, a success that is recorded stays recorded, unless   *)
(* the job was stored beside a goroutine: a job that is delivered again,   *)
(* even after its outcome was saved, may POST again but does not erase it. *)
THEOREM SuccessStays == Spec => SuccessKept
<1> DEFINE Kept(c) == sweeps = 0 /\ doubled[c] = 0 /\ row[c] # None /\ row[c].success => row'[c].success
<1>1. ASSUME IInv, Unswept, [Next]_vars  PROVE [\A c \in Callbacks : Kept(c)]_row
  <2> SUFFICES ASSUME NEW c \in Callbacks, sweeps = 0, doubled[c] = 0, row[c] # None, row[c].success,
                      row'[c] # row[c]
               PROVE  row'[c].success
    OBVIOUS
  <2>1. PICK s \in Sessions : UpdateCallback(s) /\ job[s] = c
    <3>1. PICK s \in Sessions : UpdateCallback(s) \/ \E d \in Callbacks : SendOrderCallback(s, d)
      BY <1>1 DEF Next, Execute, Dispatch, DeliverCallback, GetCallbackByID, NextPending,
         DoHTTPPost, JobDone, TakeJob, DBError, Die, WorkerDies, RetryPendingCallbacks, vars
    <3>2. ~\E d \in Callbacks : SendOrderCallback(s, d)
      BY <1>1 DEF SendOrderCallback, IInv, TypeOK
    <3> QED
      BY <1>1, <3>1, <3>2 DEF UpdateCallback, IInv, TypeOK
  <2>2. copy[s].success
    BY <1>1, <2>1 DEF UpdateCallback, Unswept, UpToDate
  <2> QED
    BY <1>1, <2>1, <2>2 DEF UpdateCallback, IInv, TypeOK
<1>2. Init => Unswept
  BY InitUnswept
<1>3. IInv /\ Unswept /\ [Next]_vars => Unswept'
  BY NextUnswept
<1> QED
  BY <1>1, <1>2, <1>3, NotifyInvariant, PTL DEF Spec, SuccessKept

-----------------------------------------------------------------------------
(* A job in the queue, or a session on its way to the POST, will tell the  *)
(* customer of callback c.                                                 *)
Brings(s, c) == pc[s] \in {"dispatch", "lookup", "read", "post"} /\ job[s] = c
OnItsWay(c) == queued[c] > 0 \/ \E s \in Sessions : Brings(s, c)

(* No event is dropped: as long as no statement has failed and no API      *)
(* process has died, a callback that was never POSTed is in the queue or   *)
(* with a session that has yet to POST it.                                 *)
NotDropped ==
  \A c \in Callbacks : row[c] # None /\ posts[c] = 0 /\ faults = 0 => OnItsWay(c)

(* The step of session s hands the callback on or keeps it.                *)
LEMMA WayKept ==
  ASSUME NEW s \in Sessions, NEW c \in Callbacks, OnItsWay(c),
         \A t \in Sessions \ {s} : pc'[t] = pc[t] /\ job'[t] = job[t],
         queued[c] > 0 => queued'[c] > 0 \/ Brings(s, c)',
         Brings(s, c) => queued'[c] > 0 \/ Brings(s, c)'
  PROVE  OnItsWay(c)'
  BY DEF OnItsWay, Brings

LEMMA DropStep ==
  ASSUME IInv, NotDropped, Next, NEW c \in Callbacks,
         row'[c] # None, posts'[c] = 0, faults' = 0
  PROVE  OnItsWay(c)'
<1>1. /\ queued \in [Callbacks -> Nat] /\ posts \in [Callbacks -> Nat]
      /\ row \in [Callbacks -> Row \cup {None}]
      /\ faults \in Nat
      /\ pc \in [Sessions -> Labels] /\ job \in [Sessions -> Callbacks \cup {None}]
      /\ \A s \in Sessions :
           /\ pc[s] \notin {"idle", "sweep"} => job[s] \in Callbacks
           /\ fromQueue[s] => pc[s] \in {"lookup", "read", "post", "save", "ack"}
  BY DEF IInv, TypeOK, SessionInv
<1>2. CASE UNCHANGED row /\ UNCHANGED posts /\ UNCHANGED faults
           /\ \E s \in Sessions : \/ Dispatch(s) \/ DeliverCallback(s) \/ GetCallbackByID(s)
                                  \/ NextPending(s) \/ JobDone(s) \/ RetryPendingCallbacks(s)
                                  \/ WorkerDies(s)
                                  \/ \E d \in Callbacks : TakeJob(s, d)
  <2>1. OnItsWay(c)
    BY <1>2 DEF NotDropped
  <2>2. PICK s \in Sessions : \/ Dispatch(s) \/ DeliverCallback(s) \/ GetCallbackByID(s)
                              \/ NextPending(s) \/ JobDone(s) \/ RetryPendingCallbacks(s)
                              \/ WorkerDies(s)
                              \/ \E d \in Callbacks : TakeJob(s, d)
    BY <1>2
  <2>3. \A t \in Sessions \ {s} : pc'[t] = pc[t] /\ job'[t] = job[t]
    BY <1>1, <2>2 DEF Dispatch, Dispatched, Queued, Refused, StoredAndRefused, DeliverCallback,
       GetCallbackByID, NextPending, JobDone, RetryPendingCallbacks, WorkerDies, TakeJob,
       Return, Goto
  <2>4. CASE Dispatch(s)
    <3>1. CASE Queued(s)
      BY <1>1, <2>1, <2>3, <2>4, <3>1, WayKept DEF Dispatch, Queued, Enqueue, Brings
    <3>2. CASE Refused(s) \/ StoredAndRefused(s)
      BY <1>1, <2>1, <2>3, <3>2, WayKept DEF Refused, StoredAndRefused, Enqueue, Goto, Brings
    <3> QED BY <2>4, <3>1, <3>2 DEF Dispatch, Dispatched
  <2>5. CASE DeliverCallback(s) \/ GetCallbackByID(s)
    BY <1>1, <2>1, <2>3, <2>5, WayKept DEF DeliverCallback, GetCallbackByID, Goto, Brings
  <2>6. CASE NextPending(s) \/ JobDone(s) \/ RetryPendingCallbacks(s)
    <3>1. UNCHANGED queued /\ pc[s] \in {"sweep", "idle", "ack"}
      BY <2>6 DEF NextPending, JobDone, RetryPendingCallbacks
    <3> QED
      BY <2>1, <2>3, <3>1, WayKept DEF Brings
  <2>7. CASE WorkerDies(s)
    BY <1>1, <2>1, <2>3, <2>7, WayKept DEF WorkerDies, Enqueue, Brings
  <2>8. ASSUME NEW d \in Callbacks, TakeJob(s, d)  PROVE OnItsWay(c)'
    <3>1. CASE d = c
      BY <1>1, <2>8, <3>1 DEF TakeJob, Goto, OnItsWay, Brings
    <3>2. CASE d # c
      BY <1>1, <2>1, <2>3, <2>8, <3>2, WayKept DEF TakeJob, Brings
    <3> QED BY <3>1, <3>2
  <2> QED
    BY <2>2, <2>4, <2>5, <2>6, <2>7, <2>8
<1>3. ASSUME NEW s \in Sessions, NEW d \in Callbacks, SendOrderCallback(s, d)
      PROVE  OnItsWay(c)'
  <2>1. CASE d = c
    BY <1>1, <1>3, <2>1 DEF SendOrderCallback, Goto, OnItsWay, Brings
  <2>2. CASE d # c
    <3>1. OnItsWay(c)
      BY <1>1, <1>3, <2>2 DEF NotDropped, SendOrderCallback, endpoint, bounds
    <3> QED
      BY <1>1, <1>3, <2>2, <3>1, WayKept DEF SendOrderCallback, Goto, Brings
  <2> QED BY <2>1, <2>2
<1>4. ASSUME NEW s \in Sessions, DoHTTPPost(s)
      PROVE  OnItsWay(c)'
  <2>1. job[s] # c /\ posts'[c] = posts[c]
    BY <1>1, <1>4 DEF DoHTTPPost
  <2>2. OnItsWay(c)
    BY <1>4, <2>1 DEF NotDropped, DoHTTPPost, bounds
  <2>3. \A t \in Sessions \ {s} : pc'[t] = pc[t] /\ job'[t] = job[t]
    BY <1>1, <1>4 DEF DoHTTPPost, Goto
  <2> QED
    BY <1>4, <2>1, <2>2, <2>3, WayKept DEF DoHTTPPost, Brings
<1>5. ASSUME NEW s \in Sessions, UpdateCallback(s)
      PROVE  OnItsWay(c)'
  <2>1. row[c] # None /\ UNCHANGED <<posts, faults, queued>>
    BY <1>1, <1>5 DEF UpdateCallback, endpoint, bounds, IInv, SessionInv
  <2>2. OnItsWay(c)
    BY <1>5, <2>1 DEF NotDropped
  <2>3. \A t \in Sessions \ {s} : pc'[t] = pc[t] /\ job'[t] = job[t]
    BY <1>1, <1>5 DEF UpdateCallback, Done, Return, Goto
  <2> QED
    BY <1>5, <2>1, <2>2, <2>3, WayKept DEF UpdateCallback, Brings
<1>6. ASSUME NEW s \in Sessions, DBError(s) \/ Die(s)
      PROVE  OnItsWay(c)'
  BY <1>1, <1>6 DEF DBError, Die
<1>7. ASSUME NEW s \in Sessions, Dispatch(s) \/ DeliverCallback(s) \/ GetCallbackByID(s)
               \/ NextPending(s) \/ JobDone(s) \/ RetryPendingCallbacks(s) \/ WorkerDies(s)
               \/ \E d \in Callbacks : TakeJob(s, d)
      PROVE  UNCHANGED row /\ UNCHANGED posts /\ UNCHANGED faults
  BY <1>7 DEF Dispatch, DeliverCallback, GetCallbackByID, NextPending,
     JobDone, RetryPendingCallbacks, WorkerDies, TakeJob, endpoint, bounds
<1> QED
  BY <1>2, <1>3, <1>4, <1>5, <1>6, <1>7 DEF Next, Execute

(* The safety part of FirstPost: neither the queue's refusals, nor workers *)
(* that die with a job, nor lookups the queue repeats, nor overlapping     *)
(* sweeps make the service forget an event before its first POST.          *)
THEOREM EventsNotDropped == Spec => []NotDropped
<1>1. Init => NotDropped
  BY DEF Init, NotDropped
<1>2. IInv /\ NotDropped /\ [Next]_vars => NotDropped'
  <2> SUFFICES ASSUME IInv, NotDropped, [Next]_vars  PROVE NotDropped'
    OBVIOUS
  <2>1. CASE Next
    BY <2>1, DropStep DEF NotDropped
  <2>2. CASE UNCHANGED vars
    BY <2>2 DEF vars, local, endpoint, bounds, NotDropped, OnItsWay, Brings
  <2> QED BY <2>1, <2>2
<1> QED
  BY <1>1, <1>2, NotifyInvariant, PTL DEF Spec
=============================================================================
