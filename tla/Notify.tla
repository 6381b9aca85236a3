------------------------------- MODULE Notify -------------------------------
(***************************************************************************)
(* Webhooks to customers, internal/module/notify: SendOrderCallback writes *)
(* a callback row and hands it to the queue or to a goroutine, which POSTs *)
(* it and saves the outcome; RetryPendingCallbacks POSTs again what has    *)
(* not succeeded.                                                          *)
(*                                                                         *)
(* The row is read, held during the POST and saved whole.  The backoff is  *)
(* left out: enough time may always have passed since the last try, and a  *)
(* row that was never tried has no next_retry_at and is due at once.       *)
(***************************************************************************)
EXTENDS Integers, FiniteSets

CONSTANTS Callbacks,  \* identities of order_callbacks rows
          Sessions,   \* goroutines and queue workers
          MaxRetry,   \* maxRetryCount, 5 in the code
          MaxSweeps,  \* bound: runs of RetryPendingCallbacks
          MaxFailures, \* bound: workers or goroutines that die, statements that fail
          None

ASSUME MaxRetryAssumption == MaxRetry \in Nat \ {0}
ASSUME NoneAssumption == None \notin Callbacks
ASSUME SessionsAssumption == IsFiniteSet(Sessions)

VARIABLES row,       \* row[c]: its [success, retries], or None
          queued,    \* queued[c]: webhook:deliver jobs waiting for a worker
          pc,        \* where each session is
          job,       \* the callback it is delivering
          fromQueue, \* whether it is a worker holding a queue job
          copy,      \* the row as it read it, then with the outcome
          batch,     \* the rows [id, copy] a sweep has still to deliver
          posts,     \* posts[c]: POSTs sent for it
          heard,     \* the callbacks whose POST got a 2xx answer
          doubled,   \* doubled[c]: enqueues of c that stored the job and returned an error
          sweeps, crashes, faults \* counters of the bounds

local == <<pc, job, fromQueue, copy, batch>>
endpoint == <<posts, heard>>
bounds == <<doubled, sweeps, crashes, faults>>
vars == <<row, queued, local, endpoint, bounds>>

Row == [success : BOOLEAN, retries : Nat]
ASSUME NoRowAssumption == None \notin Row
Fresh == [success |-> FALSE, retries |-> 0]

Init ==
  /\ row = [c \in Callbacks |-> None]
  /\ queued = [c \in Callbacks |-> 0]
  /\ pc = [s \in Sessions |-> "idle"]
  /\ job = [s \in Sessions |-> None]
  /\ fromQueue = [s \in Sessions |-> FALSE]
  /\ copy = [s \in Sessions |-> Fresh]
  /\ batch = [s \in Sessions |-> {}]
  /\ posts = [c \in Callbacks |-> 0]
  /\ heard = {}
  /\ doubled = [c \in Callbacks |-> 0]
  /\ sweeps = 0
  /\ crashes = 0
  /\ faults = 0

Goto(s, label) == pc' = [pc EXCEPT ![s] = label]
Enqueue(c) == queued' = [queued EXCEPT ![c] = @ + 1]

Return(s) ==
  /\ Goto(s, "idle")
  /\ job' = [job EXCEPT ![s] = None]
  /\ fromQueue' = [fromQueue EXCEPT ![s] = FALSE]
  /\ copy' = [copy EXCEPT ![s] = Fresh]
  /\ batch' = [batch EXCEPT ![s] = {}]

(* SendOrderCallback creates the row ...                                   *)
SendOrderCallback(s, c) ==
  /\ pc[s] = "idle"
  /\ row[c] = None
  /\ row' = [row EXCEPT ![c] = Fresh]
  /\ job' = [job EXCEPT ![s] = c]
  /\ Goto(s, "dispatch")
  /\ UNCHANGED <<queued, fromQueue, copy, batch, endpoint, bounds>>

(* ... and enqueues a job or, without a queue or when Enqueue returns an  *)
(* error, delivers it in a goroutine.  The error does not say that the job *)
(* was not stored: the answer of Redis may be lost or late, and the script *)
(* that the client then repeats finds its own job there.                   *)
Queued(s) == Return(s) /\ Enqueue(job[s]) /\ UNCHANGED doubled
Refused(s) == Goto(s, "read") /\ UNCHANGED <<queued, job, fromQueue, copy, batch, doubled>>
StoredAndRefused(s) ==
  /\ Goto(s, "read")
  /\ Enqueue(job[s])
  /\ doubled' = [doubled EXCEPT ![job[s]] = @ + 1]
  /\ UNCHANGED <<job, fromQueue, copy, batch>>

ReturnForgotten(s) ==
  Goto(s, "read") /\ Enqueue(job[s]) /\ UNCHANGED <<job, fromQueue, copy, batch, doubled>>
FallbackForgotten(s) == Return(s) /\ (Enqueue(job[s]) \/ UNCHANGED queued) /\ UNCHANGED doubled
Dispatched(s) == Queued(s) \/ Refused(s) \/ StoredAndRefused(s)

Dispatch(s) ==
  /\ pc[s] = "dispatch"
  /\ Dispatched(s)
  /\ UNCHANGED <<row, endpoint, sweeps, crashes, faults>>

(* A worker takes a job; DeliverCallback looks the row up to have its id.  *)
TakeJob(s, c) ==
  /\ pc[s] = "idle"
  /\ queued[c] > 0
  /\ queued' = [queued EXCEPT ![c] = @ - 1]
  /\ job' = [job EXCEPT ![s] = c]
  /\ fromQueue' = [fromQueue EXCEPT ![s] = TRUE]
  /\ Goto(s, "lookup")
  /\ UNCHANGED <<row, copy, batch, endpoint, bounds>>

DeliverCallback(s) ==
  /\ pc[s] = "lookup"
  /\ Goto(s, "read")
  /\ UNCHANGED <<row, queued, job, fromQueue, copy, batch, endpoint, bounds>>

(* deliverCallback reads the row; a success already there stops nothing.   *)
GetCallbackByID(s) ==
  /\ pc[s] = "read"
  /\ copy' = [copy EXCEPT ![s] = row[job[s]]]
  /\ Goto(s, "post")
  /\ UNCHANGED <<row, queued, job, fromQueue, batch, endpoint, bounds>>

(* RetryPendingCallbacks reads every row that may be tried again ...       *)
AnyRow(c) == row[c] # None
Pending(c) == row[c] # None /\ ~row[c].success /\ row[c].retries < MaxRetry

RetryPendingCallbacks(s) ==
  /\ pc[s] = "idle"
  /\ sweeps < MaxSweeps
  /\ sweeps' = sweeps + 1
  /\ batch' = [batch EXCEPT ![s] = {[id |-> c, copy |-> row[c]] : c \in {d \in Callbacks : Pending(d)}}]
  /\ Goto(s, "sweep")
  /\ UNCHANGED <<row, queued, job, fromQueue, copy, endpoint, doubled, crashes, faults>>

(* ... and delivers them one by one.                                       *)
NextPending(s) ==
  /\ pc[s] = "sweep"
  /\ \/ batch[s] = {} /\ Return(s)
     \/ \E r \in batch[s] :
          /\ job' = [job EXCEPT ![s] = r.id]
          /\ copy' = [copy EXCEPT ![s] = r.copy]
          /\ batch' = [batch EXCEPT ![s] = @ \ {r}]
          /\ Goto(s, "post")
          /\ UNCHANGED fromQueue
  /\ UNCHANGED <<row, queued, endpoint, bounds>>

(* The POST: only a complete answer with a 2xx status is a success.        *)
AlwaysSuccess(r) == [r EXCEPT !.success = TRUE]
FailureRecorded(r) == [success |-> FALSE, retries |-> r.retries + 1]
AfterFailure(r) == [r EXCEPT !.retries = @ + 1]

DoHTTPPost(s) ==
  /\ pc[s] = "post"
  /\ posts' = [posts EXCEPT ![job[s]] = @ + 1]
  /\ \/ /\ copy' = [copy EXCEPT ![s].success = TRUE]
        /\ heard' = heard \cup {job[s]}
     \/ /\ copy' = [copy EXCEPT ![s] = AfterFailure(@)]
        /\ UNCHANGED heard
  /\ Goto(s, "save")
  /\ UNCHANGED <<row, queued, job, fromQueue, batch, bounds>>

(* A delivery is over: a sweep goes on with its next row, and a worker     *)
(* holds its job until the queue has taken note that it is done.           *)
Done(s) ==
  IF ~fromQueue[s] /\ batch[s] = {}
  THEN Return(s)
  ELSE /\ Goto(s, IF fromQueue[s] THEN "ack" ELSE "sweep")
       /\ copy' = [copy EXCEPT ![s] = Fresh]
       /\ UNCHANGED <<job, fromQueue, batch>>

(* UpdateCallback saves every column of the copy.                          *)
UpdateCallback(s) ==
  /\ pc[s] = "save"
  /\ row' = [row EXCEPT ![job[s]] = copy[s]]
  /\ Done(s)
  /\ UNCHANGED <<queued, endpoint, bounds>>

JobDone(s) ==
  /\ pc[s] = "ack"
  /\ Return(s)
  /\ UNCHANGED <<row, queued, endpoint, bounds>>

-----------------------------------------------------------------------------
(* A statement fails.  A failed lookup is an error of the job, which the   *)
(* queue tries again; any other is logged and the delivery is over.        *)
DBError(s) ==
  /\ pc[s] \in {"lookup", "read", "save"}
  /\ crashes + faults < MaxFailures
  /\ faults' = faults + 1
  /\ IF pc[s] = "lookup" THEN Enqueue(job[s]) /\ Return(s) ELSE UNCHANGED queued /\ Done(s)
  /\ UNCHANGED <<row, endpoint, doubled, sweeps, crashes>>

(* The process of a handler, sweep or goroutine dies.                      *)
Die(s) ==
  /\ pc[s] # "idle"
  /\ ~fromQueue[s]
  /\ crashes + faults < MaxFailures
  /\ faults' = faults + 1
  /\ Return(s)
  /\ UNCHANGED <<row, queued, endpoint, doubled, sweeps, crashes>>

(* A queue worker dies and the queue delivers its job again.               *)
WorkerDies(s) ==
  /\ fromQueue[s]
  /\ crashes + faults < MaxFailures
  /\ crashes' = crashes + 1
  /\ Enqueue(job[s])
  /\ Return(s)
  /\ UNCHANGED <<row, endpoint, doubled, sweeps, faults>>

Execute(s) ==
  \/ Dispatch(s) \/ DeliverCallback(s) \/ GetCallbackByID(s)
  \/ NextPending(s) \/ DoHTTPPost(s) \/ UpdateCallback(s) \/ JobDone(s)

Next ==
  \E s \in Sessions :
    \/ Execute(s) \/ RetryPendingCallbacks(s)
    \/ DBError(s) \/ Die(s) \/ WorkerDies(s)
    \/ \E c \in Callbacks : SendOrderCallback(s, c) \/ TakeJob(s, c)

Spec == Init /\ [][Next]_vars

(* Goroutines and workers keep running, a POST answers or times out after  *)
(* ten seconds, and workers take jobs.  No call need ever be made.         *)
Fairness ==
  \A s \in Sessions :
    WF_vars(Execute(s)) /\ WF_vars(\E c \in Callbacks : TakeJob(s, c))

FairSpec == Spec /\ Fairness
-----------------------------------------------------------------------------
Labels == {"idle", "dispatch", "lookup", "read", "sweep", "post", "save", "ack"}

(* Every variable stays in its domain; a sweep holds one copy of a row,    *)
(* and only of rows not yet delivered.                                     *)
TypeOK ==
  /\ row \in [Callbacks -> Row \cup {None}]
  /\ queued \in [Callbacks -> Nat]
  /\ pc \in [Sessions -> Labels]
  /\ job \in [Sessions -> Callbacks \cup {None}]
  /\ fromQueue \in [Sessions -> BOOLEAN]
  /\ copy \in [Sessions -> Row]
  /\ \A s \in Sessions : \A r \in batch[s] :
       r.id \in Callbacks /\ r.copy \in Row /\ ~r.copy.success
  /\ posts \in [Callbacks -> Nat]
  /\ heard \subseteq Callbacks
  /\ doubled \in [Callbacks -> Nat]
  /\ sweeps \in Nat /\ crashes \in Nat /\ faults \in Nat

(* A row that says success was answered with a 2xx, though deliveries      *)
(* overlap and write back copies that are out of date.                     *)
SuccessIsHeard ==
  \A c \in Callbacks : row[c] # None /\ row[c].success => c \in heard

(* An event is POSTed once, and again only because its enqueueing failed   *)
(* after the job was stored, a worker died or a sweep ran: once more for   *)
(* each of these.                                                          *)
PostsBudgeted ==
  \A c \in Callbacks : posts[c] <= 1 + doubled[c] + crashes + sweeps

(* As long as its job was not stored beside a goroutine and no sweep       *)
(* overlaps with other deliveries, a recorded success stays recorded: a    *)
(* job delivered again, the row saved but the worker dead before the queue *)
(* knew, may POST again and fail, but does not erase it.                   *)
SuccessKept ==
  [][\A c \in Callbacks :
       sweeps = 0 /\ doubled[c] = 0 /\ row[c] # None /\ row[c].success => row'[c].success]_row

(* Every callback is POSTed, though the queue may refuse its job and       *)
(* workers die; only a failed statement or a dead process can prevent it.  *)
FirstPost ==
  \A c \in Callbacks : row[c] # None ~> posts[c] > 0 \/ faults > 0
=============================================================================
