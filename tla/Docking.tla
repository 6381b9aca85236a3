------------------------------ MODULE Docking ------------------------------
(***************************************************************************)
(* Submission of orders to upstream suppliers, internal/module/docking:    *)
(* SubmitOrder, ExecuteTask, executeSubmit with handleSuccess and          *)
(* handleFailure, RetryPendingTasks and ManualRetry, with the adapter's    *)
(* retry loop (internal/adapter) and the job queue around them.            *)
(*                                                                         *)
(* A session is one goroutine of the API process or one queue worker.  Each *)
(* database statement is a step.  Backoff is left out: enough time may     *)
(* always have passed, so next_retry_at stops nobody.                      *)
(***************************************************************************)
EXTENDS Integers, FiniteSets

CONSTANTS Orders,     \* an order has at most one task (unique index on order_id)
          Sessions,   \* goroutines and queue workers
          MaxRetry,   \* the task's max_retry, 5 in SubmitOrder
          Attempts,   \* requests one adapter call makes at most, 3 in the code
          MaxManual,  \* bound: manual retries of a task
          MaxCrashes, \* bound: queue workers that die
          MaxFaults,  \* bound: statements that fail and goroutines that die
          None

ASSUME MaxRetryAssumption == MaxRetry \in Nat \ {0}
ASSUME AttemptsAssumption == Attempts \in Nat \ {0}
Statuses == {"Pending", "Locked", "Submitted", "Failed"}

ASSUME NoneAssumption == None \notin Orders \cup Statuses

VARIABLES status,   \* status[o] of the order's task, None before it exists
          retries,  \* its retry_count
          queued,   \* queued[o]: docking:submit jobs waiting for a worker
          pc,       \* where each session is
          job,      \* the order whose task it serves
          fromQueue,\* whether it is a worker holding a queue job
          seen,     \* the retry_count it read with the task
          tries,    \* requests made in the current adapter call
          accepted, \* orders the supplier has taken for o
          lost,     \* those whose acceptance never reached us
          rounds,   \* adapter calls since the task was created or reset
          manual, crashes, faults \* counters of the bounds

task == <<status, retries>>
local == <<pc, job, fromQueue, seen, tries>>
supplier == <<accepted, lost>>
history == <<rounds, manual, crashes, faults>>
vars == <<task, queued, local, supplier, history>>

-----------------------------------------------------------------------------
Goto(s, label) == pc' = [pc EXCEPT ![s] = label]

(* The session goes idle; a queue job whose handler returned is done.      *)
Return(s) ==
  /\ Goto(s, "idle")
  /\ job' = [job EXCEPT ![s] = None]
  /\ fromQueue' = [fromQueue EXCEPT ![s] = FALSE]
  /\ seen' = [seen EXCEPT ![s] = 0]
  /\ tries' = [tries EXCEPT ![s] = 0]

(* A session starts on a task.                                             *)
Serve(s, o, label) ==
  /\ Goto(s, label)
  /\ job' = [job EXCEPT ![s] = o]
  /\ UNCHANGED <<seen, tries>>

Init ==
  /\ status = [o \in Orders |-> None]
  /\ retries = [o \in Orders |-> 0]
  /\ queued = [o \in Orders |-> 0]
  /\ pc = [s \in Sessions |-> "idle"]
  /\ job = [s \in Sessions |-> None]
  /\ fromQueue = [s \in Sessions |-> FALSE]
  /\ seen = [s \in Sessions |-> 0]
  /\ tries = [s \in Sessions |-> 0]
  /\ accepted = [o \in Orders |-> 0]
  /\ lost = [o \in Orders |-> 0]
  /\ rounds = [o \in Orders |-> 0]
  /\ manual = [o \in Orders |-> 0]
  /\ crashes = 0
  /\ faults = 0

(* SubmitOrder: insert the task ...                                        *)
SubmitOrder(s, o) ==
  /\ pc[s] = "idle"
  /\ status[o] = None
  /\ status' = [status EXCEPT ![o] = "Pending"]
  /\ Serve(s, o, "dispatch")
  /\ UNCHANGED <<retries, queued, fromQueue, supplier, history>>

(* ... or, when the order already has one, answer nil.                     *)
DuplicateSubmit(s, o) ==
  /\ pc[s] = "idle"
  /\ status[o] # None
  /\ UNCHANGED vars

(* Then enqueue a job or, without a queue or when Enqueue returns an       *)
(* error, run executeSubmit in a goroutine: beside the job, when Redis had *)
(* stored it and only the answer failed.                                   *)
FallbackForgotten(s) ==
  Return(s) /\ (queued' = [queued EXCEPT ![job[s]] = @ + 1] \/ UNCHANGED queued)
Dispatched(s) ==
  \/ Return(s) /\ queued' = [queued EXCEPT ![job[s]] = @ + 1]
  \/ /\ Goto(s, "get")
     /\ queued' = [queued EXCEPT ![job[s]] = @ + 1] \/ UNCHANGED queued
     /\ UNCHANGED <<job, fromQueue, seen, tries>>

Dispatch(s) ==
  /\ pc[s] = "dispatch"
  /\ Dispatched(s)
  /\ UNCHANGED <<task, supplier, history>>

(* A worker takes a job and runs ExecuteTask.                              *)
ExecuteTask(s, o) ==
  /\ pc[s] = "idle"
  /\ queued[o] > 0
  /\ queued' = [queued EXCEPT ![o] = @ - 1]
  /\ fromQueue' = [fromQueue EXCEPT ![s] = TRUE]
  /\ Serve(s, o, "get")
  /\ UNCHANGED <<task, supplier, history>>

(* RetryPendingTasks finds the task and runs executeSubmit on it.          *)
RetryPendingTasks(s, o) ==
  /\ pc[s] = "idle"
  /\ status[o] = "Pending"
  /\ retries[o] < MaxRetry
  /\ Serve(s, o, "get")
  /\ UNCHANGED <<task, queued, fromQueue, supplier, history>>

(* ManualRetry resets a failed task and starts executeSubmit.              *)
CountKept(o) == retries
CountReset(o) == [retries EXCEPT ![o] = 0]

ManualRetry(s, o) ==
  /\ pc[s] = "idle"
  /\ status[o] = "Failed"
  /\ manual[o] < MaxManual
  /\ status' = [status EXCEPT ![o] = "Pending"]
  /\ retries' = CountReset(o)
  /\ rounds' = [rounds EXCEPT ![o] = 0]
  /\ manual' = [manual EXCEPT ![o] = @ + 1]
  /\ Serve(s, o, "get")
  /\ UNCHANGED <<queued, fromQueue, supplier, crashes, faults>>
-----------------------------------------------------------------------------
(* executeSubmit: read the task, before the lock ...                       *)
GetByID(s) ==
  /\ pc[s] = "get"
  /\ seen' = [seen EXCEPT ![s] = retries[job[s]]]
  /\ Goto(s, "lock")
  /\ UNCHANGED <<task, queued, job, fromQueue, tries, supplier, history>>

(* ... then try to lock it: only a pending task can be locked.             *)
LockAnyOpen(o) == status[o] \in {"Pending", "Locked"}
Lockable(o) == status[o] = "Pending"

LockTask(s) ==
  /\ pc[s] = "lock"
  /\ IF Lockable(job[s])
     THEN /\ status' = [status EXCEPT ![job[s]] = "Locked"]
          /\ rounds' = [rounds EXCEPT ![job[s]] = @ + 1]
          /\ Goto(s, "submit")
          /\ UNCHANGED <<job, fromQueue, seen, tries>>
     ELSE Return(s) /\ UNCHANGED <<status, rounds>>
  /\ UNCHANGED <<retries, queued, supplier, manual, crashes, faults>>

(* The adapter sends the request again after a network error or a timeout, *)
(* at most Attempts times; the request may have been taken all the same.   *)
(* An error, or an answer that cannot be read, ends the call.              *)
RetriesOneMore(s) == tries[s] + 1 <= Attempts
RetriesLeft(s) == tries[s] + 1 < Attempts

Taken(o) == accepted' = [accepted EXCEPT ![o] = @ + 1]
Unheard(o) == lost' = [lost EXCEPT ![o] = @ + 1]

Accept(s) ==
  /\ pc[s] = "submit"
  /\ Taken(job[s])
  /\ Goto(s, "success")
  /\ UNCHANGED <<task, queued, job, fromQueue, seen, tries, lost, history>>

Refuse(s) ==
  /\ pc[s] = "submit"
  /\ (Taken(job[s]) /\ Unheard(job[s])) \/ UNCHANGED supplier
  /\ Goto(s, "failure")
  /\ UNCHANGED <<task, queued, job, fromQueue, seen, tries, history>>

NoAnswer(s) ==
  /\ pc[s] = "submit"
  /\ (Taken(job[s]) /\ Unheard(job[s])) \/ UNCHANGED supplier
  /\ IF RetriesLeft(s)
     THEN tries' = [tries EXCEPT ![s] = @ + 1] /\ UNCHANGED pc
     ELSE Goto(s, "failure") /\ UNCHANGED tries
  /\ UNCHANGED <<task, queued, job, fromQueue, seen, history>>

HandleSuccess(s) ==
  /\ pc[s] = "success"
  /\ status' = [status EXCEPT ![job[s]] = "Submitted"]
  /\ Return(s)
  /\ UNCHANGED <<retries, queued, supplier, history>>

(* handleFailure counts from the retry_count that was read and writes the  *)
(* task unconditionally.                                                   *)
Exhausted(s) == seen[s] + 1 >= MaxRetry
AlwaysPending(s) == "Pending"
LockKept(s) == IF Exhausted(s) THEN "Failed" ELSE "Locked"
FailureStatus(s) == IF Exhausted(s) THEN "Failed" ELSE "Pending"

HandleFailure(s) ==
  /\ pc[s] = "failure"
  /\ status' = [status EXCEPT ![job[s]] = FailureStatus(s)]
  /\ retries' = [retries EXCEPT ![job[s]] = seen[s] + 1]
  /\ Return(s)
  /\ UNCHANGED <<queued, supplier, history>>

-----------------------------------------------------------------------------
(* A statement fails: executeSubmit logs it and returns; the job is done.  *)
DBError(s) ==
  /\ pc[s] \in {"get", "lock", "success", "failure"}
  /\ faults < MaxFaults
  /\ faults' = faults + 1
  /\ Return(s)
  /\ UNCHANGED <<task, queued, supplier, rounds, manual, crashes>>

(* The process of a handler or goroutine dies, and the work with it.       *)
Die(s) ==
  /\ pc[s] # "idle"
  /\ ~fromQueue[s]
  /\ faults < MaxFaults
  /\ faults' = faults + 1
  /\ Return(s)
  /\ UNCHANGED <<task, queued, supplier, rounds, manual, crashes>>

(* A queue worker dies, or ExecuteTask's own read of the task fails and is  *)
(* returned to the queue: the queue delivers its job again.                *)
WorkerDies(s) ==
  /\ fromQueue[s]
  /\ crashes < MaxCrashes
  /\ crashes' = crashes + 1
  /\ queued' = [queued EXCEPT ![job[s]] = @ + 1]
  /\ Return(s)
  /\ UNCHANGED <<task, supplier, rounds, manual, faults>>

Execute(s) ==
  \/ Dispatch(s) \/ GetByID(s) \/ LockTask(s)
  \/ Accept(s) \/ Refuse(s) \/ NoAnswer(s)
  \/ HandleSuccess(s) \/ HandleFailure(s)

Call(s, o) ==
  \/ SubmitOrder(s, o) \/ DuplicateSubmit(s, o)
  \/ RetryPendingTasks(s, o) \/ ManualRetry(s, o)

Next ==
  \E s \in Sessions :
    \/ Execute(s) \/ DBError(s) \/ Die(s) \/ WorkerDies(s)
    \/ \E o \in Orders : ExecuteTask(s, o) \/ Call(s, o)

Spec == Init /\ [][Next]_vars

(* Goroutines and workers keep running, and adapters answer or time out.   *)
(* No call need ever be made.                                              *)
Fairness ==
  \A s \in Sessions :
    WF_vars(Execute(s)) /\ WF_vars(\E o \in Orders : ExecuteTask(s, o))

FairSpec == Spec /\ Fairness
-----------------------------------------------------------------------------
Labels == {"idle", "dispatch", "get", "lock", "submit", "success", "failure"}

(* Every variable stays in its domain; the adapter never makes more than   *)
(* Attempts requests in a call.                                            *)
TypeOK ==
  /\ status \in [Orders -> Statuses \cup {None}]
  /\ retries \in [Orders -> Nat]
  /\ queued \in [Orders -> Nat]
  /\ pc \in [Sessions -> Labels]
  /\ job \in [Sessions -> Orders \cup {None}]
  /\ fromQueue \in [Sessions -> BOOLEAN]
  /\ seen \in [Sessions -> Nat]
  /\ tries \in [Sessions -> 0..(Attempts - 1)]
  /\ accepted \in [Orders -> Nat]
  /\ lost \in [Orders -> Nat]
  /\ rounds \in [Orders -> Nat]
  /\ manual \in [Orders -> Nat]
  /\ crashes \in Nat
  /\ faults \in Nat

Submitting(s) == pc[s] \in {"submit", "success", "failure"}

(* Between LockTask and the update that ends the round a session has the   *)
(* task to itself: no other session is submitting it, nothing else writes  *)
(* it, whatever retries, redeliveries and manual resets go on.             *)
OneSubmitter ==
  \A s \in Sessions : Submitting(s) =>
    /\ status[job[s]] = "Locked"
    /\ \A t \in Sessions : Submitting(t) /\ job[t] = job[s] => t = s

(* The supplier takes an order twice only when the acceptance before was   *)
(* not heard: retries, redelivered jobs and sessions with a stale task     *)
(* never repeat a submission that succeeded.                               *)
AcceptedOnce == \A o \in Orders : accepted[o] <= lost[o] + 1

(* A task is Submitted only if the supplier has taken the order and said   *)
(* so.                                                                     *)
SubmittedIsAccepted ==
  \A o \in Orders : status[o] = "Submitted" => accepted[o] = lost[o] + 1

(* Submitted is final: nothing changes the task or sends the order again.  *)
SubmittedIsFinal ==
  [][\A o \in Orders : status[o] = "Submitted" =>
       /\ status'[o] = "Submitted"
       /\ retries'[o] = retries[o]
       /\ accepted'[o] = accepted[o]]_vars

(* A task that may be retried has not used up its retries.                 *)
PendingHasRetries == \A o \in Orders : status[o] = "Pending" => retries[o] < MaxRetry

(* A task is submitted at least once, though the queue may refuse its job  *)
(* and workers die; only a failed statement or a dead API process may leave *)
(* it without a round.                                                     *)
FirstRound ==
  \A o \in Orders :
    status[o] # None ~> rounds[o] > 0 \/ manual[o] > 0 \/ faults > 0

(* A locked task is being submitted, as model.go:31 says, unless a process *)
(* has died or a statement has failed: no race of sessions, no retry and   *)
(* no answer of the supplier leaves a task locked for ever.                *)
Stuck(o) ==
  /\ status[o] = "Locked"
  /\ \A s \in Sessions : ~(Submitting(s) /\ job[s] = o)
LockedForAReason == \A o \in Orders : Stuck(o) => crashes + faults > 0
=============================================================================
