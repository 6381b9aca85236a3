--------------------------- MODULE DockingProofs ---------------------------
(***************************************************************************)
(* Theorems of Docking, for any orders and sessions, any number of retries *)
(* and any bounds.                                                         *)
(*                                                                         *)
(* The argument: LockTask is the only way into a submission and takes only *)
(* a pending task, and only the session that holds the lock changes a      *)
(* locked task.  So there is one submitter at a time (OneSubmitter), and   *)
(* while it works nobody else adds to what the supplier has accepted:      *)
(* whether the last acceptance was heard is settled by the status of the   *)
(* task (TaskInv) and, while it is locked, by the place of the session     *)
(* that holds it (SessionInv).                                             *)
(*                                                                         *)
(* A task that has not had its first round is in the hands of somebody who *)
(* will try it (InHand), and only a round takes it out of Pending          *)
(* (LeftByRound).                                                          *)
(***************************************************************************)
EXTENDS Docking, TLAPS

SessionInv(s) ==
  /\ pc[s] # "idle" => job[s] \in Orders
  /\ fromQueue[s] => pc[s] # "idle"
  /\ pc[s] \in {"submit", "failure"} => accepted[job[s]] = lost[job[s]]
  /\ pc[s] = "success" => accepted[job[s]] = lost[job[s]] + 1

TaskInv(o) ==
  /\ status[o] = None => retries[o] = 0
  /\ status[o] = "Pending" => retries[o] < MaxRetry
  /\ status[o] \in {None, "Pending", "Failed"} => accepted[o] = lost[o]
  /\ status[o] = "Submitted" => accepted[o] = lost[o] + 1
  /\ accepted[o] \in {lost[o], lost[o] + 1}

IInv ==
  /\ TypeOK
  /\ OneSubmitter
  /\ \A s \in Sessions : SessionInv(s)
  /\ \A o \in Orders : TaskInv(o)

-----------------------------------------------------------------------------
LEMMA InitInv == Init => IInv
<1> SUFFICES ASSUME Init PROVE IInv
  OBVIOUS
<1>1. TypeOK
  BY MaxRetryAssumption, AttemptsAssumption DEF Init, TypeOK, Labels
<1>2. OneSubmitter /\ \A s \in Sessions : SessionInv(s)
  BY DEF Init, OneSubmitter, Submitting, SessionInv
<1>3. \A o \in Orders : TaskInv(o)
  BY MaxRetryAssumption, NoneAssumption DEF Init, TaskInv, Statuses
<1> QED BY <1>1, <1>2, <1>3 DEF IInv

(* A step that touches no task and nothing of the supplier, and moves only *)
(* session s, keeps the invariant if s does not enter a submission by it.  *)
LEMMA QuietStep ==
  ASSUME NEW s \in Sessions, IInv, TypeOK', UNCHANGED <<task, supplier>>,
         pc'[s] # "idle" => job'[s] \in Orders,
         fromQueue'[s] => pc'[s] # "idle",
         ~Submitting(s)',
         \A t \in Sessions \ {s} :
           pc'[t] = pc[t] /\ job'[t] = job[t] /\ fromQueue'[t] = fromQueue[t]
  PROVE  IInv'
<1>1. OneSubmitter'
  BY DEF IInv, OneSubmitter, Submitting, task
<1>2. \A t \in Sessions : SessionInv(t)'
  BY DEF IInv, SessionInv, Submitting, supplier
<1>3. \A o \in Orders : TaskInv(o)'
  BY DEF IInv, TaskInv, task, supplier
<1> QED BY <1>1, <1>2, <1>3 DEF IInv

(* A session that gives up leaves everything else as it was.               *)
LEMMA ReturnStep ==
  ASSUME NEW s \in Sessions, IInv, Return(s), UNCHANGED <<task, supplier, rounds, manual>>,
         queued' \in [Orders -> Nat], crashes' \in Nat, faults' \in Nat
  PROVE  IInv'
<1>1. TypeOK'
  BY AttemptsAssumption
  DEF IInv, TypeOK, Return, Goto, Labels, task, supplier
<1> QED
  BY <1>1, QuietStep DEF IInv, TypeOK, Return, Goto, Submitting

-----------------------------------------------------------------------------
LEMMA SubmitOrderStep ==
  ASSUME NEW s \in Sessions, NEW o \in Orders, IInv, SubmitOrder(s, o)
  PROVE  IInv'
<1>1. TypeOK'
  BY DEF IInv, TypeOK, SubmitOrder, Serve, Goto, Labels, Statuses, supplier, history
<1>2. OneSubmitter'
  BY NoneAssumption
  DEF IInv, TypeOK, OneSubmitter, Submitting, SubmitOrder, Serve, Goto, Statuses
<1>3. \A t \in Sessions : SessionInv(t)'
  BY DEF IInv, TypeOK, SessionInv, SubmitOrder, Serve, Goto, supplier
<1>4. \A q \in Orders : TaskInv(q)'
  BY MaxRetryAssumption, NoneAssumption
  DEF IInv, TypeOK, TaskInv, SubmitOrder, supplier, Statuses
<1> QED BY <1>1, <1>2, <1>3, <1>4 DEF IInv

LEMMA DispatchStep ==
  ASSUME NEW s \in Sessions, IInv, Dispatch(s)
  PROVE  IInv'
<1>1. job[s] \in Orders
  BY DEF IInv, SessionInv, Dispatch
<1>2. CASE Return(s) /\ queued' = [queued EXCEPT ![job[s]] = @ + 1]
  BY <1>1, <1>2, ReturnStep DEF Dispatch, IInv, TypeOK, history
<1>3. CASE /\ Goto(s, "get")
           /\ queued' = [queued EXCEPT ![job[s]] = @ + 1] \/ UNCHANGED queued
           /\ UNCHANGED <<job, fromQueue, seen, tries>>
  <2>1. TypeOK'
    BY <1>1, <1>3 DEF IInv, TypeOK, Dispatch, Goto, Labels, task, supplier, history
  <2> QED
    BY <1>1, <1>3, <2>1, QuietStep
    DEF IInv, TypeOK, Dispatch, Goto, Submitting, SessionInv
<1> QED BY <1>2, <1>3 DEF Dispatch, Dispatched

LEMMA ExecuteTaskStep ==
  ASSUME NEW s \in Sessions, NEW o \in Orders, IInv, ExecuteTask(s, o)
  PROVE  IInv'
<1>1. TypeOK'
  BY DEF IInv, TypeOK, ExecuteTask, Serve, Goto, Labels, task, supplier, history
<1> QED
  BY <1>1, QuietStep DEF IInv, TypeOK, ExecuteTask, Serve, Goto, Submitting

LEMMA RetryPendingTasksStep ==
  ASSUME NEW s \in Sessions, NEW o \in Orders, IInv, RetryPendingTasks(s, o)
  PROVE  IInv'
<1>1. TypeOK'
  BY DEF IInv, TypeOK, RetryPendingTasks, Serve, Goto, Labels, task, supplier, history
<1> QED
  BY <1>1, QuietStep
  DEF IInv, TypeOK, RetryPendingTasks, Serve, Goto, Submitting, SessionInv

LEMMA ManualRetryStep ==
  ASSUME NEW s \in Sessions, NEW o \in Orders, IInv, ManualRetry(s, o)
  PROVE  IInv'
<1>1. TypeOK'
  BY DEF IInv, TypeOK, ManualRetry, CountReset, Serve, Goto, Labels, Statuses, supplier
<1>2. OneSubmitter'
  BY DEF IInv, TypeOK, OneSubmitter, Submitting, ManualRetry, Serve, Goto
<1>3. \A t \in Sessions : SessionInv(t)'
  BY DEF IInv, TypeOK, SessionInv, ManualRetry, Serve, Goto, supplier
<1>4. \A q \in Orders : TaskInv(q)'
  BY MaxRetryAssumption, NoneAssumption
  DEF IInv, TypeOK, TaskInv, ManualRetry, CountReset, supplier, Statuses
<1> QED BY <1>1, <1>2, <1>3, <1>4 DEF IInv

LEMMA GetByIDStep ==
  ASSUME NEW s \in Sessions, IInv, GetByID(s)
  PROVE  IInv'
<1>1. TypeOK'
  BY DEF IInv, TypeOK, SessionInv, GetByID, Goto, Labels, task, supplier, history
<1> QED
  BY <1>1, QuietStep DEF IInv, TypeOK, SessionInv, GetByID, Goto, Submitting

(* The lock: the task was pending, so nobody was submitting it, and what   *)
(* the supplier has accepted was all unheard.                              *)
LEMMA LockTaskStep ==
  ASSUME NEW s \in Sessions, IInv, LockTask(s)
  PROVE  IInv'
<1>1. job[s] \in Orders
  BY DEF IInv, SessionInv, LockTask
<1>2. CASE Lockable(job[s])
  <2>1. TypeOK'
    BY <1>1, <1>2 DEF IInv, TypeOK, LockTask, Goto, Labels, Statuses, supplier
  <2>2. OneSubmitter'
    <3>1. \A t \in Sessions : Submitting(t) => job[t] # job[s]
      BY <1>2 DEF IInv, OneSubmitter, Lockable
    <3>2. status' = [status EXCEPT ![job[s]] = "Locked"] /\ job' = job
      BY <1>2 DEF LockTask
    <3>3. \A t \in Sessions : Submitting(t)' => t = s \/ Submitting(t)
      BY <1>2 DEF LockTask, Goto, Submitting, IInv, TypeOK
    <3>4. ASSUME NEW t \in Sessions, Submitting(t)'
          PROVE  status'[job'[t]] = "Locked"
      BY <1>1, <3>2, <3>3, <3>4 DEF IInv, TypeOK, OneSubmitter
    <3> QED BY <3>1, <3>2, <3>3, <3>4 DEF IInv, OneSubmitter
  <2>3. \A t \in Sessions : SessionInv(t)'
    BY <1>1, <1>2
    DEF IInv, TypeOK, SessionInv, TaskInv, Lockable, LockTask, Goto, supplier
  <2>4. \A q \in Orders : TaskInv(q)'
    BY <1>1, <1>2, NoneAssumption
    DEF IInv, TypeOK, TaskInv, LockTask, supplier, Statuses
  <2> QED BY <2>1, <2>2, <2>3, <2>4 DEF IInv
<1>3. CASE ~Lockable(job[s])
  BY <1>3, ReturnStep DEF LockTask, IInv, TypeOK, task
<1> QED BY <1>2, <1>3

(* The supplier takes the order and its answer is or is not heard.         *)
LEMMA AcceptStep ==
  ASSUME NEW s \in Sessions, IInv, Accept(s)
  PROVE  IInv'
<1>1. job[s] \in Orders
  BY DEF IInv, SessionInv, Accept
<1>2. TypeOK'
  BY <1>1 DEF IInv, TypeOK, Accept, Taken, Goto, Labels, task, history
<1>3. OneSubmitter'
  BY <1>1 DEF IInv, TypeOK, OneSubmitter, Submitting, Accept, Goto, task
<1>4. \A t \in Sessions : SessionInv(t)'
  <2> SUFFICES ASSUME NEW t \in Sessions PROVE SessionInv(t)'
    OBVIOUS
  <2>1. CASE t = s
    BY <1>1, <2>1 DEF IInv, TypeOK, SessionInv, Accept, Taken, Goto
  <2>2. CASE t # s
    BY <1>1, <2>2
    DEF IInv, TypeOK, SessionInv, OneSubmitter, Submitting, Accept, Taken, Goto
  <2> QED BY <2>1, <2>2
<1>5. \A q \in Orders : TaskInv(q)'
  BY <1>1, NoneAssumption
  DEF IInv, TypeOK, TaskInv, SessionInv, OneSubmitter, Submitting, Accept, Taken,
      task, Statuses
<1> QED BY <1>2, <1>3, <1>4, <1>5 DEF IInv

LEMMA UnheardStep ==
  ASSUME NEW s \in Sessions, IInv, pc[s] = "submit",
         (Taken(job[s]) /\ Unheard(job[s])) \/ UNCHANGED supplier,
         pc' = pc \/ Goto(s, "failure"),
         tries' \in [Sessions -> 0..(Attempts - 1)],
         UNCHANGED <<task, queued, job, fromQueue, seen, history>>
  PROVE  IInv'
<1>1. job[s] \in Orders
  BY DEF IInv, SessionInv
<1>2. /\ accepted' \in [Orders -> Nat] /\ lost' \in [Orders -> Nat]
      /\ \A q \in Orders :
           /\ accepted[q] = lost[q] => accepted'[q] = lost'[q]
           /\ accepted[q] = lost[q] + 1 => accepted'[q] = lost'[q] + 1
  BY <1>1 DEF IInv, TypeOK, Taken, Unheard, supplier
<1>3. TypeOK'
  BY <1>2 DEF IInv, TypeOK, Goto, Labels, task, history
<1>4. OneSubmitter'
  BY DEF IInv, TypeOK, OneSubmitter, Submitting, Goto, task
<1>5. \A t \in Sessions : SessionInv(t)'
  <2> SUFFICES ASSUME NEW t \in Sessions PROVE SessionInv(t)'
    OBVIOUS
  <2>1. SessionInv(t) /\ job'[t] = job[t] /\ fromQueue'[t] = fromQueue[t]
    BY DEF IInv
  <2>2. pc'[t] = pc[t] \/ (t = s /\ pc'[t] = "failure")
    BY DEF IInv, TypeOK, Goto
  <2>3. pc'[t] # "idle" => pc[t] # "idle"
    BY <2>2
  <2>4. SessionInv(s)
    BY DEF IInv
  <2> QED BY <1>2, <2>1, <2>2, <2>3, <2>4 DEF SessionInv
<1>6. \A q \in Orders : TaskInv(q)'
  BY <1>2 DEF IInv, TypeOK, TaskInv, task
<1> QED BY <1>3, <1>4, <1>5, <1>6 DEF IInv

LEMMA RefuseStep ==
  ASSUME NEW s \in Sessions, IInv, Refuse(s)
  PROVE  IInv'
  BY UnheardStep DEF Refuse, IInv, TypeOK

LEMMA NoAnswerStep ==
  ASSUME NEW s \in Sessions, IInv, NoAnswer(s)
  PROVE  IInv'
<1>1. tries' \in [Sessions -> 0..(Attempts - 1)]
  BY AttemptsAssumption DEF NoAnswer, IInv, TypeOK, RetriesLeft
<1> QED
  BY <1>1, UnheardStep DEF NoAnswer

LEMMA HandleSuccessStep ==
  ASSUME NEW s \in Sessions, IInv, HandleSuccess(s)
  PROVE  IInv'
<1>1. job[s] \in Orders /\ Submitting(s)
  BY DEF IInv, SessionInv, HandleSuccess, Submitting
<1>2. TypeOK'
  BY <1>1, AttemptsAssumption
  DEF IInv, TypeOK, HandleSuccess, Return, Goto, Labels, Statuses, supplier, history
<1>3. OneSubmitter'
  BY <1>1
  DEF IInv, TypeOK, OneSubmitter, Submitting, HandleSuccess, Return, Goto
<1>4. \A t \in Sessions : SessionInv(t)'
  BY <1>1 DEF IInv, TypeOK, SessionInv, HandleSuccess, Return, Goto, supplier
<1>5. \A q \in Orders : TaskInv(q)'
  BY <1>1, NoneAssumption
  DEF IInv, TypeOK, TaskInv, SessionInv, HandleSuccess, supplier, Statuses
<1> QED BY <1>2, <1>3, <1>4, <1>5 DEF IInv

LEMMA HandleFailureStep ==
  ASSUME NEW s \in Sessions, IInv, HandleFailure(s)
  PROVE  IInv'
<1>1. job[s] \in Orders /\ Submitting(s)
  BY DEF IInv, SessionInv, HandleFailure, Submitting
<1>2. TypeOK'
  BY <1>1, AttemptsAssumption
  DEF IInv, TypeOK, HandleFailure, FailureStatus, Return, Goto, Labels, Statuses,
      supplier, history
<1>3. OneSubmitter'
  BY <1>1
  DEF IInv, TypeOK, OneSubmitter, Submitting, HandleFailure, Return, Goto
<1>4. \A t \in Sessions : SessionInv(t)'
  BY <1>1 DEF IInv, TypeOK, SessionInv, HandleFailure, Return, Goto, supplier
<1>5. \A q \in Orders : TaskInv(q)'
  BY <1>1, NoneAssumption, MaxRetryAssumption
  DEF IInv, TypeOK, TaskInv, SessionInv, HandleFailure, FailureStatus, Exhausted,
      supplier, Statuses
<1> QED BY <1>2, <1>3, <1>4, <1>5 DEF IInv

LEMMA FaultStep ==
  ASSUME NEW s \in Sessions, IInv, DBError(s) \/ Die(s) \/ WorkerDies(s)
  PROVE  IInv'
<1>1. queued' \in [Orders -> Nat]
  BY DEF IInv, TypeOK, SessionInv, DBError, Die, WorkerDies
<1>2. Return(s) /\ UNCHANGED <<task, supplier, rounds, manual>>
  BY DEF DBError, Die, WorkerDies
<1>3. crashes' \in Nat /\ faults' \in Nat
  BY DEF IInv, TypeOK, DBError, Die, WorkerDies
<1> QED BY <1>1, <1>2, <1>3, ReturnStep

-----------------------------------------------------------------------------
LEMMA StepInv == IInv /\ [Next]_vars => IInv'
<1> SUFFICES ASSUME IInv, [Next]_vars PROVE IInv'
  OBVIOUS
<1>1. ASSUME NEW s \in Sessions, Execute(s) PROVE IInv'
  BY <1>1, DispatchStep, GetByIDStep, LockTaskStep, AcceptStep, RefuseStep,
     NoAnswerStep, HandleSuccessStep, HandleFailureStep DEF Execute
<1>2. ASSUME UNCHANGED vars PROVE IInv'
  <2>1. TypeOK' /\ OneSubmitter'
    BY <1>2 DEF IInv, TypeOK, OneSubmitter, Submitting, vars, task, local,
                supplier, history
  <2>2. \A s \in Sessions : SessionInv(s)'
    BY <1>2 DEF IInv, SessionInv, vars, local, supplier
  <2>3. \A o \in Orders : TaskInv(o)'
    BY <1>2 DEF IInv, TaskInv, vars, task, supplier
  <2> QED BY <2>1, <2>2, <2>3 DEF IInv
<1>3. ASSUME NEW s \in Sessions, NEW o \in Orders, ExecuteTask(s, o) \/ Call(s, o)
      PROVE  IInv'
  BY <1>2, <1>3, ExecuteTaskStep, SubmitOrderStep, RetryPendingTasksStep,
     ManualRetryStep DEF Call, DuplicateSubmit
<1> QED
  BY <1>1, <1>2, <1>3, FaultStep DEF Next

(* The inductive invariant.                                                *)
THEOREM DockingInvariant == Spec => []IInv
<1> QED BY InitInv, StepInv, PTL DEF Spec

(* Every variable stays in its domain; an adapter call makes at most       *)
(* Attempts requests.                                                      *)
THEOREM DockingTypes == Spec => []TypeOK
<1>1. IInv => TypeOK
  BY DEF IInv
<1> QED BY <1>1, DockingInvariant, PTL

(* Whatever workers, goroutines, retry loops and manual retries do, one    *)
(* session at a time submits a task, and it holds the task's lock.         *)
THEOREM SingleSubmitter == Spec => []OneSubmitter
<1>1. IInv => OneSubmitter
  BY DEF IInv
<1> QED BY <1>1, DockingInvariant, PTL

(* A supplier takes an order again only if its last acceptance was lost.   *)
THEOREM NeverRepeated == Spec => []AcceptedOnce
<1>1. IInv => AcceptedOnce
  BY DEF IInv, TypeOK, TaskInv, AcceptedOnce
<1> QED BY <1>1, DockingInvariant, PTL

(* A submitted task is one the supplier has accepted and confirmed.        *)
THEOREM SubmittedWasAccepted == Spec => []SubmittedIsAccepted
<1>1. IInv => SubmittedIsAccepted
  BY DEF IInv, TaskInv, SubmittedIsAccepted
<1> QED BY <1>1, DockingInvariant, PTL

(* A pending task has retries left.                                        *)
THEOREM RetriesRemain == Spec => []PendingHasRetries
<1>1. IInv => PendingHasRetries
  BY DEF IInv, TaskInv, PendingHasRetries
<1> QED BY <1>1, DockingInvariant, PTL

(* Nothing touches a submitted task or sends its order again.              *)
THEOREM SubmittedStays == Spec => SubmittedIsFinal
<1> DEFINE Same(o) == /\ status'[o] = status[o]
                      /\ retries'[o] = retries[o]
                      /\ accepted'[o] = accepted[o]
<1>1. ASSUME IInv, Next, NEW o \in Orders, status[o] = "Submitted"
      PROVE  Same(o)
  <2>1. ASSUME NEW s \in Sessions, Submitting(s)
        PROVE  job[s] \in Orders \ {o}
    BY <1>1, <2>1 DEF IInv, OneSubmitter, SessionInv, Submitting
  <2>2. ASSUME NEW s \in Sessions, Execute(s) PROVE Same(o)
    <3>1. CASE Dispatch(s) \/ GetByID(s)
      BY <3>1 DEF Dispatch, GetByID, task, supplier
    <3>2. CASE LockTask(s)
      BY <1>1, <3>2 DEF IInv, TypeOK, LockTask, Lockable, supplier
    <3>3. CASE Accept(s) \/ Refuse(s) \/ NoAnswer(s)
      <4>1. job[s] \in Orders \ {o}
        BY <2>1, <3>3 DEF Submitting, Accept, Refuse, NoAnswer
      <4>2. UNCHANGED task
        BY <3>3 DEF Accept, Refuse, NoAnswer
      <4>3. Taken(job[s]) \/ accepted' = accepted
        BY <3>3 DEF Accept, Refuse, NoAnswer, supplier
      <4>4. accepted'[o] = accepted[o]
        BY <1>1, <4>1, <4>3 DEF Taken, IInv, TypeOK
      <4> QED BY <4>2, <4>4 DEF task
    <3>4. CASE HandleSuccess(s) \/ HandleFailure(s)
      <4>1. job[s] \in Orders \ {o}
        BY <2>1, <3>4 DEF Submitting, HandleSuccess, HandleFailure
      <4>2. status'[o] = status[o] /\ retries'[o] = retries[o]
        BY <1>1, <3>4, <4>1 DEF HandleSuccess, HandleFailure, IInv, TypeOK
      <4> QED BY <3>4, <4>2 DEF HandleSuccess, HandleFailure, supplier
    <3> QED BY <2>2, <3>1, <3>2, <3>3, <3>4 DEF Execute
  <2>3. ASSUME NEW s \in Sessions, DBError(s) \/ Die(s) \/ WorkerDies(s) PROVE Same(o)
    BY <2>3 DEF DBError, Die, WorkerDies, task, supplier
  <2>4. ASSUME NEW s \in Sessions, NEW q \in Orders, ExecuteTask(s, q) \/ Call(s, q)
        PROVE  Same(o)
    <3>1. CASE SubmitOrder(s, q)
      BY <1>1, <3>1, NoneAssumption DEF SubmitOrder, supplier, IInv, TypeOK, Statuses
    <3>2. CASE ManualRetry(s, q)
      BY <1>1, <3>2 DEF ManualRetry, CountReset, supplier, IInv, TypeOK
    <3>3. CASE ExecuteTask(s, q) \/ DuplicateSubmit(s, q) \/ RetryPendingTasks(s, q)
      BY <3>3 DEF ExecuteTask, DuplicateSubmit, RetryPendingTasks, vars, task, supplier
    <3> QED BY <2>4, <3>1, <3>2, <3>3 DEF Call
  <2> QED BY <1>1, <2>2, <2>3, <2>4 DEF Next
<1>2. IInv /\ [Next]_vars =>
        [\A o \in Orders : status[o] = "Submitted" =>
           /\ status'[o] = "Submitted"
           /\ retries'[o] = retries[o]
           /\ accepted'[o] = accepted[o]]_vars
  BY <1>1
<1> QED BY <1>2, DockingInvariant, PTL DEF Spec, SubmittedIsFinal

(* Without a crash or a failed statement a session that is submitting a    *)
(* task goes on with it or frees it, and whoever locks one submits it.     *)
LEMMA LockExplained ==
  ASSUME IInv, Next, LockedForAReason, NEW o \in Orders, Stuck(o)'
  PROVE  crashes' + faults' > 0
<1> SUFFICES ASSUME ~(crashes' + faults' > 0)  PROVE FALSE
  OBVIOUS
<1>1. crashes \in Nat /\ faults \in Nat
  BY DEF IInv, TypeOK
<1> DEFINE Holder(t) == Submitting(t) /\ job[t] = o
<1>2. ASSUME crashes' = crashes, faults' = faults, status[o] = status'[o],
             NEW s \in Sessions, ~Submitting(s),
             \A t \in Sessions \ {s} : pc'[t] = pc[t] /\ job'[t] = job[t]
      PROVE  FALSE
  BY <1>1, <1>2 DEF Stuck, Submitting, LockedForAReason
<1>3. ASSUME NEW s \in Sessions, Execute(s)  PROVE FALSE
  <2>1. crashes' = crashes /\ faults' = faults /\ job[s] \in Orders
    BY <1>3 DEF Execute, Dispatch, GetByID, LockTask, Accept, Refuse, NoAnswer,
       HandleSuccess, HandleFailure, history, IInv, SessionInv
  <2>2. \A t \in Sessions \ {s} : pc'[t] = pc[t] /\ job'[t] = job[t]
    BY <1>3 DEF Execute, Dispatch, Dispatched, GetByID, LockTask, Accept, Refuse,
       NoAnswer, HandleSuccess, HandleFailure, Return, Goto, IInv, TypeOK
  <2>3. CASE Dispatch(s) \/ GetByID(s)
    BY <1>2, <2>1, <2>2, <2>3 DEF Dispatch, GetByID, task, Submitting
  <2>4. CASE LockTask(s)
    <3>1. CASE Lockable(job[s]) /\ job[s] = o
      BY <2>4, <3>1 DEF LockTask, Goto, Stuck, Submitting, IInv, TypeOK
    <3>2. CASE ~(Lockable(job[s]) /\ job[s] = o)
      <4>1. status'[o] = status[o]
        BY <2>1, <2>4, <3>2 DEF LockTask, IInv, TypeOK
      <4> QED
        BY <1>2, <2>1, <2>2, <2>4, <4>1 DEF LockTask, Submitting
    <3> QED
      BY <3>1, <3>2
  <2>5. CASE Accept(s) \/ Refuse(s) \/ NoAnswer(s)
    <3>1. status' = status /\ job' = job
      BY <2>5 DEF Accept, Refuse, NoAnswer, task
    <3>2. Submitting(s) /\ Submitting(s)'
      BY <2>5 DEF Accept, Refuse, NoAnswer, Goto, Submitting, IInv, TypeOK
    <3>3. \A t \in Sessions : Holder(t) => Submitting(t)' /\ job'[t] = o
      BY <2>2, <3>1, <3>2 DEF Submitting
    <3> QED
      BY <1>1, <2>1, <3>1, <3>3 DEF Stuck, LockedForAReason
  <2>6. CASE HandleSuccess(s) \/ HandleFailure(s)
    <3>1. CASE job[s] = o
      BY <2>1, <2>6, <3>1 DEF HandleSuccess, HandleFailure, FailureStatus, Stuck, IInv,
         TypeOK
    <3>2. CASE job[s] # o
      <4>1. status'[o] = status[o]
        BY <2>1, <2>6, <3>2 DEF HandleSuccess, HandleFailure, IInv, TypeOK
      <4>2. \A t \in Sessions : Holder(t) => Submitting(t)' /\ job'[t] = o
        BY <2>2, <3>2 DEF Submitting
      <4> QED
        BY <1>1, <2>1, <4>1, <4>2 DEF Stuck, LockedForAReason
    <3> QED
      BY <3>1, <3>2
  <2> QED
    BY <1>3, <2>3, <2>4, <2>5, <2>6 DEF Execute
<1>4. ASSUME NEW s \in Sessions, DBError(s) \/ Die(s) \/ WorkerDies(s)  PROVE FALSE
  BY <1>1, <1>4 DEF DBError, Die, WorkerDies
<1>5. ASSUME NEW s \in Sessions, NEW q \in Orders, ExecuteTask(s, q) \/ Call(s, q)
      PROVE  FALSE
  <2>1. crashes' = crashes /\ faults' = faults
    BY <1>5 DEF ExecuteTask, Call, SubmitOrder, DuplicateSubmit, RetryPendingTasks,
       ManualRetry, history, vars
  <2>2. \A t \in Sessions \ {s} : pc'[t] = pc[t] /\ job'[t] = job[t]
    BY <1>5 DEF ExecuteTask, Call, SubmitOrder, DuplicateSubmit, RetryPendingTasks,
       ManualRetry, Serve, Goto, local, vars, IInv, TypeOK
  <2>3. status'[o] = status[o]
    BY <1>5 DEF Stuck, ExecuteTask, Call, SubmitOrder, DuplicateSubmit,
       RetryPendingTasks, ManualRetry, task, vars, IInv, TypeOK
  <2>4. CASE DuplicateSubmit(s, q)
    BY <1>1, <2>4 DEF DuplicateSubmit, vars, task, local, history, Stuck, Submitting,
       LockedForAReason
  <2>5. CASE ~DuplicateSubmit(s, q)
    <3>1. ~Submitting(s)
      BY <1>5, <2>5 DEF ExecuteTask, Call, SubmitOrder, RetryPendingTasks, ManualRetry,
         Submitting
    <3> QED
      BY <1>2, <2>1, <2>2, <2>3, <3>1
  <2> QED
    BY <2>4, <2>5
<1> QED
  BY <1>3, <1>4, <1>5 DEF Next

(* model.go:31: a locked task is being submitted, unless a process has     *)
(* died or a statement has failed.                                         *)
THEOREM LocksExplained == Spec => []LockedForAReason
<1>1. Init => LockedForAReason
  BY NoneAssumption DEF Init, LockedForAReason, Stuck, Statuses
<1>2. IInv /\ LockedForAReason /\ [Next]_vars => LockedForAReason'
  <2> SUFFICES ASSUME IInv, LockedForAReason, [Next]_vars  PROVE LockedForAReason'
    OBVIOUS
  <2>1. CASE Next
    BY <2>1, LockExplained DEF LockedForAReason
  <2>2. CASE UNCHANGED vars
    BY <2>2 DEF vars, task, local, history, LockedForAReason, Stuck, Submitting
  <2> QED
    BY <2>1, <2>2
<1> QED
  BY <1>1, <1>2, DockingInvariant, PTL DEF Spec

-----------------------------------------------------------------------------
(* A job in the queue, or a session that has yet to lock the task, will    *)
(* bring order o to its supplier.                                          *)
Carries(s, o) == pc[s] \in {"dispatch", "get", "lock"} /\ job[s] = o
InHand(o) == queued[o] > 0 \/ \E s \in Sessions : Carries(s, o)

(* No task is dropped before its first round: as long as no statement has  *)
(* failed and no API process has died, a task that has had no round since  *)
(* it was created or reset is in the queue or in the hands of a session.   *)
NotDropped ==
  \A o \in Orders : status[o] # None /\ rounds[o] = 0 /\ faults = 0 => InHand(o)

(* A task leaves Pending only by a round.                                  *)
LeftByRound == \A o \in Orders : status[o] \in Statuses \ {"Pending"} => rounds[o] > 0

LEMMA RoundKept == IInv /\ LeftByRound /\ [Next]_vars => LeftByRound'
<1> SUFFICES ASSUME IInv, LeftByRound, [Next]_vars, NEW o \in Orders,
                    status'[o] \in Statuses \ {"Pending"}
             PROVE  rounds'[o] > 0
  BY DEF LeftByRound
<1>1. /\ rounds \in [Orders -> Nat]
      /\ status \in [Orders -> Statuses \cup {None}]
      /\ \A s \in Sessions : pc[s] # "idle" => job[s] \in Orders
  BY DEF IInv, TypeOK, SessionInv
<1>2. CASE status' = status /\ rounds' = rounds
  BY <1>2 DEF LeftByRound
<1>3. ASSUME NEW s \in Sessions, LockTask(s)  PROVE rounds'[o] > 0
  <2>1. CASE Lockable(job[s])
    BY <1>1, <1>3, <2>1 DEF LockTask, LeftByRound
  <2>2. CASE ~ Lockable(job[s])
    BY <1>2, <1>3, <2>2 DEF LockTask
  <2> QED BY <2>1, <2>2
<1>4. ASSUME NEW s \in Sessions, HandleSuccess(s) \/ HandleFailure(s)
      PROVE  rounds'[o] > 0
  <2>1. rounds' = rounds
    BY <1>4 DEF HandleSuccess, HandleFailure, history
  <2>2. job[s] \in Orders /\ status[job[s]] = "Locked"
    BY <1>1, <1>4 DEF HandleSuccess, HandleFailure, IInv, OneSubmitter, Submitting
  <2>3. status[o] \in Statuses \ {"Pending"}
    BY <1>1, <1>4, <2>2 DEF HandleSuccess, HandleFailure, Statuses
  <2> QED BY <2>1, <2>3 DEF LeftByRound
<1>5. ASSUME NEW s \in Sessions, NEW q \in Orders, SubmitOrder(s, q) \/ ManualRetry(s, q)
      PROVE  rounds'[o] > 0
  <2>1. status' = [status EXCEPT ![q] = "Pending"] /\ (o # q => rounds'[o] = rounds[o])
    BY <1>1, <1>5 DEF SubmitOrder, ManualRetry, history
  <2> QED
    BY <1>1, <2>1 DEF LeftByRound
<1> QED
  BY <1>2, <1>3, <1>4, <1>5 DEF Next, Execute, Call, Dispatch, GetByID, Accept,
     Refuse, NoAnswer, DBError, Die, WorkerDies, ExecuteTask, DuplicateSubmit,
     RetryPendingTasks, task, history, vars

(* The step of session s leaves the order in other hands or keeps it.      *)
LEMMA HandsKept ==
  ASSUME NEW s \in Sessions, NEW o \in Orders, InHand(o),
         \A t \in Sessions \ {s} : pc'[t] = pc[t] /\ job'[t] = job[t],
         queued[o] > 0 => queued'[o] > 0 \/ Carries(s, o)',
         Carries(s, o) => queued'[o] > 0 \/ Carries(s, o)'
  PROVE  InHand(o)'
  BY DEF InHand, Carries

LEMMA DropStep ==
  ASSUME IInv, LeftByRound, NotDropped, Next, NEW o \in Orders,
         status'[o] # None, rounds'[o] = 0, faults' = 0
  PROVE  InHand(o)'
<1>1. /\ rounds \in [Orders -> Nat] /\ queued \in [Orders -> Nat]
      /\ faults \in Nat
      /\ status \in [Orders -> Statuses \cup {None}]
      /\ pc \in [Sessions -> Labels] /\ job \in [Sessions -> Orders \cup {None}]
      /\ \A s \in Sessions : pc[s] # "idle" => job[s] \in Orders
      /\ \A s \in Sessions : fromQueue[s] => pc[s] # "idle"
  BY DEF IInv, TypeOK, SessionInv
<1>2. ASSUME NEW s \in Sessions, Execute(s)  PROVE InHand(o)'
  <2>1. \A t \in Sessions \ {s} : pc'[t] = pc[t] /\ job'[t] = job[t]
    BY <1>1, <1>2 DEF Execute, Dispatch, Dispatched, GetByID, LockTask, Accept,
       Refuse, NoAnswer, HandleSuccess, HandleFailure, Return, Goto
  <2>2. CASE Dispatch(s)
    <3>1. InHand(o)
      BY <2>2 DEF NotDropped, Dispatch, task, history
    <3>2. CASE Return(s) /\ queued' = [queued EXCEPT ![job[s]] = @ + 1]
      BY <1>1, <2>1, <2>2, <3>1, <3>2, HandsKept DEF Dispatch, Carries
    <3>3. CASE /\ Goto(s, "get") /\ UNCHANGED job
               /\ queued' = [queued EXCEPT ![job[s]] = @ + 1] \/ UNCHANGED queued
      BY <1>1, <2>1, <3>1, <3>3, HandsKept DEF Goto, Carries
    <3> QED BY <2>2, <3>2, <3>3 DEF Dispatch, Dispatched
  <2>3. CASE GetByID(s)
    <3>1. InHand(o)
      BY <2>3 DEF NotDropped, GetByID, task, history
    <3> QED
      BY <1>1, <2>1, <2>3, <3>1, HandsKept DEF GetByID, Goto, Carries
  <2>4. CASE LockTask(s)
    <3>1. CASE Lockable(job[s])
      <4>1. job[s] # o /\ rounds'[o] = rounds[o] /\ status'[o] = status[o]
        BY <1>1, <2>4, <3>1 DEF LockTask
      <4>2. InHand(o)
        BY <2>4, <4>1 DEF NotDropped, LockTask
      <4> QED
        BY <2>1, <2>4, <4>1, <4>2, HandsKept DEF LockTask, Carries
    <3>2. CASE ~ Lockable(job[s])
      <4>1. UNCHANGED <<status, rounds, faults, queued>>
        BY <2>4, <3>2 DEF LockTask
      <4>2. InHand(o) /\ status[o] = "Pending"
        BY <1>1, <4>1 DEF NotDropped, LeftByRound
      <4>3. job[s] # o
        BY <3>2, <4>2 DEF Lockable
      <4> QED
        BY <2>1, <4>1, <4>2, <4>3, HandsKept DEF Carries
    <3> QED BY <3>1, <3>2
  <2>5. CASE Accept(s) \/ Refuse(s) \/ NoAnswer(s)
    <3>1. InHand(o) /\ UNCHANGED queued /\ pc[s] = "submit"
      BY <2>5 DEF NotDropped, Accept, Refuse, NoAnswer, task, history
    <3> QED
      BY <2>1, <3>1, HandsKept DEF Carries
  <2>6. CASE HandleSuccess(s) \/ HandleFailure(s)
    <3>1. UNCHANGED <<rounds, faults, queued>>
      BY <2>6 DEF HandleSuccess, HandleFailure, history
    <3>2. job[s] \in Orders /\ status[job[s]] = "Locked"
      BY <1>1, <2>6 DEF HandleSuccess, HandleFailure, IInv, OneSubmitter, Submitting
    <3>3. job[s] # o
      BY <3>1, <3>2 DEF LeftByRound, Statuses
    <3>4. status'[o] = status[o]
      BY <1>1, <2>6, <3>3 DEF HandleSuccess, HandleFailure
    <3>5. InHand(o)
      BY <3>1, <3>4 DEF NotDropped
    <3> QED
      BY <2>1, <3>1, <3>3, <3>5, HandsKept DEF Carries
  <2> QED
    BY <1>2, <2>2, <2>3, <2>4, <2>5, <2>6 DEF Execute
<1>3. ASSUME NEW s \in Sessions, DBError(s) \/ Die(s)  PROVE InHand(o)'
  BY <1>1, <1>3 DEF DBError, Die
<1>4. ASSUME NEW s \in Sessions, WorkerDies(s)  PROVE InHand(o)'
  <2>1. InHand(o)
    BY <1>4 DEF NotDropped, WorkerDies, task
  <2>2. job[s] \in Orders /\ queued' = [queued EXCEPT ![job[s]] = @ + 1]
    BY <1>1, <1>4 DEF WorkerDies
  <2>3. \A t \in Sessions \ {s} : pc'[t] = pc[t] /\ job'[t] = job[t]
    BY <1>1, <1>4 DEF WorkerDies, Return, Goto
  <2> QED
    BY <1>1, <2>1, <2>2, <2>3, HandsKept DEF Carries
<1>5. ASSUME NEW s \in Sessions, NEW q \in Orders, pc[s] = "idle",
             Serve(s, q, "get") \/ Serve(s, q, "dispatch"),
             \/ UNCHANGED queued
             \/ queued' = [queued EXCEPT ![q] = @ - 1],
             o # q => status'[o] = status[o] /\ rounds'[o] = rounds[o],
             UNCHANGED faults
      PROVE  InHand(o)'
  <2>1. CASE o = q
    BY <1>1, <1>5, <2>1 DEF Serve, Goto, InHand, Carries
  <2>2. CASE o # q
    <3>1. InHand(o)
      BY <1>5, <2>2 DEF NotDropped
    <3>2. queued'[o] = queued[o]
      BY <1>1, <1>5, <2>2
    <3>3. \A t \in Sessions \ {s} : pc'[t] = pc[t] /\ job'[t] = job[t]
      BY <1>1, <1>5 DEF Serve, Goto
    <3> QED
      BY <1>5, <3>1, <3>2, <3>3, HandsKept DEF Carries
  <2> QED BY <2>1, <2>2
<1>6. ASSUME NEW s \in Sessions, NEW q \in Orders, ExecuteTask(s, q) \/ Call(s, q)
      PROVE  InHand(o)'
  <2>1. CASE DuplicateSubmit(s, q)
    BY <2>1 DEF DuplicateSubmit, vars, task, local, history, NotDropped, InHand, Carries
  <2>2. CASE ExecuteTask(s, q) \/ RetryPendingTasks(s, q)
    BY <1>5, <2>2 DEF ExecuteTask, RetryPendingTasks, task, history
  <2>3. CASE SubmitOrder(s, q)
    BY <1>1, <1>5, <2>3 DEF SubmitOrder, history
  <2>4. CASE ManualRetry(s, q)
    BY <1>1, <1>5, <2>4 DEF ManualRetry
  <2> QED BY <1>6, <2>1, <2>2, <2>3, <2>4 DEF Call
<1> QED
  BY <1>2, <1>3, <1>4, <1>6 DEF Next

(* The safety part of FirstRound: neither the queue's refusals, nor workers *)
(* that die with a job, nor sessions that find the task taken can drop an  *)
(* order between its creation, or its manual reset, and its first round.   *)
THEOREM TasksNotDropped == Spec => []NotDropped
<1>1. Init => LeftByRound /\ NotDropped
  BY NoneAssumption DEF Init, LeftByRound, NotDropped
<1>2. IInv /\ LeftByRound /\ NotDropped /\ [Next]_vars => NotDropped'
  <2> SUFFICES ASSUME IInv, LeftByRound, NotDropped, [Next]_vars  PROVE NotDropped'
    OBVIOUS
  <2>1. CASE Next
    BY <2>1, DropStep DEF NotDropped
  <2>2. CASE UNCHANGED vars
    BY <2>2 DEF vars, task, local, history, NotDropped, InHand, Carries
  <2> QED BY <2>1, <2>2
<1> QED
  BY <1>1, <1>2, RoundKept, DockingInvariant, PTL DEF Spec

-----------------------------------------------------------------------------
(* The life of a task, model.go:29: the moves of its status ...            *)
Moves ==
  {<<None, "Pending">>, <<"Pending", "Locked">>, <<"Locked", "Submitted">>,
   <<"Locked", "Pending">>, <<"Locked", "Failed">>, <<"Failed", "Pending">>}

(* ... the count of its retries, written only as a round ends or the task  *)
(* is reset, and the order taken by the supplier only during a round and   *)
(* only if every acceptance before was lost.                               *)
Lives(o) ==
  /\ status'[o] # status[o] => <<status[o], status'[o]>> \in Moves
  /\ retries'[o] # retries[o] =>
       status[o] \in {"Locked", "Failed"} /\ status'[o] # status[o]
  /\ accepted'[o] # accepted[o] =>
       status[o] = "Locked" /\ status'[o] = "Locked" /\ accepted[o] = lost[o]

(* Although handleSuccess and handleFailure write the task by its id alone, *)
(* and the sessions' copies of it are out of date, no interleaving takes a *)
(* task off this path: only LockTask starts a round, only the session that *)
(* locked the task ends it, and nothing follows Submitted.                 *)
THEOREM TaskLifecycle == Spec => [][\A o \in Orders : Lives(o)]_vars
<1>1. ASSUME IInv, Next, NEW o \in Orders  PROVE Lives(o)
  <2>1. /\ status \in [Orders -> Statuses \cup {None}]
        /\ retries \in [Orders -> Nat] /\ accepted \in [Orders -> Nat]
        /\ \A s \in Sessions : Submitting(s) =>
             job[s] \in Orders /\ status[job[s]] = "Locked"
        /\ \A s \in Sessions : pc[s] = "submit" => accepted[job[s]] = lost[job[s]]
    BY <1>1 DEF IInv, TypeOK, OneSubmitter, SessionInv, Submitting
  <2>2. CASE UNCHANGED <<status, retries, accepted>>
    BY <2>2 DEF Lives
  <2>3. ASSUME NEW s \in Sessions, LockTask(s)  PROVE Lives(o)
    BY <2>1, <2>3 DEF LockTask, Lockable, Lives, Moves, supplier
  <2>4. ASSUME NEW s \in Sessions, Accept(s) \/ Refuse(s) \/ NoAnswer(s)
        PROVE  Lives(o)
    <3>1. pc[s] = "submit" /\ UNCHANGED <<status, retries>>
      BY <2>4 DEF Accept, Refuse, NoAnswer, task
    <3>2. Taken(job[s]) \/ accepted' = accepted
      BY <2>4 DEF Accept, Refuse, NoAnswer, supplier
    <3>3. job[s] \in Orders /\ status[job[s]] = "Locked" /\ accepted[job[s]] = lost[job[s]]
      BY <2>1, <3>1 DEF Submitting
    <3>4. accepted'[o] # accepted[o] => o = job[s]
      BY <2>1, <3>2, <3>3 DEF Taken
    <3> QED BY <3>1, <3>3, <3>4 DEF Lives
  <2>5. ASSUME NEW s \in Sessions, HandleSuccess(s)
        PROVE  Lives(o)
    <3>1. job[s] \in Orders /\ status[job[s]] = "Locked"
      BY <2>1, <2>5 DEF HandleSuccess, Submitting
    <3> QED
      BY <2>1, <2>5, <3>1 DEF HandleSuccess, Lives, Moves, supplier
  <2>6. ASSUME NEW s \in Sessions, HandleFailure(s)
        PROVE  Lives(o)
    <3>1. job[s] \in Orders /\ status[job[s]] = "Locked"
      BY <2>1, <2>6 DEF HandleFailure, Submitting
    <3>2. FailureStatus(s) \in {"Failed", "Pending"}
      BY DEF FailureStatus
    <3> QED
      BY <2>1, <2>6, <3>1, <3>2 DEF HandleFailure, Lives, Moves, supplier
  <2>7. ASSUME NEW s \in Sessions, NEW q \in Orders, SubmitOrder(s, q)
        PROVE  Lives(o)
    BY <2>1, <2>7 DEF SubmitOrder, Lives, Moves, supplier
  <2>8. ASSUME NEW s \in Sessions, NEW q \in Orders, ManualRetry(s, q)
        PROVE  Lives(o)
    BY <2>1, <2>8 DEF ManualRetry, CountReset, Lives, Moves, supplier
  <2> QED
    BY <1>1, <2>2, <2>3, <2>4, <2>5, <2>6, <2>7, <2>8 DEF Next, Execute, Call,
       Dispatch, GetByID, DBError, Die, WorkerDies, ExecuteTask, DuplicateSubmit,
       RetryPendingTasks, task, supplier, vars
<1>2. IInv /\ [Next]_vars => [\A o \in Orders : Lives(o)]_vars
  BY <1>1
<1> QED
  BY <1>2, DockingInvariant, PTL DEF Spec
=============================================================================
