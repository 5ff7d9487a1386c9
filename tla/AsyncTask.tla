----------------------------- MODULE AsyncTask ------------------------------
(***************************************************************************)
(* AsyncTask (src/src/keymaster/async_task.rs): one worker thread, spawned *)
(* on demand, that exits after a time-out and leaves its shelf to the next *)
(* one.                                                                    *)
(*                                                                         *)
(* Each job is queued by a thread of its own, except the ones that another *)
(* job queues (the steps of the garbage collector, gc.rs).  The worker's   *)
(* critical sections are atomic; the mutex is explicit only where it stays *)
(* locked across a blocking call, the join in spawn_thread.  A worker that *)
(* waits may look at the queues at any time: a notification only makes it  *)
(* sooner.  Panics abort the process (panic = 'abort').                    *)
(***************************************************************************)
EXTENDS Naturals, Sequences, FiniteSets

CONSTANTS
    Jobs,
    NoJob,
    Hi,        \* jobs of the high priority queue
    Syncs,     \* jobs offered with queue_hi_if_running
    Requeues,  \* [Jobs -> Jobs \cup {NoJob}]: the job a job queues itself
    MaxWorkers \* worker threads spawned, at most one per queueing caller

Children == {Requeues[j] : j \in Jobs} \ {NoJob}
Callers  == Jobs \ Children
Workers  == 1..MaxWorkers

AsyncAssumption ==
    /\ IsFiniteSet(Jobs) /\ NoJob \notin Jobs
    /\ Requeues \in [Jobs -> Jobs \cup {NoJob}]
    /\ Hi \subseteq Callers /\ Syncs \subseteq Hi
    /\ MaxWorkers \in Nat \ {0}

VARIABLES
    caller,   \* the thread that queues a job
    lock,     \* the caller that holds the mutex while it joins a worker
    state,    \* AsyncTaskState.state
    hi, lo,   \* hi_prio_req, lo_prio_req
    thread,   \* the JoinHandle: the last worker spawned, or 0
    shelf,    \* AsyncTaskState.shelf: NoShelf, or what jobs left on it
    worker,   \* where a worker is
    onStack,  \* the shelf on the stack of a worker
    doneIdle, \* done_idle of a worker
    job,      \* the job a worker performs
    ran,      \* history: the jobs performed, in order
    before    \* history: the high priority jobs queued before a sync

vars == <<caller, lock, state, hi, lo, thread, shelf, worker, onStack, doneIdle, job, ran, before>>

NoShelf == <<NoJob>>
WorkerPCs == {"unborn", "start", "top", "idle", "wait", "run", "leave", "dead"}

Init ==
    /\ caller = [j \in Callers |-> "idle"]
    /\ lock = NoJob
    /\ state = "Exiting"
    /\ hi = <<>> /\ lo = <<>>
    /\ thread = 0
    /\ shelf = NoShelf
    /\ worker = [w \in Workers |-> "unborn"]
    /\ onStack = [w \in Workers |-> NoShelf]
    /\ doneIdle = [w \in Workers |-> FALSE]
    /\ job = [w \in Workers |-> NoJob]
    /\ ran = <<>>
    /\ before = [j \in Syncs |-> {}]

Empty == hi = <<>> /\ lo = <<>>
-----------------------------------------------------------------------------
(***************************************************************************)
(* queue_if and its callers.                                               *)
(***************************************************************************)

\* Mutant of Admitted: a sync is refused unless work is queued.
MutAdmitted(j) == j \in Syncs => hi # <<>>

\* The condition of queue_if: always, or "running or high priority work".
Admitted(j) == j \in Syncs => state = "Running" \/ hi # <<>>

Push(j) == IF j \in Hi THEN hi' = Append(hi, j) /\ UNCHANGED lo
                       ELSE lo' = Append(lo, j) /\ UNCHANGED hi

\* History: a call of queue_hi_if_running starts with these queued before it.
Remember(j) ==
    before' = IF j \in Syncs THEN [before EXCEPT ![j] = {n \in Hi : caller[n] = "queued"}]
                             ELSE before

\* Push the job; without a running worker keep the mutex and spawn one.
Queue(j) ==
    /\ caller[j] = "idle" /\ lock = NoJob
    /\ Admitted(j)
    /\ Push(j)
    /\ Remember(j)
    /\ IF state = "Running"
       THEN caller' = [caller EXCEPT ![j] = "queued"] /\ UNCHANGED lock
       ELSE caller' = [caller EXCEPT ![j] = "spawn"] /\ lock' = j
    /\ UNCHANGED <<state, thread, shelf, worker, onStack, doneIdle, job, ran>>

\* queue_hi_if_running answers false.
Refuse(j) ==
    /\ caller[j] = "idle" /\ lock = NoJob
    /\ ~Admitted(j)
    /\ Remember(j)
    /\ caller' = [caller EXCEPT ![j] = "refused"]
    /\ UNCHANGED <<lock, state, hi, lo, thread, shelf, worker, onStack, doneIdle, job, ran>>

\* spawn_thread: join the last worker, start the next, unlock.
SpawnThread(j) ==
    /\ caller[j] = "spawn"
    /\ thread # 0 => worker[thread] = "dead"
    /\ thread < MaxWorkers
    /\ thread' = thread + 1
    /\ worker' = [worker EXCEPT ![thread + 1] = "start"]
    /\ state' = "Running"
    /\ caller' = [caller EXCEPT ![j] = "queued"]
    /\ lock' = NoJob
    /\ UNCHANGED <<hi, lo, shelf, onStack, doneIdle, job, ran, before>>
-----------------------------------------------------------------------------
(***************************************************************************)
(* The worker.                                                             *)
(***************************************************************************)
At(w, l) == worker[w] = l
Move(w, l) == worker' = [worker EXCEPT ![w] = l]

TakeShelf(w) ==
    /\ At(w, "start") /\ lock = NoJob
    /\ onStack' = [onStack EXCEPT ![w] = IF shelf = NoShelf THEN <<>> ELSE shelf]
    /\ shelf' = NoShelf
    /\ Move(w, "top")
    /\ UNCHANGED <<caller, lock, state, hi, lo, thread, doneIdle, job, ran, before>>

BecomeIdle(w) ==
    /\ At(w, "top") /\ lock = NoJob
    /\ ~doneIdle[w] /\ Empty
    /\ Move(w, "idle")
    /\ UNCHANGED <<caller, lock, state, hi, lo, thread, shelf, onStack, doneIdle, job, ran, before>>

\* The idle callbacks run without the mutex.
RunIdle(w) ==
    /\ At(w, "idle")
    /\ doneIdle' = [doneIdle EXCEPT ![w] = TRUE]
    /\ Move(w, "top")
    /\ UNCHANGED <<caller, lock, state, hi, lo, thread, shelf, onStack, job, ran, before>>

Wait(w) ==
    /\ At(w, "top") /\ lock = NoJob
    /\ doneIdle[w] /\ Empty
    /\ Move(w, "wait")
    /\ UNCHANGED <<caller, lock, state, hi, lo, thread, shelf, onStack, doneIdle, job, ran, before>>

\* Mutant of Pop: the low priority queue is served first.
MutPopLow(w) ==
    /\ worker[w] \in {"top", "wait"} /\ lock = NoJob
    /\ ~Empty
    /\ IF lo # <<>> THEN job' = [job EXCEPT ![w] = Head(lo)] /\ lo' = Tail(lo) /\ UNCHANGED hi
                    ELSE job' = [job EXCEPT ![w] = Head(hi)] /\ hi' = Tail(hi) /\ UNCHANGED lo
    /\ Move(w, "run")
    /\ UNCHANGED <<caller, lock, state, thread, shelf, onStack, doneIdle, ran, before>>

Pop(w) ==
    /\ worker[w] \in {"top", "wait"} /\ lock = NoJob
    /\ ~Empty
    /\ IF hi # <<>> THEN job' = [job EXCEPT ![w] = Head(hi)] /\ hi' = Tail(hi) /\ UNCHANGED lo
                    ELSE job' = [job EXCEPT ![w] = Head(lo)] /\ lo' = Tail(lo) /\ UNCHANGED hi
    /\ Move(w, "run")
    /\ UNCHANGED <<caller, lock, state, thread, shelf, onStack, doneIdle, ran, before>>

\* The job runs without the mutex, may use the shelf and may queue another job
\* of low priority; that call never has to spawn: the worker is running.
Perform(w) ==
    LET j == job[w] IN
    /\ At(w, "run")
    /\ Requeues[j] # NoJob => lock = NoJob
    /\ lo' = IF Requeues[j] = NoJob THEN lo ELSE Append(lo, Requeues[j])
    /\ ran' = Append(ran, j)
    /\ onStack' = [onStack EXCEPT ![w] = Append(@, j)]
    /\ doneIdle' = [doneIdle EXCEPT ![w] = FALSE]
    /\ job' = [job EXCEPT ![w] = NoJob]
    /\ Move(w, "top")
    /\ UNCHANGED <<caller, lock, state, hi, thread, shelf, before>>

\* wait_timeout_while returns timed_out only with both queues empty: the shelf
\* is put back and the state changes in the same critical section.
TimeOut(w) ==
    /\ At(w, "wait") /\ lock = NoJob /\ Empty
    /\ shelf' = onStack[w]
    /\ onStack' = [onStack EXCEPT ![w] = NoShelf]
    /\ state' = "Exiting"
    /\ Move(w, "leave")
    /\ UNCHANGED <<caller, lock, hi, lo, thread, doneIdle, job, ran, before>>

Leave(w) ==
    /\ At(w, "leave")
    /\ Move(w, "dead")
    /\ UNCHANGED <<caller, lock, state, hi, lo, thread, shelf, onStack, doneIdle, job, ran, before>>

\* Every caller is done and no worker is left.
Finished ==
    /\ \A j \in Callers : caller[j] \in {"queued", "refused"}
    /\ \A w \in Workers : worker[w] \in {"unborn", "dead"}
    /\ UNCHANGED vars
-----------------------------------------------------------------------------
CallerStep(j) == Queue(j) \/ Refuse(j) \/ SpawnThread(j)

WorkerStep(w) ==
    \/ TakeShelf(w) \/ BecomeIdle(w) \/ RunIdle(w) \/ Wait(w) \/ Pop(w)
    \/ Perform(w) \/ TimeOut(w) \/ Leave(w)

Next ==
    \/ \E j \in Callers : CallerStep(j)
    \/ \E w \in Workers : WorkerStep(w)
    \/ Finished

Spec == Init /\ [][Next]_vars

\* Threads run: the worker's, and a caller's once it is inside spawn_thread.
FairSpec ==
    /\ Spec
    /\ \A w \in Workers : WF_vars(WorkerStep(w))
    /\ \A j \in Callers : WF_vars(SpawnThread(j))
-----------------------------------------------------------------------------
(***************************************************************************)
(* Properties.                                                             *)
(***************************************************************************)

\* Every variable stays in its type.
TypeOK ==
    /\ caller \in [Callers -> {"idle", "spawn", "queued", "refused"}]
    /\ lock \in Callers \cup {NoJob}
    /\ state \in {"Exiting", "Running"}
    /\ hi \in Seq(Jobs) /\ lo \in Seq(Jobs)
    /\ thread \in 0..MaxWorkers
    /\ shelf \in Seq(Jobs) \cup {NoShelf}
    /\ worker \in [Workers -> WorkerPCs]
    /\ onStack \in [Workers -> Seq(Jobs) \cup {NoShelf}]
    /\ doneIdle \in [Workers -> BOOLEAN]
    /\ job \in [Workers -> Jobs \cup {NoJob}]
    /\ ran \in Seq(Jobs)
    /\ before \in [Syncs -> SUBSET Hi]

In(s) == {s[i] : i \in 1..Len(s)}

\* is_device_locked synchronizes with the notification queue: once its marker
\* was refused or has run, every notification queued before it was processed,
\* so that the lock state it then reads is up to date.
SyncSound ==
    \A j \in Syncs :
        caller[j] = "refused" \/ j \in In(ran) => before[j] \subseteq In(ran)

\* The task implements the abstract queue, liveness included: every job that
\* was queued is performed, once, in the order of its queue.
Busy == IF thread = 0 THEN NoJob ELSE job[thread]
Queues == INSTANCE JobQueue WITH busy <- Busy
ImplementsQueue == Queues!Spec
=============================================================================
