-------------------------- MODULE AsyncTaskProofs ---------------------------
(***************************************************************************)
(* Proofs about AsyncTask, for every finite set of jobs, any of which may  *)
(* queue another, and any number of workers that come and go.              *)
(***************************************************************************)
EXTENDS AsyncTask, TLAPS

Serving == {"top", "idle", "wait", "run"}

(***************************************************************************)
(* The inductive invariant.  There is one worker at a time, the last one   *)
(* that was spawned, and only its job is being performed.                  *)
(***************************************************************************)
OneWorker ==
    /\ \A w \in Workers : w < thread => worker[w] = "dead"
    /\ \A w \in Workers : w > thread => worker[w] = "unborn"
    /\ thread # 0 => worker[thread] # "unborn"

\* The state says whether it takes jobs.
StateKnows == state = "Running" <=> thread # 0 /\ worker[thread] \in Serving \cup {"start"}

JobWhileRunning == \A w \in Workers : job[w] # NoJob <=> worker[w] = "run"

\* A caller that spawns a worker has the mutex, and there is no worker.
SpawnLocked ==
    \A j \in Callers : caller[j] = "spawn" => lock = j /\ state = "Exiting"

\* A job that is in a queue, performed or done was queued.
KnownQueued ==
    \A j \in Callers :
        j \in In(hi) \cup In(lo) \cup {Busy} \cup In(ran) => caller[j] \in {"spawn", "queued"}

\* A high priority job that was queued is in its queue, performed or done.
QueuedKnown ==
    \A j \in Hi : caller[j] \in {"spawn", "queued"} => j \in In(hi) \cup {Busy} \cup In(ran)

LowIsLow == In(lo) \cap Hi = {}

\* What was queued before a sync is ahead of it.
Ahead(i) == {hi[k] : k \in 1..(i - 1)}

BeforeAhead ==
    /\ \A i \in 1..Len(hi) : hi[i] \in Syncs => before[hi[i]] \subseteq Ahead(i) \cup {Busy} \cup In(ran)
    /\ Busy \in Syncs => before[Busy] \subseteq In(ran)

\* The shelf is with the worker, or in the shared state for the next one.
TheShelf ==
    IF thread # 0 /\ worker[thread] \in Serving THEN onStack[thread]
    ELSE IF shelf = NoShelf THEN <<>> ELSE shelf

\* What jobs left on the shelf is there for the next job, also when the worker
\* exited in between: "When the worker exits it puts the shelf back into the
\* shared state for the next worker to use."
ShelfKept == TheShelf = ran

IInv ==
    /\ TypeOK
    /\ OneWorker
    /\ StateKnows
    /\ JobWhileRunning
    /\ SpawnLocked
    /\ KnownQueued
    /\ QueuedKnown
    /\ LowIsLow
    /\ BeforeAhead
    /\ ShelfKept
    /\ SyncSound
-----------------------------------------------------------------------------
(***************************************************************************)
(* Sequences and their elements.                                           *)
(***************************************************************************)
LEMMA InAppend ==
    ASSUME NEW S, NEW s \in Seq(S), NEW e \in S
    PROVE  /\ Append(s, e) \in Seq(S) /\ In(Append(s, e)) = In(s) \cup {e}
           /\ Len(Append(s, e)) = Len(s) + 1
           /\ \A i \in 1..Len(s) : Append(s, e)[i] = s[i]
           /\ Append(s, e)[Len(s) + 1] = e
BY DEF In

LEMMA InTail ==
    ASSUME NEW S, NEW s \in Seq(S), s # <<>>
    PROVE  /\ Tail(s) \in Seq(S) /\ Head(s) \in S /\ Head(s) = s[1] /\ Len(s) > 0
           /\ In(s) = In(Tail(s)) \cup {Head(s)}
           /\ Len(Tail(s)) = Len(s) - 1
           /\ \A i \in 1..Len(Tail(s)) : Tail(s)[i] = s[i + 1]
<1>1. /\ Tail(s) \in Seq(S) /\ Head(s) \in S /\ Head(s) = s[1] /\ Len(s) > 0 /\ Len(s) \in Nat
      /\ Len(Tail(s)) = Len(s) - 1
      /\ \A i \in 1..Len(Tail(s)) : Tail(s)[i] = s[i + 1]
  OBVIOUS
<1>2. ASSUME NEW x \in In(s) PROVE x \in In(Tail(s)) \cup {Head(s)}
  <2>1. PICK i \in 1..Len(s) : x = s[i]
    BY DEF In
  <2>2. CASE i = 1
    BY <1>1, <2>1, <2>2
  <2>3. CASE i # 1
    <3>1. i - 1 \in 1..Len(Tail(s)) /\ Tail(s)[i - 1] = s[i]
      BY <1>1, <2>3
    <3> QED BY <2>1, <3>1 DEF In
  <2> QED BY <2>2, <2>3
<1>3. ASSUME NEW x \in In(Tail(s)) PROVE x \in In(s)
  <2>1. PICK i \in 1..Len(Tail(s)) : x = Tail(s)[i]
    BY DEF In
  <2>2. i + 1 \in 1..Len(s) /\ x = s[i + 1]
    BY <1>1, <2>1
  <2> QED BY <2>2 DEF In
<1>4. Head(s) \in In(s)
  BY <1>1 DEF In
<1> QED BY <1>1, <1>2, <1>3, <1>4
-----------------------------------------------------------------------------
\* The worker that is at work is the last one that was spawned.
LEMMA ActiveIsThread ==
    ASSUME AsyncAssumption, IInv, NEW w \in Workers, worker[w] \notin {"unborn", "dead"}
    PROVE  thread = w /\ thread # 0 /\ Busy = job[w]
BY DEF AsyncAssumption, IInv, TypeOK, OneWorker, Workers, Busy

\* A step of the worker that leaves the queues and the jobs alone.
LEMMA QuietStep ==
    ASSUME IInv, TypeOK', OneWorker', StateKnows', JobWhileRunning', ShelfKept',
           state' \in {state, "Exiting"},
           UNCHANGED <<caller, lock, hi, lo, thread, job, ran, before>>
    PROVE  IInv'
<1>1. Busy' = Busy
  BY DEF Busy
<1>2. SpawnLocked'
  BY DEF IInv, SpawnLocked
<1>3. KnownQueued' /\ QueuedKnown' /\ LowIsLow' /\ SyncSound'
  BY <1>1 DEF IInv, KnownQueued, LowIsLow, QueuedKnown, SyncSound
<1>4. BeforeAhead'
  BY <1>1 DEF IInv, BeforeAhead, Ahead
<1> QED BY <1>2, <1>3, <1>4 DEF IInv

LEMMA WorkerQuiet ==
    ASSUME AsyncAssumption, IInv, NEW w \in Workers,
           TakeShelf(w) \/ BecomeIdle(w) \/ RunIdle(w) \/ Wait(w) \/ TimeOut(w) \/ Leave(w)
    PROVE  IInv'
<1>0. /\ worker \in [Workers -> WorkerPCs] /\ onStack \in [Workers -> Seq(Jobs) \cup {NoShelf}]
      /\ doneIdle \in [Workers -> BOOLEAN] /\ shelf \in Seq(Jobs) \cup {NoShelf}
  BY DEF IInv, TypeOK
<1>1. UNCHANGED <<caller, lock, hi, lo, thread, job, ran, before>> /\ state' \in {state, "Exiting"}
  BY DEF TakeShelf, BecomeIdle, RunIdle, Wait, TimeOut, Leave
<1>2. worker[w] \in {"start", "top", "idle", "wait", "leave"}
  BY DEF TakeShelf, BecomeIdle, RunIdle, Wait, TimeOut, Leave, At
<1>3. thread = w /\ thread # 0 /\ thread \in Nat
  <2>1. thread = w /\ thread # 0
    BY <1>2, ActiveIsThread
  <2> QED BY <2>1 DEF IInv, TypeOK
<1>4. PICK l \in {"top", "idle", "wait", "leave", "dead"} : worker' = [worker EXCEPT ![w] = l]
  BY DEF TakeShelf, BecomeIdle, RunIdle, Wait, TimeOut, Leave, Move
<1>5. worker' \in [Workers -> WorkerPCs] /\ worker'[w] = l /\ \A v \in Workers \ {w} : worker'[v] = worker[v]
  BY <1>0, <1>4 DEF WorkerPCs
<1>6. TypeOK'
  <2>1. /\ shelf' \in Seq(Jobs) \cup {NoShelf}
        /\ onStack' \in [Workers -> Seq(Jobs) \cup {NoShelf}]
        /\ doneIdle' \in [Workers -> BOOLEAN]
    <3>1. CASE TakeShelf(w)
      <4>1. (IF shelf = NoShelf THEN <<>> ELSE shelf) \in Seq(Jobs) \cup {NoShelf}
        BY <1>0
      <4> QED BY <1>0, <3>1, <4>1 DEF TakeShelf
    <3>2. CASE BecomeIdle(w) \/ RunIdle(w) \/ Wait(w) \/ Leave(w)
      BY <1>0, <3>2 DEF BecomeIdle, RunIdle, Wait, Leave
    <3>3. CASE TimeOut(w)
      BY <1>0, <3>3 DEF TimeOut
    <3> QED BY <3>1, <3>2, <3>3
  <2> QED BY <1>1, <1>5, <2>1 DEF IInv, TypeOK
<1>7. OneWorker'
  BY <1>1, <1>3, <1>5 DEF IInv, OneWorker
<1>8. StateKnows'
  BY <1>1, <1>2, <1>3, <1>5
     DEF IInv, StateKnows, Serving, TakeShelf, BecomeIdle, RunIdle, Wait, TimeOut, Leave, Move, At
<1>9. JobWhileRunning'
  BY <1>1, <1>2, <1>4, <1>5 DEF IInv, JobWhileRunning
<1>10. ShelfKept'
  <2>1. TheShelf' = TheShelf
    <3>1. CASE TakeShelf(w)
      BY <1>0, <1>1, <1>3, <3>1 DEF TheShelf, Serving, TakeShelf, Move, At
    <3>2. CASE BecomeIdle(w) \/ RunIdle(w) \/ Wait(w)
      BY <1>0, <1>1, <1>3, <3>2 DEF TheShelf, Serving, BecomeIdle, RunIdle, Wait, Move, At
    <3>3. CASE TimeOut(w)
      <4>1. onStack[w] = ran /\ ran \in Seq(Jobs)
        BY <1>3, <3>3 DEF IInv, TypeOK, ShelfKept, TheShelf, TimeOut, At, Serving
      <4>2. onStack[w] # NoShelf
        <5> SUFFICES ASSUME ran = <<NoJob>> PROVE NoJob \in Jobs
          BY <4>1 DEF NoShelf, AsyncAssumption
        <5>1. Len(ran) = 1 /\ ran[1] = NoJob
          OBVIOUS
        <5> QED BY <4>1, <5>1
      <4> QED BY <1>0, <1>1, <1>3, <3>3, <4>2 DEF TheShelf, Serving, TimeOut, Move, At
    <3>4. CASE Leave(w)
      BY <1>0, <1>1, <1>3, <3>4 DEF TheShelf, Serving, Leave, Move, At
    <3> QED BY <3>1, <3>2, <3>3, <3>4
  <2> QED BY <1>1, <2>1 DEF IInv, ShelfKept
<1> QED BY <1>1, <1>6, <1>7, <1>8, <1>9, <1>10, QuietStep
-----------------------------------------------------------------------------
\* The callers are jobs, and no job is the mark for none.
LEMMA CallerFacts ==
    ASSUME AsyncAssumption, NEW j \in Callers
    PROVE  j \in Jobs /\ j # NoJob
BY DEF AsyncAssumption, Callers

\* While the state is Exiting no job is performed.
LEMMA ExitingIdle ==
    ASSUME AsyncAssumption, IInv, state = "Exiting"
    PROVE  Busy = NoJob
BY DEF AsyncAssumption, IInv, TypeOK, StateKnows, JobWhileRunning, Busy, Workers, Serving

LEMMA QueueStep ==
    ASSUME AsyncAssumption, IInv, NEW j \in Callers, Queue(j)
    PROVE  IInv' /\ Queues!Enqueue(j)
<1>0. /\ caller \in [Callers -> {"idle", "spawn", "queued", "refused"}]
      /\ hi \in Seq(Jobs) /\ lo \in Seq(Jobs) /\ before \in [Syncs -> SUBSET Hi]
      /\ state \in {"Exiting", "Running"} /\ ran \in Seq(Jobs)
      /\ j \in Jobs /\ j # NoJob /\ NoJob \notin Callers
      /\ Hi \subseteq Callers /\ Syncs \subseteq Hi
  BY CallerFacts DEF IInv, TypeOK, AsyncAssumption
<1>1. /\ caller[j] = "idle" /\ lock = NoJob /\ Push(j) /\ Remember(j)
      /\ UNCHANGED <<state, thread, shelf, worker, onStack, doneIdle, job, ran>>
      /\ IF state = "Running" THEN caller' = [caller EXCEPT ![j] = "queued"] /\ lock' = NoJob
                              ELSE caller' = [caller EXCEPT ![j] = "spawn"] /\ lock' = j
  BY DEF Queue
<1>2. j \notin In(hi) \cup In(lo) \cup {Busy} \cup In(ran)
  BY <1>1 DEF IInv, KnownQueued
<1>3. Busy' = Busy
  BY <1>1 DEF Busy
<1>4. /\ caller' \in [Callers -> {"idle", "spawn", "queued", "refused"}]
      /\ caller'[j] \in {"queued", "spawn"} /\ \A k \in Callers \ {j} : caller'[k] = caller[k]
      /\ caller'[j] = "spawn" => lock' = j /\ state = "Exiting"
      /\ lock' \in Callers \cup {NoJob}
  BY <1>0, <1>1
<1>5. /\ hi' \in Seq(Jobs) /\ lo' \in Seq(Jobs)
      /\ In(hi)' = IF j \in Hi THEN In(hi) \cup {j} ELSE In(hi)
      /\ In(lo)' = IF j \in Hi THEN In(lo) ELSE In(lo) \cup {j}
  <2>1. In(hi)' = In(hi') /\ In(lo)' = In(lo')
    BY DEF In
  <2>2. CASE j \in Hi
    <3>1. hi' = Append(hi, j) /\ lo' = lo
      BY <1>1, <2>2 DEF Push
    <3> QED BY <1>0, <2>1, <2>2, <3>1, InAppend
  <2>3. CASE j \notin Hi
    <3>1. lo' = Append(lo, j) /\ hi' = hi
      BY <1>1, <2>3 DEF Push
    <3> QED BY <1>0, <2>1, <2>3, <3>1, InAppend
  <2> QED BY <2>2, <2>3
<1>6. /\ before' \in [Syncs -> SUBSET Hi]
      /\ \A k \in Syncs \ {j} : before'[k] = before[k]
      /\ j \in Syncs => before'[j] \subseteq In(hi) \cup {Busy} \cup In(ran)
  <2>1. {n \in Hi : caller[n] = "queued"} \subseteq In(hi) \cup {Busy} \cup In(ran)
    BY DEF IInv, QueuedKnown
  <2> QED BY <1>0, <1>1, <2>1 DEF Remember
<1>7. TypeOK'
  BY <1>1, <1>4, <1>5, <1>6 DEF IInv, TypeOK
<1>8. OneWorker' /\ StateKnows' /\ JobWhileRunning'
  BY <1>1 DEF IInv, OneWorker, StateKnows, JobWhileRunning
<1>9. SpawnLocked'
  BY <1>0, <1>1, <1>4 DEF IInv, SpawnLocked
<1>10. KnownQueued'
  BY <1>1, <1>3, <1>4, <1>5 DEF IInv, KnownQueued
<1>11. QueuedKnown'
  BY <1>0, <1>1, <1>3, <1>4, <1>5 DEF IInv, QueuedKnown
<1>12. LowIsLow'
  BY <1>5 DEF IInv, LowIsLow
<1>13. BeforeAhead'
  <2>1. Busy' \in Syncs => before'[Busy'] \subseteq In(ran)'
    BY <1>1, <1>2, <1>3, <1>6 DEF IInv, BeforeAhead
  <2>2. CASE j \notin Hi
    <3>1. hi' = hi
      BY <1>1, <2>2 DEF Push
    <3>2. \A i \in 1..Len(hi) : hi[i] # j /\ Ahead(i)' = Ahead(i)
      BY <1>2, <3>1 DEF In, Ahead
    <3> QED BY <1>1, <1>3, <1>6, <2>1, <3>1, <3>2 DEF IInv, BeforeAhead
  <2>3. CASE j \in Hi
    <3>1. /\ hi' = Append(hi, j) /\ Len(hi') = Len(hi) + 1 /\ Len(hi) \in Nat
          /\ \A i \in 1..Len(hi) : hi'[i] = hi[i]
          /\ hi'[Len(hi) + 1] = j
      BY <1>0, <1>1, <2>3, InAppend DEF Push
    <3>2. \A i \in 1..Len(hi) : hi[i] # j /\ Ahead(i)' = Ahead(i)
      BY <1>2, <3>1 DEF In, Ahead
    <3>3. Ahead(Len(hi) + 1)' = {hi'[k] : k \in 1..((Len(hi) + 1)' - 1)}
      BY DEF Ahead
    <3>4. \A x \in In(hi) : x \in {hi'[k] : k \in 1..Len(hi)}
      BY <3>1 DEF In
    <3> SUFFICES ASSUME NEW i \in 1..Len(hi'), hi'[i] \in Syncs
                 PROVE  before'[hi'[i]] \subseteq Ahead(i)' \cup {Busy'} \cup In(ran)'
      BY <2>1 DEF BeforeAhead
    <3>5. CASE i \in 1..Len(hi)
      BY <1>1, <1>3, <1>6, <3>1, <3>2, <3>5 DEF IInv, BeforeAhead
    <3>6. CASE i = Len(hi) + 1
      <4>1. Ahead(i)' = {hi'[k] : k \in 1..Len(hi)}
        BY <3>1, <3>6 DEF Ahead
      <4> QED BY <1>1, <1>3, <1>6, <3>1, <3>4, <3>6, <4>1
    <3> QED BY <3>1, <3>5, <3>6
  <2> QED BY <2>2, <2>3
<1>14. SyncSound'
  BY <1>0, <1>1, <1>2, <1>4, <1>6 DEF IInv, SyncSound
<1>15. ShelfKept'
  BY <1>1 DEF IInv, ShelfKept, TheShelf
<1>16. Queues!Enqueue(j)
  BY <1>1, <1>2, <1>3 DEF Queues!Enqueue, Queues!Known, Queues!In, In, Push
<1> QED BY <1>7, <1>8, <1>9, <1>10, <1>11, <1>12, <1>13, <1>14, <1>15, <1>16 DEF IInv

LEMMA RefuseStep ==
    ASSUME AsyncAssumption, IInv, NEW j \in Callers, Refuse(j)
    PROVE  IInv' /\ UNCHANGED <<hi, lo, Busy, ran>>
<1>0. /\ caller \in [Callers -> {"idle", "spawn", "queued", "refused"}]
      /\ before \in [Syncs -> SUBSET Hi] /\ state \in {"Exiting", "Running"}
      /\ NoJob \notin Callers /\ Hi \subseteq Callers /\ Syncs \subseteq Hi
  BY CallerFacts DEF IInv, TypeOK, AsyncAssumption
<1>1. /\ caller[j] = "idle" /\ lock = NoJob /\ j \in Syncs /\ state = "Exiting" /\ hi = <<>>
      /\ Remember(j) /\ caller' = [caller EXCEPT ![j] = "refused"]
      /\ UNCHANGED <<lock, state, hi, lo, thread, shelf, worker, onStack, doneIdle, job, ran>>
  BY <1>0 DEF Refuse, Admitted
<1>2. Busy' = Busy /\ Busy = NoJob
  BY <1>1, ExitingIdle DEF Busy
<1>3. In(hi) = {}
  BY <1>1 DEF In
<1>4. j \notin In(hi) \cup In(lo) \cup {Busy} \cup In(ran)
  BY <1>1 DEF IInv, KnownQueued
<1>5. /\ caller' \in [Callers -> {"idle", "spawn", "queued", "refused"}]
      /\ caller'[j] = "refused" /\ \A k \in Callers \ {j} : caller'[k] = caller[k]
  BY <1>0, <1>1
<1>6. /\ before' \in [Syncs -> SUBSET Hi]
      /\ \A k \in Syncs \ {j} : before'[k] = before[k]
      /\ before'[j] \subseteq In(ran)
  <2>1. {n \in Hi : caller[n] = "queued"} \subseteq In(ran)
    BY <1>0, <1>2, <1>3 DEF IInv, QueuedKnown
  <2> QED BY <1>0, <1>1, <2>1 DEF Remember
<1>7. TypeOK'
  BY <1>1, <1>5, <1>6 DEF IInv, TypeOK
<1>8. OneWorker' /\ StateKnows' /\ JobWhileRunning' /\ ShelfKept' /\ LowIsLow'
  BY <1>1 DEF IInv, OneWorker, StateKnows, JobWhileRunning, ShelfKept, TheShelf, LowIsLow
<1>9. SpawnLocked'
  BY <1>1, <1>5 DEF IInv, SpawnLocked
<1>10. KnownQueued' /\ QueuedKnown'
  BY <1>0, <1>1, <1>2, <1>4, <1>5 DEF IInv, KnownQueued, QueuedKnown
<1>11. BeforeAhead'
  BY <1>0, <1>1, <1>2 DEF BeforeAhead
<1>12. SyncSound'
  BY <1>0, <1>1, <1>5, <1>6 DEF IInv, SyncSound
<1> QED BY <1>1, <1>2, <1>7, <1>8, <1>9, <1>10, <1>11, <1>12 DEF IInv

LEMMA SpawnStep ==
    ASSUME AsyncAssumption, IInv, NEW j \in Callers, SpawnThread(j)
    PROVE  IInv' /\ UNCHANGED <<hi, lo, Busy, ran>>
<1>0. /\ caller \in [Callers -> {"idle", "spawn", "queued", "refused"}]
      /\ worker \in [Workers -> WorkerPCs] /\ thread \in 0..MaxWorkers
      /\ Workers = 1..MaxWorkers /\ MaxWorkers \in Nat /\ Hi \subseteq Callers /\ Syncs \subseteq Hi
  BY DEF IInv, TypeOK, AsyncAssumption, Workers
<1>a. PICK n \in Workers : n = thread + 1
  BY <1>0 DEF SpawnThread
<1>1. /\ caller[j] = "spawn" /\ lock = j /\ state = "Exiting"
      /\ thread # 0 => worker[thread] = "dead"
      /\ thread' = n /\ worker' = [worker EXCEPT ![n] = "start"] /\ state' = "Running"
      /\ caller' = [caller EXCEPT ![j] = "queued"] /\ lock' = NoJob
      /\ UNCHANGED <<hi, lo, shelf, onStack, doneIdle, job, ran, before>>
  BY <1>a DEF SpawnThread, IInv, SpawnLocked
<1>2. /\ worker' \in [Workers -> WorkerPCs] /\ worker'[n] = "start"
      /\ \A v \in Workers \ {n} : worker'[v] = worker[v]
      /\ worker[n] = "unborn" /\ job[n] = NoJob
  <2>1. worker[n] = "unborn"
    BY <1>0, <1>a DEF IInv, OneWorker
  <2> QED BY <1>0, <1>1, <2>1 DEF WorkerPCs, IInv, JobWhileRunning
<1>3. Busy = NoJob /\ Busy' = NoJob
  <2>1. n # 0
    BY <1>0
  <2> QED BY <1>1, <1>2, <2>1, ExitingIdle DEF Busy
<1>4. /\ caller' \in [Callers -> {"idle", "spawn", "queued", "refused"}]
      /\ caller'[j] = "queued" /\ \A k \in Callers \ {j} : caller'[k] = caller[k]
  BY <1>0, <1>1
<1>5. TypeOK'
  BY <1>0, <1>1, <1>2, <1>4 DEF IInv, TypeOK
<1>6. OneWorker'
  BY <1>0, <1>1, <1>2, <1>a DEF IInv, OneWorker
<1>7. StateKnows'
  BY <1>0, <1>1, <1>2 DEF StateKnows
<1>8. JobWhileRunning'
  BY <1>1, <1>2 DEF IInv, JobWhileRunning
<1>9. SpawnLocked'
  BY <1>1, <1>4 DEF IInv, SpawnLocked
<1>10. KnownQueued' /\ QueuedKnown' /\ LowIsLow'
  BY <1>0, <1>1, <1>3, <1>4 DEF IInv, KnownQueued, QueuedKnown, LowIsLow
<1>11. BeforeAhead'
  BY <1>1, <1>3 DEF IInv, BeforeAhead, Ahead
<1>12. SyncSound'
  BY <1>0, <1>1, <1>4 DEF IInv, SyncSound
<1>13. ShelfKept'
  BY <1>0, <1>1, <1>2 DEF IInv, ShelfKept, TheShelf, Serving
<1> QED BY <1>1, <1>3, <1>5, <1>6, <1>7, <1>8, <1>9, <1>10, <1>11, <1>12, <1>13 DEF IInv

LEMMA PopStep ==
    ASSUME AsyncAssumption, IInv, NEW w \in Workers, Pop(w)
    PROVE  IInv' /\ Queues!Start
<1>0. /\ hi \in Seq(Jobs) /\ lo \in Seq(Jobs) /\ ran \in Seq(Jobs)
      /\ before \in [Syncs -> SUBSET Hi] /\ Len(hi) \in Nat
      /\ worker \in [Workers -> WorkerPCs] /\ job \in [Workers -> Jobs \cup {NoJob}]
      /\ NoJob \notin Jobs /\ Hi \subseteq Callers /\ Syncs \subseteq Hi /\ NoJob \notin Hi
  BY CallerFacts DEF IInv, TypeOK, AsyncAssumption
<1>1. /\ worker[w] \in {"top", "wait"} /\ ~Empty
      /\ worker' = [worker EXCEPT ![w] = "run"]
      /\ UNCHANGED <<caller, lock, state, thread, shelf, onStack, doneIdle, ran, before>>
  BY DEF Pop, Move
<1>2. thread = w /\ thread # 0 /\ Busy = job[w] /\ thread \in Nat
  <2>1. thread = w /\ thread # 0 /\ Busy = job[w]
    BY <1>1, ActiveIsThread
  <2> QED BY <2>1 DEF IInv, TypeOK
<1>3. Busy = NoJob
  BY <1>1, <1>2 DEF IInv, JobWhileRunning
<1>4. In(hi)' = In(hi') /\ In(lo)' = In(lo') /\ In(ran)' = In(ran)
  BY <1>1 DEF In
<1>5. PICK x \in Jobs :
        /\ job' = [job EXCEPT ![w] = x]
        /\ \/ /\ hi # <<>> /\ x = Head(hi) /\ hi' = Tail(hi) /\ lo' = lo
              /\ In(hi) = In(hi') \cup {x}
           \/ /\ hi = <<>> /\ lo # <<>> /\ x = Head(lo) /\ lo' = Tail(lo) /\ hi' = hi
              /\ In(lo) = In(lo') \cup {x}
  <2>1. CASE hi # <<>>
    <3>1. /\ Head(hi) \in Jobs /\ job' = [job EXCEPT ![w] = Head(hi)] /\ hi' = Tail(hi) /\ lo' = lo
          /\ In(hi) = In(Tail(hi)) \cup {Head(hi)}
      BY <1>0, <2>1, InTail DEF Pop
    <3> QED BY <2>1, <3>1
  <2>2. CASE hi = <<>>
    <3>1. /\ Head(lo) \in Jobs /\ job' = [job EXCEPT ![w] = Head(lo)] /\ lo' = Tail(lo) /\ hi' = hi
          /\ In(lo) = In(Tail(lo)) \cup {Head(lo)} /\ lo # <<>>
      BY <1>0, <1>1, <2>2, InTail DEF Pop, Empty
    <3> QED BY <2>2, <3>1
  <2> QED BY <2>1, <2>2
<1>6. /\ job' \in [Workers -> Jobs \cup {NoJob}] /\ job'[w] = x
      /\ \A v \in Workers \ {w} : job'[v] = job[v]
      /\ worker' \in [Workers -> WorkerPCs] /\ worker'[w] = "run"
      /\ \A v \in Workers \ {w} : worker'[v] = worker[v]
  BY <1>0, <1>1, <1>5 DEF WorkerPCs
<1>7. Busy' = x
  BY <1>1, <1>2, <1>6 DEF Busy
<1>8. hi' \in Seq(Jobs) /\ lo' \in Seq(Jobs)
  <2>1. (hi # <<>> => Tail(hi) \in Seq(Jobs)) /\ (lo # <<>> => Tail(lo) \in Seq(Jobs))
    BY <1>0
  <2> QED BY <1>0, <1>5, <2>1
<1>9. TypeOK'
  BY <1>1, <1>6, <1>8 DEF IInv, TypeOK
<1>10. OneWorker'
  BY <1>1, <1>2, <1>6 DEF IInv, OneWorker
<1>11. StateKnows'
  BY <1>1, <1>2, <1>6 DEF IInv, StateKnows, Serving
<1>12. JobWhileRunning'
  BY <1>0, <1>6 DEF IInv, JobWhileRunning
<1>13. SpawnLocked'
  BY <1>1 DEF IInv, SpawnLocked
<1>14. KnownQueued'
  BY <1>1, <1>4, <1>5, <1>7 DEF IInv, KnownQueued
<1>15. QueuedKnown'
  BY <1>0, <1>1, <1>3, <1>4, <1>5, <1>7 DEF IInv, QueuedKnown
<1>16. LowIsLow'
  BY <1>4, <1>5 DEF IInv, LowIsLow
<1>17. BeforeAhead'
  <2>1. CASE hi = <<>>
    <3>1. x \notin Syncs
      BY <1>0, <1>5, <2>1 DEF IInv, LowIsLow
    <3> QED BY <1>5, <1>7, <2>1, <3>1 DEF BeforeAhead
  <2>2. CASE hi # <<>>
    <3>1. /\ x = hi[1] /\ Len(hi) > 0 /\ Len(hi') = Len(hi) - 1 /\ Len(hi') \in Nat
          /\ \A i \in 1..Len(hi') : hi'[i] = hi[i + 1]
      <4>1. /\ Head(hi) = hi[1] /\ Len(hi) > 0 /\ Len(Tail(hi)) = Len(hi) - 1
            /\ \A i \in 1..Len(Tail(hi)) : Tail(hi)[i] = hi[i + 1]
        BY <1>0, <2>2, InTail
      <4>2. x = Head(hi) /\ hi' = Tail(hi)
        BY <1>5, <2>2
      <4> QED BY <1>0, <4>1, <4>2
    <3>2. x \in Syncs => before[x] \subseteq In(ran)
      <4>1. Ahead(1) = {}
        BY DEF Ahead
      <4> QED BY <1>0, <1>3, <3>1, <4>1 DEF IInv, BeforeAhead
    <3>3. ASSUME NEW i \in 1..Len(hi'), hi'[i] \in Syncs
          PROVE  before'[hi'[i]] \subseteq Ahead(i)' \cup {Busy'} \cup In(ran)'
      <4>1. i + 1 \in 1..Len(hi) /\ hi[i + 1] = hi'[i]
        BY <1>0, <3>1
      <4>2. before[hi'[i]] \subseteq Ahead(i + 1) \cup {Busy} \cup In(ran)
        BY <3>3, <4>1 DEF IInv, BeforeAhead
      <4>3. Ahead(i + 1) \subseteq Ahead(i)' \cup {x}
        <5> SUFFICES ASSUME NEW k \in 1..i, hi[k] # x PROVE hi[k] \in Ahead(i)'
          BY DEF Ahead
        <5>1. k # 1 /\ k - 1 \in 1..Len(hi') /\ k - 1 \in 1..(i - 1)
          BY <3>1
        <5>2. hi[k] = hi'[k - 1]
          BY <3>1, <5>1
        <5> QED BY <5>1, <5>2 DEF Ahead
      <4>4. before[hi'[i]] \subseteq Hi
        BY <1>0, <3>3
      <4> QED BY <1>0, <1>1, <1>3, <1>4, <1>7, <4>2, <4>3, <4>4
    <3> QED BY <1>1, <1>4, <1>7, <3>2, <3>3 DEF BeforeAhead
  <2> QED BY <2>1, <2>2
<1>18. SyncSound'
  BY <1>1, <1>4 DEF IInv, SyncSound
<1>19. ShelfKept'
  BY <1>1, <1>2, <1>6 DEF IInv, ShelfKept, TheShelf, Serving
<1>20. Queues!Start
  BY <1>1, <1>3, <1>5, <1>7 DEF Queues!Start
<1> QED BY <1>9, <1>10, <1>11, <1>12, <1>13, <1>14, <1>15, <1>16, <1>17, <1>18, <1>19, <1>20 DEF IInv

LEMMA PerformStep ==
    ASSUME AsyncAssumption, IInv, NEW w \in Workers, Perform(w)
    PROVE  IInv' /\ Queues!Perform
<1>0. /\ lo \in Seq(Jobs) /\ ran \in Seq(Jobs) /\ before \in [Syncs -> SUBSET Hi]
      /\ onStack \in [Workers -> Seq(Jobs) \cup {NoShelf}] /\ doneIdle \in [Workers -> BOOLEAN]
      /\ worker \in [Workers -> WorkerPCs] /\ job \in [Workers -> Jobs \cup {NoJob}]
      /\ Requeues \in [Jobs -> Jobs \cup {NoJob}]
      /\ NoJob \notin Jobs /\ Hi \subseteq Callers /\ Syncs \subseteq Hi /\ Callers \subseteq Jobs
  BY CallerFacts DEF IInv, TypeOK, AsyncAssumption
<1>1. worker[w] = "run"
  BY DEF Perform, At
<1>2. thread = w /\ thread # 0 /\ Busy = job[w] /\ thread \in Nat
  <2>1. thread = w /\ thread # 0 /\ Busy = job[w]
    BY <1>1, ActiveIsThread
  <2> QED BY <2>1 DEF IInv, TypeOK
<1>a. PICK j \in Jobs : j = job[w]
  BY <1>0, <1>1 DEF IInv, JobWhileRunning
<1>3. /\ lo' = IF Requeues[j] = NoJob THEN lo ELSE Append(lo, Requeues[j])
      /\ ran' = Append(ran, j) /\ onStack' = [onStack EXCEPT ![w] = Append(@, j)]
      /\ doneIdle' = [doneIdle EXCEPT ![w] = FALSE] /\ job' = [job EXCEPT ![w] = NoJob]
      /\ worker' = [worker EXCEPT ![w] = "top"]
      /\ UNCHANGED <<caller, lock, state, hi, thread, shelf, before>>
  BY <1>a DEF Perform, Move
<1>4. In(hi)' = In(hi) /\ In(lo)' = In(lo') /\ In(ran)' = In(ran')
  BY <1>3 DEF In
<1>5. ran' \in Seq(Jobs) /\ In(ran') = In(ran) \cup {j}
  BY <1>0, <1>3, InAppend
<1>6. lo' \in Seq(Jobs) /\ \A y \in In(lo') : y \in In(lo) \/ y \notin Callers
  <2>1. CASE Requeues[j] = NoJob
    BY <1>0, <1>3, <2>1
  <2>2. CASE Requeues[j] # NoJob
    <3>1. Requeues[j] \in Jobs /\ Requeues[j] \notin Callers
      BY <1>0, <2>2 DEF Callers, Children
    <3> QED BY <1>0, <1>3, <2>2, <3>1, InAppend
  <2> QED BY <2>1, <2>2
<1>7. /\ job' \in [Workers -> Jobs \cup {NoJob}] /\ job'[w] = NoJob
      /\ \A v \in Workers \ {w} : job'[v] = job[v]
      /\ worker' \in [Workers -> WorkerPCs] /\ worker'[w] = "top"
      /\ \A v \in Workers \ {w} : worker'[v] = worker[v]
  BY <1>0, <1>3 DEF WorkerPCs
<1>8. onStack[w] = ran
  BY <1>1, <1>2 DEF IInv, ShelfKept, TheShelf, Serving
<1>9. onStack' \in [Workers -> Seq(Jobs) \cup {NoShelf}] /\ onStack'[w] = ran'
  BY <1>0, <1>3, <1>5, <1>8
<1>10. Busy' = NoJob /\ Busy = j
  BY <1>2, <1>3, <1>7, <1>a DEF Busy
<1>11. TypeOK'
  BY <1>0, <1>3, <1>5, <1>6, <1>7, <1>9 DEF IInv, TypeOK
<1>12. OneWorker' /\ StateKnows'
  BY <1>1, <1>2, <1>3, <1>7 DEF IInv, OneWorker, StateKnows, Serving
<1>13. JobWhileRunning'
  BY <1>7 DEF IInv, JobWhileRunning
<1>14. SpawnLocked'
  BY <1>3 DEF IInv, SpawnLocked
<1>15. KnownQueued'
  BY <1>0, <1>3, <1>4, <1>5, <1>6, <1>10 DEF IInv, KnownQueued
<1>16. QueuedKnown'
  BY <1>3, <1>4, <1>5, <1>10 DEF IInv, QueuedKnown
<1>17. LowIsLow'
  BY <1>0, <1>4, <1>6 DEF IInv, LowIsLow
<1>18. BeforeAhead'
  <2>1. \A i \in 1..Len(hi) : Ahead(i)' = Ahead(i)
    BY <1>3 DEF Ahead
  <2>2. NoJob \notin Syncs
    BY <1>0
  <2> QED BY <1>3, <1>4, <1>5, <1>10, <2>1, <2>2 DEF IInv, BeforeAhead
<1>19. SyncSound'
  BY <1>3, <1>4, <1>5, <1>10 DEF IInv, SyncSound, BeforeAhead
<1>20. ShelfKept'
  BY <1>2, <1>3, <1>7, <1>9 DEF ShelfKept, TheShelf, Serving
<1>21. Queues!Perform
  BY <1>0, <1>3, <1>10 DEF Queues!Perform
<1> QED BY <1>11, <1>12, <1>13, <1>14, <1>15, <1>16, <1>17, <1>18, <1>19, <1>20, <1>21 DEF IInv
-----------------------------------------------------------------------------
LEMMA InvariantInit == ASSUME AsyncAssumption, Init PROVE IInv
<1>1. /\ In(hi) = {} /\ In(lo) = {} /\ In(ran) = {} /\ Len(hi) = 0
      /\ Busy = NoJob /\ NoJob \notin Callers /\ Hi \subseteq Callers /\ Syncs \subseteq Hi
      /\ MaxWorkers \in Nat
  BY CallerFacts DEF Init, In, Busy, AsyncAssumption
<1>2. TypeOK
  BY <1>1 DEF Init, TypeOK, WorkerPCs
<1>3. OneWorker /\ StateKnows /\ JobWhileRunning /\ SpawnLocked /\ ShelfKept
  BY DEF Init, OneWorker, StateKnows, JobWhileRunning, SpawnLocked, ShelfKept, TheShelf, Workers
<1>4. KnownQueued /\ QueuedKnown /\ LowIsLow
  BY <1>1 DEF Init, KnownQueued, QueuedKnown, LowIsLow
<1>5. BeforeAhead /\ SyncSound
  BY <1>1 DEF Init, BeforeAhead, SyncSound
<1> QED BY <1>2, <1>3, <1>4, <1>5 DEF IInv

\* Every step keeps the invariant, and is a step of JobQueue or leaves what
\* JobQueue has unchanged.
LEMMA StepSimulates ==
    ASSUME AsyncAssumption, IInv, [Next]_vars
    PROVE  IInv' /\ [Queues!Next]_(Queues!vars)
<1>1. ASSUME NEW j \in Callers, Queue(j) PROVE IInv' /\ Queues!Next
  BY <1>1, QueueStep, CallerFacts DEF Queues!Next
<1>2. ASSUME NEW j \in Callers, Refuse(j) \/ SpawnThread(j)
      PROVE  IInv' /\ UNCHANGED Queues!vars
  BY <1>2, RefuseStep, SpawnStep DEF Queues!vars
<1>3. ASSUME NEW w \in Workers,
             TakeShelf(w) \/ BecomeIdle(w) \/ RunIdle(w) \/ Wait(w) \/ TimeOut(w) \/ Leave(w)
      PROVE  IInv' /\ UNCHANGED Queues!vars
  <2>1. UNCHANGED <<hi, lo, thread, job, ran>>
    BY <1>3 DEF TakeShelf, BecomeIdle, RunIdle, Wait, TimeOut, Leave
  <2>2. UNCHANGED <<hi, lo, Busy, ran>>
    BY <2>1 DEF Busy
  <2> QED BY <1>3, <2>2, WorkerQuiet DEF Queues!vars
<1>4. ASSUME NEW w \in Workers, Pop(w) \/ Perform(w) PROVE IInv' /\ Queues!Next
  BY <1>4, PopStep, PerformStep DEF Queues!Next
<1>5. CASE UNCHANGED vars
  <2>1. UNCHANGED <<hi, lo, Busy, ran>>
    BY <1>5 DEF vars, Busy
  <2>2. TypeOK' /\ OneWorker' /\ StateKnows' /\ JobWhileRunning' /\ ShelfKept'
    BY <1>5 DEF vars, IInv, TypeOK, OneWorker, StateKnows, JobWhileRunning, ShelfKept, TheShelf
  <2> QED BY <1>5, <2>1, <2>2, QuietStep DEF vars, Queues!vars
<1> QED BY <1>1, <1>2, <1>3, <1>4, <1>5 DEF Next, CallerStep, WorkerStep, Finished

LEMMA Invariant == ASSUME AsyncAssumption PROVE Spec => []IInv
<1>1. Init => IInv
  BY InvariantInit
<1>2. IInv /\ [Next]_vars => IInv'
  BY StepSimulates
<1> QED BY <1>1, <1>2, PTL DEF Spec

\* is_device_locked reads an up to date lock state: once the marker it queued
\* with queue_hi_if_running was refused or has run, every notification that
\* was queued before it has been processed.
THEOREM SyncsSound == ASSUME AsyncAssumption PROVE Spec => []SyncSound
<1>1. IInv => SyncSound
  BY DEF IInv
<1> QED BY Invariant, <1>1, PTL

\* The shelf survives the worker threads: the next job finds on it what all
\* the jobs before it left.
THEOREM ShelfSurvives == ASSUME AsyncAssumption PROVE Spec => []ShelfKept
<1>1. IInv => ShelfKept
  BY DEF IInv
<1> QED BY Invariant, <1>1, PTL

\* The threads, the mutex, the time-outs and the joins of AsyncTask implement
\* the two queues of JobQueue: what was queued is performed one job at a time,
\* in the order of its queue, high priority first and each job once.
THEOREM RefinesQueues ==
    ASSUME AsyncAssumption
    PROVE  Spec => Queues!Init /\ [][Queues!Next]_(Queues!vars)
<1>1. Init => Queues!Init
  BY DEF Init, Queues!Init, Busy
<1>2. IInv /\ [Next]_vars => [Queues!Next]_(Queues!vars)
  BY StepSimulates
<1> QED BY Invariant, <1>1, <1>2, PTL DEF Spec
=============================================================================
