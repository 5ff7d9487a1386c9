------------------------------- MODULE Daemon -------------------------------
(***************************************************************************)
(* What the daemon's threads share: the AsyncTask behind the garbage       *)
(* collector and the lock state, the watchdog, the KeyMint instances with  *)
(* their locks, and the operations a creating thread prunes. They have no  *)
(* state in common; every behaviour is one of one of them, the others stay *)
(* in their initial state.                                                 *)
(***************************************************************************)
EXTENDS AsyncTask

CONSTANTS
    Points, Timeouts, IdleTimeout, MinReport, ReportStep,  \* of Watchdog
    MaxReport, Spurious, MaxTime,
    Clients, Enders, Updater, Faults,                      \* of KeyMintDevices
    Creators, None, OwnerOf, Keys, NoKey, KeyOf, KmSlots   \* of BeginLoop

VARIABLES
    which,  \* the component of this behaviour
    records, running, watcher, until, idle, signal, last, noisy, looked, logged, now,
    present, pc, lifecycle, mutex, configLock, inst, flag, made, ended,
    loopPc, active, slots, cand, same, held, keyLock, km, leaked

Dog == INSTANCE Watchdog WITH worker <- watcher

Devices == INSTANCE KeyMintDevices

Loop == INSTANCE BeginLoop WITH Clients <- Creators, pc <- loopPc

dogVars    == <<records, running, watcher, until, idle, signal, last, noisy, looked, logged, now>>
deviceVars == <<present, pc, lifecycle, mutex, configLock, inst, flag, made, ended>>
loopVars   == <<loopPc, active, slots, cand, same, held, keyLock, km, leaked>>
allVars    == <<which, vars, dogVars, deviceVars, loopVars>>

AllInit ==
    /\ which \in {"task", "watchdog", "devices", "loop"}
    /\ Init /\ Dog!Init /\ Devices!Init /\ Loop!Init

StepOf(c) == which = c /\ which' = which

InTask(A)    == StepOf("task") /\ A /\ UNCHANGED <<dogVars, deviceVars, loopVars>>
InDevices(A) == StepOf("devices") /\ A /\ UNCHANGED <<vars, dogVars, loopVars>>
InLoop(A)    == StepOf("loop") /\ A /\ UNCHANGED <<vars, dogVars, deviceVars>>

AllNext ==
    \/ InTask(Next)
    \/ StepOf("watchdog") /\ Dog!Next /\ UNCHANGED <<vars, deviceVars, loopVars>>
    \/ InDevices(Devices!Next)
    \/ InLoop(Loop!Next)

\* The fairness of AsyncTask's FairSpec, KeyMintDevices' Spec and BeginLoop's Spec.
AllFairness ==
    /\ \A w \in Workers : WF_allVars(InTask(WorkerStep(w)))
    /\ \A j \in Callers : WF_allVars(InTask(SpawnThread(j)))
    /\ \A t \in Devices!Threads : WF_allVars(InDevices(Devices!Step(t)))
    /\ \A c \in Creators : WF_allVars(InLoop(Loop!ThreadStep(c)))

AllSpec == AllInit /\ [][AllNext]_allVars /\ AllFairness
-----------------------------------------------------------------------------
\* Watchdog: what stays overdue is reported within the longest back-off.
OverdueReported == Dog!OverdueReported

\* KeyMintDevices: no instance is in early boot once earlyBootEnded returned.
EarlyBootOver == Devices!EarlyBootOver

\* KeyMintDevices: the locks never wait for each other; every call ends.
CallsReturn == Devices!CallsReturn

\* BeginLoop: once nobody is served, a thread that begins and prunes lets its
\* key id guard go.
GuardReleased == Loop!GuardReleased
=============================================================================
