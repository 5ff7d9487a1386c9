---------------------------- MODULE DaemonProofs -----------------------------
(***************************************************************************)
(* Proofs about KeyMintDevices, for any number of threads that use the     *)
(* instances or report the end of early boot, with one configuration       *)
(* watcher, and about Watchdog, for any watch points, timeouts and         *)
(* back-off.                                                               *)
(***************************************************************************)
EXTENDS Daemon, WellFoundedInduction, TLAPS

Updating == {"lock tee", "lock strongbox", "lock config", "apply"}
Opening  == {"wait", "snapshot", "publish"}
Using    == {"store", "request", "run"}
States   == {"none", "early", "late"}

Places == {"idle", "open", "done"} \cup Opening \cup Using \cup Updating
PCs    == [at : Places, level : Devices!Levels]

DeviceTypes ==
    /\ present \in BOOLEAN /\ flag \in BOOLEAN /\ ended \in BOOLEAN
    /\ pc \in [Devices!Threads -> PCs]
    /\ mutex \in [Devices!Levels -> Devices!Threads \cup {Devices!NoOne}]
    /\ inst \in [Devices!Levels -> States] /\ made \in [Devices!Threads -> States]
    /\ lifecycle \in Devices!Threads \cup {Devices!NoOne}
    /\ configLock \in Devices!Threads \cup {Devices!NoOne}

(***************************************************************************)
(* The inductive invariant.                                                *)
(***************************************************************************)
\* The configuration watcher updates, and does nothing else.
UpdaterUpdates ==
    \A t \in Devices!Threads :
        /\ pc[t].at \in Updating => t = Updater
        /\ pc[Updater].at \in {"idle", "done"} \cup Updating

\* Whoever makes instances or updates the configuration has the lifecycle lock.
LifecycleHeld ==
    \A t \in Devices!Threads : pc[t].at \in Updating \cup {"snapshot", "publish"} => lifecycle = t

\* An instance that was made and not published is the only one for its level.
MadeAlone ==
    \A t \in Devices!Threads :
        Devices!At(t, "publish") => inst[pc[t].level] = "none" /\ made[t] # "none"

\* A device without StrongBox never has an instance for it.
OnlyPresent ==
    /\ inst["strongbox"] # "none" => present
    /\ \A t \in Devices!Threads :
         pc[t].at \in Opening \cup Using /\ pc[t].level = "strongbox" => present

\* What a thread uses is there, and is used under its mutex.
UsedIsThere ==
    \A t \in Devices!Threads :
        /\ pc[t].at \in Using => inst[pc[t].level] # "none"
        /\ Devices!At(t, "run") => mutex[pc[t].level] = t

\* The end of early boot is reported to the TEE first.
TeeFirst == \A t \in Enders : pc[t].level = "strongbox" => inst["tee"] = "late"

\* When it was reported, the instances there can be are there and know of it.
EndedKnown == ended => inst["tee"] = "late" /\ (present => inst["strongbox"] = "late")

\* The watcher has the mutexes of the instances there are.
WatcherHolds ==
    /\ pc[Updater].at \in {"lock strongbox", "lock config", "apply"} /\ inst["tee"] # "none"
         => mutex["tee"] = Updater
    /\ pc[Updater].at \in {"lock config", "apply"} /\ inst["strongbox"] # "none"
         => mutex["strongbox"] = Updater

IInv ==
    /\ DeviceTypes
    /\ UpdaterUpdates
    /\ LifecycleHeld
    /\ MadeAlone
    /\ OnlyPresent
    /\ UsedIsThere
    /\ TeeFirst
    /\ EndedKnown
    /\ WatcherHolds

\* No request runs on any instance while the new configuration is applied, and
\* no instance is being made: nobody sees a half of it.
UpdateAlone ==
    Devices!At(Updater, "apply") =>
        \A t \in Devices!Threads : ~Devices!At(t, "run") /\ ~Devices!At(t, "publish")

\* One request at a time runs on an instance.
RequestsAlone ==
    \A t, u \in Devices!Threads :
        Devices!At(t, "run") /\ Devices!At(u, "run") /\ pc[t].level = pc[u].level => t = u
-----------------------------------------------------------------------------
LEMMA ThreadFacts ==
    ASSUME Devices!DevicesAssumption
    PROVE  /\ Updater \in Devices!Threads /\ Enders \subseteq Devices!Threads
           /\ Updater \notin Enders /\ Devices!NoOne \notin Devices!Threads
BY DEF Devices!DevicesAssumption, Devices!Threads

LEMMA InvariantInit == ASSUME Devices!DevicesAssumption, Devices!Init PROVE IInv
<1>1. /\ \A t \in Devices!Threads : pc[t].at = "idle" /\ pc[t].level = "tee"
      /\ pc \in [Devices!Threads -> PCs]
  BY DEF Devices!Init, PCs, Places, Devices!Levels
<1>2. DeviceTypes
  BY <1>1 DEF Devices!Init, DeviceTypes, Devices!Levels, States
<1>3. UpdaterUpdates /\ LifecycleHeld /\ MadeAlone /\ OnlyPresent /\ UsedIsThere /\ TeeFirst
      /\ EndedKnown /\ WatcherHolds
  BY <1>1, ThreadFacts DEF Devices!Init, UpdaterUpdates, LifecycleHeld, MadeAlone, OnlyPresent,
     UsedIsThere,
     TeeFirst, EndedKnown, WatcherHolds, Devices!Levels, Opening, Using, Updating, Devices!At
<1> QED BY <1>2, <1>3 DEF IInv

(***************************************************************************)
(* What a thread's step does to the places of the threads.                 *)
(***************************************************************************)
Moves(t, at, l) ==
    /\ pc' \in [Devices!Threads -> PCs]
    /\ pc'[t].at = at /\ pc'[t].level = l
    /\ \A u \in Devices!Threads : u # t => pc'[u] = pc[u]

LEMMA MovesTo ==
    ASSUME DeviceTypes, NEW t \in Devices!Threads, NEW at \in Places, NEW l \in Devices!Levels,
           pc' = [pc EXCEPT ![t] = [at |-> at, level |-> l]]
    PROVE  Moves(t, at, l)
BY DEF DeviceTypes, PCs, Moves

LEMMA Going ==
    ASSUME DeviceTypes, NEW t \in Devices!Threads, NEW at \in Places, Devices!Go(t, at)
    PROVE  Moves(t, at, pc[t].level)
<1>1. pc[t] \in PCs
  BY DEF DeviceTypes
<1>2. /\ pc'[t] = [pc[t] EXCEPT !.at = at]
      /\ pc' \in [Devices!Threads -> PCs]
  BY <1>1 DEF DeviceTypes, Devices!Go, PCs
<1> QED BY <1>1, <1>2 DEF DeviceTypes, Devices!Go, Moves, PCs

LEMMA PlaceFacts ==
    ASSUME DeviceTypes, NEW t \in Devices!Threads
    PROVE  pc[t].at \in Places /\ pc[t].level \in Devices!Levels
BY DEF DeviceTypes, PCs

LEMMA CallStep ==
    ASSUME Devices!DevicesAssumption, IInv, NEW t \in Devices!Threads, NEW l \in Devices!Levels,
           Devices!Call(t, l)
    PROVE  IInv'
<1>0. DeviceTypes /\ pc[t].at \in Places /\ pc[t].level \in Devices!Levels
  BY PlaceFacts DEF IInv
<1>1. Moves(t, "open", l)
  BY <1>0, MovesTo DEF Devices!Call, Places
<1>2. DeviceTypes'
  BY <1>0, <1>1, ThreadFacts DEF Devices!Call, IInv, Moves, Devices!At, DeviceTypes, States,
     Devices!Levels
<1>3. UpdaterUpdates'
  BY <1>0, <1>1, ThreadFacts DEF Devices!Call, IInv, Moves, Devices!At, DeviceTypes,
     UpdaterUpdates, Updating
<1>4. LifecycleHeld'
  BY <1>0, <1>1, ThreadFacts DEF Devices!Call, IInv, Moves, Devices!At, DeviceTypes,
     LifecycleHeld, UpdaterUpdates,
     Updating
<1>5. MadeAlone'
  <2> SUFFICES ASSUME NEW u \in Devices!Threads, pc'[u].at = "publish"
               PROVE  (inst[pc[u].level] = "none" /\ made[u] # "none")'
    BY DEF MadeAlone, Devices!At
  <2>1. pc[u].at \in Places /\ pc[u].level \in Devices!Levels
    BY <1>0, PlaceFacts
  <2> QED BY <1>0, <1>1, <2>1 DEF Devices!Call, Moves, Devices!At, DeviceTypes, IInv, MadeAlone,
     UsedIsThere,
     LifecycleHeld, Devices!Levels, States, Using
<1>6. OnlyPresent'
  BY <1>0, <1>1, ThreadFacts DEF Devices!Call, IInv, Moves, Devices!At, DeviceTypes, OnlyPresent,
     Opening, Using, Devices!Levels
<1>7. UsedIsThere'
  <2> SUFFICES ASSUME NEW u \in Devices!Threads
               PROVE  (/\ pc[u].at \in Using => inst[pc[u].level] # "none"
                       /\ Devices!At(u, "run") => mutex[pc[u].level] = u)'
    BY DEF UsedIsThere
  <2>1. pc[u].at \in Places /\ pc[u].level \in Devices!Levels
    BY <1>0, PlaceFacts
  <2>2. pc'[u].at \in Using => inst'[pc'[u].level] # "none"
    BY <1>0, <1>1, <2>1 DEF Devices!Call, Moves, Devices!At, DeviceTypes, IInv, UsedIsThere,
       MadeAlone, Using, Devices!Levels
  <2>3. pc'[u].at = "run" => mutex'[pc'[u].level] = u
    BY <1>0, <1>1, <2>1, ThreadFacts DEF Devices!Call, Moves, Devices!At, DeviceTypes, IInv,
       UsedIsThere,
       UpdaterUpdates, Using, Devices!Levels, Updating
  <2> QED BY <2>2, <2>3 DEF Devices!At
<1>8. TeeFirst'
  BY <1>0, <1>1, ThreadFacts DEF Devices!Call, IInv, Moves, Devices!At, DeviceTypes, TeeFirst,
     MadeAlone, UsedIsThere,
     Devices!Levels, Using
<1>9. EndedKnown'
  BY <1>0, <1>1, ThreadFacts DEF Devices!Call, IInv, Moves, Devices!At, DeviceTypes, EndedKnown,
     MadeAlone, TeeFirst,
     OnlyPresent, UsedIsThere, Devices!Levels, Using
<1>10. WatcherHolds'
  BY <1>0, <1>1, ThreadFacts DEF Devices!Call, IInv, Moves, Devices!At, DeviceTypes, WatcherHolds,
     UpdaterUpdates,
     LifecycleHeld, UsedIsThere, Updating, Devices!Levels, Using
<1> QED BY <1>2, <1>3, <1>4, <1>5, <1>6, <1>7, <1>8, <1>9, <1>10 DEF IInv

LEMMA UnavailableStep ==
    ASSUME Devices!DevicesAssumption, IInv, NEW t \in Devices!Threads, Devices!Unavailable(t)
    PROVE  IInv'
<1>0. DeviceTypes /\ pc[t].at \in Places /\ pc[t].level \in Devices!Levels
  BY PlaceFacts DEF IInv
<1>1. Moves(t, "done", pc[t].level)
  BY <1>0, Going DEF Places, Opening, Using, Updating, Devices!Unavailable
<1>2. DeviceTypes'
  BY <1>0, <1>1, ThreadFacts DEF Devices!Unavailable, Devices!Absent, IInv, Moves, Devices!At,
     DeviceTypes, States, Devices!Levels
<1>3. UpdaterUpdates'
  BY <1>0, <1>1, ThreadFacts DEF Devices!Unavailable, Devices!Absent, IInv, Moves, Devices!At,
     DeviceTypes, UpdaterUpdates,
     Updating
<1>4. LifecycleHeld'
  BY <1>0, <1>1, ThreadFacts DEF Devices!Unavailable, Devices!Absent, IInv, Moves, Devices!At,
     DeviceTypes, LifecycleHeld,
     UpdaterUpdates, Updating
<1>5. MadeAlone'
  <2> SUFFICES ASSUME NEW u \in Devices!Threads, pc'[u].at = "publish"
               PROVE  (inst[pc[u].level] = "none" /\ made[u] # "none")'
    BY DEF MadeAlone, Devices!At
  <2>1. pc[u].at \in Places /\ pc[u].level \in Devices!Levels
    BY <1>0, PlaceFacts
  <2> QED BY <1>0, <1>1, <2>1 DEF Devices!Unavailable, Devices!Absent, Moves, Devices!At,
     DeviceTypes, IInv, MadeAlone,
     UsedIsThere, LifecycleHeld, Devices!Levels, States, Using
<1>6. OnlyPresent'
  BY <1>0, <1>1, ThreadFacts DEF Devices!Unavailable, Devices!Absent, IInv, Moves, Devices!At,
     DeviceTypes, OnlyPresent,
     Opening, Using, Devices!Levels
<1>7. UsedIsThere'
  <2> SUFFICES ASSUME NEW u \in Devices!Threads
               PROVE  (/\ pc[u].at \in Using => inst[pc[u].level] # "none"
                       /\ Devices!At(u, "run") => mutex[pc[u].level] = u)'
    BY DEF UsedIsThere
  <2>1. pc[u].at \in Places /\ pc[u].level \in Devices!Levels
    BY <1>0, PlaceFacts
  <2>2. pc'[u].at \in Using => inst'[pc'[u].level] # "none"
    BY <1>0, <1>1, <2>1 DEF Devices!Unavailable, Devices!Absent, Moves, Devices!At, DeviceTypes,
       IInv, UsedIsThere, MadeAlone,
       Using, Devices!Levels
  <2>3. pc'[u].at = "run" => mutex'[pc'[u].level] = u
    BY <1>0, <1>1, <2>1, ThreadFacts DEF Devices!Unavailable, Devices!Absent, Moves, Devices!At,
       DeviceTypes, IInv,
       UsedIsThere, UpdaterUpdates, Using, Devices!Levels, Updating
  <2> QED BY <2>2, <2>3 DEF Devices!At
<1>8. TeeFirst'
  BY <1>0, <1>1, ThreadFacts DEF Devices!Unavailable, Devices!Absent, IInv, Moves, Devices!At,
     DeviceTypes, TeeFirst,
     MadeAlone, UsedIsThere, Devices!Levels, Using
<1>9. EndedKnown'
  BY <1>0, <1>1, ThreadFacts DEF Devices!Unavailable, Devices!Absent, IInv, Moves, Devices!At,
     DeviceTypes, EndedKnown,
     MadeAlone, TeeFirst, OnlyPresent, UsedIsThere, Devices!Levels, Using
<1>10. WatcherHolds'
  BY <1>0, <1>1, ThreadFacts DEF Devices!Unavailable, Devices!Absent, IInv, Moves, Devices!At,
     DeviceTypes, WatcherHolds,
     UpdaterUpdates, LifecycleHeld, UsedIsThere, Updating, Devices!Levels, Using
<1> QED BY <1>2, <1>3, <1>4, <1>5, <1>6, <1>7, <1>8, <1>9, <1>10 DEF IInv

LEMMA FoundStep ==
    ASSUME Devices!DevicesAssumption, IInv, NEW t \in Devices!Threads, Devices!Found(t)
    PROVE  IInv'
<1>0. DeviceTypes /\ pc[t].at \in Places /\ pc[t].level \in Devices!Levels
  BY PlaceFacts DEF IInv
<1>1. \/ /\ inst[pc[t].level] # "none"
         /\ Moves(t, IF t \in Enders THEN "store" ELSE "request", pc[t].level)
      \/ Moves(t, "wait", pc[t].level)
  BY <1>0, Going DEF Places, Opening, Using, Updating, Devices!Found, Devices!Opened
<1>2. DeviceTypes'
  BY <1>0, <1>1, ThreadFacts DEF Devices!Found, Devices!Absent, IInv, Moves, Devices!At,
     DeviceTypes, States, Devices!Levels
<1>3. UpdaterUpdates'
  BY <1>0, <1>1, ThreadFacts DEF Devices!Found, Devices!Absent, IInv, Moves, Devices!At,
     DeviceTypes, UpdaterUpdates, Updating
<1>4. LifecycleHeld'
  BY <1>0, <1>1, ThreadFacts DEF Devices!Found, Devices!Absent, IInv, Moves, Devices!At,
     DeviceTypes, LifecycleHeld,
     UpdaterUpdates, Updating
<1>5. MadeAlone'
  <2> SUFFICES ASSUME NEW u \in Devices!Threads, pc'[u].at = "publish"
               PROVE  (inst[pc[u].level] = "none" /\ made[u] # "none")'
    BY DEF MadeAlone, Devices!At
  <2>1. pc[u].at \in Places /\ pc[u].level \in Devices!Levels
    BY <1>0, PlaceFacts
  <2> QED BY <1>0, <1>1, <2>1 DEF Devices!Found, Devices!Absent, Moves, Devices!At, DeviceTypes,
     IInv, MadeAlone, UsedIsThere,
     LifecycleHeld, Devices!Levels, States, Using
<1>6. OnlyPresent'
  BY <1>0, <1>1, ThreadFacts DEF Devices!Found, Devices!Absent, IInv, Moves, Devices!At,
     DeviceTypes, OnlyPresent, Opening,
     Using, Devices!Levels
<1>7. UsedIsThere'
  <2> SUFFICES ASSUME NEW u \in Devices!Threads
               PROVE  (/\ pc[u].at \in Using => inst[pc[u].level] # "none"
                       /\ Devices!At(u, "run") => mutex[pc[u].level] = u)'
    BY DEF UsedIsThere
  <2>1. pc[u].at \in Places /\ pc[u].level \in Devices!Levels
    BY <1>0, PlaceFacts
  <2>2. pc'[u].at \in Using => inst'[pc'[u].level] # "none"
    BY <1>0, <1>1, <2>1 DEF Devices!Found, Devices!Absent, Moves, Devices!At, DeviceTypes, IInv,
       UsedIsThere, MadeAlone, Using,
       Devices!Levels
  <2>3. pc'[u].at = "run" => mutex'[pc'[u].level] = u
    BY <1>0, <1>1, <2>1, ThreadFacts DEF Devices!Found, Devices!Absent, Moves, Devices!At,
       DeviceTypes, IInv, UsedIsThere,
       UpdaterUpdates, Using, Devices!Levels, Updating
  <2> QED BY <2>2, <2>3 DEF Devices!At
<1>8. TeeFirst'
  BY <1>0, <1>1, ThreadFacts DEF Devices!Found, Devices!Absent, IInv, Moves, Devices!At,
     DeviceTypes, TeeFirst, MadeAlone,
     UsedIsThere, Devices!Levels, Using
<1>9. EndedKnown'
  BY <1>0, <1>1, ThreadFacts DEF Devices!Found, Devices!Absent, IInv, Moves, Devices!At,
     DeviceTypes, EndedKnown, MadeAlone,
     TeeFirst, OnlyPresent, UsedIsThere, Devices!Levels, Using
<1>10. WatcherHolds'
  BY <1>0, <1>1, ThreadFacts DEF Devices!Found, Devices!Absent, IInv, Moves, Devices!At,
     DeviceTypes, WatcherHolds,
     UpdaterUpdates, LifecycleHeld, UsedIsThere, Updating, Devices!Levels, Using
<1> QED BY <1>2, <1>3, <1>4, <1>5, <1>6, <1>7, <1>8, <1>9, <1>10 DEF IInv

LEMMA LockLifecycleStep ==
    ASSUME Devices!DevicesAssumption, IInv, NEW t \in Devices!Threads, Devices!LockLifecycle(t)
    PROVE  IInv'
<1>0. DeviceTypes /\ pc[t].at \in Places /\ pc[t].level \in Devices!Levels
  BY PlaceFacts DEF IInv
<1>1. Moves(t, IF t = Updater THEN "lock tee" ELSE "snapshot", pc[t].level)
  BY <1>0, Going DEF Places, Opening, Using, Updating, Devices!LockLifecycle
<1>2. DeviceTypes'
  BY <1>0, <1>1, ThreadFacts DEF Devices!LockLifecycle, IInv, Moves, Devices!At, DeviceTypes,
     States, Devices!Levels
<1>3. UpdaterUpdates'
  BY <1>0, <1>1, ThreadFacts DEF Devices!LockLifecycle, IInv, Moves, Devices!At, DeviceTypes,
     UpdaterUpdates, Updating
<1>4. LifecycleHeld'
  BY <1>0, <1>1, ThreadFacts DEF Devices!LockLifecycle, IInv, Moves, Devices!At, DeviceTypes,
     LifecycleHeld,
     UpdaterUpdates, Updating
<1>5. MadeAlone'
  <2> SUFFICES ASSUME NEW u \in Devices!Threads, pc'[u].at = "publish"
               PROVE  (inst[pc[u].level] = "none" /\ made[u] # "none")'
    BY DEF MadeAlone, Devices!At
  <2>1. pc[u].at \in Places /\ pc[u].level \in Devices!Levels
    BY <1>0, PlaceFacts
  <2> QED BY <1>0, <1>1, <2>1 DEF Devices!LockLifecycle, Moves, Devices!At, DeviceTypes, IInv,
     MadeAlone, UsedIsThere,
     LifecycleHeld, Devices!Levels, States, Using
<1>6. OnlyPresent'
  BY <1>0, <1>1, ThreadFacts DEF Devices!LockLifecycle, IInv, Moves, Devices!At, DeviceTypes,
     OnlyPresent, Opening,
     Using, Devices!Levels
<1>7. UsedIsThere'
  <2> SUFFICES ASSUME NEW u \in Devices!Threads
               PROVE  (/\ pc[u].at \in Using => inst[pc[u].level] # "none"
                       /\ Devices!At(u, "run") => mutex[pc[u].level] = u)'
    BY DEF UsedIsThere
  <2>1. pc[u].at \in Places /\ pc[u].level \in Devices!Levels
    BY <1>0, PlaceFacts
  <2>2. pc'[u].at \in Using => inst'[pc'[u].level] # "none"
    BY <1>0, <1>1, <2>1 DEF Devices!LockLifecycle, Moves, Devices!At, DeviceTypes, IInv,
       UsedIsThere, MadeAlone, Using,
       Devices!Levels
  <2>3. pc'[u].at = "run" => mutex'[pc'[u].level] = u
    BY <1>0, <1>1, <2>1, ThreadFacts DEF Devices!LockLifecycle, Moves, Devices!At, DeviceTypes,
       IInv, UsedIsThere,
       UpdaterUpdates, Using, Devices!Levels, Updating
  <2> QED BY <2>2, <2>3 DEF Devices!At
<1>8. TeeFirst'
  BY <1>0, <1>1, ThreadFacts DEF Devices!LockLifecycle, IInv, Moves, Devices!At, DeviceTypes,
     TeeFirst, MadeAlone,
     UsedIsThere, Devices!Levels, Using
<1>9. EndedKnown'
  BY <1>0, <1>1, ThreadFacts DEF Devices!LockLifecycle, IInv, Moves, Devices!At, DeviceTypes,
     EndedKnown, MadeAlone,
     TeeFirst, OnlyPresent, UsedIsThere, Devices!Levels, Using
<1>10. WatcherHolds'
  BY <1>0, <1>1, ThreadFacts DEF Devices!LockLifecycle, IInv, Moves, Devices!At, DeviceTypes,
     WatcherHolds,
     UpdaterUpdates, LifecycleHeld, UsedIsThere, Updating, Devices!Levels, Using
<1> QED BY <1>2, <1>3, <1>4, <1>5, <1>6, <1>7, <1>8, <1>9, <1>10 DEF IInv

LEMMA FoundLockedStep ==
    ASSUME Devices!DevicesAssumption, IInv, NEW t \in Devices!Threads, Devices!FoundLocked(t)
    PROVE  IInv'
<1>0. DeviceTypes /\ pc[t].at \in Places /\ pc[t].level \in Devices!Levels
  BY PlaceFacts DEF IInv
<1>1. Moves(t, IF t \in Enders THEN "store" ELSE "request", pc[t].level)
  BY <1>0, Going DEF Places, Opening, Using, Updating, Devices!FoundLocked, Devices!Opened
<1>2. DeviceTypes'
  BY <1>0, <1>1, ThreadFacts DEF Devices!FoundLocked, IInv, Moves, Devices!At, DeviceTypes,
     States, Devices!Levels
<1>3. UpdaterUpdates'
  BY <1>0, <1>1, ThreadFacts DEF Devices!FoundLocked, IInv, Moves, Devices!At, DeviceTypes,
     UpdaterUpdates, Updating
<1>4. LifecycleHeld'
  BY <1>0, <1>1, ThreadFacts DEF Devices!FoundLocked, IInv, Moves, Devices!At, DeviceTypes,
     LifecycleHeld,
     UpdaterUpdates, Updating
<1>5. MadeAlone'
  <2> SUFFICES ASSUME NEW u \in Devices!Threads, pc'[u].at = "publish"
               PROVE  (inst[pc[u].level] = "none" /\ made[u] # "none")'
    BY DEF MadeAlone, Devices!At
  <2>1. pc[u].at \in Places /\ pc[u].level \in Devices!Levels
    BY <1>0, PlaceFacts
  <2> QED BY <1>0, <1>1, <2>1 DEF Devices!FoundLocked, Moves, Devices!At, DeviceTypes, IInv,
     MadeAlone, UsedIsThere,
     LifecycleHeld, Devices!Levels, States, Using
<1>6. OnlyPresent'
  BY <1>0, <1>1, ThreadFacts DEF Devices!FoundLocked, IInv, Moves, Devices!At, DeviceTypes,
     OnlyPresent, Opening,
     Using, Devices!Levels
<1>7. UsedIsThere'
  <2> SUFFICES ASSUME NEW u \in Devices!Threads
               PROVE  (/\ pc[u].at \in Using => inst[pc[u].level] # "none"
                       /\ Devices!At(u, "run") => mutex[pc[u].level] = u)'
    BY DEF UsedIsThere
  <2>1. pc[u].at \in Places /\ pc[u].level \in Devices!Levels
    BY <1>0, PlaceFacts
  <2>2. pc'[u].at \in Using => inst'[pc'[u].level] # "none"
    BY <1>0, <1>1, <2>1 DEF Devices!FoundLocked, Moves, Devices!At, DeviceTypes, IInv,
       UsedIsThere, MadeAlone, Using,
       Devices!Levels
  <2>3. pc'[u].at = "run" => mutex'[pc'[u].level] = u
    BY <1>0, <1>1, <2>1, ThreadFacts DEF Devices!FoundLocked, Moves, Devices!At, DeviceTypes,
       IInv, UsedIsThere,
       UpdaterUpdates, Using, Devices!Levels, Updating
  <2> QED BY <2>2, <2>3 DEF Devices!At
<1>8. TeeFirst'
  BY <1>0, <1>1, ThreadFacts DEF Devices!FoundLocked, IInv, Moves, Devices!At, DeviceTypes,
     TeeFirst, MadeAlone,
     UsedIsThere, Devices!Levels, Using
<1>9. EndedKnown'
  BY <1>0, <1>1, ThreadFacts DEF Devices!FoundLocked, IInv, Moves, Devices!At, DeviceTypes,
     EndedKnown, MadeAlone,
     TeeFirst, OnlyPresent, UsedIsThere, Devices!Levels, Using
<1>10. WatcherHolds'
  BY <1>0, <1>1, ThreadFacts DEF Devices!FoundLocked, IInv, Moves, Devices!At, DeviceTypes,
     WatcherHolds,
     UpdaterUpdates, LifecycleHeld, UsedIsThere, Updating, Devices!Levels, Using
<1> QED BY <1>2, <1>3, <1>4, <1>5, <1>6, <1>7, <1>8, <1>9, <1>10 DEF IInv

LEMMA MakeStep ==
    ASSUME Devices!DevicesAssumption, IInv, NEW t \in Devices!Threads, Devices!Make(t)
    PROVE  IInv'
<1>0. DeviceTypes /\ pc[t].at \in Places /\ pc[t].level \in Devices!Levels
  BY PlaceFacts DEF IInv
<1>1. \/ /\ Moves(t, "publish", pc[t].level)
         /\ made' = [made EXCEPT ![t] = Devices!NewInstance]
         /\ lifecycle' = lifecycle
      \/ Moves(t, "done", pc[t].level) /\ made' = made /\ lifecycle' = Devices!NoOne
  BY <1>0, Going DEF Places, Opening, Using, Updating, Devices!Make
<1>2. DeviceTypes'
  BY <1>0, <1>1, ThreadFacts DEF Devices!Make, Devices!NewInstance, IInv, Moves, Devices!At,
     DeviceTypes, States, Devices!Levels
<1>3. UpdaterUpdates'
  BY <1>0, <1>1, ThreadFacts DEF Devices!Make, Devices!NewInstance, IInv, Moves, Devices!At,
     DeviceTypes, UpdaterUpdates,
     Updating
<1>4. LifecycleHeld'
  BY <1>0, <1>1, ThreadFacts DEF Devices!Make, Devices!NewInstance, IInv, Moves, Devices!At,
     DeviceTypes, LifecycleHeld,
     UpdaterUpdates, Updating
<1>5. MadeAlone'
  <2> SUFFICES ASSUME NEW u \in Devices!Threads, pc'[u].at = "publish"
               PROVE  (inst[pc[u].level] = "none" /\ made[u] # "none")'
    BY DEF MadeAlone, Devices!At
  <2>1. pc[u].at \in Places /\ pc[u].level \in Devices!Levels
    BY <1>0, PlaceFacts
  <2> QED BY <1>0, <1>1, <2>1 DEF Devices!Make, Devices!NewInstance, Moves, Devices!At,
     DeviceTypes, IInv, MadeAlone,
     UsedIsThere, LifecycleHeld, Devices!Levels, States, Using
<1>6. OnlyPresent'
  BY <1>0, <1>1, ThreadFacts DEF Devices!Make, Devices!NewInstance, IInv, Moves, Devices!At,
     DeviceTypes, OnlyPresent, Opening,
     Using, Devices!Levels
<1>7. UsedIsThere'
  <2> SUFFICES ASSUME NEW u \in Devices!Threads
               PROVE  (/\ pc[u].at \in Using => inst[pc[u].level] # "none"
                       /\ Devices!At(u, "run") => mutex[pc[u].level] = u)'
    BY DEF UsedIsThere
  <2>1. pc[u].at \in Places /\ pc[u].level \in Devices!Levels
    BY <1>0, PlaceFacts
  <2>2. pc'[u].at \in Using => inst'[pc'[u].level] # "none"
    BY <1>0, <1>1, <2>1 DEF Devices!Make, Devices!NewInstance, Moves, Devices!At, DeviceTypes,
       IInv, UsedIsThere, MadeAlone,
       Using, Devices!Levels
  <2>3. pc'[u].at = "run" => mutex'[pc'[u].level] = u
    BY <1>0, <1>1, <2>1, ThreadFacts DEF Devices!Make, Devices!NewInstance, Moves, Devices!At,
       DeviceTypes, IInv, UsedIsThere,
       UpdaterUpdates, Using, Devices!Levels, Updating
  <2> QED BY <2>2, <2>3 DEF Devices!At
<1>8. TeeFirst'
  BY <1>0, <1>1, ThreadFacts DEF Devices!Make, Devices!NewInstance, IInv, Moves, Devices!At,
     DeviceTypes, TeeFirst, MadeAlone,
     UsedIsThere, Devices!Levels, Using
<1>9. EndedKnown'
  BY <1>0, <1>1, ThreadFacts DEF Devices!Make, Devices!NewInstance, IInv, Moves, Devices!At,
     DeviceTypes, EndedKnown,
     MadeAlone, TeeFirst, OnlyPresent, UsedIsThere, Devices!Levels, Using
<1>10. WatcherHolds'
  BY <1>0, <1>1, ThreadFacts DEF Devices!Make, Devices!NewInstance, IInv, Moves, Devices!At,
     DeviceTypes, WatcherHolds,
     UpdaterUpdates, LifecycleHeld, UsedIsThere, Updating, Devices!Levels, Using
<1> QED BY <1>2, <1>3, <1>4, <1>5, <1>6, <1>7, <1>8, <1>9, <1>10 DEF IInv

LEMMA PublishStep ==
    ASSUME Devices!DevicesAssumption, IInv, NEW t \in Devices!Threads, Devices!Publish(t)
    PROVE  IInv'
<1>0. DeviceTypes /\ pc[t].at \in Places /\ pc[t].level \in Devices!Levels
  BY PlaceFacts DEF IInv
<1>1. Moves(t, IF t \in Enders THEN "store" ELSE "request", pc[t].level)
  BY <1>0, Going DEF Places, Opening, Using, Updating, Devices!Publish, Devices!Opened
<1>2. DeviceTypes'
  BY <1>0, <1>1, ThreadFacts DEF Devices!Publish, IInv, Moves, Devices!At, DeviceTypes, States,
     Devices!Levels
<1>3. UpdaterUpdates'
  BY <1>0, <1>1, ThreadFacts DEF Devices!Publish, IInv, Moves, Devices!At, DeviceTypes,
     UpdaterUpdates, Updating
<1>4. LifecycleHeld'
  BY <1>0, <1>1, ThreadFacts DEF Devices!Publish, IInv, Moves, Devices!At, DeviceTypes,
     LifecycleHeld, UpdaterUpdates,
     Updating
<1>5. MadeAlone'
  <2> SUFFICES ASSUME NEW u \in Devices!Threads, pc'[u].at = "publish"
               PROVE  (inst[pc[u].level] = "none" /\ made[u] # "none")'
    BY DEF MadeAlone, Devices!At
  <2>1. pc[u].at \in Places /\ pc[u].level \in Devices!Levels
    BY <1>0, PlaceFacts
  <2> QED BY <1>0, <1>1, <2>1 DEF Devices!Publish, Moves, Devices!At, DeviceTypes, IInv,
     MadeAlone, UsedIsThere,
     LifecycleHeld, Devices!Levels, States, Using
<1>6. OnlyPresent'
  BY <1>0, <1>1, ThreadFacts DEF Devices!Publish, IInv, Moves, Devices!At, DeviceTypes,
     OnlyPresent, Opening, Using,
     Devices!Levels
<1>7. UsedIsThere'
  <2> SUFFICES ASSUME NEW u \in Devices!Threads
               PROVE  (/\ pc[u].at \in Using => inst[pc[u].level] # "none"
                       /\ Devices!At(u, "run") => mutex[pc[u].level] = u)'
    BY DEF UsedIsThere
  <2>1. pc[u].at \in Places /\ pc[u].level \in Devices!Levels
    BY <1>0, PlaceFacts
  <2>2. pc'[u].at \in Using => inst'[pc'[u].level] # "none"
    BY <1>0, <1>1, <2>1 DEF Devices!Publish, Moves, Devices!At, DeviceTypes, IInv, UsedIsThere,
       MadeAlone, Using, Devices!Levels
  <2>3. pc'[u].at = "run" => mutex'[pc'[u].level] = u
    BY <1>0, <1>1, <2>1, ThreadFacts DEF Devices!Publish, Moves, Devices!At, DeviceTypes, IInv,
       UsedIsThere,
       UpdaterUpdates, Using, Devices!Levels, Updating
  <2> QED BY <2>2, <2>3 DEF Devices!At
<1>8. TeeFirst'
  BY <1>0, <1>1, ThreadFacts DEF Devices!Publish, IInv, Moves, Devices!At, DeviceTypes, TeeFirst,
     MadeAlone,
     UsedIsThere, Devices!Levels, Using
<1>9. EndedKnown'
  BY <1>0, <1>1, ThreadFacts DEF Devices!Publish, IInv, Moves, Devices!At, DeviceTypes,
     EndedKnown, MadeAlone,
     TeeFirst, OnlyPresent, UsedIsThere, Devices!Levels, Using
<1>10. WatcherHolds'
  BY <1>0, <1>1, ThreadFacts DEF Devices!Publish, IInv, Moves, Devices!At, DeviceTypes,
     WatcherHolds, UpdaterUpdates,
     LifecycleHeld, UsedIsThere, Updating, Devices!Levels, Using
<1> QED BY <1>2, <1>3, <1>4, <1>5, <1>6, <1>7, <1>8, <1>9, <1>10 DEF IInv

LEMMA StoreFlagStep ==
    ASSUME Devices!DevicesAssumption, IInv, NEW t \in Devices!Threads, Devices!StoreFlag(t)
    PROVE  IInv'
<1>0. DeviceTypes /\ pc[t].at \in Places /\ pc[t].level \in Devices!Levels
  BY PlaceFacts DEF IInv
<1>1. Moves(t, "request", pc[t].level)
  BY <1>0, Going DEF Places, Opening, Using, Updating, Devices!StoreFlag
<1>2. DeviceTypes'
  BY <1>0, <1>1, ThreadFacts DEF Devices!StoreFlag, IInv, Moves, Devices!At, DeviceTypes, States,
     Devices!Levels
<1>3. UpdaterUpdates'
  BY <1>0, <1>1, ThreadFacts DEF Devices!StoreFlag, IInv, Moves, Devices!At, DeviceTypes,
     UpdaterUpdates, Updating
<1>4. LifecycleHeld'
  BY <1>0, <1>1, ThreadFacts DEF Devices!StoreFlag, IInv, Moves, Devices!At, DeviceTypes,
     LifecycleHeld,
     UpdaterUpdates, Updating
<1>5. MadeAlone'
  <2> SUFFICES ASSUME NEW u \in Devices!Threads, pc'[u].at = "publish"
               PROVE  (inst[pc[u].level] = "none" /\ made[u] # "none")'
    BY DEF MadeAlone, Devices!At
  <2>1. pc[u].at \in Places /\ pc[u].level \in Devices!Levels
    BY <1>0, PlaceFacts
  <2> QED BY <1>0, <1>1, <2>1 DEF Devices!StoreFlag, Moves, Devices!At, DeviceTypes, IInv,
     MadeAlone, UsedIsThere,
     LifecycleHeld, Devices!Levels, States, Using
<1>6. OnlyPresent'
  BY <1>0, <1>1, ThreadFacts DEF Devices!StoreFlag, IInv, Moves, Devices!At, DeviceTypes,
     OnlyPresent, Opening, Using,
     Devices!Levels
<1>7. UsedIsThere'
  <2> SUFFICES ASSUME NEW u \in Devices!Threads
               PROVE  (/\ pc[u].at \in Using => inst[pc[u].level] # "none"
                       /\ Devices!At(u, "run") => mutex[pc[u].level] = u)'
    BY DEF UsedIsThere
  <2>1. pc[u].at \in Places /\ pc[u].level \in Devices!Levels
    BY <1>0, PlaceFacts
  <2>2. pc'[u].at \in Using => inst'[pc'[u].level] # "none"
    BY <1>0, <1>1, <2>1 DEF Devices!StoreFlag, Moves, Devices!At, DeviceTypes, IInv, UsedIsThere,
       MadeAlone, Using,
       Devices!Levels
  <2>3. pc'[u].at = "run" => mutex'[pc'[u].level] = u
    BY <1>0, <1>1, <2>1, ThreadFacts DEF Devices!StoreFlag, Moves, Devices!At, DeviceTypes, IInv,
       UsedIsThere,
       UpdaterUpdates, Using, Devices!Levels, Updating
  <2> QED BY <2>2, <2>3 DEF Devices!At
<1>8. TeeFirst'
  BY <1>0, <1>1, ThreadFacts DEF Devices!StoreFlag, IInv, Moves, Devices!At, DeviceTypes,
     TeeFirst, MadeAlone,
     UsedIsThere, Devices!Levels, Using
<1>9. EndedKnown'
  BY <1>0, <1>1, ThreadFacts DEF Devices!StoreFlag, IInv, Moves, Devices!At, DeviceTypes,
     EndedKnown, MadeAlone,
     TeeFirst, OnlyPresent, UsedIsThere, Devices!Levels, Using
<1>10. WatcherHolds'
  BY <1>0, <1>1, ThreadFacts DEF Devices!StoreFlag, IInv, Moves, Devices!At, DeviceTypes,
     WatcherHolds, UpdaterUpdates,
     LifecycleHeld, UsedIsThere, Updating, Devices!Levels, Using
<1> QED BY <1>2, <1>3, <1>4, <1>5, <1>6, <1>7, <1>8, <1>9, <1>10 DEF IInv

LEMMA ExecuteStep ==
    ASSUME Devices!DevicesAssumption, IInv, NEW t \in Devices!Threads, Devices!Execute(t)
    PROVE  IInv'
<1>0. DeviceTypes /\ pc[t].at \in Places /\ pc[t].level \in Devices!Levels
  BY PlaceFacts DEF IInv
<1>1. Moves(t, "run", pc[t].level)
  BY <1>0, Going DEF Places, Opening, Using, Updating, Devices!Execute
<1>2. DeviceTypes'
  BY <1>0, <1>1, ThreadFacts DEF Devices!Execute, IInv, Moves, Devices!At, DeviceTypes, States,
     Devices!Levels
<1>3. UpdaterUpdates'
  BY <1>0, <1>1, ThreadFacts DEF Devices!Execute, IInv, Moves, Devices!At, DeviceTypes,
     UpdaterUpdates, Updating
<1>4. LifecycleHeld'
  BY <1>0, <1>1, ThreadFacts DEF Devices!Execute, IInv, Moves, Devices!At, DeviceTypes,
     LifecycleHeld, UpdaterUpdates,
     Updating
<1>5. MadeAlone'
  <2> SUFFICES ASSUME NEW u \in Devices!Threads, pc'[u].at = "publish"
               PROVE  (inst[pc[u].level] = "none" /\ made[u] # "none")'
    BY DEF MadeAlone, Devices!At
  <2>1. pc[u].at \in Places /\ pc[u].level \in Devices!Levels
    BY <1>0, PlaceFacts
  <2> QED BY <1>0, <1>1, <2>1 DEF Devices!Execute, Moves, Devices!At, DeviceTypes, IInv,
     MadeAlone, UsedIsThere,
     LifecycleHeld, Devices!Levels, States, Using
<1>6. OnlyPresent'
  BY <1>0, <1>1, ThreadFacts DEF Devices!Execute, IInv, Moves, Devices!At, DeviceTypes,
     OnlyPresent, Opening, Using,
     Devices!Levels
<1>7. UsedIsThere'
  <2> SUFFICES ASSUME NEW u \in Devices!Threads
               PROVE  (/\ pc[u].at \in Using => inst[pc[u].level] # "none"
                       /\ Devices!At(u, "run") => mutex[pc[u].level] = u)'
    BY DEF UsedIsThere
  <2>1. pc[u].at \in Places /\ pc[u].level \in Devices!Levels
    BY <1>0, PlaceFacts
  <2>2. pc'[u].at \in Using => inst'[pc'[u].level] # "none"
    BY <1>0, <1>1, <2>1 DEF Devices!Execute, Moves, Devices!At, DeviceTypes, IInv, UsedIsThere,
       MadeAlone, Using, Devices!Levels
  <2>3. pc'[u].at = "run" => mutex'[pc'[u].level] = u
    BY <1>0, <1>1, <2>1, ThreadFacts DEF Devices!Execute, Moves, Devices!At, DeviceTypes, IInv,
       UsedIsThere,
       UpdaterUpdates, Using, Devices!Levels, Updating
  <2> QED BY <2>2, <2>3 DEF Devices!At
<1>8. TeeFirst'
  BY <1>0, <1>1, ThreadFacts DEF Devices!Execute, IInv, Moves, Devices!At, DeviceTypes, TeeFirst,
     MadeAlone,
     UsedIsThere, Devices!Levels, Using
<1>9. EndedKnown'
  BY <1>0, <1>1, ThreadFacts DEF Devices!Execute, IInv, Moves, Devices!At, DeviceTypes,
     EndedKnown, MadeAlone,
     TeeFirst, OnlyPresent, UsedIsThere, Devices!Levels, Using
<1>10. WatcherHolds'
  BY <1>0, <1>1, ThreadFacts DEF Devices!Execute, IInv, Moves, Devices!At, DeviceTypes,
     WatcherHolds, UpdaterUpdates,
     LifecycleHeld, UsedIsThere, Updating, Devices!Levels, Using
<1> QED BY <1>2, <1>3, <1>4, <1>5, <1>6, <1>7, <1>8, <1>9, <1>10 DEF IInv

LEMMA RespondStep ==
    ASSUME Devices!DevicesAssumption, IInv, NEW t \in Devices!Threads, Devices!Respond(t)
    PROVE  IInv'
<1>0. DeviceTypes /\ pc[t].at \in Places /\ pc[t].level \in Devices!Levels
  BY PlaceFacts DEF IInv
<1>1. IF t \in Enders /\ pc[t].level = "tee" THEN Moves(t, "open", "strongbox")
      ELSE Moves(t, "done", pc[t].level)
  BY <1>0, Going, MovesTo DEF Places, Opening, Using, Updating, Devices!Respond, Devices!Levels
<1>2. DeviceTypes'
  <2>1. ended' \in BOOLEAN
    BY <1>0 DEF Devices!Respond, DeviceTypes
  <2>2. inst' \in [Devices!Levels -> States]
    BY <1>0 DEF Devices!Respond, DeviceTypes, States
  <2>3. mutex' \in [Devices!Levels -> Devices!Threads \cup {Devices!NoOne}]
    BY <1>0 DEF Devices!Respond, DeviceTypes
  <2> QED BY <1>0, <1>1, <2>1, <2>2, <2>3 DEF Devices!Respond, DeviceTypes, Moves
<1>3. UpdaterUpdates'
  BY <1>0, <1>1, ThreadFacts DEF Devices!Respond, IInv, Moves, Devices!At, DeviceTypes,
     UpdaterUpdates, Updating
<1>4. LifecycleHeld'
  BY <1>0, <1>1, ThreadFacts DEF Devices!Respond, IInv, Moves, Devices!At, DeviceTypes,
     LifecycleHeld, UpdaterUpdates,
     Updating
<1>5. MadeAlone'
  <2> SUFFICES ASSUME NEW u \in Devices!Threads, pc'[u].at = "publish"
               PROVE  (inst[pc[u].level] = "none" /\ made[u] # "none")'
    BY DEF MadeAlone, Devices!At
  <2>1. pc[u].at \in Places /\ pc[u].level \in Devices!Levels
    BY <1>0, PlaceFacts
  <2> QED BY <1>0, <1>1, <2>1 DEF Devices!Respond, Moves, Devices!At, DeviceTypes, IInv,
     MadeAlone, UsedIsThere,
     LifecycleHeld, Devices!Levels, States, Using
<1>6. OnlyPresent'
  BY <1>0, <1>1, ThreadFacts DEF Devices!Respond, IInv, Moves, Devices!At, DeviceTypes,
     OnlyPresent, Opening, Using,
     Devices!Levels
<1>7. UsedIsThere'
  <2> SUFFICES ASSUME NEW u \in Devices!Threads
               PROVE  (/\ pc[u].at \in Using => inst[pc[u].level] # "none"
                       /\ Devices!At(u, "run") => mutex[pc[u].level] = u)'
    BY DEF UsedIsThere
  <2>1. pc[u].at \in Places /\ pc[u].level \in Devices!Levels
    BY <1>0, PlaceFacts
  <2>2. pc'[u].at \in Using => inst'[pc'[u].level] # "none"
    BY <1>0, <1>1, <2>1 DEF Devices!Respond, Moves, Devices!At, DeviceTypes, IInv, UsedIsThere,
       MadeAlone, Using, Devices!Levels
  <2>3. pc'[u].at = "run" => mutex'[pc'[u].level] = u
    <3>1. pc[t].at = "run" /\ mutex[pc[t].level] = t /\ pc'[t].at # "run"
      BY <1>0, <1>1 DEF Devices!Respond, Devices!At, IInv, UsedIsThere, Moves
    <3>2. mutex' = [mutex EXCEPT ![pc[t].level] = Devices!NoOne]
      BY DEF Devices!Respond
    <3>3. ASSUME u # t, pc[u].at = "run" PROVE mutex[pc[u].level] = u /\ pc[u].level # pc[t].level
      BY <3>1, <3>3 DEF IInv, UsedIsThere, Devices!At
    <3> QED BY <1>0, <1>1, <2>1, <3>1, <3>2, <3>3 DEF Moves, DeviceTypes
  <2> QED BY <2>2, <2>3 DEF Devices!At
<1>8. TeeFirst'
  BY <1>0, <1>1, ThreadFacts DEF Devices!Respond, IInv, Moves, Devices!At, DeviceTypes, TeeFirst,
     MadeAlone,
     UsedIsThere, Devices!Levels, Using
<1>9. EndedKnown'
  BY <1>0, <1>1, ThreadFacts DEF Devices!Respond, IInv, Moves, Devices!At, DeviceTypes,
     EndedKnown, MadeAlone,
     TeeFirst, OnlyPresent, UsedIsThere, Devices!Levels, Using
<1>10. WatcherHolds'
  BY <1>0, <1>1, ThreadFacts DEF Devices!Respond, IInv, Moves, Devices!At, DeviceTypes,
     WatcherHolds, UpdaterUpdates,
     LifecycleHeld, UsedIsThere, Updating, Devices!Levels, Using
<1> QED BY <1>2, <1>3, <1>4, <1>5, <1>6, <1>7, <1>8, <1>9, <1>10 DEF IInv

LEMMA LockInstanceStep ==
    ASSUME Devices!DevicesAssumption, IInv, NEW t \in Devices!Threads, NEW l \in Devices!Levels,
           Devices!LockInstance(t, l)
    PROVE  IInv'
<1>0. DeviceTypes /\ pc[t].at \in Places /\ pc[t].level \in Devices!Levels
  BY PlaceFacts DEF IInv
<1>1. Moves(t, IF l = "tee" THEN "lock strongbox" ELSE "lock config", pc[t].level)
  BY <1>0, Going DEF Places, Opening, Using, Updating, Devices!LockInstance, Devices!LockOrder,
     Devices!At
<1>2. DeviceTypes'
  BY <1>0, <1>1, ThreadFacts DEF Devices!LockInstance, IInv, Moves, Devices!At, DeviceTypes,
     States, Devices!Levels
<1>3. UpdaterUpdates'
  BY <1>0, <1>1, ThreadFacts DEF Devices!LockInstance, IInv, Moves, Devices!At, DeviceTypes,
     UpdaterUpdates, Updating
<1>4. LifecycleHeld'
  BY <1>0, <1>1, ThreadFacts DEF Devices!LockInstance, IInv, Moves, Devices!At, DeviceTypes,
     LifecycleHeld,
     UpdaterUpdates, Updating
<1>5. MadeAlone'
  <2> SUFFICES ASSUME NEW u \in Devices!Threads, pc'[u].at = "publish"
               PROVE  (inst[pc[u].level] = "none" /\ made[u] # "none")'
    BY DEF MadeAlone, Devices!At
  <2>1. pc[u].at \in Places /\ pc[u].level \in Devices!Levels
    BY <1>0, PlaceFacts
  <2> QED BY <1>0, <1>1, <2>1 DEF Devices!LockInstance, Moves, Devices!At, DeviceTypes, IInv,
     MadeAlone, UsedIsThere,
     LifecycleHeld, Devices!Levels, States, Using
<1>6. OnlyPresent'
  BY <1>0, <1>1, ThreadFacts DEF Devices!LockInstance, IInv, Moves, Devices!At, DeviceTypes,
     OnlyPresent, Opening,
     Using, Devices!Levels
<1>7. UsedIsThere'
  <2> SUFFICES ASSUME NEW u \in Devices!Threads
               PROVE  (/\ pc[u].at \in Using => inst[pc[u].level] # "none"
                       /\ Devices!At(u, "run") => mutex[pc[u].level] = u)'
    BY DEF UsedIsThere
  <2>1. pc[u].at \in Places /\ pc[u].level \in Devices!Levels
    BY <1>0, PlaceFacts
  <2>2. pc'[u].at \in Using => inst'[pc'[u].level] # "none"
    BY <1>0, <1>1, <2>1 DEF Devices!LockInstance, Moves, Devices!At, DeviceTypes, IInv,
       UsedIsThere, MadeAlone, Using,
       Devices!Levels
  <2>3. pc'[u].at = "run" => mutex'[pc'[u].level] = u
    <3>1. ASSUME u # t, pc[u].at = "run"
          PROVE  mutex[pc[u].level] = u /\ inst[pc[u].level] # "none" /\ u # Devices!NoOne
      BY <3>1, ThreadFacts DEF IInv, UsedIsThere, Devices!At, Using
    <3>2. pc'[t].at # "run"
      BY <1>1 DEF Moves
    <3> QED BY <1>0, <1>1, <2>1, <3>1, <3>2 DEF Devices!LockInstance, Moves, DeviceTypes
  <2> QED BY <2>2, <2>3 DEF Devices!At
<1>8. TeeFirst'
  BY <1>0, <1>1, ThreadFacts DEF Devices!LockInstance, IInv, Moves, Devices!At, DeviceTypes,
     TeeFirst, MadeAlone,
     UsedIsThere, Devices!Levels, Using
<1>9. EndedKnown'
  BY <1>0, <1>1, ThreadFacts DEF Devices!LockInstance, IInv, Moves, Devices!At, DeviceTypes,
     EndedKnown, MadeAlone,
     TeeFirst, OnlyPresent, UsedIsThere, Devices!Levels, Using
<1>10. WatcherHolds'
  BY <1>0, <1>1, ThreadFacts DEF Devices!LockInstance, IInv, Moves, Devices!At, DeviceTypes,
     WatcherHolds,
     UpdaterUpdates, LifecycleHeld, UsedIsThere, Updating, Devices!Levels, Using
<1> QED BY <1>2, <1>3, <1>4, <1>5, <1>6, <1>7, <1>8, <1>9, <1>10 DEF IInv

LEMMA LockConfigStep ==
    ASSUME Devices!DevicesAssumption, IInv, NEW t \in Devices!Threads, Devices!LockConfig(t)
    PROVE  IInv'
<1>0. DeviceTypes /\ pc[t].at \in Places /\ pc[t].level \in Devices!Levels
  BY PlaceFacts DEF IInv
<1>1. Moves(t, "apply", pc[t].level)
  BY <1>0, Going DEF Places, Opening, Using, Updating, Devices!LockConfig, Devices!LockOrder,
     Devices!At
<1>2. DeviceTypes'
  BY <1>0, <1>1, ThreadFacts DEF Devices!LockConfig, IInv, Moves, Devices!At, DeviceTypes, States,
     Devices!Levels
<1>3. UpdaterUpdates'
  BY <1>0, <1>1, ThreadFacts DEF Devices!LockConfig, IInv, Moves, Devices!At, DeviceTypes,
     UpdaterUpdates, Updating
<1>4. LifecycleHeld'
  BY <1>0, <1>1, ThreadFacts DEF Devices!LockConfig, IInv, Moves, Devices!At, DeviceTypes,
     LifecycleHeld,
     UpdaterUpdates, Updating
<1>5. MadeAlone'
  <2> SUFFICES ASSUME NEW u \in Devices!Threads, pc'[u].at = "publish"
               PROVE  (inst[pc[u].level] = "none" /\ made[u] # "none")'
    BY DEF MadeAlone, Devices!At
  <2>1. pc[u].at \in Places /\ pc[u].level \in Devices!Levels
    BY <1>0, PlaceFacts
  <2> QED BY <1>0, <1>1, <2>1 DEF Devices!LockConfig, Moves, Devices!At, DeviceTypes, IInv,
     MadeAlone, UsedIsThere,
     LifecycleHeld, Devices!Levels, States, Using
<1>6. OnlyPresent'
  BY <1>0, <1>1, ThreadFacts DEF Devices!LockConfig, IInv, Moves, Devices!At, DeviceTypes,
     OnlyPresent, Opening, Using,
     Devices!Levels
<1>7. UsedIsThere'
  <2> SUFFICES ASSUME NEW u \in Devices!Threads
               PROVE  (/\ pc[u].at \in Using => inst[pc[u].level] # "none"
                       /\ Devices!At(u, "run") => mutex[pc[u].level] = u)'
    BY DEF UsedIsThere
  <2>1. pc[u].at \in Places /\ pc[u].level \in Devices!Levels
    BY <1>0, PlaceFacts
  <2>2. pc'[u].at \in Using => inst'[pc'[u].level] # "none"
    BY <1>0, <1>1, <2>1 DEF Devices!LockConfig, Moves, Devices!At, DeviceTypes, IInv, UsedIsThere,
       MadeAlone, Using,
       Devices!Levels
  <2>3. pc'[u].at = "run" => mutex'[pc'[u].level] = u
    BY <1>0, <1>1, <2>1, ThreadFacts DEF Devices!LockConfig, Moves, Devices!At, DeviceTypes, IInv,
       UsedIsThere,
       UpdaterUpdates, Using, Devices!Levels, Updating
  <2> QED BY <2>2, <2>3 DEF Devices!At
<1>8. TeeFirst'
  BY <1>0, <1>1, ThreadFacts DEF Devices!LockConfig, IInv, Moves, Devices!At, DeviceTypes,
     TeeFirst, MadeAlone,
     UsedIsThere, Devices!Levels, Using
<1>9. EndedKnown'
  BY <1>0, <1>1, ThreadFacts DEF Devices!LockConfig, IInv, Moves, Devices!At, DeviceTypes,
     EndedKnown, MadeAlone,
     TeeFirst, OnlyPresent, UsedIsThere, Devices!Levels, Using
<1>10. WatcherHolds'
  BY <1>0, <1>1, ThreadFacts DEF Devices!LockConfig, IInv, Moves, Devices!At, DeviceTypes,
     WatcherHolds,
     UpdaterUpdates, LifecycleHeld, UsedIsThere, Updating, Devices!Levels, Using
<1> QED BY <1>2, <1>3, <1>4, <1>5, <1>6, <1>7, <1>8, <1>9, <1>10 DEF IInv

LEMMA ApplyStep ==
    ASSUME Devices!DevicesAssumption, IInv, NEW t \in Devices!Threads, Devices!Apply(t)
    PROVE  IInv'
<1>0. DeviceTypes /\ pc[t].at \in Places /\ pc[t].level \in Devices!Levels
  BY PlaceFacts DEF IInv
<1>1. Moves(t, "done", pc[t].level)
  BY <1>0, Going DEF Places, Opening, Using, Updating, Devices!Apply
<1>2. DeviceTypes'
  BY <1>0, <1>1, ThreadFacts DEF Devices!Apply, IInv, Moves, Devices!At, DeviceTypes, States,
     Devices!Levels
<1>3. UpdaterUpdates'
  BY <1>0, <1>1, ThreadFacts DEF Devices!Apply, IInv, Moves, Devices!At, DeviceTypes,
     UpdaterUpdates, Updating
<1>4. LifecycleHeld'
  BY <1>0, <1>1, ThreadFacts DEF Devices!Apply, IInv, Moves, Devices!At, DeviceTypes,
     LifecycleHeld, UpdaterUpdates,
     Updating
<1>5. MadeAlone'
  <2> SUFFICES ASSUME NEW u \in Devices!Threads, pc'[u].at = "publish"
               PROVE  (inst[pc[u].level] = "none" /\ made[u] # "none")'
    BY DEF MadeAlone, Devices!At
  <2>1. pc[u].at \in Places /\ pc[u].level \in Devices!Levels
    BY <1>0, PlaceFacts
  <2> QED BY <1>0, <1>1, <2>1 DEF Devices!Apply, Moves, Devices!At, DeviceTypes, IInv, MadeAlone,
     UsedIsThere,
     LifecycleHeld, Devices!Levels, States, Using
<1>6. OnlyPresent'
  BY <1>0, <1>1, ThreadFacts DEF Devices!Apply, IInv, Moves, Devices!At, DeviceTypes, OnlyPresent,
     Opening, Using, Devices!Levels
<1>7. UsedIsThere'
  <2> SUFFICES ASSUME NEW u \in Devices!Threads
               PROVE  (/\ pc[u].at \in Using => inst[pc[u].level] # "none"
                       /\ Devices!At(u, "run") => mutex[pc[u].level] = u)'
    BY DEF UsedIsThere
  <2>1. pc[u].at \in Places /\ pc[u].level \in Devices!Levels
    BY <1>0, PlaceFacts
  <2>2. pc'[u].at \in Using => inst'[pc'[u].level] # "none"
    BY <1>0, <1>1, <2>1 DEF Devices!Apply, Moves, Devices!At, DeviceTypes, IInv, UsedIsThere,
       MadeAlone, Using, Devices!Levels
  <2>3. pc'[u].at = "run" => mutex'[pc'[u].level] = u
    BY <1>0, <1>1, <2>1, ThreadFacts DEF Devices!Apply, Moves, Devices!At, DeviceTypes, IInv,
       UsedIsThere,
       UpdaterUpdates, Using, Devices!Levels, Updating
  <2> QED BY <2>2, <2>3 DEF Devices!At
<1>8. TeeFirst'
  BY <1>0, <1>1, ThreadFacts DEF Devices!Apply, IInv, Moves, Devices!At, DeviceTypes, TeeFirst,
     MadeAlone, UsedIsThere,
     Devices!Levels, Using
<1>9. EndedKnown'
  BY <1>0, <1>1, ThreadFacts DEF Devices!Apply, IInv, Moves, Devices!At, DeviceTypes, EndedKnown,
     MadeAlone, TeeFirst,
     OnlyPresent, UsedIsThere, Devices!Levels, Using
<1>10. WatcherHolds'
  BY <1>0, <1>1, ThreadFacts DEF Devices!Apply, IInv, Moves, Devices!At, DeviceTypes,
     WatcherHolds, UpdaterUpdates,
     LifecycleHeld, UsedIsThere, Updating, Devices!Levels, Using
<1> QED BY <1>2, <1>3, <1>4, <1>5, <1>6, <1>7, <1>8, <1>9, <1>10 DEF IInv
LEMMA Stutter == ASSUME Devices!DevicesAssumption, IInv, UNCHANGED Devices!vars PROVE IInv'
BY DEF Devices!vars, IInv, DeviceTypes, UpdaterUpdates, LifecycleHeld, MadeAlone, OnlyPresent,
   UsedIsThere,
       TeeFirst, EndedKnown, WatcherHolds, Devices!At

LEMMA Invariant == ASSUME Devices!DevicesAssumption PROVE Devices!Spec => []IInv
<1>1. Devices!Init => IInv
  BY InvariantInit
<1>2. IInv /\ [Devices!Next]_(Devices!vars) => IInv'
  <2> SUFFICES ASSUME IInv, [Devices!Next]_(Devices!vars) PROVE IInv'
    OBVIOUS
  <2>1. ASSUME NEW t \in Devices!Threads, NEW l \in Devices!Levels,
               Devices!Call(t, l) \/ Devices!LockInstance(t, l)
        PROVE IInv'
    BY <2>1, CallStep, LockInstanceStep
  <2>2. ASSUME NEW t \in Devices!Threads,
               Devices!Unavailable(t) \/ Devices!Found(t) \/ Devices!LockLifecycle(t)
               \/ Devices!FoundLocked(t) \/ Devices!Make(t)
        PROVE  IInv'
    BY <2>2, UnavailableStep, FoundStep, LockLifecycleStep, FoundLockedStep, MakeStep
  <2>3. ASSUME NEW t \in Devices!Threads,
               Devices!Publish(t) \/ Devices!StoreFlag(t) \/ Devices!Execute(t)
               \/ Devices!Respond(t) \/ Devices!LockConfig(t) \/ Devices!Apply(t)
        PROVE  IInv'
    BY <2>3, PublishStep, StoreFlagStep, ExecuteStep, RespondStep, LockConfigStep, ApplyStep
  <2> QED BY <2>1, <2>2, <2>3, Stutter DEF Devices!Next, Devices!Step, Devices!Done
<1> QED BY <1>1, <1>2, PTL DEF Devices!Spec

\* However the threads interleave, and whichever instance was being made at
\* that moment, no instance is in early boot once earlyBootEnded returned.
THEOREM EarlyBootEnds == ASSUME Devices!DevicesAssumption PROVE Devices!Spec => []EarlyBootOver
<1>1. IInv => EarlyBootOver
  BY DEF IInv, EndedKnown, OnlyPresent, DeviceTypes, EarlyBootOver, Devices!EarlyBootOver,
     Devices!Levels
<1> QED BY Invariant, <1>1, PTL

\* apply_runtime_config_update writes the configuration while no request runs
\* on any instance and none is being made from a snapshot of the old one.
THEOREM UpdatesAlone == ASSUME Devices!DevicesAssumption PROVE Devices!Spec => []UpdateAlone
<1>1. IInv => UpdateAlone
  <2> SUFFICES ASSUME IInv, Devices!At(Updater, "apply"), NEW t \in Devices!Threads
               PROVE  ~Devices!At(t, "run") /\ ~Devices!At(t, "publish")
    BY DEF UpdateAlone
  <2>1. lifecycle = Updater /\ t # Updater => pc[t].at # "publish"
    BY ThreadFacts DEF IInv, LifecycleHeld, Devices!At, Updating
  <2>2. lifecycle = Updater
    BY ThreadFacts DEF IInv, LifecycleHeld, Devices!At, Updating
  <2>3. ASSUME pc[t].at = "run" PROVE FALSE
    <3>1. inst[pc[t].level] # "none" /\ mutex[pc[t].level] = t /\ t # Updater
      BY <2>3 DEF IInv, UsedIsThere, Using, Devices!At
    <3>2. pc[t].level \in Devices!Levels
      BY PlaceFacts DEF IInv
    <3> QED BY <3>1, <3>2 DEF IInv, WatcherHolds, Devices!At, Devices!Levels
  <2> QED BY <2>1, <2>2, <2>3 DEF Devices!At
<1> QED BY Invariant, <1>1, PTL

\* shared_keymint_wrapper's promise of one request at a time: the KeyMint TA
\* of an instance is never entered by two threads.
THEOREM OneRequestAtATime == ASSUME Devices!DevicesAssumption PROVE Devices!Spec => []RequestsAlone
<1>1. IInv => RequestsAlone
  BY DEF IInv, UsedIsThere, RequestsAlone, Devices!At
<1> QED BY Invariant, <1>1, PTL
-----------------------------------------------------------------------------
(***************************************************************************)
(* The watchdog.  Its wait is never later than the deadline of a record to *)
(* come, so it looks when a record becomes overdue; what was too soon to   *)
(* report then is reported in the next round, one back-off later at most.  *)
(***************************************************************************)
LEMMA MinFacts ==
    ASSUME NEW S, S \subseteq Nat, S # {}
    PROVE  Dog!Min(S) \in S /\ \A y \in S : Dog!Min(S) <= y
<1>1. PICK R : R = OpToRel(<, Nat)
  OBVIOUS
<1>2. IsWellFoundedOn(R, Nat)
  BY <1>1, NatLessThanWellFounded
<1>3. PICK x \in S : \A y \in S : ~(<<y, x>> \in R)
  BY <1>2, WFMin
<1>4. \A y \in S : <<y, x>> \in R <=> y < x
  BY <1>1 DEF OpToRel
<1>5. ASSUME NEW y \in S PROVE x <= y
  <2>1. ~(y < x)
    BY <1>3, <1>4
  <2>2. QED
    BY <2>1
<1>6. QED
  BY <1>5 DEF Dog!Min

\* The thread waits no longer than this: not past its timeout.
InTime == watcher = "wait" => now <= until

\* What is known of a record: armed since the thread looked; to come when it
\* looked; reported; or too soon to be reported, and then in the next round.
Awaited(p) ==
    \/ (watcher = "start" \/ signal) /\ now < records[p]
    \/ watcher = "wait" /\ until <= records[p]
    \/ watcher = "wait" /\ records[p] <= now /\ logged >= records[p]
    \/ watcher = "wait" /\ last = Dog!Never /\ records[p] <= now /\ until <= records[p] + MaxReport

WatchInv == Dog!TypeOK /\ InTime /\ \A p \in DOMAIN records : Awaited(p)

\* The bounds of the wait that a round sets up.
LEMMA NextTimeoutFacts ==
    ASSUME Dog!WatchdogAssumption, Dog!TypeOK, NEW n \in Nat
    PROVE  /\ Dog!NextTimeout(n) \in Nat
           /\ \A p \in DOMAIN records \ Dog!Overdue : Dog!NextTimeout(n) <= records[p] - now
           /\ Dog!Overdue # {} => Dog!NextTimeout(n) <= n
<1> DEFINE S == Dog!ToCome \cup (IF Dog!Overdue = {} THEN {} ELSE {n})
<1>1. Dog!ToCome \subseteq Nat
  BY DEF Dog!ToCome, Dog!Overdue, Dog!TypeOK
<1>2. S \subseteq Nat /\ (Dog!Overdue # {} => n \in S)
  BY <1>1
<1>3. \A p \in DOMAIN records \ Dog!Overdue : records[p] - now \in Dog!ToCome
  BY DEF Dog!ToCome
<1>4. CASE Dog!Overdue = {} /\ Dog!ToCome = {}
  BY <1>3, <1>4 DEF Dog!NextTimeout, Dog!WatchdogAssumption
<1>5. CASE ~(Dog!Overdue = {} /\ Dog!ToCome = {})
  <2>1. S # {} /\ Dog!NextTimeout(n) = Dog!Min(S)
    BY <1>5 DEF Dog!NextTimeout
  <2>2. Dog!Min(S) \in S /\ \A y \in S : Dog!Min(S) <= y
    BY <1>2, <2>1, MinFacts
  <2>3. QED
    BY <1>2, <1>3, <2>1, <2>2
<1>6. QED
  BY <1>4, <1>5

LEMMA NoisyFacts ==
    ASSUME Dog!WatchdogAssumption, Dog!TypeOK
    PROVE  Dog!NextNoisy \in MinReport..MaxReport
<1>1. {MaxReport, noisy + ReportStep} \subseteq Nat /\ noisy \in MinReport..MaxReport
  BY DEF Dog!WatchdogAssumption, Dog!TypeOK
<1>2. /\ Dog!NextNoisy \in {MaxReport, noisy + ReportStep}
      /\ Dog!NextNoisy <= MaxReport
  BY <1>1, MinFacts DEF Dog!NextNoisy
<1>3. QED
  BY <1>1, <1>2 DEF Dog!WatchdogAssumption

LEMMA LookKeeps ==
    ASSUME Dog!WatchdogAssumption, WatchInv, watcher \in {"start", "wait"}, Dog!Look
    PROVE  WatchInv'
<1>0. /\ Dog!TypeOK /\ InTime /\ noisy \in Nat /\ noisy' \in MinReport..MaxReport /\ noisy' \in Nat
      /\ MaxReport \in Nat /\ now \in Nat
      /\ looked' = now /\ watcher' = "wait" /\ ~signal' /\ UNCHANGED <<records, running, now>>
      /\ \A p \in DOMAIN records : records[p] \in Nat
  BY NoisyFacts DEF Dog!Look, Dog!LogReport, WatchInv, Dog!TypeOK, Dog!WatchdogAssumption
<1>1. PICK n : n = Dog!NextTimeout(noisy')
  OBVIOUS
<1>2. /\ n \in Nat /\ until' = now + n
      /\ \A p \in DOMAIN records \ Dog!Overdue : n <= records[p] - now
      /\ Dog!Overdue # {} => n <= noisy'
  BY <1>0, <1>1, NextTimeoutFacts DEF Dog!Look
<1>3. Dog!TypeOK'
  <2>1. last' \in {Dog!Never} \cup 0..now /\ logged' \in {Dog!Never} \cup 0..now
    BY <1>0 DEF Dog!Look, Dog!LogReport, Dog!TypeOK
  <2>2. running' = (watcher' # "none")
    BY <1>0 DEF Dog!TypeOK
  <2>3. idle' \in BOOLEAN /\ signal' \in BOOLEAN
    BY DEF Dog!Look
  <2>4. until' \in Nat /\ looked' \in {Dog!Never} \cup 0..now'
    BY <1>0, <1>2
  <2>5. QED
    BY <1>0, <2>1, <2>2, <2>3, <2>4 DEF Dog!TypeOK
<1>4. InTime'
  BY <1>0, <1>2 DEF InTime
<1>5. ASSUME NEW p \in DOMAIN records PROVE Awaited(p)'
  <2>0. Awaited(p) /\ records'[p] = records[p]
    BY <1>0 DEF WatchInv
  <2>1. CASE p \notin Dog!Overdue
    <3>1. n <= records[p] - now
      BY <1>2, <2>1
    <3>2. QED
      BY <1>0, <1>2, <2>0, <3>1 DEF Awaited
  <2>2. CASE p \in Dog!Overdue /\ ~Dog!TooSoon
    <3>1. records[p] <= now /\ logged' = now
      BY <2>2 DEF Dog!Overdue, Dog!Look, Dog!LogReport
    <3>2. QED
      BY <1>0, <2>0, <3>1 DEF Awaited
  <2>3. CASE p \in Dog!Overdue /\ Dog!TooSoon
    <3>1. /\ records[p] <= now /\ last' = Dog!Never /\ logged' = logged /\ noisy' = noisy
          /\ last # Dog!Never /\ n <= noisy
      BY <1>2, <2>3 DEF Dog!Overdue, Dog!Look, Dog!LogReport, Dog!TooSoon
    <3>2. CASE watcher = "wait" /\ logged >= records[p]
      BY <1>0, <2>0, <3>1, <3>2 DEF Awaited
    <3>3. CASE watcher = "wait" /\ until <= records[p]
      <4>1. now = records[p]
        BY <1>0, <3>1, <3>3 DEF InTime, Dog!TypeOK
      <4>2. until' <= records[p] + MaxReport
        BY <1>0, <1>2, <3>1, <4>1
      <4>3. QED
        BY <1>0, <2>0, <3>1, <4>2 DEF Awaited
    <3>4. QED
      BY <1>0, <2>0, <3>1, <3>2, <3>3 DEF Awaited
  <2>4. QED
    BY <2>1, <2>2, <2>3
<1>6. QED
  BY <1>0, <1>3, <1>4, <1>5 DEF WatchInv

LEMMA ArmKeeps ==
    ASSUME Dog!WatchdogAssumption, WatchInv, NEW p \in Points, NEW timeout \in Timeouts,
           Dog!Arm(p, timeout)
    PROVE  WatchInv'
<1>0. /\ Dog!TypeOK /\ InTime /\ now \in Nat /\ timeout \in Nat \ {0}
      /\ UNCHANGED <<until, last, noisy, looked, logged, now, idle>>
  BY DEF Dog!Arm, Dog!report, WatchInv, Dog!TypeOK, Dog!WatchdogAssumption
<1>1. /\ DOMAIN records' = DOMAIN records \cup {p} /\ records'[p] = now + timeout
      /\ \A q \in DOMAIN records \ {p} : records'[q] = records[q]
  BY DEF Dog!Arm
<1>2. \/ watcher = "none" /\ watcher' = "start" /\ running' /\ ~signal'
      \/ watcher # "none" /\ watcher' = watcher /\ running' = running
      /\ signal' = (watcher = "wait")
  BY <1>0 DEF Dog!Arm, Dog!Notify, Dog!TypeOK
<1>3. Dog!TypeOK'
  <2>1. /\ DOMAIN records' \subseteq Points /\ \A q \in DOMAIN records' : records'[q] \in Nat
    BY <1>0, <1>1 DEF Dog!TypeOK
  <2>2. /\ watcher' \in {"none", "start", "wait"} /\ running' = (watcher' # "none")
        /\ signal' \in BOOLEAN /\ (signal' => watcher' = "wait")
    BY <1>0, <1>2 DEF Dog!TypeOK, Dog!Arm, Dog!Notify
  <2>3. QED
    BY <1>0, <2>1, <2>2 DEF Dog!TypeOK
<1>4. InTime'
  BY <1>0, <1>2 DEF InTime
<1>5. Awaited(p)'
  <2>1. watcher' = "start" \/ signal'
    BY <1>0, <1>2 DEF Dog!TypeOK
  <2>2. now' < records'[p]
    BY <1>0, <1>1
  <2>3. QED
    BY <2>1, <2>2 DEF Awaited
<1>6. ASSUME NEW q \in DOMAIN records \ {p} PROVE Awaited(q)'
  <2>1. Awaited(q) /\ records'[q] = records[q]
    BY <1>1 DEF WatchInv
  <2>2. QED
    BY <1>0, <1>2, <2>1 DEF Awaited, Dog!TypeOK
<1>7. QED
  BY <1>1, <1>3, <1>4, <1>5, <1>6 DEF WatchInv

LEMMA DisarmKeeps ==
    ASSUME WatchInv, NEW p \in Points, Dog!Disarm(p)
    PROVE  WatchInv'
<1>1. DOMAIN records' = DOMAIN records \ {p} /\ \A q \in DOMAIN records' : records'[q] = records[q]
  BY DEF Dog!Disarm
<1>2. UNCHANGED <<running, watcher, until, idle, signal, last, noisy, looked, logged, now>>
  BY DEF Dog!Disarm, Dog!thread, Dog!report
<1>3. Dog!TypeOK' /\ InTime'
  BY <1>1, <1>2 DEF WatchInv, Dog!TypeOK, InTime
<1>4. ASSUME NEW q \in DOMAIN records' PROVE Awaited(q)'
  BY <1>1, <1>2 DEF WatchInv, Awaited
<1>5. QED
  BY <1>3, <1>4 DEF WatchInv

LEMMA TerminateKeeps == ASSUME Dog!WatchdogAssumption, WatchInv, Dog!Terminate PROVE WatchInv'
<1>1. DOMAIN records = {} /\ UNCHANGED <<records, until, idle, last, looked, logged, now>>
  BY DEF Dog!Terminate, Dog!MayTerminate
<1>2. ~running' /\ watcher' = "none" /\ ~signal' /\ noisy' = MinReport
      /\ running' \in BOOLEAN /\ signal' \in BOOLEAN
  BY DEF Dog!Terminate
<1>3. Dog!TypeOK' /\ InTime'
  BY <1>1, <1>2 DEF WatchInv, Dog!TypeOK, InTime, Dog!WatchdogAssumption, Dog!Terminate
<1>4. QED
  BY <1>1, <1>3 DEF WatchInv

LEMMA TickKeeps == ASSUME Dog!WatchdogAssumption, WatchInv, Dog!Tick PROVE WatchInv'
<1>0. /\ UNCHANGED <<records, running, watcher, until, idle, signal, last, noisy, looked, logged>>
      /\ now' = now + 1 /\ now < MaxTime /\ MaxTime \in Nat /\ MaxReport \in Nat
      /\ watcher # "start" /\ ~signal /\ ~Dog!TimedOut /\ Dog!TypeOK
  BY DEF Dog!Tick, Dog!Due, Dog!thread, Dog!report, WatchInv, Dog!WatchdogAssumption
<1>1. Dog!TypeOK'
  BY <1>0 DEF Dog!TypeOK
<1>2. InTime'
  BY <1>0 DEF InTime, Dog!TimedOut, Dog!TypeOK
<1>3. ASSUME NEW p \in DOMAIN records PROVE Awaited(p)'
  <2>1. Awaited(p)
    BY DEF WatchInv
  <2>2. QED
    BY <1>0, <2>1 DEF Awaited, Dog!TypeOK
<1>4. QED
  BY <1>0, <1>1, <1>2, <1>3 DEF WatchInv

LEMMA WatchInit == ASSUME Dog!WatchdogAssumption, Dog!Init PROVE WatchInv
<1>1. DOMAIN records = {} /\ watcher = "none" /\ running = FALSE
  BY DEF Dog!Init
<1>2. running = (watcher # "none")
  BY <1>1
<1>3. Dog!TypeOK
  <2>1. until \in Nat /\ noisy \in MinReport..MaxReport /\ now \in 0..MaxTime
    BY DEF Dog!WatchdogAssumption, Dog!Init
  <2>2. last = Dog!Never /\ looked = Dog!Never /\ logged = Dog!Never /\ idle = FALSE
        /\ signal = FALSE
    BY DEF Dog!Init
  <2>3. QED
    BY <1>1, <1>2, <2>1, <2>2 DEF Dog!TypeOK
<1>4. QED
  BY <1>1, <1>3 DEF WatchInv, InTime

LEMMA WatchSteps == ASSUME Dog!WatchdogAssumption, WatchInv, [Dog!Next]_(Dog!vars) PROVE WatchInv'
<1>1. CASE UNCHANGED Dog!vars
  BY <1>1 DEF Dog!vars, Dog!thread, Dog!report, WatchInv, Dog!TypeOK, InTime, Awaited
<1>2. CASE Dog!Start \/ Dog!WakeUp
  BY <1>2, LookKeeps DEF Dog!Start, Dog!WakeUp, Dog!TimedOut, Dog!Woken
<1>3. QED
  BY <1>1, <1>2, ArmKeeps, DisarmKeeps, TerminateKeeps, TickKeeps DEF Dog!Next

LEMMA WatchInvReports == ASSUME Dog!WatchdogAssumption, WatchInv PROVE Dog!OverdueReported
<1> SUFFICES ASSUME NEW p \in DOMAIN records, now > records[p] + MaxReport
             PROVE  logged >= records[p]
  BY DEF Dog!OverdueReported
<1>1. Awaited(p) /\ Dog!TypeOK /\ InTime /\ MaxReport \in Nat /\ records[p] \in Nat
  BY DEF WatchInv, Dog!TypeOK, Dog!WatchdogAssumption
<1>2. QED
  BY <1>1 DEF Awaited, Dog!TypeOK, InTime

\* For any watch points, timeouts and back-off, and with spurious wake-ups or
\* without: a watch point that stays overdue is reported at the latest when the
\* longest back-off after its deadline is over.
THEOREM OverdueIsReported ==
    Dog!WatchdogAssumption => (Dog!Spec => []OverdueReported)
<1> SUFFICES ASSUME Dog!WatchdogAssumption PROVE Dog!Spec => []OverdueReported
  OBVIOUS
<1>1. Dog!Init => WatchInv
  BY WatchInit
<1>2. WatchInv /\ [Dog!Next]_(Dog!vars) => WatchInv'
  BY WatchSteps
<1>3. WatchInv => OverdueReported
  BY WatchInvReports DEF OverdueReported
<1>4. QED
  BY <1>1, <1>2, <1>3, PTL DEF Dog!Spec
=============================================================================
