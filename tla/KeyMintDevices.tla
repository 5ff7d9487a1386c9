--------------------------- MODULE KeyMintDevices ---------------------------
(***************************************************************************)
(* The shared KeyMint instances of the daemon, and the locks around them   *)
(* (src/src/keymaster/keymint_device.rs).  An instance is made when it is  *)
(* first needed, under KM_WRAPPER_LIFECYCLE; its requests run one at a     *)
(* time under its mutex; a configuration update holds the lifecycle lock,  *)
(* both mutexes and the configuration's write lock.  The end of early boot *)
(* is sent to the instances there are, and remembered for later ones.      *)
(***************************************************************************)
EXTENDS Integers, FiniteSets, Sequences

CONSTANTS
    Clients,   \* threads that use one instance each
    Enders,    \* threads that report the end of early boot
    Updater,   \* the thread of the configuration watcher
    Faults     \* may making an instance fail?

Threads == Clients \cup Enders \cup {Updater}
Levels  == {"tee", "strongbox"}
NoOne   == "noone"

\* The configuration watcher is a thread of its own.
DevicesAssumption == Updater \notin Clients \cup Enders /\ NoOne \notin Threads

VARIABLES
    present,    \* does the device have a StrongBox KeyMint?
    pc,         \* per thread: [at, level]
    lifecycle,  \* holder of KM_WRAPPER_LIFECYCLE
    mutex,      \* per level: holder of the instance's mutex
    configLock, \* the write lock of the runtime configuration
    inst,       \* per level: "none", "early" boot or "late"
    flag,       \* EARLY_BOOT_ENDED
    made,       \* the instance a thread has made and not published
    ended       \* history: an earlyBootEnded call returned successfully

vars == <<present, pc, lifecycle, mutex, configLock, inst, flag, made, ended>>

Init ==
    /\ present \in BOOLEAN
    /\ pc = [t \in Threads |-> [at |-> "idle", level |-> "tee"]]
    /\ lifecycle = NoOne /\ mutex = [l \in Levels |-> NoOne] /\ configLock = NoOne
    /\ inst = [l \in Levels |-> "none"]
    /\ flag = FALSE /\ made = [t \in Threads |-> "none"] /\ ended = FALSE

Go(t, at) == pc' = [pc EXCEPT ![t].at = at]
At(t, at) == pc[t].at = at
-----------------------------------------------------------------------------
\* KeyMintWrapper::new: an instance there is, or the lifecycle lock.  A device
\* without StrongBox answers HARDWARE_TYPE_UNAVAILABLE.
Call(t, l) ==
    /\ At(t, "idle") /\ t # Updater
    /\ t \in Enders => l = "tee"
    /\ pc' = [pc EXCEPT ![t] = [at |-> "open", level |-> l]]
    /\ UNCHANGED <<present, lifecycle, mutex, configLock, inst, flag, made, ended>>

\* Mutant of Absent: the end of early boot is not told to an instance that
\* nobody has opened.
MutAbsent(t) ==
    pc[t].level = "strongbox" /\ (~present \/ (t \in Enders /\ inst["strongbox"] = "none"))

Absent(t) == pc[t].level = "strongbox" /\ ~present

Unavailable(t) ==
    /\ At(t, "open") /\ Absent(t)
    /\ Go(t, "done")
    /\ ended' = (ended \/ t \in Enders)   \* call_keymint_wrappers: StrongBox is optional
    /\ UNCHANGED <<present, lifecycle, mutex, configLock, inst, flag, made>>

Opened(t) == Go(t, IF t \in Enders THEN "store" ELSE "request")

\* The first look at the OnceLock, with no lock held.
Found(t) ==
    /\ At(t, "open") /\ ~Absent(t)
    /\ IF inst[pc[t].level] # "none" THEN Opened(t) ELSE Go(t, "wait")
    /\ UNCHANGED <<present, lifecycle, mutex, configLock, inst, flag, made, ended>>

\* shared_keymint_wrapper_inner: wait for the lifecycle lock.
LockLifecycle(t) ==
    /\ At(t, "wait") \/ (At(t, "idle") /\ t = Updater)
    /\ lifecycle = NoOne /\ lifecycle' = t
    /\ Go(t, IF t = Updater THEN "lock tee" ELSE "snapshot")
    /\ UNCHANGED <<present, mutex, configLock, inst, flag, made, ended>>

\* get_or_try_init: the instance another thread made meanwhile ...
FoundLocked(t) ==
    /\ At(t, "snapshot") /\ configLock = NoOne /\ inst[pc[t].level] # "none"
    /\ lifecycle' = NoOne
    /\ Opened(t)
    /\ UNCHANGED <<present, mutex, configLock, inst, flag, made, ended>>

\* init_keymint_ta ends with the early boot flag.
NewInstance == IF flag THEN "late" ELSE "early"

\* ... or a new one, from a snapshot of the configuration ...
Make(t) ==
    /\ At(t, "snapshot") /\ configLock = NoOne /\ inst[pc[t].level] = "none"
    /\ \/ /\ made' = [made EXCEPT ![t] = NewInstance]
          /\ Go(t, "publish") /\ UNCHANGED lifecycle
       \/ /\ Faults /\ Go(t, "done") /\ lifecycle' = NoOne /\ UNCHANGED made
    /\ UNCHANGED <<present, mutex, configLock, inst, flag, ended>>

\* ... that other threads see only now.
Publish(t) ==
    /\ At(t, "publish")
    /\ inst' = [inst EXCEPT ![pc[t].level] = made[t]]
    /\ made' = [made EXCEPT ![t] = "none"]
    /\ lifecycle' = NoOne
    /\ Opened(t)
    /\ UNCHANGED <<present, mutex, configLock, flag, ended>>

\* earlyBootEnded: the flag, then the request.
StoreFlag(t) ==
    /\ At(t, "store")
    /\ flag' = TRUE /\ Go(t, "request")
    /\ UNCHANGED <<present, lifecycle, mutex, configLock, inst, made, ended>>

\* execute: the request runs under the mutex, and may read the configuration.
Execute(t) ==
    /\ At(t, "request") /\ mutex[pc[t].level] = NoOne
    /\ mutex' = [mutex EXCEPT ![pc[t].level] = t]
    /\ Go(t, "run")
    /\ UNCHANGED <<present, lifecycle, configLock, inst, flag, made, ended>>

Respond(t) ==
    /\ At(t, "run") /\ configLock = NoOne
    /\ LET l == pc[t].level
       IN  /\ mutex' = [mutex EXCEPT ![l] = NoOne]
           /\ IF t \in Enders
              THEN /\ inst' = [inst EXCEPT ![l] = "late"]
                   /\ pc' = [pc EXCEPT ![t] = IF l = "tee" THEN [at |-> "open", level |-> "strongbox"]
                                              ELSE [at |-> "done", level |-> l]]
                   /\ ended' = (ended \/ l = "strongbox")
              ELSE Go(t, "done") /\ UNCHANGED <<present, inst, ended>>
    /\ UNCHANGED <<present, lifecycle, configLock, flag, made>>
-----------------------------------------------------------------------------
(***************************************************************************)
(* apply_runtime_config_update.                                            *)
(***************************************************************************)
\* Mutant of LockOrder: the configuration is locked before the instances.
MutLockOrder(at) ==
    CASE at = "lock tee" -> "lock config" [] at = "lock config" -> "lock strongbox"
      [] at = "lock strongbox" -> "apply"

LockOrder(at) ==
    CASE at = "lock tee" -> "lock strongbox" [] at = "lock strongbox" -> "lock config"
      [] at = "lock config" -> "apply"

\* The mutexes of the instances there are ...
LockInstance(t, l) ==
    /\ At(t, IF l = "tee" THEN "lock tee" ELSE "lock strongbox")
    /\ inst[l] = "none" \/ mutex[l] = NoOne
    /\ mutex' = [mutex EXCEPT ![l] = IF inst[l] = "none" THEN @ ELSE t]
    /\ Go(t, LockOrder(pc[t].at))
    /\ UNCHANGED <<present, lifecycle, configLock, inst, flag, made, ended>>

\* ... then the configuration, the new values, and all the locks back.
LockConfig(t) ==
    /\ At(t, "lock config") /\ configLock = NoOne
    /\ configLock' = t
    /\ Go(t, LockOrder(pc[t].at))
    /\ UNCHANGED <<present, lifecycle, mutex, inst, flag, made, ended>>

Apply(t) ==
    /\ At(t, "apply")
    /\ configLock' = NoOne /\ lifecycle' = NoOne
    /\ mutex' = [l \in Levels |-> IF mutex[l] = t THEN NoOne ELSE mutex[l]]
    /\ Go(t, "done")
    /\ UNCHANGED <<present, inst, flag, made, ended>>

Done == (\A t \in Threads : At(t, "done")) /\ UNCHANGED vars

Step(t) ==
    \/ Unavailable(t) \/ Found(t) \/ LockLifecycle(t) \/ FoundLocked(t) \/ Make(t)
    \/ Publish(t) \/ StoreFlag(t) \/ Execute(t) \/ Respond(t)
    \/ \E l \in Levels : LockInstance(t, l)
    \/ LockConfig(t) \/ Apply(t)

Next ==
    \/ \E t \in Threads : (\E l \in Levels : Call(t, l)) \/ Step(t)
    \/ Done

Fairness == \A t \in Threads : WF_vars(Step(t))

Spec == Init /\ [][Next]_vars /\ Fairness
-----------------------------------------------------------------------------
\* Once earlyBootEnded returned, no instance is in early boot any more: not one
\* that another thread was making then, and not one that is made later.
EarlyBootOver == ended => \A l \in Levels : inst[l] # "early"

\* Every call ends, with an update of the configuration in between or not: the
\* locks of the instances, the lifecycle and the configuration never wait for
\* each other.
CallsReturn == \A t \in Threads : At(t, "open") \/ At(t, "lock tee") ~> At(t, "done")
=============================================================================
