------------------------- MODULE KeystoreOperations -------------------------
(***************************************************************************)
(* Key operations of the keystore service: creation, use, pruning and end  *)
(* of an Operation (src/src/keymaster/operation.rs), the reservations of   *)
(* limited-use keys (KeyUsageReservations, enforcements.rs), the durable   *)
(* use counter behind them (db.rs) and the create_operation and            *)
(* import_wrapped_key calls that drive them (security_level.rs).           *)
(*                                                                         *)
(* One process per member of Ops: the binder thread that runs              *)
(* create_operation (or import_wrapped_key) for it and, after that, the    *)
(* client calls on it.  Those are sequential: a second call on an          *)
(* operation in use is answered OPERATION_BUSY without any effect.  The    *)
(* processes meet in the operation database, in the outcome mutex of an    *)
(* operation that another thread prunes, in the reservation table, in the  *)
(* key id lock and in the operation table of the KeyMint TA.               *)
(*                                                                         *)
(* Time is in seconds.  Every reading of the monotonic clock that is       *)
(* stored advances it by one, Tick lets it pass.  Each operation is used   *)
(* once and the clock is bounded; BeginLoop has the begin/prune loop       *)
(* against clients that never stop.                                        *)
(***************************************************************************)
EXTENDS Integers, Sequences, FiniteSets, Pruning

CONSTANTS
    Ops,         \* operations, each made at most once
    None,        \* no operation
    Owners,      \* AppUids
    Keys,        \* key entry ids
    NoKey,       \* the key of a Domain::BLOB operation: nothing to enforce
    OwnerOf,     \* [Ops -> Owners]
    KeyOf,       \* [Ops -> Keys \cup {NoKey}]
    Forced,      \* operations created with forced = true
    Imports,     \* members of Ops that are import_wrapped_key calls
    AuthPerUse,  \* operations the TA authenticates on every call
    Limited,     \* keys with a keystore-enforced USAGE_COUNT_LIMIT
    Limit,       \* [Keys -> Nat \ {0}]
    Reencrypt,   \* keys whose blob is re-encrypted after begin
    KmSlots,     \* size of the TA's operation table
    MaxTime,     \* bound on the clock for Tick
    MaxTouch     \* bound on the clock for update

ASSUME OpsAssumption ==
    /\ IsFiniteSet(Ops) /\ None \notin Ops
    /\ NoKey \notin Keys
    /\ OwnerOf \in [Ops -> Owners]
    /\ KeyOf \in [Ops -> Keys \cup {NoKey}]
    /\ Forced \subseteq Ops /\ AuthPerUse \subseteq Ops
    /\ Imports \subseteq {o \in Ops : KeyOf[o] # NoKey}
    /\ Limited \subseteq Keys /\ Reencrypt \subseteq Keys
    /\ Limit \in [Keys -> Nat \ {0}]
    /\ KmSlots \in Nat \ {0} /\ MaxTime \in Nat /\ MaxTouch \in Nat

VARIABLES
    pc,         \* where the thread of an operation is
    outcome,    \* Operation.outcome
    lastUsage,  \* Operation.last_usage
    index,      \* Operation.index
    slots,      \* OperationDb.operations: a sequence of weak references
    cand,       \* the candidate a pruning thread chose
    held,       \* the strong reference a pruning thread upgraded
    reserved,   \* does this thread own a KeyUsageReservation?
    inFlight,   \* KeyUsageReservations.in_flight
    keyLock,    \* KEY_ID_LOCK: the thread that holds the guard of a key
    live,       \* keys whose entry is in the database
    remaining,  \* the durable USAGE_COUNT_LIMIT of a key
    km,         \* operations that occupy a slot of the TA
    now

vars == <<pc, outcome, lastUsage, index, slots, cand, held, reserved,
          inFlight, keyLock, live, remaining, km, now>>
-----------------------------------------------------------------------------
Outcomes == {"Unknown", "Success", "Abort", "Dropped", "Pruned", "ErrorCode"}

\* A client of these holds a strong reference through its KeystoreOperation.
InCall == {"update", "finish", "commit", "committed", "abort"}
Client == InCall \cup {"open"}

\* Inside create_operation, and inside import_wrapped_key.
Creating  == {"loaded", "begin", "prune", "get", "try", "pruning", "begun"}
Importing == {"loaded", "import", "store"}

PCs == {"idle", "done"} \cup Client \cup Creating \cup Importing

NoCand == [op |-> None, index |-> 0, last_usage |-> 0]

\* Weak::upgrade() succeeds: somebody holds a strong reference.
Alive(p) == pc[p] \in Client \/ \E q \in Ops : held[q] = p

\* The outcome mutex is taken by a pruning thread, and by anybody.
LockedByPruner(p) == \E q \in Ops : pc[q] = "pruning" /\ held[q] = p
OutcomeLocked(p) == pc[p] \in InCall \/ LockedByPruner(p)

Init ==
    /\ pc = [o \in Ops |-> "idle"]
    /\ outcome = [o \in Ops |-> "Unknown"]
    /\ lastUsage = [o \in Ops |-> 0]
    /\ index = [o \in Ops |-> 0]
    /\ slots = <<>>
    /\ cand = [o \in Ops |-> NoCand]
    /\ held = [o \in Ops |-> None]
    /\ reserved = [o \in Ops |-> FALSE]
    /\ inFlight = [k \in Keys |-> 0]
    /\ keyLock = [k \in Keys |-> None]
    /\ live = Keys
    /\ remaining = Limit
    /\ km = {}
    /\ now = 0
-----------------------------------------------------------------------------
Goto(o, l) == pc' = [pc EXCEPT ![o] = l]

\* Mutant of ReleaseUsage: it forgets the shared table.
MutReleaseForgets(o) ==
    /\ reserved' = [reserved EXCEPT ![o] = FALSE]
    /\ UNCHANGED inFlight

\* KeyUsageReservation dropped or taken: remove_slot, once.
ReleaseUsage(o) ==
    /\ reserved' = [reserved EXCEPT ![o] = FALSE]
    /\ inFlight' = IF reserved[o]
                   THEN [inFlight EXCEPT ![KeyOf[o]] = @ - 1]
                   ELSE inFlight

KeepUsage == UNCHANGED <<reserved, inFlight>>

\* Drop of the KeyIdGuard.
Unlock(o) == keyLock' = [k \in Keys |-> IF keyLock[k] = o THEN None ELSE keyLock[k]]

SetOutcome(o, out) == outcome' = [outcome EXCEPT ![o] = out]

\* Mutant of DropOperation: the outcome is recorded, KeyMint is not told.
MutDropSilently(p) ==
    IF outcome[p] = "Unknown"
    THEN SetOutcome(p, "Dropped") /\ ReleaseUsage(p) /\ UNCHANGED km
    ELSE KeepUsage /\ UNCHANGED <<outcome, km>>

\* Drop for Operation, run by whoever lets go of the last reference of p: an
\* operation that is still active is aborted and its outcome is Dropped.
DropOperation(p) ==
    IF outcome[p] = "Unknown"
    THEN /\ SetOutcome(p, "Dropped")
         /\ ReleaseUsage(p)
         /\ km' = km \ {p}
    ELSE KeepUsage /\ UNCHANGED <<outcome, km>>

\* The KeystoreOperation gives up its reference to o without a finalization of
\* its own; a pruning thread may still hold o alive.
LetGo(o) ==
    /\ Goto(o, "done")
    /\ IF \E q \in Ops : held[q] = o
       THEN KeepUsage /\ UNCHANGED <<outcome, km>>
       ELSE DropOperation(o)

\* A creation or an import fails: AuthInfo and KeyIdGuard are dropped.
GiveUp(o) ==
    /\ Goto(o, "done")
    /\ ReleaseUsage(o)
    /\ Unlock(o)
    /\ UNCHANGED <<outcome, lastUsage, index, slots, live, remaining, now>>

Limits(o) == KeyOf[o] \in Limited
-----------------------------------------------------------------------------
(***************************************************************************)
(* Creation.                                                               *)
(***************************************************************************)

\* load_key_entry: blocks on the key id lock, fails when the entry is gone.
LoadKey(o) ==
    /\ pc[o] = "idle"
    /\ IF KeyOf[o] = NoKey
       THEN Goto(o, "loaded") /\ UNCHANGED keyLock
       ELSE /\ keyLock[KeyOf[o]] = None
            /\ IF KeyOf[o] \in live
               THEN Goto(o, "loaded") /\ keyLock' = [keyLock EXCEPT ![KeyOf[o]] = o]
               ELSE Goto(o, "done") /\ UNCHANGED keyLock
    /\ UNCHANGED <<outcome, lastUsage, index, slots, cand, held, reserved,
                   inFlight, live, remaining, km, now>>

\* Mutant of CanReserve: one reservation too many.
MutReserveOneMore(k) == k \in live /\ remaining[k] > 0 /\ inFlight[k] <= remaining[k]

\* KeyUsageReservations::reserve: the durable count is read under the lock.
CanReserve(k) == k \in live /\ remaining[k] > 0 /\ inFlight[k] < remaining[k]

\* The end of authorize_create: reserve a use of a limited-use key.
Reserve(o) ==
    /\ pc[o] = "loaded"
    /\ \/ /\ ~Limits(o)
          /\ Goto(o, IF o \in Imports THEN "import" ELSE "begin")
          /\ KeepUsage /\ UNCHANGED <<keyLock>>
       \/ /\ Limits(o) /\ CanReserve(KeyOf[o])
          /\ Goto(o, IF o \in Imports THEN "import" ELSE "begin")
          /\ reserved' = [reserved EXCEPT ![o] = TRUE]
          /\ inFlight' = [inFlight EXCEPT ![KeyOf[o]] = @ + 1]
          /\ UNCHANGED keyLock
       \/ /\ Limits(o) /\ ~CanReserve(KeyOf[o])
          /\ Goto(o, "done") /\ Unlock(o) /\ KeepUsage
    /\ UNCHANGED <<outcome, lastUsage, index, slots, cand, held, live, remaining, km, now>>

\* The other checks of authorize_create refuse the call before it reserves.
NotAuthorized(o) ==
    /\ pc[o] = "loaded"
    /\ GiveUp(o)
    /\ UNCHANGED <<cand, held, km>>

\* IKeyMintDevice::begin: a free slot is taken, TOO_MANY_OPERATIONS goes to
\* prune, any other error ends the call.
Begin(o) ==
    /\ pc[o] = "begin"
    /\ IF Cardinality(km) < KmSlots
       THEN Goto(o, "begun") /\ km' = km \cup {o}
       ELSE Goto(o, "prune") /\ UNCHANGED km
    /\ UNCHANGED <<outcome, lastUsage, index, slots, cand, held, reserved,
                   inFlight, keyLock, live, remaining, now>>

BeginFails(o) ==
    /\ pc[o] = "begin"
    /\ Cardinality(km) < KmSlots
    /\ GiveUp(o)
    /\ UNCHANGED <<cand, held, km>>

\* After begin: the forced re-encryption of the key blob cannot be stored. The
\* begin result is dropped; nothing tells the TA.
ReencryptFails(o) ==
    /\ pc[o] = "begun" /\ KeyOf[o] \in Reencrypt
    /\ GiveUp(o)
    /\ UNCHANGED <<cand, held, km>>

\* OperationDb::create_operation reuses the first dead slot or appends one.
FirstFree == IF \E i \in 1..Len(slots) : ~Alive(slots[i])
             THEN CHOOSE i \in 1..Len(slots) :
                    /\ ~Alive(slots[i])
                    /\ \A j \in 1..(i - 1) : Alive(slots[j])
             ELSE Len(slots) + 1

CreateOperation(o) ==
    /\ pc[o] = "begun"
    /\ Goto(o, "open")
    /\ Unlock(o)
    /\ index' = [index EXCEPT ![o] = FirstFree]
    /\ slots' = IF FirstFree > Len(slots) THEN Append(slots, o)
                ELSE [slots EXCEPT ![FirstFree] = o]
    /\ lastUsage' = [lastUsage EXCEPT ![o] = now + 1]
    /\ now' = now + 1
    /\ UNCHANGED <<outcome, cand, held, reserved, inFlight, live, remaining, km>>
-----------------------------------------------------------------------------
(***************************************************************************)
(* OperationDb::prune, run by a creating thread o.                         *)
(***************************************************************************)

\* get_pruning_info: finalized operations do not count, operations whose
\* outcome mutex is taken do.
Gathered == {p \in Ops : Alive(p) /\ (OutcomeLocked(p) \/ outcome[p] = "Unknown")}

PruningInfo(p) == [last_usage |-> lastUsage[p], owner |-> OwnerOf[p],
                   index |-> index[p], forced |-> p \in Forced]

\* Phases 1 and 2: gather and choose. The infos are gathered under the
\* database lock, each read of another operation being re-validated by phase 3.
PruneChoose(o) ==
    /\ pc[o] = "prune"
    /\ \E p \in Gathered :
          /\ IsCandidate({PruningInfo(q) : q \in Gathered}, PruningInfo(p),
                         OwnerOf[o], o \in Forced, now)
          /\ cand' = [cand EXCEPT ![o] =
                        [op |-> p, index |-> index[p], last_usage |-> lastUsage[p]]]
    /\ Goto(o, "get")
    /\ UNCHANGED <<outcome, lastUsage, index, slots, held, reserved, inFlight,
                   keyLock, live, remaining, km, now>>

\* No candidate: BACKEND_BUSY ends the creation.
BackendBusy(o) ==
    /\ pc[o] = "prune"
    /\ \A p \in Gathered :
          ~IsCandidate({PruningInfo(q) : q \in Gathered}, PruningInfo(p),
                       OwnerOf[o], o \in Forced, now)
    /\ GiveUp(o)
    /\ UNCHANGED <<cand, held, km>>

\* Phase 3: OperationDb::get by index. A dead slot means a slot was freed.
PruneGet(o) ==
    /\ pc[o] = "get"
    /\ LET p == slots[cand[o].index]
       IN IF Alive(p)
          THEN Goto(o, "try") /\ held' = [held EXCEPT ![o] = p]
          ELSE Goto(o, "begin") /\ UNCHANGED held
    /\ UNCHANGED <<outcome, lastUsage, index, slots, cand, reserved, inFlight,
                   keyLock, live, remaining, km, now>>

\* Mutants of MayPrune, each without one of the checks.
MutPruneBusy(o, p) == outcome[p] = "Unknown" /\ lastUsage[p] = cand[o].last_usage

MutPruneFinalized(o, p) == ~OutcomeLocked(p) /\ lastUsage[p] = cand[o].last_usage

MutPruneTouched(o, p) == ~OutcomeLocked(p) /\ outcome[p] = "Unknown"

\* Operation::prune may finalize p: not in use, still active, not touched.
MayPrune(o, p) ==
    /\ ~OutcomeLocked(p)
    /\ outcome[p] = "Unknown"
    /\ lastUsage[p] = cand[o].last_usage

\* OPERATION_BUSY and INVALID_OPERATION_HANDLE both send the caller back to
\* begin; the upgraded reference goes away and may have been the last one.
PruneMisses(o) ==
    /\ pc[o] = "try"
    /\ ~MayPrune(o, held[o])
    /\ held' = [held EXCEPT ![o] = None]
    /\ Goto(o, "begin")
    /\ IF pc[held[o]] \in Client \/ \E q \in Ops \ {o} : held[q] = held[o]
       THEN KeepUsage /\ UNCHANGED <<outcome, km>>
       ELSE DropOperation(held[o])
    /\ UNCHANGED <<lastUsage, index, slots, cand, keyLock, live, remaining, now>>

PruneSets(o) ==
    /\ pc[o] = "try"
    /\ MayPrune(o, held[o])
    /\ SetOutcome(held[o], "Pruned")
    /\ Goto(o, "pruning")
    /\ UNCHANGED <<lastUsage, index, slots, cand, held, reserved, inFlight,
                   keyLock, live, remaining, km, now>>

\* Mutant of PruneAborts: the reservation is kept.
MutPruneKeepsUse(o) ==
    /\ pc[o] = "pruning"
    /\ km' = km \ {held[o]}
    /\ held' = [held EXCEPT ![o] = None]
    /\ Goto(o, "begin")
    /\ UNCHANGED <<outcome, lastUsage, index, slots, cand, reserved, inFlight,
                   keyLock, live, remaining, now>>

\* The pruned operation's slot in the TA and its reservation are given back.
PruneAborts(o) ==
    /\ pc[o] = "pruning"
    /\ km' = km \ {held[o]}
    /\ ReleaseUsage(held[o])
    /\ held' = [held EXCEPT ![o] = None]
    /\ Goto(o, "begin")
    /\ UNCHANGED <<outcome, lastUsage, index, slots, cand, keyLock, live, remaining, now>>
-----------------------------------------------------------------------------
(***************************************************************************)
(* Client calls on an open operation.  check_active blocks while a pruning *)
(* thread holds the outcome mutex.                                         *)
(***************************************************************************)
Ready(o) == pc[o] = "open" /\ ~LockedByPruner(o)

Touch(o) == lastUsage' = [lastUsage EXCEPT ![o] = now + 1] /\ now' = now + 1

\* update, updateAad, finish or abort of a finalized operation: an error, and
\* the proxy lets go.
CallFinalized(o) ==
    /\ Ready(o) /\ outcome[o] # "Unknown"
    /\ LetGo(o)
    /\ UNCHANGED <<lastUsage, index, slots, cand, held, keyLock, live, remaining, now>>

\* update, updateAad or finish fail before KeyMint is called: too much data, or
\* no auth token yet. The operation is not finalized but dropped.
CallRefused(o) ==
    /\ Ready(o) /\ outcome[o] = "Unknown"
    /\ LetGo(o)
    /\ UNCHANGED <<lastUsage, index, slots, cand, held, keyLock, live, remaining, now>>

\* update and updateAad, up to the call of KeyMint.
Update(o) ==
    /\ Ready(o) /\ outcome[o] = "Unknown"
    /\ now < MaxTouch
    /\ Touch(o)
    /\ Goto(o, "update")
    /\ UNCHANGED <<outcome, index, slots, cand, held, reserved, inFlight,
                   keyLock, live, remaining, km>>

UpdateReturns(o) ==
    /\ pc[o] = "update"
    /\ Goto(o, "open")
    /\ UNCHANGED <<outcome, lastUsage, index, slots, cand, held, reserved,
                   inFlight, keyLock, live, remaining, km, now>>

\* KeyMint fails the update: update_outcome finalizes. The TA destroys its
\* operation when the work fails, but not when the auth check before it fails.
UpdateFails(o) ==
    /\ pc[o] = "update"
    /\ SetOutcome(o, "ErrorCode")
    /\ ReleaseUsage(o)
    /\ Goto(o, "done")
    /\ \/ km' = km \ {o}
       \/ o \in AuthPerUse /\ UNCHANGED km
    /\ UNCHANGED <<lastUsage, index, slots, cand, held, keyLock, live, remaining, now>>

Finish(o) ==
    /\ Ready(o) /\ outcome[o] = "Unknown"
    /\ Touch(o)
    /\ Goto(o, "finish")
    /\ UNCHANGED <<outcome, index, slots, cand, held, reserved, inFlight,
                   keyLock, live, remaining, km>>

\* IKeyMintOperation::finish frees the TA slot whatever it answers.
FinishKm(o) ==
    /\ pc[o] = "finish"
    /\ km' = km \ {o}
    /\ \/ Goto(o, "commit") /\ KeepUsage /\ UNCHANGED outcome
       \/ Goto(o, "done") /\ ReleaseUsage(o) /\ SetOutcome(o, "ErrorCode")
    /\ UNCHANGED <<lastUsage, index, slots, cand, held, keyLock, live, remaining, now>>

\* check_and_update_key_usage_count: the last use removes the key.
ConsumeUse(k) ==
    /\ remaining' = [remaining EXCEPT ![k] = @ - 1]
    /\ live' = IF remaining[k] = 1 THEN live \ {k} ELSE live

\* Mutant of Commit: a failed transaction does not stop the output.
MutCommitIgnoresError(o) ==
    /\ pc[o] = "commit"
    /\ ReleaseUsage(o)
    /\ Goto(o, "committed")
    /\ \/ reserved[o] /\ KeyOf[o] \in live /\ ConsumeUse(KeyOf[o])
       \/ UNCHANGED <<live, remaining>>
    /\ UNCHANGED <<outcome, lastUsage, index, slots, cand, held, keyLock, km, now>>

\* after_finish: KeyUsageReservation::commit decrements the durable count and
\* gives the slot back in one critical section; the transaction may fail.
Commit(o) ==
    /\ pc[o] = "commit"
    /\ \/ /\ ~reserved[o]
          /\ Goto(o, "committed")
          /\ KeepUsage /\ UNCHANGED <<live, remaining, outcome>>
       \/ /\ reserved[o] /\ KeyOf[o] \in live /\ remaining[KeyOf[o]] > 0
          /\ ConsumeUse(KeyOf[o])
          /\ ReleaseUsage(o)
          /\ Goto(o, "committed")
          /\ UNCHANGED outcome
       \/ /\ reserved[o]
          /\ ReleaseUsage(o)
          /\ SetOutcome(o, "ErrorCode")
          /\ Goto(o, "done")
          /\ UNCHANGED <<live, remaining>>
    /\ UNCHANGED <<lastUsage, index, slots, cand, held, keyLock, km, now>>

\* finish returns its output to the client.
FinishReturns(o) ==
    /\ pc[o] = "committed"
    /\ SetOutcome(o, "Success")
    /\ Goto(o, "done")
    /\ UNCHANGED <<lastUsage, index, slots, cand, held, reserved, inFlight,
                   keyLock, live, remaining, km, now>>

\* abort: the outcome and the reservation first, then KeyMint.
Abort(o) ==
    /\ Ready(o) /\ outcome[o] = "Unknown"
    /\ SetOutcome(o, "Abort")
    /\ ReleaseUsage(o)
    /\ Goto(o, "abort")
    /\ UNCHANGED <<lastUsage, index, slots, cand, held, keyLock, live, remaining, km, now>>

AbortKm(o) ==
    /\ pc[o] = "abort"
    /\ km' = km \ {o}
    /\ Goto(o, "done")
    /\ UNCHANGED <<outcome, lastUsage, index, slots, cand, held, reserved,
                   inFlight, keyLock, live, remaining, now>>

\* The client deletes its binder.
ClientDrops(o) ==
    /\ pc[o] = "open"
    /\ LetGo(o)
    /\ UNCHANGED <<lastUsage, index, slots, cand, held, keyLock, live, remaining, now>>
-----------------------------------------------------------------------------
(***************************************************************************)
(* import_wrapped_key keeps the guard of the wrapping key to its end.      *)
(***************************************************************************)
ImportKm(o) ==
    /\ pc[o] = "import"
    /\ Goto(o, "store")
    /\ UNCHANGED <<outcome, lastUsage, index, slots, cand, held, reserved,
                   inFlight, keyLock, live, remaining, km, now>>

ImportFails(o) ==
    /\ pc[o] = "import"
    /\ GiveUp(o)
    /\ UNCHANGED <<cand, held, km>>

\* store_new_key consumes the wrapping key's use in its own transaction.
ImportStores(o) ==
    /\ pc[o] = "store"
    /\ \/ /\ ~reserved[o]
          /\ SetOutcome(o, "Success")
          /\ UNCHANGED <<live, remaining>>
       \/ /\ reserved[o] /\ KeyOf[o] \in live /\ remaining[KeyOf[o]] > 0
          /\ ConsumeUse(KeyOf[o])
          /\ SetOutcome(o, "Success")
       \/ UNCHANGED <<outcome, live, remaining>>
    /\ ReleaseUsage(o)
    /\ Unlock(o)
    /\ Goto(o, "done")
    /\ UNCHANGED <<lastUsage, index, slots, cand, held, km, now>>
-----------------------------------------------------------------------------
(***************************************************************************)
(* The environment.                                                        *)
(***************************************************************************)

\* unbind_key needs no guard: it may delete the key of a running operation.
UnbindKey(k) ==
    /\ k \in live
    /\ live' = live \ {k}
    /\ UNCHANGED <<pc, outcome, lastUsage, index, slots, cand, held, reserved,
                   inFlight, keyLock, remaining, km, now>>

\* Time passes, as far as it makes an operation older.
Tick ==
    /\ \E o \in Ops : Alive(o)
    /\ now + 5 <= MaxTime
    /\ now' = now + 5
    /\ UNCHANGED <<pc, outcome, lastUsage, index, slots, cand, held, reserved,
                   inFlight, keyLock, live, remaining, km>>

\* The process dies, and the in-process TA with it; the database survives.
Crash ==
    /\ \E o \in Ops : pc[o] \notin {"idle", "done"}
    /\ pc' = [o \in Ops |-> IF pc[o] = "idle" THEN "idle" ELSE "done"]
    /\ slots' = <<>>
    /\ cand' = [o \in Ops |-> NoCand]
    /\ held' = [o \in Ops |-> None]
    /\ reserved' = [o \in Ops |-> FALSE]
    /\ inFlight' = [k \in Keys |-> 0]
    /\ keyLock' = [k \in Keys |-> None]
    /\ km' = {}
    /\ UNCHANGED <<outcome, lastUsage, index, live, remaining, now>>

\* Every operation of the bounded pool has been used up.
Finished ==
    /\ \A o \in Ops : pc[o] = "done"
    /\ UNCHANGED vars
-----------------------------------------------------------------------------
\* Steps of the service's own threads, and calls a client may or may not make.
ThreadStep(o) ==
    \/ Reserve(o) \/ NotAuthorized(o)
    \/ Begin(o) \/ BeginFails(o) \/ ReencryptFails(o) \/ CreateOperation(o)
    \/ PruneChoose(o) \/ BackendBusy(o) \/ PruneGet(o)
    \/ PruneMisses(o) \/ PruneSets(o) \/ PruneAborts(o)
    \/ UpdateReturns(o) \/ UpdateFails(o) \/ FinishKm(o) \/ Commit(o)
    \/ FinishReturns(o) \/ AbortKm(o)
    \/ ImportKm(o) \/ ImportFails(o) \/ ImportStores(o)

ClientStep(o) ==
    \/ LoadKey(o)
    \/ CallFinalized(o) \/ CallRefused(o) \/ Update(o) \/ Finish(o)
    \/ Abort(o) \/ ClientDrops(o)

Next ==
    \/ \E o \in Ops : ThreadStep(o) \/ ClientStep(o)
    \/ \E k \in Keys : UnbindKey(k)
    \/ Tick \/ Crash \/ Finished

Spec == Init /\ [][Next]_vars
-----------------------------------------------------------------------------
(***************************************************************************)
(* Properties.                                                             *)
(***************************************************************************)

\* Every variable stays in its type.
TypeOK ==
    /\ pc \in [Ops -> PCs]
    /\ outcome \in [Ops -> Outcomes]
    /\ lastUsage \in [Ops -> Nat]
    /\ index \in [Ops -> Nat]
    /\ slots \in Seq(Ops)
    /\ cand \in [Ops -> [op : Ops \cup {None}, index : Nat, last_usage : Nat]]
    /\ held \in [Ops -> Ops \cup {None}]
    /\ reserved \in [Ops -> BOOLEAN]
    /\ inFlight \in [Keys -> Nat]
    /\ keyLock \in [Keys -> Ops \cup {None}]
    /\ live \subseteq Keys
    /\ remaining \in [Keys -> Nat]
    /\ km \subseteq Ops
    /\ now \in Nat

ReservedOn(k) == {o \in Ops : reserved[o] /\ KeyOf[o] = k}

\* The shared table of reservations agrees with the reservations the threads
\* own: no path through prune, drop, abort, error or commit gives a slot back
\* twice or forgets to (KeyUsageReservation::remove_slot).
ReservationsCounted == \A k \in Keys : inFlight[k] = Cardinality(ReservedOn(k))

\* A limited-use key never has more reservations than durable uses left, so
\* that no operation that was let in finds the key used up when it commits
\* (KeyUsageReservations::reserve against commit).
NoOversubscription ==
    \A k \in live \cap Limited : inFlight[k] <= remaining[k]

UsesOf(k) == {o \in Ops : KeyOf[o] = k /\ (outcome[o] = "Success" \/ pc[o] = "committed")}

\* Over any interleaving of finishes, prunes, imports, deletions and crashes a
\* limited-use key yields at most its limit of results: what was handed out and
\* what is still in the database never exceed it.
UsageLimitKept ==
    \A k \in Limited : Cardinality(UsesOf(k)) + remaining[k] <= Limit[k]

\* A reservation does not outlive its operation: its owner is still being
\* created or imported, or is alive and not finalized, or is just being pruned.
NoReservationLeak ==
    \A o \in Ops : reserved[o] =>
        \/ pc[o] \in (Creating \cup Importing) \ {"loaded"}
        \/ Alive(o) /\ (outcome[o] = "Unknown" \/ LockedByPruner(o))

\* While a client call is inside KeyMint or the database nobody finalizes its
\* operation (the outcome mutex against the try_lock of prune).
CallsOnActiveOnly ==
    \A o \in Ops : pc[o] \in InCall \ {"abort"} => outcome[o] = "Unknown"

\* The operation that gets pruned is the one that was scored, and unused since:
\* neither the reuse of its slot by a new operation nor a touch between the
\* phases makes prune() abort an operation it did not choose.
PruneHitsScored ==
    \A o \in Ops : pc[o] = "pruning" =>
        /\ held[o] = cand[o].op
        /\ lastUsage[held[o]] = cand[o].last_usage

\* Operations that may rely on a slot in the TA.
UsesSlot(o) ==
    \/ pc[o] \in {"begun", "abort"}
    \/ LockedByPruner(o)
    \/ Alive(o) /\ outcome[o] = "Unknown" /\ pc[o] \notin {"commit", "committed"}

\* A slot that only an operation with an auth token per call, or one whose blob
\* is re-encrypted, may leave behind (DroppedEndsKeyMint).
Leaked(o) == pc[o] = "done" /\ (o \in AuthPerUse \/ KeyOf[o] \in Reencrypt)

\* The TA's table holds every operation that keystore still has, and no other
\* but the leaked ones: no slot is lost to a race of drop, prune and abort, and
\* none is freed under an operation in use.
SlotsAccountedFor ==
    \A o \in Ops : /\ UsesSlot(o) => o \in km
                   /\ o \in km => UsesSlot(o) \/ Leaked(o)

\* "We give up our reference to the Operation, thereby freeing up our internal
\* resources and ending the wrapped KeyMint operation."
DroppedEndsKeyMint ==
    \A o \in Ops : pc[o] = "done" /\ ~Alive(o) => o \notin km

\* "They transition to one of the other variants exactly once."
OutcomeOnce ==
    [][\A o \in Ops : outcome[o] # "Unknown" => outcome'[o] = outcome[o]]_vars
=============================================================================
