----------------------------- MODULE BeginLoop -----------------------------
(***************************************************************************)
(* The loop over begin and prune in create_operation                       *)
(* (src/src/keymaster/security_level.rs), which runs with the key id guard *)
(* held, against clients that go on creating, touching, finishing and      *)
(* dropping operations for ever.  KeystoreOperations models the same code  *)
(* for a bounded clock and operations that are used once; here neither is  *)
(* bounded:                                                                *)
(*   - a client has one operation at a time and makes the next one when    *)
(*     the last reference to the old one is gone;                          *)
(*   - there is no clock.  All that a pruning thread compares is whether   *)
(*     the last_usage of the operation at its candidate's index is still   *)
(*     the one it gathered, and all that ages decide is which operation is *)
(*     the candidate: here any gathered one may be.                        *)
(* Left out, as KeystoreOperations has them and they do not loop: usage    *)
(* reservations, imports, deleted keys and crashes.                        *)
(***************************************************************************)
EXTENDS Naturals, FiniteSets

CONSTANTS
    Clients,  \* binder threads, each with one operation at a time
    None,     \* no client
    OwnerOf,  \* [Clients -> uids]
    Keys,     \* key entry ids
    NoKey,    \* the key of a Domain::BLOB operation
    KeyOf,    \* [Clients -> Keys \cup {NoKey}]
    KmSlots   \* size of the TA's operation table

LoopAssumption ==
    /\ IsFiniteSet(Clients) /\ None \notin Clients
    /\ DOMAIN OwnerOf = Clients
    /\ NoKey \notin Keys
    /\ KeyOf \in [Clients -> Keys \cup {NoKey}]
    /\ KmSlots \in Nat \ {0}

VARIABLES
    pc,       \* where the thread of a client is: idle, in create_operation
              \* (loaded ... begun), in a call (InCall), or between calls on
              \* an open operation; gone: only a pruning thread has it
    active,   \* clients whose operation has the outcome Unknown
    slots,    \* OperationDb.operations: whose operation is at an index
    cand,     \* the index of the candidate of a pruning thread, 0 for none
    same,     \* threads for which last_usage at that index is as gathered
    held,     \* the strong reference of a pruning thread
    keyLock,  \* KEY_ID_LOCK: the thread that holds the guard of a key
    km,       \* clients whose operation occupies a slot of the TA
    leaked    \* slots of the TA that nobody refers to any more

vars == <<pc, active, slots, cand, same, held, keyLock, km, leaked>>
-----------------------------------------------------------------------------
InCall == {"update", "finish", "commit", "abort"}

\* As many indices as there can be living operations.
Indices == 1..Cardinality(Clients)

IndexOf(c) == CHOOSE i \in Indices : slots[i] = c

Init ==
    /\ pc = [c \in Clients |-> "idle"]
    /\ active = {}
    /\ slots = [i \in Indices |-> None]
    /\ cand = [c \in Clients |-> 0]
    /\ same = {}
    /\ held = [c \in Clients |-> None]
    /\ keyLock = [k \in Keys |-> None]
    /\ km = {}
    /\ leaked = 0

Goto(c, l) == pc' = [pc EXCEPT ![c] = l]

\* Drop of the KeyIdGuard.
Unlock(c) == keyLock' = [k \in Keys |-> IF keyLock[k] = c THEN None ELSE keyLock[k]]

\* TOO_MANY_OPERATIONS.
Full == Cardinality(km) + leaked >= KmSlots

\* The outcome mutex of the operation of c is taken.
LockedByPruner(c) == \E q \in Clients : pc[q] = "pruning" /\ held[q] = c
OutcomeLocked(c) == pc[c] \in InCall \/ LockedByPruner(c)

\* The weak reference to the operation of c is dead.
Vacated(c) == [i \in Indices |-> IF slots[i] = c THEN None ELSE slots[i]]

\* The proxy of c lets go; a pruning thread may keep the operation alive.
\* Otherwise Drop aborts it if it is active.
LetGo(c) ==
    IF \E q \in Clients : held[q] = c
    THEN Goto(c, "gone") /\ UNCHANGED <<active, slots, km>>
    ELSE /\ Goto(c, "idle")
         /\ active' = active \ {c}
         /\ slots' = Vacated(c)
         /\ km' = IF c \in active THEN km \ {c} ELSE km

\* The same when the call finalized the operation before.
LetGoFinalized(c) ==
    /\ active' = active \ {c}
    /\ IF \E q \in Clients : held[q] = c
       THEN Goto(c, "gone") /\ UNCHANGED slots
       ELSE Goto(c, "idle") /\ slots' = Vacated(c)

\* last_usage is set: no thread that gathered the old value prunes this index.
Touch(i) == same' = {q \in same : cand[q] # i}
-----------------------------------------------------------------------------
(***************************************************************************)
(* create_operation.                                                       *)
(***************************************************************************)
LoadKey(c) ==
    /\ pc[c] = "idle"
    /\ KeyOf[c] # NoKey => keyLock[KeyOf[c]] = None
    /\ keyLock' = [k \in Keys |-> IF k = KeyOf[c] THEN c ELSE keyLock[k]]
    /\ Goto(c, "loaded")
    /\ UNCHANGED <<active, slots, cand, same, held, km, leaked>>

\* authorize_create lets the call pass or ends it.
Authorize(c) ==
    /\ pc[c] = "loaded"
    /\ \/ Goto(c, "begin") /\ UNCHANGED keyLock
       \/ Goto(c, "idle") /\ Unlock(c)
    /\ UNCHANGED <<active, slots, cand, same, held, km, leaked>>

\* IKeyMintDevice::begin; errors other than TOO_MANY_OPERATIONS end the call.
Begin(c) ==
    /\ pc[c] = "begin"
    /\ \/ Full /\ Goto(c, "prune") /\ UNCHANGED <<km, keyLock>>
       \/ ~Full /\ Goto(c, "begun") /\ km' = km \cup {c} /\ UNCHANGED keyLock
       \/ ~Full /\ Goto(c, "idle") /\ Unlock(c) /\ UNCHANGED km
    /\ UNCHANGED <<active, slots, cand, same, held, leaked>>

\* The re-encrypted blob cannot be stored: the begin result is dropped and the
\* slot of the TA stays taken.
ReencryptFails(c) ==
    /\ pc[c] = "begun"
    /\ km' = km \ {c} /\ leaked' = leaked + 1
    /\ Goto(c, "idle") /\ Unlock(c)
    /\ UNCHANGED <<active, slots, cand, same, held>>

\* OperationDb::create_operation takes the first dead slot.
CreateOperation(c) ==
    /\ pc[c] = "begun"
    /\ LET i == CHOOSE j \in Indices : /\ slots[j] = None
                                       /\ \A h \in 1..(j - 1) : slots[h] # None
       IN slots' = [slots EXCEPT ![i] = c] /\ Touch(i)
    /\ active' = active \cup {c}
    /\ Goto(c, "open") /\ Unlock(c)
    /\ UNCHANGED <<cand, held, km, leaked>>
-----------------------------------------------------------------------------
(***************************************************************************)
(* OperationDb::prune, run by the creating thread c.                       *)
(***************************************************************************)

\* get_pruning_info: finalized operations do not count, busy ones do.
Gathered == {p \in Clients : (\E i \in Indices : slots[i] = p)
                             /\ (OutcomeLocked(p) \/ p \in active)}

PruneChoose(c) ==
    /\ pc[c] = "prune"
    /\ \E p \in Gathered : cand' = [cand EXCEPT ![c] = IndexOf(p)]
    /\ same' = same \cup {c}
    /\ Goto(c, "get")
    /\ UNCHANGED <<active, slots, held, keyLock, km, leaked>>

\* Mutant of BackendBusy: without a candidate, try again.
MutPruneForever(c) ==
    /\ pc[c] = "prune"
    /\ \A p \in Gathered : OwnerOf[p] # OwnerOf[c]
    /\ Goto(c, "begin")
    /\ UNCHANGED <<active, slots, cand, same, held, keyLock, km, leaked>>

\* No candidate, which a gathered operation of the caller itself would be:
\* BACKEND_BUSY ends the creation.
BackendBusy(c) ==
    /\ pc[c] = "prune"
    /\ \A p \in Gathered : OwnerOf[p] # OwnerOf[c]
    /\ Goto(c, "idle") /\ Unlock(c)
    /\ UNCHANGED <<active, slots, cand, same, held, km, leaked>>

\* OperationDb::get by index. A dead slot means a slot was freed.
PruneGet(c) ==
    /\ pc[c] = "get"
    /\ held' = [held EXCEPT ![c] = slots[cand[c]]]
    /\ IF slots[cand[c]] # None
       THEN Goto(c, "try") /\ UNCHANGED <<cand, same>>
       ELSE /\ Goto(c, "begin")
            /\ cand' = [cand EXCEPT ![c] = 0] /\ same' = same \ {c}
    /\ UNCHANGED <<active, slots, keyLock, km, leaked>>

\* Operation::prune may finalize p: not in use, still active, not touched.
MayPrune(c, p) == ~OutcomeLocked(p) /\ p \in active /\ c \in same

PruneSets(c) ==
    /\ pc[c] = "try" /\ MayPrune(c, held[c])
    /\ active' = active \ {held[c]}
    /\ Goto(c, "pruning")
    /\ UNCHANGED <<slots, cand, same, held, keyLock, km, leaked>>

\* The upgraded reference of c to p goes away and c tries to begin again; it may
\* have been the last reference.
PutBack(c, p) ==
    /\ held' = [held EXCEPT ![c] = None]
    /\ cand' = [cand EXCEPT ![c] = 0] /\ same' = same \ {c}
    /\ IF pc[p] = "gone" /\ \A q \in Clients \ {c} : held[q] # p
       THEN /\ pc' = [pc EXCEPT ![c] = "begin", ![p] = "idle"]
            /\ slots' = Vacated(p)
            /\ active' = active \ {p}
       ELSE Goto(c, "begin") /\ UNCHANGED <<slots, active>>
    /\ UNCHANGED <<keyLock, leaked>>

\* OPERATION_BUSY and INVALID_OPERATION_HANDLE; an active operation that loses
\* its last reference here is aborted by Drop.
PruneMisses(c) ==
    /\ pc[c] = "try" /\ ~MayPrune(c, held[c])
    /\ PutBack(c, held[c])
    /\ km' = km \ (active \ active')

PruneAborts(c) ==
    /\ pc[c] = "pruning"
    /\ PutBack(c, held[c])
    /\ km' = km \ {held[c]}
-----------------------------------------------------------------------------
(***************************************************************************)
(* Client calls on an open operation.                                      *)
(***************************************************************************)
Ready(c) == pc[c] = "open" /\ ~LockedByPruner(c)

\* A call on a finalized operation, a call that is refused before KeyMint is
\* called, or a client that deletes its binder.
Drops(c) ==
    /\ pc[c] = "open"
    /\ LetGo(c)
    /\ UNCHANGED <<cand, same, held, keyLock, leaked>>

\* update and updateAad up to the call of KeyMint.
Update(c) ==
    /\ Ready(c) /\ c \in active
    /\ Goto(c, "update") /\ Touch(IndexOf(c))
    /\ UNCHANGED <<active, slots, cand, held, keyLock, km, leaked>>

UpdateReturns(c) ==
    /\ pc[c] = "update"
    /\ Goto(c, "open")
    /\ UNCHANGED <<active, slots, cand, same, held, keyLock, km, leaked>>

\* KeyMint fails the update; when its auth check failed the TA keeps the slot.
UpdateFails(c) ==
    /\ pc[c] = "update"
    /\ LetGoFinalized(c)
    /\ km' = km \ {c}
    /\ leaked' \in {leaked, leaked + 1}
    /\ UNCHANGED <<cand, same, held, keyLock>>

Finish(c) ==
    /\ Ready(c) /\ c \in active
    /\ Goto(c, "finish") /\ Touch(IndexOf(c))
    /\ UNCHANGED <<active, slots, cand, held, keyLock, km, leaked>>

\* The slot of the TA is freed before the result is committed.
FinishKm(c) ==
    /\ pc[c] = "finish"
    /\ Goto(c, "commit") /\ km' = km \ {c}
    /\ UNCHANGED <<active, slots, cand, same, held, keyLock, leaked>>

FinishReturns(c) ==
    /\ pc[c] = "commit"
    /\ LetGoFinalized(c)
    /\ UNCHANGED <<cand, same, held, keyLock, km, leaked>>

\* abort: the outcome first, then KeyMint.
Abort(c) ==
    /\ Ready(c) /\ c \in active
    /\ active' = active \ {c} /\ Goto(c, "abort")
    /\ UNCHANGED <<slots, cand, same, held, keyLock, km, leaked>>

AbortKm(c) ==
    /\ pc[c] = "abort"
    /\ LetGoFinalized(c) /\ km' = km \ {c}
    /\ UNCHANGED <<cand, same, held, keyLock, leaked>>
-----------------------------------------------------------------------------
ThreadStep(c) ==
    \/ Authorize(c) \/ Begin(c) \/ ReencryptFails(c) \/ CreateOperation(c)
    \/ PruneChoose(c) \/ BackendBusy(c) \/ PruneGet(c)
    \/ PruneMisses(c) \/ PruneSets(c) \/ PruneAborts(c)
    \/ UpdateReturns(c) \/ UpdateFails(c)
    \/ FinishKm(c) \/ FinishReturns(c) \/ AbortKm(c)

ClientStep(c) ==
    LoadKey(c) \/ Drops(c) \/ Update(c) \/ Finish(c) \/ Abort(c)

Next == \E c \in Clients : ThreadStep(c) \/ ClientStep(c)

\* A thread inside a call keeps running; clients owe nobody a call.
Spec == Init /\ [][Next]_vars /\ \A c \in Clients : WF_vars(ThreadStep(c))
-----------------------------------------------------------------------------
(***************************************************************************)
(* Properties.                                                             *)
(***************************************************************************)

\* An operation was created, or an update was answered.
Served == \E c \in Clients : CreateOperation(c) \/ UpdateReturns(c)

\* The begin/prune loop keeps the guard of a key for ever only while other
\* clients are served again and again ("facilitating system wide progress"):
\* once updates and creations cease every thread lets its guard go, whichever
\* operation the ages make its candidate and however often it finds it busy,
\* finalized, dropped or replaced.  That the guard is let go however long the
\* others go on is not claimed, and the code does not do it.
GuardReleased ==
    \A k \in Keys : \/ keyLock[k] # None ~> keyLock[k] = None
                    \/ []<><<Served>>_vars
=============================================================================
