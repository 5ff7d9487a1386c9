----------------------------- MODULE SuperKeys -----------------------------
(***************************************************************************)
(* The super keys of a user: SuperKeyManager, the lock-state               *)
(* notifications that lock and unlock its keys (DeviceLockState), the      *)
(* maintenance calls that create and drop them, and the clients whose key  *)
(* blobs are encrypted with them.                                          *)
(*                                                                         *)
(* A super key is the id of its database row; the bytes are in memory      *)
(* while some Arc<SuperKey> lives.  `key_index' maps an id to a Weak       *)
(* reference, so a key that a blob in use still holds can be looked up     *)
(* although the manager has dropped it.                                    *)
(*                                                                         *)
(* The manager is behind one RwLock and every method below runs under it,  *)
(* so a method is one step.  The two halves of a lock-state notification   *)
(* (ENFORCEMENTS.set_device_locked and the manager's call) are two steps.  *)
(***************************************************************************)
EXTENDS Naturals, FiniteSets, TLC

CONSTANTS
    Users,       \* Android users
    Passwords,   \* passwords a notification or a maintenance call may carry
    Sids,        \* secure ids of the enrolled class 3 biometrics
    Threads,     \* binder threads that deliver lock-state notifications
    Serial,      \* system_server delivers its notifications one at a time
    Clients,     \* binder threads that create and use keys
    Keys,        \* client keys
    Params,      \* Params[k]: the authorizations of k that matter here
    Owner,       \* Owner[k]: the user that k belongs to
    MaxSuper,    \* bound: super key rows ever created
    Faults       \* database and KeyMint calls may fail

SuperAssumption == Owner \in [Keys -> Users]

VARIABLES
    stored,      \* super key rows: stored[u][kind], id 0 for no row
    nextId,      \* next row id
    mem,         \* SkmState.user_keys
    unlocked,    \* Enforcements.device_unlocked_set
    call,        \* what a binder thread is doing with a notification
    blobs,       \* client keys in the database and what encrypts their blob
    client,      \* what a client is doing
    needs        \* history: what must happen before the keys may be in memory

vars == <<stored, nextId, mem, unlocked, call, blobs, client, needs>>

Kinds == {"ce", "sym", "priv"}
NoRow == [id |-> 0, pw |-> "-"]
NoBio == [sids |-> {}, sym |-> 0, priv |-> 0]
NoKeys == [ce |-> 0, sym |-> 0, priv |-> 0, bio |-> NoBio]
NoBlob == [enc |-> "absent", id |-> 0, raced |-> FALSE]
Idle == [at |-> "idle"]

Init ==
    /\ stored = [u \in Users |-> [x \in Kinds |-> NoRow]]
    /\ nextId = 1
    /\ mem = [u \in Users |-> NoKeys]
    /\ unlocked = {}
    /\ call = [t \in Threads |-> Idle]
    /\ blobs = [k \in Keys |-> NoBlob]
    /\ client = [c \in Clients |-> Idle]
    /\ needs = [u \in Users |-> "password"]

(***************************************************************************)
(* What encrypts a new blob: the tag of the highest priority decides.      *)
(***************************************************************************)
super_encryption_required(p) ==
    IF p.flag THEN "none"
    ELSE IF p.bootLevel THEN "boot"
    ELSE IF p.unlockedDevice /\ p.app THEN "udr"
    ELSE IF p.sid /\ p.app THEN "ce"
    ELSE "none"

(***************************************************************************)
(* lookup_key: the Weak reference of key_index upgrades while the Arc it   *)
(* was made from lives, in the manager or in a client's KeyBlob.           *)
(***************************************************************************)
HeldByClient(id) == \E c \in Clients : client[c].at = "using" /\ client[c].holds = id
                                         /\ client[c].indexed

lookup_key(id) ==
    \/ \E u \in Users : id \in {mem[u].ce, mem[u].sym, mem[u].priv} \ {0}
    \/ HeldByClient(id)

\* A key that was decrypted again has a new Arc, and key_index points to that
\* one: the Arc a client still holds from before is no longer found.
add_key_to_key_index(fresh) ==
    client' = [c \in Clients |->
        IF client[c].at = "using" /\ client[c].holds \in fresh
        THEN [client[c] EXCEPT !.indexed = FALSE]
        ELSE client[c]]

-----------------------------------------------------------------------------
(***************************************************************************)
(* The manager's methods as functions of a user's state                    *)
(*   s = [ok, stored, mem, next, fresh]                                    *)
(* where fresh is the set of ids whose key was decrypted or generated.     *)
(***************************************************************************)
State(u) == [ok |-> TRUE, stored |-> stored[u], mem |-> mem[u], next |-> nextId, fresh |-> {}]

Failed(s) == [s EXCEPT !.ok = FALSE]

create_super_key(s, kind, pw) ==
    [s EXCEPT !.stored[kind] = [id |-> s.next, pw |-> pw],
              !.next = @ + 1,
              !.fresh = @ \union {s.next}]

\* Decrypts the stored key with the password, or creates and stores one.
get_or_create_super_key(s, kind, pw) ==
    IF s.stored[kind].id = 0 THEN create_super_key(s, kind, pw)
    ELSE IF s.stored[kind].pw # pw THEN Failed(s)
    ELSE [s EXCEPT !.fresh = @ \union {s.stored[kind].id}]

\* A key that is in memory is not loaded again; the pair is installed only
\* when both were found (a row made before a failure stays in the database).
unlock_unlocked_device_required_keys(s, pw) ==
    IF s.mem.sym # 0 /\ s.mem.priv # 0 THEN s
    ELSE LET a == IF s.mem.sym # 0 THEN s ELSE get_or_create_super_key(s, "sym", pw)
             b == IF ~a.ok \/ a.mem.priv # 0 THEN a ELSE get_or_create_super_key(a, "priv", pw)
         IN IF ~b.ok THEN [b EXCEPT !.fresh = {}]
            ELSE [b EXCEPT !.mem.sym = b.stored["sym"].id, !.mem.priv = b.stored["priv"].id]

initialize_user(s, pw, allowExisting) ==
    IF s.stored["ce"].id # 0
    THEN IF allowExisting THEN unlock_unlocked_device_required_keys(s, pw) ELSE Failed(s)
    ELSE LET c == create_super_key(s, "ce", pw)
         IN unlock_unlocked_device_required_keys([c EXCEPT !.mem.ce = c.stored["ce"].id], pw)

\* An unlock loads the CredentialEncrypted key unless it is in memory.
unlock_user(s, pw) ==
    IF s.mem.ce # 0 THEN unlock_unlocked_device_required_keys(s, pw)
    ELSE IF s.stored["ce"].pw # pw THEN Failed(s)
    ELSE unlock_unlocked_device_required_keys(
             [s EXCEPT !.mem.ce = s.stored["ce"].id, !.fresh = {s.stored["ce"].id}], pw)

unlock_or_initialize_user(s, pw) ==
    IF s.mem.ce = 0 /\ s.stored["ce"].id = 0 THEN initialize_user(s, pw, TRUE)
    ELSE unlock_user(s, pw)

\* Mutant of wipe_unlocked_device_required_keys: the biometric copy stays.
MutWipe(m, option) ==
    [m EXCEPT !.sym = 0, !.priv = 0]

wipe_unlocked_device_required_keys(m, option) ==
    [m EXCEPT !.sym = 0, !.priv = 0,
              !.bio = IF option = "PlaintextAndBiometric" THEN NoBio ELSE @]

\* The biometric copy is made only of keys that are in memory; when importing
\* its key fails, the copy of an earlier lock stays.
lock_unlocked_device_required_keys(m, sids, weak, imported) ==
    LET bio == IF sids = {} THEN NoBio
               ELSE IF m.sym # 0 /\ m.priv # 0 /\ imported
                    THEN [sids |-> sids, sym |-> m.sym, priv |-> m.priv]
                    ELSE m.bio
        n == [m EXCEPT !.bio = bio]
    IN IF weak THEN n ELSE wipe_unlocked_device_required_keys(n, "PlaintextOnly")

\* Some SID of the copy has a token that the biometric key accepts.
try_unlock_user_with_biometric(s, sid) ==
    IF s.mem.sym # 0 /\ s.mem.priv # 0 THEN s
    ELSE IF sid \notin s.mem.bio.sids THEN s
    ELSE [s EXCEPT !.mem.sym = s.mem.bio.sym, !.mem.priv = s.mem.bio.priv,
                   !.fresh = {s.mem.bio.sym, s.mem.bio.priv}]

\* The database transactions of a method may fail at any of its rows: what
\* committed before stays, the rest is not done.
Outcomes(before, after) ==
    {after} \union
    (IF ~Faults THEN {}
     ELSE {Failed(before)} \union
          {[Failed(before) EXCEPT !.stored = [x \in Kinds |-> IF x \in done THEN after.stored[x]
                                                             ELSE before.stored[x]],
                                  !.next = after.next,
                                  !.mem.ce = IF "ce" \in done THEN after.mem.ce ELSE @,
                                  !.fresh = (IF "ce" \in done THEN {after.mem.ce} ELSE {})
                                                \intersect after.fresh]
             : done \in {{"ce"}, {"ce", "sym"}}})

Apply(u, s) ==
    /\ s.next =< MaxSuper + 1
    /\ stored' = [stored EXCEPT ![u] = s.stored]
    /\ mem' = [mem EXCEPT ![u] = s.mem]
    /\ nextId' = s.next
    /\ add_key_to_key_index(s.fresh)

-----------------------------------------------------------------------------
(***************************************************************************)
(* Lock-state notifications                                                *)
(***************************************************************************)
Free(t) == call[t] = Idle /\ (Serial => \A o \in Threads : call[o] = Idle)

onDeviceUnlocked(t, u, pw) ==
    /\ Free(t)
    /\ unlocked' = unlocked \union {u}
    /\ call' = [call EXCEPT ![t] = [at |-> "unlock", user |-> u, pw |-> pw]]
    /\ UNCHANGED <<stored, nextId, mem, blobs, client, needs>>

\* A notification without a password is the one of a biometric or of a weak
\* unlock method; errors are logged and the call returns.
on_device_unlocked(t) ==
    /\ call[t].at = "unlock"
    /\ LET u == call[t].user
           pw == call[t].pw
       IN \/ /\ pw # "-"
             /\ \E s \in Outcomes(State(u), unlock_or_initialize_user(State(u), pw)) :
                   /\ Apply(u, s)
                   /\ needs' = [needs EXCEPT ![u] = IF s.mem.sym # 0 THEN "nothing" ELSE @]
          \/ /\ pw = "-"
             /\ \E sid \in Sids \union {"-"} :
                   LET s == try_unlock_user_with_biometric(State(u), sid)
                   IN /\ Apply(u, s)
                      /\ needs' = [needs EXCEPT ![u] =
                            IF @ = "biometric" /\ s.mem.sym # 0 THEN "nothing" ELSE @]
    /\ call' = [call EXCEPT ![t] = Idle]
    /\ UNCHANGED <<unlocked, blobs>>

onDeviceLocked(t, u, sids, weak) ==
    /\ Free(t)
    /\ unlocked' = unlocked \ {u}
    /\ call' = [call EXCEPT ![t] = [at |-> "lock", user |-> u, sids |-> sids, weak |-> weak]]
    /\ UNCHANGED <<stored, nextId, mem, blobs, client, needs>>

on_device_locked(t) ==
    /\ call[t].at = "lock"
    /\ \E imported \in {TRUE} \union (IF Faults THEN {FALSE} ELSE {}) :
          LET u == call[t].user
              weak == call[t].weak
              m == lock_unlocked_device_required_keys(mem[u], call[t].sids, weak, imported)
          IN /\ mem' = [mem EXCEPT ![u] = m]
             /\ needs' = [needs EXCEPT ![u] =
                   IF call[t].sids = {} /\ (~weak \/ @ # "nothing") THEN "password"
                   ELSE IF weak \/ @ = "password" THEN @ ELSE "biometric"]
    /\ call' = [call EXCEPT ![t] = Idle]
    /\ UNCHANGED <<stored, nextId, unlocked, blobs, client>>

\* These two and the next only take the manager's lock.
on_weak_unlock_methods_expired(t, u) ==
    /\ Free(t)
    /\ mem' = [mem EXCEPT ![u] = wipe_unlocked_device_required_keys(@, "PlaintextOnly")]
    /\ needs' = [needs EXCEPT ![u] = IF @ = "password" THEN @ ELSE "biometric"]
    /\ UNCHANGED <<stored, nextId, unlocked, call, blobs, client>>

on_non_lskf_unlock_methods_expired(t, u) ==
    /\ Free(t)
    /\ mem' = [mem EXCEPT ![u] = wipe_unlocked_device_required_keys(@, "PlaintextAndBiometric")]
    /\ needs' = [needs EXCEPT ![u] = "password"]
    /\ UNCHANGED <<stored, nextId, unlocked, call, blobs, client>>

\* Mutant of forget_all_keys_for_user: only the biometric copy is dropped.
MutForget(u) == mem' = [mem EXCEPT ![u].bio = NoBio]

forget_all_keys_for_user(u) == mem' = [mem EXCEPT ![u] = NoKeys]

on_user_storage_locked(t, u) ==
    /\ Free(t)
    /\ forget_all_keys_for_user(u)
    /\ needs' = [needs EXCEPT ![u] = "password"]
    /\ UNCHANGED <<stored, nextId, unlocked, call, blobs, client>>

-----------------------------------------------------------------------------
(***************************************************************************)
(* Maintenance                                                             *)
(***************************************************************************)
init_user_super_keys(u, pw, allowExisting) ==
    /\ \E s \in Outcomes(State(u), initialize_user(State(u), pw, allowExisting)) :
          /\ Apply(u, s)
          /\ needs' = [needs EXCEPT ![u] = IF s.mem.sym # 0 THEN "nothing" ELSE @]
    /\ UNCHANGED <<unlocked, call, blobs>>

on_user_password_changed(u, pw) ==
    /\ \E s \in Outcomes(State(u), unlock_or_initialize_user(State(u), pw)) :
          /\ Apply(u, s)
          /\ needs' = [needs EXCEPT ![u] = IF s.mem.sym # 0 THEN "nothing" ELSE @]
    /\ UNCHANGED <<unlocked, call, blobs>>

\* The row of a key in use is deleted: the guard of the key does not prevent it.
RowGone(c, gone) ==
    IF client[c].at = "using" /\ client[c].key \in gone THEN [client[c] EXCEPT !.row = FALSE]
    ELSE client[c]

\* Both drop the super key rows and then what the manager has in memory; a
\* blob that a client encrypted before and has not stored yet is not seen.
Unbind(u, gone) ==
    /\ stored' = [stored EXCEPT ![u] = [x \in Kinds |-> NoRow]]
    /\ blobs' = [k \in Keys |-> IF k \in gone THEN NoBlob ELSE blobs[k]]
    /\ client' = [c \in Clients |->
                    IF client[c].at = "storing" /\ Owner[client[c].key] = u
                    THEN [client[c] EXCEPT !.raced = TRUE] ELSE RowGone(c, gone)]
    /\ forget_all_keys_for_user(u)
    /\ needs' = [needs EXCEPT ![u] = "password"]
    /\ UNCHANGED <<nextId, unlocked, call>>

\* onUserAdded and onUserRemoved.
remove_user(u) == Unbind(u, {k \in Keys : Owner[k] = u /\ Params[k].app})

\* onUserPasswordChanged without a password.
reset_lskf_bound_state(u) ==
    Unbind(u, {k \in Keys : Owner[k] = u /\ Params[k].app
                             /\ (Params[k].sid \/ blobs[k].id # 0)})

on_user_lskf_removed(u) ==
    /\ LET gone == {k \in Keys : Owner[k] = u /\ Params[k].app /\ Params[k].sid}
       IN /\ blobs' = [k \in Keys |-> IF k \in gone THEN NoBlob ELSE blobs[k]]
          /\ client' = [c \in Clients |-> RowGone(c, gone)]
    /\ UNCHANGED <<stored, nextId, mem, unlocked, call, needs>>

-----------------------------------------------------------------------------
(***************************************************************************)
(* Clients                                                                 *)
(***************************************************************************)

\* encrypt_with_hybrid_super_key: the symmetric key, or the public half of the
\* stored ECDH key when the symmetric one is not in memory.
HybridKey(u) == IF mem[u].sym # 0 THEN mem[u].sym ELSE stored[u]["priv"].id

handle_super_encryption_on_key_init(k) ==
    CASE super_encryption_required(Params[k]) = "ce" -> mem[Owner[k]].ce
      [] super_encryption_required(Params[k]) = "udr" -> HybridKey(Owner[k])
      [] OTHER -> 0

\* The key is encrypted under the manager's lock and stored after it, in a row
\* of its own; without a super key the call fails (LOCKED, UNINITIALIZED, no
\* ECDH key).
store_new_key(c, k) ==
    /\ client[c] = Idle
    /\ blobs[k] = NoBlob
    /\ \A d \in Clients : client[d].at = "storing" => client[d].key # k
    /\ LET id == handle_super_encryption_on_key_init(k)
       IN /\ super_encryption_required(Params[k]) \in {"ce", "udr"} => id # 0
          /\ client' = [client EXCEPT ![c] = [at |-> "storing", key |-> k, id |-> id, raced |-> FALSE]]
    /\ UNCHANGED <<stored, nextId, mem, unlocked, call, blobs, needs>>

StoreBlob(c) ==
    /\ client[c].at = "storing"
    /\ blobs' = [blobs EXCEPT ![client[c].key] =
                    [enc |-> "stored", id |-> client[c].id, raced |-> client[c].raced]]
    /\ client' = [client EXCEPT ![c] = Idle]
    /\ UNCHANGED <<stored, nextId, mem, unlocked, call, needs>>

\* create_operation: authorize_create looks at the lock state first, then the
\* blob is unwrapped; a blob of the ECDH key is due to be encrypted again with
\* the symmetric key, which the KeyBlob holds from here on.
unwrap_key_if_required(c, k) ==
    /\ client[c] = Idle
    /\ blobs[k] # NoBlob
    /\ Params[k].unlockedDevice => Owner[k] \in unlocked
    /\ lookup_key(blobs[k].id)
    /\ LET ecdh == blobs[k].id = mem[Owner[k]].priv
           id == IF ecdh THEN mem[Owner[k]].sym ELSE blobs[k].id
       IN client' = [client EXCEPT ![c] = [at |-> "using", key |-> k, holds |-> id,
                                           indexed |-> TRUE, force |-> ecdh, row |-> TRUE]]
    /\ UNCHANGED <<stored, nextId, mem, unlocked, call, blobs, needs>>

\* KeyMint has been called; the blob is written back if it was upgraded or
\* must be encrypted again, and the KeyBlob is dropped.
reencrypt_if_required(c) ==
    /\ client[c].at = "using"
    /\ \E upgraded \in BOOLEAN :
          blobs' = IF (upgraded \/ client[c].force) /\ client[c].row
                   THEN [blobs EXCEPT ![client[c].key].id = client[c].holds]
                   ELSE blobs
    /\ client' = [client EXCEPT ![c] = Idle]
    /\ UNCHANGED <<stored, nextId, mem, unlocked, call, needs>>

\* The process dies: what is in memory is gone, the rows stay.
Restart ==
    /\ mem' = [u \in Users |-> NoKeys]
    /\ unlocked' = {}
    /\ call' = [t \in Threads |-> Idle]
    /\ client' = [c \in Clients |-> Idle]
    /\ needs' = [u \in Users |-> "password"]
    /\ UNCHANGED <<stored, nextId, blobs>>

Next ==
    \/ \E t \in Threads, u \in Users :
          \/ \E pw \in Passwords \union {"-"} : onDeviceUnlocked(t, u, pw)
          \/ \E sids \in SUBSET Sids, weak \in BOOLEAN : onDeviceLocked(t, u, sids, weak)
          \/ on_weak_unlock_methods_expired(t, u)
          \/ on_non_lskf_unlock_methods_expired(t, u)
          \/ on_user_storage_locked(t, u)
    \/ \E t \in Threads : on_device_unlocked(t) \/ on_device_locked(t)
    \/ \E u \in Users :
          \/ \E pw \in Passwords, e \in BOOLEAN : init_user_super_keys(u, pw, e)
          \/ \E pw \in Passwords : on_user_password_changed(u, pw)
          \/ remove_user(u)
          \/ reset_lskf_bound_state(u)
          \/ on_user_lskf_removed(u)
    \/ \E c \in Clients, k \in Keys : store_new_key(c, k) \/ unwrap_key_if_required(c, k)
    \/ \E c \in Clients : StoreBlob(c) \/ reencrypt_if_required(c)
    \/ Restart

Spec == Init /\ [][Next]_vars

-----------------------------------------------------------------------------
(***************************************************************************)
(* Properties                                                              *)
(***************************************************************************)

\* A key that is stored can be read again after a restart: the super key that
\* encrypts its blob is one of its owner's rows, whatever the order of locks,
\* unlocks, failed unlocks, re-encryptions and resets - unless the super keys
\* were dropped between the two halves of store_new_key.
BlobsRecoverable ==
    \A k \in Keys : blobs[k].id # 0 /\ ~blobs[k].raced
        => \E x \in Kinds : stored[Owner[k]][x].id = blobs[k].id

\* After the device was locked, weak methods expired or the user was dropped,
\* the UnlockedDeviceRequired keys are neither in memory nor found through
\* key_index (except while a blob in use holds one), until what the event
\* calls for has happened; where it calls for the password, no copy that a
\* biometric could open is left.
LockHolds ==
    \A u \in Users : needs[u] # "nothing" =>
        /\ mem[u].sym = 0 /\ mem[u].priv = 0
        /\ needs[u] = "password" => mem[u].bio = NoBio
        /\ \A x \in {"sym", "priv"} :
              stored[u][x].id # 0 /\ lookup_key(stored[u][x].id) => HeldByClient(stored[u][x].id)

=============================================================================
