---------------------------- MODULE KeyDatabase -----------------------------
(***************************************************************************)
(* The key database of the keystore service (src/src/keymaster/db.rs), the *)
(* garbage collector of key blobs (gc.rs, global.rs) and the secure        *)
(* deletion slots of the KeyMint TA behind them.                           *)
(*                                                                         *)
(* Every transaction is one step (they are IMMEDIATE and serialized by     *)
(* SQLite); what a thread does between two transactions, with or without a *)
(* KeyIdGuard, is not.  A transaction that needs the collector owes it a   *)
(* notification, sent by the same thread after the commit.  The collector  *)
(* runs as low priority jobs of the AsyncTask, one at a time.              *)
(*                                                                         *)
(* A key blob is the key it belongs to and the count of blobs KeyMint made *)
(* for that key before; a row of blobentry also has the super encryption   *)
(* it is stored under.  The keys are those that have a secure deletion     *)
(* slot: rollback resistant ones and those with a single use.              *)
(***************************************************************************)
EXTENDS Naturals, FiniteSets, FiniteSetsExt

CONSTANTS
    Keys,        \* key entry ids, random and therefore never used twice
    NoKey,
    CertOnly,    \* keys made by store_new_certificate: they have no key blob
    Locked,      \* keys made while the device is locked: ECDH super encryption
    Aliases,     \* (domain, namespace, alias) tuples
    NoAlias,
    Spaces,      \* namespaces, that is uids
    Grantees,    \* the uids that are given grants
    SpaceOf,     \* [Aliases -> Spaces]
    Threads,
    NoThread,
    MaxBlobs,    \* bound: key blobs made for one key
    MaxRows,     \* bound: rows of blobentry at a time
    BatchSize,   \* max_blobs of handle_next_superseded_blobs
    OrphanLimit, \* DB_ORPHAN_LIMIT
    MaxOwed,     \* bound: threads between a commit and its notify_gc
    MaxCrashes   \* bound: restarts of the process

ASSUME DbAssumption ==
    /\ NoKey \notin Keys /\ NoAlias \notin Aliases /\ NoThread \notin Threads
    /\ CertOnly \subseteq Keys /\ Locked \subseteq Keys \ CertOnly
    /\ SpaceOf \in [Aliases -> Spaces] /\ Grantees \subseteq Spaces
    /\ MaxBlobs \in Nat \ {0} /\ MaxRows \in Nat
    /\ BatchSize \in Nat \ {0} /\ OrphanLimit \in Nat
    /\ MaxOwed \in Nat \ {0} /\ MaxCrashes \in Nat

VARIABLES
    entry,     \* keyentry.state, or whether the row is not yet or no longer there
    alias,     \* keyentry.alias with its domain and namespace
    rows,      \* the blobentry table: a function on the ids in use
    grants,    \* the grant table
    made,      \* key blobs KeyMint made so far for a key
    slots,     \* secure deletion slots in use, named by their key blob
    guard,     \* KEY_ID_LOCK
    pc,        \* where a client thread is
    target,    \* the key a thread waits for or holds
    loaded,    \* the key blob it loaded and its super encryption
    owed,      \* transactions committed whose notify_gc is still to come
    notified,  \* Gc.notified
    steps,     \* step jobs in the queue of the AsyncTask
    gc,        \* where the running step is
    batch,     \* GcInternal.superseded_blobs
    deleted,   \* GcInternal.deleted_blob_ids
    boot,      \* BOOT_COMPLETED
    up,        \* DB_INIT: leftovers were cleaned up since the process started
    tried,     \* history: key blobs passed to deleteKey
    crashes

db     == <<entry, alias, rows, grants>>
client == <<guard, pc, target, loaded>>
queue  == <<owed, notified, steps>>
worker == <<gc, batch, deleted>>
vars   == <<db, made, slots, client, queue, worker, boot, up, tried, crashes>>

Blobs == [key : Keys, nr : Nat]
NoBlob == [key |-> NoKey, nr |-> 0]
Nothing == [blob |-> NoBlob, wrap |-> "none"]
Exists(k) == entry[k] \in {"Live", "Unreferenced"}

Init ==
    /\ entry = [k \in Keys |-> "none"]
    /\ alias = [k \in Keys |-> NoAlias]
    /\ rows = [i \in {} |-> NoBlob]
    /\ grants = {}
    /\ made = [k \in Keys |-> 0]
    /\ slots = {}
    /\ guard = [k \in Keys |-> NoThread]
    /\ pc = [t \in Threads |-> "idle"]
    /\ target = [t \in Threads |-> NoKey]
    /\ loaded = [t \in Threads |-> Nothing]
    /\ owed = 0 /\ notified = 0 /\ steps = 0
    /\ gc = "idle" /\ batch = {} /\ deleted = {}
    /\ boot = FALSE /\ up = TRUE
    /\ tried = {} /\ crashes = 0
-----------------------------------------------------------------------------
(***************************************************************************)
(* The statements of the transactions.                                     *)
(***************************************************************************)
IdsOf(rs, k, type) == {i \in DOMAIN rs : rs[i].key = k /\ rs[i].type = type}

\* The rowid SQLite gives a new row: ids of deleted rows may come back.
NextId(rs) == IF DOMAIN rs = {} THEN 1 ELSE Max(DOMAIN rs) + 1

HasRoom(n) == NextId(rows) + n - 1 <= MaxRows

WithState(rs, ids, s) ==
    [i \in DOMAIN rs |-> IF i \in ids THEN [rs[i] EXCEPT !.state = s] ELSE rs[i]]

Without(rs, ids) == [i \in DOMAIN rs \ ids |-> rs[i]]

\* set_blob_internal with Some(blob): supersede, then insert.
SetBlob(rs, k, type, blob, wrap) ==
    LET old == WithState(rs, IdsOf(rs, k, type), "Superseded")
    IN [i \in DOMAIN rs \cup {NextId(rs)} |->
          IF i = NextId(rs)
          THEN [key |-> k, type |-> type, blob |-> blob, wrap |-> wrap, state |-> "Current"]
          ELSE old[i]]

\* load_blob_components: the row with the highest id, whatever its state.
Newest(rs, k, type) == rs[Max(IdsOf(rs, k, type))]

LoadBlob(k) == IF IdsOf(rows, k, "KEY_BLOB") = {} THEN Nothing
               ELSE LET r == Newest(rows, k, "KEY_BLOB") IN [blob |-> r.blob, wrap |-> r.wrap]

\* remove_key_rows for each key of S; gs are the grants to start from.
RemoveKeyRows(S, gs) ==
    /\ entry' = [k \in Keys |-> IF k \in S THEN "gone" ELSE entry[k]]
    /\ alias' = [k \in Keys |-> IF k \in S THEN NoAlias ELSE alias[k]]
    /\ grants' = {g \in gs : g[1] \notin S}
    /\ rows' = WithState(rows, {i \in DOMAIN rows : rows[i].key \in S}, "Orphaned")

\* with_transaction hands the need_gc of a committed transaction to notify_gc.
NeedGc(b) == /\ owed' = IF b THEN owed + 1 ELSE owed
             /\ owed' <= MaxOwed
             /\ UNCHANGED <<notified, steps>>
-----------------------------------------------------------------------------
(***************************************************************************)
(* Transactions that need no guard.                                        *)
(***************************************************************************)

\* The super encryption of a new key.
WrapOf(k) == IF k \in Locked THEN "ecdh" ELSE "aes"

\* Mutant of Occupants: the key that has the alias keeps it.
MutOccupants(a) == {}

\* The keys that rebind_alias takes the alias from.
Occupants(a) == {k \in Keys : Exists(k) /\ alias[k] = a}

\* store_new_key and store_new_certificate: the entry, its blob and the alias
\* in one transaction. KeyMint made the blob before it; no caller passes a
\* superseded blob. The use of a wrapping key that an import consumes in the
\* same transaction is KeystoreOperations!ImportStores.
StoreNewKey(k, a) ==
    /\ up /\ entry[k] = "none" /\ HasRoom(1)
    /\ entry' = [j \in Keys |-> IF j = k THEN "Live"
                                ELSE IF j \in Occupants(a) THEN "Unreferenced" ELSE entry[j]]
    /\ alias' = [j \in Keys |-> IF j = k THEN a
                                ELSE IF j \in Occupants(a) THEN NoAlias ELSE alias[j]]
    /\ IF k \in CertOnly
       THEN /\ rows' = SetBlob(rows, k, "CERT", NoBlob, "none")
            /\ UNCHANGED <<made, slots>>
       ELSE LET b == [key |-> k, nr |-> 1]
            IN /\ rows' = SetBlob(rows, k, "KEY_BLOB", b, WrapOf(k))
               /\ made' = [made EXCEPT ![k] = 1]
               /\ slots' = slots \cup {b}
    /\ NeedGc(Occupants(a) # {})
    /\ UNCHANGED <<grants, client, worker, boot, up, tried, crashes>>

\* unbind_key, the last use of a limited-use key, terminate_uuid, the keys of a
\* replaced keybox, the auth-bound or LSKF-bound keys of a user: live keys are
\* removed whoever holds their guard.
UnbindKeys(S) ==
    /\ up /\ S # {} /\ \A k \in S : entry[k] = "Live"
    /\ RemoveKeyRows(S, grants)
    /\ NeedGc(TRUE)
    /\ UNCHANGED <<made, slots, client, worker, boot, up, tried, crashes>>

InSpace(k, s) == Exists(k) /\ alias[k] # NoAlias /\ SpaceOf[alias[k]] = s

\* unbind_keys_for_user: also the grants the user received.
UnbindUser(s) ==
    /\ up
    /\ LET S == {k \in Keys : InSpace(k, s) /\ entry[k] = "Live"}
       IN RemoveKeyRows(S, {g \in grants : g[2] # s}) /\ NeedGc(S # {})
    /\ UNCHANGED <<made, slots, client, worker, boot, up, tried, crashes>>

\* unbind_keys_for_namespace deletes the entries, but leaves blobentry alone.
UnbindNamespace(s) ==
    /\ up
    /\ LET S == {k \in Keys : InSpace(k, s)}
       IN /\ entry' = [k \in Keys |-> IF k \in S THEN "gone" ELSE entry[k]]
          /\ alias' = [k \in Keys |-> IF k \in S THEN NoAlias ELSE alias[k]]
          /\ grants' = {g \in grants : g[1] \notin S /\ g[2] # s}
    /\ NeedGc(TRUE)
    /\ UNCHANGED <<rows, made, slots, client, worker, boot, up, tried, crashes>>

Grant(k, u) ==
    /\ up /\ entry[k] = "Live"
    /\ grants' = grants \cup {<<k, u>>}
    /\ UNCHANGED <<entry, alias, rows, made, slots, client, queue, worker, boot, up, tried, crashes>>

Ungrant(k, u) ==
    /\ up /\ entry[k] = "Live" /\ <<k, u>> \in grants
    /\ grants' = grants \ {<<k, u>>}
    /\ UNCHANGED <<entry, alias, rows, made, slots, client, queue, worker, boot, up, tried, crashes>>
-----------------------------------------------------------------------------
(***************************************************************************)
(* load_key_entry and what is done under its guard.                        *)
(***************************************************************************)
Take(t, k) ==
    /\ guard' = [guard EXCEPT ![k] = t]
    /\ pc' = [pc EXCEPT ![t] = "has"]
    /\ target' = [target EXCEPT ![t] = k]
    /\ loaded' = [loaded EXCEPT ![t] = LoadBlob(k)]

LetGo(t) ==
    /\ guard' = [k \in Keys |-> IF guard[k] = t THEN NoThread ELSE guard[k]]
    /\ pc' = [pc EXCEPT ![t] = "idle"]
    /\ target' = [target EXCEPT ![t] = NoKey]
    /\ loaded' = [loaded EXCEPT ![t] = Nothing]

WaitFor(t, k) ==
    /\ pc' = [pc EXCEPT ![t] = "wait"]
    /\ target' = [target EXCEPT ![t] = k]
    /\ UNCHANGED <<guard, loaded>>

\* Mutant of Load: a guard that is taken does not stop it.
MutLoad(t, k) ==
    /\ up /\ pc[t] = "idle" /\ entry[k] = "Live"
    /\ Take(t, k)
    /\ UNCHANGED <<db, made, slots, queue, worker, boot, up, tried, crashes>>

\* By alias or by grant: find the key, try its guard; if it is taken roll back
\* and wait.
Load(t, k) ==
    /\ up /\ pc[t] = "idle" /\ entry[k] = "Live"
    /\ IF guard[k] = NoThread THEN Take(t, k) ELSE WaitFor(t, k)
    /\ UNCHANGED <<db, made, slots, queue, worker, boot, up, tried, crashes>>

\* By key id: wait for the guard first, of whatever id the client names.
LoadById(t, k) ==
    /\ up /\ pc[t] = "idle" /\ entry[k] # "none"
    /\ WaitFor(t, k)
    /\ UNCHANGED <<db, made, slots, queue, worker, boot, up, tried, crashes>>

\* With the guard, the key is looked up (again) by its id: it must be live.
Wake(t) ==
    /\ pc[t] = "wait" /\ guard[target[t]] = NoThread
    /\ IF entry[target[t]] = "Live" THEN Take(t, target[t]) ELSE LetGo(t)
    /\ UNCHANGED <<db, made, slots, queue, worker, boot, up, tried, crashes>>

\* KEY_REQUIRES_UPGRADE: KeyMint makes a new blob, store_upgraded_keyblob sets
\* it without a look at the entry.
Upgrade(t) ==
    LET k == target[t]
        b == [key |-> k, nr |-> made[k] + 1]
    IN
    /\ pc[t] = "has" /\ loaded[t] # Nothing
    /\ made[k] < MaxBlobs /\ HasRoom(1)
    /\ made' = [made EXCEPT ![k] = @ + 1]
    /\ slots' = slots \cup {b}
    /\ rows' = SetBlob(rows, k, "KEY_BLOB", b, "aes")
    /\ loaded' = [loaded EXCEPT ![t] = [blob |-> b, wrap |-> "aes"]]
    /\ NeedGc(TRUE)
    /\ UNCHANGED <<entry, alias, grants, guard, pc, target, worker, boot, up, tried, crashes>>

\* force_reencrypt: the blob that was loaded, under the AES super key.
Reencrypt(t) ==
    LET k == target[t]
        b == loaded[t].blob
    IN
    /\ pc[t] = "has" /\ loaded[t].wrap = "ecdh" /\ HasRoom(1)
    /\ rows' = SetBlob(rows, k, "KEY_BLOB", b, "aes")
    /\ loaded' = [loaded EXCEPT ![t].wrap = "aes"]
    /\ NeedGc(TRUE)
    /\ UNCHANGED <<entry, alias, grants, made, slots, guard, pc, target, worker, boot, up, tried,
                   crashes>>

\* update_subcomponent: a certificate is set, or deleted at once.
UpdateCert(t) ==
    /\ pc[t] = "has"
    /\ \/ HasRoom(1) /\ rows' = SetBlob(rows, target[t], "CERT", NoBlob, "none")
       \/ rows' = Without(rows, IdsOf(rows, target[t], "CERT"))
    /\ NeedGc(TRUE)
    /\ UNCHANGED <<entry, alias, grants, made, slots, client, worker, boot, up, tried, crashes>>

\* migrate_key_namespace: the destination must be free, the entry must be there.
Migrate(t, a) ==
    /\ pc[t] = "has"
    /\ Occupants(a) = {} /\ Exists(target[t])
    /\ alias' = [alias EXCEPT ![target[t]] = a]
    /\ LetGo(t)
    /\ UNCHANGED <<entry, rows, grants, made, slots, queue, worker, boot, up, tried, crashes>>

Release(t) ==
    /\ pc[t] = "has"
    /\ LetGo(t)
    /\ UNCHANGED <<db, made, slots, queue, worker, boot, up, tried, crashes>>
-----------------------------------------------------------------------------
(***************************************************************************)
(* The garbage collector.                                                  *)
(***************************************************************************)
\* compare_exchange: one step in the queue is enough.
Schedule == IF notified = 0 THEN notified' = 1 /\ steps' = steps + 1
                            ELSE UNCHANGED <<notified, steps>>

NotifyGc ==
    /\ owed > 0
    /\ owed' = owed - 1
    /\ Schedule
    /\ UNCHANGED <<db, made, slots, client, worker, boot, up, tried, crashes>>

\* Mutant of StepStart: the flag is not reset.
MutStepStart ==
    /\ gc = "idle" /\ steps > 0
    /\ steps' = steps - 1
    /\ gc' = "check"
    /\ UNCHANGED <<db, made, slots, client, owed, notified, batch, deleted, boot, up, tried, crashes>>

\* step: first the flag, so that whatever is committed from here on schedules
\* another step.
StepStart ==
    /\ gc = "idle" /\ steps > 0
    /\ steps' = steps - 1
    /\ notified' = 0
    /\ gc' = "check"
    /\ UNCHANGED <<db, made, slots, client, owed, batch, deleted, boot, up, tried, crashes>>

StepCheck ==
    /\ gc = "check"
    /\ gc' = IF ~boot THEN "idle" ELSE IF batch = {} THEN "load" ELSE "pop"
    /\ UNCHANGED <<db, made, slots, client, queue, batch, deleted, boot, up, tried, crashes>>

\* Mutant of IsGarbage: rows of every state are collected.
MutIsGarbage(r) == TRUE

\* "state != Current"
IsGarbage(r) == r.state # "Current"

\* Mutant of ForgetDeleted: the ids are kept for the next transaction.
MutForgetDeleted == UNCHANGED deleted

\* The ids handed to a transaction that committed.
ForgetDeleted == deleted' = {}

\* handle_next_superseded_blobs: delete the rows that were processed, clean up
\* the unreferenced entries, fetch more key blobs, else purge certificates.
HandleNextSupersededBlobs ==
    LET dead    == {k \in Keys : entry[k] = "Unreferenced"}
        kept    == Without(rows, deleted)
        marked  == WithState(kept, {i \in DOMAIN kept : kept[i].key \in dead}, "Orphaned")
        garbage == {i \in DOMAIN marked : IsGarbage(marked[i])}
        blobs   == {i \in garbage : marked[i].type = "KEY_BLOB"}
    IN
    /\ gc = "load"
    /\ entry' = [k \in Keys |-> IF k \in dead THEN "gone" ELSE entry[k]]
    /\ alias' = [k \in Keys |-> IF k \in dead THEN NoAlias ELSE alias[k]]
    /\ grants' = {g \in grants : g[1] \notin dead}
    /\ rows' = IF blobs = {} THEN Without(marked, garbage) ELSE marked
    /\ \E ids \in kSubset(Min({BatchSize, Cardinality(blobs)}), blobs) :
          batch' = {[id |-> i, blob |-> marked[i].blob] : i \in ids}
    /\ ForgetDeleted
    /\ gc' = "pop"
    /\ UNCHANGED <<made, slots, client, queue, boot, up, tried, crashes>>

\* process_one_key takes a blob from the batch; without one the step is over.
PopBlob ==
    /\ gc = "pop" /\ batch # {}
    /\ \E x \in batch :
          /\ batch' = batch \ {x}
          /\ deleted' = deleted \cup {x.id}
          /\ tried' = tried \cup {x.blob}
          \* deleteKey frees the slot, unless unwrapping or the TA fails.
          /\ slots' \in {slots, slots \ {x.blob}}
    /\ gc' = "again"
    /\ UNCHANGED <<db, made, client, queue, boot, up, crashes>>

NoBlobLeft ==
    /\ gc = "pop" /\ batch = {}
    /\ gc' = "again"
    /\ UNCHANGED <<db, made, slots, client, queue, batch, deleted, boot, up, tried, crashes>>

StepAgain ==
    /\ gc = "again"
    /\ gc' = "idle"
    /\ IF deleted # {} THEN Schedule ELSE UNCHANGED <<notified, steps>>
    /\ UNCHANGED <<db, made, slots, client, owed, batch, deleted, boot, up, tried, crashes>>

\* await_boot_completed: the flag, then a notification.
BootCompleted ==
    /\ up /\ ~boot
    /\ boot' = TRUE
    /\ owed' = owed + 1
    /\ UNCHANGED <<db, made, slots, client, notified, steps, worker, up, tried, crashes>>

\* The process dies: what is in memory is lost.
Crash ==
    /\ crashes < MaxCrashes /\ up
    /\ crashes' = crashes + 1
    /\ guard' = [k \in Keys |-> NoThread]
    /\ pc' = [t \in Threads |-> "idle"]
    /\ target' = [t \in Threads |-> NoKey]
    /\ loaded' = [t \in Threads |-> Nothing]
    /\ owed' = 0 /\ notified' = 0 /\ steps' = 0
    /\ gc' = "idle" /\ batch' = {} /\ deleted' = {}
    /\ boot' = FALSE /\ up' = FALSE
    /\ UNCHANGED <<db, made, slots, tried>>

\* The first use of the database: cleanup_leftovers marks rows without an entry.
CleanupLeftovers ==
    LET lost == {i \in DOMAIN rows : ~Exists(rows[i].key)} IN
    /\ ~up
    /\ up' = TRUE
    /\ \E ids \in kSubset(Min({OrphanLimit, Cardinality(lost)}), lost) :
          rows' = WithState(rows, ids, "Orphaned")
    /\ owed' = owed + 1
    /\ UNCHANGED <<entry, alias, grants, made, slots, client, notified, steps, worker, boot, tried,
                   crashes>>
-----------------------------------------------------------------------------
ClientStep(t) ==
    \/ \E k \in Keys : Load(t, k) \/ LoadById(t, k)
    \/ Wake(t) \/ Upgrade(t) \/ Reencrypt(t) \/ UpdateCert(t) \/ Release(t)
    \/ \E a \in Aliases : Migrate(t, a)

Transaction ==
    \/ \E k \in Keys : \E a \in Aliases : StoreNewKey(k, a)
    \/ \E S \in SUBSET Keys : UnbindKeys(S)
    \/ \E s \in Spaces : UnbindUser(s) \/ UnbindNamespace(s)
    \/ \E k \in Keys : \E u \in Grantees : Grant(k, u) \/ Ungrant(k, u)

GcStep ==
    \/ StepStart \/ StepCheck \/ HandleNextSupersededBlobs
    \/ PopBlob \/ NoBlobLeft \/ StepAgain

Next ==
    \/ \E t \in Threads : ClientStep(t)
    \/ Transaction
    \/ NotifyGc \/ GcStep
    \/ BootCompleted \/ Crash \/ CleanupLeftovers

Spec == Init /\ [][Next]_vars

\* The worker and committed threads run on, the boot completes, a process that
\* died is started again.
FairSpec ==
    /\ Spec
    /\ WF_vars(NotifyGc) /\ WF_vars(GcStep)
    /\ WF_vars(BootCompleted) /\ WF_vars(CleanupLeftovers)
-----------------------------------------------------------------------------
(***************************************************************************)
(* Properties.                                                             *)
(***************************************************************************)
Row == [key : Keys, type : {"KEY_BLOB", "CERT"}, blob : Blobs \cup {NoBlob},
        wrap : {"ecdh", "aes", "none"}, state : {"Current", "Superseded", "Orphaned"}]

\* Every variable stays in its type; at most one step of the collector is queued.
TypeOK ==
    /\ entry \in [Keys -> {"none", "Live", "Unreferenced", "gone"}]
    /\ alias \in [Keys -> Aliases \cup {NoAlias}]
    /\ DOMAIN rows \subseteq 1..MaxRows /\ \A i \in DOMAIN rows : rows[i] \in Row
    /\ grants \subseteq Keys \X Spaces
    /\ made \in [Keys -> 0..MaxBlobs]
    /\ slots \subseteq Blobs /\ tried \subseteq Blobs
    /\ guard \in [Keys -> Threads \cup {NoThread}]
    /\ pc \in [Threads -> {"idle", "wait", "has"}]
    /\ target \in [Threads -> Keys \cup {NoKey}]
    /\ loaded \in [Threads -> [blob : Blobs \cup {NoBlob}, wrap : {"ecdh", "aes", "none"}]]
    /\ owed \in Nat /\ notified \in {0, 1} /\ steps \in {0, 1}
    /\ gc \in {"idle", "check", "load", "pop", "again"}
    /\ batch \subseteq [id : 1..MaxRows, blob : Blobs] /\ deleted \subseteq 1..MaxRows
    /\ boot \in BOOLEAN /\ up \in BOOLEAN /\ crashes \in 0..MaxCrashes

\* "A live key is fully populated and usable by clients": what the loader picks
\* for a live key exists and the TA still has its secure deletion slot,
\* whatever was superseded, unbound, collected and restarted meanwhile.
LiveUsable ==
    \A k \in Keys \ CertOnly : entry[k] = "Live" => LoadBlob(k).blob \in slots

\* Names lead to one key: two live keys never share an alias (rebind_alias
\* against migrate_key_namespace and the clean-up of unreferenced entries),
\* and a grant never outlives its entry.
NamesResolve ==
    /\ \A j, k \in Keys : entry[j] = "Live" /\ entry[k] = "Live" /\ alias[j] = alias[k] => j = k
    /\ \A g \in grants : Exists(g[1])

InDb(b) == \E i \in DOMAIN rows : rows[i].blob = b

Stored == {b \in [key : Keys, nr : 1..MaxBlobs] : b.nr <= made[b.key]}

\* A key blob leaves the database only after the collector handed it to
\* deleteKey: the ids it deletes a batch later still are the rows it loaded,
\* across crashes and reuse of ids.
DeletedWereTried == \A b \in Stored : InDb(b) \/ b \in tried

\* A thread with a guard works on the latest blob of its key: no upgrade of
\* another thread is lost.
GuardedIsLatest ==
    \A t \in Threads : pc[t] = "has" /\ Exists(target[t]) => loaded[t] = LoadBlob(target[t])

Garbage(b) ==
    \E i \in DOMAIN rows : rows[i].blob = b /\ (IsGarbage(rows[i]) \/ entry[b.key] = "Unreferenced")

\* Whatever is marked for collection is collected: no notification is lost
\* between a step that ends, a transaction that commits, the end of the boot
\* and a restart.
Collected ==
    \A b \in [key : Keys \ CertOnly, nr : 1..MaxBlobs] :
        Garbage(b) ~> ~Garbage(b)
=============================================================================
