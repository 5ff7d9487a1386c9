--------------------------- MODULE SecureDeletion ---------------------------
(***************************************************************************)
(* Secure deletion data: the secrets without which a rollback resistant or *)
(* single-use key blob cannot be decrypted (src/src/keymint/sdd.rs), and   *)
(* the key blobs that are encrypted and decrypted with them                *)
(* (src/common/src/keyblob.rs).                                            *)
(*                                                                         *)
(* Every KeyMint instance has a HostSddManager of its own, each with its   *)
(* own cache, and all of them use the one file SECURE_DELETION_DATA_FILE.  *)
(* The file is truncated, then written: an operation that saves is two     *)
(* steps, and the process may die between them.                            *)
(***************************************************************************)
EXTENDS Integers, FiniteSets, FiniteSetsExt

CONSTANTS
    Levels,       \* the security levels that have a KeyMint instance
    SlotLimit,    \* the largest slot id, u32::MAX
    BufferSlots,  \* secrets in the part of the file that one fill_buf reads
    Faults,       \* may writing the file fail?
    Resets,       \* may the device be reset (deleteAllKeys)?
    MaxSecret     \* bound: random secrets drawn

Absent  == [kind |-> "absent"]
Garbage == [kind |-> "garbage"]   \* a file that does not decode
Default == [factory |-> 0, secrets |-> <<>>, last |-> 0]  \* also what an empty file decodes to
Idle    == [op |-> "idle"]

\* What the proofs need of the constants: one instance, as two do lose each
\* other's secrets.
SddAssumption == SlotLimit \in Nat /\ \A k, l \in Levels : k = l

VARIABLES
    file,
    mgr,      \* per level: "none" yet, "on", "off" (KeyMint runs without it), "poisoned"
    data,     \* the manager's cache of the file
    writing,  \* the save that an operation is in the middle of, or Idle
    blobs,    \* key blobs that were returned and not deleted
    deleted,  \* history: blobs whose slot was deleted
    torn,     \* history: a save was cut short, the file read in part, or the device reset
    fresh     \* random secrets drawn so far

vars == <<file, mgr, data, writing, blobs, deleted, torn, fresh>>

Init ==
    /\ file = Absent
    /\ mgr = [l \in Levels |-> "none"]
    /\ data = [l \in Levels |-> Default]
    /\ writing = [l \in Levels |-> Idle]
    /\ blobs = {} /\ deleted = {} /\ torn = FALSE /\ fresh = 0

\* BTreeMap::insert.
Put(f, x, v) == [y \in DOMAIN f \cup {x} |-> IF y = x THEN v ELSE f[y]]

Can(l) == mgr[l] = "on" /\ writing[l] = Idle
Draws(n) == fresh + n <= MaxSecret /\ fresh' = fresh + n
-----------------------------------------------------------------------------
(***************************************************************************)
(* Reading and writing the file.                                           *)
(***************************************************************************)
\* read_sdd_file: one buffer of the file, which may end between two secrets.
Decoded(f) ==
    IF f = Garbage THEN {Garbage}
    ELSE IF Cardinality(DOMAIN f.secrets) <= BufferSlots THEN {f}
    ELSE {Garbage} \cup {[f EXCEPT !.secrets = [s \in S |-> f.secrets[s]]] :
                          S \in kSubset(BufferSlots, DOMAIN f.secrets)}

\* validate_loaded_data: last_free_slot is not below any slot.  Only the empty
\* file has no factory secret.
Validated(d) == [d EXCEPT !.last = Max(DOMAIN d.secrets \cup {d.last})]

\* The first step of a save: the cache holds d, File::create truncates the file.
Truncate(l, d, why) ==
    /\ data' = [data EXCEPT ![l] = d]
    /\ file' = Default
    /\ writing' = [writing EXCEPT ![l] = why]

\* What write_all leaves: into an unlinked file nothing, and over what
\* another manager wrote since the truncation possibly a mixture.
Written(d) ==
    IF file = Absent THEN {Absent}
    ELSE IF file = Default THEN {d}
    ELSE {d, Garbage}

\* init, on the way to `then`: load the file, or make a new one.
Initialize(l, then) ==
    \/ /\ file \in {Absent, Default}
       /\ Draws(1)
       /\ Truncate(l, [Default EXCEPT !.factory = fresh + 1], [op |-> "init", then |-> then])
       /\ UNCHANGED <<mgr, torn>>
    \/ /\ file \notin {Absent, Default}
       /\ \E d \in Decoded(file) :
            /\ IF d = Garbage
               THEN /\ mgr' = [mgr EXCEPT ![l] = IF then = "none" THEN "off" ELSE @]
                    /\ UNCHANGED <<data, writing, fresh>>
               ELSE /\ data' = [data EXCEPT ![l] = Validated(d)]
                    /\ mgr' = [mgr EXCEPT ![l] = "on"]
                    /\ UNCHANGED <<writing, fresh>>
            /\ torn' = (torn \/ d # file)
       /\ UNCHANGED file
-----------------------------------------------------------------------------
(***************************************************************************)
(* The operations.                                                         *)
(***************************************************************************)
\* init_keymint_ta, one instance at a time (KM_WRAPPER_LIFECYCLE): KeyMint
\* goes without a manager that cannot be initialized.
Start(l) ==
    /\ mgr[l] = "none"
    /\ \A k \in Levels : mgr[k] = "none" => writing[k] = Idle
    /\ Initialize(l, "none")
    /\ UNCHANGED <<blobs, deleted>>

\* Mutant of SlotFor: the slot after as many as there are.
MutSlotFor(d) == Cardinality(DOMAIN d.secrets) + 1

\* new_secret: slot ids are never reused; the counter must not overflow.
SlotFor(d) == d.last + 1

\* keyblob::encrypt for a key that needs a slot: SlotHolder::new.
NewSecret(l) ==
    /\ Can(l) /\ data[l].factory # 0
    /\ data[l].last < SlotLimit
    /\ Draws(1)
    /\ LET s == SlotFor(data[l])
       IN  Truncate(l, [data[l] EXCEPT !.secrets = Put(@, s, fresh + 1), !.last = s],
                    [op |-> "new", slot |-> s])
    /\ UNCHANGED <<mgr, blobs, deleted, torn>>

\* get_or_create_factory_reset_secret after a reset: init again.
Reinit(l) ==
    /\ Can(l) /\ data[l].factory = 0
    /\ Initialize(l, "use")
    /\ UNCHANGED <<blobs, deleted>>

Blob(l, slot) ==
    [level |-> l, slot |-> slot, factory |-> data[l].factory,
     secret |-> IF slot = 0 THEN 0 ELSE data[l].secrets[slot]]

\* keyblob::encrypt for a key without a slot.
Encrypt(l) ==
    /\ \/ Can(l) /\ data[l].factory # 0
       \/ mgr[l] = "off"
    /\ blobs' = blobs \cup {Blob(l, 0)}
    /\ UNCHANGED <<file, mgr, data, writing, deleted, torn, fresh>>

Without(d, slot) == [d EXCEPT !.secrets = [s \in DOMAIN @ \ {slot} |-> @[s]]]

\* Mutant of DeleteSecret: the cache is not saved.
MutDeleteSecret(l, b) ==
    /\ Can(l) /\ b.level = l /\ b.slot \in DOMAIN data[l].secrets
    /\ data' = [data EXCEPT ![l] = Without(@, b.slot)]
    /\ blobs' = blobs \ {b} /\ deleted' = deleted \cup {b}
    /\ UNCHANGED <<file, mgr, writing, torn, fresh>>

\* delete_secret, for the slot that a blob names.
DeleteSecret(l, b) ==
    /\ Can(l) /\ b.level = l /\ b.slot \in DOMAIN data[l].secrets
    /\ Truncate(l, Without(data[l], b.slot), [op |-> "delete", blob |-> b])
    /\ blobs' = blobs \ {b}
    /\ UNCHANGED <<mgr, deleted, torn, fresh>>

\* delete_secret of a slot that is not there fails, and delete_key ignores it.
DeleteUnknown(l, b) ==
    /\ Can(l) /\ b.level = l /\ b.slot \notin DOMAIN data[l].secrets
    /\ blobs' = blobs \ {b}
    /\ UNCHANGED <<file, mgr, data, writing, deleted, torn, fresh>>

\* delete_all: forget, and remove the file.
DeleteAll(l) ==
    /\ Resets /\ Can(l) /\ data[l] # Default
    /\ data' = [data EXCEPT ![l] = Default]
    /\ file' = Absent
    /\ torn' = TRUE
    /\ UNCHANGED <<mgr, writing, blobs, deleted, fresh>>

\* write_sdd_file returns Ok: the operation hands out or forgets a blob.
Saved(l) ==
    /\ writing[l] # Idle
    /\ file' \in Written(data[l])
    /\ writing' = [writing EXCEPT ![l] = Idle]
    /\ LET w == writing[l]
       IN  /\ mgr' = [mgr EXCEPT ![l] = "on"]
           /\ blobs' = IF w.op = "new" THEN blobs \cup {Blob(l, w.slot)} ELSE blobs
           /\ deleted' = IF w.op = "delete" THEN deleted \cup {w.blob} ELSE deleted
    /\ UNCHANGED <<data, torn, fresh>>

\* new_secret after a failed save: "Restore cached state."
Restored(d, w) == [Without(d, w.slot) EXCEPT !.last = w.slot - 1]

\* write_sdd_file fails.  delete_secret restores the cache with an insert
\* whose result it unwraps, and panics with the instance's mutex held.
SaveFails(l) ==
    /\ Faults /\ writing[l] # Idle
    /\ file' \in {file, Garbage}
    /\ writing' = [writing EXCEPT ![l] = Idle]
    /\ torn' = TRUE
    /\ LET w == writing[l]
       IN  /\ data' = [data EXCEPT ![l] = IF w.op = "new" THEN Restored(@, w) ELSE @]
           /\ mgr' = [mgr EXCEPT ![l] =
                        CASE w.op = "delete" -> "poisoned"
                          [] w.op = "init" /\ w.then = "none" -> "off"
                          [] OTHER -> @]
    /\ UNCHANGED <<blobs, deleted, fresh>>

\* The process dies, possibly in the middle of a save, and starts again.
Restart ==
    /\ \E l \in Levels : mgr[l] # "none"
    /\ mgr' = [l \in Levels |-> "none"]
    /\ data' = [l \in Levels |-> Default]
    /\ writing' = [l \in Levels |-> Idle]
    /\ torn' = (torn \/ \E l \in Levels : writing[l] # Idle)
    /\ UNCHANGED <<file, blobs, deleted, fresh>>

Next ==
    \/ \E l \in Levels :
         \/ Start(l) \/ NewSecret(l) \/ Reinit(l) \/ Encrypt(l)
         \/ \E b \in blobs : DeleteSecret(l, b) \/ DeleteUnknown(l, b)
         \/ DeleteAll(l) \/ Saved(l) \/ SaveFails(l)
    \/ Restart

Spec == Init /\ [][Next]_vars
-----------------------------------------------------------------------------
(***************************************************************************)
(* Properties.                                                             *)
(***************************************************************************)
\* keyblob::decrypt: the key encryption key is derived from the secrets.
Decrypts(b) ==
    LET d == data[b.level]
    IN  \/ mgr[b.level] = "off" /\ b.factory = 0
        \/ /\ mgr[b.level] = "on" /\ d.factory = b.factory
           /\ b.slot # 0 => b.slot \in DOMAIN d.secrets /\ d.secrets[b.slot] = b.secret

\* A key whose slot was deleted never decrypts again, not after a crash in
\* the middle of a save, a save that failed or a restart either: what
\* rollback resistance and single-use keys rest on.
DeletedStaysDeleted == \A b \in deleted : ~Decrypts(b)

\* A key that was returned and not deleted decrypts whenever its instance
\* is up, restarts included, unless a save was cut short, the file outgrew
\* the buffer it is read with, or the device was reset.
KeysSurvive ==
    ~torn => \A b \in blobs : mgr[b.level] = "on" => Decrypts(b)
=============================================================================
