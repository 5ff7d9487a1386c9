------------------------------ MODULE KeyMintTa ------------------------------
(***************************************************************************)
(* The KeyMint trusted application: key blobs and their upgrade, the table *)
(* of operations, authorization of each call on an operation, the use      *)
(* counters, proof of presence and single-use keys (src/ta/src/lib.rs,     *)
(* keys.rs, operation.rs, operation/begin.rs).  Requests come one at a     *)
(* time: the instance is behind a mutex.                                   *)
(*                                                                         *)
(* The deployment has a clock, no trusted user presence, no legacy keys    *)
(* and no storage key wrapper.  A patch level stands for the OS, vendor    *)
(* and boot patch levels together; a caller may have levels of its own     *)
(* (RequestPatchLevels).  The crypto of an operation succeeds or fails.    *)
(***************************************************************************)
EXTENDS Integers, FiniteSets

CONSTANTS
    Keys, KeyChars,  \* keys, and for each [auth, uses, single, presence, early, confirm, wrapping]
    Callers,         \* callers, each with the patch levels its requests carry
    MaxLevel,        \* bound: patch levels
    MaxOps,          \* slots of the operation table
    MaxCounted,      \* MAX_USE_COUNTED_KEYS
    MaxBlob,         \* bound: blobs made
    MaxHandle,       \* bound: handles drawn
    Faults           \* may deleting a slot fail?

NoOp    == 0
NoToken == [valid |-> FALSE, challenge |-> NoOp, fresh |-> FALSE]

VARIABLES
    level,     \* the patch levels in force for each caller
    early,     \* in_early_boot
    blobs,     \* key blobs handed out
    secrets,   \* slots of the secure deletion data in use
    ops,       \* operations
    presence,  \* presence_required_op
    uses,      \* use_count, a partial function of blobs
    handle,    \* the last handle drawn
    made,      \* blobs made so far, also the next slot
    outputs,   \* history: per handle, what the operation gave and for which tokens
    stuck      \* history: slots that could not be deleted

vars == <<level, early, blobs, secrets, ops, presence, uses, handle, made, outputs, stuck>>

Init ==
    /\ level = [c \in Callers |-> 1]
    /\ early = TRUE
    /\ blobs = {} /\ secrets = {} /\ ops = {} /\ presence = NoOp /\ uses = <<>>
    /\ handle = 0 /\ made = 0
    /\ outputs = <<>> /\ stuck = {}

Chars(b) == KeyChars[b.key]

\* The function f with the value v for x, whether it had one or not.
Put(f, x, v) == [y \in DOMAIN f \cup {x} |-> IF y = x THEN v ELSE f[y]]

\* Auth tokens: none or not authentic, or made for an operation, recent or not.
Tokens ==
    {NoToken} \cup [valid : {TRUE}, challenge : {NoOp} \cup {o.handle : o \in ops}, fresh : BOOLEAN]

-----------------------------------------------------------------------------
(***************************************************************************)
(* Key blobs.                                                              *)
(***************************************************************************)
\* keyblob_parse_decrypt_backlevel: a blob whose slot is gone does not decrypt.
Decrypts(b) == b.slot # 0 => b.slot \in secrets

\* The check of keyblob_parse_decrypt_with_patchlevels; else KEY_REQUIRES_UPGRADE.
Current(c, b) == b.level >= level[c]

Usable(c, b) == Decrypts(b) /\ Current(c, b)

\* keyblob::encrypt with the tags of add_keymint_tags: a single-use key has a slot.
NewBlob(k, l) ==
    [id |-> made + 1, key |-> k, level |-> l, slot |-> IF KeyChars[k].single THEN made + 1 ELSE 0]

\* finish_keyblob_creation.
Create(b) ==
    /\ made < MaxBlob
    /\ made' = made + 1
    /\ blobs' = blobs \cup {b}
    /\ secrets' = secrets \cup ({b.slot} \ {0})

GenerateKey(c, k) ==
    /\ Create(NewBlob(k, level[c]))
    /\ UNCHANGED <<level, early, ops, presence, uses, handle, outputs, stuck>>

\* import_key: not an early boot key after early boot.
ImportKey(c, k) ==
    /\ early \/ ~KeyChars[k].early
    /\ GenerateKey(c, k)

\* sdd_mgr.delete_secret may fail, and the slot stays.
Attempts(slots) ==
    {[gone |-> slots, kept |-> {}]}
      \cup (IF Faults THEN {[gone |-> {}, kept |-> slots]} ELSE {})

Attempt(slots) ==
    \E a \in Attempts(slots) : secrets' = secrets \ a.gone /\ stuck' = stuck \cup a.kept

\* Mutant of Unpublish: the key that was imported is forgotten, not deleted.
MutUnpublish(b) == {[gone |-> {}, kept |-> {}]}

\* The cleanup of a wrapped import that failed: delete_key of the imported blob.
Unpublish(b) == Attempts({b.slot} \ {0})

\* import_wrapped_key: a single-use wrapping key is deleted after the import,
\* and when that fails the imported key is deleted and the call fails.
ImportWrappedKey(c, w, k) ==
    /\ Usable(c, w) /\ Chars(w).wrapping
    /\ early \/ ~KeyChars[k].early
    /\ made < MaxBlob /\ made' = made + 1
    /\ LET b == NewBlob(k, level[c])
           new == {b.slot} \ {0}
       IN  \E a \in Attempts({w.slot} \ {0}) :
             \/ /\ a.kept = {}
                /\ blobs' = blobs \cup {b}
                /\ secrets' = (secrets \cup new) \ a.gone
                /\ UNCHANGED stuck
             \/ /\ a.kept # {}
                /\ \E u \in Unpublish(b) :
                     secrets' = (secrets \cup new) \ u.gone /\ stuck' = stuck \cup u.kept
                /\ UNCHANGED blobs
    /\ UNCHANGED <<level, early, ops, presence, uses, handle, outputs>>

\* upgrade_key: the levels in force, also when they are lower; a new blob with
\* a slot of its own, or nothing when nothing changes.
UpgradeKey(c, b) ==
    /\ Decrypts(b) /\ b.level # level[c]
    /\ Create(NewBlob(b.key, level[c]))
    /\ UNCHANGED <<level, early, ops, presence, uses, handle, outputs, stuck>>

\* delete_key ignores a failure.
DeleteKey(b) ==
    /\ Attempt({b.slot} \cap secrets)
    /\ blobs' = blobs \ {b}
    /\ UNCHANGED <<level, early, ops, presence, uses, handle, made, outputs>>

DeleteAllKeys ==
    /\ secrets # {}
    /\ secrets' = {}
    /\ UNCHANGED <<level, early, blobs, ops, presence, uses, handle, made, outputs, stuck>>

EarlyBootEnded ==
    /\ early
    /\ early' = FALSE
    /\ UNCHANGED <<level, blobs, secrets, ops, presence, uses, handle, made, outputs, stuck>>

\* update_patchlevels, and the levels of a caller that the configuration sets.
SetLevel(c, l) ==
    /\ level[c] # l
    /\ level' = [level EXCEPT ![c] = l]
    /\ UNCHANGED <<early, blobs, secrets, ops, presence, uses, handle, made, outputs, stuck>>
-----------------------------------------------------------------------------
(***************************************************************************)
(* begin.                                                                  *)
(***************************************************************************)
Count(b) == IF b \in DOMAIN uses THEN uses[b] ELSE 0

\* update_use_count: a counter per blob (key_id), in a table of fixed size.
MayUse(b) ==
    Chars(b).uses # 0 =>
      /\ b \in DOMAIN uses \/ Cardinality(DOMAIN uses) < MaxCounted
      /\ Count(b) < Chars(b).uses

CountUse(b) == uses' = IF Chars(b).uses = 0 THEN uses ELSE Put(uses, b, Count(b) + 1)

\* check_begin_auths: the use is counted here, whatever fails later.
CheckBeginAuths(b) ==
    /\ early \/ ~Chars(b).early
    /\ MayUse(b)
    /\ CountUse(b)

\* AuthInfo::new and the token of a key with a timeout.
BeginAuthorized(b, t) == Chars(b).auth = "timeout" => t.valid /\ t.fresh

\* begin_operation, once the parameters are accepted and a slot is free.
Begin(c, b, t) ==
    /\ Cardinality(ops) < MaxOps /\ handle < MaxHandle
    /\ Usable(c, b)
    /\ CheckBeginAuths(b)
    /\ \/ /\ ~(Chars(b).presence /\ presence # NoOp)
          /\ BeginAuthorized(b, t)
          /\ handle' = handle + 1
          /\ ops' = ops \cup {[handle |-> handle', blob |-> b, aad |-> TRUE,
                               auth |-> Chars(b).auth = "op"]}
          /\ presence' = IF Chars(b).presence THEN handle' ELSE presence
       \/ UNCHANGED <<ops, presence, handle>>   \* refused, or the crypto fails
    /\ UNCHANGED <<level, early, blobs, secrets, made, outputs, stuck>>
-----------------------------------------------------------------------------
(***************************************************************************)
(* update, finish, abort.                                                  *)
(***************************************************************************)
\* check_subsequent_auth: the key's own token, again for every call.
Authorized(o, t) == o.auth => t.valid /\ t.challenge = o.handle

\* History: what an operation gave, and whether a call without its token did.
Output(o, t, last) ==
    LET own == t.valid /\ t.challenge = o.handle
        before == IF o.handle \in DOMAIN outputs THEN outputs[o.handle].own ELSE TRUE
    IN  outputs' = Put(outputs, o.handle, [blob |-> o.blob, own |-> own /\ before, last |-> last])

\* with_authed_operation's failures: an unauthorized call leaves the
\* operation, a failed one removes it.
Fail(o) ==
    /\ ops' = ops \ {o}
    /\ presence' = IF presence = o.handle THEN NoOp ELSE presence

UpdateAad(o, t) ==
    /\ Authorized(o, t)
    /\ \/ o.aad /\ UNCHANGED <<ops, presence>>
       \/ Fail(o)
    /\ UNCHANGED <<level, early, blobs, secrets, uses, handle, made, outputs, stuck>>

\* op_update: the claim of presence is dropped before anything is checked.
Update(o, t) ==
    LET claimed == presence = o.handle
    IN  /\ presence' = IF claimed THEN NoOp ELSE presence
        /\ \/ /\ ~Authorized(o, t)
              /\ UNCHANGED <<ops, outputs>>
           \/ /\ Authorized(o, t) /\ ~claimed
              /\ ops' = (ops \ {o}) \cup {[o EXCEPT !.aad = FALSE]}
              /\ Output(o, t, FALSE)
           \/ /\ Authorized(o, t)               \* no presence, or the crypto fails
              /\ ops' = ops \ {o}
              /\ UNCHANGED outputs
        /\ UNCHANGED <<level, early, blobs, secrets, uses, handle, made, stuck>>

\* Mutant of SlotToDelete: only for operations bound to their own token.
MutSlotToDelete(o) == IF Chars(o.blob).single /\ o.auth THEN {o.blob.slot} ELSE {}

\* slot_to_delete, set at begin.
SlotToDelete(o) == IF Chars(o.blob).single THEN {o.blob.slot} ELSE {}

\* op_finish: the operation is gone whatever happens; the claim of presence
\* stays when the token is refused; confirmation is checked after the crypto.
Finish(o, t, confirmed) ==
    /\ ops' = ops \ {o}
    /\ presence' = IF Authorized(o, t) /\ presence = o.handle THEN NoOp ELSE presence
    /\ \/ /\ Authorized(o, t) /\ presence # o.handle
          /\ Chars(o.blob).confirm => confirmed
          /\ Output(o, t, TRUE)
          /\ Attempt(SlotToDelete(o) \cap secrets)
       \/ UNCHANGED <<outputs, secrets, stuck>>
    /\ UNCHANGED <<level, early, blobs, uses, handle, made>>

\* op_abort.
Abort(o) ==
    /\ Fail(o)
    /\ UNCHANGED <<level, early, blobs, secrets, uses, handle, made, outputs, stuck>>

\* The process restarts: operations, counters and claims are in memory only.
Restart ==
    /\ ops # {} \/ uses # <<>> \/ presence # NoOp
    /\ ops' = {} /\ uses' = <<>> /\ presence' = NoOp
    /\ UNCHANGED <<level, early, blobs, secrets, handle, made, outputs, stuck>>

Next ==
    \/ \E c \in Callers :
         \/ \E k \in Keys : GenerateKey(c, k) \/ ImportKey(c, k)
         \/ \E w \in blobs, k \in Keys : ImportWrappedKey(c, w, k)
         \/ \E b \in blobs : UpgradeKey(c, b) \/ \E t \in Tokens : Begin(c, b, t)
         \/ \E l \in 1..MaxLevel : SetLevel(c, l)
    \/ \E b \in blobs : DeleteKey(b)
    \/ DeleteAllKeys \/ EarlyBootEnded \/ Restart
    \/ \E o \in ops :
         \/ \E t \in Tokens : UpdateAad(o, t) \/ Update(o, t) \/ \E f \in BOOLEAN : Finish(o, t, f)
         \/ Abort(o)

Spec == Init /\ [][Next]_vars
-----------------------------------------------------------------------------
(***************************************************************************)
(* Properties.                                                             *)
(***************************************************************************)
\* Output of a key that needs authentication per operation was given only
\* for a token made for that very operation, on every call that gave some.
OutputAuthorized ==
    \A h \in DOMAIN outputs : Chars(outputs[h].blob).auth = "op" => outputs[h].own

\* A single-use key that gave its result is gone from the secure deletion
\* data, or its deletion was tried and failed.
SpentKeyGone ==
    \A h \in DOMAIN outputs :
      outputs[h].last /\ Chars(outputs[h].blob).single
      => outputs[h].blob.slot \notin secrets \ stuck

\* What an operation gave was authorized, and the last of it spent its key.
OutputsSound == OutputAuthorized /\ SpentKeyGone

\* No slot is left behind: each one in use belongs to a blob that was handed
\* out, or could not be deleted.  A wrapped import that fails half-way
\* included.
SlotsOwned == secrets \subseteq {b.slot : b \in blobs} \cup stuck
=============================================================================
