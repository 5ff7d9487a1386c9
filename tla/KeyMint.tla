------------------------------ MODULE KeyMint -------------------------------
(***************************************************************************)
(* The state behind the KeyMint instances: the secure deletion data in its *)
(* file, the patch levels that come from the configuration, and the TA's   *)
(* keys and operations. They have no state in common; every behaviour is   *)
(* one of one of them, the others stay in one of their initial states.     *)
(***************************************************************************)
EXTENDS SecureDeletion

CONSTANTS
    Builds, Edits, Requests, Today, RandomKeys,        \* of PatchLevels
    Keys, KeyChars, Callers,                           \* of KeyMintTa
    MaxLevel, MaxOps, MaxCounted, MaxBlob, MaxHandle

VARIABLES
    which,  \* the component of this behaviour
    build, prop, conf, dirty, snap, vb, lock, web, daemon, run, ta, byHand,
    level, early, taBlobs, secrets, ops, presence, uses, handle, made, outputs, stuck

Patch == INSTANCE PatchLevels

Ta == INSTANCE KeyMintTa WITH blobs <- taBlobs

patchVars == <<build, prop, conf, dirty, snap, vb, lock, web, daemon, run, ta, byHand>>
taVars    == <<level, early, taBlobs, secrets, ops, presence, uses, handle, made, outputs, stuck>>
allVars   == <<which, vars, patchVars, taVars>>

AllInit ==
    /\ which \in {"sdd", "patch", "ta"}
    /\ Init /\ Patch!Init /\ Ta!Init
    /\ which # "patch" => vb.spec = Patch!Auto

StepOf(c) == which = c /\ which' = which

AllNext ==
    \/ StepOf("sdd") /\ Next /\ UNCHANGED <<patchVars, taVars>>
    \/ StepOf("patch") /\ Patch!Next /\ UNCHANGED <<vars, taVars>>
    \/ StepOf("ta") /\ Ta!Next /\ UNCHANGED <<vars, patchVars>>

AllSpec == AllInit /\ [][AllNext]_allVars
-----------------------------------------------------------------------------
\* PatchLevels: every instance has the runtime configuration's patch levels.
InstancesFollowRuntime == Patch!InstancesFollowRuntime

\* PatchLevels: the snapshot of the defaults holds the build's own values.
DefaultsKept == Patch!DefaultsKept

\* PatchLevels: the boot key that is served never changes.
BootKeyStable == Patch!BootKeyStable

\* KeyMintTa: output for a key bound to each operation needs its own token, and
\* a single-use key that gave its result is gone.
OutputsSound == Ta!OutputsSound

\* KeyMintTa: every slot in use belongs to a key that was handed out.
SlotsOwned == Ta!SlotsOwned
=============================================================================
