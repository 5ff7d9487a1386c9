--------------------------- MODULE Authorization ----------------------------
(***************************************************************************)
(* What authorizes the use of a key: the local SOTER identities that       *)
(* callers are given, the auth tokens and the operations that wait for     *)
(* them, and the super keys that follow the lock state. They have no state *)
(* in common here; every behaviour is one of one of them, the others stay  *)
(* in their initial state.                                                 *)
(***************************************************************************)
EXTENDS SoterIdentities

CONSTANTS
    Keys, Faults,                              \* of AuthTokens and SuperKeys
    Params, Ops, Tokens, Bearers, MaxTime,     \* of AuthTokens; Bearers run addAuthToken
    CLEANUP_PERIOD, TimestampNeeded,
    Users, Passwords, Sids, Callers,           \* of SuperKeys; Callers deliver the lock
    Serial, Clients, Traits, Owner, MaxSuper   \* state, Traits[k] are k's authorizations

VARIABLES
    which,  \* the component of this behaviour
    now, table, map, counter, op, adding, served,
    stored, nextId, mem, unlocked, call, blobs, user, needs

Auth == INSTANCE AuthTokens WITH Threads <- Bearers

Super == INSTANCE SuperKeys WITH Threads <- Callers, Params <- Traits, client <- user

tokenVars == <<now, table, map, counter, op, adding, served>>
superVars == <<stored, nextId, mem, unlocked, call, blobs, user, needs>>
allVars   == <<which, vars, tokenVars, superVars>>

AllInit ==
    /\ which \in {"tokens", "superKeys", "soter"}
    /\ Init /\ Auth!Init /\ Super!Init
    /\ which # "soter" => lastId = 0

StepOf(c) == which = c /\ which' = which

AllNext ==
    \/ StepOf("soter") /\ Next /\ UNCHANGED <<tokenVars, superVars>>
    \/ StepOf("tokens") /\ Auth!Next /\ UNCHANGED <<vars, superVars>>
    \/ StepOf("superKeys") /\ Super!Next /\ UNCHANGED <<vars, tokenVars>>

AllSpec == AllInit /\ [][AllNext]_allVars
-----------------------------------------------------------------------------
\* AuthTokens: an operation that waits for a token can be given one.
WaitingIsReachable == Auth!WaitingIsReachable

\* AuthTokens: a token that an operation was begun with fits its key.
TokenFits == Auth!TokenFits

\* SuperKeys: every stored blob can be decrypted again by somebody.
BlobsRecoverable == Super!BlobsRecoverable

\* SuperKeys: keys are not in memory before what must happen first.
LockHolds == Super!LockHolds
=============================================================================
