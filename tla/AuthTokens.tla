----------------------------- MODULE AuthTokens -----------------------------
(***************************************************************************)
(* How an operation gets the tokens that authorize it: authorize_create    *)
(* and AuthInfo of enforcements.rs, the map from operation challenges to   *)
(* waiting operations, the table of the auth tokens received since boot,   *)
(* and the worker that asks the secure clock for timestamp tokens.         *)
(*                                                                         *)
(* Time is in ticks of half a second, so that BootTime::seconds() really   *)
(* rounds down.  An operation is its challenge (KeyMint's handle).         *)
(***************************************************************************)
EXTENDS Integers, FiniteSets, FiniteSetsExt, TLC

CONSTANTS
    Keys,            \* keys a client may begin an operation with
    Params,          \* Params[k]: the authorizations authorize_create reads
    Ops,             \* challenges; each is used once
    Tokens,          \* auth tokens: [user, auth, type, challenge]
    Threads,         \* binder threads that run addAuthToken
    MaxTime,         \* bound: ticks
    CLEANUP_PERIOD,  \* TokenReceiverMap::CLEANUP_PERIOD
    TimestampNeeded, \* the KeyMint of the key needs timestamp tokens
    Faults           \* the secure clock may fail

\* AUTH_TIMEOUT is a number of seconds, -1 for a key that has none.
TokensAssumption == \A k \in Keys : Params[k].timeout \in Nat \cup {-1}

VARIABLES
    now,       \* BootTime
    table,     \* PerbootDB.auth_tokens
    map,       \* TokenReceiverMap: challenges that have a receiver
    counter,   \* its cleanup counter
    op,        \* op[o]: the AuthInfo of the operation
    adding,    \* what a binder thread is doing with a token
    served     \* history: operations a token was handed to while they waited

vars == <<now, table, map, counter, op, adding, served>>

Second == 2
NoHat == [time |-> -1]
NoOp == [st |-> "none"]
NotAdding == [at |-> "idle"]

Init ==
    /\ now = 0
    /\ table = {}
    /\ map = {}
    /\ counter = CLEANUP_PERIOD + 1
    /\ op = [o \in Ops |-> NoOp]
    /\ adding = [t \in Threads |-> NotAdding]
    /\ served = {}

\* The operation holds its AuthRequest until it is finalized.
Alive(o) == op[o].st \notin {"none", "dropped"}

-----------------------------------------------------------------------------
(***************************************************************************)
(* The per-boot table                                                      *)
(***************************************************************************)
AuthTokenId(tok) == <<tok.user, tok.auth, tok.type>>

\* HashSet::replace with an equality that looks at the id only.
insert_auth_token_entry(tok) ==
    {e \in table : AuthTokenId(e.tok) # AuthTokenId(tok)} \union {[tok |-> tok, time |-> now]}

satisfies(e, sids, types) == e.tok.type \in types /\ {e.tok.user, e.tok.auth} \intersect sids # {}

\* A most recent one among the entries that match.
find_auth_token_entry(matching) ==
    {e \in matching : \A f \in matching : f.time =< e.time}

TokenAge(e) == now - e.time

\* getAuthTokensForCredStore: the token of the challenge, or one that is young
\* enough.
get_auth_tokens_for_credstore(challenge, sid, maxAge) ==
    LET types == {"password", "fingerprint"}
        forOp == {e \in table : e.tok.challenge = challenge /\ satisfies(e, {sid}, types)}
        young == {e \in table : maxAge > TokenAge(e) /\ satisfies(e, {sid}, types)}
    IN IF challenge = "zero" THEN {}
       ELSE IF forOp # {} THEN find_auth_token_entry(forOp)
       ELSE IF maxAge # 0 THEN find_auth_token_entry(young)
       ELSE {}

get_last_auth_time(sid, types) ==
    LET found == {e \in table : satisfies(e, {sid}, types)}
    IN IF found = {} THEN -1 ELSE Max({e.time : e \in found})

-----------------------------------------------------------------------------
(***************************************************************************)
(* authorize_create: the checks, in the order of the code.  `env' is what  *)
(* the rest of the daemon says: the lock state and the boot level.         *)
(***************************************************************************)
is_given_time_passed(t, inclusive) == IF inclusive THEN now >= t ELSE now > t

Refusal(p, purpose, nonce, env) ==
    CASE purpose = "wrap" -> "INCOMPATIBLE_PURPOSE"
      [] purpose = "agree" /\ p.alg # "ec" -> "UNSUPPORTED_PURPOSE"
      [] purpose \in {"verify", "encrypt"} /\ p.alg \in {"rsa", "ec"} -> "UNSUPPORTED_PURPOSE"
      [] p.active # -1 /\ ~is_given_time_passed(p.active, TRUE) -> "KEY_NOT_YET_VALID"
      [] purpose \in {"encrypt", "sign"} /\ p.originationExpires # -1
            /\ is_given_time_passed(p.originationExpires, FALSE) -> "KEY_EXPIRED"
      [] purpose \in {"decrypt", "verify"} /\ p.usageExpires # -1
            /\ is_given_time_passed(p.usageExpires, FALSE) -> "KEY_EXPIRED"
      [] purpose \notin p.purposes -> "INCOMPATIBLE_PURPOSE"
      [] p.sids # {} /\ p.noAuth -> "INVALID_KEY_BLOB"
      [] (p.types = {}) # (p.sids = {}) -> "KEY_USER_NOT_AUTHENTICATED"
      [] purpose \in {"encrypt", "sign"} /\ ~p.callerNonce /\ nonce -> "CALLER_NONCE_PROHIBITED"
      [] p.unlockedDevice /\ env.locked -> "DEVICE_LOCKED"
      [] p.maxBootLevel /\ env.late -> "BOOT_LEVEL_EXCEEDED"
      [] OTHER -> "none"

\* Mutant of Grants: the age of the token is not looked at.
MutGrants(p) ==
    LET matching == {e \in table : satisfies(e, p.sids, p.types)}
    IN IF p.sids = {} THEN {[st |-> "NoAuthRequired", hat |-> NoHat]}
       ELSE IF p.timeout = -1 THEN {[st |-> "OpAuthRequired", hat |-> NoHat]}
       ELSE {[st |-> "TimeStampRequired", hat |-> e] : e \in find_auth_token_entry(matching)}

\* The deferred authorizations the operation may start with: none at all is a
\* refusal with KEY_USER_NOT_AUTHENTICATED.
Grants(p) ==
    LET matching == {e \in table : satisfies(e, p.sids, p.types)}
    IN IF p.sids = {} THEN {[st |-> "NoAuthRequired", hat |-> NoHat]}
       ELSE IF p.timeout = -1 THEN {[st |-> "OpAuthRequired", hat |-> NoHat]}
       ELSE {[st |-> IF TimestampNeeded THEN "TimeStampRequired" ELSE "NoAuthRequired", hat |-> e]
               : e \in {f \in find_auth_token_entry(matching) :
                            TokenAge(f) \div Second =< p.timeout}}

authorize_create(o, k, purpose, nonce, env) ==
    /\ op[o] = NoOp
    /\ Refusal(Params[k], purpose, nonce, env) = "none"
    /\ \E g \in Grants(Params[k]) :
          op' = [op EXCEPT ![o] = [st |-> g.st, key |-> k, hat |-> g.hat, began |-> now, tst |-> "none"]]
    /\ UNCHANGED <<now, table, map, counter, adding, served>>

-----------------------------------------------------------------------------
(***************************************************************************)
(* The receivers                                                           *)
(***************************************************************************)

\* Mutant of add_receiver: the cleanup keeps only the new receiver.
MutCleanup(o, live) ==
    IF counter = 1
    THEN /\ map' = {o}
         /\ counter' = CLEANUP_PERIOD + 1
    ELSE /\ map' = map \union {o}
         /\ counter' = counter - 1

\* add_receiver: every CLEANUP_PERIOD + 1 calls the receivers whose operation
\* is gone are thrown out.
add_receiver(o, live) ==
    IF counter = 1
    THEN /\ map' = (map \union {o}) \intersect live
         /\ counter' = CLEANUP_PERIOD + 1
    ELSE /\ map' = map \union {o}
         /\ counter' = counter - 1

\* After KeyMint's begin.
finalize_create_authorization(o) ==
    /\ \/ /\ op[o].st = "OpAuthRequired"
          /\ add_receiver(o, {c \in Ops : Alive(c)})
          /\ op' = [op EXCEPT ![o].st = "WaitingOpAuth"]
       \/ /\ op[o].st = "TimeStampRequired"
          /\ op' = [op EXCEPT ![o].st = "WaitingTimeStamp", ![o].tst = "asked"]
          /\ UNCHANGED <<map, counter>>
       \/ /\ op[o].st = "NoAuthRequired"
          /\ op' = [op EXCEPT ![o].st = "Free"]
          /\ UNCHANGED <<map, counter>>
    /\ UNCHANGED <<now, table, adding, served>>

\* addAuthToken, after the token was accepted: first the table, ...
add_auth_token(t, tok) ==
    /\ adding[t] = NotAdding
    /\ tok.challenge \in Ops => op[tok.challenge].st \notin {"none", "OpAuthRequired"}
    /\ table' = insert_auth_token_entry(tok)
    /\ adding' = [adding EXCEPT ![t] = [at |-> "inserted", tok |-> tok, time |-> now]]
    /\ UNCHANGED <<now, map, counter, op, served>>

\* ... then the receiver is taken out of the map, under its lock, ...
TakeReceiver(t) ==
    /\ adding[t].at = "inserted"
    /\ LET o == adding[t].tok.challenge
       IN IF o \in map
          THEN /\ map' = map \ {o}
               /\ adding' = [adding EXCEPT ![t].at = "taken"]
          ELSE /\ adding' = [adding EXCEPT ![t] = NotAdding]
               /\ UNCHANGED map
    /\ UNCHANGED <<now, table, counter, op, served>>

\* ... and is given the token outside the lock.  A token of another user or of
\* another authenticator is only logged.
GiveToken(t) ==
    /\ adding[t].at = "taken"
    /\ LET o == adding[t].tok.challenge
       IN IF Alive(o)
          THEN /\ op' = [op EXCEPT ![o].hat = [tok |-> adding[t].tok, time |-> adding[t].time]]
               /\ served' = served \union {o}
          ELSE UNCHANGED <<op, served>>
    /\ adding' = [adding EXCEPT ![t] = NotAdding]
    /\ UNCHANGED <<now, table, map, counter>>

\* The worker asks the secure clock.
timestamp_token_request(o) ==
    /\ op[o].st \in {"WaitingTimeStamp", "Receiving"}
    /\ op[o].tst = "asked"
    /\ \E r \in {"ok"} \union (IF Faults THEN {"error"} ELSE {}) :
          op' = [op EXCEPT ![o].tst = r]
    /\ UNCHANGED <<now, table, map, counter, adding, served>>

(***************************************************************************)
(* get_auth_tokens, called by before_update and before_finish.  The hat is *)
(* taken out of the request; a timestamp is then waited for, and when the  *)
(* clock failed the hat is gone.  A call that finds no hat fails and       *)
(* changes nothing.                                                        *)
(***************************************************************************)
get_auth_tokens(o) ==
    /\ op[o].st \in {"WaitingOpAuth", "WaitingTimeStamp"}
    /\ op[o].hat # NoHat
    /\ \/ /\ op[o].st = "WaitingOpAuth"
          /\ op' = [op EXCEPT ![o].st = "Token"]
       \/ /\ op[o].st = "WaitingTimeStamp"
          /\ op' = [op EXCEPT ![o].st = "Receiving"]
    /\ UNCHANGED <<now, table, map, counter, adding, served>>

ReceiveTimeStamp(o) ==
    /\ op[o].st = "Receiving"
    /\ \/ op[o].tst = "ok" /\ op' = [op EXCEPT ![o].st = "Token"]
       \/ op[o].tst = "error" /\ op' = [op EXCEPT ![o].st = "WaitingTimeStamp", ![o].hat = NoHat]
    /\ UNCHANGED <<now, table, map, counter, adding, served>>

\* The operation ends: finished, aborted, pruned, or its begin failed.
Drop(o) ==
    /\ Alive(o)
    /\ op[o].st # "Receiving"
    /\ op' = [op EXCEPT ![o] = [st |-> "dropped"]]
    /\ UNCHANGED <<now, table, map, counter, adding, served>>

Tick ==
    /\ now < MaxTime
    /\ now' = now + 1
    /\ UNCHANGED <<table, map, counter, op, adding, served>>

Purposes == {"sign", "verify", "encrypt", "decrypt", "agree", "wrap"}

Next ==
    \/ \E o \in Ops, k \in Keys, purpose \in Purposes, nonce \in BOOLEAN,
          env \in [locked : BOOLEAN, late : BOOLEAN] : authorize_create(o, k, purpose, nonce, env)
    \/ \E o \in Ops :
          \/ finalize_create_authorization(o)
          \/ timestamp_token_request(o)
          \/ get_auth_tokens(o)
          \/ ReceiveTimeStamp(o)
          \/ Drop(o)
    \/ \E t \in Threads :
          \/ \E tok \in Tokens : add_auth_token(t, tok)
          \/ TakeReceiver(t)
          \/ GiveToken(t)
    \/ Tick

Spec == Init /\ [][Next]_vars

-----------------------------------------------------------------------------
(***************************************************************************)
(* Properties                                                              *)
(***************************************************************************)

\* A waiting operation has its receiver in the map, or a thread is about to
\* give it a token, or it has been given one: no cleanup and no other
\* operation's token takes the receiver away.
WaitingIsReachable ==
    \A o \in Ops : op[o].st = "WaitingOpAuth" =>
        \/ o \in map
        \/ o \in served
        \/ \E t \in Threads : adding[t].at = "taken" /\ adding[t].tok.challenge = o

\* What authorizes an operation is a token of one of the key's users and
\* authenticators that was less than a second past the timeout when the
\* operation began, or a token made for this very operation.
TokenFits ==
    \A o \in Ops : op[o].st \in {"Token", "Free", "Receiving"} /\ Params[op[o].key].sids # {} =>
        LET p == Params[op[o].key]
            h == op[o].hat
        IN IF p.timeout = -1 THEN h.tok.challenge = o
           ELSE /\ satisfies(h, p.sids, p.types)
                /\ op[o].began - h.time < (p.timeout + 1) * Second

=============================================================================
