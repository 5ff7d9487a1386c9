--------------------------- MODULE SoterIdentities ---------------------------
(***************************************************************************)
(* The local SOTER identities (soter-ta): the configuration that the web UI*)
(* changes, the ledger of keys of each identity, the broker that answers   *)
(* the calls of the hooked SoterServer, and the bridge in that process.    *)
(*                                                                         *)
(* A change and an answer work under one lock of the directory; a change   *)
(* takes two writes and its process may die between them.  The bridge sends*)
(* one call at a time, gives up after a timeout, and works from a snapshot *)
(* of the selected callers that is refreshed now and then.                 *)
(*                                                                         *)
(* A CPU-ID is a number: an identity's own is its id, 0 is none.  A key    *)
(* carries the CPU-ID it was generated under, which the code does not keep.*)
(* Sizes are below the limits on identities and on applications.           *)
(***************************************************************************)
EXTENDS Integers, FiniteSets

CONSTANTS
    Uids,         \* the callers
    Targets,      \* packages of a user
    TargetsOf,    \* the packages that share a uid
    Overrides,    \* the CPU-IDs an application can be given
    Knames,       \* the names of auth keys
    Threads,      \* Binder threads of SoterServer
    MaxSessions,  \* sign sessions of a ledger: 512 in the code
    MaxUids,      \* callers of a ledger: 512 in the code
    MaxAuth,      \* auth keys of a caller: 64 in the code
    MaxIds, MaxChanges, MaxCalls, MaxHosts  \* bounds

\* Identities are numbered from one, an override is a CPU-ID and not the mark
\* for none, and the packages of a caller are packages.
SoterAssumption ==
    /\ MaxIds \in Nat \ {0}
    /\ Overrides \subseteq Nat \ {0}
    /\ TargetsOf \in [Uids -> SUBSET Targets]

VARIABLES
    config,    \* identities.json
    material,  \* the ledger of each identity, NoFile when there is none
    pending,   \* the change that holds the lock half-way
    changes,   \* changes so far
    lastId,    \* the last identity made; ids are random and never come back
    client,    \* the bridge in SoterServer
    at,        \* what each Binder thread does
    requests,  \* calls that a broker has or will read
    replies,   \* answers on the way to the bridge
    calls,     \* calls so far
    hosts,     \* SoterServer processes so far
    minted,    \* key pairs so far
    given      \* the answers that threads got

vars == <<config, material, pending, changes, lastId, client, at, requests, replies, calls, hosts,
          minted, given>>
bridgeVars == <<client, at, requests, replies, calls, hosts, minted, given>>
configVars == <<config, material, pending, changes, lastId>>

Ids    == 1..MaxIds
NoApp  == [identity |-> 0, cpu |-> 0]
NoKey  == [n |-> 0, cpu |-> 0]
NoFile == [cpu |-> 0]
NoBlob == [key |-> NoKey, counter |-> 0, cpu |-> 0]
None   == [k |-> "none"]
Idle   == [st |-> "idle", n |-> 0]
NoClient == [on |-> FALSE, fresh |-> FALSE, uids |-> {}, open |-> FALSE]

Transactions ==
    {"read", "generate_ask", "export_ask", "generate_auth", "export_auth", "remove_auth",
     "remove_all", "init_sign", "finish_sign"}

NoUid == [there |-> FALSE, counter |-> 0, ask |-> NoKey, auth |-> [k \in Knames |-> NoKey]]

generate_local(id) ==
    [cpu |-> id, over |-> [u \in Uids |-> 0], uids |-> [u \in Uids |-> NoUid],
     sessions |-> [s \in 1..MaxSessions |-> 0]]

\* A fresh install, or one whose user made an identity and gave it to all.
Init ==
    /\ lastId \in {0, 1}
    /\ config = [enabled |-> lastId = 1, ids |-> 1..lastId,
                 apps |-> [t \in Targets |-> [identity |-> lastId, cpu |-> 0]]]
    /\ material = [id \in Ids |-> IF id <= lastId THEN generate_local(id) ELSE NoFile]
    /\ pending = None /\ changes = 0
    /\ client = NoClient
    /\ at = [t \in Threads |-> Idle]
    /\ requests = {} /\ replies = {} /\ calls = 0 /\ hosts = 1 /\ minted = 0 /\ given = {}
-----------------------------------------------------------------------------
(***************************************************************************)
(* The configuration.                                                      *)
(***************************************************************************)
Choices(uid) == {config.apps[t] : t \in TargetsOf[uid]}

\* The application that a caller counts as; packages that share the uid must
\* have the same one.
selected(uid) ==
    IF config.enabled /\ Cardinality(Choices(uid)) = 1 THEN CHOOSE a \in Choices(uid) : TRUE ELSE NoApp

selected_uids == {u \in Uids : selected(u) # NoApp}

active_config == config.enabled /\ \E t \in Targets : config.apps[t] # NoApp

\* A change starts: it waits for the lock.
Changing == pending = None /\ changes < MaxChanges /\ changes' = changes + 1

SetEnabled ==
    /\ Changing
    /\ config' = [config EXCEPT !.enabled = ~@]
    /\ UNCHANGED <<material, pending, lastId, bridgeVars>>

\* The material of a new identity is written before the configuration.
AddWrites ==
    /\ Changing /\ lastId < MaxIds
    /\ lastId' = lastId + 1
    /\ material' = [material EXCEPT ![lastId'] = generate_local(lastId')]
    /\ pending' = [k |-> "add", id |-> lastId']
    /\ UNCHANGED <<config, bridgeVars>>

AddCommits ==
    /\ pending.k = "add"
    /\ config' = [config EXCEPT !.ids = @ \cup {pending.id}]
    /\ pending' = None
    /\ UNCHANGED <<material, changes, lastId, bridgeVars>>

\* Mutant: the material goes before the routing.
MutRemoveCommits(id) ==
    /\ Changing /\ id <= lastId
    /\ material' = [material EXCEPT ![id] = NoFile]
    /\ pending' = [k |-> "remove", id |-> id]
    /\ UNCHANGED <<config, lastId, bridgeVars>>

\* The routing goes before the material; an id that is gone already is fine.
RemoveCommits(id) ==
    /\ Changing /\ id <= lastId
    /\ config' = [config EXCEPT
                    !.ids = @ \ {id},
                    !.apps = [t \in Targets |-> IF @[t].identity = id THEN NoApp ELSE @[t]]]
    /\ pending' = [k |-> "remove", id |-> id]
    /\ UNCHANGED <<material, lastId, bridgeVars>>

RemoveUnlinks ==
    /\ pending.k = "remove"
    /\ material' = [material EXCEPT ![pending.id] = NoFile]
    /\ pending' = None
    /\ UNCHANGED <<config, changes, lastId, bridgeVars>>

\* The process of a change dies, or its second write fails.
ChangeStops ==
    /\ pending # None
    /\ pending' = None
    /\ UNCHANGED <<config, material, changes, lastId, bridgeVars>>

\* Assign one application, or take its assignment back.
SetApp(t, app) ==
    /\ Changing
    /\ app = NoApp \/ app.identity \in config.ids
    /\ config' = [config EXCEPT !.apps[t] = app]
    /\ UNCHANGED <<material, pending, lastId, bridgeVars>>

\* Assign several; those that have an identity keep it.
SetApps(ts, id) ==
    /\ Changing /\ ts # {} /\ id \in config.ids
    /\ config' = [config EXCEPT
                    !.apps = [t \in Targets |-> IF t \in ts /\ @[t] = NoApp
                                                THEN [identity |-> id, cpu |-> 0] ELSE @[t]]]
    /\ UNCHANGED <<material, pending, lastId, bridgeVars>>

Change ==
    \/ SetEnabled \/ AddWrites \/ AddCommits \/ RemoveUnlinks \/ ChangeStops
    \/ \E id \in Ids : RemoveCommits(id)
    \/ \E t \in Targets : \E app \in {NoApp} \cup [identity : Ids, cpu : {0} \cup Overrides] : SetApp(t, app)
    \/ \E ts \in SUBSET Targets, id \in Ids : SetApps(ts, id)
-----------------------------------------------------------------------------
(***************************************************************************)
(* The bridge in SoterServer.                                              *)
(***************************************************************************)
\* The supervisor gives the process its channels, the bridge asks who is selected.
Inject ==
    /\ ~client.on /\ active_config
    /\ client' = [on |-> TRUE, fresh |-> TRUE, uids |-> selected_uids, open |-> TRUE]
    /\ UNCHANGED <<configVars, at, requests, replies, calls, hosts, minted, given>>

\* The authorization thread reads the configuration anew, without the lock.
Refresh ==
    /\ client.fresh
    /\ client' = [client EXCEPT !.uids = selected_uids]
    /\ UNCHANGED <<configVars, at, requests, replies, calls, hosts, minted, given>>

\* It got no answer: it ends, and nothing is forwarded any more.
RefreshFails ==
    /\ client.fresh
    /\ client' = [client EXCEPT !.fresh = FALSE]
    /\ UNCHANGED <<configVars, at, requests, replies, calls, hosts, minted, given>>

\* The calls mutex: a second thread is not made to wait for the first.
Busy == \E t \in Threads : at[t].st = "waiting"

\* A call of a selected caller.  Without a fresh snapshot that has the caller,
\* the mutex and an open channel it is answered UNAVAILABLE at once; the calls
\* of all other callers go to the HAL.
forward(t, uid, tx) ==
    /\ at[t] = Idle /\ calls < MaxCalls
    /\ client.fresh /\ uid \in client.uids
    /\ ~Busy /\ client.open
    /\ calls' = calls + 1
    /\ requests' = requests \cup {[host |-> hosts, n |-> calls', uid |-> uid, tx |-> tx]}
    /\ at' = [at EXCEPT ![t] = [st |-> "waiting", n |-> calls']]
    /\ UNCHANGED <<configVars, client, replies, hosts, minted, given>>

\* The frame that is first on the channel is the answer.
Receive(t) ==
    /\ at[t].st = "waiting"
    /\ \E r \in replies :
         /\ r.host = hosts /\ \A q \in replies : q.host = hosts => r.n <= q.n
         /\ replies' = replies \ {r}
         /\ given' = given \cup {[to |-> at[t].n, of |-> r.n, blob |-> r.blob]}
    /\ at' = [at EXCEPT ![t] = Idle]
    /\ UNCHANGED <<configVars, client, requests, calls, hosts, minted>>

\* No answer in time, or the other end is gone: the channel is not used again.
GiveUp(t) ==
    /\ at[t].st = "waiting"
    /\ client' = [client EXCEPT !.open = FALSE]
    /\ at' = [at EXCEPT ![t] = Idle]
    /\ UNCHANGED <<configVars, requests, replies, calls, hosts, minted, given>>

\* SoterServer is started anew; its old broker may still be at work.
HostRestarts ==
    /\ hosts < MaxHosts
    /\ hosts' = hosts + 1
    /\ client' = NoClient
    /\ at' = [t \in Threads |-> Idle]
    /\ replies' = {}
    /\ UNCHANGED <<configVars, requests, calls, minted, given>>
-----------------------------------------------------------------------------
(***************************************************************************)
(* The broker: answer_at, under the lock.                                  *)
(***************************************************************************)
DropSessions(sessions, uid) == [s \in DOMAIN sessions |-> IF sessions[s] = uid THEN 0 ELSE sessions[s]]

\* Mutant: the sessions end with the old CPU-ID, the keys do not.
MutApplyOverride(l, uid, cpu) ==
    [l EXCEPT !.over[uid] = cpu,
              !.sessions = IF l.over[uid] \in {0, cpu} THEN @ ELSE DropSessions(@, uid)]

\* Another CPU-ID than in the last call of this caller ends its keys.
ApplyOverride(l, uid, cpu) ==
    IF l.over[uid] \in {0, cpu} THEN [l EXCEPT !.over[uid] = cpu]
    ELSE [l EXCEPT !.over[uid] = cpu,
                   !.uids[uid] = IF @.there THEN [@ EXCEPT !.ask = NoKey, !.auth = NoUid.auth] ELSE @,
                   !.sessions = DropSessions(@, uid)]

CallerFits(l, uid, tx) ==
    /\ l.uids[uid].there \/ Cardinality({u \in Uids : l.uids[u].there}) < MaxUids
    /\ tx = "generate_auth" =>
         Cardinality({k \in Knames : l.uids[uid].auth[k] # NoKey}) < MaxAuth

\* What a transaction makes of the ledger, and the blob it exports.  A key is
\* only made, and may fail to be, when there is none yet.
Result(l, blob) == [ledger |-> l, blob |-> blob, made |-> FALSE]
Made(l) == [ledger |-> l, blob |-> NoBlob, made |-> TRUE]

next_counter(l, uid) == [l EXCEPT !.uids[uid].counter = @ + 1]

Blob(l, uid, key) == [key |-> key, counter |-> l.uids[uid].counter + 1, cpu |-> l.cpu]

generate_ask(l, uid, key) ==
    LET entered == [l EXCEPT !.uids[uid].there = TRUE]
    IN  IF l.uids[uid].ask # NoKey THEN {Result(l, NoBlob)}
        ELSE {Result(entered, NoBlob), Made([entered EXCEPT !.uids[uid].ask = key])}

generate_auth(l, uid, k, key) ==
    IF l.uids[uid].ask = NoKey \/ l.uids[uid].auth[k] # NoKey THEN {Result(l, NoBlob)}
    ELSE {Result(l, NoBlob), Made([l EXCEPT !.uids[uid].auth[k] = key])}

export_ask(l, uid) ==
    IF l.uids[uid].ask = NoKey THEN {Result(l, NoBlob)}
    ELSE {Result(next_counter(l, uid), Blob(l, uid, l.uids[uid].ask))}

export_auth(l, uid, k) ==
    IF l.uids[uid].ask = NoKey \/ l.uids[uid].auth[k] = NoKey THEN {Result(l, NoBlob)}
    ELSE {Result(next_counter(l, uid), Blob(l, uid, l.uids[uid].auth[k]))}

remove_auth(l, uid, k) == {Result([l EXCEPT !.uids[uid].auth[k] = NoKey], NoBlob)}

remove_all_uid(l, uid) ==
    {Result([l EXCEPT !.uids[uid] = NoUid, !.sessions = DropSessions(@, uid)], NoBlob)}

init_sign(l, uid, k) ==
    LET free == {s \in 1..MaxSessions : l.sessions[s] = 0}
    IN  IF l.uids[uid].auth[k] = NoKey \/ free = {} THEN {Result(l, NoBlob)}
        ELSE {Result([l EXCEPT !.sessions[s] = uid], NoBlob) : s \in free}

\* The broker has no platform to show a match: a session stays unsigned and open.
finish_sign(l, uid) == {Result(l, NoBlob) : s \in {s \in 1..MaxSessions : l.sessions[s] = uid}}

handle_request(l, uid, tx, key) ==
    CASE tx = "read"          -> {Result(l, NoBlob)}
      [] tx = "generate_ask"  -> generate_ask(l, uid, key)
      [] tx = "export_ask"    -> export_ask(l, uid)
      [] tx = "generate_auth" -> UNION {generate_auth(l, uid, k, key) : k \in Knames}
      [] tx = "export_auth"   -> UNION {export_auth(l, uid, k) : k \in Knames}
      [] tx = "remove_auth"   -> UNION {remove_auth(l, uid, k) : k \in Knames}
      [] tx = "remove_all"    -> remove_all_uid(l, uid)
      [] tx = "init_sign"     -> UNION {init_sign(l, uid, k) : k \in Knames}
      [] tx = "finish_sign"   -> finish_sign(l, uid)

\* The bridge only reads what the broker of its own process wrote.
Reply(q, blob) ==
    /\ requests' = requests \ {q}
    /\ replies' = IF q.host = hosts THEN replies \cup {[host |-> q.host, n |-> q.n, blob |-> blob]}
                  ELSE replies

\* The ledger is written, under its own CPU-ID again, before the answer leaves;
\* when only the last sync of the directory fails the answer is an error.
Store(id, l) == material' = [material EXCEPT ![id] = [l EXCEPT !.cpu = material[id].cpu]]

Answer(q) ==
    LET app == selected(q.uid)
        id  == app.identity
        cpu == IF app.cpu = 0 THEN id ELSE app.cpu
    IN  /\ pending = None
        /\ app # NoApp /\ material[id] # NoFile /\ material[id].cpu = id
        /\ LET l   == ApplyOverride(material[id], q.uid, cpu)
               key == [n |-> minted + 1, cpu |-> cpu]
           IN  /\ CallerFits(l, q.uid, q.tx)
               /\ \E r \in handle_request([l EXCEPT !.cpu = cpu], q.uid, q.tx, key) :
                    /\ Store(id, r.ledger)
                    /\ minted' = IF r.made THEN minted + 1 ELSE minted
                    /\ \E blob \in {r.blob, NoBlob} : Reply(q, blob)
        /\ UNCHANGED <<config, pending, changes, lastId, client, at, calls, hosts, given>>

\* Nothing is written: the caller is not selected, names another uid or the
\* session of another, is one too many, or the files cannot be read or written.
AnswerRefuses(q) ==
    /\ pending = None
    /\ Reply(q, NoBlob)
    /\ UNCHANGED <<configVars, client, at, calls, hosts, minted, given>>

Next ==
    \/ Change
    \/ Inject \/ Refresh \/ RefreshFails \/ HostRestarts
    \/ \E t \in Threads :
         \/ \E uid \in Uids, tx \in Transactions : forward(t, uid, tx)
         \/ Receive(t) \/ GiveUp(t)
    \/ \E q \in requests : Answer(q) \/ AnswerRefuses(q)

Spec == Init /\ [][Next]_vars
-----------------------------------------------------------------------------
(***************************************************************************)
(* Properties.                                                             *)
(***************************************************************************)
\* "cannot leave an app routed to a missing identity": wherever a change stops,
\* an identity that applications are routed to has its material, under the
\* CPU-ID that the configuration gives for it.
RoutedHasMaterial ==
    \A t \in Targets : config.apps[t] # NoApp =>
        LET id == config.apps[t].identity
        IN  id \in config.ids /\ material[id] # NoFile /\ material[id].cpu = id

\* No two blobs that left have the same key and the same counter, also when
\* answers were lost, ledgers removed and counters started again.
CountersUnique ==
    \A a, b \in given :
        a.blob # NoBlob /\ a.blob.key = b.blob.key /\ a.blob.counter = b.blob.counter => a.of = b.of

\* A blob names the CPU-ID that its key was generated under: a change of the
\* identity or of the override, back and forth, never exports an older key.
KeysFollowCpu == \A a \in given : a.blob # NoBlob => a.blob.cpu = a.blob.key.cpu

\* A thread gets the answer to its own call: the late answer to a call that was
\* given up, or that another process made, is never taken for it.
AnswersOwn == \A a \in given : a.to = a.of

\* What the callers were given is theirs, current and never the same twice.
AnswersSound == AnswersOwn /\ CountersUnique /\ KeysFollowCpu
=============================================================================
