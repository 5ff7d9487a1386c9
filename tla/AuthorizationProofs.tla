------------------------ MODULE AuthorizationProofs -------------------------
(***************************************************************************)
(* Proofs about what authorizes the use of a key: SoterIdentities, for     *)
(* every set of callers, packages, key names and threads, and for any      *)
(* limits on ledgers and sessions; AuthTokens, for every set of keys,      *)
(* operations, tokens and threads; and SuperKeys, for every set of users,  *)
(* notifications, clients and keys, whether or not calls fail.             *)
(***************************************************************************)
EXTENDS Authorization, FiniteSetTheorems, TLAPS

App    == [identity : {0} \cup Ids, cpu : {0} \cup Overrides]
Key    == [n : Nat, cpu : Nat]
UidRec == [there : BOOLEAN, counter : Nat, ask : Key, auth : [Knames -> Key]]
Ledger ==
    [cpu : Nat, over : [Uids -> Nat], uids : [Uids -> UidRec],
     sessions : [1..MaxSessions -> {0} \cup Uids]]
BlobRec == [key : Key, counter : Nat, cpu : Nat]

ConfigOK ==
    /\ config \in [enabled : BOOLEAN, ids : SUBSET Ids, apps : [Targets -> App]]
    /\ lastId \in Nat
    /\ pending \in {None} \cup [k : {"add", "remove"}, id : Ids]
    /\ material \in [Ids -> {NoFile} \cup Ledger]

BridgeOK ==
    /\ client \in [on : BOOLEAN, fresh : BOOLEAN, uids : SUBSET Uids, open : BOOLEAN]
    /\ at \in [Threads -> [st : {"idle", "waiting"}, n : Nat]]
    /\ requests \subseteq [host : Nat, n : Nat, uid : Uids, tx : Transactions]
    /\ replies \subseteq [host : Nat, n : Nat, blob : BlobRec]
    /\ given \subseteq [to : Nat, of : Nat, blob : BlobRec]
    /\ calls \in Nat /\ hosts \in Nat /\ minted \in Nat

TypeOK == ConfigOK /\ BridgeOK
-----------------------------------------------------------------------------
(***************************************************************************)
(* The inductive invariant, first of the configuration: an identity that   *)
(* is listed has its material, and what is half done holds back the other  *)
(* half: the material that is about to be listed, or to go.                *)
(***************************************************************************)
HasMaterial(id) == material[id] # NoFile /\ material[id].cpu = id

ListedHasMaterial == \A id \in config.ids : HasMaterial(id)

RoutedIsListed == \A t \in Targets : config.apps[t] # NoApp => config.apps[t].identity \in config.ids

HalfDone ==
    /\ pending.k = "add" => HasMaterial(pending.id)
    /\ pending.k = "remove" => pending.id \notin config.ids

ConfigInv == ConfigOK /\ ListedHasMaterial /\ RoutedIsListed /\ HalfDone

(***************************************************************************)
(* Of the channel: as long as it is open, it carries the call of the one   *)
(* thread that waits, or its answer, and else nothing.                     *)
(***************************************************************************)
OnHost(s) == {x \in s : x.host = hosts}
Waiting   == {t \in Threads : at[t].st = "waiting"}

ChannelOpen ==
    /\ client.open => client.on
    /\ Waiting # {} => client.open
    /\ \A t, u \in Waiting : t = u

ChannelQuiet ==
    ~client.on \/ (client.open /\ Waiting = {}) => OnHost(requests) = {} /\ OnHost(replies) = {}

ChannelOwn ==
    \A t \in Waiting :
      /\ \A q \in OnHost(requests) :
           q.n = at[t].n /\ OnHost(requests) = {q} /\ OnHost(replies) = {}
      /\ \A r \in OnHost(replies) :
           r.n = at[t].n /\ OnHost(replies) = {r} /\ OnHost(requests) = {}

HostsInOrder == \A x \in requests \cup replies : x.host <= hosts

ChannelInv == ChannelOpen /\ ChannelQuiet /\ ChannelOwn /\ HostsInOrder /\ AnswersOwn

(***************************************************************************)
(* Of the keys: a key pair is in one ledger for one caller, carries the    *)
(* CPU-ID of that caller's last call, and its counter there is not behind  *)
(* any blob of it that left.                                               *)
(***************************************************************************)
Files == {id \in Ids : material[id] # NoFile}

Held(l, u) == ({l.uids[u].ask} \cup {l.uids[u].auth[k] : k \in Knames}) \ {NoKey}

HeldOf(id, u) == Held(material[id], u)

KeysMinted ==
    \A id \in Files, u \in Uids : \A key \in HeldOf(id, u) :
        key.n <= minted /\ key.cpu # 0 /\ key.cpu = material[id].over[u]

HeldEntered ==
    \A id \in Files, u \in Uids : HeldOf(id, u) # {} => material[id].uids[u].there

KeysApart ==
    \A i, j \in Files, u, v \in Uids : HeldOf(i, u) \cap HeldOf(j, v) # {} => i = j /\ u = v

\* What left the broker, to which call: answers on the way and answers given.
Left == {[of |-> r.n, blob |-> r.blob] : r \in replies} \cup {[of |-> a.of, blob |-> a.blob] : a \in given}

BlobsMinted ==
    \A x \in Left : x.blob # NoBlob =>
        x.blob.key.n <= minted /\ x.blob.cpu = x.blob.key.cpu /\ x.blob.key # NoKey

CounterAhead ==
    \A x \in Left, id \in Files, u \in Uids :
        x.blob.key \in HeldOf(id, u) => x.blob.counter <= material[id].uids[u].counter

LeftUnique ==
    \A x, y \in Left :
        /\ x.blob # NoBlob
        /\ x.blob.key = y.blob.key /\ x.blob.counter = y.blob.counter
        => x.of = y.of

KeysInv == KeysMinted /\ HeldEntered /\ KeysApart /\ BlobsMinted /\ CounterAhead /\ LeftUnique

IInv == ConfigInv /\ BridgeOK /\ ChannelInv /\ KeysInv
-----------------------------------------------------------------------------
\* The application a caller counts as is routed to a listed identity.
LEMMA SelectedListed ==
    ASSUME SoterAssumption, ConfigInv, NEW uid \in Uids, selected(uid) # NoApp
    PROVE  /\ selected(uid) \in App
           /\ selected(uid).identity \in config.ids
           /\ selected(uid).identity \in Ids
<1>1. Cardinality(Choices(uid)) = 1 /\ selected(uid) = CHOOSE a \in Choices(uid) : TRUE
  BY DEF selected
<1>2. Choices(uid) # {}
  BY <1>1, FS_EmptySet
<1>3. selected(uid) \in Choices(uid)
  BY <1>1, <1>2
<1>4. PICK t \in TargetsOf[uid] : selected(uid) = config.apps[t]
  BY <1>3 DEF Choices
<1>5. t \in Targets
  BY DEF SoterAssumption
<1> QED BY <1>4, <1>5 DEF ConfigInv, ConfigOK, RoutedIsListed
-----------------------------------------------------------------------------
(***************************************************************************)
(* The ledger.                                                             *)
(***************************************************************************)
\* The record of one caller is replaced.
LEMMA UidReplaced ==
    ASSUME NEW l \in Ledger, NEW uid \in Uids, NEW x \in UidRec
    PROVE  LET m == [l EXCEPT !.uids[uid] = x]
           IN  /\ m \in Ledger
               /\ m.cpu = l.cpu /\ m.over = l.over /\ m.sessions = l.sessions
               /\ m.uids[uid] = x
               /\ \A v \in Uids \ {uid} : m.uids[v] = l.uids[v]
BY DEF Ledger

LEMMA NoUidType == NoUid \in UidRec /\ NoKey \in Key /\ NoUid.auth = [k \in Knames |-> NoKey]
BY DEF NoUid, UidRec, Key, NoKey

LEMMA NoUidHolds ==
    ASSUME NEW l, NEW u, l.uids[u].ask = NoKey, \A k \in Knames : l.uids[u].auth[k] = NoKey
    PROVE  Held(l, u) = {}
BY DEF Held

LEMMA NewLedger ==
    ASSUME NEW id \in Nat
    PROVE  /\ generate_local(id) \in Ledger
           /\ generate_local(id).cpu = id
           /\ \A u \in Uids : Held(generate_local(id), u) = {}
<1> DEFINE l == generate_local(id)
<1>1. l \in Ledger /\ l.cpu = id
  BY NoUidType DEF generate_local, Ledger
<1>2. ASSUME NEW u \in Uids PROVE Held(l, u) = {}
  <2>1. l.uids[u] = NoUid
    BY DEF generate_local
  <2>2. l.uids[u].ask = NoKey /\ \A k \in Knames : l.uids[u].auth[k] = NoKey
    BY <2>1, NoUidType DEF NoUid
  <2> QED BY <2>2, NoUidHolds
<1> QED BY <1>1, <1>2

\* What apply_override does to a ledger.
LEMMA Overridden ==
    ASSUME NEW l \in Ledger, NEW uid \in Uids, NEW cpu \in Nat,
           Held(l, uid) # {} => l.uids[uid].there
    PROVE  LET m == ApplyOverride(l, uid, cpu)
           IN  /\ m \in Ledger
               /\ m.cpu = l.cpu /\ m.over[uid] = cpu
               /\ \A v \in Uids \ {uid} : m.over[v] = l.over[v] /\ m.uids[v] = l.uids[v]
               /\ m.uids[uid].counter = l.uids[uid].counter
               /\ m.uids[uid].there = l.uids[uid].there
               /\ Held(m, uid) \subseteq Held(l, uid)
               /\ Held(m, uid) # {} => l.over[uid] \in {0, cpu}
<1> DEFINE m == ApplyOverride(l, uid, cpu)
           x == IF l.uids[uid].there THEN [l.uids[uid] EXCEPT !.ask = NoKey, !.auth = NoUid.auth]
                ELSE l.uids[uid]
           d == DropSessions(l.sessions, uid)
<1>1. l.over \in [Uids -> Nat] /\ l.uids \in [Uids -> UidRec] /\ l.uids[uid] \in UidRec
  BY DEF Ledger
<1>2. CASE l.over[uid] \in {0, cpu}
  <2>1. m = [l EXCEPT !.over[uid] = cpu]
    BY <1>2 DEF ApplyOverride
  <2> HIDE DEF m
  <2>2. /\ m \in Ledger /\ m.cpu = l.cpu /\ m.uids = l.uids
        /\ m.over[uid] = cpu /\ \A v \in Uids \ {uid} : m.over[v] = l.over[v]
    BY <2>1 DEF Ledger
  <2>3. Held(m, uid) = Held(l, uid)
    BY <2>2 DEF Held
  <2> QED BY <1>2, <2>2, <2>3 DEF m
<1>3. CASE l.over[uid] \notin {0, cpu}
  <2>1. m = [l EXCEPT !.over[uid] = cpu, !.uids[uid] = x, !.sessions = d]
    BY <1>3 DEF ApplyOverride
  <2>2. x \in UidRec /\ x.counter = l.uids[uid].counter /\ x.there = l.uids[uid].there
    BY <1>1, NoUidType DEF UidRec
  <2>3. d \in [1..MaxSessions -> {0} \cup Uids]
    BY DEF DropSessions, Ledger
  <2>4. x.ask = NoKey /\ \A k \in Knames : x.auth[k] = NoKey
    <3>1. CASE l.uids[uid].there
      BY <1>1, <3>1, NoUidType DEF UidRec
    <3>2. CASE ~l.uids[uid].there
      <4>1. Held(l, uid) = {}
        BY <3>2
      <4> QED BY <3>2, <4>1 DEF Held
    <3> QED BY <3>1, <3>2
  <2> HIDE DEF m, x, d
  <2>5. /\ m \in Ledger /\ m.cpu = l.cpu
        /\ m.over[uid] = cpu /\ \A v \in Uids \ {uid} : m.over[v] = l.over[v]
        /\ m.uids[uid] = x /\ \A v \in Uids \ {uid} : m.uids[v] = l.uids[v]
    BY <1>1, <2>1, <2>2, <2>3 DEF Ledger
  <2>6. Held(m, uid) = {}
    BY <2>4, <2>5, NoUidHolds
  <2> QED BY <2>2, <2>5, <2>6 DEF m
<1> QED BY <1>2, <1>3

\* What a transaction may make of a ledger, and of the answer.
Handled(l, uid, key, r) ==
    /\ r.ledger \in Ledger
    /\ r.ledger.cpu = l.cpu /\ r.ledger.over = l.over
    /\ \A v \in Uids \ {uid} : r.ledger.uids[v] = l.uids[v]
    /\ r.made \in BOOLEAN
    /\ \A x \in Held(r.ledger, uid) : x \in Held(l, uid) \/ (r.made /\ x = key)
    /\ Held(r.ledger, uid) # {} =>
         r.ledger.uids[uid].there /\ r.ledger.uids[uid].counter >= l.uids[uid].counter
    /\ r.blob # NoBlob =>
         /\ r.blob \in BlobRec
         /\ r.blob.key \in Held(l, uid) /\ r.blob.cpu = l.cpu
         /\ r.blob.counter = l.uids[uid].counter + 1
         /\ r.ledger.uids[uid].counter = r.blob.counter

\* The ledger as it is, or with other sessions.
LEMMA HandledSame ==
    ASSUME NEW l \in Ledger, NEW uid \in Uids, NEW key \in Key, NEW r,
           Held(l, uid) # {} => l.uids[uid].there,
           r.ledger \in Ledger, r.ledger.cpu = l.cpu, r.ledger.over = l.over, r.ledger.uids = l.uids,
           r.blob = NoBlob, r.made = FALSE
    PROVE  Handled(l, uid, key, r)
<1>1. Held(r.ledger, uid) = Held(l, uid)
  BY DEF Held
<1>2. l.uids[uid].counter \in Nat
  BY DEF Ledger, UidRec
<1>3. r.ledger.uids[uid].counter >= l.uids[uid].counter
  BY <1>2
<1>4. Held(r.ledger, uid) # {} => r.ledger.uids[uid].there
  BY <1>1
<1>5. r.made \in BOOLEAN /\ ~(r.blob # NoBlob)
  OBVIOUS
<1> QED BY ONLY <1>1, <1>3, <1>4, <1>5, r.ledger \in Ledger, r.ledger.cpu = l.cpu,
   r.ledger.over = l.over,
             r.ledger.uids = l.uids DEF Handled

\* The caller's record is replaced by x.
LEMMA HandledUid ==
    ASSUME NEW l \in Ledger, NEW uid \in Uids, NEW key \in Key, NEW r, NEW x \in UidRec,
           r.ledger \in Ledger, r.ledger.cpu = l.cpu, r.ledger.over = l.over,
           r.ledger.uids[uid] = x, \A v \in Uids \ {uid} : r.ledger.uids[v] = l.uids[v],
           r.made \in BOOLEAN, r.blob = NoBlob,
           x.ask # NoKey => x.ask \in Held(l, uid) \/ (r.made /\ x.ask = key),
           \A k \in Knames : x.auth[k] # NoKey => x.auth[k] \in Held(l, uid) \/ (r.made /\ x.auth[k] = key),
           Held(r.ledger, uid) # {} => x.there /\ x.counter = l.uids[uid].counter
    PROVE  Handled(l, uid, key, r)
<1>1. l.uids[uid].counter \in Nat
  BY DEF Ledger, UidRec
<1>2. \A y \in Held(r.ledger, uid) : y \in Held(l, uid) \/ (r.made /\ y = key)
  BY DEF Held
<1> QED BY <1>1, <1>2 DEF Handled

\* A blob is exported: the caller's counter goes up by one.
LEMMA HandledExport ==
    ASSUME NEW l \in Ledger, NEW uid \in Uids, NEW key \in Key, NEW x \in Held(l, uid),
           Held(l, uid) # {} => l.uids[uid].there
    PROVE  Handled(l, uid, key, Result(next_counter(l, uid), Blob(l, uid, x)))
<1> DEFINE n == [l.uids[uid] EXCEPT !.counter = @ + 1]
           m == next_counter(l, uid)
           r == Result(m, Blob(l, uid, x))
<1>1. l.uids[uid] \in UidRec /\ l.cpu \in Nat
  BY DEF Ledger
<1>2. /\ n \in UidRec /\ n.counter = l.uids[uid].counter + 1 /\ n.counter \in Nat
      /\ n.ask = l.uids[uid].ask /\ n.auth = l.uids[uid].auth /\ n.there = l.uids[uid].there
      /\ l.uids[uid].counter \in Nat
  BY <1>1 DEF UidRec
<1>3. m = [l EXCEPT !.uids[uid] = n]
  BY DEF next_counter
<1> HIDE DEF n
<1>4. /\ m \in Ledger /\ m.cpu = l.cpu /\ m.over = l.over
      /\ m.uids[uid] = n /\ \A v \in Uids \ {uid} : m.uids[v] = l.uids[v]
  BY <1>2, <1>3, UidReplaced
<1>5. r.ledger = m /\ r.made = FALSE /\ r.blob = Blob(l, uid, x)
  BY DEF Result
<1>6. x \in Key
  BY <1>1 DEF Held, UidRec
<1>7. /\ r.blob \in BlobRec
      /\ r.blob.key = x /\ r.blob.counter = l.uids[uid].counter + 1 /\ r.blob.cpu = l.cpu
  BY <1>1, <1>2, <1>5, <1>6 DEF Blob, BlobRec
<1>8. Held(m, uid) = Held(l, uid)
  BY <1>2, <1>4 DEF Held
<1>9. m.uids[uid].there /\ m.uids[uid].counter >= l.uids[uid].counter
  BY <1>2, <1>4
<1>a. r.made \in BOOLEAN
  BY <1>5
<1>b. m.uids[uid].counter = r.blob.counter
  BY <1>2, <1>4, <1>7
<1> HIDE DEF m, r
<1>c. Handled(l, uid, key, r)
  BY <1>4, <1>5, <1>7, <1>8, <1>9, <1>a, <1>b DEF Handled
<1> QED BY <1>c DEF m, r

LEMMA HandledRequest ==
    ASSUME NEW l \in Ledger, NEW uid \in Uids, NEW tx \in Transactions, NEW key \in Key,
           Held(l, uid) # {} => l.uids[uid].there,
           NEW r \in handle_request(l, uid, tx, key)
    PROVE  Handled(l, uid, key, r)
<1> DEFINE y == l.uids[uid]
<1>1. /\ y \in UidRec /\ y.ask \in Key /\ y.auth \in [Knames -> Key]
      /\ y.ask # NoKey => y.ask \in Held(l, uid)
      /\ \A k \in Knames : y.auth[k] # NoKey => y.auth[k] \in Held(l, uid)
  BY DEF Ledger, UidRec, Held
<1>same. ASSUME r = Result(l, NoBlob) PROVE Handled(l, uid, key, r)
  BY <1>same, HandledSame DEF Result
<1>2. CASE tx = "read"
  BY <1>2, <1>same DEF handle_request
<1>3. CASE tx = "generate_ask"
  <2> DEFINE e == [y EXCEPT !.there = TRUE]
             f == [e EXCEPT !.ask = key]
             m == [l EXCEPT !.uids[uid] = e]
  <2>1. r \in generate_ask(l, uid, key)
    BY <1>3 DEF handle_request
  <2>2. e \in UidRec /\ e.ask = y.ask /\ e.auth = y.auth /\ e.counter = y.counter /\ e.there
    BY <1>1 DEF UidRec
  <2>3. f \in UidRec /\ f.ask = key /\ f.auth = y.auth /\ f.counter = y.counter /\ f.there
    BY <1>1 DEF UidRec
  <2>4. m = [l EXCEPT !.uids[uid].there = TRUE]
    OBVIOUS
  <2>5. m \in Ledger /\ m.uids[uid] = e
    BY <2>2, UidReplaced
  <2>6. [m EXCEPT !.uids[uid].ask = key] = [m EXCEPT !.uids[uid] = f]
    BY <2>5
  <2> HIDE DEF e, f, m
  <2>7. /\ m.cpu = l.cpu /\ m.over = l.over
        /\ \A v \in Uids \ {uid} : m.uids[v] = l.uids[v]
    BY <2>2, UidReplaced DEF m
  <2> DEFINE g == [m EXCEPT !.uids[uid] = f]
  <2>8. /\ g \in Ledger /\ g.cpu = l.cpu /\ g.over = l.over
        /\ g.uids[uid] = f /\ \A v \in Uids \ {uid} : g.uids[v] = l.uids[v]
    BY <2>3, <2>5, <2>7, UidReplaced
  <2> HIDE DEF g
  <2>9. r \in {Result(l, NoBlob), Result(m, NoBlob), Made(g)}
    BY <2>1, <2>4, <2>6 DEF generate_ask, g
  <2>10. CASE r = Result(m, NoBlob)
    <3>1. r.ledger = m /\ r.blob = NoBlob /\ r.made = FALSE
      BY <2>10 DEF Result
    <3>m. r.made \in BOOLEAN
      BY <3>1
    <3>h. /\ e.ask # NoKey => e.ask \in Held(l, uid) \/ (r.made /\ e.ask = key)
         /\ \A j \in Knames : e.auth[j] # NoKey => e.auth[j] \in Held(l, uid) \/ (r.made /\ e.auth[j] = key)
      BY <1>1, <2>2, <3>1
    <3>t. Held(r.ledger, uid) # {} => e.there /\ e.counter = l.uids[uid].counter
      BY <1>1, <2>2, <3>1
    <3> QED BY <2>2, <2>5, <2>7, <3>1, <3>m, <3>h, <3>t, HandledUid
  <2>11. CASE r = Made(g)
    <3>1. r.ledger = g /\ r.blob = NoBlob /\ r.made = TRUE
      BY <2>11 DEF Made
    <3>m. r.made \in BOOLEAN
      BY <3>1
    <3>h. /\ f.ask # NoKey => f.ask \in Held(l, uid) \/ (r.made /\ f.ask = key)
         /\ \A k \in Knames : f.auth[k] # NoKey => f.auth[k] \in Held(l, uid) \/ (r.made /\ f.auth[k] = key)
      BY <1>1, <2>3, <3>1
    <3>t. Held(r.ledger, uid) # {} => f.there /\ f.counter = l.uids[uid].counter
      BY <1>1, <2>3, <3>1
    <3> QED BY <2>3, <2>8, <3>1, <3>m, <3>h, <3>t, HandledUid
  <2> QED BY <1>same, <2>9, <2>10, <2>11
<1>4. CASE tx = "export_ask"
  <2>1. r \in export_ask(l, uid)
    BY <1>4 DEF handle_request
  <2>2. CASE y.ask = NoKey
    BY <1>same, <2>1, <2>2 DEF export_ask
  <2>3. CASE y.ask # NoKey
    <3>1. r = Result(next_counter(l, uid), Blob(l, uid, y.ask))
      BY <2>1, <2>3 DEF export_ask
    <3> QED BY <1>1, <2>3, <3>1, HandledExport
  <2> QED BY <2>2, <2>3
<1>5. CASE tx = "generate_auth"
  <2>1. PICK k \in Knames : r \in generate_auth(l, uid, k, key)
    BY <1>5 DEF handle_request
  <2>2. CASE r = Result(l, NoBlob)
    BY <2>2, <1>same
  <2>3. CASE r # Result(l, NoBlob)
    <3> DEFINE e == [y EXCEPT !.auth[k] = key]
               m == [l EXCEPT !.uids[uid] = e]
    <3>1. r = Made(m) /\ y.ask # NoKey
      BY <2>1, <2>3 DEF generate_auth
    <3>2. /\ e \in UidRec /\ e.ask = y.ask /\ e.counter = y.counter /\ e.there = y.there
          /\ e.auth[k] = key /\ \A j \in Knames \ {k} : e.auth[j] = y.auth[j]
      BY <1>1 DEF UidRec
    <3> HIDE DEF e
    <3>3. /\ m \in Ledger /\ m.cpu = l.cpu /\ m.over = l.over
          /\ m.uids[uid] = e /\ \A v \in Uids \ {uid} : m.uids[v] = l.uids[v]
      BY <3>2, UidReplaced
    <3> HIDE DEF m
    <3>4. r.ledger = m /\ r.blob = NoBlob /\ r.made = TRUE
      BY <3>1 DEF Made
    <3>5. e.there
      BY <1>1, <3>1, <3>2
    <3>m. r.made \in BOOLEAN
      BY <3>4
    <3>h. /\ e.ask # NoKey => e.ask \in Held(l, uid) \/ (r.made /\ e.ask = key)
         /\ \A j \in Knames : e.auth[j] # NoKey => e.auth[j] \in Held(l, uid) \/ (r.made /\ e.auth[j] = key)
      BY <1>1, <3>2, <3>4, <3>5
    <3>t. Held(r.ledger, uid) # {} => e.there /\ e.counter = l.uids[uid].counter
      BY <1>1, <3>2, <3>4, <3>5
    <3> QED BY <3>2, <3>3, <3>4, <3>m, <3>h, <3>t, HandledUid
  <2> QED BY <2>2, <2>3
<1>6. CASE tx = "export_auth"
  <2>1. PICK k \in Knames : r \in export_auth(l, uid, k)
    BY <1>6 DEF handle_request
  <2>2. CASE r = Result(l, NoBlob)
    BY <2>2, <1>same
  <2>3. CASE r # Result(l, NoBlob)
    <3>1. r = Result(next_counter(l, uid), Blob(l, uid, y.auth[k])) /\ y.auth[k] # NoKey
      BY <2>1, <2>3 DEF export_auth
    <3> QED BY <1>1, <3>1, HandledExport
  <2> QED BY <2>2, <2>3
<1>7. CASE tx = "remove_auth"
  <2>1. PICK k \in Knames : r \in remove_auth(l, uid, k)
    BY <1>7 DEF handle_request
  <2> DEFINE e == [y EXCEPT !.auth[k] = NoKey]
             m == [l EXCEPT !.uids[uid] = e]
  <2>2. r = Result(m, NoBlob)
    BY <2>1 DEF remove_auth
  <2>3. /\ e \in UidRec /\ e.ask = y.ask /\ e.counter = y.counter /\ e.there = y.there
        /\ e.auth[k] = NoKey /\ \A j \in Knames \ {k} : e.auth[j] = y.auth[j]
    BY <1>1, NoUidType DEF UidRec
  <2> HIDE DEF e
  <2>4. /\ m \in Ledger /\ m.cpu = l.cpu /\ m.over = l.over
        /\ m.uids[uid] = e /\ \A v \in Uids \ {uid} : m.uids[v] = l.uids[v]
    BY <2>3, UidReplaced
  <2> HIDE DEF m
  <2>5. r.ledger = m /\ r.blob = NoBlob /\ r.made = FALSE
    BY <2>2 DEF Result
  <2>6. Held(m, uid) # {} => Held(l, uid) # {}
    BY <2>3, <2>4, <1>1 DEF Held
  <2>m. r.made \in BOOLEAN
    BY <2>5
  <2>h. /\ e.ask # NoKey => e.ask \in Held(l, uid) \/ (r.made /\ e.ask = key)
       /\ \A j \in Knames : e.auth[j] # NoKey => e.auth[j] \in Held(l, uid) \/ (r.made /\ e.auth[j] = key)
    BY <1>1, <2>3, <2>5, <2>6
  <2>t. Held(r.ledger, uid) # {} => e.there /\ e.counter = l.uids[uid].counter
    BY <1>1, <2>3, <2>5, <2>6
  <2> QED BY <2>3, <2>4, <2>5, <2>m, <2>h, <2>t, HandledUid
<1>8. CASE tx = "remove_all"
  <2> DEFINE d == DropSessions(l.sessions, uid)
             m == [l EXCEPT !.uids[uid] = NoUid, !.sessions = d]
  <2>1. r = Result(m, NoBlob)
    BY <1>8 DEF handle_request, remove_all_uid
  <2>2. d \in [1..MaxSessions -> {0} \cup Uids]
    BY DEF DropSessions, Ledger
  <2> HIDE DEF d
  <2>3. /\ m \in Ledger /\ m.cpu = l.cpu /\ m.over = l.over
        /\ m.uids[uid] = NoUid /\ \A v \in Uids \ {uid} : m.uids[v] = l.uids[v]
    BY <2>2, NoUidType DEF Ledger
  <2> HIDE DEF m
  <2>4. r.ledger = m /\ r.blob = NoBlob /\ r.made = FALSE
    BY <2>1 DEF Result
  <2>5. NoUid.ask = NoKey /\ \A k \in Knames : NoUid.auth[k] = NoKey
    BY NoUidType DEF NoUid
  <2>6. Held(m, uid) = {}
    BY <2>3, <2>5, NoUidHolds
  <2> QED BY <2>3, <2>4, <2>5, <2>6, NoUidType, HandledUid
<1>9. CASE tx = "init_sign"
  <2>1. PICK k \in Knames : r \in init_sign(l, uid, k)
    BY <1>9 DEF handle_request
  <2>2. CASE r = Result(l, NoBlob)
    BY <2>2, <1>same
  <2>3. CASE r # Result(l, NoBlob)
    <3>1. PICK s \in 1..MaxSessions : r = Result([l EXCEPT !.sessions[s] = uid], NoBlob)
      BY <2>1, <2>3 DEF init_sign
    <3> DEFINE m == [l EXCEPT !.sessions[s] = uid]
    <3>2. m \in Ledger /\ m.cpu = l.cpu /\ m.over = l.over /\ m.uids = l.uids
      BY DEF Ledger
    <3> HIDE DEF m
    <3>3. r.ledger = m /\ r.blob = NoBlob /\ r.made = FALSE
      BY <3>1 DEF Result, m
    <3> QED BY <3>2, <3>3, HandledSame
  <2> QED BY <2>2, <2>3
<1>10. CASE tx = "finish_sign"
  BY <1>10, <1>same DEF handle_request, finish_sign
<1> QED BY <1>2, <1>3, <1>4, <1>5, <1>6, <1>7, <1>8, <1>9, <1>10 DEF Transactions
-----------------------------------------------------------------------------
(***************************************************************************)
(* Changes of the configuration.                                           *)
(***************************************************************************)
LEMMA FileIsLedger == ASSUME ConfigOK, NEW id \in Files PROVE material[id] \in Ledger
BY DEF ConfigOK, Files

\* A file stays, goes, or is one without keys: nothing is said of new keys.
LEMMA FilesStep ==
    ASSUME KeysInv, UNCHANGED <<minted, replies, given>>,
           \A id \in Ids : \/ material'[id] = material[id]
                           \/ material'[id] = NoFile
                           \/ \A u \in Uids : Held(material'[id], u) = {}
    PROVE  KeysInv'
<1> DEFINE Same(id) == material'[id] = material[id]
<1>0. Left' = Left
  BY DEF Left
<1>1. \A id \in Files' : \A u \in Uids : HeldOf(id, u)' # {} => Same(id) /\ id \in Files
  BY DEF Files, HeldOf
<1>2. \A id \in Ids, u \in Uids : Same(id) => HeldOf(id, u)' = HeldOf(id, u)
  BY DEF HeldOf
<1>3. Files' \subseteq Ids
  BY DEF Files
<1>4. KeysMinted'
  BY <1>1, <1>2, <1>3 DEF KeysInv, KeysMinted
<1>5. HeldEntered'
  BY <1>1, <1>2, <1>3 DEF KeysInv, HeldEntered
<1>6. KeysApart'
  <2> SUFFICES ASSUME NEW i \in Files', NEW j \in Files', NEW u \in Uids, NEW v \in Uids,
                      HeldOf(i, u)' \cap HeldOf(j, v)' # {}
               PROVE  i = j /\ u = v
    BY DEF KeysApart
  <2>1. Same(i) /\ Same(j) /\ i \in Files /\ j \in Files
    BY <1>1
  <2>2. HeldOf(i, u)' = HeldOf(i, u) /\ HeldOf(j, v)' = HeldOf(j, v)
    BY <1>2, <1>3, <2>1
  <2> QED BY <2>1, <2>2 DEF KeysInv, KeysApart
<1>7. CounterAhead'
  <2> SUFFICES ASSUME NEW x \in Left, NEW id \in Files', NEW u \in Uids, x.blob.key \in HeldOf(id, u)'
               PROVE  x.blob.counter <= material'[id].uids[u].counter
    BY <1>0 DEF CounterAhead
  <2>1. Same(id) /\ id \in Files
    BY <1>1
  <2>2. HeldOf(id, u)' = HeldOf(id, u)
    BY <1>2, <1>3, <2>1
  <2> QED BY <2>1, <2>2 DEF KeysInv, CounterAhead
<1>8. BlobsMinted' /\ LeftUnique'
  BY <1>0 DEF KeysInv, BlobsMinted, LeftUnique
<1> QED BY <1>4, <1>5, <1>6, <1>7, <1>8 DEF KeysInv

\* What is said of the bridge does not change with the configuration.
LEMMA BridgeFrame ==
    ASSUME BridgeOK, ChannelInv, UNCHANGED bridgeVars
    PROVE  BridgeOK' /\ ChannelInv'
<1>1. BridgeOK'
  BY DEF bridgeVars, BridgeOK
<1>2. Waiting' = Waiting /\ OnHost(requests)' = OnHost(requests) /\ OnHost(replies)' = OnHost(replies)
  BY DEF bridgeVars, Waiting, OnHost
<1>3. ChannelOpen' /\ ChannelQuiet' /\ HostsInOrder' /\ AnswersOwn'
  BY <1>2 DEF bridgeVars, ChannelInv, ChannelOpen, ChannelQuiet, HostsInOrder, AnswersOwn
<1>4. ChannelOwn'
  BY <1>2 DEF bridgeVars, ChannelInv, ChannelOwn
<1> QED BY <1>1, <1>3, <1>4 DEF ChannelInv

LEMMA ChangeStep ==
    ASSUME SoterAssumption, IInv, Change
    PROVE  IInv'
<1> USE DEF SoterAssumption
<1>0. /\ ConfigInv /\ ConfigOK
      /\ config \in [enabled : BOOLEAN, ids : SUBSET Ids, apps : [Targets -> App]]
      /\ material \in [Ids -> {NoFile} \cup Ledger]
      /\ NoApp \in App /\ lastId \in Nat
      /\ Ids \subseteq Nat \ {0}
  BY DEF IInv, ConfigInv, ConfigOK, NoApp, App, Ids
<1>1. CASE SetEnabled
  <2>1. /\ config' = [config EXCEPT !.enabled = ~@]
        /\ UNCHANGED <<material, pending, lastId, bridgeVars>>
    BY <1>1 DEF SetEnabled
  <2>2. config'.ids = config.ids /\ config'.apps = config.apps /\ config' \in [enabled : BOOLEAN, ids : SUBSET Ids, apps : [Targets -> App]]
    BY <1>0, <2>1
  <2>3. ConfigInv'
    BY <1>0, <2>1, <2>2 DEF ConfigInv, ConfigOK, ListedHasMaterial, RoutedIsListed, HalfDone,
       HasMaterial
  <2> QED BY <2>1, <2>3, BridgeFrame, FilesStep DEF IInv, bridgeVars
<1>2. CASE AddWrites
  <2>a. PICK n \in Ids : n = lastId + 1
    BY <1>0, <1>2 DEF AddWrites, Ids
  <2>1. /\ lastId' = n
        /\ material' = [material EXCEPT ![n] = generate_local(n)]
        /\ pending' = [k |-> "add", id |-> n]
        /\ UNCHANGED <<config, bridgeVars>>
    BY <1>2, <2>a DEF AddWrites
  <2>2. n \in Nat /\ n # 0
    BY <1>0
  <2>3. /\ generate_local(n) \in Ledger /\ generate_local(n).cpu = n
        /\ \A u \in Uids : Held(generate_local(n), u) = {}
    BY <2>2, NewLedger
  <2>4. /\ material' \in [Ids -> {NoFile} \cup Ledger]
        /\ material'[n] = generate_local(n)
        /\ \A id \in Ids \ {n} : material'[id] = material[id]
    BY <1>0, <2>1, <2>2, <2>3
  <2>5. NoFile.cpu = 0
    BY DEF NoFile
  <2>6. HasMaterial(n)'
    BY <2>2, <2>3, <2>4, <2>5 DEF HasMaterial
  <2>7. ConfigOK' /\ RoutedIsListed'
    BY <1>0, <2>1, <2>2, <2>4 DEF ConfigOK, ConfigInv, RoutedIsListed
  <2>8. ListedHasMaterial'
    BY <1>0, <2>1, <2>4, <2>6 DEF ConfigInv, ListedHasMaterial, HasMaterial
  <2>9. HalfDone'
    BY <2>1, <2>6 DEF HalfDone, HasMaterial
  <2>10. \A id \in Ids : material'[id] = material[id] \/ \A u \in Uids : Held(material'[id], u) = {}
    BY <2>3, <2>4
  <2>11. KeysInv'
    BY <2>1, <2>10, FilesStep DEF IInv, bridgeVars
  <2> QED BY <2>1, <2>7, <2>8, <2>9, <2>11, BridgeFrame DEF IInv, ConfigInv
<1>3. CASE AddCommits
  <2>1. /\ pending.k = "add" /\ pending' = None
        /\ config' = [config EXCEPT !.ids = @ \cup {pending.id}]
        /\ UNCHANGED <<material, lastId, bridgeVars>>
    BY <1>3 DEF AddCommits
  <2>2. pending.id \in Ids /\ HasMaterial(pending.id)
    BY <1>0, <2>1 DEF ConfigInv, ConfigOK, HalfDone, None
  <2>3. config'.ids = config.ids \cup {pending.id} /\ config'.apps = config.apps /\ config' \in [enabled : BOOLEAN, ids : SUBSET Ids, apps : [Targets -> App]]
    BY <1>0, <2>1, <2>2
  <2>4. ConfigInv'
    BY <1>0, <2>1, <2>2, <2>3 DEF ConfigInv, ConfigOK, ListedHasMaterial, RoutedIsListed,
       HalfDone, HasMaterial, None
  <2> QED BY <2>1, <2>4, BridgeFrame, FilesStep DEF IInv, bridgeVars
<1>4. CASE RemoveUnlinks
  <2>1. /\ pending.k = "remove" /\ pending' = None
        /\ material' = [material EXCEPT ![pending.id] = NoFile]
        /\ UNCHANGED <<config, lastId, bridgeVars>>
    BY <1>4 DEF RemoveUnlinks
  <2>2. pending.id \in Ids /\ pending.id \notin config.ids
    BY <1>0, <2>1 DEF ConfigInv, ConfigOK, HalfDone, None
  <2>3. ConfigInv'
    BY <1>0, <2>1, <2>2 DEF ConfigInv, ConfigOK, ListedHasMaterial, RoutedIsListed, HalfDone,
       HasMaterial, None
  <2>4. \A id \in Ids : material'[id] = material[id] \/ material'[id] = NoFile
    BY <1>0, <2>1, <2>2
  <2> QED BY <2>1, <2>3, <2>4, BridgeFrame, FilesStep DEF IInv, bridgeVars
<1>5. CASE ChangeStops
  <2>1. pending' = None /\ UNCHANGED <<config, material, lastId, bridgeVars>>
    BY <1>5 DEF ChangeStops
  <2>2. ConfigInv'
    BY <1>0, <2>1 DEF ConfigInv, ConfigOK, ListedHasMaterial, RoutedIsListed, HalfDone,
       HasMaterial, None
  <2> QED BY <2>1, <2>2, BridgeFrame, FilesStep DEF IInv, bridgeVars
<1>6. ASSUME NEW id \in Ids, RemoveCommits(id) PROVE IInv'
  <2> DEFINE apps == [t \in Targets |-> IF config.apps[t].identity = id THEN NoApp ELSE config.apps[t]]
  <2>1. /\ config' = [config EXCEPT !.ids = @ \ {id}, !.apps = apps]
        /\ pending' = [k |-> "remove", id |-> id]
        /\ UNCHANGED <<material, lastId, bridgeVars>>
    BY <1>6 DEF RemoveCommits
  <2>2. apps \in [Targets -> App]
    BY <1>0
  <2>3. \A t \in Targets : apps[t] # NoApp => apps[t] = config.apps[t] /\ apps[t].identity # id
    OBVIOUS
  <2> HIDE DEF apps
  <2>4. config'.ids = config.ids \ {id} /\ config'.apps = apps /\ config' \in [enabled : BOOLEAN, ids : SUBSET Ids, apps : [Targets -> App]]
    BY <1>0, <2>1, <2>2
  <2>5. ConfigInv'
    BY <1>0, <2>1, <2>3, <2>4 DEF ConfigInv, ConfigOK, ListedHasMaterial, RoutedIsListed,
       HalfDone, HasMaterial
  <2> QED BY <2>1, <2>5, BridgeFrame, FilesStep DEF IInv, bridgeVars
<1>7. ASSUME NEW t \in Targets, NEW app \in App, SetApp(t, app) PROVE IInv'
  <2>1. /\ app = NoApp \/ app.identity \in config.ids
        /\ config' = [config EXCEPT !.apps[t] = app]
        /\ UNCHANGED <<material, pending, lastId, bridgeVars>>
    BY <1>7 DEF SetApp
  <2>2. /\ config'.ids = config.ids /\ config'.apps[t] = app
        /\ \A u \in Targets \ {t} : config'.apps[u] = config.apps[u]
        /\ config' \in [enabled : BOOLEAN, ids : SUBSET Ids, apps : [Targets -> App]]
    BY <1>0, <2>1
  <2>3. ConfigInv'
    BY <1>0, <2>1, <2>2 DEF ConfigInv, ConfigOK, ListedHasMaterial, RoutedIsListed, HalfDone,
       HasMaterial
  <2> QED BY <2>1, <2>3, BridgeFrame, FilesStep DEF IInv, bridgeVars
<1>8. ASSUME NEW ts \in SUBSET Targets, NEW id \in Ids, SetApps(ts, id) PROVE IInv'
  <2> DEFINE apps == [t \in Targets |-> IF t \in ts /\ config.apps[t] = NoApp
                                        THEN [identity |-> id, cpu |-> 0] ELSE config.apps[t]]
  <2>1. /\ id \in config.ids
        /\ config' = [config EXCEPT !.apps = apps]
        /\ UNCHANGED <<material, pending, lastId, bridgeVars>>
    BY <1>8 DEF SetApps
  <2>2. apps \in [Targets -> App]
    BY <1>0 DEF App
  <2>3. \A t \in Targets : apps[t] = config.apps[t] \/ apps[t].identity = id
    OBVIOUS
  <2> HIDE DEF apps
  <2>4. config'.ids = config.ids /\ config'.apps = apps /\ config' \in [enabled : BOOLEAN, ids : SUBSET Ids, apps : [Targets -> App]]
    BY <1>0, <2>1, <2>2
  <2>5. ConfigInv'
    BY <1>0, <2>1, <2>3, <2>4 DEF ConfigInv, ConfigOK, ListedHasMaterial, RoutedIsListed,
       HalfDone, HasMaterial
  <2> QED BY <2>1, <2>5, BridgeFrame, FilesStep DEF IInv, bridgeVars
<1>9. \A app \in {NoApp} \cup [identity : Ids, cpu : {0} \cup Overrides] : app \in App
  BY <1>0 DEF App
<1> QED BY <1>1, <1>2, <1>3, <1>4, <1>5, <1>6, <1>7, <1>8, <1>9 DEF Change
-----------------------------------------------------------------------------
(***************************************************************************)
(* The bridge.                                                             *)
(***************************************************************************)
\* What is said of the keys holds for fewer answers, too.
LEMMA FewerLeft ==
    ASSUME KeysInv, UNCHANGED <<material, minted>>, Left' \subseteq Left
    PROVE  KeysInv'
<1>1. Files' = Files /\ \A id \in Ids, u \in Uids : HeldOf(id, u)' = HeldOf(id, u)
  BY DEF Files, HeldOf
<1>2. Files \subseteq Ids
  BY DEF Files
<1>3. KeysMinted' /\ HeldEntered' /\ KeysApart'
  BY <1>1, <1>2 DEF KeysInv, KeysMinted, HeldEntered, KeysApart
<1>4. CounterAhead'
  BY <1>1, <1>2 DEF KeysInv, CounterAhead
<1>5. BlobsMinted' /\ LeftUnique'
  BY DEF KeysInv, BlobsMinted, LeftUnique
<1> QED BY <1>3, <1>4, <1>5 DEF KeysInv

LEMMA ConfigFrame ==
    ASSUME ConfigInv, UNCHANGED configVars
    PROVE  ConfigInv' /\ UNCHANGED material
BY DEF configVars, ConfigInv, ConfigOK, ListedHasMaterial, RoutedIsListed, HalfDone, HasMaterial

\* The client's snapshot and channel.
LEMMA ClientStep ==
    ASSUME IInv,
           client' \in [on : BOOLEAN, fresh : BOOLEAN, uids : SUBSET Uids, open : BOOLEAN],
           UNCHANGED <<configVars, at, requests, replies, calls, hosts, minted, given>>,
           \/ client'.on = client.on /\ client'.open = client.open
           \/ ~client.on /\ client'.on
    PROVE  IInv'
<1>1. ConfigInv' /\ KeysInv'
  <2>1. Left' = Left
    BY DEF Left
  <2> QED BY <2>1, ConfigFrame, FewerLeft DEF IInv
<1>2. BridgeOK'
  BY DEF IInv, BridgeOK
<1>3. Waiting' = Waiting /\ OnHost(requests)' = OnHost(requests) /\ OnHost(replies)' = OnHost(replies)
  BY DEF Waiting, OnHost
<1>4. ~client.on => Waiting = {} /\ OnHost(requests) = {} /\ OnHost(replies) = {} /\ ~client.open
  BY DEF IInv, ChannelInv, ChannelOpen, ChannelQuiet
<1>5. ChannelOpen' /\ ChannelQuiet'
  BY <1>3, <1>4 DEF IInv, ChannelInv, ChannelOpen, ChannelQuiet
<1>6. ChannelOwn'
  BY <1>3 DEF IInv, ChannelInv, ChannelOwn
<1>7. HostsInOrder' /\ AnswersOwn'
  BY DEF IInv, ChannelInv, HostsInOrder, AnswersOwn
<1> QED BY <1>1, <1>2, <1>5, <1>6, <1>7 DEF IInv, ChannelInv

LEMMA ForwardStep ==
    ASSUME IInv, NEW t \in Threads, NEW uid \in Uids, NEW tx \in Transactions, forward(t, uid, tx)
    PROVE  IInv'
<1>0. /\ at \in [Threads -> [st : {"idle", "waiting"}, n : Nat]]
      /\ requests \subseteq [host : Nat, n : Nat, uid : Uids, tx : Transactions]
      /\ calls \in Nat /\ hosts \in Nat
  BY DEF IInv, BridgeOK
<1>a. PICK n \in Nat : n = calls + 1
  BY <1>0
<1>b. PICK q \in [host : Nat, n : Nat, uid : Uids, tx : Transactions] :
          q = [host |-> hosts, n |-> n, uid |-> uid, tx |-> tx]
  BY <1>0
<1>1. /\ client.open /\ Waiting = {}
      /\ calls' = n /\ requests' = requests \cup {q}
      /\ at' = [at EXCEPT ![t] = [st |-> "waiting", n |-> n]]
      /\ UNCHANGED <<configVars, client, replies, hosts, minted, given>>
  BY <1>a, <1>b DEF forward, Busy, Waiting
<1>2. q.host = hosts /\ q.n = n
  BY <1>b
<1>3. ConfigInv' /\ KeysInv'
  <2>1. Left' = Left
    BY <1>1 DEF Left
  <2> QED BY <1>1, <2>1, ConfigFrame, FewerLeft DEF IInv
<1>4. BridgeOK'
  BY <1>0, <1>1, <1>a DEF IInv, BridgeOK
<1>5. Waiting' = {t} /\ at'[t].n = n
  BY <1>0, <1>1 DEF Waiting
<1>6. OnHost(requests) = {} /\ OnHost(replies) = {}
  BY <1>1 DEF IInv, ChannelInv, ChannelQuiet
<1>7. OnHost(requests)' = {q} /\ OnHost(replies)' = {}
  BY <1>1, <1>2, <1>6 DEF OnHost
<1>8. ChannelOpen' /\ ChannelQuiet'
  BY <1>1, <1>5 DEF IInv, ChannelInv, ChannelOpen, ChannelQuiet
<1>9. ChannelOwn'
  BY <1>2, <1>5, <1>7 DEF ChannelOwn
<1>10. HostsInOrder' /\ AnswersOwn'
  BY <1>0, <1>1, <1>2 DEF IInv, ChannelInv, HostsInOrder, AnswersOwn
<1> QED BY <1>3, <1>4, <1>8, <1>9, <1>10 DEF IInv, ChannelInv

LEMMA ReceiveStep ==
    ASSUME IInv, NEW t \in Threads, Receive(t)
    PROVE  IInv'
<1>0. /\ at \in [Threads -> [st : {"idle", "waiting"}, n : Nat]]
      /\ replies \subseteq [host : Nat, n : Nat, blob : BlobRec]
  BY DEF IInv, BridgeOK
<1>1. /\ t \in Waiting /\ at' = [at EXCEPT ![t] = Idle]
      /\ UNCHANGED <<configVars, client, requests, calls, hosts, minted>>
  BY DEF Receive, Waiting
<1>2. PICK r \in replies :
        /\ r.host = hosts /\ replies' = replies \ {r}
        /\ given' = given \cup {[to |-> at[t].n, of |-> r.n, blob |-> r.blob]}
  BY DEF Receive
<1>3. r \in OnHost(replies)
  BY <1>2 DEF OnHost
<1>4. r.n = at[t].n /\ OnHost(replies) = {r} /\ OnHost(requests) = {}
  BY <1>1, <1>3 DEF IInv, ChannelInv, ChannelOwn
<1>5. OnHost(replies)' = {} /\ OnHost(requests)' = {}
  BY <1>1, <1>2, <1>4 DEF OnHost
<1>6. Waiting' = {}
  BY <1>0, <1>1 DEF IInv, ChannelInv, ChannelOpen, Waiting, Idle
<1>7. BridgeOK'
  BY <1>0, <1>1, <1>2 DEF IInv, BridgeOK, Idle
<1>8. ChannelOpen' /\ ChannelQuiet' /\ ChannelOwn'
  BY <1>1, <1>5, <1>6 DEF IInv, ChannelInv, ChannelOpen, ChannelQuiet, ChannelOwn
<1>9. HostsInOrder' /\ AnswersOwn'
  BY <1>1, <1>2, <1>4 DEF IInv, ChannelInv, HostsInOrder, AnswersOwn
<1>10. Left' \subseteq Left
  BY <1>2 DEF Left
<1>11. ConfigInv' /\ KeysInv'
  BY <1>1, <1>10, ConfigFrame, FewerLeft DEF IInv
<1> QED BY <1>7, <1>8, <1>9, <1>11 DEF IInv, ChannelInv

LEMMA GiveUpStep ==
    ASSUME IInv, NEW t \in Threads, GiveUp(t)
    PROVE  IInv'
<1>0. /\ at \in [Threads -> [st : {"idle", "waiting"}, n : Nat]]
      /\ client \in [on : BOOLEAN, fresh : BOOLEAN, uids : SUBSET Uids, open : BOOLEAN]
  BY DEF IInv, BridgeOK
<1>1. /\ t \in Waiting /\ at' = [at EXCEPT ![t] = Idle]
      /\ client' = [client EXCEPT !.open = FALSE]
      /\ UNCHANGED <<configVars, requests, replies, calls, hosts, minted, given>>
  BY DEF GiveUp, Waiting
<1>2. Waiting' = {}
  BY <1>0, <1>1 DEF IInv, ChannelInv, ChannelOpen, Waiting, Idle
<1>3. ~client'.open /\ client'.on = client.on /\ client.on
  BY <1>0, <1>1 DEF IInv, ChannelInv, ChannelOpen
<1>4. BridgeOK'
  BY <1>0, <1>1 DEF IInv, BridgeOK, Idle
<1>5. ChannelOpen' /\ ChannelQuiet' /\ ChannelOwn'
  BY <1>2, <1>3 DEF ChannelOpen, ChannelQuiet, ChannelOwn
<1>6. HostsInOrder' /\ AnswersOwn'
  BY <1>1 DEF IInv, ChannelInv, HostsInOrder, AnswersOwn
<1>7. ConfigInv' /\ KeysInv'
  <2>1. Left' = Left
    BY <1>1 DEF Left
  <2> QED BY <1>1, <2>1, ConfigFrame, FewerLeft DEF IInv
<1> QED BY <1>4, <1>5, <1>6, <1>7 DEF IInv, ChannelInv

LEMMA HostStep ==
    ASSUME IInv, HostRestarts
    PROVE  IInv'
<1>1. /\ hosts' = hosts + 1 /\ client' = NoClient /\ at' = [t \in Threads |-> Idle] /\ replies' = {}
      /\ UNCHANGED <<configVars, requests, calls, minted, given>>
  BY DEF HostRestarts
<1>2. hosts \in Nat /\ \A q \in requests : q.host \in Nat /\ q.host <= hosts
  BY DEF IInv, BridgeOK, ChannelInv, HostsInOrder
<1>3. Waiting' = {}
  BY <1>1 DEF Waiting, Idle
<1>4. OnHost(requests)' = {} /\ OnHost(replies)' = {}
  BY <1>1, <1>2 DEF OnHost
<1>5. BridgeOK'
  BY <1>1, <1>2 DEF IInv, BridgeOK, Idle, NoClient
<1>6. ~client'.on /\ ~client'.open
  BY <1>1 DEF NoClient
<1>7. ChannelOpen' /\ ChannelQuiet' /\ ChannelOwn'
  BY <1>3, <1>4, <1>6 DEF ChannelOpen, ChannelQuiet, ChannelOwn
<1>8. HostsInOrder' /\ AnswersOwn'
  BY <1>1, <1>2 DEF IInv, ChannelInv, HostsInOrder, AnswersOwn
<1>9. Left' \subseteq Left
  BY <1>1 DEF Left
<1>10. ConfigInv' /\ KeysInv'
  BY <1>1, <1>9, ConfigFrame, FewerLeft DEF IInv
<1> QED BY <1>5, <1>7, <1>8, <1>10 DEF IInv, ChannelInv
-----------------------------------------------------------------------------
(***************************************************************************)
(* The broker.                                                             *)
(***************************************************************************)
LEMMA ReplyStep ==
    ASSUME BridgeOK, ChannelInv, NEW q \in requests, NEW blob \in BlobRec, Reply(q, blob),
           UNCHANGED <<client, at, calls, hosts, given>>, minted' \in Nat
    PROVE  /\ BridgeOK' /\ ChannelInv'
           /\ Left' \subseteq Left \cup {[of |-> q.n, blob |-> blob]}
<1> DEFINE r == [host |-> q.host, n |-> q.n, blob |-> blob]
<1>0. q \in [host : Nat, n : Nat, uid : Uids, tx : Transactions]
  BY DEF BridgeOK
<1>1. /\ requests' = requests \ {q}
      /\ replies' = IF q.host = hosts THEN replies \cup {r} ELSE replies
  BY DEF Reply
<1>2. r \in [host : Nat, n : Nat, blob : BlobRec] /\ r.host = q.host /\ r.n = q.n /\ r.blob = blob
  BY <1>0
<1> HIDE DEF r
<1>3. BridgeOK'
  BY <1>1, <1>2 DEF BridgeOK
<1>4. Waiting' = Waiting
  BY DEF Waiting
<1>5. ChannelOpen' /\ AnswersOwn'
  BY <1>4 DEF ChannelInv, ChannelOpen, AnswersOwn
<1>6. HostsInOrder'
  BY <1>1, <1>2 DEF ChannelInv, HostsInOrder
<1>7. CASE q.host # hosts
  <2>1. OnHost(requests)' = OnHost(requests) /\ OnHost(replies)' = OnHost(replies)
    BY <1>1, <1>7 DEF OnHost
  <2>2. ChannelQuiet' /\ ChannelOwn'
    BY <1>4, <2>1 DEF ChannelInv, ChannelQuiet, ChannelOwn
  <2> QED BY <1>1, <1>3, <1>5, <1>6, <1>7, <2>2 DEF ChannelInv, Left
<1>8. CASE q.host = hosts
  <2>1. q \in OnHost(requests)
    BY <1>8 DEF OnHost
  <2>2. ~(~client.on \/ (client.open /\ Waiting = {}))
    BY <2>1 DEF ChannelInv, ChannelQuiet
  <2>3. ChannelQuiet'
    BY <1>4, <2>2 DEF ChannelQuiet
  <2>4. ChannelOwn'
    <3> SUFFICES ASSUME NEW t \in Waiting
                 PROVE  OnHost(requests)' = {} /\ OnHost(replies)' = {r} /\ r.n = at[t].n
      BY <1>4 DEF ChannelOwn
    <3>1. q.n = at[t].n /\ OnHost(requests) = {q} /\ OnHost(replies) = {}
      BY <2>1 DEF ChannelInv, ChannelOwn
    <3>2. OnHost(requests)' = {}
      BY <1>1, <3>1 DEF OnHost
    <3>3. OnHost(replies)' = {r}
      BY <1>1, <1>2, <1>8, <3>1 DEF OnHost
    <3> QED BY <1>2, <3>1, <3>2, <3>3
  <2>5. Left' \subseteq Left \cup {[of |-> q.n, blob |-> blob]}
    BY <1>1, <1>2, <1>8 DEF Left
  <2> QED BY <1>3, <1>5, <1>6, <2>3, <2>4, <2>5 DEF ChannelInv
<1> QED BY <1>7, <1>8

\* The ledger of one identity becomes f, for one caller: its keys stay or go and
\* a new one may be made, and the blob b leaves in the answer to call n.
Written(id, uid, cpu, key, f, made, b, n) ==
    /\ cpu # 0 /\ f.cpu # 0 /\ key = [n |-> minted + 1, cpu |-> cpu]
    /\ material' = [material EXCEPT ![id] = f]
    /\ minted' = IF made THEN minted + 1 ELSE minted
    /\ Left' \subseteq Left \cup {[of |-> n, blob |-> b]}
    /\ \A v \in Uids \ {uid} : f.over[v] = material[id].over[v] /\ f.uids[v] = material[id].uids[v]
    /\ f.over[uid] = cpu
    /\ \A x \in Held(f, uid) : \/ x \in HeldOf(id, uid) /\ material[id].over[uid] \in {0, cpu}
                               \/ made /\ x = key
    /\ Held(f, uid) # {} =>
         f.uids[uid].there /\ f.uids[uid].counter >= material[id].uids[uid].counter
    /\ b # NoBlob =>
         /\ b.key \in HeldOf(id, uid) /\ material[id].over[uid] \in {0, cpu} /\ b.cpu = cpu
         /\ b.counter = material[id].uids[uid].counter + 1
         /\ f.uids[uid].counter = b.counter

LEMMA LedgerStep ==
    ASSUME ConfigOK, BridgeOK, KeysInv, NEW id \in Files, NEW uid \in Uids,
           NEW cpu \in Nat, NEW key \in Key, NEW f \in Ledger, NEW made \in BOOLEAN,
           NEW b \in BlobRec, NEW n \in Nat, Written(id, uid, cpu, key, f, made, b, n)
    PROVE  KeysInv'
<1> USE DEF Written
<1> DEFINE old == material[id].uids[uid].counter
           a == [of |-> n, blob |-> b]
<1>0. /\ minted \in Nat /\ minted' \in Nat /\ minted <= minted'
      /\ key.n = minted + 1 /\ key.cpu = cpu /\ (made => key.n = minted')
  BY DEF BridgeOK
<1>1. Files' = Files /\ Files \subseteq Ids /\ f # NoFile
  BY DEF Files, ConfigOK, NoFile
<1>2. material'[id] = f /\ \A j \in Files \ {id} : material'[j] = material[j]
  BY <1>1 DEF ConfigOK
<1>3. /\ HeldOf(id, uid)' = Held(f, uid)
      /\ \A j \in Files, v \in Uids : j # id \/ v # uid => HeldOf(j, v)' = HeldOf(j, v)
  BY <1>1, <1>2 DEF HeldOf, Held
<1>4. /\ \A j \in Files, v \in Uids : j # id \/ v # uid =>
           material'[j].over[v] = material[j].over[v] /\ material'[j].uids[v] = material[j].uids[v]
      /\ material'[id].over[uid] = cpu /\ material'[id].uids[uid] = f.uids[uid]
  BY <1>2
<1>5. \A j \in Files, v \in Uids : \A x \in HeldOf(j, v) :
        x \in Key /\ x # NoKey /\ x.n \in Nat /\ x.n <= minted /\ x # key
  <2> SUFFICES ASSUME NEW j \in Files, NEW v \in Uids, NEW x \in HeldOf(j, v)
               PROVE  x \in Key /\ x # NoKey /\ x.n \in Nat /\ x.n <= minted /\ x # key
    OBVIOUS
  <2>1. material[j].uids[v] \in UidRec
    BY FileIsLedger DEF Ledger
  <2>2. x \in Key /\ x # NoKey
    BY <2>1 DEF HeldOf, Held, UidRec
  <2>3. x.n <= minted
    BY DEF KeysInv, KeysMinted
  <2> QED BY <1>0, <2>2, <2>3 DEF Key
<1>6. f.uids[uid].counter \in Nat /\ old \in Nat
  <2>1. f.uids[uid] \in UidRec /\ material[id].uids[uid] \in UidRec
    BY FileIsLedger DEF Ledger
  <2> QED BY <2>1 DEF UidRec
<1>7. NoBlob.key = NoKey /\ NoKey.n = 0
  BY DEF NoBlob, NoKey
<1>8. \A x \in Left : x.blob \in BlobRec /\ x.blob.counter \in Nat /\ x.blob.key # key
  <2> SUFFICES ASSUME NEW x \in Left
               PROVE  x.blob \in BlobRec /\ x.blob.counter \in Nat /\ x.blob.key # key
    OBVIOUS
  <2>1. x.blob \in BlobRec
    BY DEF Left, BridgeOK
  <2>2. x.blob.key # key
    BY <1>0, <1>7, <2>1 DEF KeysInv, BlobsMinted, BlobRec, Key
  <2> QED BY <2>1, <2>2 DEF BlobRec
<1>9. a.of = n /\ a.blob = b
  OBVIOUS
<1> HIDE DEF old, a
<1>10. \A x \in Left' : x \in Left \/ x = a
  BY DEF a
<1>11. KeysMinted'
  <2> SUFFICES ASSUME NEW j \in Files, NEW v \in Uids, NEW x \in HeldOf(j, v)'
               PROVE  x.n <= minted' /\ x.cpu # 0 /\ x.cpu = material'[j].over[v]
    BY <1>1 DEF KeysMinted
  <2>1. CASE x \in HeldOf(j, v) /\ (j # id \/ v # uid)
    BY <1>0, <1>4, <1>5, <2>1 DEF KeysInv, KeysMinted
  <2>2. CASE j = id /\ v = uid
    <3>1. CASE x \in HeldOf(id, uid) /\ material[id].over[uid] \in {0, cpu}
      BY <1>0, <1>4, <1>5, <2>2, <3>1 DEF KeysInv, KeysMinted
    <3>2. CASE made /\ x = key
      BY <1>0, <1>4, <2>2, <3>2
    <3> QED BY <1>3, <2>2, <3>1, <3>2
  <2> QED BY <1>3, <2>1, <2>2
<1>12. HeldEntered'
  BY <1>1, <1>3, <1>4 DEF KeysInv, HeldEntered
<1>13. \A j \in Files, v \in Uids : \A x \in HeldOf(j, v)' :
         x \in HeldOf(j, v) \/ (x = key /\ j = id /\ v = uid)
  BY <1>3
<1>14. KeysApart'
  <2> SUFFICES ASSUME NEW i \in Files, NEW j \in Files, NEW u \in Uids, NEW v \in Uids,
                      NEW x \in HeldOf(i, u)', x \in HeldOf(j, v)'
               PROVE  i = j /\ u = v
    BY <1>1 DEF KeysApart
  <2> QED BY <1>5, <1>13 DEF KeysInv, KeysApart
<1>15. BlobsMinted'
  <2>1. b # NoBlob => b.key.n <= minted' /\ b.cpu = b.key.cpu /\ b.key # NoKey
    <3> SUFFICES ASSUME b # NoBlob PROVE b.key.n <= minted' /\ b.cpu = b.key.cpu /\ b.key # NoKey
      OBVIOUS
    <3>1. b.key \in HeldOf(id, uid) /\ material[id].over[uid] \in {0, cpu} /\ b.cpu = cpu
      OBVIOUS
    <3>2. b.key.cpu # 0 /\ b.key.cpu = material[id].over[uid]
      BY <3>1 DEF KeysInv, KeysMinted
    <3> QED BY <1>0, <1>5, <3>1, <3>2
  <2>2. \A x \in Left : x.blob # NoBlob =>
          x.blob.key.n <= minted' /\ x.blob.cpu = x.blob.key.cpu /\ x.blob.key # NoKey
    BY <1>0, <1>8 DEF KeysInv, BlobsMinted, BlobRec, Key
  <2> QED BY <1>9, <1>10, <2>1, <2>2 DEF BlobsMinted
<1>16. CounterAhead'
  <2> SUFFICES ASSUME NEW x \in Left', NEW j \in Files, NEW v \in Uids, x.blob.key \in HeldOf(j, v)'
               PROVE  x.blob.counter <= material'[j].uids[v].counter
    BY <1>1 DEF CounterAhead
  <2>1. CASE x \in Left
    <3>1. x.blob.key \in HeldOf(j, v)
      BY <1>8, <1>13, <2>1
    <3>2. x.blob.counter <= material[j].uids[v].counter
      BY <2>1, <3>1 DEF KeysInv, CounterAhead
    <3>3. CASE j # id \/ v # uid
      BY <1>4, <3>2, <3>3
    <3>4. CASE j = id /\ v = uid
      <4>1. f.uids[uid].counter >= old
        BY <1>3, <3>4 DEF old
      <4> QED BY <1>4, <1>6, <1>8, <2>1, <3>2, <3>4, <4>1 DEF old
    <3> QED BY <3>3, <3>4
  <2>2. CASE x = a
    <3>1. b.key # NoKey
      BY <1>0, <1>5, <1>7, <1>9, <1>13, <2>2
    <3>2. b # NoBlob
      BY <1>7, <3>1
    <3>3. b.key \in HeldOf(id, uid) /\ b.key \in HeldOf(j, v)
      BY <1>5, <1>9, <1>13, <2>2, <3>2
    <3>4. j = id /\ v = uid
      BY <3>3 DEF KeysInv, KeysApart
    <3> QED BY <1>4, <1>6, <1>9, <2>2, <3>2, <3>4
  <2> QED BY <1>10, <2>1, <2>2
<1>17. LeftUnique'
  <2>1. ASSUME NEW x \in Left, x.blob.key = b.key, x.blob.counter = b.counter, b # NoBlob PROVE FALSE
    <3>1. b.counter = old + 1 /\ b.key \in HeldOf(id, uid)
      BY <2>1 DEF old
    <3>2. x.blob.counter <= old
      BY <2>1, <3>1 DEF KeysInv, CounterAhead, old
    <3> QED BY <1>6, <2>1, <3>1, <3>2
  <2>2. \A x \in Left : x.blob # NoBlob => x.blob.key # NoKey
    BY DEF KeysInv, BlobsMinted
  <2> SUFFICES ASSUME NEW x \in Left', NEW y \in Left', x.blob # NoBlob,
                      x.blob.key = y.blob.key, x.blob.counter = y.blob.counter
               PROVE  x.of = y.of
    BY DEF LeftUnique
  <2>3. CASE x \in Left /\ y \in Left
    BY <2>3 DEF KeysInv, LeftUnique
  <2>4. CASE x \in Left /\ y = a
    <3>1. b # NoBlob
      BY <1>7, <1>9, <2>2, <2>4
    <3> QED BY <1>9, <2>1, <2>4, <3>1
  <2>5. CASE x = a /\ y \in Left
    BY <1>9, <2>1, <2>5
  <2> QED BY <1>10, <2>3, <2>4, <2>5
<1> QED BY <1>11, <1>12, <1>14, <1>15, <1>16, <1>17 DEF KeysInv

LEMMA NoBlobType == NoBlob \in BlobRec
BY DEF NoBlob, NoKey, BlobRec, Key

LEMMA AnswerStep ==
    ASSUME SoterAssumption, IInv, NEW q \in requests, Answer(q)
    PROVE  IInv'
<1> DEFINE app == selected(q.uid)
<1>0. q.uid \in Uids /\ q.tx \in Transactions /\ q.n \in Nat /\ minted \in Nat
  BY DEF IInv, BridgeOK
<1>1. /\ app # NoApp /\ material[app.identity] # NoFile /\ material[app.identity].cpu = app.identity
      /\ UNCHANGED <<config, pending, changes, lastId, client, at, calls, hosts, given>>
  BY DEF Answer
<1>2. app \in App /\ app.identity \in config.ids /\ app.identity \in Ids
  BY <1>0, <1>1, SelectedListed DEF IInv
<1>a. PICK id \in Ids : id = app.identity
  BY <1>2
<1>3. id \in Nat /\ id # 0 /\ id \in Files /\ material[id].cpu = id
  BY <1>1, <1>a DEF Ids, Files
<1>b. PICK cpu \in Nat : cpu = IF app.cpu = 0 THEN id ELSE app.cpu
  BY <1>2, <1>3 DEF App, SoterAssumption
<1>4. cpu # 0
  BY <1>3, <1>b
<1>c. PICK uid \in Uids : uid = q.uid
  BY <1>0
<1>k. [n |-> minted + 1, cpu |-> cpu] \in Key
  BY <1>0 DEF Key
<1>d. PICK key \in Key : key = [n |-> minted + 1, cpu |-> cpu]
  BY <1>k
<1>e. PICK l : l = ApplyOverride(material[id], uid, cpu)
  OBVIOUS
<1>5. material[id] \in Ledger
  BY <1>3, FileIsLedger DEF IInv, ConfigInv
<1>6. Held(material[id], uid) # {} => material[id].uids[uid].there
  BY <1>3 DEF IInv, KeysInv, HeldEntered, HeldOf
<1>7. /\ l \in Ledger /\ l.cpu = material[id].cpu /\ l.over[uid] = cpu
      /\ \A v \in Uids \ {uid} : l.over[v] = material[id].over[v] /\ l.uids[v] = material[id].uids[v]
      /\ l.uids[uid].counter = material[id].uids[uid].counter
      /\ l.uids[uid].there = material[id].uids[uid].there
      /\ Held(l, uid) \subseteq HeldOf(id, uid)
      /\ Held(l, uid) # {} => material[id].over[uid] \in {0, cpu}
  BY <1>5, <1>6, <1>e, Overridden DEF HeldOf
<1>f. PICK m : m = [l EXCEPT !.cpu = cpu]
  OBVIOUS
<1>8. m \in Ledger /\ m.cpu = cpu /\ m.over = l.over /\ m.uids = l.uids
  BY <1>7, <1>f DEF Ledger
<1>9. Held(m, uid) = Held(l, uid)
  BY <1>8 DEF Held
<1>10. Held(m, uid) # {} => m.uids[uid].there
  BY <1>6, <1>7, <1>8, <1>9 DEF HeldOf
<1>11. PICK r \in handle_request(m, uid, q.tx, key) :
         /\ Store(id, r.ledger)
         /\ minted' = IF r.made THEN minted + 1 ELSE minted
         /\ \E blob \in {r.blob, NoBlob} : Reply(q, blob)
  BY <1>a, <1>b, <1>c, <1>d, <1>e, <1>f DEF Answer
<1>12. Handled(m, uid, key, r)
  BY <1>0, <1>8, <1>10, <1>11, HandledRequest
<1>13. PICK b : b \in {r.blob, NoBlob} /\ Reply(q, b)
  BY <1>11
<1>g. PICK f : f = [r.ledger EXCEPT !.cpu = material[id].cpu]
  OBVIOUS
<1>14. r.ledger \in Ledger /\ r.made \in BOOLEAN
  BY <1>12 DEF Handled
<1>15. f \in Ledger /\ f.cpu = id /\ f.over = r.ledger.over /\ f.uids = r.ledger.uids
  BY <1>3, <1>14, <1>g DEF Ledger
<1>16. Held(f, uid) = Held(r.ledger, uid)
  BY <1>15 DEF Held
<1>17. material' = [material EXCEPT ![id] = f]
  BY <1>11, <1>g DEF Store
<1>18. b \in BlobRec
  BY <1>12, <1>13, NoBlobType DEF Handled
<1>19. minted' \in Nat
  BY <1>0, <1>11
<1>20. BridgeOK' /\ ChannelInv' /\ Left' \subseteq Left \cup {[of |-> q.n, blob |-> b]}
  BY <1>1, <1>13, <1>18, <1>19, ReplyStep DEF IInv
<1>21. KeysInv'
  <2>1. \A v \in Uids \ {uid} : f.over[v] = material[id].over[v] /\ f.uids[v] = material[id].uids[v]
    BY <1>7, <1>8, <1>12, <1>15 DEF Handled
  <2>2. f.over[uid] = cpu
    BY <1>7, <1>8, <1>12, <1>15 DEF Handled
  <2>3. \A x \in Held(f, uid) : \/ x \in HeldOf(id, uid) /\ material[id].over[uid] \in {0, cpu}
                                \/ r.made /\ x = key
    BY <1>7, <1>9, <1>12, <1>16 DEF Handled
  <2>4. Held(f, uid) # {} =>
          f.uids[uid].there /\ f.uids[uid].counter >= material[id].uids[uid].counter
    BY <1>7, <1>8, <1>12, <1>15, <1>16 DEF Handled
  <2>5. b # NoBlob =>
          /\ b.key \in HeldOf(id, uid) /\ material[id].over[uid] \in {0, cpu} /\ b.cpu = cpu
          /\ b.counter = material[id].uids[uid].counter + 1
          /\ f.uids[uid].counter = b.counter
    BY <1>7, <1>8, <1>9, <1>12, <1>13, <1>15 DEF Handled
  <2>6. f.cpu # 0
    BY <1>3, <1>15
  <2>7. ConfigOK /\ BridgeOK /\ KeysInv
    BY DEF IInv, ConfigInv
  <2>8. PICK made \in BOOLEAN : made = r.made
    BY <1>14
  <2>9. PICK n \in Nat : n = q.n
    BY <1>0
  <2>10. /\ minted' = IF made THEN minted + 1 ELSE minted
         /\ Left' \subseteq Left \cup {[of |-> n, blob |-> b]}
    BY <1>11, <1>20, <2>8, <2>9
  <2>11. \A x \in Held(f, uid) : \/ x \in HeldOf(id, uid) /\ material[id].over[uid] \in {0, cpu}
                                 \/ made /\ x = key
    BY <2>3, <2>8
  <2>12. Written(id, uid, cpu, key, f, made, b, n)
    BY <1>4, <1>17, <1>d, <2>1, <2>2, <2>4, <2>5, <2>6, <2>10, <2>11 DEF Written
  <2> QED BY <1>3, <1>15, <1>18, <2>7, <2>12, LedgerStep
<1>22. ConfigInv'
  <2>1. f # NoFile
    BY <1>3, <1>15 DEF NoFile
  <2>2. material' \in [Ids -> {NoFile} \cup Ledger] /\ material'[id] = f
        /\ \A j \in Ids \ {id} : material'[j] = material[j]
    BY <1>15, <1>17 DEF IInv, ConfigInv, ConfigOK
  <2>3. ConfigOK'
    BY <1>1, <2>2 DEF IInv, ConfigInv, ConfigOK
  <2>4. \A j \in Ids : HasMaterial(j) => HasMaterial(j)'
    BY <1>15, <2>1, <2>2 DEF HasMaterial
  <2>5. config.ids \subseteq Ids /\ (pending.k = "add" => pending.id \in Ids)
    BY DEF IInv, ConfigInv, ConfigOK, None
  <2>6. ListedHasMaterial' /\ RoutedIsListed' /\ HalfDone'
    BY <1>1, <2>4, <2>5 DEF IInv, ConfigInv, ListedHasMaterial, RoutedIsListed, HalfDone,
       HasMaterial
  <2> QED BY <2>3, <2>6 DEF ConfigInv
<1> QED BY <1>20, <1>21, <1>22 DEF IInv

LEMMA RefuseStep ==
    ASSUME IInv, NEW q \in requests, AnswerRefuses(q)
    PROVE  IInv'
<1>1. Reply(q, NoBlob) /\ UNCHANGED <<configVars, client, at, calls, hosts, minted, given>>
  BY DEF AnswerRefuses
<1>2. BridgeOK' /\ ChannelInv' /\ Left' \subseteq Left \cup {[of |-> q.n, blob |-> NoBlob]}
  BY <1>1, ReplyStep, NoBlobType DEF IInv, BridgeOK
<1>3. ConfigInv' /\ UNCHANGED material
  BY <1>1, ConfigFrame DEF IInv
<1>4. Files' = Files /\ Files \subseteq Ids /\ \A id \in Ids, u \in Uids : HeldOf(id, u)' = HeldOf(id, u)
  BY <1>3 DEF Files, HeldOf
<1>5. KeysMinted' /\ HeldEntered' /\ KeysApart'
  BY <1>1, <1>3, <1>4 DEF IInv, KeysInv, KeysMinted, HeldEntered, KeysApart
<1>6. /\ \A x \in Left' : x.blob # NoBlob => x \in Left
      /\ NoBlob.key = NoKey /\ \A x \in Left : x.blob # NoBlob => x.blob.key # NoKey
      /\ \A id \in Files, u \in Uids : NoKey \notin HeldOf(id, u)
  BY <1>2 DEF NoBlob, IInv, KeysInv, BlobsMinted, HeldOf, Held
<1>7. CounterAhead'
  BY <1>3, <1>4, <1>6 DEF IInv, KeysInv, CounterAhead
<1>8. BlobsMinted' /\ LeftUnique'
  BY <1>1, <1>6 DEF IInv, KeysInv, BlobsMinted, LeftUnique
<1> QED BY <1>2, <1>3, <1>5, <1>7, <1>8 DEF IInv, KeysInv
-----------------------------------------------------------------------------
LEMMA InvariantInit == ASSUME SoterAssumption, Init PROVE IInv
<1> USE DEF SoterAssumption
<1>1. /\ lastId \in {0, 1} /\ lastId \in Nat
      /\ config = [enabled |-> lastId = 1, ids |-> 1..lastId,
                   apps |-> [t \in Targets |-> [identity |-> lastId, cpu |-> 0]]]
      /\ material = [id \in Ids |-> IF id <= lastId THEN generate_local(id) ELSE NoFile]
      /\ pending = None /\ client = NoClient /\ at = [t \in Threads |-> Idle]
      /\ requests = {} /\ replies = {} /\ calls = 0 /\ hosts = 1 /\ minted = 0 /\ given = {}
  BY DEF Init
<1>2. Ids \subseteq Nat \ {0} /\ 1 \in Ids
  BY DEF Ids
<1>3. \A id \in Ids : /\ generate_local(id) \in Ledger /\ generate_local(id).cpu = id
                      /\ \A u \in Uids : Held(generate_local(id), u) = {}
  BY <1>2, NewLedger
<1>4. /\ 1..lastId \subseteq Ids
      /\ \A t \in Targets : config.apps[t] \in App /\ (config.apps[t] # NoApp => config.apps[t].identity \in 1..lastId)
  BY <1>1, <1>2 DEF App, NoApp
<1>5. config.ids = 1..lastId /\ config.enabled \in BOOLEAN /\ config.apps \in [Targets -> App]
  BY <1>1, <1>4
<1>6. ConfigOK
  <2>1. config \in [enabled : BOOLEAN, ids : SUBSET Ids, apps : [Targets -> App]]
    BY <1>1, <1>4, <1>5
  <2>2. material \in [Ids -> {NoFile} \cup Ledger]
    BY <1>1, <1>3
  <2> QED BY <1>1, <2>1, <2>2 DEF ConfigOK
<1>7. ListedHasMaterial /\ RoutedIsListed /\ HalfDone
  <2>1. \A id \in 1..lastId : HasMaterial(id)
    BY <1>1, <1>2, <1>3, <1>4 DEF HasMaterial, NoFile
  <2> QED BY <1>1, <1>4, <1>5, <2>1 DEF ListedHasMaterial, RoutedIsListed, HalfDone, None
<1>8. BridgeOK
  BY <1>1 DEF BridgeOK, NoClient, Idle
<1>9. ChannelInv
  BY <1>1 DEF ChannelInv, ChannelOpen, ChannelQuiet, ChannelOwn, HostsInOrder, AnswersOwn, OnHost,
     Waiting, NoClient, Idle
<1>10. KeysInv
  <2>1. \A id \in Files, u \in Uids : HeldOf(id, u) = {}
    BY <1>1, <1>3 DEF Files, HeldOf
  <2>2. Left = {}
    BY <1>1 DEF Left
  <2> QED BY <2>1, <2>2 DEF KeysInv, KeysMinted, HeldEntered, KeysApart, BlobsMinted,
     CounterAhead, LeftUnique
<1> QED BY <1>6, <1>7, <1>8, <1>9, <1>10 DEF IInv, ConfigInv

LEMMA InvariantStep == ASSUME SoterAssumption, IInv, [Next]_vars PROVE IInv'
<1>0. client \in [on : BOOLEAN, fresh : BOOLEAN, uids : SUBSET Uids, open : BOOLEAN]
  BY DEF IInv, BridgeOK
<1>1. CASE Change
  BY <1>1, ChangeStep
<1>2. CASE Inject
  <2>1. /\ ~client.on
        /\ client' = [on |-> TRUE, fresh |-> TRUE, uids |-> selected_uids, open |-> TRUE]
        /\ UNCHANGED <<configVars, at, requests, replies, calls, hosts, minted, given>>
    BY <1>2 DEF Inject
  <2>2. selected_uids \subseteq Uids
    BY DEF selected_uids
  <2> QED BY <2>1, <2>2, ClientStep
<1>3. CASE Refresh
  <2>1. /\ client' = [client EXCEPT !.uids = selected_uids]
        /\ UNCHANGED <<configVars, at, requests, replies, calls, hosts, minted, given>>
    BY <1>3 DEF Refresh
  <2>2. selected_uids \subseteq Uids
    BY DEF selected_uids
  <2> QED BY <1>0, <2>1, <2>2, ClientStep
<1>4. CASE RefreshFails
  BY <1>0, <1>4, ClientStep DEF RefreshFails
<1>5. CASE HostRestarts
  BY <1>5, HostStep
<1>6. ASSUME NEW t \in Threads, NEW uid \in Uids, NEW tx \in Transactions, forward(t, uid, tx) PROVE IInv'
  BY <1>6, ForwardStep
<1>7. ASSUME NEW t \in Threads, Receive(t) PROVE IInv'
  BY <1>7, ReceiveStep
<1>8. ASSUME NEW t \in Threads, GiveUp(t) PROVE IInv'
  BY <1>8, GiveUpStep
<1>9. ASSUME NEW q \in requests, Answer(q) PROVE IInv'
  BY <1>9, AnswerStep
<1>10. ASSUME NEW q \in requests, AnswerRefuses(q) PROVE IInv'
  BY <1>10, RefuseStep
<1>11. CASE UNCHANGED vars
  BY <1>0, <1>11, ClientStep DEF vars, configVars
<1> QED BY <1>1, <1>2, <1>3, <1>4, <1>5, <1>6, <1>7, <1>8, <1>9, <1>10, <1>11 DEF Next

LEMMA Invariant == ASSUME SoterAssumption PROVE Spec => []IInv
<1>1. Init => IInv
  BY InvariantInit
<1>2. IInv /\ [Next]_vars => IInv'
  BY InvariantStep
<1> QED BY <1>1, <1>2, PTL DEF Spec

\* "cannot leave an app routed to a missing identity": wherever add_identity or
\* remove_identity stops, what applications are routed to is listed and has its
\* material, for any number of identities, packages and changes.
THEOREM RoutingSound == ASSUME SoterAssumption PROVE Spec => []RoutedHasMaterial
<1>1. IInv => RoutedHasMaterial
  BY DEF IInv, ConfigInv, ListedHasMaterial, RoutedIsListed, HasMaterial, RoutedHasMaterial
<1> QED BY Invariant, <1>1, PTL

\* The bridge and the broker: a thread of SoterServer gets the answer to its own
\* call, no two blobs that leave have the same key and counter, and a blob
\* names the CPU-ID its key was generated under.
THEOREM BrokerSound == ASSUME SoterAssumption PROVE Spec => []AnswersSound
<1>1. IInv => AnswersSound
  <2> SUFFICES ASSUME IInv PROVE AnswersSound
    OBVIOUS
  <2>1. \A a \in given : [of |-> a.of, blob |-> a.blob] \in Left
    BY DEF Left
  <2>2. CountersUnique
    <3> SUFFICES ASSUME NEW a \in given, NEW b \in given, a.blob # NoBlob,
                        a.blob.key = b.blob.key, a.blob.counter = b.blob.counter
                 PROVE  a.of = b.of
      BY DEF CountersUnique
    <3> DEFINE x == [of |-> a.of, blob |-> a.blob]
               y == [of |-> b.of, blob |-> b.blob]
    <3>1. x \in Left /\ y \in Left
      BY <2>1
    <3>2. x.blob = a.blob /\ y.blob = b.blob /\ x.of = a.of /\ y.of = b.of
      OBVIOUS
    <3> HIDE DEF x, y
    <3> QED BY <3>1, <3>2 DEF IInv, KeysInv, LeftUnique
  <2>3. KeysFollowCpu
    <3> SUFFICES ASSUME NEW a \in given, a.blob # NoBlob PROVE a.blob.cpu = a.blob.key.cpu
      BY DEF KeysFollowCpu
    <3> DEFINE x == [of |-> a.of, blob |-> a.blob]
    <3>1. x \in Left /\ x.blob = a.blob
      BY <2>1
    <3> HIDE DEF x
    <3> QED BY <3>1 DEF IInv, KeysInv, BlobsMinted
  <2> QED BY <2>2, <2>3 DEF IInv, ChannelInv, AnswersSound
<1> QED BY Invariant, <1>1, PTL
-----------------------------------------------------------------------------
(***************************************************************************)
(* Auth tokens.  The inductive invariant says of an operation what its     *)
(* state says about its key and its token, and of a receiver that is in the*)
(* map, or that a thread has taken, that its operation waits or waited for *)
(* a token of its own.                                                     *)
(***************************************************************************)
IsOp(r) ==
    /\ r = [st |-> r.st, key |-> r.key, hat |-> r.hat, began |-> r.began, tst |-> r.tst]
    /\ r.key \in Keys

IsAdding(a) == a = [at |-> a.at, tok |-> a.tok, time |-> a.time]

Over(r) == r.st \in {"none", "dropped"}

\* The token is of the key's users and was young when the operation began.
Young(r) ==
    LET p == Params[r.key]
    IN  /\ Auth!satisfies(r.hat, p.sids, p.types)
        /\ r.began - r.hat.time < (p.timeout + 1) * Auth!Second

Fits(o, r) ==
    Over(r) \/
    LET p == Params[r.key]
    IN  /\ IsOp(r)
        /\ r.st \in {"OpAuthRequired", "WaitingOpAuth", "TimeStampRequired", "WaitingTimeStamp",
                     "Receiving", "NoAuthRequired", "Free", "Token"}
        /\ r.st \in {"OpAuthRequired", "WaitingOpAuth"} =>
             p.timeout = -1 /\ (r.hat = Auth!NoHat \/ r.hat.tok.challenge = o)
        /\ r.st \in {"TimeStampRequired", "WaitingTimeStamp", "Receiving"} =>
             p.timeout # -1 /\ (r.hat = Auth!NoHat \/ Young(r))
        /\ r.st = "Receiving" => r.hat # Auth!NoHat
        /\ r.st \in {"NoAuthRequired", "Free"} => p.sids = {} \/ (p.timeout # -1 /\ Young(r))
        /\ r.st = "Token" => IF p.timeout = -1 THEN r.hat.tok.challenge = o ELSE Young(r)

\* The operation of a receiver.
Received(r) ==
    /\ r.st \in {"WaitingOpAuth", "Token", "dropped"}
    /\ r.st = "Token" => Params[r.key].timeout = -1

TokensOK ==
    /\ now \in Nat /\ \A e \in table : e.time \in Nat
    /\ DOMAIN op = Ops /\ op = [o \in Ops |-> op[o]]
    /\ DOMAIN adding = Bearers /\ adding = [t \in Bearers |-> adding[t]]
    /\ \A t \in Bearers : /\ adding[t].at \in {"idle", "inserted", "taken"}
                          /\ adding[t].at = "idle" \/ IsAdding(adding[t])

OpsFit == \A o \in Ops : Fits(o, op[o])

ReceiversFit ==
    /\ map \subseteq Ops /\ \A o \in map : Received(op[o])
    /\ \A t \in Bearers : adding[t].at = "taken" =>
         adding[t].tok.challenge \in Ops /\ Received(op[adding[t].tok.challenge])

TokensInv == TokensOK /\ OpsFit /\ ReceiversFit /\ Auth!WaitingIsReachable
-----------------------------------------------------------------------------
LEMMA OpRecord ==
    ASSUME NEW a, NEW k \in Keys, NEW h, NEW b, NEW c, NEW r,
           r = [st |-> a, key |-> k, hat |-> h, began |-> b, tst |-> c]
    PROVE  IsOp(r) /\ r.st = a /\ r.key = k /\ r.hat = h /\ r.began = b /\ r.tst = c
BY DEF IsOp

\* Fields of an operation are replaced one at a time.
WithSt(r, v)  == [r EXCEPT !.st = v]
WithHat(r, v) == [r EXCEPT !.hat = v]
WithTst(r, v) == [r EXCEPT !.tst = v]

LEMMA FieldsSet ==
    ASSUME NEW r, IsOp(r), NEW v
    PROVE  /\ IsOp(WithSt(r, v)) /\ WithSt(r, v).st = v /\ WithSt(r, v).key = r.key
           /\ WithSt(r, v).hat = r.hat /\ WithSt(r, v).began = r.began
           /\ IsOp(WithHat(r, v)) /\ WithHat(r, v).st = r.st /\ WithHat(r, v).key = r.key
           /\ WithHat(r, v).hat = v /\ WithHat(r, v).began = r.began
           /\ IsOp(WithTst(r, v)) /\ WithTst(r, v).st = r.st /\ WithTst(r, v).key = r.key
           /\ WithTst(r, v).hat = r.hat /\ WithTst(r, v).began = r.began
<1>1. PICK a, k, h, b, c : r = [st |-> a, key |-> k, hat |-> h, began |-> b, tst |-> c]
  BY DEF IsOp
<1>2. k \in Keys
  BY <1>1 DEF IsOp
<1>3. WithSt(r, v) = [st |-> v, key |-> k, hat |-> h, began |-> b, tst |-> c]
  BY <1>1 DEF WithSt
<1>4. WithHat(r, v) = [st |-> a, key |-> k, hat |-> v, began |-> b, tst |-> c]
  BY <1>1 DEF WithHat
<1>5. WithTst(r, v) = [st |-> a, key |-> k, hat |-> h, began |-> b, tst |-> v]
  BY <1>1 DEF WithTst
<1>6. QED
  BY <1>1, <1>2, <1>3, <1>4, <1>5, OpRecord

LEMMA OpCell ==
    ASSUME TokensOK, NEW o \in Ops, NEW x, op' = [op EXCEPT ![o] = x]
    PROVE  op'[o] = x /\ (\A q \in Ops : q # o => op'[q] = op[q])
           /\ DOMAIN op' = Ops /\ op' = [q \in Ops |-> op'[q]]
BY DEF TokensOK

\* A step that leaves the receivers alone.
LEMMA OpKeeps ==
    ASSUME TokensInv, NEW o \in Ops, NEW x, op' = [op EXCEPT ![o] = x], Fits(o, x),
           UNCHANGED <<now, table, map, adding, served>>,
           Received(op[o]) => Received(x),
           x.st = "WaitingOpAuth" => op[o].st = "WaitingOpAuth"
    PROVE  TokensInv'
<1>0. TokensOK /\ OpsFit /\ ReceiversFit /\ Auth!WaitingIsReachable
  BY DEF TokensInv
<1>1. op'[o] = x /\ (\A q \in Ops : q # o => op'[q] = op[q])
      /\ DOMAIN op' = Ops /\ op' = [q \in Ops |-> op'[q]]
  BY <1>0, OpCell
<1>2. TokensOK'
  BY <1>0, <1>1 DEF TokensOK, IsAdding
<1>3. \A q \in Ops : Fits(q, op'[q])
  BY <1>0, <1>1 DEF OpsFit
<1>4. OpsFit'
  BY <1>3 DEF OpsFit, Fits, Over, IsOp, Young, Auth!satisfies, Auth!Second, Auth!NoHat
<1>5. \A q \in Ops : Received(op[q]) => Received(op'[q])
  BY <1>1
<1>6. ReceiversFit'
  <2>1. map \subseteq Ops /\ \A q \in map : Received(op'[q])
    BY <1>0, <1>5 DEF ReceiversFit
  <2>2. \A t \in Bearers : adding[t].at = "taken" =>
          adding[t].tok.challenge \in Ops /\ Received(op'[adding[t].tok.challenge])
    BY <1>0, <1>5 DEF ReceiversFit
  <2>3. QED
    BY <2>1, <2>2 DEF ReceiversFit, Received
<1>7. Auth!WaitingIsReachable'
  BY <1>0, <1>1 DEF Auth!WaitingIsReachable
<1>8. QED
  BY <1>2, <1>4, <1>6, <1>7 DEF TokensInv

\* A step that leaves the operations and the map alone.
LEMMA AddingKeeps ==
    ASSUME TokensInv, NEW t \in Bearers, NEW a, adding' = [adding EXCEPT ![t] = a],
           UNCHANGED <<now, map, op, served>>,
           \A e \in table' : e.time \in Nat,
           adding[t].at # "taken", a.at \in {"idle", "inserted"}, a.at = "idle" \/ IsAdding(a)
    PROVE  TokensInv'
<1>0. TokensOK /\ OpsFit /\ ReceiversFit /\ Auth!WaitingIsReachable
  BY DEF TokensInv
<1>1. adding'[t] = a /\ (\A s \in Bearers : s # t => adding'[s] = adding[s])
      /\ DOMAIN adding' = Bearers /\ adding' = [s \in Bearers |-> adding'[s]]
  BY <1>0 DEF TokensOK
<1>2. TokensOK'
  <2>1. \A s \in Bearers : /\ adding'[s].at \in {"idle", "inserted", "taken"}
                           /\ adding'[s].at = "idle" \/ IsAdding(adding'[s])
    BY <1>0, <1>1 DEF TokensOK
  <2>2. QED
    BY <1>0, <1>1, <2>1 DEF TokensOK, IsAdding
<1>3. OpsFit'
  BY <1>0 DEF OpsFit, Fits, Over, IsOp, Young, Auth!satisfies, Auth!Second, Auth!NoHat
<1>4. ReceiversFit'
  BY <1>0, <1>1 DEF ReceiversFit, Received
<1>5. Auth!WaitingIsReachable'
  <2>1. \A s \in Bearers : adding[s].at = "taken" => adding'[s] = adding[s]
    BY <1>1
  <2>2. QED
    BY <1>0, <2>1 DEF Auth!WaitingIsReachable
<1>6. QED
  BY <1>2, <1>3, <1>4, <1>5 DEF TokensInv


\* finalize_create_authorization of an operation that needs a token of its own:
\* a cleanup throws out no receiver of an operation that is alive.
LEMMA ReceiverAdded ==
    ASSUME TokensInv, NEW o \in Ops, op[o].st = "OpAuthRequired",
           Auth!add_receiver(o, {c \in Ops : Auth!Alive(c)}),
           op' = [op EXCEPT ![o].st = "WaitingOpAuth"],
           UNCHANGED <<now, table, adding, served>>
    PROVE  TokensInv'
<1>0. TokensOK /\ OpsFit /\ ReceiversFit /\ Auth!WaitingIsReachable
  BY DEF TokensInv
<1>1. Fits(o, op[o]) /\ ~Over(op[o]) /\ IsOp(op[o])
  BY <1>0 DEF OpsFit, Fits, Over
<1>2. PICK x : x = WithSt(op[o], "WaitingOpAuth")
  OBVIOUS
<1>4. op' = [op EXCEPT ![o] = x]
  BY <1>2, Zenon DEF WithSt
<1>5. IsOp(x) /\ x.st = "WaitingOpAuth" /\ x.key = op[o].key /\ x.hat = op[o].hat
  BY <1>1, <1>2, FieldsSet
<1>7. Fits(o, x)
  BY <1>1, <1>5 DEF Fits, Over
<1>8. op'[o] = x /\ (\A q \in Ops : q # o => op'[q] = op[q])
      /\ DOMAIN op' = Ops /\ op' = [q \in Ops |-> op'[q]]
  BY <1>0, <1>4, OpCell
<1>9. map' \subseteq map \cup {o} /\ o \in map'
      /\ \A q \in map : op[q].st = "WaitingOpAuth" => q \in map'
  <2>1. o \in {q \in Ops : Auth!Alive(q)}
    BY DEF Auth!Alive
  <2>2. \A q \in map : op[q].st = "WaitingOpAuth" => q \in {y \in Ops : Auth!Alive(y)}
    BY <1>0 DEF Auth!Alive, ReceiversFit
  <2>3. QED
    BY <2>1, <2>2 DEF Auth!add_receiver
<1>10. TokensOK'
  BY <1>0, <1>8 DEF TokensOK, IsAdding
<1>11. \A q \in Ops : Fits(q, op'[q])
  BY <1>0, <1>7, <1>8 DEF OpsFit
<1>12. OpsFit'
  BY <1>11 DEF OpsFit, Fits, Over, IsOp, Young, Auth!satisfies, Auth!Second, Auth!NoHat
<1>13. ReceiversFit'
  <2>1. Received(x) /\ ~Received(op[o])
    BY <1>5 DEF Received
  <2>2. \A q \in Ops : Received(op[q]) \/ q = o => Received(op'[q])
    BY <1>8, <2>1
  <2>3. map' \subseteq Ops /\ \A q \in map' : Received(op'[q])
    BY <1>0, <1>9, <2>2 DEF ReceiversFit
  <2>4. \A t \in Bearers : adding[t].at = "taken" =>
          adding[t].tok.challenge \in Ops /\ Received(op'[adding[t].tok.challenge])
    BY <1>0, <2>2 DEF ReceiversFit
  <2>5. QED
    BY <2>3, <2>4 DEF ReceiversFit, Received
<1>14. Auth!WaitingIsReachable'
  BY <1>0, <1>8, <1>9 DEF Auth!WaitingIsReachable
<1>15. QED
  BY <1>10, <1>12, <1>13, <1>14 DEF TokensInv

LEMMA TakeKeeps ==
    ASSUME TokensInv, NEW t \in Bearers, Auth!TakeReceiver(t) PROVE TokensInv'
<1>0. TokensOK /\ OpsFit /\ ReceiversFit /\ Auth!WaitingIsReachable
  BY DEF TokensInv
<1>1. adding[t].at = "inserted" /\ IsAdding(adding[t])
  BY <1>0 DEF Auth!TakeReceiver, TokensOK
<1>2. PICK o, z : adding[t] = [at |-> "inserted", tok |-> o, time |-> z]
  BY <1>1 DEF IsAdding
<1>3. CASE o.challenge \notin map
  <2>1. /\ adding' = [adding EXCEPT ![t] = Auth!NotAdding]
        /\ UNCHANGED <<now, table, map, op, served>>
    BY <1>2, <1>3 DEF Auth!TakeReceiver
  <2>2. Auth!NotAdding.at = "idle"
    BY DEF Auth!NotAdding
  <2>3. \A e \in table' : e.time \in Nat
    BY <1>0, <2>1 DEF TokensOK
  <2>4. QED
    BY <1>1, <2>1, <2>2, <2>3, AddingKeeps
<1>4. CASE o.challenge \in map
  <2>1. PICK a : a = [at |-> "taken", tok |-> o, time |-> z]
    OBVIOUS
  <2>2. IsAdding(a) /\ a.at = "taken" /\ a.tok = o
    BY <2>1 DEF IsAdding
  <2>3. /\ adding' = [adding EXCEPT ![t] = a] /\ map' = map \ {o.challenge}
        /\ UNCHANGED <<now, table, op, served>>
    BY <1>2, <1>4, <2>1 DEF Auth!TakeReceiver
  <2>4. adding'[t] = a /\ (\A s \in Bearers : s # t => adding'[s] = adding[s])
        /\ DOMAIN adding' = Bearers /\ adding' = [s \in Bearers |-> adding'[s]]
    BY <1>0, <2>3 DEF TokensOK
  <2>5. TokensOK'
    <3>1. \A s \in Bearers : /\ adding'[s].at \in {"idle", "inserted", "taken"}
                             /\ adding'[s].at = "idle" \/ IsAdding(adding'[s])
      BY <1>0, <2>2, <2>4 DEF TokensOK
    <3>2. QED
      BY <1>0, <2>3, <2>4, <3>1 DEF TokensOK, IsAdding
  <2>6. OpsFit'
    BY <1>0, <2>3 DEF OpsFit, Fits, Over, IsOp, Young, Auth!satisfies, Auth!Second, Auth!NoHat
  <2>7. ReceiversFit'
    <3>1. o.challenge \in Ops /\ Received(op[o.challenge])
      BY <1>0, <1>4 DEF ReceiversFit
    <3>2. \A s \in Bearers : adding'[s].at = "taken" =>
            adding'[s].tok.challenge \in Ops /\ Received(op[adding'[s].tok.challenge])
      BY <1>0, <2>2, <2>4, <3>1 DEF ReceiversFit
    <3>3. map' \subseteq Ops /\ \A q \in map' : Received(op[q])
      BY <1>0, <2>3 DEF ReceiversFit
    <3>4. QED
      BY <2>3, <3>2, <3>3 DEF ReceiversFit, Received
  <2>8. Auth!WaitingIsReachable'
    <3>1. \A s \in Bearers : adding[s].at = "taken" => adding'[s] = adding[s]
      BY <1>1, <2>4
    <3>2. adding'[t].at = "taken" /\ adding'[t].tok.challenge = o.challenge
      BY <2>2, <2>4
    <3>3. QED
      BY <1>0, <2>3, <3>1, <3>2 DEF Auth!WaitingIsReachable
  <2>9. QED
    BY <2>5, <2>6, <2>7, <2>8 DEF TokensInv
<1>5. QED
  BY <1>3, <1>4

\* What is given is a token of this operation, which waits or waited for it.
LEMMA GiveKeeps ==
    ASSUME TokensInv, NEW t \in Bearers, Auth!GiveToken(t) PROVE TokensInv'
<1>0. TokensOK /\ OpsFit /\ ReceiversFit /\ Auth!WaitingIsReachable
  BY DEF TokensInv
<1>1. PICK o : o = adding[t].tok.challenge
  OBVIOUS
<1>2. adding[t].at = "taken" /\ o \in Ops /\ Received(op[o])
  BY <1>0, <1>1 DEF Auth!GiveToken, ReceiversFit
<1>3. /\ adding' = [adding EXCEPT ![t] = Auth!NotAdding] /\ Auth!NotAdding.at = "idle"
      /\ UNCHANGED <<now, table, map>>
  BY DEF Auth!GiveToken, Auth!NotAdding
<1>4. adding'[t].at = "idle" /\ (\A s \in Bearers : s # t => adding'[s] = adding[s])
      /\ DOMAIN adding' = Bearers /\ adding' = [s \in Bearers |-> adding'[s]]
  BY <1>0, <1>3 DEF TokensOK
<1>5. \A s \in Bearers : /\ adding'[s].at \in {"idle", "inserted", "taken"}
                         /\ adding'[s].at = "idle" \/ IsAdding(adding'[s])
  BY <1>0, <1>4 DEF TokensOK
<1>6. /\ DOMAIN op' = Ops /\ op' = [q \in Ops |-> op'[q]]
      /\ \A q \in Ops : Fits(q, op'[q]) /\ op'[q].st = op[q].st
      /\ \A q \in Ops : Received(op[q]) => Received(op'[q])
      /\ served \subseteq served'
      /\ op[o].st = "WaitingOpAuth" => o \in served'
  <2>1. CASE ~Auth!Alive(o)
    <3>1. op' = op /\ served' = served /\ op[o].st # "WaitingOpAuth"
      BY <1>1, <2>1 DEF Auth!GiveToken, Auth!Alive
    <3>2. QED
      BY <1>0, <3>1 DEF TokensOK, OpsFit
  <2>2. CASE Auth!Alive(o)
    <3>1. Fits(o, op[o]) /\ ~Over(op[o]) /\ IsOp(op[o])
      BY <1>0, <1>2, <2>2 DEF OpsFit, Fits, Over, Auth!Alive
    <3>2. PICK g : g = [tok |-> adding[t].tok, time |-> adding[t].time]
      OBVIOUS
    <3>3. g.tok.challenge = o
      BY <1>1, <3>2
    <3>4. PICK x : x = WithHat(op[o], g)
      OBVIOUS
    <3>5. IsOp(x) /\ x.st = op[o].st /\ x.key = op[o].key /\ x.hat = g
      BY <3>1, <3>4, FieldsSet
    <3>6. op' = [op EXCEPT ![o] = x] /\ served' = served \cup {o}
      <4>1. op' = [op EXCEPT ![o].hat = g] /\ served' = served \cup {o}
        BY <1>1, <2>2, <3>2 DEF Auth!GiveToken
      <4>2. QED
        BY <3>4, <4>1, Zenon DEF WithHat
    <3>7. op[o].st \in {"WaitingOpAuth", "Token"} /\ Params[op[o].key].timeout = -1
      BY <1>2, <3>1 DEF Received, Over, Fits
    <3>8. Fits(o, x)
      BY <3>3, <3>5, <3>7 DEF Fits, Over
    <3>9. Received(x)
      BY <3>5, <3>7 DEF Received
    <3>10. op'[o] = x /\ (\A q \in Ops : q # o => op'[q] = op[q])
           /\ DOMAIN op' = Ops /\ op' = [q \in Ops |-> op'[q]]
      BY <1>0, <1>2, <3>6, OpCell
    <3>11. QED
      BY <1>0, <3>5, <3>6, <3>8, <3>9, <3>10 DEF OpsFit
  <2>3. QED
    BY <2>1, <2>2
<1>7. TokensOK'
  BY <1>0, <1>3, <1>4, <1>5, <1>6 DEF TokensOK, IsAdding
<1>8. OpsFit'
  BY <1>6 DEF OpsFit, Fits, Over, IsOp, Young, Auth!satisfies, Auth!Second, Auth!NoHat
<1>9. ReceiversFit'
  <2>1. map' \subseteq Ops /\ \A q \in map' : Received(op'[q])
    BY <1>0, <1>3, <1>6 DEF ReceiversFit
  <2>2. \A s \in Bearers : adding'[s].at = "taken" =>
          adding'[s].tok.challenge \in Ops /\ Received(op'[adding'[s].tok.challenge])
    BY <1>0, <1>4, <1>6 DEF ReceiversFit
  <2>3. QED
    BY <2>1, <2>2 DEF ReceiversFit, Received
<1>10. Auth!WaitingIsReachable'
  BY <1>0, <1>1, <1>3, <1>4, <1>6 DEF Auth!WaitingIsReachable
<1>11. QED
  BY <1>7, <1>8, <1>9, <1>10 DEF TokensInv

LEMMA AuthorizeKeeps ==
    ASSUME Auth!TokensAssumption, TokensInv, NEW o \in Ops, NEW k \in Keys, NEW purpose, NEW nonce, NEW env,
           Auth!authorize_create(o, k, purpose, nonce, env)
    PROVE  TokensInv'
<1>0. TokensOK
  BY DEF TokensInv
<1>1. PICK g \in Auth!Grants(Params[k]) :
        op' = [op EXCEPT ![o] = [st |-> g.st, key |-> k, hat |-> g.hat, began |-> now, tst |-> "none"]]
  BY DEF Auth!authorize_create
<1>2. op[o] = Auth!NoOp /\ UNCHANGED <<now, table, map, adding, served>>
  BY DEF Auth!authorize_create
<1>3. PICK x : x = [st |-> g.st, key |-> k, hat |-> g.hat, began |-> now, tst |-> "none"]
  OBVIOUS
<1>4. IsOp(x) /\ x.st = g.st /\ x.key = k /\ x.hat = g.hat /\ x.began = now
  BY <1>3, OpRecord
<1>5. PICK p : p = Params[k]
  OBVIOUS
<1>6. op' = [op EXCEPT ![o] = x]
  BY <1>1, <1>3
<1>7. ~Received(op[o])
  BY <1>2 DEF Received, Auth!NoOp
<1>8. CASE p.sids = {}
  <2>1. g.st = "NoAuthRequired"
    BY <1>1, <1>5, <1>8 DEF Auth!Grants
  <2>2. Fits(o, x) /\ x.st = "NoAuthRequired"
    BY <1>4, <1>5, <1>8, <2>1 DEF Fits
  <2>3. QED
    BY <2>2, <1>2, <1>6, <1>7, OpKeeps
<1>9. CASE p.sids # {} /\ p.timeout = -1
  <2>1. g.st = "OpAuthRequired" /\ g.hat = Auth!NoHat
    BY <1>1, <1>5, <1>9 DEF Auth!Grants
  <2>2. Fits(o, x) /\ x.st = "OpAuthRequired"
    BY <1>4, <1>5, <1>9, <2>1 DEF Fits
  <2>3. QED
    BY <2>2, <1>2, <1>6, <1>7, OpKeeps
<1>10. CASE p.sids # {} /\ p.timeout # -1
  <2>1. PICK e \in Auth!find_auth_token_entry({f \in table : Auth!satisfies(f, p.sids, p.types)}) :
          /\ Auth!TokenAge(e) \div Auth!Second =< p.timeout
          /\ g = [st |-> IF TimestampNeeded THEN "TimeStampRequired" ELSE "NoAuthRequired", hat |-> e]
    BY <1>1, <1>5, <1>10 DEF Auth!Grants
  <2>2. e \in table /\ Auth!satisfies(e, p.sids, p.types)
    BY <2>1 DEF Auth!find_auth_token_entry
  <2>3. e.time \in Nat /\ now \in Nat /\ p.timeout \in Int
    BY <1>0, <1>5, <2>2 DEF TokensOK, Auth!TokensAssumption
  <2>4. now - e.time < (p.timeout + 1) * 2
    BY <2>1, <2>3 DEF Auth!TokenAge, Auth!Second
  <2>5. g.st \in {"TimeStampRequired", "NoAuthRequired"} /\ g.hat = e
    BY <2>1
  <2>6. Young(x)
    BY <1>4, <1>5, <2>2, <2>4, <2>5 DEF Young, Auth!Second
  <2>7. Fits(o, x) /\ x.st # "WaitingOpAuth"
    BY <1>4, <1>5, <1>10, <2>5, <2>6 DEF Fits
  <2>8. QED
    BY <2>7, <1>2, <1>6, <1>7, OpKeeps
<1>11. QED
  BY <1>8, <1>9, <1>10

\* A step that replaces state, token and timestamp of an operation.
LEMMA FieldsKeep ==
    ASSUME TokensInv, NEW o \in Ops, NEW x, op' = [op EXCEPT ![o] = x],
           UNCHANGED <<now, table, map, adding, served>>, ~Over(op[o]),
           IsOp(x), x.key = op[o].key, x.began = op[o].began,
           \/ x.st = op[o].st /\ x.hat = op[o].hat
           \/ op[o].st = "TimeStampRequired" /\ x.st = "WaitingTimeStamp" /\ x.hat = op[o].hat
           \/ op[o].st = "NoAuthRequired" /\ x.st = "Free" /\ x.hat = op[o].hat
           \/ /\ op[o].st = "WaitingOpAuth" /\ x.st = "Token" /\ x.hat = op[o].hat
              /\ x.hat # Auth!NoHat
           \/ /\ op[o].st = "WaitingTimeStamp" /\ x.st = "Receiving" /\ x.hat = op[o].hat
              /\ x.hat # Auth!NoHat
           \/ op[o].st = "Receiving" /\ x.st = "Token" /\ x.hat = op[o].hat
           \/ op[o].st = "Receiving" /\ x.st = "WaitingTimeStamp" /\ x.hat = Auth!NoHat
    PROVE  TokensInv'
<1>1. Fits(o, op[o])
  BY DEF TokensInv, OpsFit
<1>2. Young(op[o]) /\ x.hat = op[o].hat => Young(x)
  BY DEF Young
<1>3. Fits(o, x)
  BY <1>1, <1>2 DEF Fits, Over
<1>4. Received(op[o]) => Received(x)
  BY <1>1 DEF Received, Fits, Over
<1>5. x.st = "WaitingOpAuth" => op[o].st = "WaitingOpAuth"
  OBVIOUS
<1>6. QED
  BY <1>3, <1>4, <1>5, OpKeeps

LEMMA AliveIsOp ==
    ASSUME TokensInv, NEW o \in Ops, ~Over(op[o]) PROVE IsOp(op[o])
BY DEF TokensInv, OpsFit, Fits

LEMMA FinalizeKeeps ==
    ASSUME TokensInv, NEW o \in Ops, Auth!finalize_create_authorization(o) PROVE TokensInv'
<1>1. CASE op[o].st = "OpAuthRequired"
  BY <1>1, ReceiverAdded DEF Auth!finalize_create_authorization
<1>2. CASE op[o].st = "TimeStampRequired"
  <2>1. /\ op' = [op EXCEPT ![o].st = "WaitingTimeStamp", ![o].tst = "asked"]
        /\ UNCHANGED <<now, table, map, adding, served>>
    BY <1>2 DEF Auth!finalize_create_authorization
  <2>2. PICK x : x = WithTst(WithSt(op[o], "WaitingTimeStamp"), "asked")
    OBVIOUS
  <2>3. op' = [op EXCEPT ![o] = x]
    <3>1. [op EXCEPT ![o].st = "WaitingTimeStamp"] = [op EXCEPT ![o] = WithSt(op[o], "WaitingTimeStamp")]
      BY Zenon DEF WithSt
    <3>2. PICK f : f = [op EXCEPT ![o] = WithSt(op[o], "WaitingTimeStamp")]
      OBVIOUS
    <3>3. op' = [f EXCEPT ![o].tst = "asked"]
      BY <2>1, <3>1, <3>2, Zenon
    <3>4. op' = [f EXCEPT ![o] = WithTst(f[o], "asked")]
      BY <3>3, Zenon DEF WithTst
    <3>5. f[o] = WithSt(op[o], "WaitingTimeStamp") /\ DOMAIN op = Ops
      BY <3>2 DEF TokensInv, TokensOK
    <3>6. op' = [f EXCEPT ![o] = x]
      BY <2>2, <3>4, <3>5
    <3>7. QED
      BY <3>2, <3>6
  <2>4. ~Over(op[o])
    BY <1>2 DEF Over
  <2>5. PICK y : y = WithSt(op[o], "WaitingTimeStamp")
    OBVIOUS
  <2>6. IsOp(y) /\ y.st = "WaitingTimeStamp" /\ y.key = op[o].key /\ y.hat = op[o].hat
        /\ y.began = op[o].began
    BY <2>4, <2>5, AliveIsOp, FieldsSet
  <2>7. IsOp(x) /\ x.st = "WaitingTimeStamp" /\ x.key = op[o].key /\ x.hat = op[o].hat
        /\ x.began = op[o].began
    BY <2>2, <2>5, <2>6, FieldsSet
  <2>8. QED
    BY <1>2, <2>1, <2>3, <2>4, <2>7, FieldsKeep
<1>3. CASE op[o].st = "NoAuthRequired"
  <2>1. op' = [op EXCEPT ![o].st = "Free"] /\ UNCHANGED <<now, table, map, adding, served>>
    BY <1>3 DEF Auth!finalize_create_authorization
  <2>2. PICK x : x = WithSt(op[o], "Free")
    OBVIOUS
  <2>3. op' = [op EXCEPT ![o] = x]
    BY <2>1, <2>2, Zenon DEF WithSt
  <2>4. ~Over(op[o])
    BY <1>3 DEF Over
  <2>5. IsOp(x) /\ x.st = "Free" /\ x.key = op[o].key /\ x.hat = op[o].hat
        /\ x.began = op[o].began
    BY <2>2, <2>4, AliveIsOp, FieldsSet
  <2>6. QED
    BY <1>3, <2>1, <2>3, <2>4, <2>5, FieldsKeep
<1>4. QED
  BY <1>1, <1>2, <1>3 DEF Auth!finalize_create_authorization

LEMMA TimestampKeeps ==
    ASSUME TokensInv, NEW o \in Ops, Auth!timestamp_token_request(o) PROVE TokensInv'
<1>1. PICK r : op' = [op EXCEPT ![o].tst = r]
  BY DEF Auth!timestamp_token_request
<1>2. ~Over(op[o]) /\ UNCHANGED <<now, table, map, adding, served>>
  BY DEF Auth!timestamp_token_request, Over
<1>3. PICK x : x = WithTst(op[o], r)
  OBVIOUS
<1>4. op' = [op EXCEPT ![o] = x]
  BY <1>1, <1>3, Zenon DEF WithTst
<1>5. IsOp(x) /\ x.st = op[o].st /\ x.key = op[o].key /\ x.hat = op[o].hat
      /\ x.began = op[o].began
  BY <1>2, <1>3, AliveIsOp, FieldsSet
<1>6. QED
  BY <1>2, <1>4, <1>5, FieldsKeep

LEMMA GetTokensKeeps ==
    ASSUME TokensInv, NEW o \in Ops, Auth!get_auth_tokens(o) PROVE TokensInv'
<1>1. PICK v \in {"Token", "Receiving"} :
        /\ op' = [op EXCEPT ![o].st = v]
        /\ \/ op[o].st = "WaitingOpAuth" /\ v = "Token"
           \/ op[o].st = "WaitingTimeStamp" /\ v = "Receiving"
  BY DEF Auth!get_auth_tokens
<1>2. ~Over(op[o]) /\ op[o].hat # Auth!NoHat /\ UNCHANGED <<now, table, map, adding, served>>
  BY DEF Auth!get_auth_tokens, Over
<1>3. PICK x : x = WithSt(op[o], v)
  OBVIOUS
<1>4. op' = [op EXCEPT ![o] = x]
  BY <1>1, <1>3, Zenon DEF WithSt
<1>5. IsOp(x) /\ x.st = v /\ x.key = op[o].key /\ x.hat = op[o].hat /\ x.began = op[o].began
  BY <1>2, <1>3, AliveIsOp, FieldsSet
<1>6. QED
  BY <1>1, <1>2, <1>4, <1>5, FieldsKeep

LEMMA ReceiveKeeps ==
    ASSUME TokensInv, NEW o \in Ops, Auth!ReceiveTimeStamp(o) PROVE TokensInv'
<1>1. op[o].st = "Receiving" /\ ~Over(op[o]) /\ UNCHANGED <<now, table, map, adding, served>>
  BY DEF Auth!ReceiveTimeStamp, Over
<1>2. CASE op' = [op EXCEPT ![o].st = "Token"]
  <2>1. PICK x : x = WithSt(op[o], "Token")
    OBVIOUS
  <2>2. op' = [op EXCEPT ![o] = x]
    BY <1>2, <2>1, Zenon DEF WithSt
  <2>3. IsOp(x) /\ x.st = "Token" /\ x.key = op[o].key /\ x.hat = op[o].hat
        /\ x.began = op[o].began
    BY <1>1, <2>1, AliveIsOp, FieldsSet
  <2>4. QED
    BY <1>1, <2>2, <2>3, FieldsKeep
<1>3. CASE op' = [op EXCEPT ![o].st = "WaitingTimeStamp", ![o].hat = Auth!NoHat]
  <2>1. PICK y : y = WithSt(op[o], "WaitingTimeStamp")
    OBVIOUS
  <2>2. PICK x : x = WithHat(y, Auth!NoHat)
    OBVIOUS
  <2>3. op' = [op EXCEPT ![o] = x]
    <3>1. [op EXCEPT ![o].st = "WaitingTimeStamp"] = [op EXCEPT ![o] = y]
      BY <2>1, Zenon DEF WithSt
    <3>2. PICK f : f = [op EXCEPT ![o] = y]
      OBVIOUS
    <3>3. op' = [f EXCEPT ![o].hat = Auth!NoHat]
      BY <1>3, <3>1, <3>2, Zenon
    <3>4. op' = [f EXCEPT ![o] = WithHat(f[o], Auth!NoHat)]
      BY <3>3, Zenon DEF WithHat
    <3>5. f[o] = y /\ DOMAIN op = Ops
      BY <3>2 DEF TokensInv, TokensOK
    <3>6. op' = [f EXCEPT ![o] = x]
      BY <2>2, <3>4, <3>5
    <3>7. QED
      BY <3>2, <3>6
  <2>4. IsOp(y) /\ y.st = "WaitingTimeStamp" /\ y.key = op[o].key /\ y.began = op[o].began
    BY <1>1, <2>1, AliveIsOp, FieldsSet
  <2>5. IsOp(x) /\ x.st = "WaitingTimeStamp" /\ x.key = op[o].key /\ x.hat = Auth!NoHat
        /\ x.began = op[o].began
    BY <2>2, <2>4, FieldsSet
  <2>6. QED
    BY <1>1, <2>3, <2>5, FieldsKeep
<1>4. QED
  BY <1>2, <1>3 DEF Auth!ReceiveTimeStamp

LEMMA DropKeeps ==
    ASSUME TokensInv, NEW o \in Ops, Auth!Drop(o) PROVE TokensInv'
<1>1. PICK x : x = [st |-> "dropped"]
  OBVIOUS
<1>2. x.st = "dropped"
  BY <1>1
<1>3. op' = [op EXCEPT ![o] = x] /\ UNCHANGED <<now, table, map, adding, served>>
  BY <1>1 DEF Auth!Drop
<1>4. Fits(o, x) /\ Received(x)
  BY <1>2 DEF Fits, Over, Received
<1>5. QED
  BY <1>2, <1>3, <1>4, OpKeeps

LEMMA AddKeeps ==
    ASSUME TokensInv, NEW t \in Bearers, NEW tok, Auth!add_auth_token(t, tok) PROVE TokensInv'
<1>0. TokensOK
  BY DEF TokensInv
<1>1. PICK a : a = [at |-> "inserted", tok |-> tok, time |-> now]
  OBVIOUS
<1>2. a.at = "inserted" /\ IsAdding(a)
  BY <1>1 DEF IsAdding
<1>3. adding' = [adding EXCEPT ![t] = a] /\ adding[t].at # "taken"
      /\ UNCHANGED <<now, map, op, served>>
  BY <1>1 DEF Auth!add_auth_token, Auth!NotAdding
<1>4. \A e \in table' : e.time \in Nat
  <2>1. table' = {e \in table : Auth!AuthTokenId(e.tok) # Auth!AuthTokenId(tok)}
                   \cup {[tok |-> tok, time |-> now]}
    BY DEF Auth!add_auth_token, Auth!insert_auth_token_entry
  <2>2. QED
    BY <1>0, <2>1 DEF TokensOK
<1>5. QED
  BY <1>2, <1>3, <1>4, AddingKeeps

LEMMA TokensStay ==
    ASSUME TokensInv, now' \in Nat, UNCHANGED <<table, map, op, adding, served>>
    PROVE  TokensInv'
<1>0. TokensOK /\ OpsFit /\ ReceiversFit /\ Auth!WaitingIsReachable
  BY DEF TokensInv
<1>1. TokensOK'
  BY <1>0 DEF TokensOK, IsAdding
<1>2. OpsFit'
  BY <1>0 DEF OpsFit, Fits, Over, IsOp, Young, Auth!satisfies, Auth!Second, Auth!NoHat
<1>3. ReceiversFit'
  BY <1>0 DEF ReceiversFit, Received
<1>4. Auth!WaitingIsReachable'
  BY <1>0 DEF Auth!WaitingIsReachable
<1>5. QED
  BY <1>1, <1>2, <1>3, <1>4 DEF TokensInv

LEMMA TokensStep ==
    ASSUME Auth!TokensAssumption, TokensInv, [Auth!Next]_(Auth!vars) PROVE TokensInv'
<1>1. CASE UNCHANGED Auth!vars
  BY <1>1, TokensStay DEF Auth!vars, TokensInv, TokensOK
<1>2. CASE Auth!Tick
  BY <1>2, TokensStay DEF Auth!Tick, TokensInv, TokensOK
<1>3. ASSUME NEW o \in Ops, NEW k \in Keys, NEW purpose, NEW nonce, NEW env,
             Auth!authorize_create(o, k, purpose, nonce, env)
      PROVE  TokensInv'
  BY <1>3, AuthorizeKeeps
<1>4. ASSUME NEW o \in Ops, \/ Auth!finalize_create_authorization(o)
                            \/ Auth!timestamp_token_request(o) \/ Auth!get_auth_tokens(o)
                            \/ Auth!ReceiveTimeStamp(o) \/ Auth!Drop(o)
      PROVE  TokensInv'
  BY <1>4, FinalizeKeeps, TimestampKeeps, GetTokensKeeps, ReceiveKeeps, DropKeeps
<1>5. ASSUME NEW t \in Bearers, \/ \E tok \in Tokens : Auth!add_auth_token(t, tok)
                                \/ Auth!TakeReceiver(t) \/ Auth!GiveToken(t)
      PROVE  TokensInv'
  BY <1>5, AddKeeps, TakeKeeps, GiveKeeps
<1>6. QED
  BY <1>1, <1>2, <1>3, <1>4, <1>5 DEF Auth!Next

LEMMA TokensInit == Auth!Init => TokensInv
<1> SUFFICES ASSUME Auth!Init PROVE TokensInv
  OBVIOUS
<1>1. Auth!NoOp.st = "none" /\ Auth!NotAdding.at = "idle"
  BY DEF Auth!NoOp, Auth!NotAdding
<1>2. TokensOK
  BY <1>1 DEF TokensOK, Auth!Init
<1>3. OpsFit
  BY <1>1 DEF OpsFit, Fits, Over, Auth!Init
<1>4. ReceiversFit /\ Auth!WaitingIsReachable
  BY <1>1 DEF ReceiversFit, Auth!WaitingIsReachable, Auth!Init
<1>5. QED
  BY <1>2, <1>3, <1>4 DEF TokensInv

\* An operation that waits for a token has its receiver in the map, or a
\* thread that took it out is about to give it a token, or gave it one: no
\* cleanup, whatever its period, and no other operation's token loses it.
THEOREM WaitersAreReachable == Auth!TokensAssumption => (Auth!Spec => []WaitingIsReachable)
<1> SUFFICES ASSUME Auth!TokensAssumption PROVE Auth!Spec => []WaitingIsReachable
  OBVIOUS
<1>1. Auth!Init => TokensInv
  BY TokensInit
<1>2. TokensInv /\ [Auth!Next]_(Auth!vars) => TokensInv'
  BY TokensStep
<1>3. TokensInv => WaitingIsReachable
  BY DEF TokensInv, WaitingIsReachable
<1>4. QED
  BY <1>1, <1>2, <1>3, PTL DEF Auth!Spec

\* What authorizes an operation is a token of one of the key's users and
\* authenticators that was young enough when the operation began, or a token
\* made for this very operation, whatever tokens arrive meanwhile.
THEOREM AuthorizedByFittingToken == Auth!TokensAssumption => (Auth!Spec => []TokenFits)
<1> SUFFICES ASSUME Auth!TokensAssumption PROVE Auth!Spec => []TokenFits
  OBVIOUS
<1>1. Auth!Init => TokensInv
  BY TokensInit
<1>2. TokensInv /\ [Auth!Next]_(Auth!vars) => TokensInv'
  BY TokensStep
<1>3. TokensInv => TokenFits
  <2> SUFFICES ASSUME TokensInv, NEW o \in Ops, op[o].st \in {"Token", "Free", "Receiving"},
                      Params[op[o].key].sids # {}
               PROVE  IF Params[op[o].key].timeout = -1 THEN op[o].hat.tok.challenge = o
                      ELSE Young(op[o])
    BY DEF TokenFits, Auth!TokenFits, Young
  <2>1. Fits(o, op[o])
    BY DEF TokensInv, OpsFit
  <2>2. QED
    BY <2>1 DEF Fits, Over
<1>4. QED
  BY <1>1, <1>2, <1>3, PTL DEF Auth!Spec

-----------------------------------------------------------------------------
(***************************************************************************)
(* Super keys.  The inductive invariant of the manager: what it has in     *)
(* memory, the copy for biometrics included, are rows of its user, no two  *)
(* rows have the same id, and what the lock state asks for first keeps the *)
(* keys out of memory.                                                     *)
(***************************************************************************)
IsMem(m) == m = [ce |-> m.ce, sym |-> m.sym, priv |-> m.priv, bio |-> m.bio]

\* The rows of a user, when n is the next id.
RowsOK(st, n) ==
    /\ DOMAIN st = Super!Kinds /\ st = [x \in Super!Kinds |-> st[x]]
    /\ \A x \in Super!Kinds : st[x].id \in Nat /\ st[x].id < n
    /\ \A x, y \in Super!Kinds : st[x].id = st[y].id /\ st[x].id # 0 => x = y

MemOK(m, st) ==
    /\ IsMem(m)
    /\ m.ce \in {0, st["ce"].id} /\ m.sym \in {0, st["sym"].id} /\ m.priv \in {0, st["priv"].id}
    /\ m.sym = 0 <=> m.priv = 0
    /\ m.bio.sids # {} =>
         /\ m.bio.sym = st["sym"].id /\ m.bio.priv = st["priv"].id
         /\ m.bio.sym # 0 /\ m.bio.priv # 0

NeedsOK(m, what) ==
    /\ what \in {"password", "biometric", "nothing"}
    /\ what # "nothing" => m.sym = 0
    /\ what = "password" => m.bio = Super!NoBio

ManagerOK ==
    /\ nextId \in Nat \ {0}
    /\ DOMAIN stored = Users /\ stored = [u \in Users |-> stored[u]]
    /\ DOMAIN mem = Users /\ mem = [u \in Users |-> mem[u]]
    /\ DOMAIN needs = Users /\ needs = [u \in Users |-> needs[u]]
    /\ \A u \in Users : /\ RowsOK(stored[u], nextId) /\ MemOK(mem[u], stored[u])
                        /\ NeedsOK(mem[u], needs[u])

IdsUnique ==
    \A u, v \in Users, x, y \in Super!Kinds :
        stored[u][x].id = stored[v][y].id /\ stored[u][x].id # 0 => u = v

CallsOK ==
    /\ DOMAIN call = Callers /\ call = [t \in Callers |-> call[t]]
    /\ \A t \in Callers : call[t].at \in {"unlock", "lock"} => call[t].user \in Users

LockInv == ManagerOK /\ IdsUnique /\ CallsOK
-----------------------------------------------------------------------------
(***************************************************************************)
(* The manager's methods.                                                  *)
(***************************************************************************)
IsState(s) ==
    s = [ok |-> s.ok, stored |-> s.stored, mem |-> s.mem, next |-> s.next, fresh |-> s.fresh]

StateOK(s) == IsState(s) /\ s.next \in Nat \ {0} /\ RowsOK(s.stored, s.next) /\ MemOK(s.mem, s.stored)

\* From s a method gets to t: rows stay and new ones have new ids, the copy for
\* biometrics stays, and the pair of keys in memory too or is installed.
Later(s, t) ==
    /\ t.next >= s.next
    /\ \A x \in Super!Kinds :
         /\ s.stored[x].id # 0 => t.stored[x].id = s.stored[x].id
         /\ s.stored[x].id = 0 => t.stored[x].id = 0 \/ t.stored[x].id >= s.next
    /\ t.mem.bio = s.mem.bio
    /\ t.mem.sym = s.mem.sym \/ t.mem.sym # 0

LEMMA LaterTrans ==
    ASSUME NEW s, NEW t, NEW w, StateOK(s), StateOK(t), StateOK(w), Later(s, t), Later(t, w)
    PROVE  Later(s, w)
<1>1. s.next \in Nat /\ t.next \in Nat /\ w.next \in Nat
  BY DEF StateOK
<1>2. \A x \in Super!Kinds : s.stored[x].id \in Nat /\ t.stored[x].id \in Nat /\ w.stored[x].id \in Nat
  BY DEF StateOK, RowsOK
<1>3. \A x \in Super!Kinds :
        /\ s.stored[x].id # 0 => w.stored[x].id = s.stored[x].id
        /\ s.stored[x].id = 0 => w.stored[x].id = 0 \/ w.stored[x].id >= s.next
  BY <1>1, <1>2 DEF Later
<1>4. QED
  BY <1>1, <1>3 DEF Later

LEMMA LaterSame ==
    ASSUME NEW s, StateOK(s) PROVE Later(s, s)
BY DEF Later, StateOK

LEMMA StateFields ==
    ASSUME NEW o, NEW st, NEW m, NEW n, NEW f, NEW s,
           s = [ok |-> o, stored |-> st, mem |-> m, next |-> n, fresh |-> f]
    PROVE  IsState(s) /\ s.ok = o /\ s.stored = st /\ s.mem = m /\ s.next = n /\ s.fresh = f
BY DEF IsState

\* Ok or not, with whatever keys to put in the index.
LEMMA SameState ==
    ASSUME NEW s, StateOK(s), NEW t, IsState(t), t.stored = s.stored, t.mem = s.mem, t.next = s.next
    PROVE  StateOK(t) /\ Later(s, t)
<1>1. StateOK(t)
  BY DEF StateOK
<1>2. QED
  BY <1>1 DEF Later, StateOK

LEMMA FailedKeeps ==
    ASSUME NEW s, StateOK(s) PROVE StateOK(Super!Failed(s)) /\ Later(s, Super!Failed(s)) /\ ~Super!Failed(s).ok
<1>1. PICK o, st, m, n, f : s = [ok |-> o, stored |-> st, mem |-> m, next |-> n, fresh |-> f]
  BY DEF StateOK, IsState
<1>2. PICK t : t = Super!Failed(s)
  OBVIOUS
<1>3. t = [ok |-> FALSE, stored |-> st, mem |-> m, next |-> n, fresh |-> f]
  BY <1>1, <1>2 DEF Super!Failed
<1>4. IsState(t) /\ t.ok = FALSE /\ t.stored = st /\ t.mem = m /\ t.next = n
  BY <1>3, StateFields
<1>5. s.stored = st /\ s.mem = m /\ s.next = n
  BY <1>1
<1>6. StateOK(t) /\ Later(s, t)
  BY <1>4, <1>5, SameState
<1>7. QED
  BY <1>2, <1>4, <1>6

\* A new row, for a kind that has none.
LEMMA CreateKeeps ==
    ASSUME NEW s, StateOK(s), NEW kind \in Super!Kinds, NEW pw, s.stored[kind].id = 0,
           NEW t, t = Super!create_super_key(s, kind, pw)
    PROVE  /\ StateOK(t) /\ Later(s, t) /\ t.ok = s.ok /\ t.mem = s.mem
           /\ t.stored[kind].id = s.next
<1>1. PICK o, st, m, n, f : s = [ok |-> o, stored |-> st, mem |-> m, next |-> n, fresh |-> f]
  BY DEF StateOK, IsState
<1>2. PICK row : row = [id |-> n, pw |-> pw]
  OBVIOUS
<1>3. PICK g : g = [st EXCEPT ![kind] = row]
  OBVIOUS
<1>4. t = [ok |-> o, stored |-> g, mem |-> m, next |-> n + 1, fresh |-> f \cup {n}]
  BY <1>1, <1>2, <1>3 DEF Super!create_super_key
<1>5. IsState(t) /\ t.ok = o /\ t.stored = g /\ t.mem = m /\ t.next = n + 1
  BY <1>4, StateFields
<1>6. s.ok = o /\ s.stored = st /\ s.mem = m /\ s.next = n
  BY <1>1
<1>7. n \in Nat \ {0} /\ RowsOK(st, n) /\ MemOK(m, st) /\ st[kind].id = 0 /\ row.id = n
  BY <1>2, <1>6 DEF StateOK
<1>8. /\ DOMAIN g = Super!Kinds /\ g = [x \in Super!Kinds |-> g[x]]
      /\ g[kind] = row /\ \A x \in Super!Kinds : x # kind => g[x] = st[x]
  BY <1>3, <1>7 DEF RowsOK
<1>9. RowsOK(g, n + 1)
  <2>1. \A x \in Super!Kinds : g[x].id \in Nat /\ g[x].id < n + 1
    BY <1>7, <1>8 DEF RowsOK
  <2>2. \A x \in Super!Kinds : x # kind => g[x].id < n
    BY <1>7, <1>8 DEF RowsOK
  <2>3. \A x, y \in Super!Kinds : g[x].id = g[y].id /\ g[x].id # 0 => x = y
    BY <1>7, <1>8, <2>2 DEF RowsOK
  <2>4. QED
    BY <1>8, <2>1, <2>3 DEF RowsOK
<1>10. \A x \in Super!Kinds : st[x].id # 0 => g[x].id = st[x].id
  BY <1>7, <1>8
<1>11. MemOK(m, g)
  BY <1>7, <1>8, <1>10 DEF MemOK, Super!Kinds
<1>12. StateOK(t)
  BY <1>5, <1>7, <1>9, <1>11 DEF StateOK
<1>13. Later(s, t)
  BY <1>5, <1>6, <1>7, <1>8, <1>10 DEF Later
<1>14. QED
  BY <1>5, <1>6, <1>7, <1>8, <1>12, <1>13

LEMMA GetOrCreateKeeps ==
    ASSUME NEW s, StateOK(s), NEW kind \in Super!Kinds, NEW pw,
           NEW t, t = Super!get_or_create_super_key(s, kind, pw)
    PROVE  /\ StateOK(t) /\ Later(s, t) /\ t.mem = s.mem
           /\ t.ok => t.stored[kind].id # 0
<1>1. CASE s.stored[kind].id = 0
  <2>1. t = Super!create_super_key(s, kind, pw)
    BY <1>1 DEF Super!get_or_create_super_key
  <2>2. QED
    BY <1>1, <2>1, CreateKeeps DEF StateOK
<1>2. CASE s.stored[kind].id # 0 /\ s.stored[kind].pw # pw
  <2>1. t = Super!Failed(s)
    BY <1>2 DEF Super!get_or_create_super_key
  <2>2. PICK o, st, m, n, f : s = [ok |-> o, stored |-> st, mem |-> m, next |-> n, fresh |-> f]
    BY DEF StateOK, IsState
  <2>3. t.mem = s.mem
    BY <2>1, <2>2 DEF Super!Failed
  <2>4. QED
    BY <2>1, <2>3, FailedKeeps
<1>3. CASE s.stored[kind].id # 0 /\ s.stored[kind].pw = pw
  <2>1. PICK o, st, m, n, f : s = [ok |-> o, stored |-> st, mem |-> m, next |-> n, fresh |-> f]
    BY DEF StateOK, IsState
  <2>2. t = [ok |-> o, stored |-> st, mem |-> m, next |-> n, fresh |-> f \cup {st[kind].id}]
    BY <1>3, <2>1 DEF Super!get_or_create_super_key
  <2>3. IsState(t) /\ t.stored = s.stored /\ t.mem = s.mem /\ t.next = s.next
    BY <2>1, <2>2, StateFields
  <2>4. QED
    BY <1>3, <2>3, SameState
<1>4. QED
  BY <1>1, <1>2, <1>3

LEMMA MemFields ==
    ASSUME NEW c, NEW a, NEW p, NEW b, NEW m, m = [ce |-> c, sym |-> a, priv |-> p, bio |-> b]
    PROVE  IsMem(m) /\ m.ce = c /\ m.sym = a /\ m.priv = p /\ m.bio = b
BY DEF IsMem

\* The pair is installed.
Installed(s) == [s EXCEPT !.mem.sym = s.stored["sym"].id, !.mem.priv = s.stored["priv"].id]

LEMMA InstalledKeeps ==
    ASSUME NEW s, StateOK(s), s.stored["sym"].id # 0, s.stored["priv"].id # 0, NEW t, t = Installed(s)
    PROVE  StateOK(t) /\ Later(s, t) /\ t.mem.ce = s.mem.ce
<1>1. PICK o, st, m, n, f : s = [ok |-> o, stored |-> st, mem |-> m, next |-> n, fresh |-> f]
  BY DEF StateOK, IsState
<1>2. s.stored = st /\ s.mem = m /\ s.next = n
  BY <1>1
<1>3. n \in Nat \ {0} /\ RowsOK(st, n) /\ MemOK(m, st)
  BY <1>2 DEF StateOK
<1>4. PICK c, a, p, b : m = [ce |-> c, sym |-> a, priv |-> p, bio |-> b]
  BY <1>3 DEF MemOK, IsMem
<1>5. PICK w : w = [ce |-> c, sym |-> st["sym"].id, priv |-> st["priv"].id, bio |-> b]
  OBVIOUS
<1>6. t = [ok |-> o, stored |-> st, mem |-> w, next |-> n, fresh |-> f]
  BY <1>1, <1>4, <1>5 DEF Installed
<1>7. IsState(t) /\ t.stored = st /\ t.mem = w /\ t.next = n
  BY <1>6, StateFields
<1>8. IsMem(w) /\ w.ce = c /\ w.sym = st["sym"].id /\ w.priv = st["priv"].id /\ w.bio = b
  BY <1>5, MemFields
<1>9. m.ce = c /\ m.bio = b
  BY <1>4
<1>10. MemOK(w, st)
  BY <1>2, <1>3, <1>8, <1>9 DEF MemOK
<1>11. StateOK(t)
  BY <1>3, <1>7, <1>10 DEF StateOK
<1>12. Later(s, t)
  BY <1>2, <1>3, <1>7, <1>8, <1>9 DEF Later
<1>13. QED
  BY <1>2, <1>7, <1>8, <1>9, <1>11, <1>12

LEMMA UnlockKeysKeeps ==
    ASSUME NEW s, StateOK(s), NEW pw, NEW t, t = Super!unlock_unlocked_device_required_keys(s, pw)
    PROVE  StateOK(t) /\ Later(s, t)
<1>1. CASE s.mem.sym # 0 /\ s.mem.priv # 0
  <2>1. t = s
    BY <1>1 DEF Super!unlock_unlocked_device_required_keys
  <2>2. QED
    BY <2>1, LaterSame
<1>2. CASE ~(s.mem.sym # 0 /\ s.mem.priv # 0)
  <2>1. s.mem.sym = 0 /\ s.mem.priv = 0
    BY <1>2 DEF StateOK, MemOK
  <2>2. PICK a : a = Super!get_or_create_super_key(s, "sym", pw)
    OBVIOUS
  <2>3. "sym" \in Super!Kinds /\ "priv" \in Super!Kinds
    BY DEF Super!Kinds
  <2>4. StateOK(a) /\ Later(s, a) /\ a.mem = s.mem /\ (a.ok => a.stored["sym"].id # 0)
    BY <2>2, <2>3, GetOrCreateKeeps
  <2>5. PICK b : b = IF ~a.ok \/ a.mem.priv # 0 THEN a ELSE Super!get_or_create_super_key(a, "priv", pw)
    OBVIOUS
  <2>6. /\ StateOK(b) /\ Later(s, b)
        /\ b.ok => b.stored["sym"].id # 0 /\ b.stored["priv"].id # 0
    <3>1. CASE ~a.ok
      BY <2>4, <2>5, <3>1
    <3>2. CASE a.ok
      <4>1. b = Super!get_or_create_super_key(a, "priv", pw)
        BY <2>1, <2>4, <2>5, <3>2
      <4>2. StateOK(b) /\ Later(a, b) /\ (b.ok => b.stored["priv"].id # 0)
        BY <2>3, <2>4, <4>1, GetOrCreateKeeps
      <4>3. b.stored["sym"].id # 0
        BY <2>3, <2>4, <3>2, <4>2 DEF Later
      <4>4. Later(s, b)
        BY <2>4, <4>2, LaterTrans
      <4>5. QED
        BY <4>2, <4>3, <4>4
    <3>3. QED
      BY <3>1, <3>2
  <2>7. t = IF ~b.ok THEN [b EXCEPT !.fresh = {}] ELSE Installed(b)
    BY <1>2, <2>1, <2>2, <2>5 DEF Super!unlock_unlocked_device_required_keys, Installed
  <2>8. CASE ~b.ok
    <3>1. PICK o, st, m, n, f : b = [ok |-> o, stored |-> st, mem |-> m, next |-> n, fresh |-> f]
      BY <2>6 DEF StateOK, IsState
    <3>2. t = [ok |-> o, stored |-> st, mem |-> m, next |-> n, fresh |-> {}]
      BY <2>7, <2>8, <3>1
    <3>3. IsState(t) /\ t.stored = b.stored /\ t.mem = b.mem /\ t.next = b.next
      BY <3>1, <3>2, StateFields
    <3>4. StateOK(t) /\ Later(b, t)
      BY <2>6, <3>3, SameState
    <3>5. QED
      BY <2>6, <3>4, LaterTrans
  <2>9. CASE b.ok
    <3>1. t = Installed(b)
      BY <2>7, <2>9
    <3>2. StateOK(t) /\ Later(b, t)
      BY <2>6, <2>9, <3>1, InstalledKeeps
    <3>3. QED
      BY <2>6, <3>2, LaterTrans
  <2>10. QED
    BY <2>8, <2>9
<1>3. QED
  BY <1>1, <1>2

\* The CredentialEncrypted key is installed.
LEMMA CeKeeps ==
    ASSUME NEW s, StateOK(s), NEW t, IsState(t), t.stored = s.stored, t.next = s.next,
           t.mem = [s.mem EXCEPT !.ce = s.stored["ce"].id]
    PROVE  StateOK(t) /\ Later(s, t)
<1>1. PICK m : m = s.mem
  OBVIOUS
<1>2. PICK c, a, p, b : m = [ce |-> c, sym |-> a, priv |-> p, bio |-> b]
  BY <1>1 DEF StateOK, MemOK, IsMem
<1>3. PICK w : w = t.mem
  OBVIOUS
<1>4. PICK i : i = s.stored["ce"].id
  OBVIOUS
<1>5. w = [m EXCEPT !.ce = i]
  BY <1>1, <1>3, <1>4
<1>6. w = [ce |-> i, sym |-> a, priv |-> p, bio |-> b]
  BY <1>2, <1>5
<1>7. IsMem(w) /\ w.ce = i /\ w.sym = a /\ w.priv = p /\ w.bio = b
  BY <1>6, MemFields
<1>8. m.sym = a /\ m.priv = p /\ m.bio = b
  BY <1>2
<1>9. MemOK(w, s.stored)
  BY <1>1, <1>4, <1>7, <1>8 DEF StateOK, MemOK
<1>10. StateOK(t)
  BY <1>3, <1>9 DEF StateOK
<1>11. QED
  BY <1>1, <1>3, <1>7, <1>8, <1>10 DEF Later, StateOK

LEMMA InitializeUserKeeps ==
    ASSUME NEW s, StateOK(s), NEW pw, NEW allow, NEW t, t = Super!initialize_user(s, pw, allow)
    PROVE  StateOK(t) /\ Later(s, t)
<1>1. CASE s.stored["ce"].id # 0 /\ allow
  <2>1. t = Super!unlock_unlocked_device_required_keys(s, pw)
    BY <1>1 DEF Super!initialize_user
  <2>2. QED
    BY <2>1, UnlockKeysKeeps
<1>2. CASE s.stored["ce"].id # 0 /\ ~allow
  <2>1. t = Super!Failed(s)
    BY <1>2 DEF Super!initialize_user
  <2>2. QED
    BY <2>1, FailedKeeps
<1>3. CASE s.stored["ce"].id = 0
  <2>1. PICK c : c = Super!create_super_key(s, "ce", pw)
    OBVIOUS
  <2>2. StateOK(c) /\ Later(s, c)
    BY <1>3, <2>1, CreateKeeps DEF Super!Kinds
  <2>3. PICK d : d = [c EXCEPT !.mem.ce = c.stored["ce"].id]
    OBVIOUS
  <2>4. t = Super!unlock_unlocked_device_required_keys(d, pw)
    BY <1>3, <2>1, <2>3 DEF Super!initialize_user
  <2>5. PICK o, st, m, n, f : c = [ok |-> o, stored |-> st, mem |-> m, next |-> n, fresh |-> f]
    BY <2>2 DEF StateOK, IsState
  <2>6. d = [ok |-> o, stored |-> st, mem |-> [m EXCEPT !.ce = st["ce"].id], next |-> n, fresh |-> f]
    BY <2>3, <2>5
  <2>7. PICK w : w = [m EXCEPT !.ce = st["ce"].id]
    OBVIOUS
  <2>8. IsState(d) /\ d.stored = st /\ d.mem = w /\ d.next = n
    BY <2>6, <2>7, StateFields
  <2>9. c.stored = st /\ c.mem = m /\ c.next = n
    BY <2>5
  <2>10. StateOK(d) /\ Later(c, d)
    BY <2>2, <2>7, <2>8, <2>9, CeKeeps
  <2>11. StateOK(t) /\ Later(d, t)
    BY <2>4, <2>10, UnlockKeysKeeps
  <2>12. Later(s, d)
    BY <2>2, <2>10, LaterTrans
  <2>13. QED
    BY <2>10, <2>11, <2>12, LaterTrans
<1>4. QED
  BY <1>1, <1>2, <1>3

LEMMA UnlockUserKeeps ==
    ASSUME NEW s, StateOK(s), NEW pw, NEW t, t = Super!unlock_user(s, pw)
    PROVE  StateOK(t) /\ Later(s, t)
<1>1. CASE s.mem.ce # 0
  <2>1. t = Super!unlock_unlocked_device_required_keys(s, pw)
    BY <1>1 DEF Super!unlock_user
  <2>2. QED
    BY <2>1, UnlockKeysKeeps
<1>2. CASE s.mem.ce = 0 /\ s.stored["ce"].pw # pw
  <2>1. t = Super!Failed(s)
    BY <1>2 DEF Super!unlock_user
  <2>2. QED
    BY <2>1, FailedKeeps
<1>3. CASE s.mem.ce = 0 /\ s.stored["ce"].pw = pw
  <2>1. PICK d : d = [s EXCEPT !.mem.ce = s.stored["ce"].id, !.fresh = {s.stored["ce"].id}]
    OBVIOUS
  <2>2. t = Super!unlock_unlocked_device_required_keys(d, pw)
    BY <1>3, <2>1 DEF Super!unlock_user
  <2>3. PICK o, st, m, n, f : s = [ok |-> o, stored |-> st, mem |-> m, next |-> n, fresh |-> f]
    BY DEF StateOK, IsState
  <2>4. PICK w : w = [m EXCEPT !.ce = st["ce"].id]
    OBVIOUS
  <2>5. d = [ok |-> o, stored |-> st, mem |-> w, next |-> n, fresh |-> {st["ce"].id}]
    BY <2>1, <2>3, <2>4
  <2>6. IsState(d) /\ d.stored = st /\ d.mem = w /\ d.next = n
    BY <2>5, StateFields
  <2>7. s.stored = st /\ s.mem = m /\ s.next = n
    BY <2>3
  <2>8. StateOK(d) /\ Later(s, d)
    BY <2>4, <2>6, <2>7, CeKeeps
  <2>9. StateOK(t) /\ Later(d, t)
    BY <2>2, <2>8, UnlockKeysKeeps
  <2>10. QED
    BY <2>8, <2>9, LaterTrans
<1>4. QED
  BY <1>1, <1>2, <1>3

LEMMA UnlockOrInitializeKeeps ==
    ASSUME NEW s, StateOK(s), NEW pw, NEW t, t = Super!unlock_or_initialize_user(s, pw)
    PROVE  StateOK(t) /\ Later(s, t)
BY InitializeUserKeeps, UnlockUserKeeps DEF Super!unlock_or_initialize_user


\* A method that fails half-way.
LEMMA OutcomesKeep ==
    ASSUME NEW s, StateOK(s), NEW t, StateOK(t), Later(s, t), NEW w \in Super!Outcomes(s, t)
    PROVE  StateOK(w) /\ Later(s, w)
<1>1. CASE w = t
  BY <1>1
<1>2. CASE w = Super!Failed(s)
  BY <1>2, FailedKeeps
<1>3. CASE w # t /\ w # Super!Failed(s)
  <2>1. PICK done \in {{"ce"}, {"ce", "sym"}} :
          w = [Super!Failed(s) EXCEPT
                 !.stored = [x \in Super!Kinds |-> IF x \in done THEN t.stored[x] ELSE s.stored[x]],
                 !.next = t.next,
                 !.mem.ce = IF "ce" \in done THEN t.mem.ce ELSE @,
                 !.fresh = (IF "ce" \in done THEN {t.mem.ce} ELSE {}) \cap t.fresh]
    BY <1>3 DEF Super!Outcomes
  <2>2. PICK o, so, m, n, f : s = [ok |-> o, stored |-> so, mem |-> m, next |-> n, fresh |-> f]
    BY DEF StateOK, IsState
  <2>3. s.stored = so /\ s.mem = m /\ s.next = n
    BY <2>2
  <2>4. RowsOK(so, n) /\ MemOK(m, so) /\ n \in Nat
    BY <2>3 DEF StateOK
  <2>5. PICK c, a, p, b : m = [ce |-> c, sym |-> a, priv |-> p, bio |-> b]
    BY <2>4 DEF MemOK, IsMem
  <2>6. PICK st : st = [x \in Super!Kinds |-> IF x \in done THEN t.stored[x] ELSE s.stored[x]]
    OBVIOUS
  <2>7. PICK v : v = [ce |-> t.mem.ce, sym |-> a, priv |-> p, bio |-> b]
    OBVIOUS
  <2>8. PICK g : g = (IF "ce" \in done THEN {t.mem.ce} ELSE {}) \cap t.fresh
    OBVIOUS
  <2>9. w = [ok |-> FALSE, stored |-> st, mem |-> v, next |-> t.next, fresh |-> g]
    BY <2>1, <2>2, <2>5, <2>6, <2>7, <2>8 DEF Super!Failed
  <2>10. IsState(w) /\ w.stored = st /\ w.mem = v /\ w.next = t.next
    BY <2>9, StateFields
  <2>11. IsMem(v) /\ v.ce = t.mem.ce /\ v.sym = a /\ v.priv = p /\ v.bio = b
    BY <2>7, MemFields
  <2>12. m.sym = a /\ m.priv = p /\ m.bio = b
    BY <2>5
  <2>13. t.next \in Nat \ {0} /\ RowsOK(t.stored, t.next) /\ MemOK(t.mem, t.stored) /\ t.next >= n
    BY <2>3 DEF StateOK, Later
  <2>14. \A x \in Super!Kinds :
           /\ st[x].id \in {so[x].id, t.stored[x].id}
           /\ st[x].id # 0 => st[x].id = t.stored[x].id
           /\ so[x].id # 0 => st[x].id = so[x].id
           /\ so[x].id = 0 => st[x].id = 0 \/ st[x].id >= n
    BY <2>3, <2>6 DEF Later
  <2>15. st["ce"] = t.stored["ce"]
    BY <2>1, <2>6 DEF Super!Kinds
  <2>16. RowsOK(st, t.next)
    <3>1. DOMAIN st = Super!Kinds /\ st = [x \in Super!Kinds |-> st[x]]
      BY <2>6
    <3>2. \A x \in Super!Kinds : st[x].id \in Nat /\ st[x].id < t.next
      BY <2>4, <2>13, <2>14 DEF RowsOK
    <3>3. \A x, y \in Super!Kinds : st[x].id = st[y].id /\ st[x].id # 0 => x = y
      BY <2>13, <2>14 DEF RowsOK
    <3>4. QED
      BY <3>1, <3>2, <3>3 DEF RowsOK
  <2>17. MemOK(v, st)
    BY <2>4, <2>11, <2>12, <2>13, <2>14, <2>15 DEF MemOK, Super!Kinds
  <2>18. StateOK(w)
    BY <2>10, <2>13, <2>16, <2>17 DEF StateOK
  <2>19. Later(s, w)
    BY <2>3, <2>10, <2>11, <2>12, <2>13, <2>14 DEF Later
  <2>20. QED
    BY <2>18, <2>19
<1>4. QED
  BY <1>1, <1>2, <1>3
-----------------------------------------------------------------------------
(***************************************************************************)
(* The steps of the manager.                                               *)
(***************************************************************************)
LEMMA StateIsOK ==
    ASSUME LockInv, NEW u \in Users
    PROVE  /\ StateOK(Super!State(u)) /\ Super!State(u).mem = mem[u]
           /\ Super!State(u).stored = stored[u] /\ Super!State(u).next = nextId
<1>1. PICK s : s = Super!State(u)
  OBVIOUS
<1>2. s = [ok |-> TRUE, stored |-> stored[u], mem |-> mem[u], next |-> nextId, fresh |-> {}]
  BY <1>1 DEF Super!State
<1>3. IsState(s) /\ s.stored = stored[u] /\ s.mem = mem[u] /\ s.next = nextId
  BY <1>2, StateFields
<1>4. QED
  BY <1>1, <1>3 DEF StateOK, LockInv, ManagerOK

\* A step that replaces what there is of one user.
LEMMA UserStep ==
    ASSUME LockInv, NEW u \in Users, NEW st, NEW m, NEW n, NEW w,
           stored' = [stored EXCEPT ![u] = st], mem' = [mem EXCEPT ![u] = m],
           needs' = [needs EXCEPT ![u] = w], nextId' = n,
           n \in Nat, n >= nextId, RowsOK(st, n), MemOK(m, st), NeedsOK(m, w),
           \A x \in Super!Kinds : st[x].id = 0 \/ st[x].id = stored[u][x].id \/ st[x].id >= nextId,
           CallsOK'
    PROVE  LockInv'
<1>0. ManagerOK /\ IdsUnique
  BY DEF LockInv
<1>1. /\ stored'[u] = st /\ mem'[u] = m /\ needs'[u] = w
      /\ \A v \in Users : v # u => stored'[v] = stored[v] /\ mem'[v] = mem[v] /\ needs'[v] = needs[v]
      /\ DOMAIN stored' = Users /\ stored' = [v \in Users |-> stored'[v]]
      /\ DOMAIN mem' = Users /\ mem' = [v \in Users |-> mem'[v]]
      /\ DOMAIN needs' = Users /\ needs' = [v \in Users |-> needs'[v]]
  BY <1>0 DEF ManagerOK
<1>2. nextId \in Nat \ {0} /\ n \in Nat \ {0}
  BY <1>0 DEF ManagerOK
<1>3. ASSUME NEW v \in Users, v # u PROVE RowsOK(stored[v], n)
  <2>1. RowsOK(stored[v], nextId)
    BY <1>0 DEF ManagerOK
  <2>2. QED
    BY <1>2, <2>1 DEF RowsOK
<1>4. \A v \in Users : /\ RowsOK(stored'[v], n) /\ MemOK(mem'[v], stored'[v])
                       /\ NeedsOK(mem'[v], needs'[v])
  BY <1>0, <1>1, <1>3 DEF ManagerOK
<1>5. ManagerOK'
  BY <1>1, <1>2, <1>4 DEF ManagerOK, RowsOK, MemOK, IsMem, NeedsOK, Super!NoBio, Super!Kinds
<1>6. IdsUnique'
  <2>1. \A v \in Users, x \in Super!Kinds : stored[v][x].id \in Nat /\ stored[v][x].id < nextId
    BY <1>0 DEF ManagerOK, RowsOK
  <2>2. \A v \in Users, x, y \in Super!Kinds : v # u /\ st[x].id = stored[v][y].id => st[x].id = 0
    BY <1>0, <1>2, <2>1 DEF IdsUnique
  <2>3. QED
    BY <1>0, <1>1, <2>2 DEF IdsUnique, Super!Kinds
<1>7. QED
  BY <1>5, <1>6 DEF LockInv

LEMMA KeepUser ==
    ASSUME LockInv, NEW u \in Users
    PROVE  /\ stored = [stored EXCEPT ![u] = stored[u]] /\ mem = [mem EXCEPT ![u] = mem[u]]
           /\ needs = [needs EXCEPT ![u] = needs[u]]
           /\ nextId \in Nat /\ nextId >= nextId
           /\ RowsOK(stored[u], nextId) /\ MemOK(mem[u], stored[u]) /\ NeedsOK(mem[u], needs[u])
<1>0. ManagerOK
  BY DEF LockInv
<1>1. stored = [stored EXCEPT ![u] = stored[u]]
  BY <1>0 DEF ManagerOK
<1>2. mem = [mem EXCEPT ![u] = mem[u]]
  BY <1>0 DEF ManagerOK
<1>3. needs = [needs EXCEPT ![u] = needs[u]]
  BY <1>0 DEF ManagerOK
<1>4. nextId \in Nat /\ nextId >= nextId
  BY <1>0 DEF ManagerOK
<1>5. QED
  BY <1>0, <1>1, <1>2, <1>3, <1>4 DEF ManagerOK

\* A step that changes only memory and what is asked for.
LEMMA MemStep ==
    ASSUME LockInv, NEW u \in Users, NEW m, NEW w, stored' = stored, nextId' = nextId,
           mem' = [mem EXCEPT ![u] = m], needs' = [needs EXCEPT ![u] = w],
           MemOK(m, stored[u]), NeedsOK(m, w), CallsOK'
    PROVE  LockInv'
<1>1. PICK st : st = stored[u]
  OBVIOUS
<1>2. PICK n : n = nextId
  OBVIOUS
<1>3. /\ stored' = [stored EXCEPT ![u] = st] /\ nextId' = n /\ n \in Nat /\ n >= nextId
      /\ RowsOK(st, n) /\ MemOK(m, st)
      /\ \A x \in Super!Kinds : st[x].id = 0 \/ st[x].id = stored[u][x].id \/ st[x].id >= nextId
  BY <1>1, <1>2, KeepUser
<1>4. QED
  BY <1>3, UserStep

\* A method that succeeds or fails, of a user who unlocks.
LEMMA ApplyKeeps ==
    ASSUME LockInv, NEW u \in Users, NEW s, StateOK(s), Later(Super!State(u), s), Super!Apply(u, s),
           needs' = [needs EXCEPT ![u] = IF s.mem.sym # 0 THEN "nothing" ELSE @], CallsOK'
    PROVE  LockInv'
<1>1. PICK w : w = IF s.mem.sym # 0 THEN "nothing" ELSE needs[u]
  OBVIOUS
<1>2. needs' = [needs EXCEPT ![u] = w]
  BY <1>1
<1>3. stored' = [stored EXCEPT ![u] = s.stored] /\ mem' = [mem EXCEPT ![u] = s.mem] /\ nextId' = s.next
  BY DEF Super!Apply
<1>4. /\ s.next >= nextId /\ s.mem.bio = mem[u].bio /\ (s.mem.sym = mem[u].sym \/ s.mem.sym # 0)
      /\ \A x \in Super!Kinds :
           s.stored[x].id = 0 \/ s.stored[x].id = stored[u][x].id \/ s.stored[x].id >= nextId
  BY StateIsOK DEF Later
<1>5. s.next \in Nat /\ RowsOK(s.stored, s.next) /\ MemOK(s.mem, s.stored)
  BY DEF StateOK
<1>6. NeedsOK(s.mem, w)
  BY <1>1, <1>4, KeepUser DEF NeedsOK
<1>7. QED
  BY <1>2, <1>3, <1>4, <1>5, <1>6, UserStep

LEMMA CallsStay ==
    ASSUME CallsOK, NEW t \in Callers, NEW a, call' = [call EXCEPT ![t] = a],
           a.at \in {"unlock", "lock"} => a.user \in Users
    PROVE  CallsOK'
<1>1. /\ call'[t] = a /\ \A s \in Callers : s # t => call'[s] = call[s]
      /\ DOMAIN call' = Callers /\ call' = [s \in Callers |-> call'[s]]
  BY DEF CallsOK
<1>2. QED
  BY <1>1 DEF CallsOK

LEMMA CallsSame == CallsOK /\ call' = call => CallsOK'
BY DEF CallsOK

LEMMA CallsIdle ==
    ASSUME CallsOK, NEW t \in Callers, call' = [call EXCEPT ![t] = Super!Idle] PROVE CallsOK'
<1>1. Super!Idle.at = "idle"
  BY DEF Super!Idle
<1>2. QED
  BY <1>1, CallsStay

LEMMA LockSame ==
    ASSUME LockInv, UNCHANGED <<stored, nextId, mem, needs>>, CallsOK' PROVE LockInv'
BY DEF LockInv, ManagerOK, IdsUnique, RowsOK, MemOK, IsMem, NeedsOK, Super!NoBio, Super!Kinds


LEMMA NoKeysOK ==
    ASSUME NEW st PROVE MemOK(Super!NoKeys, st) /\ \A w : w \in {"password", "biometric", "nothing"} => NeedsOK(Super!NoKeys, w)
<1>1. PICK m : m = Super!NoKeys
  OBVIOUS
<1>2. m = [ce |-> 0, sym |-> 0, priv |-> 0, bio |-> Super!NoBio]
  BY <1>1 DEF Super!NoKeys
<1>3. IsMem(m) /\ m.ce = 0 /\ m.sym = 0 /\ m.priv = 0 /\ m.bio = Super!NoBio
  BY <1>2, MemFields
<1>4. Super!NoBio.sids = {}
  BY DEF Super!NoBio
<1>5. QED
  BY <1>1, <1>3, <1>4 DEF MemOK, NeedsOK

LEMMA WipeKeeps ==
    ASSUME NEW m, NEW st, MemOK(m, st), NEW option,
           NEW n, n = Super!wipe_unlocked_device_required_keys(m, option)
    PROVE  /\ MemOK(n, st) /\ n.sym = 0 /\ n.priv = 0
           /\ n.bio = IF option = "PlaintextAndBiometric" THEN Super!NoBio ELSE m.bio
<1>1. PICK c, a, p, b : m = [ce |-> c, sym |-> a, priv |-> p, bio |-> b]
  BY DEF MemOK, IsMem
<1>2. PICK d : d = IF option = "PlaintextAndBiometric" THEN Super!NoBio ELSE b
  OBVIOUS
<1>3. n = [ce |-> c, sym |-> 0, priv |-> 0, bio |-> d]
  BY <1>1, <1>2 DEF Super!wipe_unlocked_device_required_keys
<1>4. IsMem(n) /\ n.ce = c /\ n.sym = 0 /\ n.priv = 0 /\ n.bio = d
  BY <1>3, MemFields
<1>5. m.ce = c /\ m.bio = b
  BY <1>1
<1>6. Super!NoBio.sids = {}
  BY DEF Super!NoBio
<1>7. QED
  BY <1>2, <1>4, <1>5, <1>6 DEF MemOK

LEMMA LockKeysKeeps ==
    ASSUME NEW m, NEW st, MemOK(m, st), NEW sids, NEW weak, NEW imported,
           NEW n, n = Super!lock_unlocked_device_required_keys(m, sids, weak, imported)
    PROVE  /\ MemOK(n, st)
           /\ IF weak THEN n.sym = m.sym ELSE n.sym = 0
           /\ sids = {} => n.bio = Super!NoBio
           /\ m.sym = 0 /\ sids # {} => n.bio = m.bio
<1>1. PICK c, a, p, b : m = [ce |-> c, sym |-> a, priv |-> p, bio |-> b]
  BY DEF MemOK, IsMem
<1>2. PICK d : d = IF sids = {} THEN Super!NoBio
                   ELSE IF m.sym # 0 /\ m.priv # 0 /\ imported
                        THEN [sids |-> sids, sym |-> m.sym, priv |-> m.priv]
                        ELSE m.bio
  OBVIOUS
<1>3. PICK k : k = [m EXCEPT !.bio = d]
  OBVIOUS
<1>4. k = [ce |-> c, sym |-> a, priv |-> p, bio |-> d]
  BY <1>1, <1>3
<1>5. IsMem(k) /\ k.ce = c /\ k.sym = a /\ k.priv = p /\ k.bio = d
  BY <1>4, MemFields
<1>6. m.ce = c /\ m.sym = a /\ m.priv = p
  BY <1>1
<1>7. d.sids # {} => d.sym = st["sym"].id /\ d.priv = st["priv"].id /\ d.sym # 0 /\ d.priv # 0
  <2>1. CASE sids = {}
    BY <1>2, <2>1 DEF Super!NoBio
  <2>2. CASE sids # {} /\ m.sym # 0 /\ m.priv # 0 /\ imported
    <3>1. d = [sids |-> sids, sym |-> m.sym, priv |-> m.priv]
      BY <1>2, <2>2
    <3>2. d.sym = m.sym /\ d.priv = m.priv
      BY <3>1
    <3>3. QED
      BY <2>2, <3>2 DEF MemOK
  <2>3. CASE sids # {} /\ ~(m.sym # 0 /\ m.priv # 0 /\ imported)
    <3>1. d = m.bio
      BY <1>2, <2>3
    <3>2. QED
      BY <3>1 DEF MemOK
  <2>4. QED
    BY <2>1, <2>2, <2>3
<1>8. MemOK(k, st)
  BY <1>5, <1>6, <1>7 DEF MemOK
<1>9. /\ sids = {} => k.bio = Super!NoBio
      /\ m.sym = 0 /\ sids # {} => k.bio = m.bio
  BY <1>2, <1>5
<1>10. n = IF weak THEN k ELSE Super!wipe_unlocked_device_required_keys(k, "PlaintextOnly")
  BY <1>2, <1>3 DEF Super!lock_unlocked_device_required_keys
<1>11. CASE weak
  BY <1>5, <1>6, <1>8, <1>9, <1>10, <1>11
<1>12. CASE ~weak
  <2>1. n = Super!wipe_unlocked_device_required_keys(k, "PlaintextOnly")
    BY <1>10, <1>12
  <2>2. MemOK(n, st) /\ n.sym = 0 /\ n.bio = k.bio
    BY <1>8, <2>1, WipeKeeps
  <2>3. QED
    BY <1>9, <1>12, <2>2
<1>13. QED
  BY <1>11, <1>12

LEMMA BiometricKeeps ==
    ASSUME NEW s, StateOK(s), NEW sid, NEW t, t = Super!try_unlock_user_with_biometric(s, sid)
    PROVE  /\ StateOK(t) /\ t.stored = s.stored /\ t.next = s.next /\ t.mem.bio = s.mem.bio
           /\ t.mem = s.mem \/ (s.mem.bio.sids # {} /\ t.mem.sym # 0)
<1>1. CASE (s.mem.sym # 0 /\ s.mem.priv # 0) \/ sid \notin s.mem.bio.sids
  BY <1>1 DEF Super!try_unlock_user_with_biometric
<1>2. CASE ~((s.mem.sym # 0 /\ s.mem.priv # 0) \/ sid \notin s.mem.bio.sids)
  <2>1. PICK o, st, m, n, f : s = [ok |-> o, stored |-> st, mem |-> m, next |-> n, fresh |-> f]
    BY DEF StateOK, IsState
  <2>2. s.stored = st /\ s.mem = m /\ s.next = n
    BY <2>1
  <2>3. n \in Nat \ {0} /\ RowsOK(st, n) /\ MemOK(m, st)
    BY <2>2 DEF StateOK
  <2>4. PICK c, a, p, b : m = [ce |-> c, sym |-> a, priv |-> p, bio |-> b]
    BY <2>3 DEF MemOK, IsMem
  <2>5. PICK w : w = [ce |-> c, sym |-> b.sym, priv |-> b.priv, bio |-> b]
    OBVIOUS
  <2>6. PICK g : g = {b.sym, b.priv}
    OBVIOUS
  <2>7. t = [s EXCEPT !.mem.sym = s.mem.bio.sym, !.mem.priv = s.mem.bio.priv,
                      !.fresh = {s.mem.bio.sym, s.mem.bio.priv}]
    BY <1>2 DEF Super!try_unlock_user_with_biometric
  <2>8. t = [ok |-> o, stored |-> st, mem |-> w, next |-> n, fresh |-> g]
    <3>1. PICK i, j : i = b.sym /\ j = b.priv
      OBVIOUS
    <3>2. s.mem.bio = b
      BY <2>1, <2>4
    <3>3. t = [s EXCEPT !.mem.sym = i, !.mem.priv = j, !.fresh = g]
      BY <2>6, <2>7, <3>1, <3>2
    <3>4. w = [ce |-> c, sym |-> i, priv |-> j, bio |-> b]
      BY <2>5, <3>1
    <3>5. QED
      BY <2>1, <2>4, <3>3, <3>4
  <2>9. IsState(t) /\ t.stored = st /\ t.mem = w /\ t.next = n
    BY <2>8, StateFields
  <2>10. IsMem(w) /\ w.ce = c /\ w.sym = b.sym /\ w.priv = b.priv /\ w.bio = b
    BY <2>5, MemFields
  <2>11. m.ce = c /\ m.bio = b
    BY <2>4
  <2>12. b.sids # {}
    BY <1>2, <2>2, <2>11
  <2>13. MemOK(w, st) /\ w.sym # 0
    BY <2>3, <2>10, <2>11, <2>12 DEF MemOK
  <2>14. StateOK(t)
    BY <2>3, <2>9, <2>13 DEF StateOK
  <2>15. QED
    BY <2>2, <2>9, <2>10, <2>11, <2>12, <2>13, <2>14
<1>3. QED
  BY <1>1, <1>2

-----------------------------------------------------------------------------
\* A notification with a password, or a maintenance call that brings one.
LEMMA OutcomeStep ==
    ASSUME LockInv, NEW u \in Users, NEW t, StateOK(t), Later(Super!State(u), t), CallsOK',
           NEW s \in Super!Outcomes(Super!State(u), t), Super!Apply(u, s),
           needs' = [needs EXCEPT ![u] = IF s.mem.sym # 0 THEN "nothing" ELSE @]
    PROVE  LockInv'
<1>1. StateOK(Super!State(u))
  BY StateIsOK
<1>2. StateOK(s) /\ Later(Super!State(u), s)
  BY <1>1, OutcomesKeep
<1>3. QED
  BY <1>2, ApplyKeeps

LEMMA NotifiedUnlock ==
    ASSUME LockInv, NEW t \in Callers, NEW u \in Users, NEW pw, Super!onDeviceUnlocked(t, u, pw)
    PROVE  LockInv'
<1>1. PICK a : a = [at |-> "unlock", user |-> u, pw |-> pw]
  OBVIOUS
<1>2. call' = [call EXCEPT ![t] = a] /\ UNCHANGED <<stored, nextId, mem, needs>>
  BY <1>1 DEF Super!onDeviceUnlocked
<1>3. CallsOK'
  BY <1>1, <1>2, CallsStay DEF LockInv
<1>4. QED
  BY <1>2, <1>3, LockSame

LEMMA NotifiedLock ==
    ASSUME LockInv, NEW t \in Callers, NEW u \in Users, NEW sids, NEW weak,
           Super!onDeviceLocked(t, u, sids, weak)
    PROVE  LockInv'
<1>1. PICK a : a = [at |-> "lock", user |-> u, sids |-> sids, weak |-> weak]
  OBVIOUS
<1>2. call' = [call EXCEPT ![t] = a] /\ UNCHANGED <<stored, nextId, mem, needs>>
  BY <1>1 DEF Super!onDeviceLocked
<1>3. CallsOK'
  BY <1>1, <1>2, CallsStay DEF LockInv
<1>4. QED
  BY <1>2, <1>3, LockSame

LEMMA Unlocks ==
    ASSUME LockInv, NEW t \in Callers, Super!on_device_unlocked(t)
    PROVE  LockInv'
<1>1. call[t].at = "unlock" /\ call' = [call EXCEPT ![t] = Super!Idle]
  BY DEF Super!on_device_unlocked
<1>2. CallsOK'
  BY <1>1, CallsIdle DEF LockInv
<1>3. PICK u : u = call[t].user
  OBVIOUS
<1>4. PICK pw : pw = call[t].pw
  OBVIOUS
<1>5. u \in Users
  BY <1>1, <1>3 DEF LockInv, CallsOK
<1>6. CASE pw # "-"
  <2>1. PICK s \in Super!Outcomes(Super!State(u), Super!unlock_or_initialize_user(Super!State(u), pw)) :
          /\ Super!Apply(u, s)
          /\ needs' = [needs EXCEPT ![u] = IF s.mem.sym # 0 THEN "nothing" ELSE @]
    BY <1>3, <1>4, <1>6 DEF Super!on_device_unlocked
  <2>2. PICK w : w = Super!unlock_or_initialize_user(Super!State(u), pw)
    OBVIOUS
  <2>3. StateOK(Super!State(u))
    BY <1>5, StateIsOK
  <2>4. StateOK(w) /\ Later(Super!State(u), w)
    BY <2>2, <2>3, UnlockOrInitializeKeeps
  <2>5. s \in Super!Outcomes(Super!State(u), w)
    BY <2>1, <2>2
  <2>6. QED
    BY <1>2, <1>5, <2>1, <2>4, <2>5, OutcomeStep
<1>7. CASE pw = "-"
  <2>1. PICK sid, s :
          /\ s = Super!try_unlock_user_with_biometric(Super!State(u), sid)
          /\ Super!Apply(u, s)
          /\ needs' = [needs EXCEPT ![u] = IF @ = "biometric" /\ s.mem.sym # 0 THEN "nothing" ELSE @]
    BY <1>3, <1>4, <1>7 DEF Super!on_device_unlocked
  <2>2. /\ StateOK(Super!State(u)) /\ Super!State(u).mem = mem[u]
        /\ Super!State(u).stored = stored[u] /\ Super!State(u).next = nextId
    BY <1>5, StateIsOK
  <2>3. /\ StateOK(s) /\ s.stored = stored[u] /\ s.next = nextId /\ s.mem.bio = mem[u].bio
        /\ s.mem = mem[u] \/ (mem[u].bio.sids # {} /\ s.mem.sym # 0)
    BY <2>1, <2>2, BiometricKeeps
  <2>4. PICK w : w = IF needs[u] = "biometric" /\ s.mem.sym # 0 THEN "nothing" ELSE needs[u]
    OBVIOUS
  <2>5. needs' = [needs EXCEPT ![u] = w]
    BY <2>1, <2>4
  <2>6. NeedsOK(mem[u], needs[u])
    BY <1>5, KeepUser
  <2>7. Super!NoBio.sids = {}
    BY DEF Super!NoBio
  <2>8. NeedsOK(s.mem, w)
    BY <2>3, <2>4, <2>6, <2>7 DEF NeedsOK
  <2>9. stored' = [stored EXCEPT ![u] = s.stored] /\ mem' = [mem EXCEPT ![u] = s.mem] /\ nextId' = s.next
    BY <2>1 DEF Super!Apply
  <2>10. s.next \in Nat /\ s.next >= nextId /\ RowsOK(s.stored, s.next) /\ MemOK(s.mem, s.stored)
    BY <1>5, <2>3, KeepUser DEF StateOK
  <2>11. \A x \in Super!Kinds :
           s.stored[x].id = 0 \/ s.stored[x].id = stored[u][x].id \/ s.stored[x].id >= nextId
    BY <2>3
  <2>12. QED
    BY <1>2, <1>5, <2>5, <2>8, <2>9, <2>10, <2>11, UserStep
<1>8. QED
  BY <1>6, <1>7

LEMMA Locks ==
    ASSUME LockInv, NEW t \in Callers, Super!on_device_locked(t)
    PROVE  LockInv'
<1>1. /\ call[t].at = "lock" /\ call' = [call EXCEPT ![t] = Super!Idle]
      /\ stored' = stored /\ nextId' = nextId
  BY DEF Super!on_device_locked
<1>2. CallsOK'
  BY <1>1, CallsIdle DEF LockInv
<1>3. PICK u : u = call[t].user
  OBVIOUS
<1>4. PICK sids : sids = call[t].sids
  OBVIOUS
<1>5. PICK weak : weak = call[t].weak
  OBVIOUS
<1>6. u \in Users
  BY <1>1, <1>3 DEF LockInv, CallsOK
<1>7. PICK imported, m :
        /\ m = Super!lock_unlocked_device_required_keys(mem[u], sids, weak, imported)
        /\ mem' = [mem EXCEPT ![u] = m]
        /\ needs' = [needs EXCEPT ![u] =
              IF sids = {} /\ (~weak \/ @ # "nothing") THEN "password"
              ELSE IF weak \/ @ = "password" THEN @ ELSE "biometric"]
  BY <1>3, <1>4, <1>5 DEF Super!on_device_locked
<1>8. PICK w : w = IF sids = {} /\ (~weak \/ needs[u] # "nothing") THEN "password"
                   ELSE IF weak \/ needs[u] = "password" THEN needs[u] ELSE "biometric"
  OBVIOUS
<1>9. needs' = [needs EXCEPT ![u] = w]
  BY <1>7, <1>8
<1>10. MemOK(mem[u], stored[u]) /\ NeedsOK(mem[u], needs[u])
  BY <1>6, KeepUser
<1>11. /\ MemOK(m, stored[u])
       /\ IF weak THEN m.sym = mem[u].sym ELSE m.sym = 0
       /\ sids = {} => m.bio = Super!NoBio
       /\ mem[u].sym = 0 /\ sids # {} => m.bio = mem[u].bio
  BY <1>7, <1>10, LockKeysKeeps
<1>12. NeedsOK(m, w)
  BY <1>8, <1>10, <1>11 DEF NeedsOK
<1>13. QED
  BY <1>1, <1>2, <1>6, <1>7, <1>9, <1>11, <1>12, MemStep

LEMMA WeakExpired ==
    ASSUME LockInv, NEW t \in Callers, NEW u \in Users, Super!on_weak_unlock_methods_expired(t, u)
    PROVE  LockInv'
<1>1. PICK m : m = Super!wipe_unlocked_device_required_keys(mem[u], "PlaintextOnly")
  OBVIOUS
<1>2. PICK w : w = IF needs[u] = "password" THEN needs[u] ELSE "biometric"
  OBVIOUS
<1>3. /\ mem' = [mem EXCEPT ![u] = m] /\ needs' = [needs EXCEPT ![u] = w]
      /\ stored' = stored /\ nextId' = nextId /\ call' = call
  BY <1>1, <1>2 DEF Super!on_weak_unlock_methods_expired
<1>4. MemOK(mem[u], stored[u]) /\ NeedsOK(mem[u], needs[u])
  BY KeepUser
<1>5. MemOK(m, stored[u]) /\ m.sym = 0 /\ m.bio = mem[u].bio
  BY <1>1, <1>4, WipeKeeps
<1>6. NeedsOK(m, w)
  BY <1>2, <1>4, <1>5 DEF NeedsOK
<1>7. CallsOK'
  BY <1>3, CallsSame DEF LockInv
<1>8. QED
  BY <1>3, <1>5, <1>6, <1>7, MemStep

LEMMA NonLskfExpired ==
    ASSUME LockInv, NEW t \in Callers, NEW u \in Users, Super!on_non_lskf_unlock_methods_expired(t, u)
    PROVE  LockInv'
<1>1. PICK m : m = Super!wipe_unlocked_device_required_keys(mem[u], "PlaintextAndBiometric")
  OBVIOUS
<1>2. /\ mem' = [mem EXCEPT ![u] = m] /\ needs' = [needs EXCEPT ![u] = "password"]
      /\ stored' = stored /\ nextId' = nextId /\ call' = call
  BY <1>1 DEF Super!on_non_lskf_unlock_methods_expired
<1>3. MemOK(mem[u], stored[u])
  BY KeepUser
<1>4. MemOK(m, stored[u]) /\ m.sym = 0 /\ m.bio = Super!NoBio
  BY <1>1, <1>3, WipeKeeps
<1>5. NeedsOK(m, "password")
  BY <1>4 DEF NeedsOK
<1>6. CallsOK'
  BY <1>2, CallsSame DEF LockInv
<1>7. QED
  BY <1>2, <1>4, <1>5, <1>6, MemStep

LEMMA StorageLocked ==
    ASSUME LockInv, NEW t \in Callers, NEW u \in Users, Super!on_user_storage_locked(t, u)
    PROVE  LockInv'
<1>1. /\ mem' = [mem EXCEPT ![u] = Super!NoKeys] /\ needs' = [needs EXCEPT ![u] = "password"]
      /\ stored' = stored /\ nextId' = nextId /\ call' = call
  BY DEF Super!on_user_storage_locked, Super!forget_all_keys_for_user
<1>2. MemOK(Super!NoKeys, stored[u]) /\ NeedsOK(Super!NoKeys, "password")
  BY NoKeysOK
<1>3. CallsOK'
  BY <1>1, CallsSame DEF LockInv
<1>4. QED
  BY <1>1, <1>2, <1>3, MemStep

LEMMA InitsUser ==
    ASSUME LockInv, NEW u \in Users, NEW pw, NEW e, Super!init_user_super_keys(u, pw, e)
    PROVE  LockInv'
<1>1. PICK s \in Super!Outcomes(Super!State(u), Super!initialize_user(Super!State(u), pw, e)) :
        /\ Super!Apply(u, s)
        /\ needs' = [needs EXCEPT ![u] = IF s.mem.sym # 0 THEN "nothing" ELSE @]
  BY DEF Super!init_user_super_keys
<1>2. PICK w : w = Super!initialize_user(Super!State(u), pw, e)
  OBVIOUS
<1>3. StateOK(w) /\ Later(Super!State(u), w)
  BY <1>2, StateIsOK, InitializeUserKeeps
<1>4. CallsOK'
  BY CallsSame DEF LockInv, Super!init_user_super_keys
<1>5. QED
  BY <1>1, <1>2, <1>3, <1>4, OutcomeStep

LEMMA ChangesPassword ==
    ASSUME LockInv, NEW u \in Users, NEW pw, Super!on_user_password_changed(u, pw)
    PROVE  LockInv'
<1>1. PICK s \in Super!Outcomes(Super!State(u), Super!unlock_or_initialize_user(Super!State(u), pw)) :
        /\ Super!Apply(u, s)
        /\ needs' = [needs EXCEPT ![u] = IF s.mem.sym # 0 THEN "nothing" ELSE @]
  BY DEF Super!on_user_password_changed
<1>2. PICK w : w = Super!unlock_or_initialize_user(Super!State(u), pw)
  OBVIOUS
<1>3. StateOK(w) /\ Later(Super!State(u), w)
  BY <1>2, StateIsOK, UnlockOrInitializeKeeps
<1>4. CallsOK'
  BY CallsSame DEF LockInv, Super!on_user_password_changed
<1>5. QED
  BY <1>1, <1>2, <1>3, <1>4, OutcomeStep

LEMMA Unbinds ==
    ASSUME LockInv, NEW u \in Users, NEW gone, Super!Unbind(u, gone)
    PROVE  LockInv'
<1>1. PICK st : st = [x \in Super!Kinds |-> Super!NoRow]
  OBVIOUS
<1>2. PICK n : n = nextId
  OBVIOUS
<1>3. PICK m : m = Super!NoKeys
  OBVIOUS
<1>4. /\ stored' = [stored EXCEPT ![u] = st] /\ mem' = [mem EXCEPT ![u] = m]
      /\ needs' = [needs EXCEPT ![u] = "password"] /\ nextId' = n /\ call' = call
  BY <1>1, <1>2, <1>3 DEF Super!Unbind, Super!forget_all_keys_for_user
<1>5. n \in Nat \ {0} /\ n >= nextId
  BY <1>2 DEF LockInv, ManagerOK
<1>6. DOMAIN st = Super!Kinds /\ (\A x \in Super!Kinds : st[x].id = 0) /\ st = [x \in Super!Kinds |-> st[x]]
  BY <1>1 DEF Super!NoRow
<1>7. RowsOK(st, n)
  BY <1>5, <1>6 DEF RowsOK
<1>8. MemOK(m, st) /\ NeedsOK(m, "password")
  BY <1>3, NoKeysOK
<1>9. CallsOK'
  BY <1>4, CallsSame DEF LockInv
<1>10. PICK w : w = "password"
  OBVIOUS
<1>11. needs' = [needs EXCEPT ![u] = w] /\ NeedsOK(m, w)
  BY <1>4, <1>8, <1>10
<1>12. \A x \in Super!Kinds : st[x].id = 0 \/ st[x].id = stored[u][x].id \/ st[x].id >= nextId
  BY <1>6
<1>13. QED
  BY <1>4, <1>5, <1>7, <1>8, <1>9, <1>11, <1>12, UserStep

LEMMA Restarts ==
    ASSUME LockInv, Super!Restart PROVE LockInv'
<1>1. /\ mem' = [u \in Users |-> Super!NoKeys] /\ needs' = [u \in Users |-> "password"]
      /\ call' = [t \in Callers |-> Super!Idle] /\ stored' = stored /\ nextId' = nextId
  BY DEF Super!Restart
<1>2. CallsOK'
  BY <1>1 DEF CallsOK, Super!Idle
<1>3. \A u \in Users : MemOK(Super!NoKeys, stored[u]) /\ NeedsOK(Super!NoKeys, "password")
  BY NoKeysOK
<1>4. /\ DOMAIN mem' = Users /\ mem' = [u \in Users |-> mem'[u]]
      /\ DOMAIN needs' = Users /\ needs' = [u \in Users |-> needs'[u]]
      /\ \A u \in Users : mem'[u] = Super!NoKeys /\ needs'[u] = "password"
  BY <1>1
<1>5. \A u \in Users : RowsOK(stored'[u], nextId') /\ MemOK(mem'[u], stored'[u]) /\ NeedsOK(mem'[u], needs'[u])
  BY <1>1, <1>3, <1>4 DEF LockInv, ManagerOK
<1>6. ManagerOK'
  <2>1. nextId' \in Nat \ {0} /\ DOMAIN stored' = Users /\ stored' = [u \in Users |-> stored'[u]]
    BY <1>1 DEF LockInv, ManagerOK
  <2>2. QED
    BY <1>4, <1>5, <2>1 DEF ManagerOK, RowsOK, MemOK, IsMem, NeedsOK, Super!NoBio, Super!Kinds
<1>7. IdsUnique'
  BY <1>1 DEF LockInv, IdsUnique, Super!Kinds
<1>8. QED
  BY <1>2, <1>6, <1>7 DEF LockInv

LEMMA LockInit == Super!Init => LockInv
<1> SUFFICES ASSUME Super!Init PROVE LockInv
  OBVIOUS
<1>1. PICK st : st = [x \in Super!Kinds |-> Super!NoRow]
  OBVIOUS
<1>2. /\ stored = [u \in Users |-> st] /\ nextId = 1 /\ mem = [u \in Users |-> Super!NoKeys]
      /\ call = [t \in Callers |-> Super!Idle] /\ needs = [u \in Users |-> "password"]
  BY <1>1 DEF Super!Init
<1>3. DOMAIN st = Super!Kinds /\ (\A x \in Super!Kinds : st[x].id = 0) /\ st = [x \in Super!Kinds |-> st[x]]
  BY <1>1 DEF Super!NoRow
<1>4. RowsOK(st, 1)
  BY <1>3 DEF RowsOK
<1>5. MemOK(Super!NoKeys, st) /\ NeedsOK(Super!NoKeys, "password")
  BY NoKeysOK
<1>6. ManagerOK
  BY <1>2, <1>4, <1>5 DEF ManagerOK
<1>7. IdsUnique
  BY <1>2, <1>3 DEF IdsUnique
<1>8. CallsOK
  BY <1>2 DEF CallsOK, Super!Idle
<1>9. QED
  BY <1>6, <1>7, <1>8 DEF LockInv

\* What clients do leaves the manager alone.
LEMMA LockNext ==
    ASSUME LockInv, [Super!Next]_(Super!vars) PROVE LockInv'
<1>1. ASSUME UNCHANGED <<stored, nextId, mem, needs, call>> PROVE LockInv'
  <2>1. CallsOK'
    BY <1>1, CallsSame DEF LockInv
  <2>2. QED
    BY <1>1, <2>1, LockSame
<1>2. CASE UNCHANGED Super!vars
  BY <1>1, <1>2 DEF Super!vars
<1>3. CASE \E t \in Callers, u \in Users :
             \/ \E pw \in Passwords \cup {"-"} : Super!onDeviceUnlocked(t, u, pw)
             \/ \E sids \in SUBSET Sids, weak \in BOOLEAN : Super!onDeviceLocked(t, u, sids, weak)
             \/ Super!on_weak_unlock_methods_expired(t, u)
             \/ Super!on_non_lskf_unlock_methods_expired(t, u)
             \/ Super!on_user_storage_locked(t, u)
  BY <1>3, NotifiedUnlock, NotifiedLock, WeakExpired, NonLskfExpired, StorageLocked
<1>4. CASE \E t \in Callers : Super!on_device_unlocked(t) \/ Super!on_device_locked(t)
  BY <1>4, Unlocks, Locks
<1>5. CASE \E u \in Users, pw \in Passwords, e \in BOOLEAN : Super!init_user_super_keys(u, pw, e)
  BY <1>5, InitsUser
<1>6. CASE \E u \in Users, pw \in Passwords : Super!on_user_password_changed(u, pw)
  BY <1>6, ChangesPassword
<1>7. CASE \E u \in Users : Super!remove_user(u) \/ Super!reset_lskf_bound_state(u)
  BY <1>7, Unbinds DEF Super!remove_user, Super!reset_lskf_bound_state
<1>8. CASE \E u \in Users : Super!on_user_lskf_removed(u)
  BY <1>1, <1>8 DEF Super!on_user_lskf_removed
<1>9. CASE \E c \in Clients, k \in Keys : Super!store_new_key(c, k) \/ Super!unwrap_key_if_required(c, k)
  BY <1>1, <1>9 DEF Super!store_new_key, Super!unwrap_key_if_required
<1>10. CASE \E c \in Clients : Super!StoreBlob(c) \/ Super!reencrypt_if_required(c)
  BY <1>1, <1>10 DEF Super!StoreBlob, Super!reencrypt_if_required
<1>11. CASE Super!Restart
  BY <1>11, Restarts
<1>12. QED
  BY <1>2, <1>3, <1>4, <1>5, <1>6, <1>7, <1>8, <1>9, <1>10, <1>11 DEF Super!Next

LEMMA LockInvHolds == LockInv => Super!LockHolds
<1> SUFFICES ASSUME LockInv, NEW u \in Users, needs[u] # "nothing"
             PROVE  /\ mem[u].sym = 0 /\ mem[u].priv = 0
                    /\ needs[u] = "password" => mem[u].bio = Super!NoBio
                    /\ \A x \in {"sym", "priv"} :
                         stored[u][x].id # 0 /\ Super!lookup_key(stored[u][x].id)
                           => Super!HeldByClient(stored[u][x].id)
  BY DEF Super!LockHolds
<1>1. /\ mem[u].sym = 0 /\ mem[u].priv = 0
      /\ needs[u] = "password" => mem[u].bio = Super!NoBio
  BY DEF LockInv, ManagerOK, NeedsOK, MemOK
<1>2. ASSUME NEW x \in {"sym", "priv"}, stored[u][x].id # 0, NEW v \in Users,
             stored[u][x].id \in {mem[v].ce, mem[v].sym, mem[v].priv} \ {0}
      PROVE  FALSE
  <2>1. MemOK(mem[v], stored[v]) /\ MemOK(mem[u], stored[u]) /\ RowsOK(stored[u], nextId) /\ IdsUnique
    BY DEF LockInv, ManagerOK
  <2>2. PICK i : i = stored[u][x].id
    OBVIOUS
  <2>3. PICK y \in Super!Kinds : i = stored[v][y].id
    BY <1>2, <2>1, <2>2 DEF MemOK, Super!Kinds
  <2>4. u = v
    <3>1. x \in Super!Kinds
      BY DEF Super!Kinds
    <3>2. stored[u][x].id = stored[v][y].id /\ stored[u][x].id # 0
      BY <1>2, <2>2, <2>3
    <3>3. QED
      BY <2>1, <2>3, <3>1, <3>2 DEF IdsUnique
  <2>5. i = mem[u].ce /\ i # 0
    BY <1>1, <1>2, <2>2, <2>4
  <2>6. i = stored[u]["ce"].id
    BY <2>1, <2>5 DEF MemOK
  <2>7. QED
    BY <1>2, <2>1, <2>2, <2>5, <2>6 DEF RowsOK, Super!Kinds
<1>3. QED
  BY <1>1, <1>2 DEF Super!lookup_key

\* LockHolds, for every set of users, keys and threads, whether or not calls
\* fail: once a lock-state notification (DeviceLockState, SuperKeyManager)
\* took the UnlockedDeviceRequired keys out of memory, no other sequence of
\* notifications, failed unlocks and maintenance calls brings them back, or
\* lets key_index find them, before what the notification calls for.
THEOREM LockIsKept == Super!Spec => []LockHolds
<1>1. Super!Init => LockInv
  BY LockInit
<1>2. LockInv /\ [Super!Next]_(Super!vars) => LockInv'
  BY LockNext
<1>3. LockInv => LockHolds
  BY LockInvHolds DEF LockHolds
<1>4. QED
  BY <1>1, <1>2, <1>3, PTL DEF Super!Spec

-----------------------------------------------------------------------------
(***************************************************************************)
(* What clients store.  The inductive invariant: a blob that is stored, is *)
(* about to be stored, or is about to be written back under the key that a *)
(* client holds, is encrypted with a row of its owner - unless the rows    *)
(* went in between; and a super key encrypts only keys of apps, which go   *)
(* with the rows.                                                          *)
(***************************************************************************)
RowsOf(k) == {stored[Owner[k]][x].id : x \in Super!Kinds} \ {0}

IsBlob(b)    == b = [enc |-> b.enc, id |-> b.id, raced |-> b.raced]
IsStoring(r) == r = [at |-> "storing", key |-> r.key, id |-> r.id, raced |-> r.raced]
IsUsing(r)   == r = [at |-> "using", key |-> r.key, holds |-> r.holds, indexed |-> r.indexed,
                     force |-> r.force, row |-> r.row]

BlobSound(k) ==
    /\ IsBlob(blobs[k])
    /\ blobs[k].id # 0 => Traits[k].app /\ (blobs[k].raced \/ blobs[k].id \in RowsOf(k))

StoringSound(c) ==
    user[c].at = "storing" =>
        /\ IsStoring(user[c]) /\ user[c].key \in Keys /\ blobs[user[c].key] = Super!NoBlob
        /\ user[c].id # 0 => /\ Traits[user[c].key].app
                             /\ user[c].raced \/ user[c].id \in RowsOf(user[c].key)

UsingSound(c) ==
    user[c].at = "using" =>
        /\ IsUsing(user[c]) /\ user[c].key \in Keys /\ user[c].holds # 0
        /\ user[c].row => /\ blobs[user[c].key].id # 0
                          /\ blobs[user[c].key].raced \/ user[c].holds \in RowsOf(user[c].key)

OneStoring ==
    \A c, d \in Clients :
        user[c].at = "storing" /\ user[d].at = "storing" /\ user[c].key = user[d].key => c = d

Shapes ==
    /\ DOMAIN blobs = Keys /\ blobs = [k \in Keys |-> blobs[k]]
    /\ DOMAIN user = Clients /\ user = [c \in Clients |-> user[c]]

ClientInv ==
    /\ Shapes /\ OneStoring
    /\ \A k \in Keys : BlobSound(k)
    /\ \A c \in Clients : StoringSound(c) /\ UsingSound(c)

LEMMA NoBlobFields ==
    IsBlob(Super!NoBlob) /\ Super!NoBlob.id = 0
BY DEF IsBlob, Super!NoBlob

LEMMA IdleAt == Super!Idle.at = "idle"
BY DEF Super!Idle

\* A step that adds rows, and after which clients hold what they held.
LEMMA GrowStep ==
    ASSUME ClientInv, blobs' = blobs, \A k \in Keys : RowsOf(k) \subseteq RowsOf(k)',
           NEW fresh, Super!add_key_to_key_index(fresh)
    PROVE  ClientInv'
<1>1. /\ DOMAIN user' = Clients /\ user' = [c \in Clients |-> user'[c]]
      /\ \A c \in Clients : user'[c] = IF user[c].at = "using" /\ user[c].holds \in fresh
                                       THEN [user[c] EXCEPT !.indexed = FALSE] ELSE user[c]
  BY DEF Super!add_key_to_key_index
<1>2. ASSUME NEW c \in Clients
      PROVE  \/ user'[c] = user[c]
             \/ /\ user[c].at = "using" /\ user'[c].at = "using" /\ IsUsing(user'[c])
                /\ user'[c].key = user[c].key /\ user'[c].holds = user[c].holds
                /\ user'[c].row = user[c].row
  <2>1. CASE user[c].at = "using" /\ user[c].holds \in fresh
    <3>1. PICK r : r = user[c]
      OBVIOUS
    <3>2. PICK k, h, i, f, w :
            r = [at |-> "using", key |-> k, holds |-> h, indexed |-> i, force |-> f, row |-> w]
      BY <2>1, <3>1 DEF ClientInv, UsingSound, IsUsing
    <3>3. PICK q : q = user'[c]
      OBVIOUS
    <3>4. q = [r EXCEPT !.indexed = FALSE]
      BY <1>1, <2>1, <3>1, <3>3
    <3>5. q = [at |-> "using", key |-> k, holds |-> h, indexed |-> FALSE, force |-> f, row |-> w]
      BY <3>2, <3>4
    <3>6. /\ q.at = "using" /\ IsUsing(q) /\ q.key = k /\ q.holds = h /\ q.row = w
          /\ r.at = "using" /\ r.key = k /\ r.holds = h /\ r.row = w
      BY <3>2, <3>5 DEF IsUsing
    <3>7. QED
      BY <3>1, <3>3, <3>6
  <2>2. CASE ~(user[c].at = "using" /\ user[c].holds \in fresh)
    BY <1>1, <2>2
  <2>3. QED
    BY <2>1, <2>2
<1>3. Shapes'
  BY <1>1 DEF ClientInv, Shapes
<1>4. OneStoring'
  BY <1>2 DEF ClientInv, OneStoring
<1>5. ASSUME NEW k \in Keys PROVE BlobSound(k)'
  BY DEF ClientInv, BlobSound, IsBlob
<1>6. ASSUME NEW c \in Clients PROVE StoringSound(c)'
  <2> SUFFICES ASSUME user'[c].at = "storing" PROVE StoringSound(c)'
    BY DEF StoringSound
  <2>1. user'[c] = user[c]
    BY <1>2
  <2>2. StoringSound(c) /\ user[c].at = "storing" /\ user[c].key \in Keys
    BY <2>1 DEF ClientInv, StoringSound
  <2>3. QED
    BY <2>1, <2>2 DEF StoringSound, IsStoring, Super!NoBlob
<1>7. ASSUME NEW c \in Clients PROVE UsingSound(c)'
  <2> SUFFICES ASSUME user'[c].at = "using" PROVE UsingSound(c)'
    BY DEF UsingSound
  <2>1. /\ user'[c].key = user[c].key /\ user'[c].holds = user[c].holds
        /\ user'[c].row = user[c].row /\ user[c].at = "using"
    BY <1>2
  <2>2. UsingSound(c) /\ user[c].key \in Keys
    BY <2>1 DEF ClientInv, UsingSound
  <2>3. IsUsing(user'[c])
    BY <1>2, <2>1, <2>2 DEF UsingSound
  <2>4. QED
    BY <2>1, <2>2, <2>3 DEF UsingSound, IsUsing
<1>8. QED
  BY <1>3, <1>4, <1>5, <1>6, <1>7 DEF ClientInv

LEMMA RowsStay ==
    ASSUME stored' = stored, NEW k PROVE RowsOf(k)' = RowsOf(k)
BY DEF RowsOf, Super!Kinds

LEMMA RowsGrow ==
    ASSUME LockInv, Super!SuperAssumption, NEW u \in Users, NEW st,
           stored' = [stored EXCEPT ![u] = st],
           \A x \in Super!Kinds : stored[u][x].id # 0 => st[x].id = stored[u][x].id
    PROVE  \A k \in Keys : RowsOf(k) \subseteq RowsOf(k)'
<1> SUFFICES ASSUME NEW k \in Keys, NEW i \in RowsOf(k) PROVE i \in RowsOf(k)'
  OBVIOUS
<1>1. PICK v : v = Owner[k]
  OBVIOUS
<1>2. v \in Users
  BY <1>1 DEF Super!SuperAssumption
<1>3. PICK x \in Super!Kinds : i = stored[v][x].id
  BY <1>1 DEF RowsOf
<1>4. i # 0
  BY DEF RowsOf
<1>5. stored'[v][x].id = i
  BY <1>2, <1>3, <1>4 DEF LockInv, ManagerOK
<1>6. QED
  BY <1>1, <1>3, <1>4, <1>5 DEF RowsOf, Super!Kinds

LEMMA ApplyGrows ==
    ASSUME LockInv, ClientInv, Super!SuperAssumption, NEW u \in Users, NEW s, blobs' = blobs,
           Super!Apply(u, s),
           \A x \in Super!Kinds : stored[u][x].id # 0 => s.stored[x].id = stored[u][x].id
    PROVE  ClientInv'
<1>1. stored' = [stored EXCEPT ![u] = s.stored] /\ Super!add_key_to_key_index(s.fresh)
  BY DEF Super!Apply
<1>2. PICK st : st = s.stored
  OBVIOUS
<1>3. /\ stored' = [stored EXCEPT ![u] = st]
      /\ \A x \in Super!Kinds : stored[u][x].id # 0 => st[x].id = stored[u][x].id
  BY <1>1, <1>2
<1>4. \A k \in Keys : RowsOf(k) \subseteq RowsOf(k)'
  BY <1>3, RowsGrow
<1>5. QED
  BY <1>1, <1>4, GrowStep

LEMMA OutcomeGrows ==
    ASSUME LockInv, ClientInv, Super!SuperAssumption, NEW u \in Users, NEW t, StateOK(t),
           Later(Super!State(u), t), blobs' = blobs,
           NEW s \in Super!Outcomes(Super!State(u), t), Super!Apply(u, s)
    PROVE  ClientInv'
<1>1. StateOK(Super!State(u)) /\ Super!State(u).stored = stored[u]
  BY StateIsOK
<1>2. Later(Super!State(u), s)
  BY <1>1, OutcomesKeep
<1>3. \A x \in Super!Kinds : stored[u][x].id # 0 => s.stored[x].id = stored[u][x].id
  BY <1>1, <1>2 DEF Later
<1>4. QED
  BY <1>3, ApplyGrows

LEMMA UnlockGrows ==
    ASSUME LockInv, ClientInv, Super!SuperAssumption, NEW t \in Callers, Super!on_device_unlocked(t)
    PROVE  ClientInv'
<1>1. call[t].at = "unlock" /\ blobs' = blobs
  BY DEF Super!on_device_unlocked
<1>2. PICK u : u = call[t].user
  OBVIOUS
<1>3. PICK pw : pw = call[t].pw
  OBVIOUS
<1>4. u \in Users
  BY <1>1, <1>2 DEF LockInv, CallsOK
<1>5. /\ StateOK(Super!State(u)) /\ Super!State(u).stored = stored[u]
  BY <1>4, StateIsOK
<1>6. CASE pw # "-"
  <2>1. PICK s \in Super!Outcomes(Super!State(u), Super!unlock_or_initialize_user(Super!State(u), pw)) :
          Super!Apply(u, s)
    BY <1>2, <1>3, <1>6 DEF Super!on_device_unlocked
  <2>2. PICK w : w = Super!unlock_or_initialize_user(Super!State(u), pw)
    OBVIOUS
  <2>3. StateOK(w) /\ Later(Super!State(u), w)
    BY <1>5, <2>2, UnlockOrInitializeKeeps
  <2>4. s \in Super!Outcomes(Super!State(u), w)
    BY <2>1, <2>2
  <2>5. QED
    BY <1>1, <1>4, <2>1, <2>3, <2>4, OutcomeGrows
<1>7. CASE pw = "-"
  <2>1. PICK sid, s :
          s = Super!try_unlock_user_with_biometric(Super!State(u), sid) /\ Super!Apply(u, s)
    BY <1>2, <1>3, <1>7 DEF Super!on_device_unlocked
  <2>2. s.stored = stored[u]
    BY <1>5, <2>1, BiometricKeeps
  <2>3. QED
    BY <1>1, <1>4, <2>1, <2>2, ApplyGrows
<1>8. QED
  BY <1>6, <1>7

LEMMA MaintenanceGrows ==
    ASSUME LockInv, ClientInv, Super!SuperAssumption, NEW u \in Users, NEW pw, NEW e,
           Super!init_user_super_keys(u, pw, e) \/ Super!on_user_password_changed(u, pw)
    PROVE  ClientInv'
<1>1. StateOK(Super!State(u))
  BY StateIsOK
<1>2. CASE Super!init_user_super_keys(u, pw, e)
  <2>1. PICK s \in Super!Outcomes(Super!State(u), Super!initialize_user(Super!State(u), pw, e)) :
          Super!Apply(u, s)
    BY <1>2 DEF Super!init_user_super_keys
  <2>2. PICK w : w = Super!initialize_user(Super!State(u), pw, e)
    OBVIOUS
  <2>3. StateOK(w) /\ Later(Super!State(u), w)
    BY <1>1, <2>2, InitializeUserKeeps
  <2>4. blobs' = blobs
    BY <1>2 DEF Super!init_user_super_keys
  <2>5. QED
    BY <2>1, <2>2, <2>3, <2>4, OutcomeGrows
<1>3. CASE Super!on_user_password_changed(u, pw)
  <2>1. PICK s \in Super!Outcomes(Super!State(u), Super!unlock_or_initialize_user(Super!State(u), pw)) :
          Super!Apply(u, s)
    BY <1>3 DEF Super!on_user_password_changed
  <2>2. PICK w : w = Super!unlock_or_initialize_user(Super!State(u), pw)
    OBVIOUS
  <2>3. StateOK(w) /\ Later(Super!State(u), w)
    BY <1>1, <2>2, UnlockOrInitializeKeeps
  <2>4. blobs' = blobs
    BY <1>3 DEF Super!on_user_password_changed
  <2>5. QED
    BY <2>1, <2>2, <2>3, <2>4, OutcomeGrows
<1>4. QED
  BY <1>2, <1>3


\* Keys go, and a client that uses one of them no longer writes it back.  Rows
\* of a user may go with them: then the keys of that user that a super key
\* encrypts go too, and what a client is about to store is marked.
LEMMA GoneStep ==
    ASSUME ClientInv, NEW gone, NEW lost,
           blobs' = [k \in Keys |-> IF k \in gone THEN Super!NoBlob ELSE blobs[k]],
           user' = [c \in Clients |->
                      IF user[c].at = "storing" /\ user[c].key \in lost
                      THEN [user[c] EXCEPT !.raced = TRUE] ELSE Super!RowGone(c, gone)],
           \A k \in Keys : k \notin lost => RowsOf(k)' = RowsOf(k),
           \A k \in Keys : k \in lost /\ blobs[k].id # 0 => k \in gone
    PROVE  ClientInv'
<1>1. /\ DOMAIN blobs' = Keys /\ blobs' = [k \in Keys |-> blobs'[k]]
      /\ DOMAIN user' = Clients /\ user' = [c \in Clients |-> user'[c]]
      /\ \A k \in Keys : blobs'[k] = IF k \in gone THEN Super!NoBlob ELSE blobs[k]
  OBVIOUS
<1>2. ASSUME NEW c \in Clients
      PROVE  \/ /\ user[c].at = "storing" /\ user[c].key \in lost
                /\ user'[c] = [user[c] EXCEPT !.raced = TRUE]
             \/ /\ user[c].at = "storing" /\ user[c].key \notin lost /\ user'[c] = user[c]
             \/ /\ user[c].at = "using" /\ user[c].key \in gone
                /\ user'[c] = [user[c] EXCEPT !.row = FALSE]
             \/ /\ user[c].at = "using" /\ user[c].key \notin gone /\ user'[c] = user[c]
             \/ user[c].at \notin {"storing", "using"} /\ user'[c] = user[c]
  BY DEF Super!RowGone
<1>3. ASSUME NEW c \in Clients, user[c].at = "storing"
      PROVE  /\ IsStoring(user'[c]) /\ user'[c].at = "storing"
             /\ user'[c].key = user[c].key /\ user'[c].id = user[c].id
             /\ (user'[c] = user[c] /\ user[c].key \notin lost) \/ user'[c].raced = TRUE
  <2>1. PICK r : r = user[c]
    OBVIOUS
  <2>2. PICK k, i, w : r = [at |-> "storing", key |-> k, id |-> i, raced |-> w]
    BY <1>3, <2>1 DEF ClientInv, StoringSound, IsStoring
  <2>3. PICK q : q = user'[c]
    OBVIOUS
  <2>4. CASE r.key \in lost
    <3>1. q = [r EXCEPT !.raced = TRUE]
      BY <1>2, <1>3, <2>1, <2>3, <2>4
    <3>2. q = [at |-> "storing", key |-> k, id |-> i, raced |-> TRUE]
      BY <2>2, <3>1
    <3>3. /\ IsStoring(q) /\ q.at = "storing" /\ q.key = k /\ q.id = i /\ q.raced = TRUE
          /\ r.key = k /\ r.id = i
      BY <2>2, <3>2 DEF IsStoring
    <3>4. QED
      BY <2>1, <2>3, <3>3
  <2>5. CASE r.key \notin lost
    <3>1. q = r
      BY <1>2, <1>3, <2>1, <2>3, <2>5
    <3>2. QED
      BY <1>3, <2>1, <2>3, <2>5, <3>1 DEF ClientInv, StoringSound
  <2>6. QED
    BY <2>4, <2>5
<1>4. ASSUME NEW c \in Clients, user[c].at = "using"
      PROVE  /\ IsUsing(user'[c]) /\ user'[c].at = "using"
             /\ user'[c].key = user[c].key /\ user'[c].holds = user[c].holds
             /\ (user'[c] = user[c] /\ user[c].key \notin gone) \/ user'[c].row = FALSE
  <2>1. PICK r : r = user[c]
    OBVIOUS
  <2>2. PICK k, h, i, f, w :
          r = [at |-> "using", key |-> k, holds |-> h, indexed |-> i, force |-> f, row |-> w]
    BY <1>4, <2>1 DEF ClientInv, UsingSound, IsUsing
  <2>3. PICK q : q = user'[c]
    OBVIOUS
  <2>4. CASE r.key \in gone
    <3>1. q = [r EXCEPT !.row = FALSE]
      BY <1>2, <1>4, <2>1, <2>3, <2>4
    <3>2. q = [at |-> "using", key |-> k, holds |-> h, indexed |-> i, force |-> f, row |-> FALSE]
      BY <2>2, <3>1
    <3>3. /\ IsUsing(q) /\ q.at = "using" /\ q.key = k /\ q.holds = h /\ q.row = FALSE
          /\ r.key = k /\ r.holds = h
      BY <2>2, <3>2 DEF IsUsing
    <3>4. QED
      BY <2>1, <2>3, <3>3
  <2>5. CASE r.key \notin gone
    <3>1. q = r
      BY <1>2, <1>4, <2>1, <2>3, <2>5
    <3>2. QED
      BY <1>4, <2>1, <2>3, <2>5, <3>1 DEF ClientInv, UsingSound
  <2>6. QED
    BY <2>4, <2>5
<1>5. \A c \in Clients : /\ user'[c].at = "storing" <=> user[c].at = "storing"
                         /\ user'[c].at = "using" <=> user[c].at = "using"
  BY <1>2, <1>3, <1>4
<1>6. Shapes'
  BY <1>1 DEF Shapes
<1>7. OneStoring'
  <2>1. \A c \in Clients : user[c].at = "storing" => user'[c].key = user[c].key
    BY <1>3
  <2>2. QED
    BY <1>5, <2>1 DEF ClientInv, OneStoring
<1>8. ASSUME NEW k \in Keys PROVE BlobSound(k)'
  <2>1. CASE k \in gone
    <3>1. blobs'[k] = Super!NoBlob
      BY <1>1, <2>1
    <3>2. IsBlob(blobs'[k]) /\ blobs'[k].id = 0
      BY <3>1, NoBlobFields
    <3>3. QED
      BY <3>2 DEF BlobSound, IsBlob
  <2>2. CASE k \notin gone
    <3>1. blobs'[k] = blobs[k] /\ BlobSound(k)
      BY <1>1, <2>2 DEF ClientInv
    <3>2. blobs[k].id # 0 => RowsOf(k)' = RowsOf(k)
      BY <2>2
    <3>3. QED
      BY <3>1, <3>2 DEF BlobSound, IsBlob
  <2>3. QED
    BY <2>1, <2>2
<1>9. ASSUME NEW c \in Clients PROVE StoringSound(c)'
  <2> SUFFICES ASSUME user'[c].at = "storing" PROVE StoringSound(c)'
    BY DEF StoringSound
  <2>1. user[c].at = "storing" /\ StoringSound(c)
    BY <1>5 DEF ClientInv
  <2>2. /\ IsStoring(user'[c]) /\ user'[c].key = user[c].key /\ user'[c].id = user[c].id
        /\ (user'[c] = user[c] /\ user[c].key \notin lost) \/ user'[c].raced = TRUE
    BY <1>3, <2>1
  <2>3. PICK k \in Keys : k = user[c].key
    BY <2>1 DEF StoringSound
  <2>4. blobs'[k] = Super!NoBlob
    BY <1>1, <2>1, <2>3 DEF StoringSound
  <2>5. user'[c].id # 0 => Traits[k].app /\ (user'[c].raced \/ user'[c].id \in RowsOf(k)')
    BY <2>1, <2>2, <2>3 DEF StoringSound
  <2>6. QED
    BY <2>2, <2>3, <2>4, <2>5 DEF StoringSound, IsStoring, Super!NoBlob
<1>10. ASSUME NEW c \in Clients PROVE UsingSound(c)'
  <2> SUFFICES ASSUME user'[c].at = "using" PROVE UsingSound(c)'
    BY DEF UsingSound
  <2>1. user[c].at = "using" /\ UsingSound(c)
    BY <1>5 DEF ClientInv
  <2>2. /\ IsUsing(user'[c]) /\ user'[c].key = user[c].key /\ user'[c].holds = user[c].holds
        /\ (user'[c] = user[c] /\ user[c].key \notin gone) \/ user'[c].row = FALSE
    BY <1>4, <2>1
  <2>3. PICK k \in Keys : k = user[c].key
    BY <2>1 DEF UsingSound
  <2>4. user'[c].row => blobs'[k].id # 0 /\ (blobs'[k].raced \/ user'[c].holds \in RowsOf(k)')
    <3> SUFFICES ASSUME user'[c].row
                 PROVE  blobs'[k].id # 0 /\ (blobs'[k].raced \/ user'[c].holds \in RowsOf(k)')
      OBVIOUS
    <3>1. user'[c] = user[c] /\ k \notin gone
      BY <2>2, <2>3
    <3>2. blobs'[k] = blobs[k] /\ blobs[k].id # 0
      BY <1>1, <2>1, <2>3, <3>1 DEF UsingSound
    <3>3. RowsOf(k)' = RowsOf(k)
      BY <3>1, <3>2
    <3>4. QED
      BY <2>1, <2>3, <3>1, <3>2, <3>3 DEF UsingSound
  <2>5. user'[c].holds # 0
    BY <2>1, <2>2 DEF UsingSound
  <2>6. QED
    BY <2>2, <2>3, <2>4, <2>5 DEF UsingSound, IsUsing
<1>11. QED
  BY <1>6, <1>7, <1>8, <1>9, <1>10 DEF ClientInv

LEMMA UnbindGone ==
    ASSUME LockInv, ClientInv, Super!SuperAssumption, NEW u \in Users,
           Super!remove_user(u) \/ Super!reset_lskf_bound_state(u)
    PROVE  ClientInv'
<1>1. PICK gone : /\ Super!Unbind(u, gone)
                  /\ \A k \in Keys : Owner[k] = u /\ blobs[k].id # 0 => k \in gone
  <2>1. \A k \in Keys : blobs[k].id # 0 => Traits[k].app
    BY DEF ClientInv, BlobSound
  <2>2. CASE Super!remove_user(u)
    BY <2>1, <2>2 DEF Super!remove_user
  <2>3. CASE Super!reset_lskf_bound_state(u)
    BY <2>1, <2>3 DEF Super!reset_lskf_bound_state
  <2>4. QED
    BY <2>2, <2>3
<1>2. PICK lost : lost = {k \in Keys : Owner[k] = u}
  OBVIOUS
<1>3. blobs' = [k \in Keys |-> IF k \in gone THEN Super!NoBlob ELSE blobs[k]]
  BY <1>1 DEF Super!Unbind
<1>4. user' = [c \in Clients |->
                 IF user[c].at = "storing" /\ Owner[user[c].key] = u
                 THEN [user[c] EXCEPT !.raced = TRUE] ELSE Super!RowGone(c, gone)]
  BY <1>1 DEF Super!Unbind
<1>5. \A c \in Clients : user[c].at = "storing" => user[c].key \in Keys
  BY DEF ClientInv, StoringSound
<1>6. \A c \in Clients : user[c].at = "storing" => (Owner[user[c].key] = u <=> user[c].key \in lost)
  BY <1>2, <1>5
<1>7. user' = [c \in Clients |->
                 IF user[c].at = "storing" /\ user[c].key \in lost
                 THEN [user[c] EXCEPT !.raced = TRUE] ELSE Super!RowGone(c, gone)]
  BY <1>4, <1>6, Zenon
<1>8. ASSUME NEW k \in Keys, k \notin lost PROVE RowsOf(k)' = RowsOf(k)
  <2>1. PICK v : v = Owner[k]
    OBVIOUS
  <2>2. v \in Users /\ v # u
    BY <1>2, <1>8, <2>1 DEF Super!SuperAssumption
  <2>3. stored'[v] = stored[v]
    BY <1>1, <2>2 DEF Super!Unbind, LockInv, ManagerOK
  <2>4. QED
    BY <2>1, <2>3 DEF RowsOf, Super!Kinds
<1>9. \A k \in Keys : k \in lost /\ blobs[k].id # 0 => k \in gone
  BY <1>1, <1>2
<1>10. QED
  BY <1>3, <1>7, <1>8, <1>9, GoneStep

LEMMA LskfGone ==
    ASSUME ClientInv, NEW u \in Users, Super!on_user_lskf_removed(u)
    PROVE  ClientInv'
<1>1. PICK gone : /\ blobs' = [k \in Keys |-> IF k \in gone THEN Super!NoBlob ELSE blobs[k]]
                  /\ user' = [c \in Clients |-> Super!RowGone(c, gone)]
                  /\ stored' = stored
  BY DEF Super!on_user_lskf_removed
<1>2. PICK lost : lost = {}
  OBVIOUS
<1>3. user' = [c \in Clients |->
                 IF user[c].at = "storing" /\ user[c].key \in lost
                 THEN [user[c] EXCEPT !.raced = TRUE] ELSE Super!RowGone(c, gone)]
  BY <1>1, <1>2, Zenon
<1>4. \A k \in Keys : k \notin lost => RowsOf(k)' = RowsOf(k)
  BY <1>1, RowsStay
<1>5. QED
  BY <1>1, <1>2, <1>3, <1>4, GoneStep


\* A super key encrypts only keys of apps, and is a row of the owner.
LEMMA EncryptedWithRow ==
    ASSUME LockInv, Super!SuperAssumption, NEW k \in Keys, NEW id,
           id = Super!handle_super_encryption_on_key_init(k), id # 0
    PROVE  Traits[k].app /\ id \in RowsOf(k)
<1>1. PICK u \in Users : u = Owner[k]
  BY DEF Super!SuperAssumption
<1>2. MemOK(mem[u], stored[u])
  BY DEF LockInv, ManagerOK
<1>3. \A x \in Super!Kinds : stored[u][x].id # 0 => stored[u][x].id \in RowsOf(k)
  BY <1>1 DEF RowsOf
<1>4. PICK need : need = Super!super_encryption_required(Traits[k])
  OBVIOUS
<1>5. need \in {"ce", "udr"} => Traits[k].app
  BY <1>4 DEF Super!super_encryption_required
<1>6. CASE need = "ce"
  <2>1. id = mem[u].ce
    BY <1>1, <1>4, <1>6 DEF Super!handle_super_encryption_on_key_init
  <2>2. id = stored[u]["ce"].id
    BY <1>2, <2>1 DEF MemOK
  <2>3. QED
    BY <1>3, <1>5, <1>6, <2>2 DEF Super!Kinds
<1>7. CASE need = "udr"
  <2>1. id = Super!HybridKey(u)
    BY <1>1, <1>4, <1>7 DEF Super!handle_super_encryption_on_key_init
  <2>2. id \in {stored[u]["sym"].id, stored[u]["priv"].id}
    BY <1>2, <2>1 DEF MemOK, Super!HybridKey
  <2>3. QED
    BY <1>3, <1>5, <1>7, <2>2 DEF Super!Kinds
<1>8. CASE need \notin {"ce", "udr"}
  BY <1>4, <1>8 DEF Super!handle_super_encryption_on_key_init
<1>9. QED
  BY <1>6, <1>7, <1>8

\* A step of one client; the blobs of keys it does not touch stay.
LEMMA OneClient ==
    ASSUME ClientInv, NEW c \in Clients, NEW r, user' = [user EXCEPT ![c] = r], stored' = stored,
           DOMAIN blobs' = Keys, blobs' = [k \in Keys |-> blobs'[k]],
           \A k \in Keys : BlobSound(k)',
           StoringSound(c)', UsingSound(c)',
           \A d \in Clients : d # c /\ user[d].at = "storing" /\ r.at = "storing" => user[d].key # r.key,
           \A d \in Clients : d # c /\ user[d].at = "storing" => blobs'[user[d].key] = Super!NoBlob,
           \A d \in Clients : d # c /\ user[d].at = "using" /\ user[d].row =>
             /\ blobs'[user[d].key].id # 0
             /\ blobs'[user[d].key].raced = blobs[user[d].key].raced
    PROVE  ClientInv'
<1>1. /\ user'[c] = r /\ \A d \in Clients : d # c => user'[d] = user[d]
      /\ DOMAIN user' = Clients /\ user' = [d \in Clients |-> user'[d]]
  BY DEF ClientInv, Shapes
<1>2. Shapes'
  BY <1>1 DEF Shapes
<1>3. OneStoring'
  BY <1>1 DEF ClientInv, OneStoring
<1>4. ASSUME NEW d \in Clients, d # c PROVE StoringSound(d)'
  <2> SUFFICES ASSUME user[d].at = "storing" PROVE StoringSound(d)'
    BY <1>1, <1>4 DEF StoringSound
  <2>1. StoringSound(d) /\ user'[d] = user[d] /\ blobs'[user[d].key] = Super!NoBlob
    BY <1>1, <1>4 DEF ClientInv
  <2>2. PICK k : k = user[d].key
    OBVIOUS
  <2>3. RowsOf(k)' = RowsOf(k)
    BY RowsStay
  <2>4. QED
    BY <2>1, <2>2, <2>3 DEF StoringSound, IsStoring, Super!NoBlob, RowsOf
<1>5. ASSUME NEW d \in Clients, d # c PROVE UsingSound(d)'
  <2> SUFFICES ASSUME user[d].at = "using" PROVE UsingSound(d)'
    BY <1>1, <1>5 DEF UsingSound
  <2>1. UsingSound(d) /\ user'[d] = user[d]
    BY <1>1, <1>5 DEF ClientInv
  <2>2. PICK k : k = user[d].key
    OBVIOUS
  <2>3. RowsOf(k)' = RowsOf(k)
    BY RowsStay
  <2>4. user[d].row => blobs'[k].id # 0 /\ blobs'[k].raced = blobs[k].raced
    BY <1>5, <2>2
  <2>5. user[d].row => blobs'[k].raced \/ user[d].holds \in RowsOf(k)
    BY <2>1, <2>2, <2>4 DEF UsingSound
  <2>6. user[d].row => blobs'[k].id # 0 /\ (blobs'[k].raced \/ user[d].holds \in RowsOf(k)')
    BY <2>3, <2>4, <2>5
  <2>7. IsUsing(user[d]) /\ k \in Keys /\ user[d].holds # 0
    BY <2>1, <2>2 DEF UsingSound
  <2>8. QED
    BY <2>1, <2>2, <2>6, <2>7 DEF UsingSound, IsUsing, RowsOf
<1>6. \A d \in Clients : StoringSound(d)' /\ UsingSound(d)'
  BY <1>4, <1>5
<1>7. QED
  BY <1>2, <1>3, <1>6 DEF ClientInv

LEMMA BlobsStay ==
    ASSUME ClientInv, blobs' = blobs, stored' = stored
    PROVE  /\ DOMAIN blobs' = Keys /\ blobs' = [k \in Keys |-> blobs'[k]]
           /\ \A k \in Keys : BlobSound(k)'
<1>1. DOMAIN blobs' = Keys /\ blobs' = [k \in Keys |-> blobs'[k]]
  BY DEF ClientInv, Shapes
<1>2. ASSUME NEW k \in Keys PROVE BlobSound(k)'
  <2>1. RowsOf(k)' = RowsOf(k)
    BY RowsStay
  <2>2. QED
    BY <2>1 DEF ClientInv, BlobSound, IsBlob
<1>3. QED
  BY <1>1, <1>2

LEMMA StoresNew ==
    ASSUME LockInv, ClientInv, Super!SuperAssumption, NEW c \in Clients, NEW k \in Keys,
           Super!store_new_key(c, k)
    PROVE  ClientInv'
<1>1. PICK id : id = Super!handle_super_encryption_on_key_init(k)
  OBVIOUS
<1>2. PICK r : r = [at |-> "storing", key |-> k, id |-> id, raced |-> FALSE]
  OBVIOUS
<1>3. /\ user' = [user EXCEPT ![c] = r] /\ stored' = stored /\ blobs' = blobs
      /\ blobs[k] = Super!NoBlob
      /\ \A d \in Clients : user[d].at = "storing" => user[d].key # k
  BY <1>1, <1>2 DEF Super!store_new_key
<1>4. IsStoring(r) /\ r.at = "storing" /\ r.key = k /\ r.id = id
  BY <1>2 DEF IsStoring
<1>5. id # 0 => Traits[k].app /\ id \in RowsOf(k)
  BY <1>1, EncryptedWithRow
<1>6. user'[c] = r
  BY <1>3 DEF ClientInv, Shapes
<1>7. RowsOf(k)' = RowsOf(k)
  BY <1>3, RowsStay
<1>8. StoringSound(c)'
  BY <1>3, <1>4, <1>5, <1>6, <1>7 DEF StoringSound, IsStoring, Super!NoBlob
<1>9. UsingSound(c)'
  BY <1>4, <1>6 DEF UsingSound
<1>10. /\ DOMAIN blobs' = Keys /\ blobs' = [j \in Keys |-> blobs'[j]]
       /\ \A j \in Keys : BlobSound(j)'
  BY <1>3, BlobsStay
<1>11. \A d \in Clients : d # c /\ user[d].at = "storing" => blobs'[user[d].key] = Super!NoBlob
  BY <1>3 DEF ClientInv, StoringSound
<1>12. \A d \in Clients : d # c /\ user[d].at = "using" /\ user[d].row =>
             /\ blobs'[user[d].key].id # 0
             /\ blobs'[user[d].key].raced = blobs[user[d].key].raced
  BY <1>3 DEF ClientInv, UsingSound
<1>13. \A d \in Clients : d # c /\ user[d].at = "storing" /\ r.at = "storing" => user[d].key # r.key
  BY <1>3, <1>4
<1>14. QED
  BY <1>3, <1>8, <1>9, <1>10, <1>11, <1>12, <1>13, OneClient

LEMMA StoresBlob ==
    ASSUME ClientInv, NEW c \in Clients, Super!StoreBlob(c)
    PROVE  ClientInv'
<1>1. user[c].at = "storing" /\ StoringSound(c)
  BY DEF Super!StoreBlob, ClientInv
<1>2. PICK k \in Keys : k = user[c].key
  BY <1>1 DEF StoringSound
<1>3. PICK i, w : i = user[c].id /\ w = user[c].raced
  OBVIOUS
<1>4. PICK b : b = [enc |-> "stored", id |-> i, raced |-> w]
  OBVIOUS
<1>5. blobs' = [blobs EXCEPT ![k] = b] /\ user' = [user EXCEPT ![c] = Super!Idle] /\ stored' = stored
  BY <1>2, <1>3, <1>4 DEF Super!StoreBlob
<1>6. /\ blobs'[k] = b /\ \A j \in Keys : j # k => blobs'[j] = blobs[j]
      /\ DOMAIN blobs' = Keys /\ blobs' = [j \in Keys |-> blobs'[j]]
      /\ user'[c] = Super!Idle
  BY <1>5 DEF ClientInv, Shapes
<1>7. IsBlob(b) /\ b.id = i /\ b.raced = w
  BY <1>4 DEF IsBlob
<1>8. ASSUME NEW j \in Keys PROVE BlobSound(j)'
  <2>1. RowsOf(j)' = RowsOf(j)
    BY <1>5, RowsStay
  <2>2. CASE j = k
    <3>1. i # 0 => Traits[k].app /\ (w \/ i \in RowsOf(k))
      BY <1>1, <1>2, <1>3 DEF StoringSound
    <3>2. b.id # 0 => Traits[k].app /\ (b.raced \/ b.id \in RowsOf(k))
      BY <1>7, <3>1
    <3>3. QED
      BY <1>6, <1>7, <2>1, <2>2, <3>2 DEF BlobSound, IsBlob
  <2>3. CASE j # k
    <3>1. BlobSound(j) /\ blobs'[j] = blobs[j]
      BY <1>6, <2>3 DEF ClientInv
    <3>2. QED
      BY <2>1, <3>1 DEF BlobSound, IsBlob
  <2>4. QED
    BY <2>2, <2>3
<1>9. StoringSound(c)' /\ UsingSound(c)'
  BY <1>6, IdleAt DEF StoringSound, UsingSound
<1>10. \A d \in Clients : d # c /\ user[d].at = "storing" => blobs'[user[d].key] = Super!NoBlob
  <2>1. \A d \in Clients : d # c /\ user[d].at = "storing" => user[d].key # k
    BY <1>1, <1>2 DEF ClientInv, OneStoring
  <2>2. QED
    BY <1>6, <2>1 DEF ClientInv, StoringSound
<1>11. blobs[k].id = 0
  BY <1>1, <1>2, NoBlobFields DEF StoringSound
<1>12. \A d \in Clients : d # c /\ user[d].at = "using" /\ user[d].row =>
             /\ blobs'[user[d].key].id # 0
             /\ blobs'[user[d].key].raced = blobs[user[d].key].raced
  BY <1>6, <1>11 DEF ClientInv, UsingSound
<1>13. PICK r : r = Super!Idle
  OBVIOUS
<1>14. \A d \in Clients : d # c /\ user[d].at = "storing" /\ r.at = "storing" => user[d].key # r.key
  BY <1>13, IdleAt
<1>15. user' = [user EXCEPT ![c] = r]
  BY <1>5, <1>13
<1>16. QED
  BY <1>5, <1>6, <1>8, <1>9, <1>10, <1>12, <1>14, <1>15, OneClient


LEMMA Unwraps ==
    ASSUME LockInv, ClientInv, Super!SuperAssumption, NEW c \in Clients, NEW k \in Keys,
           Super!unwrap_key_if_required(c, k)
    PROVE  ClientInv'
<1>1. PICK u \in Users : u = Owner[k]
  BY DEF Super!SuperAssumption
<1>2. PICK ecdh : ecdh = (blobs[k].id = mem[u].priv)
  OBVIOUS
<1>3. PICK id : id = IF ecdh THEN mem[u].sym ELSE blobs[k].id
  OBVIOUS
<1>4. PICK r : r = [at |-> "using", key |-> k, holds |-> id, indexed |-> TRUE, force |-> ecdh, row |-> TRUE]
  OBVIOUS
<1>5. /\ user' = [user EXCEPT ![c] = r] /\ stored' = stored /\ blobs' = blobs
      /\ Super!lookup_key(blobs[k].id)
  BY <1>1, <1>2, <1>3, <1>4 DEF Super!unwrap_key_if_required
<1>6. IsUsing(r) /\ r.at = "using" /\ r.key = k /\ r.holds = id
  BY <1>4 DEF IsUsing
<1>7. blobs[k].id # 0
  <2>1. \A d \in Clients : user[d].at = "using" => user[d].holds # 0
    BY DEF ClientInv, UsingSound
  <2>2. QED
    BY <1>5, <2>1 DEF Super!lookup_key, Super!HeldByClient
<1>8. id # 0 /\ (blobs[k].raced \/ id \in RowsOf(k))
  <2>1. CASE blobs[k].id = mem[u].priv
    <3>1. MemOK(mem[u], stored[u])
      BY DEF LockInv, ManagerOK
    <3>2. id = mem[u].sym /\ mem[u].priv # 0
      BY <1>2, <1>3, <1>7, <2>1
    <3>3. id # 0 /\ id = stored[u]["sym"].id
      BY <3>1, <3>2 DEF MemOK
    <3>4. QED
      BY <1>1, <3>3 DEF RowsOf, Super!Kinds
  <2>2. CASE blobs[k].id # mem[u].priv
    <3>1. id = blobs[k].id
      BY <1>2, <1>3, <2>2
    <3>2. QED
      BY <1>7, <3>1 DEF ClientInv, BlobSound
  <2>3. QED
    BY <2>1, <2>2
<1>9. user'[c] = r
  BY <1>5 DEF ClientInv, Shapes
<1>10. RowsOf(k)' = RowsOf(k)
  BY <1>5, RowsStay
<1>11. UsingSound(c)'
  BY <1>5, <1>6, <1>7, <1>8, <1>9, <1>10 DEF UsingSound, IsUsing
<1>12. StoringSound(c)'
  BY <1>6, <1>9 DEF StoringSound
<1>13. /\ DOMAIN blobs' = Keys /\ blobs' = [j \in Keys |-> blobs'[j]]
       /\ \A j \in Keys : BlobSound(j)'
  BY <1>5, BlobsStay
<1>14. \A d \in Clients : d # c /\ user[d].at = "storing" => blobs'[user[d].key] = Super!NoBlob
  BY <1>5 DEF ClientInv, StoringSound
<1>15. \A d \in Clients : d # c /\ user[d].at = "using" /\ user[d].row =>
             /\ blobs'[user[d].key].id # 0
             /\ blobs'[user[d].key].raced = blobs[user[d].key].raced
  BY <1>5 DEF ClientInv, UsingSound
<1>16. \A d \in Clients : d # c /\ user[d].at = "storing" /\ r.at = "storing" => user[d].key # r.key
  BY <1>6
<1>17. QED
  BY <1>5, <1>11, <1>12, <1>13, <1>14, <1>15, <1>16, OneClient

\* The blob as it is written back.
LEMMA WrittenBack ==
    ASSUME NEW b, IsBlob(b), NEW i, NEW n, n = [b EXCEPT !.id = i]
    PROVE  IsBlob(n) /\ n.id = i /\ n.raced = b.raced
<1>1. PICK e, j, w : b = [enc |-> e, id |-> j, raced |-> w]
  BY DEF IsBlob
<1>2. n = [enc |-> e, id |-> i, raced |-> w]
  BY <1>1
<1>3. QED
  BY <1>1, <1>2 DEF IsBlob

LEMMA Reencrypts ==
    ASSUME ClientInv, NEW c \in Clients, Super!reencrypt_if_required(c)
    PROVE  ClientInv'
<1>1. user[c].at = "using" /\ UsingSound(c)
  BY DEF Super!reencrypt_if_required, ClientInv
<1>2. user' = [user EXCEPT ![c] = Super!Idle] /\ stored' = stored
  BY DEF Super!reencrypt_if_required
<1>3. PICK k \in Keys : k = user[c].key
  BY <1>1 DEF UsingSound
<1>4. PICK r : r = Super!Idle
  OBVIOUS
<1>5. /\ user' = [user EXCEPT ![c] = r]
      /\ \A d \in Clients : d # c /\ user[d].at = "storing" /\ r.at = "storing" => user[d].key # r.key
  BY <1>2, <1>4, IdleAt
<1>6. user'[c] = Super!Idle
  BY <1>2 DEF ClientInv, Shapes
<1>7. StoringSound(c)' /\ UsingSound(c)'
  BY <1>6, IdleAt DEF StoringSound, UsingSound
<1>8. CASE blobs' = blobs
  <2>1. /\ DOMAIN blobs' = Keys /\ blobs' = [j \in Keys |-> blobs'[j]]
        /\ \A j \in Keys : BlobSound(j)'
    BY <1>2, <1>8, BlobsStay
  <2>2. \A d \in Clients : d # c /\ user[d].at = "storing" => blobs'[user[d].key] = Super!NoBlob
    BY <1>8 DEF ClientInv, StoringSound
  <2>3. \A d \in Clients : d # c /\ user[d].at = "using" /\ user[d].row =>
               /\ blobs'[user[d].key].id # 0
               /\ blobs'[user[d].key].raced = blobs[user[d].key].raced
    BY <1>8 DEF ClientInv, UsingSound
  <2>4. QED
    BY <1>2, <1>5, <1>7, <2>1, <2>2, <2>3, OneClient
<1>9. CASE blobs' # blobs
  <2>1. PICK i : i = user[c].holds
    OBVIOUS
  <2>2. user[c].row /\ blobs' = [blobs EXCEPT ![k].id = i]
    BY <1>3, <1>9, <2>1 DEF Super!reencrypt_if_required
  <2>3. i # 0 /\ blobs[k].id # 0 /\ (blobs[k].raced \/ i \in RowsOf(k))
    BY <1>1, <1>3, <2>1, <2>2 DEF UsingSound
  <2>4. PICK b : b = [blobs[k] EXCEPT !.id = i]
    OBVIOUS
  <2>5. blobs' = [blobs EXCEPT ![k] = b]
    BY <2>2, <2>4, Zenon
  <2>6. IsBlob(b) /\ b.id = i /\ b.raced = blobs[k].raced
    BY <2>4, WrittenBack DEF ClientInv, BlobSound
  <2>7. /\ blobs'[k] = b /\ \A j \in Keys : j # k => blobs'[j] = blobs[j]
        /\ DOMAIN blobs' = Keys /\ blobs' = [j \in Keys |-> blobs'[j]]
    BY <2>5 DEF ClientInv, Shapes
  <2>8. ASSUME NEW j \in Keys PROVE BlobSound(j)'
    <3>1. RowsOf(j)' = RowsOf(j)
      BY <1>2, RowsStay
    <3>2. CASE j = k
      <4>1. Traits[k].app
        BY <2>3 DEF ClientInv, BlobSound
      <4>2. b.raced \/ b.id \in RowsOf(k)
        BY <2>3, <2>6
      <4>3. QED
        BY <2>6, <2>7, <3>1, <3>2, <4>1, <4>2 DEF BlobSound, IsBlob
    <3>3. CASE j # k
      <4>1. BlobSound(j) /\ blobs'[j] = blobs[j]
        BY <2>7, <3>3 DEF ClientInv
      <4>2. QED
        BY <3>1, <4>1 DEF BlobSound, IsBlob
    <3>4. QED
      BY <3>2, <3>3
  <2>9. \A d \in Clients : d # c /\ user[d].at = "storing" => blobs'[user[d].key] = Super!NoBlob
    BY <2>3, <2>7, NoBlobFields DEF ClientInv, StoringSound
  <2>10. \A d \in Clients : d # c /\ user[d].at = "using" /\ user[d].row =>
               /\ blobs'[user[d].key].id # 0
               /\ blobs'[user[d].key].raced = blobs[user[d].key].raced
    BY <2>3, <2>6, <2>7 DEF ClientInv, UsingSound
  <2>11. QED
    BY <1>2, <1>5, <1>7, <2>7, <2>8, <2>9, <2>10, OneClient
<1>10. QED
  BY <1>8, <1>9

LEMMA RestartClients ==
    ASSUME ClientInv, Super!Restart PROVE ClientInv'
<1>1. user' = [c \in Clients |-> Super!Idle] /\ stored' = stored /\ blobs' = blobs
  BY DEF Super!Restart
<1>2. \A c \in Clients : user'[c].at = "idle"
  BY <1>1, IdleAt
<1>3. /\ DOMAIN blobs' = Keys /\ blobs' = [k \in Keys |-> blobs'[k]]
      /\ \A k \in Keys : BlobSound(k)'
  BY <1>1, BlobsStay
<1>4. DOMAIN user' = Clients /\ user' = [c \in Clients |-> user'[c]]
  BY <1>1
<1>5. OneStoring' /\ \A c \in Clients : StoringSound(c)' /\ UsingSound(c)'
  BY <1>2 DEF OneStoring, StoringSound, UsingSound
<1>6. QED
  BY <1>3, <1>4, <1>5 DEF ClientInv, Shapes

LEMMA ClientSame ==
    ASSUME ClientInv, UNCHANGED <<stored, blobs, user>> PROVE ClientInv'
BY DEF ClientInv, Shapes, OneStoring, BlobSound, StoringSound, UsingSound, IsBlob, IsStoring,
   IsUsing,
       RowsOf, Super!NoBlob, Super!Kinds

LEMMA ClientInit == Super!Init => ClientInv
<1> SUFFICES ASSUME Super!Init PROVE ClientInv
  OBVIOUS
<1>1. blobs = [k \in Keys |-> Super!NoBlob] /\ user = [c \in Clients |-> Super!Idle]
  BY DEF Super!Init
<1>2. \A c \in Clients : user[c].at = "idle"
  BY <1>1, IdleAt
<1>3. \A k \in Keys : IsBlob(blobs[k]) /\ blobs[k].id = 0
  BY <1>1, NoBlobFields
<1>4. OneStoring /\ \A c \in Clients : StoringSound(c) /\ UsingSound(c)
  BY <1>2 DEF OneStoring, StoringSound, UsingSound
<1>5. Shapes
  BY <1>1 DEF Shapes
<1>6. QED
  BY <1>3, <1>4, <1>5 DEF ClientInv, BlobSound

LEMMA ClientNext ==
    ASSUME LockInv, ClientInv, Super!SuperAssumption, [Super!Next]_(Super!vars) PROVE ClientInv'
<1>1. CASE UNCHANGED Super!vars
  BY <1>1, ClientSame DEF Super!vars
<1>2. CASE \E t \in Callers, u \in Users :
             \/ \E pw \in Passwords \cup {"-"} : Super!onDeviceUnlocked(t, u, pw)
             \/ \E sids \in SUBSET Sids, weak \in BOOLEAN : Super!onDeviceLocked(t, u, sids, weak)
             \/ Super!on_weak_unlock_methods_expired(t, u)
             \/ Super!on_non_lskf_unlock_methods_expired(t, u)
             \/ Super!on_user_storage_locked(t, u)
  <2>1. UNCHANGED <<stored, blobs, user>>
    BY <1>2 DEF Super!onDeviceUnlocked, Super!onDeviceLocked, Super!on_weak_unlock_methods_expired,
                Super!on_non_lskf_unlock_methods_expired, Super!on_user_storage_locked
  <2>2. QED
    BY <2>1, ClientSame
<1>3. CASE \E t \in Callers : Super!on_device_unlocked(t)
  BY <1>3, UnlockGrows
<1>4. CASE \E t \in Callers : Super!on_device_locked(t)
  BY <1>4, ClientSame DEF Super!on_device_locked
<1>5. CASE \E u \in Users, pw \in Passwords, e \in BOOLEAN :
             Super!init_user_super_keys(u, pw, e) \/ Super!on_user_password_changed(u, pw)
  BY <1>5, MaintenanceGrows
<1>6. CASE \E u \in Users : Super!remove_user(u) \/ Super!reset_lskf_bound_state(u)
  BY <1>6, UnbindGone
<1>7. CASE \E u \in Users : Super!on_user_lskf_removed(u)
  BY <1>7, LskfGone
<1>8. CASE \E c \in Clients, k \in Keys : Super!store_new_key(c, k) \/ Super!unwrap_key_if_required(c, k)
  BY <1>8, StoresNew, Unwraps
<1>9. CASE \E c \in Clients : Super!StoreBlob(c) \/ Super!reencrypt_if_required(c)
  BY <1>9, StoresBlob, Reencrypts
<1>10. CASE Super!Restart
  BY <1>10, RestartClients
<1>11. QED
  BY <1>1, <1>2, <1>3, <1>4, <1>5, <1>6, <1>7, <1>8, <1>9, <1>10 DEF Super!Next

\* BlobsRecoverable, for every set of users, keys and clients, whether or not
\* calls fail: the super key of a stored blob is a row of the key's owner,
\* through unlocks that fail half-way, locks, re-encryption of a blob whose
\* key a client still holds (reencrypt_if_required) and resets - unless the
\* rows went between encrypting and storing the blob (store_new_key).
THEOREM StoredKeysRecoverable ==
    Super!SuperAssumption => (Super!Spec => []BlobsRecoverable)
<1> SUFFICES ASSUME Super!SuperAssumption PROVE Super!Spec => []BlobsRecoverable
  OBVIOUS
<1>1. Super!Init => LockInv /\ ClientInv
  BY LockInit, ClientInit
<1>2. LockInv /\ ClientInv /\ [Super!Next]_(Super!vars) => LockInv' /\ ClientInv'
  BY LockNext, ClientNext
<1>3. LockInv /\ ClientInv => BlobsRecoverable
  BY DEF ClientInv, BlobSound, RowsOf, BlobsRecoverable, Super!BlobsRecoverable
<1>4. QED
  BY <1>1, <1>2, <1>3, PTL DEF Super!Spec

=============================================================================
