------------------------- MODULE KeyDatabaseProofs --------------------------
(***************************************************************************)
(* Proofs about KeyDatabase, for any keys, aliases, threads and grantees,  *)
(* any sizes of the collector's batches and of the clean-up of leftovers,  *)
(* and any number of crashes.                                              *)
(***************************************************************************)
EXTENDS KeyDatabase, WellFoundedInduction, TLAPS

(***************************************************************************)
(* The inductive invariant: the names.                                     *)
(***************************************************************************)
\* Entries that exist have different aliases, and a live one has an alias.
AliasesApart ==
    /\ \A k \in Keys : entry[k] = "Live" => alias[k] # NoAlias
    /\ \A j, k \in Keys : Exists(j) /\ Exists(k) /\ alias[j] = alias[k] /\ alias[j] # NoAlias => j = k

GrantsOfEntries == \A g \in grants : Exists(g[1])

(***************************************************************************)
(* The threads, and their guards.                                          *)
(***************************************************************************)
\* What a thread waits for or holds has been entered, and one thread holds it.
TargetsEntered ==
    \A t \in Threads :
        /\ pc[t] # "idle" => target[t] \in Keys /\ entry[target[t]] # "none"
        /\ pc[t] = "has" => guard[target[t]] = t

BlobOf(b, k) == b \in Blobs /\ b.key = k /\ b.nr \in 1..made[k]

\* What it loaded is a blob of that key; only a key that was made on a locked
\* device can be encrypted again.
LoadedOfTarget ==
    \A t \in Threads : pc[t] = "has" =>
        /\ loaded[t] # Nothing => BlobOf(loaded[t].blob, target[t])
        /\ loaded[t].wrap = "ecdh" => target[t] \in Locked

(***************************************************************************)
(* The rows of blobentry.                                                  *)
(***************************************************************************)
KeyRows == {i \in DOMAIN rows : rows[i].type = "KEY_BLOB"}

\* A row has a blob of its key, or a certificate.
RowsSound ==
    \A i \in DOMAIN rows :
        IF i \in KeyRows
        THEN BlobOf(rows[i].blob, rows[i].key) /\ (rows[i].wrap = "ecdh" => rows[i].key \in Locked)
        ELSE rows[i].blob = NoBlob

\* A key that was never entered has no blobs.
MadeEntered == \A k \in Keys : entry[k] = "none" => made[k] = 0

\* The newest row of an entry is current, and a key has one.
NewestCurrent ==
    \A k \in Keys : Exists(k) =>
        /\ k \notin CertOnly => IdsOf(rows, k, "KEY_BLOB") # {}
        /\ \A i \in IdsOf(rows, k, "KEY_BLOB") :
              (\A j \in IdsOf(rows, k, "KEY_BLOB") : j <= i) => rows[i].state = "Current"

\* A blob is in one row, unless it was encrypted again.
BlobsApart ==
    \A i, j \in KeyRows : rows[i].key \notin Locked /\ rows[i].blob = rows[j].blob => i = j

CurrentHasSlot ==
    \A i \in KeyRows : rows[i].key \notin Locked /\ rows[i].state = "Current" => rows[i].blob \in slots

\* What the collector holds is garbage that is still in its row.
CollectsGarbage ==
    /\ \A x \in batch :
          x.id \in KeyRows /\ rows[x.id].state # "Current" /\ rows[x.id].blob = x.blob
    /\ \A i \in deleted :
          i \in KeyRows /\ rows[i].state # "Current" /\ rows[i].blob \in tried

QueuedNotified == steps <= notified

NamesInv  == AliasesApart /\ GrantsOfEntries
ThreadInv == TargetsEntered /\ LoadedOfTarget /\ GuardedIsLatest
RowInv    == RowsSound /\ MadeEntered /\ NewestCurrent /\ BlobsApart /\ CurrentHasSlot
GcInv     == CollectsGarbage /\ DeletedWereTried

IInv == TypeOK /\ QueuedNotified /\ NamesInv /\ ThreadInv /\ RowInv /\ GcInv

\* "A live key is fully populated and usable by clients", for the keys that
\* were not made on a locked device.
UnlockedUsable ==
    \A k \in Keys \ (CertOnly \cup Locked) : entry[k] = "Live" => LoadBlob(k).blob \in slots
-----------------------------------------------------------------------------
(***************************************************************************)
(* Tables and their largest ids.                                           *)
(***************************************************************************)
LEMMA MaxFacts ==
    ASSUME NEW n \in Nat, NEW S \in SUBSET (1..n), S # {}
    PROVE  Max(S) \in S /\ \A i \in S : i <= Max(S)
<1> DEFINE T == {n - i : i \in S}
<1>1. T \subseteq Nat /\ T # {}
  <2>1. \A i \in S : n - i \in Nat
    OBVIOUS
  <2> QED BY <2>1
<1>2. \E x \in T : \A y \in T : ~(<<y, x>> \in OpToRel(<, Nat))
  BY <1>1, NatLessThanWellFounded, WFMin
<1>3. PICK x \in T : \A y \in T : ~(y < x)
  BY <1>1, <1>2 DEF OpToRel
<1>4. PICK m \in S : x = n - m
  BY <1>3
<1>5. \A i \in S : m >= i
  <2> TAKE i \in S
  <2>1. n - i \in T
    OBVIOUS
  <2> QED BY <1>3, <1>4, <2>1
<1> QED BY <1>4, <1>5 DEF Max

\* A table of key blobs in use: its ids are bounded.
Table(rs) == DOMAIN rs \subseteq 1..MaxRows

LEMMA RowsAreTable == ASSUME TypeOK PROVE Table(rows)
BY DEF TypeOK, Table

LEMMA RowFacts ==
    ASSUME TypeOK, NEW i \in DOMAIN rows
    PROVE  /\ i \in 1..MaxRows /\ i \in Nat
           /\ rows[i].key \in Keys /\ rows[i].type \in {"KEY_BLOB", "CERT"}
           /\ rows[i].state \in {"Current", "Superseded", "Orphaned"}
           /\ rows[i].blob \in Blobs \cup {NoBlob} /\ rows[i].wrap \in {"ecdh", "aes", "none"}
BY DEF TypeOK, Row

LEMMA NoBlobIsNone == NoBlob \notin Blobs
BY DbAssumption DEF NoBlob, Blobs

\* The highest id of a key is there, and the loader picks it.
LEMMA NewestExists ==
    ASSUME NEW rs, NEW k, Table(rs), IdsOf(rs, k, "KEY_BLOB") # {}
    PROVE  \E i \in IdsOf(rs, k, "KEY_BLOB") :
              /\ \A j \in IdsOf(rs, k, "KEY_BLOB") : j <= i
              /\ Newest(rs, k, "KEY_BLOB") = rs[i]
<1>1. IdsOf(rs, k, "KEY_BLOB") \in SUBSET (1..MaxRows) /\ MaxRows \in Nat
  BY DbAssumption DEF Table, IdsOf
<1> QED BY <1>1, MaxFacts DEF Newest

LEMMA NewestIs ==
    ASSUME NEW rs, NEW k, Table(rs), NEW i \in IdsOf(rs, k, "KEY_BLOB"),
           \A j \in IdsOf(rs, k, "KEY_BLOB") : j <= i
    PROVE  Newest(rs, k, "KEY_BLOB") = rs[i]
<1>1. PICK m \in IdsOf(rs, k, "KEY_BLOB") :
          /\ \A j \in IdsOf(rs, k, "KEY_BLOB") : j <= m
          /\ Newest(rs, k, "KEY_BLOB") = rs[m]
  BY NewestExists
<1>2. i \in Nat /\ m \in Nat /\ i <= m /\ m <= i
  BY <1>1 DEF Table, IdsOf
<1> QED BY <1>1, <1>2

\* What LoadBlob returns, of a table.
Loads(rs, k) ==
    IF IdsOf(rs, k, "KEY_BLOB") = {} THEN Nothing
    ELSE [blob |-> Newest(rs, k, "KEY_BLOB").blob, wrap |-> Newest(rs, k, "KEY_BLOB").wrap]

LEMMA LoadIs == \A k : LoadBlob(k) = Loads(rows, k)
BY DEF LoadBlob, Loads

\* It is the same for two tables in which the newest row is the same.
LEMMA SameLoad ==
    ASSUME NEW rs, NEW qs, NEW k, Table(rs), Table(qs),
           NEW i \in IdsOf(rs, k, "KEY_BLOB"), i \in IdsOf(qs, k, "KEY_BLOB"),
           \A j \in IdsOf(rs, k, "KEY_BLOB") : j <= i,
           \A j \in IdsOf(qs, k, "KEY_BLOB") : j <= i,
           rs[i].blob = qs[i].blob, rs[i].wrap = qs[i].wrap
    PROVE  Loads(rs, k) = Loads(qs, k)
BY NewestIs DEF Loads

LEMMA NextIdFacts ==
    ASSUME NEW rs, Table(rs)
    PROVE  /\ NextId(rs) \in Nat \ {0} /\ NextId(rs) \notin DOMAIN rs
           /\ \A i \in DOMAIN rs : i \in Nat /\ i < NextId(rs)
<1>1. MaxRows \in Nat
  BY DbAssumption
<1>2. CASE DOMAIN rs = {}
  BY <1>2 DEF NextId
<1>3. CASE DOMAIN rs # {}
  <2>1. Max(DOMAIN rs) \in DOMAIN rs /\ \A i \in DOMAIN rs : i <= Max(DOMAIN rs)
    BY <1>1, <1>3, MaxFacts DEF Table
  <2> QED BY <1>1, <1>3, <2>1 DEF NextId, Table
<1> QED BY <1>2, <1>3
-----------------------------------------------------------------------------
(***************************************************************************)
(* What transactions do to the table.                                      *)
(***************************************************************************)
\* Row i of rs is in qs, for the same key and with the same content.
SameRow(rs, qs, i) ==
    /\ i \in DOMAIN rs /\ i \in DOMAIN qs
    /\ qs[i].key = rs[i].key /\ qs[i].type = rs[i].type
    /\ qs[i].blob = rs[i].blob /\ qs[i].wrap = rs[i].wrap

\* Every id of ids has its row of rs in qs, at most with a new state, s.
Marked(rs, qs, ids, s) ==
    /\ DOMAIN qs = DOMAIN rs
    /\ \A i \in DOMAIN rs :
          SameRow(rs, qs, i) /\ qs[i].state = IF i \in ids THEN s ELSE rs[i].state

IsRow(r) == r \in Row

LEMMA MarkFacts ==
    ASSUME NEW rs, NEW ids, NEW s \in {"Superseded", "Orphaned"}, \A i \in DOMAIN rs : IsRow(rs[i])
    PROVE  /\ Marked(rs, WithState(rs, ids, s), ids, s)
           /\ \A i \in DOMAIN rs : IsRow(WithState(rs, ids, s)[i])
<1> DEFINE qs == WithState(rs, ids, s)
<1>1. DOMAIN qs = DOMAIN rs
  BY DEF WithState
<1>2. ASSUME NEW i \in DOMAIN rs
      PROVE  /\ SameRow(rs, qs, i) /\ qs[i].state = IF i \in ids THEN s ELSE rs[i].state
             /\ IsRow(qs[i])
  <2>1. qs[i] = IF i \in ids THEN [rs[i] EXCEPT !.state = s] ELSE rs[i]
    BY DEF WithState
  <2>2. rs[i] \in Row
    BY DEF IsRow
  <2> HIDE DEF qs
  <2> QED BY <1>1, <2>1, <2>2 DEF SameRow, IsRow, Row
<1> QED BY <1>1, <1>2 DEF Marked

\* A new row n, and the old ones of its kind superseded.
Inserted(k, type, b, wrap, n) ==
    /\ n \in 1..MaxRows /\ n \notin DOMAIN rows
    /\ \A i \in DOMAIN rows : i \in Nat /\ i < n
    /\ DOMAIN rows' = DOMAIN rows \cup {n}
    /\ rows'[n].key = k /\ rows'[n].type = type /\ rows'[n].blob = b
    /\ rows'[n].wrap = wrap /\ rows'[n].state = "Current"
    /\ \A i \in DOMAIN rows :
          /\ SameRow(rows, rows', i)
          /\ rows'[i].state = IF i \in IdsOf(rows, k, type) THEN "Superseded" ELSE rows[i].state
    /\ \A i \in DOMAIN rows' : IsRow(rows'[i])

LEMMA InsertFacts ==
    ASSUME TypeOK, HasRoom(1), NEW k \in Keys, NEW type \in {"KEY_BLOB", "CERT"},
           NEW b \in Blobs \cup {NoBlob}, NEW wrap \in {"ecdh", "aes", "none"},
           rows' = SetBlob(rows, k, type, b, wrap)
    PROVE  \E n \in 1..MaxRows : Inserted(k, type, b, wrap, n)
<1> DEFINE n   == NextId(rows)
           old == WithState(rows, IdsOf(rows, k, type), "Superseded")
           new == [key |-> k, type |-> type, blob |-> b, wrap |-> wrap, state |-> "Current"]
<1>1. n \in Nat \ {0} /\ n \notin DOMAIN rows /\ \A i \in DOMAIN rows : i \in Nat /\ i < n
  BY RowsAreTable, NextIdFacts
<1>2. n \in 1..MaxRows
  BY <1>1, DbAssumption DEF HasRoom
<1>3. rows' = [i \in DOMAIN rows \cup {n} |-> IF i = n THEN new ELSE old[i]]
  BY DEF SetBlob
<1>4. IsRow(new)
  BY DEF IsRow, Row
<1>5. Marked(rows, old, IdsOf(rows, k, type), "Superseded") /\ \A i \in DOMAIN rows : IsRow(old[i])
  BY MarkFacts DEF TypeOK, IsRow
<1> HIDE DEF n, old
<1>6. DOMAIN rows' = DOMAIN rows \cup {n} /\ rows'[n] = new
  BY <1>3
<1>7. \A i \in DOMAIN rows : rows'[i] = old[i]
  BY <1>1, <1>3
<1>8. \A i \in DOMAIN rows :
          /\ SameRow(rows, rows', i)
          /\ rows'[i].state = IF i \in IdsOf(rows, k, type) THEN "Superseded" ELSE rows[i].state
  BY <1>5, <1>6, <1>7 DEF Marked, SameRow
<1>9. \A i \in DOMAIN rows' : IsRow(rows'[i])
  BY <1>4, <1>5, <1>6, <1>7
<1>10. /\ new.key = k /\ new.type = type /\ new.blob = b /\ new.wrap = wrap /\ new.state = "Current"
  OBVIOUS
<1> HIDE DEF new
<1> QED BY <1>1, <1>2, <1>6, <1>8, <1>9, <1>10 DEF Inserted

LEMMA WithoutFacts ==
    ASSUME NEW rs, NEW ids
    PROVE  /\ DOMAIN Without(rs, ids) = DOMAIN rs \ ids
           /\ \A i \in DOMAIN rs \ ids : Without(rs, ids)[i] = rs[i] /\ SameRow(rs, Without(rs, ids), i)
BY DEF Without, SameRow
-----------------------------------------------------------------------------
(***************************************************************************)
(* Steps that insert no row.  Entries may go, rows of entries that are not *)
(* there may be marked, and rows may be deleted, of key blobs only ones    *)
(* that are garbage.                                                       *)
(***************************************************************************)
Thinning ==
    /\ DOMAIN rows' \subseteq DOMAIN rows
    /\ \A i \in DOMAIN rows' :
          /\ SameRow(rows, rows', i)
          /\ \/ rows'[i].state = rows[i].state
             \/ rows'[i].state = "Orphaned" /\ ~Exists(rows[i].key)'
    /\ \A i \in KeyRows : rows[i].state = "Current" => i \in DOMAIN rows'

EntriesGo ==
    /\ \A k \in Keys : \/ entry'[k] = entry[k]
                       \/ entry[k] # "none" /\ entry'[k] = "gone"
    /\ \A k \in Keys : Exists(k)' => Exists(k)

LEMMA ThinIds ==
    ASSUME TypeOK, Thinning
    PROVE  /\ \A k : IdsOf(rows', k, "KEY_BLOB") = IdsOf(rows, k, "KEY_BLOB") \cap DOMAIN rows'
           /\ KeyRows' = KeyRows \cap DOMAIN rows'
           /\ Table(rows) /\ Table(rows')
BY RowsAreTable DEF Thinning, SameRow, IdsOf, KeyRows, Table

\* The newest row of an entry that stays stays, and so does what is loaded.
LEMMA ThinNewest ==
    ASSUME TypeOK, RowInv, Thinning, NEW k \in Keys, Exists(k), Exists(k)'
    PROVE  /\ k \notin CertOnly => IdsOf(rows', k, "KEY_BLOB") # {}
           /\ \A i \in IdsOf(rows', k, "KEY_BLOB") :
                 (\A j \in IdsOf(rows', k, "KEY_BLOB") : j <= i) => rows'[i].state = "Current"
           /\ Loads(rows', k) = Loads(rows, k)
<1>1. /\ IdsOf(rows', k, "KEY_BLOB") = IdsOf(rows, k, "KEY_BLOB") \cap DOMAIN rows'
      /\ Table(rows) /\ Table(rows')
  BY ThinIds
<1>2. CASE IdsOf(rows, k, "KEY_BLOB") = {}
  BY <1>1, <1>2 DEF RowInv, NewestCurrent, Loads
<1>3. CASE IdsOf(rows, k, "KEY_BLOB") # {}
  <2>1. PICK i \in IdsOf(rows, k, "KEY_BLOB") : \A j \in IdsOf(rows, k, "KEY_BLOB") : j <= i
    BY <1>1, <1>3, NewestExists
  <2>2. i \in KeyRows /\ i \in DOMAIN rows /\ rows[i].key = k /\ rows[i].state = "Current"
    BY <2>1 DEF RowInv, NewestCurrent, IdsOf, KeyRows
  <2>3. i \in IdsOf(rows', k, "KEY_BLOB") /\ \A j \in IdsOf(rows', k, "KEY_BLOB") : j <= i
    BY <1>1, <2>1, <2>2 DEF Thinning
  <2>4. rows'[i].state = "Current" /\ rows'[i].blob = rows[i].blob /\ rows'[i].wrap = rows[i].wrap
    BY <2>2 DEF Thinning, SameRow, Exists
  <2>5. ASSUME NEW m \in IdsOf(rows', k, "KEY_BLOB"), \A j \in IdsOf(rows', k, "KEY_BLOB") : j <= m
        PROVE  m = i
    BY <1>1, <2>3, <2>5 DEF Table, IdsOf
  <2> QED BY <1>1, <2>1, <2>3, <2>4, <2>5, SameLoad
<1> QED BY <1>2, <1>3

LEMMA ThinRows ==
    ASSUME TypeOK, RowInv, Thinning, EntriesGo, UNCHANGED <<made, slots>>
    PROVE  RowInv'
<1>1. KeyRows' = KeyRows \cap DOMAIN rows' /\ DOMAIN rows' \subseteq DOMAIN rows
  BY ThinIds DEF Thinning
<1>2. RowsSound'
  BY <1>1 DEF RowInv, RowsSound, Thinning, SameRow, BlobOf
<1>3. MadeEntered'
  BY DEF RowInv, MadeEntered, EntriesGo
<1>4. NewestCurrent'
  BY ThinNewest DEF NewestCurrent, EntriesGo
<1>5. BlobsApart'
  BY <1>1 DEF RowInv, BlobsApart, Thinning, SameRow
<1>6. CurrentHasSlot'
  <2> SUFFICES ASSUME NEW i \in KeyRows', rows'[i].key \notin Locked, rows'[i].state = "Current"
               PROVE  rows'[i].blob \in slots'
    BY DEF CurrentHasSlot
  <2>1. i \in KeyRows /\ i \in DOMAIN rows'
    BY <1>1
  <2>2. rows[i].state = "Current" /\ rows'[i].blob = rows[i].blob /\ rows'[i].key = rows[i].key
    BY <2>1 DEF Thinning, SameRow
  <2> QED BY <2>1, <2>2 DEF RowInv, CurrentHasSlot
<1> QED BY <1>2, <1>3, <1>4, <1>5, <1>6 DEF RowInv

LEMMA ThinGc ==
    ASSUME TypeOK, GcInv, Thinning, KeyRows \subseteq DOMAIN rows',
           UNCHANGED <<made, batch, deleted, tried>>, RowInv
    PROVE  GcInv'
<1>1. KeyRows' = KeyRows
  BY ThinIds
<1>2. CollectsGarbage'
  BY <1>1 DEF GcInv, CollectsGarbage, Thinning, SameRow
<1>3. DeletedWereTried'
  <2> SUFFICES ASSUME NEW b \in Stored PROVE InDb(b)' \/ b \in tried
    BY DEF DeletedWereTried, Stored
  <2>1. CASE b \in tried
    BY <2>1
  <2>2. CASE InDb(b)
    <3>1. PICK i \in DOMAIN rows : rows[i].blob = b
      BY <2>2 DEF InDb
    <3>2. b \in Blobs
      BY DbAssumption DEF Stored, Blobs
    <3>3. i \in KeyRows
      BY <3>1, <3>2, NoBlobIsNone DEF RowInv, RowsSound
    <3> QED BY <3>1, <3>3 DEF InDb, Thinning, SameRow
  <2> QED BY <2>1, <2>2 DEF GcInv, DeletedWereTried
<1> QED BY <1>2, <1>3 DEF GcInv

LEMMA ThinThreads ==
    ASSUME TypeOK, ThreadInv, RowInv, Thinning, EntriesGo, UNCHANGED <<made, client>>
    PROVE  ThreadInv'
<1>1. TargetsEntered'
  BY DEF ThreadInv, TargetsEntered, client, EntriesGo
<1>2. LoadedOfTarget'
  BY DEF ThreadInv, LoadedOfTarget, BlobOf, client
<1>3. GuardedIsLatest'
  <2> SUFFICES ASSUME NEW t \in Threads, pc[t] = "has", Exists(target[t])'
               PROVE  loaded[t] = LoadBlob(target[t])'
    BY DEF GuardedIsLatest, client
  <2>1. PICK k \in Keys : k = target[t] /\ k = target'[t]
    BY DEF ThreadInv, TargetsEntered, client
  <2>2. Exists(k)' /\ Exists(k)
    BY <2>1 DEF Exists, EntriesGo
  <2>3. loaded[t] = Loads(rows, k)
    BY <2>1, <2>2, LoadIs DEF ThreadInv, GuardedIsLatest
  <2>4. LoadBlob(target[t])' = Loads(rows', k)
    BY <2>1 DEF LoadBlob, Loads
  <2> QED BY <2>2, <2>3, <2>4, ThinNewest
<1> QED BY <1>1, <1>2, <1>3 DEF ThreadInv
-----------------------------------------------------------------------------
(***************************************************************************)
(* Steps that insert a row.                                                *)
(***************************************************************************)
LEMMA InsertIds ==
    ASSUME TypeOK, NEW k \in Keys, NEW type \in {"KEY_BLOB", "CERT"}, NEW b, NEW wrap, NEW n,
           Inserted(k, type, b, wrap, n), NEW j \in Keys
    PROVE  IdsOf(rows', j, "KEY_BLOB") =
              IdsOf(rows, j, "KEY_BLOB") \cup IF type = "KEY_BLOB" /\ j = k THEN {n} ELSE {}
BY DEF Inserted, SameRow, IdsOf

LEMMA InsertLoads ==
    ASSUME TypeOK, NEW k \in Keys, NEW type \in {"KEY_BLOB", "CERT"}, NEW b, NEW wrap, NEW n,
           Inserted(k, type, b, wrap, n), NEW j \in Keys
    PROVE  Loads(rows', j) = IF type = "KEY_BLOB" /\ j = k THEN [blob |-> b, wrap |-> wrap]
                             ELSE Loads(rows, j)
<1>1. Table(rows) /\ Table(rows')
  BY RowsAreTable DEF Inserted, Table
<1>2. IdsOf(rows', j, "KEY_BLOB") =
              IdsOf(rows, j, "KEY_BLOB") \cup IF type = "KEY_BLOB" /\ j = k THEN {n} ELSE {}
  BY InsertIds
<1>3. CASE type = "KEY_BLOB" /\ j = k
  <2>1. n \in IdsOf(rows', j, "KEY_BLOB") /\ \A i \in IdsOf(rows', j, "KEY_BLOB") : i <= n
    BY <1>2, <1>3 DEF Inserted, IdsOf
  <2>2. Newest(rows', j, "KEY_BLOB") = rows'[n]
    BY <1>1, <2>1, NewestIs
  <2> QED BY <1>3, <2>1, <2>2 DEF Loads, Inserted
<1>4. CASE ~(type = "KEY_BLOB" /\ j = k)
  <2>1. IdsOf(rows', j, "KEY_BLOB") = IdsOf(rows, j, "KEY_BLOB")
    BY <1>2, <1>4
  <2>2. CASE IdsOf(rows, j, "KEY_BLOB") = {}
    BY <1>4, <2>1, <2>2 DEF Loads
  <2>3. CASE IdsOf(rows, j, "KEY_BLOB") # {}
    <3>1. PICK i \in IdsOf(rows, j, "KEY_BLOB") : \A m \in IdsOf(rows, j, "KEY_BLOB") : m <= i
      BY <1>1, <2>3, NewestExists
    <3>2. i \in DOMAIN rows
      BY DEF IdsOf
    <3>3. rows[i].blob = rows'[i].blob /\ rows[i].wrap = rows'[i].wrap
      BY <3>2 DEF Inserted, SameRow
    <3> QED BY <1>1, <1>4, <2>1, <3>1, <3>3, SameLoad
  <2> QED BY <2>2, <2>3
<1> QED BY <1>3, <1>4

\* What a step has to respect that inserts a row: the blob is one of its key,
\* in no other row unless it is encrypted again; and a key that enters the
\* database gets a blob with this row, or is a certificate.
Inserting(k, type, b, wrap, n) ==
    /\ Inserted(k, type, b, wrap, n)
    /\ \A j \in Keys : made'[j] \in Nat /\ made[j] <= made'[j]
    /\ \A j \in Keys : entry'[j] = "none" => made'[j] = 0
    /\ slots \subseteq slots'
    /\ \A j \in Keys : Exists(j)' => Exists(j) \/ (j = k /\ (type = "KEY_BLOB" \/ k \in CertOnly))
    /\ Exists(k)' /\ ~Exists(k) => made[k] = 0
    /\ IF type = "CERT" THEN b = NoBlob
       ELSE /\ BlobOf(b, k)'
            /\ wrap = "ecdh" => k \in Locked
            /\ k \notin Locked => b \in slots' /\ \A i \in KeyRows : rows[i].blob # b

LEMMA InsertRows ==
    ASSUME TypeOK, RowInv, NEW k \in Keys, NEW type \in {"KEY_BLOB", "CERT"}, NEW b, NEW wrap,
           NEW n, Inserting(k, type, b, wrap, n)
    PROVE  RowInv'
<1>0. /\ Inserted(k, type, b, wrap, n)
      /\ made \in [Keys -> Nat]
  BY DbAssumption DEF Inserting, TypeOK
<1>1. KeyRows' = KeyRows \cup IF type = "KEY_BLOB" THEN {n} ELSE {}
  BY <1>0 DEF Inserted, SameRow, KeyRows
<1>2. RowsSound'
  <2> SUFFICES ASSUME NEW i \in DOMAIN rows'
               PROVE  (IF i \in KeyRows
                       THEN /\ BlobOf(rows[i].blob, rows[i].key)
                            /\ rows[i].wrap = "ecdh" => rows[i].key \in Locked
                       ELSE rows[i].blob = NoBlob)'
    BY DEF RowsSound
  <2>1. CASE i = n
    BY <1>0, <1>1, <2>1 DEF Inserting, Inserted, KeyRows, BlobOf
  <2>2. CASE i # n
    <3>1. i \in DOMAIN rows /\ SameRow(rows, rows', i) /\ rows[i].key \in Keys
      BY <1>0, <2>2, RowFacts DEF Inserted
    <3>2. i \in KeyRows' <=> i \in KeyRows
      BY <1>1, <2>2
    <3>3. CASE i \notin KeyRows
      BY <3>1, <3>2, <3>3 DEF RowInv, RowsSound, SameRow
    <3>4. CASE i \in KeyRows
      <4>1. BlobOf(rows[i].blob, rows[i].key) /\ (rows[i].wrap = "ecdh" => rows[i].key \in Locked)
        BY <3>4, <3>1 DEF RowInv, RowsSound
      <4>2. rows[i].blob.nr \in 1..made'[rows[i].key]
        BY <1>0, <3>1, <4>1 DEF BlobOf, Inserting
      <4> QED BY <3>1, <3>2, <3>4, <4>1, <4>2 DEF BlobOf, SameRow
    <3> QED BY <3>3, <3>4
  <2> QED BY <2>1, <2>2
<1>3. MadeEntered'
  BY DEF Inserting, MadeEntered
<1>4. NewestCurrent'
  <2> SUFFICES ASSUME NEW j \in Keys, Exists(j)'
               PROVE  (/\ j \notin CertOnly => IdsOf(rows, j, "KEY_BLOB") # {}
                       /\ \A i \in IdsOf(rows, j, "KEY_BLOB") :
                            (\A m \in IdsOf(rows, j, "KEY_BLOB") : m <= i)
                               => rows[i].state = "Current")'
    BY DEF NewestCurrent
  <2>1. IdsOf(rows', j, "KEY_BLOB") =
              IdsOf(rows, j, "KEY_BLOB") \cup IF type = "KEY_BLOB" /\ j = k THEN {n} ELSE {}
    BY <1>0, InsertIds
  <2>2. CASE type = "KEY_BLOB" /\ j = k
    <3>1. ASSUME NEW i \in IdsOf(rows', j, "KEY_BLOB"),
                 \A m \in IdsOf(rows', j, "KEY_BLOB") : m <= i
          PROVE  i = n
      BY <1>0, <2>1, <2>2, <3>1 DEF Inserted, IdsOf
    <3> QED BY <1>0, <2>1, <2>2, <3>1 DEF Inserted
  <2>3. CASE ~(type = "KEY_BLOB" /\ j = k)
    <3>1. IdsOf(rows', j, "KEY_BLOB") = IdsOf(rows, j, "KEY_BLOB")
      BY <2>1, <2>3
    <3>2. ASSUME NEW i \in IdsOf(rows, j, "KEY_BLOB") PROVE rows'[i].state = rows[i].state
      BY <1>0, <2>3 DEF Inserted, IdsOf
    <3>3. CASE Exists(j)
      BY <3>1, <3>2, <3>3 DEF RowInv, NewestCurrent
    <3>4. CASE ~Exists(j)
      <4>1. j = k /\ k \in CertOnly /\ made[k] = 0
        BY <2>3, <3>4 DEF Inserting
      <4>2. IdsOf(rows, j, "KEY_BLOB") = {}
        BY <4>1 DEF RowInv, RowsSound, KeyRows, IdsOf, BlobOf
      <4> QED BY <3>1, <4>1, <4>2
    <3> QED BY <3>3, <3>4
  <2> QED BY <2>2, <2>3
<1>5. BlobsApart'
  <2> SUFFICES ASSUME NEW i \in KeyRows', NEW j \in KeyRows', rows'[i].key \notin Locked,
                      rows'[i].blob = rows'[j].blob
               PROVE  i = j
    BY DEF BlobsApart
  <2>1. ASSUME NEW m \in KeyRows', m # n PROVE m \in KeyRows /\ SameRow(rows, rows', m)
    BY <1>0, <1>1, <2>1 DEF Inserted, KeyRows
  <2>2. ASSUME NEW m \in KeyRows, rows[m].blob = b, type = "KEY_BLOB" PROVE k \in Locked
    BY <2>2 DEF Inserting
  <2>3. ASSUME NEW m \in KeyRows PROVE rows[m].blob.key = rows[m].key
    BY DEF RowInv, RowsSound, BlobOf, KeyRows
  <2>4. n \in KeyRows' => type = "KEY_BLOB" /\ rows'[n].key = k /\ rows'[n].blob = b /\ b.key = k
    BY <1>0 DEF Inserted, KeyRows, Inserting, BlobOf
  <2>5. CASE i # n /\ j # n
    BY <2>1, <2>5 DEF RowInv, BlobsApart, SameRow
  <2>6. CASE i = n /\ j # n
    BY <2>1, <2>2, <2>4, <2>6 DEF SameRow
  <2>7. CASE i # n /\ j = n
    BY <2>1, <2>2, <2>3, <2>4, <2>7 DEF SameRow
  <2> QED BY <2>5, <2>6, <2>7
<1>6. CurrentHasSlot'
  <2> SUFFICES ASSUME NEW i \in KeyRows', rows'[i].key \notin Locked, rows'[i].state = "Current"
               PROVE  rows'[i].blob \in slots'
    BY DEF CurrentHasSlot
  <2>1. CASE i = n
    BY <1>0, <2>1 DEF Inserting, Inserted, KeyRows
  <2>2. CASE i # n
    <3>1. i \in KeyRows /\ SameRow(rows, rows', i)
      BY <1>0, <1>1, <2>2 DEF Inserted, KeyRows
    <3>2. rows[i].state = "Current"
      BY <1>0, <3>1 DEF Inserted, KeyRows
    <3> QED BY <3>1, <3>2 DEF RowInv, CurrentHasSlot, SameRow, Inserting
  <2> QED BY <2>1, <2>2
<1> QED BY <1>2, <1>3, <1>4, <1>5, <1>6 DEF RowInv

LEMMA InsertGc ==
    ASSUME TypeOK, GcInv, NEW k \in Keys, NEW type \in {"KEY_BLOB", "CERT"}, NEW b, NEW wrap, NEW n,
           Inserted(k, type, b, wrap, n), UNCHANGED <<batch, deleted, tried>>,
           \A c \in Stored' : c \in Stored \/ c = b
    PROVE  GcInv'
<1>1. ASSUME NEW i \in KeyRows, rows[i].state # "Current"
      PROVE  i \in KeyRows' /\ rows'[i].state # "Current" /\ rows'[i].blob = rows[i].blob
  BY <1>1 DEF Inserted, SameRow, KeyRows
<1>2. CollectsGarbage'
  BY <1>1 DEF GcInv, CollectsGarbage
<1>3. DeletedWereTried'
  BY DEF GcInv, DeletedWereTried, InDb, Inserted, SameRow
<1> QED BY <1>2, <1>3 DEF GcInv
LEMMA InsertTyped ==
    ASSUME TypeOK, NEW k, NEW type, NEW b, NEW wrap, NEW n, Inserted(k, type, b, wrap, n)
    PROVE  (DOMAIN rows \subseteq 1..MaxRows /\ \A i \in DOMAIN rows : rows[i] \in Row)'
BY DEF TypeOK, Inserted, IsRow

LEMMA InsertThreads ==
    ASSUME TypeOK, ThreadInv, NEW k \in Keys, NEW type \in {"KEY_BLOB", "CERT"}, NEW b, NEW wrap,
           NEW n, Inserted(k, type, b, wrap, n), UNCHANGED client,
           \A j \in Keys : made'[j] \in Nat /\ made[j] <= made'[j],
           \A j \in Keys : entry[j] # "none" => entry'[j] # "none" /\ (Exists(j)' => Exists(j)),
           type = "KEY_BLOB" => entry[k] = "none"
    PROVE  ThreadInv'
<1>1. TargetsEntered'
  BY DEF ThreadInv, TargetsEntered, client
<1>2. LoadedOfTarget'
  <2> SUFFICES ASSUME NEW t \in Threads, pc[t] = "has"
               PROVE  (/\ loaded[t] # Nothing => BlobOf(loaded[t].blob, target[t])
                       /\ loaded[t].wrap = "ecdh" => target[t] \in Locked)'
    BY DEF LoadedOfTarget, client
  <2>1. target[t] \in Keys
    BY DEF ThreadInv, TargetsEntered
  <2>2. made[target[t]] \in Nat /\ made'[target[t]] \in Nat /\ made[target[t]] <= made'[target[t]]
    BY <2>1, DbAssumption DEF TypeOK
  <2> QED BY <2>2 DEF ThreadInv, LoadedOfTarget, BlobOf, client
<1>3. GuardedIsLatest'
  <2> SUFFICES ASSUME NEW t \in Threads, pc[t] = "has", Exists(target[t])'
               PROVE  loaded[t] = LoadBlob(target[t])'
    BY DEF GuardedIsLatest, client
  <2>1. target[t] \in Keys /\ entry[target[t]] # "none"
    BY DEF ThreadInv, TargetsEntered
  <2>2. Exists(target[t])
    BY <2>1 DEF Exists, client
  <2>3. loaded[t] = Loads(rows, target[t])
    BY <2>2, LoadIs DEF ThreadInv, GuardedIsLatest
  <2>4. LoadBlob(target[t])' = Loads(rows', target[t])
    BY DEF LoadBlob, Loads, client
  <2>5. ~(type = "KEY_BLOB" /\ target[t] = k)
    BY <2>1
  <2> QED BY <2>1, <2>3, <2>4, <2>5, InsertLoads
<1> QED BY <1>1, <1>2, <1>3 DEF ThreadInv

\* store_new_key and store_new_certificate.
LEMMA StoreNewKeyStep ==
    ASSUME IInv, NEW k \in Keys, NEW a \in Aliases, StoreNewKey(k, a)
    PROVE  IInv'
<1>0. /\ TypeOK /\ RowInv /\ GcInv /\ ThreadInv /\ NamesInv /\ QueuedNotified
      /\ entry[k] = "none" /\ made[k] = 0 /\ HasRoom(1)
      /\ made \in [Keys -> Nat] /\ 1 \in 0..MaxBlobs
      /\ UNCHANGED <<grants, client, worker, boot, up, tried, crashes>>
  BY DbAssumption DEF IInv, TypeOK, RowInv, MadeEntered, StoreNewKey
<1>1. /\ entry' = [j \in Keys |-> IF j = k THEN "Live"
                                  ELSE IF j \in Occupants(a) THEN "Unreferenced" ELSE entry[j]]
      /\ alias' = [j \in Keys |-> IF j = k THEN a
                                  ELSE IF j \in Occupants(a) THEN NoAlias ELSE alias[j]]
  BY DEF StoreNewKey
<1>2. NamesInv'
  <2>1. AliasesApart'
    BY <1>0, <1>1, DbAssumption DEF NamesInv, AliasesApart, Exists, Occupants
  <2>2. GrantsOfEntries'
    BY <1>0, <1>1 DEF NamesInv, GrantsOfEntries, Exists, TypeOK
  <2> QED BY <2>1, <2>2 DEF NamesInv
<1>3. /\ entry'[k] = "Live"
      /\ \A j \in Keys : j # k => /\ entry'[j] = "none" <=> entry[j] = "none"
                                  /\ Exists(j)' => Exists(j)
  BY <1>1 DEF Occupants, Exists
<1>4. QueuedNotified' /\ owed' \in Nat
  BY <1>0 DEF QueuedNotified, StoreNewKey, NeedGc, TypeOK
<1>5. /\ entry' \in [Keys -> {"none", "Live", "Unreferenced", "gone"}]
      /\ alias' \in [Keys -> Aliases \cup {NoAlias}]
  BY <1>0, <1>1 DEF TypeOK
<1>6. CASE k \in CertOnly
  <2>1. rows' = SetBlob(rows, k, "CERT", NoBlob, "none") /\ UNCHANGED <<made, slots>>
    BY <1>6 DEF StoreNewKey
  <2>2. PICK n : Inserted(k, "CERT", NoBlob, "none", n)
    BY <1>0, <2>1, InsertFacts
  <2>3. Inserting(k, "CERT", NoBlob, "none", n)
    BY <1>0, <1>3, <1>6, <2>1, <2>2 DEF Inserting, RowInv, MadeEntered, Exists
  <2>4. TypeOK'
    BY <1>0, <1>4, <1>5, <2>1, <2>2, InsertTyped DEF TypeOK, client, worker, StoreNewKey, NeedGc
  <2>5. RowInv'
    BY <1>0, <2>3, InsertRows
  <2>6. GcInv'
    BY <1>0, <2>1, <2>2, InsertGc DEF Stored, worker
  <2>7. ThreadInv'
    BY <1>0, <1>3, <2>1, <2>2, InsertThreads DEF Exists
  <2> QED BY <1>2, <1>4, <2>4, <2>5, <2>6, <2>7 DEF IInv
<1>7. CASE k \notin CertOnly
  <2> DEFINE b == [key |-> k, nr |-> 1]
  <2>1. /\ rows' = SetBlob(rows, k, "KEY_BLOB", b, WrapOf(k))
        /\ made' = [made EXCEPT ![k] = 1] /\ slots' = slots \cup {b}
    BY <1>7 DEF StoreNewKey
  <2>2. /\ b \in Blobs /\ b.key = k /\ b.nr = 1
        /\ WrapOf(k) \in {"ecdh", "aes", "none"} /\ (WrapOf(k) = "ecdh" => k \in Locked)
    BY DEF Blobs, WrapOf
  <2>3. ASSUME NEW c \in Stored' PROVE c \in Stored \/ c = b
    <3>1. c \in [key : Keys, nr : 1..MaxBlobs] /\ c.nr <= made'[c.key]
      BY DEF Stored
    <3>2. CASE c.key # k
      BY <1>0, <2>1, <3>1, <3>2 DEF Stored
    <3>3. CASE c.key = k
      <4>1. c.nr = 1
        BY <1>0, <2>1, <3>1, <3>3
      <4> QED BY <3>1, <3>3, <4>1
    <3> QED BY <3>2, <3>3
  <2> HIDE DEF b
  <2>4. PICK n : Inserted(k, "KEY_BLOB", b, WrapOf(k), n)
    BY <1>0, <2>1, <2>2, InsertFacts
  <2>5. \A i \in KeyRows : rows[i].blob # b
    BY <1>0, <2>2 DEF RowInv, RowsSound, BlobOf, KeyRows
  <2>6. /\ \A j \in Keys : made'[j] \in Nat /\ made[j] <= made'[j]
        /\ \A j \in Keys : entry'[j] = "none" => made'[j] = 0
        /\ BlobOf(b, k)'
    BY <1>0, <1>3, <2>1, <2>2 DEF BlobOf, RowInv, MadeEntered
  <2>7. Inserting(k, "KEY_BLOB", b, WrapOf(k), n)
    BY <1>0, <1>3, <2>1, <2>2, <2>4, <2>5, <2>6 DEF Inserting
  <2>8. TypeOK'
    <3>1. made' \in [Keys -> 0..MaxBlobs] /\ slots' \subseteq Blobs
      BY <1>0, <2>1, <2>2 DEF TypeOK
    <3> QED BY <1>0, <1>4, <1>5, <2>4, <3>1, InsertTyped DEF TypeOK, client, worker, StoreNewKey,
       NeedGc
  <2>9. RowInv'
    BY <1>0, <2>2, <2>7, InsertRows
  <2>10. GcInv'
    BY <1>0, <2>3, <2>4, InsertGc DEF worker
  <2>11. ThreadInv'
    BY <1>0, <1>3, <2>4, <2>6, InsertThreads
  <2> QED BY <1>2, <1>4, <2>8, <2>9, <2>10, <2>11 DEF IInv
<1> QED BY <1>6, <1>7
-----------------------------------------------------------------------------
(***************************************************************************)
(* The transactions that remove entries, and the clean-up of leftovers.    *)
(***************************************************************************)
\* The entries of S go, with their grants.
Removed(S) ==
    /\ entry' = [k \in Keys |-> IF k \in S THEN "gone" ELSE entry[k]]
    /\ alias' = [k \in Keys |-> IF k \in S THEN NoAlias ELSE alias[k]]
    /\ grants' \subseteq {g \in grants : g[1] \notin S}
    /\ \A k \in S : Exists(k)

LEMMA RemovedNames ==
    ASSUME TypeOK, NamesInv, NEW S \in SUBSET Keys, Removed(S)
    PROVE  /\ NamesInv' /\ EntriesGo
           /\ entry' \in [Keys -> {"none", "Live", "Unreferenced", "gone"}]
           /\ alias' \in [Keys -> Aliases \cup {NoAlias}] /\ grants' \subseteq Keys \X Spaces
<1>1. \A k \in Keys : Exists(k)' => Exists(k) /\ k \notin S /\ alias'[k] = alias[k]
  BY DEF Removed, Exists
<1>2. AliasesApart'
  BY <1>1 DEF NamesInv, AliasesApart, Removed
<1>3. GrantsOfEntries'
  BY DEF NamesInv, GrantsOfEntries, Removed, Exists, TypeOK
<1>4. EntriesGo
  BY <1>1 DEF Removed, Exists, EntriesGo
<1> QED BY <1>1, <1>2, <1>3, <1>4 DEF NamesInv, Removed, TypeOK

LEMMA RemovingStep ==
    ASSUME IInv, NEW S \in SUBSET Keys, Removed(S), Thinning, DOMAIN rows' = DOMAIN rows,
           (\A i \in DOMAIN rows : rows[i] \in Row)',
           UNCHANGED <<made, slots, client, worker, boot, up, tried, crashes, notified, steps>>,
           owed' \in Nat
    PROVE  IInv'
<1>0. TypeOK /\ NamesInv /\ RowInv /\ GcInv /\ ThreadInv /\ QueuedNotified
  BY DEF IInv
<1>1. /\ NamesInv' /\ EntriesGo
      /\ entry' \in [Keys -> {"none", "Live", "Unreferenced", "gone"}]
      /\ alias' \in [Keys -> Aliases \cup {NoAlias}] /\ grants' \subseteq Keys \X Spaces
  BY <1>0, RemovedNames
<1>2. RowInv'
  BY <1>0, <1>1, ThinRows
<1>3. GcInv'
  BY <1>0, ThinGc DEF worker, KeyRows
<1>4. ThreadInv'
  BY <1>0, <1>1, ThinThreads
<1>5. DOMAIN rows' \subseteq 1..MaxRows
  BY <1>0 DEF TypeOK
<1>6. TypeOK'
  BY <1>0, <1>1, <1>5 DEF TypeOK, client, worker
<1>7. QueuedNotified'
  BY <1>0 DEF QueuedNotified
<1> QED BY <1>1, <1>2, <1>3, <1>4, <1>6, <1>7 DEF IInv

\* remove_key_rows.
LEMMA RemoveKeyRowsFacts ==
    ASSUME TypeOK, NEW S \in SUBSET Keys, NEW gs \in SUBSET grants, RemoveKeyRows(S, gs),
           \A k \in S : Exists(k)
    PROVE  Removed(S) /\ Thinning /\ DOMAIN rows' = DOMAIN rows /\ (\A i \in DOMAIN rows : rows[i] \in Row)'
<1> DEFINE ids == {i \in DOMAIN rows : rows[i].key \in S}
<1>1. Removed(S)
  BY DEF Removed, RemoveKeyRows
<1>2. /\ Marked(rows, rows', ids, "Orphaned")
      /\ \A i \in DOMAIN rows : IsRow(rows'[i])
  BY MarkFacts DEF RemoveKeyRows, TypeOK, IsRow
<1>3. \A k \in S : ~Exists(k)'
  BY DEF RemoveKeyRows, Exists
<1>4. \A i \in DOMAIN rows : i \in ids => ~(entry'[rows'[i].key] \in {"Live", "Unreferenced"})
  BY <1>2, <1>3 DEF Marked, SameRow, Exists
<1>5. Thinning
  BY <1>2, <1>4 DEF Marked, Thinning, Exists, KeyRows
<1> QED BY <1>1, <1>2, <1>5 DEF Marked, IsRow

LEMMA UnbindStep ==
    ASSUME IInv,
           \/ \E S \in SUBSET Keys : UnbindKeys(S)
           \/ \E s \in Spaces : UnbindUser(s)
    PROVE  IInv'
<1>0. TypeOK
  BY DEF IInv
<1>1. ASSUME NEW S \in SUBSET Keys, UnbindKeys(S) PROVE IInv'
  <2>1. \A k \in S : Exists(k)
    BY <1>1 DEF UnbindKeys, Exists
  <2>2. Removed(S) /\ Thinning /\ DOMAIN rows' = DOMAIN rows /\ (\A i \in DOMAIN rows : rows[i] \in Row)'
    BY <1>0, <1>1, <2>1, RemoveKeyRowsFacts DEF UnbindKeys
  <2>3. owed' \in Nat
    BY <1>0, <1>1 DEF UnbindKeys, NeedGc, TypeOK
  <2> QED BY <1>1, <2>2, <2>3, RemovingStep DEF UnbindKeys, NeedGc
<1>2. ASSUME NEW s \in Spaces, UnbindUser(s) PROVE IInv'
  <2> DEFINE S  == {k \in Keys : InSpace(k, s) /\ entry[k] = "Live"}
             gs == {g \in grants : g[2] # s}
  <2>1. /\ \A k \in S : Exists(k)
        /\ S \in SUBSET Keys /\ gs \in SUBSET grants
    BY DEF Exists
  <2>2. RemoveKeyRows(S, gs) /\ NeedGc(S # {})
        /\ UNCHANGED <<made, slots, client, worker, boot, up, tried, crashes>>
    BY <1>2 DEF UnbindUser
  <2> HIDE DEF S, gs
  <2>3. Removed(S) /\ Thinning /\ DOMAIN rows' = DOMAIN rows /\ (\A i \in DOMAIN rows : rows[i] \in Row)'
    BY <1>0, <2>1, <2>2, RemoveKeyRowsFacts
  <2>4. owed' \in Nat
    BY <1>0, <2>2 DEF NeedGc, TypeOK
  <2> QED BY <2>1, <2>2, <2>3, <2>4, RemovingStep DEF NeedGc
<1> QED BY <1>1, <1>2

LEMMA UnbindNamespaceStep ==
    ASSUME IInv, NEW s \in Spaces, UnbindNamespace(s)
    PROVE  IInv'
<1> DEFINE S == {k \in Keys : InSpace(k, s)}
<1>0. TypeOK /\ S \in SUBSET Keys
  BY DEF IInv
<1>1. Removed(S)
  BY DEF UnbindNamespace, Removed, InSpace
<1>2. Thinning /\ DOMAIN rows' = DOMAIN rows /\ (\A i \in DOMAIN rows : rows[i] \in Row)'
  BY <1>0 DEF UnbindNamespace, Thinning, SameRow, TypeOK, KeyRows
<1>3. owed' \in Nat
  BY <1>0 DEF UnbindNamespace, NeedGc, TypeOK
<1> HIDE DEF S
<1> QED BY <1>0, <1>1, <1>2, <1>3, RemovingStep DEF UnbindNamespace, NeedGc

LEMMA CleanupLeftoversStep ==
    ASSUME IInv, CleanupLeftovers
    PROVE  IInv'
<1> DEFINE lost == {i \in DOMAIN rows : ~Exists(rows[i].key)}
<1>0. TypeOK /\ NamesInv /\ RowInv /\ GcInv /\ ThreadInv /\ QueuedNotified
  BY DEF IInv
<1>1. PICK ids \in SUBSET lost : rows' = WithState(rows, ids, "Orphaned")
  BY DEF CleanupLeftovers, kSubset
<1>2. /\ Marked(rows, rows', ids, "Orphaned")
      /\ \A i \in DOMAIN rows : IsRow(rows'[i])
  BY <1>0, <1>1, MarkFacts DEF TypeOK, IsRow
<1>3. UNCHANGED <<entry, alias, grants, made, slots, client, notified, steps, worker, boot, tried, crashes>>
  BY DEF CleanupLeftovers
<1>4. Thinning /\ KeyRows \subseteq DOMAIN rows'
  BY <1>1, <1>2, <1>3 DEF Marked, Thinning, SameRow, Exists, KeyRows
<1>5. EntriesGo
  BY <1>3 DEF EntriesGo, Exists
<1>6. RowInv' /\ GcInv' /\ ThreadInv'
  BY <1>0, <1>3, <1>4, <1>5, ThinRows, ThinGc, ThinThreads DEF worker
<1>7. NamesInv' /\ QueuedNotified'
  BY <1>0, <1>3 DEF NamesInv, AliasesApart, GrantsOfEntries, Exists, QueuedNotified
<1>8. owed' \in Nat /\ up' = TRUE
  BY <1>0 DEF CleanupLeftovers, TypeOK
<1>9. (DOMAIN rows \subseteq 1..MaxRows /\ \A i \in DOMAIN rows : rows[i] \in Row)'
  BY <1>0, <1>2 DEF Marked, TypeOK, IsRow
<1>10. TypeOK'
  BY <1>0, <1>3, <1>8, <1>9 DEF TypeOK, client, worker
<1> QED BY <1>6, <1>7, <1>10 DEF IInv

LEMMA GrantStep ==
    ASSUME IInv, NEW k \in Keys, NEW u \in Grantees, Grant(k, u) \/ Ungrant(k, u)
    PROVE  IInv'
<1>0. /\ TypeOK /\ NamesInv /\ RowInv /\ GcInv /\ ThreadInv /\ QueuedNotified
      /\ UNCHANGED <<entry, alias, rows, made, slots, client, queue, worker, boot, up, tried, crashes>>
  BY DEF IInv, Grant, Ungrant
<1>1. grants' \subseteq grants \cup {<<k, u>>} /\ u \in Spaces /\ Exists(k)
  BY DbAssumption DEF Grant, Ungrant, Exists
<1>2. NamesInv'
  BY <1>0, <1>1 DEF NamesInv, AliasesApart, GrantsOfEntries, Exists
<1>3. TypeOK'
  BY <1>0, <1>1 DEF TypeOK, client, queue, worker
<1>4. RowInv' /\ GcInv'
  BY <1>0 DEF RowInv, RowsSound, MadeEntered, NewestCurrent, BlobsApart, CurrentHasSlot, KeyRows,
     BlobOf,
     GcInv, CollectsGarbage, DeletedWereTried, Stored, InDb, Exists, worker
<1>5. ThreadInv' /\ QueuedNotified'
  BY <1>0 DEF ThreadInv, TargetsEntered, LoadedOfTarget, GuardedIsLatest, BlobOf, Exists, client,
     queue,
     QueuedNotified, LoadBlob
<1> QED BY <1>2, <1>3, <1>4, <1>5 DEF IInv
-----------------------------------------------------------------------------
(***************************************************************************)
(* load_key_entry, and what is done under its guard.                       *)
(***************************************************************************)
\* Steps that leave the database and the collector alone.
LEMMA QuietDb ==
    ASSUME IInv, UNCHANGED <<db, made, slots, batch, deleted, tried>>
    PROVE  NamesInv' /\ RowInv' /\ GcInv'
<1>1. NamesInv'
  BY DEF IInv, NamesInv, AliasesApart, GrantsOfEntries, Exists, db
<1>2. RowInv'
  BY DEF IInv, RowInv, RowsSound, MadeEntered, NewestCurrent, BlobsApart, CurrentHasSlot, KeyRows,
     BlobOf, Exists, db
<1>3. GcInv'
  BY DEF IInv, GcInv, CollectsGarbage, DeletedWereTried, Stored, InDb, KeyRows, db
<1> QED BY <1>1, <1>2, <1>3

LEMMA QuietThreads ==
    ASSUME IInv, UNCHANGED <<client, entry, rows, made>>
    PROVE  ThreadInv'
BY DEF IInv, ThreadInv, TargetsEntered, LoadedOfTarget, GuardedIsLatest, BlobOf, LoadBlob, Exists,
   client

LEMMA LoadedFacts ==
    ASSUME IInv, NEW k \in Keys
    PROVE  /\ LoadBlob(k) \in [blob : Blobs \cup {NoBlob}, wrap : {"ecdh", "aes", "none"}]
           /\ LoadBlob(k) # Nothing => BlobOf(LoadBlob(k).blob, k)
           /\ LoadBlob(k).wrap = "ecdh" => k \in Locked
<1>1. CASE IdsOf(rows, k, "KEY_BLOB") = {}
  BY <1>1 DEF LoadBlob, Nothing
<1>2. CASE IdsOf(rows, k, "KEY_BLOB") # {}
  <2>1. PICK i \in IdsOf(rows, k, "KEY_BLOB") : Newest(rows, k, "KEY_BLOB") = rows[i]
    BY <1>2, RowsAreTable, NewestExists DEF IInv
  <2>2. LoadBlob(k) = [blob |-> rows[i].blob, wrap |-> rows[i].wrap]
    BY <1>2, <2>1 DEF LoadBlob
  <2>3. i \in DOMAIN rows /\ i \in KeyRows /\ rows[i].key = k
    BY DEF IdsOf, KeyRows
  <2>4. BlobOf(rows[i].blob, k) /\ (rows[i].wrap = "ecdh" => k \in Locked)
    BY <2>3 DEF IInv, RowInv, RowsSound
  <2>5. rows[i].blob \in Blobs \cup {NoBlob} /\ rows[i].wrap \in {"ecdh", "aes", "none"}
    BY <2>3, RowFacts DEF IInv
  <2> QED BY <2>2, <2>4, <2>5
<1> QED BY <1>1, <1>2

\* A guard that is free is taken, for a key that has been entered.
LEMMA TakeThreads ==
    ASSUME IInv, NEW t \in Threads, NEW k \in Keys, guard[k] = NoThread, entry[k] # "none", Take(t, k),
           UNCHANGED <<entry, rows, made>>
    PROVE  /\ ThreadInv'
           /\ guard' \in [Keys -> Threads \cup {NoThread}]
           /\ pc' \in [Threads -> {"idle", "wait", "has"}]
           /\ target' \in [Threads -> Keys \cup {NoKey}]
           /\ loaded' \in [Threads -> [blob : Blobs \cup {NoBlob}, wrap : {"ecdh", "aes", "none"}]]
<1>0. /\ guard \in [Keys -> Threads \cup {NoThread}]
      /\ pc \in [Threads -> {"idle", "wait", "has"}]
      /\ target \in [Threads -> Keys \cup {NoKey}]
      /\ loaded \in [Threads -> [blob : Blobs \cup {NoBlob}, wrap : {"ecdh", "aes", "none"}]]
      /\ ThreadInv /\ NoThread \notin Threads
  BY DbAssumption DEF IInv, TypeOK
<1>1. /\ pc'[t] = "has" /\ target'[t] = k /\ loaded'[t] = LoadBlob(k) /\ guard'[k] = t
      /\ \A u \in Threads : u # t => pc'[u] = pc[u] /\ target'[u] = target[u] /\ loaded'[u] = loaded[u]
      /\ \A j \in Keys : j # k => guard'[j] = guard[j]
  BY <1>0 DEF Take
<1>2. TargetsEntered'
  BY <1>0, <1>1 DEF ThreadInv, TargetsEntered
<1>3. LoadedOfTarget'
  BY <1>0, <1>1, LoadedFacts DEF ThreadInv, LoadedOfTarget, BlobOf
<1>4. GuardedIsLatest'
  <2> SUFFICES ASSUME NEW u \in Threads, pc'[u] = "has", Exists(target[u])'
               PROVE  loaded'[u] = LoadBlob(target[u])'
    BY DEF GuardedIsLatest
  <2>1. LoadBlob(target[u])' = LoadBlob(target'[u])
    BY DEF LoadBlob
  <2> QED BY <1>0, <1>1, <2>1 DEF ThreadInv, GuardedIsLatest, Exists
<1>5. /\ guard' \in [Keys -> Threads \cup {NoThread}]
      /\ pc' \in [Threads -> {"idle", "wait", "has"}]
      /\ target' \in [Threads -> Keys \cup {NoKey}]
  BY <1>0 DEF Take
<1>6. loaded' \in [Threads -> [blob : Blobs \cup {NoBlob}, wrap : {"ecdh", "aes", "none"}]]
  BY <1>0, LoadedFacts DEF Take
<1> QED BY <1>2, <1>3, <1>4, <1>5, <1>6 DEF ThreadInv

LEMMA NothingTyped == Nothing \in [blob : Blobs \cup {NoBlob}, wrap : {"ecdh", "aes", "none"}]
BY DEF Nothing

\* A thread waits, or lets go of everything it holds.
LEMMA LetGoThreads ==
    ASSUME IInv, NEW t \in Threads,
           LetGo(t) \/ (pc[t] = "idle" /\ \E k \in Keys : entry[k] # "none" /\ WaitFor(t, k)),
           UNCHANGED <<entry, rows, made>>
    PROVE  /\ ThreadInv'
           /\ guard' \in [Keys -> Threads \cup {NoThread}]
           /\ pc' \in [Threads -> {"idle", "wait", "has"}]
           /\ target' \in [Threads -> Keys \cup {NoKey}]
           /\ loaded' \in [Threads -> [blob : Blobs \cup {NoBlob}, wrap : {"ecdh", "aes", "none"}]]
<1>0. /\ guard \in [Keys -> Threads \cup {NoThread}]
      /\ pc \in [Threads -> {"idle", "wait", "has"}]
      /\ target \in [Threads -> Keys \cup {NoKey}]
      /\ loaded \in [Threads -> [blob : Blobs \cup {NoBlob}, wrap : {"ecdh", "aes", "none"}]]
      /\ ThreadInv /\ NoThread \notin Threads
  BY DbAssumption DEF IInv, TypeOK
<1>1. /\ pc'[t] # "has" /\ (pc'[t] # "idle" => target'[t] \in Keys /\ entry[target'[t]] # "none")
      /\ \A u \in Threads : u # t => pc'[u] = pc[u] /\ target'[u] = target[u] /\ loaded'[u] = loaded[u]
      /\ \A j \in Keys : guard[j] # t => guard'[j] = guard[j]
  BY <1>0 DEF LetGo, WaitFor
<1>2. TargetsEntered'
  BY <1>0, <1>1 DEF ThreadInv, TargetsEntered
<1>3. LoadedOfTarget'
  BY <1>0, <1>1 DEF ThreadInv, LoadedOfTarget, BlobOf
<1>4. GuardedIsLatest'
  <2> SUFFICES ASSUME NEW u \in Threads, pc'[u] = "has", Exists(target[u])'
               PROVE  loaded'[u] = LoadBlob(target[u])'
    BY DEF GuardedIsLatest
  <2>1. LoadBlob(target[u])' = LoadBlob(target'[u])
    BY DEF LoadBlob
  <2> QED BY <1>0, <1>1, <2>1 DEF ThreadInv, GuardedIsLatest, Exists
<1>5. /\ guard' \in [Keys -> Threads \cup {NoThread}]
      /\ pc' \in [Threads -> {"idle", "wait", "has"}]
      /\ target' \in [Threads -> Keys \cup {NoKey}]
  BY <1>0 DEF LetGo, WaitFor
<1>6. loaded' \in [Threads -> [blob : Blobs \cup {NoBlob}, wrap : {"ecdh", "aes", "none"}]]
  BY <1>0, NothingTyped DEF LetGo, WaitFor
<1> QED BY <1>2, <1>3, <1>4, <1>5, <1>6 DEF ThreadInv

LEMMA LoadStep ==
    ASSUME IInv, NEW t \in Threads,
           (\E k \in Keys : Load(t, k) \/ LoadById(t, k)) \/ Wake(t) \/ Release(t)
    PROVE  IInv'
<1>0. /\ UNCHANGED <<db, made, slots, queue, worker, boot, up, tried, crashes>>
      /\ TypeOK /\ ThreadInv /\ QueuedNotified
  BY DEF Load, LoadById, Wake, Release, IInv
<1>1. \/ \E k \in Keys : guard[k] = NoThread /\ entry[k] # "none" /\ Take(t, k)
      \/ LetGo(t) \/ (pc[t] = "idle" /\ \E k \in Keys : entry[k] # "none" /\ WaitFor(t, k))
  BY <1>0 DEF Load, LoadById, Wake, Release, ThreadInv, TargetsEntered
<1>2. /\ ThreadInv'
      /\ guard' \in [Keys -> Threads \cup {NoThread}]
      /\ pc' \in [Threads -> {"idle", "wait", "has"}]
      /\ target' \in [Threads -> Keys \cup {NoKey}]
      /\ loaded' \in [Threads -> [blob : Blobs \cup {NoBlob}, wrap : {"ecdh", "aes", "none"}]]
  BY <1>0, <1>1, TakeThreads, LetGoThreads DEF db
<1>3. TypeOK' /\ QueuedNotified'
  BY <1>0, <1>2 DEF TypeOK, QueuedNotified, db, queue, worker
<1>4. NamesInv' /\ RowInv' /\ GcInv'
  BY <1>0, QuietDb DEF worker
<1> QED BY <1>2, <1>3, <1>4 DEF IInv
LEMMA MigrateStep ==
    ASSUME IInv, NEW t \in Threads, NEW a \in Aliases, Migrate(t, a)
    PROVE  IInv'
<1>0. /\ UNCHANGED <<entry, rows, grants, made, slots, queue, worker, boot, up, tried, crashes>>
      /\ TypeOK /\ NamesInv /\ RowInv /\ GcInv /\ ThreadInv /\ QueuedNotified /\ LetGo(t)
      /\ a # NoAlias
  BY DbAssumption DEF Migrate, IInv
<1>1. PICK k \in Keys : Exists(k) /\ Occupants(a) = {} /\ alias' = [alias EXCEPT ![k] = a]
  BY <1>0 DEF Migrate, ThreadInv, TargetsEntered
<1>2. alias \in [Keys -> Aliases \cup {NoAlias}]
  BY <1>0 DEF TypeOK
<1>3. NamesInv'
  BY <1>0, <1>1, <1>2 DEF NamesInv, AliasesApart, GrantsOfEntries, Occupants, Exists
<1>4. alias' \in [Keys -> Aliases \cup {NoAlias}]
  BY <1>1, <1>2
<1>5. /\ ThreadInv'
      /\ guard' \in [Keys -> Threads \cup {NoThread}]
      /\ pc' \in [Threads -> {"idle", "wait", "has"}]
      /\ target' \in [Threads -> Keys \cup {NoKey}]
      /\ loaded' \in [Threads -> [blob : Blobs \cup {NoBlob}, wrap : {"ecdh", "aes", "none"}]]
  BY <1>0, LetGoThreads
<1>6. TypeOK' /\ QueuedNotified'
  BY <1>0, <1>4, <1>5 DEF TypeOK, QueuedNotified, queue, worker
<1>7. RowInv' /\ GcInv'
  BY <1>0 DEF RowInv, RowsSound, MadeEntered, NewestCurrent, BlobsApart, CurrentHasSlot, KeyRows,
     BlobOf,
     GcInv, CollectsGarbage, DeletedWereTried, Stored, InDb, Exists, worker
<1> QED BY <1>3, <1>5, <1>6, <1>7 DEF IInv

\* The holder of a guard sets a new key blob, and goes on with it.
LEMMA HolderSets ==
    ASSUME TypeOK, ThreadInv, NEW t \in Threads, pc[t] = "has", NEW b, NEW wrap, NEW n,
           Inserted(target[t], "KEY_BLOB", b, wrap, n),
           BlobOf(b, target[t])', wrap = "ecdh" => target[t] \in Locked,
           loaded' = [loaded EXCEPT ![t] = [blob |-> b, wrap |-> wrap]],
           UNCHANGED <<guard, pc, target, entry>>,
           \A j \in Keys : made'[j] \in Nat /\ made[j] <= made'[j]
    PROVE  ThreadInv'
<1>0. /\ loaded'[t] = [blob |-> b, wrap |-> wrap]
      /\ \A u \in Threads : u # t => loaded'[u] = loaded[u]
  BY DEF TypeOK
<1>1. TargetsEntered'
  BY DEF ThreadInv, TargetsEntered
<1>2. LoadedOfTarget'
  <2> SUFFICES ASSUME NEW u \in Threads, pc[u] = "has"
               PROVE  (/\ loaded[u] # Nothing => BlobOf(loaded[u].blob, target[u])
                       /\ loaded[u].wrap = "ecdh" => target[u] \in Locked)'
    BY DEF LoadedOfTarget
  <2>1. target[u] \in Keys
    BY DEF ThreadInv, TargetsEntered
  <2>2. made[target[u]] \in Nat /\ made'[target[u]] \in Nat /\ made[target[u]] <= made'[target[u]]
    BY <2>1, DbAssumption DEF TypeOK
  <2>3. CASE u = t
    BY <1>0, <2>3 DEF BlobOf
  <2>4. CASE u # t
    BY <1>0, <2>2, <2>4 DEF ThreadInv, LoadedOfTarget, BlobOf
  <2> QED BY <2>3, <2>4
<1>3. GuardedIsLatest'
  <2> SUFFICES ASSUME NEW u \in Threads, pc[u] = "has", Exists(target[u])'
               PROVE  loaded'[u] = LoadBlob(target[u])'
    BY DEF GuardedIsLatest
  <2>1. target[u] \in Keys /\ guard[target[u]] = u /\ target[t] \in Keys /\ guard[target[t]] = t
    BY DEF ThreadInv, TargetsEntered
  <2>2. LoadBlob(target[u])' = Loads(rows', target[u])
    BY DEF LoadBlob, Loads
  <2>3. CASE u = t
    BY <1>0, <2>1, <2>2, <2>3, InsertLoads
  <2>4. CASE u # t
    <3>1. target[u] # target[t]
      BY <2>1, <2>4
    <3>2. Loads(rows', target[u]) = Loads(rows, target[u])
      BY <2>1, <3>1, InsertLoads
    <3>3. loaded[u] = Loads(rows, target[u])
      BY LoadIs DEF ThreadInv, GuardedIsLatest, Exists
    <3> QED BY <1>0, <2>2, <2>4, <3>2, <3>3
  <2> QED BY <2>3, <2>4
<1> QED BY <1>1, <1>2, <1>3 DEF ThreadInv

LEMMA UpgradeStep ==
    ASSUME IInv, NEW t \in Threads, Upgrade(t)
    PROVE  IInv'
<1>0. /\ TypeOK /\ NamesInv /\ RowInv /\ GcInv /\ ThreadInv /\ QueuedNotified
      /\ UNCHANGED <<entry, alias, grants, guard, pc, target, worker, boot, up, tried, crashes>>
      /\ made \in [Keys -> Nat] /\ MaxBlobs \in Nat
      /\ owed' \in Nat /\ UNCHANGED <<notified, steps>>
  BY DbAssumption DEF IInv, Upgrade, TypeOK, NeedGc
<1>1. PICK k \in Keys : k = target[t]
  BY <1>0 DEF Upgrade, ThreadInv, TargetsEntered
<1>2. PICK b \in Blobs : b = [key |-> k, nr |-> made[k] + 1]
  <2>1. [key |-> k, nr |-> made[k] + 1] \in Blobs
    BY <1>0 DEF Blobs
  <2> QED BY <2>1
<1>3. /\ pc[t] = "has" /\ entry[k] # "none" /\ made[k] < MaxBlobs /\ HasRoom(1)
      /\ made' = [made EXCEPT ![k] = @ + 1] /\ slots' = slots \cup {b}
      /\ rows' = SetBlob(rows, k, "KEY_BLOB", b, "aes")
      /\ loaded' = [loaded EXCEPT ![t] = [blob |-> b, wrap |-> "aes"]]
  BY <1>0, <1>1, <1>2 DEF Upgrade, ThreadInv, TargetsEntered
<1>4. b.key = k /\ b.nr = made[k] + 1
  BY <1>2
<1>5. ASSUME NEW c \in Stored' PROVE c \in Stored \/ c = b
  <2>1. c \in [key : Keys, nr : 1..MaxBlobs] /\ c.nr <= made'[c.key]
    BY DEF Stored
  <2>2. CASE c.key # k \/ c.nr # made[k] + 1
    BY <1>0, <1>3, <2>1, <2>2 DEF Stored
  <2>3. CASE c.key = k /\ c.nr = made[k] + 1
    BY <1>2, <2>1, <2>3
  <2> QED BY <2>2, <2>3
<1>6. PICK n : Inserted(k, "KEY_BLOB", b, "aes", n)
  BY <1>0, <1>3, InsertFacts
<1>7. \A i \in KeyRows : rows[i].blob # b
  BY <1>0, <1>4 DEF RowInv, RowsSound, BlobOf, KeyRows
<1>8. /\ \A j \in Keys : made'[j] \in Nat /\ made[j] <= made'[j]
      /\ \A j \in Keys : entry'[j] = "none" => made'[j] = 0
      /\ b.nr \in 1..made'[k]
  BY <1>0, <1>3, <1>4 DEF RowInv, MadeEntered
<1>9. BlobOf(b, k)' /\ BlobOf(b, target[t])'
  BY <1>0, <1>1, <1>4, <1>8 DEF BlobOf
<1>10. Inserting(k, "KEY_BLOB", b, "aes", n)
  BY <1>0, <1>3, <1>6, <1>7, <1>8, <1>9 DEF Inserting, Exists
<1>11. RowInv'
  BY <1>0, <1>10, InsertRows
<1>12. GcInv'
  BY <1>0, <1>5, <1>6, InsertGc DEF worker
<1>13. ThreadInv'
  BY <1>0, <1>1, <1>3, <1>6, <1>8, <1>9, HolderSets
<1>14. NamesInv' /\ QueuedNotified'
  BY <1>0 DEF NamesInv, AliasesApart, GrantsOfEntries, Exists, QueuedNotified
<1>15. /\ made' \in [Keys -> 0..MaxBlobs] /\ slots' \subseteq Blobs
       /\ loaded' \in [Threads -> [blob : Blobs \cup {NoBlob}, wrap : {"ecdh", "aes", "none"}]]
  BY <1>0, <1>3 DEF TypeOK
<1>16. TypeOK'
  BY <1>0, <1>6, <1>15, InsertTyped DEF TypeOK, worker
<1> QED BY <1>11, <1>12, <1>13, <1>14, <1>16 DEF IInv

LEMMA ReencryptStep ==
    ASSUME IInv, NEW t \in Threads, Reencrypt(t)
    PROVE  IInv'
<1>0. /\ TypeOK /\ NamesInv /\ RowInv /\ GcInv /\ ThreadInv /\ QueuedNotified
      /\ UNCHANGED <<entry, alias, grants, made, slots, guard, pc, target, worker, boot, up, tried, crashes>>
      /\ made \in [Keys -> Nat]
      /\ owed' \in Nat /\ UNCHANGED <<notified, steps>>
  BY DbAssumption DEF IInv, Reencrypt, TypeOK, NeedGc
<1>1. PICK k \in Keys : k = target[t]
  BY <1>0 DEF Reencrypt, ThreadInv, TargetsEntered
<1>2. /\ pc[t] = "has" /\ loaded[t].wrap = "ecdh" /\ loaded[t] # Nothing
      /\ BlobOf(loaded[t].blob, k) /\ k \in Locked /\ HasRoom(1)
  BY <1>0, <1>1 DEF Reencrypt, ThreadInv, LoadedOfTarget, Nothing
<1>3. PICK b \in Blobs : b = loaded[t].blob
  BY <1>2 DEF BlobOf
<1>4. rows' = SetBlob(rows, k, "KEY_BLOB", b, "aes")
  BY <1>1, <1>3 DEF Reencrypt
<1>5. loaded' = [loaded EXCEPT ![t] = [blob |-> b, wrap |-> "aes"]]
  <2>1. loaded \in [Threads -> [blob : Blobs \cup {NoBlob}, wrap : {"ecdh", "aes", "none"}]]
    BY <1>0 DEF TypeOK
  <2>2. [loaded[t] EXCEPT !.wrap = "aes"] = [blob |-> b, wrap |-> "aes"]
    BY <1>3, <2>1
  <2>3. loaded' = [loaded EXCEPT ![t] = [loaded[t] EXCEPT !.wrap = "aes"]]
    BY DEF Reencrypt
  <2> QED BY <2>2, <2>3
<1>6. PICK n : Inserted(k, "KEY_BLOB", b, "aes", n)
  BY <1>0, <1>2, <1>4, InsertFacts
<1>7. BlobOf(b, k)' /\ BlobOf(b, target[t])'
  BY <1>0, <1>1, <1>2, <1>3 DEF BlobOf
<1>8. \A j \in Keys : made'[j] \in Nat /\ made[j] <= made'[j]
  BY <1>0
<1>9. Inserting(k, "KEY_BLOB", b, "aes", n)
  BY <1>0, <1>2, <1>6, <1>7, <1>8 DEF Inserting, Exists, RowInv, MadeEntered
<1>10. RowInv'
  BY <1>0, <1>9, InsertRows
<1>11. GcInv'
  BY <1>0, <1>6, InsertGc DEF worker, Stored
<1>12. ThreadInv'
  BY <1>0, <1>1, <1>2, <1>5, <1>6, <1>7, <1>8, HolderSets
<1>13. NamesInv' /\ QueuedNotified'
  BY <1>0 DEF NamesInv, AliasesApart, GrantsOfEntries, Exists, QueuedNotified
<1>14. loaded' \in [Threads -> [blob : Blobs \cup {NoBlob}, wrap : {"ecdh", "aes", "none"}]]
  BY <1>0, <1>5 DEF TypeOK
<1>15. TypeOK'
  BY <1>0, <1>6, <1>14, InsertTyped DEF TypeOK, worker
<1> QED BY <1>10, <1>11, <1>12, <1>13, <1>15 DEF IInv
LEMMA UpdateCertStep ==
    ASSUME IInv, NEW t \in Threads, UpdateCert(t)
    PROVE  IInv'
<1>0. /\ TypeOK /\ NamesInv /\ RowInv /\ GcInv /\ ThreadInv /\ QueuedNotified
      /\ UNCHANGED <<entry, alias, grants, made, slots, client, worker, boot, up, tried, crashes>>
      /\ made \in [Keys -> Nat]
      /\ owed' \in Nat /\ UNCHANGED <<notified, steps>>
  BY DbAssumption DEF IInv, UpdateCert, TypeOK, NeedGc
<1>1. PICK k \in Keys : k = target[t] /\ entry[k] # "none"
  BY <1>0 DEF UpdateCert, ThreadInv, TargetsEntered
<1>2. NamesInv' /\ QueuedNotified'
  BY <1>0 DEF NamesInv, AliasesApart, GrantsOfEntries, Exists, QueuedNotified
<1>3. CASE HasRoom(1) /\ rows' = SetBlob(rows, k, "CERT", NoBlob, "none")
  <2>1. PICK n : Inserted(k, "CERT", NoBlob, "none", n)
    BY <1>0, <1>3, InsertFacts
  <2>2. Inserting(k, "CERT", NoBlob, "none", n)
    BY <1>0, <2>1 DEF Inserting, RowInv, MadeEntered, Exists
  <2>3. RowInv' /\ GcInv'
    BY <1>0, <2>1, <2>2, InsertRows, InsertGc DEF worker, Stored
  <2>4. ThreadInv'
    BY <1>0, <2>1, InsertThreads DEF Exists
  <2>5. TypeOK'
    BY <1>0, <2>1, InsertTyped DEF TypeOK, client, worker
  <2> QED BY <1>2, <2>3, <2>4, <2>5 DEF IInv
<1>4. CASE rows' = Without(rows, IdsOf(rows, k, "CERT"))
  <2>1. /\ DOMAIN rows' = DOMAIN rows \ IdsOf(rows, k, "CERT")
        /\ \A i \in DOMAIN rows' : rows'[i] = rows[i] /\ SameRow(rows, rows', i)
    BY <1>4, WithoutFacts
  <2>2. Thinning /\ KeyRows \subseteq DOMAIN rows'
    BY <2>1 DEF Thinning, KeyRows, IdsOf
  <2>3. EntriesGo
    BY <1>0 DEF EntriesGo, Exists
  <2>4. RowInv' /\ GcInv' /\ ThreadInv'
    BY <1>0, <2>2, <2>3, ThinRows, ThinGc, ThinThreads DEF worker
  <2>5. (DOMAIN rows \subseteq 1..MaxRows /\ \A i \in DOMAIN rows : rows[i] \in Row)'
    BY <1>0, <2>1 DEF TypeOK
  <2>6. TypeOK'
    BY <1>0, <2>5 DEF TypeOK, client, worker
  <2> QED BY <1>2, <2>4, <2>6 DEF IInv
<1> QED BY <1>1, <1>3, <1>4 DEF UpdateCert
-----------------------------------------------------------------------------
(***************************************************************************)
(* The garbage collector, the boot and the crash.                          *)
(***************************************************************************)
LEMMA QueueStep ==
    ASSUME IInv,
           NotifyGc \/ StepStart \/ StepCheck \/ NoBlobLeft \/ StepAgain \/ BootCompleted
    PROVE  IInv'
<1>0. /\ UNCHANGED <<db, made, slots, client, batch, deleted, tried, up, crashes>>
      /\ TypeOK /\ QueuedNotified
  BY DEF NotifyGc, StepStart, StepCheck, NoBlobLeft, StepAgain, BootCompleted, IInv, worker
<1>1. /\ owed' \in Nat /\ notified' \in {0, 1} /\ steps' \in {0, 1} /\ steps' <= notified'
      /\ gc' \in {"idle", "check", "load", "pop", "again"}
  BY <1>0 DEF NotifyGc, StepStart, StepCheck, NoBlobLeft, StepAgain, BootCompleted, Schedule,
     TypeOK,
     QueuedNotified, queue, worker
<1>2. boot' \in BOOLEAN
  BY <1>0 DEF NotifyGc, StepStart, StepCheck, NoBlobLeft, StepAgain, BootCompleted, TypeOK
<1>3. TypeOK' /\ QueuedNotified'
  BY <1>0, <1>1, <1>2 DEF TypeOK, QueuedNotified, db, client
<1>4. NamesInv' /\ RowInv' /\ GcInv' /\ ThreadInv'
  BY <1>0, QuietDb, QuietThreads DEF db
<1> QED BY <1>3, <1>4 DEF IInv

\* handle_next_superseded_blobs: of the rows of key blobs only the ones that
\* were processed go.
LEMMA HandleNextStep ==
    ASSUME IInv, HandleNextSupersededBlobs
    PROVE  IInv'
<1> DEFINE dead    == {k \in Keys : entry[k] = "Unreferenced"}
           kept    == Without(rows, deleted)
           marked  == WithState(kept, {i \in DOMAIN kept : kept[i].key \in dead}, "Orphaned")
           garbage == {i \in DOMAIN marked : IsGarbage(marked[i])}
           blobs   == {i \in garbage : marked[i].type = "KEY_BLOB"}
<1>0. /\ TypeOK /\ NamesInv /\ RowInv /\ GcInv /\ ThreadInv /\ QueuedNotified
      /\ UNCHANGED <<made, slots, client, queue, boot, up, tried, crashes>>
      /\ deleted' = {} /\ gc' = "pop" /\ dead \in SUBSET Keys
  BY DEF IInv, HandleNextSupersededBlobs, ForgetDeleted
<1>1. Removed(dead)
  BY DEF Removed, HandleNextSupersededBlobs, Exists
<1>2. /\ NamesInv' /\ EntriesGo
      /\ entry' \in [Keys -> {"none", "Live", "Unreferenced", "gone"}]
      /\ alias' \in [Keys -> Aliases \cup {NoAlias}] /\ grants' \subseteq Keys \X Spaces
  BY <1>0, <1>1, RemovedNames
<1>3. \A k \in dead : ~(entry'[k] \in {"Live", "Unreferenced"})
  BY <1>1 DEF Removed
<1>4. /\ rows' = IF blobs = {} THEN Without(marked, garbage) ELSE marked
      /\ \E ids \in SUBSET blobs : batch' = {[id |-> i, blob |-> marked[i].blob] : i \in ids}
  BY DEF HandleNextSupersededBlobs, kSubset
<1>5. /\ DOMAIN kept = DOMAIN rows \ deleted
      /\ \A i \in DOMAIN kept : kept[i] = rows[i] /\ SameRow(rows, kept, i) /\ IsRow(kept[i])
  <2>1. /\ DOMAIN kept = DOMAIN rows \ deleted
        /\ \A i \in DOMAIN rows \ deleted : kept[i] = rows[i] /\ SameRow(rows, kept, i)
    BY WithoutFacts
  <2>2. \A i \in DOMAIN rows : IsRow(rows[i])
    BY <1>0 DEF TypeOK, IsRow
  <2> HIDE DEF kept
  <2> QED BY <2>1, <2>2
<1>6. /\ Marked(kept, marked, {i \in DOMAIN kept : kept[i].key \in dead}, "Orphaned")
      /\ \A i \in DOMAIN kept : IsRow(marked[i])
  BY <1>5, MarkFacts
<1> HIDE DEF dead, kept, marked
<1>7. /\ DOMAIN marked = DOMAIN rows \ deleted
      /\ \A i \in DOMAIN marked :
            /\ SameRow(rows, marked, i) /\ IsRow(marked[i])
            /\ \/ marked[i].state = rows[i].state
               \/ marked[i].state = "Orphaned" /\ rows[i].key \in dead
  BY <1>5, <1>6 DEF Marked, SameRow
<1>8. /\ DOMAIN rows' \subseteq DOMAIN marked
      /\ \A i \in DOMAIN rows' : rows'[i] = marked[i]
      /\ blobs # {} => rows' = marked
      /\ KeyRows \ deleted \subseteq DOMAIN rows'
  <2>1. CASE blobs = {}
    <3>1. /\ DOMAIN rows' = DOMAIN marked \ garbage
          /\ \A i \in DOMAIN rows' : rows'[i] = marked[i]
      <4>1. rows' = Without(marked, garbage)
        BY <1>4, <2>1
      <4>2. DOMAIN Without(marked, garbage) = DOMAIN marked \ garbage
        BY WithoutFacts
      <4>3. \A i \in DOMAIN marked \ garbage : Without(marked, garbage)[i] = marked[i]
        BY WithoutFacts
      <4> HIDE DEF garbage
      <4> QED BY <4>1, <4>2, <4>3
    <3>2. \A i \in KeyRows \ deleted : i \in DOMAIN marked /\ marked[i].type = "KEY_BLOB"
      BY <1>7 DEF KeyRows, SameRow
    <3> QED BY <2>1, <3>1, <3>2
  <2>2. CASE blobs # {}
    BY <1>4, <1>7, <2>2 DEF KeyRows
  <2> QED BY <2>1, <2>2
<1>9. Thinning
  <2>1. \A i \in KeyRows : rows[i].state = "Current" => i \notin deleted
    BY <1>0 DEF GcInv, CollectsGarbage
  <2>2. ASSUME NEW i \in DOMAIN rows'
        PROVE  /\ SameRow(rows, rows', i)
               /\ \/ rows'[i].state = rows[i].state
                  \/ rows'[i].state = "Orphaned" /\ ~Exists(rows[i].key)'
    <3>1. i \in DOMAIN marked /\ rows'[i] = marked[i]
      BY <1>8
    <3>2. SameRow(rows, rows', i)
      BY <1>7, <3>1 DEF SameRow
    <3>3. rows'[i].key = rows[i].key
      BY <3>2 DEF SameRow
    <3> QED BY <1>3, <1>7, <3>1, <3>2, <3>3 DEF Exists
  <2> QED BY <1>7, <1>8, <2>1, <2>2 DEF Thinning
<1>10. RowInv' /\ ThreadInv'
  BY <1>0, <1>2, <1>9, ThinRows, ThinThreads
<1>11. KeyRows' = KeyRows \cap DOMAIN rows'
  BY <1>0, <1>9, ThinIds
<1>12. PICK ids \in SUBSET blobs : batch' = {[id |-> i, blob |-> marked[i].blob] : i \in ids}
  BY <1>4
<1>13. ASSUME NEW i \in ids
       PROVE  /\ i \in KeyRows' /\ rows'[i].state # "Current" /\ rows'[i].blob = marked[i].blob
              /\ marked[i].blob \in Blobs /\ i \in 1..MaxRows
  <2>1. i \in DOMAIN marked /\ marked[i].state # "Current" /\ marked[i].type = "KEY_BLOB" /\ rows' = marked
    BY <1>8 DEF IsGarbage
  <2>2. i \in KeyRows
    BY <1>7, <2>1 DEF KeyRows, SameRow
  <2>3. i \in DOMAIN rows
    BY <1>7, <2>1
  <2>4. rows[i].blob \in Blobs /\ i \in 1..MaxRows
    BY <1>0, <2>2, <2>3, RowFacts DEF RowInv, RowsSound, BlobOf
  <2> QED BY <1>7, <1>11, <2>1, <2>2, <2>4 DEF SameRow
<1>14. CollectsGarbage'
  BY <1>0, <1>12, <1>13 DEF CollectsGarbage
<1>15. DeletedWereTried'
  <2> SUFFICES ASSUME NEW b \in Stored PROVE InDb(b)' \/ b \in tried
    BY <1>0 DEF DeletedWereTried, Stored
  <2>1. CASE b \in tried
    BY <2>1
  <2>2. CASE InDb(b)
    <3>1. PICK i \in DOMAIN rows : rows[i].blob = b
      BY <2>2 DEF InDb
    <3>2. b \in Blobs
      BY DbAssumption DEF Stored, Blobs
    <3>3. i \in KeyRows
      BY <1>0, <3>1, <3>2, NoBlobIsNone DEF RowInv, RowsSound
    <3>4. i \in deleted => b \in tried
      BY <1>0, <3>1 DEF GcInv, CollectsGarbage
    <3>5. i \notin deleted => i \in DOMAIN rows' /\ rows'[i].blob = b
      BY <1>8, <1>9, <3>1, <3>3 DEF Thinning, SameRow
    <3> QED BY <3>4, <3>5 DEF InDb
  <2> QED BY <1>0, <2>1, <2>2 DEF GcInv, DeletedWereTried
<1>16. batch' \subseteq [id : 1..MaxRows, blob : Blobs]
  BY <1>12, <1>13
<1>17. (DOMAIN rows \subseteq 1..MaxRows /\ \A i \in DOMAIN rows : rows[i] \in Row)'
  BY <1>0, <1>7, <1>8 DEF TypeOK, IsRow
<1>18. TypeOK' /\ QueuedNotified'
  BY <1>0, <1>2, <1>16, <1>17 DEF TypeOK, QueuedNotified, client, queue
<1> QED BY <1>2, <1>10, <1>14, <1>15, <1>18 DEF IInv, GcInv

\* deleteKey is for a blob whose row is garbage, so that a current row keeps
\* its slot.
LEMMA PopBlobStep ==
    ASSUME IInv, PopBlob
    PROVE  IInv'
<1>0. /\ TypeOK /\ NamesInv /\ RowInv /\ GcInv /\ ThreadInv /\ QueuedNotified
      /\ UNCHANGED <<db, made, client, queue, boot, up, crashes>> /\ gc' = "again"
  BY DEF IInv, PopBlob
<1>1. PICK x \in batch :
        /\ batch' = batch \ {x} /\ deleted' = deleted \cup {x.id}
        /\ tried' = tried \cup {x.blob} /\ slots' \in {slots, slots \ {x.blob}}
  BY DEF PopBlob
<1>2. /\ x.id \in KeyRows /\ rows[x.id].state # "Current" /\ rows[x.id].blob = x.blob
      /\ x.id \in 1..MaxRows /\ x.blob \in Blobs
  BY <1>0 DEF GcInv, CollectsGarbage, TypeOK
<1>3. CurrentHasSlot'
  <2> SUFFICES ASSUME NEW i \in KeyRows, rows[i].key \notin Locked, rows[i].state = "Current"
               PROVE  rows[i].blob \in slots'
    BY <1>0 DEF CurrentHasSlot, KeyRows, db
  <2>1. rows[i].blob # x.blob
    BY <1>0, <1>2 DEF RowInv, BlobsApart
  <2> QED BY <1>0, <1>1, <2>1 DEF RowInv, CurrentHasSlot
<1>4. RowInv'
  BY <1>0, <1>3 DEF RowInv, RowsSound, MadeEntered, NewestCurrent, BlobsApart, KeyRows, BlobOf,
     Exists, db
<1>5. GcInv'
  <2>1. CollectsGarbage'
    BY <1>0, <1>1, <1>2 DEF GcInv, CollectsGarbage, KeyRows, db
  <2>2. DeletedWereTried'
    BY <1>0, <1>1 DEF GcInv, DeletedWereTried, Stored, InDb, db
  <2> QED BY <2>1, <2>2 DEF GcInv
<1>6. NamesInv' /\ ThreadInv'
  BY <1>0, QuietThreads DEF NamesInv, AliasesApart, GrantsOfEntries, Exists, db
<1>7. TypeOK' /\ QueuedNotified'
  BY <1>0, <1>1, <1>2 DEF TypeOK, QueuedNotified, db, client, queue
<1> QED BY <1>4, <1>5, <1>6, <1>7 DEF IInv

LEMMA CrashStep ==
    ASSUME IInv, Crash
    PROVE  IInv'
<1>0. /\ TypeOK /\ NamesInv /\ RowInv /\ GcInv
      /\ UNCHANGED <<db, made, slots, tried>>
      /\ pc' = [t \in Threads |-> "idle"] /\ batch' = {} /\ deleted' = {}
  BY DEF IInv, Crash
<1>1. ThreadInv'
  BY <1>0 DEF ThreadInv, TargetsEntered, LoadedOfTarget, GuardedIsLatest
<1>2. NamesInv' /\ RowInv'
  BY <1>0 DEF NamesInv, AliasesApart, GrantsOfEntries, RowInv, RowsSound, MadeEntered,
     NewestCurrent,
     BlobsApart, CurrentHasSlot, KeyRows, BlobOf, Exists, db
<1>3. GcInv'
  BY <1>0 DEF GcInv, CollectsGarbage, DeletedWereTried, Stored, InDb, db
<1>4. TypeOK' /\ QueuedNotified'
  <2>1. /\ guard' \in [Keys -> Threads \cup {NoThread}]
        /\ pc' \in [Threads -> {"idle", "wait", "has"}]
        /\ target' \in [Threads -> Keys \cup {NoKey}]
        /\ loaded' \in [Threads -> [blob : Blobs \cup {NoBlob}, wrap : {"ecdh", "aes", "none"}]]
    BY NothingTyped DEF Crash
  <2>2. crashes' \in 0..MaxCrashes
    <3>1. crashes \in 0..MaxCrashes /\ MaxCrashes \in Nat /\ crashes < MaxCrashes /\ crashes' = crashes + 1
      BY <1>0, DbAssumption DEF TypeOK, Crash
    <3> QED BY <3>1
  <2>3. owed' = 0 /\ notified' = 0 /\ steps' = 0 /\ gc' = "idle"
    BY DEF Crash
  <2>5. boot' \in BOOLEAN /\ up' \in BOOLEAN
    BY DEF Crash
  <2>6. batch' \subseteq [id : 1..MaxRows, blob : Blobs] /\ deleted' \subseteq 1..MaxRows
    BY <1>0
  <2>7. owed' \in Nat /\ notified' \in {0, 1} /\ steps' \in {0, 1} /\ steps' <= notified'
        /\ gc' \in {"idle", "check", "load", "pop", "again"}
    BY <2>3
  <2> QED BY <1>0, <2>1, <2>2, <2>5, <2>6, <2>7 DEF TypeOK, QueuedNotified, db
<1> QED BY <1>1, <1>2, <1>3, <1>4 DEF IInv
-----------------------------------------------------------------------------
LEMMA InvariantInit == ASSUME Init PROVE IInv
<1>1. DOMAIN rows = {}
  BY DEF Init
<1>2. TypeOK
  <2>1. loaded \in [Threads -> [blob : Blobs \cup {NoBlob}, wrap : {"ecdh", "aes", "none"}]]
    BY NothingTyped DEF Init
  <2>2. made \in [Keys -> 0..MaxBlobs] /\ crashes \in 0..MaxCrashes
    BY DbAssumption DEF Init
  <2> QED BY <1>1, <2>1, <2>2 DEF Init, TypeOK
<1>3. NamesInv /\ QueuedNotified
  BY DEF Init, NamesInv, AliasesApart, GrantsOfEntries, Exists, QueuedNotified
<1>4. ThreadInv
  BY DEF Init, ThreadInv, TargetsEntered, LoadedOfTarget, GuardedIsLatest
<1>5. RowInv
  BY <1>1 DEF Init, RowInv, RowsSound, MadeEntered, NewestCurrent, BlobsApart, CurrentHasSlot,
     KeyRows, Exists
<1>6. GcInv
  BY DEF Init, GcInv, CollectsGarbage, DeletedWereTried, Stored
<1> QED BY <1>2, <1>3, <1>4, <1>5, <1>6 DEF IInv

LEMMA InvariantStep == ASSUME IInv, [Next]_vars PROVE IInv'
<1>1. ASSUME NEW t \in Threads, ClientStep(t) PROVE IInv'
  BY <1>1, LoadStep, UpgradeStep, ReencryptStep, UpdateCertStep, MigrateStep DEF ClientStep
<1>2. CASE Transaction
  BY <1>2, StoreNewKeyStep, UnbindStep, UnbindNamespaceStep, GrantStep DEF Transaction
<1>3. CASE NotifyGc \/ GcStep \/ BootCompleted
  BY <1>3, QueueStep, HandleNextStep, PopBlobStep DEF GcStep
<1>4. CASE Crash \/ CleanupLeftovers
  BY <1>4, CrashStep, CleanupLeftoversStep
<1>5. CASE UNCHANGED vars
  <2>1. UNCHANGED <<db, made, slots, batch, deleted, tried, client, entry, rows>>
    BY <1>5 DEF vars, db, worker
  <2>2. NamesInv' /\ RowInv' /\ GcInv' /\ ThreadInv'
    BY <2>1, QuietDb, QuietThreads
  <2>3. TypeOK' /\ QueuedNotified'
    BY <1>5 DEF vars, db, client, queue, worker, IInv, TypeOK, QueuedNotified
  <2> QED BY <2>2, <2>3 DEF IInv
<1> QED BY <1>1, <1>2, <1>3, <1>4, <1>5 DEF Next

LEMMA Invariant == Spec => []IInv
<1>1. Init => IInv
  BY InvariantInit
<1>2. IInv /\ [Next]_vars => IInv'
  BY InvariantStep
<1> QED BY <1>1, <1>2, PTL DEF Spec

\* Every variable of the database, the guards and the collector stays in its
\* type; at most one step of the collector is queued.
THEOREM TypeCorrect == Spec => []TypeOK
<1>1. IInv => TypeOK
  BY DEF IInv
<1> QED BY Invariant, <1>1, PTL

\* Two live keys never share an alias, and a grant never outlives its entry,
\* for any interleaving of rebind_alias, migrate_key_namespace, the unbinding
\* transactions and the collector's clean-up of unreferenced entries.
THEOREM NamesSound == Spec => []NamesResolve
<1>1. IInv => NamesResolve
  BY DEF IInv, NamesInv, AliasesApart, GrantsOfEntries, NamesResolve, Exists
<1> QED BY Invariant, <1>1, PTL

\* KEY_ID_LOCK does what it is for: the thread that holds the guard of a key
\* works on its latest blob, so that no upgrade is lost.
THEOREM GuardsSound == Spec => []GuardedIsLatest
<1>1. IInv => GuardedIsLatest
  BY DEF IInv, ThreadInv
<1> QED BY Invariant, <1>1, PTL

\* A key blob leaves the database only after the collector handed it to
\* deleteKey, across crashes and the reuse of row ids.
THEOREM NothingDroppedUntried == Spec => []DeletedWereTried
<1>1. IInv => DeletedWereTried
  BY DEF IInv, GcInv
<1> QED BY Invariant, <1>1, PTL

\* A live key that was not made on a locked device is usable: the blob that
\* the loader picks is there, and its secure deletion slot was not freed.
THEOREM UnlockedKeysUsable == Spec => []UnlockedUsable
<1>1. IInv => UnlockedUsable
  <2> SUFFICES ASSUME IInv, NEW k \in Keys \ (CertOnly \cup Locked), entry[k] = "Live"
               PROVE  LoadBlob(k).blob \in slots
    BY DEF UnlockedUsable
  <2>1. IdsOf(rows, k, "KEY_BLOB") # {}
    BY DEF IInv, RowInv, NewestCurrent, Exists
  <2>2. PICK i \in IdsOf(rows, k, "KEY_BLOB") :
            /\ \A j \in IdsOf(rows, k, "KEY_BLOB") : j <= i
            /\ Newest(rows, k, "KEY_BLOB") = rows[i]
    BY <2>1, RowsAreTable, NewestExists DEF IInv
  <2>3. rows[i].state = "Current" /\ i \in KeyRows /\ rows[i].key = k
    BY <2>2 DEF IInv, RowInv, NewestCurrent, Exists, IdsOf, KeyRows
  <2>4. rows[i].blob \in slots
    BY <2>3 DEF IInv, RowInv, CurrentHasSlot
  <2> QED BY <2>1, <2>2, <2>4 DEF LoadBlob
<1> QED BY Invariant, <1>1, PTL

\* Without keys that were made on a locked device, every live key is usable:
\* only force_reencrypt, which stores a blob a second time and leaves the first
\* to the collector, can make the slot of a live key go.
THEOREM LiveKeysUsable == ASSUME Locked = {} PROVE Spec => []LiveUsable
<1>1. UnlockedUsable => LiveUsable
  BY DEF UnlockedUsable, LiveUsable
<1> QED BY UnlockedKeysUsable, <1>1, PTL
=============================================================================
