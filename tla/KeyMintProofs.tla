--------------------------- MODULE KeyMintProofs ----------------------------
(***************************************************************************)
(* Proofs about the state behind the KeyMint instances: the secure         *)
(* deletion data of SecureDeletion, the patch levels and the boot key of   *)
(* PatchLevels, and the keys and operations of KeyMintTa.                  *)
(***************************************************************************)
EXTENDS KeyMint, WellFoundedInduction, TLAPS

(***************************************************************************)
(* Secure deletion data, for one instance with any number of slots.        *)
(***************************************************************************)
Slots  == 1..SlotLimit
NoFile == {Absent, Garbage}

IsData(d) ==
    /\ d = [factory |-> d.factory, secrets |-> d.secrets, last |-> d.last]
    /\ d.factory \in Nat /\ d.last \in 0..SlotLimit
    /\ DOMAIN d.secrets \subseteq Slots /\ d.secrets \in [DOMAIN d.secrets -> Nat]

IsBlob(b, n) ==
    /\ b = [level |-> b.level, slot |-> b.slot, factory |-> b.factory, secret |-> b.secret]
    /\ b.level \in Levels /\ b.slot \in 0..SlotLimit /\ b.factory \in Nat
    /\ b.secret \in 0..n /\ (b.slot = 0 => b.secret = 0)

\* A save w of cache d is under way: the file f is empty, and the operation
\* finds its slot as it left it.
Saving(f, d, w, n) ==
    /\ w.op \in {"idle", "init", "new", "delete"}
    /\ w.op = "idle" <=> w = Idle
    /\ w.op # "idle" => f = Default
    /\ w.op = "init" => d.factory # 0
    /\ w.op = "new" => w.slot \in DOMAIN d.secrets /\ d.factory # 0
    /\ w.op = "delete" =>
         IsBlob(w.blob, n) /\ w.blob.slot \in Slots \ DOMAIN d.secrets /\ w.blob.factory # 0

TypeOK ==
    /\ file \notin NoFile => IsData(file)
    /\ mgr \in [Levels -> {"none", "on", "off", "poisoned"}]
    /\ DOMAIN data = Levels /\ DOMAIN writing = Levels
    /\ data = [l \in Levels |-> data[l]] /\ writing = [l \in Levels |-> writing[l]]
    /\ \A l \in Levels : IsData(data[l]) /\ Saving(file, data[l], writing[l], fresh)
    /\ torn \in BOOLEAN /\ fresh \in Nat
    /\ \A b \in blobs \cup deleted : IsBlob(b, fresh) /\ (b.slot # 0 => b.factory # 0)

\* Secrets are drawn in order, so that a slot that is used again has another.
Drawn(d) == \A s \in DOMAIN d.secrets : d.secrets[s] <= fresh

SecretsDrawn == (file \notin NoFile => Drawn(file)) /\ \A l \in Levels : Drawn(data[l])

\* A deleted secret is in no table.
Lacks(d, b) == b.slot \in DOMAIN d.secrets => d.secrets[b.slot] # b.secret

DeletedGone ==
    \A b \in deleted :
        /\ b.slot # 0
        /\ file \notin NoFile => Lacks(file, b)
        /\ \A l \in Levels : Lacks(data[l], b)

DeletedInv == TypeOK /\ SecretsDrawn /\ DeletedGone

\* Unless a save was cut short: the cache is the file, and has what was handed
\* out; no slot is above the last.
Holds(d, b) ==
    /\ d.factory = b.factory
    /\ b.slot # 0 => b.slot \in DOMAIN d.secrets /\ d.secrets[b.slot] = b.secret

Below(d) == \A s \in DOMAIN d.secrets : s <= d.last

WholeFile ==
    /\ file # Garbage
    /\ file \notin {Absent, Default} => file.factory # 0 /\ Below(file)
    /\ \A b \in blobs : b.factory # 0

WholeCache(l) ==
    /\ mgr[l] \in {"none", "on"} /\ Below(data[l])
    /\ (mgr[l] = "on" \/ writing[l] # Idle) => data[l].factory # 0
    /\ mgr[l] = "on" /\ writing[l] = Idle => file = data[l]
    /\ \A b \in blobs : IF writing[l] = Idle THEN file # Absent /\ Holds(file, b) ELSE Holds(data[l], b)

KeptInv == ~torn => WholeFile /\ \A l \in Levels : WholeCache(l)

IInv == DeletedInv /\ KeptInv

-----------------------------------------------------------------------------
(***************************************************************************)
(* What operations make of the table of secrets.                           *)
(***************************************************************************)
LEMMA DefaultIsData ==
    ASSUME SddAssumption
    PROVE  IsData(Default) /\ DOMAIN Default.secrets = {} /\ Default.factory = 0
<1>1. DOMAIN <<>> = {} /\ <<>> \in [{} -> Nat]
  OBVIOUS
<1>2. QED
  BY <1>1 DEF IsData, Default, SddAssumption

LEMMA MakeData ==
    ASSUME NEW a \in Nat, NEW f, NEW n \in 0..SlotLimit, DOMAIN f \subseteq Slots, f \in [DOMAIN f -> Nat],
           NEW e, e = [factory |-> a, secrets |-> f, last |-> n]
    PROVE  IsData(e) /\ e.factory = a /\ e.secrets = f /\ e.last = n
BY DEF IsData

\* The table with one secret more.
Added(d, s, v) == [d EXCEPT !.secrets = Put(@, s, v), !.last = s]

LEMMA PutData ==
    ASSUME SddAssumption, NEW d, IsData(d), NEW s \in Slots, NEW v \in Nat,
           NEW e, e = Added(d, s, v)
    PROVE  /\ IsData(e) /\ e.factory = d.factory /\ e.last = s
           /\ DOMAIN e.secrets = DOMAIN d.secrets \cup {s} /\ e.secrets[s] = v
           /\ \A x \in DOMAIN d.secrets : x # s => e.secrets[x] = d.secrets[x]
<1>1. PICK a, f, n : d = [factory |-> a, secrets |-> f, last |-> n]
  BY DEF IsData
<1>2. PICK g : g = Put(f, s, v)
  OBVIOUS
<1>3. a \in Nat /\ DOMAIN f \subseteq Slots /\ f \in [DOMAIN f -> Nat]
  BY <1>1 DEF IsData
<1>4. /\ DOMAIN g = DOMAIN f \cup {s} /\ g[s] = v /\ g \in [DOMAIN g -> Nat]
      /\ \A x \in DOMAIN f : x # s => g[x] = f[x]
  BY <1>2, <1>3 DEF Put
<1>5. e = [factory |-> a, secrets |-> g, last |-> s]
  BY <1>1, <1>2 DEF Added
<1>6. s \in 0..SlotLimit /\ DOMAIN g \subseteq Slots
  BY <1>3, <1>4 DEF Slots, SddAssumption
<1>7. IsData(e) /\ e.factory = a /\ e.secrets = g /\ e.last = s
  BY <1>3, <1>4, <1>5, <1>6, MakeData
<1>8. QED
  BY <1>1, <1>4, <1>7

LEMMA WithoutData ==
    ASSUME NEW d, IsData(d), NEW s, NEW e, e = Without(d, s)
    PROVE  /\ IsData(e) /\ e.factory = d.factory /\ e.last = d.last
           /\ DOMAIN e.secrets = DOMAIN d.secrets \ {s}
           /\ \A x \in DOMAIN e.secrets : e.secrets[x] = d.secrets[x]
<1>1. PICK a, f, n : d = [factory |-> a, secrets |-> f, last |-> n]
  BY DEF IsData
<1>2. PICK g : g = [x \in DOMAIN f \ {s} |-> f[x]]
  OBVIOUS
<1>3. a \in Nat /\ DOMAIN f \subseteq Slots /\ f \in [DOMAIN f -> Nat] /\ n \in 0..SlotLimit
  BY <1>1 DEF IsData
<1>4. /\ DOMAIN g = DOMAIN f \ {s} /\ g \in [DOMAIN g -> Nat] /\ DOMAIN g \subseteq Slots
      /\ \A x \in DOMAIN g : g[x] = f[x]
  BY <1>2, <1>3
<1>5. e = [factory |-> a, secrets |-> g, last |-> n]
  BY <1>1, <1>2 DEF Without
<1>6. IsData(e) /\ e.factory = a /\ e.secrets = g /\ e.last = n
  BY <1>3, <1>4, <1>5, MakeData
<1>7. QED
  BY <1>1, <1>4, <1>6

LEMMA RestoredData ==
    ASSUME SddAssumption, NEW d, IsData(d), NEW w, w.slot \in Slots, NEW e, e = Restored(d, w)
    PROVE  /\ IsData(e) /\ e.factory = d.factory
           /\ DOMAIN e.secrets \subseteq DOMAIN d.secrets
           /\ \A x \in DOMAIN e.secrets : e.secrets[x] = d.secrets[x]
<1>1. PICK h : h = Without(d, w.slot)
  OBVIOUS
<1>2. /\ IsData(h) /\ h.factory = d.factory /\ DOMAIN h.secrets \subseteq DOMAIN d.secrets
      /\ \A x \in DOMAIN h.secrets : h.secrets[x] = d.secrets[x]
  BY <1>1, WithoutData
<1>3. PICK a, f, n : h = [factory |-> a, secrets |-> f, last |-> n]
  BY <1>2 DEF IsData
<1>4. PICK m : m = w.slot - 1
  OBVIOUS
<1>5. m \in 0..SlotLimit
  BY <1>4 DEF Slots, SddAssumption
<1>6. e = [factory |-> a, secrets |-> f, last |-> m]
  BY <1>1, <1>3, <1>4 DEF Restored
<1>7. a \in Nat /\ DOMAIN f \subseteq Slots /\ f \in [DOMAIN f -> Nat]
  BY <1>2, <1>3 DEF IsData
<1>8. IsData(e) /\ e.factory = a /\ e.secrets = f
  BY <1>5, <1>6, <1>7, MakeData
<1>9. QED
  BY <1>2, <1>3, <1>8

LEMMA MaxOfSlots ==
    ASSUME NEW n \in Nat, NEW S \in SUBSET (0..n), S # {}
    PROVE  Max(S) \in S /\ \A i \in S : i <= Max(S)
<1> DEFINE T == {n - i : i \in S}
<1>1. T \subseteq Nat /\ T # {}
  <2>1. \A i \in S : n - i \in Nat
    OBVIOUS
  <2>2. QED
    BY <2>1
<1>2. \E x \in T : \A y \in T : ~(<<y, x>> \in OpToRel(<, Nat))
  BY <1>1, NatLessThanWellFounded, WFMin
<1>3. PICK x \in T : \A y \in T : ~(y < x)
  BY <1>1, <1>2 DEF OpToRel
<1>4. PICK m \in S : x = n - m
  BY <1>3
<1>5. \A i \in S : m >= i
  <2> TAKE i \in S
  <2>1. n - i \in T
    OBVIOUS
  <2>2. ~(n - i < n - m)
    BY <1>3, <1>4, <2>1
  <2>3. i \in Int /\ m \in Int
    OBVIOUS
  <2> HIDE DEF T
  <2>4. QED
    BY <2>2, <2>3
<1>6. QED
  BY <1>4, <1>5 DEF Max

\* validate_loaded_data changes nothing in a table whose slots are all below
\* its last.
LEMMA ValidatedData ==
    ASSUME SddAssumption, NEW d, IsData(d), NEW e, e = Validated(d)
    PROVE  /\ IsData(e) /\ e.factory = d.factory /\ e.secrets = d.secrets
           /\ Below(d) => e = d
<1>1. PICK a, f, n : d = [factory |-> a, secrets |-> f, last |-> n]
  BY DEF IsData
<1>2. a \in Nat /\ DOMAIN f \subseteq Slots /\ f \in [DOMAIN f -> Nat] /\ n \in 0..SlotLimit
  BY <1>1 DEF IsData
<1>3. PICK S : S = DOMAIN f \cup {n}
  OBVIOUS
<1>4. S \in SUBSET (0..SlotLimit) /\ S # {} /\ SlotLimit \in Nat
  BY <1>2, <1>3 DEF Slots, SddAssumption
<1>5. Max(S) \in S /\ \A i \in S : i <= Max(S)
  BY <1>4, MaxOfSlots
<1>6. PICK m : m = Max(S)
  OBVIOUS
<1>7. e = [factory |-> a, secrets |-> f, last |-> m]
  BY <1>1, <1>3, <1>6 DEF Validated
<1>8. m \in 0..SlotLimit
  BY <1>4, <1>5, <1>6
<1>9. IsData(e) /\ e.factory = a /\ e.secrets = f
  BY <1>2, <1>7, <1>8, MakeData
<1>10. Below(d) => m = n
  BY <1>1, <1>2, <1>3, <1>5, <1>6, <1>8 DEF Below, Slots, SddAssumption
<1>11. QED
  BY <1>1, <1>7, <1>9, <1>10

LEMMA DecodedData ==
    ASSUME NEW f, IsData(f), f # Garbage, NEW d \in Decoded(f), d # Garbage
    PROVE  /\ IsData(d) /\ d.factory = f.factory /\ DOMAIN d.secrets \subseteq DOMAIN f.secrets
           /\ \A x \in DOMAIN d.secrets : d.secrets[x] = f.secrets[x]
<1>1. CASE d = f
  BY <1>1
<1>2. CASE d # f
  <2>1. PICK S \in kSubset(BufferSlots, DOMAIN f.secrets) :
          d = [f EXCEPT !.secrets = [s \in S |-> f.secrets[s]]]
    BY <1>2 DEF Decoded
  <2>2. S \subseteq DOMAIN f.secrets
    BY <2>1 DEF kSubset
  <2>3. PICK a, g, n : f = [factory |-> a, secrets |-> g, last |-> n]
    BY DEF IsData
  <2>4. a \in Nat /\ DOMAIN g \subseteq Slots /\ g \in [DOMAIN g -> Nat] /\ n \in 0..SlotLimit
    BY <2>3 DEF IsData
  <2>5. PICK h : h = [s \in S |-> g[s]]
    OBVIOUS
  <2>6. DOMAIN h = S /\ h \in [S -> Nat] /\ (\A x \in S : h[x] = g[x]) /\ S \subseteq Slots
    BY <2>2, <2>3, <2>4, <2>5
  <2>7. d = [factory |-> a, secrets |-> h, last |-> n]
    BY <2>1, <2>3, <2>5
  <2>8. IsData(d) /\ d.factory = a /\ d.secrets = h
    BY <2>4, <2>6, <2>7, MakeData
  <2>9. QED
    BY <2>2, <2>3, <2>6, <2>8
<1>3. QED
  BY <1>1, <1>2

-----------------------------------------------------------------------------
(***************************************************************************)
(* A step leaves cache e, save w and manager m.                            *)
(***************************************************************************)
Becomes(l, e, w, m) ==
    /\ data' = [data EXCEPT ![l] = e]
    /\ writing' = [writing EXCEPT ![l] = w]
    /\ mgr' = [mgr EXCEPT ![l] = m]

LEMMA CellFacts ==
    ASSUME SddAssumption, TypeOK, NEW l \in Levels
    PROVE  /\ IsData(data[l]) /\ Saving(file, data[l], writing[l], fresh)
           /\ mgr[l] \in {"none", "on", "off", "poisoned"}
           /\ \A k \in Levels : k = l
           /\ \A e, w, m : Becomes(l, e, w, m) =>
                data'[l] = e /\ writing'[l] = w /\ mgr'[l] = m
BY DEF TypeOK, SddAssumption, Becomes

LEMMA BlobGrows ==
    ASSUME NEW n \in Nat, NEW m \in Nat, n <= m, NEW b, IsBlob(b, n)
    PROVE  IsBlob(b, m)
<1>1. b.secret \in 0..m
  BY DEF IsBlob
<1>2. QED
  BY <1>1 DEF IsBlob

LEMMA TypeStep ==
    ASSUME SddAssumption, TypeOK, NEW l \in Levels, NEW e, NEW w, NEW m, Becomes(l, e, w, m),
           IsData(e), m \in {"none", "on", "off", "poisoned"},
           fresh' \in Nat, fresh' >= fresh, torn' \in BOOLEAN,
           file' \notin NoFile => IsData(file'),
           Saving(file', e, w, fresh'),
           \A b \in blobs' \cup deleted' :
               b \in blobs \cup deleted \/ (IsBlob(b, fresh') /\ (b.slot # 0 => b.factory # 0))
    PROVE  TypeOK'
<1>0. fresh \in Nat /\ \A k \in Levels : k = l
  BY DEF TypeOK, SddAssumption
<1>1. data' = [k \in Levels |-> e] /\ writing' = [k \in Levels |-> w] /\ mgr' = [k \in Levels |-> m]
  BY <1>0 DEF TypeOK, Becomes
<1>2. /\ DOMAIN data' = Levels /\ DOMAIN writing' = Levels
      /\ data' = [k \in Levels |-> data'[k]] /\ writing' = [k \in Levels |-> writing'[k]]
      /\ mgr' \in [Levels -> {"none", "on", "off", "poisoned"}]
  BY <1>1
<1>3. \A k \in Levels : IsData(data'[k]) /\ Saving(file', data'[k], writing'[k], fresh')
  BY <1>1
<1>4. \A b \in blobs' \cup deleted' : IsBlob(b, fresh') /\ (b.slot # 0 => b.factory # 0)
  <2> TAKE b \in blobs' \cup deleted'
  <2>1. CASE b \in blobs \cup deleted
    <3>1. IsBlob(b, fresh) /\ (b.slot # 0 => b.factory # 0)
      BY <2>1 DEF TypeOK
    <3>2. IsBlob(b, fresh')
      BY <1>0, <3>1, BlobGrows
    <3>3. QED
      BY <3>1, <3>2
  <2>2. QED
    BY <2>1
<1>5. QED
  BY <1>2, <1>3, <1>4 DEF TypeOK

\* Every secret of d was in the cache, in the file, or has just been drawn.
From(l, d) ==
    \A s \in DOMAIN d.secrets :
        \/ s \in DOMAIN data[l].secrets /\ d.secrets[s] = data[l].secrets[s]
        \/ file \notin NoFile /\ s \in DOMAIN file.secrets /\ d.secrets[s] = file.secrets[s]
        \/ d.secrets[s] = fresh + 1 /\ fresh' = fresh + 1

\* What is newly deleted is in neither table.
LacksNew(e, f) ==
    \A b \in deleted' :
        \/ b \in deleted
        \/ /\ b.slot # 0 /\ Lacks(e, b)
           /\ f \notin NoFile => Lacks(f, b)

LEMMA GoneStep ==
    ASSUME SddAssumption, DeletedInv, NEW l \in Levels, NEW e, NEW w, NEW m, Becomes(l, e, w, m),
           fresh' \in Nat, fresh' >= fresh,
           IsData(e), From(l, e),
           NEW f, file' = f, f \notin NoFile => IsData(f) /\ From(l, f),
           LacksNew(e, f)
    PROVE  SecretsDrawn' /\ DeletedGone'
<1>0. TypeOK /\ SecretsDrawn /\ DeletedGone
  BY DEF DeletedInv
<1>1. data'[l] = e /\ (\A k \in Levels : k = l) /\ fresh \in Nat /\ IsData(data[l])
  BY <1>0, CellFacts DEF TypeOK
<1>2. ASSUME NEW d, IsData(d), From(l, d)
      PROVE  (\A s \in DOMAIN d.secrets : d.secrets[s] <= fresh') /\ \A b \in deleted : Lacks(d, b)
  <2>1. ASSUME NEW s \in DOMAIN d.secrets PROVE d.secrets[s] <= fresh'
    <3>1. d.secrets[s] \in Nat
      BY <1>2 DEF IsData
    <3>2. d.secrets[s] <= fresh \/ (d.secrets[s] = fresh + 1 /\ fresh' = fresh + 1)
      BY <1>0, <1>2 DEF From, SecretsDrawn, Drawn
    <3>3. QED
      BY <1>1, <3>1, <3>2
  <2>2. ASSUME NEW b \in deleted, b.slot \in DOMAIN d.secrets PROVE d.secrets[b.slot] # b.secret
    <3>1. b.secret \in Nat /\ b.secret <= fresh
      BY <1>0, <1>1 DEF TypeOK, IsBlob
    <3>2. CASE d.secrets[b.slot] = fresh + 1
      BY <1>1, <3>1, <3>2
    <3>3. CASE d.secrets[b.slot] # fresh + 1
      BY <1>0, <1>2, <2>2, <3>3 DEF From, DeletedGone, Lacks
    <3>4. QED
      BY <3>2, <3>3
  <2>3. QED
    BY <2>1, <2>2 DEF Lacks
<1>3. SecretsDrawn'
  BY <1>1, <1>2 DEF SecretsDrawn, Drawn
<1>4. DeletedGone'
  <2> SUFFICES ASSUME NEW b \in deleted'
               PROVE  b.slot # 0 /\ (file' \notin NoFile => Lacks(file', b))
                      /\ \A k \in Levels : Lacks(data'[k], b)
    BY DEF DeletedGone, Lacks, NoFile, Absent, Garbage
  <2>1. CASE b \in deleted
    BY <1>0, <1>1, <1>2, <2>1 DEF DeletedGone
  <2>2. CASE b \notin deleted
    BY <1>1, <2>2 DEF LacksNew
  <2>3. QED
    BY <2>1, <2>2
<1>5. QED
  BY <1>3, <1>4

\* What is left to say of the cache after the step.
LEMMA KeptStep ==
    ASSUME SddAssumption, TypeOK, NEW l \in Levels, NEW e, NEW w, NEW m, Becomes(l, e, w, m),
           ~torn' =>
             /\ file' # Garbage
             /\ file' \notin {Absent, Default} => file'.factory # 0 /\ Below(file')
             /\ \A b \in blobs' : b.factory # 0
             /\ m \in {"none", "on"} /\ Below(e)
             /\ (m = "on" \/ w # Idle) => e.factory # 0
             /\ m = "on" /\ w = Idle => file' = e
             /\ \A b \in blobs' : IF w = Idle THEN file' # Absent /\ Holds(file', b) ELSE Holds(e, b)
    PROVE  KeptInv'
<1>1. data'[l] = e /\ writing'[l] = w /\ mgr'[l] = m /\ \A k \in Levels : k = l
  BY CellFacts
<1>2. SUFFICES ASSUME ~torn' PROVE WholeFile' /\ \A k \in Levels : WholeCache(k)'
  BY DEF KeptInv
<1>3. WholeFile'
  BY <1>2 DEF WholeFile, Below, Absent, Garbage, Default
<1>4. WholeCache(l)'
  BY <1>1, <1>2 DEF WholeCache, Below, Holds, Absent, Idle
<1>5. QED
  BY <1>1, <1>3, <1>4


LEMMA Distinct ==
    /\ Absent # Garbage /\ Default # Absent /\ Default # Garbage
    /\ \A d : IsData(d) => d # Absent /\ d # Garbage
<1>1. DOMAIN Absent = {"kind"} /\ DOMAIN Garbage = {"kind"} /\ DOMAIN Default = {"factory", "secrets", "last"}
  BY DEF Absent, Garbage, Default
<1>2. Absent.kind = "absent" /\ Garbage.kind = "garbage"
  BY DEF Absent, Garbage
<1>3. ASSUME NEW d, IsData(d) PROVE DOMAIN d = {"factory", "secrets", "last"}
  <2>1. PICK a, f, n : d = [factory |-> a, secrets |-> f, last |-> n]
    BY <1>3 DEF IsData
  <2>2. QED
    BY <2>1
<1>4. QED
  BY <1>1, <1>2, <1>3

LEMMA KeepCell ==
    ASSUME TypeOK, NEW l \in Levels
    PROVE  /\ data = [data EXCEPT ![l] = data[l]]
           /\ writing = [writing EXCEPT ![l] = writing[l]]
           /\ mgr = [mgr EXCEPT ![l] = mgr[l]]
BY DEF TypeOK

LEMMA SavingIdle == \A f, d, n : Saving(f, d, Idle, n)
BY DEF Saving, Idle

\* The first step of a save.
LEMMA TruncateKeeps ==
    ASSUME SddAssumption, IInv, NEW l \in Levels, NEW e, NEW w, Truncate(l, e, w), mgr' = mgr,
           IsData(e), From(l, e), w # Idle, fresh' \in Nat, fresh' >= fresh,
           Saving(Default, e, w, fresh'), torn' = torn, blobs' \subseteq blobs, deleted' = deleted,
           ~torn => /\ Below(e) /\ e.factory # 0
                    /\ \A b \in blobs' : Holds(e, b)
    PROVE  IInv'
<1>0. TypeOK /\ DeletedInv /\ KeptInv /\ torn' \in BOOLEAN
  BY DEF IInv, DeletedInv, TypeOK
<1>1. Becomes(l, e, w, mgr[l]) /\ file' = Default
  BY <1>0, KeepCell DEF Truncate, Becomes
<1>2. mgr[l] \in {"none", "on", "off", "poisoned"}
  BY <1>0 DEF TypeOK
<1>3. IsData(Default) /\ DOMAIN Default.secrets = {} /\ From(l, Default)
  BY DefaultIsData DEF From
<1>4. TypeOK'
  <2>1. \A b \in blobs' \cup deleted' : b \in blobs \cup deleted
    OBVIOUS
  <2>2. QED
    BY <1>0, <1>1, <1>2, <1>3, <2>1, TypeStep
<1>5. SecretsDrawn' /\ DeletedGone'
  <2>1. LacksNew(e, Default)
    BY DEF LacksNew
  <2>2. QED
    BY <1>0, <1>1, <1>3, <2>1, GoneStep
<1>6. KeptInv'
  <2>1. ~torn => WholeFile /\ WholeCache(l)
    BY <1>0 DEF KeptInv
  <2>2. ~torn => (\A b \in blobs' : b.factory # 0) /\ mgr[l] \in {"none", "on"}
    BY <2>1 DEF WholeFile, WholeCache
  <2>3. QED
    BY <1>0, <1>1, <2>2, KeptStep, Distinct
<1>7. QED
  BY <1>4, <1>5, <1>6 DEF IInv, DeletedInv

LEMMA InitializeKeeps ==
    ASSUME SddAssumption, IInv, NEW l \in Levels, NEW then, writing[l] = Idle,
           Initialize(l, then), blobs' = blobs, deleted' = deleted
    PROVE  IInv'
<1>0. TypeOK /\ DeletedInv /\ KeptInv /\ torn \in BOOLEAN /\ fresh \in Nat
  BY DEF IInv, DeletedInv, TypeOK
<1>1. IsData(data[l]) /\ mgr[l] \in {"none", "on", "off", "poisoned"}
  BY <1>0, CellFacts
<1>2. ~torn => WholeFile /\ WholeCache(l)
  BY <1>0 DEF KeptInv
<1>3. ~torn => \A b \in blobs : file # Absent /\ Holds(file, b) /\ b.factory # 0
  BY <1>2 DEF WholeFile, WholeCache
<1>4. CASE /\ file \in {Absent, Default} /\ Draws(1)
           /\ Truncate(l, [Default EXCEPT !.factory = fresh + 1], [op |-> "init", then |-> then])
           /\ UNCHANGED <<mgr, torn>>
  <2>1. PICK e : e = [Default EXCEPT !.factory = fresh + 1]
    OBVIOUS
  <2>2. PICK w : w = [op |-> "init", then |-> then]
    OBVIOUS
  <2>3. IsData(e) /\ e.factory = fresh + 1 /\ DOMAIN e.secrets = {}
    <3>1. e = [factory |-> fresh + 1, secrets |-> <<>>, last |-> 0]
      BY <2>1 DEF Default
    <3>2. DOMAIN <<>> = {} /\ <<>> \in [{} -> Nat] /\ 0 \in 0..SlotLimit /\ fresh + 1 \in Nat
      BY <1>0 DEF SddAssumption
    <3>3. QED
      BY <3>1, <3>2 DEF IsData
  <2>4. w.op = "init" /\ w # Idle /\ Saving(Default, e, w, fresh')
    <3>1. w.op = "init"
      BY <2>2
    <3>2. w # Idle
      BY <3>1 DEF Idle
    <3>3. e.factory # 0
      BY <1>0, <2>3
    <3>4. QED
      BY <3>1, <3>2, <3>3 DEF Saving
  <2>5. Truncate(l, e, w) /\ fresh' = fresh + 1 /\ mgr' = mgr /\ torn' = torn
    BY <1>4, <2>1, <2>2 DEF Draws
  <2>6. fresh' \in Nat /\ fresh' >= fresh /\ e.factory # 0
    BY <1>0, <2>3, <2>5
  <2>7. From(l, e) /\ Below(e)
    BY <2>3 DEF From, Below
  <2>8. ~torn => \A b \in blobs : FALSE
    BY <1>3, <1>4, DefaultIsData DEF Holds
  <2>9. QED
    BY <2>3, <2>4, <2>5, <2>6, <2>7, <2>8, TruncateKeeps
<1>5. ASSUME file \notin {Absent, Default}, NEW d \in Decoded(file), file' = file,
             torn' = (torn \/ d # file), d = Garbage, UNCHANGED <<data, writing, fresh>>,
             mgr' = [mgr EXCEPT ![l] = IF then = "none" THEN "off" ELSE @]
      PROVE  IInv'
  <2>1. PICK m : m = IF then = "none" THEN "off" ELSE mgr[l]
    OBVIOUS
  <2>2. Becomes(l, data[l], Idle, m) /\ m \in {"none", "on", "off", "poisoned"}
    <3>1. mgr' = [mgr EXCEPT ![l] = m]
      BY <1>5, <2>1
    <3>2. QED
      BY <1>0, <1>1, <1>5, <2>1, <3>1, KeepCell DEF Becomes
  <2>3. torn'
    <3>1. ~torn => file # Garbage
      BY <1>2 DEF WholeFile
    <3>2. QED
      BY <1>5, <3>1
  <2>4. TypeOK'
    <3>1. torn' \in BOOLEAN /\ fresh' \in Nat /\ fresh' >= fresh
      BY <1>0, <1>5
    <3>2. Saving(file', data[l], Idle, fresh') /\ (file' \notin NoFile => IsData(file'))
      BY <1>0, <1>5, SavingIdle DEF TypeOK
    <3>3. \A b \in blobs' \cup deleted' : b \in blobs \cup deleted
      OBVIOUS
    <3>4. QED
      BY <1>0, <1>1, <2>2, <3>1, <3>2, <3>3, TypeStep
  <2>5. SecretsDrawn' /\ DeletedGone'
    BY <1>0, <1>5 DEF DeletedInv, SecretsDrawn, Drawn, DeletedGone, Lacks, NoFile, Absent, Garbage
  <2>6. KeptInv'
    BY <2>3 DEF KeptInv
  <2>7. QED
    BY <2>4, <2>5, <2>6 DEF IInv, DeletedInv
<1>6. ASSUME file \notin {Absent, Default}, NEW d \in Decoded(file), file' = file,
             torn' = (torn \/ d # file), d # Garbage, UNCHANGED <<writing, fresh>>,
             data' = [data EXCEPT ![l] = Validated(d)], mgr' = [mgr EXCEPT ![l] = "on"]
      PROVE  IInv'
  <2>1. file # Garbage /\ file \notin NoFile /\ IsData(file)
    <3>1. file # Garbage
      BY <1>6 DEF Decoded
    <3>2. QED
      BY <1>0, <1>6, <3>1 DEF NoFile, TypeOK
  <2>2. PICK e : e = Validated(d)
    OBVIOUS
  <2>3. /\ IsData(d) /\ d.factory = file.factory /\ DOMAIN d.secrets \subseteq DOMAIN file.secrets
        /\ \A x \in DOMAIN d.secrets : d.secrets[x] = file.secrets[x]
    BY <1>6, <2>1, DecodedData
  <2>4. IsData(e) /\ e.factory = d.factory /\ e.secrets = d.secrets /\ (Below(d) => e = d)
    BY <2>2, <2>3, ValidatedData
  <2>5. From(l, e) /\ From(l, file)
    BY <2>1, <2>3, <2>4 DEF From
  <2>6. Becomes(l, e, Idle, "on")
    BY <1>0, <1>6, <2>2, KeepCell DEF Becomes
  <2>7. TypeOK'
    <3>1. torn' \in BOOLEAN /\ fresh' \in Nat /\ fresh' >= fresh
      BY <1>0, <1>6
    <3>2. Saving(file', e, Idle, fresh') /\ (file' \notin NoFile => IsData(file'))
      BY <1>6, <2>1, SavingIdle
    <3>3. \A b \in blobs' \cup deleted' : b \in blobs \cup deleted
      OBVIOUS
    <3>4. QED
      BY <1>0, <2>4, <2>6, <3>1, <3>2, <3>3, TypeStep
  <2>8. SecretsDrawn' /\ DeletedGone'
    <3>1. PICK f : f = file
      OBVIOUS
    <3>2. fresh' \in Nat /\ fresh' >= fresh /\ file' = f /\ IsData(f) /\ From(l, f)
      BY <1>0, <1>6, <2>1, <2>5, <3>1
    <3>3. LacksNew(e, f)
      BY DEF LacksNew
    <3>4. QED
      BY <1>0, <2>4, <2>5, <2>6, <3>2, <3>3, GoneStep
  <2>9. KeptInv'
    <3>1. ~torn' => ~torn /\ d = file
      BY <1>0, <1>6
    <3>2. ~torn => file.factory # 0 /\ Below(file)
      BY <1>2, <1>6 DEF WholeFile
    <3>3. ~torn' => e = file /\ e.factory # 0 /\ Below(e)
      BY <2>4, <3>1, <3>2
    <3>4. QED
      BY <1>0, <1>3, <1>6, <2>1, <2>6, <3>1, <3>2, <3>3, KeptStep
  <2>10. QED
    BY <2>7, <2>8, <2>9 DEF IInv, DeletedInv
<1>7. QED
  BY <1>4, <1>5, <1>6 DEF Initialize

LEMMA StartKeeps ==
    ASSUME SddAssumption, IInv, NEW l \in Levels, Start(l) PROVE IInv'
BY InitializeKeeps DEF Start

LEMMA ReinitKeeps ==
    ASSUME SddAssumption, IInv, NEW l \in Levels, Reinit(l) PROVE IInv'
BY InitializeKeeps DEF Reinit, Can

\* What holds of a cache that no save is in the middle of.
LEMMA IdleCache ==
    ASSUME SddAssumption, IInv, NEW l \in Levels, mgr[l] = "on", writing[l] = Idle, ~torn
    PROVE  /\ Below(data[l]) /\ data[l].factory # 0 /\ file = data[l]
           /\ \A b \in blobs : Holds(data[l], b) /\ b.factory # 0
BY DEF IInv, KeptInv, WholeCache, WholeFile

LEMMA NewSecretKeeps ==
    ASSUME SddAssumption, IInv, NEW l \in Levels, NewSecret(l) PROVE IInv'
<1>0. TypeOK /\ fresh \in Nat /\ IsData(data[l])
  BY CellFacts DEF IInv, DeletedInv, TypeOK
<1>1. PICK s : s = data[l].last + 1
  OBVIOUS
<1>2. PICK e : e = Added(data[l], s, fresh + 1)
  OBVIOUS
<1>3. PICK w : w = [op |-> "new", slot |-> s]
  OBVIOUS
<1>4. /\ Can(l) /\ data[l].factory # 0 /\ fresh' = fresh + 1 /\ data[l].last < SlotLimit
      /\ Truncate(l, e, w) /\ UNCHANGED <<mgr, blobs, deleted, torn>>
  BY <1>1, <1>2, <1>3 DEF NewSecret, SlotFor, Draws, Added
<1>5. s \in Slots /\ data[l].last \in Nat
  BY <1>0, <1>1, <1>4 DEF IsData, Slots, SddAssumption
<1>6. /\ IsData(e) /\ e.factory = data[l].factory /\ e.last = s
      /\ DOMAIN e.secrets = DOMAIN data[l].secrets \cup {s} /\ e.secrets[s] = fresh + 1
      /\ \A x \in DOMAIN data[l].secrets : x # s => e.secrets[x] = data[l].secrets[x]
  BY <1>0, <1>2, <1>5, PutData
<1>7. From(l, e)
  BY <1>4, <1>6 DEF From
<1>8. w # Idle /\ Saving(Default, e, w, fresh')
  <2>1. w.op = "new" /\ w.slot = s
    BY <1>3
  <2>2. w # Idle
    BY <2>1 DEF Idle
  <2>3. QED
    BY <1>4, <1>6, <2>1, <2>2 DEF Saving
<1>9. ~torn => Below(e) /\ e.factory # 0 /\ \A b \in blobs' : Holds(e, b)
  <2> SUFFICES ASSUME ~torn PROVE Below(e) /\ e.factory # 0 /\ \A b \in blobs' : Holds(e, b)
    OBVIOUS
  <2>1. Below(data[l]) /\ \A b \in blobs : Holds(data[l], b)
    BY <1>4, IdleCache DEF Can
  <2>2. \A x \in DOMAIN data[l].secrets : x \in Nat /\ x < s
    BY <1>0, <1>1, <1>5, <2>1 DEF Below, IsData, Slots
  <2>3. Below(e)
    BY <1>5, <1>6, <2>2 DEF Below, Slots
  <2>4. \A b \in blobs : Holds(e, b)
    BY <1>5, <1>6, <2>1, <2>2 DEF Holds
  <2>5. QED
    BY <1>4, <1>6, <2>3, <2>4
<1>10. fresh' \in Nat /\ fresh' >= fresh
  BY <1>0, <1>4
<1>11. QED
  BY <1>4, <1>6, <1>7, <1>8, <1>9, <1>10, TruncateKeeps

LEMMA DeleteSecretKeeps ==
    ASSUME SddAssumption, IInv, NEW l \in Levels, NEW b \in blobs, DeleteSecret(l, b) PROVE IInv'
<1>0. TypeOK /\ fresh \in Nat /\ IsData(data[l]) /\ \A k \in Levels : k = l
  BY CellFacts DEF IInv, DeletedInv, TypeOK
<1>1. PICK e : e = Without(data[l], b.slot)
  OBVIOUS
<1>2. PICK w : w = [op |-> "delete", blob |-> b]
  OBVIOUS
<1>3. /\ Can(l) /\ b.slot \in DOMAIN data[l].secrets /\ b.level = l
      /\ Truncate(l, e, w) /\ UNCHANGED <<mgr, deleted, torn, fresh>> /\ blobs' = blobs \ {b}
  BY <1>1, <1>2 DEF DeleteSecret
<1>4. /\ IsData(e) /\ e.factory = data[l].factory /\ e.last = data[l].last
      /\ DOMAIN e.secrets = DOMAIN data[l].secrets \ {b.slot}
      /\ \A x \in DOMAIN e.secrets : e.secrets[x] = data[l].secrets[x]
  BY <1>0, <1>1, WithoutData
<1>5. IsBlob(b, fresh) /\ b.slot \in Slots /\ b.factory # 0
  <2>1. IsBlob(b, fresh) /\ (b.slot # 0 => b.factory # 0)
    BY <1>0 DEF TypeOK
  <2>2. b.slot \in Slots
    BY <1>0, <1>3 DEF IsData
  <2>3. b.slot # 0
    BY <2>2 DEF Slots
  <2>4. QED
    BY <2>1, <2>2, <2>3
<1>6. w # Idle /\ Saving(Default, e, w, fresh')
  <2>1. w.op = "delete" /\ w.blob = b
    BY <1>2
  <2>2. w # Idle
    BY <2>1 DEF Idle
  <2>3. IsBlob(w.blob, fresh') /\ w.blob.slot \in Slots \ DOMAIN e.secrets /\ w.blob.factory # 0
    BY <1>3, <1>4, <1>5, <2>1
  <2>4. QED
    BY <2>1, <2>2, <2>3 DEF Saving
<1>7. From(l, e)
  BY <1>4 DEF From
<1>8. ~torn => Below(e) /\ e.factory # 0 /\ \A c \in blobs' : Holds(e, c)
  <2> SUFFICES ASSUME ~torn PROVE Below(e) /\ e.factory # 0 /\ \A c \in blobs' : Holds(e, c)
    OBVIOUS
  <2>1. Below(data[l]) /\ data[l].factory # 0 /\ \A c \in blobs : Holds(data[l], c)
    BY <1>3, IdleCache DEF Can
  <2>2. ASSUME NEW c \in blobs, c.slot = b.slot PROVE c = b
    <3>1. IsBlob(c, fresh)
      BY <1>0 DEF TypeOK
    <3>2. c.level = b.level
      BY <1>0, <1>3, <3>1 DEF IsBlob
    <3>3. c.factory = b.factory
      BY <2>1 DEF Holds
    <3>4. c.slot # 0 /\ b.slot # 0
      BY <1>5, <2>2 DEF Slots
    <3>5. c.secret = b.secret
      BY <2>1, <2>2, <3>4 DEF Holds
    <3>6. QED
      BY <1>5, <2>2, <3>1, <3>2, <3>3, <3>5 DEF IsBlob
  <2>3. \A c \in blobs' : Holds(e, c)
    BY <1>3, <1>4, <2>1, <2>2 DEF Holds
  <2>4. Below(e)
    BY <1>4, <2>1 DEF Below
  <2>5. QED
    BY <1>4, <2>1, <2>3, <2>4
<1>9. fresh' \in Nat /\ fresh' >= fresh /\ blobs' \subseteq blobs
  BY <1>0, <1>3
<1>10. QED
  BY <1>3, <1>4, <1>6, <1>7, <1>8, <1>9, TruncateKeeps

LEMMA EncryptKeeps ==
    ASSUME SddAssumption, IInv, NEW l \in Levels, Encrypt(l) PROVE IInv'
<1>0. TypeOK /\ SecretsDrawn /\ DeletedGone /\ KeptInv /\ fresh \in Nat /\ IsData(data[l])
      /\ \A k \in Levels : k = l
  BY CellFacts DEF IInv, DeletedInv, TypeOK
<1>1. PICK b : b = Blob(l, 0)
  OBVIOUS
<1>2. blobs' = blobs \cup {b} /\ UNCHANGED <<file, mgr, data, writing, deleted, torn, fresh>>
  BY <1>1 DEF Encrypt
<1>3. b = [level |-> l, slot |-> 0, factory |-> data[l].factory, secret |-> 0]
  BY <1>1 DEF Blob
<1>4. IsBlob(b, fresh) /\ b.slot = 0 /\ b.factory = data[l].factory
  <2>1. 0 \in 0..SlotLimit /\ 0 \in 0..fresh /\ data[l].factory \in Nat
    BY <1>0 DEF SddAssumption, IsData
  <2>2. QED
    BY <1>3, <2>1 DEF IsBlob
<1>5. TypeOK'
  <2>1. \A c \in blobs' \cup deleted' : IsBlob(c, fresh) /\ (c.slot # 0 => c.factory # 0)
    BY <1>0, <1>2, <1>4 DEF TypeOK
  <2>2. QED
    BY <1>0, <1>2, <2>1 DEF TypeOK, NoFile, IsData, Saving, Idle, Default, IsBlob, Slots, Absent,
       Garbage
<1>6. SecretsDrawn' /\ DeletedGone'
  BY <1>0, <1>2 DEF SecretsDrawn, Drawn, DeletedGone, Lacks, NoFile, Absent, Garbage
<1>7. KeptInv'
  <2> SUFFICES ASSUME ~torn PROVE WholeFile' /\ \A k \in Levels : WholeCache(k)'
    BY <1>2 DEF KeptInv
  <2>1. WholeFile /\ WholeCache(l)
    BY <1>0 DEF KeptInv
  <2>2. mgr[l] = "on" /\ writing[l] = Idle
    BY <2>1 DEF WholeCache, Encrypt, Can
  <2>3. file = data[l] /\ data[l].factory # 0
    BY <2>1, <2>2 DEF WholeCache
  <2>4. file # Absent /\ Holds(file, b) /\ b.factory # 0
    BY <1>0, <1>4, <2>3, Distinct DEF Holds
  <2>5. \A c \in blobs' : file # Absent /\ Holds(file, c) /\ c.factory # 0
    BY <1>2, <2>1, <2>2, <2>4 DEF WholeFile, WholeCache
  <2>6. WholeFile'
    BY <1>2, <2>1, <2>5 DEF WholeFile, Below, Absent, Garbage, Default
  <2>7. WholeCache(l)'
    BY <1>2, <2>1, <2>2, <2>5 DEF WholeCache, Below, Holds, Absent, Idle
  <2>8. QED
    BY <1>0, <2>6, <2>7
<1>8. QED
  BY <1>5, <1>6, <1>7 DEF IInv, DeletedInv

LEMMA DeleteUnknownKeeps ==
    ASSUME SddAssumption, IInv, NEW l \in Levels, NEW b \in blobs, DeleteUnknown(l, b) PROVE IInv'
<1>0. TypeOK /\ SecretsDrawn /\ DeletedGone /\ KeptInv
  BY DEF IInv, DeletedInv
<1>1. blobs' \subseteq blobs /\ UNCHANGED <<file, mgr, data, writing, deleted, torn, fresh>>
  BY DEF DeleteUnknown
<1>2. TypeOK'
  <2>1. \A c \in blobs' \cup deleted' : IsBlob(c, fresh) /\ (c.slot # 0 => c.factory # 0)
    BY <1>0, <1>1 DEF TypeOK
  <2>2. QED
    BY <1>0, <1>1, <2>1 DEF TypeOK, NoFile, IsData, Saving, Idle, Default, IsBlob, Slots, Absent,
       Garbage
<1>3. SecretsDrawn' /\ DeletedGone'
  BY <1>0, <1>1 DEF SecretsDrawn, Drawn, DeletedGone, Lacks, NoFile, Absent, Garbage
<1>4. KeptInv'
  BY <1>0, <1>1 DEF KeptInv, WholeFile, WholeCache, Below, Holds, Absent, Garbage, Default, Idle
<1>5. QED
  BY <1>2, <1>3, <1>4 DEF IInv, DeletedInv

LEMMA DeleteAllKeeps ==
    ASSUME SddAssumption, IInv, NEW l \in Levels, DeleteAll(l) PROVE IInv'
<1>0. TypeOK /\ DeletedInv /\ fresh \in Nat /\ mgr[l] \in {"none", "on", "off", "poisoned"}
  BY CellFacts DEF IInv, DeletedInv, TypeOK
<1>1. /\ file' = Absent /\ torn' /\ UNCHANGED <<blobs, deleted, fresh>>
      /\ Becomes(l, Default, Idle, mgr[l])
  BY <1>0, KeepCell DEF DeleteAll, Can, Becomes
<1>2. IsData(Default) /\ From(l, Default)
  BY DefaultIsData DEF From
<1>3. file' \in NoFile /\ Absent \in NoFile /\ fresh' \in Nat /\ fresh' >= fresh /\ torn' \in BOOLEAN
  BY <1>0, <1>1 DEF NoFile, DeleteAll
<1>4. TypeOK'
  <2>1. \A b \in blobs' \cup deleted' : b \in blobs \cup deleted
    BY <1>1
  <2>2. QED
    BY <1>0, <1>1, <1>2, <1>3, <2>1, TypeStep, SavingIdle
<1>5. SecretsDrawn' /\ DeletedGone'
  <2>1. LacksNew(Default, Absent)
    BY <1>1 DEF LacksNew
  <2>2. QED
    BY <1>0, <1>1, <1>2, <1>3, <2>1, GoneStep
<1>6. QED
  BY <1>1, <1>4, <1>5 DEF IInv, DeletedInv, KeptInv

\* What the second step of a save finds: the file is still empty.
LEMMA SavingFacts ==
    ASSUME SddAssumption, IInv, NEW l \in Levels, writing[l] # Idle
    PROVE  /\ file = Default /\ IsData(data[l]) /\ From(l, data[l])
           /\ writing[l].op \in {"init", "new", "delete"}
           /\ writing[l].op = "new" => writing[l].slot \in DOMAIN data[l].secrets /\ data[l].factory # 0
           /\ writing[l].op = "delete" =>
                /\ IsBlob(writing[l].blob, fresh)
                /\ writing[l].blob.slot \in Slots \ DOMAIN data[l].secrets
                /\ writing[l].blob.factory # 0
<1>1. IsData(data[l]) /\ Saving(file, data[l], writing[l], fresh)
  BY CellFacts DEF IInv, DeletedInv
<1>2. QED
  BY <1>1 DEF Saving, From

LEMMA SavedKeeps ==
    ASSUME SddAssumption, IInv, NEW l \in Levels, Saved(l) PROVE IInv'
<1>0. TypeOK /\ DeletedInv /\ fresh \in Nat /\ torn \in BOOLEAN /\ writing[l] # Idle
  BY DEF IInv, DeletedInv, TypeOK, Saved
<1>1. PICK d : d = data[l]
  OBVIOUS
<1>2. PICK w : w = writing[l]
  OBVIOUS
<1>3. /\ file = Default /\ IsData(d) /\ From(l, d) /\ w.op \in {"init", "new", "delete"}
      /\ w.op = "new" => w.slot \in DOMAIN d.secrets /\ d.factory # 0
      /\ w.op = "delete" =>
           IsBlob(w.blob, fresh) /\ w.blob.slot \in Slots \ DOMAIN d.secrets /\ w.blob.factory # 0
  BY <1>0, <1>1, <1>2, SavingFacts
<1>4. file' = d
  BY <1>1, <1>3, Distinct DEF Saved, Written
<1>5. Becomes(l, d, Idle, "on") /\ UNCHANGED <<torn, fresh>>
  BY <1>0, <1>1, KeepCell DEF Saved, Becomes
<1>6. PICK b : b = Blob(l, w.slot)
  OBVIOUS
<1>7. /\ w.op = "new" => blobs' = blobs \cup {b}
      /\ w.op # "new" => blobs' = blobs
      /\ w.op = "delete" => deleted' = deleted \cup {w.blob}
      /\ w.op # "delete" => deleted' = deleted
  BY <1>2, <1>6 DEF Saved
<1>8. w.op = "new" =>
        /\ b.factory = d.factory /\ b.slot = w.slot /\ b.secret = d.secrets[w.slot]
        /\ IsBlob(b, fresh)
  <2> SUFFICES ASSUME w.op = "new"
               PROVE  /\ b.factory = d.factory /\ b.slot = w.slot /\ b.secret = d.secrets[w.slot]
                      /\ IsBlob(b, fresh)
    OBVIOUS
  <2>1. w.slot \in Slots /\ d.secrets[w.slot] \in Nat /\ d.factory \in Nat
    BY <1>3 DEF IsData
  <2>2. d.secrets[w.slot] \in 0..fresh
    BY <1>0, <1>1, <1>3, <2>1 DEF DeletedInv, SecretsDrawn, Drawn
  <2>3. w.slot # 0 /\ w.slot \in 0..SlotLimit
    BY <2>1 DEF Slots, SddAssumption
  <2>4. b = [level |-> l, slot |-> w.slot, factory |-> d.factory, secret |-> d.secrets[w.slot]]
    BY <1>1, <1>6, <2>3 DEF Blob
  <2>5. QED
    BY <2>1, <2>2, <2>3, <2>4 DEF IsBlob
<1>9. fresh' \in Nat /\ fresh' >= fresh /\ torn' \in BOOLEAN
  BY <1>0, <1>5
<1>10. TypeOK'
  <2>1. \A c \in blobs' \cup deleted' :
          c \in blobs \cup deleted \/ (IsBlob(c, fresh') /\ (c.slot # 0 => c.factory # 0))
    BY <1>3, <1>5, <1>7, <1>8
  <2>2. QED
    BY <1>0, <1>3, <1>4, <1>5, <1>9, <2>1, TypeStep, SavingIdle
<1>11. SecretsDrawn' /\ DeletedGone'
  <2>1. LacksNew(d, d)
    BY <1>3, <1>7 DEF LacksNew, Lacks, Slots
  <2>2. QED
    BY <1>0, <1>3, <1>4, <1>5, <1>9, <2>1, GoneStep
<1>12. KeptInv'
  <2>1. ~torn => WholeFile /\ WholeCache(l)
    BY DEF IInv, KeptInv
  <2>2. ~torn => d.factory # 0 /\ Below(d)
    BY <1>0, <1>1, <2>1 DEF WholeCache
  <2>3. ~torn => \A c \in blobs : c.factory # 0 /\ Holds(d, c)
    BY <1>0, <1>1, <2>1 DEF WholeFile, WholeCache
  <2>4. w.op = "new" => Holds(d, b)
    BY <1>3, <1>8 DEF Holds
  <2>5. ~torn => \A c \in blobs' : c.factory # 0 /\ Holds(d, c)
    BY <1>3, <1>7, <1>8, <2>3, <2>4
  <2>6. d # Absent /\ d # Garbage
    BY <1>3, Distinct
  <2>7. QED
    BY <1>0, <1>4, <1>5, <2>2, <2>5, <2>6, KeptStep
<1>13. QED
  BY <1>10, <1>11, <1>12 DEF IInv, DeletedInv

LEMMA SaveFailsKeeps ==
    ASSUME SddAssumption, IInv, NEW l \in Levels, SaveFails(l) PROVE IInv'
<1>0. TypeOK /\ DeletedInv /\ fresh \in Nat /\ writing[l] # Idle
      /\ mgr[l] \in {"none", "on", "off", "poisoned"}
  BY CellFacts DEF IInv, DeletedInv, TypeOK, SaveFails
<1>1. PICK w : w = writing[l]
  OBVIOUS
<1>2. /\ file = Default /\ IsData(data[l]) /\ From(l, data[l]) /\ w.op \in {"init", "new", "delete"}
      /\ w.op = "new" => w.slot \in DOMAIN data[l].secrets
  BY <1>0, <1>1, SavingFacts
<1>3. PICK e : e = IF w.op = "new" THEN Restored(data[l], w) ELSE data[l]
  OBVIOUS
<1>4. PICK m : m = CASE w.op = "delete" -> "poisoned"
                     [] w.op = "init" /\ w.then = "none" -> "off"
                     [] OTHER -> mgr[l]
  OBVIOUS
<1>5. m \in {"none", "on", "off", "poisoned"}
  BY <1>0, <1>4
<1>6. Becomes(l, e, Idle, m)
  <2>1. data' = [data EXCEPT ![l] = e]
    BY <1>1, <1>3 DEF SaveFails
  <2>2. mgr' = [mgr EXCEPT ![l] = m]
    BY <1>1, <1>4 DEF SaveFails
  <2>3. writing' = [writing EXCEPT ![l] = Idle]
    BY DEF SaveFails
  <2>4. QED
    BY <2>1, <2>2, <2>3 DEF Becomes
<1>7. IsData(e) /\ From(l, e)
  <2>1. CASE w.op = "new"
    <3>1. w.slot \in Slots
      BY <1>2, <2>1 DEF IsData
    <3>2. /\ IsData(e) /\ DOMAIN e.secrets \subseteq DOMAIN data[l].secrets
          /\ \A x \in DOMAIN e.secrets : e.secrets[x] = data[l].secrets[x]
      BY <1>2, <1>3, <2>1, <3>1, RestoredData
    <3>3. QED
      BY <3>2 DEF From
  <2>2. CASE w.op # "new"
    BY <1>2, <1>3, <2>2
  <2>3. QED
    BY <2>1, <2>2
<1>8. PICK f : f = file'
  OBVIOUS
<1>9. f \notin NoFile => IsData(f) /\ From(l, f)
  BY <1>2, <1>8, DefaultIsData DEF SaveFails, NoFile, From
<1>10. /\ torn' /\ torn' \in BOOLEAN /\ fresh' = fresh /\ fresh' \in Nat /\ fresh' >= fresh
       /\ deleted' = deleted /\ blobs' = blobs
  BY <1>0 DEF SaveFails
<1>11. TypeOK'
  <2>1. \A b \in blobs' \cup deleted' : b \in blobs \cup deleted
    BY <1>10
  <2>2. QED
    BY <1>0, <1>5, <1>6, <1>7, <1>8, <1>9, <1>10, <2>1, TypeStep, SavingIdle
<1>12. SecretsDrawn' /\ DeletedGone'
  <2>1. LacksNew(e, f)
    BY <1>10 DEF LacksNew
  <2>2. QED
    BY <1>0, <1>6, <1>7, <1>8, <1>9, <1>10, <2>1, GoneStep
<1>13. QED
  BY <1>10, <1>11, <1>12 DEF IInv, DeletedInv, KeptInv

LEMMA RestartKeeps ==
    ASSUME SddAssumption, IInv, Restart PROVE IInv'
<1>0. TypeOK /\ DeletedInv /\ fresh \in Nat /\ torn \in BOOLEAN
  BY DEF IInv, DeletedInv, TypeOK
<1>1. PICK l \in Levels : mgr[l] # "none"
  BY DEF Restart
<1>2. Becomes(l, Default, Idle, "none")
  <2>1. \A k \in Levels : k = l
    BY DEF SddAssumption
  <2>2. DOMAIN mgr = Levels /\ DOMAIN data = Levels /\ DOMAIN writing = Levels
    BY <1>0 DEF TypeOK
  <2>3. QED
    BY <1>0, <2>1, <2>2 DEF Restart, Becomes, TypeOK
<1>3. IsData(Default) /\ From(l, Default) /\ DOMAIN Default.secrets = {}
  BY DefaultIsData DEF From
<1>4. PICK f : f = file
  OBVIOUS
<1>5. /\ file' = f /\ UNCHANGED <<blobs, deleted, fresh>> /\ torn' \in BOOLEAN
      /\ fresh' \in Nat /\ fresh' >= fresh
      /\ ~torn' => ~torn /\ writing[l] = Idle
  <2>1. torn' = (torn \/ \E k \in Levels : writing[k] # Idle)
    BY DEF Restart
  <2>2. torn' \in BOOLEAN /\ (~torn' => ~torn /\ writing[l] = Idle)
    BY <2>1
  <2>3. file' = file /\ UNCHANGED <<blobs, deleted, fresh>>
    BY DEF Restart
  <2>4. QED
    BY <1>0, <1>4, <2>2, <2>3
<1>6. f \notin NoFile => IsData(f) /\ From(l, f)
  BY <1>0, <1>4 DEF TypeOK, From
<1>7. TypeOK'
  <2>1. \A b \in blobs' \cup deleted' : b \in blobs \cup deleted
    BY <1>5
  <2>2. QED
    BY <1>0, <1>2, <1>3, <1>5, <1>6, <2>1, TypeStep, SavingIdle
<1>8. SecretsDrawn' /\ DeletedGone'
  <2>1. LacksNew(Default, f)
    BY <1>5 DEF LacksNew
  <2>2. QED
    BY <1>0, <1>2, <1>3, <1>5, <1>6, <2>1, GoneStep
<1>9. KeptInv'
  <2>1. ~torn => WholeFile /\ WholeCache(l)
    BY DEF IInv, KeptInv
  <2>2. ~torn' => \A b \in blobs' : file' # Absent /\ Holds(file', b) /\ b.factory # 0
    BY <1>4, <1>5, <2>1 DEF WholeFile, WholeCache
  <2>3. ~torn' => file' # Garbage /\ (file' \notin {Absent, Default} => file'.factory # 0 /\ Below(file'))
    BY <1>4, <1>5, <2>1 DEF WholeFile
  <2>4. Below(Default)
    BY <1>3 DEF Below
  <2>5. QED
    BY <1>0, <1>2, <2>2, <2>3, <2>4, KeptStep
<1>10. QED
  BY <1>7, <1>8, <1>9 DEF IInv, DeletedInv

LEMMA SddStep ==
    ASSUME SddAssumption, IInv, [Next]_vars PROVE IInv'
<1>1. CASE UNCHANGED vars
  BY <1>1 DEF vars, IInv, DeletedInv, KeptInv, TypeOK, SecretsDrawn, DeletedGone, NoFile, IsData,
     Saving, IsBlob, Slots, Drawn, Lacks, WholeFile, WholeCache, Below, Holds, Absent, Garbage,
     Default, Idle
<1>2. ASSUME NEW l \in Levels, Start(l) \/ NewSecret(l) \/ Reinit(l) \/ Encrypt(l)
      PROVE  IInv'
  BY <1>2, StartKeeps, NewSecretKeeps, ReinitKeeps, EncryptKeeps
<1>3. ASSUME NEW l \in Levels, NEW b \in blobs, DeleteSecret(l, b) \/ DeleteUnknown(l, b)
      PROVE  IInv'
  BY <1>3, DeleteSecretKeeps, DeleteUnknownKeeps
<1>4. ASSUME NEW l \in Levels, DeleteAll(l) \/ Saved(l) \/ SaveFails(l)
      PROVE  IInv'
  BY <1>4, DeleteAllKeeps, SavedKeeps, SaveFailsKeeps
<1>5. QED
  BY <1>1, <1>2, <1>3, <1>4, RestartKeeps DEF Next

LEMMA SddInit ==
    ASSUME SddAssumption, Init PROVE IInv
<1>1. IsData(Default) /\ DOMAIN Default.secrets = {} /\ Absent \in NoFile
  BY DefaultIsData DEF NoFile
<1>2. TypeOK
  BY <1>1, SavingIdle DEF TypeOK, Init
<1>3. SecretsDrawn /\ DeletedGone
  BY <1>1 DEF SecretsDrawn, Drawn, DeletedGone, Init
<1>4. KeptInv
  BY <1>1, Distinct DEF KeptInv, WholeFile, WholeCache, Below, Init
<1>5. QED
  BY <1>2, <1>3, <1>4 DEF IInv, DeletedInv

\* With one KeyMint instance, a key whose slot was deleted never decrypts
\* again: whatever saves fail, wherever the process dies, and though failed
\* saves and resets let slots be used again.
THEOREM DeletionIsFinal == SddAssumption => (Spec => []DeletedStaysDeleted)
<1> SUFFICES ASSUME SddAssumption PROVE Spec => []DeletedStaysDeleted
  OBVIOUS
<1>1. Init => IInv
  BY SddInit
<1>2. IInv /\ [Next]_vars => IInv'
  BY SddStep
<1>3. IInv => DeletedStaysDeleted
  <2> SUFFICES ASSUME IInv, NEW b \in deleted PROVE ~Decrypts(b)
    BY DEF DeletedStaysDeleted
  <2>1. IsBlob(b, fresh) /\ (b.slot # 0 => b.factory # 0) /\ b.slot # 0 /\ b.level \in Levels
    BY DEF IInv, DeletedInv, TypeOK, DeletedGone, IsBlob
  <2>2. Lacks(data[b.level], b)
    BY <2>1 DEF IInv, DeletedInv, DeletedGone
  <2>3. QED
    BY <2>1, <2>2 DEF Decrypts, Lacks
<1>4. QED
  BY <1>1, <1>2, <1>3, PTL DEF Spec

\* With one KeyMint instance, a key that was returned and not deleted
\* decrypts whenever the instance is up, unless a save was cut short, the
\* file was read in part or the device was reset.
THEOREM KeysAreKept == SddAssumption => (Spec => []KeysSurvive)
<1> SUFFICES ASSUME SddAssumption PROVE Spec => []KeysSurvive
  OBVIOUS
<1>1. Init => IInv
  BY SddInit
<1>2. IInv /\ [Next]_vars => IInv'
  BY SddStep
<1>3. IInv => KeysSurvive
  <2> SUFFICES ASSUME IInv, ~torn, NEW b \in blobs, mgr[b.level] = "on" PROVE Decrypts(b)
    BY DEF KeysSurvive
  <2>1. b.level \in Levels
    BY DEF IInv, DeletedInv, TypeOK, IsBlob
  <2>2. WholeCache(b.level)
    BY <2>1 DEF IInv, KeptInv
  <2>3. Holds(data[b.level], b)
    BY <2>2 DEF WholeCache
  <2>4. QED
    BY <2>3 DEF Decrypts, Holds
<1>4. QED
  BY <1>1, <1>2, <1>3, PTL DEF Spec

-----------------------------------------------------------------------------
(***************************************************************************)
(* Patch levels and boot key, for any builds, edits and requests.          *)
(***************************************************************************)
\* The daemon has a runtime configuration, and may have instances, from when
\* its start-up is over.
UpHasRuntime ==
    /\ daemon.at \in {"up", "reload"} => run # Patch!None
    /\ daemon.at \notin {"up", "reload"} =>
         run = Patch!None /\ \A l \in Levels : ta[l] = Patch!None

RuntimeInv == UpHasRuntime /\ Patch!InstancesFollowRuntime

LEMMA RuntimeIsSome == \A r, t : [trust |-> r, intent |-> t] # Patch!None
BY DEF Patch!None

LEMMA RuntimeInit == Patch!Init => RuntimeInv
BY DEF Patch!Init, RuntimeInv, UpHasRuntime, Patch!InstancesFollowRuntime

LEMMA RuntimeNext == RuntimeInv /\ [Patch!Next]_Patch!vars => RuntimeInv'
<1> SUFFICES ASSUME RuntimeInv, [Patch!Next]_Patch!vars PROVE RuntimeInv'
  OBVIOUS
<1> USE DEF RuntimeInv, UpHasRuntime, Patch!InstancesFollowRuntime
<1>1. CASE UNCHANGED Patch!vars
  BY <1>1 DEF Patch!vars
<1>2. ASSUME NEW v \in Requests, Patch!WebStart(v) PROVE RuntimeInv'
  BY <1>2 DEF Patch!WebStart
<1>3. CASE Patch!WebWrites
  BY <1>3 DEF Patch!WebWrites
<1>4. CASE Patch!WebConfigures
  BY <1>4 DEF Patch!WebConfigures
<1>5. CASE Patch!WebRemoves \/ Patch!WebKilled
  BY <1>5 DEF Patch!WebRemoves, Patch!WebKilled
<1>6. CASE Patch!Prepare
  BY <1>6 DEF Patch!Prepare
<1>7. ASSUME NEW k, NEW d, Patch!PinKey(k, d) PROVE RuntimeInv'
  BY <1>7 DEF Patch!PinKey
<1>8. CASE Patch!Install
  BY <1>8, RuntimeIsSome DEF Patch!Install, Patch!Exits
<1>9. CASE Patch!Reload
  BY <1>9 DEF Patch!Reload
<1>10. CASE Patch!Apply
  <2>1. daemon.at = "reload" /\ daemon'.at = "up" /\ run # Patch!None
    BY <1>10 DEF Patch!Apply
  <2>2. CASE UNCHANGED <<run, ta>>
    BY <2>1, <2>2
  <2>3. CASE /\ run' = Patch!Candidate(daemon.trust)
             /\ ta' = [l \in Levels |->
                         IF ta[l] # Patch!None
                            /\ Patch!UpdatesLevels(run.trust, Patch!Candidate(daemon.trust).trust)
                         THEN Patch!Wire(Patch!Candidate(daemon.trust).trust) ELSE ta[l]]
    <3>1. run' # Patch!None
      BY <2>1, <2>3, RuntimeIsSome DEF Patch!Candidate
    <3>2. ASSUME NEW l \in Levels, ta'[l] # Patch!None PROVE ta'[l] = Patch!Wire(run'.trust)
      <4>1. PICK c : c = Patch!Candidate(daemon.trust)
        OBVIOUS
      <4>2. ta[l] # Patch!None /\ ta[l] = Patch!Wire(run.trust)
        BY <2>3, <3>2
      <4>3. CASE Patch!UpdatesLevels(run.trust, c.trust)
        BY <2>3, <4>1, <4>2, <4>3
      <4>4. CASE ~Patch!UpdatesLevels(run.trust, c.trust)
        <5>1. ta'[l] = ta[l] /\ run' = c
          BY <2>3, <4>1, <4>4
        <5>2. Patch!Wire(run.trust) = Patch!Wire(c.trust)
          BY <4>4 DEF Patch!UpdatesLevels, Patch!Wire
        <5>3. QED
          BY <4>2, <5>1, <5>2
      <4>5. QED
        BY <4>3, <4>4
    <3>3. QED
      BY <2>1, <3>1, <3>2
  <2>4. QED
    BY <1>10, <2>2, <2>3 DEF Patch!Apply
<1>11. ASSUME NEW l \in Levels, Patch!OpenInstance(l) PROVE RuntimeInv'
  BY <1>11 DEF Patch!OpenInstance
<1>12. CASE Patch!DaemonKilled
  BY <1>12 DEF Patch!DaemonKilled
<1>13. ASSUME NEW b, Patch!Reboot(b) PROVE RuntimeInv'
  BY <1>13 DEF Patch!Reboot
<1>14. ASSUME NEW t, Patch!Edit(t) PROVE RuntimeInv'
  BY <1>14 DEF Patch!Edit
<1>15. QED
  BY <1>1, <1>2, <1>3, <1>4, <1>5, <1>6, <1>7, <1>8, <1>9, <1>10, <1>11, <1>12, <1>13, <1>14
     DEF Patch!Next

\* For any builds, edits, requests and levels: every live KeyMint instance has
\* the patch levels of the runtime configuration, whether it was opened before
\* or after a reload, and whatever reload compared equal.
THEOREM InstancesFollow == Patch!Spec => []InstancesFollowRuntime
<1>1. RuntimeInv => InstancesFollowRuntime
  BY DEF RuntimeInv, InstancesFollowRuntime
<1>2. QED
  BY <1>1, RuntimeInit, RuntimeNext, PTL DEF Patch!Spec


(***************************************************************************)
(* The boot key.  What a start-up would use is the configured key or the   *)
(* saved one; a start-up that has pinned its key would use that again,     *)
(* unless the config says "random".                                        *)
(***************************************************************************)
WouldUse == IF vb.spec # Patch!Auto THEN vb.spec ELSE vb.saved

KeyType ==
    /\ vb = [spec |-> vb.spec, saved |-> vb.saved, served |-> vb.served]
    /\ vb.spec \in Nat /\ vb.saved \in Nat /\ vb.served \in Nat

KeyInv ==
    /\ KeyType
    /\ daemon.at = "pinned" => daemon.key \in Nat \ {0}
    /\ vb.spec # Patch!Random =>
         /\ daemon.at = "pinned" => daemon.key = WouldUse
         /\ vb.served # Patch!NoKey => vb.served = WouldUse

LEMMA KeyInit == Patch!Init => KeyInv
BY DEF Patch!Init, KeyInv, KeyType, WouldUse, Patch!Auto, Patch!Random, Patch!NoKey

LEMMA PinKeyKeeps ==
    ASSUME Patch!PatchAssumption, KeyInv, NEW k \in {Patch!NoKey, 1}, NEW d \in RandomKeys,
           Patch!PinKey(k, d)
    PROVE  KeyInv'
<1>1. PICK key : key = Patch!StableKey(k, d)
  OBVIOUS
<1>2. key \in Nat \ {0} /\ (vb.spec # Patch!Random /\ WouldUse # 0 => key = WouldUse)
  <2>1. d \in Nat \ {0} /\ k \in Nat
    BY DEF Patch!PatchAssumption, Patch!Auto, Patch!NoKey
  <2>2. QED
    BY <1>1, <2>1 DEF KeyInv, KeyType, Patch!StableKey, Patch!Auto, Patch!NoKey, WouldUse
<1>4. /\ vb' = [vb EXCEPT !.saved = IF vb.spec = Patch!Auto THEN key ELSE @]
      /\ daemon'.key = key
  BY <1>1 DEF Patch!PinKey
<1>5. vb' = [spec |-> vb.spec, saved |-> IF vb.spec = Patch!Auto THEN key ELSE vb.saved,
             served |-> vb.served]
  <2>1. PICK a, b, c : vb = [spec |-> a, saved |-> b, served |-> c]
    BY DEF KeyInv, KeyType
  <2>2. QED
    BY <1>4, <2>1
<1>6. KeyType'
  BY <1>2, <1>5 DEF KeyInv, KeyType
<1>7. vb.spec # Patch!Random => WouldUse' = key
  BY <1>2, <1>5 DEF WouldUse, KeyInv, KeyType, Patch!Auto
<1>8. vb'.served = vb.served /\ vb'.spec = vb.spec
  BY <1>5
<1>9. QED
  BY <1>2, <1>4, <1>6, <1>7, <1>8 DEF KeyInv, KeyType, Patch!NoKey

LEMMA InstallKeepsKey ==
    ASSUME KeyInv, Patch!Install
    PROVE  KeyInv' /\ (vb.served # Patch!NoKey /\ vb.spec # Patch!Random => vb'.served = vb.served)
<1>1. daemon.at = "pinned" /\ daemon.key \in Nat \ {0}
      /\ (vb.spec # Patch!Random => daemon.key = WouldUse)
  BY DEF KeyInv, Patch!Install
<1>2. CASE vb' = vb /\ daemon'.at = "down"
  BY <1>2 DEF KeyInv, KeyType, WouldUse
<1>3. CASE /\ vb' = [vb EXCEPT !.spec = IF daemon.random THEN daemon.key ELSE @,
                               !.served = daemon.key]
           /\ daemon' = [at |-> "up"]
  <2>1. vb' = [spec |-> IF daemon.random THEN daemon.key ELSE vb.spec, saved |-> vb.saved,
               served |-> daemon.key]
    <3>1. PICK a, b, c : vb = [spec |-> a, saved |-> b, served |-> c]
      BY DEF KeyInv, KeyType
    <3>2. QED
      BY <1>3, <3>1
  <2>2. KeyType'
    BY <1>1, <2>1 DEF KeyInv, KeyType
  <2>3. (vb'.spec # Patch!Random => WouldUse' = daemon.key) /\ vb'.served = daemon.key
    BY <1>1, <2>1 DEF WouldUse, Patch!Auto
  <2>4. daemon'.at # "pinned"
    BY <1>3
  <2>5. QED
    BY <1>1, <2>2, <2>3, <2>4 DEF KeyInv
<1>4. QED
  BY <1>2, <1>3 DEF Patch!Install, Patch!Exits

LEMMA KeyNext ==
    ASSUME Patch!PatchAssumption, KeyInv, [Patch!Next]_Patch!vars
    PROVE  KeyInv' /\ (vb.served # Patch!NoKey /\ vb.spec # Patch!Random => vb'.served = vb.served)
<1>1. CASE vb' = vb /\ (daemon' = daemon \/ daemon'.at # "pinned")
  BY <1>1 DEF KeyInv, KeyType, WouldUse
<1>2. ASSUME NEW k \in {Patch!NoKey, 1}, NEW d \in RandomKeys, Patch!PinKey(k, d)
      PROVE  KeyInv' /\ vb'.served = vb.served
  <2>1. KeyInv'
    BY <1>2, PinKeyKeeps
  <2>2. PICK a, b, c : vb = [spec |-> a, saved |-> b, served |-> c]
    BY DEF KeyInv, KeyType
  <2>3. PICK x : vb' = [vb EXCEPT !.saved = x]
    BY <1>2 DEF Patch!PinKey
  <2>4. QED
    BY <2>1, <2>2, <2>3
<1>3. CASE Patch!Install
  BY <1>3, InstallKeepsKey
<1>4. ASSUME ~Patch!Install, \A k \in {Patch!NoKey, 1}, d \in RandomKeys : ~Patch!PinKey(k, d)
      PROVE  vb' = vb /\ (daemon' = daemon \/ daemon'.at # "pinned")
  <2>1. CASE UNCHANGED Patch!vars
    BY <2>1 DEF Patch!vars
  <2>2. CASE Patch!Prepare \/ Patch!Reload \/ Patch!Apply \/ Patch!DaemonKilled
    BY <2>2 DEF Patch!Prepare, Patch!Reload, Patch!Apply, Patch!DaemonKilled
  <2>3. CASE Patch!WebWrites \/ Patch!WebConfigures \/ Patch!WebRemoves \/ Patch!WebKilled
    BY <2>3 DEF Patch!WebWrites, Patch!WebConfigures, Patch!WebRemoves, Patch!WebKilled
  <2>4. CASE \/ \E v \in Requests : Patch!WebStart(v)
             \/ \E l \in Levels : Patch!OpenInstance(l)
             \/ \E b \in DOMAIN Builds : Patch!Reboot(b)
             \/ \E t \in Edits : Patch!Edit(t)
    BY <2>4 DEF Patch!WebStart, Patch!OpenInstance, Patch!Reboot, Patch!Edit
  <2>5. QED
    BY <1>4, <2>1, <2>2, <2>3, <2>4 DEF Patch!Next
<1>5. QED
  BY <1>1, <1>2, <1>3, <1>4

\* For any builds, edits and requests, and wherever the first key came from:
\* once a boot key was served it is served for good, whatever start-ups were
\* killed between pinning, saving and serving it, unless the config asks for
\* a random one at every start.
THEOREM BootKeyNeverChanges == Patch!PatchAssumption => (Patch!Spec => BootKeyStable)
<1>0. SUFFICES ASSUME Patch!PatchAssumption PROVE Patch!Spec => BootKeyStable
  OBVIOUS
<1>1. KeyInv /\ [Patch!Next]_Patch!vars => KeyInv'
  BY <1>0, KeyNext
<1>2. KeyInv /\ [Patch!Next]_Patch!vars =>
        [vb.served # Patch!NoKey /\ vb.spec # Patch!Random => vb'.served = vb.served]_Patch!vars
  BY <1>0, KeyNext
<1>3. QED
  BY <1>1, <1>2, KeyInit, PTL DEF Patch!Spec, BootKeyStable, Patch!BootKeyStable


(***************************************************************************)
(* The saved defaults.  A property that differs from the build's is backed *)
(* by a snapshot of this build, or was written for a hand edit; the web    *)
(* UI's command removes the snapshot only once the properties are what it  *)
(* says.  Both processes change them under the lock.                       *)
(***************************************************************************)
SnapshotOld ==
    /\ build \in Nat /\ byHand \in BOOLEAN
    /\ snap # Patch!None => snap.fp \in Nat /\ snap.fp <= build /\ snap.byHand \in BOOLEAN

Unsaved == ~Patch!Current /\ ~byHand => prop = Patch!Defaults

SnapValues == [system |-> snap.system, vendor |-> snap.vendor]

WebStep ==
    /\ web.at \in {"idle", "write", "config", "remove"}
    /\ web.at = "idle" <=> web = Patch!IdleStep
    /\ web.at # "idle" => lock = "web" /\ Patch!Current
    /\ web.at \in {"write", "config"} =>
         /\ web = [at |-> web.at, before |-> web.before, value |-> web.value, desired |-> web.desired]
         /\ web.value = Patch!Auto => web.desired = SnapValues
    /\ web.at = "config" => prop = web.desired
    /\ web.at = "remove" => prop = SnapValues
    /\ web.at \in {"config", "remove"} /\ snap.byHand => byHand

DaemonLocked == daemon.at \in {"boot", "pinned", "reload"} => lock = "daemon"

DefaultsInv == SnapshotOld /\ Patch!DefaultsKept /\ Unsaved /\ WebStep /\ DaemonLocked

LEMMA SnapIsSome ==
    \A p : LET s == Patch!Saved(p)
           IN  /\ s # Patch!None /\ s.fp = build /\ s.byHand = byHand
               /\ s.system = p.system /\ s.vendor = p.vendor
BY DEF Patch!Saved, Patch!None

LEMMA DefaultsInit == Patch!Init => DefaultsInv
<1> SUFFICES ASSUME Patch!Init PROVE DefaultsInv
  OBVIOUS
<1>1. /\ build = 1 /\ byHand = FALSE /\ snap = Patch!None /\ prop = Patch!Defaults
      /\ web = Patch!IdleStep /\ daemon.at = "down"
  BY DEF Patch!Init
<1>2. ~Patch!Current /\ SnapshotOld
  BY <1>1 DEF Patch!Current, SnapshotOld
<1>3. WebStep /\ DaemonLocked
  BY <1>1 DEF WebStep, DaemonLocked, Patch!IdleStep
<1>4. QED
  BY <1>1, <1>2, <1>3 DEF DefaultsInv, Patch!DefaultsKept, Unsaved

\* Steps that leave properties, snapshot and the command alone.
LEMMA DefaultsFrame ==
    ASSUME DefaultsInv, UNCHANGED <<build, prop, snap, byHand, web>>,
           lock' = lock \/ web = Patch!IdleStep,
           daemon'.at \in {"boot", "pinned", "reload"} => lock' = "daemon"
    PROVE  DefaultsInv'
<1>1. web.at # "idle" => lock' = lock
  BY DEF DefaultsInv, WebStep
<1>2. QED
  BY <1>1 DEF DefaultsInv, SnapshotOld, Patch!DefaultsKept, Unsaved, WebStep, DaemonLocked,
     Patch!Current, Patch!Defaults, SnapValues, Patch!IdleStep

\* A step of the daemon, or its end, that writes the property.
LEMMA SystemWriteFrame ==
    ASSUME DefaultsInv, UNCHANGED <<build, snap, web>>, byHand' \in BOOLEAN,
           daemon.at \in {"pinned", "reload"}, daemon'.at \notin {"boot", "pinned", "reload"},
           byHand => byHand',
           prop' = prop \/ byHand' \/ Patch!Current
    PROVE  DefaultsInv'
<1>1. lock = "daemon" /\ web = Patch!IdleStep /\ web.at = "idle"
  BY DEF DefaultsInv, WebStep, DaemonLocked
<1>2. SnapshotOld' /\ Patch!DefaultsKept'
  BY DEF DefaultsInv, SnapshotOld, Patch!DefaultsKept, Patch!Current, Patch!Defaults
<1>3. Unsaved'
  BY DEF DefaultsInv, SnapshotOld, Unsaved, Patch!Current, Patch!Defaults
<1>4. WebStep' /\ DaemonLocked'
  BY <1>1 DEF WebStep, DaemonLocked, Patch!IdleStep
<1>5. QED
  BY <1>2, <1>3, <1>4 DEF DefaultsInv

LEMMA WebStartKeeps ==
    ASSUME Patch!PatchAssumption, DefaultsInv, NEW v \in Requests, Patch!WebStart(v)
    PROVE  DefaultsInv'
<1>0. SnapshotOld /\ Patch!DefaultsKept /\ Unsaved /\ WebStep /\ DaemonLocked
  BY DEF DefaultsInv
<1>1. /\ snap' = Patch!Recorded /\ lock' = "web" /\ lock = "free"
      /\ UNCHANGED <<build, prop, daemon, byHand>>
  BY DEF Patch!WebStart
<1>2. \/ Patch!Current /\ snap' = snap
      \/ ~Patch!Current /\ \E p \in {prop, Patch!Defaults} : snap' = Patch!Saved(p)
  BY <1>1 DEF Patch!Recorded
<1>3. Patch!Current' /\ SnapshotOld'
  BY <1>0, <1>1, <1>2, SnapIsSome DEF Patch!Current, SnapshotOld
<1>4. Patch!DefaultsKept'
  <2>1. CASE Patch!Current /\ snap' = snap
    BY <1>0, <1>1, <2>1 DEF Patch!DefaultsKept, Patch!Current, Patch!Defaults
  <2>2. ASSUME ~Patch!Current, NEW p \in {prop, Patch!Defaults}, snap' = Patch!Saved(p)
        PROVE  Patch!DefaultsKept'
    <3>1. ~byHand => p = Patch!Defaults
      BY <1>0, <2>2 DEF Unsaved
    <3>2. Patch!Defaults' = Patch!Defaults
      BY <1>1 DEF Patch!Defaults
    <3>3. snap'.byHand = byHand /\ snap'.system = p.system /\ snap'.vendor = p.vendor
      BY <2>2, SnapIsSome
    <3>4. QED
      BY <3>1, <3>2, <3>3 DEF Patch!DefaultsKept
  <2>3. QED
    BY <1>2, <2>1, <2>2
<1>5. PICK b, d, w : /\ web' = [at |-> "write", before |-> b, value |-> w, desired |-> d]
                     /\ w = Patch!SyncDate(v, Patch!Recorded)
                     /\ v = Patch!Auto => d = [system |-> Patch!Recorded.system,
                                               vendor |-> Patch!Recorded.vendor]
  BY DEF Patch!WebStart
<1>6. w = Patch!Auto => v = Patch!Auto
  <2>1. v \in Nat
    BY DEF Patch!PatchAssumption
  <2>2. v % 10 = 5 => v # 4
    BY <2>1
  <2>3. QED
    BY <1>5, <2>1, <2>2 DEF Patch!SyncDate, Patch!Auto
<1>7. WebStep'
  <2>1. w = Patch!Auto => d = SnapValues'
    BY <1>1, <1>5, <1>6 DEF SnapValues
  <2>2. web'.at = "write" /\ web'.value = w /\ web'.desired = d /\ web' # Patch!IdleStep
    BY <1>5 DEF Patch!IdleStep
  <2>3. web' = [at |-> web'.at, before |-> web'.before, value |-> web'.value, desired |-> web'.desired]
    BY <1>5
  <2>4. QED
    BY <1>1, <1>3, <2>1, <2>2, <2>3 DEF WebStep, Patch!Auto, Patch!IdleStep
<1>8. Unsaved' /\ DaemonLocked'
  BY <1>0, <1>1, <1>3 DEF Unsaved, DaemonLocked
<1>9. QED
  BY <1>3, <1>4, <1>7, <1>8 DEF DefaultsInv

LEMMA WebWritesKeeps == ASSUME DefaultsInv, Patch!WebWrites PROVE DefaultsInv'
<1>0. SnapshotOld /\ Patch!DefaultsKept /\ Unsaved /\ WebStep /\ DaemonLocked
  BY DEF DefaultsInv
<1>1. /\ web.at = "write" /\ Patch!Current /\ lock = "web" /\ snap.byHand \in BOOLEAN
      /\ UNCHANGED <<build, snap, daemon>> /\ byHand' = (byHand \/ snap.byHand)
      /\ web.value = Patch!Auto => web.desired = SnapValues
  BY <1>0 DEF Patch!WebWrites, WebStep, SnapshotOld, Patch!Current
<1>2. SnapshotOld' /\ Patch!Current' /\ Patch!DefaultsKept' /\ Unsaved' /\ SnapValues' = SnapValues
  BY <1>0, <1>1 DEF SnapshotOld, Patch!Current, Patch!DefaultsKept, Unsaved, Patch!Defaults,
     SnapValues
<1>3. CASE Patch!WebEnds
  BY <1>0, <1>1, <1>2, <1>3 DEF Patch!WebEnds, DefaultsInv, WebStep, DaemonLocked, Patch!IdleStep
<1>4. CASE prop' = web.desired /\ web' = [web EXCEPT !.at = "config"] /\ lock' = lock
  <2>1. PICK b, w, d : web = [at |-> "write", before |-> b, value |-> w, desired |-> d]
    BY <1>0, <1>1 DEF WebStep
  <2>2. web' = [at |-> "config", before |-> b, value |-> w, desired |-> d]
    BY <1>4, <2>1
  <2>3. web'.at = "config" /\ web'.value = web.value /\ web'.desired = web.desired /\ web' # Patch!IdleStep
    BY <2>1, <2>2 DEF Patch!IdleStep
  <2>4. web' = [at |-> web'.at, before |-> web'.before, value |-> web'.value, desired |-> web'.desired]
    BY <2>2
  <2>5. WebStep'
    BY <1>1, <1>2, <1>4, <2>3, <2>4 DEF WebStep, Patch!Auto, Patch!IdleStep
  <2>6. QED
    BY <1>0, <1>1, <1>2, <1>4, <2>5 DEF DefaultsInv, DaemonLocked
<1>5. QED
  BY <1>3, <1>4 DEF Patch!WebWrites, Patch!PairWrite

LEMMA WebConfiguresKeeps == ASSUME DefaultsInv, Patch!WebConfigures PROVE DefaultsInv'
<1>0. SnapshotOld /\ Patch!DefaultsKept /\ Unsaved /\ WebStep /\ DaemonLocked
  BY DEF DefaultsInv
<1>1. /\ web.at = "config" /\ Patch!Current /\ lock = "web" /\ (snap.byHand => byHand)
      /\ UNCHANGED <<build, snap, daemon, byHand>> /\ prop = web.desired
      /\ web.value = Patch!Auto => web.desired = SnapValues
  BY <1>0 DEF Patch!WebConfigures, WebStep
<1>2. SnapshotOld' /\ Patch!Current' /\ Patch!DefaultsKept' /\ Unsaved' /\ SnapValues' = SnapValues
  BY <1>0, <1>1 DEF SnapshotOld, Patch!Current, Patch!DefaultsKept, Unsaved, Patch!Defaults,
     SnapValues
<1>3. CASE Patch!WebEnds
  BY <1>0, <1>1, <1>2, <1>3 DEF Patch!WebEnds, DefaultsInv, WebStep, DaemonLocked, Patch!IdleStep
<1>4. CASE web.value = Patch!Auto /\ web' = [at |-> "remove"] /\ lock' = lock /\ prop' = prop
  <2>1. web'.at = "remove" /\ web' # Patch!IdleStep
    BY <1>4 DEF Patch!IdleStep
  <2>2. prop' = SnapValues' /\ (snap'.byHand => byHand')
    BY <1>1, <1>2, <1>4
  <2>3. WebStep'
    BY <1>1, <1>2, <1>4, <2>1, <2>2 DEF WebStep, Patch!IdleStep
  <2>4. QED
    BY <1>0, <1>1, <1>2, <1>4, <2>3 DEF DefaultsInv, DaemonLocked
<1>5. QED
  BY <1>3, <1>4 DEF Patch!WebConfigures

LEMMA WebRemovesKeeps == ASSUME DefaultsInv, Patch!WebRemoves PROVE DefaultsInv'
<1>0. SnapshotOld /\ Patch!DefaultsKept /\ Unsaved /\ WebStep /\ DaemonLocked
  BY DEF DefaultsInv
<1>1. /\ web.at = "remove" /\ Patch!Current /\ lock = "web" /\ (snap.byHand => byHand)
      /\ UNCHANGED <<build, daemon, byHand, prop>> /\ prop = SnapValues
      /\ snap' \in {Patch!None, snap} /\ web' = Patch!IdleStep /\ lock' = "free"
  BY <1>0 DEF Patch!WebRemoves, Patch!WebEnds, WebStep
<1>2. ~byHand => prop = Patch!Defaults
  BY <1>0, <1>1 DEF Patch!DefaultsKept, SnapValues, Patch!Defaults
<1>3. Unsaved' /\ SnapshotOld' /\ Patch!DefaultsKept'
  BY <1>0, <1>1, <1>2 DEF Unsaved, Patch!Defaults, SnapshotOld, Patch!DefaultsKept, Patch!Current
<1>4. QED
  BY <1>0, <1>1, <1>3 DEF DefaultsInv, WebStep, DaemonLocked, Patch!IdleStep

LEMMA PrepareKeeps == ASSUME DefaultsInv, Patch!Prepare PROVE DefaultsInv'
<1>0. SnapshotOld /\ Patch!DefaultsKept /\ Unsaved /\ WebStep /\ DaemonLocked
  BY DEF DefaultsInv
<1>1. /\ web = Patch!IdleStep /\ web.at = "idle" /\ UNCHANGED <<build, web, byHand>>
      /\ lock' = "daemon" /\ daemon'.at = "boot"
  BY <1>0 DEF Patch!Prepare, WebStep
<1>2. WebStep' /\ DaemonLocked'
  BY <1>1 DEF WebStep, DaemonLocked, Patch!IdleStep
<1>3. CASE UNCHANGED <<snap, prop>>
  BY <1>0, <1>1, <1>2, <1>3 DEF DefaultsInv, SnapshotOld, Patch!DefaultsKept, Unsaved,
     Patch!Current, Patch!Defaults
<1>4. CASE snap # Patch!None /\ snap' = IF Patch!Current THEN snap ELSE Patch!Saved(Patch!Defaults)
  <2>1. Patch!Current' /\ SnapshotOld'
    BY <1>0, <1>1, <1>4, SnapIsSome DEF Patch!Current, SnapshotOld
  <2>2. Patch!DefaultsKept'
    BY <1>0, <1>1, <1>4, SnapIsSome DEF Patch!DefaultsKept, Patch!Current, Patch!Defaults
  <2>3. Unsaved'
    BY <2>1 DEF Unsaved
  <2>4. QED
    BY <1>2, <2>1, <2>2, <2>3 DEF DefaultsInv
<1>5. QED
  BY <1>3, <1>4 DEF Patch!Prepare

LEMMA InstallKeepsDefaults == ASSUME DefaultsInv, Patch!Install PROVE DefaultsInv'
<1>1. daemon.at = "pinned" /\ UNCHANGED <<build, snap, web>> /\ byHand \in BOOLEAN
  BY DEF Patch!Install, DefaultsInv, SnapshotOld
<1>2. daemon'.at \in {"up", "down"}
  BY DEF Patch!Install, Patch!Exits
<1>3. PICK w \in BOOLEAN : w <=> Patch!Writes(daemon.trust, prop)
  OBVIOUS
<1>4. \/ byHand' = byHand /\ prop' = prop
      \/ byHand' = (byHand \/ (w /\ ~Patch!Current)) /\ (w \/ prop' = prop)
  <2>1. CASE byHand' = byHand /\ prop' = prop
    BY <2>1
  <2>2. CASE /\ byHand' = (byHand \/ (Patch!Writes(daemon.trust, prop) /\ ~Patch!Current))
             /\ Patch!Writes(daemon.trust, prop) \/ prop' = prop
    BY <1>3, <2>2
  <2>3. QED
    BY <2>1, <2>2 DEF Patch!Install
<1>5. byHand' \in BOOLEAN /\ (byHand => byHand') /\ (prop' = prop \/ byHand' \/ Patch!Current)
  BY <1>1, <1>3, <1>4
<1>6. QED
  BY <1>1, <1>2, <1>5, SystemWriteFrame

LEMMA ApplyKeepsDefaults == ASSUME DefaultsInv, Patch!Apply PROVE DefaultsInv'
<1>1. daemon.at = "reload" /\ UNCHANGED <<build, snap, web>> /\ byHand \in BOOLEAN
  BY DEF Patch!Apply, DefaultsInv, SnapshotOld
<1>2. daemon'.at = "up"
  BY DEF Patch!Apply
<1>3. PICK w \in BOOLEAN :
        w <=> ~Patch!WaitsForRestart(daemon.trust) /\ Patch!Writes(daemon.trust, prop)
  OBVIOUS
<1>4. PICK o \in IF w THEN Patch!SystemWrite(Patch!Candidate(daemon.trust).trust.sec)
                 ELSE {[ok |-> TRUE, prop |-> prop]} :
        prop' = o.prop /\ byHand' = (byHand \/ (o.ok /\ w /\ ~Patch!Current))
  BY <1>3 DEF Patch!Apply
<1>5. ~w => prop' = prop
  BY <1>4
<1>6. o.ok \/ prop' = prop
  BY <1>4 DEF Patch!SystemWrite
<1>7. byHand' \in BOOLEAN /\ (byHand => byHand') /\ (prop' = prop \/ byHand' \/ Patch!Current)
  BY <1>1, <1>4, <1>5, <1>6
<1>8. QED
  BY <1>1, <1>2, <1>7, SystemWriteFrame

LEMMA RebootKeeps == ASSUME DefaultsInv, NEW b \in DOMAIN Builds, Patch!Reboot(b) PROVE DefaultsInv'
<1>0. SnapshotOld /\ Patch!DefaultsKept
  BY DEF DefaultsInv
<1>1. /\ build' = b /\ b \in {build, build + 1} /\ snap' = snap /\ byHand' = FALSE
      /\ prop' = Patch!Defaults' /\ web' = Patch!IdleStep /\ daemon'.at = "down" /\ lock' = "free"
  BY DEF Patch!Reboot, Patch!Defaults
<1>2. Patch!Current' => Patch!Current /\ build' = build
  BY <1>0, <1>1 DEF Patch!Current, SnapshotOld
<1>3. Patch!DefaultsKept'
  BY <1>0, <1>1, <1>2 DEF Patch!DefaultsKept, Patch!Defaults
<1>4. SnapshotOld'
  <2>1. build' \in Nat /\ build' >= build /\ build \in Nat
    BY <1>0, <1>1 DEF SnapshotOld
  <2>2. byHand' \in BOOLEAN
    BY <1>1
  <2>3. snap # Patch!None => snap.fp \in Nat /\ snap.fp <= build' /\ snap.fp <= build
    BY <1>0, <2>1 DEF SnapshotOld
  <2>4. snap # Patch!None => snap.byHand \in BOOLEAN
    BY <1>0 DEF SnapshotOld
  <2>5. snap' = snap
    BY <1>1
  <2>6. QED
    BY <2>1, <2>2, <2>3, <2>4, <2>5 DEF SnapshotOld
<1>5. QED
  BY <1>1, <1>3, <1>4 DEF DefaultsInv, Unsaved, WebStep, DaemonLocked, Patch!IdleStep

LEMMA DefaultsNext ==
    ASSUME Patch!PatchAssumption, DefaultsInv, [Patch!Next]_Patch!vars PROVE DefaultsInv'
<1>1. CASE UNCHANGED Patch!vars
  <2>1. daemon'.at \in {"boot", "pinned", "reload"} => lock' = "daemon"
    BY <1>1 DEF Patch!vars, DefaultsInv, DaemonLocked
  <2>2. QED
    BY <1>1, <2>1, DefaultsFrame DEF Patch!vars
<1>2. CASE Patch!WebKilled
  <2>1. DefaultsInv /\ Patch!WebEnds /\ web.at # "idle" /\ lock = "web"
        /\ UNCHANGED <<build, prop, snap, daemon, byHand>>
    BY <1>2 DEF Patch!WebKilled, DefaultsInv, WebStep
  <2>2. QED
    BY <2>1 DEF DefaultsInv, SnapshotOld, Patch!DefaultsKept, Unsaved, WebStep, DaemonLocked,
       Patch!Current, Patch!Defaults, Patch!IdleStep, Patch!WebEnds
<1>3. ASSUME NEW k \in {Patch!NoKey, 1}, NEW d \in RandomKeys, Patch!PinKey(k, d) PROVE DefaultsInv'
  BY <1>3, DefaultsFrame DEF Patch!PinKey, DefaultsInv, DaemonLocked
<1>4. CASE Patch!Reload
  <2>1. web = Patch!IdleStep
    BY <1>4 DEF Patch!Reload, DefaultsInv, WebStep
  <2>2. QED
    BY <1>4, <2>1, DefaultsFrame DEF Patch!Reload
<1>5. ASSUME NEW l \in Levels, Patch!OpenInstance(l) PROVE DefaultsInv'
  BY <1>5, DefaultsFrame DEF Patch!OpenInstance, DefaultsInv, DaemonLocked
<1>6. CASE Patch!DaemonKilled
  <2>1. lock = "daemon" => web = Patch!IdleStep
    BY DEF DefaultsInv, WebStep
  <2>2. daemon'.at = "down" /\ (lock' = lock \/ lock = "daemon")
        /\ UNCHANGED <<build, prop, snap, byHand, web>>
    BY <1>6 DEF Patch!DaemonKilled
  <2>3. QED
    BY <2>1, <2>2, DefaultsFrame
<1>7. ASSUME NEW t \in Edits, Patch!Edit(t) PROVE DefaultsInv'
  BY <1>7, DefaultsFrame DEF Patch!Edit, DefaultsInv, DaemonLocked
<1>8. QED
  BY <1>1, <1>2, <1>3, <1>4, <1>5, <1>6, <1>7, WebStartKeeps, WebWritesKeeps, WebConfiguresKeeps,
     WebRemovesKeeps, PrepareKeeps, InstallKeepsDefaults, ApplyKeepsDefaults, RebootKeeps
     DEF Patch!Next

\* For any builds, edits and requests: a snapshot of the running build holds
\* that build's own values, unless it was taken when a date edited by hand was
\* in the property, through any interleaving of the command, the daemon,
\* kills, failed writes and OTAs.
THEOREM DefaultsAreKept == Patch!PatchAssumption => (Patch!Spec => []DefaultsKept)
<1>1. SUFFICES ASSUME Patch!PatchAssumption PROVE Patch!Spec => []DefaultsKept
  OBVIOUS
<1>2. DefaultsInv /\ [Patch!Next]_Patch!vars => DefaultsInv'
  BY <1>1, DefaultsNext
<1>3. DefaultsInv => DefaultsKept
  BY DEF DefaultsInv, DefaultsKept
<1>4. QED
  BY <1>2, <1>3, DefaultsInit, PTL DEF Patch!Spec
-----------------------------------------------------------------------------
(***************************************************************************)
(* The TA, for every set of keys with any characteristics, every set of    *)
(* callers and every size of the tables: no assumption on the constants is *)
(* needed.                                                                 *)
(***************************************************************************)
TaBlob == [id : Nat, key : Keys, level : Nat, slot : Nat]
Op   == [handle : Nat, blob : TaBlob, aad : BOOLEAN, auth : BOOLEAN]
Given == [blob : TaBlob, own : BOOLEAN, last : BOOLEAN]

TaTypeOK ==
    /\ level \in [Callers -> Nat] /\ early \in BOOLEAN
    /\ taBlobs \subseteq TaBlob /\ ops \subseteq Op
    /\ secrets \subseteq Nat /\ stuck \subseteq Nat
    /\ handle \in Nat /\ made \in Nat /\ presence \in Nat
    /\ DOMAIN outputs \subseteq Nat /\ outputs \in [DOMAIN outputs -> Given]

(***************************************************************************)
(* The inductive invariant.  Handles and slots are never drawn twice, so   *)
(* that what is said of an operation that has gone, and of a slot that was *)
(* deleted, is not undone by a later one.                                  *)
(***************************************************************************)

\* An operation needs its own token exactly when its key says so.
AuthFollowsKey == \A o \in ops : o.auth <=> Ta!Chars(o.blob).auth = "op"

\* Handles are drawn in order, and no two operations have the same.
HandlesDrawn ==
    /\ \A o \in ops : o.handle <= handle
    /\ \A h \in DOMAIN outputs : h <= handle
    /\ \A o, p \in ops : o.handle = p.handle => o = p

\* What an operation gave so far was from its own key.
OutputsOfOwnKey ==
    \A o \in ops : o.handle \in DOMAIN outputs => outputs[o.handle].blob = o.blob

\* Slots are drawn in order: those of keys that operations use, and of keys
\* that gave output, were drawn before.
SlotsDrawn ==
    /\ \A b \in taBlobs : b.slot <= made
    /\ \A o \in ops : o.blob.slot <= made
    /\ \A h \in DOMAIN outputs : outputs[h].blob.slot <= made

TaInv ==
    /\ TaTypeOK
    /\ AuthFollowsKey
    /\ HandlesDrawn
    /\ OutputsOfOwnKey
    /\ SlotsDrawn
    /\ Ta!OutputAuthorized
    /\ Ta!SpentKeyGone
    /\ Ta!SlotsOwned
-----------------------------------------------------------------------------
(***************************************************************************)
(* What the operations have in common.                                     *)
(***************************************************************************)
\* A blob that is made has a slot of its own or none.
LEMMA NewBlobFresh ==
    ASSUME TaTypeOK, NEW k \in Keys, NEW c \in Callers
    PROVE  /\ Ta!NewBlob(k, level[c]) \in TaBlob
           /\ Ta!NewBlob(k, level[c]).slot \in {0, made + 1}
BY DEF TaTypeOK, Ta!NewBlob, TaBlob

\* Keys come and go, operations do not: the slots in use are the old ones, new
\* ones and fewer, and what cannot be deleted is on record.
LEMMA KeysStep ==
    ASSUME TaInv,
           made' \in {made, made + 1}, made' \in Nat,
           level' \in [Callers -> Nat], early' \in BOOLEAN, taBlobs' \subseteq TaBlob,
           stuck \subseteq stuck', stuck' \subseteq Nat,
           secrets' \subseteq secrets \cup IF made' = made THEN {} ELSE {made + 1},
           \A b \in taBlobs' : b.slot <= made',
           Ta!SlotsOwned',
           UNCHANGED <<ops, presence, uses, handle, outputs>>
    PROVE  TaInv'
<1>1. TaTypeOK'
  BY DEF TaInv, TaTypeOK
<1>2. AuthFollowsKey' /\ HandlesDrawn' /\ OutputsOfOwnKey' /\ Ta!OutputAuthorized'
  BY DEF TaInv, AuthFollowsKey, HandlesDrawn, OutputsOfOwnKey, Ta!OutputAuthorized, Ta!Chars
<1>3. SlotsDrawn'
  BY DEF TaInv, SlotsDrawn, TaTypeOK, Op, Given, TaBlob
<1>4. Ta!SpentKeyGone'
  BY DEF TaInv, Ta!SpentKeyGone, SlotsDrawn, TaTypeOK, Given, TaBlob, Ta!Chars
<1> QED BY <1>1, <1>2, <1>3, <1>4 DEF TaInv

\* Operations begin and go, or stay with another state, and give nothing.
LEMMA OpsStep ==
    ASSUME TaInv,
           ops' \subseteq ops,
           presence' \in Nat,
           UNCHANGED <<level, early, taBlobs, secrets, handle, made, outputs, stuck>>
    PROVE  TaInv'
<1>1. TaTypeOK'
  BY DEF TaInv, TaTypeOK
<1>2. AuthFollowsKey' /\ HandlesDrawn' /\ OutputsOfOwnKey' /\ Ta!OutputAuthorized'
  BY DEF TaInv, AuthFollowsKey, HandlesDrawn, OutputsOfOwnKey, Ta!OutputAuthorized, Ta!Chars
<1>3. SlotsDrawn' /\ Ta!SpentKeyGone' /\ Ta!SlotsOwned'
  BY DEF TaInv, SlotsDrawn, Ta!SpentKeyGone, Ta!SlotsOwned, Ta!Chars
<1> QED BY <1>1, <1>2, <1>3 DEF TaInv

\* What Output records for an operation, and that it leaves the rest.
LEMMA OutputRecords ==
    ASSUME TaTypeOK, NEW o \in ops, NEW t, NEW last \in BOOLEAN, Ta!Output(o, t, last)
    PROVE  /\ DOMAIN outputs' = DOMAIN outputs \cup {o.handle}
           /\ outputs' \in [DOMAIN outputs' -> Given]
           /\ \A h \in DOMAIN outputs \ {o.handle} : outputs'[h] = outputs[h]
           /\ outputs'[o.handle].blob = o.blob
           /\ outputs'[o.handle].last = last
           /\ outputs'[o.handle].own <=>
                /\ t.valid /\ t.challenge = o.handle
                /\ o.handle \in DOMAIN outputs => outputs[o.handle].own
<1> DEFINE own == t.valid /\ t.challenge = o.handle
           before == IF o.handle \in DOMAIN outputs THEN outputs[o.handle].own ELSE TRUE
           g == [blob |-> o.blob, own |-> own /\ before, last |-> last]
<1>2. g \in Given /\ (own /\ before) \in BOOLEAN
  BY DEF TaTypeOK, Given, Op
<1>3. g.blob = o.blob /\ g.last = last /\ (g.own <=> own /\ before)
  OBVIOUS
<1>4. outputs' = [h \in DOMAIN outputs \cup {o.handle} |-> IF h = o.handle THEN g ELSE outputs[h]]
  BY DEF Ta!Output, Ta!Put
<1> HIDE DEF g
<1>5. outputs'[o.handle] = g
  BY <1>4
<1>6. DOMAIN outputs' = DOMAIN outputs \cup {o.handle}
  BY <1>4
<1>7. ASSUME NEW h \in DOMAIN outputs' PROVE outputs'[h] \in Given
  BY <1>2, <1>4 DEF TaTypeOK
<1>8. outputs' \in [DOMAIN outputs' -> Given]
  BY <1>4, <1>6, <1>7
<1> QED BY <1>3, <1>4, <1>5, <1>6, <1>8

\* An operation that gives output: it keeps its key and goes, or stays.  When
\* the output is the last one, the slot of its key goes or is on record.
LEMMA OutputStep ==
    ASSUME TaInv, NEW o \in ops, NEW t, NEW last \in BOOLEAN,
           Ta!Authorized(o, t), Ta!Output(o, t, last),
           ops' \subseteq (ops \ {o}) \cup {[o EXCEPT !.aad = FALSE]},
           presence' \in Nat,
           secrets' \subseteq secrets, stuck \subseteq stuck', stuck' \subseteq Nat,
           last /\ Ta!Chars(o.blob).single => o.blob.slot \notin secrets' \ stuck',
           UNCHANGED <<level, early, taBlobs, handle, made>>
    PROVE  TaInv'
<1> DEFINE p == [o EXCEPT !.aad = FALSE]
<1>1. o \in Op /\ p \in Op /\ p.handle = o.handle /\ p.blob = o.blob /\ p.auth = o.auth
  BY DEF TaInv, TaTypeOK, Op
<1> HIDE DEF p
<1>2. \A q \in ops' : q = p \/ (q \in ops /\ q # o)
  BY DEF p
<1>3. /\ DOMAIN outputs' = DOMAIN outputs \cup {o.handle}
      /\ outputs' \in [DOMAIN outputs' -> Given]
      /\ \A h \in DOMAIN outputs \ {o.handle} : outputs'[h] = outputs[h]
      /\ outputs'[o.handle].blob = o.blob
      /\ outputs'[o.handle].last = last
      /\ outputs'[o.handle].own <=>
           /\ t.valid /\ t.challenge = o.handle
           /\ o.handle \in DOMAIN outputs => outputs[o.handle].own
  BY OutputRecords DEF TaInv
<1>4. TaTypeOK'
  <2>1. o.handle \in Nat
    BY <1>1 DEF Op
  <2> QED BY <1>1, <1>2, <1>3, <2>1 DEF TaInv, TaTypeOK
<1>5. AuthFollowsKey'
  BY <1>1, <1>2 DEF TaInv, AuthFollowsKey, Ta!Chars
<1>6. HandlesDrawn'
  BY <1>1, <1>2, <1>3 DEF TaInv, HandlesDrawn
<1>7. OutputsOfOwnKey'
  BY <1>1, <1>2, <1>3 DEF TaInv, OutputsOfOwnKey, HandlesDrawn
<1>8. SlotsDrawn'
  BY <1>1, <1>2, <1>3 DEF TaInv, SlotsDrawn
<1>9. Ta!OutputAuthorized'
  <2>1. Ta!Chars(o.blob).auth = "op" => outputs'[o.handle].own
    BY <1>3 DEF TaInv, AuthFollowsKey, Ta!Authorized, Ta!OutputAuthorized, OutputsOfOwnKey
  <2> QED BY <1>3, <2>1 DEF TaInv, Ta!OutputAuthorized, Ta!Chars
<1>10. Ta!SpentKeyGone'
  BY <1>3 DEF TaInv, Ta!SpentKeyGone, Ta!Chars
<1>11. Ta!SlotsOwned'
  BY DEF TaInv, Ta!SlotsOwned
<1> QED BY <1>4, <1>5, <1>6, <1>7, <1>8, <1>9, <1>10, <1>11 DEF TaInv

\* Deleting slots: they go, or stay and are on record.
LEMMA AttemptEffect ==
    ASSUME TaTypeOK, NEW slots, slots \subseteq Nat, Ta!Attempt(slots)
    PROVE  /\ secrets' \subseteq secrets /\ stuck \subseteq stuck' /\ stuck' \subseteq Nat
           /\ secrets' = secrets \ slots \/ stuck' = stuck \cup slots
           /\ \A s \in slots : s \notin secrets' \ stuck'
BY DEF Ta!Attempt, Ta!Attempts, TaTypeOK
-----------------------------------------------------------------------------
(***************************************************************************)
(* One lemma per kind of operation.                                        *)
(***************************************************************************)
LEMMA CreateStep ==
    ASSUME TaInv, NEW k \in Keys, NEW c \in Callers,
           Ta!Create(Ta!NewBlob(k, level[c])),
           UNCHANGED <<level, early, ops, presence, uses, handle, outputs, stuck>>
    PROVE  TaInv'
<1> DEFINE b == Ta!NewBlob(k, level[c])
<1>1. b \in TaBlob /\ b.slot \in {0, made + 1}
  BY NewBlobFresh DEF TaInv
<1> HIDE DEF b
<1>2. made' = made + 1 /\ taBlobs' = taBlobs \cup {b} /\ secrets' = secrets \cup ({b.slot} \ {0})
  BY DEF Ta!Create, b
<1>3. Ta!SlotsOwned'
  BY <1>2 DEF TaInv, Ta!SlotsOwned
<1>4. \A x \in taBlobs' : x.slot <= made'
  BY <1>1, <1>2 DEF TaInv, TaTypeOK, SlotsDrawn, TaBlob
<1> QED BY <1>1, <1>2, <1>3, <1>4, KeysStep DEF TaInv, TaTypeOK

LEMMA WrappedStep ==
    ASSUME TaInv, NEW c \in Callers, NEW w \in taBlobs, NEW k \in Keys, Ta!ImportWrappedKey(c, w, k)
    PROVE  TaInv'
<1> DEFINE b == Ta!NewBlob(k, level[c])
           new == {b.slot} \ {0}
<1>1. b \in TaBlob /\ b.slot \in {0, made + 1}
  BY NewBlobFresh DEF TaInv
<1>2. PICK a \in Ta!Attempts({w.slot} \ {0}) :
        \/ /\ a.kept = {}
           /\ taBlobs' = taBlobs \cup {b}
           /\ secrets' = (secrets \cup new) \ a.gone
           /\ UNCHANGED stuck
        \/ /\ a.kept # {}
           /\ \E u \in Ta!Unpublish(b) :
                secrets' = (secrets \cup new) \ u.gone /\ stuck' = stuck \cup u.kept
           /\ UNCHANGED taBlobs
  BY DEF Ta!ImportWrappedKey
<1>3. made' = made + 1 /\ UNCHANGED <<level, early, ops, presence, uses, handle, outputs>>
  BY DEF Ta!ImportWrappedKey
<1> HIDE DEF b
<1>4. taBlobs' \subseteq taBlobs \cup {b} /\ secrets' \subseteq secrets \cup new
  BY <1>2
<1>5. new \subseteq {made + 1}
  BY <1>1
<1>6. stuck \subseteq stuck' /\ stuck' \subseteq stuck \cup new
  BY <1>2 DEF Ta!Unpublish, Ta!Attempts
<1>7. Ta!SlotsOwned'
  <2>1. CASE b \in taBlobs'
    BY <1>2, <1>4, <1>6, <2>1 DEF TaInv, Ta!SlotsOwned
  <2>2. CASE b \notin taBlobs'
    <3>1. taBlobs' = taBlobs
      BY <1>2, <2>2
    <3>2. PICK u \in Ta!Unpublish(b) :
             secrets' = (secrets \cup new) \ u.gone /\ stuck' = stuck \cup u.kept
      BY <1>2, <2>2
    <3>3. u.gone = new \/ u.kept = new
      BY DEF Ta!Unpublish, Ta!Attempts
    <3>4. secrets' \subseteq secrets \cup stuck'
      BY <3>2, <3>3
    <3> QED BY <1>6, <3>1, <3>4 DEF TaInv, Ta!SlotsOwned
  <2> QED BY <2>1, <2>2
<1>8. \A x \in taBlobs' : x.slot <= made'
  BY <1>1, <1>3, <1>4 DEF TaInv, TaTypeOK, SlotsDrawn, TaBlob
<1> QED BY <1>1, <1>3, <1>4, <1>5, <1>6, <1>7, <1>8, KeysStep DEF TaInv, TaTypeOK

LEMMA DeleteStep ==
    ASSUME TaInv, NEW b \in taBlobs, Ta!DeleteKey(b)
    PROVE  TaInv'
<1>1. /\ Ta!Attempt({b.slot} \cap secrets)
      /\ taBlobs' = taBlobs \ {b}
      /\ UNCHANGED <<level, early, ops, presence, uses, handle, made, outputs>>
  BY DEF Ta!DeleteKey
<1>2. {b.slot} \cap secrets \subseteq Nat
  BY DEF TaInv, TaTypeOK
<1>3. /\ secrets' \subseteq secrets /\ stuck \subseteq stuck' /\ stuck' \subseteq Nat
      /\ \A s \in {b.slot} \cap secrets : s \notin secrets' \ stuck'
  BY <1>1, <1>2, AttemptEffect DEF TaInv
<1>4. Ta!SlotsOwned'
  BY <1>1, <1>3 DEF TaInv, Ta!SlotsOwned
<1>5. \A x \in taBlobs' : x.slot <= made'
  BY <1>1 DEF TaInv, SlotsDrawn
<1> QED BY <1>1, <1>3, <1>4, <1>5, KeysStep DEF TaInv, TaTypeOK

LEMMA BeginStep ==
    ASSUME TaInv, NEW c \in Callers, NEW b \in taBlobs, NEW t \in Ta!Tokens, Ta!Begin(c, b, t)
    PROVE  TaInv'
<1>1. UNCHANGED <<level, early, taBlobs, secrets, made, outputs, stuck>>
  BY DEF Ta!Begin
<1>2. CASE UNCHANGED <<ops, presence, handle>>
  BY <1>1, <1>2, OpsStep DEF TaInv, TaTypeOK
<1>3. CASE /\ handle' = handle + 1
           /\ ops' = ops \cup {[handle |-> handle', blob |-> b, aad |-> TRUE,
                                auth |-> Ta!Chars(b).auth = "op"]}
           /\ presence' = IF Ta!Chars(b).presence THEN handle' ELSE presence
  <2> DEFINE n == [handle |-> handle', blob |-> b, aad |-> TRUE, auth |-> Ta!Chars(b).auth = "op"]
  <2>a. n.handle = handle + 1 /\ n.blob = b /\ (n.auth <=> Ta!Chars(b).auth = "op")
    BY <1>3
  <2>b. handle' \in Nat /\ b \in TaBlob /\ (Ta!Chars(b).auth = "op") \in BOOLEAN
    BY <1>3 DEF TaInv, TaTypeOK
  <2>c. n \in Op
    BY <2>b DEF Op
  <2>1. n \in Op /\ n.handle = handle + 1 /\ n.blob = b /\ (n.auth <=> Ta!Chars(b).auth = "op")
    BY <2>a, <2>c
  <2> HIDE DEF n
  <2>2. ops' = ops \cup {n}
    BY <1>3 DEF n
  <2>3. TaTypeOK'
    BY <1>1, <1>3, <2>1, <2>2 DEF TaInv, TaTypeOK
  <2>4. AuthFollowsKey'
    BY <2>1, <2>2 DEF TaInv, AuthFollowsKey, Ta!Chars
  <2>5. HandlesDrawn'
    BY <1>1, <1>3, <2>1, <2>2 DEF TaInv, HandlesDrawn, TaTypeOK, Op
  <2>6. OutputsOfOwnKey'
    BY <1>1, <1>3, <2>1, <2>2 DEF TaInv, OutputsOfOwnKey, HandlesDrawn, TaTypeOK
  <2>7. SlotsDrawn'
    BY <1>1, <2>1, <2>2 DEF TaInv, SlotsDrawn
  <2>8. Ta!OutputAuthorized' /\ Ta!SpentKeyGone' /\ Ta!SlotsOwned'
    BY <1>1 DEF TaInv, Ta!OutputAuthorized, Ta!SpentKeyGone, Ta!SlotsOwned, Ta!Chars
  <2> QED BY <2>3, <2>4, <2>5, <2>6, <2>7, <2>8 DEF TaInv
<1> QED BY <1>2, <1>3 DEF Ta!Begin

LEMMA UpdateStep ==
    ASSUME TaInv, NEW o \in ops, NEW t \in Ta!Tokens, Ta!Update(o, t)
    PROVE  TaInv'
<1>1. UNCHANGED <<level, early, taBlobs, secrets, handle, made, stuck>> /\ presence' \in Nat
  BY DEF Ta!Update, TaInv, TaTypeOK, Ta!NoOp
<1>2. CASE ops' \subseteq ops /\ UNCHANGED outputs
  BY <1>1, <1>2, OpsStep
<1>3. CASE /\ Ta!Authorized(o, t)
           /\ ops' = (ops \ {o}) \cup {[o EXCEPT !.aad = FALSE]}
           /\ Ta!Output(o, t, FALSE)
  BY <1>1, <1>3, OutputStep DEF TaInv, TaTypeOK
<1> QED BY <1>2, <1>3 DEF Ta!Update

LEMMA FinishStep ==
    ASSUME TaInv, NEW o \in ops, NEW t \in Ta!Tokens, NEW f \in BOOLEAN, Ta!Finish(o, t, f)
    PROVE  TaInv'
<1>1. /\ UNCHANGED <<level, early, taBlobs, handle, made>>
      /\ presence' \in Nat
      /\ ops' = ops \ {o}
  BY DEF Ta!Finish, TaInv, TaTypeOK, Ta!NoOp
<1>2. CASE UNCHANGED <<outputs, secrets, stuck>>
  BY <1>1, <1>2, OpsStep
<1>3. CASE /\ Ta!Authorized(o, t)
           /\ Ta!Output(o, t, TRUE)
           /\ Ta!Attempt(Ta!SlotToDelete(o) \cap secrets)
  <2>1. Ta!SlotToDelete(o) \cap secrets \subseteq Nat
    BY DEF TaInv, TaTypeOK
  <2>2. /\ secrets' \subseteq secrets /\ stuck \subseteq stuck' /\ stuck' \subseteq Nat
        /\ \A s \in Ta!SlotToDelete(o) \cap secrets : s \notin secrets' \ stuck'
    BY <1>3, <2>1, AttemptEffect DEF TaInv
  <2>3. Ta!Chars(o.blob).single => o.blob.slot \notin secrets' \ stuck'
    BY <2>2 DEF Ta!SlotToDelete
  <2> QED BY <1>1, <1>3, <2>2, <2>3, OutputStep
<1> QED BY <1>2, <1>3 DEF Ta!Finish
-----------------------------------------------------------------------------
LEMMA TaInitially == Ta!Init => TaInv
BY DEF Ta!Init, TaInv, TaTypeOK, AuthFollowsKey, HandlesDrawn, OutputsOfOwnKey, SlotsDrawn,
       Ta!OutputAuthorized, Ta!SpentKeyGone, Ta!SlotsOwned, Ta!NoOp

LEMMA TaSteps == TaInv /\ [Ta!Next]_(Ta!vars) => TaInv'
<1> SUFFICES ASSUME TaInv, [Ta!Next]_(Ta!vars) PROVE TaInv'
  OBVIOUS
<1>1. ASSUME NEW c \in Callers, NEW k \in Keys, Ta!GenerateKey(c, k) \/ Ta!ImportKey(c, k)
      PROVE TaInv'
  BY <1>1, CreateStep DEF Ta!GenerateKey, Ta!ImportKey
<1>2. ASSUME NEW c \in Callers, NEW w \in taBlobs, NEW k \in Keys, Ta!ImportWrappedKey(c, w, k)
      PROVE TaInv'
  BY <1>2, WrappedStep
<1>3. ASSUME NEW c \in Callers, NEW b \in taBlobs, Ta!UpgradeKey(c, b) PROVE TaInv'
  <2>1. b.key \in Keys
    BY DEF TaInv, TaTypeOK, TaBlob
  <2> QED BY <1>3, <2>1, CreateStep DEF Ta!UpgradeKey
<1>4. ASSUME NEW c \in Callers, NEW b \in taBlobs, NEW t \in Ta!Tokens, Ta!Begin(c, b, t)
      PROVE TaInv'
  BY <1>4, BeginStep
<1>5. ASSUME NEW c \in Callers, NEW l \in 1..MaxLevel, Ta!SetLevel(c, l) PROVE TaInv'
  <2>1. level' \in [Callers -> Nat]
    BY <1>5 DEF Ta!SetLevel, TaInv, TaTypeOK
  <2> QED BY <1>5, <2>1, KeysStep DEF Ta!SetLevel, TaInv, TaTypeOK, SlotsDrawn, Ta!SlotsOwned
<1>6. ASSUME NEW b \in taBlobs, Ta!DeleteKey(b) PROVE TaInv'
  BY <1>6, DeleteStep
<1>7. CASE Ta!DeleteAllKeys
  <2>1. Ta!SlotsOwned'
    BY <1>7 DEF Ta!DeleteAllKeys, Ta!SlotsOwned
  <2> QED BY <1>7, <2>1, KeysStep DEF Ta!DeleteAllKeys, TaInv, TaTypeOK, SlotsDrawn
<1>8. CASE Ta!EarlyBootEnded
  BY <1>8, KeysStep DEF Ta!EarlyBootEnded, TaInv, TaTypeOK, SlotsDrawn, Ta!SlotsOwned
<1>9. CASE Ta!Restart
  BY <1>9, OpsStep DEF Ta!Restart, Ta!NoOp
<1>10. ASSUME NEW o \in ops, NEW t \in Ta!Tokens, Ta!UpdateAad(o, t) PROVE TaInv'
  BY <1>10, OpsStep DEF Ta!UpdateAad, Ta!Fail, TaInv, TaTypeOK, Ta!NoOp
<1>11. ASSUME NEW o \in ops, NEW t \in Ta!Tokens, Ta!Update(o, t) PROVE TaInv'
  BY <1>11, UpdateStep
<1>12. ASSUME NEW o \in ops, NEW t \in Ta!Tokens, NEW f \in BOOLEAN, Ta!Finish(o, t, f)
      PROVE TaInv'
  BY <1>12, FinishStep
<1>13. ASSUME NEW o \in ops, Ta!Abort(o) PROVE TaInv'
  BY <1>13, OpsStep DEF Ta!Abort, Ta!Fail, TaInv, TaTypeOK, Ta!NoOp
<1>14. CASE UNCHANGED Ta!vars
  BY <1>14, OpsStep DEF Ta!vars, TaInv, TaTypeOK
<1> QED
  BY <1>1, <1>2, <1>3, <1>4, <1>5, <1>6, <1>7, <1>8, <1>9, <1>10, <1>11, <1>12, <1>13,
     <1>14 DEF Ta!Next

LEMMA TaInvariant == Ta!Spec => []TaInv
BY TaInitially, TaSteps, PTL DEF Ta!Spec

\* What the TA gave out was authorized: a key that needs authentication for
\* each operation gave output only to calls with the token of that operation,
\* and a single-use key that gave its last output is deleted, or the failed
\* attempt is on record (check_subsequent_auth, slot_to_delete in op_finish).
THEOREM OutputsAuthorized == Ta!Spec => []OutputsSound
<1>1. TaInv => OutputsSound
  BY DEF TaInv, OutputsSound, Ta!OutputsSound
<1> QED BY TaInvariant, <1>1, PTL

\* No slot of the secure deletion data is left behind by a key that nobody has,
\* also by an import of a wrapped key that fails half-way.
THEOREM NoSlotLost == Ta!Spec => []SlotsOwned
<1>1. TaInv => SlotsOwned
  BY DEF TaInv, SlotsOwned
<1> QED BY TaInvariant, <1>1, PTL
=============================================================================
