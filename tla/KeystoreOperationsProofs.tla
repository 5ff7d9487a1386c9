---------------------- MODULE KeystoreOperationsProofs ----------------------
(***************************************************************************)
(* Proofs about KeystoreOperations, for every set of operations, keys and  *)
(* owners and every number of TA slots.                                    *)
(***************************************************************************)
EXTENDS KeystoreOperations, FiniteSetTheorems, WellFoundedInduction, TLAPS

(***************************************************************************)
(* The inductive invariant.  Its parts tie the reference a pruning thread  *)
(* holds, the slot it looked up and the reservation of an operation to the *)
(* place where the operation's own thread is.                              *)
(***************************************************************************)

\* A thread holds a reference exactly while it tries to prune.
HeldWhilePruning ==
    \A o \in Ops : held[o] # None <=> pc[o] \in {"try", "pruning"}

\* What it holds is an operation that has been handed to a client.
HeldWasOpened ==
    \A o \in Ops : held[o] # None => pc[held[o]] \in Client \cup {"done"}

\* What it is pruning is marked as pruned, and not in a call.
PruningMarked ==
    \A o \in Ops : pc[o] = "pruning" =>
        outcome[held[o]] = "Pruned" /\ pc[held[o]] \in {"open", "done"}

\* A living operation has a slot of the database, and a candidate has one.
Indexed ==
    /\ \A p \in Ops : Alive(p) => index[p] \in 1..Len(slots)
    /\ \A o \in Ops : pc[o] = "get" => cand[o].index \in 1..Len(slots)

\* Before an operation is opened, and while it is used, it is active.
ActiveBeforeEnd ==
    \A o \in Ops :
        pc[o] \in {"idle"} \cup Creating \cup Importing \cup (InCall \ {"abort"})
            => outcome[o] = "Unknown"

\* Only limited-use keys are reserved, never before the reservation is made.
ReservedLimited ==
    \A o \in Ops : reserved[o] => KeyOf[o] \in Limited /\ pc[o] \notin {"idle", "loaded"}

\* An active operation on a limited-use key holds its reservation.
ActiveReserved ==
    \A o \in Ops :
        /\ KeyOf[o] \in Limited
        /\ outcome[o] = "Unknown"
        /\ pc[o] \notin {"idle", "loaded", "committed", "done"}
        => reserved[o]

\* finish and abort give the reservation back before they return.
EndReleased == \A o \in Ops : pc[o] \in {"committed", "abort"} => ~reserved[o]

\* Readings of the clock are never reused, and a living operation has one.
StampsFresh ==
    /\ \A p \in Ops : lastUsage[p] <= now
    /\ \A p, q \in Ops : p # q /\ lastUsage[p] = lastUsage[q] => lastUsage[p] = 0
    /\ \A p \in Ops : Alive(p) => lastUsage[p] > 0

\* The time stamp of a candidate is that of the scored operation or of nobody.
CandStamped ==
    \A o \in Ops : pc[o] \in {"get", "try", "pruning"} =>
        /\ cand[o].op \in Ops
        /\ cand[o].last_usage \in 1..now
        /\ \A p \in Ops \ {cand[o].op} : lastUsage[p] # cand[o].last_usage

IInv ==
    /\ TypeOK
    /\ HeldWhilePruning
    /\ HeldWasOpened
    /\ PruningMarked
    /\ Indexed
    /\ ActiveBeforeEnd
    /\ ReservedLimited
    /\ ActiveReserved
    /\ ReservationsCounted
    /\ NoOversubscription
    /\ UsageLimitKept
    /\ EndReleased
    /\ NoReservationLeak
    /\ StampsFresh
    /\ CandStamped
    /\ PruneHitsScored
-----------------------------------------------------------------------------
USE OpsAssumption

\* The slot that create_operation takes exists or is the next one.
LEMMA FirstFreeOK == ASSUME TypeOK PROVE FirstFree \in 1..(Len(slots) + 1)
<1> DEFINE Dead == {i \in 1..Len(slots) : ~Alive(slots[i])}
<1>0. Len(slots) \in Nat
  BY DEF TypeOK
<1>1. CASE Dead = {}
  BY <1>0, <1>1 DEF FirstFree
<1>2. CASE Dead # {}
  <2>1. \E i \in Dead : \A j \in Dead : ~(<<j, i>> \in OpToRel(<, Nat))
    <3>1. Dead \subseteq Nat
      BY <1>0
    <3> HIDE DEF Dead
    <3> QED BY <1>2, <3>1, WFMin, NatLessThanWellFounded
  <2>a. \A i, j \in Nat : j < i => <<j, i>> \in OpToRel(<, Nat)
    BY DEF OpToRel
  <2>b. Dead \subseteq Nat
    BY <1>0
  <2>2. PICK i \in Dead : \A j \in Dead : ~(j < i)
    <3> HIDE DEF Dead
    <3> QED BY <2>1, <2>a, <2>b
  <2>3. ~Alive(slots[i]) /\ \A j \in 1..(i - 1) : Alive(slots[j])
    BY <1>0, <2>2
  <2>4. FirstFree \in 1..Len(slots)
    BY <1>0, <2>2, <2>3 DEF FirstFree
  <2> QED BY <1>0, <2>4
<1> QED BY <1>1, <1>2

\* Giving a reservation back keeps the table exact, and never raises a count.
LEMMA Released ==
    ASSUME TypeOK, ReservedLimited, ReservationsCounted, NEW p \in Ops, ReleaseUsage(p)
    PROVE  /\ reserved' \in [Ops -> BOOLEAN]
           /\ inFlight' \in [Keys -> Nat]
           /\ \A k \in Keys : inFlight'[k] <= inFlight[k]
           /\ reserved[p] => inFlight'[KeyOf[p]] = inFlight[KeyOf[p]] - 1
           /\ ReservationsCounted'
<1>1. reserved' \in [Ops -> BOOLEAN] /\ reserved' = [reserved EXCEPT ![p] = FALSE]
  BY DEF TypeOK, ReleaseUsage
<1>2. reserved[p] => KeyOf[p] \in Keys
  BY DEF ReservedLimited
<1>3. ASSUME NEW k \in Keys
      PROVE  /\ inFlight'[k] \in Nat
             /\ inFlight'[k] = IF reserved[p] /\ KeyOf[p] = k THEN inFlight[k] - 1 ELSE inFlight[k]
             /\ inFlight'[k] <= inFlight[k]
             /\ inFlight'[k] = Cardinality(ReservedOn(k)')
  <2>1. IsFiniteSet(ReservedOn(k)) /\ Cardinality(ReservedOn(k)) \in Nat
    BY FS_Subset, FS_CardinalityType DEF ReservedOn
  <2>2. inFlight[k] = Cardinality(ReservedOn(k))
    BY DEF ReservationsCounted
  <2>3. CASE reserved[p] /\ KeyOf[p] = k
    <3>1. ReservedOn(k)' = ReservedOn(k) \ {p}
      BY <1>1 DEF ReservedOn, TypeOK
    <3>2. p \in ReservedOn(k)
      BY <2>3 DEF ReservedOn
    <3>3. Cardinality(ReservedOn(k)') = Cardinality(ReservedOn(k)) - 1 /\ Cardinality(ReservedOn(k)') \in Nat
      BY <2>1, <3>1, <3>2, FS_RemoveElement, FS_CardinalityType
    <3>4. inFlight'[k] = inFlight[k] - 1
      BY <2>3 DEF ReleaseUsage, TypeOK
    <3> QED BY <2>1, <2>2, <2>3, <3>3, <3>4
  <2>4. CASE ~(reserved[p] /\ KeyOf[p] = k)
    <3>1. ReservedOn(k)' = ReservedOn(k)
      BY <1>1, <2>4 DEF ReservedOn, TypeOK
    <3>2. inFlight'[k] = inFlight[k]
      BY <2>4 DEF ReleaseUsage, TypeOK
    <3> QED BY <2>1, <2>2, <2>4, <3>1, <3>2
  <2> QED BY <2>3, <2>4
<1>4. inFlight' \in [Keys -> Nat]
  BY <1>2, <1>3 DEF TypeOK, ReleaseUsage
<1>5. ReservationsCounted'
  BY <1>3 DEF ReservationsCounted
<1> QED BY <1>1, <1>2, <1>3, <1>4, <1>5

\* The reservation of authorize_create is counted once.
LEMMA Counted ==
    ASSUME TypeOK, ReservationsCounted, NEW o \in Ops,
           KeyOf[o] \in Limited, ~reserved[o],
           reserved' = [reserved EXCEPT ![o] = TRUE],
           inFlight' = [inFlight EXCEPT ![KeyOf[o]] = @ + 1]
    PROVE  ReservationsCounted'
<1> SUFFICES ASSUME NEW k \in Keys PROVE inFlight'[k] = Cardinality(ReservedOn(k)')
  BY DEF ReservationsCounted
<1>1. IsFiniteSet(ReservedOn(k)) /\ Cardinality(ReservedOn(k)) \in Nat
  BY FS_Subset, FS_CardinalityType DEF ReservedOn
<1>2. inFlight[k] = Cardinality(ReservedOn(k))
  BY DEF ReservationsCounted
<1>3. CASE KeyOf[o] = k
  <2>1. ReservedOn(k)' = ReservedOn(k) \cup {o}
    BY <1>3 DEF ReservedOn, TypeOK
  <2>2. o \notin ReservedOn(k)
    BY DEF ReservedOn
  <2>3. Cardinality(ReservedOn(k)') = Cardinality(ReservedOn(k)) + 1
    BY <1>1, <2>1, <2>2, FS_AddElement
  <2>4. inFlight'[k] = inFlight[k] + 1
    BY <1>3 DEF TypeOK
  <2> QED BY <1>2, <2>3, <2>4
<1>4. CASE KeyOf[o] # k
  <2>1. ReservedOn(k)' = ReservedOn(k)
    BY <1>4 DEF ReservedOn, TypeOK
  <2>2. inFlight'[k] = inFlight[k]
    BY <1>4 DEF TypeOK
  <2> QED BY <1>2, <2>1, <2>2
<1> QED BY <1>3, <1>4
-----------------------------------------------------------------------------
(***************************************************************************)
(* What a step may do to the reservations and to the durable counters.     *)
(***************************************************************************)

\* authorize_create reserves a use of the key of o.
Takes(o) ==
    /\ pc[o] = "loaded" /\ Limits(o) /\ CanReserve(KeyOf[o])
    /\ reserved' = [reserved EXCEPT ![o] = TRUE]
    /\ inFlight' = [inFlight EXCEPT ![KeyOf[o]] = @ + 1]

\* The result of o has been, or is about to be, handed out.
Used(o) == outcome[o] = "Success" \/ pc[o] = "committed"

\* o consumes a durable use of its key.
Consumes(o) ==
    /\ pc[o] \in {"commit", "store"}
    /\ reserved[o] /\ KeyOf[o] \in live /\ remaining[KeyOf[o]] > 0
    /\ ConsumeUse(KeyOf[o]) /\ ReleaseUsage(o)

\* An upgraded reference is one to an operation.
LEMMA HeldIsOp ==
    ASSUME IInv, NEW o \in Ops, pc[o] \in {"try", "pruning"} PROVE held[o] \in Ops
BY DEF IInv, TypeOK, HeldWhilePruning

\* The slot a candidate names holds an operation.
LEMMA SlotIsOp ==
    ASSUME IInv, NEW o \in Ops, pc[o] = "get" PROVE slots[cand[o].index] \in Ops
<1>1. cand[o].index \in 1..Len(slots)
  BY DEF IInv, Indexed
<1> QED BY <1>1 DEF IInv, TypeOK

\* Reservations change by one release, by one reservation or by a crash.
LEMMA UsageCases ==
    ASSUME IInv, Next
    PROVE  \/ KeepUsage
           \/ \E p \in Ops : ReleaseUsage(p)
           \/ \E o \in Ops : Takes(o)
           \/ Crash
<1>1. ASSUME NEW o \in Ops, ThreadStep(o)
      PROVE  KeepUsage \/ (\E p \in Ops : ReleaseUsage(p)) \/ Takes(o)
  <2>1. CASE Reserve(o)
    BY <2>1 DEF Reserve, Takes
  <2>2. CASE NotAuthorized(o) \/ BeginFails(o) \/ ReencryptFails(o) \/ BackendBusy(o)
             \/ ImportFails(o) \/ ImportStores(o) \/ UpdateFails(o)
    BY <2>2 DEF NotAuthorized, BeginFails, ReencryptFails, BackendBusy, ImportFails,
                ImportStores, UpdateFails, GiveUp
  <2>3. CASE Begin(o) \/ CreateOperation(o) \/ PruneChoose(o) \/ PruneGet(o) \/ PruneSets(o)
             \/ UpdateReturns(o) \/ FinishReturns(o) \/ AbortKm(o) \/ ImportKm(o)
    BY <2>3 DEF Begin, CreateOperation, PruneChoose, PruneGet, PruneSets, UpdateReturns,
                FinishReturns, AbortKm, ImportKm, KeepUsage
  <2>4. CASE PruneMisses(o) \/ PruneAborts(o)
    BY <2>4, HeldIsOp DEF PruneMisses, PruneAborts, DropOperation
  <2>5. CASE FinishKm(o) \/ Commit(o)
    BY <2>5 DEF FinishKm, Commit
  <2> QED BY <1>1, <2>1, <2>2, <2>3, <2>4, <2>5 DEF ThreadStep
<1>2. ASSUME NEW o \in Ops, ClientStep(o)
      PROVE  KeepUsage \/ ReleaseUsage(o)
  BY <1>2 DEF ClientStep, LoadKey, CallFinalized, CallRefused, Update, Finish, Abort,
              ClientDrops, LetGo, DropOperation, KeepUsage
<1>3. CASE (\E k \in Keys : UnbindKey(k)) \/ Tick \/ Finished
  BY <1>3 DEF UnbindKey, Tick, Finished, KeepUsage, vars
<1> QED BY <1>1, <1>2, <1>3 DEF Next

\* The shared table stays exact.
LEMMA CountStep ==
    ASSUME IInv, Next
    PROVE  /\ reserved' \in [Ops -> BOOLEAN]
           /\ inFlight' \in [Keys -> Nat]
           /\ ReservationsCounted'
<1>1. CASE KeepUsage
  BY <1>1 DEF IInv, TypeOK, KeepUsage, ReservationsCounted, ReservedOn
<1>2. CASE \E p \in Ops : ReleaseUsage(p)
  BY <1>2, Released DEF IInv
<1>3. ASSUME NEW o \in Ops, Takes(o)
      PROVE  /\ reserved' \in [Ops -> BOOLEAN]
             /\ inFlight' \in [Keys -> Nat]
             /\ ReservationsCounted'
  <2>1. KeyOf[o] \in Limited /\ ~reserved[o]
    BY <1>3 DEF IInv, Takes, Limits, ReservedLimited
  <2>2. ReservationsCounted'
    BY <1>3, <2>1, Counted DEF IInv, Takes
  <2> QED BY <1>3, <2>1, <2>2 DEF IInv, TypeOK, Takes
<1>4. CASE Crash
  <2>1. reserved' \in [Ops -> BOOLEAN] /\ inFlight' \in [Keys -> Nat]
    BY <1>4 DEF Crash
  <2>2. ASSUME NEW k \in Keys PROVE inFlight'[k] = Cardinality(ReservedOn(k)')
    <3>1. ReservedOn(k)' = {}
      BY <1>4 DEF Crash, ReservedOn
    <3> QED BY <1>4, <3>1, FS_EmptySet DEF Crash
  <2> QED BY <2>1, <2>2 DEF ReservationsCounted
<1> QED BY <1>1, <1>2, <1>3, <1>4, UsageCases

\* A durable counter moves only when a result on that key is released, and
\* then it moves down; no other result appears on a limited-use key.
LEMMA DurableCases ==
    ASSUME IInv, Next
    PROVE  \/ /\ remaining' = remaining /\ live' \subseteq live
              /\ \A q \in Ops : KeyOf[q] \in Limited /\ Used(q)' => Used(q)
           \/ \E o \in Ops :
                /\ Consumes(o)
                /\ \A q \in Ops \ {o} : Used(q)' => Used(q)
<1>0. /\ pc \in [Ops -> PCs] /\ outcome \in [Ops -> Outcomes] /\ held \in [Ops -> Ops \cup {None}]
      /\ reserved \in [Ops -> BOOLEAN] /\ live \subseteq Keys /\ remaining \in [Keys -> Nat]
      /\ ActiveReserved /\ ActiveBeforeEnd
  BY DEF IInv, TypeOK
<1> USE DEF Used, Goto, SetOutcome
<1>1. ASSUME NEW o \in Ops, ThreadStep(o)
      PROVE  \/ /\ remaining' = remaining /\ live' \subseteq live
                /\ \A q \in Ops : KeyOf[q] \in Limited /\ Used(q)' => Used(q)
             \/ /\ Consumes(o)
                /\ \A q \in Ops \ {o} : Used(q)' => Used(q)
  <2>1. CASE Reserve(o)
    BY <1>0, <2>1 DEF Reserve
  <2>2. CASE NotAuthorized(o) \/ BeginFails(o) \/ ReencryptFails(o) \/ BackendBusy(o)
             \/ ImportFails(o)
    BY <1>0, <2>2 DEF NotAuthorized, BeginFails, ReencryptFails, BackendBusy, ImportFails, GiveUp
  <2>3. CASE Begin(o) \/ CreateOperation(o) \/ PruneChoose(o) \/ PruneGet(o)
    BY <1>0, <2>3 DEF Begin, CreateOperation, PruneChoose, PruneGet
  <2>4. CASE UpdateReturns(o) \/ UpdateFails(o) \/ FinishKm(o) \/ FinishReturns(o)
             \/ AbortKm(o) \/ ImportKm(o)
    BY <1>0, <2>4 DEF UpdateReturns, UpdateFails, FinishKm, FinishReturns, AbortKm, ImportKm
  <2>5. CASE PruneMisses(o) \/ PruneSets(o) \/ PruneAborts(o)
    BY <1>0, <2>5, HeldIsOp DEF PruneMisses, PruneSets, PruneAborts, DropOperation
  <2>6. CASE Commit(o)
    BY <1>0, <2>6 DEF Commit, Consumes, ActiveReserved, ActiveBeforeEnd, InCall
  <2>7. CASE ImportStores(o)
    BY <1>0, <2>7 DEF ImportStores, Consumes, ActiveReserved, ActiveBeforeEnd, Importing
  <2> QED BY <1>1, <2>1, <2>2, <2>3, <2>4, <2>5, <2>6, <2>7 DEF ThreadStep
<1>2. ASSUME NEW o \in Ops, ClientStep(o)
      PROVE  /\ remaining' = remaining /\ live' = live
             /\ \A q \in Ops : Used(q)' => Used(q)
  BY <1>0, <1>2 DEF ClientStep, LoadKey, CallFinalized, CallRefused, Update, Finish, Abort,
              ClientDrops, LetGo, DropOperation
<1>3. CASE (\E k \in Keys : UnbindKey(k)) \/ Tick \/ Crash \/ Finished
  BY <1>0, <1>3 DEF UnbindKey, Tick, Crash, Finished, vars
<1> QED BY <1>1, <1>2, <1>3 DEF Next

\* No more reservations than durable uses.
LEMMA OversubscriptionStep ==
    ASSUME IInv, Next PROVE NoOversubscription'
<1> SUFFICES ASSUME NEW k \in live' \cap Limited PROVE inFlight'[k] <= remaining'[k]
  BY DEF NoOversubscription
<1>0. k \in Keys /\ inFlight[k] \in Nat /\ remaining[k] \in Nat
  BY DEF IInv, TypeOK
<1>1. ASSUME NEW o \in Ops, Consumes(o) PROVE inFlight'[k] <= remaining'[k]
  <2>1. k \in live /\ inFlight[k] <= remaining[k]
    BY <1>0, <1>1 DEF Consumes, ConsumeUse, IInv, NoOversubscription
  <2>2. /\ inFlight'[k] \in Nat /\ inFlight'[k] <= inFlight[k]
        /\ KeyOf[o] = k => inFlight'[k] = inFlight[k] - 1
    BY <1>0, <1>1, Released DEF Consumes, IInv
  <2>3. remaining'[k] = IF KeyOf[o] = k THEN remaining[k] - 1 ELSE remaining[k]
    BY <1>0, <1>1 DEF Consumes, ConsumeUse, IInv, TypeOK
  <2> QED BY <1>0, <2>1, <2>2, <2>3
<1>2. CASE remaining' = remaining /\ live' \subseteq live
  <2>0. k \in live /\ inFlight[k] <= remaining[k]
    BY <1>2 DEF IInv, NoOversubscription
  <2>1. CASE KeepUsage
    BY <1>2, <2>0, <2>1 DEF KeepUsage
  <2>2. ASSUME NEW p \in Ops, ReleaseUsage(p) PROVE inFlight'[k] <= remaining'[k]
    <3>1. inFlight'[k] \in Nat /\ inFlight'[k] <= inFlight[k]
      BY <1>0, <2>2, Released DEF IInv
    <3> QED BY <1>0, <1>2, <2>0, <3>1
  <2>3. ASSUME NEW o \in Ops, Takes(o) PROVE inFlight'[k] <= remaining'[k]
    BY <1>0, <1>2, <2>0, <2>3 DEF Takes, CanReserve, IInv, TypeOK
  <2>4. CASE Crash
    BY <1>0, <1>2, <2>4 DEF Crash
  <2> QED BY <2>1, <2>2, <2>3, <2>4, UsageCases
<1> QED BY <1>1, <1>2, DurableCases

\* What was handed out and what is left stay within the limit.
LEMMA UsageLimitStep ==
    ASSUME IInv, Next PROVE UsageLimitKept'
<1> SUFFICES ASSUME NEW k \in Limited
             PROVE  Cardinality(UsesOf(k)') + remaining'[k] <= Limit[k]
  BY DEF UsageLimitKept
<1>0. /\ k \in Keys /\ remaining[k] \in Nat /\ Limit[k] \in Nat
      /\ IsFiniteSet(UsesOf(k)) /\ Cardinality(UsesOf(k)) \in Nat
      /\ Cardinality(UsesOf(k)) + remaining[k] <= Limit[k]
  BY FS_Subset, FS_CardinalityType DEF IInv, TypeOK, UsageLimitKept, UsesOf
<1>1. ASSUME UsesOf(k)' \subseteq UsesOf(k), remaining'[k] \in Nat, remaining'[k] <= remaining[k]
      PROVE  Cardinality(UsesOf(k)') + remaining'[k] <= Limit[k]
  <2>1. Cardinality(UsesOf(k)') <= Cardinality(UsesOf(k)) /\ Cardinality(UsesOf(k)') \in Nat
    BY <1>0, <1>1, FS_Subset, FS_CardinalityType
  <2> QED BY <1>0, <1>1, <2>1
<1>2. CASE /\ remaining' = remaining
           /\ \A q \in Ops : KeyOf[q] \in Limited /\ Used(q)' => Used(q)
  <2>1. UsesOf(k)' \subseteq UsesOf(k)
    BY <1>2 DEF UsesOf, Used
  <2> QED BY <1>0, <1>1, <1>2, <2>1
<1>3. ASSUME NEW o \in Ops, Consumes(o), \A q \in Ops \ {o} : Used(q)' => Used(q)
      PROVE  Cardinality(UsesOf(k)') + remaining'[k] <= Limit[k]
  <2>1. CASE KeyOf[o] # k
    <3>1. UsesOf(k)' \subseteq UsesOf(k)
      BY <1>3, <2>1 DEF UsesOf, Used
    <3>2. remaining'[k] = remaining[k]
      BY <1>0, <1>3, <2>1 DEF Consumes, ConsumeUse, IInv, TypeOK
    <3> QED BY <1>0, <1>1, <3>1, <3>2
  <2>2. CASE KeyOf[o] = k
    <3>1. UsesOf(k)' \subseteq UsesOf(k) \cup {o}
      BY <1>3 DEF UsesOf, Used
    <3>a. /\ IsFiniteSet(UsesOf(k) \cup {o})
          /\ \/ Cardinality(UsesOf(k) \cup {o}) = Cardinality(UsesOf(k))
             \/ Cardinality(UsesOf(k) \cup {o}) = Cardinality(UsesOf(k)) + 1
      BY <1>0, FS_AddElement, Zenon
    <3>2. /\ IsFiniteSet(UsesOf(k) \cup {o})
          /\ Cardinality(UsesOf(k) \cup {o}) <= Cardinality(UsesOf(k)) + 1
          /\ Cardinality(UsesOf(k) \cup {o}) \in Nat
      BY <1>0, <3>a
    <3>3. /\ Cardinality(UsesOf(k)') <= Cardinality(UsesOf(k) \cup {o})
          /\ Cardinality(UsesOf(k)') \in Nat
      BY <3>1, <3>2, FS_Subset, FS_CardinalityType
    <3>4. remaining'[k] = remaining[k] - 1
      BY <1>0, <1>3, <2>2 DEF Consumes, ConsumeUse, IInv, TypeOK
    <3> QED BY <1>0, <3>2, <3>3, <3>4
  <2> QED BY <2>1, <2>2
<1> QED BY <1>2, <1>3, DurableCases
-----------------------------------------------------------------------------
(***************************************************************************)
(* Where the threads, the references and the outcomes are.                 *)
(***************************************************************************)

\* Every thread stays at a known place.
LEMMA PcTypeStep == ASSUME IInv, Next PROVE pc' \in [Ops -> PCs]
<1>0. pc \in [Ops -> PCs]
  BY DEF IInv, TypeOK
<1> USE DEF Goto, PCs, Client, InCall, Creating, Importing
<1>1. ASSUME NEW o \in Ops, ThreadStep(o) PROVE pc' \in [Ops -> PCs]
  <2>1. CASE NotAuthorized(o) \/ BeginFails(o) \/ ReencryptFails(o) \/ BackendBusy(o) \/
             ImportFails(o)
    BY <1>0, <2>1 DEF NotAuthorized, GiveUp, BeginFails, ReencryptFails, BackendBusy,
      ImportFails
  <2>2. CASE UpdateReturns(o) \/ AbortKm(o) \/ ImportKm(o)
    BY <1>0, <2>2 DEF UpdateReturns, AbortKm, ImportKm
  <2>3. CASE Reserve(o)
    BY <1>0, <2>3 DEF Reserve
  <2>4. CASE Begin(o)
    BY <1>0, <2>4 DEF Begin
  <2>5. CASE CreateOperation(o)
    BY <1>0, <2>5 DEF CreateOperation
  <2>6. CASE PruneChoose(o)
    BY <1>0, <2>6 DEF PruneChoose
  <2>7. CASE PruneGet(o)
    BY <1>0, <2>7 DEF PruneGet
  <2>8. CASE PruneMisses(o)
    BY <1>0, <2>8 DEF PruneMisses
  <2>9. CASE PruneSets(o)
    BY <1>0, <2>9 DEF PruneSets
  <2>10. CASE PruneAborts(o)
    BY <1>0, <2>10 DEF PruneAborts
  <2>11. CASE UpdateFails(o)
    BY <1>0, <2>11 DEF UpdateFails
  <2>12. CASE FinishKm(o)
    BY <1>0, <2>12 DEF FinishKm
  <2>13. CASE Commit(o)
    BY <1>0, <2>13 DEF Commit
  <2>14. CASE FinishReturns(o)
    BY <1>0, <2>14 DEF FinishReturns
  <2>15. CASE ImportStores(o)
    BY <1>0, <2>15 DEF ImportStores
  <2> QED BY <1>1, <2>1, <2>2, <2>3, <2>4, <2>5, <2>6, <2>7, <2>8, <2>9, <2>10, <2>11,
      <2>12, <2>13, <2>14, <2>15 DEF ThreadStep
<1>2. ASSUME NEW o \in Ops, ClientStep(o) PROVE pc' \in [Ops -> PCs]
  <2>1. CASE CallFinalized(o) \/ CallRefused(o) \/ ClientDrops(o)
    BY <1>0, <2>1 DEF CallFinalized, LetGo, CallRefused, ClientDrops
  <2>2. CASE Update(o) \/ Finish(o) \/ Abort(o)
    BY <1>0, <2>2 DEF Update, Finish, Abort
  <2>3. CASE LoadKey(o)
    BY <1>0, <2>3 DEF LoadKey
  <2> QED BY <1>2, <2>1, <2>2, <2>3 DEF ClientStep
<1>3. CASE (\E k \in Keys : UnbindKey(k)) \/ Tick \/ Finished
  BY <1>0, <1>3 DEF UnbindKey, Tick, Finished, vars
<1>4. CASE Crash
  BY <1>0, <1>4 DEF Crash
<1> QED BY <1>1, <1>2, <1>3, <1>4 DEF Next

\* Only outcomes are recorded.
LEMMA OutcomeTypeStep == ASSUME IInv, Next PROVE outcome' \in [Ops -> Outcomes]
<1>0. outcome \in [Ops -> Outcomes]
  BY DEF IInv, TypeOK
<1> USE DEF SetOutcome, Outcomes, DropOperation
<1>1. ASSUME NEW o \in Ops, ThreadStep(o) PROVE outcome' \in [Ops -> Outcomes]
  <2>1. CASE NotAuthorized(o) \/ BeginFails(o) \/ ReencryptFails(o) \/ BackendBusy(o) \/
             ImportFails(o)
    BY <1>0, <2>1 DEF NotAuthorized, GiveUp, BeginFails, ReencryptFails, BackendBusy,
      ImportFails
  <2>2. CASE UpdateReturns(o) \/ AbortKm(o) \/ ImportKm(o) \/ Reserve(o) \/ Begin(o) \/
             CreateOperation(o) \/ PruneChoose(o) \/ PruneGet(o) \/ PruneAborts(o)
    BY <1>0, <2>2 DEF UpdateReturns, AbortKm, ImportKm, Reserve, Begin, CreateOperation,
      PruneChoose, PruneGet, PruneAborts
  <2>3. CASE UpdateFails(o) \/ FinishKm(o) \/ Commit(o) \/ FinishReturns(o)
    BY <1>0, <2>3 DEF UpdateFails, FinishKm, Commit, FinishReturns
  <2>4. CASE PruneMisses(o)
    BY <1>0, <2>4 DEF PruneMisses
  <2>5. CASE PruneSets(o)
    BY <1>0, <2>5 DEF PruneSets
  <2>6. CASE ImportStores(o)
    BY <1>0, <2>6 DEF ImportStores
  <2> QED BY <1>1, <2>1, <2>2, <2>3, <2>4, <2>5, <2>6 DEF ThreadStep
<1>2. ASSUME NEW o \in Ops, ClientStep(o) PROVE outcome' \in [Ops -> Outcomes]
  <2>1. CASE CallFinalized(o) \/ CallRefused(o) \/ ClientDrops(o)
    BY <1>0, <2>1 DEF CallFinalized, LetGo, CallRefused, ClientDrops
  <2>2. CASE LoadKey(o) \/ Update(o) \/ Finish(o)
    BY <1>0, <2>2 DEF LoadKey, Update, Finish
  <2>3. CASE Abort(o)
    BY <1>0, <2>3 DEF Abort
  <2> QED BY <1>2, <2>1, <2>2, <2>3 DEF ClientStep
<1>3. CASE (\E k \in Keys : UnbindKey(k)) \/ Tick \/ Finished
  BY <1>0, <1>3 DEF UnbindKey, Tick, Finished, vars
<1>4. CASE Crash
  BY <1>0, <1>4 DEF Crash
<1> QED BY <1>1, <1>2, <1>3, <1>4 DEF Next

\* The clock and its readings are numbers.
LEMMA ClockTypeStep == ASSUME IInv, Next PROVE lastUsage' \in [Ops -> Nat] /\ now' \in Nat
<1>0. lastUsage \in [Ops -> Nat] /\ now \in Nat
  BY DEF IInv, TypeOK
<1> USE DEF Touch
<1>1. ASSUME NEW o \in Ops, ThreadStep(o) PROVE lastUsage' \in [Ops -> Nat] /\ now' \in Nat
  <2>1. CASE Reserve(o) \/ NotAuthorized(o) \/ Begin(o) \/ BeginFails(o) \/
             ReencryptFails(o) \/ PruneChoose(o) \/ BackendBusy(o) \/ PruneGet(o) \/
             PruneMisses(o) \/ PruneSets(o) \/ PruneAborts(o) \/ UpdateReturns(o) \/
             UpdateFails(o) \/ FinishKm(o) \/ Commit(o) \/ FinishReturns(o) \/
             AbortKm(o) \/ ImportKm(o) \/ ImportFails(o) \/ ImportStores(o)
    BY <1>0, <2>1 DEF Reserve, NotAuthorized, GiveUp, Begin, BeginFails, ReencryptFails,
      PruneChoose, BackendBusy, PruneGet, PruneMisses, PruneSets, PruneAborts,
      UpdateReturns, UpdateFails, FinishKm, Commit, FinishReturns, AbortKm, ImportKm,
      ImportFails, ImportStores
  <2>2. CASE CreateOperation(o)
    BY <1>0, <2>2 DEF CreateOperation
  <2> QED BY <1>1, <2>1, <2>2 DEF ThreadStep
<1>2. ASSUME NEW o \in Ops, ClientStep(o) PROVE lastUsage' \in [Ops -> Nat] /\ now' \in Nat
  <2>1. CASE Update(o) \/ Finish(o)
    BY <1>0, <2>1 DEF Update, Finish
  <2>2. CASE LoadKey(o) \/ CallFinalized(o) \/ CallRefused(o) \/ Abort(o) \/
             ClientDrops(o)
    BY <1>0, <2>2 DEF LoadKey, CallFinalized, LetGo, CallRefused, Abort, ClientDrops
  <2> QED BY <1>2, <2>1, <2>2 DEF ClientStep
<1>3. CASE (\E k \in Keys : UnbindKey(k)) \/ Tick \/ Finished
  BY <1>0, <1>3 DEF UnbindKey, Tick, Finished, vars
<1>4. CASE Crash
  BY <1>0, <1>4 DEF Crash
<1> QED BY <1>1, <1>2, <1>3, <1>4 DEF Next

\* The weak references are to operations.
LEMMA SlotTypeStep == ASSUME IInv, Next PROVE index' \in [Ops -> Nat] /\ slots' \in Seq(Ops)
<1>0. index \in [Ops -> Nat] /\ slots \in Seq(Ops) /\ FirstFree \in 1..(Len(slots) + 1)
  BY FirstFreeOK DEF IInv, TypeOK
<1>1. ASSUME NEW o \in Ops, ThreadStep(o) PROVE index' \in [Ops -> Nat] /\ slots' \in Seq(Ops)
  <2>1. CASE Reserve(o) \/ NotAuthorized(o) \/ Begin(o) \/ BeginFails(o) \/
             ReencryptFails(o) \/ PruneChoose(o) \/ BackendBusy(o) \/ PruneGet(o) \/
             PruneMisses(o) \/ PruneSets(o) \/ PruneAborts(o) \/ UpdateReturns(o) \/
             UpdateFails(o) \/ FinishKm(o) \/ Commit(o) \/ FinishReturns(o) \/
             AbortKm(o) \/ ImportKm(o) \/ ImportFails(o) \/ ImportStores(o)
    BY <1>0, <2>1 DEF Reserve, NotAuthorized, GiveUp, Begin, BeginFails, ReencryptFails,
      PruneChoose, BackendBusy, PruneGet, PruneMisses, PruneSets, PruneAborts,
      UpdateReturns, UpdateFails, FinishKm, Commit, FinishReturns, AbortKm, ImportKm,
      ImportFails, ImportStores
  <2>2. CASE CreateOperation(o)
    BY <1>0, <2>2 DEF CreateOperation
  <2> QED BY <1>1, <2>1, <2>2 DEF ThreadStep
<1>2. ASSUME NEW o \in Ops, ClientStep(o) PROVE index' \in [Ops -> Nat] /\ slots' \in Seq(Ops)
  <2>1. CASE LoadKey(o) \/ CallFinalized(o) \/ CallRefused(o) \/ Update(o) \/ Finish(o)
             \/ Abort(o) \/ ClientDrops(o)
    BY <1>0, <2>1 DEF LoadKey, CallFinalized, LetGo, CallRefused, Update, Finish, Abort,
      ClientDrops
  <2> QED BY <1>2, <2>1 DEF ClientStep
<1>3. CASE (\E k \in Keys : UnbindKey(k)) \/ Tick \/ Finished
  BY <1>0, <1>3 DEF UnbindKey, Tick, Finished, vars
<1>4. CASE Crash
  BY <1>0, <1>4 DEF Crash
<1> QED BY <1>1, <1>2, <1>3, <1>4 DEF Next

\* A candidate is a well-formed record.
LEMMA CandTypeStep == ASSUME IInv, Next PROVE cand' \in [Ops -> [op : Ops \cup {None}, index : Nat, last_usage : Nat]]
<1>0. /\ cand \in [Ops -> [op : Ops \cup {None}, index : Nat, last_usage : Nat]]
      /\ index \in [Ops -> Nat] /\ lastUsage \in [Ops -> Nat]
  BY DEF IInv, TypeOK
<1>1. ASSUME NEW o \in Ops, ThreadStep(o) PROVE cand' \in [Ops -> [op : Ops \cup {None}, index : Nat, last_usage : Nat]]
  <2>1. CASE Reserve(o) \/ NotAuthorized(o) \/ Begin(o) \/ BeginFails(o) \/
             ReencryptFails(o) \/ CreateOperation(o) \/ BackendBusy(o) \/ PruneGet(o) \/
             PruneMisses(o) \/ PruneSets(o) \/ PruneAborts(o) \/ UpdateReturns(o) \/
             UpdateFails(o) \/ FinishKm(o) \/ Commit(o) \/ FinishReturns(o) \/
             AbortKm(o) \/ ImportKm(o) \/ ImportFails(o) \/ ImportStores(o)
    BY <1>0, <2>1 DEF Reserve, NotAuthorized, GiveUp, Begin, BeginFails, ReencryptFails,
      CreateOperation, BackendBusy, PruneGet, PruneMisses, PruneSets, PruneAborts,
      UpdateReturns, UpdateFails, FinishKm, Commit, FinishReturns, AbortKm, ImportKm,
      ImportFails, ImportStores
  <2>2. CASE PruneChoose(o)
    BY <1>0, <2>2 DEF PruneChoose, Gathered
  <2> QED BY <1>1, <2>1, <2>2 DEF ThreadStep
<1>2. ASSUME NEW o \in Ops, ClientStep(o) PROVE cand' \in [Ops -> [op : Ops \cup {None}, index : Nat, last_usage : Nat]]
  <2>1. CASE LoadKey(o) \/ CallFinalized(o) \/ CallRefused(o) \/ Update(o) \/ Finish(o)
             \/ Abort(o) \/ ClientDrops(o)
    BY <1>0, <2>1 DEF LoadKey, CallFinalized, LetGo, CallRefused, Update, Finish, Abort,
      ClientDrops
  <2> QED BY <1>2, <2>1 DEF ClientStep
<1>3. CASE (\E k \in Keys : UnbindKey(k)) \/ Tick \/ Finished
  BY <1>0, <1>3 DEF UnbindKey, Tick, Finished, vars
<1>4. CASE Crash
  BY <1>0, <1>4 DEF Crash, NoCand
<1> QED BY <1>1, <1>2, <1>3, <1>4 DEF Next

\* An upgraded reference is to an operation.
LEMMA HeldTypeStep == ASSUME IInv, Next PROVE held' \in [Ops -> Ops \cup {None}]
<1>0. held \in [Ops -> Ops \cup {None}]
  BY DEF IInv, TypeOK
<1>1. ASSUME NEW o \in Ops, ThreadStep(o) PROVE held' \in [Ops -> Ops \cup {None}]
  <2>1. CASE Reserve(o) \/ NotAuthorized(o) \/ Begin(o) \/ BeginFails(o) \/
             ReencryptFails(o) \/ CreateOperation(o) \/ PruneChoose(o) \/ BackendBusy(o)
             \/ PruneSets(o) \/ UpdateReturns(o) \/ UpdateFails(o) \/ FinishKm(o) \/
             Commit(o) \/ FinishReturns(o) \/ AbortKm(o) \/ ImportKm(o) \/
             ImportFails(o) \/ ImportStores(o)
    BY <1>0, <2>1 DEF Reserve, NotAuthorized, GiveUp, Begin, BeginFails, ReencryptFails,
      CreateOperation, PruneChoose, BackendBusy, PruneSets, UpdateReturns, UpdateFails,
      FinishKm, Commit, FinishReturns, AbortKm, ImportKm, ImportFails, ImportStores
  <2>2. CASE PruneMisses(o) \/ PruneAborts(o)
    BY <1>0, <2>2 DEF PruneMisses, PruneAborts
  <2>3. CASE PruneGet(o)
    BY <1>0, <2>3, SlotIsOp DEF PruneGet
  <2> QED BY <1>1, <2>1, <2>2, <2>3 DEF ThreadStep
<1>2. ASSUME NEW o \in Ops, ClientStep(o) PROVE held' \in [Ops -> Ops \cup {None}]
  <2>1. CASE LoadKey(o) \/ CallFinalized(o) \/ CallRefused(o) \/ Update(o) \/ Finish(o)
             \/ Abort(o) \/ ClientDrops(o)
    BY <1>0, <2>1 DEF LoadKey, CallFinalized, LetGo, CallRefused, Update, Finish, Abort,
      ClientDrops
  <2> QED BY <1>2, <2>1 DEF ClientStep
<1>3. CASE (\E k \in Keys : UnbindKey(k)) \/ Tick \/ Finished
  BY <1>0, <1>3 DEF UnbindKey, Tick, Finished, vars
<1>4. CASE Crash
  BY <1>0, <1>4 DEF Crash
<1> QED BY <1>1, <1>2, <1>3, <1>4 DEF Next

\* A key is locked by an operation or by nobody.
LEMMA LockTypeStep == ASSUME IInv, Next PROVE keyLock' \in [Keys -> Ops \cup {None}]
<1>0. keyLock \in [Keys -> Ops \cup {None}]
  BY DEF IInv, TypeOK
<1> USE DEF Unlock
<1>1. ASSUME NEW o \in Ops, ThreadStep(o) PROVE keyLock' \in [Keys -> Ops \cup {None}]
  <2>1. CASE NotAuthorized(o) \/ BeginFails(o) \/ ReencryptFails(o) \/ BackendBusy(o) \/
             ImportFails(o) \/ ImportStores(o) \/ CreateOperation(o)
    BY <1>0, <2>1 DEF NotAuthorized, GiveUp, BeginFails, ReencryptFails, BackendBusy,
      ImportFails, ImportStores, CreateOperation
  <2>2. CASE Begin(o) \/ PruneChoose(o) \/ PruneGet(o) \/ PruneMisses(o) \/ PruneSets(o)
             \/ PruneAborts(o) \/ UpdateReturns(o) \/ UpdateFails(o) \/ FinishKm(o) \/
             Commit(o) \/ FinishReturns(o) \/ AbortKm(o) \/ ImportKm(o)
    BY <1>0, <2>2 DEF Begin, PruneChoose, PruneGet, PruneMisses, PruneSets, PruneAborts,
      UpdateReturns, UpdateFails, FinishKm, Commit, FinishReturns, AbortKm, ImportKm
  <2>3. CASE Reserve(o)
    BY <1>0, <2>3 DEF Reserve
  <2> QED BY <1>1, <2>1, <2>2, <2>3 DEF ThreadStep
<1>2. ASSUME NEW o \in Ops, ClientStep(o) PROVE keyLock' \in [Keys -> Ops \cup {None}]
  <2>1. CASE CallFinalized(o) \/ CallRefused(o) \/ Update(o) \/ Finish(o) \/ Abort(o) \/
             ClientDrops(o)
    BY <1>0, <2>1 DEF CallFinalized, LetGo, CallRefused, Update, Finish, Abort, ClientDrops
  <2>2. CASE LoadKey(o)
    BY <1>0, <2>2 DEF LoadKey
  <2> QED BY <1>2, <2>1, <2>2 DEF ClientStep
<1>3. CASE (\E k \in Keys : UnbindKey(k)) \/ Tick \/ Finished
  BY <1>0, <1>3 DEF UnbindKey, Tick, Finished, vars
<1>4. CASE Crash
  BY <1>0, <1>4 DEF Crash
<1> QED BY <1>1, <1>2, <1>3, <1>4 DEF Next

\* The TA holds operations.
LEMMA KmTypeStep == ASSUME IInv, Next PROVE km' \subseteq Ops
<1>0. km \subseteq Ops
  BY DEF IInv, TypeOK
<1> USE DEF DropOperation
<1>1. ASSUME NEW o \in Ops, ThreadStep(o) PROVE km' \subseteq Ops
  <2>1. CASE Reserve(o) \/ NotAuthorized(o) \/ BeginFails(o) \/ ReencryptFails(o) \/
             CreateOperation(o) \/ PruneChoose(o) \/ BackendBusy(o) \/ PruneGet(o) \/
             PruneSets(o) \/ UpdateReturns(o) \/ Commit(o) \/ FinishReturns(o) \/
             ImportKm(o) \/ ImportFails(o) \/ ImportStores(o)
    BY <1>0, <2>1 DEF Reserve, NotAuthorized, GiveUp, BeginFails, ReencryptFails,
      CreateOperation, PruneChoose, BackendBusy, PruneGet, PruneSets, UpdateReturns, Commit,
      FinishReturns, ImportKm, ImportFails, ImportStores
  <2>2. CASE PruneAborts(o) \/ FinishKm(o) \/ UpdateFails(o) \/ AbortKm(o)
    BY <1>0, <2>2 DEF PruneAborts, FinishKm, UpdateFails, AbortKm
  <2>3. CASE Begin(o)
    BY <1>0, <2>3 DEF Begin
  <2>4. CASE PruneMisses(o)
    BY <1>0, <2>4 DEF PruneMisses
  <2> QED BY <1>1, <2>1, <2>2, <2>3, <2>4 DEF ThreadStep
<1>2. ASSUME NEW o \in Ops, ClientStep(o) PROVE km' \subseteq Ops
  <2>1. CASE LoadKey(o) \/ CallFinalized(o) \/ CallRefused(o) \/ Update(o) \/ Finish(o)
             \/ Abort(o) \/ ClientDrops(o)
    BY <1>0, <2>1 DEF LoadKey, CallFinalized, LetGo, CallRefused, Update, Finish, Abort,
      ClientDrops
  <2> QED BY <1>2, <2>1 DEF ClientStep
<1>3. CASE (\E k \in Keys : UnbindKey(k)) \/ Tick \/ Finished
  BY <1>0, <1>3 DEF UnbindKey, Tick, Finished, vars
<1>4. CASE Crash
  BY <1>0, <1>4 DEF Crash
<1> QED BY <1>1, <1>2, <1>3, <1>4 DEF Next


\* Every variable stays in its type.
LEMMA TypeStep == ASSUME IInv, Next PROVE TypeOK'
<1>1. live' \subseteq Keys /\ remaining' \in [Keys -> Nat]
  <2>1. live \subseteq Keys /\ remaining \in [Keys -> Nat]
    BY DEF IInv, TypeOK
  <2>2. ASSUME NEW o \in Ops, Consumes(o)
        PROVE  live' \subseteq Keys /\ remaining' \in [Keys -> Nat]
    <3>1. KeyOf[o] \in Keys /\ remaining[KeyOf[o]] - 1 \in Nat
      BY <2>1, <2>2 DEF Consumes
    <3>2. QED
      BY <2>1, <2>2, <3>1 DEF Consumes, ConsumeUse
  <2>3. QED
    BY <2>1, <2>2, DurableCases
<1> QED BY <1>1, CountStep, PcTypeStep, OutcomeTypeStep, ClockTypeStep, SlotTypeStep,
           CandTypeStep, HeldTypeStep, LockTypeStep, KmTypeStep DEF TypeOK

\* HeldWhilePruning is kept.
LEMMA HeldStep == ASSUME IInv, Next PROVE HeldWhilePruning'
<1>0. pc \in [Ops -> PCs] /\ held \in [Ops -> Ops \cup {None}] /\ HeldWhilePruning
  BY DEF IInv, TypeOK
<1> USE DEF HeldWhilePruning, Goto, Ready
<1>1. ASSUME NEW o \in Ops, ThreadStep(o) PROVE HeldWhilePruning'
  <2>1. CASE NotAuthorized(o) \/ BeginFails(o) \/ ReencryptFails(o) \/ BackendBusy(o) \/
             ImportFails(o)
    BY <1>0, <2>1 DEF NotAuthorized, GiveUp, BeginFails, ReencryptFails, BackendBusy,
      ImportFails
  <2>2. CASE UpdateReturns(o) \/ AbortKm(o) \/ ImportKm(o) \/ UpdateFails(o) \/
             FinishKm(o) \/ FinishReturns(o)
    BY <1>0, <2>2 DEF UpdateReturns, AbortKm, ImportKm, UpdateFails, FinishKm, FinishReturns
  <2>3. CASE Reserve(o)
    BY <1>0, <2>3 DEF Reserve
  <2>4. CASE Begin(o)
    BY <1>0, <2>4 DEF Begin
  <2>5. CASE CreateOperation(o)
    BY <1>0, <2>5 DEF CreateOperation
  <2>6. CASE PruneChoose(o)
    BY <1>0, <2>6 DEF PruneChoose
  <2>7. CASE PruneGet(o)
    BY <1>0, <2>7, SlotIsOp DEF PruneGet
  <2>8. CASE PruneMisses(o)
    BY <1>0, <2>8 DEF PruneMisses
  <2>9. CASE PruneSets(o)
    BY <1>0, <2>9 DEF PruneSets
  <2>10. CASE PruneAborts(o)
    BY <1>0, <2>10 DEF PruneAborts
  <2>11. CASE Commit(o)
    BY <1>0, <2>11 DEF Commit
  <2>12. CASE ImportStores(o)
    BY <1>0, <2>12 DEF ImportStores
  <2> QED BY <1>1, <2>1, <2>2, <2>3, <2>4, <2>5, <2>6, <2>7, <2>8, <2>9, <2>10, <2>11, <2>12 DEF ThreadStep
<1>2. ASSUME NEW o \in Ops, ClientStep(o) PROVE HeldWhilePruning'
  <2>1. CASE Update(o) \/ Finish(o) \/ Abort(o)
    BY <1>0, <2>1 DEF Update, Finish, Abort
  <2>2. CASE CallFinalized(o) \/ CallRefused(o) \/ ClientDrops(o)
    BY <1>0, <2>2 DEF CallFinalized, LetGo, CallRefused, ClientDrops
  <2>3. CASE LoadKey(o)
    BY <1>0, <2>3 DEF LoadKey
  <2> QED BY <1>2, <2>1, <2>2, <2>3 DEF ClientStep
<1>3. CASE (\E k \in Keys : UnbindKey(k)) \/ Tick \/ Finished
  BY <1>0, <1>3 DEF UnbindKey, Tick, Finished, vars
<1>4. CASE Crash
  BY <1>0, <1>4 DEF Crash
<1> QED BY <1>1, <1>2, <1>3, <1>4 DEF Next

\* HeldWasOpened is kept: only living operations are looked up.
LEMMA OpenedStep == ASSUME IInv, Next PROVE HeldWasOpened'
<1>0. /\ pc \in [Ops -> PCs] /\ held \in [Ops -> Ops \cup {None}]
      /\ HeldWhilePruning /\ HeldWasOpened
  BY DEF IInv, TypeOK
<1> USE DEF HeldWasOpened, Goto, Ready, Client, InCall
<1>1. ASSUME NEW o \in Ops, ThreadStep(o) PROVE HeldWasOpened'
  <2>1. CASE NotAuthorized(o) \/ BeginFails(o) \/ ReencryptFails(o) \/ BackendBusy(o) \/
             ImportFails(o)
    BY <1>0, <2>1 DEF NotAuthorized, GiveUp, BeginFails, ReencryptFails, BackendBusy,
      ImportFails
  <2>2. CASE Begin(o) \/ ImportKm(o) \/ UpdateReturns(o) \/ FinishReturns(o) \/
             AbortKm(o)
    BY <1>0, <2>2 DEF Begin, ImportKm, UpdateReturns, FinishReturns, AbortKm
  <2>3. CASE UpdateFails(o) \/ FinishKm(o) \/ Commit(o) \/ ImportStores(o)
    BY <1>0, <2>3 DEF UpdateFails, FinishKm, Commit, ImportStores
  <2>4. CASE Reserve(o)
    BY <1>0, <2>4 DEF Reserve
  <2>5. CASE CreateOperation(o)
    BY <1>0, <2>5 DEF CreateOperation
  <2>6. CASE PruneChoose(o)
    BY <1>0, <2>6 DEF PruneChoose
  <2>7. CASE PruneGet(o)
    BY <1>0, <2>7, SlotIsOp DEF PruneGet, Alive
  <2>8. CASE PruneMisses(o)
    BY <1>0, <2>8, HeldIsOp DEF PruneMisses
  <2>9. CASE PruneSets(o)
    BY <1>0, <2>9, HeldIsOp DEF PruneSets
  <2>10. CASE PruneAborts(o)
    BY <1>0, <2>10, HeldIsOp DEF PruneAborts
  <2> QED BY <1>1, <2>1, <2>2, <2>3, <2>4, <2>5, <2>6, <2>7, <2>8, <2>9, <2>10 DEF ThreadStep
<1>2. ASSUME NEW o \in Ops, ClientStep(o) PROVE HeldWasOpened'
  <2>1. CASE CallFinalized(o) \/ CallRefused(o) \/ ClientDrops(o)
    BY <1>0, <2>1 DEF CallFinalized, LetGo, CallRefused, ClientDrops
  <2>2. CASE LoadKey(o) \/ Update(o) \/ Finish(o) \/ Abort(o)
    BY <1>0, <2>2 DEF LoadKey, Update, Finish, Abort
  <2> QED BY <1>2, <2>1, <2>2 DEF ClientStep
<1>3. CASE (\E k \in Keys : UnbindKey(k)) \/ Tick \/ Finished
  BY <1>0, <1>3 DEF UnbindKey, Tick, Finished, vars
<1>4. CASE Crash
  BY <1>0, <1>4 DEF Crash
<1> QED BY <1>1, <1>2, <1>3, <1>4 DEF Next

\* PruningMarked is kept: the outcome mutex keeps client calls out.
LEMMA MarkedStep == ASSUME IInv, Next PROVE PruningMarked'
<1>0. /\ pc \in [Ops -> PCs] /\ held \in [Ops -> Ops \cup {None}]
      /\ outcome \in [Ops -> Outcomes]
      /\ HeldWhilePruning /\ HeldWasOpened /\ PruningMarked
  BY DEF IInv, TypeOK
<1> USE DEF PruningMarked, HeldWhilePruning, HeldWasOpened, Goto, Ready, Client, InCall,
      SetOutcome, DropOperation, LockedByPruner, OutcomeLocked
<1>1. ASSUME NEW o \in Ops, ThreadStep(o) PROVE PruningMarked'
  <2>1. CASE NotAuthorized(o) \/ BeginFails(o) \/ ReencryptFails(o) \/ BackendBusy(o) \/
             ImportFails(o)
    BY <1>0, <2>1 DEF NotAuthorized, GiveUp, BeginFails, ReencryptFails, BackendBusy,
      ImportFails
  <2>2. CASE Begin(o) \/ ImportKm(o) \/ UpdateReturns(o) \/ FinishReturns(o) \/
             AbortKm(o)
    BY <1>0, <2>2 DEF Begin, ImportKm, UpdateReturns, FinishReturns, AbortKm
  <2>3. CASE UpdateFails(o) \/ FinishKm(o) \/ Commit(o) \/ ImportStores(o)
    BY <1>0, <2>3 DEF UpdateFails, FinishKm, Commit, ImportStores
  <2>4. CASE Reserve(o)
    BY <1>0, <2>4 DEF Reserve
  <2>5. CASE CreateOperation(o)
    BY <1>0, <2>5 DEF CreateOperation
  <2>6. CASE PruneChoose(o)
    BY <1>0, <2>6 DEF PruneChoose
  <2>7. CASE PruneGet(o)
    BY <1>0, <2>7, SlotIsOp DEF PruneGet
  <2>8. CASE PruneMisses(o)
    BY <1>0, <2>8, HeldIsOp DEF PruneMisses, MayPrune
  <2>9. CASE PruneSets(o)
    BY <1>0, <2>9, HeldIsOp DEF PruneSets, MayPrune
  <2>10. CASE PruneAborts(o)
    BY <1>0, <2>10, HeldIsOp DEF PruneAborts
  <2> QED BY <1>1, <2>1, <2>2, <2>3, <2>4, <2>5, <2>6, <2>7, <2>8, <2>9, <2>10 DEF ThreadStep
<1>2. ASSUME NEW o \in Ops, ClientStep(o) PROVE PruningMarked'
  <2>1. CASE CallFinalized(o) \/ CallRefused(o) \/ ClientDrops(o)
    BY <1>0, <2>1 DEF CallFinalized, LetGo, CallRefused, ClientDrops
  <2>2. CASE LoadKey(o) \/ Update(o) \/ Finish(o) \/ Abort(o)
    BY <1>0, <2>2 DEF LoadKey, Update, Finish, Abort
  <2> QED BY <1>2, <2>1, <2>2 DEF ClientStep
<1>3. CASE (\E k \in Keys : UnbindKey(k)) \/ Tick \/ Finished
  BY <1>0, <1>3 DEF UnbindKey, Tick, Finished, vars
<1>4. CASE Crash
  BY <1>0, <1>4 DEF Crash
<1> QED BY <1>1, <1>2, <1>3, <1>4 DEF Next

\* An operation comes alive only when it is created.
LEMMA AliveStep == ASSUME IInv, Next PROVE (\A p \in Ops : Alive(p)' => Alive(p) \/ CreateOperation(p))
<1>0. /\ pc \in [Ops -> PCs] /\ held \in [Ops -> Ops \cup {None}]
      /\ HeldWhilePruning
  BY DEF IInv, TypeOK
<1> USE DEF Alive, HeldWhilePruning, Goto, Ready, Client, InCall
<1>1. ASSUME NEW o \in Ops, ThreadStep(o) PROVE (\A p \in Ops : Alive(p)' => Alive(p) \/ CreateOperation(p))
  <2>1. CASE NotAuthorized(o) \/ BeginFails(o) \/ ReencryptFails(o) \/ BackendBusy(o) \/
             ImportFails(o)
    BY <1>0, <2>1 DEF NotAuthorized, GiveUp, BeginFails, ReencryptFails, BackendBusy,
      ImportFails
  <2>2. CASE Begin(o) \/ ImportKm(o) \/ UpdateReturns(o) \/ FinishReturns(o) \/
             AbortKm(o)
    BY <1>0, <2>2 DEF Begin, ImportKm, UpdateReturns, FinishReturns, AbortKm
  <2>3. CASE UpdateFails(o) \/ FinishKm(o) \/ Commit(o) \/ ImportStores(o)
    BY <1>0, <2>3 DEF UpdateFails, FinishKm, Commit, ImportStores
  <2>4. CASE Reserve(o)
    BY <1>0, <2>4 DEF Reserve
  <2>5. CASE CreateOperation(o)
    BY <1>0, <2>5 DEF CreateOperation
  <2>6. CASE PruneChoose(o)
    BY <1>0, <2>6 DEF PruneChoose
  <2>7. CASE PruneGet(o)
    BY <1>0, <2>7, SlotIsOp DEF PruneGet
  <2>8. CASE PruneMisses(o)
    BY <1>0, <2>8, HeldIsOp DEF PruneMisses
  <2>9. CASE PruneSets(o)
    BY <1>0, <2>9, HeldIsOp DEF PruneSets
  <2>10. CASE PruneAborts(o)
    BY <1>0, <2>10, HeldIsOp DEF PruneAborts
  <2> QED BY <1>1, <2>1, <2>2, <2>3, <2>4, <2>5, <2>6, <2>7, <2>8, <2>9, <2>10 DEF ThreadStep
<1>2. ASSUME NEW o \in Ops, ClientStep(o) PROVE (\A p \in Ops : Alive(p)' => Alive(p) \/ CreateOperation(p))
  <2>1. CASE CallFinalized(o) \/ CallRefused(o) \/ ClientDrops(o)
    BY <1>0, <2>1 DEF CallFinalized, LetGo, CallRefused, ClientDrops
  <2>2. CASE LoadKey(o) \/ Update(o) \/ Finish(o) \/ Abort(o)
    BY <1>0, <2>2 DEF LoadKey, Update, Finish, Abort
  <2> QED BY <1>2, <2>1, <2>2 DEF ClientStep
<1>3. CASE (\E k \in Keys : UnbindKey(k)) \/ Tick \/ Finished
  BY <1>0, <1>3 DEF UnbindKey, Tick, Finished, vars
<1>4. CASE Crash
  BY <1>0, <1>4 DEF Crash
<1> QED BY <1>1, <1>2, <1>3, <1>4 DEF Next


\* The vector of weak references never shrinks while the process lives.
SlotsMove ==
    \/ slots' = slots /\ index' = index
    \/ \E q \in Ops : CreateOperation(q)
    \/ Crash

LEMMA SlotsGrow == ASSUME IInv, Next PROVE SlotsMove
<1>0. FirstFree \in 1..(Len(slots) + 1)
  BY FirstFreeOK DEF IInv
<1> USE DEF SlotsMove
<1>1. ASSUME NEW o \in Ops, ThreadStep(o) PROVE SlotsMove
  <2>1. CASE Reserve(o) \/ NotAuthorized(o) \/ Begin(o) \/ BeginFails(o) \/
             ReencryptFails(o) \/ PruneChoose(o) \/ BackendBusy(o) \/ PruneGet(o) \/
             PruneMisses(o) \/ PruneSets(o) \/ PruneAborts(o) \/ UpdateReturns(o) \/
             UpdateFails(o) \/ FinishKm(o) \/ Commit(o) \/ FinishReturns(o) \/
             AbortKm(o) \/ ImportKm(o) \/ ImportFails(o) \/ ImportStores(o)
    BY <1>0, <2>1 DEF Reserve, NotAuthorized, GiveUp, Begin, BeginFails, ReencryptFails,
      PruneChoose, BackendBusy, PruneGet, PruneMisses, PruneSets, PruneAborts,
      UpdateReturns, UpdateFails, FinishKm, Commit, FinishReturns, AbortKm, ImportKm,
      ImportFails, ImportStores
  <2>2. CASE CreateOperation(o)
    BY <1>0, <2>2 DEF CreateOperation
  <2> QED BY <1>1, <2>1, <2>2 DEF ThreadStep
<1>2. ASSUME NEW o \in Ops, ClientStep(o) PROVE SlotsMove
  <2>1. CASE LoadKey(o) \/ CallFinalized(o) \/ CallRefused(o) \/ Update(o) \/ Finish(o)
             \/ Abort(o) \/ ClientDrops(o)
    BY <1>0, <2>1 DEF LoadKey, CallFinalized, LetGo, CallRefused, Update, Finish, Abort,
      ClientDrops
  <2> QED BY <1>2, <2>1 DEF ClientStep
<1>3. CASE (\E k \in Keys : UnbindKey(k)) \/ Tick \/ Finished
  BY <1>0, <1>3 DEF UnbindKey, Tick, Finished, vars
<1>4. CASE Crash
  BY <1>0, <1>4 DEF Crash
<1> QED BY <1>1, <1>2, <1>3, <1>4 DEF Next


\* A new operation is indexed by its slot.
LEMMA Created ==
    ASSUME IInv, NEW o \in Ops, CreateOperation(o)
    PROVE  /\ Len(slots') \in Nat /\ Len(slots') >= Len(slots)
           /\ index'[o] \in 1..Len(slots')
           /\ \A p \in Ops \ {o} : index'[p] = index[p]
<1>1. slots \in Seq(Ops) /\ index \in [Ops -> Nat] /\ FirstFree \in 1..(Len(slots) + 1)
  BY FirstFreeOK DEF IInv, TypeOK
<1> QED BY <1>1 DEF CreateOperation

\* A candidate names an existing slot: it was read from a living operation.
LEMMA CandIndexStep == ASSUME IInv, Next PROVE (\A q \in Ops : pc'[q] = "get" => cand'[q].index \in 1..Len(slots'))
<1>0. /\ pc \in [Ops -> PCs] /\ slots \in Seq(Ops)
      /\ cand \in [Ops -> [op : Ops \cup {None}, index : Nat, last_usage : Nat]]
      /\ index \in [Ops -> Nat] /\ lastUsage \in [Ops -> Nat] /\ Indexed
  BY DEF IInv, TypeOK
<1> USE DEF Goto, Ready
<1>1. ASSUME NEW o \in Ops, ThreadStep(o) PROVE (\A q \in Ops : pc'[q] = "get" => cand'[q].index \in 1..Len(slots'))
  <2>1. CASE NotAuthorized(o) \/ BeginFails(o) \/ ReencryptFails(o) \/ BackendBusy(o) \/
             ImportFails(o)
    BY <1>0, <2>1 DEF NotAuthorized, GiveUp, BeginFails, ReencryptFails, BackendBusy,
      ImportFails, Indexed
  <2>2. CASE Begin(o) \/ ImportKm(o) \/ UpdateReturns(o) \/ FinishReturns(o) \/
             AbortKm(o)
    BY <1>0, <2>2 DEF Begin, ImportKm, UpdateReturns, FinishReturns, AbortKm, Indexed
  <2>3. CASE UpdateFails(o) \/ FinishKm(o) \/ Commit(o) \/ ImportStores(o)
    BY <1>0, <2>3 DEF UpdateFails, FinishKm, Commit, ImportStores, Indexed
  <2>4. CASE Reserve(o)
    BY <1>0, <2>4 DEF Reserve, Indexed
  <2>5. CASE CreateOperation(o)
    <3>1. /\ Len(slots') >= Len(slots) /\ Len(slots') \in Nat
          /\ cand' = cand /\ pc' = [pc EXCEPT ![o] = "open"]
      BY <2>5, Created DEF CreateOperation
    <3> QED BY <1>0, <3>1 DEF Indexed
  <2>6. CASE PruneChoose(o)
    <3>1. PICK p \in Gathered :
            cand' = [cand EXCEPT ![o] = [op |-> p, index |-> index[p], last_usage |-> lastUsage[p]]]
      BY <2>6 DEF PruneChoose
    <3>2. p \in Ops /\ index[p] \in 1..Len(slots)
      BY <1>0, <3>1 DEF Indexed, Gathered
    <3>3. pc' = [pc EXCEPT ![o] = "get"] /\ slots' = slots
      BY <2>6 DEF PruneChoose
    <3> QED BY <1>0, <3>1, <3>2, <3>3 DEF Indexed
  <2>7. CASE PruneGet(o)
    BY <1>0, <2>7 DEF PruneGet, Indexed
  <2>8. CASE PruneMisses(o)
    BY <1>0, <2>8 DEF PruneMisses, Indexed
  <2>9. CASE PruneSets(o)
    BY <1>0, <2>9 DEF PruneSets, Indexed
  <2>10. CASE PruneAborts(o)
    BY <1>0, <2>10 DEF PruneAborts, Indexed
  <2> QED BY <1>1, <2>1, <2>2, <2>3, <2>4, <2>5, <2>6, <2>7, <2>8, <2>9, <2>10 DEF ThreadStep
<1>2. ASSUME NEW o \in Ops, ClientStep(o) PROVE (\A q \in Ops : pc'[q] = "get" => cand'[q].index \in 1..Len(slots'))
  <2>1. CASE CallFinalized(o) \/ CallRefused(o) \/ ClientDrops(o)
    BY <1>0, <2>1 DEF CallFinalized, LetGo, CallRefused, ClientDrops, Indexed
  <2>2. CASE LoadKey(o) \/ Update(o) \/ Finish(o) \/ Abort(o)
    BY <1>0, <2>2 DEF LoadKey, Update, Finish, Abort, Indexed
  <2> QED BY <1>2, <2>1, <2>2 DEF ClientStep
<1>3. CASE (\E k \in Keys : UnbindKey(k)) \/ Tick \/ Finished
  BY <1>0, <1>3 DEF UnbindKey, Tick, Finished, vars, Indexed
<1>4. CASE Crash
  BY <1>0, <1>4 DEF Crash
<1> QED BY <1>1, <1>2, <1>3, <1>4 DEF Next


\* Indexed is kept.
LEMMA IndexedStep == ASSUME IInv, Next PROVE Indexed'
<1>1. ASSUME NEW p \in Ops, Alive(p)' PROVE index'[p] \in 1..Len(slots')
  <2>0. Alive(p) => index[p] \in 1..Len(slots) /\ Len(slots) \in Nat
    BY DEF IInv, Indexed, TypeOK
  <2>1. CASE slots' = slots /\ index' = index
    <3>1. Alive(p) \/ CreateOperation(p)
      BY <1>1, AliveStep
    <3> QED BY <2>0, <2>1, <3>1, Created
  <2>2. ASSUME NEW q \in Ops, CreateOperation(q) PROVE index'[p] \in 1..Len(slots')
    <3>1. Alive(p) \/ CreateOperation(p)
      BY <1>1, AliveStep
    <3>2. Len(slots') >= Len(slots) /\ Len(slots') \in Nat /\ Len(slots) \in Nat
      <4>1. slots \in Seq(Ops)
        BY DEF IInv, TypeOK
      <4>2. Len(slots) \in Nat
        BY <4>1
      <4> QED BY <2>2, <4>2, Created
    <3>3. CASE p = q
      BY <2>2, <3>3, Created
    <3>4. CASE p # q /\ CreateOperation(p)
      BY <3>4, Created
    <3>5. CASE p # q /\ Alive(p)
      BY <2>0, <2>2, <3>2, <3>5, Created
    <3> QED BY <3>1, <3>3, <3>4, <3>5
  <2>3. CASE Crash
    BY <1>1, <2>3 DEF Crash, Alive, Client, InCall
  <2> QED BY <2>1, <2>2, <2>3, SlotsGrow DEF SlotsMove
<1> QED BY <1>1, CandIndexStep DEF Indexed

\* ActiveBeforeEnd is kept.
LEMMA ActiveStep == ASSUME IInv, Next PROVE ActiveBeforeEnd'
<1>0. /\ pc \in [Ops -> PCs] /\ held \in [Ops -> Ops \cup {None}] /\ outcome \in [Ops -> Outcomes]
      /\ HeldWasOpened /\ ActiveBeforeEnd
  BY DEF IInv, TypeOK
<1> USE DEF ActiveBeforeEnd, HeldWasOpened, Goto, Ready, Creating, Importing, Client,
      InCall, SetOutcome, DropOperation, OutcomeLocked
<1>1. ASSUME NEW o \in Ops, ThreadStep(o) PROVE ActiveBeforeEnd'
  <2>1. CASE NotAuthorized(o) \/ BeginFails(o) \/ ReencryptFails(o) \/ BackendBusy(o) \/
             ImportFails(o)
    BY <1>0, <2>1 DEF NotAuthorized, GiveUp, BeginFails, ReencryptFails, BackendBusy,
      ImportFails
  <2>2. CASE Begin(o) \/ ImportKm(o) \/ UpdateReturns(o) \/ FinishReturns(o) \/
             AbortKm(o)
    BY <1>0, <2>2 DEF Begin, ImportKm, UpdateReturns, FinishReturns, AbortKm
  <2>3. CASE UpdateFails(o) \/ FinishKm(o) \/ Commit(o) \/ ImportStores(o)
    BY <1>0, <2>3 DEF UpdateFails, FinishKm, Commit, ImportStores
  <2>4. CASE Reserve(o)
    BY <1>0, <2>4 DEF Reserve
  <2>5. CASE CreateOperation(o)
    BY <1>0, <2>5 DEF CreateOperation
  <2>6. CASE PruneChoose(o)
    BY <1>0, <2>6 DEF PruneChoose
  <2>7. CASE PruneGet(o)
    BY <1>0, <2>7, SlotIsOp DEF PruneGet
  <2>8. CASE PruneMisses(o)
    BY <1>0, <2>8, HeldIsOp DEF PruneMisses, MayPrune
  <2>9. CASE PruneSets(o)
    BY <1>0, <2>9, HeldIsOp DEF PruneSets, MayPrune
  <2>10. CASE PruneAborts(o)
    BY <1>0, <2>10, HeldIsOp DEF PruneAborts
  <2> QED BY <1>1, <2>1, <2>2, <2>3, <2>4, <2>5, <2>6, <2>7, <2>8, <2>9, <2>10 DEF ThreadStep
<1>2. ASSUME NEW o \in Ops, ClientStep(o) PROVE ActiveBeforeEnd'
  <2>1. CASE CallFinalized(o) \/ CallRefused(o) \/ ClientDrops(o)
    BY <1>0, <2>1 DEF CallFinalized, LetGo, CallRefused, ClientDrops
  <2>2. CASE LoadKey(o) \/ Update(o) \/ Finish(o) \/ Abort(o)
    BY <1>0, <2>2 DEF LoadKey, Update, Finish, Abort
  <2> QED BY <1>2, <2>1, <2>2 DEF ClientStep
<1>3. CASE (\E k \in Keys : UnbindKey(k)) \/ Tick \/ Finished
  BY <1>0, <1>3 DEF UnbindKey, Tick, Finished, vars
<1>4. CASE Crash
  BY <1>0, <1>4 DEF Crash
<1> QED BY <1>1, <1>2, <1>3, <1>4 DEF Next

\* ReservedLimited is kept.
LEMMA ReservedStep == ASSUME IInv, Next PROVE ReservedLimited'
<1>0. /\ pc \in [Ops -> PCs] /\ held \in [Ops -> Ops \cup {None}] /\ outcome \in [Ops -> Outcomes]
      /\ reserved \in [Ops -> BOOLEAN] /\ HeldWasOpened /\ ReservedLimited
  BY DEF IInv, TypeOK
<1> USE DEF ReservedLimited, HeldWasOpened, Goto, Ready, Limits, Client, InCall,
      ReleaseUsage, KeepUsage, DropOperation
<1>1. ASSUME NEW o \in Ops, ThreadStep(o) PROVE ReservedLimited'
  <2>1. CASE NotAuthorized(o) \/ BeginFails(o) \/ ReencryptFails(o) \/ BackendBusy(o) \/
             ImportFails(o)
    BY <1>0, <2>1 DEF NotAuthorized, GiveUp, BeginFails, ReencryptFails, BackendBusy,
      ImportFails
  <2>2. CASE Begin(o) \/ ImportKm(o) \/ UpdateReturns(o) \/ FinishReturns(o) \/
             AbortKm(o)
    BY <1>0, <2>2 DEF Begin, ImportKm, UpdateReturns, FinishReturns, AbortKm
  <2>3. CASE UpdateFails(o) \/ FinishKm(o) \/ Commit(o) \/ ImportStores(o)
    BY <1>0, <2>3 DEF UpdateFails, FinishKm, Commit, ImportStores
  <2>4. CASE Reserve(o)
    BY <1>0, <2>4 DEF Reserve
  <2>5. CASE CreateOperation(o)
    BY <1>0, <2>5 DEF CreateOperation
  <2>6. CASE PruneChoose(o)
    BY <1>0, <2>6 DEF PruneChoose
  <2>7. CASE PruneGet(o)
    BY <1>0, <2>7, SlotIsOp DEF PruneGet
  <2>8. CASE PruneMisses(o)
    BY <1>0, <2>8, HeldIsOp DEF PruneMisses, MayPrune
  <2>9. CASE PruneSets(o)
    BY <1>0, <2>9, HeldIsOp DEF PruneSets, MayPrune
  <2>10. CASE PruneAborts(o)
    BY <1>0, <2>10, HeldIsOp DEF PruneAborts
  <2> QED BY <1>1, <2>1, <2>2, <2>3, <2>4, <2>5, <2>6, <2>7, <2>8, <2>9, <2>10 DEF ThreadStep
<1>2. ASSUME NEW o \in Ops, ClientStep(o) PROVE ReservedLimited'
  <2>1. CASE CallFinalized(o) \/ CallRefused(o) \/ ClientDrops(o)
    BY <1>0, <2>1 DEF CallFinalized, LetGo, CallRefused, ClientDrops
  <2>2. CASE LoadKey(o) \/ Update(o) \/ Finish(o) \/ Abort(o)
    BY <1>0, <2>2 DEF LoadKey, Update, Finish, Abort
  <2> QED BY <1>2, <2>1, <2>2 DEF ClientStep
<1>3. CASE (\E k \in Keys : UnbindKey(k)) \/ Tick \/ Finished
  BY <1>0, <1>3 DEF UnbindKey, Tick, Finished, vars
<1>4. CASE Crash
  BY <1>0, <1>4 DEF Crash
<1> QED BY <1>1, <1>2, <1>3, <1>4 DEF Next

\* ActiveReserved is kept: who gives a reservation back also finalizes.
LEMMA ActiveReservedStep == ASSUME IInv, Next PROVE ActiveReserved'
<1>0. /\ pc \in [Ops -> PCs] /\ held \in [Ops -> Ops \cup {None}] /\ outcome \in [Ops -> Outcomes]
      /\ reserved \in [Ops -> BOOLEAN]
      /\ HeldWasOpened /\ PruningMarked /\ ActiveReserved
  BY DEF IInv, TypeOK
<1> USE DEF ActiveReserved, HeldWasOpened, PruningMarked, Goto, Ready, Limits, Client,
      InCall, ReleaseUsage, KeepUsage, DropOperation, SetOutcome
<1>1. ASSUME NEW o \in Ops, ThreadStep(o) PROVE ActiveReserved'
  <2>1. CASE NotAuthorized(o) \/ BeginFails(o) \/ ReencryptFails(o) \/ BackendBusy(o) \/
             ImportFails(o)
    BY <1>0, <2>1 DEF NotAuthorized, GiveUp, BeginFails, ReencryptFails, BackendBusy,
      ImportFails
  <2>2. CASE Begin(o) \/ ImportKm(o) \/ UpdateReturns(o) \/ FinishReturns(o) \/
             AbortKm(o)
    BY <1>0, <2>2 DEF Begin, ImportKm, UpdateReturns, FinishReturns, AbortKm
  <2>3. CASE UpdateFails(o) \/ FinishKm(o) \/ Commit(o) \/ ImportStores(o)
    BY <1>0, <2>3 DEF UpdateFails, FinishKm, Commit, ImportStores
  <2>4. CASE Reserve(o)
    BY <1>0, <2>4 DEF Reserve
  <2>5. CASE CreateOperation(o)
    BY <1>0, <2>5 DEF CreateOperation
  <2>6. CASE PruneChoose(o)
    BY <1>0, <2>6 DEF PruneChoose
  <2>7. CASE PruneGet(o)
    BY <1>0, <2>7, SlotIsOp DEF PruneGet
  <2>8. CASE PruneMisses(o)
    BY <1>0, <2>8, HeldIsOp DEF PruneMisses, MayPrune
  <2>9. CASE PruneSets(o)
    BY <1>0, <2>9, HeldIsOp DEF PruneSets, MayPrune
  <2>10. CASE PruneAborts(o)
    BY <1>0, <2>10, HeldIsOp DEF PruneAborts
  <2> QED BY <1>1, <2>1, <2>2, <2>3, <2>4, <2>5, <2>6, <2>7, <2>8, <2>9, <2>10 DEF ThreadStep
<1>2. ASSUME NEW o \in Ops, ClientStep(o) PROVE ActiveReserved'
  <2>1. CASE CallFinalized(o) \/ CallRefused(o) \/ ClientDrops(o)
    BY <1>0, <2>1 DEF CallFinalized, LetGo, CallRefused, ClientDrops
  <2>2. CASE LoadKey(o) \/ Update(o) \/ Finish(o) \/ Abort(o)
    BY <1>0, <2>2 DEF LoadKey, Update, Finish, Abort
  <2> QED BY <1>2, <2>1, <2>2 DEF ClientStep
<1>3. CASE (\E k \in Keys : UnbindKey(k)) \/ Tick \/ Finished
  BY <1>0, <1>3 DEF UnbindKey, Tick, Finished, vars
<1>4. CASE Crash
  BY <1>0, <1>4 DEF Crash
<1> QED BY <1>1, <1>2, <1>3, <1>4 DEF Next

\* EndReleased is kept.
LEMMA EndStep == ASSUME IInv, Next PROVE EndReleased'
<1>0. /\ pc \in [Ops -> PCs] /\ held \in [Ops -> Ops \cup {None}]
      /\ reserved \in [Ops -> BOOLEAN] /\ EndReleased
  BY DEF IInv, TypeOK
<1> USE DEF EndReleased, Goto, Ready, ReleaseUsage, KeepUsage, DropOperation
<1>1. ASSUME NEW o \in Ops, ThreadStep(o) PROVE EndReleased'
  <2>1. CASE NotAuthorized(o) \/ BeginFails(o) \/ ReencryptFails(o) \/ BackendBusy(o) \/
             ImportFails(o)
    BY <1>0, <2>1 DEF NotAuthorized, GiveUp, BeginFails, ReencryptFails, BackendBusy,
      ImportFails
  <2>2. CASE Begin(o) \/ ImportKm(o) \/ UpdateReturns(o) \/ FinishReturns(o) \/
             AbortKm(o)
    BY <1>0, <2>2 DEF Begin, ImportKm, UpdateReturns, FinishReturns, AbortKm
  <2>3. CASE UpdateFails(o) \/ FinishKm(o) \/ Commit(o) \/ ImportStores(o)
    BY <1>0, <2>3 DEF UpdateFails, FinishKm, Commit, ImportStores
  <2>4. CASE Reserve(o)
    BY <1>0, <2>4 DEF Reserve
  <2>5. CASE CreateOperation(o)
    BY <1>0, <2>5 DEF CreateOperation
  <2>6. CASE PruneChoose(o)
    BY <1>0, <2>6 DEF PruneChoose
  <2>7. CASE PruneGet(o)
    BY <1>0, <2>7, SlotIsOp DEF PruneGet
  <2>8. CASE PruneMisses(o)
    BY <1>0, <2>8, HeldIsOp DEF PruneMisses, MayPrune
  <2>9. CASE PruneSets(o)
    BY <1>0, <2>9, HeldIsOp DEF PruneSets, MayPrune
  <2>10. CASE PruneAborts(o)
    BY <1>0, <2>10, HeldIsOp DEF PruneAborts
  <2> QED BY <1>1, <2>1, <2>2, <2>3, <2>4, <2>5, <2>6, <2>7, <2>8, <2>9, <2>10 DEF ThreadStep
<1>2. ASSUME NEW o \in Ops, ClientStep(o) PROVE EndReleased'
  <2>1. CASE CallFinalized(o) \/ CallRefused(o) \/ ClientDrops(o)
    BY <1>0, <2>1 DEF CallFinalized, LetGo, CallRefused, ClientDrops
  <2>2. CASE LoadKey(o) \/ Update(o) \/ Finish(o) \/ Abort(o)
    BY <1>0, <2>2 DEF LoadKey, Update, Finish, Abort
  <2> QED BY <1>2, <2>1, <2>2 DEF ClientStep
<1>3. CASE (\E k \in Keys : UnbindKey(k)) \/ Tick \/ Finished
  BY <1>0, <1>3 DEF UnbindKey, Tick, Finished, vars
<1>4. CASE Crash
  BY <1>0, <1>4 DEF Crash
<1> QED BY <1>1, <1>2, <1>3, <1>4 DEF Next

\* NoReservationLeak is kept: every end of an operation releases.
LEMMA LeakStep == ASSUME IInv, Next PROVE NoReservationLeak'
<1>0. /\ pc \in [Ops -> PCs] /\ held \in [Ops -> Ops \cup {None}] /\ outcome \in [Ops -> Outcomes]
      /\ reserved \in [Ops -> BOOLEAN]
      /\ HeldWhilePruning /\ HeldWasOpened /\ PruningMarked /\ ActiveBeforeEnd
      /\ ReservedLimited /\ EndReleased /\ NoReservationLeak
  BY DEF IInv, TypeOK
<1> USE DEF NoReservationLeak, HeldWhilePruning, HeldWasOpened, PruningMarked,
      ActiveBeforeEnd, ReservedLimited, EndReleased, Goto, Ready, Limits, Creating,
      Importing, Client, InCall, ReleaseUsage, KeepUsage, DropOperation, SetOutcome, Alive,
      LockedByPruner, OutcomeLocked
<1>1. ASSUME NEW o \in Ops, ThreadStep(o) PROVE NoReservationLeak'
  <2>1. CASE NotAuthorized(o) \/ BeginFails(o) \/ ReencryptFails(o) \/ BackendBusy(o) \/
             ImportFails(o)
    BY <1>0, <2>1 DEF NotAuthorized, GiveUp, BeginFails, ReencryptFails, BackendBusy,
      ImportFails
  <2>2. CASE Begin(o) \/ ImportKm(o) \/ UpdateReturns(o) \/ FinishReturns(o) \/
             AbortKm(o)
    BY <1>0, <2>2 DEF Begin, ImportKm, UpdateReturns, FinishReturns, AbortKm
  <2>3. CASE UpdateFails(o) \/ FinishKm(o) \/ Commit(o) \/ ImportStores(o)
    BY <1>0, <2>3 DEF UpdateFails, FinishKm, Commit, ImportStores
  <2>4. CASE Reserve(o)
    BY <1>0, <2>4 DEF Reserve
  <2>5. CASE CreateOperation(o)
    BY <1>0, <2>5 DEF CreateOperation
  <2>6. CASE PruneChoose(o)
    BY <1>0, <2>6 DEF PruneChoose
  <2>7. CASE PruneGet(o)
    BY <1>0, <2>7, SlotIsOp DEF PruneGet
  <2>8. CASE PruneMisses(o)
    BY <1>0, <2>8, HeldIsOp DEF PruneMisses, MayPrune
  <2>9. CASE PruneSets(o)
    BY <1>0, <2>9, HeldIsOp DEF PruneSets, MayPrune
  <2>10. CASE PruneAborts(o)
    BY <1>0, <2>10, HeldIsOp DEF PruneAborts
  <2> QED BY <1>1, <2>1, <2>2, <2>3, <2>4, <2>5, <2>6, <2>7, <2>8, <2>9, <2>10 DEF ThreadStep
<1>2. ASSUME NEW o \in Ops, ClientStep(o) PROVE NoReservationLeak'
  <2>1. CASE CallFinalized(o) \/ CallRefused(o) \/ ClientDrops(o)
    BY <1>0, <2>1 DEF CallFinalized, LetGo, CallRefused, ClientDrops
  <2>2. CASE LoadKey(o) \/ Update(o) \/ Finish(o) \/ Abort(o)
    BY <1>0, <2>2 DEF LoadKey, Update, Finish, Abort
  <2> QED BY <1>2, <2>1, <2>2 DEF ClientStep
<1>3. CASE (\E k \in Keys : UnbindKey(k)) \/ Tick \/ Finished
  BY <1>0, <1>3 DEF UnbindKey, Tick, Finished, vars
<1>4. CASE Crash
  BY <1>0, <1>4 DEF Crash
<1> QED BY <1>1, <1>2, <1>3, <1>4 DEF Next


\* A step keeps the readings of the clock apart, and erases none.
StampsMove ==
    /\ \A p \in Ops : lastUsage'[p] <= now'
    /\ \A p, q \in Ops : p # q /\ lastUsage'[p] = lastUsage'[q] => lastUsage'[p] = 0
    /\ \A p \in Ops : lastUsage[p] > 0 => lastUsage'[p] > 0

LEMMA StampStep == ASSUME IInv, Next PROVE StampsMove
<1>0. /\ lastUsage \in [Ops -> Nat] /\ now \in Nat /\ MaxTime \in Nat
      /\ StampsFresh
  BY DEF IInv, TypeOK
<1> USE DEF StampsFresh, StampsMove, Touch
<1>1. ASSUME NEW o \in Ops, ThreadStep(o) PROVE StampsMove
  <2>1. CASE Reserve(o) \/ NotAuthorized(o) \/ Begin(o) \/ BeginFails(o) \/
             ReencryptFails(o) \/ PruneChoose(o) \/ BackendBusy(o) \/ PruneGet(o) \/
             PruneMisses(o) \/ PruneSets(o) \/ PruneAborts(o) \/ UpdateReturns(o) \/
             UpdateFails(o) \/ FinishKm(o) \/ Commit(o) \/ FinishReturns(o) \/
             AbortKm(o) \/ ImportKm(o) \/ ImportFails(o) \/ ImportStores(o)
    BY <1>0, <2>1 DEF Reserve, NotAuthorized, GiveUp, Begin, BeginFails, ReencryptFails,
      PruneChoose, BackendBusy, PruneGet, PruneMisses, PruneSets, PruneAborts,
      UpdateReturns, UpdateFails, FinishKm, Commit, FinishReturns, AbortKm, ImportKm,
      ImportFails, ImportStores
  <2>2. CASE CreateOperation(o)
    BY <1>0, <2>2 DEF CreateOperation
  <2> QED BY <1>1, <2>1, <2>2 DEF ThreadStep
<1>2. ASSUME NEW o \in Ops, ClientStep(o) PROVE StampsMove
  <2>1. CASE Update(o) \/ Finish(o)
    BY <1>0, <2>1 DEF Update, Finish
  <2>2. CASE LoadKey(o) \/ CallFinalized(o) \/ CallRefused(o) \/ Abort(o) \/
             ClientDrops(o)
    BY <1>0, <2>2 DEF LoadKey, CallFinalized, LetGo, CallRefused, Abort, ClientDrops
  <2> QED BY <1>2, <2>1, <2>2 DEF ClientStep
<1>3. CASE (\E k \in Keys : UnbindKey(k)) \/ Tick \/ Finished
  BY <1>0, <1>3 DEF UnbindKey, Tick, Finished, vars
<1>4. CASE Crash
  BY <1>0, <1>4 DEF Crash
<1> QED BY <1>1, <1>2, <1>3, <1>4 DEF Next


\* StampsFresh is kept.
LEMMA FreshStep == ASSUME IInv, Next PROVE StampsFresh'
<1>1. ASSUME NEW p \in Ops, Alive(p)' PROVE lastUsage'[p] > 0
  <2>1. CASE Alive(p)
    <3>1. lastUsage[p] > 0
      BY <2>1 DEF IInv, StampsFresh
    <3>2. \A q \in Ops : lastUsage[q] > 0 => lastUsage'[q] > 0
      BY StampStep DEF StampsMove
    <3> QED BY <3>1, <3>2, Zenon
  <2>2. CASE CreateOperation(p)
    BY <2>2 DEF CreateOperation, IInv, TypeOK
  <2> QED BY <1>1, <2>1, <2>2, AliveStep
<1> QED BY <1>1, StampStep DEF StampsFresh, StampsMove

\* CandStamped is kept: a new reading differs from every older one.
LEMMA CandStampStep == ASSUME IInv, Next PROVE CandStamped'
<1>0. /\ pc \in [Ops -> PCs] /\ lastUsage \in [Ops -> Nat] /\ now \in Nat /\ MaxTime \in Nat
      /\ index \in [Ops -> Nat]
      /\ cand \in [Ops -> [op : Ops \cup {None}, index : Nat, last_usage : Nat]]
      /\ StampsFresh /\ CandStamped
  BY DEF IInv, TypeOK
<1> USE DEF CandStamped, Goto, Ready, Touch
<1>1. ASSUME NEW o \in Ops, ThreadStep(o) PROVE CandStamped'
  <2>1. CASE NotAuthorized(o) \/ BeginFails(o) \/ ReencryptFails(o) \/ BackendBusy(o) \/
             ImportFails(o)
    BY <1>0, <2>1 DEF NotAuthorized, GiveUp, BeginFails, ReencryptFails, BackendBusy,
      ImportFails
  <2>2. CASE Begin(o) \/ ImportKm(o) \/ UpdateReturns(o) \/ FinishReturns(o) \/
             AbortKm(o)
    BY <1>0, <2>2 DEF Begin, ImportKm, UpdateReturns, FinishReturns, AbortKm
  <2>3. CASE UpdateFails(o) \/ FinishKm(o) \/ Commit(o) \/ ImportStores(o)
    BY <1>0, <2>3 DEF UpdateFails, FinishKm, Commit, ImportStores
  <2>4. CASE Reserve(o)
    BY <1>0, <2>4 DEF Reserve
  <2>5. CASE CreateOperation(o)
    BY <1>0, <2>5 DEF CreateOperation
  <2>6. CASE PruneChoose(o)
    <3>1. PICK p \in Gathered :
            cand' = [cand EXCEPT ![o] = [op |-> p, index |-> index[p], last_usage |-> lastUsage[p]]]
      BY <2>6 DEF PruneChoose
    <3>2. /\ p \in Ops /\ lastUsage[p] \in 1..now
          /\ \A q \in Ops \ {p} : lastUsage[q] # lastUsage[p]
      BY <1>0, <3>1 DEF StampsFresh, Gathered
    <3>3. pc' = [pc EXCEPT ![o] = "get"] /\ lastUsage' = lastUsage /\ now' = now
      BY <2>6 DEF PruneChoose
    <3> QED BY <1>0, <3>1, <3>2, <3>3
  <2>7. CASE PruneGet(o)
    BY <1>0, <2>7 DEF PruneGet
  <2>8. CASE PruneMisses(o)
    BY <1>0, <2>8 DEF PruneMisses
  <2>9. CASE PruneSets(o)
    BY <1>0, <2>9 DEF PruneSets
  <2>10. CASE PruneAborts(o)
    BY <1>0, <2>10 DEF PruneAborts
  <2> QED BY <1>1, <2>1, <2>2, <2>3, <2>4, <2>5, <2>6, <2>7, <2>8, <2>9, <2>10 DEF ThreadStep
<1>2. ASSUME NEW o \in Ops, ClientStep(o) PROVE CandStamped'
  <2>1. CASE CallFinalized(o) \/ CallRefused(o) \/ ClientDrops(o)
    BY <1>0, <2>1 DEF CallFinalized, LetGo, CallRefused, ClientDrops
  <2>2. CASE LoadKey(o) \/ Update(o) \/ Finish(o) \/ Abort(o)
    BY <1>0, <2>2 DEF LoadKey, Update, Finish, Abort
  <2> QED BY <1>2, <2>1, <2>2 DEF ClientStep
<1>3. CASE (\E k \in Keys : UnbindKey(k)) \/ Tick \/ Finished
  BY <1>0, <1>3 DEF UnbindKey, Tick, Finished, vars
<1>4. CASE Crash
  BY <1>0, <1>4 DEF Crash
<1> QED BY <1>1, <1>2, <1>3, <1>4 DEF Next

\* PruneHitsScored is kept: equal stamps identify the operation.
LEMMA ScoredStep == ASSUME IInv, Next PROVE PruneHitsScored'
<1>0. /\ pc \in [Ops -> PCs] /\ lastUsage \in [Ops -> Nat] /\ held \in [Ops -> Ops \cup {None}]
      /\ cand \in [Ops -> [op : Ops \cup {None}, index : Nat, last_usage : Nat]]
      /\ HeldWhilePruning /\ HeldWasOpened /\ CandStamped /\ PruneHitsScored
  BY DEF IInv, TypeOK
<1> USE DEF PruneHitsScored, HeldWhilePruning, HeldWasOpened, CandStamped, Goto, Ready,
      Touch, LockedByPruner, Client, InCall
<1>1. ASSUME NEW o \in Ops, ThreadStep(o) PROVE PruneHitsScored'
  <2>1. CASE NotAuthorized(o) \/ BeginFails(o) \/ ReencryptFails(o) \/ BackendBusy(o) \/
             ImportFails(o)
    BY <1>0, <2>1 DEF NotAuthorized, GiveUp, BeginFails, ReencryptFails, BackendBusy,
      ImportFails
  <2>2. CASE Begin(o) \/ ImportKm(o) \/ UpdateReturns(o) \/ FinishReturns(o) \/
             AbortKm(o)
    BY <1>0, <2>2 DEF Begin, ImportKm, UpdateReturns, FinishReturns, AbortKm
  <2>3. CASE UpdateFails(o) \/ FinishKm(o) \/ Commit(o) \/ ImportStores(o)
    BY <1>0, <2>3 DEF UpdateFails, FinishKm, Commit, ImportStores
  <2>4. CASE Reserve(o)
    BY <1>0, <2>4 DEF Reserve
  <2>5. CASE CreateOperation(o)
    BY <1>0, <2>5 DEF CreateOperation
  <2>6. CASE PruneChoose(o)
    BY <1>0, <2>6 DEF PruneChoose
  <2>7. CASE PruneGet(o)
    BY <1>0, <2>7, SlotIsOp DEF PruneGet
  <2>8. CASE PruneMisses(o)
    BY <1>0, <2>8, HeldIsOp DEF PruneMisses, MayPrune
  <2>9. CASE PruneSets(o)
    BY <1>0, <2>9, HeldIsOp DEF PruneSets, MayPrune
  <2>10. CASE PruneAborts(o)
    BY <1>0, <2>10, HeldIsOp DEF PruneAborts
  <2> QED BY <1>1, <2>1, <2>2, <2>3, <2>4, <2>5, <2>6, <2>7, <2>8, <2>9, <2>10 DEF ThreadStep
<1>2. ASSUME NEW o \in Ops, ClientStep(o) PROVE PruneHitsScored'
  <2>1. CASE CallFinalized(o) \/ CallRefused(o) \/ ClientDrops(o)
    BY <1>0, <2>1 DEF CallFinalized, LetGo, CallRefused, ClientDrops
  <2>2. CASE LoadKey(o) \/ Update(o) \/ Finish(o) \/ Abort(o)
    BY <1>0, <2>2 DEF LoadKey, Update, Finish, Abort
  <2> QED BY <1>2, <2>1, <2>2 DEF ClientStep
<1>3. CASE (\E k \in Keys : UnbindKey(k)) \/ Tick \/ Finished
  BY <1>0, <1>3 DEF UnbindKey, Tick, Finished, vars
<1>4. CASE Crash
  BY <1>0, <1>4 DEF Crash
<1> QED BY <1>1, <1>2, <1>3, <1>4 DEF Next

\* An outcome that was recorded stays.
LEMMA OutcomeStep == ASSUME IInv, Next PROVE (\A p \in Ops : outcome[p] # "Unknown" => outcome'[p] = outcome[p])
<1>0. /\ pc \in [Ops -> PCs] /\ outcome \in [Ops -> Outcomes] /\ ActiveBeforeEnd
  BY DEF IInv, TypeOK
<1> USE DEF ActiveBeforeEnd, Ready, Creating, Importing, InCall, SetOutcome, DropOperation
<1>1. ASSUME NEW o \in Ops, ThreadStep(o) PROVE (\A p \in Ops : outcome[p] # "Unknown" => outcome'[p] = outcome[p])
  <2>1. CASE NotAuthorized(o) \/ BeginFails(o) \/ ReencryptFails(o) \/ BackendBusy(o) \/
             ImportFails(o)
    BY <1>0, <2>1 DEF NotAuthorized, GiveUp, BeginFails, ReencryptFails, BackendBusy,
      ImportFails
  <2>2. CASE Begin(o) \/ ImportKm(o) \/ UpdateReturns(o) \/ FinishReturns(o) \/
             AbortKm(o)
    BY <1>0, <2>2 DEF Begin, ImportKm, UpdateReturns, FinishReturns, AbortKm
  <2>3. CASE UpdateFails(o) \/ FinishKm(o) \/ Commit(o) \/ ImportStores(o)
    BY <1>0, <2>3 DEF UpdateFails, FinishKm, Commit, ImportStores
  <2>4. CASE Reserve(o)
    BY <1>0, <2>4 DEF Reserve
  <2>5. CASE CreateOperation(o)
    BY <1>0, <2>5 DEF CreateOperation
  <2>6. CASE PruneChoose(o)
    BY <1>0, <2>6 DEF PruneChoose
  <2>7. CASE PruneGet(o)
    BY <1>0, <2>7, SlotIsOp DEF PruneGet
  <2>8. CASE PruneMisses(o)
    BY <1>0, <2>8, HeldIsOp DEF PruneMisses, MayPrune
  <2>9. CASE PruneSets(o)
    BY <1>0, <2>9, HeldIsOp DEF PruneSets, MayPrune
  <2>10. CASE PruneAborts(o)
    BY <1>0, <2>10, HeldIsOp DEF PruneAborts
  <2> QED BY <1>1, <2>1, <2>2, <2>3, <2>4, <2>5, <2>6, <2>7, <2>8, <2>9, <2>10 DEF ThreadStep
<1>2. ASSUME NEW o \in Ops, ClientStep(o) PROVE (\A p \in Ops : outcome[p] # "Unknown" => outcome'[p] = outcome[p])
  <2>1. CASE CallFinalized(o) \/ CallRefused(o) \/ ClientDrops(o)
    BY <1>0, <2>1 DEF CallFinalized, LetGo, CallRefused, ClientDrops
  <2>2. CASE LoadKey(o) \/ Update(o) \/ Finish(o) \/ Abort(o)
    BY <1>0, <2>2 DEF LoadKey, Update, Finish, Abort
  <2> QED BY <1>2, <2>1, <2>2 DEF ClientStep
<1>3. CASE (\E k \in Keys : UnbindKey(k)) \/ Tick \/ Finished
  BY <1>0, <1>3 DEF UnbindKey, Tick, Finished, vars
<1>4. CASE Crash
  BY <1>0, <1>4 DEF Crash
<1> QED BY <1>1, <1>2, <1>3, <1>4 DEF Next

-----------------------------------------------------------------------------
(***************************************************************************)
(* The theorems.                                                           *)
(***************************************************************************)

\* The inductive invariant holds initially.
LEMMA InvInit == Init => IInv
<1> SUFFICES ASSUME Init PROVE IInv
  OBVIOUS
<1>1. TypeOK
  BY DEF Init, TypeOK, PCs, Outcomes, NoCand
<1>2. /\ HeldWhilePruning /\ HeldWasOpened /\ PruningMarked /\ Indexed /\ ActiveBeforeEnd
      /\ ReservedLimited /\ ActiveReserved /\ EndReleased /\ NoReservationLeak /\ CandStamped /\ PruneHitsScored
  BY DEF Init, HeldWhilePruning, HeldWasOpened, PruningMarked, Indexed, ActiveBeforeEnd,
         ReservedLimited, ActiveReserved, EndReleased, NoReservationLeak, CandStamped, PruneHitsScored,
         Alive, Client, InCall
<1>3. StampsFresh
  BY DEF Init, StampsFresh, Alive, Client, InCall
<1>4. ReservationsCounted
  <2> SUFFICES ASSUME NEW k \in Keys PROVE inFlight[k] = Cardinality(ReservedOn(k))
    BY DEF ReservationsCounted
  <2>1. ReservedOn(k) = {}
    BY DEF Init, ReservedOn
  <2> QED BY <2>1, FS_EmptySet DEF Init
<1>5. NoOversubscription
  BY DEF Init, NoOversubscription
<1>6. UsageLimitKept
  <2> SUFFICES ASSUME NEW k \in Limited PROVE Cardinality(UsesOf(k)) + remaining[k] <= Limit[k]
    BY DEF UsageLimitKept
  <2>1. UsesOf(k) = {}
    BY DEF Init, UsesOf
  <2>2. remaining[k] = Limit[k] /\ Limit[k] \in Nat
    BY DEF Init
  <2> QED BY <2>1, <2>2, FS_EmptySet
<1> QED BY <1>1, <1>2, <1>3, <1>4, <1>5, <1>6 DEF IInv

\* Stuttering keeps it.
LEMMA InvStutter == IInv /\ UNCHANGED vars => IInv'
<1> SUFFICES ASSUME IInv, UNCHANGED vars PROVE IInv'
  OBVIOUS
<1> QED BY DEF IInv, vars, TypeOK, HeldWhilePruning, HeldWasOpened, PruningMarked, Indexed,
              ActiveBeforeEnd, ReservedLimited, ActiveReserved, ReservationsCounted, ReservedOn,
              NoOversubscription, UsageLimitKept, UsesOf, EndReleased, NoReservationLeak, StampsFresh,
              CandStamped, PruneHitsScored, Alive, LockedByPruner

\* Every step keeps it.
LEMMA InvNext == IInv /\ [Next]_vars => IInv'
<1>1. ASSUME IInv, Next PROVE IInv'
  BY <1>1, TypeStep, HeldStep, OpenedStep, MarkedStep, IndexedStep, ActiveStep, ReservedStep,
     ActiveReservedStep, CountStep, OversubscriptionStep, UsageLimitStep, EndStep, LeakStep, FreshStep,
     CandStampStep, ScoredStep DEF IInv
<1> QED BY <1>1, InvStutter

\* The inductive invariant holds in every reachable state.
THEOREM Invariance == Spec => []IInv
BY InvInit, InvNext, PTL DEF Spec

\* No handler of the operation lifecycle leaves a variable outside its type, and
\* in particular the reservation counters of KeyUsageReservations never go
\* negative.
THEOREM TypeCorrect == Spec => []TypeOK
<1>1. IInv => TypeOK
  BY DEF IInv
<1> QED BY <1>1, Invariance, PTL

\* The shared table of KeyUsageReservations always equals the reservations that
\* operations and imports own.
THEOREM ReservationsExact == Spec => []ReservationsCounted
<1>1. IInv => ReservationsCounted
  BY DEF IInv
<1> QED BY <1>1, Invariance, PTL

\* A key is never reserved beyond its durable count, however many operations
\* and imports run.
THEOREM NeverOversubscribed == Spec => []NoOversubscription
<1>1. IInv => NoOversubscription
  BY DEF IInv
<1> QED BY <1>1, Invariance, PTL

\* A limited-use key yields at most its limit of results, across any number of
\* threads, prunes, failures and crashes.
THEOREM LimitKept == Spec => []UsageLimitKept
<1>1. IInv => UsageLimitKept
  BY DEF IInv
<1> QED BY <1>1, Invariance, PTL

\* Every reservation belongs to a creation, an import or an active operation.
THEOREM NoLeak == Spec => []NoReservationLeak
<1>1. IInv => NoReservationLeak
  BY DEF IInv
<1> QED BY <1>1, Invariance, PTL

\* prune() finalizes the very operation that it scored, unused since.
THEOREM PrunesScored == Spec => []PruneHitsScored
<1>1. IInv => PruneHitsScored
  BY DEF IInv
<1> QED BY <1>1, Invariance, PTL

\* A call inside KeyMint or the database runs on an active operation.
THEOREM CallsActive == Spec => []CallsOnActiveOnly
<1>1. IInv => CallsOnActiveOnly
  BY DEF IInv, ActiveBeforeEnd, CallsOnActiveOnly, InCall
<1> QED BY <1>1, Invariance, PTL

\* An outcome leaves Unknown at most once.
THEOREM OutcomeFinal == Spec => OutcomeOnce
<1>1. IInv /\ [Next]_vars =>
        [\A o \in Ops : outcome[o] # "Unknown" => outcome'[o] = outcome[o]]_vars
  BY OutcomeStep
<1> QED BY <1>1, Invariance, PTL DEF Spec, OutcomeOnce
-----------------------------------------------------------------------------
(***************************************************************************)
(* The TA's table.  Beyond IInv: an operation has one pruner, and abort    *)
(* has set the outcome before it calls KeyMint.                            *)
(***************************************************************************)
OnePruner ==
    \A o, q \in Ops : pc[o] = "pruning" /\ pc[q] = "pruning" /\ held[o] = held[q] => o = q

AbortMarked == \A o \in Ops : pc[o] = "abort" => outcome[o] # "Unknown"

SlotOf(p) == (UsesSlot(p) => p \in km) /\ (p \in km => UsesSlot(p) \/ Leaked(p))

MayLeak(p) == p \in AuthPerUse \/ KeyOf[p] \in Reencrypt

\* UsesSlot(o) when its thread is at l and its outcome is x.
UsesAt(o, l, x) ==
    \/ l \in {"begun", "abort"}
    \/ LockedByPruner(o)
    \/ /\ l \in Client \/ \E q \in Ops : held[q] = o
       /\ x = "Unknown" /\ l \notin {"commit", "committed"}

SlotInv == OnePruner /\ AbortMarked /\ \A p \in Ops : SlotOf(p)

\* A thread that is not in prune moves its own operation.
LEMMA OwnSlotStep ==
    ASSUME IInv, SlotInv, NEW o \in Ops, NEW l, NEW x,
           pc' = [pc EXCEPT ![o] = l], outcome' = [outcome EXCEPT ![o] = x], held' = held,
           \A p \in Ops \ {o} : p \in km' <=> p \in km,
           pc[o] # "pruning", l # "pruning", l = "abort" => x # "Unknown",
           UsesAt(o, l, x) => o \in km',
           o \in km' => UsesAt(o, l, x) \/ (l = "done" /\ MayLeak(o))
    PROVE  SlotInv'
<1>0. pc \in [Ops -> PCs] /\ outcome \in [Ops -> Outcomes]
  BY DEF IInv, TypeOK
<1>1. /\ pc'[o] = l /\ outcome'[o] = x
      /\ \A p \in Ops \ {o} : pc'[p] = pc[p] /\ outcome'[p] = outcome[p]
  BY <1>0
<1>2. OnePruner' /\ AbortMarked'
  BY <1>1 DEF SlotInv, OnePruner, AbortMarked
<1>3. \A p \in Ops : LockedByPruner(p)' <=> LockedByPruner(p)
  BY <1>1 DEF LockedByPruner
<1>4. ASSUME NEW p \in Ops PROVE SlotOf(p)'
  <2>1. CASE p = o
    BY <1>1, <1>3, <2>1 DEF SlotOf, UsesSlot, Alive, Leaked, MayLeak, UsesAt
  <2>2. CASE p # o
    <3>1. Alive(p)' <=> Alive(p)
      BY <1>1, <2>2 DEF Alive
    <3>2. QED
      BY <1>1, <1>3, <2>2, <3>1 DEF SlotInv, SlotOf, UsesSlot, Leaked
  <2>3. QED
    BY <2>1, <2>2
<1>5. QED
  BY <1>2, <1>4 DEF SlotInv

\* What a thread that creates or imports holds no reference to, nobody does.
LEMMA Unheld ==
    ASSUME IInv, NEW o \in Ops, pc[o] \notin Client \cup {"done"}
    PROVE  /\ \A q \in Ops : held[q] # o
           /\ ~Alive(o) /\ ~LockedByPruner(o)
<1>1. \A q \in Ops : held[q] # o
  BY DEF IInv, HeldWasOpened
<1>2. QED
  BY <1>1 DEF Alive, LockedByPruner

\* In a call, an operation is not being pruned.
LEMMA Unlocked ==
    ASSUME IInv, NEW o \in Ops, pc[o] \notin {"open", "done"} PROVE ~LockedByPruner(o)
BY DEF IInv, PruningMarked, LockedByPruner

LEMMA CreateSlotStep ==
    ASSUME IInv, SlotInv, NEW o \in Ops,
           LoadKey(o) \/ Reserve(o) \/ NotAuthorized(o) \/ Begin(o) \/ BeginFails(o)
             \/ ReencryptFails(o) \/ CreateOperation(o) \/ PruneChoose(o) \/ BackendBusy(o)
             \/ ImportKm(o) \/ ImportFails(o) \/ ImportStores(o)
    PROVE  SlotInv'
<1>0. /\ pc \in [Ops -> PCs] /\ outcome \in [Ops -> Outcomes] /\ SlotOf(o)
      /\ outcome = [outcome EXCEPT ![o] = outcome[o]]
  BY DEF IInv, TypeOK, SlotInv
<1>1. pc[o] \in {"idle", "loaded", "begin", "begun", "prune", "import", "store"}
  BY DEF LoadKey, Reserve, NotAuthorized, Begin, BeginFails, ReencryptFails, CreateOperation,
         PruneChoose, BackendBusy, ImportKm, ImportFails, ImportStores
<1>2. /\ (\A q \in Ops : held[q] # o) /\ ~Alive(o) /\ ~LockedByPruner(o)
      /\ outcome[o] = "Unknown"
  BY <1>1, Unheld DEF Client, InCall, IInv, ActiveBeforeEnd, Creating, Importing
<1>3. o \in km <=> pc[o] = "begun"
  BY <1>0, <1>1, <1>2 DEF SlotOf, UsesSlot, Leaked
<1>4. held' = held
  BY DEF LoadKey, Reserve, NotAuthorized, Begin, BeginFails, ReencryptFails, CreateOperation,
         PruneChoose, BackendBusy, ImportKm, ImportFails, ImportStores, GiveUp
<1>5. CASE pc[o] # "begun" /\ UNCHANGED km
  <2>1. PICK l \in {"loaded", "begin", "prune", "get", "import", "store", "done"} :
          pc' = [pc EXCEPT ![o] = l]
    BY <1>3, <1>5 DEF LoadKey, Reserve, NotAuthorized, Begin, BeginFails, ReencryptFails,
         CreateOperation, PruneChoose, BackendBusy, ImportKm, ImportFails, ImportStores, GiveUp,
         Goto
  <2>2. PICK x : outcome' = [outcome EXCEPT ![o] = x]
    <3>1. CASE outcome' = outcome
      BY <1>0, <3>1
    <3>2. CASE outcome' # outcome
      BY <3>2 DEF LoadKey, Reserve, NotAuthorized, Begin, BeginFails, ReencryptFails,
         CreateOperation, PruneChoose, BackendBusy, ImportKm, ImportFails, ImportStores, GiveUp,
         SetOutcome
    <3>3. QED
      BY <3>1, <3>2
  <2>3. l \notin Client
    BY DEF Client, InCall
  <2>4. QED
    BY <1>1, <1>2, <1>3, <1>4, <1>5, <2>1, <2>2, <2>3, OwnSlotStep DEF UsesAt
<1>6. CASE pc[o] # "begun" /\ ~UNCHANGED km
  <2>1. Begin(o) /\ km' = km \cup {o} /\ pc' = [pc EXCEPT ![o] = "begun"] /\ outcome' = outcome
    BY <1>6 DEF LoadKey, Reserve, NotAuthorized, Begin, BeginFails, ReencryptFails,
         CreateOperation, PruneChoose, BackendBusy, ImportKm, ImportFails, ImportStores, GiveUp,
         Goto
  <2>2. outcome' = [outcome EXCEPT ![o] = outcome[o]]
    BY <1>0, <2>1
  <2>3. QED
    BY <1>1, <1>4, <2>1, <2>2, OwnSlotStep DEF UsesAt
<1>7. CASE CreateOperation(o)
  <2>1. pc' = [pc EXCEPT ![o] = "open"] /\ km' = km /\ outcome' = outcome /\ pc[o] = "begun"
    BY <1>7 DEF CreateOperation, Goto
  <2>2. outcome' = [outcome EXCEPT ![o] = outcome[o]] /\ "open" \in Client
    BY <1>0, <2>1 DEF Client
  <2>3. QED
    BY <1>2, <1>3, <1>4, <2>1, <2>2, OwnSlotStep DEF UsesAt
<1>8. CASE ReencryptFails(o)
  <2>1. /\ pc' = [pc EXCEPT ![o] = "done"] /\ km' = km /\ pc[o] = "begun"
        /\ outcome' = outcome /\ MayLeak(o)
    BY <1>8 DEF ReencryptFails, GiveUp, Goto, MayLeak
  <2>2. outcome' = [outcome EXCEPT ![o] = outcome[o]] /\ "done" \notin Client
    BY <1>0, <2>1 DEF Client, InCall
  <2>3. QED
    BY <1>2, <1>4, <2>1, <2>2, OwnSlotStep DEF UsesAt
<1>9. pc[o] = "begun" => CreateOperation(o) \/ ReencryptFails(o)
  BY DEF LoadKey, Reserve, NotAuthorized, Begin, BeginFails, PruneChoose, BackendBusy, ImportKm,
         ImportFails, ImportStores
<1>10. QED
  BY <1>5, <1>6, <1>7, <1>8, <1>9

LEMMA CallSlotStep ==
    ASSUME IInv, SlotInv, NEW o \in Ops,
           Update(o) \/ UpdateReturns(o) \/ UpdateFails(o) \/ Finish(o) \/ FinishKm(o)
             \/ Commit(o) \/ FinishReturns(o) \/ Abort(o) \/ AbortKm(o)
    PROVE  SlotInv'
<1>0. /\ pc \in [Ops -> PCs] /\ outcome \in [Ops -> Outcomes] /\ SlotOf(o)
      /\ outcome = [outcome EXCEPT ![o] = outcome[o]] /\ held' = held
      /\ (pc[o] = "abort" => outcome[o] # "Unknown")
  BY DEF IInv, TypeOK, SlotInv, AbortMarked, Update, UpdateReturns, UpdateFails, Finish, FinishKm,
         Commit, FinishReturns, Abort, AbortKm
<1>1. ~LockedByPruner(o) /\ pc[o] \in Client /\ pc[o] # "pruning"
  BY Unlocked DEF Update, UpdateReturns, UpdateFails, Finish, FinishKm, Commit, FinishReturns,
         Abort, AbortKm, Ready, Client, InCall
<1>2. o \in km <=>
        pc[o] = "abort" \/ (outcome[o] = "Unknown" /\ pc[o] \notin {"commit", "committed"})
  BY <1>0, <1>1 DEF SlotOf, UsesSlot, Alive, Client, InCall, Leaked
<1>3. pc[o] \in InCall \ {"abort"} => outcome[o] = "Unknown"
  BY DEF IInv, ActiveBeforeEnd
<1>4. CASE Update(o) \/ UpdateReturns(o) \/ Finish(o)
  <2>1. PICK l \in {"update", "open", "finish"} : pc' = [pc EXCEPT ![o] = l]
    BY <1>4 DEF Update, UpdateReturns, Finish, Goto
  <2>2. outcome' = outcome /\ km' = km /\ o \in km /\ outcome[o] = "Unknown"
    BY <1>2, <1>3, <1>4 DEF Update, UpdateReturns, Finish, Ready, InCall
  <2>3. l \in Client
    BY DEF Client, InCall
  <2>4. QED
    BY <1>0, <1>1, <2>1, <2>2, <2>3, OwnSlotStep DEF UsesAt
<1>5. CASE UpdateFails(o)
  <2>1. /\ pc' = [pc EXCEPT ![o] = "done"] /\ outcome' = [outcome EXCEPT ![o] = "ErrorCode"]
        /\ km' = km \ {o} \/ (km' = km /\ MayLeak(o))
    BY <1>5 DEF UpdateFails, Goto, SetOutcome, MayLeak
  <2>2. QED
    BY <1>0, <1>1, <2>1, OwnSlotStep DEF UsesAt
<1>6. CASE FinishKm(o)
  <2>1. PICK l \in {"commit", "done"}, x \in {outcome[o], "ErrorCode"} :
          /\ pc' = [pc EXCEPT ![o] = l] /\ outcome' = [outcome EXCEPT ![o] = x]
          /\ km' = km \ {o} /\ (l = "done" => x = "ErrorCode")
    <3>1. km' = km \ {o}
      BY <1>6 DEF FinishKm
    <3>2. CASE Goto(o, "commit") /\ UNCHANGED outcome
      BY <1>0, <3>1, <3>2 DEF Goto
    <3>3. CASE Goto(o, "done") /\ SetOutcome(o, "ErrorCode")
      BY <3>1, <3>3 DEF Goto, SetOutcome
    <3>4. QED
      BY <1>6, <3>2, <3>3 DEF FinishKm
  <2>2. QED
    BY <1>0, <1>1, <2>1, OwnSlotStep DEF UsesAt
<1>7. CASE Commit(o) \/ FinishReturns(o)
  <2>1. o \notin km /\ km' = km
    BY <1>2, <1>7 DEF Commit, FinishReturns
  <2>2. CASE pc' = [pc EXCEPT ![o] = "committed"] /\ outcome' = outcome
    BY <1>0, <1>1, <2>1, <2>2, OwnSlotStep DEF UsesAt
  <2>3. CASE pc' = [pc EXCEPT ![o] = "done"] /\ outcome' = [outcome EXCEPT ![o] = "ErrorCode"]
    BY <1>0, <1>1, <2>1, <2>3, OwnSlotStep DEF UsesAt
  <2>4. CASE pc' = [pc EXCEPT ![o] = "done"] /\ outcome' = [outcome EXCEPT ![o] = "Success"]
    BY <1>0, <1>1, <2>1, <2>4, OwnSlotStep DEF UsesAt
  <2>5. QED
    BY <1>7, <2>2, <2>3, <2>4 DEF Commit, FinishReturns, Goto, SetOutcome
<1>8. CASE Abort(o)
  <2>1. /\ pc' = [pc EXCEPT ![o] = "abort"] /\ outcome' = [outcome EXCEPT ![o] = "Abort"]
        /\ km' = km /\ o \in km
    BY <1>2, <1>8 DEF Abort, Goto, SetOutcome, Ready
  <2>2. QED
    BY <1>0, <1>1, <2>1, OwnSlotStep DEF UsesAt
<1>9. CASE AbortKm(o)
  <2>1. /\ pc' = [pc EXCEPT ![o] = "done"] /\ outcome' = outcome
        /\ km' = km \ {o} /\ outcome[o] # "Unknown"
    BY <1>0, <1>9 DEF AbortKm, Goto
  <2>2. QED
    BY <1>0, <1>1, <2>1, OwnSlotStep DEF UsesAt
<1>10. QED
  BY <1>4, <1>5, <1>6, <1>7, <1>8, <1>9

\* The client lets go of an operation: whoever holds it last frees its slot.
LEMMA LetGoSlotStep ==
    ASSUME IInv, SlotInv, NEW o \in Ops, CallFinalized(o) \/ CallRefused(o) \/ ClientDrops(o)
    PROVE  SlotInv'
<1>0. /\ pc \in [Ops -> PCs] /\ outcome \in [Ops -> Outcomes] /\ SlotOf(o)
      /\ outcome = [outcome EXCEPT ![o] = outcome[o]] /\ held' = held /\ pc[o] = "open"
      /\ LetGo(o)
  BY DEF IInv, TypeOK, SlotInv, CallFinalized, CallRefused, ClientDrops, Ready
<1>1. pc' = [pc EXCEPT ![o] = "done"]
  BY <1>0 DEF LetGo, Goto
<1>2. o \in km <=> LockedByPruner(o) \/ outcome[o] = "Unknown"
  BY <1>0 DEF SlotOf, UsesSlot, Alive, Client, Leaked
<1>3. "done" \notin Client
  BY DEF Client, InCall
<1>4. CASE \E q \in Ops : held[q] = o
  <2>1. outcome' = outcome /\ km' = km
    BY <1>0, <1>4 DEF LetGo
  <2>2. QED
    BY <1>0, <1>1, <1>2, <1>3, <1>4, <2>1, OwnSlotStep DEF UsesAt
<1>5. CASE ~\E q \in Ops : held[q] = o
  <2>1. ~LockedByPruner(o) /\ DropOperation(o)
    BY <1>0, <1>5 DEF LockedByPruner, LetGo
  <2>2. CASE outcome[o] = "Unknown"
    <3>1. outcome' = [outcome EXCEPT ![o] = "Dropped"] /\ km' = km \ {o}
      BY <2>1, <2>2 DEF DropOperation, SetOutcome
    <3>2. QED
      BY <1>0, <1>1, <1>3, <1>5, <2>1, <3>1, OwnSlotStep DEF UsesAt
  <2>3. CASE outcome[o] # "Unknown"
    <3>1. outcome' = outcome /\ km' = km
      BY <2>1, <2>3 DEF DropOperation
    <3>2. QED
      BY <1>0, <1>1, <1>2, <1>3, <1>5, <2>1, <2>3, <3>1, OwnSlotStep DEF UsesAt
  <2>4. QED
    BY <2>2, <2>3
<1>6. QED
  BY <1>4, <1>5
\* A pruning thread o takes, uses or gives back its reference to p.
LEMMA PruneSlotStep ==
    ASSUME IInv, SlotInv, NEW o \in Ops,
           PruneGet(o) \/ PruneMisses(o) \/ PruneSets(o) \/ PruneAborts(o)
    PROVE  SlotInv'
<1>0. /\ pc \in [Ops -> PCs] /\ outcome \in [Ops -> Outcomes] /\ held \in [Ops -> Ops \cup {None}]
      /\ OnePruner /\ AbortMarked /\ None \notin Ops /\ \A p \in Ops : SlotOf(p)
  BY DEF IInv, TypeOK, SlotInv
<1>1. /\ pc[o] \in {"get", "try", "pruning"} /\ pc[o] \notin Client \cup {"done"}
      /\ \A q \in Ops : held[q] # o
  <2>1. pc[o] \in {"get", "try", "pruning"}
    BY DEF PruneGet, PruneMisses, PruneSets, PruneAborts
  <2>2. QED
    BY <2>1, Unheld DEF Client, InCall
<1>2. CASE PruneGet(o)
  <2>1. UNCHANGED <<outcome, km>> /\ pc[o] = "get"
    BY <1>2 DEF PruneGet
  <2>2. PICK l \in {"try", "begin"} : pc' = [pc EXCEPT ![o] = l]
    BY <1>2 DEF PruneGet, Goto
  <2>3. /\ pc'[o] = l /\ \A p \in Ops \ {o} : pc'[p] = pc[p]
        /\ l \notin Client
    BY <1>0, <2>2 DEF Client, InCall
  <2>4. held[o] = None /\ \A q \in Ops \ {o} : held'[q] = held[q]
    BY <1>0, <1>2, <2>1 DEF PruneGet, IInv, HeldWhilePruning
  <2>5. \A p \in Ops : held'[o] = p => Alive(p)
    BY <1>0, <1>2, <2>4 DEF PruneGet
  <2>6. \A p \in Ops : Alive(p)' <=> Alive(p)
    <3>1. ASSUME NEW p \in Ops, Alive(p) PROVE Alive(p)'
      BY <1>0, <1>1, <2>3, <2>4, <3>1 DEF Alive
    <3>2. ASSUME NEW p \in Ops, Alive(p)' PROVE Alive(p)
      BY <2>3, <2>4, <2>5, <3>2 DEF Alive
    <3>3. QED
      BY <3>1, <3>2
  <2>7. \A p \in Ops : LockedByPruner(p)' <=> LockedByPruner(p)
    BY <2>1, <2>3, <2>4 DEF LockedByPruner
  <2>8. OnePruner' /\ AbortMarked'
    BY <1>0, <2>1, <2>3, <2>4 DEF OnePruner, AbortMarked
  <2>9. ASSUME NEW p \in Ops PROVE SlotOf(p)'
    BY <1>0, <2>1, <2>3, <2>6, <2>7 DEF SlotOf, UsesSlot, Leaked
  <2>10. QED
    BY <2>8, <2>9 DEF SlotInv
<1>3. CASE PruneSets(o)
  <2>1. PICK p \in Ops : p = held[o]
    BY <1>3, HeldIsOp DEF PruneSets
  <2>2. /\ pc[o] = "try" /\ pc' = [pc EXCEPT ![o] = "pruning"] /\ UNCHANGED <<held, km>>
        /\ outcome' = [outcome EXCEPT ![p] = "Pruned"]
        /\ outcome[p] = "Unknown" /\ pc[p] \notin InCall /\ ~LockedByPruner(p)
    BY <1>3, <2>1 DEF PruneSets, MayPrune, OutcomeLocked, Goto, SetOutcome
  <2>3. /\ p # o /\ pc'[o] = "pruning" /\ (\A q \in Ops \ {o} : pc'[q] = pc[q])
        /\ outcome'[p] = "Pruned" /\ \A q \in Ops \ {p} : outcome'[q] = outcome[q]
    BY <1>0, <1>1, <2>1, <2>2
  <2>4. /\ LockedByPruner(p)' /\ (\A q \in Ops \ {p} : LockedByPruner(q)' <=> LockedByPruner(q))
        /\ \A q \in Ops : Alive(q)' <=> Alive(q)
    BY <1>1, <2>1, <2>2, <2>3 DEF LockedByPruner, Alive, Client, InCall
  <2>5. OnePruner'
    BY <1>0, <2>1, <2>2, <2>3 DEF OnePruner, LockedByPruner
  <2>6. AbortMarked'
    BY <1>0, <2>3 DEF AbortMarked
  <2>7. SlotOf(p)'
    <3>1. Alive(p) /\ p \in km
      BY <1>0, <2>1, <2>2 DEF Alive, SlotOf, UsesSlot, InCall, Leaked
    <3>2. QED
      BY <2>2, <2>4, <3>1 DEF SlotOf, UsesSlot, Leaked
  <2>8. ASSUME NEW q \in Ops, q # p PROVE SlotOf(q)'
    <3>1. pc'[q] \in {"begun", "abort"} <=> pc[q] \in {"begun", "abort"}
      BY <2>2, <2>3
    <3>2. pc'[q] \in {"commit", "committed"} <=> pc[q] \in {"commit", "committed"}
      BY <2>2, <2>3
    <3>3. QED
      BY <1>0, <2>2, <2>3, <2>4, <2>8, <3>1, <3>2 DEF SlotOf, UsesSlot, Leaked
  <2>9. QED
    BY <2>5, <2>6, <2>7, <2>8 DEF SlotInv
<1>4. CASE PruneMisses(o) \/ PruneAborts(o)
  <2>1. PICK p \in Ops : p = held[o]
    BY <1>4, HeldIsOp DEF PruneMisses, PruneAborts
  <2>2. /\ pc[o] \in {"try", "pruning"} /\ pc' = [pc EXCEPT ![o] = "begin"]
        /\ held' = [held EXCEPT ![o] = None]
    BY <1>4 DEF PruneMisses, PruneAborts, Goto
  <2>3. /\ p # o /\ pc'[o] = "begin" /\ (\A q \in Ops \ {o} : pc'[q] = pc[q])
        /\ held'[o] = None /\ (\A q \in Ops \ {o} : held'[q] = held[q])
        /\ pc[p] \in Client \cup {"done"}
    BY <1>0, <1>1, <2>1, <2>2 DEF IInv, HeldWasOpened
  <2>4. OnePruner'
    BY <1>0, <2>3 DEF OnePruner
  <2>5. ASSUME NEW q \in Ops, q # p
        PROVE  /\ Alive(q)' <=> Alive(q)
               /\ LockedByPruner(q)' <=> LockedByPruner(q)
               /\ pc'[q] \in {"begun", "abort"} <=> pc[q] \in {"begun", "abort"}
               /\ pc'[q] \in {"commit", "committed"} <=> pc[q] \in {"commit", "committed"}
               /\ Leaked(q)' <=> Leaked(q)
    <3>1. Alive(q)' <=> Alive(q)
      BY <1>0, <1>1, <2>1, <2>3, <2>5 DEF Alive, Client, InCall
    <3>2. LockedByPruner(q)' <=> LockedByPruner(q)
      BY <1>0, <2>1, <2>3, <2>5 DEF LockedByPruner
    <3>3. Leaked(q)' <=> Leaked(q)
      BY <2>2, <2>3 DEF Leaked
    <3>4. QED
      BY <2>2, <2>3, <3>1, <3>2, <3>3
  <2>6. CASE PruneAborts(o)
    <3>1. km' = km \ {p} /\ outcome' = outcome /\ pc[o] = "pruning"
      BY <2>1, <2>6 DEF PruneAborts
    <3>2. outcome[p] = "Pruned" /\ pc[p] \in {"open", "done"}
      BY <2>1, <3>1 DEF IInv, PruningMarked
    <3>3. ~LockedByPruner(p)'
      BY <1>0, <2>1, <2>3, <3>1 DEF LockedByPruner, OnePruner
    <3>4. SlotOf(p)'
      BY <2>3, <3>1, <3>2, <3>3 DEF SlotOf, UsesSlot, Leaked
    <3>5. ASSUME NEW q \in Ops, q # p PROVE SlotOf(q)'
      BY <1>0, <2>5, <3>1, <3>5 DEF SlotOf, UsesSlot
    <3>6. AbortMarked'
      BY <1>0, <2>3, <3>1 DEF AbortMarked
    <3>7. QED
      BY <2>4, <3>4, <3>5, <3>6 DEF SlotInv
  <2>7. CASE PruneMisses(o)
    <3>0. pc[o] = "try"
      BY <2>7 DEF PruneMisses
    <3>1. LockedByPruner(p)' <=> LockedByPruner(p)
      BY <1>0, <2>1, <2>3, <3>0 DEF LockedByPruner
    <3>2. CASE pc[p] \in Client \/ \E q \in Ops \ {o} : held[q] = p
      <4>1. UNCHANGED <<outcome, km>>
        BY <2>1, <2>7, <3>2 DEF PruneMisses
      <4>2. Alive(p)' /\ Alive(p)
        BY <2>1, <2>3, <3>2 DEF Alive
      <4>3. SlotOf(p)'
        BY <1>0, <2>3, <3>1, <4>1, <4>2 DEF SlotOf, UsesSlot, Leaked
      <4>4. ASSUME NEW q \in Ops, q # p PROVE SlotOf(q)'
        BY <1>0, <2>5, <4>1, <4>4 DEF SlotOf, UsesSlot
      <4>5. AbortMarked'
        BY <1>0, <2>3, <4>1 DEF AbortMarked
      <4>6. QED
        BY <2>4, <4>3, <4>4, <4>5 DEF SlotInv
    <3>3. CASE ~(pc[p] \in Client \/ \E q \in Ops \ {o} : held[q] = p)
      <4>1. DropOperation(p) /\ pc[p] = "done"
        BY <2>1, <2>3, <2>7, <3>3 DEF PruneMisses
      <4>2. ~Alive(p)' /\ ~LockedByPruner(p)' /\ ~LockedByPruner(p) /\ Alive(p)
        BY <1>0, <2>1, <2>3, <3>0, <3>3 DEF Alive, LockedByPruner
      <4>3. outcome[p] # "Unknown" /\ p \in km => Leaked(p)
        BY <1>0, <4>1, <4>2 DEF SlotOf, UsesSlot, Leaked
      <4>4. /\ p \in km' => Leaked(p)
            /\ (\A q \in Ops \ {p} : q \in km' <=> q \in km)
            /\ \A q \in Ops \ {p} : outcome'[q] = outcome[q]
        BY <1>0, <4>1, <4>3 DEF DropOperation, SetOutcome
      <4>5. SlotOf(p)'
        BY <2>3, <4>1, <4>2, <4>4 DEF SlotOf, UsesSlot, Leaked
      <4>6. ASSUME NEW q \in Ops, q # p PROVE SlotOf(q)'
        BY <1>0, <2>5, <4>4, <4>6 DEF SlotOf, UsesSlot
      <4>7. AbortMarked'
        BY <1>0, <2>3, <4>1, <4>4 DEF AbortMarked
      <4>8. QED
        BY <2>4, <4>5, <4>6, <4>7 DEF SlotInv
    <3>4. QED
      BY <3>2, <3>3
  <2>8. QED
    BY <1>4, <2>6, <2>7
<1>5. QED
  BY <1>2, <1>3, <1>4

LEMMA SlotInit == Init => SlotInv
BY DEF Init, SlotInv, OnePruner, AbortMarked, SlotOf, UsesSlot, Alive, LockedByPruner, Client,
       InCall

LEMMA SlotStep ==
    ASSUME IInv, SlotInv, [Next]_vars
    PROVE  SlotInv'
<1>1. CASE /\ UNCHANGED <<pc, outcome, held, km>>
  BY <1>1 DEF SlotInv, OnePruner, AbortMarked, SlotOf, UsesSlot, Alive, LockedByPruner, Leaked
<1>2. CASE Crash
  <2>1. km' = {} /\ \A o \in Ops : pc'[o] \in {"idle", "done"} /\ held'[o] = None
    BY <1>2 DEF Crash
  <2>2. \A o \in Ops : ~Alive(o)' /\ ~LockedByPruner(o)'
    BY <2>1 DEF Alive, LockedByPruner, Client, InCall
  <2>3. \A o \in Ops : SlotOf(o)'
    BY <2>1, <2>2 DEF SlotOf, UsesSlot
  <2>4. OnePruner' /\ AbortMarked'
    BY <2>1 DEF OnePruner, AbortMarked
  <2>5. QED
    BY <2>3, <2>4 DEF SlotInv
<1>3. ASSUME NEW o \in Ops, ThreadStep(o) \/ ClientStep(o) PROVE SlotInv'
  BY <1>3, CreateSlotStep, CallSlotStep, LetGoSlotStep, PruneSlotStep DEF ThreadStep, ClientStep
<1>4. QED
  BY <1>1, <1>2, <1>3 DEF Next, vars, UnbindKey, Tick, Finished

\* The TA has a slot for each operation that keystore still has, and else only
\* those that operations with a token per call, or with a blob that is encrypted
\* again, have left behind, whatever is pruned, dropped, aborted or failing at
\* the same time.
THEOREM NoSlotLeaked == Spec => []SlotsAccountedFor
<1>1. IInv /\ SlotInv => SlotsAccountedFor
  BY DEF SlotInv, SlotOf, SlotsAccountedFor
<1>2. Init => SlotInv
  BY SlotInit
<1>3. IInv /\ SlotInv /\ [Next]_vars => SlotInv'
  BY SlotStep
<1>4. QED
  BY <1>1, <1>2, <1>3, Invariance, PTL DEF Spec
=============================================================================
