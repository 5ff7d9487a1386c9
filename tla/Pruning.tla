------------------------------ MODULE Pruning ------------------------------
(***************************************************************************)
(* The pruning strategy of OperationDb::prune                              *)
(* (src/src/keymaster/operation.rs): given what phase 1 gathered about the *)
(* running operations, which one may the caller prune?  This module is     *)
(* the pure choice of phase 2; KeystoreOperations interleaves the three    *)
(* phases with the rest of the system.                                     *)
(*                                                                         *)
(* A pruning info is a record [last_usage, owner, index, forced]; times    *)
(* are whole seconds.                                                      *)
(***************************************************************************)
EXTENDS Naturals, FiniteSets

\* The greatest exponent that matters: 6^12 seconds are 69 years of uptime.
MaxExponent == 11

\* floor(log6(age + 1)): the age malus grows after 5s, 35s, 215s, ...
AgeMalus(age) == Cardinality({e \in 1..MaxExponent : 6^e <= age + 1})

\* now.checked_duration_since(last_usage), 0 when last_usage is in the future.
Age(info, now) == IF info.last_usage <= now THEN now - info.last_usage ELSE 0

\* The number of gathered operations of one owner.
RunningSiblings(infos, owner) == Cardinality({i \in infos : i.owner = owner})

\* Mutant of CallerMalus: the new operation itself does not count.
MutCallerMalus(infos, caller, forced) ==
    IF forced THEN 0 ELSE RunningSiblings(infos, caller)

\* The inverse of the caller's pruning power.
CallerMalus(infos, caller, forced) ==
    IF forced THEN 0 ELSE 1 + RunningSiblings(infos, caller)

\* The inverse of the pruning resistance of a running operation.
Malus(infos, info, now) ==
    IF info.forced THEN 0
    ELSE RunningSiblings(infos, info.owner) + AgeMalus(Age(info, now))

\* a is pruned rather than b: a higher malus, then the greater age, then the
\* lower index (the fold walks the slots in order and replaces its
\* accumulator only by a strictly worse operation).
WeakerThan(infos, a, b, now) ==
    LET ma == Malus(infos, a, now)
        mb == Malus(infos, b, now)
    IN \/ ma > mb
       \/ ma = mb /\ Age(a, now) > Age(b, now)
       \/ ma = mb /\ Age(a, now) = Age(b, now) /\ a.index < b.index

\* The infos a caller is strong enough to prune.
Prunable(infos, caller, forced, now) ==
    {i \in infos : CallerMalus(infos, caller, forced) < Malus(infos, i, now)}

\* The first choice: the weakest of the prunable operations.
IsWeakest(infos, i, caller, forced, now) ==
    LET P == Prunable(infos, caller, forced, now)
    IN i \in P /\ \A j \in P \ {i} : WeakerThan(infos, i, j, now)

\* The second choice: the least recently used operation of the caller itself.
IsOldestSibling(infos, i, caller, now) ==
    /\ i.owner = caller
    /\ \A j \in {x \in infos : x.owner = caller} \ {i} :
          \/ Age(i, now) > Age(j, now)
          \/ Age(i, now) = Age(j, now) /\ i.index < j.index

\* The candidate that prune() goes on to abort.
IsCandidate(infos, i, caller, forced, now) ==
    IF Prunable(infos, caller, forced, now) # {}
    THEN IsWeakest(infos, i, caller, forced, now)
    ELSE IsOldestSibling(infos, i, caller, now)
=============================================================================
