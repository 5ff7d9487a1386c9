---------------------------- MODULE PruningFold ----------------------------
(***************************************************************************)
(* The loop of OperationDb::prune as the code runs it, a fold over the     *)
(* gathered infos in slot order with a best candidate and an oldest        *)
(* sibling as accumulators, against the order-free definition of Pruning   *)
(* that KeystoreOperations uses, and against what the comment on prune()   *)
(* promises to well behaved clients.                                       *)
(***************************************************************************)
EXTENDS Pruning, Sequences, SequencesExt

CONSTANTS Owners,   \* AppUids
          Times,    \* last usages to try
          Now,      \* the time prune() reads
          MaxOps    \* the longest list of infos

PruningAssumption == Times \subseteq Nat /\ Now \in Nat /\ MaxOps \in Nat

VARIABLES input,  \* [infos, caller, forced]: what one call of prune() sees
          called, \* did the call return?
          result  \* the sequence with the chosen index, or <<>>

vars == <<input, called, result>>

NoInfo == [index |-> 0, malus |-> 0, age |-> 0]
InfoSet(infos) == {infos[i] : i \in 1..Len(infos)}

\* Mutant of Better: of two equals the younger one is pruned.
MutBetter(c, best) == c.malus > best.malus \/ (c.malus = best.malus /\ c.age < best.age)

\* The worst score wins, the older one of a tie.
Better(c, best) == c.malus > best.malus \/ (c.malus = best.malus /\ c.age > best.age)

\* One round of the fold. best and oldest are NoInfo until there is one.
Round(acc, info, infos, caller, forced) ==
    LET S == InfoSet(infos)
        c == [index |-> info.index, malus |-> Malus(S, info, Now), age |-> Age(info, Now)]
        strong == IF acc.best = NoInfo
                  THEN CallerMalus(S, caller, forced) < c.malus
                  ELSE Better(c, acc.best)
        older == /\ info.owner = caller
                 /\ acc.oldest = NoInfo \/ c.age > acc.oldest.age
    IN [best   |-> IF strong THEN c ELSE acc.best,
        oldest |-> IF older THEN c ELSE acc.oldest]

\* candidate.or(oldest_caller_op)
Choose(in) ==
    LET acc == FoldLeft(LAMBDA a, info : Round(a, info, in.infos, in.caller, in.forced),
                        [best |-> NoInfo, oldest |-> NoInfo], in.infos)
    IN IF acc.best # NoInfo THEN <<acc.best.index>>
       ELSE IF acc.oldest # NoInfo THEN <<acc.oldest.index>>
       ELSE <<>>

Infos(n) == {s \in [1..n -> [last_usage : Times, owner : Owners, index : 1..n,
                              forced : BOOLEAN]] : \A i \in 1..n : s[i].index = i}

Init ==
    /\ input \in [infos : UNION {Infos(n) : n \in 0..MaxOps},
                  caller : Owners, forced : BOOLEAN]
    /\ called = FALSE
    /\ result = <<>>

Prune ==
    /\ ~called
    /\ called' = TRUE
    /\ result' = Choose(input)
    /\ UNCHANGED input

Spec == Init /\ [][Prune]_vars
-----------------------------------------------------------------------------
Chosen == input.infos[result[1]]

\* The fold of prune() finds exactly the candidate that Pruning defines, and
\* none exactly when there is none (operation.rs, OperationDb::prune).
FoldFindsCandidate ==
    called =>
        {i \in InfoSet(input.infos) :
            IsCandidate(InfoSet(input.infos), i, input.caller, input.forced, Now)}
        = {input.infos[result[j]] : j \in 1..Len(result)}

\* The state after a caller pruned its candidate and started its own operation.
After == {i \in InfoSet(input.infos) : i # Chosen} \cup
         {[last_usage |-> Now, owner |-> input.caller, index |-> Chosen.index, forced |-> input.forced]}

\* Pruning does not turn into a livelock: a caller whose only operation is the
\* one it made room for does not lose it to the owner it took the slot from.
NoPruningBack ==
    result # <<>> /\ Chosen.owner # input.caller /\ ~Chosen.forced
      /\ RunningSiblings(InfoSet(input.infos), input.caller) = 0 =>
        \A i \in After : i.owner = input.caller =>
            ~IsCandidate(After, i, Chosen.owner, FALSE, Now)
=============================================================================
