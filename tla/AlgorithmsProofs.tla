-------------------------- MODULE AlgorithmsProofs --------------------------
(***************************************************************************)
(* Proofs about what one call computes: the candidate that prune() chooses *)
(* (PruningFold), for any list of operations and any owners and times, and *)
(* the checks of a key's parameters and of an operation's (KeyParameters), *)
(* for any requests and parameters.                                        *)
(***************************************************************************)
EXTENDS Algorithms, Sequences, FiniteSetTheorems, WellFoundedInduction, TLAPS

(***************************************************************************)
(* The malus of an operation.                                              *)
(***************************************************************************)
\* The steps of the age malus are at ages above 0.
LEMMA Powers == \A e \in 1..11 : ~(6^e <= 0 + 1)
<1>1. ASSUME NEW e \in 1..11
      PROVE  \/ e = 1 \/ e = 2 \/ e = 3 \/ e = 4 \/ e = 5 \/ e = 6 \/ e = 7 \/ e = 8
             \/ e = 9 \/ e = 10 \/ e = 11
  OBVIOUS
<1>2. /\ ~(6^1 <= 0 + 1) /\ ~(6^2 <= 0 + 1) /\ ~(6^3 <= 0 + 1) /\ ~(6^4 <= 0 + 1)
      /\ ~(6^5 <= 0 + 1) /\ ~(6^6 <= 0 + 1) /\ ~(6^7 <= 0 + 1) /\ ~(6^8 <= 0 + 1)
      /\ ~(6^9 <= 0 + 1) /\ ~(6^10 <= 0 + 1) /\ ~(6^11 <= 0 + 1)
  OBVIOUS
<1>3. QED
  BY <1>1, <1>2

LEMMA NewbornMalus == AgeMalus(0) = 0
<1>1. {e \in 1..MaxExponent : 6^e <= 0 + 1} = {}
  BY Powers DEF MaxExponent
<1>2. QED
  BY <1>1, FS_EmptySet DEF AgeMalus

LEMMA AgeMalusNat == ASSUME NEW age PROVE AgeMalus(age) \in Nat
<1>1. IsFiniteSet(1..MaxExponent)
  BY FS_Interval, 1 \in Int, 11 \in Int DEF MaxExponent
<1>2. IsFiniteSet({e \in 1..MaxExponent : 6^e <= age + 1})
  BY <1>1, FS_Subset
<1>3. QED
  BY <1>2, FS_CardinalityType DEF AgeMalus
-----------------------------------------------------------------------------
(***************************************************************************)
(* The fold.  FoldLeft is a recursive function on the subsets of the       *)
(* positions; the one on 1..n is the state of the loop after n rounds.     *)
(***************************************************************************)
Start == [best |-> NoInfo, oldest |-> NoInfo]

IsIter(f, in, n) ==
    f = [s \in SUBSET (1..n) |->
           IF s = {} THEN Start
           ELSE Round(f[s \ {Max(s)}], in.infos[Max(s)], in.infos, in.caller, in.forced)]

Iter(in) ==
    CHOOSE f :
      f = [s \in SUBSET (DOMAIN in.infos) |->
             IF s = {} THEN Start
             ELSE Round(f[s \ {Max(s)}], in.infos[Max(s)], in.infos, in.caller, in.forced)]

Ends(acc) ==
    IF acc.best # NoInfo THEN <<acc.best.index>>
    ELSE IF acc.oldest # NoInfo THEN <<acc.oldest.index>>
    ELSE <<>>

LEMMA ChooseIter == ASSUME NEW in PROVE Choose(in) = Ends(Iter(in)[DOMAIN in.infos])
  BY DEF Choose, FoldLeft, MapThenFoldSet, Iter, Ends, Start

LEMMA IterExists ==
    ASSUME NEW in, NEW n, DOMAIN in.infos = 1..n, \E f : IsIter(f, in, n)
    PROVE  IsIter(Iter(in), in, n)
  BY Zenon DEF IsIter, Iter

\* Naturals have a least element: the induction over positions below is a
\* search for the first one that fails.
LEMMA Least ==
    ASSUME NEW T \in SUBSET Nat, T # {}
    PROVE  \E x \in T : \A y \in T : x <= y
<1>1. \E x \in T : \A y \in T : ~(<<y, x>> \in OpToRel(<, Nat))
  BY NatLessThanWellFounded, WFMin
<1>2. PICK x \in T : \A y \in T : ~(y < x)
  BY <1>1 DEF OpToRel
<1>3. QED
  BY <1>2

LEMMA Greatest ==
    ASSUME NEW n \in Nat, NEW S \in SUBSET (1..n), S # {}
    PROVE  Max(S) \in S /\ \A i \in S : i <= Max(S)
<1> DEFINE T == {n - i : i \in S}
<1>1. T \in SUBSET Nat /\ T # {}
  <2>1. \A i \in S : n - i \in Nat
    OBVIOUS
  <2>2. QED
    BY <2>1
<1>2. PICK x \in T : \A y \in T : x <= y
  BY <1>1, Least
<1>3. PICK m \in S : x = n - m
  BY <1>2
<1>4. \A i \in S : m >= i
  <2> TAKE i \in S
  <2>1. n - i \in T
    OBVIOUS
  <2>2. QED
    BY <1>2, <1>3, <2>1
<1>5. Max(S) \in S /\ \A i \in S : Max(S) >= i
  BY <1>4, Zenon DEF Max
<1>6. QED
  BY <1>5

LEMMA MaxPrefix ==
    ASSUME NEW n \in Nat, n # 0
    PROVE  1..n # {} /\ Max(1..n) = n /\ (1..n) \ {n} = 1..(n - 1)
<1>1. 1..n # {} /\ n \in 1..n
  OBVIOUS
<1>2. Max(1..n) \in 1..n /\ \A i \in 1..n : i <= Max(1..n)
  BY <1>1, Greatest
<1>3. QED
  BY <1>1, <1>2

LEMMA IterStep ==
    ASSUME NEW in, NEW n \in Nat, NEW g, IsIter(g, in, n)
    PROVE  \E f : IsIter(f, in, n + 1)
<1> DEFINE R(a, x) == Round(a, in.infos[x], in.infos, in.caller, in.forced)
           D == SUBSET (1..(n + 1))
           f == [s \in D |-> IF n + 1 \in s THEN R(g[s \ {n + 1}], n + 1) ELSE g[s]]
<1>1. ASSUME NEW s \in SUBSET (1..n) PROVE s \in D /\ f[s] = g[s]
  BY <1>1
<1>2. ASSUME NEW s \in SUBSET (1..n), s # {}
      PROVE  g[s] = R(g[s \ {Max(s)}], Max(s)) /\ Max(s) \in s
  BY <1>2, Greatest DEF IsIter
<1>3. g[{}] = Start
  BY DEF IsIter
<1> HIDE DEF R
<1>4. ASSUME NEW s \in D
      PROVE  f[s] = IF s = {} THEN Start ELSE R(f[s \ {Max(s)}], Max(s))
  <2>1. CASE s = {}
    BY <1>1, <1>3, <2>1
  <2>2. CASE n + 1 \in s
    <3>1. Max(s) = n + 1
      <4>1. n + 1 \in Nat /\ s \in SUBSET (1..(n + 1)) /\ s # {}
        BY <2>2
      <4>2. Max(s) \in s /\ n + 1 <= Max(s)
        BY <2>2, <4>1, Greatest
      <4>3. Max(s) \in 1..(n + 1)
        BY <4>1, <4>2
      <4>4. QED
        BY <4>2, <4>3
    <3>2. s \ {n + 1} \in SUBSET (1..n)
      OBVIOUS
    <3>3. f[s \ {n + 1}] = g[s \ {n + 1}]
      BY <1>1, <3>2
    <3>4. QED
      BY <2>2, <3>1, <3>3
  <2>3. CASE s # {} /\ n + 1 \notin s
    <3>1. s \in SUBSET (1..n)
      BY <2>3
    <3>2. f[s] = R(g[s \ {Max(s)}], Max(s)) /\ s \ {Max(s)} \in SUBSET (1..n)
      BY <1>1, <1>2, <2>3, <3>1
    <3>3. QED
      BY <1>1, <2>3, <3>2
  <2>4. QED
    BY <2>1, <2>2, <2>3
<1>5. f = [s \in D |-> f[s]]
  OBVIOUS
<1> HIDE DEF f
<1>6. f = [s \in D |-> IF s = {} THEN Start ELSE R(f[s \ {Max(s)}], Max(s))]
  BY <1>4, <1>5
<1>7. IsIter(f, in, n + 1)
  BY <1>6 DEF IsIter, R
<1>8. QED
  BY <1>7

LEMMA IterThere ==
    ASSUME NEW in, NEW N \in Nat
    PROVE  \E f : IsIter(f, in, N)
<1> DEFINE Bad == {n \in Nat : ~\E f : IsIter(f, in, n)}
<1> SUFFICES ASSUME Bad # {} PROVE FALSE
  OBVIOUS
<1>1. PICK m \in Bad : \A y \in Bad : m <= y
  BY Least
<1>2. CASE m = 0
  <2> DEFINE f == [s \in SUBSET (1..0) |-> Start]
  <2>1. SUBSET (1..0) = {{}}
    OBVIOUS
  <2>2. f = [s \in SUBSET (1..0) |->
               IF s = {} THEN Start
               ELSE Round(f[s \ {Max(s)}], in.infos[Max(s)], in.infos, in.caller, in.forced)]
    BY <2>1
  <2>3. IsIter(f, in, 0)
    BY <2>2, Zenon DEF IsIter
  <2>4. QED
    BY <1>2, <2>3
<1>3. CASE m # 0
  <2>1. m - 1 \in Nat /\ m - 1 \notin Bad /\ (m - 1) + 1 = m
    BY <1>1, <1>3
  <2>2. PICK g : IsIter(g, in, m - 1)
    BY <2>1
  <2>3. \E f : IsIter(f, in, (m - 1) + 1)
    BY <2>1, <2>2, IterStep
  <2>4. QED
    BY <2>1, <2>3
<1>4. QED
  BY <1>2, <1>3

\* The state of the loop after n rounds.
Rounds(in, n) == Iter(in)[1..n]

LEMMA RoundByRound ==
    ASSUME NEW in, NEW N \in Nat, DOMAIN in.infos = 1..N
    PROVE  /\ Rounds(in, 0) = Start
           /\ \A n \in 1..N : Rounds(in, n) =
                Round(Rounds(in, n - 1), in.infos[n], in.infos, in.caller, in.forced)
<1> DEFINE F == Iter(in)
           R(a, x) == Round(a, in.infos[x], in.infos, in.caller, in.forced)
<1>1. IsIter(F, in, N)
  BY IterThere, IterExists
<1>2. F = [s \in SUBSET (1..N) |-> IF s = {} THEN Start ELSE R(F[s \ {Max(s)}], Max(s))]
  BY <1>1 DEF IsIter
<1> HIDE DEF F, R
<1>3. F[1..0] = Start
  <2>1. 1..0 = {} /\ {} \in SUBSET (1..N)
    OBVIOUS
  <2>2. F[{}] = Start
    BY <1>2, <2>1
  <2>3. QED
    BY <2>1, <2>2
<1>4. ASSUME NEW n \in 1..N PROVE F[1..n] = R(F[1..(n - 1)], n)
  <2>1. 1..n \in SUBSET (1..N) /\ n \in Nat /\ n # 0
    OBVIOUS
  <2>2. F[1..n] = R(F[(1..n) \ {Max(1..n)}], Max(1..n))
    BY <1>2, <2>1, MaxPrefix
  <2>3. QED
    BY <2>1, <2>2, MaxPrefix
<1>5. QED
  BY <1>3, <1>4 DEF F, R, Rounds
-----------------------------------------------------------------------------
(***************************************************************************)
(* What a call sees: the positions of a list stand for its infos.          *)
(***************************************************************************)
Inputs == [infos : UNION {Infos(n) : n \in 0..MaxOps}, caller : Owners, forced : BOOLEAN]

\* A list of n infos, each at its index.
Lists(in, n) ==
    /\ n \in Nat /\ Len(in.infos) = n /\ DOMAIN in.infos = 1..n
    /\ \A i \in 1..n : /\ in.infos[i].index = i
                       /\ in.infos[i].last_usage \in Nat /\ in.infos[i].forced \in BOOLEAN

LEMMA InputLists ==
    ASSUME PruningAssumption, NEW in \in Inputs
    PROVE  \E n \in Nat : Lists(in, n)
<1>1. PICK n \in 0..MaxOps : in.infos \in Infos(n)
  BY DEF Inputs
<1>2. n \in Nat /\ Times \subseteq Nat
  BY DEF PruningAssumption
<1>3. /\ in.infos \in [1..n -> [last_usage : Times, owner : Owners, index : 1..n, forced : BOOLEAN]]
      /\ \A i \in 1..n : in.infos[i].index = i
  BY <1>1 DEF Infos
<1>4. Len(in.infos) = n /\ DOMAIN in.infos = 1..n
  BY <1>2, <1>3
<1>5. ASSUME NEW i \in 1..n
      PROVE  in.infos[i].last_usage \in Nat /\ in.infos[i].forced \in BOOLEAN
  BY <1>2, <1>3
<1>6. QED
  BY <1>2, <1>3, <1>4, <1>5 DEF Lists

LEMMA InfoPositions ==
    ASSUME NEW in, NEW n, Lists(in, n)
    PROVE  /\ \A x : x \in InfoSet(in.infos) <=> \E i \in 1..n : x = in.infos[i]
           /\ \A i, j \in 1..n : in.infos[i] = in.infos[j] => i = j
           /\ IsFiniteSet(InfoSet(in.infos))
<1>1. InfoSet(in.infos) = {in.infos[i] : i \in 1..n}
  BY DEF InfoSet, Lists
<1>2. \A x : x \in InfoSet(in.infos) <=> \E i \in 1..n : x = in.infos[i]
  BY <1>1
<1>3. \A i, j \in 1..n : in.infos[i] = in.infos[j] => i = j
  BY DEF Lists
<1>4. IsFiniteSet(InfoSet(in.infos))
  <2>1. IsFiniteSet(1..n)
    BY FS_Interval, 1 \in Int, n \in Int DEF Lists
  <2> DEFINE f == [i \in 1..n |-> in.infos[i]]
  <2>2. f \in Surjection(1..n, InfoSet(in.infos))
    BY <1>1 DEF Surjection
  <2>3. QED
    BY <2>1, <2>2, FS_Surjection
<1>5. QED
  BY <1>2, <1>3, <1>4

LEMMA SiblingsNat ==
    ASSUME NEW S, IsFiniteSet(S), NEW o
    PROVE  /\ IsFiniteSet({i \in S : i.owner = o}) /\ RunningSiblings(S, o) \in Nat
<1>1. IsFiniteSet({i \in S : i.owner = o})
  BY FS_Subset
<1>2. QED
  BY <1>1, FS_CardinalityType DEF RunningSiblings

\* The score of the info at a position, and of the caller.
M(in, i) == Malus(InfoSet(in.infos), in.infos[i], Now)
A(in, i) == Age(in.infos[i], Now)
C(in)    == CallerMalus(InfoSet(in.infos), in.caller, in.forced)

LEMMA ScoresNat ==
    ASSUME PruningAssumption, NEW in, NEW n, Lists(in, n)
    PROVE  C(in) \in Nat /\ \A i \in 1..n : M(in, i) \in Nat /\ A(in, i) \in Nat
<1>1. IsFiniteSet(InfoSet(in.infos))
  BY InfoPositions
<1>2. \A o : RunningSiblings(InfoSet(in.infos), o) \in Nat
  BY <1>1, SiblingsNat
<1>3. C(in) \in Nat
  BY <1>2 DEF C, CallerMalus
<1>4. ASSUME NEW i \in 1..n PROVE M(in, i) \in Nat /\ A(in, i) \in Nat
  <2>1. A(in, i) \in Nat
    BY DEF A, Age, Lists, PruningAssumption
  <2>2. RunningSiblings(InfoSet(in.infos), in.infos[i].owner) \in Nat
    BY <1>2
  <2>3. AgeMalus(Age(in.infos[i], Now)) \in Nat
    BY AgeMalusNat
  <2>4. M(in, i) \in Nat
    BY <2>2, <2>3 DEF M, Malus
  <2>5. QED
    BY <2>1, <2>4
<1>5. QED
  BY <1>3, <1>4
-----------------------------------------------------------------------------
(***************************************************************************)
(* The loop invariant: after n rounds, best is the weakest of the first n  *)
(* that the caller can prune, and oldest the oldest of its own.            *)
(***************************************************************************)
Scored(in, i) == [index |-> i, malus |-> M(in, i), age |-> A(in, i)]
Strong(in, i) == C(in) < M(in, i)
Own(in, i)    == in.infos[i].owner = in.caller

Worse(in, b, i) ==
    \/ M(in, b) > M(in, i)
    \/ M(in, b) = M(in, i) /\ A(in, b) > A(in, i)
    \/ M(in, b) = M(in, i) /\ A(in, b) = A(in, i) /\ b < i

Older(in, b, i) == A(in, b) > A(in, i) \/ (A(in, b) = A(in, i) /\ b < i)

IsBest(in, n, b) ==
    /\ b \in 1..n /\ Strong(in, b)
    /\ \A i \in (1..n) \ {b} : Strong(in, i) => Worse(in, b, i)

IsOldest(in, n, b) ==
    /\ b \in 1..n /\ Own(in, b)
    /\ \A i \in (1..n) \ {b} : Own(in, i) => Older(in, b, i)

BestOK(in, n, c) ==
    \/ c = NoInfo /\ \A i \in 1..n : ~Strong(in, i)
    \/ \E b \in 1..n : c = Scored(in, b) /\ IsBest(in, n, b)

OldestOK(in, n, c) ==
    \/ c = NoInfo /\ \A i \in 1..n : ~Own(in, i)
    \/ \E b \in 1..n : c = Scored(in, b) /\ IsOldest(in, n, b)

LEMMA ScoredIsInfo ==
    ASSUME NEW in, NEW n \in Nat, NEW i \in 1..n
    PROVE  /\ Scored(in, i) # NoInfo /\ Scored(in, i).index = i
           /\ Scored(in, i).malus = M(in, i) /\ Scored(in, i).age = A(in, i)
  BY DEF Scored, NoInfo

LEMMA BestKept ==
    ASSUME PruningAssumption, NEW in, NEW N, Lists(in, N), NEW n \in 1..N,
           NEW acc, BestOK(in, n - 1, acc.best), NEW c,
           c = IF (IF acc.best = NoInfo THEN Strong(in, n) ELSE Better(Scored(in, n), acc.best))
               THEN Scored(in, n) ELSE acc.best
    PROVE  BestOK(in, n, c)
<1>1. N \in Nat /\ n \in Nat /\ n - 1 \in Nat /\ 1..n = (1..(n - 1)) \cup {n} /\ n \in 1..n
  BY DEF Lists
<1>2. C(in) \in Nat /\ \A i \in 1..n : M(in, i) \in Nat /\ A(in, i) \in Nat
  BY <1>1, ScoresNat
<1>3. CASE acc.best = NoInfo /\ \A i \in 1..(n - 1) : ~Strong(in, i)
  <2>1. CASE Strong(in, n)
    <3>1. c = Scored(in, n) /\ IsBest(in, n, n)
      BY <1>1, <1>3, <2>1 DEF IsBest
    <3>2. QED
      BY <1>1, <3>1 DEF BestOK
  <2>2. CASE ~Strong(in, n)
    BY <1>1, <1>3, <2>2 DEF BestOK
  <2>3. QED
    BY <2>1, <2>2
<1>4. ASSUME NEW b \in 1..(n - 1), acc.best = Scored(in, b), IsBest(in, n - 1, b)
      PROVE  BestOK(in, n, c)
  <2>1. /\ acc.best # NoInfo /\ acc.best.malus = M(in, b) /\ acc.best.age = A(in, b)
        /\ Scored(in, n).malus = M(in, n) /\ Scored(in, n).age = A(in, n)
    <3>1. Scored(in, n).malus = M(in, n) /\ Scored(in, n).age = A(in, n)
      BY DEF Scored
    <3>2. n - 1 \in Nat /\ b \in 1..(n - 1)
      BY <1>1
    <3>3. /\ Scored(in, b) # NoInfo
          /\ Scored(in, b).malus = M(in, b) /\ Scored(in, b).age = A(in, b)
      BY <3>2, ScoredIsInfo
    <3>4. acc.best # NoInfo /\ acc.best.malus = M(in, b) /\ acc.best.age = A(in, b)
      BY <1>4, <3>3
    <3>5. QED
      BY <3>1, <3>4
  <2>2. b \in 1..n /\ b # n /\ b < n /\ b \in Nat
    BY <1>1
  <2>3. Better(Scored(in, n), acc.best) <=> \/ M(in, n) > M(in, b)
                                            \/ M(in, n) = M(in, b) /\ A(in, n) > A(in, b)
    BY <2>1 DEF Better
  <2>4. CASE Better(Scored(in, n), acc.best)
    <3>1. c = Scored(in, n)
      BY <2>1, <2>4
    <3>2. Strong(in, n)
      BY <1>1, <1>2, <1>4, <2>2, <2>3, <2>4 DEF IsBest, Strong
    <3>3. ASSUME NEW i \in (1..n) \ {n}, Strong(in, i) PROVE Worse(in, n, i)
      <4>1. i \in 1..(n - 1) /\ i \in 1..n
        BY <1>1
      <4>2. i = b \/ Worse(in, b, i)
        BY <1>4, <3>3, <4>1 DEF IsBest
      <4>3. QED
        BY <1>1, <1>2, <2>2, <2>3, <2>4, <4>1, <4>2 DEF Worse
    <3>4. QED
      BY <1>1, <3>1, <3>2, <3>3 DEF BestOK, IsBest
  <2>5. CASE ~Better(Scored(in, n), acc.best)
    <3>1. c = Scored(in, b)
      BY <1>4, <2>1, <2>5
    <3>2. Worse(in, b, n)
      BY <1>1, <1>2, <2>2, <2>3, <2>5 DEF Worse
    <3>3. IsBest(in, n, b)
      BY <1>1, <1>4, <2>2, <3>2 DEF IsBest
    <3>4. QED
      BY <2>2, <3>1, <3>3 DEF BestOK
  <2>6. QED
    BY <2>4, <2>5
<1>5. QED
  BY <1>3, <1>4 DEF BestOK

LEMMA OldestKept ==
    ASSUME PruningAssumption, NEW in, NEW N, Lists(in, N), NEW n \in 1..N,
           NEW acc, OldestOK(in, n - 1, acc.oldest), NEW c,
           c = IF Own(in, n) /\ (acc.oldest = NoInfo \/ A(in, n) > acc.oldest.age)
               THEN Scored(in, n) ELSE acc.oldest
    PROVE  OldestOK(in, n, c)
<1>1. N \in Nat /\ n \in Nat /\ n - 1 \in Nat /\ 1..n = (1..(n - 1)) \cup {n} /\ n \in 1..n
  BY DEF Lists
<1>2. \A i \in 1..n : A(in, i) \in Nat
  BY <1>1, ScoresNat
<1>3. CASE acc.oldest = NoInfo /\ \A i \in 1..(n - 1) : ~Own(in, i)
  <2>1. CASE Own(in, n)
    <3>1. c = Scored(in, n) /\ IsOldest(in, n, n)
      BY <1>1, <1>3, <2>1 DEF IsOldest
    <3>2. QED
      BY <1>1, <3>1 DEF OldestOK
  <2>2. CASE ~Own(in, n)
    BY <1>1, <1>3, <2>2 DEF OldestOK
  <2>3. QED
    BY <2>1, <2>2
<1>4. ASSUME NEW b \in 1..(n - 1), acc.oldest = Scored(in, b), IsOldest(in, n - 1, b)
      PROVE  OldestOK(in, n, c)
  <2>1. acc.oldest # NoInfo /\ acc.oldest.age = A(in, b)
    BY <1>1, <1>4, ScoredIsInfo
  <2>2. b \in 1..n /\ b # n /\ b < n /\ b \in Nat
    BY <1>1
  <2>3. CASE Own(in, n) /\ A(in, n) > A(in, b)
    <3>1. c = Scored(in, n)
      BY <2>1, <2>3
    <3>2. ASSUME NEW i \in (1..n) \ {n}, Own(in, i) PROVE Older(in, n, i)
      <4>1. i \in 1..(n - 1) /\ i \in 1..n
        BY <1>1
      <4>2. i = b \/ Older(in, b, i)
        BY <1>4, <3>2, <4>1 DEF IsOldest
      <4>3. QED
        BY <1>1, <1>2, <2>2, <2>3, <4>1, <4>2 DEF Older
    <3>3. QED
      BY <1>1, <2>3, <3>1, <3>2 DEF OldestOK, IsOldest
  <2>4. CASE ~(Own(in, n) /\ A(in, n) > A(in, b))
    <3>1. c = Scored(in, b)
      BY <1>4, <2>1, <2>4
    <3>2. Own(in, n) => Older(in, b, n)
      BY <1>1, <1>2, <2>2, <2>4 DEF Older
    <3>3. IsOldest(in, n, b)
      BY <1>1, <1>4, <2>2, <3>2 DEF IsOldest
    <3>4. QED
      BY <2>2, <3>1, <3>3 DEF OldestOK
  <2>5. QED
    BY <2>3, <2>4
<1>5. QED
  BY <1>3, <1>4 DEF OldestOK

LEMMA RoundKeeps ==
    ASSUME PruningAssumption, NEW in, NEW N, Lists(in, N), NEW n \in 1..N,
           NEW acc, BestOK(in, n - 1, acc.best), OldestOK(in, n - 1, acc.oldest),
           NEW r, r = Round(acc, in.infos[n], in.infos, in.caller, in.forced)
    PROVE  BestOK(in, n, r.best) /\ OldestOK(in, n, r.oldest)
<1> DEFINE c == Scored(in, n)
<1>1. c = [index |-> in.infos[n].index, malus |-> Malus(InfoSet(in.infos), in.infos[n], Now),
           age |-> Age(in.infos[n], Now)]
  BY DEF Scored, M, A, Lists
<1>2. c.malus = M(in, n) /\ c.age = A(in, n)
  BY DEF Scored
<1>3. r.best = IF (IF acc.best = NoInfo THEN Strong(in, n) ELSE Better(c, acc.best))
               THEN c ELSE acc.best
  BY <1>1, <1>2 DEF Round, Strong, C
<1>4. r.oldest = IF Own(in, n) /\ (acc.oldest = NoInfo \/ A(in, n) > acc.oldest.age)
                 THEN c ELSE acc.oldest
  BY <1>1, <1>2 DEF Round, Own
<1>5. QED
  BY <1>3, <1>4, BestKept, OldestKept

LEMMA LoopInvariant ==
    ASSUME PruningAssumption, NEW in, NEW N, Lists(in, N)
    PROVE  BestOK(in, N, Rounds(in, N).best) /\ OldestOK(in, N, Rounds(in, N).oldest)
<1> DEFINE OK(n) == BestOK(in, n, Rounds(in, n).best) /\ OldestOK(in, n, Rounds(in, n).oldest)
           Bad == {n \in 0..N : ~OK(n)}
<1>1. N \in Nat /\ DOMAIN in.infos = 1..N /\ N \in 0..N
  BY DEF Lists
<1>2. /\ Rounds(in, 0) = Start
      /\ \A n \in 1..N : Rounds(in, n) =
           Round(Rounds(in, n - 1), in.infos[n], in.infos, in.caller, in.forced)
  BY <1>1, RoundByRound
<1>3. OK(0)
  BY <1>2 DEF Start, BestOK, OldestOK
<1>4. ASSUME NEW n \in 1..N, OK(n - 1) PROVE OK(n)
  BY <1>2, <1>4, RoundKeeps
<1> HIDE DEF OK
<1> SUFFICES ASSUME Bad # {} PROVE FALSE
  BY <1>1 DEF OK
<1>5. PICK m \in Bad : \A y \in Bad : m <= y
  <2>1. Bad \in SUBSET Nat
    BY <1>1
  <2> HIDE DEF Bad
  <2>2. QED
    BY <2>1, Least
<1>6. m # 0 /\ m \in 1..N
  BY <1>1, <1>3, <1>5
<1>7. m - 1 \in 0..N /\ m - 1 \notin Bad
  BY <1>1, <1>5, <1>6
<1>8. QED
  BY <1>4, <1>5, <1>6, <1>7
-----------------------------------------------------------------------------
(***************************************************************************)
(* The candidate of Pruning, by positions.                                 *)
(***************************************************************************)
LEMMA CandidatePositions ==
    ASSUME PruningAssumption, NEW in, NEW N, Lists(in, N), NEW b \in 1..N
    PROVE  IsCandidate(InfoSet(in.infos), in.infos[b], in.caller, in.forced, Now)
             <=> IF \E i \in 1..N : Strong(in, i) THEN IsBest(in, N, b) ELSE IsOldest(in, N, b)
<1> DEFINE S == InfoSet(in.infos)
           P == Prunable(S, in.caller, in.forced, Now)
<1>1. /\ \A x : x \in S <=> \E i \in 1..N : x = in.infos[i]
      /\ \A i, j \in 1..N : in.infos[i] = in.infos[j] => i = j
      /\ \A i \in 1..N : in.infos[i].index = i
  <2>1. \A i \in 1..N : in.infos[i].index = i
    BY DEF Lists
  <2>2. QED
    BY <2>1, InfoPositions
<1>2. P = {x \in S : C(in) < Malus(S, x, Now)}
  BY DEF Prunable, C
<1>3. \A i \in 1..N : in.infos[i] \in P <=> Strong(in, i)
  BY <1>1, <1>2 DEF Strong, M
<1>4. P # {} <=> \E i \in 1..N : Strong(in, i)
  <2>1. \A x \in P : \E i \in 1..N : x = in.infos[i]
    BY <1>1, <1>2
  <2> HIDE DEF P
  <2>2. QED
    BY <1>3, <2>1
<1>5. \A i \in 1..N : WeakerThan(S, in.infos[b], in.infos[i], Now) <=> Worse(in, b, i)
  BY <1>1 DEF WeakerThan, Worse, M, A
<1>6. IsWeakest(S, in.infos[b], in.caller, in.forced, Now) <=> IsBest(in, N, b)
  <2> DEFINE W(x) == WeakerThan(S, in.infos[b], x, Now)
  <2>1. IsWeakest(S, in.infos[b], in.caller, in.forced, Now)
          <=> in.infos[b] \in P /\ \A x \in P \ {in.infos[b]} : W(x)
    BY DEF IsWeakest
  <2>2. \A x \in P : \E i \in 1..N : x = in.infos[i]
    BY <1>1, <1>2
  <2>3. \A i \in 1..N : W(in.infos[i]) <=> Worse(in, b, i)
    BY <1>5
  <2> HIDE DEF W, P
  <2>4. (\A x \in P \ {in.infos[b]} : W(x))
          <=> \A i \in (1..N) \ {b} : Strong(in, i) => Worse(in, b, i)
    BY <1>1, <1>3, <2>2, <2>3
  <2>5. QED
    BY <1>3, <2>1, <2>4 DEF IsBest
<1>7. IsOldestSibling(S, in.infos[b], in.caller, Now) <=> IsOldest(in, N, b)
  <2> DEFINE O == {x \in S : x.owner = in.caller}
             E(x) == \/ A(in, b) > Age(x, Now)
                     \/ A(in, b) = Age(x, Now) /\ b < x.index
  <2>1. IsOldestSibling(S, in.infos[b], in.caller, Now)
          <=> Own(in, b) /\ \A x \in O \ {in.infos[b]} : E(x)
    BY <1>1 DEF IsOldestSibling, Own, A
  <2>2. /\ \A x \in O : \E i \in 1..N : x = in.infos[i]
        /\ \A i \in 1..N : in.infos[i] \in O <=> Own(in, i)
    BY <1>1 DEF Own
  <2>3. \A i \in 1..N : E(in.infos[i]) <=> Older(in, b, i)
    BY <1>1 DEF Older, A
  <2> HIDE DEF O, E
  <2>4. (\A x \in O \ {in.infos[b]} : E(x))
          <=> \A i \in (1..N) \ {b} : Own(in, i) => Older(in, b, i)
    BY <1>1, <2>2, <2>3
  <2>5. QED
    BY <2>1, <2>4 DEF IsOldest
<1>8. QED
  BY <1>4, <1>6, <1>7 DEF IsCandidate

LEMMA OneBest ==
    ASSUME PruningAssumption, NEW in, NEW N, Lists(in, N), NEW b, NEW d
    PROVE  /\ IsBest(in, N, b) /\ IsBest(in, N, d) => b = d
           /\ IsOldest(in, N, b) /\ IsOldest(in, N, d) => b = d
<1>1. N \in Nat /\ \A i \in 1..N : M(in, i) \in Nat /\ A(in, i) \in Nat
  BY ScoresNat DEF Lists
<1>2. ASSUME IsBest(in, N, b), IsBest(in, N, d), b # d PROVE FALSE
  <2>1. b \in 1..N /\ d \in 1..N /\ Worse(in, b, d) /\ Worse(in, d, b)
    BY <1>2 DEF IsBest
  <2>2. QED
    BY <1>1, <2>1 DEF Worse
<1>3. ASSUME IsOldest(in, N, b), IsOldest(in, N, d), b # d PROVE FALSE
  <2>1. b \in 1..N /\ d \in 1..N /\ Older(in, b, d) /\ Older(in, d, b)
    BY <1>3 DEF IsOldest
  <2>2. QED
    BY <1>1, <2>1 DEF Older
<1>4. QED
  BY <1>2, <1>3

\* What the loop returns is the candidate, and there is no other.
LEMMA LoopFindsCandidate ==
    ASSUME PruningAssumption, NEW in \in Inputs, NEW res, res = Choose(in)
    PROVE  {x \in InfoSet(in.infos) :
               IsCandidate(InfoSet(in.infos), x, in.caller, in.forced, Now)}
           = {in.infos[res[j]] : j \in 1..Len(res)}
<1>1. PICK N \in Nat : Lists(in, N)
  BY InputLists
<1> DEFINE S == InfoSet(in.infos)
           K(x) == IsCandidate(S, x, in.caller, in.forced, Now)
           acc == Rounds(in, N)
           Found == {x \in S : K(x)}
           Returned == {in.infos[res[j]] : j \in 1..Len(res)}
<1>2. res = Ends(acc)
  BY <1>1, ChooseIter DEF Rounds, Lists
<1>3. BestOK(in, N, acc.best) /\ OldestOK(in, N, acc.oldest)
  BY <1>1, LoopInvariant
<1>4. \A x : x \in S <=> \E i \in 1..N : x = in.infos[i]
  BY <1>1, InfoPositions
<1>5. \A b \in 1..N : K(in.infos[b]) <=> IF \E i \in 1..N : Strong(in, i) THEN IsBest(in, N, b)
                                         ELSE IsOldest(in, N, b)
  BY <1>1, CandidatePositions
<1> HIDE DEF K, S, acc
<1>6. ASSUME NEW b \in 1..N, res = <<b>>, \A i \in 1..N : K(in.infos[i]) <=> i = b
      PROVE  Found = Returned
  <2>1. Returned = {in.infos[b]}
    BY <1>6
  <2>2. Found = {in.infos[b]}
    BY <1>4, <1>6
  <2>3. QED
    BY <2>1, <2>2
<1> HIDE DEF Found, Returned
<1>7. ASSUME NEW b \in 1..N, acc.best = Scored(in, b), IsBest(in, N, b)
      PROVE  Found = Returned
  <2>1. acc.best # NoInfo /\ acc.best.index = b
    BY <1>7, ScoredIsInfo
  <2>2. res = <<b>>
    BY <1>2, <2>1 DEF Ends
  <2>3. \A i \in 1..N : K(in.infos[i]) <=> IsBest(in, N, i)
    BY <1>5, <1>7 DEF IsBest
  <2>4. \A i \in 1..N : K(in.infos[i]) <=> i = b
    BY <1>1, <1>7, <2>3, OneBest
  <2>5. QED
    BY <1>6, <2>2, <2>4
<1>8. ASSUME acc.best = NoInfo, \A i \in 1..N : ~Strong(in, i)
      PROVE  Found = Returned
  <2>1. \A i \in 1..N : K(in.infos[i]) <=> IsOldest(in, N, i)
    BY <1>5, <1>8
  <2>2. ASSUME NEW b \in 1..N, acc.oldest = Scored(in, b), IsOldest(in, N, b)
        PROVE  Found = Returned
    <3>1. acc.oldest # NoInfo /\ acc.oldest.index = b
      BY <2>2, ScoredIsInfo
    <3>2. res = <<b>>
      BY <1>2, <1>8, <3>1 DEF Ends
    <3>3. \A i \in 1..N : K(in.infos[i]) <=> i = b
      BY <1>1, <2>1, <2>2, OneBest
    <3>4. QED
      BY <1>6, <3>2, <3>3
  <2>3. CASE acc.oldest = NoInfo /\ \A i \in 1..N : ~Own(in, i)
    <3>1. res = <<>>
      BY <1>2, <1>8, <2>3 DEF Ends
    <3>2. Returned = {}
      BY <3>1 DEF Returned
    <3>3. Found = {}
      BY <1>4, <2>1, <2>3 DEF IsOldest, Found
    <3>4. QED
      BY <3>2, <3>3
  <2>4. QED
    BY <1>3, <2>2, <2>3 DEF OldestOK
<1>9. Found = Returned
  BY <1>3, <1>7, <1>8 DEF BestOK
<1>10. QED
  BY <1>9 DEF Found, Returned, K, S

CallInv ==
    /\ input \in Inputs /\ (called \/ result = <<>>)
    /\ called => result = Choose(input)

LEMMA CallInit == Init => CallInv
  BY DEF Init, CallInv, Inputs

LEMMA CallSteps == CallInv /\ [Prune]_vars => CallInv'
  BY DEF CallInv, Prune, vars

\* For any list of running operations, of any length, owners and times, and
\* any caller: the loop of OperationDb::prune, with its running best and its
\* running oldest sibling, returns the operation that the order-free rule
\* names, and none exactly when the rule names none.
THEOREM LoopIsTheRule == PruningAssumption => (Spec => []FoldFindsCandidate)
<1> SUFFICES ASSUME PruningAssumption PROVE Spec => []FoldFindsCandidate
  OBVIOUS
<1>1. CallInv => FoldFindsCandidate
  BY LoopFindsCandidate DEF CallInv, FoldFindsCandidate
<1>2. QED
  BY <1>1, CallInit, CallSteps, PTL DEF Spec

\* Of the operations of the one who prunes back, there is at least one's worth of
\* malus; the new operation has a malus of 1.
LEMMA NeverPrunedBack ==
    ASSUME PruningAssumption, input \in Inputs
    PROVE  NoPruningBack
<1> DEFINE S == InfoSet(input.infos)
           o == Chosen.owner
           n == [last_usage |-> Now, owner |-> input.caller, index |-> Chosen.index,
                 forced |-> input.forced]
<1> SUFFICES ASSUME o # input.caller, RunningSiblings(S, input.caller) = 0,
                    NEW i \in After, i.owner = input.caller
             PROVE  ~IsCandidate(After, i, o, FALSE, Now)
  BY DEF NoPruningBack
<1>1. After = {x \in S : x # Chosen} \cup {n}
  BY DEF After
<1>2. IsFiniteSet(S)
  BY InputLists, InfoPositions
<1>3. IsFiniteSet(After)
  <2>1. IsFiniteSet({x \in S : x # Chosen})
    BY <1>2, FS_Subset
  <2>2. QED
    BY <1>1, <2>1, FS_AddElement
<1>4. \A x \in S : x.owner # input.caller
  <2>1. {x \in S : x.owner = input.caller} = {}
    BY <1>2, SiblingsNat, FS_EmptySet DEF RunningSiblings
  <2>2. QED
    BY <2>1
<1>5. n.owner = input.caller /\ n.last_usage = Now /\ n.forced = input.forced
  OBVIOUS
<1> HIDE DEF n, S
<1>6. i = n /\ {x \in After : x.owner = input.caller} = {n}
  BY <1>1, <1>4, <1>5
<1>7. RunningSiblings(After, input.caller) = 1
  BY <1>6, FS_Singleton DEF RunningSiblings
<1>8. Age(n, Now) = 0
  BY <1>5 DEF Age, PruningAssumption
<1>9. Malus(After, n, Now) <= 1
  BY <1>5, <1>7, <1>8, NewbornMalus DEF Malus
<1> DEFINE strength == CallerMalus(After, o, FALSE)
           malus == Malus(After, n, Now)
<1>10. strength = 1 + RunningSiblings(After, o) /\ RunningSiblings(After, o) \in Nat
  BY <1>3, SiblingsNat DEF CallerMalus
<1>11. malus \in Nat
  BY <1>5, <1>7, <1>8, NewbornMalus DEF Malus
<1>12. IsWeakest(After, n, o, FALSE, Now) => strength < malus
  BY DEF IsWeakest, Prunable
<1> HIDE DEF strength, malus, o
<1>13. ~IsWeakest(After, n, o, FALSE, Now)
  <2>1. malus <= 1
    BY <1>9 DEF malus
  <2>2. ~(strength < malus)
    BY <1>10, <1>11, <2>1
  <2>3. QED
    BY <1>12, <2>2
<1>14. ~IsOldestSibling(After, n, o, Now)
  BY <1>5 DEF IsOldestSibling
<1>15. QED
  BY <1>6, <1>13, <1>14 DEF IsCandidate

\* For any list of running operations: a caller that pruned another owner's
\* operation, and runs only the one it made room for, does not lose it to that
\* owner's next prune(); the comment on prune() promises this to well behaved
\* clients.
THEOREM NoOneIsPrunedBack == PruningAssumption => (Spec => []NoPruningBack)
<1> SUFFICES ASSUME PruningAssumption PROVE Spec => []NoPruningBack
  OBVIOUS
<1>1. CallInv => NoPruningBack
  BY NeverPrunedBack DEF CallInv
<1>2. QED
  BY <1>1, CallInit, CallSteps, PTL DEF Spec
-----------------------------------------------------------------------------
(***************************************************************************)
(* KeyParameters.  Of a key that was made, what the checks of begin leave  *)
(* to the checks of key generation and import.                             *)
(***************************************************************************)
Algs == {"rsa", "ec", "mldsa", "aes", "3des", "hmac"}

KeyOK(k) ==
    /\ k.alg \in Algs
    /\ k.alg = "aes" /\ "gcm" \in k.blocks => k.min \in 96..128
    /\ k.alg = "ec" /\ k.curve = "25519" =>
         /\ k.type = "xdh" <=> "agree" \in k.purposes
         /\ "agree" \in k.purposes => "sign" \notin k.purposes /\ "attest" \notin k.purposes
    /\ k.alg = "hmac" => k.min \in Nat /\ k.digests \subseteq Rules!Digests \ {"none"}

\* A verification knows the range of its key and digest.
VerifyOK ==
    op.kind = "verify" =>
        key.alg = "hmac" /\ op.lengths = Rules!TagLengths(key, op.digest)

RuleInv ==
    /\ IF key = Rules!NoKey THEN op = Rules!NoOp ELSE KeyOK(key)
    /\ VerifyOK
    /\ BeginSound

LEMMA MadeKeyOK ==
    ASSUME Rules!ParametersAssumption, NEW r \in Requests, Rules!MakeKey(r)
    PROVE  KeyOK(key') /\ key' # Rules!NoKey
<1>1. r \in [alg : STRING, how : STRING, purposes : SUBSET STRING, blocks : SUBSET STRING,
             paddings : SUBSET STRING, digests : SUBSET Rules!Digests, mgfs : SUBSET STRING, min : Nat,
             size : Nat, actual : Nat, curve : STRING, type : STRING,
             data : [curve : STRING, type : STRING], tags : SUBSET STRING]
  BY DEF Rules!ParametersAssumption
<1>2. ASSUME NEW k, k.alg \in Algs PROVE k # Rules!NoKey
  BY <1>2 DEF Algs, Rules!NoKey
<1>3. ASSUME NEW n, NEW a \in Algs \ {"ec"}, r.alg = a, key' = [r EXCEPT !.size = n],
             a = "aes" => Rules!AesParams(r), a = "hmac" => Rules!HmacParams(r)
      PROVE  KeyOK(key')
  <2>1. key'.alg = a /\ key'.blocks = r.blocks /\ key'.min = r.min /\ key'.digests = r.digests
    BY <1>1, <1>3
  <2>2. a = "aes" /\ "gcm" \in key'.blocks => key'.min \in 96..128
    BY <1>3, <2>1 DEF Rules!AesParams
  <2>3. a = "hmac" => key'.min \in Nat /\ key'.digests \subseteq Rules!Digests \ {"none"}
    BY <1>1, <1>3, <2>1 DEF Rules!HmacParams
  <2>4. QED
    BY <1>3, <2>1, <2>2, <2>3 DEF KeyOK, Algs
<1>4. CASE r.alg = "ec" /\ Rules!EcKey(r)
  <2> DEFINE c == IF r.how = "pkcs8" THEN r.data.curve ELSE r.curve
             agrees == "agree" \in r.purposes
             type == CASE c # "25519"       -> "nist"
                       [] r.how = "pkcs8"   -> r.data.type
                       [] agrees            -> "xdh"
                       [] OTHER             -> "eddsa"
  <2>1. /\ Rules!EcParams(c, r) /\ (c = "25519" => (type = "xdh" <=> agrees))
        /\ key' = [r EXCEPT !.curve = c, !.size = Rules!CurveSize(c), !.type = type]
    BY <1>4 DEF Rules!EcKey
  <2> HIDE DEF c, type
  <2>2. key'.alg = "ec" /\ key'.curve = c /\ key'.type = type /\ key'.purposes = r.purposes
    BY <1>1, <1>4, <2>1
  <2>3. c = "25519" /\ agrees => "sign" \notin r.purposes /\ "attest" \notin r.purposes
    BY <2>1 DEF Rules!EcParams, Rules!EcPurposes
  <2>4. KeyOK(key')
    BY <2>1, <2>2, <2>3 DEF KeyOK, Algs
  <2>5. QED
    BY <1>2, <2>4 DEF KeyOK
<1>5. CASE r.alg = "mldsa" /\ key' = r
  BY <1>2, <1>5 DEF KeyOK, Algs
<1>6. CASE r.alg \in {"rsa", "aes", "3des", "hmac"}
  <2>1. PICK n : key' = [r EXCEPT !.size = n]
    BY <1>6 DEF Rules!MakeKey
  <2>2. (r.alg = "aes" => Rules!AesParams(r)) /\ (r.alg = "hmac" => Rules!HmacParams(r))
    BY DEF Rules!MakeKey
  <2>3. KeyOK(key')
    BY <1>3, <1>6, <2>1, <2>2 DEF Algs
  <2>4. QED
    BY <1>2, <2>3 DEF KeyOK
<1>7. QED
  BY <1>4, <1>5, <1>6 DEF Rules!MakeKey

\* What the checks let through, the builder of the block modes accepts.
LEMMA BlockModeBuilds ==
    ASSUME Rules!ParametersAssumption, KeyOK(key), NEW p \in Params, NEW purpose,
           Rules!CheckBeginParams(key, purpose, p), key.alg \in {"aes", "3des"},
           NEW size, size = IF key.alg = "aes" THEN 16 ELSE 8,
           Rules!BlockMode(size, p) = Rules!Refused
    PROVE  key.alg = "3des" /\ ~(key.paddings \subseteq {"none", "pkcs7"})
<1>1. p.mac \in Nat /\ p.nonce \in Nat
  BY DEF Rules!ParametersAssumption
<1>2. ~(/\ p.block = "ecb" => p.nonce = 0
        /\ p.padding \in (IF p.block \in {"gcm", "ctr"} THEN {"none"} ELSE {"none", "pkcs7"})
        /\ p.nonce \in {0, IF p.block = "gcm" THEN 12 ELSE size}
        /\ p.block = "gcm" => p.mac % 8 = 0 /\ p.mac \div 8 \in 12..16)
  <2> DEFINE m == [kind |-> "block", block |-> p.block, padding |-> p.padding,
                   mac |-> IF p.block = "gcm" THEN p.mac ELSE 0]
  <2>1. m # Rules!Refused
    BY DEF Rules!Refused
  <2>2. QED
    BY <2>1 DEF Rules!BlockMode
<1>3. /\ p.block # "none" => p.block \in key.blocks
      /\ p.padding # "absent" => p.padding \in key.paddings
  BY DEF Rules!CheckBeginParams, Rules!InCharacteristics
<1>4. ASSUME key.alg = "aes" PROVE FALSE
  <2>1. Rules!BeginAes(key, p) /\ size = 16
    BY <1>4 DEF Rules!CheckBeginParams
  <2>2. /\ p.block \in {"ecb", "cbc", "ctr", "gcm"}
        /\ p.padding \in (IF p.block \in {"gcm", "ctr"} THEN {"none"} ELSE {"none", "pkcs7"})
        /\ p.nonce # 0 => p.nonce = (CASE p.block \in {"cbc", "ctr"} -> 16
                                       [] p.block = "gcm" -> 12 [] OTHER -> 0)
    BY <2>1 DEF Rules!BeginAes
  <2>3. p.block = "gcm" => p.mac % 8 = 0 /\ p.mac <= 128 /\ p.mac >= key.min
    BY <2>1 DEF Rules!BeginAes
  <2>4. p.block = "gcm" => key.min \in 96..128
    BY <1>3, <1>4 DEF KeyOK
  <2>5. p.block = "gcm" => p.mac % 8 = 0 /\ p.mac \div 8 \in 12..16
    <3>1. p.block = "gcm" => p.mac % 8 = 0 /\ p.mac \in 96..128
      BY <1>1, <2>3, <2>4
    <3>2. ASSUME NEW x \in 96..128 PROVE x \div 8 \in 12..16
      OBVIOUS
    <3>3. QED
      BY <3>1, <3>2
  <2>6. p.nonce \in {0, IF p.block = "gcm" THEN 12 ELSE 16} /\ (p.block = "ecb" => p.nonce = 0)
    BY <2>2
  <2>7. QED
    BY <1>2, <2>1, <2>2, <2>5, <2>6
<1>5. ASSUME key.alg = "3des", key.paddings \subseteq {"none", "pkcs7"} PROVE FALSE
  <2>1. Rules!Begin3Des(p) /\ size = 8
    BY <1>5 DEF Rules!CheckBeginParams
  <2>2. /\ p.padding # "absent" /\ p.block \in {"cbc", "ecb"}
        /\ p.nonce # 0 => p.block = "cbc" /\ p.nonce = 8
    BY <2>1 DEF Rules!Begin3Des
  <2>3. p.padding \in {"none", "pkcs7"}
    BY <1>3, <1>5, <2>2
  <2>4. QED
    BY <1>2, <2>1, <2>2, <2>3
<1>6. QED
  BY <1>4, <1>5

\* The other builders are exhaustive, but for attestation.
LEMMA ModeBuilds ==
    ASSUME Rules!ParametersAssumption, KeyOK(key), NEW p \in Params, NEW purpose,
           Rules!CheckBeginParams(key, purpose, p),
           Rules!Mode(key, purpose, p) = Rules!Refused
    PROVE  \/ "attest" \in key.purposes
           \/ key.alg = "3des" /\ ~(key.paddings \subseteq {"none", "pkcs7"})
<1>1. purpose \in Rules!Purposes(key.alg) /\ purpose \in key.purposes /\ key.alg \in Algs
  BY DEF Rules!CheckBeginParams, KeyOK
<1>2. CASE key.alg = "aes"
  BY <1>2, BlockModeBuilds DEF Rules!Mode
<1>3. CASE key.alg = "3des"
  BY <1>3, BlockModeBuilds DEF Rules!Mode
<1>4. CASE key.alg = "hmac"
  <2>1. purpose \in {"sign", "verify"}
    BY <1>1, <1>4 DEF Rules!Purposes
  <2>2. p.digest \in Rules!Digests \ {"none"}
    <3>1. Rules!BeginHmac(key, purpose, p)
      BY <1>4 DEF Rules!CheckBeginParams
    <3>2. p.digest # "absent" /\ (p.digest # "absent" => p.digest \in key.digests)
      BY <1>4, <3>1 DEF Rules!BeginHmac, Rules!CheckBeginParams, Rules!InCharacteristics
    <3>3. QED
      BY <1>4, <3>2 DEF KeyOK
  <2>3. Rules!DigestLen(p.digest) # 0
    BY <2>2 DEF Rules!Digests, Rules!DigestLen
  <2>4. QED
    BY <1>4, <2>1, <2>3 DEF Rules!Mode, Rules!Refused
<1>5. CASE key.alg = "ec" /\ purpose # "attest"
  BY <1>5 DEF Rules!Mode, Rules!Refused
<1>6. CASE key.alg = "mldsa" /\ purpose = "sign"
  BY <1>6 DEF Rules!Mode, Rules!Refused
<1>7. ASSUME key.alg = "rsa", purpose # "attest" PROVE FALSE
  <2>1. Rules!RsaMode(purpose, p) = Rules!Refused
    BY <1>7 DEF Rules!Mode
  <2>2. purpose \in {"sign", "decrypt"}
    BY <1>1, <1>7 DEF Rules!Purposes
  <2>3. Rules!BeginRsa(key, purpose, p)
    BY <1>7 DEF Rules!CheckBeginParams
  <2>4. CASE purpose = "sign"
    <3>1. p.padding \in {"none", "pss", "pkcs1_sign"}
      BY <2>3, <2>4 DEF Rules!BeginRsa
    <3>2. QED
      BY <2>1, <2>4, <3>1 DEF Rules!RsaMode, Rules!Refused
  <2>5. CASE purpose = "decrypt"
    <3>1. p.padding \in {"none", "oaep", "pkcs1_encrypt"}
      BY <2>3, <2>5 DEF Rules!BeginRsa
    <3>2. QED
      BY <2>1, <2>5, <3>1 DEF Rules!RsaMode, Rules!Refused
  <2>6. QED
    BY <2>2, <2>4, <2>5
<1>8. CASE purpose = "attest"
  BY <1>1, <1>8
<1>9. key.alg = "mldsa" => purpose \in {"sign", "attest"}
  BY <1>1 DEF Rules!Purposes
<1>10. QED
  BY <1>1, <1>2, <1>3, <1>4, <1>5, <1>6, <1>7, <1>8, <1>9 DEF Algs

\* What begin leaves behind is the start of an operation, and a verification
\* only of an HMAC key.
LEMMA ModeStarts ==
    ASSUME KeyOK(key), NEW p, NEW purpose, Rules!CheckBeginParams(key, purpose, p),
           NEW m, m = Rules!Mode(key, purpose, p)
    PROVE  /\ m.kind # "badlength"
           /\ m.kind = "verify" =>
                key.alg = "hmac" /\ m.lengths = Rules!TagLengths(key, m.digest)
<1>1. purpose \in Rules!Purposes(key.alg) /\ key.alg \in Algs
  BY DEF Rules!CheckBeginParams, KeyOK
<1>2. CASE key.alg \in {"aes", "3des"}
  BY <1>2 DEF Rules!Mode, Rules!BlockMode, Rules!Refused
<1>3. CASE key.alg = "hmac"
  BY <1>3 DEF Rules!Mode, Rules!Refused
<1>4. CASE key.alg = "rsa"
  BY <1>4 DEF Rules!Mode, Rules!RsaMode, Rules!Refused
<1>5. CASE key.alg \in {"ec", "mldsa"}
  BY <1>5 DEF Rules!Mode, Rules!Refused
<1>6. QED
  BY <1>1, <1>2, <1>3, <1>4, <1>5 DEF Algs

\* The tags that a key makes have lengths in the range of its verifications.
LEMMA TagInRange ==
    ASSUME Rules!ParametersAssumption, KeyOK(key), key.alg = "hmac", NEW p \in Params,
           Rules!CheckBeginParams(key, "sign", p)
    PROVE  p.mac \div 8 \in (key.min \div 8)..(Rules!DigestLen(p.digest) - 1)
<1>1. p.mac \in Nat /\ key.min \in Nat
  BY DEF Rules!ParametersAssumption, KeyOK
<1>2. Rules!DigestLen(p.digest) \in Nat
  BY DEF Rules!DigestLen
<1>3. Rules!BeginHmac(key, "sign", p)
  BY DEF Rules!CheckBeginParams
<1>4. p.mac # 0 /\ p.mac <= Rules!DigestLen(p.digest) /\ p.mac >= key.min
  BY <1>3 DEF Rules!BeginHmac
<1>5. ASSUME NEW mac \in Nat, NEW min \in Nat, NEW len \in Nat, mac # 0, mac <= len, mac >= min
      PROVE  mac \div 8 \in (min \div 8)..(len - 1)
  BY <1>5
<1>6. QED
  BY <1>1, <1>2, <1>4, <1>5

LEMMA ModeFitsCurve ==
    ASSUME KeyOK(key), NEW p, NEW purpose, Rules!CheckBeginParams(key, purpose, p),
           NEW m, m = Rules!Mode(key, purpose, p), m.kind = "ec", key.curve = "25519"
    PROVE  m.type = "xdh" <=> m.purpose = "agree"
<1>1. purpose \in Rules!Purposes(key.alg) /\ purpose \in key.purposes /\ key.alg \in Algs
  BY DEF Rules!CheckBeginParams, KeyOK
<1>2. CASE key.alg = "ec" /\ purpose # "attest"
  <2>1. m.type = key.type /\ m.purpose = purpose
    BY <1>2 DEF Rules!Mode
  <2>2. purpose \in {"sign", "agree"}
    BY <1>1, <1>2 DEF Rules!Purposes
  <2>3. QED
    BY <1>1, <1>2, <2>1, <2>2 DEF KeyOK
<1>3. CASE key.alg \in {"aes", "3des"}
  BY <1>3 DEF Rules!Mode, Rules!BlockMode, Rules!Refused
<1>4. CASE key.alg = "hmac"
  BY <1>4 DEF Rules!Mode, Rules!Refused
<1>5. CASE key.alg = "rsa"
  BY <1>5 DEF Rules!Mode, Rules!RsaMode, Rules!Refused
<1>6. CASE key.alg = "mldsa"
  BY <1>6 DEF Rules!Mode, Rules!Refused
<1>7. CASE key.alg = "ec" /\ purpose = "attest"
  BY <1>7 DEF Rules!Mode, Rules!Refused
<1>8. QED
  BY <1>1, <1>2, <1>3, <1>4, <1>5, <1>6, <1>7 DEF Algs

LEMMA RuleSteps ==
    ASSUME Rules!ParametersAssumption, RuleInv, [Rules!Next]_(Rules!vars)
    PROVE  RuleInv'
<1>1. ASSUME NEW r \in Requests, key = Rules!NoKey, Rules!MakeKey(r) PROVE RuleInv'
  <2>1. KeyOK(key') /\ key' # Rules!NoKey
    BY <1>1, MadeKeyOK
  <2>2. op' = Rules!NoOp
    BY <1>1 DEF RuleInv, Rules!MakeKey
  <2>3. BeginSound' /\ VerifyOK'
    BY <2>2 DEF BeginSound, Rules!BeginSound, Rules!AcceptedBuilds, Rules!CurveFitsPurpose,
       Rules!TagsVerify, VerifyOK, Rules!NoOp, Rules!Refused
  <2>4. QED
    BY <2>1, <2>3 DEF RuleInv, KeyOK
<1>2. ASSUME NEW purpose, NEW p \in Params, Rules!Begin(purpose, p) PROVE RuleInv'
  <2>1. /\ key # Rules!NoKey /\ key' = key /\ KeyOK(key)
        /\ Rules!CheckBeginParams(key, purpose, p) /\ op' = Rules!Mode(key, purpose, p)
    BY <1>2 DEF Rules!Begin, RuleInv
  <2>2. op' = Rules!Refused => \/ "attest" \in key.purposes
                               \/ key.alg = "3des" /\ ~(key.paddings \subseteq {"none", "pkcs7"})
    BY <2>1, ModeBuilds
  <2>3. op'.kind = "ec" /\ key.curve = "25519" => (op'.type = "xdh" <=> op'.purpose = "agree")
    BY <2>1, ModeFitsCurve
  <2>4. /\ op'.kind # "badlength"
        /\ op'.kind = "verify" =>
             key.alg = "hmac" /\ op'.lengths = Rules!TagLengths(key, op'.digest)
    BY <2>1, ModeStarts
  <2>5. BeginSound'
    BY <2>1, <2>2, <2>3, <2>4 DEF BeginSound, Rules!BeginSound, Rules!AcceptedBuilds,
       Rules!CurveFitsPurpose, Rules!TagsVerify
  <2>6. VerifyOK'
    BY <2>1, <2>4 DEF VerifyOK, Rules!TagLengths
  <2>7. QED
    BY <2>1, <2>5, <2>6 DEF RuleInv, KeyOK
<1>3. ASSUME NEW len \in SigLens, Rules!FinishVerify(len) PROVE RuleInv'
  <2>1. /\ op.kind = "verify" /\ key' = key /\ op'.digest = op.digest /\ op'.len = len
        /\ op'.kind = "badlength" => len \notin op.lengths.from..(op.lengths.to - 1)
        /\ op'.kind \in {"badlength", "outofrange", "compared"}
    BY <1>3 DEF Rules!FinishVerify
  <2>2. key # Rules!NoKey /\ KeyOK(key)
    BY <2>1 DEF RuleInv, Rules!NoOp
  <2>3. key.alg = "hmac" /\ op.lengths = Rules!TagLengths(key, op.digest)
    BY <2>1 DEF RuleInv, VerifyOK
  <2>4. ASSUME NEW p \in Params, Rules!CheckBeginParams(key, "sign", p), p.digest = op.digest,
               op'.kind = "badlength"
        PROVE  p.mac \div 8 # len
    BY <2>1, <2>2, <2>3, <2>4, TagInRange DEF Rules!TagLengths
  <2>5. Rules!TagsVerify'
    BY <2>1, <2>4 DEF Rules!TagsVerify
  <2>6. Rules!AcceptedBuilds' /\ Rules!CurveFitsPurpose' /\ VerifyOK'
    BY <2>1 DEF Rules!AcceptedBuilds, Rules!CurveFitsPurpose, VerifyOK, Rules!Refused
  <2>7. QED
    BY <2>1, <2>2, <2>5, <2>6 DEF RuleInv, KeyOK, BeginSound, Rules!BeginSound
<1>4. CASE UNCHANGED Rules!vars
  BY <1>4 DEF Rules!vars, RuleInv, KeyOK, BeginSound, Rules!BeginSound, Rules!AcceptedBuilds,
     Rules!CurveFitsPurpose, Rules!TagsVerify, VerifyOK, Rules!TagLengths
<1>5. QED
  BY <1>1, <1>2, <1>3, <1>4 DEF Rules!Next

\* For any key requests and parameters of begin, on a device of either level:
\* what check_begin_params accepts on a key that the checks of generation and
\* import let be made, the mode builders accept, but for attestation keys and
\* the paddings of 3DES; an EdDSA key signs, an XDH key agrees; and no tag that
\* an HMAC key can make has a length that its own verification refuses, whatever
\* the digest and the minimum.  The converse, that a verification takes no
\* length it cannot compare, is false of the code and no part of BeginSound.
THEOREM BegunCanWork ==
    Rules!ParametersAssumption => (Rules!Spec => []BeginSound)
<1> SUFFICES ASSUME Rules!ParametersAssumption PROVE Rules!Spec => []BeginSound
  OBVIOUS
<1>1. Rules!Init => RuleInv
  BY DEF Rules!Init, RuleInv, BeginSound, Rules!BeginSound, Rules!AcceptedBuilds,
     Rules!CurveFitsPurpose, Rules!TagsVerify, VerifyOK, Rules!NoOp, Rules!Refused
<1>2. RuleInv /\ [Rules!Next]_(Rules!vars) => RuleInv'
  BY RuleSteps
<1>3. RuleInv => BeginSound
  BY DEF RuleInv
<1>4. QED
  BY <1>1, <1>2, <1>3, PTL DEF Rules!Spec
=============================================================================
