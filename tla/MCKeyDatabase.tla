--------------------------- MODULE MCKeyDatabase ----------------------------
(***************************************************************************)
(* Small instances of KeyDatabase.                                         *)
(***************************************************************************)
EXTENDS KeyDatabase, TLC

CONSTANTS k1, k2, x, y, t1, t2

\* Every alias in a namespace of its own.
OwnSpace == [a \in Aliases |-> a]

\* Threads are interchangeable, and so are keys of one kind.
AnyThread == Permutations(Threads)
=============================================================================
