------------------------ MODULE MCKeystoreOperations ------------------------
(***************************************************************************)
(* Small instances of KeystoreOperations.                                  *)
(***************************************************************************)
EXTENDS KeystoreOperations

CONSTANTS a, b, c, i, alice, bob, k, r

\* Three operations of two owners and a wrapped import compete for one slot of
\* the TA; two of the operations and the import race for the two uses of k.
OpOwner  == [o \in {a, b, c, i} |-> IF o = b THEN bob ELSE alice]
OpKey    == [o \in {a, b, c, i} |-> IF o = c THEN r ELSE k]
KeyLimit == [x \in {k, r} |-> IF x = k THEN 2 ELSE 1]

\* The operations come with their own blobs.
SlotOwner == [o \in {a, b, c} |-> IF o = b THEN bob ELSE alice]
NoGuard   == [o \in {a, b, c} |-> NoKey]
NoLimit   == [x \in {} |-> 1]
=============================================================================
