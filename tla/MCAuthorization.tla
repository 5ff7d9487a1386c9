-------------------------- MODULE MCAuthorization ---------------------------
(***************************************************************************)
(* A small instance of what authorizes the use of a key: a caller that two *)
(* packages share, two threads that call and two SoterServer processes, so *)
(* that calls follow a lost answer; two operations, a token for one of     *)
(* them and one for neither; one user with two passwords and a biometric.  *)
(***************************************************************************)
EXTENDS Authorization

MCTargetsOf == [u \in Uids |-> Targets]

\* A key bound to a password for each operation and one to a recent password
\* or fingerprint.
KeyParams(sids, types, timeout, expires) ==
    [alg |-> "aes", active |-> -1, originationExpires |-> expires, usageExpires |-> -1,
     purposes |-> {"encrypt"}, noAuth |-> FALSE, sids |-> sids, types |-> types,
     timeout |-> timeout, callerNonce |-> FALSE, unlockedDevice |-> FALSE, maxBootLevel |-> FALSE]
MCParams ==
    [k1 |-> KeyParams({"s1"}, {"password"}, -1, 2),
     k2 |-> KeyParams({"s1", "s2"}, {"password", "fingerprint"}, 1, -1)]

Token(auth, type, challenge) == [user |-> "s1", auth |-> auth, type |-> type, challenge |-> challenge]
MCTokens == {Token("s2", "fingerprint", "none"), Token("none", "password", "o1")}

\* A key that needs an unlocked device and one bound to the user's secret.
KeyTraits(unlockedDevice, sid) ==
    [flag |-> FALSE, bootLevel |-> FALSE, unlockedDevice |-> unlockedDevice, sid |-> sid, app |-> TRUE]
MCTraits == [k1 |-> KeyTraits(TRUE, FALSE), k2 |-> KeyTraits(FALSE, TRUE)]
MCOwner == [k \in Keys |-> 0]

\* What the proofs assume of the constants.
ASSUME SoterAssumption /\ Auth!TokensAssumption /\ Super!SuperAssumption
=============================================================================
