----------------------------- MODULE MCKeyMint ------------------------------
(***************************************************************************)
(* Small instances of the state behind the KeyMint instances.              *)
(***************************************************************************)
EXTENDS KeyMint, TLC

\* Two builds, a hand edit of the date, one of the boot level alone and one
\* to "latest" that also changes a field that waits for a restart.
MCBuilds ==
    <<[system |-> 31, vendor |-> 25, boot |-> 21], [system |-> 45, vendor |-> 45, boot |-> 41]>>

AllFields(v) == [sec |-> v, os |-> v, vendor |-> v, boot |-> v, rest |-> 0]
MCEdits ==
    {AllFields(0), [AllFields(0) EXCEPT !.sec = 35], [AllFields(0) EXCEPT !.boot = 25],
     [AllFields(1) EXCEPT !.os = 0, !.rest = 1]}

\* A key bound to an operation's own token and to presence, a single-use key
\* that unwraps others, and an early-boot key with one use per boot.
Chars(auth, uses_, single, presence_, early_, confirm, wrapping) ==
    [auth |-> auth, uses |-> uses_, single |-> single, presence |-> presence_, early |-> early_,
     confirm |-> confirm, wrapping |-> wrapping]
MCKeyChars ==
       ("k1" :> Chars("op", 0, FALSE, TRUE, FALSE, FALSE, FALSE))
    @@ ("k2" :> Chars("none", 0, TRUE, FALSE, FALSE, TRUE, TRUE))
    @@ ("k3" :> Chars("timeout", 1, FALSE, FALSE, TRUE, FALSE, FALSE))

\* What the proofs assume of the constants.
ASSUME SddAssumption /\ Patch!PatchAssumption
=============================================================================
