----------------------------- MODULE MCInjector ------------------------------
(***************************************************************************)
(* A small instance of the parts of the injector.                          *)
(***************************************************************************)
EXTENDS Injector

\* One request of each kind, all of which can be nested.
MCKind == <<"omk", "mirror", "pass">>

\* What the proofs assume of the constants.
ASSUME BinderAssumption /\ Objects!ObjectsAssumption /\ Reply!RepliesAssumption
=============================================================================
