----------------------------- MODULE Algorithms -----------------------------
(***************************************************************************)
(* What one call computes: the candidate that pruning chooses, and the     *)
(* checks of a key's parameters and of an operation's.  They have no state *)
(* in common; every behaviour is one of one of them, the other stays in    *)
(* its initial state.                                                      *)
(***************************************************************************)
EXTENDS PruningFold

CONSTANTS
    Level, Requests, Params, SigLens  \* of KeyParameters

VARIABLES
    which,  \* the component of this behaviour
    key, op

Rules == INSTANCE KeyParameters

ruleVars == <<key, op>>
allVars  == <<which, vars, ruleVars>>

AllInit ==
    /\ which \in {"prune", "params"}
    /\ Init /\ Rules!Init
    /\ which = "params" =>
         input = [infos |-> <<>>, caller |-> CHOOSE o \in Owners : TRUE, forced |-> FALSE]

StepOf(c) == which = c /\ which' = which

AllNext ==
    \/ StepOf("prune") /\ Prune /\ UNCHANGED ruleVars
    \/ StepOf("params") /\ Rules!Next /\ UNCHANGED vars

AllSpec == AllInit /\ [][AllNext]_allVars
-----------------------------------------------------------------------------
\* KeyParameters: what begin accepts can be built, for the right half of the
\* key, and signs what it verifies.
BeginSound == Rules!BeginSound

\* KeyParameters: a length that a verification accepts is one it can compare.
VerifyInRange == Rules!VerifyInRange
=============================================================================
