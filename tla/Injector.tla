------------------------------ MODULE Injector -------------------------------
(***************************************************************************)
(* The parts of the injector: the registry of Binder connections, the      *)
(* calls and replies of a thread, and the operations that it makes up.     *)
(* They have no state in common here; every behaviour is one of one of     *)
(* them, the others stay in their initial state.                           *)
(***************************************************************************)
EXTENDS BinderFds

CONSTANTS
    Requests, Kind, MaxCalls,  \* of PendingReplies
    Gens, Targets, Limit       \* of SyntheticOperations

VARIABLES
    which,  \* the component of this behaviour
    frames, prepared, outbound, completions, sync, shadows, host, wait, out, kstack, todo, held,
    seen, given, built, calls, broken,
    target, synthetic, binders, pubs, probe, reply, node, client, dead, finalized, disarmed, closed

Reply == INSTANCE PendingReplies

Objects == INSTANCE SyntheticOperations

replyVars == <<frames, prepared, outbound, completions, sync, shadows, host, wait, out, kstack,
               todo, held, seen, given, built, calls, broken>>
objectVars == <<target, synthetic, binders, pubs, probe, reply, node, client, dead, finalized,
                disarmed, closed>>
allVars == <<which, vars, replyVars, objectVars>>

AllInit ==
    /\ which \in {"operations", "replies", "fds"}
    /\ Init /\ Reply!Init /\ Objects!Init

StepOf(c) == which = c /\ which' = which

AllNext ==
    \/ StepOf("fds") /\ Next /\ UNCHANGED <<replyVars, objectVars>>
    \/ StepOf("replies") /\ Reply!Next /\ UNCHANGED <<vars, objectVars>>
    \/ StepOf("operations") /\ Objects!Next /\ UNCHANGED <<vars, replyVars>>

\* The behaviours of the operations are fair; the others owe nothing.
AllSpec == AllInit /\ [][AllNext]_allVars /\ Objects!Fairness
-----------------------------------------------------------------------------
\* PendingReplies: every client gets its own reply, made once.
RepliesMatch == Reply!RepliesMatch

\* PendingReplies: results are charged to what they are the results of.
BooksBalance == Reply!BooksBalance

\* SyntheticOperations: what a client can use is there, and is its own.
ObjectsReachable == Objects!ObjectsReachable

\* SyntheticOperations: what no client has is finalized and removed.
CleanedUp == Objects!CleanedUp
=============================================================================
