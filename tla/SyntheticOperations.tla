------------------------ MODULE SyntheticOperations -------------------------
(***************************************************************************)
(* The operations the injector publishes in the host process               *)
(* (src/injector/src/hook/rewrite/synthetic.rs and synthetic/publication.rs *)
(* with their callers in src/injector/src/hook/intercept and binder).      *)
(*                                                                         *)
(* createOperation is answered with a native Binder object that stands for *)
(* an operation of the daemon. The object must live until the kernel has a *)
(* strong reference to it, also when the reply fails, the client dies      *)
(* early or the connection is closed; then it must go, and the daemon's    *)
(* operation with it. Maps are keyed by the address of the object, which   *)
(* the next object may get again: a generation tells them apart.           *)
(*                                                                         *)
(* An operation is named by its generation. The kernel and libbinder are   *)
(* modelled from how the code uses them; time is left out, every probe may *)
(* be due at any time.                                                     *)
(***************************************************************************)
EXTENDS Integers, FiniteSets

CONSTANTS
    Gens,     \* generations
    Targets,  \* addresses
    Limit     \* MAX_PENDING_OPERATION_PUBLICATIONS

None  == 0
NoPub == [gen |-> None]

\* No generation and no address is the value that stands for none: the code
\* counts generations from 1, and no object is at address 0.
ObjectsAssumption == None \notin Gens /\ None \notin Targets

VARIABLES
    target,     \* per generation: its address, None before it is registered
    synthetic,  \* SYNTHETIC_TARGETS: the generation at an address
    binders,    \* NATIVE_BINDERS: the owner of the initial strong reference
    pubs,       \* OPERATION_PUBLICATIONS
    probe,      \* per generation: "no", "queued", "taken", "absent", "present", "error"
    reply,      \* per generation: where its createOperation reply is
    node,       \* per generation: the kernel's node
    client,     \* per generation: does the client have a reference?
    dead,       \* generations whose native object was destroyed
    finalized,  \* operations of the daemon that were ended
    disarmed,   \* objects that no longer retire their operation
    closed      \* the connection was closed

vars == <<target, synthetic, binders, pubs, probe, reply, node, client, dead,
          finalized, disarmed, closed>>

Init ==
    /\ target = [g \in Gens |-> None]
    /\ synthetic = [t \in Targets |-> None]
    /\ binders = [t \in Targets |-> None]
    /\ pubs = [t \in Targets |-> NoPub]
    /\ probe = [g \in Gens |-> "no"]
    /\ reply = [g \in Gens |-> "none"]
    /\ node = [g \in Gens |-> "none"]
    /\ client = [g \in Gens |-> FALSE]
    /\ dead = {} /\ finalized = {} /\ disarmed = {} /\ closed = FALSE

Born(g)  == target[g] # None
IsPub(g) == Born(g) /\ pubs[target[g]].gen = g
InUse(t) == \E g \in Gens : target[g] = t /\ g \notin dead
To(f, g, v) == [f EXCEPT ![g] = v]
-----------------------------------------------------------------------------
(***************************************************************************)
(* Ends of an operation.                                                   *)
(***************************************************************************)
\* The probes of gs leave the queue; one that was taken from it stays in hand.
Unqueued(gs) == [g \in Gens |-> IF g \in gs /\ probe[g] = "queued" THEN "no" ELSE probe[g]]

\* The changes of drop_synthetic_operation_retirement, for a set of
\* generations: maps and publication go, the daemon's operation is aborted,
\* the initial strong reference is given back.
Drop(gs) ==
    LET hit == {g \in gs : Born(g) /\ g \in {binders[target[g]], synthetic[target[g]]}}
        at  == {target[g] : g \in hit}
    IN  /\ synthetic' = [t \in Targets |-> IF t \in at THEN None ELSE synthetic[t]]
        /\ binders' = [t \in Targets |-> IF t \in at THEN None ELSE binders[t]]
        /\ pubs' = [t \in Targets |-> IF pubs[t].gen \in gs THEN NoPub ELSE pubs[t]]
        /\ disarmed' = disarmed \cup hit
        /\ finalized' = finalized \cup hit

\* retire_synthetic_operation_retirement: the daemon's operation ends; the
\* object stays, as a tombstone, until its publication is resolved.
Retire(g) ==
    IF synthetic[target[g]] = g
    THEN /\ synthetic' = To(synthetic, target[g], None)
         /\ finalized' = finalized \cup {g}
    ELSE UNCHANGED <<synthetic, finalized>>

\* The last strong reference is gone: native_binder_on_destroy retires the
\* operation unless it was disarmed, and drops the daemon's operation.
Destroy(g) ==
    /\ Born(g) /\ g \notin dead
    /\ binders[target[g]] # g /\ node[g] \in {"none", "gone"} /\ reply[g] # "built"
    /\ dead' = dead \cup {g} /\ finalized' = finalized \cup {g}
    /\ IF g \notin disarmed /\ synthetic[target[g]] = g
       THEN /\ synthetic' = To(synthetic, target[g], None)
            /\ pubs' = IF IsPub(g) THEN To(pubs, target[g], NoPub) ELSE pubs
            /\ probe' = Unqueued({g})
       ELSE UNCHANGED <<synthetic, pubs, probe>>
    /\ UNCHANGED <<target, binders, reply, node, client, disarmed, closed>>
-----------------------------------------------------------------------------
(***************************************************************************)
(* The reply of createOperation.                                           *)
(***************************************************************************)
PubsFull == Cardinality({s \in Targets : pubs[s] # NoPub}) >= Limit

\* register_synthetic_operation_carrier: an object at an address that no
\* living object has; at the limit the operation is aborted, and also when the
\* maps still have the address, which takes its publication out again.
Register(g, t) ==
    /\ ~Born(g) /\ \A h \in Gens : h < g => Born(h)
    /\ ~InUse(t) /\ ~closed
    /\ target' = To(target, g, t)
    /\ \/ /\ ~PubsFull /\ synthetic[t] = None /\ binders[t] = None
          /\ pubs' = To(pubs, t, [gen |-> g, pending |-> FALSE, owned |-> FALSE,
                                  conn |-> FALSE, binder |-> FALSE])
          /\ synthetic' = To(synthetic, t, g)
          /\ binders' = To(binders, t, g)
          /\ reply' = To(reply, g, "built")
          /\ UNCHANGED <<dead, finalized>>
       \/ /\ PubsFull \/ synthetic[t] # None \/ binders[t] # None
          /\ reply' = To(reply, g, "refused")
          /\ dead' = dead \cup {g} /\ finalized' = finalized \cup {g}
          /\ pubs' = IF PubsFull THEN pubs ELSE To(pubs, t, NoPub)
          /\ UNCHANGED <<synthetic, binders>>
    /\ UNCHANGED <<probe, node, client, disarmed, closed>>

\* install_outbound_reply: bind_operation_publication_connection.
Install(g) ==
    /\ reply[g] = "built" /\ ~closed
    /\ reply' = To(reply, g, "installed")
    /\ pubs' = IF IsPub(g) THEN [pubs EXCEPT ![target[g]].conn = TRUE] ELSE pubs
    /\ UNCHANGED <<target, synthetic, binders, probe, node, client, dead, finalized, disarmed, closed>>

\* An OwnedReply that was never sent is dropped: the parcel could not be
\* built, the ioctl failed, the connection was closed.
Unsent(g) ==
    /\ reply[g] \in {"built", "installed"}
    /\ reply' = To(reply, g, "dropped")
    /\ Drop({g}) /\ probe' = Unqueued({g})
    /\ UNCHANGED <<target, node, client, dead, closed>>

\* finish_local_operation_publication: libbinder's own parcel has a strong
\* reference and takes care of the kernel's.
FinishLocal(g) ==
    /\ reply[g] = "built" /\ ~closed
    /\ reply' = To(reply, g, "done")
    /\ node' = To(node, g, "held") /\ client' = To(client, g, TRUE)
    /\ IF IsPub(g)
       THEN /\ pubs' = To(pubs, target[g], NoPub)
            /\ binders' = IF binders[target[g]] = g THEN To(binders, target[g], None) ELSE binders
       ELSE UNCHANGED <<pubs, binders>>
    /\ UNCHANGED <<target, synthetic, probe, dead, finalized, disarmed, closed>>

\* The driver consumes BC_REPLY, and delivers the reply or not.
KernelReply(g) ==
    /\ reply[g] = "installed" /\ ~closed
    /\ \/ /\ reply' = To(reply, g, "sent") /\ node' = To(node, g, "queued")
          /\ client' = To(client, g, TRUE)
       \/ reply' = To(reply, g, "lost") /\ UNCHANGED <<node, client>>
    /\ UNCHANGED <<target, synthetic, binders, pubs, probe, dead, finalized, disarmed, closed>>
-----------------------------------------------------------------------------
(***************************************************************************)
(* Publications.                                                           *)
(***************************************************************************)
\* Mutant of Finished: the kernel's reference is not waited for.
MutFinished(p) == p.binder

\* finish_operation_publication: the kernel has its reference and the reply
\* is known to have been consumed.
Finished(p) == p.owned /\ p.binder

\* Store p, and when it is finished remove it and release the initial strong
\* reference (release_native_operation_initial_strong).
Update(g, p) ==
    LET t == target[g]
    IN  IF Finished(p)
        THEN /\ pubs' = To(pubs, t, NoPub)
             /\ binders' = IF binders[t] = g THEN To(binders, t, None) ELSE binders
        ELSE /\ pubs' = To(pubs, t, p)
             /\ UNCHANGED binders

\* mark_operation_publication_completed, once the ioctl has returned.
MarkCompleted(g) ==
    /\ reply[g] \in {"sent", "lost"}
    /\ reply' = To(reply, g, IF reply[g] = "sent" THEN "completed" ELSE "failed")
    /\ IF IsPub(g)
       THEN LET p == [pubs[target[g]] EXCEPT !.conn = TRUE, !.binder = TRUE]
            IN  /\ Update(g, p)
                /\ probe' = IF Finished(p) THEN probe ELSE To(probe, g, "queued")
       ELSE UNCHANGED <<pubs, binders, probe>>
    /\ UNCHANGED <<target, synthetic, node, client, dead, finalized, disarmed, closed>>

\* The thread reads the result of its reply: BR_TRANSACTION_COMPLETE, or a
\* failure that retires the operation.  A thread that finds its connection
\* closed retires what it still waits for.
ReadResult(g) ==
    /\ reply[g] \in {"completed", "failed"}
    /\ reply' = To(reply, g, "done")
    /\ IF reply[g] = "failed" \/ closed THEN Retire(g) ELSE UNCHANGED <<synthetic, finalized>>
    /\ UNCHANGED <<target, binders, pubs, probe, node, client, dead, disarmed, closed>>

\* The driver returns BR_ACQUIRE to some thread of the connection.
KernelAcquire(g) ==
    /\ node[g] = "queued"
    /\ node' = To(node, g, "delivered")
    /\ UNCHANGED <<target, synthetic, binders, pubs, probe, reply, client, dead, finalized, disarmed, closed>>

\* parse_read_buffer: mark_operation_publication_acquire_pending.
ObserveAcquire(g) ==
    /\ node[g] = "delivered"
    /\ node' = To(node, g, "observed")
    /\ IF IsPub(g) /\ pubs[target[g]].conn
          /\ ~pubs[target[g]].pending /\ ~pubs[target[g]].owned
       THEN pubs' = [pubs EXCEPT ![target[g]].pending = TRUE]
       ELSE UNCHANGED pubs
    /\ UNCHANGED <<target, synthetic, binders, probe, reply, client, dead, finalized, disarmed, closed>>

\* libbinder takes its reference and answers BC_ACQUIRE_DONE; when that was
\* consumed, mark_operation_publication_acquire_committed.  On a closed
\* connection it never is, and libbinder's reference stays for good.
AcquireDone(g) ==
    /\ node[g] = "observed"
    /\ node' = To(node, g, IF closed THEN "leaked" ELSE "held")
    /\ IF ~closed /\ IsPub(g) /\ pubs[target[g]].pending
       THEN Update(g, [pubs[target[g]] EXCEPT !.pending = FALSE, !.owned = TRUE])
       ELSE UNCHANGED <<pubs, binders>>
    /\ UNCHANGED <<target, synthetic, probe, reply, client, dead, finalized, disarmed, closed>>

\* The read buffer cannot be given to libbinder before its connection is
\* closed: PendingReadEffects is dropped, the acquire cancelled, and the
\* connection's publications are retired again.
CancelAcquire(g) ==
    /\ node[g] = "observed" /\ closed
    /\ node' = To(node, g, "gone")
    /\ IF IsPub(g) /\ pubs[target[g]].pending
       THEN Drop({g}) /\ probe' = Unqueued({g})
       ELSE UNCHANGED <<synthetic, binders, pubs, probe, disarmed, finalized>>
    /\ UNCHANGED <<target, reply, client, dead, closed>>

\* retire_binder_connection_publications, when the last descriptor is closed
\* and no ioctl is in flight; an acquire in flight keeps its publication.
CloseConnection ==
    /\ ~closed /\ closed' = TRUE
    /\ \A g \in Gens : node[g] # "delivered"
    /\ LET mine == {g \in Gens : IsPub(g) /\ pubs[target[g]].conn}
       IN  /\ Drop({g \in mine : ~pubs[target[g]].pending})
           /\ probe' = Unqueued(mine)
    /\ node' = [g \in Gens |-> IF node[g] = "queued" THEN "gone" ELSE node[g]]
    /\ client' = [g \in Gens |-> FALSE]
    /\ UNCHANGED <<target, reply, dead>>
-----------------------------------------------------------------------------
(***************************************************************************)
(* Probes: flush_native_binder_lifecycle, by the worker or any thread.     *)
(***************************************************************************)
\* take_operation_publication_probe: out of the queue, and dropped if the
\* publication is not the same any more or has been acquired.
TakeProbe(g) ==
    /\ probe[g] = "queued"
    /\ probe' = To(probe, g, IF IsPub(g) /\ pubs[target[g]].binder /\ ~pubs[target[g]].owned
                             THEN "taken" ELSE "no")
    /\ UNCHANGED <<target, synthetic, binders, pubs, reply, node, client, dead, finalized, disarmed, closed>>

\* operation_binder_node_exists: does the driver know the node?
Query(g) ==
    /\ probe[g] = "taken"
    /\ probe' = To(probe, g, IF node[g] \in {"none", "gone"} THEN "absent" ELSE "present")
    /\ UNCHANGED <<target, synthetic, binders, pubs, reply, node, client, dead, finalized, disarmed, closed>>

QueryFails(g) ==
    /\ probe[g] = "taken"
    /\ probe' = To(probe, g, "error")
    /\ UNCHANGED <<target, synthetic, binders, pubs, reply, node, client, dead, finalized, disarmed, closed>>

\* Mutant of NextProbe: a failed query is not repeated.
MutNextProbe(g) == IF probe[g] = "error" THEN "no" ELSE "queued"

NextProbe(g) == "queued"

\* finish_operation_publication_probe: without a node nobody can reach the
\* operation any more.
FinishProbe(g) ==
    /\ probe[g] \in {"absent", "present", "error"}
    /\ LET live == IsPub(g) /\ pubs[target[g]].binder /\ ~pubs[target[g]].owned
       IN  IF live /\ probe[g] = "absent" /\ ~pubs[target[g]].pending
           THEN Drop({g}) /\ probe' = To(probe, g, "no")
           ELSE /\ probe' = To(probe, g, IF live THEN NextProbe(g) ELSE "no")
                /\ UNCHANGED <<synthetic, binders, pubs, disarmed, finalized>>
    /\ UNCHANGED <<target, reply, node, client, dead, closed>>
-----------------------------------------------------------------------------
(***************************************************************************)
(* The client.                                                             *)
(***************************************************************************)
\* build_native_operation_reply: finish, abort or an error that ends it.
ClientEnds(g) ==
    /\ client[g] /\ node[g] = "held" /\ g \notin finalized
    /\ finalized' = finalized \cup {g}
    /\ UNCHANGED <<target, synthetic, binders, pubs, probe, reply, node, client, dead, disarmed, closed>>

\* The client drops its reference or dies.  A node that the process has not
\* been told of goes at once.
ClientDrops(g) ==
    /\ client[g]
    /\ client' = To(client, g, FALSE)
    /\ node' = IF node[g] = "queued" THEN To(node, g, "gone") ELSE node
    /\ UNCHANGED <<target, synthetic, binders, pubs, probe, reply, dead, finalized, disarmed, closed>>

\* BR_RELEASE: libbinder gives its reference back.
KernelRelease(g) ==
    /\ node[g] = "held" /\ ~client[g] /\ ~closed
    /\ node' = To(node, g, "gone")
    /\ UNCHANGED <<target, synthetic, binders, pubs, probe, reply, client, dead, finalized, disarmed, closed>>
-----------------------------------------------------------------------------
Send(g)   == Install(g) \/ Unsent(g) \/ FinishLocal(g) \/ KernelReply(g)
Result(g) == MarkCompleted(g) \/ ReadResult(g)
Take(g)   == KernelAcquire(g) \/ ObserveAcquire(g) \/ AcquireDone(g)
Probe(g)  == TakeProbe(g) \/ FinishProbe(g)

Next ==
    \/ \E g \in Gens :
         \/ \E t \in Targets : Register(g, t)
         \/ Send(g) \/ Result(g) \/ Take(g) \/ CancelAcquire(g)
         \/ Probe(g) \/ Query(g) \/ QueryFails(g)
         \/ ClientEnds(g) \/ ClientDrops(g) \/ KernelRelease(g) \/ Destroy(g)
    \/ CloseConnection

\* Threads send their replies, return from their ioctls and enter the next
\* one; the worker is woken for what is due; the driver answers a query some
\* time, and releases what no client has.
Fairness ==
    \A g \in Gens :
        /\ WF_vars(Send(g)) /\ WF_vars(Result(g)) /\ WF_vars(Take(g))
        /\ WF_vars(KernelRelease(g)) /\ WF_vars(Destroy(g))
        /\ WF_vars(Probe(g)) /\ SF_vars(Query(g))

Spec == Init /\ [][Next]_vars /\ Fairness
-----------------------------------------------------------------------------
(***************************************************************************)
(* Properties.                                                             *)
(***************************************************************************)
\* The initial strong reference is there as long as the driver has an
\* acquire for the object that libbinder did not take over: an object is
\* never destroyed under a BR_ACQUIRE in some thread's read buffer.
AcquireFindsObject ==
    \A g \in Gens : node[g] \in {"queued", "delivered", "observed"} =>
        binders[target[g]] = g /\ g \notin dead

\* A client that has a reference reaches its operation: nothing that is left
\* over from an earlier object at the same address takes it out of the maps.
CallsRouted ==
    \A g \in Gens : client[g] => synthetic[target[g]] = g

\* An object is there for whoever is on the way to it, the driver or a client.
ObjectsReachable == AcquireFindsObject /\ CallsRouted

\* An operation that no client has goes away, with its object and the daemon's
\* operation, whether its reply was lost, never sent or dropped early.
CleanedUp ==
    \A g \in Gens : Born(g) /\ ~client[g] ~> g \in dead \/ client[g] \/ closed
=============================================================================
