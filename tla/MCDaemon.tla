------------------------------ MODULE MCDaemon ------------------------------
(***************************************************************************)
(* A small instance of what the daemon's threads share.                    *)
(***************************************************************************)
EXTENDS Daemon

CONSTANTS locked, unlocked, sync, step, again, a, b, c, alice, bob, k

\* Two lock state notifications, a sync by is_device_locked, and a garbage
\* collector step that queues another one.
MCJobs     == {locked, unlocked, sync, step, again}
MCRequeues == [j \in MCJobs |-> IF j = step THEN again ELSE NoJob]

\* Three clients of two owners for two slots of the TA; two of them need the
\* guard of the same key.
MCOwner == [x \in {a, b, c} |-> IF x = c THEN alice ELSE bob]
MCKey   == [x \in {a, b, c} |-> IF x = b THEN NoKey ELSE k]

\* What the components and the proofs assume of the constants.
ASSUME DaemonAssumption ==
    /\ AsyncAssumption /\ Dog!WatchdogAssumption
    /\ Devices!DevicesAssumption /\ Loop!LoopAssumption
=============================================================================
