------------------------------ MODULE Watchdog ------------------------------
(***************************************************************************)
(* The watchdog of the keystore service (src/watchdog/src/lib.rs): watch   *)
(* points that threads arm and disarm, and the thread that reports the     *)
(* overdue ones, backs off between reports and terminates when idle.       *)
(*                                                                         *)
(* The watchdog thread holds the mutex from the moment it wakes up until   *)
(* it waits again, so what it does in between is one step; arming, with    *)
(* the thread it may have to spawn, is another.  Time is in seconds and    *)
(* does not pass while the thread is due: it is scheduled within a second. *)
(***************************************************************************)
EXTENDS Integers, FiniteSets, FiniteSetsExt

CONSTANTS
    Points,       \* pairs of a thread and the id of a watch point
    Timeouts,     \* what watch points are armed with
    IdleTimeout,
    MinReport,    \* MIN_REPORT_TIMEOUT
    ReportStep,   \* what update_noisy_timeout adds
    MaxReport,    \* MAX_REPORT_TIMEOUT
    Spurious,     \* may the condition variable wake up on its own?
    MaxTime       \* bound on the clock

WatchdogAssumption ==
    /\ Timeouts \subseteq Nat \ {0} /\ IdleTimeout \in Nat \ {0}
    /\ MinReport \in Nat \ {0} /\ ReportStep \in Nat
    /\ MaxReport \in Nat /\ MinReport <= MaxReport
    /\ Spurious \in BOOLEAN /\ MaxTime \in Nat

Never == -1

VARIABLES
    records,  \* the armed watch points and their deadlines
    running,  \* State::Running
    worker,   \* where the watchdog thread is
    until,    \* when its wait times out
    idle,     \* did it wait with nothing to watch?
    signal,   \* a notification reached its wait
    last,     \* last_report
    noisy,    \* noisy_timeout
    looked,   \* history: when it last looked at the records
    logged,   \* history: when it last logged a report, since something is overdue
    now

thread == <<running, worker, until, idle, signal>>
report == <<last, noisy, looked, logged>>
vars   == <<records, thread, report, now>>

Init ==
    /\ records = [p \in {} |-> 0]
    /\ running = FALSE /\ worker = "none" /\ until = 0 /\ idle = FALSE /\ signal = FALSE
    /\ last = Never /\ noisy = MinReport
    /\ looked = Never /\ logged = Never
    /\ now = 0
-----------------------------------------------------------------------------
\* notify_all: nobody hears it but a thread that waits.
Notify == signal' = (worker = "wait")

\* arm: insert the record, or replace the one there is; spawn the thread unless it runs, notify.
Arm(p, timeout) ==
    /\ records' = [q \in DOMAIN records \cup {p} |-> IF q = p THEN now + timeout ELSE records[q]]
    /\ IF running
       THEN Notify /\ UNCHANGED <<running, worker>>
       ELSE running' = TRUE /\ worker' = "start" /\ signal' = FALSE
    /\ UNCHANGED <<until, idle, report, now>>

\* The WatchPoint is dropped: "There is no need to notify condvar".
Disarm(p) ==
    /\ p \in DOMAIN records
    /\ records' = [q \in DOMAIN records \ {p} |-> records[q]]
    /\ UNCHANGED <<thread, report, now>>
-----------------------------------------------------------------------------
(***************************************************************************)
(* The watchdog thread.                                                    *)
(***************************************************************************)
Overdue == {p \in DOMAIN records : records[p] <= now}
ToCome  == {records[p] - now : p \in DOMAIN records \ Overdue}

\* update_noisy_timeout
NextNoisy == Min({MaxReport, noisy + ReportStep})

TooSoon == last # Never /\ now - last < noisy

\* Mutant of LogReport: a round that is too soon counts as a report.
MutLogReport ==
    \/ /\ Overdue = {}
       /\ last' = Never /\ logged' = Never /\ UNCHANGED noisy
    \/ /\ Overdue # {} /\ TooSoon
       /\ last' = now /\ UNCHANGED <<noisy, logged>>
    \/ /\ Overdue # {} /\ ~TooSoon
       /\ noisy' = NextNoisy /\ last' = now /\ logged' = now

\* log_report: nothing to report, too soon, or a report.
LogReport ==
    \/ /\ Overdue = {}
       /\ last' = Never /\ logged' = Never /\ UNCHANGED noisy
    \/ /\ Overdue # {} /\ TooSoon
       /\ last' = Never /\ UNCHANGED <<noisy, logged>>
    \/ /\ Overdue # {} /\ ~TooSoon
       /\ noisy' = NextNoisy /\ last' = now /\ logged' = now

\* How long to wait, given the noisy timeout that log_report left behind.
NextTimeout(n) ==
    IF Overdue = {} /\ ToCome = {} THEN IdleTimeout
    ELSE Min(ToCome \cup (IF Overdue = {} THEN {} ELSE {n}))

\* One round of the loop: report, then wait.
Look ==
    /\ LogReport
    /\ looked' = now
    /\ until' = now + NextTimeout(noisy')
    /\ idle' = (DOMAIN records = {})
    /\ worker' = "wait" /\ signal' = FALSE
    /\ UNCHANGED <<records, running, now>>

Start == worker = "start" /\ Look

\* Idle, timed out, and nothing was armed while it took the mutex back.
MayTerminate == idle /\ DOMAIN records = {}

\* A timeout and a notification may coincide; either result is possible.
TimedOut == worker = "wait" /\ now >= until
Woken    == worker = "wait" /\ (signal \/ Spurious)

WakeUp ==
    \/ TimedOut /\ ~MayTerminate /\ Look
    \/ Woken /\ Look

Terminate ==
    /\ TimedOut /\ MayTerminate
    /\ noisy' = MinReport
    /\ running' = FALSE /\ worker' = "none" /\ signal' = FALSE
    /\ UNCHANGED <<records, until, idle, last, looked, logged, now>>

Due == worker = "start" \/ TimedOut \/ signal

Tick ==
    /\ ~Due /\ now < MaxTime
    /\ now' = now + 1
    /\ UNCHANGED <<records, thread, report>>

Next ==
    \/ \E p \in Points : Disarm(p) \/ \E timeout \in Timeouts : Arm(p, timeout)
    \/ Start \/ WakeUp \/ Terminate \/ Tick

Spec == Init /\ [][Next]_vars
-----------------------------------------------------------------------------
(***************************************************************************)
(* Properties.                                                             *)
(***************************************************************************)

\* The thread that serves the records is the one the state calls running, and
\* the back-off stays between its limits.
TypeOK ==
    /\ DOMAIN records \subseteq Points /\ \A p \in DOMAIN records : records[p] \in Nat
    /\ worker \in {"none", "start", "wait"} /\ running = (worker # "none")
    /\ until \in Nat /\ idle \in BOOLEAN /\ signal \in BOOLEAN /\ (signal => worker = "wait")
    /\ last \in {Never} \cup 0..now /\ noisy \in MinReport..MaxReport
    /\ looked \in {Never} \cup 0..now /\ logged \in {Never} \cup 0..now
    /\ now \in 0..MaxTime

\* A watch point that stays overdue is in a report at the latest when the
\* longest back-off after its deadline is over.
OverdueReported ==
    \A p \in DOMAIN records : now > records[p] + MaxReport => logged >= records[p]
=============================================================================
