------------------------------ MODULE JobQueue ------------------------------
(***************************************************************************)
(* What AsyncTask promises its users (the doc comments of                  *)
(* src/src/keymaster/async_task.rs): two FIFO queues, served one job at a  *)
(* time, the low one only when the high one is empty, every queued job     *)
(* performed once.  No thread, no mutex, no time-out.                      *)
(***************************************************************************)
EXTENDS Naturals, Sequences

CONSTANTS
    Jobs,
    NoJob,
    Hi,        \* jobs for the high priority queue
    Requeues   \* [Jobs -> Jobs \cup {NoJob}]: the low job a job queues itself

VARIABLES
    hi, lo,    \* the queues
    busy,      \* the job being performed
    ran        \* the jobs performed, in order

vars == <<hi, lo, busy, ran>>

In(s) == {s[i] : i \in 1..Len(s)}

Known == In(hi) \cup In(lo) \cup {busy} \cup In(ran)

Init == hi = <<>> /\ lo = <<>> /\ busy = NoJob /\ ran = <<>>

Enqueue(j) ==
    /\ j \notin Known
    /\ IF j \in Hi THEN hi' = Append(hi, j) /\ UNCHANGED lo
                   ELSE lo' = Append(lo, j) /\ UNCHANGED hi
    /\ UNCHANGED <<busy, ran>>

Start ==
    /\ busy = NoJob
    /\ \/ /\ hi # <<>>
          /\ busy' = Head(hi) /\ hi' = Tail(hi) /\ UNCHANGED lo
       \/ /\ hi = <<>> /\ lo # <<>>
          /\ busy' = Head(lo) /\ lo' = Tail(lo) /\ UNCHANGED hi
    /\ UNCHANGED ran

Perform ==
    /\ busy # NoJob
    /\ busy' = NoJob
    /\ ran' = Append(ran, busy)
    /\ lo' = IF Requeues[busy] = NoJob THEN lo ELSE Append(lo, Requeues[busy])
    /\ UNCHANGED hi

Next == (\E j \in Jobs : Enqueue(j)) \/ Start \/ Perform

Spec == Init /\ [][Next]_vars /\ WF_vars(Start) /\ WF_vars(Perform)
=============================================================================
