--------------------------- MODULE PendingReplies ----------------------------
(***************************************************************************)
(* How one Binder thread of the host process matches replies and results   *)
(* to requests (src/injector/src/hook/rewrite/pending.rs and               *)
(* src/injector/src/hook/intercept/ioctl.rs, ioctl/write.rs, ioctl/read.rs).*)
(*                                                                         *)
(* Neither BC_REPLY nor BR_TRANSACTION_COMPLETE names what it belongs to.  *)
(* The hook keeps a stack of frames for the requests, a queue for the      *)
(* results of what was submitted and a stack for synchronous calls, and has*)
(* to stay in step with a driver that nests calls, fails them, and is      *)
(* asked again after EINTR with the same commands.                         *)
(*                                                                         *)
(* A write holds at most one transaction or reply, its last command, as    *)
(* libbinder flushes after each.  The memory of the process is readable.   *)
(* Requests are synchronous: an inbound TF_ONE_WAY request pushes no frame *)
(* (handle_br_transaction, parse_read_buffer), has no BC_REPLY and owes no *)
(* result, so that it has no part in the matching, and is left out.        *)
(***************************************************************************)
EXTENDS Integers, SequencesExt

CONSTANTS
    Requests,  \* what clients send to this thread
    Kind,      \* per request: "pass" (no call is remembered), "mirror" (the
               \* system's reply may be replaced) or "omk" (the request is
               \* blocked in a shadow buffer, and the reply made here)
    MaxCalls   \* bound: transactions the thread itself sends

None == 0
Call == -1   \* in host and kstack: a synchronous call of the thread

\* A request is not one of the two.
RepliesAssumption == {None, Call} \cap Requests = {}

VARIABLES
    frames,       \* PENDING_REPLY_QUEUE: [id, claimed, pending]
    prepared,     \* PREPARED_BC_REPLIES: [frame, data]
    outbound,     \* OUTBOUND_REPLY_BUFFERS: requests whose reply was made here
    completions,  \* PENDING_TRANSACTION_COMPLETIONS: [cmd, reply, expects]
    sync,         \* SYNC_TRANSACTIONS
    shadows,      \* INBOUND_TRANSACTION_SHADOWS
    host,         \* what libbinder is in: requests it serves, Call
    wait,         \* what libbinder reads for: "work", "complete", "reply", "none"
    out,          \* commands libbinder has to write: [k, n]
    kstack,       \* the driver's transaction stack of the thread
    todo,         \* what the driver has for the thread: [k, cmd]
    held,         \* requests whose buffer the driver has not got back
    seen,         \* requests that were delivered
    given,        \* per request: the replies that the driver consumed
    built,        \* per request: how often its reply was made
    calls,        \* transactions sent
    broken        \* the connection is no longer used

hook   == <<frames, prepared, outbound, completions, sync, shadows>>
driver == <<kstack, todo, held, seen, given>>
vars   == <<hook, host, wait, out, driver, built, calls, broken>>

Init ==
    /\ frames = <<>> /\ prepared = <<>> /\ outbound = {} /\ completions = <<>>
    /\ sync = <<>> /\ shadows = {} /\ host = <<>> /\ wait = "work" /\ out = <<>>
    /\ kstack = <<>> /\ todo = <<>> /\ held = {} /\ seen = {}
    /\ given = [r \in Requests |-> <<>>] /\ built = [r \in Requests |-> 0]
    /\ calls = 0 /\ broken = FALSE

Top(s) == IF s = <<>> THEN None ELSE Last(s)
-----------------------------------------------------------------------------
(***************************************************************************)
(* The driver: a thread that waits for the answer to its own call is given *)
(* only requests of that call.                                             *)
(***************************************************************************)
Deliver(r) ==
    /\ r \notin seen /\ ~broken
    /\ Top(kstack) = Call \/ (host = <<>> /\ todo = <<>>)
    /\ kstack' = Append(kstack, r)
    /\ todo' = Append(todo, [k |-> "transaction", cmd |-> <<"request", r>>])
    /\ held' = held \cup {r} /\ seen' = seen \cup {r}
    /\ UNCHANGED <<hook, host, wait, out, given, built, calls, broken>>

\* BR_REPLY, or BR_DEAD_REPLY if the other side died.
Answer ==
    /\ Top(kstack) = Call /\ ~broken
    /\ kstack' = Front(kstack)
    /\ \E k \in {"reply", "dead"} : todo' = Append(todo, [k |-> k, cmd |-> <<>>])
    /\ UNCHANGED <<hook, host, wait, out, held, seen, given, built, calls, broken>>

\* What the driver does with the last command of a write, c, and its data.
Consume(c, data) ==
    \/ /\ c.k = "reply"
       /\ kstack' = Front(kstack)
       /\ given' = [given EXCEPT ![Last(kstack)] = Append(@, data)]
       /\ \E k \in {"complete", "failed"} : todo' = Append(todo, [k |-> k, cmd |-> <<c.k, c.n>>])
    \/ /\ c.k = "call"
       /\ \E k \in {"complete", "failed"} :
            /\ todo' = Append(todo, [k |-> k, cmd |-> <<c.k, c.n>>])
            /\ kstack' = IF k = "complete" THEN Append(kstack, Call) ELSE kstack
       /\ UNCHANGED given
    \/ /\ c.k = "oneway"
       /\ \E k \in {"complete", "failed", "spam"} :
            todo' = Append(todo, [k |-> k, cmd |-> <<c.k, c.n>>])
       /\ UNCHANGED <<kstack, given>>
    \/ c.k = "free" /\ UNCHANGED <<kstack, todo, given>>
-----------------------------------------------------------------------------
(***************************************************************************)
(* libbinder.                                                              *)
(***************************************************************************)
Serving == wait = "none" /\ Top(host) \in Requests /\ ~broken

SendReply ==
    /\ Serving
    /\ out' = Append(out, [k |-> "reply", n |-> Top(host)])
    /\ wait' = "complete"
    /\ UNCHANGED <<hook, host, driver, built, calls, broken>>

Transact(k) ==
    /\ Serving /\ calls < MaxCalls
    /\ calls' = calls + 1
    /\ out' = Append(out, [k |-> k, n |-> calls'])
    /\ host' = IF k = "call" THEN Append(host, Call) ELSE host
    /\ wait' = IF k = "call" THEN "reply" ELSE "complete"
    /\ UNCHANGED <<hook, driver, built, broken>>
-----------------------------------------------------------------------------
(***************************************************************************)
(* The write half of new_ioctl.                                            *)
(***************************************************************************)
\* Mutant of Unclaimed: the oldest frame is taken.
MutUnclaimed == SelectInSeq(frames, LAMBDA f : ~f.claimed)

\* The frame a BC_REPLY belongs to: the newest that no reply has claimed.
Unclaimed == SelectLastInSeq(frames, LAMBDA f : ~f.claimed)

\* remove_pending_reply_frame: the frame at the first position with the id.
Without(id) == RemoveFirstMatch(frames, LAMBDA f : f.id = id)

\* handle_bc_reply: claim the frame; with a pending call, make the reply or
\* keep the system's (data None).
Handled(data) == data = None \/ (Unclaimed # 0 /\ frames[Unclaimed].pending)

HasReply == out # <<>> /\ Last(out).k = "reply"

\* A reply is prepared the first time its command is seen, and taken from
\* PREPARED_BC_REPLIES when the command is written again.
Prepare(p) ==
    IF ~HasReply
    THEN p = [frame |-> None, data |-> None]
    ELSE IF prepared # <<>>
    THEN p = Head(prepared)
    ELSE /\ p.frame = (IF Unclaimed = 0 THEN None ELSE frames[Unclaimed].id)
         /\ Handled(p.data)

Making == HasReply /\ prepared = <<>> /\ Unclaimed # 0

Replies == [frame : Requests \cup {None}, data : Requests \cup {None}]

\* What record_transaction_completion adds for the last command.
Recorded(c) ==
    IF c.k = "free" THEN completions
    ELSE Append(completions, [cmd |-> <<c.k, c.n>>, reply |-> c.k = "reply", expects |-> c.k = "call"])

\* Data made here is made for the request of the frame.
Write(p) ==
    /\ out # <<>> /\ ~broken
    /\ Prepare(p) /\ p.data \in {None, p.frame}
    /\ built' = IF Making /\ frames[Unclaimed].pending
                THEN [built EXCEPT ![p.frame] = @ + 1] ELSE built
    /\ UNCHANGED <<host, wait, seen, calls>>

Freed(n) == {out[i].n : i \in {j \in 1..n : out[j].k = "free"}}

\* The driver took everything: replies are committed, results awaited, and
\* the buffers it was handed back, under their own addresses, forgotten.
WriteAll ==
    \E p \in Replies :
      /\ Write(p)
      /\ Consume(Last(out), p.data)
      /\ frames' = IF HasReply THEN Without(p.frame) ELSE frames
      /\ prepared' = <<>> /\ outbound' = {}
      /\ completions' = Recorded(Last(out))
      /\ sync' = IF Last(out).k = "call" THEN Append(sync, "PendingCompletion") ELSE sync
      /\ shadows' = shadows \ Freed(Len(out))
      /\ held' = held \ {r \in Freed(Len(out)) : Kind[r] # "omk" \/ r \in shadows}
      /\ out' = <<>> /\ UNCHANGED broken

\* EINTR or EAGAIN with the last command left: libbinder asks again with
\* what is left, and the prepared reply is kept for it.
WriteInterrupted ==
    \E p \in Replies, n \in 0..(Len(out) - 1) :
      /\ Write(p)
      /\ frames' = IF Making
                   THEN [frames EXCEPT ![Unclaimed].claimed = TRUE, ![Unclaimed].pending = FALSE]
                   ELSE frames
      /\ prepared' = IF HasReply THEN <<p>> ELSE prepared
      /\ outbound' = IF p.data = None THEN outbound ELSE outbound \cup {p.data}
      /\ shadows' = shadows \ Freed(n)
      /\ held' = held \ {r \in Freed(n) : Kind[r] # "omk" \/ r \in shadows}
      /\ out' = SubSeq(out, n + 1, Len(out))
      /\ UNCHANGED <<completions, sync, kstack, todo, given, broken>>

\* Another error: what was prepared is aborted, and libbinder gives up.
WriteFailed ==
    \E p \in Replies :
      /\ Write(p)
      /\ frames' = IF HasReply THEN Without(p.frame) ELSE frames
      /\ prepared' = <<>> /\ outbound' = {} /\ broken' = TRUE
      /\ UNCHANGED <<completions, sync, shadows, kstack, todo, held, given, out>>

\* reset_current_thread_binder_state: the connection was closed.
Reset ==
    /\ ~broken /\ broken' = TRUE
    /\ frames' = <<>> /\ prepared' = <<>> /\ outbound' = {}
    /\ completions' = <<>> /\ sync' = <<>>
    /\ UNCHANGED <<shadows, host, wait, out, driver, built, calls>>
-----------------------------------------------------------------------------
(***************************************************************************)
(* The read half: parse_read_buffer, then libbinder.                       *)
(***************************************************************************)
\* complete_sync_transaction: is a call in that state on top?
SyncIs(state) == sync # <<>> /\ Last(sync) = state

\* complete_transaction_submission.
Completed ==
    IF completions = <<>>
    THEN UNCHANGED <<completions, sync>>
    ELSE /\ completions' = Tail(completions)
         /\ sync' = IF Head(completions).expects /\ SyncIs("PendingCompletion")
                    THEN Append(Front(sync), "AwaitingReply") ELSE sync

\* Mutant of Failed: a terminal result is never that of a reply.
MutFailed(terminal) ==
    LET outgoing  == completions # <<>> /\ ~Head(completions).reply
        immediate == outgoing /\ (Head(completions).expects => SyncIs("PendingCompletion"))
    IN  IF terminal /\ ~immediate /\ SyncIs("AwaitingReply")
        THEN sync' = Front(sync) /\ UNCHANGED completions
        ELSE /\ sync' = IF immediate /\ Head(completions).expects THEN Front(sync) ELSE sync
             /\ completions' = IF outgoing THEN Tail(completions) ELSE completions

\* complete_failed_transaction_submission: the failure of the reply that is
\* waited for, of the transaction that is waited for, or of an older call.
Failed(terminal) ==
    LET isReply   == completions # <<>> /\ Head(completions).reply
        outgoing  == completions # <<>> /\ ~isReply
        immediate == outgoing /\ (Head(completions).expects => SyncIs("PendingCompletion"))
    IN  IF terminal /\ isReply
        THEN completions' = Tail(completions) /\ UNCHANGED sync
        ELSE IF terminal /\ ~immediate /\ SyncIs("AwaitingReply")
        THEN sync' = Front(sync) /\ UNCHANGED completions
        ELSE /\ sync' = IF immediate /\ Head(completions).expects THEN Front(sync) ELSE sync
             /\ completions' = IF outgoing THEN Tail(completions) ELSE completions

\* BR_TRANSACTION: a frame, and a pending call or a shadow as the request's
\* kind asks for.
ReadTransaction(r) ==
    /\ frames' = Append(frames, [id |-> r, claimed |-> FALSE, pending |-> Kind[r] # "pass"])
    /\ shadows' = IF Kind[r] = "omk" THEN shadows \cup {r} ELSE shadows
    /\ host' = Append(host, r) /\ wait' = "none"
    /\ UNCHANGED <<completions, sync, out>>

\* The result of what was submitted.  Once its reply is dealt with, libbinder
\* frees the buffer of the request.
ReadResult(item) ==
    /\ IF item.k = "complete" THEN Completed ELSE Failed(item.k # "spam")
    /\ \/ /\ item.cmd[1] = "reply"
          /\ host' = Front(host)
          /\ out' = Append(out, [k |-> "free", n |-> Last(host)])
          /\ wait' = IF host' = <<>> THEN "work" ELSE "reply"
       \/ item.cmd[1] = "oneway" /\ wait' = "none" /\ UNCHANGED <<host, out>>
       \/ /\ item.cmd[1] = "call"
          /\ IF item.k = "complete" THEN UNCHANGED <<host, wait>>
                                    ELSE host' = Front(host) /\ wait' = "none"
          /\ UNCHANGED out
    /\ UNCHANGED <<frames, shadows>>

ReadAnswer(k) ==
    /\ IF k = "dead"
       THEN Failed(TRUE)
       ELSE /\ sync' = IF SyncIs("AwaitingReply") THEN Front(sync) ELSE sync
            /\ UNCHANGED completions
    /\ host' = Front(host) /\ wait' = "none"
    /\ UNCHANGED <<frames, shadows, out>>

Read ==
    /\ out = <<>> /\ wait # "none" /\ todo # <<>> /\ ~broken
    /\ todo' = Tail(todo)
    /\ LET item == Head(todo)
       IN  \/ item.k = "transaction" /\ ReadTransaction(item.cmd[2])
           \/ item.k \in {"complete", "failed", "spam"} /\ ReadResult(item)
           \/ item.k \in {"reply", "dead"} /\ ReadAnswer(item.k)
    /\ UNCHANGED <<prepared, outbound, kstack, held, seen, given, built, calls, broken>>

Next ==
    \/ \E r \in Requests : Deliver(r)
    \/ Answer \/ SendReply \/ \E k \in {"call", "oneway"} : Transact(k)
    \/ WriteAll \/ WriteInterrupted \/ WriteFailed \/ Reset \/ Read

Spec == Init /\ [][Next]_vars
-----------------------------------------------------------------------------
(***************************************************************************)
(* Properties.                                                             *)
(***************************************************************************)
\* A client gets the reply to its own request, the system's or one that was
\* made for it, once; and what makes it, with its effects in the daemon, runs
\* once, however often the command is written again (the reply of a nested
\* request never takes the frame of the request around it).
RepliesMatch ==
    \A r \in Requests :
        /\ given[r] \in {<<>>, <<None>>, <<r>>}
        /\ built[r] = 0 \/ (built[r] = 1 /\ Kind[r] # "pass")
        /\ given[r] # <<>> /\ Kind[r] # "pass" => built[r] = 1

\* Where in the driver's queue the results are.
Owed == {i \in DOMAIN todo : todo[i].k \in {"complete", "failed", "spam"}}

\* f matches what is waited for with the results, in order.
InOrder(f) ==
    /\ \A i, j \in DOMAIN completions : i < j => f[i] < f[j]
    /\ \A i \in DOMAIN completions : completions[i].cmd = todo[f[i]].cmd

\* The results that the hook waits for are those the driver owes, in that
\* order, so that a failure is charged to the command that failed; and a
\* thread that is idle has kept nothing of what it did, no frame, no reply,
\* no call and no buffer of the driver.
BooksBalance ==
    ~broken =>
      /\ \E f \in Bijection(DOMAIN completions, Owed) : InOrder(f)
      /\ wait = "work" /\ todo = <<>> /\ out = <<>> =>
            /\ frames = <<>> /\ prepared = <<>> /\ outbound = {} /\ sync = <<>>
            /\ shadows = {} /\ held = {}
=============================================================================
