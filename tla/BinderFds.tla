------------------------------ MODULE BinderFds ------------------------------
(***************************************************************************)
(* Which Binder connection a descriptor stands for                         *)
(* (src/injector/src/hook/intercept/fd.rs and the start of new_ioctl).     *)
(*                                                                         *)
(* The state that the hook keeps for a Binder connection has to go when    *)
(* the last descriptor of it is closed and the last ioctl on it returned,  *)
(* and must not be taken for that of another connection whose descriptor   *)
(* got the same number.  Descriptors are closed and duplicated through the *)
(* hooked functions; the probes of SyntheticOperations look connections up *)
(* with a token they kept.                                                 *)
(***************************************************************************)
EXTENDS Integers, FiniteSets

CONSTANTS
    Fds,       \* descriptors
    Threads,
    MaxFiles,  \* bound: Binder files that are opened
    MaxConns   \* bound: connections that are registered

None  == 0    \* nothing; not in Fds
Other == -1   \* a file that is not Binder
Conns == 1..MaxConns
Idle  == [st |-> "idle"]

\* What the proofs need of the constants: a process has finitely many threads.
BinderAssumption == IsFiniteSet(Threads) /\ None \notin Fds /\ MaxConns \in Nat /\ MaxFiles \in Nat

VARIABLES
    file,     \* the kernel's table: the file of a descriptor
    files,    \* Binder files opened so far
    byFd,     \* BinderFdRegistry::by_fd
    byConn,   \* BinderFdRegistry::by_connection
    conn,     \* BinderFdLifecycle of each connection, with its pinned file
    next,     \* NEXT_BINDER_CONNECTION
    at,       \* what each thread does
    cleaned   \* connections that retire_binder_connection_publications was called for

vars == <<file, files, byFd, byConn, conn, next, at, cleaned>>

Init ==
    /\ file = [f \in Fds |-> None] /\ files = 0
    /\ byFd = [f \in Fds |-> None] /\ byConn = {}
    /\ conn = [c \in Conns |-> [gen |-> 0, inFlight |-> 0, retired |-> FALSE, error |-> FALSE, pin |-> None]]
    /\ next = 1
    /\ at = [t \in Threads |-> Idle]
    /\ cleaned = {}

\* open, which is not hooked; a free descriptor.
Open(fd) ==
    /\ file[fd] = None
    /\ \/ file' = [file EXCEPT ![fd] = Other] /\ UNCHANGED files
       \/ /\ files < MaxFiles /\ files' = files + 1
          /\ file' = [file EXCEPT ![fd] = files']
    /\ UNCHANGED <<byFd, byConn, conn, next, at, cleaned>>
-----------------------------------------------------------------------------
(***************************************************************************)
(* The registry.                                                           *)
(***************************************************************************)
\* ensure_binder_fd_lifecycle: the connection of a descriptor, a new one if
\* it has none.
Ensured(fd) == IF byFd[fd] = None THEN next ELSE byFd[fd]

\* binder_connection_cleanup_ready.
CleanupReady(c) == c \notin byConn \/ (conn[c].retired /\ conn[c].inFlight = 0)

\* retire_unaliased_lifecycle, for a table that no longer has one entry of c
\* and a registry that has the connections known.
Retire(c, table, known) ==
    IF c = None \/ \E f \in Fds : table[f] = c
    THEN conn' = conn /\ byConn' = known
    ELSE /\ conn' = [conn EXCEPT ![c].retired = TRUE, ![c].gen = @ + 1]
         /\ byConn' = IF conn[c].inFlight = 0 THEN known \ {c} ELSE known

\* What the thread goes on with, once it has let go of the lock.
Forget(t, c, table) ==
    at' = [at EXCEPT ![t] = [st |-> "forget",
                             conn |-> IF \E f \in Fds : table[f] = c THEN None ELSE c]]

\* close_with_binder_fd_lifecycle: the close itself is done under the lock, and
\* the registry forgets a descriptor that was not open, too.  (One that it does
\* not know either changes nothing.)
Close(t, fd) ==
    /\ at[t] = Idle /\ (file[fd] # None \/ byFd[fd] # None)
    /\ file' = [file EXCEPT ![fd] = None]
    /\ byFd' = [byFd EXCEPT ![fd] = None]
    /\ Retire(byFd[fd], byFd', byConn)
    /\ Forget(t, byFd[fd], byFd')
    /\ UNCHANGED <<files, next, cleaned>>

\* duplicate_binder_fd_with_lifecycle: new takes part in the connection of
\* old, and leaves its own.
Dup(t, old, new) ==
    /\ at[t] = Idle /\ old # new /\ file[old] # None
    /\ LET fresh  == byFd[old] = None /\ file[old] # Other
           source == IF fresh THEN next ELSE byFd[old]
       IN  /\ fresh => next \in Conns
           /\ next' = IF fresh THEN next + 1 ELSE next
           /\ file' = [file EXCEPT ![new] = file[old]]
           /\ byFd' = [byFd EXCEPT ![old] = source, ![new] = source]
           /\ Retire(byFd[new], byFd', IF fresh THEN byConn \cup {next} ELSE byConn)
           /\ Forget(t, byFd[new], byFd')
    /\ UNCHANGED <<files, cleaned>>

\* forget_current_thread_binder_fd: what was kept for the connection goes if
\* nothing is in flight; otherwise the last ioctl takes care of it.
FinishForget(t) ==
    /\ at[t].st = "forget"
    /\ cleaned' = IF at[t].conn # None /\ CleanupReady(at[t].conn)
                  THEN cleaned \cup {at[t].conn} ELSE cleaned
    /\ at' = [at EXCEPT ![t] = Idle]
    /\ UNCHANGED <<file, files, byFd, byConn, conn, next>>
-----------------------------------------------------------------------------
(***************************************************************************)
(* An ioctl.                                                               *)
(***************************************************************************)
\* synchronize_binder_fd_generation.  A thread for which the descriptor meant
\* another connection the last time fails once, with EBADF; what threads
\* remember is left out, so that any call may.
Synchronize(t, fd) ==
    /\ at[t] = Idle /\ Ensured(fd) \in Conns
    /\ next' = IF byFd[fd] = None THEN next + 1 ELSE next
    /\ byFd' = [byFd EXCEPT ![fd] = Ensured(fd)]
    /\ byConn' = byConn \cup {Ensured(fd)}
    /\ at' \in {at, [at EXCEPT ![t] = [st |-> "token", fd |-> fd, conn |-> Ensured(fd),
                                       gen |-> conn[Ensured(fd)].gen, meant |-> file[fd],
                                       probe |-> FALSE]]}
    /\ UNCHANGED <<file, files, conn, cleaned>>

\* Mutant of Stale: the connection of the descriptor is not compared.
MutStale(k) == byFd[k.fd] = None

\* BinderIoctlGuard::begin refuses a token that is no longer that of its
\* descriptor.
Stale(k) ==
    \/ byFd[k.fd] # k.conn
    \/ conn[k.conn].retired
    \/ conn[k.conn].gen # k.gen

\* begin: the file is pinned with the first ioctl of its connection.
Begin(t) ==
    /\ at[t].st = "token"
    /\ LET k == at[t]
           c == byFd[k.fd]
           pin == IF conn[c].pin # None THEN conn[c].pin ELSE file[k.fd]
       IN  IF Stale(k) \/ conn[c].error \/ pin = None
           THEN at' = [at EXCEPT ![t] = Idle] /\ UNCHANGED conn
           ELSE /\ conn' = [conn EXCEPT ![c].inFlight = @ + 1, ![c].pin = pin]
                /\ at' = [at EXCEPT ![t] = [st |-> "ioctl", conn |-> c, meant |-> k.meant,
                                            gen |-> k.gen,
                                            fd |-> IF k.probe THEN None ELSE k.fd]]
    /\ UNCHANGED <<file, files, byFd, byConn, next, cleaned>>

\* The driver answers EBADF to the hooked call: invalidate_binder_fd_token takes
\* the descriptor out of the registry if it still is the one of the token. With
\* the call itself in flight forget_current_thread_binder_fd never finds the
\* connection ready, so that the clean-up is left to End.
Invalidate(t) ==
    /\ at[t].st = "ioctl" /\ at[t].fd # None
    /\ LET k == at[t]
       IN  IF byFd[k.fd] = k.conn /\ conn[k.conn].gen = k.gen
           THEN byFd' = [byFd EXCEPT ![k.fd] = None] /\ Retire(k.conn, byFd', byConn)
           ELSE UNCHANGED <<byFd, byConn, conn>>
    /\ at' = [at EXCEPT ![t].fd = None]
    /\ UNCHANGED <<file, files, next, cleaned>>

LastOut(c) == conn[c].retired /\ conn[c].inFlight = 1

\* The ioctl returns and the guard is dropped; the last one of a retired
\* connection has to clean up.  A driver that reported impossible counts
\* makes the connection unusable.
End(t) ==
    /\ at[t].st = "ioctl"
    /\ LET c == at[t].conn
       IN  /\ \E error \in {conn[c].error, TRUE} :
                conn' = [conn EXCEPT ![c].inFlight = @ - 1, ![c].error = error]
           /\ byConn' = IF LastOut(c) THEN byConn \ {c} ELSE byConn
           /\ at' = [at EXCEPT ![t] = IF LastOut(c) THEN [st |-> "retire", conn |-> c] ELSE Idle]
    /\ UNCHANGED <<file, files, byFd, next, cleaned>>

FinishEnd(t) ==
    /\ at[t].st = "retire"
    /\ cleaned' = cleaned \cup {at[t].conn}
    /\ at' = [at EXCEPT ![t] = Idle]
    /\ UNCHANGED <<file, files, byFd, byConn, conn, next>>

\* call_binder_connection_ioctl with a kept token: any descriptor that the
\* connection still has will do.  "gone" is what lets the operation of a
\* probe be dropped, unless the acquire is in flight.
Probe(t, c, gen) ==
    /\ at[t] = Idle /\ c < next
    /\ at' = [at EXCEPT ![t] =
                IF c \notin byConn \/ (conn[c].gen # gen /\ \E f \in Fds : byFd[f] = c)
                THEN [st |-> "gone", conn |-> c]
                ELSE IF \A f \in Fds : byFd[f] # c
                THEN Idle
                ELSE LET f == CHOOSE x \in Fds : byFd[x] = c
                     IN  [st |-> "token", fd |-> f, conn |-> c, gen |-> gen, meant |-> file[f],
                          probe |-> TRUE]]
    /\ UNCHANGED <<file, files, byFd, byConn, conn, next, cleaned>>

FinishProbe(t) ==
    /\ at[t].st = "gone"
    /\ at' = [at EXCEPT ![t] = Idle]
    /\ UNCHANGED <<file, files, byFd, byConn, conn, next, cleaned>>

Next ==
    \/ \E fd \in Fds : Open(fd)
    \/ \E t \in Threads :
         \/ \E fd \in Fds : Close(t, fd) \/ Synchronize(t, fd)
         \/ \E old, new \in Fds : Dup(t, old, new)
         \/ FinishForget(t) \/ Begin(t) \/ Invalidate(t) \/ End(t) \/ FinishEnd(t)
         \/ FinishProbe(t)
         \/ \E c \in Conns : Probe(t, c, 0)

Spec == Init /\ [][Next]_vars
-----------------------------------------------------------------------------
(***************************************************************************)
(* Properties.                                                             *)
(***************************************************************************)
Unused(c) == conn[c].inFlight = 0 /\ \A f \in Fds : byFd[f] # c

\* The state of a connection goes when its last descriptor is closed and its
\* last ioctl returned, whichever is later and whatever threads they are in:
\* not before, for no ioctl can begin any more, and not never, for some
\* thread did it or is about to.  A probe takes a connection for gone only
\* then, too.
CleanedWhenUnused ==
    \A c \in Conns :
        /\ c \in cleaned => Unused(c)
        /\ \A t \in Threads : at[t].st = "gone" /\ at[t].conn = c => Unused(c)
        /\ c < next /\ Unused(c) =>
              c \in cleaned \/ \E t \in Threads : at[t].st \in {"forget", "retire"} /\ at[t].conn = c

\* An ioctl works on the file that the descriptor named when it was called,
\* never on one that got its number while the call was on its way.
RightFile ==
    \A t \in Threads : at[t].st = "ioctl" /\ at[t].meant # None => conn[at[t].conn].pin = at[t].meant

\* The state of a connection is that of its file, and lasts as long as it is
\* in use.
ConnectionsSound == CleanedWhenUnused /\ RightFile
=============================================================================
