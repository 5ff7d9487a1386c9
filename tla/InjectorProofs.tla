--------------------------- MODULE InjectorProofs ---------------------------
(***************************************************************************)
(* Proofs about the parts of the injector: BinderFds, for any descriptors, *)
(* files and connections and any finite set of threads,                    *)
(* SyntheticOperations, for any generations and addresses, and             *)
(* PendingReplies, for any requests and any number of calls.               *)
(***************************************************************************)
EXTENDS Injector, Sequences, FiniteSetTheorems, TLAPS

(***************************************************************************)
(* The inductive invariant.                                                *)
(***************************************************************************)
Steps ==
         {Idle}
    \cup [st : {"forget"}, conn : Conns \cup {None}]
    \cup [st : {"token"}, fd : Fds, conn : Conns, gen : Int, meant : Int, probe : BOOLEAN]
    \cup [st : {"ioctl"}, conn : Conns, meant : Int, gen : Int, fd : Fds \cup {None}]
    \cup [st : {"retire", "gone"}, conn : Conns]

Lives == [gen : Int, inFlight : Int, retired : BOOLEAN, error : BOOLEAN, pin : Int]

TypeOK ==
    /\ file \in [Fds -> Int] /\ files \in Nat
    /\ byFd \in [Fds -> Conns \cup {None}]
    /\ conn \in [Conns -> Lives]
    /\ next \in Nat \ {0}
    /\ at \in [Threads -> Steps]
    /\ cleaned \subseteq Conns

\* Connections are known from when they are registered.
Registered ==
    /\ \A f \in Fds : byFd[f] < next
    /\ \A t \in Threads : at[t] # Idle => at[t].conn < next
    /\ \A c \in cleaned : c < next

Has(c) == \E f \in Fds : byFd[f] = c

\* The lifecycle says whether the connection has a descriptor, and one that
\* was not registered is as it was made.
Lifecycles ==
    \A c \in Conns :
        /\ c < next => (conn[c].retired <=> ~Has(c))
        /\ conn[c].gen = 0 <=> ~conn[c].retired
        /\ conn[c].gen >= 0
        /\ c >= next => conn[c].inFlight = 0 /\ ~conn[c].retired /\ conn[c].pin = None

\* The registry has a connection until it is unused.
RegistryExact ==
    byConn = {c \in Conns : c < next /\ ~(conn[c].retired /\ conn[c].inFlight = 0)}

\* The threads that are in an ioctl on c; no ioctl is lost in the count.
Inside(c) == {t \in Threads : at[t].st = "ioctl" /\ at[t].conn = c}
Counted   == \A c \in Conns : conn[c].inFlight = Cardinality(Inside(c))

\* The descriptors of a connection are one file, pinned from the first ioctl
\* on; a closed descriptor that was used has a connection of its own.
OneFile ==
    \A f, g \in Fds : byFd[f] = byFd[g] /\ byFd[f] # None =>
        file[f] = file[g] /\ (file[f] = None => f = g)

PinnedFile ==
    \A f \in Fds : byFd[f] # None /\ conn[byFd[f]].pin # None => file[f] = conn[byFd[f]].pin

\* A token is for the file that all descriptors of its connection name.
TokenFile ==
    \A t \in Threads : at[t].st = "token" /\ at[t].meant # None =>
        \A f \in Fds : byFd[f] = at[t].conn => file[f] = at[t].meant

FilesInv == OneFile /\ PinnedFile /\ TokenFile /\ RightFile

\* What CleanedWhenUnused says, and that the last ioctl cleans up in time.
EndsUnused ==
    /\ \A c \in cleaned : Unused(c)
    /\ \A t \in Threads : at[t].st \in {"retire", "gone"} => Unused(at[t].conn)

CleanedInTime ==
    \A c \in Conns : c < next /\ Unused(c) =>
        c \in cleaned \/ \E t \in Threads : at[t].st \in {"forget", "retire"} /\ at[t].conn = c

IInv ==
    /\ TypeOK /\ Registered
    /\ Lifecycles /\ RegistryExact /\ Counted
    /\ FilesInv
    /\ EndsUnused /\ CleanedInTime
-----------------------------------------------------------------------------
(***************************************************************************)
(* Steps of threads.                                                       *)
(***************************************************************************)
LEMMA StepFacts ==
    ASSUME NEW s \in Steps
    PROVE  /\ s.st \in {"idle", "forget", "token", "ioctl", "retire", "gone"}
           /\ s.st = "idle" <=> s = Idle
           /\ s.st = "forget" => s.conn \in Conns \cup {None}
           /\ s.st = "token" => s.fd \in Fds /\ s.conn \in Conns /\ s.gen \in Int /\ s.meant \in Int
                              /\ s.probe \in BOOLEAN
           /\ s.st = "ioctl" => s.conn \in Conns /\ s.meant \in Int /\ s.gen \in Int
                              /\ s.fd \in Fds \cup {None}
           /\ s.st \in {"retire", "gone"} => s.conn \in Conns
BY DEF Steps, Idle

LEMMA StepKinds ==
    /\ Idle \in Steps /\ Idle.st = "idle"
    /\ \A c \in Conns \cup {None} : [st |-> "forget", conn |-> c] \in Steps
    /\ \A f \in Fds, c \in Conns, g, m \in Int, b \in BOOLEAN :
         [st |-> "token", fd |-> f, conn |-> c, gen |-> g, meant |-> m, probe |-> b] \in Steps
    /\ \A c \in Conns, m, g \in Int, f \in Fds \cup {None} :
         [st |-> "ioctl", conn |-> c, meant |-> m, gen |-> g, fd |-> f] \in Steps
    /\ \A c \in Conns, s \in {"retire", "gone"} : [st |-> s, conn |-> c] \in Steps
BY DEF Steps, Idle

\* Thread t goes on to step s.
Goes(t, s) == s \in Steps /\ at' = [at EXCEPT ![t] = s]

\* It neither enters nor leaves an ioctl.
LEMMA InsideKept ==
    ASSUME TypeOK, NEW t \in Threads, NEW s, Goes(t, s),
           at[t].st # "ioctl", s.st # "ioctl"
    PROVE  \A c : Inside(c)' = Inside(c)
BY DEF Goes, Inside, TypeOK

LEMMA GoesFacts ==
    ASSUME TypeOK, NEW t \in Threads, NEW s, Goes(t, s)
    PROVE  /\ at' \in [Threads -> Steps]
           /\ at'[t] = s
           /\ \A u \in Threads : u # t => at'[u] = at[u]
           /\ \A u \in Threads : at[u] \in Steps
BY DEF Goes, TypeOK

LEMMA LifeFacts ==
    ASSUME TypeOK, NEW c \in Conns
    PROVE  /\ conn[c] \in Lives
           /\ conn[c].gen \in Int /\ conn[c].inFlight \in Int /\ conn[c].pin \in Int
           /\ conn[c].retired \in BOOLEAN /\ conn[c].error \in BOOLEAN
<1>1. conn[c] \in Lives
  BY DEF TypeOK
<1>2. QED
  BY <1>1 DEF Lives

LEMMA ConnFacts ==
    ASSUME BinderAssumption
    PROVE  Conns \subseteq Nat /\ None \notin Conns /\ None \in Int /\ Other \in Int
BY DEF Conns, None, Other, BinderAssumption

LEMMA ConnNotNone == None \notin Conns
BY DEF Conns, None

LEMMA InitInv == BinderAssumption /\ Init => IInv
<1> SUFFICES ASSUME BinderAssumption, Init PROVE IInv
  OBVIOUS
<1>0. Conns \subseteq Nat /\ None \notin Conns /\ None \in Int /\ Other \in Int
  BY ConnFacts
<1>1. TypeOK
  <2>1. [gen |-> 0, inFlight |-> 0, retired |-> FALSE, error |-> FALSE, pin |-> None] \in Lives
    BY <1>0 DEF Lives
  <2>2. QED
    BY <1>0, <2>1, StepKinds DEF Init, TypeOK
<1>2. Registered
  BY DEF Init, Registered, None
<1>3. Lifecycles
  BY <1>0 DEF Init, Lifecycles, Conns, BinderAssumption
<1>4. RegistryExact
  BY <1>0 DEF Init, RegistryExact, Conns, BinderAssumption
<1>5. Counted
  <2>1. \A c : Inside(c) = {}
    BY DEF Init, Inside, Idle
  <2>2. QED
    BY <2>1, FS_EmptySet DEF Init, Counted
<1>6. FilesInv
  BY DEF Init, FilesInv, OneFile, PinnedFile, TokenFile, RightFile, Idle
<1>7. EndsUnused /\ CleanedInTime
  BY <1>0 DEF Init, EndsUnused, CleanedInTime, Idle, Conns, BinderAssumption
<1>8. QED
  BY <1>1, <1>2, <1>3, <1>4, <1>5, <1>6, <1>7 DEF IInv

LEMMA Stutter == IInv /\ UNCHANGED vars => IInv'
BY DEF IInv, vars, TypeOK, Registered, Lifecycles, RegistryExact, Counted, Inside, FilesInv,
       OneFile, PinnedFile, TokenFile, RightFile, EndsUnused, CleanedInTime, Unused, Has
-----------------------------------------------------------------------------
(***************************************************************************)
(* Steps that leave the tables as they are.                                *)
(***************************************************************************)
Tables == <<file, files, byFd, byConn, conn, next>>

\* A step of t that neither is an ioctl nor has a token after it, and cleans
\* only what is unused.
LEMMA QuietStep ==
    ASSUME IInv, NEW t \in Threads, NEW s, Goes(t, s), UNCHANGED Tables,
           at[t].st # "ioctl", s.st # "ioctl",
           cleaned' \subseteq Conns,
           cleaned \subseteq cleaned', \A c \in cleaned' : c < next /\ Unused(c),
           s # Idle => s.conn < next,
           s.st \in {"retire", "gone"} => Unused(s.conn),
           s.st = "token" /\ s.meant # None => \A f \in Fds : byFd[f] = s.conn => file[f] = s.meant,
           at[t].st \in {"forget", "retire"} /\ at[t].conn # None /\ Unused(at[t].conn) =>
               at[t].conn \in cleaned'
    PROVE  IInv'
<1>0. TypeOK
  BY DEF IInv
<1>1. /\ at' \in [Threads -> Steps] /\ at'[t] = s
      /\ \A u \in Threads : u # t => at'[u] = at[u]
      /\ \A u \in Threads : at[u] \in Steps
  BY <1>0, GoesFacts
<1>2. \A c : Inside(c)' = Inside(c)
  BY <1>0, InsideKept
<1>3. \A c : Unused(c)' <=> Unused(c)
  BY DEF Tables, Unused
<1>4. TypeOK'
  BY <1>0, <1>1 DEF TypeOK, Tables
<1>5. Registered'
  BY <1>1 DEF IInv, Registered, Tables
<1>6. Lifecycles' /\ RegistryExact'
  BY DEF IInv, Lifecycles, RegistryExact, Has, Tables
<1>7. Counted'
  BY <1>2 DEF IInv, Counted, Tables
<1>8. FilesInv'
  <2>1. OneFile' /\ PinnedFile'
    BY DEF IInv, FilesInv, OneFile, PinnedFile, Tables
  <2>2. TokenFile'
    BY <1>1 DEF IInv, FilesInv, TokenFile, Tables
  <2>3. RightFile'
    BY <1>1 DEF IInv, FilesInv, RightFile, Tables
  <2>4. QED
    BY <2>1, <2>2, <2>3 DEF FilesInv
<1>9. EndsUnused'
  BY <1>1, <1>3 DEF IInv, EndsUnused, Tables
<1>10. CleanedInTime'
  <2> SUFFICES ASSUME NEW c \in Conns, c < next, Unused(c), c \notin cleaned'
               PROVE  \E u \in Threads : at'[u].st \in {"forget", "retire"} /\ at'[u].conn = c
    BY <1>3 DEF CleanedInTime, Tables
  <2>1. PICK u \in Threads : at[u].st \in {"forget", "retire"} /\ at[u].conn = c
    BY DEF IInv, CleanedInTime
  <2>2. c # None
    BY ConnNotNone
  <2>3. u # t
    BY <2>1, <2>2
  <2>4. QED
    BY <1>1, <2>1, <2>3
<1>11. QED
  BY <1>4, <1>5, <1>6, <1>7, <1>8, <1>9, <1>10 DEF IInv

LEMMA FinishForgetKeeps ==
    ASSUME BinderAssumption, IInv, NEW t \in Threads, FinishForget(t)
    PROVE  IInv'
<1>0. TypeOK /\ Registered /\ Lifecycles /\ RegistryExact /\ EndsUnused
  BY DEF IInv
<1>1. Goes(t, Idle) /\ Idle.st = "idle" /\ UNCHANGED Tables
  BY StepKinds DEF FinishForget, Goes, Tables
<1>2. at[t] \in Steps /\ at[t].st = "forget" /\ at[t] # Idle /\ at[t].conn \in Conns \cup {None}
  BY <1>0, StepFacts, StepKinds DEF FinishForget, TypeOK
<1>3. at[t].conn < next
  BY <1>0, <1>2 DEF Registered
<1>4. at[t].conn # None => (CleanupReady(at[t].conn) <=> Unused(at[t].conn))
  <2> SUFFICES ASSUME NEW c \in Conns, c < next
               PROVE  CleanupReady(c) <=> Unused(c)
    BY <1>2, <1>3
  <2>1. conn[c].retired <=> ~Has(c)
    BY <1>0 DEF Lifecycles
  <2>2. c \in byConn <=> ~(conn[c].retired /\ conn[c].inFlight = 0)
    BY <1>0 DEF RegistryExact
  <2>3. Unused(c) <=> conn[c].inFlight = 0 /\ ~Has(c)
    BY DEF Unused, Has
  <2>4. QED
    BY <2>1, <2>2, <2>3 DEF CleanupReady
<1>5. cleaned' = IF at[t].conn # None /\ Unused(at[t].conn)
                 THEN cleaned \cup {at[t].conn} ELSE cleaned
  BY <1>4 DEF FinishForget
<1>6. /\ cleaned' \subseteq Conns /\ cleaned \subseteq cleaned'
      /\ \A c \in cleaned' : c < next /\ Unused(c)
      /\ at[t].conn # None /\ Unused(at[t].conn) => at[t].conn \in cleaned'
  BY <1>0, <1>2, <1>3, <1>5 DEF TypeOK, Registered, EndsUnused
<1>7. QED
  BY <1>1, <1>2, <1>6, QuietStep

LEMMA FinishEndKeeps ==
    ASSUME BinderAssumption, IInv, NEW t \in Threads, FinishEnd(t)
    PROVE  IInv'
<1>0. TypeOK /\ Registered /\ EndsUnused
  BY DEF IInv
<1>1. Goes(t, Idle) /\ Idle.st = "idle" /\ UNCHANGED Tables
  BY StepKinds DEF FinishEnd, Goes, Tables
<1>2. at[t] \in Steps /\ at[t].st = "retire" /\ at[t] # Idle /\ at[t].conn \in Conns
  BY <1>0, StepFacts, StepKinds DEF FinishEnd, TypeOK
<1>3. at[t].conn < next /\ Unused(at[t].conn)
  BY <1>0, <1>2 DEF Registered, EndsUnused
<1>4. /\ cleaned' \subseteq Conns /\ cleaned \subseteq cleaned'
      /\ \A c \in cleaned' : c < next /\ Unused(c)
      /\ at[t].conn \in cleaned'
  BY <1>0, <1>2, <1>3 DEF TypeOK, Registered, EndsUnused, FinishEnd
<1>5. QED
  BY <1>1, <1>2, <1>4, QuietStep

LEMMA FinishProbeKeeps ==
    ASSUME BinderAssumption, IInv, NEW t \in Threads, FinishProbe(t)
    PROVE  IInv'
<1>0. TypeOK /\ Registered /\ EndsUnused
  BY DEF IInv
<1>1. Goes(t, Idle) /\ Idle.st = "idle" /\ UNCHANGED Tables /\ cleaned' = cleaned
  BY StepKinds DEF FinishProbe, Goes, Tables
<1>2. at[t].st = "gone"
  BY DEF FinishProbe
<1>3. cleaned \subseteq Conns /\ \A c \in cleaned : c < next /\ Unused(c)
  BY <1>0 DEF TypeOK, Registered, EndsUnused
<1>4. QED
  BY <1>1, <1>2, <1>3, QuietStep

\* A probe finds its connection gone only when it is unused.
LEMMA ProbeKeeps ==
    ASSUME BinderAssumption, IInv, NEW t \in Threads, NEW c \in Conns, Probe(t, c, 0)
    PROVE  IInv'
<1>0. TypeOK /\ Registered /\ Lifecycles /\ RegistryExact /\ EndsUnused /\ FilesInv
  BY DEF IInv
<1> DEFINE gone == c \notin byConn \/ (conn[c].gen # 0 /\ \E f \in Fds : byFd[f] = c)
           f0   == CHOOSE x \in Fds : byFd[x] = c
           s    == IF gone THEN [st |-> "gone", conn |-> c]
                   ELSE IF \A f \in Fds : byFd[f] # c THEN Idle
                   ELSE [st |-> "token", fd |-> f0, conn |-> c, gen |-> 0, meant |-> file[f0],
                         probe |-> TRUE]
<1>1. at' = [at EXCEPT ![t] = s] /\ UNCHANGED Tables /\ cleaned' = cleaned /\ c < next
      /\ at[t] = Idle
  BY DEF Probe, Tables
<1>2. gone => Unused(c)
  <2>1. conn[c].retired <=> ~Has(c)
    BY <1>0, <1>1 DEF Lifecycles
  <2>2. conn[c].gen = 0 <=> ~conn[c].retired
    BY <1>0 DEF Lifecycles
  <2>3. c \in byConn <=> ~(conn[c].retired /\ conn[c].inFlight = 0)
    BY <1>0, <1>1 DEF RegistryExact
  <2>4. QED
    BY <2>1, <2>2, <2>3 DEF Has, Unused
<1>3. (\E f \in Fds : byFd[f] = c) => f0 \in Fds /\ byFd[f0] = c
  BY Zenon
<1>4. cleaned \subseteq Conns /\ \A k \in cleaned : k < next /\ Unused(k)
  BY <1>0 DEF TypeOK, Registered, EndsUnused
<1>5. at[t].st = "idle" /\ 0 \in Int /\ c # None
  BY <1>1, StepKinds, ConnNotNone
<1>6. CASE gone
  <2>1. s = [st |-> "gone", conn |-> c]
    BY <1>6
  <2> HIDE DEF s, gone
  <2>2. Goes(t, s) /\ s.st = "gone" /\ s.conn = c
    BY <1>1, <2>1 DEF Goes, Steps
  <2>3. QED
    BY <1>1, <1>2, <1>4, <1>5, <1>6, <2>2, QuietStep
<1>7. CASE ~gone /\ \A f \in Fds : byFd[f] # c
  <2>1. s = Idle
    BY <1>7
  <2>2. Goes(t, Idle) /\ Idle.st = "idle"
    BY <1>1, <2>1, StepKinds DEF Goes
  <2> HIDE DEF s, gone
  <2>3. QED
    BY <1>1, <1>4, <1>5, <2>2, QuietStep
<1>8. CASE ~gone /\ \E f \in Fds : byFd[f] = c
  <2>1. s = [st |-> "token", fd |-> f0, conn |-> c, gen |-> 0, meant |-> file[f0],
                         probe |-> TRUE]
    BY <1>8
  <2>2. f0 \in Fds /\ byFd[f0] = c
    BY <1>3, <1>8
  <2> HIDE DEF f0
  <2>3. file[f0] \in Int
    BY <1>0, <2>2 DEF TypeOK
  <2>4. Goes(t, s) /\ s.st = "token" /\ s.conn = c /\ s.meant = file[f0]
    BY <1>1, <1>5, <2>1, <2>2, <2>3, StepKinds DEF Goes
  <2>5. \A f \in Fds : byFd[f] = c => file[f] = file[f0]
    BY <1>0, <1>5, <2>2 DEF FilesInv, OneFile
  <2> HIDE DEF s, gone
  <2>6. QED
    BY <1>1, <1>4, <1>5, <2>4, <2>5, QuietStep
<1>9. QED
  BY <1>6, <1>7, <1>8
-----------------------------------------------------------------------------
(***************************************************************************)
(* ioctls: the count of a connection is that of the threads inside.        *)
(***************************************************************************)
LEMMA InsideFinite ==
    ASSUME BinderAssumption, NEW c
    PROVE  IsFiniteSet(Inside(c)) /\ Cardinality(Inside(c)) \in Nat
<1>1. Inside(c) \subseteq Threads
  BY DEF Inside
<1>2. IsFiniteSet(Inside(c))
  BY <1>1, FS_Subset DEF BinderAssumption
<1>3. QED
  BY <1>2, FS_CardinalityType

\* The file of an ioctl that begins is the one its token was made for.
LEMMA BeginKeeps ==
    ASSUME BinderAssumption, IInv, NEW t \in Threads, Begin(t)
    PROVE  IInv'
<1>0. TypeOK /\ Registered /\ Lifecycles /\ RegistryExact /\ Counted /\ FilesInv
      /\ EndsUnused /\ CleanedInTime
  BY DEF IInv
<1>a. Conns \subseteq Nat /\ None \notin Conns /\ None \in Int
  BY ConnFacts
<1> DEFINE k == at[t]
           c == byFd[k.fd]
           pin == IF conn[c].pin # None THEN conn[c].pin ELSE file[k.fd]
<1>1. k \in Steps /\ k.st = "token" /\ k # Idle
  BY <1>0, StepKinds DEF Begin, TypeOK
<1>2. k.fd \in Fds /\ k.conn \in Conns /\ k.gen \in Int /\ k.meant \in Int /\ k.conn < next
      /\ k.probe \in BOOLEAN
  BY <1>0, <1>1, StepFacts DEF Registered
<1>3. CASE Stale(k) \/ conn[c].error \/ pin = None
  <2>1. Goes(t, Idle) /\ Idle.st = "idle" /\ UNCHANGED Tables /\ cleaned' = cleaned
    BY <1>3, StepKinds DEF Begin, Goes, Tables
  <2>2. cleaned \subseteq Conns /\ \A x \in cleaned : x < next /\ Unused(x)
    BY <1>0 DEF TypeOK, Registered, EndsUnused
  <2>3. QED
    BY <1>1, <2>1, <2>2, QuietStep
<1>4. CASE ~(Stale(k) \/ conn[c].error \/ pin = None)
  <2> DEFINE s == [st |-> "ioctl", conn |-> c, meant |-> k.meant, gen |-> k.gen,
                   fd |-> IF k.probe THEN None ELSE k.fd]
  <2>1. /\ conn' = [conn EXCEPT ![c].inFlight = @ + 1, ![c].pin = pin]
        /\ at' = [at EXCEPT ![t] = s]
        /\ UNCHANGED <<file, files, byFd, byConn, next, cleaned>>
    BY <1>4 DEF Begin
  <2>2. c = k.conn /\ c \in Conns /\ c < next /\ pin # None
    BY <1>2, <1>4 DEF Stale
  <2>3. pin = file[k.fd]
    <3>1. c # None
      BY <1>a, <2>2
    <3>2. QED
      BY <1>0, <1>2, <2>2, <3>1 DEF FilesInv, PinnedFile
  <2>4. k.meant # None => pin = k.meant
    BY <1>0, <1>1, <1>2, <2>2, <2>3 DEF FilesInv, TokenFile
  <2>5. pin \in Int
    BY <1>0, <1>2, <2>3 DEF TypeOK
  <2>6. PICK kc : kc = c
    OBVIOUS
  <2>7. PICK p : p = pin
    OBVIOUS
  <2>8. PICK s0 : s0 = s
    OBVIOUS
  <2>9. s0 \in Steps /\ s0.st = "ioctl" /\ s0.conn = kc /\ s0.meant = k.meant /\ s0 # Idle
    BY <1>2, <2>2, <2>6, <2>8 DEF Steps, Idle
  <2>10. /\ conn' = [conn EXCEPT ![kc].inFlight = @ + 1, ![kc].pin = p]
         /\ Goes(t, s0)
    BY <2>1, <2>6, <2>7, <2>8, <2>9 DEF Goes
  <2>11. kc \in Conns /\ kc < next /\ byFd[k.fd] = kc /\ k.conn = kc /\ kc # None
         /\ p \in Int /\ p # None /\ (k.meant # None => p = k.meant) /\ p = file[k.fd]
    BY <1>a, <2>2, <2>3, <2>4, <2>5, <2>6, <2>7
  <2>12. (conn[kc].pin # None => p = conn[kc].pin) /\ Has(kc)
    BY <1>2, <2>6, <2>7, <2>11 DEF Has
  <2> HIDE DEF c, pin, s
  <2>13. /\ at' \in [Threads -> Steps] /\ at'[t] = s0
         /\ \A u \in Threads : u # t => at'[u] = at[u]
         /\ \A u \in Threads : at[u] \in Steps
    BY <1>0, <2>10, GoesFacts
  <2>14. /\ \A x \in Conns : /\ conn'[x] \in Lives
                             /\ conn'[x].gen = conn[x].gen /\ conn'[x].retired = conn[x].retired
                             /\ x # kc => conn'[x] = conn[x]
         /\ conn'[kc].inFlight = conn[kc].inFlight + 1 /\ conn'[kc].pin = p
         /\ conn' \in [Conns -> Lives]
    <3>1. conn \in [Conns -> Lives]
      BY <1>0 DEF TypeOK
    <3>2. conn[kc] \in Lives /\ conn[kc].inFlight + 1 \in Int
      BY <1>0, <2>11, LifeFacts
    <3>3. PICK d : d = [conn[kc] EXCEPT !.inFlight = conn[kc].inFlight + 1, !.pin = p]
      OBVIOUS
    <3>4. /\ d \in Lives /\ d.gen = conn[kc].gen /\ d.retired = conn[kc].retired
          /\ d.inFlight = conn[kc].inFlight + 1 /\ d.pin = p
      <4>1. PICK i \in Int : i = conn[kc].inFlight + 1
        BY <3>2
      <4>2. PICK l \in Lives : l = conn[kc]
        BY <3>2
      <4>3. d = [l EXCEPT !.inFlight = i, !.pin = p]
        BY <3>3, <4>1, <4>2
      <4>4. QED
        BY <2>11, <4>1, <4>2, <4>3 DEF Lives
    <3>5. conn' = [conn EXCEPT ![kc] = d]
      BY <2>10, <2>11, <3>1, <3>3
    <3>6. QED
      BY <2>11, <3>1, <3>4, <3>5
  <2>15. conn[kc].inFlight \in Nat
    BY <1>0, <2>11, InsideFinite DEF Counted
  <2>16. TypeOK'
    BY <1>0, <2>1, <2>13, <2>14 DEF TypeOK
  <2>17. Registered'
    BY <1>0, <2>1, <2>9, <2>11, <2>13 DEF Registered
  <2>18. Lifecycles'
    <3>1. \A x : Has(x)' <=> Has(x)
      BY <2>1 DEF Has
    <3> SUFFICES ASSUME NEW x \in Conns
                 PROVE  /\ x < next => (conn'[x].retired <=> ~Has(x))
                        /\ conn'[x].gen = 0 <=> ~conn'[x].retired
                        /\ conn'[x].gen >= 0
                        /\ x >= next => conn'[x].inFlight = 0 /\ ~conn'[x].retired /\ conn'[x].pin = None
      BY <2>1, <3>1 DEF Lifecycles
    <3>2. conn'[x].gen = conn[x].gen /\ conn'[x].retired = conn[x].retired
      BY <2>14
    <3>3. x >= next => conn'[x] = conn[x]
      BY <1>0, <1>a, <2>11, <2>14 DEF TypeOK
    <3>4. QED
      BY <1>0, <3>2, <3>3 DEF Lifecycles
  <2>19. RegistryExact'
    <3>1. ~conn[kc].retired
      BY <1>0, <2>11, <2>12 DEF Lifecycles
    <3>2. QED
      BY <1>0, <2>1, <2>11, <2>14, <3>1 DEF RegistryExact
  <2>20. Counted'
    <3>1. Inside(kc)' = Inside(kc) \cup {t} /\ t \notin Inside(kc)
      BY <1>1, <2>9, <2>13 DEF Inside
    <3>2. \A x : x # kc => Inside(x)' = Inside(x)
      BY <1>1, <2>9, <2>13 DEF Inside
    <3>3. Cardinality(Inside(kc) \cup {t}) = Cardinality(Inside(kc)) + 1
      BY <3>1, InsideFinite, FS_AddElement
    <3>4. QED
      BY <1>0, <2>14, <3>1, <3>2, <3>3 DEF Counted
  <2>21. FilesInv'
    <3>1. OneFile'
      BY <1>0, <2>1 DEF FilesInv, OneFile
    <3>2. PinnedFile'
      <4> SUFFICES ASSUME NEW f \in Fds, byFd[f] # None, conn'[byFd[f]].pin # None
                   PROVE  file[f] = conn'[byFd[f]].pin
        BY <2>1 DEF PinnedFile
      <4>1. byFd[f] \in Conns
        BY <1>0 DEF TypeOK
      <4>2. CASE byFd[f] = kc
        BY <1>0, <1>2, <2>11, <2>14, <4>2 DEF FilesInv, OneFile
      <4>3. CASE byFd[f] # kc
        BY <1>0, <2>14, <4>1, <4>3 DEF FilesInv, PinnedFile
      <4>4. QED
        BY <4>2, <4>3
    <3>3. TokenFile'
      BY <1>0, <2>1, <2>9, <2>13 DEF FilesInv, TokenFile
    <3>4. RightFile'
      <4> SUFFICES ASSUME NEW u \in Threads, at'[u].st = "ioctl", at'[u].meant # None
                   PROVE  conn'[at'[u].conn].pin = at'[u].meant
        BY DEF RightFile
      <4>1. CASE u = t
        BY <2>9, <2>11, <2>13, <2>14, <4>1
      <4>2. CASE u # t
        <5>1. at'[u] = at[u] /\ at[u].conn \in Conns /\ conn[at[u].conn].pin = at[u].meant
          BY <1>0, <2>13, <4>2, StepFacts DEF FilesInv, RightFile
        <5>2. QED
          BY <2>12, <2>14, <5>1
      <4>3. QED
        BY <4>1, <4>2
    <3>5. QED
      BY <3>1, <3>2, <3>3, <3>4 DEF FilesInv
  <2>22. \A x \in Conns : Unused(x)' <=> Unused(x)
    <3>1. ~Unused(kc) /\ ~Unused(kc)'
      BY <2>1, <2>12 DEF Unused, Has
    <3>2. \A x \in Conns : x # kc => (Unused(x)' <=> Unused(x))
      BY <2>1, <2>14 DEF Unused
    <3>3. QED
      BY <3>1, <3>2
  <2>23. EndsUnused'
    <3>1. \A x \in cleaned' : Unused(x)'
      BY <1>0, <2>1, <2>22 DEF EndsUnused, TypeOK
    <3>2. ASSUME NEW u \in Threads, at'[u].st \in {"retire", "gone"}
          PROVE  Unused(at[u].conn)'
      <4>1. u # t /\ at'[u] = at[u] /\ at[u].conn \in Conns
        BY <2>9, <2>13, <3>2, StepFacts
      <4>a. at'[u].conn = at[u].conn
        BY <4>1
      <4>2. Unused(at[u].conn)
        BY <1>0, <3>2, <4>1 DEF EndsUnused
      <4>3. QED
        BY <2>22, <4>1, <4>2, <4>a DEF Unused
    <3>3. QED
      BY <3>1, <3>2 DEF EndsUnused
  <2>24. CleanedInTime'
    <3> SUFFICES ASSUME NEW x \in Conns, x < next, Unused(x), x \notin cleaned
                 PROVE  \E u \in Threads : at'[u].st \in {"forget", "retire"} /\ at'[u].conn = x
      BY <2>1, <2>22 DEF CleanedInTime
    <3>1. PICK u \in Threads : at[u].st \in {"forget", "retire"} /\ at[u].conn = x
      BY <1>0 DEF CleanedInTime
    <3>2. u # t
      BY <1>1, <3>1
    <3>3. QED
      BY <2>13, <3>1, <3>2
  <2>25. QED
    BY <2>16, <2>17, <2>18, <2>19, <2>20, <2>21, <2>23, <2>24 DEF IInv
<1>5. QED
  BY <1>3, <1>4

\* The last ioctl of a retired connection makes it unused, and goes on to
\* clean up.
LEMMA EndKeeps ==
    ASSUME BinderAssumption, IInv, NEW t \in Threads, End(t)
    PROVE  IInv'
<1>0. TypeOK /\ Registered /\ Lifecycles /\ RegistryExact /\ Counted /\ FilesInv
      /\ EndsUnused /\ CleanedInTime
  BY DEF IInv
<1>a. Conns \subseteq Nat /\ None \notin Conns /\ None \in Int
  BY ConnFacts
<1>1. PICK c : c = at[t].conn
  OBVIOUS
<1>2. at[t] \in Steps /\ at[t].st = "ioctl" /\ at[t] # Idle /\ c \in Conns /\ c < next
  BY <1>0, <1>1, StepFacts, StepKinds DEF End, TypeOK, Registered
<1>3. t \in Inside(c)
  BY <1>1, <1>2 DEF Inside
<1>4. /\ Cardinality(Inside(c) \ {t}) = Cardinality(Inside(c)) - 1
      /\ Cardinality(Inside(c) \ {t}) \in Nat /\ Cardinality(Inside(c)) \in Nat
  <2>1. IsFiniteSet(Inside(c)) /\ Cardinality(Inside(c)) \in Nat
    BY InsideFinite
  <2>2. IsFiniteSet(Inside(c) \ {t}) /\ Cardinality(Inside(c) \ {t}) = Cardinality(Inside(c)) - 1
    BY <1>3, <2>1, FS_RemoveElement
  <2>3. QED
    BY <2>1, <2>2, FS_CardinalityType
<1>5. conn[c].inFlight = Cardinality(Inside(c)) /\ conn[c].inFlight \in Nat /\ conn[c].inFlight >= 1
  BY <1>0, <1>2, <1>4 DEF Counted
<1>6. PICK s : s = IF LastOut(c) THEN [st |-> "retire", conn |-> c] ELSE Idle
  OBVIOUS
<1>7. /\ s \in Steps /\ (LastOut(c) => s.st = "retire" /\ s.conn = c)
      /\ (~LastOut(c) => s = Idle /\ s.st = "idle")
  <2>1. [st |-> "retire", conn |-> c] \in Steps
    BY <1>2, StepKinds DEF Steps
  <2>2. QED
    BY <1>6, <2>1, StepKinds
<1>8. PICK e \in BOOLEAN : conn' = [conn EXCEPT ![c].inFlight = @ - 1, ![c].error = e]
  <2>1. conn[c].error \in BOOLEAN
    BY <1>0, <1>2, LifeFacts
  <2>2. QED
    BY <1>1, <2>1 DEF End
<1>9. /\ byConn' = IF LastOut(c) THEN byConn \ {c} ELSE byConn
      /\ Goes(t, s)
      /\ UNCHANGED <<file, files, byFd, next, cleaned>>
  BY <1>1, <1>6, <1>7 DEF End, Goes
<1>10. /\ at' \in [Threads -> Steps] /\ at'[t] = s
       /\ \A u \in Threads : u # t => at'[u] = at[u]
       /\ \A u \in Threads : at[u] \in Steps
  BY <1>0, <1>9, GoesFacts
<1>11. /\ \A x \in Conns : /\ conn'[x] \in Lives
                           /\ conn'[x].gen = conn[x].gen /\ conn'[x].retired = conn[x].retired
                           /\ conn'[x].pin = conn[x].pin
                           /\ x # c => conn'[x] = conn[x]
       /\ conn'[c].inFlight = conn[c].inFlight - 1
       /\ conn' \in [Conns -> Lives]
  <2>1. conn \in [Conns -> Lives]
    BY <1>0 DEF TypeOK
  <2>2. PICK l \in Lives : l = conn[c]
    BY <1>2, <2>1
  <2>3. PICK i \in Int : i = conn[c].inFlight - 1
    BY <1>5
  <2>4. PICK d : d = [l EXCEPT !.inFlight = i, !.error = e]
    OBVIOUS
  <2>5. /\ d \in Lives /\ d.gen = l.gen /\ d.retired = l.retired
        /\ d.inFlight = i /\ d.pin = l.pin
    BY <2>2, <2>4 DEF Lives
  <2>6. conn' = [conn EXCEPT ![c] = d]
    BY <1>2, <1>8, <2>1, <2>2, <2>3, <2>4
  <2>7. QED
    BY <1>2, <2>1, <2>2, <2>3, <2>5, <2>6
<1>12. TypeOK'
  BY <1>0, <1>9, <1>10, <1>11 DEF TypeOK
<1>13. Registered'
  BY <1>0, <1>2, <1>7, <1>9, <1>10 DEF Registered
<1>14. \A x : Has(x)' <=> Has(x)
  BY <1>9 DEF Has
<1>15. Lifecycles'
  <2> SUFFICES ASSUME NEW x \in Conns
               PROVE  /\ x < next => (conn'[x].retired <=> ~Has(x))
                      /\ conn'[x].gen = 0 <=> ~conn'[x].retired
                      /\ conn'[x].gen >= 0
                      /\ x >= next => conn'[x].inFlight = 0 /\ ~conn'[x].retired /\ conn'[x].pin = None
    BY <1>9, <1>14 DEF Lifecycles
  <2>1. conn'[x].gen = conn[x].gen /\ conn'[x].retired = conn[x].retired
    BY <1>11
  <2>2. x >= next => conn'[x] = conn[x]
    BY <1>0, <1>2, <1>a, <1>11 DEF TypeOK
  <2>3. QED
    BY <1>0, <2>1, <2>2 DEF Lifecycles
<1>16. RegistryExact'
  <2>1. LastOut(c) <=> conn[c].retired /\ conn'[c].inFlight = 0
    BY <1>5, <1>11 DEF LastOut
  <2>2. c \in byConn
    BY <1>0, <1>2, <1>5 DEF RegistryExact
  <2>3. \A x \in Conns : x # c => (x \in byConn' <=> x \in byConn) /\ conn'[x] = conn[x]
    BY <1>9, <1>11
  <2>4. c \in byConn' <=> ~(conn'[c].retired /\ conn'[c].inFlight = 0)
    BY <1>2, <1>9, <1>11, <2>1, <2>2
  <2>5. byConn' \subseteq Conns /\ \A x \in byConn' : x < next
    BY <1>0, <1>9 DEF RegistryExact
  <2>6. QED
    BY <1>0, <1>2, <1>9, <2>3, <2>4, <2>5 DEF RegistryExact
<1>17. Counted'
  <2>1. Inside(c)' = Inside(c) \ {t}
    BY <1>7, <1>10 DEF Inside
  <2>2. \A x : x # c => Inside(x)' = Inside(x)
    BY <1>1, <1>7, <1>10 DEF Inside
  <2>3. QED
    BY <1>0, <1>4, <1>5, <1>11, <2>1, <2>2 DEF Counted
<1>18. FilesInv'
  <2>1. OneFile'
    BY <1>0, <1>9 DEF FilesInv, OneFile
  <2>2. PinnedFile'
    <3>1. \A f \in Fds : byFd[f] # None => byFd[f] \in Conns
      BY <1>0 DEF TypeOK
    <3>2. QED
      BY <1>0, <1>9, <1>11, <3>1 DEF FilesInv, PinnedFile
  <2>3. TokenFile'
    BY <1>0, <1>7, <1>9, <1>10 DEF FilesInv, TokenFile
  <2>4. RightFile'
    <3> SUFFICES ASSUME NEW u \in Threads, at'[u].st = "ioctl", at'[u].meant # None
                 PROVE  conn'[at'[u].conn].pin = at'[u].meant
      BY DEF RightFile
    <3>1. u # t
      BY <1>7, <1>10
    <3>2. at'[u] = at[u] /\ at[u].conn \in Conns
      BY <1>10, <3>1, StepFacts
    <3>3. QED
      BY <1>0, <1>11, <3>2 DEF FilesInv, RightFile
  <2>5. QED
    BY <2>1, <2>2, <2>3, <2>4 DEF FilesInv
<1>19. /\ ~Unused(c) /\ (Unused(c)' <=> LastOut(c))
       /\ \A x \in Conns : x # c => (Unused(x)' <=> Unused(x))
  <2>1. ~Unused(c)
    BY <1>5 DEF Unused
  <2>2. Unused(c)' <=> conn'[c].inFlight = 0 /\ ~Has(c)
    BY <1>9 DEF Unused, Has
  <2>3. Unused(c)' <=> LastOut(c)
    BY <1>0, <1>2, <1>5, <1>11, <2>2 DEF Lifecycles, LastOut
  <2>4. \A x \in Conns : x # c => (Unused(x)' <=> Unused(x))
    BY <1>9, <1>11 DEF Unused
  <2>5. QED
    BY <2>1, <2>3, <2>4
<1>20. EndsUnused'
  <2>1. \A x \in cleaned' : Unused(x)'
    BY <1>0, <1>9, <1>19 DEF EndsUnused, TypeOK
  <2>2. ASSUME NEW u \in Threads, at'[u].st \in {"retire", "gone"}
        PROVE  Unused(at[u].conn)'
    <3>1. CASE u = t
      <4>1. LastOut(c) /\ at'[u].conn = c
        BY <1>7, <1>10, <2>2, <3>1
      <4>2. QED
        BY <1>19, <4>1 DEF Unused
    <3>2. CASE u # t
      <4>1. at'[u] = at[u] /\ at[u].conn \in Conns
        BY <1>10, <2>2, <3>2, StepFacts
      <4>2. Unused(at[u].conn)
        BY <1>0, <2>2, <4>1 DEF EndsUnused
      <4>3. QED
        BY <1>19, <4>1, <4>2 DEF Unused
    <3>3. QED
      BY <3>1, <3>2
  <2>3. QED
    BY <2>1, <2>2 DEF EndsUnused
<1>21. CleanedInTime'
  <2> SUFFICES ASSUME NEW x \in Conns, x < next, Unused(x)', x \notin cleaned
               PROVE  \E u \in Threads : at'[u].st \in {"forget", "retire"} /\ at'[u].conn = x
    BY <1>9 DEF CleanedInTime
  <2>1. CASE x = c
    BY <1>7, <1>10, <1>19, <2>1
  <2>2. CASE x # c
    <3>1. PICK u \in Threads : at[u].st \in {"forget", "retire"} /\ at[u].conn = x
      BY <1>0, <1>19, <2>2 DEF CleanedInTime
    <3>2. u # t
      BY <1>2, <3>1
    <3>3. QED
      BY <1>10, <3>1, <3>2
  <2>3. QED
    BY <2>1, <2>2
<1>22. QED
  BY <1>12, <1>13, <1>15, <1>16, <1>17, <1>18, <1>20, <1>21 DEF IInv
-----------------------------------------------------------------------------
(***************************************************************************)
(* Steps that change the tables.                                           *)
(***************************************************************************)
LEMMA OpenKeeps ==
    ASSUME BinderAssumption, IInv, NEW fd \in Fds, Open(fd)
    PROVE  IInv'
<1>0. TypeOK /\ Registered /\ Lifecycles /\ RegistryExact /\ Counted /\ FilesInv
      /\ EndsUnused /\ CleanedInTime
  BY DEF IInv
<1>1. PICK v \in Int : v # None /\ file' = [file EXCEPT ![fd] = v]
  BY <1>0 DEF Open, TypeOK, Other, None
<1>2. file[fd] = None /\ files' \in Nat /\ UNCHANGED <<byFd, byConn, conn, next, at, cleaned>>
  BY <1>0, BinderAssumption DEF Open, TypeOK, BinderAssumption
<1>3. TypeOK'
  BY <1>0, <1>1, <1>2 DEF TypeOK
<1>4. Registered' /\ Lifecycles' /\ RegistryExact' /\ Counted' /\ EndsUnused' /\ CleanedInTime'
  BY <1>0, <1>2 DEF Registered, Lifecycles, Has, RegistryExact, Counted, Inside, EndsUnused,
                    CleanedInTime, Unused
<1>5. file' \in [Fds -> Int] /\ file'[fd] = v /\ \A f \in Fds : f # fd => file'[f] = file[f]
  BY <1>0, <1>1 DEF TypeOK
<1>6. OneFile'
  BY <1>0, <1>1, <1>2, <1>5 DEF FilesInv, OneFile
<1>7. PinnedFile'
  BY <1>0, <1>1, <1>2, <1>5 DEF FilesInv, PinnedFile
<1>8. TokenFile'
  BY <1>0, <1>1, <1>2, <1>5 DEF FilesInv, TokenFile
<1>9. RightFile'
  BY <1>0, <1>2 DEF FilesInv, RightFile
<1>10. QED
  BY <1>3, <1>4, <1>6, <1>7, <1>8, <1>9 DEF IInv, FilesInv

\* Descriptor x leaves its connection c, which is lost if that was its last
\* one; another descriptor joins a connection, a fresh one or one that has
\* the same file.
TableMove(x, c, lost, fresh) ==
    /\ c = byFd[x] /\ lost \in BOOLEAN /\ fresh \in BOOLEAN
    /\ lost <=> c # None /\ ~Has(c)'
    /\ file' \in [Fds -> Int] /\ byFd' \in [Fds -> Conns \cup {None}] /\ files' = files
    /\ \A f \in Fds : f # x /\ byFd[f] # None => byFd'[f] = byFd[f]
    /\ \A f \in Fds : byFd'[f] # None =>
         \/ fresh /\ byFd'[f] = next
         \/ \E g \in Fds : byFd[g] = byFd'[f] /\ file[g] = file'[f]
    /\ fresh => next \in Conns /\ \E f \in Fds : byFd'[f] = next
    /\ next' = IF fresh THEN next + 1 ELSE next

\* What it does to the lifecycles and to the registry.
LifeMove(c, lost, fresh) ==
    /\ conn' \in [Conns -> Lives]
    /\ \A y \in Conns : /\ conn'[y].inFlight = conn[y].inFlight
                        /\ conn'[y].pin = conn[y].pin
                        /\ ~(lost /\ y = c) => conn'[y] = conn[y]
    /\ lost => conn'[c].retired = TRUE /\ conn'[c].gen = conn[c].gen + 1
    /\ byConn' = (byConn \cup (IF fresh THEN {next} ELSE {}))
                 \ (IF lost /\ conn[c].inFlight = 0 THEN {c} ELSE {})

\* The step of the thread: it was idle, or it is inside an ioctl and stays there.
FromIdle(t, s, c, lost) ==
    /\ at[t] = Idle /\ s.st \in {"idle", "forget", "token"}
    /\ lost => s.st = "forget" /\ s.conn = c

StaysInside(t, s, c, lost) ==
    /\ at[t].st = "ioctl" /\ s.st = "ioctl"
    /\ s.conn = at[t].conn /\ s.meant = at[t].meant
    /\ lost => c = s.conn

ThreadMove(t, s, c, lost) ==
    /\ Goes(t, s) /\ cleaned' = cleaned
    /\ FromIdle(t, s, c, lost) \/ StaysInside(t, s, c, lost)
    /\ s # Idle => s.conn < next'
    /\ s.st = "token" /\ s.meant # None => \A f \in Fds : byFd'[f] = s.conn => file'[f] = s.meant

LEMMA MoveKeeps ==
    ASSUME BinderAssumption, IInv, NEW t \in Threads, NEW x \in Fds, NEW c, NEW s,
           NEW lost, NEW fresh,
           TableMove(x, c, lost, fresh), LifeMove(c, lost, fresh), ThreadMove(t, s, c, lost), OneFile'
    PROVE  IInv'
<1>0. TypeOK /\ Registered /\ Lifecycles /\ RegistryExact /\ Counted /\ FilesInv
      /\ EndsUnused /\ CleanedInTime
  BY DEF IInv
<1>a. Conns \subseteq Nat /\ None \notin Conns /\ None \in Int /\ None < next /\ next \in Nat
  BY <1>0, ConnFacts DEF TypeOK, None
<1>c. \A y \in Conns \cup {None} : y \in Int
  BY <1>a
<1>b. next' \in Nat /\ next' >= next /\ next' \in Nat \ {0}
  BY <1>0, <1>a DEF TableMove, TypeOK
<1>1. c \in Conns \cup {None} /\ c < next /\ (c # None => Has(c))
  BY <1>0 DEF TableMove, TypeOK, Registered, Has
<1>2. \A y \in Conns : y < next /\ Has(y)' => Has(y)
  BY <1>a, ConnNotNone DEF TableMove, Has
<1>3. \A y \in Conns : y # c /\ Has(y) => Has(y)'
  BY ConnNotNone DEF TableMove, Has
<1>4. \A y \in Conns : y < next => (Has(y)' <=> Has(y) /\ ~(lost /\ y = c))
  BY <1>1, <1>2, <1>3, ConnNotNone DEF TableMove
<1>5. /\ at' \in [Threads -> Steps] /\ at'[t] = s
      /\ \A u \in Threads : u # t => at'[u] = at[u]
      /\ \A u \in Threads : at[u] \in Steps
  BY <1>0, GoesFacts DEF ThreadMove
<1>6. /\ at[t].st \in {"idle", "ioctl"} /\ s.st \in {"idle", "forget", "token", "ioctl"}
      /\ at[t].st = "ioctl" <=> s.st = "ioctl"
      /\ s.st = "ioctl" => /\ s.conn = at[t].conn /\ s.meant = at[t].meant
                           /\ lost => c = s.conn
      /\ lost /\ s.st # "ioctl" => s.st = "forget" /\ s.conn = c
  BY StepKinds DEF ThreadMove, FromIdle, StaysInside
<1>7. TypeOK'
  BY <1>0, <1>b, <1>5 DEF TypeOK, TableMove, LifeMove, ThreadMove
<1>8. Registered'
  <2>1. \A f \in Fds : byFd'[f] < next'
    <3> SUFFICES ASSUME NEW f \in Fds PROVE byFd'[f] < next'
      OBVIOUS
    <3>1. CASE byFd'[f] = None
      BY <1>a, <1>b, <3>1
    <3>2. CASE fresh /\ byFd'[f] = next
      BY <1>a, <3>2 DEF TableMove
    <3>3. CASE \E g \in Fds : byFd[g] = byFd'[f]
      <4>0. PICK g \in Fds : byFd[g] = byFd'[f]
        BY <3>3
      <4>1. byFd[g] < next /\ byFd[g] \in Int
        BY <1>0, <1>c DEF Registered, TypeOK
      <4>2. QED
        BY <1>a, <1>b, <4>0, <4>1
    <3>4. QED
      BY <3>1, <3>2, <3>3 DEF TableMove
  <2>2. ASSUME NEW u \in Threads, at'[u] # Idle PROVE at'[u].conn < next'
    <3>1. CASE u = t
      BY <1>5, <2>2, <3>1 DEF ThreadMove
    <3>2. CASE u # t
      <4>1. at'[u] = at[u] /\ at[u].conn < next
        BY <1>0, <1>5, <2>2, <3>2 DEF Registered
      <4>a. at[u].conn \in Conns \cup {None}
        BY <1>5, <2>2, <4>1, StepFacts
      <4>2. at[u].conn \in Int
        BY <1>c, <4>a
      <4>3. QED
        BY <1>a, <1>b, <4>1, <4>2
    <3>3. QED
      BY <3>1, <3>2
  <2>3. ASSUME NEW y \in cleaned' PROVE y < next'
    <3>1. y \in cleaned /\ y \in Conns /\ y < next
      BY <1>0 DEF Registered, ThreadMove, TypeOK
    <3>2. y \in Int
      BY <1>c, <3>1
    <3>3. QED
      BY <1>a, <1>b, <3>1, <3>2
  <2>4. QED
    BY <2>1, <2>2, <2>3 DEF Registered
<1>9. fresh => ~conn[next].retired /\ conn[next].inFlight = 0 /\ conn[next].pin = None
               /\ conn[next].gen = 0 /\ next # c /\ next \in Conns
  BY <1>0, <1>1, <1>a DEF Lifecycles, TableMove
<1>10. Lifecycles'
  <2> SUFFICES ASSUME NEW y \in Conns
               PROVE  /\ y < next' => (conn'[y].retired <=> ~Has(y)')
                      /\ conn'[y].gen = 0 <=> ~conn'[y].retired
                      /\ conn'[y].gen >= 0
                      /\ y >= next' => conn'[y].inFlight = 0 /\ ~conn'[y].retired /\ conn'[y].pin = None
    BY DEF Lifecycles
  <2>1. CASE lost /\ y = c
    <3>1. conn'[y].retired /\ conn'[y].gen = conn[y].gen + 1 /\ ~Has(y)' /\ y < next
      BY <1>1, <2>1 DEF LifeMove, TableMove
    <3>2. conn[y].gen \in Int /\ conn[y].gen >= 0
      BY <1>0, LifeFacts DEF Lifecycles
    <3>3. QED
      BY <1>a, <1>b, <3>1, <3>2
  <2>2. CASE ~(lost /\ y = c)
    <3>1. conn'[y] = conn[y]
      BY <2>2 DEF LifeMove
    <3>2. CASE y < next
      BY <1>0, <1>4, <1>a, <1>b, <2>2, <3>1, <3>2 DEF Lifecycles
    <3>3. CASE y >= next /\ fresh /\ y = next
      BY <1>9, <1>a, <3>1, <3>3 DEF TableMove, Has
    <3>4. CASE y >= next /\ ~(fresh /\ y = next)
      <4>1. y >= next'
        BY <1>a, <3>4 DEF TableMove
      <4>2. QED
        BY <1>0, <1>a, <1>b, <3>1, <3>4, <4>1 DEF Lifecycles
    <3>5. QED
      BY <1>a, <3>2, <3>3, <3>4
  <2>3. QED
    BY <2>1, <2>2
<1>11. RegistryExact'
  <2>1. byConn' \subseteq Conns
    BY <1>0, <1>9 DEF LifeMove, RegistryExact
  <2> SUFFICES ASSUME NEW y \in Conns
               PROVE  y \in byConn' <=> y < next' /\ ~(conn'[y].retired /\ conn'[y].inFlight = 0)
    BY <2>1 DEF RegistryExact
  <2>2. y \in byConn <=> y < next /\ ~(conn[y].retired /\ conn[y].inFlight = 0)
    BY <1>0 DEF RegistryExact
  <2>3. CASE lost /\ y = c
    <3>1. conn'[y].retired /\ conn'[y].inFlight = conn[y].inFlight /\ y < next /\ y < next'
      BY <1>1, <1>a, <1>b, <2>3 DEF LifeMove
    <3>2. ~conn[y].retired
      BY <1>0, <1>1, <2>3, <3>1, ConnNotNone DEF Lifecycles
    <3>3. y \in byConn' <=> conn[y].inFlight # 0
      BY <1>9, <2>2, <2>3, <3>1, <3>2 DEF LifeMove
    <3>4. QED
      BY <3>1, <3>3
  <2>4. CASE ~(lost /\ y = c)
    <3>1. conn'[y] = conn[y]
      BY <2>4 DEF LifeMove
    <3>2. y \in byConn' <=> y \in byConn \/ (fresh /\ y = next)
      BY <2>4 DEF LifeMove
    <3>3. y < next' <=> y < next \/ (fresh /\ y = next)
      BY <1>a DEF TableMove
    <3>4. QED
      BY <1>9, <1>a, <2>2, <3>1, <3>2, <3>3
  <2>5. QED
    BY <2>3, <2>4
<1>12. Counted'
  <2>1. \A y : Inside(y)' = Inside(y)
    BY <1>5, <1>6 DEF Inside
  <2>2. QED
    BY <1>0, <2>1 DEF Counted, LifeMove
<1>13. PinnedFile'
  <2> SUFFICES ASSUME NEW f \in Fds, byFd'[f] # None, conn'[byFd'[f]].pin # None
               PROVE  file'[f] = conn'[byFd'[f]].pin
    BY DEF PinnedFile
  <2>1. byFd'[f] \in Conns
    BY DEF TableMove
  <2>2. conn'[byFd'[f]].pin = conn[byFd'[f]].pin
    BY <2>1 DEF LifeMove
  <2>3. ~(fresh /\ byFd'[f] = next)
    BY <1>9, <2>2
  <2>4. PICK g \in Fds : byFd[g] = byFd'[f] /\ file[g] = file'[f]
    BY <2>3 DEF TableMove
  <2>5. QED
    BY <1>0, <2>2, <2>4 DEF FilesInv, PinnedFile
<1>14. TokenFile'
  <2> SUFFICES ASSUME NEW u \in Threads, at'[u].st = "token", at'[u].meant # None,
                      NEW f \in Fds, byFd'[f] = at'[u].conn
               PROVE  file'[f] = at'[u].meant
    BY DEF TokenFile
  <2>1. CASE u = t
    BY <1>5, <2>1 DEF ThreadMove
  <2>2. CASE u # t
    <3>1. at'[u] = at[u] /\ at[u].conn \in Conns /\ at[u] # Idle
      BY <1>5, <2>2, StepFacts, StepKinds
    <3>2. at[u].conn < next
      BY <1>0, <3>1 DEF Registered
    <3>3. byFd'[f] # None /\ byFd'[f] # next
      BY <1>a, <3>1, <3>2, ConnNotNone
    <3>4. PICK g \in Fds : byFd[g] = byFd'[f] /\ file[g] = file'[f]
      BY <3>3 DEF TableMove
    <3>5. QED
      BY <1>0, <3>1, <3>4 DEF FilesInv, TokenFile
  <2>3. QED
    BY <2>1, <2>2
<1>15. RightFile'
  <2> SUFFICES ASSUME NEW u \in Threads, at'[u].st = "ioctl", at'[u].meant # None
               PROVE  conn'[at'[u].conn].pin = at'[u].meant
    BY DEF RightFile
  <2>1. at[u].st = "ioctl" /\ at'[u].conn = at[u].conn /\ at'[u].meant = at[u].meant
    BY <1>5, <1>6
  <2>2. at[u].conn \in Conns
    BY <1>5, <2>1, StepFacts
  <2>3. conn[at[u].conn].pin = at[u].meant
    BY <1>0, <2>1 DEF FilesInv, RightFile
  <2>4. QED
    BY <2>1, <2>2, <2>3 DEF LifeMove
<1>16. \A y \in Conns : y < next => (Unused(y)' <=> Unused(y) \/ (lost /\ y = c /\ conn[c].inFlight = 0))
  <2>1. \A y \in Conns : Unused(y)' <=> conn[y].inFlight = 0 /\ ~Has(y)'
    BY DEF Unused, Has, LifeMove
  <2>2. \A y \in Conns : Unused(y) <=> conn[y].inFlight = 0 /\ ~Has(y)
    BY DEF Unused, Has
  <2>3. QED
    BY <1>4, <2>1, <2>2
<1>17. EndsUnused'
  <2>1. \A y \in cleaned' : Unused(y)'
    BY <1>0, <1>16 DEF EndsUnused, TypeOK, Registered, ThreadMove
  <2>2. ASSUME NEW u \in Threads, at'[u].st \in {"retire", "gone"}
        PROVE  Unused(at[u].conn)'
    <3>1. u # t
      BY <1>5, <1>6, <2>2
    <3>2. at'[u] = at[u] /\ at[u].conn \in Conns /\ at[u] # Idle
      BY <1>5, <2>2, <3>1, StepFacts, StepKinds
    <3>3. at[u].conn < next /\ Unused(at[u].conn)
      BY <1>0, <2>2, <3>2 DEF EndsUnused, Registered
    <3>4. QED
      BY <1>16, <3>2, <3>3 DEF Unused
  <2>3. QED
    BY <2>1, <2>2 DEF EndsUnused
<1>18. CleanedInTime'
  <2> SUFFICES ASSUME NEW y \in Conns, y < next', Unused(y)', y \notin cleaned'
               PROVE  \E u \in Threads : at'[u].st \in {"forget", "retire"} /\ at'[u].conn = y
    BY DEF CleanedInTime
  <2>1. y < next
    <3>1. ~Has(y)'
      BY DEF Unused, Has
    <3>2. QED
      BY <1>a, <3>1 DEF TableMove, Has
  <2>2. CASE lost /\ y = c
    <3>1. s.st # "ioctl"
      <4> SUFFICES ASSUME s.st = "ioctl" PROVE FALSE
        OBVIOUS
      <4>1. t \in Inside(y)
        BY <1>6, <2>2 DEF Inside
      <4>2. conn[y].inFlight = 0 /\ conn[y].inFlight = Cardinality(Inside(y))
        BY <1>0 DEF Counted, LifeMove, Unused
      <4>3. QED
        BY <4>1, <4>2, InsideFinite, FS_EmptySet
    <3>2. QED
      BY <1>5, <1>6, <2>2, <3>1
  <2>3. CASE ~(lost /\ y = c)
    <3>1. Unused(y) /\ y \notin cleaned
      BY <1>16, <2>1, <2>3 DEF ThreadMove
    <3>2. PICK u \in Threads : at[u].st \in {"forget", "retire"} /\ at[u].conn = y
      BY <1>0, <2>1, <3>1 DEF CleanedInTime
    <3>3. u # t
      BY <1>6, <3>2
    <3>4. QED
      BY <1>5, <3>2, <3>3
  <2>4. QED
    BY <2>2, <2>3
<1>19. QED
  BY <1>7, <1>8, <1>10, <1>11, <1>12, <1>13, <1>14, <1>15, <1>17, <1>18 DEF IInv, FilesInv

LEMMA RetireFacts ==
    ASSUME TypeOK, NEW c \in Conns \cup {None}, NEW lost \in BOOLEAN, NEW fresh \in BOOLEAN,
           lost <=> c # None /\ ~Has(c)',
           Retire(c, byFd', IF fresh THEN byConn \cup {next} ELSE byConn)
    PROVE  LifeMove(c, lost, fresh)
<1>0. conn \in [Conns -> Lives]
  BY DEF TypeOK
<1>1. CASE ~lost
  <2>1. conn' = conn /\ byConn' = IF fresh THEN byConn \cup {next} ELSE byConn
    BY <1>1 DEF Retire, Has
  <2>2. QED
    BY <1>0, <1>1, <2>1 DEF LifeMove
<1>2. CASE lost
  <2>0. c \in Conns
    BY <1>2
  <2>1. /\ conn' = [conn EXCEPT ![c].retired = TRUE, ![c].gen = @ + 1]
        /\ byConn' = IF conn[c].inFlight = 0
                     THEN (IF fresh THEN byConn \cup {next} ELSE byConn) \ {c}
                     ELSE IF fresh THEN byConn \cup {next} ELSE byConn
    BY <1>2 DEF Retire, Has
  <2>2. PICK l \in Lives : l = conn[c]
    BY <1>0, <2>0
  <2>3. PICK i \in Int : i = l.gen + 1
    BY DEF Lives
  <2>4. PICK d : d = [l EXCEPT !.retired = TRUE, !.gen = i]
    OBVIOUS
  <2>5. d \in Lives /\ d.retired = TRUE /\ d.gen = i /\ d.inFlight = l.inFlight /\ d.pin = l.pin
    BY <2>4 DEF Lives
  <2>6. conn' = [conn EXCEPT ![c] = d]
    BY <1>0, <2>0, <2>1, <2>2, <2>3, <2>4
  <2>7. /\ conn' \in [Conns -> Lives] /\ conn'[c] = d
        /\ \A y \in Conns : y # c => conn'[y] = conn[y]
    BY <1>0, <2>0, <2>5, <2>6
  <2>8. byConn' = (byConn \cup (IF fresh THEN {next} ELSE {}))
                  \ (IF lost /\ conn[c].inFlight = 0 THEN {c} ELSE {})
    BY <1>2, <2>1
  <2>9. \A y \in Conns : /\ conn'[y].inFlight = conn[y].inFlight
                         /\ conn'[y].pin = conn[y].pin
                         /\ ~(lost /\ y = c) => conn'[y] = conn[y]
    BY <1>2, <2>0, <2>2, <2>5, <2>7
  <2>10. conn'[c].retired = TRUE
    BY <2>5, <2>7
  <2>11. conn'[c].gen = conn[c].gen + 1
    BY <2>2, <2>3, <2>5, <2>7
  <2>12. QED
    BY <2>7, <2>8, <2>9, <2>10, <2>11 DEF LifeMove
<1>3. QED
  BY <1>1, <1>2

\* What the thread that leaves connection c goes on with.
LEMMA ForgetFacts ==
    ASSUME IInv, NEW t \in Threads, NEW c \in Conns \cup {None}, NEW lost \in BOOLEAN,
           at[t] = Idle, cleaned' = cleaned, c < next, next' \in Nat, next' >= next,
           lost <=> c # None /\ ~Has(c)', Forget(t, c, byFd')
    PROVE  \E s : ThreadMove(t, s, c, lost)
<1>0. None = 0 /\ next \in Nat \ {0} /\ c \in Int
  BY DEF None, Conns, IInv, TypeOK
<1>1. PICK k : k = IF \E f \in Fds : byFd'[f] = c THEN None ELSE c
  OBVIOUS
<1>2. PICK s : s = [st |-> "forget", conn |-> k]
  OBVIOUS
<1>3. k \in Conns \cup {None} /\ k < next' /\ (lost => k = c)
  BY <1>0, <1>1 DEF Has
<1>4. s \in Steps /\ s.st = "forget" /\ s.conn = k
  BY <1>2, <1>3, StepKinds
<1>5. at' = [at EXCEPT ![t] = s]
  BY <1>1, <1>2 DEF Forget
<1>6. ThreadMove(t, s, c, lost)
  BY <1>3, <1>4, <1>5 DEF ThreadMove, FromIdle, Goes
<1>7. QED
  BY <1>6

LEMMA CloseKeeps ==
    ASSUME BinderAssumption, IInv, NEW t \in Threads, NEW fd \in Fds, Close(t, fd)
    PROVE  IInv'
<1>0. TypeOK /\ Registered /\ FilesInv
  BY DEF IInv
<1>1. PICK c : c = byFd[fd]
  OBVIOUS
<1>2. c \in Conns \cup {None} /\ c < next
  BY <1>0, <1>1 DEF TypeOK, Registered
<1>3. PICK lost \in BOOLEAN : lost <=> c # None /\ ~Has(c)'
  OBVIOUS
<1>4. /\ byFd' \in [Fds -> Conns \cup {None}] /\ byFd'[fd] = None
      /\ \A f \in Fds : f # fd => byFd'[f] = byFd[f]
      /\ file' \in [Fds -> Int]
      /\ \A f \in Fds : f # fd => file'[f] = file[f]
  BY <1>0, ConnFacts DEF Close, TypeOK
<1>5. TableMove(fd, c, lost, FALSE)
  BY <1>1, <1>3, <1>4 DEF TableMove, Close
<1>6. LifeMove(c, lost, FALSE)
  <2>1. Retire(c, byFd', IF FALSE THEN byConn \cup {next} ELSE byConn)
    BY <1>1 DEF Close
  <2>2. QED
    BY <1>0, <1>2, <1>3, <2>1, RetireFacts
<1>7. PICK s : ThreadMove(t, s, c, lost)
  <2>1. /\ at[t] = Idle /\ cleaned' = cleaned /\ Forget(t, c, byFd')
        /\ next' = next /\ next \in Nat /\ next >= next
    BY <1>0, <1>1 DEF Close, TypeOK
  <2>2. QED
    BY <1>2, <1>3, <2>1, ForgetFacts
<1>8. OneFile'
  BY <1>0, <1>4 DEF FilesInv, OneFile
<1>9. QED
  BY <1>5, <1>6, <1>7, <1>8, MoveKeeps

\* An ioctl that got EBADF takes its descriptor out of the registry, and is
\* itself what keeps the connection from being cleaned up too early.
LEMMA InvalidateKeeps ==
    ASSUME BinderAssumption, IInv, NEW t \in Threads, Invalidate(t)
    PROVE  IInv'
<1>0. TypeOK /\ Registered /\ FilesInv
  BY DEF IInv
<1>1. PICK k : k = at[t]
  OBVIOUS
<1>2. /\ k \in Steps /\ k.st = "ioctl" /\ k # Idle /\ k.fd \in Fds /\ k.conn \in Conns
      /\ k.conn < next
  <2>1. k \in Steps /\ k.st = "ioctl" /\ k.fd # None
    BY <1>0, <1>1 DEF Invalidate, TypeOK
  <2>2. k # Idle /\ k.fd \in Fds /\ k.conn \in Conns
    BY <2>1, StepFacts, StepKinds
  <2>3. QED
    BY <1>0, <1>1, <2>1, <2>2 DEF Registered
<1>3. PICK s : s = [k EXCEPT !.fd = None]
  OBVIOUS
<1>4. s \in Steps /\ s.st = "ioctl" /\ s.conn = k.conn /\ s.meant = k.meant
  BY <1>2, <1>3 DEF Steps, Idle
<1>5. Goes(t, s) /\ UNCHANGED <<file, files, next, cleaned>>
  BY <1>0, <1>1, <1>3, <1>4 DEF Invalidate, Goes, TypeOK
<1>6. PICK c : c = byFd[k.fd]
  OBVIOUS
<1>7. c \in Conns \cup {None} /\ c < next
  BY <1>0, <1>2, <1>6 DEF TypeOK, Registered
<1>8. PICK lost \in BOOLEAN : lost <=> c # None /\ ~Has(c)'
  OBVIOUS
<1>9. CASE c = k.conn /\ conn[k.conn].gen = k.gen
  <2>1. byFd' = [byFd EXCEPT ![k.fd] = None] /\ Retire(c, byFd', byConn)
    BY <1>1, <1>6, <1>9 DEF Invalidate
  <2>2. /\ byFd' \in [Fds -> Conns \cup {None}] /\ byFd'[k.fd] = None
        /\ \A f \in Fds : f # k.fd => byFd'[f] = byFd[f]
    BY <1>0, <1>2, <2>1 DEF TypeOK
  <2>3. TableMove(k.fd, c, lost, FALSE)
    BY <1>0, <1>5, <1>6, <1>8, <2>2 DEF TableMove, TypeOK
  <2>4. LifeMove(c, lost, FALSE)
    <3>1. Retire(c, byFd', IF FALSE THEN byConn \cup {next} ELSE byConn)
      BY <2>1
    <3>2. QED
      BY <1>0, <1>7, <1>8, <3>1, RetireFacts
  <2>5. ThreadMove(t, s, c, lost)
    BY <1>1, <1>2, <1>4, <1>5, <1>9 DEF ThreadMove, StaysInside
  <2>6. OneFile'
    BY <1>0, <1>5, <2>2 DEF FilesInv, OneFile
  <2>7. QED
    BY <1>2, <2>3, <2>4, <2>5, <2>6, MoveKeeps
<1>10. CASE ~(c = k.conn /\ conn[k.conn].gen = k.gen)
  <2>1. UNCHANGED <<byFd, byConn, conn>>
    BY <1>1, <1>6, <1>10 DEF Invalidate
  <2>2. ~lost
    BY <1>2, <1>6, <1>8, <2>1 DEF Has
  <2>3. TableMove(k.fd, c, lost, FALSE)
    BY <1>0, <1>5, <1>6, <1>8, <2>1 DEF TableMove, TypeOK
  <2>4. LifeMove(c, lost, FALSE)
    BY <1>0, <2>1, <2>2 DEF LifeMove, TypeOK
  <2>5. ThreadMove(t, s, c, lost)
    BY <1>1, <1>2, <1>4, <1>5, <2>2 DEF ThreadMove, StaysInside
  <2>6. OneFile'
    BY <1>0, <1>5, <2>1 DEF FilesInv, OneFile
  <2>7. QED
    BY <1>2, <2>3, <2>4, <2>5, <2>6, MoveKeeps
<1>11. QED
  BY <1>9, <1>10

LEMMA DupKeeps ==
    ASSUME BinderAssumption, IInv, NEW t \in Threads, NEW old \in Fds, NEW new \in Fds,
           Dup(t, old, new)
    PROVE  IInv'
<1>0. TypeOK /\ Registered /\ FilesInv
  BY DEF IInv
<1>1. PICK c : c = byFd[new]
  OBVIOUS
<1>2. c \in Conns \cup {None} /\ c < next /\ next \in Nat /\ None = 0
  BY <1>0, <1>1 DEF TypeOK, Registered, None
<1>3. PICK lost \in BOOLEAN : lost <=> c # None /\ ~Has(c)'
  OBVIOUS
<1>4. PICK fresh \in BOOLEAN : fresh <=> byFd[old] = None /\ file[old] # Other
  OBVIOUS
<1>5. PICK source : source = IF fresh THEN next ELSE byFd[old]
  OBVIOUS
<1>6. /\ fresh => next \in Conns
      /\ next' = IF fresh THEN next + 1 ELSE next
      /\ file' = [file EXCEPT ![new] = file[old]]
      /\ byFd' = [byFd EXCEPT ![old] = source, ![new] = source]
      /\ Retire(c, byFd', IF fresh THEN byConn \cup {next} ELSE byConn)
      /\ Forget(t, c, byFd')
      /\ at[t] = Idle /\ old # new /\ file[old] # None /\ UNCHANGED <<files, cleaned>>
  BY <1>1, <1>4, <1>5 DEF Dup
<1>7. source \in Conns \cup {None}
  BY <1>0, <1>5, <1>6 DEF TypeOK
<1>8. /\ byFd' \in [Fds -> Conns \cup {None}] /\ byFd'[old] = source /\ byFd'[new] = source
      /\ \A f \in Fds : f \notin {old, new} => byFd'[f] = byFd[f]
      /\ file' \in [Fds -> Int] /\ file'[new] = file[old]
      /\ \A f \in Fds : f # new => file'[f] = file[f]
  BY <1>0, <1>6, <1>7 DEF TypeOK
<1>9. \A f \in Fds : f # new /\ byFd[f] # None => byFd'[f] = byFd[f]
  BY <1>4, <1>5, <1>8
<1>10. \A f \in Fds : byFd'[f] # None =>
         \/ fresh /\ byFd'[f] = next
         \/ \E g \in Fds : byFd[g] = byFd'[f] /\ file[g] = file'[f]
  <2> SUFFICES ASSUME NEW f \in Fds, byFd'[f] # None, ~(fresh /\ byFd'[f] = next)
               PROVE  \E g \in Fds : byFd[g] = byFd'[f] /\ file[g] = file'[f]
    OBVIOUS
  <2>1. CASE f \notin {old, new}
    BY <1>8, <2>1
  <2>2. CASE f \in {old, new}
    BY <1>5, <1>6, <1>8, <2>2
  <2>3. QED
    BY <2>1, <2>2
<1>11. TableMove(new, c, lost, fresh)
  BY <1>1, <1>3, <1>5, <1>6, <1>8, <1>9, <1>10 DEF TableMove
<1>12. LifeMove(c, lost, fresh)
  BY <1>0, <1>2, <1>3, <1>6, RetireFacts
<1>13. PICK s : ThreadMove(t, s, c, lost)
  <2>1. next' \in Nat /\ next' >= next /\ cleaned' = cleaned
    BY <1>2, <1>6
  <2>2. QED
    BY <1>2, <1>3, <1>6, <2>1, ForgetFacts
<1>14. OneFile'
  <2> SUFFICES ASSUME NEW f \in Fds, NEW g \in Fds, byFd'[f] = byFd'[g], byFd'[f] # None
               PROVE  file'[f] = file'[g] /\ (file'[f] = None => f = g)
    BY DEF OneFile
  <2>1. CASE byFd'[f] # source
    BY <1>0, <1>8, <2>1 DEF FilesInv, OneFile
  <2>2. CASE byFd'[f] = source
    <3>1. ASSUME NEW h \in Fds, byFd'[h] = source PROVE file'[h] = file[old]
      <4>1. CASE h \in {old, new}
        BY <1>6, <1>8, <4>1
      <4>2. CASE h \notin {old, new}
        <5>1. byFd[h] = source /\ file'[h] = file[h]
          BY <1>8, <3>1, <4>2
        <5>2. ~fresh
          BY <1>0, <1>2, <1>5, <5>1 DEF Registered
        <5>3. QED
          BY <1>0, <1>5, <2>2, <5>1, <5>2 DEF FilesInv, OneFile
      <4>3. QED
        BY <4>1, <4>2
    <3>2. QED
      BY <1>6, <2>2, <3>1
  <2>3. QED
    BY <2>1, <2>2
<1>15. QED
  BY <1>11, <1>12, <1>13, <1>14, MoveKeeps

LEMMA SynchronizeKeeps ==
    ASSUME BinderAssumption, IInv, NEW t \in Threads, NEW fd \in Fds, Synchronize(t, fd)
    PROVE  IInv'
<1>0. TypeOK /\ Registered /\ Lifecycles /\ RegistryExact /\ FilesInv /\ EndsUnused
  BY DEF IInv
<1>1. PICK c : c = Ensured(fd)
  OBVIOUS
<1>2. PICK k : k = [st |-> "token", fd |-> fd, conn |-> c, gen |-> conn[c].gen, meant |-> file[fd],
                 probe |-> FALSE]
  OBVIOUS
<1>3. /\ at[t] = Idle /\ c \in Conns
      /\ next' = IF byFd[fd] = None THEN next + 1 ELSE next
      /\ byFd' = [byFd EXCEPT ![fd] = c]
      /\ byConn' = byConn \cup {c}
      /\ at' = at \/ at' = [at EXCEPT ![t] = k]
      /\ UNCHANGED <<file, files, conn, cleaned>>
  BY <1>1, <1>2 DEF Synchronize
<1>4. /\ k \in Steps /\ k.st = "token" /\ k.conn = c /\ k.meant = file[fd]
      /\ Idle \in Steps /\ Idle.st = "idle"
  <2>1. file[fd] \in Int /\ conn[c].gen \in Int
    BY <1>0, <1>3, LifeFacts DEF TypeOK
  <2>2. QED
    BY <1>2, <1>3, <2>1, StepKinds
<1>5. PICK s : s \in {Idle, k} /\ Goes(t, s)
  <2>1. CASE at' = at
    <3>1. at' = [at EXCEPT ![t] = Idle]
      BY <1>0, <1>3, <2>1 DEF TypeOK
    <3>2. QED
      BY <1>4, <3>1 DEF Goes
  <2>2. CASE at' = [at EXCEPT ![t] = k]
    BY <1>4, <2>2 DEF Goes
  <2>3. QED
    BY <1>3, <2>1, <2>2
<1>6. CASE byFd[fd] # None
  <2>1. c = byFd[fd] /\ c < next /\ Has(c)
    BY <1>0, <1>1, <1>6 DEF Ensured, Registered, Has
  <2>2. c \in byConn
    BY <1>0, <1>3, <2>1 DEF Lifecycles, RegistryExact
  <2>3. UNCHANGED Tables
    BY <1>0, <1>3, <1>6, <2>1, <2>2 DEF Tables, TypeOK
  <2>4. k.meant # None => \A f \in Fds : byFd[f] = c => file[f] = k.meant
    BY <1>0, <1>4, <1>6, <2>1 DEF FilesInv, OneFile
  <2>5. cleaned' = cleaned /\ cleaned \subseteq Conns /\ \A y \in cleaned : y < next /\ Unused(y)
    BY <1>0, <1>3 DEF TypeOK, Registered, EndsUnused
  <2>6. QED
    BY <1>3, <1>4, <1>5, <2>1, <2>3, <2>4, <2>5, QuietStep
<1>7. CASE byFd[fd] = None
  <2>1. c = next /\ next \in Nat /\ next' = next + 1
    BY <1>0, <1>1, <1>3, <1>7 DEF Ensured, TypeOK
  <2>2. /\ byFd' \in [Fds -> Conns \cup {None}] /\ byFd'[fd] = next
        /\ \A f \in Fds : f # fd => byFd'[f] = byFd[f]
        /\ file' = file /\ file \in [Fds -> Int]
    BY <1>0, <1>3, <2>1 DEF TypeOK
  <2>3. \A f \in Fds : byFd[f] # next
    BY <1>0, <2>1 DEF Registered
  <2>4. TableMove(fd, None, FALSE, TRUE)
    BY <1>3, <1>7, <2>1, <2>2 DEF TableMove
  <2>5. LifeMove(None, FALSE, TRUE)
    BY <1>0, <1>3, <2>1 DEF LifeMove, TypeOK
  <2>6. ThreadMove(t, s, None, FALSE)
    <3>1. \A f \in Fds : byFd'[f] = c => file'[f] = file[fd]
      BY <2>1, <2>2, <2>3
    <3>2. s.st \in {"idle", "token"} /\ (s # Idle => s = k)
      BY <1>4, <1>5
    <3>3. FromIdle(t, s, None, FALSE)
      BY <1>3, <3>2 DEF FromIdle
    <3>4. s # Idle => s.conn < next'
      BY <1>4, <2>1, <3>2
    <3>5. s.st = "token" => s.conn = c /\ s.meant = file[fd]
      BY <1>4, <3>2
    <3>6. QED
      BY <1>3, <1>5, <3>1, <3>3, <3>4, <3>5 DEF ThreadMove
  <2>7. OneFile'
    BY <1>0, <2>2, <2>3 DEF FilesInv, OneFile
  <2>8. QED
    BY <2>4, <2>5, <2>6, <2>7, MoveKeeps
<1>8. QED
  BY <1>6, <1>7
-----------------------------------------------------------------------------
(***************************************************************************)
(* The results.                                                            *)
(***************************************************************************)
LEMMA NextInv == BinderAssumption /\ IInv /\ [Next]_vars => IInv'
<1> SUFFICES ASSUME BinderAssumption, IInv, [Next]_vars PROVE IInv'
  OBVIOUS
<1>1. CASE UNCHANGED vars
  BY <1>1, Stutter
<1>2. CASE Next
  BY <1>2, OpenKeeps, CloseKeeps, SynchronizeKeeps, DupKeeps, FinishForgetKeeps, BeginKeeps,
     InvalidateKeeps, EndKeeps, FinishEndKeeps, FinishProbeKeeps, ProbeKeeps DEF Next
<1>3. QED
  BY <1>1, <1>2

\* For any descriptors, any finite set of threads and any number of files and
\* connections: what the hook keeps for a connection goes exactly when its
\* last descriptor is closed and its last ioctl has returned, a probe gives up
\* only then, and an ioctl works on the file that its descriptor named when it
\* was called.
THEOREM ConnectionsAreSound ==
    BinderAssumption => (Spec => []ConnectionsSound)
<1>1. IInv => ConnectionsSound
  <2>1. IInv => RightFile
    BY DEF IInv, FilesInv
  <2>2. ASSUME IInv PROVE CleanedWhenUnused
    BY <2>2 DEF IInv, EndsUnused, CleanedInTime, CleanedWhenUnused
  <2>3. QED
    BY <2>1, <2>2 DEF ConnectionsSound
<1>2. SUFFICES ASSUME BinderAssumption PROVE Spec => []ConnectionsSound
  OBVIOUS
<1>3. Init => IInv
  BY <1>2, InitInv
<1>4. IInv /\ [Next]_vars => IInv'
  BY <1>2, NextInv
<1>5. QED
  BY <1>1, <1>3, <1>4, PTL DEF Spec
-----------------------------------------------------------------------------
(***************************************************************************)
(* Operations that the injector makes up.  The inductive invariant says    *)
(* which generation an address stands for, and of each generation what the *)
(* place of its reply, the driver's node, the client's reference and the   *)
(* probe say about each other and about the maps.                          *)
(***************************************************************************)
IsPubRec(p) ==
    p = [gen |-> p.gen, pending |-> p.pending, owned |-> p.owned, conn |-> p.conn,
      binder |-> p.binder]

ObjectTypes ==
    /\ target \in [Gens -> Targets \cup {Objects!None}]
    /\ synthetic \in [Targets -> Gens \cup {Objects!None}]
       /\ binders \in [Targets -> Gens \cup {Objects!None}]
    /\ DOMAIN pubs = Targets /\ pubs = [t \in Targets |-> pubs[t]]
    /\ \A t \in Targets : pubs[t] = Objects!NoPub \/ IsPubRec(pubs[t])
    /\ DOMAIN reply = Gens /\ reply = [g \in Gens |-> reply[g]]
    /\ DOMAIN node = Gens /\ node = [g \in Gens |-> node[g]]
    /\ DOMAIN probe = Gens /\ probe = [g \in Gens |-> probe[g]]
    /\ client \in [Gens -> BOOLEAN]

\* At an address there is one living generation; the maps have no other, and
\* the publication is that of the generation with the initial reference.
OneLives ==
    \A g, h \in Gens : Objects!Born(g) /\ target[g] = target[h] /\ g \notin dead
    /\ h \notin dead => g = h

EndedWereBorn == \A g \in Gens : g \in dead \cup disarmed => Objects!Born(g)

MapsAlive ==
    \A t \in Targets :
        /\ binders[t] # Objects!None => target[binders[t]] = t /\ binders[t] \notin dead
        /\ synthetic[t] # Objects!None =>
             target[synthetic[t]] = t /\ synthetic[t] \notin dead \cup disarmed
        /\ pubs[t].gen = binders[t]

Own(g)    == Objects!Born(g) /\ binders[target[g]] = g
Routed(g) == Objects!Born(g) /\ synthetic[target[g]] = g
Pub(g)    == pubs[target[g]]

\* The driver has no node before a reply was sent.
ReplyOK(g) ==
    /\ reply[g] # "none" => Objects!Born(g)
    /\ reply[g] = "built" => Own(g) /\ Routed(g) /\ ~Pub(g).conn
    /\ reply[g] = "installed" /\ ~closed => Own(g) /\ Routed(g) /\ Pub(g).conn
    /\ reply[g] \in {"none", "built", "installed", "lost", "failed", "dropped", "refused"} =>
         node[g] = "none"

\* An acquire that libbinder did not take over keeps the initial reference.
NodeOK(g) ==
    /\ client[g] => node[g] \in {"queued", "delivered", "observed", "held"} /\ Routed(g) /\ ~closed
    /\ node[g] \in {"queued", "delivered", "observed"} => Own(g) /\ Pub(g).conn
    /\ node[g] = "observed" => Pub(g).pending
    /\ node[g] \in {"queued", "delivered"} => ~closed

\* What a publication says has happened.
PubOK(g) ==
    /\ Own(g) /\ Pub(g).owned => node[g] \in {"held", "gone", "leaked"}
    /\ Own(g) /\ Pub(g).binder => reply[g] \in {"completed", "failed", "done"}

\* A probe is of a reply that was consumed, and a node never comes back.
ProbeOK(g) ==
    /\ probe[g] # "no" => reply[g] \in {"completed", "failed", "done"}
    /\ probe[g] = "absent" => node[g] \in {"none", "gone"}

GenOK(g) == ReplyOK(g) /\ NodeOK(g) /\ PubOK(g) /\ ProbeOK(g)

ObjectInv ==
    ObjectTypes /\ OneLives /\ EndedWereBorn /\ MapsAlive /\ \A g \in Gens : GenOK(g)
-----------------------------------------------------------------------------
LEMMA NoPubGen == Objects!NoPub.gen = Objects!None /\ ~IsPubRec(Objects!NoPub)
<1>1. Objects!NoPub.gen = Objects!None
  BY DEF Objects!NoPub
<1>2. DOMAIN Objects!NoPub = {"gen"}
  BY DEF Objects!NoPub
<1>3. ASSUME IsPubRec(Objects!NoPub) PROVE FALSE
  <2>1. "owned" \in DOMAIN Objects!NoPub
    BY <1>3 DEF IsPubRec
  <2>2. QED
    BY <1>2, <2>1
<1>4. QED
  BY <1>1, <1>3

\* Who has a place somewhere has an address, and a reference its publication.
LEMMA BornFacts ==
    ASSUME Objects!ObjectsAssumption, ObjectInv, NEW g \in Gens
    PROVE  /\ reply[g] # "none" \/ node[g] # "none" \/ client[g]
              \/ probe[g] # "no" => Objects!Born(g)
           /\ Objects!Born(g) => target[g] \in Targets
           /\ Own(g) <=> Objects!IsPub(g)
           /\ Own(g) => IsPubRec(Pub(g)) /\ Pub(g).gen = g /\ Pub(g) # Objects!NoPub
<1>1. GenOK(g) /\ MapsAlive /\ ObjectTypes
  BY DEF ObjectInv
<1>2. reply[g] # "none" \/ node[g] # "none" \/ client[g] \/ probe[g] # "no" => Objects!Born(g)
  BY <1>1 DEF GenOK, ReplyOK, NodeOK, ProbeOK
<1>3. Objects!Born(g) => target[g] \in Targets
  BY <1>1 DEF ObjectTypes, Objects!Born
<1>4. Own(g) <=> Objects!IsPub(g)
  BY <1>1, <1>3 DEF MapsAlive, Own, Objects!IsPub
<1>5. ASSUME Own(g) PROVE IsPubRec(Pub(g)) /\ Pub(g).gen = g /\ Pub(g) # Objects!NoPub
  <2>1. target[g] \in Targets /\ Pub(g).gen = g
    BY <1>1, <1>3, <1>5 DEF MapsAlive, Own, Pub
  <2>2. Pub(g) # Objects!NoPub
    BY <2>1, NoPubGen DEF Objects!ObjectsAssumption
  <2>3. QED
    BY <1>1, <2>1, <2>2 DEF ObjectTypes, Pub
<1>6. QED
  BY <1>2, <1>3, <1>4, <1>5

\* A generation that nothing happens to.
LEMMA Bystander ==
    ASSUME NEW h \in Gens, GenOK(h), closed' = closed, target'[h] = target[h],
           reply'[h] = reply[h], node'[h] = node[h], client'[h] = client[h], probe'[h] = probe[h],
           Own(h)' <=> Own(h), Routed(h)' <=> Routed(h),
           Own(h) => pubs'[target[h]] = pubs[target[h]]
    PROVE  GenOK(h)'
<1>1. (Objects!Born(h)' <=> Objects!Born(h)) /\ (Own(h) => Pub(h)' = Pub(h))
  BY DEF Objects!Born, Pub
<1>2. ReplyOK(h)'
  BY <1>1 DEF GenOK, ReplyOK
<1>3. NodeOK(h)'
  BY <1>1 DEF GenOK, NodeOK
<1>4. PubOK(h)'
  BY <1>1 DEF GenOK, PubOK
<1>5. ProbeOK(h)'
  BY DEF GenOK, ProbeOK
<1>6. QED
  BY <1>2, <1>3, <1>4, <1>5 DEF GenOK

(***************************************************************************)
(* A step of generation g at address t: other addresses and generations    *)
(* stay as they are, and of the maps only what is g's changes.             *)
(***************************************************************************)
Quiet(g) ==
    \A h \in Gens \ {g} :
        /\ reply'[h] = reply[h] /\ node'[h] = node[h]
        /\ client'[h] = client[h] /\ probe'[h] = probe[h]

MapStep(g, t) ==
    /\ \A x \in Targets \ {t} :
         binders'[x] = binders[x] /\ synthetic'[x] = synthetic[x] /\ pubs'[x] = pubs[x]
    /\ binders'[t] = binders[t] \/ {binders[t], binders'[t]} \subseteq {g, Objects!None}
    /\ synthetic'[t] = synthetic[t] \/ {synthetic[t], synthetic'[t]} \subseteq {g, Objects!None}
    /\ pubs'[t] = pubs[t] \/ pubs[t].gen \in {g, Objects!None}
    /\ pubs'[t].gen = binders'[t]

EndStep(g, t) ==
    /\ dead \subseteq dead' /\ dead' \subseteq dead \cup {g}
       /\ disarmed' \subseteq disarmed \cup {g}
    /\ g \in dead' => binders'[t] # g
    /\ g \in dead' \cup disarmed' => synthetic'[t] # g

AddressStep(g, t) ==
    /\ target' = [target EXCEPT ![g] = t]
    /\ target[g] = t \/ (target[g] = Objects!None /\ \A h \in Gens : target[h] = t => h \in dead)

LEMMA StepKeeps ==
    ASSUME Objects!ObjectsAssumption, ObjectInv, NEW g \in Gens, NEW t \in Targets,
           Quiet(g), MapStep(g, t), EndStep(g, t), AddressStep(g, t),
           closed' = closed, ObjectTypes', GenOK(g)'
    PROVE  ObjectInv'
<1>0. ObjectTypes /\ OneLives /\ MapsAlive /\ Objects!None \notin Gens
      /\ Objects!None \notin Targets
  BY DEF ObjectInv, Objects!ObjectsAssumption
<1>1. target'[g] = t /\ \A h \in Gens \ {g} : target'[h] = target[h]
  BY <1>0 DEF AddressStep, ObjectTypes
<1>2. \A x \in Targets : binders[x] \in Gens \cup {Objects!None}
      /\ synthetic[x] \in Gens \cup {Objects!None}
  BY <1>0 DEF ObjectTypes
<1>3. \A x \in Targets \ {t} : binders[x] # g /\ synthetic[x] # g
  BY <1>0 DEF MapsAlive, AddressStep
<1>4. OneLives'
  <2> SUFFICES ASSUME NEW h \in Gens, NEW k \in Gens, Objects!Born(h)', target'[h] = target'[k],
                      h \notin dead', k \notin dead'
               PROVE  h = k
    BY DEF OneLives
  <2>1. h \notin dead /\ k \notin dead
    BY DEF EndStep
  <2>2. CASE h # g /\ k # g
    BY <1>0, <1>1, <2>1, <2>2 DEF OneLives, Objects!Born
  <2>3. CASE h = g /\ k # g
    <3>1. target[k] = t
      BY <1>1, <2>3
    <3>2. target[g] = t
      BY <2>1, <3>1 DEF AddressStep
    <3>3. QED
      BY <1>0, <2>1, <2>3, <3>1, <3>2 DEF OneLives, Objects!Born
  <2>4. CASE k = g /\ h # g
    <3>1. target[h] = t
      BY <1>1, <2>4
    <3>2. target[g] = t
      BY <2>1, <3>1 DEF AddressStep
    <3>3. QED
      BY <1>0, <2>1, <2>4, <3>1, <3>2 DEF OneLives, Objects!Born
  <2>5. QED
    BY <2>2, <2>3, <2>4
<1>5. MapsAlive'
  <2> SUFFICES ASSUME NEW x \in Targets
               PROVE  /\ binders'[x] # Objects!None => target'[binders'[x]] = x
                         /\ binders'[x] \notin dead'
                      /\ synthetic'[x] # Objects!None =>
                           target'[synthetic'[x]] = x /\ synthetic'[x] \notin dead' \cup disarmed'
                      /\ pubs'[x].gen = binders'[x]
    BY DEF MapsAlive
  <2>1. CASE x # t
    <3>1. binders'[x] = binders[x] /\ synthetic'[x] = synthetic[x] /\ pubs'[x] = pubs[x]
      BY <2>1 DEF MapStep
    <3>2. binders[x] # g /\ synthetic[x] # g
      BY <1>3, <2>1
    <3>3. QED
      BY <1>0, <1>1, <1>2, <3>1, <3>2 DEF MapsAlive, EndStep
  <2>2. CASE x = t
    <3>1. pubs'[t].gen = binders'[t]
      BY DEF MapStep
    <3>2. ASSUME binders'[t] # Objects!None
          PROVE  target'[binders'[t]] = t /\ binders'[t] \notin dead'
      <4>1. CASE binders'[t] = g
        BY <1>1, <4>1 DEF EndStep
      <4>2. CASE binders'[t] # g
        <5>1. binders'[t] = binders[t] /\ binders[t] \in Gens \ {g}
          BY <1>2, <3>2, <4>2 DEF MapStep
        <5>2. QED
          BY <1>0, <1>1, <3>2, <5>1 DEF MapsAlive, EndStep
      <4>3. QED
        BY <4>1, <4>2
    <3>3. ASSUME synthetic'[t] # Objects!None
          PROVE  target'[synthetic'[t]] = t /\ synthetic'[t] \notin dead' \cup disarmed'
      <4>1. CASE synthetic'[t] = g
        BY <1>1, <4>1 DEF EndStep
      <4>2. CASE synthetic'[t] # g
        <5>1. synthetic'[t] = synthetic[t] /\ synthetic[t] \in Gens \ {g}
          BY <1>2, <3>3, <4>2 DEF MapStep
        <5>2. QED
          BY <1>0, <1>1, <3>3, <5>1 DEF MapsAlive, EndStep
      <4>3. QED
        BY <4>1, <4>2
    <3>4. QED
      BY <2>2, <3>1, <3>2, <3>3
  <2>3. QED
    BY <2>1, <2>2
<1>6. ASSUME NEW h \in Gens PROVE GenOK(h)'
  <2>1. CASE h = g
    BY <2>1
  <2>2. CASE h # g
    <3>1. target'[h] = target[h] /\ (Objects!Born(h) => target[h] \in Targets) /\ GenOK(h)
      BY <1>0, <1>1, <2>2 DEF ObjectTypes, Objects!Born, ObjectInv
    <3>2. Own(h)' <=> Own(h)
      <4>1. CASE target[h] = t
        BY <1>0, <2>2, <3>1, <4>1 DEF Own, Objects!Born, MapStep
      <4>2. CASE target[h] # t
        BY <3>1, <4>2 DEF Own, Objects!Born, MapStep
      <4>3. QED
        BY <4>1, <4>2
    <3>3. Routed(h)' <=> Routed(h)
      <4>1. CASE target[h] = t
        BY <1>0, <2>2, <3>1, <4>1 DEF Routed, Objects!Born, MapStep
      <4>2. CASE target[h] # t
        BY <3>1, <4>2 DEF Routed, Objects!Born, MapStep
      <4>3. QED
        BY <4>1, <4>2
    <3>4. ASSUME Own(h) PROVE pubs'[target[h]] = pubs[target[h]]
      <4>1. pubs[target[h]].gen = h /\ target[h] \in Targets
        BY <1>0, <3>1, <3>4 DEF Own, MapsAlive
      <4>2. QED
        BY <1>0, <2>2, <4>1 DEF MapStep
    <3>5. QED
      BY <2>2, <3>1, <3>2, <3>3, <3>4, Bystander DEF Quiet
  <2>3. QED
    BY <2>1, <2>2
<1>7. EndedWereBorn'
  BY <1>0, <1>1 DEF ObjectInv, EndedWereBorn, Objects!Born, EndStep
<1>8. QED
  BY <1>4, <1>5, <1>6, <1>7 DEF ObjectInv
-----------------------------------------------------------------------------
(***************************************************************************)
(* The actions.                                                            *)
(***************************************************************************)
\* A step that leaves maps and address alone.
LEMMA QuietKeeps ==
    ASSUME Objects!ObjectsAssumption, ObjectInv, NEW g \in Gens, Objects!Born(g), Quiet(g),
           closed' = closed,
           UNCHANGED <<target, synthetic, binders, pubs, dead, disarmed>>,
           reply' = [h \in Gens |-> reply'[h]], node' = [h \in Gens |-> node'[h]],
           probe' = [h \in Gens |-> probe'[h]], client' \in [Gens -> BOOLEAN], GenOK(g)'
    PROVE  ObjectInv'
<1>0. target[g] \in Targets /\ ObjectTypes /\ MapsAlive
  BY BornFacts DEF ObjectInv
<1>1. PICK t \in Targets : t = target[g]
  BY <1>0
<1>2. MapStep(g, t)
  BY <1>0, <1>1 DEF MapStep, MapsAlive
<1>3. EndStep(g, t)
  BY <1>0, <1>1 DEF EndStep, MapsAlive, Objects!ObjectsAssumption
<1>4. AddressStep(g, t)
  BY <1>0, <1>1 DEF AddressStep, ObjectTypes
<1>5. ObjectTypes'
  BY <1>0 DEF ObjectTypes
<1>6. QED
  BY <1>2, <1>3, <1>4, <1>5, StepKeeps

LEMMA ObjectProbeKeeps ==
    ASSUME Objects!ObjectsAssumption, ObjectInv, NEW g \in Gens,
           Objects!TakeProbe(g) \/ Objects!Query(g) \/ Objects!QueryFails(g)
    PROVE  ObjectInv'
<1>0. GenOK(g) /\ ObjectTypes
  BY DEF ObjectInv
<1>1. UNCHANGED <<target, synthetic, binders, pubs, reply, node, client, dead, disarmed, closed>>
  BY DEF Objects!TakeProbe, Objects!Query, Objects!QueryFails
<1>2. PICK q : /\ probe' = [probe EXCEPT ![g] = q]
               /\ probe[g] # "no" /\ (q = "absent" => node[g] \in {"none", "gone"})
  BY DEF Objects!TakeProbe, Objects!Query, Objects!QueryFails, Objects!To
<1>3. Objects!Born(g) /\ Quiet(g) /\ probe' = [h \in Gens |-> probe'[h]] /\ probe'[g] = q
  BY <1>0, <1>1, <1>2, BornFacts DEF Quiet, ObjectTypes
<1>4. GenOK(g)'
  BY <1>0, <1>1, <1>2, <1>3
     DEF GenOK, ReplyOK, NodeOK, PubOK, ProbeOK, Own, Routed, Pub, Objects!Born
<1>5. QED
  BY <1>0, <1>1, <1>3, <1>4, QuietKeeps DEF ObjectTypes

LEMMA NodeKeeps ==
    ASSUME Objects!ObjectsAssumption, ObjectInv, NEW g \in Gens,
           Objects!KernelAcquire(g) \/ Objects!ClientEnds(g) \/ Objects!ClientDrops(g)
           \/ Objects!KernelRelease(g)
    PROVE  ObjectInv'
<1>0. GenOK(g) /\ ObjectTypes
  BY DEF ObjectInv
<1>1. UNCHANGED <<target, synthetic, binders, pubs, reply, probe, dead, disarmed, closed>>
  BY DEF Objects!KernelAcquire, Objects!ClientEnds, Objects!ClientDrops, Objects!KernelRelease
<1>2. /\ node' = [h \in Gens |-> node'[h]] /\ client' \in [Gens -> BOOLEAN] /\ Quiet(g)
      /\ \/ /\ node[g] = "queued" /\ node'[g] = "delivered" /\ client'[g] = client[g]
         \/ /\ node[g] = "held" /\ node'[g] = "held" /\ client'[g] = client[g]
         \/ /\ client[g] /\ ~client'[g]
            /\ node'[g] = IF node[g] = "queued" THEN "gone" ELSE node[g]
         \/ /\ node[g] = "held" /\ node'[g] = "gone" /\ ~client[g] /\ ~client'[g]
  <2>1. CASE Objects!KernelAcquire(g)
    BY <1>0, <1>1, <2>1 DEF Objects!KernelAcquire, Objects!To, Quiet, ObjectTypes
  <2>2. CASE Objects!ClientEnds(g)
    BY <1>0, <1>1, <2>2 DEF Objects!ClientEnds, Quiet, ObjectTypes
  <2>3. CASE Objects!ClientDrops(g)
    BY <1>0, <1>1, <2>3 DEF Objects!ClientDrops, Objects!To, Quiet, ObjectTypes
  <2>4. CASE Objects!KernelRelease(g)
    BY <1>0, <1>1, <2>4 DEF Objects!KernelRelease, Objects!To, Quiet, ObjectTypes
  <2>5. QED
    BY <2>1, <2>2, <2>3, <2>4
<1>3. Objects!Born(g)
  BY <1>2, BornFacts
<1>4. GenOK(g)'
  BY <1>0, <1>1, <1>2
     DEF GenOK, ReplyOK, NodeOK, PubOK, ProbeOK, Own, Routed, Pub, Objects!Born
<1>5. QED
  BY <1>0, <1>1, <1>2, <1>3, <1>4, QuietKeeps DEF ObjectTypes

LEMMA KernelReplyKeeps ==
    ASSUME Objects!ObjectsAssumption, ObjectInv, NEW g \in Gens, Objects!KernelReply(g)
    PROVE  ObjectInv'
<1>0. GenOK(g) /\ ObjectTypes
  BY DEF ObjectInv
<1>1. UNCHANGED <<target, synthetic, binders, pubs, probe, dead, disarmed, closed>>
      /\ reply[g] = "installed" /\ ~closed
  BY DEF Objects!KernelReply
<1>2. /\ reply' = [h \in Gens |-> reply'[h]] /\ node' = [h \in Gens |-> node'[h]]
      /\ client' \in [Gens -> BOOLEAN] /\ Quiet(g)
      /\ \/ reply'[g] = "sent" /\ node'[g] = "queued" /\ client'[g]
         \/ reply'[g] = "lost" /\ node'[g] = node[g] /\ client'[g] = client[g]
  <2>1. CASE reply' = Objects!To(reply, g, "sent") /\ node' = Objects!To(node, g, "queued")
             /\ client' = Objects!To(client, g, TRUE)
    BY <1>0, <1>1, <2>1 DEF Objects!To, Quiet, ObjectTypes
  <2>2. CASE reply' = Objects!To(reply, g, "lost") /\ UNCHANGED <<node, client>>
    BY <1>0, <1>1, <2>2 DEF Objects!To, Quiet, ObjectTypes
  <2>3. QED
    BY <2>1, <2>2 DEF Objects!KernelReply
<1>3. Objects!Born(g)
  BY <1>1, BornFacts
<1>4. GenOK(g)'
  BY <1>0, <1>1, <1>2
     DEF GenOK, ReplyOK, NodeOK, PubOK, ProbeOK, Own, Routed, Pub, Objects!Born
<1>5. QED
  BY <1>0, <1>1, <1>2, <1>3, <1>4, QuietKeeps DEF ObjectTypes

\* A step that changes what is g's at its address.
LEMMA AddressKeeps ==
    ASSUME Objects!ObjectsAssumption, ObjectInv, NEW g \in Gens, Objects!Born(g), NEW t,
           t = target[g],
           NEW b, NEW s, NEW p,
           binders' = [binders EXCEPT ![t] = b], synthetic' = [synthetic EXCEPT ![t] = s],
           pubs' = [pubs EXCEPT ![t] = p],
           b = binders[t] \/ (b = Objects!None /\ binders[t] = g),
           s = synthetic[t] \/ (s = Objects!None /\ synthetic[t] = g),
           p = pubs[t] \/ (pubs[t].gen = g /\ (p = Objects!NoPub \/ IsPubRec(p))), p.gen = b,
           target' = target, closed' = closed, Quiet(g),
           reply' = [h \in Gens |-> reply'[h]], node' = [h \in Gens |-> node'[h]],
           probe' = [h \in Gens |-> probe'[h]], client' \in [Gens -> BOOLEAN],
           EndStep(g, t), GenOK(g)'
    PROVE  ObjectInv'
<1>0. t \in Targets /\ ObjectTypes /\ MapsAlive
  BY BornFacts DEF ObjectInv
<1>1. binders'[t] = b /\ synthetic'[t] = s /\ pubs'[t] = p
  BY <1>0 DEF ObjectTypes
<1>2. MapStep(g, t)
  BY <1>0, <1>1 DEF MapStep, ObjectTypes
<1>3. AddressStep(g, t)
  BY <1>0 DEF AddressStep, ObjectTypes
<1>4. ObjectTypes'
  <2>1. binders' \in [Targets -> Gens \cup {Objects!None}]
        /\ synthetic' \in [Targets -> Gens \cup {Objects!None}]
    BY <1>0 DEF ObjectTypes
  <2>2. DOMAIN pubs' = Targets /\ pubs' = [x \in Targets |-> pubs'[x]]
    BY <1>0 DEF ObjectTypes
  <2>3. ASSUME NEW x \in Targets PROVE pubs'[x] = Objects!NoPub \/ IsPubRec(pubs'[x])
    <3>1. CASE x = t
      BY <1>0, <1>1, <3>1 DEF ObjectTypes
    <3>2. CASE x # t
      BY <1>0, <3>2 DEF ObjectTypes
    <3>3. QED
      BY <3>1, <3>2
  <2>4. \A x \in Targets : (pubs[x] = Objects!NoPub \/ IsPubRec(pubs[x]))'
    BY <2>3 DEF IsPubRec
  <2>5. QED
    BY <1>0, <2>1, <2>2, <2>4 DEF ObjectTypes
<1>5. QED
  BY <1>0, <1>2, <1>3, <1>4, StepKeeps

\* A step that changes only g's publication.
LEMMA PubKeeps ==
    ASSUME Objects!ObjectsAssumption, ObjectInv, NEW g \in Gens, Own(g), NEW t, t = target[g],
           NEW p,
           UNCHANGED <<binders, synthetic, target, dead, disarmed, closed>>,
           pubs' = [pubs EXCEPT ![t] = p], IsPubRec(p), p.gen = g, Quiet(g),
           reply' = [h \in Gens |-> reply'[h]], node' = [h \in Gens |-> node'[h]],
           probe' = [h \in Gens |-> probe'[h]], client' \in [Gens -> BOOLEAN], GenOK(g)'
    PROVE  ObjectInv'
<1>0. Objects!Born(g) /\ t \in Targets /\ ObjectTypes /\ MapsAlive /\ Objects!None \notin Gens
  BY BornFacts DEF ObjectInv, Own, Objects!ObjectsAssumption
<1>1. pubs'[t] = p /\ pubs[t].gen = g /\ binders[t] = g
      /\ \A x \in Targets \ {t} : pubs'[x] = pubs[x]
  BY <1>0 DEF Own, MapsAlive, ObjectTypes
<1>2. MapStep(g, t)
  BY <1>0, <1>1 DEF MapStep
<1>3. EndStep(g, t)
  BY <1>0 DEF EndStep, MapsAlive, Own
<1>4. AddressStep(g, t)
  BY <1>0 DEF AddressStep, ObjectTypes
<1>5. ObjectTypes'
  <2>1. DOMAIN pubs' = Targets /\ pubs' = [x \in Targets |-> pubs'[x]]
    BY <1>0 DEF ObjectTypes
  <2>2. ASSUME NEW x \in Targets PROVE pubs'[x] = Objects!NoPub \/ IsPubRec(pubs'[x])
    <3>1. CASE x = t
      BY <1>1, <3>1
    <3>2. CASE x # t
      BY <1>0, <1>1, <3>2 DEF ObjectTypes
    <3>3. QED
      BY <3>1, <3>2
  <2>3. \A x \in Targets : (pubs[x] = Objects!NoPub \/ IsPubRec(pubs[x]))'
    BY <2>2 DEF IsPubRec
  <2>4. QED
    BY <1>0, <2>1, <2>3 DEF ObjectTypes
<1>6. QED
  BY <1>0, <1>2, <1>3, <1>4, <1>5, StepKeeps

\* Of the maps, what is at the address of a living generation is its own.
LEMMA AddressOwn ==
    ASSUME Objects!ObjectsAssumption, ObjectInv, NEW g \in Gens, NEW t, t = target[g], t \in Targets
    PROVE  /\ synthetic[t] = g => binders[t] \in {g, Objects!None}
           /\ binders[t] = g => synthetic[t] \in {g, Objects!None}
           /\ \A x \in Targets : pubs[x].gen = g => x = t
BY DEF ObjectInv, ObjectTypes, OneLives, MapsAlive, Objects!Born, Objects!ObjectsAssumption

Without(f, t, g) == [f EXCEPT ![t] = IF f[t] = g THEN Objects!None ELSE f[t]]

LEMMA DropOne ==
    ASSUME Objects!ObjectsAssumption, ObjectInv, NEW g \in Gens, Objects!Born(g), NEW t,
           t = target[g],
           Objects!Drop({g})
    PROVE  /\ binders' = Without(binders, t, g) /\ synthetic' = Without(synthetic, t, g)
           /\ pubs' = [pubs EXCEPT ![t] = IF pubs[t].gen = g THEN Objects!NoPub ELSE pubs[t]]
           /\ disarmed' \subseteq disarmed \cup {g}
<1>0. t \in Targets /\ ObjectTypes
  BY BornFacts DEF ObjectInv
<1> DEFINE hit == {h \in {g} : Objects!Born(h) /\ h \in {binders[target[h]], synthetic[target[h]]}}
           spots == {target[h] : h \in hit}
<1>1. hit = IF g \in {binders[t], synthetic[t]} THEN {g} ELSE {}
  OBVIOUS
<1>2. spots = IF g \in {binders[t], synthetic[t]} THEN {t} ELSE {}
  BY <1>1
<1>3. /\ synthetic' = [x \in Targets |-> IF x \in spots THEN Objects!None ELSE synthetic[x]]
      /\ binders' = [x \in Targets |-> IF x \in spots THEN Objects!None ELSE binders[x]]
      /\ pubs' = [x \in Targets |-> IF pubs[x].gen \in {g} THEN Objects!NoPub ELSE pubs[x]]
      /\ disarmed' = disarmed \cup hit
  BY DEF Objects!Drop
<1> HIDE DEF hit, spots
<1>a. /\ synthetic[t] = g => binders[t] \in {g, Objects!None}
      /\ binders[t] = g => synthetic[t] \in {g, Objects!None}
  BY <1>0, AddressOwn
<1>4. binders' = Without(binders, t, g)
  <2>1. binders = [x \in Targets |-> binders[x]]
    BY <1>0 DEF ObjectTypes
  <2>2. ASSUME NEW x \in Targets
        PROVE  (IF x \in spots THEN Objects!None ELSE binders[x]) = Without(binders, t, g)[x]
    <3>1. CASE x = t
      BY <1>0, <1>2, <1>a, <2>1, <3>1 DEF Without
    <3>2. CASE x # t
      BY <1>0, <1>2, <2>1, <3>2 DEF Without
    <3>3. QED
      BY <3>1, <3>2
  <2>3. Without(binders, t, g) = [x \in Targets |-> Without(binders, t, g)[x]]
    BY <1>0, <2>1 DEF Without
  <2>4. QED
    BY <1>3, <2>2, <2>3
<1>5. synthetic' = Without(synthetic, t, g)
  <2>1. synthetic = [x \in Targets |-> synthetic[x]]
    BY <1>0 DEF ObjectTypes
  <2>2. ASSUME NEW x \in Targets
        PROVE  (IF x \in spots THEN Objects!None ELSE synthetic[x]) = Without(synthetic, t, g)[x]
    <3>1. CASE x = t
      BY <1>0, <1>2, <1>a, <2>1, <3>1 DEF Without
    <3>2. CASE x # t
      BY <1>0, <1>2, <2>1, <3>2 DEF Without
    <3>3. QED
      BY <3>1, <3>2
  <2>3. Without(synthetic, t, g) = [x \in Targets |-> Without(synthetic, t, g)[x]]
    BY <1>0, <2>1 DEF Without
  <2>4. QED
    BY <1>3, <2>2, <2>3
<1>6. pubs' = [pubs EXCEPT ![t] = IF pubs[t].gen = g THEN Objects!NoPub ELSE pubs[t]]
  BY <1>0, <1>3, AddressOwn DEF ObjectTypes
<1>7. QED
  BY <1>1, <1>3, <1>4, <1>5, <1>6

LEMMA DropKeeps ==
    ASSUME Objects!ObjectsAssumption, ObjectInv, NEW g \in Gens, Objects!Born(g),
           Objects!Drop({g}),
           UNCHANGED <<target, dead, closed>>,
           \A h \in Gens \ {g} : reply'[h] = reply[h] /\ node'[h] = node[h]
           /\ client'[h] = client[h] /\ probe'[h] = probe[h],
           probe' = [h \in Gens |-> probe'[h]], ProbeOK(g)',
           reply' = [h \in Gens |-> reply'[h]], node' = [h \in Gens |-> node'[h]],
           client' \in [Gens -> BOOLEAN], ~client'[g],
           reply'[g] \notin {"built", "installed"}, node'[g] \notin {"queued", "delivered",
             "observed"},
           reply'[g] \in {"none", "lost", "failed", "dropped", "refused"} => node'[g] = "none"
    PROVE  ObjectInv'
<1>0. ObjectTypes /\ MapsAlive /\ target[g] \in Targets /\ Objects!None \notin Gens
  BY BornFacts DEF ObjectInv, Objects!ObjectsAssumption
<1>1. PICK t : t = target[g]
  OBVIOUS
<1>2. /\ binders' = Without(binders, t, g) /\ synthetic' = Without(synthetic, t, g)
      /\ pubs' = [pubs EXCEPT ![t] = IF pubs[t].gen = g THEN Objects!NoPub ELSE pubs[t]]
      /\ disarmed' \subseteq disarmed \cup {g}
  BY <1>1, DropOne
<1>3. PICK b : b = IF binders[t] = g THEN Objects!None ELSE binders[t]
  OBVIOUS
<1>4. PICK s : s = IF synthetic[t] = g THEN Objects!None ELSE synthetic[t]
  OBVIOUS
<1>5. PICK p : p = IF pubs[t].gen = g THEN Objects!NoPub ELSE pubs[t]
  OBVIOUS
<1>6. binders' = [binders EXCEPT ![t] = b] /\ synthetic' = [synthetic EXCEPT ![t] = s]
      /\ pubs' = [pubs EXCEPT ![t] = p]
  BY <1>2, <1>3, <1>4, <1>5 DEF Without
<1>7. p.gen = b /\ binders'[t] # g /\ synthetic'[t] # g
  BY <1>0, <1>1, <1>3, <1>4, <1>5, <1>6, NoPubGen DEF MapsAlive, ObjectTypes
<1>8. Quiet(g)
  BY DEF Quiet
<1>9. EndStep(g, t)
  BY <1>2, <1>7 DEF EndStep
<1>10. GenOK(g)'
  <2>1. ~Own(g)' /\ ~Routed(g)' /\ Objects!Born(g)'
    BY <1>1, <1>7 DEF Own, Routed, Objects!Born
  <2>2. QED
    BY <2>1 DEF GenOK, ReplyOK, NodeOK, PubOK
<1>11. /\ b = binders[t] \/ (b = Objects!None /\ binders[t] = g)
       /\ s = synthetic[t] \/ (s = Objects!None /\ synthetic[t] = g)
       /\ p = pubs[t] \/ (pubs[t].gen = g /\ (p = Objects!NoPub \/ IsPubRec(p)))
  BY <1>3, <1>4, <1>5
<1>12. target' = target /\ closed' = closed
  OBVIOUS
<1>13. QED
  BY <1>1, <1>6, <1>7, <1>8, <1>9, <1>10, <1>11, <1>12, AddressKeeps

\* What becomes of a probe when g is dropped while it is queued or in hand.
LEMMA UnqueuedOne ==
    ASSUME ObjectTypes, NEW g \in Gens, probe' = Objects!Unqueued({g})
    PROVE  /\ probe' = [h \in Gens |-> probe'[h]] /\ probe'[g] \in {"no", probe[g]}
           /\ \A h \in Gens \ {g} : probe'[h] = probe[h]
BY DEF Objects!Unqueued

LEMMA UnsentKeeps ==
    ASSUME Objects!ObjectsAssumption, ObjectInv, NEW g \in Gens, Objects!Unsent(g)
    PROVE  ObjectInv'
<1>0. GenOK(g) /\ ObjectTypes /\ Objects!Born(g)
  BY BornFacts DEF ObjectInv, Objects!Unsent
<1>1. /\ reply[g] \in {"built", "installed"} /\ reply' = Objects!To(reply, g, "dropped")
         /\ Objects!Drop({g}) /\ probe' = Objects!Unqueued({g})
      /\ UNCHANGED <<target, node, client, dead, closed>>
  BY DEF Objects!Unsent
<1>2. /\ reply' = [h \in Gens |-> reply'[h]] /\ reply'[g] = "dropped"
      /\ \A h \in Gens \ {g} : reply'[h] = reply[h]
  BY <1>0, <1>1 DEF Objects!To, ObjectTypes
<1>3. node[g] = "none" /\ ~client[g]
  BY <1>0, <1>1 DEF GenOK, ReplyOK, NodeOK
<1>4. node' = [h \in Gens |-> node'[h]] /\ client' \in [Gens -> BOOLEAN]
  BY <1>0, <1>1 DEF ObjectTypes
<1>5. /\ probe' = [h \in Gens |-> probe'[h]] /\ \A h \in Gens \ {g} : probe'[h] = probe[h]
      /\ ProbeOK(g)'
  <2>1. probe[g] = "no"
    BY <1>0, <1>1 DEF GenOK, ProbeOK
  <2>2. QED
    BY <1>0, <1>1, <2>1, UnqueuedOne DEF ProbeOK
<1>6. QED
  BY <1>0, <1>1, <1>2, <1>3, <1>4, <1>5, DropKeeps

LEMMA CancelKeeps ==
    ASSUME Objects!ObjectsAssumption, ObjectInv, NEW g \in Gens, Objects!CancelAcquire(g)
    PROVE  ObjectInv'
<1>0. GenOK(g) /\ ObjectTypes /\ Objects!Born(g)
  BY BornFacts DEF ObjectInv, Objects!CancelAcquire
<1>1. Objects!IsPub(g) /\ pubs[target[g]].pending
  BY <1>0, BornFacts DEF Objects!CancelAcquire, GenOK, NodeOK, Pub
<1>2. /\ node[g] = "observed" /\ closed /\ node' = Objects!To(node, g, "gone")
         /\ Objects!Drop({g}) /\ probe' = Objects!Unqueued({g})
      /\ UNCHANGED <<target, reply, client, dead, closed>>
  BY <1>1 DEF Objects!CancelAcquire
<1>3. /\ node' = [h \in Gens |-> node'[h]] /\ node'[g] = "gone"
      /\ \A h \in Gens \ {g} : node'[h] = node[h]
  BY <1>0, <1>2 DEF Objects!To, ObjectTypes
<1>4. /\ ~client[g]
      /\ reply[g] \notin {"none", "built", "installed", "lost", "failed", "dropped", "refused"}
  BY <1>0, <1>2 DEF GenOK, ReplyOK, NodeOK
<1>5. reply' = [h \in Gens |-> reply'[h]] /\ client' \in [Gens -> BOOLEAN]
  BY <1>0, <1>2 DEF ObjectTypes
<1>6. /\ probe' = [h \in Gens |-> probe'[h]] /\ \A h \in Gens \ {g} : probe'[h] = probe[h]
      /\ ProbeOK(g)'
  BY <1>0, <1>2, <1>3, UnqueuedOne DEF GenOK, ProbeOK
<1>7. QED
  BY <1>0, <1>2, <1>3, <1>4, <1>5, <1>6, DropKeeps

LEMMA ObjectProbeEndKeeps ==
    ASSUME Objects!ObjectsAssumption, ObjectInv, NEW g \in Gens, Objects!FinishProbe(g)
    PROVE  ObjectInv'
<1>0. GenOK(g) /\ ObjectTypes /\ Objects!Born(g) /\ probe[g] # "no"
  BY BornFacts DEF ObjectInv, Objects!FinishProbe
<1>1. UNCHANGED <<target, reply, node, client, dead, closed>>
  BY DEF Objects!FinishProbe
<1>2. CASE probe[g] = "absent" /\ Objects!Drop({g}) /\ probe' = Objects!To(probe, g, "no")
  <2>1. ~client[g] /\ reply[g] \in {"completed", "failed", "done"} /\ node[g] \in {"none", "gone"}
    BY <1>0, <1>2 DEF GenOK, NodeOK, ProbeOK
  <2>2. reply[g] = "failed" => node[g] = "none"
    BY <1>0 DEF GenOK, ReplyOK
  <2>3. /\ reply' = [h \in Gens |-> reply'[h]] /\ client' \in [Gens -> BOOLEAN]
        /\ node' = [h \in Gens |-> node'[h]]
    BY <1>0, <1>1 DEF ObjectTypes
  <2>4. /\ probe' = [h \in Gens |-> probe'[h]] /\ \A h \in Gens \ {g} : probe'[h] = probe[h]
        /\ ProbeOK(g)'
    BY <1>0, <1>2 DEF ProbeOK, Objects!To, ObjectTypes
  <2>5. QED
    BY <1>0, <1>1, <1>2, <2>1, <2>2, <2>3, <2>4, DropKeeps
<1>3. CASE ~(probe[g] = "absent" /\ Objects!Drop({g}) /\ probe' = Objects!To(probe, g, "no"))
  <2>1. PICK q : q \in {"queued", "no"} /\ probe' = [probe EXCEPT ![g] = q]
                 /\ UNCHANGED <<synthetic, binders, pubs, disarmed>>
    BY <1>3 DEF Objects!FinishProbe, Objects!NextProbe, Objects!To
  <2>2. Quiet(g) /\ probe' = [h \in Gens |-> probe'[h]] /\ probe'[g] = q
    BY <1>0, <1>1, <2>1 DEF Quiet, ObjectTypes
  <2>3. GenOK(g)'
    BY <1>0, <1>1, <2>1, <2>2
       DEF GenOK, ReplyOK, NodeOK, PubOK, ProbeOK, Own, Routed, Pub, Objects!Born
  <2>4. QED
    BY <1>0, <1>1, <2>1, <2>2, <2>3, QuietKeeps DEF ObjectTypes
<1>4. QED
  BY <1>2, <1>3
LEMMA InstallKeeps ==
    ASSUME Objects!ObjectsAssumption, ObjectInv, NEW g \in Gens, Objects!Install(g)
    PROVE  ObjectInv'
<1>0. GenOK(g) /\ ObjectTypes /\ MapsAlive /\ Objects!Born(g) /\ Objects!None \notin Gens
  BY BornFacts DEF ObjectInv, Objects!Install, Objects!ObjectsAssumption
<1>1. PICK t \in Targets : t = target[g]
  BY <1>0, BornFacts
<1>2. /\ reply[g] = "built" /\ ~closed /\ reply' = [reply EXCEPT ![g] = "installed"]
      /\ UNCHANGED <<target, synthetic, binders, probe, node, client, dead, disarmed, closed>>
  BY DEF Objects!Install, Objects!To
<1>3. Own(g) /\ Routed(g) /\ Objects!IsPub(g) /\ IsPubRec(pubs[t]) /\ pubs[t].gen = g
  BY <1>0, <1>1, <1>2, BornFacts DEF GenOK, ReplyOK, Pub
<1>4. PICK p : p = [pubs[t] EXCEPT !.conn = TRUE]
  OBVIOUS
<1>5. pubs' = [pubs EXCEPT ![t] = p]
  BY <1>1, <1>3, <1>4 DEF Objects!Install
<1>6. /\ IsPubRec(p) /\ p.gen = g /\ p.conn /\ p.owned = pubs[t].owned /\ p.binder = pubs[t].binder
      /\ p.pending = pubs[t].pending
  BY <1>3, <1>4 DEF IsPubRec
<1>7. /\ reply' = [h \in Gens |-> reply'[h]] /\ reply'[g] = "installed" /\ Quiet(g)
      /\ binders' = [binders EXCEPT ![t] = binders[t]]
      /\ synthetic' = [synthetic EXCEPT ![t] = synthetic[t]]
  BY <1>0, <1>1, <1>2 DEF ObjectTypes, Quiet
<1>8. Pub(g)' = p
  BY <1>0, <1>1, <1>2, <1>5 DEF Pub, ObjectTypes
<1>9. GenOK(g)'
  <2>1. Own(g)' /\ Routed(g)' /\ Objects!Born(g)'
    BY <1>2, <1>3 DEF Own, Routed, Objects!Born
  <2>2. QED
    BY <1>0, <1>1, <1>2, <1>3, <1>6, <1>7, <1>8, <2>1 DEF GenOK, ReplyOK, NodeOK, PubOK, ProbeOK,
       Pub
<1>10. node' = [h \in Gens |-> node'[h]] /\ probe' = [h \in Gens |-> probe'[h]]
       /\ client' \in [Gens -> BOOLEAN]
  BY <1>0, <1>2 DEF ObjectTypes
<1>11. QED
  BY <1>1, <1>2, <1>3, <1>5, <1>6, <1>7, <1>9, <1>10, PubKeeps

LEMMA FinishLocalKeeps ==
    ASSUME Objects!ObjectsAssumption, ObjectInv, NEW g \in Gens, Objects!FinishLocal(g)
    PROVE  ObjectInv'
<1>0. GenOK(g) /\ ObjectTypes /\ MapsAlive /\ Objects!Born(g) /\ Objects!None \notin Gens
  BY BornFacts DEF ObjectInv, Objects!FinishLocal, Objects!ObjectsAssumption
<1>1. PICK t \in Targets : t = target[g]
  BY <1>0, BornFacts
<1>2. /\ reply[g] = "built" /\ ~closed /\ reply' = [reply EXCEPT ![g] = "done"]
      /\ node' = [node EXCEPT ![g] = "held"] /\ client' = [client EXCEPT ![g] = TRUE]
      /\ UNCHANGED <<target, synthetic, probe, dead, disarmed, closed>>
  BY DEF Objects!FinishLocal, Objects!To
<1>3. Own(g) /\ Routed(g) /\ Objects!IsPub(g) /\ pubs[t].gen = g /\ probe[g] = "no"
  BY <1>0, <1>1, <1>2, BornFacts DEF GenOK, ReplyOK, ProbeOK, Pub
<1>4. pubs' = [pubs EXCEPT ![t] = Objects!NoPub] /\ binders' = [binders EXCEPT ![t] = Objects!None]
  BY <1>1, <1>3 DEF Objects!FinishLocal, Own, Objects!To
<1>5. /\ reply' = [h \in Gens |-> reply'[h]] /\ reply'[g] = "done" /\ Quiet(g)
      /\ node' = [h \in Gens |-> node'[h]] /\ node'[g] = "held" /\ client' \in [Gens -> BOOLEAN]
      /\ probe' = [h \in Gens |-> probe'[h]]
      /\ synthetic' = [synthetic EXCEPT ![t] = synthetic[t]]
  BY <1>0, <1>1, <1>2 DEF ObjectTypes, Quiet
<1>6. binders'[t] = Objects!None
  BY <1>0, <1>4 DEF ObjectTypes
<1>7. ~Own(g)' /\ Routed(g)' /\ Objects!Born(g)'
  BY <1>0, <1>1, <1>2, <1>3, <1>6 DEF Own, Routed, Objects!Born
<1>8. GenOK(g)'
  BY <1>2, <1>3, <1>5, <1>7 DEF GenOK, ReplyOK, NodeOK, PubOK, ProbeOK
<1>9. EndStep(g, t)
  BY <1>0, <1>1, <1>2, <1>3 DEF EndStep, MapsAlive, Own, Routed
<1>10. Objects!NoPub.gen = Objects!None /\ binders[t] = g
  BY <1>1, <1>3, NoPubGen DEF Own
<1>11. QED
  BY <1>0, <1>1, <1>2, <1>3, <1>4, <1>5, <1>8, <1>9, <1>10, AddressKeeps

LEMMA MarkCompletedKeeps ==
    ASSUME Objects!ObjectsAssumption, ObjectInv, NEW g \in Gens, Objects!MarkCompleted(g)
    PROVE  ObjectInv'
<1>0. GenOK(g) /\ ObjectTypes /\ MapsAlive /\ Objects!Born(g) /\ Objects!None \notin Gens
  BY BornFacts DEF ObjectInv, Objects!MarkCompleted, Objects!ObjectsAssumption
<1>1. PICK t \in Targets : t = target[g]
  BY <1>0, BornFacts
<1>2. PICK r : /\ r = (IF reply[g] = "sent" THEN "completed" ELSE "failed")
               /\ reply' = [reply EXCEPT ![g] = r] /\ reply[g] \in {"sent", "lost"}
               /\ UNCHANGED <<target, synthetic, node, client, dead, disarmed, closed>>
  BY DEF Objects!MarkCompleted, Objects!To
<1>3. reply' = [h \in Gens |-> reply'[h]] /\ reply'[g] = r /\ r \in {"completed", "failed"}
      /\ (\A h \in Gens \ {g} : reply'[h] = reply[h]) /\ (r = "failed" => node[g] = "none")
  BY <1>0, <1>2 DEF ObjectTypes, GenOK, ReplyOK
<1>4. node' = [h \in Gens |-> node'[h]] /\ client' \in [Gens -> BOOLEAN]
  BY <1>0, <1>2 DEF ObjectTypes
<1>5. CASE ~Objects!IsPub(g)
  <2>1. UNCHANGED <<pubs, binders, probe>>
    BY <1>5 DEF Objects!MarkCompleted
  <2>2. Quiet(g) /\ probe' = [h \in Gens |-> probe'[h]]
    BY <1>0, <1>2, <1>3, <2>1 DEF ObjectTypes, Quiet
  <2>3. GenOK(g)'
    BY <1>0, <1>2, <1>3, <2>1 DEF GenOK, ReplyOK, NodeOK, PubOK, ProbeOK, Own, Routed, Pub,
       Objects!Born
  <2>4. QED
    BY <1>0, <1>2, <1>3, <1>4, <2>1, <2>2, <2>3, QuietKeeps
<1>6. CASE Objects!IsPub(g)
  <2>1. Own(g) /\ IsPubRec(pubs[t]) /\ pubs[t].gen = g /\ binders[t] = g
    BY <1>1, <1>6, BornFacts DEF Pub, Own
  <2>2. PICK q : q = [pubs[t] EXCEPT !.conn = TRUE, !.binder = TRUE]
    OBVIOUS
  <2>3. /\ IsPubRec(q) /\ q.gen = g /\ q.conn /\ q.binder /\ q.owned = pubs[t].owned
        /\ q.pending = pubs[t].pending
    BY <2>1, <2>2 DEF IsPubRec
  <2>4. Objects!Update(g, q)
        /\ probe' = IF Objects!Finished(q) THEN probe ELSE Objects!To(probe, g, "queued")
    BY <1>1, <1>6, <2>2 DEF Objects!MarkCompleted
  <2>5. PICK v : v = (IF Objects!Finished(q) THEN probe[g] ELSE "queued")
    OBVIOUS
  <2>6. probe' = [h \in Gens |-> probe'[h]] /\ probe'[g] = v /\ Quiet(g)
    BY <1>0, <1>2, <1>3, <2>4, <2>5 DEF ObjectTypes, Quiet, Objects!To
  <2>7. synthetic' = [synthetic EXCEPT ![t] = synthetic[t]]
    BY <1>0, <1>2 DEF ObjectTypes
  <2>8. CASE Objects!Finished(q)
    <3>1. pubs' = [pubs EXCEPT ![t] = Objects!NoPub]
          /\ binders' = [binders EXCEPT ![t] = Objects!None]
      BY <1>1, <2>1, <2>4, <2>8 DEF Objects!Update, Objects!To
    <3>2. binders'[t] = Objects!None
      BY <1>0, <3>1 DEF ObjectTypes
    <3>3. ~Own(g)' /\ (Routed(g)' <=> Routed(g)) /\ Objects!Born(g)'
      BY <1>0, <1>1, <1>2, <3>2 DEF Own, Routed, Objects!Born
    <3>4. node[g] \in {"held", "gone", "leaked"}
      BY <1>0, <1>1, <2>1, <2>3, <2>8 DEF GenOK, PubOK, Objects!Finished, Pub
    <3>5. v = probe[g]
      BY <2>5, <2>8
    <3>6. GenOK(g)'
      BY <1>0, <1>2, <1>3, <2>6, <3>3, <3>4, <3>5 DEF GenOK, ReplyOK, NodeOK, PubOK, ProbeOK
    <3>7. EndStep(g, t)
      BY <1>0, <1>1, <1>2, <2>1, <3>2 DEF EndStep, MapsAlive
    <3>8. Objects!NoPub.gen = Objects!None
      BY NoPubGen
    <3>9. QED
      BY <1>0, <1>1, <1>2, <1>3, <1>4, <2>1, <2>6, <2>7, <3>1, <3>6, <3>7, <3>8, AddressKeeps
  <2>9. CASE ~Objects!Finished(q)
    <3>1. pubs' = [pubs EXCEPT ![t] = q] /\ binders' = binders
      BY <1>1, <2>1, <2>4, <2>9 DEF Objects!Update, Objects!To
    <3>2. binders' = [binders EXCEPT ![t] = binders[t]] /\ pubs'[t] = q
      BY <1>0, <3>1 DEF ObjectTypes
    <3>3. Own(g)' /\ (Routed(g)' <=> Routed(g)) /\ Objects!Born(g)' /\ Pub(g)' = q
      BY <1>0, <1>1, <1>2, <2>1, <3>1, <3>2 DEF Own, Routed, Objects!Born, Pub
    <3>4. ~q.owned /\ v = "queued"
      BY <2>3, <2>5, <2>9 DEF Objects!Finished
    <3>5. GenOK(g)'
      BY <1>0, <1>1, <1>2, <1>3, <2>1, <2>3, <2>6, <3>3, <3>4
         DEF GenOK, ReplyOK, NodeOK, PubOK, ProbeOK, Pub
    <3>6. QED
      BY <1>1, <1>2, <1>3, <1>4, <2>1, <2>3, <2>6, <3>1, <3>5, PubKeeps
  <2>10. QED
    BY <2>8, <2>9
<1>7. QED
  BY <1>5, <1>6
LEMMA ReadResultKeeps ==
    ASSUME Objects!ObjectsAssumption, ObjectInv, NEW g \in Gens, Objects!ReadResult(g)
    PROVE  ObjectInv'
<1>0. GenOK(g) /\ ObjectTypes /\ MapsAlive /\ Objects!Born(g) /\ Objects!None \notin Gens
  BY BornFacts DEF ObjectInv, Objects!ReadResult, Objects!ObjectsAssumption
<1>1. PICK t \in Targets : t = target[g]
  BY <1>0, BornFacts
<1>2. /\ reply[g] \in {"completed", "failed"} /\ reply' = [reply EXCEPT ![g] = "done"]
      /\ UNCHANGED <<target, binders, pubs, probe, node, client, dead, disarmed, closed>>
  BY DEF Objects!ReadResult, Objects!To
<1>3. reply' = [h \in Gens |-> reply'[h]] /\ reply'[g] = "done" /\ Quiet(g)
      /\ node' = [h \in Gens |-> node'[h]] /\ client' \in [Gens -> BOOLEAN]
      /\ probe' = [h \in Gens |-> probe'[h]]
  BY <1>0, <1>2 DEF ObjectTypes, Quiet
<1>4. CASE synthetic' = synthetic
  <2>1. GenOK(g)'
    BY <1>0, <1>2, <1>3, <1>4 DEF GenOK, ReplyOK, NodeOK, PubOK, ProbeOK, Own, Routed, Pub,
       Objects!Born
  <2>2. QED
    BY <1>0, <1>2, <1>3, <1>4, <2>1, QuietKeeps
<1>5. CASE synthetic' # synthetic
  <2>1. /\ reply[g] = "failed" \/ closed
        /\ synthetic[t] = g /\ synthetic' = [synthetic EXCEPT ![t] = Objects!None]
    BY <1>1, <1>5 DEF Objects!ReadResult, Objects!Retire, Objects!To
  <2>2. ~client[g]
    BY <1>0, <2>1 DEF GenOK, ReplyOK, NodeOK
  <2>3. PICK b : b = binders[t]
    OBVIOUS
  <2>4. PICK p : p = pubs[t]
    OBVIOUS
  <2>5. binders' = [binders EXCEPT ![t] = b] /\ pubs' = [pubs EXCEPT ![t] = p] /\ p.gen = b
    BY <1>0, <1>1, <1>2, <2>3, <2>4 DEF ObjectTypes, MapsAlive
  <2>6. synthetic'[t] = Objects!None
    BY <1>0, <2>1 DEF ObjectTypes
  <2>7. EndStep(g, t)
    BY <1>0, <1>1, <1>2, <2>6 DEF EndStep, MapsAlive
  <2>8. (Own(g)' <=> Own(g)) /\ Objects!Born(g)' /\ Pub(g)' = Pub(g)
    BY <1>0, <1>2 DEF Own, Objects!Born, Pub
  <2>9. GenOK(g)'
    BY <1>0, <1>2, <1>3, <2>2, <2>8 DEF GenOK, ReplyOK, NodeOK, PubOK, ProbeOK
  <2>10. QED
    BY <1>0, <1>1, <1>2, <1>3, <2>1, <2>3, <2>4, <2>5, <2>7, <2>9, AddressKeeps
<1>6. QED
  BY <1>4, <1>5

LEMMA ObserveAcquireKeeps ==
    ASSUME Objects!ObjectsAssumption, ObjectInv, NEW g \in Gens, Objects!ObserveAcquire(g)
    PROVE  ObjectInv'
<1>0. GenOK(g) /\ ObjectTypes /\ Objects!Born(g)
  BY BornFacts DEF ObjectInv, Objects!ObserveAcquire
<1>1. PICK t \in Targets : t = target[g]
  BY <1>0, BornFacts
<1>2. /\ node[g] = "delivered" /\ node' = [node EXCEPT ![g] = "observed"]
      /\ UNCHANGED <<target, synthetic, binders, probe, reply, client, dead, disarmed, closed>>
  BY DEF Objects!ObserveAcquire, Objects!To
<1>3. Own(g) /\ Pub(g).conn /\ ~Pub(g).owned /\ ~closed
  BY <1>0, <1>2 DEF GenOK, NodeOK, PubOK
<1>4. Objects!IsPub(g) /\ IsPubRec(pubs[t]) /\ pubs[t].gen = g
  BY <1>1, <1>3, BornFacts DEF Pub
<1>5. PICK p : p = [pubs[t] EXCEPT !.pending = IF pubs[t].pending THEN pubs[t].pending ELSE TRUE]
  OBVIOUS
<1>6. /\ IsPubRec(p) /\ p.gen = g /\ p.conn = pubs[t].conn /\ p.owned = pubs[t].owned
      /\ p.binder = pubs[t].binder /\ p.pending
  BY <1>4, <1>5 DEF IsPubRec
<1>7. pubs' = [pubs EXCEPT ![t] = p]
  <2>1. CASE pubs[t].pending
    <3>1. pubs' = pubs
      BY <1>1, <2>1 DEF Objects!ObserveAcquire
    <3>2. p = pubs[t]
      BY <1>4, <1>5, <2>1 DEF IsPubRec
    <3>3. QED
      BY <1>0, <3>1, <3>2 DEF ObjectTypes
  <2>2. CASE ~pubs[t].pending
    BY <1>1, <1>3, <1>4, <1>5, <2>2 DEF Objects!ObserveAcquire, Pub
  <2>3. QED
    BY <2>1, <2>2
<1>8. /\ node' = [h \in Gens |-> node'[h]] /\ node'[g] = "observed" /\ Quiet(g)
      /\ reply' = [h \in Gens |-> reply'[h]] /\ probe' = [h \in Gens |-> probe'[h]]
      /\ client' \in [Gens -> BOOLEAN]
  BY <1>0, <1>2 DEF ObjectTypes, Quiet
<1>9. Own(g)' /\ (Routed(g)' <=> Routed(g)) /\ Objects!Born(g)' /\ Pub(g)' = p
  BY <1>0, <1>1, <1>2, <1>3, <1>7 DEF Own, Routed, Objects!Born, Pub, ObjectTypes
<1>10. GenOK(g)'
  BY <1>0, <1>1, <1>2, <1>3, <1>6, <1>8, <1>9 DEF GenOK, ReplyOK, NodeOK, PubOK, ProbeOK, Pub
<1>11. QED
  BY <1>1, <1>2, <1>3, <1>6, <1>7, <1>8, <1>10, PubKeeps

LEMMA AcquireDoneKeeps ==
    ASSUME Objects!ObjectsAssumption, ObjectInv, NEW g \in Gens, Objects!AcquireDone(g)
    PROVE  ObjectInv'
<1>0. GenOK(g) /\ ObjectTypes /\ MapsAlive /\ Objects!Born(g) /\ Objects!None \notin Gens
  BY BornFacts DEF ObjectInv, Objects!AcquireDone, Objects!ObjectsAssumption
<1>1. PICK t \in Targets : t = target[g]
  BY <1>0, BornFacts
<1>2. PICK n : /\ n = (IF closed THEN "leaked" ELSE "held")
               /\ node[g] = "observed" /\ node' = [node EXCEPT ![g] = n]
               /\ UNCHANGED <<target, synthetic, probe, reply, client, dead, disarmed, closed>>
  BY DEF Objects!AcquireDone, Objects!To
<1>3. Own(g) /\ Pub(g).conn /\ Pub(g).pending /\ ~Pub(g).owned
      /\ reply[g] \notin {"none", "built", "installed", "lost", "failed", "dropped", "refused"}
      /\ probe[g] # "absent"
  BY <1>0, <1>2 DEF GenOK, NodeOK, PubOK, ReplyOK, ProbeOK
<1>4. Objects!IsPub(g) /\ IsPubRec(pubs[t]) /\ pubs[t].gen = g /\ binders[t] = g
  BY <1>1, <1>3, BornFacts DEF Pub, Own
<1>5. /\ node' = [h \in Gens |-> node'[h]] /\ node'[g] = n /\ Quiet(g)
      /\ reply' = [h \in Gens |-> reply'[h]] /\ probe' = [h \in Gens |-> probe'[h]]
      /\ client' \in [Gens -> BOOLEAN]
  BY <1>0, <1>2 DEF ObjectTypes, Quiet
<1>6. CASE closed
  <2>1. UNCHANGED <<pubs, binders>> /\ n = "leaked" /\ ~client[g]
    BY <1>0, <1>2, <1>6 DEF Objects!AcquireDone, GenOK, NodeOK
  <2>2. GenOK(g)'
    BY <1>0, <1>2, <1>3, <1>5, <2>1
       DEF GenOK, ReplyOK, NodeOK, PubOK, ProbeOK, Own, Routed, Pub, Objects!Born
  <2>3. QED
    BY <1>0, <1>2, <1>5, <2>1, <2>2, QuietKeeps
<1>7. CASE ~closed
  <2>1. PICK q : q = [pubs[t] EXCEPT !.pending = FALSE, !.owned = TRUE]
    OBVIOUS
  <2>2. /\ IsPubRec(q) /\ q.gen = g /\ q.conn = pubs[t].conn /\ q.binder = pubs[t].binder
        /\ q.owned /\ ~q.pending
    BY <1>4, <2>1 DEF IsPubRec
  <2>3. Objects!Update(g, q) /\ n = "held"
    BY <1>1, <1>2, <1>3, <1>4, <1>7, <2>1 DEF Objects!AcquireDone, Pub
  <2>4. CASE Objects!Finished(q)
    <3>1. pubs' = [pubs EXCEPT ![t] = Objects!NoPub]
          /\ binders' = [binders EXCEPT ![t] = Objects!None]
      BY <1>1, <1>4, <2>3, <2>4 DEF Objects!Update, Objects!To
    <3>2. binders'[t] = Objects!None /\ synthetic' = [synthetic EXCEPT ![t] = synthetic[t]]
      BY <1>0, <1>2, <3>1 DEF ObjectTypes
    <3>3. ~Own(g)' /\ (Routed(g)' <=> Routed(g)) /\ Objects!Born(g)'
      BY <1>0, <1>1, <1>2, <3>2 DEF Own, Routed, Objects!Born
    <3>4. GenOK(g)'
      BY <1>0, <1>2, <1>3, <1>5, <2>3, <3>3 DEF GenOK, ReplyOK, NodeOK, PubOK, ProbeOK
    <3>5. EndStep(g, t)
      BY <1>0, <1>1, <1>2, <1>4, <3>2 DEF EndStep, MapsAlive
    <3>6. Objects!NoPub.gen = Objects!None
      BY NoPubGen
    <3>7. QED
      BY <1>0, <1>1, <1>2, <1>4, <1>5, <3>1, <3>2, <3>4, <3>5, <3>6, AddressKeeps
  <2>5. CASE ~Objects!Finished(q)
    <3>1. pubs' = [pubs EXCEPT ![t] = q] /\ binders' = binders
      BY <1>1, <1>4, <2>3, <2>5 DEF Objects!Update, Objects!To
    <3>2. Own(g)' /\ (Routed(g)' <=> Routed(g)) /\ Objects!Born(g)' /\ Pub(g)' = q
      BY <1>0, <1>1, <1>2, <1>3, <3>1 DEF Own, Routed, Objects!Born, Pub, ObjectTypes
    <3>3. GenOK(g)'
      BY <1>0, <1>1, <1>2, <1>3, <1>5, <2>2, <2>3, <3>2
         DEF GenOK, ReplyOK, NodeOK, PubOK, ProbeOK, Pub
    <3>4. QED
      BY <1>1, <1>2, <1>3, <1>5, <2>2, <3>1, <3>3, PubKeeps
  <2>6. QED
    BY <2>4, <2>5
<1>8. QED
  BY <1>6, <1>7

LEMMA DestroyKeeps ==
    ASSUME Objects!ObjectsAssumption, ObjectInv, NEW g \in Gens, Objects!Destroy(g)
    PROVE  ObjectInv'
<1>0. GenOK(g) /\ ObjectTypes /\ MapsAlive /\ Objects!Born(g) /\ Objects!None \notin Gens
  BY DEF ObjectInv, Objects!Destroy, Objects!ObjectsAssumption
<1>1. PICK t \in Targets : t = target[g]
  BY <1>0, BornFacts
<1>2. /\ g \notin dead /\ binders[t] # g /\ node[g] \in {"none", "gone"} /\ reply[g] # "built"
      /\ dead' = dead \cup {g}
      /\ UNCHANGED <<target, binders, reply, node, client, disarmed, closed>>
  BY <1>1 DEF Objects!Destroy
<1>3. ~Own(g) /\ ~Objects!IsPub(g) /\ ~client[g] /\ (reply[g] = "installed" => closed)
  BY <1>0, <1>1, <1>2, BornFacts DEF Own, GenOK, NodeOK, ReplyOK
<1>4. pubs' = pubs
  BY <1>3 DEF Objects!Destroy
<1>5. PICK s : s = IF synthetic[t] = g THEN Objects!None ELSE synthetic[t]
  OBVIOUS
<1>6. synthetic' = [synthetic EXCEPT ![t] = s]
  <2>1. CASE synthetic[t] = g
    <3>1. g \notin disarmed
      BY <1>0, <1>1, <2>1 DEF MapsAlive
    <3>2. QED
      BY <1>1, <1>5, <2>1, <3>1 DEF Objects!Destroy, Objects!To
  <2>2. CASE synthetic[t] # g
    BY <1>0, <1>1, <1>5, <2>2 DEF Objects!Destroy, ObjectTypes
  <2>3. QED
    BY <2>1, <2>2
<1>7. /\ probe' = [h \in Gens |-> probe'[h]] /\ probe'[g] \in {"no", probe[g]} /\ Quiet(g)
      /\ reply' = [h \in Gens |-> reply'[h]] /\ node' = [h \in Gens |-> node'[h]]
      /\ client' \in [Gens -> BOOLEAN]
  BY <1>0, <1>2, UnqueuedOne DEF Objects!Destroy, ObjectTypes, Quiet
<1>8. synthetic'[t] = s /\ s # g /\ (s = synthetic[t] \/ (s = Objects!None /\ synthetic[t] = g))
  BY <1>0, <1>5, <1>6 DEF ObjectTypes
<1>9. PICK b : b = binders[t]
  OBVIOUS
<1>10. PICK p : p = pubs[t]
  OBVIOUS
<1>11. binders' = [binders EXCEPT ![t] = b] /\ pubs' = [pubs EXCEPT ![t] = p] /\ p.gen = b
  BY <1>0, <1>1, <1>2, <1>4, <1>9, <1>10 DEF ObjectTypes, MapsAlive
<1>12. EndStep(g, t)
  BY <1>0, <1>1, <1>2, <1>8 DEF EndStep, MapsAlive
<1>13. ~Own(g)' /\ ~Routed(g)' /\ Objects!Born(g)'
  BY <1>0, <1>1, <1>2, <1>3, <1>8 DEF Own, Routed, Objects!Born
<1>14. GenOK(g)'
  BY <1>0, <1>2, <1>3, <1>7, <1>13 DEF GenOK, ReplyOK, NodeOK, PubOK, ProbeOK
<1>15. QED
  BY <1>0, <1>1, <1>2, <1>6, <1>7, <1>8, <1>9, <1>10, <1>11, <1>12, <1>14, AddressKeeps

LEMMA RegisterKeeps ==
    ASSUME Objects!ObjectsAssumption, ObjectInv, NEW g \in Gens, NEW t \in Targets,
           Objects!Register(g, t)
    PROVE  ObjectInv'
<1>0. GenOK(g) /\ ObjectTypes /\ MapsAlive /\ Objects!None \notin Gens
      /\ Objects!None \notin Targets
  BY DEF ObjectInv, Objects!ObjectsAssumption
<1>1. /\ target[g] = Objects!None /\ (\A h \in Gens : target[h] = t => h \in dead)
      /\ target' = [target EXCEPT ![g] = t] /\ ~closed
      /\ UNCHANGED <<probe, node, client, disarmed, closed>>
  BY DEF Objects!Register, Objects!Born, Objects!InUse, Objects!To
<1>2. reply[g] = "none" /\ node[g] = "none" /\ ~client[g] /\ probe[g] = "no"
  BY <1>1, BornFacts DEF Objects!Born
<1>3. target'[g] = t /\ AddressStep(g, t) /\ target' \in [Gens -> Targets \cup {Objects!None}]
  BY <1>0, <1>1 DEF AddressStep, ObjectTypes
<1>4. synthetic[t] # g /\ binders[t] # g
  BY <1>0, <1>1 DEF MapsAlive
<1>5. CASE /\ synthetic[t] = Objects!None /\ binders[t] = Objects!None
           /\ pubs' = Objects!To(pubs, t, [gen |-> g, pending |-> FALSE, owned |-> FALSE,
                                   conn |-> FALSE, binder |-> FALSE])
           /\ synthetic' = Objects!To(synthetic, t, g) /\ binders' = Objects!To(binders, t, g)
           /\ reply' = Objects!To(reply, g, "built") /\ UNCHANGED dead
  <2>1. PICK p : p = [gen |-> g, pending |-> FALSE, owned |-> FALSE, conn |-> FALSE,
          binder |-> FALSE]
    OBVIOUS
  <2>2. IsPubRec(p) /\ p.gen = g /\ ~p.pending /\ ~p.owned /\ ~p.conn /\ ~p.binder
    BY <2>1 DEF IsPubRec
  <2>3. pubs' = [pubs EXCEPT ![t] = p]
    BY <1>5, <2>1 DEF Objects!To
  <2>4. /\ synthetic'[t] = g /\ binders'[t] = g /\ pubs'[t] = p /\ reply'[g] = "built"
        /\ synthetic' \in [Targets -> Gens \cup {Objects!None}]
           /\ binders' \in [Targets -> Gens \cup {Objects!None}]
        /\ DOMAIN pubs' = Targets /\ pubs' = [x \in Targets |-> pubs'[x]]
        /\ DOMAIN reply' = Gens /\ reply' = [h \in Gens |-> reply'[h]]
        /\ \A h \in Gens \ {g} : reply'[h] = reply[h]
    BY <1>0, <1>5, <2>3 DEF Objects!To, ObjectTypes
  <2>5. Quiet(g)
    BY <1>1, <2>4 DEF Quiet
  <2>6. pubs[t].gen = Objects!None
    BY <1>0, <1>5 DEF MapsAlive
  <2>7. \A x \in Targets \ {t} :
          binders'[x] = binders[x] /\ synthetic'[x] = synthetic[x] /\ pubs'[x] = pubs[x]
    BY <1>0, <1>5, <2>3 DEF Objects!To, ObjectTypes
  <2>8. MapStep(g, t)
    BY <1>5, <2>2, <2>4, <2>6, <2>7 DEF MapStep
  <2>9. g \notin dead \cup disarmed
    BY <1>1 DEF ObjectInv, EndedWereBorn, Objects!Born
  <2>10. EndStep(g, t)
    BY <1>1, <1>5, <2>9 DEF EndStep
  <2>11. ObjectTypes'
    <3>1. ASSUME NEW x \in Targets PROVE pubs'[x] = Objects!NoPub \/ IsPubRec(pubs'[x])
      <4>1. CASE x = t
        BY <2>2, <2>4, <4>1
      <4>2. CASE x # t
        BY <1>0, <2>7, <4>2 DEF ObjectTypes
      <4>3. QED
        BY <4>1, <4>2
    <3>2. \A x \in Targets : (pubs[x] = Objects!NoPub \/ IsPubRec(pubs[x]))'
      BY <3>1 DEF IsPubRec
    <3>3. QED
      BY <1>0, <1>1, <1>3, <2>4, <3>2 DEF ObjectTypes
  <2>12. Own(g)' /\ Routed(g)' /\ Objects!Born(g)' /\ Pub(g)' = p
    BY <1>0, <1>3, <2>4 DEF Own, Routed, Objects!Born, Pub
  <2>13. GenOK(g)'
    BY <1>1, <1>2, <2>2, <2>4, <2>12 DEF GenOK, ReplyOK, NodeOK, PubOK, ProbeOK
  <2>14. QED
    BY <1>1, <1>3, <2>5, <2>8, <2>10, <2>11, <2>13, StepKeeps
<1>6. CASE /\ reply' = Objects!To(reply, g, "refused") /\ dead' = dead \cup {g}
           /\ pubs' = IF Objects!PubsFull THEN pubs ELSE Objects!To(pubs, t, Objects!NoPub)
           /\ UNCHANGED <<synthetic, binders>>
  <2>1. /\ reply'[g] = "refused" /\ DOMAIN reply' = Gens /\ reply' = [h \in Gens |-> reply'[h]]
        /\ \A h \in Gens \ {g} : reply'[h] = reply[h]
    BY <1>0, <1>6 DEF Objects!To, ObjectTypes
  <2>2. Quiet(g)
    BY <1>1, <2>1 DEF Quiet
  <2>a. binders[t] = Objects!None /\ pubs[t].gen = Objects!None
    BY <1>0, <1>1 DEF MapsAlive, ObjectTypes
  <2>b. /\ DOMAIN pubs' = Targets /\ pubs' = [x \in Targets |-> pubs'[x]]
        /\ pubs'[t] \in {pubs[t], Objects!NoPub} /\ \A x \in Targets \ {t} : pubs'[x] = pubs[x]
    BY <1>0, <1>6 DEF Objects!To, ObjectTypes
  <2>3. MapStep(g, t) /\ EndStep(g, t)
    BY <1>0, <1>1, <1>4, <1>6, <2>a, <2>b, NoPubGen DEF MapStep, EndStep, MapsAlive
  <2>4. ObjectTypes'
    <3>1. ASSUME NEW x \in Targets PROVE pubs'[x] = Objects!NoPub \/ IsPubRec(pubs'[x])
      BY <1>0, <2>b DEF ObjectTypes
    <3>2. \A x \in Targets : (pubs[x] = Objects!NoPub \/ IsPubRec(pubs[x]))'
      BY <3>1 DEF IsPubRec
    <3>3. QED
      BY <1>0, <1>1, <1>3, <1>6, <2>1, <2>b, <3>2 DEF ObjectTypes
  <2>5. ~Own(g)' /\ ~Routed(g)' /\ Objects!Born(g)'
    BY <1>0, <1>3, <1>4, <1>6 DEF Own, Routed, Objects!Born
  <2>6. GenOK(g)'
    BY <1>1, <1>2, <2>1, <2>5 DEF GenOK, ReplyOK, NodeOK, PubOK, ProbeOK
  <2>7. QED
    BY <1>1, <1>3, <2>2, <2>3, <2>4, <2>6, StepKeeps
<1>7. QED
  BY <1>5, <1>6 DEF Objects!Register
LEMMA CloseConnectionKeeps ==
    ASSUME Objects!ObjectsAssumption, ObjectInv, Objects!CloseConnection
    PROVE  ObjectInv'
<1> DEFINE mine == {g \in Gens : Objects!IsPub(g) /\ pubs[target[g]].conn}
           gone == {g \in mine : ~pubs[target[g]].pending}
           hit  == {g \in gone : Objects!Born(g)
           /\ g \in {binders[target[g]], synthetic[target[g]]}}
           spots == {target[g] : g \in hit}
<1>0. ObjectTypes /\ OneLives /\ EndedWereBorn /\ MapsAlive /\ Objects!None \notin Gens
      /\ Objects!None \notin Targets
  BY DEF ObjectInv, Objects!ObjectsAssumption
<1>1. /\ closed' = TRUE /\ UNCHANGED <<target, reply, dead>>
      /\ \A g \in Gens : node[g] # "delivered"
      /\ node' = [g \in Gens |-> IF node[g] = "queued" THEN "gone" ELSE node[g]]
      /\ client' = [g \in Gens |-> FALSE]
      /\ Objects!Drop(gone) /\ probe' = Objects!Unqueued(mine)
  BY DEF Objects!CloseConnection
<1>2. /\ synthetic' = [t \in Targets |-> IF t \in spots THEN Objects!None ELSE synthetic[t]]
      /\ binders' = [t \in Targets |-> IF t \in spots THEN Objects!None ELSE binders[t]]
      /\ pubs' = [t \in Targets |-> IF pubs[t].gen \in gone THEN Objects!NoPub ELSE pubs[t]]
      /\ probe' = [g \in Gens |-> IF g \in mine /\ probe[g] = "queued" THEN "no" ELSE probe[g]]
      /\ disarmed' = disarmed \cup hit
  BY <1>1 DEF Objects!Drop, Objects!Unqueued
<1>3. \A g \in Gens : Own(g) <=> Objects!IsPub(g)
  BY BornFacts
<1>4. gone \subseteq Gens /\ hit = gone /\ \A g \in gone : Own(g) /\ target[g] \in Targets
  <2>1. \A g \in gone : g \in Gens /\ Own(g)
    BY <1>3
  <2>2. \A g \in gone : target[g] \in Targets
    BY <2>1, BornFacts DEF Own
  <2>3. \A g \in gone : Objects!Born(g) /\ binders[target[g]] = g
    BY <2>1 DEF Own
  <2>4. QED
    BY <2>1, <2>2, <2>3
<1>5. \A g \in Gens : g \in gone => Objects!IsPub(g) /\ pubs[target[g]].conn
      /\ ~pubs[target[g]].pending
  OBVIOUS
<1>5a. \A t \in Targets : t \in spots <=> \E g \in gone : target[g] = t
  BY <1>4
<1>5b. \A g \in Gens : g \in gone <=> Own(g) /\ Pub(g).conn /\ ~Pub(g).pending
  BY <1>3 DEF Pub
<1> HIDE DEF mine, gone, hit, spots
<1>6. ASSUME NEW t \in Targets PROVE t \in spots <=> pubs[t].gen \in gone
  <2>1. ASSUME NEW g \in gone, target[g] = t PROVE pubs[t].gen = g
    BY <1>0, <1>4, <2>1 DEF Own, MapsAlive
  <2>2. ASSUME pubs[t].gen \in gone PROVE target[pubs[t].gen] = t
    BY <1>0, <1>4, <2>2 DEF MapsAlive
  <2>3. QED
    BY <1>5a, <2>1, <2>2
<1>7. ASSUME NEW t \in Targets
      PROVE  /\ t \in spots => synthetic'[t] = Objects!None /\ binders'[t] = Objects!None
                /\ pubs'[t] = Objects!NoPub
             /\ t \notin spots => synthetic'[t] = synthetic[t] /\ binders'[t] = binders[t]
                /\ pubs'[t] = pubs[t]
  BY <1>2, <1>6
<1>8. ObjectTypes'
  <2>1. synthetic' \in [Targets -> Gens \cup {Objects!None}]
        /\ binders' \in [Targets -> Gens \cup {Objects!None}]
    BY <1>0, <1>2 DEF ObjectTypes
  <2>2. DOMAIN pubs' = Targets /\ pubs' = [t \in Targets |-> pubs'[t]]
    BY <1>2
  <2>3. ASSUME NEW t \in Targets PROVE pubs'[t] = Objects!NoPub \/ IsPubRec(pubs'[t])
    BY <1>0, <1>7 DEF ObjectTypes
  <2>4. \A t \in Targets : (pubs[t] = Objects!NoPub \/ IsPubRec(pubs[t]))'
    BY <2>3 DEF IsPubRec
  <2>5. DOMAIN node' = Gens /\ node' = [g \in Gens |-> node'[g]] /\ client' \in [Gens -> BOOLEAN]
    BY <1>1
  <2>6. DOMAIN probe' = Gens /\ probe' = [g \in Gens |-> probe'[g]]
    BY <1>2
  <2>7. QED
    BY <1>0, <1>1, <2>1, <2>2, <2>4, <2>5, <2>6 DEF ObjectTypes
<1>9. OneLives' /\ EndedWereBorn'
  BY <1>0, <1>1, <1>2, <1>4 DEF OneLives, EndedWereBorn, Objects!Born, Own
<1>10. MapsAlive'
  <2> SUFFICES ASSUME NEW t \in Targets
               PROVE  /\ binders'[t] # Objects!None => target'[binders'[t]] = t
                         /\ binders'[t] \notin dead'
                      /\ synthetic'[t] # Objects!None =>
                           target'[synthetic'[t]] = t /\ synthetic'[t] \notin dead' \cup disarmed'
                      /\ pubs'[t].gen = binders'[t]
    BY DEF MapsAlive
  <2>1. CASE t \in spots
    BY <1>7, <2>1, NoPubGen
  <2>2. CASE t \notin spots
    <3>1. synthetic[t] # Objects!None => synthetic[t] \notin gone
      BY <1>0, <1>5a, <2>2 DEF MapsAlive
    <3>2. QED
      BY <1>0, <1>1, <1>2, <1>4, <1>7, <2>2, <3>1 DEF MapsAlive
  <2>3. QED
    BY <2>1, <2>2
<1>11. ASSUME NEW h \in Gens PROVE GenOK(h)'
  <2>0. GenOK(h)
    BY DEF ObjectInv
  <2>1. /\ ~client'[h] /\ closed' /\ reply'[h] = reply[h] /\ target'[h] = target[h]
        /\ node'[h] = IF node[h] = "queued" THEN "gone" ELSE node[h]
        /\ node[h] # "delivered" /\ probe'[h] \in {"no", probe[h]}
           /\ (Objects!Born(h)' <=> Objects!Born(h))
    BY <1>1, <1>2 DEF Objects!Born
  <2>2. Objects!Born(h) => target[h] \in Targets
    BY BornFacts
  <2>3. Own(h)' <=> Own(h) /\ h \notin gone
    <3>1. Own(h) => (target[h] \in spots <=> h \in gone)
      BY <1>0, <1>6, <2>2 DEF Own, MapsAlive
    <3>2. QED
      BY <1>0, <1>7, <2>1, <2>2, <3>1 DEF Own
  <2>4. Own(h)' => Pub(h)' = Pub(h)
    <3>1. Own(h)' => target[h] \in Targets /\ target[h] \notin spots
      BY <1>0, <1>7, <2>1, <2>2 DEF Own
    <3>2. QED
      BY <1>7, <2>1, <3>1 DEF Pub
  <2>5. Own(h) /\ Routed(h) /\ h \notin gone => Routed(h)'
    <3>1. Own(h) => (target[h] \in spots <=> h \in gone)
      BY <1>0, <1>6, <2>2 DEF Own, MapsAlive
    <3>2. QED
      BY <1>7, <2>1, <2>2, <3>1 DEF Routed
  <2>6. h \in gone => Pub(h).conn /\ ~Pub(h).pending
    BY <1>5b
  <2>7. ReplyOK(h)'
    BY <2>0, <2>1, <2>3, <2>4, <2>5, <2>6 DEF GenOK, ReplyOK
  <2>8. NodeOK(h)'
    BY <2>0, <2>1, <2>3, <2>4, <2>6 DEF GenOK, NodeOK
  <2>9. PubOK(h)'
    BY <2>0, <2>1, <2>3, <2>4 DEF GenOK, PubOK
  <2>10. ProbeOK(h)'
    BY <2>0, <2>1 DEF GenOK, ProbeOK
  <2>11. QED
    BY <2>7, <2>8, <2>9, <2>10 DEF GenOK
<1>12. QED
  BY <1>8, <1>9, <1>10, <1>11 DEF ObjectInv

LEMMA ObjectInit == ASSUME Objects!ObjectsAssumption, Objects!Init PROVE ObjectInv
<1>1. ObjectTypes
  BY DEF Objects!Init, ObjectTypes
<1>2. OneLives /\ EndedWereBorn
  BY DEF Objects!Init, OneLives, EndedWereBorn, Objects!Born
<1>3. MapsAlive
  BY NoPubGen DEF Objects!Init, MapsAlive
<1>4. ASSUME NEW g \in Gens PROVE GenOK(g)
  <2>1. /\ reply[g] = "none" /\ node[g] = "none" /\ ~client[g] /\ probe[g] = "no"
        /\ ~Objects!Born(g) /\ ~Own(g)
    BY DEF Objects!Init, Objects!Born, Own
  <2>2. QED
    BY <2>1 DEF GenOK, ReplyOK, NodeOK, PubOK, ProbeOK
<1>5. QED
  BY <1>1, <1>2, <1>3, <1>4 DEF ObjectInv

LEMMA ObjectInvReaches == ASSUME Objects!ObjectsAssumption, ObjectInv PROVE Objects!ObjectsReachable
<1>1. ASSUME NEW g \in Gens, node[g] \in {"queued", "delivered", "observed"}
      PROVE  binders[target[g]] = g /\ g \notin dead
  <2>1. Own(g)
    BY <1>1 DEF ObjectInv, GenOK, NodeOK
  <2>2. target[g] \in Targets /\ g # Objects!None
    BY <2>1, BornFacts DEF Own, Objects!ObjectsAssumption
  <2>3. QED
    BY <2>1, <2>2 DEF Own, ObjectInv, MapsAlive
<1>2. ASSUME NEW g \in Gens, client[g] PROVE synthetic[target[g]] = g
  BY <1>2 DEF ObjectInv, GenOK, NodeOK, Routed
<1>3. QED
  BY <1>1, <1>2 DEF Objects!ObjectsReachable, Objects!AcquireFindsObject, Objects!CallsRouted

LEMMA ObjectSteps ==
    ASSUME Objects!ObjectsAssumption, ObjectInv, [Objects!Next]_(Objects!vars)
    PROVE  ObjectInv'
<1>1. ASSUME NEW g \in Gens, Objects!Send(g) \/ Objects!Result(g) PROVE ObjectInv'
  BY <1>1, InstallKeeps, UnsentKeeps, FinishLocalKeeps, KernelReplyKeeps, MarkCompletedKeeps,
     ReadResultKeeps DEF Objects!Send, Objects!Result
<1>2. ASSUME NEW g \in Gens, Objects!Take(g) \/ Objects!CancelAcquire(g) PROVE ObjectInv'
  BY <1>2, NodeKeeps, ObserveAcquireKeeps, AcquireDoneKeeps, CancelKeeps DEF Objects!Take
<1>3. ASSUME NEW g \in Gens, Objects!Probe(g) \/ Objects!Query(g) \/ Objects!QueryFails(g)
      PROVE  ObjectInv'
  BY <1>3, ObjectProbeKeeps, ObjectProbeEndKeeps DEF Objects!Probe
<1>4. ASSUME NEW g \in Gens, Objects!ClientEnds(g) \/ Objects!ClientDrops(g) \/ Objects!KernelRelease(g)
      PROVE  ObjectInv'
  BY <1>4, NodeKeeps
<1>5. CASE UNCHANGED Objects!vars
  <2>1. ObjectTypes' /\ OneLives' /\ EndedWereBorn' /\ MapsAlive'
    BY <1>5 DEF Objects!vars, ObjectInv, ObjectTypes, IsPubRec, OneLives, EndedWereBorn,
       MapsAlive, Objects!Born
  <2>2. ASSUME NEW g \in Gens PROVE GenOK(g)'
    <3>1. GenOK(g)
      BY DEF ObjectInv
    <3>2. QED
      BY <1>5, <3>1 DEF Objects!vars, GenOK, ReplyOK, NodeOK, PubOK, ProbeOK, Own, Routed, Pub,
         Objects!Born
  <2>3. QED
    BY <2>1, <2>2 DEF ObjectInv
<1>6. QED
  BY <1>1, <1>2, <1>3, <1>4, <1>5, RegisterKeeps, DestroyKeeps,
     CloseConnectionKeeps DEF Objects!Next

\* For any generations, any addresses and any limit, whatever is lost, dropped,
\* closed or probed in whatever order: an object that the driver has an acquire
\* for has its initial strong reference and was not destroyed, and a client's
\* reference leads to its own operation, also when the address was used before.
THEOREM OperationsAreReachable ==
    Objects!ObjectsAssumption => (Objects!Spec => []ObjectsReachable)
<1> SUFFICES ASSUME Objects!ObjectsAssumption PROVE Objects!Spec => []ObjectsReachable
  OBVIOUS
<1>1. Objects!Init => ObjectInv
  BY ObjectInit
<1>2. ObjectInv /\ [Objects!Next]_(Objects!vars) => ObjectInv'
  BY ObjectSteps
<1>3. ObjectInv => ObjectsReachable
  BY ObjectInvReaches DEF ObjectsReachable
<1>4. QED
  BY <1>1, <1>2, <1>3, PTL DEF Objects!Spec
-----------------------------------------------------------------------------
(***************************************************************************)
(* PendingReplies.  Of a thread whose connection is in use the invariant   *)
(* says in which of nine situations it is, what is on its stacks then, and *)
(* what the hook keeps of it.                                              *)
(***************************************************************************)
ResultKinds == {"complete", "failed", "spam"}
Nums == Requests \cup Nat
Cmds == {"reply", "call", "oneway"} \X Nums
Items ==
         [k : {"transaction"}, cmd : {"request"} \X Requests]
    \cup [k : ResultKinds, cmd : Cmds]
    \cup [k : {"reply", "dead"}, cmd : {<<>>}]

FrameRecs == [id : Requests, claimed : BOOLEAN, pending : BOOLEAN]
Waits == [cmd : Cmds, reply : BOOLEAN, expects : BOOLEAN]
Orders == [k : {"reply", "call", "oneway", "free"}, n : Nums]

ReplyTypes ==
    /\ frames \in Seq(FrameRecs) /\ prepared \in Seq(Reply!Replies)
    /\ completions \in Seq(Waits)
    /\ sync \in Seq({"PendingCompletion", "AwaitingReply"})
    /\ host \in Seq(Requests \cup {Reply!Call}) /\ kstack \in Seq(Requests \cup {Reply!Call})
    /\ out \in Seq(Orders) /\ todo \in Seq(Items)
    /\ outbound \subseteq Requests /\ shadows \subseteq Requests
    /\ held \subseteq Requests /\ seen \subseteq Requests
    /\ given \in [Requests -> Seq(Requests \cup {Reply!None})]
    /\ built \in [Requests -> Nat] /\ calls \in Nat /\ broken \in BOOLEAN

Transaction(r) == [k |-> "transaction", cmd |-> <<"request", r>>]
Answered(k)    == [k |-> k, cmd |-> <<>>]
Order(k, n)    == [k |-> k, n |-> n]
Await(c)       == [cmd |-> c, reply |-> c[1] = "reply", expects |-> c[1] = "call"]

\* What the driver has added for the thread, to the base of its stack.
Extra(base, items, stack) ==
    \/ items = <<>> /\ stack = base
    \/ \E r \in Requests : items = <<Transaction(r)>> /\ stack = Append(base, r)
    \/ \E k \in {"reply", "dead"} :
          /\ items = <<Answered(k)>> /\ base # <<>> /\ Reply!Last(base) = Reply!Call
          /\ stack = Reply!Front(base)

\* What libbinder is in, and how deep the hook's stacks are for it: a frame for
\* each request and an entry of sync for each call, up to f and s.
InRequest == host # <<>> /\ Reply!Last(host) \in Requests
InCall    == host # <<>> /\ Reply!Last(host) = Reply!Call
Deep(f, s) == 2 * Len(frames) = Len(host) + f /\ 2 * Len(sync) = Len(host) + s

\* It waits for work, or in a call for the answer.
AtRest ==
    /\ host = <<>> \/ InCall
    /\ wait = IF host = <<>> THEN "work" ELSE "reply"
    /\ out = <<>> \/ \E n \in Requests : out = <<Order("free", n)>>
    /\ completions = <<>> /\ Extra(host, todo, kstack) /\ Deep(0, 0)

\* It serves a request.
AtWork ==
    /\ InRequest /\ wait = "none"
    /\ out = <<>> /\ todo = <<>> /\ kstack = host /\ completions = <<>> /\ Deep(1, -1)

\* A reply, a transaction that nobody answers, or a call is to be written.
ToReply ==
    /\ InRequest /\ wait = "complete" /\ out = <<Order("reply", Reply!Last(host))>>
    /\ todo = <<>> /\ kstack = host /\ completions = <<>> /\ Deep(1, -1)

ToSend ==
    /\ InRequest /\ wait = "complete" /\ Len(out) = 1 /\ out[1].k = "oneway"
    /\ todo = <<>> /\ kstack = host /\ completions = <<>> /\ Deep(1, -1)

ToCall ==
    /\ InCall /\ wait = "reply" /\ Len(out) = 1 /\ out[1].k = "call"
    /\ todo = <<>> /\ kstack = Reply!Front(host) /\ completions = <<>> /\ Deep(0, -2)

\* The result of the command of kind k is first in the driver's queue, and is
\* the only one that the hook waits for.
Result(k, results) ==
    /\ out = <<>> /\ todo # <<>> /\ Head(todo).k \in results /\ Head(todo).cmd \in {k} \X Nums
    /\ completions = <<Await(Head(todo).cmd)>>

\* The command was written, and its result not yet read.
Replied ==
    /\ InRequest /\ wait = "complete" /\ Result("reply", {"complete", "failed"})
    /\ Extra(Reply!Front(host), Tail(todo), kstack) /\ Deep(-1, -1)

Sent ==
    /\ InRequest /\ wait = "complete" /\ Result("oneway", ResultKinds)
    /\ Tail(todo) = <<>> /\ kstack = host /\ Deep(1, -1)

Called ==
    /\ InCall /\ wait = "reply" /\ Result("call", {"complete"})
    /\ Extra(host, Tail(todo), kstack) /\ Deep(0, 0)

CallFailed ==
    /\ InCall /\ wait = "reply" /\ Result("call", {"failed"})
    /\ Tail(todo) = <<>> /\ kstack = Reply!Front(host) /\ Deep(0, 0)

Situation ==
    AtRest \/ AtWork \/ ToReply \/ ToSend \/ ToCall \/ Replied \/ Sent \/ Called \/ CallFailed

\* The request of a frame is in the host's stack at its depth, and a call above it.
Depths ==
    /\ \A j \in 1..Len(frames) : frames[j].id = host[2 * j - 1]
    /\ \A j \in 1..Len(sync) : host[2 * j] = Reply!Call

\* Only the newest call can lack its first result.
Pending == completions # <<>> /\ completions[1].expects
SyncStates ==
    \A j \in 1..Len(sync) :
        sync[j] = IF j = Len(sync) /\ Pending THEN "PendingCompletion" ELSE "AwaitingReply"

\* No request is served twice.
Distinct == \A i, j \in 1..Len(host) : host[i] = host[j] /\ host[i] # Reply!Call => i = j

\* Only the newest frame can be claimed, with its reply prepared and, unless it
\* is passed on, made once; no other frame has been touched.
FrameOK(j) ==
    LET f == frames[j]
    IN  /\ given[f.id] = <<>>
        /\ f.claimed <=> prepared # <<>> /\ j = Len(frames)
        /\ f.pending <=> ~f.claimed /\ Kind[f.id] # "pass"
        /\ built[f.id] = IF f.claimed /\ Kind[f.id] # "pass" THEN 1 ELSE 0

\* The prepared reply is that of the request being served.
PreparedOK ==
    IF prepared = <<>>
    THEN outbound = {}
    ELSE /\ Reply!HasReply
         /\ \E d \in {Reply!None, Reply!Last(host)} :
                prepared = <<[frame |-> Reply!Last(host), data |-> d]>>

\* The buffers the driver is owed: of requests that are served, that wait to be
\* read, and that are about to be freed.
InHost  == {r \in Requests : \E i \in 1..Len(host) : host[i] = r}
Waiting == {r \in Requests : \E i \in 1..Len(todo) : todo[i] = Transaction(r)}
Freeing == Reply!Freed(Len(out))

Buffers ==
    /\ held = InHost \cup Waiting \cup Freeing
    /\ shadows = {r \in InHost \cup Freeing : Kind[r] = "omk"}
    /\ Waiting \cap InHost = {} /\ Freeing \cap (InHost \cup Waiting) = {}
    /\ held \subseteq seen

\* Nothing was made or given for a request that libbinder has not seen.
Untouched ==
    \A r \in Requests : r \notin seen \/ r \in Waiting => given[r] = <<>> /\ built[r] = 0

Live == /\ Situation /\ Depths /\ SyncStates /\ Distinct
        /\ (\A j \in 1..Len(frames) : FrameOK(j)) /\ PreparedOK /\ Buffers /\ Untouched

ReplyInv == ReplyTypes /\ Reply!RepliesMatch /\ (~broken => Live)
-----------------------------------------------------------------------------
LEMMA FrontFacts ==
    ASSUME NEW S, NEW s \in Seq(S), s # <<>>
    PROVE  /\ Reply!Front(s) \in Seq(S) /\ Len(Reply!Front(s)) = Len(s) - 1
           /\ \A i \in 1..(Len(s) - 1) : Reply!Front(s)[i] = s[i]
           /\ Reply!Last(s) = s[Len(s)] /\ Reply!Last(s) \in S /\ Len(s) \in Nat \ {0}
<1>1. Len(s) \in Nat \ {0}
  OBVIOUS
<1>2. Reply!Front(s) = SubSeq(s, 1, Len(s) - 1)
  BY DEF Reply!Front
<1>3. SubSeq(s, 1, Len(s) - 1) \in Seq(S)
  BY <1>1
<1>4. Len(SubSeq(s, 1, Len(s) - 1)) = Len(s) - 1
  <2>1. \A m \in Nat : m < Len(s) => Len(SubSeq(s, 1, m)) = m
    BY <1>1
  <2> DEFINE n == Len(s) - 1
  <2>2. n \in Nat /\ n < Len(s)
    BY <1>1
  <2> HIDE DEF n
  <2>3. Len(SubSeq(s, 1, n)) = n
    BY <2>1, <2>2
  <2>4. QED
    BY <2>3 DEF n
<1>5. \A i \in 1..(Len(s) - 1) : Reply!Front(s)[i] = s[i]
  BY <1>1 DEF Reply!Front
<1>6. Reply!Last(s) = s[Len(s)] /\ Reply!Last(s) \in S
  BY <1>1 DEF Reply!Last
<1>7. QED
  BY <1>1, <1>2, <1>5, <1>6, <1>3, <1>4

LEMMA AppendFacts ==
    ASSUME NEW S, NEW s \in Seq(S), NEW x \in S
    PROVE  /\ Append(s, x) \in Seq(S) /\ Append(s, x) # <<>> /\ Len(Append(s, x)) = Len(s) + 1
           /\ \A i \in 1..Len(s) : Append(s, x)[i] = s[i]
           /\ Append(s, x)[Len(s) + 1] = x /\ Reply!Last(Append(s, x)) = x /\ Len(s) \in Nat
<1>1. Len(Append(s, x)) = Len(s) + 1 /\ Len(s) \in Nat /\ Append(s, x)[Len(s) + 1] = x
  OBVIOUS
<1>2. QED
  BY <1>1 DEF Reply!Last

LEMMA SeqEqual ==
    ASSUME NEW S, NEW s \in Seq(S), NEW t \in Seq(S), Len(s) = Len(t),
           \A i \in 1..Len(s) : s[i] = t[i]
    PROVE  s = t
  OBVIOUS

LEMMA FrontAppend ==
    ASSUME NEW S, NEW s \in Seq(S), NEW x \in S
    PROVE  Reply!Front(Append(s, x)) = s
<1> DEFINE t == Append(s, x)
<1>1. t \in Seq(S) /\ t # <<>> /\ Len(t) = Len(s) + 1 /\ Len(s) \in Nat
  BY AppendFacts
<1> HIDE DEF t
<1>2. /\ Reply!Front(t) \in Seq(S) /\ Len(Reply!Front(t)) = Len(t) - 1
      /\ \A i \in 1..(Len(t) - 1) : Reply!Front(t)[i] = t[i]
  BY <1>1, FrontFacts, Zenon
<1>3. Len(Reply!Front(t)) = Len(s) /\ \A i \in 1..Len(s) : Reply!Front(t)[i] = t[i]
  BY <1>1, <1>2
<1>4. \A i \in 1..Len(s) : t[i] = s[i]
  BY AppendFacts DEF t
<1>5. Reply!Front(t) = s
  BY <1>2, <1>3, <1>4, SeqEqual
<1>6. QED
  BY <1>5 DEF t

LEMMA TailFacts ==
    ASSUME NEW S, NEW s \in Seq(S), s # <<>>
    PROVE  /\ Tail(s) \in Seq(S) /\ Len(Tail(s)) = Len(s) - 1
           /\ \A i \in 1..(Len(s) - 1) : Tail(s)[i] = s[i + 1]
           /\ Head(s) = s[1] /\ Head(s) \in S
  OBVIOUS

LEMMA TailAppend ==
    ASSUME NEW S, NEW s \in Seq(S), s # <<>>, NEW x \in S
    PROVE  Tail(Append(s, x)) = Append(Tail(s), x) /\ Head(Append(s, x)) = Head(s)
<1> DEFINE t == Append(s, x)
           u == Tail(s)
           v == Append(u, x)
<1>1. /\ t \in Seq(S) /\ t # <<>> /\ Len(t) = Len(s) + 1 /\ t[Len(s) + 1] = x
      /\ \A i \in 1..Len(s) : t[i] = s[i]
  BY AppendFacts
<1>2. /\ u \in Seq(S) /\ Len(u) = Len(s) - 1 /\ Len(s) \in Nat \ {0}
      /\ \A i \in 1..(Len(s) - 1) : u[i] = s[i + 1]
      /\ Head(s) = s[1] /\ Head(t) = t[1]
  BY TailFacts
<1> HIDE DEF t, u
<1>3. /\ v \in Seq(S) /\ Len(v) = Len(u) + 1 /\ v[Len(u) + 1] = x
      /\ \A i \in 1..Len(u) : v[i] = u[i]
  BY <1>2, AppendFacts
<1>4. /\ Tail(t) \in Seq(S) /\ Len(Tail(t)) = Len(t) - 1
      /\ \A i \in 1..(Len(t) - 1) : Tail(t)[i] = t[i + 1]
  BY <1>1, TailFacts, Zenon
<1> HIDE DEF v
<1>5. \A i \in 1..Len(s) : Tail(t)[i] = v[i]
  <2> SUFFICES ASSUME NEW i \in 1..Len(s) PROVE Tail(t)[i] = v[i]
    OBVIOUS
  <2>1. i \in 1..(Len(t) - 1) /\ Tail(t)[i] = t[i + 1]
    BY <1>1, <1>2, <1>4
  <2>2. CASE i = Len(s)
    BY <1>1, <1>2, <1>3, <2>1, <2>2
  <2>3. CASE i # Len(s)
    <3>1. i \in 1..Len(u) /\ i \in 1..(Len(s) - 1) /\ i + 1 \in 1..Len(s)
      BY <1>2, <2>3
    <3>2. QED
      BY <1>1, <1>2, <1>3, <2>1, <3>1
  <2>4. QED
    BY <2>2, <2>3
<1>6. Tail(t) = v
  BY <1>1, <1>2, <1>3, <1>4, <1>5, SeqEqual
<1>7. Head(t) = Head(s)
  BY <1>1, <1>2
<1>8. QED
  BY <1>6, <1>7 DEF t, u, v

LEMMA OneFacts ==
    ASSUME NEW x
    PROVE  /\ <<x>> # <<>> /\ Len(<<x>>) = 1 /\ Head(<<x>>) = x /\ Tail(<<x>>) = <<>>
           /\ <<x>>[1] = x /\ Reply!Last(<<x>>) = x /\ Append(<<>>, x) = <<x>>
  BY DEF Reply!Last

LEMMA Newest ==
    ASSUME NEW n \in Nat, n = Len(frames), n > 0, ~frames[n].claimed
    PROVE Reply!Unclaimed = n
  <1> DEFINE I == {i \in 1..Len(frames) : ~frames[i].claimed}
  <1>1. n \in I /\ \A y \in I : n >= y
    OBVIOUS
  <1>2. \A m \in I : (\A y \in I : m >= y) => m = n
    BY <1>1
  <1>3. Reply!Max(I) = n
    BY <1>1, <1>2 DEF Reply!Max
  <1>4. QED
   BY <1>1, <1>3 DEF Reply!Unclaimed, Reply!SelectLastInSeq

LEMMA WithoutLast ==
    ASSUME NEW S, frames \in Seq(S), frames # <<>>, NEW id,
           \A j \in 1..Len(frames) : frames[j].id = id <=> j = Len(frames)
    PROVE  Reply!Without(id) = Reply!Front(frames)
  <1> DEFINE I == {i \in 1..Len(frames) : frames[i].id = id}
             n == Len(frames)
  <1>1. n \in Nat \ {0} /\ I = {n}
    OBVIOUS
  <1>2. Reply!Min(I) = n
    BY <1>1 DEF Reply!Min
  <1>3. Reply!Without(id) = Reply!RemoveAt(frames, n)
    BY <1>1, <1>2 DEF Reply!Without, Reply!RemoveFirstMatch, Reply!SelectInSeq
  <1>4. Reply!RemoveAt(frames, n) = Reply!Front(frames)
    <2>1. SubSeq(frames, n+1, n) = <<>>
      BY <1>1
    <2>2. SubSeq(frames, 1, n-1) \in Seq(S)
      BY <1>1
    <2>3. QED
    BY <1>1, <2>1, <2>2 DEF Reply!RemoveAt, Reply!Front
  <1>5. QED
   BY <1>3, <1>4
Stack == Requests \cup {Reply!Call}

\* A stack that the driver may add to: a call is on top, of a request.
IsBase(b) ==
    /\ b \in Seq(Stack)
    /\ b # <<>> => Reply!Last(b) = Reply!Call /\ Reply!Front(b) # <<>>
                   /\ Reply!Last(Reply!Front(b)) \in Requests

LEMMA CallBase ==
    ASSUME ReplyTypes, Depths, host = <<>> \/ InCall, 2 * Len(frames) = Len(host)
    PROVE  IsBase(host)
<1>1. CASE host = <<>>
  BY <1>1 DEF IsBase, ReplyTypes, Stack
<1>2. CASE host # <<>>
  <2> DEFINE m == Len(frames)
  <2>1. host \in Seq(Stack) /\ frames \in Seq(FrameRecs) /\ m \in Nat
    BY DEF ReplyTypes, Stack
  <2>2. /\ Reply!Front(host) \in Seq(Stack) /\ Len(Reply!Front(host)) = Len(host) - 1
        /\ \A i \in 1..(Len(host) - 1) : Reply!Front(host)[i] = host[i]
        /\ Len(host) \in Nat \ {0}
    BY <1>2, <2>1, FrontFacts, Zenon
  <2>3. m > 0 /\ Len(Reply!Front(host)) = 2 * m - 1
    BY <2>1, <2>2
  <2>4. frames[m].id = host[2 * m - 1] /\ frames[m].id \in Requests
    <3> HIDE DEF m
    <3>1. m \in 1..Len(frames) /\ frames[m] \in FrameRecs
      BY <2>1, <2>3 DEF m
    <3>2. QED
      BY <3>1 DEF Depths, FrameRecs
  <2>5. Reply!Front(host) # <<>>
    BY <2>2, <2>3
  <2>6. Reply!Last(Reply!Front(host)) = Reply!Front(host)[2 * m - 1]
    BY <2>3 DEF Reply!Last
  <2>7. Reply!Front(host)[2 * m - 1] = host[2 * m - 1]
    BY <2>2, <2>3, <2>1
  <2>8. Reply!Last(host) = Reply!Call
    BY <1>2 DEF InCall
  <2>9. QED
    BY <2>1, <2>4, <2>5, <2>6, <2>7, <2>8 DEF IsBase
<1>3. QED
  BY <1>1, <1>2

LEMMA ReplyBase ==
    ASSUME ReplyTypes, Depths, InRequest, 2 * Len(frames) = Len(host) - 1,
           2 * Len(sync) = Len(host) - 1
    PROVE  IsBase(Reply!Front(host))
<1> DEFINE m == Len(frames)
           b == Reply!Front(host)
<1>1. host \in Seq(Stack) /\ frames \in Seq(FrameRecs) /\ m \in Nat /\ host # <<>>
  BY DEF ReplyTypes, Stack, InRequest
<1>2. /\ b \in Seq(Stack) /\ Len(b) = Len(host) - 1
      /\ \A i \in 1..(Len(host) - 1) : b[i] = host[i]
      /\ Len(host) \in Nat \ {0}
  BY <1>1, FrontFacts, Zenon
<1>3. CASE b = <<>>
  BY <1>2, <1>3 DEF IsBase
<1>4. CASE b # <<>>
  <2> HIDE DEF b
  <2>1. /\ Reply!Front(b) \in Seq(Stack) /\ Len(Reply!Front(b)) = Len(b) - 1
        /\ \A i \in 1..(Len(b) - 1) : Reply!Front(b)[i] = b[i]
        /\ Len(b) \in Nat \ {0} /\ Reply!Last(b) = b[Len(b)]
    BY <1>2, <1>4, FrontFacts, Zenon
  <2>2. m > 0 /\ Len(b) = 2 * m /\ Len(Reply!Front(b)) = 2 * m - 1 /\ Len(sync) = m
    BY <1>1, <1>2, <2>1 DEF ReplyTypes
  <2>3. frames[m].id = host[2 * m - 1] /\ frames[m].id \in Requests /\ host[2 * m] = Reply!Call
    <3>1. m \in 1..Len(frames) /\ m \in 1..Len(sync) /\ frames[m] \in FrameRecs
      BY <1>1, <2>2
    <3> HIDE DEF m
    <3>2. QED
      BY <3>1 DEF Depths, FrameRecs
  <2>4. Reply!Last(b) = Reply!Call
    BY <1>1, <1>2, <2>1, <2>2, <2>3
  <2>5. Reply!Front(b) # <<>> /\ Reply!Last(Reply!Front(b)) = Reply!Front(b)[2 * m - 1]
    BY <2>1, <2>2 DEF Reply!Last
  <2>6. Reply!Front(b)[2 * m - 1] = host[2 * m - 1]
    BY <1>1, <1>2, <2>1, <2>2
  <2>7. QED
    BY <1>2, <2>3, <2>4, <2>5, <2>6 DEF IsBase, b
<1>5. QED
  BY <1>3, <1>4

\* The driver adds something only where nothing was added.
LEMMA Room ==
    ASSUME Reply!RepliesAssumption, NEW b, IsBase(b), NEW items, Extra(b, items, kstack),
           Reply!Top(kstack) = Reply!Call
    PROVE  items = <<>> /\ kstack = b /\ b # <<>>
<1>1. CASE items = <<>> /\ kstack = b
  BY <1>1 DEF Reply!Top, Reply!Call, Reply!None
<1>2. ASSUME NEW r \in Requests, kstack = Append(b, r) PROVE FALSE
  <2>1. b \in Seq(Stack) /\ r \in Stack
    BY DEF IsBase, Stack
  <2>2. Append(b, r) # <<>> /\ Reply!Last(Append(b, r)) = r
    <3> HIDE DEF Stack
    <3>1. QED
      BY <2>1, AppendFacts
  <2>3. Reply!Top(kstack) = r
    BY <1>2, <2>2 DEF Reply!Top
  <2>4. QED
    BY <2>3 DEF Reply!RepliesAssumption
<1>3. ASSUME b # <<>>, kstack = Reply!Front(b) PROVE FALSE
  BY <1>3 DEF Reply!Top, IsBase, Reply!RepliesAssumption
<1>4. QED
  BY <1>1, <1>2, <1>3 DEF Extra

\* Where the driver adds something for the thread.
LEMMA WhereAdded ==
    ASSUME Reply!RepliesAssumption, ReplyTypes, Live,
           Reply!Top(kstack) = Reply!Call \/ (host = <<>> /\ todo = <<>>)
    PROVE  \/ AtRest /\ todo = <<>> /\ kstack = host /\ IsBase(host)
           \/ Replied /\ Tail(todo) = <<>> /\ kstack = Reply!Front(host)
              /\ IsBase(Reply!Front(host))
           \/ Called /\ Tail(todo) = <<>> /\ kstack = host /\ IsBase(host)
<1>1. Depths /\ Situation
  BY DEF Live
<1>2. CASE AtRest
  <2>1. IsBase(host)
    BY <1>1, <1>2, CallBase DEF AtRest, Deep, ReplyTypes
  <2>2. CASE host = <<>> /\ todo = <<>>
    BY <1>2, <2>1, <2>2, OneFacts DEF AtRest, Extra
  <2>3. CASE Reply!Top(kstack) = Reply!Call
    BY <1>2, <2>1, <2>3, Room DEF AtRest
  <2>4. QED
    BY <1>2, <2>1, <2>2, <2>3
<1>3. ASSUME InRequest, kstack = host PROVE FALSE
  BY <1>3 DEF InRequest, Reply!Top, Reply!RepliesAssumption
<1>4. ASSUME InCall, kstack = Reply!Front(host), 2 * Len(frames) = Len(host) PROVE FALSE
  <2>1. IsBase(host) /\ host # <<>>
    BY <1>1, <1>4, CallBase DEF InCall
  <2>2. QED
    BY <1>4, <2>1 DEF Reply!Top, IsBase, Reply!RepliesAssumption
<1>5. CASE Replied
  <2>1. host # <<>> /\ InRequest /\ 2 * Len(frames) = Len(host) - 1 /\ 2 * Len(sync) = Len(host) - 1
    BY <1>5 DEF Replied, InRequest, Deep, ReplyTypes
  <2>2. IsBase(Reply!Front(host)) /\ Reply!Top(kstack) = Reply!Call
    BY <1>1, <2>1, ReplyBase
  <2>3. QED
    BY <1>5, <2>2, Room DEF Replied
<1>6. CASE Called
  <2>1. InCall /\ 2 * Len(frames) = Len(host) /\ host # <<>>
    BY <1>6 DEF Called, InCall, Deep, ReplyTypes
  <2>2. IsBase(host) /\ Reply!Top(kstack) = Reply!Call
    BY <1>1, <2>1, CallBase
  <2>3. QED
    BY <1>6, <2>2, Room DEF Called
<1>7. ~AtWork /\ ~ToReply /\ ~ToSend /\ ~Sent
  BY <1>3 DEF AtWork, ToReply, ToSend, Sent
<1>8. ~ToCall /\ ~CallFailed
  BY <1>4 DEF ToCall, CallFailed, Deep, ReplyTypes
<1>9. QED
  BY <1>1, <1>2, <1>5, <1>6, <1>7, <1>8 DEF Situation

Frames == \A j \in 1..Len(frames) : FrameOK(j)

\* What the hook keeps is right if nothing of it, and of the thread, changes.
LEMMA HookKept ==
    ASSUME Live, UNCHANGED <<Reply!hook, host, out, given, built>>
    PROVE  /\ Depths' /\ SyncStates' /\ Distinct' /\ Frames' /\ PreparedOK'
           /\ InHost' = InHost /\ Freeing' = Freeing
<1>1. Depths /\ SyncStates /\ Distinct /\ Frames /\ PreparedOK
  BY DEF Live, Frames
<1>2. Depths' /\ SyncStates' /\ Distinct'
  BY <1>1 DEF Depths, SyncStates, Pending, Distinct, Reply!hook
<1>3. Frames'
  BY <1>1 DEF Frames, FrameOK, Reply!hook
<1>4. PreparedOK'
  BY <1>1 DEF PreparedOK, Reply!HasReply, Reply!Last, Reply!hook
<1>5. InHost' = InHost /\ Freeing' = Freeing
  BY DEF InHost, Freeing, Reply!Freed
<1>6. QED
  BY <1>2, <1>3, <1>4, <1>5

LEMMA ItemFacts ==
    ASSUME NEW r \in Requests
    PROVE  /\ Transaction(r) \in Items /\ Transaction(r).k = "transaction"
           /\ Transaction(r).cmd[2] = r
           /\ \A k \in {"reply", "dead"} : Answered(k) \in Items /\ Answered(k).k = k
  BY DEF Transaction, Answered, Items

LEMMA ItemsApart == \A q, r \in Requests : Transaction(q) = Transaction(r) => q = r
<1> SUFFICES ASSUME NEW q \in Requests, NEW r \in Requests, Transaction(q) = Transaction(r)
             PROVE  q = r
  OBVIOUS
<1>1. Transaction(q).cmd[2] = q /\ Transaction(r).cmd[2] = r
  BY ItemFacts
<1>2. QED
  BY <1>1

LEMMA WaitingAppend ==
    ASSUME todo \in Seq(Items), NEW x \in Items, todo' = Append(todo, x)
    PROVE  Waiting' = Waiting \cup {r \in Requests : x = Transaction(r)}
<1>1. /\ Len(todo') = Len(todo) + 1 /\ Len(todo) \in Nat /\ todo'[Len(todo) + 1] = x
      /\ \A i \in 1..Len(todo) : todo'[i] = todo[i]
  BY AppendFacts
<1>2. ASSUME NEW r \in Requests
      PROVE  (\E i \in 1..Len(todo') : todo'[i] = Transaction(r))
             <=> (\E i \in 1..Len(todo) : todo[i] = Transaction(r)) \/ x = Transaction(r)
  BY <1>1
<1>3. QED
  BY <1>2 DEF Waiting

\* The driver adds an item, and changes its stack with it.
LEMMA ItemAdded ==
    ASSUME Reply!RepliesAssumption, ReplyTypes, Live, NEW x \in Items,
           Reply!Top(kstack) = Reply!Call \/ (host = <<>> /\ todo = <<>>),
           todo' = Append(todo, x), Extra(kstack, <<x>>, kstack'),
           UNCHANGED <<Reply!hook, host, wait, out>>
    PROVE  Situation'
<1>1. todo \in Seq(Items)
  BY DEF ReplyTypes
<1>2. \/ AtRest /\ todo = <<>> /\ kstack = host
      \/ Replied /\ Tail(todo) = <<>> /\ kstack = Reply!Front(host)
      \/ Called /\ Tail(todo) = <<>> /\ kstack = host
  BY WhereAdded
<1>3. CASE AtRest /\ todo = <<>> /\ kstack = host
  <2>1. todo' = <<x>>
    BY <1>3, OneFacts
  <2>2. Extra(host', todo', kstack')
    BY <1>3, <2>1
  <2>3. AtRest'
    BY <1>3, <2>2 DEF AtRest, Reply!hook, Deep, InCall, Reply!Last
  <2>4. QED
    BY <2>3 DEF Situation
<1>4. ASSUME todo # <<>>, Tail(todo) = <<>>
      PROVE  Extra(kstack, Tail(todo'), kstack') /\ todo' # <<>> /\ Head(todo') = Head(todo)
  <2>1. Tail(todo') = Append(Tail(todo), x) /\ Head(todo') = Head(todo)
    BY <1>1, <1>4, TailAppend
  <2>2. todo' # <<>>
    BY <1>1, AppendFacts
  <2>3. Tail(todo') = <<x>>
    BY <1>4, <2>1, OneFacts
  <2>4. QED
    BY <2>1, <2>2, <2>3
<1>5. CASE Replied /\ Tail(todo) = <<>> /\ kstack = Reply!Front(host)
  <2>1. todo # <<>> /\ host' = host
    BY <1>5 DEF Replied, Result
  <2>2. Extra(Reply!Front(host'), Tail(todo'), kstack') /\ todo' # <<>> /\ Head(todo') = Head(todo)
    BY <1>4, <1>5, <2>1
  <2>3. Replied'
    BY <1>5, <2>1, <2>2 DEF Replied, Result, Deep, InRequest, Reply!hook, Reply!Last
  <2>4. QED
    BY <2>3 DEF Situation
<1>6. CASE Called /\ Tail(todo) = <<>> /\ kstack = host
  <2>1. todo # <<>> /\ host' = host
    BY <1>6 DEF Called, Result
  <2>2. Extra(host', Tail(todo'), kstack') /\ todo' # <<>> /\ Head(todo') = Head(todo)
    BY <1>4, <1>6, <2>1
  <2>3. Called'
    BY <1>6, <2>1, <2>2 DEF Called, Result, Deep, InCall, Reply!hook, Reply!Last
  <2>4. QED
    BY <2>3 DEF Situation
<1>7. QED
  BY <1>2, <1>3, <1>5, <1>6

LEMMA DeliverKeeps ==
    ASSUME Reply!RepliesAssumption, ReplyInv, NEW r \in Requests, Reply!Deliver(r)
    PROVE  ReplyInv'
<1> DEFINE x == Transaction(r)
<1>1. /\ ~broken /\ Live /\ ReplyTypes /\ r \notin seen /\ broken' = broken
      /\ todo' = Append(todo, x) /\ kstack' = Append(kstack, r)
      /\ held' = held \cup {r} /\ seen' = seen \cup {r}
      /\ UNCHANGED <<Reply!hook, host, wait, out, given, built, calls>>
  BY DEF ReplyInv, Reply!Deliver, Transaction
<1>2. x \in Items /\ kstack \in Seq(Stack) /\ todo \in Seq(Items) /\ r \in Stack
  BY <1>1, ItemFacts DEF ReplyTypes, Stack
<1>3. Extra(kstack, <<x>>, kstack')
  BY <1>1 DEF Extra
<1> HIDE DEF x
<1>4. ReplyTypes'
  <2>1. todo' \in Seq(Items) /\ kstack' \in Seq(Stack)
    BY <1>1, <1>2, AppendFacts
  <2>2. QED
    BY <1>1, <2>1 DEF ReplyTypes, Reply!hook, Stack
<1>5. Situation'
  BY <1>1, <1>2, <1>3, ItemAdded DEF Reply!Deliver
<1>6. /\ Depths' /\ SyncStates' /\ Distinct' /\ Frames' /\ PreparedOK'
      /\ InHost' = InHost /\ Freeing' = Freeing
  BY <1>1, HookKept
<1>7. Waiting' = Waiting \cup {r}
  <2>1. {q \in Requests : x = Transaction(q)} = {r}
    BY ItemsApart DEF x
  <2>2. QED
    BY <1>1, <1>2, <2>1, WaitingAppend
<1>8. Buffers'
  BY <1>1, <1>6, <1>7 DEF Live, Buffers, Reply!hook
<1>9. Untouched'
  BY <1>1, <1>7 DEF Live, Untouched
<1>10. Reply!RepliesMatch'
  BY <1>1 DEF ReplyInv, Reply!RepliesMatch
<1>11. QED
  BY <1>4, <1>5, <1>6, <1>8, <1>9, <1>10 DEF ReplyInv, Live, Frames

LEMMA AnswerKeeps ==
    ASSUME Reply!RepliesAssumption, ReplyInv, Reply!Answer
    PROVE  ReplyInv'
<1>1. PICK k \in {"reply", "dead"} : todo' = Append(todo, Answered(k))
  BY DEF Reply!Answer, Answered
<1> DEFINE x == Answered(k)
<1>2. /\ ~broken /\ Live /\ ReplyTypes /\ broken' = broken /\ Reply!Top(kstack) = Reply!Call
      /\ todo' = Append(todo, x) /\ kstack' = Reply!Front(kstack)
      /\ UNCHANGED <<Reply!hook, host, wait, out, held, seen, given, built, calls>>
  BY <1>1 DEF ReplyInv, Reply!Answer
<1>3. x \in Items /\ x.k = k /\ kstack \in Seq(Stack) /\ todo \in Seq(Items)
  <2>1. x = [k |-> k, cmd |-> <<>>]
    BY DEF Answered
  <2>2. QED
    BY <1>2, <2>1 DEF ReplyTypes, Stack, Items
<1>4. kstack # <<>> /\ Reply!Last(kstack) = Reply!Call
  BY <1>2 DEF Reply!Top, Reply!None, Reply!Call
<1>5. Extra(kstack, <<x>>, kstack')
  BY <1>2, <1>4 DEF Extra
<1> HIDE DEF x
<1>6. ReplyTypes'
  <2>1. todo' \in Seq(Items) /\ kstack' \in Seq(Stack)
    BY <1>2, <1>3, <1>4, AppendFacts, FrontFacts
  <2>2. QED
    BY <1>2, <2>1 DEF ReplyTypes, Reply!hook, Stack
<1>7. Situation'
  BY <1>2, <1>3, <1>5, ItemAdded
<1>8. /\ Depths' /\ SyncStates' /\ Distinct' /\ Frames' /\ PreparedOK'
      /\ InHost' = InHost /\ Freeing' = Freeing
  BY <1>2, HookKept
<1>9. Waiting' = Waiting
  <2>1. {q \in Requests : x = Transaction(q)} = {}
    BY <1>3, ItemFacts
  <2>2. QED
    BY <1>2, <1>3, <2>1, WaitingAppend
<1>10. Buffers' /\ Untouched'
  BY <1>2, <1>8, <1>9 DEF Live, Buffers, Untouched, Reply!hook
<1>11. Reply!RepliesMatch'
  BY <1>2 DEF ReplyInv, Reply!RepliesMatch
<1>12. QED
  BY <1>6, <1>7, <1>8, <1>10, <1>11 DEF ReplyInv, Live, Frames

\* Only a thread that is at work has anything to send.
LEMMA ServingAtWork ==
    ASSUME Live, wait = "none"
    PROVE  AtWork /\ prepared = <<>> /\ outbound = {}
<1>1. AtWork
  BY DEF Live, Situation, AtRest, ToReply, ToSend, ToCall, Replied, Sent, Called, CallFailed
<1>2. QED
  BY <1>1 DEF Live, PreparedOK, Reply!HasReply, AtWork

LEMMA SendReplyKeeps ==
    ASSUME Reply!RepliesAssumption, ReplyInv, Reply!SendReply
    PROVE  ReplyInv'
<1>1. /\ ~broken /\ Live /\ ReplyTypes /\ broken' = broken /\ wait = "none"
      /\ Reply!Top(host) \in Requests /\ wait' = "complete"
      /\ out' = Append(out, Order("reply", Reply!Top(host)))
      /\ UNCHANGED <<Reply!hook, host, Reply!driver, built, calls>>
  BY DEF ReplyInv, Reply!SendReply, Reply!Serving, Order
<1>2. AtWork /\ prepared = <<>> /\ outbound = {}
  BY <1>1, ServingAtWork
<1>3. out' = <<Order("reply", Reply!Last(host))>> /\ Reply!Last(host) \in Requests
  BY <1>1, <1>2, OneFacts DEF AtWork, InRequest, Reply!Top
<1>4. ReplyTypes'
  <2>1. out' \in Seq(Orders)
    BY <1>3 DEF Orders, Order, Nums
  <2>2. QED
    BY <1>1, <2>1 DEF ReplyTypes, Reply!hook, Reply!driver
<1>5. ToReply'
  BY <1>1, <1>2, <1>3 DEF AtWork, ToReply, InRequest, Deep, Reply!hook, Reply!driver, Reply!Last
<1>6. Freeing = {} /\ Freeing' = {}
  BY <1>2, <1>3, OneFacts DEF AtWork, Freeing, Reply!Freed, Order
<1>7. Depths' /\ SyncStates' /\ Distinct' /\ Frames'
  BY <1>1 DEF Live, Depths, SyncStates, Pending, Distinct, Frames, FrameOK, Reply!hook, Reply!driver
<1>8. PreparedOK'
  BY <1>1, <1>2 DEF PreparedOK, Reply!hook
<1>9. Buffers' /\ Untouched'
  BY <1>1, <1>6 DEF Live, Buffers, Untouched, InHost, Waiting, Reply!hook, Reply!driver
<1>10. Reply!RepliesMatch'
  BY <1>1 DEF ReplyInv, Reply!RepliesMatch, Reply!driver
<1>11. QED
  BY <1>4, <1>5, <1>7, <1>8, <1>9, <1>10 DEF ReplyInv, Live, Frames, Situation

LEMMA OnewayKeeps ==
    ASSUME Reply!RepliesAssumption, ReplyInv, Reply!Transact("oneway")
    PROVE  ReplyInv'
<1>1. /\ ~broken /\ Live /\ ReplyTypes /\ broken' = broken /\ wait = "none"
      /\ wait' = "complete" /\ calls' = calls + 1
      /\ out' = Append(out, Order("oneway", calls'))
      /\ UNCHANGED <<Reply!hook, host, Reply!driver, built>>
  BY DEF ReplyInv, Reply!Transact, Reply!Serving, Order
<1>2. AtWork /\ prepared = <<>> /\ outbound = {}
  BY <1>1, ServingAtWork
<1>3. out' = <<Order("oneway", calls')>> /\ calls' \in Nat
  BY <1>1, <1>2, OneFacts DEF AtWork, ReplyTypes
<1>4. ReplyTypes'
  <2>1. out' \in Seq(Orders)
    BY <1>3 DEF Orders, Order, Nums
  <2>2. QED
    BY <1>1, <1>3, <2>1 DEF ReplyTypes, Reply!hook, Reply!driver
<1>5. ToSend'
  <2>1. Len(out') = 1 /\ out'[1].k = "oneway"
    BY <1>3, OneFacts DEF Order
  <2>2. QED
    BY <1>1, <1>2, <2>1 DEF AtWork, ToSend, InRequest, Deep, Reply!hook, Reply!driver, Reply!Last
<1>6. Freeing = {} /\ Freeing' = {}
  BY <1>2, <1>3, OneFacts DEF AtWork, Freeing, Reply!Freed, Order
<1>7. Depths' /\ SyncStates' /\ Distinct' /\ Frames'
  BY <1>1 DEF Live, Depths, SyncStates, Pending, Distinct, Frames, FrameOK, Reply!hook, Reply!driver
<1>8. PreparedOK'
  BY <1>1, <1>2 DEF PreparedOK, Reply!hook
<1>9. Buffers' /\ Untouched'
  BY <1>1, <1>6 DEF Live, Buffers, Untouched, InHost, Waiting, Reply!hook, Reply!driver
<1>10. Reply!RepliesMatch'
  BY <1>1 DEF ReplyInv, Reply!RepliesMatch, Reply!driver
<1>11. QED
  BY <1>4, <1>5, <1>7, <1>8, <1>9, <1>10 DEF ReplyInv, Live, Frames, Situation

LEMMA CallKeeps ==
    ASSUME Reply!RepliesAssumption, ReplyInv, Reply!Transact("call")
    PROVE  ReplyInv'
<1>1. /\ ~broken /\ Live /\ ReplyTypes /\ broken' = broken /\ wait = "none"
      /\ wait' = "reply" /\ calls' = calls + 1 /\ host' = Append(host, Reply!Call)
      /\ out' = Append(out, Order("call", calls'))
      /\ UNCHANGED <<Reply!hook, Reply!driver, built>>
  BY DEF ReplyInv, Reply!Transact, Reply!Serving, Order
<1>2. AtWork /\ prepared = <<>> /\ outbound = {}
  BY <1>1, ServingAtWork
<1>3. out' = <<Order("call", calls')>> /\ calls' \in Nat
  BY <1>1, <1>2, OneFacts DEF AtWork, ReplyTypes
<1>4. host \in Seq(Stack) /\ Reply!Call \in Stack
  BY <1>1 DEF ReplyTypes, Stack
<1>5. /\ host' \in Seq(Stack) /\ host' # <<>> /\ Len(host') = Len(host) + 1 /\ Len(host) \in Nat
      /\ \A i \in 1..Len(host) : host'[i] = host[i]
      /\ host'[Len(host) + 1] = Reply!Call /\ Reply!Last(host') = Reply!Call
  BY <1>1, <1>4, AppendFacts
<1>6. Reply!Front(host') = host
  BY <1>1, <1>4, FrontAppend
<1>7. ReplyTypes'
  <2>1. out' \in Seq(Orders)
    BY <1>3 DEF Orders, Order, Nums
  <2>2. QED
    BY <1>1, <1>3, <1>5, <2>1 DEF ReplyTypes, Reply!hook, Reply!driver, Stack
<1>8. /\ Len(frames) \in Nat /\ Len(sync) \in Nat
      /\ 2 * Len(frames) = Len(host) + 1 /\ 2 * Len(sync) = Len(host) - 1
  BY <1>1, <1>2 DEF AtWork, Deep, ReplyTypes
<1>9. ToCall'
  <2>1. Len(out') = 1 /\ out'[1].k = "call"
    BY <1>3, OneFacts DEF Order
  <2>2. Deep(0, -2)'
    BY <1>1, <1>5, <1>8 DEF Deep, Reply!hook
  <2>3. QED
    BY <1>1, <1>2, <1>5, <1>6, <2>1, <2>2 DEF AtWork, ToCall, InCall, Reply!hook, Reply!driver
<1>10. Freeing = {} /\ Freeing' = {}
  BY <1>2, <1>3, OneFacts DEF AtWork, Freeing, Reply!Freed, Order
<1>11. Depths'
  <2>1. \A j \in 1..Len(frames) : frames[j].id = host'[2 * j - 1]
    <3> SUFFICES ASSUME NEW j \in 1..Len(frames) PROVE frames[j].id = host'[2 * j - 1]
      OBVIOUS
    <3>1. 2 * j - 1 \in 1..Len(host)
      BY <1>5, <1>8
    <3>2. QED
      BY <1>1, <1>5, <3>1 DEF Live, Depths
  <2>2. \A j \in 1..Len(sync) : host'[2 * j] = Reply!Call
    <3> SUFFICES ASSUME NEW j \in 1..Len(sync) PROVE host'[2 * j] = Reply!Call
      OBVIOUS
    <3>1. 2 * j \in 1..Len(host)
      BY <1>5, <1>8
    <3>2. QED
      BY <1>1, <1>5, <3>1 DEF Live, Depths
  <2>3. QED
    BY <1>1, <2>1, <2>2 DEF Depths, Reply!hook
<1>12. Distinct'
  BY <1>1, <1>5 DEF Live, Distinct
<1>13. InHost' = InHost
  BY <1>5 DEF InHost, Reply!RepliesAssumption
<1>14. SyncStates' /\ Frames' /\ PreparedOK'
  BY <1>1, <1>2 DEF Live, SyncStates, Pending, Frames, FrameOK, PreparedOK, Reply!hook, Reply!driver
<1>15. Buffers' /\ Untouched'
  BY <1>1, <1>10, <1>13 DEF Live, Buffers, Untouched, Waiting, Reply!hook, Reply!driver
<1>16. Reply!RepliesMatch'
  BY <1>1 DEF ReplyInv, Reply!RepliesMatch, Reply!driver
<1>17. QED
  BY <1>7, <1>9, <1>11, <1>12, <1>14, <1>15, <1>16 DEF ReplyInv, Live, Frames, Situation

\* What there is to write, and where the thread is then.
LEMMA WhereWritten ==
    ASSUME Live, out # <<>>
    PROVE  /\ Len(out) = 1 /\ Reply!Last(out) = out[1]
           /\ \/ AtRest /\ \E n \in Requests : out = <<Order("free", n)>>
              \/ ToReply \/ ToSend \/ ToCall
           /\ Reply!HasReply => ToReply
<1>1. AtRest \/ ToReply \/ ToSend \/ ToCall
  BY DEF Live, Situation, AtWork, Replied, Sent, Called, CallFailed, Result
<1>2. CASE AtRest
  <2>1. PICK n \in Requests : out = <<Order("free", n)>>
    BY <1>2 DEF AtRest
  <2>2. QED
    BY <1>2, <2>1, OneFacts DEF Reply!HasReply, Order
<1>3. CASE ToReply
  BY <1>3, OneFacts DEF ToReply, Reply!Last
<1>4. CASE ToSend \/ ToCall
  BY <1>4 DEF ToSend, ToCall, Reply!HasReply, Reply!Last
<1>5. QED
  BY <1>1, <1>2, <1>3, <1>4

\* Another command than a reply is written as it is.
LEMMA OtherWritten ==
    ASSUME NEW p \in Reply!Replies, Reply!Write(p), ~Reply!HasReply
    PROVE  p.frame = Reply!None /\ p.data = Reply!None /\ built' = built /\ ~Reply!Making
  BY DEF Reply!Write, Reply!Prepare, Reply!Making

\* The frame a reply takes is that of the request being served, the newest
\* one, whether it is claimed now or was when the command was first seen.
LEMMA ReplyWritten ==
    ASSUME Reply!RepliesAssumption, ReplyInv, NEW p \in Reply!Replies, Reply!Write(p),
           Reply!HasReply, NEW r, r = Reply!Last(host)
    PROVE  /\ ToReply /\ r \in Requests /\ frames # <<>> /\ frames[Len(frames)].id = r
           /\ \A j \in 1..Len(frames) : frames[j].id = r <=> j = Len(frames)
           /\ p.frame = r /\ p.data \in {Reply!None, r}
           /\ Reply!Without(p.frame) = Reply!Front(frames)
           /\ Reply!Making <=> prepared = <<>>
           /\ Reply!Making => Reply!Unclaimed = Len(frames)
           /\ built' \in [Requests -> Nat]
           /\ built'[r] = (IF Kind[r] # "pass" THEN 1 ELSE 0)
           /\ \A q \in Requests \ {r} : built'[q] = built[q]
           /\ given[r] = <<>>
<1> DEFINE m == Len(frames)
<1>1. ~broken /\ Live /\ ReplyTypes /\ out # <<>> /\ p.data \in {Reply!None, p.frame}
  BY DEF ReplyInv, Reply!Write
<1>2. ToReply
  BY <1>1, WhereWritten
<1>3. /\ r \in Requests /\ host # <<>> /\ host \in Seq(Stack) /\ r = host[Len(host)]
      /\ Len(host) \in Nat \ {0} /\ m \in Nat /\ 2 * m = Len(host) + 1 /\ frames \in Seq(FrameRecs)
  BY <1>1, <1>2 DEF ToReply, InRequest, ReplyTypes, Stack, Reply!Last, Deep
<1>4. m > 0 /\ m \in 1..Len(frames) /\ 2 * m - 1 = Len(host)
  BY <1>3
<1>5. frames # <<>> /\ frames[m].id = r
  <2> HIDE DEF m
  <2>1. frames[m].id = host[2 * m - 1]
    BY <1>1, <1>4 DEF Live, Depths
  <2>2. QED
    BY <1>3, <1>4, <2>1 DEF m
<1>6. ASSUME NEW j \in 1..Len(frames), frames[j].id = r PROVE j = m
  <2>1. 2 * j - 1 \in 1..Len(host) /\ Len(host) \in 1..Len(host)
    BY <1>3, <1>4
  <2>2. frames[j].id = host[2 * j - 1]
    BY <1>1 DEF Live, Depths
  <2>3. host[2 * j - 1] = host[Len(host)] /\ host[2 * j - 1] # Reply!Call
    BY <1>3, <1>6, <2>2 DEF Reply!RepliesAssumption
  <2>4. 2 * j - 1 = Len(host)
    BY <1>1, <2>1, <2>3 DEF Live, Distinct
  <2>5. QED
    BY <1>3, <1>4, <2>4
<1>7. FrameOK(m) /\ frames[m] \in FrameRecs
  BY <1>1, <1>3, <1>4 DEF Live
<1>8. ASSUME prepared = <<>>
      PROVE  /\ Reply!Making /\ Reply!Unclaimed = m /\ p.frame = r /\ built' \in [Requests -> Nat]
             /\ built'[r] = (IF Kind[r] # "pass" THEN 1 ELSE 0)
             /\ \A q \in Requests \ {r} : built'[q] = built[q]
  <2>1. ~frames[m].claimed
    BY <1>7, <1>8 DEF FrameOK
  <2>2. Reply!Unclaimed = m /\ Reply!Unclaimed # 0
    BY <1>3, <1>4, <2>1, Newest
  <2>3. Reply!Making /\ p.frame = r
    BY <1>5, <1>8, <2>2 DEF Reply!Making, Reply!Write, Reply!Prepare
  <2>4. frames[m].pending <=> Kind[r] # "pass"
    BY <1>5, <1>7, <2>1 DEF FrameOK
  <2>5. built[r] = 0 /\ built \in [Requests -> Nat]
    BY <1>1, <1>5, <1>7, <2>1 DEF FrameOK, ReplyTypes
  <2>6. built' = IF Kind[r] # "pass" THEN [built EXCEPT ![r] = @ + 1] ELSE built
    BY <2>2, <2>3, <2>4 DEF Reply!Write
  <2>7. QED
    BY <1>3, <2>2, <2>3, <2>5, <2>6
<1>9. ASSUME prepared # <<>>
      PROVE  /\ ~Reply!Making /\ p.frame = r /\ built' \in [Requests -> Nat]
             /\ built'[r] = (IF Kind[r] # "pass" THEN 1 ELSE 0)
             /\ \A q \in Requests \ {r} : built'[q] = built[q]
  <2>1. PICK d \in {Reply!None, Reply!Last(host)} :
        prepared = <<[frame |-> Reply!Last(host), data |-> d]>>
    BY <1>1, <1>9 DEF Live, PreparedOK
  <2>2. p = Head(prepared)
    BY <1>9 DEF Reply!Write, Reply!Prepare
  <2>3. p.frame = r /\ p.data = d
    BY <2>1, <2>2, OneFacts
  <2>4. ~Reply!Making /\ built' = built
    BY <1>9 DEF Reply!Making, Reply!Write
  <2>5. frames[m].claimed
    BY <1>7, <1>9 DEF FrameOK
  <2>6. built[r] = (IF Kind[r] # "pass" THEN 1 ELSE 0) /\ built \in [Requests -> Nat]
    BY <1>1, <1>5, <1>7, <2>5 DEF FrameOK, ReplyTypes
  <2>7. QED
    BY <2>3, <2>4, <2>6
<1>10. p.frame = r
  BY <1>8, <1>9
<1>11. Reply!Without(r) = Reply!Front(frames)
  BY <1>3, <1>5, <1>6, WithoutLast
<1>12. given[r] = <<>>
  BY <1>5, <1>7 DEF FrameOK
<1>13. QED
  BY <1>1, <1>2, <1>3, <1>5, <1>6, <1>8, <1>9, <1>10, <1>11, <1>12

LEMMA WriteFailedKeeps ==
    ASSUME Reply!RepliesAssumption, ReplyInv, Reply!WriteFailed
    PROVE  ReplyInv'
<1>1. PICK p \in Reply!Replies :
        /\ Reply!Write(p) /\ frames' = (IF Reply!HasReply THEN Reply!Without(p.frame) ELSE frames)
        /\ prepared' = <<>> /\ outbound' = {} /\ broken' = TRUE
        /\ UNCHANGED <<completions, sync, shadows, kstack, todo, held, given, out>>
  BY DEF Reply!WriteFailed
<1>2. ReplyTypes /\ Reply!RepliesMatch /\ UNCHANGED <<host, wait, seen, calls>>
  BY <1>1 DEF ReplyInv, Reply!Write
<1>3. CASE Reply!HasReply
  <2> DEFINE r == Reply!Last(host)
  <2>1. /\ r \in Requests /\ frames # <<>> /\ Reply!Without(p.frame) = Reply!Front(frames)
        /\ built' \in [Requests -> Nat]
        /\ built'[r] = (IF Kind[r] # "pass" THEN 1 ELSE 0)
        /\ \A q \in Requests \ {r} : built'[q] = built[q]
        /\ given[r] = <<>>
    BY <1>1, <1>3, ReplyWritten
  <2> HIDE DEF r
  <2>2. frames' \in Seq(FrameRecs)
    <3>1. frames' = Reply!Front(frames) /\ frames \in Seq(FrameRecs)
      BY <1>1, <1>2, <1>3, <2>1 DEF ReplyTypes
    <3>2. QED
      BY <2>1, <3>1, FrontFacts
  <2>3. ReplyTypes'
    <3>1. prepared' \in Seq(Reply!Replies) /\ outbound' \subseteq Requests /\ broken' \in BOOLEAN
      BY <1>1
    <3>2. /\ built' \in [Requests -> Nat]
          /\ UNCHANGED <<completions, sync, shadows, kstack, todo, held, given, out, host, seen,
                         calls>>
      BY <1>1, <1>2, <2>1
    <3>3. QED
      BY <1>2, <2>2, <3>1, <3>2 DEF ReplyTypes
  <2>4. Reply!RepliesMatch'
    BY <1>1, <1>2, <2>1 DEF Reply!RepliesMatch
  <2>5. QED
    BY <1>1, <2>3, <2>4 DEF ReplyInv
<1>4. CASE ~Reply!HasReply
  <2>1. built' = built /\ frames' = frames
    BY <1>1, <1>4, OtherWritten
  <2>2. ReplyTypes' /\ Reply!RepliesMatch'
    BY <1>1, <1>2, <2>1 DEF ReplyTypes, Reply!RepliesMatch
  <2>3. QED
    BY <1>1, <2>2 DEF ReplyInv
<1>5. QED
  BY <1>3, <1>4

LEMMA ResetKeeps ==
    ASSUME ReplyInv, Reply!Reset
    PROVE  ReplyInv'
<1>1. ReplyTypes' /\ Reply!RepliesMatch' /\ broken'
  BY DEF ReplyInv, Reply!Reset, ReplyTypes, Reply!RepliesMatch, Reply!driver
<1>2. QED
  BY <1>1 DEF ReplyInv

\* The last command is left: libbinder has the same to write.
LEMMA WriteInterruptedKeeps ==
    ASSUME Reply!RepliesAssumption, ReplyInv, Reply!WriteInterrupted
    PROVE  ReplyInv'
<1>1. PICK p \in Reply!Replies, n \in 0..(Len(out) - 1) :
        /\ Reply!Write(p)
        /\ frames' = IF Reply!Making
                     THEN [frames EXCEPT ![Reply!Unclaimed].claimed = TRUE,
                                         ![Reply!Unclaimed].pending = FALSE]
                     ELSE frames
        /\ prepared' = (IF Reply!HasReply THEN <<p>> ELSE prepared)
        /\ outbound' = (IF p.data = Reply!None THEN outbound ELSE outbound \cup {p.data})
        /\ shadows' = shadows \ Reply!Freed(n)
        /\ held' = held \ {r \in Reply!Freed(n) : Kind[r] # "omk" \/ r \in shadows}
        /\ out' = SubSeq(out, n + 1, Len(out))
        /\ UNCHANGED <<completions, sync, kstack, todo, given, broken>>
  BY DEF Reply!WriteInterrupted
<1>2. /\ ReplyTypes /\ Reply!RepliesMatch /\ Live /\ ~broken /\ out # <<>>
      /\ UNCHANGED <<host, wait, seen, calls>>
  BY <1>1 DEF ReplyInv, Reply!Write
<1>3. Len(out) = 1 /\ n = 0
  <2>1. Len(out) = 1
    BY <1>2, WhereWritten
  <2>2. QED
    BY <2>1
<1>4. out' = out /\ shadows' = shadows /\ held' = held
  <2>1. Reply!Freed(n) = {}
    BY <1>3 DEF Reply!Freed
  <2>2. SubSeq(out, 1, 1) = out
    BY <1>2, <1>3 DEF ReplyTypes
  <2>3. QED
    BY <1>1, <1>3, <2>1, <2>2
<1>5. CASE ~Reply!HasReply
  <2>1. built' = built /\ UNCHANGED <<frames, prepared, outbound>>
    BY <1>1, <1>5, OtherWritten
  <2>2. UNCHANGED Reply!vars
    BY <1>1, <1>2, <1>4, <2>1 DEF Reply!vars, Reply!hook, Reply!driver
  <2>3. /\ Depths' /\ SyncStates' /\ Distinct' /\ Frames' /\ PreparedOK'
        /\ InHost' = InHost /\ Freeing' = Freeing
    BY <1>2, <2>2, HookKept DEF Reply!vars, Reply!driver
  <2>4. ReplyTypes' /\ Reply!RepliesMatch' /\ Waiting' = Waiting
    BY <1>2, <2>2 DEF ReplyTypes, Reply!RepliesMatch, Waiting, Reply!vars, Reply!hook, Reply!driver
  <2>5. Situation'
    BY <1>2, <2>2 DEF Live, Situation, AtRest, AtWork, ToReply, ToSend, ToCall, Replied, Sent,
       Called, CallFailed, Result, Deep, InCall, InRequest, Reply!vars, Reply!hook, Reply!driver
  <2>6. Buffers' /\ Untouched'
    BY <1>2, <2>2, <2>3, <2>4 DEF Live, Buffers, Untouched, Reply!vars, Reply!hook, Reply!driver
  <2>7. QED
    BY <2>3, <2>4, <2>5, <2>6 DEF ReplyInv, Live, Frames
<1>6. CASE Reply!HasReply
  <2> DEFINE r == Reply!Last(host)
             m == Len(frames)
  <2>1. /\ ToReply /\ r \in Requests /\ frames # <<>> /\ frames[m].id = r
        /\ \A j \in 1..m : frames[j].id = r <=> j = m
        /\ p.frame = r /\ p.data \in {Reply!None, r}
        /\ Reply!Making <=> prepared = <<>>
        /\ Reply!Making => Reply!Unclaimed = m
        /\ built' \in [Requests -> Nat]
        /\ built'[r] = (IF Kind[r] # "pass" THEN 1 ELSE 0)
        /\ \A q \in Requests \ {r} : built'[q] = built[q]
        /\ given[r] = <<>>
    BY <1>1, <1>6, ReplyWritten
  <2>2. frames \in Seq(FrameRecs) /\ m \in Nat \ {0}
    BY <1>2, <2>1 DEF ReplyTypes
  <2>3. frames[m] \in FrameRecs
    BY <2>2
  <2>4. /\ frames' \in Seq(FrameRecs) /\ Len(frames') = m
        /\ \A j \in 1..m : frames'[j].id = frames[j].id
        /\ \A j \in 1..m : j # m => frames'[j] = frames[j]
        /\ frames'[m].claimed /\ ~frames'[m].pending
    <3>1. CASE Reply!Making
      <4> DEFINE g == [frames[m] EXCEPT !.claimed = TRUE, !.pending = FALSE]
      <4>1. frames' = [frames EXCEPT ![m] = g]
        BY <1>1, <2>1, <2>2, <3>1
      <4>2. g \in FrameRecs /\ g.id = frames[m].id /\ g.claimed /\ ~g.pending
        BY <2>3 DEF FrameRecs
      <4> HIDE DEF g
      <4>3. frames' \in Seq(FrameRecs) /\ Len(frames') = m
        BY <2>2, <4>1, <4>2
      <4>4. \A j \in 1..m : frames'[j] = IF j = m THEN g ELSE frames[j]
        BY <2>2, <4>1
      <4>5. QED
        BY <2>2, <4>2, <4>3, <4>4
    <3>2. CASE ~Reply!Making
      <4>1. frames' = frames /\ prepared # <<>>
        BY <1>1, <2>1, <3>2
      <4>2. FrameOK(m)
        BY <1>2, <2>2 DEF Live
      <4>3. frames[m].claimed /\ ~frames[m].pending
        BY <4>1, <4>2 DEF FrameOK
      <4>4. QED
        BY <2>2, <4>1, <4>3
    <3>3. QED
      BY <3>1, <3>2
  <2> HIDE DEF r, m
  <2>5. prepared' = <<p>> /\ prepared' \in Seq(Reply!Replies) /\ prepared' # <<>>
    BY <1>1, <1>6, OneFacts
  <2>6. ReplyTypes'
    <3>1. outbound' \subseteq Requests
      BY <1>1, <1>2, <2>1 DEF ReplyTypes
    <3>2. QED
      BY <1>1, <1>2, <1>4, <2>1, <2>4, <2>5, <3>1 DEF ReplyTypes
  <2>7. Reply!RepliesMatch'
    BY <1>1, <1>2, <2>1 DEF Reply!RepliesMatch
  <2>8. Situation'
    <3>1. Len(frames') = Len(frames)
      BY <2>4 DEF m
    <3>2. ToReply'
      BY <1>1, <1>2, <1>4, <2>1, <3>1 DEF ToReply, InRequest, Deep, Reply!Last
    <3>3. QED
      BY <3>2 DEF Situation
  <2>9. Depths' /\ SyncStates' /\ Distinct'
    BY <1>1, <1>2, <2>4 DEF Live, Depths, SyncStates, Pending, Distinct, m
  <2>10. Frames'
    <3> SUFFICES ASSUME NEW j \in 1..m PROVE FrameOK(j)'
      BY <2>4 DEF Frames
    <3>1. CASE j = m
      BY <1>1, <2>1, <2>4, <2>5, <3>1 DEF FrameOK
    <3>2. CASE j # m
      <4>1. frames'[j] = frames[j] /\ frames[j].id # r /\ FrameOK(j) /\ frames[j].id \in Requests
        <5>1. FrameOK(j) /\ frames[j] \in FrameRecs
          BY <1>2, <2>2 DEF Live, m
        <5>2. QED
          BY <2>1, <2>4, <3>2, <5>1 DEF FrameRecs
      <4>2. built'[frames[j].id] = built[frames[j].id]
        BY <2>1, <4>1
      <4>3. ~frames[j].claimed
        BY <3>2, <4>1 DEF FrameOK, m
      <4>4. QED
        BY <1>1, <2>4, <3>2, <4>1, <4>2, <4>3 DEF FrameOK
    <3>3. QED
      BY <3>1, <3>2
  <2>11. PreparedOK'
    <3>1. p = [frame |-> r, data |-> p.data]
      BY <2>1 DEF Reply!Replies
    <3>2. Reply!HasReply'
      BY <1>4, <1>6 DEF Reply!HasReply, Reply!Last
    <3>3. Reply!Last(host') = r
      BY <1>2 DEF r, Reply!Last
    <3>4. QED
      BY <2>1, <2>5, <3>1, <3>2, <3>3 DEF PreparedOK
  <2>12. InHost' = InHost /\ Freeing' = Freeing /\ Waiting' = Waiting
    BY <1>1, <1>2, <1>4 DEF InHost, Freeing, Reply!Freed, Waiting
  <2>13. Buffers'
    BY <1>2, <1>4, <2>12 DEF Live, Buffers
  <2>14. Untouched'
    <3>1. r \in InHost
      <4>1. host # <<>> /\ host \in Seq(Stack)
        BY <1>2, <2>1 DEF ToReply, InRequest, ReplyTypes, Stack
      <4>2. r = host[Len(host)] /\ Len(host) \in 1..Len(host)
        BY <4>1 DEF r, Reply!Last
      <4>3. QED
        BY <2>1, <4>2 DEF InHost
    <3>2. r \in seen /\ r \notin Waiting
      BY <1>2, <3>1 DEF Live, Buffers
    <3>3. QED
      BY <1>1, <1>2, <2>1, <2>12, <3>2 DEF Live, Untouched
  <2>15. QED
    BY <2>6, <2>7, <2>8, <2>9, <2>10, <2>11, <2>13, <2>14 DEF ReplyInv, Live, Frames
<1>7. QED
  BY <1>5, <1>6

\* What WriteAll does whatever the command is.
Flushed(p) ==
    /\ Reply!Write(p) /\ Reply!Consume(Reply!Last(out), p.data)
    /\ frames' = (IF Reply!HasReply THEN Reply!Without(p.frame) ELSE frames)
    /\ prepared' = <<>> /\ outbound' = {}
    /\ completions' = Reply!Recorded(Reply!Last(out))
    /\ sync' = (IF Reply!Last(out).k = "call" THEN Append(sync, "PendingCompletion") ELSE sync)
    /\ shadows' = shadows \ Reply!Freed(Len(out))
    /\ held' = held \ {r \in Reply!Freed(Len(out)) : Kind[r] # "omk" \/ r \in shadows}
    /\ out' = <<>> /\ UNCHANGED broken

\* A reply is consumed: its frame goes, and its result is awaited.
LEMMA ReplyFlushed ==
    ASSUME Reply!RepliesAssumption, ReplyInv, NEW p \in Reply!Replies, Flushed(p), ToReply
    PROVE  ReplyInv'
<1> DEFINE r == Reply!Last(host)
           m == Len(frames)
           c == <<"reply", r>>
<1>1. /\ ReplyTypes /\ Reply!RepliesMatch /\ Live /\ ~broken /\ broken' = broken
      /\ UNCHANGED <<host, wait, seen, calls>>
  BY DEF ReplyInv, Reply!Write, Flushed
<1>2. /\ out = <<Order("reply", r)>> /\ Reply!Last(out) = Order("reply", r)
      /\ Reply!HasReply /\ Len(out) = 1
      /\ Reply!Last(out).k = "reply" /\ Reply!Last(out).n = r
  BY OneFacts DEF ToReply, Reply!HasReply, Order
<1>3. Reply!Freed(Len(out)) = {} /\ Freeing = {}
  BY <1>2, OneFacts DEF Freeing, Reply!Freed, Order
<1>4. /\ r \in Requests /\ frames # <<>> /\ frames[m].id = r
      /\ \A j \in 1..m : frames[j].id = r <=> j = m
      /\ p.frame = r /\ p.data \in {Reply!None, r} /\ Reply!Without(p.frame) = Reply!Front(frames)
      /\ built' \in [Requests -> Nat]
      /\ built'[r] = (IF Kind[r] # "pass" THEN 1 ELSE 0)
      /\ \A q \in Requests \ {r} : built'[q] = built[q]
      /\ given[r] = <<>>
  BY <1>2, ReplyWritten DEF Flushed
<1>5. /\ host # <<>> /\ host \in Seq(Stack) /\ kstack = host /\ todo = <<>> /\ completions = <<>>
      /\ wait = "complete" /\ InRequest /\ Deep(1, -1)
  BY <1>1 DEF ToReply, InRequest, ReplyTypes, Stack
<1>6. PICK k \in {"complete", "failed"} : todo' = Append(todo, [k |-> k, cmd |-> c])
  BY <1>2 DEF Flushed, Reply!Consume
<1> DEFINE x == [k |-> k, cmd |-> c]
<1>7. /\ todo' = <<x>> /\ todo' # <<>> /\ Tail(todo') = <<>> /\ Head(todo') = x
      /\ x.k = k /\ x.cmd = c /\ x \in Items /\ c \in {"reply"} \X Nums
  <2>1. todo' = <<x>>
    BY <1>5, <1>6, OneFacts
  <2>2. c \in {"reply"} \X Nums
    BY <1>4 DEF Nums
  <2>3. x \in Items
    BY <2>2 DEF Items, Cmds, ResultKinds
  <2>4. QED
    BY <2>1, <2>2, <2>3, OneFacts
<1>8. /\ kstack' = Reply!Front(host)
      /\ given' = [given EXCEPT ![r] = Append(@, p.data)]
  BY <1>2, <1>5 DEF Flushed, Reply!Consume
<1>9. completions' = <<Await(c)>>
  BY <1>2, <1>5, OneFacts DEF Flushed, Reply!Recorded, Await
<1>10. /\ frames' = Reply!Front(frames) /\ frames \in Seq(FrameRecs) /\ m \in Nat \ {0}
       /\ frames' \in Seq(FrameRecs) /\ Len(frames') = m - 1
       /\ \A j \in 1..(m - 1) : frames'[j] = frames[j]
  <2>1. frames' = Reply!Front(frames) /\ frames \in Seq(FrameRecs)
    BY <1>1, <1>2, <1>4 DEF Flushed, ReplyTypes
  <2>2. QED
    BY <1>4, <2>1, FrontFacts
<1>11. sync' = sync /\ shadows' = shadows /\ held' = held /\ prepared' = <<>> /\ outbound' = {}
       /\ out' = <<>>
  BY <1>2, <1>3 DEF Flushed
<1>12. /\ given'[r] = <<p.data>> /\ \A q \in Requests \ {r} : given'[q] = given[q]
       /\ given' \in [Requests -> Seq(Requests \cup {Reply!None})]
  <2>1. given \in [Requests -> Seq(Requests \cup {Reply!None})] /\ Append(<<>>, p.data) = <<p.data>>
    BY <1>1, OneFacts DEF ReplyTypes
  <2>2. <<p.data>> \in Seq(Requests \cup {Reply!None})
    BY <1>4
  <2>3. QED
    BY <1>4, <1>8, <2>1, <2>2
<1>13. ReplyTypes'
  <2>1. todo' \in Seq(Items)
    BY <1>7
  <2>2. kstack' \in Seq(Stack)
    BY <1>5, <1>8, FrontFacts
  <2>3. completions' \in Seq(Waits)
    <3>1. Await(c) \in Waits
      BY <1>7 DEF Await, Waits, Cmds
    <3>2. QED
      BY <1>9, <3>1
  <2> HIDE DEF r, m, c, x
  <2>4. prepared' \in Seq(Reply!Replies) /\ out' \in Seq(Orders) /\ outbound' \subseteq Requests
    BY <1>11
  <2>5. /\ frames' \in Seq(FrameRecs) /\ built' \in [Requests -> Nat]
        /\ given' \in [Requests -> Seq(Requests \cup {Reply!None})]
    BY <1>4, <1>10, <1>12
  <2>6. QED
    BY <1>1, <1>11, <2>1, <2>2, <2>3, <2>4, <2>5 DEF ReplyTypes, Stack
<1> HIDE DEF r, m, c, x
<1>14. Reply!RepliesMatch'
  BY <1>1, <1>4, <1>12 DEF Reply!RepliesMatch
<1>15. Situation'
  <2>1. Extra(Reply!Front(host'), Tail(todo'), kstack')
    BY <1>1, <1>7, <1>8 DEF Extra
  <2>2. Result("reply", {"complete", "failed"})'
    BY <1>6, <1>7, <1>9, <1>11 DEF Result
  <2>3. Deep(-1, -1)'
    <3>1. 2 * m = Len(host) + 1 /\ 2 * Len(sync) = Len(host) - 1 /\ Len(host) \in Nat
      BY <1>5 DEF Deep, m
    <3>2. 2 * Len(frames') = Len(host') - 1 /\ 2 * Len(sync') = Len(host') - 1
      BY <1>1, <1>10, <1>11, <3>1
    <3>3. QED
      BY <3>1, <3>2, <1>1 DEF Deep
  <2>4. Replied'
    BY <1>1, <1>5, <2>1, <2>2, <2>3 DEF Replied, InRequest, Reply!Last
  <2>5. QED
    BY <2>4 DEF Situation
<1>16. Depths' /\ Distinct'
  <2>1. \A j \in 1..(m - 1) : frames'[j].id = host'[2 * j - 1]
    <3> SUFFICES ASSUME NEW j \in 1..(m - 1) PROVE frames'[j].id = host'[2 * j - 1]
      OBVIOUS
    <3>1. j \in 1..Len(frames)
      BY <1>10 DEF m
    <3>2. QED
      BY <1>1, <1>10, <3>1 DEF Live, Depths
  <2>2. QED
    BY <1>1, <1>10, <1>11, <2>1 DEF Live, Depths, Distinct
<1>17. SyncStates'
  <2>1. ~Pending /\ ~Pending'
    BY <1>5, <1>9, OneFacts DEF Pending, Await, c
  <2>2. QED
    BY <1>1, <1>11, <2>1 DEF Live, SyncStates
<1>18. Frames'
  <2> SUFFICES ASSUME NEW j \in 1..(m - 1) PROVE FrameOK(j)'
    BY <1>10 DEF Frames
  <2>1. FrameOK(j) /\ frames[j] \in FrameRecs /\ j \in 1..m /\ j # m
    BY <1>1, <1>10 DEF Live, m
  <2>2. frames'[j] = frames[j] /\ frames[j].id \in Requests \ {r}
    BY <1>4, <1>10, <2>1 DEF FrameRecs
  <2>3. ~frames[j].claimed
    BY <2>1 DEF FrameOK, m
  <2>4. given'[frames[j].id] = given[frames[j].id] /\ built'[frames[j].id] = built[frames[j].id]
    BY <1>4, <1>12, <2>2
  <2>5. QED
    BY <1>11, <2>1, <2>2, <2>3, <2>4 DEF FrameOK
<1>19. PreparedOK'
  BY <1>11 DEF PreparedOK
<1>20. /\ InHost' = InHost /\ Freeing' = {} /\ Waiting = {} /\ Waiting' = {}
  <2>1. x.k # "transaction"
    BY <1>6, <1>7
  <2>2. Waiting' = {}
    BY <1>7, <2>1, ItemFacts, OneFacts DEF Waiting
  <2>3. QED
    BY <1>1, <1>5, <1>11, <2>2 DEF InHost, Freeing, Reply!Freed, Waiting
<1>21. Buffers'
  BY <1>1, <1>3, <1>11, <1>20 DEF Live, Buffers
<1>22. Untouched'
  <2>1. r = host[Len(host)] /\ Len(host) \in 1..Len(host)
    BY <1>5 DEF r, Reply!Last
  <2>2. r \in seen
    BY <1>1, <1>4, <2>1 DEF Live, Buffers, InHost
  <2>3. QED
    BY <1>1, <1>4, <1>12, <1>20, <2>2 DEF Live, Untouched
<1>23. QED
  BY <1>13, <1>14, <1>15, <1>16, <1>17, <1>18, <1>19, <1>21, <1>22 DEF ReplyInv, Live, Frames

\* A transaction that nobody answers is consumed.
LEMMA OnewayFlushed ==
    ASSUME Reply!RepliesAssumption, ReplyInv, NEW p \in Reply!Replies, Flushed(p), ToSend
    PROVE  ReplyInv'
<1> DEFINE c == <<"oneway", out[1].n>>
<1>1. /\ ReplyTypes /\ Reply!RepliesMatch /\ Live /\ ~broken /\ broken' = broken
      /\ UNCHANGED <<host, wait, seen, calls>>
  BY DEF ReplyInv, Reply!Write, Flushed
<1>2. Len(out) = 1 /\ Reply!Last(out) = out[1] /\ Reply!Last(out).k = "oneway" /\ ~Reply!HasReply
  BY DEF ToSend, Reply!HasReply, Reply!Last
<1>3. Reply!Freed(Len(out)) = {} /\ Freeing = {}
  BY <1>2 DEF Freeing, Reply!Freed
<1>4. built' = built
  BY <1>2, OtherWritten DEF Flushed
<1>5. /\ todo = <<>> /\ completions = <<>> /\ wait = "complete" /\ InRequest /\ Deep(1, -1)
      /\ kstack = host
  BY DEF ToSend
<1>6. PICK k \in ResultKinds : todo' = Append(todo, [k |-> k, cmd |-> c])
  BY <1>2 DEF Flushed, Reply!Consume, ResultKinds
<1> DEFINE x == [k |-> k, cmd |-> c]
<1>7. /\ todo' = <<x>> /\ todo' # <<>> /\ Tail(todo') = <<>> /\ Head(todo') = x
      /\ x.k = k /\ x.cmd = c /\ x \in Items /\ c \in {"oneway"} \X Nums
  <2>1. todo' = <<x>>
    BY <1>5, <1>6, OneFacts
  <2>2. out[1] \in Orders
    <3>1. out \in Seq(Orders) /\ 1 \in 1..Len(out)
      BY <1>1, <1>2 DEF ReplyTypes
    <3>2. QED
      BY <3>1
  <2>3. c \in {"oneway"} \X Nums
    BY <2>2 DEF Orders
  <2>4. x \in Items
    BY <2>3 DEF Items, Cmds
  <2>5. QED
    BY <2>1, <2>3, <2>4, OneFacts
<1>8. completions' = <<Await(c)>> /\ Await(c) \in Waits
  <2>1. completions' = <<Await(c)>>
    BY <1>2, <1>5, OneFacts DEF Flushed, Reply!Recorded, Await
  <2>2. QED
    BY <1>7, <2>1 DEF Await, Waits, Cmds
<1>9. /\ UNCHANGED <<kstack, given, frames, sync, shadows, held>>
      /\ prepared' = <<>> /\ outbound' = {} /\ out' = <<>>
  BY <1>2, <1>3 DEF Flushed, Reply!Consume
<1>10. prepared = <<>> /\ outbound = {}
  BY <1>1, <1>2 DEF Live, PreparedOK
<1> HIDE DEF c, x
<1>11. ReplyTypes'
  <2>1. todo' \in Seq(Items) /\ completions' \in Seq(Waits)
    BY <1>7, <1>8
  <2>2. prepared' \in Seq(Reply!Replies) /\ out' \in Seq(Orders) /\ outbound' \subseteq Requests
    BY <1>9
  <2>3. QED
    BY <1>1, <1>4, <1>9, <2>1, <2>2 DEF ReplyTypes
<1>12. Reply!RepliesMatch'
  BY <1>1, <1>4, <1>9 DEF Reply!RepliesMatch
<1>13. Situation'
  <2>1. Result("oneway", ResultKinds)'
    BY <1>6, <1>7, <1>8, <1>9 DEF Result
  <2>2. Sent'
    BY <1>1, <1>5, <1>7, <1>9, <2>1 DEF Sent, InRequest, Reply!Last, Deep
  <2>3. QED
    BY <2>2 DEF Situation
<1>14. SyncStates'
  <2>1. ~Pending /\ ~Pending'
    BY <1>5, <1>8, OneFacts DEF Pending, Await, c
  <2>2. QED
    BY <1>1, <1>9, <2>1 DEF Live, SyncStates
<1>15. Depths' /\ Distinct' /\ Frames' /\ PreparedOK'
  BY <1>1, <1>4, <1>9, <1>10 DEF Live, Depths, Distinct, Frames, FrameOK, PreparedOK
<1>16. /\ InHost' = InHost /\ Freeing' = {} /\ Waiting = {} /\ Waiting' = {}
  <2>1. x.k # "transaction"
    BY <1>6, <1>7 DEF ResultKinds
  <2>2. Waiting' = {}
    BY <1>7, <2>1, ItemFacts, OneFacts DEF Waiting
  <2>3. QED
    BY <1>1, <1>5, <1>9, <2>2 DEF InHost, Freeing, Reply!Freed, Waiting
<1>17. Buffers' /\ Untouched'
  BY <1>1, <1>3, <1>4, <1>9, <1>16 DEF Live, Buffers, Untouched
<1>18. QED
  BY <1>11, <1>12, <1>13, <1>14, <1>15, <1>17 DEF ReplyInv, Live, Frames

\* A call is consumed: it is on the driver's stack unless it failed.
LEMMA CallFlushed ==
    ASSUME Reply!RepliesAssumption, ReplyInv, NEW p \in Reply!Replies, Flushed(p), ToCall
    PROVE  ReplyInv'
<1> DEFINE c == <<"call", out[1].n>>
<1>1. /\ ReplyTypes /\ Reply!RepliesMatch /\ Live /\ ~broken /\ broken' = broken
      /\ UNCHANGED <<host, wait, seen, calls>>
  BY DEF ReplyInv, Reply!Write, Flushed
<1>2. Len(out) = 1 /\ Reply!Last(out) = out[1] /\ Reply!Last(out).k = "call" /\ ~Reply!HasReply
  BY DEF ToCall, Reply!HasReply, Reply!Last
<1>3. Reply!Freed(Len(out)) = {} /\ Freeing = {}
  BY <1>2 DEF Freeing, Reply!Freed
<1>4. built' = built
  BY <1>2, OtherWritten DEF Flushed
<1>5. /\ todo = <<>> /\ completions = <<>> /\ wait = "reply" /\ InCall /\ Deep(0, -2)
      /\ kstack = Reply!Front(host) /\ host # <<>> /\ host \in Seq(Stack)
      /\ Reply!Last(host) = Reply!Call
  BY <1>1 DEF ToCall, InCall, ReplyTypes, Stack
<1>6. PICK k \in {"complete", "failed"} :
        /\ todo' = Append(todo, [k |-> k, cmd |-> c])
        /\ kstack' = IF k = "complete" THEN Append(kstack, Reply!Call) ELSE kstack
  BY <1>2 DEF Flushed, Reply!Consume
<1> DEFINE x == [k |-> k, cmd |-> c]
<1>7. /\ todo' = <<x>> /\ todo' # <<>> /\ Tail(todo') = <<>> /\ Head(todo') = x
      /\ x.k = k /\ x.cmd = c /\ x \in Items /\ c \in {"call"} \X Nums
  <2>1. todo' = <<x>>
    BY <1>5, <1>6, OneFacts
  <2>2. out[1] \in Orders
    <3>1. out \in Seq(Orders) /\ 1 \in 1..Len(out)
      BY <1>1, <1>2 DEF ReplyTypes
    <3>2. QED
      BY <3>1
  <2>3. c \in {"call"} \X Nums
    BY <2>2 DEF Orders
  <2>4. x \in Items
    BY <2>3 DEF Items, Cmds, ResultKinds
  <2>5. QED
    BY <2>1, <2>3, <2>4, OneFacts
<1>8. completions' = <<Await(c)>> /\ Await(c) \in Waits
  <2>1. completions' = <<Await(c)>>
    BY <1>2, <1>5, OneFacts DEF Flushed, Reply!Recorded, Await
  <2>2. QED
    BY <1>7, <2>1 DEF Await, Waits, Cmds
<1>9. /\ UNCHANGED <<given, frames, shadows, held>> /\ sync' = Append(sync, "PendingCompletion")
      /\ prepared' = <<>> /\ outbound' = {} /\ out' = <<>>
  BY <1>2, <1>3 DEF Flushed, Reply!Consume
<1>10. prepared = <<>> /\ outbound = {}
  BY <1>1, <1>2 DEF Live, PreparedOK
<1> HIDE DEF c, x
<1>11. Append(Reply!Front(host), Reply!Call) = host
  <2> DEFINE f == Reply!Front(host)
  <2>1. /\ f \in Seq(Stack) /\ Len(f) = Len(host) - 1 /\ Reply!Call \in Stack
        /\ \A i \in 1..(Len(host) - 1) : f[i] = host[i]
        /\ Reply!Last(host) = host[Len(host)] /\ Len(host) \in Nat \ {0}
    BY <1>5, FrontFacts, Zenon DEF Stack
  <2> HIDE DEF f
  <2> DEFINE g == Append(f, Reply!Call)
  <2>2. /\ g \in Seq(Stack) /\ Len(g) = Len(f) + 1
        /\ \A i \in 1..Len(f) : g[i] = f[i]
        /\ g[Len(f) + 1] = Reply!Call
    BY <2>1, AppendFacts
  <2> HIDE DEF g
  <2>3. \A i \in 1..Len(host) : g[i] = host[i]
    <3> SUFFICES ASSUME NEW i \in 1..Len(host) PROVE g[i] = host[i]
      OBVIOUS
    <3>1. CASE i = Len(host)
      BY <1>5, <2>1, <2>2, <3>1
    <3>2. CASE i # Len(host)
      <4>1. i \in 1..Len(f) /\ i \in 1..(Len(host) - 1)
        BY <2>1, <3>2
      <4>2. QED
        BY <2>1, <2>2, <4>1
    <3>3. QED
      BY <3>1, <3>2
  <2>4. Len(g) = Len(host)
    BY <2>1, <2>2
  <2>5. g = host
    BY <1>5, <2>2, <2>3, <2>4, SeqEqual
  <2>6. QED
    BY <2>5 DEF f, g
<1>12. kstack' = IF k = "complete" THEN host ELSE Reply!Front(host)
  BY <1>5, <1>6, <1>11
<1>13. /\ sync' \in Seq({"PendingCompletion", "AwaitingReply"}) /\ Len(sync') = Len(sync) + 1
       /\ Len(sync) \in Nat /\ \A i \in 1..Len(sync) : sync'[i] = sync[i]
       /\ sync'[Len(sync) + 1] = "PendingCompletion"
  <2>1. sync \in Seq({"PendingCompletion", "AwaitingReply"})
    BY <1>1 DEF ReplyTypes
  <2>2. QED
    BY <1>9, <2>1, AppendFacts
<1>14. ReplyTypes'
  <2>1. todo' \in Seq(Items) /\ completions' \in Seq(Waits)
    BY <1>7, <1>8
  <2>2. prepared' \in Seq(Reply!Replies) /\ out' \in Seq(Orders) /\ outbound' \subseteq Requests
    BY <1>9
  <2>3. kstack' \in Seq(Stack)
    BY <1>5, <1>12, FrontFacts
  <2>4. QED
    BY <1>1, <1>4, <1>9, <1>13, <2>1, <2>2, <2>3 DEF ReplyTypes, Stack
<1>15. Reply!RepliesMatch'
  BY <1>1, <1>4, <1>9 DEF Reply!RepliesMatch
<1>16. Deep(0, 0)' /\ 2 * Len(sync) = Len(host) - 2 /\ Len(host) \in Nat
  <2>1. 2 * Len(frames) = Len(host) + 0 /\ 2 * Len(sync) = Len(host) + (-2)
    BY <1>5 DEF Deep
  <2>2. Len(host) \in Nat /\ host' = host /\ frames' = frames
    BY <1>1, <1>5, <1>9
  <2>3. 2 * Len(sync') = Len(host)
    BY <1>13, <2>1, <2>2
  <2>4. 2 * Len(frames') = Len(host') + 0 /\ 2 * Len(sync') = Len(host') + 0
    BY <2>1, <2>2, <2>3
  <2>5. QED
    BY <2>1, <2>2, <2>4 DEF Deep
<1>17. Situation'
  <2>1. Result("call", {k})'
    BY <1>7, <1>8, <1>9 DEF Result
  <2>2. InCall' /\ wait' = "reply"
    BY <1>1, <1>5 DEF InCall, Reply!Last
  <2>3. CASE k = "complete"
    <3>1. Extra(host', Tail(todo'), kstack')
      BY <1>1, <1>7, <1>12, <2>3 DEF Extra
    <3>2. Called'
      BY <1>16, <2>1, <2>2, <2>3, <3>1 DEF Called
    <3>3. QED
      BY <3>2 DEF Situation
  <2>4. CASE k = "failed"
    <3>1. CallFailed'
      BY <1>1, <1>7, <1>12, <1>16, <2>1, <2>2, <2>4 DEF CallFailed
    <3>2. QED
      BY <3>1 DEF Situation
  <2>5. QED
    BY <1>6, <2>3, <2>4
<1>18. SyncStates'
  <2>1. ~Pending /\ Pending'
    BY <1>5, <1>8, OneFacts DEF Pending, Await, c
  <2>2. \A i \in 1..Len(sync) : sync[i] = "AwaitingReply"
    BY <1>1, <2>1 DEF Live, SyncStates
  <2>3. QED
    BY <1>13, <2>1, <2>2 DEF SyncStates
<1>19. Depths'
  <2>1. \A j \in 1..Len(sync') : host'[2 * j] = Reply!Call
    <3> SUFFICES ASSUME NEW j \in 1..Len(sync') PROVE host[2 * j] = Reply!Call
      BY <1>1
    <3>1. CASE j = Len(sync) + 1
      <4>1. 2 * j = Len(host)
        BY <1>13, <1>16, <3>1
      <4>2. QED
        BY <1>5, <4>1 DEF Reply!Last
    <3>2. CASE j # Len(sync) + 1
      <4>1. j \in 1..Len(sync)
        BY <1>13, <3>2
      <4>2. QED
        BY <1>1, <4>1 DEF Live, Depths
    <3>3. QED
      BY <3>1, <3>2
  <2>2. QED
    BY <1>1, <1>9, <2>1 DEF Live, Depths
<1>20. Distinct' /\ Frames' /\ PreparedOK'
  BY <1>1, <1>4, <1>9, <1>10 DEF Live, Distinct, Frames, FrameOK, PreparedOK
<1>21. /\ InHost' = InHost /\ Freeing' = {} /\ Waiting = {} /\ Waiting' = {}
  <2>1. x.k # "transaction"
    BY <1>6, <1>7
  <2>2. Waiting' = {}
    BY <1>7, <2>1, ItemFacts, OneFacts DEF Waiting
  <2>3. QED
    BY <1>1, <1>5, <1>9, <2>2 DEF InHost, Freeing, Reply!Freed, Waiting
<1>22. Buffers' /\ Untouched'
  BY <1>1, <1>3, <1>4, <1>9, <1>21 DEF Live, Buffers, Untouched
<1>23. QED
  BY <1>14, <1>15, <1>17, <1>18, <1>19, <1>20, <1>22 DEF ReplyInv, Live, Frames

\* A buffer is handed back, under its own address.
LEMMA FreeFlushed ==
    ASSUME Reply!RepliesAssumption, ReplyInv, NEW p \in Reply!Replies, Flushed(p), AtRest,
           NEW n \in Requests, out = <<Order("free", n)>>
    PROVE  ReplyInv'
<1>1. /\ ReplyTypes /\ Reply!RepliesMatch /\ Live /\ ~broken /\ broken' = broken
      /\ UNCHANGED <<host, wait, seen, calls>>
  BY DEF ReplyInv, Reply!Write, Flushed
<1>2. /\ Len(out) = 1 /\ Reply!Last(out) = Order("free", n) /\ out[1] = Order("free", n)
      /\ Reply!Last(out).k = "free" /\ ~Reply!HasReply
  BY OneFacts DEF Reply!HasReply, Order
<1>3. Reply!Freed(Len(out)) = {n} /\ Freeing = {n}
  BY <1>2 DEF Freeing, Reply!Freed, Order
<1>4. built' = built
  BY <1>2, OtherWritten DEF Flushed
<1>5. /\ UNCHANGED <<kstack, todo, given, frames, sync, completions>>
      /\ prepared' = <<>> /\ outbound' = {} /\ out' = <<>>
      /\ shadows' = shadows \ {n}
      /\ held' = held \ {r \in {n} : Kind[r] # "omk" \/ r \in shadows}
  BY <1>2, <1>3 DEF Flushed, Reply!Consume, Reply!Recorded
<1>6. prepared = <<>> /\ outbound = {}
  BY <1>1, <1>2 DEF Live, PreparedOK
<1>7. held' = held \ {n}
  BY <1>1, <1>3, <1>5 DEF Live, Buffers
<1>8. ReplyTypes'
  <2>1. prepared' \in Seq(Reply!Replies) /\ out' \in Seq(Orders) /\ outbound' \subseteq Requests
    BY <1>5
  <2>2. QED
    BY <1>1, <1>4, <1>5, <1>7, <2>1 DEF ReplyTypes
<1>9. Reply!RepliesMatch'
  BY <1>1, <1>4, <1>5 DEF Reply!RepliesMatch
<1>10. Situation'
  <2>1. AtRest'
    BY <1>1, <1>5 DEF AtRest, InCall, Reply!Last, Deep
  <2>2. QED
    BY <2>1 DEF Situation
<1>11. Depths' /\ SyncStates' /\ Distinct' /\ Frames' /\ PreparedOK'
  BY <1>1, <1>4, <1>5, <1>6 DEF Live, Depths, SyncStates, Pending, Distinct, Frames, FrameOK,
     PreparedOK
<1>12. InHost' = InHost /\ Waiting' = Waiting /\ Freeing' = {}
  BY <1>1, <1>5 DEF InHost, Waiting, Freeing, Reply!Freed
<1>13. Buffers' /\ Untouched'
  BY <1>1, <1>3, <1>4, <1>5, <1>7, <1>12 DEF Live, Buffers, Untouched
<1>14. QED
  BY <1>8, <1>9, <1>10, <1>11, <1>13 DEF ReplyInv, Live, Frames

LEMMA WriteAllKeeps ==
    ASSUME Reply!RepliesAssumption, ReplyInv, Reply!WriteAll
    PROVE  ReplyInv'
<1>1. PICK p \in Reply!Replies : Flushed(p)
  BY DEF Reply!WriteAll, Flushed
<1>2. Live /\ out # <<>>
  BY <1>1 DEF Flushed, Reply!Write, ReplyInv
<1>3. \/ AtRest /\ \E n \in Requests : out = <<Order("free", n)>>
      \/ ToReply \/ ToSend \/ ToCall
  BY <1>2, WhereWritten
<1>4. QED
  BY <1>1, <1>3, ReplyFlushed, OnewayFlushed, CallFlushed, FreeFlushed

\* A result goes from the queue of the driver.
LEMMA WaitingTail ==
    ASSUME todo \in Seq(Items), todo # <<>>, todo' = Tail(todo), Head(todo).k # "transaction"
    PROVE  Waiting' = Waiting
<1>1. /\ Len(todo') = Len(todo) - 1 /\ Len(todo) \in Nat \ {0} /\ Head(todo) = todo[1]
      /\ \A i \in 1..(Len(todo) - 1) : todo'[i] = todo[i + 1]
  BY TailFacts
<1>2. ASSUME NEW r \in Requests
      PROVE  (\E i \in 1..Len(todo') : todo'[i] = Transaction(r))
             <=> (\E i \in 1..Len(todo) : todo[i] = Transaction(r))
  <2>1. todo[1] # Transaction(r)
    BY <1>1, ItemFacts
  <2>2. ASSUME NEW i \in 1..Len(todo), todo[i] = Transaction(r)
        PROVE  \E j \in 1..Len(todo') : todo'[j] = Transaction(r)
    <3>1. i - 1 \in 1..Len(todo') /\ i - 1 \in 1..(Len(todo) - 1) /\ (i - 1) + 1 = i
      BY <1>1, <2>1, <2>2
    <3>2. todo'[i - 1] = todo[(i - 1) + 1]
      BY <1>1, <3>1
    <3>3. todo'[i - 1] = Transaction(r)
      BY <2>2, <3>1, <3>2
    <3>4. QED
      BY <3>1, <3>3
  <2>3. ASSUME NEW i \in 1..Len(todo'), todo'[i] = Transaction(r)
        PROVE  \E j \in 1..Len(todo) : todo[j] = Transaction(r)
    <3>1. i + 1 \in 1..Len(todo) /\ i \in 1..(Len(todo) - 1)
      BY <1>1
    <3>2. todo[i + 1] = Transaction(r)
      BY <1>1, <2>3, <3>1
    <3>3. QED
      BY <3>1, <3>2
  <2>4. QED
    BY <2>2, <2>3
<1>3. QED
  BY <1>2 DEF Waiting

\* The state in which the thread reads, and what the others keep.
Reads ==
    /\ Reply!Read /\ out = <<>> /\ wait # "none" /\ todo # <<>> /\ ~broken /\ broken' = broken
    /\ todo' = Tail(todo)
    /\ UNCHANGED <<prepared, outbound, kstack, held, seen, given, built, calls>>

LEMMA ReadFacts ==
    ASSUME ReplyInv, Reply!Read
    PROVE  /\ Reads /\ ReplyTypes /\ Reply!RepliesMatch /\ Live
           /\ prepared = <<>> /\ outbound = {} /\ Freeing = {}
           /\ ReplyTypes' <=> /\ frames' \in Seq(FrameRecs) /\ completions' \in Seq(Waits)
                              /\ sync' \in Seq({"PendingCompletion", "AwaitingReply"})
                              /\ host' \in Seq(Stack) /\ out' \in Seq(Orders)
                              /\ shadows' \subseteq Requests
           /\ Reply!RepliesMatch'
<1>1. Reads /\ ReplyTypes /\ Reply!RepliesMatch /\ Live
  BY DEF Reply!Read, Reads, ReplyInv
<1>2. prepared = <<>> /\ outbound = {} /\ Freeing = {}
  BY <1>1 DEF Reads, Live, PreparedOK, Reply!HasReply, Freeing, Reply!Freed
<1>3. todo' \in Seq(Items)
  BY <1>1, TailFacts DEF Reads, ReplyTypes
<1>4. QED
  BY <1>1, <1>2, <1>3 DEF Reads, ReplyTypes, Reply!RepliesMatch, Stack

\* What is kept when only results are read.
LEMMA FramesKept ==
    ASSUME Live, UNCHANGED <<frames, prepared, given, built>>
    PROVE  Frames'
  BY DEF Live, Frames, FrameOK

\* The call on top of the host's stack ends.
LEMMA CallPopped ==
    ASSUME Reply!RepliesAssumption, ReplyTypes, Live, InCall, Deep(0, 0), UNCHANGED frames,
           host' = Reply!Front(host), sync' = Reply!Front(sync)
    PROVE  /\ host' \in Seq(Stack) /\ sync' \in Seq({"PendingCompletion", "AwaitingReply"})
           /\ sync # <<>> /\ InRequest' /\ Deep(1, -1)' /\ Depths' /\ Distinct' /\ InHost' = InHost
           /\ Len(sync') = Len(sync) - 1 /\ Len(sync) \in Nat \ {0}
           /\ \A j \in 1..(Len(sync) - 1) : sync'[j] = sync[j]
<1> DEFINE T == {"PendingCompletion", "AwaitingReply"}
<1>1. host # <<>> /\ host \in Seq(Stack) /\ Reply!Last(host) = Reply!Call
      /\ frames \in Seq(FrameRecs)
      /\ sync \in Seq(T) /\ Depths /\ Distinct
  BY DEF InCall, ReplyTypes, Stack, Live
<1>2. /\ host' \in Seq(Stack) /\ Len(host') = Len(host) - 1 /\ Len(host) \in Nat \ {0}
      /\ \A i \in 1..(Len(host) - 1) : host'[i] = host[i]
      /\ Reply!Last(host) = host[Len(host)]
  BY <1>1, FrontFacts
<1>3. /\ 2 * Len(frames) = Len(host) /\ 2 * Len(sync) = Len(host)
      /\ Len(frames) \in Nat /\ Len(sync) \in Nat
  BY <1>1, <1>2 DEF Deep
<1>4. sync # <<>>
  BY <1>2, <1>3
<1>5. /\ sync' \in Seq(T) /\ Len(sync') = Len(sync) - 1 /\ Len(sync) \in Nat \ {0}
      /\ \A j \in 1..(Len(sync) - 1) : sync'[j] = sync[j]
  BY <1>1, <1>4, FrontFacts
<1>6. IsBase(host)
  BY <1>1, <1>3, CallBase DEF InCall
<1>7. InRequest'
  BY <1>1, <1>6 DEF IsBase, InRequest
<1>8. Deep(1, -1)'
  <2>1. frames' = frames
    OBVIOUS
  <2> HIDE DEF T
  <2>2. 2 * Len(frames') = Len(host') + 1
    BY <1>2, <1>3, <2>1
  <2>3. 2 * Len(sync') = Len(host') + (-1)
    <3>1. /\ Len(sync') = Len(sync) - 1 /\ Len(host') = Len(host) - 1
          /\ Len(sync) \in Nat /\ Len(host) \in Nat /\ 2 * Len(sync) = Len(host)
      BY <1>2, <1>3, <1>5
    <3>2. QED
      BY <3>1
  <2>4. QED
    BY <2>2, <2>3 DEF Deep
<1>9. Depths'
  <2>1. \A j \in 1..Len(frames) : frames[j].id = host'[2 * j - 1]
    <3> SUFFICES ASSUME NEW j \in 1..Len(frames) PROVE frames[j].id = host'[2 * j - 1]
      OBVIOUS
    <3>1. 2 * j - 1 \in 1..(Len(host) - 1)
      BY <1>2, <1>3
    <3>2. QED
      BY <1>1, <1>2, <3>1 DEF Depths
  <2>2. \A j \in 1..Len(sync') : host'[2 * j] = Reply!Call
    <3> SUFFICES ASSUME NEW j \in 1..Len(sync') PROVE host'[2 * j] = Reply!Call
      OBVIOUS
    <3>1. 2 * j \in 1..(Len(host) - 1) /\ j \in 1..Len(sync)
      BY <1>2, <1>3, <1>5
    <3>2. QED
      BY <1>1, <1>2, <3>1 DEF Depths
  <2>3. QED
    BY <2>1, <2>2 DEF Depths
<1>10. Distinct'
  BY <1>1, <1>2 DEF Distinct
<1>11. InHost' = InHost
  <2>1. \A i \in 1..Len(host) : host[i] \in Requests => i \in 1..(Len(host) - 1)
    BY <1>1, <1>2 DEF Reply!RepliesAssumption
  <2>2. ASSUME NEW r \in Requests
        PROVE  (\E i \in 1..Len(host') : host'[i] = r) <=> (\E i \in 1..Len(host) : host[i] = r)
    BY <1>2, <2>1
  <2>3. QED
    BY <2>2 DEF InHost
<1>12. QED
  BY <1>2, <1>4, <1>5, <1>7, <1>8, <1>9, <1>10, <1>11

\* A request comes in.
LEMMA TransactionRead ==
    ASSUME Reply!RepliesAssumption, ReplyInv, Reply!Read, AtRest, NEW r \in Requests,
           todo = <<Transaction(r)>>, kstack = Append(host, r)
    PROVE  ReplyInv'
<1> DEFINE m == Len(frames)
           h == Len(host)
           f == [id |-> r, claimed |-> FALSE, pending |-> Kind[r] # "pass"]
<1>1. /\ Reads /\ ReplyTypes /\ Live /\ prepared = <<>> /\ outbound = {} /\ Freeing = {}
      /\ Reply!RepliesMatch'
  BY ReadFacts
<1>2. Head(todo) = Transaction(r) /\ todo' = <<>> /\ Head(todo).k = "transaction"
      /\ Head(todo).cmd[2] = r
  BY <1>1, OneFacts, ItemFacts DEF Reads
<1>3. Reply!ReadTransaction(r)
  BY <1>2 DEF Reply!Read
<1>4. /\ frames' = Append(frames, f) /\ host' = Append(host, r) /\ wait' = "none"
      /\ shadows' = (IF Kind[r] = "omk" THEN shadows \cup {r} ELSE shadows)
      /\ UNCHANGED <<completions, sync, out>>
  BY <1>3 DEF Reply!ReadTransaction
<1>5. frames \in Seq(FrameRecs) /\ host \in Seq(Stack) /\ r \in Stack /\ f \in FrameRecs
  BY <1>1 DEF ReplyTypes, Stack, FrameRecs
<1>6. f.id = r /\ ~f.claimed /\ (f.pending <=> Kind[r] # "pass")
  OBVIOUS
<1> HIDE DEF f
<1>7. /\ frames' \in Seq(FrameRecs) /\ Len(frames') = m + 1 /\ m \in Nat
      /\ frames'[m + 1] = f /\ \A j \in 1..m : frames'[j] = frames[j]
  BY <1>4, <1>5, AppendFacts
<1>8. /\ host' \in Seq(Stack) /\ host' # <<>> /\ Len(host') = h + 1 /\ h \in Nat
      /\ host'[h + 1] = r /\ Reply!Last(host') = r /\ \A i \in 1..h : host'[i] = host[i]
  BY <1>4, <1>5, AppendFacts
<1>9. 2 * m = h /\ 2 * Len(sync) = h /\ Len(sync) \in Nat
  <2>1. Deep(0, 0)
    BY DEF AtRest
  <2>2. Len(sync) \in Nat
    BY <1>1 DEF ReplyTypes
  <2>3. QED
    BY <1>8, <2>1, <2>2 DEF Deep
<1>10. r \in Waiting
  BY OneFacts DEF Waiting
<1>11. Waiting = {r}
  BY <1>10, OneFacts, ItemsApart DEF Waiting
<1> HIDE DEF m, h
<1>12. ReplyTypes'
  BY <1>1, <1>4, <1>7, <1>8, ReadFacts DEF ReplyTypes
<1>13. Situation'
  <2>1. Deep(1, -1)'
    <3>1. 2 * Len(frames') = Len(host') + 1
      BY <1>7, <1>8, <1>9
    <3>2. 2 * Len(sync') = Len(host') + (-1)
      <4>1. sync' = sync
        BY <1>4
      <4>2. 2 * Len(sync) = h /\ h \in Nat /\ Len(host') = h + 1 /\ Len(sync) \in Nat
        BY <1>8, <1>9
      <4>3. QED
        BY <4>1, <4>2
    <3>3. QED
      BY <3>1, <3>2 DEF Deep
  <2>2. AtWork'
    BY <1>1, <1>2, <1>4, <1>8, <2>1 DEF AtWork, AtRest, InRequest, Reads
  <2>3. QED
    BY <2>2 DEF Situation
<1>14. Depths'
  <2>1. \A j \in 1..Len(frames') : frames'[j].id = host'[2 * j - 1]
    <3> SUFFICES ASSUME NEW j \in 1..(m + 1) PROVE frames'[j].id = host'[2 * j - 1]
      BY <1>7
    <3>1. CASE j = m + 1
      <4>1. 2 * j - 1 = h + 1
        BY <1>7, <1>9, <3>1
      <4>2. QED
        BY <1>6, <1>7, <1>8, <3>1, <4>1
    <3>2. CASE j # m + 1
      <4>1. j \in 1..m /\ 2 * j - 1 \in 1..h
        BY <1>7, <1>9, <3>2
      <4>2. QED
        BY <1>1, <1>7, <1>8, <4>1 DEF Live, Depths, m
    <3>3. QED
      BY <3>1, <3>2
  <2>2. \A j \in 1..Len(sync) : host'[2 * j] = Reply!Call
    <3> SUFFICES ASSUME NEW j \in 1..Len(sync) PROVE host'[2 * j] = Reply!Call
      OBVIOUS
    <3>1. 2 * j \in 1..h
      BY <1>9
    <3>2. QED
      BY <1>1, <1>8, <3>1 DEF Live, Depths
  <2>3. QED
    BY <1>4, <2>1, <2>2 DEF Depths
<1>15. SyncStates' /\ PreparedOK'
  BY <1>1, <1>4 DEF Live, SyncStates, Pending, PreparedOK, Reads
<1>16. \A i \in 1..h : host[i] # r
  BY <1>1, <1>10 DEF Live, Buffers, InHost, h
<1>17. Distinct'
  BY <1>1, <1>8, <1>16 DEF Live, Distinct, h
<1>18. given[r] = <<>> /\ built[r] = 0
  BY <1>1, <1>10 DEF Live, Untouched
<1>19. Frames'
  <2> SUFFICES ASSUME NEW j \in 1..(m + 1) PROVE FrameOK(j)'
    BY <1>7 DEF Frames
  <2>1. CASE j = m + 1
    BY <1>1, <1>6, <1>7, <1>18, <2>1 DEF FrameOK, Reads
  <2>2. CASE j # m + 1
    <3>1. j \in 1..m /\ frames'[j] = frames[j] /\ FrameOK(j)
      BY <1>1, <1>7, <2>2 DEF Live, m
    <3>2. QED
      BY <1>1, <3>1 DEF FrameOK, Reads
  <2>3. QED
    BY <2>1, <2>2
<1>20. InHost' = InHost \cup {r}
  <2>1. ASSUME NEW q \in Requests
        PROVE  (\E i \in 1..Len(host') : host'[i] = q) <=> (\E i \in 1..h : host[i] = q) \/ q = r
    BY <1>8
  <2>2. QED
    BY <2>1 DEF InHost, h
<1>21. Waiting' = {} /\ Freeing' = {}
  BY <1>1, <1>2, <1>4 DEF Waiting, Freeing, Reply!Freed, Reads
<1>22. Buffers' /\ Untouched'
  <2>1. Buffers /\ Untouched
    BY <1>1 DEF Live
  <2>2. held' = held /\ seen' = seen /\ given' = given /\ built' = built
    BY <1>1 DEF Reads
  <2>3. Untouched'
    BY <1>21, <2>1, <2>2 DEF Untouched
  <2>4. Buffers'
    BY <1>1, <1>4, <1>11, <1>20, <1>21, <2>1, <2>2 DEF Buffers
  <2>5. QED
    BY <2>3, <2>4
<1>23. QED
  BY <1>1, <1>12, <1>13, <1>14, <1>15, <1>17, <1>19, <1>22 DEF ReplyInv, Live, Frames

\* What is known of the one result that is waited for.
LEMMA AwaitFacts ==
    ASSUME NEW c, completions = <<Await(c)>>
    PROVE  /\ completions # <<>> /\ Tail(completions) = <<>>
           /\ Head(completions) = Await(c) /\ completions[1] = Await(c)
           /\ Head(completions).expects <=> c[1] = "call"
           /\ Head(completions).reply <=> c[1] = "reply"
<1>1. /\ completions # <<>> /\ Tail(completions) = <<>>
      /\ Head(completions) = Await(c) /\ completions[1] = Await(c)
  BY OneFacts
<1>2. (Await(c).expects <=> c[1] = "call") /\ (Await(c).reply <=> c[1] = "reply")
  BY DEF Await
<1>3. QED
  BY <1>1, <1>2

\* The states of the calls, by what is awaited.
LEMMA SyncFacts ==
    ASSUME ReplyTypes, Live, sync # <<>>
    PROVE  /\ Pending => Reply!Last(sync) = "PendingCompletion"
           /\ ~Pending => Reply!Last(sync) = "AwaitingReply"
<1>1. Len(sync) \in 1..Len(sync)
  BY DEF ReplyTypes
<1>2. QED
  BY <1>1 DEF Live, SyncStates, Reply!Last

\* What remains after a call ended and its result or answer was read.
LEMMA CallEnded ==
    ASSUME Reply!RepliesAssumption, ReplyInv, Reply!Read, InCall, Deep(0, 0), todo' = <<>>,
           kstack = Reply!Front(host),
           Head(todo).k # "transaction", host' = Reply!Front(host), sync' = Reply!Front(sync),
           completions' = <<>>, wait' = "none", UNCHANGED <<frames, shadows, out>>
    PROVE  ReplyInv'
<1>1. /\ Reads /\ ReplyTypes /\ Live /\ prepared = <<>> /\ outbound = {} /\ Freeing = {}
      /\ Reply!RepliesMatch'
  BY ReadFacts
<1>2. /\ host' \in Seq(Stack) /\ sync' \in Seq({"PendingCompletion", "AwaitingReply"})
      /\ InRequest' /\ Deep(1, -1)' /\ Depths' /\ Distinct' /\ InHost' = InHost
      /\ Len(sync') = Len(sync) - 1 /\ Len(sync) \in Nat \ {0}
      /\ \A j \in 1..(Len(sync) - 1) : sync'[j] = sync[j]
  BY <1>1, CallPopped
<1>3. ReplyTypes'
  <2>1. frames' \in Seq(FrameRecs) /\ completions' \in Seq(Waits) /\ out' \in Seq(Orders)
        /\ shadows' \subseteq Requests
    BY <1>1 DEF ReplyTypes
  <2>2. QED
    BY <1>2, <2>1, ReadFacts
<1>4. Situation'
  <2>1. AtWork'
    BY <1>1, <1>2 DEF AtWork, Reads
  <2>2. QED
    BY <2>1 DEF Situation
<1>5. SyncStates'
  <2> SUFFICES ASSUME NEW j \in 1..Len(sync') PROVE sync'[j] = "AwaitingReply"
    BY DEF SyncStates, Pending
  <2>1. j \in 1..(Len(sync) - 1) /\ j \in 1..Len(sync) /\ j # Len(sync)
    BY <1>2
  <2>2. QED
    BY <1>1, <1>2, <2>1 DEF Live, SyncStates
<1>6. Frames' /\ PreparedOK'
  BY <1>1, FramesKept DEF Reads, PreparedOK
<1>7. Waiting' = Waiting /\ Freeing' = Freeing
  BY <1>1, WaitingTail DEF Reads, ReplyTypes, Freeing, Reply!Freed
<1>8. Buffers' /\ Untouched'
  <2>1. Buffers /\ Untouched /\ held' = held /\ seen' = seen /\ given' = given /\ built' = built
    BY <1>1 DEF Live, Reads
  <2>2. QED
    BY <1>2, <1>7, <2>1 DEF Buffers, Untouched
<1>9. QED
  BY <1>1, <1>2, <1>3, <1>4, <1>5, <1>6, <1>8 DEF ReplyInv, Live, Frames

\* The answer to a call comes, or its other side is dead.
LEMMA AnswerRead ==
    ASSUME Reply!RepliesAssumption, ReplyInv, Reply!Read, AtRest, NEW k \in {"reply", "dead"},
           todo = <<Answered(k)>>, host # <<>>, kstack = Reply!Front(host)
    PROVE  ReplyInv'
<1>1. /\ Reads /\ ReplyTypes /\ Live
  BY ReadFacts
<1>2. Head(todo) = Answered(k) /\ todo' = <<>> /\ Head(todo).k = k
  BY <1>1, OneFacts DEF Reads, Answered
<1>3. Reply!ReadAnswer(k)
  BY <1>2 DEF Reply!Read
<1>4. completions = <<>> /\ InCall /\ Deep(0, 0)
  BY DEF AtRest
<1>5. sync # <<>>
  <2>1. host \in Seq(Stack) /\ Len(host) \in Nat \ {0} /\ 2 * Len(sync) = Len(host)
    <3>1. host \in Seq(Stack)
      BY <1>1 DEF ReplyTypes, Stack
    <3>2. QED
      BY <1>4, <3>1 DEF Deep
  <2>2. QED
    BY <2>1
<1>6. Reply!SyncIs("AwaitingReply")
  <2>1. ~Pending
    BY <1>4 DEF Pending
  <2>2. QED
    BY <1>1, <1>5, <2>1, SyncFacts DEF Reply!SyncIs
<1>7. /\ sync' = Reply!Front(sync) /\ completions' = <<>>
      /\ host' = Reply!Front(host) /\ wait' = "none"
      /\ UNCHANGED <<frames, shadows, out>>
  BY <1>3, <1>4, <1>6 DEF Reply!ReadAnswer, Reply!Failed
<1>8. QED
  BY <1>2, <1>4, <1>7, CallEnded

\* The failure of a call is charged to the call.
LEMMA CallFailureRead ==
    ASSUME Reply!RepliesAssumption, ReplyInv, Reply!Read, CallFailed
    PROVE  ReplyInv'
<1> DEFINE c == Head(todo).cmd
<1>1. /\ Reads /\ ReplyTypes /\ Live
  BY ReadFacts
<1>2. /\ Head(todo).k = "failed" /\ c \in {"call"} \X Nums /\ completions = <<Await(c)>>
      /\ InCall /\ Deep(0, 0) /\ Tail(todo) = <<>> /\ kstack = Reply!Front(host)
  BY DEF CallFailed, Result
<1>3. c[1] = "call"
  BY <1>2
<1> HIDE DEF c
<1>4. /\ completions # <<>> /\ Head(completions) = Await(c) /\ Tail(completions) = <<>>
      /\ Head(completions).expects /\ ~Head(completions).reply /\ completions[1] = Await(c)
  BY <1>2, <1>3, AwaitFacts
<1>5. Reply!ReadResult(Head(todo))
  BY <1>2 DEF Reply!Read
<1>6. Reply!Failed(TRUE)
  BY <1>2, <1>5 DEF Reply!ReadResult
<1>7. sync # <<>> /\ Reply!Last(sync) = "PendingCompletion"
  <2>1. host \in Seq(Stack) /\ host # <<>> /\ 2 * Len(sync) = Len(host)
    <3>1. host \in Seq(Stack) /\ host # <<>>
      BY <1>1, <1>2 DEF ReplyTypes, Stack, InCall
    <3>2. QED
      BY <1>2, <3>1 DEF Deep
  <2>2. sync # <<>>
    BY <2>1
  <2>3. Pending
    BY <1>4 DEF Pending
  <2>4. QED
    BY <1>1, <2>2, <2>3, SyncFacts
<1>8. sync' = Reply!Front(sync) /\ completions' = <<>>
  BY <1>4, <1>6, <1>7 DEF Reply!Failed, Reply!SyncIs
<1>9. host' = Reply!Front(host) /\ wait' = "none" /\ UNCHANGED <<out, frames, shadows>>
  BY <1>2, <1>3, <1>5 DEF Reply!ReadResult, c
<1>10. todo' = <<>>
  BY <1>1, <1>2 DEF Reads
<1>11. QED
  BY <1>2, <1>8, <1>9, <1>10, CallEnded

\* The driver has taken a call, which waits for its answer now.
LEMMA CallCompletedRead ==
    ASSUME Reply!RepliesAssumption, ReplyInv, Reply!Read, Called
    PROVE  ReplyInv'
<1> DEFINE c == Head(todo).cmd
           n == Len(sync)
           T == {"PendingCompletion", "AwaitingReply"}
<1>1. /\ Reads /\ ReplyTypes /\ Live /\ prepared = <<>> /\ outbound = {} /\ Freeing = {}
      /\ Reply!RepliesMatch'
  BY ReadFacts
<1>2. /\ Head(todo).k = "complete" /\ c \in {"call"} \X Nums /\ completions = <<Await(c)>>
      /\ InCall /\ Deep(0, 0) /\ Extra(host, Tail(todo), kstack) /\ wait = "reply"
  BY DEF Called, Result
<1>3. c[1] = "call"
  BY <1>2
<1> HIDE DEF c
<1>4. /\ completions # <<>> /\ Head(completions) = Await(c) /\ Tail(completions) = <<>>
      /\ Head(completions).expects /\ completions[1] = Await(c)
  BY <1>2, <1>3, AwaitFacts
<1>5. Reply!ReadResult(Head(todo)) /\ Reply!Completed
  BY <1>2 DEF Reply!Read, Reply!ReadResult
<1>6. host \in Seq(Stack) /\ host # <<>> /\ 2 * n = Len(host) /\ sync \in Seq(T)
  <2>1. host \in Seq(Stack) /\ host # <<>> /\ sync \in Seq(T)
    BY <1>1, <1>2 DEF ReplyTypes, Stack, InCall
  <2>2. 2 * Len(sync) = Len(host) + 0
    BY <1>2 DEF Deep
  <2>3. Len(host) \in Nat
    BY <2>1
  <2>4. QED
    BY <2>1, <2>2, <2>3
<1>7. sync # <<>> /\ Reply!Last(sync) = "PendingCompletion"
  <2>1. sync # <<>>
    BY <1>6
  <2>2. Pending
    BY <1>4 DEF Pending
  <2>3. QED
    BY <1>1, <2>1, <2>2, SyncFacts
<1>8. sync' = Append(Reply!Front(sync), "AwaitingReply") /\ completions' = <<>>
  BY <1>4, <1>5, <1>7 DEF Reply!Completed, Reply!SyncIs
<1>9. UNCHANGED <<host, wait, out, frames, shadows>>
  BY <1>2, <1>3, <1>5 DEF Reply!ReadResult, c
<1> DEFINE f == Reply!Front(sync)
<1>10. /\ f \in Seq(T) /\ Len(f) = n - 1 /\ n \in Nat \ {0}
       /\ \A i \in 1..(n - 1) : f[i] = sync[i]
  BY <1>6, <1>7, FrontFacts, Zenon
<1> HIDE DEF f
<1>11. /\ sync' \in Seq(T) /\ Len(sync') = Len(f) + 1 /\ sync'[Len(f) + 1] = "AwaitingReply"
       /\ \A i \in 1..Len(f) : sync'[i] = f[i]
  BY <1>8, <1>10, AppendFacts DEF f
<1> HIDE DEF n, T
<1>12. Len(sync') = n
  BY <1>10, <1>11
<1>13. ReplyTypes'
  <2>1. frames' \in Seq(FrameRecs) /\ completions' \in Seq(Waits) /\ out' \in Seq(Orders)
        /\ shadows' \subseteq Requests
    BY <1>1, <1>8, <1>9 DEF ReplyTypes
  <2>2. host' \in Seq(Stack) /\ sync' \in Seq({"PendingCompletion", "AwaitingReply"})
    BY <1>6, <1>9, <1>11 DEF T
  <2>3. QED
    BY <2>1, <2>2, ReadFacts
<1>14. Situation'
  <2>1. Deep(0, 0)'
    BY <1>2, <1>9, <1>12 DEF Deep, n
  <2>2. Extra(host', todo', kstack')
    BY <1>1, <1>2, <1>9 DEF Reads
  <2>3. AtRest'
    BY <1>1, <1>2, <1>6, <1>8, <1>9, <2>1, <2>2 DEF AtRest, InCall, Reply!Last, Reads
  <2>4. QED
    BY <2>3 DEF Situation
<1>15. SyncStates'
  <2> SUFFICES ASSUME NEW j \in 1..n PROVE sync'[j] = "AwaitingReply"
    BY <1>8, <1>12 DEF SyncStates, Pending
  <2>1. CASE j = n
    BY <1>10, <1>11, <2>1
  <2>2. CASE j # n
    <3>1. j \in 1..Len(f) /\ j \in 1..(n - 1)
      BY <1>10, <2>2
    <3>2. sync'[j] = sync[j]
      BY <1>10, <1>11, <3>1
    <3>3. QED
      BY <1>1, <2>2, <3>2 DEF Live, SyncStates, n
  <2>3. QED
    BY <2>1, <2>2
<1>16. Depths' /\ Distinct'
  BY <1>1, <1>9, <1>12 DEF Live, Depths, Distinct, n
<1>17. Frames' /\ PreparedOK'
  BY <1>1, <1>9, FramesKept DEF Reads, PreparedOK
<1>18. Waiting' = Waiting /\ Freeing' = Freeing /\ InHost' = InHost
  BY <1>1, <1>2, <1>9, WaitingTail DEF Reads, ReplyTypes, Freeing, Reply!Freed, InHost
<1>19. Buffers' /\ Untouched'
  <2>1. Buffers /\ Untouched /\ held' = held /\ seen' = seen /\ given' = given /\ built' = built
    BY <1>1 DEF Live, Reads
  <2>2. QED
    BY <1>9, <1>18, <2>1 DEF Buffers, Untouched
<1>20. QED
  BY <1>1, <1>13, <1>14, <1>15, <1>16, <1>17, <1>19 DEF ReplyInv, Live, Frames

\* The result of a transaction that nobody answers.
LEMMA OnewayRead ==
    ASSUME Reply!RepliesAssumption, ReplyInv, Reply!Read, Sent
    PROVE  ReplyInv'
<1> DEFINE c == Head(todo).cmd
<1>1. /\ Reads /\ ReplyTypes /\ Live /\ prepared = <<>> /\ outbound = {} /\ Freeing = {}
      /\ Reply!RepliesMatch'
  BY ReadFacts
<1>2. /\ Head(todo).k \in ResultKinds /\ c \in {"oneway"} \X Nums /\ completions = <<Await(c)>>
      /\ InRequest /\ Deep(1, -1) /\ Tail(todo) = <<>> /\ kstack = host
  BY DEF Sent, Result
<1>3. c[1] = "oneway"
  BY <1>2
<1> HIDE DEF c
<1>4. /\ completions # <<>> /\ Head(completions) = Await(c) /\ Tail(completions) = <<>>
      /\ ~Head(completions).expects /\ ~Head(completions).reply /\ completions[1] = Await(c)
  BY <1>2, <1>3, AwaitFacts
<1>5. Reply!ReadResult(Head(todo))
  BY <1>2 DEF Reply!Read, ResultKinds
<1>6. sync' = sync /\ completions' = <<>>
  BY <1>4, <1>5 DEF Reply!ReadResult, Reply!Completed, Reply!Failed
<1>7. UNCHANGED <<host, out, frames, shadows>> /\ wait' = "none"
  BY <1>3, <1>5 DEF Reply!ReadResult, c
<1>8. ReplyTypes'
  <2>1. /\ frames' \in Seq(FrameRecs) /\ completions' \in Seq(Waits) /\ out' \in Seq(Orders)
        /\ shadows' \subseteq Requests /\ host' \in Seq(Stack)
        /\ sync' \in Seq({"PendingCompletion", "AwaitingReply"})
    BY <1>1, <1>6, <1>7 DEF ReplyTypes, Stack
  <2>2. QED
    BY <2>1, ReadFacts
<1>9. Situation'
  <2>1. AtWork'
    BY <1>1, <1>2, <1>6, <1>7 DEF AtWork, InRequest, Reply!Last, Deep, Reads
  <2>2. QED
    BY <2>1 DEF Situation
<1>10. SyncStates'
  <2>1. ~Pending /\ ~Pending'
    BY <1>4, <1>6 DEF Pending
  <2>2. QED
    BY <1>1, <1>6, <2>1 DEF Live, SyncStates
<1>11. Depths' /\ Distinct'
  BY <1>1, <1>6, <1>7 DEF Live, Depths, Distinct
<1>12. Frames' /\ PreparedOK'
  BY <1>1, <1>7, FramesKept DEF Reads, PreparedOK
<1>13. Waiting' = Waiting /\ Freeing' = Freeing /\ InHost' = InHost
  BY <1>1, <1>2, <1>7, WaitingTail DEF Reads, ReplyTypes, Freeing, Reply!Freed, InHost, ResultKinds
<1>14. Buffers' /\ Untouched'
  <2>1. Buffers /\ Untouched /\ held' = held /\ seen' = seen /\ given' = given /\ built' = built
    BY <1>1 DEF Live, Reads
  <2>2. QED
    BY <1>7, <1>13, <2>1 DEF Buffers, Untouched
<1>15. QED
  BY <1>1, <1>8, <1>9, <1>10, <1>11, <1>12, <1>14 DEF ReplyInv, Live, Frames

\* The result of a reply: the request is over, and its buffer is freed.
LEMMA ReplyRead ==
    ASSUME Reply!RepliesAssumption, ReplyInv, Reply!Read, Replied
    PROVE  ReplyInv'
<1> DEFINE c == Head(todo).cmd
           r == Reply!Last(host)
           h == Len(host)
<1>1. /\ Reads /\ ReplyTypes /\ Live /\ prepared = <<>> /\ outbound = {} /\ Freeing = {}
      /\ Reply!RepliesMatch'
  BY ReadFacts
<1>2. /\ Head(todo).k \in {"complete", "failed"} /\ c \in {"reply"} \X Nums
      /\ completions = <<Await(c)>> /\ out = <<>>
      /\ InRequest /\ Deep(-1, -1) /\ Extra(Reply!Front(host), Tail(todo), kstack)
  BY DEF Replied, Result
<1>3. c[1] = "reply"
  BY <1>2
<1> HIDE DEF c
<1>4. /\ completions # <<>> /\ Head(completions) = Await(c) /\ Tail(completions) = <<>>
      /\ ~Head(completions).expects /\ Head(completions).reply /\ completions[1] = Await(c)
  BY <1>2, <1>3, AwaitFacts
<1>5. Reply!ReadResult(Head(todo))
  BY <1>2 DEF Reply!Read
<1>6. sync' = sync /\ completions' = <<>>
  BY <1>2, <1>4, <1>5 DEF Reply!ReadResult, Reply!Completed, Reply!Failed
<1>7. /\ host' = Reply!Front(host) /\ out' = Append(out, Order("free", r))
      /\ wait' = (IF host' = <<>> THEN "work" ELSE "reply") /\ UNCHANGED <<frames, shadows>>
  BY <1>3, <1>5 DEF Reply!ReadResult, Order, c
<1>8. out' = <<Order("free", r)>> /\ r \in Requests /\ host # <<>> /\ host \in Seq(Stack)
  BY <1>1, <1>2, <1>7, OneFacts DEF InRequest, ReplyTypes, Stack
<1>9. /\ host' \in Seq(Stack) /\ Len(host') = h - 1 /\ h \in Nat \ {0}
      /\ \A i \in 1..(h - 1) : host'[i] = host[i]
      /\ r = host[h]
  BY <1>7, <1>8, FrontFacts
<1>10. /\ 2 * Len(frames) = h - 1 /\ 2 * Len(sync) = h - 1
       /\ Len(frames) \in Nat /\ Len(sync) \in Nat
  <2>1. Len(frames) \in Nat /\ Len(sync) \in Nat
    BY <1>1 DEF ReplyTypes
  <2>2. QED
    BY <1>2, <1>9, <2>1 DEF Deep
<1>11. IsBase(host')
  BY <1>1, <1>2, <1>7, <1>10, ReplyBase DEF Live
<1> HIDE DEF r, h
<1>12. ReplyTypes'
  <2>1. out' \in Seq(Orders)
    <3>1. Order("free", r) \in Orders
      BY <1>8 DEF Orders, Order, Nums
    <3>2. QED
      BY <1>8, <3>1
  <2>2. /\ frames' \in Seq(FrameRecs) /\ completions' \in Seq(Waits) /\ shadows' \subseteq Requests
        /\ sync' \in Seq({"PendingCompletion", "AwaitingReply"})
    BY <1>1, <1>6, <1>7 DEF ReplyTypes
  <2>3. QED
    BY <1>9, <2>1, <2>2, ReadFacts
<1>13. Situation'
  <2>1. Deep(0, 0)'
    <3>1. 2 * Len(frames') = Len(host') /\ 2 * Len(sync') = Len(host') /\ Len(host') \in Nat
      BY <1>6, <1>7, <1>9, <1>10
    <3>2. QED
      BY <3>1 DEF Deep
  <2>2. Extra(host', todo', kstack')
    BY <1>1, <1>2, <1>7 DEF Reads
  <2>3. host' = <<>> \/ InCall'
    BY <1>11 DEF IsBase, InCall
  <2>4. AtRest'
    BY <1>6, <1>7, <1>8, <2>1, <2>2, <2>3 DEF AtRest
  <2>5. QED
    BY <2>4 DEF Situation
<1>14. SyncStates'
  <2>1. ~Pending /\ ~Pending'
    BY <1>4, <1>6 DEF Pending
  <2>2. QED
    BY <1>1, <1>6, <2>1 DEF Live, SyncStates
<1>15. Depths'
  <2>1. \A j \in 1..Len(frames) : frames[j].id = host'[2 * j - 1]
    <3> SUFFICES ASSUME NEW j \in 1..Len(frames) PROVE frames[j].id = host'[2 * j - 1]
      OBVIOUS
    <3>1. 2 * j - 1 \in 1..(h - 1)
      BY <1>9, <1>10
    <3>2. QED
      BY <1>1, <1>9, <3>1 DEF Live, Depths
  <2>2. \A j \in 1..Len(sync) : host'[2 * j] = Reply!Call
    <3> SUFFICES ASSUME NEW j \in 1..Len(sync) PROVE host'[2 * j] = Reply!Call
      OBVIOUS
    <3>1. 2 * j \in 1..(h - 1)
      BY <1>9, <1>10
    <3>2. QED
      BY <1>1, <1>9, <3>1 DEF Live, Depths
  <2>3. QED
    BY <1>6, <1>7, <2>1, <2>2 DEF Depths
<1>16. Distinct' /\ \A i \in 1..(h - 1) : host[i] # r
  <2>1. Distinct
    BY <1>1 DEF Live
  <2>2. Distinct'
    BY <1>9, <2>1 DEF Distinct, h
  <2>3. ASSUME NEW i \in 1..(h - 1), host[i] = r PROVE FALSE
    <3>1. i \in 1..h /\ h \in 1..h /\ i # h /\ host[i] = host[h] /\ host[i] # Reply!Call
      BY <1>8, <1>9, <2>3 DEF Reply!RepliesAssumption
    <3>2. QED
      BY <2>1, <3>1 DEF Distinct, h
  <2>4. QED
    BY <2>2, <2>3
<1>17. InHost = InHost' \cup {r} /\ r \notin InHost'
  <2>1. ASSUME NEW q \in Requests
        PROVE  (\E i \in 1..h : host[i] = q) <=> (\E i \in 1..Len(host') : host'[i] = q) \/ q = r
    BY <1>9
  <2>2. InHost = InHost' \cup {r}
    BY <1>8, <2>1 DEF InHost, h
  <2>3. r \notin InHost'
    BY <1>9, <1>16 DEF InHost
  <2>4. QED
    BY <2>2, <2>3
<1>18. Frames' /\ PreparedOK'
  BY <1>1, <1>7, FramesKept DEF Reads, PreparedOK
<1>19. Waiting' = Waiting
  BY <1>1, <1>2, WaitingTail DEF Reads, ReplyTypes
<1>20. Freeing' = {r}
  BY <1>8, OneFacts DEF Freeing, Reply!Freed, Order
<1>21. Buffers' /\ Untouched'
  <2>1. Buffers /\ Untouched /\ held' = held /\ seen' = seen /\ given' = given /\ built' = built
    BY <1>1 DEF Live, Reads
  <2>2. Untouched'
    BY <1>19, <2>1 DEF Untouched
  <2>3. Buffers'
    BY <1>1, <1>7, <1>17, <1>19, <1>20, <2>1 DEF Buffers
  <2>4. QED
    BY <2>2, <2>3
<1>22. QED
  BY <1>1, <1>12, <1>13, <1>14, <1>15, <1>16, <1>18, <1>21 DEF ReplyInv, Live, Frames

LEMMA ReadKeeps ==
    ASSUME Reply!RepliesAssumption, ReplyInv, Reply!Read
    PROVE  ReplyInv'
<1>1. Reads /\ Situation
  BY ReadFacts DEF Live
<1>2. CASE AtRest
  <2>1. todo # <<>> /\ Extra(host, todo, kstack)
    BY <1>1, <1>2 DEF Reads, AtRest
  <2>2. \/ \E r \in Requests : todo = <<Transaction(r)>> /\ kstack = Append(host, r)
        \/ \E k \in {"reply", "dead"} : todo = <<Answered(k)>> /\ host # <<>>
                                        /\ kstack = Reply!Front(host)
    BY <2>1 DEF Extra
  <2>3. QED
    BY <1>2, <2>2, TransactionRead, AnswerRead
<1>3. ~AtWork /\ ~ToReply /\ ~ToSend /\ ~ToCall
  BY <1>1 DEF Reads, AtWork, ToReply, ToSend, ToCall
<1>4. QED
  BY <1>1, <1>2, <1>3, ReplyRead, OnewayRead, CallCompletedRead, CallFailureRead DEF Situation

LEMMA ReplyInit == ASSUME Reply!RepliesAssumption, Reply!Init PROVE ReplyInv
<1>1. ReplyTypes
  <2>1. /\ frames \in Seq(FrameRecs) /\ prepared \in Seq(Reply!Replies)
        /\ completions \in Seq(Waits)
        /\ sync \in Seq({"PendingCompletion", "AwaitingReply"})
        /\ host \in Seq(Requests \cup {Reply!Call}) /\ kstack \in Seq(Requests \cup {Reply!Call})
        /\ out \in Seq(Orders) /\ todo \in Seq(Items)
    BY DEF Reply!Init
  <2>2. given \in [Requests -> Seq(Requests \cup {Reply!None})] /\ built \in [Requests -> Nat]
    BY DEF Reply!Init
  <2>3. QED
    BY <2>1, <2>2 DEF Reply!Init, ReplyTypes
<1>2. Reply!RepliesMatch
  BY DEF Reply!Init, Reply!RepliesMatch
<1>3. Situation
  <2>1. AtRest
    BY DEF Reply!Init, AtRest, Extra, Deep
  <2>2. QED
    BY <2>1 DEF Situation
<1>4. Depths /\ SyncStates /\ Distinct /\ Frames /\ PreparedOK
  BY DEF Reply!Init, Depths, SyncStates, Distinct, Frames, PreparedOK
<1>5. Buffers /\ Untouched
  BY DEF Reply!Init, Buffers, Untouched, InHost, Waiting, Freeing, Reply!Freed
<1>6. QED
  BY <1>1, <1>2, <1>3, <1>4, <1>5 DEF ReplyInv, Live, Frames

LEMMA ReplyStutter == ASSUME ReplyInv, UNCHANGED Reply!vars PROVE ReplyInv'
<1>1. ReplyTypes' /\ Reply!RepliesMatch' /\ Waiting' = Waiting
  BY DEF ReplyInv, ReplyTypes, Reply!RepliesMatch, Waiting, Reply!vars, Reply!hook, Reply!driver
<1>2. ASSUME ~broken PROVE Live'
  <2>1. Live
    BY <1>2 DEF ReplyInv
  <2>2. /\ Depths' /\ SyncStates' /\ Distinct' /\ Frames' /\ PreparedOK'
        /\ InHost' = InHost /\ Freeing' = Freeing
    BY <2>1, HookKept DEF Reply!vars, Reply!driver
  <2>3. Situation'
    BY <2>1 DEF Live, Situation, AtRest, AtWork, ToReply, ToSend, ToCall, Replied, Sent,
       Called, CallFailed, Result, Deep, InCall, InRequest, Reply!vars, Reply!hook, Reply!driver
  <2>4. Buffers' /\ Untouched'
    BY <1>1, <2>1, <2>2 DEF Live, Buffers, Untouched, Reply!vars, Reply!hook, Reply!driver
  <2>5. QED
    BY <2>2, <2>3, <2>4 DEF Live, Frames
<1>3. QED
  BY <1>1, <1>2 DEF ReplyInv, Reply!vars

LEMMA ReplySteps == Reply!RepliesAssumption /\ ReplyInv /\ [Reply!Next]_(Reply!vars) => ReplyInv'
<1> SUFFICES ASSUME Reply!RepliesAssumption, ReplyInv, [Reply!Next]_(Reply!vars) PROVE ReplyInv'
  OBVIOUS
<1>1. CASE UNCHANGED Reply!vars
  BY <1>1, ReplyStutter
<1>2. ASSUME NEW r \in Requests, Reply!Deliver(r) PROVE ReplyInv'
  BY <1>2, DeliverKeeps
<1>3. CASE Reply!Answer
  BY <1>3, AnswerKeeps
<1>4. CASE Reply!SendReply
  BY <1>4, SendReplyKeeps
<1>5. ASSUME NEW k \in {"call", "oneway"}, Reply!Transact(k) PROVE ReplyInv'
  BY <1>5, CallKeeps, OnewayKeeps
<1>6. CASE Reply!WriteAll
  BY <1>6, WriteAllKeeps
<1>7. CASE Reply!WriteInterrupted
  BY <1>7, WriteInterruptedKeeps
<1>8. CASE Reply!WriteFailed
  BY <1>8, WriteFailedKeeps
<1>9. CASE Reply!Reset
  BY <1>9, ResetKeeps
<1>10. CASE Reply!Read
  BY <1>10, ReadKeeps
<1>11. QED
  BY <1>1, <1>2, <1>3, <1>4, <1>5, <1>6, <1>7, <1>8, <1>9, <1>10 DEF Reply!Next

\* What the driver adds to its queue is no result.
LEMMA ExtraNoResult ==
    ASSUME NEW base, NEW items, NEW stack, Extra(base, items, stack)
    PROVE  /\ items = <<>> \/ (Len(items) = 1 /\ items[1].k \notin ResultKinds)
<1>1. \A r \in Requests : Transaction(r).k \notin ResultKinds
  BY DEF Transaction, ResultKinds
<1>2. \A k \in {"reply", "dead"} : Answered(k).k \notin ResultKinds
  BY DEF Answered, ResultKinds
<1>3. QED
  BY <1>1, <1>2, OneFacts DEF Extra

\* Where results are, there is one, first in the queue, and it is awaited.
LEMMA ResultFirst ==
    ASSUME ReplyTypes, NEW k, NEW results, results \subseteq ResultKinds, Result(k, results),
           Tail(todo) = <<>> \/ (Len(Tail(todo)) = 1 /\ Tail(todo)[1].k \notin ResultKinds)
    PROVE  /\ Reply!Owed = {1} /\ DOMAIN completions = {1} /\ completions[1].cmd = todo[1].cmd
<1>1. /\ todo \in Seq(Items) /\ todo # <<>> /\ Head(todo).k \in ResultKinds
      /\ completions = <<Await(Head(todo).cmd)>>
  BY DEF ReplyTypes, Result
<1>2. /\ Tail(todo) \in Seq(Items) /\ Len(Tail(todo)) = Len(todo) - 1
      /\ \A i \in 1..(Len(todo) - 1) : Tail(todo)[i] = todo[i + 1]
      /\ Head(todo) = todo[1] /\ Len(todo) \in Nat \ {0} /\ DOMAIN todo = 1..Len(todo)
  BY <1>1, TailFacts
<1>3. \A i \in DOMAIN todo : todo[i].k \in ResultKinds <=> i = 1
  <2> SUFFICES ASSUME NEW i \in 1..Len(todo), i # 1 PROVE todo[i].k \notin ResultKinds
    BY <1>1, <1>2
  <2> DEFINE t == Tail(todo)
  <2>1. Len(t) = Len(todo) - 1
    BY <1>2
  <2>2. ASSUME t = <<>> PROVE Len(t) = 0
    <3> HIDE DEF t
    <3>1. QED
      BY <2>2
  <2>3. Len(t) = Len(todo) - 1 /\ (t = <<>> => Len(t) = 0)
    BY <2>1, <2>2
  <2>4. t = <<>> \/ Len(t) = 1
    OBVIOUS
  <2> HIDE DEF t
  <2>5. Len(todo) = 2 /\ i = 2 /\ 1 \in 1..(Len(todo) - 1) /\ t # <<>>
    BY <1>2, <2>3, <2>4
  <2>6. Tail(todo)[1] = todo[2]
    BY <1>2, <2>5
  <2>7. Tail(todo)[1].k \notin ResultKinds
    BY <2>5 DEF t
  <2>8. QED
    BY <2>5, <2>6, <2>7
<1>4. Reply!Owed = {1}
  BY <1>2, <1>3 DEF Reply!Owed, ResultKinds
<1>5. DOMAIN completions = {1} /\ completions[1] = Await(Head(todo).cmd)
  BY <1>1
<1>6. QED
  BY <1>2, <1>4, <1>5 DEF Await

\* The invariant gives the balance of the books.
LEMMA Balanced == ASSUME ReplyInv PROVE Reply!BooksBalance
<1> SUFFICES ASSUME ~broken
             PROVE  /\ \E f \in Reply!Bijection(DOMAIN completions, Reply!Owed) : Reply!InOrder(f)
                    /\ wait = "work" /\ todo = <<>> /\ out = <<>> =>
                          /\ frames = <<>> /\ prepared = <<>> /\ outbound = {} /\ sync = <<>>
                          /\ shadows = {} /\ held = {}
  BY DEF Reply!BooksBalance
<1>1. ReplyTypes /\ Live
  BY DEF ReplyInv
<1>2. \/ completions = <<>> /\ Reply!Owed = {}
      \/ Reply!Owed = {1} /\ DOMAIN completions = {1} /\ completions[1].cmd = todo[1].cmd
  <2>1. todo \in Seq(Items)
    BY <1>1 DEF ReplyTypes
  <2>2. ASSUME todo = <<>> PROVE Reply!Owed = {}
    BY <2>2 DEF Reply!Owed
  <2>3. CASE AtRest
    <3>1. todo = <<>> \/ (Len(todo) = 1 /\ todo[1].k \notin ResultKinds)
      BY <2>3, ExtraNoResult DEF AtRest
    <3>2. Reply!Owed = {}
      BY <2>1, <3>1 DEF Reply!Owed, ResultKinds
    <3>3. QED
      BY <2>3, <3>2 DEF AtRest
  <2>4. CASE AtWork \/ ToReply \/ ToSend \/ ToCall
    BY <2>2, <2>4 DEF AtWork, ToReply, ToSend, ToCall
  <2>5. CASE Replied
    <3>1. Tail(todo) = <<>> \/ (Len(Tail(todo)) = 1 /\ Tail(todo)[1].k \notin ResultKinds)
      BY <2>5, ExtraNoResult DEF Replied
    <3>2. {"complete", "failed"} \subseteq ResultKinds /\ Result("reply", {"complete", "failed"})
      BY <2>5 DEF Replied, ResultKinds
    <3>3. QED
      BY <1>1, <3>1, <3>2, ResultFirst
  <2>6. CASE Sent
    BY <1>1, <2>6, ResultFirst DEF Sent
  <2>7. CASE Called
    <3>1. Tail(todo) = <<>> \/ (Len(Tail(todo)) = 1 /\ Tail(todo)[1].k \notin ResultKinds)
      BY <2>7, ExtraNoResult DEF Called
    <3>2. {"complete"} \subseteq ResultKinds /\ Result("call", {"complete"})
      BY <2>7 DEF Called, ResultKinds
    <3>3. QED
      BY <1>1, <3>1, <3>2, ResultFirst
  <2>8. CASE CallFailed
    <3>1. {"failed"} \subseteq ResultKinds /\ Result("call", {"failed"}) /\ Tail(todo) = <<>>
      BY <2>8 DEF CallFailed, ResultKinds
    <3>2. QED
      BY <1>1, <3>1, ResultFirst
  <2>9. QED
    BY <1>1, <2>3, <2>4, <2>5, <2>6, <2>7, <2>8 DEF Live, Situation
<1>3. \E f \in Reply!Bijection(DOMAIN completions, Reply!Owed) : Reply!InOrder(f)
  <2>1. CASE completions = <<>> /\ Reply!Owed = {}
    <3> DEFINE f == [i \in {} |-> i]
    <3>1. DOMAIN completions = {}
      BY <2>1
    <3>2. f \in Reply!Bijection(DOMAIN completions, Reply!Owed)
      BY <2>1, <3>1 DEF Reply!Bijection, Reply!Injection, Reply!Surjection, Reply!IsInjective
    <3>3. Reply!InOrder(f)
      BY <3>1 DEF Reply!InOrder
    <3>4. QED
      BY <3>2, <3>3
  <2>2. CASE Reply!Owed = {1} /\ DOMAIN completions = {1} /\ completions[1].cmd = todo[1].cmd
    <3> DEFINE f == [i \in {1} |-> 1]
    <3>1. f \in Reply!Bijection(DOMAIN completions, Reply!Owed)
      BY <2>2 DEF Reply!Bijection, Reply!Injection, Reply!Surjection, Reply!IsInjective
    <3>2. Reply!InOrder(f)
      BY <2>2 DEF Reply!InOrder
    <3>3. QED
      BY <3>1, <3>2
  <2>3. QED
    BY <1>2, <2>1, <2>2
<1>4. ASSUME wait = "work", todo = <<>>, out = <<>>
      PROVE  /\ frames = <<>> /\ prepared = <<>> /\ outbound = {} /\ sync = <<>>
             /\ shadows = {} /\ held = {}
  <2>1. AtRest
    BY <1>1, <1>4 DEF Live, Situation, AtWork, ToReply, ToSend, ToCall, Replied, Sent, Called,
       CallFailed
  <2>2. host = <<>>
    BY <1>4, <2>1 DEF AtRest
  <2>3. frames \in Seq(FrameRecs) /\ sync \in Seq({"PendingCompletion", "AwaitingReply"})
    BY <1>1 DEF ReplyTypes
  <2>4. Len(frames) = 0 /\ Len(sync) = 0
    BY <2>1, <2>2, <2>3 DEF AtRest, Deep
  <2>5. prepared = <<>> /\ outbound = {}
    BY <1>1, <1>4 DEF Live, PreparedOK, Reply!HasReply
  <2>6. InHost = {} /\ Waiting = {} /\ Freeing = {}
    BY <1>4, <2>2 DEF InHost, Waiting, Freeing, Reply!Freed
  <2>7. shadows = {} /\ held = {}
    BY <1>1, <2>6 DEF Live, Buffers
  <2>8. QED
    BY <2>3, <2>4, <2>5, <2>7
<1>5. QED
  BY <1>3, <1>4

\* For any requests of any kinds, nested to any depth, and any number of calls,
\* whatever fails, is interrupted and written again, or is closed: each client
\* is given the reply to its own request, at most once, and what makes that
\* reply runs at most once (handle_bc_reply takes the newest frame that no
\* reply has claimed, and a prepared reply is kept for the retry).
THEOREM RepliesAlwaysMatch ==
    Reply!RepliesAssumption => (Reply!Spec => []RepliesMatch)
<1> SUFFICES ASSUME Reply!RepliesAssumption PROVE Reply!Spec => []RepliesMatch
  OBVIOUS
<1>1. Reply!Init => ReplyInv
  BY ReplyInit
<1>2. ReplyInv /\ [Reply!Next]_(Reply!vars) => ReplyInv'
  BY ReplySteps
<1>3. ReplyInv => RepliesMatch
  BY DEF ReplyInv, RepliesMatch
<1>4. QED
  BY <1>1, <1>2, <1>3, PTL DEF Reply!Spec

\* Likewise, on a connection in use: the results that the hook waits for are
\* those the driver owes the thread, in that order, so that
\* complete_failed_transaction_submission charges a failure to the command that
\* failed; and a thread that waits for work has kept no frame, reply, call,
\* shadow or buffer of what it did.
THEOREM BooksAlwaysBalance ==
    Reply!RepliesAssumption => (Reply!Spec => []BooksBalance)
<1> SUFFICES ASSUME Reply!RepliesAssumption PROVE Reply!Spec => []BooksBalance
  OBVIOUS
<1>1. Reply!Init => ReplyInv
  BY ReplyInit
<1>2. ReplyInv /\ [Reply!Next]_(Reply!vars) => ReplyInv'
  BY ReplySteps
<1>3. ReplyInv => BooksBalance
  BY Balanced DEF BooksBalance
<1>4. QED
  BY <1>1, <1>2, <1>3, PTL DEF Reply!Spec
=============================================================================
