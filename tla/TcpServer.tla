----------------------------- MODULE TcpServer -----------------------------
(***************************************************************************)
(* Admission of connections and the books kept about them: the main thread *)
(* accepts (TcpServer.cpp), constructs the TcpConnection and registers it; *)
(* the worker thread that owns the connection's loop destroys it           *)
(* (~TcpConnection).  Neither waits for the other: as soon as the ADD is   *)
(* posted the worker may have the connection, and destroy it, before the   *)
(* main thread has counted and registered it.                              *)
(*                                                                         *)
(* Which loop takeWorkerEventLoop returns is left open here (see           *)
(* ThreadPool), and what a connection does while it lives (see             *)
(* TcpConnection).  A signal ends the process: beginShutdown removes the   *)
(* listen channel, which has no destroyCallback, and the exception leaves  *)
(* main.                                                                   *)
(*                                                                         *)
(* Operators named Broken... are faulty variants of the operator that      *)
(* follows them; no specification uses them.                               *)
(***************************************************************************)
EXTENDS Integers, FiniteSets

CONSTANTS Connections,    \* the connections clients will ever open
          Loops,          \* the workers' loops
          None,           \* no connection, no loop
          MaxConnections, \* m_config.maxConnections
          Wrap            \* 2^64, the modulus of ServerMetrics' counters

ASSUME ServerAssumption ==
    /\ IsFiniteSet(Connections) /\ IsFiniteSet(Loops)
    /\ None \notin Connections \cup Loops
    /\ MaxConnections \in Nat
    /\ Wrap \in Nat /\ Cardinality(Connections) < Wrap

VARIABLES conn,      \* where each connection is in its life
          loopOf,    \* m_evLoop
          mainPc,    \* where the main thread is
          current,   \* the connection being constructed
          active,    \* m_activeConnections
          count,     \* m_connectionCount of each loop
          registry,  \* m_connections
          signalled  \* a byte is in the signal pipe

vars == <<conn, loopOf, mainPc, current, active, count, registry, signalled>>

BrokenDecrement(n) == IF n = 0 THEN 0 ELSE n - 1   \* saturates

\* fetch_add and fetch_sub of an unsigned counter.
Increment(n) == IF n = Wrap - 1 THEN 0 ELSE n + 1
Decrement(n) == IF n = 0 THEN Wrap - 1 ELSE n - 1

Running == mainPc # "aborted"

Init ==
    /\ conn = [c \in Connections |-> "none"]
    /\ loopOf = [c \in Connections |-> None]
    /\ mainPc = "poll" /\ current = None
    /\ active = 0 /\ count = [l \in Loops |-> 0]
    /\ registry = {} /\ signalled = FALSE
-----------------------------------------------------------------------------
\* Clients, and the signal handler.

Connect(c) ==
    /\ Running /\ conn[c] = "none"
    /\ conn' = [conn EXCEPT ![c] = "waiting"]
    /\ UNCHANGED <<loopOf, mainPc, current, active, count, registry, signalled>>

Signal ==
    /\ Running
    /\ signalled' = TRUE
    /\ UNCHANGED <<conn, loopOf, mainPc, current, active, count, registry>>
-----------------------------------------------------------------------------
\* The main thread: acceptConnection.

Waiting == {c \in Connections : conn[c] = "waiting"}

ListenReady ==
    /\ mainPc = "poll" /\ Waiting # {}
    /\ mainPc' = "accept"
    /\ UNCHANGED <<conn, loopOf, current, active, count, registry, signalled>>

BrokenFull == active > MaxConnections   \* one too many

Full == active >= MaxConnections

Accept(c) ==
    /\ mainPc = "accept" /\ c \in Waiting
    /\ ~Full
    /\ conn' = [conn EXCEPT ![c] = "accepted"]
    /\ current' = c
    /\ mainPc' = "take"
    /\ UNCHANGED <<loopOf, active, count, registry, signalled>>

\* The 503 answer.
Reject(c) ==
    /\ mainPc = "accept" /\ c \in Waiting
    /\ Full
    /\ conn' = [conn EXCEPT ![c] = "rejected"]
    /\ UNCHANGED <<loopOf, mainPc, current, active, count, registry, signalled>>

\* fcntl fails.
Drop(c) ==
    /\ mainPc = "accept" /\ c \in Waiting
    /\ conn' = [conn EXCEPT ![c] = "gone"]
    /\ UNCHANGED <<loopOf, mainPc, current, active, count, registry, signalled>>

\* EAGAIN, or an error of accept: the loop breaks off.
AcceptReturns ==
    /\ mainPc = "accept"
    /\ mainPc' = "poll"
    /\ UNCHANGED <<conn, loopOf, current, active, count, registry, signalled>>

BrokenOpenOnLoop(l) ==   \* the loop does not count
    /\ mainPc = "take"
    /\ loopOf' = [loopOf EXCEPT ![current] = l]
    /\ mainPc' = "opened"
    /\ UNCHANGED <<conn, current, active, count, registry, signalled>>

\* takeWorkerEventLoop, then the constructor: EventLoop::connectionOpened, ...
OpenOnLoop(l) ==
    /\ mainPc = "take"
    /\ loopOf' = [loopOf EXCEPT ![current] = l]
    /\ count' = [count EXCEPT ![l] = @ + 1]
    /\ mainPc' = "opened"
    /\ UNCHANGED <<conn, current, active, registry, signalled>>

\* ... addTask(ADD), from here on the worker has the connection, ...
PostAdd ==
    /\ mainPc = "opened"
    /\ conn' = [conn EXCEPT ![current] = "posted"]
    /\ mainPc' = "posted"
    /\ UNCHANGED <<loopOf, current, active, count, registry, signalled>>

\* ... ServerMetrics::connectionOpened.
CountOpened ==
    /\ mainPc = "posted"
    /\ active' = Increment(active)
    /\ mainPc' = "counted"
    /\ UNCHANGED <<conn, loopOf, current, count, registry, signalled>>

BrokenRegister ==   \* trusts a connection the worker has not seen yet only
    /\ mainPc = "counted"
    /\ registry' = IF conn[current] = "posted" THEN registry \cup {current}
                                               ELSE registry
    /\ mainPc' = "accept" /\ current' = None
    /\ UNCHANGED <<conn, loopOf, active, count, signalled>>

Register ==
    /\ mainPc = "counted"
    /\ registry' = registry \cup {current}
    /\ mainPc' = "accept" /\ current' = None
    /\ UNCHANGED <<conn, loopOf, active, count, signalled>>

\* handleSignalPipe and beginShutdown, as far as they get.
HandleSignalPipe ==
    /\ mainPc = "poll" /\ signalled
    /\ signalled' = FALSE
    /\ mainPc' = "aborted"
    /\ UNCHANGED <<conn, loopOf, current, active, count, registry>>
-----------------------------------------------------------------------------
\* The worker threads.

Dying(c) == conn[c] \in {"unregistered", "uncounted", "left"}

\* The worker of loop l is not inside a destructor.
AtLarge(l) == \A c \in Connections : loopOf[c] = l => ~Dying(c)

\* processTaskQ reaches the ADD.
WorkerAdds(c) ==
    /\ Running /\ conn[c] = "posted" /\ AtLarge(loopOf[c])
    /\ conn' = [conn EXCEPT ![c] = "open"]
    /\ UNCHANGED <<loopOf, mainPc, current, active, count, registry, signalled>>

\* The connection ends, for whatever reason.  ~TcpConnection:
\* unregisterConnection, ...
Unregister(c) ==
    /\ Running /\ conn[c] = "open" /\ AtLarge(loopOf[c])
    /\ conn' = [conn EXCEPT ![c] = "unregistered"]
    /\ registry' = registry \ {c}
    /\ UNCHANGED <<loopOf, mainPc, current, active, count, signalled>>

BrokenCountClosed(c) ==   \* a counter that saturates at zero
    /\ Running /\ conn[c] = "unregistered"
    /\ conn' = [conn EXCEPT ![c] = "uncounted"]
    /\ active' = BrokenDecrement(active)
    /\ UNCHANGED <<loopOf, mainPc, current, count, registry, signalled>>

\* ... ServerMetrics::connectionClosed, ...
CountClosed(c) ==
    /\ Running /\ conn[c] = "unregistered"
    /\ conn' = [conn EXCEPT ![c] = "uncounted"]
    /\ active' = Decrement(active)
    /\ UNCHANGED <<loopOf, mainPc, current, count, registry, signalled>>

\* ... EventLoop::connectionClosed, ...
LeaveLoop(c) ==
    /\ Running /\ conn[c] = "uncounted"
    /\ conn' = [conn EXCEPT ![c] = "left"]
    /\ count' = [count EXCEPT ![loopOf[c]] = IF @ > 0 THEN @ - 1 ELSE @]
    /\ UNCHANGED <<loopOf, mainPc, current, active, registry, signalled>>

BrokenFreeChannel(c) ==   \* only if the main thread is through with it
    /\ Running /\ conn[c] = "left" /\ c \in registry
    /\ conn' = [conn EXCEPT ![c] = "gone"]
    /\ UNCHANGED <<loopOf, mainPc, current, active, count, registry, signalled>>

\* ... freeChannel, which closes the socket.
FreeChannel(c) ==
    /\ Running /\ conn[c] = "left"
    /\ conn' = [conn EXCEPT ![c] = "gone"]
    /\ UNCHANGED <<loopOf, mainPc, current, active, count, registry, signalled>>
-----------------------------------------------------------------------------
Admit(c) == Accept(c) \/ Reject(c) \/ Drop(c)

Construct == \/ \E l \in Loops : OpenOnLoop(l)
             \/ PostAdd \/ CountOpened \/ Register

Main == \/ ListenReady \/ AcceptReturns \/ Construct \/ HandleSignalPipe
        \/ \E c \in Connections : Admit(c)

Destructor(c) == CountClosed(c) \/ LeaveLoop(c) \/ FreeChannel(c)

Worker(c) == WorkerAdds(c) \/ Unregister(c) \/ Destructor(c)

Next == \/ \E c \in Connections : Connect(c) \/ Worker(c)
        \/ Main \/ Signal

Spec == Init /\ [][Next]_vars

\* Threads run; accept does not fail for ever; every connection ends, at the
\* latest by its idle timeout.
Fairness == /\ WF_vars(Main)
            /\ \A c \in Connections : /\ SF_vars(Admit(c))
                                      /\ SF_vars(WorkerAdds(c) \/ Unregister(c))
                                      /\ WF_vars(Destructor(c))

FairSpec == Spec /\ Fairness
-----------------------------------------------------------------------------
TypeOK ==
    /\ conn \in [Connections -> {"none", "waiting", "accepted", "rejected",
                                 "posted", "open", "unregistered", "uncounted",
                                 "left", "gone"}]
    /\ loopOf \in [Connections -> Loops \cup {None}]
    /\ mainPc \in {"poll", "accept", "take", "opened", "posted", "counted",
                   "aborted"}
    /\ current \in Connections \cup {None}
    /\ active \in 0 .. Wrap - 1
    /\ count \in [Loops -> Nat]
    /\ registry \in SUBSET Connections
    /\ signalled \in BOOLEAN

\* Accepted and not yet given up; with an open socket.
Served == {c \in Connections :
             conn[c] \in {"accepted", "posted", "open", "unregistered"}}
Sockets == Served \cup {c \in Connections : conn[c] \in {"uncounted", "left"}}

\* The limit on connections holds although its check and the counter it reads
\* are steps apart, and although a worker may count a connection closed before
\* the main thread has counted it open (TcpServer.cpp:137,
\* TcpConnection.cpp:73-75, 89).
ConnectionCap == Cardinality(Served) <= MaxConnections

\* Each worker may hold one more socket, of the connection it is destroying.
SocketCap == Cardinality(Sockets) <= MaxConnections + Cardinality(Loops)

\* A connection is admitted if there is room and rejected if there is not: the
\* main thread never decides on a counter that has wrapped or lags behind
\* (TcpServer.cpp:137-148).
AdmissionExact ==
    [][\A c \in Connections :
         /\ conn[c] = "waiting" /\ conn'[c] = "accepted"
              => Cardinality(Served) < MaxConnections
         /\ conn[c] = "waiting" /\ conn'[c] = "rejected"
              => Cardinality(Served) = MaxConnections]_vars

\* A worker's loop shows exactly the connections that have been given to it and
\* are not yet destroyed: with fewer the pool would stop a worker that has
\* connections, with more it would never stop it (TcpConnection.cpp:73-74, 90;
\* ThreadPool.cpp:177).
LoadShown ==
    \A l \in Loops :
        count[l] = Cardinality({c \in Sockets : loopOf[c] = l /\ conn[c] # "left"})

\* Outside of a construction every live connection is in the registry, where
\* shutdown looks for it (TcpServer.cpp:150-153, 298-308).
RegistryComplete ==
    mainPc \in {"poll", "accept"} =>
        {c \in Connections : conn[c] \in {"posted", "open"}} \subseteq registry

\* Every connection that waits to be accepted is admitted or rejected, and
\* every one admitted gives its socket back, until the server is stopped
\* (TcpServer.cpp:105-156, TcpConnection.cpp:78-93).
ConnectionsEnd ==
    \A c \in Connections :
        conn[c] = "waiting" ~> (conn[c] \in {"rejected", "gone"} \/ ~Running)

\* The process does not end before the requests of the established connections
\* are answered (deploy/DEPLOY.md:83).
DrainBeforeExit == Running \/ Served = {}
=============================================================================
