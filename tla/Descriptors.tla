----------------------------- MODULE Descriptors -----------------------------
(***************************************************************************)
(* Numbers and what they stand for.  The main thread accepts a connection, *)
(* which gets the lowest free descriptor, and posts its ADD to a loop; the *)
(* loop finds the connection by that number in m_channelMap, the kernel    *)
(* finds the socket by that number in epoll_ctl (EventLoop.cpp,            *)
(* EpollDispatcher.cpp).  As soon as a number is closed another thread may *)
(* get it again, while the loop still has records of it to work off.  The  *)
(* manager thread deletes loops that have no connection left               *)
(* (ThreadPool.cpp), which closes their socket pairs.                      *)
(*                                                                         *)
(* A callback of a connection is reduced to its calls of addTask: any      *)
(* number of MODIFYs, then perhaps the DELETE (TcpConnection.cpp:95-209).  *)
(* EPOLLHUP comes with EPOLLIN or EPOLLERR on a socket that is watched for *)
(* reading, as all are.  Left out are the descriptors of files and the     *)
(* closures of queueInLoop, which no loop gets before the server ends.     *)
(*                                                                         *)
(* Operators named Broken... are faulty variants of the operator that      *)
(* follows them; no specification uses them.                               *)
(***************************************************************************)
EXTENDS Integers, Sequences, FiniteSets

CONSTANTS Connections, \* the connections clients will ever open
          Loops,       \* the workers' loops
          None         \* nothing

\* The ends of the socket pairs.
Pairs == Loops \X {0, 1}

ASSUME DescriptorAssumption ==
    /\ IsFiniteSet(Connections) /\ IsFiniteSet(Loops)
    /\ None \notin Connections \cup Loops \cup Pairs
    /\ Connections \cap Pairs = {}

\* As many numbers as can be taken at once: a free one is always found.
Numbers == 1 .. Cardinality(Connections) + 2 * Cardinality(Loops)

VARIABLES table,      \* descriptor table: connection or end of a pair, or None
          socket,     \* m_channel->getSocket() of each connection
          loopOf,     \* m_evLoop of each connection
          pair,       \* m_socketPair of each loop
          epoll,      \* of each loop: the registered sockets, their numbers, and
                      \* whether they are watched for writing
          channelMap, \* m_channelMap of each loop, its own channel left out
          taskQ,      \* m_taskQ of each loop
          phase,      \* where each loop is in run(), or in its destructor
          batch,      \* m_events: records not yet worked off
          record,     \* the record that is worked off, and the events left of it
          callee,     \* the connection whose callback is running
          draining,   \* the loop is in processTaskQ
          expired,    \* expired of processTimeouts
          failed,     \* epoll_ctl has failed: the process ends
          cut,        \* history: connections closed by the destructor of a loop
          called,     \* history: connections a callback of which was called
          strays      \* history: calls because of a record of another connection

kernel == <<table, epoll>>
loop == <<phase, batch, record, callee, draining, expired>>
books == <<socket, loopOf, pair>>
history == <<called, strays>>
vars == <<kernel, books, channelMap, taskQ, loop, failed, cut, history>>

NoRecord == [number |-> 0, of |-> None, events |-> {}]

\* The loops exist; socketpair has taken the lowest numbers.
Init ==
    /\ pair \in [Pairs -> 1 .. 2 * Cardinality(Loops)]
    /\ \A p, q \in Pairs : p # q => pair[p] # pair[q]
    /\ \A l \in Loops : pair[<<l, 1>>] = pair[<<l, 0>>] + 1
    /\ table = [n \in Numbers |-> IF \E p \in Pairs : pair[p] = n
                                  THEN CHOOSE p \in Pairs : pair[p] = n
                                  ELSE None]
    /\ socket = [c \in Connections |-> 0]
    /\ loopOf = [c \in Connections |-> None]
    /\ epoll = [l \in Loops |-> {}]
    /\ channelMap = [l \in Loops |-> [n \in Numbers |-> None]]
    /\ taskQ = [l \in Loops |-> <<>>]
    /\ phase = [l \in Loops |-> "wait"]
    /\ batch = [l \in Loops |-> {}]
    /\ record = [l \in Loops |-> NoRecord]
    /\ callee = [l \in Loops |-> None]
    /\ draining = [l \in Loops |-> FALSE]
    /\ expired = [l \in Loops |-> {}]
    /\ failed = FALSE /\ cut = {} /\ called = {} /\ strays = {}
-----------------------------------------------------------------------------
\* The main thread: acceptConnection, the constructor of TcpConnection.

Lowest == CHOOSE n \in Numbers : /\ table[n] = None
                                 /\ \A m \in 1 .. n - 1 : table[m] # None

\* Where a thread is, as long as the process is there.
At(l, p) == phase[l] = p /\ ~failed

Running(l) == \E p \in {"wait", "batch", "tasks", "sweep"} : At(l, p)

Accept(c, l) ==
    /\ loopOf[c] = None /\ Running(l)
    /\ table' = [table EXCEPT ![Lowest] = c]
    /\ socket' = [socket EXCEPT ![c] = Lowest]
    /\ loopOf' = [loopOf EXCEPT ![c] = l]
    /\ taskQ' = [taskQ EXCEPT ![l] = Append(@, <<"ADD", c>>)]
    /\ UNCHANGED <<pair, epoll, channelMap, loop, failed, cut, history>>
-----------------------------------------------------------------------------
\* The kernel.  A socket that is closed leaves every epoll set.

Watched(l, n) == {e \in epoll[l] : e.number = n /\ e.of = table[n]}

Close(n) ==
    /\ table' = [table EXCEPT ![n] = None]
    /\ epoll' = [l \in Loops |-> {e \in epoll[l] : e.of # table[n]}]

Fail == failed' = TRUE /\ UNCHANGED <<kernel, channelMap>>
-----------------------------------------------------------------------------
\* add, modify and remove of a loop; epoll_ctl sees only the number.

Add(l, c) ==
    LET n == socket[c] IN
    IF channelMap[l][n] # None
      THEN UNCHANGED <<kernel, channelMap, failed>>
      ELSE \/ /\ table[n] = None \/ Watched(l, n) # {}
              /\ Fail
           \/ /\ table[n] # None /\ Watched(l, n) = {}
              /\ epoll' = [epoll EXCEPT ![l] =
                             @ \cup {[number |-> n, of |-> table[n], out |-> FALSE]}]
              /\ channelMap' = [channelMap EXCEPT ![l][n] = c]
              /\ UNCHANGED <<table, failed>>

Modify(l, c) ==
    LET n == socket[c] IN
    IF channelMap[l][n] = None
      THEN UNCHANGED <<kernel, channelMap, failed>>
      ELSE \/ Watched(l, n) = {} /\ Fail
           \/ /\ Watched(l, n) # {}
              /\ \E out \in BOOLEAN :
                   epoll' = [epoll EXCEPT ![l] = (@ \ Watched(l, n))
                               \cup {[number |-> n, of |-> table[n], out |-> out]}]
              /\ UNCHANGED <<table, channelMap, failed>>

BrokenFreeChannel(l, n) ==   \* closes the socket and leaves the channel
    Close(n) /\ UNCHANGED channelMap

\* freeChannel, at the end of the destructor.
FreeChannel(l, n) ==
    /\ Close(n)
    /\ channelMap' = [channelMap EXCEPT ![l][n] = None]

BrokenRemove(l, c) ==   \* the destructor first
    LET n == socket[c] IN
    IF channelMap[l][n] = None
      THEN UNCHANGED <<kernel, channelMap, failed>>
      ELSE Fail

\* EpollDispatcher::remove, with destroyCallback.
Remove(l, c) ==
    LET n == socket[c] IN
    IF channelMap[l][n] = None
      THEN UNCHANGED <<kernel, channelMap, failed>>
      ELSE \/ Watched(l, n) = {} /\ Fail
           \/ /\ Watched(l, n) # {}
              /\ FreeChannel(l, n)
              /\ UNCHANGED failed
-----------------------------------------------------------------------------
\* The loop thread: dispatch.

AtHome(l) == callee[l] = None /\ ~draining[l]

InCallback(l) == callee[l] # None /\ ~draining[l] /\ ~failed

Events(e) == {"read"} \cup (IF e.out THEN {"write"} ELSE {})

\* epoll_wait: records of some of the sockets.
EpollWait(l) ==
    /\ At(l, "wait")
    /\ \E ready \in SUBSET epoll[l] :
         \E events \in [ready -> (SUBSET {"read", "write"}) \cup {{"error"}}] :
           /\ \A e \in ready :
                /\ events[e] # {}
                /\ events[e] = {"error"} \/ events[e] \subseteq Events(e)
           /\ batch' = [batch EXCEPT ![l] =
                 {[number |-> e.number, of |-> e.of, events |-> events[e]] : e \in ready}]
    /\ phase' = [phase EXCEPT ![l] = "batch"]
    /\ UNCHANGED <<kernel, books, channelMap, taskQ, record, callee, draining, expired,
                   failed, cut, history>>

NextRecord(l) ==
    /\ At(l, "batch") /\ AtHome(l) /\ record[l].events = {}
    /\ \E r \in batch[l] :
         /\ record' = [record EXCEPT ![l] = r]
         /\ batch' = [batch EXCEPT ![l] = @ \ {r}]
    /\ UNCHANGED <<kernel, books, channelMap, taskQ, phase, callee, draining, expired,
                   failed, cut, history>>

\* The connection a record leads to, and whether it is about that connection.
Found(l) == channelMap[l][record[l].number]

Note(l, call) ==
    /\ called' = called \cup {Found(l)}
    /\ strays' = IF Found(l) = record[l].of THEN strays
                 ELSE strays \cup {<<call, Found(l) \in called>>}

\* EPOLLERR: removeFd.
OnError(l) ==
    /\ At(l, "batch") /\ AtHome(l) /\ "error" \in record[l].events
    /\ IF Found(l) = None
         THEN UNCHANGED <<kernel, channelMap, failed, history>>
         ELSE Remove(l, Found(l)) /\ Note(l, "remove")
    /\ record' = [record EXCEPT ![l] = NoRecord]
    /\ UNCHANGED <<books, taskQ, phase, batch, callee, draining, expired, cut>>

\* EPOLLIN before EPOLLOUT: eventActive looks the number up, each time again.
EventActive(l, event) ==
    /\ At(l, "batch") /\ AtHome(l) /\ event \in record[l].events
    /\ event = "write" => "read" \notin record[l].events
    /\ callee' = [callee EXCEPT ![l] = Found(l)]
    /\ IF Found(l) = None THEN UNCHANGED history ELSE Note(l, event)
    /\ record' = [record EXCEPT ![l] =
                    IF @.events = {event} THEN NoRecord
                    ELSE [number |-> @.number, of |-> @.of, events |-> @.events \ {event}]]
    /\ UNCHANGED <<kernel, books, channelMap, taskQ, phase, batch, draining, expired,
                   failed, cut>>

\* addTask by the loop's own thread.
Post(l, type, c) ==
    /\ taskQ' = [taskQ EXCEPT ![l] = Append(@, <<type, c>>)]
    /\ draining' = [draining EXCEPT ![l] = TRUE]

CallbackModify(l) ==
    /\ InCallback(l)
    /\ Post(l, "MODIFY", callee[l])
    /\ UNCHANGED <<kernel, books, channelMap, phase, batch, record, callee, expired,
                   failed, cut, history>>

CallbackDelete(l) ==
    /\ InCallback(l)
    /\ Post(l, "DELETE", callee[l])
    /\ callee' = [callee EXCEPT ![l] = None]
    /\ UNCHANGED <<kernel, books, channelMap, phase, batch, record, expired,
                   failed, cut, history>>

CallbackReturn(l) ==
    /\ InCallback(l)
    /\ callee' = [callee EXCEPT ![l] = None]
    /\ UNCHANGED <<kernel, books, channelMap, taskQ, phase, batch, record, draining,
                   expired, failed, cut, history>>

DispatchDone(l) ==
    /\ At(l, "batch") /\ AtHome(l) /\ record[l].events = {} /\ batch[l] = {}
    /\ phase' = [phase EXCEPT ![l] = "tasks"]
    /\ draining' = [draining EXCEPT ![l] = TRUE]
    /\ UNCHANGED <<kernel, books, channelMap, taskQ, batch, record, callee, expired,
                   failed, cut, history>>

\* processTaskQ, wherever it is called from.
RunTask(l) ==
    /\ draining[l] /\ taskQ[l] # <<>> /\ ~failed
    /\ LET c == Head(taskQ[l])[2] IN
       CASE Head(taskQ[l])[1] = "ADD"    -> Add(l, c)
         [] Head(taskQ[l])[1] = "MODIFY" -> Modify(l, c)
         [] Head(taskQ[l])[1] = "DELETE" -> Remove(l, c)
    /\ taskQ' = [taskQ EXCEPT ![l] = Tail(@)]
    /\ UNCHANGED <<books, loop, cut, history>>

DrainReturn(l) ==
    /\ draining[l] /\ taskQ[l] = <<>> /\ ~failed
    /\ draining' = [draining EXCEPT ![l] = FALSE]
    /\ IF phase[l] = "tasks"
         THEN /\ phase' = [phase EXCEPT ![l] = "sweep"]
              /\ \E idle \in SUBSET ({channelMap[l][n] : n \in Numbers} \ {None}) :
                    expired' = [expired EXCEPT ![l] = idle]
         ELSE UNCHANGED <<phase, expired>>
    /\ UNCHANGED <<kernel, books, channelMap, taskQ, batch, record, callee,
                   failed, cut, history>>

BrokenExpire(l) ==   \* between the records of a batch
    /\ At(l, "batch") \/ At(l, "sweep")
    /\ AtHome(l)
    /\ \E n \in Numbers :
         /\ channelMap[l][n] # None
         /\ Post(l, "DELETE", channelMap[l][n])
         /\ expired' = [expired EXCEPT ![l] = @ \ {channelMap[l][n]}]
    /\ UNCHANGED <<kernel, books, channelMap, phase, batch, record, callee,
                   failed, cut, history>>

\* processTimeouts, behind the batch.
Expire(l) ==
    /\ At(l, "sweep") /\ ~draining[l]
    /\ \E c \in expired[l] :
         /\ Post(l, "DELETE", c)
         /\ expired' = [expired EXCEPT ![l] = @ \ {c}]
    /\ UNCHANGED <<kernel, books, channelMap, phase, batch, record, callee,
                   failed, cut, history>>

SweepDone(l) ==
    /\ At(l, "sweep") /\ ~draining[l] /\ expired[l] = {}
    /\ phase' = [phase EXCEPT ![l] = "wait"]
    /\ UNCHANGED <<kernel, books, channelMap, taskQ, batch, record, callee, draining,
                   expired, failed, cut, history>>
-----------------------------------------------------------------------------
\* The manager thread: stop, then ~EventLoop.

\* The worker is not needed and has no connection.
StopLoop(l) ==
    /\ At(l, "wait")
    /\ \E k \in Loops \ {l} : Running(k)
    /\ taskQ[l] = <<>> /\ \A n \in Numbers : channelMap[l][n] = None
    /\ phase' = [phase EXCEPT ![l] = "closeMap"]
    /\ UNCHANGED <<kernel, books, channelMap, taskQ, batch, record, callee, draining,
                   expired, failed, cut, history>>

\* close(fd) of the loop's destructor, and where it goes on.
CloseOwn(l, n, next) ==
    /\ Close(n)
    /\ cut' = cut \cup ({table[n]} \cap Connections)
    /\ phase' = [phase EXCEPT ![l] = next]
    /\ UNCHANGED <<books, channelMap, taskQ, batch, record, callee, draining, expired,
                   failed, history>>

\* Of all channels only the loop's own is left in m_channelMap.
CloseMap(l) == At(l, "closeMap") /\ CloseOwn(l, pair[<<l, 1>>], "closePair0")

ClosePair0(l) == At(l, "closePair0") /\ CloseOwn(l, pair[<<l, 0>>], "closePair1")

ClosePair1(l) == At(l, "closePair1") /\ CloseOwn(l, pair[<<l, 1>>], "deleted")
-----------------------------------------------------------------------------
Run(l) == \/ EpollWait(l) \/ NextRecord(l) \/ OnError(l)
          \/ \E event \in {"read", "write"} : EventActive(l, event)
          \/ CallbackModify(l) \/ CallbackDelete(l) \/ CallbackReturn(l)
          \/ DispatchDone(l) \/ RunTask(l) \/ DrainReturn(l)
          \/ Expire(l) \/ SweepDone(l)

Delete(l) == StopLoop(l) \/ CloseMap(l) \/ ClosePair0(l) \/ ClosePair1(l)

Next == \E l \in Loops : \/ \E c \in Connections : Accept(c, l)
                        \/ Run(l) \/ Delete(l)

Spec == Init /\ [][Next]_vars
-----------------------------------------------------------------------------
\* A failing epoll_ctl ends the whole server (EpollDispatcher.cpp:27-61).  In
\* spite of numbers that come and go no loop ever hands in one that is not open
\* or not registered, unless the destructor of another loop has closed it.
OnlyCutsFail == failed => cut # {}

\* A connection that has been added is found under its number, and its socket
\* is watched, until it is destroyed: a new connection with the number of an
\* old one is not taken for it (EventLoop.cpp:280-316, 332-343).
FoundAndWatched ==
    cut = {} =>
        \A c \in Connections :
            LET l == loopOf[c] n == socket[c] IN
            l # None /\ table[n] = c =>
                \/ <<"ADD", c>> \in {taskQ[l][i] : i \in DOMAIN taskQ[l]}
                \/ channelMap[l][n] = c /\ Watched(l, n) # {}

\* A record may outlive its connection, and its number may lead to a new one.
\* But then it is the write event of a connection that has closed itself in the
\* read event before: the new one is told that it can write when it has nothing
\* to write yet, and nothing else can happen to it (EpollDispatcher.cpp:70-91,
\* EventLoop.cpp:132-164).
StraysHarmless == cut = {} => strays \subseteq {<<"write", FALSE>>}

\* A worker is deleted when its connections are closed; this closes no other
\* (TESTING.md:41).
ReclaimCutsNone == cut = {}
=============================================================================
