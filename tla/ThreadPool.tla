----------------------------- MODULE ThreadPool -----------------------------
(***************************************************************************)
(* The pool of worker threads (ThreadPool.cpp, WorkerThread.cpp): the main *)
(* thread starts it, takes a loop for each accepted connection and stops   *)
(* it; a manager thread marks an idle worker as draining and later stops   *)
(* and deletes it; each worker thread publishes its EventLoop, calls its   *)
(* run() and returns once a stop was requested.                            *)
(*                                                                         *)
(* A critical section of m_mutex is one step, except that the manager's is *)
(* cut in two (reclaim, balance) since connections are opened and closed   *)
(* without the mutex while it holds it.  Workers are numbered in the order *)
(* they are created, which is their order in m_workerThreads.  Inside a    *)
(* worker only run() and m_isQuit are kept: EventLoop.tla has the rest.    *)
(*                                                                         *)
(* Operators named Broken... are faulty variants of the operator that      *)
(* follows them; no specification uses them.                               *)
(*                                                                         *)
(* C++ gives no meaning to a call on a deleted loop: the main thread stops *)
(* there, in state "holding", and HeldLoopAlive says so.                   *)
(***************************************************************************)
EXTENDS Integers, FiniteSetsExt

CONSTANTS MinThreads, MaxThreads,
          ScaleUp,        \* ScaleUpConnectionsPerWorker (64)
          ScaleDown,      \* ScaleDownConnectionsPerWorker (8)
          ScaleDownDelay, \* ScaleDownDelaySeconds (30)
          MaxWorkerId,    \* bound: workers ever created
          MaxConnections, \* m_config.maxConnections
          NoLoop,         \* the main thread holds no loop
          MainLoop,       \* m_mainLoop
          Timely          \* the threads are fast compared to a second

ASSUME PoolAssumption ==
    /\ MinThreads \in Nat \ {0}
    /\ MaxThreads \in Nat /\ MinThreads <= MaxThreads
    /\ ScaleUp \in Nat /\ ScaleDown \in Nat \ {0} /\ ScaleDown < ScaleUp
    /\ ScaleDownDelay \in Nat \ {0}
    /\ MaxWorkerId \in Nat /\ MaxConnections \in Nat
    /\ Timely \in BOOLEAN

Ids == 1 .. MaxWorkerId

ASSUME LoopAssumption == NoLoop \notin Ids /\ MainLoop \notin Ids

VARIABLES workers,    \* m_workerThreads
          draining,   \* workers whose m_draining is set
          lastId,     \* m_nextWorkerId
          lowLoad,    \* m_lowLoadSeconds
          stopping,   \* m_stopping
          gauges,     \* what updateMetricsLocked last reported
          mainPc, held,      \* the main thread, the loop it has just taken
          managerPc, passed, \* the manager thread; a pass ended while the
                             \* main thread was holding a loop
          reclaimed,  \* stoppedWorkers
          leftover,   \* the workers stop() swapped out of m_workerThreads
          loop,       \* loop[w]: state of w's EventLoop and thread
          quit,       \* quit[w]: m_isQuit of w's loop
          count       \* count[w]: m_connectionCount of w's loop

poolVars == <<workers, draining, lastId, lowLoad, gauges>>
mainVars == <<mainPc, held, stopping, leftover>>
managerVars == <<managerPc, passed, reclaimed>>
vars == <<poolVars, mainVars, managerVars, loop, quit, count>>

Available == workers \ draining

\* The first of the workers of W with the fewest connections.
LeastLoaded(W) ==
    CHOOSE w \in W : \A v \in W : \/ count[w] < count[v]
                                  \/ count[w] = count[v] /\ w <= v

Total(W) == MapThenSumSet(LAMBDA w : count[w], W)

\* updateMetricsLocked.
Gauges(W, D) == [current |-> Cardinality(W), draining |-> Cardinality(W \cap D)]

MutexFree == managerPc # "balance"

Init ==
    /\ workers = {} /\ draining = {}
    /\ lastId = 0 /\ lowLoad = 0
    /\ stopping = FALSE
    /\ gauges = Gauges({}, {})
    /\ mainPc = "init" /\ held = NoLoop
    /\ managerPc = "none" /\ passed = FALSE
    /\ reclaimed = {} /\ leftover = {}
    /\ loop = [w \in Ids |-> "none"]
    /\ quit = [w \in Ids |-> TRUE]
    /\ count = [w \in Ids |-> 0]
-----------------------------------------------------------------------------
\* The main thread.

\* addWorkerLocked: WorkerThread::run returns when the new thread has
\* published its loop, not when that loop runs.
Run ==
    /\ mainPc = "init"
    /\ MinThreads <= MaxWorkerId
    /\ workers' = 1 .. MinThreads
    /\ lastId' = MinThreads
    /\ loop' = [w \in Ids |-> IF w <= MinThreads THEN "new" ELSE "none"]
    /\ gauges' = Gauges(1 .. MinThreads, draining)
    /\ managerPc' = IF MaxThreads > MinThreads THEN "wait" ELSE "none"
    /\ mainPc' = "ready"
    /\ UNCHANGED <<draining, lowLoad, stopping, held, passed, reclaimed,
                   leftover, quit, count>>

\* takeWorkerEventLoop is called for an accepted connection below the limit.
\* The limit is on the metrics' counter, which a connection raises right after
\* the count of its loop and lowers right before it: TcpServer has the two
\* apart, here they are the same.
MayTake ==
    /\ mainPc = "ready"
    /\ MutexFree
    /\ Total(Ids) < MaxConnections

BrokenNeedsWorker ==   \* > instead of >=
    /\ Available # {}
    /\ count[LeastLoaded(Available)] > ScaleUp
    /\ Cardinality(Available) < MaxThreads

NeedsWorker ==
    /\ Available # {}
    /\ count[LeastLoaded(Available)] >= ScaleUp
    /\ Cardinality(Available) < MaxThreads

BrokenHold(W) ==   \* does not skip draining workers
    /\ held' = IF workers' = {} THEN MainLoop ELSE LeastLoaded(workers')
    /\ mainPc' = "holding"
    /\ passed' = FALSE
    /\ UNCHANGED <<stopping, leftover, managerPc, reclaimed, quit, count>>

\* The main thread leaves with the least loaded of the workers W.
Hold(W) ==
    /\ held' = IF W = {} THEN MainLoop ELSE LeastLoaded(W)
    /\ mainPc' = "holding"
    /\ passed' = FALSE
    /\ UNCHANGED <<stopping, leftover, managerPc, reclaimed, quit, count>>

\* The second scan of the loads is needed only if the pool has changed: when
\* more is wanted, either a worker is draining or one may be added.
Take ==
    /\ MayTake /\ ~NeedsWorker
    /\ UNCHANGED <<poolVars, loop>>
    /\ Hold(Available)

BrokenTakeUndrained ==   \* forgets updateMetricsLocked
    /\ MayTake /\ NeedsWorker
    /\ draining \cap workers # {}
    /\ draining' = draining \ {Min(draining \cap workers)}
    /\ lowLoad' = 0
    /\ UNCHANGED <<workers, lastId, gauges, loop>>
    /\ Hold(workers \ draining')

TakeUndrained ==
    /\ MayTake /\ NeedsWorker
    /\ draining \cap workers # {}
    /\ draining' = draining \ {Min(draining \cap workers)}
    /\ lowLoad' = 0
    /\ gauges' = Gauges(workers, draining')
    /\ UNCHANGED <<workers, lastId, loop>>
    /\ Hold(workers \ draining')

TakeAdded ==
    /\ MayTake /\ NeedsWorker
    /\ draining \cap workers = {}
    /\ Cardinality(workers) < MaxThreads
    /\ lastId < MaxWorkerId
    /\ lastId' = lastId + 1
    /\ workers' = workers \cup {lastId + 1}
    /\ loop' = [loop EXCEPT ![lastId + 1] = "new"]
    /\ gauges' = Gauges(workers', draining)
    /\ UNCHANGED <<draining, lowLoad>>
    /\ Hold(workers' \ draining)

\* The constructor of TcpConnection counts itself in the loop it was given.
OpenConnection ==
    /\ mainPc = "holding"
    /\ held \in Ids /\ loop[held] # "deleted"
    /\ count' = [count EXCEPT ![held] = @ + 1]
    /\ held' = NoLoop
    /\ mainPc' = "ready"
    /\ UNCHANGED <<poolVars, managerVars, stopping, leftover, loop, quit>>

BrokenStop ==   \* does not tell the manager
    /\ mainPc = "ready"
    /\ mainPc' = "joinManager"
    /\ UNCHANGED <<poolVars, held, stopping, leftover, managerVars, loop, quit, count>>

\* stop(), up to the join of the manager.
Stop ==
    /\ mainPc = "ready"
    /\ stopping' = TRUE
    /\ mainPc' = "joinManager"
    /\ UNCHANGED <<poolVars, held, leftover, managerVars, loop, quit, count>>

JoinManager ==
    /\ mainPc = "joinManager"
    /\ managerPc \in {"none", "done"}
    /\ leftover' = workers
    /\ workers' = {}
    /\ gauges' = Gauges({}, {})
    /\ mainPc' = IF workers = {} THEN "stopped" ELSE "requestStop"
    /\ UNCHANGED <<draining, lastId, lowLoad, held, stopping, managerVars,
                   loop, quit, count>>

\* ~WorkerThread, for each of them in turn: requestStop, join, delete.
RequestStop ==
    /\ mainPc = "requestStop"
    /\ quit' = [quit EXCEPT ![Min(leftover)] = TRUE]
    /\ mainPc' = "joinWorker"
    /\ UNCHANGED <<poolVars, held, stopping, leftover, managerVars, loop, count>>

JoinWorker ==
    /\ mainPc = "joinWorker"
    /\ loop[Min(leftover)] = "ended"
    /\ loop' = [loop EXCEPT ![Min(leftover)] = "deleted"]
    /\ leftover' = leftover \ {Min(leftover)}
    /\ mainPc' = IF leftover' = {} THEN "stopped" ELSE "requestStop"
    /\ UNCHANGED <<poolVars, held, stopping, managerVars, quit, count>>
-----------------------------------------------------------------------------
\* The manager thread.

BrokenIdle(w) == w \in draining   \* the connections are not asked for

\* A draining worker without connections.
Idle(w) == w \in draining /\ count[w] = 0

BrokenMayReclaim(n) == n > MaxThreads

\* n workers are left in m_workerThreads: one may go.
MayReclaim(n) == n > MinThreads

\* One pass starts, about every second.  The scan erases idle workers from
\* first to last as long as more than MinThreads are left.
\*
\* Timely: between taking a loop and counting its connection in it, or
\* between publishing a loop and running it, less than a second goes by.
Reclaim ==
    /\ managerPc = "wait"
    /\ ~stopping
    /\ Timely => /\ mainPc = "holding" => ~passed
                 /\ \A w \in workers : loop[w] # "new"
    /\ reclaimed' =
          LET idle == {w \in workers : Idle(w)}
          IN  {w \in idle : MayReclaim(Cardinality(workers)
                                - Cardinality({v \in idle : v < w}))}
    /\ workers' = workers \ reclaimed'
    /\ managerPc' = "balance"
    /\ UNCHANGED <<draining, lastId, lowLoad, gauges, mainVars, passed,
                   loop, quit, count>>

BrokenLowLoad ==   \* >= MinThreads
    /\ draining \cap workers = {}
    /\ Cardinality(Available) >= MinThreads
    /\ Total(Available) <= (Cardinality(Available) - 1) * ScaleDown

LowLoad ==
    /\ draining \cap workers = {}
    /\ Cardinality(Available) > MinThreads
    /\ Total(Available) <= (Cardinality(Available) - 1) * ScaleDown

\* The rest of the pass: after ScaleDownDelay passes of low load in a row the
\* least loaded worker is marked.
Balance ==
    /\ managerPc = "balance"
    /\ LET low == IF LowLoad THEN lowLoad + 1 ELSE 0
           due == low >= ScaleDownDelay
       IN  /\ lowLoad' = IF due THEN 0 ELSE low
           /\ draining' = IF due /\ Available # {}
                          THEN draining \cup {LeastLoaded(Available)}
                          ELSE draining
    /\ gauges' = Gauges(workers, draining')
    /\ passed' = (mainPc = "holding")
    /\ managerPc' = IF reclaimed = {} THEN "wait" ELSE "requestStop"
    /\ UNCHANGED <<workers, lastId, mainVars, reclaimed, loop, quit, count>>

ManagerRequestStop ==
    /\ managerPc = "requestStop"
    /\ quit' = [quit EXCEPT ![Min(reclaimed)] = TRUE]
    /\ managerPc' = "joinWorker"
    /\ UNCHANGED <<poolVars, mainVars, passed, reclaimed, loop, count>>

ManagerJoinWorker ==
    /\ managerPc = "joinWorker"
    /\ loop[Min(reclaimed)] = "ended"
    /\ loop' = [loop EXCEPT ![Min(reclaimed)] = "deleted"]
    /\ reclaimed' = reclaimed \ {Min(reclaimed)}
    /\ managerPc' = IF reclaimed' = {} THEN "wait" ELSE "requestStop"
    /\ UNCHANGED <<poolVars, mainVars, passed, quit, count>>

\* The notification, or at the latest the end of the one-second wait.
ManagerStops ==
    /\ managerPc = "wait"
    /\ stopping
    /\ managerPc' = "done"
    /\ UNCHANGED <<poolVars, mainVars, passed, reclaimed, loop, quit, count>>
-----------------------------------------------------------------------------
\* The worker threads.

\* EventLoop::run arms m_isQuit, whatever was requested before.
WorkerRuns(w) ==
    /\ loop[w] = "new"
    /\ loop' = [loop EXCEPT ![w] = "run"]
    /\ quit' = [quit EXCEPT ![w] = FALSE]
    /\ UNCHANGED <<poolVars, mainVars, managerVars, count>>

WorkerReturns(w) ==
    /\ loop[w] = "run" /\ quit[w]
    /\ loop' = [loop EXCEPT ![w] = "ended"]
    /\ UNCHANGED <<poolVars, mainVars, managerVars, quit, count>>

BrokenCloseConnection(w) ==   \* fetch_sub without the test for zero
    /\ loop[w] = "run"
    /\ count' = [count EXCEPT ![w] = @ - 1]
    /\ UNCHANGED <<poolVars, mainVars, managerVars, loop, quit>>

CloseConnection(w) ==
    /\ loop[w] = "run"
    /\ count[w] > 0
    /\ count' = [count EXCEPT ![w] = @ - 1]
    /\ UNCHANGED <<poolVars, mainVars, managerVars, loop, quit>>
-----------------------------------------------------------------------------
MainStops == Stop \/ JoinManager \/ RequestStop \/ JoinWorker

Main == Run \/ Take \/ TakeUndrained \/ TakeAdded \/ OpenConnection \/ MainStops

Manager == \/ Reclaim \/ Balance \/ ManagerRequestStop \/ ManagerJoinWorker
           \/ ManagerStops

Worker(w) == WorkerRuns(w) \/ WorkerReturns(w) \/ CloseConnection(w)

Next == Main \/ Manager \/ \E w \in Ids : Worker(w)

Spec == Init /\ [][Next]_vars

\* Threads are scheduled; a connection does not live for ever (it is idle too
\* long or has served its last request).  Nobody need open one or stop the
\* pool, but a stop that has begun goes on.
Fairness ==
    /\ WF_vars(OpenConnection)
    /\ WF_vars(JoinManager \/ RequestStop \/ JoinWorker)
    /\ WF_vars(Manager)
    /\ \A w \in Ids : /\ WF_vars(WorkerRuns(w) \/ WorkerReturns(w))
                      /\ WF_vars(CloseConnection(w))

FairSpec == Spec /\ Fairness
-----------------------------------------------------------------------------
LoopStates == {"none", "new", "run", "ended", "deleted"}

TypeOK ==
    /\ workers \in SUBSET Ids /\ draining \in SUBSET Ids
    /\ lastId \in 0 .. MaxWorkerId
    /\ lowLoad \in 0 .. ScaleDownDelay - 1
    /\ stopping \in BOOLEAN /\ passed \in BOOLEAN
    /\ gauges \in [current : Nat, draining : Nat]
    /\ mainPc \in {"init", "ready", "holding", "joinManager", "requestStop",
                   "joinWorker", "stopped"}
    /\ held \in Ids \cup {NoLoop, MainLoop}
    /\ managerPc \in {"none", "wait", "balance", "requestStop", "joinWorker",
                      "done"}
    /\ reclaimed \in SUBSET Ids /\ leftover \in SUBSET Ids
    /\ loop \in [Ids -> LoopStates]
    /\ quit \in [Ids -> BOOLEAN]
    /\ count \in [Ids -> Nat]

\* m_isStart.
IsStart == mainPc \in {"ready", "holding", "joinManager"}

\* While the pool is started it has at most MaxThreads workers, at least
\* MinThreads of them serve new connections, and at most one is draining,
\* whatever the manager and the main thread do to it (ThreadPool.cpp:127-141,
\* 174-229).
PoolBounds ==
    IsStart => /\ Cardinality(workers) <= MaxThreads
               /\ Cardinality(Available) >= MinThreads
               /\ Cardinality(workers \cap draining) <= 1

\* Who took a loop took that of a worker, never the main loop
\* (ThreadPool.cpp:157), and it has not been deleted behind its back
\* (ThreadPool.cpp:233-236): m_mutex is released before the connection counts
\* itself in the loop.
HeldLoopAlive ==
    mainPc = "holding" => held \in Ids /\ loop[held] # "deleted"

\* A worker is stopped only once its connections are closed
\* (ThreadPool.cpp:177-181; TESTING.md:41).
ReclaimedIdle == \A w \in reclaimed : count[w] = 0

\* A connection is given to a worker that has ScaleUp connections already only
\* if the pool cannot offer another one (ThreadPool.cpp:127-155).
ScaleUpHonored ==
    [][/\ mainPc = "ready" /\ mainPc' = "holding"
       /\ held' \in Ids /\ count[held'] >= ScaleUp
       => Cardinality(workers' \ draining') = MaxThreads]_vars

\* The /metrics gauges show the pool whenever its mutex is free
\* (ThreadPool.cpp:44, 92, 154, 230).
GaugesCurrent == MutexFree => gauges = Gauges(workers, draining)

\* A worker marked as draining is reclaimed or put back to work.
DrainingEnds ==
    \A w \in Ids : w \in workers \cap draining ~> ~(w \in workers \cap draining)

\* stop() returns if every worker was running its loop when it was called
\* (ThreadPool.cpp:73-98, WorkerThread.cpp:35-55).
StopReturnsOnceRunning ==
    (mainPc = "joinManager" /\ \A w \in Ids : loop[w] # "new")
        ~> (mainPc = "stopped")

\* stop() returns, as the last line of the unit test expects right after a
\* takeWorkerEventLoop that added a worker (tests/http_request_test.cpp:539).
StopReturns == (mainPc = "joinManager") ~> (mainPc = "stopped")
=============================================================================
