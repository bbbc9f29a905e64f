----------------------------- MODULE EventLoop -----------------------------
(***************************************************************************)
(* One reactor loop (EventLoop.cpp) and the threads that post to it.       *)
(*                                                                         *)
(* The loop thread runs dispatch, processTaskQ, processTimeouts and the    *)
(* idle callback in turn.  Any thread may call addTask, queueInLoop or     *)
(* requestStop.  A foreign thread pushes under m_mutex and then writes a   *)
(* message into the loop's socket pair, two steps between which the loop   *)
(* may run; the loop's own thread pushes and calls processTaskQ at once,   *)
(* from inside whatever it was doing, so that processTaskQ nests.          *)
(*                                                                         *)
(* A critical section of m_mutex is one step.  The code of a task is       *)
(* reduced to the only thing the loop sees of it: a closure may call       *)
(* addTask as its last statement (TcpConnection.cpp:352,365), an I/O,      *)
(* timeout or idle callback may call it any number of times.  Every call   *)
(* of addTask and queueInLoop is a value of its own, made at most once, so *)
(* Nodes and Closures bound the work.                                      *)
(*                                                                         *)
(* Operators named Broken... are faulty variants of the operator that      *)
(* follows them; no specification uses them.                               *)
(***************************************************************************)
EXTENDS Integers, Sequences, FiniteSets

CONSTANTS Posters,   \* threads other than the loop's own
          Nodes,     \* calls of addTask
          Closures,  \* calls of queueInLoop
          NoTask,    \* no closure is being executed
          MsgBytes,  \* length of the wakeup message
          ReadBytes, \* size of readMessage's buffer
          PipeCap    \* capacity of the (blocking) socket pair

ASSUME PipeAssumption ==
    /\ MsgBytes \in Nat \ {0}
    /\ ReadBytes \in Nat \ {0}
    /\ PipeCap \in Nat
    /\ MsgBytes <= PipeCap

ASSUME TaskAssumption ==
    /\ Nodes \cap Closures = {}
    /\ NoTask \notin Nodes \cup Closures

VARIABLES isMain,    \* the main loop: the only one with an m_idleCallback
          phase,     \* where the loop thread is in run()
          depth,     \* activations of processTaskQ on its stack
          current,   \* closure executed by the innermost activation
          wakeReady, \* epoll_wait reported the socket pair, not yet handled
          taskQ,     \* m_taskQ
          fnQ,       \* m_taskFnQ
          wake,      \* bytes in the socket pair
          isQuit,    \* m_isQuit
          pc,        \* pc[p] = "wakeup": p has still to call taskWakeup
          ran        \* history: the tasks executed, in order

loopVars == <<isMain, phase, depth, current, wakeReady>>
queueVars == <<taskQ, fnQ>>
vars == <<isMain, phase, depth, current, wakeReady, taskQ, fnQ, wake, isQuit, pc,
          ran>>

Tasks == Nodes \cup Closures

Phases == {"new", "loop", "wait", "dispatch", "tasks", "timeouts", "idle",
           "selfWakeup", "stopped"}

Elements(s) == {s[i] : i \in DOMAIN s}

Posted == Elements(taskQ) \cup Elements(fnQ) \cup Elements(ran)

QueueEmpty == taskQ = <<>> /\ fnQ = <<>>
-----------------------------------------------------------------------------
\* The constructor has registered the channel of the socket pair, and
\* WorkerThread::running has published the loop: threads may post to it
\* although run() has not been called yet.
Init ==
    /\ isMain \in BOOLEAN
    /\ phase = "new"
    /\ depth = 0
    /\ current = NoTask
    /\ wakeReady = FALSE
    /\ taskQ = <<>> /\ fnQ = <<>>
    /\ wake = 0
    /\ isQuit = TRUE
    /\ pc = [p \in Posters |-> "free"]
    /\ ran = <<>>
-----------------------------------------------------------------------------
\* Foreign threads.

BrokenAddTask(p, t) ==   \* pushes and does not wake the loop
    /\ pc[p] = "free"
    /\ t \in Nodes \ Posted
    /\ taskQ' = Append(taskQ, t)
    /\ UNCHANGED <<loopVars, fnQ, wake, isQuit, pc, ran>>

AddTask(p, t) ==
    /\ pc[p] = "free"
    /\ t \in Nodes \ Posted
    /\ taskQ' = Append(taskQ, t)
    /\ pc' = [pc EXCEPT ![p] = "wakeup"]
    /\ UNCHANGED <<loopVars, fnQ, wake, isQuit, ran>>

QueueInLoop(p, t) ==
    /\ pc[p] = "free"
    /\ t \in Closures \ Posted
    /\ fnQ' = Append(fnQ, t)
    /\ pc' = [pc EXCEPT ![p] = "wakeup"]
    /\ UNCHANGED <<loopVars, taskQ, wake, isQuit, ran>>

RequestStop(p) ==
    /\ pc[p] = "free"
    /\ isQuit' = TRUE
    /\ pc' = [pc EXCEPT ![p] = "wakeup"]
    /\ UNCHANGED <<loopVars, queueVars, wake, ran>>

\* write() on a blocking socket: it waits while the message does not fit.
TaskWakeup(p) ==
    /\ pc[p] = "wakeup"
    /\ wake + MsgBytes <= PipeCap
    /\ wake' = wake + MsgBytes
    /\ pc' = [pc EXCEPT ![p] = "free"]
    /\ UNCHANGED <<loopVars, queueVars, isQuit, ran>>
-----------------------------------------------------------------------------
\* The loop thread: run().

StartRun ==
    /\ phase = "new"
    /\ isQuit' = FALSE
    /\ phase' = "loop"
    /\ UNCHANGED <<isMain, depth, current, wakeReady, queueVars, wake,
                   pc, ran>>

BrokenTestQuit ==   \* run() rearms m_isQuit in every turn
    /\ phase = "loop"
    /\ isQuit' = FALSE
    /\ phase' = "wait"
    /\ UNCHANGED <<isMain, depth, current, wakeReady, queueVars, wake,
                   pc, ran>>

TestQuit ==
    /\ phase = "loop"
    /\ phase' = IF isQuit THEN "stopped" ELSE "wait"
    /\ UNCHANGED <<isMain, depth, current, wakeReady, queueVars, wake, isQuit,
                   pc, ran>>

\* epoll_wait returns with whatever is ready, or after its two seconds with
\* nothing.
EpollWait ==
    /\ phase = "wait"
    /\ phase' = "dispatch"
    /\ wakeReady' = (wake > 0)
    /\ UNCHANGED <<isMain, depth, current, queueVars, wake, isQuit, pc, ran>>

BrokenReadMessage ==   \* the callback does not read
    /\ phase = "dispatch" /\ depth = 0
    /\ wakeReady
    /\ wakeReady' = FALSE
    /\ UNCHANGED <<isMain, phase, depth, current, queueVars, wake, isQuit,
                   pc, ran>>

BrokenReadCount ==   \* the callback counts on a full buffer
    /\ phase = "dispatch" /\ depth = 0
    /\ wakeReady
    /\ wakeReady' = FALSE
    /\ wake' = wake - ReadBytes
    /\ UNCHANGED <<isMain, phase, depth, current, queueVars, isQuit, pc, ran>>

\* readMessage: one read of at most ReadBytes, called at most once per batch.
ReadMessage ==
    /\ phase = "dispatch" /\ depth = 0
    /\ wakeReady
    /\ wakeReady' = FALSE
    /\ wake' = IF wake <= ReadBytes THEN 0 ELSE wake - ReadBytes
    /\ UNCHANGED <<isMain, phase, depth, current, queueVars, isQuit, pc, ran>>

BrokenDispatchDone ==   \* run() leaves the queues to the calls in addTask
    /\ phase = "dispatch" /\ depth = 0
    /\ ~wakeReady
    /\ phase' = "timeouts"
    /\ UNCHANGED <<isMain, depth, current, wakeReady, queueVars, wake, isQuit,
                   pc, ran>>

\* Every record of the batch is handled; run() calls processTaskQ.
DispatchDone ==
    /\ phase = "dispatch" /\ depth = 0
    /\ ~wakeReady
    /\ phase' = "tasks"
    /\ depth' = 1
    /\ UNCHANGED <<isMain, current, wakeReady, queueVars, wake, isQuit,
                   pc, ran>>

\* An I/O callback, the loop over expired channels or the idle callback calls
\* addTask on its own loop, which enters processTaskQ.
CallbackAddTask(t) ==
    /\ phase \in {"dispatch", "timeouts", "idle"} /\ depth = 0
    /\ t \in Nodes \ Posted
    /\ taskQ' = Append(taskQ, t)
    /\ depth' = 1
    /\ UNCHANGED <<isMain, phase, current, wakeReady, fnQ, wake, isQuit,
                   pc, ran>>

\* The same for queueInLoop (the main loop's own branch).
CallbackQueueInLoop(t) ==
    /\ phase \in {"dispatch", "idle"} /\ depth = 0
    /\ t \in Closures \ Posted
    /\ fnQ' = Append(fnQ, t)
    /\ depth' = 1
    /\ UNCHANGED <<isMain, phase, current, wakeReady, taskQ, wake, isQuit,
                   pc, ran>>

TimeoutsDone ==
    /\ phase = "timeouts" /\ depth = 0
    /\ phase' = IF isMain THEN "idle" ELSE "loop"
    /\ UNCHANGED <<isMain, depth, current, wakeReady, queueVars, wake, isQuit,
                   pc, ran>>

IdleDone ==
    /\ phase = "idle" /\ depth = 0
    /\ phase' = "loop"
    /\ UNCHANGED <<isMain, depth, current, wakeReady, queueVars, wake, isQuit,
                   pc, ran>>

\* The idle callback stops its own loop (TcpServer::shutdownTick): the wakeup
\* is written by the thread that would have to read it.
IdleRequestStop ==
    /\ phase = "idle" /\ depth = 0
    /\ isQuit' = TRUE
    /\ phase' = "selfWakeup"
    /\ UNCHANGED <<isMain, depth, current, wakeReady, queueVars, wake,
                   pc, ran>>

SelfWakeup ==
    /\ phase = "selfWakeup"
    /\ wake + MsgBytes <= PipeCap
    /\ wake' = wake + MsgBytes
    /\ phase' = "loop"
    /\ UNCHANGED <<isMain, depth, current, wakeReady, queueVars, isQuit,
                   pc, ran>>
-----------------------------------------------------------------------------
\* processTaskQ, in the innermost activation.

BrokenPopNode ==   \* front() without pop()
    /\ depth > 0 /\ current = NoTask
    /\ taskQ # <<>>
    /\ ran' = Append(ran, Head(taskQ))
    /\ UNCHANGED <<loopVars, queueVars, wake, isQuit, pc>>

PopNode ==
    /\ depth > 0 /\ current = NoTask
    /\ taskQ # <<>>
    /\ taskQ' = Tail(taskQ)
    /\ ran' = Append(ran, Head(taskQ))
    /\ UNCHANGED <<loopVars, fnQ, wake, isQuit, pc>>

PopClosure ==
    /\ depth > 0 /\ current = NoTask
    /\ taskQ = <<>> /\ fnQ # <<>>
    /\ fnQ' = Tail(fnQ)
    /\ current' = Head(fnQ)
    /\ ran' = Append(ran, Head(fnQ))
    /\ UNCHANGED <<isMain, phase, depth, wakeReady, taskQ, wake, isQuit, pc>>

ClosureReturn ==
    /\ current # NoTask
    /\ current' = NoTask
    /\ UNCHANGED <<isMain, phase, depth, wakeReady, queueVars, wake, isQuit,
                   pc, ran>>

\* The closure's last statement: addTask, which nests processTaskQ.  When the
\* nested call returns the closure is over.
ClosureAddTask(t) ==
    /\ current # NoTask
    /\ t \in Nodes \ Posted
    /\ taskQ' = Append(taskQ, t)
    /\ current' = NoTask
    /\ depth' = depth + 1
    /\ UNCHANGED <<isMain, phase, wakeReady, fnQ, wake, isQuit, pc, ran>>

\* Both queues are seen empty under the lock: the activation returns, to the
\* callback, closure or run() that called it.
DrainReturn ==
    /\ depth > 0 /\ current = NoTask
    /\ QueueEmpty
    /\ depth' = depth - 1
    /\ phase' = IF phase = "tasks" /\ depth = 1 THEN "timeouts" ELSE phase
    /\ UNCHANGED <<isMain, current, wakeReady, queueVars, wake, isQuit,
                   pc, ran>>
-----------------------------------------------------------------------------
\* No other thread posts to the main loop: every call of its addTask,
\* queueInLoop and requestStop is made by its own thread.
Post(p) == /\ ~isMain
           /\ \/ \E t \in Nodes : AddTask(p, t)
              \/ \E t \in Closures : QueueInLoop(p, t)
              \/ RequestStop(p)

ProcessTaskQ == \/ PopNode \/ PopClosure \/ ClosureReturn
                \/ \E t \in Nodes : ClosureAddTask(t)
                \/ DrainReturn

LoopStep == \/ StartRun \/ TestQuit \/ EpollWait \/ ReadMessage
            \/ DispatchDone \/ TimeoutsDone
            \/ IdleDone \/ IdleRequestStop \/ SelfWakeup
            \/ \E t \in Nodes : CallbackAddTask(t)
            \/ \E t \in Closures : CallbackQueueInLoop(t)
            \/ ProcessTaskQ

Next == \/ \E p \in Posters : Post(p) \/ TaskWakeup(p)
        \/ LoopStep

\* The operating system schedules every runnable thread.  Nobody is obliged
\* to post anything.
Fairness == /\ WF_vars(LoopStep)
            /\ \A p \in Posters : WF_vars(TaskWakeup(p))

Spec == Init /\ [][Next]_vars

FairSpec == Spec /\ Fairness
-----------------------------------------------------------------------------
TypeOK ==
    /\ isMain \in BOOLEAN
    /\ phase \in Phases
    /\ depth \in Nat
    /\ current \in Closures \cup {NoTask}
    /\ wakeReady \in BOOLEAN
    /\ taskQ \in Seq(Nodes)
    /\ fnQ \in Seq(Closures)
    /\ wake \in 0 .. PipeCap
    /\ isQuit \in BOOLEAN
    /\ pc \in [Posters -> {"free", "wakeup"}]
    /\ ran \in Seq(Tasks)

\* A wakeup is on its way: bytes wait in the socket pair, or a poster has
\* still to write them.
WakeupPending == wake > 0 \/ \E p \in Posters : pc[p] = "wakeup"

\* A loop that may go to sleep in epoll_wait with work in a queue, or with a
\* stop requested, has a wakeup on its way: neither the two steps of a foreign
\* post nor the read that takes up to seven messages at once
\* (EventLoop.cpp:184-194, 345-350) loses the last signal.
NoLostWakeup ==
    phase = "wait" /\ (~QueueEmpty \/ isQuit) => WakeupPending

\* Nested activations of processTaskQ never execute a task twice nor drop
\* one: what is queued and what has run are disjoint and without repetition.
Distinct(s) == \A i, j \in DOMAIN s : i # j => s[i] # s[j]

RunOnce ==
    /\ Distinct(taskQ) /\ Distinct(fnQ) /\ Distinct(ran)
    /\ Elements(ran) \cap (Elements(taskQ) \cup Elements(fnQ)) = {}

\* The refinement: the loop implements TaskService until it stops.
TS == INSTANCE TaskService WITH
        nodes <- taskQ, closures <- fnQ, ran <- ran, open <- (phase # "stopped")

\* The loop does what TaskService promises, its liveness included: work posted
\* from a foreign thread is executed although the loop may be asleep, work
\* posted from a callback although the post nests (EventLoop.cpp:166-268).
ImplementsService == TS!Service

\* A stop requested while the loop runs ends run() (EventLoop.cpp:88-92).
StopEnds == (isQuit /\ phase # "new") ~> (phase = "stopped")

\* A thread blocked in taskWakeup's write gets out as long as the loop runs
\* (EventLoop.cpp:326-330).
PostersReturn == \A p \in Posters :
    pc[p] = "wakeup" ~> (pc[p] = "free" \/ phase = "stopped")
=============================================================================
