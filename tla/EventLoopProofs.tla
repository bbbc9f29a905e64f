-------------------------- MODULE EventLoopProofs --------------------------
(***************************************************************************)
(* What holds of every EventLoop, whatever the threads, the tasks and the  *)
(* sizes of the socket pair: no lost wakeup, every task once, and the      *)
(* order and exclusion that TaskService promises.                          *)
(***************************************************************************)
EXTENDS EventLoop, SequenceTheorems, TLAPS

\* Outside dispatch, processTaskQ and the callbacks, queued work has a wakeup
\* on its way, and the loop has no activation of processTaskQ.
Resting == {"new", "loop", "wait", "selfWakeup", "stopped"}

WorkAnnounced ==
    phase \in {"new", "loop", "wait", "timeouts", "idle", "selfWakeup"}
    /\ depth = 0 /\ ~QueueEmpty => WakeupPending

StackInv == /\ phase \in Resting => depth = 0
            /\ current # NoTask => depth > 0

SleepAnnounced == (phase = "wait" /\ isQuit) => WakeupPending

WakeupInv == TypeOK /\ StackInv /\ WorkAnnounced /\ SleepAnnounced
-----------------------------------------------------------------------------
\* Initial states and steps of the loop respect the types.
LEMMA TypeInductive == /\ Init => TypeOK
                       /\ TypeOK /\ [Next]_vars => TypeOK'
<1>1. Init => TypeOK
  <2>1. <<>> \in Seq(Nodes) /\ <<>> \in Seq(Closures) /\ <<>> \in Seq(Tasks)
    BY EmptySeq
  <2>2. 0 \in 0 .. PipeCap
    BY PipeAssumption
  <2>3. Init => isMain \in BOOLEAN /\ wakeReady \in BOOLEAN /\ isQuit \in BOOLEAN
    BY Zenon DEF Init
  <2>4. Init => phase \in Phases /\ depth \in Nat /\ current \in Closures \cup {NoTask}
    BY DEF Init, Phases
  <2>5. Init => pc \in [Posters -> {"free", "wakeup"}]
    BY DEF Init
  <2> QED
    BY <2>1, <2>2, <2>3, <2>4, <2>5, Zenon DEF Init, TypeOK
<1>2. TypeOK /\ [Next]_vars => TypeOK'
  <2> SUFFICES ASSUME TypeOK, [Next]_vars PROVE TypeOK'
    OBVIOUS
  <2> USE DEF TypeOK, Phases
  <2>1. ASSUME NEW p \in Posters, NEW t \in Nodes, AddTask(p, t) PROVE TypeOK'
    BY <2>1 DEF AddTask, loopVars
  <2>2. ASSUME NEW p \in Posters, NEW t \in Closures, QueueInLoop(p, t)
        PROVE TypeOK'
    BY <2>2 DEF QueueInLoop, loopVars
  <2>3. ASSUME NEW p \in Posters, RequestStop(p) PROVE TypeOK'
    BY <2>3 DEF RequestStop, loopVars, queueVars
  <2>4. ASSUME NEW p \in Posters, TaskWakeup(p) PROVE TypeOK'
    BY <2>4, PipeAssumption DEF TaskWakeup, loopVars, queueVars
  <2>5. CASE StartRun \/ TestQuit
    BY <2>5 DEF StartRun, TestQuit, queueVars
  <2>6. CASE EpollWait
    <3>1. (wake > 0) \in BOOLEAN
      OBVIOUS
    <3> QED
      BY <2>6, <3>1 DEF EpollWait, queueVars
  <2>16. CASE ReadMessage
    <3>1. wake' \in 0 .. PipeCap
      BY <2>16, PipeAssumption DEF ReadMessage
    <3> QED
      BY <2>16, <3>1 DEF ReadMessage, queueVars
  <2>17. CASE DispatchDone \/ IdleDone
    BY <2>17 DEF DispatchDone, IdleDone, queueVars
  <2>19. CASE IdleRequestStop
    <3>1. isQuit' \in BOOLEAN /\ wakeReady' \in BOOLEAN
      BY <2>19, Zenon DEF IdleRequestStop
    <3> QED
      BY <2>19, <3>1 DEF IdleRequestStop, queueVars
  <2>18. CASE TimeoutsDone
    BY <2>18 DEF TimeoutsDone, queueVars
  <2>7. CASE SelfWakeup
    <3>1. wake' \in 0 .. PipeCap
      BY <2>7, PipeAssumption DEF SelfWakeup
    <3> QED
      BY <2>7, <3>1 DEF SelfWakeup, queueVars
  <2>8. ASSUME NEW t \in Nodes, CallbackAddTask(t) PROVE TypeOK'
    BY <2>8 DEF CallbackAddTask
  <2>9. ASSUME NEW t \in Closures, CallbackQueueInLoop(t) PROVE TypeOK'
    BY <2>9 DEF CallbackQueueInLoop
  <2>10. CASE PopNode
    BY <2>10 DEF PopNode, loopVars, Tasks
  <2>11. CASE PopClosure
    BY <2>11 DEF PopClosure, Tasks
  <2>12. CASE ClosureReturn
    BY <2>12 DEF ClosureReturn, queueVars
  <2>13. ASSUME NEW t \in Nodes, ClosureAddTask(t) PROVE TypeOK'
    BY <2>13 DEF ClosureAddTask
  <2>14. CASE DrainReturn
    BY <2>14 DEF DrainReturn, queueVars
  <2>15. CASE UNCHANGED vars
    BY <2>15 DEF vars
  <2> QED
    BY <2>1, <2>2, <2>3, <2>4, <2>5, <2>6, <2>7, <2>8, <2>9, <2>10, <2>11,
       <2>12, <2>13, <2>14, <2>15, <2>16, <2>17, <2>18, <2>19 DEF Next, Post, LoopStep, ProcessTaskQ
<1> QED
  BY <1>1, <1>2

\* Types: the state of the loop stays within its declared domains (the
\* byte count of the socket pair never leaves 0 .. PipeCap).
THEOREM TypeCorrect == Spec => []TypeOK
  BY TypeInductive, PTL DEF Spec
-----------------------------------------------------------------------------
\* WakeupInv is inductive.
LEMMA WakeupInductive == /\ Init => WakeupInv
                         /\ WakeupInv /\ [Next]_vars => WakeupInv'
<1>1. Init => WakeupInv
  <2>1. Init => StackInv /\ WorkAnnounced /\ SleepAnnounced
    BY DEF Init, StackInv, WorkAnnounced, SleepAnnounced, QueueEmpty
  <2> QED
    BY <2>1, TypeInductive DEF WakeupInv
<1>2. WakeupInv /\ [Next]_vars => WakeupInv'
  <2> SUFFICES ASSUME WakeupInv, [Next]_vars PROVE WakeupInv'
    OBVIOUS
  <2>t. TypeOK /\ TypeOK'
    BY TypeInductive DEF WakeupInv
  <2>s. StackInv'
    <3> USE DEF StackInv, Resting
    <3> StackInv
      BY DEF WakeupInv
    <3>1. CASE UNCHANGED <<phase, depth, current>>
      BY <3>1
    <3>2. CASE phase' \notin Resting /\ UNCHANGED <<depth, current>>
      BY <3>2
    <3>3. CASE StartRun \/ TestQuit \/ TimeoutsDone \/ IdleDone
               \/ IdleRequestStop \/ SelfWakeup
      BY <3>3 DEF StartRun, TestQuit, TimeoutsDone, IdleDone, IdleRequestStop,
         SelfWakeup
    <3>4. CASE DrainReturn
      BY <3>4, <2>t DEF DrainReturn, TypeOK
    <3>5. ASSUME NEW p \in Posters, Post(p) \/ TaskWakeup(p)
          PROVE UNCHANGED <<phase, depth, current>>
      BY <3>5 DEF Post, AddTask, QueueInLoop, RequestStop, TaskWakeup, loopVars
    <3>6. ASSUME ReadMessage \/ PopNode \/ UNCHANGED vars
          PROVE UNCHANGED <<phase, depth, current>>
      BY <3>6 DEF ReadMessage, PopNode, loopVars, vars
    <3>7. ASSUME EpollWait
          PROVE phase' \notin Resting /\ UNCHANGED <<depth, current>>
      BY <3>7 DEF EpollWait
    <3>8. CASE DispatchDone \/ (\E t \in Nodes : CallbackAddTask(t))
                 \/ (\E t \in Closures : CallbackQueueInLoop(t))
      BY <3>8 DEF DispatchDone, CallbackAddTask, CallbackQueueInLoop
    <3>9. CASE PopClosure \/ ClosureReturn \/ \E t \in Nodes : ClosureAddTask(t)
      BY <3>9, <2>t DEF PopClosure, ClosureReturn, ClosureAddTask, TypeOK
    <3> QED
      BY <3>1, <3>2, <3>3, <3>4, <3>5, <3>6, <3>7, <3>8, <3>9
         DEF Next, LoopStep, ProcessTaskQ
  <2>a. WorkAnnounced' /\ SleepAnnounced'
    <3> USE DEF WorkAnnounced, SleepAnnounced
    <3> WorkAnnounced /\ SleepAnnounced /\ StackInv
      BY DEF WakeupInv
    <3>1. ASSUME NEW p \in Posters, Post(p) PROVE WakeupPending'
      BY <3>1, <2>t
         DEF Post, AddTask, QueueInLoop, RequestStop, TypeOK, WakeupPending
    <3>2. ASSUME NEW p \in Posters, TaskWakeup(p) PROVE WakeupPending'
      BY <3>2, <2>t, PipeAssumption DEF TaskWakeup, TypeOK, WakeupPending
    <3>3. CASE StartRun \/ TestQuit \/ TimeoutsDone \/ IdleDone
               \/ IdleRequestStop
      <4>1. UNCHANGED <<taskQ, fnQ, wake, pc, depth>>
        BY <3>3 DEF StartRun, TestQuit, TimeoutsDone, IdleDone,
           IdleRequestStop, queueVars
      <4>2. phase \in {"new", "loop", "timeouts", "idle"}
        BY <3>3 DEF StartRun, TestQuit, TimeoutsDone, IdleDone, IdleRequestStop
      <4>3. phase' = "wait" => ~isQuit'
        BY <3>3, <2>t DEF StartRun, TestQuit, TimeoutsDone, IdleDone,
           IdleRequestStop, TypeOK
      <4> QED
        BY <4>1, <4>2, <4>3 DEF QueueEmpty, WakeupPending
    <3>4. CASE EpollWait \/ ReadMessage \/ DispatchDone
      BY <3>4 DEF EpollWait, ReadMessage, DispatchDone
    <3>5. ASSUME SelfWakeup PROVE WakeupPending'
      BY <3>5, <2>t, PipeAssumption DEF SelfWakeup, TypeOK, WakeupPending
    <3>6. CASE (\E t \in Nodes : CallbackAddTask(t))
               \/ (\E t \in Closures : CallbackQueueInLoop(t))
      BY <3>6 DEF CallbackAddTask, CallbackQueueInLoop
    <3>7. CASE PopNode \/ PopClosure
      BY <3>7, <2>t DEF PopNode, PopClosure, TypeOK, StackInv, Resting, loopVars
    <3>8. CASE ClosureReturn \/ UNCHANGED vars
      BY <3>8 DEF WakeupPending, QueueEmpty, ClosureReturn, queueVars, vars
    <3>9. CASE \E t \in Nodes : ClosureAddTask(t)
      BY <3>9, <2>t DEF ClosureAddTask, TypeOK, StackInv, Resting
    <3>10. CASE DrainReturn
      BY <3>10, <2>t DEF StackInv, Resting, QueueEmpty, DrainReturn, TypeOK,
         queueVars
    <3> QED
      BY <3>1, <3>2, <3>3, <3>4, <3>5, <3>6, <3>7, <3>8, <3>9, <3>10
         DEF Next, LoopStep, ProcessTaskQ
  <2> QED
    BY <2>t, <2>s, <2>a DEF WakeupInv
<1> QED
  BY <1>1, <1>2

\* A sleeping loop with work or a stop request is always about to be woken:
\* the invariant of addTask, queueInLoop, requestStop and readMessage.
THEOREM WakeupNeverLost == Spec => []NoLostWakeup
<1>1. WakeupInv => NoLostWakeup
  BY DEF WakeupInv, WorkAnnounced, SleepAnnounced, StackInv, Resting,
     NoLostWakeup
<1> QED
  BY <1>1, WakeupInductive, PTL DEF Spec
-----------------------------------------------------------------------------
\* Sequences: what Append and Tail do to the elements of a queue without
\* repetition.
LEMMA AppendElements ==
  ASSUME NEW S, NEW s \in Seq(S), NEW e \in S
  PROVE  /\ Elements(Append(s, e)) = Elements(s) \cup {e}
         /\ Distinct(s) /\ e \notin Elements(s) => Distinct(Append(s, e))
<1> DEFINE a == Append(s, e)
<1>1. /\ a \in Seq(S) /\ Len(a) = Len(s) + 1 /\ Len(s) \in Nat
      /\ \A i \in 1 .. Len(s) : a[i] = s[i]
      /\ a[Len(s) + 1] = e
  OBVIOUS
<1>2. DOMAIN a = 1 .. Len(s) + 1 /\ DOMAIN s = 1 .. Len(s)
  BY <1>1, LenProperties
<1> HIDE DEF a
<1>3. Elements(a) = Elements(s) \cup {e}
  <2>1. Elements(a) \subseteq Elements(s) \cup {e}
    BY <1>1, <1>2 DEF Elements
  <2>2. Elements(s) \subseteq Elements(a)
    BY <1>1, <1>2 DEF Elements
  <2>3. e \in Elements(a)
    BY <1>1, <1>2 DEF Elements
  <2> QED
    BY <2>1, <2>2, <2>3
<1>4. ASSUME Distinct(s), e \notin Elements(s) PROVE Distinct(a)
  BY <1>1, <1>2, <1>4 DEF Distinct, Elements
<1> QED
  BY <1>3, <1>4 DEF a

LEMMA TailElements ==
  ASSUME NEW S, NEW s \in Seq(S), s # <<>>
  PROVE  /\ Head(s) \in Elements(s)
         /\ Elements(s) = Elements(Tail(s)) \cup {Head(s)}
         /\ Distinct(s) => /\ Distinct(Tail(s))
                           /\ Head(s) \notin Elements(Tail(s))
<1> DEFINE t == Tail(s)
<1>1. /\ t \in Seq(S) /\ Len(t) = Len(s) - 1 /\ Len(s) \in Nat \ {0}
      /\ \A i \in 1 .. Len(t) : t[i] = s[i + 1]
      /\ Head(s) = s[1]
  BY HeadTailProperties, EmptySeq
<1>2. DOMAIN t = 1 .. Len(s) - 1 /\ DOMAIN s = 1 .. Len(s)
  BY <1>1, LenProperties
<1> HIDE DEF t
<1>3. Head(s) \in Elements(s)
  BY <1>1, <1>2 DEF Elements
<1>4. Elements(t) \subseteq Elements(s)
  BY <1>1, <1>2 DEF Elements
<1>5. ASSUME NEW x \in Elements(s), x # Head(s) PROVE x \in Elements(t)
  <2>1. PICK i \in 1 .. Len(s) : x = s[i]
    BY <1>2 DEF Elements
  <2>2. i - 1 \in 1 .. Len(t) /\ t[i - 1] = s[i]
    BY <2>1, <1>1, <1>5
  <2> QED
    BY <2>1, <2>2, <1>1, <1>2 DEF Elements
<1>6. ASSUME Distinct(s) PROVE Distinct(t) /\ Head(s) \notin Elements(t)
  <2>1. ASSUME NEW i \in 1 .. Len(t), NEW j \in 1 .. Len(t), i # j
        PROVE  t[i] # t[j]
    BY SMTT(30), <2>1, <1>1, <1>2, <1>6 DEF Distinct
  <2>2. ASSUME NEW i \in 1 .. Len(t) PROVE t[i] # s[1]
    BY SMTT(30), <2>2, <1>1, <1>2, <1>6 DEF Distinct
  <2> QED
    BY <2>1, <2>2, <1>1, <1>2 DEF Distinct, Elements
<1> QED
  BY <1>3, <1>4, <1>5, <1>6 DEF t
-----------------------------------------------------------------------------
\* Every step of the loop and of its posters is a step of TaskService or
\* leaves it alone.
LEMMA StepRefines == WakeupInv /\ [Next]_vars => [TS!SNext]_TS!svars
<1> SUFFICES ASSUME WakeupInv, [Next]_vars PROVE [TS!SNext]_TS!svars
  OBVIOUS
<1> USE DEF TS!svars
<1>t. TypeOK /\ StackInv
  BY DEF WakeupInv
<1>p. Posted = TS!Accepted
  BY DEF Posted, TS!Accepted, Elements
<1>n. ASSUME NEW t \in Nodes \ Posted, taskQ' = Append(taskQ, t),
             UNCHANGED <<phase, fnQ, ran>>
      PROVE  TS!SNext
  BY <1>n, <1>p DEF TS!SNext, TS!SubmitNode
<1>c. ASSUME NEW t \in Closures \ Posted, fnQ' = Append(fnQ, t),
             UNCHANGED <<phase, taskQ, ran>>
      PROVE  TS!SNext
  BY <1>c, <1>p DEF TS!SNext, TS!SubmitClosure
<1>u. ASSUME UNCHANGED <<taskQ, fnQ, ran>>,
             phase # "stopped", phase' # "stopped"
      PROVE  UNCHANGED TS!svars
  BY <1>u
<1>1. ASSUME NEW p \in Posters, Post(p) PROVE [TS!SNext]_TS!svars
  BY <1>1, <1>n, <1>c
     DEF Post, AddTask, QueueInLoop, RequestStop, loopVars, queueVars
<1>2. ASSUME NEW p \in Posters, TaskWakeup(p) PROVE UNCHANGED TS!svars
  BY <1>2 DEF TaskWakeup, loopVars, queueVars
<1>3. CASE StartRun \/ EpollWait \/ ReadMessage \/ DispatchDone
           \/ TimeoutsDone \/ IdleDone \/ IdleRequestStop \/ SelfWakeup
  BY <1>3, <1>u DEF StartRun, EpollWait, ReadMessage, DispatchDone,
     TimeoutsDone, IdleDone, IdleRequestStop, SelfWakeup, queueVars
<1>4. CASE TestQuit
  BY <1>4 DEF TestQuit, TS!SNext, TS!Close, queueVars
<1>5. ASSUME NEW t \in Nodes, CallbackAddTask(t) \/ ClosureAddTask(t)
      PROVE  TS!SNext
  BY <1>5, <1>n DEF CallbackAddTask, ClosureAddTask
<1>6. ASSUME NEW t \in Closures, CallbackQueueInLoop(t) PROVE TS!SNext
  BY <1>6, <1>c DEF CallbackQueueInLoop
<1>7. ASSUME depth > 0 PROVE phase # "stopped"
  BY <1>7, <1>t DEF StackInv, Resting
<1>8. CASE PopNode
  BY <1>8, <1>7 DEF PopNode, loopVars, TS!SNext, TS!Execute, TS!ExecuteNode
<1>9. CASE PopClosure
  BY <1>9, <1>7 DEF PopClosure, TS!SNext, TS!Execute, TS!ExecuteClosure
<1>10. CASE ClosureReturn \/ UNCHANGED vars
  BY <1>10 DEF ClosureReturn, queueVars, vars
<1>11. CASE DrainReturn
  BY <1>11, <1>7, <1>u DEF DrainReturn, queueVars
<1> QED
  BY <1>1, <1>2, <1>3, <1>4, <1>5, <1>6, <1>8, <1>9, <1>10, <1>11
     DEF Next, LoopStep, ProcessTaskQ

\* Refinement: whatever the interleaving of posters and nested activations,
\* nodes and closures run in the order they were posted, nodes first, and
\* none after run() has returned.
THEOREM LoopRefinesService == Spec => TS!SafeService
<1>1. Init => TS!SInit
  BY DEF Init, TS!SInit
<1> QED
  BY <1>1, WakeupInductive, StepRefines, PTL DEF Spec, TS!SafeService

\* No task runs twice or is still queued once it has run: nested processTaskQ
\* calls pop before they execute.
THEOREM TasksRunOnce == Spec => []RunOnce
<1>1. Init => RunOnce
  BY DEF Init, RunOnce, Distinct, Elements
<1>2. ASSUME TypeOK, RunOnce, [TS!SNext]_TS!svars PROVE RunOnce'
  <2> USE DEF RunOnce
  <2>t. /\ taskQ \in Seq(Nodes) /\ fnQ \in Seq(Closures) /\ ran \in Seq(Tasks)
        /\ Elements(taskQ) \subseteq Nodes /\ Elements(fnQ) \subseteq Closures
    BY <1>2, LenProperties, ElementOfSeq DEF TypeOK, Elements
  <2>a. TS!Accepted = Elements(taskQ) \cup Elements(fnQ) \cup Elements(ran)
    BY DEF TS!Accepted, Elements
  <2>1. ASSUME NEW t \in Nodes, TS!SubmitNode(t) PROVE RunOnce'
    <3>1. /\ t \notin Elements(taskQ) \cup Elements(ran)
          /\ taskQ' = Append(taskQ, t) /\ fnQ' = fnQ /\ ran' = ran
      BY <2>1, <2>a DEF TS!SubmitNode
    <3>2. Elements(taskQ') = Elements(taskQ) \cup {t} /\ Distinct(taskQ')
      BY <3>1, <2>t, <1>2, AppendElements
    <3>3. /\ Elements(fnQ') = Elements(fnQ) /\ Distinct(fnQ')
          /\ Elements(ran') = Elements(ran) /\ Distinct(ran')
      BY <3>1, <1>2
    <3> QED
      BY <3>1, <3>2, <3>3, <1>2
  <2>2. ASSUME NEW t \in Closures, TS!SubmitClosure(t) PROVE RunOnce'
    <3>1. /\ t \notin Elements(fnQ) \cup Elements(ran)
          /\ fnQ' = Append(fnQ, t) /\ taskQ' = taskQ /\ ran' = ran
      BY <2>2, <2>a DEF TS!SubmitClosure
    <3>2. Elements(fnQ') = Elements(fnQ) \cup {t} /\ Distinct(fnQ')
      BY <3>1, <2>t, <1>2, AppendElements
    <3>3. /\ Elements(taskQ') = Elements(taskQ) /\ Distinct(taskQ')
          /\ Elements(ran') = Elements(ran) /\ Distinct(ran')
      BY <3>1, <1>2
    <3> QED
      BY <3>1, <3>2, <3>3, <1>2
  <2>3. CASE TS!ExecuteNode
    <3> DEFINE h == Head(taskQ)
    <3>1. /\ taskQ # <<>> /\ taskQ' = Tail(taskQ)
          /\ ran' = Append(ran, h) /\ fnQ' = fnQ
      BY <2>3 DEF TS!ExecuteNode
    <3>2. /\ h \in Elements(taskQ) /\ h \in Nodes
          /\ Elements(taskQ) = Elements(taskQ') \cup {h}
          /\ Distinct(taskQ') /\ h \notin Elements(taskQ')
      BY <3>1, <2>t, <1>2, TailElements
    <3>3. Elements(ran') = Elements(ran) \cup {h} /\ Distinct(ran')
      BY <3>1, <3>2, <2>t, <1>2, AppendElements DEF Tasks
    <3>4. h \notin Elements(fnQ)
      BY <3>2, <2>t, TaskAssumption
    <3>5. Elements(fnQ') = Elements(fnQ) /\ Distinct(fnQ')
      BY <3>1, <1>2
    <3> HIDE DEF h
    <3> QED
      BY <3>2, <3>3, <3>4, <3>5, <1>2
  <2>4. CASE TS!ExecuteClosure
    <3> DEFINE h == Head(fnQ)
    <3>1. /\ fnQ # <<>> /\ fnQ' = Tail(fnQ)
          /\ ran' = Append(ran, h) /\ taskQ' = taskQ
      BY <2>4 DEF TS!ExecuteClosure
    <3>2. /\ h \in Elements(fnQ) /\ h \in Closures
          /\ Elements(fnQ) = Elements(fnQ') \cup {h}
          /\ Distinct(fnQ') /\ h \notin Elements(fnQ')
      BY <3>1, <2>t, <1>2, TailElements
    <3>3. Elements(ran') = Elements(ran) \cup {h} /\ Distinct(ran')
      BY <3>1, <3>2, <2>t, <1>2, AppendElements DEF Tasks
    <3>4. h \notin Elements(taskQ)
      BY <3>2, <2>t, TaskAssumption
    <3>5. Elements(taskQ') = Elements(taskQ) /\ Distinct(taskQ')
      BY <3>1, <1>2
    <3> HIDE DEF h
    <3> QED
      BY <3>2, <3>3, <3>4, <3>5, <1>2
  <2>5. CASE UNCHANGED <<taskQ, fnQ, ran>>
    BY <2>5, <1>2 DEF Distinct, Elements
  <2> QED
    BY <1>2, <2>1, <2>2, <2>3, <2>4, <2>5
       DEF TS!SNext, TS!svars, TS!Close, TS!Execute
<1>3. TypeOK /\ RunOnce /\ WakeupInv /\ [Next]_vars => RunOnce'
  BY <1>2, StepRefines
<1> QED
  BY <1>1, <1>3, TypeInductive, WakeupInductive, PTL DEF Spec
=============================================================================
