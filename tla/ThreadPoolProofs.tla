-------------------------- MODULE ThreadPoolProofs --------------------------
(***************************************************************************)
(* What holds of every ThreadPool, whatever the numbers of threads, the    *)
(* thresholds and the speed of its threads.                                *)
(***************************************************************************)
EXTENDS ThreadPool, FiniteSetTheorems, WellFoundedInduction, NaturalsInduction, TLAPS

\* A set of numbers that has 0, and with every number the next one.
LEMMA NatSet ==
  ASSUME NEW S \in SUBSET Nat, 0 \in S, \A n \in S : n + 1 \in S
  PROVE  S = Nat
<1> DEFINE T == Nat \ S
<1> SUFFICES ASSUME T # {} PROVE FALSE
  OBVIOUS
<1>1. PICK x \in T : \A y \in T : ~(<<y, x>> \in OpToRel(<, Nat))
  <2>1. T \in SUBSET Nat
    OBVIOUS
  <2> HIDE DEF T
  <2> QED
    BY <2>1, NatLessThanWellFounded, WFMin
<1>2. x \in Nat /\ x # 0
  OBVIOUS
<1>3. <<x - 1, x>> \in OpToRel(<, Nat)
  BY <1>2 DEF OpToRel
<1>4. x - 1 \notin T
  BY <1>1, <1>3, Zenon
<1>5. x - 1 \in S
  BY <1>2, <1>4
<1>6. (x - 1) + 1 \in S
  BY <1>5
<1> QED
  BY <1>2, <1>6

\* A non-empty set of naturals has a least element.
LEMMA LeastNat ==
  ASSUME NEW S \in SUBSET Nat, S # {}
  PROVE  \E x \in S : \A y \in S : x <= y
<1>1. PICK x \in S : \A y \in S : ~(<<y, x>> \in OpToRel(<, Nat))
  BY NatLessThanWellFounded, WFMin
<1>2. ASSUME NEW y \in S PROVE x <= y
  <2>1. y < x => <<y, x>> \in OpToRel(<, Nat)
    BY DEF OpToRel
  <2>2. ~(y < x)
    BY <1>1, <2>1, Zenon
  <2>3. x \in Nat /\ y \in Nat
    OBVIOUS
  <2> QED
    BY <2>2, <2>3
<1> QED
  BY <1>2

\* The workers the code picks are among those it picks from.
LEMMA MinIn ==
  ASSUME NEW W \in SUBSET Ids, W # {}
  PROVE  Min(W) \in W
<1>1. \E x \in W : \A y \in W : x <= y
  BY LeastNat, PoolAssumption DEF Ids
<1> QED
  BY <1>1 DEF Min

LEMMA LeastLoadedIs ==
  ASSUME NEW W \in SUBSET Ids, W # {}, count \in [Ids -> Nat]
  PROVE  /\ LeastLoaded(W) \in W
         /\ \A v \in W : \/ count[LeastLoaded(W)] < count[v]
                        \/ /\ count[LeastLoaded(W)] = count[v]
                           /\ LeastLoaded(W) <= v
<1> DEFINE C == {count[w] : w \in W}
<1>1. PICK n \in C : \A m \in C : n <= m
  <2>1. C \in SUBSET Nat /\ C # {}
    OBVIOUS
  <2> HIDE DEF C
  <2> QED
    BY <2>1, LeastNat
<1> DEFINE V == {w \in W : count[w] = n}
<1>2. PICK x \in V : \A y \in V : x <= y
  <2>1. W \subseteq Nat
    BY PoolAssumption DEF Ids
  <2>2. V \in SUBSET Nat /\ V # {}
    BY <1>1, <2>1
  <2> HIDE DEF V
  <2> QED
    BY <2>2, LeastNat
<1>3. \A v \in W : count[x] < count[v] \/ (count[x] = count[v] /\ x <= v)
  BY <1>1, <1>2
<1> QED
  BY <1>2, <1>3 DEF LeastLoaded

LEMMA LeastLoadedIn ==
  ASSUME NEW W \in SUBSET Ids, W # {}, count \in [Ids -> Nat]
  PROVE  LeastLoaded(W) \in W
  BY LeastLoadedIs

LEMMA LeastLoadedLeast ==
  ASSUME NEW W \in SUBSET Ids, W # {}, count \in [Ids -> Nat]
  PROVE  \A v \in W : count[LeastLoaded(W)] <= count[v]
<1>1. LeastLoaded(W) \in W
  BY LeastLoadedIn
<1>2. \A v \in W : count[LeastLoaded(W)] < count[v] \/ count[LeastLoaded(W)] = count[v]
  BY LeastLoadedIs
<1>3. \A v \in W : count[v] \in Nat
  OBVIOUS
<1> QED
  BY <1>1, <1>2, <1>3

\* Every set of workers is finite.
LEMMA IdsFinite ==
  ASSUME NEW W \in SUBSET Ids
  PROVE  IsFiniteSet(W) /\ Cardinality(W) \in Nat
<1>1. IsFiniteSet(Ids)
  BY FS_Interval, PoolAssumption DEF Ids
<1> QED
  BY <1>1, FS_Subset, FS_CardinalityType

LEMMA GaugesType ==
  ASSUME NEW W \in SUBSET Ids, NEW D
  PROVE  Gauges(W, D) \in [current : Nat, draining : Nat]
<1>1. W \cap D \in SUBSET Ids
  OBVIOUS
<1> QED
  BY <1>1, IdsFinite DEF Gauges
-----------------------------------------------------------------------------
\* Before run() nothing is draining and there is no manager; a thread that
\* deletes workers has one to delete.
Shape ==
    /\ mainPc = "init" => draining = {} /\ managerPc = "none"
    /\ managerPc \in {"requestStop", "joinWorker"} => reclaimed # {}
    /\ mainPc \in {"requestStop", "joinWorker"} => leftover # {}

PoolInv == TypeOK /\ Shape /\ PoolBounds

LEMMA TypeInductive == /\ Init => TypeOK
                       /\ TypeOK /\ Shape /\ [Next]_vars => TypeOK'
<1>1. Init => TypeOK
  <2> SUFFICES ASSUME Init PROVE TypeOK
    OBVIOUS
  <2>1. gauges \in [current : Nat, draining : Nat]
    BY GaugesType DEF Init
  <2>2. stopping \in BOOLEAN /\ passed \in BOOLEAN
    BY Zenon DEF Init
  <2>3. /\ loop \in [Ids -> LoopStates]
        /\ quit \in [Ids -> BOOLEAN]
        /\ count \in [Ids -> Nat]
    BY DEF Init, LoopStates
  <2>4. lastId \in 0 .. MaxWorkerId /\ lowLoad \in 0 .. ScaleDownDelay - 1
    BY PoolAssumption DEF Init
  <2> QED
    BY <2>1, <2>2, <2>3, <2>4 DEF Init, TypeOK
<1>2. TypeOK /\ Shape /\ [Next]_vars => TypeOK'
  <2> SUFFICES ASSUME TypeOK, Shape, [Next]_vars PROVE TypeOK'
    OBVIOUS
  <2> USE DEF TypeOK
  <2>0. Available \in SUBSET Ids
    BY DEF Available
  <2>1. CASE Run
    <3>1. workers' \in SUBSET Ids /\ lastId' \in 0 .. MaxWorkerId
      BY <2>1, PoolAssumption DEF Run, Ids
    <3>2. gauges' \in [current : Nat, draining : Nat]
      BY <2>1, <3>1, GaugesType DEF Run
    <3>3. loop' \in [Ids -> LoopStates]
      BY <2>1 DEF Run, LoopStates
    <3>4. /\ mainPc' = "ready" /\ managerPc' \in {"wait", "none"}
          /\ UNCHANGED <<draining, lowLoad, stopping, held, passed, reclaimed,
                         leftover, quit, count>>
      BY <2>1 DEF Run
    <3> QED
      BY <3>1, <3>2, <3>3, <3>4
  <2>h. ASSUME NEW W \in SUBSET Ids, Hold(W)
        PROVE  /\ held' \in Ids \cup {NoLoop, MainLoop}
               /\ passed' \in BOOLEAN
               /\ mainPc' = "holding"
               /\ UNCHANGED <<stopping, leftover, managerPc, reclaimed, quit,
                              count>>
    <3>1. W # {} => LeastLoaded(W) \in Ids
      BY LeastLoadedIn
    <3>2. passed' \in BOOLEAN
      BY <2>h, Zenon DEF Hold
    <3> QED
      BY <2>h, <3>1, <3>2 DEF Hold
  <2>2. CASE Take
    BY <2>2, <2>0, <2>h DEF Take, poolVars
  <2>3. CASE TakeUndrained
    <3>1. /\ draining' \in SUBSET Ids /\ lowLoad' = 0
          /\ gauges' = Gauges(workers, draining')
          /\ Hold(workers \ draining')
          /\ UNCHANGED <<workers, lastId, loop>>
      BY <2>3 DEF TakeUndrained
    <3>2. gauges' \in [current : Nat, draining : Nat]
      BY <3>1, GaugesType
    <3>3. lowLoad' \in 0 .. ScaleDownDelay - 1
      BY <3>1, PoolAssumption
    <3> HIDE DEF TypeOK
    <3>4. TypeOK
      OBVIOUS
    <3>5. workers \ draining' \in SUBSET Ids
      BY <3>4 DEF TypeOK
    <3>6. /\ held' \in Ids \cup {NoLoop, MainLoop}
          /\ passed' \in BOOLEAN
          /\ mainPc' = "holding"
          /\ UNCHANGED <<stopping, leftover, managerPc, reclaimed, quit, count>>
      BY <3>1, <3>5, <2>h
    <3> QED
      BY <3>1, <3>2, <3>3, <3>4, <3>6 DEF TypeOK
  <2>4. CASE TakeAdded
    <3>1. /\ lastId' = lastId + 1 /\ lastId < MaxWorkerId
          /\ workers' = workers \cup {lastId + 1}
          /\ loop' = [loop EXCEPT ![lastId + 1] = "new"]
          /\ gauges' = Gauges(workers', draining)
          /\ Hold(workers' \ draining)
          /\ UNCHANGED <<draining, lowLoad>>
      BY <2>4 DEF TakeAdded
    <3>2. /\ lastId' \in 0 .. MaxWorkerId /\ workers' \in SUBSET Ids
          /\ loop' \in [Ids -> LoopStates]
      BY <3>1, PoolAssumption DEF Ids, LoopStates
    <3>3. gauges' \in [current : Nat, draining : Nat]
      BY <3>1, <3>2, GaugesType
    <3>4. /\ held' \in Ids \cup {NoLoop, MainLoop}
          /\ passed' \in BOOLEAN
          /\ mainPc' = "holding"
          /\ UNCHANGED <<stopping, leftover, managerPc, reclaimed, quit, count>>
      BY <3>1, <3>2, <2>h
    <3> QED
      BY <3>1, <3>2, <3>3, <3>4
  <2>5. CASE OpenConnection
    BY <2>5 DEF OpenConnection, poolVars, managerVars
  <2>6. CASE Stop
    <3>1. stopping' \in BOOLEAN
      BY <2>6, Zenon DEF Stop
    <3> QED
      BY <2>6, <3>1 DEF Stop, poolVars, managerVars
  <2>7. CASE JoinManager
    <3>1. gauges' \in [current : Nat, draining : Nat]
      BY <2>7, GaugesType DEF JoinManager
    <3> QED
      BY <2>7, <3>1 DEF JoinManager, managerVars
  <2>8. ASSUME NEW W \in SUBSET Ids, W # {}
        PROVE  /\ [quit EXCEPT ![Min(W)] = TRUE] \in [Ids -> BOOLEAN]
               /\ [loop EXCEPT ![Min(W)] = "deleted"] \in [Ids -> LoopStates]
    BY <2>8, MinIn DEF LoopStates
  <2>9. CASE RequestStop
    <3>1. quit' \in [Ids -> BOOLEAN]
      BY <2>9, <2>8 DEF RequestStop, Shape
    <3> QED
      BY <2>9, <3>1 DEF RequestStop, poolVars, managerVars
  <2>10. CASE JoinWorker
    <3>1. loop' \in [Ids -> LoopStates]
      BY <2>10, <2>8 DEF JoinWorker, Shape
    <3> QED
      BY <2>10, <3>1 DEF JoinWorker, poolVars, managerVars
  <2>11. CASE Reclaim
    <3>1. reclaimed' \in SUBSET Ids
      BY <2>11 DEF Reclaim
    <3> QED
      BY <2>11, <3>1 DEF Reclaim, mainVars
  <2>12. CASE Balance
    <3>1. lowLoad' \in 0 .. ScaleDownDelay - 1
      BY <2>12, PoolAssumption DEF Balance
    <3>2. draining' \in SUBSET Ids
      BY <2>12, <2>0, LeastLoadedIn DEF Balance
    <3>3. gauges' \in [current : Nat, draining : Nat]
      BY <2>12, GaugesType DEF Balance
    <3>4. passed' \in BOOLEAN
      BY <2>12, Zenon DEF Balance
    <3>5. /\ managerPc' \in {"wait", "requestStop"}
          /\ UNCHANGED <<workers, lastId, mainVars, reclaimed, loop, quit, count>>
      BY <2>12 DEF Balance
    <3> QED
      BY <3>1, <3>2, <3>3, <3>4, <3>5 DEF mainVars
  <2>13. CASE ManagerRequestStop
    <3>1. quit' \in [Ids -> BOOLEAN]
      BY <2>13, <2>8 DEF ManagerRequestStop, Shape
    <3> QED
      BY <2>13, <3>1 DEF ManagerRequestStop, poolVars, mainVars
  <2>14. CASE ManagerJoinWorker
    <3>1. loop' \in [Ids -> LoopStates]
      BY <2>14, <2>8 DEF ManagerJoinWorker, Shape
    <3> QED
      BY <2>14, <3>1 DEF ManagerJoinWorker, poolVars, mainVars
  <2>15. CASE ManagerStops
    BY <2>15 DEF ManagerStops, poolVars, mainVars
  <2>16. ASSUME NEW w \in Ids, Worker(w) PROVE TypeOK'
    <3>1. CASE WorkerRuns(w)
      <4>1. quit' \in [Ids -> BOOLEAN] /\ loop' \in [Ids -> LoopStates]
        BY <3>1 DEF WorkerRuns, LoopStates
      <4> QED
        BY <3>1, <4>1 DEF WorkerRuns, poolVars, mainVars, managerVars
    <3>2. CASE WorkerReturns(w)
      BY <3>2 DEF WorkerReturns, LoopStates, poolVars, mainVars, managerVars
    <3>3. CASE CloseConnection(w)
      <4>1. count' \in [Ids -> Nat]
        BY <3>3 DEF CloseConnection
      <4> QED
        BY <3>3, <4>1 DEF CloseConnection, poolVars, mainVars, managerVars
    <3> QED
      BY <2>16, <3>1, <3>2, <3>3 DEF Worker
  <2>17. CASE UNCHANGED vars
    BY <2>17 DEF vars, poolVars, mainVars, managerVars
  <2> QED
    BY <2>1, <2>2, <2>3, <2>4, <2>5, <2>6, <2>7, <2>9, <2>10, <2>11, <2>12,
       <2>13, <2>14, <2>15, <2>16, <2>17 DEF Next, Main, MainStops, Manager
<1> QED
  BY <1>1, <1>2

LEMMA ShapeInductive == /\ Init => Shape
                        /\ TypeOK /\ Shape /\ [Next]_vars => Shape'
<1>1. Init => Shape
  BY DEF Init, Shape
<1>2. ASSUME TypeOK, Shape, [Next]_vars PROVE Shape'
  <2> USE <1>2 DEF Shape
  <2>1. CASE Run \/ Take \/ TakeUndrained \/ TakeAdded
    BY <2>1 DEF Run, Take, TakeUndrained, TakeAdded, MayTake, Hold, poolVars
  <2>2. CASE OpenConnection \/ MainStops
    BY <2>2 DEF OpenConnection, MainStops, Stop, JoinManager, RequestStop,
       JoinWorker, poolVars, managerVars
  <2>3. CASE Manager
    <3>1. managerPc # "none" /\ UNCHANGED <<mainPc, leftover>>
      BY <2>3 DEF Manager, Reclaim, Balance, ManagerRequestStop,
         ManagerJoinWorker, ManagerStops, mainVars
    <3> QED
      BY <2>3, <3>1 DEF Manager, Reclaim, Balance, ManagerRequestStop,
         ManagerJoinWorker, ManagerStops, mainVars, poolVars
  <2>4. CASE (\E w \in Ids : Worker(w)) \/ UNCHANGED vars
    BY <2>4 DEF Worker, WorkerRuns, WorkerReturns, CloseConnection, vars,
       poolVars, mainVars, managerVars
  <2> QED
    BY <1>2, <2>1, <2>2, <2>3, <2>4 DEF Next, Main
<1> QED
  BY <1>1, <1>2

LEMMA SubsetSize ==
  ASSUME NEW V \in SUBSET Ids, NEW W \in SUBSET Ids, V \subseteq W
  PROVE  Cardinality(V) <= Cardinality(W)
  BY IdsFinite, FS_Subset

LEMMA AtMostOne ==
  ASSUME NEW V, NEW x, V \subseteq {x}
  PROVE  Cardinality(V) <= 1
<1>1. V = {} \/ V = {x}
  OBVIOUS
<1>2. Cardinality({}) = 0 /\ Cardinality({x}) = 1
  BY FS_EmptySet, FS_Singleton
<1> QED
  BY <1>1, <1>2

LEMMA BoundsInductive == /\ Init => PoolBounds
                         /\ PoolInv /\ [Next]_vars => PoolBounds'
<1>1. Init => PoolBounds
  BY DEF Init, PoolBounds, IsStart
<1>2. ASSUME PoolInv, [Next]_vars PROVE PoolBounds'
  <2>t. /\ workers \in SUBSET Ids /\ draining \in SUBSET Ids
        /\ workers' \in SUBSET Ids /\ draining' \in SUBSET Ids
        /\ Available \in SUBSET Ids /\ Available' \in SUBSET Ids
    BY <1>2, TypeInductive DEF PoolInv, TypeOK, Available
  <2>b. IsStart => /\ Cardinality(workers) <= MaxThreads
                   /\ Cardinality(Available) >= MinThreads
                   /\ Cardinality(workers \cap draining) <= 1
    BY <1>2 DEF PoolInv, PoolBounds
  <2>c. /\ Cardinality(workers) \in Nat /\ Cardinality(workers') \in Nat
        /\ Cardinality(Available) \in Nat /\ Cardinality(Available') \in Nat
        /\ Cardinality(workers \cap draining) \in Nat
        /\ Cardinality(workers' \cap draining') \in Nat
    BY <2>t, IdsFinite
  \* A step that only takes away draining workers, or draining marks.
  <2>d. ASSUME IsStart' => IsStart, workers' \subseteq workers,
               Available \subseteq Available', draining' \subseteq draining
        PROVE  PoolBounds'
    <3>1. Cardinality(workers') <= Cardinality(workers)
      BY <2>d, <2>t, SubsetSize
    <3>2. Cardinality(Available) <= Cardinality(Available')
      BY <2>d, <2>t, SubsetSize
    <3>3. Cardinality(workers' \cap draining') <= Cardinality(workers \cap draining)
      <4>1. /\ workers' \cap draining' \in SUBSET Ids
            /\ workers \cap draining \in SUBSET Ids
            /\ workers' \cap draining' \subseteq workers \cap draining
        BY <2>d, <2>t
      <4> QED
        BY <4>1, SubsetSize
    <3> QED
      BY <2>b, <2>c, <2>d, <3>1, <3>2, <3>3, PoolAssumption DEF PoolBounds
  <2>1. CASE Run
    <3>1. workers' = 1 .. MinThreads /\ draining' = {}
      BY <2>1, <1>2 DEF Run, PoolInv, Shape
    <3>2. Available' = 1 .. MinThreads /\ workers' \cap draining' = {}
      BY <3>1 DEF Available
    <3>3. Cardinality(1 .. MinThreads) = MinThreads /\ Cardinality({}) = 0
      BY FS_Interval, FS_EmptySet, PoolAssumption
    <3> QED
      BY <3>1, <3>2, <3>3, PoolAssumption DEF PoolBounds
  <2>2. CASE Take \/ OpenConnection \/ Stop
    BY <2>2, <2>d DEF Take, MayTake, Hold, OpenConnection, Stop, IsStart,
       poolVars, Available
  <2>3. CASE TakeUndrained
    BY <2>3, <2>d DEF TakeUndrained, MayTake, Hold, IsStart, Available
  <2>4. CASE TakeAdded
    <3>1. /\ IsStart /\ Cardinality(workers) < MaxThreads
          /\ workers' = workers \cup {lastId + 1} /\ draining' = draining
          /\ workers \cap draining = {}
      BY <2>4 DEF TakeAdded, MayTake, IsStart
    <3>2. Cardinality(workers') <= Cardinality(workers) + 1
      <4>1. IsFiniteSet(workers)
        BY <2>t, IdsFinite
      <4>2. \/ Cardinality(workers \cup {lastId + 1}) = Cardinality(workers)
            \/ Cardinality(workers \cup {lastId + 1}) = Cardinality(workers) + 1
        BY <4>1, FS_AddElement
      <4> QED
        BY <3>1, <4>2, <2>c
    <3>3. Cardinality(Available) <= Cardinality(Available')
      BY <3>1, <2>t, SubsetSize DEF Available
    <3>4. Cardinality(workers' \cap draining') <= 1
      <4>1. workers' \cap draining' \subseteq {lastId + 1}
        BY <3>1
      <4> QED
        BY <4>1, AtMostOne
    <3> QED
      BY <3>1, <3>2, <3>3, <3>4, <2>b, <2>c, PoolAssumption DEF PoolBounds
  <2>5. CASE JoinManager \/ RequestStop \/ JoinWorker
    BY <2>5 DEF JoinManager, RequestStop, JoinWorker, PoolBounds, IsStart
  <2>6. CASE Reclaim
    <3>1. reclaimed' \subseteq draining
      BY <2>6 DEF Reclaim, Idle
    <3>2. /\ workers' = workers \ reclaimed' /\ draining' = draining
          /\ mainPc' = mainPc
      BY <2>6 DEF Reclaim, mainVars
    <3> QED
      BY <3>1, <3>2, <2>d DEF Available, IsStart
  <2>7. CASE Balance
    <3>1. workers' = workers /\ mainPc' = mainPc
      BY <2>7 DEF Balance, mainVars
    <3>2. CASE draining' = draining
      BY <3>1, <3>2, <2>d DEF Available, IsStart
    <3>3. CASE draining' # draining
      <4> DEFINE x == LeastLoaded(Available)
      <4>0. lowLoad < ScaleDownDelay /\ lowLoad \in Nat
        BY <1>2, PoolAssumption DEF PoolInv, TypeOK
      <4>1. LowLoad /\ draining' = draining \cup {x}
        BY <2>7, <3>3, <4>0, PoolAssumption DEF Balance
      <4> HIDE DEF x
      <4>2. /\ draining \cap workers = {}
            /\ Cardinality(Available) > MinThreads
        BY <4>1 DEF LowLoad
      <4>3. Available' = Available \ {x}
        BY <3>1, <4>1 DEF Available
      <4>4. Cardinality(Available') >= Cardinality(Available) - 1
        BY <4>3, <2>t, <2>c, IdsFinite, FS_RemoveElement
      <4>5. Cardinality(workers' \cap draining') <= 1
        <5>1. workers' \cap draining' \subseteq {x}
          BY <3>1, <4>1, <4>2
        <5> QED
          BY <5>1, AtMostOne
      <4> QED
        BY <3>1, <4>2, <4>4, <4>5, <2>b, <2>c, PoolAssumption
           DEF PoolBounds, IsStart
    <3> QED
      BY <3>2, <3>3
  <2>8. CASE ManagerRequestStop \/ ManagerJoinWorker \/ ManagerStops
    BY <2>8, <2>d DEF ManagerRequestStop, ManagerJoinWorker, ManagerStops,
       poolVars, mainVars, Available, IsStart
  <2>9. CASE (\E w \in Ids : Worker(w)) \/ UNCHANGED vars
    BY <2>9, <2>d DEF Worker, WorkerRuns, WorkerReturns, CloseConnection,
       vars, poolVars, mainVars, Available, IsStart
  <2> QED
    BY <1>2, <2>1, <2>2, <2>3, <2>4, <2>5, <2>6, <2>7, <2>8, <2>9
       DEF Next, Main, MainStops, Manager
<1> QED
  BY <1>1, <1>2

\* Types, for any number of workers.
THEOREM TypeCorrect == Spec => []TypeOK
  BY TypeInductive, ShapeInductive, PTL DEF Spec

\* The pool keeps its bounds: from MinThreads to MaxThreads workers, at least
\* MinThreads of them available and at most one draining, in every
\* interleaving of the manager's passes with the main thread's scale-up.
THEOREM PoolStaysInBounds == Spec => []PoolBounds
<1>1. Init => PoolInv
  BY TypeInductive, ShapeInductive, BoundsInductive DEF PoolInv
<1>2. PoolInv /\ [Next]_vars => PoolInv'
  BY TypeInductive, ShapeInductive, BoundsInductive DEF PoolInv
<1>3. PoolInv => PoolBounds
  BY DEF PoolInv
<1> QED
  BY <1>1, <1>2, <1>3, PTL DEF Spec
-----------------------------------------------------------------------------
\* The gauges are refreshed by whoever changes the pool, before the mutex is
\* released.
LEMMA GaugesInductive == /\ Init => GaugesCurrent
                         /\ Shape /\ GaugesCurrent /\ [Next]_vars
                            => GaugesCurrent'
<1>1. Init => GaugesCurrent
  BY DEF Init, GaugesCurrent
<1>2. ASSUME Shape, GaugesCurrent, [Next]_vars PROVE GaugesCurrent'
  <2> USE DEF GaugesCurrent, MutexFree
  \* A step that leaves the pool and its mutex alone.
  <2>u. ASSUME UNCHANGED poolVars, MutexFree' => MutexFree
        PROVE  GaugesCurrent'
    BY <1>2, <2>u DEF poolVars, Gauges
  <2>1. CASE Run
    BY <2>1 DEF Run, Gauges
  <2>2. CASE Take \/ OpenConnection \/ Stop \/ RequestStop \/ JoinWorker
    BY <2>2, <2>u DEF Take, MayTake, Hold, OpenConnection, Stop, RequestStop,
       JoinWorker, managerVars
  <2>3. CASE TakeUndrained \/ TakeAdded
    BY <2>3 DEF TakeUndrained, TakeAdded, Gauges
  <2>4. CASE JoinManager
    <3>1. workers' = {} /\ gauges' = Gauges({}, {})
      BY <2>4 DEF JoinManager
    <3>2. Gauges({}, {}) = Gauges({}, draining')
      BY DEF Gauges
    <3> QED
      BY <3>1, <3>2 DEF Gauges
  <2>5. CASE Reclaim
    BY <2>5 DEF Reclaim
  <2>6. CASE Balance
    BY <2>6 DEF Balance, Gauges
  <2>7. CASE ManagerRequestStop \/ ManagerJoinWorker \/ ManagerStops
    BY <2>7, <2>u DEF ManagerRequestStop, ManagerJoinWorker, ManagerStops
  <2>8. CASE (\E w \in Ids : Worker(w)) \/ UNCHANGED vars
    BY <2>8, <2>u DEF Worker, WorkerRuns, WorkerReturns, CloseConnection,
       vars, managerVars
  <2> QED
    BY <1>2, <2>1, <2>2, <2>3, <2>4, <2>5, <2>6, <2>7, <2>8
       DEF Next, Main, MainStops, Manager
<1> QED
  BY <1>1, <1>2

\* The metrics show the pool as it is whenever its mutex is free: every
\* scale-up, undraining, drain mark and reclaim is followed by a refresh before
\* the mutex is released.
THEOREM GaugesStayCurrent == Spec => []GaugesCurrent
<1>1. Init => TypeOK /\ Shape /\ GaugesCurrent
  BY TypeInductive, ShapeInductive, GaugesInductive
<1>2. TypeOK /\ Shape /\ GaugesCurrent /\ [Next]_vars
      => (TypeOK /\ Shape /\ GaugesCurrent)'
  BY TypeInductive, ShapeInductive, GaugesInductive
<1> QED
  BY <1>1, <1>2, PTL DEF Spec
-----------------------------------------------------------------------------
\* A worker is in the pool, being reclaimed or with stop(), never in two of
\* these places; ids are not used twice; only those who left the pool are
\* deleted.
Places ==
    /\ workers \cup reclaimed \subseteq 1 .. lastId
    /\ workers \cap reclaimed = {}
    /\ mainPc = "init" => lastId = 0
    /\ IF mainPc \in {"init", "ready", "holding", "joinManager"}
       THEN leftover = {} ELSE workers = {}
    /\ \A w \in workers : loop[w] # "deleted"

\* The worker whose loop the main thread holds is in the pool, and if it is
\* draining then since the pass that has ended after it was taken.
HeldInPool ==
    mainPc = "holding" => held \in workers /\ (held \in draining => passed)

LEMMA PlacesInductive == /\ Init => Places
                         /\ PoolInv /\ Places /\ [Next]_vars => Places'
<1>1. Init => Places
  BY DEF Init, Places
<1>2. ASSUME PoolInv, Places, [Next]_vars PROVE Places'
  <2>t. /\ workers \in SUBSET Ids /\ reclaimed \in SUBSET Ids
        /\ leftover \in SUBSET Ids /\ lastId \in 0 .. MaxWorkerId
        /\ loop \in [Ids -> LoopStates]
    BY <1>2 DEF PoolInv, TypeOK
  <2>p. /\ workers \cup reclaimed \subseteq 1 .. lastId
        /\ workers \cap reclaimed = {}
        /\ mainPc = "init" => lastId = 0
        /\ IF mainPc \in {"init", "ready", "holding", "joinManager"}
           THEN leftover = {} ELSE workers = {}
        /\ \A w \in workers : loop[w] # "deleted"
    BY <1>2 DEF Places
  <2> USE DEF Places
  <2>1. CASE Run
    <3>1. /\ workers' = 1 .. MinThreads /\ lastId' = MinThreads
          /\ MinThreads <= MaxWorkerId
          /\ reclaimed = {} /\ reclaimed' = {}
          /\ leftover' = {} /\ mainPc' = "ready"
      BY <2>1, <2>p DEF Run
    <3>2. \A w \in workers' : loop'[w] # "deleted"
      BY <2>1, <3>1, PoolAssumption DEF Run, Ids
    <3> QED
      BY <3>1, <3>2
  <2>2. CASE Take \/ OpenConnection \/ Stop \/ TakeUndrained
    BY <2>2, <2>p DEF Take, MayTake, TakeUndrained, Hold, OpenConnection, Stop,
       poolVars, managerVars
  <2>3. CASE TakeAdded
    <3>1. /\ lastId' = lastId + 1 /\ workers' = workers \cup {lastId + 1}
          /\ lastId < MaxWorkerId
          /\ loop' = [loop EXCEPT ![lastId + 1] = "new"]
          /\ mainPc = "ready" /\ mainPc' = "holding"
          /\ leftover' = leftover /\ reclaimed' = reclaimed
      BY <2>3 DEF TakeAdded, MayTake, Hold
    <3>2. lastId + 1 \in Ids /\ lastId + 1 \notin reclaimed
      BY <3>1, <2>t, <2>p, PoolAssumption DEF Ids
    <3>3. workers' \cup reclaimed' \subseteq 1 .. lastId'
      BY <3>1, <2>t, <2>p
    <3>4. \A w \in workers' : loop'[w] # "deleted"
      BY <3>1, <3>2, <2>t, <2>p
    <3> QED
      BY <3>1, <3>2, <3>3, <3>4, <2>p
  <2>4. CASE JoinManager
    <3>1. /\ workers' = {} /\ leftover' = workers
          /\ mainPc' \in {"stopped", "requestStop"}
          /\ UNCHANGED <<reclaimed, lastId, loop>>
      BY <2>4 DEF JoinManager, managerVars
    <3> QED
      BY <3>1, <2>p
  <2>5. CASE RequestStop \/ JoinWorker
    <3>1. /\ mainPc \in {"requestStop", "joinWorker"}
          /\ mainPc' \in {"requestStop", "joinWorker", "stopped"}
          /\ UNCHANGED <<workers, lastId, reclaimed>>
      BY <2>5 DEF RequestStop, JoinWorker, poolVars, managerVars
    <3> QED
      BY <3>1, <2>p
  <2>6. CASE Reclaim
    <3>1. /\ reclaimed' \subseteq workers /\ workers' = workers \ reclaimed'
          /\ UNCHANGED <<lastId, mainPc, leftover, loop>>
      BY <2>6 DEF Reclaim, mainVars
    <3> QED
      BY <3>1, <2>p
  <2>7. CASE ManagerJoinWorker
    <3>1. reclaimed # {}
      BY <2>7, <1>2 DEF ManagerJoinWorker, PoolInv, Shape
    <3>2. Min(reclaimed) \in reclaimed
      BY <3>1, <2>t, MinIn
    <3>3. /\ loop' = [loop EXCEPT ![Min(reclaimed)] = "deleted"]
          /\ reclaimed' \subseteq reclaimed
          /\ UNCHANGED <<workers, lastId, mainPc, leftover>>
      BY <2>7 DEF ManagerJoinWorker, poolVars, mainVars
    <3> QED
      BY <3>2, <3>3, <2>p, <2>t
  <2>8. CASE Balance \/ ManagerRequestStop \/ ManagerStops
    BY <2>8, <2>p DEF Balance, ManagerRequestStop, ManagerStops, poolVars,
       mainVars
  <2>9. ASSUME NEW w \in Ids, Worker(w) PROVE Places'
    <3>1. /\ UNCHANGED <<workers, lastId, reclaimed, mainPc, leftover>>
          /\ \/ loop' = loop
             \/ loop' = [loop EXCEPT ![w] = "run"]
             \/ loop' = [loop EXCEPT ![w] = "ended"]
      BY <2>9 DEF Worker, WorkerRuns, WorkerReturns, CloseConnection, poolVars,
         mainVars, managerVars
    <3> QED
      BY <3>1, <2>p, <2>t
  <2>10. CASE UNCHANGED vars
    BY <2>10, <2>p DEF vars, poolVars, mainVars, managerVars
  <2> QED
    BY <1>2, <2>1, <2>2, <2>3, <2>4, <2>5, <2>6, <2>7, <2>8, <2>9, <2>10
       DEF Next, Main, MainStops, Manager
<1> QED
  BY <1>1, <1>2

\* A pass of the manager may mark the held worker as draining, and only the
\* next one may reclaim it.
LEMMA HeldInductive ==
  /\ Init => HeldInPool
  /\ Timely /\ PoolInv /\ HeldInPool /\ [Next]_vars => HeldInPool'
<1>1. Init => HeldInPool
  BY DEF Init, HeldInPool
<1>2. ASSUME Timely, PoolInv, HeldInPool, [Next]_vars PROVE HeldInPool'
  <2>t. /\ workers \in SUBSET Ids /\ count \in [Ids -> Nat]
        /\ workers' \in SUBSET Ids /\ draining \in SUBSET Ids
    BY <1>2, TypeInductive DEF PoolInv, TypeOK
  <2> USE DEF HeldInPool
  \* Some worker serves new connections, so that the main loop is not handed
  \* out.
  <2>a. mainPc = "ready" => Available # {}
    <3>1. mainPc = "ready" => Cardinality(Available) >= MinThreads
      BY <1>2 DEF PoolInv, PoolBounds, IsStart
    <3>2. Cardinality({}) = 0
      BY FS_EmptySet
    <3> QED
      BY <3>1, <3>2, PoolAssumption
  <2>h. ASSUME NEW W \in SUBSET Ids, W # {}, Hold(W)
        PROVE  held' \in W
    <3>1. LeastLoaded(W) \in W
      BY <2>h, <2>t, LeastLoadedIn
    <3> QED
      BY <2>h, <3>1 DEF Hold
  <2>1. CASE Run \/ MainStops \/ OpenConnection
    <3>1. mainPc' # "holding"
      BY <2>1 DEF Run, MainStops, OpenConnection, Stop, JoinManager,
         RequestStop, JoinWorker
    <3> QED
      BY <3>1
  <2>2. CASE Take
    <3>1. Available \in SUBSET Ids /\ Available # {} /\ Hold(Available)
      BY <2>2, <2>a, <2>t DEF Take, MayTake, Available
    <3>2. held' \in Available
      BY <3>1, <2>h
    <3> QED
      BY <2>2, <3>2 DEF Take, poolVars, Available
  <2>3. CASE TakeUndrained
    <3>1. /\ mainPc = "ready" /\ draining' \subseteq draining
          /\ workers' = workers /\ Hold(workers \ draining')
      BY <2>3 DEF TakeUndrained, MayTake
    <3>2. workers \ draining' \in SUBSET Ids /\ workers \ draining' # {}
      BY <3>1, <2>a, <2>t DEF Available
    <3>3. held' \in workers \ draining'
      BY <3>1, <3>2, <2>h
    <3> QED
      BY <3>1, <3>3
  <2>4. CASE TakeAdded
    <3>1. /\ mainPc = "ready" /\ workers' = workers \cup {lastId + 1}
          /\ draining' = draining /\ Hold(workers' \ draining)
      BY <2>4 DEF TakeAdded, MayTake
    <3>2. workers' \ draining \in SUBSET Ids /\ workers' \ draining # {}
      BY <3>1, <2>a, <2>t DEF Available
    <3>3. held' \in workers' \ draining
      BY <3>2, <3>1, <2>h
    <3> QED
      BY <3>1, <3>3
  <2>5. CASE Reclaim
    <3>1. /\ mainPc = "holding" => ~passed
          /\ reclaimed' \subseteq draining
          /\ workers' = workers \ reclaimed'
          /\ UNCHANGED <<draining, mainPc, held, passed>>
      BY <1>2, <2>5 DEF Reclaim, Idle, mainVars
    <3> QED
      BY <1>2, <3>1
  <2>6. CASE Balance
    BY <1>2, <2>6 DEF Balance, mainVars
  <2>7. CASE ManagerRequestStop \/ ManagerJoinWorker \/ ManagerStops
    BY <1>2, <2>7 DEF ManagerRequestStop, ManagerJoinWorker, ManagerStops,
       poolVars, mainVars
  <2>8. CASE (\E w \in Ids : Worker(w)) \/ UNCHANGED vars
    BY <1>2, <2>8 DEF Worker, WorkerRuns, WorkerReturns, CloseConnection, vars,
       poolVars, mainVars, managerVars
  <2> QED
    BY <1>2, <2>1, <2>2, <2>3, <2>4, <2>5, <2>6, <2>7, <2>8
       DEF Next, Main, Manager
<1> QED
  BY <1>1, <1>2

HeldInv == PoolInv /\ Places /\ HeldInPool

LEMMA HeldInvInductive == /\ Init => HeldInv
                          /\ Timely /\ HeldInv /\ [Next]_vars => HeldInv'
  BY TypeInductive, ShapeInductive, BoundsInductive, PlacesInductive,
     HeldInductive DEF HeldInv, PoolInv

\* If less than a second passes between taking a loop and counting a connection
\* in it, the loop that takeWorkerEventLoop returned is a live worker's until
\* then, though the mutex that protects the pool is released in between.
THEOREM HeldLoopStaysAlive == ASSUME Timely PROVE Spec => []HeldLoopAlive
<1>1. HeldInv => HeldLoopAlive
  BY DEF HeldInv, Places, HeldInPool, HeldLoopAlive, PoolInv, TypeOK
<1>2. Init => HeldInv
  BY HeldInvInductive
<1>3. HeldInv /\ [Next]_vars => HeldInv'
  BY HeldInvInductive, Timely
<1> QED
  BY <1>1, <1>2, <1>3, PTL DEF Spec

\* Under the same condition the manager stops only workers without
\* connections, and none is opened on a worker it has taken out of the pool.
THEOREM ReclaimedStayIdle == ASSUME Timely PROVE Spec => []ReclaimedIdle
<1>1. Init => HeldInv /\ ReclaimedIdle
  BY HeldInvInductive DEF Init, ReclaimedIdle
<1>2. ASSUME HeldInv, ReclaimedIdle, [Next]_vars PROVE ReclaimedIdle'
  <2>t. /\ reclaimed \in SUBSET Ids /\ count \in [Ids -> Nat]
        /\ workers \cap reclaimed = {}
        /\ mainPc = "holding" => held \in workers
        /\ \A w \in reclaimed : count[w] = 0
    BY <1>2 DEF HeldInv, PoolInv, TypeOK, Places, HeldInPool, ReclaimedIdle
  <2> USE DEF ReclaimedIdle
  <2>1. CASE OpenConnection
    BY <2>1, <2>t DEF OpenConnection, managerVars
  <2>2. CASE Reclaim
    BY <2>2 DEF Reclaim, Idle
  <2>3. CASE \E w \in Ids : CloseConnection(w)
    BY <2>3, <2>t DEF CloseConnection, managerVars
  <2>4. CASE Run \/ Take \/ TakeUndrained \/ TakeAdded \/ MainStops
    BY <2>4, <2>t DEF Run, Take, TakeUndrained, TakeAdded, Hold, MainStops, Stop,
       JoinManager, RequestStop, JoinWorker, managerVars
  <2>5. CASE \/ Balance \/ ManagerRequestStop \/ ManagerJoinWorker
             \/ ManagerStops
    BY <2>5, <2>t DEF Balance, ManagerRequestStop, ManagerJoinWorker,
       ManagerStops
  <2>6. CASE \/ \E w \in Ids : WorkerRuns(w) \/ WorkerReturns(w)
             \/ UNCHANGED vars
    BY <2>6, <2>t DEF WorkerRuns, WorkerReturns, vars, managerVars
  <2> QED
    BY <1>2, <2>1, <2>2, <2>3, <2>4, <2>5, <2>6 DEF Next, Main, Manager, Worker
<1>3. HeldInv /\ [Next]_vars => HeldInv'
  BY HeldInvInductive, Timely
<1> QED
  BY <1>1, <1>2, <1>3, PTL DEF Spec
-----------------------------------------------------------------------------
\* Total: f adds up the connections of the subsets of W with at most n workers.
Least(s) == CHOOSE x \in s : TRUE

Small(W, n) == {s \in SUBSET W : Cardinality(s) <= n}

AddsUp(f, D) ==
    f = [s \in D |-> IF s = {} THEN 0 ELSE count[Least(s)] + f[s \ {Least(s)}]]

LEMMA OneLess ==
  ASSUME NEW W \in SUBSET Ids, NEW s \in SUBSET W, s # {}
  PROVE  /\ Least(s) \in s /\ Least(s) \in W
         /\ s \ {Least(s)} \in SUBSET W
         /\ Cardinality(s \ {Least(s)}) = Cardinality(s) - 1
         /\ Cardinality(s) \in Nat
<1>1. Least(s) \in s
  BY DEF Least
<1>2. IsFiniteSet(s) /\ Cardinality(s) \in Nat
  BY IdsFinite
<1>3. Cardinality(s \ {Least(s)}) = Cardinality(s) - 1
  BY <1>1, <1>2, FS_RemoveElement
<1> QED
  BY <1>1, <1>2, <1>3

LEMMA AddsUpExists ==
  ASSUME NEW W \in SUBSET Ids, NEW n \in Nat
  PROVE  \E f : AddsUp(f, Small(W, n))
<1> DEFINE S == {m \in Nat : \E f : AddsUp(f, Small(W, m))}
<1>1. 0 \in S
  <2> DEFINE f == [s \in Small(W, 0) |-> 0]
  <2>1. ASSUME NEW s \in Small(W, 0) PROVE s = {}
    <3>1. s \in SUBSET W /\ Cardinality(s) <= 0
      BY DEF Small
    <3>2. IsFiniteSet(s) /\ Cardinality(s) \in Nat
      BY <3>1, IdsFinite
    <3> QED
      BY <3>1, <3>2, FS_EmptySet
  <2>2. f = [s \in Small(W, 0) |-> IF s = {} THEN 0
                                   ELSE count[Least(s)] + f[s \ {Least(s)}]]
    BY <2>1
  <2> HIDE DEF f
  <2>3. AddsUp(f, Small(W, 0))
    BY <2>2, Zenon DEF AddsUp
  <2> QED
    BY <2>3
<1>2. ASSUME NEW m \in S PROVE m + 1 \in S
  <2>1. PICK f : AddsUp(f, Small(W, m))
    OBVIOUS
  <2> DEFINE g == [s \in Small(W, m + 1) |->
                     IF s = {} THEN 0
                     ELSE count[Least(s)] + f[s \ {Least(s)}]]
  <2>2. ASSUME NEW s \in Small(W, m) PROVE s \in Small(W, m + 1) /\ g[s] = f[s]
    <3>1. s \in SUBSET W /\ Cardinality(s) <= m /\ Cardinality(s) \in Nat
      BY IdsFinite DEF Small
    <3>2. s \in Small(W, m + 1)
      BY <3>1 DEF Small
    <3>3. f = [t \in Small(W, m) |->
                 IF t = {} THEN 0 ELSE count[Least(t)] + f[t \ {Least(t)}]]
      BY <2>1, Zenon DEF AddsUp
    <3>4. f[s] = IF s = {} THEN 0 ELSE count[Least(s)] + f[s \ {Least(s)}]
      BY <3>3
    <3> QED
      BY <3>2, <3>4
  <2>3. ASSUME NEW s \in Small(W, m + 1)
        PROVE  g[s] = IF s = {} THEN 0 ELSE count[Least(s)] + g[s \ {Least(s)}]
    <3>1. CASE s # {}
      <4>1. s \in SUBSET W /\ Cardinality(s) <= m + 1
        BY DEF Small
      <4>2. s \ {Least(s)} \in SUBSET W /\ Cardinality(s \ {Least(s)}) <= m
        BY <3>1, <4>1, OneLess
      <4>3. s \ {Least(s)} \in Small(W, m)
        BY <4>2 DEF Small
      <4>4. g[s \ {Least(s)}] = f[s \ {Least(s)}]
        BY <4>3, <2>2
      <4>5. g[s] = count[Least(s)] + f[s \ {Least(s)}]
        BY <3>1
      <4> QED
        BY <3>1, <4>4, <4>5
    <3> QED
      BY <3>1
  <2>4. g = [s \in Small(W, m + 1) |-> g[s]]
    OBVIOUS
  <2> HIDE DEF g
  <2>5. AddsUp(g, Small(W, m + 1))
    BY <2>3, <2>4 DEF AddsUp
  <2> QED
    BY <2>5
<1> HIDE DEF S
<1>3. S = Nat
  <2>1. S \in SUBSET Nat
    BY DEF S
  <2> QED
    BY <1>1, <1>2, <2>1, NatSet
<1> QED
  BY <1>3 DEF S

\* Workers of which each has k connections have k times their number.
LEMMA TotalAtLeast ==
  ASSUME NEW W \in SUBSET Ids, count \in [Ids -> Nat], NEW k \in Nat,
         \A w \in W : count[w] >= k
  PROVE  Total(W) \in Nat /\ Total(W) >= Cardinality(W) * k
<1> DEFINE G(f) == f = [s \in SUBSET W |->
                          IF s = {} THEN 0
                          ELSE count[CHOOSE x \in s : TRUE]
                                 + f[s \ {CHOOSE x \in s : TRUE}]]
           c == CHOOSE f : G(f)
<1>1. Total(W) = c[W]
  BY DEF Total, MapThenSumSet, MapThenFoldSet
<1>2. \E f : G(f)
  <2>1. Small(W, Cardinality(W)) = SUBSET W
    <3>1. ASSUME NEW s \in SUBSET W PROVE Cardinality(s) <= Cardinality(W)
      BY IdsFinite, FS_Subset
    <3> QED
      BY <3>1 DEF Small
  <2>2. Cardinality(W) \in Nat
    BY IdsFinite
  <2>3. PICK f : AddsUp(f, Small(W, Cardinality(W)))
    BY <2>2, AddsUpExists
  <2>4. AddsUp(f, SUBSET W)
    BY <2>1, <2>3
  <2>5. G(f)
    BY <2>4 DEF AddsUp, Least
  <2> QED
    BY <2>5
<1>3. G(c)
  <2> HIDE DEF G
  <2> QED
    BY <1>2
<1>4. AddsUp(c, SUBSET W)
  BY <1>3 DEF AddsUp, Least
<1> HIDE DEF c
<1>5. ASSUME NEW s \in SUBSET W
      PROVE  c[s] = IF s = {} THEN 0 ELSE count[Least(s)] + c[s \ {Least(s)}]
  <2>1. c = [t \in SUBSET W |->
               IF t = {} THEN 0 ELSE count[Least(t)] + c[t \ {Least(t)}]]
    BY <1>4, Zenon DEF AddsUp
  <2> QED
    BY <2>1
<1> DEFINE S == {m \in Nat : \A s \in SUBSET W :
                    Cardinality(s) = m => c[s] \in Nat /\ c[s] >= m * k}
<1>6. 0 \in S
  <2>1. ASSUME NEW s \in SUBSET W, Cardinality(s) = 0 PROVE c[s] = 0
    <3>1. s = {}
      BY <2>1, IdsFinite, FS_EmptySet
    <3> QED
      BY <3>1, <1>5
  <2>2. 0 * k = 0
    OBVIOUS
  <2> QED
    BY <2>1, <2>2
<1>7. ASSUME NEW m \in S PROVE m + 1 \in S
  <2>1. ASSUME NEW s \in SUBSET W, Cardinality(s) = m + 1
        PROVE  c[s] \in Nat /\ c[s] >= (m + 1) * k
    <3>1. s # {}
      <4>1. Cardinality({}) = 0
        BY FS_EmptySet
      <4>2. m \in Nat
        OBVIOUS
      <4>3. m + 1 # 0
        BY <4>2
      <4> HIDE DEF S
      <4> QED
        BY <2>1, <4>1, <4>3
    <3>2. /\ Least(s) \in W /\ s \ {Least(s)} \in SUBSET W
          /\ Cardinality(s \ {Least(s)}) = m
      BY <2>1, <3>1, OneLess
    <3>3. c[s \ {Least(s)}] \in Nat /\ c[s \ {Least(s)}] >= m * k
      BY <3>2
    <3>4. count[Least(s)] \in Nat /\ count[Least(s)] >= k
      BY <3>2
    <3>5. c[s] = count[Least(s)] + c[s \ {Least(s)}]
      BY <3>1, <1>5
    <3>6. (m + 1) * k = m * k + k /\ m * k \in Nat
      OBVIOUS
    <3> QED
      BY <3>3, <3>4, <3>5, <3>6
  <2> QED
    BY <2>1
<1> HIDE DEF S
<1>8. S = Nat
  <2>1. S \in SUBSET Nat
    BY DEF S
  <2> QED
    BY <1>6, <1>7, <2>1, NatSet
<1>9. Cardinality(W) \in S /\ W \in SUBSET W
  BY <1>8, IdsFinite
<1> QED
  BY <1>1, <1>9 DEF S
-----------------------------------------------------------------------------
\* Workers that are not created yet have no connection, are not draining, and
\* none is held.
Fresh ==
    /\ \A w \in Ids : w > lastId => count[w] = 0 /\ w \notin draining
    /\ held \in Ids => held <= lastId

LEMMA FreshInductive == /\ Init => Fresh
                        /\ PoolInv /\ Places /\ Fresh /\ [Next]_vars => Fresh'
<1>1. Init => Fresh
  BY LoopAssumption DEF Init, Fresh
<1>2. ASSUME PoolInv, Places, Fresh, [Next]_vars PROVE Fresh'
  <2>t. /\ workers \in SUBSET Ids /\ count \in [Ids -> Nat]
        /\ lastId \in 0 .. MaxWorkerId /\ workers \subseteq 1 .. lastId
        /\ Ids \subseteq Nat
        /\ \A w \in Ids : w > lastId => count[w] = 0 /\ w \notin draining
        /\ held \in Ids => held <= lastId
    BY <1>2, PoolAssumption DEF PoolInv, TypeOK, Places, Fresh, Ids
  <2>h. ASSUME NEW W \in SUBSET Ids, Hold(W), held' \in Ids
        PROVE  held' \in W
    <3>1. W = {} => held' = MainLoop
      BY <2>h DEF Hold
    <3>2. W # {} => held' \in W
      BY <2>h, <2>t, LeastLoadedIn DEF Hold
    <3> QED
      BY <2>h, <3>1, <3>2, LoopAssumption
  <2>1. CASE Run
    <3>1. /\ lastId' = MinThreads /\ UNCHANGED <<held, count, draining>>
          /\ mainPc = "init"
      BY <2>1 DEF Run
    <3>2. lastId = 0
      BY <3>1, <1>2 DEF Places
    <3> QED
      BY <2>t, <3>1, <3>2, PoolAssumption DEF Fresh, Ids
  <2>2. CASE Take \/ TakeUndrained
    <3>1. /\ UNCHANGED <<lastId, count>> /\ draining' \subseteq draining
          /\ \E W \in SUBSET workers : Hold(W)
      <4>1. CASE Take
        BY <4>1 DEF Take, Hold, poolVars, Available
      <4>2. CASE TakeUndrained
        BY <4>2 DEF TakeUndrained, Hold
      <4> QED
        BY <2>2, <4>1, <4>2
    <3>2. held' \in Ids => held' \in workers
      BY <3>1, <2>h, <2>t
    <3>3. held' \in Ids => held' <= lastId'
      BY <3>1, <3>2, <2>t
    <3>4. \A w \in Ids : w > lastId' => count'[w] = 0 /\ w \notin draining'
      BY <3>1, <2>t
    <3> QED
      BY <3>3, <3>4 DEF Fresh
  <2>3. CASE TakeAdded
    <3>1. /\ lastId' = lastId + 1 /\ workers' = workers \cup {lastId + 1}
          /\ lastId < MaxWorkerId /\ UNCHANGED <<count, draining>>
          /\ Hold(workers' \ draining)
      BY <2>3 DEF TakeAdded, Hold
    <3>2. lastId + 1 \in Ids /\ lastId \in Nat
      BY <2>t, <3>1, PoolAssumption DEF Ids
    <3>3. workers' \ draining \in SUBSET Ids
      BY <2>t, <3>1, <3>2
    <3>4. held' \in Ids => held' \in workers'
      BY <3>1, <3>3, <2>h
    <3>5. held' \in Ids => held' <= lastId'
      BY <3>1, <3>2, <3>4, <2>t
    <3>6. \A w \in Ids : w > lastId' => count'[w] = 0 /\ w \notin draining'
      BY <3>1, <3>2, <2>t
    <3> QED
      BY <3>5, <3>6 DEF Fresh
  <2>4. CASE OpenConnection
    <3>1. /\ count' = [count EXCEPT ![held] = @ + 1] /\ held \in Ids
          /\ held' = NoLoop /\ UNCHANGED <<lastId, draining>>
      BY <2>4 DEF OpenConnection, poolVars
    <3> QED
      BY <2>t, <3>1, LoopAssumption DEF Fresh
  <2>5. CASE \E w \in Ids : CloseConnection(w)
    <3>1. PICK w \in Ids : CloseConnection(w)
      BY <2>5
    <3>2. /\ count[w] > 0 /\ count' = [count EXCEPT ![w] = @ - 1]
          /\ UNCHANGED <<held, lastId, draining>>
      BY <3>1 DEF CloseConnection, poolVars, mainVars
    <3> QED
      BY <2>t, <3>2 DEF Fresh
  <2>6. CASE \/ MainStops \/ Reclaim \/ ManagerRequestStop
             \/ ManagerJoinWorker \/ ManagerStops
    BY <2>6, <2>t DEF MainStops, Stop, JoinManager, RequestStop, JoinWorker,
       Reclaim, ManagerRequestStop, ManagerJoinWorker, ManagerStops, poolVars,
       mainVars, Fresh
  <2>8. CASE Balance
    <3>1. /\ UNCHANGED <<held, lastId, count>>
          /\ \/ draining' = draining
             \/ /\ Available # {}
                /\ draining' = draining \cup {LeastLoaded(Available)}
      BY <2>8 DEF Balance, mainVars
    <3>2. Available \in SUBSET Ids /\ Available \subseteq workers
      BY <2>t DEF Available
    <3>3. draining' \subseteq draining \cup workers
      <4>1. Available # {} => LeastLoaded(Available) \in Available
        BY <3>2, <2>t, LeastLoadedIn
      <4> QED
        BY <3>1, <3>2, <4>1
    <3> QED
      BY <2>t, <3>1, <3>3 DEF Fresh
  <2>7. CASE \/ \E w \in Ids : WorkerRuns(w) \/ WorkerReturns(w)
             \/ UNCHANGED vars
    BY <2>7, <2>t DEF WorkerRuns, WorkerReturns, vars, poolVars, mainVars, Fresh
  <2> QED
    BY <1>2, <2>1, <2>2, <2>3, <2>4, <2>5, <2>6, <2>7, <2>8
       DEF Next, Main, Manager, Worker
<1> QED
  BY <1>1, <1>2

\* A worker is marked when it has less than ScaleDown connections, and may
\* after that get at most the one of the main thread that is holding it.
DrainedLow ==
    \A w \in draining :
        /\ count[w] <= ScaleDown
        /\ mainPc = "holding" /\ held = w => count[w] < ScaleDown

\* If the load is low, the least loaded worker has less than ScaleDown.
LEMMA LeastOfLow ==
  ASSUME PoolInv, LowLoad
  PROVE  Available # {} => count[LeastLoaded(Available)] < ScaleDown
<1> SUFFICES ASSUME Available # {}, count[LeastLoaded(Available)] >= ScaleDown
             PROVE  FALSE
  <2>1. Available \in SUBSET Ids /\ count \in [Ids -> Nat]
    BY DEF PoolInv, TypeOK, Available
  <2>2. Available # {} => count[LeastLoaded(Available)] \in Nat
    BY <2>1, LeastLoadedIn
  <2> QED
    BY <2>2, PoolAssumption
<1>1. Available \in SUBSET Ids /\ count \in [Ids -> Nat]
  BY DEF PoolInv, TypeOK, Available
<1>2. \A w \in Available : count[w] >= ScaleDown
  <2>1. LeastLoaded(Available) \in Available
    BY <1>1, LeastLoadedIn
  <2>2. \A w \in Available : count[LeastLoaded(Available)] <= count[w]
    BY <1>1, LeastLoadedLeast
  <2> QED
    BY <1>1, <2>1, <2>2, PoolAssumption
<1>3. Total(Available) \in Nat /\ Total(Available) >= Cardinality(Available) * ScaleDown
  BY <1>1, <1>2, TotalAtLeast, PoolAssumption
<1>4. Total(Available) <= (Cardinality(Available) - 1) * ScaleDown
  BY DEF LowLoad
<1>5. Cardinality(Available) \in Nat
  BY <1>1, IdsFinite
<1>6. ASSUME NEW n \in Nat, NEW t \in Nat, NEW k \in Nat \ {0},
             t >= n * k, t <= (n - 1) * k
      PROVE  FALSE
  <2>1. (n - 1) * k = n * k - k /\ n * k \in Nat
    OBVIOUS
  <2> QED
    BY <1>6, <2>1
<1> QED
  BY <1>3, <1>4, <1>5, <1>6, PoolAssumption

LEMMA DrainedInductive ==
  /\ Init => DrainedLow
  /\ PoolInv /\ DrainedLow /\ [Next]_vars => DrainedLow'
<1>1. Init => DrainedLow
  BY DEF Init, DrainedLow
<1>2. ASSUME PoolInv, DrainedLow, [Next]_vars PROVE DrainedLow'
  <2>t. /\ workers \in SUBSET Ids /\ draining \in SUBSET Ids
        /\ count \in [Ids -> Nat]
        /\ lowLoad \in Nat
        /\ Available \in SUBSET Ids
    BY <1>2, PoolAssumption DEF PoolInv, TypeOK, Available
  <2>d. \A w \in draining :
            /\ count[w] <= ScaleDown
            /\ mainPc = "holding" /\ held = w => count[w] < ScaleDown
    BY <1>2 DEF DrainedLow
  <2>h. ASSUME NEW W \in SUBSET Ids, Hold(W)
        PROVE  (W # {} => held' \in W) /\ (W = {} => held' \notin Ids)
               /\ count' = count
    BY <2>h, <2>t, LeastLoadedIn, LoopAssumption DEF Hold
  <2>1. CASE Take \/ TakeUndrained
    <3>1. /\ draining' \subseteq draining /\ count' = count
          /\ held' \notin draining'
      <4>1. CASE Take
        <5>1. Hold(Available) /\ draining' = draining
          BY <4>1 DEF Take, poolVars
        <5> QED
          BY <5>1, <2>h, <2>t DEF Available
      <4>2. CASE TakeUndrained
        <5>1. Hold(workers \ draining') /\ draining' \subseteq draining
          BY <4>2 DEF TakeUndrained
        <5> QED
          BY <5>1, <2>h, <2>t
      <4> QED
        BY <2>1, <4>1, <4>2
    <3> QED
      BY <3>1, <2>d DEF DrainedLow
  <2>2. CASE TakeAdded
    <3>1. /\ workers' = workers \cup {lastId + 1} /\ lastId + 1 \in Ids
          /\ draining' = draining /\ Hold(workers' \ draining)
      BY <2>2, <1>2, PoolAssumption DEF TakeAdded, PoolInv, TypeOK, Ids
    <3>2. held' \notin draining' /\ count' = count
      BY <3>1, <2>h, <2>t
    <3> QED
      BY <3>1, <3>2, <2>d DEF DrainedLow
  <2>3. CASE OpenConnection
    <3>1. /\ mainPc = "holding" /\ held \in Ids /\ mainPc' = "ready"
          /\ count' = [count EXCEPT ![held] = @ + 1] /\ draining' = draining
      BY <2>3 DEF OpenConnection, poolVars
    <3> QED
      BY <3>1, <2>d, <2>t, PoolAssumption DEF DrainedLow
  <2>4. CASE Balance
    <3>1. UNCHANGED <<mainPc, held, count>>
      BY <2>4 DEF Balance, mainVars
    <3>2. ASSUME NEW w \in draining', w \notin draining
          PROVE  count[w] < ScaleDown
      <4>1. Available # {} /\ w = LeastLoaded(Available)
        BY <2>4, <3>2 DEF Balance
      <4>2. LowLoad
        <5>1. SUFFICES ASSUME ~LowLoad PROVE FALSE
          OBVIOUS
        <5>2. ~(0 >= ScaleDownDelay)
          BY PoolAssumption
        <5>3. draining' = draining
          BY <2>4, <5>1, <5>2 DEF Balance
        <5> QED
          BY <3>2, <5>3
      <4> QED
        BY <1>2, <4>1, <4>2, LeastOfLow
    <3>3. ASSUME NEW w \in draining'
          PROVE  /\ count[w] <= ScaleDown
                 /\ mainPc = "holding" /\ held = w => count[w] < ScaleDown
      <4>1. w \in Ids
        BY <2>4, <2>t, LeastLoadedIn DEF Balance
      <4> QED
        BY <4>1, <3>2, <2>d, <2>t, PoolAssumption
    <3> QED
      BY <3>1, <3>3 DEF DrainedLow
  <2>5. CASE \E w \in Ids : CloseConnection(w)
    <3>1. PICK w \in Ids : CloseConnection(w)
      BY <2>5
    <3>2. /\ count[w] > 0 /\ count' = [count EXCEPT ![w] = @ - 1]
          /\ UNCHANGED <<held, mainPc, draining>>
      BY <3>1 DEF CloseConnection, poolVars, mainVars
    <3> QED
      BY <2>t, <2>d, <3>2, PoolAssumption DEF DrainedLow
  <2>6. CASE Run \/ MainStops
    <3>1. mainPc' # "holding" /\ UNCHANGED <<draining, count>>
      BY <2>6 DEF Run, MainStops, Stop, JoinManager, RequestStop, JoinWorker,
         poolVars
    <3> QED
      BY <3>1, <2>d DEF DrainedLow
  <2>7. CASE \/ Reclaim \/ ManagerRequestStop \/ ManagerJoinWorker
             \/ ManagerStops
    BY <2>7, <2>d DEF Reclaim, ManagerRequestStop, ManagerJoinWorker,
       ManagerStops, poolVars, mainVars, DrainedLow
  <2>8. CASE \/ \E w \in Ids : WorkerRuns(w) \/ WorkerReturns(w)
             \/ UNCHANGED vars
    BY <2>8, <2>d DEF WorkerRuns, WorkerReturns, vars, poolVars, mainVars,
       DrainedLow
  <2> QED
    BY <1>2, <2>1, <2>2, <2>3, <2>4, <2>5, <2>6, <2>7, <2>8
       DEF Next, Main, Manager, Worker
<1> QED
  BY <1>1, <1>2

TakeInv == PoolInv /\ Places /\ Fresh /\ DrainedLow

\* Only with all the workers there may be, none of them draining, is a
\* connection given to one that has ScaleUp of them: a worker that was drained
\* has room, and so has a new one (ThreadPool.cpp:127-155, 202).
THEOREM ScaleUpIsHonored == Spec => ScaleUpHonored
<1> DEFINE Honored == mainPc = "ready" /\ mainPc' = "holding"
                        /\ held' \in Ids /\ count[held'] >= ScaleUp
                        => Cardinality(workers' \ draining') = MaxThreads
<1>1. Init => TakeInv
  BY TypeInductive, ShapeInductive, BoundsInductive, PlacesInductive,
     FreshInductive, DrainedInductive DEF TakeInv, PoolInv
<1>2. TakeInv /\ [Next]_vars => TakeInv'
  BY TypeInductive, ShapeInductive, BoundsInductive, PlacesInductive,
     FreshInductive, DrainedInductive DEF TakeInv, PoolInv
<1>3. ASSUME TakeInv, [Next]_vars PROVE [Honored]_vars
  <2> SUFFICES ASSUME Next, mainPc = "ready", mainPc' = "holding",
                      held' \in Ids, count[held'] >= ScaleUp
               PROVE  Cardinality(workers' \ draining') = MaxThreads
    BY <1>3
  <2>t. /\ workers \in SUBSET Ids /\ draining \in SUBSET Ids
        /\ count \in [Ids -> Nat] /\ Available \in SUBSET Ids
        /\ lastId \in 0 .. MaxWorkerId
    BY <1>3 DEF TakeInv, PoolInv, TypeOK, Available
  <2>b. /\ Cardinality(workers) <= MaxThreads /\ Cardinality(workers) \in Nat
        /\ Cardinality(Available) >= MinThreads /\ Cardinality(Available) \in Nat
        /\ Cardinality(Available) <= Cardinality(workers)
    <3>1. /\ Cardinality(workers) <= MaxThreads
          /\ Cardinality(Available) >= MinThreads
      BY <1>3 DEF TakeInv, PoolInv, PoolBounds, IsStart
    <3>2. Cardinality(Available) <= Cardinality(workers)
      BY <2>t, IdsFinite, FS_Subset DEF Available
    <3> QED
      BY <3>1, <3>2, <2>t, IdsFinite
  \* The worker taken is one with the fewest connections.
  <2>h. ASSUME NEW W \in SUBSET Ids, Hold(W), NEW v \in W
        PROVE  count[held'] <= count[v]
    BY <2>h, <2>t, LeastLoadedLeast DEF Hold
  <2>1. CASE Take
    <3>1. ~NeedsWorker /\ UNCHANGED <<workers, draining>> /\ Hold(Available)
      BY <2>1 DEF Take, poolVars
    <3>2. Available # {}
      BY <2>b, FS_EmptySet, PoolAssumption
    <3>3. held' = LeastLoaded(Available)
      BY <3>1, <3>2 DEF Hold
    <3>4. ~(Cardinality(Available) < MaxThreads)
      BY <3>1, <3>2, <3>3 DEF NeedsWorker
    <3>5. workers' \ draining' = Available
      BY <3>1 DEF Available
    <3> QED
      BY <3>4, <3>5, <2>b, PoolAssumption
  <2>2. CASE TakeUndrained
    <3>1. /\ draining \cap workers # {}
          /\ draining' = draining \ {Min(draining \cap workers)}
          /\ Hold(workers \ draining')
      BY <2>2 DEF TakeUndrained
    <3>2. PICK d \in draining \cap workers : d = Min(draining \cap workers)
      BY <3>1, <2>t, MinIn
    <3>3. d \in workers \ draining' /\ count[d] <= ScaleDown
      BY <3>1, <3>2, <1>3 DEF TakeInv, DrainedLow
    <3>4. count[held'] <= count[d]
      BY <3>1, <3>3, <2>h, <2>t
    <3> QED
      BY <3>3, <3>4, <2>t, PoolAssumption
  <2>3. CASE TakeAdded
    <3>1. /\ workers' = workers \cup {lastId + 1} /\ lastId < MaxWorkerId
          /\ draining \cap workers = {} /\ draining' = draining
          /\ Hold(workers' \ draining)
      BY <2>3 DEF TakeAdded
    <3>2. lastId + 1 \in Ids /\ lastId + 1 > lastId
      BY <3>1, <2>t, PoolAssumption DEF Ids
    <3>3. count[lastId + 1] = 0
      BY <3>2, <1>3 DEF TakeInv, Fresh
    <3>4. lastId + 1 \notin draining
      BY <1>3, <3>2 DEF TakeInv, Fresh
    <3>5. count[held'] <= count[lastId + 1]
      BY <3>1, <3>2, <3>4, <2>h, <2>t
    <3> QED
      BY <3>3, <3>5, <2>t, PoolAssumption
  <2> QED
    BY <2>1, <2>2, <2>3 DEF Next, Main, MainStops, Manager, Worker, Run,
       OpenConnection, Stop, JoinManager, RequestStop, JoinWorker, Reclaim, Balance, ManagerRequestStop, ManagerJoinWorker, ManagerStops,
       WorkerRuns, WorkerReturns, CloseConnection, mainVars
<1> QED
  BY <1>1, <1>2, <1>3, PTL DEF Spec, ScaleUpHonored
=============================================================================
