-------------------------- MODULE TcpServerProofs --------------------------
(***************************************************************************)
(* What holds of every TcpServer, whatever the connections, the loops and  *)
(* the limit: the limit is kept, admission is exact, and the registry      *)
(* misses no live connection.                                              *)
(*                                                                         *)
(* The limit is checked against a counter that other threads change, that  *)
(* lags behind while a connection is constructed and that may even have    *)
(* wrapped.  CounterInv says by how much it is wrong at each point of the  *)
(* main thread, and that it is right where it is read.                     *)
(***************************************************************************)
EXTENDS TcpServer, FiniteSetTheorems, TLAPS

\* The connections that ServerMetrics should count.
Counted == {c \in Connections : conn[c] \in {"posted", "open", "unregistered"}}

CounterInv == active = IF mainPc = "posted" THEN Decrement(Cardinality(Counted))
                                            ELSE Cardinality(Counted)

\* The connection under construction.
ConstructionInv ==
    /\ mainPc \in {"take", "opened"} =>
         current \in Connections /\ conn[current] = "accepted"
    /\ mainPc \in {"posted", "counted"} =>
         current \in Connections /\ conn[current] \notin {"none", "waiting", "accepted", "rejected"}
    /\ \A c \in Connections :
         conn[c] = "accepted" => mainPc \in {"take", "opened"} /\ c = current

CapInv == TypeOK /\ ConstructionInv /\ CounterInv /\ ConnectionCap

LEMMA SubsetsFinite ==
  ASSUME NEW S \in SUBSET Connections
  PROVE  /\ IsFiniteSet(S)
         /\ Cardinality(S) \in Nat
         /\ Cardinality(S) < Wrap
<1>1. IsFiniteSet(S) /\ Cardinality(S) <= Cardinality(Connections)
  BY ServerAssumption, FS_Subset
<1>2. Cardinality(S) \in Nat /\ Cardinality(Connections) \in Nat
  BY <1>1, ServerAssumption, FS_CardinalityType
<1> QED
  BY <1>1, <1>2, ServerAssumption

\* One more, one less.
LEMMA SetGrows ==
  ASSUME NEW S \in SUBSET Connections, NEW c \in Connections, c \notin S
  PROVE  Cardinality(S \cup {c}) = Cardinality(S) + 1
  BY SubsetsFinite, FS_AddElement

LEMMA SetShrinks ==
  ASSUME NEW S \in SUBSET Connections, NEW c \in S
  PROVE  Cardinality(S \ {c}) = Cardinality(S) - 1 /\ Cardinality(S) > 0
<1>1. Cardinality(S \ {c}) = Cardinality(S) - 1
  BY SubsetsFinite, FS_RemoveElement
<1>2. Cardinality(S \ {c}) \in Nat /\ Cardinality(S) \in Nat
  BY SubsetsFinite
<1> QED
  BY <1>1, <1>2
-----------------------------------------------------------------------------
LEMMA TypeInductive == /\ Init => TypeOK
                       /\ TypeOK /\ ConstructionInv /\ [Next]_vars => TypeOK'
<1>1. Init => TypeOK
  <2>1. Init => signalled \in BOOLEAN
    BY Zenon DEF Init
  <2>2. Init => active \in 0 .. Wrap - 1
    <3>1. Cardinality(Connections) \in Nat
      BY ServerAssumption, FS_CardinalityType
    <3> QED
      BY <3>1, ServerAssumption DEF Init
  <2> QED
    BY <2>1, <2>2 DEF Init, TypeOK
<1>2. TypeOK /\ ConstructionInv /\ [Next]_vars => TypeOK'
  <2> SUFFICES ASSUME TypeOK, ConstructionInv, [Next]_vars PROVE TypeOK'
    OBVIOUS
  <2> USE DEF TypeOK
  <2>1. ASSUME NEW c \in Connections, Connect(c) PROVE TypeOK'
    BY <2>1 DEF Connect
  <2>2. CASE Signal
    <3>1. signalled' \in BOOLEAN
      BY <2>2, Zenon DEF Signal
    <3> QED
      BY <2>2, <3>1 DEF Signal
  <2>3. CASE ListenReady \/ AcceptReturns
    BY <2>3 DEF ListenReady, AcceptReturns
  <2>4. CASE HandleSignalPipe
    <3>1. signalled' \in BOOLEAN
      BY <2>4, Zenon DEF HandleSignalPipe
    <3> QED
      BY <2>4, <3>1 DEF HandleSignalPipe
  <2>5. ASSUME NEW c \in Connections, Admit(c) PROVE TypeOK'
    BY <2>5 DEF Admit, Accept, Reject, Drop
  <2>6. ASSUME NEW l \in Loops, OpenOnLoop(l) PROVE TypeOK'
    <3>1. count' \in [Loops -> Nat]
      <4>1. count' = [count EXCEPT ![l] = count[l] + 1] /\ count[l] \in Nat
        BY <2>6 DEF OpenOnLoop
      <4> QED
        BY <4>1
    <3> QED
      BY <2>6, <3>1 DEF OpenOnLoop
  <2>7. CASE PostAdd
    BY <2>7 DEF PostAdd
  <2>8. CASE CountOpened
    <3>1. active' \in 0 .. Wrap - 1
      BY <2>8, ServerAssumption DEF CountOpened, Increment
    <3> QED
      BY <2>8, <3>1 DEF CountOpened
  <2>9. CASE Register
    BY <2>9 DEF Register, ConstructionInv
  <2>10. ASSUME NEW c \in Connections, WorkerAdds(c) \/ Unregister(c)
         PROVE  TypeOK'
    BY <2>10 DEF WorkerAdds, Unregister
  <2>11. ASSUME NEW c \in Connections, CountClosed(c) PROVE TypeOK'
    <3>1. active' \in 0 .. Wrap - 1
      BY <2>11, ServerAssumption DEF CountClosed, Decrement
    <3> QED
      BY <2>11, <3>1 DEF CountClosed
  <2>12. ASSUME NEW c \in Connections, LeaveLoop(c) PROVE TypeOK'
    <3>1. count' \in [Loops -> Nat]
      <4>1. count' = [count EXCEPT ![loopOf[c]] =
                        IF count[loopOf[c]] > 0 THEN count[loopOf[c]] - 1
                                                ELSE count[loopOf[c]]]
        BY <2>12 DEF LeaveLoop
      <4>2. CASE loopOf[c] \in Loops
        <5>1. count[loopOf[c]] \in Nat
          BY <4>2
        <5> QED
          BY <4>1, <4>2, <5>1
      <4>3. CASE loopOf[c] \notin Loops
        BY <4>1, <4>3
      <4> QED
        BY <4>2, <4>3
    <3> QED
      BY <2>12, <3>1 DEF LeaveLoop
  <2>13. ASSUME NEW c \in Connections, FreeChannel(c) PROVE TypeOK'
    BY <2>13 DEF FreeChannel
  <2>14. CASE UNCHANGED vars
    BY <2>14 DEF vars
  <2> QED
    BY <2>1, <2>2, <2>3, <2>4, <2>5, <2>6, <2>7, <2>8, <2>9, <2>10, <2>11,
       <2>12, <2>13, <2>14 DEF Next, Main, Construct, Worker, Destructor
<1> QED
  BY <1>1, <1>2

LEMMA ConstructionInductive ==
  /\ Init => ConstructionInv
  /\ TypeOK /\ ConstructionInv /\ [Next]_vars => ConstructionInv'
<1>1. Init => ConstructionInv
  BY DEF Init, ConstructionInv
<1>2. TypeOK /\ ConstructionInv /\ [Next]_vars => ConstructionInv'
  <2> SUFFICES ASSUME TypeOK, ConstructionInv, [Next]_vars
               PROVE  ConstructionInv'
    OBVIOUS
  <2> USE DEF TypeOK, ConstructionInv
  <2>1. ASSUME NEW c \in Connections, Connect(c) PROVE ConstructionInv'
    BY <2>1 DEF Connect
  <2>2. CASE Signal \/ ListenReady \/ AcceptReturns \/ HandleSignalPipe
    BY <2>2 DEF Signal, ListenReady, AcceptReturns, HandleSignalPipe
  <2>3. ASSUME NEW c \in Connections, Admit(c) PROVE ConstructionInv'
    BY <2>3 DEF Admit, Accept, Reject, Drop, Waiting
  <2>4. ASSUME NEW l \in Loops, OpenOnLoop(l) PROVE ConstructionInv'
    BY <2>4 DEF OpenOnLoop
  <2>5. CASE PostAdd \/ CountOpened \/ Register
    BY <2>5 DEF PostAdd, CountOpened, Register
  <2>6. ASSUME NEW c \in Connections, Worker(c) PROVE ConstructionInv'
    BY <2>6 DEF Worker, Destructor, WorkerAdds, Unregister, CountClosed,
                LeaveLoop, FreeChannel
  <2>7. CASE UNCHANGED vars
    BY <2>7 DEF vars
  <2> QED
    BY <2>1, <2>2, <2>3, <2>4, <2>5, <2>6, <2>7 DEF Next, Main, Construct
<1> QED
  BY <1>1, <1>2

\* Types: no counter leaves the range of its type.
THEOREM TypeCorrect == Spec => []TypeOK
<1>1. Init => TypeOK /\ ConstructionInv
  BY TypeInductive, ConstructionInductive
<1>2. TypeOK /\ ConstructionInv /\ [Next]_vars => (TypeOK /\ ConstructionInv)'
  BY TypeInductive, ConstructionInductive
<1> QED
  BY <1>1, <1>2, PTL DEF Spec
-----------------------------------------------------------------------------
\* CounterInv and the limit are inductive.
LEMMA CapInductive == /\ Init => CapInv
                      /\ CapInv /\ [Next]_vars => CapInv'
<1>1. Init => CapInv
  <2> SUFFICES ASSUME Init PROVE CapInv
    OBVIOUS
  <2>1. Counted = {} /\ Served = {}
    BY DEF Init, Counted, Served
  <2>2. Cardinality({}) = 0
    BY FS_EmptySet
  <2>3. CounterInv /\ ConnectionCap
    BY <2>1, <2>2, ServerAssumption DEF Init, CounterInv, ConnectionCap
  <2> QED
    BY <2>3, TypeInductive, ConstructionInductive DEF CapInv
<1>2. CapInv /\ [Next]_vars => CapInv'
  <2> SUFFICES ASSUME CapInv, [Next]_vars PROVE CapInv'
    OBVIOUS
  <2>t. TypeOK /\ TypeOK' /\ ConstructionInv /\ ConstructionInv'
    BY TypeInductive, ConstructionInductive DEF CapInv
  <2>n. /\ Counted \in SUBSET Connections /\ Served \in SUBSET Connections
        /\ Cardinality(Counted) \in Nat /\ Cardinality(Counted) < Wrap
        /\ Cardinality(Served) \in Nat
    <3>1. Counted \in SUBSET Connections /\ Served \in SUBSET Connections
      BY DEF Counted, Served
    <3> QED
      BY <3>1, SubsetsFinite
  <2>c. CounterInv /\ ConnectionCap
    BY DEF CapInv
  \* A step that leaves the counter and both sets alone.
  <2>s. ASSUME Counted' = Counted, Served' = Served, active' = active,
               mainPc' = "posted" <=> mainPc = "posted"
        PROVE  CounterInv' /\ ConnectionCap'
    BY <2>s, <2>c DEF CounterInv, ConnectionCap, Decrement
  <2>1. ASSUME NEW c \in Connections, Connect(c)
        PROVE  CounterInv' /\ ConnectionCap'
    <3>1. Counted' = Counted /\ Served' = Served
      BY <2>1, <2>t DEF Connect, Counted, Served, TypeOK
    <3> QED
      BY <2>1, <3>1, <2>s DEF Connect
  <2>2. ASSUME Signal \/ ListenReady \/ AcceptReturns \/ HandleSignalPipe \/ Register
        PROVE  CounterInv' /\ ConnectionCap'
    <3>1. Counted' = Counted /\ Served' = Served
      BY <2>2 DEF Signal, ListenReady, AcceptReturns, HandleSignalPipe,
                  Register, Counted, Served
    <3> QED
      BY <2>2, <3>1, <2>s DEF Signal, ListenReady, AcceptReturns,
                              HandleSignalPipe, Register
  <2>3. ASSUME NEW c \in Connections, Accept(c)
        PROVE  CounterInv' /\ ConnectionCap'
    <3>1. Served = Counted
      BY <2>3, <2>t DEF Accept, ConstructionInv, Served, Counted
    <3>2. active = Cardinality(Counted) /\ active < MaxConnections
      BY <2>3, <2>c, <2>n, ServerAssumption DEF Accept, CounterInv, Full
    <3>3. Counted' = Counted /\ Served' = Served \cup {c} /\ c \notin Served
      BY <2>3, <2>t DEF Accept, Waiting, Served, Counted, TypeOK
    <3>4. Cardinality(Served') = Cardinality(Served) + 1
      BY <3>3, <2>n, SetGrows
    <3>5. active' = active /\ mainPc' = "take"
      BY <2>3 DEF Accept
    <3> QED
      BY <3>1, <3>2, <3>3, <3>4, <3>5, <2>n, ServerAssumption
         DEF CounterInv, ConnectionCap
  <2>4. ASSUME NEW c \in Connections, Reject(c) \/ Drop(c)
        PROVE  CounterInv' /\ ConnectionCap'
    <3>1. Counted' = Counted /\ Served' = Served
      BY <2>4, <2>t DEF Reject, Drop, Waiting, Counted, Served, TypeOK
    <3> QED
      BY <2>4, <3>1, <2>s DEF Reject, Drop
  <2>5. ASSUME NEW l \in Loops, OpenOnLoop(l)
        PROVE  CounterInv' /\ ConnectionCap'
    <3>1. Counted' = Counted /\ Served' = Served
      BY <2>5 DEF OpenOnLoop, Counted, Served
    <3> QED
      BY <2>5, <3>1, <2>s DEF OpenOnLoop
  <2>6. ASSUME PostAdd
        PROVE  CounterInv' /\ ConnectionCap'
    <3>1. /\ current \in Connections /\ current \notin Counted
          /\ Counted' = Counted \cup {current} /\ Served' = Served
      BY <2>6, <2>t DEF PostAdd, ConstructionInv, Counted, Served, TypeOK
    <3>2. Cardinality(Counted') = Cardinality(Counted) + 1
      BY <3>1, <2>n, SetGrows
    <3>3. active' = active /\ mainPc = "opened" /\ mainPc' = "posted"
      BY <2>6 DEF PostAdd
    <3>4. active = Cardinality(Counted)
      BY <3>3, <2>c DEF CounterInv
    <3> QED
      BY <3>1, <3>2, <3>3, <3>4, <2>n, <2>c
         DEF CounterInv, ConnectionCap, Decrement
  <2>7. ASSUME CountOpened
        PROVE  CounterInv' /\ ConnectionCap'
    <3>1. Counted' = Counted /\ Served' = Served
      BY <2>7 DEF CountOpened, Counted, Served
    <3>2. active = Decrement(Cardinality(Counted)) /\ mainPc' = "counted"
      BY <2>7, <2>c DEF CountOpened, CounterInv
    <3>3. active' = Cardinality(Counted)
      BY <2>7, <3>2, <2>n, ServerAssumption DEF CountOpened, Increment, Decrement
    <3> QED
      BY <3>1, <3>2, <3>3, <2>c DEF CounterInv, ConnectionCap
  <2>8. ASSUME NEW c \in Connections, WorkerAdds(c) \/ Unregister(c)
        PROVE  CounterInv' /\ ConnectionCap'
    <3>1. Counted' = Counted /\ Served' = Served
      BY <2>8, <2>t DEF WorkerAdds, Unregister, Counted, Served, TypeOK
    <3> QED
      BY <2>8, <3>1, <2>s DEF WorkerAdds, Unregister
  <2>9. ASSUME NEW c \in Connections, CountClosed(c)
        PROVE  CounterInv' /\ ConnectionCap'
    <3>1. /\ c \in Counted /\ c \in Served
          /\ Counted' = Counted \ {c} /\ Served' = Served \ {c}
      BY <2>9, <2>t DEF CountClosed, Counted, Served, TypeOK
    <3>2. /\ Cardinality(Counted') = Cardinality(Counted) - 1
          /\ Cardinality(Counted) > 0
          /\ Cardinality(Served') = Cardinality(Served) - 1
      BY <3>1, <2>n, SetShrinks
    <3>3. active' = Decrement(active) /\ mainPc' = mainPc
      BY <2>9 DEF CountClosed
    <3>4. CounterInv'
      BY <3>2, <3>3, <2>c, <2>n, ServerAssumption DEF CounterInv, Decrement
    <3> QED
      BY <3>2, <3>4, <2>c, <2>n, ServerAssumption DEF ConnectionCap
  <2>10. ASSUME NEW c \in Connections, LeaveLoop(c) \/ FreeChannel(c)
         PROVE  CounterInv' /\ ConnectionCap'
    <3>1. Counted' = Counted /\ Served' = Served
      BY <2>10, <2>t DEF LeaveLoop, FreeChannel, Counted, Served, TypeOK
    <3> QED
      BY <2>10, <3>1, <2>s DEF LeaveLoop, FreeChannel
  <2>11. ASSUME UNCHANGED vars
        PROVE  CounterInv' /\ ConnectionCap'
    <3>1. Counted' = Counted /\ Served' = Served
      BY <2>11 DEF vars, Counted, Served
    <3> QED
      BY <2>11, <3>1, <2>s DEF vars
  <2>12. CounterInv' /\ ConnectionCap'
    BY <2>1, <2>2, <2>3, <2>4, <2>5, <2>6, <2>7, <2>8, <2>9, <2>10, <2>11
       DEF Next, Main, Construct, Admit, Worker, Destructor
  <2> QED
    BY <2>t, <2>12 DEF CapInv
<1> QED
  BY <1>1, <1>2

\* The limit on connections is kept, whatever the workers do between its check
\* and the counting (TcpServer.cpp:137, TcpConnection.cpp:73-75, 89).
THEOREM LimitKept == Spec => []ConnectionCap
<1>1. CapInv => ConnectionCap
  BY DEF CapInv
<1> QED
  BY <1>1, CapInductive, PTL DEF Spec

\* The main thread decides on a counter that is exact: no connection is
\* rejected while there is room (TcpServer.cpp:137-148).
THEOREM AdmissionDecided == Spec => AdmissionExact
<1>1. ASSUME CapInv, [Next]_vars, NEW c \in Connections, conn[c] = "waiting",
             conn'[c] \in {"accepted", "rejected"}
      PROVE  /\ conn'[c] = "accepted" => Cardinality(Served) < MaxConnections
             /\ conn'[c] = "rejected" => Cardinality(Served) = MaxConnections
  <2>t. TypeOK /\ ConstructionInv /\ CounterInv /\ ConnectionCap
    BY <1>1 DEF CapInv
  <2>1. Accept(c) \/ Reject(c)
    <3> USE <1>1, <2>t DEF TypeOK, ConstructionInv
    <3>1. ASSUME NEW d \in Connections, Connect(d) PROVE FALSE
      BY <3>1 DEF Connect
    <3>2. CASE Signal \/ ListenReady \/ AcceptReturns \/ HandleSignalPipe
               \/ CountOpened \/ Register \/ UNCHANGED vars
      BY <3>2 DEF Signal, ListenReady, AcceptReturns, HandleSignalPipe,
                  CountOpened, Register, vars
    <3>3. ASSUME NEW d \in Connections, Admit(d) PROVE Accept(c) \/ Reject(c)
      <4>1. d = c
        BY <3>3 DEF Admit, Accept, Reject, Drop
      <4>2. ~Drop(c)
        BY DEF Drop
      <4> QED
        BY <3>3, <4>1, <4>2 DEF Admit
    <3>4. ASSUME NEW l \in Loops, OpenOnLoop(l) PROVE FALSE
      BY <3>4 DEF OpenOnLoop
    <3>5. CASE PostAdd
      BY <3>5 DEF PostAdd
    <3>6. ASSUME NEW d \in Connections, Worker(d) PROVE FALSE
      BY <3>6 DEF Worker, Destructor, WorkerAdds, Unregister, CountClosed,
                  LeaveLoop, FreeChannel
    <3> QED
      BY <3>1, <3>2, <3>3, <3>4, <3>5, <3>6 DEF Next, Main, Construct
  <2>2. mainPc = "accept"
    BY <2>1 DEF Accept, Reject
  <2>3. Served = Counted
    BY <2>2, <2>t DEF ConstructionInv, Served, Counted
  <2>4. active = Cardinality(Served)
    BY <2>2, <2>3, <2>t DEF CounterInv
  <2>5. Cardinality(Served) \in Nat
    <3>1. Served \in SUBSET Connections
      BY DEF Served
    <3> QED
      BY <3>1, SubsetsFinite
  <2>6. CASE Accept(c)
    <3>1. conn'[c] = "accepted"
      BY <2>6, <1>1, <2>t DEF Accept, TypeOK
    <3> QED
      BY <2>6, <3>1, <2>4, <2>5, ServerAssumption DEF Accept, Full
  <2>7. CASE Reject(c)
    <3>1. conn'[c] = "rejected"
      BY <2>7, <1>1, <2>t DEF Reject, TypeOK
    <3> QED
      BY <2>7, <3>1, <2>4, <2>5, <2>t, ServerAssumption
         DEF Reject, Full, ConnectionCap
  <2> QED
    BY <2>1, <2>6, <2>7
<1> DEFINE Exact ==
      \A c \in Connections :
        /\ conn[c] = "waiting" /\ conn'[c] = "accepted"
             => Cardinality(Served) < MaxConnections
        /\ conn[c] = "waiting" /\ conn'[c] = "rejected"
             => Cardinality(Served) = MaxConnections
<1>2. CapInv /\ [Next]_vars => [Exact]_vars
  BY <1>1
<1>3. Spec => [][Exact]_vars
  BY <1>2, CapInductive, PTL DEF Spec
<1> QED
  BY <1>3 DEF AdmissionExact
-----------------------------------------------------------------------------
\* A live connection is in the registry or is the one under construction.
RegistryInv ==
    \A c \in Connections :
        conn[c] \in {"posted", "open"} =>
            c \in registry \/ (mainPc \in {"posted", "counted"} /\ c = current)

LEMMA RegistryInductive ==
  /\ Init => RegistryInv
  /\ TypeOK /\ RegistryInv /\ [Next]_vars => RegistryInv'
<1>1. Init => RegistryInv
  BY DEF Init, RegistryInv
<1>2. TypeOK /\ RegistryInv /\ [Next]_vars => RegistryInv'
  <2> SUFFICES ASSUME TypeOK, RegistryInv, [Next]_vars PROVE RegistryInv'
    OBVIOUS
  <2> USE DEF TypeOK, RegistryInv
  <2>1. ASSUME NEW c \in Connections, Connect(c) PROVE RegistryInv'
    BY <2>1 DEF Connect
  <2>2. CASE Signal \/ ListenReady \/ AcceptReturns \/ HandleSignalPipe
    BY <2>2 DEF Signal, ListenReady, AcceptReturns, HandleSignalPipe
  <2>3. ASSUME NEW c \in Connections, Admit(c) PROVE RegistryInv'
    BY <2>3 DEF Admit, Accept, Reject, Drop
  <2>4. ASSUME NEW l \in Loops, OpenOnLoop(l) PROVE RegistryInv'
    BY <2>4 DEF OpenOnLoop
  <2>5. CASE PostAdd \/ CountOpened \/ Register
    BY <2>5 DEF PostAdd, CountOpened, Register
  <2>6. ASSUME NEW c \in Connections, Worker(c) PROVE RegistryInv'
    BY <2>6 DEF Worker, Destructor, WorkerAdds, Unregister, CountClosed,
                LeaveLoop, FreeChannel
  <2>7. CASE UNCHANGED vars
    BY <2>7 DEF vars
  <2> QED
    BY <2>1, <2>2, <2>3, <2>4, <2>5, <2>6, <2>7 DEF Next, Main, Construct
<1> QED
  BY <1>1, <1>2

\* Outside of a construction the registry misses no live connection
\* (TcpServer.cpp:150-153, 298-308).
THEOREM RegistryMissesNone == Spec => []RegistryComplete
<1>1. Init => TypeOK /\ ConstructionInv /\ RegistryInv
  BY TypeInductive, ConstructionInductive, RegistryInductive
<1>2. TypeOK /\ ConstructionInv /\ RegistryInv /\ [Next]_vars
        => (TypeOK /\ ConstructionInv /\ RegistryInv)'
  BY TypeInductive, ConstructionInductive, RegistryInductive
<1>3. RegistryInv => RegistryComplete
  BY DEF RegistryInv, RegistryComplete
<1> QED
  BY <1>1, <1>2, <1>3, PTL DEF Spec
-----------------------------------------------------------------------------
\* A worker destroys one connection at a time.
OneByOne ==
    /\ mainPc = "opened" => loopOf[current] \in Loops
    /\ \A c \in Connections :
         conn[c] \in {"posted", "open", "unregistered", "uncounted", "left"} =>
            loopOf[c] \in Loops
    /\ \A c, d \in Connections :
         Dying(c) /\ Dying(d) /\ loopOf[c] = loopOf[d] => c = d

LEMMA OneByOneInductive ==
  /\ Init => OneByOne
  /\ TypeOK /\ ConstructionInv /\ OneByOne /\ [Next]_vars => OneByOne'
<1>1. Init => OneByOne
  BY DEF Init, OneByOne, Dying
<1>2. TypeOK /\ ConstructionInv /\ OneByOne /\ [Next]_vars => OneByOne'
  <2> SUFFICES ASSUME TypeOK, ConstructionInv, OneByOne, [Next]_vars
               PROVE  OneByOne'
    OBVIOUS
  <2> USE DEF TypeOK, OneByOne, Dying
  <2>1. ASSUME NEW c \in Connections, Connect(c) PROVE OneByOne'
    BY <2>1 DEF Connect
  <2>2. CASE Signal \/ ListenReady \/ AcceptReturns \/ HandleSignalPipe
    BY <2>2 DEF Signal, ListenReady, AcceptReturns, HandleSignalPipe
  <2>3. ASSUME NEW c \in Connections, Admit(c) PROVE OneByOne'
    BY <2>3 DEF Admit, Accept, Reject, Drop, Waiting
  <2>4. ASSUME NEW l \in Loops, OpenOnLoop(l) PROVE OneByOne'
    BY <2>4 DEF OpenOnLoop, ConstructionInv
  <2>5. CASE PostAdd \/ CountOpened \/ Register
    BY <2>5 DEF PostAdd, CountOpened, Register, ConstructionInv
  <2>6. ASSUME NEW c \in Connections, WorkerAdds(c) \/ Unregister(c)
        PROVE  OneByOne'
    BY <2>6 DEF WorkerAdds, Unregister, AtLarge
  <2>7. ASSUME NEW c \in Connections, Destructor(c) PROVE OneByOne'
    BY <2>7 DEF Destructor, CountClosed, LeaveLoop, FreeChannel
  <2>8. CASE UNCHANGED vars
    BY <2>8 DEF vars
  <2> QED
    BY <2>1, <2>2, <2>3, <2>4, <2>5, <2>6, <2>7, <2>8
       DEF Next, Main, Construct, Worker
<1> QED
  BY <1>1, <1>2

\* No more sockets are open than the limit and one for each worker: the
\* connections that are counted closed but whose socket is still open map one
\* to one to the workers that destroy them (TcpConnection.cpp:89-91).
THEOREM SocketsBounded == Spec => []SocketCap
<1>1. ASSUME CapInv, OneByOne PROVE SocketCap
  <2> DEFINE D == {c \in Connections : conn[c] \in {"uncounted", "left"}}
             f == [c \in D |-> loopOf[c]]
  <2>1. f \in Injection(D, Loops)
    <3>1. f \in [D -> Loops]
      BY <1>1 DEF OneByOne
    <3>2. \A a, b \in D : f[a] = f[b] => a = b
      BY <1>1 DEF OneByOne, Dying
    <3> QED
      BY <3>1, <3>2 DEF Injection, IsInjective
  <2>2. Cardinality(D) <= Cardinality(Loops)
    BY <2>1, ServerAssumption, FS_Injection
  <2>3. Sockets = Served \cup D /\ Served \cap D = {}
    BY DEF Sockets, Served
  <2>4. Served \in SUBSET Connections /\ D \in SUBSET Connections
    BY DEF Served
  <2>5. /\ IsFiniteSet(Served) /\ IsFiniteSet(D)
        /\ Cardinality(Served) \in Nat /\ Cardinality(D) \in Nat
    BY <2>4, SubsetsFinite
  <2>6. Cardinality(Sockets) = Cardinality(Served) + Cardinality(D)
    BY <2>3, <2>5, FS_Union, FS_EmptySet
  <2>7. Cardinality(Loops) \in Nat
    BY ServerAssumption, FS_CardinalityType
  <2>8. Cardinality(Served) <= MaxConnections
    BY <1>1 DEF CapInv, ConnectionCap
  <2> HIDE DEF D
  <2> QED
    BY <2>2, <2>5, <2>6, <2>7, <2>8, ServerAssumption DEF SocketCap
<1>2. Init => CapInv /\ OneByOne
  BY CapInductive, OneByOneInductive
<1>3. CapInv /\ OneByOne /\ [Next]_vars => (CapInv /\ OneByOne)'
  BY CapInductive, OneByOneInductive DEF CapInv
<1> QED
  BY <1>1, <1>2, <1>3, PTL DEF Spec
-----------------------------------------------------------------------------
\* The connections a loop should count.
On(l) == {c \in Sockets : loopOf[c] = l /\ conn[c] # "left"}

\* A connection has no loop before the main thread gives it one.
NoLoopYet ==
    \A c \in Connections :
        conn[c] \in {"none", "waiting"} \/ (mainPc = "take" /\ c = current)
            => loopOf[c] = None

LoadInv == TypeOK /\ ConstructionInv /\ OneByOne /\ NoLoopYet /\ LoadShown

LEMMA NoLoopYetInductive ==
  /\ Init => NoLoopYet
  /\ TypeOK /\ ConstructionInv /\ NoLoopYet /\ [Next]_vars => NoLoopYet'
<1>1. Init => NoLoopYet
  BY DEF Init, NoLoopYet
<1>2. ASSUME TypeOK, ConstructionInv, NoLoopYet, [Next]_vars PROVE NoLoopYet'
  <2> USE <1>2 DEF TypeOK, NoLoopYet
  <2>1. ASSUME NEW c \in Connections, Connect(c) PROVE NoLoopYet'
    BY <2>1 DEF Connect
  <2>2. CASE Signal \/ ListenReady \/ AcceptReturns \/ HandleSignalPipe
    BY <2>2 DEF Signal, ListenReady, AcceptReturns, HandleSignalPipe
  <2>3. ASSUME NEW c \in Connections, Admit(c) PROVE NoLoopYet'
    BY <2>3 DEF Admit, Accept, Reject, Drop, Waiting
  <2>4. ASSUME NEW l \in Loops, OpenOnLoop(l) PROVE NoLoopYet'
    BY <2>4 DEF OpenOnLoop, ConstructionInv
  <2>5. CASE PostAdd \/ CountOpened \/ Register
    BY <2>5 DEF PostAdd, CountOpened, Register, ConstructionInv
  <2>6. ASSUME NEW c \in Connections, Worker(c) PROVE NoLoopYet'
    BY <2>6 DEF Worker, Destructor, WorkerAdds, Unregister, CountClosed,
                LeaveLoop, FreeChannel
  <2>7. CASE UNCHANGED vars
    BY <2>7 DEF vars
  <2> QED
    BY <1>2, <2>1, <2>2, <2>3, <2>4, <2>5, <2>6, <2>7
       DEF Next, Main, Construct
<1> QED
  BY <1>1, <1>2

LEMMA LoadInductive == /\ Init => LoadInv
                       /\ LoadInv /\ [Next]_vars => LoadInv'
<1>1. Init => LoadInv
  <2> SUFFICES ASSUME Init PROVE LoadInv
    OBVIOUS
  <2>1. LoadShown
    <3>1. Sockets = {}
      BY DEF Init, Sockets, Served
    <3> QED
      BY <3>1, FS_EmptySet DEF Init, LoadShown
  <2> QED
    BY <2>1, TypeInductive, ConstructionInductive, OneByOneInductive,
       NoLoopYetInductive DEF LoadInv
<1>2. ASSUME LoadInv, [Next]_vars PROVE LoadInv'
  <2>i. /\ TypeOK /\ ConstructionInv /\ OneByOne /\ NoLoopYet
        /\ TypeOK' /\ ConstructionInv' /\ OneByOne' /\ NoLoopYet'
    BY <1>2, TypeInductive, ConstructionInductive, OneByOneInductive,
       NoLoopYetInductive DEF LoadInv
  <2>l. \A l \in Loops : count[l] = Cardinality(On(l))
    BY <1>2 DEF LoadInv, LoadShown, On
  <2>o. \A l \in Loops : On(l) \in SUBSET Connections
    BY DEF On, Sockets, Served
  <2> SUFFICES LoadShown'
    BY <2>i DEF LoadInv
  <2>e. (\A k \in Loops : count'[k] = Cardinality(On(k)')) => LoadShown'
    BY DEF LoadShown, On
  \* A step that gives nobody a loop and takes nobody from one.
  <2>s. ASSUME count' = count, \A l \in Loops : On(l)' = On(l)
        PROVE  LoadShown'
    BY <2>s, <2>l DEF LoadShown, On
  <2> USE <2>i DEF TypeOK
  <2>1. ASSUME NEW c \in Connections, Connect(c) PROVE LoadShown'
    <3>1. \A l \in Loops : On(l)' = On(l)
      BY <2>1 DEF Connect, On, Sockets, Served
    <3> QED
      BY <2>1, <3>1, <2>s DEF Connect
  <2>2. CASE Signal \/ ListenReady \/ AcceptReturns \/ HandleSignalPipe
             \/ CountOpened \/ Register \/ UNCHANGED vars
    <3>1. \A l \in Loops : On(l)' = On(l)
      BY <2>2 DEF Signal, ListenReady, AcceptReturns, HandleSignalPipe,
         CountOpened, Register, vars, On, Sockets, Served
    <3> QED
      BY <2>2, <3>1, <2>s DEF Signal, ListenReady, AcceptReturns,
         HandleSignalPipe, CountOpened, Register, vars
  <2>3. ASSUME NEW c \in Connections, Admit(c) PROVE LoadShown'
    <3>1. loopOf[c] \notin Loops
      BY <2>3, ServerAssumption DEF Admit, Accept, Reject, Drop, Waiting,
         NoLoopYet
    <3>2. \A l \in Loops : On(l)' = On(l)
      BY <2>3, <3>1 DEF Admit, Accept, Reject, Drop, On, Sockets, Served
    <3> QED
      BY <2>3, <3>2, <2>s DEF Admit, Accept, Reject, Drop
  <2>4. ASSUME NEW l \in Loops, OpenOnLoop(l) PROVE LoadShown'
    <3>1. /\ current \in Connections /\ conn[current] = "accepted"
          /\ loopOf[current] \notin Loops
      BY <2>4, ServerAssumption DEF OpenOnLoop, ConstructionInv, NoLoopYet
    <3>2. /\ loopOf' = [loopOf EXCEPT ![current] = l] /\ conn' = conn
          /\ count' = [count EXCEPT ![l] = count[l] + 1]
      BY <2>4 DEF OpenOnLoop
    <3>3. \A k \in Loops \ {l} : On(k)' = On(k) /\ count'[k] = count[k]
      BY <3>1, <3>2 DEF On, Sockets, Served
    <3>4. On(l)' = On(l) \cup {current} /\ current \notin On(l)
      BY <3>1, <3>2 DEF On, Sockets, Served
    <3>5. Cardinality(On(l)') = Cardinality(On(l)) + 1
      BY <3>1, <3>4, <2>o, SetGrows
    <3>6. count'[l] = count[l] + 1
      BY <3>2
    <3>7. \A k \in Loops : count'[k] = Cardinality(On(k)')
      BY <3>3, <3>5, <3>6, <2>l
    <3> QED
      BY <3>7, <2>e
  <2>5. CASE PostAdd
    <3>1. \A l \in Loops : On(l)' = On(l)
      BY <2>5 DEF PostAdd, ConstructionInv, On, Sockets, Served
    <3> QED
      BY <2>5, <3>1, <2>s DEF PostAdd
  <2>6. ASSUME NEW c \in Connections,
               WorkerAdds(c) \/ Unregister(c) \/ CountClosed(c) \/ FreeChannel(c)
        PROVE  LoadShown'
    <3>1. \A l \in Loops : On(l)' = On(l)
      BY <2>6 DEF WorkerAdds, Unregister, CountClosed, FreeChannel, On,
         Sockets, Served
    <3> QED
      BY <2>6, <3>1, <2>s DEF WorkerAdds, Unregister, CountClosed, FreeChannel
  <2>7. ASSUME NEW c \in Connections, LeaveLoop(c) PROVE LoadShown'
    <3>0. loopOf[c] \in Loops /\ conn[c] = "uncounted"
      BY <2>7 DEF LeaveLoop, OneByOne
    <3>1. PICK l \in Loops : l = loopOf[c]
      BY <3>0
    <3>2. /\ conn' = [conn EXCEPT ![c] = "left"] /\ loopOf' = loopOf
          /\ count' = [count EXCEPT ![l] = IF count[l] > 0 THEN count[l] - 1
                                                           ELSE count[l]]
      BY <2>7, <3>1 DEF LeaveLoop
    <3>3. c \in On(l) /\ On(l)' = On(l) \ {c}
      BY <3>0, <3>1, <3>2 DEF On, Sockets, Served
    <3>4. \A k \in Loops \ {l} : On(k)' = On(k)
      BY <3>0, <3>1, <3>2 DEF On, Sockets, Served
    <3>5. Cardinality(On(l)') = Cardinality(On(l)) - 1 /\ Cardinality(On(l)) > 0
      BY <3>1, <3>3, <2>o, SetShrinks
    <3>6. count'[l] = count[l] - 1
      BY <3>1, <3>2, <3>5, <2>l
    <3>7. \A k \in Loops \ {l} : count'[k] = count[k]
      BY <3>1, <3>2
    <3>8. \A k \in Loops : count'[k] = Cardinality(On(k)')
      BY <3>1, <3>4, <3>5, <3>6, <3>7, <2>l
    <3> QED
      BY <3>8, <2>e
  <2> QED
    BY <1>2, <2>1, <2>2, <2>3, <2>4, <2>5, <2>6, <2>7
       DEF Next, Main, Construct, Worker, Destructor
<1> QED
  BY <1>1, <1>2

\* The load by which the pool chooses a worker, and decides to stop one, is at
\* every moment the number of connections given to its loop and not yet
\* destroyed (TcpConnection.cpp:73-74, 90; ThreadPool.cpp:177).
THEOREM LoadStaysExact == Spec => []LoadShown
<1>1. LoadInv => LoadShown
  BY DEF LoadInv
<1> QED
  BY <1>1, LoadInductive, PTL DEF Spec
=============================================================================
