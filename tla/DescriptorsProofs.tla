------------------------- MODULE DescriptorsProofs -------------------------
(***************************************************************************)
(* However many connections and loops there are, and however accepting,    *)
(* callbacks and timeouts interleave: as long as no loop has been deleted  *)
(* with a number that was no longer its own (cut), a number leads to the   *)
(* connection it belongs to, no call of epoll_ctl fails, and a record that *)
(* outlives its connection does no harm.                                   *)
(*                                                                         *)
(* The invariant ties the four places together that know a connection: the *)
(* kernel's table and epoll sets, m_channelMap, and m_taskQ.  A connection *)
(* in the table waits for its ADD or is in the map of its loop; what is in *)
(* the map is in the table and registered; and the only task in a queue    *)
(* that is no ADD is the one the loop's own thread is just working off.    *)
(***************************************************************************)
EXTENDS Descriptors, FiniteSetTheorems, SequenceTheorems,
        WellFoundedInduction, NaturalsInduction, TLAPS

\* The events a record may have, once it is there.
Marks == {{"read"}, {"write"}, {"read", "write"}, {"error"}}

Records == [number : Numbers, of : Connections, events : Marks]

Entries == [number : Numbers, of : Connections, out : BOOLEAN]

Tasks == {"ADD", "MODIFY", "DELETE"} \X Connections

Labels == {"wait", "batch", "tasks", "sweep",
           "closeMap", "closePair0", "closePair1", "deleted"}

KernelTypes ==
    /\ table \in [Numbers -> Connections \cup Pairs \cup {None}]
    /\ epoll \in [Loops -> SUBSET Entries]
    /\ channelMap \in [Loops -> [Numbers -> Connections \cup {None}]]
    /\ failed = FALSE

BookTypes ==
    /\ socket \in [Connections -> Numbers \cup {0}]
    /\ loopOf \in [Connections -> Loops \cup {None}]
    /\ pair \in [Pairs -> Numbers]
    /\ \A c \in Connections : loopOf[c] # None => socket[c] \in Numbers

LoopTypes ==
    /\ taskQ \in [Loops -> Seq(Tasks)]
    /\ phase \in [Loops -> Labels]
    /\ batch \in [Loops -> SUBSET Records]
    /\ record \in [Loops -> {NoRecord} \cup Records]
    /\ callee \in [Loops -> Connections \cup {None}]
    /\ draining \in [Loops -> BOOLEAN]
    /\ expired \in [Loops -> SUBSET Connections]

Types == KernelTypes /\ BookTypes /\ LoopTypes

\* The ADD of a connection is still in the queue of its loop.
Pending(c) ==
    \E i \in 1 .. Len(taskQ[loopOf[c]]) : taskQ[loopOf[c]][i] = <<"ADD", c>>

Added(l, c) == socket[c] \in Numbers /\ channelMap[l][socket[c]] = c

PairInv == \A n \in Numbers : table[n] \in Pairs => pair[table[n]] = n

\* A connection in the table has that number, and will be or is added.
TableInv ==
    \A n \in Numbers : table[n] \in Connections =>
        /\ loopOf[table[n]] # None /\ socket[table[n]] = n
        /\ Pending(table[n]) \/ Added(loopOf[table[n]], table[n])

\* What a loop has in its map is in the table and registered ...
MapInv ==
    \A l \in Loops, n \in Numbers : channelMap[l][n] # None =>
        /\ table[n] = channelMap[l][n]
        /\ loopOf[table[n]] = l
        /\ \E e \in epoll[l] : e.number = n

\* ... and the other way round, once.
EpollInv ==
    \A l \in Loops : \A e \in epoll[l] :
        /\ channelMap[l][e.number] = e.of
        /\ \A f \in epoll[l] : e.number = f.number => e = f

CalledInv ==
    /\ called \subseteq Connections
    /\ \A c \in called : loopOf[c] # None

\* What a task of a loop is about; t is the task at i of its queue.
TaskInv(l, t) ==
    /\ loopOf[t[2]] = l
    /\ t[1] = "ADD" => /\ socket[t[2]] \in Numbers /\ table[socket[t[2]]] = t[2]
                       /\ ~Added(l, t[2]) /\ t[2] \notin called
    /\ t[1] # "ADD" => Added(l, t[2]) /\ draining[l]
    /\ t[1] = "DELETE" => /\ callee[l] = None /\ t[2] \notin expired[l]
                          /\ \A r \in batch[l] : r.of # t[2]

QueueInv(l) ==
    \A i \in 1 .. Len(taskQ[l]) :
        /\ TaskInv(l, taskQ[l][i])
        /\ \A j \in 1 .. Len(taskQ[l]) : i # j =>
              /\ taskQ[l][j][2] # taskQ[l][i][2]
              /\ taskQ[l][i][1] = "ADD" \/ taskQ[l][j][1] = "ADD"

\* A record not yet taken up is about a connection that is still there.  The
\* one that is worked off may only be stale when its read event is over, and
\* then its number leads nowhere or to a connection that is new.
LoopInv(l) ==
    /\ callee[l] # None =>
         Added(l, callee[l]) /\ \A r \in batch[l] : r.of # callee[l]
    /\ \A r \in batch[l] :
         /\ channelMap[l][r.number] = r.of
         /\ \A s \in batch[l] : r.number = s.number => r = s
         /\ record[l].number # r.number
    /\ record[l].events \notin {{}, {"write"}} => Found(l) = record[l].of
    /\ record[l].events = {"write"} =>
         Found(l) \in {record[l].of, None} \/ Found(l) \notin called
    /\ \A c \in expired[l] : Added(l, c)

PhaseInv(l) ==
    /\ phase[l] # "batch" =>
         batch[l] = {} /\ record[l] = NoRecord /\ callee[l] = None
    /\ phase[l] = "batch" /\ ~AtHome(l) => record[l].events \in {{}, {"write"}}
    /\ phase[l] # "sweep" => expired[l] = {}
    /\ phase[l] \notin {"batch", "tasks", "sweep"} => ~draining[l]

Part(l) == QueueInv(l) /\ LoopInv(l) /\ PhaseInv(l)

Tied == PairInv /\ TableInv /\ MapInv /\ EpollInv /\ CalledInv

Held == /\ Types /\ Tied /\ \A l \in Loops : Part(l)
        /\ strays \subseteq {<<"write", FALSE>>}

\* The inductive invariant.
Good == cut = {} => Held
-----------------------------------------------------------------------------
LEMMA Distinct ==
  /\ None \notin Connections /\ None \notin Loops /\ None \notin Pairs
  /\ \A c \in Connections : c \notin Pairs
  BY DescriptorAssumption

\* A connection that is in the map of a loop belongs to it.
LEMMA AddedOwned ==
  ASSUME BookTypes, KernelTypes, MapInv, NEW l \in Loops, NEW c \in Connections, Added(l, c)
  PROVE  loopOf[c] = l /\ table[socket[c]] = c
  BY Distinct DEF BookTypes, MapInv, Added

\* A step of another loop leaves a loop's part as it is, unless it takes its
\* numbers or calls its connections.
LEMMA OtherLoop ==
  ASSUME Types, MapInv, NEW k \in Loops, Part(k),
         phase'[k] = phase[k], batch'[k] = batch[k], record'[k] = record[k],
         callee'[k] = callee[k], draining'[k] = draining[k],
         expired'[k] = expired[k], taskQ'[k] = taskQ[k],
         channelMap'[k] = channelMap[k],
         \A d \in Connections : loopOf[d] = k =>
             /\ loopOf'[d] = k /\ socket'[d] = socket[d]
             /\ socket[d] \in Numbers /\ table[socket[d]] = d => table'[socket[d]] = d
             /\ d \in called' => d \in called
  PROVE  Part(k)'
<1>t. /\ callee[k] \in Connections \cup {None} /\ batch[k] \subseteq Records
      /\ record[k] \in {NoRecord} \cup Records /\ expired[k] \subseteq Connections
      /\ taskQ[k] \in Seq(Tasks)
  BY DEF Types, LoopTypes
<1>a. ASSUME NEW c \in Connections, Added(k, c) PROVE Added(k, c)' /\ loopOf[c] = k
  <2>1. loopOf[c] = k
    BY <1>a, AddedOwned DEF Types
  <2> QED
    BY <1>a, <2>1 DEF Added
<1>b. ASSUME NEW c \in Connections, loopOf[c] = k, Added(k, c)' PROVE Added(k, c)
  BY <1>b DEF Added
<1>1. QueueInv(k)'
  <2>1. ASSUME NEW i \in 1 .. Len(taskQ[k]) PROVE TaskInv(k, taskQ[k][i])'
    <3>1. PICK t \in Tasks : t = taskQ[k][i]
      BY <1>t, ElementOfSeq
    <3>2. TaskInv(k, t) /\ t[2] \in Connections
      BY <3>1 DEF Part, QueueInv, Tasks
    <3>3. TaskInv(k, t)'
      BY <1>a, <1>b, <3>2 DEF TaskInv
    <3>4. taskQ'[k][i] = t
      BY <3>1
    <3> QED
      BY <3>3, <3>4 DEF TaskInv
  <2> QED
    BY <2>1 DEF Part, QueueInv
<1>2. LoopInv(k)'
  <2>1. record[k].events = {"write"} => record[k] \in Records
    <3>1. NoRecord.events = {}
      BY DEF NoRecord
    <3> QED
      BY <1>t, <3>1
  <2>2. record[k] \in Records => record[k].number \in Numbers
    BY DEF Records
  <2>3. record[k].events = {"write"} /\ Found(k) # None =>
          loopOf[Found(k)] = k /\ Found(k) \in Connections
    BY <2>1, <2>2 DEF MapInv, Found, Types, KernelTypes
  <2>4. Found(k)' = Found(k)
    BY DEF Found
  <2>5. callee[k] # None => Added(k, callee[k])'
    BY <1>t, <1>a DEF Part, LoopInv
  <2>6. \A c \in expired[k] : Added(k, c)'
    BY <1>t, <1>a DEF Part, LoopInv
  <2>7. record[k].events = {"write"} =>
          Found(k) \in {record[k].of, None} \/ Found(k) \notin called'
    BY <2>3 DEF Part, LoopInv
  <2> QED
    BY <2>4, <2>5, <2>6, <2>7 DEF Part, LoopInv
<1>3. PhaseInv(k)'
  BY DEF Part, PhaseInv, AtHome
<1> QED
  BY <1>1, <1>2, <1>3 DEF Part
-----------------------------------------------------------------------------
\* The kernel finds the socket of a connection that has been added.
LEMMA WatchedAdded ==
  ASSUME Types, TableInv, MapInv, EpollInv,
         NEW l \in Loops, NEW c \in Connections, Added(l, c)
  PROVE  /\ Watched(l, socket[c]) # {} /\ table[socket[c]] = c
         /\ Watched(l, socket[c]) = {e \in epoll[l] : e.number = socket[c]}
         /\ \A e \in epoll[l] : e.number = socket[c] <=> e.of = c
<1>1. loopOf[c] = l /\ table[socket[c]] = c /\ c # None
  BY AddedOwned, Distinct DEF Types
<1>2. PICK f \in epoll[l] : f.number = socket[c]
  BY <1>1 DEF MapInv, Added
<1>t. epoll[l] \subseteq Entries
  BY DEF Types, KernelTypes
<1>3. ASSUME NEW e \in epoll[l] PROVE e.number = socket[c] <=> e.of = c
  <2>1. channelMap[l][e.number] = e.of /\ e.number \in Numbers /\ e.of \in Connections
    BY <1>t DEF EpollInv, Entries
  <2>2. table[e.number] = e.of
    BY <2>1, Distinct DEF MapInv
  <2>3. socket[e.of] = e.number
    BY <2>1, <2>2 DEF TableInv
  <2> QED
    BY <1>1, <2>2, <2>3
<1> QED
  BY <1>1, <1>2, <1>3 DEF Watched

\* What is in the map has a number of its own.
LEMMA AddedApart ==
  ASSUME Types, TableInv, MapInv, NEW l \in Loops, NEW k \in Loops,
         NEW c \in Connections, NEW d \in Connections, Added(l, c), Added(k, d),
         c # d
  PROVE  socket[c] # socket[d]
  BY AddedOwned DEF Types

\* remove finds what it looks for: the number is closed, the channel freed.
LEMMA RemoveDoes ==
  ASSUME Types, TableInv, MapInv, EpollInv,
         NEW l \in Loops, NEW c \in Connections, Added(l, c), Remove(l, c)
  PROVE  /\ failed' = failed
         /\ table' = [table EXCEPT ![socket[c]] = None]
         /\ epoll' = [k \in Loops |-> {e \in epoll[k] : e.of # c}]
         /\ channelMap' = [channelMap EXCEPT ![l][socket[c]] = None]
<1>1. Watched(l, socket[c]) # {} /\ table[socket[c]] = c /\ c # None
  BY WatchedAdded, Distinct
<1>2. channelMap[l][socket[c]] = c
  BY DEF Added
<1>3. FreeChannel(l, socket[c]) /\ failed' = failed
  BY <1>1, <1>2 DEF Remove
<1> QED
  BY <1>1, <1>3 DEF FreeChannel, Close

\* Nothing else is touched by that.
LEMMA RemoveKeeps ==
  ASSUME Types, Tied, NEW l \in Loops, NEW c \in Connections, Added(l, c),
         failed' = failed,
         table' = [table EXCEPT ![socket[c]] = None],
         epoll' = [k \in Loops |-> {e \in epoll[k] : e.of # c}],
         channelMap' = [channelMap EXCEPT ![l][socket[c]] = None],
         UNCHANGED books
  PROVE  /\ KernelTypes' /\ BookTypes' /\ PairInv' /\ MapInv' /\ EpollInv'
         /\ \A d \in Connections : d # c =>
              /\ \A k \in Loops : Added(k, d)' <=> Added(k, d)
              /\ socket[d] \in Numbers /\ table[socket[d]] = d => table'[socket[d]] = d
         /\ \A n \in Numbers : table'[n] # None => table'[n] = table[n] /\ table[n] # c
         /\ \A k \in Loops : k # l => channelMap'[k] = channelMap[k]
<1> DEFINE n == socket[c]
<1>1. n \in Numbers /\ channelMap[l][n] = c /\ table[n] = c /\ loopOf[c] = l
      /\ c # None
  BY AddedOwned, Distinct DEF Added, Types, Tied
<1>u. UNCHANGED <<socket, loopOf, pair>>
  BY DEF books
<1>t. /\ table \in [Numbers -> Connections \cup Pairs \cup {None}]
      /\ epoll \in [Loops -> SUBSET Entries]
      /\ channelMap \in [Loops -> [Numbers -> Connections \cup {None}]]
  BY DEF Types, KernelTypes
<1> HIDE DEF n
<1>w. \A k \in Loops : \A e \in epoll[k] :
         /\ e.number \in Numbers /\ channelMap[k][e.number] = e.of
         /\ e.of \in Connections
  BY <1>t DEF Tied, EpollInv, Entries
<1>2. ASSUME NEW m \in Numbers
      PROVE  /\ table'[m] = IF m = n THEN None ELSE table[m]
             /\ \A k \in Loops : channelMap'[k][m] =
                  IF k = l /\ m = n THEN None ELSE channelMap[k][m]
  BY <1>1, <1>t DEF n
<1>3. \A k \in Loops : k # l => channelMap'[k] = channelMap[k]
  BY <1>t
<1>4. \A k \in Loops : epoll'[k] = {e \in epoll[k] : e.of # c}
  OBVIOUS
<1>5. \A m \in Numbers : m # n => table[m] # c
  BY <1>1 DEF Tied, TableInv, n
<1>6. KernelTypes'
  <2>1. table' \in [Numbers -> Connections \cup Pairs \cup {None}]
    BY <1>t
  <2>2. epoll' \in [Loops -> SUBSET Entries]
    BY <1>t
  <2>3. channelMap' \in [Loops -> [Numbers -> Connections \cup {None}]]
    BY <1>t
  <2> QED
    BY <2>1, <2>2, <2>3 DEF KernelTypes, Types
<1>7. BookTypes'
  BY <1>u DEF BookTypes, Types
<1>8. PairInv'
  BY <1>2, <1>u, Distinct DEF PairInv, Tied
<1>9. MapInv'
  <2>1. ASSUME NEW k \in Loops, NEW m \in Numbers, channelMap'[k][m] # None
        PROVE  /\ table'[m] = channelMap'[k][m]
               /\ loopOf[table'[m]] = k
               /\ \E e \in epoll'[k] : e.number = m
    <3>1. channelMap'[k][m] = channelMap[k][m]
      BY <1>2, <2>1
    <3>2. table[m] = channelMap[k][m] /\ loopOf[table[m]] = k
      BY <2>1, <3>1 DEF Tied, MapInv
    <3>3. PICK e \in epoll[k] : e.number = m
      BY <2>1, <3>1 DEF Tied, MapInv
    <3>4. m # n
      BY <1>1, <1>2, <2>1, <3>1, <3>2
    <3>5. e.of # c
      BY <1>5, <1>w, <3>2, <3>3, <3>4
    <3> QED
      BY <1>2, <1>4, <3>1, <3>2, <3>3, <3>4, <3>5
  <2> QED
    BY <1>u, <2>1 DEF MapInv
<1>10. EpollInv'
  <2>1. ASSUME NEW k \in Loops, NEW e \in epoll[k], e.of # c
        PROVE  channelMap'[k][e.number] = e.of
    <3>1. channelMap[k][e.number] = e.of /\ e.number \in Numbers
      BY <1>w
    <3>2. ~(k = l /\ e.number = n)
      BY <1>1, <2>1, <3>1
    <3> QED
      BY <1>2, <3>1, <3>2
  <2> QED
    BY <1>4, <2>1 DEF Tied, EpollInv
<1>11. ASSUME NEW d \in Connections, d # c
       PROVE  /\ \A k \in Loops : Added(k, d)' <=> Added(k, d)
              /\ socket[d] \in Numbers /\ table[socket[d]] = d => table'[socket[d]] = d
  <2>1. ASSUME NEW k \in Loops PROVE Added(k, d)' <=> Added(k, d)
    <3>1. CASE socket[d] \in Numbers
      <4>1. channelMap[l][n] = c /\ channelMap'[l][n] # d
        BY <1>1, <1>2, Distinct
      <4> QED
        BY <1>2, <1>u, <1>11, <3>1, <4>1 DEF Added
    <3>2. CASE socket[d] \notin Numbers
      BY <1>u, <3>2 DEF Added
    <3> QED
      BY <3>1, <3>2
  <2>2. socket[d] \in Numbers /\ table[socket[d]] = d => table'[socket[d]] = d
    <3>1. CASE socket[d] = n
      BY <1>1, <1>11, <3>1
    <3>2. CASE socket[d] # n
      BY <1>t, <3>2 DEF n
    <3> QED
      BY <3>1, <3>2
  <2> QED
    BY <2>1, <2>2
<1>12. \A m \in Numbers : table'[m] # None => table'[m] = table[m] /\ table[m] # c
  BY <1>2, <1>5
<1> QED
  BY <1>3, <1>6, <1>7, <1>8, <1>9, <1>10, <1>11, <1>12

\* add finds the number free.
LEMMA AddDoes ==
  ASSUME Types, TableInv, MapInv, EpollInv,
         NEW l \in Loops, NEW c \in Connections, ~Added(l, c), Add(l, c),
         socket[c] \in Numbers, table[socket[c]] = c
  PROVE  /\ UNCHANGED <<table, failed>> /\ channelMap[l][socket[c]] = None
         /\ \A e \in epoll[l] : e.number # socket[c]
         /\ epoll' = [epoll EXCEPT ![l] =
                        @ \cup {[number |-> socket[c], of |-> c, out |-> FALSE]}]
         /\ channelMap' = [channelMap EXCEPT ![l][socket[c]] = c]
<1>1. channelMap[l][socket[c]] = None
  BY DEF MapInv, Added
<1>2. \A e \in epoll[l] : e.number # socket[c]
  <2>1. epoll[l] \subseteq Entries
    BY DEF Types, KernelTypes
  <2> QED
    BY <1>1, <2>1, Distinct DEF EpollInv, Entries
<1>3. Watched(l, socket[c]) = {}
  BY <1>2 DEF Watched
<1>4. table[socket[c]] # None
  BY Distinct
<1> QED
  BY <1>1, <1>2, <1>3, <1>4 DEF Add

LEMMA AddKeeps ==
  ASSUME Types, Tied, NEW l \in Loops, NEW c \in Connections, loopOf[c] = l,
         socket[c] \in Numbers, table[socket[c]] = c,
         UNCHANGED <<table, failed>>, channelMap[l][socket[c]] = None,
         \A e \in epoll[l] : e.number # socket[c],
         epoll' = [epoll EXCEPT ![l] =
                     @ \cup {[number |-> socket[c], of |-> c, out |-> FALSE]}],
         channelMap' = [channelMap EXCEPT ![l][socket[c]] = c],
         UNCHANGED books
  PROVE  /\ KernelTypes' /\ BookTypes' /\ PairInv' /\ MapInv' /\ EpollInv'
         /\ Added(l, c)'
         /\ \A d \in Connections : d # c =>
              \A k \in Loops : Added(k, d)' <=> Added(k, d)
         /\ \A k \in Loops : k # l => channelMap'[k] = channelMap[k]
<1> DEFINE n == socket[c]
           a == [number |-> n, of |-> c, out |-> FALSE]
<1>1. n \in Numbers /\ channelMap[l][n] = None /\ table[n] = c /\ c # None
      /\ \A e \in epoll[l] : e.number # n
  BY Distinct
<1>u. UNCHANGED <<socket, loopOf, pair, table, failed>>
  BY DEF books
<1>t. /\ table \in [Numbers -> Connections \cup Pairs \cup {None}]
      /\ epoll \in [Loops -> SUBSET Entries]
      /\ channelMap \in [Loops -> [Numbers -> Connections \cup {None}]]
  BY DEF Types, KernelTypes
<1>a. a \in Entries /\ a.number = n /\ a.of = c
  <2>1. FALSE \in BOOLEAN
    OBVIOUS
  <2> QED
    BY <1>1, <2>1 DEF Entries
<1>c. channelMap' = [channelMap EXCEPT ![l][n] = c]
  OBVIOUS
<1>e. epoll' = [epoll EXCEPT ![l] = @ \cup {a}]
  OBVIOUS
<1>s. n = socket[c]
  OBVIOUS
<1> HIDE DEF n, a
<1>2. ASSUME NEW m \in Numbers, NEW k \in Loops
      PROVE  channelMap'[k][m] = IF k = l /\ m = n THEN c ELSE channelMap[k][m]
  BY <1>1, <1>t, <1>c
<1>3. \A k \in Loops : k # l => channelMap'[k] = channelMap[k] /\ epoll'[k] = epoll[k]
  BY <1>t, <1>c, <1>e
<1>4. epoll'[l] = epoll[l] \cup {a}
  BY <1>t, <1>e
<1>w. \A k \in Loops : \A e \in epoll[k] : e.number \in Numbers
  BY <1>t DEF Entries
<1>6. KernelTypes'
  <2>1. epoll' \in [Loops -> SUBSET Entries]
    BY <1>t, <1>a, <1>e
  <2>2. channelMap' \in [Loops -> [Numbers -> Connections \cup {None}]]
    BY <1>t, <1>c
  <2> QED
    BY <1>u, <2>1, <2>2 DEF KernelTypes, Types
<1>7. BookTypes' /\ PairInv'
  BY <1>u DEF BookTypes, PairInv, Types, Tied
<1>8. MapInv'
  <2>1. ASSUME NEW k \in Loops, NEW m \in Numbers, channelMap'[k][m] # None
        PROVE  /\ table[m] = channelMap'[k][m]
               /\ loopOf[table[m]] = k
               /\ \E e \in epoll'[k] : e.number = m
    <3>1. CASE k = l /\ m = n
      BY <1>1, <1>2, <1>4, <1>a, <3>1
    <3>2. CASE ~(k = l /\ m = n)
      <4>1. channelMap'[k][m] = channelMap[k][m]
        BY <1>2, <3>2
      <4>2. table[m] = channelMap[k][m] /\ loopOf[table[m]] = k
        BY <2>1, <4>1 DEF Tied, MapInv
      <4>3. PICK e \in epoll[k] : e.number = m
        BY <2>1, <4>1 DEF Tied, MapInv
      <4> QED
        BY <1>3, <1>4, <4>1, <4>2, <4>3
    <3> QED
      BY <3>1, <3>2
  <2> QED
    BY <1>u, <2>1 DEF MapInv
<1>9. EpollInv'
  <2>1. ASSUME NEW k \in Loops, NEW e \in epoll[k]
        PROVE  /\ channelMap'[k][e.number] = e.of
               /\ \A f \in epoll[k] : e.number = f.number => e = f
    BY <1>1, <1>2, <1>w DEF Tied, EpollInv
  <2>2. channelMap'[l][a.number] = a.of
    BY <1>1, <1>2, <1>a
  <2> QED
    BY <1>1, <1>3, <1>4, <1>a, <2>1, <2>2 DEF EpollInv
<1>10. Added(l, c)'
  BY <1>1, <1>2, <1>u, <1>s DEF Added
<1>11. ASSUME NEW d \in Connections, d # c, NEW k \in Loops
       PROVE  Added(k, d)' <=> Added(k, d)
  <2>1. CASE socket[d] \in Numbers
    BY <1>1, <1>2, <1>u, <1>11, <2>1, Distinct DEF Added
  <2>2. CASE socket[d] \notin Numbers
    BY <1>u, <2>2 DEF Added
  <2> QED
    BY <2>1, <2>2
<1> QED
  BY <1>3, <1>6, <1>7, <1>8, <1>9, <1>10, <1>11

\* modify finds what it looks for, and only changes what is watched.
LEMMA ModifyKeeps ==
  ASSUME Types, Tied, NEW l \in Loops, NEW c \in Connections, Added(l, c),
         Modify(l, c), UNCHANGED books
  PROVE  /\ UNCHANGED <<table, channelMap, failed>>
         /\ KernelTypes' /\ BookTypes' /\ PairInv' /\ MapInv' /\ EpollInv'
<1>1. Watched(l, socket[c]) # {} /\ table[socket[c]] = c /\ c # None
      /\ Watched(l, socket[c]) = {e \in epoll[l] : e.number = socket[c]}
      /\ socket[c] \in Numbers /\ channelMap[l][socket[c]] = c
  BY WatchedAdded, Distinct DEF Tied, Added
<1>2. PICK out \in BOOLEAN :
        epoll' = [epoll EXCEPT ![l] = (@ \ Watched(l, socket[c]))
                    \cup {[number |-> socket[c], of |-> table[socket[c]], out |-> out]}]
  BY <1>1 DEF Modify
<1>3. UNCHANGED <<table, channelMap, failed>>
  BY <1>1 DEF Modify
<1>u. UNCHANGED <<socket, loopOf, pair>>
  BY DEF books
<1>t. /\ epoll \in [Loops -> SUBSET Entries]
  BY DEF Types, KernelTypes
<1> DEFINE a == [number |-> socket[c], of |-> c, out |-> out]
<1>a. a \in Entries /\ a.number = socket[c] /\ a.of = c
  BY <1>1 DEF Entries
<1>e. epoll' = [epoll EXCEPT ![l] =
                 {e \in epoll[l] : e.number # socket[c]} \cup {a}]
  <2>1. epoll[l] \ Watched(l, socket[c]) = {e \in epoll[l] : e.number # socket[c]}
    BY <1>1
  <2> QED
    BY <1>1, <1>2, <2>1
<1> HIDE DEF a
<1>4. \A k \in Loops : k # l => epoll'[k] = epoll[k]
  BY <1>t, <1>e
<1>5. epoll'[l] = {e \in epoll[l] : e.number # socket[c]} \cup {a}
  BY <1>t, <1>e
<1>6. KernelTypes'
  <2>1. epoll' \in [Loops -> SUBSET Entries]
    BY <1>t, <1>a, <1>e
  <2> QED
    BY <1>3, <2>1 DEF KernelTypes, Types
<1>7. BookTypes' /\ PairInv'
  BY <1>3, <1>u DEF BookTypes, PairInv, Types, Tied
<1>8. MapInv'
  <2>1. ASSUME NEW k \in Loops, NEW m \in Numbers, channelMap[k][m] # None
        PROVE  \E e \in epoll'[k] : e.number = m
    <3>1. PICK e \in epoll[k] : e.number = m
      BY <2>1 DEF Tied, MapInv
    <3> QED
      BY <1>4, <1>5, <1>a, <3>1
  <2> QED
    BY <1>3, <1>u, <2>1 DEF Tied, MapInv
<1>9. EpollInv'
  BY <1>1, <1>3, <1>4, <1>5, <1>a DEF Tied, EpollInv
<1> QED
  BY <1>3, <1>6, <1>7, <1>8, <1>9

-----------------------------------------------------------------------------
\* The queues.
LEMMA TaskTypes ==
  ASSUME NEW t \in Tasks
  PROVE  t[2] \in Connections /\ t[1] \in {"ADD", "MODIFY", "DELETE"}
         /\ t = <<t[1], t[2]>>
  BY DEF Tasks

LEMMA QueueTyped ==
  ASSUME Types, NEW l \in Loops
  PROVE  /\ taskQ[l] \in Seq(Tasks) /\ Len(taskQ[l]) \in Nat
         /\ \A i \in 1 .. Len(taskQ[l]) : taskQ[l][i] \in Tasks
<1>1. taskQ[l] \in Seq(Tasks)
  BY DEF Types, LoopTypes
<1> QED
  BY <1>1, ElementOfSeq, LenProperties

LEMMA SameQueue ==
  ASSUME Types, NEW l \in Loops, QueueInv(l), taskQ'[l] = taskQ[l],
         \A t \in Tasks : TaskInv(l, t) => TaskInv(l, t)'
  PROVE  QueueInv(l)'
<1>1. ASSUME NEW i \in 1 .. Len(taskQ[l]) PROVE TaskInv(l, taskQ[l][i])'
  <2>1. PICK t \in Tasks : t = taskQ[l][i]
    BY QueueTyped
  <2>2. TaskInv(l, t)'
    BY <2>1 DEF QueueInv
  <2>3. taskQ'[l][i] = t
    BY <2>1
  <2> QED
    BY <2>2, <2>3 DEF TaskInv
<1> QED
  BY <1>1 DEF QueueInv

LEMMA PostedQueue ==
  ASSUME Types, NEW l \in Loops, QueueInv(l), NEW t \in Tasks,
         taskQ'[l] = Append(taskQ[l], t), TaskInv(l, t)',
         \A i \in 1 .. Len(taskQ[l]) :
            "ADD" \in {t[1], taskQ[l][i][1]} /\ taskQ[l][i][2] # t[2],
         \A u \in Tasks : "ADD" \in {t[1], u[1]} /\ u[2] # t[2] /\ TaskInv(l, u) =>
            TaskInv(l, u)'
  PROVE  QueueInv(l)'
<1> DEFINE q == taskQ[l]
           p == Append(q, t)
<1>q. q \in Seq(Tasks) /\ Len(q) \in Nat /\ \A i \in 1 .. Len(q) : q[i] \in Tasks
  BY QueueTyped
<1>1. /\ Len(p) = Len(q) + 1 /\ \A i \in 1 .. Len(q) : p[i] = q[i]
      /\ p[Len(q) + 1] = t
  BY <1>q, AppendProperties
<1>2. taskQ'[l] = p
  OBVIOUS
<1>3. ASSUME NEW i \in 1 .. Len(p) PROVE TaskInv(l, taskQ[l][i])'
  <2>1. CASE i \in 1 .. Len(q)
    <3>1. PICK u \in Tasks : u = q[i]
      BY <1>q, <2>1
    <3>2. TaskInv(l, u)
      BY <2>1, <3>1 DEF QueueInv
    <3>3. "ADD" \in {t[1], u[1]} /\ u[2] # t[2]
      BY <2>1, <3>1
    <3>4. TaskInv(l, u)'
      BY <3>2, <3>3
    <3>5. taskQ'[l][i] = u
      BY <1>1, <1>2, <2>1, <3>1
    <3> QED
      BY <3>4, <3>5 DEF TaskInv
  <2>2. CASE i \notin 1 .. Len(q)
    <3>1. taskQ'[l][i] = t
      BY <1>q, <1>1, <1>2, <2>2
    <3> QED
      BY <3>1 DEF TaskInv
  <2> QED
    BY <2>1, <2>2
<1>4. ASSUME NEW i \in 1 .. Len(p), NEW j \in 1 .. Len(p), i # j
      PROVE  p[j][2] # p[i][2] /\ (p[i][1] = "ADD" \/ p[j][1] = "ADD")
  <2>1. \A m \in 1 .. Len(q) : (t[1] = "ADD" \/ q[m][1] = "ADD") /\ q[m][2] # t[2]
    OBVIOUS
  <2>2. \A m, n \in 1 .. Len(q) : m # n => /\ q[n][2] # q[m][2]
                                           /\ q[m][1] = "ADD" \/ q[n][1] = "ADD"
    BY DEF QueueInv
  <2> HIDE DEF q, p
  <2>3. CASE i \in 1 .. Len(q) /\ j \in 1 .. Len(q)
    BY <1>1, <1>4, <2>1, <2>2, <2>3
  <2>4. CASE i \in 1 .. Len(q) /\ j = Len(q) + 1
    BY <1>1, <2>1, <2>4
  <2>5. CASE j \in 1 .. Len(q) /\ i = Len(q) + 1
    BY <1>1, <2>1, <2>5
  <2> QED
    BY <1>q, <1>1, <1>4, <2>3, <2>4, <2>5
<1> HIDE DEF p, q
<1> QED
  BY <1>2, <1>3, <1>4 DEF QueueInv

LEMMA TailQueue ==
  ASSUME Types, NEW l \in Loops, QueueInv(l), taskQ[l] # <<>>,
         taskQ'[l] = Tail(taskQ[l]),
         \A i \in 2 .. Len(taskQ[l]) : \A u \in Tasks :
            u = taskQ[l][i] /\ TaskInv(l, u) => TaskInv(l, u)'
  PROVE  QueueInv(l)'
<1> DEFINE q == taskQ[l]
           p == Tail(q)
<1>q. q \in Seq(Tasks) /\ Len(q) \in Nat /\ q # <<>>
      /\ \A i \in 1 .. Len(q) : q[i] \in Tasks
  BY QueueTyped
<1>1. Len(p) = Len(q) - 1 /\ \A i \in 1 .. Len(p) : p[i] = q[i + 1]
  BY <1>q, HeadTailProperties
<1>2. taskQ'[l] = p
  OBVIOUS
<1>3. ASSUME NEW i \in 1 .. Len(p) PROVE TaskInv(l, taskQ[l][i])'
  <2>1. i + 1 \in 2 .. Len(q) /\ i + 1 \in 1 .. Len(q)
    BY <1>q, <1>1
  <2>2. PICK u \in Tasks : u = q[i + 1]
    BY <1>q, <2>1
  <2>3. TaskInv(l, u)
    BY <2>1, <2>2 DEF QueueInv
  <2>4. TaskInv(l, u)'
    BY <2>1, <2>2, <2>3
  <2>5. taskQ'[l][i] = u
    BY <1>1, <1>2, <2>2
  <2> QED
    BY <2>4, <2>5 DEF TaskInv
<1>4. ASSUME NEW i \in 1 .. Len(p), NEW j \in 1 .. Len(p), i # j
      PROVE  p[j][2] # p[i][2] /\ (p[i][1] = "ADD" \/ p[j][1] = "ADD")
  <2>1. /\ i + 1 \in 1 .. Len(q) /\ j + 1 \in 1 .. Len(q) /\ i + 1 # j + 1
        /\ p[i] = q[i + 1] /\ p[j] = q[j + 1]
    BY <1>q, <1>1, <1>4
  <2>2. q[j + 1][2] # q[i + 1][2] /\ (q[i + 1][1] = "ADD" \/ q[j + 1][1] = "ADD")
    BY <2>1 DEF QueueInv
  <2> HIDE DEF p, q
  <2> QED
    BY <2>1, <2>2
<1> HIDE DEF p, q
<1> QED
  BY <1>2, <1>3, <1>4 DEF QueueInv

\* Only a loop that is just working its queue off has other tasks than ADDs.
LEMMA OnlyAdds ==
  ASSUME NEW l \in Loops, QueueInv(l), ~draining[l]
  PROVE  \A i \in 1 .. Len(taskQ[l]) :
            taskQ[l][i][1] = "ADD" /\ ~Added(l, taskQ[l][i][2])
  BY DEF QueueInv, TaskInv

-----------------------------------------------------------------------------
\* What a step of loop l does not touch of the other loops.
OthersStay(l) ==
    \A k \in Loops : k # l =>
        /\ phase'[k] = phase[k] /\ batch'[k] = batch[k] /\ record'[k] = record[k]
        /\ callee'[k] = callee[k] /\ draining'[k] = draining[k]
        /\ expired'[k] = expired[k] /\ taskQ'[k] = taskQ[k]

\* A step of a loop that leaves the kernel and the map alone.
LEMMA OwnStep ==
  ASSUME Held, NEW l \in Loops, UNCHANGED <<kernel, books, channelMap, failed>>,
         LoopTypes', OthersStay(l), Part(l)',
         \A c \in Connections : loopOf[c] = l /\ Pending(c) => Pending(c)',
         called' \ called \subseteq {c \in Connections : loopOf[c] = l},
         strays' \subseteq {<<"write", FALSE>>}
  PROVE  Held'
<1>h. Types /\ Tied /\ (\A k \in Loops : Part(k)) /\ KernelTypes /\ BookTypes
  BY DEF Held, Types
<1>u. UNCHANGED <<table, epoll, socket, loopOf, pair, channelMap, failed>>
  BY DEF kernel, books
<1>1. KernelTypes' /\ BookTypes'
  BY <1>h, <1>u DEF KernelTypes, BookTypes
<1>2. PairInv' /\ MapInv' /\ EpollInv'
  BY <1>h, <1>u DEF Tied, PairInv, MapInv, EpollInv
<1>3. CalledInv'
  BY <1>h, <1>u, Distinct DEF Tied, CalledInv
<1>4. ASSUME NEW c \in Connections, loopOf[c] # None, Pending(c) PROVE Pending(c)'
  <2>1. loopOf[c] \in Loops
    BY <1>h, <1>4 DEF BookTypes
  <2>2. CASE loopOf[c] = l
    BY <1>4, <2>2
  <2>3. CASE loopOf[c] # l
    BY <1>4, <1>u, <2>1, <2>3 DEF Pending, OthersStay
  <2> QED
    BY <2>2, <2>3
<1>5. TableInv'
  <2>1. \A l2 \in Loops, c \in Connections : Added(l2, c)' <=> Added(l2, c)
    BY <1>u DEF Added
  <2>2. ASSUME NEW n \in Numbers, table[n] \in Connections
        PROVE  /\ loopOf[table[n]] # None /\ socket[table[n]] = n
               /\ Pending(table[n])' \/ Added(loopOf[table[n]], table[n])'
    <3>1. /\ loopOf[table[n]] # None /\ socket[table[n]] = n
          /\ Pending(table[n]) \/ Added(loopOf[table[n]], table[n])
      BY <1>h, <2>2 DEF Tied, TableInv
    <3>2. PICK c \in Connections : c = table[n]
      BY <2>2
    <3>3. loopOf[c] \in Loops
      BY <1>h, <3>1, <3>2 DEF BookTypes
    <3>4. Pending(c)' \/ Added(loopOf[c], c)'
      <4>1. Added(loopOf[c], c) => Added(loopOf[c], c)'
        BY <1>u DEF Added
      <4> QED
        BY <1>4, <3>1, <3>2, <4>1
    <3>5. table'[n] = c
      BY <1>u, <3>2
    <3> QED
      BY <3>1, <3>2, <3>4, <3>5 DEF Pending, Added
  <2> QED
    BY <1>u, <2>2 DEF TableInv, Pending, Added
<1>6. ASSUME NEW k \in Loops, k # l PROVE Part(k)'
  <2>1. \A d \in Connections : loopOf[d] = k =>
             /\ loopOf'[d] = k /\ socket'[d] = socket[d]
             /\ socket[d] \in Numbers /\ table[socket[d]] = d => table'[socket[d]] = d
             /\ d \in called' => d \in called
    BY <1>u, <1>6
  <2>2. /\ phase'[k] = phase[k] /\ batch'[k] = batch[k] /\ record'[k] = record[k]
        /\ callee'[k] = callee[k] /\ draining'[k] = draining[k]
        /\ expired'[k] = expired[k] /\ taskQ'[k] = taskQ[k]
        /\ channelMap'[k] = channelMap[k]
    BY <1>u, <1>6 DEF OthersStay
  <2>3. Part(k) /\ MapInv
    BY <1>h DEF Tied
  <2> QED
    BY <1>h, <2>1, <2>2, <2>3, OtherLoop
<1> QED
  BY <1>1, <1>2, <1>3, <1>5, <1>6 DEF Held, Types, Tied

\* What the parts of a step of loop l are drawn from.
LEMMA OwnTypes ==
  ASSUME Held, NEW l \in Loops
  PROVE  /\ Types /\ Tied /\ Part(l) /\ QueueInv(l) /\ LoopInv(l) /\ PhaseInv(l)
         /\ phase[l] \in Labels /\ batch[l] \subseteq Records
         /\ record[l] \in {NoRecord} \cup Records
         /\ callee[l] \in Connections \cup {None} /\ expired[l] \subseteq Connections
         /\ taskQ[l] \in Seq(Tasks)
         /\ strays \subseteq {<<"write", FALSE>>}
  BY DEF Held, Types, LoopTypes, Part

-----------------------------------------------------------------------------
\* The steps of a loop's own thread that leave the kernel alone.
LEMMA MarksOf ==
  /\ \A m \in (SUBSET {"read", "write"}) \cup {{"error"}} : m # {} => m \in Marks
  /\ \A m \in Marks : m # {}
<1>1. ASSUME NEW m \in SUBSET {"read", "write"}, m # {} PROVE m \in Marks
  <2>1. CASE "read" \in m /\ "write" \in m
    <3>1. m = {"read", "write"}
      BY <2>1
    <3> QED
      BY <3>1 DEF Marks
  <2>2. CASE "read" \in m /\ "write" \notin m
    <3>1. m = {"read"}
      BY <2>2
    <3> QED
      BY <3>1 DEF Marks
  <2>3. CASE "read" \notin m
    <3>1. m = {"write"}
      BY <1>1, <2>3
    <3> QED
      BY <3>1 DEF Marks
  <2> QED
    BY <2>1, <2>2, <2>3
<1> QED
  BY <1>1 DEF Marks

LEMMA NoRecordIs == NoRecord.events = {} /\ NoRecord.number = 0 /\ 0 \notin Numbers
  BY DEF NoRecord, Numbers

LEMMA EpollWaitKeeps ==
  ASSUME Held, NEW l \in Loops, EpollWait(l)
  PROVE  Held'
<1>0. /\ Types /\ Tied /\ Part(l) /\ QueueInv(l) /\ LoopInv(l) /\ PhaseInv(l)
      /\ strays \subseteq {<<"write", FALSE>>}
  BY OwnTypes
<1>1. PICK ready \in SUBSET epoll[l] :
        \E events \in [ready -> (SUBSET {"read", "write"}) \cup {{"error"}}] :
          /\ \A e \in ready : events[e] # {}
          /\ batch' = [batch EXCEPT ![l] =
               {[number |-> e.number, of |-> e.of, events |-> events[e]] : e \in ready}]
  BY DEF EpollWait
<1>2. PICK events \in [ready -> (SUBSET {"read", "write"}) \cup {{"error"}}] :
          /\ \A e \in ready : events[e] # {}
          /\ batch' = [batch EXCEPT ![l] =
               {[number |-> e.number, of |-> e.of, events |-> events[e]] : e \in ready}]
  BY <1>1
<1>3. /\ phase[l] = "wait" /\ phase' = [phase EXCEPT ![l] = "batch"]
      /\ UNCHANGED <<kernel, books, channelMap, taskQ, record, callee, draining, expired,
                     failed, cut, history>>
  BY DEF EpollWait, At
<1>u. UNCHANGED <<table, epoll, socket, loopOf, pair, channelMap, called, strays>>
  BY <1>3 DEF kernel, books, history
<1>4. record[l] = NoRecord /\ callee[l] = None /\ ~draining[l] /\ expired[l] = {}
  BY <1>0, <1>3 DEF PhaseInv
<1>5. \A e \in ready : events[e] \in Marks
  BY <1>2, MarksOf
<1>6. \A e \in ready : /\ e \in epoll[l] /\ e.number \in Numbers /\ e.of \in Connections
                       /\ channelMap[l][e.number] = e.of
                       /\ \A f \in ready : e.number = f.number => e = f
  <2>1. epoll[l] \subseteq Entries
    BY <1>0 DEF Types, KernelTypes
  <2> QED
    BY <1>0, <2>1 DEF Entries, Tied, EpollInv
<1> DEFINE b == {[number |-> e.number, of |-> e.of, events |-> events[e]] : e \in ready}
<1>7. /\ b \subseteq Records
      /\ \A r \in b : /\ channelMap[l][r.number] = r.of /\ r.number \in Numbers
                      /\ \A s \in b : r.number = s.number => r = s
  BY <1>5, <1>6 DEF Records
<1>8. batch' = [batch EXCEPT ![l] = b]
  BY <1>2
<1> HIDE DEF b
<1>9. LoopTypes' /\ OthersStay(l) /\ batch'[l] = b /\ phase'[l] = "batch"
  <2>1. LoopTypes'
    BY <1>0, <1>3, <1>7, <1>8 DEF Types, LoopTypes, Labels
  <2>2. OthersStay(l) /\ batch'[l] = b /\ phase'[l] = "batch"
    BY <1>0, <1>3, <1>8 DEF Types, LoopTypes, OthersStay
  <2> QED
    BY <2>1, <2>2
<1>10. QueueInv(l)'
  <2>1. \A t \in Tasks : TaskInv(l, t) => TaskInv(l, t)'
    BY <1>3, <1>4, <1>u DEF TaskInv, Added
  <2> QED
    BY <1>0, <1>3, <2>1, SameQueue
<1>11. LoopInv(l)'
  BY <1>3, <1>4, <1>7, <1>9, <1>u, NoRecordIs DEF LoopInv
<1>12. PhaseInv(l)'
  BY <1>3, <1>4, <1>9, NoRecordIs DEF PhaseInv, AtHome
<1>13. \A c \in Connections : loopOf[c] = l /\ Pending(c) => Pending(c)'
  BY <1>3, <1>u DEF Pending
<1>14. UNCHANGED <<kernel, books, channelMap, failed>>
  BY <1>3
<1> QED
  BY <1>0, <1>9, <1>10, <1>11, <1>12, <1>13, <1>14, <1>u, OwnStep DEF Part

LEMMA NextRecordKeeps ==
  ASSUME Held, NEW l \in Loops, NextRecord(l)
  PROVE  Held'
<1>0. /\ Types /\ Tied /\ Part(l) /\ QueueInv(l) /\ LoopInv(l) /\ PhaseInv(l)
      /\ strays \subseteq {<<"write", FALSE>>} /\ batch[l] \subseteq Records
  BY OwnTypes
<1>1. PICK r \in batch[l] : /\ record' = [record EXCEPT ![l] = r]
                            /\ batch' = [batch EXCEPT ![l] = @ \ {r}]
  BY DEF NextRecord
<1>2. /\ phase[l] = "batch" /\ AtHome(l)
      /\ UNCHANGED <<kernel, books, channelMap, taskQ, phase, callee, draining, expired,
                     failed, cut, history>>
  BY DEF NextRecord, At
<1>u. UNCHANGED <<table, epoll, socket, loopOf, pair, channelMap, called, strays>>
  BY <1>2 DEF kernel, books, history
<1>3. LoopTypes'
  BY <1>0, <1>1, <1>2 DEF Types, LoopTypes
<1>4. OthersStay(l) /\ batch'[l] = batch[l] \ {r} /\ record'[l] = r
  BY <1>0, <1>1, <1>2 DEF Types, LoopTypes, OthersStay
<1>5. QueueInv(l)'
  <2>1. \A t \in Tasks : TaskInv(l, t) => TaskInv(l, t)'
    BY <1>2, <1>4, <1>u DEF TaskInv, Added
  <2> QED
    BY <1>0, <1>2, <2>1, SameQueue
<1>6. LoopInv(l)'
  <2>1. /\ channelMap[l][r.number] = r.of
        /\ \A s \in batch[l] : r.number = s.number => r = s
    BY <1>0 DEF LoopInv
  <2>2. Found(l)' = r.of
    BY <1>4, <1>u, <2>1 DEF Found
  <2>3. \A c \in expired[l] : Added(l, c)'
    BY <1>0, <1>u DEF LoopInv, Added
  <2>4. callee'[l] = None
    BY <1>2 DEF AtHome
  <2>5. \A s \in batch'[l] : /\ channelMap'[l][s.number] = s.of
                             /\ \A v \in batch'[l] : s.number = v.number => s = v
                             /\ r.number # s.number
    BY <1>0, <1>4, <1>u, <2>1 DEF LoopInv
  <2> QED
    BY <1>2, <1>4, <2>2, <2>3, <2>4, <2>5 DEF LoopInv
<1>7. PhaseInv(l)'
  BY <1>0, <1>2, <1>4 DEF PhaseInv, AtHome
<1>8. \A c \in Connections : loopOf[c] = l /\ Pending(c) => Pending(c)'
  BY <1>2, <1>u DEF Pending
<1>9. UNCHANGED <<kernel, books, channelMap, failed>>
  BY <1>2
<1> QED
  BY <1>0, <1>3, <1>4, <1>5, <1>6, <1>7, <1>8, <1>9, <1>u, OwnStep DEF Part

\* The connection a record leads to.
LEMMA FoundAdded ==
  ASSUME Held, NEW l \in Loops, record[l].events # {}
  PROVE  /\ record[l] \in Records /\ record[l].number \in Numbers
         /\ record[l].of \in Connections
         /\ Found(l) \in Connections \cup {None}
         /\ Found(l) # None =>
              /\ Added(l, Found(l)) /\ loopOf[Found(l)] = l
              /\ socket[Found(l)] = record[l].number
              /\ \A r \in batch[l] : r.of # Found(l)
<1>0. Types /\ Tied /\ LoopInv(l) /\ batch[l] \subseteq Records
      /\ record[l] \in {NoRecord} \cup Records
  BY OwnTypes
<1>1. record[l] \in Records
  BY <1>0, NoRecordIs
<1>2. record[l].number \in Numbers /\ record[l].of \in Connections
  BY <1>1 DEF Records
<1>3. Found(l) \in Connections \cup {None}
  BY <1>0, <1>2 DEF Types, KernelTypes, Found
<1>4. ASSUME Found(l) # None
      PROVE  /\ Added(l, Found(l)) /\ loopOf[Found(l)] = l
             /\ socket[Found(l)] = record[l].number
  <2>1. table[record[l].number] = Found(l) /\ loopOf[Found(l)] = l
    BY <1>0, <1>2, <1>4 DEF Tied, MapInv, Found
  <2>2. socket[Found(l)] = record[l].number
    BY <1>0, <1>2, <1>3, <1>4, <2>1 DEF Tied, TableInv
  <2> QED
    BY <1>2, <2>1, <2>2 DEF Added, Found
<1>5. ASSUME Found(l) # None, NEW r \in batch[l] PROVE r.of # Found(l)
  <2>1. /\ channelMap[l][r.number] = r.of /\ record[l].number # r.number
        /\ r.number \in Numbers /\ r.of \in Connections
    BY <1>0 DEF LoopInv, Records
  <2>2. table[r.number] = r.of /\ r.of # None
    BY <1>0, <2>1, Distinct DEF Tied, MapInv
  <2>3. socket[r.of] = r.number
    BY <1>0, <2>1, <2>2 DEF Tied, TableInv
  <2> QED
    BY <1>4, <1>5, <2>1, <2>3
<1> QED
  BY <1>1, <1>2, <1>3, <1>4, <1>5

\* What is left of a record's events when one has been dispatched.
LEMMA MarksLeft ==
  ASSUME NEW m \in Marks, NEW event \in {"read", "write"}, event \in m,
         event = "write" => "read" \notin m
  PROVE  \/ m = {event}
         \/ m # {event} /\ m = {"read", "write"} /\ m \ {event} = {"write"}
            /\ event = "read"
<1>1. CASE m = {"read"} \/ m = {"write"} \/ m = {"error"}
  BY <1>1
<1>2. CASE m = {"read", "write"}
  <2>1. event = "read"
    BY <1>2
  <2>2. {"read", "write"} \ {"read"} = {"write"} /\ {"read", "write"} # {"read"}
    OBVIOUS
  <2> QED
    BY <1>2, <2>1, <2>2
<1> QED
  BY <1>1, <1>2 DEF Marks

LEMMA EventActiveKeeps ==
  ASSUME Held, NEW l \in Loops, NEW event \in {"read", "write"}, EventActive(l, event)
  PROVE  Held'
<1>0. /\ Types /\ Tied /\ Part(l) /\ QueueInv(l) /\ LoopInv(l) /\ PhaseInv(l)
      /\ strays \subseteq {<<"write", FALSE>>} /\ batch[l] \subseteq Records
  BY OwnTypes
<1>1. /\ phase[l] = "batch" /\ callee[l] = None /\ ~draining[l]
      /\ event \in record[l].events
      /\ event = "write" => "read" \notin record[l].events
      /\ callee' = [callee EXCEPT ![l] = Found(l)]
      /\ record' = [record EXCEPT ![l] =
                      IF @.events = {event} THEN NoRecord
                      ELSE [number |-> @.number, of |-> @.of, events |-> @.events \ {event}]]
      /\ UNCHANGED <<kernel, books, channelMap, taskQ, phase, batch, draining, expired,
                     failed, cut>>
  BY DEF EventActive, At, AtHome
<1>u. UNCHANGED <<table, epoll, socket, loopOf, pair, channelMap>>
  BY <1>1 DEF kernel, books
<1>f. PICK f \in Connections \cup {None} : f = Found(l)
  BY <1>1, FoundAdded
<1>g. /\ record[l] \in Records /\ record[l].number \in Numbers
      /\ f # None => /\ Added(l, f) /\ loopOf[f] = l
                     /\ \A r \in batch[l] : r.of # f
  BY <1>1, <1>f, FoundAdded
<1>m. PICK m \in Marks : m = record[l].events
  BY <1>g DEF Records
<1>2. \/ m = {event} /\ record'[l] = NoRecord
      \/ /\ m = {"read", "write"} /\ f = record[l].of
         /\ record'[l] = [number |-> record[l].number, of |-> record[l].of,
                          events |-> {"write"}]
  <2>1. \/ m = {event}
        \/ m # {event} /\ m = {"read", "write"} /\ m \ {event} = {"write"}
    BY <1>1, <1>m, MarksLeft
  <2>2. record'[l] = IF m = {event} THEN NoRecord
                     ELSE [number |-> record[l].number, of |-> record[l].of,
                           events |-> m \ {event}]
    BY <1>0, <1>1, <1>m DEF Types, LoopTypes
  <2>3. m = {"read", "write"} => f = record[l].of
    <3>1. {"read", "write"} # {} /\ {"read", "write"} # {"write"}
      OBVIOUS
    <3> QED
      BY <1>0, <1>f, <1>m, <3>1 DEF LoopInv
  <2> QED
    BY <2>1, <2>2, <2>3
<1>3. record'[l] \in {NoRecord} \cup Records
  <2>1. {"write"} \in Marks
    BY DEF Marks
  <2> QED
    BY <1>2, <1>g, <2>1 DEF Records
<1>c. /\ f = None => UNCHANGED history
      /\ f # None => called' = called \cup {f}
  BY <1>f DEF EventActive, Note
<1>s. strays' \subseteq {<<"write", FALSE>>}
  <2>1. CASE f = None
    BY <1>0, <1>c, <2>1 DEF history
  <2>2. CASE f # None
    <3>1. strays' = IF f = record[l].of THEN strays
                    ELSE strays \cup {<<event, f \in called>>}
      BY <1>f, <2>2 DEF EventActive, Note
    <3>2. CASE f = record[l].of
      BY <1>0, <3>1, <3>2
    <3>3. CASE f # record[l].of
      <4>1. m = {event} /\ record[l].events \in {{}, {"write"}}
        BY <1>0, <1>2, <1>f, <3>3 DEF LoopInv
      <4>2. event = "write" /\ record[l].events = {"write"}
        BY <1>m, <4>1
      <4>3. f \notin called
        BY <1>0, <1>f, <2>2, <3>3, <4>2 DEF LoopInv
      <4>4. (f \in called) = FALSE
        BY <4>3
      <4>5. strays' = strays \cup {<<event, FALSE>>}
        BY <3>1, <3>3, <4>4, Zenon
      <4> QED
        BY <1>0, <4>2, <4>5
    <3> QED
      BY <3>2, <3>3
  <2> QED
    BY <2>1, <2>2
<1>4. LoopTypes'
  <2>1. record' \in [Loops -> {NoRecord} \cup Records]
    <3>1. record' = [record EXCEPT ![l] = record'[l]]
      BY <1>0, <1>1 DEF Types, LoopTypes
    <3> QED
      BY <1>0, <1>3, <3>1 DEF Types, LoopTypes
  <2>2. callee' \in [Loops -> Connections \cup {None}]
    BY <1>0, <1>1, <1>f DEF Types, LoopTypes
  <2> QED
    BY <1>0, <1>1, <2>1, <2>2 DEF Types, LoopTypes
<1>5. OthersStay(l) /\ callee'[l] = f
  BY <1>0, <1>1, <1>f DEF Types, LoopTypes, OthersStay
<1>6. QueueInv(l)'
  <2>1. ASSUME NEW t \in Tasks, TaskInv(l, t) PROVE TaskInv(l, t)'
    <3>1. t[1] = "ADD" /\ ~Added(l, t[2]) /\ t[2] \notin called /\ loopOf[t[2]] = l
          /\ socket[t[2]] \in Numbers /\ table[socket[t[2]]] = t[2]
      BY <1>1, <2>1 DEF TaskInv
    <3>2. t[2] \notin called'
      BY <1>c, <1>g, <3>1 DEF history
    <3> QED
      BY <1>u, <3>1, <3>2 DEF TaskInv, Added
  <2> QED
    BY <1>0, <1>1, <2>1, SameQueue
<1>7. LoopInv(l)'
  <2>1. f # None => Added(l, f)' /\ \A r \in batch'[l] : r.of # f
    BY <1>1, <1>g, <1>u DEF Added
  <2>2. \A r \in batch'[l] :
         /\ channelMap'[l][r.number] = r.of
         /\ \A s \in batch'[l] : r.number = s.number => r = s
         /\ record'[l].number # r.number
    <3>1. record'[l].number \in {0, record[l].number}
      BY <1>2, <1>g, NoRecordIs DEF Records
    <3>2. \A r \in batch[l] : r.number \in Numbers
      BY <1>0 DEF Records
    <3> QED
      BY <1>0, <1>1, <1>u, <3>1, <3>2, NoRecordIs DEF LoopInv
  <2>3. record'[l].events \in {{}, {"write"}}
    BY <1>2, <1>g, NoRecordIs DEF Records
  <2>4. record'[l].events = {"write"} => Found(l)' = record'[l].of
    <3>1. CASE record'[l] = NoRecord
      BY <3>1, NoRecordIs
    <3>2. CASE /\ f = record[l].of
               /\ record'[l] = [number |-> record[l].number, of |-> record[l].of,
                                events |-> {"write"}]
      <4>1. record'[l].number = record[l].number /\ record'[l].of = record[l].of
        BY <1>g, <3>2 DEF Records
      <4> QED
        BY <1>f, <1>u, <3>2, <4>1 DEF Found
    <3> QED
      BY <1>2, <3>1, <3>2
  <2>5. \A c \in expired'[l] : Added(l, c)'
    BY <1>0, <1>1, <1>u DEF LoopInv, Added
  <2> QED
    BY <1>5, <2>1, <2>2, <2>3, <2>4, <2>5 DEF LoopInv
<1>8. PhaseInv(l)'
  <2>1. record'[l].events \in {{}, {"write"}}
    BY <1>2, <1>g, NoRecordIs DEF Records
  <2> QED
    BY <1>0, <1>1, <2>1 DEF PhaseInv
<1>9. \A c \in Connections : loopOf[c] = l /\ Pending(c) => Pending(c)'
  BY <1>1, <1>u DEF Pending
<1>10. called' \ called \subseteq {c \in Connections : loopOf[c] = l}
  BY <1>c, <1>g DEF history
<1>11. UNCHANGED <<kernel, books, channelMap, failed>>
  BY <1>1
<1> QED
  BY <1>0, <1>4, <1>5, <1>6, <1>7, <1>8, <1>9, <1>10, <1>11, <1>s, OwnStep DEF Part

\* A loop's own thread posts the task of a connection that is there.
LEMMA PostKeeps ==
  ASSUME Held, NEW l \in Loops, NEW type \in {"MODIFY", "DELETE"},
         NEW c \in Connections, Added(l, c), ~draining[l], Post(l, type, c),
         UNCHANGED <<kernel, books, channelMap, batch, called>>,
         type = "DELETE" => /\ callee'[l] = None /\ c \notin expired'[l]
                            /\ \A r \in batch[l] : r.of # c
  PROVE  /\ QueueInv(l)' /\ draining'[l]
         /\ taskQ' \in [Loops -> Seq(Tasks)] /\ draining' \in [Loops -> BOOLEAN]
         /\ \A k \in Loops : k # l => taskQ'[k] = taskQ[k] /\ draining'[k] = draining[k]
         /\ \A d \in Connections : loopOf[d] = l /\ Pending(d) => Pending(d)'
<1>0. Types /\ QueueInv(l) /\ MapInv
  BY OwnTypes DEF Tied
<1>q. taskQ[l] \in Seq(Tasks) /\ Len(taskQ[l]) \in Nat
  BY <1>0, QueueTyped
<1>u. UNCHANGED <<table, epoll, socket, loopOf, pair, channelMap, batch, called>>
  BY DEF kernel, books
<1>t. PICK t \in Tasks : t = <<type, c>>
  BY DEF Tasks
<1>t1. t[1] = type /\ t[2] = c /\ t[1] # "ADD" /\ loopOf[c] = l
  BY <1>0, <1>t, AddedOwned DEF Types
<1>1. taskQ' = [taskQ EXCEPT ![l] = Append(taskQ[l], t)]
      /\ draining' = [draining EXCEPT ![l] = TRUE]
  BY <1>t DEF Post
<1>a. /\ Append(taskQ[l], t) \in Seq(Tasks)
      /\ Len(Append(taskQ[l], t)) = Len(taskQ[l]) + 1
      /\ \A i \in 1 .. Len(taskQ[l]) : Append(taskQ[l], t)[i] = taskQ[l][i]
  BY <1>q, AppendProperties
<1>2. /\ taskQ' \in [Loops -> Seq(Tasks)] /\ draining' \in [Loops -> BOOLEAN]
      /\ taskQ'[l] = Append(taskQ[l], t)
      /\ \A k \in Loops : k # l => taskQ'[k] = taskQ[k] /\ draining'[k] = draining[k]
  BY <1>0, <1>1, <1>a DEF Types, LoopTypes
<1>3. draining'[l]
  BY <1>0, <1>1 DEF Types, LoopTypes
<1>4. QueueInv(l)'
  <2>1. TaskInv(l, t)'
    BY <1>t1, <1>3, <1>u DEF TaskInv, Added
  <2>2. \A i \in 1 .. Len(taskQ[l]) : taskQ[l][i][1] = "ADD" /\ taskQ[l][i][2] # t[2]
    BY <1>0, <1>t1, OnlyAdds
  <2>3. \A u \in Tasks : u[1] = "ADD" /\ u[2] # t[2] /\ TaskInv(l, u) => TaskInv(l, u)'
    BY <1>u DEF TaskInv, Added
  <2>4. \A i \in 1 .. Len(taskQ[l]) :
            "ADD" \in {t[1], taskQ[l][i][1]} /\ taskQ[l][i][2] # t[2]
    BY <2>2
  <2>5. \A u \in Tasks : "ADD" \in {t[1], u[1]} /\ u[2] # t[2] /\ TaskInv(l, u) =>
            TaskInv(l, u)'
    BY <1>t1, <2>3
  <2> QED
    BY <1>0, <1>2, <2>1, <2>4, <2>5, PostedQueue
<1>5. ASSUME NEW d \in Connections, loopOf[d] = l, Pending(d) PROVE Pending(d)'
  <2>1. PICK i \in 1 .. Len(taskQ[l]) : taskQ[l][i] = <<"ADD", d>>
    BY <1>5 DEF Pending
  <2>2. i \in 1 .. Len(taskQ'[l]) /\ taskQ'[l][i] = <<"ADD", d>>
    BY <1>q, <1>2, <1>a, <2>1
  <2> QED
    BY <1>5, <1>u, <2>2 DEF Pending
<1> QED
  BY <1>2, <1>3, <1>4, <1>5

LEMMA CallbackModifyKeeps ==
  ASSUME Held, NEW l \in Loops, CallbackModify(l)
  PROVE  Held'
<1>0. /\ Types /\ Tied /\ Part(l) /\ QueueInv(l) /\ LoopInv(l) /\ PhaseInv(l)
      /\ strays \subseteq {<<"write", FALSE>>} /\ callee[l] \in Connections \cup {None}
  BY OwnTypes
<1>1. /\ callee[l] # None /\ ~draining[l] /\ Post(l, "MODIFY", callee[l])
      /\ UNCHANGED <<kernel, books, channelMap, phase, batch, record, callee, expired,
                     failed, cut, history>>
  BY DEF CallbackModify, InCallback
<1>u. UNCHANGED <<table, epoll, socket, loopOf, pair, channelMap, called, strays>>
  BY <1>1 DEF kernel, books, history
<1>c. PICK c \in Connections : c = callee[l] /\ Added(l, c)
  BY <1>0, <1>1 DEF LoopInv
<1>2. /\ QueueInv(l)' /\ draining'[l]
      /\ taskQ' \in [Loops -> Seq(Tasks)] /\ draining' \in [Loops -> BOOLEAN]
      /\ \A k \in Loops : k # l => taskQ'[k] = taskQ[k] /\ draining'[k] = draining[k]
      /\ \A d \in Connections : loopOf[d] = l /\ Pending(d) => Pending(d)'
  <2>1. Post(l, "MODIFY", c) /\ UNCHANGED <<kernel, books, channelMap, batch, called>>
    BY <1>1, <1>u, <1>c
  <2>2. "MODIFY" # "DELETE"
    OBVIOUS
  <2> QED
    BY <1>1, <1>c, <2>1, <2>2, PostKeeps
<1>3. LoopTypes'
  BY <1>0, <1>1, <1>2 DEF Types, LoopTypes
<1>4. OthersStay(l)
  BY <1>1, <1>2 DEF OthersStay
<1>5. LoopInv(l)'
  BY <1>0, <1>1, <1>u DEF LoopInv, Added, Found
<1>6. PhaseInv(l)'
  BY <1>0, <1>1 DEF PhaseInv, AtHome
<1>7. UNCHANGED <<kernel, books, channelMap, failed>>
  BY <1>1
<1> QED
  BY <1>0, <1>2, <1>3, <1>4, <1>5, <1>6, <1>7, <1>u, OwnStep DEF Part

LEMMA CallbackDeleteKeeps ==
  ASSUME Held, NEW l \in Loops, CallbackDelete(l)
  PROVE  Held'
<1>0. /\ Types /\ Tied /\ Part(l) /\ QueueInv(l) /\ LoopInv(l) /\ PhaseInv(l)
      /\ strays \subseteq {<<"write", FALSE>>} /\ callee[l] \in Connections \cup {None}
  BY OwnTypes
<1>1. /\ callee[l] # None /\ ~draining[l] /\ Post(l, "DELETE", callee[l])
      /\ callee' = [callee EXCEPT ![l] = None]
      /\ UNCHANGED <<kernel, books, channelMap, phase, batch, record, expired,
                     failed, cut, history>>
  BY DEF CallbackDelete, InCallback
<1>u. UNCHANGED <<table, epoll, socket, loopOf, pair, channelMap, called, strays>>
  BY <1>1 DEF kernel, books, history
<1>c. PICK c \in Connections : c = callee[l] /\ Added(l, c) /\ \A r \in batch[l] : r.of # c
  BY <1>0, <1>1 DEF LoopInv
<1>p. phase[l] = "batch" /\ expired[l] = {}
  BY <1>0, <1>1 DEF PhaseInv
<1>n. /\ callee' \in [Loops -> Connections \cup {None}] /\ callee'[l] = None
      /\ \A k \in Loops : k # l => callee'[k] = callee[k]
  BY <1>0, <1>1 DEF Types, LoopTypes
<1>2. /\ QueueInv(l)' /\ draining'[l]
      /\ taskQ' \in [Loops -> Seq(Tasks)] /\ draining' \in [Loops -> BOOLEAN]
      /\ \A k \in Loops : k # l => taskQ'[k] = taskQ[k] /\ draining'[k] = draining[k]
      /\ \A d \in Connections : loopOf[d] = l /\ Pending(d) => Pending(d)'
  <2>1. Post(l, "DELETE", c) /\ UNCHANGED <<kernel, books, channelMap, batch, called>>
    BY <1>1, <1>u, <1>c
  <2>2. callee'[l] = None /\ c \notin expired'[l]
    BY <1>1, <1>p, <1>n
  <2> QED
    BY <1>1, <1>c, <2>1, <2>2, PostKeeps
<1>3. LoopTypes'
  BY <1>0, <1>1, <1>2, <1>n DEF Types, LoopTypes
<1>4. OthersStay(l)
  BY <1>1, <1>2, <1>n DEF OthersStay
<1>5. LoopInv(l)'
  BY <1>0, <1>1, <1>n, <1>u DEF LoopInv, Added, Found
<1>6. PhaseInv(l)'
  BY <1>0, <1>1, <1>p, <1>n DEF PhaseInv, AtHome
<1>7. UNCHANGED <<kernel, books, channelMap, failed>>
  BY <1>1
<1> QED
  BY <1>0, <1>2, <1>3, <1>4, <1>5, <1>6, <1>7, <1>u, OwnStep DEF Part

LEMMA ExpireKeeps ==
  ASSUME Held, NEW l \in Loops, Expire(l)
  PROVE  Held'
<1>0. /\ Types /\ Tied /\ Part(l) /\ QueueInv(l) /\ LoopInv(l) /\ PhaseInv(l)
      /\ strays \subseteq {<<"write", FALSE>>} /\ expired[l] \subseteq Connections
  BY OwnTypes
<1>1. /\ phase[l] = "sweep" /\ ~draining[l]
      /\ UNCHANGED <<kernel, books, channelMap, phase, batch, record, callee,
                     failed, cut, history>>
  BY DEF Expire, At
<1>u. UNCHANGED <<table, epoll, socket, loopOf, pair, channelMap, called, strays>>
  BY <1>1 DEF kernel, books, history
<1>c. PICK c \in expired[l] : /\ Post(l, "DELETE", c)
                              /\ expired' = [expired EXCEPT ![l] = @ \ {c}]
  BY DEF Expire
<1>d. c \in Connections /\ Added(l, c)
  BY <1>0 DEF LoopInv
<1>p. batch[l] = {} /\ callee[l] = None
  BY <1>0, <1>1 DEF PhaseInv
<1>n. /\ expired' \in [Loops -> SUBSET Connections] /\ expired'[l] = expired[l] \ {c}
      /\ \A k \in Loops : k # l => expired'[k] = expired[k]
  BY <1>0, <1>c DEF Types, LoopTypes
<1>2. /\ QueueInv(l)' /\ draining'[l]
      /\ taskQ' \in [Loops -> Seq(Tasks)] /\ draining' \in [Loops -> BOOLEAN]
      /\ \A k \in Loops : k # l => taskQ'[k] = taskQ[k] /\ draining'[k] = draining[k]
      /\ \A d \in Connections : loopOf[d] = l /\ Pending(d) => Pending(d)'
  <2>1. UNCHANGED <<kernel, books, channelMap, batch, called>>
    BY <1>1, <1>u
  <2>2. callee'[l] = None /\ c \notin expired'[l] /\ \A r \in batch[l] : r.of # c
    BY <1>1, <1>p, <1>n
  <2> QED
    BY <1>1, <1>c, <1>d, <2>1, <2>2, PostKeeps
<1>3. LoopTypes'
  BY <1>0, <1>1, <1>2, <1>n DEF Types, LoopTypes
<1>4. OthersStay(l)
  BY <1>1, <1>2, <1>n DEF OthersStay
<1>5. LoopInv(l)'
  BY <1>0, <1>1, <1>p, <1>n, <1>u DEF LoopInv, Added, Found
<1>6. PhaseInv(l)'
  BY <1>0, <1>1, <1>p, <1>n DEF PhaseInv, AtHome
<1>7. UNCHANGED <<kernel, books, channelMap, failed>>
  BY <1>1
<1> QED
  BY <1>0, <1>2, <1>3, <1>4, <1>5, <1>6, <1>7, <1>u, OwnStep DEF Part

LEMMA CallbackReturnKeeps ==
  ASSUME Held, NEW l \in Loops, CallbackReturn(l)
  PROVE  Held'
<1>0. /\ Types /\ Tied /\ Part(l) /\ QueueInv(l) /\ LoopInv(l) /\ PhaseInv(l)
      /\ strays \subseteq {<<"write", FALSE>>}
  BY OwnTypes
<1>1. /\ callee' = [callee EXCEPT ![l] = None]
      /\ UNCHANGED <<kernel, books, channelMap, taskQ, phase, batch, record, draining,
                     expired, failed, cut, history>>
  BY DEF CallbackReturn
<1>u. UNCHANGED <<table, epoll, socket, loopOf, pair, channelMap, called, strays>>
  BY <1>1 DEF kernel, books, history
<1>2. /\ callee' \in [Loops -> Connections \cup {None}] /\ callee'[l] = None
      /\ \A k \in Loops : k # l => callee'[k] = callee[k]
  BY <1>0, <1>1 DEF Types, LoopTypes
<1>3. LoopTypes'
  BY <1>0, <1>1, <1>2 DEF Types, LoopTypes
<1>4. OthersStay(l)
  BY <1>1, <1>2 DEF OthersStay
<1>5. QueueInv(l)'
  <2>1. \A t \in Tasks : TaskInv(l, t) => TaskInv(l, t)'
    BY <1>1, <1>2, <1>u DEF TaskInv, Added
  <2> QED
    BY <1>0, <1>1, <2>1, SameQueue
<1>6. LoopInv(l)'
  BY <1>0, <1>1, <1>2, <1>u DEF LoopInv, Added, Found
<1>7. PhaseInv(l)'
  BY <1>0, <1>1, <1>2 DEF PhaseInv, AtHome
<1>8. \A c \in Connections : loopOf[c] = l /\ Pending(c) => Pending(c)'
  BY <1>1, <1>u DEF Pending
<1>9. UNCHANGED <<kernel, books, channelMap, failed>>
  BY <1>1
<1> QED
  BY <1>0, <1>3, <1>4, <1>5, <1>6, <1>7, <1>8, <1>9, <1>u, OwnStep DEF Part

\* The steps that only move the loop along run().
LEMMA MoveOn ==
  ASSUME Held, NEW l \in Loops, NEW next \in Labels,
         phase' = [phase EXCEPT ![l] = next],
         UNCHANGED <<kernel, books, channelMap, taskQ, batch, record, callee, expired,
                     failed, history>>,
         draining' \in [Loops -> BOOLEAN],
         \A k \in Loops : k # l => draining'[k] = draining[k],
         draining[l] => draining'[l], batch[l] = {}, record[l] = NoRecord,
         callee[l] = None, expired[l] = {},
         next \notin {"batch", "tasks", "sweep"} => ~draining'[l]
  PROVE  Held'
<1>0. /\ Types /\ Tied /\ Part(l) /\ QueueInv(l) /\ LoopInv(l) /\ PhaseInv(l)
      /\ strays \subseteq {<<"write", FALSE>>}
  BY OwnTypes
<1>u. UNCHANGED <<table, epoll, socket, loopOf, pair, channelMap, called, strays>>
  BY DEF kernel, books, history
<1>2. /\ phase' \in [Loops -> Labels] /\ phase'[l] = next
      /\ \A k \in Loops : k # l => phase'[k] = phase[k]
  BY <1>0 DEF Types, LoopTypes
<1>3. LoopTypes'
  BY <1>0, <1>2 DEF Types, LoopTypes
<1>4. OthersStay(l)
  BY <1>2 DEF OthersStay
<1>5. QueueInv(l)'
  <2>1. \A t \in Tasks : TaskInv(l, t) => TaskInv(l, t)'
    BY <1>u DEF TaskInv, Added
  <2> QED
    BY <1>0, <2>1, SameQueue
<1>6. LoopInv(l)'
  BY <1>0, <1>u DEF LoopInv, Added, Found
<1>7. PhaseInv(l)'
  BY <1>0, <1>2 DEF PhaseInv, AtHome, NoRecord
<1>8. \A c \in Connections : loopOf[c] = l /\ Pending(c) => Pending(c)'
  BY <1>u DEF Pending
<1> QED
  BY <1>0, <1>3, <1>4, <1>5, <1>6, <1>7, <1>8, <1>u, OwnStep DEF Part

LEMMA DispatchDoneKeeps ==
  ASSUME Held, NEW l \in Loops, DispatchDone(l)
  PROVE  Held'
<1>0. /\ Types /\ PhaseInv(l) /\ record[l] \in {NoRecord} \cup Records
  BY OwnTypes
<1>1. /\ phase[l] = "batch" /\ callee[l] = None /\ record[l].events = {} /\ batch[l] = {}
      /\ phase' = [phase EXCEPT ![l] = "tasks"]
      /\ draining' = [draining EXCEPT ![l] = TRUE]
      /\ UNCHANGED <<kernel, books, channelMap, taskQ, batch, record, callee, expired,
                     failed, cut, history>>
  BY DEF DispatchDone, At, AtHome
<1>2. record[l] = NoRecord
  BY <1>0, <1>1, MarksOf DEF Records
<1>3. expired[l] = {}
  BY <1>0, <1>1 DEF PhaseInv
<1>4. /\ draining' \in [Loops -> BOOLEAN] /\ draining'[l]
      /\ \A k \in Loops : k # l => draining'[k] = draining[k]
  BY <1>0, <1>1 DEF Types, LoopTypes
<1>5. "tasks" \in Labels
  BY DEF Labels
<1> QED
  BY <1>1, <1>2, <1>3, <1>4, <1>5, MoveOn

LEMMA SweepDoneKeeps ==
  ASSUME Held, NEW l \in Loops, SweepDone(l)
  PROVE  Held'
<1>0. Types /\ PhaseInv(l)
  BY OwnTypes
<1>1. /\ phase[l] = "sweep" /\ ~draining[l] /\ expired[l] = {}
      /\ phase' = [phase EXCEPT ![l] = "wait"]
      /\ UNCHANGED <<kernel, books, channelMap, taskQ, batch, record, callee, draining,
                     expired, failed, cut, history>>
  BY DEF SweepDone, At
<1>2. batch[l] = {} /\ record[l] = NoRecord /\ callee[l] = None
  BY <1>0, <1>1 DEF PhaseInv
<1>3. "wait" \in Labels /\ draining' \in [Loops -> BOOLEAN]
  BY <1>0, <1>1 DEF Labels, Types, LoopTypes
<1> QED
  BY <1>1, <1>2, <1>3, MoveOn

LEMMA StopLoopKeeps ==
  ASSUME Held, NEW l \in Loops, StopLoop(l)
  PROVE  Held'
<1>0. Types /\ PhaseInv(l)
  BY OwnTypes
<1>1. /\ phase[l] = "wait"
      /\ phase' = [phase EXCEPT ![l] = "closeMap"]
      /\ UNCHANGED <<kernel, books, channelMap, taskQ, batch, record, callee, draining,
                     expired, failed, cut, history>>
  BY DEF StopLoop, At
<1>2. batch[l] = {} /\ record[l] = NoRecord /\ callee[l] = None /\ expired[l] = {}
      /\ ~draining[l]
  BY <1>0, <1>1 DEF PhaseInv
<1>3. "closeMap" \in Labels /\ draining' \in [Loops -> BOOLEAN]
  BY <1>0, <1>1 DEF Labels, Types, LoopTypes
<1> QED
  BY <1>1, <1>2, <1>3, MoveOn

LEMMA DrainReturnKeeps ==
  ASSUME Held, NEW l \in Loops, DrainReturn(l)
  PROVE  Held'
<1>0. /\ Types /\ Tied /\ Part(l) /\ QueueInv(l) /\ LoopInv(l) /\ PhaseInv(l)
      /\ strays \subseteq {<<"write", FALSE>>} /\ expired[l] \subseteq Connections
  BY OwnTypes
<1>1. /\ taskQ[l] = <<>> /\ draining' = [draining EXCEPT ![l] = FALSE]
      /\ IF phase[l] = "tasks"
           THEN /\ phase' = [phase EXCEPT ![l] = "sweep"]
                /\ \E idle \in SUBSET ({channelMap[l][n] : n \in Numbers} \ {None}) :
                      expired' = [expired EXCEPT ![l] = idle]
           ELSE UNCHANGED <<phase, expired>>
      /\ UNCHANGED <<kernel, books, channelMap, taskQ, batch, record, callee,
                     failed, cut, history>>
  BY DEF DrainReturn
<1>u. UNCHANGED <<table, epoll, socket, loopOf, pair, channelMap, called, strays>>
  BY <1>1 DEF kernel, books, history
<1>2. ASSUME NEW n \in Numbers, channelMap[l][n] # None
      PROVE  channelMap[l][n] \in Connections /\ Added(l, channelMap[l][n])
  <2>1. PICK c \in Connections : c = channelMap[l][n]
    BY <1>0, <1>2 DEF Types, KernelTypes
  <2>2. table[n] = c
    BY <1>0, <1>2, <2>1 DEF Tied, MapInv
  <2>3. socket[c] = n
    BY <1>0, <2>1, <2>2 DEF Tied, TableInv
  <2> QED
    BY <2>1, <2>3 DEF Added
<1>3. /\ expired' \in [Loops -> SUBSET Connections] /\ phase' \in [Loops -> Labels]
      /\ \A k \in Loops : k # l => expired'[k] = expired[k] /\ phase'[k] = phase[k]
      /\ \A c \in expired'[l] : Added(l, c)
      /\ phase'[l] = IF phase[l] = "tasks" THEN "sweep" ELSE phase[l]
      /\ phase[l] # "tasks" => expired'[l] = expired[l]
  <2>1. CASE phase[l] = "tasks"
    <3>1. phase' = [phase EXCEPT ![l] = "sweep"] /\ "sweep" \in Labels
      BY <1>1, <2>1 DEF Labels
    <3>2. PICK idle \in SUBSET ({channelMap[l][n] : n \in Numbers} \ {None}) :
            expired' = [expired EXCEPT ![l] = idle]
      BY <1>1, <2>1
    <3>3. idle \subseteq Connections /\ \A c \in idle : Added(l, c)
      BY <1>2
    <3> QED
      BY <1>0, <2>1, <3>1, <3>2, <3>3 DEF Types, LoopTypes
  <2>2. CASE phase[l] # "tasks"
    BY <1>0, <1>1, <2>2 DEF Types, LoopTypes, LoopInv
  <2> QED
    BY <2>1, <2>2
<1>4. /\ draining' \in [Loops -> BOOLEAN] /\ ~draining'[l]
      /\ \A k \in Loops : k # l => draining'[k] = draining[k]
  BY <1>0, <1>1 DEF Types, LoopTypes
<1>5. LoopTypes'
  BY <1>0, <1>1, <1>3, <1>4 DEF Types, LoopTypes
<1>6. OthersStay(l)
  BY <1>1, <1>3, <1>4 DEF OthersStay
<1>7. QueueInv(l)'
  <2>1. Len(taskQ'[l]) = 0
    BY <1>1
  <2> QED
    BY <2>1 DEF QueueInv
<1>8. LoopInv(l)'
  BY <1>0, <1>1, <1>3, <1>u DEF LoopInv, Added, Found
<1>9. PhaseInv(l)'
  BY <1>0, <1>1, <1>3, <1>4 DEF PhaseInv, AtHome
<1>10. \A c \in Connections : loopOf[c] = l /\ Pending(c) => Pending(c)'
  BY <1>1, <1>u DEF Pending
<1>11. UNCHANGED <<kernel, books, channelMap, failed>>
  BY <1>1
<1> QED
  BY <1>0, <1>5, <1>6, <1>7, <1>8, <1>9, <1>10, <1>11, <1>u, OwnStep DEF Part

-----------------------------------------------------------------------------
\* A step that changes what the kernel and the map of loop l know about c, one
\* of its connections.
LEMMA KernelStep ==
  ASSUME Held, NEW l \in Loops, NEW c \in Connections, loopOf[c] = l,
         UNCHANGED books, KernelTypes', BookTypes', PairInv', MapInv', EpollInv',
         LoopTypes', OthersStay(l), Part(l)',
         \A k \in Loops : k # l => channelMap'[k] = channelMap[k],
         \A d \in Connections : d # c =>
            /\ \A k \in Loops : Added(k, d)' <=> Added(k, d)
            /\ socket[d] \in Numbers /\ table[socket[d]] = d => table'[socket[d]] = d
            /\ loopOf[d] = l /\ Pending(d) => Pending(d)',
         \A n \in Numbers : table'[n] \in Connections => table'[n] = table[n],
         \A n \in Numbers : table'[n] = c => Pending(c)' \/ Added(l, c)',
         called' \ called \subseteq {d \in Connections : loopOf[d] = l},
         strays' \subseteq {<<"write", FALSE>>}
  PROVE  Held'
<1>h. Types /\ Tied /\ (\A k \in Loops : Part(k)) /\ KernelTypes /\ BookTypes
  BY DEF Held, Types
<1>u. UNCHANGED <<socket, loopOf, pair>>
  BY DEF books
<1>1. CalledInv'
  BY <1>h, <1>u, Distinct DEF Tied, CalledInv
<1>2. ASSUME NEW d \in Connections, d # c, loopOf[d] # None, Pending(d) PROVE Pending(d)'
  <2>1. loopOf[d] \in Loops
    BY <1>h, <1>2 DEF BookTypes
  <2>2. CASE loopOf[d] = l
    BY <1>2, <2>2
  <2>3. CASE loopOf[d] # l
    BY <1>2, <1>u, <2>1, <2>3 DEF Pending, OthersStay
  <2> QED
    BY <2>2, <2>3
<1>3. TableInv'
  <2>1. ASSUME NEW n \in Numbers, NEW d \in Connections, table'[n] = d
        PROVE  /\ loopOf'[d] # None /\ socket'[d] = n
               /\ Pending(d)' \/ Added(loopOf[d], d)'
    <3>1. table[n] = d
      BY <2>1
    <3>2. /\ loopOf[d] # None /\ socket[d] = n
          /\ Pending(d) \/ Added(loopOf[d], d)
      BY <1>h, <3>1 DEF Tied, TableInv
    <3>3. loopOf[d] \in Loops /\ loopOf'[d] = loopOf[d]
      BY <1>h, <1>u, <3>2 DEF BookTypes
    <3>4. Pending(d)' \/ Added(loopOf[d], d)'
      <4>1. CASE d = c
        <5>1. Pending(c)' \/ Added(l, c)'
          BY <2>1, <4>1
        <5>2. Added(l, c)' => Added(loopOf[c], c)'
          BY <1>u DEF Added
        <5> QED
          BY <4>1, <5>1, <5>2
      <4>2. CASE d # c
        <5>1. Added(loopOf[d], d) => Added(loopOf[d], d)'
          <6>1. PICK k \in Loops : k = loopOf[d]
            BY <3>3
          <6>2. Added(k, d)' <=> Added(k, d)
            BY <4>2
          <6> QED
            BY <3>3, <6>1, <6>2 DEF Added
        <5> QED
          BY <1>2, <3>2, <4>2, <5>1
      <4> QED
        BY <4>1, <4>2
    <3> QED
      BY <1>u, <3>2, <3>4
  <2> QED
    BY <2>1 DEF TableInv
<1>4. ASSUME NEW k \in Loops, k # l PROVE Part(k)'
  <2>1. \A d \in Connections : loopOf[d] = k =>
             /\ loopOf'[d] = k /\ socket'[d] = socket[d]
             /\ socket[d] \in Numbers /\ table[socket[d]] = d => table'[socket[d]] = d
             /\ d \in called' => d \in called
    BY <1>u, <1>4
  <2>2. /\ phase'[k] = phase[k] /\ batch'[k] = batch[k] /\ record'[k] = record[k]
        /\ callee'[k] = callee[k] /\ draining'[k] = draining[k]
        /\ expired'[k] = expired[k] /\ taskQ'[k] = taskQ[k]
        /\ channelMap'[k] = channelMap[k]
    BY <1>4 DEF OthersStay
  <2>3. Part(k) /\ MapInv
    BY <1>h DEF Tied
  <2> QED
    BY <1>h, <2>1, <2>2, <2>3, OtherLoop
<1> QED
  BY <1>1, <1>3, <1>4 DEF Held, Types, Tied

\* EPOLLERR comes first of a record, so it is about the connection it finds.
LEMMA OnErrorKeeps ==
  ASSUME Held, NEW l \in Loops, OnError(l)
  PROVE  Held'
<1>0. /\ Types /\ Tied /\ Part(l) /\ QueueInv(l) /\ LoopInv(l) /\ PhaseInv(l)
      /\ strays \subseteq {<<"write", FALSE>>} /\ batch[l] \subseteq Records
  BY OwnTypes
<1>1. /\ phase[l] = "batch" /\ callee[l] = None /\ ~draining[l]
      /\ "error" \in record[l].events
      /\ record' = [record EXCEPT ![l] = NoRecord]
      /\ UNCHANGED <<books, taskQ, phase, batch, callee, draining, expired, cut>>
      /\ Found(l) # None => Remove(l, Found(l)) /\ Note(l, "remove")
  BY DEF OnError, At, AtHome
<1>u. UNCHANGED <<socket, loopOf, pair>>
  BY <1>1 DEF books
<1>g. /\ record[l] \in Records /\ record[l].number \in Numbers
      /\ record[l].of \in Connections /\ Found(l) \in Connections \cup {None}
      /\ Found(l) # None =>
              /\ Added(l, Found(l)) /\ loopOf[Found(l)] = l
              /\ socket[Found(l)] = record[l].number
              /\ \A r \in batch[l] : r.of # Found(l)
  BY <1>1, FoundAdded
<1>f. Found(l) = record[l].of
  <2>1. "error" \notin {} /\ "error" \notin {"write"}
    OBVIOUS
  <2>2. record[l].events \notin {{}, {"write"}}
    BY <1>1, <2>1
  <2> QED
    BY <1>0, <2>2 DEF LoopInv
<1>c. PICK c \in Connections : c = Found(l)
  BY <1>f, <1>g
<1>2. /\ Added(l, c) /\ loopOf[c] = l /\ socket[c] = record[l].number
      /\ \A r \in batch[l] : r.of # c
      /\ Remove(l, c) /\ called' = called \cup {c} /\ strays' = strays
  BY <1>1, <1>c, <1>f, <1>g, Distinct DEF Note
<1>3. /\ failed' = failed
      /\ table' = [table EXCEPT ![socket[c]] = None]
      /\ epoll' = [k \in Loops |-> {e \in epoll[k] : e.of # c}]
      /\ channelMap' = [channelMap EXCEPT ![l][socket[c]] = None]
  BY <1>0, <1>2, RemoveDoes DEF Tied
<1>4. /\ KernelTypes' /\ BookTypes' /\ PairInv' /\ MapInv' /\ EpollInv'
      /\ \A d \in Connections : d # c =>
           /\ \A k \in Loops : Added(k, d)' <=> Added(k, d)
           /\ socket[d] \in Numbers /\ table[socket[d]] = d => table'[socket[d]] = d
      /\ \A n \in Numbers : table'[n] # None => table'[n] = table[n] /\ table[n] # c
      /\ \A k \in Loops : k # l => channelMap'[k] = channelMap[k]
  <2>1. UNCHANGED books
    BY <1>1
  <2> QED
    BY <1>0, <1>2, <1>3, <2>1, RemoveKeeps
<1>5. /\ LoopTypes' /\ record'[l] = NoRecord
      /\ \A k \in Loops : k # l => record'[k] = record[k]
  BY <1>0, <1>1 DEF Types, LoopTypes
<1>6. OthersStay(l)
  BY <1>1, <1>5 DEF OthersStay
<1>7. QueueInv(l)'
  <2>1. ASSUME NEW t \in Tasks, TaskInv(l, t) PROVE TaskInv(l, t)'
    <3>1. t[1] = "ADD" /\ ~Added(l, t[2]) /\ t[2] \notin called /\ loopOf[t[2]] = l
          /\ socket[t[2]] \in Numbers /\ table[socket[t[2]]] = t[2]
      BY <1>1, <2>1 DEF TaskInv
    <3>2. t[2] # c /\ t[2] \in Connections
      BY <1>2, <3>1, TaskTypes
    <3>3. t[2] \notin called' /\ ~Added(l, t[2])' /\ table'[socket[t[2]]] = t[2]
      BY <1>2, <1>4, <3>1, <3>2
    <3> QED
      BY <1>u, <3>1, <3>3 DEF TaskInv, Added
  <2> QED
    BY <1>0, <1>1, <2>1, SameQueue
<1>8. LoopInv(l)'
  <2>1. ASSUME NEW r \in batch[l]
        PROVE  /\ channelMap'[l][r.number] = r.of
               /\ \A s \in batch[l] : r.number = s.number => r = s
               /\ 0 # r.number
    <3>1. r.number \in Numbers
      BY <1>0 DEF Records
    <3>2. channelMap[l][r.number] = r.of /\ r.number # socket[c]
          /\ \A s \in batch[l] : r.number = s.number => r = s
      BY <1>0, <1>2 DEF LoopInv
    <3>3. channelMap'[l][r.number] = channelMap[l][r.number]
      BY <1>0, <1>3, <3>1, <3>2 DEF Types, KernelTypes
    <3> QED
      BY <3>1, <3>2, <3>3, NoRecordIs
  <2>2. expired'[l] = {} /\ callee'[l] = None
    BY <1>0, <1>1 DEF PhaseInv
  <2> QED
    BY <1>1, <1>5, <2>1, <2>2, NoRecordIs DEF LoopInv
<1>9. PhaseInv(l)'
  BY <1>0, <1>1, <1>5, NoRecordIs DEF PhaseInv, AtHome
<1>10. \A d \in Connections : loopOf[d] = l /\ Pending(d) => Pending(d)'
  BY <1>1, <1>u DEF Pending
<1>11. /\ \A n \in Numbers : table'[n] \in Connections => table'[n] = table[n]
       /\ \A n \in Numbers : table'[n] # c
  BY <1>4, Distinct
<1>12. called' \ called \subseteq {d \in Connections : loopOf[d] = l}
  BY <1>2
<1>13. Part(l)' /\ strays' \subseteq {<<"write", FALSE>>} /\ UNCHANGED books
  BY <1>0, <1>1, <1>2, <1>7, <1>8, <1>9 DEF Part
<1>14. \A d \in Connections : d # c =>
            /\ \A k \in Loops : Added(k, d)' <=> Added(k, d)
            /\ socket[d] \in Numbers /\ table[socket[d]] = d => table'[socket[d]] = d
            /\ loopOf[d] = l /\ Pending(d) => Pending(d)'
  BY <1>4, <1>10
<1>15. \A n \in Numbers : table'[n] = c => Pending(c)' \/ Added(l, c)'
  BY <1>11
<1>16. /\ KernelTypes' /\ BookTypes' /\ PairInv' /\ MapInv' /\ EpollInv'
       /\ \A k \in Loops : k # l => channelMap'[k] = channelMap[k]
  BY <1>4
<1>17. \A n \in Numbers : table'[n] \in Connections => table'[n] = table[n]
  BY <1>11
<1>18. LoopTypes' /\ loopOf[c] = l
  BY <1>2, <1>5
<1> QED
  BY <1>6, <1>12, <1>13, <1>14, <1>15, <1>16, <1>17, <1>18, KernelStep

-----------------------------------------------------------------------------
\* processTaskQ takes the first task of the queue, task t about connection c.
TaskTaken(l, t) ==
    /\ draining[l] /\ taskQ[l] # <<>> /\ t = taskQ[l][1]
    /\ taskQ' = [taskQ EXCEPT ![l] = Tail(@)]
    /\ UNCHANGED <<books, loop, cut, history>>

LEMMA TakenTask ==
  ASSUME Held, NEW l \in Loops, NEW t \in Tasks, TaskTaken(l, t)
  PROVE  /\ t[2] \in Connections /\ TaskInv(l, t) /\ loopOf[t[2]] = l
         /\ LoopTypes' /\ OthersStay(l) /\ taskQ'[l] = Tail(taskQ[l])
         /\ \A i \in 2 .. Len(taskQ[l]) : \A u \in Tasks : u = taskQ[l][i] =>
              /\ u[2] # t[2] /\ (t[1] = "ADD" \/ u[1] = "ADD")
         /\ \A d \in Connections : d # t[2] /\ loopOf[d] = l /\ Pending(d) => Pending(d)'
         /\ record[l].events \in {{}, {"write"}}
         /\ UNCHANGED <<socket, loopOf, pair, phase, batch, record, callee, draining,
                        expired, called, strays>>
<1>0. Types /\ QueueInv(l) /\ PhaseInv(l)
  BY OwnTypes
<1>u. UNCHANGED <<socket, loopOf, pair, phase, batch, record, callee, draining,
                  expired, called, strays>>
  BY DEF TaskTaken, books, loop, history
<1>q. /\ taskQ[l] \in Seq(Tasks) /\ Len(taskQ[l]) \in Nat /\ taskQ[l] # <<>>
      /\ \A i \in 1 .. Len(taskQ[l]) : taskQ[l][i] \in Tasks
  BY <1>0, QueueTyped DEF TaskTaken
<1>1. /\ Tail(taskQ[l]) \in Seq(Tasks) /\ Len(taskQ[l]) \in Nat \ {0}
      /\ Len(Tail(taskQ[l])) = Len(taskQ[l]) - 1
      /\ \A i \in 1 .. Len(Tail(taskQ[l])) : Tail(taskQ[l])[i] = taskQ[l][i + 1]
  BY <1>q, HeadTailProperties
<1>2. taskQ' \in [Loops -> Seq(Tasks)] /\ taskQ'[l] = Tail(taskQ[l])
      /\ \A k \in Loops : k # l => taskQ'[k] = taskQ[k]
  BY <1>0, <1>1 DEF TaskTaken, Types, LoopTypes
<1>3. 1 \in 1 .. Len(taskQ[l]) /\ t = taskQ[l][1]
  BY <1>1 DEF TaskTaken
<1>4. TaskInv(l, t) /\ t[2] \in Connections
  BY <1>0, <1>3, TaskTypes DEF QueueInv
<1>5. LoopTypes'
  BY <1>0, <1>u, <1>2 DEF Types, LoopTypes
<1>6. OthersStay(l)
  BY <1>u, <1>2 DEF OthersStay
<1>7. \A i \in 2 .. Len(taskQ[l]) :
         /\ taskQ[l][i][2] # t[2]
         /\ t[1] = "ADD" \/ taskQ[l][i][1] = "ADD"
  <2>1. ASSUME NEW i \in 2 .. Len(taskQ[l])
        PROVE  /\ taskQ[l][i][2] # t[2]
               /\ t[1] = "ADD" \/ taskQ[l][i][1] = "ADD"
    <3>1. i \in 1 .. Len(taskQ[l]) /\ i # 1
      BY <1>1
    <3> QED
      BY <1>0, <1>3, <3>1 DEF QueueInv
  <2> QED
    BY <2>1
<1>8. ASSUME NEW d \in Connections, d # t[2], loopOf[d] = l, Pending(d) PROVE Pending(d)'
  <2>1. PICK i \in 1 .. Len(taskQ[l]) : taskQ[l][i] = <<"ADD", d>>
    BY <1>8 DEF Pending
  <2>2. i # 1
    BY <1>3, <1>8, <2>1
  <2>3. i - 1 \in 1 .. Len(Tail(taskQ[l])) /\ (i - 1) + 1 = i
    BY <1>1, <2>1, <2>2
  <2>4. taskQ'[l][i - 1] = <<"ADD", d>>
    BY <1>1, <1>2, <2>1, <2>3
  <2> QED
    BY <1>2, <1>8, <1>u, <2>3, <2>4 DEF Pending
<1>9. record[l].events \in {{}, {"write"}}
  <2>1. draining[l]
    BY DEF TaskTaken
  <2> QED
    BY <1>0, <2>1, NoRecordIs DEF PhaseInv, AtHome
<1> QED
  BY <1>u, <1>2, <1>4, <1>5, <1>6, <1>7, <1>8, <1>9 DEF TaskInv

LEMMA RunAddKeeps ==
  ASSUME Held, NEW l \in Loops, NEW t \in Tasks, TaskTaken(l, t),
         t[1] = "ADD", Add(l, t[2])
  PROVE  Held'
<1>0. /\ Types /\ Tied /\ Part(l) /\ QueueInv(l) /\ LoopInv(l) /\ PhaseInv(l)
      /\ strays \subseteq {<<"write", FALSE>>} /\ batch[l] \subseteq Records
      /\ record[l] \in {NoRecord} \cup Records /\ callee[l] \in Connections \cup {None}
      /\ expired[l] \subseteq Connections
  BY OwnTypes
<1>c. PICK c \in Connections : c = t[2]
  BY TaskTypes
<1>1. /\ loopOf[c] = l /\ socket[c] \in Numbers /\ table[socket[c]] = c
      /\ ~Added(l, c) /\ c \notin called /\ Add(l, c)
  BY <1>c, TakenTask DEF TaskInv
<1>2. /\ LoopTypes' /\ OthersStay(l) /\ taskQ'[l] = Tail(taskQ[l])
      /\ \A i \in 2 .. Len(taskQ[l]) : \A u \in Tasks : u = taskQ[l][i] => u[2] # c
      /\ \A d \in Connections : d # c /\ loopOf[d] = l /\ Pending(d) => Pending(d)'
      /\ record[l].events \in {{}, {"write"}}
  BY <1>c, TakenTask
<1>u. UNCHANGED <<socket, loopOf, pair, phase, batch, record, callee, draining,
                  expired, called, strays>>
  BY TakenTask
<1>b. UNCHANGED books /\ taskQ[l] # <<>>
  BY DEF TaskTaken
<1>3. /\ UNCHANGED <<table, failed>> /\ channelMap[l][socket[c]] = None
      /\ \A e \in epoll[l] : e.number # socket[c]
      /\ epoll' = [epoll EXCEPT ![l] =
                     @ \cup {[number |-> socket[c], of |-> c, out |-> FALSE]}]
      /\ channelMap' = [channelMap EXCEPT ![l][socket[c]] = c]
  BY <1>0, <1>1, AddDoes DEF Tied
<1>4. /\ KernelTypes' /\ BookTypes' /\ PairInv' /\ MapInv' /\ EpollInv'
      /\ Added(l, c)'
      /\ \A d \in Connections : d # c =>
           \A k \in Loops : Added(k, d)' <=> Added(k, d)
      /\ \A k \in Loops : k # l => channelMap'[k] = channelMap[k]
  BY <1>0, <1>1, <1>b, <1>3, AddKeeps
<1>m. ASSUME NEW n \in Numbers
      PROVE  channelMap'[l][n] = IF n = socket[c] THEN c ELSE channelMap[l][n]
  BY <1>0, <1>1, <1>3 DEF Types, KernelTypes
<1>a. ASSUME NEW d \in Connections, Added(l, d) PROVE Added(l, d)'
  BY <1>1, <1>4, <1>a
<1>5. QueueInv(l)'
  <2>1. ASSUME NEW i \in 2 .. Len(taskQ[l]), NEW u \in Tasks, u = taskQ[l][i],
               TaskInv(l, u)
        PROVE  TaskInv(l, u)'
    <3>1. u[2] # c /\ u[2] \in Connections
      BY <1>2, <2>1, TaskTypes
    <3>2. Added(l, u[2])' <=> Added(l, u[2])
      BY <1>4, <3>1
    <3>3. UNCHANGED <<table, socket, loopOf, called, draining, callee, expired, batch>>
      BY <1>u, <1>3
    <3> QED
      BY <2>1, <3>2, <3>3 DEF TaskInv
  <2> QED
    BY <1>0, <1>2, <1>b, <2>1, TailQueue
<1>6. LoopInv(l)'
  <2>1. callee'[l] # None =>
          Added(l, callee[l])' /\ \A r \in batch'[l] : r.of # callee'[l]
    <3>1. SUFFICES ASSUME callee[l] # None
                   PROVE  Added(l, callee[l])' /\ \A r \in batch[l] : r.of # callee[l]
      BY <1>u
    <3>2. PICK d \in Connections : d = callee[l]
      BY <1>0, <3>1
    <3>3. Added(l, d)'
      BY <1>0, <1>a, <3>1, <3>2 DEF LoopInv
    <3> QED
      BY <1>0, <1>u, <3>1, <3>2, <3>3 DEF LoopInv, Added
  <2>2. ASSUME NEW r \in batch[l]
        PROVE  /\ channelMap'[l][r.number] = r.of
               /\ \A s \in batch[l] : r.number = s.number => r = s
               /\ record[l].number # r.number
    <3>1. r.number \in Numbers /\ r.of \in Connections
      BY <1>0 DEF Records
    <3>2. /\ channelMap[l][r.number] = r.of
          /\ \A s \in batch[l] : r.number = s.number => r = s
          /\ record[l].number # r.number
      BY <1>0 DEF LoopInv
    <3> QED
      BY <1>3, <1>m, <3>1, <3>2, Distinct
  <2>3. record[l].events = {"write"} =>
          Found(l)' \in {record[l].of, None} \/ Found(l)' \notin called
    <3>1. SUFFICES ASSUME record[l].events = {"write"}
                   PROVE  Found(l)' \in {record[l].of, None} \/ Found(l)' \notin called
      OBVIOUS
    <3>2. record[l].number \in Numbers
      BY <3>1, FoundAdded
    <3>3. Found(l)' = IF record[l].number = socket[c] THEN c ELSE Found(l)
      BY <1>u, <1>m, <3>2 DEF Found
    <3> QED
      BY <1>0, <1>1, <3>1, <3>3 DEF LoopInv
  <2>4. \A d \in expired[l] : Added(l, d)'
    BY <1>0, <1>a DEF LoopInv
  <2>5. \A d \in expired'[l] : Added(l, d)'
    BY <1>u, <2>4
  <2>6. \A r \in batch'[l] :
         /\ channelMap'[l][r.number] = r.of
         /\ \A s \in batch'[l] : r.number = s.number => r = s
         /\ record'[l].number # r.number
    BY <1>u, <2>2
  <2>7. /\ record'[l].events \in {{}, {"write"}}
        /\ record'[l].events = {"write"} =>
             Found(l)' \in {record'[l].of, None} \/ Found(l)' \notin called'
    BY <1>2, <1>u, <2>3
  <2> QED
    BY <2>1, <2>5, <2>6, <2>7 DEF LoopInv
<1>7. PhaseInv(l)'
  BY <1>0, <1>u DEF PhaseInv, AtHome
<1>8. \A d \in Connections : d # c =>
            /\ \A k \in Loops : Added(k, d)' <=> Added(k, d)
            /\ socket[d] \in Numbers /\ table[socket[d]] = d => table'[socket[d]] = d
            /\ loopOf[d] = l /\ Pending(d) => Pending(d)'
  BY <1>2, <1>3, <1>4
<1>9. /\ \A n \in Numbers : table'[n] \in Connections => table'[n] = table[n]
      /\ \A n \in Numbers : table'[n] = c => Pending(c)' \/ Added(l, c)'
  BY <1>3, <1>4
<1>10. called' \ called \subseteq {d \in Connections : loopOf[d] = l}
       /\ strays' \subseteq {<<"write", FALSE>>} /\ Part(l)'
  BY <1>0, <1>u, <1>5, <1>6, <1>7 DEF Part
<1>11. /\ KernelTypes' /\ BookTypes' /\ PairInv' /\ MapInv' /\ EpollInv'
       /\ \A k \in Loops : k # l => channelMap'[k] = channelMap[k]
  BY <1>4
<1>12. LoopTypes' /\ OthersStay(l)
  BY <1>2
<1> QED
  BY <1>1, <1>b, <1>8, <1>9, <1>10, <1>11, <1>12, KernelStep

LEMMA RunModifyKeeps ==
  ASSUME Held, NEW l \in Loops, NEW t \in Tasks, TaskTaken(l, t),
         t[1] = "MODIFY", Modify(l, t[2])
  PROVE  Held'
<1>0. /\ Types /\ Tied /\ Part(l) /\ QueueInv(l) /\ LoopInv(l) /\ PhaseInv(l)
      /\ strays \subseteq {<<"write", FALSE>>}
  BY OwnTypes
<1>c. PICK c \in Connections : c = t[2]
  BY TaskTypes
<1>1. loopOf[c] = l /\ Added(l, c) /\ Modify(l, c)
  <2>1. t[1] # "ADD"
    OBVIOUS
  <2> QED
    BY <1>c, <2>1, TakenTask DEF TaskInv
<1>2. /\ LoopTypes' /\ OthersStay(l) /\ taskQ'[l] = Tail(taskQ[l])
      /\ \A d \in Connections : d # c /\ loopOf[d] = l /\ Pending(d) => Pending(d)'
  BY <1>c, TakenTask
<1>u. UNCHANGED <<socket, loopOf, pair, phase, batch, record, callee, draining,
                  expired, called, strays>>
  BY TakenTask
<1>b. UNCHANGED books /\ taskQ[l] # <<>>
  BY DEF TaskTaken
<1>3. /\ UNCHANGED <<table, channelMap, failed>>
      /\ KernelTypes' /\ BookTypes' /\ PairInv' /\ MapInv' /\ EpollInv'
  BY <1>0, <1>1, <1>b, ModifyKeeps
<1>4. \A d \in Connections, k \in Loops : Added(k, d)' <=> Added(k, d)
  BY <1>u, <1>3 DEF Added
<1>5. QueueInv(l)'
  <2>1. ASSUME NEW u \in Tasks, TaskInv(l, u) PROVE TaskInv(l, u)'
    BY <1>u, <1>3, <2>1 DEF TaskInv, Added
  <2> QED
    BY <1>0, <1>2, <1>b, <2>1, TailQueue
<1>6. LoopInv(l)'
  BY <1>0, <1>u, <1>3 DEF LoopInv, Added, Found
<1>7. PhaseInv(l)'
  BY <1>0, <1>u DEF PhaseInv, AtHome
<1>8. \A d \in Connections : d # c =>
            /\ \A k \in Loops : Added(k, d)' <=> Added(k, d)
            /\ socket[d] \in Numbers /\ table[socket[d]] = d => table'[socket[d]] = d
            /\ loopOf[d] = l /\ Pending(d) => Pending(d)'
  BY <1>2, <1>3, <1>4
<1>9. /\ \A n \in Numbers : table'[n] \in Connections => table'[n] = table[n]
      /\ \A n \in Numbers : table'[n] = c => Pending(c)' \/ Added(l, c)'
  BY <1>1, <1>3, <1>4
<1>10. called' \ called \subseteq {d \in Connections : loopOf[d] = l}
       /\ strays' \subseteq {<<"write", FALSE>>} /\ Part(l)'
  BY <1>0, <1>u, <1>5, <1>6, <1>7 DEF Part
<1>11. /\ KernelTypes' /\ BookTypes' /\ PairInv' /\ MapInv' /\ EpollInv'
       /\ \A k \in Loops : k # l => channelMap'[k] = channelMap[k]
  BY <1>3
<1>12. LoopTypes' /\ OthersStay(l)
  BY <1>2
<1> QED
  BY <1>1, <1>b, <1>8, <1>9, <1>10, <1>11, <1>12, KernelStep

\* The write event of a record that is worked off may be all that is left of
\* the connection.
LEMMA RunDeleteKeeps ==
  ASSUME Held, NEW l \in Loops, NEW t \in Tasks, TaskTaken(l, t),
         t[1] = "DELETE", Remove(l, t[2])
  PROVE  Held'
<1>0. /\ Types /\ Tied /\ Part(l) /\ QueueInv(l) /\ LoopInv(l) /\ PhaseInv(l)
      /\ strays \subseteq {<<"write", FALSE>>} /\ batch[l] \subseteq Records
      /\ expired[l] \subseteq Connections
  BY OwnTypes
<1>c. PICK c \in Connections : c = t[2]
  BY TaskTypes
<1>d. t[1] # "ADD"
  OBVIOUS
<1>1. /\ loopOf[c] = l /\ Added(l, c) /\ Remove(l, c) /\ callee[l] = None
      /\ c \notin expired[l] /\ \A r \in batch[l] : r.of # c
  BY <1>c, <1>d, TakenTask DEF TaskInv
<1>2. /\ LoopTypes' /\ OthersStay(l) /\ taskQ'[l] = Tail(taskQ[l])
      /\ \A i \in 2 .. Len(taskQ[l]) : \A u \in Tasks : u = taskQ[l][i] =>
              u[2] # c /\ u[1] = "ADD"
      /\ \A d \in Connections : d # c /\ loopOf[d] = l /\ Pending(d) => Pending(d)'
      /\ record[l].events \in {{}, {"write"}}
  BY <1>c, <1>d, TakenTask
<1>u. UNCHANGED <<socket, loopOf, pair, phase, batch, record, callee, draining,
                  expired, called, strays>>
  BY TakenTask
<1>b. UNCHANGED books /\ taskQ[l] # <<>>
  BY DEF TaskTaken
<1>3. /\ failed' = failed
      /\ table' = [table EXCEPT ![socket[c]] = None]
      /\ epoll' = [k \in Loops |-> {e \in epoll[k] : e.of # c}]
      /\ channelMap' = [channelMap EXCEPT ![l][socket[c]] = None]
  BY <1>0, <1>1, RemoveDoes DEF Tied
<1>4. /\ KernelTypes' /\ BookTypes' /\ PairInv' /\ MapInv' /\ EpollInv'
      /\ \A d \in Connections : d # c =>
           /\ \A k \in Loops : Added(k, d)' <=> Added(k, d)
           /\ socket[d] \in Numbers /\ table[socket[d]] = d => table'[socket[d]] = d
      /\ \A n \in Numbers : table'[n] # None => table'[n] = table[n] /\ table[n] # c
      /\ \A k \in Loops : k # l => channelMap'[k] = channelMap[k]
  BY <1>0, <1>1, <1>b, <1>3, RemoveKeeps
<1>m. ASSUME NEW n \in Numbers
      PROVE  channelMap'[l][n] = IF n = socket[c] THEN None ELSE channelMap[l][n]
  BY <1>0, <1>1, <1>3 DEF Types, KernelTypes
<1>5. QueueInv(l)'
  <2>1. ASSUME NEW i \in 2 .. Len(taskQ[l]), NEW u \in Tasks, u = taskQ[l][i],
               TaskInv(l, u)
        PROVE  TaskInv(l, u)'
    <3>1. u[2] # c /\ u[2] \in Connections /\ u[1] = "ADD"
      BY <1>2, <2>1, TaskTypes
    <3>2. Added(l, u[2])' <=> Added(l, u[2])
      BY <1>4, <3>1
    <3>3. socket[u[2]] \in Numbers /\ table[socket[u[2]]] = u[2] => table'[socket[u[2]]] = u[2]
      BY <1>4, <3>1
    <3>4. UNCHANGED <<socket, loopOf, called, draining, callee, expired, batch>>
      BY <1>u
    <3> QED
      BY <2>1, <3>1, <3>2, <3>3, <3>4 DEF TaskInv
  <2> QED
    BY <1>0, <1>2, <1>b, <2>1, TailQueue
<1>6. LoopInv(l)'
  <2>1. callee'[l] = None
    BY <1>1, <1>u
  <2>2. ASSUME NEW r \in batch[l]
        PROVE  /\ channelMap'[l][r.number] = r.of
               /\ \A s \in batch[l] : r.number = s.number => r = s
               /\ record[l].number # r.number
    <3>1. r.number \in Numbers /\ r.of \in Connections
      BY <1>0 DEF Records
    <3>2. /\ channelMap[l][r.number] = r.of /\ r.of # c
          /\ \A s \in batch[l] : r.number = s.number => r = s
          /\ record[l].number # r.number
      BY <1>0, <1>1 DEF LoopInv
    <3>3. channelMap[l][socket[c]] = c
      BY <1>1 DEF Added
    <3> QED
      BY <1>m, <3>1, <3>2, <3>3
  <2>3. record[l].events = {"write"} =>
          Found(l)' \in {record[l].of, None} \/ Found(l)' \notin called
    <3>1. SUFFICES ASSUME record[l].events = {"write"}
                   PROVE  Found(l)' \in {record[l].of, None} \/ Found(l)' \notin called
      OBVIOUS
    <3>2. record[l].number \in Numbers
      BY <3>1, FoundAdded
    <3>3. Found(l)' = IF record[l].number = socket[c] THEN None ELSE Found(l)
      BY <1>u, <1>m, <3>2 DEF Found
    <3> QED
      BY <1>0, <3>1, <3>3 DEF LoopInv
  <2>4. \A d \in expired[l] : Added(l, d)'
    BY <1>0, <1>1, <1>4 DEF LoopInv
  <2>5. \A d \in expired'[l] : Added(l, d)'
    BY <1>u, <2>4
  <2>6. \A r \in batch'[l] :
         /\ channelMap'[l][r.number] = r.of
         /\ \A s \in batch'[l] : r.number = s.number => r = s
         /\ record'[l].number # r.number
    BY <1>u, <2>2
  <2>7. /\ record'[l].events \in {{}, {"write"}}
        /\ record'[l].events = {"write"} =>
             Found(l)' \in {record'[l].of, None} \/ Found(l)' \notin called'
    BY <1>2, <1>u, <2>3
  <2> QED
    BY <2>1, <2>5, <2>6, <2>7 DEF LoopInv
<1>7. PhaseInv(l)'
  BY <1>0, <1>u DEF PhaseInv, AtHome
<1>8. \A d \in Connections : d # c =>
            /\ \A k \in Loops : Added(k, d)' <=> Added(k, d)
            /\ socket[d] \in Numbers /\ table[socket[d]] = d => table'[socket[d]] = d
            /\ loopOf[d] = l /\ Pending(d) => Pending(d)'
  BY <1>2, <1>4
<1>9. /\ \A n \in Numbers : table'[n] \in Connections => table'[n] = table[n]
      /\ \A n \in Numbers : table'[n] = c => Pending(c)' \/ Added(l, c)'
  BY <1>4, Distinct
<1>10. called' \ called \subseteq {d \in Connections : loopOf[d] = l}
       /\ strays' \subseteq {<<"write", FALSE>>} /\ Part(l)'
  BY <1>0, <1>u, <1>5, <1>6, <1>7 DEF Part
<1>11. /\ KernelTypes' /\ BookTypes' /\ PairInv' /\ MapInv' /\ EpollInv'
       /\ \A k \in Loops : k # l => channelMap'[k] = channelMap[k]
  BY <1>4
<1>12. LoopTypes' /\ OthersStay(l)
  BY <1>2
<1> QED
  BY <1>1, <1>b, <1>8, <1>9, <1>10, <1>11, <1>12, KernelStep

LEMMA RunTaskKeeps ==
  ASSUME Held, NEW l \in Loops, RunTask(l)
  PROVE  Held'
<1>1. /\ draining[l] /\ taskQ[l] # <<>> /\ taskQ' = [taskQ EXCEPT ![l] = Tail(@)]
      /\ UNCHANGED <<books, loop, cut, history>>
  BY DEF RunTask
<1>2. Types /\ taskQ[l] \in Seq(Tasks)
  BY OwnTypes
<1>3. Head(taskQ[l]) = taskQ[l][1] /\ Len(taskQ[l]) \in Nat \ {0}
  BY <1>1, <1>2, HeadTailProperties
<1>4. PICK t \in Tasks : t = Head(taskQ[l])
  BY <1>2, <1>3, QueueTyped
<1>5. TaskTaken(l, t)
  BY <1>1, <1>3, <1>4 DEF TaskTaken
<1>6. CASE t[1] = "ADD"
  <2>1. Add(l, t[2])
    BY <1>4, <1>6 DEF RunTask
  <2> QED
    BY <1>5, <1>6, <2>1, RunAddKeeps
<1>7. CASE t[1] = "MODIFY"
  <2>1. Modify(l, t[2])
    BY <1>4, <1>7 DEF RunTask
  <2> QED
    BY <1>5, <1>7, <2>1, RunModifyKeeps
<1>8. CASE t[1] = "DELETE"
  <2>1. Remove(l, t[2])
    BY <1>4, <1>8 DEF RunTask
  <2> QED
    BY <1>5, <1>8, <2>1, RunDeleteKeeps
<1> QED
  BY <1>6, <1>7, <1>8, TaskTypes

-----------------------------------------------------------------------------
\* ~EventLoop closes a number that no connection has.
LEMMA CloseOwnKeeps ==
  ASSUME Held, NEW l \in Loops, NEW n \in Numbers, NEW next \in Labels,
         CloseOwn(l, n, next), table[n] \notin Connections,
         phase[l] \notin {"batch", "tasks", "sweep"},
         next \notin {"batch", "tasks", "sweep"}
  PROVE  Held'
<1>0. /\ Types /\ Tied /\ Part(l) /\ QueueInv(l) /\ LoopInv(l) /\ PhaseInv(l)
      /\ strays \subseteq {<<"write", FALSE>>} /\ \A k \in Loops : Part(k)
  BY OwnTypes DEF Held
<1>1. /\ table' = [table EXCEPT ![n] = None]
      /\ epoll' = [k \in Loops |-> {e \in epoll[k] : e.of # table[n]}]
      /\ phase' = [phase EXCEPT ![l] = next]
      /\ UNCHANGED <<books, channelMap, taskQ, batch, record, callee, draining, expired,
                     failed, history>>
  BY DEF CloseOwn, Close
<1>u. UNCHANGED <<socket, loopOf, pair, called, strays>>
  BY <1>1 DEF books, history
<1>t. /\ table \in [Numbers -> Connections \cup Pairs \cup {None}]
      /\ epoll \in [Loops -> SUBSET Entries]
  BY <1>0 DEF Types, KernelTypes
<1>2. epoll' = epoll
  <2>1. ASSUME NEW k \in Loops PROVE {e \in epoll[k] : e.of # table[n]} = epoll[k]
    BY <1>t DEF Entries
  <2> QED
    BY <1>1, <1>t, <2>1
<1>3. /\ \A m \in Numbers : table'[m] = IF m = n THEN None ELSE table[m]
      /\ \A m \in Numbers : table'[m] \in Connections <=> table[m] \in Connections
      /\ \A m \in Numbers : table[m] \in Connections => table'[m] = table[m]
  BY <1>1, <1>t, Distinct
<1>4. KernelTypes'
  BY <1>0, <1>1, <1>2 DEF Types, KernelTypes
<1>5. BookTypes'
  BY <1>0, <1>u DEF Types, BookTypes
<1>6. /\ phase' \in [Loops -> Labels] /\ phase'[l] = next
      /\ \A k \in Loops : k # l => phase'[k] = phase[k]
  BY <1>0, <1>1 DEF Types, LoopTypes
<1>7. LoopTypes'
  BY <1>0, <1>1, <1>6 DEF Types, LoopTypes
<1>8. PairInv'
  BY <1>0, <1>u, <1>3, Distinct DEF Tied, PairInv
<1>9. TableInv'
  <2>1. ASSUME NEW m \in Numbers, NEW d \in Connections, table'[m] = d
        PROVE  /\ loopOf'[d] # None /\ socket'[d] = m
               /\ Pending(d)' \/ Added(loopOf[d], d)'
    <3>1. table[m] = d
      BY <1>3, <2>1
    <3>2. /\ loopOf[d] # None /\ socket[d] = m
          /\ Pending(d) \/ Added(loopOf[d], d)
      BY <1>0, <3>1 DEF Tied, TableInv
    <3>3. Pending(d) => Pending(d)'
      BY <1>1, <1>u DEF Pending
    <3>4. Added(loopOf[d], d) => Added(loopOf[d], d)'
      BY <1>1, <1>u DEF Added
    <3> QED
      BY <1>u, <3>2, <3>3, <3>4
  <2> QED
    BY <2>1 DEF TableInv
<1>10. MapInv'
  <2>1. ASSUME NEW k \in Loops, NEW m \in Numbers, channelMap[k][m] # None
        PROVE  /\ table'[m] = channelMap[k][m] /\ loopOf[table'[m]] = k
               /\ \E e \in epoll[k] : e.number = m
    <3>1. /\ table[m] = channelMap[k][m] /\ loopOf[table[m]] = k
          /\ \E e \in epoll[k] : e.number = m
      BY <1>0, <2>1 DEF Tied, MapInv
    <3>2. table[m] \in Connections
      BY <1>0, <2>1, <3>1 DEF Types, KernelTypes
    <3> QED
      BY <1>3, <3>1, <3>2
  <2> QED
    BY <1>1, <1>2, <1>u, <2>1 DEF MapInv
<1>11. EpollInv' /\ CalledInv'
  BY <1>0, <1>1, <1>2, <1>u DEF Tied, EpollInv, CalledInv
<1>12. ASSUME NEW d \in Connections, socket[d] \in Numbers, table[socket[d]] = d
       PROVE  table'[socket[d]] = d
  BY <1>3, <1>12
<1>13. Part(l)'
  <2>1. ASSUME NEW t \in Tasks, TaskInv(l, t) PROVE TaskInv(l, t)'
    BY <1>1, <1>u, <1>12, <2>1, TaskTypes DEF TaskInv, Added
  <2>2. QueueInv(l)'
    BY <1>0, <1>1, <2>1, SameQueue
  <2>3. LoopInv(l)'
    BY <1>0, <1>1, <1>u DEF LoopInv, Added, Found
  <2>4. PhaseInv(l)'
    BY <1>0, <1>1, <1>6 DEF PhaseInv, AtHome
  <2> QED
    BY <2>2, <2>3, <2>4 DEF Part
<1>14. ASSUME NEW k \in Loops, k # l PROVE Part(k)'
  <2>1. \A d \in Connections : loopOf[d] = k =>
             /\ loopOf'[d] = k /\ socket'[d] = socket[d]
             /\ socket[d] \in Numbers /\ table[socket[d]] = d => table'[socket[d]] = d
             /\ d \in called' => d \in called
    BY <1>u, <1>12
  <2>2. /\ phase'[k] = phase[k] /\ batch'[k] = batch[k] /\ record'[k] = record[k]
        /\ callee'[k] = callee[k] /\ draining'[k] = draining[k]
        /\ expired'[k] = expired[k] /\ taskQ'[k] = taskQ[k]
        /\ channelMap'[k] = channelMap[k]
    BY <1>1, <1>6, <1>14
  <2>3. Part(k) /\ MapInv
    BY <1>0 DEF Tied
  <2> QED
    BY <1>0, <2>1, <2>2, <2>3, OtherLoop
<1> QED
  BY <1>0, <1>4, <1>5, <1>7, <1>8, <1>9, <1>10, <1>11, <1>13, <1>14, <1>u
  DEF Held, Types, Tied

\* The destructor goes on, unless it has just closed a connection.
LEMMA DeleteKeeps ==
  ASSUME Held, NEW l \in Loops, Delete(l), cut = {}, cut' = {}
  PROVE  Held'
<1>0. Types
  BY OwnTypes
<1>1. CASE StopLoop(l)
  BY <1>1, StopLoopKeeps
<1>2. ASSUME NEW n \in Numbers, NEW next \in Labels, CloseOwn(l, n, next)
      PROVE  table[n] \notin Connections
  BY <1>2 DEF CloseOwn
<1>3. /\ pair[<<l, 0>>] \in Numbers /\ pair[<<l, 1>>] \in Numbers
      /\ {"closePair0", "closePair1", "deleted"} \subseteq Labels
  BY <1>0 DEF Types, BookTypes, Pairs, Labels
<1>4. CASE CloseMap(l)
  BY <1>2, <1>3, <1>4, CloseOwnKeeps DEF CloseMap, At
<1>5. CASE ClosePair0(l)
  BY <1>2, <1>3, <1>5, CloseOwnKeeps DEF ClosePair0, At
<1>6. CASE ClosePair1(l)
  BY <1>2, <1>3, <1>6, CloseOwnKeeps DEF ClosePair1, At
<1> QED
  BY <1>1, <1>4, <1>5, <1>6 DEF Delete

-----------------------------------------------------------------------------
\* As long as a connection has no number there is one left for it: every number
\* that is taken belongs to another connection or to the end of a pair.
LEMMA FreeNumber ==
  ASSUME Types, TableInv, PairInv, NEW c \in Connections, loopOf[c] = None
  PROVE  \E n \in Numbers : table[n] = None
<1> SUFFICES ASSUME \A n \in Numbers : table[n] # None PROVE FALSE
  OBVIOUS
<1> DEFINE Owners == (Connections \ {c}) \cup Pairs
<1>1. table \in [Numbers -> Owners]
  <2>1. \A n \in Numbers : table[n] # c
    BY DEF TableInv
  <2> QED
    BY <2>1 DEF Types, KernelTypes
<1>2. \A m, n \in Numbers : table[m] = table[n] => m = n
  <2>1. ASSUME NEW m \in Numbers, NEW n \in Numbers, table[m] = table[n] PROVE m = n
    <3>1. CASE table[m] \in Connections
      BY <2>1, <3>1 DEF TableInv
    <3>2. CASE table[m] \in Pairs
      BY <2>1, <3>2 DEF PairInv
    <3> QED
      BY <1>1, <3>1, <3>2
  <2> QED
    BY <2>1
<1>3. IsFiniteSet(Pairs) /\ Cardinality(Pairs) = 2 * Cardinality(Loops)
  <2>1. IsFiniteSet(Loops) /\ Cardinality(Loops) \in Nat
    BY DescriptorAssumption, FS_CardinalityType
  <2>2. IsFiniteSet({0, 1}) /\ Cardinality({0, 1}) = 2
    <3>1. {0, 1} = 0 .. 1
      OBVIOUS
    <3>2. PICK b \in Int : b = 1
      OBVIOUS
    <3>3. IsFiniteSet(0 .. b) /\ Cardinality(0 .. b) = IF 0 > b THEN 0 ELSE b - 0 + 1
      BY FS_Interval
    <3> QED
      BY <3>1, <3>2, <3>3
  <2>3. IsFiniteSet(Pairs) /\ Cardinality(Pairs) = Cardinality(Loops) * 2
    BY <2>1, <2>2, FS_Product DEF Pairs
  <2> QED
    BY <2>1, <2>3
<1>4. /\ IsFiniteSet(Connections \ {c})
      /\ Cardinality(Connections \ {c}) = Cardinality(Connections) - 1
      /\ Cardinality(Connections) \in Nat
  BY DescriptorAssumption, FS_RemoveElement, FS_CardinalityType
<1>5. (Connections \ {c}) \cap Pairs = {}
  BY Distinct
<1>6. /\ IsFiniteSet(Owners)
      /\ Cardinality(Owners) = Cardinality(Connections) - 1 + 2 * Cardinality(Loops)
  <2>1. /\ IsFiniteSet(Owners)
        /\ Cardinality(Owners) = Cardinality(Connections \ {c}) + Cardinality(Pairs)
                                   - Cardinality((Connections \ {c}) \cap Pairs)
    BY <1>3, <1>4, FS_Union
  <2>2. Cardinality((Connections \ {c}) \cap Pairs) = 0
    BY <1>5, FS_EmptySet
  <2>3. Cardinality(Pairs) \in Nat
    BY <1>3, FS_CardinalityType
  <2> QED
    BY <1>3, <1>4, <2>1, <2>2, <2>3
<1>7. Cardinality(Loops) \in Nat
  BY DescriptorAssumption, FS_CardinalityType
<1>8. /\ IsFiniteSet(Numbers)
      /\ Cardinality(Numbers) = Cardinality(Connections) + 2 * Cardinality(Loops)
  <2>1. PICK m \in Nat : m = Cardinality(Connections) + 2 * Cardinality(Loops)
    BY <1>4, <1>7
  <2>2. IsFiniteSet(1 .. m) /\ Cardinality(1 .. m) = m
    BY FS_Interval
  <2> QED
    BY <2>1, <2>2 DEF Numbers
<1>9. Cardinality(Owners) < Cardinality(Numbers)
  BY <1>4, <1>6, <1>7, <1>8
<1> HIDE DEF Owners
<1>10. \E m, n \in Numbers : m # n /\ table[m] = table[n]
  BY <1>1, <1>6, <1>8, <1>9, FS_PigeonHole
<1> QED
  BY <1>2, <1>10

LEMMA LowestFree ==
  ASSUME Types, TableInv, PairInv, NEW c \in Connections, loopOf[c] = None
  PROVE  Lowest \in Numbers /\ table[Lowest] = None
<1> DEFINE S == {n \in Numbers : table[n] = None}
<1>1. S # {} /\ S \subseteq Nat
  BY FreeNumber DEF Numbers
<1>2. PICK n \in S : \A m \in S : ~(<<m, n>> \in OpToRel(<, Nat))
  <2> HIDE DEF S
  <2> QED
    BY <1>1, NatLessThanWellFounded, WFMin
<1>3. n \in Numbers /\ table[n] = None
  OBVIOUS
<1>4. ASSUME NEW m \in 1 .. n - 1 PROVE table[m] # None
  <2>1. m \in Nat /\ n \in Nat /\ m < n /\ m \in Numbers
    BY <1>3, FS_CardinalityType, DescriptorAssumption DEF Numbers
  <2>2. <<m, n>> \in OpToRel(<, Nat)
    BY <2>1 DEF OpToRel
  <2>3. m \notin S
    BY <1>2, <2>2, Zenon
  <2> QED
    BY <2>1, <2>3
<1> QED
  BY <1>3, <1>4 DEF Lowest

LEMMA AcceptKeeps ==
  ASSUME Held, NEW l \in Loops, NEW c \in Connections, Accept(c, l)
  PROVE  Held'
<1>0. /\ Types /\ Tied /\ Part(l) /\ QueueInv(l) /\ LoopInv(l) /\ PhaseInv(l)
      /\ strays \subseteq {<<"write", FALSE>>} /\ \A k \in Loops : Part(k)
  BY OwnTypes DEF Held
<1>1. /\ loopOf[c] = None
      /\ table' = [table EXCEPT ![Lowest] = c]
      /\ socket' = [socket EXCEPT ![c] = Lowest]
      /\ loopOf' = [loopOf EXCEPT ![c] = l]
      /\ taskQ' = [taskQ EXCEPT ![l] = Append(@, <<"ADD", c>>)]
      /\ UNCHANGED <<pair, epoll, channelMap, loop, failed, history>>
  BY DEF Accept
<1>u. UNCHANGED <<pair, epoll, channelMap, phase, batch, record, callee, draining,
                  expired, failed, called, strays>>
  BY <1>1 DEF loop, history
<1>n. PICK n \in Numbers : n = Lowest /\ table[n] = None
  BY <1>0, <1>1, LowestFree DEF Tied
<1>2. /\ \A m \in Numbers : table'[m] = IF m = n THEN c ELSE table[m]
      /\ table' \in [Numbers -> Connections \cup Pairs \cup {None}]
      /\ \A d \in Connections : socket'[d] = IF d = c THEN n ELSE socket[d]
      /\ socket' \in [Connections -> Numbers \cup {0}]
      /\ \A d \in Connections : loopOf'[d] = IF d = c THEN l ELSE loopOf[d]
      /\ loopOf' \in [Connections -> Loops \cup {None}]
  BY <1>0, <1>1, <1>n DEF Types, KernelTypes, BookTypes
<1>3. /\ \A m \in Numbers : table[m] # c
      /\ c \notin called /\ c # None
      /\ \A k \in Loops : channelMap[k][n] = None /\ ~Added(k, c)
  <2>1. \A m \in Numbers : table[m] # c
    BY <1>0, <1>1 DEF Tied, TableInv
  <2>2. c \notin called /\ c # None
    BY <1>0, <1>1, Distinct DEF Tied, CalledInv
  <2>3. \A k \in Loops : channelMap[k][n] = None
    BY <1>0, <1>n DEF Tied, MapInv
  <2>4. \A k \in Loops : ~Added(k, c)
    BY <1>0, <1>1, AddedOwned, Distinct DEF Tied, Types
  <2> QED
    BY <2>1, <2>2, <2>3, <2>4
<1>4. ASSUME NEW d \in Connections, d # c, NEW k \in Loops
      PROVE  Added(k, d)' <=> Added(k, d)
  BY <1>2, <1>4, <1>u DEF Added
<1>5. ASSUME NEW d \in Connections, socket[d] \in Numbers, table[socket[d]] = d
      PROVE  table'[socket[d]] = d
  BY <1>2, <1>5, <1>n, Distinct
<1>t. PICK t \in Tasks : t = <<"ADD", c>>
  BY DEF Tasks
<1>q. /\ taskQ[l] \in Seq(Tasks) /\ Len(taskQ[l]) \in Nat
      /\ \A i \in 1 .. Len(taskQ[l]) : taskQ[l][i] \in Tasks
  BY <1>0, QueueTyped
<1>a. /\ Append(taskQ[l], t) \in Seq(Tasks)
      /\ Len(Append(taskQ[l], t)) = Len(taskQ[l]) + 1
      /\ \A i \in 1 .. Len(taskQ[l]) : Append(taskQ[l], t)[i] = taskQ[l][i]
      /\ Append(taskQ[l], t)[Len(taskQ[l]) + 1] = t
  BY <1>q, AppendProperties
<1>6. /\ taskQ' \in [Loops -> Seq(Tasks)] /\ taskQ'[l] = Append(taskQ[l], t)
      /\ \A k \in Loops : k # l => taskQ'[k] = taskQ[k]
  <2>1. taskQ' = [taskQ EXCEPT ![l] = Append(taskQ[l], t)]
    BY <1>1, <1>t
  <2> QED
    BY <1>0, <1>a, <2>1 DEF Types, LoopTypes
<1>7. ASSUME NEW d \in Connections, d # c, loopOf[d] # None, Pending(d) PROVE Pending(d)'
  <2>1. loopOf[d] \in Loops /\ loopOf'[d] = loopOf[d]
    BY <1>0, <1>2, <1>7 DEF Types, BookTypes
  <2>2. PICK k \in Loops : k = loopOf[d]
    BY <2>1
  <2>3. PICK i \in 1 .. Len(taskQ[k]) : taskQ[k][i] = <<"ADD", d>>
    BY <1>7, <2>2 DEF Pending
  <2>4. i \in 1 .. Len(taskQ'[k]) /\ taskQ'[k][i] = <<"ADD", d>>
    <3>1. CASE k = l
      BY <1>q, <1>a, <1>6, <2>3, <3>1
    <3>2. CASE k # l
      BY <1>6, <2>3, <3>2
    <3> QED
      BY <3>1, <3>2
  <2> QED
    BY <2>1, <2>2, <2>4 DEF Pending
<1>8. Pending(c)'
  <2>1. Len(taskQ[l]) + 1 \in 1 .. Len(taskQ'[l])
        /\ taskQ'[l][Len(taskQ[l]) + 1] = <<"ADD", c>>
    BY <1>q, <1>a, <1>t, <1>6
  <2>2. loopOf'[c] = l
    BY <1>2
  <2> QED
    BY <2>1, <2>2 DEF Pending
<1>9. Types'
  <2>1. \A d \in Connections : loopOf'[d] # None => socket'[d] \in Numbers
    BY <1>0, <1>2 DEF Types, BookTypes
  <2> QED
    BY <1>0, <1>u, <1>2, <1>6, <2>1 DEF Types, KernelTypes, BookTypes, LoopTypes
<1>10. PairInv'
  BY <1>0, <1>u, <1>2, Distinct DEF Tied, PairInv
<1>11. TableInv'
  <2>1. ASSUME NEW m \in Numbers, NEW d \in Connections, table'[m] = d
        PROVE  /\ loopOf'[d] # None /\ socket'[d] = m
               /\ Pending(d)' \/ Added(loopOf[d], d)'
    <3>1. CASE d = c
      BY <1>2, <1>3, <1>8, <2>1, <3>1, Distinct
    <3>2. CASE d # c
      <4>1. table[m] = d
        BY <1>2, <2>1, <3>2
      <4>2. /\ loopOf[d] # None /\ socket[d] = m
            /\ Pending(d) \/ Added(loopOf[d], d)
        BY <1>0, <4>1 DEF Tied, TableInv
      <4>3. PICK k \in Loops : k = loopOf[d]
        BY <1>0, <4>2 DEF Types, BookTypes
      <4>4. loopOf'[d] = k /\ socket'[d] = m
        BY <1>2, <3>2, <4>2, <4>3
      <4>5. Added(k, d) => Added(loopOf[d], d)'
        <5>1. Added(k, d)' <=> Added(k, d)
          BY <1>4, <3>2
        <5> QED
          BY <4>4, <5>1 DEF Added
      <4> QED
        BY <1>7, <3>2, <4>2, <4>3, <4>4, <4>5
    <3> QED
      BY <3>1, <3>2
  <2> QED
    BY <2>1 DEF TableInv
<1>12. MapInv'
  <2>1. ASSUME NEW k \in Loops, NEW m \in Numbers, channelMap[k][m] # None
        PROVE  /\ table'[m] = channelMap[k][m] /\ loopOf'[table'[m]] = k
               /\ \E e \in epoll[k] : e.number = m
    <3>1. /\ table[m] = channelMap[k][m] /\ loopOf[table[m]] = k
          /\ \E e \in epoll[k] : e.number = m
      BY <1>0, <2>1 DEF Tied, MapInv
    <3>2. PICK d \in Connections : d = table[m]
      BY <1>0, <2>1, <3>1 DEF Types, KernelTypes
    <3>3. m # n /\ d # c
      BY <1>3, <2>1, <3>2
    <3>4. table'[m] = d /\ loopOf'[d] = k
      BY <1>2, <3>1, <3>2, <3>3
    <3> QED
      BY <3>1, <3>2, <3>4
  <2> QED
    BY <1>u, <2>1 DEF MapInv
<1>13. EpollInv' /\ CalledInv'
  BY <1>0, <1>u, <1>2, <1>3 DEF Tied, EpollInv, CalledInv
<1>14. QueueInv(l)'
  <2>1. TaskInv(l, t)'
    <3>1. t[1] = "ADD" /\ t[2] = c
      BY <1>t
    <3>2. loopOf'[c] = l /\ socket'[c] = n /\ table'[n] = c
      BY <1>2
    <3>3. ~Added(l, c)'
      BY <1>u, <1>3, <3>2 DEF Added
    <3> QED
      BY <1>u, <1>3, <3>1, <3>2, <3>3 DEF TaskInv
  <2>2. \A u \in Tasks : TaskInv(l, u) => u[2] # c
    BY <1>1, Distinct DEF TaskInv
  <2>3. \A i \in 1 .. Len(taskQ[l]) :
            "ADD" \in {t[1], taskQ[l][i][1]} /\ taskQ[l][i][2] # t[2]
    BY <1>0, <1>q, <1>t, <2>2 DEF QueueInv
  <2>4. ASSUME NEW u \in Tasks, u[2] # t[2], TaskInv(l, u) PROVE TaskInv(l, u)'
    <3>1. u[2] # c /\ u[2] \in Connections
      BY <1>t, <2>4, TaskTypes
    <3>2. /\ loopOf'[u[2]] = loopOf[u[2]] /\ socket'[u[2]] = socket[u[2]]
          /\ Added(l, u[2])' <=> Added(l, u[2])
      BY <1>2, <1>4, <3>1
    <3>3. socket[u[2]] \in Numbers /\ table[socket[u[2]]] = u[2] =>
            table'[socket[u[2]]] = u[2]
      BY <1>5, <3>1
    <3> QED
      BY <1>u, <2>4, <3>2, <3>3 DEF TaskInv
  <2> QED
    BY <1>0, <1>6, <2>1, <2>3, <2>4, PostedQueue
<1>15. LoopInv(l)'
  <2>1. /\ callee[l] \in Connections \cup {None} /\ expired[l] \subseteq Connections
        /\ callee[l] # c /\ c \notin expired[l]
    <3>1. callee[l] \in Connections \cup {None} /\ expired[l] \subseteq Connections
      BY OwnTypes
    <3>2. callee[l] # c
      <4>1. callee[l] = c => Added(l, c)
        BY <1>0, <1>3 DEF LoopInv
      <4> QED
        BY <1>3, <4>1
    <3>3. c \notin expired[l]
      BY <1>0, <1>3 DEF LoopInv
    <3> QED
      BY <3>1, <3>2, <3>3
  <2>2. callee'[l] # None =>
          Added(l, callee[l])' /\ \A r \in batch'[l] : r.of # callee'[l]
    <3>1. SUFFICES ASSUME callee[l] # None
                   PROVE  Added(l, callee[l])' /\ \A r \in batch[l] : r.of # callee[l]
      BY <1>u
    <3>2. PICK d \in Connections : d = callee[l] /\ d # c
      BY <2>1, <3>1
    <3>3. Added(l, d)'
      BY <1>0, <1>4, <3>1, <3>2 DEF LoopInv
    <3> QED
      BY <1>0, <1>u, <3>1, <3>2, <3>3 DEF LoopInv, Added
  <2>3. \A d \in expired'[l] : Added(l, d)'
    BY <1>0, <1>u, <1>4, <2>1 DEF LoopInv
  <2> QED
    BY <1>0, <1>u, <2>2, <2>3 DEF LoopInv, Found
<1>16. PhaseInv(l)'
  BY <1>0, <1>u DEF PhaseInv, AtHome
<1>17. ASSUME NEW k \in Loops, k # l PROVE Part(k)'
  <2>1. \A d \in Connections : loopOf[d] = k =>
             /\ loopOf'[d] = k /\ socket'[d] = socket[d]
             /\ socket[d] \in Numbers /\ table[socket[d]] = d => table'[socket[d]] = d
             /\ d \in called' => d \in called
    BY <1>u, <1>1, <1>2, <1>5, Distinct
  <2>2. /\ phase'[k] = phase[k] /\ batch'[k] = batch[k] /\ record'[k] = record[k]
        /\ callee'[k] = callee[k] /\ draining'[k] = draining[k]
        /\ expired'[k] = expired[k] /\ taskQ'[k] = taskQ[k]
        /\ channelMap'[k] = channelMap[k]
    BY <1>u, <1>6, <1>17
  <2>3. Part(k) /\ MapInv
    BY <1>0 DEF Tied
  <2> QED
    BY <1>0, <2>1, <2>2, <2>3, OtherLoop
<1> QED
  BY <1>0, <1>u, <1>9, <1>10, <1>11, <1>12, <1>13, <1>14, <1>15, <1>16, <1>17
  DEF Held, Tied, Part

-----------------------------------------------------------------------------
LEMMA InitHeld ==
  ASSUME Init
  PROVE  Held
<1>1. Cardinality(Connections) \in Nat /\ Cardinality(Loops) \in Nat
  BY DescriptorAssumption, FS_CardinalityType
<1>2. pair \in [Pairs -> Numbers]
  BY <1>1 DEF Init, Numbers
<1>3. ASSUME NEW n \in Numbers
      PROVE  /\ table[n] \in Pairs \cup {None}
             /\ table[n] \in Pairs => pair[table[n]] = n
  BY <1>3, Distinct DEF Init
<1>4. table \in [Numbers -> Pairs \cup {None}]
  BY <1>3 DEF Init
<1>5. \A n \in Numbers : table[n] \notin Connections
  BY <1>3, Distinct
<1>6. KernelTypes
  BY <1>4 DEF Init, KernelTypes
<1>7. BookTypes
  BY <1>2 DEF Init, BookTypes
<1>8. LoopTypes
  BY DEF Init, LoopTypes, Labels
<1>9. PairInv
  BY <1>3 DEF PairInv
<1>10. TableInv
  BY <1>5 DEF TableInv
<1>11. MapInv /\ EpollInv /\ CalledInv
  BY DEF Init, MapInv, EpollInv, CalledInv
<1>12. ASSUME NEW l \in Loops PROVE Part(l)
  <2>1. QueueInv(l)
    BY DEF Init, QueueInv
  <2>2. LoopInv(l) /\ PhaseInv(l)
    BY DEF Init, LoopInv, PhaseInv, AtHome, NoRecord
  <2> QED
    BY <2>1, <2>2 DEF Part
<1>13. strays \subseteq {<<"write", FALSE>>}
  BY DEF Init
<1> QED
  BY <1>6, <1>7, <1>8, <1>9, <1>10, <1>11, <1>12, <1>13 DEF Held, Types, Tied

\* A connection that has been cut stays cut.
LEMMA CutStays ==
  ASSUME [Next]_vars
  PROVE  cut \subseteq cut'
<1>1. ASSUME NEW l \in Loops, Run(l) PROVE cut' = cut
  BY <1>1 DEF Run, EpollWait, NextRecord, OnError, EventActive, CallbackModify,
     CallbackDelete, CallbackReturn, DispatchDone, RunTask, DrainReturn, Expire, SweepDone
<1>2. ASSUME NEW l \in Loops, Delete(l) PROVE cut \subseteq cut'
  BY <1>2 DEF Delete, StopLoop, CloseMap, ClosePair0, ClosePair1, CloseOwn
<1>3. ASSUME NEW l \in Loops, NEW c \in Connections, Accept(c, l) PROVE cut' = cut
  BY <1>3 DEF Accept
<1>4. CASE UNCHANGED vars
  BY <1>4 DEF vars
<1> QED
  BY <1>1, <1>2, <1>3, <1>4 DEF Next

LEMMA HeldStutters ==
  ASSUME Held, UNCHANGED vars
  PROVE  Held'
<1>u. UNCHANGED <<table, socket, loopOf, pair, epoll, channelMap, taskQ, phase, batch,
                  record, callee, draining, expired, failed, cut, called, strays>>
  BY DEF vars, kernel, books, loop, history
<1>1. Types'
  BY <1>u DEF Held, Types, KernelTypes, BookTypes, LoopTypes
<1>2. Tied'
  <2>1. PairInv' /\ MapInv' /\ EpollInv' /\ CalledInv'
    BY <1>u DEF Held, Tied, PairInv, MapInv, EpollInv, CalledInv
  <2>2. ASSUME NEW n \in Numbers, NEW c \in Connections, table'[n] = c
        PROVE  /\ loopOf'[c] # None /\ socket'[c] = n
               /\ Pending(c)' \/ Added(loopOf[c], c)'
    <3>1. /\ loopOf[c] # None /\ socket[c] = n
          /\ Pending(c) \/ Added(loopOf[c], c)
      BY <1>u, <2>2 DEF Held, Tied, TableInv
    <3>2. Pending(c) => Pending(c)'
      BY <1>u DEF Pending
    <3>3. Added(loopOf[c], c) => Added(loopOf[c], c)'
      BY <1>u DEF Added
    <3> QED
      BY <1>u, <3>1, <3>2, <3>3
  <2>3. TableInv'
    BY <2>2 DEF TableInv
  <2> QED
    BY <2>1, <2>3 DEF Tied
<1>3. ASSUME NEW l \in Loops PROVE Part(l)'
  BY <1>u DEF Held, Part, QueueInv, TaskInv, LoopInv, PhaseInv, Added, AtHome, Found
<1> QED
  BY <1>u, <1>1, <1>2, <1>3 DEF Held

LEMMA GoodInductive ==
  ASSUME Good, [Next]_vars
  PROVE  Good'
<1> SUFFICES ASSUME cut' = {} PROVE Held'
  BY DEF Good
<1>1. cut = {} /\ Held
  BY CutStays DEF Good
<1>2. CASE UNCHANGED vars
  BY <1>1, <1>2, HeldStutters
<1>3. ASSUME NEW l \in Loops, NEW c \in Connections, Accept(c, l) PROVE Held'
  BY <1>1, <1>3, AcceptKeeps
<1>4. ASSUME NEW l \in Loops, Delete(l) PROVE Held'
  BY <1>1, <1>4, DeleteKeeps
<1>5. ASSUME NEW l \in Loops, Run(l) PROVE Held'
  <2>1. CASE EpollWait(l)
    BY <1>1, <2>1, EpollWaitKeeps
  <2>2. CASE NextRecord(l)
    BY <1>1, <2>2, NextRecordKeeps
  <2>3. CASE OnError(l)
    BY <1>1, <2>3, OnErrorKeeps
  <2>4. ASSUME NEW event \in {"read", "write"}, EventActive(l, event) PROVE Held'
    BY <1>1, <2>4, EventActiveKeeps
  <2>5. CASE CallbackModify(l)
    BY <1>1, <2>5, CallbackModifyKeeps
  <2>6. CASE CallbackDelete(l)
    BY <1>1, <2>6, CallbackDeleteKeeps
  <2>7. CASE CallbackReturn(l)
    BY <1>1, <2>7, CallbackReturnKeeps
  <2>8. CASE DispatchDone(l)
    BY <1>1, <2>8, DispatchDoneKeeps
  <2>9. CASE RunTask(l)
    BY <1>1, <2>9, RunTaskKeeps
  <2>10. CASE DrainReturn(l)
    BY <1>1, <2>10, DrainReturnKeeps
  <2>11. CASE Expire(l)
    BY <1>1, <2>11, ExpireKeeps
  <2>12. CASE SweepDone(l)
    BY <1>1, <2>12, SweepDoneKeeps
  <2> QED
    BY <1>5, <2>1, <2>2, <2>3, <2>4, <2>5, <2>6, <2>7, <2>8, <2>9, <2>10, <2>11, <2>12
    DEF Run
<1> QED
  BY <1>2, <1>3, <1>4, <1>5 DEF Next

LEMMA GoodHolds == Spec => []Good
<1>1. Init => Good
  BY InitHeld DEF Good
<1>2. Good /\ [Next]_vars => Good'
  BY GoodInductive
<1> QED
  BY <1>1, <1>2, PTL DEF Spec

\* The server ends on a failing epoll_ctl only if the destructor of a loop has
\* closed the socket of another connection (EpollDispatcher.cpp:27-61).
THEOREM CutsAloneFail == Spec => []OnlyCutsFail
<1>1. Good => OnlyCutsFail
  BY DEF Good, Held, Types, KernelTypes, OnlyCutsFail
<1> QED
  BY <1>1, GoodHolds, PTL

\* A connection in the descriptor table is about to be added, or the map of its
\* loop leads to it and its socket is watched (EventLoop.cpp:280-316, 332-343).
THEOREM AddedStayFound == Spec => []FoundAndWatched
<1>1. Good => FoundAndWatched
  <2> SUFFICES ASSUME Held, NEW c \in Connections, loopOf[c] # None,
                      table[socket[c]] = c
               PROVE  \/ <<"ADD", c>> \in {taskQ[loopOf[c]][i] : i \in DOMAIN taskQ[loopOf[c]]}
                      \/ /\ channelMap[loopOf[c]][socket[c]] = c
                         /\ Watched(loopOf[c], socket[c]) # {}
    BY DEF Good, FoundAndWatched
  <2>1. PICK l \in Loops : l = loopOf[c]
    BY DEF Held, Types, BookTypes
  <2>2. Pending(c) \/ Added(l, c)
    <3>1. socket[c] \in Numbers
      BY DEF Held, Types, BookTypes
    <3> QED
      BY <2>1, <3>1 DEF Held, Tied, TableInv
  <2>3. CASE Pending(c)
    <3>1. PICK i \in 1 .. Len(taskQ[l]) : taskQ[l][i] = <<"ADD", c>>
      BY <2>1, <2>3 DEF Pending
    <3>2. i \in DOMAIN taskQ[l]
      BY QueueTyped DEF Held
    <3> QED
      BY <2>1, <3>1, <3>2
  <2>4. CASE Added(l, c)
    BY <2>1, <2>4, WatchedAdded DEF Held, Tied, Added
  <2> QED
    BY <2>2, <2>3, <2>4
<1> QED
  BY <1>1, GoodHolds, PTL

\* A record that is about another connection than the one its number leads to
\* only ever tells a new connection that it can write (EpollDispatcher.cpp:70-91,
\* EventLoop.cpp:132-164).
THEOREM StraysStayHarmless == Spec => []StraysHarmless
<1>1. Good => StraysHarmless
  BY DEF Good, Held, StraysHarmless
<1> QED
  BY <1>1, GoodHolds, PTL
=============================================================================
