---------------------------- MODULE TaskService ----------------------------
(***************************************************************************)
(* What an EventLoop promises to the threads that hand it work, with no    *)
(* threads, wakeups or nested calls in it.  Work comes in two classes:     *)
(* channel nodes (addTask) and closures (queueInLoop).  Each class is      *)
(* served first come, first served, a node always before a closure, every  *)
(* piece of work once, and as long as the service stays open none is left  *)
(* behind.                                                                 *)
(***************************************************************************)
EXTENDS Sequences

CONSTANTS Nodes,     \* calls of addTask
          Closures   \* calls of queueInLoop

VARIABLES nodes,     \* nodes accepted and not yet executed
          closures,  \* closures accepted and not yet executed
          ran,       \* what has been executed, in order
          open       \* the service still executes

svars == <<nodes, closures, ran, open>>

Accepted == {nodes[i] : i \in DOMAIN nodes}
              \cup {closures[i] : i \in DOMAIN closures}
              \cup {ran[i] : i \in DOMAIN ran}

SInit == nodes = <<>> /\ closures = <<>> /\ ran = <<>> /\ open = TRUE

SubmitNode(t) ==
    /\ t \notin Accepted
    /\ nodes' = Append(nodes, t)
    /\ UNCHANGED <<closures, ran, open>>

SubmitClosure(t) ==
    /\ t \notin Accepted
    /\ closures' = Append(closures, t)
    /\ UNCHANGED <<nodes, ran, open>>

ExecuteNode ==
    /\ open
    /\ nodes # <<>>
    /\ ran' = Append(ran, Head(nodes))
    /\ nodes' = Tail(nodes)
    /\ UNCHANGED <<closures, open>>

ExecuteClosure ==
    /\ open
    /\ nodes = <<>>
    /\ closures # <<>>
    /\ ran' = Append(ran, Head(closures))
    /\ closures' = Tail(closures)
    /\ UNCHANGED <<nodes, open>>

Execute == ExecuteNode \/ ExecuteClosure

Close == open /\ open' = FALSE /\ UNCHANGED <<nodes, closures, ran>>

SNext == \/ \E t \in Nodes : SubmitNode(t)
         \/ \E t \in Closures : SubmitClosure(t)
         \/ Execute
         \/ Close

SafeService == SInit /\ [][SNext]_svars

Service == SafeService /\ WF_svars(Execute)
=============================================================================
