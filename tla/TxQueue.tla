------------------------------- MODULE TxQueue -------------------------------
(***************************************************************************)
(* The blocking queue between the threads of the iServer                   *)
(* (iServer/queue.c), step by step as far as other threads can tell:       *)
(* taking the mutex, the critical section, pthread_cond_wait() giving the  *)
(* mutex up and asking for it again, and the broadcast that queue_push()   *)
(* and queue_pop() make after they have released it.                       *)
(*                                                                         *)
(* The linked list is modelled with its pointers; chain is history, the    *)
(* nodes in the order they were pushed.                                    *)
(***************************************************************************)
EXTENDS Integers, Sequences, FiniteSets

CONSTANTS
    Pushers,    \* threads that call queue_push()
    Poppers,    \* threads that call queue_pop()
    Items,      \* what they queue
    Nodes,      \* heap cells for struct queue_node
    NULL

ASSUME ThreadAssumption == Pushers \cap Poppers = {}
ASSUME NullAssumption == NULL \notin Nodes \cup Items \cup Pushers \cup Poppers

Threads == Pushers \cup Poppers

VARIABLES
    pc,         \* where each thread is
    arg,        \* arg[t]: the item a pusher is queueing, NULL outside queue_push()
    mutex,      \* the thread that holds queue->mutex, or NULL
    head, tail, length,
    next,       \* next[n], data[n]: the fields of node n
    data,
    chain,      \* history: the nodes of the queue, oldest first
    got         \* got[t]: what queue_pop() last returned to t, NULL in between

list == <<head, tail, length, next, data, chain>>
vars == <<pc, arg, mutex, list, got>>

Init ==
    /\ pc = [t \in Threads |-> "idle"]
    /\ arg = [t \in Pushers |-> NULL]
    /\ mutex = NULL
    /\ head = NULL
    /\ tail = NULL
    /\ length = 0
    /\ next = [n \in Nodes |-> NULL]
    /\ data = [n \in Nodes |-> NULL]
    /\ chain = <<>>
    /\ got = [t \in Poppers |-> NULL]

Goto(t, from, to) == pc[t] = from /\ pc' = [pc EXCEPT ![t] = to]

\* mem_malloc() finds a cell that is not in use.
Allocated == {chain[i] : i \in 1 .. Len(chain)}

-----------------------------------------------------------------------------
\* The bound: no more nodes than cells, those about to be pushed included.
RoomFor == Len(chain) + Cardinality({t \in Pushers : arg[t] # NULL}) < Cardinality(Nodes)

\* A thread enters queue_push() or queue_pop().
CallPush(t, x) ==
    /\ RoomFor
    /\ Goto(t, "idle", "lock")
    /\ arg' = [arg EXCEPT ![t] = x]
    /\ UNCHANGED <<mutex, list, got>>

CallPop(t) ==
    /\ Goto(t, "idle", "lock")
    /\ got' = [got EXCEPT ![t] = NULL]
    /\ UNCHANGED <<arg, mutex, list>>

\* pthread_mutex_lock(), also the one inside pthread_cond_wait().
Lock(t) ==
    /\ mutex = NULL
    /\ mutex' = t
    /\ Goto(t, "lock", "locked")
    /\ UNCHANGED <<arg, list, got>>

\* Fault: length is not counted up.
queue_push_NoLength(t) ==
    /\ Goto(t, "locked", "broadcast")
    /\ \E n \in Nodes \ Allocated :
          /\ data' = [data EXCEPT ![n] = arg[t]]
          /\ next' = [m \in Nodes |-> IF m = tail THEN n ELSE IF m = n THEN NULL ELSE next[m]]
          /\ tail' = n
          /\ head' = IF head = NULL THEN n ELSE head
          /\ chain' = Append(chain, n)
    /\ mutex' = NULL
    /\ arg' = [arg EXCEPT ![t] = NULL]
    /\ UNCHANGED <<got, length>>

\* Fault: the new node is linked from the head.
queue_push_AtHead(t) ==
    /\ Goto(t, "locked", "broadcast")
    /\ \E n \in Nodes \ Allocated :
          /\ data' = [data EXCEPT ![n] = arg[t]]
          /\ next' = [m \in Nodes |-> IF m = head THEN n ELSE IF m = n THEN NULL ELSE next[m]]
          /\ tail' = n
          /\ head' = IF head = NULL THEN n ELSE head
          /\ length' = length + 1
          /\ chain' = Append(chain, n)
    /\ mutex' = NULL
    /\ arg' = [arg EXCEPT ![t] = NULL]
    /\ UNCHANGED got

\* The critical section of queue_push() and its unlock.
queue_push(t) ==
    /\ Goto(t, "locked", "broadcast")
    /\ \E n \in Nodes \ Allocated :
          /\ data' = [data EXCEPT ![n] = arg[t]]
          /\ next' = [m \in Nodes |-> IF m = tail THEN n ELSE IF m = n THEN NULL ELSE next[m]]
          /\ tail' = n
          /\ head' = IF head = NULL THEN n ELSE head
          /\ length' = length + 1
          /\ chain' = Append(chain, n)
    /\ mutex' = NULL
    /\ arg' = [arg EXCEPT ![t] = NULL]
    /\ UNCHANGED got

\* Fault: do ... while, a wait before the first look at head.
Wait_Unguarded(t) ==
    /\ Goto(t, "locked", "waiting")
    /\ mutex' = NULL
    /\ UNCHANGED <<arg, list, got>>

\* while (queue->head == NULL) pthread_cond_wait(): release and wait at once.
Wait(t) ==
    /\ head = NULL
    /\ Goto(t, "locked", "waiting")
    /\ mutex' = NULL
    /\ UNCHANGED <<arg, list, got>>

\* POSIX lets a wait end without a broadcast.
SpuriousWakeup(t) ==
    /\ Goto(t, "waiting", "lock")
    /\ UNCHANGED <<arg, mutex, list, got>>

\* Fault: the last node leaves tail behind.
queue_pop_StaleTail(t) ==
    /\ head # NULL
    /\ Goto(t, "locked", "broadcast")
    /\ got' = [got EXCEPT ![t] = data[head]]
    /\ head' = next[head]
    /\ length' = length - 1
    /\ chain' = Tail(chain)
    /\ mutex' = NULL
    /\ UNCHANGED <<arg, tail, next, data>>

\* The rest of queue_pop() up to its unlock.
queue_pop(t) ==
    /\ head # NULL
    /\ Goto(t, "locked", "broadcast")
    /\ got' = [got EXCEPT ![t] = data[head]]
    /\ head' = next[head]
    /\ tail' = IF head' = NULL THEN NULL ELSE tail
    /\ length' = length - 1
    /\ chain' = Tail(chain)
    /\ mutex' = NULL
    /\ UNCHANGED <<arg, next, data>>

\* Fault: no thread is woken.
Broadcast_Missing(t) ==
    /\ Goto(t, "broadcast", "idle")
    /\ UNCHANGED <<arg, mutex, list, got>>

\* pthread_cond_broadcast(): every waiting thread goes for the mutex.
Broadcast(t) ==
    /\ pc[t] = "broadcast"
    /\ pc' = [u \in Threads |->
                 IF u = t THEN "idle" ELSE IF pc[u] = "waiting" THEN "lock" ELSE pc[u]]
    /\ UNCHANGED <<arg, mutex, list, got>>

Next ==
    \/ \E t \in Pushers : \E x \in Items : CallPush(t, x)
    \/ \E t \in Pushers : queue_push(t)
    \/ \E t \in Poppers : CallPop(t)
    \/ \E t \in Poppers : Wait(t)
    \/ \E t \in Poppers : SpuriousWakeup(t)
    \/ \E t \in Poppers : queue_pop(t)
    \/ \E t \in Threads : Lock(t)
    \/ \E t \in Threads : Broadcast(t)

Spec == Init /\ [][Next]_vars

\* Threads in the queue's code go on; the scheduler does not for ever pass over
\* a thread that asks for a mutex which keeps being released; and a popper
\* calls queue_pop() again, as txLoop() does.
Fairness ==
    /\ \A t \in Threads : SF_vars(Lock(t)) /\ WF_vars(Broadcast(t))
    /\ \A t \in Pushers : WF_vars(queue_push(t))
    /\ \A t \in Poppers : WF_vars(CallPop(t)) /\ WF_vars(Wait(t)) /\ WF_vars(queue_pop(t))

FairSpec == Spec /\ Fairness

-----------------------------------------------------------------------------
(***************************************************************************)
(* Properties.                                                             *)
(***************************************************************************)

\* The variables have their types.  queue.c, queue.h: struct queue.
TypeOK ==
    /\ pc \in [Threads -> {"idle", "lock", "locked", "waiting", "broadcast"}]
    /\ arg \in [Pushers -> Items \cup {NULL}]
    /\ mutex \in Threads \cup {NULL}
    /\ head \in Nodes \cup {NULL}
    /\ tail \in Nodes \cup {NULL}
    /\ length \in Nat
    /\ next \in [Nodes -> Nodes \cup {NULL}]
    /\ data \in [Nodes -> Items \cup {NULL}]
    /\ chain \in Seq(Nodes)
    /\ got \in [Poppers -> Items \cup {NULL}]

(* The pointers describe the queue at every moment, inside a critical       *)
(* section or out of it: head and tail are its ends (both NULL when it is   *)
(* empty), next links each node to the one pushed after it, length counts   *)
(* them, and no cell is in it twice.  queue.c: queue_push(), queue_pop().   *)
ListMatchesChain ==
    /\ length = Len(chain)
    /\ head = IF chain = <<>> THEN NULL ELSE chain[1]
    /\ tail = IF chain = <<>> THEN NULL ELSE chain[Len(chain)]
    /\ \A i \in 1 .. Len(chain) : next[chain[i]] = IF i = Len(chain) THEN NULL ELSE chain[i + 1]
    /\ \A i, j \in 1 .. Len(chain) : chain[i] = chain[j] => i = j

(* No wakeup is lost: while a thread sleeps on the condition although there *)
(* is something to pop, a thread is on its way to the broadcast that will   *)
(* wake it, even though both calls broadcast after they gave the mutex up.  *)
(* queue.c: queue_push(), queue_pop(), "Block until there is something in   *)
(* the queue".                                                              *)
NoLostWakeup ==
    (head # NULL /\ \E t \in Poppers : pc[t] = "waiting") => \E u \in Threads : pc[u] = "broadcast"

(* Whatever is queued is popped in the end: the pushed node leaves the      *)
(* queue.  queue.c: queue_pop(); main.c: txLoop().                          *)
QueuedIsPopped == \A n \in Nodes : n \in Allocated ~> n \notin Allocated

(* "A really simple generic threaded blocking FIFO queue" (queue.c): every  *)
(* call takes effect in one step on a sequence of items.                    *)
Fifo == INSTANCE FifoQueue WITH
    items <- [i \in 1 .. Len(chain) |-> data[chain[i]]], taken <- got
ImplementsFifo == Fifo!Spec
=============================================================================
