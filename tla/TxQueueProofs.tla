---------------------------- MODULE TxQueueProofs ----------------------------
(***************************************************************************)
(* Theorems about TxQueue for any threads, items and heap cells: the       *)
(* pointers describe the queue, no wakeup is lost, and every call takes    *)
(* effect in one step on a first-in, first-out sequence.                   *)
(***************************************************************************)
EXTENDS TxQueue, SequenceTheorems, TLAPS

(* What a thread's place in its call says of the call: a pusher that has    *)
(* not yet pushed holds its item and never sleeps, a popper that has not    *)
(* yet popped holds nothing.                                                *)
CallState ==
    /\ \A t \in Pushers : pc[t] # "waiting"
    /\ \A t \in Pushers : pc[t] \in {"lock", "locked"} => arg[t] \in Items
    /\ \A t \in Poppers : pc[t] \in {"lock", "locked", "waiting"} => got[t] = NULL

\* The inductive invariant.
IInv == TypeOK /\ ListMatchesChain /\ CallState

LEMMA InitIInv == Init => IInv
<1> SUFFICES ASSUME Init PROVE IInv
  OBVIOUS
<1>1. TypeOK
  <2>1. <<>> \in Seq(Nodes)
    OBVIOUS
  <2> QED
    BY <2>1 DEF Init, TypeOK
<1>2. ListMatchesChain
  BY DEF Init, ListMatchesChain
<1>3. CallState
  BY DEF Init, CallState, Threads
<1> QED
  BY <1>1, <1>2, <1>3 DEF IInv

(* Steps outside the critical sections leave the list alone.                *)
LEMMA ListUnchanged ==
    ASSUME ListMatchesChain, UNCHANGED list
    PROVE  ListMatchesChain'
BY DEF ListMatchesChain, list

(* What queue_push() does to the list, given the cell n that it allocates.  *)
LEMMA PushList ==
    ASSUME TypeOK, ListMatchesChain, NEW n \in Nodes \ Allocated,
           next' = [m \in Nodes |-> IF m = tail THEN n ELSE IF m = n THEN NULL ELSE next[m]],
           tail' = n,
           head' = IF head = NULL THEN n ELSE head,
           length' = length + 1,
           chain' = Append(chain, n)
    PROVE  ListMatchesChain'
<1>1. chain \in Seq(Nodes) /\ length = Len(chain) /\ Len(chain) \in Nat
  BY DEF TypeOK, ListMatchesChain
<1>2. /\ chain' \in Seq(Nodes)
      /\ Len(chain') = Len(chain) + 1
      /\ \A i \in 1 .. Len(chain) : chain'[i] = chain[i]
      /\ chain'[Len(chain) + 1] = n
      /\ chain' # <<>>
  BY <1>1
<1>3. \A i \in 1 .. Len(chain) : chain[i] \in Nodes /\ chain[i] # n
  BY <1>1 DEF Allocated
<1>4. NULL \notin Nodes
  BY NullAssumption
<1>5. head' = chain'[1]
  <2>1. CASE chain = <<>>
    BY <2>1, <1>1, <1>2 DEF ListMatchesChain
  <2>2. CASE chain # <<>>
    <3>1. Len(chain) >= 1
      BY <2>2, <1>1
    <3>2. head = chain[1] /\ head # NULL
      BY <2>2, <3>1, <1>3, <1>4, <1>1 DEF ListMatchesChain
    <3> QED
      BY <3>1, <3>2, <1>1, <1>2
  <2> QED
    BY <2>1, <2>2
<1>6. \A i \in 1 .. Len(chain') :
         next'[chain'[i]] = IF i = Len(chain') THEN NULL ELSE chain'[i + 1]
  <2> SUFFICES ASSUME NEW i \in 1 .. Len(chain')
               PROVE  next'[chain'[i]] = IF i = Len(chain') THEN NULL ELSE chain'[i + 1]
    OBVIOUS
  <2>1. CASE i = Len(chain) + 1
    <3>1. n # tail
      BY <1>1, <1>3, <1>4 DEF ListMatchesChain
    <3> QED
      BY <2>1, <3>1, <1>2
  <2>2. CASE i = Len(chain)
    <3>1. tail = chain[i] /\ chain[i] \in Nodes
      BY <2>2, <1>1, <1>2, <1>3 DEF ListMatchesChain
    <3> QED
      BY <2>2, <3>1, <1>1, <1>2
  <2>3. CASE i < Len(chain)
    <3>1. i \in 1 .. Len(chain) /\ i + 1 \in 1 .. Len(chain)
      BY <2>3, <1>1
    <3>2. chain[i] # tail
      BY <2>3, <3>1, <1>1 DEF ListMatchesChain
    <3>3. next'[chain[i]] = next[chain[i]] /\ next[chain[i]] = chain[i + 1]
      BY <3>1, <3>2, <2>3, <1>1, <1>3 DEF ListMatchesChain
    <3> QED
      BY <3>1, <3>3, <2>3, <1>1, <1>2
  <2> QED
    BY <2>1, <2>2, <2>3, <1>1, <1>2
<1>7. \A i, j \in 1 .. Len(chain') : chain'[i] = chain'[j] => i = j
  <2> SUFFICES ASSUME NEW i \in 1 .. Len(chain'), NEW j \in 1 .. Len(chain'), chain'[i] = chain'[j]
               PROVE  i = j
    OBVIOUS
  <2>1. (i \in 1 .. Len(chain) \/ i = Len(chain) + 1) /\ (j \in 1 .. Len(chain) \/ j = Len(chain) + 1)
    BY <1>1, <1>2
  <2> QED
    BY <2>1, <1>2, <1>3 DEF ListMatchesChain
<1> QED
  BY <1>1, <1>2, <1>5, <1>6, <1>7 DEF ListMatchesChain

(* What queue_pop() does to the list.                                       *)
LEMMA PopList ==
    ASSUME TypeOK, ListMatchesChain, head # NULL,
           head' = next[head],
           tail' = IF head' = NULL THEN NULL ELSE tail,
           length' = length - 1,
           chain' = Tail(chain),
           next' = next
    PROVE  ListMatchesChain' /\ length' \in Nat /\ chain' \in Seq(Nodes) /\ chain # <<>>
<1>1. /\ chain \in Seq(Nodes) /\ length = Len(chain) /\ Len(chain) \in Nat
      /\ chain # <<>> /\ head = chain[1]
  BY DEF TypeOK, ListMatchesChain
<1>2. Len(chain) >= 1
  BY <1>1
<1>3. /\ chain' \in Seq(Nodes)
      /\ Len(chain') = Len(chain) - 1
      /\ \A i \in 1 .. Len(chain') : chain'[i] = chain[i + 1]
      /\ chain' = <<>> <=> Len(chain) = 1
  <2>1. chain' \in Seq(Nodes) /\ Len(chain') = Len(chain) - 1
    BY <1>1, <1>2
  <2>2. \A i \in 1 .. Len(chain') : chain'[i] = chain[i + 1]
    BY <1>1, <1>2, <2>1
  <2>3. chain' = <<>> <=> Len(chain') = 0
    BY <2>1, EmptySeq
  <2> QED
    BY <1>1, <1>2, <2>1, <2>2, <2>3
<1>4. \A i \in 1 .. Len(chain) : chain[i] \in Nodes
  BY <1>1
<1>5. NULL \notin Nodes
  BY NullAssumption
<1>6. head' = IF Len(chain) = 1 THEN NULL ELSE chain[2]
  BY <1>1, <1>2 DEF ListMatchesChain
<1>7. head' = IF chain' = <<>> THEN NULL ELSE chain'[1]
  <2>1. CASE Len(chain) = 1
    BY <2>1, <1>3, <1>6
  <2>2. CASE Len(chain) # 1
    <3>1. 1 \in 1 .. Len(chain') /\ chain'[1] = chain[1 + 1]
      BY <2>2, <1>1, <1>2, <1>3
    <3> QED
      BY <2>2, <3>1, <1>3, <1>6
  <2> QED
    BY <2>1, <2>2
<1>8. tail' = IF chain' = <<>> THEN NULL ELSE chain'[Len(chain')]
  <2>1. CASE Len(chain) = 1
    BY <2>1, <1>3, <1>6
  <2>2. CASE Len(chain) # 1
    <3>1. head' # NULL
      BY <2>2, <1>1, <1>2, <1>4, <1>5, <1>6
    <3>2. tail = chain[Len(chain)]
      BY <1>1 DEF ListMatchesChain
    <3>3. Len(chain') \in 1 .. Len(chain') /\ Len(chain') + 1 = Len(chain)
      BY <2>2, <1>1, <1>2, <1>3
    <3>4. chain'[Len(chain')] = chain[Len(chain)]
      BY <3>3, <1>3
    <3> QED
      BY <2>2, <3>1, <3>2, <3>4, <1>3
  <2> QED
    BY <2>1, <2>2
<1>9. \A i \in 1 .. Len(chain') :
         next'[chain'[i]] = IF i = Len(chain') THEN NULL ELSE chain'[i + 1]
  <2> SUFFICES ASSUME NEW i \in 1 .. Len(chain')
               PROVE  next'[chain'[i]] = IF i = Len(chain') THEN NULL ELSE chain'[i + 1]
    OBVIOUS
  <2>1. i + 1 \in 1 .. Len(chain) /\ chain'[i] = chain[i + 1]
    BY <1>1, <1>2, <1>3
  <2>2. next[chain[i + 1]] = IF i + 1 = Len(chain) THEN NULL ELSE chain[(i + 1) + 1]
    BY <2>1 DEF ListMatchesChain
  <2>3. CASE i = Len(chain')
    BY <2>1, <2>2, <2>3, <1>1, <1>3
  <2>4. CASE i # Len(chain')
    <3>1. i + 1 \in 1 .. Len(chain') /\ chain'[i + 1] = chain[(i + 1) + 1] /\ i + 1 # Len(chain)
      BY <2>4, <1>1, <1>2, <1>3
    <3> QED
      BY <2>1, <2>2, <2>4, <3>1
  <2> QED
    BY <2>3, <2>4
<1>10. \A i, j \in 1 .. Len(chain') : chain'[i] = chain'[j] => i = j
  <2> SUFFICES ASSUME NEW i \in 1 .. Len(chain'), NEW j \in 1 .. Len(chain'), chain'[i] = chain'[j]
               PROVE  i = j
    OBVIOUS
  <2>1. /\ i + 1 \in 1 .. Len(chain) /\ chain'[i] = chain[i + 1]
        /\ j + 1 \in 1 .. Len(chain) /\ chain'[j] = chain[j + 1]
    BY <1>1, <1>2, <1>3
  <2>2. i + 1 = j + 1
    BY <2>1 DEF ListMatchesChain
  <2> QED
    BY <2>2
<1>11. length' = Len(chain') /\ length' \in Nat
  BY <1>1, <1>2, <1>3
<1>12. ListMatchesChain'
  BY <1>7, <1>8, <1>9, <1>10, <1>11 DEF ListMatchesChain
<1> QED
  BY <1>1, <1>3, <1>11, <1>12

LEMMA StepIInv == IInv /\ [Next]_vars => IInv'
<1> SUFFICES ASSUME IInv, [Next]_vars PROVE IInv'
  OBVIOUS
<1> USE DEF IInv
<1>0. NULL \notin Nodes /\ NULL \notin Items /\ Pushers \cap Poppers = {}
  BY NullAssumption, ThreadAssumption
<1>1. ASSUME NEW t \in Pushers, NEW x \in Items, CallPush(t, x) PROVE IInv'
  <2>1. TypeOK' /\ CallState'
    BY <1>1, <1>0 DEF CallPush, Goto, list, TypeOK, CallState, Threads
  <2> QED
    BY <2>1, <1>1, ListUnchanged DEF CallPush
<1>2. ASSUME NEW t \in Pushers, queue_push(t) PROVE IInv'
  <2>1. PICK n \in Nodes \ Allocated :
           /\ data' = [data EXCEPT ![n] = arg[t]]
           /\ next' = [m \in Nodes |-> IF m = tail THEN n ELSE IF m = n THEN NULL ELSE next[m]]
           /\ tail' = n
           /\ head' = IF head = NULL THEN n ELSE head
           /\ length' = length + 1
           /\ chain' = Append(chain, n)
    BY <1>2 DEF queue_push
  <2>2. ListMatchesChain'
    BY <2>1, PushList
  <2>3. chain' \in Seq(Nodes) /\ length' \in Nat
    BY <2>1 DEF TypeOK
  <2>4. TypeOK'
    BY <1>2, <2>1, <2>3 DEF queue_push, Goto, TypeOK, Threads
  <2>5. CallState'
    BY <1>2, <1>0 DEF queue_push, Goto, TypeOK, CallState, Threads
  <2> QED
    BY <2>2, <2>4, <2>5
<1>3. ASSUME NEW t \in Poppers, CallPop(t) PROVE IInv'
  <2>1. TypeOK' /\ CallState'
    BY <1>3, <1>0 DEF CallPop, Goto, list, TypeOK, CallState, Threads
  <2> QED
    BY <2>1, <1>3, ListUnchanged DEF CallPop
<1>4. ASSUME NEW t \in Poppers, Wait(t) PROVE IInv'
  <2>1. TypeOK' /\ CallState'
    BY <1>4, <1>0 DEF Wait, Goto, list, TypeOK, CallState, Threads
  <2> QED
    BY <2>1, <1>4, ListUnchanged DEF Wait
<1>5. ASSUME NEW t \in Poppers, SpuriousWakeup(t) PROVE IInv'
  <2>1. TypeOK' /\ CallState'
    BY <1>5, <1>0 DEF SpuriousWakeup, Goto, list, TypeOK, CallState, Threads
  <2> QED
    BY <2>1, <1>5, ListUnchanged DEF SpuriousWakeup
<1>6. ASSUME NEW t \in Poppers, queue_pop(t) PROVE IInv'
  <2>1. ListMatchesChain' /\ length' \in Nat /\ chain' \in Seq(Nodes)
    BY <1>6, PopList DEF queue_pop
  <2>2. head \in Nodes
    BY <1>6 DEF queue_pop, TypeOK
  <2>3. TypeOK'
    BY <1>6, <2>1, <2>2 DEF queue_pop, Goto, TypeOK, Threads
  <2>4. CallState'
    BY <1>6, <1>0 DEF queue_pop, Goto, TypeOK, CallState, Threads
  <2> QED
    BY <2>1, <2>3, <2>4
<1>7. ASSUME NEW t \in Threads, Lock(t) PROVE IInv'
  <2>1. TypeOK' /\ CallState'
    BY <1>7, <1>0 DEF Lock, Goto, list, TypeOK, CallState, Threads
  <2> QED
    BY <2>1, <1>7, ListUnchanged DEF Lock
<1>8. ASSUME NEW t \in Threads, Broadcast(t) PROVE IInv'
  <2>1. TypeOK'
    BY <1>8 DEF Broadcast, list, TypeOK, Threads
  <2>2. CallState'
    BY <1>8, <1>0 DEF Broadcast, TypeOK, CallState, Threads
  <2> QED
    BY <2>1, <2>2, <1>8, ListUnchanged DEF Broadcast
<1>9. CASE UNCHANGED vars
  BY <1>9, ListUnchanged DEF vars, list, TypeOK, CallState
<1> QED
  BY <1>1, <1>2, <1>3, <1>4, <1>5, <1>6, <1>7, <1>8, <1>9 DEF Next

LEMMA IInvAlways == Spec => []IInv
BY InitIInv, StepIInv, PTL DEF Spec

(* At every moment the pointers of struct queue describe the sequence of    *)
(* what was pushed and not yet popped.                                      *)
THEOREM ListCorrect == Spec => []ListMatchesChain
<1>1. IInv => ListMatchesChain
  BY DEF IInv
<1> QED
  BY <1>1, IInvAlways, PTL

(* The variables keep their types; length, which counts down in             *)
(* queue_pop(), never goes below zero.                                      *)
THEOREM TypeCorrect == Spec => []TypeOK
<1>1. IInv => TypeOK
  BY DEF IInv
<1> QED
  BY <1>1, IInvAlways, PTL

-----------------------------------------------------------------------------
(* A popper sleeps only after it saw an empty queue, and what makes the     *)
(* queue non-empty leaves a thread before its broadcast: NoLostWakeup is    *)
(* inductive, given the types.                                              *)
LEMMA StepNoLostWakeup == IInv /\ NoLostWakeup /\ [Next]_vars => NoLostWakeup'
<1> SUFFICES ASSUME TypeOK, NoLostWakeup, [Next]_vars PROVE NoLostWakeup'
  BY DEF IInv
<1>1. ASSUME NEW t \in Pushers, NEW x \in Items, CallPush(t, x) PROVE NoLostWakeup'
  BY <1>1 DEF CallPush, Goto, list, TypeOK, NoLostWakeup, Threads
<1>2. ASSUME NEW t \in Pushers, queue_push(t) PROVE NoLostWakeup'
  BY <1>2 DEF queue_push, Goto, TypeOK, NoLostWakeup, Threads
<1>3. ASSUME NEW t \in Poppers, CallPop(t) PROVE NoLostWakeup'
  BY <1>3 DEF CallPop, Goto, list, TypeOK, NoLostWakeup, Threads
<1>4. ASSUME NEW t \in Poppers, Wait(t) PROVE NoLostWakeup'
  BY <1>4 DEF Wait, Goto, list, TypeOK, NoLostWakeup, Threads
<1>5. ASSUME NEW t \in Poppers, SpuriousWakeup(t) PROVE NoLostWakeup'
  BY <1>5 DEF SpuriousWakeup, Goto, list, TypeOK, NoLostWakeup, Threads
<1>6. ASSUME NEW t \in Poppers, queue_pop(t) PROVE NoLostWakeup'
  BY <1>6 DEF queue_pop, Goto, TypeOK, NoLostWakeup, Threads
<1>7. ASSUME NEW t \in Threads, Lock(t) PROVE NoLostWakeup'
  BY <1>7 DEF Lock, Goto, list, TypeOK, NoLostWakeup, Threads
<1>8. ASSUME NEW t \in Threads, Broadcast(t) PROVE NoLostWakeup'
  BY <1>8 DEF Broadcast, list, TypeOK, NoLostWakeup, Threads
<1>9. CASE UNCHANGED vars
  BY <1>9 DEF vars, list, NoLostWakeup
<1> QED
  BY <1>1, <1>2, <1>3, <1>4, <1>5, <1>6, <1>7, <1>8, <1>9 DEF Next

(* While a popper sleeps with something to pop, a broadcast is on its way,  *)
(* whatever the number of threads and the moments they lose the processor.  *)
THEOREM WakeupCorrect == Spec => []NoLostWakeup
<1>1. Init => NoLostWakeup
  BY DEF Init, NoLostWakeup
<1> QED
  BY <1>1, StepNoLostWakeup, IInvAlways, PTL DEF Spec

-----------------------------------------------------------------------------
\* The refinement mapping's queue of items.
items == [i \in 1 .. Len(chain) |-> data[chain[i]]]

LEMMA ItemsUnchanged ==
    ASSUME UNCHANGED list
    PROVE  UNCHANGED items
BY DEF list, items

LEMMA StepFifo == IInv /\ [Next]_vars => [Fifo!Next]_<<items, got>>
<1> SUFFICES ASSUME TypeOK, ListMatchesChain, CallState, [Next]_vars
             PROVE  [Fifo!Next]_<<items, got>>
  BY DEF IInv
<1> USE DEF items
<1>1. ASSUME NEW t \in Pushers, NEW x \in Items, CallPush(t, x) PROVE UNCHANGED <<items, got>>
  BY <1>1, ItemsUnchanged DEF CallPush
<1>2. ASSUME NEW t \in Pushers, queue_push(t) PROVE Fifo!Next
  <2>1. PICK n \in Nodes \ Allocated :
           /\ data' = [data EXCEPT ![n] = arg[t]]
           /\ chain' = Append(chain, n)
    BY <1>2 DEF queue_push
  <2>2. arg[t] \in Items
    BY <1>2 DEF queue_push, Goto, CallState
  <2>3. chain \in Seq(Nodes) /\ data \in [Nodes -> Items \cup {NULL}] /\ Len(chain) \in Nat
    BY DEF TypeOK
  <2>4. items \in Seq(Items \cup {NULL}) /\ Len(items) = Len(chain)
    BY <2>3
  <2>5. /\ Len(chain') = Len(chain) + 1
        /\ \A i \in 1 .. Len(chain) : chain'[i] = chain[i] /\ chain[i] \in Nodes /\ chain[i] # n
        /\ chain'[Len(chain) + 1] = n
    BY <2>1, <2>3 DEF Allocated
  <2>6. \A i \in 1 .. Len(chain') :
           data'[chain'[i]] = IF i = Len(chain) + 1 THEN arg[t] ELSE data[chain[i]]
    BY <2>1, <2>3, <2>5
  <2>7. items' = Append(items, arg[t])
    BY <2>2, <2>3, <2>4, <2>5, <2>6
  <2>8. PICK x \in Items : x = arg[t]
    BY <2>2
  <2>9. Fifo!Put(x)
    BY <2>7, <2>8, <1>2 DEF queue_push, Fifo!Put
  <2> HIDE DEF items
  <2> QED
    BY <2>9 DEF Fifo!Next
<1>3. ASSUME NEW t \in Poppers, CallPop(t) PROVE Fifo!Ask(t)
  BY <1>3, ItemsUnchanged DEF CallPop, Fifo!Ask
<1>4. ASSUME NEW t \in Poppers, Wait(t) PROVE UNCHANGED <<items, got>>
  BY <1>4, ItemsUnchanged DEF Wait
<1>5. ASSUME NEW t \in Poppers, SpuriousWakeup(t) PROVE UNCHANGED <<items, got>>
  BY <1>5, ItemsUnchanged DEF SpuriousWakeup
<1>6. ASSUME NEW t \in Poppers, queue_pop(t) PROVE Fifo!Take(t)
  <2>1. /\ chain \in Seq(Nodes) /\ chain # <<>> /\ head = chain[1]
        /\ data \in [Nodes -> Items \cup {NULL}]
    BY <1>6 DEF queue_pop, TypeOK, ListMatchesChain
  <2>2. chain' = Tail(chain) /\ data' = data /\ got' = [got EXCEPT ![t] = data[head]]
    BY <1>6 DEF queue_pop
  <2>3. Len(chain) \in Nat \ {0}
    BY <2>1, EmptySeq
  <2>4. items \in Seq(Items \cup {NULL}) /\ Len(items) = Len(chain)
    BY <2>1
  <2>5. items # <<>> /\ Head(items) = data[head]
    BY <2>1, <2>3, <2>4
  <2>6. Len(chain') = Len(chain) - 1 /\ \A i \in 1 .. Len(chain') : chain'[i] = chain[i + 1]
    BY <2>1, <2>2, <2>3
  <2>7. items' = Tail(items)
    BY <2>2, <2>3, <2>4, <2>6
  <2>8. got[t] = NULL
    BY <1>6 DEF queue_pop, Goto, CallState
  <2> QED
    BY <2>2, <2>5, <2>7, <2>8 DEF Fifo!Take
<1>7. ASSUME NEW t \in Threads, Lock(t) PROVE UNCHANGED <<items, got>>
  BY <1>7, ItemsUnchanged DEF Lock
<1>8. ASSUME NEW t \in Threads, Broadcast(t) PROVE UNCHANGED <<items, got>>
  BY <1>8, ItemsUnchanged DEF Broadcast
<1>9. CASE UNCHANGED vars
  BY <1>9, ItemsUnchanged DEF vars
<1> HIDE DEF items
<1>10. ASSUME NEW t \in Poppers, CallPop(t) \/ queue_pop(t) PROVE Fifo!Next
  BY <1>3, <1>6, <1>10 DEF Fifo!Next
<1> QED
  BY <1>1, <1>2, <1>4, <1>5, <1>7, <1>8, <1>9, <1>10 DEF Next

(* queue.c is "a really simple generic threaded blocking FIFO queue": each  *)
(* push appends and each pop takes the oldest item, in one step.            *)
THEOREM QueueImplementsFifo == Spec => ImplementsFifo
<1>1. Init => Fifo!Init
  BY DEF Init, Fifo!Init
<1>2. IInv /\ [Next]_vars => [Fifo!Next]_Fifo!vars
  BY StepFifo DEF Fifo!vars, items
<1> QED
  BY <1>1, <1>2, IInvAlways, PTL DEF Spec, ImplementsFifo, Fifo!Spec
=============================================================================
