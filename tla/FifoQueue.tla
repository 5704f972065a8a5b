------------------------------ MODULE FifoQueue ------------------------------
(***************************************************************************)
(* What the iServer's queue promises its callers: a first-in, first-out    *)
(* sequence, each call on which takes effect in a single step.             *)
(***************************************************************************)
EXTENDS Sequences

CONSTANTS
    Poppers,    \* threads that take
    Items,      \* what is queued
    NULL        \* nothing

VARIABLES
    items,      \* the queue, oldest first
    taken       \* taken[t]: what t's last call returned, NULL once it calls again

vars == <<items, taken>>

Init ==
    /\ items = <<>>
    /\ taken = [t \in Poppers |-> NULL]

\* queue_push() takes effect.
Put(x) ==
    /\ items' = Append(items, x)
    /\ UNCHANGED taken

\* t calls queue_pop().
Ask(t) ==
    /\ taken' = [taken EXCEPT ![t] = NULL]
    /\ UNCHANGED items

\* queue_pop() takes effect: t, which waited for it, has the oldest item.
Take(t) ==
    /\ items # <<>>
    /\ taken[t] = NULL
    /\ taken' = [taken EXCEPT ![t] = Head(items)]
    /\ items' = Tail(items)

Next ==
    \/ \E x \in Items : Put(x)
    \/ \E t \in Poppers : Ask(t) \/ Take(t)

Spec == Init /\ [][Next]_vars
=============================================================================
