----------------------------- MODULE FifoQueue -----------------------------
(***************************************************************************)
(* What ThreadSafeQueue<T> (rpi/common/ThreadSafeQueue.hpp) promises its   *)
(* users, with no lock and no condition variable: push never blocks and    *)
(* never refuses, pop hands out the items in the order in which they were  *)
(* pushed, each exactly once, and only a queue that is closed AND empty    *)
(* makes pop throw.                                                        *)
(***************************************************************************)
EXTENDS Naturals, Sequences

CONSTANTS
    Producers,   \* threads that call push
    Consumers    \* threads that call pop in a loop until it throws

VARIABLES
    items,       \* pushed and not yet popped, oldest first
    popped,      \* history: every item pop has returned, in that order
    sent,        \* per producer, how many items it has pushed
    closed,      \* close() has taken effect
    refused      \* consumers whose pop threw "Queue Closed !"

vars == <<items, popped, sent, closed, refused>>

Init ==
    /\ items = <<>>
    /\ popped = <<>>
    /\ sent = [p \in Producers |-> 0]
    /\ closed = FALSE
    /\ refused = {}

\* The n-th item of producer p is the pair <<p, n>>, so items are distinct.
Push(p) ==
    /\ sent' = [sent EXCEPT ![p] = @ + 1]
    /\ items' = Append(items, <<p, sent[p] + 1>>)
    /\ UNCHANGED <<popped, closed, refused>>

Pop(c) ==
    /\ c \notin refused
    /\ items # <<>>
    /\ popped' = Append(popped, Head(items))
    /\ items' = Tail(items)
    /\ UNCHANGED <<sent, closed, refused>>

Close ==
    /\ closed' = TRUE
    /\ UNCHANGED <<items, popped, sent, refused>>

Refuse(c) ==
    /\ closed
    /\ items = <<>>
    /\ refused' = refused \cup {c}
    /\ UNCHANGED <<items, popped, sent, closed>>

Next ==
    \/ \E p \in Producers : Push(p)
    \/ \E c \in Consumers : Pop(c) \/ Refuse(c)
    \/ Close

Spec == Init /\ [][Next]_vars
=============================================================================
