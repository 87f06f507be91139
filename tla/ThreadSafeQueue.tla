-------------------------- MODULE ThreadSafeQueue --------------------------
(***************************************************************************)
(* ThreadSafeQueue<T> of rpi/common/ThreadSafeQueue.hpp: a std::queue      *)
(* behind one pthread mutex and one condition variable.  Every call is cut *)
(* where another thread can run: taking the mutex, the critical section,   *)
(* releasing the mutex, and the two halves of pthread_cond_wait.           *)
(***************************************************************************)
EXTENDS Naturals, Sequences, FiniteSets

CONSTANTS
    Producers,   \* threads that call push
    Consumers,   \* threads that call pop in a loop until it throws
    Closers,     \* threads that call close once, at any moment or never
    MaxPushes,   \* bound: pushes per producer
    NoThread     \* the owner of a free mutex

Threads == Producers \cup Consumers \cup Closers

ASSUME ThreadsAssumption ==
    /\ IsFiniteSet(Consumers)
    /\ Producers \cap Consumers = {}
    /\ Producers \cap Closers = {}
    /\ Consumers \cap Closers = {}
    /\ NoThread \notin Threads
    /\ MaxPushes \in Nat

VARIABLES
    mutex,       \* mutex_: the thread that holds it, or NoThread
    condWaiters, \* cond_: consumers asleep in pthread_cond_wait, not yet woken
    queue,       \* queue_
    closed,      \* closed_
    pc,          \* where each thread is in push, pop or close
    sent,        \* per producer, how many items it has pushed
    popped       \* history: every item pop has returned, in that order

vars == <<mutex, condWaiters, queue, closed, pc, sent, popped>>

\* The n-th item of producer p.
Item == Producers \X Nat

\* "idle": outside the queue's methods; "inside": holds the mutex, before the
\* critical work; "waiting": in pthread_cond_wait; "leaving": holds the mutex,
\* about to unlock; "done": pop threw (consumer) or close returned (closer).
Locations == {"idle", "inside", "waiting", "leaving", "done"}

Init ==
    /\ mutex = NoThread
    /\ condWaiters = {}
    /\ queue = <<>>
    /\ closed = FALSE
    /\ pc = [t \in Threads |-> "idle"]
    /\ sent = [p \in Producers |-> 0]
    /\ popped = <<>>

\* pthread_mutex_lock by t, whose program counter moves from one location to
\* "inside"; the call returns only when nobody holds the mutex.
Acquire(t, from) ==
    /\ pc[t] = from
    /\ mutex = NoThread
    /\ mutex' = t
    /\ pc' = [pc EXCEPT ![t] = "inside"]
    /\ UNCHANGED <<condWaiters, queue, closed, sent, popped>>

\* pthread_mutex_unlock at the end of push, of close and of a successful pop.
Unlock(t) ==
    /\ pc[t] = "leaving"
    /\ mutex' = NoThread
    /\ pc' = [pc EXCEPT ![t] = IF t \in Closers THEN "done" ELSE "idle"]
    /\ UNCHANGED <<condWaiters, queue, closed, sent, popped>>

-----------------------------------------------------------------------------
(* push *)

PushLock(p) ==
    /\ sent[p] < MaxPushes
    /\ Acquire(p, "idle")

\* Mutant: push that forgets pthread_cond_signal.
Signal_Never == UNCHANGED condWaiters

\* pthread_cond_signal: wakes one sleeper if there is one.  POSIX lets it wake
\* more; SpuriousWakeup covers those.
Signal ==
    IF condWaiters = {}
    THEN UNCHANGED condWaiters
    ELSE \E c \in condWaiters : condWaiters' = condWaiters \ {c}

\* Mutant: push that signals only when the queue was empty before.
PushItem_SignalIfWasEmpty(p) ==
    /\ pc[p] = "inside"
    /\ sent' = [sent EXCEPT ![p] = @ + 1]
    /\ queue' = Append(queue, <<p, sent[p] + 1>>)
    /\ IF queue = <<>> THEN Signal ELSE UNCHANGED condWaiters
    /\ pc' = [pc EXCEPT ![p] = "leaving"]
    /\ UNCHANGED <<mutex, closed, popped>>

PushItem(p) ==
    /\ pc[p] = "inside"
    /\ sent' = [sent EXCEPT ![p] = @ + 1]
    /\ queue' = Append(queue, <<p, sent[p] + 1>>)
    /\ Signal
    /\ pc' = [pc EXCEPT ![p] = "leaving"]
    /\ UNCHANGED <<mutex, closed, popped>>

-----------------------------------------------------------------------------
(* pop *)

PopLock(c) == Acquire(c, "idle")

\* Mutant: going to sleep without giving the mutex away.
PopWait_KeepingMutex(c) ==
    /\ pc[c] = "inside"
    /\ queue = <<>>
    /\ ~closed
    /\ condWaiters' = condWaiters \cup {c}
    /\ pc' = [pc EXCEPT ![c] = "waiting"]
    /\ UNCHANGED <<mutex, queue, closed, sent, popped>>

\* The loop condition holds: pthread_cond_wait releases the mutex and goes to
\* sleep in one atomic step.
PopWait(c) ==
    /\ pc[c] = "inside"
    /\ queue = <<>>
    /\ ~closed
    /\ condWaiters' = condWaiters \cup {c}
    /\ mutex' = NoThread
    /\ pc' = [pc EXCEPT ![c] = "waiting"]
    /\ UNCHANGED <<queue, closed, sent, popped>>

\* POSIX: pthread_cond_wait may return although nobody signalled.
SpuriousWakeup(c) ==
    /\ c \in condWaiters
    /\ condWaiters' = condWaiters \ {c}
    /\ UNCHANGED <<mutex, queue, closed, pc, sent, popped>>

\* Mutant: the wait returns while the caller is still among the sleepers.
Reacquire_StillAsleep(c) == Acquire(c, "waiting")

\* A woken consumer takes the mutex again and goes back to the loop condition.
Reacquire(c) ==
    /\ c \notin condWaiters
    /\ Acquire(c, "waiting")

\* Mutant: pop that throws as soon as the queue is closed, items or not.
PopThrow_WithItems(c) ==
    /\ pc[c] = "inside"
    /\ closed
    /\ mutex' = NoThread
    /\ pc' = [pc EXCEPT ![c] = "done"]
    /\ UNCHANGED <<condWaiters, queue, closed, sent, popped>>

\* Closed and empty: unlock and throw "Queue Closed !".
PopThrow(c) ==
    /\ pc[c] = "inside"
    /\ queue = <<>>
    /\ closed
    /\ mutex' = NoThread
    /\ pc' = [pc EXCEPT ![c] = "done"]
    /\ UNCHANGED <<condWaiters, queue, closed, sent, popped>>

PopTake(c) ==
    /\ pc[c] = "inside"
    /\ queue # <<>>
    /\ popped' = Append(popped, Head(queue))
    /\ queue' = Tail(queue)
    /\ pc' = [pc EXCEPT ![c] = "leaving"]
    /\ UNCHANGED <<mutex, condWaiters, closed, sent>>

-----------------------------------------------------------------------------
(* close *)

CloseLock(k) == Acquire(k, "idle")

\* Mutant: close that signals one sleeper instead of broadcasting.
CloseQueue_Signal(k) ==
    /\ pc[k] = "inside"
    /\ closed' = TRUE
    /\ Signal
    /\ pc' = [pc EXCEPT ![k] = "leaving"]
    /\ UNCHANGED <<mutex, queue, sent, popped>>

\* pthread_cond_broadcast empties the set of sleepers.
CloseQueue(k) ==
    /\ pc[k] = "inside"
    /\ closed' = TRUE
    /\ condWaiters' = {}
    /\ pc' = [pc EXCEPT ![k] = "leaving"]
    /\ UNCHANGED <<mutex, queue, sent, popped>>

-----------------------------------------------------------------------------

Next ==
    \/ \E p \in Producers : PushLock(p) \/ PushItem(p)
    \/ \E c \in Consumers :
          \/ PopLock(c)
          \/ PopWait(c)
          \/ SpuriousWakeup(c)
          \/ Reacquire(c)
          \/ PopThrow(c)
          \/ PopTake(c)
    \/ \E k \in Closers : CloseLock(k) \/ CloseQueue(k)
    \/ \E t \in Threads : Unlock(t)

Spec == Init /\ [][Next]_vars

\* A thread that holds the mutex runs on (weak fairness).  A consumer whose
\* run() loop calls pop again gets the mutex if it is free again and again
\* (strong fairness: a pthread mutex is not a FIFO lock).  Nothing obliges
\* anyone to push, to close or to wake up spuriously.
Fairness ==
    /\ \A p \in Producers : WF_vars(PushItem(p))
    /\ \A k \in Closers : WF_vars(CloseQueue(k))
    /\ \A t \in Threads : WF_vars(Unlock(t))
    /\ \A c \in Consumers :
          /\ WF_vars(PopWait(c))
          /\ WF_vars(PopThrow(c))
          /\ WF_vars(PopTake(c))
          /\ SF_vars(PopLock(c))
          /\ SF_vars(Reacquire(c))

FairSpec == Spec /\ Fairness

-----------------------------------------------------------------------------
(* Properties *)

\* The variables keep their types, and only a thread inside pthread_cond_wait
\* is in the condition variable's set of sleepers.
TypeOK ==
    /\ mutex \in Threads \cup {NoThread}
    /\ condWaiters \subseteq {c \in Consumers : pc[c] = "waiting"}
    /\ queue \in Seq(Item)
    /\ closed \in BOOLEAN
    /\ pc \in [Threads -> Locations]
    /\ sent \in [Producers -> Nat]
    /\ popped \in Seq(Item)

Holding(t) == pc[t] \in {"inside", "leaving"}

\* queue_ and closed_ are touched only by the thread that holds mutex_,
\* although pthread_cond_wait gives the mutex away in the middle of pop.
MutualExclusion == \A t \in Threads : Holding(t) <=> mutex = t

\* Consumers on their way to the loop condition of pop: woken up, or already
\* holding the mutex and not yet served.
Awake == {c \in Consumers : pc[c] \in {"inside", "waiting"}} \ condWaiters

\* No wakeup is lost: a consumer sleeps in pop only while the queue is open
\* and every queued item has an awake consumer of its own coming for it, with
\* one pthread_cond_signal per push however the wakeups interleave.
NoLostWakeup ==
    condWaiters # {} =>
        /\ ~closed
        /\ Len(queue) <= Cardinality(Awake)

\* The abstract queue: a consumer is refused when pop has thrown.
Fifo == INSTANCE FifoQueue WITH
    items <- queue,
    refused <- {c \in Consumers : pc[c] = "done"}

\* The monitor implements the abstract queue: FIFO order, each item once, no
\* exception before the queue is both closed and drained.
ImplementsFifo == Fifo!Spec

\* Every item in the queue while some consumer has not been refused is popped,
\* also when the queue is closed first: close() never discards what is queued.
\* (push does not look at closed_: what is pushed after the last consumer got
\* its exception stays in queue_ for ever.)
ItemsReachConsumers ==
    \A n \in 1 .. MaxPushes * Cardinality(Producers) :
        (Len(popped) + Len(queue) >= n /\ \E c \in Consumers : pc[c] # "done")
            ~> Len(popped) >= n

\* After close() no consumer stays blocked in pop: each drains what is left
\* and gets the exception ("pop 에서 일으키는 blocking을 방지").
CloseReleasesConsumers ==
    \A c \in Consumers : closed ~> pc[c] = "done"
=============================================================================
