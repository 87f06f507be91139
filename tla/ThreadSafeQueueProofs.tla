----------------------- MODULE ThreadSafeQueueProofs -----------------------
(***************************************************************************)
(* Proofs about ThreadSafeQueue, for any finite set of consumers, any      *)
(* producers and closers and any number of pushes.                         *)
(***************************************************************************)
EXTENDS ThreadSafeQueue, FiniteSetTheorems, SequenceTheorems, TLAPS

(***************************************************************************)
(* The types of ThreadSafeQueue's fields, and the sleepers of cond_ are    *)
(* threads inside pthread_cond_wait.                                       *)
(***************************************************************************)
THEOREM TypeCorrect == Spec => []TypeOK
<1>1. Init => TypeOK
  <2> SUFFICES ASSUME Init PROVE TypeOK
    OBVIOUS
  <2>1. queue \in Seq(Item) /\ popped \in Seq(Item)
    BY EmptySeq DEF Init
  <2>2. pc \in [Threads -> Locations] /\ sent \in [Producers -> Nat]
    BY DEF Init, Locations
  <2>. QED  BY <2>1, <2>2 DEF Init, TypeOK
<1>2. TypeOK /\ [Next]_vars => TypeOK'
  <2> SUFFICES ASSUME TypeOK, [Next]_vars PROVE TypeOK'
    OBVIOUS
  <2> USE ThreadsAssumption DEF ThreadsAssumption, TypeOK, Threads, Locations
  <2>1. ASSUME NEW t \in Threads, NEW from \in {"idle", "waiting"},
               t \notin condWaiters, Acquire(t, from)
        PROVE  TypeOK'
    BY <2>1 DEF Acquire
  <2>2. ASSUME NEW p \in Producers, PushLock(p) PROVE TypeOK'
    <3>1. p \notin condWaiters
      BY <2>2
    <3>. QED  BY <2>1, <2>2, <3>1 DEF PushLock
  <2>3. ASSUME NEW p \in Producers, PushItem(p) PROVE TypeOK'
    <3>1. <<p, sent[p] + 1>> \in Item
      BY <2>3 DEF Item
    <3>2. Append(queue, <<p, sent[p] + 1>>) \in Seq(Item)
      BY <3>1
    <3>3. condWaiters' \subseteq condWaiters
      BY <2>3 DEF PushItem, Signal
    <3>. QED  BY <2>3, <3>2, <3>3 DEF PushItem
  <2>4. ASSUME NEW c \in Consumers, PopLock(c) PROVE TypeOK'
    <3>1. c \notin condWaiters
      BY <2>4 DEF PopLock, Acquire
    <3>. QED  BY <2>1, <2>4, <3>1 DEF PopLock
  <2>5. ASSUME NEW c \in Consumers, PopWait(c) PROVE TypeOK'
    BY <2>5 DEF PopWait
  <2>6. ASSUME NEW c \in Consumers, SpuriousWakeup(c) PROVE TypeOK'
    BY <2>6 DEF SpuriousWakeup
  <2>7. ASSUME NEW c \in Consumers, Reacquire(c) PROVE TypeOK'
    BY <2>1, <2>7 DEF Reacquire
  <2>8. ASSUME NEW c \in Consumers, PopThrow(c) PROVE TypeOK'
    BY <2>8 DEF PopThrow
  <2>9. ASSUME NEW c \in Consumers, PopTake(c) PROVE TypeOK'
    BY <2>9 DEF PopTake
  <2>10. ASSUME NEW k \in Closers, CloseLock(k) PROVE TypeOK'
    <3>1. k \notin condWaiters
      BY <2>10
    <3>. QED  BY <2>1, <2>10, <3>1 DEF CloseLock
  <2>11. ASSUME NEW k \in Closers, CloseQueue(k) PROVE TypeOK'
    BY <2>11 DEF CloseQueue
  <2>12. ASSUME NEW t \in Threads, Unlock(t) PROVE TypeOK'
    BY <2>12 DEF Unlock
  <2>13. CASE UNCHANGED vars
    BY <2>13 DEF vars
  <2>. QED
    BY <2>2, <2>3, <2>4, <2>5, <2>6, <2>7, <2>8, <2>9, <2>10, <2>11, <2>12,
       <2>13 DEF Next
<1>. QED  BY <1>1, <1>2, PTL DEF Spec

-----------------------------------------------------------------------------

(***************************************************************************)
(* Only the holder of mutex_ is between lock and unlock, and the holder    *)
(* is: pthread_cond_wait's handing over of the mutex included.             *)
(***************************************************************************)
THEOREM Exclusion == Spec => []MutualExclusion
<1>1. Init => MutualExclusion
  BY ThreadsAssumption DEF ThreadsAssumption, Init, MutualExclusion, Holding
<1>2. TypeOK /\ MutualExclusion /\ [Next]_vars => MutualExclusion'
  <2> SUFFICES ASSUME TypeOK, MutualExclusion, [Next]_vars PROVE MutualExclusion'
    OBVIOUS
  <2> USE ThreadsAssumption
      DEF ThreadsAssumption, TypeOK, MutualExclusion, Holding, Threads
  <2>1. ASSUME NEW t \in Threads, NEW from \in {"idle", "waiting"}, Acquire(t, from)
        PROVE  MutualExclusion'
    BY <2>1 DEF Acquire
  <2>2. ASSUME NEW p \in Producers, PushLock(p) \/ PushItem(p)
        PROVE  MutualExclusion'
    <3>1. CASE PushLock(p)
      BY <2>1, <3>1 DEF PushLock
    <3>2. CASE PushItem(p)
      BY <3>2 DEF PushItem
    <3>. QED  BY <2>2, <3>1, <3>2
  <2>3. ASSUME NEW c \in Consumers, PopLock(c) \/ Reacquire(c)
        PROVE  MutualExclusion'
    BY <2>1, <2>3 DEF PopLock, Reacquire
  <2>4. ASSUME NEW c \in Consumers, PopWait(c) PROVE MutualExclusion'
    BY <2>4 DEF PopWait
  <2>5. ASSUME NEW c \in Consumers, SpuriousWakeup(c) PROVE MutualExclusion'
    BY <2>5 DEF SpuriousWakeup
  <2>6. ASSUME NEW c \in Consumers, PopThrow(c) PROVE MutualExclusion'
    BY <2>6 DEF PopThrow
  <2>7. ASSUME NEW c \in Consumers, PopTake(c) PROVE MutualExclusion'
    BY <2>7 DEF PopTake
  <2>8. ASSUME NEW k \in Closers, CloseLock(k) \/ CloseQueue(k)
        PROVE  MutualExclusion'
    <3>1. CASE CloseLock(k)
      BY <2>1, <3>1 DEF CloseLock
    <3>2. CASE CloseQueue(k)
      BY <3>2 DEF CloseQueue
    <3>. QED  BY <2>8, <3>1, <3>2
  <2>9. ASSUME NEW t \in Threads, Unlock(t) PROVE MutualExclusion'
    BY <2>9 DEF Unlock
  <2>10. CASE UNCHANGED vars
    BY <2>10 DEF vars
  <2>. QED
    BY <2>2, <2>3, <2>4, <2>5, <2>6, <2>7, <2>8, <2>9, <2>10 DEF Next
<1>. QED  BY <1>1, <1>2, TypeCorrect, PTL DEF Spec

-----------------------------------------------------------------------------

\* There are as many awake consumers as a natural number can say.
LEMMA AwakeFinite == IsFiniteSet(Awake) /\ Cardinality(Awake) \in Nat
<1>1. Awake \subseteq Consumers
  BY DEF Awake
<1>. QED
  BY <1>1, FS_Subset, FS_CardinalityType, ThreadsAssumption DEF ThreadsAssumption

(***************************************************************************)
(* One pthread_cond_signal per push is enough: the inductive argument is   *)
(* that a push adds an item and wakes a sleeper, a pop takes both away,    *)
(* and nobody falls asleep while there is an item.                         *)
(***************************************************************************)
THEOREM WakeupsAreKept == Spec => []NoLostWakeup
<1>1. Init => NoLostWakeup
  BY DEF Init, NoLostWakeup
<1>2. TypeOK /\ NoLostWakeup /\ [Next]_vars => NoLostWakeup'
  <2> SUFFICES ASSUME TypeOK, NoLostWakeup, [Next]_vars, condWaiters' # {}
               PROVE  ~closed' /\ Len(queue') <= Cardinality(Awake')
    BY DEF NoLostWakeup
  <2> USE ThreadsAssumption DEF ThreadsAssumption, TypeOK, Threads
  <2>1. /\ IsFiniteSet(Awake) /\ Cardinality(Awake) \in Nat
        /\ IsFiniteSet(Awake') /\ Cardinality(Awake') \in Nat
        /\ Len(queue) \in Nat
    <3>1. Awake' \subseteq Consumers
      BY DEF Awake
    <3>2. IsFiniteSet(Awake') /\ Cardinality(Awake') \in Nat
      BY <3>1, FS_Subset, FS_CardinalityType
    <3>. QED  BY AwakeFinite, <3>2
  <2>2. ASSUME condWaiters # {}, ~closed', queue' = queue, Awake \subseteq Awake'
        PROVE  ~closed' /\ Len(queue') <= Cardinality(Awake')
    <3>1. Cardinality(Awake) <= Cardinality(Awake')
      BY <2>1, <2>2, FS_Subset
    <3>. QED  BY <2>1, <2>2, <3>1 DEF NoLostWakeup
  <2>3. ASSUME NEW p \in Producers, PushItem(p)
        PROVE  ~closed' /\ Len(queue') <= Cardinality(Awake')
    <3>1. PICK c \in condWaiters : condWaiters' = condWaiters \ {c}
      BY <2>3 DEF PushItem, Signal
    <3>2. c \notin Awake /\ Awake' = Awake \cup {c}
      BY <2>3, <3>1 DEF PushItem, Awake
    <3>3. Cardinality(Awake') = Cardinality(Awake) + 1
      BY <2>1, <3>2, FS_AddElement
    <3>4. Len(queue') = Len(queue) + 1
      <4>1. <<p, sent[p] + 1>> \in Item
        BY DEF Item
      <4>. QED  BY <2>3, <4>1 DEF PushItem
    <3>. QED  BY <2>1, <2>3, <3>1, <3>3, <3>4 DEF PushItem, NoLostWakeup
  <2>4. ASSUME NEW p \in Producers, PushLock(p)
        PROVE  ~closed' /\ Len(queue') <= Cardinality(Awake')
    <3>1. Awake \subseteq Awake'
      BY <2>4 DEF PushLock, Acquire, Awake
    <3>. QED  BY <2>2, <2>4, <3>1 DEF PushLock, Acquire, NoLostWakeup
  <2>5. ASSUME NEW c \in Consumers, PopLock(c) \/ Reacquire(c)
        PROVE  ~closed' /\ Len(queue') <= Cardinality(Awake')
    <3>1. Awake \subseteq Awake'
      BY <2>5 DEF PopLock, Reacquire, Acquire, Awake
    <3>. QED  BY <2>2, <2>5, <3>1 DEF PopLock, Reacquire, Acquire, NoLostWakeup
  <2>6. ASSUME NEW c \in Consumers, PopWait(c)
        PROVE  ~closed' /\ Len(queue') <= Cardinality(Awake')
    BY <2>1, <2>6 DEF PopWait
  <2>7. ASSUME NEW c \in Consumers, SpuriousWakeup(c)
        PROVE  ~closed' /\ Len(queue') <= Cardinality(Awake')
    <3>1. Awake \subseteq Awake'
      BY <2>7 DEF SpuriousWakeup, Awake
    <3>. QED  BY <2>2, <2>7, <3>1 DEF SpuriousWakeup, NoLostWakeup
  <2>8. ASSUME NEW c \in Consumers, PopThrow(c)
        PROVE  ~closed' /\ Len(queue') <= Cardinality(Awake')
    BY <2>8 DEF PopThrow, NoLostWakeup
  <2>9. ASSUME NEW c \in Consumers, PopTake(c)
        PROVE  ~closed' /\ Len(queue') <= Cardinality(Awake')
    <3>1. c \in Awake /\ Awake' = Awake \ {c}
      BY <2>9 DEF PopTake, Awake
    <3>2. Cardinality(Awake') = Cardinality(Awake) - 1
      BY <2>1, <3>1, FS_RemoveElement
    <3>3. Len(queue') = Len(queue) - 1
      BY <2>9 DEF PopTake
    <3>. QED  BY <2>1, <2>9, <3>2, <3>3 DEF PopTake, NoLostWakeup
  <2>10. ASSUME NEW k \in Closers, CloseLock(k) \/ CloseQueue(k)
         PROVE  ~closed' /\ Len(queue') <= Cardinality(Awake')
    <3>1. CloseLock(k)
      BY <2>10 DEF CloseQueue
    <3>2. Awake \subseteq Awake'
      BY <3>1 DEF CloseLock, Acquire, Awake
    <3>. QED  BY <2>2, <3>1, <3>2 DEF CloseLock, Acquire, NoLostWakeup
  <2>11. ASSUME NEW t \in Threads, Unlock(t)
         PROVE  ~closed' /\ Len(queue') <= Cardinality(Awake')
    <3>1. Awake \subseteq Awake'
      BY <2>11 DEF Unlock, Awake
    <3>. QED  BY <2>2, <2>11, <3>1 DEF Unlock, NoLostWakeup
  <2>12. CASE UNCHANGED vars
    <3>1. Awake' = Awake
      BY <2>12 DEF vars, Awake
    <3>. QED  BY <2>2, <2>12, <3>1 DEF vars, NoLostWakeup
  <2>. QED
    BY <2>3, <2>4, <2>5, <2>6, <2>7, <2>8, <2>9, <2>10, <2>11, <2>12 DEF Next
<1>. QED  BY <1>1, <1>2, TypeCorrect, PTL DEF Spec

-----------------------------------------------------------------------------

(***************************************************************************)
(* The monitor implements the abstract queue, whatever the interleaving:   *)
(* the critical section of push, of a successful pop, of close and of a    *)
(* throwing pop are its four operations, every other step is invisible.    *)
(***************************************************************************)
THEOREM Refinement == Spec => ImplementsFifo
<1>1. Init => Fifo!Init
  BY ThreadsAssumption DEF ThreadsAssumption, Init, Fifo!Init, Threads
<1>2. TypeOK /\ [Next]_vars => [Fifo!Next]_(Fifo!vars)
  <2> SUFFICES ASSUME TypeOK, [Next]_vars PROVE [Fifo!Next]_(Fifo!vars)
    OBVIOUS
  <2> USE ThreadsAssumption DEF ThreadsAssumption, TypeOK, Threads
  <2> DEFINE Refused == {c \in Consumers : pc[c] = "done"}
  <2>1. ASSUME Refused' = Refused, UNCHANGED <<queue, closed, sent, popped>>
        PROVE  UNCHANGED Fifo!vars
    BY <2>1 DEF Fifo!vars
  <2>2. ASSUME NEW p \in Producers, PushLock(p) \/ PushItem(p)
        PROVE  [Fifo!Next]_(Fifo!vars)
    <3>1. Refused' = Refused
      BY <2>2 DEF PushLock, Acquire, PushItem
    <3>2. CASE PushLock(p)
      BY <2>1, <3>1, <3>2 DEF PushLock, Acquire
    <3>3. CASE PushItem(p)
      <4>1. Fifo!Push(p)
        BY <3>1, <3>3 DEF PushItem, Fifo!Push
      <4>. QED  BY <4>1 DEF Fifo!Next
    <3>. QED  BY <2>2, <3>2, <3>3
  <2>3. ASSUME NEW c \in Consumers, PopLock(c) \/ Reacquire(c)
        PROVE  [Fifo!Next]_(Fifo!vars)
    <3>1. Refused' = Refused
      BY <2>3 DEF PopLock, Reacquire, Acquire
    <3>. QED  BY <2>1, <2>3, <3>1 DEF PopLock, Reacquire, Acquire
  <2>4. ASSUME NEW c \in Consumers, PopWait(c) \/ SpuriousWakeup(c)
        PROVE  [Fifo!Next]_(Fifo!vars)
    <3>1. Refused' = Refused
      BY <2>4 DEF PopWait, SpuriousWakeup
    <3>. QED  BY <2>1, <2>4, <3>1 DEF PopWait, SpuriousWakeup
  <2>5. ASSUME NEW c \in Consumers, PopThrow(c)
        PROVE  [Fifo!Next]_(Fifo!vars)
    <3>1. Refused' = Refused \cup {c}
      BY <2>5 DEF PopThrow
    <3>2. Fifo!Refuse(c)
      BY <2>5, <3>1 DEF PopThrow, Fifo!Refuse
    <3>. QED  BY <3>2 DEF Fifo!Next
  <2>6. ASSUME NEW c \in Consumers, PopTake(c)
        PROVE  [Fifo!Next]_(Fifo!vars)
    <3>1. c \notin Refused /\ Refused' = Refused
      BY <2>6 DEF PopTake
    <3>2. Fifo!Pop(c)
      BY <2>6, <3>1 DEF PopTake, Fifo!Pop
    <3>. QED  BY <3>2 DEF Fifo!Next
  <2>7. ASSUME NEW k \in Closers, CloseLock(k) \/ CloseQueue(k)
        PROVE  [Fifo!Next]_(Fifo!vars)
    <3>1. Refused' = Refused
      BY <2>7 DEF CloseLock, Acquire, CloseQueue
    <3>2. CASE CloseLock(k)
      BY <2>1, <3>1, <3>2 DEF CloseLock, Acquire
    <3>3. CASE CloseQueue(k)
      <4>1. Fifo!Close
        BY <3>1, <3>3 DEF CloseQueue, Fifo!Close
      <4>. QED  BY <4>1 DEF Fifo!Next
    <3>. QED  BY <2>7, <3>2, <3>3
  <2>8. ASSUME NEW t \in Threads, Unlock(t) PROVE [Fifo!Next]_(Fifo!vars)
    <3>1. Refused' = Refused
      BY <2>8 DEF Unlock
    <3>. QED  BY <2>1, <2>8, <3>1 DEF Unlock
  <2>9. CASE UNCHANGED vars
    BY <2>1, <2>9 DEF vars
  <2>. QED
    BY <2>2, <2>3, <2>4, <2>5, <2>6, <2>7, <2>8, <2>9 DEF Next
<1>. QED  BY <1>1, <1>2, TypeCorrect, PTL DEF Spec, ImplementsFifo, Fifo!Spec

-----------------------------------------------------------------------------
(* Order and number of the items                                           *)

\* Everything pushed so far: what pop has returned, then what is queued.
Stream == popped \o queue

\* The items of each producer come in the order it pushed them, none of the
\* count it pushed is missing, and none comes twice.
EachOnceInOrder(items, count) ==
    /\ \A k \in 1 .. Len(items) : items[k][2] \in 1 .. count[items[k][1]]
    /\ \A p \in Producers : \A n \in 1 .. count[p] :
           \E k \in 1 .. Len(items) : items[k] = <<p, n>>
    /\ \A j, k \in 1 .. Len(items) :
           j < k /\ items[j][1] = items[k][1] => items[j][2] < items[k][2]

\* A producer's next item, appended, keeps them so.
LEMMA NextItem ==
  ASSUME NEW st \in Seq(Item), NEW p \in Producers,
         NEW count \in [Producers -> Nat],
         EachOnceInOrder(st, count)
  PROVE  EachOnceInOrder(Append(st, <<p, count[p] + 1>>), [count EXCEPT ![p] = @ + 1])
<1>. USE DEF EachOnceInOrder
<1> DEFINE new == Append(st, <<p, count[p] + 1>>)
           count2 == [count EXCEPT ![p] = @ + 1]
<1>9. <<p, count[p] + 1>> \in Item
  BY DEF Item
<1>1. PICK N \in Nat, x \in Item : N = Len(st) /\ x = <<p, count[p] + 1>>
  BY <1>9
<1>2. /\ x[1] = p /\ x[2] = count[p] + 1 /\ count[p] \in Nat
      /\ Len(new) = N + 1
      /\ new[N + 1] = x
      /\ \A k \in 1 .. N : new[k] = st[k]
  BY <1>1
<1> HIDE DEF new
<1>3. \A k \in 1 .. N + 1 : k \in 1 .. N \/ k = N + 1
  BY <1>1
<1>4. \A k \in 1 .. N : st[k] \in Item /\ st[k][1] \in Producers /\ st[k][2] \in Nat
  BY <1>1 DEF Item
<1>5. /\ count2[p] = count[p] + 1
      /\ \A q \in Producers : count[q] \in Nat /\ count2[q] >= count[q]
      /\ \A q \in Producers : q # p => count2[q] = count[q]
  BY <1>2
<1> HIDE DEF count2
<1>6. ASSUME NEW k \in 1 .. Len(new) PROVE new[k][2] \in 1 .. count2[new[k][1]]
  <2>1. CASE k \in 1 .. N
    <3>1. st[k][2] \in 1 .. count[st[k][1]]
      BY <1>1, <2>1
    <3>2. count2[st[k][1]] >= count[st[k][1]] /\ count2[st[k][1]] \in Nat
      BY <1>4, <1>5, <2>1
    <3>. QED  BY <1>2, <1>4, <1>5, <2>1, <3>1, <3>2
  <2>2. CASE k = N + 1
    BY <1>2, <1>5, <2>2
  <2>. QED  BY <1>2, <1>3, <2>1, <2>2
<1>7. ASSUME NEW q \in Producers, NEW n \in 1 .. count2[q]
      PROVE  \E k \in 1 .. Len(new) : new[k] = <<q, n>>
  <2>1. CASE n \in 1 .. count[q]
    <3>1. PICK k \in 1 .. N : st[k] = <<q, n>>
      BY <1>1, <2>1
    <3>2. k \in 1 .. Len(new) /\ new[k] = <<q, n>>
      BY <1>1, <1>2, <3>1
    <3>. QED  BY <3>2
  <2>2. CASE n \notin 1 .. count[q]
    <3>1. q = p /\ n = count[p] + 1
      BY <1>5, <2>2
    <3>2. N + 1 \in 1 .. Len(new) /\ new[N + 1] = <<q, n>>
      BY <1>1, <1>2, <3>1
    <3>. QED  BY <3>2
  <2>. QED  BY <2>1, <2>2
<1>8. ASSUME NEW j \in 1 .. Len(new), NEW k \in 1 .. Len(new),
             j < k, new[j][1] = new[k][1]
      PROVE  new[j][2] < new[k][2]
  <2>1. j \in 1 .. N
    BY <1>1, <1>2, <1>8
  <2>2. CASE k \in 1 .. N
    BY <1>1, <1>2, <1>8, <2>1, <2>2
  <2>3. CASE k = N + 1
    <3>1. st[j][1] = p /\ st[j][2] \in 1 .. count[st[j][1]]
      BY <1>1, <1>2, <1>8, <2>1, <2>3
    <3>. QED  BY <1>2, <2>1, <2>3, <3>1
  <2>. QED  BY <1>2, <1>3, <2>2, <2>3
<1>. QED  BY <1>6, <1>7, <1>8 DEF new, count2

\* Appending to the queue appends to the stream; a pop leaves it as it is.
LEMMA StreamMoves ==
  ASSUME NEW S, NEW a \in Seq(S), NEW b \in Seq(S)
  PROVE  /\ \A x \in S : a \o Append(b, x) = Append(a \o b, x)
         /\ b # <<>> => Append(a, Head(b)) \o Tail(b) = a \o b
<1>1. ASSUME NEW x \in S PROVE a \o Append(b, x) = Append(a \o b, x)
  OBVIOUS
<1>2. ASSUME b # <<>> PROVE Append(a, Head(b)) \o Tail(b) = a \o b
  BY <1>2
<1>. QED  BY <1>1, <1>2

(***************************************************************************)
(* Whatever the interleaving of pushes, pops, waits and close, the queue   *)
(* loses no item, hands out none twice, and keeps each producer's order.   *)
(***************************************************************************)
THEOREM NothingLostOrDoubled == Spec => []EachOnceInOrder(Stream, sent)
<1>1. Init => EachOnceInOrder(Stream, sent)
  <2> SUFFICES ASSUME Init PROVE EachOnceInOrder(Stream, sent)
    OBVIOUS
  <2>1. Stream = <<>> /\ Len(Stream) = 0
    BY DEF Init, Stream
  <2>. QED  BY <2>1 DEF Init, EachOnceInOrder
<1>2. TypeOK /\ EachOnceInOrder(Stream, sent) /\ [Next]_vars
          => EachOnceInOrder(Stream, sent)'
  <2> SUFFICES ASSUME TypeOK, EachOnceInOrder(Stream, sent), [Next]_vars
               PROVE  EachOnceInOrder(Stream, sent)'
    OBVIOUS
  <2>1. /\ queue \in Seq(Item) /\ popped \in Seq(Item)
        /\ sent \in [Producers -> Nat]
        /\ Stream \in Seq(Item)
    BY DEF TypeOK, Stream
  <2>2. ASSUME Stream' = Stream, sent' = sent PROVE EachOnceInOrder(Stream, sent)'
    BY <2>2
  <2>3. ASSUME NEW p \in Producers, PushItem(p) PROVE EachOnceInOrder(Stream, sent)'
    <3>1. <<p, sent[p] + 1>> \in Item
      BY <2>1 DEF Item
    <3>2. Stream' = Append(Stream, <<p, sent[p] + 1>>)
      BY <2>1, <2>3, <3>1, StreamMoves DEF PushItem, Stream
    <3>3. sent' = [sent EXCEPT ![p] = @ + 1]
      BY <2>3 DEF PushItem
    <3>. HIDE DEF Stream
    <3>. QED  BY <2>1, <3>2, <3>3, NextItem
  <2>4. ASSUME NEW c \in Consumers, PopTake(c) PROVE EachOnceInOrder(Stream, sent)'
    <3>1. Stream' = Stream /\ sent' = sent
      BY <2>1, <2>4, StreamMoves DEF PopTake, Stream
    <3>. QED  BY <2>2, <3>1
  <2>5. ASSUME UNCHANGED <<queue, popped, sent>> PROVE EachOnceInOrder(Stream, sent)'
    BY <2>2, <2>5 DEF Stream
  <2>. QED
    BY <2>3, <2>4, <2>5
    DEF Next, PushLock, PopLock, PopWait, SpuriousWakeup, Reacquire, PopThrow,
        CloseLock, CloseQueue, Unlock, Acquire, vars
<1>. QED  BY <1>1, <1>2, TypeCorrect, PTL DEF Spec

-----------------------------------------------------------------------------
(* What is safe of ItemsReachConsumers and CloseReleasesConsumers          *)

\* A consumer that can take the mutex now: it calls pop, or it was woken.
CanLock(c) ==
    /\ mutex = NoThread
    /\ \/ pc[c] = "idle"
       \/ pc[c] = "waiting" /\ c \notin condWaiters

\* While a consumer has something to get, an item or its exception, somebody
\* can run: the holder of the mutex, or a consumer that is awake.
SomebodyRuns ==
    (queue # <<>> \/ closed) /\ (\E c \in Consumers : pc[c] # "done") =>
        \/ \E t \in Threads : mutex = t /\ Holding(t)
        \/ \E c \in Consumers : CanLock(c)

(***************************************************************************)
(* The monitor never comes to a state in which an item or the end of the   *)
(* queue waits for consumers that all sleep: with the wakeups kept, the    *)
(* mutex's holder or an awake consumer can always go on.                   *)
(***************************************************************************)
THEOREM NeverStuck == Spec => []SomebodyRuns
<1>1. TypeOK /\ MutualExclusion /\ NoLostWakeup => SomebodyRuns
  <2> SUFFICES ASSUME TypeOK, MutualExclusion, NoLostWakeup,
                      queue # <<>> \/ closed,
                      NEW c \in Consumers, pc[c] # "done", mutex = NoThread
               PROVE  \E d \in Consumers : CanLock(d)
    BY DEF SomebodyRuns, TypeOK, MutualExclusion
  <2>1. \A d \in Consumers : pc[d] \in {"idle", "waiting", "done"}
    BY ThreadsAssumption
    DEF ThreadsAssumption, TypeOK, Locations, Threads, MutualExclusion, Holding
  <2>2. CASE c \notin condWaiters
    BY <2>1, <2>2 DEF CanLock
  <2>3. CASE c \in condWaiters
    <3>1. queue # <<>> /\ Len(queue) <= Cardinality(Awake)
      BY <2>3 DEF NoLostWakeup
    <3>2. Len(queue) \in Nat /\ Len(queue) # 0
      BY <3>1 DEF TypeOK
    <3>3. Awake # {}
      BY <3>1, <3>2, AwakeFinite, FS_EmptySet
    <3>4. PICK d \in Awake : TRUE
      BY <3>3
    <3>. QED  BY <2>1, <3>4 DEF Awake, CanLock
  <2>. QED  BY <2>2, <2>3
<1>. QED  BY <1>1, TypeCorrect, Exclusion, WakeupsAreKept, PTL
=============================================================================
